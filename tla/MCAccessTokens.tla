--------------------------- MODULE MCAccessTokens ---------------------------
(* Finite instances of AccessTokens for TLC. *)
EXTENDS AccessTokens, TLC

(* Nothing in the specification tells one member of these sets from another. *)
MCSymmetry == Permutations(Tokens) \cup Permutations(Replicas) \cup Permutations(Handlers)
=============================================================================
