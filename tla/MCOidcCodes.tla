---------------------------- MODULE MCOidcCodes ----------------------------
(* Finite instances of OidcCodes for TLC. *)
EXTENDS OidcCodes, TLC

MCSymmetry == Permutations(Codes) \cup Permutations(Handlers)
=============================================================================
