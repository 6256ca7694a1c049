---------------------------- MODULE MCTwoFactor ----------------------------
(* Finite instances of TwoFactor for TLC. *)
EXTENDS TwoFactor, TLC

(* Nothing in the specification tells one member of these sets from another. *)
MCSymmetry == Permutations(Secrets) \cup Permutations(Numbers) \cup Permutations(Handlers)
=============================================================================
