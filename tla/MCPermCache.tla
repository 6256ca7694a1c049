---------------------------- MODULE MCPermCache ----------------------------
(* Finite instances of PermCache for TLC. *)
EXTENDS PermCache, TLC

(* Nothing in the specification tells one member of these sets from another. *)
MCSymmetry == Permutations(Keys) \cup Permutations(Perms) \cup Permutations(Handlers)
=============================================================================
