----------------------------- MODULE MCSessions -----------------------------
(* Finite instances of Sessions for TLC. *)
EXTENDS Sessions, TLC

(* Nothing in the specification tells one member of these sets from another. *)
MCSymmetry == Permutations(Users) \cup Permutations(Bindings)
                \cup Permutations(Tokens) \cup Permutations(Handlers)
=============================================================================
