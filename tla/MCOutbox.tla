------------------------------ MODULE MCOutbox ------------------------------
(* Finite instances of Outbox for TLC. *)
EXTENDS Outbox, TLC

(* Nothing in the specification tells one relay or one user from another.  *)
(* Not for the runs that check liveness.                                   *)
MCSymmetry == Permutations(Relays) \cup Permutations(Ids)
=============================================================================
