----------------------------- MODULE MCTenancy -----------------------------
(* Finite instances of Tenancy for TLC. *)
EXTENDS Tenancy, TLC

CONSTANTS t1, p1

(* One tenant has a project, the other has none. *)
MCTenantOf == p1 :> t1

MCSymmetry == Permutations(Handlers)
=============================================================================
