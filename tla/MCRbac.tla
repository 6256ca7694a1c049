------------------------------- MODULE MCRbac -------------------------------
(* Finite instances of Rbac for TLC. *)
EXTENDS Rbac, TLC

(* Of the templates, only the administrator's grants anything. *)
MCTemplateGrants == {Admin} \X Perms

MCSymmetry == Permutations(Handlers)
=============================================================================
