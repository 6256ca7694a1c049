------------------------------- MODULE MCBoot -------------------------------
(* Finite instances of Boot for TLC. *)
EXTENDS Boot, TLC
=============================================================================
