--------------------------- MODULE MCCredentials ---------------------------
(* Finite instances of Credentials for TLC. *)
EXTENDS Credentials, TLC

MCSymmetry == Permutations(Handlers) \cup Permutations(Logins)
=============================================================================
