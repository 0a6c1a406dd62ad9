-------------------------- MODULE MCMacaroonService --------------------------
(* Instances of MacaroonService for TLC. *)
EXTENDS MacaroonService

CONSTANTS read, write

TwoPerms == {read, write}
=============================================================================
