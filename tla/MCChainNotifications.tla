------------------------ MODULE MCChainNotifications ------------------------
(* Instances of ChainNotifications for TLC. *)
EXTENDS ChainNotifications

NoneOrOne == {0, 1}
=============================================================================
