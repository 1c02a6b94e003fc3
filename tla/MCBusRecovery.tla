--------------------------- MODULE MCBusRecovery ---------------------------
(* Instances of BusRecovery for TLC; the constants are in the .cfg files.  *)
EXTENDS BusRecovery
=============================================================================
