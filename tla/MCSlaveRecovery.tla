-------------------------- MODULE MCSlaveRecovery --------------------------
(* Model-checking instance of SlaveRecovery; the bounds are in the .cfg    *)
(* files.                                                                  *)
EXTENDS SlaveRecovery
=============================================================================
