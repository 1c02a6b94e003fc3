------------------------------ MODULE MCCia402 ------------------------------
(* Small instances of Cia402 for TLC: the commands each run issues.         *)
EXTENDS Cia402

MCPosition == 0 .. 3
MCNear == 0 .. 2

\* CSP with changes of mode.
Cyclic    == [op : {"ENABLE", "DISABLE", "QUICKSTOP", "FAULT_RESET"}] \cup [op : {"SET_MODE"}, mode : {"CSP", "HM"}]

\* The profile modes: points of both kinds, homing.
Profiles  == [op : {"ENABLE", "DISABLE", "HOME"}] \cup [op : {"SET_MODE"}, mode : {"PP", "HM"}]
             \cup {[op |-> "PP_POINT", p |-> 1, imm |-> FALSE], [op |-> "PP_POINT", p |-> 2, imm |-> TRUE]}
=============================================================================
