------------------------------ MODULE MCMaster ------------------------------
(***************************************************************************)
(* The parts of the master that read the bus or are set up from it, and    *)
(* the state machine of a slave, each on its own in a behaviour: "part"    *)
(* says which one runs, the others stay where they started.                *)
(***************************************************************************)
EXTENDS RtReplies, BusDiag, Turnaround, Freshness, MCBringUp, EscNode

VARIABLE part

mcVars == <<part, rtVars, diagVars, turnVars, freshVars, buVars, escVars>>

MCInit ==
  /\ part \in {"replies", "diag", "turnaround", "fresh", "bringup", "node"}
  /\ part # "bringup" => cfg = Nothing
  /\ BuInit
  /\ RtInit /\ DiagInit /\ TurnInit /\ FreshInit /\ EscInit
  /\ part # "fresh" => count = 0

MCNext ==
  /\ UNCHANGED part
  /\ \/ part = "replies"    /\ RtNext    /\ UNCHANGED <<diagVars, turnVars, freshVars, buVars, escVars>>
     \/ part = "diag"       /\ DiagNext  /\ UNCHANGED <<rtVars, turnVars, freshVars, buVars, escVars>>
     \/ part = "turnaround" /\ TurnNext  /\ UNCHANGED <<rtVars, diagVars, freshVars, buVars, escVars>>
     \/ part = "fresh"      /\ FreshNext /\ UNCHANGED <<rtVars, diagVars, turnVars, buVars, escVars>>
     \/ part = "bringup"    /\ BuNext    /\ UNCHANGED <<rtVars, diagVars, turnVars, freshVars, escVars>>
     \/ part = "node"       /\ EscNext   /\ UNCHANGED <<rtVars, diagVars, turnVars, freshVars, buVars>>

MCSpec == MCInit /\ [][MCNext]_mcVars
=============================================================================
