--------------------------- MODULE SlaveRecovery ---------------------------
(***************************************************************************)
(* Recovery of single slaves: the planner of the monitor thread            *)
(* (ecm_srec_decide, recovery_step), the command queue on which it asks    *)
(* the RT thread for AL control writes (path A), the blocking              *)
(* reconfiguration of one slave (path B), and recover_full, which repairs  *)
(* all slaves while the monitor owns the bus.                              *)
(*                                                                         *)
(* The bus is the abstract one of module BusOwner, which BusRecovery is    *)
(* shown to implement.  A slave is its AL state, the class of its AL       *)
(* status code and whether it answers its configured address.  A           *)
(* diagnostic read is one frame, a snapshot of all slaves (one frame holds *)
(* 22); it reaches the monitor later, through the two-slot handoff, here   *)
(* the queue that module Handoff implements.  Backoff times are abstracted *)
(* to "not yet" and "over".  Faults of slaves and wire, and answers other  *)
(* than the wanted one, are counted and bounded.                           *)
(***************************************************************************)
EXTENDS Integers, Sequences

CONSTANTS
  NSlaves,       \* g_srec.n
  MaxAttempts,   \* g_srec.max_attempts (5)
  CmdqLen,       \* ECM_CMDQ_LEN (16)
  MaxFaults      \* bound on faults in a behaviour

ASSUME PlannerAssumption ==
  /\ NSlaves \in Nat \ {0} /\ MaxAttempts \in Nat \ {0}
  /\ CmdqLen \in Nat \ {0} /\ MaxFaults \in Nat

Slaves   == 1 .. NSlaves
AlState  == {"INIT", "PREOP", "SAFEOP", "OP"}
AlClass  == {"OK", "TRANSIENT", "CONFIG"}        \* ecm_al_code_class
Handoffs == 2

VARIABLES
  \* slaves and wire
  slave,         \* [Slaves -> [al, err, ans]]
  reach,         \* slaves in front of a cable break
  faults,
  \* bus ownership
  owner, serving, verdict,
  \* RT thread -> monitor, monitor -> RT thread
  handoff, cmdq,
  \* planner: g_srec.s[i]
  attempts, waiting, failed,
  \* monitor thread: what it is doing, for which slave, on which read
  mon, pos, read,
  \* history: planner actions since the slave was last seen healthy, and
  \* slaves left in PRE-OP because their InitCmds failed
  started, kept

Bus == INSTANCE BusOwner

wire    == <<slave, reach, faults>>
bus     == <<owner, serving, verdict>>
planner == <<attempts, waiting, failed, started>>
monitor == <<mon, pos, read>>
vars    == <<wire, bus, handoff, cmdq, planner, monitor, kept>>

SlaveState == [al : AlState, err : AlClass, ans : BOOLEAN]
Read       == [slave : [Slaves -> SlaveState], reach : 0 .. NSlaves]
Command    == [s : Slaves, al : AlState, ack : BOOLEAN]
Healthy    == [al |-> "OP", err |-> "OK", ans |-> TRUE]
NoRead     == [slave |-> [s \in Slaves |-> Healthy], reach |-> 0]

TypeOK ==
  /\ slave \in [Slaves -> SlaveState] /\ reach \in 0 .. NSlaves /\ faults \in 0 .. MaxFaults
  /\ owner \in {"rt", "monitor"} /\ serving \in BOOLEAN /\ verdict \in {"none", "ok", "failed"}
  /\ handoff \in Seq(Read) /\ Len(handoff) <= Handoffs
  /\ cmdq \in Seq(Command) /\ Len(cmdq) <= CmdqLen
  /\ attempts \in [Slaves -> 0 .. MaxAttempts] /\ waiting \in [Slaves -> BOOLEAN]
  /\ failed \in [Slaves -> {"no", "failed", "config"}]
  /\ mon \in {"loop", "step", "pathb", "full"} /\ pos \in 1 .. NSlaves + 1 /\ read \in Read
  /\ started \in [Slaves -> Nat] /\ kept \in SUBSET Slaves

Init ==
  /\ slave = [s \in Slaves |-> Healthy] /\ reach = NSlaves /\ faults = 0
  /\ Bus!OwnerInit
  /\ handoff = <<>> /\ cmdq = <<>>
  /\ attempts = [s \in Slaves |-> 0] /\ waiting = [s \in Slaves |-> FALSE]
  /\ failed = [s \in Slaves |-> "no"]
  /\ mon = "loop" /\ pos = 1 /\ read = NoRead
  /\ started = [s \in Slaves |-> 0] /\ kept = {}

-----------------------------------------------------------------------------
(* The slaves.                                                             *)

\* Something goes wrong: one more of the MaxFaults.
Fault == faults < MaxFaults /\ faults' = faults + 1

\* A slave loses OP with an error, or its power and with it its address.
SlaveFault(s) ==
  /\ Fault
  /\ \/ slave[s].al = "OP" /\ \E c \in {"TRANSIENT", "CONFIG"} :
          slave' = [slave EXCEPT ![s] = [al |-> "SAFEOP", err |-> c, ans |-> TRUE]]
     \/ slave' = [slave EXCEPT ![s] = [al |-> "INIT", err |-> "OK", ans |-> FALSE]]
  /\ kept' = kept \ {s}
  /\ UNCHANGED <<reach, bus, handoff, cmdq, planner, monitor>>

\* A cable breaks or is mended.
CableChange ==
  /\ \/ Fault /\ reach' \in 0 .. reach - 1
     \/ reach < NSlaves /\ reach' = NSlaves /\ UNCHANGED faults
  /\ UNCHANGED <<slave, bus, handoff, cmdq, planner, monitor, kept>>

\* AL control written to a slave that hears it: what it may become.  With the
\* ack bit an error is cleared; without it a slave in error ignores requests;
\* OP is entered only from SAFEOP, and may be refused, which is a fault.
AlControl(st, target, ack) ==
  IF st.err # "OK" /\ ~ack THEN st
  ELSE IF (target = "OP" /\ st.al \in {"INIT", "PREOP"}) \/ (target = "SAFEOP" /\ st.al = "INIT")
  THEN [st EXCEPT !.err = "TRANSIENT"]
  ELSE [st EXCEPT !.al = target, !.err = "OK"]

-----------------------------------------------------------------------------
(* The RT thread, in RUN or DEGRADED.                                      *)

Cyclic == serving /\ owner = "rt"

\* ecm_diag_handoff_put: dropped when both slots are full.
HandoffPut(r) == handoff' = IF Len(handoff) < Handoffs THEN Append(handoff, r) ELSE handoff

\* A diagnostic frame comes back, or is given up and handed over as a read
\* that shows no slave.
DiagRead ==
  /\ Cyclic
  /\ \/ HandoffPut([slave |-> slave, reach |-> reach]) /\ UNCHANGED faults
     \/ Fault /\ HandoffPut(NoRead)
  /\ UNCHANGED <<slave, reach, bus, cmdq, planner, monitor, kept>>

\* rt_exec_command: the head of the queue is written to the slave and removed,
\* whether or not the frame came back.
rt_exec_command ==
  /\ Cyclic /\ cmdq # <<>>
  /\ LET c == Head(cmdq)
         st == slave[c.s]
     IN \/ /\ c.s <= reach /\ st.ans
           /\ slave' = [slave EXCEPT ![c.s] = AlControl(st, c.al, c.ack)]
           /\ UNCHANGED faults
        \/ /\ c.s <= reach /\ st.ans /\ c.al = "OP" /\ st.al = "SAFEOP"
           /\ Fault
           /\ \E e \in {"TRANSIENT", "CONFIG"} : slave' = [slave EXCEPT ![c.s].err = e]
        \/ (c.s > reach \/ ~st.ans) /\ UNCHANGED <<slave, faults>>
        \/ Fault /\ UNCHANGED slave
  /\ cmdq' = Tail(cmdq)
  /\ UNCHANGED <<reach, bus, handoff, planner, monitor, kept>>

\* The bus is lost, handed over and taken back as in BusRecovery.  Without
\* process data the watchdogs take the slaves out of OP, where they are on.
LoseBus ==
  /\ Fault /\ Bus!Lose
  /\ slave' \in {slave, [s \in Slaves |->
       IF slave[s].al = "OP" THEN [slave[s] EXCEPT !.al = "SAFEOP", !.err = "TRANSIENT"]
       ELSE slave[s]]}
  /\ UNCHANGED <<reach, handoff, cmdq, planner, monitor, kept>>

HandOver == reach > 0 /\ Bus!HandOver /\ UNCHANGED <<wire, handoff, cmdq, planner, monitor, kept>>

TakeBack == Bus!Act /\ UNCHANGED <<wire, handoff, cmdq, planner, monitor, kept>>

RtStep == DiagRead \/ rt_exec_command \/ HandOver \/ TakeBack

-----------------------------------------------------------------------------
(* The planner: ecm_srec_decide for one slave of a read.                   *)

IsHealthy(st) == st.ans /\ st.al = "OP" /\ st.err = "OK"

\* The action the state calls for, before it is gated.
Wanted(st) ==
  IF ~st.ans \/ st.al \in {"INIT", "PREOP"} THEN "RECONFIG"
  ELSE IF st.err # "OK" THEN "ACK"
  ELSE IF st.al = "SAFEOP" THEN "OP" ELSE "NONE"

Gated(a) == a \in {"ACK", "RECONFIG"}

\* A slip: the bound is compared only for ACK.
Unbounded_Verdict(s, st, r) ==
  IF s > r THEN "BEHIND_BREAK"
  ELSE IF IsHealthy(st) THEN "HEALTHY"
  ELSE IF failed[s] # "no" THEN "FAILED"
  ELSE IF st.ans /\ st.err = "CONFIG" THEN "REFUSED"
  ELSE IF Gated(Wanted(st)) /\ waiting[s] THEN "BACKOFF"
  ELSE IF Wanted(st) = "ACK" /\ attempts[s] >= MaxAttempts THEN "GIVE_UP"
  ELSE Wanted(st)

\* The decision for slave s: one of the early returns or an action.
Verdict(s, st, r) ==
  IF s > r THEN "BEHIND_BREAK"
  ELSE IF IsHealthy(st) THEN "HEALTHY"
  ELSE IF failed[s] # "no" THEN "FAILED"
  ELSE IF st.ans /\ st.err = "CONFIG" THEN "REFUSED"
  ELSE IF Gated(Wanted(st)) /\ waiting[s] THEN "BACKOFF"
  ELSE IF Gated(Wanted(st)) /\ attempts[s] >= MaxAttempts THEN "GIVE_UP"
  ELSE Wanted(st)

\* A slip: the decision to give up is not remembered.
Forgetful_Plan(s, v) ==
  /\ failed' = CASE v = "HEALTHY" -> [failed EXCEPT ![s] = "no"]
                 [] v = "REFUSED" -> [failed EXCEPT ![s] = "config"]
                 [] OTHER -> failed
  /\ attempts' = [attempts EXCEPT ![s] = IF v = "HEALTHY" THEN 0 ELSE IF Gated(v) THEN @ + 1 ELSE @]
  /\ started' = attempts'
  /\ waiting' = [waiting EXCEPT ![s] = v # "HEALTHY" /\ (@ \/ Gated(v))]

\* What the decision leaves in the plan.
Plan(s, v) ==
  /\ failed' = CASE v = "HEALTHY" -> [failed EXCEPT ![s] = "no"]
                 [] v = "REFUSED" -> [failed EXCEPT ![s] = "config"]
                 [] v = "GIVE_UP" -> [failed EXCEPT ![s] = "failed"]
                 [] OTHER -> failed
  /\ attempts' = [attempts EXCEPT ![s] = IF v = "HEALTHY" THEN 0 ELSE IF Gated(v) THEN @ + 1 ELSE @]
  /\ waiting' = CASE v = "HEALTHY" -> [waiting EXCEPT ![s] = FALSE]
                  [] Gated(v) -> [waiting EXCEPT ![s] = TRUE]
                  [] OTHER -> waiting
  /\ started' = CASE v = "HEALTHY" -> [started EXCEPT ![s] = 0]
                  [] Gated(v) -> [started EXCEPT ![s] = @ + 1]
                  [] OTHER -> started

\* ecm_cmdq_push: dropped when the queue is full.
Push(c) == cmdq' = IF Len(cmdq) < CmdqLen THEN Append(cmdq, c) ELSE cmdq

\* Time passes: now_ns reaches next_try_ns.
BackoffOver(s) ==
  /\ waiting[s] /\ waiting' = [waiting EXCEPT ![s] = FALSE]
  /\ UNCHANGED <<wire, bus, handoff, cmdq, attempts, failed, started, monitor, kept>>

-----------------------------------------------------------------------------
(* The monitor thread.                                                     *)

\* diag_process_pending and the start of recovery_step: all pending reads are
\* taken in, the last one counts; outside RUN and DEGRADED nothing is planned.
StartStep ==
  /\ mon = "loop" /\ owner = "rt" /\ handoff # <<>>
  /\ handoff' = <<>>
  /\ IF serving THEN mon' = "step" /\ pos' = 1 /\ read' = handoff[Len(handoff)]
     ELSE UNCHANGED monitor
  /\ UNCHANGED <<wire, bus, cmdq, planner, kept>>

\* One slave of recovery_step.
Decide ==
  /\ mon = "step" /\ pos \in Slaves
  /\ LET st == read.slave[pos]
         v  == Verdict(pos, st, read.reach)
     IN /\ Plan(pos, v)
        /\ CASE v = "ACK" -> Push([s |-> pos, al |-> st.al, ack |-> TRUE])
             [] v = "OP"  -> Push([s |-> pos, al |-> "OP", ack |-> FALSE])
             [] OTHER     -> UNCHANGED cmdq
        /\ IF v = "RECONFIG" THEN mon' = "pathb" /\ UNCHANGED pos
           ELSE pos' = pos + 1 /\ UNCHANGED mon
  /\ UNCHANGED <<wire, bus, handoff, read, kept>>

EndStep ==
  /\ mon = "step" /\ pos > NSlaves
  /\ mon' = "loop" /\ pos' = 1 /\ read' = NoRead
  /\ UNCHANGED <<wire, bus, handoff, cmdq, planner, kept>>

\* Outcomes of recover_path_b(s): SAFE-OP, the wanted one; or as faults the
\* slave does not take its address, stays below SAFE-OP, or fails its InitCmds
\* and is kept in PRE-OP (recover_config_failed).
PathBOutcome(s) ==
  \/ /\ s <= reach
     /\ slave' = [slave EXCEPT ![s] = [al |-> "SAFEOP", err |-> "OK", ans |-> TRUE]]
     /\ kept' = kept \ {s}
     /\ UNCHANGED <<faults, failed>>
  \/ s > reach /\ UNCHANGED <<slave, faults, failed, kept>>
  \/ Fault /\ UNCHANGED <<slave, failed, kept>>
  \/ /\ s <= reach /\ Fault
     /\ slave' = [slave EXCEPT ![s] = [al |-> "PREOP", err |-> "TRANSIENT", ans |-> TRUE]]
     /\ kept' = kept \ {s}
     /\ UNCHANGED failed
  \/ /\ s <= reach /\ Fault
     /\ slave' = [slave EXCEPT ![s] = [al |-> "PREOP", err |-> "OK", ans |-> TRUE]]
     /\ failed' = [failed EXCEPT ![s] = "config"]
     /\ kept' = kept \cup {s}

PathBEnd ==
  /\ mon = "pathb"
  /\ PathBOutcome(pos)
  /\ mon' = "step" /\ pos' = pos + 1
  /\ UNCHANGED <<reach, bus, handoff, cmdq, attempts, waiting, started, read>>

\* recover_full: the slaves that answer a BRD, one by one, then OP for all, then
\* the answer.
FullStart ==
  /\ mon = "loop" /\ owner = "monitor"
  /\ mon' = "full" /\ pos' = 1 /\ read' = [NoRead EXCEPT !.reach = reach]
  /\ UNCHANGED <<wire, bus, handoff, cmdq, planner, kept>>

\* What recover_full does with slave s: path B when its AL status could not be
\* read or is below SAFE-OP, an acknowledgement of an error otherwise.
FullRepair(s) ==
  LET st == slave[s] IN
  \/ PathBOutcome(s)
  \/ /\ s <= reach /\ st.ans /\ st.al \in {"SAFEOP", "OP"}
     /\ slave' = [slave EXCEPT ![s].err = "OK"]
     /\ UNCHANGED <<faults, failed, kept>>

\* A slip: a slave that refused its configuration is tried again.
Retrying_FullSlave ==
  /\ mon = "full" /\ pos \in Slaves
  /\ IF pos > read.reach THEN UNCHANGED <<slave, faults, failed, kept>> ELSE FullRepair(pos)
  /\ pos' = pos + 1
  /\ UNCHANGED <<reach, bus, handoff, cmdq, attempts, waiting, started, mon, read>>

FullSlave ==
  /\ mon = "full" /\ pos \in Slaves
  /\ IF pos > read.reach \/ failed[pos] = "config"
     THEN UNCHANGED <<slave, faults, failed, kept>>
     ELSE FullRepair(pos)
  /\ pos' = pos + 1
  /\ UNCHANGED <<reach, bus, handoff, cmdq, attempts, waiting, started, mon, read>>

\* The broadcast of OP: every slave that hears it and can follow does, except
\* for one that refuses.  The answer is good if any slave is in OP.
Broadcast == [s \in Slaves |-> IF s <= reach THEN AlControl(slave[s], "OP", FALSE) ELSE slave[s]]

FullEnd ==
  /\ mon = "full" /\ pos > NSlaves
  /\ \/ slave' = Broadcast /\ UNCHANGED faults
     \/ Fault /\ \E t \in Slaves : slave' = [Broadcast EXCEPT ![t] = slave[t]]
  /\ Bus!Answer
  /\ verdict' = IF \E s \in Slaves : s <= reach /\ slave'[s].al = "OP" THEN "ok" ELSE "failed"
  /\ mon' = "loop" /\ pos' = 1 /\ read' = NoRead
  /\ UNCHANGED <<reach, handoff, cmdq, planner, kept>>

MonStep == StartStep \/ Decide \/ EndStep \/ PathBEnd \/ FullStart \/ FullSlave \/ FullEnd

Next == \/ RtStep \/ LoseBus \/ MonStep \/ CableChange
        \/ \E s \in Slaves : SlaveFault(s) \/ BackoffOver(s)

Spec == Init /\ [][Next]_vars

\* Every thread goes on; diagnostic frames, queued commands and probes get
\* their tick again and again; backoff times end.
Fairness ==
  /\ WF_vars(DiagRead) /\ WF_vars(rt_exec_command)
  /\ WF_vars(HandOver) /\ WF_vars(TakeBack)
  /\ WF_vars(MonStep)
  /\ \A s \in Slaves : WF_vars(BackoffOver(s))

FairSpec == Spec /\ Fairness

-----------------------------------------------------------------------------
(* Properties.                                                             *)

\* Between two healthy reads of a slave the planner starts at most MaxAttempts
\* acknowledgements and reconfigurations, and it gives the slave up only when
\* it has started that many.
BoundedRecovery ==
  \A s \in Slaves :
    /\ started[s] <= MaxAttempts
    /\ failed[s] = "failed" => started[s] = MaxAttempts

\* A slave that refused its configuration is not acknowledged, asked for OP or
\* reconfigured again by the planner or slave by slave in recover_full.
ConfigFailureIsFinal ==
  [][\A s \in Slaves :
       failed[s] = "config" /\ pos = s /\ (Decide \/ FullSlave) =>
         UNCHANGED <<slave, cmdq>> /\ mon' # "pathb"]_vars

\* When no more faults happen, every slave in front of a cable break ends up
\* in OP or FAILED, whatever reads, commands and answers were lost or late.
SlavesSettle ==
  <>[](\A s \in Slaves : s <= reach => IsHealthy(slave[s]) \/ failed[s] # "no")

-----------------------------------------------------------------------------
(* A statement of a comment that the code does not keep.                  *)

\* ecm_run.c:2166: a slave whose InitCmds failed is kept in PRE-OP.
KeptInPreOp == \A s \in kept : slave[s].al = "PREOP"
=============================================================================
