------------------------ MODULE Supervision_proofs ------------------------
(***************************************************************************)
(* Where the master stops trying.  The bound on recovery attempts of       *)
(* SlaveRecovery, for any number of slaves, any max_attempts, any queue    *)
(* length and any number of faults.  The latches S1 and S6 of Cia402, for  *)
(* every limit and any number of inputs: an axis that dropped out of       *)
(* Operation enabled is not walked back up, and the loop is not left as    *)
(* "all down" while a drive has power.                                     *)
(***************************************************************************)
EXTENDS SlaveRecovery, Cia402, TLAPS

-----------------------------------------------------------------------------
(* SlaveRecovery.                                                          *)

\* The part of a plan the bound is about: the counter the planner compares
\* with its limit is the number of actions it really started.
PlanInv ==
  /\ attempts \in [Slaves -> Nat] /\ started = attempts
  /\ failed \in [Slaves -> {"no", "failed", "config"}]
  /\ \A s \in Slaves : /\ attempts[s] <= MaxAttempts
                       /\ failed[s] = "failed" => attempts[s] = MaxAttempts

\* A slave that fails its InitCmds is marked config; no other outcome of a
\* reconfiguration touches the plan.
LEMMA PathBMarksConfig ==
  ASSUME NEW s, PathBOutcome(s)
  PROVE  failed' = failed \/ failed' = [failed EXCEPT ![s] = "config"]
BY Zenon DEF PathBOutcome

\* Marking a slave config keeps the invariant.
LEMMA MarkKeepsPlanInv ==
  ASSUME PlanInv, UNCHANGED <<attempts, started>>, NEW s,
         failed' = failed \/ failed' = [failed EXCEPT ![s] = "config"]
  PROVE  PlanInv'
BY Zenon DEF PlanInv

\* ecm_srec_decide keeps the invariant: it starts an action only below the
\* limit, and gives up only at it.
LEMMA DecideKeepsPlanInv == PlanInv /\ Decide => PlanInv'
<1> SUFFICES ASSUME PlanInv, Decide PROVE PlanInv'
  BY Zenon
<1> DEFINE v == Verdict(pos, read.slave[pos], read.reach)
<1>1. pos \in Slaves /\ Plan(pos, v)
  BY Zenon DEF Decide
<1>2. Gated(v) => attempts[pos] < MaxAttempts
  <2>1. attempts[pos] \in Nat /\ MaxAttempts \in Nat
    BY <1>1, PlannerAssumption, Zenon DEF PlanInv
  <2> QED
    BY <2>1 DEF Verdict, Gated, Wanted
<1>3. v = "GIVE_UP" => attempts[pos] = MaxAttempts
  <2>1. attempts[pos] \in Nat /\ MaxAttempts \in Nat /\ attempts[pos] <= MaxAttempts
    BY <1>1, PlannerAssumption, Zenon DEF PlanInv
  <2> QED
    BY <2>1 DEF Verdict, Gated, Wanted
<1>4. Gated(v) => failed[pos] = "no" /\ v # "HEALTHY"
  BY Zenon DEF Verdict, Gated, Wanted
<1>5. ~Gated("HEALTHY") /\ ~Gated("GIVE_UP") /\ ~Gated("REFUSED")
  BY Zenon DEF Gated
<1> HIDE DEF v
<1>6. CASE v = "HEALTHY"
  BY <1>1, <1>5, <1>6, PlannerAssumption DEF Plan, PlanInv
<1>7. CASE Gated(v)
  BY <1>1, <1>2, <1>4, <1>5, <1>7, PlannerAssumption DEF Plan, PlanInv
<1>8. CASE v = "GIVE_UP"
  BY <1>1, <1>3, <1>5, <1>8, PlannerAssumption, Zenon DEF Plan, PlanInv
<1>9. CASE v # "HEALTHY" /\ ~Gated(v) /\ v # "GIVE_UP"
  BY <1>1, <1>9, PlannerAssumption, Zenon DEF Plan, PlanInv
<1> QED
  BY <1>6, <1>7, <1>8, <1>9, Zenon

\* Every behaviour of the planner keeps the invariant, faults of slaves, lost
\* frames and bus recoveries included.
THEOREM PlanInvariance == Spec => []PlanInv
<1>1. Init => PlanInv
  BY PlannerAssumption DEF Init, PlanInv
<1>2. PlanInv /\ [Next]_vars => PlanInv'
  <2> SUFFICES ASSUME PlanInv, [Next]_vars PROVE PlanInv'
    BY Zenon
  <2>1. CASE Decide
    BY <2>1, DecideKeepsPlanInv, Zenon
  <2>2. CASE PathBEnd
    <3>1. PathBOutcome(pos) /\ UNCHANGED <<attempts, started>>
      BY <2>2, Zenon DEF PathBEnd
    <3> QED
      BY <3>1, PathBMarksConfig, MarkKeepsPlanInv, Zenon
  <2>3. CASE FullSlave
    <3>1. UNCHANGED <<attempts, started>>
      BY <2>3, Zenon DEF FullSlave
    <3>2. failed' = failed \/ failed' = [failed EXCEPT ![pos] = "config"]
      BY <2>3, PathBMarksConfig, Zenon DEF FullSlave, FullRepair
    <3> QED
      BY <3>1, <3>2, MarkKeepsPlanInv, Zenon
  <2>4. CASE RtStep \/ LoseBus \/ CableChange \/ StartStep \/ EndStep \/ FullStart \/ FullEnd
    <3>1. UNCHANGED <<attempts, started, failed>>
      BY <2>4, Zenon DEF RtStep, DiagRead, rt_exec_command, HandOver, TakeBack, LoseBus, CableChange,
           StartStep, EndStep, FullStart, FullEnd, planner
    <3> QED
      BY <3>1, Zenon DEF PlanInv
  <2>5. CASE \E s \in Slaves : SlaveFault(s) \/ BackoffOver(s)
    <3>1. UNCHANGED <<attempts, started, failed>>
      BY <2>5, Zenon DEF SlaveFault, BackoffOver, planner
    <3> QED
      BY <3>1 DEF PlanInv
  <2>6. CASE UNCHANGED vars
    BY <2>6, Zenon DEF vars, planner, PlanInv
  <2> QED
    BY <2>1, <2>2, <2>3, <2>4, <2>5, <2>6, Zenon DEF Next, MonStep
<1> QED
  BY <1>1, <1>2, PTL DEF Spec

\* Between two healthy reads of a slave at most MaxAttempts actions are
\* started, and a slave is given up only after exactly that many.
THEOREM RecoveryIsBounded == Spec => []BoundedRecovery
<1>1. PlanInv => BoundedRecovery
  BY PlannerAssumption, Zenon DEF PlanInv, BoundedRecovery
<1> QED
  BY <1>1, PlanInvariance, PTL

\* A slave marked config is left alone by the planner and by recover_full.
THEOREM ConfigIsFinal == Spec => ConfigFailureIsFinal
<1>1. [Next]_vars =>
        [\A s \in Slaves : failed[s] = "config" /\ pos = s /\ (Decide \/ FullSlave) =>
           UNCHANGED <<slave, cmdq>> /\ mon' # "pathb"]_vars
  <2> SUFFICES ASSUME NEW s \in Slaves, failed[s] = "config", pos = s, Decide \/ FullSlave
               PROVE  UNCHANGED <<slave, cmdq>> /\ mon' # "pathb"
    BY Zenon
  <2>1. CASE Decide
    <3> DEFINE v == Verdict(pos, read.slave[pos], read.reach)
    <3>1. v \in {"BEHIND_BREAK", "HEALTHY", "FAILED"}
      BY Zenon DEF Verdict
    <3> QED
      BY <2>1, <3>1, Zenon DEF Decide, wire
  <2>2. CASE FullSlave
    BY <2>2, Zenon DEF FullSlave
  <2> QED
    BY <2>1, <2>2, Zenon
<1> QED
  BY <1>1, PTL DEF Spec, ConfigFailureIsFinal

-----------------------------------------------------------------------------
(* Cia402: the axis of the master, stage by stage.                         *)

\* The states in which ecm_cia402_all_down finds an axis up, those a drive is in
\* that was seen down at most one command ago, and those a drive is in that
\* dropped out of Operation enabled and was not walked anywhere since.
Up   == {"RTSO", "SO", "OE", "QSA"}
Low  == {"NOT_READY", "SOD", "RTSO", "FRA", "FAULT"}
Gone == {"FRA", "FAULT", "QSA", "SOD"}

\* The fields of an axis that the supervision reads, and their types.
Fields == {"ds", "cw", "target", "reset_pulse", "reached_oe", "running", "pp_phase"}

AxisOk(a) == Fields \subseteq DOMAIN a /\ a.target \in A!Target /\ a.pp_phase \in 0 .. 2

\* The controlwords ecm_cia402.c composes, as the drive reads them.
LEMMA Words ==
  /\ \A w \in {{}, {7}, {1}, {1, 2}, {0, 1, 2}} : ~D!EnableOp(w)
  /\ \A w \in {{}, {7}, {1}, {1, 2}, {0, 1, 2, 3}} : ~D!SwitchOn(w)
  /\ \A w \in {{}, {7}, {1}, {0, 1, 2}, {0, 1, 2, 3}} : ~D!Shutdown(w)
  /\ \A x \in SUBSET {4, 5} : ~D!SwitchOn({0, 1, 2, 3} \cup x) /\ ~D!Shutdown({0, 1, 2, 3} \cup x)
  /\ D!EnableOp({0, 1, 2, 3})
  BY DEF D!EnableOp, D!SwitchOn, D!Shutdown

\* What the controlword says about the axis it was made for.
Meant(a) ==
  /\ D!EnableOp(a.cw) => a.target = "ENABLED" /\ a.ds \in Up
  /\ D!SwitchOn(a.cw) => a.ds \in Up
  /\ a.target = "ENABLED" /\ a.ds = "OE" => ~D!Shutdown(a.cw) /\ ~D!SwitchOn(a.cw)

\* A stage keeps what the axis knows of the drive and enables nothing.
Pass(a, b) == AxisOk(b) /\ b.ds = a.ds /\ b.reached_oe = a.reached_oe /\ (b.target = "ENABLED" => a.target = "ENABLED")

\* Stages that only ever lower the target compose.
LEMMA PassOn == ASSUME NEW a, NEW b, NEW c, Pass(a, b), Pass(b, c) PROVE Pass(a, c)
  BY Zenon DEF Pass

\* The inputs of a valid frame are decoded, the commands stay.
ReadIn(a, in, valid, b) ==
  /\ AxisOk(b) /\ b.target = a.target /\ b.reached_oe = a.reached_oe
  /\ b.ds = IF valid THEN A!ecm_cia402_decode(in.sw) ELSE a.ds

\* The input stage of ecm_cia402_axis_rt.
LEMMA InputsStage ==
  ASSUME NEW a, AxisOk(a), NEW in, NEW valid
  PROVE  ReadIn(a, in, valid, A!Inputs(a, in, valid))
  BY SMT DEF A!Inputs, Fields, AxisOk, A!Target, ReadIn

\* The latch stage: a lost bus takes the target away.
LEMMA LatchesStage ==
  ASSUME NEW a, AxisOk(a), NEW l
  PROVE  Pass(a, A!Latches(a, l)) /\ (l => A!Latches(a, l).target = "DISABLED")
  BY SMT DEF A!Latches, Fields, AxisOk, A!Target, Pass

\* S1: an axis that reached Operation enabled stays enabled only while it is
\* there, as far as the master knows.
Latched(a, valid, b) ==
  /\ AxisOk(b) /\ b.ds = a.ds
  /\ b.target = "ENABLED" =>
       /\ a.target = "ENABLED"
       /\ valid => a.ds = "OE" \/ ~a.reached_oe
       /\ b.reached_oe => a.reached_oe \/ a.ds = "OE"
       /\ a.reached_oe => b.reached_oe

\* The drop-out latch stage does what S1 asks of it.
LEMMA DroppedStage ==
  ASSUME NEW a, AxisOk(a), NEW valid
  PROVE  Latched(a, valid, A!DroppedLatch(a, valid))
  BY SMT DEF A!DroppedLatch, Fields, AxisOk, A!Target, Latched

\* The controlword stage composes a word the axis means.
LEMMA ControlwordStage ==
  ASSUME NEW a, AxisOk(a)
  PROVE  Pass(a, A!Controlword(a)) /\ Meant(A!Controlword(a))
  <1> DEFINE b == A!Controlword(a)
  <1>1. /\ b.ds = a.ds /\ b.reached_oe = a.reached_oe /\ AxisOk(b)
        /\ b.target \in {a.target, "DISABLED"}
    BY SMT DEF A!Controlword, Fields, AxisOk, A!Target
  <1>2. b.cw \in {{}, {7}, {1}, {1, 2}, {0, 1, 2}, {0, 1, 2, 3}}
    BY SMT DEF A!Controlword, Fields, AxisOk, A!Target, A!WalkUp, A!WalkDown
  <1>3. b.cw = {0, 1, 2, 3} => b.target = "ENABLED" /\ a.ds \in Up
    BY SMT DEF A!Controlword, Fields, AxisOk, A!Target, A!WalkUp, A!WalkDown, Up
  <1>4. b.cw = {0, 1, 2} => a.ds \in Up /\ (b.target = "ENABLED" => a.ds # "OE")
    BY SMT DEF A!Controlword, Fields, AxisOk, A!Target, A!WalkUp, A!WalkDown, Up
  <1>5. b.cw = {1, 2} => (b.target = "ENABLED" => a.ds # "OE")
    BY SMT DEF A!Controlword, Fields, AxisOk, A!Target, A!WalkUp, A!WalkDown, Up
  <1> HIDE DEF b
  <1>6. Meant(b)
    BY <1>1, <1>2, <1>3, <1>4, <1>5, Words, Zenon DEF Meant
  <1>7. QED BY <1>1, <1>6, Zenon DEF b, Pass

\* The step timer gives up by lowering the target.
LEMMA TimerStage ==
  ASSUME NEW a, AxisOk(a), Meant(a)
  PROVE  Pass(a, A!StepTimer(a)) /\ Meant(A!StepTimer(a))
  <1> DEFINE b == A!StepTimer(a)
  <1>1. /\ b.ds = a.ds /\ b.reached_oe = a.reached_oe /\ AxisOk(b)
        /\ b.target \in {a.target, "DISABLED"}
        /\ \/ b.cw = a.cw /\ b.target = a.target
           \/ b.cw \in {{}, {1, 2}} /\ b.target = "DISABLED"
    BY SMT DEF A!StepTimer, Fields, AxisOk, A!Target
  <1> HIDE DEF b
  <1>2. Meant(b)
    BY <1>1, Words, Zenon DEF Meant
  <1>3. QED BY <1>1, <1>2, Zenon DEF b, Pass

\* The setpoint stage runs only in Operation enabled.
LEMMA SetpointStage ==
  ASSUME NEW a, AxisOk(a), Meant(a), NEW sp
  PROVE  Pass(a, A!Setpoint(a, sp)) /\ Meant(A!Setpoint(a, sp))
         /\ (A!Setpoint(a, sp).running => a.ds = "OE")
  <1> DEFINE b == A!Setpoint(a, sp)
  <1>1. /\ b.ds = a.ds /\ b.reached_oe = a.reached_oe /\ AxisOk(b)
        /\ b.target \in {a.target, "QUICKSTOP"}
        /\ \/ b.cw = a.cw /\ b.target = a.target
           \/ b.cw = {1} /\ b.target = "QUICKSTOP"
    BY SMT DEF A!Setpoint, Fields, AxisOk, A!Target
  <1>2. b.running => a.ds = "OE"
    BY Zenon DEF A!Setpoint, Fields, AxisOk
  <1> HIDE DEF b
  <1>3. Meant(b)
    BY <1>1, Words, Zenon DEF Meant
  <1>4. QED BY <1>1, <1>2, <1>3, SMTT(30) DEF b, Pass

\* The profile stage adds start bits to a running word, or gives up.
LEMMA ProfileStage ==
  ASSUME NEW a, AxisOk(a), Meant(a), NEW run, run => a.ds = "OE"
  PROVE  Pass(a, A!Profile(a, run)) /\ Meant(A!Profile(a, run))
  <1> DEFINE Like(b) == /\ b.ds = a.ds /\ b.reached_oe = a.reached_oe /\ AxisOk(b)
                        /\ \/ b.cw = a.cw /\ b.target = a.target
                           \/ run /\ b.cw = {0, 1, 2} /\ b.target = "DISABLED"
             c == IF run THEN a ELSE A!ClearProfile(a)
             e == CASE a.mode_req = "PP" /\ run -> A!PpHandshake(c)
                    [] a.mode_req = "HM" /\ run /\ c.hm_phase = "RUNNING" -> A!Homing(c)
                    [] OTHER -> c
             b == A!Profile(a, run)
             start == run /\ e.cw = {0, 1, 2, 3}
                      /\ \/ a.mode_req = "PP" /\ e.pp_phase = 1
                         \/ a.mode_req = "HM" /\ e.hm_phase = "RUNNING"
             more == {4} \cup IF a.mode_req = "PP" /\ e.pp_imm THEN {5} ELSE {}
  <1>1. Like(c)
    BY SMT DEF A!ClearProfile, Fields, AxisOk, A!Target
  <1>2. run => Like(A!PpHandshake(a))
    BY SMT DEF A!PpHandshake, Fields, AxisOk, A!Target
  <1>3. Like(A!Homing(a))
    BY SMT DEF A!Homing, Fields, AxisOk, A!Target
  <1>4. Like(e)
    BY <1>1, <1>2, <1>3, Zenon
  <1>5. b = [e EXCEPT !.cw = IF ~start THEN @ ELSE @ \cup {4} \cup IF a.mode_req = "PP" /\ e.pp_imm THEN {5} ELSE {}]
    BY Zenon DEF A!Profile
  <1> HIDE DEF e, b, c, start
  <1>6. AxisOk(b) /\ b.ds = e.ds /\ b.reached_oe = e.reached_oe /\ b.target = e.target
    BY <1>4, <1>5, SMT DEF Fields, AxisOk, A!Target
  <1>7. b.cw = e.cw \/ (e.cw = {0, 1, 2, 3} /\ \E x \in SUBSET {4, 5} : b.cw = e.cw \cup x)
    <2>1. CASE ~start
      BY <1>4, <1>5, <2>1, SMT DEF Fields, AxisOk, A!Target
    <2>2. CASE start
      <3>1. more \in SUBSET {4, 5} /\ b.cw = e.cw \cup more
        BY <1>4, <1>5, <2>2, SMT DEF Fields, AxisOk, A!Target
      <3>2. e.cw = {0, 1, 2, 3}
        BY <2>2, Zenon DEF start
      <3> HIDE DEF more
      <3>3. QED BY <3>1, <3>2, Zenon
    <2>3. QED BY <2>1, <2>2, Zenon
  <1>8. Meant(b)
    BY <1>4, <1>6, <1>7, Words, Zenon DEF Meant, Up
  <1>9. QED BY <1>4, <1>6, <1>8, Zenon DEF b, Pass

\* A tick of the axis on a live bus: the word it sends is meant, the state is
\* the one it read, and a target that is still ENABLED was ENABLED before and has
\* not dropped out.
Stepped(a, in, valid, b) ==
  /\ AxisOk(b) /\ Meant(b)
  /\ b.ds = IF valid THEN A!ecm_cia402_decode(in.sw) ELSE a.ds
  /\ b.target = "ENABLED" =>
       /\ a.target = "ENABLED"
       /\ a.reached_oe => b.reached_oe /\ (valid => b.ds = "OE")
       /\ b.reached_oe => a.reached_oe \/ b.ds = "OE"

\* The six stages of ecm_cia402_axis_rt together.
LEMMA AxisStep ==
  ASSUME NEW a, AxisOk(a), NEW in, NEW valid, NEW sp
  PROVE  Stepped(a, in, valid, A!axis_rt(a, in, valid, FALSE, sp))
  <1> DEFINE i == A!Inputs(a, in, valid)
             l == A!Latches(i, FALSE)
             d == A!DroppedLatch(l, valid)
             k == A!Controlword(d)
             w == A!StepTimer(k)
             s == A!Setpoint(w, sp)
             run == s.running /\ s.target = "ENABLED"
             b == A!Profile(s, run)
  <1>1. A!axis_rt(a, in, valid, FALSE, sp) = b
    BY Zenon DEF A!axis_rt
  <1> HIDE DEF i, l, d, k, w, s, b
  <1>2. ReadIn(a, in, valid, i)
    BY InputsStage, Zenon DEF i
  <1>3. Pass(i, l)
    BY <1>2, LatchesStage, Zenon DEF l, ReadIn
  <1>4. Latched(l, valid, d)
    BY <1>3, DroppedStage, Zenon DEF d, Pass
  <1>5. Pass(d, k) /\ Meant(k)
    BY <1>4, ControlwordStage, Zenon DEF k, Latched
  <1>6. Pass(k, w) /\ Meant(w)
    BY <1>5, TimerStage, Zenon DEF w, Pass
  <1>7. Pass(w, s) /\ Meant(s) /\ (run => s.ds = "OE")
    BY <1>6, SetpointStage, Zenon DEF s, Pass
  <1>8. Pass(s, b) /\ Meant(b)
    BY <1>7, ProfileStage, Zenon DEF b, Pass
  <1>9. Pass(d, b)
    BY <1>5, <1>6, <1>7, <1>8, PassOn, Zenon
  <1>10. QED
    <2>1. AxisOk(b) /\ Meant(b) /\ b.ds = i.ds
      BY <1>3, <1>4, <1>8, <1>9, Zenon DEF Pass, Latched
    <2>2. ASSUME b.target = "ENABLED"
          PROVE  /\ a.target = "ENABLED"
                 /\ a.reached_oe => b.reached_oe /\ (valid => b.ds = "OE")
                 /\ b.reached_oe => a.reached_oe \/ b.ds = "OE"
      <3>1. d.target = "ENABLED" /\ b.reached_oe = d.reached_oe /\ b.ds = d.ds
        BY <1>9, <2>2, Zenon DEF Pass
      <3>2. i.target = a.target /\ i.reached_oe = a.reached_oe /\ l.ds = i.ds /\ l.reached_oe = i.reached_oe
            /\ (l.target = "ENABLED" => i.target = "ENABLED")
        BY <1>2, <1>3, Zenon DEF ReadIn, Pass
      <3>3. QED BY <1>4, <3>1, <3>2, Zenon DEF Latched
    <2>3. QED BY <1>1, <1>2, <2>1, <2>2, Zenon DEF Stepped, ReadIn

\* A tick of the axis without the bus takes the target away.
LEMMA AxisWaits ==
  ASSUME NEW a, AxisOk(a), NEW in, NEW sp
  PROVE  LET b == A!axis_rt(a, in, FALSE, TRUE, sp) IN
         AxisOk(b) /\ b.ds = a.ds /\ b.target # "ENABLED"
  <1> DEFINE i == A!Inputs(a, in, FALSE)
             l == A!Latches(i, TRUE)
             d == A!DroppedLatch(l, FALSE)
             k == A!Controlword(d)
             w == A!StepTimer(k)
  <1>1. AxisOk(w) /\ w.ds = a.ds /\ w.target # "ENABLED"
    <2> HIDE DEF i, l, d, k, w
    <2>1. AxisOk(i) /\ i.ds = a.ds
      BY Zenon DEF i, A!Inputs
    <2>2. Pass(i, l) /\ l.target = "DISABLED"
      BY <2>1, LatchesStage, Zenon DEF l
    <2>3. Latched(l, FALSE, d)
      BY <2>2, DroppedStage, Zenon DEF d, Pass
    <2>4. Pass(d, k) /\ Meant(k)
      BY <2>3, ControlwordStage, Zenon DEF k, Latched
    <2>5. Pass(k, w)
      BY <2>4, TimerStage, Zenon DEF w, Pass
    <2>6. l.target # "ENABLED"
      BY <2>2, Zenon
    <2>7. QED BY <2>1, <2>2, <2>3, <2>4, <2>5, <2>6, Zenon DEF Pass, Latched
  <1> DEFINE pa == IF a.pp_phase = 1 THEN A!Age(w.pp_age, StepTimeout + 1) ELSE w.pp_age
             ha == IF a.hm_phase = "RUNNING" THEN A!Age(w.hm_age, HomeTimeout + 1) ELSE w.hm_age
             b == [w EXCEPT !.cw = a.cw, !.pp_age = pa, !.hm_age = ha]
  <1>2. A!axis_rt(a, in, FALSE, TRUE, sp) = b
    BY Zenon DEF A!axis_rt
  <1> HIDE DEF i, l, d, k, w, pa, ha
  <1>3. AxisOk(b) /\ b.ds = w.ds /\ b.target = w.target
    BY <1>1, SMT DEF AxisOk, Fields, A!Target
  <1> HIDE DEF b
  <1>4. QED BY <1>1, <1>2, <1>3, Zenon

-----------------------------------------------------------------------------
(* The drive, stage by stage.                                              *)

\* What the proof needs of the shape of the drive.
DriveOk(d) == {"ds", "mode", "cw", "oms", "pos"} \subseteq DOMAIN d /\ d.ds \in D!DriveState /\ d.oms \in SUBSET {10, 12, 13}

\* The drive enters a state.
LEMMA SetDs ==
  ASSUME NEW d, DriveOk(d), NEW ds \in D!DriveState
  PROVE  DriveOk(D!set_ds(d, ds)) /\ D!set_ds(d, ds).ds = ds /\ D!set_ds(d, ds).cw = d.cw
  BY SMT DEF D!set_ds, DriveOk

\* The drive faults.
LEMMA RaiseFault ==
  ASSUME NEW d, DriveOk(d)
  PROVE  LET f == D!raise_fault(d) IN
         DriveOk(f) /\ f.ds \in {"FRA", "FAULT"} /\ f.cw = d.cw
  BY SetDs, SMT DEF D!raise_fault, D!DriveState

\* The drive's own events take it down, never up.
LEMMA EventsStage ==
  ASSUME NEW d, DriveOk(d), NEW inOp, NEW c
  PROVE  LET e == D!Events(d, inOp, c) IN
         /\ DriveOk(e)
         /\ e.ds \in {d.ds, "FRA", "FAULT", "SOD"} \/ (d.ds = "OE" /\ e.ds = "QSA")
  <1> DEFINE p == IF d.ds = "NOT_READY" /\ ~c.slow THEN D!set_ds(d, "SOD") ELSE d
             f == IF c.ev = "fault" THEN D!raise_fault(p) ELSE p
             e == CASE ~inOp /\ f.ds \in {"OE", "QSA"}  -> D!raise_fault(f)
                    [] ~inOp /\ f.ds \in {"RTSO", "SO"} -> D!set_ds(f, "SOD")
                    [] OTHER                            -> f
             g == IF c.ev = "quickstop" /\ e.ds = "OE" THEN D!set_ds(e, "QSA") ELSE e
  <1>0. D!Events(d, inOp, c) = g
    BY Zenon DEF D!Events
  <1> HIDE DEF p, f, e, g
  <1>1. DriveOk(p) /\ p.ds \in {d.ds, "SOD"}
    BY SetDs, Zenon DEF p, D!DriveState
  <1>2. DriveOk(f) /\ f.ds \in {p.ds, "FRA", "FAULT"}
    BY <1>1, RaiseFault, Zenon DEF f
  <1>3. DriveOk(e) /\ e.ds \in {f.ds, "FRA", "FAULT", "SOD"}
    BY <1>2, RaiseFault, SetDs, Zenon DEF e, D!DriveState
  <1>4. DriveOk(g) /\ (g.ds = e.ds \/ (e.ds = "OE" /\ g.ds = "QSA"))
    BY <1>3, SetDs DEF g, D!DriveState
  <1>5. QED BY <1>0, <1>1, <1>2, <1>3, <1>4, Zenon

\* Where one command takes a drive.
Follows(ds, cw, n) ==
  /\ n \in D!DriveState
  /\ n = "OE" => ds = "OE" \/ D!EnableOp(cw)
  /\ ds \in D!DriveState \ Up => n \in Low
  /\ ds \in Low /\ ~D!SwitchOn(cw) /\ ~D!EnableOp(cw) => n \in Low
  /\ ds \in Gone /\ ~D!Shutdown(cw) => n \in Gone
  /\ ds = "OE" /\ ~D!Shutdown(cw) /\ ~D!SwitchOn(cw) => n \in Gone \cup {"OE"}

\* Where the drive's state machine goes under a controlword.
LEMMA Commands ==
  ASSUME NEW ds \in D!DriveState, NEW cw, NEW prev
  PROVE  Follows(ds, cw, D!esc_cia402_next(ds, cw, prev))
  <1> DEFINE n == D!esc_cia402_next(ds, cw, prev)
  <1>1. \/ ds = "FAULT" /\ n = "SOD"
        \/ ds = "SOD" /\ D!Shutdown(cw) /\ n = "RTSO"
        \/ ds \in {"RTSO", "SO"} /\ n = "SOD"
        \/ ds = "RTSO" /\ (D!SwitchOn(cw) \/ D!EnableOp(cw)) /\ n = "SO"
        \/ ds \in {"SO", "OE"} /\ D!Shutdown(cw) /\ n = "RTSO"
        \/ ds = "SO" /\ D!EnableOp(cw) /\ n = "OE"
        \/ ds \in {"OE", "QSA"} /\ n = "SOD"
        \/ ds = "OE" /\ n = "QSA"
        \/ ds = "OE" /\ D!SwitchOn(cw) /\ n = "SO"
        \/ n = ds
    BY SMT DEF D!esc_cia402_next, D!DriveState
  <1> HIDE DEF n
  <1>2. Follows(ds, cw, n)
    BY <1>1, Zenon DEF Follows, D!DriveState, Up, Low, Gone
  <1>3. QED BY <1>2, ZenonT(40) DEF n

\* A drive that stays where it is follows every controlword.
LEMMA Rests ==
  ASSUME NEW ds \in D!DriveState, NEW cw
  PROVE  Follows(ds, cw, ds)
  BY Zenon DEF Follows, Up, Low, Gone, D!DriveState

\* The transition stage of the drive, immediate or delayed.
LEMMA TransitionStage ==
  ASSUME NEW d, DriveOk(d), NEW cw, NEW c
  PROVE  LET t == D!Transition(d, cw, c) IN DriveOk(t) /\ Follows(d.ds, cw, t.ds)
  <1> DEFINE nx == D!esc_cia402_next(d.ds, cw, d.cw)
             stays == nx = d.ds \/ d.ds \in {"NOT_READY", "FRA"} \/ (c.slow /\ ~(nx \in {"QSA", "SOD"} /\ d.ds # "FAULT"))
  <1>1. D!Transition(d, cw, c) = IF stays THEN d ELSE D!set_ds(d, nx)
    BY Zenon DEF D!Transition
  <1>2. Follows(d.ds, cw, nx) /\ nx \in D!DriveState
    BY Commands, Zenon DEF DriveOk, Follows
  <1>3. Follows(d.ds, cw, d.ds)
    BY Rests, Zenon DEF DriveOk
  <1> HIDE DEF nx, stays
  <1>4. CASE stays
    BY <1>1, <1>3, <1>4, Zenon
  <1>5. CASE ~stays
    BY <1>1, <1>2, <1>5, SetDs
  <1>6. QED BY <1>4, <1>5, Zenon

\* Motion changes no drive state.
LEMMA MotionStage ==
  ASSUME NEW d, DriveOk(d), NEW o, NEW c
  PROVE  LET m == D!motion(d, o, c) IN DriveOk(m) /\ m.ds = d.ds
  <1>1. DriveOk(D!MotionPP(d, o, c)) /\ D!MotionPP(d, o, c).ds = d.ds
    BY SMT DEF D!MotionPP, DriveOk
  <1>2. DriveOk(D!MotionHM(d, o, c)) /\ D!MotionHM(d, o, c).ds = d.ds
    BY SMT DEF D!MotionHM, DriveOk
  <1>4. LET m == [d EXCEPT !.oms = {}] IN DriveOk(m) /\ m.ds = d.ds
    BY SMT DEF DriveOk
  <1>5. CASE d.ds # "OE"
    <2> DEFINE q == IF c.hand \in Position THEN c.hand ELSE d.pos
               m == [d EXCEPT !.oms = {}, !.pos = q]
    <2>1. D!motion(d, o, c) = m
      BY <1>5, Zenon DEF D!motion
    <2> HIDE DEF q
    <2>2. DriveOk(m) /\ m.ds = d.ds
      BY SMT DEF DriveOk
    <2> HIDE DEF m
    <2>3. QED BY <2>1, <2>2, Zenon
  <1>6. CASE d.ds = "OE" /\ d.mode = "CSP"
    <2>1. D!motion(d, o, c) = [d EXCEPT !.pos = o.tpos, !.oms = {12}]
      BY <1>6, Zenon DEF D!motion
    <2>2. LET m == [d EXCEPT !.pos = o.tpos, !.oms = {12}] IN DriveOk(m) /\ m.ds = d.ds
      BY SMT DEF DriveOk
    <2>3. QED BY <2>1, <2>2, Zenon
  <1>7. CASE d.ds = "OE" /\ d.mode = "PP"
    BY <1>1, <1>7, Zenon DEF D!motion
  <1>8. CASE d.ds = "OE" /\ d.mode = "HM"
    BY <1>2, <1>8, Zenon DEF D!motion
  <1>9. CASE d.ds = "OE" /\ d.mode \notin {"CSP", "PP", "HM"}
    BY <1>4, <1>9, Zenon DEF D!motion
  <1>10. QED BY <1>5, <1>6, <1>7, <1>8, <1>9, Zenon

\* A drive that came to rest finishes its fault reaction or quick stop.
LEMMA StoppedStage ==
  ASSUME NEW d, DriveOk(d), NEW c
  PROVE  LET r == D!Stopped(d, c) IN
         /\ DriveOk(r)
         /\ r.ds = d.ds \/ (d.ds = "FRA" /\ r.ds = "FAULT") \/ (d.ds = "QSA" /\ r.ds = "SOD")
  BY SetDs, Zenon DEF D!Stopped, D!DriveState

\* A frame takes the drive from d to r.
Driven(d, o, inOp, r) == DriveOk(r) /\ Follows(d.ds, o.cw, r.ds) /\ (r.ds = "OE" => d.ds = "OE" \/ inOp)

\* A whole step of the drive.
LEMMA DriveFollows ==
  ASSUME NEW d, DriveOk(d), NEW o, NEW inOp, NEW c
  PROVE  Driven(d, o, inOp, D!axis_step(d, o, inOp, c))
  <1> DEFINE e == D!Events(d, inOp, c)
             h == D!ChangeMode(e, o.mode)
             k == D!Commanded(d, o, inOp, c)
             m == D!motion(k, o, c)
             q == D!Stopped(m, c)
             r == D!axis_step(d, o, inOp, c)
  <1>0. /\ k = (IF inOp THEN D!Transition(h, o.cw, c) ELSE e)
        /\ r = [q EXCEPT !.cw = IF inOp THEN o.cw ELSE @]
    BY Zenon DEF D!Commanded, D!axis_step
  <1> HIDE DEF e, h, k, m, q, r
  <1>1. DriveOk(e) /\ (e.ds \in {d.ds, "FRA", "FAULT", "SOD"} \/ (d.ds = "OE" /\ e.ds = "QSA"))
    BY EventsStage, Zenon DEF e
  <1>2. DriveOk(h) /\ h.ds = e.ds
    BY <1>1, SMT DEF h, D!ChangeMode, DriveOk
  <1>3. DriveOk(k) /\ (Follows(e.ds, o.cw, k.ds) \/ k.ds = e.ds)
    BY <1>0, <1>1, <1>2, TransitionStage, Zenon
  <1>4. DriveOk(m) /\ m.ds = k.ds
    BY <1>3, MotionStage, Zenon DEF m
  <1>5. DriveOk(q) /\ (q.ds = m.ds \/ (m.ds = "FRA" /\ q.ds = "FAULT") \/ (m.ds = "QSA" /\ q.ds = "SOD"))
    BY <1>4, StoppedStage, Zenon DEF q
  <1>6. DriveOk(r) /\ r.ds = q.ds
    BY <1>0, <1>5, SMT DEF DriveOk
  <1>7. Follows(d.ds, o.cw, r.ds)
    BY <1>1, <1>3, <1>4, <1>5, <1>6 DEF Follows, Up, Low, Gone, DriveOk, D!DriveState
  <1>8. r.ds = "OE" => d.ds = "OE" \/ inOp
    BY <1>0, <1>1, <1>4, <1>5, <1>6, Zenon
  <1>9. QED BY <1>6, <1>7, <1>8, Zenon DEF r, Driven

\* The master decodes the statusword to the state the drive wrote it for.
LEMMA DecodeIsExact ==
  ASSUME NEW ds \in D!DriveState, NEW oms \in SUBSET {10, 12, 13}
  PROVE  A!ecm_cia402_decode(D!esc_cia402_sw_state(ds) \cup oms) = ds
  <1> DEFINE sw == D!esc_cia402_sw_state(ds) \cup oms
  <1>0. /\ sw \cap {0, 1, 2, 3, 6} = D!esc_cia402_sw_state(ds) \cap {0, 1, 2, 3, 6}
        /\ sw \cap {0, 1, 2, 3, 5, 6} = D!esc_cia402_sw_state(ds) \cap {0, 1, 2, 3, 5, 6}
    OBVIOUS
  <1> HIDE DEF sw
  <1>1. CASE ds = "NOT_READY"
    <2>1. sw \cap {0, 1, 2, 3, 6} = {} BY <1>0, <1>1, Zenon DEF D!esc_cia402_sw_state
    <2>2. QED BY <1>1, <2>1, Zenon DEF A!ecm_cia402_decode, sw
  <1>2. CASE ds = "SOD"
    <2>1. sw \cap {0, 1, 2, 3, 6} = {6} BY <1>0, <1>2, Zenon DEF D!esc_cia402_sw_state
    <2>2. QED BY <1>2, <2>1 DEF A!ecm_cia402_decode, sw
  <1>3. CASE ds = "FRA"
    <2>1. sw \cap {0, 1, 2, 3, 6} = {0, 1, 2, 3} BY <1>0, <1>3, Zenon DEF D!esc_cia402_sw_state
    <2>2. QED BY <1>3, <2>1 DEF A!ecm_cia402_decode, sw
  <1>4. CASE ds = "FAULT"
    <2>1. sw \cap {0, 1, 2, 3, 6} = {3} BY <1>0, <1>4, Zenon DEF D!esc_cia402_sw_state
    <2>2. QED BY <1>4, <2>1 DEF A!ecm_cia402_decode, sw
  <1>5. CASE ds = "RTSO"
    <2>1. sw \cap {0, 1, 2, 3, 6} = {0} /\ sw \cap {0, 1, 2, 3, 5, 6} = {0, 5} BY <1>0, <1>5 DEF D!esc_cia402_sw_state
    <2>2. QED BY <1>5, <2>1 DEF A!ecm_cia402_decode, sw
  <1>6. CASE ds = "SO"
    <2>1. sw \cap {0, 1, 2, 3, 6} = {0, 1} /\ sw \cap {0, 1, 2, 3, 5, 6} = {0, 1, 5} BY <1>0, <1>6 DEF D!esc_cia402_sw_state
    <2>2. QED BY <1>6, <2>1 DEF A!ecm_cia402_decode, sw
  <1>7. CASE ds = "OE"
    <2>1. sw \cap {0, 1, 2, 3, 6} = {0, 1, 2} /\ sw \cap {0, 1, 2, 3, 5, 6} = {0, 1, 2, 5} BY <1>0, <1>7 DEF D!esc_cia402_sw_state
    <2>2. QED BY <1>7, <2>1 DEF A!ecm_cia402_decode, sw
  <1>8. CASE ds = "QSA"
    <2>1. sw \cap {0, 1, 2, 3, 6} = {0, 1, 2} /\ sw \cap {0, 1, 2, 3, 5, 6} = {0, 1, 2} BY <1>0, <1>8, Zenon DEF D!esc_cia402_sw_state
    <2>2. QED BY <1>8, <2>1 DEF A!ecm_cia402_decode, sw
  <1>9. QED BY <1>1, <1>2, <1>3, <1>4, <1>5, <1>6, <1>7, <1>8 DEF D!DriveState

-----------------------------------------------------------------------------
(* The invariant of the loop.                                              *)

\* A drive seen down is down and no word on its way switches it on; a target
\* that is still ENABLED belongs to an axis that has not dropped out, or to one
\* whose drive dropped out and that will see it in the next inputs.
CiaInv ==
  /\ AxisOk(ax) /\ DriveOk(drv)
  /\ pc \in {"top", "hook", "left"} /\ lost \in BOOLEAN /\ (lost => reply = NoReply)
  /\ ax.ds \notin Up => drv.ds \in Low /\ ~D!SwitchOn(out.cw) /\ ~D!EnableOp(out.cw)
  /\ reply # NoReply /\ A!ecm_cia402_decode(reply.sw) \notin Up => drv.ds \in Low
  /\ stop = "down" => pc = "left" /\ (lost \/ ax.ds \notin Up)
  /\ ax.target = "ENABLED" =>
       /\ ax.reached_oe => ax.ds = "OE"
       /\ ~permit => ax.reached_oe /\ drv.ds \in Gone
  /\ pc = "top" /\ lost => ax.target # "ENABLED"
  /\ pc = "top" /\ ~lost =>
       /\ D!EnableOp(out.cw) => ax.target = "ENABLED"
       /\ ax.target = "ENABLED" /\ ax.ds = "OE" => ~D!Shutdown(out.cw) /\ ~D!SwitchOn(out.cw)

\* A drive enters Operation enabled only with permission.
Dropped == drv.ds # "OE" /\ drv'.ds = "OE" => permit

\* Asking for shutdown only lowers the target.
LEMMA ShutdownStage ==
  ASSUME NEW a, AxisOk(a)
  PROVE  /\ AxisOk(AtTop(a)) /\ AtTop(a).ds = a.ds /\ AtTop(a).reached_oe = a.reached_oe
         /\ AtTop(a).target \in {a.target, "DISABLED"}
  BY SMT DEF AtTop, A!ecm_cia402_shutdown, AxisOk, Fields, A!Target

\* The drive steps at the top of the loop, in an exchange or while the bus comes back.
LEMMA DriveStepInv ==
  ASSUME CiaInv, NEW inOp, NEW seen, NEW c, DriveStep(inOp, seen, c)
  PROVE  /\ DriveOk(drv') /\ Follows(drv.ds, out.cw, drv'.ds) /\ (drv'.ds = "OE" => drv.ds = "OE" \/ inOp)
         /\ permit' => permit
         /\ permit /\ ~permit' => drv.ds = "OE" /\ drv'.ds # "OE" /\ ax.reached_oe
  <1>1. drv' = D!axis_step(drv, out, inOp, c)
    BY Zenon DEF DriveStep
  <1>2. permit' = (permit /\ ~(drv.ds = "OE" /\ drv'.ds # "OE" /\ ax.reached_oe))
    BY <1>1, Zenon DEF DriveStep
  <1>3. DriveOk(drv)
    BY Zenon DEF CiaInv
  <1>4. Driven(drv, out, inOp, drv')
    BY <1>1, <1>3, DriveFollows, Zenon
  <1>5. QED BY <1>2, <1>4, Zenon DEF Driven

\* A step of the drive with the axis told at the top of the loop.
LEMMA ToHookInv ==
  ASSUME CiaInv, pc = "top", stop \in {"no", "asked"}, pc' = "hook", ax' = AtTop(ax), UNCHANGED <<out, stop>>,
         lost' \in BOOLEAN, lost' => reply' = NoReply,
         DriveOk(drv'), Follows(drv.ds, out.cw, drv'.ds),
         permit' => permit, permit /\ ~permit' => drv.ds = "OE" /\ drv'.ds # "OE" /\ ax.reached_oe,
         reply' # NoReply => A!ecm_cia402_decode(reply'.sw) = drv.ds
  PROVE  CiaInv'
  <1>0. AxisOk(ax') /\ ax'.ds = ax.ds /\ ax'.reached_oe = ax.reached_oe /\ ax'.target \in {ax.target, "DISABLED"}
    BY ShutdownStage, Zenon DEF CiaInv
  <1>1. ax'.ds \notin Up => drv'.ds \in Low /\ ~D!SwitchOn(out'.cw) /\ ~D!EnableOp(out'.cw)
    BY <1>0, Zenon DEF CiaInv, Follows
  <1>2. reply' # NoReply /\ A!ecm_cia402_decode(reply'.sw) \notin Up => drv'.ds \in Low
    BY Zenon DEF CiaInv, Follows, DriveOk
  <1>3. ax'.target = "ENABLED" => /\ ax'.reached_oe => ax'.ds = "OE"
                                  /\ ~permit' => ax'.reached_oe /\ drv'.ds \in Gone
    <2>1. SUFFICES ASSUME ax.target = "ENABLED" PROVE (ax.reached_oe => ax.ds = "OE") /\ (~permit' => ax.reached_oe /\ drv'.ds \in Gone)
      BY <1>0, Zenon
    <2>2. ax.reached_oe => ax.ds = "OE"
      BY <2>1, Zenon DEF CiaInv
    <2>3. ASSUME ~permit' PROVE ax.reached_oe /\ drv'.ds \in Gone
      <3>1. ax.reached_oe /\ (drv.ds \in Gone \/ (drv.ds = "OE" /\ drv'.ds # "OE"))
        BY <2>1, <2>3, Zenon DEF CiaInv
      <3>2. ~D!Shutdown(out.cw) /\ ~D!SwitchOn(out.cw)
        BY <2>1, <2>2, <3>1, Zenon DEF CiaInv
      <3>3. QED BY <3>1, <3>2, Zenon DEF Follows
    <2>4. QED BY <2>2, <2>3, Zenon
  <1>4. QED BY <1>0, <1>1, <1>2, <1>3, Zenon DEF CiaInv

\* A process-data exchange, with any fate of the frame, keeps the invariant.
LEMMA ExchangeInv ==
  ASSUME CiaInv, NEW f \in {"ok", "partial", "lost_in", "lost_out"}, NEW c, Exchange(f, c)
  PROVE  CiaInv' /\ Dropped
  <1> DEFINE seen == f = "ok" /\ op
  <1>1. pc = "top" /\ stop \in {"no", "asked"} /\ ~lost /\ pc' = "hook" /\ ax' = AtTop(ax) /\ UNCHANGED <<out, stop>>
    BY Zenon DEF Exchange, Cycles, Top
  <1>2. reply' = IF seen THEN [sw |-> D!esc_cia402_sw_state(drv.ds) \cup drv.oms, pos |-> drv.pos, mode |-> drv.mode] ELSE NoReply
    BY Zenon DEF Exchange
  <1>3. lost' => f \in {"lost_out", "lost_in"}
    BY Zenon DEF Exchange
  <1>4. lost' \in BOOLEAN /\ (lost' => reply' = NoReply)
    <2>1. lost' \in BOOLEAN
      BY Zenon DEF Exchange
    <2>2. QED BY <1>2, <1>3, <2>1, Zenon
  <1>5. reply' # NoReply => A!ecm_cia402_decode(reply'.sw) = drv.ds
    BY <1>2, DecodeIsExact, Zenon DEF CiaInv, DriveOk
  <1>6. /\ DriveOk(drv') /\ Follows(drv.ds, out.cw, drv'.ds)
        /\ permit' => permit
        /\ permit /\ ~permit' => drv.ds = "OE" /\ drv'.ds # "OE" /\ ax.reached_oe
    <2>1. CASE f = "lost_out"
      <3>1. UNCHANGED <<drv, permit>>
        BY <2>1, Zenon DEF Exchange
      <3>2. QED BY <3>1, Rests, Zenon DEF CiaInv, DriveOk
    <2>2. CASE f # "lost_out"
      <3>1. DriveStep(op, seen, c)
        BY <2>2, Zenon DEF Exchange
      <3>2. QED BY <3>1, DriveStepInv, Zenon
    <2>3. QED BY <2>1, <2>2, Zenon
  <1>7. CiaInv'
    BY <1>1, <1>4, <1>5, <1>6, ToHookInv, Zenon
  <1>8. ASSUME drv.ds # "OE", drv'.ds = "OE", ~permit PROVE FALSE
    <2>1. D!EnableOp(out.cw)
      BY <1>6, <1>8, Zenon DEF Follows
    <2>2. ax.target = "ENABLED" /\ ax.ds = "OE" /\ drv.ds \in Gone
      BY <1>1, <1>8, <2>1, Zenon DEF CiaInv
    <2>3. ~D!Shutdown(out.cw)
      BY <1>1, <2>2, Zenon DEF CiaInv
    <2>4. drv'.ds \in Gone
      BY <1>6, <2>2, <2>3, Zenon DEF Follows
    <2>5. QED BY <1>8, <2>4, Zenon DEF Gone
  <1>9. QED BY <1>7, <1>8, Zenon DEF Dropped

\* A tick without the bus keeps the invariant.
LEMMA LostTickInv ==
  ASSUME CiaInv, LostTick
  PROVE  CiaInv' /\ Dropped
  <1>1. /\ pc = "top" /\ stop \in {"no", "asked"} /\ pc' = "hook" /\ ax' = AtTop(ax) /\ reply' = NoReply
        /\ UNCHANGED <<out, stop, drv, permit, lost>> /\ lost' \in BOOLEAN
    BY Zenon DEF LostTick, Cycles, Top, history, CiaInv
  <1>2. DriveOk(drv') /\ Follows(drv.ds, out.cw, drv'.ds)
    BY <1>1, Rests, Zenon DEF CiaInv, DriveOk
  <1>3. CiaInv'
    BY <1>1, <1>2, ToHookInv, Zenon
  <1>4. QED BY <1>1, <1>3, Zenon DEF Dropped

\* Coming back after a loss keeps the invariant.
LEMMA BusBackInv ==
  ASSUME CiaInv, BusBack
  PROVE  CiaInv' /\ Dropped
  <1>1. /\ pc = "top" /\ stop \in {"no", "asked"} /\ lost /\ pc' = "hook" /\ ax' = AtTop(ax) /\ reply' = NoReply
        /\ UNCHANGED <<out, stop>> /\ lost' = FALSE
    BY Zenon DEF BusBack, Cycles, Top
  <1>2. PICK c \in Choice : DriveStep(FALSE, FALSE, c)
    BY Zenon DEF BusBack
  <1>3. /\ DriveOk(drv') /\ Follows(drv.ds, out.cw, drv'.ds)
        /\ permit' => permit
        /\ permit /\ ~permit' => drv.ds = "OE" /\ drv'.ds # "OE" /\ ax.reached_oe
    BY <1>2, DriveStepInv, Zenon
  <1>4. CiaInv'
    BY <1>1, <1>3, ToHookInv, Zenon
  <1>5. drv.ds # "OE" => drv'.ds # "OE"
    BY <1>2, DriveStepInv, Zenon
  <1>6. QED BY <1>4, <1>5, Zenon DEF Dropped

\* The axis hook keeps the invariant.
LEMMA HookInv ==
  ASSUME CiaInv, NEW sp, Hook(sp)
  PROVE  CiaInv' /\ Dropped
  <1>1. pc = "hook" /\ pc' = "top" /\ reply' = NoReply /\ UNCHANGED <<drv, lost, stop, permit>>
    BY Zenon DEF Hook
  <1>2. ax' = A!axis_rt(ax, reply, reply # NoReply, lost, sp)
    BY Zenon DEF Hook
  <1>3. stop # "down"
    BY <1>1, Zenon DEF CiaInv
  <1>4. CASE lost
    <2>1. out' = out /\ reply = NoReply
      BY <1>4, Zenon DEF Hook, CiaInv
    <2>2. ax' = A!axis_rt(ax, reply, FALSE, TRUE, sp)
      BY <1>2, <1>4, <2>1, Zenon
    <2>3. AxisOk(ax') /\ ax'.ds = ax.ds /\ ax'.target # "ENABLED"
      BY <2>2, AxisWaits, ZenonT(40) DEF CiaInv
    <2>4. QED BY <1>1, <1>3, <1>4, <2>1, <2>3, Zenon DEF CiaInv, Dropped
  <1>5. CASE ~lost
    <2> DEFINE valid == reply # NoReply
    <2>1. out'.cw = ax'.cw
      BY <1>5, Zenon DEF Hook
    <2>2. ax' = A!axis_rt(ax, reply, valid, FALSE, sp)
      BY <1>2, <1>5, Zenon DEF CiaInv
    <2>3. Stepped(ax, reply, valid, ax')
      <3>0. AxisOk(ax)
        BY Zenon DEF CiaInv
      <3>1. CASE valid
        <4>1. ax' = A!axis_rt(ax, reply, TRUE, FALSE, sp)
          BY <2>2, <3>1, Zenon
        <4>2. Stepped(ax, reply, TRUE, ax')
          BY <3>0, <4>1, AxisStep, Zenon
        <4>3. QED BY <3>1, <4>2, Zenon DEF Stepped
      <3>2. CASE ~valid
        <4>1. ax' = A!axis_rt(ax, reply, FALSE, FALSE, sp)
          BY <2>2, <3>2, Zenon
        <4>2. Stepped(ax, reply, FALSE, ax')
          BY <3>0, <4>1, AxisStep, Zenon
        <4>3. QED BY <3>2, <4>2, Zenon DEF Stepped
      <3>3. QED BY <3>1, <3>2, Zenon
    <2>4. ax'.ds \notin Up => drv'.ds \in Low /\ ~D!SwitchOn(out'.cw) /\ ~D!EnableOp(out'.cw)
      BY <1>1, <2>1, <2>3, Zenon DEF Stepped, Meant, CiaInv
    <2>5. ax'.target = "ENABLED" => /\ ax'.reached_oe => ax'.ds = "OE"
                                    /\ ~permit' => ax'.reached_oe /\ drv'.ds \in Gone
      BY <1>1, <2>3, Zenon DEF Stepped, CiaInv
    <2>6. /\ D!EnableOp(out'.cw) => ax'.target = "ENABLED"
          /\ ax'.target = "ENABLED" /\ ax'.ds = "OE" => ~D!Shutdown(out'.cw) /\ ~D!SwitchOn(out'.cw)
      BY <2>1, <2>3, Zenon DEF Stepped, Meant
    <2>7. DriveOk(drv')
      BY <1>1, Zenon DEF CiaInv
    <2>8. QED BY <1>1, <1>3, <1>5, <2>3, <2>4, <2>5, <2>6, <2>7 DEF Stepped, CiaInv, Dropped
  <1>6. QED BY <1>4, <1>5, Zenon

\* What the application's commands do to what the invariant speaks of.
Told(a, x, b) ==
  /\ AxisOk(b) /\ b.ds = a.ds
  /\ b.target = "ENABLED" => \/ a.target = "ENABLED" /\ b.reached_oe = a.reached_oe
                             \/ x.op = "ENABLE" /\ b.reached_oe = FALSE

\* What the commands of the application do to the target.
LEMMA CommandStage ==
  ASSUME NEW a, AxisOk(a), NEW x \in Issued
  PROVE  Told(a, x, A!apply_cmd(a, x))
  <1> DEFINE b == A!apply_cmd(a, x)
  <1>0. x.op \in {"ENABLE", "DISABLE", "QUICKSTOP", "FAULT_RESET", "HOME", "SET_MODE", "PP_POINT"}
    BY IssuedAssumption, Zenon DEF A!Commands
  <1>1. Told(a, x, a)
    BY Zenon DEF Told
  <1>2. ASSUME NEW t \in {"DISABLED", "QUICKSTOP"}, NEW n
        PROVE  Told(a, x, [a EXCEPT !.target = t]) /\ Told(a, x, [a EXCEPT !.target = t, !.reset_pulse = n])
    BY SMT DEF Told, AxisOk, Fields, A!Target
  <1>3. CASE x.op = "ENABLE"
    <2>1. ASSUME NEW w, NEW k
          PROVE  Told(a, x, [a EXCEPT !.target = "ENABLED", !.ds_wait = w, !.step_age = k, !.reached_oe = FALSE])
      BY <1>3, SMT DEF Told, AxisOk, Fields, A!Target
    <2>2. QED BY <1>1, <1>2, <1>3, <2>1, Zenon DEF A!apply_cmd
  <1>4. CASE x.op \in {"DISABLE", "QUICKSTOP"}
    BY <1>2, <1>4, Zenon DEF A!apply_cmd
  <1>5. CASE x.op = "FAULT_RESET"
    <2> DEFINE n == IF a.ds = "FAULT" THEN 2 ELSE a.reset_pulse
    <2>1. b = [a EXCEPT !.target = "DISABLED", !.reset_pulse = n]
      BY <1>5, Zenon DEF A!apply_cmd
    <2> HIDE DEF n, b
    <2>2. Told(a, x, b)
      BY <1>2, <2>1, Zenon
    <2>3. QED BY <2>2, Zenon DEF b
  <1>6. CASE x.op = "SET_MODE"
    <2>1. ASSUME NEW m PROVE Told(a, x, [a EXCEPT !.mode_req = m, !.armed = FALSE])
      BY SMT DEF Told, AxisOk, Fields, A!Target
    <2>2. QED BY <1>1, <1>6, <2>1, Zenon DEF A!apply_cmd
  <1>7. CASE x.op = "PP_POINT"
    <2>1. ASSUME NEW q PROVE Told(a, x, [a EXCEPT !.pp_q = q])
      BY SMT DEF Told, AxisOk, Fields, A!Target
    <2>2. QED BY <1>1, <1>7, <2>1, Zenon DEF A!apply_cmd
  <1>8. CASE x.op = "HOME"
    BY <1>8, SMT DEF A!apply_cmd, Told, AxisOk, Fields, A!Target
  <1>9. QED BY <1>0, <1>3, <1>4, <1>5, <1>6, <1>7, <1>8

\* A command of the application keeps the invariant.
LEMMA CommandInv ==
  ASSUME CiaInv, NEW x \in Issued, AppCommand(x)
  PROVE  CiaInv' /\ Dropped
  <1>1. pc = "hook" /\ UNCHANGED <<drv, out, reply, lost, pc, stop>>
    BY Zenon DEF AppCommand
  <1>2. permit' = (permit \/ (x.op = "ENABLE" /\ ax'.target = "ENABLED"))
    BY Zenon DEF AppCommand
  <1>3. ax' = A!apply_cmd(ax, x)
    BY Zenon DEF AppCommand
  <1>4. Told(ax, x, ax')
    BY <1>3, CommandStage, Zenon DEF CiaInv
  <1>5. ax'.target = "ENABLED" => /\ ax'.reached_oe => ax'.ds = "OE"
                                  /\ ~permit' => ax'.reached_oe /\ drv'.ds \in Gone
    BY <1>1, <1>2, <1>4, Zenon DEF Told, CiaInv
  <1>6. DriveOk(drv')
    BY <1>1, Zenon DEF CiaInv
  <1>7. QED BY <1>1, <1>4, <1>5, <1>6, Zenon DEF CiaInv, Told, Dropped

\* The steps that leave drive, outputs and target alone keep the invariant.
LEMMA OthersInv ==
  ASSUME CiaInv, UNCHANGED <<drv, out, reply, lost, permit>>,
         AxisOk(ax'), ax'.ds = ax.ds, ax'.target = ax.target, ax'.reached_oe = ax.reached_oe,
         pc' \in {pc, "left"}, stop' = "down" => pc' = "left" /\ (lost \/ ax.ds \notin Up)
  PROVE  CiaInv' /\ Dropped
  <1>1. DriveOk(drv')
    BY Zenon DEF CiaInv
  <1>2. QED BY <1>1 DEF CiaInv, Dropped

\* Every step keeps the invariant and enters operation only with permission.
LEMMA CiaStep ==
  ASSUME CiaInv, [CiaNext]_ciaVars
  PROVE  CiaInv' /\ Dropped
  <1>0. AxisOk(ax) /\ (stop = "down" => pc = "left" /\ (lost \/ ax.ds \notin Up))
    BY Zenon DEF CiaInv
  <1>1. CASE FrameOk \/ FramePartial \/ ReplyLost \/ FrameLost
    BY <1>1, ExchangeInv, Zenon DEF FrameOk, FramePartial, ReplyLost, FrameLost
  <1>2. CASE LostTick \/ BusBack
    BY <1>2, LostTickInv, BusBackInv, Zenon
  <1>3. CASE \E x \in Issued : AppCommand(x)
    BY <1>3, CommandInv, Zenon
  <1>4. CASE \E sp \in IF ax.mode_req = "CSP" THEN Position \cup {A!None} ELSE {A!None} : Hook(sp)
    BY <1>4, HookInv, Zenon
  <1>5. CASE Stop
    <2>1. UNCHANGED <<drv, ax, out, reply, lost, permit, pc>> /\ stop' = "asked"
      BY <1>5, Zenon DEF Stop, history
    <2>2. QED BY <1>0, <2>1, OthersInv, Zenon
  <1>6. CASE Leave
    <2>1. /\ UNCHANGED <<drv, out, reply, lost, permit>> /\ pc' = "left" /\ ax' = AtTop(ax)
          /\ stop' = IF A!ecm_cia402_all_down(ax, lost) THEN "down" ELSE "timeout"
      BY <1>6, Zenon DEF Leave, history
    <2>2. /\ AxisOk(ax') /\ ax'.ds = ax.ds /\ ax'.reached_oe = ax.reached_oe
          /\ ax'.target = "ENABLED" => ax.target = "ENABLED"
      BY <1>0, <2>1, ShutdownStage, Zenon DEF AxisOk, A!Target
    <2>3. stop' = "down" => lost \/ ax.ds \notin Up
      BY <2>1, Zenon DEF A!ecm_cia402_all_down, Up
    <2>4. DriveOk(drv')
      BY <2>1, Zenon DEF CiaInv
    <2>5. QED BY <2>1, <2>2, <2>3, <2>4, Zenon DEF CiaInv, Dropped
  <1>7. CASE SlaveDrops \/ SlaveBack \/ UNCHANGED ciaVars
    <2>1. UNCHANGED <<drv, ax, out, reply, lost, permit, pc, stop>>
      BY <1>7, Zenon DEF SlaveDrops, SlaveBack, ciaVars, history
    <2>2. QED BY <1>0, <2>1, OthersInv, Zenon
  <1>8. CASE set_ext_error
    <2>1. UNCHANGED <<drv, out, reply, lost, permit, pc, stop>> /\ ax' = [ax EXCEPT !.ext_err = TRUE]
      BY <1>8, Zenon DEF set_ext_error, history
    <2>2. AxisOk(ax') /\ ax'.ds = ax.ds /\ ax'.target = ax.target /\ ax'.reached_oe = ax.reached_oe
      BY <1>0, <2>1, SMT DEF AxisOk, Fields, A!Target
    <2>3. QED BY <1>0, <2>1, <2>2, OthersInv, Zenon
  <1>9. QED BY <1>1, <1>2, <1>3, <1>4, <1>5, <1>6, <1>7, <1>8, ZenonT(40) DEF CiaNext

\* The invariant holds at the start.
LEMMA CiaInitInv == CiaInit => CiaInv
  <1>1. SUFFICES ASSUME CiaInit PROVE CiaInv
    BY Zenon
  <1>2. AxisOk(ax) /\ ax.target = "DISABLED" /\ ax.ds = "NOT_READY"
    BY <1>1, SMT DEF CiaInit, A!AxisInit, AxisOk, Fields, A!Target
  <1>3. DriveOk(drv) /\ drv.ds = "NOT_READY"
    BY <1>1, SMT DEF CiaInit, D!DriveInit, DriveOk, D!DriveState
  <1>4. out.cw = {} /\ reply = NoReply /\ lost = FALSE /\ pc = "top" /\ stop = "no"
    BY <1>1, Zenon DEF CiaInit
  <1>5. QED BY <1>2, <1>3, <1>4, Words, Zenon DEF CiaInv, Low

\* S6: the loop that is left because every axis is down leaves no drive powered,
\* whatever was lost or late before.
THEOREM LeavesDrivesDown == CiaSpec => []DownBeforeLeavingOp
  <1>1. CiaInv => DownBeforeLeavingOp
    BY Zenon DEF CiaInv, DownBeforeLeavingOp, Low
  <1>2. CiaInv /\ [CiaNext]_ciaVars => CiaInv'
    BY CiaStep, Zenon
  <1>3. QED BY CiaInitInv, <1>1, <1>2, PTL DEF CiaSpec

\* S1: a drive that dropped out of Operation enabled stays out until the
\* application enables it again.
THEOREM DroppedStaysDropped == CiaSpec => StaysDropped
  <1>1. CiaInv /\ [CiaNext]_ciaVars => CiaInv' /\ [drv.ds # "OE" /\ drv'.ds = "OE" => permit]_ciaVars
    BY CiaStep, Zenon DEF Dropped
  <1>2. QED BY CiaInitInv, <1>1, PTL DEF CiaSpec, StaysDropped
=============================================================================
