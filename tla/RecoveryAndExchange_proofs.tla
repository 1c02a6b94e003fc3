--------------------- MODULE RecoveryAndExchange_proofs ---------------------
(***************************************************************************)
(* Proofs about BusRecovery for every number of slaves, every threshold    *)
(* and period of the bus state machine, every generation modulus, with and *)
(* without the api thread and with and without recovery.  And about        *)
(* Exchange, for every lead of the producer that the hook can skip: the    *)
(* frame of a tick carries the setpoint of that tick.                      *)
(***************************************************************************)
EXTENDS BusRecovery, Exchange, TLAPS

-----------------------------------------------------------------------------
(* BusRecovery.                                                            *)

\* A new request never looks like one that has been answered.
LEMMA NextGenIsNew ==
  ASSUME NEW g \in Gen
  PROVE  NextGen(g) \in Gen /\ NextGen(g) # g
BY RecoveryAssumption DEF Gen, NextGen

\* The initial state: every thread at its start, no request, no window.
LEMMA InitIInv == Init => IInv
<1> SUFFICES ASSUME Init PROVE IInv
  BY Zenon
<1> USE BusCfgAssumption, RecoveryAssumption DEF Init, BusInit
<1>1. TypeOK
  <2>1. 0 \in Gen /\ BusTypeOK
    BY DEF Gen, BusTypeOK, BusState
  <2>2. api_pc \in ApiPc
    BY Zenon DEF ApiPc
  <2>3. keep \in 0 .. KeepTicks /\ todo \in 0 .. NSlaves /\ reach \in 0 .. NSlaves
    OBVIOUS
  <2>4. excl_depth \in Int
    OBVIOUS
  <2> QED BY <2>1, <2>2, <2>3, <2>4, Zenon DEF TypeOK, BusState, RtPc, MonPc
<1>2. BusStateSound
  BY DEF BusStateSound, Cyclic
<1>3. HandshakeInv /\ MonitorOwnsBus /\ AnswerIsOfThisRequest
  BY Zenon DEF HandshakeInv, MonitorOwnsBus, AnswerIsOfThisRequest
<1>4. WindowsBalance
  BY DEF WindowsBalance, FullWindow, PathBWindow, RtWindow, EndWindow, One, Cyclic
<1>5. FenceInv
  BY Zenon DEF FenceInv, FullWindow, PathBWindow
<1> QED BY <1>1, <1>2, <1>3, <1>4, <1>5, Zenon DEF IInv

\* Every step of the RT thread keeps the invariant: its half of the takeover
\* handshake, its cycle and the way out.
LEMMA RtKeepsIInv == ASSUME IInv, RtStep PROVE IInv'
<1> USE BusCfgAssumption, RecoveryAssumption
    DEF IInv, TypeOK, BusTypeOK, BusStateSound, HandshakeInv, MonitorOwnsBus,
        AnswerIsOfThisRequest, WindowsBalance, FenceInv, FullWindow,
        PathBWindow, RtWindow, EndWindow, One, BusState, Cyclic, RtPc, MonPc,
        ApiPc, Gen, notRt, request, fence, ansVars, monVars, stopVars, busVars,
        rtVars
<1>1. CASE RtCycle
  <2> PICK mc \in PossibleClass(reach), ic \in PossibleClass(reach) \cup {"NOT_DUE"} :
        ecm_bus_on_cycle(mc, ic)
    BY <1>1, Zenon DEF RtCycle
  <2>1. io_ok' \in BOOLEAN
    BY Zenon DEF ecm_bus_on_cycle
  <2>2. noframe_run' \in 0 .. NLost /\ (bus_state' \in Cyclic => noframe_run' < NLost)
    BY DEF ecm_bus_on_cycle
  <2>3. bus_state' \in {"RUN", "DEGRADED", "LOST"} /\ probe_in' \in Nat
    BY DEF ecm_bus_on_cycle, OneTickOn
  <2>4. bus_state' = "RUN" => noframe_run' = 0 /\ io_ok'
    BY Zenon DEF ecm_bus_on_cycle
  <2> QED BY <1>1, <2>1, <2>2, <2>3, <2>4 DEF RtCycle, ecm_bus_on_cycle
<1>2. CASE RtProbe
  BY <1>2, NextGenIsNew DEF RtProbe, ecm_bus_on_probe, ecm_bus_probe_due, OneTickOn
<1>3. CASE RtAwaitDone
  BY <1>3 DEF RtAwaitDone, ecm_bus_on_recover_done, OneTickOn
<1>4. CASE RtIdle
  BY <1>4 DEF RtIdle, BusWait, OneTickOn
<1>5. CASE RtPublish
  BY <1>5 DEF RtPublish
<1>6. CASE LeaveOp
  BY <1>6 DEF LeaveOp
<1>7. CASE StopThreads
  BY <1>7 DEF StopThreads
<1>8. CASE JoinMonitor
  BY <1>8 DEF JoinMonitor
<1>9. CASE JoinApi
  BY <1>9 DEF JoinApi
<1> QED BY <1>1, <1>2, <1>3, <1>4, <1>5, <1>6, <1>7, <1>8, <1>9, ZenonT(40) DEF RtStep

\* Every step of the monitor keeps the invariant, with the bus in its hands or not.
LEMMA MonKeepsIInv == ASSUME IInv, MonStep \/ MonPlan PROVE IInv'
<1> USE BusCfgAssumption, RecoveryAssumption
    DEF IInv, TypeOK, BusTypeOK, BusStateSound, HandshakeInv, MonitorOwnsBus,
        AnswerIsOfThisRequest, WindowsBalance, FenceInv, FullWindow,
        PathBWindow, RtWindow, EndWindow, One, BusState, Cyclic, RtPc, MonPc,
        ApiPc, Gen, notMon, stopVars, busVars, rtVars, ansVars, fence
<1>1. CASE MonTake
  <2>1. in_full' \in BOOLEAN /\ mon_ok' \in BOOLEAN
    BY <1>1, Zenon DEF MonTake
  <2> QED BY <1>1, <2>1 DEF MonTake
<1>2. CASE MonPlan
  <2>1. todo' \in 0 .. NSlaves
    BY <1>2 DEF MonPlan
  <2>2. mon_pc = "loop" /\ mon_pc' = "plan"
    BY <1>2, Zenon DEF MonPlan
  <2>3. UNCHANGED <<notMon, ansVars, fence, in_full, mon_req, mon_ok, excl_depth>>
    BY <1>2, Zenon DEF MonPlan
  <2> QED BY <2>1, <2>2, <2>3
<1>3. CASE MonPlanNext
  BY <1>3 DEF MonPlanNext
<1>4. CASE PathBBlock
  <2>1. /\ mon_pc = "pb_block" /\ mon_pc' = "pb_lock"
        /\ sdo_block' \in BOOLEAN
    BY <1>4, Zenon DEF PathBBlock, FenceBlock
  <2> QED BY <1>4, <2>1 DEF PathBBlock
<1>5. CASE PathBLock
  BY <1>5 DEF PathBLock, FenceLock
<1>6. CASE PathBEnd
  BY <1>6 DEF PathBEnd, FenceUnlock
<1>7. CASE PathBUnblock
  <2>1. /\ mon_pc = "pb_unblock" /\ mon_pc' = IF in_full THEN "rf_slaves" ELSE "plan"
        /\ sdo_block' \in BOOLEAN
    BY <1>7, Zenon DEF PathBUnblock, FenceUnblock
  <2> QED BY <1>7, <2>1 DEF PathBUnblock
<1>8. CASE FullBlock
  <2>1. /\ mon_pc = "rf_block" /\ mon_pc' = "rf_lock"
        /\ sdo_block' \in BOOLEAN
    BY <1>8, Zenon DEF FullBlock, FenceBlock
  <2> QED BY <1>8, <2>1 DEF FullBlock
<1>9. CASE FullLock
  BY <1>9 DEF FullLock, FenceLock
<1>10. CASE FullSlave
  BY <1>10 DEF FullSlave
<1>11. CASE FullEnd
  <2>1. mon_ok' \in BOOLEAN
    BY <1>11, Zenon DEF FullEnd
  <2> QED BY <1>11, <2>1 DEF FullEnd, FenceUnlock
<1>12. CASE FullUnblock
  <2>1. /\ mon_pc = "rf_unblock" /\ mon_pc' = "ok"
        /\ sdo_block' \in BOOLEAN
    BY <1>12, Zenon DEF FullUnblock, FenceUnblock
  <2>2. UNCHANGED <<notMon, ansVars, todo, mon_req, mon_ok, excl_depth, sdo_mx>>
    BY <1>12, Zenon DEF FullUnblock
  <2>3. in_full' = FALSE /\ in_full
    BY <1>12, <2>1, Zenon DEF FullUnblock
  <2>4. in_full' \in BOOLEAN /\ ~in_full'
    BY <2>3, Zenon
  <2>5. TypeOK' /\ BusStateSound'
    BY <2>1, <2>2, <2>4
  <2>6. HandshakeInv' /\ MonitorOwnsBus' /\ AnswerIsOfThisRequest'
    BY <2>1, <2>2, <2>3, <2>4, Zenon
  <2>7. WindowsBalance' /\ FenceInv'
    BY <2>1, <2>2, <2>3, <2>4, ZenonT(40)
  <2> QED BY <2>5, <2>6, <2>7, Zenon
<1>13. CASE MonStoreOk
  <2>1. recover_ok' \in BOOLEAN
    BY <1>13, ZenonT(40) DEF MonStoreOk
  <2> QED BY <1>13, <2>1 DEF MonStoreOk
<1>14. CASE MonStoreDone
  BY <1>14 DEF MonStoreDone
<1>15. CASE MonExit
  BY <1>15 DEF MonExit
<1> QED BY <1>1, <1>2, <1>3, <1>4, <1>5, <1>6, <1>7, <1>8, <1>9, <1>10, <1>11,
           <1>12, <1>13, <1>14, <1>15, ZenonT(40) DEF MonStep, PathBStep, FullStep

\* Every step of ecm_recover keeps the invariant: posting, waiting, timing out.
LEMMA ApiKeepsIInv == ASSUME IInv, ApiStep \/ ApiReady PROVE IInv'
<1> USE BusCfgAssumption, RecoveryAssumption
    DEF IInv, TypeOK, BusTypeOK, BusStateSound, HandshakeInv, MonitorOwnsBus,
        AnswerIsOfThisRequest, WindowsBalance, FenceInv, FullWindow,
        PathBWindow, RtWindow, EndWindow, One, ApiPc, notApi, stopVars,
        busVars, rtVars, ansVars, monVars, fence
<1>1. CASE ApiReady
  BY <1>1 DEF ApiReady
<1>2. CASE ApiLock
  BY <1>2 DEF ApiLock
<1>3. CASE ApiCheck
  BY <1>3 DEF ApiCheck
<1>4. CASE ApiSdoDone
  BY <1>4 DEF ApiSdoDone
<1>5. CASE ApiExit
  BY <1>5 DEF ApiExit
<1> QED BY <1>1, <1>2, <1>3, <1>4, <1>5, ZenonT(40) DEF ApiStep

\* The wire, the stop request and a stutter keep the invariant.
LEMMA EnvKeepsIInv == ASSUME IInv, WireChange \/ StopRequest \/ UNCHANGED vars PROVE IInv'
<1> USE BusCfgAssumption, RecoveryAssumption
    DEF IInv, TypeOK, BusTypeOK, BusStateSound, HandshakeInv, MonitorOwnsBus,
        AnswerIsOfThisRequest, WindowsBalance, FenceInv, FullWindow,
        PathBWindow, RtWindow, EndWindow, One, stopVars, busVars, rtVars,
        ansVars, monVars, fence
<1>1. CASE WireChange
  BY <1>1 DEF WireChange
<1>2. CASE StopRequest
  BY <1>2 DEF StopRequest
<1>3. CASE UNCHANGED vars
  BY <1>3 DEF vars, notRt
<1> QED BY <1>1, <1>2, <1>3, ZenonT(40)

\* The inductive invariant holds in every reachable state: RT thread, monitor
\* and api thread never leave the joint positions IInv describes.
THEOREM Invariance == Spec => []IInv
<1>1. IInv /\ [Next]_vars => IInv'
  BY RtKeepsIInv, MonKeepsIInv, ApiKeepsIInv, EnvKeepsIInv, Zenon DEF Next
<1> QED BY <1>1, InitIInv, PTL DEF Spec

\* The monitor works on the bus, in recover_full() and until its answer is
\* stored, only while the RT thread waits in RECOVER for that generation.
THEOREM MonitorOwnership == Spec => []MonitorOwnsBus
<1>1. IInv => MonitorOwnsBus
  BY Zenon DEF IInv
<1> QED BY <1>1, Invariance, PTL

\* The RT thread that sees its generation in g_recover_done reads in
\* g_recover_ok the result of that generation.
THEOREM AnswerMatches == Spec => []AnswerIsOfThisRequest
<1>1. IInv => AnswerIsOfThisRequest
  BY Zenon DEF IInv
<1> QED BY <1>1, Invariance, PTL

\* g_excl_depth is the number of open exclusion windows.
THEOREM WindowsAreBalanced == Spec => []WindowsBalance
<1>1. IInv => WindowsBalance
  BY Zenon DEF IInv
<1> QED BY <1>1, Invariance, PTL

\* No SDO of the api thread is in flight inside recover_full or recover_path_b.
THEOREM SdoIsFenced == Spec => []SdoFence
<1>1. IInv => SdoFence
  BY RecoveryAssumption, Zenon DEF IInv, FenceInv, SdoFence
<1> QED BY <1>1, Invariance, PTL

\* The cyclic loop sends nothing between its request and the matching done.
THEOREM LoopIsSilent == Spec => LoopSendsOnlyWhenOwner
<1>1. ASSUME IInv, RtCycle \/ RtProbe PROVE recover_req = recover_done
  BY <1>1, Zenon DEF IInv, HandshakeInv, RtCycle, RtProbe, ecm_bus_on_cycle,
              ecm_bus_on_probe, ecm_bus_probe_due, Cyclic
<1>2. IInv => [RtCycle \/ RtProbe => recover_req = recover_done]_vars
  BY <1>1, Zenon
<1> QED BY <1>2, Invariance, PTL DEF LoopSendsOnlyWhenOwner

\* Process data is taken up again only when the answered recovery ended well.
THEOREM ResumeAfterSuccess == Spec => ResumeOnlyAfterSuccess
<1> DEFINE Resume == bus_state \notin Cyclic /\ bus_state' \in Cyclic =>
                       bus_state = "RECOVER" /\ mon_ok /\ ~in_full
<1>1. ASSUME IInv, RtStep PROVE Resume
  <2>1. CASE RtAwaitDone
    BY <1>1, <2>1 DEF RtAwaitDone, ecm_bus_on_recover_done, IInv, Cyclic,
                      AnswerIsOfThisRequest, MonitorOwnsBus, HandshakeInv
  <2>2. CASE RtCycle
    BY <2>2, Zenon DEF RtCycle, ecm_bus_on_cycle
  <2>3. CASE RtProbe
    BY <2>3, Zenon DEF RtProbe, ecm_bus_on_probe, Cyclic
  <2>4. CASE RtIdle
    BY <2>4, Zenon DEF RtIdle, BusWait
  <2>5. CASE UNCHANGED busVars
    BY <2>5, Zenon DEF busVars
  <2> QED BY <1>1, <2>1, <2>2, <2>3, <2>4, <2>5, Zenon DEF RtStep, RtPublish, LeaveOp, StopThreads, JoinMonitor, JoinApi
<1>2. ASSUME MonStep \/ MonPlan PROVE UNCHANGED busVars
  BY <1>2, Zenon DEF MonStep, MonPlan, MonTake, MonPlanNext, PathBStep, FullStep,
              PathBBlock, PathBLock, PathBEnd, PathBUnblock, FullBlock, FullLock,
              FullSlave, FullEnd, FullUnblock, MonStoreOk, MonStoreDone, MonExit, notMon
<1>3. ASSUME ApiStep \/ ApiReady \/ WireChange \/ StopRequest \/ UNCHANGED vars
      PROVE  UNCHANGED busVars
  BY <1>3, Zenon DEF ApiStep, ApiReady, ApiLock, ApiCheck, ApiSdoDone, ApiExit, notApi,
              WireChange, StopRequest, vars
<1>4. IInv /\ [Next]_vars => [Resume]_vars
  BY <1>1, <1>2, <1>3, Zenon DEF Next, busVars
<1> QED BY <1>4, Invariance, PTL DEF Spec, ResumeOnlyAfterSuccess

\* The variables the abstract state is computed from.
ownerSource == <<bus_state, recover_req, recover_done, recover_ok>>

\* The handover of the bus implements BusOwner: RtCycle loses the bus, RtProbe
\* hands it over, MonStoreDone answers, RtAwaitDone acts on the answer, and
\* every other step of the three threads leaves the ownership alone.
THEOREM HandoverImplementsOwner == Spec => ImplementsOwner
<1> USE DEF Owner, Serving, Verdict, Cyclic
<1>1. Init => Ownership!OwnerInit
  BY Zenon DEF Init, BusInit, Ownership!OwnerInit
<1> DEFINE Map == [Ownership!OwnerNext]_(Ownership!ownerVars)
<1>2. ASSUME UNCHANGED ownerSource PROVE Map
  BY <1>2, Zenon DEF ownerSource, Ownership!ownerVars
<1>3. ASSUME IInv, RtCycle PROVE Map
  <2>1. bus_state \in Cyclic /\ bus_state' \in {"RUN", "DEGRADED", "LOST"}
    BY <1>3, Zenon DEF RtCycle, ecm_bus_on_cycle
  <2>2. UNCHANGED <<recover_req, recover_done, recover_ok>>
    BY <1>3, Zenon DEF RtCycle, notRt, ansVars, request
  <2>3. recover_req = recover_done
    BY <1>3, <2>1, Zenon DEF IInv, HandshakeInv
  <2> QED BY <2>1, <2>2, <2>3
          DEF Ownership!OwnerNext, Ownership!Lose, Ownership!ownerVars
<1>4. ASSUME IInv, RtProbe PROVE Map
  <2>1. bus_state = "LOST" /\ recover_req = recover_done /\ recover_gen \in Gen
        /\ recover_req = recover_gen
    BY <1>4, Zenon DEF RtProbe, ecm_bus_on_probe, ecm_bus_probe_due, IInv, HandshakeInv, TypeOK
  <2>2. UNCHANGED <<recover_done, recover_ok>>
    BY <1>4, Zenon DEF RtProbe, notRt, ansVars
  <2>3. \/ bus_state' = "LOST" /\ UNCHANGED recover_req
        \/ bus_state' = "RECOVER" /\ recover_req' = NextGen(recover_gen)
    BY <1>4, Zenon DEF RtProbe, ecm_bus_on_probe
  <2>4. NextGen(recover_gen) # recover_gen
    BY <2>1, NextGenIsNew, Zenon
  <2>5. CASE bus_state' = "LOST" /\ UNCHANGED recover_req
    BY <2>1, <2>2, <2>5, Zenon DEF Ownership!ownerVars
  <2>6. CASE bus_state' = "RECOVER" /\ recover_req' = NextGen(recover_gen)
    <3>1. ~Serving /\ ~Serving' /\ Owner = "rt" /\ Owner' = "monitor"
      BY <2>1, <2>2, <2>4, <2>6, Zenon
    <3>2. Verdict = "none" /\ Verdict' = "none"
      BY <2>1, <2>2, <2>4, <2>6, ZenonT(40)
    <3>3. UNCHANGED Serving
      BY <3>1
    <3> HIDE DEF Owner, Serving, Verdict
    <3>4. Ownership!HandOver
      BY <3>1, <3>2, <3>3, Zenon DEF Ownership!HandOver
    <3> QED BY <3>4, Zenon DEF Ownership!OwnerNext
  <2> QED BY <2>3, <2>5, <2>6, Zenon
<1>5. ASSUME IInv, RtAwaitDone PROVE Map
  <2>1. /\ bus_state = "RECOVER" /\ recover_req = recover_done
        /\ bus_state' = IF recover_ok THEN "RUN" ELSE "LOST"
    BY <1>5, Zenon DEF RtAwaitDone, ecm_bus_on_recover_done, IInv, HandshakeInv
  <2>2. UNCHANGED <<recover_req, recover_done, recover_ok>>
    BY <1>5, Zenon DEF RtAwaitDone, notRt, ansVars, request
  <2> QED BY <2>1, <2>2 DEF Ownership!OwnerNext, Ownership!Act, Ownership!ownerVars
<1>6. ASSUME IInv, MonStoreDone PROVE Map
  <2>1. /\ bus_state = "RECOVER" /\ recover_req # recover_done
        /\ recover_done' = recover_req
    BY <1>6, Zenon DEF MonStoreDone, IInv, MonitorOwnsBus
  <2>2. UNCHANGED <<bus_state, recover_req, recover_ok>>
    BY <1>6, Zenon DEF MonStoreDone, notMon, busVars, rtVars
  <2> QED BY <2>1, <2>2, Zenon DEF Ownership!OwnerNext, Ownership!Answer, Ownership!ownerVars
<1>7. ASSUME IInv, MonStoreOk PROVE Map
  <2>1. bus_state = "RECOVER" /\ recover_req # recover_done
    BY <1>7, Zenon DEF MonStoreOk, IInv, MonitorOwnsBus
  <2>2. UNCHANGED <<bus_state, recover_req, recover_done>>
    BY <1>7, Zenon DEF MonStoreOk, notMon, busVars, rtVars
  <2> QED BY <2>1, <2>2, Zenon DEF Ownership!ownerVars
<1>8. ASSUME RtIdle \/ RtPublish \/ LeaveOp \/ StopThreads \/ JoinMonitor \/ JoinApi
      PROVE  UNCHANGED ownerSource
  BY <1>8, Zenon DEF RtIdle, BusWait, RtPublish, LeaveOp, StopThreads, JoinMonitor, JoinApi,
              notRt, ansVars, request, rtVars, busVars, ownerSource
<1>9. ASSUME \/ MonTake \/ MonPlan \/ MonPlanNext \/ PathBStep \/ FullStep \/ MonExit
      PROVE  UNCHANGED ownerSource
  BY <1>9, Zenon DEF MonTake, MonPlan, MonPlanNext, PathBStep, FullStep, PathBBlock,
              PathBLock, PathBEnd, PathBUnblock, FullBlock, FullLock, FullSlave,
              FullEnd, FullUnblock, MonExit, notMon, ansVars, rtVars, busVars, ownerSource
<1>10. ASSUME ApiStep \/ ApiReady \/ WireChange \/ StopRequest \/ UNCHANGED vars
       PROVE  UNCHANGED ownerSource
  BY <1>10, Zenon DEF ApiStep, ApiReady, ApiLock, ApiCheck, ApiSdoDone, ApiExit, notApi,
               WireChange, StopRequest, vars, notRt, ansVars, rtVars, busVars, ownerSource
<1>11. IInv /\ [Next]_vars => Map
  BY <1>2, <1>3, <1>4, <1>5, <1>6, <1>7, <1>8, <1>9, <1>10, Zenon DEF Next, RtStep, MonStep
<1> QED BY <1>1, <1>11, Invariance, PTL DEF Spec, ImplementsOwner, Ownership!OwnerSpec

-----------------------------------------------------------------------------
(* Exchange.                                                               *)

\* What is used of the naturals; LeastHolds proves it from the library.
LeastFact == \A T \in SUBSET Nat : T # {} => \E n \in T : \A y \in T : n <= y

\* The ring of setpoints: they rise, and with a lead within the budget of a hook those
\* the clock has passed come from one pass of the producer, so they are close together.
Rising ==
  /\ xsp \in Seq(Int)
  /\ \A i, j \in 1 .. Len(xsp) : i <= j => xsp[j] - xsp[i] >= j - i
Close ==
  Ample => \A i, j \in 1 .. Len(xsp) : xsp[i] <= clock + 1 /\ xsp[j] <= clock + 1 => xsp[j] - xsp[i] <= app.lead - 2

\* The producer is ahead of the setpoints in the ring, and of its own clock; once
\* the hook has run since, what it skipped is gone.
AppFields == {"pc", "lead", "k", "next", "rec", "under", "bad"}
AppPc(a) == a.pc \in {"clock", "push"} /\ a.lead \in Nat /\ a.k \in Nat /\ a.next \in Nat /\ a.rec \in Nat
Producer ==
  /\ AppFields \subseteq DOMAIN app /\ AppPc(app) /\ app.rec <= clock
  /\ \A i \in 1 .. Len(xsp) : xsp[i] < app.next
  /\ app.pc = "push" => app.k <= clock
  /\ app.pc = "push" /\ Ample => /\ app.k + 2 <= app.next
                                 /\ app.k < clock => \A i \in 1 .. Len(xsp) : xsp[i] >= app.k + 2

\* The record is that of the last hook.  When the producer has seen the one before
\* it, and no underrun since, the output is the setpoint of the next frame.
SlotFields == {"armed", "last", "used", "late", "underrun", "dropped_lost", "last_seq", "deferred"}
Slots ==
  /\ SlotFields \subseteq DOMAIN xslot /\ xslot.armed \in BOOLEAN /\ xslot.underrun \in Int /\ xslot.used \in Int
  /\ clock \in Nat /\ rec.tick = clock /\ rec.underrun = xslot.underrun /\ rec.lost \in BOOLEAN
Echo ==
  /\ app.rec = clock => app.under = rec.underrun
  /\ app.rec + 1 = clock /\ rec.valid /\ rec.underrun = app.under /\ ~rec.lost => rec.value = rec.tick + 1
  /\ FALSE \notin app.bad

XchgInv == Rising /\ Close /\ Producer /\ Slots /\ Echo

\* Nothing is in the ring at the start.
LEMMA XchgInitInv == XchgInit => XchgInv
  <1> SUFFICES ASSUME XchgInit PROVE XchgInv
    OBVIOUS
  <1>1. PICK lead \in Leads :
          app = [pc |-> "clock", lead |-> lead, k |-> 0, next |-> 0, rec |-> 0, under |-> 0, bad |-> {}]
    BY Zenon DEF XchgInit
  <1>2. lead \in Nat
    BY XchgAssumption, Zenon
  <1>3. QED BY <1>1, <1>2 DEF XchgInit, XchgInv, Rising, Close, Producer, AppFields, AppPc, Slots, SlotFields, Echo, Slot0, Rec0

\* What ecm_xchg_rt skips: late setpoints, and all of them unless its budget ends.
Clear(k1, lost, n) == \A i \in n + 1 .. Len(xsp) : xsp[i] \in Int /\ ~Passed(xsp[i], k1, lost)
Cut(k1, lost, n)   == ~Ample /\ n = SkipMax /\ n < Len(xsp) /\ Passed(xsp[n + 1], k1, lost)
SkipIs(k1, lost, n) ==
  /\ n \in 0 .. Len(xsp) /\ n <= SkipMax
  /\ \A i \in 1 .. n : Passed(xsp[i], k1, lost)
  /\ Clear(k1, lost, n) \/ Cut(k1, lost, n)

\* With a lead of at most ECM_XCHG_SP_SKIP_MAX the late setpoints are fewer.
LEMMA SkippedIs ==
  ASSUME LeastFact, Rising, Close, clock \in Nat, AppPc(app), NEW lost \in BOOLEAN
  PROVE  SkipIs(clock + 2, lost, Skipped(clock + 2, lost))
  <1> DEFINE k1 == clock + 2
             e == SkipEnd
             P(n) == /\ \A i \in 1 .. n : Passed(xsp[i], k1, lost)
                     /\ n < e => ~Passed(xsp[n + 1], k1, lost)
             T == {i \in 1 .. e : ~Passed(xsp[i], k1, lost)}
             n == Skipped(k1, lost)
  <1>0. /\ Len(xsp) \in Nat /\ e \in 0 .. Len(xsp) /\ e <= SkipMax /\ (e < Len(xsp) => e = SkipMax)
        /\ SkipMax \in Nat /\ app.lead \in Nat /\ k1 \in Nat
        /\ \A i \in 1 .. Len(xsp) : xsp[i] \in Int
    BY XchgAssumption DEF Rising, SkipEnd, AppPc
  <1> HIDE DEF e
  <1>1. \E m \in 0 .. e : P(m)
    <2>1. CASE T = {}
      <3>1. P(e) /\ e \in 0 .. e
        BY <1>0, <2>1
      <3>2. QED BY <3>1, Zenon
    <2>2. CASE T # {}
      <3>1. T \in SUBSET Nat
        BY <1>0
      <3>2. PICK x \in T : \A y \in T : x <= y
        BY <2>2, <3>1, Zenon DEF LeastFact
      <3>3. x \in 1 .. e /\ ~Passed(xsp[x], k1, lost)
        BY <3>2, Zenon
      <3>4. x - 1 \in 0 .. e /\ (x - 1) + 1 = x
        BY <1>0, <3>3
      <3>5. ASSUME NEW j \in 1 .. x - 1 PROVE Passed(xsp[j], k1, lost)
        <4>1. j \in 1 .. e /\ ~(x <= j)
          BY <1>0, <3>3
        <4>2. QED BY <3>2, <4>1, Zenon
      <3>6. P(x - 1)
        BY <3>3, <3>4, <3>5, Zenon
      <3>7. QED BY <3>4, <3>6, Zenon
    <2>3. QED BY <2>1, <2>2, Zenon
  <1>2. n \in 0 .. e /\ P(n)
    BY <1>1, Zenon DEF Skipped, Skips, e
  <1> HIDE DEF n
  <1>3. ASSUME n < Len(xsp), Passed(xsp[n + 1], k1, lost) PROVE Cut(k1, lost, n)
    <2>1. ~(n < e)
      BY <1>2, <1>3, Zenon
    <2>2. n = SkipMax
      BY <1>0, <1>2, <1>3, <2>1
    <2>3. ASSUME Ample PROVE FALSE
      <3>0. 2 <= app.lead /\ app.lead <= SkipMax
        BY <2>3, Zenon DEF Ample
      <3>1. n + 1 \in 1 .. Len(xsp) /\ 1 \in 1 .. Len(xsp) /\ n \in 1 .. Len(xsp)
        BY <1>0, <1>2, <1>3, <2>2, <3>0
      <3>2. xsp[n + 1] <= k1
        BY <1>0, <1>3, <3>1 DEF Passed
      <3>3. xsp[n + 1] - xsp[n] >= 1 /\ xsp[n + 1] - xsp[1] >= n /\ xsp[n] - xsp[1] >= n - 1
        BY <1>0, <3>1 DEF Rising
      <3>4. xsp[n] <= clock + 1 /\ xsp[1] <= clock + 1
        BY <1>0, <2>2, <3>0, <3>1, <3>2, <3>3, SMTT(30)
      <3>5. xsp[n] - xsp[1] <= app.lead - 2
        BY <2>3, <3>1, <3>4, Zenon DEF Close
      <3>6. QED BY <1>0, <2>2, <3>0, <3>1, <3>3, <3>5, SMTT(30)
    <2>4. QED BY <1>3, <2>2, <2>3, Zenon DEF Cut
  <1>4. ASSUME ~Cut(k1, lost, n), NEW i \in n + 1 .. Len(xsp) PROVE xsp[i] \in Int /\ ~Passed(xsp[i], k1, lost)
    <2>1. i \in 1 .. Len(xsp) /\ n + 1 \in 1 .. Len(xsp) /\ n < Len(xsp) /\ n + 1 <= i
      BY <1>0, <1>2
    <2>2. ~Passed(xsp[n + 1], k1, lost)
      BY <1>3, <1>4, <2>1, Zenon
    <2>3. xsp[i] \in Int /\ xsp[n + 1] \in Int /\ xsp[i] - xsp[n + 1] >= i - (n + 1)
      BY <1>0, <2>1, Zenon DEF Rising
    <2>4. n \in Int /\ i \in Int
      BY <1>0, <1>2
    <2>5. i = n + 1 \/ xsp[i] > xsp[n + 1]
      BY <2>1, <2>3, <2>4
    <2>6. QED BY <1>0, <2>2, <2>3, <2>5 DEF Passed
  <1>5. n \in 0 .. Len(xsp) /\ n <= SkipMax
    BY <1>0, <1>2
  <1>6. QED BY <1>2, <1>4, <1>5, Zenon DEF SkipIs, Clear, n

\* The commands leave the underrun counter, and with the bus lost the output.
LEMMA CommandsIs ==
  ASSUME Slots, NEW k1, NEW lost \in BOOLEAN
  PROVE  LET s == AfterCommands(k1, lost)
         IN  /\ SlotFields \subseteq DOMAIN s /\ s.armed \in BOOLEAN
             /\ s.underrun = xslot.underrun /\ s.used = xslot.used /\ (lost => s.last = xslot.last)
  <1> DEFINE cs == SubSeq(xcmd, 1, Taken(k1))
             seq == cs[Len(cs)].seq
             v == 100 + seq
             t == [xslot EXCEPT !.last = v, !.armed = TRUE]
             s1 == IF lost \/ cs = <<>> THEN xslot ELSE t
             a == IF cs = <<>> THEN s1.last_seq ELSE seq
             b == s1.deferred \/ Due(k1) > CmdPerTick
             s == [s1 EXCEPT !.last_seq = a, !.deferred = b]
  <1>1. AfterCommands(k1, lost) = s
    BY Zenon DEF AfterCommands, Apply
  <1>2. SlotFields \subseteq DOMAIN xslot /\ xslot.armed \in BOOLEAN
    BY Zenon DEF Slots
  <1> HIDE DEF v
  <1>3. SlotFields \subseteq DOMAIN t /\ t.armed \in BOOLEAN /\ t.underrun = xslot.underrun /\ t.used = xslot.used
    BY <1>2 DEF SlotFields
  <1> HIDE DEF t
  <1>4. /\ SlotFields \subseteq DOMAIN s1 /\ s1.armed \in BOOLEAN /\ s1.underrun = xslot.underrun /\ s1.used = xslot.used
        /\ (lost => s1.last = xslot.last)
    BY <1>2, <1>3, Zenon
  <1> HIDE DEF s1, a, b
  <1>5. SlotFields \subseteq DOMAIN s /\ s.armed = s1.armed /\ s.underrun = s1.underrun /\ s.used = s1.used /\ s.last = s1.last
    BY <1>4 DEF SlotFields
  <1> HIDE DEF s
  <1>6. QED BY <1>1, <1>4, <1>5, Zenon

\* What is left of the ring: its end, all of it for later frames unless the budget
\* ended.
Rest(k1) ==
  \E d \in 0 .. Len(xsp) : /\ xsp' \in Seq(Int) /\ Len(xsp') = Len(xsp) - d
                           /\ \A i \in 1 .. Len(xsp') : xsp'[i] = xsp[i + d]
                           /\ (\A i \in 1 .. Len(xsp') : xsp'[i] > k1) \/ (~Ample /\ d = SkipMax)

\* What the frame for k1 carries.
Carries(k1, lost) ==
  /\ SlotFields \subseteq DOMAIN xslot' /\ xslot'.armed \in BOOLEAN /\ xslot'.underrun \in Int
  /\ IF lost THEN xslot'.last = xslot.last /\ xslot'.used = xslot.used
     ELSE IF InReach(k1)
     THEN xslot'.last = k1 /\ xslot'.used = xslot.used + 1 /\ xslot'.underrun = xslot.underrun
     ELSE xslot'.used = xslot.used /\ (xslot'.armed => xslot'.underrun = xslot.underrun + 1)

\* The slot as the commands leave it.
Ready(s, lost) ==
  /\ SlotFields \subseteq DOMAIN s /\ s.armed \in BOOLEAN
  /\ s.underrun = xslot.underrun /\ s.used = xslot.used /\ (lost => s.last = xslot.last)

\* The setpoint loop of ecm_xchg_rt, when all late ones are skipped, leaves exactly the
\* later setpoints in the ring and puts the one of its tick, if it is there, into the
\* frame.
LEMMA SetpointsClear ==
  ASSUME Rising, Slots, NEW lost \in BOOLEAN, NEW s, Ready(s, lost), Setpoints(clock + 2, lost, s),
         SkipIs(clock + 2, lost, Skipped(clock + 2, lost)), Clear(clock + 2, lost, Skipped(clock + 2, lost))
  PROVE  Rest(clock + 2) /\ Carries(clock + 2, lost)
  <1> DEFINE k1 == clock + 2
             n == Skipped(k1, lost)
             q == SubSeq(xsp, n + 1, Len(xsp))
             u == [s EXCEPT !.dropped_lost = @ + n]
             w == [s EXCEPT !.late = @ + n]
             s1 == IF lost THEN u ELSE w
             got == ~lost /\ q # <<>> /\ Head(q) = k1
             x == [s1 EXCEPT !.last = k1, !.armed = TRUE]
  <1>0. /\ clock \in Nat /\ k1 \in Nat /\ xslot.underrun \in Int /\ Len(xsp) \in Nat /\ xsp \in Seq(Int)
        /\ SlotFields \subseteq DOMAIN s /\ s.armed \in BOOLEAN
        /\ s.underrun = xslot.underrun /\ s.used = xslot.used /\ (lost => s.last = xslot.last)
    BY DEF Slots, Rising, Ready
  <1>1. SkipIs(k1, lost, n) /\ Clear(k1, lost, n)
    BY Zenon
  <1>2. /\ xsp' = IF got THEN Tail(q) ELSE q
        /\ xslot' = IF got THEN [x EXCEPT !.used = @ + 1]
                    ELSE IF s1.armed /\ ~lost THEN [s1 EXCEPT !.underrun = @ + 1] ELSE s1
    BY Zenon DEF Setpoints, Apply
  <1>3. n \in 0 .. Len(xsp) /\ n <= SkipMax /\ SkipMax \in Nat
    BY <1>1, XchgAssumption, Zenon DEF SkipIs
  <1> HIDE DEF n
  <1>4. SlotFields \subseteq DOMAIN s1 /\ s1.armed = s.armed /\ s1.underrun = s.underrun /\ s1.used = s.used /\ s1.last = s.last
    <2>1. SlotFields \subseteq DOMAIN u /\ u.armed = s.armed /\ u.underrun = s.underrun /\ u.used = s.used /\ u.last = s.last
      BY <1>0 DEF SlotFields
    <2>2. SlotFields \subseteq DOMAIN w /\ w.armed = s.armed /\ w.underrun = s.underrun /\ w.used = s.used /\ w.last = s.last
      BY <1>0 DEF SlotFields
    <2> HIDE DEF u, w
    <2>3. QED BY <2>1, <2>2, Zenon
  <1> HIDE DEF s1
  <1>5. /\ q \in Seq(Int) /\ Len(q) = Len(xsp) - n
        /\ \A i \in 1 .. Len(q) : q[i] = xsp[i + n] /\ q[i] \in Int
    BY <1>0, <1>3, SMTT(30)
  <1> HIDE DEF q
  <1>6. ASSUME NEW i \in 1 .. Len(q)
        PROVE  /\ q[i] \in Int /\ q[i] >= k1 /\ (lost => q[i] > k1) /\ (i > 1 => q[i] > q[1])
               /\ 1 \in 1 .. Len(q)
    <2>1. i + n \in n + 1 .. Len(xsp) /\ q[i] = xsp[i + n] /\ q[i] \in Int /\ 1 \in 1 .. Len(q) /\ q[1] = xsp[1 + n]
          /\ 1 + n \in 1 .. Len(xsp) /\ i + n \in 1 .. Len(xsp) /\ 1 + n <= i + n /\ i \in Int /\ n \in Int
      <3>1. Len(q) = Len(xsp) - n /\ (\A j \in 1 .. Len(q) : q[j] = xsp[j + n] /\ q[j] \in Int)
        BY <1>5, Zenon
      <3>2. /\ i + n \in n + 1 .. Len(xsp) /\ 1 \in 1 .. Len(q) /\ 1 + n \in 1 .. Len(xsp) /\ i + n \in 1 .. Len(xsp)
            /\ 1 + n <= i + n /\ i \in Int /\ n \in Int
        <4>1. i \in Int /\ 1 <= i /\ i <= Len(xsp) - n /\ n \in Nat /\ Len(xsp) \in Nat /\ Len(q) = Len(xsp) - n
          BY <1>0, <1>3, <3>1
        <4>2. ASSUME NEW l \in Nat, NEW m \in Nat, NEW j \in Int, 1 <= j, j <= l - m
              PROVE  /\ j + m \in m + 1 .. l /\ 1 \in 1 .. l - m /\ 1 + m \in 1 .. l /\ j + m \in 1 .. l
                     /\ 1 + m <= j + m
          BY <4>2
        <4>3. n \in Int
          BY <4>1
        <4>4. QED BY <4>1, <4>2, <4>3, Zenon
      <3>3. QED BY <3>1, <3>2, Zenon
    <2>2. ~Passed(q[i], k1, lost)
      BY <1>1, <2>1, Zenon DEF Clear
    <2>3. q[i] >= k1 /\ (lost => q[i] > k1)
      BY <1>0, <2>1, <2>2, SMTT(30) DEF Passed
    <2>4. xsp[i + n] - xsp[1 + n] >= (i + n) - (1 + n)
      BY <2>1, Zenon DEF Rising
    <2>5. q[1] \in Int
      BY <1>5, <2>1, Zenon
    <2>6. QED BY <2>1, <2>3, <2>4, <2>5
  <1>7. InReach(k1) /\ ~lost => got
    <2> SUFFICES ASSUME InReach(k1), ~lost PROVE got
      BY Zenon
    <2>1. PICK p \in 1 .. Len(xsp) : xsp[p] = k1
      BY Zenon DEF InReach
    <2>2. p \in n + 1 .. Len(xsp)
      <3>1. ~(p \in 1 .. n)
        <4>1. SUFFICES ASSUME p \in 1 .. n PROVE FALSE
          BY Zenon
        <4>2. Passed(k1, k1, lost)
          BY <1>1, <2>1, <4>1, Zenon DEF SkipIs
        <4>3. QED BY <1>0, <4>2 DEF Passed
      <3>2. QED BY <1>0, <1>3, <3>1
    <2>3. p - n \in 1 .. Len(q) /\ q[p - n] = k1 /\ p - n \in Int
      <3>1. Len(q) = Len(xsp) - n /\ (\A j \in 1 .. Len(q) : q[j] = xsp[j + n])
        BY <1>5, Zenon
      <3>2. p - n \in 1 .. Len(q) /\ (p - n) + n = p /\ p - n \in Int
        BY <1>0, <1>3, <2>2, <3>1
      <3>3. QED BY <2>1, <3>1, <3>2, Zenon
    <2>4. q[p - n] >= k1 /\ (p - n > 1 => q[p - n] > q[1]) /\ 1 \in 1 .. Len(q)
      BY <1>6, <2>3, Zenon
    <2>5. q[1] >= k1 /\ q[1] \in Int
      BY <1>6, <2>4, Zenon
    <2>6. q[1] = k1 /\ q # <<>>
      BY <1>0, <2>3, <2>4, <2>5
    <2>7. QED BY <1>5, <2>6
  <1>8. CASE got
    <2>1. xsp' = Tail(q) /\ xslot' = [x EXCEPT !.used = @ + 1] /\ ~lost /\ q # <<>> /\ Head(q) = k1
      BY <1>2, <1>8, Zenon
    <2>2. /\ xsp' \in Seq(Int) /\ Len(q) \in Nat /\ Len(q) > 0 /\ q[1] = k1 /\ Len(xsp') = Len(q) - 1
          /\ \A i \in 1 .. Len(xsp') : xsp'[i] = q[i + 1] /\ i + 1 \in 1 .. Len(q) /\ i + 1 > 1
      BY <1>5, <2>1, SMTT(30)
    <2>3. Rest(k1)
      <3>1. n + 1 \in 0 .. Len(xsp) /\ Len(xsp') = Len(xsp) - (n + 1)
        BY <1>0, <1>3, <1>5, <2>2
      <3>2. ASSUME NEW i \in 1 .. Len(xsp') PROVE xsp'[i] = xsp[i + (n + 1)] /\ xsp'[i] > k1
        <4>1. xsp'[i] = q[i + 1] /\ i + 1 \in 1 .. Len(q) /\ i + 1 > 1
          BY <2>2, Zenon
        <4>2. q[i + 1] = xsp[(i + 1) + n] /\ (i + 1) + n = i + (n + 1)
          BY <1>3, <1>5, <4>1
        <4>3. q[i + 1] > q[1]
          BY <1>6, <4>1, Zenon
        <4>4. QED BY <2>2, <4>1, <4>2, <4>3, Zenon
      <3>3. QED BY <2>2, <3>1, <3>2, Zenon DEF Rest
    <2>4. InReach(k1)
      <3>0. Len(q) = Len(xsp) - n /\ (\A j \in 1 .. Len(q) : q[j] = xsp[j + n]) /\ Len(q) \in Nat /\ Len(q) > 0
        BY <1>5, <2>2, Zenon
      <3>1. 1 \in 1 .. Len(q) /\ 1 + n \in 1 .. Len(xsp) /\ 1 + n <= SkipMax + 1
        BY <1>0, <1>3, <3>0
      <3>2. QED BY <2>2, <3>0, <3>1, Zenon DEF InReach
    <2>5. SlotFields \subseteq DOMAIN x /\ x.last = k1 /\ x.underrun = s1.underrun /\ x.used = s1.used /\ x.armed = TRUE
      <3> HIDE DEF k1
      <3>1. QED BY <1>4 DEF SlotFields
    <2> HIDE DEF x
    <2>6. /\ SlotFields \subseteq DOMAIN xslot' /\ xslot'.last = k1 /\ xslot'.underrun = s1.underrun
          /\ xslot'.used = s1.used + 1 /\ xslot'.armed = TRUE
      <3> HIDE DEF k1
      <3>1. QED BY <2>1, <2>5 DEF SlotFields
    <2>7. Carries(k1, lost)
      BY <1>0, <1>4, <2>1, <2>4, <2>6, Zenon DEF Carries
    <2>8. QED BY <2>3, <2>7, Zenon
  <1>9. CASE ~got
    <2>1. xsp' = q /\ xslot' = IF s1.armed /\ ~lost THEN [s1 EXCEPT !.underrun = @ + 1] ELSE s1
      BY <1>2, <1>9, Zenon
    <2>2. ASSUME NEW i \in 1 .. Len(q) PROVE q[i] > k1
      <3>1. q[i] \in Int /\ q[i] >= k1 /\ (lost => q[i] > k1) /\ (i > 1 => q[i] > q[1]) /\ 1 \in 1 .. Len(q)
        BY <1>6, Zenon
      <3>2. CASE lost
        BY <3>1, <3>2, Zenon
      <3>3. CASE ~lost
        <4>1. q # <<>> /\ Head(q) = q[1]
          BY <1>5, <3>1
        <4>2. q[1] # k1
          BY <1>9, <3>3, <4>1, Zenon
        <4>3. q[1] \in Int /\ q[1] >= k1
          BY <1>6, <3>1, Zenon
        <4>4. QED BY <1>0, <3>1, <4>2, <4>3
      <3>4. QED BY <3>2, <3>3, Zenon
    <2>3. Rest(k1)
      BY <1>3, <1>5, <2>1, <2>2, Zenon DEF Rest
    <2>4. CASE s1.armed /\ ~lost
      <3>1. xslot' = [s1 EXCEPT !.underrun = @ + 1]
        BY <2>1, <2>4, Zenon
      <3>2. SlotFields \subseteq DOMAIN xslot' /\ xslot'.underrun = s1.underrun + 1 /\ xslot'.used = s1.used /\ xslot'.armed = s1.armed
        BY <1>4, <3>1 DEF SlotFields
      <3>3. xslot'.underrun \in Int
        BY <1>0, <1>4, <3>2
      <3>4. QED BY <1>0, <1>4, <1>7, <1>9, <2>3, <2>4, <3>2, <3>3, Zenon DEF Carries
    <2>5. CASE ~(s1.armed /\ ~lost)
      <3>1. xslot' = s1
        BY <2>1, <2>5, Zenon
      <3>2. QED BY <1>0, <1>4, <1>7, <1>9, <2>3, <2>5, <3>1, Zenon DEF Carries
    <2>6. QED BY <2>4, <2>5, Zenon
  <1>10. QED BY <1>8, <1>9, Zenon

\* When the budget ends before the late ones do, the frame gets no setpoint.
LEMMA SetpointsCut ==
  ASSUME Rising, Slots, NEW lost \in BOOLEAN, NEW s, Ready(s, lost), Setpoints(clock + 2, lost, s),
         SkipIs(clock + 2, lost, Skipped(clock + 2, lost)), Cut(clock + 2, lost, Skipped(clock + 2, lost))
  PROVE  Rest(clock + 2) /\ Carries(clock + 2, lost)
  <1> DEFINE k1 == clock + 2
             n == Skipped(k1, lost)
             q == SubSeq(xsp, n + 1, Len(xsp))
             u == [s EXCEPT !.dropped_lost = @ + n]
             w == [s EXCEPT !.late = @ + n]
             s1 == IF lost THEN u ELSE w
             got == ~lost /\ q # <<>> /\ Head(q) = k1
             x == [s1 EXCEPT !.last = k1, !.armed = TRUE]
  <1>0. /\ clock \in Nat /\ k1 \in Nat /\ xslot.underrun \in Int /\ Len(xsp) \in Nat /\ xsp \in Seq(Int)
        /\ SlotFields \subseteq DOMAIN s /\ s.armed \in BOOLEAN
        /\ s.underrun = xslot.underrun /\ s.used = xslot.used /\ (lost => s.last = xslot.last)
    BY DEF Slots, Rising, Ready
  <1>1. SkipIs(k1, lost, n) /\ Cut(k1, lost, n)
    BY Zenon
  <1>2. /\ xsp' = IF got THEN Tail(q) ELSE q
        /\ xslot' = IF got THEN [x EXCEPT !.used = @ + 1]
                    ELSE IF s1.armed /\ ~lost THEN [s1 EXCEPT !.underrun = @ + 1] ELSE s1
    BY Zenon DEF Setpoints, Apply
  <1>3. /\ n \in 0 .. Len(xsp) /\ n = SkipMax /\ ~Ample /\ n < Len(xsp) /\ Passed(xsp[n + 1], k1, lost)
        /\ \A i \in 1 .. n : Passed(xsp[i], k1, lost)
    BY <1>1, Zenon DEF SkipIs, Cut
  <1> HIDE DEF n
  <1>4. SlotFields \subseteq DOMAIN s1 /\ s1.armed = s.armed /\ s1.underrun = s.underrun /\ s1.used = s.used /\ s1.last = s.last
    <2>1. SlotFields \subseteq DOMAIN u /\ u.armed = s.armed /\ u.underrun = s.underrun /\ u.used = s.used /\ u.last = s.last
      BY <1>0 DEF SlotFields
    <2>2. SlotFields \subseteq DOMAIN w /\ w.armed = s.armed /\ w.underrun = s.underrun /\ w.used = s.used /\ w.last = s.last
      BY <1>0 DEF SlotFields
    <2> HIDE DEF u, w
    <2>3. QED BY <2>1, <2>2, Zenon
  <1> HIDE DEF s1
  <1>5. q \in Seq(Int) /\ Len(q) = Len(xsp) - n /\ (\A i \in 1 .. Len(q) : q[i] = xsp[i + n])
        /\ (q # <<>> => Head(q) = xsp[n + 1])
    BY <1>0, <1>3, SMTT(30)
  <1> HIDE DEF q
  <1>6. ~got
    <2> SUFFICES ASSUME got PROVE FALSE
      BY Zenon
    <2>1. Passed(k1, k1, lost) /\ ~lost
      BY <1>3, <1>5, Zenon
    <2>2. QED BY <1>0, <2>1 DEF Passed
  <1>7. ~lost => ~InReach(k1)
    <2> SUFFICES ASSUME ~lost, InReach(k1) PROVE FALSE
      BY Zenon
    <2>1. PICK i \in 1 .. Len(xsp) : xsp[i] = k1 /\ i <= SkipMax + 1
      BY <1>3, Zenon DEF InReach
    <2>2. i \in 1 .. n \/ i = n + 1
      BY <1>0, <1>3, <2>1
    <2>3. Passed(k1, k1, lost)
      BY <1>3, <2>1, <2>2, Zenon
    <2>4. QED BY <1>0, <2>3 DEF Passed
  <1>8. xsp' = q /\ xslot' = IF s1.armed /\ ~lost THEN [s1 EXCEPT !.underrun = @ + 1] ELSE s1
    BY <1>2, <1>6, Zenon
  <1>9. Rest(k1)
    BY <1>3, <1>5, <1>8, Zenon DEF Rest
  <1>10. CASE s1.armed /\ ~lost
    <2>1. xslot' = [s1 EXCEPT !.underrun = @ + 1]
      BY <1>8, <1>10, Zenon
    <2>2. SlotFields \subseteq DOMAIN xslot' /\ xslot'.underrun = s1.underrun + 1 /\ xslot'.used = s1.used /\ xslot'.armed = s1.armed
      BY <1>4, <2>1 DEF SlotFields
    <2>3. xslot'.underrun \in Int
      BY <1>0, <1>4, <2>2
    <2>4. QED BY <1>0, <1>4, <1>7, <1>9, <1>10, <2>2, <2>3, Zenon DEF Carries
  <1>11. CASE ~(s1.armed /\ ~lost)
    <2>1. xslot' = s1
      BY <1>8, <1>11, Zenon
    <2>2. QED BY <1>0, <1>4, <1>7, <1>9, <1>11, <2>1, Zenon DEF Carries
  <1>12. QED BY <1>10, <1>11, Zenon

\* The hook: what it leaves in the ring, what the frame carries, and the record.
LEMMA HookIs ==
  ASSUME LeastFact, XchgInv, NEW lost \in BOOLEAN, Hook(lost)
  PROVE  /\ Rest(clock + 2) /\ Carries(clock + 2, lost) /\ clock' = clock + 1 /\ app' = app
         /\ rec'.tick = clock + 1 /\ rec'.value = xslot'.last /\ rec'.underrun = xslot'.underrun
         /\ rec'.valid = xslot'.armed /\ rec'.lost = lost
  <1> DEFINE s == AfterCommands(clock + 2, lost)
             n == Skipped(clock + 2, lost)
  <1>0. clock \in Nat /\ Slots /\ Rising /\ Close /\ AppPc(app)
    BY Zenon DEF XchgInv, Slots, Producer
  <1>1. (clock + 1) + 1 = clock + 2
    BY <1>0
  <1>2. /\ Setpoints((clock + 1) + 1, lost, AfterCommands((clock + 1) + 1, lost)) /\ clock' = clock + 1 /\ app' = app
        /\ rec' = [tick |-> clock + 1, value |-> xslot'.last, used |-> xslot'.used,
                   underrun |-> xslot'.underrun, valid |-> xslot'.armed, lost |-> lost]
    BY Zenon DEF Hook
  <1>3. Setpoints(clock + 2, lost, s)
    BY <1>1, <1>2, Zenon
  <1>4. Ready(s, lost)
    BY <1>0, CommandsIs, Zenon DEF Ready
  <1> HIDE DEF s
  <1>5. SkipIs(clock + 2, lost, n) /\ (Clear(clock + 2, lost, n) \/ Cut(clock + 2, lost, n))
    BY <1>0, SkippedIs, Zenon DEF SkipIs
  <1>6. Rest(clock + 2) /\ Carries(clock + 2, lost)
    BY <1>0, <1>3, <1>4, <1>5, SetpointsClear, SetpointsCut, Zenon
  <1>7. QED BY <1>2, <1>6, Zenon

\* The hook keeps the invariant.
LEMMA HookKeeps ==
  ASSUME LeastFact, XchgInv, NEW lost \in BOOLEAN, Hook(lost)
  PROVE  XchgInv'
  <1>0. /\ clock \in Nat /\ Slots /\ Rising /\ Close /\ Producer /\ Echo /\ xsp \in Seq(Int) /\ Len(xsp) \in Nat
        /\ xslot.underrun \in Int /\ xslot.used \in Int /\ rec.underrun = xslot.underrun
    BY DEF XchgInv, Slots, Rising
  <1>1. /\ Rest(clock + 2) /\ Carries(clock + 2, lost) /\ clock' = clock + 1 /\ app' = app
        /\ rec'.tick = clock + 1 /\ rec'.value = xslot'.last /\ rec'.underrun = xslot'.underrun
        /\ rec'.valid = xslot'.armed /\ rec'.lost = lost
    BY HookIs, Zenon
  <1>2. PICK d \in 0 .. Len(xsp) : /\ xsp' \in Seq(Int) /\ Len(xsp') = Len(xsp) - d
                                   /\ \A i \in 1 .. Len(xsp') : xsp'[i] = xsp[i + d]
                                   /\ (\A i \in 1 .. Len(xsp') : xsp'[i] > clock + 2) \/ (~Ample /\ d = SkipMax)
    BY <1>1, Zenon DEF Rest
  <1>3. ASSUME NEW i \in 1 .. Len(xsp') PROVE i + d \in 1 .. Len(xsp) /\ i \in Int /\ d \in Int /\ xsp'[i] \in Int
    BY <1>0, <1>2
  <1>4. Rising'
    <2>1. ASSUME NEW i \in 1 .. Len(xsp'), NEW j \in 1 .. Len(xsp'), i <= j PROVE xsp'[j] - xsp'[i] >= j - i
      <3>1. /\ i + d \in 1 .. Len(xsp) /\ i \in Int /\ d \in Int /\ j + d \in 1 .. Len(xsp) /\ j \in Int
            /\ xsp'[i] = xsp[i + d] /\ xsp'[j] = xsp[j + d]
        BY <1>2, <1>3, Zenon
      <3>2. i + d <= j + d /\ (j + d) - (i + d) = j - i
        BY <2>1, <3>1
      <3>3. xsp[j + d] - xsp[i + d] >= (j + d) - (i + d)
        BY <1>0, <3>1, <3>2, Zenon DEF Rising
      <3>4. QED BY <3>1, <3>2, <3>3, Zenon
    <2>2. QED BY <1>2, <2>1, Zenon DEF Rising
  <1>5. ASSUME Ample, NEW i \in 1 .. Len(xsp') PROVE ~(xsp'[i] <= clock' + 1)
    <2>1. xsp'[i] > clock + 2 /\ xsp'[i] \in Int
      BY <1>2, <1>3, <1>5, Zenon
    <2>2. QED BY <1>0, <1>1, <2>1
  <1>6. Close'
    BY <1>1, <1>5, Zenon DEF Close, Ample
  <1>7. Producer'
    <2>1. app.k \in Nat /\ app.next \in Nat /\ app.rec \in Nat /\ app.rec <= clock
      BY <1>0, Zenon DEF Producer, AppPc
    <2>2. app.rec <= clock'
      BY <1>0, <1>1, <2>1
    <2>3. ASSUME NEW i \in 1 .. Len(xsp') PROVE xsp'[i] < app.next
      BY <1>0, <1>2, <1>3, Zenon DEF Producer
    <2>4. app.pc = "push" => app.k <= clock'
      <3> SUFFICES ASSUME app.pc = "push" PROVE app.k <= clock'
        BY Zenon
      <3>1. app.k <= clock
        BY <1>0, Zenon DEF Producer
      <3>2. QED BY <1>0, <1>1, <2>1, <3>1
    <2>7. ASSUME app.pc = "push", Ample
          PROVE  app.k + 2 <= app.next /\ \A i \in 1 .. Len(xsp') : xsp'[i] >= app.k + 2
      <3>1. app.k <= clock /\ app.k + 2 <= app.next
        BY <1>0, <2>7, Zenon DEF Producer
      <3>2. ASSUME NEW i \in 1 .. Len(xsp') PROVE xsp'[i] >= app.k + 2
        <4>1. xsp'[i] > clock + 2 /\ xsp'[i] \in Int
          BY <1>2, <1>3, <2>7, Zenon
        <4>2. QED BY <1>0, <2>1, <3>1, <4>1, SMTT(30)
      <3>3. QED BY <3>1, <3>2, Zenon
    <2>5. AppFields \subseteq DOMAIN app /\ AppPc(app)
      BY <1>0, Zenon DEF Producer
    <2>6. QED BY <1>1, <2>2, <2>3, <2>4, <2>5, <2>7, Zenon DEF Producer, AppPc, Ample, AppFields
  <1>8. Slots'
    <2>1. clock' \in Nat /\ rec'.tick = clock'
      BY <1>0, <1>1
    <2>2. SlotFields \subseteq DOMAIN xslot' /\ xslot'.armed \in BOOLEAN /\ xslot'.underrun \in Int
      BY <1>1, Zenon DEF Carries
    <2>4. xslot'.used = xslot.used \/ xslot'.used = xslot.used + 1
      BY <1>1, Zenon DEF Carries
    <2>5. xslot'.used \in Int
      BY <1>0, <2>4
    <2>3. QED BY <1>1, <2>1, <2>2, <2>5, Zenon DEF Slots, SlotFields
  <1>9. Echo'
    <2>1. app.rec \in Nat /\ app.rec <= clock
      BY <1>0, Zenon DEF Producer, AppPc
    <2>2. app.rec # clock' /\ (app.rec + 1 = clock' => app.rec = clock)
      BY <1>0, <1>1, <2>1
    <2>3. FALSE \notin app.bad /\ (app.rec = clock => app.under = xslot.underrun)
      BY <1>0, Zenon DEF Echo
    <2>4. ASSUME app.rec + 1 = clock', rec'.valid, rec'.underrun = app.under, ~rec'.lost
          PROVE  rec'.value = rec'.tick + 1
      <3>1. app.under = xslot.underrun /\ ~lost /\ xslot'.armed /\ xslot'.underrun = xslot.underrun
        BY <1>1, <2>2, <2>3, <2>4, Zenon
      <3>2. ~(xslot'.underrun = xslot.underrun + 1)
        BY <1>0, <3>1
      <3>3. xslot'.last = clock + 2
        BY <1>1, <3>1, <3>2, Zenon DEF Carries
      <3>4. QED BY <1>0, <1>1, <3>3
    <2>5. QED BY <1>1, <2>2, <2>3, <2>4, Zenon DEF Echo
  <1>10. QED BY <1>4, <1>6, <1>7, <1>8, <1>9, Zenon DEF XchgInv

\* ecm_xchg_read_clock: the producer starts at least two ticks ahead, if its lead is.
LEMMA ClockKeeps ==
  ASSUME XchgInv, AppClock
  PROVE  XchgInv'
  <1> DEFINE m == IF app.next < clock + 2 /\ app.lead >= 2 THEN clock + 2
                  ELSE IF app.next = 0 THEN clock + app.lead ELSE app.next
             b == [app EXCEPT !.pc = "push", !.k = clock, !.next = m]
  <1>0. app' = b /\ xsp' = xsp /\ xslot' = xslot /\ clock' = clock /\ rec' = rec
    BY Zenon DEF AppClock
  <1>1. Producer /\ Rising /\ Close /\ Slots /\ Echo /\ clock \in Nat /\ AppPc(app) /\ app.rec <= clock
    BY Zenon DEF XchgInv, Slots, Producer
  <1>2. AppFields \subseteq DOMAIN app
    BY <1>1, Zenon DEF Producer
  <1>3. m \in Nat /\ app.next <= m /\ (Ample => clock + 2 <= m) /\ app.next \in Nat
    BY <1>1 DEF AppPc, Ample
  <1>4. ASSUME NEW i \in 1 .. Len(xsp) PROVE xsp[i] < m
    <2>1. xsp[i] < app.next /\ xsp[i] \in Int
      <3>1. xsp[i] \in Int
        BY <1>1 DEF Rising
      <3>2. QED BY <1>1, <3>1, Zenon DEF Producer
    <2> HIDE DEF m
    <2>2. QED BY <1>3, <2>1
  <1> HIDE DEF m
  <1>5. /\ AppFields \subseteq DOMAIN b /\ b.pc = "push" /\ b.k = clock
        /\ b.next = m /\ b.rec = app.rec /\ b.under = app.under /\ b.bad = app.bad /\ b.lead = app.lead
    BY <1>2 DEF AppFields
  <1> HIDE DEF b
  <1>6. clock <= clock /\ ~(clock < clock)
    BY <1>1
  <1>7. AppPc(b)
    BY <1>1, <1>3, <1>5, Zenon DEF AppPc
  <1>8. Producer'
    BY <1>0, <1>1, <1>3, <1>4, <1>5, <1>6, <1>7, Zenon DEF Producer, AppPc, Ample, AppFields
  <1>9. Rising' /\ Close' /\ Slots'
    BY <1>0, <1>1, <1>5, Zenon DEF Rising, Close, Ample, Slots, SlotFields
  <1>10. Echo'
    BY <1>0, <1>1, <1>5, Zenon DEF Echo
  <1>11. QED BY <1>8, <1>9, <1>10, Zenon DEF XchgInv

\* The check of the record keeps the invariant: it finds no mismatch with the bus up.
LEMMA EchoKeeps ==
  ASSUME XchgInv, AppEcho
  PROVE  XchgInv'
  <1> DEFINE checked == /\ rec.tick = app.rec + 1 /\ rec.valid
                        /\ rec.underrun = app.under /\ rec.used > 0
             wrong == checked /\ rec.value # rec.tick + 1
             bd == IF wrong THEN app.bad \cup {rec.lost} ELSE app.bad
             b == [app EXCEPT !.pc = "clock"]
             c == [app EXCEPT !.pc = "clock", !.rec = rec.tick, !.under = rec.underrun, !.bad = bd]
  <1>0. app' = (IF rec.tick = app.rec THEN b ELSE c) /\ xsp' = xsp /\ xslot' = xslot /\ clock' = clock /\ rec' = rec
    BY Zenon DEF AppEcho
  <1>1. Producer /\ Rising /\ Close /\ Slots /\ Echo /\ clock \in Nat /\ AppPc(app) /\ app.rec <= clock /\ rec.tick = clock
    BY Zenon DEF XchgInv, Slots, Producer
  <1>2. AppFields \subseteq DOMAIN app
    BY <1>1, Zenon DEF Producer
  <1>3. FALSE \notin bd
    <2>1. FALSE \notin app.bad
      BY <1>1, Zenon DEF Echo
    <2>2. ASSUME wrong PROVE rec.lost
      <3>1. app.rec + 1 = clock /\ rec.valid /\ rec.underrun = app.under /\ rec.value # rec.tick + 1
        BY <1>1, <2>2, Zenon
      <3>2. QED BY <1>1, <3>1, Zenon DEF Echo
    <2>3. rec.lost \in BOOLEAN
      BY <1>1, Zenon DEF Slots
    <2> HIDE DEF wrong
    <2>4. QED BY <2>1, <2>2, <2>3, Zenon
  <1> HIDE DEF bd
  <1>4. /\ AppFields \subseteq DOMAIN b /\ b.pc = "clock" /\ b.k = app.k
        /\ b.next = app.next /\ b.rec = app.rec /\ b.under = app.under /\ b.bad = app.bad /\ b.lead = app.lead
    BY <1>2 DEF AppFields
  <1>5. /\ AppFields \subseteq DOMAIN c /\ c.pc = "clock" /\ c.k = app.k
        /\ c.next = app.next /\ c.rec = rec.tick /\ c.under = rec.underrun /\ c.bad = bd /\ c.lead = app.lead
    BY <1>2 DEF AppFields
  <1> HIDE DEF b, c
  <1>6. /\ AppFields \subseteq DOMAIN app' /\ app'.pc = "clock" /\ app'.k = app.k
        /\ app'.next = app.next /\ app'.rec = clock /\ app'.under = rec.underrun /\ FALSE \notin app'.bad /\ app'.lead = app.lead
    <2>1. CASE rec.tick = app.rec
      <3>1. app' = b /\ app.rec = clock
        BY <1>0, <1>1, <2>1, Zenon
      <3>2. app.under = rec.underrun /\ FALSE \notin app.bad
        BY <1>1, <3>1, Zenon DEF Echo
      <3>3. QED BY <1>4, <3>1, <3>2, Zenon
    <2>2. CASE rec.tick # app.rec
      BY <1>0, <1>1, <1>3, <1>5, <2>2, Zenon
    <2>3. QED BY <2>1, <2>2, Zenon
  <1>7. clock <= clock /\ ~(clock + 1 = clock)
    BY <1>1
  <1>8. AppPc(app')
    BY <1>1, <1>6, Zenon DEF AppPc
  <1>9. "clock" # "push"
    OBVIOUS
  <1>10. Producer'
    BY <1>0, <1>1, <1>6, <1>7, <1>8, <1>9, Zenon DEF Producer, AppPc, AppFields
  <1>11. Rising' /\ Close' /\ Slots'
    BY <1>0, <1>1, <1>6, Zenon DEF Rising, Close, Ample, Slots, SlotFields
  <1>12. Echo'
    BY <1>0, <1>6, <1>7, Zenon DEF Echo
  <1>13. QED BY <1>10, <1>11, <1>12, Zenon DEF XchgInv

\* ecm_xchg_setpoint: a setpoint the clock has passed already comes from the same
\* pass as those before it.
LEMMA SetpointKeeps ==
  ASSUME XchgInv, AppPush
  PROVE  XchgInv'
  <1> DEFINE b == [app EXCEPT !.next = @ + 1]
             L == Len(xsp)
  <1>0. /\ app' = b /\ xsp' = (IF L < SpCap THEN Append(xsp, app.next) ELSE xsp)
        /\ xslot' = xslot /\ clock' = clock /\ rec' = rec /\ app.pc = "push" /\ app.next <= app.k + app.lead
    BY Zenon DEF AppPush
  <1>1. /\ Producer /\ Rising /\ Close /\ Slots /\ Echo /\ clock \in Nat /\ AppPc(app) /\ app.rec <= clock
        /\ app.k <= clock /\ (Ample => app.k + 2 <= app.next)
    BY <1>0, Zenon DEF XchgInv, Slots, Producer
  <1>2. /\ AppFields \subseteq DOMAIN app /\ app.next \in Nat /\ app.k \in Nat
        /\ xsp \in Seq(Int) /\ L \in Nat /\ app.lead \in Nat /\ (Ample => 2 <= app.lead)
        /\ \A i \in 1 .. L : xsp[i] \in Int
    BY <1>1 DEF Producer, AppPc, Rising, Ample
  <1>3. /\ AppFields \subseteq DOMAIN b /\ b.pc = app.pc /\ b.k = app.k
        /\ b.next = app.next + 1 /\ b.rec = app.rec /\ b.under = app.under /\ b.bad = app.bad /\ b.lead = app.lead
    BY <1>2 DEF AppFields
  <1> HIDE DEF b, L
  <1>4. ASSUME NEW i \in 1 .. L PROVE xsp[i] < app.next /\ (Ample /\ app.k < clock => xsp[i] >= app.k + 2) /\ xsp[i] \in Int
    BY <1>0, <1>1, <1>2, Zenon DEF Producer, L
  <1>5. app.next + 1 \in Nat /\ (Ample => app.k + 2 <= app.next + 1)
    BY <1>1, <1>2
  <1>6. ASSUME NEW i \in 1 .. L PROVE xsp[i] < app.next + 1
    <2>1. xsp[i] < app.next /\ xsp[i] \in Int
      BY <1>4, Zenon
    <2>2. QED BY <1>2, <2>1
  <1>7. AppPc(b)
    BY <1>1, <1>3, <1>5, Zenon DEF AppPc
  <1>8. Slots' /\ Echo'
    BY <1>0, <1>1, <1>3, Zenon DEF Slots, SlotFields, Echo
  <1>12. Ample' <=> Ample
    BY <1>0, <1>3, Zenon DEF Ample
  <1>9. CASE ~(L < SpCap)
    <2>1. xsp' = xsp
      BY <1>0, <1>9, Zenon
    <2>2. Rising' /\ Close'
      BY <1>0, <1>1, <1>3, <1>12, <2>1, Zenon DEF Rising, Close
    <2>3. Producer'
      BY <1>0, <1>1, <1>3, <1>4, <1>5, <1>6, <1>7, <1>12, <2>1, Zenon DEF Producer, AppPc, AppFields, L
    <2>4. QED BY <1>8, <2>2, <2>3, Zenon DEF XchgInv
  <1>10. CASE L < SpCap
    <2>1. xsp' = Append(xsp, app.next)
      BY <1>0, <1>10, Zenon
    <2>2. xsp' \in Seq(Int) /\ Len(xsp') = L + 1 /\ (\A i \in 1 .. L : xsp'[i] = xsp[i]) /\ xsp'[L + 1] = app.next
      BY <1>2, <2>1 DEF L
    <2>3. ASSUME NEW i \in 1 .. Len(xsp') PROVE i \in Int /\ (i \in 1 .. L \/ i = L + 1) /\ i <= L + 1
      BY <1>2, <2>2
    <2>4. ASSUME NEW i \in 1 .. L PROVE app.next - xsp[i] >= (L + 1) - i
      <3>1. CASE i = L
        BY <1>2, <1>4, <3>1
      <3>2. CASE i # L
        <4>1. L \in 1 .. L /\ i <= L /\ i \in Int
          BY <1>2, <3>2
        <4>2. xsp[L] - xsp[i] >= L - i
          BY <1>1, <4>1, Zenon DEF Rising, L
        <4>3. xsp[L] < app.next /\ xsp[L] \in Int /\ xsp[i] \in Int
          BY <1>4, <4>1, Zenon
        <4>4. QED BY <1>2, <4>1, <4>2, <4>3, SMTT(30)
      <3>3. QED BY <3>1, <3>2, Zenon
    <2>5. ASSUME NEW i \in 1 .. Len(xsp'), NEW j \in 1 .. Len(xsp'), i <= j PROVE xsp'[j] - xsp'[i] >= j - i
      <3>1. CASE j \in 1 .. L
        <4>1. i \in 1 .. L
          BY <1>2, <2>3, <2>5, <3>1
        <4>2. xsp'[i] = xsp[i] /\ xsp'[j] = xsp[j]
          BY <2>2, <3>1, <4>1, Zenon
        <4>3. QED BY <1>1, <2>5, <3>1, <4>1, <4>2, Zenon DEF Rising, L
      <3>2. CASE j = L + 1 /\ i \in 1 .. L
        <4>1. xsp'[i] = xsp[i] /\ xsp'[j] = app.next
          BY <2>2, <3>2, Zenon
        <4>2. QED BY <2>4, <3>2, <4>1, Zenon
      <3>3. CASE j = L + 1 /\ i = L + 1
        BY <1>2, <2>2, <3>3
      <3>4. QED BY <2>3, <3>1, <3>2, <3>3, Zenon
    <2>6. Rising'
      BY <2>2, <2>5, Zenon DEF Rising
    <2>7. ASSUME Ample, NEW i \in 1 .. L, xsp[i] <= clock + 1, app.next <= clock + 1
          PROVE  app.next - xsp[i] <= app.lead - 2 /\ xsp[i] - app.next <= app.lead - 2
      <3>1. app.k < clock
        BY <1>1, <1>2, <2>7, SMTT(30)
      <3>2. xsp[i] >= app.k + 2 /\ xsp[i] < app.next /\ xsp[i] \in Int
        BY <1>4, <2>7, <3>1, Zenon
      <3>3. app.next <= app.k + app.lead /\ app.next \in Int /\ app.k \in Int /\ app.lead \in Int /\ 2 <= app.lead
        BY <1>0, <1>2, <2>7
      <3>4. ASSUME NEW e \in Int, NEW x \in Int, NEW k \in Int, NEW l \in Int,
                   e >= k + 2, e < x, x <= k + l, 2 <= l
            PROVE  x - e <= l - 2 /\ e - x <= l - 2
        BY <3>4
      <3>5. QED BY <3>2, <3>3, <3>4, Zenon
    <2>8. ASSUME Ample, NEW i \in 1 .. Len(xsp'), NEW j \in 1 .. Len(xsp'), xsp'[i] <= clock + 1, xsp'[j] <= clock + 1
          PROVE  xsp'[j] - xsp'[i] <= app.lead - 2
      <3>1. CASE i \in 1 .. L /\ j \in 1 .. L
        <4>1. xsp'[i] = xsp[i] /\ xsp'[j] = xsp[j]
          BY <2>2, <3>1, Zenon
        <4>2. QED BY <1>1, <2>8, <3>1, <4>1, Zenon DEF Close, L
      <3>2. CASE i \in 1 .. L /\ j = L + 1
        <4>1. xsp'[i] = xsp[i] /\ xsp'[j] = app.next
          BY <2>2, <3>2, Zenon
        <4>2. QED BY <2>7, <2>8, <3>2, <4>1, Zenon
      <3>3. CASE i = L + 1 /\ j \in 1 .. L
        <4>1. xsp'[j] = xsp[j] /\ xsp'[i] = app.next
          BY <2>2, <3>3, Zenon
        <4>2. QED BY <2>7, <2>8, <3>3, <4>1, Zenon
      <3>4. CASE i = L + 1 /\ j = L + 1
        BY <1>2, <2>2, <2>8, <3>4
      <3>5. QED BY <2>3, <3>1, <3>2, <3>3, <3>4, Zenon
    <2>9. Close'
      BY <1>0, <1>3, <1>12, <2>8, Zenon DEF Close
    <2>10. ASSUME NEW i \in 1 .. Len(xsp') PROVE xsp'[i] < app.next + 1 /\ (Ample /\ app.k < clock => xsp'[i] >= app.k + 2)
      <3>1. CASE i \in 1 .. L
        BY <1>4, <1>6, <2>2, <3>1, Zenon
      <3>2. CASE i = L + 1
        <4>1. xsp'[i] = app.next
          BY <2>2, <3>2, Zenon
        <4>2. QED BY <1>1, <1>2, <4>1
      <3>3. QED BY <2>3, <3>1, <3>2, Zenon
    <2>11. Producer'
      BY <1>0, <1>1, <1>3, <1>5, <1>7, <1>12, <2>10, Zenon DEF Producer, AppPc, AppFields
    <2>12. QED BY <1>8, <2>6, <2>9, <2>11, Zenon DEF XchgInv
  <1>11. QED BY <1>9, <1>10, Zenon

\* Every step of the two threads keeps the invariant.
LEMMA XchgStep ==
  ASSUME LeastFact, XchgInv, [XchgNext]_xchgVars
  PROVE  XchgInv'
  <1>1. CASE \E lost \in BOOLEAN : Hook(lost)
    BY <1>1, HookKeeps, Zenon
  <1>2. CASE AppCommand
    BY <1>2, Zenon DEF AppCommand, XchgInv, Rising, Close, Ample, Producer, AppFields, AppPc, Slots, SlotFields, Echo
  <1>3. CASE AppClock
    BY <1>3, ClockKeeps, Zenon
  <1>4. CASE AppPush
    BY <1>4, SetpointKeeps, Zenon
  <1>5. CASE AppEcho
    BY <1>5, EchoKeeps, Zenon
  <1>6. CASE UNCHANGED xchgVars
    BY <1>6, Zenon DEF xchgVars, XchgInv, Rising, Close, Ample, Producer, AppFields, AppPc, Slots, SlotFields, Echo
  <1>7. QED BY <1>1, <1>2, <1>3, <1>4, <1>5, <1>6, Zenon DEF XchgNext

\* What the frame of one hook carries, as SetpointInItsFrame asks.
FrameIs ==
  clock' # clock =>
    LET k1   == clock' + 1
        used == xslot'.used - xslot.used
    IN  IF rec'.lost
        THEN /\ rec'.value = xslot.last /\ used = 0
             /\ \/ \A i \in 1 .. Len(xsp') : xsp'[i] > k1
                \/ ~Ample /\ Len(xsp') = Len(xsp) - SkipMax
        ELSE IF InReach(k1) THEN rec'.value = k1 /\ used = 1 /\ xslot'.underrun = xslot.underrun
        ELSE used = 0 /\ (xslot'.armed => xslot'.underrun = xslot.underrun + 1)

\* The hook builds the frame's own setpoint into it.
LEMMA HookFrames ==
  ASSUME LeastFact, XchgInv, [XchgNext]_xchgVars
  PROVE  [FrameIs]_xchgVars
  <1>1. ASSUME NEW lost \in BOOLEAN, Hook(lost) PROVE FrameIs
    <2>1. /\ Rest(clock + 2) /\ Carries(clock + 2, lost) /\ clock' = clock + 1
          /\ rec'.value = xslot'.last /\ rec'.lost = lost
      BY <1>1, HookIs, Zenon
    <2>2. clock' + 1 = clock + 2
      BY <2>1 DEF XchgInv, Slots
    <2>3. (\A i \in 1 .. Len(xsp') : xsp'[i] > clock + 2) \/ (~Ample /\ Len(xsp') = Len(xsp) - SkipMax)
      BY <2>1, Zenon DEF Rest
    <2>4. /\ xslot'.used = xslot.used => xslot'.used - xslot.used = 0
          /\ xslot'.used = xslot.used + 1 => xslot'.used - xslot.used = 1
      BY DEF XchgInv, Slots
    <2>5. QED BY <2>1, <2>2, <2>3, <2>4, Zenon DEF FrameIs, Carries
  <1>2. CASE AppCommand \/ AppClock \/ AppPush \/ AppEcho
    BY <1>2, Zenon DEF AppCommand, AppClock, AppPush, AppEcho, FrameIs
  <1>3. CASE UNCHANGED xchgVars
    BY <1>3, Zenon
  <1>4. QED BY <1>1, <1>2, <1>3, Zenon DEF XchgNext

\* Only what follows uses the theorems about well founded relations.
LOCAL INSTANCE WellFoundedInduction

\* Of some numbers one is the least.
LEMMA LeastHolds == LeastFact
  <1> SUFFICES ASSUME NEW T \in SUBSET Nat, T # {} PROVE \E n \in T : \A y \in T : n <= y
    BY Zenon DEF LeastFact
  <1>1. IsWellFoundedOn(OpToRel(<, Nat), Nat)
    BY NatLessThanWellFounded, Zenon
  <1>2. PICK x \in T : \A y \in T : ~(<<y, x>> \in OpToRel(<, Nat))
    BY <1>1, WFMin, Zenon
  <1>3. ASSUME NEW y \in T PROVE x <= y
    <2>1. ~(y < x)
      BY <1>2, Zenon DEF OpToRel
    <2>2. QED BY <2>1
  <1>4. QED BY <1>3, Zenon

\* For every lead, every skip budget, every capacity of the rings and every number of
\* commands taken per tick: each tick's frame carries its own setpoint if the
\* application pushed it and the hook reaches it, which it always does when the lead
\* is at most the budget; a lost tick's setpoint is never replayed; and the echo
\* check of app_thread_fn reports no mismatch with the bus up.
THEOREM FramesCarryTheirSetpoints == XchgSpec => SetpointInItsFrame
  <1>1. XchgInv => FALSE \notin app.bad
    BY Zenon DEF XchgInv, Echo
  <1>2. XchgInv /\ [XchgNext]_xchgVars => [FrameIs]_xchgVars
    BY LeastHolds, HookFrames, Zenon
  <1>3. XchgInv /\ [XchgNext]_xchgVars => XchgInv'
    BY LeastHolds, XchgStep, Zenon
  <1>4. XchgSpec => [](FALSE \notin app.bad) /\ [][FrameIs]_xchgVars
    BY <1>1, <1>2, <1>3, XchgInitInv, PTL DEF XchgSpec
  <1>5. QED BY <1>4 DEF SetpointInItsFrame, FrameIs
=============================================================================
