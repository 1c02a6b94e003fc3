---------------------------- MODULE BusRecovery ----------------------------
(***************************************************************************)
(* Bus loss and recovery in ecm_run: the RT thread (main), the monitor     *)
(* thread and the api thread, and the shared state they meet in.           *)
(*                                                                         *)
(*  - The RT thread runs the bus state machine (BusFsm) once per tick.  In *)
(*    RECOVER it sends nothing and waits for the generation it published   *)
(*    in g_recover_req to come back in g_recover_done.                     *)
(*  - The monitor answers a request with recover_full(), and between       *)
(*    requests reconfigures single slaves with recover_path_b().  Both     *)
(*    open a telemetry exclusion window and raise the SDO fence.           *)
(*  - The api thread runs one SDO at a time under g_sdo_mx.                *)
(*  - main leaves the loop on g_stop, takes the slaves out of OP and joins *)
(*    the threads.                                                         *)
(*                                                                         *)
(* Generations are unsigned and wrap: they are counted modulo GenMod.      *)
(* Frames are not modelled one by one: a tick's exchange, a recovery and   *)
(* a state request are each one step of the thread that sends them.  The   *)
(* planner's choice of slaves is module SlaveRecovery; here it is free.    *)
(***************************************************************************)
EXTENDS BusFsm

CONSTANTS
  NSlaves,     \* ctx.slavecount
  GenMod,      \* 2^32 in the code: g_recover_req wraps
  KeepTicks,   \* g_cstop.max_ticks, 0 without the CiA402 hook
  ApiOn,       \* g_api_on (--api)
  RecoverOn    \* g_recover_enabled (not --no-recover)

ASSUME RecoveryAssumption ==
  /\ NSlaves \in Nat \ {0}
  /\ GenMod \in Nat \ {0, 1}
  /\ KeepTicks \in Nat
  /\ ApiOn \in BOOLEAN
  /\ RecoverOn \in BOOLEAN

VARIABLES
  \* RT thread
  rt_pc, recover_gen, keep,
  \* shared, written by RT: request and published state
  recover_req, bus_pub,
  \* shared, written by the monitor: the answer
  recover_done, recover_ok,
  \* shared by all: exclusion windows, SDO fence, stop flags
  excl_depth, sdo_mx, sdo_block, ctl_quiesce, stop, mon_stop, api_stop,
  \* monitor thread: program counter, inside recover_full, path B calls left,
  \* generation being served, its result
  mon_pc, in_full, todo, mon_req, mon_ok,
  \* api thread
  api_pc,
  \* the wire: how many slaves a broadcast reaches
  reach

rtVars   == <<rt_pc, recover_gen, keep, recover_req, bus_pub>>
ansVars  == <<recover_done, recover_ok>>
monVars  == <<mon_pc, in_full, todo, mon_req, mon_ok>>
stopVars == <<ctl_quiesce, mon_stop, api_stop>>
request  == <<recover_gen, recover_req>>
fence    == <<sdo_mx, sdo_block>>
notRt    == <<ansVars, monVars, fence, api_pc, stop, reach>>
notApi   == <<busVars, rtVars, ansVars, monVars, stopVars, excl_depth, stop, reach>>
notMon   == <<busVars, rtVars, stopVars, api_pc, stop, reach>>
vars     == <<busVars, rtVars, stopVars, notRt, excl_depth>>

RtPc  == {"tick", "publish", "leave", "stop", "join", "done"}
MonPc == {"loop", "plan", "rf_block", "rf_lock", "rf_slaves", "rf_unblock",
          "pb_block", "pb_lock", "pb_work", "pb_unblock", "ok", "done", "exit"}
ApiPc == {"idle", "lock", "check", "sdo", "exit"}
Gen   == 0 .. GenMod - 1

\* The unsigned increment ++recover_gen.
NextGen(g) == IF g + 1 = GenMod THEN 0 ELSE g + 1

TypeOK ==
  /\ BusTypeOK
  /\ rt_pc \in RtPc /\ recover_gen \in Gen /\ keep \in 0 .. KeepTicks
  /\ recover_req \in Gen /\ bus_pub \in BusState
  /\ recover_done \in Gen /\ recover_ok \in BOOLEAN
  /\ excl_depth \in Int /\ sdo_mx \in {"free", "monitor", "api"}
  /\ sdo_block \in BOOLEAN /\ ctl_quiesce \in BOOLEAN
  /\ stop \in BOOLEAN /\ mon_stop \in BOOLEAN /\ api_stop \in BOOLEAN
  /\ mon_pc \in MonPc /\ in_full \in BOOLEAN /\ todo \in 0 .. NSlaves
  /\ mon_req \in Gen /\ mon_ok \in BOOLEAN
  /\ api_pc \in ApiPc
  /\ reach \in 0 .. NSlaves

Init ==
  /\ BusInit
  /\ rt_pc = "tick" /\ recover_gen = 0 /\ keep = 0
  /\ recover_req = 0 /\ bus_pub = "RUN"
  /\ recover_done = 0 /\ recover_ok = FALSE
  /\ excl_depth = 0 /\ sdo_mx = "free" /\ sdo_block = FALSE
  /\ ctl_quiesce = FALSE /\ stop = FALSE /\ mon_stop = FALSE /\ api_stop = FALSE
  /\ mon_pc = "loop" /\ in_full = FALSE /\ todo = 0
  /\ mon_req = 0 /\ mon_ok = FALSE
  /\ api_pc = IF ApiOn THEN "idle" ELSE "exit"
  /\ reach = NSlaves

-----------------------------------------------------------------------------
(* The RT thread: one tick is a bus step and a publishing step.            *)

\* What the WKC of a cycle can be.  With nothing reached the frame does not
\* come back; a frame may be lost at any time; all slaves must work for OK.
PossibleClass(r) ==
  IF r = 0 THEN {"NOFRAME"}
  ELSE IF r < NSlaves THEN WkcClass \ {"OK"} ELSE WkcClass

\* RUN or DEGRADED: process data, then the bus state machine.  Losing the bus
\* opens an exclusion window that lasts until the bus is back in RUN.
RtCycle ==
  /\ rt_pc = "tick"
  /\ \E mc \in PossibleClass(reach), ic \in PossibleClass(reach) \cup {"NOT_DUE"} :
        ecm_bus_on_cycle(mc, ic)
  /\ excl_depth' = IF bus_state' = "LOST" THEN excl_depth + 1 ELSE excl_depth
  /\ rt_pc' = "publish"
  /\ UNCHANGED <<notRt, stopVars, request, keep, bus_pub>>

\* LOST, probe due: one BRD; an answer starts RECOVER and hands the bus over.
RtProbe ==
  /\ rt_pc = "tick"
  /\ \E w \in {0, reach} :
        /\ ecm_bus_on_probe(w)
        /\ IF w > 0
           THEN /\ recover_gen' = NextGen(recover_gen)
                /\ recover_req' = recover_gen'
           ELSE UNCHANGED <<recover_gen, recover_req>>
  /\ rt_pc' = "publish"
  /\ UNCHANGED <<notRt, stopVars, keep, bus_pub, excl_depth>>

\* A slip in the RECOVER branch: any answer counts.
AnyAnswer_RtAwaitDone ==
  /\ rt_pc = "tick"
  /\ ecm_bus_on_recover_done(recover_ok)
  /\ excl_depth' = IF bus_state' = "RUN" THEN excl_depth - 1 ELSE excl_depth
  /\ rt_pc' = "publish"
  /\ UNCHANGED <<notRt, stopVars, request, keep, bus_pub>>

\* RECOVER: only the matching generation counts as the answer.
RtAwaitDone ==
  /\ rt_pc = "tick"
  /\ recover_done = recover_gen
  /\ ecm_bus_on_recover_done(recover_ok)
  /\ excl_depth' = IF bus_state' = "RUN" THEN excl_depth - 1 ELSE excl_depth
  /\ rt_pc' = "publish"
  /\ UNCHANGED <<notRt, stopVars, request, keep, bus_pub>>

\* LOST before the next probe, or RECOVER without an answer: nothing is sent.
RtIdle ==
  /\ rt_pc = "tick"
  /\ ~ ecm_bus_probe_due
  /\ ~ (bus_state = "RECOVER" /\ recover_done = recover_gen)
  /\ BusWait
  /\ rt_pc' = "publish"
  /\ UNCHANGED <<notRt, stopVars, request, keep, bus_pub, excl_depth>>

\* A slip in cia402_keep_cycling: max_ticks is not compared.
Endless_RtPublish ==
  /\ rt_pc = "publish"
  /\ bus_pub' = bus_state
  /\ rt_pc' \in IF stop THEN {"tick", "leave"} ELSE {"tick"}
  /\ UNCHANGED <<notRt, stopVars, request, busVars, keep, excl_depth>>

\* End of the tick: publish the state, then the loop condition.  After a stop
\* request the CiA402 hook may keep the loop cycling, at most KeepTicks.
RtPublish ==
  /\ rt_pc = "publish"
  /\ bus_pub' = bus_state
  /\ \/ ~stop /\ rt_pc' = "tick" /\ UNCHANGED keep
     \/ stop /\ keep < KeepTicks /\ rt_pc' = "tick" /\ keep' = keep + 1
     \/ stop /\ rt_pc' = "leave" /\ UNCHANGED keep
  /\ UNCHANGED <<notRt, stopVars, request, busVars, excl_depth>>

\* Behind the loop: no new SDO, an exclusion window that is never closed, and
\* request_all_state(SAFE_OP) on the wire.
LeaveOp ==
  /\ rt_pc = "leave"
  /\ ctl_quiesce' = ApiOn
  /\ excl_depth' = excl_depth + 1
  /\ rt_pc' = "stop"
  /\ UNCHANGED <<notRt, request, busVars, keep, bus_pub, mon_stop, api_stop>>

\* The statistics are printed, the threads are told to stop and joined; the
\* api thread last.
StopThreads ==
  /\ rt_pc = "stop"
  /\ mon_stop' = TRUE
  /\ rt_pc' = "join"
  /\ UNCHANGED <<notRt, request, busVars, keep, bus_pub, ctl_quiesce, api_stop, excl_depth>>

JoinMonitor ==
  /\ rt_pc = "join" /\ ~api_stop
  /\ mon_pc = "exit"
  /\ api_stop' = TRUE
  /\ UNCHANGED <<notRt, rtVars, busVars, ctl_quiesce, mon_stop, excl_depth>>

JoinApi ==
  /\ rt_pc = "join" /\ api_stop
  /\ api_pc = "exit"
  /\ rt_pc' = "done"
  /\ UNCHANGED <<notRt, stopVars, request, busVars, keep, bus_pub, excl_depth>>

RtStep == \/ RtCycle \/ RtProbe \/ RtAwaitDone \/ RtIdle \/ RtPublish
          \/ LeaveOp \/ StopThreads \/ JoinMonitor \/ JoinApi

-----------------------------------------------------------------------------
(* The SDO fence, called by the monitor around a recovery.  begin stores   *)
(* g_sdo_block and then takes g_sdo_mx, which is not recursive; end        *)
(* unlocks and then clears g_sdo_block.                                    *)

FenceBlock(from, to) ==
  /\ mon_pc = from
  /\ mon_pc' = to
  /\ sdo_block' = IF ApiOn THEN TRUE ELSE sdo_block

FenceLock ==
  /\ ApiOn => sdo_mx = "free"
  /\ sdo_mx' = IF ApiOn THEN "monitor" ELSE sdo_mx

FenceUnlock == sdo_mx' = IF ApiOn THEN "free" ELSE sdo_mx

FenceUnblock(from, to) ==
  /\ mon_pc = from
  /\ mon_pc' = to
  /\ sdo_block' = IF ApiOn THEN FALSE ELSE sdo_block

-----------------------------------------------------------------------------
(* The monitor thread.                                                     *)

\* Top of the loop with a request pending.
MonTake ==
  /\ mon_pc = "loop" /\ ~mon_stop
  /\ recover_req # recover_done
  /\ mon_req' = recover_req
  /\ mon_ok' = FALSE
  /\ mon_pc' = IF RecoverOn THEN "rf_block" ELSE "ok"
  /\ in_full' = RecoverOn
  /\ UNCHANGED <<notMon, ansVars, fence, todo, excl_depth>>

\* recovery_step after a fresh diagnostic read: any number of slaves may need
\* path B.  The published bus state may already be old.
MonPlan ==
  /\ mon_pc = "loop" /\ ~mon_stop
  /\ recover_req = recover_done
  /\ RecoverOn /\ bus_pub \in Cyclic
  /\ todo' \in 1 .. NSlaves
  /\ mon_pc' = "plan"
  /\ UNCHANGED <<notMon, ansVars, fence, in_full, mon_req, mon_ok, excl_depth>>

MonPlanNext ==
  /\ mon_pc = "plan"
  /\ mon_pc' = IF todo = 0 THEN "loop" ELSE "pb_block"
  /\ UNCHANGED <<notMon, ansVars, fence, in_full, todo, mon_req, mon_ok, excl_depth>>

\* recover_path_b(s): fence, window, ecx_recover_slave / ecx_reconfig_slave.
PathBBlock ==
  /\ FenceBlock("pb_block", "pb_lock")
  /\ UNCHANGED <<notMon, ansVars, in_full, todo, mon_req, mon_ok, excl_depth, sdo_mx>>

PathBLock ==
  /\ mon_pc = "pb_lock"
  /\ FenceLock
  /\ excl_depth' = excl_depth + 1
  /\ mon_pc' = "pb_work"
  /\ UNCHANGED <<notMon, ansVars, in_full, todo, mon_req, mon_ok, sdo_block>>

PathBEnd ==
  /\ mon_pc = "pb_work"
  /\ excl_depth' = excl_depth - 1
  /\ FenceUnlock
  /\ todo' = todo - 1
  /\ mon_pc' = "pb_unblock"
  /\ UNCHANGED <<notMon, ansVars, in_full, mon_req, mon_ok, sdo_block>>

PathBUnblock ==
  /\ FenceUnblock("pb_unblock", IF in_full THEN "rf_slaves" ELSE "plan")
  /\ UNCHANGED <<notMon, ansVars, in_full, todo, mon_req, mon_ok, excl_depth, sdo_mx>>

\* recover_full(): fence, window, BRD; then the slaves within reach, of which
\* any number needs path B; then OP with the watchdog fed, DC, and the count
\* of slaves in OP.
FullBlock ==
  /\ FenceBlock("rf_block", "rf_lock")
  /\ UNCHANGED <<notMon, ansVars, in_full, todo, mon_req, mon_ok, excl_depth, sdo_mx>>

FullLock ==
  /\ mon_pc = "rf_lock"
  /\ FenceLock
  /\ excl_depth' = excl_depth + 1
  /\ todo' \in 0 .. reach
  /\ mon_pc' = "rf_slaves"
  /\ UNCHANGED <<notMon, ansVars, in_full, mon_req, mon_ok, sdo_block>>

FullSlave ==
  /\ mon_pc = "rf_slaves" /\ todo > 0
  /\ mon_pc' = "pb_block"
  /\ UNCHANGED <<notMon, ansVars, fence, in_full, todo, mon_req, mon_ok, excl_depth>>

FullEnd ==
  /\ mon_pc = "rf_slaves" /\ todo = 0
  /\ \/ mon_ok' = FALSE
     \/ reach > 0 /\ mon_ok' = TRUE
  /\ excl_depth' = excl_depth - 1
  /\ FenceUnlock
  /\ mon_pc' = "rf_unblock"
  /\ UNCHANGED <<notMon, ansVars, in_full, todo, mon_req, sdo_block>>

FullUnblock ==
  /\ FenceUnblock("rf_unblock", "ok")
  /\ in_full' = FALSE
  /\ UNCHANGED <<notMon, ansVars, todo, mon_req, mon_ok, excl_depth, sdo_mx>>

\* A slip in the answer: the generation is stored before the result.
DoneFirst_MonStoreOk ==
  /\ mon_pc = "ok"
  /\ recover_done' = mon_req
  /\ mon_pc' = "done"
  /\ UNCHANGED <<notMon, fence, recover_ok, in_full, todo, mon_req, mon_ok, excl_depth>>

\* The answer: first the result, then the generation it belongs to.
MonStoreOk ==
  /\ mon_pc = "ok"
  /\ recover_ok' = mon_ok
  /\ mon_pc' = "done"
  /\ UNCHANGED <<notMon, fence, recover_done, in_full, todo, mon_req, mon_ok, excl_depth>>

MonStoreDone ==
  /\ mon_pc = "done"
  /\ recover_done' = mon_req
  /\ mon_pc' = "loop"
  /\ UNCHANGED <<notMon, fence, recover_ok, in_full, todo, mon_req, mon_ok, excl_depth>>

MonExit ==
  /\ mon_pc = "loop" /\ mon_stop
  /\ mon_pc' = "exit"
  /\ UNCHANGED <<notMon, ansVars, fence, in_full, todo, mon_req, mon_ok, excl_depth>>

PathBStep == PathBBlock \/ PathBLock \/ PathBEnd \/ PathBUnblock
FullStep  == FullBlock \/ FullLock \/ FullSlave \/ FullEnd \/ FullUnblock
MonStep   == \/ MonTake \/ MonPlanNext \/ PathBStep \/ FullStep
             \/ MonStoreOk \/ MonStoreDone \/ MonExit

-----------------------------------------------------------------------------
(* The api thread: be_ready() refuses early, be_sdo() checks again under   *)
(* the mutex.  A timed-out or finished SDO releases it.                    *)

\* A slip in be_ready: it does not look at g_sdo_block.
Eager_ApiReady ==
  /\ api_pc = "idle" /\ ~api_stop
  /\ ~ctl_quiesce /\ bus_pub \in Cyclic
  /\ api_pc' = "lock"
  /\ UNCHANGED <<notApi, fence>>

ApiReady ==
  /\ api_pc = "idle" /\ ~api_stop
  /\ ~ctl_quiesce /\ bus_pub \in Cyclic /\ ~sdo_block
  /\ api_pc' = "lock"
  /\ UNCHANGED <<notApi, fence>>

ApiLock ==
  /\ api_pc = "lock" /\ sdo_mx = "free"
  /\ sdo_mx' = "api"
  /\ api_pc' = "check"
  /\ UNCHANGED <<notApi, sdo_block>>

\* Busy when a recovery was announced meanwhile (or the slave's mailbox is not
\* in cyclic mode); otherwise the SDO goes out.
ApiCheck ==
  /\ api_pc = "check"
  /\ \/ api_pc' = "idle" /\ sdo_mx' = "free"
     \/ ~sdo_block /\ api_pc' = "sdo" /\ UNCHANGED sdo_mx
  /\ UNCHANGED <<notApi, sdo_block>>

ApiSdoDone ==
  /\ api_pc = "sdo"
  /\ api_pc' = "idle" /\ sdo_mx' = "free"
  /\ UNCHANGED <<notApi, sdo_block>>

ApiExit ==
  /\ api_pc = "idle" /\ api_stop
  /\ api_pc' = "exit"
  /\ UNCHANGED <<notApi, fence>>

ApiStep == ApiLock \/ ApiCheck \/ ApiSdoDone \/ ApiExit

-----------------------------------------------------------------------------
(* The environment: cables and slaves come and go, an operator stops the   *)
(* program (SIGINT, SIGTERM or --duration-sec).                            *)

WireChange ==
  /\ reach' \in 0 .. NSlaves \ {reach}
  /\ UNCHANGED <<busVars, rtVars, ansVars, monVars, stopVars, fence, excl_depth, api_pc, stop>>

StopRequest ==
  /\ ~stop /\ stop' = TRUE
  /\ UNCHANGED <<busVars, rtVars, ansVars, monVars, stopVars, fence, excl_depth, api_pc, reach>>

Next == RtStep \/ MonStep \/ MonPlan \/ ApiStep \/ ApiReady \/ WireChange \/ StopRequest

Spec == Init /\ [][Next]_vars

\* The RT thread is woken by its timer, the monitor and the api thread are
\* ordinary threads that block only where the model says so.  The last two
\* conditions are about the wire, not the program: not every probe of a bus
\* that answers is lost, and not every recovery of such a bus ends without a
\* single slave in OP.
Fairness ==
  /\ WF_vars(RtStep) /\ WF_vars(MonStep) /\ WF_vars(ApiStep)
  /\ SF_vars(RtProbe /\ bus_state' = "RECOVER")
  /\ SF_vars(FullEnd /\ mon_ok')

FairSpec == Spec /\ Fairness

-----------------------------------------------------------------------------
(* Safety.                                                                 *)

\* While recover_full() runs, the RT thread waits in RECOVER for exactly the
\* generation that is being served: the monitor never works on a bus the RT
\* thread has not given away, nor answers a request twice.
MonitorOwnsBus ==
  in_full \/ mon_pc \in {"ok", "done"} =>
     /\ bus_state = "RECOVER"
     /\ mon_req = recover_req
     /\ recover_done # recover_req

\* Between publishing a request and seeing the matching done the cyclic loop
\* of the RT thread sends neither process data nor a probe.
LoopSendsOnlyWhenOwner ==
  [][RtCycle \/ RtProbe => recover_req = recover_done]_vars

\* When the RT thread sees its generation come back, g_recover_ok is the
\* result of that generation and not one that is still about to be written.
AnswerIsOfThisRequest ==
  bus_state = "RECOVER" /\ recover_done = recover_gen =>
     /\ recover_ok = mon_ok
     /\ mon_req = recover_gen

\* Process data starts again only after a recovery that ended well.
ResumeOnlyAfterSuccess ==
  [][bus_state \notin Cyclic /\ bus_state' \in Cyclic =>
       bus_state = "RECOVER" /\ mon_ok /\ ~in_full]_vars

\* The open exclusion windows: of the RT thread from LOST to RUN, of main from
\* leaving OP on, of recover_full and of recover_path_b.
FullWindow  == in_full /\ mon_pc \in {"rf_slaves", "pb_block", "pb_lock", "pb_work", "pb_unblock"}
PathBWindow == mon_pc = "pb_work"
RtWindow    == bus_state \notin Cyclic
EndWindow   == rt_pc \in {"stop", "join", "done"}
One(b)      == IF b THEN 1 ELSE 0

\* g_excl_depth counts the open windows: none is left open by a failed
\* recovery or a stop, and none is closed twice, so that frames the tx_order
\* ring does not describe are never sent with the counter at zero.
WindowsBalance ==
  excl_depth = One(FullWindow) + One(PathBWindow) + One(RtWindow) + One(EndWindow)

\* No SDO of the api thread is in flight while a recovery switches mailboxes.
SdoFence == FullWindow \/ PathBWindow => api_pc # "sdo"

\* The inductive invariant behind all of these: where the two sides of the
\* handshake and of the fence can be relative to each other.
HandshakeInv ==
  /\ recover_req = recover_gen
  /\ bus_state # "RECOVER" => recover_done = recover_gen
  /\ mon_pc = "done" => recover_ok = mon_ok
  /\ mon_pc \in {"rf_block", "rf_lock", "rf_slaves", "rf_unblock"} => in_full
  /\ mon_pc \in {"loop", "plan", "ok", "done", "exit"} => ~in_full
  /\ mon_pc \in {"pb_block", "pb_lock", "pb_work"} => todo > 0

FenceInv ==
  /\ sdo_mx = "api" <=> api_pc \in {"check", "sdo"}
  /\ ApiOn /\ (FullWindow \/ PathBWindow) => sdo_mx = "monitor"
  /\ ApiOn /\ in_full => mon_pc \notin {"pb_work", "pb_unblock"}
  /\ ~ApiOn => api_pc = "exit"

IInv ==
  /\ TypeOK /\ BusStateSound
  /\ HandshakeInv /\ MonitorOwnsBus /\ AnswerIsOfThisRequest
  /\ WindowsBalance /\ FenceInv

-----------------------------------------------------------------------------
(* The handover implements the abstract ownership of module BusOwner.      *)

Owner   == IF recover_req # recover_done THEN "monitor" ELSE "rt"
Serving == bus_state \in Cyclic
Verdict == IF bus_state = "RECOVER" /\ recover_req = recover_done
           THEN IF recover_ok THEN "ok" ELSE "failed"
           ELSE "none"

Ownership == INSTANCE BusOwner WITH owner <- Owner, serving <- Serving, verdict <- Verdict

\* Every behaviour of the three threads is one of BusOwner: one owner at a
\* time, one answer per request, each answer acted on once.
ImplementsOwner == Ownership!OwnerSpec

-----------------------------------------------------------------------------
(* Liveness.                                                               *)

\* The RT thread does not wait in RECOVER for ever.
RecoverIsAnswered ==
  bus_state = "RECOVER" /\ ~stop ~> bus_state # "RECOVER" \/ stop

\* A bus whose slaves stay reachable carries process data again.
BusComesBack ==
  <>[](reach = NSlaves /\ ~stop) => []<>(bus_state \in Cyclic)

\* A stop request ends the program, whatever the bus is doing.
Terminates == stop ~> rt_pc = "done"

\* A single-slave recovery gets past the fence although the api thread keeps
\* asking for SDOs.
FenceIsGranted == mon_pc = "pb_lock" /\ ~in_full ~> mon_pc = "pb_work"

-----------------------------------------------------------------------------
(* A statement of a comment that the code does not keep.                   *)

\* ecm_run.c:671: taking g_sdo_mx "waits for an SDO in flight, at most its
\* timeout": the monitor never waits for a mutex it holds itself.
FenceWaitsOnlyForSdo ==
  mon_pc \in {"rf_lock", "pb_lock"} => sdo_mx # "monitor"
=============================================================================
