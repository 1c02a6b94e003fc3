# TLA+ verification of ecmaster

Models of the EtherCAT master in `src/` (program `apps/ecm_run`, libraries
`libecmaster` and `libecm_cia402`, simulator `tools/soft_bus`), the TLC runs that
check them on small instances, and proofs checked by TLAPS. `PROJECT.json` holds
the machine-readable side: components, runs, the map from definitions to source
lines, the hazards and the properties that cover them, findings and theorems.

## 1. The system

One process. The **RT thread** (`main`) runs a tick of 1 ms: send and receive the
process data of each group, judge the working counter, advance the bus state
machine, call the application hook, execute at most one recovery command, pump the
mailbox. Around it, without locks on the RT side:

| thread | does | talks to the RT thread by |
|---|---|---|
| telemetry | histograms, pairs sent and received frames | SPSC rings, exclusion window |
| application | pushes commands and setpoints | SPSC rings, seqlock records |
| mailbox | SDO jobs through SOEM | SOEM's cyclic mailbox |
| monitor | events, diagnosis, recovery of slaves and bus | handoff, rings, recovery generation |
| api (`--api`) | `stats.json`, `ctl.sock` | handoffs; SDO fence against the monitor |

`soft_bus` is a second program that plays the bus: a chain of slaves with their
state machines, mailboxes and drives, and a control channel to inject faults. The
repository's tests run the master against it, so its own promises matter too.

### Inventory

| part | source (under `src/`) | module | state |
|---|---|---|---|
| bus state machine | `libecmaster/policy` | BusFsm | modelled, proved in BusRecovery |
| handover RT/monitor, windows, SDO fence, shutdown | `apps/ecm_run` | BusRecovery, BusOwner | modelled, proved |
| per-slave recovery planner, command queue | `policy`, `ecm_run` | SlaveRecovery | modelled, proved |
| two-slot handoffs (diag, api) | `diag`, `api` | Handoff, BoundedQueue | modelled, proved |
| SPSC rings (5 copies) | `policy`, `xchg`, `telemetry` | SpscRing, BoundedQueue | modelled, proved |
| seqlock records | `libecmaster/xchg` | Seqlock | modelled, proved |
| input freshness | `policy`, `ecm_run` | Freshness | modelled, proved |
| telemetry exclusion window | `ecm_run` | TelemetryWindow | modelled, nesting proved |
| turnaround matcher | `libecmaster/telemetry` | Turnaround | pairing |
| reply check, index quarantine, DC gate | `ecm_run`, `core` | RtReplies | modelled, indexes proved |
| DC control loop and lock supervision | `libecmaster/core` | DcLock | modelled, scaled down |
| diagnostic frame, ingest, analysis | `libecmaster/diag` | BusDiag | most findings, proved |
| application exchange and its producer | `xchg`, `ecm_run` | Exchange | one output slot, proved |
| control socket, SDO commands, abort codes | `api`, `ecm_run` | CtlServer, SdoApi | without `info`, `dump`; SdoApi proved |
| mailbox job queue | `libecmaster/mailbox` | Mailbox | queue, worker, callers; answers proved |
| ENI checks, PDO table and binding, bring-up | `config`, `pdo`, `ecm_run` | PdoTable, BringUp | without the parsers |
| CiA402 axis and hook | `libecm_cia402`, `ecm_run` | Cia402Axis, Cia402 | CSP, PP, HM; S1, S2, S4, S6 proved |
| simulated drive | `tools/soft_bus/esc_cia402.c` | Cia402Drive, Cia402 | CSP, PP, HM |
| simulated slave: AL state machine, watchdog | `esc_core.c`, `esc_fault.c` | EscNode | modelled, proved |
| its addressing and FMMUs | `esc_core.c` | EscChain | modelled |
| its mailbox and CoE server | `esc_coe.c` | EscMailbox, EscCoe | modelled, EscMailbox proved |
| its reply queue and ESI profile | `esc_fault.c`, `esc_profile.c` | EscTxq, EscProfile | queue; assignment, proved |
| parsers, JSON, SHA-256, texts, tools, bench | | | not modelled, see section 7 |

## 2. Modules

### Recovery

**BusFsm** translates `ecm_bus_*` (RUN, DEGRADED, LOST, RECOVER). Absolute ticks
become the distance to the next probe. `ecm_wkc_classify` is one of five classes,
chosen among those the reachable slaves can produce.

**BusRecovery** extends it with the three threads around `g_recover_req`,
`g_recover_done` and `g_recover_ok`. One action per stretch of code between two
shared accesses: `RtCycle`, `RtProbe`, `RtAwaitDone`, `RtIdle`, `RtPublish` are the
branches of the loop; `MonTake` to `MonStoreDone` the monitor serving a request;
`Full*` and `PathB*` are `recover_full` and `recover_path_b` with `api_fence_begin`
and `api_fence_end`; `Api*` a command of the api thread; `LeaveOp` to `JoinApi` the
shutdown. Generations are counted modulo `GenMod` (the code's `uint32`).
**BusOwner** is the promise: one owner, one answer per request, each acted on once.

**SlaveRecovery** builds on BusOwner's view of the bus. Its state per slave is the
AL state, the class of the AL status code and the planner's record (`attempts`,
`failed`, `last`); reads reach the planner late, through the queue Handoff
implements; commands wait in `g_cmdq`. `Decide` is `ecm_srec_decide` with the part
of `recovery_step` that carries it out; `FullSlave` is one turn of `recover_full`.

### Channels

**Handoff** and **SpscRing** have one step per atomic access and per copy of an
element. Both map to **BoundedQueue**, a FIFO that drops when full. **Seqlock** is
`ecm_xst_write` and `ecm_xst_read` word by word, with the reader's bounded retries.
**TelemetryWindow** has one step per access to `g_excl_gen` and `g_excl_depth`.

**Exchange** uses these channels as queues and registers. `Hook` is the whole of
`ecm_xchg_rt` for one output slot: commands first, then late setpoints, then the
setpoint of the next frame. `App*` are the steps of `app_thread_fn` with its echo
check.

**CtlServer** is `ecm_ctl_srv_service` with two slots, small line and reply buffers
and clients that send pieces, stop reading or vanish. **SdoApi** is what a line may
ask for: `AllowLoad` is the loader of the allowlist, `WriteVerdict` the refusals of
`sdo_write` in their order with the conversion of the number into bytes, `Sdo*` the
SDO under the fence, and the way of an abort code through SOEM's error list, the RT
thread, the event ring and the monitor into the reply of `be_abort_after`.

**Mailbox** has callers, the queue of pointers to jobs on their stacks, the worker
and discrete time. A caller that times out takes its job with it.

### The cyclic master

**RtReplies**: one step is one tick of `service_group` for motion, IO and diagnostic
frames over SOEM's pool of frame indexes. The network keeps, delays or loses every
reply; a late one is taken by the next frame with its index unless `quar_add` has
parked it, `reply_header_matches` refuses it, or the gate of `ecm_dc_update` sees
that its DC time does not fit. **Freshness** is `ecm_fresh_update` over a counter
that wraps. **DcLock** is the rest of `ecm_dc_update`: phase error, PI with clamp and
anti-windup, lock supervision on window means, with the numbers of the program
in tenths of a microsecond.

**BusDiag**: counters in a chain of slaves with bad cables and power failures, the
diagnostic frame that reads and clears them in chunks, or that could not be sent, the
handoff, `ecm_diag_ingest` and the rules of `ecm_diag_analyze`. **Turnaround** is
`fifo_take` and the pairing of completions and arrivals by a repeating index.

**PdoTable** holds the functions of `ecm_pdo.c` and the scans of `ecm_pdo_soem.c`;
`PdoGet` and `PdoSet` go byte by byte as the code does, with a scaled-down byte.
**BringUp** walks `main` from the options to the first cycle in OP: one action per
stage, each with all its refusals, over configurations (options, ENI, devices) that
`MCBringUp` lists in five families. SOEM's scan, mapping and state requests are
external.

### Drives

**Cia402Axis** translates `apply_cmd`, `axis_rt`, `ecm_cia402_shutdown` and
`ecm_cia402_all_down` as functions from an axis record to the next; **Cia402Drive**
does the same for the drive of soft_bus. Control and status words are sets of bits.
**Cia402** composes them over a wire that loses requests or replies, with the RT
loop's calls of the hook, bus loss, the slave leaving OP, commands and stop. Lengths
of ramps and reactions are nondeterministic.

### The simulator

**EscNode**: a frame evaluates the watchdog, takes effect on AL control or outputs,
and lets the drive make its cycle, in the order of `process_frame`; faults are
actions of their own. **EscChain**: a datagram slave by slave, with `fmmu_apply` for
byte-aligned and `fmmu_apply_bits` for other FMMUs; a bit is the set of bits it is
the OR of. **EscCoe**: one action per kind of request, from expedited to segmented
and Complete Access. **EscMailbox**: SM1 between that server and a master that loses
replies. **EscTxq**: the delayed, doubled, held and swapped replies. **EscProfile**:
the PDO assignment.

`MC*.tla` define the sets a `.cfg` cannot write. `MCChannels`, `MCMaster` and
`MCSoftBus` run several modules in one instance: the variable `part` says which one
moves in a behaviour, the others stay where they started.

## 3. Runs

| run | shows | distinct states |
|---|---|---|
| recovery_safety | ownership, answer, windows, fence, refinement of BusOwner; the mutex is granted | 110,000 |
| recovery_live | requests are answered, a reachable bus comes back, a stop ends the program (without api) | 35,000 |
| recovery_nested | *violation*: `recover_full` waits for the mutex it holds | |
| slave | bounded attempts, refused slaves left alone, every slave ends in OP or FAILED | 78,000 |
| slave_kept | *violation*: a stale command takes a slave out of PRE-OP | |
| cia402_csp | a dropped drive stays down, targets move in steps, drives are down before the loop is left | 414,000 |
| cia402_profile | PP points arrive once and in order, homing is credited on good frames only | 380,000 |
| cia402_homed | *violation*: homed without a homing after one lost frame | |
| channels | what one thread or client hands to another arrives whole, once, in order | 556,000 |
| master | the cyclic master believes only what belongs to this cycle; OP only as configured | 381,000 |
| softbus_loops | the simulator's queues and tables, and the loops that must make progress | 116,000 |
| scan_fallback | *violation*: another vendor's device is bound from its SII | |

The three joint runs ask, per part:

| run | part | property | shows |
|---|---|---|---|
| channels | handoff | `ImplementsQueue` | put and get are a FIFO of two; with the steps' copies |
| | ring | `RingIsQueue` | push and pop are a FIFO, counters wrapping |
| | seqlock | `RecordIsWhole` | a read record is whole and not older than the call |
| | xchg | `SetpointInItsFrame` | each frame carries its own setpoint, or none and the underrun counter says so; what fell due in a lost tick is not replayed, as far as the budget of the hook goes |
| | ctl | `RepliesInOrder` | the n-th reply answers the n-th line, however bytes arrive |
| | sdo | `WriteIsAllowed`, `AbortAnswersOnce` | only listed objects in range are written; an abort code answers its own request |
| | coe | `TransfersAreWhole` | transfers are whole; a refused Complete Access leaves the object alone |
| master | replies | `OwnReply`, `MotionIsFresh` | the quarantine keeps replies apart; behind it, the DC gate refuses old inputs until a run of rejections as long as their age demands |
| | diag | `BlameIsSound`, `CountsAddUp` | a finding names a place where something was wrong; counters are neither lost nor doubled |
| | turnaround | `PairsOwnFrame` | a lost or late reply does not shift the pairing |
| | fresh | `VerdictIsTrue` | new, repeated, regressed and stale are told apart |
| | bringup | `HandlesPointHome`, `RunsAsConfigured` | handles hit the bits of their object; SAFE-OP only on the bus the ENI describes |
| | node | `OpOnlyAfterOutputs`, `SilentOutputsEndOp` | OP needs outputs, and outputs that stop end it |
| softbus_loops | mbx | `CntTellsNewFromOld` | repeats and duplicates do not deceive a master that goes by Cnt |
| | txq | `RepliesLeaveInOrder` | held and swapped replies leave, in the intended order |
| | chain | `DatagramAsAddressed` | data and working counter are what the address tables say |
| | prof | `AssignmentIsLegal` | an active PDO assignment is one the profile allows |
| | mailbox | `OwnAnswer`, `EveryCallReturns` | a call queued on an idle mailbox, or behind jobs the margin covers, is not given up while the worker holds its job, and its answer is its own; every call returns |
| | window | `MeasuresOnlyOwnFrames` | no pairing inside a window, a resync after it, and discarding ends |
| | dclock | `EndsLocked` | from each start phase and drift tried the loop locks and stays locked |

Every property has a mutant in `PROJECT.json`: a slip of the modelled code under which
the same run finds the property violated.

### Bounds

* Recovery: two missing frames for LOST, probes two ticks apart, two slaves: LOST and
  RECOVER, partial and full answers and repeated failures all occur. `GenMod = 3` is
  the smallest modulus in which old, current and next request differ.
* Slave: two slaves, two attempts, a queue of one command (full queues occur), two
  faults (three for the violation). A fault is any unwanted event of slave or wire.
* CiA402: positions 0..3 with step limit 1, timeouts of 3 and 4 ticks, a PP queue of
  one; four or five external events per behaviour (lost or bad frames, commands,
  faults, hand movements, stop) in any order.
* Handoff: seven puts fill, drop and reuse both slots several times. Ring: capacity 4
  in counters modulo 8, from every start, so every wrap occurs. Seqlock: three words,
  two tries, four records, so a reader is overtaken by more than one write.
* Exchange: five hooks, one of them with the bus lost, two commands, a ring of four
  setpoints and a budget of two late ones per hook. `Leads = {1, 2, 4}` has a lead below
  two (the negative control at `ecm_run.c:1862`), one the budget covers, and one above
  the budget, as `--xchg-lead` allows (0 to 400 against 16): late, missing and dropped
  setpoints occur, and hooks whose budget ends before the late setpoints do.
* CtlServer: three clients for two slots, lines of at most three bytes, so lines are
  split, joined and too long, and one client waits for a slot. SdoApi: numbers of two
  bits, an event ring of one entry, two SDOs, one fence. EscCoe: transfers up to seven
  units, which take several segments.
* RtReplies: six indexes, two parked at a time for five ticks, replies up to four ticks
  late, three of them, seven ticks. An index comes round within those ticks and is
  released early in some behaviours. DC time is modulo 16 ticks; the gate gives in after
  two samples, or four for what looks like a reused index, so both limits are reached.
* BusDiag: three slaves, two per frame (so a read takes two frames), counters that
  saturate at two, two damaged
  frames or power failures together (one power failure at most), three reads. Turnaround:
  an index repeats after three frames, four frames, two lost, late or sent besides the
  process data. Freshness: a counter
  of three bits over 20 counts, replies up to four late.
* BringUp: five families of configurations of up to two slaves, each with a right
  one and the ways to be wrong. A byte has four bits, so objects cross byte borders.
* EscNode: watchdog of one tick, OP delayed by two. EscMailbox: Cnt 1..3, seven
  responses, so Cnt comes round. EscTxq: a queue of three, three frames, two
  injections, four ticks.
  EscChain: bytes of two bits, FMMUs of two bytes at any bit offset.
* Mailbox: two callers of two calls each, a queue of one, timeout and margin of 2: a
  call on an idle mailbox is covered, one behind another job is not (section 6), and
  both occur. Window: two
  openers, four windows. DcLock: a cycle of 10000 units, adjustment at most 500, lock
  window 100, 100 samples, up to two disturbances.

### Fairness

The RT thread is woken by the timer and the other threads are SCHED_OTHER off its core
(`ecm_run.c:1348`), so each step of a thread that is not waiting happens: weak fairness per
thread. Strong fairness is assumed of the wire only: not every probe of an answering
bus is lost, and not every full recovery of it fails. `SlavesSettle` further relies on
the bound on faults. In `softbus_loops` time passes, a woken caller runs, the worker
runs until it is stopped, the telemetry thread polls, the DC update happens each tick,
and the main loop of `soft_bus` lets due replies go. Users never have to call, to open
a window, to send a command or a stop. Cia402 states no liveness: fairness over that
composition is beyond TLC's evaluation of ENABLED.

### Memory order

Interleavings are sequentially consistent. Handoffs, rings and the recovery
generation publish with release and read with acquire, and each location has one
writer, or a read-modify-write; that a non-atomic payload is never accessed by both
sides at once (`NoTornCopy`) is what makes this reading sound for the channels. The
words of the seqlock are atomic in the code and its fences give the order of the model.

## 4. Proofs

For every value of the constants, TLAPS checks the theorems listed in `PROJECT.json`.
Each rests on an inductive invariant, which is stronger than what it shows: the
property alone does not say enough about the state between two steps. The bounds of the
runs (numbers of faults, calls, ticks) are constants too, so the theorems hold for
every bound.

**RecoveryAndExchange_proofs**

* BusRecovery: `IInv` is inductive. `MonitorOwnsBus` alone is not: it needs
  `HandshakeInv`, which ties the positions of RT thread and monitor to the three
  generation numbers (a request differs from the last answer exactly while the RT
  thread waits), and `FenceInv`, which says who holds the mutex at which position.
  From it follow the safety theorems, two action properties, and
  `HandoverImplementsOwner`: only `RtCycle`, `RtProbe`, `MonStoreDone` and
  `RtAwaitDone` change the mapped state, and each is a step of BusOwner. Assumed:
  positive thresholds and a generation modulus of at least two.
* Exchange, `FramesCarryTheirSetpoints`: `XchgInv` says that the ticks in the ring rise
  (`Rising`), that those the clock has passed come from one pass of the producer and span
  less than its lead (`Close`), where the producer stands against ring and clock
  (`Producer`), and that a record the echo check judges holds the setpoint of its frame
  (`Echo`). For a lead of 2 to `ECM_XCHG_SP_SKIP_MAX` (`Ample`), `Close` is what makes the
  loop over late setpoints reach the setpoint of this tick before its budget ends; for
  other leads the theorem says what the loop does within the budget. Nothing is assumed
  of leads, budget and capacities but that they are numbers.

**Supervision_proofs**

* SlaveRecovery: `PlanInv`, that the planner's counter equals the number of actions
  started since the last healthy read. `RecoveryIsBounded` follows for any number of
  slaves, attempts and queue length, and `ConfigIsFinal` directly.
* Cia402, `LeavesDrivesDown` (S6) and `DroppedStaysDropped` (S1): `CiaInv`. A drive seen
  down is in one of the states `Low` and no controlword on its way switches it on; a
  target that is still ENABLED belongs to an axis that has not dropped out, or to one
  whose drive did (`Gone`) and that will see it in the next inputs; `Meant` says what
  the controlword in the IOmap has to do with the state the axis was in. The lemmas go
  through `ecm_cia402_axis_rt` stage by stage and through the drive's transitions.

**Cia402Motion_proofs**, `StepsAreLimited` (S2, S4): `JumpInv` follows the motor through
the two exchanges it takes to come back to it. At the top of the loop the target that
is sent next is within a step of the motor (`TopNear`); in the hook the inputs are one
exchange old and a motor seen operating in CSP stands at the last target (`HookNear`).
Any step limit, any set of integers as positions. The history `unsure` counts the
exchanges the property leaves out, and `was` is the position one exchange ago.

**RtReplies_proofs**, `RepliesAreOwn`: `Pool` says that exactly the parked indexes and the
one of the pending diagnostic frame are in use, so that the round robin finds a free one;
`RtInv` that every reply under way belongs to an index in flight or parked for as long as
the reply may take. One lemma per operator of a tick, then the tick as a whole. Assumed
(`RtAssumption`): the quarantine outlasts the delay of a reply and leaves two indexes.
The facts about finite sets the lemmas use are a hypothesis, `SetFacts`, which the last
section proves; `LeastFact` in RecoveryAndExchange_proofs is treated alike.

**BusDiag_proofs**, `DiagCountsAddUp` and `BlamesAreSound`: `DiagInv` bounds what
counters, reply, handoff and monitor hold by the damaged frames of each link, and says of
everything on its way to the monitor (`WayOk`) that it describes the chain as it was when
the frame passed. For every length of the chain, number of slaves per frame and range of
the counters.

**WrappingNumbers_proofs**

* Lemmas about remainders (two numbers less than a width apart have different
  remainders; the difference modulo the width is the true difference) carry the first
  two. `RingImplementsQueue`: `RingInv` keeps the head, the tail, the distance between
  them and the slot of each side's unfinished step; it needs that the width is a multiple
  of the capacity and larger than it, which holds for the program's powers of two.
  `FreshnessIsTrue`: `FreshInv` ties the record of `ecm_fresh_t` to the true counts the
  history keeps; it needs that no reply is later than half the range.
* SdoApi, `WritesStayAllowed` and `AbortsAnswerOnce`: `SdoInv` says that a request that
  passed the checks of `sdo_write` stays granted (`Granted`: listed, of the listed type
  and range after encoding, not used by the master) until the slave has answered, and
  that every log entry used so far is older than the SDO under way. `SdoAssumption` says
  that limits in the file are integers.

**ChannelsAndSlaves_proofs**

* Handoff: `IInv` says what each side knows of the slots at each position (the
  producer's slot is empty until published, the consumer's is full until released,
  numbers grow). From it follow whole copies, justified drops and empties, and the
  refinement of BoundedQueue.
* Seqlock: `SeqInv` says that an even number is twice the number of the record all words
  belong to, and that as long as the number is still the one the reader began with, what
  it has copied so far is that record. The sequence number does not wrap in the model: a
  reader that is overtaken by 2^31 writes is not considered.
* EscNode: `OpInv`. That OP needs outputs is not inductive: `got_valid_outputs` and an
  accepted, still delayed OP request lead to OP later, so they need outputs already.
  `SilentSlaveLeavesOp` follows from the order in which a frame evaluates the watchdog
  before anything else.
* EscMailbox, `CounterTellsResponsesApart`: `MbxInv` winds the counter up (`Wound`: the
  n-th response has the counter n has after leaving out 0) and keeps the slave less than
  one turn ahead of the master (`Ahead`).
* EscProfile, `ActiveAssignmentIsLegal`: `ProfInv`, that an assignment with a length in
  subindex 0 is legal already in PRE-OP.

**Counting_proofs** rests on the cardinality of finite sets.

* TelemetryWindow: `WinInv`, that `g_excl_depth` is the number of threads inside a
  window; `WindowsNest` then says that a poll that a window has covered from its start
  never matches, for any finite set of threads.
* Mailbox, `AnswersAreOwn`: `MbInv`. A job in the queue or in hand belongs to a caller that
  waits for it, and it has waited no longer than the jobs ahead of it and the one in
  hand have taken (`OnTime`); so it is executed before its caller gives up. How many jobs
  can be ahead is counted from the queue, or from the callers, each of which has at most
  one. The history `sure` says of a call that the margin covered the jobs ahead of it when
  it was queued (`Covers`); margin, timeout and queue length are any numbers.

Only model-checked:

* liveness, which is outside the prover: `FenceIsGranted`, `RecoverIsAnswered`,
  `BusComesBack`, `Terminates`, `SlavesSettle`, `EveryCallReturns`, `EndsLocked`, and the
  parts of `MeasuresOnlyOwnFrames` and `RepliesLeaveInOrder` that say that something ends;
* `HandlesPointHome` and `RunsAsConfigured`: PdoTable walks bits by recursion and BringUp
  folds over tables, and induction over data is outside the prover;
* `RepliesInOrder`, `TransfersAreWhole`, `DatagramAsAddressed` and the order in
  `RepliesLeaveInOrder`: safety over several sequences or overlapping bit ranges, not
  proved so far;
* `PairsOwnFrame`: the matcher searches its queue ahead, and the property needs the order
  of both queues against the sends;
* `MotionIsFresh`: holds for the behaviours of the run's length; for every length it would
  need bounds on how long the DC base may drift, which the code does not keep;
* `PointsInOrder` and `HomedOnGoodFrames`: not attempted beyond the run.

## 5. Where code and documents differ

Shown by a run:

1. `recovery_nested`: with `--api`, `recover_full` (`ecm_run.c:2248`) calls
   `recover_path_b`, which locks `g_sdo_mx` again. The fence then waits for itself and
   not, as `ecm_run.c:671` says, for an SDO in flight. `recovery_live` runs without api.
2. `slave_kept`: a command decided before a bus loss is executed after `recover_full`
   and moves a slave that `ecm_run.c:2166` wants kept in PRE-OP.
3. `cia402_homed`: two homings in a row with the one frame between them lost.
4. `scan_fallback`: a CoE scan that breaks off is replaced by the SII
   (`ecm_pdo_soem.c:104`), so `--pdo-scan` binds a handle into another vendor's device
   without its mapping having been read, against `ecm_pdo.h:97`. The same header
   (line 20) documents the SII as the fallback of a scan: the two do not go together.

Met while reading, modelled as the code does it, not stated as a property:

* a probe answered by only some slaves starts RECOVER (`ecm_policy.c:92`);
  `docs/fault_policy.md:40` asks for all of them;
* a stop during RECOVER makes `main` request SAFE-OP (`ecm_run.c:4443`) while the
  monitor may still be working on the bus, against the ownership rule at 424;
* a diagnosis read before `recover_full` is still planned on afterwards
  (`ecm_policy.h:179`); the next read corrects it (`SlavesSettle`);
* the OP request is not limited by attempts or backoff (`ecm_policy.c:298`);
* the first setpoint after ENABLE is compared with `last_sent` (`ecm_cia402_axis.c:373`),
  where `docs/safety_boundary.md:19` says "actual": the two agree once the actual position has
  been read, so DISABLE and ENABLE one tick apart let the first setpoint be further from
  the motor. `NoJump` therefore leaves out the two exchanges after the drive left
  Operation enabled, and likewise those after a bad frame and after a profile move;
* until the first setpoint of an enable the CSP target is the actual position of the
  exchange before (`ecm_cia402_axis.c:389`, S2): a motor that is displaced in the very
  exchange that enables it goes back and forth between the two positions until a
  setpoint arrives, which `NoJump` allows in those words;
* `docs/cia402.md:83` has every axis in Switch on disabled at the end of the shutdown.
  `ecm_cia402_all_down` judges the last statusword, so a drive that a controlword under
  way has just taken to Ready to switch on passes; `DownBeforeLeavingOp` asks that no
  drive is switched on, enabled or stopping;
* a PP point can be lost when the frames with bit 4 low are lost as well;
* a motion reply the DC gate refuses does not park its index (`MotionIsFresh` is what
  is left when an index is released early);
* a SET command is counted as applied while the bus is lost (a known issue,
  `src/README.md:89`), and the echo check may report a mismatch for such a tick;
* an abort that arrives late is attributed to a later request for the same object;
* a client that closes its sending side right after a line gets no reply;
* a poll between the two increments of `excl_begin` takes the new generation for that
  of a window that has ended, and the resync after it is skipped;
* with more than one GROUP_MOTION send in a tick a completion may be paired with the
  arrival of the other frame (`crowded` in Turnaround);
* a gap of half the range or more makes the freshness verdict meaningless until the
  next newest count, as `Freshness` records;
* soft_bus: an LRW through a byte-oriented read-write FMMU does not set
  `got_valid_outputs`; an EMCY overwrites a response that was lost before it is
  repeated, and a held response is overwritten by the next; restoring a node forgets
  its options `--coe-ca`, `--fmmus` and the delay of OP.

## 6. Limits

* Mailbox: `OwnAnswer` speaks of the calls for which, when they are queued, the 500 ms
  margin (`ecm_mailbox.c:319`) is longer than the jobs ahead can take: on an idle mailbox
  always, so for the one caller of ecm_run, the api thread, unless an earlier call of its
  own timed out. A call queued behind longer jobs may be given up while its job is
  queued or in hand; `src/README.md:86` lists the effect as a known issue. The model has
  these calls too. A job is taken to end within its timeout: segmented transfers that
  take several, and steps of the wall clock, are left out.
* DcLock: three start phases and two drifts, and at most two disturbances (a new
  anchor, a missed sample) at two places of a window.
* SOEM, the NIC and the kernel are environment: SOEM's index pool and its error list
  are modelled by how ecm_run uses them, and its mapping of a group is taken not to
  change AL states.
* Backoff and ramp times are "not yet" or "over".
* The joint runs check components side by side. What composes components is
  BusRecovery (state machine, monitor, fence, shutdown), SlaveRecovery (planner, queue,
  bus owner), Cia402 (axis, wire, drive), Exchange (rings, records, producer) and
  EscMailbox (server, SM1, master).
* EscNode has the watchdog reaction on (`esc_core.c:294`, the default); `--no-sm-wd`
  turns it off, and `SilentOutputsEndOp` with it. EscProfile takes the size of a PDO as
  fixed, where a profile may declare the mapping itself writable (`esc_profile.c:199`).
* `HandlesPointHome` speaks of slaves whose mapping was read from the device to the end
  (`Unread` are the others): what an ENI or an SII says of a device can be wrong. For a
  scan that breaks off see `OtherVendorsAreRead`.
* BusDiag leaves out the findings for the return path, the PDI, lost links, the lost
  diagnosis and emergencies.

## 7. Not modelled

* Text: the XML, JSON and option parsers, the allowlist's line syntax, `info`, `dump`,
  `stats.json`, reports, error texts. They keep no state between calls; the checks on
  what they produce are in BringUp and SdoApi.
* SHA-256 and the clock simulation of `esc_dc.c`: arithmetic without control flow.
* Histograms and statistics: sums.
* Cia402: velocity modes (CSV, PV), relative points, and several axes, which do not
  interact. The status words of the drive's calibration are left out.
* BringUp: memory locking, CPU pinning, the SM watchdog registers and the range check
  of the freshness options.
* soft_bus: reading a profile file and building the SII image; the parsing of control
  commands.
* The programs `ecm_diag`, `ecm_peek` and the bench and lab programs: sequential readers
  of files, sockets and slaves. The link backends have no implementation here.
