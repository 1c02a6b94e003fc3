------------------------------- MODULE BusFsm -------------------------------
(***************************************************************************)
(* The bus state machine of the fault policy (ecm_bus_fsm_t, functions     *)
(* ecm_bus_* of libecmaster/policy/ecm_policy.c).  It is pure arithmetic   *)
(* run by the RT thread; module BusRecovery composes it with the threads.  *)
(*                                                                         *)
(* next_probe_tick is kept relative to the current tick (probe_in), which  *)
(* makes the state finite; the counters entered[], ticks_in[] and          *)
(* since_tick feed only the final report and are left out.                 *)
(***************************************************************************)
EXTENDS Integers

CONSTANTS
  NLost,         \* cfg.n_lost: consecutive motion NOFRAME cycles -> LOST
  ProbeTicks,    \* cfg.probe_ticks: period of the BRD probe in LOST
  BackoffTicks   \* cfg.recover_backoff_ticks: pause after a failed RECOVER

\* ecm_bus_init replaces a zero n_lost or probe_ticks by one.
ASSUME BusCfgAssumption ==
  /\ NLost \in Nat \ {0}
  /\ ProbeTicks \in Nat \ {0}
  /\ BackoffTicks \in Nat

WkcClass == {"OK", "NOFRAME", "ZERO", "PARTIAL", "OVER"}
IoClass  == WkcClass \cup {"NOT_DUE"}        \* io_class = -1: IO not serviced
BusState == {"RUN", "DEGRADED", "LOST", "RECOVER"}
Cyclic   == {"RUN", "DEGRADED"}              \* process data is exchanged

VARIABLES
  bus_state,     \* f->state
  noframe_run,   \* f->noframe_run
  io_ok,         \* f->io_ok
  probe_in       \* f->next_probe_tick - tick, never below 0

busVars == <<bus_state, noframe_run, io_ok, probe_in>>

BusTypeOK ==
  /\ bus_state \in BusState
  /\ noframe_run \in 0 .. NLost
  /\ io_ok \in BOOLEAN
  /\ probe_in \in Nat

\* ecm_bus_init
BusInit ==
  /\ bus_state = "RUN"
  /\ noframe_run = 0
  /\ io_ok = TRUE
  /\ probe_in = 0

\* The distance to next_probe_tick one tick later.
OneTickOn == IF probe_in = 0 THEN 0 ELSE probe_in - 1

\* ecm_bus_probe_due, asked in the tick that follows: next_probe_tick reached.
ecm_bus_probe_due == bus_state = "LOST" /\ OneTickOn = 0

(***************************************************************************)
(* ecm_bus_on_cycle: RUN and DEGRADED only.  NLost motion NOFRAME in a row *)
(* lose the bus; otherwise the state says whether the motion cycle and the *)
(* last serviced IO cycle were both right.                                 *)
(***************************************************************************)
ecm_bus_on_cycle(motion_class, io_class) ==
  /\ bus_state \in Cyclic
  /\ noframe_run' = IF motion_class = "NOFRAME" THEN noframe_run + 1 ELSE 0
  /\ io_ok' = IF io_class = "NOT_DUE" THEN io_ok ELSE io_class = "OK"
  /\ bus_state' = IF noframe_run' >= NLost THEN "LOST"
                  ELSE IF motion_class = "OK" /\ io_ok' THEN "RUN"
                  ELSE "DEGRADED"
  /\ probe_in' = IF bus_state' = "LOST" THEN 1 ELSE OneTickOn

\* ecm_bus_on_probe: any slave that answers the BRD starts a recovery.
ecm_bus_on_probe(brd_wkc) ==
  /\ ecm_bus_probe_due
  /\ bus_state' = IF brd_wkc > 0 THEN "RECOVER" ELSE "LOST"
  /\ probe_in' = IF brd_wkc > 0 THEN OneTickOn ELSE ProbeTicks
  /\ UNCHANGED <<noframe_run, io_ok>>

Stuck_on_recover_done(ok) ==
  /\ bus_state = "RECOVER"
  /\ bus_state' = IF ok THEN "RUN" ELSE "RECOVER"
  /\ noframe_run' = 0 /\ io_ok' = TRUE
  /\ probe_in' = IF ok THEN OneTickOn ELSE BackoffTicks

\* ecm_bus_on_recover_done: the monitor's answer.
ecm_bus_on_recover_done(ok) ==
  /\ bus_state = "RECOVER"
  /\ noframe_run' = 0
  /\ io_ok' = TRUE
  /\ bus_state' = IF ok THEN "RUN" ELSE "LOST"
  /\ probe_in' = IF ok THEN OneTickOn ELSE BackoffTicks

\* A tick of LOST or RECOVER in which there is nothing to account.
BusWait ==
  /\ bus_state \in {"LOST", "RECOVER"}
  /\ probe_in' = OneTickOn
  /\ UNCHANGED <<bus_state, noframe_run, io_ok>>

\* What RUN claims: no frame is missing and the last IO cycle was right; and
\* a bus that is still cyclic is short of the NLost missing frames that lose
\* it, so every run of NLost is noticed in the cycle that completes it.
BusStateSound ==
  /\ bus_state = "RUN" => noframe_run = 0 /\ io_ok
  /\ bus_state \in Cyclic => noframe_run < NLost
=============================================================================
