----------------------------- MODULE Cia402Axis -----------------------------
(***************************************************************************)
(* The master's side of one CiA402 axis (ecm_cia402_axis.c): what          *)
(* ecm_cia402_rt does with the axis in the cyclic hook of a tick, in modes *)
(* CSP, PP and homing.  Words are sets of bits, as in Cia402Drive.  Stamps *)
(* (step_since, pp_since, hm_since) are ages in ticks, 0 while unused.     *)
(* The error codes shown to the application, the counters, the velocity    *)
(* modes and relative points are left out.                                 *)
(***************************************************************************)
EXTENDS Integers, Sequences

CONSTANTS Position,      \* positions, a set of integers
          Modes,         \* cfg.modes: the configured ones of CSP, PP and HM
          StepLimit,     \* max_step_pos
          StepTimeout,   \* step_timeout_ticks
          HomeTimeout,   \* home_timeout_ticks
          HmSettle,      \* ECM_CIA402_HM_SETTLE
          PpQueue        \* ECM_CIA402_PP_QUEUE

None == -1               \* no setpoint for this tick

Target == {"DISABLED", "ENABLED", "QUICKSTOP"}

Commands == [op : {"ENABLE", "DISABLE", "QUICKSTOP", "FAULT_RESET", "HOME"}]
            \cup [op : {"SET_MODE"}, mode : {"CSP", "PP", "HM"}]
            \cup [op : {"PP_POINT"}, p : Position, imm : BOOLEAN]

Axis == [ds : {"NOT_READY", "SOD", "RTSO", "SO", "OE", "QSA", "FRA", "FAULT", "UNKNOWN"},
         oms : SUBSET {10, 12, 13}, apos : Position, mode_disp : {"none", "CSP", "PP", "HM"},
         mode_req : {"CSP", "PP", "HM"}, target : Target, reset_pulse : 0 .. 2, reached_oe : BOOLEAN,
         armed : BOOLEAN, running : BOOLEAN, ds_wait : STRING, step_age : 0 .. StepTimeout + 1,
         last_sent : Position, cw : SUBSET (0 .. 7), pp_q : Seq([p : Position, imm : BOOLEAN]),
         pp_phase : 0 .. 2, pp_imm : BOOLEAN, pp_age : 0 .. StepTimeout + 1,
         hm_phase : {"IDLE", "RUNNING", "DONE", "FAILED"}, hm_age : 0 .. HomeTimeout + 1,
         hm_seen_low : BOOLEAN, homed : BOOLEAN, shutdown : BOOLEAN, ext_err : BOOLEAN]

\* ecm_cia402_add_axis: the mode an axis begins in.
FirstMode == IF "CSP" \in Modes THEN "CSP" ELSE IF "PP" \in Modes THEN "PP" ELSE "HM"

AxisInit == [ds |-> "NOT_READY", oms |-> {}, apos |-> 0, mode_disp |-> "none", mode_req |-> FirstMode,
             target |-> "DISABLED", reset_pulse |-> 0, reached_oe |-> FALSE, armed |-> FALSE,
             running |-> FALSE, ds_wait |-> "NOT_READY", step_age |-> 0, last_sent |-> 0, cw |-> {},
             pp_q |-> <<>>, pp_phase |-> 0, pp_imm |-> FALSE, pp_age |-> 0, hm_phase |-> "IDLE", hm_age |-> 0,
             hm_seen_low |-> FALSE, homed |-> FALSE, shutdown |-> FALSE, ext_err |-> FALSE]

Age(n, bound) == IF n < bound THEN n + 1 ELSE n

\* Drive state of a statusword.
ecm_cia402_decode(sw) ==
  LET m == sw \cap {0, 1, 2, 3, 6}
      q == sw \cap {0, 1, 2, 3, 5, 6}
  IN CASE m = {}           -> "NOT_READY"
       [] m = {6}          -> "SOD"
       [] m = {0, 1, 2, 3} -> "FRA"
       [] m = {3}          -> "FAULT"
       [] q = {0, 5}       -> "RTSO"
       [] q = {0, 1, 5}    -> "SO"
       [] q = {0, 1, 2, 5} -> "OE"
       [] q = {0, 1, 2}    -> "QSA"
       [] OTHER            -> "UNKNOWN"

mode_ok(a) == a.mode_disp = a.mode_req

\* The application's commands; 0x6060 is mapped.
apply_cmd(a, x) ==
  CASE x.op = "ENABLE" /\ a.shutdown -> a
    [] x.op = "ENABLE" /\ ~a.shutdown ->
         IF a.ext_err \/ a.ds \in {"FAULT", "FRA"} THEN [a EXCEPT !.target = "DISABLED"]
         ELSE [a EXCEPT !.target = "ENABLED", !.ds_wait = a.ds, !.step_age = 0, !.reached_oe = FALSE]
    [] x.op = "DISABLE"     -> [a EXCEPT !.target = "DISABLED"]
    [] x.op = "QUICKSTOP"   -> [a EXCEPT !.target = "QUICKSTOP"]
    [] x.op = "FAULT_RESET" -> [a EXCEPT !.target = "DISABLED", !.reset_pulse = IF a.ds = "FAULT" THEN 2 ELSE @]
    [] x.op = "SET_MODE"    -> IF x.mode = a.mode_req \/ x.mode \notin Modes THEN a
                               ELSE [a EXCEPT !.mode_req = x.mode, !.armed = FALSE]
    [] x.op = "PP_POINT"    -> IF a.running /\ a.mode_req = "PP" /\ Len(a.pp_q) < PpQueue
                               THEN [a EXCEPT !.pp_q = Append(@, [p |-> x.p, imm |-> x.imm])] ELSE a
    [] x.op = "HOME"        -> IF a.running /\ a.mode_req = "HM"
                               THEN [a EXCEPT !.hm_phase = "RUNNING", !.hm_age = 0, !.hm_seen_low = FALSE,
                                              !.homed = FALSE]
                               ELSE a

ecm_cia402_shutdown(a) == [a EXCEPT !.shutdown = TRUE, !.target = "DISABLED"]

\* Mutant of ecm_cia402_all_down: only Operation enabled counts as up.
Early_all_down(a, lost) == lost \/ a.ds # "OE"

ecm_cia402_all_down(a, lost) == lost \/ a.ds \notin {"RTSO", "SO", "OE", "QSA"}

-----------------------------------------------------------------------------
(* axis_rt in its stages.                                                  *)

\* 1. A bad frame keeps the last good inputs.
Inputs(a, in, valid) ==
  IF ~valid THEN a
  ELSE [a EXCEPT !.ds = ecm_cia402_decode(in.sw), !.oms = in.sw \cap {10, 12, 13}, !.apos = in.pos,
                 !.mode_disp = in.mode]

\* 2. Bus lost, drive fault, error found by the monitor.
Latches(a, lost) ==
  IF lost \/ a.ds \in {"FAULT", "FRA"} \/ a.ext_err THEN [a EXCEPT !.target = "DISABLED"] ELSE a

\* Mutant of DroppedLatch: the latch is missing.
Open_DroppedLatch(a, valid) ==
  IF valid /\ a.target = "ENABLED" /\ a.ds = "OE" THEN [a EXCEPT !.reached_oe = TRUE] ELSE a

\* S1: Operation enabled left without a command is not walked back up.
DroppedLatch(a, valid) ==
  CASE ~valid \/ a.target # "ENABLED" -> a
    [] valid /\ a.target = "ENABLED" /\ a.ds = "OE" -> [a EXCEPT !.reached_oe = TRUE]
    [] OTHER -> IF a.reached_oe THEN [a EXCEPT !.target = "DISABLED"] ELSE a

\* 4. One step of the state machine toward the target.
WalkUp(a) ==
  CASE a.ds = "SOD"  -> {1, 2}
    [] a.ds = "RTSO" -> {0, 1, 2}
    [] a.ds = "SO"   -> IF mode_ok(a) THEN {0, 1, 2, 3} ELSE {0, 1, 2}
    [] a.ds = "OE"   -> {0, 1, 2, 3}
    [] OTHER         -> {}

WalkDown(a) ==
  CASE a.ds = "OE" -> {0, 1, 2}
    [] a.ds = "SO" -> {1, 2}
    [] OTHER       -> {}

Controlword(a) ==
  LET stopped == a.target = "QUICKSTOP" /\ a.ds \notin {"OE", "QSA"}
      cw      == CASE a.target = "ENABLED" -> WalkUp(a)
                   [] a.target = "QUICKSTOP" -> IF stopped THEN {} ELSE {1}
                   [] a.target = "DISABLED" -> WalkDown(a)
  IN [a EXCEPT !.target = IF stopped THEN "DISABLED" ELSE @,
               !.cw = CASE a.reset_pulse = 2 -> {7} [] a.reset_pulse = 1 -> {} [] OTHER -> cw,
               !.reset_pulse = IF @ > 0 THEN @ - 1 ELSE 0]

\* 5. Timeout of a commanded transition.
StepTimer(a) ==
  LET waiting == a.target = "ENABLED" /\ a.ds # "OE"
      expired == waiting /\ a.ds = a.ds_wait /\ a.step_age > StepTimeout
  IN IF expired
     THEN [a EXCEPT !.target = "DISABLED", !.step_age = 0, !.cw = IF a.ds = "SO" THEN {1, 2} ELSE {}]
     ELSE [a EXCEPT !.step_age = IF waiting THEN IF a.ds = a.ds_wait THEN @ + 1 ELSE 1 ELSE 0, !.ds_wait = a.ds]

\* Mutant of Setpoint: the target is held where it was, not at the actual
\* position.
Stale_Setpoint(a, sp) ==
  LET run == a.target = "ENABLED" /\ a.ds = "OE" /\ mode_ok(a)
      got == run /\ a.mode_req = "CSP" /\ sp # None /\ sp - a.last_sent \in -StepLimit .. StepLimit
  IN [a EXCEPT !.running = run, !.armed = run /\ (@ \/ got), !.last_sent = IF got THEN sp ELSE @]

\* 6. CSP setpoint: held at the actual position until one arrives (S2), a step
\* above the limit is a quick stop (S4).
Setpoint(a, sp) ==
  LET run     == a.target = "ENABLED" /\ a.ds = "OE" /\ mode_ok(a)
      csp     == a.mode_req = "CSP"
      got     == run /\ csp /\ sp # None
      refused == got /\ (sp - a.last_sent > StepLimit \/ a.last_sent - sp > StepLimit)
      armed   == run /\ ~refused /\ (a.armed \/ got)
      b       == [a EXCEPT !.running = run,
                           !.armed = IF csp THEN armed ELSE @,
                           !.last_sent = IF ~csp THEN @ ELSE IF ~armed THEN a.apos ELSE IF got THEN sp ELSE @]
  IN IF refused THEN [b EXCEPT !.target = "QUICKSTOP", !.cw = {1}] ELSE b

\* 7. Profile modes.  Nothing in flight survives a stop.
ClearProfile(a) ==
  [a EXCEPT !.pp_q = <<>>, !.pp_phase = 0, !.pp_age = 0, !.pp_imm = FALSE,
            !.hm_phase = IF @ = "RUNNING" THEN "FAILED" ELSE @, !.hm_age = 0, !.hm_seen_low = FALSE]

\* Mutant of PpHandshake: a point stays queued until it is acknowledged, and is
\* offered again when the acknowledge has passed.
Again_PpHandshake(a) ==
  CASE a.pp_phase = 0 ->
         IF a.pp_q # <<>> /\ 12 \notin a.oms
         THEN [a EXCEPT !.pp_imm = Head(a.pp_q).imm, !.pp_phase = 1, !.pp_age = 1] ELSE a
    [] a.pp_phase = 1 ->
         IF 12 \in a.oms THEN [a EXCEPT !.pp_phase = 2, !.pp_age = 0, !.pp_imm = FALSE]
         ELSE [a EXCEPT !.pp_age = Age(@, StepTimeout)]
    [] a.pp_phase = 2 -> IF 12 \in a.oms THEN a ELSE [a EXCEPT !.pp_phase = 0]

\* The set-point handshake: bit 4 until acknowledged (bit 12), then low again.
PpHandshake(a) ==
  CASE a.pp_phase = 0 ->
         IF a.pp_q # <<>> /\ 12 \notin a.oms /\ (Head(a.pp_q).imm \/ 10 \in a.oms)
         THEN [a EXCEPT !.pp_q = Tail(@), !.pp_imm = Head(a.pp_q).imm, !.pp_phase = 1, !.pp_age = 1]
         ELSE a
    [] a.pp_phase = 1 ->
         CASE 12 \in a.oms /\ a.pp_age >= 2 -> [a EXCEPT !.pp_phase = 2, !.pp_age = 0, !.pp_imm = FALSE]
           [] ~(12 \in a.oms /\ a.pp_age >= 2) /\ a.pp_age > StepTimeout ->
                [a EXCEPT !.target = "DISABLED", !.pp_phase = 0, !.pp_age = 0, !.pp_imm = FALSE,
                          !.cw = {0, 1, 2}]
           [] OTHER -> [a EXCEPT !.pp_age = @ + 1]
    [] a.pp_phase = 2 -> IF 12 \in a.oms THEN a ELSE [a EXCEPT !.pp_phase = 0]

\* Mutant of Homing: bits 10 and 12 are believed at once.
Trusting_Homing(a) ==
  IF {10, 12} \subseteq a.oms THEN [a EXCEPT !.hm_phase = "DONE", !.hm_age = 0, !.homed = TRUE]
  ELSE [a EXCEPT !.hm_age = Age(@, HomeTimeout)]

\* Homing: attained (bits 10 and 12) counts once bit 12 was seen low after the
\* start, or after the settling time.
Homing(a) ==
  LET seen == a.hm_age >= 2
      low  == a.hm_seen_low \/ (seen /\ 12 \notin a.oms)
      ends(phase) == [a EXCEPT !.hm_phase = phase, !.hm_age = 0, !.hm_seen_low = FALSE,
                               !.homed = phase = "DONE"]
  IN CASE seen /\ 13 \in a.oms -> ends("FAILED")
       [] seen /\ 13 \notin a.oms /\ {10, 12} \subseteq a.oms /\ (low \/ a.hm_age >= HmSettle) -> ends("DONE")
       [] OTHER -> IF a.hm_age > HomeTimeout THEN ends("FAILED")
                   ELSE [a EXCEPT !.hm_age = @ + 1, !.hm_seen_low = low]

Profile(a, run) ==
  LET c == IF run THEN a ELSE ClearProfile(a)
      b == CASE a.mode_req = "PP" /\ run -> PpHandshake(c)
             [] a.mode_req = "HM" /\ run /\ c.hm_phase = "RUNNING" -> Homing(c)
             [] OTHER -> c
      start == run /\ b.cw = {0, 1, 2, 3}
               /\ \/ a.mode_req = "PP" /\ b.pp_phase = 1
                  \/ a.mode_req = "HM" /\ b.hm_phase = "RUNNING"
  IN [b EXCEPT !.cw = IF ~start THEN @ ELSE @ \cup {4} \cup IF a.mode_req = "PP" /\ b.pp_imm THEN {5} ELSE {}]

-----------------------------------------------------------------------------
\* The axis after the tick; without a bus nothing is sent (stage 6 and 7 are
\* not reached).
axis_rt(a, in, valid, lost, sp) ==
  LET w == StepTimer(Controlword(DroppedLatch(Latches(Inputs(a, in, valid), lost), valid)))
      s == Setpoint(w, sp)
  IN IF lost THEN [w EXCEPT !.cw = a.cw,
                            !.pp_age = IF a.pp_phase = 1 THEN Age(@, StepTimeout + 1) ELSE @,
                            !.hm_age = IF a.hm_phase = "RUNNING" THEN Age(@, HomeTimeout + 1) ELSE @]
     ELSE Profile(s, s.running /\ s.target = "ENABLED")

\* The target position sent with it: the CSP setpoint, or the PP point.
\* The drive ignores it otherwise.
TargetPosition(a, b, last) ==
  CASE b.mode_req = "CSP" -> b.last_sent
    [] b.mode_req = "PP" /\ b.pp_phase = 1 /\ b.pp_age = 1 -> Head(a.pp_q).p
    [] b.mode_req = "PP" /\ ~b.running -> b.apos
    [] OTHER -> last
=============================================================================
