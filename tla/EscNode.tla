------------------------------ MODULE EscNode ------------------------------
(***************************************************************************)
(* One slave of the soft_bus simulator as a frame finds it: the EtherCAT   *)
(* state machine (esc_al_control_write), the process data watchdog         *)
(* (esc_wd_on_write, esc_wd_check), the delayed OP of a calibrated drive   *)
(* (esc_cia402_step_dt) and the faults of esc_fault.c that touch them.     *)
(*                                                                         *)
(* A frame is handled in one step of the program: the watchdogs are        *)
(* evaluated, the datagram takes effect if the frame reaches the node, and *)
(* the drive makes its cycle.  AL control is written at 0x0120, the one    *)
(* address that starts the state machine.                                  *)
(***************************************************************************)
EXTENDS Naturals

CONSTANTS
  WdTime,      \* watchdog time 0x0420, in ticks of 0x0400
  OpDelay,     \* op_delay_ms of the drive, in cycles; 0: OP at once
  RejectTo     \* the requests "reject_al" is asked to refuse


Esm       == {"INIT", "PREOP", "SAFEOP", "OP"}
AlCode    == {"NOERROR", "INVALIDALCONTROL", "NOVALIDOUTPUTS", "SYNCMANWATCHDOG", "PDSIZE", "INJECTED"}
NoReject  == [to |-> "none", sticky |-> FALSE]
Rejection == [to : RejectTo, sticky : BOOLEAN] \cup {NoReject}

ASSUME EscAssumption == WdTime \in Nat \ {0} /\ OpDelay \in Nat /\ RejectTo \subseteq Esm \cup {"any"}

VARIABLES
  node,   \* esc_t
  seen    \* history: outputs were written since SAFEOP was last entered

escVars == <<node, seen>>

EscNode == [on   : BOOLEAN,          \* ~powered_off
            al   : Esm,              \* AL status 0x0130, state
            code : AlCode,           \* AL status code 0x0134; the error bit when not NOERROR
            ctl  : Esm,              \* AL control 0x0120
            gvo  : BOOLEAN,          \* got_valid_outputs
            sm   : BOOLEAN,          \* SM2 active with watchdog trigger
            pd   : BOOLEAN,          \* SM sizes fit the assigned PDOs
            wdt  : {0, WdTime},      \* 0x0420
            run  : BOOLEAN,          \* wd.running
            age  : 0 .. WdTime + 1,  \* now_ns - last_trigger_ns
            ok   : BOOLEAN,          \* 0x0440 bit 0
            wait : 0 .. OpDelay,     \* op_since_ns of the drive
            dly  : BOOLEAN,          \* fault.op_delay_ms is set
            rej  : Rejection]        \* force_reject_al, reject_al_*

\* esc_init: the values after power on.  op_delay_ms comes with the drive at
\* start-up and is lost with the power until the drive's next cycle.
PowerOn ==
  [on |-> TRUE, al |-> "INIT", code |-> "NOERROR", ctl |-> "INIT", gvo |-> FALSE,
   sm |-> FALSE, pd |-> TRUE, wdt |-> WdTime, run |-> FALSE, age |-> 0, ok |-> FALSE,
   wait |-> 0, dly |-> FALSE, rej |-> NoReject]

EscInit == node = [PowerOn EXCEPT !.dly = OpDelay > 0] /\ seen = FALSE

-----------------------------------------------------------------------------
(* The watchdog.                                                           *)

\* A slip: the reaction leaves the outputs valid.
Keeping_WdCheck(n) ==
  LET m == IF n.run /\ n.age > n.wdt THEN [n EXCEPT !.run = FALSE, !.ok = FALSE] ELSE n
  IN IF n.wdt = 0 THEN [n EXCEPT !.ok = TRUE]
     ELSE IF m.al = "OP" /\ ~m.ok /\ m.sm
          THEN [m EXCEPT !.al = "SAFEOP", !.code = "SYNCMANWATCHDOG"] ELSE m

\* A slip: the reaction waits for a second check.
Slow_WdCheck(n) ==
  IF n.wdt = 0 THEN [n EXCEPT !.ok = TRUE]
  ELSE IF n.al = "OP" /\ ~n.ok /\ n.sm
  THEN [n EXCEPT !.al = "SAFEOP", !.code = "SYNCMANWATCHDOG", !.gvo = FALSE]
  ELSE IF n.run /\ n.age > n.wdt THEN [n EXCEPT !.run = FALSE, !.ok = FALSE] ELSE n

\* esc_wd_check, evaluated for every powered node when a frame arrives, whether
\* or not the frame reaches it; a watchdog time of 0 disables it.
WdCheck(n) ==
  LET m == IF n.run /\ n.age > n.wdt THEN [n EXCEPT !.run = FALSE, !.ok = FALSE] ELSE n
  IN IF n.wdt = 0 THEN [n EXCEPT !.ok = TRUE]
     ELSE IF m.al = "OP" /\ ~m.ok /\ m.sm
          THEN [m EXCEPT !.al = "SAFEOP", !.code = "SYNCMANWATCHDOG", !.gvo = FALSE]
          ELSE m

\* esc_wd_on_write: the last byte of the buffer was written.
WdOnWrite(n) == IF n.sm THEN [n EXCEPT !.age = 0, !.run = TRUE, !.ok = TRUE] ELSE n

-----------------------------------------------------------------------------
(* AL control.                                                             *)

ValidTransition(from, to) ==
  <<from, to>> \in {<<"INIT", "PREOP">>, <<"PREOP", "INIT">>, <<"PREOP", "SAFEOP">>,
                    <<"SAFEOP", "PREOP">>, <<"SAFEOP", "INIT">>, <<"SAFEOP", "OP">>,
                    <<"OP", "SAFEOP">>, <<"OP", "PREOP">>, <<"OP", "INIT">>}

\* The request is refused: the state stays, with an error.
Refuse(n, why) == [n EXCEPT !.code = why]

\* esc_al_control_write after the register was written.  The order of the
\* tests is the code's: a repeated state only acknowledges, an injected
\* rejection comes before the transition table, the sizes before the outputs.
AlControlWrite(n, to, ack) ==
  LET m == [n EXCEPT !.ctl = to] IN
  IF to = m.al
  THEN IF ack THEN [m EXCEPT !.code = "NOERROR"] ELSE m
  ELSE IF m.rej.to \in {"any", to}
  THEN Refuse([m EXCEPT !.rej = IF @.sticky THEN @ ELSE NoReject], "INJECTED")
  ELSE IF ~ValidTransition(m.al, to) THEN Refuse(m, "INVALIDALCONTROL")
  ELSE IF m.al = "PREOP" /\ to = "SAFEOP" /\ ~m.pd THEN Refuse(m, "PDSIZE")
  ELSE IF m.al = "SAFEOP" /\ to = "OP" /\ ~m.gvo THEN Refuse(m, "NOVALIDOUTPUTS")
  ELSE IF m.al = "SAFEOP" /\ to = "OP" /\ m.dly THEN m
  ELSE [m EXCEPT !.al = to, !.code = "NOERROR", !.gvo = IF to = "SAFEOP" THEN FALSE ELSE @]

-----------------------------------------------------------------------------
(* Datagrams.                                                              *)

\* What a datagram does to this node: an AL request; process data, which may
\* come through an output FMMU (then the outputs are valid) and may complete the
\* SM2 buffer (then the watchdog is triggered); register writes of the master's
\* configuration; or nothing that matters here.  A read-and-write FMMU under LRW
\* and a direct write to the buffer complete it without marking the outputs.
Datagrams ==
  [op : {"al"}, to : Esm, ack : BOOLEAN]
  \cup [op : {"pd"}, valid : BOOLEAN, complete : BOOLEAN]
  \cup [op : {"sm"}, sm : BOOLEAN, pd : BOOLEAN]
  \cup [op : {"wdtime"}, t : {0, WdTime}]
  \cup [op : {"other"}]

ApplyDatagram(n, d) ==
  CASE d.op = "al"     -> AlControlWrite(n, d.to, d.ack)
    [] d.op = "pd"     -> LET m == IF d.complete THEN WdOnWrite(n) ELSE n
                          IN IF d.valid THEN [m EXCEPT !.gvo = TRUE] ELSE m
    [] d.op = "sm"     -> [n EXCEPT !.sm = d.sm, !.pd = d.pd]
    [] d.op = "wdtime" -> [n EXCEPT !.wdt = d.t]
    [] OTHER           -> n

\* esc_cia402_step_dt, first part: OP is entered op_delay_ms after it was
\* accepted, as long as AL control still asks for it and no error came up.
DriveStep(n) ==
  LET m == [n EXCEPT !.dly = OpDelay > 0] IN
  IF m.dly /\ m.al = "SAFEOP" /\ m.ctl = "OP" /\ m.code = "NOERROR"
  THEN IF m.wait + 1 >= OpDelay THEN [m EXCEPT !.al = "OP", !.code = "NOERROR", !.wait = 0]
       ELSE [m EXCEPT !.wait = @ + 1]
  ELSE [m EXCEPT !.wait = 0]

\* One frame: esc_fault_frame_begin, process_frame, esc_cia402_step.  A frame
\* that is muted, or turns around before this node, does not reach it; then it
\* does not matter what is in it.
Frame(d, reached) ==
  /\ node.on /\ (reached \/ d.op = "other")
  /\ LET a == WdCheck(node)
         b == IF reached THEN ApplyDatagram(a, d) ELSE a
     IN /\ node' = IF reached /\ d.op = "pd" THEN DriveStep(b) ELSE b
        /\ seen' = IF reached /\ d.op = "pd" /\ d.valid THEN TRUE
                   ELSE IF node'.al = "SAFEOP" /\ node.al # "SAFEOP" THEN FALSE ELSE seen

\* Time passes; only "longer ago than the watchdog time" is told apart.
Elapse ==
  /\ node.on /\ node.run /\ node.age <= WdTime
  /\ node' = [node EXCEPT !.age = @ + 1]
  /\ UNCHANGED seen

-----------------------------------------------------------------------------
(* esc_fault_command.                                                      *)

\* safeop: an error out of the blue, in OP and SAFEOP with SAFEOP as state.
InjectSafeop ==
  /\ node.on
  /\ LET up == node.al \in {"OP", "SAFEOP"}
     IN node' = [node EXCEPT !.al = IF up THEN "SAFEOP" ELSE @, !.code = "INJECTED",
                             !.gvo = IF up THEN FALSE ELSE @]
  /\ seen' = (seen /\ node.al # "OP")

InjectReject ==
  /\ node.on
  /\ \E r \in Rejection \ {NoReject} : node' = [node EXCEPT !.rej = r]
  /\ UNCHANGED seen

ClearFaults == node' = [node EXCEPT !.rej = NoReject] /\ UNCHANGED seen

\* drop_node: nobody sees the registers until esc_init clears them.
DropNode == node.on /\ node' = [PowerOn EXCEPT !.on = FALSE, !.wait = node.wait] /\ seen' = FALSE

\* restore_node: node_power_on; op_since_ns of the drive is not reset.
RestoreNode == ~node.on /\ node' = [PowerOn EXCEPT !.wait = node.wait] /\ UNCHANGED seen

EscNext ==
  \/ \E d \in Datagrams, reached \in BOOLEAN : Frame(d, reached)
  \/ Elapse \/ InjectSafeop \/ InjectReject \/ ClearFaults \/ DropNode \/ RestoreNode

EscSpec == EscInit /\ [][EscNext]_escVars

-----------------------------------------------------------------------------
(* Properties.                                                             *)

\* esc_core.c:875 and the delayed OP of the drive: whatever order of outputs,
\* acknowledgements, requests, watchdog reactions, injected errors and power
\* cycles, a slave is in OP only if outputs reached it since it last entered
\* SAFEOP.
OpOnlyAfterOutputs == node.al = "OP" => seen

\* esc_wd_check: from the moment the buffer of a slave in OP was last completed
\* longer ago than its watchdog time, no frame leaves the slave in OP, whatever
\* the datagram does to it and whether or not it reaches it.
SilentOutputsEndOp ==
  [][node.al = "OP" /\ node.sm /\ node.wdt # 0 /\ node.run /\ node.age > node.wdt
       => \/ node'.al # "OP"
          \/ node' = [node EXCEPT !.rej = node'.rej]]_escVars
=============================================================================
