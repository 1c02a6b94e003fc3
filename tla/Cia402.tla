------------------------------- MODULE Cia402 -------------------------------
(***************************************************************************)
(* One axis end to end: the RT loop exchanges a process data frame with    *)
(* the drive, then calls the cyclic hook, in which the application's       *)
(* commands are applied and the next outputs are written into the IOmap.   *)
(* A frame may be lost before or after the drive, or come back with a bad  *)
(* working counter; after NLost silent ticks in a row the bus is lost, and *)
(* comes back after the drive has been out of OP.  The reply carries the   *)
(* inputs the drive wrote after the previous frame.                        *)
(***************************************************************************)
EXTENDS Integers, Sequences

CONSTANTS Position, Modes, StepLimit, StepTimeout, HomeTimeout, HmSettle, PpQueue,
          NLost,         \* silent ticks that make a lost bus
          Hands,         \* positions the motor may be moved to by hand
          Issued,        \* the commands the application issues
          MaxInputs      \* bound on commands, the stop and what goes wrong: bad frames, delays
                         \* and faults of the drive, moves by hand, slave drops, monitor errors

ASSUME LimitsAssumption == /\ Position \subseteq Int /\ 0 \in Position /\ Hands \subseteq Position
                           /\ StepLimit \in Nat \ {0} /\ StepTimeout >= 3 /\ HmSettle >= 2 /\ HomeTimeout > HmSettle
                           /\ PpQueue > 0 /\ NLost > 0 /\ Modes # {}

VARIABLES drv,           \* the drive
          op,            \* its slave is in OP
          ax,            \* the master's axis
          out,           \* outputs in the IOmap
          reply,         \* inputs of this tick's frame, NoReply if not valid
          lost,          \* bus_lost
          miss,          \* silent ticks in a row
          pc,            \* the RT loop: "top", "hook", "left"
          stop,          \* "no", "asked", "down", "timeout"
          inputs,        \* commands and faults so far
          was,           \* history: where the motor stood before the last exchange
          unsure,        \* history: good exchanges until the outputs rest on fresh inputs
          spoiled,       \* history: a bad frame since the drive was last enabled
          permit,        \* history: an ENABLE that is not used up
          due,           \* history: points accepted and not yet taken
          homing         \* history: "none", "asked", "begun"

history == <<was, unsure, spoiled, permit, due, homing>>
ciaVars == <<drv, op, ax, out, reply, lost, miss, pc, stop, inputs, history>>

D == INSTANCE Cia402Drive
A == INSTANCE Cia402Axis

ASSUME IssuedAssumption == Issued \subseteq A!Commands

NoReply == [sw |-> {}, pos |-> 0, mode |-> "invalid"]

Within(n, p, q) == p - q \in -(n * StepLimit) .. n * StepLimit

CiaInit ==
  /\ drv = D!DriveInit /\ op = TRUE
  /\ ax = A!AxisInit
  /\ out = [cw |-> {}, mode |-> "none", tpos |-> 0]
  /\ reply = NoReply /\ lost = FALSE /\ miss = 0 /\ pc = "top" /\ stop = "no"
  /\ inputs = 0
  /\ was = 0 /\ unsure = 0 /\ spoiled = FALSE /\ permit = FALSE /\ due = <<>> /\ homing = "none"

-----------------------------------------------------------------------------
(* The drive.                                                              *)

\* What the drive is free to do in a step: at most one disturbance, and the
\* motion under way ends or goes on.
Choice ==
  LET calm == [ev : {"none"}, slow : {FALSE}, hand : {-1},
               done : IF drv.ds \in {"SO", "OE", "QSA", "FRA"} THEN BOOLEAN ELSE {FALSE},
               home : IF drv.mode = "HM" /\ D!Edge4(drv, out.cw) THEN {"done", "running", "error"} ELSE {"running"}]
  IN calm \cup IF inputs = MaxInputs THEN {}
              ELSE UNION {{[c EXCEPT !.slow = TRUE], [c EXCEPT !.ev = "fault"], [c EXCEPT !.ev = "quickstop"]}
                          \cup {[c EXCEPT !.hand = p] : p \in Hands} : c \in calm}

Disturbed(c) == c.slow \/ c.ev # "none" \/ c.hand # -1

\* What comes after the first x of a sequence, all of it without an x.
After(seq, x) ==
  LET at == {i \in DOMAIN seq : seq[i] = x}
  IN IF at = {} THEN seq ELSE SubSeq(seq, (CHOOSE i \in at : \A j \in at : i <= j) + 1, Len(seq))

DriveStep(inOp, seen, c) ==
  LET e  == D!Commanded(drv, out, inOp, c)
      d  == D!axis_step(drv, out, inOp, c)
      stops    == drv.ds = "OE" /\ d.ds # "OE"
      profiled == d.ds = "OE" /\ d.mode # "CSP" /\ d.pos # drv.pos
  IN /\ drv' = d /\ was' = drv.pos
     /\ unsure' = IF ~seen \/ stops \/ profiled THEN 2 ELSE IF unsure > 0 THEN unsure - 1 ELSE 0
     /\ permit' = (permit /\ ~(drv.ds = "OE" /\ d.ds # "OE" /\ ax.reached_oe))
     /\ due' = IF inOp /\ D!Taken(e, out.cw) THEN After(due, out.tpos) ELSE due
     /\ homing' = IF inOp /\ e.ds = "OE" /\ e.mode = "HM" /\ D!Edge4(drv, out.cw) THEN "begun" ELSE homing

\* The slave leaves OP (watchdog, error), and the monitor brings it back.
SlaveDrops ==
  /\ op /\ inputs < MaxInputs
  /\ op' = FALSE /\ inputs' = inputs + 1
  /\ UNCHANGED <<drv, ax, out, reply, lost, miss, pc, stop, history>>

SlaveBack ==
  /\ ~op /\ ~lost /\ drv.ds \notin {"RTSO", "SO", "OE", "QSA"}
  /\ op' = TRUE
  /\ UNCHANGED <<drv, ax, out, reply, lost, miss, pc, stop, inputs, history>>

-----------------------------------------------------------------------------
(* The RT loop.                                                            *)

\* The top of the loop; once asked to stop, the axis is told and walked down.
Top == pc = "top" /\ stop \in {"no", "asked"}

AtTop(a) == IF stop = "asked" THEN A!ecm_cia402_shutdown(a) ELSE a

Cycles == Top /\ (stop = "no" \/ ~A!ecm_cia402_all_down(ax, lost))

\* A frame with its fate.
Exchange(f, c) ==
  LET seen   == f = "ok" /\ op
      silent == f \in {"lost_out", "lost_in"}
  IN /\ Cycles /\ ~lost
     /\ inputs' = inputs + (IF f = "ok" THEN 0 ELSE 1) + (IF Disturbed(c) THEN 1 ELSE 0)
     /\ inputs' <= MaxInputs
     /\ IF f = "lost_out"
        THEN UNCHANGED <<drv, permit, due, homing>> /\ unsure' = 2 /\ was' = drv.pos
        ELSE DriveStep(op, seen, c)
     /\ reply' = IF seen THEN [sw |-> D!esc_cia402_sw_state(drv.ds) \cup drv.oms, pos |-> drv.pos, mode |-> drv.mode]
                 ELSE NoReply
     /\ lost' = (silent /\ miss + 1 = NLost)
     /\ miss' = IF silent /\ ~lost' THEN miss + 1 ELSE 0
     /\ spoiled' = ((spoiled /\ (drv.ds = "OE" \/ drv'.ds # "OE")) \/ ~seen)
     /\ ax' = AtTop(ax) /\ pc' = "hook"
     /\ UNCHANGED <<op, out, stop>>

FrameOk      == \E c \in Choice : Exchange("ok", c)
FramePartial == \E c \in Choice : Exchange("partial", c)
ReplyLost    == \E c \in Choice : Exchange("lost_in", c)
FrameLost    == Exchange("lost_out", [ev |-> "none", slow |-> FALSE, hand |-> -1])

\* No process data without a bus.  Recovery takes the slave through SAFE-OP
\* before the bus is back.
LostTick ==
  /\ Cycles /\ lost
  /\ reply' = NoReply /\ ax' = AtTop(ax) /\ pc' = "hook"
  /\ UNCHANGED <<drv, op, out, lost, miss, stop, inputs, history>>

BusBack ==
  /\ Cycles /\ lost
  /\ \E c \in Choice : ~Disturbed(c) /\ DriveStep(FALSE, FALSE, c)
  /\ op' = TRUE /\ lost' = FALSE /\ spoiled' = TRUE
  /\ reply' = NoReply /\ ax' = AtTop(ax) /\ pc' = "hook"
  /\ UNCHANGED <<out, miss, stop, inputs>>

\* One command, before the axis is stepped in the same call.
AppCommand(x) ==
  /\ pc = "hook" /\ inputs < MaxInputs
  /\ ax' = A!apply_cmd(ax, x)
  /\ inputs' = inputs + 1
  /\ permit' = (permit \/ (x.op = "ENABLE" /\ ax'.target = "ENABLED"))
  /\ due' = IF ax'.pp_q # ax.pp_q THEN Append(due, x.p) ELSE due
  /\ homing' = IF ax.hm_phase # "RUNNING" /\ ax'.hm_phase = "RUNNING" THEN "asked" ELSE homing
  /\ UNCHANGED <<drv, op, out, reply, lost, miss, pc, stop, was, unsure, spoiled>>

Hook(sp) ==
  /\ pc = "hook"
  /\ ax' = A!axis_rt(ax, reply, reply # NoReply, lost, sp)
  /\ out' = IF lost THEN out
            ELSE [cw |-> ax'.cw, mode |-> ax'.mode_req, tpos |-> A!TargetPosition(ax, ax', out.tpos)]
  /\ due' = IF ~lost /\ ~(ax'.running /\ ax'.target = "ENABLED") THEN <<>> ELSE due
  /\ pc' = "top" /\ reply' = NoReply
  /\ UNCHANGED <<drv, op, lost, miss, stop, inputs, was, unsure, spoiled, permit, homing>>

\* SIGINT, SIGTERM or the end of --duration-sec.
Stop ==
  /\ stop = "no" /\ stop' = "asked"
  /\ inputs < MaxInputs /\ inputs' = inputs + 1
  /\ UNCHANGED <<drv, op, ax, out, reply, lost, miss, pc, history>>

\* The loop is left when every axis is down, or after max_ticks.
Leave ==
  /\ Top /\ stop = "asked" /\ pc' = "left"
  /\ stop' = IF A!ecm_cia402_all_down(ax, lost) THEN "down" ELSE "timeout"
  /\ ax' = AtTop(ax)
  /\ UNCHANGED <<drv, op, out, reply, lost, miss, inputs, history>>

\* The monitor reports a slave it gave up; ecm_run never takes it back.
set_ext_error ==
  /\ pc # "left" /\ ~ax.ext_err /\ inputs < MaxInputs
  /\ ax' = [ax EXCEPT !.ext_err = TRUE] /\ inputs' = inputs + 1
  /\ UNCHANGED <<drv, op, out, reply, lost, miss, pc, stop, history>>

CiaNext ==
  \/ FrameOk \/ FramePartial \/ ReplyLost \/ FrameLost \/ LostTick \/ BusBack
  \/ \E x \in Issued : AppCommand(x)
  \/ \E sp \in IF ax.mode_req = "CSP" THEN Position \cup {A!None} ELSE {A!None} : Hook(sp)
  \/ Stop \/ Leave \/ SlaveDrops \/ SlaveBack \/ set_ext_error

CiaSpec == CiaInit /\ [][CiaNext]_ciaVars

-----------------------------------------------------------------------------
\* Types of the axis and of the drive; queue lengths within their arrays.
CiaTypeOK ==
  /\ drv \in D!Drive /\ Len(drv.pp) <= 2
  /\ ax \in A!Axis /\ Len(ax.pp_q) <= PpQueue
  /\ miss < NLost

\* S1: a drive that left Operation enabled after the master had seen it there
\* is enabled again only under a later ENABLE of the application.
StaysDropped == [][drv.ds # "OE" /\ drv'.ds = "OE" => permit]_ciaVars

\* S2, S4: a drive that operates in CSP is sent at most one step limit from where
\* it stands or, while no setpoint has been taken since it was enabled, exactly back
\* to where it stood one exchange before, the actual position the master has: so
\* enabling, changes of mode, recovery, moves by hand and refused steps start no
\* jump.  Left out are the two exchanges after a bad frame, after the drive left
\* Operation enabled and after a move of a profile mode.
NoJump == [][drv'.ds = "OE" /\ drv'.mode = "CSP" /\ unsure = 0
               => Within(1, drv'.pos, drv.pos) \/ (~ax.armed /\ drv'.pos = was)]_ciaVars

\* The PP handshake: the drive takes only points that are due, so none twice and
\* none in the wrong order.  "No point is lost": while no frame of this enable was
\* bad, every point is either still queued, or being offered, or taken; an
\* acknowledge of an earlier point is never counted for a later one.
PointsInOrder ==
  /\ [][drv'.ds = "OE" /\ drv'.mode = "PP" /\ 4 \in drv'.cw /\ 4 \notin drv.cw /\ drv'.ack
          => out.tpos \in {due[i] : i \in DOMAIN due}]_ciaVars
  /\ [](~spoiled /\ ax.running /\ ax.target = "ENABLED" /\ ax.mode_req = "PP" /\ ax.pp_phase # 1 =>
          due = [i \in DOMAIN ax.pp_q |-> ax.pp_q[i].p])

\* "Bit 12 must reflect this start": an axis becomes homed only by a homing
\* the drive began after the HOME command.
HomedMeansHomed == [][ax'.homed /\ ~ax.homed => homing = "begun"]_ciaVars

\* The same while no frame of this enable was bad.
HomedOnGoodFrames == [][ax'.homed /\ ~ax.homed /\ ~spoiled => homing = "begun"]_ciaVars

\* S6: a loop left because every axis is down, on a live bus, leaves the
\* drive without power: not switched on, enabled or stopping.
DownBeforeLeavingOp == stop = "down" /\ ~lost => drv.ds \notin {"SO", "OE", "QSA"}
=============================================================================
