---------------------------- MODULE Cia402Drive ----------------------------
(***************************************************************************)
(* The CiA402 drive of the simulated bus (esc_cia402.c), one axis: the     *)
(* device state machine, modes CSP, PP and homing, fault and quick stop    *)
(* reactions.  A word is the set of its bits.  What depends on time or on  *)
(* the motor (delayed transitions, the end of a move, of a quick stop or   *)
(* of a fault reaction, faults, hands on the shaft) is a choice c of each  *)
(* step; moves are abstracted to their end.  Velocity modes, relative      *)
(* points, halt and the calibration of a real drive are left out; the      *)
(* quick stop option is the default 2.                                     *)
(***************************************************************************)
EXTENDS Integers, Sequences

CONSTANT Position        \* positions of the motor, a set of integers; 0 is home

DriveState == {"NOT_READY", "SOD", "RTSO", "SO", "OE", "QSA", "FRA", "FAULT"}
Mode       == {"CSP", "PP", "HM"}

Drive == [ds : DriveState, mode : Mode \cup {"none"}, cw : SUBSET (0 .. 7), pos : Position,
          pp : Seq(Position), ack : BOOLEAN, hm : {"idle", "running", "done", "error"},
          oms : SUBSET {10, 12, 13}]

DriveInit == [ds |-> "NOT_READY", mode |-> "none", cw |-> {}, pos |-> 0, pp |-> <<>>,
              ack |-> FALSE, hm |-> "idle", oms |-> {}]

\* Statusword bits of a drive state.
esc_cia402_sw_state(ds) ==
  CASE ds = "NOT_READY" -> {}
    [] ds = "SOD"       -> {6}
    [] ds = "RTSO"      -> {0, 5}
    [] ds = "SO"        -> {0, 1, 5}
    [] ds = "OE"        -> {0, 1, 2, 5}
    [] ds = "QSA"       -> {0, 1, 2}
    [] ds = "FRA"       -> {0, 1, 2, 3}
    [] ds = "FAULT"     -> {3}

\* Commands of the controlword: the bits that are looked at, and their value.
DisableVoltage(cw) == cw \cap {1, 7} = {}
QuickStop(cw)      == cw \cap {1, 2, 7} = {1}
Shutdown(cw)       == cw \cap {0, 1, 2, 7} = {1, 2}
SwitchOn(cw)       == cw \cap {0, 1, 2, 3, 7} = {0, 1, 2}
EnableOp(cw)       == cw \cap {0, 1, 2, 3, 7} = {0, 1, 2, 3}

\* The commanded transition.
esc_cia402_next(ds, cw, prev) ==
  CASE ds = "FAULT" /\ 7 \in cw /\ 7 \notin prev                           -> "SOD"
    [] ds = "SOD" /\ Shutdown(cw)                                          -> "RTSO"
    [] ds \in {"RTSO", "SO"} /\ (DisableVoltage(cw) \/ QuickStop(cw))      -> "SOD"
    [] ds = "RTSO" /\ (SwitchOn(cw) \/ EnableOp(cw))                       -> "SO"
    [] ds \in {"SO", "OE"} /\ Shutdown(cw)                                 -> "RTSO"
    [] ds = "SO" /\ EnableOp(cw)                                           -> "OE"
    [] ds \in {"OE", "QSA"} /\ DisableVoltage(cw)                          -> "SOD"
    [] ds = "OE" /\ QuickStop(cw)                                          -> "QSA"
    [] ds = "OE" /\ SwitchOn(cw)                                           -> "SO"
    [] OTHER                                                               -> ds

-----------------------------------------------------------------------------
(* axis_step in its stages; d is the drive, o the outputs it was sent.     *)

\* Leaving Operation enabled ends every move.
set_ds(d, ds) ==
  [d EXCEPT !.ds = ds,
            !.pp = IF ds = "OE" THEN @ ELSE <<>>,
            !.ack = ds = "OE" /\ @,
            !.hm = IF ds # "OE" /\ @ = "running" THEN "idle" ELSE @]

raise_fault(d) ==
  IF d.ds \in {"FAULT", "FRA"} THEN d
  ELSE set_ds(d, IF d.ds \in {"OE", "QSA"} THEN "FRA" ELSE "FAULT")

\* Power-on, faults, the ESM outside OP, the quick stop input.
Events(d, op, c) ==
  LET p == IF d.ds = "NOT_READY" /\ ~c.slow THEN set_ds(d, "SOD") ELSE d
      f == IF c.ev = "fault" THEN raise_fault(p) ELSE p
      e == CASE ~op /\ f.ds \in {"OE", "QSA"}  -> raise_fault(f)
             [] ~op /\ f.ds \in {"RTSO", "SO"} -> set_ds(f, "SOD")
             [] OTHER                          -> f
  IN IF c.ev = "quickstop" /\ e.ds = "OE" THEN set_ds(e, "QSA") ELSE e

ChangeMode(d, m) ==
  IF m = d.mode THEN d ELSE [d EXCEPT !.mode = m, !.pp = <<>>, !.ack = FALSE, !.hm = "idle"]

\* A transition may be delayed or refused; stopping is neither, a fault reset
\* may be refused while the fault lasts.
Transition(d, cw, c) ==
  LET nx == esc_cia402_next(d.ds, cw, d.cw) IN
  IF nx = d.ds \/ d.ds \in {"NOT_READY", "FRA"} \/ (c.slow /\ ~(nx \in {"QSA", "SOD"} /\ d.ds # "FAULT"))
  THEN d ELSE set_ds(d, nx)

\* Rising bit 4: a new set-point, or the start of homing.
Edge4(d, cw) == 4 \in cw /\ 4 \notin d.cw

\* A set-point replaces the move, or waits behind it; the drive has one place.
Taken(d, cw) == d.mode = "PP" /\ d.ds = "OE" /\ Edge4(d, cw) /\ (5 \in cw \/ Len(d.pp) < 2)

MotionPP(d, o, c) ==
  LET list == IF ~Taken(d, o.cw) THEN d.pp
              ELSE IF 5 \in o.cw THEN <<o.tpos>> ELSE Append(d.pp, o.tpos)
      ack  == 4 \in o.cw /\ (d.ack \/ Taken(d, o.cw))
      end  == list # <<>> /\ c.done
      left == IF end THEN Tail(list) ELSE list
  IN [d EXCEPT !.pp = left, !.ack = ack, !.pos = IF end THEN Head(list) ELSE @,
               !.oms = (IF left = <<>> THEN {10} ELSE {}) \cup (IF ack THEN {12} ELSE {})]

MotionHM(d, o, c) ==
  LET begun == IF Edge4(d, o.cw) THEN c.home ELSE d.hm
      hm    == IF begun # "running" THEN begun
               ELSE IF 4 \notin o.cw THEN "idle" ELSE IF c.done THEN "done" ELSE "running"
  IN [d EXCEPT !.hm = hm, !.pos = IF hm = "done" /\ (d.hm # "done" \/ Edge4(d, o.cw)) THEN 0 ELSE @,
               !.oms = CASE hm = "done" -> {10, 12} [] hm = "error" -> {10, 13} [] OTHER -> {}]

motion(d, o, c) ==
  IF d.ds # "OE" THEN [d EXCEPT !.oms = {}, !.pos = IF c.hand \in Position THEN c.hand ELSE @]
  ELSE CASE d.mode = "CSP"  -> [d EXCEPT !.pos = o.tpos, !.oms = {12}]
         [] d.mode = "PP"   -> MotionPP(d, o, c)
         [] d.mode = "HM"   -> MotionHM(d, o, c)
         [] OTHER           -> [d EXCEPT !.oms = {}]

\* The motor has stopped: a fault reaction or a quick stop ends.
Stopped(d, c) ==
  CASE d.ds = "FRA" /\ c.done -> set_ds(d, "FAULT")
    [] d.ds = "QSA" /\ c.done -> set_ds(d, "SOD")
    [] OTHER                  -> d

\* The drive when the motion of a step begins: outputs are taken in OP only.
Commanded(d, o, op, c) ==
  LET e == Events(d, op, c) IN IF op THEN Transition(ChangeMode(e, o.mode), o.cw, c) ELSE e

\* One process data frame.
axis_step(d, o, op, c) ==
  [Stopped(motion(Commanded(d, o, op, c), o, c), c) EXCEPT !.cw = IF op THEN o.cw ELSE @]
=============================================================================
