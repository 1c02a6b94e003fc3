------------------------------- MODULE DcLock -------------------------------
(***************************************************************************)
(* The controller behind the master shift (ecm_dc.c): phase error, PI with *)
(* clamp and anti-windup, lock supervision on the mean of a window, against*)
(* a reference clock that drifts.  The gate in front of it is in RtReplies.*)
(* The phase itself is the state: ext_ns - sync0_ext_ns less the setpoint, *)
(* modulo the cycle.                                                       *)
(***************************************************************************)
EXTENDS Integers

CONSTANTS
  Cycle, KpDiv, KiDiv, MaxAdjust, LockWindow, Unlock, LockSamples,   \* ecm_dc_cfg_t
  Drifts,             \* drift of the host against the reference, per cycle
  Phases,             \* phases at an anchor
  Moments,            \* bound: places in the window where a disturbance falls
  MaxDisturb          \* bound: anchors and missed samples

VARIABLES
  dcl,     \* ecm_dc_t: state, integ, win_sum, win_n
  phase,   \* [err: where the next frame meets the reference, drift]
  disturbed   \* anchors and missed samples so far

dclVars == <<dcl, phase, disturbed>>

Abs(v) == IF v < 0 THEN -v ELSE v
Quot(a, b) == IF a < 0 THEN -(-a \div b) ELSE a \div b      \* C's division

\* Into (-cycle/2, cycle/2].
Wrapped(e) ==
  LET r == e % Cycle IN IF r > Cycle \div 2 THEN r - Cycle ELSE r

DclInit ==
  /\ dcl = [state |-> "UNANCHORED", integ |-> 0, win_sum |-> 0, win_n |-> 0]
  /\ phase = [err |-> 0, drift |-> 0] /\ disturbed = 0

Disturb == dcl.win_n \in Moments /\ disturbed < MaxDisturb /\ disturbed' = disturbed + 1

\* dc_anchor: at start-up and after every full recovery the lock starts over;
\* when its read fails after a recovery, the old state goes on from the new phase.
DclAnchor ==
  /\ Disturb
  /\ \E p \in Phases, d \in IF dcl.state = "UNANCHORED" THEN Drifts ELSE {phase.drift} :
       phase' = [err |-> Wrapped(p), drift |-> d]
  /\ \/ dcl' = [state |-> "ACQUIRE", integ |-> 0, win_sum |-> 0, win_n |-> 0]
     \/ dcl.state # "UNANCHORED" /\ UNCHANGED dcl

Moved(u) == [phase EXCEPT !.err = Wrapped(@ + u + phase.drift)]

\* A slip: the sign of the integral part.
Flipped_Control(st, integ, e) ==
  LET i == IF st = "LOCKED" THEN integ + e ELSE integ IN [u |-> Quot(i, KiDiv) - Quot(e, KpDiv), integ |-> i]

\* The PI step: adjustment and integrator.
Control(st, integ, e) ==
  LET i == IF st = "LOCKED" THEN integ + e ELSE integ
      u == -(Quot(e, KpDiv) + Quot(i, KiDiv))
  IN  IF Abs(u) > MaxAdjust
      THEN [u |-> IF u > 0 THEN MaxAdjust ELSE -MaxAdjust, integ |-> integ]
      ELSE [u |-> u, integ |-> i]

\* Lock supervision on the mean of a full window.
Supervised(st, sum, n) ==
  LET mean == Abs(Quot(sum, n))
  IN  IF st = "ACQUIRE" /\ mean < LockWindow THEN "LOCKED"
      ELSE IF st = "LOCKED" /\ mean > Unlock THEN "ACQUIRE" ELSE st

\* ecm_dc_update with a sample; the caller adds u to the next deadline.
DclUpdate ==
  /\ dcl.state # "UNANCHORED"
  /\ \E c \in {Control(dcl.state, dcl.integ, phase.err)} :
       /\ phase' = Moved(c.u)
       /\ dcl' = IF dcl.win_n + 1 >= LockSamples
                 THEN [state |-> Supervised(dcl.state, dcl.win_sum + phase.err, dcl.win_n + 1),
                       integ |-> c.integ, win_sum |-> 0, win_n |-> 0]
                 ELSE [dcl EXCEPT !.integ = c.integ, !.win_sum = @ + phase.err, !.win_n = @ + 1]
  /\ UNCHANGED disturbed

\* The datagram did not come back or the gate refused it: no adjustment.
DclMiss ==
  /\ dcl.state # "UNANCHORED" /\ Disturb
  /\ phase' = Moved(0) /\ UNCHANGED dcl

DclNext == DclAnchor \/ DclUpdate \/ DclMiss

\* The loop calls ecm_dc_update every cycle.
DclFairness == WF_dclVars(DclUpdate)

DclSpec == DclInit /\ [][DclNext]_dclVars /\ DclFairness

-----------------------------------------------------------------------------
\* ecm_dc_update: from each of the phases and with each of the drifts, after
\* missed samples and a new anchor, the loop ends LOCKED and stays there with
\* the error inside the lock window.
EndsLocked == <>[](dcl.state # "UNANCHORED" => dcl.state = "LOCKED" /\ Abs(phase.err) < LockWindow)
=============================================================================
