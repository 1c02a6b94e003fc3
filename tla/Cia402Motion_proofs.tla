------------------------ MODULE Cia402Motion_proofs ------------------------
(***************************************************************************)
(* NoJump of Cia402 for every step limit, every range of positions and any *)
(* number of inputs.  The invariant follows the position of the motor      *)
(* through the two exchanges it takes to come back to it: the target in    *)
(* the IOmap rests on inputs that are one exchange old when they are read  *)
(* and two when the target arrives, so a target taken from them is where   *)
(* the motor stood an exchange before (was).                               *)
(***************************************************************************)
EXTENDS Cia402, TLAPS

-----------------------------------------------------------------------------
(* The axis of the master, stage by stage.                                 *)

\* What the size of a step depends on.
Places == {"ds", "last_sent", "apos", "mode_disp", "mode_req", "pp_q", "pp_phase", "pp_age", "running", "armed"}
Point  == [p : Int, imm : BOOLEAN]

Held(a, b) ==
  /\ Places \subseteq DOMAIN b
  /\ b.ds = a.ds /\ b.last_sent = a.last_sent /\ b.apos = a.apos /\ b.mode_disp = a.mode_disp
  /\ b.mode_req = a.mode_req /\ b.pp_q = a.pp_q /\ b.pp_phase = a.pp_phase /\ b.pp_age = a.pp_age

\* Standing still composes.
LEMMA HeldOn == ASSUME NEW a, NEW b, NEW c, Held(a, b), Held(b, c) PROVE Held(a, c)
  BY Zenon DEF Held

\* Latches, commands and timers move nothing.
LEMMA HoldsStill ==
  ASSUME NEW a, Places \subseteq DOMAIN a, NEW x
  PROVE  /\ Held(a, A!Latches(a, x)) /\ Held(a, A!DroppedLatch(a, x))
         /\ Held(a, A!Controlword(a)) /\ Held(a, A!StepTimer(a))
  <1>1. Held(a, A!Latches(a, x))
    BY SMT DEF A!Latches, Held, Places
  <1>2. Held(a, A!DroppedLatch(a, x))
    BY SMT DEF A!DroppedLatch, Held, Places
  <1>3. Held(a, A!Controlword(a))
    BY SMT DEF A!Controlword, Held, Places
  <1>4. Held(a, A!StepTimer(a))
    BY SMT DEF A!StepTimer, Held, Places
  <1>5. QED BY <1>1, <1>2, <1>3, <1>4, Zenon

\* The drop-out latch moves nothing, for an axis in any state.
LEMMA DropHolds == ASSUME NEW a, Places \subseteq DOMAIN a, NEW x PROVE Held(a, A!DroppedLatch(a, x))
  BY HoldsStill, Zenon

\* What a tick reads.
Seen(a, in, b) ==
  /\ Places \subseteq DOMAIN b
  /\ b.ds = A!ecm_cia402_decode(in.sw) /\ b.apos = in.pos /\ b.mode_disp = in.mode
  /\ b.last_sent = a.last_sent /\ b.mode_req = a.mode_req /\ b.pp_q = a.pp_q /\ b.pp_phase = a.pp_phase
  /\ b.pp_age = a.pp_age

\* A valid frame replaces the drive state, the displayed mode and the actual
\* position; without one the axis keeps what it read last.
LEMMA ReadPlaces ==
  ASSUME NEW a, Places \subseteq DOMAIN a, NEW in
  PROVE  Seen(a, in, A!Inputs(a, in, TRUE)) /\ A!Inputs(a, in, FALSE) = a
  BY SMT DEF A!Inputs, Seen, Places

\* Where the setpoint stage of axis w leaves the target: unarmed at the actual
\* position, or within a step of the last target.
Aimed(w, s) ==
  /\ Places \subseteq DOMAIN s /\ s.ds = w.ds
  /\ s.mode_req = w.mode_req /\ s.apos = w.apos /\ s.pp_q = w.pp_q /\ s.pp_phase = w.pp_phase /\ s.pp_age = w.pp_age
  /\ s.mode_req # "CSP" => s.last_sent = w.last_sent
  /\ s.mode_req = "CSP" =>
       \/ ~s.armed /\ s.last_sent = w.apos
       \/ /\ w.ds = "OE" /\ w.mode_disp = "CSP"
          /\ s.last_sent \in Int /\ Within(1, s.last_sent, w.last_sent)

\* The setpoint stage of ecm_cia402_axis_rt aims as stated above.
LEMMA AimStage ==
  ASSUME NEW w, Places \subseteq DOMAIN w, w.last_sent \in Int, NEW sp \in Position \cup {A!None}
  PROVE  Aimed(w, A!Setpoint(w, sp))
  <1> DEFINE run     == w.target = "ENABLED" /\ w.ds = "OE" /\ A!mode_ok(w)
             csp     == w.mode_req = "CSP"
             got     == run /\ csp /\ sp # A!None
             refused == got /\ (sp - w.last_sent > StepLimit \/ w.last_sent - sp > StepLimit)
             armed   == run /\ ~refused /\ (w.armed \/ got)
             g       == IF csp THEN armed ELSE w.armed
             t       == IF ~csp THEN w.last_sent ELSE IF ~armed THEN w.apos ELSE IF got THEN sp ELSE w.last_sent
             b       == [w EXCEPT !.running = run, !.armed = g, !.last_sent = t]
             s       == A!Setpoint(w, sp)
  <1>1. s = IF refused THEN [b EXCEPT !.target = "QUICKSTOP", !.cw = {1}] ELSE b
    BY Zenon DEF A!Setpoint
  <1>2. sp \in Int /\ StepLimit \in Nat
    BY LimitsAssumption DEF A!None
  <1>3. csp => (~g /\ t = w.apos) \/ (w.ds = "OE" /\ w.mode_disp = "CSP" /\ t \in Int /\ Within(1, t, w.last_sent))
    <2>1. CASE csp /\ armed /\ got
      BY <1>2, <2>1 DEF A!mode_ok, Within
    <2>2. CASE csp /\ armed /\ ~got
      BY <1>2, <2>2 DEF A!mode_ok, Within
    <2>3. QED BY <2>1, <2>2, Zenon
  <1> HIDE DEF run, armed, t, g, refused
  <1>4. Places \subseteq DOMAIN b /\ b.ds = w.ds /\ b.mode_req = w.mode_req /\ b.apos = w.apos /\ b.pp_q = w.pp_q
        /\ b.pp_phase = w.pp_phase /\ b.pp_age = w.pp_age /\ b.last_sent = t /\ b.armed = g
    BY SMT DEF Places
  <1> HIDE DEF b
  <1>5. Places \subseteq DOMAIN s /\ s.ds = b.ds /\ s.mode_req = b.mode_req /\ s.apos = b.apos /\ s.pp_q = b.pp_q
        /\ s.pp_phase = b.pp_phase /\ s.pp_age = b.pp_age /\ s.last_sent = b.last_sent /\ s.armed = b.armed
    BY <1>1, <1>4, SMT DEF Places
  <1> HIDE DEF s
  <1>6. ~csp => t = w.last_sent
    BY Zenon DEF t
  <1>7. Aimed(w, s)
    BY <1>3, <1>4, <1>5, <1>6, Zenon DEF Aimed
  <1>8. QED BY <1>7, Zenon DEF s

\* Positions are numbers, and an offered point has an age.
AxisNum(a) ==
  /\ Places \subseteq DOMAIN a /\ a.last_sent \in Int /\ a.apos \in Int /\ a.mode_req \in D!Mode
  /\ a.pp_q \in Seq(Point) /\ a.pp_phase \in 0 .. 2 /\ a.pp_age \in Nat /\ (a.pp_phase = 1 => a.pp_age > 0)

\* The profile modes leave the target alone and offer queued points only.
Offered(a, b) ==
  /\ AxisNum(b) /\ b.ds = a.ds /\ b.last_sent = a.last_sent /\ b.apos = a.apos /\ b.mode_req = a.mode_req
  /\ b.armed = a.armed
  /\ b.pp_phase = 1 /\ b.pp_age = 1 /\ b.mode_req = "PP" => a.pp_q # <<>>

\* The profile stage offers as stated above.
LEMMA OfferStage ==
  ASSUME NEW a, AxisNum(a), NEW run
  PROVE  Offered(a, A!Profile(a, run))
  <1> DEFINE Like(b) == /\ AxisNum(b) /\ b.ds = a.ds /\ b.last_sent = a.last_sent /\ b.apos = a.apos /\ b.mode_req = a.mode_req
                        /\ b.armed = a.armed
             c == IF run THEN a ELSE A!ClearProfile(a)
             e == CASE a.mode_req = "PP" /\ run -> A!PpHandshake(c)
                    [] a.mode_req = "HM" /\ run /\ c.hm_phase = "RUNNING" -> A!Homing(c)
                    [] OTHER -> c
             b == A!Profile(a, run)
             start == run /\ e.cw = {0, 1, 2, 3}
                      /\ \/ a.mode_req = "PP" /\ e.pp_phase = 1
                         \/ a.mode_req = "HM" /\ e.hm_phase = "RUNNING"
             w == IF ~start THEN e.cw ELSE e.cw \cup {4} \cup IF a.mode_req = "PP" /\ e.pp_imm THEN {5} ELSE {}
  <1>1. Like(A!ClearProfile(a)) /\ A!ClearProfile(a).pp_phase = 0
    BY SMT DEF A!ClearProfile, AxisNum, Places
  <1>2. Like(A!PpHandshake(a)) /\ (A!PpHandshake(a).pp_phase = 1 /\ A!PpHandshake(a).pp_age = 1 => a.pp_q # <<>>)
    BY SMT DEF A!PpHandshake, AxisNum, Places, Point
  <1>3. Like(A!Homing(a))
    BY SMT DEF A!Homing, AxisNum, Places
  <1>4. Like(e) /\ (a.mode_req = "PP" /\ e.pp_phase = 1 /\ e.pp_age = 1 => a.pp_q # <<>>)
    BY <1>1, <1>2, <1>3
  <1>5. b = [e EXCEPT !.cw = w]
    BY Zenon DEF A!Profile
  <1> HIDE DEF e, b, c, w, start
  <1>6. /\ AxisNum(b) /\ b.ds = e.ds /\ b.last_sent = e.last_sent /\ b.apos = e.apos /\ b.mode_req = e.mode_req
        /\ b.pp_phase = e.pp_phase /\ b.pp_age = e.pp_age /\ b.armed = e.armed
    BY <1>4, <1>5, SMT DEF AxisNum, Places
  <1>7. Offered(a, b)
    BY <1>4, <1>6, Zenon DEF Offered
  <1>8. QED BY <1>7, Zenon DEF b

\* An axis that held still keeps its numbers.
LEMMA HeldNum == ASSUME NEW a, NEW b, AxisNum(a), Held(a, b) PROVE AxisNum(b)
  BY Zenon DEF Held, AxisNum

\* A tick on a live bus, after the inputs were read into i.
Sent(i, b) ==
  /\ AxisNum(b) /\ b.mode_req = i.mode_req
  /\ b.pp_phase = 1 /\ b.pp_age = 1 /\ b.mode_req = "PP" => i.pp_q # <<>>
  /\ b.mode_req # "CSP" => b.last_sent = i.last_sent
  /\ b.mode_req = "CSP" => \/ ~b.armed /\ b.last_sent = i.apos
                           \/ i.ds = "OE" /\ i.mode_disp = "CSP" /\ Within(1, b.last_sent, i.last_sent)

\* The six stages of ecm_cia402_axis_rt together.
LEMMA TickSends ==
  ASSUME NEW a, NEW in, NEW valid, NEW sp \in Position \cup {A!None}, AxisNum(A!Inputs(a, in, valid))
  PROVE  Sent(A!Inputs(a, in, valid), A!axis_rt(a, in, valid, FALSE, sp))
  <1> DEFINE i == A!Inputs(a, in, valid)
             l == A!Latches(i, FALSE)
             d == A!DroppedLatch(l, valid)
             k == A!Controlword(d)
             w == A!StepTimer(k)
             s == A!Setpoint(w, sp)
             b == A!Profile(s, s.running /\ s.target = "ENABLED")
  <1>1. A!axis_rt(a, in, valid, FALSE, sp) = b
    BY Zenon DEF A!axis_rt
  <1>2. AxisNum(i)
    BY Zenon
  <1> HIDE DEF i, l, d, k, w, s, b
  <1>3. Held(i, l)
    BY <1>2, HoldsStill, Zenon DEF l, AxisNum
  <1>4. Held(l, d)
    BY <1>3, DropHolds, Zenon DEF d, Held
  <1>5. Held(d, k)
    BY <1>4, HoldsStill, Zenon DEF k, Held
  <1>6. Held(k, w)
    BY <1>5, HoldsStill, ZenonT(40) DEF w, Held
  <1>7. Held(i, w)
    BY <1>3, <1>4, <1>5, <1>6, HeldOn, Zenon
  <1>8. AxisNum(w)
    BY <1>2, <1>7, HeldNum, Zenon
  <1>9. Aimed(w, s)
    BY <1>8, AimStage, Zenon DEF s, AxisNum
  <1>10. AxisNum(s)
    BY <1>8, <1>9, Zenon DEF AxisNum, Aimed
  <1>11. Offered(s, b)
    BY <1>10, OfferStage, Zenon DEF b
  <1>12. Sent(i, b)
    BY <1>7, <1>9, <1>11, Zenon DEF Sent, Held, Aimed, Offered
  <1>13. QED BY <1>1, <1>12, Zenon DEF i

\* A tick without a bus sends nothing.
LEMMA LostTickHolds ==
  ASSUME NEW a, AxisNum(a), NEW in, NEW sp
  PROVE  AxisNum(A!axis_rt(a, in, FALSE, TRUE, sp))
  <1> DEFINE i == A!Inputs(a, in, FALSE)
             l == A!Latches(i, TRUE)
             d == A!DroppedLatch(l, FALSE)
             k == A!Controlword(d)
             w == A!StepTimer(k)
             pa == IF a.pp_phase = 1 THEN A!Age(w.pp_age, StepTimeout + 1) ELSE w.pp_age
             ha == IF a.hm_phase = "RUNNING" THEN A!Age(w.hm_age, HomeTimeout + 1) ELSE w.hm_age
             b == [w EXCEPT !.cw = a.cw, !.pp_age = pa, !.hm_age = ha]
  <1>1. A!axis_rt(a, in, FALSE, TRUE, sp) = b
    BY Zenon DEF A!axis_rt
  <1>2. i = a
    BY ReadPlaces, Zenon DEF AxisNum
  <1> HIDE DEF i, l, d, k, w
  <1>3. Held(i, l)
    BY <1>2, HoldsStill, Zenon DEF l, AxisNum
  <1>4. Held(l, d)
    BY <1>3, DropHolds, Zenon DEF d, Held
  <1>5. Held(d, k)
    BY <1>4, HoldsStill, ZenonT(40) DEF k, Held
  <1>6. Held(k, w)
    BY <1>5, HoldsStill, Zenon DEF w, Held
  <1>7. Held(a, w)
    BY <1>2, <1>3, <1>4, <1>5, <1>6, HeldOn, Zenon
  <1>8. AxisNum(w) /\ w.pp_phase = a.pp_phase
    BY <1>7, HeldNum, Zenon DEF Held
  <1>9. pa \in Nat /\ (w.pp_phase = 1 => pa > 0)
    <2>1. w.pp_age \in Nat /\ (w.pp_phase = 1 => w.pp_age > 0)
      BY <1>8, Zenon DEF AxisNum
    <2>2. QED BY <1>8, <2>1 DEF A!Age
  <1> HIDE DEF pa, ha
  <1>10. AxisNum(b)
    BY <1>8, <1>9, SMT DEF AxisNum, Places
  <1>11. QED BY <1>1, <1>10, Zenon

\* The target position of a tick is a number.
LEMMA TargetNum ==
  ASSUME NEW a, AxisNum(a), NEW b, AxisNum(b), NEW last \in Int,
         b.pp_phase = 1 /\ b.pp_age = 1 /\ b.mode_req = "PP" => a.pp_q # <<>>
  PROVE  A!TargetPosition(a, b, last) \in Int /\ (b.mode_req = "CSP" => A!TargetPosition(a, b, last) = b.last_sent)
  <1> DEFINE q == a.pp_q
  <1>0. q \in Seq(Point)
    BY Zenon DEF AxisNum
  <1>1. q # <<>> => Head(q).p \in Int
    <2> HIDE DEF q
    <2>1. q # <<>> => Head(q) \in Point
      BY <1>0
    <2>2. QED BY <2>1, Zenon DEF Point
  <1>2. b.last_sent \in Int /\ b.apos \in Int
    BY Zenon DEF AxisNum
  <1>3. QED BY <1>1, <1>2, Zenon DEF A!TargetPosition

-----------------------------------------------------------------------------
(* The drive, stage by stage.                                              *)

Motor == {"ds", "mode", "pos", "pp", "oms"}

\* The drive's positions are numbers, and its state is one it can report.
DriveNum(d) ==
  /\ Motor \subseteq DOMAIN d /\ d.pos \in Int /\ d.pp \in Seq(Int) /\ d.mode \in D!Mode \cup {"none"}
  /\ d.ds \in D!DriveState /\ d.oms \in SUBSET {10, 12, 13}

\* A stage of the drive that moves nothing.
Stands(d, e) == DriveNum(e) /\ e.pos = d.pos /\ e.mode = d.mode

\* Changing the drive's state moves no motor.
LEMMA SetDsStands ==
  ASSUME NEW d, DriveNum(d), NEW ds \in D!DriveState
  PROVE  Stands(d, D!set_ds(d, ds)) /\ D!set_ds(d, ds).ds = ds
  <1> DEFINE q == IF ds = "OE" THEN d.pp ELSE <<>>
             k == ds = "OE" /\ d.ack
             h == IF ds # "OE" /\ d.hm = "running" THEN "idle" ELSE d.hm
             e == [d EXCEPT !.ds = ds, !.pp = q, !.ack = k, !.hm = h]
  <1>1. D!set_ds(d, ds) = e
    BY Zenon DEF D!set_ds
  <1>2. q \in Seq(Int)
    BY DEF DriveNum
  <1> HIDE DEF q, k, h
  <1>3. Stands(d, e) /\ e.ds = ds
    BY <1>2, SMT DEF Stands, DriveNum, Motor
  <1> HIDE DEF e
  <1>4. QED BY <1>1, <1>3, Zenon

\* A fault moves no motor and ends operation.
LEMMA FaultStands ==
  ASSUME NEW d, DriveNum(d)
  PROVE  Stands(d, D!raise_fault(d)) /\ D!raise_fault(d).ds # "OE"
  <1>1. CASE d.ds \in {"FAULT", "FRA"}
    BY <1>1, Zenon DEF D!raise_fault, Stands
  <1>2. CASE d.ds \notin {"FAULT", "FRA"}
    <2> DEFINE x == IF d.ds \in {"OE", "QSA"} THEN "FRA" ELSE "FAULT"
    <2>1. D!raise_fault(d) = D!set_ds(d, x) /\ x # "OE" /\ x \in D!DriveState
      BY <1>2, Zenon DEF D!raise_fault, D!DriveState
    <2> HIDE DEF x
    <2>2. QED BY <2>1, SetDsStands, Zenon
  <1>3. QED BY <1>1, <1>2, Zenon

\* No event moves the motor, and outside OP the drive does not operate.
Rested(d, inOp, e) == Stands(d, e) /\ (e.ds = "OE" => inOp)

\* The drive's own events move no motor.
LEMMA EventsStand ==
  ASSUME NEW d, DriveNum(d), NEW inOp, NEW c
  PROVE  Rested(d, inOp, D!Events(d, inOp, c))
  <1> DEFINE p == IF d.ds = "NOT_READY" /\ ~c.slow THEN D!set_ds(d, "SOD") ELSE d
             f == IF c.ev = "fault" THEN D!raise_fault(p) ELSE p
             e == CASE ~inOp /\ f.ds \in {"OE", "QSA"}  -> D!raise_fault(f)
                    [] ~inOp /\ f.ds \in {"RTSO", "SO"} -> D!set_ds(f, "SOD")
                    [] OTHER                            -> f
             g == IF c.ev = "quickstop" /\ e.ds = "OE" THEN D!set_ds(e, "QSA") ELSE e
  <1>0. D!Events(d, inOp, c) = g
    BY Zenon DEF D!Events
  <1> HIDE DEF p, f, e, g
  <1>1. Stands(d, p)
    BY SetDsStands, ZenonT(40) DEF p, Stands, D!DriveState
  <1>2. Stands(d, f)
    BY <1>1, FaultStands, Zenon DEF f, Stands
  <1>3. Stands(d, e) /\ (e.ds = "OE" => inOp)
    <2>1. CASE ~inOp /\ f.ds \in {"OE", "QSA"}
      BY <1>2, <2>1, FaultStands, Zenon DEF e, Stands
    <2>2. CASE ~inOp /\ f.ds \in {"RTSO", "SO"}
      BY <1>2, <2>2, SetDsStands DEF e, Stands, D!DriveState
    <2>3. CASE ~(~inOp /\ f.ds \in {"OE", "QSA"}) /\ ~(~inOp /\ f.ds \in {"RTSO", "SO"})
      BY <1>2, <2>3, Zenon DEF e
    <2>4. QED BY <2>1, <2>2, <2>3, Zenon
  <1>4. Stands(d, g) /\ (g.ds = "OE" => inOp)
    BY <1>3, SetDsStands DEF g, Stands, D!DriveState
  <1>5. QED BY <1>0, <1>4, Zenon DEF Rested

\* A motion takes the motor to the target of CSP, or somewhere.
Goes(d, o, m) == DriveNum(m) /\ m.ds = d.ds /\ m.mode = d.mode /\ (d.ds = "OE" /\ d.mode = "CSP" => m.pos = o.tpos)

\* The drive's interpolation goes where the mode lets it go.
LEMMA MotionGoes ==
  ASSUME NEW d, DriveNum(d), NEW o, o.tpos \in Int, NEW c
  PROVE  Goes(d, o, D!motion(d, o, c))
  <1>2. CASE d.ds # "OE"
    <2> DEFINE q == IF c.hand \in Position THEN c.hand ELSE d.pos
    <2>1. D!motion(d, o, c) = [d EXCEPT !.oms = {}, !.pos = q]
      BY <1>2, Zenon DEF D!motion
    <2>2. q \in Int
      BY LimitsAssumption, Zenon DEF DriveNum
    <2> HIDE DEF q
    <2> DEFINE m == [d EXCEPT !.oms = {}, !.pos = q]
    <2>3. DriveNum(m) /\ m.ds = d.ds /\ m.mode = d.mode
      BY <2>2, SMT DEF DriveNum, Motor
    <2> HIDE DEF m
    <2>4. QED BY <1>2, <2>1, <2>3, Zenon DEF Goes, m
  <1>3. CASE d.ds = "OE" /\ d.mode = "CSP"
    <2>1. D!motion(d, o, c) = [d EXCEPT !.pos = o.tpos, !.oms = {12}]
      BY <1>3, Zenon DEF D!motion
    <2>2. LET m == [d EXCEPT !.pos = o.tpos, !.oms = {12}] IN
          DriveNum(m) /\ m.ds = d.ds /\ m.mode = d.mode /\ m.pos = o.tpos
      BY SMT DEF DriveNum, Motor
    <2>3. QED BY <2>1, <2>2, Zenon DEF Goes
  <1>4. CASE d.ds = "OE" /\ d.mode = "PP"
    <2> DEFINE list == IF ~D!Taken(d, o.cw) THEN d.pp ELSE IF 5 \in o.cw THEN <<o.tpos>> ELSE Append(d.pp, o.tpos)
               ack  == 4 \in o.cw /\ (d.ack \/ D!Taken(d, o.cw))
               end  == list # <<>> /\ c.done
               left == IF end THEN Tail(list) ELSE list
               q    == IF end THEN Head(list) ELSE d.pos
               x    == (IF left = <<>> THEN {10} ELSE {}) \cup (IF ack THEN {12} ELSE {})
               m    == [d EXCEPT !.pp = left, !.ack = ack, !.pos = q, !.oms = x]
    <2>1. D!motion(d, o, c) = m
      BY <1>4, Zenon DEF D!motion, D!MotionPP
    <2>2. list \in Seq(Int)
      <3>1. d.pp \in Seq(Int) /\ o.tpos \in Int
        BY Zenon DEF DriveNum
      <3>2. QED BY <3>1
    <2>0. x \in SUBSET {10, 12, 13}
      BY Zenon
    <2> HIDE DEF list, ack, x
    <2>3. left \in Seq(Int) /\ q \in Int
      BY <2>2 DEF DriveNum
    <2> HIDE DEF left, q
    <2>4. DriveNum(m) /\ m.ds = d.ds /\ m.mode = d.mode
      BY <2>0, <2>3, SMT DEF DriveNum, Motor
    <2> HIDE DEF m
    <2>5. QED BY <1>4, <2>1, <2>4, Zenon DEF Goes
  <1>5. CASE d.ds = "OE" /\ d.mode = "HM"
    <2>1. D!motion(d, o, c) = D!MotionHM(d, o, c)
      BY <1>5, Zenon DEF D!motion
    <2>2. LET m == D!MotionHM(d, o, c) IN DriveNum(m) /\ m.ds = d.ds /\ m.mode = d.mode
      BY SMT DEF D!MotionHM, DriveNum, Motor
    <2>3. QED BY <1>5, <2>1, <2>2, Zenon DEF Goes
  <1>6. CASE d.ds = "OE" /\ d.mode \notin {"CSP", "PP", "HM"}
    <2>1. D!motion(d, o, c) = [d EXCEPT !.oms = {}]
      BY <1>6, Zenon DEF D!motion
    <2>2. LET m == [d EXCEPT !.oms = {}] IN DriveNum(m) /\ m.ds = d.ds /\ m.mode = d.mode
      BY SMT DEF DriveNum, Motor
    <2>3. QED BY <1>6, <2>1, <2>2, Zenon DEF Goes
  <1>7. QED BY <1>2, <1>3, <1>4, <1>5, <1>6, Zenon

\* A command leads to a state of the drive.
LEMMA NextState ==
  ASSUME NEW ds \in D!DriveState, NEW cw, NEW prev
  PROVE  D!esc_cia402_next(ds, cw, prev) \in D!DriveState
  BY SMT DEF D!esc_cia402_next, D!DriveState

\* A drive the master takes for operating was operating when it replied.
LEMMA OperatingIsExact ==
  ASSUME NEW d, DriveNum(d), A!ecm_cia402_decode(D!esc_cia402_sw_state(d.ds) \cup d.oms) = "OE"
  PROVE  d.ds = "OE"
  <1> DEFINE sw == D!esc_cia402_sw_state(d.ds) \cup d.oms
  <1>1. sw \cap {0, 1, 2, 3, 5, 6} = D!esc_cia402_sw_state(d.ds) \cap {0, 1, 2, 3, 5, 6}
    BY DEF DriveNum
  <1> HIDE DEF sw
  <1>2. sw \cap {0, 1, 2, 3, 5, 6} = {0, 1, 2, 5}
    BY Zenon DEF A!ecm_cia402_decode, sw
  <1>3. 5 \in D!esc_cia402_sw_state(d.ds) /\ 2 \in D!esc_cia402_sw_state(d.ds)
    BY <1>1, <1>2, Zenon
  <1>4. QED BY <1>3 DEF DriveNum, D!DriveState, D!esc_cia402_sw_state

\* One frame: an operating drive took it in OP, and in CSP went where it was sent.
Arrives(o, inOp, r) ==
  /\ DriveNum(r) /\ (inOp => r.mode = o.mode)
  /\ r.ds = "OE" => inOp /\ (r.mode = "CSP" => r.pos = o.tpos)

\* A whole step of the drive: in CSP it stands on the target or where it stood.
LEMMA DriveArrives ==
  ASSUME NEW d, DriveNum(d), NEW o, o.tpos \in Int, o.mode \in D!Mode \cup {"none"}, NEW inOp, NEW c
  PROVE  Arrives(o, inOp, D!axis_step(d, o, inOp, c))
  <1> DEFINE e == D!Events(d, inOp, c)
             h == D!ChangeMode(e, o.mode)
             k == D!Commanded(d, o, inOp, c)
             m == D!motion(k, o, c)
             q == D!Stopped(m, c)
             x == IF inOp THEN o.cw ELSE q.cw
             r == D!axis_step(d, o, inOp, c)
  <1>0. k = (IF inOp THEN D!Transition(h, o.cw, c) ELSE e) /\ r = [q EXCEPT !.cw = x]
    BY Zenon DEF D!Commanded, D!axis_step
  <1> HIDE DEF e, h, k, m, q, r, x
  <1>1. DriveNum(e) /\ (e.ds = "OE" => inOp)
    <2>1. Rested(d, inOp, e)
      BY EventsStand, Zenon DEF e
    <2>2. QED BY <2>1, Zenon DEF Rested, Stands
  <1>2. DriveNum(h) /\ h.mode = o.mode
    <2>1. CASE o.mode = e.mode
      BY <1>1, <2>1, Zenon DEF h, D!ChangeMode
    <2>2. CASE o.mode # e.mode
      <3>1. h = [e EXCEPT !.mode = o.mode, !.pp = <<>>, !.ack = FALSE, !.hm = "idle"]
        BY <2>2, Zenon DEF h, D!ChangeMode
      <3>2. QED BY <1>1, <3>1, SMT DEF DriveNum, Motor
    <2>3. QED BY <2>1, <2>2, Zenon
  <1>3. Stands(h, D!Transition(h, o.cw, c))
    <2> DEFINE nx == D!esc_cia402_next(h.ds, o.cw, h.cw)
    <2>1. nx \in D!DriveState
      <3>1. h.ds \in D!DriveState
        BY <1>2, Zenon DEF DriveNum
      <3>2. QED BY <3>1, NextState, Zenon
    <2>2. D!Transition(h, o.cw, c) \in {h, D!set_ds(h, nx)}
      BY Zenon DEF D!Transition
    <2> HIDE DEF nx
    <2>3. QED BY <1>2, <2>1, <2>2, SetDsStands DEF Stands
  <1>4. DriveNum(k) /\ (inOp => k.mode = o.mode) /\ (k.ds = "OE" => inOp)
    BY <1>0, <1>1, <1>2, <1>3, Zenon DEF Stands
  <1>5. Goes(k, o, m)
    BY <1>4, MotionGoes, Zenon DEF m
  <1>6. Stands(m, q) /\ (q.ds = "OE" => m.ds = "OE")
    <2>1. CASE m.ds = "FRA" /\ c.done
      BY <1>5, <2>1, SetDsStands, Zenon DEF q, D!Stopped, Goes, D!DriveState
    <2>2. CASE m.ds = "QSA" /\ c.done
      BY <1>5, <2>2, SetDsStands, Zenon DEF q, D!Stopped, Goes, D!DriveState
    <2>3. CASE ~(m.ds = "FRA" /\ c.done) /\ ~(m.ds = "QSA" /\ c.done)
      BY <1>5, <2>3, Zenon DEF q, D!Stopped, Goes, Stands
    <2>4. QED BY <2>1, <2>2, <2>3, Zenon
  <1>7. DriveNum(r) /\ r.ds = q.ds /\ r.mode = q.mode /\ r.pos = q.pos
    BY <1>0, <1>6, SMT DEF DriveNum, Motor, Stands
  <1>8. Arrives(o, inOp, r)
    BY <1>4, <1>5, <1>6, <1>7, Zenon DEF Arrives, Goes, Stands
  <1>9. QED BY <1>8, Zenon DEF r

-----------------------------------------------------------------------------
\* At the top of the loop the target sent next is near the motor, or where it
\* stood an exchange before; where the mode in the IOmap was changed, the last CSP
\* target is where the motor is.
TopNear ==
  /\ ~lost /\ out.mode = "CSP" => out.tpos = ax.last_sent
  /\ unsure = 0 /\ out.mode = "CSP" => Within(1, out.tpos, drv.pos) \/ (~ax.armed /\ out.tpos = was)
  /\ unsure # 2 /\ drv.ds = "OE" /\ drv.mode = "CSP" /\ out.mode # "CSP" => drv.pos = ax.last_sent

\* In the hook the inputs are one exchange old; a motor seen operating in CSP
\* stands at the last target.
HookNear ==
  /\ unsure # 2 => reply # NoReply /\ reply.pos = was
  /\ unsure = 0 /\ A!ecm_cia402_decode(reply.sw) = "OE" /\ reply.mode = "CSP" => drv.pos = ax.last_sent
  /\ unsure # 2 /\ drv.ds = "OE" /\ drv.mode = "CSP" => drv.pos = ax.last_sent

JumpInv ==
  /\ AxisNum(ax) /\ DriveNum(drv) /\ out.tpos \in Int /\ out.mode \in D!Mode \cup {"none"} /\ reply.pos \in Int
  /\ unsure \in {0, 1, 2} /\ lost \in BOOLEAN /\ (lost => unsure = 2 /\ reply = NoReply)
  /\ pc = "top" => TopNear
  /\ pc = "hook" => HookNear

Jump == drv'.ds = "OE" /\ drv'.mode = "CSP" /\ unsure = 0
          => Within(1, drv'.pos, drv.pos) \/ (~ax.armed /\ drv'.pos = was)

\* Where nothing moves.
LEMMA StandsNear ==
  ASSUME NEW p \in Int
  PROVE  Within(1, p, p)
  BY LimitsAssumption DEF Within

\* What the history says of an exchange.
Judged(seen) ==
  /\ unsure' \in {0, 1, 2}
  /\ unsure' # 2 => seen /\ ~(drv.ds = "OE" /\ drv'.ds # "OE")
                    /\ (drv'.ds = "OE" /\ drv'.mode # "CSP" => drv'.pos = drv.pos)
  /\ unsure' = 0 => unsure # 2
  /\ was' = drv.pos

\* The history variable doubts what it should after a drive step.
LEMMA StepIsJudged ==
  ASSUME unsure \in {0, 1, 2}, NEW inOp, NEW seen, NEW c, DriveStep(inOp, seen, c)
  PROVE  Judged(seen)
  <1> DEFINE bad == ~seen \/ (drv.ds = "OE" /\ drv'.ds # "OE") \/ (drv'.ds = "OE" /\ drv'.mode # "CSP" /\ drv'.pos # drv.pos)
  <1>1. unsure' = (IF bad THEN 2 ELSE IF unsure > 0 THEN unsure - 1 ELSE 0) /\ was' = drv.pos
    BY Zenon DEF DriveStep
  <1> HIDE DEF bad
  <1>2. unsure' \in {0, 1, 2} /\ (unsure' # 2 => ~bad) /\ (unsure' = 0 => unsure # 2)
    BY <1>1
  <1>3. QED BY <1>1, <1>2, Zenon DEF Judged, bad

\* An exchange that reaches the drive.
LEMMA DriveStepNear ==
  ASSUME JumpInv, pc = "top", ~lost, NEW f, NEW c, DriveStep(op, f = "ok" /\ op, c),
         ax'.last_sent = ax.last_sent,
         f = "ok" /\ op => reply' = [sw |-> D!esc_cia402_sw_state(drv.ds) \cup drv.oms, pos |-> drv.pos, mode |-> drv.mode]
  PROVE  HookNear' /\ Jump /\ DriveNum(drv') /\ unsure' \in {0, 1, 2} /\ (~(f = "ok" /\ op) => unsure' = 2)
  <1> DEFINE seen == f = "ok" /\ op
  <1>1. drv' = D!axis_step(drv, out, op, c)
    BY Zenon DEF DriveStep
  <1>2. Arrives(out, op, drv')
    BY <1>1, DriveArrives, Zenon DEF JumpInv
  <1>3. Judged(seen)
    BY StepIsJudged, Zenon DEF JumpInv
  <1>4. TopNear /\ drv.pos \in Int /\ drv'.pos \in Int /\ drv.mode # "invalid"
    <2>1. drv.mode # "invalid"
      BY Zenon DEF JumpInv, DriveNum, D!Mode
    <2>2. QED BY <1>2, <2>1, Zenon DEF JumpInv, DriveNum, Arrives
  <1>5. Jump
    <2>1. ASSUME drv'.ds = "OE", drv'.mode = "CSP", unsure = 0
          PROVE  Within(1, drv'.pos, drv.pos) \/ (~ax.armed /\ drv'.pos = was)
      BY <1>2, <1>4, <2>1, Zenon DEF Arrives, TopNear
    <2>2. QED BY <2>1, Zenon DEF Jump
  <1>7. unsure' # 2 /\ drv'.ds = "OE" /\ drv'.mode = "CSP" => drv'.pos = ax.last_sent
    BY <1>2, <1>4, Zenon DEF Arrives, TopNear
  <1>8. unsure' = 0 /\ drv.ds = "OE" /\ drv.mode = "CSP" => drv'.pos = ax.last_sent
    <2>1. ASSUME unsure' = 0, drv.ds = "OE", drv.mode = "CSP" PROVE drv'.pos = ax.last_sent
      <3>1. op /\ unsure # 2 /\ drv'.ds = "OE" /\ (drv'.mode # "CSP" => drv'.pos = drv.pos)
        BY <1>3, <2>1 DEF Judged
      <3>2. CASE out.mode = "CSP"
        BY <1>2, <1>4, <3>1, <3>2, Zenon DEF Arrives, TopNear
      <3>3. CASE out.mode # "CSP"
        BY <1>2, <1>4, <2>1, <3>1, <3>3, Zenon DEF Arrives, TopNear
      <3>4. QED BY <3>2, <3>3, Zenon
    <2>2. QED BY <2>1, Zenon
  <1>9. unsure' # 2 => reply' # NoReply /\ reply'.pos = drv.pos /\ reply'.mode = drv.mode
                       /\ (A!ecm_cia402_decode(reply'.sw) = "OE" => drv.ds = "OE")
    <2>1. SUFFICES ASSUME unsure' # 2
                   PROVE  reply' # NoReply /\ reply'.pos = drv.pos /\ reply'.mode = drv.mode
                          /\ (A!ecm_cia402_decode(reply'.sw) = "OE" => drv.ds = "OE")
      BY Zenon
    <2>2. seen
      BY <1>3, <2>1, Zenon DEF Judged
    <2>3. reply'.sw = D!esc_cia402_sw_state(drv.ds) \cup drv.oms /\ reply'.pos = drv.pos /\ reply'.mode = drv.mode
      BY <2>2
    <2>4. NoReply.mode = "invalid"
      BY Zenon DEF NoReply
    <2>5. QED BY <1>4, <2>3, <2>4, OperatingIsExact, Zenon DEF JumpInv
  <1>10. HookNear'
    <2>1. unsure' = 0 => unsure' # 2
      OBVIOUS
    <2>2. was' = drv.pos
      BY <1>3, Zenon DEF Judged
    <2>3. QED BY <1>7, <1>8, <1>9, <2>1, <2>2, Zenon DEF HookNear
  <1>11. QED BY <1>2, <1>3, <1>5, <1>10, Zenon DEF Judged, Arrives

\* Asking for shutdown at the top of the loop moves nothing.
LEMMA TopHolds == ASSUME NEW a, Places \subseteq DOMAIN a PROVE Held(a, AtTop(a))
  BY SMT DEF AtTop, A!ecm_cia402_shutdown, Held, Places

\* Nor does it arm or disarm the axis.
LEMMA TopKeepsArmed == ASSUME NEW a, Places \subseteq DOMAIN a PROVE AtTop(a).armed = a.armed
  BY SMT DEF AtTop, A!ecm_cia402_shutdown, Places

\* A process-data exchange, with any fate of the frame, keeps the invariant and
\* takes no jump.
LEMMA ExchangeJump ==
  ASSUME JumpInv, NEW f \in {"ok", "partial", "lost_in", "lost_out"}, NEW c, Exchange(f, c)
  PROVE  JumpInv' /\ Jump
  <1> DEFINE seen == f = "ok" /\ op
  <1>1. pc = "top" /\ ~lost /\ pc' = "hook" /\ ax' = AtTop(ax) /\ out' = out
    BY Zenon DEF Exchange, Cycles, Top
  <1>2. reply' = IF seen THEN [sw |-> D!esc_cia402_sw_state(drv.ds) \cup drv.oms, pos |-> drv.pos, mode |-> drv.mode] ELSE NoReply
    BY Zenon DEF Exchange
  <1>3. AxisNum(ax') /\ ax'.last_sent = ax.last_sent
    <2>1. Held(ax, ax')
      BY <1>1, TopHolds, Zenon DEF JumpInv, AxisNum
    <2>2. QED BY <2>1, HeldNum, Zenon DEF JumpInv, Held
  <1>4. reply'.pos \in Int
    BY <1>2 DEF JumpInv, DriveNum, NoReply
  <1>5. lost' \in BOOLEAN /\ (lost' => ~seen)
    BY Zenon DEF Exchange
  <1>6. HookNear' /\ Jump /\ DriveNum(drv') /\ unsure' \in {0, 1, 2} /\ (~seen => unsure' = 2)
    <2>1. CASE f = "lost_out"
      <3>1. drv' = drv /\ unsure' = 2
        BY <2>1, Zenon DEF Exchange
      <3>2. drv.pos \in Int /\ DriveNum(drv)
        BY Zenon DEF JumpInv, DriveNum
      <3>3. Within(1, drv'.pos, drv.pos)
        BY <3>1, <3>2, StandsNear, Zenon
      <3>4. QED BY <3>1, <3>2, <3>3 DEF HookNear, Jump
    <2>2. CASE f # "lost_out"
      <3>1. DriveStep(op, f = "ok" /\ op, c)
        BY <2>2, Zenon DEF Exchange
      <3>2. QED BY <1>1, <1>2, <1>3, <3>1, DriveStepNear, Zenon
    <2>3. QED BY <2>1, <2>2, Zenon
  <1>7. JumpInv'
    <2>1. pc' # "top"
      BY <1>1, Zenon
    <2>2. QED BY <1>1, <1>2, <1>3, <1>4, <1>5, <1>6, <2>1, Zenon DEF JumpInv
  <1>8. QED BY <1>6, <1>7, Zenon

\* A step that leaves the axis and the drive in doubt.
LEMMA DoubtJump ==
  ASSUME JumpInv, AxisNum(ax'), DriveNum(drv'), lost' \in BOOLEAN, out' = out, reply' = NoReply, pc' = "hook", unsure' = 2
  PROVE  JumpInv'
  <1>1. NoReply.pos \in Int
    BY DEF NoReply
  <1>2. pc' # "top" /\ unsure' # 0 /\ unsure' \in {0, 1, 2}
    OBVIOUS
  <1>3. QED BY <1>1, <1>2, Zenon DEF JumpInv, HookNear

\* A tick without the bus keeps the invariant and takes no jump.
LEMMA LostTickJump ==
  ASSUME JumpInv, LostTick
  PROVE  JumpInv' /\ Jump
  <1>1. lost /\ pc' = "hook" /\ ax' = AtTop(ax) /\ reply' = NoReply /\ UNCHANGED <<out, drv, unsure>>
        /\ lost' \in BOOLEAN
    BY Zenon DEF LostTick, Cycles, Top, history, JumpInv
  <1>2. unsure' = 2 /\ unsure # 0
    BY <1>1 DEF JumpInv
  <1>3. AxisNum(ax')
    <2>1. Held(ax, ax')
      BY <1>1, TopHolds, Zenon DEF JumpInv, AxisNum
    <2>2. QED BY <2>1, HeldNum, Zenon DEF JumpInv
  <1>4. DriveNum(drv')
    BY <1>1, Zenon DEF JumpInv
  <1>5. QED BY <1>1, <1>2, <1>3, <1>4, DoubtJump, Zenon DEF Jump

\* Coming back after a loss keeps the invariant and takes no jump.
LEMMA BusBackJump ==
  ASSUME JumpInv, BusBack
  PROVE  JumpInv' /\ Jump
  <1>1. lost /\ pc' = "hook" /\ ax' = AtTop(ax) /\ reply' = NoReply /\ out' = out /\ lost' \in BOOLEAN
    BY Zenon DEF BusBack, Cycles, Top
  <1>2. PICK c \in Choice : DriveStep(FALSE, FALSE, c)
    BY Zenon DEF BusBack
  <1>3. Judged(FALSE)
    BY <1>2, StepIsJudged, Zenon DEF JumpInv
  <1>4. unsure' = 2 /\ unsure # 0
    BY <1>1, <1>3, Zenon DEF JumpInv, Judged
  <1>5. AxisNum(ax')
    <2>1. Held(ax, ax')
      BY <1>1, TopHolds, Zenon DEF JumpInv, AxisNum
    <2>2. QED BY <2>1, HeldNum, Zenon DEF JumpInv
  <1>6. drv' = D!axis_step(drv, out, FALSE, c)
    BY <1>2, Zenon DEF DriveStep
  <1>7. Arrives(out, FALSE, drv')
    BY <1>6, DriveArrives, Zenon DEF JumpInv
  <1>8. DriveNum(drv')
    BY <1>7, Zenon DEF Arrives
  <1>9. QED BY <1>1, <1>4, <1>5, <1>8, DoubtJump, Zenon DEF Jump

\* The axis hook, with any setpoint of the application, keeps the invariant.
LEMMA HookJump ==
  ASSUME JumpInv, NEW sp \in Position \cup {A!None}, Hook(sp)
  PROVE  JumpInv' /\ Jump
  <1>1. pc = "hook" /\ pc' = "top" /\ reply' = NoReply /\ UNCHANGED <<drv, lost, was, unsure>>
    BY Zenon DEF Hook
  <1>2. Jump
    <2>1. drv.pos \in Int
      BY Zenon DEF JumpInv, DriveNum
    <2>2. QED BY <1>1, <2>1, StandsNear, Zenon DEF Jump
  <1>3. reply'.pos \in Int
    BY <1>1 DEF NoReply
  <1>4. ax' = A!axis_rt(ax, reply, reply # NoReply, lost, sp)
    BY Zenon DEF Hook
  <1>5. CASE lost
    <2>1. out' = out /\ reply = NoReply /\ unsure = 2
      BY <1>5, Zenon DEF Hook, JumpInv
    <2>2. ax' = A!axis_rt(ax, reply, FALSE, TRUE, sp)
      BY <1>4, <1>5, <2>1, Zenon
    <2>3. AxisNum(ax')
      BY <2>2, LostTickHolds, Zenon DEF JumpInv
    <2>4. unsure' # 0
      BY <1>1, <2>1
    <2>5. TopNear'
      BY <1>1, <1>5, <2>1, <2>4, Zenon DEF TopNear
    <2>6. pc' # "hook"
      BY <1>1, Zenon
    <2>7. JumpInv'
      BY <1>1, <1>3, <2>1, <2>3, <2>5, <2>6, ZenonT(40) DEF JumpInv
    <2>8. QED BY <1>2, <2>7, Zenon
  <1>6. CASE ~lost
    <2> DEFINE valid == reply # NoReply
               i == A!Inputs(ax, reply, valid)
    <2>1. lost = FALSE /\ HookNear /\ AxisNum(ax)
      BY <1>1, <1>6, Zenon DEF JumpInv
    <2>2. AxisNum(i) /\ i.last_sent = ax.last_sent /\ i.mode_req = ax.mode_req /\ i.pp_q = ax.pp_q
          /\ (valid => i.ds = A!ecm_cia402_decode(reply.sw) /\ i.apos = reply.pos /\ i.mode_disp = reply.mode)
      <3>1. CASE valid
        <4>1. i = A!Inputs(ax, reply, TRUE)
          BY <3>1, Zenon
        <4>2. Seen(ax, reply, i)
          BY <2>1, <4>1, ReadPlaces, Zenon DEF AxisNum
        <4>3. QED BY <2>1, <4>2, Zenon DEF Seen, AxisNum, JumpInv
      <3>2. CASE ~valid
        <4>1. i = A!Inputs(ax, reply, FALSE)
          BY <3>2, Zenon
        <4>2. i = ax
          BY <2>1, <4>1, ReadPlaces, Zenon DEF AxisNum
        <4>3. QED BY <2>1, <3>2, <4>2, Zenon
      <3>3. QED BY <3>1, <3>2, Zenon
    <2>3. Sent(i, ax')
      <3>1. ax' = A!axis_rt(ax, reply, valid, FALSE, sp)
        BY <1>4, <2>1, Zenon
      <3>2. QED BY <2>2, <3>1, TickSends, Zenon
    <2>4. out'.mode = ax'.mode_req /\ out'.tpos = A!TargetPosition(ax, ax', out.tpos)
      BY <1>6, Zenon DEF Hook
    <2> HIDE DEF i
    <2>5. out'.tpos \in Int /\ (out'.mode = "CSP" => out'.tpos = ax'.last_sent)
      <3>1. AxisNum(ax') /\ (ax'.pp_phase = 1 /\ ax'.pp_age = 1 /\ ax'.mode_req = "PP" => ax.pp_q # <<>>)
        BY <2>2, <2>3, Zenon DEF Sent
      <3>2. out.tpos \in Int
        BY Zenon DEF JumpInv
      <3>3. /\ A!TargetPosition(ax, ax', out.tpos) \in Int
            /\ ax'.mode_req = "CSP" => A!TargetPosition(ax, ax', out.tpos) = ax'.last_sent
        BY <2>1, <3>1, <3>2, TargetNum, Zenon
      <3>4. QED BY <2>4, <3>3, Zenon
    <2>6. unsure = 0 /\ ax'.mode_req = "CSP" => Within(1, ax'.last_sent, drv.pos) \/ (~ax'.armed /\ ax'.last_sent = was)
      <3>1. ASSUME unsure = 0, ax'.mode_req = "CSP", ~(~ax'.armed /\ ax'.last_sent = was)
            PROVE  Within(1, ax'.last_sent, drv.pos)
        <4>1. valid /\ reply.pos = was
          BY <2>1, <3>1 DEF HookNear
        <4>2. A!ecm_cia402_decode(reply.sw) = "OE" /\ reply.mode = "CSP" /\ Within(1, ax'.last_sent, ax.last_sent)
          BY <2>2, <2>3, <3>1, <4>1, Zenon DEF Sent
        <4>3. drv.pos = ax.last_sent
          BY <2>1, <3>1, <4>2, Zenon DEF HookNear
        <4>4. QED BY <4>2, <4>3, Zenon
      <3>2. QED BY <3>1, Zenon
    <2>7. unsure # 2 /\ drv.ds = "OE" /\ drv.mode = "CSP" /\ ax'.mode_req # "CSP" => drv.pos = ax'.last_sent
      BY <2>1, <2>2, <2>3, Zenon DEF Sent, HookNear
    <2>8. TopNear'
      BY <1>1, <2>4, <2>5, <2>6, <2>7, Zenon DEF TopNear
    <2>9. AxisNum(ax') /\ out'.mode \in D!Mode \cup {"none"}
      BY <2>3, <2>4, Zenon DEF Sent, AxisNum
    <2>10. pc' # "hook"
      BY <1>1
    <2>11. JumpInv'
      BY <1>1, <1>3, <2>5, <2>8, <2>9, <2>10, Zenon DEF JumpInv
    <2>12. QED BY <1>2, <2>11, Zenon
  <1>7. QED BY <1>5, <1>6, Zenon

\* The application's commands move nothing, whatever they ask for.
LEMMA CommandHolds ==
  ASSUME NEW a, AxisNum(a), NEW x \in Issued
  PROVE  AxisNum(A!apply_cmd(a, x)) /\ A!apply_cmd(a, x).last_sent = a.last_sent
  <1> DEFINE Good(b) == AxisNum(b) /\ b.last_sent = a.last_sent
  <1>0. x.op \in {"ENABLE", "DISABLE", "QUICKSTOP", "FAULT_RESET", "HOME", "SET_MODE", "PP_POINT"}
    BY IssuedAssumption, Zenon DEF A!Commands
  <1>1. CASE x.op \in {"ENABLE", "DISABLE", "QUICKSTOP", "FAULT_RESET"}
    <2>1. ASSUME NEW t, NEW n
          PROVE  Good([a EXCEPT !.target = t]) /\ Good([a EXCEPT !.target = t, !.reset_pulse = n])
      BY SMT DEF AxisNum, Places
    <2> HIDE DEF Good
    <2>2. CASE x.op = "ENABLE"
      <3> DEFINE e == [a EXCEPT !.target = "DISABLED"]
                 g == [a EXCEPT !.target = "ENABLED", !.ds_wait = a.ds, !.step_age = 0, !.reached_oe = FALSE]
      <3>1. A!apply_cmd(a, x) \in {a, e, g}
        BY <2>2, Zenon DEF A!apply_cmd
      <3>2. Good(a) /\ Good(e) /\ Good(g)
        BY SMT DEF Good, AxisNum, Places
      <3> HIDE DEF e, g
      <3>3. Good(A!apply_cmd(a, x))
        BY <3>1, <3>2, Zenon
      <3>4. QED BY <3>3, Zenon DEF Good
    <2>3. CASE x.op \in {"DISABLE", "QUICKSTOP"}
      BY <2>1, <2>3, Zenon DEF A!apply_cmd, Good
    <2>4. CASE x.op = "FAULT_RESET"
      <3> DEFINE n == IF a.ds = "FAULT" THEN 2 ELSE a.reset_pulse
      <3>1. A!apply_cmd(a, x) = [a EXCEPT !.target = "DISABLED", !.reset_pulse = n]
        BY <2>4, Zenon DEF A!apply_cmd
      <3>2. Good([a EXCEPT !.target = "DISABLED", !.reset_pulse = n])
        BY <2>1, Zenon
      <3> HIDE DEF n
      <3>3. Good(A!apply_cmd(a, x))
        BY <3>1, <3>2, Zenon
      <3>4. QED BY <3>3, Zenon DEF Good
    <2>5. QED BY <1>1, <2>2, <2>3, <2>4, Zenon
  <1>2. CASE x.op = "HOME"
    BY <1>2, SMT DEF A!apply_cmd, AxisNum, Places
  <1>3. CASE x.op = "SET_MODE"
    <2>1. x.mode \in D!Mode
      BY <1>3, IssuedAssumption, Zenon DEF A!Commands, D!Mode
    <2>2. QED BY <1>3, <2>1, SMT DEF A!apply_cmd, AxisNum, Places
  <1>4. CASE x.op = "PP_POINT"
    <2>1. x.p \in Int /\ x.imm \in BOOLEAN
      BY <1>4, IssuedAssumption, LimitsAssumption, Zenon DEF A!Commands
    <2> DEFINE q == Append(a.pp_q, [p |-> x.p, imm |-> x.imm])
    <2>2. q \in Seq(Point)
      <3>1. [p |-> x.p, imm |-> x.imm] \in Point
        BY <2>1, Zenon DEF Point
      <3>2. a.pp_q \in Seq(Point)
        BY Zenon DEF AxisNum
      <3>3. QED BY <3>1, <3>2
    <2>3. A!apply_cmd(a, x) \in {a, [a EXCEPT !.pp_q = q]}
      BY <1>4, Zenon DEF A!apply_cmd
    <2> HIDE DEF q
    <2>4. Good([a EXCEPT !.pp_q = q])
      BY <2>2, SMT DEF AxisNum, Places
    <2>5. QED BY <2>3, <2>4, Zenon
  <1>5. QED BY <1>0, <1>1, <1>2, <1>3, <1>4, Zenon

\* Nothing the inner invariant relates changes.
LEMMA OthersJump ==
  ASSUME JumpInv, UNCHANGED <<drv, out, reply, lost, was, unsure>>, pc' \in {pc, "left"},
         AxisNum(ax'), ax'.last_sent = ax.last_sent, pc = "top" => ax'.armed = ax.armed
  PROVE  JumpInv' /\ Jump
  <1>1. drv.pos \in Int
    BY Zenon DEF JumpInv, DriveNum
  <1>2. Jump
    BY <1>1, StandsNear, Zenon DEF Jump
  <1>3. DriveNum(drv') /\ (pc = "top" /\ TopNear => TopNear') /\ (HookNear => HookNear')
    BY Zenon DEF JumpInv, TopNear, HookNear
  <1>4. (pc' = "top" => pc = "top") /\ (pc' = "hook" => pc = "hook")
    BY Zenon
  <1>5. QED BY <1>2, <1>3, <1>4, Zenon DEF JumpInv

\* Every step of the loop, the application and the drive keeps the invariant and
\* takes no jump.
LEMMA JumpStep ==
  ASSUME JumpInv, [CiaNext]_ciaVars
  PROVE  JumpInv' /\ Jump
  <1>0. AxisNum(ax) /\ Places \subseteq DOMAIN ax
    BY Zenon DEF JumpInv, AxisNum
  <1>1. CASE FrameOk \/ FramePartial \/ ReplyLost \/ FrameLost
    BY <1>1, ExchangeJump, Zenon DEF FrameOk, FramePartial, ReplyLost, FrameLost
  <1>2. CASE LostTick \/ BusBack
    BY <1>2, LostTickJump, BusBackJump, Zenon
  <1>3. CASE \E x \in Issued : AppCommand(x)
    <2>1. PICK x \in Issued : AppCommand(x)
      BY <1>3, Zenon
    <2>2. UNCHANGED <<drv, out, reply, lost, pc, was, unsure>> /\ ax' = A!apply_cmd(ax, x) /\ pc # "top"
      BY <2>1, Zenon DEF AppCommand
    <2>3. AxisNum(ax') /\ ax'.last_sent = ax.last_sent
      BY <1>0, <2>2, CommandHolds, Zenon
    <2>4. QED BY <2>2, <2>3, OthersJump, Zenon
  <1>4. CASE \E sp \in IF ax.mode_req = "CSP" THEN Position \cup {A!None} ELSE {A!None} : Hook(sp)
    BY <1>4, HookJump, Zenon
  <1>5. CASE Leave
    <2>1. UNCHANGED <<drv, out, reply, lost, was, unsure>> /\ pc' = "left" /\ ax' = AtTop(ax)
      BY <1>5, Zenon DEF Leave, history
    <2>2. Held(ax, ax')
      BY <1>0, <2>1, TopHolds, Zenon
    <2>3. AxisNum(ax') /\ ax'.last_sent = ax.last_sent /\ ax'.armed = ax.armed
      BY <1>0, <2>1, <2>2, HeldNum, TopKeepsArmed, Zenon DEF Held
    <2>4. QED BY <2>1, <2>3, OthersJump, Zenon
  <1>6. CASE Stop \/ SlaveDrops \/ SlaveBack \/ UNCHANGED ciaVars
    <2>1. UNCHANGED <<drv, ax, out, reply, lost, pc, was, unsure>>
      BY <1>6, Zenon DEF Stop, SlaveDrops, SlaveBack, ciaVars, history
    <2>2. QED BY <1>0, <2>1, OthersJump, Zenon
  <1>7. CASE set_ext_error
    <2>1. UNCHANGED <<drv, out, reply, lost, pc, was, unsure>> /\ ax' = [ax EXCEPT !.ext_err = TRUE]
      BY <1>7, Zenon DEF set_ext_error, history
    <2>2. AxisNum(ax') /\ ax'.last_sent = ax.last_sent /\ ax'.armed = ax.armed
      BY <1>0, <2>1, SMT DEF AxisNum, Places
    <2>3. QED BY <2>1, <2>2, OthersJump, Zenon
  <1>8. QED BY <1>1, <1>2, <1>3, <1>4, <1>5, <1>6, <1>7, ZenonT(40) DEF CiaNext

\* The invariant holds at the start.
LEMMA JumpInitInv == CiaInit => JumpInv
  <1>1. SUFFICES ASSUME CiaInit PROVE JumpInv
    BY Zenon
  <1>2. AxisNum(ax)
    BY <1>1, SMT DEF CiaInit, A!AxisInit, AxisNum, Places, A!FirstMode, D!Mode
  <1>3. DriveNum(drv) /\ drv.pos = 0 /\ drv.ds = "NOT_READY"
    BY <1>1, SMT DEF CiaInit, D!DriveInit, DriveNum, Motor, D!DriveState
  <1>4. out.mode = "none" /\ out.tpos = 0 /\ reply = NoReply /\ lost = FALSE /\ pc = "top" /\ unsure = 0
    BY <1>1, Zenon DEF CiaInit
  <1>5. /\ reply.pos \in Int /\ out.tpos \in Int /\ unsure \in {0, 1, 2} /\ pc # "hook"
        /\ out.mode # "CSP" /\ drv.ds # "OE" /\ out.mode \in D!Mode \cup {"none"}
    BY <1>3, <1>4, SMT DEF NoReply
  <1>0. lost \in BOOLEAN /\ ~lost
    BY <1>4, Zenon
  <1>6. TopNear
    BY <1>5, Zenon DEF TopNear
  <1>7. QED BY <1>0, <1>2, <1>3, <1>5, <1>6, Zenon DEF JumpInv

\* S2, S4: on fresh inputs an operating drive is moved by at most the step limit,
\* or without a setpoint back to where it stood, for every limit, every range of
\* positions and every order of commands, changes of mode, moves by hand, faults,
\* losses and recoveries before.
THEOREM StepsAreLimited == CiaSpec => NoJump
  <1>1. JumpInv /\ [CiaNext]_ciaVars =>
          /\ JumpInv'
          /\ [drv'.ds = "OE" /\ drv'.mode = "CSP" /\ unsure = 0
               => Within(1, drv'.pos, drv.pos) \/ (~ax.armed /\ drv'.pos = was)]_ciaVars
    BY JumpStep, Zenon DEF Jump
  <1>2. QED BY JumpInitInv, <1>1, PTL DEF CiaSpec, NoJump
=============================================================================
