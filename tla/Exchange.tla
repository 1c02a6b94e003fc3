------------------------------ MODULE Exchange ------------------------------
(***************************************************************************)
(* Commands and setpoints between the application and the RT thread: the   *)
(* hook ecm_xchg_rt, once per tick, and the application thread's producer  *)
(* (app_thread_fn with --xchg-sine), which feeds one output slot a lead of *)
(* ticks ahead of the published clock and checks the slot's record.  The   *)
(* rings are queues (SpscRing) and the records atomic registers (Seqlock). *)
(* The setpoint for tick t has the value t, so a value names its tick; a   *)
(* SET command with sequence number s has the value 100 + s.               *)
(***************************************************************************)
EXTENDS Integers, Sequences

CONSTANTS
  SpCap, CmdCap,    \* ECM_XRING_CAP, ECM_XCHG_CMD_CAP
  SkipMax,          \* ECM_XCHG_SP_SKIP_MAX
  CmdPerTick,       \* ECM_XCHG_CMD_PER_TICK
  Leads,            \* what --xchg-lead may be
  MaxHook, MaxCmd,  \* bounds: hooks, commands
  MaxLost           \* bound: hooks with the bus lost

ASSUME XchgAssumption == Leads \subseteq Nat /\ SkipMax \in Nat /\ SpCap \in Nat

VARIABLES
  xcmd, xsp,      \* rings: commands, setpoints (by their tick)
  xslot,          \* ecm_xslot_t of the output, with the counters of x
  clock, rec,     \* published records
  app,            \* app_thread_fn: its step, its locals and g_xchg_lead
  spent           \* bounds: commands sent, hooks with the bus lost

xchgVars == <<xcmd, xsp, xslot, clock, rec, app, spent>>

Slot0 == [armed |-> FALSE, last |-> 0, used |-> 0, late |-> 0, underrun |-> 0,
          dropped_lost |-> 0, last_seq |-> 0, deferred |-> FALSE]
Rec0 == [tick |-> 0, value |-> 0, used |-> 0, underrun |-> 0, valid |-> FALSE, lost |-> FALSE]

XchgInit ==
  /\ xcmd = <<>> /\ xsp = <<>> /\ xslot = Slot0 /\ clock = 0 /\ rec = Rec0
  /\ \E lead \in Leads :
       app = [pc |-> "clock", lead |-> lead, k |-> 0, next |-> 0, rec |-> 0, under |-> 0, bad |-> {}]
  /\ spent = [cmds |-> 0, lost |-> 0]

-----------------------------------------------------------------------------
(* ecm_xchg_rt                                                             *)

Apply(s, v) == [s EXCEPT !.last = v, !.armed = TRUE]

\* The commands taken at tick k1: the head of the ring as long as it is due,
\* at most CmdPerTick.
Due(k1) ==
  CHOOSE n \in 0 .. Len(xcmd) : /\ \A i \in 1 .. n : xcmd[i].tick <= k1
                                /\ n < Len(xcmd) => xcmd[n + 1].tick > k1
Taken(k1) == IF Due(k1) > CmdPerTick THEN CmdPerTick ELSE Due(k1)

AfterCommands(k1, lost) ==
  LET cs  == SubSeq(xcmd, 1, Taken(k1))
      seq == cs[Len(cs)].seq
      s1  == IF lost \/ cs = <<>> THEN xslot ELSE Apply(xslot, 100 + seq)
  IN  [s1 EXCEPT !.last_seq = IF cs = <<>> THEN @ ELSE seq,
                 !.deferred = @ \/ Due(k1) > CmdPerTick]

\* Setpoints popped without being used: late ones, and with the bus lost the
\* one for k1 too, whose frame cannot be sent; at most SkipMax.
Passed(t, k1, lost) == t < k1 \/ (t = k1 /\ lost)
SkipEnd == IF Len(xsp) < SkipMax THEN Len(xsp) ELSE SkipMax
Skips(k1, lost) ==
  CHOOSE n \in 0 .. SkipEnd : /\ \A i \in 1 .. n : Passed(xsp[i], k1, lost)
                              /\ n < SkipEnd => ~Passed(xsp[n + 1], k1, lost)

\* A slip: with the bus lost the setpoint for k1 is kept.
Replaying_Skipped(k1, lost) == Skips(k1, FALSE)

Skipped(k1, lost) == Skips(k1, lost)

Setpoints(k1, lost, s) ==
  LET n    == Skipped(k1, lost)
      q    == SubSeq(xsp, n + 1, Len(xsp))
      s1   == IF lost THEN [s EXCEPT !.dropped_lost = @ + n] ELSE [s EXCEPT !.late = @ + n]
      got  == ~lost /\ q # <<>> /\ Head(q) = k1
  IN  /\ xsp' = IF got THEN Tail(q) ELSE q
      /\ xslot' = IF got THEN [Apply(s1, k1) EXCEPT !.used = @ + 1]
                 ELSE IF s1.armed /\ ~lost THEN [s1 EXCEPT !.underrun = @ + 1]   \* last is held
                 ELSE s1

Hook(lost) ==
  /\ clock < MaxHook /\ (lost => spent.lost < MaxLost)
  /\ LET tick == clock + 1   k1 == tick + 1
     IN  /\ xcmd' = SubSeq(xcmd, Taken(k1) + 1, Len(xcmd))
         /\ Setpoints(k1, lost, AfterCommands(k1, lost))
         /\ rec' = [tick |-> tick, value |-> xslot'.last, used |-> xslot'.used,
                    underrun |-> xslot'.underrun, valid |-> xslot'.armed, lost |-> lost]
         /\ clock' = tick
  /\ spent' = IF lost THEN [spent EXCEPT !.lost = @ + 1] ELSE spent
  /\ UNCHANGED app

-----------------------------------------------------------------------------
(* The application: ecm_xchg_cmd, and app_thread_fn.                       *)

\* A SET for one of the coming ticks, or for one already past.
AppCommand ==
  /\ spent.cmds < MaxCmd /\ Len(xcmd) < CmdCap
  /\ \E t \in {0, clock + 2, clock + 3} :
       xcmd' = Append(xcmd, [tick |-> t, seq |-> spent.cmds + 1])
  /\ spent' = [spent EXCEPT !.cmds = @ + 1]
  /\ UNCHANGED <<xsp, xslot, clock, rec, app>>

\* ecm_xchg_read_clock; a producer that fell behind skips ahead, unless its lead
\* is 0 or 1: then every setpoint it pushes is late (the negative control).
AppClock ==
  /\ app.pc = "clock" /\ clock # 0 /\ clock < MaxHook
  /\ app' = [app EXCEPT !.pc = "push", !.k = clock,
                        !.next = IF @ < clock + 2 /\ app.lead >= 2 THEN clock + 2
                                 ELSE IF @ = 0 THEN clock + app.lead ELSE @]
  /\ UNCHANGED <<xcmd, xsp, xslot, clock, rec, spent>>

\* ecm_xchg_setpoint for `next`; full: counted and skipped.
AppPush ==
  /\ app.pc = "push" /\ app.next <= app.k + app.lead
  /\ xsp' = IF Len(xsp) < SpCap THEN Append(xsp, app.next) ELSE xsp
  /\ app' = [app EXCEPT !.next = @ + 1]
  /\ UNCHANGED <<xcmd, xslot, clock, rec, spent>>

\* The echo check: a record new since the last pass, exactly one tick after
\* it, armed, with the same underrun count and some setpoint used, must carry
\* the setpoint of the next tick.  `bad` keeps for which records it did not:
\* written with the bus lost or not.
AppEcho ==
  /\ app.pc = "push" /\ app.next > app.k + app.lead
  /\ LET checked == /\ rec.tick = app.rec + 1 /\ rec.valid
                    /\ rec.underrun = app.under /\ rec.used > 0
         wrong   == checked /\ rec.value # rec.tick + 1
     IN  app' = IF rec.tick = app.rec THEN [app EXCEPT !.pc = "clock"]
                ELSE [app EXCEPT !.pc = "clock", !.rec = rec.tick, !.under = rec.underrun,
                                 !.bad = IF wrong THEN @ \cup {rec.lost} ELSE @]
  /\ UNCHANGED <<xcmd, xsp, xslot, clock, rec, spent>>

XchgNext == \/ \E lost \in BOOLEAN : Hook(lost)
            \/ AppCommand \/ AppClock \/ AppPush \/ AppEcho

XchgSpec == XchgInit /\ [][XchgNext]_xchgVars

-----------------------------------------------------------------------------
\* What one pass of the producer leaves behind fits the budget of a hook, as with
\* the default lead of 4 and ECM_XCHG_SP_SKIP_MAX 16.
Ample == 2 <= app.lead /\ app.lead <= SkipMax

\* The setpoint for t is in the ring, and within reach of one hook.
InReach(t) == \E i \in 1 .. Len(xsp) : xsp[i] = t /\ (Ample \/ i <= SkipMax + 1)

\* Each tick's frame carries its own setpoint.  When the hook runs with the
\* bus up and the application has pushed the setpoint for the next frame,
\* that frame carries it whatever late ones and SET commands are ahead of it:
\* always when the lead is at most ECM_XCHG_SP_SKIP_MAX, else when at most that
\* many are ahead.  If there is none no setpoint is used, and the underrun counter
\* says so.  With the bus lost the output stays, no setpoint is used, and what is due
\* does not survive the tick ("never replayed") unless the budget ends before.  And
\* the echo check of app_thread_fn never reports a mismatch on a record that was
\* written with the bus up, however the two threads interleave.
SetpointInItsFrame ==
  /\ [](FALSE \notin app.bad)
  /\ [][clock' # clock =>
          LET k1   == clock' + 1
              used == xslot'.used - xslot.used
          IN  IF rec'.lost
              THEN /\ rec'.value = xslot.last /\ used = 0
                   /\ \/ \A i \in 1 .. Len(xsp') : xsp'[i] > k1
                      \/ ~Ample /\ Len(xsp') = Len(xsp) - SkipMax
              ELSE IF InReach(k1) THEN rec'.value = k1 /\ used = 1 /\ xslot'.underrun = xslot.underrun
              ELSE used = 0 /\ (xslot'.armed => xslot'.underrun = xslot.underrun + 1)]_xchgVars
=============================================================================
