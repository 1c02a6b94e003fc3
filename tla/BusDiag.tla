------------------------------ MODULE BusDiag ------------------------------
(***************************************************************************)
(* The bus diagnosis: from the error counters of the slaves to a finding.  *)
(*                                                                         *)
(* The chain is that of soft_bus: a node that is off turns the frame round *)
(* before it, a bad cable in front of a node damages a frame there (that   *)
(* node counts it as its own, the nodes behind it as forwarded).  The RT   *)
(* loop sends one diagnostic frame at a time for the next few slaves; it   *)
(* reads and clears their counters (FPRW), so a lost reply loses counts.   *)
(* The monitor ingests what the handoff delivers and analyses the sum.     *)
(*                                                                         *)
(* inv stands for the invalid frame and RX error counters of port 0, which *)
(* the simulator counts together; f0 and f1 are the forwarded errors.      *)
(***************************************************************************)
EXTENDS Integers, Sequences, FiniteSetsExt

CONSTANTS
  N,          \* slaves of the chain
  PerFrame,   \* ECM_DIAG_SOEM_SLAVES_PER_FRAME
  CountMax,   \* 0xFF
  MaxBad,     \* bound: frames a bad cable damages and power losses together
  MaxPower,   \* bound: power losses
  MaxDiag     \* bound: diagnostic frames

ASSUME DiagAssumption ==
  /\ N \in Nat \ {0} /\ PerFrame \in Nat \ {0} /\ CountMax \in Nat \ {0}
  /\ MaxBad \in Nat /\ MaxPower \in Nat /\ MaxDiag \in Nat

Slaves == 1 .. N

VARIABLES
  chain,    \* per slave [on, addr, al, cnt]
  cable,    \* bad_cable_node and bad_cable_left
  dio,      \* ecm_diag_io_t: pending, first, count, next_first
  reply,    \* the reply on its way, or NoRaw
  handoff,  \* raws between the RT loop and the monitor, oldest first
  mon,      \* ecm_diag_t
  real      \* history: frames damaged in front of each slave and in all, power
            \* losses, frames sent, counts that left a counter for nothing (lost)

diagVars == <<chain, cable, dio, reply, handoff, mon, real>>

Zero == [inv |-> 0, f0 |-> 0, f1 |-> 0, pu |-> 0]
Plus(c, d) == [k \in DOMAIN c |-> c[k] + d[k]]
NoRaw == [ok |-> FALSE]

\* What a finding may be about at a moment.
Shape == [i \in Slaves |-> [on |-> chain[i].on, addr |-> chain[i].addr, al |-> chain[i].al]]

\* ecm_diag_init, ecm_diag_soem_io_init, esc_fault_init.
DiagInit ==
  /\ chain = [i \in Slaves |-> [on |-> TRUE, addr |-> TRUE, al |-> "op", cnt |-> Zero]]
  /\ cable = [node |-> 1, left |-> 0]
  /\ dio = [pending |-> FALSE, first |-> 1, count |-> 0, next |-> 1]
  /\ reply = NoRaw /\ handoff = <<>>
  /\ mon = [reads |-> 0, brd |-> -1, then |-> Shape,
            s |-> [i \in Slaves |-> [tot |-> Zero, last |-> Zero, seen |-> 0, answered |-> FALSE, link1 |-> FALSE,
                                     al |-> "none", saturated |-> 0]]]
  /\ real = [bad |-> [i \in Slaves |-> 0], all |-> 0, power |-> 0, sent |-> 0, lost |-> FALSE]

-----------------------------------------------------------------------------
(* The chain.                                                              *)

\* reachable(): the slaves before the first one that is off.
Reach(ch) == CHOOSE n \in 0 .. N : (\A j \in 1 .. n : ch[j].on) /\ (n < N => ~ch[n + 1].on)

\* esc_chain_wire: port 1 has link when the next slave is on.
Link1(ch, i) == i < N /\ ch[i + 1].on

\* esc_cnt_inc: the counters saturate.
Inc(c, keys) == [k \in DOMAIN c |-> IF k \in keys /\ c[k] < CountMax THEN c[k] + 1 ELSE c[k]]

\* apply_bad_cable_counters.
Damage(ch, k) ==
  [i \in Slaves |->
    LET own  == IF i = k THEN {"inv", "pu"} ELSE {}
        fwd  == IF i > k /\ i <= Reach(ch) THEN {"f0", "pu"} ELSE {}
        back == IF i < Reach(ch) THEN {"f1"} ELSE {}
    IN [ch[i] EXCEPT !.cnt = Inc(@, own \cup fwd \cup back)]]

Damaged == cable.left > 0 /\ cable.node <= Reach(chain)

\* Any frame on a bad cable is counted and lost.
DamageFrame(sent) ==
  /\ chain' = Damage(chain, cable.node)
  /\ cable' = [cable EXCEPT !.left = @ - 1]
  /\ real' = [real EXCEPT !.bad[cable.node] = @ + 1, !.all = @ + 1, !.sent = @ + sent]

\* A process data frame that meets the bad cable.
PdFrame ==
  /\ Damaged /\ DamageFrame(0)
  /\ UNCHANGED <<dio, reply, handoff, mon>>

\* bad_cable, drop_node, restore_node.
BadCable ==
  /\ cable.left = 0
  /\ \E k \in Slaves, n \in 1 .. MaxBad :
       /\ real.all + real.power + n <= MaxBad
       /\ cable' = [node |-> k, left |-> n]
  /\ UNCHANGED <<chain, dio, reply, handoff, mon, real>>

DropNode2 ==
  /\ real.power < MaxPower /\ real.all + cable.left + real.power < MaxBad
  /\ \E i \in Slaves : chain[i].on /\ chain' = [chain EXCEPT ![i].on = FALSE]
  /\ real' = [real EXCEPT !.power = @ + 1, !.lost = TRUE]
  /\ UNCHANGED <<cable, dio, reply, handoff, mon>>

RestoreNode2 ==
  /\ \E i \in Slaves :
       ~chain[i].on /\ chain' = [chain EXCEPT ![i] = [on |-> TRUE, addr |-> FALSE, al |-> "init", cnt |-> Zero]]
  /\ UNCHANGED <<cable, dio, reply, handoff, mon, real>>

\* The recovery gives a slave its address again and takes it to OP.
Readdress ==
  /\ \E i \in Slaves : i <= Reach(chain) /\ ~chain[i].addr
                       /\ chain' = [chain EXCEPT ![i].addr = TRUE, ![i].al = "op"]
  /\ UNCHANGED <<cable, dio, reply, handoff, mon, real>>

-----------------------------------------------------------------------------
(* ecm_diag_soem_send, ecm_diag_soem_collect.                              *)

\* What the frame brings back: the slaves that process it, and for every slave of
\* the chunk that answers its address the counters, port 1 and the AL state.
Raw(first, count) ==
  [ok |-> TRUE, first |-> first, count |-> count, brd |-> Reach(chain), then |-> Shape,
   s |-> [i \in Slaves |->
           [wkc |-> i <= Reach(chain) /\ chain[i].addr, err |-> chain[i].cnt,
            link1 |-> Link1(chain, i), al |-> chain[i].al]]]

\* FPRW: the write that follows the read clears the counters.
Cleared(first, count) ==
  [i \in Slaves |-> IF i \in first .. first + count - 1 /\ i <= Reach(chain) /\ chain[i].addr
                    THEN [chain[i] EXCEPT !.cnt = Zero] ELSE chain[i]]

\* The frame for the next chunk; when ecx_outframe_red fails nothing went out.
DiagSend ==
  LET first == IF dio.next <= N THEN dio.next ELSE 1
      count == Min({N - first + 1, PerFrame})
      next  == IF first + count > N THEN 1 ELSE first + count
  IN /\ ~dio.pending /\ real.sent < MaxDiag
     /\ \E out \in BOOLEAN :
          /\ dio' = [dio EXCEPT !.pending = out, !.first = first, !.count = count, !.next = next]
          /\ IF ~out
             THEN UNCHANGED <<chain, cable, reply>> /\ real' = [real EXCEPT !.sent = @ + 1]
             ELSE IF Damaged
             THEN DamageFrame(1) /\ reply' = NoRaw
             ELSE /\ chain' = Cleared(first, count)
                  /\ reply' = IF Reach(chain) = 0 THEN NoRaw ELSE Raw(first, count)
                  /\ real' = [real EXCEPT !.sent = @ + 1]
                  /\ UNCHANGED cable
     /\ UNCHANGED <<handoff, mon>>

\* ecm_diag_handoff_put: the new raw is dropped when both slots are full.
Put(raw) == IF Len(handoff) < 2 THEN Append(handoff, raw) ELSE handoff

\* The reply is in the rx buffer.
DiagCollect ==
  /\ dio.pending /\ reply.ok
  /\ dio' = [dio EXCEPT !.pending = FALSE]
  /\ handoff' = Put(reply)
  /\ reply' = NoRaw
  /\ real' = [real EXCEPT !.lost = @ \/ Len(handoff) = 2]
  /\ UNCHANGED <<chain, cable, mon>>

\* The reply did not come within DIAG_MAX_AGE_TICKS: lost on the way back, too
\* late, or there was none.
DiagGiveUp ==
  /\ dio.pending
  /\ dio' = [dio EXCEPT !.pending = FALSE]
  /\ handoff' = Put(NoRaw)
  /\ real' = [real EXCEPT !.lost = @ \/ reply.ok]
  /\ reply' = NoRaw
  /\ UNCHANGED <<chain, cable, mon>>

-----------------------------------------------------------------------------
(* ecm_diag_ingest.                                                        *)

\* A slip: the difference to the last value is taken of a counter that the read
\* has cleared.
Passive_Delta(s, r) == [k \in DOMAIN r.err |-> IF r.err[k] >= s.last[k] THEN r.err[k] - s.last[k] ELSE r.err[k]]

\* With clear on read every value is what was counted since the last read.
Delta(s, r) == r.err

IngestSlave(s, r, reads) ==
  IF ~r.wkc THEN [s EXCEPT !.seen = reads, !.answered = FALSE, !.last = Zero]
  ELSE [s EXCEPT !.seen = reads, !.answered = TRUE, !.last = Delta(s, r), !.tot = Plus(@, Delta(s, r)),
                 !.saturated = IF \E k \in DOMAIN r.err : r.err[k] = CountMax THEN @ + 1 ELSE @,
                 !.link1 = r.link1, !.al = r.al]

IngestRaw(d, raw) ==
  LET e == [d EXCEPT !.reads = @ + 1]
  IN IF ~raw.ok THEN e
     ELSE [e EXCEPT !.brd = raw.brd, !.then = raw.then,
                    !.s = [i \in Slaves |-> IF i \in raw.first .. raw.first + raw.count - 1
                                            THEN IngestSlave(@[i], raw.s[i], e.reads) ELSE @[i]]]

\* diag_process_pending: what waits is ingested, one raw after the other; the
\* RT loop may put another one meanwhile.
Monitor ==
  /\ handoff # <<>>
  /\ mon' = IngestRaw(mon, Head(handoff))
  /\ handoff' = Tail(handoff)
  /\ UNCHANGED <<chain, cable, dio, reply, real>>

\* What happens to the chain after the last diagnostic frame is seen by nobody.
DiagNext ==
  \/ real.sent < MaxDiag /\ (PdFrame \/ BadCable \/ DropNode2 \/ RestoreNode2 \/ Readdress)
  \/ DiagSend \/ DiagCollect \/ DiagGiveUp \/ Monitor

DiagSpec == DiagInit /\ [][DiagNext]_diagVars

-----------------------------------------------------------------------------
(* ecm_diag_analyze: the findings, without their severity and wording.     *)

Seen(d, i) == d.s[i].seen = d.reads

Topology(d) ==
  IF d.brd \in 0 .. N - 1
  THEN {[type |-> IF d.brd > 0 /\ Seen(d, d.brd) /\ d.s[d.brd].answered /\ d.s[d.brd].link1
                  THEN "MISSING_LINK_UP" ELSE "CHAIN_BROKEN", a |-> d.brd]}
  ELSE {}

OnBus(d) == IF d.brd < 0 THEN N ELSE Min({d.brd, N})

\* A slip: the last answer of a slave is used though the last frame did not ask it.
Stale_NoAddress(d) ==
  {[type |-> "NO_ADDRESS", a |-> i] : i \in {j \in 1 .. OnBus(d) : d.s[j].seen > 0 /\ ~d.s[j].answered}}

NoAddress(d) ==
  {[type |-> "NO_ADDRESS", a |-> i] : i \in {j \in 1 .. OnBus(d) : Seen(d, j) /\ ~d.s[j].answered}}

Origins(d) == {i \in Slaves : d.s[i].tot.inv > 0}
CableFwd(d) == {[type |-> "CABLE_FWD", a |-> i] : i \in Origins(d)}

\* Forwarded errors on port 0 need an origin at or before the slave, any need one.
FwdNoOrigin(d) ==
  LET odd == {i \in Slaves :
                LET t == d.s[i].tot
                IN (t.f0 > 0 /\ ~\E j \in Origins(d) : j <= i) \/ (t.f0 + t.f1 > 0 /\ Origins(d) = {})}
  IN IF odd = {} THEN {} ELSE {[type |-> "FWD_NO_ORIGIN", a |-> Min(odd)]}

PuOnly(d) ==
  {[type |-> "PU_ONLY", a |-> i] :
     i \in {j \in Slaves : LET t == d.s[j].tot IN t.pu > 0 /\ t.inv = 0 /\ t.f0 = 0 /\ t.f1 = 0}}

Saturated(d) == {[type |-> "SATURATED", a |-> i] : i \in {j \in Slaves : d.s[j].saturated > 0}}

AlState(d) ==
  {[type |-> "STATE", a |-> i] : i \in {j \in Slaves : Seen(d, j) /\ d.s[j].answered /\ d.s[j].al # "op"}}

Analyze(d) ==
  Topology(d) \cup NoAddress(d) \cup CableFwd(d) \cup FwdNoOrigin(d) \cup PuOnly(d) \cup Saturated(d) \cup AlState(d)

-----------------------------------------------------------------------------
(* Properties.                                                             *)

\* What a finding says was so.
Sound(f) ==
  CASE f.type = "CABLE_FWD"     -> real.bad[f.a] > 0
    [] f.type = "CHAIN_BROKEN"  -> Reach(mon.then) = f.a /\ ~mon.then[f.a + 1].on
    [] f.type = "NO_ADDRESS"    -> mon.then[f.a].on /\ ~mon.then[f.a].addr
    [] f.type = "STATE"         -> mon.then[f.a].al # "op"
    [] f.type = "FWD_NO_ORIGIN" -> \E i \in Slaves : real.bad[i] > 0
    [] f.type = "SATURATED"     -> real.all >= CountMax
    [] OTHER                    -> FALSE

\* ecm_diag_analyze, "Localisation rules": after a read a finding never blames a place where
\* nothing was wrong.  A cable finding names a link that damaged a frame; a broken
\* chain, a lost address and a bad state name the slave for which that was so when
\* the last frame that came back passed; a chain that ends at a slave with link is
\* never reported, nor a processing error without a port error; forwarded errors
\* without an origin are reported only if some link did damage a frame.
BlameIsSound == mon.reads > 0 => \A f \in Analyze(mon) : Sound(f)

\* What raw r brings of slave i's own errors, and what is on its way to the
\* monitor: in the slots of the handoff and in the reply.
Brings(r, i)   == IF r.ok /\ i \in r.first .. r.first + r.count - 1 /\ r.s[i].wkc THEN r.s[i].err.inv ELSE 0
Waits(h, k, i) == IF k \in DOMAIN h THEN Brings(h[k], i) ELSE 0
Queued(h, i)   == Waits(h, 1, i) + Waits(h, 2, i)
Counted(i)     == mon.s[i].tot.inv + Queued(handoff, i) + Brings(reply, i) + chain[i].cnt.inv

\* "every read is a delta and nothing is lost between read and clear"
\* (ecm_diag_soem_send with FPRW, ecm_diag_ingest): what the monitor counted, what
\* is on its way to it and what the counter holds are together the frames that
\* were damaged, as long as no reply was lost, no slave lost power, and no counter
\* was full; and never more than that.
CountsAddUp ==
  \A i \in Slaves : /\ Counted(i) <= real.bad[i]
                    /\ ~real.lost /\ real.bad[i] <= CountMax => Counted(i) = real.bad[i]
=============================================================================
