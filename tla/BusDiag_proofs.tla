--------------------------- MODULE BusDiag_proofs ---------------------------
(***************************************************************************)
(* The bus diagnosis, for every length of the chain, every number of       *)
(* slaves per frame and every range of the counters: no count is invented  *)
(* and none is lost unnoticed (CountsAddUp), and no finding is without its *)
(* cause (BlameIsSound).                                                   *)
(***************************************************************************)
EXTENDS BusDiag, WellFoundedInduction, TLAPS

-----------------------------------------------------------------------------
(* The counters.                                                           *)

Key == {"inv", "f0", "f1", "pu"}

\* A counter block that n damaged frames can have left behind.
Tally(c, n) ==
  /\ DOMAIN c = Key /\ \A k \in Key : c[k] \in Nat /\ c[k] <= n
  /\ c.pu > 0 => c.inv > 0 \/ c.f0 > 0

\* Totals of such blocks.
Totals(t, n) ==
  /\ DOMAIN t = Key /\ \A k \in Key : t[k] \in Nat /\ (t[k] > 0 => n > 0)
  /\ t.pu > 0 => t.inv > 0 \/ t.f0 > 0

\* Before the first damaged frame and after a clear.
LEMMA ZeroTally == ASSUME NEW n \in Nat PROVE Tally(Zero, n) /\ Totals(Zero, n) /\ Zero.inv = 0
  BY DEF Tally, Totals, Zero, Key

\* Damaged frames only become more.
LEMMA TallyOn ==
  ASSUME NEW c, NEW n \in Nat, NEW m \in Nat, n <= m
  PROVE  (Tally(c, n) => Tally(c, m)) /\ (Totals(c, n) => Totals(c, m))
  <1>1. Tally(c, n) => Tally(c, m)
    BY DEF Tally
  <1>2. Totals(c, n) => Totals(c, m)
    BY DEF Totals
  <1>3. QED BY <1>1, <1>2, Zenon

\* esc_cnt_inc on one more damaged frame; a processing error comes with a port error.
LEMMA IncTally ==
  ASSUME NEW c, NEW n \in Nat, Tally(c, n), NEW keys,
         "pu" \in keys => "inv" \in keys \/ "f0" \in keys
  PROVE  /\ Tally(Inc(c, keys), n + 1)
         /\ "inv" \notin keys => Inc(c, keys).inv = c.inv
         /\ "inv" \in keys => Inc(c, keys).inv = IF c.inv < CountMax THEN c.inv + 1 ELSE c.inv
  <1> DEFINE d == Inc(c, keys)
  <1>1. DOMAIN c = Key /\ c.inv \in Nat /\ c.f0 \in Nat /\ c.pu \in Nat /\ c.f1 \in Nat
        /\ c.inv <= n /\ c.f0 <= n /\ c.pu <= n /\ c.f1 <= n /\ (c.pu > 0 => c.inv > 0 \/ c.f0 > 0)
    BY Zenon DEF Tally, Key
  <1>2. DOMAIN d = Key /\ \A k \in Key : d[k] = IF k \in keys /\ c[k] < CountMax THEN c[k] + 1 ELSE c[k]
    BY <1>1, Zenon DEF Inc
  <1>3. /\ d.inv = IF "inv" \in keys /\ c.inv < CountMax THEN c.inv + 1 ELSE c.inv
        /\ d.f0 = IF "f0" \in keys /\ c.f0 < CountMax THEN c.f0 + 1 ELSE c.f0
        /\ d.f1 = IF "f1" \in keys /\ c.f1 < CountMax THEN c.f1 + 1 ELSE c.f1
        /\ d.pu = IF "pu" \in keys /\ c.pu < CountMax THEN c.pu + 1 ELSE c.pu
    BY <1>2, Zenon DEF Key
  <1> HIDE DEF d
  <1>4. /\ d.inv \in Nat /\ d.inv <= n + 1 /\ d.f0 \in Nat /\ d.f0 <= n + 1
        /\ d.f1 \in Nat /\ d.f1 <= n + 1 /\ d.pu \in Nat /\ d.pu <= n + 1
        /\ (d.pu > 0 => d.inv > 0 \/ d.f0 > 0)
    BY <1>1, <1>3, DiagAssumption
  <1>5. Tally(d, n + 1)
    BY <1>2, <1>4, Zenon DEF Tally, Key
  <1>6. /\ "inv" \notin keys => d.inv = c.inv
        /\ "inv" \in keys => d.inv = IF c.inv < CountMax THEN c.inv + 1 ELSE c.inv
    BY <1>3, Zenon
  <1>7. QED BY <1>5, <1>6, Zenon DEF d

\* add(): a block read is added to the totals.
LEMMA PlusTotals ==
  ASSUME NEW t, NEW c, NEW n \in Nat, Totals(t, n), Tally(c, n)
  PROVE  Totals(Plus(t, c), n) /\ Plus(t, c).inv = t.inv + c.inv
  <1> DEFINE d == Plus(t, c)
  <1>1. /\ DOMAIN t = Key /\ \A k \in Key : t[k] \in Nat /\ c[k] \in Nat /\ c[k] <= n /\ (t[k] > 0 => n > 0)
    BY Zenon DEF Tally, Totals
  <1>2. DOMAIN d = Key /\ \A k \in Key : d[k] = t[k] + c[k]
    BY <1>1, Zenon DEF Plus
  <1> HIDE DEF d
  <1>3. \A k \in Key : d[k] \in Nat /\ (d[k] > 0 => n > 0)
    BY <1>1, <1>2
  <1>4. d.inv = t.inv + c.inv /\ d.f0 = t.f0 + c.f0 /\ d.pu = t.pu + c.pu
    BY <1>2, Zenon DEF Key
  <1>5. d.pu > 0 => d.inv > 0 \/ d.f0 > 0
    <2>1. t.inv \in Nat /\ t.f0 \in Nat /\ t.pu \in Nat /\ c.inv \in Nat /\ c.f0 \in Nat /\ c.pu \in Nat
      BY <1>1, Zenon DEF Key
    <2>2. (t.pu > 0 => t.inv > 0 \/ t.f0 > 0) /\ (c.pu > 0 => c.inv > 0 \/ c.f0 > 0)
      BY Zenon DEF Tally, Totals
    <2>3. QED BY <1>4, <2>1, <2>2
  <1>6. Totals(d, n)
    BY <1>2, <1>3, <1>5, Zenon DEF Totals
  <1>7. QED BY <1>4, <1>6, Zenon DEF d

-----------------------------------------------------------------------------
(* How far a frame gets.                                                   *)

\* Of the positions that are off, one is the first.
LEMMA FirstOf ==
  ASSUME NEW T \in SUBSET Nat, T # {}
  PROVE  \E x \in T : \A y \in T : x <= y
  <1>1. IsWellFoundedOn(OpToRel(<, Nat), Nat)
    BY NatLessThanWellFounded, Zenon
  <1>2. PICK x \in T : \A y \in T : ~(<<y, x>> \in OpToRel(<, Nat))
    BY <1>1, WFMin, Zenon
  <1>3. ASSUME NEW y \in T PROVE x <= y
    <2>1. ~(y < x)
      BY <1>2, Zenon DEF OpToRel
    <2>2. QED BY <2>1
  <1>4. QED BY <1>3, Zenon

\* reachable(): everybody before the end is on, the next one is not.
Ends(ch, n) == n \in 0 .. N /\ (\A j \in 1 .. n : ch[j].on) /\ (n < N => ~ch[n + 1].on)

\* reachable() returns such an end.
LEMMA ReachEnds == ASSUME NEW ch PROVE Ends(ch, Reach(ch))
  <1> DEFINE T == {i \in Slaves : ~ch[i].on}
  <1>1. \E n \in 0 .. N : Ends(ch, n)
    <2>1. CASE T = {}
      <3>1. Ends(ch, N)
        BY <2>1, DiagAssumption DEF Ends, Slaves
      <3>2. N \in 0 .. N
        BY DiagAssumption
      <3>3. QED BY <3>1, <3>2, Zenon
    <2>2. CASE T # {}
      <3>1. T \in SUBSET Nat
        BY DiagAssumption DEF Slaves
      <3>2. PICK x \in T : \A y \in T : x <= y
        BY <2>2, <3>1, FirstOf, Zenon
      <3>3. x \in Slaves /\ ~ch[x].on
        BY <3>2, Zenon
      <3>4. x - 1 \in 0 .. N /\ x - 1 < N /\ (x - 1) + 1 = x
        BY <3>3, DiagAssumption DEF Slaves
      <3>5. ASSUME NEW j \in 1 .. x - 1 PROVE ch[j].on
        <4>1. j \in Slaves /\ ~(x <= j)
          BY <3>3, DiagAssumption DEF Slaves
        <4>2. QED BY <3>2, <4>1, Zenon
      <3>6. Ends(ch, x - 1)
        BY <3>3, <3>4, <3>5, Zenon DEF Ends
      <3>7. QED BY <3>4, <3>6, Zenon
    <2>3. QED BY <2>1, <2>2, Zenon
  <1>2. QED BY <1>1, Zenon DEF Reach, Ends

-----------------------------------------------------------------------------
(* The chain.                                                              *)

Marks == {"on", "addr", "al", "cnt"}

\* A slave of the chain after n damaged frames; one that is off lost power.
NodeOk(x, n, lost) ==
  /\ Marks \subseteq DOMAIN x /\ x.on \in BOOLEAN /\ x.addr \in BOOLEAN
  /\ Tally(x.cnt, n) /\ (~x.on => lost)

ChainOk(ch, n, lost) == DOMAIN ch = Slaves /\ \A i \in Slaves : NodeOk(ch[i], n, lost)

\* The slave behind the bad cable counts the frame as its own.
Hit(ch, k, n, lost) ==
  /\ ChainOk(Damage(ch, k), n + 1, lost)
  /\ \A i \in Slaves :
       Damage(ch, k)[i].cnt.inv = IF i = k /\ ch[i].cnt.inv < CountMax THEN ch[i].cnt.inv + 1 ELSE ch[i].cnt.inv

\* apply_bad_cable_counters counts a damaged frame once.
LEMMA DamageHits ==
  ASSUME NEW ch, NEW n \in Nat, NEW lost, ChainOk(ch, n, lost), NEW k \in Slaves
  PROVE  Hit(ch, k, n, lost)
  <1> DEFINE own(i)  == IF i = k THEN {"inv", "pu"} ELSE {}
             fwd(i)  == IF i > k /\ i <= Reach(ch) THEN {"f0", "pu"} ELSE {}
             back(i) == IF i < Reach(ch) THEN {"f1"} ELSE {}
             keys(i) == own(i) \cup fwd(i) \cup back(i)
             e(i)    == [ch[i] EXCEPT !.cnt = Inc(@, keys(i))]
  <1>1. Damage(ch, k) = [i \in Slaves |-> e(i)]
    BY Zenon DEF Damage
  <1>2. ASSUME NEW i \in Slaves
        PROVE  /\ NodeOk(e(i), n + 1, lost)
               /\ e(i).cnt.inv = IF i = k /\ ch[i].cnt.inv < CountMax THEN ch[i].cnt.inv + 1 ELSE ch[i].cnt.inv
    <2>1. NodeOk(ch[i], n, lost)
      BY Zenon DEF ChainOk
    <2>2. /\ "pu" \in keys(i) => "inv" \in keys(i) \/ "f0" \in keys(i)
          /\ "inv" \in keys(i) <=> i = k
      BY Zenon DEF Slaves
    <2> HIDE DEF keys
    <2> DEFINE c == Inc(ch[i].cnt, keys(i))
    <2>3. Tally(c, n + 1) /\ c.inv = IF i = k /\ ch[i].cnt.inv < CountMax THEN ch[i].cnt.inv + 1 ELSE ch[i].cnt.inv
      <3>1. Tally(ch[i].cnt, n)
        BY <2>1, Zenon DEF NodeOk
      <3>2. /\ Tally(c, n + 1)
            /\ "inv" \notin keys(i) => c.inv = ch[i].cnt.inv
            /\ "inv" \in keys(i) => c.inv = IF ch[i].cnt.inv < CountMax THEN ch[i].cnt.inv + 1 ELSE ch[i].cnt.inv
        BY <2>2, <3>1, IncTally, Zenon
      <3>3. QED BY <2>2, <3>2, Zenon
    <2>4. e(i) = [ch[i] EXCEPT !.cnt = c]
      BY Zenon
    <2> HIDE DEF c, e
    <2>5. Marks \subseteq DOMAIN e(i) /\ e(i).cnt = c /\ e(i).on = ch[i].on /\ e(i).addr = ch[i].addr
      BY <2>1, <2>4, SMT DEF NodeOk, Marks
    <2>6. QED BY <2>1, <2>3, <2>5, Zenon DEF NodeOk
  <1> HIDE DEF e
  <1>3. QED BY <1>1, <1>2, Zenon DEF Hit, ChainOk

-----------------------------------------------------------------------------
(* What the frames bring.                                                  *)

\* What slave i told when the chain was sh.
Told(a, sh, i, n) ==
  /\ Tally(a.err, n)
  /\ a.wkc \in BOOLEAN /\ (a.wkc <=> i <= Reach(sh) /\ sh[i].addr)
  /\ (a.link1 => Link1(sh, i)) /\ a.al = sh[i].al

RawOk(r, n) ==
  /\ r.ok \in BOOLEAN
  /\ r.ok => r.brd = Reach(r.then) /\ \A i \in Slaves : Told(r.s[i], r.then, i, n)

\* At most two raws wait.
HandoffOk(h, n) ==
  \/ h = <<>>
  \/ h = <<h[1]>> /\ RawOk(h[1], n)
  \/ h = <<h[1], h[2]>> /\ RawOk(h[1], n) /\ RawOk(h[2], n)

\* A lost reply brings nothing.
LEMMA NoRawOk == ASSUME NEW n PROVE RawOk(NoRaw, n) /\ NoRaw.ok = FALSE /\ \A i : Brings(NoRaw, i) = 0
  <1>1. NoRaw.ok = FALSE
    BY Zenon DEF NoRaw
  <1>2. QED BY <1>1, Zenon DEF RawOk, Brings

\* Damaged frames only become more.
LEMMA RawOn == ASSUME NEW r, NEW n \in Nat, NEW m \in Nat, n <= m, RawOk(r, n) PROVE RawOk(r, m)
  BY TallyOn, Zenon DEF RawOk, Told

\* And what waits in the handoff stays a tally of them.
LEMMA HandoffOn == ASSUME NEW h, NEW n \in Nat, NEW m \in Nat, n <= m, HandoffOk(h, n) PROVE HandoffOk(h, m)
  BY RawOn, Zenon DEF HandoffOk

\* What a raw brings is a number.
LEMMA BringsNat ==
  ASSUME NEW r, NEW n \in Nat, RawOk(r, n), NEW i \in Slaves
  PROVE  Brings(r, i) \in Nat
  <1>1. r.ok => r.s[i].err.inv \in Nat
    BY Zenon DEF RawOk, Told, Tally, Key
  <1>2. QED BY <1>1, Zenon DEF Brings

\* What waits is a number.
LEMMA QueuedNat ==
  ASSUME NEW h, NEW n \in Nat, HandoffOk(h, n), NEW i \in Slaves
  PROVE  Queued(h, i) \in Nat
  <1>1. CASE h = <<>>
    BY <1>1 DEF Queued, Waits
  <1>2. CASE h = <<h[1]>> /\ RawOk(h[1], n)
    <2>1. Brings(h[1], i) \in Nat
      BY <1>2, BringsNat, Zenon
    <2>2. DOMAIN h = 1 .. 1
      BY <1>2
    <2>3. QED BY <2>1, <2>2 DEF Queued, Waits
  <1>3. CASE h = <<h[1], h[2]>> /\ RawOk(h[1], n) /\ RawOk(h[2], n)
    <2>1. Brings(h[1], i) \in Nat /\ Brings(h[2], i) \in Nat
      BY <1>3, BringsNat, Zenon
    <2>2. DOMAIN h = 1 .. 2
      BY <1>3
    <2>3. QED BY <2>1, <2>2 DEF Queued, Waits
  <1>4. QED BY <1>1, <1>2, <1>3, Zenon DEF HandoffOk

\* A sequence of two.
LEMMA PairIs == ASSUME NEW S, NEW s \in Seq(S), Len(s) = 2 PROVE s = <<s[1], s[2]>>
  OBVIOUS

\* One raw waits.
LEMMA OneWaits ==
  ASSUME NEW a, NEW h, h = <<a>>, NEW r
  PROVE  Len(h) = 1 /\ DOMAIN h = 1 .. 1 /\ Append(h, r) = <<a, r>> /\ Head(h) = a /\ Tail(h) = <<>>
  <1>1. Len(h) = 1 /\ DOMAIN h = 1 .. 1 /\ Head(h) = a /\ h \in Seq({a}) /\ h \in Seq({a, r})
    OBVIOUS
  <1>2. Tail(h) = <<>>
    BY <1>1
  <1>3. Append(h, r) \in Seq({a, r}) /\ Len(Append(h, r)) = 2 /\ Append(h, r)[1] = a /\ Append(h, r)[2] = r
    BY <1>1
  <1>4. Append(h, r) = <<a, r>>
    BY <1>3, PairIs, Zenon
  <1>5. QED BY <1>1, <1>2, <1>4, Zenon

\* Two raws wait.
LEMMA TwoWait ==
  ASSUME NEW a, NEW b, NEW h, h = <<a, b>>
  PROVE  Len(h) = 2 /\ DOMAIN h = 1 .. 2 /\ Head(h) = a /\ Tail(h) = <<b>>
  <1>1. Len(h) = 2 /\ DOMAIN h = 1 .. 2 /\ Head(h) = a /\ h[2] = b
    OBVIOUS
  <1>2. h \in Seq({a, b})
    OBVIOUS
  <1>3. Tail(h) \in Seq({a, b}) /\ Len(Tail(h)) = 1 /\ Tail(h)[1] = b
    BY <1>1, <1>2
  <1>4. Tail(h) = <<b>>
    BY <1>3
  <1>5. QED BY <1>1, <1>4, Zenon

\* A raw is queued behind the others, or dropped at two.
PutResult(h, r, n, q) ==
  /\ HandoffOk(q, n)
  /\ Len(h) # 2 => \A i \in Slaves : Queued(q, i) = Queued(h, i) + Brings(r, i)
  /\ Len(h) = 2 => q = h

\* What ecm_diag_handoff_put leaves in the handoff.
LEMMA PutIs ==
  ASSUME NEW n \in Nat, HandoffOk(handoff, n), NEW r, RawOk(r, n)
  PROVE  PutResult(handoff, r, n, Put(r))
  <1> DEFINE h == handoff
             q == Put(r)
  <1>0. \A i \in Slaves : Brings(r, i) \in Nat
    BY BringsNat, Zenon
  <1>1. CASE h = <<>>
    <2>1. q = <<r>> /\ Len(h) # 2 /\ DOMAIN h = {}
      BY <1>1 DEF Put
    <2>2. q[1] = r /\ DOMAIN q = 1 .. 1 /\ q = <<q[1]>>
      BY <2>1
    <2> HIDE DEF h, q
    <2>3. \A i \in Slaves : Queued(q, i) = Queued(h, i) + Brings(r, i)
      BY <1>0, <2>1, <2>2 DEF Queued, Waits
    <2>4. QED BY <2>1, <2>2, <2>3, Zenon DEF PutResult, HandoffOk, h, q
  <1>2. CASE h = <<h[1]>> /\ RawOk(h[1], n)
    <2>5. Len(h) = 1 /\ DOMAIN h = 1 .. 1 /\ Append(h, r) = <<h[1], r>>
      BY <1>2, OneWaits, Zenon
    <2>1. q = <<h[1], r>> /\ Len(h) # 2 /\ DOMAIN h = 1 .. 1
      BY <2>5 DEF Put
    <2>2. q[1] = h[1] /\ q[2] = r /\ DOMAIN q = 1 .. 2 /\ q = <<q[1], q[2]>>
      BY <2>1
    <2>0. \A i \in Slaves : Brings(h[1], i) \in Nat
      BY <1>2, BringsNat, Zenon
    <2> HIDE DEF h, q
    <2>3. \A i \in Slaves : Queued(q, i) = Queued(h, i) + Brings(r, i)
      BY <1>0, <2>0, <2>1, <2>2 DEF Queued, Waits
    <2>4. QED BY <1>2, <2>1, <2>2, <2>3, Zenon DEF PutResult, HandoffOk, h, q
  <1>3. CASE h = <<h[1], h[2]>> /\ RawOk(h[1], n) /\ RawOk(h[2], n)
    <2>3. Len(h) = 2
      BY <1>3, TwoWait, Zenon
    <2>1. q = h /\ Len(h) = 2
      BY <2>3 DEF Put
    <2>2. QED BY <2>1, Zenon DEF PutResult
  <1>4. QED BY <1>1, <1>2, <1>3, Zenon DEF HandoffOk

\* The oldest raw leaves.
GetResult(h, n) ==
  /\ RawOk(Head(h), n) /\ HandoffOk(Tail(h), n)
  /\ \A i \in Slaves : Queued(h, i) = Brings(Head(h), i) + Queued(Tail(h), i)

\* What ecm_diag_handoff_get takes and leaves.
LEMMA GetIs ==
  ASSUME NEW n \in Nat, NEW h, HandoffOk(h, n), h # <<>>
  PROVE  GetResult(h, n)
  <1> DEFINE a == Head(h)
             q == Tail(h)
  <1>2. CASE h = <<h[1]>> /\ RawOk(h[1], n)
    <2>5. a = h[1] /\ q = <<>> /\ DOMAIN h = 1 .. 1
      BY <1>2, OneWaits, Zenon
    <2>1. a = h[1] /\ q = <<>> /\ DOMAIN h = 1 .. 1 /\ DOMAIN q = {}
      BY <2>5
    <2>2. \A i \in Slaves : Brings(h[1], i) \in Nat
      BY <1>2, BringsNat, Zenon
    <2> HIDE DEF a, q
    <2>3. \A i \in Slaves : Queued(h, i) = Brings(a, i) + Queued(q, i)
      BY <2>1, <2>2 DEF Queued, Waits
    <2>4. QED BY <1>2, <2>1, <2>3, Zenon DEF GetResult, HandoffOk, a, q
  <1>3. CASE h = <<h[1], h[2]>> /\ RawOk(h[1], n) /\ RawOk(h[2], n)
    <2>1. a = h[1] /\ q = <<h[2]>> /\ DOMAIN h = 1 .. 2
      BY <1>3, TwoWait, Zenon
    <2>2. q[1] = h[2] /\ q = <<q[1]>> /\ DOMAIN q = 1 .. 1
      BY <2>1
    <2>3. \A i \in Slaves : Brings(h[1], i) \in Nat /\ Brings(h[2], i) \in Nat
      BY <1>3, BringsNat, Zenon
    <2> HIDE DEF a, q
    <2>4. \A i \in Slaves : Queued(h, i) = Brings(a, i) + Queued(q, i)
      BY <2>1, <2>2, <2>3 DEF Queued, Waits
    <2>5. QED BY <1>3, <2>1, <2>2, <2>4, Zenon DEF GetResult, HandoffOk, a, q
  <1>4. QED BY <1>2, <1>3, Zenon DEF HandoffOk

-----------------------------------------------------------------------------
(* The monitor.                                                            *)

Voice == {"tot", "last", "seen", "answered", "link1", "al", "saturated"}

\* The totals of a slave after n damaged frames.
Base(s, n) ==
  /\ Voice \subseteq DOMAIN s /\ Totals(s.tot, n)
  /\ s.saturated \in Nat /\ (s.saturated > 0 => n >= CountMax)

\* A slave of the last read is described as it was when the frame passed.
Says(s, reads, brd, sh, i) ==
  /\ s.seen \in Nat /\ s.seen <= reads
  /\ reads > 0 /\ s.seen = reads =>
       /\ brd = Reach(sh)
       /\ s.answered <=> i <= Reach(sh) /\ sh[i].addr
       /\ s.answered => (s.link1 => Link1(sh, i)) /\ s.al = sh[i].al

MonOk(d, n) ==
  /\ {"reads", "brd", "then", "s"} \subseteq DOMAIN d /\ d.reads \in Nat
  /\ d.brd = -1 \/ d.brd = Reach(d.then)
  /\ DOMAIN d.s = Slaves
  /\ \A i \in Slaves : Base(d.s[i], n) /\ Says(d.s[i], d.reads, d.brd, d.then, i)

\* What slave i's record v is after the read number reads brought answer a, when
\* it was s before and the chain was sh.
Took(s, n, sh, i, a, reads, v) ==
  /\ Base(v, n) /\ Says(v, reads, Reach(sh), sh, i)
  /\ v.tot.inv = s.tot.inv + IF a.wkc THEN a.err.inv ELSE 0

\* ecm_diag_ingest, one slave of the chunk.
LEMMA SlaveIngested ==
  ASSUME NEW s, NEW n \in Nat, Base(s, n), NEW sh, NEW i \in Slaves, NEW a, Told(a, sh, i, n), NEW reads \in Nat
  PROVE  Took(s, n, sh, i, a, reads, IngestSlave(s, a, reads))
  <1> DEFINE g == IngestSlave(s, a, reads)
             tot == Plus(s.tot, a.err)
             full == \E k \in DOMAIN a.err : a.err[k] = CountMax
             sat == IF full THEN s.saturated + 1 ELSE s.saturated
  <1>0. s.tot.inv \in Nat /\ s.saturated \in Nat /\ Voice \subseteq DOMAIN s /\ (s.saturated > 0 => n >= CountMax)
        /\ Totals(s.tot, n)
    BY Zenon DEF Base, Totals, Key
  <1>1. CASE ~a.wkc
    <2>1. g = [s EXCEPT !.seen = reads, !.answered = FALSE, !.last = Zero]
      BY <1>1, Zenon DEF IngestSlave
    <2> HIDE DEF g
    <2>2. /\ Voice \subseteq DOMAIN g /\ g.tot = s.tot /\ g.saturated = s.saturated
          /\ g.seen = reads /\ g.answered = FALSE
      BY <1>0, <2>1, SMT DEF Voice
    <2>3. Base(g, n)
      BY <1>0, <2>2, Zenon DEF Base
    <2>4. ~(i <= Reach(sh) /\ sh[i].addr)
      BY <1>1, Zenon DEF Told
    <2>5. Says(g, reads, Reach(sh), sh, i)
      <3>1. reads <= reads
        OBVIOUS
      <3>2. QED BY <2>2, <2>4, <3>1, Zenon DEF Says
    <2>6. g.tot.inv = s.tot.inv + 0
      BY <1>0, <2>2
    <2>7. QED BY <1>1, <2>3, <2>5, <2>6, Zenon DEF g, Took
  <1>2. CASE a.wkc
    <2>1. g = [s EXCEPT !.seen = reads, !.answered = TRUE, !.last = a.err, !.tot = tot,
                        !.saturated = sat, !.link1 = a.link1, !.al = a.al]
      BY <1>2, Zenon DEF IngestSlave, Delta
    <2>2. Totals(tot, n) /\ tot.inv = s.tot.inv + a.err.inv
      BY <1>0, PlusTotals, Zenon DEF Told
    <2>3. full => n >= CountMax
      <3>1. Tally(a.err, n)
        BY Zenon DEF Told
      <3>2. QED BY <3>1, DiagAssumption, Zenon DEF Tally
    <2> HIDE DEF full
    <2>4. sat \in Nat /\ (sat > 0 => n >= CountMax)
      BY <1>0, <2>3
    <2> HIDE DEF g, sat, tot
    <2>5. /\ Voice \subseteq DOMAIN g /\ g.tot = tot /\ g.saturated = sat
          /\ g.seen = reads /\ g.answered = TRUE /\ g.link1 = a.link1 /\ g.al = a.al
      BY <1>0, <2>1, SMT DEF Voice
    <2>6. Base(g, n)
      BY <2>2, <2>4, <2>5, Zenon DEF Base
    <2>7. Says(g, reads, Reach(sh), sh, i)
      <3>1. reads <= reads
        OBVIOUS
      <3>2. QED BY <1>2, <2>5, <3>1, Zenon DEF Says, Told
    <2>8. QED BY <1>2, <2>2, <2>5, <2>6, <2>7, Zenon DEF g, Took
  <1>3. QED BY <1>1, <1>2, Zenon DEF Told

\* The totals grow by what the raw brings.
Ingested(d, r, n, e) ==
  /\ MonOk(e, n)
  /\ \A i \in Slaves : e.s[i].tot.inv = d.s[i].tot.inv + Brings(r, i)

\* ecm_diag_ingest, the raw of one frame or the report of its loss.
LEMMA RawIngested ==
  ASSUME NEW d, NEW n \in Nat, MonOk(d, n), NEW r, RawOk(r, n)
  PROVE  Ingested(d, r, n, IngestRaw(d, r))
  <1> DEFINE reads == d.reads + 1
             e == [d EXCEPT !.reads = @ + 1]
             g == IngestRaw(d, r)
             In(i) == i \in r.first .. r.first + r.count - 1
             next == [i \in Slaves |-> IF In(i) THEN IngestSlave(d.s[i], r.s[i], reads) ELSE d.s[i]]
  <1>0. {"reads", "brd", "then", "s"} \subseteq DOMAIN d /\ d.reads \in Nat /\ reads \in Nat /\ reads > 0
    BY DEF MonOk
  <1>1. e.reads = reads /\ e.brd = d.brd /\ e.then = d.then /\ e.s = d.s /\ {"reads", "brd", "then", "s"} \subseteq DOMAIN e
    BY <1>0, SMT
  <1>2. ASSUME NEW i \in Slaves, NEW brd, NEW sh PROVE Says(d.s[i], reads, brd, sh, i)
    <2>1. d.s[i].seen \in Nat /\ d.s[i].seen <= d.reads
      BY Zenon DEF MonOk, Says
    <2>2. d.s[i].seen <= reads /\ d.s[i].seen # reads
      BY <1>0, <2>1
    <2>3. QED BY <2>1, <2>2, Zenon DEF Says
  <1>3. \A i \in Slaves : Base(d.s[i], n) /\ d.s[i].tot.inv \in Nat
    BY Zenon DEF MonOk, Base, Totals, Key
  <1> HIDE DEF reads
  <1>4. CASE ~r.ok
    <2>1. g = e
      BY <1>4, Zenon DEF IngestRaw
    <2> HIDE DEF e, g
    <2>2. \A i \in Slaves : Brings(r, i) = 0 /\ d.s[i].tot.inv = d.s[i].tot.inv + 0
      BY <1>3, <1>4 DEF Brings
    <2>3. MonOk(g, n)
      BY <1>0, <1>1, <1>2, <1>3, <2>1, Zenon DEF MonOk
    <2>4. \A i \in Slaves : g.s[i].tot.inv = d.s[i].tot.inv + Brings(r, i)
      BY <1>1, <2>1, <2>2, Zenon
    <2>5. QED BY <2>3, <2>4, Zenon DEF Ingested, g
  <1>5. CASE r.ok
    <2>1. g = [e EXCEPT !.brd = r.brd, !.then = r.then, !.s = next]
      BY <1>1, <1>5, Zenon DEF IngestRaw
    <2> HIDE DEF e, g
    <2>2. g.reads = reads /\ g.brd = r.brd /\ g.then = r.then /\ g.s = next /\ {"reads", "brd", "then", "s"} \subseteq DOMAIN g
      <3> HIDE DEF next
      <3>1. QED BY <1>1, <2>1, SMT
    <2>3. r.brd = Reach(r.then) /\ \A i \in Slaves : Told(r.s[i], r.then, i, n)
      BY <1>5, Zenon DEF RawOk
    <2>4. ASSUME NEW i \in Slaves
          PROVE  /\ Base(next[i], n) /\ Says(next[i], reads, r.brd, r.then, i)
                 /\ next[i].tot.inv = d.s[i].tot.inv + Brings(r, i)
      <3>1. CASE In(i)
        <4>1. next[i] = IngestSlave(d.s[i], r.s[i], reads)
          BY <3>1, Zenon
        <4>2. Brings(r, i) = IF r.s[i].wkc THEN r.s[i].err.inv ELSE 0
          BY <1>5, <3>1, Zenon DEF Brings
        <4>3. Base(d.s[i], n) /\ Told(r.s[i], r.then, i, n)
          BY <1>3, <2>3, Zenon
        <4>4. /\ Base(next[i], n) /\ Says(next[i], reads, Reach(r.then), r.then, i)
              /\ next[i].tot.inv = d.s[i].tot.inv + IF r.s[i].wkc THEN r.s[i].err.inv ELSE 0
          <5> HIDE DEF next
          <5>1. Took(d.s[i], n, r.then, i, r.s[i], reads, IngestSlave(d.s[i], r.s[i], reads))
            BY <1>0, <4>3, SlaveIngested, Zenon
          <5>2. Took(d.s[i], n, r.then, i, r.s[i], reads, next[i])
            BY <4>1, <5>1, Zenon
          <5>3. QED BY <5>2, Zenon DEF Took
        <4>5. QED BY <2>3, <4>2, <4>4, Zenon
      <3>2. CASE ~In(i)
        <4>1. next[i] = d.s[i]
          BY <3>2, Zenon
        <4>2. Brings(r, i) = 0 /\ d.s[i].tot.inv = d.s[i].tot.inv + 0
          <5>1. Brings(r, i) = 0
            BY <3>2, Zenon DEF Brings
          <5>2. QED BY <1>3, <5>1
        <4>3. QED BY <1>2, <1>3, <4>1, <4>2, Zenon
      <3>3. QED BY <3>1, <3>2, Zenon
    <2>5. DOMAIN next = Slaves
      BY Zenon
    <2> HIDE DEF next
    <2>6. MonOk(g, n)
      BY <1>0, <2>2, <2>3, <2>4, <2>5, Zenon DEF MonOk
    <2>7. QED BY <2>2, <2>4, <2>6, Zenon DEF Ingested, g
  <1>6. QED BY <1>4, <1>5, Zenon

-----------------------------------------------------------------------------
(* The invariant.                                                          *)

RealOk(x) ==
  /\ {"bad", "all", "power", "sent", "lost"} \subseteq DOMAIN x
  /\ x.bad \in [Slaves -> Nat] /\ x.all \in Nat /\ x.lost \in BOOLEAN
  /\ x.all > 0 => \E i \in Slaves : x.bad[i] > 0

DioOk(d, r) == "pending" \in DOMAIN d /\ (~d.pending => r = NoRaw)

CableOk(c) == {"node", "left"} \subseteq DOMAIN c /\ c.node \in Slaves

\* Everything on its way to the monitor describes the chain as it was.
WayOk(n) == RawOk(reply, n) /\ HandoffOk(handoff, n) /\ MonOk(mon, n)

DiagInv ==
  /\ ChainOk(chain, real.all, real.lost) /\ CableOk(cable) /\ DioOk(dio, reply)
  /\ WayOk(real.all) /\ RealOk(real) /\ CountsAddUp

\* The parts of a count are numbers.
LEMMA PartsNat ==
  ASSUME NEW n \in Nat, NEW lost, ChainOk(chain, n, lost), WayOk(n), NEW i \in Slaves
  PROVE  /\ mon.s[i].tot.inv \in Nat /\ Queued(handoff, i) \in Nat /\ Brings(reply, i) \in Nat
         /\ chain[i].cnt.inv \in Nat /\ Counted(i) \in Nat
  <1>1. mon.s[i].tot.inv \in Nat
    BY Zenon DEF WayOk, MonOk, Base, Totals, Key
  <1>2. chain[i].cnt.inv \in Nat
    BY Zenon DEF ChainOk, NodeOk, Tally, Key
  <1>3. Queued(handoff, i) \in Nat /\ Brings(reply, i) \in Nat
    BY QueuedNat, BringsNat, Zenon DEF WayOk
  <1>4. QED BY <1>1, <1>2, <1>3 DEF Counted

\* A step that damages nothing: counts move towards the monitor, or get lost.
LEMMA MovesInv ==
  ASSUME DiagInv, CableOk(cable'), DioOk(dio', reply'), WayOk(real.all)',
         ChainOk(chain', real'.all, real'.lost), RealOk(real'), real'.bad = real.bad, real'.all = real.all,
         real.lost => real'.lost,
         \A i \in Slaves : Counted(i)' = Counted(i) \/ (real'.lost /\ Counted(i)' <= Counted(i))
  PROVE  DiagInv'
  <1>1. ASSUME NEW i \in Slaves
        PROVE  /\ Counted(i)' <= real'.bad[i]
               /\ ~real'.lost /\ real'.bad[i] <= CountMax => Counted(i)' = real'.bad[i]
    <2>1. Counted(i) \in Nat /\ Counted(i)' \in Nat
      <3>1. real.all \in Nat
        BY Zenon DEF DiagInv, RealOk
      <3>2. Counted(i) \in Nat
        BY <3>1, PartsNat, ZenonT(40) DEF DiagInv
      <3>3. Counted(i)' \in Nat
        <4>1. /\ mon'.s[i].tot.inv \in Nat
          BY Zenon DEF WayOk, MonOk, Base, Totals, Key
        <4>2. chain'[i].cnt.inv \in Nat
          BY Zenon DEF ChainOk, NodeOk, Tally, Key
        <4>3. Queued(handoff', i) \in Nat /\ Brings(reply', i) \in Nat
          <5>1. RawOk(reply', real'.all) /\ HandoffOk(handoff', real'.all) /\ real'.all \in Nat
            BY <3>1, Zenon DEF WayOk
          <5>2. QED BY <5>1, QueuedNat, BringsNat, Zenon
        <4>4. QED BY <4>1, <4>2, <4>3 DEF Counted
      <3>4. QED BY <3>2, <3>3, Zenon
    <2>2. /\ Counted(i) <= real.bad[i] /\ real.bad[i] \in Nat
          /\ ~real.lost /\ real.bad[i] <= CountMax => Counted(i) = real.bad[i]
      BY Zenon DEF DiagInv, CountsAddUp, RealOk
    <2>3. CASE Counted(i)' = Counted(i)
      BY <2>1, <2>2, <2>3, Zenon
    <2>4. CASE real'.lost /\ Counted(i)' <= Counted(i)
      BY <2>1, <2>2, <2>4
    <2>5. QED BY <2>3, <2>4, Zenon
  <1>2. CountsAddUp'
    BY <1>1, Zenon DEF CountsAddUp
  <1>3. WayOk(real.all)' /\ real'.all = real.all
    BY Zenon
  <1>4. QED BY <1>2, <1>3, Zenon DEF DiagInv

\* A damaged frame: one slave counts it as its own unless its counter is full.
LEMMA DamageInv ==
  ASSUME DiagInv, NEW sent, DamageFrame(sent), DioOk(dio', reply'), UNCHANGED <<reply, handoff, mon>>
  PROVE  DiagInv'
  <1> DEFINE k == cable.node
             n == real.all
             lost == real.lost
             bad == [real.bad EXCEPT ![k] = @ + 1]
  <1>0. /\ n \in Nat /\ k \in Slaves /\ n + 1 \in Nat /\ n <= n + 1 /\ real.bad \in [Slaves -> Nat]
        /\ {"bad", "all", "power", "sent", "lost"} \subseteq DOMAIN real /\ {"node", "left"} \subseteq DOMAIN cable
        /\ real.lost \in BOOLEAN
    BY DEF DiagInv, RealOk, CableOk
  <1>1. /\ chain' = Damage(chain, k) /\ cable' = [cable EXCEPT !.left = @ - 1]
        /\ real' = [real EXCEPT !.bad = bad, !.all = n + 1, !.sent = real.sent + sent]
    BY Zenon DEF DamageFrame
  <1>2. bad \in [Slaves -> Nat] /\ bad[k] = real.bad[k] + 1 /\ bad[k] > 0 /\ \A i \in Slaves : i # k => bad[i] = real.bad[i]
    BY <1>0
  <1> HIDE DEF bad
  <1>3. /\ real'.bad = bad /\ real'.all = n + 1 /\ real'.lost = lost
        /\ {"bad", "all", "power", "sent", "lost"} \subseteq DOMAIN real'
    BY <1>0, <1>1, Zenon
  <1>4. CableOk(cable')
    BY <1>0, <1>1, Zenon DEF CableOk
  <1>5. Hit(chain, k, n, lost)
    BY <1>0, DamageHits, Zenon DEF DiagInv
  <1> HIDE DEF k, n, lost
  <1>6. RealOk(real')
    <2>1. n + 1 \in Nat /\ lost \in BOOLEAN /\ k \in Slaves
      BY <1>0, Zenon DEF n, lost, k
    <2>2. QED BY <1>2, <1>3, <2>1, Zenon DEF RealOk
  <1>7. ChainOk(chain', real'.all, real'.lost)
    BY <1>1, <1>3, <1>5, Zenon DEF Hit
  <1>8. WayOk(real.all)'
    <2>1. RawOk(reply', n + 1) /\ HandoffOk(handoff', n + 1)
      BY <1>0, RawOn, HandoffOn, Zenon DEF DiagInv, WayOk, n
    <2>2. MonOk(mon', n + 1)
      <3>1. MonOk(mon, n) /\ mon' = mon
        BY Zenon DEF DiagInv, WayOk, n
      <3>2. \A s : Base(s, n) => Base(s, n + 1)
        <4>1. \A s : Totals(s.tot, n) => Totals(s.tot, n + 1)
          BY <1>0, TallyOn, Zenon
        <4>2. n >= CountMax => n + 1 >= CountMax
          BY <1>0, DiagAssumption
        <4>3. QED BY <4>1, <4>2, Zenon DEF Base
      <3>3. QED BY <3>1, <3>2, Zenon DEF MonOk
    <2>3. QED BY <1>3, <2>1, <2>2, Zenon DEF WayOk
  <1>9. ASSUME NEW i \in Slaves
        PROVE  /\ Counted(i)' <= real'.bad[i]
               /\ ~real'.lost /\ real'.bad[i] <= CountMax => Counted(i)' = real'.bad[i]
    <2> DEFINE c == chain[i].cnt.inv
               c2 == chain'[i].cnt.inv
               t == mon.s[i].tot.inv
               q == Queued(handoff, i)
               b == Brings(reply, i)
    <2>1. t \in Nat /\ q \in Nat /\ b \in Nat /\ c \in Nat
      BY <1>0, PartsNat, Zenon DEF DiagInv, n
    <2>2. c2 = IF i = k /\ c < CountMax THEN c + 1 ELSE c
      BY <1>1, <1>5, Zenon DEF Hit
    <2>3. Counted(i) = t + q + b + c
      BY Zenon DEF Counted
    <2>4. Counted(i)' = t + q + b + c2
      BY Zenon DEF Counted
    <2>5. /\ t + q + b + c <= real.bad[i]
          /\ ~lost /\ real.bad[i] <= CountMax => t + q + b + c = real.bad[i]
      BY <2>3, Zenon DEF DiagInv, CountsAddUp, lost
    <2>6. real.bad[i] \in Nat /\ bad[i] = IF i = k THEN real.bad[i] + 1 ELSE real.bad[i]
      BY <1>0, <1>2, Zenon
    <2> HIDE DEF c, c2, t, q, b
    <2>7. /\ t + q + b + c2 <= bad[i]
          /\ ~lost /\ bad[i] <= CountMax => t + q + b + c2 = bad[i]
      <3>1. CASE i = k
        BY <2>1, <2>2, <2>5, <2>6, <3>1, DiagAssumption
      <3>2. CASE i # k
        BY <2>1, <2>2, <2>5, <2>6, <3>2, Zenon
      <3>3. QED BY <3>1, <3>2, Zenon
    <2>8. QED BY <1>3, <2>4, <2>7, Zenon
  <1>10. CountsAddUp'
    BY <1>9, Zenon DEF CountsAddUp
  <1>11. QED BY <1>4, <1>6, <1>7, <1>8, <1>10, Zenon DEF DiagInv

\* The chain changes without a frame: no count, or the counts of a slave whose
\* power was lost.
LEMMA ChainMoves ==
  ASSUME DiagInv, UNCHANGED <<dio, reply, handoff, mon>>, CableOk(cable'),
         ChainOk(chain', real'.all, real'.lost), RealOk(real'), real'.bad = real.bad, real'.all = real.all,
         real.lost => real'.lost,
         \A i \in Slaves : chain'[i].cnt.inv = chain[i].cnt.inv \/ (real'.lost /\ chain'[i].cnt.inv = 0)
  PROVE  DiagInv'
  <1>1. WayOk(real.all)' /\ DioOk(dio', reply')
    BY Zenon DEF DiagInv, WayOk
  <1>2. ASSUME NEW i \in Slaves
        PROVE  Counted(i)' = Counted(i) \/ (real'.lost /\ Counted(i)' <= Counted(i))
    <2> DEFINE c == chain[i].cnt.inv
               c2 == chain'[i].cnt.inv
               t == mon.s[i].tot.inv
               q == Queued(handoff, i)
               b == Brings(reply, i)
    <2>1. t \in Nat /\ q \in Nat /\ b \in Nat /\ c \in Nat
      <3>1. real.all \in Nat
        BY Zenon DEF DiagInv, RealOk
      <3>2. QED BY <3>1, PartsNat, Zenon DEF DiagInv
    <2>2. Counted(i) = t + q + b + c /\ Counted(i)' = t + q + b + c2
      BY Zenon DEF Counted
    <2>3. c2 = c \/ (real'.lost /\ c2 = 0)
      BY Zenon
    <2> HIDE DEF c, c2, t, q, b
    <2>4. t + q + b + c2 = t + q + b + c \/ (real'.lost /\ t + q + b + c2 <= t + q + b + c)
      BY <2>1, <2>3
    <2>5. QED BY <2>2, <2>4, Zenon
  <1>3. QED BY <1>1, <1>2, MovesInv, Zenon

\* drop_node, restore_node and the recovery that readdresses a slave.
LEMMA PowerInv == ASSUME DiagInv, DropNode2 \/ RestoreNode2 \/ Readdress PROVE DiagInv'
  <1> DEFINE n == real.all
             lost == real.lost
  <1>0. /\ ChainOk(chain, n, lost) /\ CableOk(cable) /\ RealOk(real) /\ n \in Nat
    BY Zenon DEF DiagInv, RealOk
  <1>1. ASSUME NEW i \in Slaves, NEW x, NEW l, lost => l, NodeOk(x, n, l),
               x.cnt.inv = chain[i].cnt.inv \/ (l /\ x.cnt.inv = 0),
               chain' = [chain EXCEPT ![i] = x],
               real'.bad = real.bad, real'.all = n, real'.lost = l, RealOk(real'), UNCHANGED <<cable, dio, reply, handoff, mon>>
        PROVE  DiagInv'
    <2>1. DOMAIN chain' = Slaves /\ chain'[i] = x /\ \A j \in Slaves : j # i => chain'[j] = chain[j]
      BY <1>0, <1>1, Zenon DEF ChainOk
    <2>2. \A j \in Slaves : NodeOk(chain[j], n, l)
      BY <1>0, <1>1, Zenon DEF ChainOk, NodeOk
    <2>3. ChainOk(chain', n, l)
      BY <1>1, <2>1, <2>2, Zenon DEF ChainOk
    <2>4. \A j \in Slaves : chain'[j].cnt.inv = chain[j].cnt.inv \/ (l /\ chain'[j].cnt.inv = 0)
      BY <1>1, <2>1, Zenon
    <2>5. CableOk(cable')
      BY <1>0, <1>1, Zenon
    <2>6. QED BY <1>1, <2>3, <2>4, <2>5, ChainMoves, Zenon DEF lost, n
  <1> HIDE DEF n, lost
  <1>2. CASE DropNode2
    <2>1. PICK i \in Slaves : chain' = [chain EXCEPT ![i].on = FALSE]
      BY <1>2, Zenon DEF DropNode2
    <2> DEFINE x == [chain[i] EXCEPT !.on = FALSE]
    <2>2. chain' = [chain EXCEPT ![i] = x]
      BY <2>1, Zenon
    <2>3. NodeOk(chain[i], n, lost)
      BY <1>0, Zenon DEF ChainOk
    <2>4. Marks \subseteq DOMAIN x /\ x.on = FALSE /\ x.addr = chain[i].addr /\ x.cnt = chain[i].cnt
      BY <2>3, Zenon DEF NodeOk, Marks
    <2> HIDE DEF x
    <2>5. NodeOk(x, n, TRUE)
      BY <2>3, <2>4, Zenon DEF NodeOk
    <2>6. /\ real' = [real EXCEPT !.power = @ + 1, !.lost = TRUE] /\ UNCHANGED <<cable, dio, reply, handoff, mon>>
      BY <1>2, Zenon DEF DropNode2
    <2>7. /\ real'.bad = real.bad /\ real'.all = real.all /\ real'.lost = TRUE
          /\ {"bad", "all", "power", "sent", "lost"} \subseteq DOMAIN real'
      BY <1>0, <2>6, Zenon DEF RealOk
    <2>8. RealOk(real')
      BY <1>0, <2>7, Zenon DEF RealOk
    <2>9. QED BY <1>1, <2>2, <2>4, <2>5, <2>6, <2>7, <2>8, ZenonT(40) DEF n
  <1>3. CASE RestoreNode2
    <2> DEFINE x == [on |-> TRUE, addr |-> FALSE, al |-> "init", cnt |-> Zero]
    <2>1. PICK i \in Slaves : ~chain[i].on /\ chain' = [chain EXCEPT ![i] = x]
      BY <1>3, Zenon DEF RestoreNode2
    <2>2. lost
      BY <1>0, <2>1, Zenon DEF ChainOk, NodeOk
    <2>3. Marks \subseteq DOMAIN x /\ x.on = TRUE /\ x.addr = FALSE /\ x.cnt = Zero
      BY Zenon DEF Marks
    <2> HIDE DEF x
    <2>4. Tally(x.cnt, n) /\ x.cnt.inv = 0
      BY <1>0, <2>3, ZeroTally, Zenon
    <2>5. NodeOk(x, n, lost)
      BY <2>3, <2>4, Zenon DEF NodeOk
    <2>6. real' = real /\ UNCHANGED <<cable, dio, reply, handoff, mon>>
      BY <1>3, Zenon DEF RestoreNode2
    <2>7. real'.bad = real.bad /\ real'.all = n /\ real'.lost = lost /\ RealOk(real')
      BY <1>0, <2>6, Zenon DEF n, lost
    <2>8. QED BY <1>1, <2>1, <2>2, <2>4, <2>5, <2>6, <2>7, ZenonT(40)
  <1>4. CASE Readdress
    <2>1. PICK i \in Slaves : chain' = [chain EXCEPT ![i].addr = TRUE, ![i].al = "op"]
      BY <1>4, Zenon DEF Readdress
    <2> DEFINE x == [chain[i] EXCEPT !.addr = TRUE, !.al = "op"]
    <2>2. NodeOk(chain[i], n, lost)
      BY <1>0, Zenon DEF ChainOk
    <2>3. chain' = [chain EXCEPT ![i] = x]
      BY <1>0, <2>1, Zenon DEF ChainOk
    <2>4. Marks \subseteq DOMAIN x /\ x.on = chain[i].on /\ x.addr = TRUE /\ x.cnt = chain[i].cnt
      BY <2>2, Zenon DEF NodeOk, Marks
    <2> HIDE DEF x
    <2>5. NodeOk(x, n, lost) /\ x.cnt.inv = chain[i].cnt.inv
      BY <2>2, <2>4, Zenon DEF NodeOk
    <2>6. real' = real /\ UNCHANGED <<cable, dio, reply, handoff, mon>>
      BY <1>4, Zenon DEF Readdress
    <2>7. real'.bad = real.bad /\ real'.all = n /\ real'.lost = lost /\ RealOk(real')
      BY <1>0, <2>6, Zenon DEF n, lost
    <2>8. QED BY <1>1, <2>3, <2>5, <2>6, <2>7, Zenon
  <1>5. QED BY <1>2, <1>3, <1>4, Zenon

\* bad_cable: another cable goes bad.
LEMMA CableInv == ASSUME DiagInv, BadCable PROVE DiagInv'
  <1>1. PICK k \in Slaves, m \in 1 .. MaxBad : cable' = [node |-> k, left |-> m]
    BY Zenon DEF BadCable
  <1>2. CableOk(cable')
    BY <1>1, Zenon DEF CableOk
  <1>3. UNCHANGED <<chain, dio, reply, handoff, mon, real>>
    BY Zenon DEF BadCable
  <1>4. /\ RealOk(real') /\ ChainOk(chain', real'.all, real'.lost) /\ real'.bad = real.bad /\ real'.all = real.all
        /\ real'.lost = real.lost /\ \A i \in Slaves : chain'[i].cnt.inv = chain[i].cnt.inv
    BY <1>3, Zenon DEF DiagInv
  <1>5. QED BY <1>2, <1>3, <1>4, ChainMoves, Zenon

\* How far a frame gets depends on who is on.
LEMMA SameReach ==
  ASSUME NEW sh, NEW ch, \A i \in Slaves : sh[i].on = ch[i].on
  PROVE  Reach(sh) = Reach(ch)
  <1> DEFINE m == Reach(sh)
             n == Reach(ch)
  <1>1. Ends(sh, m) /\ Ends(ch, n)
    BY ReachEnds, Zenon
  <1> HIDE DEF m, n
  <1>2. m \in 0 .. N /\ n \in 0 .. N
    BY <1>1, Zenon DEF Ends
  <1>3. ~(m < n)
    <2>1. SUFFICES ASSUME m < n PROVE FALSE
      BY Zenon
    <2>2. m < N /\ m + 1 \in Slaves /\ m + 1 \in 1 .. n
      BY <1>2, <2>1, DiagAssumption DEF Slaves
    <2>3. QED BY <1>1, <2>2, Zenon DEF Ends
  <1>4. ~(n < m)
    <2>1. SUFFICES ASSUME n < m PROVE FALSE
      BY Zenon
    <2>2. n < N /\ n + 1 \in Slaves /\ n + 1 \in 1 .. m
      BY <1>2, <2>1, DiagAssumption DEF Slaves
    <2>3. QED BY <1>1, <2>2, Zenon DEF Ends
  <1>5. m = n
    BY <1>2, <1>3, <1>4, DiagAssumption
  <1>6. QED BY <1>5, Zenon DEF m, n

\* The datagrams describe the chain they pass.
LEMMA RawTells ==
  ASSUME NEW n \in Nat, NEW lost, ChainOk(chain, n, lost), NEW first, NEW count
  PROVE  /\ RawOk(Raw(first, count), n)
         /\ \A i \in Slaves : Brings(Raw(first, count), i) =
              IF i \in first .. first + count - 1 /\ i <= Reach(chain) /\ chain[i].addr THEN chain[i].cnt.inv ELSE 0
  <1> DEFINE r == Raw(first, count)
             a == [i \in Slaves |-> [wkc |-> i <= Reach(chain) /\ chain[i].addr, err |-> chain[i].cnt,
                                     link1 |-> Link1(chain, i), al |-> chain[i].al]]
  <1>1. r.ok = TRUE /\ r.first = first /\ r.count = count /\ r.brd = Reach(chain) /\ r.then = Shape /\ r.s = a
    BY Zenon DEF Raw
  <1> HIDE DEF r
  <1>2. \A i \in Slaves : Shape[i].on = chain[i].on /\ Shape[i].addr = chain[i].addr /\ Shape[i].al = chain[i].al
    BY Zenon DEF Shape
  <1>3. Reach(Shape) = Reach(chain)
    BY <1>2, SameReach, Zenon
  <1>4. ASSUME NEW i \in Slaves
        PROVE  /\ a[i].err = chain[i].cnt /\ a[i].al = chain[i].al
               /\ a[i].wkc = (i <= Reach(chain) /\ chain[i].addr) /\ a[i].link1 = Link1(chain, i)
    BY Zenon
  <1> HIDE DEF a
  <1>5. ASSUME NEW i \in Slaves PROVE Told(a[i], Shape, i, n)
    <2>1. Tally(chain[i].cnt, n)
      BY Zenon DEF ChainOk, NodeOk
    <2>2. Link1(chain, i) => Link1(Shape, i)
      <3>1. i < N => i + 1 \in Slaves
        BY DiagAssumption DEF Slaves
      <3>2. QED BY <1>2, <3>1, Zenon DEF Link1
    <2>3. a[i].wkc \in BOOLEAN
      BY <1>4, Zenon
    <2>4. QED BY <1>2, <1>3, <1>4, <2>1, <2>2, <2>3, Zenon DEF Told
  <1>6. RawOk(r, n)
    BY <1>1, <1>3, <1>5, Zenon DEF RawOk
  <1>7. \A i \in Slaves : Brings(r, i) =
              IF i \in first .. first + count - 1 /\ i <= Reach(chain) /\ chain[i].addr THEN chain[i].cnt.inv ELSE 0
    BY <1>1, <1>4, Zenon DEF Brings
  <1>8. QED BY <1>6, <1>7, Zenon DEF r

\* ecm_diag_soem_send: what the write clears is in the reply; a frame that did not go
\* out clears nothing.
LEMMA SendInv == ASSUME DiagInv, DiagSend PROVE DiagInv'
  <1> DEFINE first == IF dio.next <= N THEN dio.next ELSE 1
             count == Min({N - first + 1, PerFrame})
             nx == IF first + count > N THEN 1 ELSE first + count
  <1>1. PICK out \in BOOLEAN :
          /\ ~dio.pending /\ dio' = [dio EXCEPT !.pending = out, !.first = first, !.count = count, !.next = nx]
          /\ IF ~out
             THEN UNCHANGED <<chain, cable, reply>> /\ real' = [real EXCEPT !.sent = @ + 1]
             ELSE IF Damaged
             THEN DamageFrame(1) /\ reply' = NoRaw
             ELSE /\ chain' = Cleared(first, count)
                  /\ reply' = IF Reach(chain) = 0 THEN NoRaw ELSE Raw(first, count)
                  /\ real' = [real EXCEPT !.sent = @ + 1]
                  /\ UNCHANGED cable
          /\ UNCHANGED <<handoff, mon>>
    BY Zenon DEF DiagSend
  <1> HIDE DEF first, count, nx
  <1>2. reply = NoRaw /\ dio'.pending = out /\ "pending" \in DOMAIN dio'
    <2>1. reply = NoRaw /\ "pending" \in DOMAIN dio
      BY <1>1, Zenon DEF DiagInv, DioOk
    <2>2. QED BY <1>1, <2>1, Zenon
  <1>3. DioOk(dio', reply')
    BY <1>1, <1>2, Zenon DEF DioOk
  <1>7. CASE ~out
    <2> DEFINE n == real.all
    <2>0. ChainOk(chain, n, real.lost) /\ RealOk(real) /\ n \in Nat /\ CableOk(cable) /\ WayOk(n)
      BY Zenon DEF DiagInv, RealOk
    <2>1. /\ real'.bad = real.bad /\ real'.all = n /\ real'.lost = real.lost
          /\ {"bad", "all", "power", "sent", "lost"} \subseteq DOMAIN real'
      BY <1>1, <1>7, <2>0, Zenon DEF RealOk
    <2>2. RealOk(real') /\ CableOk(cable')
      BY <1>1, <1>7, <2>0, <2>1, Zenon DEF RealOk
    <2>3. ChainOk(chain', n, real.lost)
      BY <1>1, <1>7, <2>0, Zenon
    <2>4. WayOk(real.all)'
      BY <1>1, <1>7, <2>0, <2>1, Zenon DEF WayOk
    <2>5. \A i \in Slaves : Counted(i)' = Counted(i)
      BY <1>1, <1>7, Zenon DEF Counted
    <2>6. QED BY <1>3, <2>1, <2>2, <2>3, <2>4, <2>5, MovesInv, ZenonT(40)
  <1>4. CASE out /\ Damaged
    BY <1>1, <1>2, <1>3, <1>4, DamageInv, Zenon
  <1>5. CASE out /\ ~Damaged
    <2> DEFINE n == real.all
               lost == real.lost
               A(i) == i \in first .. first + count - 1 /\ i <= Reach(chain) /\ chain[i].addr
    <2>0. ChainOk(chain, n, lost) /\ RealOk(real) /\ n \in Nat /\ CableOk(cable) /\ WayOk(n)
      BY Zenon DEF DiagInv, RealOk
    <2>1. /\ real'.bad = real.bad /\ real'.all = n /\ real'.lost = lost
          /\ {"bad", "all", "power", "sent", "lost"} \subseteq DOMAIN real'
      BY <1>1, <1>5, <2>0, Zenon DEF RealOk
    <2>2. RealOk(real') /\ CableOk(cable')
      BY <1>1, <1>5, <2>0, <2>1, Zenon DEF RealOk
    <2>3. RawOk(reply', n) /\ \A i \in Slaves : Brings(reply', i) = IF A(i) THEN chain[i].cnt.inv ELSE 0
      <3>1. CASE Reach(chain) = 0
        <4>1. reply' = NoRaw
          BY <1>1, <1>5, <3>1, Zenon
        <4>2. ASSUME NEW i \in Slaves PROVE ~A(i)
          BY <3>1, DiagAssumption DEF Slaves
        <4> HIDE DEF A
        <4>3. QED BY <4>1, <4>2, NoRawOk, Zenon
      <3>2. CASE Reach(chain) # 0
        <4> DEFINE r == Raw(first, count)
        <4>1. reply' = r
          BY <1>1, <1>5, <3>2, Zenon
        <4>2. RawOk(r, n) /\ \A i \in Slaves : Brings(r, i) = IF A(i) THEN chain[i].cnt.inv ELSE 0
          BY <2>0, RawTells, Zenon
        <4> HIDE DEF r, A
        <4>3. QED BY <4>1, <4>2, Zenon
      <3>3. QED BY <3>1, <3>2, Zenon
    <2>4. ASSUME NEW i \in Slaves
          PROVE  /\ NodeOk(chain'[i], n, lost)
                 /\ chain'[i].cnt.inv = IF A(i) THEN 0 ELSE chain[i].cnt.inv
      <3> DEFINE x == [chain[i] EXCEPT !.cnt = Zero]
      <3>1. chain'[i] = IF A(i) THEN x ELSE chain[i]
        BY <1>1, <1>5, Zenon DEF Cleared
      <3>2. NodeOk(chain[i], n, lost)
        BY <2>0, Zenon DEF ChainOk
      <3>3. Marks \subseteq DOMAIN x /\ x.on = chain[i].on /\ x.addr = chain[i].addr /\ x.cnt = Zero
        BY <3>2, Zenon DEF NodeOk, Marks
      <3> HIDE DEF x, A
      <3>4. NodeOk(x, n, lost) /\ x.cnt.inv = 0
        BY <2>0, <3>2, <3>3, ZeroTally, Zenon DEF NodeOk
      <3>5. QED BY <3>1, <3>2, <3>4, Zenon
    <2>5. DOMAIN chain' = Slaves
      BY <1>1, <1>5, Zenon DEF Cleared
    <2> HIDE DEF A, n, lost
    <2>6. ChainOk(chain', n, lost)
      BY <2>4, <2>5, Zenon DEF ChainOk
    <2>7. WayOk(real.all)'
      BY <1>1, <2>0, <2>1, <2>3, Zenon DEF WayOk
    <2>8. ASSUME NEW i \in Slaves PROVE Counted(i)' = Counted(i)
      <3> DEFINE c == chain[i].cnt.inv
                 t == mon.s[i].tot.inv
                 q == Queued(handoff, i)
                 c2 == chain'[i].cnt.inv
                 b2 == Brings(reply', i)
      <3>1. t \in Nat /\ q \in Nat /\ c \in Nat
        BY <2>0, PartsNat, Zenon
      <3>2. Counted(i) = t + q + 0 + c
        <4>1. Brings(reply, i) = 0
          BY <1>2, NoRawOk, Zenon
        <4>2. QED BY <4>1, Zenon DEF Counted
      <3>3. Counted(i)' = t + q + b2 + c2
        BY <1>1, Zenon DEF Counted
      <3>4. (b2 = c /\ c2 = 0) \/ (b2 = 0 /\ c2 = c)
        BY <2>3, <2>4, Zenon
      <3> HIDE DEF c, t, q, c2, b2
      <3>5. t + q + b2 + c2 = t + q + 0 + c
        BY <3>1, <3>4
      <3>6. QED BY <3>2, <3>3, <3>5, Zenon
    <2>9. QED BY <1>3, <2>1, <2>2, <2>6, <2>7, <2>8, MovesInv, ZenonT(40) DEF n, lost
  <1>6. QED BY <1>4, <1>5, <1>7, Zenon

\* A raw is put into the handoff, or dropped with its counts.
LEMMA HandedInv ==
  ASSUME DiagInv, NEW r, RawOk(r, real.all), handoff' = Put(r), reply' = NoRaw, dio' = [dio EXCEPT !.pending = FALSE],
         NEW l \in BOOLEAN, real' = [real EXCEPT !.lost = l], real.lost => l, UNCHANGED <<chain, cable, mon>>,
         \A i \in Slaves : Brings(r, i) = Brings(reply, i) \/ (l /\ Brings(r, i) = 0),
         Len(handoff) = 2 => l \/ \A i \in Slaves : Brings(reply, i) = 0
  PROVE  DiagInv'
  <1> DEFINE n == real.all
  <1>0. ChainOk(chain, n, real.lost) /\ RealOk(real) /\ n \in Nat /\ CableOk(cable) /\ WayOk(n)
    BY Zenon DEF DiagInv, RealOk
  <1>1. /\ real'.bad = real.bad /\ real'.all = n /\ real'.lost = l
        /\ {"bad", "all", "power", "sent", "lost"} \subseteq DOMAIN real'
    BY <1>0, Zenon DEF RealOk
  <1>2. RealOk(real') /\ CableOk(cable')
    BY <1>0, <1>1, Zenon DEF RealOk
  <1>3. ChainOk(chain', n, l)
    BY <1>0, Zenon DEF ChainOk, NodeOk
  <1>4. DioOk(dio', reply')
    <2>1. "pending" \in DOMAIN dio
      BY Zenon DEF DiagInv, DioOk
    <2>2. "pending" \in DOMAIN dio'
      BY <2>1, Zenon
    <2>3. QED BY <2>2, Zenon DEF DioOk
  <1>5. PutResult(handoff, r, n, handoff')
    BY <1>0, PutIs, Zenon DEF WayOk
  <1>6. WayOk(real.all)'
    BY <1>0, <1>1, <1>5, NoRawOk, Zenon DEF WayOk, PutResult
  <1>7. ASSUME NEW i \in Slaves PROVE Counted(i)' = Counted(i) \/ (l /\ Counted(i)' <= Counted(i))
    <2> DEFINE c == chain[i].cnt.inv
               t == mon.s[i].tot.inv
               q == Queued(handoff, i)
               b == Brings(reply, i)
               q2 == Queued(handoff', i)
    <2>1. t \in Nat /\ q \in Nat /\ b \in Nat /\ c \in Nat
      BY <1>0, PartsNat, Zenon
    <2>2. Counted(i) = t + q + b + c
      BY Zenon DEF Counted
    <2>3. Counted(i)' = t + q2 + 0 + c
      <3>1. Brings(reply', i) = 0
        BY NoRawOk, Zenon
      <3>2. QED BY <3>1, Zenon DEF Counted
    <2>4. q2 = q + b \/ (l /\ q2 = q + 0) \/ (l /\ q2 = q) \/ (b = 0 /\ q2 = q)
      BY <1>5, Zenon DEF PutResult
    <2> HIDE DEF c, t, q, b, q2
    <2>5. t + q2 + 0 + c = t + q + b + c \/ (l /\ t + q2 + 0 + c <= t + q + b + c)
      BY <2>1, <2>4
    <2>6. QED BY <2>2, <2>3, <2>5, Zenon
  <1>8. QED BY <1>1, <1>2, <1>3, <1>4, <1>6, <1>7, MovesInv, ZenonT(40)

\* ecm_diag_soem_collect, with a reply and without one in time.
LEMMA CollectInv == ASSUME DiagInv, DiagCollect \/ DiagGiveUp PROVE DiagInv'
  <1>0. RawOk(reply, real.all) /\ real.lost \in BOOLEAN
    BY Zenon DEF DiagInv, WayOk, RealOk
  <1>1. CASE DiagCollect
    <2> DEFINE l == real.lost \/ Len(handoff) = 2
    <2>1. /\ dio' = [dio EXCEPT !.pending = FALSE] /\ handoff' = Put(reply) /\ reply' = NoRaw
          /\ real' = [real EXCEPT !.lost = l] /\ UNCHANGED <<chain, cable, mon>>
      BY <1>1, Zenon DEF DiagCollect
    <2>2. l \in BOOLEAN /\ (real.lost => l) /\ (Len(handoff) = 2 => l)
      BY Zenon
    <2> HIDE DEF l
    <2>3. QED BY <1>0, <2>1, <2>2, HandedInv, Zenon
  <1>2. CASE DiagGiveUp
    <2> DEFINE l == real.lost \/ reply.ok
    <2>1. /\ dio' = [dio EXCEPT !.pending = FALSE] /\ handoff' = Put(NoRaw) /\ reply' = NoRaw
          /\ real' = [real EXCEPT !.lost = l] /\ UNCHANGED <<chain, cable, mon>>
      BY <1>2, Zenon DEF DiagGiveUp
    <2>2. l \in BOOLEAN /\ (real.lost => l) /\ (reply.ok => l)
      BY Zenon
    <2>3. \A i \in Slaves : l \/ Brings(reply, i) = 0
      BY Zenon DEF Brings
    <2> HIDE DEF l
    <2>4. RawOk(NoRaw, real.all) /\ \A i : Brings(NoRaw, i) = 0
      BY NoRawOk, Zenon
    <2>5. /\ \A i \in Slaves : Brings(NoRaw, i) = Brings(reply, i) \/ (l /\ Brings(NoRaw, i) = 0)
          /\ Len(handoff) = 2 => l \/ \A i \in Slaves : Brings(reply, i) = 0
      BY <2>3, <2>4, Zenon
    <2>6. QED BY <2>1, <2>2, <2>4, <2>5, HandedInv, Zenon
  <1>3. QED BY <1>1, <1>2, Zenon

\* The monitor takes the oldest raw: its counts move into the totals.
LEMMA MonitorInv == ASSUME DiagInv, Monitor PROVE DiagInv'
  <1> DEFINE n == real.all
             r == Head(handoff)
  <1>0. ChainOk(chain, n, real.lost) /\ RealOk(real) /\ n \in Nat /\ CableOk(cable) /\ WayOk(n) /\ DioOk(dio, reply)
    BY Zenon DEF DiagInv, RealOk
  <1>1. /\ handoff # <<>> /\ mon' = IngestRaw(mon, r) /\ handoff' = Tail(handoff)
        /\ UNCHANGED <<chain, cable, dio, reply, real>>
    BY Zenon DEF Monitor
  <1>2. GetResult(handoff, n)
    BY <1>0, <1>1, GetIs, Zenon DEF WayOk
  <1>3. Ingested(mon, r, n, mon')
    BY <1>0, <1>1, <1>2, RawIngested, Zenon DEF WayOk, GetResult
  <1>4. WayOk(real.all)'
    BY <1>0, <1>1, <1>2, <1>3, Zenon DEF WayOk, GetResult, Ingested
  <1>5. ASSUME NEW i \in Slaves PROVE Counted(i)' = Counted(i)
    <2> DEFINE c == chain[i].cnt.inv
               t == mon.s[i].tot.inv
               q2 == Queued(Tail(handoff), i)
               b == Brings(reply, i)
               a == Brings(r, i)
    <2>1. t \in Nat /\ b \in Nat /\ c \in Nat
      BY <1>0, PartsNat, Zenon
    <2>2. q2 \in Nat /\ a \in Nat
      BY <1>0, <1>2, QueuedNat, BringsNat, Zenon DEF GetResult
    <2>3. Counted(i) = t + (a + q2) + b + c
      BY <1>2, Zenon DEF Counted, GetResult
    <2>4. Counted(i)' = (t + a) + q2 + b + c
      BY <1>1, <1>3, Zenon DEF Counted, Ingested
    <2> HIDE DEF c, t, q2, b, a
    <2>5. t + (a + q2) + b + c = (t + a) + q2 + b + c
      BY <2>1, <2>2
    <2>6. QED BY <2>3, <2>4, <2>5, Zenon
  <1>6. QED BY <1>0, <1>1, <1>4, <1>5, MovesInv, Zenon

\* Every step keeps the invariant.
LEMMA DiagStep == ASSUME DiagInv, [DiagNext]_diagVars PROVE DiagInv'
  <1>1. CASE PdFrame
    <2>1. DamageFrame(0) /\ UNCHANGED <<dio, reply, handoff, mon>>
      BY <1>1, Zenon DEF PdFrame
    <2>2. DioOk(dio', reply')
      BY <2>1, Zenon DEF DiagInv
    <2>3. QED BY <2>1, <2>2, DamageInv, Zenon
  <1>2. CASE UNCHANGED diagVars
    <2>1. UNCHANGED <<chain, cable, dio, reply, handoff, mon, real>>
      BY <1>2, Zenon DEF diagVars
    <2>2. /\ RealOk(real') /\ CableOk(cable') /\ ChainOk(chain', real'.all, real'.lost)
          /\ real'.bad = real.bad /\ real'.all = real.all
          /\ real'.lost = real.lost /\ \A i \in Slaves : chain'[i].cnt.inv = chain[i].cnt.inv
      BY <2>1, Zenon DEF DiagInv
    <2>3. QED BY <2>1, <2>2, ChainMoves, Zenon
  <1>3. QED BY <1>1, <1>2, CableInv, PowerInv, SendInv, CollectInv, MonitorInv, Zenon DEF DiagNext

\* The invariant holds at the start.
LEMMA DiagInitInv == ASSUME DiagInit PROVE DiagInv
  <1> DEFINE x == [on |-> TRUE, addr |-> TRUE, al |-> "op", cnt |-> Zero]
             y == [tot |-> Zero, last |-> Zero, seen |-> 0, answered |-> FALSE, link1 |-> FALSE,
                   al |-> "none", saturated |-> 0]
  <1>1. /\ chain = [i \in Slaves |-> x] /\ cable = [node |-> 1, left |-> 0]
        /\ dio = [pending |-> FALSE, first |-> 1, count |-> 0, next |-> 1] /\ reply = NoRaw /\ handoff = <<>>
        /\ mon = [reads |-> 0, brd |-> -1, then |-> Shape, s |-> [i \in Slaves |-> y]]
        /\ real = [bad |-> [i \in Slaves |-> 0], all |-> 0, power |-> 0, sent |-> 0, lost |-> FALSE]
    BY Zenon DEF DiagInit
  <1>2. real.all = 0 /\ real.lost = FALSE /\ real.bad = [i \in Slaves |-> 0]
        /\ {"bad", "all", "power", "sent", "lost"} \subseteq DOMAIN real
    BY <1>1, Zenon
  <1>3. RealOk(real)
    <2>1. [i \in Slaves |-> 0] \in [Slaves -> Nat] /\ 0 \in Nat /\ ~(0 > 0)
      OBVIOUS
    <2>2. QED BY <1>2, <2>1, Zenon DEF RealOk
  <1>4. Tally(Zero, 0) /\ Totals(Zero, 0) /\ Zero.inv = 0
    BY ZeroTally, Zenon
  <1>5. ChainOk(chain, 0, FALSE) /\ \A i \in Slaves : chain[i].cnt.inv = 0
    <2>1. Marks \subseteq DOMAIN x /\ x.on = TRUE /\ x.addr = TRUE /\ x.cnt = Zero
      BY Zenon DEF Marks
    <2> HIDE DEF x
    <2>2. NodeOk(x, 0, FALSE)
      BY <1>4, <2>1, Zenon DEF NodeOk
    <2>3. QED BY <1>1, <1>4, <2>1, <2>2, Zenon DEF ChainOk
  <1>6. CableOk(cable) /\ DioOk(dio, reply)
    <2>1. 1 \in Slaves /\ {"node", "left"} \subseteq DOMAIN cable /\ cable.node = 1 /\ "pending" \in DOMAIN dio
      BY <1>1, DiagAssumption DEF Slaves
    <2>2. QED BY <1>1, <2>1, ZenonT(40) DEF CableOk, DioOk
  <1>7. MonOk(mon, 0) /\ \A i \in Slaves : mon.s[i].tot.inv = 0
    <2>1. /\ {"reads", "brd", "then", "s"} \subseteq DOMAIN mon /\ mon.reads = 0 /\ mon.brd = -1
          /\ mon.s = [i \in Slaves |-> y]
      BY <1>1, Zenon
    <2>2. Voice \subseteq DOMAIN y /\ y.tot = Zero /\ y.seen = 0 /\ y.saturated = 0
      BY Zenon DEF Voice
    <2> HIDE DEF y
    <2>3. 0 \in Nat /\ ~(0 > 0) /\ 0 <= 0
      OBVIOUS
    <2>4. Base(y, 0) /\ \A i, sh : Says(y, 0, -1, sh, i)
      BY <1>4, <2>2, <2>3, Zenon DEF Base, Says
    <2>5. QED BY <1>4, <2>1, <2>2, <2>3, <2>4, Zenon DEF MonOk
  <1>8. WayOk(0)
    BY <1>1, <1>7, NoRawOk, Zenon DEF WayOk, HandoffOk
  <1>9. CountsAddUp
    <2>1. ASSUME NEW i \in Slaves PROVE Counted(i) = 0 /\ real.bad[i] = 0
      <3>1. Brings(reply, i) = 0 /\ real.bad[i] = 0
        BY <1>1, <1>2, NoRawOk, ZenonT(40)
      <3>2. Queued(handoff, i) = 0
        BY <1>1 DEF Queued, Waits
      <3>3. QED BY <1>5, <1>7, <3>1, <3>2 DEF Counted
    <2>2. QED BY <2>1 DEF CountsAddUp
  <1>10. QED BY <1>2, <1>3, <1>5, <1>6, <1>8, <1>9, ZenonT(40) DEF DiagInv

-----------------------------------------------------------------------------
(* The findings.                                                           *)

\* The smaller of two.
LEMMA MinOfTwo == ASSUME NEW a \in Int, NEW b \in Int PROVE Min({a, b}) \in {a, b} /\ Min({a, b}) <= a /\ Min({a, b}) <= b
  <1>1. \E x \in {a, b} : \A y \in {a, b} : x <= y
    <2>1. CASE a <= b
      BY <2>1
    <2>2. CASE b <= a
      BY <2>2
    <2>3. QED BY <2>1, <2>2
  <1>2. QED BY <1>1, Zenon DEF Min

\* The invariant leaves no finding without a cause.
LEMMA FindingsAreSound == ASSUME DiagInv, mon.reads > 0, NEW f \in Analyze(mon) PROVE Sound(f)
  <1> DEFINE d == mon
             n == real.all
             sh == mon.then
  <1>0. /\ MonOk(d, n) /\ n \in Nat /\ d.reads \in Nat /\ (d.brd = -1 \/ d.brd = Reach(sh))
        /\ n > 0 => \E i \in Slaves : real.bad[i] > 0
    BY Zenon DEF DiagInv, WayOk, RealOk, MonOk
  <1>1. Ends(sh, Reach(sh))
    BY ReachEnds, Zenon
  <1>2. \A i \in Slaves : Base(d.s[i], n) /\ Says(d.s[i], d.reads, d.brd, sh, i)
    BY <1>0, Zenon DEF MonOk
  <1>3. ASSUME NEW i \in Slaves PROVE Totals(d.s[i].tot, n)
    BY <1>2, Zenon DEF Base
  <1>4. CASE f \in Topology(d)
    <2>1. d.brd \in 0 .. N - 1
      BY <1>4, Zenon DEF Topology
    <2>2. d.brd = Reach(sh) /\ d.brd < N
      BY <1>0, <2>1, DiagAssumption
    <2>3. ~sh[d.brd + 1].on
      BY <1>1, <2>2, Zenon DEF Ends
    <2>4. ~(d.brd > 0 /\ Seen(d, d.brd) /\ d.s[d.brd].answered /\ d.s[d.brd].link1)
      <3>1. SUFFICES ASSUME d.brd > 0, Seen(d, d.brd), d.s[d.brd].answered, d.s[d.brd].link1 PROVE FALSE
        BY Zenon
      <3>2. d.brd \in Slaves
        BY <2>1, <3>1, DiagAssumption DEF Slaves
      <3>3. Link1(sh, d.brd)
        BY <1>2, <3>1, <3>2, Zenon DEF Says, Seen
      <3>4. QED BY <2>3, <3>3, Zenon DEF Link1
    <2>5. f = [type |-> "CHAIN_BROKEN", a |-> d.brd]
      BY <1>4, <2>1, <2>4, Zenon DEF Topology
    <2>6. f.type = "CHAIN_BROKEN" /\ f.a = d.brd
      BY <2>5, Zenon
    <2>7. QED BY <2>2, <2>3, <2>6, Zenon DEF Sound
  <1>5. CASE f \in NoAddress(d)
    <2>1. PICK i \in 1 .. OnBus(d) : Seen(d, i) /\ ~d.s[i].answered /\ f = [type |-> "NO_ADDRESS", a |-> i]
      BY <1>5, Zenon DEF NoAddress
    <2>2. OnBus(d) \in Int /\ OnBus(d) <= N /\ (d.brd >= 0 => OnBus(d) <= d.brd)
      <3>1. d.brd \in Int /\ N \in Int
        BY <1>0, <1>1, DiagAssumption DEF Ends
      <3>2. CASE d.brd < 0
        BY <3>1, <3>2 DEF OnBus
      <3>3. CASE ~(d.brd < 0)
        <4>1. OnBus(d) = Min({d.brd, N})
          BY <3>3, Zenon DEF OnBus
        <4>2. Min({d.brd, N}) \in {d.brd, N} /\ Min({d.brd, N}) <= d.brd /\ Min({d.brd, N}) <= N
          BY <3>1, MinOfTwo, Zenon
        <4>3. QED BY <3>1, <4>1, <4>2, Zenon
      <3>4. QED BY <3>2, <3>3, Zenon
    <2>3. i \in Slaves
      BY <2>1, <2>2, DiagAssumption DEF Slaves
    <2>4. d.brd = Reach(sh) /\ ~(i <= Reach(sh) /\ sh[i].addr)
      BY <1>2, <2>1, <2>3, ZenonT(40) DEF Says, Seen
    <2>5. i \in 1 .. Reach(sh)
      <3>1. Reach(sh) \in 0 .. N
        BY <1>1, Zenon DEF Ends
      <3>2. QED BY <2>1, <2>2, <2>4, <3>1, DiagAssumption
    <2>6. sh[i].on /\ ~sh[i].addr
      <3>1. i <= Reach(sh)
        BY <1>1, <2>5 DEF Ends
      <3>2. QED BY <1>1, <2>4, <2>5, <3>1, Zenon DEF Ends
    <2>7. f.type = "NO_ADDRESS" /\ f.a = i
      BY <2>1, Zenon
    <2>8. QED BY <2>6, <2>7, Zenon DEF Sound
  <1>6. CASE f \in CableFwd(d)
    <2>1. PICK i \in Slaves : d.s[i].tot.inv > 0 /\ f = [type |-> "CABLE_FWD", a |-> i]
      BY <1>6, ZenonT(40) DEF CableFwd, Origins
    <2>2. real.bad[i] > 0
      <3>1. /\ mon.s[i].tot.inv \in Nat /\ Queued(handoff, i) \in Nat /\ Brings(reply, i) \in Nat
            /\ chain[i].cnt.inv \in Nat
        BY <1>0, PartsNat, Zenon DEF DiagInv
      <3>2. Counted(i) <= real.bad[i] /\ real.bad[i] \in Nat
        BY Zenon DEF DiagInv, CountsAddUp, RealOk
      <3>3. QED BY <2>1, <3>1, <3>2 DEF Counted
    <2>3. f.type = "CABLE_FWD" /\ f.a = i
      BY <2>1, Zenon
    <2>4. QED BY <2>2, <2>3, Zenon DEF Sound
  <1>7. CASE f \in FwdNoOrigin(d)
    <2> DEFINE odd == {i \in Slaves :
                          LET t == d.s[i].tot
                          IN (t.f0 > 0 /\ ~\E j \in Origins(d) : j <= i) \/ (t.f0 + t.f1 > 0 /\ Origins(d) = {})}
    <2>0. FwdNoOrigin(d) = IF odd = {} THEN {} ELSE {[type |-> "FWD_NO_ORIGIN", a |-> Min(odd)]}
      BY Zenon DEF FwdNoOrigin
    <2>5. odd # {} /\ f = [type |-> "FWD_NO_ORIGIN", a |-> Min(odd)]
      BY <1>7, <2>0, Zenon
    <2>1. \E i \in Slaves : d.s[i].tot.f0 > 0 \/ d.s[i].tot.f0 + d.s[i].tot.f1 > 0
      BY <2>5, ZenonT(40)
    <2> HIDE DEF odd
    <2>2. n > 0
      <3>1. PICK i \in Slaves : d.s[i].tot.f0 > 0 \/ d.s[i].tot.f0 + d.s[i].tot.f1 > 0
        BY <2>1, Zenon
      <3>2. Totals(d.s[i].tot, n)
        BY <1>3, Zenon
      <3>3. QED BY <3>1, <3>2 DEF Totals, Key
    <2>3. f.type = "FWD_NO_ORIGIN"
      BY <2>5, Zenon
    <2>4. QED BY <1>0, <2>2, <2>3, Zenon DEF Sound
  <1>8. f \notin PuOnly(d)
    <2>1. ASSUME NEW i \in Slaves PROVE LET t == d.s[i].tot IN ~(t.pu > 0 /\ t.inv = 0 /\ t.f0 = 0 /\ t.f1 = 0)
      <3>1. Totals(d.s[i].tot, n)
        BY <1>3, Zenon
      <3>2. QED BY <3>1 DEF Totals
    <2>2. QED BY <2>1, ZenonT(40) DEF PuOnly
  <1>9. CASE f \in Saturated(d)
    <2>1. PICK i \in Slaves : d.s[i].saturated > 0 /\ f = [type |-> "SATURATED", a |-> i]
      BY <1>9, Zenon DEF Saturated
    <2>2. n >= CountMax
      BY <1>2, <2>1, Zenon DEF Base
    <2>3. f.type = "SATURATED"
      BY <2>1, Zenon
    <2>4. QED BY <2>2, <2>3, Zenon DEF Sound
  <1>10. CASE f \in AlState(d)
    <2>1. PICK i \in Slaves : Seen(d, i) /\ d.s[i].answered /\ d.s[i].al # "op" /\ f = [type |-> "STATE", a |-> i]
      BY <1>10, Zenon DEF AlState
    <2>2. d.s[i].al = sh[i].al
      BY <1>2, <2>1, Zenon DEF Says, Seen
    <2>3. f.type = "STATE" /\ f.a = i
      BY <2>1, Zenon
    <2>4. QED BY <2>1, <2>2, <2>3, Zenon DEF Sound
  <1>11. QED BY <1>4, <1>5, <1>6, <1>7, <1>8, <1>9, <1>10, ZenonT(40) DEF Analyze

\* For every chain, chunk and counter range: what the monitor counted, what is on
\* its way and what the counters hold never exceeds the frames that were damaged,
\* and is all of them while no reply, slave or full counter lost any
\* (ecm_diag_soem_send with FPRW, ecm_diag_ingest).
THEOREM DiagCountsAddUp == DiagSpec => []CountsAddUp
  <1>1. DiagInv => CountsAddUp
    BY Zenon DEF DiagInv
  <1>2. DiagInv /\ [DiagNext]_diagVars => DiagInv'
    BY DiagStep, Zenon
  <1>3. QED BY <1>1, <1>2, DiagInitInv, PTL DEF DiagSpec

\* For every chain: no finding of ecm_diag_analyze blames a place where nothing
\* was wrong, whatever was damaged, lost, switched off and read in chunks.
THEOREM BlamesAreSound == DiagSpec => []BlameIsSound
  <1>1. DiagInv => BlameIsSound
    BY FindingsAreSound, Zenon DEF BlameIsSound
  <1>2. DiagInv /\ [DiagNext]_diagVars => DiagInv'
    BY DiagStep, Zenon
  <1>3. QED BY <1>1, <1>2, DiagInitInv, PTL DEF DiagSpec
=============================================================================
