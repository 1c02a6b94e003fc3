-------------------------- MODULE RtReplies_proofs --------------------------
(***************************************************************************)
(* The frame indexes of the RT loop.  First the steps of a tick on the     *)
(* pool, one lemma per operator: each keeps the pool consistent (Pool), so *)
(* that the round robin always finds a free index and an index in          *)
(* quarantine is not given out while nothing was released early.  Then the *)
(* tick as a whole keeps RtInv: every reply still under way is accounted   *)
(* for by an index that is in flight, or parked for as long as the reply   *)
(* may take.  From it, a reply taken for a frame is the reply to that      *)
(* frame.  The facts about finite sets are a hypothesis of the lemmas      *)
(* (SetFacts); the last section discharges it.                             *)
(***************************************************************************)
EXTENDS RtReplies, TLAPS

-----------------------------------------------------------------------------
(* Sets and numbers                                                        *)

\* What is used of sets of indexes and of naturals; SetFactsHold proves it from
\* the library.
SetFacts ==
  /\ \A T \in SUBSET Nat : T # {} => \E x \in T : \A y \in T : x <= y
  /\ \A S \in SUBSET Idx : Cardinality(S) \in Nat
  /\ Cardinality({}) = 0
  /\ \A S \in SUBSET Idx : \A i \in S : Cardinality(S \ {i}) = Cardinality(S) - 1
  /\ \A S \in SUBSET Idx : \A i \in Idx \ S : Cardinality(S \cup {i}) = Cardinality(S) + 1
  /\ \A S \in SUBSET Idx : \A T \in SUBSET S : Cardinality(T) <= Cardinality(S)
  /\ Cardinality(Idx) = NumIdx

\* Quotient and remainder.
LEMMA DivMod ==
  ASSUME NEW n \in Nat \ {0}, NEW a \in Int
  PROVE  /\ (a % n) \in 0 .. n - 1 /\ (a \div n) \in Int
         /\ a = (n * (a \div n)) + (a % n)
  OBVIOUS

\* Multiples of n are n apart.
LEMMA MulApart ==
  ASSUME NEW n \in Nat \ {0}, NEW p \in Int, NEW q \in Int, p > q
  PROVE  n * p >= (n * q) + n
  OBVIOUS

\* There is one way to write a number as a multiple of n and a remainder.
LEMMA RemainderIsUnique ==
  ASSUME NEW n \in Nat \ {0}, NEW p \in Int, NEW q \in Int,
         NEW r \in 0 .. n - 1, NEW s \in 0 .. n - 1, (n * p) + r = (n * q) + s
  PROVE  r = s
  <1>1. n * p \in Int /\ n * q \in Int
    OBVIOUS
  <1>2. ~(p > q)
    BY <1>1, MulApart
  <1>3. ~(q > p)
    BY <1>1, MulApart
  <1>4. p = q
    BY <1>2, <1>3
  <1>5. QED BY <1>1, <1>4

\* The remainder of a number written in that way.
LEMMA ModIs ==
  ASSUME NEW n \in Nat \ {0}, NEW a \in Int, NEW p \in Int, NEW r \in 0 .. n - 1, a = (n * p) + r
  PROVE  a % n = r
  <1>1. (n * (a \div n)) + (a % n) = (n * p) + r
    BY DivMod, Zenon
  <1>2. (a % n) \in 0 .. n - 1 /\ (a \div n) \in Int
    BY DivMod, Zenon
  <1>3. QED BY <1>1, <1>2, RemainderIsUnique, Zenon

-----------------------------------------------------------------------------
(* Indexes                                                                 *)

Stat  == {"empty", "tx", "rcvd", "complete"}
Frm   == [kind : {"none", "motion", "io", "diag"}, at : Int]
Buf   == [stat : [Idx -> Stat], tx : [Idx -> Frm], rx : [Idx -> Frm], last : Idx]
Quar  == UNION {[S -> Nat] : S \in SUBSET Idx}
Port  == [buf : Buf, quar : Quar, spilled : BOOLEAN]

Lone(S) == \A a, b \in S : a = b

\* The pool between two steps of a tick: the parked indexes are in use
\* ("complete"), so is the one of the pending diagnostic frame, the rest is free.
Pool(x, pend) ==
  /\ x \in Port
  /\ Cardinality(DOMAIN x.quar) <= QuarMax
  /\ pend \in SUBSET Idx /\ Lone(pend) /\ pend \cap DOMAIN x.quar = {}
  /\ \A i \in Idx : /\ i \in DOMAIN x.quar => x.buf.stat[i] = "complete"
                    /\ i \in pend => x.buf.stat[i] \in {"tx", "rcvd"}
                    /\ i \notin pend \cup DOMAIN x.quar => x.buf.stat[i] = "empty"

\* Without an early release nothing that was parked in x is free in y.
Keeps(x, y) ==
  /\ x.spilled => y.spilled
  /\ ~y.spilled => \A j \in DOMAIN x.quar : j \in DOMAIN y.quar /\ y.quar[j] = x.quar[j]

\* A set of frame indices has a size.
LEMMA IdxSubset ==
  ASSUME SetFacts, NEW S \in SUBSET Idx
  PROVE  Cardinality(S) \in Nat
  BY Zenon DEF SetFacts

\* The quarantine and a pending frame never use up the pool.
LEMMA SomeFree ==
  ASSUME SetFacts, NEW x, NEW pend, Pool(x, pend)
  PROVE  \E i \in Idx : x.buf.stat[i] = "empty"
  <1> DEFINE q == DOMAIN x.quar
             used == pend \cup q
  <1>1. q \in SUBSET Idx /\ pend \in SUBSET Idx /\ Lone(pend) /\ Cardinality(q) <= QuarMax
    BY DEF Pool, Port, Quar
  <1>2. Cardinality(q) \in Nat /\ Cardinality(used) \in Nat
    BY <1>1, IdxSubset, Zenon
  <1>3. Cardinality(used) <= Cardinality(q) + 1
    <2>1. CASE pend \subseteq q
      <3>1. used = q
        BY <2>1, Zenon
      <3>2. QED BY <1>2, <3>1
    <2>2. CASE ~(pend \subseteq q)
      <3>1. PICK i \in pend : i \notin q
        BY <2>2, Zenon
      <3>2. used = q \cup {i}
        BY <1>1, <3>1, Zenon DEF Lone
      <3>3. Cardinality(q \cup {i}) = Cardinality(q) + 1
        BY <1>1, <3>1, Zenon DEF SetFacts
      <3>4. QED BY <1>2, <3>2, <3>3
    <2>3. QED BY <2>1, <2>2, Zenon
  <1>4. used # Idx
    BY <1>1, <1>2, <1>3, RtAssumption DEF SetFacts
  <1>5. PICK i \in Idx : i \notin used
    BY <1>1, <1>4, Zenon
  <1>6. QED BY <1>5, Zenon DEF Pool

\* ecx_getindex: the walk behind the last index reaches every index.
LEMMA WalkReaches ==
  ASSUME NEW l \in Idx, NEW e \in Idx
  PROVE  \E k \in 1 .. NumIdx : (l + k) % NumIdx = e
  <1> USE RtAssumption DEF Idx
  <1>1. CASE e > l
    <2>1. e - l \in 1 .. NumIdx /\ l + (e - l) = (NumIdx * 0) + e
      BY <1>1
    <2>2. (l + (e - l)) % NumIdx = e
      BY <2>1, ModIs
    <2>3. QED BY <2>1, <2>2, Zenon
  <1>2. CASE e <= l
    <2>1. (e - l) + NumIdx \in 1 .. NumIdx /\ l + ((e - l) + NumIdx) = (NumIdx * 1) + e
      BY <1>2
    <2>2. (l + ((e - l) + NumIdx)) % NumIdx = e
      BY <2>1, ModIs
    <2>3. QED BY <2>1, <2>2, Zenon
  <1>3. QED BY <1>1, <1>2

\* It never hands out an index that is in use.
LEMMA GetIndexIsFree ==
  ASSUME SetFacts, NEW x, NEW pend, Pool(x, pend)
  PROVE  GetIndex(x.buf) \in Idx /\ x.buf.stat[GetIndex(x.buf)] = "empty"
  <1> USE RtAssumption
  <1> DEFINE order(k) == (x.buf.last + k) % NumIdx
             free == {k \in 1 .. NumIdx : x.buf.stat[order(k)] = "empty"}
  <1>1. x.buf.last \in Idx
    BY Zenon DEF Pool, Port, Buf
  <1>2. PICK e \in Idx : x.buf.stat[e] = "empty"
    BY SomeFree, Zenon
  <1>3. PICK k \in 1 .. NumIdx : order(k) = e
    BY <1>1, <1>2, WalkReaches, Zenon
  <1>4. free # {} /\ free \in SUBSET Nat
    BY <1>2, <1>3
  <1>5. \E m \in free : \A j \in free : m <= j
    BY <1>4, Zenon DEF SetFacts
  <1>6. PICK m \in free : GetIndex(x.buf) = order(m)
    BY <1>4, <1>5, Zenon DEF GetIndex
  <1>7. order(m) \in Idx
    <2>1. x.buf.last + m \in Int /\ NumIdx \in Nat \ {0}
      BY <1>1, <1>6 DEF Idx
    <2>2. QED BY <2>1, DivMod, Zenon DEF Idx
  <1>8. QED BY <1>6, <1>7, Zenon

-----------------------------------------------------------------------------
(* The quarantine                                                          *)

\* quar_expire frees what is due and nothing else.
LEMMA ExpireKeepsPool ==
  ASSUME SetFacts, NEW x, NEW pend, Pool(x, pend), now \in Nat
  PROVE  LET y == QuarExpire(x) IN
         /\ Pool(y, pend) /\ y.spilled = x.spilled
         /\ \A i \in pend : y.buf.stat[i] = x.buf.stat[i]
         /\ \A i \in DOMAIN x.quar : now < x.quar[i] => i \in DOMAIN y.quar /\ y.quar[i] = x.quar[i]
  <1> DEFINE due == {i \in DOMAIN x.quar : now >= x.quar[i]}
             st == [i \in Idx |-> IF i \in due /\ x.buf.stat[i] = "complete" THEN "empty" ELSE x.buf.stat[i]]
             qu == [i \in DOMAIN x.quar \ due |-> x.quar[i]]
             y == [x EXCEPT !.buf.stat = st, !.quar = qu]
  <1>1. QuarExpire(x) = y
    BY Zenon DEF QuarExpire
  <1>2. x \in Port /\ x.buf \in Buf /\ DOMAIN x.quar \in SUBSET Idx /\ \A i \in DOMAIN x.quar : x.quar[i] \in Nat
    BY DEF Pool, Port, Quar
  <1>3. st \in [Idx -> Stat] /\ DOMAIN qu = DOMAIN x.quar \ due /\ qu \in Quar
    <2>1. st \in [Idx -> Stat]
      BY <1>2, Zenon DEF Buf, Stat
    <2>2. qu \in [DOMAIN x.quar \ due -> Nat] /\ DOMAIN x.quar \ due \in SUBSET Idx
      BY <1>2, Zenon
    <2>3. QED BY <2>1, <2>2, Zenon DEF Quar
  <1> HIDE DEF st, qu
  <1>4. y \in Port /\ y.buf.stat = st /\ y.quar = qu /\ y.spilled = x.spilled
    BY <1>2, <1>3, Zenon DEF Port, Buf
  <1> HIDE DEF y
  <1>5. Cardinality(DOMAIN qu) <= QuarMax
    <2>1. Cardinality(DOMAIN qu) <= Cardinality(DOMAIN x.quar)
      BY <1>2, <1>3, Zenon DEF SetFacts
    <2>2. DOMAIN qu \in SUBSET Idx
      BY <1>2, <1>3, Zenon
    <2>3. Cardinality(DOMAIN qu) \in Nat /\ Cardinality(DOMAIN x.quar) \in Nat
      BY <1>2, <2>2, IdxSubset, Zenon
    <2>4. QED BY <2>1, <2>3, RtAssumption DEF Pool
  <1>6. \A i \in pend : st[i] = x.buf.stat[i]
    BY <1>2, Zenon DEF Pool, st
  <1>7. \A i \in DOMAIN x.quar : now < x.quar[i] => i \in DOMAIN qu /\ qu[i] = x.quar[i]
    BY <1>2 DEF qu
  <1>8. \A i \in Idx : /\ i \in DOMAIN qu => st[i] = "complete"
                       /\ i \notin pend \cup DOMAIN qu => st[i] = "empty"
    BY <1>2, <1>3, Zenon DEF Pool, st
  <1>9. Pool(y, pend)
    <2>1. pend \in SUBSET Idx /\ Lone(pend) /\ pend \cap DOMAIN qu = {}
      BY <1>3, Zenon DEF Pool
    <2>2. \A i \in pend : st[i] \in {"tx", "rcvd"}
      BY <1>6, Zenon DEF Pool
    <2>3. \A i \in Idx : /\ i \in DOMAIN y.quar => y.buf.stat[i] = "complete"
                         /\ i \in pend => y.buf.stat[i] \in {"tx", "rcvd"}
                         /\ i \notin pend \cup DOMAIN y.quar => y.buf.stat[i] = "empty"
      BY <1>4, <1>8, <2>2, Zenon
    <2>4. y \in Port /\ Cardinality(DOMAIN y.quar) <= QuarMax /\ pend \cap DOMAIN y.quar = {}
      BY <1>4, <1>5, <2>1, Zenon
    <2>5. QED BY <2>1, <2>3, <2>4, Zenon DEF Pool
  <1>10. QED BY <1>1, <1>4, <1>6, <1>7, <1>9, Zenon

\* The oldest of the parked indexes.
LEMMA OldestIs ==
  ASSUME SetFacts, NEW q, DOMAIN q \in SUBSET Idx, DOMAIN q # {}, \A j \in DOMAIN q : q[j] \in Nat
  PROVE  Oldest(q) \in DOMAIN q /\ \A k \in DOMAIN q : q[Oldest(q)] <= q[k]
  <1> DEFINE T == {q[j] : j \in DOMAIN q}
  <1>1. T # {} /\ T \in SUBSET Nat
    BY Zenon
  <1>2. PICK t \in T : \A s \in T : t <= s
    BY <1>1, Zenon DEF SetFacts
  <1> DEFINE U == {j \in DOMAIN q : q[j] = t}
  <1>3. U # {} /\ U \in SUBSET Nat
    BY <1>2, RtAssumption DEF Idx
  <1>4. PICK j \in U : \A k \in U : j <= k
    BY <1>3, Zenon DEF SetFacts
  <1>5. ASSUME NEW k \in DOMAIN q PROVE q[j] < q[k] \/ (q[j] = q[k] /\ j <= k)
    <2>1. q[j] = t /\ t <= q[k] /\ q[k] \in Nat /\ t \in Nat
      BY <1>1, <1>2, <1>4, Zenon
    <2>2. q[k] = t => j <= k
      BY <1>4, Zenon
    <2>3. QED BY <2>1, <2>2
  <1> DEFINE o == Oldest(q)
  <1>6. o \in DOMAIN q /\ \A k \in DOMAIN q : q[o] < q[k] \/ (q[o] = q[k] /\ o <= k)
    BY <1>4, <1>5, Zenon DEF Oldest
  <1> HIDE DEF o
  <1>7. \A k \in DOMAIN q : q[o] <= q[k]
    BY <1>6
  <1>8. QED BY <1>6, <1>7, Zenon DEF o

\* An index that is released is free, and one place of the quarantine is too.
LEMMA ReleaseKeepsPool ==
  ASSUME SetFacts, NEW x, NEW pend, Pool(x, pend), NEW j \in DOMAIN x.quar
  PROVE  LET y == Release(x, j) IN
         /\ Pool(y, pend) /\ y.spilled
         /\ DOMAIN y.quar = DOMAIN x.quar \ {j} /\ \A k \in DOMAIN y.quar : y.quar[k] = x.quar[k]
         /\ \A k \in Idx \ {j} : y.buf.stat[k] = x.buf.stat[k]
         /\ Cardinality(DOMAIN y.quar) = Cardinality(DOMAIN x.quar) - 1
  <1>1. x \in Port /\ x.buf \in Buf /\ DOMAIN x.quar \in SUBSET Idx /\ \A k \in DOMAIN x.quar : x.quar[k] \in Nat
    BY DEF Pool, Port, Quar
  <1> DEFINE st == [x.buf.stat EXCEPT ![j] = "empty"]
             qu == Without(x.quar, j)
             y == Release(x, j)
  <1>2. x.buf.stat[j] = "complete" /\ j \in Idx
    BY <1>1, Zenon DEF Pool
  <1>3. st \in [Idx -> Stat] /\ \A k \in Idx : st[k] = IF k = j THEN "empty" ELSE x.buf.stat[k]
    BY <1>1, Zenon DEF Buf, Stat
  <1>4. qu \in Quar /\ DOMAIN qu = DOMAIN x.quar \ {j} /\ \A k \in DOMAIN qu : qu[k] = x.quar[k]
    <2>1. qu \in [DOMAIN x.quar \ {j} -> Nat] /\ DOMAIN x.quar \ {j} \in SUBSET Idx
      BY <1>1, Zenon DEF Without
    <2>2. QED BY <2>1, Zenon DEF Quar, Without
  <1>5. y = [x EXCEPT !.buf = [x.buf EXCEPT !.stat = st], !.quar = qu, !.spilled = TRUE]
    BY <1>1, <1>2, Zenon DEF Release, Port, Buf
  <1> HIDE DEF st, qu
  <1>6. y \in Port /\ y.buf.stat = st /\ y.quar = qu /\ y.spilled
    <2>1. y.buf.stat = st /\ y.quar = qu /\ y.spilled = TRUE
      BY <1>1, <1>5 DEF Port, Buf
    <2>2. [x.buf EXCEPT !.stat = st] \in Buf
      BY <1>1, <1>3, Zenon DEF Buf
    <2>3. y \in Port
      BY <1>1, <1>4, <1>5, <2>2, Zenon DEF Port
    <2>4. QED BY <2>1, <2>3, Zenon
  <1> HIDE DEF y
  <1>7. Cardinality(DOMAIN qu) = Cardinality(DOMAIN x.quar) - 1
    BY <1>1, <1>4, Zenon DEF SetFacts
  <1>8. Cardinality(DOMAIN qu) <= QuarMax
    <2>1. Cardinality(DOMAIN x.quar) \in Nat
      BY <1>1, IdxSubset, Zenon
    <2>2. QED BY <1>7, <2>1, RtAssumption DEF Pool
  <1>9. Pool(y, pend)
    <2>1. \A k \in Idx : /\ k \in DOMAIN y.quar => y.buf.stat[k] = "complete"
                         /\ k \in pend => y.buf.stat[k] \in {"tx", "rcvd"}
                         /\ k \notin pend \cup DOMAIN y.quar => y.buf.stat[k] = "empty"
      BY <1>3, <1>4, <1>6 DEF Pool
    <2>2. /\ y \in Port /\ Cardinality(DOMAIN y.quar) <= QuarMax /\ pend \cap DOMAIN y.quar = {}
          /\ pend \in SUBSET Idx /\ Lone(pend)
      BY <1>4, <1>6, <1>8, Zenon DEF Pool
    <2>3. QED BY <2>1, <2>2, Zenon DEF Pool
  <1>10. QED BY <1>3, <1>4, <1>6, <1>7, <1>9, Zenon DEF y

\* A free index is parked for QuarTicks, in a quarantine with a place left.
LEMMA ParkKeepsPool ==
  ASSUME SetFacts, NEW x, NEW pend, Pool(x, pend), now \in Nat, NEW i \in Idx, x.buf.stat[i] = "empty",
         Cardinality(DOMAIN x.quar) < QuarMax
  PROVE  LET y == Park(x, i) IN
         /\ Pool(y, pend) /\ y.spilled = x.spilled
         /\ DOMAIN y.quar = DOMAIN x.quar \cup {i} /\ y.quar[i] = now + QuarTicks
         /\ \A j \in DOMAIN x.quar : y.quar[j] = x.quar[j]
         /\ \A j \in Idx \ {i} : y.buf.stat[j] = x.buf.stat[j]
  <1>1. x \in Port /\ x.buf \in Buf /\ DOMAIN x.quar \in SUBSET Idx /\ \A j \in DOMAIN x.quar : x.quar[j] \in Nat
    BY DEF Pool, Port, Quar
  <1>2. i \notin DOMAIN x.quar /\ i \notin pend
    BY Zenon DEF Pool
  <1> DEFINE st == [x.buf.stat EXCEPT ![i] = "complete"]
             qu == [j \in DOMAIN x.quar \cup {i} |-> IF j = i THEN now + QuarTicks ELSE x.quar[j]]
             y == Park(x, i)
  <1>3. st \in [Idx -> Stat] /\ \A k \in Idx : st[k] = IF k = i THEN "complete" ELSE x.buf.stat[k]
    BY <1>1, Zenon DEF Buf, Stat
  <1>4. /\ qu \in Quar /\ DOMAIN qu = DOMAIN x.quar \cup {i} /\ qu[i] = now + QuarTicks
        /\ \A j \in DOMAIN x.quar : qu[j] = x.quar[j]
    <2>1. qu \in [DOMAIN x.quar \cup {i} -> Nat] /\ DOMAIN x.quar \cup {i} \in SUBSET Idx
      BY <1>1, RtAssumption
    <2>2. QED BY <1>2, <2>1, Zenon DEF Quar
  <1>5. y = [x EXCEPT !.buf = [x.buf EXCEPT !.stat = st], !.quar = qu]
    BY <1>1, Zenon DEF Park, Port, Buf
  <1> HIDE DEF st, qu
  <1>6. y \in Port /\ y.buf.stat = st /\ y.quar = qu /\ y.spilled = x.spilled
    <2>1. y.buf.stat = st /\ y.quar = qu /\ y.spilled = x.spilled
      BY <1>1, <1>5 DEF Port, Buf
    <2>2. [x.buf EXCEPT !.stat = st] \in Buf
      BY <1>1, <1>3, Zenon DEF Buf
    <2>3. y \in Port
      BY <1>1, <1>4, <1>5, <2>2, Zenon DEF Port
    <2>4. QED BY <2>1, <2>3, Zenon
  <1> HIDE DEF y
  <1>7. Cardinality(DOMAIN qu) <= QuarMax
    <2>1. Cardinality(DOMAIN x.quar) \in Nat
      BY <1>1, IdxSubset, Zenon
    <2>2. Cardinality(DOMAIN qu) = Cardinality(DOMAIN x.quar) + 1
      BY <1>1, <1>2, <1>4, Zenon DEF SetFacts
    <2>3. QED BY <2>1, <2>2, RtAssumption
  <1>8. Pool(y, pend)
    <2>1. \A k \in Idx : /\ k \in DOMAIN y.quar => y.buf.stat[k] = "complete"
                         /\ k \in pend => y.buf.stat[k] \in {"tx", "rcvd"}
                         /\ k \notin pend \cup DOMAIN y.quar => y.buf.stat[k] = "empty"
      BY <1>2, <1>3, <1>4, <1>6 DEF Pool
    <2>2. /\ y \in Port /\ Cardinality(DOMAIN y.quar) <= QuarMax /\ pend \cap DOMAIN y.quar = {}
          /\ pend \in SUBSET Idx /\ Lone(pend)
      BY <1>2, <1>4, <1>6, <1>7, Zenon DEF Pool
    <2>3. QED BY <2>1, <2>2, Zenon DEF Pool
  <1>9. QED BY <1>3, <1>4, <1>6, <1>8, Zenon DEF y

\* quar_add: a free index is parked for QuarTicks; one more may be released
\* for it, and that is counted.
LEMMA AddKeepsPool ==
  ASSUME SetFacts, NEW x, NEW pend, Pool(x, pend), now \in Nat, NEW i \in Idx, x.buf.stat[i] = "empty"
  PROVE  LET y == QuarAdd(x, i) IN
         /\ Pool(y, pend) /\ Keeps(x, y) /\ i \in DOMAIN y.quar /\ y.quar[i] = now + QuarTicks
         /\ \A j \in pend : y.buf.stat[j] = x.buf.stat[j]
  <1>1. DOMAIN x.quar \in SUBSET Idx /\ \A j \in DOMAIN x.quar : x.quar[j] \in Nat
    BY DEF Pool, Port, Quar
  <1>2. i \notin DOMAIN x.quar /\ i \notin pend /\ pend \in SUBSET Idx
    BY Zenon DEF Pool
  <1>3. Cardinality(DOMAIN x.quar) \in Nat
    BY <1>1, IdxSubset, Zenon
  <1>4. CASE Cardinality(DOMAIN x.quar) < QuarMax
    <2>1. QuarAdd(x, i) = Park(x, i)
      BY <1>2, <1>4, Zenon DEF QuarAdd
    <2>2. QED BY <1>2, <1>4, <2>1, ParkKeepsPool DEF Keeps
  <1>5. CASE ~(Cardinality(DOMAIN x.quar) < QuarMax)
    <2> DEFINE o == Oldest(x.quar)
               z == Release(x, o)
    <2>1. QuarAdd(x, i) = Park(z, i)
      BY <1>2, <1>5, Zenon DEF QuarAdd
    <2>2. DOMAIN x.quar # {}
      BY <1>3, <1>5, RtAssumption DEF SetFacts
    <2>3. o \in DOMAIN x.quar
      BY <1>1, <2>2, OldestIs, Zenon
    <2> HIDE DEF o
    <2>4. /\ Pool(z, pend) /\ z.spilled /\ \A k \in Idx \ {o} : z.buf.stat[k] = x.buf.stat[k]
          /\ Cardinality(DOMAIN z.quar) = Cardinality(DOMAIN x.quar) - 1
      BY <2>3, ReleaseKeepsPool, Zenon
    <2>5. z.buf.stat[i] = "empty" /\ \A j \in pend : z.buf.stat[j] = x.buf.stat[j]
      BY <1>2, <2>3, <2>4, ZenonT(40) DEF Pool
    <2>6. Cardinality(DOMAIN z.quar) < QuarMax
      BY <1>3, <2>4, RtAssumption DEF Pool
    <2> HIDE DEF z
    <2>7. QED BY <1>2, <2>1, <2>4, <2>5, <2>6, ParkKeepsPool DEF Keeps
  <1>6. QED BY <1>4, <1>5, Zenon

-----------------------------------------------------------------------------
(* Frames                                                                  *)

Kind == {"motion", "io", "diag"}

\* The pool after the state of one index that is not parked was set.
LEMMA SetKeepsPool ==
  ASSUME NEW x, NEW pend, Pool(x, pend), NEW i \in Idx, i \notin DOMAIN x.quar, NEW v \in {"tx", "rcvd", "empty"},
         NEW y \in Port, y.buf.stat = [x.buf.stat EXCEPT ![i] = v], y.quar = x.quar
  PROVE  /\ v = "empty" => Pool(y, pend \ {i})
         /\ v # "empty" /\ pend \subseteq {i} => Pool(y, {i})
  <1>1. x.buf.stat \in [Idx -> Stat]
    BY Zenon DEF Pool, Port, Buf
  <1>2. \A j \in Idx : y.buf.stat[j] = IF j = i THEN v ELSE x.buf.stat[j]
    BY <1>1, Zenon
  <1>3. ASSUME v = "empty" PROVE Pool(y, pend \ {i})
    <2>1. pend \ {i} \in SUBSET Idx /\ (pend \ {i}) \cap DOMAIN y.quar = {}
      BY Zenon DEF Pool
    <2>2. Lone(pend \ {i})
      BY Zenon DEF Pool, Lone
    <2>3. \A j \in Idx : /\ j \in DOMAIN y.quar => y.buf.stat[j] = "complete"
                         /\ j \in pend \ {i} => y.buf.stat[j] \in {"tx", "rcvd"}
                         /\ j \notin (pend \ {i}) \cup DOMAIN y.quar => y.buf.stat[j] = "empty"
      BY <1>2, <1>3, Zenon DEF Pool
    <2>4. Cardinality(DOMAIN y.quar) <= QuarMax
      BY Zenon DEF Pool
    <2>5. QED BY <2>1, <2>2, <2>3, <2>4, Zenon DEF Pool
  <1>4. ASSUME v # "empty", pend \subseteq {i} PROVE Pool(y, {i})
    <2>1. {i} \in SUBSET Idx /\ {i} \cap DOMAIN y.quar = {}
      BY Zenon
    <2>2. Lone({i})
      BY Zenon DEF Lone
    <2>3. \A j \in Idx : /\ j \in DOMAIN y.quar => y.buf.stat[j] = "complete"
                         /\ j \in {i} => y.buf.stat[j] \in {"tx", "rcvd"}
                         /\ j \notin {i} \cup DOMAIN y.quar => y.buf.stat[j] = "empty"
      BY <1>2, <1>4, Zenon DEF Pool
    <2>4. Cardinality(DOMAIN y.quar) <= QuarMax
      BY DEF Pool
    <2>5. QED BY <2>1, <2>2, <2>3, <2>4, Zenon DEF Pool
  <1>5. QED BY <1>3, <1>4, Zenon

\* ecx_outframe: the index is in use and the last one handed out.
Sent(b, i, kind, c) ==
  c \in Buf /\ c.stat = [b.stat EXCEPT ![i] = "tx"] /\ c.last = i /\ c.tx[i].kind = kind

\* Sending a frame does what is stated above.
LEMMA SendFrameIs ==
  ASSUME NEW b \in Buf, NEW i \in Idx, NEW kind \in Kind, now \in Nat
  PROVE  Sent(b, i, kind, SendFrame(b, i, kind))
  <1> DEFINE st == [b.stat EXCEPT ![i] = "tx"]
             tx == [b.tx EXCEPT ![i] = Frame0(kind, now)]
             c == SendFrame(b, i, kind)
  <1>1. st \in [Idx -> Stat]
    BY Zenon DEF Buf, Stat
  <1>2. tx \in [Idx -> Frm] /\ tx[i].kind = kind
    BY DEF Buf, Frm, Frame0, Kind
  <1>3. c = [b EXCEPT !.stat = st, !.tx = tx, !.last = i]
    BY Zenon DEF SendFrame, Buf
  <1> HIDE DEF st, tx
  <1>4. c \in Buf /\ c.stat = st /\ c.last = i /\ c.tx = tx
    BY <1>1, <1>2, <1>3, Zenon DEF Buf
  <1> HIDE DEF c
  <1>5. QED BY <1>2, <1>4, Zenon DEF st, c, Sent

\* service_group: the index is free again after a reply to the frame, else it
\* is parked.
LEMMA ServiceKeepsPool ==
  ASSUME SetFacts, NEW x, NEW pend, Pool(x, pend), now \in Nat, NEW i \in Idx, x.buf.stat[i] = "empty",
         NEW kind \in Kind, NEW r \in Frm
  PROVE  LET y == Service(x, i, kind, r) IN
         /\ Pool(y, pend) /\ Keeps(x, y) /\ \A j \in pend : y.buf.stat[j] = x.buf.stat[j]
         /\ r.kind # kind => i \in DOMAIN y.quar /\ y.quar[i] = now + QuarTicks
  <1> DEFINE sent == SendFrame(x.buf, i, kind)
             z == [x EXCEPT !.buf = [sent EXCEPT !.stat[i] = "empty"]]
             y == Service(x, i, kind, r)
  <1>1. x \in Port /\ x.buf \in Buf
    BY Zenon DEF Pool, Port
  <1>2. sent \in Buf /\ sent.stat = [x.buf.stat EXCEPT ![i] = "tx"] /\ sent.tx[i].kind = kind
    BY <1>1, SendFrameIs DEF Sent
  <1>3. i \notin DOMAIN x.quar /\ i \notin pend /\ pend \in SUBSET Idx
    BY Zenon DEF Pool
  <1>4. y = IF r # NoFrame /\ r.kind = kind THEN z ELSE QuarAdd(z, i)
    BY <1>2, Zenon DEF Service, HeaderMatches
  <1> HIDE DEF sent
  <1>5. z \in Port /\ z.buf.stat = [x.buf.stat EXCEPT ![i] = "empty"] /\ z.quar = x.quar /\ z.spilled = x.spilled
    <2>1. [sent EXCEPT !.stat[i] = "empty"] \in Buf
      BY <1>2, Zenon DEF Buf, Stat
    <2>2. [sent EXCEPT !.stat[i] = "empty"].stat = [x.buf.stat EXCEPT ![i] = "empty"]
      BY <1>1, <1>2, Zenon DEF Buf
    <2>3. QED BY <1>1, <2>1, <2>2, Zenon DEF Port
  <1> HIDE DEF z, y
  <1>6. Pool(z, pend)
    <2>1. Pool(z, pend \ {i})
      BY <1>3, <1>5, SetKeepsPool, Zenon
    <2>2. pend \ {i} = pend
      BY <1>3, Zenon
    <2>3. QED BY <2>1, <2>2, Zenon
  <1>7. z.buf.stat[i] = "empty" /\ \A j \in pend : z.buf.stat[j] = x.buf.stat[j]
    BY <1>1, <1>3, <1>5, Zenon DEF Buf
  <1>8. Keeps(x, z)
    BY <1>5, Zenon DEF Keeps
  <1>9. CASE r # NoFrame /\ r.kind = kind
    BY <1>4, <1>6, <1>7, <1>8, <1>9, Zenon DEF y
  <1>10. CASE ~(r # NoFrame /\ r.kind = kind)
    <2>1. y = QuarAdd(z, i)
      BY <1>4, <1>10, Zenon
    <2>2. /\ Pool(y, pend) /\ Keeps(z, y) /\ i \in DOMAIN y.quar /\ y.quar[i] = now + QuarTicks
          /\ \A j \in pend : y.buf.stat[j] = z.buf.stat[j]
      BY <1>6, <1>7, <2>1, AddKeepsPool
    <2>3. Keeps(x, y)
      BY <1>5, <2>2, Zenon DEF Keeps
    <2>4. QED BY <1>7, <2>2, <2>3, Zenon DEF y
  <1>11. QED BY <1>9, <1>10, Zenon

\* The state of index i is set and nothing else.
Set(x, i, v) == [x EXCEPT !.buf.stat[i] = v]

\* What setting the state of one index changes, and what it leaves alone.
LEMMA SetIs ==
  ASSUME NEW x \in Port, NEW i \in Idx, NEW v \in Stat
  PROVE  LET y == Set(x, i, v) IN
         /\ y \in Port /\ y.buf.stat = [x.buf.stat EXCEPT ![i] = v] /\ y.buf.stat[i] = v
         /\ y.quar = x.quar /\ y.spilled = x.spilled /\ y.buf.last = x.buf.last /\ y.buf.rx = x.buf.rx
  <1> DEFINE st == [x.buf.stat EXCEPT ![i] = v]
             b == [x.buf EXCEPT !.stat = st]
             y == Set(x, i, v)
  <1>1. x.buf \in Buf
    BY Zenon DEF Port
  <1>2. st \in [Idx -> Stat] /\ st[i] = v
    BY <1>1, Zenon DEF Buf
  <1> HIDE DEF st
  <1>3. b \in Buf /\ b.stat = st /\ b.last = x.buf.last /\ b.rx = x.buf.rx
    BY <1>1, <1>2, Zenon DEF Buf
  <1>4. y = [x EXCEPT !.buf = b]
    BY <1>1, Zenon DEF Set, st, Port, Buf
  <1> HIDE DEF b
  <1>5. y \in Port /\ y.buf = b /\ y.quar = x.quar /\ y.spilled = x.spilled
    BY <1>3, <1>4, Zenon DEF Port
  <1> HIDE DEF y
  <1>6. QED BY <1>2, <1>3, <1>5, Zenon DEF st, y

\* ecm_diag_soem_collect: the pending frame is answered, waited for, or given up
\* and its index parked.
CollectResult(x, i, g) ==
  LET mine == x.buf.stat[i] = "rcvd" /\ x.buf.rx[i].kind = "diag"
  IN /\ Keeps(x, g.x)
     /\ \/ mine /\ Pool(g.x, {}) /\ g.d = [idx |-> -1, age |-> 0] /\ g.f = x.buf.rx[i]
        \/ /\ ~mine /\ Pool(g.x, {i}) /\ g.x.buf.stat[i] = "tx" /\ diag.age + 1 < DiagAge
           /\ g.d = [idx |-> i, age |-> diag.age + 1] /\ g.f = NoFrame
        \/ /\ ~mine /\ Pool(g.x, {}) /\ i \in DOMAIN g.x.quar /\ g.x.quar[i] = now + QuarTicks
           /\ g.d = [idx |-> -1, age |-> 0] /\ g.f = NoFrame

\* Collecting the pending diagnosis has one of the results stated above.
LEMMA CollectKeepsPool ==
  ASSUME SetFacts, NEW x, NEW i \in Idx, diag.idx = i, Pool(x, {i}), diag \in [idx : Idx \cup {-1}, age : Nat], now \in Nat
  PROVE  CollectResult(x, i, Collect(x))
  <1> USE DEF CollectResult
  <1> DEFINE g == Collect(x)
             mine == x.buf.stat[i] = "rcvd" /\ x.buf.rx[i].kind = "diag"
             done == Set(x, i, "empty")
             back == IF x.buf.stat[i] = "rcvd" /\ ~mine THEN Set(x, i, "tx") ELSE x
  <1>1. x \in Port /\ i \in Idx /\ i \notin DOMAIN x.quar /\ x.buf.stat[i] \in {"tx", "rcvd"}
    BY Zenon DEF Pool
  <1>2. /\ done \in Port /\ done.buf.stat = [x.buf.stat EXCEPT ![i] = "empty"] /\ done.buf.stat[i] = "empty"
        /\ done.quar = x.quar /\ done.spilled = x.spilled
    <2>1. "empty" \in Stat
      BY Zenon DEF Stat
    <2>2. QED BY <1>1, <2>1, SetIs
  <1>3. Pool(done, {}) /\ Keeps(x, done)
    <2>1. Pool(done, {i} \ {i})
      BY <1>1, <1>2, SetKeepsPool, Zenon
    <2>2. QED BY <1>2, <2>1 DEF Keeps
  <1>4. g = IF mine THEN [x |-> done, d |-> [idx |-> -1, age |-> 0], f |-> x.buf.rx[i]]
            ELSE IF diag.age + 1 < DiagAge THEN [x |-> back, d |-> [diag EXCEPT !.age = @ + 1], f |-> NoFrame]
            ELSE [x |-> QuarAdd(done, i), d |-> [idx |-> -1, age |-> 0], f |-> NoFrame]
    BY Zenon DEF Collect, Set
  <1> HIDE DEF done
  <1>5. CASE mine
    <2>1. g.x = done /\ g.d = [idx |-> -1, age |-> 0] /\ g.f = x.buf.rx[i]
      BY <1>4, <1>5
    <2>2. QED BY <1>3, <1>5, <2>1, Zenon
  <1>6. CASE ~mine /\ diag.age + 1 < DiagAge
    <2>1. g.x = back /\ g.d = [diag EXCEPT !.age = @ + 1] /\ g.f = NoFrame
      BY <1>4, <1>6
    <2>2. [diag EXCEPT !.age = @ + 1] = [idx |-> i, age |-> diag.age + 1]
      OBVIOUS
    <2>3. Pool(back, {i}) /\ back.buf.stat[i] = "tx" /\ Keeps(x, back)
      <3>1. CASE x.buf.stat[i] = "rcvd"
        <4> DEFINE z == Set(x, i, "tx")
        <4>1. back = z
          BY <1>6, <3>1, Zenon
        <4>2. /\ z \in Port /\ z.buf.stat = [x.buf.stat EXCEPT ![i] = "tx"] /\ z.buf.stat[i] = "tx"
              /\ z.quar = x.quar /\ z.spilled = x.spilled
          <5>1. "tx" \in Stat
            BY Zenon DEF Stat
          <5>2. QED BY <1>1, <5>1, SetIs
        <4> HIDE DEF z
        <4>3. Pool(z, {i})
          BY <1>1, <4>2, SetKeepsPool, Zenon
        <4>4. Keeps(x, z)
          BY <4>2, Zenon DEF Keeps
        <4>5. QED BY <4>1, <4>2, <4>3, <4>4, Zenon
      <3>2. CASE x.buf.stat[i] # "rcvd"
        BY <1>1, <3>2, Zenon DEF Keeps
      <3>3. QED BY <3>1, <3>2, Zenon
    <2>4. QED BY <1>6, <2>1, <2>2, <2>3, Zenon
  <1>7. CASE ~mine /\ ~(diag.age + 1 < DiagAge)
    <2> DEFINE y == QuarAdd(done, i)
    <2>1. g.x = y /\ g.d = [idx |-> -1, age |-> 0] /\ g.f = NoFrame
      BY <1>4, <1>7
    <2>2. Pool(y, {}) /\ Keeps(done, y) /\ i \in DOMAIN y.quar /\ y.quar[i] = now + QuarTicks
      BY <1>1, <1>2, <1>3, AddKeepsPool
    <2> HIDE DEF y
    <2>3. Keeps(x, y)
      BY <1>2, <2>2, Zenon DEF Keeps
    <2>4. QED BY <1>7, <2>1, <2>2, <2>3, Zenon
  <1>8. QED BY <1>5, <1>6, <1>7, ZenonT(40)

-----------------------------------------------------------------------------
(* The invariant                                                           *)

Here == [buf |-> buf, quar |-> quar, spilled |-> spilled]
Pending(d) == IF d.idx >= 0 THEN {d.idx} ELSE {}
Diag == [idx : Idx \cup {-1}, age : Nat]

\* Unless an index was released early, a late reply that is still on its way has
\* an index that stays parked until it cannot come any more, or it is the reply
\* to the pending diagnostic frame.
Accounted(s) ==
  \/ s.idx \in DOMAIN quar /\ quar[s.idx] >= s.f.at + QuarTicks
  \/ s.idx = diag.idx /\ s.f = Frame0("diag", now - 1 - diag.age)

RtInv ==
  /\ now \in Nat /\ Pool(Here, Pending(diag)) /\ diag \in Diag
  /\ diag.idx >= 0 => diag.age < DiagAge /\ buf.stat[diag.idx] = "tx"
  /\ net \in SUBSET [idx : Idx, f : [kind : Kind, at : Int]]
  /\ \A s \in net : s.f.at < now /\ now - s.f.at <= MaxDelay
  /\ ~spilled => \A s \in net : Accounted(s)

\* x still holds what was parked and is not due.
Holds(x) ==
  /\ spilled => x.spilled
  /\ ~x.spilled => \A k \in DOMAIN quar : now < quar[k] => k \in DOMAIN x.quar /\ x.quar[k] = quar[k]

\* A port that keeps what another holds, holds it.
LEMMA KeepsHolds ==
  ASSUME NEW x, NEW y, Holds(x), Keeps(x, y)
  PROVE  Holds(y)
  BY Zenon DEF Holds, Keeps

\* A free index has no reply on its way.
LEMMA FreeIsQuiet ==
  ASSUME RtInv, NEW x, Pool(x, Pending(diag)), Holds(x), ~x.spilled,
         NEW i \in Idx, x.buf.stat[i] = "empty", NEW s \in net
  PROVE  s.idx # i
  <1> USE RtAssumption
  <1>1. /\ s.idx \in Idx /\ s.f.at \in Int /\ now - s.f.at <= MaxDelay /\ now \in Nat
        /\ Accounted(s)
    BY Zenon DEF RtInv, Holds
  <1>2. CASE s.idx \in DOMAIN quar /\ quar[s.idx] >= s.f.at + QuarTicks
    <2>1. quar[s.idx] \in Nat
      BY <1>2 DEF RtInv, Pool, Port, Quar, Here
    <2>2. now < quar[s.idx]
      BY <1>1, <1>2, <2>1
    <2>3. s.idx \in DOMAIN x.quar
      BY <1>2, <2>2, Zenon DEF Holds
    <2>4. x.buf.stat[s.idx] = "complete"
      BY <1>1, <2>3, Zenon DEF Pool
    <2>5. QED BY <2>4, Zenon
  <1>3. CASE s.idx = diag.idx
    <2>1. s.idx \in Pending(diag)
      BY <1>1, <1>3 DEF Pending, Idx
    <2>2. x.buf.stat[s.idx] \in {"tx", "rcvd"}
      BY <1>1, <2>1, Zenon DEF Pool
    <2>3. QED BY <2>2, Zenon
  <1>4. QED BY <1>1, <1>2, <1>3, Zenon DEF Accounted

\* What the receive finds for a frame with a free index: its own reply or none.
LEMMA CandidatesAreOwn ==
  ASSUME RtInv, NEW x, Pool(x, Pending(diag)), Holds(x), NEW i \in Idx, x.buf.stat[i] = "empty",
         NEW kind \in Kind, NEW fate \in Fates, NEW arr \in SUBSET net, NEW r \in Candidates(i, kind, fate, arr)
  PROVE  /\ r \in Frm
         /\ ~x.spilled => r = IF fate = "intime" THEN Frame0(kind, now) ELSE NoFrame
  <1> DEFINE own == IF fate = "intime" THEN {Frame0(kind, now)} ELSE {}
             old == {s.f : s \in {t \in arr : t.idx = i}}
  <1>1. r \in IF own \cup old = {} THEN {NoFrame} ELSE own \cup old
    BY Zenon DEF Candidates
  <1>2. NoFrame \in Frm /\ Frame0(kind, now) \in Frm
    BY DEF NoFrame, Frame0, Frm, Kind, RtInv
  <1>3. old \in SUBSET Frm
    BY DEF RtInv, Frm, Kind
  <1>4. ASSUME ~x.spilled PROVE old = {}
    BY <1>4, FreeIsQuiet, Zenon
  <1> HIDE DEF old
  <1>5. r \in Frm
    BY <1>1, <1>2, <1>3, Zenon
  <1>6. ASSUME ~x.spilled PROVE r = IF fate = "intime" THEN Frame0(kind, now) ELSE NoFrame
    BY <1>1, <1>4, <1>6, Zenon
  <1>7. QED BY <1>5, <1>6, Zenon

\* Late replies to the pending diagnostic frame are put aside, nothing else
\* changes.
ArrivedResult(x, i, arr, y) ==
  /\ Pool(y, {i}) /\ y.quar = x.quar /\ y.spilled = x.spilled
  /\ \/ y.buf.stat[i] = "tx" /\ \A s \in arr : s.idx # i
     \/ y.buf.stat[i] = "rcvd" /\ \E s \in arr : s.idx = i /\ y.buf.rx[i] = s.f

\* The frames that arrive while the pending diagnosis is out do what is stated
\* above to its index.
LEMMA ArrivedIs ==
  ASSUME RtInv, NEW i \in Idx, diag.idx = i, NEW x, Pool(x, {i}), x.buf.stat[i] = "tx",
         NEW arr \in SUBSET net, NEW y \in Arrived(x, arr)
  PROVE  ArrivedResult(x, i, arr, y)
  <1> USE DEF ArrivedResult
  <1> DEFINE late == {s \in arr : s.idx = diag.idx}
  <1>1. x \in Port /\ i \notin DOMAIN x.quar
    BY Zenon DEF Pool
  <1>2. CASE late = {}
    BY <1>1, <1>2, Zenon DEF Arrived
  <1>3. CASE late # {}
    <2>1. PICK s \in late : y = [x EXCEPT !.buf = Deliver(@, i, s.f)]
      BY <1>1, <1>3, RtAssumption DEF Arrived, Idx
    <2>2. s.f \in Frm /\ s \in arr /\ s.idx = diag.idx
      BY <2>1, Zenon DEF RtInv, Frm, Kind
    <2> DEFINE b == Deliver(x.buf, i, s.f)
               st == [x.buf.stat EXCEPT ![i] = "rcvd"]
               rx == [x.buf.rx EXCEPT ![i] = s.f]
    <2>3. x.buf \in Buf
      BY <1>1, Zenon DEF Port
    <2>4. st \in [Idx -> Stat] /\ rx \in [Idx -> Frm] /\ rx[i] = s.f /\ st[i] = "rcvd"
      BY <1>1, <2>2, <2>3, Zenon DEF Buf, Stat
    <2>5. b = [x.buf EXCEPT !.stat = st, !.rx = rx]
      BY <1>1, <2>3, Zenon DEF Deliver, Buf
    <2> HIDE DEF st, rx
    <2>6. b \in Buf /\ b.stat = st /\ b.rx = rx
      BY <2>3, <2>4, <2>5, Zenon DEF Buf
    <2> HIDE DEF b
    <2>7. y = [x EXCEPT !.buf = b]
      BY <2>1, Zenon DEF b
    <2>8. y \in Port /\ y.buf = b /\ y.quar = x.quar /\ y.spilled = x.spilled
      BY <1>1, <2>6, <2>7, Zenon DEF Port
    <2>9. y.buf.stat = [x.buf.stat EXCEPT ![i] = "rcvd"]
      BY <2>6, <2>8, Zenon DEF st
    <2>10. Pool(y, {i})
      BY <1>1, <2>8, <2>9, SetKeepsPool, Zenon
    <2>11. QED BY <1>1, <2>2, <2>4, <2>6, <2>8, <2>10, Zenon
  <1>4. QED BY <1>2, <1>3, Zenon

\* The diagnostic side of a tick.
DiagResult(x, arr, g) ==
  /\ Keeps(x, g.x) /\ Pool(g.x, Pending(g.d)) /\ g.d \in Diag
  /\ g.d.idx >= 0 => g.d.age < DiagAge /\ g.x.buf.stat[g.d.idx] = "tx"
  /\ g.d.idx >= 0 /\ diag.idx < 0 => g.d.age = 0
  /\ ~g.x.spilled /\ g.f # NoFrame => g.f.at >= now - DiagAge
  /\ ~g.x.spilled => \A s \in net \ arr : s.idx = diag.idx =>
       \/ s.idx \in DOMAIN g.x.quar /\ g.x.quar[s.idx] = now + QuarTicks
       \/ g.d.idx = diag.idx /\ g.d.age = diag.age + 1

\* The diagnosis at the end of a tick has the result stated above.
LEMMA DiagnoseResult ==
  ASSUME SetFacts, RtInv, NEW x, Pool(x, Pending(diag)), Holds(x), diag.idx >= 0 => x.buf.stat[diag.idx] = "tx",
         NEW arr \in SUBSET net, NEW y \in Arrived(x, arr), NEW send
  PROVE  DiagResult(x, arr, Diagnose(y, send))
  <1> USE RtAssumption
  <1> DEFINE g == Diagnose(y, send)
  <1>1. now \in Nat /\ diag \in Diag /\ net \in SUBSET [idx : Idx, f : [kind : Kind, at : Int]]
    BY Zenon DEF RtInv
  <1>2. CASE diag.idx < 0
    <2>1. y = x /\ Pending(diag) = {} /\ \A s \in net : s.idx # diag.idx
      BY <1>1, <1>2 DEF Arrived, Pending, Idx, Diag
    <2>2. CASE send /\ ~IoDue
      <3> DEFINE i == GetIndex(x.buf)
                 z == [x EXCEPT !.buf = SendFrame(@, i, "diag")]
      <3>1. i \in Idx /\ x.buf.stat[i] = "empty"
        BY GetIndexIsFree, Zenon
      <3> HIDE DEF i
      <3>2. x \in Port /\ x.buf \in Buf /\ i \notin DOMAIN x.quar
        BY <3>1, Zenon DEF Pool, Port
      <3>3. g = [x |-> z, d |-> [idx |-> i, age |-> 0], f |-> NoFrame]
        <4>1. ~(diag.idx >= 0)
          BY <1>1, <1>2 DEF Diag, Idx
        <4>2. QED BY <2>1, <2>2, <4>1, Zenon DEF Diagnose, Send, i
      <3> DEFINE b == SendFrame(x.buf, i, "diag")
      <3>4. b \in Buf /\ b.stat = [x.buf.stat EXCEPT ![i] = "tx"]
        <4>1. "diag" \in Kind
          BY Zenon DEF Kind
        <4>2. Sent(x.buf, i, "diag", b)
          BY <1>1, <3>1, <3>2, <4>1, SendFrameIs, Zenon
        <4>3. QED BY <4>2, Zenon DEF Sent
      <3>5. z = [x EXCEPT !.buf = b]
        BY Zenon
      <3> HIDE DEF b
      <3>6. z \in Port /\ z.buf = b /\ z.quar = x.quar /\ z.spilled = x.spilled
        BY <3>2, <3>4, <3>5, Zenon DEF Port
      <3> HIDE DEF z
      <3>7. Pool(z, {i})
        BY <2>1, <3>1, <3>2, <3>4, <3>6, SetKeepsPool, Zenon
      <3>8. z.buf.stat[i] = "tx" /\ Keeps(x, z)
        BY <3>1, <3>2, <3>4, <3>6, Zenon DEF Keeps, Buf
      <3>9. [idx |-> i, age |-> 0] \in Diag /\ Pending([idx |-> i, age |-> 0]) = {i}
        BY <3>1 DEF Diag, Pending, Idx
      <3>10. g.x = z /\ g.d = [idx |-> i, age |-> 0] /\ g.f = NoFrame
        BY <3>3
      <3> HIDE DEF g
      <3>11. DiagResult(x, arr, g)
        <4>1. g.d.age = 0 /\ g.d.idx = i /\ 0 < DiagAge
          BY <3>10
        <4>2. QED BY <2>1, <3>7, <3>8, <3>9, <3>10, <4>1, Zenon DEF DiagResult
      <3>12. QED BY <3>11, Zenon DEF g
    <2>3. CASE ~(send /\ ~IoDue)
      <3>1. g = [x |-> x, d |-> diag, f |-> NoFrame]
        <4>1. ~(diag.idx >= 0)
          BY <1>1, <1>2 DEF Diag, Idx
        <4>2. QED BY <2>1, <2>3, <4>1, Zenon DEF Diagnose
      <3>2. g.x = x /\ g.d = diag /\ g.f = NoFrame
        BY <3>1
      <3> HIDE DEF g
      <3>3. ~(diag.idx >= 0) /\ Keeps(x, x)
        BY <1>1, <1>2 DEF Diag, Idx, Keeps
      <3>4. DiagResult(x, arr, g)
        BY <1>1, <2>1, <3>2, <3>3, Zenon DEF DiagResult
      <3>5. QED BY <3>4 DEF g
    <2>4. QED BY <2>2, <2>3, Zenon
  <1>3. CASE diag.idx >= 0
    <2>0. PICK i \in Idx : diag.idx = i
      BY <1>1, <1>3 DEF Diag
    <2> DEFINE mine == y.buf.stat[i] = "rcvd" /\ y.buf.rx[i].kind = "diag"
    <2>1. /\ Pool(y, {i}) /\ y.quar = x.quar /\ y.spilled = x.spilled
          /\ \/ y.buf.stat[i] = "tx" /\ \A s \in arr : s.idx # i
             \/ y.buf.stat[i] = "rcvd" /\ \E s \in arr : s.idx = i /\ y.buf.rx[i] = s.f
      <3>1. Pool(x, {i}) /\ x.buf.stat[i] = "tx" /\ i >= 0
        BY <1>3, <2>0, Zenon DEF Pending
      <3>2. ArrivedResult(x, i, arr, y)
        BY <2>0, <3>1, ArrivedIs, Zenon
      <3>3. QED BY <3>2, Zenon DEF ArrivedResult
    <2>2. g = Collect(y)
      BY <1>1, <1>3, Zenon DEF Diagnose, Diag
    <2>3. /\ Keeps(y, g.x)
          /\ \/ mine /\ Pool(g.x, {}) /\ g.d = [idx |-> -1, age |-> 0] /\ g.f = y.buf.rx[i]
             \/ /\ ~mine /\ Pool(g.x, {i}) /\ g.x.buf.stat[i] = "tx" /\ diag.age + 1 < DiagAge
                /\ g.d = [idx |-> i, age |-> diag.age + 1] /\ g.f = NoFrame
             \/ /\ ~mine /\ Pool(g.x, {}) /\ i \in DOMAIN g.x.quar /\ g.x.quar[i] = now + QuarTicks
                /\ g.d = [idx |-> -1, age |-> 0] /\ g.f = NoFrame
      <3>1. CollectResult(y, i, g)
        BY <1>1, <2>0, <2>1, <2>2, CollectKeepsPool DEF Diag
      <3>2. QED BY <3>1, Zenon DEF CollectResult
    <2> HIDE DEF g
    <2>4. Keeps(x, g.x)
      BY <2>1, <2>3, Zenon DEF Keeps
    <2>5. ASSUME ~g.x.spilled, NEW s \in net, s.idx = i PROVE s.f = Frame0("diag", now - 1 - diag.age)
      <3>1. ~spilled
        BY <2>4, <2>5, Zenon DEF Holds, Keeps
      <3>2. Accounted(s) /\ i \notin DOMAIN quar
        BY <1>3, <2>0, <2>5, <3>1, Zenon DEF RtInv, Pool, Pending, Here
      <3>3. QED BY <2>0, <2>5, <3>2, Zenon DEF Accounted
    <2>6. ASSUME ~g.x.spilled, mine
          PROVE  /\ y.buf.rx[i] = Frame0("diag", now - 1 - diag.age)
                 /\ \A s \in net \ arr : s.idx # i
      <3>1. PICK s \in arr : s.idx = i /\ y.buf.rx[i] = s.f
        BY <2>1, <2>6, Zenon
      <3>2. s.f = Frame0("diag", now - 1 - diag.age)
        BY <2>5, <2>6, <3>1, Zenon
      <3>3. ASSUME NEW t \in net \ arr, t.idx = i PROVE FALSE
        <4>1. t.f = s.f
          BY <2>5, <2>6, <3>2, <3>3, Zenon
        <4>2. t = s
          BY <1>1, <3>1, <3>3, <4>1
        <4>3. QED BY <4>2, Zenon
      <3>4. QED BY <3>1, <3>2, <3>3, Zenon
    <2>7. Pending(g.d) = (IF g.d.idx >= 0 THEN {g.d.idx} ELSE {}) /\ diag.age \in Nat /\ diag.age < DiagAge
      BY <1>1, <1>3, Zenon DEF Pending, Diag, RtInv
    <2>8. CASE mine
      <3>1. Pool(g.x, {}) /\ g.d = [idx |-> -1, age |-> 0] /\ g.f = y.buf.rx[i]
        BY <2>3, <2>8, Zenon
      <3>2. g.d \in Diag /\ g.d.idx = -1 /\ Pending(g.d) = {}
        BY <2>7, <3>1 DEF Diag
      <3>3. ~g.x.spilled => g.f.at >= now - DiagAge
        BY <1>1, <2>6, <2>7, <2>8, <3>1 DEF Frame0
      <3>4. DiagResult(x, arr, g)
        <4>1. ~(g.d.idx >= 0)
          BY <3>2
        <4>2. QED BY <2>0, <2>4, <2>6, <2>8, <3>1, <3>2, <3>3, <4>1, Zenon DEF DiagResult
      <3>5. QED BY <3>4, Zenon DEF g
    <2>9. CASE ~mine /\ diag.age + 1 < DiagAge /\ g.d = [idx |-> i, age |-> diag.age + 1]
                /\ Pool(g.x, {i}) /\ g.x.buf.stat[i] = "tx" /\ g.f = NoFrame
      <3>1. g.d \in Diag /\ g.d.idx = i /\ Pending(g.d) = {i} /\ g.d.age = diag.age + 1
        BY <1>1, <1>3, <2>0, <2>7, <2>9 DEF Diag
      <3>2. DiagResult(x, arr, g)
        <4>1. ~(diag.idx < 0)
          BY <1>3, <2>0 DEF Idx
        <4>2. QED BY <2>0, <2>4, <2>9, <3>1, <4>1, Zenon DEF DiagResult
      <3>3. QED BY <3>2 DEF g
    <2>10. CASE ~mine /\ Pool(g.x, {}) /\ i \in DOMAIN g.x.quar /\ g.x.quar[i] = now + QuarTicks
                 /\ g.d = [idx |-> -1, age |-> 0] /\ g.f = NoFrame
      <3>1. g.d \in Diag /\ g.d.idx = -1 /\ Pending(g.d) = {}
        BY <2>7, <2>10 DEF Diag
      <3>2. DiagResult(x, arr, g)
        <4>1. ~(g.d.idx >= 0)
          BY <3>1
        <4>2. QED BY <2>0, <2>4, <2>10, <3>1, <4>1, Zenon DEF DiagResult
      <3>3. QED BY <3>2 DEF g
    <2>11. QED BY <2>3, <2>8, <2>9, <2>10, Zenon
  <1>4. QED BY <1>1, <1>2, <1>3 DEF Diag, Idx

\* The group side of a tick: a frame of that kind with index i, and its reply r.
Served(x, i, kind, fate, r, y) ==
  /\ Pool(y, Pending(diag)) /\ Holds(y) /\ Keeps(x, y)
  /\ diag.idx >= 0 => y.buf.stat[diag.idx] = "tx"
  /\ i \in Idx /\ r \in Frm
  /\ ~y.spilled => r = IF fate = "intime" THEN Frame0(kind, now) ELSE NoFrame
  /\ ~y.spilled /\ fate # "intime" => i \in DOMAIN y.quar /\ y.quar[i] = now + QuarTicks

\* A frame sent and waited for is served as stated above, whatever its fate.
LEMMA FrameServed ==
  ASSUME SetFacts, RtInv, NEW x, Pool(x, Pending(diag)), Holds(x), diag.idx >= 0 => x.buf.stat[diag.idx] = "tx",
         NEW i, i = GetIndex(x.buf), NEW kind \in Kind, NEW fate \in Fates, NEW arr \in SUBSET net,
         NEW r \in Candidates(i, kind, fate, arr), NEW y, y = Service(x, i, kind, r)
  PROVE  Served(x, i, kind, fate, r, y)
  <1>1. i \in Idx /\ x.buf.stat[i] = "empty"
    BY GetIndexIsFree, Zenon
  <1>2. r \in Frm /\ (~x.spilled => r = IF fate = "intime" THEN Frame0(kind, now) ELSE NoFrame)
    BY <1>1, CandidatesAreOwn, Zenon
  <1>3. now \in Nat
    BY Zenon DEF RtInv
  <1>4. /\ Pool(y, Pending(diag)) /\ Keeps(x, y) /\ \A j \in Pending(diag) : y.buf.stat[j] = x.buf.stat[j]
        /\ r.kind # kind => i \in DOMAIN y.quar /\ y.quar[i] = now + QuarTicks
    BY <1>1, <1>2, <1>3, ServiceKeepsPool
  <1>5. Holds(y)
    BY <1>4, KeepsHolds, Zenon
  <1>6. ~y.spilled => r = IF fate = "intime" THEN Frame0(kind, now) ELSE NoFrame
    BY <1>2, <1>4, Zenon DEF Keeps
  <1>7. diag.idx >= 0 => y.buf.stat[diag.idx] = "tx"
    BY <1>4, Zenon DEF Pending
  <1>8. ~y.spilled /\ fate # "intime" => i \in DOMAIN y.quar /\ y.quar[i] = now + QuarTicks
    <2>1. r = NoFrame => r.kind # kind
      BY DEF NoFrame, Kind
    <2>2. QED BY <1>4, <1>6, <2>1, Zenon
  <1>9. QED BY <1>1, <1>2, <1>4, <1>5, <1>6, <1>7, <1>8, Zenon DEF Served

\* The three parts of a tick, one behind the other.
LEMMA TickParts ==
  ASSUME SetFacts, RtInv, NEW send, NEW fm \in Fates, NEW fi \in Fates, NEW fd \in Fates, NEW arr \in SUBSET net,
         Tick(send, fm, fi, fd, arr)
  PROVE  \E x0, i, r, x1, j, q, x2, g :
           /\ Served(x0, i, "motion", fm, r, x1)
           /\ IF IoDue THEN Served(x1, j, "io", fi, q, x2) ELSE q = NoFrame /\ x2 = x1
           /\ DiagResult(x2, arr, g) /\ Holds(x2)
           /\ Effects(i, r, j, q, g, fm, fi, fd, arr)
  <1>1. PICK x0, i, r, x1, j, q, x2, x3, g :
          /\ x0 = QuarExpire([buf |-> buf, quar |-> quar, spilled |-> spilled])
          /\ i = GetIndex(x0.buf) /\ r \in Candidates(i, "motion", fm, arr)
          /\ x1 = Service(x0, i, "motion", r)
          /\ j = GetIndex(x1.buf) /\ q \in IF IoDue THEN Candidates(j, "io", fi, arr) ELSE {NoFrame}
          /\ x2 = IF IoDue THEN Service(x1, j, "io", q) ELSE x1
          /\ x3 \in Arrived(x2, arr) /\ g = Diagnose(x3, send)
          /\ Effects(i, r, j, q, g, fm, fi, fd, arr)
    BY DEF Tick
  <1>2. "motion" \in Kind /\ "io" \in Kind
    BY Zenon DEF Kind
  <1>3. Pool(x0, Pending(diag)) /\ Holds(x0) /\ (diag.idx >= 0 => x0.buf.stat[diag.idx] = "tx")
    <2> DEFINE x == Here
    <2>1. /\ Pool(x, Pending(diag)) /\ now \in Nat /\ x0 = QuarExpire(x)
          /\ x.quar = quar /\ x.spilled = spilled /\ x.buf = buf
      BY <1>1, Zenon DEF RtInv, Here
    <2> HIDE DEF x
    <2>2. /\ Pool(x0, Pending(diag)) /\ x0.spilled = x.spilled
          /\ \A k \in Pending(diag) : x0.buf.stat[k] = x.buf.stat[k]
          /\ \A k \in DOMAIN x.quar : now < x.quar[k] => k \in DOMAIN x0.quar /\ x0.quar[k] = x.quar[k]
      BY <2>1, ExpireKeepsPool, ZenonT(40)
    <2>3. Holds(x0)
      BY <2>1, <2>2, Zenon DEF Holds
    <2>4. diag.idx >= 0 => x0.buf.stat[diag.idx] = "tx"
      BY <2>1, <2>2, Zenon DEF Pending, RtInv
    <2>5. QED BY <2>2, <2>3, <2>4, Zenon
  <1>4. Served(x0, i, "motion", fm, r, x1)
    BY <1>1, <1>2, <1>3, FrameServed, Zenon
  <1>5. Pool(x1, Pending(diag)) /\ Holds(x1) /\ (diag.idx >= 0 => x1.buf.stat[diag.idx] = "tx")
    BY <1>4, Zenon DEF Served
  <1>6. IF IoDue THEN Served(x1, j, "io", fi, q, x2) ELSE q = NoFrame /\ x2 = x1
    <2>1. CASE IoDue
      BY <1>1, <1>2, <1>5, <2>1, FrameServed, Zenon
    <2>2. CASE ~IoDue
      BY <1>1, <2>2, Zenon
    <2>3. QED BY <2>1, <2>2, Zenon
  <1>7. Pool(x2, Pending(diag)) /\ Holds(x2) /\ (diag.idx >= 0 => x2.buf.stat[diag.idx] = "tx")
    BY <1>5, <1>6, Zenon DEF Served
  <1>8. DiagResult(x2, arr, g)
    BY <1>1, <1>7, DiagnoseResult, ZenonT(40)
  <1>9. QED BY <1>1, <1>4, <1>6, <1>7, <1>8, ZenonT(40)

\* The late replies of a tick: those still on their way and the new ones.
Comes(s, i, j, g, fm, fi, arr) ==
  \/ s \in net \ arr /\ now + 1 - s.f.at <= MaxDelay
  \/ fm = "late" /\ s = Late(i, "motion")
  \/ IoDue /\ fi = "late" /\ s = Late(j, "io")
  \/ g.d.idx >= 0 /\ diag.idx < 0 /\ s = Late(g.d.idx, "diag")

\* Where a frame still on its way after a tick comes from.
LEMMA NetStep ==
  ASSUME RtInv, NEW fm, NEW fi, NEW fd, NEW arr \in SUBSET net, NEW i, NEW r, NEW j, NEW q, NEW g,
         Effects(i, r, j, q, g, fm, fi, fd, arr), NEW s \in net'
  PROVE  Comes(s, i, j, g, fm, fi, arr)
  BY Zenon DEF Effects, Comes

\* A whole tick keeps the invariant, and every reply it took was its own.
LEMMA TickKeepsInv ==
  ASSUME SetFacts, RtInv, RtNext
  PROVE  RtInv' /\ OwnReply'
  <1> USE RtAssumption
  <1>1. PICK send \in BOOLEAN, fm \in Fates, fi \in Fates, fd \in Fates, arr \in SUBSET net :
          now' = now + 1 /\ Tick(send, fm, fi, fd, arr)
    BY DEF RtNext
  <1>2. PICK x0, i, r, x1, j, q, x2, g :
          /\ Served(x0, i, "motion", fm, r, x1)
          /\ IF IoDue THEN Served(x1, j, "io", fi, q, x2) ELSE q = NoFrame /\ x2 = x1
          /\ DiagResult(x2, arr, g) /\ Holds(x2)
          /\ Effects(i, r, j, q, g, fm, fi, fd, arr)
    BY <1>1, TickParts, Zenon
  <1>3. /\ now \in Nat /\ diag \in Diag /\ net \in SUBSET [idx : Idx, f : [kind : Kind, at : Int]]
        /\ \A s \in net : s.f.at < now /\ now - s.f.at <= MaxDelay
    BY Zenon DEF RtInv
  <1>4. /\ buf' = g.x.buf /\ quar' = g.x.quar /\ spilled' = g.x.spilled /\ diag' = g.d
        /\ taken'["motion"] # NoFrame => taken'["motion"] = r
        /\ taken'["io"] # NoFrame => taken'["io"] = q
        /\ taken'["diag"] = g.f
    BY <1>2, Zenon DEF Effects
  <1>5. /\ Keeps(x2, g.x) /\ Pool(g.x, Pending(g.d)) /\ g.d \in Diag
        /\ g.d.idx >= 0 => g.d.age < DiagAge /\ g.x.buf.stat[g.d.idx] = "tx"
        /\ g.d.idx >= 0 /\ diag.idx < 0 => g.d.age = 0
        /\ ~g.x.spilled /\ g.f # NoFrame => g.f.at >= now - DiagAge
        /\ ~g.x.spilled => \A s \in net \ arr : s.idx = diag.idx =>
             \/ s.idx \in DOMAIN g.x.quar /\ g.x.quar[s.idx] = now + QuarTicks
             \/ g.d.idx = diag.idx /\ g.d.age = diag.age + 1
    BY <1>2, Zenon DEF DiagResult
  <1>6. /\ i \in Idx /\ (IoDue => j \in Idx) /\ Keeps(x1, x2)
        /\ ~g.x.spilled => ~x2.spilled /\ ~x1.spilled /\ ~spilled
    BY <1>2, <1>5, Zenon DEF Served, Keeps, Holds
  <1>7. Pool(Here', Pending(diag)')
    <2>1. g.x = [buf |-> g.x.buf, quar |-> g.x.quar, spilled |-> g.x.spilled]
      BY <1>5, ZenonT(40) DEF Pool, Port
    <2>2. Here' = g.x /\ Pending(diag)' = Pending(g.d)
      BY <1>4, <2>1, Zenon DEF Here, Pending
    <2>3. QED BY <1>5, <2>2, Zenon
  <1>8. ASSUME NEW s \in net'
        PROVE  s \in [idx : Idx, f : [kind : Kind, at : Int]] /\ s.f.at < now' /\ now' - s.f.at <= MaxDelay
    <2>1. CASE s \in net \ arr /\ now + 1 - s.f.at <= MaxDelay
      BY <1>1, <1>3, <2>1
    <2>2. ASSUME NEW k \in Idx, NEW kind \in Kind, s = Late(k, kind)
          PROVE  s \in [idx : Idx, f : [kind : Kind, at : Int]] /\ s.f.at < now' /\ now' - s.f.at <= MaxDelay
      BY <1>1, <1>3, <2>2 DEF Late, Frame0
    <2>3. "motion" \in Kind /\ "io" \in Kind /\ "diag" \in Kind
      BY Zenon DEF Kind
    <2>4. g.d.idx >= 0 => g.d.idx \in Idx
      BY <1>5 DEF Diag
    <2>5. Comes(s, i, j, g, fm, fi, arr)
      BY <1>2, NetStep, Zenon
    <2>6. QED BY <1>6, <2>1, <2>2, <2>3, <2>4, <2>5, Zenon DEF Comes
  <1>9. ASSUME ~spilled', NEW s \in net' PROVE Accounted(s)'
    <2>1. SUFFICES \/ s.idx \in DOMAIN g.x.quar /\ g.x.quar[s.idx] >= s.f.at + QuarTicks
                   \/ s.idx = g.d.idx /\ s.f = Frame0("diag", now - g.d.age)
      <3>1. now' - 1 - diag'.age = now - g.d.age
        BY <1>1, <1>3, <1>4, <1>5, SMTT(30) DEF Diag
      <3>2. QED BY <1>4, <3>1, ZenonT(40) DEF Accounted
    <2>2. ~g.x.spilled
      BY <1>4, <1>9, Zenon
    <2>3. CASE s \in net \ arr
      <3>1. Accounted(s) /\ s.f.at \in Int /\ now - s.f.at <= MaxDelay /\ s.f.at < now
        BY <1>3, <1>6, <2>2, <2>3, Zenon DEF RtInv
      <3>2. CASE s.idx \in DOMAIN quar /\ quar[s.idx] >= s.f.at + QuarTicks
        <4>1. quar[s.idx] \in Nat
          BY <3>2, SMTT(30) DEF RtInv, Pool, Port, Quar, Here
        <4>2. now < quar[s.idx]
          BY <1>3, <3>1, <3>2, <4>1, SMTT(30)
        <4>3. s.idx \in DOMAIN x2.quar /\ x2.quar[s.idx] = quar[s.idx]
          BY <1>2, <1>6, <2>2, <3>2, <4>2, ZenonT(40) DEF Holds
        <4>4. s.idx \in DOMAIN g.x.quar /\ g.x.quar[s.idx] = quar[s.idx]
          BY <1>5, <2>2, <4>3, Zenon DEF Keeps
        <4>5. QED BY <3>2, <4>4, ZenonT(40)
      <3>3. CASE s.idx = diag.idx /\ s.f = Frame0("diag", now - 1 - diag.age)
        <4>1. CASE s.idx \in DOMAIN g.x.quar /\ g.x.quar[s.idx] = now + QuarTicks
          <5>1. now + QuarTicks >= s.f.at + QuarTicks
            BY <1>3, <3>1
          <5>2. QED BY <4>1, <5>1, Zenon
        <4>2. CASE g.d.idx = diag.idx /\ g.d.age = diag.age + 1
          <5>1. now - g.d.age = now - 1 - diag.age
            BY <1>3, <4>2 DEF Diag
          <5>2. QED BY <3>3, <4>2, <5>1, Zenon
        <4>3. QED BY <1>5, <2>2, <2>3, <3>3, <4>1, <4>2, Zenon
      <3>4. QED BY <3>1, <3>2, <3>3, Zenon DEF Accounted
    <2>4. CASE fm = "late" /\ s = Late(i, "motion")
      <3>1. i \in DOMAIN x1.quar /\ x1.quar[i] = now + QuarTicks
        BY <1>2, <1>6, <2>2, <2>4, Zenon DEF Served
      <3>2. i \in DOMAIN x2.quar /\ x2.quar[i] = now + QuarTicks
        BY <1>6, <2>2, <3>1, Zenon DEF Keeps
      <3>3. i \in DOMAIN g.x.quar /\ g.x.quar[i] = now + QuarTicks
        BY <1>5, <2>2, <3>2, Zenon DEF Keeps
      <3>4. s.idx = i /\ s.f.at = now
        BY <2>4, Zenon DEF Late, Frame0
      <3>5. QED BY <1>3, <3>3, <3>4
    <2>5. CASE IoDue /\ fi = "late" /\ s = Late(j, "io")
      <3>1. j \in DOMAIN x2.quar /\ x2.quar[j] = now + QuarTicks
        BY <1>2, <1>6, <2>2, <2>5, ZenonT(40) DEF Served
      <3>2. j \in DOMAIN g.x.quar /\ g.x.quar[j] = now + QuarTicks
        BY <1>5, <2>2, <3>1 DEF Keeps
      <3>3. s.idx = j /\ s.f.at = now
        BY <2>5, Zenon DEF Late, Frame0
      <3>4. QED BY <1>3, <3>2, <3>3
    <2>6. CASE g.d.idx >= 0 /\ diag.idx < 0 /\ s = Late(g.d.idx, "diag")
      <3>1. g.d.age = 0 /\ now - 0 = now
        BY <1>3, <1>5, <2>6, SMTT(30)
      <3>2. QED BY <2>6, <3>1, ZenonT(40) DEF Late, Frame0
    <2>7. Comes(s, i, j, g, fm, fi, arr)
      BY <1>2, NetStep
    <2>8. QED BY <2>3, <2>4, <2>5, <2>6, <2>7, Zenon DEF Comes
  <1>10. RtInv'
    <2>1. now' \in Nat /\ diag' \in Diag
      BY <1>1, <1>3, <1>4, <1>5, SMTT(30)
    <2>2. diag'.idx >= 0 => diag'.age < DiagAge /\ buf'.stat[diag'.idx] = "tx"
      BY <1>4, <1>5, Zenon
    <2>3. net' \in SUBSET [idx : Idx, f : [kind : Kind, at : Int]]
      BY <1>8, Zenon
    <2>4. QED BY <1>7, <1>8, <1>9, <2>1, <2>2, <2>3, SMTT(30) DEF RtInv
  <1>11. OwnReply'
    <2>1. SUFFICES ASSUME ~spilled'
                   PROVE  /\ taken'["motion"] # NoFrame => taken'["motion"].at = now
                          /\ taken'["io"] # NoFrame => taken'["io"].at = now
                          /\ taken'["diag"] # NoFrame => taken'["diag"].at >= now - DiagAge
      <3>1. now' - 1 = now
        BY <1>1, <1>3
      <3>2. QED BY <3>1, Zenon DEF OwnReply
    <2>2. ~g.x.spilled
      BY <1>4, <2>1, ZenonT(40)
    <2>3. r # NoFrame => r.at = now
      BY <1>2, <1>6, <2>2, SMTT(30) DEF Served, Frame0
    <2>4. q # NoFrame => q.at = now
      BY <1>2, <1>6, <2>2, SMTT(30) DEF Served, Frame0
    <2>5. QED BY <1>4, <1>5, <2>2, <2>3, <2>4, Zenon
  <1>12. QED BY <1>10, <1>11, Zenon

\* The invariant holds at the start.
LEMMA RtInitInv ==
  ASSUME SetFacts, RtInit
  PROVE  RtInv /\ OwnReply
  <1> USE RtAssumption
  <1>1. now = 0 /\ net = {} /\ quar = <<>> /\ spilled = FALSE /\ diag = [idx |-> -1, age |-> 0]
    BY Zenon DEF RtInit
  <1>2. buf \in Buf /\ \A i \in Idx : buf.stat[i] = "empty"
    <2>1. NoFrame \in Frm
      BY DEF NoFrame, Frm
    <2>2. NumIdx - 1 \in Idx
      BY DEF Idx
    <2>3. [i \in Idx |-> "empty"] \in [Idx -> Stat] /\ [i \in Idx |-> NoFrame] \in [Idx -> Frm]
      BY <2>1, Zenon DEF Stat
    <2>4. QED BY <2>2, <2>3, Zenon DEF RtInit, Buf
  <1>3. DOMAIN quar = {} /\ quar \in Quar
    <2>1. DOMAIN quar = {} /\ quar \in [{} -> Nat]
      BY <1>1
    <2>2. QED BY <2>1, Zenon DEF Quar
  <1>4. Here \in Port
    BY <1>1, <1>2, <1>3, Zenon DEF Here, Port
  <1>5. Cardinality({}) = 0
    BY Zenon DEF SetFacts
  <1>6. Pending(diag) = {} /\ diag \in Diag
    BY <1>1 DEF Pending, Diag
  <1>7. Pool(Here, Pending(diag))
    <2>1. Lone({}) /\ 0 <= QuarMax
      BY DEF Lone
    <2>2. Here.quar = quar /\ Here.buf = buf
      BY Zenon DEF Here
    <2>3. QED BY <1>2, <1>3, <1>4, <1>5, <1>6, <2>1, <2>2, Zenon DEF Pool
  <1>8. RtInv
    BY <1>1, <1>6, <1>7 DEF RtInv
  <1>9. OwnReply
    BY Zenon DEF RtInit, OwnReply
  <1>10. QED BY <1>8, <1>9, Zenon

\* A stutter changes nothing the invariant is about.
LEMMA RtStutter ==
  ASSUME RtInv, OwnReply, UNCHANGED rtVars
  PROVE  (RtInv /\ OwnReply)'
  <1>1. /\ now' = now /\ diag' = diag /\ buf' = buf /\ net' = net /\ quar' = quar /\ spilled' = spilled
        /\ taken' = taken
    BY Zenon DEF rtVars
  <1>2. Here' = Here /\ Pending(diag)' = Pending(diag) /\ \A s : Accounted(s)' = Accounted(s)
    BY <1>1, Zenon DEF Here, Pending, Accounted
  <1>3. RtInv'
    BY <1>1, <1>2, Zenon DEF RtInv
  <1>4. OwnReply'
    BY <1>1, Zenon DEF OwnReply
  <1>5. QED BY <1>3, <1>4, Zenon

-----------------------------------------------------------------------------
(* Finite sets                                                             *)

\* The number of elements, as FiniteSets defines it.
Count(S) ==
  LET CS[T \in SUBSET S] == IF T = {} THEN 0 ELSE 1 + CS[T \ {CHOOSE x : x \in T}]
  IN  CS[S]

\* The quarantine and the pool are counted with it.
LEMMA CountedBefore == \A S : Cardinality(S) = Count(S)
  BY Zenon DEF Cardinality, Count

\* Only what follows uses the theorems about finite sets.
LOCAL INSTANCE FiniteSetTheorems

\* They are about the same number.
LEMMA CountedHere == \A S : Cardinality(S) = Count(S)
  BY Zenon DEF Cardinality, Count

\* The frame indices are NumIdx many.
LEMMA IdxFinite == IsFiniteSet(Idx) /\ Cardinality(Idx) = NumIdx
  <1>1. 0 \in Int /\ NumIdx - 1 \in Int
    BY RtAssumption
  <1>2. QED BY <1>1, FS_Interval, RtAssumption DEF Idx

\* Every set of naturals has a least element.
LEMMA LeastExists ==
  ASSUME NEW T \in SUBSET Nat, T # {}
  PROVE  \E x \in T : \A y \in T : x <= y
  <1>1. IsWellFoundedOn(OpToRel(<, Nat), Nat)
    BY NatLessThanWellFounded, Zenon
  <1>2. PICK x \in T : \A y \in T : ~(<<y, x>> \in OpToRel(<, Nat))
    BY <1>1, WFMin, Zenon
  <1>3. ASSUME NEW y \in T PROVE x <= y
    <2>1. ~(y < x)
      BY <1>2, Zenon DEF OpToRel
    <2>2. QED BY <2>1
  <1>4. QED BY <1>3, Zenon

\* The facts about counting indices that the proofs above take for granted.
LEMMA SetFactsHold == SetFacts
  <1>1. ASSUME NEW S \in SUBSET Idx PROVE IsFiniteSet(S) /\ Cardinality(S) \in Nat
    BY IdxFinite, FS_Subset, FS_CardinalityType
  <1>2. Cardinality({}) = 0
    BY FS_EmptySet, Zenon
  <1>3. ASSUME NEW S \in SUBSET Idx, NEW i \in S PROVE Cardinality(S \ {i}) = Cardinality(S) - 1
    BY <1>1, FS_RemoveElement, Zenon
  <1>4. ASSUME NEW S \in SUBSET Idx, NEW i \in Idx \ S PROVE Cardinality(S \cup {i}) = Cardinality(S) + 1
    BY <1>1, FS_AddElement, Zenon
  <1>5. ASSUME NEW S \in SUBSET Idx, NEW T \in SUBSET S PROVE Cardinality(T) <= Cardinality(S)
    BY <1>1, FS_Subset, Zenon
  <1>6. QED BY <1>1, <1>2, <1>3, <1>4, <1>5, LeastExists, IdxFinite, CountedBefore, CountedHere, ZenonT(40) DEF SetFacts

\* As long as no index had to be released early, a reply that the loop takes for
\* a motion, IO or diagnostic frame is the reply to that frame: for every size of
\* the pool, of the quarantine and of the delays within it, and for any losses.
THEOREM RepliesAreOwn == RtSpec => []OwnReply
  <1>1. RtInit => RtInv /\ OwnReply
    BY SetFactsHold, RtInitInv, Zenon
  <1>2. RtInv /\ OwnReply /\ [RtNext]_rtVars => (RtInv /\ OwnReply)'
    <2>1. ASSUME RtInv, RtNext PROVE (RtInv /\ OwnReply)'
      BY <2>1, SetFactsHold, TickKeepsInv, Zenon
    <2>2. ASSUME RtInv, OwnReply, UNCHANGED rtVars PROVE (RtInv /\ OwnReply)'
      BY <2>2, RtStutter, Zenon
    <2>3. QED BY <2>1, <2>2, Zenon
  <1>3. QED BY <1>1, <1>2, PTL DEF RtSpec
=============================================================================
