----------------------- MODULE WrappingNumbers_proofs -----------------------
(***************************************************************************)
(* The places where correctness hangs on numbers that wrap.  The ring      *)
(* implements a bounded queue for every capacity and every width of its    *)
(* counters that the capacity divides.  The freshness counter tells newer  *)
(* from older inputs for every number of bits.  An SDO write changes only  *)
(* what the allowlist permits, also after its value was encoded, and an    *)
(* abort code answers one request only, for every file, every set of       *)
(* objects and every width of the types.                                   *)
(***************************************************************************)
EXTENDS SpscRing, Freshness, SdoApi, TLAPS

-----------------------------------------------------------------------------
(* Remainders                                                              *)

\* Quotient and remainder.
LEMMA DivMod ==
  ASSUME NEW n \in Nat \ {0}, NEW a \in Int
  PROVE  /\ (a % n) \in 0 .. n - 1 /\ (a \div n) \in Int
         /\ a = (n * (a \div n)) + (a % n)
  OBVIOUS

\* Multiples of n are n apart.
LEMMA MulApart ==
  ASSUME NEW n \in Nat \ {0}, NEW p \in Int, NEW q \in Int, p > q
  PROVE  n * p >= (n * q) + n
  OBVIOUS

\* There is one way to write a number as a multiple of n and a remainder.
LEMMA RemainderIsUnique ==
  ASSUME NEW n \in Nat \ {0}, NEW p \in Int, NEW q \in Int,
         NEW r \in 0 .. n - 1, NEW s \in 0 .. n - 1, (n * p) + r = (n * q) + s
  PROVE  r = s
  <1>1. n * p \in Int /\ n * q \in Int
    OBVIOUS
  <1>2. ~(p > q)
    BY <1>1, MulApart
  <1>3. ~(q > p)
    BY <1>1, MulApart
  <1>4. p = q
    BY <1>2, <1>3
  <1>5. QED BY <1>1, <1>4

\* The remainder of a number written in that way.
LEMMA ModIs ==
  ASSUME NEW n \in Nat \ {0}, NEW a \in Int, NEW p \in Int, NEW r \in 0 .. n - 1, a = (n * p) + r
  PROVE  a % n = r
  <1>1. (n * (a \div n)) + (a % n) = (n * p) + r
    BY DivMod, Zenon
  <1>2. (a % n) \in 0 .. n - 1 /\ (a \div n) \in Int
    BY DivMod, Zenon
  <1>3. QED BY <1>1, <1>2, RemainderIsUnique, Zenon

\* A counter that is at most one turn too far, or one turn behind.
LEMMA Wrapped ==
  ASSUME NEW x \in Int
  PROVE  /\ x \in 0 .. Width - 1 => x % Width = x
         /\ x \in Width .. 2 * Width - 1 => x % Width = x - Width
         /\ x \in -Width .. -1 => x % Width = x + Width
  <1> USE RingAssumption
  <1>1. ASSUME x \in 0 .. Width - 1 PROVE x % Width = x
    <2>1. x = (Width * 0) + x
      OBVIOUS
    <2>2. QED BY <1>1, <2>1, ModIs
  <1>2. ASSUME x \in Width .. 2 * Width - 1 PROVE x % Width = x - Width
    <2>1. x = (Width * 1) + (x - Width) /\ x - Width \in 0 .. Width - 1
      BY <1>2
    <2>2. QED BY <2>1, ModIs
  <1>3. ASSUME x \in -Width .. -1 PROVE x % Width = x + Width
    <2>1. x = (Width * (-1)) + (x + Width) /\ x + Width \in 0 .. Width - 1
      BY <1>3
    <2>2. QED BY <2>1, ModIs
  <1>4. QED BY <1>1, <1>2, <1>3, Zenon

\* The slot of a counter does not depend on whether it has wrapped.
LEMMA IndexWraps ==
  ASSUME NEW x \in 0 .. 2 * Width - 1
  PROVE  /\ Index(x % Width) = Index(x) /\ Index(x) \in 0 .. RingLen - 1
         /\ x >= Width => Index(x - Width) = Index(x)
  <1> USE RingAssumption
  <1>1. Index(x) \in 0 .. RingLen - 1 /\ (x \div RingLen) \in Int
        /\ x = (RingLen * (x \div RingLen)) + Index(x)
    BY DivMod DEF Index
  <1>2. (Width \div RingLen) \in Int /\ Width = RingLen * (Width \div RingLen)
    BY DivMod
  <1>3. x - Width = (RingLen * ((x \div RingLen) - (Width \div RingLen))) + Index(x)
    BY <1>1, <1>2
  <1>4. Index(x - Width) = Index(x)
    <2>1. x - Width \in Int /\ (x \div RingLen) - (Width \div RingLen) \in Int
      BY <1>1, <1>2
    <2>2. (x - Width) % RingLen = Index(x)
      BY <1>1, <1>3, <2>1, ModIs, Zenon
    <2>3. QED BY <2>2, Zenon DEF Index
  <1>5. x % Width = x \/ x % Width = x - Width
    BY Wrapped
  <1>6. QED BY <1>1, <1>4, <1>5, Zenon

\* Fewer than RingLen steps apart, two counters have different slots.
LEMMA SlotsDiffer ==
  ASSUME NEW x \in Nat, NEW d \in 1 .. RingLen - 1
  PROVE  Index(x + d) # Index(x)
  <1> USE RingAssumption
  <1> SUFFICES ASSUME Index(x + d) = Index(x) PROVE FALSE
    BY Zenon
  <1> DEFINE p == (x + d) \div RingLen
             q == x \div RingLen
  <1>1. p \in Int /\ x + d = (RingLen * p) + Index(x)
    <2>1. x + d \in Int
      OBVIOUS
    <2>2. p \in Int /\ x + d = (RingLen * p) + ((x + d) % RingLen)
      BY <2>1, DivMod, Zenon
    <2>3. QED BY <2>2, Zenon DEF Index
  <1>2. q \in Int /\ x = (RingLen * q) + Index(x) /\ Index(x) \in Int
    BY DivMod DEF Index
  <1> HIDE DEF p, q
  <1>3. RingLen * p \in Int /\ RingLen * q \in Int /\ RingLen * p = (RingLen * q) + d
    BY <1>1, <1>2
  <1>4. ~(p > q)
    BY <1>1, <1>2, <1>3, MulApart
  <1>5. ~(q > p)
    BY <1>1, <1>2, <1>3, MulApart
  <1>6. p = q
    BY <1>1, <1>2, <1>4, <1>5
  <1>7. QED BY <1>3, <1>6

-----------------------------------------------------------------------------
(* The ring: its invariant                                                 *)

\* What each side knows: the producer that has found room keeps it, the consumer
\* that has found an element keeps it, and what each has copied is in its slot.
RingInv ==
  /\ ringHead \in 0 .. Width - 1 /\ ringTail \in 0 .. Width - 1
  /\ ringBuf \in [0 .. RingLen - 1 -> RingMessage]
  /\ pushMsg \in RingMessage
  /\ Used \in 0 .. RingLen
  /\ pushPc \in {"idle", "write", "publish"} /\ popPc \in {"idle", "copy", "drop"}
  /\ pushPc # "idle" => Used < RingLen
  /\ pushPc = "publish" => ringBuf[Index(ringHead)] = pushMsg
  /\ popPc # "idle" => Used > 0
  /\ popPc = "drop" => popOut = ringBuf[Index(ringTail)]

\* Used without the remainder.
LEMMA UsedIs ==
  ASSUME NEW h \in 0 .. Width - 1, NEW t \in 0 .. Width - 1
  PROVE  (h - t) % Width = IF h >= t THEN h - t ELSE h - t + Width
  <1>1. h - t \in Int /\ (h >= t => h - t \in 0 .. Width - 1) /\ (h < t => h - t \in -Width .. -1)
    BY RingAssumption
  <1>2. QED BY <1>1, Wrapped, RingAssumption

\* A counter that moves on by one.
LEMMA OneMore ==
  ASSUME NEW a \in 0 .. Width - 1
  PROVE  /\ (a + 1) % Width = IF a = Width - 1 THEN 0 ELSE a + 1
         /\ (a + 1) % Width \in 0 .. Width - 1
  <1>1. a + 1 \in Int /\ (a # Width - 1 => a + 1 \in 0 .. Width - 1)
        /\ (a = Width - 1 => a + 1 \in Width .. 2 * Width - 1)
    BY RingAssumption
  <1>2. QED BY <1>1, Wrapped, RingAssumption

\* The slot of the i-th waiting element.
LEMMA SlotOf ==
  ASSUME NEW t \in 0 .. Width - 1, NEW i \in 1 .. RingLen + 1
  PROVE  /\ Index((t + i - 1) % Width) = Index(t + i - 1)
         /\ Index(t + i - 1) \in 0 .. RingLen - 1
  <1>1. t + i - 1 \in 0 .. 2 * Width - 1
    BY RingAssumption
  <1>2. QED BY <1>1, IndexWraps, Zenon

\* The producer's slot is the one behind the last element.
LEMMA HeadSlot ==
  ASSUME RingInv
  PROVE  /\ Index(ringHead) = Index(ringTail + Used) /\ Index(ringHead) \in 0 .. RingLen - 1
         /\ \A i \in 1 .. Used : Used < RingLen => Index(ringTail + i - 1) # Index(ringHead)
  <1> USE RingAssumption
  <1>1. ringHead \in 0 .. Width - 1 /\ ringTail \in 0 .. Width - 1 /\ Used \in 0 .. RingLen
    BY Zenon DEF RingInv
  <1>2. Used = IF ringHead >= ringTail THEN ringHead - ringTail ELSE ringHead - ringTail + Width
    BY <1>1, UsedIs, Zenon DEF Used
  <1>3. ringTail + Used \in 0 .. 2 * Width - 1
    BY <1>1
  <1>4. ringHead = ringTail + Used \/ (ringTail + Used >= Width /\ ringHead = ringTail + Used - Width)
    BY <1>1, <1>2
  <1>5. Index(ringHead) = Index(ringTail + Used) /\ Index(ringHead) \in 0 .. RingLen - 1
    <2> DEFINE x == ringTail + Used
    <2>1. x \in 0 .. 2 * Width - 1 /\ (ringHead = x \/ (x >= Width /\ ringHead = x - Width))
      BY <1>1, <1>3, <1>4
    <2> HIDE DEF x
    <2>2. Index(x) \in 0 .. RingLen - 1 /\ (x >= Width => Index(x - Width) = Index(x))
      BY <2>1, IndexWraps, Zenon
    <2>3. Index(ringHead) = Index(x)
      BY <2>1, <2>2, Zenon
    <2>4. QED BY <2>2, <2>3, Zenon DEF x
  <1>6. ASSUME NEW i \in 1 .. Used, Used < RingLen PROVE Index(ringTail + i - 1) # Index(ringHead)
    <2> DEFINE x == ringTail + i - 1
               d == Used - i + 1
    <2>1. x \in Nat /\ d \in 1 .. RingLen - 1 /\ x + d = ringTail + Used
      BY <1>1, <1>6
    <2>2. Index(x + d) # Index(x)
      BY <2>1, SlotsDiffer, Zenon
    <2>3. QED BY <1>5, <2>1, <2>2, Zenon
  <1>7. QED BY <1>5, <1>6, Zenon

\* RingWaiting without the wrapped counters.
LEMMA WaitingIs ==
  ASSUME RingInv
  PROVE  RingWaiting = [i \in 1 .. Used |-> ringBuf[Index(ringTail + i - 1)]]
  <1>1. \A i \in 1 .. Used : Index((ringTail + i - 1) % Width) = Index(ringTail + i - 1)
    <2>1. ringTail \in 0 .. Width - 1 /\ 1 .. Used \subseteq 1 .. RingLen + 1
      BY RingAssumption DEF RingInv
    <2>2. QED BY <2>1, SlotOf, Zenon
  <1>2. QED BY <1>1, Zenon DEF RingWaiting

-----------------------------------------------------------------------------
(* The ring: its steps                                                     *)

\* The first states: an empty ring at any position.
LEMMA RingInitInv == RingInit => RingInv /\ RingWaiting = <<>>
  <1> SUFFICES ASSUME RingInit PROVE RingInv /\ RingWaiting = <<>>
    BY Zenon
  <1>1. ringHead \in 0 .. Width - 1 /\ ringTail = ringHead
    BY Zenon DEF RingInit
  <1>2. Used = 0
    BY <1>1, UsedIs, RingAssumption DEF Used
  <1>3. RingInv
    BY <1>1, <1>2, RingAssumption DEF RingInit, RingInv
  <1>4. QED BY <1>2, <1>3 DEF RingWaiting

\* Writing the producer's slot disturbs no waiting element.
LEMMA WriteStep ==
  ASSUME RingInv, PushWrite
  PROVE  RingInv' /\ RingWaiting' = RingWaiting
  <1> USE RingAssumption
  <1>1. Used' = Used /\ UNCHANGED <<ringHead, ringTail>> /\ Used < RingLen /\ Used \in 0 .. RingLen
    BY Zenon DEF PushWrite, RingInv, Used
  <1>2. \A i \in 1 .. Used : Index(ringTail + i - 1) # Index(ringHead)
    BY <1>1, HeadSlot, Zenon
  <1>3. ringTail \in 0 .. Width - 1 /\ 1 .. Used \subseteq 1 .. RingLen + 1
    BY <1>1 DEF RingInv
  <1>4. \A i \in 1 .. Used : Index(ringTail + i - 1) \in 0 .. RingLen - 1
    BY <1>3, SlotOf, Zenon
  <1>5. \A i \in 1 .. Used : ringBuf'[Index(ringTail + i - 1)] = ringBuf[Index(ringTail + i - 1)]
    BY <1>2, <1>4, Zenon DEF PushWrite, RingInv
  <1>6. Index(ringHead) \in 0 .. RingLen - 1
    BY HeadSlot, Zenon
  <1>7. popPc = "drop" => ringBuf'[Index(ringTail)] = ringBuf[Index(ringTail)]
    <2>1. popPc = "drop" => 1 \in 1 .. Used
      BY <1>1 DEF RingInv
    <2>2. ringTail + 1 - 1 = ringTail
      BY <1>3
    <2>3. QED BY <1>5, <2>1, <2>2, Zenon
  <1>8. RingInv'
    <2>1. Index(ringHead)' = Index(ringHead) /\ Index(ringTail)' = Index(ringTail)
      BY <1>1, Zenon DEF Index
    <2>2. QED BY <1>1, <1>6, <1>7, <2>1, Zenon DEF RingInv, PushWrite, popper
  <1>9. RingWaiting = [i \in 1 .. Used |-> ringBuf[Index(ringTail + i - 1)]]
    BY WaitingIs, Zenon
  <1>10. RingWaiting' = [i \in 1 .. Used |-> ringBuf'[Index(ringTail + i - 1)]]
    <2>1. \A i \in 1 .. Used : Index((ringTail + i - 1) % Width) = Index(ringTail + i - 1)
      BY <1>3, SlotOf, ZenonT(40)
    <2>2. RingWaiting' = [i \in 1 .. Used |-> ringBuf'[Index((ringTail + i - 1) % Width)]]
      BY <1>1, Zenon DEF RingWaiting, Index
    <2>3. QED BY <2>1, <2>2, Zenon
  <1>11. QED BY <1>5, <1>8, <1>9, <1>10, Zenon

\* Publishing head appends the producer's element.
LEMMA PublishStep ==
  ASSUME RingInv, PushPublish
  PROVE  RingInv' /\ Len(RingWaiting) < RingLen /\ RingWaiting' = Append(RingWaiting, pushMsg)
  <1> USE RingAssumption
  <1>1. ringHead \in 0 .. Width - 1 /\ ringTail \in 0 .. Width - 1 /\ Used \in 0 .. RingLen /\ Used < RingLen
    BY Zenon DEF PushPublish, RingInv
  <1>2. ringHead' \in 0 .. Width - 1 /\ ringHead' = (IF ringHead = Width - 1 THEN 0 ELSE ringHead + 1)
        /\ UNCHANGED <<ringTail, ringBuf>>
    BY <1>1, OneMore, Zenon DEF PushPublish
  <1>3. Used' = Used + 1
    <2>1. Used = IF ringHead >= ringTail THEN ringHead - ringTail ELSE ringHead - ringTail + Width
      BY <1>1, UsedIs, Zenon DEF Used
    <2>2. Used' = IF ringHead' >= ringTail THEN ringHead' - ringTail ELSE ringHead' - ringTail + Width
      BY <1>1, <1>2, UsedIs DEF Used
    <2>3. QED BY <1>1, <1>2, <2>1, <2>2
  <1>4. RingInv'
    <2>1. Index(ringTail)' = Index(ringTail)
      BY <1>2, Zenon DEF Index
    <2>2. QED BY <1>1, <1>2, <1>3, <2>1 DEF RingInv, PushPublish, popper
  <1>5. RingWaiting = [i \in 1 .. Used |-> ringBuf[Index(ringTail + i - 1)]]
    BY WaitingIs
  <1>6. RingWaiting' = [i \in 1 .. Used + 1 |-> ringBuf[Index(ringTail + i - 1)]]
    <2>1. 1 .. Used + 1 \subseteq 1 .. RingLen + 1
      BY <1>1
    <2>2. \A i \in 1 .. Used + 1 : Index((ringTail + i - 1) % Width) = Index(ringTail + i - 1)
      BY <1>1, <2>1, SlotOf, ZenonT(40)
    <2>3. RingWaiting' = [i \in 1 .. Used + 1 |-> ringBuf[Index((ringTail + i - 1) % Width)]]
      BY <1>2, <1>3, Zenon DEF RingWaiting, Index
    <2>4. QED BY <2>2, <2>3, Zenon
  <1>7. pushMsg = ringBuf[Index(ringTail + (Used + 1) - 1)]
    <2>1. ringTail + (Used + 1) - 1 = ringTail + Used
      BY <1>1
    <2>2. pushMsg = ringBuf[Index(ringHead)]
      BY Zenon DEF PushPublish, RingInv
    <2>3. QED BY <2>1, <2>2, HeadSlot, Zenon
  <1> DEFINE e(i) == ringBuf[Index(ringTail + i - 1)]
  <1> HIDE DEF e
  <1>8. RingWaiting = [i \in 1 .. Used |-> e(i)] /\ RingWaiting' = [i \in 1 .. Used + 1 |-> e(i)] /\ pushMsg = e(Used + 1)
    BY <1>5, <1>6, <1>7, Zenon DEF e
  <1>9. Used \in Nat
    BY <1>1
  <1>10. Len(RingWaiting) = Used /\ RingWaiting' = Append(RingWaiting, pushMsg)
    BY <1>8, <1>9
  <1>11. QED BY <1>1, <1>4, <1>10, Zenon

\* Publishing tail takes the first element.
LEMMA PopStep ==
  ASSUME RingInv, PopPublish
  PROVE  RingInv' /\ RingWaiting # <<>> /\ popOut = Head(RingWaiting) /\ RingWaiting' = Tail(RingWaiting)
  <1> USE RingAssumption
  <1>1. ringHead \in 0 .. Width - 1 /\ ringTail \in 0 .. Width - 1 /\ Used \in 1 .. RingLen
    BY DEF PopPublish, RingInv
  <1>2. ringTail' \in 0 .. Width - 1 /\ ringTail' = (IF ringTail = Width - 1 THEN 0 ELSE ringTail + 1)
        /\ UNCHANGED <<ringHead, ringBuf>>
    BY <1>1, OneMore, Zenon DEF PopPublish
  <1>3. Used' = Used - 1
    <2>1. Used = IF ringHead >= ringTail THEN ringHead - ringTail ELSE ringHead - ringTail + Width
      BY <1>1, UsedIs, Zenon DEF Used
    <2>2. Used' = IF ringHead >= ringTail' THEN ringHead - ringTail' ELSE ringHead - ringTail' + Width
      <3>1. Used' = (ringHead - ringTail') % Width
        BY <1>2, Zenon DEF Used
      <3>2. \A t \in 0 .. Width - 1 :
              (ringHead - t) % Width = IF ringHead >= t THEN ringHead - t ELSE ringHead - t + Width
        BY <1>1, UsedIs, Zenon
      <3>3. QED BY <1>2, <3>1, <3>2, Zenon
    <2>3. QED BY <1>1, <1>2, <2>1, <2>2
  <1>4. RingInv'
    <2>1. Index(ringHead)' = Index(ringHead)
      BY <1>2 DEF Index
    <2>2. QED BY <1>1, <1>2, <1>3, <2>1 DEF RingInv, PopPublish, pusher
  <1>5. RingWaiting = [i \in 1 .. Used |-> ringBuf[Index(ringTail + i - 1)]]
    BY WaitingIs
  <1>6. RingWaiting' = [i \in 1 .. Used - 1 |-> ringBuf[Index(ringTail + (i + 1) - 1)]]
    <2>1. RingWaiting' = [i \in 1 .. Used - 1 |-> ringBuf[Index((ringTail' + i - 1) % Width)]]
      BY <1>2, <1>3, Zenon DEF RingWaiting, Index
    <2>2. ASSUME NEW i \in 1 .. Used - 1
          PROVE  Index((ringTail' + i - 1) % Width) = Index(ringTail + (i + 1) - 1)
      <3> DEFINE x == ringTail + (i + 1) - 1
      <3>1. i \in 1 .. RingLen + 1
        BY <1>1
      <3>2. Index((ringTail' + i - 1) % Width) = Index(ringTail' + i - 1)
        BY <1>2, <3>1, SlotOf
      <3>3. x \in 0 .. 2 * Width - 1
        BY <1>1, <3>1
      <3>4. ringTail' + i - 1 = x \/ (x >= Width /\ ringTail' + i - 1 = x - Width)
        BY <1>1, <1>2
      <3> HIDE DEF x
      <3>5. Index(ringTail' + i - 1) = Index(x)
        BY <3>3, <3>4, IndexWraps, Zenon
      <3>6. QED BY <3>2, <3>5, Zenon DEF x
    <2>3. QED BY <2>1, <2>2, Zenon
  <1>7. popOut = ringBuf[Index(ringTail + 1 - 1)]
    <2>1. ringTail + 1 - 1 = ringTail
      BY <1>1
    <2>2. QED BY <2>1, Zenon DEF PopPublish, RingInv
  <1> DEFINE e(i) == ringBuf[Index(ringTail + i - 1)]
  <1> HIDE DEF e
  <1>8. RingWaiting = [i \in 1 .. Used |-> e(i)] /\ RingWaiting' = [i \in 1 .. Used - 1 |-> e(i + 1)] /\ popOut = e(1)
    BY <1>5, <1>6, <1>7, Zenon DEF e
  <1>9. RingWaiting # <<>> /\ popOut = Head(RingWaiting) /\ RingWaiting' = Tail(RingWaiting)
    BY <1>1, <1>8
  <1>10. QED BY <1>4, <1>9, Zenon

\* The other steps change neither the counters nor the slots.
LEMMA QuietStep ==
  ASSUME RingInv, PushLoad \/ PopLoad \/ PopCopy \/ UNCHANGED ringVars
  PROVE  RingInv' /\ RingWaiting' = RingWaiting /\ popGot' = popGot
  <1>1. UNCHANGED <<ringHead, ringTail, ringBuf, popGot>>
    BY Zenon DEF PushLoad, PopLoad, PopCopy, ringVars, pusher, popper
  <1>2. Used' = Used /\ RingWaiting' = RingWaiting
    BY <1>1, Zenon DEF Used, RingWaiting, Index
  <1>3. Index(ringHead)' = Index(ringHead) /\ Index(ringTail)' = Index(ringTail)
    BY <1>1, Zenon DEF Index
  <1>4. CASE PushLoad
    <2>1. Used \in 0 .. RingLen /\ (Used >= RingLen \/ Used < RingLen)
      BY RingAssumption DEF RingInv
    <2>2. QED BY <1>1, <1>2, <1>3, <1>4, <2>1, RingAssumption, Zenon DEF PushLoad, RingInv, pusher, popper
  <1>5. CASE PopLoad
    <2>1. Used > 0
      <3>1. ringHead \in 0 .. Width - 1 /\ ringTail \in 0 .. Width - 1 /\ ringHead # ringTail
        BY <1>5, Zenon DEF PopLoad, RingInv
      <3>2. QED BY <3>1, UsedIs, RingAssumption DEF Used
    <2>2. QED BY <1>1, <1>2, <1>3, <1>5, <2>1, Zenon DEF PopLoad, RingInv, pusher
  <1>6. CASE PopCopy
    BY <1>1, <1>2, <1>3, <1>6, Zenon DEF PopCopy, RingInv, pusher
  <1>7. CASE UNCHANGED ringVars
    BY <1>1, <1>2, <1>3, <1>7, Zenon DEF RingInv, ringVars, pusher, popper
  <1>8. QED BY <1>1, <1>2, <1>4, <1>5, <1>6, <1>7, Zenon

\* The rings of the program are FIFO queues of their full capacity, for elements
\* of any kind: publishing head is Accept, publishing tail is Take, and no other
\* step changes what waits, also when the counters wrap.
THEOREM RingImplementsQueue == RingSpec => RingIsQueue
  <1>1. RingInit => RingQueue!QueueInit
    BY RingInitInv, Zenon DEF RingInit, RingQueue!QueueInit
  <1>2. RingInv /\ [RingNext]_ringVars => RingInv' /\ [RingQueue!QueueNext]_RingQueue!queueVars
    <2> SUFFICES ASSUME RingInv, [RingNext]_ringVars
                 PROVE  RingInv' /\ (RingQueue!QueueNext \/ UNCHANGED <<RingWaiting, popGot>>)
      BY Zenon DEF RingQueue!queueVars
    <2>1. CASE PushWrite
      BY <2>1, WriteStep, Zenon DEF PushWrite, popper
    <2>2. CASE PushPublish
      <3>1. popGot' = popGot /\ pushMsg \in RingMessage
        BY <2>2, Zenon DEF PushPublish, popper, RingInv
      <3>2. QED BY <2>2, <3>1, PublishStep, Zenon DEF RingQueue!QueueNext, RingQueue!Accept
    <2>3. CASE PopPublish
      <3>1. popGot' = <<popOut>>
        BY <2>3, Zenon DEF PopPublish
      <3>2. QED BY <2>3, <3>1, PopStep, Zenon DEF RingQueue!QueueNext, RingQueue!Take
    <2>4. CASE PushLoad \/ PopLoad \/ PopCopy \/ UNCHANGED ringVars
      BY <2>4, QuietStep, Zenon
    <2>5. QED BY <2>1, <2>2, <2>3, <2>4, Zenon DEF RingNext, Push, Pop
  <1>3. RingInit => RingInv
    BY RingInitInv, Zenon
  <1>4. QED BY <1>1, <1>2, <1>3, PTL DEF RingSpec, RingIsQueue, RingQueue!QueueSpec

-----------------------------------------------------------------------------
(* Freshness                                                               *)

\* The difference of two remainders is the difference of the numbers, up to n.
LEMMA DifferenceMod ==
  ASSUME NEW n \in Nat \ {0}, NEW x \in Int, NEW b \in Int, NEW k \in Int, NEW r \in 0 .. n - 1,
         x - b = (n * k) + r
  PROVE  ((x % n) - (b % n)) % n = r
  <1>1. PICK p \in Int, u \in 0 .. n - 1 : u = x % n /\ x = (n * p) + u
    BY DivMod, Zenon
  <1>2. PICK q \in Int, v \in 0 .. n - 1 : v = b % n /\ b = (n * q) + v
    BY DivMod, ZenonT(40)
  <1>3. u - v = (n * (k - p + q)) + r
    <2> DEFINE nk == n * k
               np == n * p
               nq == n * q
               nd == n * (k - p + q)
    <2>1. nk \in Int /\ np \in Int /\ nq \in Int /\ nd = nk - np + nq
      OBVIOUS
    <2>2. x - b = nk + r /\ x = np + u /\ b = nq + v
      BY <1>1, <1>2, Zenon
    <2> HIDE DEF nk, np, nq, nd
    <2>3. u - v = nd + r
      BY <2>1, <2>2
    <2>4. QED BY <2>3, Zenon DEF nd
  <1>4. u - v \in Int /\ k - p + q \in Int
    OBVIOUS
  <1>5. (u - v) % n = r
    BY <1>3, <1>4, ModIs, Zenon
  <1>6. QED BY <1>1, <1>2, <1>5, Zenon

\* d of ecm_fresh_update for counts x and b less than half a range apart.
LEMMA DifferenceOf ==
  ASSUME NEW x \in Nat, NEW b \in Nat
  PROVE  /\ x - b \in 0 .. Half - 1 => ((x % FreshRange) - (b % FreshRange)) % FreshRange = x - b
         /\ x - b \in -Half .. -1 => ((x % FreshRange) - (b % FreshRange)) % FreshRange = x - b + FreshRange
  <1> DEFINE n == FreshRange
  <1>1. n \in Nat \ {0} /\ n = 2 * Half /\ Half \in Nat \ {0}
    BY FreshAssumption DEF FreshRange
  <1> HIDE DEF n
  <1>2. x - b = (n * 0) + (x - b) /\ x - b = (n * (-1)) + (x - b + n)
    BY <1>1
  <1>3. ASSUME x - b \in 0 .. Half - 1 PROVE ((x % n) - (b % n)) % n = x - b
    <2>1. x - b \in 0 .. n - 1
      BY <1>1, <1>3
    <2>2. QED BY <1>1, <1>2, <2>1, DifferenceMod
  <1>4. ASSUME x - b \in -Half .. -1 PROVE ((x % n) - (b % n)) % n = x - b + n
    <2> DEFINE k == -1
               r == x - b + n
    <2>1. k \in Int /\ r \in 0 .. n - 1 /\ x - b = (n * k) + r
      BY <1>1, <1>2, <1>4
    <2> HIDE DEF k, r
    <2>2. n \in Nat \ {0} /\ x \in Int /\ b \in Int
      BY <1>1
    <2>3. ((x % n) - (b % n)) % n = r
      <3>1. \A kk \in Int : \A rr \in 0 .. n - 1 : x - b = (n * kk) + rr => ((x % n) - (b % n)) % n = rr
        BY <2>2, DifferenceMod, Zenon
      <3>2. QED BY <2>1, <3>1, Zenon
    <2>4. QED BY <2>3, Zenon DEF r
  <1>5. QED BY <1>3, <1>4, Zenon DEF n

FreshRec == [have : BOOLEAN, last : Int, run : Nat, stale : BOOLEAN]
Takes == {"FIRST", "OK", "RESUMED"}

\* What ecm_fresh_update keeps: last is the newest count taken; run and stale
\* count its repetitions while no gap reached half the range.
FreshInv ==
  /\ count \in Nat /\ fresh \in FreshRec
  /\ truth \in [best : Nat, gap : Int, same : Nat, lost : BOOLEAN]
  /\ truth.best <= count
  /\ fresh.have => fresh.last = truth.best % FreshRange
  /\ ~fresh.have => truth.same = 0 /\ fresh.run = 0 /\ ~fresh.stale
  /\ ~truth.lost => /\ fresh.run = truth.same /\ truth.same <= StaleAfter
                    /\ fresh.stale <=> truth.same = StaleAfter
  /\ VerdictIsTrue

\* ecm_fresh_update field by field.
LEMMA UpdateIs ==
  ASSUME NEW f \in FreshRec, NEW v \in Int, NEW d, d = (v - f.last) % FreshRange,
         NEW u, u = Update(f, v)
  PROVE  /\ u[2] \in FreshRec /\ u[2].have
         /\ ~f.have => u[1] = "FIRST" /\ u[2].last = v /\ u[2].run = f.run /\ u[2].stale = f.stale
         /\ f.have /\ d = 0 /\ f.run + 1 < StaleAfter =>
              u[1] \notin Takes /\ u[2].last = f.last /\ u[2].run = f.run + 1 /\ u[2].stale = f.stale
         /\ f.have /\ d = 0 /\ ~(f.run + 1 < StaleAfter) =>
              u[1] \notin Takes /\ u[2].last = f.last /\ u[2].run = StaleAfter /\ u[2].stale
         /\ f.have /\ d # 0 /\ Older(d) => u[1] = "REGRESSION" /\ u[2] = f
         /\ f.have /\ d # 0 /\ ~Older(d) =>
              u[1] \in {"OK", "RESUMED"} /\ u[2].last = v /\ u[2].run = 0 /\ ~u[2].stale
  <1>1. CASE ~f.have
    <2>1. u = <<"FIRST", [f EXCEPT !.have = TRUE, !.last = v]>>
      BY <1>1, Zenon DEF Update
    <2>2. u[1] = "FIRST" /\ u[2] = [f EXCEPT !.have = TRUE, !.last = v]
      BY <2>1
    <2>3. u[2] \in FreshRec
      BY <2>2, Zenon DEF FreshRec
    <2>4. u[2].have /\ u[2].last = v /\ u[2].run = f.run /\ u[2].stale = f.stale
      BY <2>2, Zenon DEF FreshRec
    <2>5. QED BY <1>1, <2>2, <2>3, <2>4, Zenon
  <1>2. CASE f.have /\ d = 0 /\ f.run + 1 < StaleAfter
    <2>1. u = <<"UNCHANGED", [f EXCEPT !.run = f.run + 1]>>
      BY <1>2, Zenon DEF Update
    <2>2. QED BY <1>2, <2>1 DEF FreshRec, Takes
  <1>3. CASE f.have /\ d = 0 /\ ~(f.run + 1 < StaleAfter)
    <2>1. u = <<IF f.stale THEN "STALE" ELSE "STALE_START", [f EXCEPT !.run = StaleAfter, !.stale = TRUE]>>
      BY <1>3, Zenon DEF Update
    <2>2. u[1] \in {"STALE", "STALE_START"} /\ u[2] = [f EXCEPT !.run = StaleAfter, !.stale = TRUE]
      BY <2>1
    <2>3. QED BY <1>3, <2>2, FreshAssumption, ZenonT(40) DEF FreshRec, Takes
  <1>4. CASE f.have /\ d # 0 /\ Older(d)
    <2>1. u = <<"REGRESSION", f>>
      BY <1>4, Zenon DEF Update
    <2>2. QED BY <1>4, <2>1
  <1>5. CASE f.have /\ d # 0 /\ ~Older(d)
    <2>1. u = <<IF f.stale THEN "RESUMED" ELSE "OK", [f EXCEPT !.last = v, !.run = 0, !.stale = FALSE]>>
      BY <1>5, Zenon DEF Update
    <2>2. u[1] \in {"OK", "RESUMED"} /\ u[2] = [f EXCEPT !.last = v, !.run = 0, !.stale = FALSE]
      BY <2>1
    <2>3. u[2] \in FreshRec
      <3>1. \A n \in Nat, w \in BOOLEAN : [f EXCEPT !.last = v, !.run = n, !.stale = w] \in FreshRec
        BY ZenonT(40) DEF FreshRec
      <3>2. 0 \in Nat /\ FALSE \in BOOLEAN
        BY Zenon
      <3>3. QED BY <2>2, <3>1, <3>2, Zenon
    <2>4. u[2].have = f.have /\ u[2].last = v /\ u[2].run = 0 /\ u[2].stale = FALSE
      BY <2>2, Zenon DEF FreshRec
    <2>5. QED BY <1>5, <2>2, <2>3, <2>4, Zenon
  <1>6. QED BY <1>1, <1>2, <1>3, <1>4, <1>5, Zenon

\* The invariant holds at the start.
LEMMA FreshInitInv == FreshInit => FreshInv
  BY FreshAssumption DEF FreshInit, FreshInv, FreshRec, VerdictIsTrue

\* A reply, of whatever cycle, keeps it.
LEMMA FeedInv == FreshInv /\ Feed => FreshInv'
  <1> SUFFICES ASSUME FreshInv, Feed PROVE FreshInv'
    BY Zenon
  <1>1. PICK age \in 0 .. MaxLateness :
          /\ age <= count
          /\ \E u \in {Update(fresh, (count - age) % FreshRange)} :
               /\ event' = u[1] /\ fresh' = u[2]
               /\ \E gap \in {IF fresh.have THEN count - age - truth.best ELSE 0} :
                    truth' = [best |-> IF u[1] \in {"FIRST", "OK", "RESUMED"} THEN count - age ELSE truth.best,
                              gap  |-> gap,
                              same |-> IF u[1] \in {"FIRST", "OK", "RESUMED"} THEN 0
                                       ELSE IF gap = 0 /\ truth.same < StaleAfter THEN truth.same + 1 ELSE truth.same,
                              lost |-> truth.lost \/ gap >= Half]
          /\ UNCHANGED count
    BY Zenon DEF Feed
  <1> DEFINE x == count - age
             v == x % FreshRange
             d == (v - fresh.last) % FreshRange
             u == Update(fresh, v)
             g == IF fresh.have THEN x - truth.best ELSE 0
  <1>2. /\ event' = u[1] /\ fresh' = u[2] /\ count' = count
        /\ truth' = [best |-> IF u[1] \in Takes THEN x ELSE truth.best, gap |-> g,
                     same |-> IF u[1] \in Takes THEN 0
                              ELSE IF g = 0 /\ truth.same < StaleAfter THEN truth.same + 1 ELSE truth.same,
                     lost |-> truth.lost \/ g >= Half]
    BY <1>1 DEF Takes
  <1>3. /\ count \in Nat /\ fresh \in FreshRec /\ fresh.have \in BOOLEAN /\ fresh.stale \in BOOLEAN
        /\ truth.best \in Nat /\ truth.same \in Nat /\ truth.lost \in BOOLEAN /\ truth.best <= count
        /\ Half \in Nat \ {0} /\ StaleAfter \in Nat \ {0}
    BY FreshAssumption, Zenon DEF FreshInv, FreshRec
  <1>4. x \in Nat /\ x <= count /\ g \in Int /\ g >= -Half /\ (fresh.have => g = x - truth.best) /\ (~fresh.have => g = 0)
    BY <1>1, <1>3, FreshAssumption
  <1>5. v \in Int
    <2>1. FreshRange \in Nat \ {0} /\ x \in Int
      BY <1>3, <1>4 DEF FreshRange
    <2> HIDE DEF x
    <2>2. QED BY <2>1, DivMod
  <1>6. fresh.have => /\ g \in 1 .. Half - 1 => d # 0 /\ ~Older(d)
                      /\ g \in -Half .. -1 => d # 0 /\ Older(d)
                      /\ g = 0 => d = 0
    <2>1. fresh.have => (g \in 0 .. Half - 1 => d = g) /\ (g \in -Half .. -1 => d = g + FreshRange)
      <3>1. fresh.have => fresh.last = truth.best % FreshRange
        BY Zenon DEF FreshInv
      <3> HIDE DEF x, g
      <3>2. QED BY <1>3, <1>4, <3>1, DifferenceOf
    <2>2. FreshRange = 2 * Half
      BY ZenonT(40) DEF FreshRange
    <2> HIDE DEF d, g
    <2>3. QED BY <1>3, <1>4, <2>1, <2>2 DEF Older
  <1>7. /\ fresh' \in FreshRec /\ fresh'.have
        /\ ~fresh.have => u[1] = "FIRST" /\ u[2].last = v /\ u[2].run = fresh.run /\ u[2].stale = fresh.stale
        /\ fresh.have /\ d = 0 /\ fresh.run + 1 < StaleAfter =>
             u[1] \notin Takes /\ u[2].last = fresh.last /\ u[2].run = fresh.run + 1 /\ u[2].stale = fresh.stale
        /\ fresh.have /\ d = 0 /\ ~(fresh.run + 1 < StaleAfter) =>
             u[1] \notin Takes /\ u[2].last = fresh.last /\ u[2].run = StaleAfter /\ u[2].stale
        /\ fresh.have /\ d # 0 /\ Older(d) => u[1] = "REGRESSION" /\ u[2] = fresh
        /\ fresh.have /\ d # 0 /\ ~Older(d) =>
             u[1] \in {"OK", "RESUMED"} /\ u[2].last = v /\ u[2].run = 0 /\ ~u[2].stale
    <2>1. d = (v - fresh.last) % FreshRange /\ u = Update(fresh, v)
      BY Zenon
    <2> HIDE DEF d, u, v
    <2>2. QED BY <1>2, <1>3, <1>5, <2>1, UpdateIs
  <1> HIDE DEF d, u, v, g, x
  <1>8. /\ truth'.gap = g /\ truth'.best = (IF u[1] \in Takes THEN x ELSE truth.best)
        /\ truth'.same = (IF u[1] \in Takes THEN 0
                          ELSE IF g = 0 /\ truth.same < StaleAfter THEN truth.same + 1 ELSE truth.same)
        /\ truth'.lost <=> (truth.lost \/ g >= Half)
        /\ truth' \in [best : Nat, gap : Int, same : Nat, lost : BOOLEAN]
    <2>1. (truth.lost \/ g >= Half) \in BOOLEAN
      BY Zenon
    <2>2. QED BY <1>2, <1>3, <1>4, <2>1
  <1>9. truth'.best <= count' /\ count' \in Nat
    BY <1>2, <1>3, <1>4, <1>8, Zenon
  <1>10. fresh'.last = truth'.best % FreshRange
    <2>1. u[2].last = IF u[1] \in Takes THEN v ELSE fresh.last
      BY <1>7, Zenon DEF Takes
    <2>2. u[1] \notin Takes => fresh.last = truth.best % FreshRange
      BY <1>7, Zenon DEF Takes, FreshInv
    <2>3. QED BY <1>2, <1>8, <2>1, <2>2, Zenon DEF v
  <1>11. /\ g \in 1 .. Half - 1 => event' \in {"OK", "RESUMED"}
         /\ g \in -Half .. -1 => event' = "REGRESSION"
    <2>1. CASE ~fresh.have
      <3>1. g = 0
        BY <1>4, <2>1, Zenon
      <3>2. QED BY <1>3, <3>1
    <2>2. CASE fresh.have
      BY <1>2, <1>6, <1>7, <2>2, ZenonT(40)
    <2>3. QED BY <2>1, <2>2, Zenon
  <1>12. ~truth'.lost => /\ fresh'.run = truth'.same /\ truth'.same <= StaleAfter
                         /\ fresh'.stale <=> truth'.same = StaleAfter
    <2> SUFFICES ASSUME ~truth'.lost
                 PROVE  /\ u[2].run = truth'.same /\ truth'.same <= StaleAfter
                        /\ u[2].stale <=> truth'.same = StaleAfter
      BY <1>2, Zenon
    <2>1. ~truth.lost /\ ~(g >= Half)
      BY <1>8, Zenon
    <2>2. fresh.run = truth.same /\ truth.same <= StaleAfter /\ (fresh.stale <=> truth.same = StaleAfter)
      BY <2>1, Zenon DEF FreshInv
    <2>3. CASE ~fresh.have
      <3>1. u[1] \in Takes /\ u[2].run = 0 /\ ~u[2].stale
        BY <1>7, <2>3, Zenon DEF Takes, FreshInv
      <3>2. QED BY <1>3, <1>8, <3>1
    <2>4. CASE fresh.have /\ g \in 1 .. Half - 1
      <3>1. u[1] \in Takes /\ u[2].run = 0 /\ ~u[2].stale
        BY <1>6, <1>7, <2>4, Zenon DEF Takes
      <3>2. QED BY <1>3, <1>8, <3>1
    <2>5. CASE fresh.have /\ g \in -Half .. -1
      <3>1. u[1] \notin Takes /\ u[2].run = fresh.run /\ u[2].stale = fresh.stale /\ g # 0
        BY <1>3, <1>6, <1>7, <2>5, Zenon DEF Takes
      <3>2. truth'.same = truth.same
        BY <1>8, <3>1, Zenon
      <3>3. QED BY <2>2, <3>1, <3>2, Zenon
    <2>6. CASE fresh.have /\ g = 0 /\ fresh.run + 1 < StaleAfter
      <3>1. u[1] \notin Takes /\ u[2].run = fresh.run + 1 /\ u[2].stale = fresh.stale
        BY <1>6, <1>7, <2>6, Zenon
      <3>2. truth'.same = truth.same + 1 /\ truth.same # StaleAfter
        BY <1>3, <1>8, <2>2, <2>6, <3>1
      <3>3. QED BY <1>3, <2>2, <2>6, <3>1, <3>2
    <2>7. CASE fresh.have /\ g = 0 /\ ~(fresh.run + 1 < StaleAfter)
      <3>1. u[1] \notin Takes /\ u[2].run = StaleAfter /\ u[2].stale
        BY <1>6, <1>7, <2>7, ZenonT(40)
      <3>2. truth'.same = StaleAfter
        BY <1>3, <1>8, <2>2, <2>7, <3>1
      <3>3. QED BY <1>3, <3>1, <3>2
    <2>8. QED BY <1>3, <1>4, <2>1, <2>3, <2>4, <2>5, <2>6, <2>7
  <1>13. VerdictIsTrue'
    BY <1>3, <1>8, <1>11, <1>12 DEF VerdictIsTrue
  <1>14. QED BY <1>7, <1>8, <1>9, <1>10, <1>12, <1>13, Zenon DEF FreshInv

\* However replies are lost, late and repeated, the verdicts of ecm_fresh_update
\* are true for a counter of any number of bits and any stale_after, as long as no
\* reply is more than half a range late.
THEOREM FreshnessIsTrue == FreshSpec => []VerdictIsTrue
  <1>1. FreshInv /\ [FreshNext]_freshVars => FreshInv'
    <2>1. FreshInv /\ SlaveCycle => FreshInv'
      BY DEF FreshInv, SlaveCycle, VerdictIsTrue
    <2>2. FreshInv /\ UNCHANGED freshVars => FreshInv'
      BY Zenon DEF FreshInv, freshVars, VerdictIsTrue
    <2>3. QED BY <2>1, <2>2, FeedInv, Zenon DEF FreshNext
  <1>2. FreshInv => VerdictIsTrue
    BY Zenon DEF FreshInv
  <1>3. QED BY <1>1, <1>2, FreshInitInv, PTL DEF FreshSpec

-----------------------------------------------------------------------------
(* SDO commands.                                                           *)

\* What cmd_sdo_write has found out about a request when it passes.
Granted(r) ==
  /\ r.obj \in Object /\ r.val \in Int /\ Fits(r.type, r.val)
  /\ \E k \in DOMAIN file : file[k].obj = r.obj /\ file[k].type = r.type /\ r.val \in file[k].min .. file[k].max
  /\ slave.pdo /\ r.obj.idx \notin CommArea \cup Steering
  /\ \A p \in RxPdo \cup InitCmd : p.idx # r.obj.idx

\* A granted request stays granted until the slave has answered, and while an
\* SDO is under way every log entry used so far is older than it.
SdoInv ==
  /\ allow = file /\ file \in Files /\ AllowLoad(file) /\ value \in [Object -> Int]
  /\ cmd = [pc |-> cmd.pc, req |-> cmd.req, seq0 |-> cmd.seq0, polls |-> cmd.polls, abort |-> cmd.abort]
  /\ cmd.pc # "idle" /\ cmd.req.op = "write" => Granted(cmd.req)
  /\ last_abort.seq \in Nat /\ used \in Nat /\ used <= last_abort.seq
  /\ cmd.pc \in {"mailbox", "abort"} => cmd.seq0 \in Nat /\ used <= cmd.seq0 /\ cmd.seq0 <= last_abort.seq

\* The slave has the number the client sent: encoding and decoding cancel out
\* for every number the type holds.
LEMMA EncodeIsExact ==
  ASSUME NEW t, NEW v \in Int, Fits(t, v)
  PROVE  Encode(v) \in Int /\ Decode(t, Encode(v)) = v
  <1> USE SdoAssumption
  <1> DEFINE m == 2 * SignBit
             e == v % m
  <1>1. m \in Nat \ {0}
    OBVIOUS
  <1>2. Encode(v) = e
    BY Zenon DEF Encode
  <1>3. CASE v >= 0
    <2>1. v \in 0 .. m - 1
      BY <1>3 DEF Fits
    <2>2. e = v
      <3>1. v = (m * 0) + v
        OBVIOUS
      <3> HIDE DEF m
      <3>2. QED BY <1>1, <2>1, <3>1, ModIs
    <2> HIDE DEF e
    <2>3. QED BY <1>2, <1>3, <2>1, <2>2 DEF Decode, Fits
  <1>4. CASE v < 0
    <2>1. v >= -SignBit /\ t = "i"
      BY <1>4 DEF Fits
    <2>2. v + m \in 0 .. m - 1 /\ v = (m * (-1)) + (v + m)
      BY <1>4, <2>1
    <2>3. e = v + m
      <3> HIDE DEF m
      <3>1. QED BY <1>1, <2>2, ModIs
    <2> HIDE DEF e
    <2>4. QED BY <1>2, <1>4, <2>1, <2>3 DEF Decode
  <1>5. QED BY <1>3, <1>4

\* allow_find returns the entry of the object.
LEMMA AllowFindIs ==
  ASSUME SdoInv, NEW o, AllowFind(o) # 0
  PROVE  AllowFind(o) \in DOMAIN allow /\ allow[AllowFind(o)].obj = o
  <1> USE SdoAssumption
  <1> DEFINE found == {i \in DOMAIN allow : allow[i].obj = o}
  <1>1. found # {} /\ AllowFind(o) = CHOOSE k \in found : \A j \in found : k <= j
    BY Zenon DEF AllowFind
  <1>2. PICK i \in found : TRUE
    BY <1>1, Zenon
  <1>3. ASSUME NEW j \in found PROVE i <= j
    <2>1. i \in Nat \ {0} /\ j \in Nat \ {0} /\ i \in DOMAIN file /\ j \in DOMAIN file
      BY Zenon DEF SdoInv
    <2>2. file[i].obj = o /\ file[j].obj = o
      BY Zenon DEF SdoInv
    <2>3. \A h \in 1 .. i - 1 : file[h].obj # file[i].obj
      BY <2>1, Zenon DEF SdoInv, AllowLoad, EntryOk
    <2>4. ~(j < i)
      BY <2>1, <2>2, <2>3
    <2>5. QED BY <2>1, <2>4
  <1>4. AllowFind(o) \in found
    BY <1>1, <1>3, Zenon
  <1>5. QED BY <1>4, Zenon

\* A write the allow-list lets pass is one the configuration grants.
LEMMA PassIsGranted ==
  ASSUME SdoInv, NEW o \in Object, NEW t, NEW v \in Value, WriteVerdict(o, t, v) = "pass",
         NEW r, r = [op |-> "write", obj |-> o, type |-> t, val |-> v]
  PROVE  Granted(r)
  <1> USE SdoAssumption
  <1> DEFINE k == AllowFind(o)
  <1>1. /\ ~comm_area(o) /\ ~Deny(o) /\ slave.pdo /\ ~MappedOut(o) /\ ~ByEni(o)
        /\ k # 0 /\ allow[k].type = t
        /\ Fits(t, v) /\ ~(v < allow[k].min) /\ ~(v > allow[k].max)
    BY Zenon DEF WriteVerdict
  <1> HIDE DEF k
  <1>2. k \in DOMAIN file /\ file[k].obj = o /\ allow = file
    BY <1>1, AllowFindIs, ZenonT(40) DEF k, SdoInv
  <1>3. v \in file[k].min .. file[k].max /\ file[k].type = t
    BY <1>1, <1>2 DEF SdoInv
  <1>4. r.obj = o /\ r.type = t /\ r.val = v
    BY Zenon
  <1>5. o.idx \notin CommArea \cup Steering /\ \A p \in RxPdo \cup InitCmd : p.idx # o.idx
    BY <1>1, Zenon DEF comm_area, Deny, MappedOut, ByEni
  <1>6. QED BY <1>1, <1>2, <1>3, <1>4, <1>5, Zenon DEF Granted

\* The api thread alone has a command, the rest leaves what was found out alone.
LEMMA OthersKeepSdo ==
  ASSUME SdoInv, UNCHANGED <<file, allow, slave, value, cmd, used>>,
         last_abort'.seq \in Nat, last_abort'.seq >= last_abort.seq
  PROVE  SdoInv'
  <1>1. /\ last_abort'.seq \in Nat /\ used \in Nat /\ used <= last_abort'.seq
        /\ cmd.pc \in {"mailbox", "abort"} => cmd.seq0 \in Nat /\ used <= cmd.seq0 /\ cmd.seq0 <= last_abort'.seq
    BY DEF SdoInv
  <1>2. Granted(cmd.req)' <=> Granted(cmd.req)
    BY Zenon DEF Granted
  <1>3. AllowLoad(file)'
    BY Zenon DEF SdoInv, AllowLoad, EntryOk
  <1>4. QED BY <1>1, <1>2, <1>3, Zenon DEF SdoInv

\* A step of the api thread: the new command needs the invariant.
LEMMA CommandKeepsSdo ==
  ASSUME SdoInv, UNCHANGED <<file, allow, slave, last_abort>>, value' \in [Object -> Int], used' \in Nat,
         used' <= last_abort.seq,
         cmd' = [pc |-> cmd'.pc, req |-> cmd'.req, seq0 |-> cmd'.seq0, polls |-> cmd'.polls, abort |-> cmd'.abort],
         cmd'.pc # "idle" /\ cmd'.req.op = "write" => Granted(cmd'.req),
         cmd'.pc \in {"mailbox", "abort"} => cmd'.seq0 \in Nat /\ used' <= cmd'.seq0 /\ cmd'.seq0 <= last_abort.seq
  PROVE  SdoInv'
  <1>1. Granted(cmd.req)' <=> Granted(cmd'.req)
    BY Zenon DEF Granted
  <1>2. AllowLoad(file)'
    BY ZenonT(40) DEF SdoInv, AllowLoad, EntryOk
  <1>3. QED BY <1>1, <1>2, Zenon DEF SdoInv

\* A step that changes no object and puts no abort code into a reply.
LEMMA QuietSdo ==
  ASSUME UNCHANGED value, cmd'.abort = 0 \/ cmd'.abort = cmd.abort
  PROVE  WritesAllowed /\ AnswersOnce
  BY Zenon DEF WritesAllowed, AnswersOnce

\* Every step keeps the invariant; only SdoReturn changes an object and only
\* AbortPoll puts a code into a reply.
LEMMA SdoStep ==
  ASSUME SdoInv, [SdoNext]_sdoVars
  PROVE  SdoInv' /\ WritesAllowed /\ AnswersOnce
  <1> USE SdoAssumption
  <1>0. /\ cmd = [pc |-> cmd.pc, req |-> cmd.req, seq0 |-> cmd.seq0, polls |-> cmd.polls, abort |-> cmd.abort]
        /\ value \in [Object -> Int] /\ used \in Nat /\ used <= last_abort.seq /\ last_abort.seq \in Nat
    BY Zenon DEF SdoInv
  <1>1. ASSUME NEW why, NEW a, Reply(why, a)
        PROVE  /\ cmd' = [pc |-> cmd'.pc, req |-> cmd'.req, seq0 |-> cmd'.seq0, polls |-> cmd'.polls, abort |-> cmd'.abort]
               /\ cmd'.pc = "idle" /\ cmd'.abort = a
    BY <1>0, <1>1, Zenon DEF Reply
  <1>2. CASE Command
    <2>1. UNCHANGED <<file, allow, slave, value, last_abort, used>>
      BY <1>2, Zenon DEF Command
    <2>2. /\ cmd' = [pc |-> cmd'.pc, req |-> cmd'.req, seq0 |-> cmd'.seq0, polls |-> cmd'.polls, abort |-> cmd'.abort]
          /\ cmd'.pc \in {"idle", "sdo"} /\ cmd'.abort = 0
          /\ cmd'.pc # "idle" /\ cmd'.req.op = "write" => Granted(cmd'.req)
      <3>1. PICK o \in Object :
              \/ \E t \in {"i", "u", "raw"}, v \in Value :
                   IF WriteVerdict(o, t, v) = "pass"
                   THEN cmd' = [cmd EXCEPT !.pc = "sdo", !.req = [op |-> "write", obj |-> o, type |-> t, val |-> v], !.abort = 0]
                   ELSE Reply(WriteVerdict(o, t, v), 0)
              \/ IF Ready
                 THEN cmd' = [cmd EXCEPT !.pc = "sdo", !.req = [op |-> "read", obj |-> o], !.abort = 0]
                 ELSE Reply("not_ready", 0)
        BY <1>2, Zenon DEF Command
      <3>2. ASSUME NEW why, Reply(why, 0)
            PROVE  <2>2!:
        BY <1>1, <3>2, Zenon
      <3>3. ASSUME NEW t \in {"i", "u", "raw"}, NEW v \in Value, WriteVerdict(o, t, v) = "pass",
                   cmd' = [cmd EXCEPT !.pc = "sdo", !.req = [op |-> "write", obj |-> o, type |-> t, val |-> v], !.abort = 0]
            PROVE  <2>2!:
        <4> DEFINE r == [op |-> "write", obj |-> o, type |-> t, val |-> v]
        <4>1. Granted(r)
          BY <3>3, PassIsGranted, Zenon
        <4> HIDE DEF r
        <4>2. cmd' = [cmd EXCEPT !.pc = "sdo", !.req = r, !.abort = 0]
          BY <3>3, Zenon DEF r
        <4>3. QED BY <1>0, <4>1, <4>2, Zenon
      <3>4. CASE cmd' = [cmd EXCEPT !.pc = "sdo", !.req = [op |-> "read", obj |-> o], !.abort = 0]
        BY <1>0, <3>4, Zenon
      <3>5. QED BY <3>1, <3>2, <3>3, <3>4, Zenon
    <2>3. QED BY <1>0, <2>1, <2>2, CommandKeepsSdo, QuietSdo, Zenon
  <1>3. CASE SdoLock
    <2>1. UNCHANGED <<file, allow, slave, value, last_abort, used>> /\ cmd.pc = "sdo"
      BY <1>3, ZenonT(40) DEF SdoLock
    <2>2. CASE cmd' = [cmd EXCEPT !.pc = "mailbox", !.seq0 = last_abort.seq]
      <3>1. /\ cmd' = [pc |-> cmd'.pc, req |-> cmd'.req, seq0 |-> cmd'.seq0, polls |-> cmd'.polls, abort |-> cmd'.abort]
            /\ cmd'.abort = cmd.abort /\ cmd'.req = cmd.req /\ cmd'.seq0 = last_abort.seq
        BY <1>0, <2>2, Zenon
      <3>2. cmd.req.op = "write" => Granted(cmd.req)
        BY <2>1, Zenon DEF SdoInv
      <3>3. QED BY <1>0, <2>1, <3>1, <3>2, CommandKeepsSdo, QuietSdo
    <2>3. ASSUME NEW why, Reply(why, 0) PROVE SdoInv' /\ WritesAllowed /\ AnswersOnce
      BY <1>0, <1>1, <2>1, <2>3, CommandKeepsSdo, QuietSdo, Zenon
    <2>4. QED BY <1>3, <2>2, <2>3, Zenon DEF SdoLock
  <1>4. CASE SdoReturn
    <2> DEFINE o == cmd.req.obj
               done == IF cmd.req.op = "write" THEN [value EXCEPT ![o] = Encode(cmd.req.val)] ELSE value
    <2>1. UNCHANGED <<file, allow, slave, last_abort, used>> /\ cmd.pc = "mailbox" /\ value' \in {value, done}
      BY <1>4 DEF SdoReturn
    <2>2. \/ cmd' = [cmd EXCEPT !.pc = "sdo", !.req.op = "readback"]
          \/ cmd' = [cmd EXCEPT !.pc = "abort"]
          \/ \E why : Reply(why, 0)
      BY <1>4, Zenon DEF SdoReturn
    <2>3. cmd.req.op = "write" => Granted(cmd.req)
      BY <2>1, Zenon DEF SdoInv
    <2>4. value' \in [Object -> Int]
      <3>1. CASE cmd.req.op = "write"
        <4>1. Encode(cmd.req.val) \in Int
          BY <2>3, <3>1, EncodeIsExact, Zenon DEF Granted
        <4>2. QED BY <1>0, <2>1, <4>1, Zenon
      <3>2. CASE cmd.req.op # "write"
        BY <1>0, <2>1, <3>2, ZenonT(40)
      <3>3. QED BY <3>1, <3>2, Zenon
    <2>5. WritesAllowed
      <3>1. SUFFICES ASSUME NEW p \in Object, value'[p] # value[p]
                     PROVE  /\ \E k \in DOMAIN file : /\ file[k].obj = p
                                                      /\ Decode(file[k].type, value'[p]) \in file[k].min .. file[k].max
                            /\ slave.pdo /\ p.idx \notin CommArea \cup Steering
                            /\ \A x \in RxPdo \cup InitCmd : x.idx # p.idx
        BY Zenon DEF WritesAllowed
      <3>2. cmd.req.op = "write" /\ p = o /\ value'[p] = Encode(cmd.req.val)
        BY <1>0, <2>1, <3>1, Zenon
      <3>3. Granted(cmd.req)
        BY <2>3, <3>2, ZenonT(40)
      <3>4. Decode(cmd.req.type, value'[p]) = cmd.req.val
        BY <3>2, <3>3, EncodeIsExact DEF Granted
      <3>5. QED BY <3>2, <3>3, <3>4 DEF Granted
    <2>6. CASE cmd' = [cmd EXCEPT !.pc = "sdo", !.req.op = "readback"]
      <3>1. /\ cmd' = [pc |-> cmd'.pc, req |-> cmd'.req, seq0 |-> cmd'.seq0, polls |-> cmd'.polls, abort |-> cmd'.abort]
            /\ cmd'.abort = cmd.abort /\ cmd'.pc = "sdo" /\ cmd'.req = [cmd.req EXCEPT !.op = "readback"]
        BY <1>0, <2>6, Zenon
      <3>2. cmd'.req.op # "write"
        BY <3>1
      <3>3. QED BY <1>0, <2>1, <2>4, <2>5, <3>1, <3>2, CommandKeepsSdo, Zenon DEF AnswersOnce
    <2>7. CASE cmd' = [cmd EXCEPT !.pc = "abort"]
      <3>1. /\ cmd' = [pc |-> cmd'.pc, req |-> cmd'.req, seq0 |-> cmd'.seq0, polls |-> cmd'.polls, abort |-> cmd'.abort]
            /\ cmd'.abort = cmd.abort /\ cmd'.req = cmd.req /\ cmd'.seq0 = cmd.seq0
        BY <1>0, <2>7, Zenon
      <3>2. cmd.seq0 \in Nat /\ used <= cmd.seq0 /\ cmd.seq0 <= last_abort.seq
        BY <2>1, Zenon DEF SdoInv
      <3>3. QED BY <1>0, <2>1, <2>3, <2>4, <2>5, <3>1, <3>2, CommandKeepsSdo, Zenon DEF AnswersOnce
    <2>8. ASSUME NEW why, Reply(why, 0) PROVE SdoInv' /\ WritesAllowed /\ AnswersOnce
      BY <1>0, <1>1, <2>1, <2>4, <2>5, <2>8, CommandKeepsSdo, Zenon DEF AnswersOnce
    <2>9. QED BY <2>2, <2>6, <2>7, <2>8, Zenon
  <1>5. CASE AbortPoll
    <2> DEFINE code == IF Hit /\ cmd.req.op # "readback" THEN last_abort.seq ELSE 0
    <2>1. UNCHANGED <<file, allow, slave, value, last_abort>> /\ cmd.pc = "abort"
      BY <1>5, Zenon DEF AbortPoll
    <2>2. cmd.seq0 \in Nat /\ used <= cmd.seq0 /\ cmd.seq0 <= last_abort.seq
      BY <2>1, Zenon DEF SdoInv
    <2>3. CASE Reply(Failed("sdo_failed"), code) /\ used' = IF code = 0 THEN used ELSE code
      <3>1. code = 0 \/ (code = last_abort.seq /\ Hit)
        BY Zenon
      <3>2. /\ cmd' = [pc |-> cmd'.pc, req |-> cmd'.req, seq0 |-> cmd'.seq0, polls |-> cmd'.polls, abort |-> cmd'.abort]
            /\ cmd'.pc = "idle" /\ cmd'.abort = code
        BY <1>1, <2>3, Zenon
      <3>3. used' = used \/ used' = last_abort.seq
        BY <2>3, <3>1, ZenonT(40)
      <3> HIDE DEF code
      <3>4. SdoInv'
        BY <1>0, <2>1, <3>2, <3>3, CommandKeepsSdo, SMTT(30)
      <3>5. AnswersOnce
        BY <1>0, <2>2, <3>1, <3>2, SMTT(30) DEF AnswersOnce, Hit
      <3>6. QED BY <2>1, <3>4, <3>5, Zenon DEF WritesAllowed
    <2>4. CASE cmd' = [cmd EXCEPT !.polls = @ + 1] /\ UNCHANGED used
      <3>1. /\ cmd' = [pc |-> cmd'.pc, req |-> cmd'.req, seq0 |-> cmd'.seq0, polls |-> cmd'.polls, abort |-> cmd'.abort]
            /\ cmd'.abort = cmd.abort /\ cmd'.req = cmd.req /\ cmd'.seq0 = cmd.seq0
        BY <1>0, <2>4, Zenon
      <3>2. cmd.req.op = "write" => Granted(cmd.req)
        BY <2>1, Zenon DEF SdoInv
      <3>3. QED BY <1>0, <2>1, <2>2, <2>4, <3>1, <3>2, CommandKeepsSdo, QuietSdo, Zenon
    <2>5. QED BY <1>5, <2>3, <2>4, Zenon DEF AbortPoll
  <1>6. CASE UNCHANGED <<file, allow, slave, value, cmd, used, last_abort>>
    BY <1>0, <1>6, OthersKeepSdo, QuietSdo
  <1>7. CASE PrintEvents
    <2>1. UNCHANGED <<file, allow, slave, value, cmd, used>> /\ last_abort'.seq = last_abort.seq + 1
      BY <1>7, Zenon DEF PrintEvents
    <2>2. last_abort'.seq \in Nat /\ last_abort'.seq >= last_abort.seq
      BY <1>0, <2>1
    <2>3. QED BY <2>1, <2>2, OthersKeepSdo, QuietSdo, Zenon
  <1>8. ElistDrain \/ FenceBegin \/ FenceEnd \/ BusChanges \/ UNCHANGED sdoVars
          => UNCHANGED <<file, allow, slave, value, cmd, used, last_abort>>
    BY ZenonT(40) DEF ElistDrain, FenceBegin, FenceEnd, BusChanges, sdoVars
  <1>9. QED BY <1>2, <1>3, <1>4, <1>5, <1>6, <1>7, <1>8, Zenon DEF SdoNext

\* ecm_ctl_init: the allowlist is the file, no command is under way.
LEMMA SdoInitInv == SdoInit => SdoInv
  <1> SUFFICES ASSUME SdoInit PROVE SdoInv
    OBVIOUS
  <1>1. /\ allow = file /\ file \in Files /\ AllowLoad(file) /\ value = [o \in Object |-> 0] /\ used = 0
        /\ cmd = [pc |-> "idle", req |-> NoReq, seq0 |-> 0, polls |-> 0, abort |-> 0]
        /\ last_abort = [seq |-> 0, obj |-> NoReq]
    BY Zenon DEF SdoInit
  <1>2. value \in [Object -> Int]
    BY <1>1
  <1>3. /\ cmd.pc = "idle" /\ last_abort.seq = 0
        /\ cmd = [pc |-> cmd.pc, req |-> cmd.req, seq0 |-> cmd.seq0, polls |-> cmd.polls, abort |-> cmd.abort]
    BY <1>1
  <1>4. last_abort.seq \in Nat /\ used \in Nat /\ used <= last_abort.seq
    BY <1>1, <1>3
  <1>5. QED BY <1>1, <1>2, <1>3, <1>4, Zenon DEF SdoInv

\* A client changes an object of a slave only within the allowlist file and away
\* from what the master itself writes, for every file, type width and interleaving
\* with recoveries, the RT thread and the monitor.
THEOREM WritesStayAllowed == SdoSpec => WriteIsAllowed
  <1>1. SdoInv /\ [SdoNext]_sdoVars => SdoInv' /\ [WritesAllowed]_sdoVars
    BY SdoStep, Zenon
  <1>2. QED BY <1>1, SdoInitInv, PTL DEF SdoSpec, WriteIsAllowed

\* No abort code answers two requests, nor one that began after it was logged.
THEOREM AbortsAnswerOnce == SdoSpec => AbortAnswersOnce
  <1>1. SdoInv /\ [SdoNext]_sdoVars => SdoInv' /\ [AnswersOnce]_sdoVars
    BY SdoStep, Zenon
  <1>2. QED BY <1>1, SdoInitInv, PTL DEF SdoSpec, AbortAnswersOnce
=============================================================================
