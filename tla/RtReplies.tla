----------------------------- MODULE RtReplies -----------------------------
(***************************************************************************)
(* Which reply the RT loop of ecm_run takes for the frame it sent.         *)
(*                                                                         *)
(* SOEM tells replies apart by one of a few frame indexes, so a late reply *)
(* can be taken for the reply to a later frame with the same index.  Three *)
(* things stand against it: an index that got no reply is parked           *)
(* (quar_add, quar_expire), the headers are compared                       *)
(* (reply_header_matches), and the DC time of a motion reply must have     *)
(* moved as the host clock did (the gate of ecm_dc_update).                *)
(*                                                                         *)
(* One step is one tick of the loop with the bus in RUN: a motion frame,   *)
(* an IO frame when one is due, the diagnostic frame sent or collected.    *)
(* The network loses replies and delivers late ones in any order.  Time is *)
(* in ticks, a DC time is the tick its frame was sent, modulo DcMod.       *)
(***************************************************************************)
EXTENDS Integers, FiniteSets

CONSTANTS
  NumIdx,        \* EC_MAXBUF
  QuarTicks,     \* QUAR_TICKS
  QuarMax,       \* QUAR_MAX
  IoEvery,       \* ticks_per_io
  DiagAge,       \* DIAG_MAX_AGE_TICKS
  DcMod,         \* 2^32 ns, in ticks
  GateReuse,     \* gate_reuse_ns, in ticks
  ResyncRun,     \* ECM_DC_GATE_RESYNC
  ResyncReuse,   \* ECM_DC_GATE_RESYNC_REUSE
  MaxDelay,      \* bound: a late reply comes within that many ticks
  MaxLate,       \* bound: replies of a behaviour that are late or lost
  MaxTick        \* bound: ticks of a behaviour

Idx == 0 .. NumIdx - 1

\* A parked index outlives the replies that may still come, and the pool is
\* larger than the quarantine and the pending diagnostic frame together.
ASSUME RtAssumption ==
  /\ NumIdx \in Nat /\ QuarTicks \in Nat /\ MaxDelay \in 1 .. QuarTicks - 1
  /\ QuarMax \in 1 .. NumIdx - 2 /\ DiagAge \in Nat \ {0}

VARIABLES
  now,      \* tick
  buf,      \* SOEM's port: stat and the last frame of each index, lastidx
  net,      \* late replies on their way
  mishaps,  \* late or lost replies so far
  quar,     \* g_quar_until of the parked indexes, a function on a subset of Idx
  spilled,  \* history: an index was released early (g_quar_overflow > 0)
  dc,       \* ecm_dc_t: prev, at (prev_host_ns), run (reject_run), rejected
  diag,     \* ecm_diag_io_t: the pending index or -1, age
  taken     \* what this tick took for valid: per kind a frame, or NoFrame

rtVars == <<now, buf, net, mishaps, quar, spilled, dc, diag, taken>>

NoFrame == [kind |-> "none", at |-> -1]
Frame0(kind, t) == [kind |-> kind, at |-> t]

RtInit ==
  /\ now = 0
  /\ buf = [stat |-> [i \in Idx |-> "empty"], tx |-> [i \in Idx |-> NoFrame], rx |-> [i \in Idx |-> NoFrame], last |-> NumIdx - 1]
  /\ net = {} /\ mishaps = 0 /\ quar = <<>> /\ spilled = FALSE
  /\ dc = [prev |-> DcMod - 1, at |-> -1, run |-> 0, rejected |-> FALSE]
  /\ diag = [idx |-> -1, age |-> 0]
  /\ taken = [k \in {"motion", "io", "diag"} |-> NoFrame]

-----------------------------------------------------------------------------
(* SOEM: indexes and receiving.                                            *)

\* ecx_getindex: the first empty index behind the last one; when none is empty,
\* the one behind the last anyway.
GetIndex(b) ==
  LET order(k) == (b.last + k) % NumIdx
      free == {k \in 1 .. NumIdx : b.stat[order(k)] = "empty"}
  IN IF free = {} THEN order(1) ELSE order(CHOOSE k \in free : \A j \in free : k <= j)

SendFrame(b, i, kind) ==
  [b EXCEPT !.stat[i] = "tx", !.tx[i] = Frame0(kind, now), !.last = i]

\* A reply with index i: kept when a frame with that index is out, else dropped.
Deliver(b, i, f) == IF b.stat[i] = "tx" THEN [b EXCEPT !.stat[i] = "rcvd", !.rx[i] = f] ELSE b

-----------------------------------------------------------------------------
(* quar_add, quar_expire.  x = [buf, quar, spilled].                       *)

Without(q, i) == [j \in DOMAIN q \ {i} |-> q[j]]

\* A slip: an index is released one tick early.
Hasty_QuarExpire(x) ==
  LET due == {i \in DOMAIN x.quar : now + 1 >= x.quar[i]}
  IN [x EXCEPT !.buf.stat = [i \in Idx |-> IF i \in due /\ @[i] = "complete" THEN "empty" ELSE @[i]],
               !.quar = [i \in DOMAIN @ \ due |-> @[i]]]

QuarExpire(x) ==
  LET due == {i \in DOMAIN x.quar : now >= x.quar[i]}
  IN [x EXCEPT !.buf.stat = [i \in Idx |-> IF i \in due /\ @[i] = "complete" THEN "empty" ELSE @[i]],
               !.quar = [i \in DOMAIN @ \ due |-> @[i]]]

Oldest(q) ==
  CHOOSE j \in DOMAIN q : \A k \in DOMAIN q : q[j] < q[k] \/ (q[j] = q[k] /\ j <= k)

\* An index released before its time, to make room.
Release(x, j) ==
  [x EXCEPT !.buf.stat[j] = IF @ = "complete" THEN "empty" ELSE @, !.quar = Without(@, j), !.spilled = TRUE]

Park(x, i) ==
  [x EXCEPT !.buf.stat[i] = "complete",
            !.quar = [j \in DOMAIN @ \cup {i} |-> IF j = i THEN now + QuarTicks ELSE @[j]]]

QuarAdd(x, i) ==
  IF x.buf.stat[i] # "empty" \/ i \in DOMAIN x.quar THEN x
  ELSE IF Cardinality(DOMAIN x.quar) < QuarMax THEN Park(x, i)
  ELSE Park(Release(x, Oldest(x.quar)), i)

-----------------------------------------------------------------------------
(* The gate of ecm_dc_update, with the unwrapping it shares with unwrap(). *)

\* floor_div; k is the number of wraps the host clock tells.
FloorDiv(a, b) == IF a >= 0 THEN a \div b ELSE -((b - 1 - a) \div b)

\* How far the DC time moved away from the host clock.
Miss(d, lo) ==
  LET pred == now - d.at
      dlo  == (lo - d.prev) % DcMod
  IN dlo + FloorDiv(pred - dlo + DcMod \div 2, DcMod) * DcMod - pred

\* A slip: old replies get no longer run than the others.
OneLimit_DcUpdate(d, lo) ==
  LET miss == Miss(d, lo)
  IN IF lo = d.prev THEN d
     ELSE IF (miss > 1 \/ miss < -1) /\ d.run + 1 < ResyncRun
     THEN [d EXCEPT !.run = @ + 1, !.rejected = TRUE]
     ELSE [prev |-> lo, at |-> now, run |-> 0, rejected |-> FALSE]

\* The gate is one cycle wide.  A sample that did not move returns early and
\* leaves the last verdict standing.
DcUpdate(d, lo) ==
  LET miss  == Miss(d, lo)
      reuse == miss < -2 /\ -miss <= GateReuse
      limit == IF reuse THEN ResyncReuse ELSE ResyncRun
  IN IF lo = d.prev THEN d
     ELSE IF (miss > 1 \/ miss < -1) /\ d.run + 1 < limit
     THEN [d EXCEPT !.run = @ + 1, !.rejected = TRUE]
     ELSE [prev |-> lo, at |-> now, run |-> 0, rejected |-> FALSE]

-----------------------------------------------------------------------------
(* One tick.                                                               *)

\* service_group for one frame with index i: r is what the receive found, by
\* header the reply to another frame or not.
HeaderMatches(b, i, r) == r.kind = b.tx[i].kind

\* The reply of the frame sent now, and the late ones with its index that come
\* in during this tick: the receive takes whichever is first.
Candidates(i, kind, fate, arr) ==
  LET own == IF fate = "intime" THEN {Frame0(kind, now)} ELSE {}
      old == {r.f : r \in {s \in arr : s.idx = i}}
  IN IF own \cup old = {} THEN {NoFrame} ELSE own \cup old

\* Send and receive of one group: the index is empty again, and parked when
\* there was no reply or that of another frame.
Service(x, i, kind, r) ==
  LET sent == SendFrame(x.buf, i, kind)
      ok   == r # NoFrame /\ HeaderMatches(sent, i, r)
      y    == [x EXCEPT !.buf = [sent EXCEPT !.stat[i] = "empty"]]
  IN IF ok THEN y ELSE QuarAdd(y, i)

\* ecm_diag_soem_collect, or ecm_diag_soem_send when no frame is pending.
Collect(x) ==
  LET i == diag.idx
      mine == x.buf.stat[i] = "rcvd" /\ x.buf.rx[i].kind = "diag"
      back == IF x.buf.stat[i] = "rcvd" /\ ~mine THEN [x EXCEPT !.buf.stat[i] = "tx"] ELSE x
      done == [x EXCEPT !.buf.stat[i] = "empty"]
  IN IF mine THEN [x |-> done, d |-> [idx |-> -1, age |-> 0], f |-> x.buf.rx[i]]
     ELSE IF diag.age + 1 < DiagAge THEN [x |-> back, d |-> [diag EXCEPT !.age = @ + 1], f |-> NoFrame]
     ELSE [x |-> QuarAdd(done, i), d |-> [idx |-> -1, age |-> 0], f |-> NoFrame]

Send(x) ==
  LET i == GetIndex(x.buf)
  IN [x |-> [x EXCEPT !.buf = SendFrame(@, i, "diag")], d |-> [idx |-> i, age |-> 0], f |-> NoFrame]

IoDue == now % IoEvery = 0

\* Late replies with the index of the pending diagnostic frame come in: the
\* first of them is kept.
Arrived(x, arr) ==
  LET late == {s \in arr : s.idx = diag.idx}
  IN IF diag.idx < 0 \/ late = {} THEN {x}
     ELSE {[x EXCEPT !.buf = Deliver(@, diag.idx, s.f)] : s \in late}

\* No diagnostic frame is sent in a tick with an IO frame.
Diagnose(x, send) ==
  IF diag.idx >= 0 THEN Collect(x)
  ELSE IF send /\ ~IoDue THEN Send(x)
  ELSE [x |-> x, d |-> diag, f |-> NoFrame]

Fates == {"intime", "late", "lost"}
Late(i, kind) == [idx |-> i, f |-> Frame0(kind, now)]

\* What the tick leaves behind: r and q are what the motion frame with index i
\* and the IO frame with index j got, g is the diagnostic side.
Effects(i, r, j, q, g, fm, fi, fd, arr) ==
  LET fm_ok == r.kind = "motion"
      new == (IF fm = "late" THEN {Late(i, "motion")} ELSE {})
             \cup (IF IoDue /\ fi = "late" THEN {Late(j, "io")} ELSE {})
             \cup (IF g.d.idx >= 0 /\ diag.idx < 0 /\ fd # "lost" THEN {Late(g.d.idx, "diag")} ELSE {})
  IN /\ buf' = g.x.buf /\ quar' = g.x.quar /\ spilled' = g.x.spilled
     /\ dc' = IF fm_ok THEN DcUpdate(dc, r.at % DcMod) ELSE dc
     /\ diag' = g.d
     /\ net' = {s \in net \ arr : now + 1 - s.f.at <= MaxDelay} \cup new
     /\ taken' = [motion |-> IF fm_ok /\ ~dc'.rejected THEN r ELSE NoFrame,
                  io     |-> IF q.kind = "io" THEN q ELSE NoFrame,
                  diag   |-> g.f]

\* The tick: send says whether a diagnostic frame is due; fm, fi, fd are the fates
\* of the replies, arr the late ones that come in.
Tick(send, fm, fi, fd, arr) ==
  \E x0 \in {QuarExpire([buf |-> buf, quar |-> quar, spilled |-> spilled])} :
  \E i  \in {GetIndex(x0.buf)} :
  \E r  \in Candidates(i, "motion", fm, arr) :
  \E x1 \in {Service(x0, i, "motion", r)} :
  \E j  \in {GetIndex(x1.buf)} :
  \E q  \in IF IoDue THEN Candidates(j, "io", fi, arr) ELSE {NoFrame} :
  \E x2 \in {IF IoDue THEN Service(x1, j, "io", q) ELSE x1} :
  \E x3 \in Arrived(x2, arr) :
  \E g  \in {Diagnose(x3, send)} : Effects(i, r, j, q, g, fm, fi, fd, arr)

\* The RT loop in RUN; a late or lost reply counts against the bound, and a
\* behaviour ends when nothing is late any more.
RtNext ==
  \E send \in BOOLEAN, fm, fi, fd \in Fates, arr \in SUBSET net :
    LET n == Cardinality({k \in 1 .. 3 : <<fm, fi, fd>>[k] # "intime"})
    IN /\ ~IoDue => fi = "intime"
       /\ IoDue \/ diag.idx >= 0 => ~send
       /\ ~send => fd = "intime"
       /\ now < MaxTick /\ mishaps + n <= MaxLate /\ (mishaps < MaxLate \/ net # {})
       /\ now' = now + 1 /\ mishaps' = mishaps + n
       /\ Tick(send, fm, fi, fd, arr)

RtSpec == RtInit /\ [][RtNext]_rtVars

-----------------------------------------------------------------------------
(* Properties.                                                             *)

\* quar_add, quar_expire: as long as no index had to be released early, a reply
\* that is taken for a motion, IO or diagnostic frame is the reply to that frame,
\* however replies were lost, delayed and overtaken.
OwnReply ==
  ~spilled => /\ taken["motion"] # NoFrame => taken["motion"].at = now - 1
              /\ taken["io"] # NoFrame => taken["io"].at = now - 1
              /\ taken["diag"] # NoFrame => taken["diag"].at >= now - 1 - DiagAge

\* The host clock and the DC time of the last sample that was accepted agree.
BaseIsTrue == dc.prev = dc.at % DcMod

\* The samples in a row that must not fit the host clock before the gate gives in to
\* one that is age cycles old: more when it looks like the reply of a reused index.
GivesInAfter(age) == IF age \in 3 .. GateReuse THEN ResyncReuse ELSE ResyncRun

\* The gate of ecm_dc_update: with indexes released early too, inputs of a motion
\* reply are used only in the tick their frame was sent, unless the gate gives in
\* after a run of samples that did not fit the host clock, the longer one for what
\* looks like a reused index, or has given in to old replies before and its base is
\* off since.
MotionIsFresh ==
  [][taken'["motion"] # NoFrame /\ taken'["motion"].at # now =>
       ~BaseIsTrue \/ dc.run + 1 >= GivesInAfter(now - taken'["motion"].at)]_rtVars
=============================================================================
