----------------------------- MODULE Turnaround -----------------------------
(***************************************************************************)
(* The turnaround matcher of the telemetry thread.  The RT thread sends    *)
(* frames and describes each in the tx_order ring; the kernel reports      *)
(* completions on one socket and arrivals on another, and the telemetry    *)
(* thread pairs them with the sends by the EtherCAT index of the frame,    *)
(* which SOEM reuses.  A timestamp is the tick and the frame it belongs    *)
(* to, so that a pair shows whether both are of the same frame.            *)
(***************************************************************************)
EXTENDS Integers, Sequences, SequencesExt, FiniteSets

CONSTANTS
  TurnIdx,     \* frames until SOEM gives out an index again
  MaxAge,      \* TURNAROUND_MAX_AGE_TICKS
  Lookahead,   \* TURNAROUND_LOOKAHEAD
  TableCap,    \* RX_LOOKUP_CAPACITY
  Sanity,      \* TURNAROUND_SANITY_MAX_NS, in ticks
  TurnDelay,   \* ticks a reply may take
  MaxLag,      \* ticks between two polls
  MaxFrame, MaxOdd   \* bounds: frames; replies off time and frames besides the
                    \* process data together

Unknown == TurnIdx    \* TX_ORDER_IDX_UNKNOWN
None == 0             \* UINT64_MAX: an empty slot of the table

VARIABLES
  rt,        \* RT thread: tick, last frame number, frame sent but not in the ring;
             \* ticks since the last poll began
  ring,      \* tx_order ring: [n, tick, grp, idx]
  wire,      \* replies not yet arrived: [n, due]
  errq, rxq, \* completions and arrivals the sockets hold, by frame number
  tele,      \* telemetry: step of a poll, pending_tx, pending_rx, table, next_slot
  odd,       \* bound: replies off time and extra frames so far
  crowded,   \* history: ticks with more than one GROUP_MOTION send
  wrong      \* history: for samples of two frames, whether their tick was crowded

turnVars == <<rt, ring, wire, errq, rxq, tele, odd, crowded, wrong>>

IdxOf(n) == n % TurnIdx

TurnInit ==
  /\ rt = [tick |-> 0, n |-> 0, sent |-> <<>>, lag |-> 0]
  /\ ring = <<>> /\ wire = {} /\ errq = <<>> /\ rxq = <<>>
  /\ tele = [pc |-> "drain", tx |-> <<>>, rx |-> <<>>, slot |-> 0,
             table |-> [i \in 0 .. TableCap - 1 |-> [tick |-> None, ts |-> [n |-> 0, at |-> 0]]]]
  /\ odd = 0
  /\ crowded = {} /\ wrong = {}

-----------------------------------------------------------------------------
(* The RT thread and the network.                                          *)

\* sendto() of frame n at tick t; it is described in the ring afterwards.  The
\* completion is missing when the send failed; the reply is on time, late,
\* duplicated or missing.
SendTo(t, grp, idx, x) ==
  LET n == rt.n + 1
  IN  /\ n <= MaxFrame /\ rt.sent = <<>>
      /\ rt' = [tick |-> t, n |-> n, lag |-> IF t = rt.tick THEN rt.lag ELSE rt.lag + 1,
                sent |-> <<[n |-> n, tick |-> t, grp |-> grp, idx |-> idx]>>]
      /\ \/ errq' = Append(errq, [n |-> n, at |-> t]) /\ rxq' = Append(rxq, [n |-> n, at |-> t])
            /\ UNCHANGED wire /\ odd' = odd + x
         \/ /\ odd + x < MaxOdd /\ odd' = odd + x + 1
            /\ \/ errq' = Append(errq, [n |-> n, at |-> t]) /\ UNCHANGED <<wire, rxq>>          \* lost
               \/ UNCHANGED <<errq, wire, rxq>>                              \* not sent
               \/ /\ errq' = Append(errq, [n |-> n, at |-> t])                                 \* late, or twice
                  /\ \E d \in 1 .. TurnDelay : wire' = wire \cup {[n |-> n, due |-> t + d]}
                  /\ rxq' \in {rxq, Append(rxq, [n |-> n, at |-> t])}

\* The motion group's process data, once per tick.
SendMotion ==
  /\ rt.lag <= MaxLag /\ \A w \in wire : w.due > rt.tick
  /\ SendTo(rt.tick + 1, "motion", IdxOf(rt.n + 1), 0)
  /\ UNCHANGED <<ring, tele, crowded, wrong>>

\* Another frame in the same tick: the IO group; a diagnostic frame or an AL
\* control write, both described as GROUP_MOTION; a mailbox frame of the motion
\* group, whose index is not known.
SendExtra ==
  /\ rt.tick > 0 /\ rt.n = rt.tick /\ odd < MaxOdd     \* one in a behaviour
  /\ \E x \in {<<"io", IdxOf(rt.n + 1)>>, <<"motion", IdxOf(rt.n + 1)>>, <<"motion", Unknown>>} :
       /\ SendTo(rt.tick, x[1], x[2], 1)
       /\ crowded' = IF x[1] = "motion" THEN crowded \cup {rt.tick} ELSE crowded
  /\ UNCHANGED <<ring, tele, wrong>>

\* tx_order_ring_push_idx, after the send.
PushOrder ==
  /\ rt.sent # <<>>
  /\ ring' = ring \o rt.sent /\ rt' = [rt EXCEPT !.sent = <<>>]
  /\ UNCHANGED <<wire, errq, rxq, tele, odd, crowded, wrong>>

Arrive ==
  /\ \E w \in wire : w.due <= rt.tick /\ wire' = wire \ {w} /\ rxq' = Append(rxq, [n |-> w.n, at |-> rt.tick])
  /\ UNCHANGED <<rt, ring, errq, tele, odd, crowded, wrong>>

-----------------------------------------------------------------------------
(* fifo_take: what the event with index idx takes from the pending sends q *)
(* and what stays of them.                                                 *)

Young(q) ==
  LET newest == Last(q).tick
      i == SelectInSeq(q, LAMBDA e : newest - e.tick <= MaxAge)
  IN  SubSeq(q, i, Len(q))

\* A slip: by position, as before Phase 7.4.
Positional_Take(q, idx) == IF q = <<>> THEN <<q>> ELSE <<Tail(q), Head(q)>>

Take(q, idx) ==
  IF q = <<>> THEN <<q>>
  ELSE LET y == Young(q)
           j == SelectInSeq(y, LAMBDA e : e.idx = idx)
       IN  IF j # 0 /\ j <= Lookahead THEN <<SubSeq(y, j + 1, Len(y)), y[j]>>
           ELSE IF y[1].idx = Unknown THEN <<Tail(y), y[1]>>   \* positional
           ELSE <<y>>

-----------------------------------------------------------------------------
(* A poll: the ring is drained into both FIFOs, then completions are read, *)
(* then arrivals.                                                          *)

Drain ==
  /\ tele.pc = "drain" /\ rt.n > 0
  /\ tele' = [tele EXCEPT !.pc = "tx", !.tx = @ \o ring, !.rx = @ \o ring]
  /\ ring' = <<>> /\ rt' = [rt EXCEPT !.lag = 0]
  /\ UNCHANGED <<wire, errq, rxq, odd, crowded, wrong>>

\* turnaround_on_tx_complete_idx: the timestamp waits under the send's tick.
TxComplete ==
  /\ tele.pc = "tx" /\ errq # <<>>
  /\ LET r == Take(tele.tx, IdxOf(Head(errq).n))
         stores == Len(r) = 2 /\ r[2].grp = "motion"
     IN  tele' = IF stores THEN [tele EXCEPT !.tx = r[1], !.slot = (@ + 1) % TableCap,
                                   !.table[tele.slot] = [tick |-> r[2].tick, ts |-> Head(errq)]]
                 ELSE [tele EXCEPT !.tx = r[1]]
  /\ errq' = Tail(errq)
  /\ UNCHANGED <<rt, ring, wire, rxq, odd, crowded, wrong>>

TxRead ==
  /\ tele.pc = "tx" /\ errq = <<>>
  /\ tele' = [tele EXCEPT !.pc = "rx"]
  /\ UNCHANGED <<rt, ring, wire, errq, rxq, odd, crowded, wrong>>

\* turnaround_on_rx_arrival_idx with rx_lookup_take: the arrival is paired with
\* the first timestamp waiting under the tick of the send it takes, and the
\* difference goes to the histogram if it is plausible.
RxArrival ==
  /\ tele.pc = "rx" /\ rxq # <<>>
  /\ LET ev == Head(rxq)
         r  == Take(tele.rx, IdxOf(ev.n))
         at == IF Len(r) = 2 /\ r[2].grp = "motion"
               THEN {i \in DOMAIN tele.table : tele.table[i].tick = r[2].tick} ELSE {}
         i  == CHOOSE i \in at : \A j \in at : i <= j
         tx == tele.table[i].ts
     IN  IF at = {} THEN tele' = [tele EXCEPT !.rx = r[1]] /\ UNCHANGED wrong
         ELSE /\ tele' = [tele EXCEPT !.rx = r[1], !.table[i].tick = None]
              /\ wrong' = IF tx.n = ev.n \/ ev.at - tx.at \notin 0 .. Sanity THEN wrong
                          ELSE wrong \cup {r[2].tick \in crowded}
  /\ rxq' = Tail(rxq)
  /\ UNCHANGED <<rt, ring, wire, errq, odd, crowded>>

RxRead ==
  /\ tele.pc = "rx" /\ rxq = <<>>
  /\ tele' = [tele EXCEPT !.pc = "drain"]
  /\ UNCHANGED <<rt, ring, wire, errq, rxq, odd, crowded, wrong>>

TurnNext == \/ SendMotion \/ SendExtra \/ PushOrder \/ Arrive
            \/ Drain \/ TxComplete \/ TxRead \/ RxArrival \/ RxRead

TurnSpec == TurnInit /\ [][TurnNext]_turnVars

-----------------------------------------------------------------------------
\* Lost, late, duplicated and reordered replies and failed sends do not shift
\* the pairing: in a tick with one GROUP_MOTION send a completion is paired
\* with the arrival of its own frame (turnaround.h, Phase 7.4).
PairsOwnFrame == FALSE \notin wrong
=============================================================================
