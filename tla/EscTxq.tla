------------------------------- MODULE EscTxq -------------------------------
(***************************************************************************)
(* The replies of soft_bus on their way back (esc_fault.c, the transmit    *)
(* queue): esc_fault_frame_end queues the reply of a frame, at once, late, *)
(* twice, or held back to be swapped with the next one; the main loop pops *)
(* what is due, the earliest first.  Time moves by ticks; a round of the   *)
(* loop may find several replies due, and frames may come before it pops.  *)
(***************************************************************************)
EXTENDS Naturals, Sequences, FiniteSets

CONSTANTS
  TxqLen,        \* FAULT_TXQ_LEN
  LateTicks,     \* late_us
  HoldTicks,     \* FAULT_REORDER_MAX_NS
  MaxFrames,     \* bound: frames of a behaviour
  MaxInject,     \* bound: frames something is injected for
  MaxClock       \* bound: ticks of a behaviour

ASSUME TxqAssumption == {TxqLen, LateTicks, HoldTicks, MaxFrames, MaxInject, MaxClock} \subseteq Nat

VARIABLES
  txq,       \* the used slots: [id, due, seq, held]
  clock,     \* now_ns
  late, dup, reorder,   \* what is left of the injections
  frames,    \* frames received so far, their numbers are the ids; f->seq follows them
  wire,      \* history: ids in the order they were sent
  fate       \* history: what was done to each reply

txqVars == <<txq, clock, late, dup, reorder, frames, wire, fate>>

TxqInit ==
  /\ txq = {} /\ clock = 0 /\ late = 0 /\ dup = 0 /\ reorder = 0
  /\ frames = 0 /\ wire = <<>> /\ fate = <<>>

\* f->seq at the end of frame id: up to three slots are numbered per frame.
TxSeq(id) == 3 * id

Slot(id, due, seq, held) == [id |-> id, due |-> due, seq |-> seq, held |-> held]

\* txq_put: dropped (q_overflow) when every slot is used.
TxqPut(q, slot) == IF Cardinality(q) < TxqLen THEN q \cup {slot} ELSE q

\* esc_fault_frame_end, the first copy: the reply of frame i+1 goes first, then
\* the held reply of frame i.
Queued(q, id, due) ==
  LET h == {s \in q : s.held}
      behind == {Slot(s.id, due, TxSeq(id) + 1, FALSE) : s \in h}
  IN IF h # {} THEN (TxqPut(q, Slot(id, due, TxSeq(id), FALSE)) \ h) \cup behind
     ELSE IF reorder > 0 THEN TxqPut(q, Slot(id, clock + HoldTicks, TxSeq(id), TRUE))
     ELSE TxqPut(q, Slot(id, due, TxSeq(id), FALSE))

\* esc_fault_frame_end.
FrameEnd ==
  LET id   == frames + 1
      due  == clock + IF late > 0 THEN LateTicks ELSE 0
      held == \E s \in txq : s.held
      q    == Queued(txq, id, due)
      copy == Slot(id, due, TxSeq(id) + 2, FALSE)
  IN /\ frames < MaxFrames /\ clock + HoldTicks <= MaxClock /\ frames' = id
     /\ txq' = IF dup > 0 THEN TxqPut(q, copy) ELSE q
     /\ late' = (IF late > 0 THEN late - 1 ELSE 0) /\ dup' = (IF dup > 0 THEN dup - 1 ELSE 0)
     /\ reorder' = IF ~held /\ reorder > 0 THEN reorder - 1 ELSE reorder
     /\ fate' = Append(fate, [at |-> clock, swap |-> ~held /\ reorder > 0, late |-> late > 0, dup |-> dup > 0,
                              lost |-> ~\E s \in q : s.id = id])
     /\ UNCHANGED <<clock, wire>>

\* A slip: a held reply waits for a partner for ever.
Patient_PopDue ==
  \E s \in txq :
    /\ s.due <= clock /\ ~s.held
    /\ \A t \in txq : s.due < t.due \/ (s.due = t.due /\ s.seq <= t.seq)
    /\ txq' = txq \ {s} /\ wire' = Append(wire, s.id)
    /\ UNCHANGED <<clock, late, dup, reorder, frames, fate>>

\* esc_fault_pop_due: the earliest, then the first queued.
PopDue ==
  \E s \in txq :
    /\ s.due <= clock
    /\ \A t \in txq : s.due < t.due \/ (s.due = t.due /\ s.seq <= t.seq)
    /\ txq' = txq \ {s} /\ wire' = Append(wire, s.id)
    /\ UNCHANGED <<clock, late, dup, reorder, frames, fate>>

\* Time passes while the loop waits in ppoll or is busy; with nothing queued it
\* makes no difference.
TxqTick ==
  /\ txq # {}
  /\ clock < MaxClock /\ clock' = clock + 1
  /\ UNCHANGED <<txq, late, dup, reorder, frames, wire, fate>>

\* late, dup, reorder, clear.
TxqCommand ==
  /\ frames < MaxFrames /\ clock + HoldTicks <= MaxClock
  /\ Cardinality({i \in DOMAIN fate : fate[i].swap \/ fate[i].late \/ fate[i].dup}) < MaxInject
  /\ \/ late' = 1 /\ UNCHANGED <<dup, reorder>>
     \/ dup' = 1 /\ UNCHANGED <<late, reorder>>
     \/ reorder' = 1 /\ UNCHANGED <<late, dup>>
     \/ late' = 0 /\ dup' = 0 /\ reorder' = 0
  /\ UNCHANGED <<txq, clock, frames, wire, fate>>

TxqNext == FrameEnd \/ PopDue \/ TxqTick \/ TxqCommand

\* The main loop pops what is due in every round; ppoll returns when a reply is due.
TxqFairness == WF_txqVars(PopDue) /\ WF_txqVars(TxqTick)
TxqSpec == TxqInit /\ [][TxqNext]_txqVars /\ TxqFairness

-----------------------------------------------------------------------------
(* Properties.                                                             *)

Copies(id) == Cardinality({i \in DOMAIN wire : wire[i] = id})
Before(a, b) == \E i, j \in DOMAIN wire : i < j /\ wire[i] = a /\ wire[j] = b
Leads(a, b) == \E i \in DOMAIN wire : wire[i] = a /\ \A j \in 1 .. i - 1 : wire[j] # b

\* esc_fault_frame_end and pop_due: no reply leaves more often than it should,
\* at most one is held back, a reply that is neither late nor swapped is never behind
\* that of a later frame, and a held reply leaves behind the one it is swapped with
\* unless it waited out its time.
RepliesKeepOrder ==
  /\ \A id \in 1 .. frames : Copies(id) <= IF fate[id].dup THEN 2 ELSE 1
  /\ Cardinality({s \in txq : s.held}) <= 1
  /\ \A a, b \in 1 .. frames : a < b /\ ~fate[a].swap /\ ~fate[a].late => ~Before(b, a)
  /\ \A a \in 1 .. frames - 1 : fate[a].swap /\ ~fate[a].dup /\ ~fate[a + 1].lost /\ Leads(a, a + 1)
       => fate[a + 1].at >= fate[a].at + HoldTicks

\* The replies keep that order, and esc_fault_next_due with the loop lets every
\* reply leave that was queued, a held one too when no other frame ever comes.
RepliesLeaveInOrder ==
  /\ []RepliesKeepOrder
  /\ \A id \in 1 .. MaxFrames : [](id <= frames => (fate[id].lost \/ <>(Copies(id) > 0)))
=============================================================================
