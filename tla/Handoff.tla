------------------------------ MODULE Handoff ------------------------------
(***************************************************************************)
(* The two-slot handoff from the RT thread to a reader                     *)
(* (ecm_diag_handoff_put/get; ecm_api_ho_begin/commit/get follow the same  *)
(* protocol).  Every atomic load and store is a step, and so are the       *)
(* copies of the payload, which are not atomic and must never meet.        *)
(***************************************************************************)
EXTENDS Integers, Sequences

CONSTANTS
  Message,      \* payloads
  MaxPuts       \* bound on calls of put

ASSUME HandoffAssumption == MaxPuts \in Nat

Slot == {0, 1}

VARIABLES
  state, slot, put_seq,          \* ecm_diag_handoff_t, shared
  puts, next_put, drops,         \* producer only
  ppc, pk, msg,                  \* producer: step, slot, message
  cpc, full, ck, out,            \* consumer: step, slots seen full, slot, copy
  got,                           \* history: what get returned last
  putStart, getStart             \* history: state at the first load of the
                                 \* running put, get

producer == <<puts, next_put, drops, ppc, pk, msg, putStart>>
consumer == <<cpc, full, ck, out, got, getStart>>
vars     == <<state, slot, put_seq, producer, consumer>>

Init ==
  /\ state = [k \in Slot |-> 0] /\ put_seq = [k \in Slot |-> 0]
  /\ slot \in [Slot -> Message]
  /\ puts = 0 /\ next_put = 0 /\ drops = 0
  /\ ppc = "idle" /\ pk = 0 /\ msg \in Message
  /\ cpc = "idle" /\ full = {} /\ ck = 0 /\ out \in Message
  /\ got = <<>> /\ putStart = state /\ getStart = state

-----------------------------------------------------------------------------
(* The producer: ecm_diag_handoff_put.                                     *)

PutLoad ==
  /\ ppc = "idle" /\ puts + drops < MaxPuts
  /\ msg' \in Message
  /\ putStart' = state
  /\ IF state[next_put] = 0 THEN pk' = next_put /\ ppc' = "write"
                            ELSE pk' = 1 - next_put /\ ppc' = "load"
  /\ UNCHANGED <<state, slot, put_seq, puts, next_put, drops, consumer>>

PutLoadOther ==
  /\ ppc = "load"
  /\ IF state[pk] = 0 THEN ppc' = "write" /\ UNCHANGED drops
                      ELSE ppc' = "idle" /\ drops' = drops + 1
  /\ UNCHANGED <<state, slot, put_seq, puts, next_put, pk, msg, putStart, consumer>>

PutWrite ==
  /\ ppc = "write"
  /\ slot' = [slot EXCEPT ![pk] = msg]
  /\ put_seq' = [put_seq EXCEPT ![pk] = puts + 1] /\ puts' = puts + 1
  /\ ppc' = "publish"
  /\ UNCHANGED <<state, next_put, drops, pk, msg, putStart, consumer>>

PutPublish ==
  /\ ppc = "publish"
  /\ state' = [state EXCEPT ![pk] = 1]
  /\ next_put' = 1 - pk
  /\ ppc' = "idle"
  /\ UNCHANGED <<slot, put_seq, puts, drops, pk, msg, putStart, consumer>>

Put == PutLoad \/ PutLoadOther \/ PutWrite \/ PutPublish

-----------------------------------------------------------------------------
(* The consumer: ecm_diag_handoff_get.                                     *)

GetLoad0 ==
  /\ cpc = "idle"
  /\ full' = {k \in {0} : state[k] = 1}
  /\ getStart' = state
  /\ cpc' = "load"
  /\ UNCHANGED <<state, slot, put_seq, producer, ck, out, got>>

\* A slip, the code before Phase 7.6: the two loads are taken for a snapshot.
Snapshot_GetLoad1 ==
  /\ cpc = "load"
  /\ full' = full \cup {k \in {1} : state[k] = 1}
  /\ cpc' = IF full' # {} THEN "choose" ELSE "idle"
  /\ UNCHANGED <<state, slot, put_seq, producer, ck, out, got, getStart>>

GetLoad1 ==
  /\ cpc = "load"
  /\ full' = full \cup {k \in {1} : state[k] = 1}
  /\ cpc' = IF full' = {} THEN "idle" ELSE IF full' = Slot THEN "choose" ELSE "again"
  /\ UNCHANGED <<state, slot, put_seq, producer, ck, out, got, getStart>>

\* Phase 7.6: the slot seen empty is looked at once more.
GetLoadAgain ==
  /\ cpc = "again"
  /\ full' = full \cup {k \in Slot : state[k] = 1}
  /\ cpc' = "choose"
  /\ UNCHANGED <<state, slot, put_seq, producer, ck, out, got, getStart>>

GetChoose ==
  /\ cpc = "choose"
  /\ ck' = IF full = Slot THEN IF put_seq[0] < put_seq[1] THEN 0 ELSE 1
           ELSE IF 0 \in full THEN 0 ELSE 1
  /\ cpc' = "copy"
  /\ UNCHANGED <<state, slot, put_seq, producer, full, out, got, getStart>>

GetCopy ==
  /\ cpc = "copy"
  /\ out' = slot[ck]
  /\ cpc' = "release"
  /\ UNCHANGED <<state, slot, put_seq, producer, full, ck, got, getStart>>

GetRelease ==
  /\ cpc = "release"
  /\ state' = [state EXCEPT ![ck] = 0]
  /\ got' = <<out>>
  /\ cpc' = "idle"
  /\ UNCHANGED <<slot, put_seq, producer, full, ck, out, getStart>>

Get == GetLoad0 \/ GetLoad1 \/ GetLoadAgain \/ GetChoose \/ GetCopy \/ GetRelease

Next == Put \/ Get

Spec == Init /\ [][Next]_vars

-----------------------------------------------------------------------------
(* Properties.                                                             *)

TypeOK ==
  /\ state \in [Slot -> {0, 1}] /\ slot \in [Slot -> Message]
  /\ put_seq \in [Slot -> Nat] /\ puts \in Nat /\ drops \in Nat /\ puts + drops <= MaxPuts
  /\ next_put \in Slot /\ ppc \in {"idle", "load", "write", "publish"}
  /\ pk \in Slot /\ msg \in Message
  /\ cpc \in {"idle", "load", "again", "choose", "copy", "release"}
  /\ full \subseteq Slot /\ ck \in Slot /\ out \in Message
  /\ putStart \in [Slot -> {0, 1}] /\ getStart \in [Slot -> {0, 1}]

\* The payload and put_seq of a slot are never written while they are read: a
\* put about to write and a get about to copy or compare are at different
\* slots, though neither waits for the other.
NoTornCopy ==
  ppc = "write" =>
    /\ cpc = "copy" => ck # pk
    /\ cpc = "choose" => full # Slot

\* put drops a message only if at the start of the call both slots were full,
\* although it looks at them one after the other.
DropsOnlyWhenFull == [][drops' # drops => \A k \in Slot : putStart[k] = 1]_vars

\* get returns nothing only if at the start of the call both slots were empty.
EmptyOnlyWhenEmpty == [][cpc = "load" /\ cpc' = "idle" => \A k \in Slot : getStart[k] = 0]_vars

\* The full slots, in the order of their puts.
Waiting ==
  IF state[0] = 1 /\ state[1] = 1
  THEN IF put_seq[0] < put_seq[1] THEN <<slot[0], slot[1]>> ELSE <<slot[1], slot[0]>>
  ELSE IF state[0] = 1 THEN <<slot[0]>> ELSE IF state[1] = 1 THEN <<slot[1]>> ELSE <<>>

Queue == INSTANCE BoundedQueue WITH Capacity <- 2, queue <- Waiting

\* put and get implement a queue of two messages: nothing accepted is lost,
\* repeated or handed out before an older message.
ImplementsQueue == Queue!QueueSpec

-----------------------------------------------------------------------------
(* The inductive invariant.                                                *)

\* The slots the consumer works on stay full, and are the oldest.
Oldest(k) == state[1 - k] = 1 => put_seq[k] < put_seq[1 - k]

IInv ==
  /\ TypeOK
  /\ \A k \in Slot : put_seq[k] <= puts
  /\ state[0] = 1 /\ state[1] = 1 => put_seq[0] # put_seq[1]
  /\ ppc = "load" => pk = 1 - next_put /\ (state[pk] = 1 => \A k \in Slot : putStart[k] = 1)
  /\ ppc \in {"load", "write"} => puts + drops < MaxPuts
  /\ ppc \in {"write", "publish"} => state[pk] = 0
  /\ ppc = "publish" => /\ put_seq[pk] = puts
                        /\ state[1 - pk] = 1 => put_seq[1 - pk] < puts
  /\ cpc = "load" => /\ full = {k \in {0} : getStart[k] = 1}
                     /\ \A k \in Slot : getStart[k] = 1 => state[k] = 1
  /\ cpc \in {"load", "again", "choose"} => \A k \in full : state[k] = 1
  /\ cpc \in {"again", "choose"} => full # {}
  /\ cpc = "choose" => \A k \in full : 1 - k \notin full => Oldest(k)
  /\ cpc \in {"copy", "release"} => state[ck] = 1 /\ Oldest(ck)
  /\ cpc = "release" => out = slot[ck]
=============================================================================
