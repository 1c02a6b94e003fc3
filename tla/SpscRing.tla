------------------------------ MODULE SpscRing ------------------------------
(***************************************************************************)
(* The single-producer single-consumer ring of the program: ecm_evring,    *)
(* ecm_cmdq, ecm_xring, ring_spsc and tx_order_ring are the same code over *)
(* other elements.  head and tail run freely and wrap at the width of      *)
(* their type; the slot is the counter modulo the capacity.  Every atomic  *)
(* access and every copy of an element is a step.  A consumer that peeks   *)
(* and drops later (ecm_cmdq, ecm_xring) may take any time in between.     *)
(***************************************************************************)
EXTENDS Integers, Sequences

CONSTANTS
  RingMessage,
  RingLen,      \* ECM_EVRING_LEN, ECM_CMDQ_LEN, RING_CAPACITY ...
  Width         \* 2^32 (atomic_uint) or 2^64 (_Atomic size_t)

ASSUME RingAssumption ==
  /\ RingLen \in Nat \ {0} /\ Width \in Nat
  /\ Width > RingLen /\ Width % RingLen = 0

VARIABLES
  ringHead, ringTail, ringBuf,     \* shared
  pushPc, pushMsg,                 \* producer: step, element
  popPc, popOut,                   \* consumer: step, copy
  popGot                           \* history: what pop returned last

pusher == <<pushPc, pushMsg>>
popper == <<popPc, popOut, popGot>>
ringVars == <<ringHead, ringTail, ringBuf, pusher, popper>>

Index(n) == n % RingLen                 \* n & (LEN - 1)
Used == (ringHead - ringTail) % Width   \* unsigned subtraction

\* A ring that has been in use: any common position.
RingInit ==
  /\ ringHead \in 0 .. Width - 1 /\ ringTail = ringHead
  /\ \E m \in RingMessage : ringBuf = [i \in 0 .. RingLen - 1 |-> m] /\ pushMsg = m /\ popOut = m
  /\ pushPc = "idle" /\ popPc = "idle" /\ popGot = <<>>

-----------------------------------------------------------------------------
(* push                                                                    *)

\* A slip: the counters are compared as if they did not wrap.
Signed_PushLoad ==
  /\ pushPc = "idle"
  /\ IF ringHead - ringTail >= RingLen THEN UNCHANGED pusher ELSE pushMsg' \in RingMessage /\ pushPc' = "write"
  /\ UNCHANGED <<ringHead, ringTail, ringBuf, popper>>

PushLoad ==
  /\ pushPc = "idle"
  /\ IF Used >= RingLen THEN UNCHANGED pusher      \* drops++
     ELSE pushMsg' \in RingMessage /\ pushPc' = "write"
  /\ UNCHANGED <<ringHead, ringTail, ringBuf, popper>>

PushWrite ==
  /\ pushPc = "write"
  /\ ringBuf' = [ringBuf EXCEPT ![Index(ringHead)] = pushMsg]
  /\ pushPc' = "publish"
  /\ UNCHANGED <<ringHead, ringTail, pushMsg, popper>>

PushPublish ==
  /\ pushPc = "publish"
  /\ ringHead' = (ringHead + 1) % Width
  /\ pushPc' = "idle"
  /\ UNCHANGED <<ringTail, ringBuf, pushMsg, popper>>

-----------------------------------------------------------------------------
(* pop; peek and drop_head                                                 *)

PopLoad ==
  /\ popPc = "idle"
  /\ ringTail # ringHead /\ popPc' = "copy"
  /\ UNCHANGED <<ringHead, ringTail, ringBuf, popOut, popGot, pusher>>

PopCopy ==
  /\ popPc = "copy"
  /\ popOut' = ringBuf[Index(ringTail)]
  /\ popPc' = "drop"
  /\ UNCHANGED <<ringHead, ringTail, ringBuf, popGot, pusher>>

PopPublish ==
  /\ popPc = "drop"
  /\ ringTail' = (ringTail + 1) % Width /\ popGot' = <<popOut>>
  /\ popPc' = "idle"
  /\ UNCHANGED <<ringHead, ringBuf, popOut, pusher>>

Push == PushLoad \/ PushWrite \/ PushPublish
Pop  == PopLoad \/ PopCopy \/ PopPublish
RingNext == Push \/ Pop
RingSpec == RingInit /\ [][RingNext]_ringVars

-----------------------------------------------------------------------------
(* Properties.                                                             *)

\* The elements between tail and head.
RingWaiting == [i \in 1 .. Used |-> ringBuf[Index((ringTail + i - 1) % Width)]]

RingQueue == INSTANCE BoundedQueue WITH Capacity <- RingLen, Message <- RingMessage, queue <- RingWaiting, got <- popGot

\* push and pop implement a queue of RingLen elements, also when the counters
\* wrap.
RingIsQueue == RingQueue!QueueSpec
=============================================================================
