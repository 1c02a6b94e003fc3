---------------------------- MODULE BoundedQueue ----------------------------
(***************************************************************************)
(* What the lock-free channels between two threads promise: the messages   *)
(* accepted come out in the order they went in, each once, and at most     *)
(* Capacity of them wait.                                                  *)
(***************************************************************************)
EXTENDS Naturals, Sequences

CONSTANTS Message, Capacity

VARIABLES
  queue,     \* accepted and not yet taken
  got        \* the message taken last, or none

queueVars == <<queue, got>>

QueueInit == queue = <<>> /\ got = <<>>

Accept(m) ==
  /\ Len(queue) < Capacity
  /\ queue' = Append(queue, m)
  /\ UNCHANGED got

Take ==
  /\ queue # <<>>
  /\ got' = <<Head(queue)>>
  /\ queue' = Tail(queue)

QueueNext == Take \/ \E m \in Message : Accept(m)

QueueSpec == QueueInit /\ [][QueueNext]_queueVars
=============================================================================
