---------------------- MODULE ChannelsAndSlaves_proofs ----------------------
(***************************************************************************)
(* The channels between threads.  The two-slot handoff implements a queue  *)
(* of capacity two for any payloads and any number of puts.  The seqlock   *)
(* delivers whole records for every number of words, tries and records.    *)
(*                                                                         *)
(* The simulated slaves.  EscNode: OpOnlyAfterOutputs for every watchdog   *)
(* time, every delay of OP and every set of injected rejections.           *)
(* EscMailbox: CntTellsNewFromOld for every range of the counter and any   *)
(* number of responses.  EscProfile: AssignmentIsLegal for every profile   *)
(* and every length of the assignment.                                     *)
(***************************************************************************)
EXTENDS Handoff, Seqlock, EscNode, EscMailbox, EscProfile, TLAPS

-----------------------------------------------------------------------------
(* Handoff.                                                                *)

\* Empty slots, numbered 0.
LEMMA InitIInv == Init => IInv
BY HandoffAssumption DEF Init, IInv, TypeOK, Slot

\* A step of put keeps the invariant: it writes only a slot it saw empty, which
\* nobody else fills, and gives it a number above all others.
LEMMA PutKeepsIInv == IInv /\ Put => IInv'
<1> SUFFICES ASSUME IInv, Put PROVE IInv'
  BY Zenon
<1> USE HandoffAssumption
<1>1. CASE PutLoad
  BY <1>1 DEF PutLoad, IInv, TypeOK, Slot, Oldest, consumer
<1>2. CASE PutLoadOther
  BY <1>2 DEF PutLoadOther, IInv, TypeOK, Slot, Oldest, consumer
<1>3. CASE PutWrite
  <2>1. CASE pk = 0
    BY <1>3, <2>1 DEF PutWrite, IInv, TypeOK, Slot, Oldest, consumer
  <2>2. CASE pk = 1
    BY <1>3, <2>2, SMTT(30) DEF PutWrite, IInv, TypeOK, Slot, Oldest, consumer
  <2> QED
    BY <2>1, <2>2, Zenon DEF IInv, TypeOK, Slot
<1>4. CASE PutPublish
  <2>1. CASE pk = 0
    BY <1>4, <2>1 DEF PutPublish, IInv, TypeOK, Slot, Oldest, consumer
  <2>2. CASE pk = 1
    BY <1>4, <2>2 DEF PutPublish, IInv, TypeOK, Slot, Oldest, consumer
  <2> QED
    BY <2>1, <2>2 DEF IInv, TypeOK, Slot
<1> QED
  BY <1>1, <1>2, <1>3, <1>4, Zenon DEF Put

\* A step of get keeps the invariant: it empties only a slot it saw full, which
\* nobody else empties, and takes the older one.
LEMMA GetKeepsIInv == IInv /\ Get => IInv'
<1> SUFFICES ASSUME IInv, Get PROVE IInv'
  OBVIOUS
<1> USE HandoffAssumption
<1>1. CASE GetLoad0
  BY <1>1 DEF GetLoad0, IInv, TypeOK, Slot, Oldest, producer
<1>2. CASE GetLoad1
  BY <1>2 DEF GetLoad1, IInv, TypeOK, Slot, Oldest, producer
<1>3. CASE GetLoadAgain
  <2>1. full' \subseteq Slot /\ full' # {} /\ \A k \in full' : state[k] = 1
    BY <1>3, Zenon DEF GetLoadAgain, IInv, TypeOK
  <2>2. \A k \in full' : 1 - k \notin full' => state[1 - k] = 0
    BY <1>3, <2>1 DEF GetLoadAgain, IInv, TypeOK, Slot
  <2> QED
    BY <1>3, <2>1, <2>2 DEF GetLoadAgain, IInv, TypeOK, Oldest, producer
<1>4. CASE GetChoose
  <2>1. CASE full = Slot
    BY <1>4, <2>1, SMTT(30) DEF GetChoose, IInv, TypeOK, Slot, Oldest, producer
  <2>2. CASE full # Slot
    <3>0. full = {0} \/ full = {1}
      <4>1. full \subseteq {0, 1} /\ full # {} /\ full # {0, 1}
        BY <1>4, <2>2, Zenon DEF GetChoose, IInv, TypeOK, Slot
      <4>2. CASE 0 \in full
        BY <4>1, <4>2, Zenon
      <4>3. CASE 0 \notin full
        BY <4>1, <4>3, Zenon
      <4> QED
        BY <4>2, <4>3, Zenon
    <3>1. ck' \in full /\ 1 - ck' \notin full
      BY <1>4, <3>0, <2>2 DEF GetChoose
    <3> QED
      BY <1>4, <2>2, <3>1 DEF GetChoose, IInv, TypeOK, Slot, Oldest, producer
  <2> QED
    BY <2>1, <2>2, Zenon
<1>5. CASE GetCopy
  <2>1. CASE ck = 0
    BY <1>5, <2>1, SMTT(30) DEF GetCopy, IInv, TypeOK, Slot, Oldest, producer
  <2>2. CASE ck = 1
    BY <1>5, <2>2, SMTT(30) DEF GetCopy, IInv, TypeOK, Slot, Oldest, producer
  <2> QED
    BY <2>1, <2>2, ZenonT(40) DEF IInv, TypeOK, Slot
<1>6. CASE GetRelease
  <2>1. CASE ck = 0
    BY <1>6, <2>1, SMTT(30) DEF GetRelease, IInv, TypeOK, Slot, Oldest, producer
  <2>2. CASE ck = 1
    BY <1>6, <2>2 DEF GetRelease, IInv, TypeOK, Slot, Oldest, producer
  <2> QED
    BY <2>1, <2>2, SMTT(30) DEF IInv, TypeOK, Slot
<1> QED
  BY <1>1, <1>2, <1>3, <1>4, <1>5, <1>6, Zenon DEF Get

\* The invariant of put and get together.
THEOREM Invariance == Spec => []IInv
<1>1. IInv /\ [Next]_vars => IInv'
  <2>1. IInv /\ UNCHANGED vars => IInv'
    BY DEF IInv, TypeOK, Oldest, vars, producer, consumer
  <2> QED
    BY <2>1, PutKeepsIInv, GetKeepsIInv, ZenonT(40) DEF Next
<1> QED
  BY <1>1, InitIInv, PTL DEF Spec

\* No slot is written while it is copied or compared.
THEOREM CopiesAreWhole == Spec => []NoTornCopy
<1>1. IInv => NoTornCopy
  BY Zenon DEF IInv, TypeOK, NoTornCopy, Slot
<1> QED
  BY <1>1, Invariance, PTL

\* put drops only what had no room when it was called.
THEOREM DropsAreJustified == Spec => DropsOnlyWhenFull
<1>1. IInv /\ [Next]_vars => [drops' # drops => \A k \in Slot : putStart[k] = 1]_vars
  <2> SUFFICES ASSUME IInv, Next, drops' # drops PROVE \A k \in Slot : putStart[k] = 1
    BY Zenon
  <2>1. PutLoadOther /\ state[pk] # 0
    BY Zenon DEF Next, Put, Get, PutLoad, PutLoadOther, PutWrite, PutPublish, GetLoad0, GetLoad1,
      GetLoadAgain, GetChoose, GetCopy, GetRelease, producer
  <2> QED
    BY <2>1, Zenon DEF IInv, TypeOK, PutLoadOther
<1> QED
  BY <1>1, Invariance, PTL DEF Spec, DropsOnlyWhenFull

\* get returns nothing only if there was nothing when it was called.
THEOREM EmptyIsJustified == Spec => EmptyOnlyWhenEmpty
<1>1. IInv /\ [Next]_vars => [cpc = "load" /\ cpc' = "idle" => \A k \in Slot : getStart[k] = 0]_vars
  <2> SUFFICES ASSUME IInv, Next, cpc = "load", cpc' = "idle" PROVE \A k \in Slot : getStart[k] = 0
    BY Zenon
  <2>1. GetLoad1 /\ full' = {}
    BY Zenon DEF Next, Put, Get, PutLoad, PutLoadOther, PutWrite, PutPublish, GetLoad0, GetLoad1,
      GetLoadAgain, GetChoose, GetCopy, GetRelease, consumer
  <2> QED
    BY <2>1, Zenon DEF IInv, TypeOK, Slot, GetLoad1
<1> QED
  BY <1>1, Invariance, PTL DEF Spec, EmptyOnlyWhenEmpty

\* Messages come out in the order of their puts, each once: publishing a slot
\* is the abstract Accept, releasing one the abstract Take, every other step
\* leaves the queue as it is.
THEOREM HandoffImplementsQueue == Spec => ImplementsQueue
<1>1. Init => Queue!QueueInit
  BY DEF Init, Queue!QueueInit, Waiting, Slot
<1>2. IInv /\ [Next]_vars => [Queue!QueueNext]_Queue!queueVars
  <2> SUFFICES ASSUME IInv, [Next]_vars
               PROVE  Queue!QueueNext \/ UNCHANGED <<Waiting, got>>
    BY Zenon DEF Queue!queueVars
  <2>1. CASE PutPublish
    <3>1. slot[pk] \in Message
      BY Zenon DEF IInv, TypeOK
    <3>2. UNCHANGED got
      BY <2>1, Zenon DEF PutPublish, consumer
    <3>3. Len(Waiting) < 2 /\ Waiting' = Append(Waiting, slot[pk])
      <4>1. CASE pk = 0
        <5>1. CASE state[1] = 1
          <6>1. Waiting = <<slot[1]>> /\ Waiting' = <<slot[1], slot[0]>>
            BY <2>1, <4>1, <5>1 DEF PutPublish, IInv, TypeOK, Waiting, Slot
          <6> QED
            BY <6>1, <4>1, SMTT(30)
        <5>2. CASE state[1] = 0
          <6>1. Waiting = << >> /\ Waiting' = <<slot[0]>>
            BY <2>1, <4>1, <5>2, Zenon DEF PutPublish, IInv, TypeOK, Waiting, Slot
          <6> QED
            BY <6>1, <4>1
        <5> QED
          BY <5>1, <5>2, Zenon DEF IInv, TypeOK, Slot
      <4>2. CASE pk = 1
        <5>1. CASE state[0] = 1
          <6>1. Waiting = <<slot[0]>> /\ Waiting' = <<slot[0], slot[1]>>
            BY <2>1, <4>2, <5>1 DEF PutPublish, IInv, TypeOK, Waiting, Slot
          <6> QED
            BY <6>1, <4>2
        <5>2. CASE state[0] = 0
          <6>1. Waiting = << >> /\ Waiting' = <<slot[1]>>
            BY <2>1, <4>2, <5>2, Zenon DEF PutPublish, IInv, TypeOK, Waiting, Slot
          <6> QED
            BY <6>1, <4>2
        <5> QED
          BY <5>1, <5>2, Zenon DEF IInv, TypeOK, Slot
      <4> QED
        BY <4>1, <4>2, Zenon DEF IInv, TypeOK, Slot
    <3> QED
      BY <3>1, <3>2, <3>3, Zenon DEF Queue!QueueNext, Queue!Accept
  <2>2. CASE GetRelease
    <3>1. got' = <<slot[ck]>>
      BY <2>2, Zenon DEF GetRelease, IInv
    <3>2. Waiting # <<>> /\ Head(Waiting) = slot[ck] /\ Waiting' = Tail(Waiting)
      BY <2>2 DEF GetRelease, IInv, TypeOK, Waiting, Slot, Oldest
    <3> QED
      BY <3>1, <3>2, Zenon DEF Queue!QueueNext, Queue!Take
  <2>3. CASE PutWrite
    BY <2>3, Zenon DEF PutWrite, IInv, TypeOK, Waiting, Slot, consumer
  <2>4. CASE PutLoad \/ PutLoadOther \/ GetLoad0 \/ GetLoad1 \/ GetLoadAgain \/ GetChoose \/ GetCopy \/ UNCHANGED vars
    <3>1. UNCHANGED <<state, slot, put_seq, got>>
      BY <2>4, Zenon DEF PutLoad, PutLoadOther, GetLoad0, GetLoad1, GetLoadAgain, GetChoose, GetCopy,
        vars, producer, consumer
    <3> QED
      BY <3>1, Zenon DEF Waiting
  <2> QED
    BY <2>1, <2>2, <2>3, <2>4, Zenon DEF Next, Put, Get
<1> QED
  BY <1>1, <1>2, Invariance, PTL DEF Spec, ImplementsQueue, Queue!QueueSpec

-----------------------------------------------------------------------------
(* Seqlock.                                                                *)

\* Between two writes every word is that of the last record; the number is
\* twice its number, and one less while it is being written.
WriterInv ==
  /\ wVal \in Nat /\ word \in [Word -> Nat]
  /\ \/ seq = 2 * wVal /\ wTodo = {} /\ \A i \in Word : word[i] = wVal
     \/ wVal > 0 /\ seq = 2 * wVal - 1 /\ \A i \in Word \ wTodo : word[i] = wVal

\* While the number is still rS1, what has been copied is the record of rS1.
ReaderInv ==
  /\ rpc \in {"idle", "seq", "copy", "ok", "failed"}
  /\ rStart \in Nat /\ rCopy \in [Word -> Nat]
  /\ rpc \in {"seq", "copy"} => 2 * rStart <= seq
  /\ rpc = "copy" => /\ rS1 <= seq /\ 2 * rStart <= rS1 /\ rS1 \in Nat
                     /\ seq = rS1 => seq = 2 * wVal /\ \A i \in Word \ rTodo : rCopy[i] = wVal
  /\ RecordIsWhole

SeqInv == WriterInv /\ ReaderInv

\* The invariant holds before the first write.
LEMMA SeqInitInv == SeqInit => SeqInv
  BY DEF SeqInit, SeqInv, WriterInv, ReaderInv, RecordIsWhole

\* A record that was whole stays whole while the writer goes on.
LEMMA WholeStays ==
  ASSUME RecordIsWhole, wVal \in Nat, wVal' \in Nat, wVal' >= wVal, UNCHANGED seqReader
  PROVE  RecordIsWhole'
  <1>1. CASE rpc = "ok"
    <2>1. PICK n \in 0 .. wVal : n >= rStart /\ rCopy = [i \in Word |-> n]
      BY <1>1, Zenon DEF RecordIsWhole
    <2>2. n \in 0 .. wVal'
      BY <2>1
    <2>3. QED BY <2>1, <2>2, Zenon DEF RecordIsWhole, seqReader
  <1>2. CASE rpc # "ok"
    BY <1>2, Zenon DEF RecordIsWhole, seqReader
  <1>3. QED BY <1>1, <1>2, Zenon

\* Every step of the writer and of the reader keeps the invariant.
LEMMA SeqNextInv == SeqInv /\ [SeqNext]_seqVars => SeqInv'
  <1> SUFFICES ASSUME SeqInv, [SeqNext]_seqVars PROVE SeqInv'
    BY Zenon
  <1> USE SeqlockAssumption
  <1>1. CASE WriteBegin
    <2>1. seq = 2 * wVal
      BY <1>1 DEF SeqInv, WriterInv, WriteBegin
    <2>2. WriterInv'
      BY <1>1, <2>1 DEF SeqInv, WriterInv, WriteBegin
    <2>3. RecordIsWhole'
      BY <1>1, WholeStays DEF SeqInv, WriterInv, ReaderInv, WriteBegin
    <2>4. ReaderInv'
      BY <1>1, <2>1, <2>3 DEF SeqInv, WriterInv, ReaderInv, WriteBegin, seqReader
    <2>5. QED BY <2>2, <2>4, Zenon DEF SeqInv
  <1>2. CASE WriteEnd
    <2>1. seq = 2 * wVal - 1 /\ seq' = 2 * wVal'
      BY <1>2 DEF SeqInv, WriterInv, WriteEnd, seqWriter
    <2>2. WriterInv'
      BY <1>2, <2>1, Zenon DEF SeqInv, WriterInv, WriteEnd, seqWriter
    <2>3. RecordIsWhole'
      BY <1>2, WholeStays DEF SeqInv, WriterInv, ReaderInv, WriteEnd, seqWriter
    <2>4. ReaderInv'
      BY <1>2, <2>1, <2>3 DEF SeqInv, WriterInv, ReaderInv, WriteEnd, seqReader, seqWriter
    <2>5. QED BY <2>2, <2>4 DEF SeqInv
  <1>3. ASSUME NEW i \in Word, WriteWord(i) PROVE SeqInv'
    <2>1. WriterInv'
      BY <1>3, Zenon DEF SeqInv, WriterInv, WriteWord
    <2>2. RecordIsWhole'
      BY <1>3, WholeStays DEF SeqInv, WriterInv, ReaderInv, WriteWord
    <2>3. ReaderInv'
      BY <1>3, <2>2, Zenon DEF SeqInv, WriterInv, ReaderInv, WriteWord, seqReader
    <2>4. QED BY <2>1, <2>3, Zenon DEF SeqInv
  <1>4. CASE ReadBegin
    <2>1. rStart' \in Nat /\ 2 * rStart' <= seq
      BY <1>4 DEF SeqInv, WriterInv, ReadBegin
    <2>2. WriterInv'
      BY <1>4, Zenon DEF SeqInv, WriterInv, ReadBegin, seqWriter
    <2>3. ReaderInv'
      BY <1>4, <2>1, Zenon DEF SeqInv, ReaderInv, RecordIsWhole, ReadBegin, seqWriter
    <2>4. QED BY <2>2, <2>3 DEF SeqInv
  <1>5. CASE ReadSeq
    <2>1. WriterInv'
      BY <1>5, Zenon DEF SeqInv, WriterInv, ReadSeq, seqWriter
    <2>2. ReaderInv'
      BY <1>5 DEF SeqInv, WriterInv, ReaderInv, RecordIsWhole, ReadSeq, Retry, seqWriter
    <2>3. QED BY <2>1, <2>2 DEF SeqInv
  <1>6. ASSUME NEW i \in Word, ReadWord(i) PROVE SeqInv'
    <2>1. WriterInv'
      BY <1>6, Zenon DEF SeqInv, WriterInv, ReadWord, seqWriter
    <2>2. ReaderInv'
      BY <1>6 DEF SeqInv, WriterInv, ReaderInv, RecordIsWhole, ReadWord, seqWriter
    <2>3. QED BY <2>1, <2>2 DEF SeqInv
  <1>7. CASE ReadCheck
    <2>1. WriterInv'
      BY <1>7, Zenon DEF SeqInv, WriterInv, ReadCheck, seqWriter
    <2>2. CASE seq = rS1
      <3>1. rCopy = [i \in Word |-> wVal] /\ wVal >= rStart
        BY <1>7, <2>2 DEF SeqInv, WriterInv, ReaderInv, ReadCheck
      <3>2. RecordIsWhole'
        BY <1>7, <2>2, <3>1 DEF SeqInv, WriterInv, ReaderInv, RecordIsWhole, ReadCheck, seqWriter
      <3>3. QED BY <1>7, <2>1, <2>2, <3>2, Zenon DEF SeqInv, ReaderInv, ReadCheck, seqWriter
    <2>3. CASE seq # rS1
      BY <1>7, <2>1, <2>3, Zenon DEF SeqInv, ReaderInv, RecordIsWhole, ReadCheck, Retry, seqWriter
    <2>4. QED BY <2>2, <2>3, Zenon
  <1>8. CASE UNCHANGED seqVars
    BY <1>8, Zenon DEF SeqInv, WriterInv, ReaderInv, RecordIsWhole, seqVars, seqWriter, seqReader
  <1>9. QED BY <1>1, <1>2, <1>3, <1>4, <1>5, <1>6, <1>7, <1>8, Zenon DEF SeqNext

\* ecm_xst_read never returns a torn record, nor one older than the record that
\* was complete when it was called, for any number of words and however the
\* stores, loads and retries interleave.
THEOREM SeqlockCorrect == SeqSpec => []RecordIsWhole
  <1>1. SeqInv => RecordIsWhole
    BY Zenon DEF SeqInv, ReaderInv
  <1>2. QED BY SeqInitInv, SeqNextInv, <1>1, PTL DEF SeqSpec

-----------------------------------------------------------------------------
(* EscNode.                                                                *)

\* Besides OP itself, two things lead to OP later and so need outputs already
\* now: got_valid_outputs, and a delayed OP the slave has accepted (AL control
\* asks for OP in SAFEOP and no error came up).
Backed(n, s) ==
  /\ n.gvo => s
  /\ n.al = "OP" => s
  /\ n.al = "SAFEOP" /\ n.ctl = "OP" /\ n.code = "NOERROR" => s

OpInv == node \in EscNode /\ seen \in BOOLEAN /\ Backed(node, seen)

\* What a step from n to m leaves of the history s without new outputs.
Entered(n, m, s) == IF m.al = "SAFEOP" /\ n.al # "SAFEOP" THEN FALSE ELSE s

-----------------------------------------------------------------------------
(* The assignments of the program keep the type.                           *)

\* Registers and flags the state machine and the watchdog set.
LEMMA NodeUpdates ==
  ASSUME NEW n \in EscNode
  PROVE  /\ [n EXCEPT !.ok = TRUE] \in EscNode
         /\ [n EXCEPT !.run = FALSE, !.ok = FALSE] \in EscNode
         /\ [n EXCEPT !.age = 0, !.run = TRUE, !.ok = TRUE] \in EscNode
         /\ [n EXCEPT !.al = "SAFEOP", !.code = "SYNCMANWATCHDOG", !.gvo = FALSE] \in EscNode
         /\ [n EXCEPT !.gvo = TRUE] \in EscNode
  <1>1. [n EXCEPT !.ok = TRUE] \in EscNode
    BY Zenon DEF EscNode
  <1>2. [n EXCEPT !.run = FALSE, !.ok = FALSE] \in EscNode
    BY ZenonT(40) DEF EscNode
  <1>3. [n EXCEPT !.age = 0, !.run = TRUE, !.ok = TRUE] \in EscNode
    <2>1. 0 \in 0 .. WdTime + 1
      BY EscAssumption
    <2>2. \A a \in 0 .. WdTime + 1 : [n EXCEPT !.age = a, !.run = TRUE, !.ok = TRUE] \in EscNode
      BY Zenon DEF EscNode
    <2>3. QED BY <2>1, <2>2, Zenon
  <1>4. [n EXCEPT !.al = "SAFEOP", !.code = "SYNCMANWATCHDOG", !.gvo = FALSE] \in EscNode
    BY Zenon DEF EscNode, Esm, AlCode
  <1>5. [n EXCEPT !.gvo = TRUE] \in EscNode
    BY Zenon DEF EscNode
  <1>6. QED BY <1>1, <1>2, <1>3, <1>4, <1>5, Zenon

\* esc_wd_check keeps the type, and an expired watchdog takes the outputs back.
LEMMA WdCheckKeeps ==
  ASSUME NEW n \in EscNode, NEW s \in BOOLEAN, Backed(n, s)
  PROVE  WdCheck(n) \in EscNode /\ Backed(WdCheck(n), Entered(n, WdCheck(n), s))
  <1>1. WdCheck(n) \in EscNode
    BY NodeUpdates, Zenon DEF WdCheck
  <1>2. Backed(WdCheck(n), Entered(n, WdCheck(n), s))
    BY EscAssumption DEF EscNode, WdCheck, Backed, Entered, Esm, AlCode
  <1>3. QED BY <1>1, <1>2, Zenon

\* esc_al_control_write grants or accepts OP only with valid outputs, and
\* forgets them on the way into SAFEOP.
LEMMA AlControlKeeps ==
  ASSUME NEW n \in EscNode, NEW s \in BOOLEAN, Backed(n, s), NEW to \in Esm, NEW ack \in BOOLEAN
  PROVE  LET m == AlControlWrite(n, to, ack) IN m \in EscNode /\ Backed(m, Entered(n, m, s))
  <1> DEFINE c == [n EXCEPT !.ctl = to]
  <1>1. c \in EscNode
    BY Zenon DEF EscNode
  <1>2. \A m \in EscNode, w \in AlCode : [m EXCEPT !.code = w] \in EscNode
    BY Zenon DEF EscNode
  <1>3. \A m \in EscNode : [m EXCEPT !.rej = IF @.sticky THEN @ ELSE NoReject] \in EscNode
    BY DEF EscNode, Rejection
  <1>4. \A m \in EscNode : [m EXCEPT !.al = to, !.code = "NOERROR", !.gvo = IF to = "SAFEOP" THEN FALSE ELSE @] \in EscNode
    <2>1. \A m \in EscNode, g \in BOOLEAN : [m EXCEPT !.al = to, !.code = "NOERROR", !.gvo = g] \in EscNode
      BY ZenonT(40) DEF EscNode, AlCode
    <2>2. \A m \in EscNode : (IF to = "SAFEOP" THEN FALSE ELSE m.gvo) \in BOOLEAN
      BY Zenon DEF EscNode
    <2>3. QED BY <2>1, <2>2, Zenon
  <1>5. AlControlWrite(n, to, ack) \in EscNode
    BY <1>1, <1>2, <1>3, <1>4, Zenon DEF AlControlWrite, Refuse, AlCode
  <1>6. Backed(AlControlWrite(n, to, ack), Entered(n, AlControlWrite(n, to, ack), s))
    BY DEF EscNode, AlControlWrite, Refuse, ValidTransition, NoReject, Rejection, Backed, Entered, Esm, AlCode
  <1>7. QED BY <1>5, <1>6, Zenon

\* Every other datagram than valid process data leaves the history to
\* esc_al_control_write.
LEMMA DatagramKeeps ==
  ASSUME NEW n \in EscNode, NEW s \in BOOLEAN, Backed(n, s), NEW d \in Datagrams
  PROVE  LET m == ApplyDatagram(n, d) IN
         /\ m \in EscNode
         /\ Backed(m, IF d.op = "pd" /\ d.valid THEN TRUE ELSE Entered(n, m, s))
  <1>1. CASE d.op = "al"
    <2>1. d.to \in Esm /\ d.ack \in BOOLEAN
      BY <1>1, Zenon DEF Datagrams
    <2>2. QED BY <1>1, <2>1, AlControlKeeps, Zenon DEF ApplyDatagram
  <1>2. CASE d.op = "pd"
    <2> DEFINE m == IF d.complete THEN WdOnWrite(n) ELSE n
    <2>1. m \in EscNode /\ m.gvo = n.gvo /\ m.al = n.al /\ m.ctl = n.ctl /\ m.code = n.code
      <3>1. m = n \/ m = [n EXCEPT !.age = 0, !.run = TRUE, !.ok = TRUE]
        BY Zenon DEF WdOnWrite
      <3>2. m \in EscNode
        BY <3>1, NodeUpdates, Zenon
      <3>3. CASE m = n
        BY <3>2, <3>3, Zenon
      <3>4. CASE m = [n EXCEPT !.age = 0, !.run = TRUE, !.ok = TRUE]
        BY <3>2, <3>4, ZenonT(40) DEF EscNode
      <3>5. QED BY <3>1, <3>3, <3>4
    <2>2. ApplyDatagram(n, d) = IF d.valid THEN [m EXCEPT !.gvo = TRUE] ELSE m
      BY <1>2, Zenon DEF ApplyDatagram
    <2>3. CASE d.valid
      <3>1. ApplyDatagram(n, d) \in EscNode
        BY <2>1, <2>2, <2>3, NodeUpdates, Zenon
      <3>2. QED BY <1>2, <2>3, <3>1, Zenon DEF Backed
    <2>4. CASE ~d.valid
      <3>1. Backed(m, Entered(n, m, s))
        BY <2>1, Zenon DEF Backed, Entered
      <3>2. QED BY <2>1, <2>2, <2>4, <3>1, Zenon
    <2>5. QED BY <2>3, <2>4, Zenon
  <1>3. CASE d.op = "sm"
    <2>1. d.sm \in BOOLEAN /\ d.pd \in BOOLEAN
      BY <1>3, Zenon DEF Datagrams
    <2>2. ApplyDatagram(n, d) \in EscNode
      BY <1>3, <2>1, Zenon DEF ApplyDatagram, EscNode
    <2>3. QED BY <1>3, <2>2, Zenon DEF ApplyDatagram, EscNode, Backed, Entered
  <1>4. CASE d.op = "wdtime"
    <2>1. d.t \in {0, WdTime}
      BY <1>4, Zenon DEF Datagrams
    <2>2. ApplyDatagram(n, d) \in EscNode
      BY <1>4, <2>1, Zenon DEF ApplyDatagram, EscNode
    <2>3. QED BY <1>4, <2>2, Zenon DEF ApplyDatagram, EscNode, Backed, Entered
  <1>5. CASE d.op = "other"
    BY <1>5, Zenon DEF ApplyDatagram, Backed, Entered
  <1>6. QED BY <1>1, <1>2, <1>3, <1>4, <1>5, Zenon DEF Datagrams

\* The drive enters OP only where esc_al_control_write has accepted it.
LEMMA DriveKeeps ==
  ASSUME NEW n \in EscNode, NEW s \in BOOLEAN, Backed(n, s)
  PROVE  LET m == DriveStep(n) IN m \in EscNode /\ Backed(m, Entered(n, m, s))
  <1> DEFINE m == [n EXCEPT !.dly = OpDelay > 0]
  <1>1. m \in EscNode /\ m.gvo = n.gvo /\ m.al = n.al /\ m.ctl = n.ctl /\ m.code = n.code /\ m.wait = n.wait
    <2>1. \A x \in BOOLEAN : LET k == [n EXCEPT !.dly = x] IN
            k \in EscNode /\ k.gvo = n.gvo /\ k.al = n.al /\ k.ctl = n.ctl /\ k.code = n.code /\ k.wait = n.wait
      BY Zenon DEF EscNode
    <2>2. (OpDelay > 0) \in BOOLEAN
      OBVIOUS
    <2>3. QED BY <2>1, <2>2, Zenon
  <1>2. [m EXCEPT !.al = "OP", !.code = "NOERROR", !.wait = 0] \in EscNode
    <2>1. \A w \in 0 .. OpDelay : [m EXCEPT !.al = "OP", !.code = "NOERROR", !.wait = w] \in EscNode
      BY <1>1, ZenonT(40) DEF EscNode, Esm, AlCode
    <2>2. 0 \in 0 .. OpDelay
      BY EscAssumption
    <2>3. QED BY <2>1, <2>2, Zenon
  <1>3. m.wait + 1 < OpDelay => [m EXCEPT !.wait = @ + 1] \in EscNode
    <2>1. m.wait + 1 < OpDelay => m.wait + 1 \in 0 .. OpDelay
      BY <1>1, EscAssumption DEF EscNode
    <2>2. \A w \in 0 .. OpDelay : [m EXCEPT !.wait = w] \in EscNode
      BY <1>1, Zenon DEF EscNode
    <2>3. QED BY <2>1, <2>2, Zenon
  <1>4. [m EXCEPT !.wait = 0] \in EscNode
    <2>1. \A w \in 0 .. OpDelay : [m EXCEPT !.wait = w] \in EscNode
      BY <1>1, Zenon DEF EscNode
    <2>2. 0 \in 0 .. OpDelay
      BY EscAssumption
    <2>3. QED BY <2>1, <2>2, Zenon
  <1>5. m.wait \in Nat
    BY <1>1, EscAssumption DEF EscNode
  <1>6. DriveStep(n) \in EscNode
    BY <1>2, <1>3, <1>4, <1>5, EscAssumption DEF DriveStep
  <1>7. Backed(DriveStep(n), Entered(n, DriveStep(n), s))
    BY <1>1, EscAssumption DEF DriveStep, EscNode, Backed, Entered
  <1>8. QED BY <1>6, <1>7, Zenon

\* History that two parts of a frame leave is left by the frame.
LEMMA EnteredChain ==
  ASSUME NEW n \in EscNode, NEW a \in EscNode, NEW m \in EscNode, NEW s \in BOOLEAN,
         Backed(m, Entered(a, m, Entered(n, a, s)))
  PROVE  Backed(m, Entered(n, m, s))
  BY Zenon DEF Backed, Entered

-----------------------------------------------------------------------------
\* A frame in which the watchdog, the datagram and the drive act one after the
\* other.
LEMMA FrameInv ==
  ASSUME OpInv, NEW d \in Datagrams, NEW reached \in BOOLEAN, Frame(d, reached)
  PROVE  OpInv'
  <1> DEFINE a == WdCheck(node)
             b == IF reached THEN ApplyDatagram(a, d) ELSE a
             valid == reached /\ d.op = "pd" /\ d.valid
             sa == Entered(node, a, seen)
             sb == IF valid THEN TRUE ELSE Entered(a, b, sa)
  <1>1. a \in EscNode /\ sa \in BOOLEAN /\ Backed(a, sa)
    BY WdCheckKeeps, Zenon DEF OpInv, Entered
  <1>2. b \in EscNode /\ sb \in BOOLEAN /\ Backed(b, sb)
    <2>1. CASE reached
      <3>1. LET m == ApplyDatagram(a, d) IN
            m \in EscNode /\ Backed(m, IF d.op = "pd" /\ d.valid THEN TRUE ELSE Entered(a, m, sa))
        BY <1>1, DatagramKeeps, Zenon
      <3>2. QED BY <1>1, <2>1, <3>1, Zenon DEF Entered
    <2>2. CASE ~reached
      BY <1>1, <2>2, Zenon DEF Entered
    <2>3. QED BY <2>1, <2>2, Zenon
  <1>3. node' = IF reached /\ d.op = "pd" THEN DriveStep(b) ELSE b
    BY Zenon DEF Frame
  <1>4. seen' = IF valid THEN TRUE ELSE Entered(node, node', seen)
    BY Zenon DEF Frame, Entered
  <1>5. node' \in EscNode /\ Backed(node', IF valid THEN TRUE ELSE Entered(b, node', sb))
    BY <1>2, <1>3, DriveKeeps, Zenon DEF Backed, Entered
  <1>6. seen' \in BOOLEAN
    BY <1>4, Zenon DEF OpInv, Entered
  <1>7. CASE valid
    BY <1>4, <1>5, <1>6, <1>7, Zenon DEF OpInv
  <1>8. CASE ~valid
    <2>1. Backed(node', Entered(b, node', Entered(a, b, sa)))
      BY <1>5, <1>8, Zenon
    <2>2. Backed(node', Entered(a, node', sa))
      BY <1>1, <1>2, <1>5, <2>1, EnteredChain, Zenon
    <2>3. Backed(node', Entered(node, node', seen))
      BY <1>1, <1>5, <2>2, EnteredChain, ZenonT(40) DEF OpInv
    <2>4. QED BY <1>4, <1>5, <1>6, <1>8, <2>3, Zenon DEF OpInv
  <1>9. QED BY <1>7, <1>8, Zenon

\* Power on, and the record after it.
LEMMA PowerOnType == PowerOn \in EscNode /\ ~PowerOn.gvo /\ PowerOn.al = "INIT"
  BY EscAssumption DEF PowerOn, EscNode, Esm, AlCode, Rejection, NoReject

\* Faults, time and power.
LEMMA OtherInv ==
  ASSUME OpInv,
         Elapse \/ InjectSafeop \/ InjectReject \/ ClearFaults \/ DropNode \/ RestoreNode
  PROVE  OpInv'
  <1>1. CASE Elapse
    <2>1. node.age + 1 \in 0 .. WdTime + 1
      BY <1>1, EscAssumption DEF Elapse, OpInv, EscNode
    <2>2. \A x \in 0 .. WdTime + 1 : [node EXCEPT !.age = x] \in EscNode
      BY Zenon DEF OpInv, EscNode
    <2>3. node' \in EscNode
      BY <1>1, <2>1, <2>2, Zenon DEF Elapse
    <2>4. QED BY <1>1, <2>3, Zenon DEF Elapse, OpInv, Backed, EscNode
  <1>2. CASE InjectSafeop
    <2>1. node' \in EscNode
      BY <1>2, ZenonT(40) DEF InjectSafeop, OpInv, EscNode, Esm, AlCode
    <2>2. QED BY <1>2, <2>1 DEF InjectSafeop, OpInv, Backed, EscNode, Esm
  <1>3. CASE InjectReject
    <2>1. node' \in EscNode
      BY <1>3 DEF InjectReject, OpInv, EscNode
    <2>2. QED BY <1>3, <2>1 DEF InjectReject, OpInv, Backed, EscNode
  <1>4. CASE ClearFaults
    <2>1. node' \in EscNode
      BY <1>4, Zenon DEF ClearFaults, OpInv, EscNode, Rejection
    <2>2. QED BY <1>4, <2>1, Zenon DEF ClearFaults, OpInv, Backed, EscNode
  <1>5. CASE DropNode \/ RestoreNode
    <2>1. \A w \in 0 .. OpDelay, o \in BOOLEAN : [PowerOn EXCEPT !.on = o, !.wait = w] \in EscNode
      BY PowerOnType, ZenonT(40) DEF EscNode
    <2>2. \A w \in 0 .. OpDelay : [PowerOn EXCEPT !.wait = w] \in EscNode
      BY PowerOnType, Zenon DEF EscNode
    <2>3. node.wait \in 0 .. OpDelay
      BY Zenon DEF OpInv, EscNode
    <2>4. node' \in EscNode
      BY <1>5, <2>1, <2>2, <2>3, Zenon DEF DropNode, RestoreNode
    <2>5. ~node'.gvo /\ node'.al = "INIT"
      BY <1>5, Zenon DEF DropNode, RestoreNode, PowerOn
    <2>6. QED BY <1>5, <2>4, <2>5, Zenon DEF DropNode, RestoreNode, OpInv, Backed
  <1>6. QED BY <1>1, <1>2, <1>3, <1>4, <1>5, Zenon

\* The invariant is inductive.
LEMMA OpInvHolds == EscSpec => []OpInv
  <1>1. EscInit => OpInv
    <2>1. \A x \in BOOLEAN : [PowerOn EXCEPT !.dly = x] \in EscNode
      BY PowerOnType, Zenon DEF EscNode
    <2>2. (OpDelay > 0) \in BOOLEAN
      OBVIOUS
    <2>3. QED BY <2>1, <2>2, ZenonT(40) DEF EscInit, OpInv, Backed, PowerOn
  <1>2. OpInv /\ [EscNext]_escVars => OpInv'
    <2>1. CASE UNCHANGED escVars
      BY <2>1, ZenonT(40) DEF OpInv, Backed, escVars
    <2>2. QED BY <2>1, FrameInv, OtherInv, Zenon DEF EscNext
  <1>3. QED BY <1>1, <1>2, PTL DEF EscSpec

\* A slave of soft_bus is in OP only if outputs reached it since it last entered
\* SAFEOP, for every watchdog time, delay of OP and set of rejections, through any
\* order of datagrams, watchdog reactions, faults and power cycles.
THEOREM OpIsBacked == EscSpec => []OpOnlyAfterOutputs
  <1>1. OpInv => OpOnlyAfterOutputs
    BY Zenon DEF OpInv, Backed, OpOnlyAfterOutputs
  <1>2. QED BY OpInvHolds, <1>1, PTL

-----------------------------------------------------------------------------
\* The watchdog of a slave in OP has expired.
Expired(n) == n.al = "OP" /\ n.sm /\ n.wdt # 0 /\ n.run /\ n.age > n.wdt

\* An expired watchdog ends OP with an error and without valid outputs.
LEMMA ExpiredEndsOp ==
  ASSUME NEW n \in EscNode, Expired(n)
  PROVE  LET a == WdCheck(n) IN a.al = "SAFEOP" /\ a.code = "SYNCMANWATCHDOG" /\ ~a.gvo
  BY EscAssumption, Zenon DEF EscNode, WdCheck, Expired

\* Nothing in the rest of the frame leads back to OP.
LEMMA StaysOutOfOp ==
  ASSUME NEW a \in EscNode, a.al = "SAFEOP", a.code = "SYNCMANWATCHDOG", ~a.gvo, NEW d \in Datagrams
  PROVE  LET b == ApplyDatagram(a, d) IN b.al # "OP" /\ (d.op = "pd" => DriveStep(b).al # "OP")
  <1>1. CASE d.op = "al"
    <2>1. AlControlWrite(a, d.to, d.ack).al # "OP"
      BY <1>1, Zenon DEF EscNode, AlControlWrite, Refuse, ValidTransition, NoReject, Esm, AlCode, Datagrams
    <2>2. QED BY <1>1, <2>1, Zenon DEF ApplyDatagram
  <1>2. CASE d.op = "pd"
    <2> DEFINE b == ApplyDatagram(a, d)
    <2>1. b \in EscNode /\ b.al = "SAFEOP" /\ b.code = "SYNCMANWATCHDOG"
      <3> DEFINE m == IF d.complete THEN WdOnWrite(a) ELSE a
      <3>1. m = a \/ m = [a EXCEPT !.age = 0, !.run = TRUE, !.ok = TRUE]
        BY Zenon DEF WdOnWrite
      <3>2. m \in EscNode
        BY <3>1, NodeUpdates, Zenon
      <3>3. m.al = "SAFEOP" /\ m.code = "SYNCMANWATCHDOG"
        BY <3>1, <3>2, ZenonT(40) DEF EscNode
      <3>4. b = m \/ b = [m EXCEPT !.gvo = TRUE]
        BY <1>2, Zenon DEF ApplyDatagram
      <3>5. b \in EscNode
        BY <3>2, <3>4, NodeUpdates, Zenon
      <3>6. QED BY <3>2, <3>3, <3>4, <3>5 DEF EscNode
    <2>2. DriveStep(b).al = "SAFEOP"
      BY <2>1, Zenon DEF DriveStep, EscNode
    <2>3. QED BY <2>1, <2>2, Zenon
  <1>3. CASE d.op \in {"sm", "wdtime", "other"}
    BY <1>3, Zenon DEF ApplyDatagram, EscNode
  <1>4. QED BY <1>1, <1>2, <1>3, Zenon DEF Datagrams

\* No step keeps a slave with an expired watchdog in OP but those that touch
\* nothing except the armed rejection.
LEMMA SilentStep ==
  ASSUME OpInv, EscNext, Expired(node)
  PROVE  node'.al # "OP" \/ node' = [node EXCEPT !.rej = node'.rej]
  <1> node \in EscNode
    BY Zenon DEF OpInv
  <1>1. ASSUME NEW d \in Datagrams, NEW reached \in BOOLEAN, Frame(d, reached)
        PROVE  node'.al # "OP"
    <2> DEFINE a == WdCheck(node)
    <2>1. a.al = "SAFEOP" /\ a.code = "SYNCMANWATCHDOG" /\ ~a.gvo
      BY ExpiredEndsOp, SMTT(30)
    <2>2. a \in EscNode
      BY NodeUpdates, Zenon DEF WdCheck
    <2>3. LET b == ApplyDatagram(a, d) IN b.al # "OP" /\ (d.op = "pd" => DriveStep(b).al # "OP")
      BY <2>1, <2>2, StaysOutOfOp, Zenon
    <2>4. QED BY <1>1, <2>1, <2>3, Zenon DEF Frame
  <1>2. ~Elapse
    BY EscAssumption DEF Elapse, Expired, EscNode
  <1>3. InjectSafeop \/ DropNode \/ RestoreNode => node'.al # "OP"
    <2>1. InjectSafeop => node'.al = "SAFEOP"
      BY Zenon DEF InjectSafeop, Expired, EscNode
    <2>2. DropNode \/ RestoreNode => node'.al = "INIT"
      BY Zenon DEF DropNode, RestoreNode, PowerOn
    <2>3. QED BY <2>1, <2>2, Zenon
  <1>4. InjectReject \/ ClearFaults => node' = [node EXCEPT !.rej = node'.rej]
    <2>1. \A x : [node EXCEPT !.rej = x] = [node EXCEPT !.rej = [node EXCEPT !.rej = x].rej]
      BY Zenon DEF EscNode
    <2>2. \E x : InjectReject \/ ClearFaults => node' = [node EXCEPT !.rej = x]
      BY Zenon DEF InjectReject, ClearFaults
    <2>3. QED BY <2>1, <2>2, Zenon
  <1>5. QED BY <1>1, <1>2, <1>3, <1>4, Zenon DEF EscNext

\* A slave in OP whose buffer was last completed longer ago than its watchdog
\* time does not leave the next frame in OP, whatever the datagram is, for every
\* watchdog time.
THEOREM SilentSlaveLeavesOp == EscSpec => SilentOutputsEndOp
  <1>1. OpInv /\ [EscNext]_escVars =>
          [Expired(node) => node'.al # "OP" \/ node' = [node EXCEPT !.rej = node'.rej]]_escVars
    BY SilentStep, Zenon
  <1>2. QED BY OpInvHolds, <1>1, PTL DEF EscSpec, SilentOutputsEndOp, Expired

-----------------------------------------------------------------------------
(* EscMailbox.                                                             *)

\* c is the counter of the n-th new response.
Wound(n, c) == \/ n = 0 /\ c = 0
               \/ c \in 1 .. CntMax /\ \E k \in Nat : n = k * CntMax + c

Sm1 == [box : Nat, cnt : Nat, full : BOOLEAN, held : BOOLEAN, active : BOOLEAN]
Inj == [lose : BOOLEAN, dup : BOOLEAN, again : BOOLEAN, delay : BOOLEAN, emcy : Nat]

\* The slave is less than one turn of the counter ahead of the master.
Ahead(b) == b \in Sm1 /\ Wound(b.box, b.cnt) /\ b.box >= mst.taken /\ b.box < mst.taken + CntMax

MbxInv ==
  /\ inj \in Inj
  /\ mst \in [cnt : Nat, taken : Nat, lost : Nat, wrong : BOOLEAN]
  /\ Ahead(sm1) /\ Wound(mst.taken, mst.cnt) /\ ~mst.wrong

\* Counters on different turns are at least a turn apart.
LEMMA TurnsApart ==
  ASSUME NEW h \in Nat, NEW k \in Nat, NEW c \in Nat, k < h
  PROVE  k * c + c <= h * c
  <1>1. PICK e \in Nat : h = k + 1 + e
    <2>1. h - k - 1 \in Nat /\ h = k + 1 + (h - k - 1)
      OBVIOUS
    <2>2. QED BY <2>1, Zenon
  <1>2. h * c = k * c + c + e * c /\ e * c >= 0 /\ k * c \in Nat
    BY <1>1
  <1>3. QED BY <1>2

\* Within one turn the counter tells two responses apart.
LEMMA WoundIsUnique ==
  ASSUME NEW m \in Nat, NEW n \in Nat, NEW c, Wound(m, c), Wound(n, c), m <= n, n < m + CntMax
  PROVE  m = n
  <1> USE MbxAssumption
  <1>1. CASE c = 0
    BY <1>1 DEF Wound
  <1>2. CASE c # 0
    <2>1. PICK k \in Nat : m = k * CntMax + c
      BY <1>2, Zenon DEF Wound
    <2>2. PICK h \in Nat : n = h * CntMax + c
      BY <1>2, Zenon DEF Wound
    <2>3. c \in Nat /\ k * CntMax \in Nat /\ h * CntMax \in Nat
      BY <1>2 DEF Wound
    <2>4. ~(k < h)
      <3>1. SUFFICES ASSUME k < h PROVE FALSE
        BY Zenon
      <3>2. k * CntMax + CntMax <= h * CntMax
        BY <3>1, TurnsApart, Zenon
      <3> HIDE DEF Wound
      <3>3. QED BY <2>1, <2>2, <2>3, <3>2
    <2>5. ~(h < k)
      <3>1. SUFFICES ASSUME h < k PROVE FALSE
        BY Zenon
      <3>2. h * CntMax + CntMax <= k * CntMax
        BY <3>1, TurnsApart, Zenon
      <3>3. QED BY <2>1, <2>2, <2>3, <3>2
    <2>6. h = k
      BY <2>4, <2>5
    <2>7. QED BY <2>1, <2>2, <2>6, Zenon
  <1>3. QED BY <1>1, <1>2, Zenon

\* A response has one counter.
LEMMA SameCount ==
  ASSUME NEW n \in Nat, NEW c, NEW d, Wound(n, c), Wound(n, d)
  PROVE  c = d
  <1> USE MbxAssumption
  <1>1. ASSUME c \in 1 .. CntMax, NEW k \in Nat, n = k * CntMax + c PROVE n > 0
    <2>1. k * CntMax \in Nat
      OBVIOUS
    <2>2. QED BY <1>1, <2>1
  <1>2. ASSUME d \in 1 .. CntMax, NEW k \in Nat, n = k * CntMax + d PROVE n > 0
    <2>1. k * CntMax \in Nat
      OBVIOUS
    <2>2. QED BY <1>2, <2>1
  <1>3. CASE n = 0
    BY <1>1, <1>2, <1>3 DEF Wound
  <1>4. CASE n # 0
    <2>1. c \in 1 .. CntMax /\ d \in 1 .. CntMax
      BY <1>4, Zenon DEF Wound
    <2>2. PICK k \in Nat : n = k * CntMax + c
      BY <1>4, Zenon DEF Wound
    <2>3. PICK h \in Nat : n = h * CntMax + d
      BY <1>4, Zenon DEF Wound
    <2>4. k * CntMax \in Nat /\ h * CntMax \in Nat
      OBVIOUS
    <2>5. k < h => k * CntMax + CntMax <= h * CntMax
      BY TurnsApart, Zenon
    <2>6. h < k => h * CntMax + CntMax <= k * CntMax
      BY TurnsApart, Zenon
    <2>7. ~(k < h) /\ ~(h < k)
      BY <2>1, <2>2, <2>3, <2>4, <2>5, <2>6
    <2>8. k = h
      BY <2>7
    <2>9. QED BY <2>1, <2>2, <2>3, <2>4, <2>8
  <1>5. QED BY <1>3, <1>4, Zenon

\* resp_cnt: the next response has the next counter.
LEMMA NextCount ==
  ASSUME NEW n \in Nat, NEW c \in Nat, Wound(n, c), NEW d, d = (c % CntMax) + 1
  PROVE  d \in Nat /\ Wound(n + 1, d)
  <1> USE MbxAssumption
  <1>1. CASE n = 0 /\ c = 0
    <2>1. 0 % CntMax = 0
      OBVIOUS
    <2>2. d = 1
      BY <1>1, <2>1
    <2>3. 1 \in 1 .. CntMax /\ 1 = 0 * CntMax + 1
      OBVIOUS
    <2>4. QED BY <1>1, <2>2, <2>3 DEF Wound
  <1>2. ASSUME c \in 1 .. CntMax, NEW k \in Nat, n = k * CntMax + c
        PROVE  d \in Nat /\ Wound(n + 1, d)
    <2>0. k * CntMax \in Nat
      OBVIOUS
    <2>1. CASE c < CntMax
      <3>1. c % CntMax = c
        BY <1>2, <2>1
      <3>2. d = c + 1
        BY <3>1, Zenon
      <3>3. n + 1 = k * CntMax + d /\ d \in 1 .. CntMax
        BY <1>2, <2>0, <2>1, <3>2
      <3>4. Wound(n + 1, d)
        BY <3>3, Zenon DEF Wound
      <3>5. QED BY <3>3, <3>4
    <2>2. CASE c = CntMax
      <3>1. CntMax % CntMax = 0
        OBVIOUS
      <3>2. d = 1
        BY <2>2, <3>1
      <3>3. (k + 1) * CntMax = k * CntMax + CntMax
        OBVIOUS
      <3>4. n + 1 = (k + 1) * CntMax + d /\ d \in 1 .. CntMax /\ k + 1 \in Nat
        BY <1>2, <2>0, <2>2, <3>2, <3>3
      <3>5. Wound(n + 1, d)
        BY <3>4, Zenon DEF Wound
      <3>6. QED BY <3>4, <3>5
    <2>3. QED BY <1>2, <2>1, <2>2
  <1>3. QED BY <1>1, <1>2, Zenon DEF Wound

\* A new response leaves the slave less than a turn ahead.
LEMMA NewIsAhead ==
  ASSUME MbxInv, NEW b, Ahead(b), Room(b)
  PROVE  Ahead(NewResponse(b))
  <1> USE MbxAssumption
  <1>1. b \in Sm1 /\ mst.taken \in Nat /\ b.box \in Nat /\ b.cnt \in Nat
    BY Zenon DEF MbxInv, Ahead, Sm1
  <1> DEFINE d == (b.cnt % CntMax) + 1
             n == b.box + 1
  <1>2. Wound(b.box + 1, d) /\ d \in Nat
    BY <1>1, NextCount, Zenon DEF Ahead
  <1>3. NewResponse(b) = [b EXCEPT !.box = n, !.cnt = d] /\ n \in Nat
    BY <1>1 DEF NewResponse, Sm1
  <1> HIDE DEF d, n
  <1>4. NewResponse(b) \in Sm1 /\ NewResponse(b).box = n /\ NewResponse(b).cnt = d
    BY <1>1, <1>2, <1>3, Zenon DEF Sm1
  <1>5. b.box + 1 >= mst.taken /\ b.box + 1 < mst.taken + CntMax
    BY <1>1 DEF Ahead, Room
  <1>6. QED BY <1>2, <1>4, <1>5, Zenon DEF Ahead, n

\* The flags of the mailbox do not matter.
LEMMA FlagsAside ==
  ASSUME NEW b \in Sm1, Ahead(b), NEW f \in BOOLEAN
  PROVE  /\ Ahead([b EXCEPT !.full = f]) /\ Ahead([b EXCEPT !.held = f]) /\ Ahead([b EXCEPT !.active = f])
  BY Zenon DEF Ahead, Sm1

\* What every frame does first (the duplicate, an EMCY, the held response) leaves
\* the slave less than a turn ahead.
LEMMA BeginIsAhead ==
  ASSUME MbxInv, NEW released \in BOOLEAN
  PROVE  /\ Ahead(Begin(released)) /\ Begin(released) \in Sm1
         /\ InjBegin(released) \in Inj
  <1> DEFINE b == [sm1 EXCEPT !.full = @ \/ inj.again]
             c == IF EmcyNow(b) THEN PostEmcy(b) ELSE b
  <1>1. sm1 \in Sm1 /\ Ahead(sm1) /\ inj.again \in BOOLEAN /\ sm1.full \in BOOLEAN
    BY Zenon DEF MbxInv, Ahead, Sm1, Inj
  <1>2. Ahead(b) /\ b \in Sm1
    BY <1>1, FlagsAside, Zenon DEF Ahead
  <1>3. Ahead(c) /\ c \in Sm1
    <2>1. CASE EmcyNow(b)
      <3>1. Ahead(NewResponse(b)) /\ NewResponse(b) \in Sm1
        BY <1>2, <2>1, NewIsAhead, Zenon DEF EmcyNow, Ahead
      <3>2. QED BY <2>1, <3>1, FlagsAside, Zenon DEF PostEmcy, Ahead
    <2>2. CASE ~EmcyNow(b)
      BY <1>2, <2>2, Zenon
    <2>3. QED BY <2>1, <2>2, Zenon
  <1>4. Begin(released) = [c EXCEPT !.full = @ \/ released, !.held = @ /\ ~released]
    BY Zenon DEF Begin
  <1>5. InjBegin(released) = [inj EXCEPT !.again = FALSE, !.emcy = IF EmcyNow(b) THEN @ - 1 ELSE @]
    BY Zenon DEF InjBegin
  <1>6. EmcyNow(b) => inj.emcy > 0
    BY Zenon DEF EmcyNow
  <1> HIDE DEF b, c
  <1>7. Ahead(Begin(released)) /\ Begin(released) \in Sm1
    BY <1>3, <1>4, Zenon DEF Ahead, Sm1
  <1>8. InjBegin(released) \in Inj
    <2>1. inj \in Inj /\ inj.emcy \in Nat
      BY Zenon DEF MbxInv, Inj
    <2>2. CASE EmcyNow(b)
      <3>1. inj.emcy - 1 \in Nat
        BY <1>6, <2>1, <2>2
      <3>2. InjBegin(released) = [inj EXCEPT !.again = FALSE, !.emcy = inj.emcy - 1]
        BY <1>5, <2>2, <2>1, Zenon DEF Inj
      <3>3. QED BY <2>1, <3>1, <3>2, Zenon DEF Inj
    <2>3. CASE ~EmcyNow(b)
      <3>2. InjBegin(released) = [inj EXCEPT !.again = FALSE]
        BY <1>5, <2>3, <2>1, Zenon DEF Inj
      <3>3. QED BY <2>1, <3>2, Zenon DEF Inj
    <2>4. QED BY <2>2, <2>3, Zenon
  <1>9. QED BY <1>7, <1>8, Zenon

\* Frames that leave the master alone.
LEMMA SlaveMoves ==
  ASSUME MbxInv, UNCHANGED mst, Ahead(sm1'),
         inj' \in Inj
  PROVE  MbxInv'
  BY Zenon DEF MbxInv, Ahead

\* Every frame and every step of the slave's mailbox keeps the invariant.
LEMMA MbxStep ==
  ASSUME MbxInv, [MbxNext]_mbxVars
  PROVE  MbxInv'
  <1> USE MbxAssumption
  <1>1. ASSUME NEW released \in BOOLEAN, OtherFrame(released) PROVE MbxInv'
    BY <1>1, BeginIsAhead, SlaveMoves, Zenon DEF OtherFrame
  <1>2. ASSUME NEW released \in BOOLEAN, SilentFrame(released) PROVE MbxInv'
    BY <1>2, BeginIsAhead, SlaveMoves, FlagsAside, Zenon DEF SilentFrame
  <1>3. ASSUME NEW released \in BOOLEAN, RepeatFrame(released) PROVE MbxInv'
    BY <1>3, BeginIsAhead, SlaveMoves, FlagsAside, Zenon DEF RepeatFrame
  <1>4. ASSUME NEW released \in BOOLEAN, NEW download \in BOOLEAN, NEW active \in BOOLEAN,
               PostFrame(released, download, active)
        PROVE  MbxInv'
    <2> DEFINE b == [Begin(released) EXCEPT !.active = active]
               c == NewResponse(b)
    <2>1. Begin(released) \in Sm1 /\ Ahead(b) /\ b \in Sm1 /\ b.box = Begin(released).box
      BY BeginIsAhead, FlagsAside DEF Ahead, Sm1
    <2>2. Ahead(c) /\ c \in Sm1
      <3>1. Room(b)
        BY <1>4, <2>1, Zenon DEF PostFrame, Room
      <3>2. QED BY <2>1, <3>1, NewIsAhead, Zenon DEF Ahead
    <2>3. sm1' = [c EXCEPT !.held = TRUE] \/ sm1' = [c EXCEPT !.full = TRUE]
      BY <1>4, Zenon DEF PostFrame
    <2>4. Ahead([c EXCEPT !.held = TRUE]) /\ Ahead([c EXCEPT !.full = TRUE])
      BY <2>2, FlagsAside, Zenon
    <2>5. inj' = InjBegin(released) /\ mst' = mst
      BY <1>4, Zenon DEF PostFrame
    <2> HIDE DEF b, c
    <2>6. Ahead(sm1')
      BY <2>3, <2>4, Zenon
    <2>7. QED BY <2>5, <2>6, BeginIsAhead, SlaveMoves, Zenon
  <1>5. ASSUME NEW released \in BOOLEAN, NEW arrives \in BOOLEAN, ReadFrame(released, arrives) PROVE MbxInv'
    <2> DEFINE b == Begin(released)
               i == InjBegin(released)
    <2>1. Ahead(b) /\ b \in Sm1 /\ Wound(b.box, b.cnt) /\ b.box >= mst.taken /\ b.box < mst.taken + CntMax
          /\ b.box \in Nat /\ b.cnt \in Nat
      BY BeginIsAhead, Zenon DEF Ahead, Sm1
    <2>2. i \in Inj
      BY BeginIsAhead, Zenon
    <2>3. /\ sm1' = [b EXCEPT !.full = FALSE]
          /\ inj' = [i EXCEPT !.again = i.dup, !.dup = FALSE, !.lose = @ /\ ~arrives]
          /\ \/ mst' = [mst EXCEPT !.lost = b.box]
             \/ b.cnt = mst.cnt /\ mst' = [mst EXCEPT !.lost = 0, !.wrong = @ \/ b.box # mst.taken]
             \/ /\ b.cnt # mst.cnt
                /\ mst' = [mst EXCEPT !.lost = 0, !.cnt = b.cnt, !.taken = b.box, !.wrong = @ \/ b.box <= mst.taken]
      BY <1>5, Zenon DEF ReadFrame
    <2> HIDE DEF b, i
    <2>4. inj' \in Inj
      BY <2>2, <2>3, Zenon DEF Inj
    <2>5. mst \in [cnt : Nat, taken : Nat, lost : Nat, wrong : BOOLEAN] /\ Wound(mst.taken, mst.cnt) /\ ~mst.wrong
      BY Zenon DEF MbxInv
    <2>6. sm1' \in Sm1 /\ sm1'.box = b.box /\ sm1'.cnt = b.cnt
      BY <2>1, <2>3, Zenon DEF Sm1
    <2>7. CASE mst' = [mst EXCEPT !.lost = b.box]
      BY <2>1, <2>4, <2>5, <2>6, <2>7, Zenon DEF MbxInv, Ahead
    <2>8. CASE b.cnt = mst.cnt /\ mst' = [mst EXCEPT !.lost = 0, !.wrong = @ \/ b.box # mst.taken]
      <3>1. b.box = mst.taken
        BY <2>1, <2>5, <2>8, WoundIsUnique, ZenonT(40)
      <3>2. QED BY <2>1, <2>4, <2>5, <2>6, <2>8, <3>1, Zenon DEF MbxInv, Ahead
    <2>9. CASE /\ b.cnt # mst.cnt
               /\ mst' = [mst EXCEPT !.lost = 0, !.cnt = b.cnt, !.taken = b.box, !.wrong = @ \/ b.box <= mst.taken]
      <3>0. b.box # mst.taken
        BY <2>1, <2>5, <2>9, SameCount, Zenon
      <3>1. b.box > mst.taken
        BY <2>1, <2>5, <3>0
      <3> DEFINE w == mst.wrong \/ b.box <= mst.taken
      <3>2. w = FALSE
        BY <2>1, <2>5, <3>1
      <3>3. mst' = [mst EXCEPT !.lost = 0, !.cnt = b.cnt, !.taken = b.box, !.wrong = w]
        BY <2>5, <2>9, Zenon
      <3> HIDE DEF w
      <3>4. mst' = [mst EXCEPT !.lost = 0, !.cnt = b.cnt, !.taken = b.box, !.wrong = FALSE]
        BY <3>2, <3>3, Zenon
      <3>5. /\ mst' \in [cnt : Nat, taken : Nat, lost : Nat, wrong : BOOLEAN]
            /\ mst'.cnt = b.cnt /\ mst'.taken = b.box /\ ~mst'.wrong
        BY <2>1, <2>5, <3>4, Zenon
      <3>6. b.box < b.box + CntMax
        BY <2>1
      <3>7. QED BY <2>1, <2>4, <2>6, <3>5, <3>6 DEF MbxInv, Ahead
    <2>10. QED BY <2>3, <2>7, <2>8, <2>9, Zenon
  <1>6. CASE Inject
    <2>1. inj \in Inj /\ Ahead(sm1) /\ UNCHANGED <<sm1, mst>>
      BY <1>6, Zenon DEF Inject, MbxInv
    <2>2. inj' \in Inj
      <3>1. CASE inj' = [inj EXCEPT !.emcy = 1]
        BY <2>1, <3>1, Zenon DEF Inj
      <3>2. ASSUME NEW d \in BOOLEAN, \/ inj' = [inj EXCEPT !.lose = d] \/ inj' = [inj EXCEPT !.dup = d]
                                      \/ inj' = [inj EXCEPT !.delay = d]
            PROVE  inj' \in Inj
        BY <2>1, <3>2, Zenon DEF Inj
      <3>3. CASE inj' = [lose |-> FALSE, dup |-> FALSE, again |-> FALSE, delay |-> FALSE, emcy |-> 0]
        BY <3>3, Zenon DEF Inj
      <3>4. QED BY <1>6, <3>1, <3>2, <3>3, Zenon DEF Inject
    <2>3. Ahead(sm1')
      BY <2>1, Zenon DEF Ahead
    <2>4. QED BY <2>1, <2>2, <2>3, SlaveMoves, Zenon
  <1>7. CASE UNCHANGED mbxVars
    BY <1>7, Zenon DEF mbxVars, MbxInv, Ahead
  <1>8. QED BY <1>1, <1>2, <1>3, <1>4, <1>5, <1>6, <1>7, Zenon DEF MbxNext

\* For every counter range: a master that goes by Cnt takes every response at
\* most once and takes no new one for a repeat, through lost replies, repeats,
\* duplicates, held responses and EMCYs (esc_coe.c: one step of Cnt per new
\* response, the same bytes on a repeat).  The model leaves fewer than CntMax
\* responses unread; with more a counter would come round.
THEOREM CounterTellsResponsesApart == MbxSpec => []CntTellsNewFromOld
  <1>1. MbxInit => MbxInv
    BY MbxAssumption DEF MbxInit, MbxInv, Ahead, Wound, Sm1, Inj
  <1>2. MbxInv => CntTellsNewFromOld
    BY Zenon DEF MbxInv, CntTellsNewFromOld
  <1>3. QED BY <1>1, <1>2, MbxStep, PTL DEF MbxSpec

-----------------------------------------------------------------------------
(* EscProfile.                                                             *)

Legal(list, n) ==
  \A a, b \in 1 .. n :
    /\ list[a] \in DOMAIN Pdos /\ Pdos[list[a]].right
    /\ a # b => list[a] # list[b] /\ list[b] \notin Pdos[list[a]].ex

ProfInv ==
  /\ asgN \in 0 .. MaxAssign /\ asgL \in [1 .. MaxAssign -> Entries]
  /\ Legal(asgL, asgN)
  /\ profAl = "SAFEOP" => smLen = ActiveBytes

\* check_set looks at exactly the entries that become active.
LEMMA CheckSetIsLegal ==
  ASSUME NEW list \in [1 .. MaxAssign -> Entries], NEW n \in 0 .. MaxAssign,
         CheckSet(SubSeq(list, 1, n))
  PROVE  Legal(list, n)
  <1> USE ProfAssumption
  <1> DEFINE t == SubSeq(list, 1, n)
  <1>1. list \in Seq(Entries) /\ Len(list) = MaxAssign
    OBVIOUS
  <1>2. DOMAIN t = 1 .. n /\ \A a \in 1 .. n : t[a] = list[a]
    BY <1>1
  <1>3. CheckSet(t)
    BY Zenon
  <1> HIDE DEF t
  <1>4. QED BY <1>2, <1>3, Zenon DEF CheckSet, Legal

\* Every object write and state change keeps the invariant.
LEMMA ProfStep ==
  ASSUME ProfInv, [ProfNext]_profVars
  PROVE  ProfInv'
  <1> USE ProfAssumption
  <1>1. ASSUME NEW n \in 0 .. MaxAssign + 1, WriteCount(n) PROVE ProfInv'
    <2>1. n \in 0 .. MaxAssign /\ Legal(asgL, n)
      BY <1>1, CheckSetIsLegal DEF WriteCount, ProfInv
    <2>2. QED BY <1>1, <2>1, Zenon DEF WriteCount, ProfInv, Legal
  <1>2. ASSUME NEW k \in 1 .. MaxAssign, NEW p \in Entries, WriteAssigned(k, p) PROVE ProfInv'
    BY <1>2 DEF WriteAssigned, ProfInv, Legal
  <1>3. ASSUME NEW start \in 0 .. 1, NEW n \in 0 .. MaxAssign, NEW len \in 0 .. MaxAssign,
               NEW data \in [1 .. len -> Entries], WriteComplete(start, n, data)
        PROVE  ProfInv'
    <2> DEFINE count == IF start = 0 THEN n ELSE asgN
               after == [k \in 1 .. MaxAssign |-> IF k <= Len(data) THEN data[k] ELSE asgL[k]]
    <2>1. Len(data) = len
      OBVIOUS
    <2>2. count \in 0 .. MaxAssign /\ after \in [1 .. MaxAssign -> Entries]
      BY <2>1 DEF ProfInv
    <2>3. asgN' = count /\ asgL' = after /\ CheckSet(SubSeq(after, 1, count)) /\ profAl' # "SAFEOP"
      BY <1>3, Zenon DEF WriteComplete
    <2> HIDE DEF count, after
    <2>4. Legal(after, count)
      BY <2>2, <2>3, CheckSetIsLegal, Zenon
    <2>5. QED BY <2>2, <2>3, <2>4, Zenon DEF ProfInv, Legal
  <1>4. ASSUME asgN' = asgN, asgL' = asgL PROVE ActiveBytes' = ActiveBytes
    BY <1>4, Zenon DEF ActiveBytes
  <1>5. ASSUME NEW len \in 0 .. 4, EnterSafeop(len) PROVE ProfInv'
    BY <1>4, <1>5, Zenon DEF EnterSafeop, ProfInv, Legal
  <1>6. CASE LeaveSafeop
    BY <1>6, Zenon DEF LeaveSafeop, ProfInv, Legal
  <1>7. CASE UNCHANGED profVars
    BY <1>4, <1>7, Zenon DEF profVars, ProfInv, Legal
  <1>8. QED BY <1>1, <1>2, <1>3, <1>5, <1>6, <1>7, Zenon DEF ProfNext

\* For every set of PDOs and their exclusions: an active assignment has only PDOs
\* of the profile, none twice and none beside one it excludes, and in SAFEOP its
\* size is the one that was checked, whatever was stored in entries beyond the
\* count first (esc_prof_check_value, esc_prof_check_ca, esc_prof_check_pd).
THEOREM ActiveAssignmentIsLegal == ProfSpec => []AssignmentIsLegal
  <1>1. ProfInit => ProfInv
    BY ProfAssumption DEF ProfInit, ProfInv, Legal, Entries
  <1>2. ProfInv => AssignmentIsLegal
    BY Zenon DEF ProfInv, AssignmentIsLegal, Legal
  <1>3. QED BY <1>1, <1>2, ProfStep, PTL DEF ProfSpec
=============================================================================
