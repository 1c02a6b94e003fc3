-------------------------- MODULE Counting_proofs --------------------------
(***************************************************************************)
(* Theorems that rest on counting threads: the windows of the telemetry    *)
(* thread, MatchesOutside for every number of threads that open windows;   *)
(* and the jobs of the mailbox thread, OwnAnswer for every number of       *)
(* callers, every length of the queue, every timeout and every margin: the *)
(* jobs ahead of a job are counted when it is queued.                      *)
(***************************************************************************)
EXTENDS TelemetryWindow, Mailbox, FiniteSetTheorems, TLAPS

-----------------------------------------------------------------------------
(* TelemetryWindow.                                                        *)

\* The threads inside a window.
In == {o \in Openers : win[o] = "in"}

\* g_excl_depth counts the threads inside a window, so 0 means that there is
\* none; the windows a poll has been inside from its start are among them.
WinInv ==
  /\ win \in [Openers -> {"out", "begin", "in"}]
  /\ g_excl_depth = Cardinality(In)
  /\ inside \subseteq In
  /\ MatchesOutside

\* The windows are finitely many.
LEMMA InFinite == IsFiniteSet(In) /\ Cardinality(In) \in Nat
  <1>1. IsFiniteSet(In)
    BY WindowAssumption, FS_Subset, Zenon DEF In
  <1>2. QED BY <1>1, FS_CardinalityType, Zenon

\* One more window, or one less.
LEMMA DepthFollows ==
  ASSUME WinInv, NEW o \in Openers
  PROVE  /\ BeginDepth(o) => g_excl_depth' = Cardinality(In')
         /\ End(o) => g_excl_depth' = Cardinality(In')
  <1>1. ASSUME BeginDepth(o) PROVE g_excl_depth' = Cardinality(In')
    <2>1. In' = In \cup {o} /\ o \notin In
      BY <1>1, Zenon DEF In, BeginDepth, WinInv
    <2>2. Cardinality(In \cup {o}) = Cardinality(In) + 1
      BY <2>1, InFinite, FS_AddElement, Zenon
    <2>3. QED BY <1>1, <2>1, <2>2 DEF BeginDepth, WinInv
  <1>2. ASSUME End(o) PROVE g_excl_depth' = Cardinality(In')
    <2>1. In' = In \ {o} /\ o \in In
      BY <1>2, Zenon DEF In, End, WinInv
    <2>2. Cardinality(In \ {o}) = Cardinality(In) - 1
      BY <2>1, InFinite, FS_RemoveElement, Zenon
    <2>3. QED BY <1>2, <2>1, <2>2, Zenon DEF End, WinInv
  <1>3. QED BY <1>1, <1>2, Zenon

\* Every step of the openers and of the poll keeps the invariant.
LEMMA WinNextInv == WinInv /\ [WinNext]_winVars => WinInv'
  <1> SUFFICES ASSUME WinInv, [WinNext]_winVars PROVE WinInv'
    BY Zenon
  <1>1. ASSUME NEW o \in Openers, BeginGen(o) PROVE WinInv'
    <2>1. In' = In
      BY <1>1, Zenon DEF In, BeginGen, WinInv
    <2>2. QED BY <1>1, <2>1, Zenon DEF BeginGen, WinInv, MatchesOutside, telemetry
  <1>2. ASSUME NEW o \in Openers, BeginDepth(o) PROVE WinInv'
    <2>1. In \subseteq In'
      BY <1>2, Zenon DEF In, BeginDepth, WinInv
    <2>2. QED BY <1>2, <2>1, DepthFollows, ZenonT(40) DEF BeginDepth, WinInv, MatchesOutside, telemetry
  <1>3. ASSUME NEW o \in Openers, SendForeign(o) PROVE WinInv'
    BY <1>3, Zenon DEF SendForeign, WinInv, MatchesOutside, In, opener, telemetry
  <1>4. ASSUME NEW o \in Openers, End(o) PROVE WinInv'
    <2>1. In' = In \ {o}
      BY <1>4, Zenon DEF In, End, WinInv
    <2>2. QED BY <1>4, <2>1, DepthFollows, Zenon DEF End, WinInv, MatchesOutside, telemetry
  <1>5. CASE LoadGen
    BY <1>5, Zenon DEF LoadGen, WinInv, MatchesOutside, In, opener
  <1>6. CASE LoadDepth
    <2>1. g_excl_depth = 0 => In = {}
      BY InFinite, FS_EmptySet, Zenon DEF WinInv
    <2>2. g_excl_depth \in Nat
      BY InFinite, Zenon DEF WinInv
    <2>3. MatchesOutside'
      BY <1>6, <2>1, <2>2 DEF LoadDepth, WinInv, MatchesOutside
    <2>4. QED BY <1>6, <2>3, Zenon DEF LoadDepth, WinInv, In, opener
  <1>7. CASE Discard \/ MatchPoll
    BY <1>7, Zenon DEF Discard, MatchPoll, WinInv, MatchesOutside, In, opener
  <1>8. CASE UNCHANGED winVars
    BY <1>8, Zenon DEF WinInv, MatchesOutside, In, winVars, opener, telemetry
  <1>9. QED BY <1>1, <1>2, <1>3, <1>4, <1>5, <1>6, <1>7, <1>8, SMTT(30) DEF WinNext, Poll

\* A poll that pairs completions with arrivals has at no moment since its start
\* been inside a window, for any number of threads and any overlap of windows.
THEOREM WindowsNest == WinSpec => []MatchesOutside
  <1>1. WinInit => WinInv
    <2>1. ASSUME WinInit PROVE In = {}
      BY <2>1, Zenon DEF WinInit, In
    <2>2. QED BY <2>1, FS_EmptySet, ZenonT(40) DEF WinInit, WinInv, MatchesOutside
  <1>2. WinInv => MatchesOutside
    BY Zenon DEF WinInv
  <1>3. QED BY <1>1, <1>2, WinNextInv, PTL DEF WinSpec

-----------------------------------------------------------------------------
(* Mailbox.                                                                *)

\* How many jobs are ahead of the i-th of the queue.
InHand   == IF job = NoJob THEN 0 ELSE 1
Ahead(i) == i - 1 + InHand

\* What the queue and the worker may hold.
Pointer == [c : Callers, n : Nat \ {0}]

MbTypes ==
  /\ call \in [Callers -> Nat] /\ age \in [Callers -> Nat] /\ DOMAIN rc = Callers
  /\ waiting \in [Callers -> BOOLEAN] /\ done \in [Callers -> BOOLEAN]
  /\ sure \in [Callers -> BOOLEAN] /\ DOMAIN executed = Callers
  /\ queue \in Seq(Pointer) /\ Len(queue) <= QueueLen
  /\ wpc \in {"check", "pop", "exec", "signal", "stopped"} /\ spent \in 0 .. Timeout
  /\ IF wpc \in {"exec", "signal"} THEN job \in Pointer ELSE job = NoJob /\ spent = 0

\* A job in hand or in the queue of a caller whose last call was covered has the
\* caller waiting for it; what it has waited and what the jobs ahead of it may still
\* take stays below the margin.
OwnJob(j) == Alive(j) /\ ~done[j.c]

OnTime ==
  /\ job # NoJob /\ sure[job.c] =>
       /\ OwnJob(job) /\ age[job.c] < Margin + spent
       /\ \A i \in 1 .. Len(queue) : queue[i].c # job.c
  /\ \A i \in 1 .. Len(queue) : sure[queue[i].c] =>
       /\ OwnJob(queue[i]) /\ age[queue[i].c] + (Ahead(i) * Timeout) < Margin + spent
       /\ \A k \in 1 .. Len(queue) : queue[k].c = queue[i].c => k = i

\* An answer was given.
Answered ==
  /\ wpc = "signal" => job.n \in executed[job.c]
  /\ \A c \in Callers : waiting[c] /\ done[c] /\ sure[c] => call[c] \in executed[c]

MbInv == MbTypes /\ Answered /\ (wpc # "stopped" => OnTime)

\* What waits in the queue are jobs.
LEMMA QueuedJob ==
  ASSUME MbTypes, NEW i \in 1 .. Len(queue)
  PROVE  queue[i].c \in Callers /\ queue[i].n \in Nat /\ Len(queue) \in Nat
  <1>1. queue \in Seq(Pointer)
    BY Zenon DEF MbTypes
  <1>2. queue[i] \in Pointer /\ Len(queue) \in Nat
    BY <1>1
  <1>3. QED BY <1>2, Zenon DEF Pointer

\* Nobody holds a job of c, and what the step leaves of the other callers.
Free(c) == (job # NoJob => job.c # c) /\ \A i \in 1 .. Len(queue) : queue[i].c # c
Same(d) == waiting'[d] = waiting[d] /\ call'[d] = call[d] /\ age'[d] = age[d] /\ done'[d] = done[d] /\ sure'[d] = sure[d]

\* A covered caller whose job is done or too old has none left.
LEMMA ReturnIsFree ==
  ASSUME MbTypes, OnTime, NEW c \in Callers, sure[c], done[c] \/ Deadline(c)
  PROVE  Free(c)
  <1>0. /\ Timeout \in Nat /\ Margin \in Nat /\ spent \in Nat /\ spent <= Timeout
        /\ age[c] \in Nat /\ InHand \in 0 .. 1
    BY MailboxAssumption DEF MbTypes, InHand
  <1>1. CASE done[c]
    BY <1>1, Zenon DEF OnTime, Free, OwnJob
  <1>2. CASE Deadline(c)
    <2>1. age[c] = Timeout + Margin
      BY <1>2, Zenon DEF Deadline
    <2>2. ASSUME job # NoJob, job.c = c PROVE FALSE
      <3>1. age[c] < Margin + spent
        BY <2>2, Zenon DEF OnTime
      <3>2. QED BY <1>0, <2>1, <3>1
    <2>3. ASSUME NEW i \in 1 .. Len(queue), queue[i].c = c PROVE FALSE
      <3>1. age[c] + (Ahead(i) * Timeout) < Margin + spent
        BY <2>3, Zenon DEF OnTime
      <3>2. Ahead(i) \in Nat
        BY <1>0, QueuedJob DEF Ahead
      <3>3. Ahead(i) * Timeout \in Nat
        <4> HIDE DEF Ahead
        <4>1. QED BY <1>0, <3>2
      <3>4. QED BY <1>0, <2>1, <3>1, <3>3
    <2>4. QED BY <2>2, <2>3, Zenon DEF Free
  <1>3. QED BY <1>1, <1>2, Zenon

\* What happens to a caller without a job is of no concern to the jobs.
LEMMA OthersOnTime ==
  ASSUME MbTypes, OnTime, NEW c, sure'[c] => Free(c), \A d \in Callers \ {c} : Same(d), UNCHANGED <<queue, job, spent>>
  PROVE  OnTime'
  <1>1. ASSUME NEW j, j.c \in Callers, j.c # c PROVE age'[j.c] = age[j.c] /\ (OwnJob(j) <=> OwnJob(j)') /\ (sure'[j.c] <=> sure[j.c])
    BY <1>1, Zenon DEF Same, OwnJob, Alive
  <1>2. job # NoJob => job.c \in Callers
    BY DEF MbTypes, Pointer
  <1>3. InHand' = InHand /\ \A i : Ahead(i)' = Ahead(i)
    BY DEF InHand, Ahead
  <1>4. \A i \in 1 .. Len(queue) : queue[i].c \in Callers
    BY QueuedJob, Zenon
  <1>5. ASSUME job # NoJob, sure'[job.c]
        PROVE  OwnJob(job)' /\ age'[job.c] < Margin + spent /\ \A i \in 1 .. Len(queue) : queue[i].c # job.c
    <2>1. job.c # c /\ sure[job.c]
      BY <1>1, <1>2, <1>5, Zenon DEF Free
    <2>2. OwnJob(job) /\ age[job.c] < Margin + spent /\ \A i \in 1 .. Len(queue) : queue[i].c # job.c
      BY <1>5, <2>1, Zenon DEF OnTime
    <2>3. OwnJob(job)' /\ age'[job.c] = age[job.c]
      BY <1>1, <1>2, <1>5, <2>1, <2>2, Zenon
    <2>4. QED BY <2>2, <2>3, Zenon
  <1>6. ASSUME NEW i \in 1 .. Len(queue), sure'[queue[i].c]
        PROVE  /\ OwnJob(queue[i])' /\ age'[queue[i].c] + (Ahead(i) * Timeout) < Margin + spent
               /\ \A k \in 1 .. Len(queue) : queue[k].c = queue[i].c => k = i
    <2>1. queue[i].c # c /\ sure[queue[i].c]
      BY <1>1, <1>4, <1>6, Zenon DEF Free
    <2>2. /\ OwnJob(queue[i]) /\ age[queue[i].c] + (Ahead(i) * Timeout) < Margin + spent
          /\ \A k \in 1 .. Len(queue) : queue[k].c = queue[i].c => k = i
      BY <2>1, Zenon DEF OnTime
    <2>3. OwnJob(queue[i])' /\ age'[queue[i].c] = age[queue[i].c]
      BY <1>1, <1>4, <2>1, <2>2, Zenon
    <2>4. QED BY <2>2, <2>3, Zenon
  <1>7. QED BY <1>3, <1>5, <1>6, Zenon DEF OnTime

\* Nothing is queued at the start.
LEMMA MbInitInv == MbInit => MbInv
  <1> SUFFICES ASSUME MbInit PROVE MbInv
    BY Zenon
  <1>1. MbTypes
    BY MailboxAssumption DEF MbInit, MbTypes
  <1>2. Answered
    BY Zenon DEF MbInit, Answered
  <1>3. OnTime
    BY DEF MbInit, OnTime
  <1>4. QED BY <1>1, <1>2, <1>3, Zenon DEF MbInv

\* queue_push: the new job is behind the others, or there is none.
LEMMA PushKeeps == ASSUME MbInv, NEW c \in Callers, queue_push(c) PROVE MbInv'
  <1> DEFINE j == [c |-> c, n |-> call[c] + 1]
  <1>0. MbTypes /\ Answered /\ (wpc # "stopped" => OnTime) /\ ~waiting[c]
    BY Zenon DEF MbInv, queue_push
  <1>1. UNCHANGED <<wpc, job, spent, stop, executed>> /\ call' = [call EXCEPT ![c] = @ + 1]
    BY Zenon DEF queue_push, worker
  <1>4. sure' \in [Callers -> BOOLEAN] /\ (sure'[c] <=> Covers(c)) /\ \A d \in Callers \ {c} : sure'[d] = sure[d]
    <2>1. Covers(c) \in BOOLEAN
      BY Zenon DEF Covers
    <2>2. sure' = [sure EXCEPT ![c] = Covers(c)] /\ sure \in [Callers -> BOOLEAN]
      BY <1>0, Zenon DEF queue_push, MbTypes
    <2>3. QED BY <2>1, <2>2
  <1>5. Covers(c) => Free(c)
    <2>1. DOMAIN queue = 1 .. Len(queue)
      BY <1>0 DEF MbTypes
    <2>2. QED BY <2>1, Zenon DEF Covers, Free
  <1>2. CASE ~HasRoom(queue)
    <2>1. UNCHANGED <<queue, waiting, done, age>> /\ rc' = [rc EXCEPT ![c] = "full"]
      BY <1>2, Zenon DEF queue_push
    <2>2. MbTypes'
      BY <1>0, <1>1, <1>4, <2>1 DEF MbTypes
    <2>3. Answered'
      BY <1>0, <1>1, <1>4, <2>1 DEF Answered, MbTypes
    <2>4. ASSUME wpc # "stopped" PROVE OnTime'
      <3>1. \A d \in Callers \ {c} : Same(d)
        BY <1>0, <1>1, <1>4, <2>1 DEF Same, MbTypes
      <3>2. QED BY <1>0, <1>1, <1>4, <1>5, <2>1, <2>4, <3>1, OthersOnTime, Zenon
    <2>5. QED BY <1>1, <2>2, <2>3, <2>4, Zenon DEF MbInv
  <1>3. CASE HasRoom(queue)
    <2>1. /\ queue' = Append(queue, j) /\ rc' = rc
          /\ waiting' = [waiting EXCEPT ![c] = TRUE] /\ done' = [done EXCEPT ![c] = FALSE] /\ age' = [age EXCEPT ![c] = 0]
      BY <1>3, Zenon DEF queue_push
    <2>2. j \in Pointer /\ j.c = c /\ j.n = call[c] + 1 /\ j.n \in Nat
      BY <1>0 DEF MbTypes, Pointer
    <2> HIDE DEF j
    <2>3. /\ queue \in Seq(Pointer) /\ Len(queue) \in Nat /\ Len(queue) < QueueLen
          /\ queue' \in Seq(Pointer) /\ Len(queue') = Len(queue) + 1 /\ queue'[Len(queue) + 1] = j
          /\ \A i \in 1 .. Len(queue) : queue'[i] = queue[i]
      BY <1>0, <1>3, <2>1, <2>2 DEF MbTypes, HasRoom
    <2>4. MbTypes'
      <3>1. /\ call' \in [Callers -> Nat] /\ age' \in [Callers -> Nat] /\ DOMAIN rc' = Callers
            /\ waiting' \in [Callers -> BOOLEAN] /\ done' \in [Callers -> BOOLEAN] /\ DOMAIN executed' = Callers
        BY <1>0, <1>1, <2>1 DEF MbTypes
      <3>2. Len(queue') <= QueueLen
        BY <2>3, MailboxAssumption
      <3>3. QED BY <1>0, <1>1, <1>4, <2>3, <3>1, <3>2, Zenon DEF MbTypes
    <2>5. Answered'
      BY <1>0, <1>1, <1>4, <2>1 DEF Answered, MbTypes
    <2>6. ASSUME wpc # "stopped" PROVE OnTime'
      <3>1. OnTime
        BY <1>0, <2>6, Zenon
      <3>2. \A d \in Callers \ {c} : Same(d)
        BY <1>0, <1>1, <1>4, <2>1 DEF Same, MbTypes
      <3>3. waiting'[c] /\ call'[c] = j.n /\ age'[c] = 0 /\ ~done'[c]
        BY <1>0, <1>1, <2>1, <2>2 DEF MbTypes
      <3>4. InHand' = InHand /\ InHand \in 0 .. 1 /\ \A i : Ahead(i)' = Ahead(i)
        BY <1>1 DEF InHand, Ahead
      <3>5. ASSUME job # NoJob, sure'[job.c]
            PROVE  /\ OwnJob(job)' /\ age'[job.c] < Margin + spent
                   /\ \A i \in 1 .. Len(queue') : queue'[i].c # job.c
        <4>1. job.c \in Callers \ {c}
          BY <1>0, <1>4, <1>5, <3>5 DEF MbTypes, Free, Pointer
        <4>2. OwnJob(job) /\ age[job.c] < Margin + spent /\ \A i \in 1 .. Len(queue) : queue[i].c # job.c
          BY <1>4, <3>1, <3>5, <4>1, Zenon DEF OnTime
        <4>3. OwnJob(job)' /\ age'[job.c] = age[job.c]
          BY <1>1, <3>2, <4>1, <4>2, Zenon DEF Same, OwnJob, Alive
        <4>4. ASSUME NEW i \in 1 .. Len(queue') PROVE queue'[i].c # job.c
          <5>1. i \in 1 .. Len(queue) \/ i = Len(queue) + 1
            BY <2>3
          <5>2. QED BY <2>2, <2>3, <4>1, <4>2, <5>1, Zenon
        <4>5. QED BY <4>2, <4>3, <4>4, Zenon
      <3>6. ASSUME NEW i \in 1 .. Len(queue'), sure'[queue'[i].c]
            PROVE  /\ OwnJob(queue[i])' /\ age'[queue'[i].c] + (Ahead(i) * Timeout) < Margin + spent
                   /\ \A k \in 1 .. Len(queue') : queue'[k].c = queue'[i].c => k = i
        <4>1. CASE i \in 1 .. Len(queue)
          <5>1. queue[i].c \in Callers \ {c} /\ queue'[i] = queue[i]
            BY <1>0, <1>4, <1>5, <2>3, <3>6, <4>1, QueuedJob, Zenon DEF Free
          <5>2. /\ OwnJob(queue[i]) /\ age[queue[i].c] + (Ahead(i) * Timeout) < Margin + spent
                /\ \A k \in 1 .. Len(queue) : queue[k].c = queue[i].c => k = i
            BY <1>4, <3>1, <3>6, <4>1, <5>1, Zenon DEF OnTime
          <5>3. OwnJob(queue[i])' /\ age'[queue'[i].c] = age[queue[i].c]
            BY <3>2, <5>1, <5>2, Zenon DEF Same, OwnJob, Alive
          <5>4. ASSUME NEW k \in 1 .. Len(queue'), queue'[k].c = queue'[i].c PROVE k = i
            <6>1. k \in 1 .. Len(queue) \/ k = Len(queue) + 1
              BY <2>3
            <6>2. QED BY <2>2, <2>3, <5>1, <5>2, <5>4, <6>1, Zenon
          <5>5. QED BY <5>2, <5>3, <5>4, Zenon
        <4>2. CASE i = Len(queue) + 1
          <5>1. queue'[i] = j
            BY <2>3, <4>2, Zenon
          <5>2. OwnJob(queue[i])' /\ age'[queue'[i].c] = 0
            BY <2>2, <3>3, <5>1, Zenon DEF OwnJob, Alive
          <5>3. 0 + (Ahead(i) * Timeout) < Margin + spent
            <6>1. Covers(c)
              BY <1>4, <2>2, <3>6, <5>1, Zenon
            <6>2. (Len(queue) + InHand) * Timeout < Margin
              BY <6>1, Zenon DEF Covers, InHand
            <6>3. Ahead(i) = Len(queue) + InHand
              BY <2>3, <3>4, <4>2 DEF Ahead
            <6>4. Timeout \in Nat /\ spent \in Nat /\ Margin \in Nat /\ Len(queue) + InHand \in Nat
              BY <1>0, <2>3, <3>4, MailboxAssumption DEF MbTypes
            <6>5. Ahead(i) * Timeout < Margin /\ Ahead(i) \in Nat
              BY <6>2, <6>3, <6>4, Zenon
            <6> HIDE DEF Ahead
            <6>6. QED BY <6>4, <6>5
          <5>4. ASSUME NEW k \in 1 .. Len(queue'), queue'[k].c = queue'[i].c PROVE k = i
            <6>1. k \in 1 .. Len(queue) \/ k = Len(queue) + 1
              BY <2>3
            <6>2. ~(k \in 1 .. Len(queue))
              BY <1>4, <1>5, <2>2, <2>3, <3>6, <5>1, <5>4, Zenon DEF Free
            <6>3. QED BY <4>2, <6>1, <6>2, Zenon
          <5>5. QED BY <5>2, <5>3, <5>4, Zenon
        <4>3. i \in 1 .. Len(queue) \/ i = Len(queue) + 1
          BY <2>3
        <4>4. QED BY <4>1, <4>2, <4>3, Zenon
      <3>7. QED BY <1>1, <3>4, <3>5, <3>6, Zenon DEF OnTime
    <2>7. QED BY <1>1, <2>4, <2>5, <2>6, Zenon DEF MbInv
  <1>6. QED BY <1>2, <1>3, Zenon

\* submit_and_wait returns, with an answer or without.
LEMMA ReturnKeeps ==
  ASSUME MbInv, NEW c \in Callers, waiting[c], done[c] \/ Deadline(c), NEW r, Return(c, r)
  PROVE  MbInv'
  <1>0. MbTypes /\ Answered /\ (wpc # "stopped" => OnTime)
    BY Zenon DEF MbInv
  <1>1. /\ UNCHANGED <<queue, call, wpc, job, spent, stop, executed, sure>> /\ rc' = [rc EXCEPT ![c] = r]
        /\ waiting' = [waiting EXCEPT ![c] = FALSE] /\ done' = [done EXCEPT ![c] = FALSE] /\ age' = [age EXCEPT ![c] = 0]
    BY Zenon DEF Return, worker
  <1>2. MbTypes'
    BY <1>0, <1>1 DEF MbTypes
  <1>3. Answered'
    BY <1>0, <1>1 DEF Answered, MbTypes
  <1>4. ASSUME wpc # "stopped" PROVE OnTime'
    <2>1. sure'[c] => Free(c)
      BY <1>0, <1>1, <1>4, ReturnIsFree, Zenon
    <2>2. \A d \in Callers \ {c} : Same(d)
      BY <1>0, <1>1 DEF Same, MbTypes
    <2>3. QED BY <1>0, <1>1, <1>4, <2>1, <2>2, OthersOnTime, Zenon
  <1>5. QED BY <1>1, <1>2, <1>3, <1>4, Zenon DEF MbInv

\* A step of the worker or of nobody that leaves jobs and callers alone.
LEMMA IdleKeeps ==
  ASSUME MbInv, UNCHANGED <<queue, call, waiting, age, done, rc, job, spent, executed, sure>>,
         wpc' = wpc \/ (wpc = "check" /\ wpc' \in {"pop", "stopped"}) \/ (wpc = "pop" /\ wpc' = "check")
  PROVE  MbInv'
  <1>0. MbTypes /\ Answered /\ (wpc # "stopped" => OnTime)
    BY Zenon DEF MbInv
  <1>1. MbTypes'
    BY <1>0 DEF MbTypes
  <1>2. Answered'
    BY <1>0 DEF Answered
  <1>3. OnTime => OnTime'
    BY DEF OnTime, OwnJob, Alive, Ahead, InHand
  <1>4. QED BY <1>0, <1>1, <1>2, <1>3, Zenon DEF MbInv

\* No job is told by its number.
LEMMA NoJobIs == NoJob.n = 0
  BY DEF NoJob

\* queue_pop: the oldest job is the one in hand.
LEMMA PopKeeps == ASSUME MbInv, queue_pop PROVE MbInv'
  <1>0. MbTypes /\ Answered /\ OnTime /\ wpc = "pop" /\ job = NoJob /\ spent = 0
    BY DEF MbInv, MbTypes, queue_pop
  <1>1. UNCHANGED <<call, waiting, age, done, rc, stop, executed, sure>>
    BY Zenon DEF queue_pop, caller
  <1>2. CASE queue = <<>>
    BY <1>0, <1>1, <1>2, IdleKeeps, Zenon DEF queue_pop
  <1>3. CASE queue # <<>>
    <2>1. wpc' = "exec" /\ job' = Head(queue) /\ queue' = Tail(queue) /\ spent' = 0
      BY <1>3, Zenon DEF queue_pop
    <2>2. /\ queue \in Seq(Pointer) /\ Len(queue) \in Nat /\ Len(queue) > 0 /\ Len(queue) <= QueueLen
          /\ queue' \in Seq(Pointer) /\ Len(queue') = Len(queue) - 1 /\ job' = queue[1] /\ job' \in Pointer
          /\ \A i \in 1 .. Len(queue') : queue'[i] = queue[i + 1]
      BY <1>0, <1>3, <2>1 DEF MbTypes
    <2>3. job' # NoJob /\ InHand = 0 /\ InHand' = 1
      <3>1. job'.n # 0
        BY <2>2 DEF Pointer
      <3>2. job' # NoJob
        BY <3>1, NoJobIs, Zenon
      <3>3. QED BY <1>0, <3>2 DEF InHand
    <2>4. MbTypes'
      <3>1. Len(queue') <= QueueLen /\ spent' \in 0 .. Timeout
        BY <2>1, <2>2, MailboxAssumption
      <3>2. QED BY <1>0, <1>1, <2>1, <2>2, <3>1 DEF MbTypes
    <2>5. Answered'
      BY <1>0, <1>1, <2>1 DEF Answered
    <2>6. \A j : OwnJob(j) => OwnJob(j)'
      BY <1>1, Zenon DEF OwnJob, Alive
    <2>7. \A i \in 1 .. Len(queue) : sure[queue[i].c] =>
            /\ OwnJob(queue[i]) /\ age[queue[i].c] + (Ahead(i) * Timeout) < Margin + spent
            /\ \A k \in 1 .. Len(queue) : queue[k].c = queue[i].c => k = i
      BY <1>0, Zenon DEF OnTime
    <2>8. 1 \in 1 .. Len(queue) /\ \A i \in 1 .. Len(queue') : i \in Int /\ i + 1 \in 1 .. Len(queue) /\ i + 1 # 1
      BY <2>2
    <2>9. ASSUME sure'[job'.c]
          PROVE  /\ OwnJob(job)' /\ age'[job'.c] < Margin + spent'
                 /\ \A i \in 1 .. Len(queue') : queue'[i].c # job'.c
      <3>1. sure[queue[1].c] /\ OwnJob(queue[1]) /\ age[queue[1].c] + (Ahead(1) * Timeout) < Margin + spent
        BY <1>1, <2>2, <2>7, <2>8, <2>9, Zenon
      <3>2. age[queue[1].c] < Margin + spent
        <4>1. Ahead(1) = 0 /\ Timeout \in Nat
          BY <2>3, MailboxAssumption DEF Ahead
        <4>2. Ahead(1) * Timeout = 0
          BY <4>1
        <4>3. queue[1].c \in Callers
          BY <1>0, <2>8, QueuedJob, Zenon
        <4>4. age[queue[1].c] \in Nat
          BY <1>0, <4>3 DEF MbTypes
        <4>5. QED BY <3>1, <4>2, <4>4
      <3>3. \A i \in 1 .. Len(queue') : queue'[i].c # job'.c
        BY <2>2, <2>7, <2>8, <3>1, Zenon
      <3>4. OwnJob(job)'
        BY <1>1, <2>2, <3>1, Zenon DEF OwnJob, Alive
      <3>5. QED BY <1>0, <1>1, <2>1, <2>2, <3>2, <3>3, <3>4, Zenon
    <2>10. ASSUME NEW i \in 1 .. Len(queue'), sure'[queue'[i].c]
           PROVE  /\ OwnJob(queue[i])' /\ age'[queue'[i].c] + (Ahead(i)' * Timeout) < Margin + spent'
                  /\ \A k \in 1 .. Len(queue') : queue'[k].c = queue'[i].c => k = i
      <3>1. i + 1 \in 1 .. Len(queue) /\ queue'[i] = queue[i + 1] /\ i \in Int
        BY <2>2, <2>8, Zenon
      <3>2. /\ OwnJob(queue[i + 1]) /\ age[queue[i + 1].c] + (Ahead(i + 1) * Timeout) < Margin + spent
            /\ \A k \in 1 .. Len(queue) : queue[k].c = queue[i + 1].c => k = i + 1
        BY <1>1, <2>7, <2>10, <3>1, Zenon
      <3>3. Ahead(i + 1) = Ahead(i)'
        BY <2>3, <3>1 DEF Ahead
      <3>4. OwnJob(queue[i])'
        BY <1>1, <3>1, <3>2, Zenon DEF OwnJob, Alive
      <3>5. ASSUME NEW k \in 1 .. Len(queue'), queue'[k].c = queue'[i].c PROVE k = i
        <4>1. k + 1 \in 1 .. Len(queue) /\ queue'[k] = queue[k + 1] /\ k \in Int
          BY <2>2, <2>8, Zenon
        <4>2. k + 1 = i + 1
          BY <3>1, <3>2, <3>5, <4>1, Zenon
        <4>3. QED BY <3>1, <4>1, <4>2
      <3>6. QED BY <1>0, <1>1, <2>1, <3>1, <3>2, <3>3, <3>4, <3>5, Zenon
    <2>11. OnTime'
      BY <2>9, <2>10, Zenon DEF OnTime
    <2>12. QED BY <2>4, <2>5, <2>11, Zenon DEF MbInv
  <1>4. QED BY <1>2, <1>3, Zenon

\* execute_job.
LEMMA ExecKeeps == ASSUME MbInv, execute_job PROVE MbInv'
  <1>0. MbTypes /\ Answered /\ OnTime /\ wpc = "exec" /\ job \in Pointer /\ job.c \in Callers
    BY DEF MbInv, MbTypes, execute_job, Pointer
  <1>1. /\ UNCHANGED <<queue, call, waiting, age, done, rc, job, spent, stop, sure>> /\ wpc' = "signal"
        /\ executed' = [executed EXCEPT ![job.c] = @ \cup {job.n}]
    BY Zenon DEF execute_job, caller
  <1>2. MbTypes'
    BY <1>0, <1>1 DEF MbTypes
  <1>3. Answered'
    <2>1. DOMAIN executed = Callers
      BY <1>0, Zenon DEF MbTypes
    <2>2. job.n \in executed'[job.c] /\ \A c \in Callers : executed[c] \subseteq executed'[c]
      BY <1>0, <1>1, <2>1
    <2>3. QED BY <1>0, <1>1, <2>2, Zenon DEF Answered
  <1>4. OnTime'
    BY <1>0, <1>1 DEF OnTime, OwnJob, Alive, Ahead, InHand
  <1>5. QED BY <1>2, <1>3, <1>4, Zenon DEF MbInv

\* job_signal_done: the job in hand is answered, the others move up.
LEMMA SignalKeeps == ASSUME MbInv, job_signal_done PROVE MbInv'
  <1>0. MbTypes /\ Answered /\ OnTime /\ wpc = "signal" /\ job \in Pointer /\ job.c \in Callers
    BY DEF MbInv, MbTypes, job_signal_done, Pointer
  <1>1. /\ UNCHANGED <<queue, call, waiting, age, rc, stop, executed, sure>>
        /\ done' = [done EXCEPT ![job.c] = @ \/ waiting[job.c]] /\ wpc' = "check" /\ job' = NoJob /\ spent' = 0
    BY Zenon DEF job_signal_done
  <1>2. job # NoJob /\ InHand = 1 /\ InHand' = 0
    <2>1. job.n # 0
      BY <1>0 DEF Pointer
    <2>2. job # NoJob
      BY <2>1, NoJobIs, Zenon
    <2>3. QED BY <1>1, <2>2 DEF InHand
  <1>3. /\ sure[job.c] => Alive(job) /\ \A i \in 1 .. Len(queue) : queue[i].c # job.c
        /\ \A i \in 1 .. Len(queue) : sure[queue[i].c] =>
             /\ OwnJob(queue[i]) /\ age[queue[i].c] + (Ahead(i) * Timeout) < Margin + spent
             /\ \A k \in 1 .. Len(queue) : queue[k].c = queue[i].c => k = i
    BY <1>0, <1>2, Zenon DEF OnTime, OwnJob
  <1>4. MbTypes'
    <2>1. done' \in [Callers -> BOOLEAN]
      BY <1>0, <1>1, Zenon DEF MbTypes
    <2>2. spent' \in 0 .. Timeout
      BY <1>1, MailboxAssumption
    <2>3. QED BY <1>0, <1>1, <2>1, <2>2 DEF MbTypes
  <1>5. Answered'
    <2>1. job.n \in executed[job.c] /\ (sure[job.c] => call[job.c] = job.n)
      BY <1>0, <1>3, Zenon DEF Answered, Alive
    <2>2. \A d \in Callers : d # job.c => done'[d] = done[d]
      BY <1>0, <1>1 DEF MbTypes
    <2>3. QED BY <1>0, <1>1, <2>1, <2>2 DEF Answered
  <1>6. OnTime'
    <2>1. ASSUME NEW i \in 1 .. Len(queue), sure[queue[i].c]
          PROVE  OwnJob(queue[i])' /\ age[queue[i].c] + (Ahead(i)' * Timeout) < Margin + 0
      <3>1. queue[i].c \in Callers /\ queue[i].c # job.c /\ i \in Int
        <4>1. queue[i].c # job.c
          BY <1>3, <2>1, Zenon
        <4>2. QED BY <1>0, <4>1, QueuedJob
      <3>2. done'[queue[i].c] = done[queue[i].c]
        BY <1>0, <1>1, <3>1 DEF MbTypes
      <3>3. OwnJob(queue[i])'
        BY <1>1, <1>3, <2>1, <3>2, Zenon DEF OwnJob, Alive
      <3>4. Ahead(i) = i /\ Ahead(i)' = i - 1
        BY <1>2, <3>1 DEF Ahead
      <3>5. /\ Margin \in Nat /\ Timeout \in Nat /\ spent \in Nat /\ spent <= Timeout
            /\ age[queue[i].c] \in Nat /\ age[queue[i].c] + (i * Timeout) < Margin + spent
        <4>1. age[queue[i].c] + (i * Timeout) < Margin + spent
          BY <1>3, <2>1, <3>4, Zenon
        <4>2. QED BY <1>0, <3>1, <4>1, MailboxAssumption, SMTT(30) DEF MbTypes
      <3>6. (i - 1) * Timeout = (i * Timeout) - Timeout /\ i * Timeout \in Int
        BY <3>1, <3>5
      <3>7. QED BY <3>3, <3>4, <3>5, <3>6
    <2>2. QED BY <1>1, <1>3, <2>1, Zenon DEF OnTime
  <1>7. QED BY <1>4, <1>5, <1>6, Zenon DEF MbInv

\* Time passes only while the worker executes, has nothing to do or has stopped.
LEMMA TimeKeeps == ASSUME MbInv, TimePasses PROVE MbInv'
  <1>0. MbTypes /\ Answered /\ (wpc # "stopped" => OnTime)
    BY Zenon DEF MbInv
  <1>1. /\ UNCHANGED <<queue, call, waiting, done, rc, wpc, job, stop, executed, sure>>
        /\ age' = [c \in Callers |-> IF waiting[c] THEN age[c] + 1 ELSE 0]
        /\ spent' = IF wpc = "exec" THEN spent + 1 ELSE spent
    BY Zenon DEF TimePasses
  <1>2. (wpc = "exec" /\ spent < Timeout) \/ (wpc = "pop" /\ queue = <<>>) \/ wpc = "stopped"
    BY Zenon DEF TimePasses, Quiet
  <1>3. MbTypes'
    <2>1. age' \in [Callers -> Nat]
      BY <1>0, <1>1 DEF MbTypes
    <2>2. spent' \in 0 .. Timeout /\ (wpc # "exec" => spent' = spent)
      BY <1>0, <1>1, <1>2, MailboxAssumption DEF MbTypes
    <2>3. QED BY <1>0, <1>1, <2>1, <2>2 DEF MbTypes
  <1>4. Answered'
    BY <1>0, <1>1 DEF Answered
  <1>5. ASSUME wpc # "stopped" PROVE OnTime'
    <2>1. CASE wpc = "pop" /\ queue = <<>>
      <3>1. job' = NoJob /\ Len(queue') = 0
        BY <1>0, <1>1, <2>1 DEF MbTypes
      <3>2. QED BY <3>1 DEF OnTime
    <2>2. CASE wpc = "exec" /\ spent < Timeout
      <3>1. spent' = spent + 1 /\ spent \in Nat /\ Timeout \in Nat /\ Margin \in Nat
        BY <1>0, <1>1, <2>2, MailboxAssumption DEF MbTypes
      <3>2. \A d \in Callers : age[d] \in Nat /\ age'[d] \in Nat /\ age'[d] <= age[d] + 1
        BY <1>0, <1>1 DEF MbTypes
      <3>3. InHand' = InHand /\ (\A i : Ahead(i)' = Ahead(i)) /\ InHand \in 0 .. 1
        BY <1>1 DEF InHand, Ahead
      <3>4. ASSUME job # NoJob, sure[job.c] PROVE age'[job.c] < Margin + spent'
        <4>1. job.c \in Callers
          BY <1>0, <3>4 DEF MbTypes, Pointer
        <4>2. age[job.c] < Margin + spent
          BY <1>0, <1>5, <3>4, Zenon DEF OnTime
        <4>3. QED BY <3>1, <3>2, <4>1, <4>2
      <3>5. ASSUME NEW i \in 1 .. Len(queue), sure[queue[i].c] PROVE age'[queue[i].c] + (Ahead(i) * Timeout) < Margin + spent'
        <4>1. queue[i].c \in Callers /\ i \in Int
          BY <1>0, QueuedJob
        <4>2. age[queue[i].c] + (Ahead(i) * Timeout) < Margin + spent
          BY <1>0, <1>5, <3>5, Zenon DEF OnTime
        <4>3. Ahead(i) * Timeout \in Int
          BY <3>1, <3>3, <4>1 DEF Ahead
        <4>4. QED BY <3>1, <3>2, <4>1, <4>2, <4>3, SMTT(30)
      <3>6. \A j : OwnJob(j) => OwnJob(j)'
        BY <1>1, Zenon DEF OwnJob, Alive
      <3>7. QED BY <1>0, <1>1, <1>5, <3>3, <3>4, <3>5, <3>6, Zenon DEF OnTime
    <2>3. QED BY <1>2, <1>5, <2>1, <2>2, Zenon
  <1>6. QED BY <1>1, <1>3, <1>4, <1>5, Zenon DEF MbInv

\* Every step keeps the invariant, and an answer that is returned was given.
LEMMA MbStep == ASSUME MbInv, [MbNext]_mbVars PROVE MbInv'
  <1>1. ASSUME NEW c \in Callers, queue_push(c) PROVE MbInv'
    BY <1>1, PushKeeps, Zenon
  <1>2. ASSUME NEW c \in Callers, Wake(c) PROVE MbInv'
    BY <1>2, ReturnKeeps, Zenon DEF Wake
  <1>3. ASSUME NEW c \in Callers, TimedOut(c) PROVE MbInv'
    BY <1>3, ReturnKeeps, Zenon DEF TimedOut
  <1>4. CASE Check
    BY <1>4, IdleKeeps, Zenon DEF Check, caller
  <1>5. CASE queue_pop
    BY <1>5, PopKeeps, Zenon
  <1>6. CASE execute_job
    BY <1>6, ExecKeeps, Zenon
  <1>7. CASE job_signal_done
    BY <1>7, SignalKeeps, Zenon
  <1>8. CASE Stop
    BY <1>8, IdleKeeps, Zenon DEF Stop, caller, worker
  <1>9. CASE TimePasses
    BY <1>9, TimeKeeps, Zenon
  <1>10. CASE UNCHANGED mbVars
    BY <1>10, IdleKeeps, Zenon DEF mbVars
  <1>11. QED BY <1>1, <1>2, <1>3, <1>4, <1>5, <1>6, <1>7, <1>8, <1>9, <1>10, Zenon DEF MbNext

\* For every number of callers, length of the queue, timeout and margin: execute_job
\* and job_signal_done touch the job of a call that was covered by the margin only
\* while its caller waits in submit_and_wait, and such a call that returns ok or
\* failed was executed and got its own answer.
THEOREM AnswersAreOwn == MbSpec => OwnAnswer
  <1>1. MbInv => (job # NoJob /\ sure[job.c] => Alive(job))
    BY DEF MbInv, MbTypes, OnTime, OwnJob
  <1>2. MbInv /\ [MbNext]_mbVars =>
          [\A c \in Callers : waiting[c] /\ sure[c] /\ rc'[c] \in {"ok", "failed"} /\ ~waiting'[c]
                                    => call[c] \in executed[c]]_mbVars
    <2> SUFFICES ASSUME MbInv, MbNext, NEW c \in Callers, waiting[c], sure[c], rc'[c] \in {"ok", "failed"}, ~waiting'[c]
                 PROVE  call[c] \in executed[c]
      BY Zenon
    <2>0. MbTypes /\ Answered
      BY Zenon DEF MbInv
    <2>1. ASSUME NEW d \in Callers, queue_push(d) PROVE FALSE
      <3>1. waiting' = waiting \/ waiting' = [waiting EXCEPT ![d] = TRUE]
        BY <2>1, Zenon DEF queue_push
      <3>2. waiting \in [Callers -> BOOLEAN]
        BY <2>0, Zenon DEF MbTypes
      <3>3. ASSUME NEW f \in [Callers -> BOOLEAN], f[c] PROVE [f EXCEPT ![d] = TRUE][c]
        BY <3>3
      <3>4. QED BY <3>1, <3>2, <3>3, Zenon
    <2>2. ASSUME NEW d \in Callers, Wake(d) PROVE call[c] \in executed[c]
      <3>1. waiting' = [waiting EXCEPT ![d] = FALSE] /\ waiting[d] /\ done[d]
        BY <2>2, Zenon DEF Wake, Return
      <3>2. c = d
        BY <2>0, <3>1 DEF MbTypes
      <3>3. QED BY <2>0, <3>1, <3>2, Zenon DEF Answered
    <2>3. ASSUME NEW d \in Callers, TimedOut(d) PROVE FALSE
      <3>1. waiting' = [waiting EXCEPT ![d] = FALSE] /\ rc' = [rc EXCEPT ![d] = "timeout"]
        BY <2>3, Zenon DEF TimedOut, Return
      <3>2. c = d
        BY <2>0, <3>1 DEF MbTypes
      <3>3. rc'[c] = "timeout"
        BY <2>0, <3>1, <3>2 DEF MbTypes
      <3>4. QED BY <3>3
    <2>4. Check \/ queue_pop \/ execute_job \/ job_signal_done \/ Stop \/ TimePasses => waiting' = waiting
      BY Zenon DEF Check, queue_pop, execute_job, job_signal_done, Stop, TimePasses, caller
    <2>5. QED BY <2>1, <2>2, <2>3, <2>4, Zenon DEF MbNext
  <1>3. MbInv /\ [MbNext]_mbVars => MbInv'
    BY MbStep, Zenon
  <1>4. QED BY <1>1, <1>2, <1>3, MbInitInv, PTL DEF MbSpec, OwnAnswer
=============================================================================
