------------------------------- MODULE Mailbox -------------------------------
(***************************************************************************)
(* The SDO job queue (ecm_mailbox.c).  A caller builds a job on its own    *)
(* stack, queues a pointer to it and waits on the job's condition variable *)
(* until the worker has executed it, or until the SOEM timeout plus a      *)
(* margin has passed; then the job is gone, whoever still points to it.    *)
(* Time is discrete; the SOEM call takes at most Timeout units and threads *)
(* that can run do so before time passes.                                  *)
(***************************************************************************)
EXTENDS Integers, Sequences

CONSTANTS Callers,       \* threads that call ecm_mailbox_sdo_read/write
          QueueLen,      \* ECM_MBX_JOB_QUEUE_LEN
          Timeout,       \* timeout_us of every job
          Margin,        \* what submit_and_wait adds to it
          MaxCalls       \* bound on the calls of a caller

ASSUME MailboxAssumption == QueueLen \in Nat \ {0} /\ Timeout \in Nat \ {0} /\ Margin \in Nat /\ MaxCalls \in Nat

VARIABLES queue,         \* jobs, oldest first: [c |-> caller, n |-> its n-th call]
          call,          \* call[c]: number of the current or last call
          waiting,       \* waiting[c]: in submit_and_wait; its job exists
          age,           \* age[c]: how long it has waited
          done,          \* done[c]: job->done
          rc,            \* rc[c]: what the last call returned
          wpc,           \* worker: "check", "pop", "exec", "signal", "stopped"
          job,           \* worker: the job in hand
          spent,         \* worker: how long the SOEM call has taken
          stop,          \* *stop_flag
          executed,      \* history: executed[c] is the set of calls executed
          sure           \* history: sure[c], the margin covered what was ahead of c's last call

mbVars == <<queue, call, waiting, age, done, rc, wpc, job, spent, stop, executed, sure>>
caller == <<call, waiting, age, done, rc>>
worker == <<wpc, job, spent>>

NoJob == [c |-> "none", n |-> 0]
Jobs  == [c : Callers, n : 1 .. MaxCalls]

\* The job object exists, and is the one the pointer was made for.
Alive(j) == waiting[j.c] /\ call[j.c] = j.n

MbInit ==
  /\ queue = <<>> /\ stop = FALSE /\ wpc = "check" /\ job = NoJob /\ spent = 0
  /\ call = [c \in Callers |-> 0] /\ waiting = [c \in Callers |-> FALSE]
  /\ age = [c \in Callers |-> 0] /\ done = [c \in Callers |-> FALSE]
  /\ rc = [c \in Callers |-> "none"] /\ executed = [c \in Callers |-> {}]
  /\ sure = [c \in Callers |-> FALSE]

-----------------------------------------------------------------------------
(* Callers.                                                                *)

HasRoom(q) == Len(q) < QueueLen

\* The jobs queued or in hand take less than the margin, each at most Timeout, and
\* none of them is left from an earlier call of c.
Covers(c) ==
  /\ (Len(queue) + IF job = NoJob THEN 0 ELSE 1) * Timeout < Margin
  /\ job.c # c /\ \A i \in DOMAIN queue : queue[i].c # c

\* The job is queued, or the call fails at once.
queue_push(c) ==
  /\ ~waiting[c] /\ call[c] < MaxCalls
  /\ call' = [call EXCEPT ![c] = @ + 1]
  /\ IF HasRoom(queue)
     THEN /\ queue' = Append(queue, [c |-> c, n |-> call[c] + 1])
          /\ waiting' = [waiting EXCEPT ![c] = TRUE]
          /\ done' = [done EXCEPT ![c] = FALSE]
          /\ age' = [age EXCEPT ![c] = 0]
          /\ rc' = rc
     ELSE /\ rc' = [rc EXCEPT ![c] = "full"]
          /\ UNCHANGED <<queue, waiting, done, age>>
  /\ sure' = [sure EXCEPT ![c] = Covers(c)]
  /\ UNCHANGED <<worker, stop, executed>>

\* Mutant of Deadline: no margin.
Bare_Deadline(c) == age[c] = Timeout

Deadline(c) == age[c] = Timeout + Margin

Return(c, r) ==
  /\ rc' = [rc EXCEPT ![c] = r]
  /\ waiting' = [waiting EXCEPT ![c] = FALSE]
  /\ done' = [done EXCEPT ![c] = FALSE] /\ age' = [age EXCEPT ![c] = 0]
  /\ UNCHANGED <<queue, call, worker, stop, executed, sure>>

\* The worker's signal arrives; the SDO worked or failed.
Wake(c) ==
  /\ waiting[c] /\ done[c]
  /\ \E r \in {"ok", "failed"} : Return(c, r)

\* Mutant of TimedOut: the wait has no deadline.
Endless_TimedOut(c) == FALSE /\ Return(c, "timeout")

\* The timed wait ends; a signal of the same moment does not change that.
TimedOut(c) ==
  /\ waiting[c] /\ Deadline(c)
  /\ Return(c, "timeout")

-----------------------------------------------------------------------------
(* The worker, on ecm_run's mailbox thread.                                *)

Check ==
  /\ wpc = "check"
  /\ wpc' = IF stop THEN "stopped" ELSE "pop"
  /\ UNCHANGED <<queue, caller, job, spent, stop, executed, sure>>

\* The oldest job, or none after the poll.
queue_pop ==
  /\ wpc = "pop"
  /\ IF queue = <<>> THEN wpc' = "check" /\ UNCHANGED <<queue, job, spent>>
     ELSE wpc' = "exec" /\ job' = Head(queue) /\ queue' = Tail(queue) /\ spent' = 0
  /\ UNCHANGED <<caller, stop, executed, sure>>

\* The SOEM call returns, within its timeout; wkc, size and data are written
\* into the job.
execute_job ==
  /\ wpc = "exec" /\ wpc' = "signal"
  /\ executed' = [executed EXCEPT ![job.c] = @ \cup {job.n}]
  /\ UNCHANGED <<queue, caller, job, spent, stop, sure>>

\* done_mtx, done and done_cv of the job are used.  The memory of a job that
\* is gone may hold the caller's next job.
job_signal_done ==
  /\ wpc = "signal"
  /\ done' = [done EXCEPT ![job.c] = @ \/ waiting[job.c]]
  /\ wpc' = "check" /\ job' = NoJob /\ spent' = 0
  /\ UNCHANGED <<queue, call, waiting, age, rc, stop, executed, sure>>

-----------------------------------------------------------------------------
Stop ==
  /\ ~stop /\ stop' = TRUE
  /\ UNCHANGED <<queue, caller, worker, executed, sure>>

\* Nothing that can run at once is left: the worker executes, or polls an
\* empty queue, or has stopped.
Quiet ==
  /\ \A c \in Callers : ~(waiting[c] /\ (done[c] \/ Deadline(c)))
  /\ \/ wpc = "exec" /\ spent < Timeout
     \/ wpc = "pop" /\ queue = <<>> /\ ~stop
     \/ wpc = "stopped"

TimePasses ==
  /\ Quiet /\ \E c \in Callers : waiting[c]
  /\ age' = [c \in Callers |-> IF waiting[c] THEN age[c] + 1 ELSE 0]
  /\ spent' = IF wpc = "exec" THEN spent + 1 ELSE spent
  /\ UNCHANGED <<queue, call, waiting, done, rc, wpc, job, stop, executed, sure>>

Worker == Check \/ queue_pop \/ execute_job \/ job_signal_done

MbNext ==
  \/ \E c \in Callers : queue_push(c) \/ Wake(c) \/ TimedOut(c)
  \/ Check \/ queue_pop \/ execute_job \/ job_signal_done
  \/ Stop \/ TimePasses

MbSpec == MbInit /\ [][MbNext]_mbVars

-----------------------------------------------------------------------------
\* submit_and_wait and execute_job: a call that was queued while the margin covered
\* the jobs ahead of it, as it does on an idle mailbox, is never given up while the
\* worker holds its job; and when it returns with the worker's answer its own job
\* was executed.
OwnAnswer ==
  /\ [](job # NoJob /\ sure[job.c] => Alive(job))
  /\ [][\A c \in Callers : waiting[c] /\ sure[c] /\ rc'[c] \in {"ok", "failed"} /\ ~waiting'[c]
                            => call[c] \in executed[c]]_mbVars

\* Every call returns, also when the worker has been stopped.
EveryCallReturns == \A c \in Callers : waiting[c] ~> ~waiting[c]
=============================================================================
