------------------------------ MODULE BusOwner ------------------------------
(***************************************************************************)
(* What the handover of the bus in RECOVER promises (ecm_run.c, comment of *)
(* the fault policy globals; docs/fault_policy.md 5.2): the bus has one    *)
(* owner, process data belongs to the RT thread, and it is taken up again  *)
(* only on a verdict of the monitor, which is read exactly once.           *)
(***************************************************************************)
VARIABLES
  owner,     \* who may send: the RT thread or the monitor
  serving,   \* process data is being exchanged
  verdict    \* an answer of the monitor the RT thread has not acted on

ownerVars == <<owner, serving, verdict>>

OwnerInit == owner = "rt" /\ serving = TRUE /\ verdict = "none"

\* Too many frames are missing.
Lose ==
  /\ serving /\ owner = "rt"
  /\ serving' = FALSE
  /\ UNCHANGED <<owner, verdict>>

\* The bus answers a probe.
HandOver ==
  /\ ~serving /\ owner = "rt" /\ verdict = "none"
  /\ owner' = "monitor"
  /\ UNCHANGED <<serving, verdict>>

\* The recovery is over.
Answer ==
  /\ owner = "monitor"
  /\ owner' = "rt"
  /\ verdict' \in {"ok", "failed"}
  /\ UNCHANGED serving

\* The RT thread acts on the answer.
Act ==
  /\ owner = "rt" /\ verdict # "none"
  /\ serving' = (verdict = "ok")
  /\ verdict' = "none"
  /\ UNCHANGED owner

OwnerNext == Lose \/ HandOver \/ Answer \/ Act

OwnerSpec == OwnerInit /\ [][OwnerNext]_ownerVars
=============================================================================
