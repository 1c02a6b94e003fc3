----------------------------- MODULE Freshness -----------------------------
(***************************************************************************)
(* Input freshness (ecm_policy.c, fed by fresh_feed in ecm_run.c): a slave *)
(* counts its cycles in a few bits of its inputs; the master tells by the  *)
(* counter whether the inputs of an accepted reply are new, unchanged,     *)
(* stale or older than the last ones.  Replies get lost and old ones are   *)
(* taken; the slave's application may hang while its ESC still answers.    *)
(***************************************************************************)
EXTENDS Integers

CONSTANTS FreshBits,    \* 8, 16 or 32, scaled down
          StaleAfter,   \* unchanged cycles until stale
          MaxLateness,  \* how old an accepted reply may be, in cycles
          MaxCount      \* bound on the slave's cycles

Half == 2 ^ (FreshBits - 1)
FreshRange == 2 * Half

\* ecm_fresh_init makes stale_after at least 1.  A reply is at most half a range
\* late (128 cycles for the smallest counter).
ASSUME FreshAssumption ==
  /\ Half \in Nat \ {0} /\ StaleAfter \in Nat \ {0}
  /\ MaxCount \in Nat /\ MaxLateness \in Nat /\ MaxLateness <= Half

VARIABLES count,    \* cycles the slave's application has done
          fresh,    \* ecm_fresh_t: have, last, run, stale
          event,    \* what ecm_fresh_update returned
          truth     \* history, in true counts: best taken, gap of this reply to it,
                    \* replies that repeated it, whether a gap passed half the range

freshVars == <<count, fresh, event, truth>>

FreshInit ==
  /\ count \in 0 .. 1
  /\ fresh = [have |-> FALSE, last |-> 0, run |-> 0, stale |-> FALSE]
  /\ event = "none" /\ truth = [best |-> 0, gap |-> 0, same |-> 0, lost |-> FALSE]

\* The slave's application does a cycle, whether or not a frame gets through.
SlaveCycle ==
  /\ count < MaxCount /\ count' = count + 1 /\ UNCHANGED <<fresh, event, truth>>

\* A slip: the boundary itself counts as newer.
Late_Older(d) == d > Half

\* The upper half of the differences: d > (mask >> 1).
Older(d) == d >= Half

\* ecm_fresh_update: event and new state.
Update(f, v) ==
  LET d == (v - f.last) % FreshRange
  IN  IF ~f.have THEN <<"FIRST", [f EXCEPT !.have = TRUE, !.last = v]>>
      ELSE IF d = 0
      THEN IF f.run + 1 < StaleAfter THEN <<"UNCHANGED", [f EXCEPT !.run = @ + 1]>>
           ELSE <<IF f.stale THEN "STALE" ELSE "STALE_START", [f EXCEPT !.run = StaleAfter, !.stale = TRUE]>>
      ELSE IF Older(d) THEN <<"REGRESSION", f>>
      ELSE <<IF f.stale THEN "RESUMED" ELSE "OK", [f EXCEPT !.last = v, !.run = 0, !.stale = FALSE]>>

\* fresh_feed on an accepted reply, of this cycle or of one up to MaxLateness earlier.
Feed ==
  \E age \in 0 .. MaxLateness :
    /\ age <= count
    /\ \E u \in {Update(fresh, (count - age) % FreshRange)} :
         /\ event' = u[1] /\ fresh' = u[2]
         /\ \E gap \in {IF fresh.have THEN count - age - truth.best ELSE 0} :
              truth' = [best |-> IF u[1] \in {"FIRST", "OK", "RESUMED"} THEN count - age ELSE truth.best,
                        gap  |-> gap,
                        same |-> IF u[1] \in {"FIRST", "OK", "RESUMED"} THEN 0
                                 ELSE IF gap = 0 /\ truth.same < StaleAfter THEN truth.same + 1 ELSE truth.same,
                        lost |-> truth.lost \/ gap >= Half]
    /\ UNCHANGED count

FreshNext == SlaveCycle \/ Feed

FreshSpec == FreshInit /\ [][FreshNext]_freshVars

-----------------------------------------------------------------------------
\* ecm_fresh_update tells the truth while no gap reaches half the range: newer
\* inputs are never a regression, older ones never taken for new, and a slave is
\* stale exactly when StaleAfter replies repeated its newest count, old replies
\* in between or not.
VerdictIsTrue ==
  /\ truth.gap \in 1 .. Half - 1 => event \in {"OK", "RESUMED"}
  /\ truth.gap \in -Half .. -1 => event = "REGRESSION"
  /\ ~truth.lost => (fresh.stale <=> truth.same >= StaleAfter)
=============================================================================
