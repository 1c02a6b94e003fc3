-------------------------- MODULE TelemetryWindow --------------------------
(***************************************************************************)
(* The telemetry exclusion window (excl_begin, excl_end, the first part of *)
(* telemetry_thread_fn's loop).  A thread about to send frames that the    *)
(* tx_order ring does not describe opens a window; the telemetry thread    *)
(* discards what it sees meanwhile and resyncs its TX/RX matcher.  Every   *)
(* atomic access is a step.                                                *)
(***************************************************************************)
EXTENDS Integers, FiniteSets

CONSTANTS
  Openers,        \* threads that open windows: RT thread (LOST), monitor
  MaxWindows      \* bound on windows in a behaviour

ASSUME WindowAssumption == IsFiniteSet(Openers) /\ MaxWindows \in Nat

VARIABLES
  g_excl_gen, g_excl_depth,
  win,                      \* [Openers -> step of the opener]
  tpc, gen, depth,          \* telemetry: step of a poll, its two loads
  excl_seen_gen,
  foreign,                  \* history: frames of others since the last resync
  inside,                   \* history: windows open since the poll began
  torn                      \* history: a poll began between the two steps of
                            \* excl_begin

opener    == <<g_excl_gen, g_excl_depth, win>>
telemetry == <<tpc, gen, depth, excl_seen_gen>>
winVars   == <<opener, telemetry, foreign, inside, torn>>

WinInit ==
  /\ g_excl_gen = 0 /\ g_excl_depth = 0
  /\ win = [o \in Openers |-> "out"]
  /\ tpc = "load" /\ gen = 0 /\ depth = 0 /\ excl_seen_gen = 0
  /\ foreign = FALSE /\ inside = {} /\ torn = FALSE

-----------------------------------------------------------------------------
(* excl_begin, frames, excl_end                                            *)

BeginGen(o) ==
  /\ win[o] = "out" /\ g_excl_gen < MaxWindows
  /\ g_excl_gen' = g_excl_gen + 1
  /\ win' = [win EXCEPT ![o] = "begin"]
  /\ UNCHANGED <<g_excl_depth, telemetry, foreign, inside, torn>>

BeginDepth(o) ==
  /\ win[o] = "begin"
  /\ g_excl_depth' = g_excl_depth + 1
  /\ win' = [win EXCEPT ![o] = "in"]
  /\ UNCHANGED <<g_excl_gen, telemetry, foreign, inside, torn>>

SendForeign(o) ==
  /\ win[o] = "in" /\ ~foreign
  /\ foreign' = TRUE
  /\ UNCHANGED <<opener, telemetry, inside, torn>>

End(o) ==
  /\ win[o] = "in"
  /\ g_excl_depth' = g_excl_depth - 1
  /\ win' = [win EXCEPT ![o] = "out"]
  /\ inside' = inside \ {o}
  /\ UNCHANGED <<g_excl_gen, telemetry, foreign, torn>>

-----------------------------------------------------------------------------
(* One poll of the telemetry thread.                                       *)

LoadGen ==
  /\ tpc = "load"
  /\ gen' = g_excl_gen
  /\ tpc' = "depth"
  /\ inside' = {o \in Openers : win[o] = "in"}
  /\ torn' = (torn \/ \E o \in Openers : win[o] = "begin")
  /\ UNCHANGED <<opener, depth, excl_seen_gen, foreign>>

LoadDepth ==
  /\ tpc = "depth"
  /\ depth' = g_excl_depth
  /\ tpc' = IF g_excl_depth > 0 \/ gen # excl_seen_gen THEN "discard" ELSE "match"
  /\ UNCHANGED <<opener, gen, excl_seen_gen, foreign, inside, torn>>

\* A slip: the generation is remembered inside the window.
Early_Discard ==
  /\ tpc = "discard"
  /\ excl_seen_gen' = gen
  /\ foreign' = (foreign /\ depth > 0)
  /\ tpc' = "load"
  /\ UNCHANGED <<opener, gen, depth, inside, torn>>

\* Both queues and the tx_order ring are emptied; without a window the matcher
\* starts afresh.
Discard ==
  /\ tpc = "discard"
  /\ IF depth = 0 THEN excl_seen_gen' = gen /\ foreign' = FALSE
                  ELSE UNCHANGED <<excl_seen_gen, foreign>>
  /\ tpc' = "load"
  /\ UNCHANGED <<opener, gen, depth, inside, torn>>

\* Sends, completions and arrivals are paired.
MatchPoll ==
  /\ tpc = "match"
  /\ tpc' = "load"
  /\ UNCHANGED <<opener, gen, depth, excl_seen_gen, foreign, inside, torn>>

Poll == LoadGen \/ LoadDepth \/ Discard \/ MatchPoll

WinNext == Poll \/ \E o \in Openers : BeginGen(o) \/ BeginDepth(o) \/ SendForeign(o) \/ End(o)

WinSpec == WinInit /\ [][WinNext]_winVars

-----------------------------------------------------------------------------
(* Properties.                                                             *)

AllOut == \A o \in Openers : win[o] = "out"

\* A poll that matches has not been inside a window from its start.
MatchesOutside == tpc = "match" => inside = {}

\* excl_begin and excl_end nest: of two overlapping windows the one that ends
\* first does not end the other for a poll that matches.  After the last window
\* the telemetry thread does not discard for ever, and, as ecm_run.c:1210 has it,
\* it "resyncs its TX/RX matcher afterwards": windows in which frames were sent
\* are followed by a resync, unless a poll began between the two increments of
\* excl_begin (it then takes the generation of a window that has not begun for
\* one that has ended).
MeasuresOnlyOwnFrames ==
  /\ []MatchesOutside
  /\ <>[]AllOut => <>[](tpc # "discard")
  /\ <>[]AllOut => <>[](foreign => torn)
=============================================================================
