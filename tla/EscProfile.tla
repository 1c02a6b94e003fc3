----------------------------- MODULE EscProfile -----------------------------
(***************************************************************************)
(* The PDO assignment of a soft_bus slave with an ESI profile              *)
(* (esc_profile.c): 0x1C12 written entry by entry or by Complete Access,   *)
(* the set that becomes active checked as a whole, and the size check on   *)
(* the way to SAFEOP.                                                      *)
(***************************************************************************)
EXTENDS Integers, Sequences, FiniteSets, FiniteSetsExt

CONSTANTS
  Pdos,        \* PDOs of the profile: name -> [right, bits, ex]
  MaxAssign    \* max_sub of 0x1C12

ASSUME ProfAssumption == MaxAssign \in Nat

\* right: it has the direction of the object; ex: the names ESI <Exclude> lists.
NoPdo == "0"

VARIABLES
  asgN,        \* 0x1C12:00
  asgL,        \* 0x1C12:01..: names, NoPdo for 0
  profAl,      \* "PREOP" or "SAFEOP"
  smLen        \* length of the SyncManager when SAFEOP was granted

profVars == <<asgN, asgL, profAl, smLen>>

\* What a master may write into an entry, an index the profile lacks included.
Entries == DOMAIN Pdos \cup {NoPdo, "missing"}

ProfInit == asgN = 0 /\ asgL = [k \in 1 .. MaxAssign |-> NoPdo] /\ profAl = "PREOP" /\ smLen = 0

\* A slip: an exclusion is looked up in one direction of the pairs only.
HalfExcluded_CheckSet(list) ==
  \A a \in DOMAIN list :
    /\ list[a] \in DOMAIN Pdos /\ Pdos[list[a]].right
    /\ \A b \in DOMAIN list : a < b => list[b] # list[a] /\ list[b] \notin Pdos[list[a]].ex

\* check_set: every PDO exists with this direction, none twice, none excluded.
CheckSet(list) ==
  \A a \in DOMAIN list :
    /\ list[a] \in DOMAIN Pdos /\ Pdos[list[a]].right
    /\ \A b \in DOMAIN list \ {a} : list[b] # list[a] /\ list[b] \notin Pdos[list[a]].ex

\* esc_prof_check_value, SI0: the set that becomes active is SI1..SIn as stored.
WriteCount(n) ==
  /\ profAl = "PREOP"
  /\ n <= MaxAssign /\ CheckSet(SubSeq(asgL, 1, n))
  /\ asgN' = n
  /\ UNCHANGED <<asgL, profAl, smLen>>

\* esc_prof_check_value, SIk: only while SI0 = 0; 0 clears an entry.
WriteAssigned(k, p) ==
  /\ profAl = "PREOP"
  /\ asgN = 0
  /\ p # NoPdo => p \in DOMAIN Pdos /\ Pdos[p].right
  /\ asgL' = [asgL EXCEPT ![k] = p]
  /\ UNCHANGED <<asgN, profAl, smLen>>

\* esc_prof_check_ca, then od_ca_write without the checks of single entries: the
\* first n entries as they would be, from the data or stored before.  Entries the
\* data carries beyond n are stored unchecked.
WriteComplete(start, n, data) ==
  LET count == IF start = 0 THEN n ELSE asgN
      after == [k \in 1 .. MaxAssign |-> IF k <= Len(data) THEN data[k] ELSE asgL[k]]
  IN /\ profAl = "PREOP"
     /\ count <= MaxAssign /\ CheckSet(SubSeq(after, 1, count))
     /\ start = 1 => Len(data) > 0
     /\ asgN' = count /\ asgL' = after
     /\ UNCHANGED <<profAl, smLen>>

\* esc_prof_assigned_bits.
AssignedBits(list, n) == MapThenSumSet(LAMBDA k : Pdos[list[k]].bits, 1 .. n)

\* The bytes of a SyncManager that holds them.
ActiveBytes == (AssignedBits(asgL, asgN) + 7) \div 8

\* esc_prof_check_pd: the SyncManager has the size of the assigned PDOs.
EnterSafeop(len) ==
  /\ profAl = "PREOP" /\ len = ActiveBytes
  /\ profAl' = "SAFEOP" /\ smLen' = len
  /\ UNCHANGED <<asgN, asgL>>

LeaveSafeop == profAl = "SAFEOP" /\ profAl' = "PREOP" /\ smLen' = 0 /\ UNCHANGED <<asgN, asgL>>

ProfNext ==
  \/ \E n \in 0 .. MaxAssign + 1 : WriteCount(n)
  \/ \E k \in 1 .. MaxAssign, p \in Entries : WriteAssigned(k, p)
  \/ \E start \in 0 .. 1, n \in 0 .. MaxAssign, len \in 0 .. MaxAssign :
       \E data \in [1 .. len -> Entries] : WriteComplete(start, n, data)
  \/ \E len \in 0 .. 4 : EnterSafeop(len)
  \/ LeaveSafeop

ProfSpec == ProfInit /\ [][ProfNext]_profVars

-----------------------------------------------------------------------------
(* Properties.                                                             *)

\* esc_prof_check_value, esc_prof_check_ca: whatever was stored in entries that
\* were not active at the time, an active assignment has only PDOs of the profile,
\* none twice and none together with one it excludes or is excluded by; in SAFEOP
\* its size is the one that was checked.
AssignmentIsLegal ==
  /\ \A a, b \in 1 .. asgN :
       /\ asgL[a] \in DOMAIN Pdos /\ Pdos[asgL[a]].right
       /\ a # b => asgL[a] # asgL[b] /\ asgL[b] \notin Pdos[asgL[a]].ex
  /\ profAl = "SAFEOP" => smLen = ActiveBytes
=============================================================================
