------------------------------ MODULE Seqlock ------------------------------
(***************************************************************************)
(* The state record of the exchange (ecm_xst_t): the RT thread overwrites  *)
(* it once per tick, any number of readers copy it without a lock.  The    *)
(* writer makes the sequence number odd, stores the words, makes it even;  *)
(* the reader copies between two loads of the number.  Only the fences     *)
(* order the accesses, so the words are stored and loaded in any order.    *)
(* The n-th record has n in every word.  seq counts without wrapping: 2^32 *)
(* would take 2^31 writes during one read.                                 *)
(***************************************************************************)
EXTENDS Integers

CONSTANTS
  Word,         \* positions: the tick and the words w[i]
  SeqTries,     \* ECM_XST_TRIES
  MaxWrites     \* bound on the records written

ASSUME SeqlockAssumption == SeqTries \in Nat \ {0} /\ MaxWrites \in Nat

VARIABLES
  seq, word,               \* shared
  wTodo, wVal,             \* writer: words not stored yet, the record
  rpc, rS1, rTodo, rCopy,  \* reader: step, s1, words not loaded yet, copy
  rTry,                    \* reader: tries begun
  rStart                   \* history: the record complete when the read began

seqWriter == <<wTodo, wVal>>
seqReader == <<rpc, rS1, rTodo, rCopy, rTry, rStart>>
seqVars   == <<seq, word, seqWriter, seqReader>>

SeqInit ==
  /\ seq = 0 /\ word = [i \in Word |-> 0] /\ wTodo = {} /\ wVal = 0
  /\ rpc = "idle" /\ rS1 = 0 /\ rTodo = {} /\ rCopy = [i \in Word |-> 0]
  /\ rTry = 0 /\ rStart = 0

-----------------------------------------------------------------------------
(* ecm_xst_write                                                           *)

WriteBegin ==
  /\ seq % 2 = 0 /\ wVal < MaxWrites
  /\ seq' = seq + 1 /\ wVal' = wVal + 1 /\ wTodo' = Word
  /\ UNCHANGED <<word, seqReader>>

WriteWord(i) ==
  /\ i \in wTodo
  /\ word' = [word EXCEPT ![i] = wVal] /\ wTodo' = wTodo \ {i}
  /\ UNCHANGED <<seq, wVal, seqReader>>

WriteEnd ==
  /\ seq % 2 = 1 /\ wTodo = {}
  /\ seq' = seq + 1
  /\ UNCHANGED <<word, seqWriter, seqReader>>

-----------------------------------------------------------------------------
(* ecm_xst_read                                                            *)

ReadBegin ==
  /\ rpc \in {"idle", "ok", "failed"}
  /\ rpc' = "seq" /\ rTry' = 1 /\ rStart' = seq \div 2
  /\ UNCHANGED <<seq, word, seqWriter, rS1, rTodo, rCopy>>

Retry ==
  IF rTry = SeqTries THEN rpc' = "failed" /\ UNCHANGED rTry
                     ELSE rpc' = "seq" /\ rTry' = rTry + 1

ReadSeq ==
  /\ rpc = "seq"
  /\ IF seq % 2 = 1 THEN Retry /\ UNCHANGED <<rS1, rTodo>>
     ELSE rpc' = "copy" /\ rS1' = seq /\ rTodo' = Word /\ UNCHANGED rTry
  /\ UNCHANGED <<seq, word, seqWriter, rCopy, rStart>>

ReadWord(i) ==
  /\ rpc = "copy" /\ i \in rTodo
  /\ rCopy' = [rCopy EXCEPT ![i] = word[i]] /\ rTodo' = rTodo \ {i}
  /\ UNCHANGED <<seq, word, seqWriter, rpc, rS1, rTry, rStart>>

\* A slip: ECM_XST_BROKEN, the copy is taken without the second load.
Unchecked_ReadCheck ==
  /\ rpc = "copy" /\ rTodo = {} /\ rpc' = "ok" /\ UNCHANGED rTry
  /\ UNCHANGED <<seq, word, seqWriter, rS1, rTodo, rCopy, rStart>>

ReadCheck ==
  /\ rpc = "copy" /\ rTodo = {}
  /\ IF seq = rS1 THEN rpc' = "ok" /\ UNCHANGED rTry ELSE Retry
  /\ UNCHANGED <<seq, word, seqWriter, rS1, rTodo, rCopy, rStart>>

SeqNext ==
  \/ WriteBegin \/ WriteEnd \/ ReadBegin \/ ReadSeq \/ ReadCheck
  \/ \E i \in Word : WriteWord(i) \/ ReadWord(i)

SeqSpec == SeqInit /\ [][SeqNext]_seqVars

-----------------------------------------------------------------------------
\* A read that succeeds returns one whole record, and none older than the one
\* that was complete when ecm_xst_read was called.
RecordIsWhole ==
  rpc = "ok" => \E n \in 0 .. wVal : n >= rStart /\ rCopy = [i \in Word |-> n]
=============================================================================
