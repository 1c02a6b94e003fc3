---------------------------- MODULE EscMailbox ----------------------------
(***************************************************************************)
(* The mailbox SM1 of a soft_bus slave, between the SDO server that posts  *)
(* responses and a master that fetches them: "mailbox full", the counter   *)
(* Cnt of each new response, the repeat request of a master that lost a    *)
(* reply, and the injections that lose, duplicate and delay a response or  *)
(* put an EMCY in between.  A response is its number.  The master is       *)
(* external: it reads a full mailbox, asks again after a lost reply and    *)
(* recognises a repeated response by its Cnt.                              *)
(***************************************************************************)
EXTENDS Naturals

CONSTANTS
  CntMax,      \* Cnt runs 1 .. CntMax (7)
  MaxResponses \* bound: responses of a behaviour

ASSUME MbxAssumption == CntMax \in Nat \ {0} /\ MaxResponses \in Nat

VARIABLES
  sm1,     \* the slave's side
  inj,     \* the injections armed in fault
  mst      \* the master; wrong: history, it dropped a new response or took an old one

mbxVars == <<sm1, inj, mst>>

MbxInit ==
  /\ sm1 = [box |-> 0, cnt |-> 0, full |-> FALSE, held |-> FALSE, active |-> FALSE]
  /\ inj = [lose |-> FALSE, dup |-> FALSE, again |-> FALSE, delay |-> FALSE, emcy |-> 0]
  /\ mst = [cnt |-> 0, taken |-> 0, lost |-> 0, wrong |-> FALSE]

\* Bounds: the counter wraps, so the master must not leave CntMax responses unread.
Room(b) == b.box < MaxResponses /\ b.box < mst.taken + CntMax - 1

\* A slip: the counter of an EMCY is the one of the response before it.
SameCnt_NewResponse(b) == [b EXCEPT !.box = @ + 1, !.cnt = IF b.active THEN (@ % CntMax) + 1 ELSE @]

\* resp_cnt: one step per new response, 1 .. 7 cyclic.
NewResponse(b) == [b EXCEPT !.box = @ + 1, !.cnt = (@ % CntMax) + 1]

-----------------------------------------------------------------------------
(* esc_fault_frame_begin, the mailbox part, for every powered node.        *)

\* coe_post_emcy: only into a mailbox that is neither full nor held.
PostEmcy(b) == [NewResponse(b) EXCEPT !.full = TRUE]
EmcyNow(b)  == inj.emcy > 0 /\ ~b.active /\ ~b.full /\ ~b.held /\ Room(b)

\* The duplicate first, then an EMCY, then the response whose time has come.
Begin(released) ==
  LET b == [sm1 EXCEPT !.full = @ \/ inj.again]
      c == IF EmcyNow(b) THEN PostEmcy(b) ELSE b
  IN [c EXCEPT !.full = @ \/ released, !.held = @ /\ ~released]

InjBegin(released) ==
  LET b == [sm1 EXCEPT !.full = @ \/ inj.again]
  IN [inj EXCEPT !.again = FALSE, !.emcy = IF EmcyNow(b) THEN @ - 1 ELSE @]

\* A frame that does not touch the mailbox, or does not reach the slave.
OtherFrame(released) ==
  /\ released => sm1.held
  /\ sm1' = Begin(released) /\ inj' = InjBegin(released)
  /\ UNCHANGED mst

\* A request in SM0: coe_on_mailbox_out_write.  A response may overwrite one
\* nobody read; the answer to a download is held back while coe_delay is set.
\* "active" stands for the session the request leaves behind.
PostFrame(released, download, active) ==
  LET b == Begin(released) IN
  /\ released => sm1.held
  /\ Room(b)
  /\ sm1' = LET c == NewResponse([b EXCEPT !.active = active])
            IN IF download /\ inj.delay THEN [c EXCEPT !.held = TRUE] ELSE [c EXCEPT !.full = TRUE]
  /\ inj' = InjBegin(released)
  /\ UNCHANGED mst

\* A request that is not answered: another protocol, or an SDO abort.
SilentFrame(released) ==
  /\ released => sm1.held
  /\ sm1' = [Begin(released) EXCEPT !.active = FALSE] /\ inj' = InjBegin(released)
  /\ UNCHANGED mst

\* A read of SM1 (esc_phys_read clears "full") and esc_fault_frame_end: the
\* reply is lost when that was armed, or on its way; the master takes a response
\* whose Cnt is not the last one's.
ReadFrame(released, arrives) ==
  LET b == Begin(released)
      i == InjBegin(released)
      delivered == arrives /\ ~i.lose
  IN /\ released => sm1.held
     /\ sm1.full
     /\ sm1' = [b EXCEPT !.full = FALSE]
     /\ inj' = [i EXCEPT !.again = i.dup, !.dup = FALSE, !.lose = @ /\ ~arrives]
     /\ mst' = IF ~delivered THEN [mst EXCEPT !.lost = b.box]
               ELSE IF b.cnt = mst.cnt
               THEN [mst EXCEPT !.lost = 0, !.wrong = @ \/ b.box # mst.taken]
               ELSE [mst EXCEPT !.lost = 0, !.cnt = b.cnt, !.taken = b.box, !.wrong = @ \/ b.box <= mst.taken]

\* The repeat toggle in 0x080E: the mailbox is full again with what it holds.
RepeatFrame(released) ==
  /\ released => sm1.held
  /\ mst.lost # 0
  /\ sm1' = [Begin(released) EXCEPT !.full = TRUE] /\ inj' = InjBegin(released)
  /\ UNCHANGED mst

\* esc_fault_command: mbx_repeat, mbx_dup, coe_delay, emcy, clear.
Inject ==
  /\ \/ inj' = [inj EXCEPT !.lose = TRUE] \/ inj' = [inj EXCEPT !.dup = TRUE]
     \/ \E d \in BOOLEAN : inj' = [inj EXCEPT !.delay = d]
     \/ inj' = [inj EXCEPT !.emcy = 1]
     \/ inj' = [lose |-> FALSE, dup |-> FALSE, again |-> FALSE, delay |-> FALSE, emcy |-> 0]
  /\ UNCHANGED <<sm1, mst>>

MbxNext ==
  \/ \E released \in BOOLEAN :
       \/ OtherFrame(released) \/ SilentFrame(released) \/ RepeatFrame(released)
       \/ \E download, active \in BOOLEAN : PostFrame(released, download, active)
       \/ \E arrives \in BOOLEAN : ReadFrame(released, arrives)
  \/ Inject

MbxSpec == MbxInit /\ [][MbxNext]_mbxVars

-----------------------------------------------------------------------------
(* Properties.                                                             *)

\* esc_coe.c, "Repeat requests and the mbx_dup injection re-post the same bytes,
\* so they carry the same Cnt as the original": a master that goes by Cnt neither
\* drops a response it has not had nor takes one twice or late, through repeats,
\* duplicates, held responses and EMCYs that overwrite one another.
CntTellsNewFromOld == ~mst.wrong
=============================================================================
