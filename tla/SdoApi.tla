------------------------------- MODULE SdoApi -------------------------------
(***************************************************************************)
(* SDO commands of the control socket: which writes sdo_write lets through *)
(* (ecm_ctl.c), how the api thread runs an SDO under the fence against     *)
(* recoveries (be_sdo), and how the abort code of a failed one finds its   *)
(* way into the reply: SOEM's error list, the RT thread (elist_drain), the *)
(* event ring, the monitor (print_events), g_last_abort, be_abort_after.   *)
(*                                                                         *)
(* An object is [idx, sub] of one slave.  Types are one signed and one     *)
(* unsigned integer of the same width and raw.                             *)
(***************************************************************************)
EXTENDS Integers, Sequences

CONSTANTS
  Object,        \* objects that are asked for
  CommArea, Steering,   \* indexes: 0x1000..0x1FFF; controlword and mode of every axis
  RxPdo,         \* objects mapped in an RxPDO
  InitCmd,       \* objects downloaded by the ENI
  Files,         \* allowlist files: sequences of [obj, type, min, max]
  Value,         \* numbers a client sends
  SignBit,       \* 2^(w-1) for types of w bits
  AbortTries,    \* polls of be_abort_after
  EvCap,         \* capacity of the event ring
  MaxSdo, MaxFence   \* bounds: SDOs, recoveries

ASSUME SdoAssumption ==
  /\ SignBit \in Nat \ {0} /\ Value \subseteq Int
  /\ \A list \in Files : DOMAIN list \subseteq Nat \ {0} /\ \A k \in DOMAIN list : list[k].min \in Int /\ list[k].max \in Int

VARIABLES
  file, allow,   \* the file, ecm_ctl_allowlist_t
  slave,         \* [pdo: g_pdo is there, mbx: it has a mailbox, cyclic: its handler is on]
  value,         \* raw value of every object in the slave
  fence,         \* [block: g_sdo_block, mx: who holds g_sdo_mx, n: recoveries]
  bus,           \* g_bus_state_pub: "run" (or degraded), "lost"; "stopping": g_ctl_quiesce
  cmd,           \* the command: step, request, seq0, polls, abort of its reply
  elist, evring, \* objects with an abort on its way
  last_abort,    \* g_last_abort: seq, obj
  sdos,          \* history: SDOs begun
  used           \* history: highest seq that went into a reply

sdoVars == <<file, allow, slave, value, fence, bus, cmd, elist, evring, last_abort, sdos, used>>

NoReq == [op |-> "none"]

-----------------------------------------------------------------------------
(* Values: ecm_ctl_val_fits, ecm_ctl_encode, ecm_ctl_decode_json.          *)

Fits(t, v) == IF t = "i" THEN v >= -SignBit /\ v < SignBit ELSE v >= 0 /\ v < 2 * SignBit
Encode(v) == v % (2 * SignBit)
Decode(t, raw) == IF t = "i" /\ raw >= SignBit THEN raw - 2 * SignBit ELSE raw

\* tok_val: an unsigned number has no sign.
TokVal(t, v) == t = "u" => v >= 0

-----------------------------------------------------------------------------
(* The allowlist: ecm_ctl_allow_load, allow_find.                          *)

comm_area(o) == o.idx \in CommArea
Deny(o) == o.idx \in Steering                       \* be_deny

EntryOk(list, k) ==
  LET e == list[k]
  IN  /\ e.type \in {"i", "u"} /\ TokVal(e.type, e.min) /\ TokVal(e.type, e.max)
      /\ Fits(e.type, e.min) /\ Fits(e.type, e.max) /\ e.min <= e.max
      /\ ~comm_area(e.obj) /\ ~Deny(e.obj)
      /\ \A j \in 1 .. k - 1 : list[j].obj # e.obj

AllowLoad(list) == \A k \in DOMAIN list : EntryOk(list, k)

\* The first entry, 0 without one.
AllowFind(o) ==
  LET found == {k \in DOMAIN allow : allow[k].obj = o}
  IN  IF found = {} THEN 0 ELSE CHOOSE k \in found : \A j \in found : k <= j

-----------------------------------------------------------------------------
(* cmd_sdo_write: the first check that fails gives the verdict.            *)

\* A slip: only the mapped subindex is the master's.
Narrow_MappedOut(o) == o \in RxPdo

\* be_rxpdo, be_initcmd: any subindex, the whole object is the master's.
MappedOut(o) == \E p \in RxPdo : p.idx = o.idx
ByEni(o) == \E p \in InitCmd : p.idx = o.idx

Ready == bus = "run" /\ ~fence.block /\ slave.mbx   \* be_ready

WriteVerdict(o, t, v) ==
  IF t = "raw" \/ ~TokVal(t, v) THEN "bad_request"
  ELSE IF comm_area(o) THEN "denied_comm_area"
  ELSE IF Deny(o) THEN "denied_hard"
  ELSE IF ~slave.pdo THEN "denied_no_pdo_table"
  ELSE IF MappedOut(o) THEN "denied_rxpdo"
  ELSE IF ByEni(o) THEN "denied_initcmd"
  ELSE LET k == AllowFind(o)
       IN  IF k = 0 THEN "not_allowed"
           ELSE IF allow[k].type # t THEN "type_mismatch"
           ELSE IF ~Fits(t, v) \/ v < allow[k].min \/ v > allow[k].max THEN "out_of_range"
           ELSE IF ~Ready THEN "not_ready" ELSE "pass"

-----------------------------------------------------------------------------
SdoInit ==
  /\ file \in Files /\ AllowLoad(file) /\ allow = file     \* a bad file: no start
  /\ slave \in [pdo : BOOLEAN, mbx : BOOLEAN, cyclic : BOOLEAN] /\ (slave.cyclic => slave.mbx)
  /\ value = [o \in Object |-> 0]
  /\ fence = [block |-> FALSE, mx |-> "free", n |-> 0] /\ bus = "run"
  /\ cmd = [pc |-> "idle", req |-> NoReq, seq0 |-> 0, polls |-> 0, abort |-> 0]
  /\ elist = <<>> /\ evring = <<>> /\ last_abort = [seq |-> 0, obj |-> NoReq]
  /\ sdos = 0 /\ used = 0

\* The words of the reply are not kept, its abort is.
Reply(why, a) == cmd' = [cmd EXCEPT !.pc = "idle", !.req = NoReq, !.seq0 = 0, !.polls = 0, !.abort = a]

\* sdo_fail; a readback that fails spoils only its field of the reply.
Failed(why) == IF cmd.req.op = "readback" THEN "readback_failed" ELSE why

\* ecm_ctl_handle with sdo_write or sdo_read (cmd_sdo_read); the identity of the
\* slave is known, the arguments parse.
Command ==
  /\ cmd.pc = "idle" /\ sdos < MaxSdo
  /\ \E o \in Object :
       \/ \E t \in {"i", "u", "raw"}, v \in Value :
            IF WriteVerdict(o, t, v) = "pass"
            THEN cmd' = [cmd EXCEPT !.pc = "sdo", !.req = [op |-> "write", obj |-> o, type |-> t, val |-> v], !.abort = 0]
            ELSE Reply(WriteVerdict(o, t, v), 0)
       \/ IF Ready
          THEN cmd' = [cmd EXCEPT !.pc = "sdo", !.req = [op |-> "read", obj |-> o], !.abort = 0]
          ELSE Reply("not_ready", 0)
  /\ UNCHANGED <<file, allow, slave, value, fence, bus, elist, evring, last_abort, sdos, used>>

\* be_sdo: the mutex, and what may have changed since be_ready.
SdoLock ==
  /\ cmd.pc = "sdo" /\ fence.mx = "free"
  /\ IF fence.block \/ ~slave.cyclic
     THEN Reply(Failed(IF fence.block THEN "busy" ELSE "no_mailbox"), 0) /\ UNCHANGED <<fence, sdos>>
     ELSE /\ fence' = [fence EXCEPT !.mx = "api"] /\ sdos' = sdos + 1
          /\ cmd' = [cmd EXCEPT !.pc = "mailbox", !.seq0 = last_abort.seq]
  /\ UNCHANGED <<file, allow, slave, value, bus, elist, evring, last_abort, used>>

\* ecm_mailbox_sdo_read or _write returns: done; queue full; failed (-4), refused
\* with an abort or without an answer in time, when a write may have been done
\* all the same; or the worker is stuck (-2) and its job may come to any end.
SdoReturn ==
  /\ cmd.pc = "mailbox"
  /\ fence' = [fence EXCEPT !.mx = "free"]
  /\ LET o == cmd.req.obj
         done == IF cmd.req.op = "write" THEN [value EXCEPT ![o] = Encode(cmd.req.val)] ELSE value
         aborted == Append(elist, o)
     IN  \/ /\ value' = done /\ elist' = elist
            /\ CASE cmd.req.op = "write" -> cmd' = [cmd EXCEPT !.pc = "sdo", !.req.op = "readback"]
                 [] cmd.req.op = "read" -> Reply("ok", 0)
                 [] OTHER -> Reply(IF value[o] = Encode(cmd.req.val) THEN "readback_ok" ELSE "readback_differs", 0)
         \/ /\ Reply(Failed("busy"), 0) /\ UNCHANGED <<value, elist>>
         \/ /\ \E r \in {<<value, elist>>, <<done, elist>>, <<value, aborted>>} : value' = r[1] /\ elist' = r[2]
            /\ \/ Reply(Failed("timeout"), 0)
               \/ cmd' = [cmd EXCEPT !.pc = "abort"]
  /\ UNCHANGED <<file, allow, slave, bus, evring, last_abort, sdos, used>>

\* A slip: the sequence number is not looked at.
Stale_Hit == last_abort.obj = cmd.req.obj

\* be_abort_after, one poll.
Hit == last_abort.seq # cmd.seq0 /\ last_abort.obj = cmd.req.obj

AbortPoll ==
  /\ cmd.pc = "abort"
  /\ IF Hit \/ cmd.polls + 1 = AbortTries
     THEN LET code == IF Hit /\ cmd.req.op # "readback" THEN last_abort.seq ELSE 0
          IN  /\ Reply(Failed("sdo_failed"), code)
              /\ used' = IF code = 0 THEN used ELSE code
     ELSE cmd' = [cmd EXCEPT !.polls = @ + 1] /\ UNCHANGED used
  /\ UNCHANGED <<file, allow, slave, value, fence, bus, elist, evring, last_abort, sdos>>

\* elist_drain; the list has no lock, so an entry that is pushed meanwhile may be
\* lost or read twice.
ElistDrain ==
  /\ elist # <<>>
  /\ \E n \in 0 .. 2 :
       LET room == EvCap - Len(evring)
       IN  evring' = evring \o [i \in 1 .. (IF n < room THEN n ELSE room) |-> Head(elist)]
  /\ elist' = Tail(elist)
  /\ UNCHANGED <<file, allow, slave, value, fence, bus, cmd, last_abort, sdos, used>>

\* print_events, ECM_EV_SDO_ABORT.
PrintEvents ==
  /\ evring # <<>>
  /\ last_abort' = [seq |-> last_abort.seq + 1, obj |-> Head(evring)]
  /\ evring' = Tail(evring)
  /\ UNCHANGED <<file, allow, slave, value, fence, bus, cmd, elist, sdos, used>>

\* api_fence_begin and api_fence_end around a recovery, one of whose InitCmds may
\* have been refused.
FenceBegin ==
  \/ /\ ~fence.block /\ fence.n < MaxFence
     /\ fence' = [fence EXCEPT !.block = TRUE, !.n = @ + 1]
     /\ UNCHANGED <<file, allow, slave, value, bus, cmd, elist, evring, last_abort, sdos, used>>
  \/ /\ fence.block /\ fence.mx = "free" /\ fence' = [fence EXCEPT !.mx = "monitor"]
     /\ UNCHANGED <<file, allow, slave, value, bus, cmd, elist, evring, last_abort, sdos, used>>

FenceEnd ==
  /\ fence.mx = "monitor" /\ fence' = [fence EXCEPT !.mx = "free", !.block = FALSE]
  /\ elist' \in {elist} \cup {Append(elist, o) : o \in InitCmd}
  /\ UNCHANGED <<file, allow, slave, value, bus, cmd, evring, last_abort, sdos, used>>

\* Only be_ready looks at it, so it may as well change between two commands.
BusChanges ==
  /\ cmd.pc = "idle" /\ bus # "stopping" /\ bus' \in {"run", "lost", "stopping"} \ {bus}
  /\ UNCHANGED <<file, allow, slave, value, fence, cmd, elist, evring, last_abort, sdos, used>>

SdoNext == \/ Command \/ SdoLock \/ SdoReturn \/ AbortPoll \/ ElistDrain \/ PrintEvents
           \/ FenceBegin \/ FenceEnd \/ BusChanges

SdoSpec == SdoInit /\ [][SdoNext]_sdoVars

-----------------------------------------------------------------------------
WritesAllowed ==
  \A o \in Object : value'[o] # value[o] =>
    /\ \E k \in DOMAIN file : /\ file[k].obj = o
                              /\ Decode(file[k].type, value'[o]) \in file[k].min .. file[k].max
    /\ slave.pdo /\ o.idx \notin CommArea \cup Steering
    /\ \A p \in RxPdo \cup InitCmd : p.idx # o.idx

\* sdo_write changes an object only if the allowlist file has it with the type
\* and a range that holds the number the slave then has, no part of the object
\* is the master's (RxPDO, ENI, communication area, axis control): the refusals
\* in their order, the loader's checks of the file and the encoding together.
WriteIsAllowed == [][WritesAllowed]_sdoVars

AnswersOnce ==
  cmd'.abort # 0 /\ cmd'.abort # cmd.abort =>
    cmd'.abort > used /\ cmd'.abort > cmd.seq0 /\ last_abort.obj = cmd.req.obj

\* be_abort_after: an abort code in a reply was logged for the object asked for,
\* after the SDO began, and no log entry answers two requests.
AbortAnswersOnce == [][AnswersOnce]_sdoVars
=============================================================================
