------------------------------- MODULE EscCoe -------------------------------
(***************************************************************************)
(* The SDO server of a soft_bus slave (esc_coe.c): one request in SM0 is   *)
(* one call of coe_on_mailbox_out_write.  Expedited, normal and segmented  *)
(* transfers in both directions, Complete Access, the checks of the object *)
(* dictionary and every way a transfer is refused.                         *)
(*                                                                         *)
(* Data are short sequences of units.  An expedited transfer holds ExpMax  *)
(* units (4 byte), a first frame InitChunk, a segment SegChunk, a string   *)
(* StrMax, the transfer buffer XferMax.  Abort codes are not told apart.   *)
(* A behaviour works on one object, "target": the string 0x8002, a RECORD  *)
(* 0x8000 of writable entries under a read-only SI0, or the PDO assignment *)
(* 0x1C12, writable in PREOP only; the read-only string 0x8001 is "blob".  *)
(***************************************************************************)
EXTENDS Integers, Sequences, FiniteSets

CONSTANTS ExpMax, InitChunk, SegChunk, StrMax, XferMax,
          Chunks,      \* the data a request may carry
          Totals       \* the sizes a request may declare

ASSUME CoeAssumption == /\ {ExpMax, InitChunk, SegChunk, StrMax, XferMax} \cup Totals \subseteq Nat
                        /\ Chunks \subseteq Seq(Nat)

VARIABLES
  target,    \* the object of this behaviour: "str", "rec" or "asg"
  od,        \* its value: one sequence per subindex
  coeCa,     \* coe_ca: Complete Access is switched on
  esm,       \* AL state, "PREOP" or "OP"
  sess,      \* coe_session
  resp,      \* the response to the last request
  uploaded,  \* history: the data of the upload responses of this transfer
  sent       \* history: the data of the download requests of this transfer

coeVars == <<target, od, coeCa, esm, sess, resp, uploaded, sent>>

Blob == <<1, 2, 0, 1, 2, 1, 0>>          \* segtest_blob, a fixed pattern

NoSession  == [on |-> FALSE]
Abort      == [kind |-> "abort"]
NoResponse == [kind |-> "none"]

\* coe_od_init.
OdInit(o) == CASE o = "str" -> <<(<<0>>)>>
               [] o = "rec" -> <<(<<2>>), (<<0, 0>>), (<<0, 0>>)>>
               [] o = "asg" -> <<(<<1>>), (<<1, 1>>)>>

CoeInit ==
  /\ target \in {"str", "rec", "asg"} /\ od = OdInit(target) /\ coeCa \in BOOLEAN /\ esm = "PREOP"
  /\ sess = NoSession /\ resp = NoResponse /\ uploaded = <<>> /\ sent = <<>>

-----------------------------------------------------------------------------
(* The object dictionary.                                                  *)

\* od_object, od_entry: subindex s of object o is od[s + 1] here.
OdValue(o)    == IF o = "blob" THEN <<Blob>> ELSE od
Exists(o, s)  == o \in {target, "blob"} /\ s + 1 \in DOMAIN OdValue(o)
IsVar(o)      == o \in {"str", "blob"}
MaxSub(o)     == Len(OdValue(o)) - 1
Access(o, s)  == CASE o = "str" -> "RW"
                   [] o = "rec" -> IF s = 0 THEN "RO" ELSE "RW"
                   [] o = "asg" -> "RW_PREOP"
                   [] OTHER     -> "RO"

\* od_check_write with data = NULL: existence, access, device state and length.
MayWrite(o, s, len) ==
  /\ Exists(o, s)
  /\ Access(o, s) # "RO"
  /\ Access(o, s) = "RW_PREOP" => esm = "PREOP"
  /\ IF IsVar(o) THEN len \in 1 .. StrMax ELSE len = Len(OdValue(o)[s + 1])

\* od_check_write: the one PDO of the assignment, and at most one of it.
CheckWrite(o, s, data) ==
  /\ MayWrite(o, s, Len(data))
  /\ o = "asg" => IF s = 0 THEN data[1] <= 1 ELSE data = <<1, 1>>

\* The image of Complete Access: SI0 and a pad unit, then the entries.
CaLead(start)       == IF start = 0 THEN 2 ELSE 0
Off(o, start, s)    == CaLead(start) + (s - 1) * Len(OdValue(o)[2])
Covered(o, start, len) ==
  {s \in 0 .. MaxSub(o) : IF s = 0 THEN start = 0 ELSE Off(o, start, s) < len}
Part(o, start, s, data) ==
  IF s = 0 THEN <<data[1]>> ELSE SubSeq(data, Off(o, start, s) + 1, Off(o, start, s + 1))

\* od_ca_read, as <<image>>, or <<>> when it is refused.
CaRead(o, start) ==
  IF o \notin {target, "blob"} \/ start > 1 \/ IsVar(o) THEN <<>>
  ELSE LET n == IF od[1][1] < MaxSub(o) THEN od[1][1] ELSE MaxSub(o)
           body == [i \in 1 .. n * Len(od[2]) |->
                      od[2 + (i - 1) \div Len(od[2])][1 + ((i - 1) % Len(od[2]))]]
       IN <<(IF start = 0 THEN <<n, 0>> ELSE <<>>) \o body>>

\* od_ca_write, the pass that checks: every entry the data covers, read-only
\* ones skipped, at least one of them writable, none cut.
CaCheck(o, start, data) ==
  /\ o \in {target, "blob"} /\ start <= 1 /\ ~IsVar(o)
  /\ Len(data) <= Off(o, start, MaxSub(o) + 1)
  /\ start = 0 => Len(data) >= 2
  /\ \A s \in Covered(o, start, Len(data)) :
       /\ s > 0 => Off(o, start, s + 1) <= Len(data)
       /\ Access(o, s) # "RO" => CheckWrite(o, s, Part(o, start, s, data))
  /\ \E s \in Covered(o, start, Len(data)) : Access(o, s) # "RO"

\* od_ca_write, the pass that stores.
CaStore(o, start, data) ==
  [i \in DOMAIN od |->
     IF i - 1 \in Covered(o, start, Len(data)) /\ Access(o, i - 1) # "RO"
     THEN Part(o, start, i - 1, data) ELSE od[i]]

\* A slip: SI0 is stored as soon as it was checked.
OnePass_OdDownload(o, s, ca, data) ==
  LET fine == IF ca THEN CaCheck(o, s, data) ELSE CheckWrite(o, s, data)
  IN [ok |-> fine,
      od |-> IF fine THEN IF ca THEN CaStore(o, s, data) ELSE [od EXCEPT ![s + 1] = data]
             ELSE IF ca /\ s = 0 /\ o = "asg" /\ CheckWrite(o, 0, <<data[1]>>)
             THEN [od EXCEPT ![1] = <<data[1]>>] ELSE od]

\* od_download: check everything, then apply.
OdDownload(o, s, ca, data) ==
  LET fine == IF ca THEN CaCheck(o, s, data) ELSE CheckWrite(o, s, data)
  IN [ok |-> fine,
      od |-> IF ~fine THEN od
             ELSE IF ca THEN CaStore(o, s, data) ELSE [od EXCEPT ![s + 1] = data]]

\* od_upload_value.
UploadValue(o, s, ca) ==
  IF ca THEN CaRead(o, s) ELSE IF Exists(o, s) THEN <<OdValue(o)[s + 1]>> ELSE <<>>

-----------------------------------------------------------------------------
(* Requests.  A handler gives the next session, the response, the object.  *)

First(data, n) == SubSeq(data, 1, IF n < Len(data) THEN n ELSE Len(data))
Outcome(s, r, v) == /\ sess' = s /\ resp' = r /\ od' = v
Refused == Outcome(NoSession, Abort, od)

\* coe_handle_upload_request, with coe_send_upload_expedited and
\* coe_start_upload_normal: a session is opened for what does not fit.
UploadRequest(o, s, ca) ==
  /\ LET v == UploadValue(o, s, ca) IN
     IF ca /\ ~coeCa THEN Outcome(sess, Abort, od)
     ELSE IF v = <<>> THEN Refused
     ELSE LET n == Len(v[1])
              data == First(v[1], IF n <= ExpMax THEN n ELSE InitChunk)
          IN Outcome(IF Len(data) = n THEN NoSession
                     ELSE [on |-> TRUE, up |-> TRUE, ca |-> ca, o |-> o, s |-> s,
                           total |-> n, done |-> Len(data), tog |-> 0],
                     [kind |-> "up", data |-> data, last |-> Len(data) = n], od)
  /\ uploaded' = IF ca /\ ~coeCa THEN uploaded ELSE IF resp'.kind = "up" THEN resp'.data ELSE <<>>
  /\ sent' = IF ca /\ ~coeCa THEN sent ELSE <<>>

\* coe_handle_upload_segment: the value is read again for every segment.
UploadSegment(tog) ==
  /\ IF ~sess.on \/ ~sess.up \/ tog # sess.tog THEN Refused
     ELSE LET v == UploadValue(sess.o, sess.s, sess.ca) IN
          IF v = <<>> \/ (v # <<>> /\ Len(v[1]) # sess.total) THEN Refused
          ELSE LET rest == SubSeq(v[1], sess.done + 1, sess.total)
                   data == First(rest, SegChunk)
                   last == Len(data) = Len(rest)
               IN Outcome(IF last THEN NoSession
                          ELSE [sess EXCEPT !.done = @ + Len(data), !.tog = 1 - @],
                          [kind |-> "up", data |-> data, last |-> last], od)
  /\ uploaded' = IF resp'.kind = "up" THEN uploaded \o resp'.data ELSE <<>>
  /\ sent' = <<>>

\* The store at the end of a transfer, and its answer.
Finish(o, s, ca, data, answer) ==
  LET d == OdDownload(o, s, ca, data)
  IN Outcome(NoSession, IF d.ok THEN [kind |-> answer] ELSE Abort, d.od)

\* coe_handle_download_init, expedited.
DownloadExpedited(o, s, ca, data) ==
  /\ Len(data) \in 1 .. ExpMax
  /\ IF ca /\ ~coeCa THEN Refused ELSE Finish(o, s, ca, data, "dn")
  /\ sent' = (IF resp' = Abort THEN <<>> ELSE data) /\ uploaded' = <<>>

\* coe_handle_download_init, normal: refused by the declared size before any
\* segment is sent, finished at once when the frame held it all.
DownloadInit(o, s, ca, total, data) ==
  LET inFrame == First(First(data, InitChunk), total)
      refuse  == \/ ca /\ ~coeCa
                 \/ total > XferMax
                 \/ IF ca THEN o \notin {target, "blob"} \/ s > 1 ELSE ~MayWrite(o, s, total)
  IN /\ IF refuse THEN Refused
        ELSE IF Len(inFrame) = total THEN Finish(o, s, ca, inFrame, "dn")
        ELSE Outcome([on |-> TRUE, up |-> FALSE, ca |-> ca, o |-> o, s |-> s, total |-> total,
                      xfer |-> inFrame, tog |-> 0], [kind |-> "dn"], od)
     /\ sent' = (IF resp' = Abort THEN <<>> ELSE inFrame) /\ uploaded' = <<>>

\* coe_handle_download_segment.
DownloadSegment(tog, last, data) ==
  LET refuse == ~sess.on \/ sess.up \/ tog # sess.tog
                \/ Len(sess.xfer) + Len(data) > sess.total
      xfer == sess.xfer \o data
  IN /\ Len(data) <= SegChunk
     /\ IF refuse THEN Refused
        ELSE IF ~last
        THEN Outcome([sess EXCEPT !.xfer = xfer, !.tog = 1 - @], [kind |-> "seg"], od)
        ELSE IF Len(xfer) # sess.total THEN Refused
        ELSE Finish(sess.o, sess.s, sess.ca, xfer, "seg")
     /\ sent' = (IF resp' = Abort THEN <<>> ELSE sent \o data) /\ uploaded' = <<>>

\* A master's abort ends the session without an answer; an unknown command is
\* answered by an abort and leaves the session.
AbortRequest == Outcome(NoSession, NoResponse, od) /\ uploaded' = <<>> /\ sent' = <<>>
UnknownRequest == Outcome(sess, Abort, od) /\ UNCHANGED <<uploaded, sent>>

\* The entries requests are about, missing ones included.
Addresses == ({target} \X (0 .. 2)) \cup {<<"blob", 0>>, <<"none", 0>>}

\* coe_on_mailbox_out_write: any request in any order.
Request ==
  /\ \/ \E a \in Addresses, ca \in BOOLEAN :
          \/ UploadRequest(a[1], a[2], ca)
          \/ \E data \in Chunks : DownloadExpedited(a[1], a[2], ca, data)
          \/ \E data \in Chunks, total \in Totals : DownloadInit(a[1], a[2], ca, total, data)
     \/ \E tog \in 0 .. 1 :
          \/ UploadSegment(tog)
          \/ \E data \in Chunks, last \in BOOLEAN : DownloadSegment(tog, last, data)
     \/ AbortRequest \/ UnknownRequest
  /\ UNCHANGED <<target, coeCa, esm>>

\* The master changes the state between two requests.
ChangeState ==
  /\ esm' \in {"PREOP", "OP"} \ {esm}
  /\ UNCHANGED <<target, od, coeCa, sess, resp, uploaded, sent>>

CoeNext == Request \/ ChangeState

CoeSpec == CoeInit /\ [][CoeNext]_coeVars

-----------------------------------------------------------------------------
(* Properties.                                                             *)

\* coe_handle_upload_segment: the segments of an upload that ran to its end are
\* the object, whole and in order, however many requests with a wrong toggle bit,
\* of another transfer or of an earlier one came in between.
UploadIsWhole ==
  /\ resp.kind = "up" /\ resp.last
       => \E o \in {target, "blob"}, s \in 0 .. 2, ca \in BOOLEAN : UploadValue(o, s, ca) = <<uploaded>>
  /\ sess.on /\ sess.up => uploaded = First(UploadValue(sess.o, sess.s, sess.ca)[1], sess.done)

\* An upload is whole, as above, and od_ca_write's "a rejected CA leaves the object
\* untouched": an object changes only with a request that is answered positively
\* and ends its transfer, and then its writable entries hold the data of all the
\* requests of the transfer.
TransfersAreWhole ==
  /\ []UploadIsWhole
  /\ [][od' # od =>
          /\ resp'.kind \in {"dn", "seg"} /\ ~sess'.on
          /\ \E s \in 0 .. 2 :
               \/ od' = [od EXCEPT ![s + 1] = sent']
               \/ s <= 1 /\ od' = CaStore(target, s, sent')]_coeVars
=============================================================================
