------------------------------ MODULE CtlServer ------------------------------
(***************************************************************************)
(* The control socket: ecm_ctl_srv_service, called by the api thread       *)
(* whenever poll() returns, serves a few clients from fixed buffers.  A    *)
(* client sends lines of its own making in pieces, may close at any time   *)
(* and may leave its replies unread.  A byte is the number of its line and *)
(* whether it ends it; a reply is the number of the line it answers with   *)
(* its verdict, and takes one place of the output buffer.                  *)
(***************************************************************************)
EXTENDS Integers, Sequences, SequencesExt, FiniteSets

CONSTANTS
  Client,     \* connections made in a behaviour
  CtlSlots,   \* ECM_CTL_MAX_CLIENTS
  InCap,      \* ECM_CTL_LINE_MAX
  OutCap,     \* ECM_CTL_OUT_MAX, in replies
  SockCap,    \* replies the kernel holds for a client that does not read
  Rate,       \* ECM_CTL_RATE: tokens of the limiter
  Ends        \* [Client -> sequence]: where the lines each client sends end

VARIABLES
  peer,    \* [Client -> its side: state, bytes sent, reads, replies read]
  sock,    \* [Client -> kernel buffers: to the server, to the client]
  cl,      \* [slot -> ecm_ctl_client_t]
  tokens   \* of ecm_ctl_state_t

ctlVars == <<peer, sock, cl, tokens>>

CtlSlot == 1 .. CtlSlots
Free == [fd |-> {}, in |-> <<>>, out |-> <<>>, discard |-> FALSE]    \* client_close

LineOf(c, k) == 1 + Cardinality({i \in DOMAIN Ends[c] : Ends[c][i] < k})
Byte(c, k) == [line |-> LineOf(c, k), nl |-> \E i \in DOMAIN Ends[c] : Ends[c][i] = k]
Length(c, n) == IF n = 1 THEN Ends[c][1] ELSE Ends[c][n] - Ends[c][n - 1]
Total(c) == IF Ends[c] = <<>> THEN 0 ELSE Ends[c][Len(Ends[c])]

CtlInit ==
  /\ peer = [c \in Client |-> [state |-> "new", sent |-> 0, got |-> <<>>]]
  /\ sock = [c \in Client |-> [up |-> <<>>, down |-> <<>>]]
  /\ cl = [i \in CtlSlot |-> Free]
  /\ tokens = Rate

-----------------------------------------------------------------------------
(* The clients (external).                                                 *)

Connect(c) ==
  /\ peer[c].state = "new" /\ peer' = [peer EXCEPT ![c].state = "waiting"]
  /\ UNCHANGED <<sock, cl, tokens>>

\* Any number of the bytes left.
ClientSend(c) ==
  /\ peer[c].state \in {"waiting", "open"}
  /\ \E n \in peer[c].sent + 1 .. Total(c) :
       /\ sock' = [sock EXCEPT ![c].up = @ \o [k \in 1 .. n - peer[c].sent |-> Byte(c, peer[c].sent + k)]]
       /\ peer' = [peer EXCEPT ![c].sent = n]
  /\ UNCHANGED <<cl, tokens>>

ClientRead(c) ==
  /\ sock[c].down # <<>>
  /\ peer' = [peer EXCEPT ![c].got = @ \o sock[c].down]
  /\ sock' = [sock EXCEPT ![c].down = <<>>]
  /\ UNCHANGED <<cl, tokens>>

ClientClose(c) ==
  /\ peer[c].state = "open" /\ peer' = [peer EXCEPT ![c].state = "closed"]
  /\ UNCHANGED <<sock, cl, tokens>>

\* Time passes: the limiter has its tokens again.
Refill ==
  /\ tokens < Rate /\ tokens' = Rate
  /\ UNCHANGED <<peer, sock, cl>>

-----------------------------------------------------------------------------
(* client_read: all there is, as far as the line buffer has room; the rest *)
(* of an over-long line is dropped up to its end.                          *)

NlAt(b) == SelectInSeq(b, LAMBDA x : x.nl)

\* A slip: what follows an over-long line in the same piece is dropped too.
Greedy_Read(s, up) ==
  IF s.discard THEN [s |-> [s EXCEPT !.discard = NlAt(up) = 0], up |-> <<>>]
  ELSE LET n == IF Len(up) < InCap - Len(s.in) THEN Len(up) ELSE InCap - Len(s.in)
       IN  [s |-> [s EXCEPT !.in = @ \o SubSeq(up, 1, n)], up |-> SubSeq(up, n + 1, Len(up))]

Read(s, up) ==
  LET drop == IF ~s.discard THEN 0 ELSE IF NlAt(up) = 0 THEN Len(up) ELSE NlAt(up)
      rest == SubSeq(up, drop + 1, Len(up))
      room == InCap - Len(s.in)
      n    == IF Len(rest) < room THEN Len(rest) ELSE room
  IN  [s  |-> [s EXCEPT !.discard = @ /\ NlAt(up) = 0, !.in = @ \o SubSeq(rest, 1, n)],
       up |-> SubSeq(rest, n + 1, Len(rest))]

\* The peer has closed and its bytes are read: client_close.
Ended(c, s, up) == peer[c].state = "closed" /\ up = <<>> /\ Len(s.in) < InCap

(* One request per client and call: what is done with a client's buffer.   *)

HasLine(s) == s.fd # {} /\ (NlAt(s.in) # 0 \/ Len(s.in) = InCap)

QueueReply(s, reply) ==            \* client_queue: a client that never reads is closed
  IF Len(s.out) = OutCap THEN Free ELSE [s EXCEPT !.out = Append(@, reply)]

Serve(s, verdict) ==
  LET n == NlAt(s.in)
  IN  IF n = 0 THEN QueueReply([s EXCEPT !.in = <<>>, !.discard = TRUE],
                          [line |-> Last(s.in).line, v |-> "line_too_long"])
      ELSE QueueReply([s EXCEPT !.in = SubSeq(@, n + 1, Len(@))],     \* ecm_ctl_handle
                 [line |-> s.in[n].line, v |-> verdict])

-----------------------------------------------------------------------------
(* ecm_ctl_srv_service: accept, read, serve, send.                         *)

Backlog == {c \in Client : peer[c].state = "waiting"}
FreeSlots == {i \in CtlSlot : cl[i].fd = {}}

\* accept4 until nobody waits; without a free slot the connection is refused.
Accept ==
  /\ Backlog # {}
  /\ \E c \in Backlog :
       IF FreeSlots = {}
       THEN peer' = [peer EXCEPT ![c].state = "refused"] /\ UNCHANGED cl
       ELSE LET i == CHOOSE i \in FreeSlots : \A j \in FreeSlots : i <= j
            IN  /\ peer' = [peer EXCEPT ![c].state = "open"]
                /\ cl' = [cl EXCEPT ![i] = [Free EXCEPT !.fd = {c}]]
  /\ UNCHANGED <<sock, tokens>>

\* The rest of the call, for the client in slot i: read, at most one request,
\* send as far as the kernel takes it.  The slots share only the limiter: a
\* line costs a token, an over-long one does not, and without a token it is
\* refused.  (max_cmds is the number of slots and never binds.)
Service(i) ==
  /\ \E c \in cl[i].fd : \E rd \in {Read(cl[i], sock[c].up)} :
       LET end  == Ended(c, rd.s, rd.up)
           line == ~end /\ HasLine(rd.s)
           pays == line /\ NlAt(rd.s.in) # 0 /\ tokens > 0
           v    == IF tokens > 0 THEN "handled" ELSE "rate_limited"
           room == SockCap - Len(sock[c].down)
       IN  \E q \in {IF end THEN Free ELSE IF line THEN Serve(rd.s, v) ELSE rd.s} :
             LET n == IF Len(q.out) < room THEN Len(q.out) ELSE room
             IN  /\ cl' = [cl EXCEPT ![i] = [q EXCEPT !.out = SubSeq(@, n + 1, Len(@))]]
                 /\ sock' = [sock EXCEPT ![c].up = rd.up, ![c].down = @ \o SubSeq(q.out, 1, n)]
                 /\ peer' = IF line /\ q.fd = {} THEN [peer EXCEPT ![c].state = "dropped"]
                            ELSE peer
                 /\ tokens' = IF pays THEN tokens - 1 ELSE tokens

CtlNext ==
  \/ Accept \/ Refill \/ \E i \in CtlSlot : Service(i)
  \/ \E c \in Client : Connect(c) \/ ClientSend(c) \/ ClientRead(c) \/ ClientClose(c)

CtlSpec == CtlInit /\ [][CtlNext]_ctlVars

-----------------------------------------------------------------------------
OutOf(c) == IF \E i \in CtlSlot : c \in cl[i].fd
            THEN cl[CHOOSE i \in CtlSlot : c \in cl[i].fd].out ELSE <<>>
Replies(c) == peer[c].got \o sock[c].down \o OutOf(c)
TooLong(c, n) == Length(c, n) > InCap

\* However the bytes of a client arrive and whatever the other clients do, its
\* n-th reply answers its n-th line: none is repeated or answered for another,
\* and exactly the lines that do not fit the buffer are told so.  Once the
\* server has taken all its bytes, every complete line has its reply.
RepliesInOrder ==
  /\ \A c \in Client : \A n \in 1 .. Len(Replies(c)) :
       LET r == Replies(c)[n] IN r.line = n /\ (r.v = "line_too_long" <=> TooLong(c, n))
  /\ \A i \in CtlSlot : \A c \in cl[i].fd :
       sock[c].up = <<>> /\ cl[i].in = <<>> /\ ~cl[i].discard =>
         Len(Replies(c)) = Cardinality({n \in DOMAIN Ends[c] : Ends[c][n] <= peer[c].sent})
=============================================================================
