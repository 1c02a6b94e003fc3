----------------------------- MODULE MCChannels -----------------------------
(***************************************************************************)
(* The channels between the threads of ecm_run, to the programs that use   *)
(* it and to the dictionary of a slave, each on its own in a behaviour:    *)
(* "part" says which one runs, the others stay where they started.         *)
(***************************************************************************)
EXTENDS Handoff, SpscRing, Seqlock, Exchange, CtlServer, SdoApi, EscCoe

VARIABLE part

\* Where the lines of a client end: split over sends, several in one, too long.
MCEnds == 1 :> <<4, 5>> @@ 2 :> <<1, 2>> @@ 3 :> <<>>

\* Object 1 is in the communication area, 2 steers the axis, 3:1 is mapped as an
\* output, 4 is set by the ENI, 5 is free.
Obj(i, s) == [idx |-> i, sub |-> s]
MCObject  == {Obj(1, 1), Obj(2, 0), Obj(3, 2), Obj(4, 1), Obj(5, 1)}
MCRxPdo   == {Obj(3, 1)}
MCInitCmd == {Obj(4, 1)}
MCValue   == {-2, -1, 2, 4}

\* Allowlist files: good ones, one with a range its type cannot hold, one with an
\* object twice, one inside the communication area.
Entry(o, t, a, b) == [obj |-> o, type |-> t, min |-> a, max |-> b]
MCFiles ==
  {<<>>,
   <<Entry(Obj(1, 1), "u", 0, 1)>>,
   <<Entry(Obj(5, 1), "i", -1, 1), Entry(Obj(3, 2), "u", 0, 3)>>,
   <<Entry(Obj(4, 1), "i", -2, 0), Entry(Obj(5, 1), "u", 1, 2)>>,
   <<Entry(Obj(5, 1), "u", 2, 4)>>,
   <<Entry(Obj(5, 1), "i", -1, 1), Entry(Obj(5, 1), "u", 0, 3)>>}

\* The data a request of a CoE client carries.
MCChunks == {<<1>>, <<1, 1>>, <<0, 0, 1>>}

mcVars == <<part, vars, ringVars, seqVars, xchgVars, ctlVars, sdoVars, coeVars>>

MCInit ==
  /\ part \in {"handoff", "ring", "seqlock", "xchg", "ctl", "sdo", "coe"}
  /\ Init /\ RingInit /\ SeqInit /\ XchgInit /\ CtlInit /\ SdoInit /\ CoeInit
  /\ part # "handoff" => slot = [k \in Slot |-> msg] /\ out = msg /\ msg = CHOOSE m \in Message : TRUE
  /\ part # "ring" => ringHead = 0 /\ pushMsg = CHOOSE m \in RingMessage : TRUE
  /\ IF part = "coe" THEN target # "rec" => coeCa ELSE target = "str" /\ coeCa
  /\ part # "sdo" => file = <<>> /\ ~slave.pdo /\ ~slave.mbx
  /\ part # "xchg" => app.lead = CHOOSE l \in Leads : TRUE

MCNext ==
  /\ UNCHANGED part
  /\ \/ part = "handoff" /\ Next     /\ UNCHANGED <<ringVars, seqVars, xchgVars, ctlVars, sdoVars, coeVars>>
     \/ part = "ring"    /\ RingNext /\ UNCHANGED <<vars, seqVars, xchgVars, ctlVars, sdoVars, coeVars>>
     \/ part = "seqlock" /\ SeqNext  /\ UNCHANGED <<vars, ringVars, xchgVars, ctlVars, sdoVars, coeVars>>
     \/ part = "xchg"    /\ XchgNext /\ UNCHANGED <<vars, ringVars, seqVars, ctlVars, sdoVars, coeVars>>
     \/ part = "ctl"     /\ CtlNext  /\ UNCHANGED <<vars, ringVars, seqVars, xchgVars, sdoVars, coeVars>>
     \/ part = "sdo"     /\ SdoNext  /\ UNCHANGED <<vars, ringVars, seqVars, xchgVars, ctlVars, coeVars>>
     \/ part = "coe"     /\ CoeNext  /\ UNCHANGED <<vars, ringVars, seqVars, xchgVars, ctlVars, sdoVars>>

MCSpec == MCInit /\ [][MCNext]_mcVars
=============================================================================
