----------------------------- MODULE MCSoftBus -----------------------------
(***************************************************************************)
(* The parts of the soft_bus simulator, and the loops of the master that   *)
(* must come to an end or settle, each on its own in a behaviour: "part"   *)
(* says which one runs, the others stay where they started.                *)
(***************************************************************************)
EXTENDS EscMailbox, EscTxq, EscChain, EscProfile, Mailbox, TelemetryWindow, DcLock

VARIABLE part

Fmmu(ls, len, lsb, leb, ps, psb, r, w) ==
  [ls |-> ls, len |-> len, lsb |-> lsb, leb |-> leb, ps |-> ps, psb |-> psb, r |-> r, w |-> w]

\* Every FMMU over two bytes of two bits, aligned or not, empty ones included.
AnyFmmu ==
  {Fmmu(ls, len, lsb, leb, ps, psb, t[1], t[2]) :
     ls \in 0 .. 1, len \in 0 .. 2, lsb \in 0 .. 1, leb \in 0 .. 1, ps \in 0 .. 1, psb \in 0 .. 1,
     t \in {<<TRUE, FALSE>>, <<FALSE, TRUE>>, <<TRUE, TRUE>>}}

Slave(addr, skip, fmmus) ==
  [addr |-> addr, alias |-> 7, aliased |-> addr = 3, skip |-> skip, fmmus |-> fmmus]

\* For logical commands: any FMMU in front of a slave with outputs and inputs the
\* way SOEM maps them.  For the others: addresses unassigned, equal or an alias.
LogicalChains ==
  {<<Slave(1, FALSE, <<f>>),
     Slave(2, s, <<Fmmu(0, 1, 0, 1, 0, 0, FALSE, TRUE), Fmmu(1, 1, 0, 1, 1, 0, TRUE, FALSE)>>)>> :
     f \in AnyFmmu, s \in BOOLEAN}
AddressChains == {<<Slave(1, FALSE, <<>>), Slave(2, FALSE, <<>>), Slave(a, FALSE, <<>>)>> : a \in {0, 2, 3}}
MCChains == LogicalChains \cup AddressChains

MCCommands ==
  [cmd : {"LRD", "LWR", "LRW"}, adp : {0}, log : 0 .. 1, len : 1 .. 2]
  \cup [cmd : {"APRD", "APWR", "APRW", "ARMW"}, adp : {0, 65535, 65534, 1}, log : {0}, len : {1}]
  \cup [cmd : {"FPRD", "FPWR", "FPRW", "FRMW", "BRD", "BWR", "BRW", "NOP"}, adp : {0, 1, 2, 7}, log : {0}, len : {1}]

\* p excludes q, q does not name p; r may join either; x has the other direction.
MCPdos ==
  [p \in {"p", "q", "r", "x"} |->
     [right |-> p # "x", bits |-> IF p = "r" THEN 3 ELSE 8, ex |-> IF p = "p" THEN {"q"} ELSE {}]]

\* Phases at an anchor and drifts per cycle, in tenths of a microsecond.
MCPhases == {-4999, 2400, 5000}
MCDrifts == {-2, 1}

simVars  == <<mbxVars, txqVars, chainVars, profVars>>
loopVars == <<mbVars, winVars, dclVars>>
vars     == <<part, simVars, loopVars>>

MCInit ==
  /\ part \in {"mbx", "txq", "chain", "prof", "mailbox", "window", "dclock"}
  /\ part # "chain" => /\ chn = <<Slave(1, FALSE, <<>>), Slave(2, FALSE, <<>>), Slave(0, FALSE, <<>>)>>
                       /\ dgm = [cmd |-> "NOP", adp |-> 0, log |-> 0, len |-> 1]
  /\ MbxInit /\ TxqInit /\ ChainInit /\ ProfInit
  /\ part = "chain" => (Logical <=> chn \in LogicalChains)
  /\ MbInit /\ WinInit /\ DclInit

MCNext ==
  /\ UNCHANGED part
  /\ \/ /\ UNCHANGED loopVars
        /\ \/ part = "mbx"   /\ MbxNext   /\ UNCHANGED <<txqVars, chainVars, profVars>>
           \/ part = "txq"   /\ TxqNext   /\ UNCHANGED <<mbxVars, chainVars, profVars>>
           \/ part = "chain" /\ ChainNext /\ UNCHANGED <<mbxVars, txqVars, profVars>>
           \/ part = "prof"  /\ ProfNext  /\ UNCHANGED <<mbxVars, txqVars, chainVars>>
     \/ /\ UNCHANGED simVars
        /\ \/ part = "mailbox" /\ MbNext  /\ UNCHANGED <<winVars, dclVars>>
           \/ part = "window"  /\ WinNext /\ UNCHANGED <<mbVars, dclVars>>
           \/ part = "dclock"  /\ DclNext /\ UNCHANGED <<mbVars, winVars>>

\* Time passes; a caller of the mailbox whose wait has ended runs, and so do the
\* worker, until it is stopped, and the telemetry thread, which polls for ever
\* (SCHED_OTHER threads off the RT core).  Nobody has to call or to open a window.
ThreadsRun ==
  /\ WF_mbVars(TimePasses) /\ WF_mbVars(part = "mailbox" /\ Worker)
  /\ \A c \in Callers : WF_mbVars(Wake(c) \/ TimedOut(c))
  /\ WF_winVars(part = "window" /\ Poll)

MCSpec == MCInit /\ [][MCNext]_vars /\ TxqFairness /\ DclFairness /\ ThreadsRun
=============================================================================
