------------------------------- MODULE BringUp -------------------------------
(***************************************************************************)
(* Bring-up of ecm_run: options and ENI, scan of the bus, InitCmds, PDO    *)
(* table, bindings, axes, DC, and the way to OP, stage by stage as main()  *)
(* goes, each with its refusals.  A configuration is what the user wrote   *)
(* (opt), the ENI and the devices on the bus.  SOEM is external: it scans, *)
(* maps and requests states.                                               *)
(***************************************************************************)
EXTENDS PdoTable, FiniteSets, FiniteSetsExt

CONSTANTS Configs, CycleTime

VARIABLES
  cfg,      \* [opt, eni, bus]
  stage,    \* how far main() is
  grp,      \* group per slave in use
  ran,      \* InitCmds executed with success: <<transition, number>>
  tab,      \* [use, t, broken]: table in use, slaves whose CoE scan broke off
  hdl,      \* handles, with the option they come from
  asked,    \* AL state last requested
  sync,     \* [on, ref, armed, sync1]
  img       \* IOmap per group

buVars == <<cfg, stage, grp, ran, tab, hdl, asked, sync, img>>

opt == cfg.opt
eni == cfg.eni
bus == cfg.bus
BusSlaves == DOMAIN bus
Lines(seq) == {seq[i] : i \in DOMAIN seq}

SumBits(xs, d) == FoldLeft(LAMBDA v, x : IF x.dir = d THEN v + x.bits ELSE v, 0, xs)

\* main() goes on to `next`, or closes the bus and returns 1.
Goto(ok, next) == stage' = IF ok THEN next ELSE "refused"

BuInit ==
  /\ cfg \in Configs
  /\ stage = "options" /\ grp = <<>> /\ ran = <<>> /\ hdl = {} /\ asked = "INIT"
  /\ tab = [use |-> "none", t |-> NoTable(0), broken |-> {}]
  /\ sync = [on |-> FALSE, ref |-> 0, armed |-> {}, sync1 |-> {}]
  /\ img = [motion |-> <<>>, io |-> <<>>]

\* Checks of parse_slave and, over the whole file, ecm_eni_parse_text.
EniLoads ==
  /\ \A s \in DOMAIN eni.slaves : eni.slaves[s].ref => eni.slaves[s].dc
  /\ eni.pdo # <<>> => \A s \in DOMAIN eni.slaves, d \in Dir :
       SumBits(SelectSeq(eni.pdo, LAMBDA x : x.pos = s), d) = eni.slaves[s][d]
  /\ LET refs == Cardinality({s \in DOMAIN eni.slaves : eni.slaves[s].ref})
     IN  refs <= 1 /\ ((\E s \in DOMAIN eni.slaves : eni.slaves[s].dc) => refs = 1)

\* ecm_eni_reg_known: registers SOEM or ecm_run writes anyway, by kind of access.
RegKnown(r) ==
  \/ r.ado \in {"ALCTL", "ASSIGN", "SYNC0", "SYNC1"} /\ r.kind = "wr"
  \/ r.ado = "ALSTAT" /\ r.kind = "rd"
  \/ r.ado = "LATCH" /\ r.kind = "wr" /\ Lines(r.data) \subseteq {0}

\* The DC registers must say what the slave record says.
DcWords(s, ado) ==
  CASE ado = "ASSIGN" -> <<s.assign>> [] ado = "SYNC0" -> <<s.sync0, s.sync1>>
    [] ado = "SYNC1" -> <<s.sync1>> [] OTHER -> <<>>

RegAgrees(r) ==
  LET w == DcWords(eni.slaves[r.pos], r.ado)
  IN  "PS" \in r.trans /\ r.kind = "wr" /\ eni.slaves[r.pos].dc =>
        \A k \in DOMAIN w \cap DOMAIN r.data : w[k] = r.data[k]

\* ecm_eni_soem_supported
EniSupported ==
  /\ eni.pdcmd # "lrd_lwr"
  /\ \A r \in Lines(eni.regs) : (RegKnown(r) \/ opt.allowReg) /\ RegAgrees(r)
  /\ \A c \in Lines(eni.coe) : c.trans \subseteq {"IP", "PS"}

\* The IO slaves of n, by --motion-slaves k or --io-slaves.
IoSlaves(n) == IF opt.motion >= 0 THEN (opt.motion + 1)..n ELSE opt.io
GroupsOk(n) ==
  /\ n > 0 /\ ~(opt.motion >= 0 /\ opt.ioGiven)
  /\ opt.motion >= 0 => 0 < opt.motion /\ opt.motion < n
  /\ opt.io \subseteq 1..n /\ IoSlaves(n) # 1..n
Grouped(n, io) == [s \in 1..n |-> IF s \in io THEN "io" ELSE "motion"]

Options ==
  /\ stage = "options"
  /\ LET n == IF opt.eni /\ opt.n <= 0 THEN Len(eni.slaves) ELSE opt.n
         ok == (opt.eni => EniLoads /\ EniSupported /\ n = Len(eni.slaves)) /\ GroupsOk(n)
     IN  /\ Goto(ok, "scan")
         /\ grp' = IF ok THEN Grouped(n, IoSlaves(n)) ELSE grp
         /\ UNCHANGED <<cfg, ran, tab, hdl, asked, sync, img>>

\* ecm_eni_check_identity
Identity ==
  /\ Len(bus) = Len(eni.slaves)
  /\ \A s \in BusSlaves : /\ bus[s].id = eni.slaves[s].id
                          /\ eni.slaves[s].checkRev => bus[s].rev = eni.slaves[s].rev

\* Without an ENI a shorter bus is taken as it is, with at least one IO slave
\* of --motion-slaves.
Shrunk ==
  LET n  == Len(bus)
      io == IF opt.motion >= n /\ n > 1 THEN {n} ELSE {s \in 1..n : grp[s] = "io"}
  IN  Grouped(n, io)

ScanBus ==
  /\ stage = "scan"
  /\ LET g == IF ~opt.eni /\ Len(bus) < Len(grp) THEN Shrunk ELSE grp
     IN  /\ Goto(Len(bus) > 0 /\ (opt.eni => Identity) /\ \E s \in DOMAIN g : g[s] = "motion", "preop")
         /\ grp' = g
         /\ UNCHANGED <<cfg, ran, tab, hdl, asked, sync, img>>

\* InitCmds of a transition for the slaves of S, in the order of the ENI.
Cmds(tr, S) == SelectSeq([i \in DOMAIN eni.coe |-> i],
                         LAMBDA i : tr \in eni.coe[i].trans /\ eni.coe[i].pos \in S)
Refused(i) == eni.coe[i].obj \in bus[eni.coe[i].pos].refuses

\* ecm_eni_soem_run_transition: all of them, counting those that fail; at most
\* one is lost on top of those the slave refuses.
RunTransition(tr, cmds, lost) ==
  SelectSeq([k \in DOMAIN cmds |-> <<tr, cmds[k]>>], LAMBDA r : ~Refused(r[2]) /\ r[2] # lost)
Losses == {0} \cup DOMAIN eni.coe

PreOp ==
  /\ stage = "preop"
  /\ UNCHANGED <<cfg, grp, tab, hdl, asked, sync, img>>
  /\ IF opt.eni
     THEN \E up \in BOOLEAN, lost \in Losses :
            LET cmds == Cmds("IP", BusSlaves) done == RunTransition("IP", cmds, lost)
            IN  /\ Goto(up /\ Len(done) = Len(cmds), "map")
                /\ ran' = IF up THEN done ELSE ran
     ELSE Goto(TRUE, "map") /\ UNCHANGED ran

\* SOEM: the mapping a slave has, and where map_group puts its bits: the outputs
\* of the group slave by slave, then the inputs.
Actual(s) ==
  IF \E i \in Lines(ran) : eni.coe[i[2]].pos = s /\ eni.coe[i[2]].obj = "assign" THEN bus[s].remap ELSE bus[s].map
Mapped(s, d) == IF s \in DOMAIN grp THEN SumBits(Actual(s), d) ELSE 0
BitsOf(S, d) == FoldSet(LAMBDA s, v : v + SumBits(Actual(s), d), 0, S)
Mates(s) == {s2 \in DOMAIN grp : grp[s2] = grp[s]}
Start(s, d) ==
  IF s \notin DOMAIN grp THEN 0
  ELSE BitsOf({s2 \in Mates(s) : s2 < s}, d) + IF d = "in" THEN BitsOf(Mates(s), "out") ELSE 0

\* ecm_eni_check_layout
LayoutOk == \A s \in BusSlaves, d \in Dir : Mapped(s, d) = eni.slaves[s][d]

\* ecx_config_map_group with the PS InitCmds of each slave in its hook
\* (ecm_eni_soem_po2so), then ecm_eni_check_layout.
Map ==
  /\ stage = "map"
  /\ UNCHANGED <<cfg, grp, tab, hdl, asked, sync>>
  /\ \E lost \in Losses :
       LET inGroup(g) == Cmds("PS", {s \in DOMAIN grp : grp[s] = g})
           cmds == IF opt.eni THEN inGroup("motion") \o inGroup("io") ELSE <<>>
       IN  /\ ran' = ran \o RunTransition("PS", cmds, lost)
           /\ Goto(Len(ran') = Len(ran) + Len(cmds) /\ (opt.eni => LayoutOk'), "table")
  /\ img' = [g \in {"motion", "io"} |-> [b \in 0..7 |-> 0]]

\* ecm_pdo_add over the pdo records of the ENI.
EniTable ==
  FoldLeft(LAMBDA t, x : IF Addable(t, x) THEN PdoAdd(t, x.pos, x) ELSE t, NoTable(Len(bus)), eni.pdo)

\* ecm_pdo_scan; the CoE scan of slave b breaks off after k entries.
ScanTable(b, k) ==
  FoldLeft(LAMBDA r, s : LET q == ScanSlave(r.t, s, bus[s], Actual(s), IF s = b THEN k ELSE MaxEntries)
                         IN  [t |-> q.t, ok |-> r.ok /\ q.ok],
           [t |-> NoTable(Len(bus)), ok |-> TRUE], [s \in BusSlaves |-> s])
Breaks == {<<0, 0>>} \cup {<<s, k>> \in BusSlaves \X (0..2) : bus[s].coe /\ k < Len(Actual(s))}

\* Table of the ENI, of the bus, or both and then equal; its totals must be
\* what is mapped.
Table ==
  /\ stage = "table"
  /\ UNCHANGED <<cfg, grp, ran, hdl, asked, sync, img>>
  /\ LET fromEni == opt.eni /\ eni.pdo # <<>>
         fits(t) == SizesMatch(t, [d \in Dir |-> [s \in BusSlaves |-> Mapped(s, d)]])
     IN  IF opt.scan
         THEN \E b \in Breaks : \E r \in {ScanTable(b[1], b[2])} :
                /\ Goto(r.ok /\ (fromEni => SameTable(EniTable, r.t)) /\ fits(r.t), "bind")
                /\ tab' = [use |-> "bus", t |-> r.t, broken |-> {b[1]} \ {0}]
         ELSE \E t \in {IF fromEni THEN EniTable ELSE NoTable(Len(bus))} :
                /\ Goto(fromEni => fits(t), "bind")
                /\ tab' = [use |-> IF fromEni THEN "eni" ELSE "none", t |-> t, broken |-> {}]

\* ecm_pdo_locate
Loc == [s \in BusSlaves |-> [group |-> IF s \in DOMAIN grp THEN grp[s] ELSE "none",
                          out |-> Start(s, "out"), in |-> Start(s, "in")]]
Handle(s, o) == IF s \in BusSlaves THEN PdoBind(tab.t, Loc, s, o) ELSE {}

\* A slip: the rule about other vendors forgotten.
Any_Trusted(S) == tab.use # "none"

\* ecm_pdo_scan_required, before a bind into the slaves of S.
Trusted(S) == tab.use = "bus" \/ opt.trust \/ ScanRequired(S, bus) = {}

\* --pdo-set and --pdo-get: all refused before any is bound into a slave of
\* another vendor; a --pdo-set must be an output.
BindRefs ==
  /\ stage = "bind"
  /\ LET ok(r, use) == Handle(r.slave, r.obj) # {} /\ (use = "set" => \A h \in Handle(r.slave, r.obj) : h.dir = "out")
         refs == {<<"set", r>> : r \in opt.sets} \cup {<<"get", r>> : r \in opt.gets}
     IN  /\ Goto(refs # {} => /\ tab.use # "none" /\ Trusted({r[2].slave : r \in refs})
                              /\ \A r \in refs : ok(r[2], r[1]), "axes")
         /\ hdl' = hdl \cup UNION {Handle(r[2].slave, r[2].obj) : r \in refs}
         /\ UNCHANGED <<cfg, grp, ran, tab, asked, sync, img>>

\* need(): the object is bound in the direction wanted, or may be missing.
Need(a, o, d, optional) ==
  IF Handle(a.slave, o) = {} THEN optional ELSE \A h \in Handle(a.slave, o) : h.dir = d
BoundAs(a, o, d) == Handle(a.slave, o) # {} /\ Need(a, o, d, FALSE)

\* ecm_axis_bind
AxisBinds(a) ==
  LET one == Cardinality(a.modes) = 1
      any(M) == a.modes \cap M # {}
  IN  /\ a.modes # {} /\ a.modes \subseteq {"CSP", "PP", "HM", "CSV", "PV", "CST"}
      /\ Need(a, "CW", "out", FALSE) /\ Need(a, "SW", "in", FALSE)
      /\ any({"CSP", "PP"}) => Need(a, "TPOS", "out", FALSE)
      /\ any({"CSP", "PP", "HM"}) => Need(a, "APOS", "in", FALSE)
      /\ any({"CSV", "PV"}) => /\ Need(a, "TVEL", "out", FALSE)
                               /\ BoundAs(a, "AVEL", "in") \/ Need(a, "APOS", "in", FALSE)
      /\ any({"CST"}) => Need(a, "TTQ", "out", FALSE) /\ Need(a, "ATQ", "in", FALSE)
      /\ Need(a, "MODE", "out", one) /\ Need(a, "MODEDISP", "in", one)
AxisObjects(m) ==
  {"CW", "SW", "APOS", "AVEL", "MODE", "MODEDISP", "ERR"} \cup (IF m \cap {"CSP", "PP"} # {} THEN {"TPOS"} ELSE {})
    \cup (IF m \cap {"CSV", "PV"} # {} THEN {"TVEL"} ELSE {}) \cup (IF "CST" \in m THEN {"TTQ", "ATQ"} ELSE {})
AxisHandles(a) == UNION {Handle(a.slave, o) : o \in AxisObjects(a.modes)}

\* 0x6502 readable and containing the modes, or --axis-no-6502; with the CiA402
\* hook a mode outside the PDOs and the profile parameters go by SDO, read back.
AxisTakes(a, lost) ==
  /\ IF "6502" \in bus[a.slave].refuses \/ lost THEN opt.no6502 ELSE a.modes \subseteq bus[a.slave].modes
  /\ opt.hook /\ Handle(a.slave, "MODE") = {} => "6060" \notin bus[a.slave].refuses
  /\ opt.hook /\ opt.profile /\ a.modes \cap {"PP", "PV", "HM"} # {} => "6081" \notin bus[a.slave].refuses

Axes ==
  /\ stage = "axes"
  /\ \E lost \in BOOLEAN :
       Goto(opt.axes # {} =>
              /\ tab.use # "none" /\ Trusted({a.slave : a \in opt.axes})
              /\ \A a \in opt.axes : a.slave \in BusSlaves /\ AxisBinds(a) /\ AxisTakes(a, lost), "xchg")
  /\ hdl' = hdl \cup UNION {AxisHandles(a) : a \in {x \in opt.axes : x.slave \in BusSlaves}}
  /\ UNCHANGED <<cfg, grp, ran, tab, asked, sync, img>>

\* Exchange slots: objects of motion slaves, in their own direction.
Xchg ==
  /\ stage = "xchg"
  /\ LET slots == {<<"out", r>> : r \in opt.outs} \cup {<<"in", r>> : r \in opt.ins}
         ok(x) == Handle(x[2].slave, x[2].obj) # {} /\
                  \A h \in Handle(x[2].slave, x[2].obj) : h.dir = x[1] /\ h.group = "motion"
     IN  /\ Goto(slots # {} => /\ tab.use # "none" /\ \A x \in slots : ok(x)
                               /\ Trusted({x[2].slave : x \in slots}), "mailbox")
         /\ hdl' = hdl \cup UNION {Handle(x[2].slave, x[2].obj) : x \in slots}
         /\ UNCHANGED <<cfg, grp, ran, tab, asked, sync, img>>

\* request_all_state: every slave answers with the state asked for, or not.
Request(from, state, next) ==
  /\ stage = from /\ \E up \in BOOLEAN : Goto(up, next)
  /\ asked' = state
  /\ UNCHANGED <<cfg, grp, ran, tab, hdl, sync, img>>

AskPreOp == Request("mailbox", "PREOP", "dc")

\* What ecm_run can do of the ENI's DC settings, slave by slave.
DcSlaves == {s \in DOMAIN eni.slaves : eni.slaves[s].dc}
FirstDc == IF \E s \in BusSlaves : bus[s].hasdc THEN Min({s \in BusSlaves : bus[s].hasdc}) ELSE 0

\* A slip: the ENI's reference clock need not be SOEM's.
AnyRef_DcApplies == \A s \in DcSlaves : bus[s].hasdc /\ eni.slaves[s].sync0 = CycleTime

DcApplies ==
  /\ \A s \in DcSlaves : LET e == eni.slaves[s] IN
       /\ bus[s].hasdc /\ e.sync0 = CycleTime
       /\ e.assign = "0700" \/ (e.assign = "0300" /\ e.sync1 = 0)
  /\ \E s \in DcSlaves : eni.slaves[s].ref /\ s = FirstDc

\* ecx_configdc gives the FRMW to the group of the first DC slave; SYNC0 by the
\* ENI or on every motion slave; the anchor read may fail.
DcOwned(ref) == ref # 0 /\ bus[ref].hasdc /\ ref = FirstDc /\ ref \in DOMAIN grp /\ grp[ref] = "motion"
Armed == {s \in BusSlaves : bus[s].hasdc /\ IF opt.eni THEN s \in DcSlaves ELSE s \in DOMAIN grp /\ grp[s] = "motion"}

Dc ==
  /\ stage = "dc"
  /\ UNCHANGED <<cfg, grp, ran, tab, hdl, asked, img>>
  /\ LET off == opt.nodc \/ (opt.eni /\ DcSlaves = {})
         ref == IF opt.eni THEN FirstDc ELSE 1
     IN  IF off THEN Goto(TRUE, "safeop") /\ UNCHANGED sync
         ELSE IF opt.eni /\ ~DcApplies THEN Goto(FALSE, "safeop") /\ UNCHANGED sync
         ELSE IF ~DcOwned(ref) THEN Goto(~opt.eni, "safeop") /\ UNCHANGED sync
         ELSE \E anchored \in BOOLEAN :
                /\ Goto(anchored \/ ~opt.eni, "safeop")
                /\ sync' = [on |-> anchored, ref |-> ref, armed |-> Armed,
                            sync1 |-> {s \in Armed : opt.eni /\ eni.slaves[s].assign = "0700"}]

SafeOp == Request("safeop", "SAFEOP", "op")
Op == Request("op", "OP", "run")

\* The loop writes the --pdo-set values into the image of their group each tick.
PdoSets(im) ==
  FoldSet(LAMBDA r, m : FoldSet(LAMBDA h, m2 : [m2 EXCEPT ![h.group] = PdoSet(h, @, r.val)],
                                m, Handle(r.slave, r.obj)), im, opt.sets)
SetCycle ==
  /\ stage = "run"
  /\ Goto(TRUE, "cycle") /\ img' = PdoSets(img)
  /\ UNCHANGED <<cfg, grp, ran, tab, hdl, asked, sync>>

BuNext ==
  \/ Options \/ ScanBus \/ PreOp \/ Map \/ Table \/ BindRefs \/ Axes \/ Xchg
  \/ AskPreOp \/ Dc \/ SafeOp \/ Op \/ SetCycle

BuSpec == BuInit /\ [][BuNext]_buVars

-----------------------------------------------------------------------------
\* Where an object really is: its first bit in the group's image.
Home(s, o) ==
  LET xs == Actual(s)
      i  == SelectInSeq(xs, LAMBDA x : x.obj = o)
  IN  Start(s, xs[i].dir) + SumBits(SubSeq(xs, 1, i - 1), xs[i].dir)
AtHome(h) == (\E x \in Lines(Actual(h.slave)) : x.obj = h.obj) /\ h.bit = Home(h.slave, h.obj)

\* Slaves whose mapping was not read from the device: taken from the ENI by
\* choice, or from the SII after a broken CoE scan.
Unread == IF tab.use = "bus" THEN tab.broken ELSE {s \in BusSlaves : bus[s].own \/ opt.trust}

\* ecm_pdo_bind, ecm_pdo_set, ecm_pdo_get: every handle into a slave whose mapping was
\* read points at the bits the device maps for its object, and a --pdo-set value arrives in its object, bit by bit, is what
\* ecm_pdo_get reads there, and leaves every other bit of the image alone.
HandlesPointHome ==
  stage \in {"run", "cycle"} =>
    /\ \A h \in hdl : h.slave \in Unread \/ AtHome(h)
    /\ stage = "cycle" /\ (\A r \in opt.sets : r.slave \notin Unread) =>
         LET cells == {[g |-> h.group, r |-> r, h |-> h] : h \in hdl, r \in opt.sets}
             mine == {c \in cells : c.h.slave = c.r.slave /\ c.h.obj = c.r.obj}
         IN  /\ \A c \in mine : Number(img[c.g], Home(c.r.slave, c.r.obj), c.h.bits) = c.r.val % 2^c.h.bits
             /\ \A c \in mine : PdoGet(c.h, img[c.g]) = c.r.val % 2^c.h.bits
             /\ \A g \in {"motion", "io"}, k \in 0..(8 * ByteBits - 1) :
                  BitAt(img[g], k) = 1 => \E c \in mine : c.g = g /\ k - c.h.bit \in 0..(c.h.bits - 1)

\* ecm_pdo.h: a slave of another vendor is bound by the table read from the bus,
\* so the bytes are those the device maps.
OtherVendorsAreRead ==
  stage = "run" /\ ~opt.trust => \A h \in hdl : bus[h.slave].own \/ AtHome(h)

\* main(): SAFE-OP is asked for only on a bus configured as the ENI says: the
\* devices and their sizes, every IP and PS InitCmd done once and in order, DC
\* with the ENI's reference clock and SYNC0 on the ENI's slaves, and every axis
\* in a mode its drive has.
RunsAsConfigured ==
  asked \in {"SAFEOP", "OP"} =>
    /\ opt.eni =>
         /\ Identity /\ LayoutOk
         /\ \A tr \in {"IP", "PS"}, s \in BusSlaves :
              LET done == SelectSeq(ran, LAMBDA r : r[1] = tr /\ eni.coe[r[2]].pos = s)
              IN  [k \in DOMAIN done |-> done[k][2]] = Cmds(tr, {s})
         /\ ~opt.nodc /\ DcSlaves # {} =>
              sync.on /\ sync.armed = DcSlaves /\ eni.slaves[sync.ref].ref /\ grp[sync.ref] = "motion"
    /\ sync.on => sync.ref = FirstDc
    /\ \A a \in opt.axes : ~opt.no6502 => a.modes \subseteq bus[a.slave].modes
=============================================================================
