----------------------------- MODULE MCBringUp -----------------------------
(* Start-up configurations for BringUp: options, ENI file and bus together. *)
EXTENDS BringUp

Ent(d, o, b) == [dir |-> d, obj |-> o, bits |-> b]
MapA == <<Ent("out", "CW", 2), Ent("out", "TPOS", 3), Ent("in", "SW", 2), Ent("in", "APOS", 3)>>
MapB == <<Ent("out", "TPOS", 3), Ent("out", "pad", 1), Ent("out", "CW", 1), Ent("in", "APOS", 3), Ent("in", "SW", 2)>>
MapC == <<Ent("out", "CW", 1), Ent("out", "MODE", 1), Ent("in", "MODEDISP", 1), Ent("in", "SW", 1)>>
MapD == <<Ent("out", "CW", 2), Ent("out", "TVEL", 3), Ent("in", "SW", 2), Ent("in", "AVEL", 3)>>
Dev == [id |-> 1, rev |-> 1, coe |-> TRUE, map |-> MapA, remap |-> MapC, sii |-> MapA, hasdc |-> TRUE,
        own |-> FALSE, modes |-> {"CSP", "PP"}, refuses |-> {}]
Ref(s, o, v) == [slave |-> s, obj |-> o, val |-> v]
NoOpt == [eni |-> FALSE, allowReg |-> FALSE, n |-> 2, motion |-> -1, io |-> {}, ioGiven |-> FALSE, scan |-> FALSE,
          trust |-> FALSE, nodc |-> FALSE, no6502 |-> FALSE, hook |-> TRUE, profile |-> FALSE,
          sets |-> {}, gets |-> {}, outs |-> {}, ins |-> {}, axes |-> {}]
EniOpt == [NoOpt EXCEPT !.eni = TRUE, !.n = 0]
EniSlave == [id |-> 1, rev |-> 1, checkRev |-> TRUE, out |-> 5, in |-> 5, dc |-> FALSE, ref |-> FALSE,
             sync0 |-> 1, assign |-> "0300", sync1 |-> 0]
Pos(s, xs) == [i \in DOMAIN xs |-> [pos |-> s, dir |-> xs[i].dir, obj |-> xs[i].obj, bits |-> xs[i].bits]]
NoEni == [slaves |-> <<EniSlave, EniSlave>>, coe |-> <<>>, regs |-> <<>>, pdcmd |-> "lrw", pdo |-> <<>>]
Nothing == [opt |-> NoOpt, eni |-> NoEni, bus |-> <<>>]
C(o, e, b) == [opt |-> o, eni |-> e, bus |-> b]

\* Which table, whose mapping.
PdoFamily ==
  LET sets == {Ref(1, "CW", 3), Ref(1, "TPOS", 5)}
  IN {C([IF e THEN EniOpt ELSE NoOpt EXCEPT !.scan = sc, !.trust = tr, !.nodc = TRUE, !.io = io, !.sets = sets,
           !.gets = {Ref(2, "SW", 0)}, !.outs = {Ref(2, "CW", 0)}],
        [NoEni EXCEPT !.pdo = Pos(1, MapA) \o Pos(2, MapA)],
        <<[Dev EXCEPT !.map = m1, !.sii = s1, !.own = ow], [Dev EXCEPT !.map = m2, !.coe = c]>>) :
       e \in BOOLEAN, sc \in BOOLEAN, tr \in BOOLEAN, io \in {{}, {1}}, m1 \in {MapA, MapB}, s1 \in {MapA, MapB, MapC},
       ow \in BOOLEAN, m2 \in {MapA}, c \in BOOLEAN}

\* InitCmds of both transitions, refused, lost, or changing the mapping.
CmdFamily ==
  LET k(p, t, o) == [pos |-> p, trans |-> t, obj |-> o]
  IN {C([EniOpt EXCEPT !.nodc = TRUE, !.io = io, !.scan = sc, !.gets = {Ref(1, "SW", 0)}],
        [NoEni EXCEPT !.coe = l, !.slaves = <<[EniSlave EXCEPT !.out = b, !.in = b, !.checkRev = cr], EniSlave>>],
        <<[Dev EXCEPT !.refuses = rf, !.rev = rv], Dev>>) :
       io \in {{}, {1}}, sc \in BOOLEAN, b \in {2, 5}, cr \in BOOLEAN, rv \in {1, 2}, rf \in {{}, {"x"}},
       l \in {<<k(2, {"IP"}, "y"), k(1, {"IP", "PS"}, "x"), k(2, {"PS"}, "y"), k(1, {"PS"}, "assign")>>,
              <<k(2, {"PS"}, "y"), k(1, {"PS"}, "y"), k(2, {"PS"}, "z")>>, <<k(1, {"SO"}, "x")>>}}

\* The ENI's DC settings against the bus.
DcFamily ==
  LET es(d, r, a, s0, s1) == [EniSlave EXCEPT !.dc = d, !.ref = r, !.assign = a, !.sync0 = s0, !.sync1 = s1]
      reg(ado, kd, data) == [pos |-> 2, trans |-> {"PS"}, ado |-> ado, kind |-> kd, data |-> data]
  IN {C([IF e THEN EniOpt ELSE NoOpt EXCEPT !.nodc = nd, !.io = io],
        [NoEni EXCEPT !.slaves = <<es(d[1], d[2], "0300", 1, 0), es(d[3], d[4], a[1], a[2], a[3])>>, !.regs = rg],
        <<[Dev EXCEPT !.hasdc = h], Dev>>) :
       e \in {TRUE}, nd \in {FALSE}, io \in {{}, {1}}, h \in BOOLEAN,
       d \in {<<FALSE, FALSE, FALSE, FALSE>>, <<TRUE, TRUE, TRUE, FALSE>>, <<FALSE, FALSE, TRUE, TRUE>>,
              <<TRUE, FALSE, TRUE, TRUE>>, <<TRUE, TRUE, TRUE, TRUE>>},
       a \in {<<"0300", 1, 0>>, <<"0700", 1, 1>>, <<"0300", 1, 1>>, <<"0300", 2, 0>>},
       rg \in {<<>>, <<reg("SYNC0", "wr", <<1, 1>>)>>, <<reg("LATCH", "wr", <<1>>)>>}}
     \cup {C([NoOpt EXCEPT !.io = io, !.nodc = nd], NoEni, <<[Dev EXCEPT !.hasdc = h], Dev>>) :
             io \in {{}, {1}}, h \in BOOLEAN, nd \in BOOLEAN}

\* Axes, modes and drives.
AxisFamily ==
  {C([NoOpt EXCEPT !.scan = TRUE, !.nodc = TRUE, !.axes = {[slave |-> s, modes |-> m]}, !.no6502 = n6, !.profile = pf],
     NoEni, <<[Dev EXCEPT !.map = mp, !.modes = dm, !.refuses = rf], Dev>>) :
    s \in {1, 3}, m \in {{"CSP"}, {"CSP", "PP"}, {"CSV"}, {"HM"}}, n6 \in BOOLEAN, pf \in BOOLEAN,
    mp \in {MapA, MapC \o MapA, MapD}, dm \in {{"CSP"}, {"CSP", "PP", "CSV"}}, rf \in {{}, {"6502"}, {"6060"}, {"6081"}}}

\* Groups and the number of slaves.
GroupFamily ==
  {C([NoOpt EXCEPT !.n = n, !.motion = k, !.io = io, !.ioGiven = io # {}, !.scan = TRUE, !.nodc = FALSE, !.sets = {Ref(1, "TPOS", 6)},
        !.gets = {Ref(2, "APOS", 0)}],
     NoEni, [i \in 1..b |-> Dev]) :
    n \in 0..4, k \in -1..3, io \in {{}, {2}, {1, 2}}, b \in 0..3}

MCConfigs == {Nothing} \cup PdoFamily \cup CmdFamily \cup DcFamily \cup AxisFamily \cup GroupFamily
=============================================================================
