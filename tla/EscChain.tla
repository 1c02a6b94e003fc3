------------------------------ MODULE EscChain ------------------------------
(***************************************************************************)
(* A datagram on its way through the chain of soft_bus slaves              *)
(* (process_datagram, fmmu_apply, fmmu_apply_bits): who is addressed, what *)
(* is read into the datagram and written from it on the fly, through       *)
(* byte- and bit-oriented FMMUs, and the working counter.  One step is one *)
(* slave.                                                                  *)
(*                                                                         *)
(* A byte has W bits.  A bit of the datagram or of a slave's memory is the *)
(* set of the bits it is the OR of, so what ends up where can be compared  *)
(* with what the addresses say.                                            *)
(***************************************************************************)
EXTENDS Integers, Sequences, FiniteSets, FiniteSetsExt

CONSTANTS
  W,           \* bits of a byte (8)
  MemBytes,    \* size of a slave's memory
  Chains,      \* the chains to look at: sequences of slaves
  Commands     \* the datagrams to look at

\* A slave: its station address (0 until it is assigned), its FMMUs in their
\* order, and the injection wkc_short.  An FMMU maps the logical bits from byte ls
\* bit lsb to byte ls + len - 1 bit leb to the memory from byte ps bit psb.
\* A datagram: command, address, logical start byte, length in byte.

VARIABLES
  chn, dgm,    \* the chain and the datagram of this behaviour
  pos,         \* the next slave, 1 ..
  adp,         \* local_adp
  mem,         \* memory of each slave: bit -> set of origins
  dat,         \* data of the datagram: bit -> set of origins
  wkc,
  valid        \* slaves that set got_valid_outputs

chainVars == <<chn, dgm, pos, adp, mem, dat, wkc, valid>>

MasterBit(b)   == {<<0, b>>}
SlaveBit(k, q) == {<<k, q>>}

ChainInit ==
  /\ chn \in Chains /\ dgm \in Commands
  /\ pos = 1 /\ adp = dgm.adp /\ wkc = 0 /\ valid = {}
  /\ mem = [k \in DOMAIN chn |-> [q \in 0 .. MemBytes * W - 1 |-> SlaveBit(k, q)]]
  /\ dat = [b \in 0 .. dgm.len * W - 1 |-> MasterBit(b)]

-----------------------------------------------------------------------------
(* Logical commands.                                                       *)

Larger(a, b)  == IF a > b THEN a ELSE b
Smaller(a, b) == IF a < b THEN a ELSE b
BitOriented(f) == f.lsb # 0 \/ f.leb # W - 1 \/ f.psb # 0

\* fmmu_apply_bits: the bits both have, where they are in the datagram (d) and
\* in the memory (p).
BitSegment(f) ==
  LET l0 == f.ls * W + f.lsb
      l1 == (f.ls + f.len - 1) * W + f.leb + 1
      o0 == Larger(l0, dgm.log * W)
      o1 == Smaller(l1, (dgm.log + dgm.len) * W)
  IN [n |-> IF l1 <= l0 THEN 0 ELSE o1 - o0, d |-> o0 - dgm.log * W, p |-> f.ps * W + f.psb + (o0 - l0)]

\* A slip: the physical start ignores where the overlap begins.
Flat_ByteSegment(f) ==
  LET o0 == Larger(f.ls, dgm.log)
      o1 == Smaller(f.ls + f.len, dgm.log + dgm.len)
  IN [n |-> (o1 - o0) * W, d |-> (o0 - dgm.log) * W, p |-> f.ps * W]

\* fmmu_apply, the byte-oriented part.
ByteSegment(f) ==
  LET o0 == Larger(f.ls, dgm.log)
      o1 == Smaller(f.ls + f.len, dgm.log + dgm.len)
  IN [n |-> (o1 - o0) * W, d |-> (o0 - dgm.log) * W, p |-> (f.ps + o0 - f.ls) * W]

Reads(f)  == f.r /\ dgm.cmd \in {"LRD", "LRW"}
Writes(f) == f.w /\ dgm.cmd \in {"LWR", "LRW"}

\* One FMMU on x = [m, d, r, w, v]: memory, data, read, written, outputs valid.
\* The write takes the data from before the read.
ApplyFmmu(f, x) ==
  LET s == IF BitOriented(f) THEN BitSegment(f) ELSE ByteSegment(f)
      in(i) == i \in 0 .. s.n - 1
  IN IF f.len = 0 \/ s.n <= 0 THEN x
     ELSE [m |-> IF ~Writes(f) THEN x.m
                 ELSE [q \in DOMAIN x.m |-> IF in(q - s.p) THEN x.d[s.d + q - s.p] ELSE x.m[q]],
           d |-> IF ~Reads(f) THEN x.d
                 ELSE [b \in DOMAIN x.d |-> IF in(b - s.d) THEN x.m[s.p + b - s.d] ELSE x.d[b]],
           r |-> x.r \/ Reads(f),
           w |-> x.w \/ Writes(f),
           v |-> x.v \/ (Writes(f) /\ (BitOriented(f) \/ ~Reads(f)))]

\* fmmu_apply: every active FMMU in turn, one WKC contribution for all of them.
FmmuApply(k) ==
  LET fs == chn[k].fmmus
      x[i \in 0 .. Len(fs)] ==
        IF i = 0 THEN [m |-> mem[k], d |-> dat, r |-> FALSE, w |-> FALSE, v |-> FALSE]
        ELSE ApplyFmmu(fs[i], x[i - 1])
      y == x[Len(fs)]
  IN /\ mem' = [mem EXCEPT ![k] = y.m] /\ dat' = y.d
     /\ wkc' = wkc + (IF y.r THEN 1 ELSE 0)
                   + (IF y.w THEN IF dgm.cmd = "LRW" THEN 2 ELSE 1 ELSE 0)
     /\ valid' = IF y.v THEN valid \cup {k} ELSE valid

LogicalStep(k) ==
  /\ dgm.cmd \in {"LRD", "LWR", "LRW"}
  /\ IF chn[k].skip THEN UNCHANGED <<mem, dat, wkc, valid>> ELSE FmmuApply(k)
  /\ UNCHANGED adp

-----------------------------------------------------------------------------
(* Physical commands, at the start of the memory.                          *)

\* esc_addr_match; AP* count the address up to 0, modulo 2^16.
Match(k) ==
  CASE dgm.cmd \in {"APRD", "APWR", "APRW", "ARMW"} -> adp = 0
    [] dgm.cmd \in {"FPRD", "FPWR", "FPRW", "FRMW"} ->
         dgm.adp = chn[k].addr \/ (chn[k].aliased /\ dgm.adp = chn[k].alias)
    [] OTHER -> TRUE

DoRead(k)  == CASE dgm.cmd \in {"ARMW", "FRMW"} -> Match(k)
                [] OTHER -> Match(k) /\ dgm.cmd \in {"APRD", "APRW", "FPRD", "FPRW", "BRD", "BRW"}
DoWrite(k) == CASE dgm.cmd \in {"ARMW", "FRMW"} -> ~Match(k)
                [] OTHER -> Match(k) /\ dgm.cmd \in {"APWR", "APRW", "FPWR", "FPRW", "BWR", "BRW"}

\* esc_phys_read, esc_phys_read_or, esc_phys_write around the saved write source.
PhysicalStep(k) ==
  /\ dgm.cmd \notin {"LRD", "LWR", "LRW"}
  /\ dat' = IF ~DoRead(k) THEN dat
            ELSE [b \in DOMAIN dat |-> IF dgm.cmd \in {"BRD", "BRW"} THEN dat[b] \cup mem[k][b] ELSE mem[k][b]]
  /\ mem' = IF ~DoWrite(k) THEN mem
            ELSE [mem EXCEPT ![k] = [q \in DOMAIN @ |-> IF q \in DOMAIN dat THEN dat[q] ELSE @[q]]]
  /\ wkc' = wkc + (IF DoRead(k) THEN 1 ELSE 0)
                + (IF DoWrite(k) THEN IF DoRead(k) THEN 2 ELSE 1 ELSE 0)
  /\ adp' = IF dgm.cmd \in {"APRD", "APWR", "APRW", "ARMW"} THEN (adp + 1) % 65536 ELSE adp
  /\ UNCHANGED valid

\* process_datagram: the next slave.
Pass ==
  /\ pos <= Len(chn) /\ pos' = pos + 1
  /\ LogicalStep(pos) \/ PhysicalStep(pos)
  /\ UNCHANGED <<chn, dgm>>

ChainNext == Pass

ChainSpec == ChainInit /\ [][ChainNext]_chainVars

-----------------------------------------------------------------------------
(* The reference: bit by bit from the addresses, for all slaves at once.   *)

\* The memory bit logical bit b of the datagram is mapped to by f, as a set.
Target(f, b) ==
  LET l  == dgm.log * W + b
      l0 == f.ls * W + f.lsb
  IN IF f.len > 0 /\ l >= l0 /\ l <= (f.ls + f.len - 1) * W + f.leb
     THEN {f.ps * W + f.psb + l - l0} ELSE {}

Fmmus(k)      == {chn[k].fmmus[i] : i \in DOMAIN chn[k].fmmus}
Logical       == dgm.cmd \in {"LRD", "LWR", "LRW"}
Here(k)       == CASE dgm.cmd \in {"APRD", "APWR", "APRW", "ARMW"} -> (dgm.adp + k - 1) % 65536 = 0
                   [] OTHER -> Match(k)
ReadsHere(k)  == IF dgm.cmd \in {"ARMW", "FRMW"} THEN Here(k)
                 ELSE Here(k) /\ dgm.cmd \in {"APRD", "APRW", "FPRD", "FPRW", "BRD", "BRW"}
WritesHere(k) == IF dgm.cmd \in {"ARMW", "FRMW"} THEN ~Here(k)
                 ELSE Here(k) /\ dgm.cmd \in {"APWR", "APRW", "FPWR", "FPRW", "BWR", "BRW"}

\* Memory bits of slave k that are read into bit b, and written from it.
ReadFrom(k, b)  == IF ~Logical THEN IF ReadsHere(k) THEN {b} ELSE {}
                   ELSE IF chn[k].skip THEN {}
                   ELSE UNION {Target(f, b) : f \in {g \in Fmmus(k) : Reads(g)}}
WrittenTo(k, b) == IF ~Logical THEN IF WritesHere(k) THEN {b} ELSE {}
                   ELSE IF chn[k].skip THEN {}
                   ELSE UNION {Target(f, b) : f \in {g \in Fmmus(k) : Writes(g)}}

\* Bit b as it reaches slave k: what the last slave before it put there, or, for
\* a broadcast, the OR of them all; the master's bit if there was none.
Arriving(k, b) ==
  LET js == {j \in 1 .. k - 1 : ReadFrom(j, b) # {}}
  IN IF dgm.cmd \in {"BRD", "BRW"}
     THEN MasterBit(b) \cup UNION {SlaveBit(j, b) : j \in js}
     ELSE IF js = {} THEN MasterBit(b)
     ELSE UNION {SlaveBit(Max(js), q) : q \in ReadFrom(Max(js), b)}

Bits == DOMAIN dat
ReadingSlaves  == {k \in DOMAIN chn : \E b \in Bits : ReadFrom(k, b) # {}}
WritingSlaves  == {k \in DOMAIN chn : \E b \in Bits : WrittenTo(k, b) # {}}

\* process_datagram and fmmu_apply against the addresses: when the datagram comes
\* back, each bit of it and of every memory is the one the address tables say,
\* byte-oriented FMMUs like bit-oriented ones, and the working counter counts each
\* slave once per direction, two for a write it did while reading.
DatagramAsAddressed ==
  pos > Len(chn) =>
    /\ \A b \in Bits : dat[b] = Arriving(pos, b)
    /\ \A k \in DOMAIN chn : \A q \in DOMAIN mem[k] :
         LET bs == {b \in Bits : q \in WrittenTo(k, b)}
         IN mem[k][q] = IF bs = {} THEN SlaveBit(k, q) ELSE UNION {Arriving(k, b) : b \in bs}
    /\ wkc = Cardinality(ReadingSlaves) + Cardinality(WritingSlaves)
             + Cardinality(WritingSlaves \cap IF dgm.cmd = "LRW" THEN DOMAIN chn ELSE ReadingSlaves)
=============================================================================
