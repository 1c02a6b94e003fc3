------------------------------ MODULE PdoTable ------------------------------
(***************************************************************************)
(* The PDO entry table (ecm_pdo.c), its scan of a slave (ecm_pdo_soem.c)   *)
(* and the bits a handle reads and writes.  A mapped entry is [dir, obj,   *)
(* bits]; obj stands for PDO number, index and subindex, "pad" for index 0.*)
(* An image is a function from byte numbers to bytes of ByteBits bits.     *)
(***************************************************************************)
EXTENDS Integers, SequencesExt

CONSTANTS
  MaxEntries,   \* ECM_PDO_MAX_ENTRIES
  MaxBits,      \* longest entry a handle takes
  ByteBits      \* bits of a byte

Dir == {"out", "in"}

\* ecm_pdo_table_init
NoTable(N) == [e |-> <<>>, bits |-> [d \in Dir |-> [s \in 1..N |-> 0]]]

\* ecm_pdo_add: the offset of an entry is the running total of its direction.
Addable(t, x) == Len(t.e) < MaxEntries /\ x.bits > 0

PdoAdd(t, s, x) ==
  [e    |-> Append(t.e, [slave |-> s, dir |-> x.dir, obj |-> x.obj, bits |-> x.bits, off |-> t.bits[x.dir][s]]),
   bits |-> [t.bits EXCEPT ![x.dir][s] = @ + x.bits]]

\* Adds the entries in order and stops at the first that does not fit.
AddAll(t, s, xs) ==
  FoldLeft(LAMBDA r, x : IF r.ok /\ Addable(r.t, x) THEN [r EXCEPT !.t = PdoAdd(r.t, s, x)] ELSE [r EXCEPT !.ok = FALSE],
           [t |-> t, ok |-> TRUE], xs)

\* scan_coe: outputs (0x1C12), then inputs (0x1C13); the SDO read after `reads`
\* entries fails.
CoeOrder(xs) == SelectSeq(xs, LAMBDA x : x.dir = "out") \o SelectSeq(xs, LAMBDA x : x.dir = "in")

ScanCoe(t, s, xs, reads) ==
  LET r == AddAll(t, s, SubSeq(CoeOrder(xs), 1, IF reads < Len(xs) THEN reads ELSE Len(xs)))
  IN  [r EXCEPT !.ok = @ /\ reads >= Len(xs)]

\* scan_sii: entries of length 0 are passed over.
ScanSii(t, s, xs) == AddAll(t, s, SelectSeq(CoeOrder(xs), LAMBDA x : x.bits > 0))

\* ecm_pdo_scan_slave: a partial CoE scan is undone before the SII is read.
ScanSlave(t, s, dev, xs, reads) ==
  LET c == ScanCoe(t, s, xs, reads)
  IN  IF dev.coe /\ c.ok THEN c ELSE ScanSii(t, s, dev.sii)

\* ecm_pdo_table_compare: the same entries in the same order.
SameTable(a, b) == a.e = b.e

\* ecm_pdo_check_sizes against what is mapped, per direction and slave.
SizesMatch(t, mapped) == t.bits = mapped

\* ecm_pdo_bind: the first entry of the object, or no handle.
PdoBind(t, loc, s, obj) ==
  LET i == IF obj = "pad" THEN 0 ELSE SelectInSeq(t.e, LAMBDA e : e.slave = s /\ e.obj = obj)
  IN  IF i = 0 \/ (i > 0 /\ t.e[i].bits > MaxBits) THEN {}
      ELSE {[slave |-> s, obj |-> obj, dir |-> t.e[i].dir, group |-> loc[s].group,
             bit |-> loc[s][t.e[i].dir] + t.e[i].off, bits |-> t.e[i].bits]}

\* ecm_pdo_scan_required: bound slaves of another vendor.
ScanRequired(bound, devs) == {s \in bound : s \in DOMAIN devs /\ ~devs[s].own}

\* ecm_pdo_get, ecm_pdo_set: chunks up to the next byte boundary.
Chunk(bit, left) == LET room == ByteBits - (bit % ByteBits) IN IF room > left THEN left ELSE room

RECURSIVE GetFrom(_, _, _)
GetFrom(m, bit, left) ==
  IF left = 0 THEN 0
  ELSE LET n == Chunk(bit, left)
           part == (m[bit \div ByteBits] \div 2^(bit % ByteBits)) % 2^n
       IN  part + 2^n * GetFrom(m, bit + n, left - n)

PdoGet(h, m) == GetFrom(m, h.bit, h.bits)

RECURSIVE SetFrom(_, _, _, _)
SetFrom(m, bit, left, v) ==
  IF left = 0 THEN m
  ELSE LET n    == Chunk(bit, left)
           sh   == 2^(bit % ByteBits)
           b    == m[bit \div ByteBits]
           kept == (b % sh) + (b \div (sh * 2^n)) * (sh * 2^n)
       IN  SetFrom([m EXCEPT ![bit \div ByteBits] = kept + (v % 2^n) * sh], bit + n, left - n, v \div 2^n)

PdoSet(h, m, v) == SetFrom(m, h.bit, h.bits, v)

\* Reference: bit k of an image, and the number in a run of bits.
BitAt(m, k) == (m[k \div ByteBits] \div 2^(k % ByteBits)) % 2

Number(m, first, n) == FoldLeft(LAMBDA v, k : v + 2^k * BitAt(m, first + k), 0, [i \in 1..n |-> i - 1])
=============================================================================
