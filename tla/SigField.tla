------------------------------ MODULE SigField ------------------------------
(***************************************************************************)
(* The 48-bit SIG field of S1G_SHORT and SIG-A field of S1G_LONG (sig.rs): *)
(* how the fields are laid out, the CRC-4 and the tail, how a receiver     *)
(* parses them, and what it makes of the result.  A flag is 0 or 1, a      *)
(* duration of 0 stands for "not known".                                   *)
(***************************************************************************)
EXTENDS Naturals, Sequences, S1gParams, PhyCoding

NotKnown == 0

(* Mutant: STBC is forgotten for the number of symbols. *)
DurationFromFieldsNoStbc(long, n_sts, f) ==
  LET n_ss == IF f.stbc = 1 THEN MaxOf(n_sts \div 2, 1) ELSE MaxOf(n_sts, 1)
      n_dbps == NDbps(f.mcs, n_ss)
      nSym == IF f.aggregation = 1 THEN f.length
              ELSE IF n_dbps = 0 THEN 0
              ELSE DataFieldGeometry(f.length, FALSE, f.ldpc = 1, f.extra = 1, FALSE, n_dbps).nSym
  IN IF nSym = 0 THEN NotKnown
     ELSE PpduDuration(long, MaxOf(n_sts, 1), f.shortGi = 1, nSym)

(* PPDU duration told by the fields even of a combination that is reserved. *)
DurationFromFields(long, n_sts, f) ==
  LET n_ss == IF f.stbc = 1 THEN MaxOf(n_sts \div 2, 1) ELSE MaxOf(n_sts, 1)
      n_dbps == NDbps(f.mcs, n_ss)
      nSym == IF f.aggregation = 1 THEN f.length
              ELSE IF n_dbps = 0 THEN 0
              ELSE DataFieldGeometry(f.length, FALSE, f.ldpc = 1, f.extra = 1, f.stbc = 1, n_dbps).nSym
  IN IF nSym = 0 THEN NotKnown
     ELSE PpduDuration(long, MaxOf(n_sts, 1), f.shortGi = 1, nSym)

(* Register c3 c2 c1 c0 of the CRC over G(D) = D^4 + D + 1 after one more   *)
(* bit, and the CRC: what it holds in the end, complemented.                *)
CrcShift(c, bit) == LET fb == Xor(bit, c[1]) IN <<c[2], c[3], Xor(c[4], fb), fb>>

Crc4(bits) ==
  LET c[i \in 0 .. Len(bits)] == IF i = 0 THEN <<1, 1, 1, 1>> ELSE CrcShift(c[i - 1], bits[i])
  IN [i \in 1 .. 4 |-> 1 - c[Len(bits)][i]]

Finish48(v) == v \o Crc4(v) \o Zeros(6)

(* Mutant: the tail is not looked at. *)
Check48CrcOnly(bits) == IF SubSeq(bits, 39, 42) # Crc4(SubSeq(bits, 1, 38)) THEN "crc" ELSE "ok"

Check48(bits) ==
  CASE \E i \in 43 .. 48 : bits[i] # 0 -> "tail"
    [] (\A i \in 43 .. 48 : bits[i] = 0) /\ SubSeq(bits, 39, 42) # Crc4(SubSeq(bits, 1, 38)) -> "crc"
    [] OTHER -> "ok"

(* The ID field packs COLOR with the partial AID except on the uplink. *)
IdOf(txv) == IF txv.uplink = 1 THEN txv.paid ELSE txv.paid * 8 + txv.color

SplitId(id, uplink) ==
  IF uplink = 1 THEN [color |-> 0, paid |-> id % 512] ELSE [color |-> id % 8, paid |-> (id \div 8) % 64]

---------------------------------------------------------------------------
(* Transmit side. *)

ShortBits(f) ==
  Finish48(<<1, f.stbc, f.uplink>> \o Uint(f.bandwidth, 2) \o Uint(f.nsts, 2) \o Uint(f.id, 9)
           \o <<f.shortGi, f.ldpc, f.extra>> \o Uint(f.mcs, 4) \o <<f.smoothing>>
           \o <<f.aggregation>> \o Uint(f.length, 9) \o Uint(f.response, 2) \o <<f.tp, 0>>)

LongSuBits(f) ==
  Finish48(<<0, f.stbc, f.uplink>> \o Uint(f.bandwidth, 2) \o Uint(f.nsts, 2) \o Uint(f.id, 9)
           \o <<f.shortGi, f.ldpc, f.extra>> \o Uint(f.mcs, 4) \o <<f.beam>>
           \o <<f.aggregation>> \o Uint(f.length, 9) \o Uint(f.response, 2) \o <<1, f.tp>>)

(* Coding-I bits of user positions without streams are reserved ones. *)
LongMuBits(f) ==
  Finish48(<<1, f.stbc, 1>>
           \o Uint(f.nstsOf[1], 2) \o Uint(f.nstsOf[2], 2) \o Uint(f.nstsOf[3], 2) \o Uint(f.nstsOf[4], 2)
           \o Uint(f.bandwidth, 2) \o Uint(f.group, 6) \o <<f.shortGi>>
           \o [u \in 1 .. 4 |-> IF f.nstsOf[u] > 0 THEN f.ldpcOf[u] ELSE 1]
           \o <<f.extra, 1>> \o Uint(f.length, 9) \o Uint(f.response, 2) \o <<f.tp>>)

NdpBits(body) == Finish48(body \o <<1>>)

(* B23 of S1G_LONG: with one stream, 0 means that smoothing is allowed. *)
BeamChange(txv) == 1 - txv.smoothing

(* Fields of one of our own PPDUs; B18 is 1 with BCC.  S1G_SHORT carries     *)
(* smoothing where S1G_LONG has beam.                                        *)
OwnFields(txv, length, extra) ==
  [stbc |-> 0, uplink |-> txv.uplink, bandwidth |-> 0, nsts |-> 0, id |-> IdOf(txv),
   shortGi |-> txv.shortGi, ldpc |-> txv.ldpc, extra |-> IF txv.ldpc = 1 THEN extra ELSE 1,
   mcs |-> txv.mcs, smoothing |-> txv.smoothing, beam |-> BeamChange(txv),
   aggregation |-> txv.aggregation, length |-> length, response |-> txv.response, tp |-> txv.tp]

---------------------------------------------------------------------------
(* Receive side. *)

Failed(how) == [kind |-> how, duration |-> NotKnown]

Reserved(duration) == [kind |-> "reserved", duration |-> duration]

SuDuration(f, long) == DurationFromFields(long, f.nsts + 1, f)

TotalSts(f) == f.nstsOf[1] + f.nstsOf[2] + f.nstsOf[3] + f.nstsOf[4]

MuDuration(f) ==
  DurationFromFields(TRUE, MaxOf(TotalSts(f), 1),
    [stbc |-> f.stbc, shortGi |-> f.shortGi, mcs |-> 0, ldpc |-> 0, extra |-> 0, aggregation |-> 1, length |-> f.length])

(* What an S1G_SHORT and a single-user S1G_LONG SIG have in common. *)
RxVectorOf(f, long, smoothing, g) ==
  [long |-> long, mu |-> FALSE, bandwidth |-> f.bandwidth, nsts |-> f.nsts + 1, stbc |-> f.stbc, mcs |-> f.mcs,
   shortGi |-> f.shortGi, ldpc |-> f.ldpc, extra |-> f.ldpc * f.extra, aggregation |-> f.aggregation,
   response |-> f.response, smoothing |-> smoothing, tp |-> f.tp, uplink |-> f.uplink,
   color |-> SplitId(f.id, f.uplink).color, paid |-> SplitId(f.id, f.uplink).paid,
   length |-> f.length, psdu |-> g.psdu, nSym |-> g.nSym]

Classify(f, long, smoothing) ==
  LET n_sts == f.nsts + 1
      n_ss == IF f.stbc = 1 THEN n_sts \div 2 ELSE n_sts
      n_dbps == NDbps(f.mcs, n_ss)
      g == DataFieldGeometry(f.length, f.aggregation = 1, f.ldpc = 1, f.extra = 1, f.stbc = 1, n_dbps)
      reserved == \/ f.stbc = 1 /\ n_sts % 2 = 1
                  \/ f.ldpc = 0 /\ f.extra = 0
                  \/ n_dbps = 0
      ours == f.bandwidth = 0 /\ f.stbc = 0 /\ n_sts = 1 /\ f.mcs \in ValidMcs
  IN IF reserved \/ g.nSym = 0 THEN Reserved(SuDuration(f, long))
     ELSE [kind |-> IF ours THEN "supported" ELSE "unsupported",
           rxv |-> RxVectorOf(f, long, smoothing, g),
           duration |-> PpduDuration(long, n_sts, f.shortGi = 1, g.nSym)]

ShortVerdict(f) == Classify(f, FALSE, f.smoothing)

LongSuVerdict(f) == Classify(f, TRUE, IF f.nsts = 0 /\ f.beam = 0 THEN 1 ELSE 0)

(* A multi-user PPDU is only ever identified; it is always aggregated. *)
LongMuVerdict(f) ==
  CASE TotalSts(f) = 0 -> Reserved(MuDuration(f))
    [] TotalSts(f) > 0 /\ f.length = 0 -> Reserved(NotKnown)
    [] OTHER -> [kind |-> "unsupported",
                 rxv |-> [long |-> TRUE, mu |-> TRUE, nsts |-> TotalSts(f), group |-> f.group, nSym |-> f.length],
                 duration |-> PpduDuration(TRUE, TotalSts(f), f.shortGi = 1, f.length)]

(* Bits a to b - 1, counted from 0. *)
FieldAt(bits, a, b) == Value(SubSeq(bits, a + 1, b))

(* S1G_SHORT has smoothing where a single-user S1G_LONG has beam. *)
SuFieldsIn(bits, tp) ==
  [stbc |-> bits[2], uplink |-> bits[3], bandwidth |-> FieldAt(bits, 3, 5), nsts |-> FieldAt(bits, 5, 7),
   id |-> FieldAt(bits, 7, 16), shortGi |-> bits[17], ldpc |-> bits[18], extra |-> bits[19],
   mcs |-> FieldAt(bits, 19, 23), smoothing |-> bits[24], beam |-> bits[24], aggregation |-> bits[25],
   length |-> FieldAt(bits, 25, 34), response |-> FieldAt(bits, 34, 36), tp |-> tp]

MuFieldsIn(bits) ==
  [stbc |-> bits[2], nstsOf |-> [u \in 1 .. 4 |-> FieldAt(bits, 1 + 2 * u, 3 + 2 * u)],
   bandwidth |-> FieldAt(bits, 11, 13), group |-> FieldAt(bits, 13, 19), shortGi |-> bits[20],
   ldpcOf |-> [u \in 1 .. 4 |-> bits[20 + u]], extra |-> bits[25], length |-> FieldAt(bits, 26, 35),
   response |-> FieldAt(bits, 35, 37), tp |-> bits[38]]

(* An NDP is known by its own bit; its B0 belongs to the body, so the        *)
(* reserved bit is looked at only in the SIG of a PPDU with data.            *)
ParseShort(bits) ==
  LET f == SuFieldsIn(bits, bits[37])
  IN IF Check48(bits) # "ok" THEN Failed(Check48(bits))
     ELSE IF bits[38] = 1 THEN [kind |-> "ndp", body |-> SubSeq(bits, 1, 37), duration |-> NotKnown]
     ELSE IF bits[1] # 1 THEN Reserved(SuDuration(f, FALSE))
     ELSE ShortVerdict(f)

ParseLongSu(bits) ==
  LET f == SuFieldsIn(bits, bits[38])
  IN IF bits[37] # 1 THEN Reserved(SuDuration(f, TRUE)) ELSE LongSuVerdict(f)

ParseLongMu(bits) ==
  LET f == MuFieldsIn(bits)
      codingReserved == \E u \in 1 .. 4 : f.nstsOf[u] = 0 /\ f.ldpcOf[u] = 0
  IN IF bits[3] # 1 \/ bits[26] # 1 \/ codingReserved THEN Reserved(MuDuration(f)) ELSE LongMuVerdict(f)

ParseLong(bits) ==
  IF Check48(bits) # "ok" THEN Failed(Check48(bits))
  ELSE IF bits[1] = 0 THEN ParseLongSu(bits) ELSE ParseLongMu(bits)
=============================================================================
