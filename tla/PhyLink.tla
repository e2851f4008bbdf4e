------------------------------ MODULE PhyLink ------------------------------
(***************************************************************************)
(* From TXVECTOR and PSDU to RXVECTOR and PSDU: what Transmitter builds    *)
(* (tx.rs), what the channel does to it, and what the receiver's decoders  *)
(* make of it (sig.rs, rx/decode.rs), one PPDU at a time.                  *)
(*                                                                         *)
(* Besides our own PPDUs the air carries NDPs, PPDUs of other stations in  *)
(* modes this receiver only identifies, and PPDUs of a later standard in   *)
(* which a reserved bit is 0.  The channel either leaves a PPDU alone,     *)
(* blots out a few neighbouring subcarriers (their points arrive as        *)
(* nothing, with no quality), or leaves a burst of wrong bits in a SIG     *)
(* after its decoder.                                                      *)
(***************************************************************************)
EXTENDS Integers, Sequences, FiniteSets, S1gParams, PhyCoding, LdpcRate, SigField

CONSTANTS
  Mcss,            \* MCSs of our own PPDUs
  Lengths,         \* octets a PSDU needs
  NoisyMcss,       \* bound: MCSs of the PPDUs whose SIG may get wrong bits
  FadeAt,          \* bound: subcarriers at which a fade may begin
  CodedBits,       \* bound: most data bits of a PPDU whose Data field is followed bit by bit
  FadeWidth,       \* neighbouring subcarriers that may fade, per MCS
  OtherLengths     \* length fields of other stations' PPDUs

ASSUME MapsAssumption == Mcss \subseteq ValidMcs /\ Lengths \subseteq Nat /\ OtherLengths \subseteq 0 .. 511

(* A fade leaves some subcarrier of a SIG. *)
ASSUME FadeAssumption ==
  \A k \in FadeAt, m \in Mcss :
    \E t \in 1 .. 48 : SigSubcarriers[t] \notin k .. k + FadeWidth[m] - 1

(* Fourteen symbols of traveling pilots visit each used tone once. *)
ASSUME TravelingPilotsVisitAll ==
  /\ UNION {PilotPositions(n, TRUE) : n \in 0 .. 13} = UsedTones
  /\ \A n \in 0 .. 13 : Cardinality(PilotPositions(n, TRUE)) = 4

VARIABLES phase, ppdu, sig, faded, out, data

vars == <<phase, ppdu, sig, faded, out, data>>

Nothing == [kind |-> "nothing"]

NotDecoded == [seed |-> 0, psdu |-> << >>]

---------------------------------------------------------------------------
(* Transmit chain. *)

NoData == [nSym |-> 0, nInit |-> 0, extra |-> 0, length |-> 0]

(* The geometry of nInit initial symbols, nSym with what LDPC adds. *)
Geometry(octets, aggregation, nInit, coding) ==
  IF octets = 0 \/ (aggregation = 0 /\ octets > PSDU_MAX_NO_AGG) THEN NoData
  ELSE IF coding.nSym > N_SYM_MAX THEN NoData
  ELSE [nSym |-> coding.nSym, nInit |-> nInit, extra |-> coding.extra,
        length |-> IF aggregation = 1 THEN coding.nSym ELSE octets]

(* Data-field geometry for a PSDU; no symbols when it cannot be sent. *)
DataGeometry(mcs, octets, aggregation, ldpc) ==
  LET of(nInit) == Geometry(octets, aggregation, nInit,
                            IF ldpc = 1 THEN PpduParams(nInit, mcs) ELSE [nSym |-> nInit, extra |-> 0])
  IN of(CeilDiv(8 * octets + N_SERVICE + (IF ldpc = 1 THEN 0 ELSE N_TAIL), NDbps(mcs, 1)))

(* Octets an A-MPDU is padded to; 0 when it cannot be sent. *)
AggregatedCapacity(mcs, octets, ldpc) ==
  LET capacity(g) == IF g.nSym = 0 THEN 0
                     ELSE IF ldpc = 1 THEN (g.nInit * NDbps(mcs, 1) - N_SERVICE) \div 8
                     ELSE (g.nSym * NDbps(mcs, 1) - N_SERVICE - N_TAIL) \div 8
  IN capacity(DataGeometry(mcs, octets, 1, ldpc))

(* Some payload of n octets. *)
Payload(n) == [i \in 1 .. 8 * n |-> Bit(201 * ((i + 7) \div 8) + 7, (i - 1) % 8)]

(* Coded bits of a BCC Data field: SERVICE, PSDU and pad scrambled, a tail  *)
(* of zeros.                                                                *)
DataBits(txv, octets, g) ==
  LET room == g.nSym * NDbps(txv.mcs, 1) - N_TAIL
      plain == Zeros(N_SERVICE) \o Payload(octets) \o Zeros(room - N_SERVICE - 8 * octets)
  IN Encode(Scramble(txv.seed, plain) \o Zeros(N_TAIL), McsTable[txv.mcs].num)

(* Points of Data symbol n (from 0). *)
DataPoints(txv, coded, n) ==
  LET bits == McsTable[txv.mcs].bits
  IN MapPoints(Interleave(SubSeq(coded, n * NCbps(txv.mcs) + 1, (n + 1) * NCbps(txv.mcs)), bits), bits)

(* Both symbols of a SIG are rotated by 90 degrees, only the first of a     *)
(* SIG-A.                                                                   *)
Rotated(long, n) == n = 0 \/ ~long

SigPoints(bits, long, n) ==
  LET pairs == EncodePairs(bits)
      tones == InterleaveSig([i \in 1 .. 48 |-> pairs[(24 * n) + ((i + 1) \div 2)][2 - (i % 2)]])
  IN [t \in 1 .. 48 |-> IF Rotated(long, n) THEN <<0, 2 * tones[t] - 1>> ELSE <<2 * tones[t] - 1, 0>>]

---------------------------------------------------------------------------
(* Receive chain. *)

Csi(f, subcarriers) == [t \in 1 .. Len(subcarriers) |-> IF subcarriers[t] \in f THEN 0 ELSE 1]

Energy(points, axis) == Cardinality({t \in 1 .. Len(points) : points[t][axis] # 0})

(* S1G_SHORT has the energy of the second SIG symbol on the Q axis. *)
LooksLong(points) == Energy(points, 2) < Energy(points, 1)

DecodeSig(p1, p2, csi) ==
  LET long == LooksLong(p2)
      onAxis(point, n) == IF Rotated(long, n) THEN point[2] ELSE point[1]
      soft(points, n) == DeinterleaveSig([t \in 1 .. 48 |-> csi[t] * AxisLlr[1][onAxis(points[t], n)][1]])
      bits == ViterbiDecode(soft(p1, 0) \o soft(p2, 1), 1, 48)
  IN [bits |-> bits, long |-> long]

ParseSig(bits, long) == IF long THEN ParseLong(bits) ELSE ParseShort(bits)

(* The transmitter's number of initial symbols, from the SIG. *)
DecoderParams(rxv) == PpduParams(MaxOf(Minus(rxv.nSym, rxv.extra), 1), rxv.mcs)

(* Mutant: the seed is read one bit late. *)
DecodeDataLateSeed(rxv, llrs) ==
  LET bits == ViterbiDecode(llrs, McsTable[rxv.mcs].num, rxv.nSym * NDbps(rxv.mcs, 1))
      seed == RecoverSeed(SubSeq(bits, 2, 8))
      plain == Scramble(seed, SubSeq(bits, 1, Len(bits) - N_TAIL))
  IN [seed |-> seed, psdu |-> SubSeq(plain, N_SERVICE + 1, N_SERVICE + 8 * rxv.psdu)]

(* Data bits of a BCC PPDU from its soft values. *)
DecodeData(rxv, llrs) ==
  LET bits == ViterbiDecode(llrs, McsTable[rxv.mcs].num, rxv.nSym * NDbps(rxv.mcs, 1))
      seed == RecoverSeed(bits)
      plain == Scramble(seed, SubSeq(bits, 1, Len(bits) - N_TAIL))
  IN [seed |-> seed, psdu |-> SubSeq(plain, N_SERVICE + 1, N_SERVICE + 8 * rxv.psdu)]

(* Soft values of all Data symbols, each deinterleaved. *)
DataLlrs(rxv, points, f) ==
  LET bits == McsTable[rxv.mcs].bits
      soft(n) == Deinterleave(DemapLlrs(points[n + 1], Csi(f, DataSubcarriers(n, rxv.tp = 1)), bits), bits)
      l[n \in 0 .. rxv.nSym] == IF n = 0 THEN << >> ELSE l[n - 1] \o soft(n - 1)
  IN l[rxv.nSym]

---------------------------------------------------------------------------
(* What the stations send. *)

TxVectors ==
  [mcs : Mcss, long : BOOLEAN, shortGi : 0 .. 1, ldpc : 0 .. 1, aggregation : 0 .. 1,
   header : {[uplink |-> 1, paid |-> 341, color |-> 0, response |-> 1, smoothing |-> 1, tp |-> 0, seed |-> 93],
             [uplink |-> 0, paid |-> 42, color |-> 5, response |-> 2, smoothing |-> 0, tp |-> 1, seed |-> 127]}]

Flat(v) ==
  [mcs |-> v.mcs, shortGi |-> v.shortGi, ldpc |-> v.ldpc, aggregation |-> v.aggregation,
   uplink |-> v.header.uplink, paid |-> v.header.paid, color |-> v.header.color, response |-> v.header.response,
   smoothing |-> v.header.smoothing, tp |-> v.header.tp, seed |-> v.header.seed]

(* generate_with_info: the PPDU for a TXVECTOR and a PSDU. *)
Build(v, octets) ==
  LET txv == Flat(v)
      ppdu_of(g) ==
        [kind |-> "own", long |-> v.long, txv |-> txv, octets |-> octets, nSym |-> g.nSym, nInit |-> g.nInit,
         bits |-> LET f == OwnFields(txv, g.length, g.extra) IN IF v.long THEN LongSuBits(f) ELSE ShortBits(f),
         duration |-> PpduDuration(v.long, 1, v.shortGi = 1, g.nSym)]
  IN ppdu_of(DataGeometry(v.mcs, octets, v.aggregation, v.ldpc))

(* The reserved bit of each format, from 1. *)
ReservedBit(long) == IF long THEN 37 ELSE 1

(* A SIG with a bit changed by its sender, which computes the CRC over it. *)
WithBitCleared(bits, i) == Finish48([SubSeq(bits, 1, 38) EXCEPT ![i] = 0])

(* Fields other stations may send in a SIG of either format. *)
OtherFields ==
  [stbc : 0 .. 1, uplink : {0}, bandwidth : 0 .. 1, nsts : 0 .. 3, id : {300}, shortGi : 0 .. 1, ldpc : 0 .. 1,
   extra : 0 .. 1, mcs : {0, 9, 13}, smoothing : {1}, beam : {0}, aggregation : 0 .. 1,
   length : OtherLengths, response : {3}, tp : {0}]

MuFields ==
  [stbc : {0}, bandwidth : {0}, group : {0, 37}, shortGi : 0 .. 1, extra : 0 .. 1, length : OtherLengths,
   response : {0, 3}, tp : 0 .. 1, ldpcOf : {<<1, 0, 1, 1>>, <<0, 0, 0, 0>>},
   nstsOf : {<<1, 0, 2, 1>>, <<0, 0, 0, 0>>, <<3, 3, 3, 3>>}]

(* The number of symbols such a PPDU has, by definition: the fewest, in     *)
(* steps of two with STBC, that hold what is sent.  0 where the standard    *)
(* defines no such PPDU.                                                    *)
OtherSymbols(f) ==
  LET n_ss == IF f.stbc = 1 THEN (f.nsts + 1) \div 2 ELSE f.nsts + 1
      n_dbps == NDbps(f.mcs, n_ss)
      m == f.stbc + 1
      more == IF f.ldpc = 1 /\ f.extra = 1 THEN m ELSE 0
      bits == 8 * f.length + 8 + 6 * (1 - f.ldpc)
      holds(k) == k * m * n_dbps >= bits
  IN IF f.length = 0 \/ (f.stbc = 1 /\ f.nsts % 2 = 0) \/ n_dbps = 0 THEN 0
     ELSE IF f.aggregation = 1 THEN (IF f.length > more THEN f.length ELSE 0)
     ELSE m * (CHOOSE k \in 1 .. 512 : holds(k) /\ ~holds(k - 1)) + more

NdpPpdu(body) == [kind |-> "ndp", long |-> FALSE, body |-> body, bits |-> NdpBits(body), duration |-> NotKnown]

(* Another station's PPDU of either format, possibly of a later standard. *)
OtherPpdu(f, long, later) ==
  LET bits == IF long THEN LongSuBits(f) ELSE ShortBits(f)
      n == OtherSymbols(f)
  IN [kind |-> IF later THEN "later" ELSE "other", long |-> long,
      bits |-> IF later THEN WithBitCleared(bits, ReservedBit(long)) ELSE bits,
      duration |-> IF n = 0 THEN NotKnown ELSE PpduDuration(long, f.nsts + 1, f.shortGi = 1, n)]

(* A multi-user PPDU, of a later standard when a bit is cleared. *)
MuPpdu(f, clear) ==
  [kind |-> IF clear = 0 THEN "other" ELSE "later", long |-> TRUE,
   bits |-> IF clear = 0 THEN LongMuBits(f) ELSE WithBitCleared(LongMuBits(f), clear),
   duration |-> IF f.length = 0 THEN NotKnown ELSE PpduDuration(TRUE, TotalSts(f), f.shortGi = 1, f.length)]

---------------------------------------------------------------------------
Init ==
  /\ phase = "idle" /\ ppdu = Nothing /\ sig = << >> /\ faded = {} /\ out = Nothing
  /\ data = NotDecoded

Send(p) == phase' = "sent" /\ ppdu' = p /\ sig' = p.bits /\ UNCHANGED <<faded, out, data>>

(* The MAC pads an A-MPDU to the capacity of its PPDU before it sends it. *)
Octets(v, n) == IF v.aggregation = 1 THEN AggregatedCapacity(v.mcs, n, v.ldpc) ELSE n

Transmit ==
  /\ phase = "idle"
  /\ \E v \in TxVectors, n \in Lengths :
       /\ DataGeometry(v.mcs, Octets(v, n), v.aggregation, v.ldpc).nSym > 0
       /\ Send(Build(v, Octets(v, n)))

(* A PSDU that fits no PPDU is refused. *)
Refuse ==
  /\ phase = "idle"
  /\ \E v \in TxVectors, n \in Lengths :
       /\ DataGeometry(v.mcs, Octets(v, n), v.aggregation, v.ldpc).nSym = 0
       /\ out' = [kind |-> "refused", octets |-> n]
  /\ phase' = "heard"
  /\ UNCHANGED <<ppdu, sig, faded, data>>

TransmitNdp ==
  /\ phase = "idle"
  /\ \E low \in 0 .. 3, high \in {0, 1365, 4095} : Send(NdpPpdu(Uint(low, 21) \o Uint(16 * high + 5, 16)))

OtherSends ==
  /\ phase = "idle"
  /\ \E f \in OtherFields, long \in BOOLEAN, later \in BOOLEAN : Send(OtherPpdu(f, long, later))

OtherSendsMu ==
  /\ phase = "idle"
  /\ \E f \in MuFields, clear \in {0, 3, 26} : TotalSts(f) > 0 /\ Send(MuPpdu(f, clear))

(* Followed bit by bit through coding, tones and decoding (the guard         *)
(* interval changes none of them).                                          *)
Coded == ppdu.kind = "own" /\ ppdu.txv.ldpc = 0 /\ ppdu.txv.shortGi = 0 /\ ppdu.nSym * NDbps(ppdu.txv.mcs, 1) <= CodedBits

(* A burst of up to four wrong bits left in the SIG by its decoder. *)
ResidualError ==
  /\ phase = "sent" /\ sig = ppdu.bits /\ faded = {}
  /\ \/ ppdu.kind = "own" /\ ppdu.txv.mcs \in NoisyMcss /\ ppdu.octets = 80
     \/ ppdu.kind = "ndp"
  /\ \E at \in 1 .. 48, rest \in SUBSET (1 .. 3) :
       LET wrong == ({at} \cup {at + r : r \in rest}) \cap 1 .. 48
       IN sig' = [i \in 1 .. 48 |-> IF i \in wrong THEN 1 - sig[i] ELSE sig[i]]
  /\ UNCHANGED <<phase, ppdu, faded, out, data>>

(* Neighbouring subcarriers fade for the whole PPDU. *)
Fade ==
  /\ phase = "sent" /\ sig = ppdu.bits /\ faded = {}
  /\ Coded
  /\ \E k \in FadeAt : faded' = k .. k + FadeWidth[ppdu.txv.mcs] - 1
  /\ UNCHANGED <<phase, ppdu, sig, out, data>>

(* The receiver: SIG through its decoder where the tones are followed, then *)
(* parsing and the verdict, then the Data field.                            *)
Receive ==
  /\ phase = "sent"
  /\ LET tones(n) == LET p == SigPoints(ppdu.bits, ppdu.long, n)
                     IN [t \in 1 .. 48 |-> IF SigSubcarriers[t] \in faded THEN <<0, 0>> ELSE p[t]]
         sent == DataBits(ppdu.txv, ppdu.octets, ppdu)
         points == [n \in 1 .. ppdu.nSym |-> DataPoints(ppdu.txv, sent, n - 1)]
         told(verdict) ==
           /\ out' = verdict
           /\ data' = IF Coded /\ verdict.kind = "supported" /\ sig = ppdu.bits
                      THEN DecodeData(verdict.rxv, DataLlrs(verdict.rxv, points, faded))
                      ELSE NotDecoded
         taken(heard) == sig' = heard.bits /\ told(ParseSig(heard.bits, heard.long))
     IN taken(IF Coded /\ faded # {} THEN DecodeSig(tones(0), tones(1), Csi(faded, SigSubcarriers))
              ELSE [bits |-> sig, long |-> ppdu.long])
  /\ phase' = "heard"
  /\ UNCHANGED <<ppdu, faded>>

Next ==
  Transmit \/ Refuse \/ TransmitNdp \/ OtherSends \/ OtherSendsMu \/ ResidualError \/ Fade \/ Receive

Spec == Init /\ [][Next]_vars

---------------------------------------------------------------------------
Heard(kinds) == phase = "heard" /\ ppdu # Nothing /\ ppdu.kind \in kinds

Clean == sig = ppdu.bits

(* Whatever TXVECTOR and PSDU the MAC hands over, a receiver that gets the  *)
(* SIG intact learns the same symbol count, PSDU length, addressing and     *)
(* air time that the transmitter used: tx.rs chooses the geometry from      *)
(* octets, sig.rs finds it back from a field that counts octets or symbols. *)
OwnPpduIsUnderstood ==
  Heard({"own"}) /\ Clean =>
    /\ out.kind = "supported"
    /\ out.rxv.nSym = ppdu.nSym /\ out.rxv.psdu = ppdu.octets
    /\ out.duration = ppdu.duration
    /\ \A n \in {"mcs", "shortGi", "ldpc", "aggregation", "uplink", "paid", "smoothing", "response", "tp"} :
         out.rxv[n] = ppdu.txv[n]
    /\ ppdu.txv.uplink = 0 => out.rxv.color = ppdu.txv.color

(* A SIG with a burst of up to four wrong bits is never taken for another   *)
(* PPDU or NDP: the CRC and the tail catch every one (check_48).  A fade    *)
(* leaves no wrong bit (FadeIsRepaired).                                    *)
DamagedSigIsRefused ==
  phase = "heard" /\ ppdu # Nothing /\ faded = {} /\ ~Clean => out.kind \in {"crc", "tail"}

(* CCA can be held for exactly the air time of any PPDU the standard        *)
(* defines, decodable here or not and with a reserved bit cleared or not:   *)
(* the duration told by the fields is the sender's.                         *)
HoldIsTheAirTime ==
  Heard({"own", "other", "later"}) /\ Clean /\ ppdu.duration # NotKnown => out.duration = ppdu.duration

(* The sum of the first n parts, counted from 0. *)
TotalOf(part, n) == LET t[j \in 0 .. n] == IF j = 0 THEN 0 ELSE t[j - 1] + part[j - 1] IN t[n]

(* The LDPC decoder rebuilds the encoder's parameters from the SIG, its     *)
(* codewords take up all the coded bits and carry all the data bits, and it *)
(* puts every received bit, repeated ones included, where the encoder took  *)
(* it from.                                                                 *)
LdpcBitsFindTheirPlace ==
  Heard({"own"}) /\ Clean /\ ppdu.txv.ldpc = 1 =>
    LET p == DecoderParams(out.rxv)
        codewords == 0 .. p.nCw - 1
    IN /\ p = PpduParams(ppdu.nInit, ppdu.txv.mcs) /\ p.nSym = ppdu.nSym
       /\ TotalOf([j \in codewords |-> TxLen(p, j)], p.nCw) = p.avbits
       /\ TotalOf([j \in codewords |-> InfoBits(p, j)], p.nCw) = p.pld
       /\ \A j \in {0, p.nCw - 1} :
            /\ HeardPositions(p, j) = SentPositions(p, j)
            /\ ParityBits(p, j) >= 0 /\ Len(SentPositions(p, j)) = TxLen(p, j)

(* A fade of FadeWidth neighbouring subcarriers over the whole PPDU costs   *)
(* neither the SIG nor a bit of the PSDU, whichever format, pilots and MCS: *)
(* interleaver and code undo it, and SERVICE gives back the seed.           *)
FadeIsRepaired ==
  Heard({"own"}) /\ Coded =>
    (Clean => data.psdu = Payload(ppdu.octets) /\ data.seed = ppdu.txv.seed) /\ (faded # {} => Clean)
=============================================================================
