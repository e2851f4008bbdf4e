----------------------------- MODULE MacFrames -----------------------------
(***************************************************************************)
(* The formats of the MAC: Data, QoS Data, Ack, RTS and PV1 frames with    *)
(* their FCS (frame.rs, fcs.rs), the body an Ethernet frame becomes        *)
(* (eth.rs) and the 37-bit bodies of NDP CTS, Ack and BlockAck (ndp.rs).   *)
(*                                                                         *)
(* A frame is a sequence of octets 0 .. 255, an NDP body a sequence of 37  *)
(* bits with B0 first.                                                     *)
(***************************************************************************)
EXTENDS Integers, Sequences, PhyCoding

WILDCARD_BSSID == <<255, 255, 255, 255, 255, 255>>

Le16(v) == <<v % 256, v \div 256>>

(* The 16-bit field at 0-based octet at of f, and the address there.       *)
U16(f, at) == f[at + 1] + 256 * f[at + 2]

Addr(f, at) == SubSeq(f, at + 1, at + 6)

From(f, at) == SubSeq(f, at + 1, Len(f))

IsGroup(addr) == addr[1] % 2 = 1

---------------------------------------------------------------------------
(* Frame check sequence. *)

XorBits(a, b) == [i \in DOMAIN a |-> Xor(a[i], b[i])]

(* 0xEDB88320, its halves low first. *)
Polynomial == Uint(33568, 16) \o Uint(60856, 16)

(* What eight shifts of the register make of its low octet. *)
CrcTable ==
  LET shift(r) == LET s == Append(Tail(r), 0) IN IF r[1] = 1 THEN XorBits(s, Polynomial) ELSE s
      shifted[n \in 0 .. 8, b \in 0 .. 255] ==
        IF n = 0 THEN Uint(b, 8) \o Zeros(24) ELSE shift(shifted[n - 1, b])
  IN [b \in 0 .. 255 |-> shifted[8, b]]

(* The register behind all octets, and the complement of it.               *)
CrcRegister(octets) ==
  LET crc[n \in 0 .. Len(octets)] ==
        IF n = 0 THEN [i \in 1 .. 32 |-> 1]
        ELSE LET c == crc[n - 1]
             IN XorBits(SubSeq(c, 9, 32) \o Zeros(8),
                        CrcTable[Value(XorBits(SubSeq(c, 1, 8), Uint(octets[n], 8)))])
  IN crc[Len(octets)]

Crc32(octets) ==
  LET last == CrcRegister(octets)
  IN [i \in 1 .. 4 |-> 255 - Value(SubSeq(last, 8 * i - 7, 8 * i))]

(* The check value of the tests: "123456789" gives 0xCBF43926. *)
ASSUME CheckValueAssumption == Crc32(<<49, 50, 51, 52, 53, 54, 55, 56, 57>>) = <<38, 57, 244, 203>>

WithFcs(f) == f \o Crc32(f)

FcsHolds(f) == Len(f) >= 4 /\ Crc32(SubSeq(f, 1, Len(f) - 4)) = SubSeq(f, Len(f) - 3, Len(f))

---------------------------------------------------------------------------
(* Building frames.  tid is NoTid for a Data frame that is not QoS Data.   *)

NoTid == -1

SeqControl(seq) == Le16((seq % 4096) * 16)

BuildData(dest, src, seq, retry, duration, tid, body) ==
  WithFcs(<<IF tid = NoTid THEN 8 ELSE 136, IF retry THEN 8 ELSE 0>> \o Le16(duration % 32768)
          \o dest \o src \o WILDCARD_BSSID \o SeqControl(seq)
          \o (IF tid = NoTid THEN <<>> ELSE Le16(tid % 16)) \o body)

BuildAck(ra) == WithFcs(<<212, 0, 0, 0>> \o ra)

BuildRts(ra, ta, duration) == WithFcs(<<180, 0>> \o Le16(duration % 32768) \o ra \o ta)

PV1_TYPE_QOS_DATA == 0
PV1_TYPE_MANAGEMENT == 1
PV1_TYPE_QOS_DATA_MAC == 3

BuildPv1Data(dest, src, seq, tid, noAck, body) ==
  WithFcs(<<1 + 4 * PV1_TYPE_QOS_DATA_MAC + 32 * (tid % 8), IF noAck THEN 128 ELSE 0>>
          \o dest \o src \o SeqControl(seq) \o body)

---------------------------------------------------------------------------
(* Parsing frames. *)

BadFcs == [kind |-> "bad fcs"]

TooShort == [kind |-> "too short"]

Absent == <<>>

NoSeq == -1

Mac(addr) == [mac |-> addr]

(* Mutant: the flags of A3 and A4 are exchanged. *)
SidSwapped(v) == [aid |-> v % 8192, a3 |-> Bit(v, 14) = 1, a4 |-> Bit(v, 13) = 1, amsdu |-> Bit(v, 15) = 1]

Sid(v) == [aid |-> v % 8192, a3 |-> Bit(v, 13) = 1, a4 |-> Bit(v, 14) = 1, amsdu |-> Bit(v, 15) = 1]

Pv1(f, a1, a2, a3, a4, seq, at) ==
  [kind |-> "pv1", ptype |-> (f[1] \div 4) % 8, subtype |-> f[1] \div 32, fromDs |-> f[2] % 2 = 1,
   protected |-> Bit(f[2], 4) = 1, noAck |-> f[2] >= 128,
   a1 |-> a1, a2 |-> a2, a3 |-> a3, a4 |-> a4, seq |-> seq, body |-> From(f, at)]

(* The header of a PV1 frame has A1 and A2, one of which is a Short ID in  *)
(* types 0 and 1; Sequence Control, except in the Probe Response; and A3   *)
(* and A4 if the Short ID, at 0-based octet sidAt, says so.                *)
ParseSidFrame(f, sidAt) ==
  LET sid == Sid(U16(f, sidAt))
      hasSeq == (f[1] \div 4) % 8 # PV1_TYPE_MANAGEMENT \/ f[1] \div 32 # 2
      at3 == IF hasSeq THEN 12 ELSE 10
      at4 == IF sid.a3 THEN at3 + 6 ELSE at3
      end == IF sid.a4 THEN at4 + 6 ELSE at4
  IN IF Len(f) < end THEN TooShort
     ELSE Pv1(f, IF sidAt = 2 THEN sid ELSE Mac(Addr(f, 2)), IF sidAt = 2 THEN Mac(Addr(f, 4)) ELSE sid,
              IF sid.a3 THEN Addr(f, at3) ELSE Absent, IF sid.a4 THEN Addr(f, at4) ELSE Absent,
              IF hasSeq THEN U16(f, 10) \div 16 ELSE NoSeq, end)

(* Of types 2 and above only A1 is looked at.  f has at least ten octets.  *)
ParsePv1(f) ==
  LET ptype == (f[1] \div 4) % 8
  IN CASE ptype = PV1_TYPE_QOS_DATA_MAC ->
            IF Len(f) < 16 THEN TooShort
            ELSE Pv1(f, Mac(Addr(f, 2)), Mac(Addr(f, 8)), Absent, Absent, U16(f, 14) \div 16, 16)
       [] ptype \in {PV1_TYPE_QOS_DATA, PV1_TYPE_MANAGEMENT} ->
            ParseSidFrame(f, IF f[2] % 2 = 1 THEN 2 ELSE 8)
       [] OTHER -> Pv1(f, Sid(U16(f, 2)), Sid(0), Absent, Absent, NoSeq, 4)

(* Data and QoS Data with ToDS = FromDS = 0, of whole octets f. *)
ParseData(f) ==
  LET qos == f[1] \div 16 = 8
      hdr == IF qos THEN 26 ELSE 24
  IN IF Len(f) < hdr \/ f[2] % 4 # 0 THEN TooShort
     ELSE [kind |-> "data", dest |-> Addr(f, 4), src |-> Addr(f, 10), bssid |-> Addr(f, 16),
           seq |-> U16(f, 22) \div 16, retry |-> Bit(f[2], 3) = 1, duration |-> U16(f, 2) % 32768,
           tid |-> IF qos THEN f[25] % 16 ELSE NoTid, body |-> From(f, hdr)]

(* A frame without its FCS. *)
ParseOctets(f) ==
  LET type == (f[1] \div 4) % 4
      subtype == f[1] \div 16
  IN IF Len(f) < 10 THEN TooShort
     ELSE IF f[1] % 4 = 1 THEN ParsePv1(f)
     ELSE CASE type = 2 /\ subtype \in {0, 8} -> ParseData(f)
            [] type = 1 /\ subtype = 13 -> [kind |-> "ack", ra |-> Addr(f, 4)]
            [] type = 1 /\ subtype = 11 ->
                 IF Len(f) < 16 THEN TooShort
                 ELSE [kind |-> "rts", ra |-> Addr(f, 4), ta |-> Addr(f, 10), duration |-> U16(f, 2) % 32768]
            [] OTHER -> [kind |-> "other", fc |-> SubSeq(f, 1, 2), duration |-> U16(f, 2) % 32768]

Parse(mpdu) == IF FcsHolds(mpdu) THEN ParseOctets(SubSeq(mpdu, 1, Len(mpdu) - 4)) ELSE BadFcs

(* The MPDU of a plain PSDU, which some stations pad to a multiple of four *)
(* octets after the FCS; the whole PSDU if there is none.                  *)
LocateMpdu(psdu) ==
  LET fits(trim) == Len(psdu) - trim >= 10 /\ FcsHolds(SubSeq(psdu, 1, Len(psdu) - trim))
      tight == {trim \in 0 .. 3 : fits(trim)}
  IN SubSeq(psdu, 1, Len(psdu) - (IF tight = {} THEN 0 ELSE LeastOf(tight)))

---------------------------------------------------------------------------
(* Ethernet frames and bodies. *)

LLC_SNAP == <<170, 170, 3, 0, 0, 0>>

ParseEthernet(eth) ==
  [dest |-> Addr(eth, 0), src |-> Addr(eth, 6), ethertype |-> SubSeq(eth, 13, 14), payload |-> From(eth, 14)]

ToBody(ethertype, payload) == LLC_SNAP \o ethertype \o payload

IsSnap(body) == Len(body) >= 8 /\ SubSeq(body, 1, 6) = LLC_SNAP

BodyToEthernet(dest, src, body) == dest \o src \o From(body, 6)

---------------------------------------------------------------------------
(* NDP CMAC bodies.  A flag is 0 or 1. *)

TYPE_CTS_CF_END == 0
TYPE_ACK == 2
TYPE_BLOCK_ACK == 4

(* The bitmap protects the 16 bits from B3 on. *)
Protect(bits, bitmap) ==
  [i \in 1 .. 37 |-> IF i \in 4 .. 19 THEN Xor(bits[i], bitmap[i - 3]) ELSE bits[i]]

NdpToBody(n) ==
  CASE n.kind = "cts" ->
         Uint(TYPE_CTS_CF_END, 3) \o <<0, n.indicator>> \o Uint(n.ra, 9) \o Uint(n.duration, 15)
         \o <<n.early>> \o Uint(n.bandwidth, 3) \o Zeros(4)
    [] n.kind = "ack" ->
         Uint(TYPE_ACK, 3) \o Uint(n.id, 16) \o <<n.more, n.idle>> \o Uint(n.duration, 14) \o <<n.relayed, 0>>
    [] n.kind = "block ack" ->
         Protect(Uint(TYPE_BLOCK_ACK, 3) \o Uint(n.id, 6) \o Uint(n.ssn, 12) \o n.bitmap, n.bitmap)
    [] n.kind = "other" -> n.body

(* The n bits from 0-based bit lo on. *)
NdpField(b, lo, n) == Value(SubSeq(b, lo + 1, lo + n))

ParseNdp(b) ==
  LET type == NdpField(b, 0, 3)
      bitmap == SubSeq(b, 22, 37)
      plain == Protect(b, bitmap)
  IN CASE type = TYPE_CTS_CF_END /\ b[4] = 0 ->
            [kind |-> "cts", indicator |-> b[5], ra |-> NdpField(b, 5, 9), duration |-> NdpField(b, 14, 15),
             early |-> b[30], bandwidth |-> NdpField(b, 30, 3)]
       [] type = TYPE_ACK ->
            [kind |-> "ack", id |-> NdpField(b, 3, 16), more |-> b[20], idle |-> b[21],
             duration |-> NdpField(b, 21, 14), relayed |-> b[36]]
       [] type = TYPE_BLOCK_ACK ->
            [kind |-> "block ack", id |-> Value(SubSeq(plain, 4, 9)), ssn |-> Value(SubSeq(plain, 10, 21)), bitmap |-> bitmap]
       [] OTHER -> [kind |-> "other", body |-> b]

(* The ID of the NDP Ack for an MPDU sent under a scrambler seed: the seed *)
(* and the last nine bits of the FCS.                                      *)
AckIdForMpdu(seed, mpdu) ==
  LET fcs == SubSeq(mpdu, Len(mpdu) - 1, Len(mpdu))
  IN (seed % 128) + 128 * Value(SubSeq(Uint(fcs[1], 8) \o Uint(fcs[2], 8), 8, 16))

BlockAckId(seed) == seed % 64

OcbPartialAid(addr) == LET crc == Crc32(addr) IN crc[1] + 256 * (crc[2] % 2)
=============================================================================
