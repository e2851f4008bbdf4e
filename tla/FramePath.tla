----------------------------- MODULE FramePath -----------------------------
(***************************************************************************)
(* A frame's way through the MAC formats, from one host to another: the    *)
(* filter (NeighborFilter), the 802.11 body, MPDUs and a PSDU (MacFrames,  *)
(* Ampdu), damage on the air, and in the receiving engine the MPDUs found, *)
(* the frames handed to its host, the response, and what the sender reads  *)
(* from it (engine.rs).                                                    *)
(*                                                                         *)
(* Every behaviour follows one packet through tunnels, or one PSDU or NDP  *)
(* through the air.  Which MPDUs are due, retries and duplicates are       *)
(* MacLink's; the capacity of a PPDU is PhyLink's.  The PHY hands over the *)
(* PSDU with some of its bits wrong, and the response arrives unharmed.    *)
(***************************************************************************)
EXTENDS Ampdu, NeighborFilter

CONSTANTS
  Policies,    \* filter configurations
  Inner,       \* IPv6 packets, as NeighborFilter's sequences of headers
  MaxWraps,    \* bound: tunnels around one packet
  Payloads,    \* EtherType and payload of the host's frames, octets
  FirstSeqs,   \* sequence number of the first frame of a batch
  Seeds,       \* scrambler seeds
  MaxHit,      \* bound: MPDUs of a PSDU that are damaged
  MaxBatch,    \* bound: MPDUs of an A-MPDU, AMPDU_MAX_MPDUS in the code
  PlainLimit,  \* longest plain PSDU, 511 in the code
  Spare,       \* octets of the PPDU's capacity behind the last MPDU
  Hits,        \* damage: [at, mask], at < 0 counts from the end
  RtsDurations,\* Duration of an RTS
  Foreign,     \* fields of PV1 frames of other stations
  Ndps         \* NDP frames

Own == <<2, 0, 0, 0, 0, 10>>
Peer == <<2, 0, 0, 0, 0, 11>>
Stranger == <<2, 0, 0, 0, 0, 12>>
BROADCAST == WILDCARD_BSSID

A_SIFS_TIME_US == 160
NDP_TX_TIME_US == 240

NoHit == [at |-> 0, mask |-> <<>>]
None == [kind |-> "none"]

---------------------------------------------------------------------------
(* What the constants stand for. *)

(* The ports of VXLAN are not blocked. *)
ASSUME PolicyAssumption ==
  \A cfg \in Policies : cfg \in FilterConfig /\ {49152, VXLAN} \cap cfg.blocked_ports = {}

(* A header nothing is looked at behind. *)
Leaf(e) == ~e.whole \/ e.proto \in {"icmp6", "tcp", "udp", "other"} \/ (e.proto = "esp" /\ e.sealed)

(* The packet at the heart is in no tunnel: IPv6 and what it carries, or   *)
(* IPv4 in IPv6.                                                           *)
Untunneled(p) ==
  /\ p[1].proto = "ip6" /\ p[1].whole
  /\ \/ p = <<p[1], p[2]>> /\ Leaf(p[2])
     \/ p = <<p[1], p[2], p[3]>> /\ p[2].proto = "ip4" /\ p[2].whole /\ Leaf(p[3])

ASSUME InnerAssumption == \A p \in Inner : Untunneled(p)

Octet == 0 .. 255

Address == {a \in Seq(Octet) : Len(a) = 6}

ASSUME PayloadAssumption == \A p \in Payloads : p \in Seq(Octet) /\ Len(p) >= 2

(* The values of a field of n bits. *)
Unsigned(n) == 0 .. 2^n - 1

ASSUME NumberAssumption == FirstSeqs \subseteq Unsigned(12) /\ RtsDurations \subseteq Unsigned(15)

Macs == [mac : Address]

ShortIds == [aid : Unsigned(13), a3 : BOOLEAN, a4 : BOOLEAN, amsdu : BOOLEAN]

Pv1Fields ==
  [kind : {"pv1"}, ptype : 0 .. 3, subtype : 0 .. 7, fromDs : BOOLEAN, protected : BOOLEAN, noAck : BOOLEAN,
   a1 : Macs \cup ShortIds, a2 : Macs \cup ShortIds, a3 : Address \cup {Absent}, a4 : Address \cup {Absent},
   seq : Unsigned(12) \cup {NoSeq}, body : Seq(Octet)]

(* The header of a PV1 frame of each type. *)
IsPv1(r) ==
  LET sid == IF r.fromDs THEN r.a1 ELSE r.a2
  IN /\ r \in Pv1Fields
     /\ r.ptype \in {PV1_TYPE_QOS_DATA, PV1_TYPE_MANAGEMENT} =>
          /\ sid \in ShortIds /\ (IF r.fromDs THEN r.a2 ELSE r.a1) \in Macs
          /\ r.a3 = Absent <=> ~sid.a3
          /\ r.a4 = Absent <=> ~sid.a4
          /\ r.seq = NoSeq <=> r.ptype = PV1_TYPE_MANAGEMENT /\ r.subtype = 2
     /\ r.ptype = 2 => r.a1 \in ShortIds /\ r.a2 = Sid(0) /\ r.seq = NoSeq
     /\ r.ptype = PV1_TYPE_QOS_DATA_MAC => r.a1 \in Macs /\ r.a2 \in Macs /\ r.seq # NoSeq
     /\ r.ptype \in {2, PV1_TYPE_QOS_DATA_MAC} => r.a3 = Absent /\ r.a4 = Absent

(* Fields of an NDP. *)
NdpCts ==
  [kind : {"cts"}, indicator : {0, 1}, ra : Unsigned(9), duration : Unsigned(15), early : {0, 1}, bandwidth : Unsigned(3)]

NdpAck ==
  [kind : {"ack"}, id : Unsigned(16), more : {0, 1}, idle : {0, 1}, duration : Unsigned(14), relayed : {0, 1}]

NdpBlockAck == [kind : {"block ack"}, id : Unsigned(6), ssn : Unsigned(12), bitmap : [1 .. 16 -> {0, 1}]]

(* A body that is none of the three kinds. *)
IsOtherNdp(n) ==
  /\ n \in [kind : {"other"}, body : [1 .. 37 -> {0, 1}]]
  /\ NdpField(n.body, 0, 3) \notin {TYPE_ACK, TYPE_BLOCK_ACK}
  /\ NdpField(n.body, 0, 3) = TYPE_CTS_CF_END => n.body[4] = 1

IsNdpFrame(n) == n \in NdpCts \/ n \in NdpAck \/ n \in NdpBlockAck \/ IsOtherNdp(n)

ASSUME OthersAssumption == (\A r \in Foreign : IsPv1(r)) /\ (\A n \in Ndps : IsNdpFrame(n))

---------------------------------------------------------------------------
VARIABLES
  stage,   \* "host", "air", "heard", "done", or "read" for what is only parsed
  base,    \* the IPv6 packet at the heart
  pkt,     \* the IPv6 packet with its tunnels
  levels,  \* how many
  sent,    \* what the sender put on the air, and what it waits for
  psdu,    \* the PSDU, or the NDP body, as it is received
  hits,    \* the damage done to each MPDU
  heard,   \* Ethernet frames handed to the receiving host
  reply,   \* the response of the receiver
  acked    \* the MPDUs the sender takes as acknowledged

pathVars == <<stage, base, pkt, levels, sent, psdu, hits, heard, reply, acked>>

PathInit ==
  /\ stage = "host"
  /\ base \in Inner
  /\ pkt = base
  /\ levels = 0
  /\ sent = None
  /\ psdu = <<>>
  /\ hits = <<>>
  /\ heard = <<>>
  /\ reply = None
  /\ acked = {}

---------------------------------------------------------------------------
(* The host's side: a packet is put into a tunnel whose own packets go to  *)
(* a local destination.                                                    *)

Tunneled(by) ==
  CASE by = "ip6" -> <<Ip6(TRUE, "done")>> \o pkt
    [] by = "gre" -> <<Ip6(TRUE, "done"), Gre("ipv6")>> \o pkt
    [] by = "bridge" -> <<Ip6(TRUE, "done"), Gre("teb"), Eth("ipv6")>> \o pkt
    [] by = "vxlan" -> <<Ip6(TRUE, "done"), Ports("udp", 49152, VXLAN), Eth("ipv6")>> \o pkt
    [] by = "esp" -> <<Head(pkt), Esp(FALSE)>> \o Tail(pkt)

(* The heuristic knows ESP-NULL by the header inside, if it is one of      *)
(* these; ESP around any other counts as encrypted.                        *)
EspNullIsSeen == pkt[1].walk = "done" /\ pkt[2].proto \in {"ip6", "ip4", "tcp", "udp", "icmp6"}

Wrap(by) ==
  /\ stage = "host" /\ levels < MaxWraps
  /\ by = "esp" => EspNullIsSeen
  /\ pkt' = Tunneled(by)
  /\ levels' = levels + 1
  /\ UNCHANGED <<stage, base, sent, psdu, hits, heard, reply, acked>>

---------------------------------------------------------------------------
(* The sender. *)

ExpectNothing == [kind |-> "nothing"]

ExpectNdpAck(seed, mpdu) == [kind |-> "ndp ack", id |-> AckIdForMpdu(seed, mpdu)]

ExpectBlockAck(seed) == [kind |-> "block ack", id |-> BlockAckId(seed)]

ExpectAck == [kind |-> "ack"]

ExpectCts == [kind |-> "cts", partialAid |-> OcbPartialAid(Own)]

(* Where each subframe begins and its MPDU ends. *)
Spans(mpdus, aggregated) ==
  [i \in DOMAIN mpdus |->
    LET start == IF aggregated THEN Pad4(PreEofLenMany([k \in 1 .. i - 1 |-> Len(mpdus[k])])) ELSE 0
    IN [start |-> start, end |-> start + Len(mpdus[i]) + (IF aggregated THEN DELIM_LEN ELSE 0)]]

OnAir(s, octets) ==
  /\ stage' = "air"
  /\ sent' = s
  /\ psdu' = octets
  /\ UNCHANGED <<base, pkt, levels, hits, heard, reply, acked>>

Fields(eth, seq, qos, retry, duration) ==
  [i \in DOMAIN eth |->
    LET e == ParseEthernet(eth[i])
    IN [kind |-> "data", dest |-> e.dest, src |-> e.src, bssid |-> WILDCARD_BSSID, seq |-> (seq + i - 1) % 4096,
        retry |-> retry, duration |-> duration, tid |-> IF qos THEN 0 ELSE NoTid, body |-> ToBody(e.ethertype, e.payload)]]

BuildMpdu(f) == BuildData(f.dest, f.src, f.seq, f.retry, f.duration, f.tid, f.body)

(* plan_attempt and what poll makes of it: a plain MPDU, an S-MPDU or an   *)
(* A-MPDU.  An A-MPDU is sent only with NDP responses.                     *)
TransmitBatch(dest, batch, seq, qos, retry, ndpAck, seed, spare) ==
  LET n == Len(batch)
      wantAck == ~IsGroup(dest)
      eth == [i \in 1 .. n |-> dest \o Own \o batch[i]]
      fields == Fields(eth, seq, qos, retry, IF wantAck THEN A_SIFS_TIME_US + NDP_TX_TIME_US ELSE 0)
  IN /\ n > 1 => wantAck /\ ndpAck /\ qos /\ ~retry
     /\ \E mpdus \in {[i \in 1 .. n |-> BuildMpdu(fields[i])]} :
          LET aggregated == n > 1 \/ Len(mpdus[1]) > PlainLimit
              expect == CASE ~wantAck -> ExpectNothing
                          [] wantAck /\ ~ndpAck -> ExpectAck
                          [] wantAck /\ ndpAck /\ n = 1 -> ExpectNdpAck(seed, mpdus[1])
                          [] wantAck /\ ndpAck /\ n > 1 -> ExpectBlockAck(seed)
          IN OnAir([kind |-> "data", eth |-> eth, fields |-> fields, mpdus |-> mpdus, aggregated |-> aggregated,
                    response |-> IF ~wantAck THEN "none" ELSE IF ndpAck THEN "ndp" ELSE "normal",
                    seed |-> seed, expect |-> expect],
                   IF aggregated THEN Aggregate(mpdus, PreEofLenMany([i \in 1 .. n |-> Len(mpdus[i])]) + spare)
                   ELSE mpdus[1])

TransmitRts(duration, seed) ==
  LET rts == BuildRts(Peer, Own, duration)
  IN OnAir([kind |-> "rts", eth |-> <<>>, mpdus |-> <<rts>>, aggregated |-> FALSE, response |-> "ndp", seed |-> seed,
            fields |-> <<[kind |-> "rts", ra |-> Peer, ta |-> Own, duration |-> duration]>>, expect |-> ExpectCts], rts)

(* Another make of station sends a PV1 frame, or pads a frame behind its   *)
(* FCS.                                                                    *)
TransmitPv1(dest, payload, seq, noAck, seed, pad) ==
  LET body == ToBody(SubSeq(payload, 1, 2), From(payload, 2))
      mpdu == BuildPv1Data(dest, Own, seq, 0, noAck, body)
  IN OnAir([kind |-> "data", eth |-> <<dest \o Own \o payload>>, mpdus |-> <<mpdu>>, aggregated |-> FALSE,
            response |-> "ndp", seed |-> seed,
            fields |-> <<[kind |-> "pv1", ptype |-> PV1_TYPE_QOS_DATA_MAC, subtype |-> 0, fromDs |-> FALSE, protected |-> FALSE,
                          noAck |-> noAck, a1 |-> Mac(dest), a2 |-> Mac(Own), a3 |-> Absent, a4 |-> Absent,
                          seq |-> seq, body |-> body]>>,
            expect |-> IF noAck \/ IsGroup(dest) THEN ExpectNothing ELSE ExpectNdpAck(seed, mpdu)],
           Padded(mpdu, Len(mpdu) + pad))

---------------------------------------------------------------------------
(* The channel: a burst of at most eight bits in each MPDU or delimiter,   *)
(* and one in the padding of an A-MPDU.                                    *)

XorOctet(a, b) == Value([i \in 1 .. 8 |-> Xor(Uint(a, 8)[i], Uint(b, 8)[i])])

(* The mask of octet k, counted from 1. *)
MaskAt(spans, f, tail, k) ==
  LET place(i) == (IF f[i].at >= 0 THEN spans[i].start ELSE spans[i].end) + f[i].at
      hit == {i \in DOMAIN f : k - place(i) \in DOMAIN f[i].mask}
  IN CASE hit # {} -> LET i == CHOOSE i \in hit : TRUE IN f[i].mask[k - place(i)]
       [] hit = {} /\ tail /\ k = Len(psdu) -> 16
       [] OTHER -> 0

Damage(f, tail) ==
  /\ Cardinality({i \in DOMAIN f : f[i] # NoHit}) \in 1 .. MaxHit
  /\ hits' = f
  /\ \E spans \in {Spans(sent.mpdus, sent.aggregated)} :
       /\ tail => Len(psdu) > spans[Len(spans)].end
       /\ psdu' = [k \in DOMAIN psdu |->
                    LET mask == MaskAt(spans, f, tail, k) IN IF mask = 0 THEN psdu[k] ELSE XorOctet(psdu[k], mask)]
  /\ UNCHANGED <<stage, base, pkt, levels, sent, heard, reply, acked>>

---------------------------------------------------------------------------
(* The receiving engine, of station Peer. *)

IsData(p) == p.kind = "data" \/ (p.kind = "pv1" /\ p.ptype = PV1_TYPE_QOS_DATA_MAC)

Dest(p) == IF p.kind = "pv1" THEN p.a1.mac ELSE p.dest

Src(p) == IF p.kind = "pv1" THEN p.a2.mac ELSE p.src

ForUs(p) == IsData(p) /\ Src(p) # Peer /\ Dest(p) = Peer

AckAsked(p) == ForUs(p) /\ (p.kind = "pv1" => ~p.noAck)

(* What on_data hands to the host of a parsed MPDU. *)
HandedUp(p) ==
  IF IsData(p) /\ Src(p) # Peer /\ (Dest(p) = Peer \/ IsGroup(Dest(p))) /\ IsSnap(p.body)
  THEN <<BodyToEthernet(Dest(p), Src(p), p.body)>>
  ELSE <<>>

NdpReply(n) == [kind |-> "ndp", body |-> NdpToBody(n)]

FrameReply(f) == [kind |-> "frame", octets |-> f]

QueueAck(p, mpdu) ==
  CASE sent.response = "ndp" ->
         NdpReply([kind |-> "ack", id |-> AckIdForMpdu(sent.seed, mpdu), more |-> 0, idle |-> 0, duration |-> 0, relayed |-> 0])
    [] sent.response = "normal" -> FrameReply(BuildAck(Src(p)))
    [] sent.response = "none" -> None

(* Mutant: the distance is not taken modulo 4096. *)
BitmapUnwrapped(seqs) ==
  [j \in 1 .. 16 |-> IF \E i \in DOMAIN seqs : seqs[i] - seqs[1] = j - 1 THEN 1 ELSE 0]

(* Bit j - 1 for the sequence number that far behind the first received.   *)
Bitmap(seqs) ==
  [j \in 1 .. 16 |-> IF \E i \in DOMAIN seqs : (seqs[i] - seqs[1]) % 4096 = j - 1 THEN 1 ELSE 0]

QueueBlockAck(src, seqs) ==
  CASE sent.response = "ndp" ->
         NdpReply([kind |-> "block ack", id |-> BlockAckId(sent.seed), ssn |-> seqs[1], bitmap |-> Bitmap(seqs)])
    [] sent.response = "normal" -> FrameReply(BuildAck(src))
    [] sent.response = "none" -> None

Cts(p) ==
  NdpReply([kind |-> "cts", indicator |-> 0, ra |-> OcbPartialAid(p.ta), early |-> 0, bandwidth |-> 1,
            duration |-> Minus(p.duration, A_SIFS_TIME_US + NDP_TX_TIME_US)])

HearMpdus(mpdus, parsed) ==
  LET n == Len(mpdus)
      blockAck == sent.aggregated /\ ~IsSMpdu(mpdus, sent.aggregated)
      asked == SelectSeq([i \in 1 .. n |-> i], LAMBDA i : AckAsked(parsed[i]))
  IN /\ heard' = IF n = 0 THEN <<>> ELSE Concat(LAMBDA i : HandedUp(parsed[i]), n)
     /\ reply' =
          IF asked # <<>>
          THEN IF blockAck
               THEN QueueBlockAck(Src(parsed[asked[Len(asked)]]), [k \in DOMAIN asked |-> parsed[asked[k]].seq])
               ELSE QueueAck(parsed[1], mpdus[1].mpdu)
          ELSE IF n = 1 /\ parsed[1].kind = "rts" /\ parsed[1].ra = Peer THEN Cts(parsed[1]) ELSE None

Hear ==
  /\ stage = "air"
  /\ stage' = "heard"
  /\ \E mpdus \in {SplitPsdu(psdu, sent.aggregated)} :
       \E parsed \in {[i \in DOMAIN mpdus |-> Parse(mpdus[i].mpdu)]} : HearMpdus(mpdus, parsed)
  /\ UNCHANGED <<base, pkt, levels, sent, psdu, hits, acked>>

(* The sender takes the response for its own, or does not. *)
Answers ==
  LET e == sent.expect
      n == ParseNdp(reply.body)
      p == Parse(reply.octets)
  IN CASE reply.kind = "ndp" /\ n.kind = "ack" /\ e.kind = "ndp ack" -> IF n.id = e.id THEN DOMAIN sent.mpdus ELSE {}
       [] reply.kind = "ndp" /\ n.kind = "block ack" /\ e.kind = "block ack" ->
            IF n.id # e.id THEN {}
            ELSE {i \in DOMAIN sent.mpdus :
                    LET d == (sent.fields[i].seq - n.ssn) % 4096 IN d < 16 /\ n.bitmap[d + 1] = 1}
       [] reply.kind = "ndp" /\ n.kind = "cts" /\ e.kind = "cts" ->
            IF n.indicator = 0 /\ n.ra = e.partialAid THEN {1} ELSE {}
       [] reply.kind = "frame" /\ p.kind = "ack" /\ e.kind = "ack" -> IF p.ra = Own THEN DOMAIN sent.mpdus ELSE {}
       [] OTHER -> {}

Answer ==
  /\ stage = "heard"
  /\ stage' = "done"
  /\ acked' = IF reply = None THEN {} ELSE Answers
  /\ UNCHANGED <<base, pkt, levels, sent, psdu, hits, heard, reply>>

---------------------------------------------------------------------------
(* What other stations send is only read: PV1 frames with Short IDs and    *)
(* optional addresses, some cut short, and every kind of NDP.              *)

AddrOctets(a) ==
  IF "mac" \in DOMAIN a THEN a.mac
  ELSE Le16(a.aid + (IF a.a3 THEN 8192 ELSE 0) + (IF a.a4 THEN 16384 ELSE 0) + (IF a.amsdu THEN 32768 ELSE 0))

Pv1Header(r) ==
  <<1 + 4 * r.ptype + 32 * r.subtype,
    (IF r.fromDs THEN 1 ELSE 0) + (IF r.protected THEN 16 ELSE 0) + (IF r.noAck THEN 128 ELSE 0)>>
  \o AddrOctets(r.a1) \o (IF r.ptype = 2 THEN <<>> ELSE AddrOctets(r.a2))
  \o (IF r.seq = NoSeq THEN <<>> ELSE SeqControl(r.seq)) \o r.a3 \o r.a4

ReadPv1(r, short) ==
  LET header == Pv1Header(r)
      f == IF short THEN SubSeq(header, 1, Len(header) - 1) ELSE header \o r.body
  IN /\ Len(f) >= 10
     /\ stage' = "read"
     /\ psdu' = WithFcs(f)
     /\ sent' = [kind |-> "pv1", fields |-> <<IF short THEN TooShort ELSE r>>]
     /\ UNCHANGED <<base, pkt, levels, hits, heard, reply, acked>>

ReadNdp(n) ==
  /\ stage' = "read"
  /\ psdu' = NdpToBody(n)
  /\ sent' = [kind |-> "ndp", fields |-> <<n>>]
  /\ UNCHANGED <<base, pkt, levels, hits, heard, reply, acked>>

---------------------------------------------------------------------------
Batches == UNION {[1 .. n -> Payloads] : n \in 1 .. MaxBatch}

Host == \E by \in {"ip6", "gre", "bridge", "vxlan", "esp"} : Wrap(by)

(* The radio path does not look at the layers of a packet, so one packet   *)
(* is enough there.                                                        *)
Sender ==
  /\ stage = "host" /\ levels = 0 /\ base = CHOOSE b \in Inner : TRUE
  /\ \E seq \in FirstSeqs, seed \in Seeds :
       \/ \E batch \in Batches, dest \in {Peer, Stranger, BROADCAST}, qos, retry, ndpAck \in BOOLEAN, spare \in Spare :
            TransmitBatch(dest, batch, seq, qos, retry, ndpAck, seed, spare)
       \/ \E payload \in Payloads, dest \in {Peer, Stranger, BROADCAST}, noAck \in BOOLEAN, pad \in 0 .. 3 :
            TransmitPv1(dest, payload, seq, noAck, seed, pad)
       \/ \E duration \in RtsDurations : TransmitRts(duration, seed)

Channel == stage = "air" /\ hits = <<>> /\ \E f \in [DOMAIN sent.mpdus -> Hits \cup {NoHit}], tail \in BOOLEAN : Damage(f, tail)

Others ==
  /\ stage = "host" /\ levels = 0 /\ base = CHOOSE b \in Inner : TRUE
  /\ \/ \E r \in Foreign, short \in BOOLEAN : ReadPv1(r, short)
     \/ \E n \in Ndps : ReadNdp(n)

PathNext == Host \/ Sender \/ Channel \/ Hear \/ Answer \/ Others

PathSpec == PathInit /\ [][PathNext]_pathVars

---------------------------------------------------------------------------
Touched(i) == hits # <<>> /\ hits[i] # NoHit

(* A tunnel hides nothing from the filter and costs a packet nothing: up   *)
(* to three levels the filter says of a wrapped packet what it says of the *)
(* packet itself, however IPv6, GRE, bridging, VXLAN and ESP-NULL (around  *)
(* a header its heuristic knows) are nested, and anything deeper is        *)
(* dropped.  Only the outermost destination has to be local.  (With        *)
(* allow_esp the inside of ESP is not looked at.)                          *)
TunnelsChangeNothing ==
  stage = "host" =>
    \A cfg \in Policies :
      ~cfg.allow_esp =>
        (Check(cfg, <<Eth("ipv6")>> \o pkt)
         <=> /\ levels <= MAX_DEPTH
             /\ pkt[1].local \/ cfg.allow_global_dst
             /\ Check([cfg EXCEPT !.allow_global_dst = TRUE], <<Eth("ipv6")>> \o base))

(* Every frame whose own MPDU and delimiter arrive unharmed reaches the    *)
(* host as it was offered to the sender, in order, whatever happens to its *)
(* neighbours in the A-MPDU; and nothing else does.                        *)
DamageIsContained ==
  stage \in {"heard", "done"} =>
    heard = IF sent.eth = <<>> THEN <<>>
            ELSE Concat(LAMBDA i : IF Touched(i) \/ Dest(sent.fields[i]) = Stranger THEN <<>> ELSE <<sent.eth[i]>>,
                        Len(sent.eth))

(* The sender takes exactly those MPDUs as acknowledged that arrived, also *)
(* when the first of the batch is lost or the sequence numbers wrap; the   *)
(* reservation of a CTS ends when that of the RTS does, and is empty if    *)
(* the RTS reserves less than the CTS itself takes.                        *)
ReplyNamesReceived ==
  stage = "done" =>
    /\ acked = {i \in DOMAIN sent.mpdus :
                  /\ ~Touched(i)
                  /\ sent.expect # ExpectNothing
                  /\ sent.kind = "rts" \/ Dest(sent.fields[i]) = Peer}
    /\ reply # None /\ sent.kind = "rts" =>
         ParseNdp(reply.body).duration
           = IF sent.fields[1].duration >= A_SIFS_TIME_US + NDP_TX_TIME_US
             THEN sent.fields[1].duration - A_SIFS_TIME_US - NDP_TX_TIME_US
             ELSE 0

(* The fields a frame or an NDP is built from are the fields read from it, *)
(* and a frame that ends within its header is refused.                     *)
FieldsReadBack ==
  CASE stage = "air" /\ hits = <<>> -> \A i \in DOMAIN sent.mpdus : Parse(sent.mpdus[i]) = sent.fields[i]
    [] stage = "read" /\ sent.kind = "pv1" -> Parse(psdu) = sent.fields[1]
    [] stage = "read" /\ sent.kind = "ndp" -> ParseNdp(psdu) = sent.fields[1]
    [] OTHER -> TRUE
=============================================================================
