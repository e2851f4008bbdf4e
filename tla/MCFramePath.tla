---------------------------- MODULE MCFramePath ----------------------------
(* Constants of FramePath for TLC. *)
EXTENDS FramePath

MCPolicies ==
  {GoodNeighbor} \cup {[GoodNeighbor EXCEPT ![f] = TRUE] : f \in DOMAIN GoodNeighbor \ {"blocked_ports"}}

(* Allowed, blocked and discovery ports, DHCPv6, router discovery, MLD,    *)
(* IPv4, sealed ESP, cut short, a later fragment, anything else; some to a *)
(* global destination.                                                     *)
MCInner ==
  {<<Ip6(FALSE, "done")>> \o t : t \in
     {<<Ports("udp", 6696, 6696)>>, <<Ports("tcp", 49152, 22)>>, <<Ports("tcp", 5353, 445)>>, <<Ports("udp", 546, 547)>>,
      <<Icmp6("ra")>>, <<Icmp6("mld")>>, <<Esp(TRUE)>>, <<CutShort("udp")>>, <<Ip4(FALSE), Ports("tcp", 49152, 443)>>,
      <<Ip4(TRUE), Other>>}}
  \cup {<<Ip6(TRUE, "done"), Icmp6("echo")>>, <<Ip6(TRUE, "done"), Other>>, <<Ip6(TRUE, "fragment"), Other>>, <<Ip6(FALSE, "cut"), Other>>}

(* EtherType IPv6 and one octet, or six: with QoS the second makes an      *)
(* S-MPDU necessary.                                                       *)
MCPayloads == {<<134, 221, 96>>, <<134, 221, 1, 2, 3, 4, 5, 6>>}

(* The length and the CRC of a delimiter, across its CRC and signature,    *)
(* the Frame Control, the body, and across the last octets of the FCS.     *)
MCHits ==
  {[at |-> 0, mask |-> <<192>>], [at |-> 2, mask |-> <<128, 1>>],
   [at |-> -7, mask |-> <<255>>], [at |-> -2, mask |-> <<192, 3>>]}

MCForeign ==
  LET sid(aid, a3, a4) == [aid |-> aid, a3 |-> a3, a4 |-> a4, amsdu |-> aid = 0]
      opt(on, a) == IF on THEN a ELSE Absent
      frame(type, subtype, fromDs, a1, a2, a3, a4, seq) ==
        [kind |-> "pv1", ptype |-> type, subtype |-> subtype, fromDs |-> fromDs, protected |-> fromDs, noAck |-> ~fromDs,
         a1 |-> a1, a2 |-> a2, a3 |-> a3, a4 |-> a4, seq |-> seq, body |-> <<170, 0, 7, 1, 9, 9>>]
  IN {frame(type, subtype, fromDs, IF fromDs THEN sid(aid, a3, a4) ELSE Mac(Peer), IF fromDs THEN Mac(Own) ELSE sid(aid, a3, a4),
            opt(a3, Stranger), opt(a4, BROADCAST), IF type = 1 /\ subtype = 2 THEN NoSeq ELSE 4095) :
        type \in {0, 1}, subtype \in {0, 2}, fromDs \in BOOLEAN, aid \in {0, 291, 8191}, a3 \in BOOLEAN, a4 \in BOOLEAN}
     \cup {frame(3, 5, TRUE, Mac(Peer), Mac(Own), Absent, Absent, 0),
           frame(2, 1, FALSE, sid(66, FALSE, TRUE), [sid(0, FALSE, FALSE) EXCEPT !.amsdu = FALSE], Absent, Absent, NoSeq)}

MCNdps ==
  LET bits(S) == [j \in 1 .. 16 |-> IF j - 1 \in S THEN 1 ELSE 0]
  IN {[kind |-> "cts", indicator |-> i, ra |-> ra, duration |-> d, early |-> 1 - i, bandwidth |-> bw] :
        i \in {0, 1}, ra \in {0, 300, 511}, d \in {0, 1000, 32767}, bw \in {1, 4}}
     \cup {[kind |-> "ack", id |-> id, more |-> i, idle |-> 1 - i, duration |-> d, relayed |-> i] :
        i \in {0, 1}, id \in {0, 21930, 65535}, d \in {0, 1, 16383}}
     \cup {[kind |-> "block ack", id |-> id, ssn |-> ssn, bitmap |-> bits(S)] :
        id \in {0, 42, 63}, ssn \in {0, 1023, 4095}, S \in {{0}, {15}, {0, 1, 9, 10}, 0 .. 15}}
     \cup {[kind |-> "other", body |-> Uint(t, 3) \o [j \in 1 .. 34 |-> j % 2]] : t \in {0, 1, 3, 5, 6, 7}}
=============================================================================
