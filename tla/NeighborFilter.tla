--------------------------- MODULE NeighborFilter ---------------------------
(***************************************************************************)
(* The good-neighbor frame filter (filter.rs): a pure function of a policy *)
(* and one frame.                                                          *)
(*                                                                         *)
(* A frame is the sequence of its headers, the outermost first; each says  *)
(* what the next one is.  whole is FALSE for a header that is cut short or *)
(* malformed.  An IPv6 header comes with the outcome of the walk over its  *)
(* extension headers: at a transport header, cut short, or ended by the    *)
(* offset of a later fragment.  ESP is sealed unless the RFC 5879          *)
(* heuristic takes it for ESP-NULL.                                        *)
(***************************************************************************)
EXTENDS Naturals, Sequences

MAX_DEPTH == 3

(* EtherTypes are "ident", "ipv6", "ipv4", "arp" (and RARP), "teb" (a whole *)
(* frame in GRE) and "other".                                              *)
Eth(type) == [proto |-> "eth", whole |-> TRUE, type |-> type]

Runt == [proto |-> "eth", whole |-> FALSE, type |-> "other"]

Ip6(local, walk) == [proto |-> "ip6", whole |-> TRUE, local |-> local, walk |-> walk]

BadIp6 == [proto |-> "ip6", whole |-> FALSE, local |-> TRUE, walk |-> "done"]

Ip4(later) == [proto |-> "ip4", whole |-> TRUE, later |-> later]

Gre(type) == [proto |-> "gre", whole |-> TRUE, type |-> type]

Esp(sealed) == [proto |-> "esp", whole |-> TRUE, sealed |-> sealed]

Icmp6(type) == [proto |-> "icmp6", whole |-> TRUE, type |-> type]

Ports(proto, src, dst) == [proto |-> proto, whole |-> TRUE, src |-> src, dst |-> dst]

CutShort(proto) == [proto |-> proto, whole |-> FALSE, src |-> 0, dst |-> 0, type |-> 0, sealed |-> FALSE, later |-> FALSE]

Other == [proto |-> "other", whole |-> TRUE]

---------------------------------------------------------------------------
(* Policies. *)

DEFAULT_BLOCKED_PORTS == {22, 443, 853, 465, 993, 995, 3389, 500, 4500, 51820, 8443}

PortNumbers == 0 .. 65535

FilterConfig ==
  [allow_ipv4 : BOOLEAN, allow_global_dst : BOOLEAN, allow_router_discovery : BOOLEAN, allow_dhcpv6 : BOOLEAN,
   allow_mld : BOOLEAN, allow_discovery : BOOLEAN, allow_esp : BOOLEAN, allow_other_ethertypes : BOOLEAN,
   blocked_ports : SUBSET PortNumbers]

GoodNeighbor ==
  [allow_ipv4 |-> FALSE, allow_global_dst |-> FALSE, allow_router_discovery |-> FALSE, allow_dhcpv6 |-> FALSE,
   allow_mld |-> FALSE, allow_discovery |-> FALSE, allow_esp |-> FALSE, allow_other_ethertypes |-> FALSE,
   blocked_ports |-> DEFAULT_BLOCKED_PORTS]

DiscoveryPorts(proto) ==
  IF proto = "udp" THEN {5353, 5355, 1900, 3702, 137, 138, 5350, 5351} ELSE {139, 445, 5357, 5358}

VXLAN == 4789

PortsPass(cfg, e) ==
  LET used == {e.src, e.dst}
  IN /\ used \cap cfg.blocked_ports = {}
     /\ cfg.allow_dhcpv6 \/ e.proto # "udp" \/ used \cap {546, 547} = {}
     /\ cfg.allow_discovery \/ used \cap DiscoveryPorts(e.proto) = {}

Icmp6Passes(cfg, e) ==
  /\ e.type \in {"rs", "ra", "redirect"} => cfg.allow_router_discovery
  /\ e.type \in {"mld", "mrd"} => cfg.allow_mld

(* Mutant: one level too many. *)
TunnelFitsOneMore(depth) == depth <= MAX_DEPTH

TunnelFits(depth) == depth < MAX_DEPTH

(* Header i begins what an IPv6 or ESP header carries.  v[j][depth]        *)
(* [anywhere] is the verdict about header j and what is behind it, at some  *)
(* depth of tunnels; anywhere says whether an IPv6 destination may be      *)
(* global.                                                                 *)
Transport(cfg, p, v, i, depth) ==
  CASE p[i].proto = "ip4" -> cfg.allow_ipv4 /\ v[i][depth + 1][TRUE]
    [] p[i].proto = "ip6" -> TunnelFits(depth) /\ v[i][depth + 1][TRUE]
    [] OTHER -> v[i][depth][TRUE]

Ethertype(cfg, v, type, i, depth, anywhere) ==
  CASE type = "ident" -> TRUE
    [] type \in {"ipv6", "teb"} -> v[i][depth][anywhere]
    [] type = "ipv4" -> cfg.allow_ipv4 /\ v[i][depth][anywhere]
    [] type = "arp" -> cfg.allow_ipv4
    [] type = "other" -> cfg.allow_other_ethertypes

(* The verdict about header i from those about the next.                   *)
Passes(cfg, p, v, i, depth, anywhere) ==
  LET e == p[i]
  IN \/ e.proto = "esp" /\ cfg.allow_esp
     \/ /\ e.whole
        /\ CASE e.proto = "eth" -> Ethertype(cfg, v, e.type, i + 1, depth, anywhere)
             [] e.proto = "ip6" ->
                  /\ anywhere \/ e.local
                  /\ e.walk = "fragment" \/ (e.walk = "done" /\ Transport(cfg, p, v, i + 1, depth))
             [] e.proto = "ip4" -> e.later \/ p[i + 1].proto \notin {"tcp", "udp", "gre", "esp"} \/ v[i + 1][depth][TRUE]
             [] e.proto = "gre" -> TunnelFits(depth) /\ Ethertype(cfg, v, e.type, i + 1, depth + 1, TRUE)
             [] e.proto = "esp" -> TunnelFits(depth) /\ ~e.sealed /\ Transport(cfg, p, v, i + 1, depth + 1)
             [] e.proto = "icmp6" -> Icmp6Passes(cfg, e)
             [] e.proto \in {"tcp", "udp"} ->
                  /\ PortsPass(cfg, e)
                  /\ (e.proto = "udp" /\ e.dst = VXLAN /\ i < Len(p)) => TunnelFits(depth) /\ v[i + 1][depth + 1][TRUE]
             [] OTHER -> TRUE

Check(cfg, p) ==
  LET v[i \in 1 .. Len(p)] == [depth \in Nat |-> [anywhere \in BOOLEAN |-> Passes(cfg, p, v, i, depth, anywhere)]]
  IN v[1][0][cfg.allow_global_dst]
=============================================================================
