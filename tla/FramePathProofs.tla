--------------------------- MODULE FramePathProofs ---------------------------
(***************************************************************************)
(* Proofs about FramePath, for any policies, packets, payloads and fields  *)
(* within what its assumptions say.                                        *)
(*                                                                         *)
(* TunnelInv says that the filter's verdict on a nested packet at any      *)
(* depth is that on the packet at its heart as many levels deeper as there *)
(* are tunnels: a header in front changes no verdict behind it, and each   *)
(* kind of tunnel costs one level.  FieldsInv says that what is on the air *)
(* is read as what it was built from: each piece of a frame or an NDP      *)
(* stands where the parser looks for it, and is read back there.           *)
(*                                                                         *)
(* Of PhyLinkProofs only the lemmas about sequences and bits are used.     *)
(***************************************************************************)
EXTENDS FramePath, PhyLinkProofs

---------------------------------------------------------------------------
(* The filter. *)

(* Policies that differ at most in where a destination may be.             *)
Alike(c, k) ==
  /\ c.allow_ipv4 = k.allow_ipv4 /\ c.allow_router_discovery = k.allow_router_discovery
  /\ c.allow_dhcpv6 = k.allow_dhcpv6 /\ c.allow_mld = k.allow_mld /\ c.allow_discovery = k.allow_discovery
  /\ c.allow_esp = k.allow_esp /\ c.allow_other_ethertypes = k.allow_other_ethertypes
  /\ c.blocked_ports = k.blocked_ports

(* Header i of p is header j of q, and so is what is known of the next.    *)
SameAt(c, k, p, q, f, g, i, j) ==
  /\ Alike(c, k)
  /\ p[i] = q[j]
  /\ (i < Len(p)) <=> (j < Len(q))
  /\ i < Len(p) => p[i + 1] = q[j + 1] /\ f[i + 1] = g[j + 1]
  /\ ~(i < Len(p)) => Leaf(p[i])

(* The check of one header sees only that header and the verdict on the    *)
(* next one.                                                               *)
LEMMA SameVerdict ==
  ASSUME NEW c, NEW k, NEW p, NEW q, NEW f, NEW g, NEW i \in Nat, NEW j \in Nat, SameAt(c, k, p, q, f, g, i, j),
         NEW d \in Nat, NEW a \in BOOLEAN
  PROVE  Passes(c, p, f, i, d, a) = Passes(k, q, g, j, d, a)
<1> USE DEF SameAt
<1> DEFINE e == p[i]
<1>0. e = q[j]
  OBVIOUS
<1>1. /\ PortsPass(c, e) <=> PortsPass(k, e)
      /\ Icmp6Passes(c, e) <=> Icmp6Passes(k, e)
  BY DEF Alike, PortsPass, Icmp6Passes
<1>2. ASSUME NEW n \in Nat, i < Len(p)
      PROVE  Transport(c, p, f, i + 1, n) <=> Transport(k, q, g, j + 1, n)
  BY <1>2 DEF Transport, Alike
<1>3. ASSUME NEW n \in Nat, NEW b \in BOOLEAN, NEW t, i < Len(p)
      PROVE  Ethertype(c, f, t, i + 1, n, b) <=> Ethertype(k, g, t, j + 1, n, b)
  BY <1>3 DEF Ethertype, Alike
<1>6. SUFFICES Passes(c, p, f, i, d, a) <=> Passes(k, q, g, j, d, a)
  BY DEF Passes
<1>4. CASE i < Len(p)
  <2>1. j < Len(q) /\ p[i + 1] = q[j + 1]
    BY <1>4
  <2>2. \A n \in Nat : Transport(c, p, f, i + 1, n) <=> Transport(k, q, g, j + 1, n)
    BY <1>2, <1>4
  <2>3. \A n \in Nat, b \in BOOLEAN : Ethertype(c, f, e.type, i + 1, n, b) <=> Ethertype(k, g, e.type, j + 1, n, b)
    BY <1>3, <1>4
  <2>4. f[i + 1] = g[j + 1]
    BY <1>4
  <2>5. c.allow_esp = k.allow_esp
    BY DEF Alike
  <2>6. TRUE \in BOOLEAN /\ d + 1 \in Nat
    OBVIOUS
  <2> HIDE DEF e
  <2>7. QED
    BY <1>0, <1>1, <1>4, <2>1, <2>2, <2>3, <2>4, <2>5, <2>6 DEF Passes, e
<1>5. CASE ~(i < Len(p))
  BY <1>0, <1>1, <1>5 DEF Passes, Leaf, Alike
<1>7. QED
  BY <1>4, <1>5

---------------------------------------------------------------------------
IsSeq(p) == \E S : p \in Seq(S)

(* Nothing is looked at behind the last header.                            *)
WellFormed(p) == IsSeq(p) /\ Len(p) > 0 /\ Leaf(p[Len(p)])

(* The verdicts about header i of p, from those about the next.            *)
Judged(c, p, f, i) == [d \in Nat |-> [a \in BOOLEAN |-> Passes(c, p, f, i, d, a)]]

(* A policy differs in nothing from itself. *)
LEMMA AlikeItself == ASSUME NEW c PROVE Alike(c, c)
  BY DEF Alike

(* They are the same for the same headers.                                 *)
LEMMA SameJudgement ==
  ASSUME NEW c, NEW k, NEW p, NEW q, NEW f, NEW g, NEW i \in Nat, NEW j \in Nat, SameAt(c, k, p, q, f, g, i, j)
  PROVE  Judged(c, p, f, i) = Judged(k, q, g, j)
<1>1. \A d \in Nat, a \in BOOLEAN : Passes(c, p, f, i, d, a) = Passes(k, q, g, j, d, a)
  <2> TAKE d \in Nat, a \in BOOLEAN
  <2>1. QED
    BY SameVerdict
<1>2. \A d \in Nat : [a \in BOOLEAN |-> Passes(c, p, f, i, d, a)] = [a \in BOOLEAN |-> Passes(k, q, g, j, d, a)]
  BY <1>1
<1>3. QED
  BY <1>2 DEF Judged

(* v is the verdicts about the headers of p.                               *)
IsVerdicts(c, p, v) == v = [i \in 1 .. Len(p) |-> Judged(c, p, v, i)]

(* There are such verdicts: they can be found from the last header on.     *)
LEMMA VerdictsExist ==
  ASSUME NEW c, NEW p, WellFormed(p)
  PROVE  \E v : IsVerdicts(c, p, v)
<1> DEFINE L == Len(p)
           Settled(n, v) == \A i \in 1 .. L : i > L - n => v[i] = Judged(c, p, v, i)
           T == {n \in Nat : \E v : Settled(n, v)}
<1>1. L \in Nat /\ L > 0 /\ Leaf(p[L])
  BY DEF WellFormed, IsSeq
<1>2. 0 \in T
  <2>1. Settled(0, <<>>)
    BY <1>1
  <2>2. QED
    BY <2>1
<1>11. ASSUME NEW v, NEW w, NEW i \in 1 .. L, i < L => v[i + 1] = w[i + 1]
       PROVE  Judged(c, p, v, i) = Judged(c, p, w, i)
  <2>1. i \in Nat /\ (~(i < Len(p)) => Leaf(p[i]))
    BY <1>1
  <2>2. p[i] = p[i] /\ ((i < Len(p)) <=> (i < Len(p))) /\ (i < Len(p) => p[i + 1] = p[i + 1] /\ v[i + 1] = w[i + 1])
    BY <1>11
  <2>3. Alike(c, c)
    BY AlikeItself
  <2>4. SameAt(c, c, p, p, v, w, i, i)
    BY <2>1, <2>2, <2>3 DEF SameAt
  <2>5. QED
    BY <2>1, <2>4, SameJudgement
<1>3. ASSUME NEW n \in T
      PROVE  n + 1 \in T
  <2>1. PICK v : Settled(n, v)
    OBVIOUS
  <2>5. n \in Nat
    OBVIOUS
  <2> DEFINE w == [i \in 1 .. L |-> Judged(c, p, v, i)]
  <2>2. ASSUME NEW i \in 1 .. L, i > L - (n + 1)
        PROVE  w[i] = Judged(c, p, w, i)
    <3>1. i < L => i + 1 \in 1 .. L /\ i + 1 > L - n
      BY <1>1, <2>2, <2>5
    <3>2. i < L => v[i + 1] = Judged(c, p, v, i + 1)
      BY <2>1, <3>1
    <3>3. i < L => w[i + 1] = Judged(c, p, v, i + 1)
      BY <3>1
    <3>4. w[i] = Judged(c, p, v, i)
      OBVIOUS
    <3> HIDE DEF w
    <3>5. Judged(c, p, v, i) = Judged(c, p, w, i)
      BY <1>11, <3>2, <3>3
    <3>6. QED
      BY <3>4, <3>5
  <2> HIDE DEF w
  <2>3. Settled(n + 1, w)
    BY <2>2
  <2> HIDE DEF Settled
  <2>4. QED
    BY <2>3, <2>5
<1>4. T = Nat
  <2>1. T \in SUBSET Nat
    OBVIOUS
  <2> HIDE DEF T
  <2>2. QED
    BY <1>2, <1>3, <2>1, SetInduction
<1>5. PICK v : Settled(L, v)
  BY <1>1, <1>4
<1>6. \A i \in 1 .. L : v[i] = Judged(c, p, v, i)
  BY <1>1, <1>5
<1> DEFINE w == [i \in 1 .. L |-> Judged(c, p, v, i)]
<1>7. \A i \in 1 .. L : w[i] = Judged(c, p, v, i)
  OBVIOUS
<1>8. w = [i \in 1 .. L |-> Judged(c, p, w, i)]
  <2> HIDE DEF w
  <2>1. ASSUME NEW i \in 1 .. L
        PROVE  Judged(c, p, v, i) = Judged(c, p, w, i)
    <3>1. i < L => i + 1 \in 1 .. L
      BY <1>1
    <3>2. i < L => v[i + 1] = w[i + 1]
      BY <1>6, <1>7, <3>1
    <3>3. QED
      BY <1>11, <3>2
  <2>2. [i \in 1 .. L |-> Judged(c, p, v, i)] = [i \in 1 .. L |-> Judged(c, p, w, i)]
    BY <2>1
  <2>3. QED
    BY <2>2 DEF w
<1>9. IsVerdicts(c, p, w)
  <2> HIDE DEF w
  <2>1. QED
    BY <1>8 DEF IsVerdicts
<1>10. QED
  BY <1>9

(* The verdicts about p.                                                   *)
Verdicts(c, p) == CHOOSE v : IsVerdicts(c, p, v)

(* The filter is the verdict on the first header, and each verdict the     *)
(* check of its header.                                                    *)
LEMMA VerdictsAre ==
  ASSUME NEW c, NEW p, WellFormed(p)
  PROVE  /\ IsVerdicts(c, p, Verdicts(c, p))
         /\ Check(c, p) = Verdicts(c, p)[1][0][c.allow_global_dst]
         /\ \A i \in 1 .. Len(p), d \in Nat, a \in BOOLEAN :
              Verdicts(c, p)[i][d][a] = Passes(c, p, Verdicts(c, p), i, d, a)
<1>1. IsVerdicts(c, p, Verdicts(c, p))
  BY VerdictsExist DEF Verdicts
<1>2. Check(c, p) = Verdicts(c, p)[1][0][c.allow_global_dst]
  BY DEF Check, Verdicts, IsVerdicts, Judged
<1> DEFINE v == Verdicts(c, p)
<1>3. IsVerdicts(c, p, v)
  BY <1>1
<1> HIDE DEF v
<1>4. \A i \in 1 .. Len(p), d \in Nat, a \in BOOLEAN : v[i][d][a] = Passes(c, p, v, i, d, a)
  <2> TAKE i \in 1 .. Len(p), d \in Nat, a \in BOOLEAN
  <2>1. v[i] = Judged(c, p, v, i)
    BY <1>3 DEF IsVerdicts
  <2>2. v[i][d] = [b \in BOOLEAN |-> Passes(c, p, v, i, d, b)]
    BY <2>1 DEF Judged
  <2>3. QED
    BY <2>2
<1>5. QED
  BY <1>1, <1>2, <1>4 DEF v

(* q is what is behind the first n headers of p.                           *)
IsBehind(q, p, n) == Len(p) = Len(q) + n /\ \A i \in 1 .. Len(q) : p[n + i] = q[i]

(* Headers in front of a packet change nothing in the verdicts about its   *)
(* own.                                                                    *)
LEMMA VerdictsBehind ==
  ASSUME NEW c, NEW k, Alike(c, k), NEW p, NEW q, WellFormed(p), WellFormed(q), NEW n \in Nat, IsBehind(q, p, n)
  PROVE  \A i \in 1 .. Len(q) : Verdicts(c, p)[n + i] = Verdicts(k, q)[i]
<1> DEFINE L == Len(q)
           v == Verdicts(c, p)
           w == Verdicts(k, q)
           T == {m \in Nat : \A i \in 1 .. L : i > L - m => v[n + i] = w[i]}
<1>1. L \in Nat /\ L > 0 /\ Len(p) = L + n /\ Leaf(q[L])
  BY DEF WellFormed, IsSeq, IsBehind
<1>7. \A i \in 1 .. L : p[n + i] = q[i]
  BY DEF IsBehind
<1>2. 0 \in T
  BY <1>1
<1>8. IsVerdicts(c, p, v) /\ IsVerdicts(k, q, w)
  BY VerdictsAre
<1> HIDE DEF v, w
<1>3. ASSUME NEW m \in T
      PROVE  m + 1 \in T
  <2>0. m \in Nat
    OBVIOUS
  <2>1. ASSUME NEW i \in 1 .. L, i > L - (m + 1)
        PROVE  v[n + i] = w[i]
    <3> DEFINE j == n + i
    <3>1. i \in Nat /\ j \in Nat /\ j \in 1 .. Len(p) /\ j + 1 = n + (i + 1) /\ (j < Len(p) <=> i < L)
      BY <1>1
    <3>2. i < L => i + 1 \in 1 .. L /\ i + 1 > L - m
      BY <1>1, <2>0, <2>1
    <3>3. p[j] = q[i] /\ (i < L => p[j + 1] = q[i + 1] /\ v[j + 1] = w[i + 1])
      BY <1>7, <3>1, <3>2
    <3>4. ~(j < Len(p)) => Leaf(p[j])
      BY <1>1, <3>1, <3>3
    <3> HIDE DEF j
    <3>8. SameAt(c, k, p, q, v, w, j, i)
      BY <3>1, <3>3, <3>4 DEF SameAt
    <3>5. Judged(c, p, v, j) = Judged(k, q, w, i)
      BY <3>1, <3>8, SameJudgement
    <3>6. v[j] = Judged(c, p, v, j) /\ w[i] = Judged(k, q, w, i)
      BY <1>8, <3>1 DEF IsVerdicts
    <3>7. QED
      BY <3>5, <3>6 DEF j
  <2>2. QED
    BY <2>0, <2>1
<1>4. T = Nat
  <2>1. T \in SUBSET Nat
    OBVIOUS
  <2> HIDE DEF T
  <2>2. QED
    BY <1>2, <1>3, <2>1, SetInduction
<1>5. L \in T
  BY <1>1, <1>4
<1>6. QED
  BY <1>1, <1>5 DEF v, w

---------------------------------------------------------------------------
(* Tunnels.                                                                *)

(* An IPv6 packet.                                                         *)
Packet(p) == WellFormed(p) /\ Len(p) >= 2 /\ p[1].proto = "ip6" /\ p[1].whole

(* What the filter says of a packet met at depth d.                        *)
MetAt(c, p, d) == Verdicts(c, p)[1][d][TRUE]

(* Of the destination of a packet only the outermost is asked; the rest is *)
(* what the packet carries.                                                *)
LEMMA OutermostDestination ==
  ASSUME NEW c \in FilterConfig, NEW p, Packet(p), NEW d \in Nat
  PROVE  /\ \A a \in BOOLEAN : Verdicts(c, p)[1][d][a] <=> (a \/ p[1].local) /\ MetAt(c, p, d)
         /\ MetAt(c, p, d) <=> \/ p[1].walk = "fragment"
                               \/ p[1].walk = "done" /\ Transport(c, p, Verdicts(c, p), 2, d)
<1> DEFINE v == Verdicts(c, p)
<1>1. WellFormed(p) /\ 1 \in 1 .. Len(p) /\ 0 \in Nat /\ TRUE \in BOOLEAN
  BY DEF Packet, WellFormed, IsSeq
<1>2. \A a \in BOOLEAN : v[1][d][a] = Passes(c, p, v, 1, d, a)
  BY <1>1, VerdictsAre
<1>3. p[1].proto = "ip6" /\ p[1].whole
  BY DEF Packet
<1> HIDE DEF v
<1>4. \A b \in BOOLEAN : Passes(c, p, v, 1, d, b) <=>
        /\ b \/ p[1].local
        /\ p[1].walk = "fragment" \/ (p[1].walk = "done" /\ Transport(c, p, v, 2, d))
  BY <1>3 DEF Passes
<1>5. QED
  BY <1>1, <1>2, <1>4 DEF MetAt, v

(* A leaf passes at any depth or at none, and a damaged header nowhere.    *)
LEMMA LeafVerdict ==
  ASSUME NEW c \in FilterConfig, ~c.allow_esp, NEW p, WellFormed(p), NEW d \in Nat, NEW e \in Nat
  PROVE  LET n == Len(p) v == Verdicts(c, p)
         IN (v[n][d][TRUE] <=> v[n][e][TRUE]) /\ (~p[n].whole => ~v[n][d][TRUE])
<1> DEFINE n == Len(p)
           v == Verdicts(c, p)
<1>1. n \in Nat /\ n \in 1 .. Len(p) /\ Leaf(p[n])
  BY DEF WellFormed, IsSeq
<1>2. v[n][d][TRUE] = Passes(c, p, v, n, d, TRUE) /\ v[n][e][TRUE] = Passes(c, p, v, n, e, TRUE)
  BY <1>1, VerdictsAre
<1> HIDE DEF v
<1>3. Passes(c, p, v, n, d, TRUE) <=> Passes(c, p, v, n, e, TRUE)
  <2>1. CASE ~p[n].whole
    BY <2>1 DEF Passes
  <2>2. CASE p[n].whole /\ p[n].proto = "esp" /\ p[n].sealed
    BY <2>2 DEF Passes
  <2>3. CASE p[n].proto = "icmp6" \/ p[n].proto = "other"
    BY <2>3 DEF Passes
  <2>4. CASE p[n].proto = "tcp" \/ p[n].proto = "udp"
    <3>1. ~(n < Len(p))
      BY <1>1
    <3>2. QED
      BY <2>4, <3>1 DEF Passes
  <2>5. QED
    BY <1>1, <2>1, <2>2, <2>3, <2>4 DEF Leaf
<1>4. ~p[n].whole => ~Passes(c, p, v, n, d, TRUE)
  BY DEF Passes
<1>5. QED
  BY <1>2, <1>3, <1>4 DEF v

(* Behind the last header nothing is nested, so its depth does not matter. *)
LEMMA LeafTransport ==
  ASSUME NEW c \in FilterConfig, ~c.allow_esp, NEW p, WellFormed(p), NEW d \in 0 .. 3
  PROVE  Transport(c, p, Verdicts(c, p), Len(p), d) <=> Transport(c, p, Verdicts(c, p), Len(p), 0)
<1> DEFINE n == Len(p)
           v == Verdicts(c, p)
<1>1. Leaf(p[n]) /\ d \in Nat /\ d + 1 \in Nat /\ 0 \in Nat /\ 1 \in Nat /\ 0 + 1 = 1
  BY DEF WellFormed
<1>2. /\ v[n][d][TRUE] <=> v[n][0][TRUE]
      /\ v[n][d + 1][TRUE] <=> v[n][1][TRUE]
      /\ ~p[n].whole => ~v[n][d + 1][TRUE] /\ ~v[n][1][TRUE]
  BY <1>1, LeafVerdict
<1> HIDE DEF v, n
<1>3. p[n].proto = "ip6" => ~p[n].whole
  BY <1>1 DEF Leaf
<1>4. QED
  BY <1>1, <1>2, <1>3 DEF Transport, n, v

(* What is at the heart is a packet. *)
LEMMA UntunneledIsPacket ==
  ASSUME NEW p, Untunneled(p)
  PROVE  Packet(p)
<1>1. CASE p = <<p[1], p[2]>> /\ Leaf(p[2])
  <2>0. ASSUME NEW x, NEW y, NEW z
        PROVE  /\ <<x, y>> \in Seq({x, y}) /\ Len(<<x, y>>) = 2
               /\ <<x, y, z>> \in Seq({x, y, z}) /\ Len(<<x, y, z>>) = 3
    OBVIOUS
  <2>1. p \in Seq({p[1], p[2]}) /\ Len(p) = 2
    <3> DEFINE x == p[1]
               y == p[2]
               z == p[3]
    <3>1. p = <<x, y>>
      BY <1>1
    <3> HIDE DEF x, y, z
    <3>2. p \in Seq({x, y}) /\ Len(p) = 2
      BY <2>0, <3>1
    <3>3. QED
      BY <3>2 DEF x, y, z
  <2>2. QED
    BY <1>1, <2>1 DEF Untunneled, Packet, WellFormed, IsSeq
<1>2. CASE p = <<p[1], p[2], p[3]>> /\ Leaf(p[3])
  <2>0. ASSUME NEW x, NEW y, NEW z
        PROVE  /\ <<x, y>> \in Seq({x, y}) /\ Len(<<x, y>>) = 2
               /\ <<x, y, z>> \in Seq({x, y, z}) /\ Len(<<x, y, z>>) = 3
    OBVIOUS
  <2>1. p \in Seq({p[1], p[2], p[3]}) /\ Len(p) = 3
    <3> DEFINE x == p[1]
               y == p[2]
               z == p[3]
    <3>1. p = <<x, y, z>>
      BY <1>2
    <3> HIDE DEF x, y, z
    <3>2. p \in Seq({x, y, z}) /\ Len(p) = 3
      BY <2>0, <3>1
    <3>3. QED
      BY <3>2 DEF x, y, z
  <2>2. QED
    BY <1>2, <2>1 DEF Untunneled, Packet, WellFormed, IsSeq
<1>3. QED
  BY <1>1, <1>2 DEF Untunneled

(* A packet that is in no tunnel passes wherever it is met.                *)
LEMMA UntunneledVerdict ==
  ASSUME NEW c \in FilterConfig, ~c.allow_esp, NEW p, Untunneled(p), NEW d \in 0 .. 3
  PROVE  MetAt(c, p, d) <=> MetAt(c, p, 0)
<1> DEFINE v == Verdicts(c, p)
<1>1. Packet(p) /\ WellFormed(p)
  BY UntunneledIsPacket DEF Packet
<1>2. SUFFICES Transport(c, p, v, 2, d) <=> Transport(c, p, v, 2, 0)
  <2>1. d \in Nat /\ 0 \in Nat /\ TRUE \in BOOLEAN
    OBVIOUS
  <2>2. \A e \in Nat : MetAt(c, p, e) <=> (p[1].walk = "fragment" \/ (p[1].walk = "done" /\ Transport(c, p, v, 2, e)))
    <3> TAKE e \in Nat
    <3>1. QED
      BY <1>1, OutermostDestination
  <2>3. QED
    BY <2>1, <2>2
<1>3. CASE p = <<p[1], p[2]>> /\ Leaf(p[2])
  <2>1. Len(p) = 2
    BY <1>3
  <2>2. QED
    BY <1>1, <2>1, LeafTransport
<1>4. CASE p = <<p[1], p[2], p[3]>> /\ p[2].proto = "ip4" /\ p[2].whole /\ Leaf(p[3])
  <2>1. Len(p) = 3
    BY <1>4
  <2>2. \A e \in 0 .. 4 : v[3][e][TRUE] <=> v[3][1][TRUE]
    <3>1. \A e \in 0 .. 4 : e \in Nat
      OBVIOUS
    <3>2. QED
      BY <1>1, <2>1, <3>1, LeafVerdict
  <2>3. \A e \in 0 .. 4 : v[2][e][TRUE] = Passes(c, p, v, 2, e, TRUE)
    <3>1. \A e \in 0 .. 4 : e \in Nat
      OBVIOUS
    <3>2. 2 \in 1 .. Len(p) /\ TRUE \in BOOLEAN
      BY <2>1
    <3>3. QED
      BY <1>1, <3>1, <3>2, VerdictsAre
  <2> HIDE DEF v
  <2>4. \A e \in 0 .. 4 : Passes(c, p, v, 2, e, TRUE) <=>
           p[2].later \/ p[3].proto \notin {"tcp", "udp", "gre", "esp"} \/ v[3][e][TRUE]
    BY <1>4 DEF Passes
  <2>5. v[2][d + 1][TRUE] <=> v[2][1][TRUE]
    <3>1. \A e \in 0 .. 4 : v[2][e][TRUE] <=> (p[2].later \/ p[3].proto \notin {"tcp", "udp", "gre", "esp"} \/ v[3][1][TRUE])
      BY <2>2, <2>3, <2>4
    <3>2. d + 1 \in 0 .. 4 /\ 1 \in 0 .. 4
      OBVIOUS
    <3>3. QED
      BY <3>1, <3>2
  <2>6. 0 + 1 = 1
    OBVIOUS
  <2>7. QED
    BY <1>4, <2>5, <2>6 DEF Transport
<1>5. QED
  BY <1>3, <1>4 DEF Untunneled

(* What a header in front of a packet says of it.                          *)
LEMMA Prefixed ==
  ASSUME NEW h, NEW p, IsSeq(p), Len(p) > 0
  PROVE  LET q == <<h>> \o p
         IN /\ IsSeq(q) /\ Len(q) = Len(p) + 1 /\ q[1] = h
            /\ IsBehind(p, q, 1)
            /\ WellFormed(p) => WellFormed(q)
<1> DEFINE q == <<h>> \o p
<1>1. PICK S : p \in Seq(S)
  BY DEF IsSeq
<1> DEFINE R == S \cup {h}
<1>2. p \in Seq(R) /\ <<h>> \in Seq(R) /\ Len(<<h>>) = 1 /\ Len(p) \in Nat /\ <<h>>[1] = h
  BY <1>1
<1>3. /\ q \in Seq(R) /\ Len(q) = 1 + Len(p)
      /\ \A i \in 1 .. 1 + Len(p) : q[i] = IF i <= 1 THEN <<h>>[i] ELSE p[i - 1]
  <2> HIDE DEF R
  <2>1. /\ q \in Seq(R) /\ Len(q) = Len(<<h>>) + Len(p)
        /\ \A i \in 1 .. Len(<<h>>) + Len(p) : q[i] = IF i <= Len(<<h>>) THEN <<h>>[i] ELSE p[i - Len(<<h>>)]
    BY <1>2, ConcatProperties
  <2>2. QED
    BY <1>2, <2>1
<1> HIDE DEF q, R
<1>4. \A i \in 1 .. Len(p) : q[1 + i] = p[i]
  BY <1>2, <1>3
<1>5. q[1] = h
  BY <1>2, <1>3
<1>6. Len(q) = Len(p) + 1
  BY <1>2, <1>3
<1>7. q[Len(q)] = p[Len(p)]
  <2>1. Len(q) = 1 + Len(p) /\ Len(p) \in 1 .. Len(p)
    BY <1>2, <1>3
  <2>2. QED
    BY <1>4, <2>1
<1>8. QED
  BY <1>2, <1>3, <1>4, <1>5, <1>6, <1>7 DEF IsSeq, IsBehind, WellFormed, q

(* q is a header in front of p, and the filter looks at p behind it.       *)
InFront(h, p, q) ==
  /\ WellFormed(q) /\ q[1] = h /\ q[2] = p[1] /\ Len(q) = Len(p) + 1
  /\ \A c : Verdicts(c, q)[2] = Verdicts(c, p)[1]
  /\ \A c : \A d \in Nat, a \in BOOLEAN : Verdicts(c, q)[1][d][a] = Passes(c, q, Verdicts(c, q), 1, d, a)

(* A header put in front changes no verdict on those behind it. *)
LEMMA PrefixedVerdict ==
  ASSUME NEW h, NEW p, WellFormed(p)
  PROVE  InFront(h, p, <<h>> \o p)
<1> DEFINE q == <<h>> \o p
<1>1. IsSeq(p) /\ Len(p) > 0 /\ Len(p) \in Nat
  BY DEF WellFormed, IsSeq
<1>2. WellFormed(q) /\ IsBehind(p, q, 1) /\ q[1] = h /\ Len(q) = Len(p) + 1
  BY <1>1, Prefixed
<1> HIDE DEF q
<1>3. 1 \in 1 .. Len(p) /\ 1 + 1 = 2 /\ 1 \in 1 .. Len(q) /\ 1 \in Nat
  BY <1>1, <1>2
<1>4. q[2] = p[1]
  BY <1>2, <1>3 DEF IsBehind
<1>5. ASSUME NEW c
      PROVE  /\ Verdicts(c, q)[2] = Verdicts(c, p)[1]
             /\ \A d \in Nat, a \in BOOLEAN : Verdicts(c, q)[1][d][a] = Passes(c, q, Verdicts(c, q), 1, d, a)
  <2>1. Alike(c, c)
    BY AlikeItself
  <2>2. \A i \in 1 .. Len(p) : Verdicts(c, q)[1 + i] = Verdicts(c, p)[i]
    BY <1>2, <1>3, <2>1, VerdictsBehind
  <2>3. Verdicts(c, q)[2] = Verdicts(c, p)[1]
    BY <1>3, <2>2
  <2>4. \A d \in Nat, a \in BOOLEAN : Verdicts(c, q)[1][d][a] = Passes(c, q, Verdicts(c, q), 1, d, a)
    BY <1>2, <1>3, VerdictsAre
  <2>5. QED
    BY <2>3, <2>4
<1>6. QED
  BY <1>2, <1>4, <1>5 DEF InFront, q

(* A sequence made of two.                                                 *)
LEMMA JoinedOf ==
  ASSUME NEW S, NEW s \in Seq(S), NEW t \in Seq(S), NEW u \in Seq(S), Len(u) = Len(s) + Len(t),
         \A i \in 1 .. Len(u) : u[i] = IF i <= Len(s) THEN s[i] ELSE t[i - Len(s)]
  PROVE  u = s \o t
<1>1. /\ s \o t \in Seq(S) /\ Len(s \o t) = Len(s) + Len(t)
      /\ \A i \in 1 .. Len(s) + Len(t) : (s \o t)[i] = IF i <= Len(s) THEN s[i] ELSE t[i - Len(s)]
  BY ConcatProperties
<1> DEFINE v == s \o t
<1> HIDE DEF v
<1>2. v \in Seq(S) /\ Len(v) = Len(u) /\ \A i \in 1 .. Len(u) : u[i] = v[i]
  BY <1>1 DEF v
<1>3. u = v
  BY <1>2, SeqEqual
<1>4. QED
  BY <1>3 DEF v

(* Sequences are joined in either order. *)
LEMMA Regrouped ==
  ASSUME NEW S, NEW s \in Seq(S), NEW t \in Seq(S), NEW u \in Seq(S)
  PROVE  (s \o t) \o u = s \o (t \o u)
  BY ConcatAssociative

(* One header after the other. *)
BehindTwo(a, b, p) == <<a, b>> \o p = <<a>> \o (<<b>> \o p)

BehindThree(a, b, c, p) == <<a, b, c>> \o p = <<a>> \o (<<b>> \o (<<c>> \o p))

(* Headers put in front together are put in front one after the other. *)
LEMMA ShiftedPrefix ==
  ASSUME NEW p, IsSeq(p), NEW a, NEW b, NEW c
  PROVE  BehindTwo(a, b, p) /\ BehindThree(a, b, c, p)
<1>1. PICK S : p \in Seq(S)
  BY DEF IsSeq
<1> DEFINE R == S \cup {a, b, c}
<1>2. p \in Seq(R) /\ <<a>> \in Seq(R) /\ <<b>> \in Seq(R) /\ <<c>> \in Seq(R) /\ <<b, c>> \in Seq(R)
  BY <1>1
<1>3. ASSUME NEW x \in R, NEW y \in R
      PROVE  <<x, y>> = <<x>> \o <<y>>
  <2> DEFINE s == <<x>>
             t == <<y>>
             u == <<x, y>>
  <2> HIDE DEF R
  <2>1. s \in Seq(R) /\ t \in Seq(R) /\ u \in Seq(R) /\ Len(u) = 2 /\ Len(s) = 1 /\ Len(t) = 1
    OBVIOUS
  <2>2. u[1] = s[1] /\ u[2] = t[1]
    OBVIOUS
  <2> HIDE DEF s, t, u
  <2>3. \A i \in 1 .. Len(u) : u[i] = IF i <= Len(s) THEN s[i] ELSE t[i - Len(s)]
    BY <2>1, <2>2
  <2>6. Len(u) = Len(s) + Len(t)
    BY <2>1
  <2>4. u = s \o t
    BY Zenon, <2>1, <2>3, <2>6, JoinedOf
  <2>5. QED
    BY <2>4 DEF s, t, u
<1>7. <<a, b, c>> = <<a>> \o <<b, c>>
  <2> DEFINE s == <<a>>
             t == <<b, c>>
             u == <<a, b, c>>
  <2>1. s \in Seq(R) /\ t \in Seq(R) /\ u \in Seq(R) /\ Len(u) = 3 /\ Len(s) = 1 /\ Len(t) = 2
    OBVIOUS
  <2>2. u[1] = s[1] /\ u[2] = t[1] /\ u[3] = t[2]
    OBVIOUS
  <2> HIDE DEF s, t, u, R
  <2>3. \A i \in 1 .. Len(u) : u[i] = IF i <= Len(s) THEN s[i] ELSE t[i - Len(s)]
    BY <2>1, <2>2
  <2>6. Len(u) = Len(s) + Len(t)
    BY <2>1
  <2>4. u = s \o t
    BY Zenon, <2>1, <2>3, <2>6, JoinedOf
  <2>5. QED
    BY <2>4 DEF s, t, u
<1>8. <<a, b>> = <<a>> \o <<b>> /\ <<b, c>> = <<b>> \o <<c>>
  BY <1>3
<1> HIDE DEF R
<1> DEFINE x == <<a>>
           y == <<b>>
           z == <<c>>
           yz == <<b, c>>
<1>10. x \in Seq(R) /\ y \in Seq(R) /\ z \in Seq(R) /\ yz \in Seq(R)
  BY <1>2
<1>11. <<a, b>> = x \o y /\ yz = y \o z /\ <<a, b, c>> = x \o yz
  BY <1>7, <1>8
<1> HIDE DEF x, y, z, yz
<1>13. \A s, t \in Seq(R) : (s \o t) \o p = s \o (t \o p)
  BY <1>2, Regrouped
<1>4. (x \o y) \o p = x \o (y \o p)
  BY <1>10, <1>13
<1>5. (y \o z) \o p = y \o (z \o p)
  BY <1>10, <1>13
<1>6. (x \o yz) \o p = x \o (yz \o p)
  BY <1>10, <1>13
<1>12. <<a, b>> \o p = x \o (y \o p) /\ <<a, b, c>> \o p = x \o (y \o (z \o p))
  BY Zenon, <1>4, <1>5, <1>6, <1>11
<1>9. QED
  BY <1>12 DEF x, y, z, BehindTwo, BehindThree

(* A policy under which the tunnels of Tunneled are seen through.          *)
SeesTunnels(c) == c \in FilterConfig /\ ~c.allow_esp /\ {49152, VXLAN} \cap c.blocked_ports = {}

(* The tunnel around p, which makes q of it, costs one level and nothing   *)
(* else.                                                                   *)
CostsOneLevel(q, p) ==
  Packet(q) /\ \A c, d : SeesTunnels(c) /\ d \in 0 .. 3 => (MetAt(c, q, d) <=> d < 3 /\ MetAt(c, p, d + 1))

(* Something behind an IPv6 header of its own.                             *)
LEMMA OuterHeader ==
  ASSUME NEW p, WellFormed(p), NEW q, q = <<Ip6(TRUE, "done")>> \o p
  PROVE  Packet(q) /\ \A c \in FilterConfig, d \in Nat : MetAt(c, q, d) <=> Transport(c, p, Verdicts(c, p), 1, d)
<1> DEFINE h == Ip6(TRUE, "done")
<1>1. h.proto = "ip6" /\ h.whole /\ h.walk = "done"
  BY DEF Ip6
<1>0. Len(p) \in Nat /\ Len(p) > 0
  BY DEF WellFormed, IsSeq
<1> HIDE DEF h
<1>2. /\ WellFormed(q) /\ q[1] = h /\ q[2] = p[1] /\ Len(q) = Len(p) + 1
      /\ \A c : Verdicts(c, q)[2] = Verdicts(c, p)[1]
  <2>1. q = <<h>> \o p
    BY DEF h
  <2>2. InFront(h, p, q)
    BY <2>1, PrefixedVerdict
  <2>3. QED
    BY <2>2 DEF InFront
<1>3. Packet(q)
  <2>1. Len(q) >= 2
    BY <1>0, <1>2
  <2>2. q[1].proto = "ip6" /\ q[1].whole
    BY <1>1, <1>2
  <2>3. QED
    BY <1>2, <2>1, <2>2 DEF Packet
<1>4. ASSUME NEW c \in FilterConfig, NEW d \in Nat
      PROVE  MetAt(c, q, d) <=> Transport(c, p, Verdicts(c, p), 1, d)
  <2>1. MetAt(c, q, d) <=> Transport(c, q, Verdicts(c, q), 2, d)
    BY <1>1, <1>2, <1>3, OutermostDestination
  <2>2. QED
    BY <1>2, <2>1 DEF Transport
<1>5. QED
  BY <1>3, <1>4

(* IPv6 in IPv6 (IpNextHeaders::IPV6 in check_transport). *)
LEMMA Ip6InIp6 ==
  ASSUME NEW p, Packet(p)
  PROVE  CostsOneLevel(<<Ip6(TRUE, "done")>> \o p, p)
<1> DEFINE q == <<Ip6(TRUE, "done")>> \o p
<1>1. WellFormed(p) /\ p[1].proto = "ip6"
  BY DEF Packet
<1>2. Packet(q) /\ \A c \in FilterConfig, d \in Nat : MetAt(c, q, d) <=> Transport(c, p, Verdicts(c, p), 1, d)
  BY <1>1, OuterHeader
<1> HIDE DEF q
<1>3. ASSUME NEW c, NEW d, SeesTunnels(c), d \in 0 .. 3
      PROVE  MetAt(c, q, d) <=> d < 3 /\ MetAt(c, p, d + 1)
  <2>1. d \in Nat /\ c \in FilterConfig
    BY <1>3 DEF SeesTunnels
  <2>2. MetAt(c, q, d) <=> Transport(c, p, Verdicts(c, p), 1, d)
    BY <1>2, <2>1
  <2>3. QED
    BY <1>1, <2>1, <2>2 DEF Transport, TunnelFits, MAX_DEPTH, MetAt
<1>4. QED
  BY <1>2, <1>3 DEF CostsOneLevel, q

(* IPv6 in GRE. *)
LEMMA GreOfIp6 ==
  ASSUME NEW p, Packet(p)
  PROVE  CostsOneLevel(<<Ip6(TRUE, "done"), Gre("ipv6")>> \o p, p)
<1> DEFINE h == Gre("ipv6")
           r == <<h>> \o p
           q == <<Ip6(TRUE, "done")>> \o r
<1>1. WellFormed(p) /\ IsSeq(p)
  BY DEF Packet, WellFormed
<1>2. <<Ip6(TRUE, "done"), Gre("ipv6")>> \o p = q
  <2> DEFINE g == Ip6(TRUE, "done")
  <2> HIDE DEF g, h
  <2>1. <<g, h>> \o p = <<g>> \o (<<h>> \o p)
    BY <1>1, ShiftedPrefix DEF BehindTwo
  <2>2. QED
    BY <2>1 DEF g, h
<1>3. h.proto = "gre" /\ h.whole /\ h.type = "ipv6"
  BY DEF Gre
<1> HIDE DEF h
<1>4. /\ WellFormed(r) /\ r[1] = h
      /\ \A c : Verdicts(c, r)[2] = Verdicts(c, p)[1]
      /\ \A c : \A d \in Nat, a \in BOOLEAN : Verdicts(c, r)[1][d][a] = Passes(c, r, Verdicts(c, r), 1, d, a)
  <2>1. InFront(h, p, r)
    BY <1>1, PrefixedVerdict
  <2>2. QED
    BY <2>1 DEF InFront
<1> HIDE DEF r
<1>5. Packet(q) /\ \A c \in FilterConfig, d \in Nat : MetAt(c, q, d) <=> Transport(c, r, Verdicts(c, r), 1, d)
  BY <1>4, OuterHeader
<1> HIDE DEF q
<1>6. ASSUME NEW c, NEW d, SeesTunnels(c), d \in 0 .. 3
      PROVE  MetAt(c, q, d) <=> d < 3 /\ MetAt(c, p, d + 1)
  <2> DEFINE v == Verdicts(c, r)
  <2>1. d \in Nat /\ TRUE \in BOOLEAN /\ c \in FilterConfig /\ ~c.allow_esp /\ 1 + 1 = 2
    BY <1>6 DEF SeesTunnels
  <2>2. MetAt(c, q, d) <=> Passes(c, r, v, 1, d, TRUE)
    BY <1>3, <1>4, <1>5, <2>1 DEF Transport
  <2>3. v[2] = Verdicts(c, p)[1]
    BY <1>4
  <2> HIDE DEF v
  <2>4. Passes(c, r, v, 1, d, TRUE) <=> TunnelFits(d) /\ v[2][d + 1][TRUE]
    BY <1>3, <1>4, <2>1 DEF Passes, Ethertype
  <2>5. QED
    BY <1>6, <2>2, <2>3, <2>4 DEF TunnelFits, MAX_DEPTH, MetAt
<1>7. QED
  BY <1>2, <1>5, <1>6 DEF CostsOneLevel

(* A whole Ethernet frame is its packet.                                   *)
LEMMA EthernetOfIp6 ==
  ASSUME NEW p, WellFormed(p), NEW q, q = <<Eth("ipv6")>> \o p
  PROVE  WellFormed(q) /\ \A c \in FilterConfig, d \in Nat, a \in BOOLEAN : Verdicts(c, q)[1][d][a] <=> Verdicts(c, p)[1][d][a]
<1> DEFINE h == Eth("ipv6")
<1>1. h.proto = "eth" /\ h.whole /\ h.type = "ipv6"
  BY DEF Eth
<1>0. q = <<h>> \o p
  OBVIOUS
<1> HIDE DEF h
<1>2. /\ WellFormed(q) /\ q[1] = h
      /\ \A c : Verdicts(c, q)[2] = Verdicts(c, p)[1]
      /\ \A c : \A d \in Nat, a \in BOOLEAN : Verdicts(c, q)[1][d][a] = Passes(c, q, Verdicts(c, q), 1, d, a)
  <2>1. InFront(h, p, q)
    BY <1>0, PrefixedVerdict
  <2>2. QED
    BY <2>1 DEF InFront
<1>3. ASSUME NEW c, NEW d \in Nat, NEW a \in BOOLEAN
      PROVE  Verdicts(c, q)[1][d][a] <=> Verdicts(c, p)[1][d][a]
  <2> DEFINE v == Verdicts(c, q)
  <2>1. v[1][d][a] = Passes(c, q, v, 1, d, a) /\ v[2] = Verdicts(c, p)[1] /\ 1 + 1 = 2
    BY <1>2
  <2> HIDE DEF v
  <2>2. Passes(c, q, v, 1, d, a) <=> v[2][d][a]
    BY <1>1, <1>2, <2>1 DEF Passes, Ethertype
  <2>3. QED
    BY <2>1, <2>2 DEF v
<1>4. QED
  BY <1>2, <1>3

(* An Ethernet frame in GRE. *)
LEMMA BridgedIp6 ==
  ASSUME NEW p, Packet(p)
  PROVE  CostsOneLevel(<<Ip6(TRUE, "done"), Gre("teb"), Eth("ipv6")>> \o p, p)
<1> DEFINE g == Ip6(TRUE, "done")
           h == Gre("teb")
           f == Eth("ipv6")
           s == <<f>> \o p
           r == <<h>> \o s
           q == <<g>> \o r
<1>1. WellFormed(p) /\ IsSeq(p)
  BY DEF Packet, WellFormed
<1>2. <<Ip6(TRUE, "done"), Gre("teb"), Eth("ipv6")>> \o p = q
  <2> HIDE DEF g, h, f
  <2>1. <<g, h, f>> \o p = q
    <3> HIDE DEF s, r, q
    <3>1. <<g, h, f>> \o p = <<g>> \o (<<h>> \o (<<f>> \o p))
      <4>1. BehindThree(g, h, f, p)
        BY <1>1, ShiftedPrefix
      <4>2. QED
        BY Zenon, <4>1 DEF BehindThree
    <3>2. QED
      BY Zenon, <3>1 DEF s, r, q
  <2> HIDE DEF s, r, q
  <2>2. QED
    BY Zenon, <2>1 DEF g, h, f
<1>3. h.proto = "gre" /\ h.whole /\ h.type = "teb"
  BY DEF Gre
<1>8. WellFormed(s) /\ \A c \in FilterConfig, d \in Nat, a \in BOOLEAN : Verdicts(c, s)[1][d][a] <=> Verdicts(c, p)[1][d][a]
  BY <1>1, EthernetOfIp6
<1> HIDE DEF h, s
<1>4. /\ WellFormed(r) /\ r[1] = h
      /\ \A c : Verdicts(c, r)[2] = Verdicts(c, s)[1]
      /\ \A c : \A d \in Nat, a \in BOOLEAN : Verdicts(c, r)[1][d][a] = Passes(c, r, Verdicts(c, r), 1, d, a)
  <2>1. InFront(h, s, r)
    BY <1>8, PrefixedVerdict
  <2>2. QED
    BY <2>1 DEF InFront
<1> HIDE DEF r
<1>5. Packet(q) /\ \A c \in FilterConfig, d \in Nat : MetAt(c, q, d) <=> Transport(c, r, Verdicts(c, r), 1, d)
  BY <1>4, OuterHeader
<1> HIDE DEF q
<1>6. ASSUME NEW c, NEW d, SeesTunnels(c), d \in 0 .. 3
      PROVE  MetAt(c, q, d) <=> d < 3 /\ MetAt(c, p, d + 1)
  <2> DEFINE v == Verdicts(c, r)
  <2>1. d \in Nat /\ d + 1 \in Nat /\ TRUE \in BOOLEAN /\ c \in FilterConfig /\ ~c.allow_esp /\ 1 + 1 = 2
    BY <1>6 DEF SeesTunnels
  <2>2. MetAt(c, q, d) <=> Passes(c, r, v, 1, d, TRUE)
    BY <1>3, <1>4, <1>5, <2>1 DEF Transport
  <2>3. v[2] = Verdicts(c, s)[1]
    BY <1>4
  <2> HIDE DEF v
  <2>4. Passes(c, r, v, 1, d, TRUE) <=> TunnelFits(d) /\ v[2][d + 1][TRUE]
    BY <1>3, <1>4, <2>1 DEF Passes, Ethertype
  <2>6. v[2][d + 1][TRUE] <=> Verdicts(c, p)[1][d + 1][TRUE]
    BY <1>8, <2>1, <2>3
  <2>5. QED
    BY <1>6, <2>2, <2>4, <2>6 DEF TunnelFits, MAX_DEPTH, MetAt
<1>7. QED
  BY <1>2, <1>5, <1>6 DEF CostsOneLevel

VxlanHeader(h) == h.proto = "udp" /\ h.whole /\ h.src = 49152 /\ h.dst = VXLAN

(* An Ethernet frame in VXLAN. *)
LEMMA VxlanOfIp6 ==
  ASSUME NEW p, Packet(p), NEW h, VxlanHeader(h)
  PROVE  CostsOneLevel(<<Ip6(TRUE, "done"), h, Eth("ipv6")>> \o p, p)
<1> DEFINE g == Ip6(TRUE, "done")
           f == Eth("ipv6")
           s == <<f>> \o p
           r == <<h>> \o s
           q == <<g>> \o r
<1>1. WellFormed(p) /\ IsSeq(p)
  BY DEF Packet, WellFormed
<1>2. <<Ip6(TRUE, "done"), h, Eth("ipv6")>> \o p = q
  <2> HIDE DEF g, f
  <2>1. <<g, h, f>> \o p = q
    <3> HIDE DEF s, r, q
    <3>1. <<g, h, f>> \o p = <<g>> \o (<<h>> \o (<<f>> \o p))
      <4>1. BehindThree(g, h, f, p)
        BY <1>1, ShiftedPrefix
      <4>2. QED
        BY Zenon, <4>1 DEF BehindThree
    <3>2. QED
      BY Zenon, <3>1 DEF s, r, q
  <2> HIDE DEF s, r, q
  <2>2. QED
    BY <2>1 DEF g, f
<1>3. h.proto = "udp" /\ h.whole /\ h.dst = VXLAN
  BY DEF VxlanHeader
<1>8. WellFormed(s) /\ \A c \in FilterConfig, d \in Nat, a \in BOOLEAN : Verdicts(c, s)[1][d][a] <=> Verdicts(c, p)[1][d][a]
  BY <1>1, EthernetOfIp6
<1>9. Len(s) \in Nat /\ Len(s) > 0
  BY <1>8 DEF WellFormed, IsSeq
<1> HIDE DEF s
<1>4. /\ WellFormed(r) /\ r[1] = h /\ Len(r) = Len(s) + 1
      /\ \A c : Verdicts(c, r)[2] = Verdicts(c, s)[1]
      /\ \A c : \A d \in Nat, a \in BOOLEAN : Verdicts(c, r)[1][d][a] = Passes(c, r, Verdicts(c, r), 1, d, a)
  <2>1. InFront(h, s, r)
    BY <1>8, PrefixedVerdict
  <2>2. QED
    BY <2>1 DEF InFront
<1> HIDE DEF r
<1>10. 1 < Len(r)
  BY <1>4, <1>9
<1>5. Packet(q) /\ \A c \in FilterConfig, d \in Nat : MetAt(c, q, d) <=> Transport(c, r, Verdicts(c, r), 1, d)
  BY <1>4, OuterHeader
<1> HIDE DEF q
<1>6. ASSUME NEW c, NEW d, SeesTunnels(c), d \in 0 .. 3
      PROVE  MetAt(c, q, d) <=> d < 3 /\ MetAt(c, p, d + 1)
  <2> DEFINE v == Verdicts(c, r)
  <2>1. d \in Nat /\ d + 1 \in Nat /\ TRUE \in BOOLEAN /\ c \in FilterConfig /\ ~c.allow_esp /\ 1 + 1 = 2
    BY <1>6 DEF SeesTunnels
  <2>8. r[1].proto = "udp" /\ r[1].whole /\ r[1].dst = VXLAN
    BY <1>3, <1>4
  <2>2. MetAt(c, q, d) <=> Passes(c, r, v, 1, d, TRUE)
    <3>1. MetAt(c, q, d) <=> Transport(c, r, v, 1, d)
      BY <1>5, <2>1
    <3>2. v[1][d][TRUE] = Passes(c, r, v, 1, d, TRUE)
      BY <1>4, <2>1
    <3> HIDE DEF v
    <3>3. Transport(c, r, v, 1, d) <=> v[1][d][TRUE]
      BY <2>8 DEF Transport
    <3>4. QED
      BY <3>1, <3>2, <3>3
  <2>3. v[2] = Verdicts(c, s)[1]
    BY <1>4
  <2> HIDE DEF v
  <2>7. PortsPass(c, h)
    BY <1>6 DEF VxlanHeader, PortsPass, SeesTunnels, DiscoveryPorts, VXLAN
  <2>9. PortsPass(c, r[1])
    BY <1>4, <2>7
  <2>4. Passes(c, r, v, 1, d, TRUE) <=> TunnelFits(d) /\ v[2][d + 1][TRUE]
    <3>1. Passes(c, r, v, 1, d, TRUE) <=>
            /\ PortsPass(c, r[1])
            /\ (r[1].proto = "udp" /\ r[1].dst = VXLAN /\ 1 < Len(r)) => TunnelFits(d) /\ v[1 + 1][d + 1][TRUE]
      BY <2>8 DEF Passes
    <3>2. QED
      BY <1>10, <2>1, <2>8, <2>9, <3>1
  <2>6. v[2][d + 1][TRUE] <=> Verdicts(c, p)[1][d + 1][TRUE]
    BY <1>8, <2>1, <2>3
  <2>5. QED
    BY <1>6, <2>2, <2>4, <2>6 DEF TunnelFits, MAX_DEPTH, MetAt
<1>7. CostsOneLevel(q, p)
  BY <1>5, <1>6 DEF CostsOneLevel
<1>11. QED
  BY <1>2, <1>7

(* ESP-NULL goes between an IPv6 header and what that carries.             *)
LEMMA EspOfIp6 ==
  ASSUME NEW p, Packet(p), p[1].walk = "done"
  PROVE  CostsOneLevel(<<Head(p), Esp(FALSE)>> \o Tail(p), p) /\ (<<Head(p), Esp(FALSE)>> \o Tail(p))[1] = p[1]
<1> DEFINE t == Tail(p)
           h == Esp(FALSE)
           g == p[1]
           r == <<h>> \o t
           q == <<g>> \o r
<1>1. WellFormed(p) /\ Len(p) >= 2 /\ g.proto = "ip6" /\ g.whole /\ Leaf(p[Len(p)])
  BY DEF Packet, WellFormed
<1>2. PICK S : p \in Seq(S)
  BY <1>1 DEF WellFormed, IsSeq
<1>3. t \in Seq(S) /\ Len(t) = Len(p) - 1 /\ Head(p) = p[1] /\ \A i \in 1 .. Len(p) - 1 : t[i] = p[i + 1]
  BY <1>1, <1>2
<1>4. IsSeq(t) /\ WellFormed(t) /\ IsBehind(t, p, 1)
  <2> HIDE DEF t
  <2>1. Len(p) \in Nat /\ Len(t) \in 1 .. Len(p) - 1 /\ Len(t) + 1 = Len(p)
    BY <1>1, <1>2, <1>3
  <2>2. t[Len(t)] = p[Len(p)]
    BY <1>3, <2>1
  <2>3. \A i \in 1 .. Len(t) : p[1 + i] = t[i]
    BY <1>3, <2>1
  <2>4. QED
    BY <1>1, <1>3, <2>1, <2>2, <2>3 DEF IsSeq, WellFormed, IsBehind
<1>5. <<Head(p), Esp(FALSE)>> \o Tail(p) = q
  <2> HIDE DEF g, h, t
  <2>1. <<g, h>> \o t = <<g>> \o (<<h>> \o t)
    BY <1>4, ShiftedPrefix DEF BehindTwo
  <2>2. QED
    BY <1>3, <2>1 DEF g, h, t
<1>6. h.proto = "esp" /\ h.whole /\ ~h.sealed
  BY DEF Esp
<1> HIDE DEF h, t, g
<1>7. /\ WellFormed(r) /\ r[1] = h /\ r[2] = t[1]
      /\ \A c : Verdicts(c, r)[2] = Verdicts(c, t)[1]
      /\ \A c : \A d \in Nat, a \in BOOLEAN : Verdicts(c, r)[1][d][a] = Passes(c, r, Verdicts(c, r), 1, d, a)
  <2>1. InFront(h, t, r)
    BY <1>4, PrefixedVerdict
  <2>2. QED
    BY <2>1 DEF InFront
<1>13. Len(r) \in Nat /\ Len(r) > 0
  BY <1>7 DEF WellFormed, IsSeq
<1> HIDE DEF r
<1>8. /\ WellFormed(q) /\ q[1] = g /\ q[2] = r[1] /\ Len(q) = Len(r) + 1
      /\ \A c : Verdicts(c, q)[2] = Verdicts(c, r)[1]
  <2>1. InFront(g, r, q)
    BY <1>7, PrefixedVerdict
  <2>2. QED
    BY <2>1 DEF InFront
<1> HIDE DEF q
<1>9. Packet(q)
  <2>1. Len(q) >= 2
    BY <1>8, <1>13
  <2>2. q[1].proto = "ip6" /\ q[1].whole
    BY <1>1, <1>8
  <2>3. QED
    BY <1>8, <2>1, <2>2 DEF Packet
<1>14. p[2] = t[1] /\ \A c : Verdicts(c, p)[2] = Verdicts(c, t)[1]
  <2>1. 1 \in 1 .. Len(t) /\ 1 \in Nat /\ 1 + 1 = 2
    BY <1>1, <1>2, <1>3
  <2>2. ASSUME NEW c
        PROVE  Verdicts(c, p)[2] = Verdicts(c, t)[1]
    <3>1. Alike(c, c)
      BY AlikeItself
    <3>2. \A i \in 1 .. Len(t) : Verdicts(c, p)[1 + i] = Verdicts(c, t)[i]
      BY <1>1, <1>4, <2>1, <3>1, VerdictsBehind
    <3>3. QED
      BY <2>1, <3>2
  <2>3. p[2] = t[1]
    BY <1>4, <2>1 DEF IsBehind
  <2>4. QED
    BY <2>2, <2>3
<1>10. ASSUME NEW c, NEW d, SeesTunnels(c), d \in 0 .. 3
      PROVE  MetAt(c, q, d) <=> d < 3 /\ MetAt(c, p, d + 1)
  <2> DEFINE v == Verdicts(c, r)
             w == Verdicts(c, q)
             u == Verdicts(c, p)
  <2>1. d \in Nat /\ d + 1 \in Nat /\ TRUE \in BOOLEAN /\ c \in FilterConfig /\ ~c.allow_esp /\ 1 + 1 = 2
    BY <1>10 DEF SeesTunnels
  <2>2. q[1].walk = "done"
    BY <1>8 DEF g
  <2>3. MetAt(c, q, d) <=> Transport(c, q, w, 2, d)
    BY <1>9, <2>1, <2>2, OutermostDestination
  <2>4. w[2] = v[1] /\ v[2] = u[2]
    BY <1>7, <1>8, <1>14
  <2>5. v[1][d][TRUE] = Passes(c, r, v, 1, d, TRUE)
    BY <1>7, <2>1
  <2>6. MetAt(c, p, d + 1) <=> Transport(c, p, u, 2, d + 1)
    BY <2>1, OutermostDestination
  <2> HIDE DEF v, w, u
  <2>7. Transport(c, q, w, 2, d) <=> Passes(c, r, v, 1, d, TRUE)
    BY <1>6, <1>7, <1>8, <2>1, <2>4, <2>5 DEF Transport
  <2>8. Transport(c, r, v, 2, d + 1) <=> Transport(c, p, u, 2, d + 1)
    BY <1>7, <1>14, <2>4 DEF Transport
  <2>9. Passes(c, r, v, 1, d, TRUE) <=> TunnelFits(d) /\ Transport(c, r, v, 2, d + 1)
    BY <1>6, <1>7, <2>1 DEF Passes
  <2>10. QED
    BY <1>10, <2>3, <2>6, <2>7, <2>8, <2>9 DEF TunnelFits, MAX_DEPTH
<1>11. QED
  BY <1>5, <1>8, <1>9, <1>10 DEF CostsOneLevel, g

(* While a packet is wrapped, the filter says of it at any depth what it   *)
(* says of the packet at the heart, as long as there is room for every     *)
(* tunnel.                                                                 *)
TunnelInv ==
  stage = "host" =>
    /\ Packet(pkt) /\ Packet(base) /\ levels \in Nat
    /\ \A c, d : SeesTunnels(c) /\ d \in 0 .. 3 => (MetAt(c, pkt, d) <=> d + levels <= 3 /\ MetAt(c, base, 0))

(* Putting a packet into one more tunnel keeps the invariant. *)
LEMMA WrapKeepsTunnels ==
  ASSUME NEW by \in {"ip6", "gre", "bridge", "vxlan", "esp"}, Wrap(by), TunnelInv
  PROVE  TunnelInv'
<1>1. /\ stage = "host" /\ (by = "esp" => EspNullIsSeen)
      /\ pkt' = Tunneled(by) /\ levels' = levels + 1 /\ base' = base
  BY DEF Wrap
<1>2. /\ Packet(pkt) /\ Packet(base) /\ levels \in Nat
      /\ \A c, d : SeesTunnels(c) /\ d \in 0 .. 3 => (MetAt(c, pkt, d) <=> d + levels <= 3 /\ MetAt(c, base, 0))
  BY <1>1 DEF TunnelInv
<1>3. CostsOneLevel(pkt', pkt)
  <2>1. CASE by = "ip6"
    <3>1. pkt' = <<Ip6(TRUE, "done")>> \o pkt
      BY <1>1, <2>1 DEF Tunneled
    <3>2. QED
      BY <1>2, <3>1, Ip6InIp6
  <2>2. CASE by = "gre"
    <3>1. pkt' = <<Ip6(TRUE, "done"), Gre("ipv6")>> \o pkt
      BY <1>1, <2>2 DEF Tunneled
    <3>2. QED
      BY <1>2, <3>1, GreOfIp6
  <2>3. CASE by = "bridge"
    <3>1. pkt' = <<Ip6(TRUE, "done"), Gre("teb"), Eth("ipv6")>> \o pkt
      BY <1>1, <2>3 DEF Tunneled
    <3>2. QED
      BY <1>2, <3>1, BridgedIp6
  <2>4. CASE by = "vxlan"
    <3> DEFINE h == Ports("udp", 49152, VXLAN)
    <3>1. VxlanHeader(h)
      BY DEF VxlanHeader, Ports
    <3>2. pkt' = <<Ip6(TRUE, "done"), h, Eth("ipv6")>> \o pkt
      BY <1>1, <2>4 DEF Tunneled
    <3> HIDE DEF h
    <3>3. QED
      BY <1>2, <3>1, <3>2, VxlanOfIp6
  <2>5. CASE by = "esp"
    <3>1. pkt[1].walk = "done"
      BY <1>1, <2>5 DEF EspNullIsSeen
    <3>2. pkt' = <<Head(pkt), Esp(FALSE)>> \o Tail(pkt)
      BY <1>1, <2>5 DEF Tunneled
    <3>3. QED
      BY <1>2, <3>1, <3>2, EspOfIp6
  <2>6. QED
    BY <2>1, <2>2, <2>3, <2>4, <2>5
<1>4. ASSUME NEW c, NEW d, SeesTunnels(c), d \in 0 .. 3
      PROVE  MetAt(c, pkt', d) <=> d + levels' <= 3 /\ MetAt(c, base, 0)
  <2>1. MetAt(c, pkt', d) <=> d < 3 /\ MetAt(c, pkt, d + 1)
    BY <1>3, <1>4 DEF CostsOneLevel
  <2>2. d < 3 => (MetAt(c, pkt, d + 1) <=> d + 1 + levels <= 3 /\ MetAt(c, base, 0))
    BY <1>2, <1>4
  <2>3. d + levels' = d + 1 + levels /\ (d + 1 + levels <= 3 => d < 3)
    BY <1>1, <1>2, <1>4
  <2>4. QED
    BY <2>1, <2>2, <2>3
<1>5. Packet(pkt')
  BY <1>3 DEF CostsOneLevel
<1>6. stage' = "host" => Packet(base') /\ levels' \in Nat
  BY <1>1, <1>2
<1>7. \A c, d : SeesTunnels(c) /\ d \in 0 .. 3 => (MetAt(c, pkt', d) <=> d + levels' <= 3 /\ MetAt(c, base', 0))
  BY <1>1, <1>4
<1>8. QED
  BY <1>5, <1>6, <1>7 DEF TunnelInv

(* However a host nests its packets, the filter sees the packet at the     *)
(* heart.                                                                  *)
LEMMA TunnelsInvariant == PathSpec => []TunnelInv
<1>1. PathInit => TunnelInv
  <2>1. SUFFICES ASSUME PathInit PROVE TunnelInv
    OBVIOUS
  <2>2. base \in Inner /\ pkt = base /\ levels = 0
    BY <2>1 DEF PathInit
  <2>3. Untunneled(base) /\ Packet(base)
    BY <2>2, InnerAssumption, UntunneledIsPacket
  <2>4. ASSUME NEW c, NEW d, SeesTunnels(c), d \in 0 .. 3
        PROVE  MetAt(c, base, d) <=> MetAt(c, base, 0)
    BY <2>3, <2>4, UntunneledVerdict DEF SeesTunnels
  <2>5. \A d \in 0 .. 3 : d + 0 <= 3
    OBVIOUS
  <2>6. QED
    BY <2>2, <2>3, <2>4, <2>5 DEF TunnelInv
<1>2. TunnelInv /\ [PathNext]_pathVars => TunnelInv'
  <2>1. SUFFICES ASSUME TunnelInv, [PathNext]_pathVars PROVE TunnelInv'
    OBVIOUS
  <2>2. CASE Host
    BY <2>1, <2>2, WrapKeepsTunnels DEF Host
  <2>3. CASE Sender
    BY <2>3 DEF Sender, TransmitBatch, TransmitPv1, TransmitRts, OnAir, TunnelInv
  <2>4. CASE Channel
    BY <2>4 DEF Channel, Damage, TunnelInv
  <2>5. CASE Hear
    BY <2>5 DEF Hear, TunnelInv
  <2>6. CASE Answer
    BY <2>6 DEF Answer, TunnelInv
  <2>7. CASE Others
    BY <2>7 DEF Others, ReadPv1, ReadNdp, TunnelInv
  <2>8. CASE UNCHANGED pathVars
    BY <2>1, <2>8 DEF pathVars, TunnelInv, MetAt
  <2>9. QED
    BY <2>1, <2>2, <2>3, <2>4, <2>5, <2>6, <2>7, <2>8 DEF PathNext
<1>3. QED
  BY <1>1, <1>2, PTL DEF PathSpec

(* The filter says the same of a whole frame under any policy that differs *)
(* at most in where destinations may be.                                   *)
LEMMA WholeFrame ==
  ASSUME NEW c \in FilterConfig, NEW p, Packet(p)
  PROVE  Check(c, <<Eth("ipv6")>> \o p) <=> (c.allow_global_dst \/ p[1].local) /\ MetAt(c, p, 0)
<1> DEFINE q == <<Eth("ipv6")>> \o p
<1>1. WellFormed(p) /\ 0 \in Nat /\ c.allow_global_dst \in BOOLEAN
  BY DEF Packet, FilterConfig
<1>2. WellFormed(q) /\ \A d \in Nat, a \in BOOLEAN : Verdicts(c, q)[1][d][a] <=> Verdicts(c, p)[1][d][a]
  BY <1>1, EthernetOfIp6
<1> HIDE DEF q
<1>3. Check(c, q) = Verdicts(c, q)[1][0][c.allow_global_dst]
  BY <1>2, VerdictsAre
<1>4. Verdicts(c, p)[1][0][c.allow_global_dst] <=> (c.allow_global_dst \/ p[1].local) /\ MetAt(c, p, 0)
  BY <1>1, OutermostDestination
<1>5. QED
  BY <1>1, <1>2, <1>3, <1>4 DEF q

(* A tunnel hides nothing from the filter and costs a packet nothing,      *)
(* whatever the policy, however tunnels of all kinds are nested.           *)
THEOREM TunnelsChangeNothingAlways == PathSpec => []TunnelsChangeNothing
<1>1. TunnelInv => TunnelsChangeNothing
  <2>1. SUFFICES ASSUME TunnelInv, stage = "host", NEW cfg \in Policies, ~cfg.allow_esp
        PROVE  Check(cfg, <<Eth("ipv6")>> \o pkt)
               <=> /\ levels <= MAX_DEPTH
                   /\ pkt[1].local \/ cfg.allow_global_dst
                   /\ Check([cfg EXCEPT !.allow_global_dst = TRUE], <<Eth("ipv6")>> \o base)
    BY DEF TunnelsChangeNothing
  <2> DEFINE k == [cfg EXCEPT !.allow_global_dst = TRUE]
  <2>2. SeesTunnels(cfg) /\ cfg \in FilterConfig
    BY <2>1, PolicyAssumption DEF SeesTunnels
  <2>3. k \in FilterConfig /\ k.allow_global_dst /\ Alike(cfg, k)
    BY <2>2 DEF FilterConfig, Alike
  <2> HIDE DEF k
  <2>4. Packet(pkt) /\ Packet(base) /\ levels \in Nat /\ WellFormed(base)
    BY <2>1 DEF TunnelInv, Packet
  <2>5. Check(cfg, <<Eth("ipv6")>> \o pkt) <=> (cfg.allow_global_dst \/ pkt[1].local) /\ MetAt(cfg, pkt, 0)
    BY <2>2, <2>4, WholeFrame
  <2>6. Check(k, <<Eth("ipv6")>> \o base) <=> MetAt(k, base, 0)
    BY <2>3, <2>4, WholeFrame
  <2>7. MetAt(cfg, base, 0) <=> MetAt(k, base, 0)
    <3>1. IsBehind(base, base, 0) /\ 0 \in Nat /\ 1 \in 1 .. Len(base) /\ 0 + 1 = 1
      BY <2>4 DEF WellFormed, IsSeq, IsBehind
    <3>2. \A i \in 1 .. Len(base) : Verdicts(cfg, base)[0 + i] = Verdicts(k, base)[i]
      BY <2>3, <2>4, <3>1, VerdictsBehind
    <3>3. Verdicts(cfg, base)[1] = Verdicts(k, base)[1]
      BY <3>1, <3>2
    <3>4. QED
      BY <3>3 DEF MetAt
  <2>8. MetAt(cfg, pkt, 0) <=> levels <= MAX_DEPTH /\ MetAt(cfg, base, 0)
    <3>1. 0 \in 0 .. 3 /\ (0 + levels <= 3 <=> levels <= MAX_DEPTH)
      BY <2>4 DEF MAX_DEPTH
    <3>2. QED
      BY <2>1, <2>2, <3>1 DEF TunnelInv
  <2>9. QED
    BY <2>5, <2>6, <2>7, <2>8 DEF k
<1>2. QED
  BY <1>1, TunnelsInvariant, PTL

---------------------------------------------------------------------------
(* Fields of a frame.                                                      *)

(* A sequence of n elements.                                               *)
Sized(f, n) == IsSeq(f) /\ Len(f) = n /\ n \in Nat

(* s stands in f after the first k elements.                               *)
Holds(f, k, s) == k + Len(s) <= Len(f) /\ \A i \in 1 .. Len(s) : f[k + i] = s[i]

(* A sequence begins with itself. *)
LEMMA HoldsItself ==
  ASSUME NEW f, IsSeq(f)
  PROVE  Holds(f, 0, f)
<1>1. Len(f) \in Nat /\ \A i \in 1 .. Len(f) : 0 + i = i
  BY DEF IsSeq
<1>2. QED
  BY <1>1 DEF Holds

(* The elements of two sequences joined. *)
LEMMA JoinedSeq ==
  ASSUME NEW f, NEW s, NEW n, NEW m, Sized(f, n), Sized(s, m)
  PROVE  /\ Sized(f \o s, n + m)
         /\ \A i \in 1 .. n + m : (f \o s)[i] = IF i <= n THEN f[i] ELSE s[i - n]
<1>1. PICK R, T : f \in Seq(R) /\ s \in Seq(T)
  BY DEF Sized, IsSeq
<1> DEFINE S == R \cup T
<1>2. f \in Seq(S) /\ s \in Seq(S) /\ Len(f) = n /\ Len(s) = m /\ n \in Nat /\ m \in Nat
  BY <1>1 DEF Sized
<1> HIDE DEF S
<1>3. /\ f \o s \in Seq(S) /\ Len(f \o s) = Len(f) + Len(s)
      /\ \A i \in 1 .. Len(f) + Len(s) : (f \o s)[i] = IF i <= Len(f) THEN f[i] ELSE s[i - Len(f)]
  BY <1>2, ConcatProperties
<1>4. QED
  BY <1>2, <1>3 DEF Sized, IsSeq

(* f begins with h and then s.                                             *)
LEMMA PieceFound ==
  ASSUME NEW h, NEW s, NEW f, NEW n, NEW m, IsSeq(f), Sized(h, n), Sized(s, m), Holds(f, 0, h \o s)
  PROVE  Holds(f, n, s) /\ Holds(f, 0, h)
<1> DEFINE g == h \o s
           l == Len(f)
<1>1. n \in Nat /\ m \in Nat /\ Len(h) = n /\ Len(s) = m /\ l \in Nat
  BY DEF Sized, IsSeq
<1>2. Len(g) = n + m /\ \A i \in 1 .. n + m : g[i] = IF i <= n THEN h[i] ELSE s[i - n]
  BY JoinedSeq DEF Sized
<1>3. Holds(f, 0, g)
  OBVIOUS
<1> HIDE DEF g, l
<1>4. n + m <= l /\ \A i \in 1 .. n + m : f[i] = g[i]
  <2>1. 0 + (n + m) = n + m /\ \A i \in 1 .. n + m : 0 + i = i
    BY <1>1
  <2>2. QED
    BY <1>2, <1>3, <2>1 DEF Holds, l
<1>6. \A i \in 1 .. n : i \in 1 .. n + m /\ i <= n /\ 0 + i = i
  BY <1>1
<1>7. Holds(f, n, s)
  <2>1. ASSUME NEW i \in 1 .. m
        PROVE  f[n + i] = s[i]
    <3> DEFINE j == n + i
    <3>1. j \in 1 .. n + m /\ ~(j <= n) /\ j - n = i
      BY <1>1
    <3> HIDE DEF j
    <3>2. f[j] = g[j] /\ g[j] = s[j - n]
      BY <1>2, <1>4, <3>1
    <3>3. QED
      BY <3>1, <3>2 DEF j
  <2>2. QED
    BY <1>1, <1>4, <2>1 DEF Holds, l
<1>8. Holds(f, 0, h)
  <2>1. \A i \in 1 .. n : f[0 + i] = h[i]
    BY <1>2, <1>4, <1>6
  <2>2. 0 + n <= l
    BY <1>1, <1>4
  <2>3. QED
    BY <1>1, <2>1, <2>2 DEF Holds, l
<1>9. QED
  BY <1>7, <1>8

(* A place in f where s stands.                                            *)
StandsIn(f, a, b, s) == IsSeq(f) /\ IsSeq(s) /\ \E k \in Nat : a = k + 1 /\ b = k + Len(s) /\ Holds(f, k, s)

(* A piece is cut out where it stands. *)
LEMMA FieldCut ==
  ASSUME NEW f, NEW a, NEW b, NEW s, StandsIn(f, a, b, s)
  PROVE  SubSeq(f, a, b) = s
<1>1. PICK R, T : f \in Seq(R) /\ s \in Seq(T)
  BY DEF StandsIn, IsSeq
<1> DEFINE S == R \cup T
           n == Len(s)
<1>2. f \in Seq(S) /\ s \in Seq(S) /\ n \in Nat /\ Len(f) \in Nat
  BY <1>1
<1>3. PICK k \in Nat : a = k + 1 /\ b = k + n /\ Holds(f, k, s)
  BY DEF StandsIn
<1> HIDE DEF S, n
<1>4. k + n <= Len(f) /\ \A i \in 1 .. n : f[k + i] = s[i]
  BY <1>3 DEF Holds, n
<1>5. CASE n = 0
  <2>1. s = <<>>
    BY <1>2, <1>5, EmptySeq DEF n
  <2>2. SubSeq(f, k + 1, k + n) = <<>>
    BY <1>2, <1>3, <1>5
  <2>3. QED
    BY <1>3, <2>1, <2>2
<1>6. CASE n > 0
  <2> DEFINE t == SubSeq(f, k + 1, k + n)
  <2>1. t \in Seq(S) /\ Len(t) = n /\ \A i \in 1 .. n : t[i] = f[k + 1 + i - 1]
    BY <1>2, <1>3, <1>4, <1>6
  <2> HIDE DEF t
  <2>2. \A i \in 1 .. n : t[i] = s[i]
    <3>1. \A i \in 1 .. n : k + 1 + i - 1 = k + i
      BY <1>2, <1>3
    <3>2. QED
      BY <1>4, <2>1, <3>1
  <2>3. t = s
    BY <1>2, <2>1, <2>2, SeqEqual DEF n
  <2>4. QED
    BY <1>3, <2>3 DEF t
<1>7. QED
  BY <1>2, <1>5, <1>6

(* The FCS is found behind what it is made of.                             *)
LEMMA FcsIsFound ==
  ASSUME NEW f, NEW n, Sized(f, n)
  PROVE  /\ FcsHolds(WithFcs(f))
         /\ SubSeq(WithFcs(f), 1, Len(WithFcs(f)) - 4) = f
<1> DEFINE c == Crc32(f)
           m == f \o c
<1>1. Sized(c, 4)
  <2> DEFINE S == {c[i] : i \in 1 .. 4}
  <2>1. c = [i \in 1 .. 4 |-> c[i]]
    BY DEF Crc32
  <2> HIDE DEF c
  <2>2. c \in Seq(S) /\ Len(c) = 4
    BY <2>1
  <2>3. QED
    BY <2>2 DEF Sized, IsSeq
<1> HIDE DEF c
<1>2. Sized(m, n + 4)
  BY <1>1, JoinedSeq
<1>3. Holds(m, n, c) /\ Holds(m, 0, f)
  <2>1. Holds(m, 0, f \o c)
    BY <1>2, HoldsItself DEF Sized
  <2> HIDE DEF m
  <2>2. QED
    BY <1>1, <1>2, <2>1, PieceFound DEF Sized
<1> HIDE DEF m
<1>4. /\ IsSeq(m) /\ IsSeq(f) /\ IsSeq(c) /\ n \in Nat
      /\ Len(f) = n /\ Len(c) = 4 /\ Len(m) = n + 4
  BY <1>1, <1>2 DEF Sized
<1> DEFINE a == Len(m) - 4
           b == Len(m) - 3
           e == Len(m)
<1>5. a = n /\ b = n + 1 /\ e = n + Len(c) /\ e >= 4 /\ 1 = 0 + 1 /\ n = 0 + Len(f)
  BY <1>4
<1> HIDE DEF a, b, e
<1>6. SubSeq(m, 1, a) = f
  <2>1. StandsIn(m, 1, a, f)
    BY <1>3, <1>4, <1>5 DEF StandsIn
  <2>2. QED
    BY <2>1, FieldCut
<1>7. SubSeq(m, b, e) = c
  <2>1. StandsIn(m, b, e, c)
    BY <1>3, <1>4, <1>5 DEF StandsIn
  <2>2. QED
    BY <2>1, FieldCut
<1>8. QED
  BY <1>5, <1>6, <1>7 DEF FcsHolds, WithFcs, a, b, c, e, m

(* What stands in the beginning of a sequence stands in the sequence. *)
LEMMA HoldsWithin ==
  ASSUME NEW f, NEW h, NEW s, NEW k \in Nat, IsSeq(f), IsSeq(h), IsSeq(s), Holds(f, 0, h), Holds(h, k, s)
  PROVE  Holds(f, k, s)
<1>1. Len(f) \in Nat /\ Len(h) \in Nat /\ Len(s) \in Nat
  BY DEF IsSeq
<1>2. Len(h) <= Len(f) /\ \A i \in 1 .. Len(h) : f[i] = h[i]
  <2>1. 0 + Len(h) = Len(h) /\ \A i \in 1 .. Len(h) : 0 + i = i
    BY <1>1
  <2>2. QED
    BY <2>1 DEF Holds
<1>3. k + Len(s) <= Len(h) /\ \A i \in 1 .. Len(s) : h[k + i] = s[i]
  BY DEF Holds
<1>4. ASSUME NEW i \in 1 .. Len(s)
      PROVE  f[k + i] = s[i]
  <2> DEFINE j == k + i
  <2>1. j \in 1 .. Len(h) /\ h[j] = s[i]
    BY <1>1, <1>3
  <2> HIDE DEF j
  <2>2. f[j] = h[j]
    BY <1>2, <2>1
  <2>3. QED
    BY <2>1, <2>2 DEF j
<1>5. QED
  BY <1>1, <1>2, <1>3, <1>4 DEF Holds

(* h and three pieces more.                                                *)
Three(f, h, n, p, k, q, l, r, m) ==
  /\ Sized(f, n + k + l + m) /\ Holds(f, 0, h)
  /\ Holds(f, n, p) /\ Holds(f, n + k, q) /\ Holds(f, n + k + l, r)

(* Three pieces behind a header stand one after the other. *)
LEMMA ThreePieces ==
  ASSUME NEW h, NEW n, NEW p, NEW k, NEW q, NEW l, NEW r, NEW m, Sized(h, n), Sized(p, k), Sized(q, l), Sized(r, m)
  PROVE  Three(h \o p \o q \o r, h, n, p, k, q, l, r, m)
<1> DEFINE x == h \o p
           y == x \o q
           f == y \o r
<1>1. Sized(x, n + k)
  BY JoinedSeq
<1> HIDE DEF x
<1>2. Sized(y, n + k + l)
  BY <1>1, JoinedSeq
<1> HIDE DEF y
<1>3. Sized(f, n + k + l + m) /\ IsSeq(f)
  <2>1. Sized(f, n + k + l + m)
    BY <1>2, JoinedSeq
  <2> HIDE DEF f
  <2>2. QED
    BY <2>1 DEF Sized
<1>4. Holds(f, 0, y \o r)
  BY <1>3, HoldsItself
<1> HIDE DEF f
<1>5. Holds(f, n + k + l, r) /\ Holds(f, 0, y)
  BY <1>2, <1>3, <1>4, PieceFound
<1>6. Holds(f, n + k, q) /\ Holds(f, 0, x)
  <2>1. Holds(f, 0, x \o q)
    BY <1>5 DEF y
  <2>2. QED
    BY <1>1, <1>3, <2>1, PieceFound
<1>7. Holds(f, n, p) /\ Holds(f, 0, h)
  <2>1. Holds(f, 0, h \o p)
    BY <1>6 DEF x
  <2>2. QED
    BY <1>3, <2>1, PieceFound
<1>8. QED
  BY <1>3, <1>5, <1>6, <1>7 DEF Three, f, y, x

(* Octets of a 16-bit field.                                               *)
LEMMA Le16ReadsBack ==
  ASSUME NEW v \in Nat, NEW f, NEW k \in Nat, Holds(f, k, Le16(v))
  PROVE  U16(f, k) = v /\ Sized(Le16(v), 2)
<1> DEFINE lo == v % 256
           hi == v \div 256
<1>1. lo \in Int /\ hi \in Int /\ lo + 256 * hi = v
  OBVIOUS
<1> HIDE DEF lo, hi
<1> DEFINE s == <<lo, hi>>
<1>2. s \in Seq(Int) /\ Len(s) = 2 /\ s[1] = lo /\ s[2] = hi
  BY <1>1
<1>3. s = Le16(v)
  BY DEF Le16, lo, hi
<1> HIDE DEF s
<1>4. f[k + 1] = lo /\ f[k + 2] = hi
  <2>1. \A i \in 1 .. 2 : f[k + i] = s[i]
    BY <1>2, <1>3 DEF Holds
  <2>2. 1 \in 1 .. 2 /\ 2 \in 1 .. 2
    OBVIOUS
  <2>3. QED
    BY <1>2, <2>1, <2>2
<1>5. U16(f, k) = v
  BY <1>1, <1>4 DEF U16
<1>6. Sized(s, 2)
  BY <1>2 DEF Sized, IsSeq
<1>7. QED
  BY <1>3, <1>5, <1>6

(* What Parse makes of the octets in front of a good FCS.                  *)
LEMMA ParseIs ==
  ASSUME NEW f, NEW n, Sized(f, n)
  PROVE  Parse(WithFcs(f)) = ParseOctets(f)
<1> DEFINE m == WithFcs(f)
<1>1. FcsHolds(m) /\ SubSeq(m, 1, Len(m) - 4) = f
  BY FcsIsFound
<1> HIDE DEF m
<1>2. Parse(m) = ParseOctets(f)
  BY <1>1 DEF Parse
<1>3. QED
  BY <1>2 DEF m

(* A frame of protocol version 1 is left to parse_pv1. *)
LEMMA ParsedPv1 ==
  ASSUME NEW f, ~(Len(f) < 10), f[1] % 4 = 1
  PROVE  ParseOctets(f) = ParsePv1(f)
BY SMT DEF ParseOctets

(* A Data or QoS Data frame. *)
LEMMA ParsedData ==
  ASSUME NEW f, ~(Len(f) < 10), f[1] % 4 # 1, (f[1] \div 4) % 4 = 2, f[1] \div 16 \in {0, 8}
  PROVE  ParseOctets(f) = ParseData(f)
BY SMT DEF ParseOctets

(* An RTS. *)
LEMMA ParsedRts ==
  ASSUME NEW f, ~(Len(f) < 10), f[1] % 4 # 1, (f[1] \div 4) % 4 = 1, f[1] \div 16 = 11, ~(Len(f) < 16)
  PROVE  ParseOctets(f) = [kind |-> "rts", ra |-> Addr(f, 4), ta |-> Addr(f, 10), duration |-> U16(f, 2) % 32768]
BY SMT DEF ParseOctets

(* An address that stands in f is read there.                              *)
LEMMA AddrReadsBack ==
  ASSUME NEW f, NEW k \in Nat, NEW a, IsSeq(f), Sized(a, 6), Holds(f, k, a)
  PROVE  Addr(f, k) = a
<1> DEFINE x == k + 1
           y == k + 6
<1>1. StandsIn(f, x, y, a)
  BY DEF StandsIn, Sized
<1> HIDE DEF x, y
<1>2. SubSeq(f, x, y) = a
  BY <1>1, FieldCut
<1>3. QED
  BY <1>2 DEF Addr, x, y

(* And what stands at the end.                                             *)
LEMMA RestReadsBack ==
  ASSUME NEW f, NEW k, NEW n, NEW s, NEW m, Sized(f, n), Sized(s, m), Holds(f, k, s), k \in Nat, n = k + m
  PROVE  From(f, k) = s
<1> DEFINE x == k + 1
           y == Len(f)
<1>1. StandsIn(f, x, y, s)
  BY DEF StandsIn, Sized
<1> HIDE DEF x, y
<1>2. SubSeq(f, x, y) = s
  BY <1>1, FieldCut
<1>3. QED
  BY <1>2 DEF From, x, y

(* An RTS is read as it was built (build_rts, parse). *)
LEMMA RtsReadsBack ==
  ASSUME NEW ra, NEW ta, Sized(ra, 6), Sized(ta, 6), NEW d \in Nat, d < 32768
  PROVE  Parse(BuildRts(ra, ta, d)) = [kind |-> "rts", ra |-> ra, ta |-> ta, duration |-> d]
<1> DEFINE h == <<180, 0>>
           p == Le16(d % 32768)
           f == h \o p \o ra \o ta
<1>1. Sized(h, 2) /\ h[1] = 180
  <2>1. h \in Seq(Int) /\ Len(h) = 2 /\ h[1] = 180
    OBVIOUS
  <2> HIDE DEF h
  <2>2. QED
    BY <2>1 DEF Sized, IsSeq
<1>2. d % 32768 = d
  OBVIOUS
<1>3. Sized(p, 2)
  <2>1. p \in Seq(Int) /\ Len(p) = 2
    BY <1>2 DEF Le16
  <2>2. QED
    BY <2>1 DEF Sized, IsSeq
<1>4. BuildRts(ra, ta, d) = WithFcs(f)
  BY DEF BuildRts
<1> HIDE DEF h, p
<1>5. Three(f, h, 2, p, 2, ra, 6, ta, 6)
  BY <1>1, <1>3, ThreePieces
<1> HIDE DEF f
<1>6. Sized(f, 16) /\ IsSeq(f) /\ Holds(f, 2, p) /\ Holds(f, 4, ra) /\ Holds(f, 10, ta) /\ Holds(f, 0, h)
  BY <1>5 DEF Three, Sized
<1>7. f[1] = 180
  <2>1. \A i \in 1 .. 2 : f[0 + i] = h[i]
    BY <1>1, <1>6 DEF Holds, Sized
  <2>2. 0 + 1 = 1 /\ 1 \in 1 .. 2
    OBVIOUS
  <2>3. QED
    BY <1>1, <2>1, <2>2
<1>8. Addr(f, 4) = ra /\ Addr(f, 10) = ta
  BY <1>6, AddrReadsBack
<1>9. U16(f, 2) % 32768 = d
  <2>1. U16(f, 2) = d % 32768
    BY <1>2, <1>6, Le16ReadsBack DEF p
  <2>2. QED
    BY <1>2, <2>1
<1>10. 180 % 4 # 1 /\ (180 \div 4) % 4 = 1 /\ 180 \div 16 = 11 /\ 16 >= 10 /\ 16 >= 16
  OBVIOUS
<1>11. Parse(WithFcs(f)) = [kind |-> "rts", ra |-> Addr(f, 4), ta |-> Addr(f, 10), duration |-> U16(f, 2) % 32768]
  <2>1. Parse(WithFcs(f)) = ParseOctets(f)
    BY <1>6, ParseIs
  <2>2. ~(Len(f) < 10) /\ ~(Len(f) < 16)
    BY <1>6 DEF Sized
  <2>3. QED
    BY <1>7, <1>10, <2>1, <2>2, ParsedRts
<1>12. QED
  BY <1>4, <1>8, <1>9, <1>11

(* Data and QoS Data, field by field.                                      *)
LEMMA ParsedQosFields ==
  ASSUME NEW f, f[1] \div 16 = 8, ~(Len(f) < 26), f[2] % 4 = 0
  PROVE  ParseData(f) = [kind |-> "data", dest |-> Addr(f, 4), src |-> Addr(f, 10), bssid |-> Addr(f, 16),
           seq |-> U16(f, 22) \div 16, retry |-> Bit(f[2], 3) = 1, duration |-> U16(f, 2) % 32768,
           tid |-> f[25] % 16, body |-> From(f, 26)]
BY SMT DEF ParseData

(* Data, field by field. *)
LEMMA ParsedPlainFields ==
  ASSUME NEW f, ~(f[1] \div 16 = 8), ~(Len(f) < 24), f[2] % 4 = 0
  PROVE  ParseData(f) = [kind |-> "data", dest |-> Addr(f, 4), src |-> Addr(f, 10), bssid |-> Addr(f, 16),
           seq |-> U16(f, 22) \div 16, retry |-> Bit(f[2], 3) = 1, duration |-> U16(f, 2) % 32768,
           tid |-> NoTid, body |-> From(f, 24)]
BY SMT DEF ParseData

(* The short pieces of a frame. *)
LEMMA SizedOctets ==
  /\ \A x, y \in Int : Sized(<<x, y>>, 2)
  /\ Sized(<<>>, 0)
  /\ Sized(WILDCARD_BSSID, 6)
<1>1. ASSUME NEW x \in Int, NEW y \in Int
      PROVE  Sized(<<x, y>>, 2)
  <2> DEFINE s == <<x, y>>
  <2>1. s \in Seq(Int) /\ Len(s) = 2
    OBVIOUS
  <2> HIDE DEF s
  <2>2. Sized(s, 2)
    BY <2>1 DEF Sized, IsSeq
  <2>3. QED
    BY <2>2 DEF s
<1>2. Sized(<<>>, 0)
  <2> DEFINE s == <<>>
  <2>1. s \in Seq(Int) /\ Len(s) = 0
    OBVIOUS
  <2> HIDE DEF s
  <2>2. Sized(s, 0)
    BY <2>1 DEF Sized, IsSeq
  <2>3. QED
    BY <2>2 DEF s
<1>3. Sized(WILDCARD_BSSID, 6)
  <2>1. WILDCARD_BSSID \in Seq(Int) /\ Len(WILDCARD_BSSID) = 6
    BY SMT DEF WILDCARD_BSSID
  <2>2. QED
    BY <2>1 DEF Sized, IsSeq
<1>4. QED
  BY <1>1, <1>2, <1>3

(* Two octets for a 16-bit field. *)
LEMMA Le16Sized ==
  ASSUME NEW v \in Nat
  PROVE  Sized(Le16(v), 2)
<1> DEFINE lo == v % 256
           hi == v \div 256
<1>1. lo \in Int /\ hi \in Int
  OBVIOUS
<1> HIDE DEF lo, hi
<1>2. Sized(<<lo, hi>>, 2)
  BY <1>1, SizedOctets
<1>3. QED
  BY <1>2 DEF Le16, lo, hi

(* The retry flag. *)
Retry(r) == IF r THEN 8 ELSE 0

(* The bit is read back, and leaves the DS bits clear. *)
LEMMA RetryReadsBack ==
  ASSUME NEW r \in BOOLEAN
  PROVE  (Bit(Retry(r), 3) = 1) = r /\ Retry(r) % 4 = 0 /\ Retry(r) \in Int
<1>1. 2^3 = 8
  OBVIOUS
<1>2. CASE r
  <2>1. Retry(r) = 8
    BY <1>2 DEF Retry
  <2>2. Bit(8, 3) = 1
    BY <1>1 DEF Bit
  <2>3. (Bit(Retry(r), 3) = 1) = TRUE /\ r = TRUE
    BY <1>2, <2>1, <2>2
  <2>4. Retry(r) % 4 = 0 /\ Retry(r) \in Int
    BY <2>1
  <2>5. QED
    BY <2>3, <2>4
<1>3. CASE ~r
  <2>1. Retry(r) = 0
    BY <1>3 DEF Retry
  <2>2. Bit(0, 3) = 0
    BY <1>1 DEF Bit
  <2>3. (Bit(Retry(r), 3) = 1) = FALSE
    BY <2>1, <2>2
  <2>4. r = FALSE
    BY <1>3
  <2>5. Retry(r) % 4 = 0 /\ Retry(r) \in Int
    BY <2>1
  <2>6. QED
    BY <2>3, <2>4, <2>5
<1>4. QED
  BY <1>2, <1>3

(* Six pieces behind a header of two octets, and the rest.                 *)
DataOctets(f, h, p, dest, src, s, t, k, body, m) ==
  /\ Sized(f, 24 + k + m)
  /\ Holds(f, 0, h) /\ Holds(f, 2, p) /\ Holds(f, 4, dest) /\ Holds(f, 10, src)
  /\ Holds(f, 16, WILDCARD_BSSID) /\ Holds(f, 22, s) /\ Holds(f, 24, t) /\ Holds(f, 24 + k, body)

(* Where the pieces of a Data frame stand (build_data). *)
LEMMA DataLayout ==
  ASSUME NEW h, Sized(h, 2), NEW p, Sized(p, 2), NEW dest, Sized(dest, 6), NEW src, Sized(src, 6),
         NEW s, Sized(s, 2), NEW t, NEW k, Sized(t, k), NEW body, NEW m, Sized(body, m)
  PROVE  DataOctets(h \o p \o dest \o src \o WILDCARD_BSSID \o s \o t \o body, h, p, dest, src, s, t, k, body, m)
<1> DEFINE w == WILDCARD_BSSID
           x == h \o p \o dest \o src
           y == x \o w \o s \o t
           f == y \o body
<1>1. Three(x, h, 2, p, 2, dest, 6, src, 6)
  BY ThreePieces
<1> HIDE DEF x, w
<1>2. Sized(x, 16) /\ Holds(x, 0, h) /\ Holds(x, 2, p) /\ Holds(x, 4, dest) /\ Holds(x, 10, src)
  BY <1>1 DEF Three
<1>3. Sized(w, 6)
  BY SizedOctets DEF w
<1>4. Three(y, x, 16, w, 6, s, 2, t, k)
  BY <1>2, <1>3, ThreePieces
<1> HIDE DEF y
<1>5. k \in Nat /\ m \in Nat /\ 16 + 6 + 2 + k = 24 + k
  BY DEF Sized
<1>6. Sized(y, 24 + k) /\ Holds(y, 0, x) /\ Holds(y, 16, w) /\ Holds(y, 22, s) /\ Holds(y, 24, t)
  BY <1>4, <1>5 DEF Three
<1>7. Sized(f, 24 + k + m)
  BY <1>6, JoinedSeq
<1>8. Holds(f, 24 + k, body) /\ Holds(f, 0, y)
  <2>1. Holds(f, 0, y \o body) /\ IsSeq(f)
    BY <1>7, HoldsItself DEF Sized
  <2> HIDE DEF f
  <2>2. QED
    BY <1>6, <2>1, PieceFound
<1> HIDE DEF f
<1>9. /\ IsSeq(f) /\ IsSeq(y) /\ IsSeq(x) /\ IsSeq(h) /\ IsSeq(p) /\ IsSeq(dest)
      /\ IsSeq(src) /\ IsSeq(w) /\ IsSeq(s) /\ IsSeq(t)
  BY <1>2, <1>3, <1>6, <1>7 DEF Sized
<1>10. Holds(f, 0, x) /\ Holds(f, 16, w) /\ Holds(f, 22, s) /\ Holds(f, 24, t)
  BY <1>6, <1>8, <1>9, HoldsWithin
<1>11. Holds(f, 0, h) /\ Holds(f, 2, p) /\ Holds(f, 4, dest) /\ Holds(f, 10, src)
  BY <1>2, <1>9, <1>10, HoldsWithin
<1>12. DataOctets(f, h, p, dest, src, s, t, k, body, m)
  BY <1>7, <1>8, <1>10, <1>11 DEF DataOctets, w
<1>13. QED
  BY <1>12 DEF f, y, x, w

(* The octets of Frame Control. *)
LEMMA FirstTwo ==
  ASSUME NEW f, NEW x \in Int, NEW y \in Int, Holds(f, 0, <<x, y>>)
  PROVE  f[1] = x /\ f[2] = y
<1> DEFINE h == <<x, y>>
<1>1. Len(h) = 2 /\ h[1] = x /\ h[2] = y
  OBVIOUS
<1>2. Holds(f, 0, h)
  OBVIOUS
<1> HIDE DEF h
<1>3. \A i \in 1 .. 2 : f[0 + i] = h[i]
  BY <1>1, <1>2 DEF Holds
<1>4. 0 + 1 = 1 /\ 0 + 2 = 2 /\ 1 \in 1 .. 2 /\ 2 \in 1 .. 2
  OBVIOUS
<1>5. QED
  BY <1>1, <1>3, <1>4

(* Values that fit in their fields.                                        *)
IsDuration(d) == d \in Nat /\ d % 32768 = d

IsSeqNo(seq) == seq \in Nat /\ seq % 4096 = seq

(* A Duration is a number of 15 bits. *)
LEMMA DurationFits ==
  ASSUME NEW d \in Nat, d <= 32767
  PROVE  IsDuration(d)
BY SMT DEF IsDuration

(* So is any number of 15 bits. *)
LEMMA UnsignedDuration ==
  ASSUME NEW d \in Unsigned(15)
  PROVE  IsDuration(d)
<1>1. 2^15 = 32768
  BY SMT
<1>2. d \in Nat /\ d <= 32767
  BY SMT, <1>1 DEF Unsigned
<1>3. QED
  BY SMT, <1>2, DurationFits

(* A sequence number is one of 12 bits. *)
LEMMA UnsignedSeqNo ==
  ASSUME NEW seq \in Unsigned(12)
  PROVE  IsSeqNo(seq)
<1>1. 2^12 = 4096
  BY SMT
<1>2. seq \in Nat /\ seq < 4096
  BY SMT, <1>1 DEF Unsigned
<1>3. QED
  BY SMT, <1>2 DEF IsSeqNo

(* A sequence number comes with its fragment number, zero.                 *)
LEMMA SeqReadsBack ==
  ASSUME NEW seq, IsSeqNo(seq)
  PROVE  /\ Sized(SeqControl(seq), 2)
         /\ \A f : \A k \in Nat : Holds(f, k, SeqControl(seq)) => U16(f, k) \div 16 = seq
<1> DEFINE v == 16 * seq
<1>1. v \in Nat /\ v \div 16 = seq /\ (seq % 4096) * 16 = v
  BY DEF IsSeqNo
<1>2. SeqControl(seq) = Le16(v)
  BY <1>1 DEF SeqControl
<1> HIDE DEF v
<1>3. ASSUME NEW f, NEW k \in Nat, Holds(f, k, SeqControl(seq))
      PROVE  U16(f, k) \div 16 = seq
  <2>1. U16(f, k) = v
    BY <1>1, <1>2, <1>3, Le16ReadsBack
  <2>2. QED
    BY <1>1, <2>1
<1>4. Sized(SeqControl(seq), 2)
  BY <1>1, <1>2, Le16Sized
<1>5. QED
  BY <1>3, <1>4

(* What on_data is given of a frame that was built from some fields.       *)
DataFields(dest, src, seq, retry, duration, tid, body) ==
  [kind |-> "data", dest |-> dest, src |-> src, bssid |-> WILDCARD_BSSID, seq |-> seq, retry |-> retry,
   duration |-> duration, tid |-> tid, body |-> body]

(* All but the body is where the header has it.                            *)
LEMMA HeaderReadsBack ==
  ASSUME NEW f, NEW c \in Int, NEW retry \in BOOLEAN, NEW duration, IsDuration(duration), NEW dest, Sized(dest, 6),
         NEW src, Sized(src, 6), NEW seq, IsSeqNo(seq), NEW t, NEW k, NEW body, NEW m, Sized(body, m), k \in Nat,
         DataOctets(f, <<c, Retry(retry)>>, Le16(duration % 32768), dest, src, SeqControl(seq), t, k, body, m)
  PROVE  /\ f[1] = c /\ f[2] % 4 = 0 /\ (Bit(f[2], 3) = 1) = retry
         /\ U16(f, 2) % 32768 = duration
         /\ Addr(f, 4) = dest /\ Addr(f, 10) = src /\ Addr(f, 16) = WILDCARD_BSSID
         /\ U16(f, 22) \div 16 = seq /\ Holds(f, 24, t) /\ From(f, 24 + k) = body
<1> DEFINE g == Retry(retry)
           p == Le16(duration % 32768)
           h == <<c, g>>
           s == SeqControl(seq)
           w == WILDCARD_BSSID
<1>1. g \in Int /\ g % 4 = 0 /\ (Bit(g, 3) = 1) = retry
  BY RetryReadsBack
<1>2. duration % 32768 = duration /\ duration \in Nat
  BY DEF IsDuration
<1>3. DataOctets(f, h, p, dest, src, s, t, k, body, m)
  OBVIOUS
<1> HIDE DEF g, p, h, s
<1>3a. Sized(f, 24 + k + m)
  BY <1>3 DEF DataOctets
<1>3b. IsSeq(f)
  BY <1>3a DEF Sized
<1>4. /\ Sized(f, 24 + k + m) /\ IsSeq(f) /\ Holds(f, 0, h) /\ Holds(f, 2, p) /\ Holds(f, 4, dest)
      /\ Holds(f, 10, src) /\ Holds(f, 16, w) /\ Holds(f, 22, s) /\ Holds(f, 24, t) /\ Holds(f, 24 + k, body)
  BY <1>3, <1>3a, <1>3b DEF DataOctets
<1>5. f[1] = c /\ f[2] = g
  BY <1>1, <1>4, FirstTwo DEF h
<1>6. U16(f, 2) % 32768 = duration
  <2>1. U16(f, 2) = duration
    BY <1>2, <1>4, Le16ReadsBack DEF p
  <2>2. QED
    BY <1>2, <2>1
<1>7. Addr(f, 4) = dest /\ Addr(f, 10) = src /\ Addr(f, 16) = w
  <2>1. Sized(w, 6)
    BY SizedOctets
  <2> HIDE DEF w
  <2>2. QED
    BY <1>4, <2>1, AddrReadsBack
<1>8. U16(f, 22) \div 16 = seq
  BY <1>4, SeqReadsBack DEF s
<1>9. From(f, 24 + k) = body
  <2> DEFINE at == 24 + k
             n == 24 + k + m
  <2>1. at \in Nat /\ n = at + m
    BY DEF Sized
  <2>2. Sized(f, n) /\ Holds(f, at, body)
    BY <1>4
  <2> HIDE DEF at, n
  <2>3. From(f, at) = body
    BY <2>1, <2>2, RestReadsBack
  <2>4. QED
    BY <2>3 DEF at
<1>10. f[2] % 4 = 0 /\ (Bit(f[2], 3) = 1) = retry
  <2> HIDE DEF g
  <2>1. QED
    BY <1>1, <1>5
<1>11. QED
  BY <1>4, <1>5, <1>6, <1>7, <1>8, <1>9, <1>10 DEF w

(* A Data or QoS Data frame is read as it was built (build_data, parse). *)
LEMMA DataReadsBack ==
  ASSUME NEW dest, Sized(dest, 6), NEW src, Sized(src, 6), NEW seq, IsSeqNo(seq), NEW retry \in BOOLEAN,
         NEW duration, IsDuration(duration), NEW tid \in {NoTid} \cup (0 .. 15), NEW body, NEW m, Sized(body, m)
  PROVE  Parse(BuildData(dest, src, seq, retry, duration, tid, body))
           = DataFields(dest, src, seq, retry, duration, tid, body)
<1> DEFINE c == IF tid = NoTid THEN 8 ELSE 136
           g == IF retry THEN 8 ELSE 0
           h == <<c, g>>
           p == Le16(duration % 32768)
           s == SeqControl(seq)
           t == IF tid = NoTid THEN <<>> ELSE Le16(tid % 16)
           k == IF tid = NoTid THEN 0 ELSE 2
           f == h \o p \o dest \o src \o WILDCARD_BSSID \o s \o t \o body
<1>1. BuildData(dest, src, seq, retry, duration, tid, body) = WithFcs(f)
  BY DEF BuildData
<1>2. c \in Int /\ g = Retry(retry) /\ g \in Int /\ k \in Nat
  BY RetryReadsBack DEF Retry
<1>3. Sized(p, 2)
  <2>1. duration % 32768 = duration /\ duration \in Nat
    BY DEF IsDuration
  <2>2. QED
    BY <2>1, Le16Sized
<1>4. Sized(t, k)
  <2>1. CASE tid = NoTid
    BY <2>1, SizedOctets
  <2>2. CASE tid # NoTid
    <3>1. tid % 16 \in Nat
      BY <2>2
    <3>2. QED
      BY <2>2, <3>1, Le16Sized
  <2>3. QED
    BY <2>1, <2>2
<1>5. Sized(s, 2)
  BY SeqReadsBack
<1> HIDE DEF c, g
<1>6. Sized(h, 2)
  BY <1>2, SizedOctets
<1> HIDE DEF h, p, s, t, k
<1>7. DataOctets(f, h, p, dest, src, s, t, k, body, m)
  BY <1>3, <1>4, <1>5, <1>6, DataLayout
<1> HIDE DEF f
<1>8. DataOctets(f, <<c, Retry(retry)>>, Le16(duration % 32768), dest, src, SeqControl(seq), t, k, body, m)
  BY <1>2, <1>7 DEF h, p, s
<1>9. /\ f[1] = c /\ f[2] % 4 = 0 /\ (Bit(f[2], 3) = 1) = retry
      /\ U16(f, 2) % 32768 = duration
      /\ Addr(f, 4) = dest /\ Addr(f, 10) = src /\ Addr(f, 16) = WILDCARD_BSSID
      /\ U16(f, 22) \div 16 = seq /\ Holds(f, 24, t) /\ From(f, 24 + k) = body
  BY <1>2, <1>8, HeaderReadsBack
<1>10. Parse(WithFcs(f)) = ParseOctets(f) /\ Len(f) = 24 + k + m /\ m \in Nat
  BY <1>7, ParseIs DEF DataOctets, Sized
<1>11. ~(Len(f) < 10) /\ ~(Len(f) < 24)
  BY <1>2, <1>10
<1>12. f[1] % 4 # 1 /\ (f[1] \div 4) % 4 = 2 /\ f[1] \div 16 \in {0, 8}
  BY <1>9 DEF c
<1>13. ParseOctets(f) = ParseData(f)
  BY <1>11, <1>12, ParsedData
<1>14. CASE tid = NoTid
  <2>1. ~(f[1] \div 16 = 8) /\ 24 + k = 24
    BY <1>9, <1>14 DEF c, k
  <2>2. ParseData(f) = [kind |-> "data", dest |-> Addr(f, 4), src |-> Addr(f, 10), bssid |-> Addr(f, 16),
           seq |-> U16(f, 22) \div 16, retry |-> Bit(f[2], 3) = 1, duration |-> U16(f, 2) % 32768,
           tid |-> NoTid, body |-> From(f, 24)]
    BY <1>9, <1>11, <2>1, ParsedPlainFields
  <2>3. QED
    BY <1>1, <1>9, <1>10, <1>13, <1>14, <2>1, <2>2 DEF DataFields
<1>15. CASE tid # NoTid
  <2>1. f[1] \div 16 = 8 /\ 24 + k = 26 /\ ~(Len(f) < 26)
    BY <1>9, <1>10, <1>15 DEF c, k
  <2>2. ParseData(f) = [kind |-> "data", dest |-> Addr(f, 4), src |-> Addr(f, 10), bssid |-> Addr(f, 16),
           seq |-> U16(f, 22) \div 16, retry |-> Bit(f[2], 3) = 1, duration |-> U16(f, 2) % 32768,
           tid |-> f[25] % 16, body |-> From(f, 26)]
    BY <1>9, <2>1, ParsedQosFields
  <2>3. f[25] % 16 = tid
    <3>1. tid \in 0 .. 15
      BY <1>15
    <3>2. t = <<tid, 0>>
      <4>1. tid % 16 = tid /\ tid % 256 = tid /\ tid \div 256 = 0
        BY <3>1
      <4>2. t = Le16(tid)
        BY <1>15, <4>1 DEF t
      <4>3. QED
        BY <4>1, <4>2 DEF Le16
    <3>3. Len(t) = 2 /\ t[1] = tid
      BY <3>2
    <3>4. \A i \in 1 .. 2 : f[24 + i] = t[i]
      BY <1>9, <3>3 DEF Holds
    <3>5. 24 + 1 = 25 /\ 1 \in 1 .. 2
      OBVIOUS
    <3>6. f[25] = tid
      BY <3>3, <3>4, <3>5
    <3>7. QED
      BY <3>1, <3>6
  <2>4. QED
    BY <1>1, <1>9, <1>10, <1>13, <1>15, <2>1, <2>2, <2>3 DEF DataFields
<1>16. QED
  BY <1>14, <1>15

(* PV1 frames by type. *)
LEMMA ParsedSidFrame ==
  ASSUME NEW f, NEW type, type = (f[1] \div 4) % 8, type = 0 \/ type = 1, NEW at, at = IF f[2] % 2 = 1 THEN 2 ELSE 8
  PROVE  ParsePv1(f) = ParseSidFrame(f, at)
BY SMT DEF ParsePv1, PV1_TYPE_QOS_DATA, PV1_TYPE_MANAGEMENT, PV1_TYPE_QOS_DATA_MAC

(* QoS Data between MAC addresses, PV1. *)
LEMMA ParsedMacFrame ==
  ASSUME NEW f, (f[1] \div 4) % 8 = 3, ~(Len(f) < 16)
  PROVE  ParsePv1(f) = Pv1(f, Mac(Addr(f, 2)), Mac(Addr(f, 8)), Absent, Absent, U16(f, 14) \div 16, 16)
BY SMT DEF ParsePv1, PV1_TYPE_QOS_DATA, PV1_TYPE_MANAGEMENT, PV1_TYPE_QOS_DATA_MAC

(* The same, too short for its header. *)
LEMMA ParsedCutMacFrame ==
  ASSUME NEW f, (f[1] \div 4) % 8 = 3, Len(f) < 16
  PROVE  ParsePv1(f) = TooShort
BY SMT DEF ParsePv1, PV1_TYPE_QOS_DATA, PV1_TYPE_MANAGEMENT, PV1_TYPE_QOS_DATA_MAC

(* A PV1 Control frame. *)
LEMMA ParsedOtherFrame ==
  ASSUME NEW f, (f[1] \div 4) % 8 = 2
  PROVE  ParsePv1(f) = Pv1(f, Sid(U16(f, 2)), Sid(0), Absent, Absent, NoSeq, 4)
BY SMT DEF ParsePv1, PV1_TYPE_QOS_DATA, PV1_TYPE_MANAGEMENT, PV1_TYPE_QOS_DATA_MAC

(* A frame with a Short ID, place by place. *)
SidPlaces(f, at, sid, h, at3, at4, end) ==
  /\ sid = Sid(U16(f, at))
  /\ h \in BOOLEAN /\ h = ((f[1] \div 4) % 8 # 1 \/ f[1] \div 32 # 2)
  /\ at3 = IF h THEN 12 ELSE 10
  /\ at4 = IF sid.a3 THEN at3 + 6 ELSE at3
  /\ end = IF sid.a4 THEN at4 + 6 ELSE at4

(* A frame is read from the places its Short ID tells. *)
LEMMA ParsedSidFields ==
  ASSUME NEW f, NEW at, NEW sid, NEW h, NEW at3, NEW at4, NEW end, SidPlaces(f, at, sid, h, at3, at4, end)
  PROVE  ParseSidFrame(f, at) =
           IF Len(f) < end THEN TooShort
           ELSE Pv1(f, IF at = 2 THEN sid ELSE Mac(Addr(f, 2)), IF at = 2 THEN Mac(Addr(f, 4)) ELSE sid,
                    IF sid.a3 THEN Addr(f, at3) ELSE Absent, IF sid.a4 THEN Addr(f, at4) ELSE Absent,
                    IF h THEN U16(f, 10) \div 16 ELSE NoSeq, end)
<1>0. /\ sid = Sid(U16(f, at))
      /\ h \in BOOLEAN /\ h = ((f[1] \div 4) % 8 # 1 \/ f[1] \div 32 # 2)
      /\ at3 = IF h THEN 12 ELSE 10
      /\ at4 = IF sid.a3 THEN at3 + 6 ELSE at3
      /\ end = IF sid.a4 THEN at4 + 6 ELSE at4
  BY DEF SidPlaces
<1>1. CASE h /\ sid.a3 /\ sid.a4
  <2>1. at3 = 12 /\ at4 = 18 /\ end = 24
    BY <1>0, <1>1
  <2>2. (f[1] \div 4) % 8 # 1 \/ f[1] \div 32 # 2
    BY <1>0, <1>1
  <2>3. ParseSidFrame(f, at) =
           IF Len(f) < 24 THEN TooShort
           ELSE Pv1(f, IF at = 2 THEN sid ELSE Mac(Addr(f, 2)), IF at = 2 THEN Mac(Addr(f, 4)) ELSE sid,
                    Addr(f, 12), Addr(f, 18), U16(f, 10) \div 16, 24)
    BY SMT, <1>0, <1>1, <2>2 DEF ParseSidFrame, PV1_TYPE_MANAGEMENT
  <2>4. QED
    BY <1>1, <2>1, <2>3
<1>2. CASE h /\ sid.a3 /\ ~sid.a4
  <2>1. at3 = 12 /\ at4 = 18 /\ end = 18
    BY <1>0, <1>2
  <2>2. (f[1] \div 4) % 8 # 1 \/ f[1] \div 32 # 2
    BY <1>0, <1>2
  <2>3. ParseSidFrame(f, at) =
           IF Len(f) < 18 THEN TooShort
           ELSE Pv1(f, IF at = 2 THEN sid ELSE Mac(Addr(f, 2)), IF at = 2 THEN Mac(Addr(f, 4)) ELSE sid,
                    Addr(f, 12), Absent, U16(f, 10) \div 16, 18)
    BY SMT, <1>0, <1>2, <2>2 DEF ParseSidFrame, PV1_TYPE_MANAGEMENT
  <2>4. QED
    BY <1>2, <2>1, <2>3
<1>3. CASE h /\ ~sid.a3 /\ sid.a4
  <2>1. at3 = 12 /\ at4 = 12 /\ end = 18
    BY <1>0, <1>3
  <2>2. (f[1] \div 4) % 8 # 1 \/ f[1] \div 32 # 2
    BY <1>0, <1>3
  <2>3. ParseSidFrame(f, at) =
           IF Len(f) < 18 THEN TooShort
           ELSE Pv1(f, IF at = 2 THEN sid ELSE Mac(Addr(f, 2)), IF at = 2 THEN Mac(Addr(f, 4)) ELSE sid,
                    Absent, Addr(f, 12), U16(f, 10) \div 16, 18)
    BY SMT, <1>0, <1>3, <2>2 DEF ParseSidFrame, PV1_TYPE_MANAGEMENT
  <2>4. QED
    BY <1>3, <2>1, <2>3
<1>4. CASE h /\ ~sid.a3 /\ ~sid.a4
  <2>1. at3 = 12 /\ at4 = 12 /\ end = 12
    BY <1>0, <1>4
  <2>2. (f[1] \div 4) % 8 # 1 \/ f[1] \div 32 # 2
    BY <1>0, <1>4
  <2>3. ParseSidFrame(f, at) =
           IF Len(f) < 12 THEN TooShort
           ELSE Pv1(f, IF at = 2 THEN sid ELSE Mac(Addr(f, 2)), IF at = 2 THEN Mac(Addr(f, 4)) ELSE sid,
                    Absent, Absent, U16(f, 10) \div 16, 12)
    BY SMT, <1>0, <1>4, <2>2 DEF ParseSidFrame, PV1_TYPE_MANAGEMENT
  <2>4. QED
    BY <1>4, <2>1, <2>3
<1>5. CASE ~h /\ sid.a3 /\ sid.a4
  <2>1. at3 = 10 /\ at4 = 16 /\ end = 22
    BY <1>0, <1>5
  <2>2. ~((f[1] \div 4) % 8 # 1 \/ f[1] \div 32 # 2)
    BY <1>0, <1>5
  <2>3. ParseSidFrame(f, at) =
           IF Len(f) < 22 THEN TooShort
           ELSE Pv1(f, IF at = 2 THEN sid ELSE Mac(Addr(f, 2)), IF at = 2 THEN Mac(Addr(f, 4)) ELSE sid,
                    Addr(f, 10), Addr(f, 16), NoSeq, 22)
    BY SMT, <1>0, <1>5, <2>2 DEF ParseSidFrame, PV1_TYPE_MANAGEMENT
  <2>4. QED
    BY <1>5, <2>1, <2>3
<1>6. CASE ~h /\ sid.a3 /\ ~sid.a4
  <2>1. at3 = 10 /\ at4 = 16 /\ end = 16
    BY <1>0, <1>6
  <2>2. ~((f[1] \div 4) % 8 # 1 \/ f[1] \div 32 # 2)
    BY <1>0, <1>6
  <2>3. ParseSidFrame(f, at) =
           IF Len(f) < 16 THEN TooShort
           ELSE Pv1(f, IF at = 2 THEN sid ELSE Mac(Addr(f, 2)), IF at = 2 THEN Mac(Addr(f, 4)) ELSE sid,
                    Addr(f, 10), Absent, NoSeq, 16)
    BY SMT, <1>0, <1>6, <2>2 DEF ParseSidFrame, PV1_TYPE_MANAGEMENT
  <2>4. QED
    BY <1>6, <2>1, <2>3
<1>7. CASE ~h /\ ~sid.a3 /\ sid.a4
  <2>1. at3 = 10 /\ at4 = 10 /\ end = 16
    BY <1>0, <1>7
  <2>2. ~((f[1] \div 4) % 8 # 1 \/ f[1] \div 32 # 2)
    BY <1>0, <1>7
  <2>3. ParseSidFrame(f, at) =
           IF Len(f) < 16 THEN TooShort
           ELSE Pv1(f, IF at = 2 THEN sid ELSE Mac(Addr(f, 2)), IF at = 2 THEN Mac(Addr(f, 4)) ELSE sid,
                    Absent, Addr(f, 10), NoSeq, 16)
    BY SMT, <1>0, <1>7, <2>2 DEF ParseSidFrame, PV1_TYPE_MANAGEMENT
  <2>4. QED
    BY <1>7, <2>1, <2>3
<1>8. CASE ~h /\ ~sid.a3 /\ ~sid.a4
  <2>1. at3 = 10 /\ at4 = 10 /\ end = 10
    BY <1>0, <1>8
  <2>2. ~((f[1] \div 4) % 8 # 1 \/ f[1] \div 32 # 2)
    BY <1>0, <1>8
  <2>3. ParseSidFrame(f, at) =
           IF Len(f) < 10 THEN TooShort
           ELSE Pv1(f, IF at = 2 THEN sid ELSE Mac(Addr(f, 2)), IF at = 2 THEN Mac(Addr(f, 4)) ELSE sid,
                    Absent, Absent, NoSeq, 10)
    BY SMT, <1>0, <1>8, <2>2 DEF ParseSidFrame, PV1_TYPE_MANAGEMENT
  <2>4. QED
    BY <1>8, <2>1, <2>3
<1>9. QED
  BY <1>0, <1>1, <1>2, <1>3, <1>4, <1>5, <1>6, <1>7, <1>8

(* The octets of Frame Control. *)
IsType(c, t, s) == t \in 0 .. 3 /\ s \in 0 .. 7 /\ c = 1 + 4 * t + 32 * s

(* Type and subtype are read back. *)
LEMMA TypeReadsBack ==
  ASSUME NEW c, NEW t, NEW s, IsType(c, t, s)
  PROVE  c \in Int /\ c % 4 = 1 /\ (c \div 4) % 8 = t /\ c \div 32 = s
<1>0. t \in 0 .. 3 /\ s \in 0 .. 7 /\ c = 1 + 4 * t + 32 * s
  BY DEF IsType
<1>1. c \div 4 = t + 8 * s /\ c % 4 = 1
  BY SMT, <1>0
<1>2. (t + 8 * s) % 8 = t
  BY SMT, <1>0
<1>3. c \div 32 = s /\ c \in Int
  BY SMT, <1>0
<1>4. QED
  BY <1>1, <1>2, <1>3

(* A bit of weight v. *)
Flag(b, v) == IF b THEN v ELSE 0

(* Each flag is read back, whatever the others are. *)
LEMMA FlagsReadBack ==
  ASSUME NEW ds \in BOOLEAN, NEW pr \in BOOLEAN, NEW na \in BOOLEAN, NEW c, c = Flag(ds, 1) + Flag(pr, 16) + Flag(na, 128)
  PROVE  c \in Int /\ (c % 2 = 1) = ds /\ (Bit(c, 4) = 1) = pr /\ (c >= 128) = na
<1> DEFINE d == Flag(ds, 1)
           p == Flag(pr, 16)
           n == Flag(na, 128)
<1>1. d \in {0, 1} /\ p \in {0, 16} /\ n \in {0, 128}
  BY DEF Flag
<1>2. (d = 1) = ds /\ (p = 16) = pr /\ (n = 128) = na
  <2>1. (d = 1) = ds
    BY DEF Flag
  <2>2. (p = 16) = pr
    BY DEF Flag
  <2>3. (n = 128) = na
    BY SMT DEF Flag
  <2>4. QED
    BY <2>1, <2>2, <2>3
<1> HIDE DEF d, p, n
<1>3. c = d + p + n
  BY DEF d, p, n
<1>4. c \in Int
  BY <1>1, <1>3
<1>5. (c % 2 = 1) = (d = 1)
  BY SMT, <1>1, <1>3
<1>6. (Bit(c, 4) = 1) = (p = 16)
  <2>1. 2^4 = 16
    OBVIOUS
  <2>2. ((c \div 16) % 2 = 1) = (p = 16)
    BY SMT, <1>1, <1>3
  <2>3. QED
    BY <2>1, <2>2 DEF Bit
<1>7. (c >= 128) = (n = 128)
  BY SMT, <1>1, <1>3
<1>8. QED
  BY <1>2, <1>4, <1>5, <1>6, <1>7

(* The octets of a Short ID. *)
SidValue(r) == r.aid + Flag(r.a3, 8192) + Flag(r.a4, 16384) + Flag(r.amsdu, 32768)

(* The flags of a Short ID lie beside its AID. *)
LEMMA SidReadsBack ==
  ASSUME NEW r \in ShortIds
  PROVE  SidValue(r) \in Nat /\ Sid(SidValue(r)) = r
<1> DEFINE v == SidValue(r)
           a == Flag(r.a3, 8192)
           b == Flag(r.a4, 16384)
           c == Flag(r.amsdu, 32768)
           i == r.aid
<1>0. i \in Unsigned(13) /\ r.a3 \in BOOLEAN /\ r.a4 \in BOOLEAN /\ r.amsdu \in BOOLEAN
  BY SMT DEF ShortIds
<1> HIDE DEF i
<1>0a. 2^13 = 8192
  BY SMT
<1>1. i \in Nat /\ i < 8192 /\ r.a3 \in BOOLEAN /\ r.a4 \in BOOLEAN /\ r.amsdu \in BOOLEAN
  BY SMT, <1>0, <1>0a DEF Unsigned
<1> USE DEF i
<1>2. r = [aid |-> i, a3 |-> r.a3, a4 |-> r.a4, amsdu |-> r.amsdu]
  BY SMT DEF ShortIds
<1>3. a \in {0, 8192} /\ b \in {0, 16384} /\ c \in {0, 32768}
  BY SMT DEF Flag
<1>4. (a = 8192) = r.a3
  BY SMT, <1>1 DEF Flag
<1>5. (b = 16384) = r.a4
  BY SMT, <1>1 DEF Flag
<1>6. (c = 32768) = r.amsdu
  BY SMT, <1>1 DEF Flag
<1>7. v = i + a + b + c
  BY SMT DEF SidValue
<1> HIDE DEF v, a, b, c, i
<1>8. v \in Nat
  BY SMT, <1>1, <1>3, <1>7
<1>9. v % 8192 = i
  BY SMT, <1>1, <1>3, <1>7
<1>10. (Bit(v, 13) = 1) = (a = 8192)
  <2>1. 2^13 = 8192
    BY SMT
  <2>2. ((v \div 8192) % 2 = 1) = (a = 8192)
    BY SMT, <1>1, <1>3, <1>7
  <2>3. QED
    BY SMT, <2>1, <2>2 DEF Bit
<1>11. (Bit(v, 14) = 1) = (b = 16384)
  <2>1. 2^14 = 16384
    BY SMT
  <2>2. ((v \div 16384) % 2 = 1) = (b = 16384)
    BY SMT, <1>1, <1>3, <1>7
  <2>3. QED
    BY SMT, <2>1, <2>2 DEF Bit
<1>12. (Bit(v, 15) = 1) = (c = 32768)
  <2>1. 2^15 = 32768
    BY SMT
  <2>2. ((v \div 32768) % 2 = 1) = (c = 32768)
    BY SMT, <1>1, <1>3, <1>7
  <2>3. QED
    BY SMT, <2>1, <2>2 DEF Bit
<1>13. Sid(v) = r
  BY SMT, <1>2, <1>4, <1>5, <1>6, <1>9, <1>10, <1>11, <1>12 DEF Sid
<1>14. QED
  BY <1>8, <1>13 DEF v

(* A MAC address takes six octets. *)
LEMMA MacReadsBack ==
  ASSUME NEW a \in Macs
  PROVE  AddrOctets(a) = a.mac /\ Sized(a.mac, 6) /\ Mac(a.mac) = a
<1>1. a = [mac |-> a.mac] /\ a.mac \in Address /\ "mac" \in DOMAIN a
  BY SMT DEF Macs
<1>2. a.mac \in Seq(Octet) /\ Len(a.mac) = 6
  BY <1>1 DEF Address
<1>3. Sized(a.mac, 6)
  BY <1>2 DEF Sized, IsSeq
<1>4. QED
  BY <1>1, <1>3 DEF AddrOctets, Mac

(* A Short ID takes two octets and is read back. *)
LEMMA ShortIdReadsBack ==
  ASSUME NEW a \in ShortIds
  PROVE  /\ Sized(AddrOctets(a), 2)
         /\ \A f : \A k \in Nat : Holds(f, k, AddrOctets(a)) => Sid(U16(f, k)) = a
<1> DEFINE v == SidValue(a)
<1>1. "mac" \notin DOMAIN a
  BY SMT DEF ShortIds
<1>2. AddrOctets(a) = Le16(v)
  BY SMT, <1>1 DEF AddrOctets, SidValue, Flag
<1>3. v \in Nat /\ Sid(v) = a
  BY SidReadsBack
<1> HIDE DEF v
<1>4. Sized(AddrOctets(a), 2)
  BY <1>2, <1>3, Le16Sized
<1>5. ASSUME NEW f, NEW k \in Nat, Holds(f, k, AddrOctets(a))
      PROVE  Sid(U16(f, k)) = a
  <2>1. U16(f, k) = v
    BY <1>2, <1>3, <1>5, Le16ReadsBack
  <2>2. QED
    BY <1>3, <2>1
<1>6. QED
  BY <1>4, <1>5

(* h, three pieces and two more. *)
Pv1Layout(g, h, a, k, b, l, s, m, c, p, d, q) ==
  /\ Sized(g, 2 + k + l + m + p + q) /\ k \in Nat /\ l \in Nat /\ m \in Nat /\ p \in Nat /\ q \in Nat
  /\ Holds(g, 0, h) /\ Holds(g, 2, a) /\ Holds(g, 2 + k, b) /\ Holds(g, 2 + k + l, s)
  /\ Holds(g, 2 + k + l + m, c) /\ Holds(g, 2 + k + l + m + p, d)

(* Five pieces behind a header stand one after the other. *)
LEMMA LaidOut ==
  ASSUME NEW h, Sized(h, 2), NEW a, NEW k, Sized(a, k), NEW b, NEW l, Sized(b, l), NEW s, NEW m, Sized(s, m),
         NEW c, NEW p, Sized(c, p), NEW d, NEW q, Sized(d, q)
  PROVE  Pv1Layout(h \o a \o b \o s \o c \o d, h, a, k, b, l, s, m, c, p, d, q)
<1> DEFINE x == h \o a \o b \o s
           y == x \o c
           g == y \o d
           n == 2 + k + l + m
<1>0. k \in Nat /\ l \in Nat /\ m \in Nat /\ p \in Nat /\ q \in Nat
  BY DEF Sized
<1>1. Three(x, h, 2, a, k, b, l, s, m)
  BY ThreePieces
<1> HIDE DEF x, n
<1>2. Sized(x, n) /\ Holds(x, 0, h) /\ Holds(x, 2, a) /\ Holds(x, 2 + k, b) /\ Holds(x, 2 + k + l, s)
  BY <1>1 DEF Three, n
<1>3. Sized(y, n + p) /\ IsSeq(y)
  <2>1. Sized(y, n + p)
    BY <1>2, JoinedSeq
  <2>2. QED
    BY <2>1 DEF Sized
<1>4. Holds(y, n, c) /\ Holds(y, 0, x)
  <2>1. Holds(y, 0, x \o c)
    BY <1>3, HoldsItself
  <2> HIDE DEF y
  <2>2. QED
    BY <1>2, <1>3, <2>1, PieceFound
<1> HIDE DEF y
<1>5. Sized(g, n + p + q) /\ IsSeq(g)
  <2>1. Sized(g, n + p + q)
    BY <1>3, JoinedSeq
  <2>2. QED
    BY <2>1 DEF Sized
<1>6. Holds(g, n + p, d) /\ Holds(g, 0, y)
  <2>1. Holds(g, 0, y \o d)
    BY <1>5, HoldsItself
  <2> HIDE DEF g
  <2>2. QED
    BY <1>3, <1>5, <2>1, PieceFound
<1> HIDE DEF g
<1>7. IsSeq(x) /\ IsSeq(h) /\ IsSeq(a) /\ IsSeq(b) /\ IsSeq(s) /\ IsSeq(c)
  BY <1>2 DEF Sized
<1>8. n \in Nat /\ 2 + k \in Nat /\ 2 + k + l \in Nat
  BY <1>0 DEF n
<1>9. Holds(g, 0, x) /\ Holds(g, n, c)
  BY <1>3, <1>4, <1>5, <1>6, <1>7, <1>8, HoldsWithin
<1>10. Holds(g, 0, h) /\ Holds(g, 2, a)
  BY <1>2, <1>5, <1>7, <1>9, HoldsWithin
<1>11. Holds(g, 2 + k, b)
  BY <1>2, <1>5, <1>7, <1>8, <1>9, HoldsWithin
<1>12. Holds(g, 2 + k + l, s)
  BY <1>2, <1>5, <1>7, <1>8, <1>9, HoldsWithin
<1>13. Pv1Layout(g, h, a, k, b, l, s, m, c, p, d, q)
  BY <1>0, <1>5, <1>6, <1>9, <1>10, <1>11, <1>12 DEF Pv1Layout, n
<1>14. QED
  BY <1>13 DEF g, y, x

(* The octets of Frame Control for some fields, and what follows from them. *)
Ctl1(r) == 1 + 4 * r.ptype + 32 * r.subtype
Ctl2(r) == Flag(r.fromDs, 1) + Flag(r.protected, 16) + Flag(r.noAck, 128)

(* Frame Control tells the type and the flags. *)
LEMMA ControlReadsBack ==
  ASSUME NEW r \in Pv1Fields
  PROVE  /\ Ctl1(r) \in Int /\ Ctl1(r) % 4 = 1 /\ (Ctl1(r) \div 4) % 8 = r.ptype /\ Ctl1(r) \div 32 = r.subtype
         /\ Ctl2(r) \in Int /\ (Ctl2(r) % 2 = 1) = r.fromDs /\ (Bit(Ctl2(r), 4) = 1) = r.protected
         /\ (Ctl2(r) >= 128) = r.noAck
<1>1. r.ptype \in 0 .. 3 /\ r.subtype \in 0 .. 7 /\ r.fromDs \in BOOLEAN /\ r.protected \in BOOLEAN /\ r.noAck \in BOOLEAN
  BY SMT DEF Pv1Fields
<1> DEFINE c == Ctl1(r)
           e == Ctl2(r)
<1>2. c = 1 + 4 * r.ptype + 32 * r.subtype /\ e = Flag(r.fromDs, 1) + Flag(r.protected, 16) + Flag(r.noAck, 128)
  BY DEF Ctl1, Ctl2
<1> HIDE DEF c, e
<1>3. c \in Int /\ c % 4 = 1 /\ (c \div 4) % 8 = r.ptype /\ c \div 32 = r.subtype
  <2>1. IsType(c, r.ptype, r.subtype)
    BY <1>1, <1>2 DEF IsType
  <2>2. QED
    BY <2>1, TypeReadsBack
<1>4. e \in Int /\ (e % 2 = 1) = r.fromDs /\ (Bit(e, 4) = 1) = r.protected /\ (e >= 128) = r.noAck
  BY <1>1, <1>2, FlagsReadBack
<1>5. QED
  BY <1>3, <1>4 DEF c, e

(* The record that is read, once its addresses are. *)
LEMMA Pv1Is ==
  ASSUME NEW r \in Pv1Fields, NEW f, f[1] = Ctl1(r), f[2] = Ctl2(r), NEW at, From(f, at) = r.body
  PROVE  Pv1(f, r.a1, r.a2, r.a3, r.a4, r.seq, at) = r
<1>1. r = [kind |-> "pv1", ptype |-> r.ptype, subtype |-> r.subtype, fromDs |-> r.fromDs, protected |-> r.protected,
           noAck |-> r.noAck, a1 |-> r.a1, a2 |-> r.a2, a3 |-> r.a3, a4 |-> r.a4, seq |-> r.seq, body |-> r.body]
  BY SMT DEF Pv1Fields
<1>2. /\ (f[1] \div 4) % 8 = r.ptype /\ f[1] \div 32 = r.subtype
      /\ (f[2] % 2 = 1) = r.fromDs /\ (Bit(f[2], 4) = 1) = r.protected /\ (f[2] >= 128) = r.noAck
  BY ControlReadsBack
<1>3. Pv1(f, r.a1, r.a2, r.a3, r.a4, r.seq, at) =
        [kind |-> "pv1", ptype |-> r.ptype, subtype |-> r.subtype, fromDs |-> r.fromDs, protected |-> r.protected,
         noAck |-> r.noAck, a1 |-> r.a1, a2 |-> r.a2, a3 |-> r.a3, a4 |-> r.a4, seq |-> r.seq, body |-> r.body]
  BY <1>2 DEF Pv1
<1>4. QED
  BY <1>1, <1>3

(* The Short ID of a frame and its MAC address, and where they stand. *)
SidOf(r) == IF r.fromDs THEN r.a1 ELSE r.a2
MacOf(r) == IF r.fromDs THEN r.a2 ELSE r.a1
SidAt(r) == IF r.fromDs THEN 2 ELSE 8
MacAt(r) == IF r.fromDs THEN 4 ELSE 2

(* f begins as a frame with a Short ID and the fields r does. *)
SidHeader(f, r) == f[1] = Ctl1(r) /\ f[2] = Ctl2(r) /\ Sid(U16(f, SidAt(r))) = SidOf(r)

(* Sizes of the parts the Short ID and the type announce. *)
SeqSize(r) == IF r.ptype # 1 \/ r.subtype # 2 THEN 2 ELSE 0
A3Size(r) == IF SidOf(r).a3 THEN 6 ELSE 0
A4Size(r) == IF SidOf(r).a4 THEN 6 ELSE 0

(* Data and Management frames are read from the places the fields tell. *)
LEMMA SidFrameRead ==
  ASSUME NEW r \in Pv1Fields, r.ptype \in {0, 1}, NEW f, SidHeader(f, r), NEW m, m = SeqSize(r),
         NEW p, p = A3Size(r), NEW q, q = A4Size(r), NEW end, end = 10 + m + p + q
  PROVE  ParsePv1(f) =
           IF Len(f) < end THEN TooShort
           ELSE Pv1(f, IF r.fromDs THEN SidOf(r) ELSE Mac(Addr(f, 2)), IF r.fromDs THEN Mac(Addr(f, 4)) ELSE SidOf(r),
                    IF SidOf(r).a3 THEN Addr(f, 10 + m) ELSE Absent, IF SidOf(r).a4 THEN Addr(f, 10 + m + p) ELSE Absent,
                    IF m = 2 THEN U16(f, 10) \div 16 ELSE NoSeq, end)
<1> DEFINE sid == SidOf(r)
           at == SidAt(r)
           at3 == 10 + m
           at4 == 10 + m + p
<1>1. /\ (f[1] \div 4) % 8 = r.ptype /\ f[1] \div 32 = r.subtype
      /\ (f[2] % 2 = 1) = r.fromDs /\ sid = Sid(U16(f, at)) /\ r.fromDs \in BOOLEAN
  BY ControlReadsBack DEF SidHeader
<1>2. at = IF f[2] % 2 = 1 THEN 2 ELSE 8
  BY <1>1 DEF SidAt
<1>3. (at = 2) = r.fromDs
  BY <1>1 DEF SidAt
<1> DEFINE h == m = 2
<1>4. h = ((f[1] \div 4) % 8 # 1 \/ f[1] \div 32 # 2) /\ h \in BOOLEAN /\ m = IF h THEN 2 ELSE 0
  BY <1>1 DEF SeqSize
<1>5. p = (IF sid.a3 THEN 6 ELSE 0) /\ q = (IF sid.a4 THEN 6 ELSE 0)
  BY DEF A3Size, A4Size
<1> HIDE DEF sid, at, h
<1>6. at3 = (IF h THEN 12 ELSE 10) /\ at4 = (IF sid.a3 THEN at3 + 6 ELSE at3) /\ end = (IF sid.a4 THEN at4 + 6 ELSE at4)
  BY <1>4, <1>5
<1> HIDE DEF at3, at4
<1>7. ParsePv1(f) = ParseSidFrame(f, at)
  <2>1. r.ptype = (f[1] \div 4) % 8 /\ (r.ptype = 0 \/ r.ptype = 1)
    BY <1>1
  <2>2. QED
    BY <2>1, <1>2, ParsedSidFrame
<1>8. ParseSidFrame(f, at) =
           IF Len(f) < end THEN TooShort
           ELSE Pv1(f, IF at = 2 THEN sid ELSE Mac(Addr(f, 2)), IF at = 2 THEN Mac(Addr(f, 4)) ELSE sid,
                    IF sid.a3 THEN Addr(f, at3) ELSE Absent, IF sid.a4 THEN Addr(f, at4) ELSE Absent,
                    IF h THEN U16(f, 10) \div 16 ELSE NoSeq, end)
  <2>1. SidPlaces(f, at, sid, h, at3, at4, end)
    BY <1>1, <1>4, <1>6 DEF SidPlaces
  <2>2. QED
    BY <2>1, ParsedSidFields
<1>9. ParsePv1(f) =
           IF Len(f) < end THEN TooShort
           ELSE Pv1(f, IF r.fromDs THEN sid ELSE Mac(Addr(f, 2)), IF r.fromDs THEN Mac(Addr(f, 4)) ELSE sid,
                    IF sid.a3 THEN Addr(f, at3) ELSE Absent, IF sid.a4 THEN Addr(f, at4) ELSE Absent,
                    IF h THEN U16(f, 10) \div 16 ELSE NoSeq, end)
  BY <1>3, <1>7, <1>8
<1>10. QED
  BY <1>9 DEF sid, at3, at4, h

(* Sizes and octets of the optional parts. *)
OptLen(a) == IF a = Absent THEN 0 ELSE 6
SeqLen(r) == IF r.seq = NoSeq THEN 0 ELSE 2
SeqOctets(r) == IF r.seq = NoSeq THEN <<>> ELSE SeqControl(r.seq)
SecondOctets(r) == IF r.ptype = 2 THEN <<>> ELSE AddrOctets(r.a2)

(* An address is not an absent one. *)
LEMMA AddressSized ==
  ASSUME NEW a \in Address
  PROVE  Sized(a, 6) /\ a # Absent
<1>1. a \in Seq(Octet) /\ Len(a) = 6
  BY DEF Address
<1>2. Len(Absent) = 0
  BY DEF Absent
<1>3. Sized(a, 6)
  BY <1>1 DEF Sized, IsSeq
<1>4. a # Absent
  BY <1>1, <1>2
<1>5. QED
  BY <1>3, <1>4

(* An optional address takes six octets or none. *)
LEMMA OptionalSized ==
  ASSUME NEW a \in Address \cup {Absent}
  PROVE  Sized(a, OptLen(a)) /\ (a # Absent => a \in Address /\ Sized(a, 6))
<1>2. CASE a \in Address
  BY <1>2, AddressSized DEF OptLen
<1>3. CASE a = Absent
  BY <1>3, SizedOctets DEF OptLen, Absent
<1>4. QED
  BY <1>2, <1>3

(* Sequence Control takes two octets or none, and is read back. *)
LEMMA SequenceSized ==
  ASSUME NEW r \in Pv1Fields
  PROVE  /\ Sized(SeqOctets(r), SeqLen(r))
         /\ r.seq # NoSeq => \A f : \A k \in Nat : Holds(f, k, SeqOctets(r)) => U16(f, k) \div 16 = r.seq
<1>1. r.seq \in Unsigned(12) \cup {NoSeq}
  BY SMT DEF Pv1Fields
<1>2. CASE r.seq = NoSeq
  BY <1>2, SizedOctets DEF SeqOctets, SeqLen
<1>3. CASE r.seq # NoSeq
  <2>1. r.seq \in Unsigned(12)
    BY <1>1, <1>3
  <2>2. IsSeqNo(r.seq)
    BY <2>1, UnsignedSeqNo
  <2>3. SeqOctets(r) = SeqControl(r.seq) /\ SeqLen(r) = 2
    BY <1>3 DEF SeqOctets, SeqLen
  <2>4. QED
    BY <2>2, <2>3, SeqReadsBack
<1>4. QED
  BY <1>2, <1>3

(* Where the parts of a header are. *)
Pv1Parts(f, r, k, l) ==
  LET m == SeqLen(r)
      p == OptLen(r.a3)
  IN /\ f[1] = Ctl1(r) /\ f[2] = Ctl2(r)
     /\ Holds(f, 2, AddrOctets(r.a1)) /\ Holds(f, 2 + k, SecondOctets(r)) /\ Holds(f, 2 + k + l, SeqOctets(r))
     /\ Holds(f, 2 + k + l + m, r.a3) /\ Holds(f, 2 + k + l + m + p, r.a4)

(* The size of the header. *)
Size(r, k, l) == 2 + k + l + SeqLen(r) + OptLen(r.a3) + OptLen(r.a4)

(* Whatever begins with the header has its parts in their places. *)
LEMMA HeaderParts ==
  ASSUME NEW r \in Pv1Fields, NEW k, Sized(AddrOctets(r.a1), k), NEW l, Sized(SecondOctets(r), l)
  PROVE  /\ Sized(Pv1Header(r), Size(r, k, l))
         /\ \A f : IsSeq(f) /\ Holds(f, 0, Pv1Header(r)) => Pv1Parts(f, r, k, l)
<1> DEFINE x == Ctl1(r)
           y == Ctl2(r)
           h == <<x, y>>
           a == AddrOctets(r.a1)
           b == SecondOctets(r)
           s == SeqOctets(r)
           m == SeqLen(r)
           c == r.a3
           d == r.a4
           p == OptLen(r.a3)
           q == OptLen(r.a4)
           g == Pv1Header(r)
<1>1. g = h \o a \o b \o s \o c \o d
  BY SMT DEF Pv1Header, Ctl1, Ctl2, Flag, SecondOctets, SeqOctets
<1>2. x \in Int /\ y \in Int
  BY ControlReadsBack
<1> HIDE DEF x, y
<1>3. Sized(h, 2)
  BY <1>2, SizedOctets
<1>4. r.a3 \in Address \cup {Absent} /\ r.a4 \in Address \cup {Absent}
  BY SMT DEF Pv1Fields
<1>5. Sized(c, p) /\ Sized(d, q)
  BY <1>4, OptionalSized
<1>6. Sized(s, m)
  BY SequenceSized
<1> HIDE DEF h, a, b, s, m, c, d, p, q, g
<1>7. Sized(a, k) /\ Sized(b, l)
  BY DEF a, b
<1>8. Pv1Layout(g, h, a, k, b, l, s, m, c, p, d, q)
  BY <1>1, <1>3, <1>5, <1>6, <1>7, LaidOut
<1>9. /\ Sized(g, 2 + k + l + m + p + q) /\ k \in Nat /\ l \in Nat /\ m \in Nat /\ p \in Nat /\ q \in Nat
      /\ Holds(g, 0, h) /\ Holds(g, 2, a) /\ Holds(g, 2 + k, b) /\ Holds(g, 2 + k + l, s)
      /\ Holds(g, 2 + k + l + m, c) /\ Holds(g, 2 + k + l + m + p, d)
  BY <1>8 DEF Pv1Layout
<1>10. IsSeq(g) /\ IsSeq(h) /\ IsSeq(a) /\ IsSeq(b) /\ IsSeq(s) /\ IsSeq(c) /\ IsSeq(d)
  BY <1>3, <1>5, <1>6, <1>7, <1>9 DEF Sized
<1>11. 2 + k \in Nat /\ 2 + k + l \in Nat /\ 2 + k + l + m \in Nat /\ 2 + k + l + m + p \in Nat
  BY <1>9
<1>12. ASSUME NEW f, IsSeq(f), Holds(f, 0, g)
       PROVE  Pv1Parts(f, r, k, l)
  <2>1. Holds(f, 0, h) /\ Holds(f, 2, a) /\ Holds(f, 2 + k, b)
    BY <1>9, <1>10, <1>11, <1>12, HoldsWithin
  <2>2. Holds(f, 2 + k + l, s)
    BY <1>9, <1>10, <1>11, <1>12, HoldsWithin
  <2>3. Holds(f, 2 + k + l + m, c)
    BY <1>9, <1>10, <1>11, <1>12, HoldsWithin
  <2>4. Holds(f, 2 + k + l + m + p, d)
    BY <1>9, <1>10, <1>11, <1>12, HoldsWithin
  <2>5. f[1] = x /\ f[2] = y
    BY <1>2, <2>1, FirstTwo DEF h
  <2>6. QED
    BY <2>1, <2>2, <2>3, <2>4, <2>5 DEF Pv1Parts, a, b, s, m, c, d, p, x, y
<1>13. Sized(g, Size(r, k, l))
  BY <1>9 DEF Size, m, p, q
<1>14. QED
  BY <1>12, <1>13 DEF g

(* What is cut off behind n elements still begins as before. *)
LEMMA PrefixHolds ==
  ASSUME NEW g, NEW n, NEW f, NEW k \in Nat, NEW s, NEW m, IsSeq(g), Sized(f, n), Holds(g, 0, f), Sized(s, m),
         Holds(g, k, s), k + m <= n
  PROVE  Holds(f, k, s)
<1>1. n \in Nat /\ m \in Nat /\ Len(f) = n /\ Len(s) = m
  BY DEF Sized
<1>2. \A i \in 1 .. n : g[i] = f[i]
  <2>1. \A i \in 1 .. n : 0 + i = i
    BY <1>1
  <2>2. \A i \in 1 .. n : g[0 + i] = f[i]
    BY <1>1 DEF Holds
  <2>3. QED
    BY <2>1, <2>2
<1>3. ASSUME NEW i \in 1 .. m
      PROVE  f[k + i] = s[i]
  <2> DEFINE j == k + i
  <2>1. j \in 1 .. n
    BY <1>1
  <2>2. g[j] = s[i]
    BY <1>1 DEF Holds
  <2> HIDE DEF j
  <2>3. f[j] = s[i]
    BY <1>2, <2>1, <2>2
  <2>4. QED
    BY <2>3 DEF j
<1>4. QED
  BY <1>1, <1>3 DEF Holds

(* A beginning cut off. *)
LEMMA CutOff ==
  ASSUME NEW g, NEW n, Sized(g, n), NEW k \in Nat, k <= n
  PROVE  Sized(SubSeq(g, 1, k), k) /\ Holds(g, 0, SubSeq(g, 1, k))
<1>1. PICK S : g \in Seq(S)
  BY DEF Sized, IsSeq
<1> DEFINE t == SubSeq(g, 1, k)
<1>2. Len(g) = n /\ n \in Nat
  BY DEF Sized
<1>3. t \in Seq(S) /\ Len(t) = k /\ \A i \in 1 .. k : t[i] = g[1 + i - 1]
  BY <1>1, <1>2
<1> HIDE DEF t
<1>4. Sized(t, k)
  BY <1>3 DEF Sized, IsSeq
<1>5. \A i \in 1 .. k : 1 + i - 1 = 0 + i
  OBVIOUS
<1>6. \A i \in 1 .. k : g[0 + i] = t[i]
  BY <1>3, <1>5
<1>7. Holds(g, 0, t)
  BY <1>2, <1>3, <1>6 DEF Holds
<1>8. QED
  BY <1>4, <1>7 DEF t

(* What IsPv1 says of each type. *)
LEMMA Pv1OfMac ==
  ASSUME NEW r, IsPv1(r), r.ptype = 3
  PROVE  r.a1 \in Macs /\ r.a2 \in Macs /\ r.seq # NoSeq /\ r.a3 = Absent /\ r.a4 = Absent
BY SMT DEF IsPv1, PV1_TYPE_QOS_DATA, PV1_TYPE_MANAGEMENT, PV1_TYPE_QOS_DATA_MAC

(* A Control frame has one Short ID and nothing optional. *)
LEMMA Pv1OfControl ==
  ASSUME NEW r, IsPv1(r), r.ptype = 2
  PROVE  r.a1 \in ShortIds /\ r.a2 = Sid(0) /\ r.seq = NoSeq /\ r.a3 = Absent /\ r.a4 = Absent
BY SMT DEF IsPv1, PV1_TYPE_QOS_DATA, PV1_TYPE_MANAGEMENT, PV1_TYPE_QOS_DATA_MAC

(* Data and Management frames have a Short ID, which tells the addresses   *)
(* that follow.                                                            *)
LEMMA Pv1OfSid ==
  ASSUME NEW r, IsPv1(r), r.ptype \in {0, 1}
  PROVE  /\ SidOf(r) \in ShortIds /\ MacOf(r) \in Macs
         /\ r.a3 = Absent <=> ~SidOf(r).a3
         /\ r.a4 = Absent <=> ~SidOf(r).a4
         /\ r.seq = NoSeq <=> r.ptype = 1 /\ r.subtype = 2
BY SMT DEF IsPv1, SidOf, MacOf, PV1_TYPE_QOS_DATA, PV1_TYPE_MANAGEMENT, PV1_TYPE_QOS_DATA_MAC

(* The types of the fields. *)
LEMMA Pv1Types ==
  ASSUME NEW r, IsPv1(r)
  PROVE  /\ r \in Pv1Fields /\ r.ptype \in 0 .. 3 /\ r.fromDs \in BOOLEAN
         /\ r.a3 \in Address \cup {Absent} /\ r.a4 \in Address \cup {Absent} /\ IsSeq(r.body)
<1>1. r \in Pv1Fields
  BY DEF IsPv1
<1>2. r.ptype \in 0 .. 3 /\ r.fromDs \in BOOLEAN
  BY SMT, <1>1 DEF Pv1Fields
<1>3. r.a3 \in Address \cup {Absent} /\ r.a4 \in Address \cup {Absent} /\ r.body \in Seq(Octet)
  BY SMT, <1>1 DEF Pv1Fields
<1>4. QED
  BY <1>1, <1>2, <1>3 DEF IsSeq

(* An address that may be absent is read if it is there. *)
LEMMA OptionalReadsBack ==
  ASSUME NEW a \in Address \cup {Absent}, NEW f, IsSeq(f), NEW k \in Nat, Holds(f, k, a)
  PROVE  (IF a = Absent THEN Absent ELSE Addr(f, k)) = a
<1>1. CASE a = Absent
  BY <1>1
<1>2. CASE a # Absent
  <2>1. Sized(a, 6)
    BY <1>2, OptionalSized
  <2>2. Addr(f, k) = a
    BY <2>1, AddrReadsBack
  <2>3. QED
    BY <1>2, <2>2
<1>3. QED
  BY <1>1, <1>2

(* A Data or Management frame is read as its fields. *)
LEMMA SidFrameReadsBack ==
  ASSUME NEW r, IsPv1(r), r.ptype \in {0, 1}, NEW f, NEW k, NEW l, k = IF r.fromDs THEN 2 ELSE 6,
         l = IF r.fromDs THEN 6 ELSE 2, IsSeq(f), Pv1Parts(f, r, k, l), ~(Len(f) < Size(r, k, l)),
         From(f, Size(r, k, l)) = r.body
  PROVE  ParsePv1(f) = r
<1> DEFINE m == SeqLen(r)
           p == OptLen(r.a3)
           q == OptLen(r.a4)
           end == 10 + m + p + q
           sid == SidOf(r)
<1>1. /\ r \in Pv1Fields /\ r.fromDs \in BOOLEAN /\ r.a3 \in Address \cup {Absent} /\ r.a4 \in Address \cup {Absent}
  BY Pv1Types
<1>2. /\ sid \in ShortIds /\ MacOf(r) \in Macs
      /\ r.a3 = Absent <=> ~sid.a3
      /\ r.a4 = Absent <=> ~sid.a4
      /\ r.seq = NoSeq <=> r.ptype = 1 /\ r.subtype = 2
  BY Pv1OfSid
<1>3. m = SeqSize(r) /\ p = A3Size(r) /\ q = A4Size(r)
  BY <1>2 DEF SeqLen, SeqSize, OptLen, A3Size, A4Size
<1>4. m \in {0, 2} /\ p \in {0, 6} /\ (m = 2) = (r.seq # NoSeq)
  <2>1. m \in {0, 2} /\ p \in {0, 6}
    BY DEF SeqLen, OptLen
  <2>2. CASE r.seq = NoSeq
    <3>1. m = 0
      BY <2>2 DEF SeqLen
    <3>2. (m = 2) = FALSE /\ (r.seq # NoSeq) = FALSE
      BY <2>2, <3>1
    <3>3. QED
      BY <2>1, <3>2
  <2>3. CASE r.seq # NoSeq
    <3>1. m = 2
      BY <2>3 DEF SeqLen
    <3>2. (m = 2) = TRUE /\ (r.seq # NoSeq) = TRUE
      BY <2>3, <3>1
    <3>3. QED
      BY <2>1, <3>2
  <2>4. QED
    BY <2>1, <2>2, <2>3
<1>5. 2 + k + l = 10 /\ k \in Nat
  BY <1>1
<1>6. Size(r, k, l) = end
  BY <1>5 DEF Size
<1>7. /\ f[1] = Ctl1(r) /\ f[2] = Ctl2(r)
      /\ Holds(f, 2, AddrOctets(r.a1)) /\ Holds(f, 2 + k, SecondOctets(r)) /\ Holds(f, 10, SeqOctets(r))
      /\ Holds(f, 10 + m, r.a3) /\ Holds(f, 10 + m + p, r.a4)
  BY <1>5 DEF Pv1Parts
<1>8. SecondOctets(r) = AddrOctets(r.a2)
  BY DEF SecondOctets
<1> HIDE DEF m, p, q, sid, end
<1>9. Sid(U16(f, SidAt(r))) = sid /\ Mac(Addr(f, MacAt(r))) = MacOf(r)
  <2>1. CASE r.fromDs
    <3>1. sid = r.a1 /\ MacOf(r) = r.a2 /\ SidAt(r) = 2 /\ MacAt(r) = 4 /\ 2 + k = 4
      BY <2>1 DEF sid, SidOf, MacOf, SidAt, MacAt
    <3>2. Holds(f, 2, AddrOctets(sid)) /\ Holds(f, 4, AddrOctets(MacOf(r)))
      BY <1>7, <1>8, <3>1
    <3>3. QED
      BY <1>2, <3>1, <3>2, MacReadsBack, ShortIdReadsBack, AddrReadsBack
  <2>2. CASE ~r.fromDs
    <3>1. sid = r.a2 /\ MacOf(r) = r.a1 /\ SidAt(r) = 8 /\ MacAt(r) = 2 /\ 2 + k = 8
      BY <2>2 DEF sid, SidOf, MacOf, SidAt, MacAt
    <3>2. Holds(f, 8, AddrOctets(sid)) /\ Holds(f, 2, AddrOctets(MacOf(r)))
      BY <1>7, <1>8, <3>1
    <3>3. QED
      BY <1>2, <3>1, <3>2, MacReadsBack, ShortIdReadsBack, AddrReadsBack
  <2>3. QED
    BY <1>1, <2>1, <2>2
<1>10. SidHeader(f, r)
  BY <1>7, <1>9 DEF SidHeader, sid
<1>11. ParsePv1(f) =
         Pv1(f, IF r.fromDs THEN sid ELSE Mac(Addr(f, 2)), IF r.fromDs THEN Mac(Addr(f, 4)) ELSE sid,
             IF sid.a3 THEN Addr(f, 10 + m) ELSE Absent, IF sid.a4 THEN Addr(f, 10 + m + p) ELSE Absent,
             IF m = 2 THEN U16(f, 10) \div 16 ELSE NoSeq, end)
  <2>1. end = 10 + m + p + q /\ ~(Len(f) < end)
    BY <1>6 DEF end
  <2>2. ParsePv1(f) =
           IF Len(f) < end THEN TooShort
           ELSE Pv1(f, IF r.fromDs THEN SidOf(r) ELSE Mac(Addr(f, 2)), IF r.fromDs THEN Mac(Addr(f, 4)) ELSE SidOf(r),
                    IF SidOf(r).a3 THEN Addr(f, 10 + m) ELSE Absent, IF SidOf(r).a4 THEN Addr(f, 10 + m + p) ELSE Absent,
                    IF m = 2 THEN U16(f, 10) \div 16 ELSE NoSeq, end)
    BY <1>1, <1>3, <1>10, <2>1, SidFrameRead
  <2>3. QED
    BY <2>1, <2>2 DEF sid
<1>12. (IF r.fromDs THEN sid ELSE Mac(Addr(f, 2))) = r.a1 /\ (IF r.fromDs THEN Mac(Addr(f, 4)) ELSE sid) = r.a2
  BY <1>1, <1>9 DEF sid, SidOf, MacOf, MacAt
<1>13. (IF sid.a3 THEN Addr(f, 10 + m) ELSE Absent) = r.a3
  <2>1. (IF r.a3 = Absent THEN Absent ELSE Addr(f, 10 + m)) = r.a3
    BY <1>1, <1>4, <1>7, OptionalReadsBack
  <2>2. QED
    BY <1>2, <2>1
<1>14. (IF sid.a4 THEN Addr(f, 10 + m + p) ELSE Absent) = r.a4
  <2>1. (IF r.a4 = Absent THEN Absent ELSE Addr(f, 10 + m + p)) = r.a4
    BY <1>1, <1>4, <1>7, OptionalReadsBack
  <2>2. QED
    BY <1>2, <2>1
<1>15. (IF m = 2 THEN U16(f, 10) \div 16 ELSE NoSeq) = r.seq
  <2>1. r.seq # NoSeq => U16(f, 10) \div 16 = r.seq
    BY <1>1, <1>7, SequenceSized
  <2>2. QED
    BY <1>4, <2>1
<1>16. From(f, end) = r.body
  BY <1>6
<1>17. ParsePv1(f) = Pv1(f, r.a1, r.a2, r.a3, r.a4, r.seq, end)
  BY <1>11, <1>12, <1>13, <1>14, <1>15
<1>18. QED
  BY <1>1, <1>7, <1>16, <1>17, Pv1Is

(* QoS Data between MAC addresses is read as its fields. *)
LEMMA MacFrameReadsBack ==
  ASSUME NEW r, IsPv1(r), r.ptype = 3, NEW f, IsSeq(f), Pv1Parts(f, r, 6, 6), ~(Len(f) < 16), From(f, 16) = r.body
  PROVE  ParsePv1(f) = r
<1>1. r \in Pv1Fields
  BY Pv1Types
<1>2. r.a1 \in Macs /\ r.a2 \in Macs /\ r.seq # NoSeq /\ r.a3 = Absent /\ r.a4 = Absent
  BY Pv1OfMac
<1>3. 2 + 6 = 8 /\ 2 + 6 + 6 = 14 /\ SecondOctets(r) = AddrOctets(r.a2)
  BY DEF SecondOctets
<1>4. /\ f[1] = Ctl1(r) /\ f[2] = Ctl2(r)
      /\ Holds(f, 2, AddrOctets(r.a1)) /\ Holds(f, 8, AddrOctets(r.a2)) /\ Holds(f, 14, SeqOctets(r))
  BY <1>3 DEF Pv1Parts
<1>5. Mac(Addr(f, 2)) = r.a1 /\ Mac(Addr(f, 8)) = r.a2
  BY <1>2, <1>4, MacReadsBack, AddrReadsBack
<1>6. U16(f, 14) \div 16 = r.seq
  BY <1>1, <1>2, <1>4, SequenceSized
<1>7. (f[1] \div 4) % 8 = 3
  BY <1>1, <1>4, ControlReadsBack
<1>8. ParsePv1(f) = Pv1(f, r.a1, r.a2, r.a3, r.a4, r.seq, 16)
  BY <1>2, <1>5, <1>6, <1>7, ParsedMacFrame
<1>9. QED
  BY <1>1, <1>4, <1>8, Pv1Is

(* A Control frame is read as its fields. *)
LEMMA ControlFrameReadsBack ==
  ASSUME NEW r, IsPv1(r), r.ptype = 2, NEW f, IsSeq(f), Pv1Parts(f, r, 2, 0), From(f, 4) = r.body
  PROVE  ParsePv1(f) = r
<1>1. r \in Pv1Fields
  BY Pv1Types
<1>2. r.a1 \in ShortIds /\ r.a2 = Sid(0) /\ r.seq = NoSeq /\ r.a3 = Absent /\ r.a4 = Absent
  BY Pv1OfControl
<1>3. f[1] = Ctl1(r) /\ f[2] = Ctl2(r) /\ Holds(f, 2, AddrOctets(r.a1))
  BY DEF Pv1Parts
<1>4. Sid(U16(f, 2)) = r.a1
  BY <1>2, <1>3, ShortIdReadsBack
<1>5. (f[1] \div 4) % 8 = 2
  BY <1>1, <1>3, ControlReadsBack
<1>6. ParsePv1(f) = Pv1(f, r.a1, r.a2, r.a3, r.a4, r.seq, 4)
  BY <1>2, <1>4, <1>5, ParsedOtherFrame
<1>7. QED
  BY <1>1, <1>3, <1>6, Pv1Is

(* Sizes of the two addresses. *)
FirstLen(r) == IF r.ptype = 3 \/ (r.ptype # 2 /\ ~r.fromDs) THEN 6 ELSE 2
SecondLen(r) == IF r.ptype = 2 THEN 0 ELSE IF r.ptype = 3 \/ r.fromDs THEN 6 ELSE 2
HeaderLen(r) == Size(r, FirstLen(r), SecondLen(r))

(* The addresses have the sizes their type says. *)
LEMMA AddressesSized ==
  ASSUME NEW r, IsPv1(r)
  PROVE  Sized(AddrOctets(r.a1), FirstLen(r)) /\ Sized(SecondOctets(r), SecondLen(r))
<1>1. r.ptype \in 0 .. 3 /\ r.fromDs \in BOOLEAN
  BY Pv1Types
<1>2. CASE r.ptype = 3
  <2>1. r.a1 \in Macs /\ r.a2 \in Macs
    BY <1>2, Pv1OfMac
  <2>2. QED
    BY <1>2, <2>1, MacReadsBack DEF FirstLen, SecondLen, SecondOctets
<1>3. CASE r.ptype = 2
  <2>1. r.a1 \in ShortIds
    BY <1>3, Pv1OfControl
  <2>2. QED
    BY <1>3, <2>1, ShortIdReadsBack, SizedOctets DEF FirstLen, SecondLen, SecondOctets
<1>4. CASE r.ptype \in {0, 1}
  <2>1. SidOf(r) \in ShortIds /\ MacOf(r) \in Macs
    BY <1>4, Pv1OfSid
  <2>2. Sized(AddrOctets(SidOf(r)), 2) /\ Sized(AddrOctets(MacOf(r)), 6)
    BY <2>1, ShortIdReadsBack, MacReadsBack
  <2>3. SecondOctets(r) = AddrOctets(r.a2) /\ r.ptype # 3 /\ r.ptype # 2
    BY <1>4 DEF SecondOctets
  <2>4. QED
    BY <1>1, <2>2, <2>3 DEF FirstLen, SecondLen, SidOf, MacOf
<1>5. QED
  BY <1>1, <1>2, <1>3, <1>4

(* A whole frame is read as its fields. *)
LEMMA WholeFrameReadsBack ==
  ASSUME NEW r, IsPv1(r), NEW f, f = Pv1Header(r) \o r.body, Len(f) >= 10
  PROVE  Parse(WithFcs(f)) = r
<1> DEFINE k == FirstLen(r)
           l == SecondLen(r)
           g == Pv1Header(r)
           n == HeaderLen(r)
           body == r.body
           b == Len(body)
<1>1. r \in Pv1Fields /\ r.ptype \in 0 .. 3 /\ r.fromDs \in BOOLEAN /\ IsSeq(body)
  BY Pv1Types
<1>2. Sized(AddrOctets(r.a1), k) /\ Sized(SecondOctets(r), l)
  BY AddressesSized
<1>3. Sized(g, n) /\ \A x : IsSeq(x) /\ Holds(x, 0, g) => Pv1Parts(x, r, k, l)
  BY <1>1, <1>2, HeaderParts DEF HeaderLen
<1>4. Sized(body, b) /\ b \in Nat /\ n \in Nat
  BY <1>1, <1>3 DEF Sized, IsSeq
<1>5. f = g \o body
  OBVIOUS
<1> HIDE DEF g, n, body, b
<1>6. Sized(f, n + b) /\ IsSeq(f) /\ Len(f) = n + b
  <2>1. Sized(g \o body, n + b)
    BY <1>3, <1>4, JoinedSeq
  <2>2. Sized(f, n + b)
    BY <1>5, <2>1
  <2>3. QED
    BY <2>2 DEF Sized
<1>7. Holds(f, n, body) /\ Holds(f, 0, g)
  <2>1. Holds(f, 0, g \o body)
    BY <1>5, <1>6, HoldsItself
  <2>2. QED
    BY <1>3, <1>4, <1>6, <2>1, PieceFound
<1>8. Pv1Parts(f, r, k, l)
  BY <1>3, <1>6, <1>7
<1>9. From(f, n) = r.body /\ ~(Len(f) < n)
  <2> DEFINE e == n + b
  <2>1. Sized(f, e) /\ e = n + b
    BY <1>6
  <2> HIDE DEF e
  <2>2. From(f, n) = body
    BY <1>4, <1>7, <2>1, RestReadsBack
  <2>3. QED
    BY <1>4, <1>6, <2>2 DEF body
<1>10. n = Size(r, k, l)
  BY DEF n, HeaderLen
<1> HIDE DEF k, l
<1>11. ParsePv1(f) = r
  <2>1. CASE r.ptype = 3
    <3>1. k = 6 /\ l = 6
      BY <2>1 DEF k, l, FirstLen, SecondLen
    <3>2. n = 16
      <4>1. r.seq # NoSeq /\ r.a3 = Absent /\ r.a4 = Absent
        BY <2>1, Pv1OfMac
      <4>2. QED
        BY <1>10, <3>1, <4>1 DEF Size, SeqLen, OptLen
    <3>3. QED
      BY <1>6, <1>8, <1>9, <2>1, <3>1, <3>2, MacFrameReadsBack
  <2>2. CASE r.ptype = 2
    <3>1. k = 2 /\ l = 0
      BY <2>2 DEF k, l, FirstLen, SecondLen
    <3>2. n = 4
      <4>1. r.seq = NoSeq /\ r.a3 = Absent /\ r.a4 = Absent
        BY <2>2, Pv1OfControl
      <4>2. QED
        BY <1>10, <3>1, <4>1 DEF Size, SeqLen, OptLen
    <3>3. QED
      BY <1>6, <1>8, <1>9, <2>2, <3>1, <3>2, ControlFrameReadsBack
  <2>3. CASE r.ptype \in {0, 1}
    <3>1. k = (IF r.fromDs THEN 2 ELSE 6) /\ l = (IF r.fromDs THEN 6 ELSE 2)
      BY <1>1, <2>3 DEF k, l, FirstLen, SecondLen
    <3>2. QED
      BY <1>6, <1>8, <1>9, <1>10, <2>3, <3>1, SidFrameReadsBack
  <2>4. QED
    BY <1>1, <2>1, <2>2, <2>3
<1>12. f[1] % 4 = 1
  BY <1>1, <1>8, ControlReadsBack DEF Pv1Parts
<1>13. Parse(WithFcs(f)) = ParseOctets(f)
  BY <1>6, ParseIs
<1>14. ~(Len(f) < 10)
  BY <1>4, <1>6
<1>15. QED
  BY <1>11, <1>12, <1>13, <1>14, ParsedPv1

(* A frame that ends within its header is refused. *)
LEMMA CutFrameIsRefused ==
  ASSUME NEW r, IsPv1(r), NEW f, f = SubSeq(Pv1Header(r), 1, Len(Pv1Header(r)) - 1), Len(f) >= 10
  PROVE  Parse(WithFcs(f)) = TooShort
<1> DEFINE k == FirstLen(r)
           l == SecondLen(r)
           g == Pv1Header(r)
           n == HeaderLen(r)
           e == n - 1
<1>1. r \in Pv1Fields /\ r.ptype \in 0 .. 3 /\ r.fromDs \in BOOLEAN
  BY Pv1Types
<1>2. Sized(AddrOctets(r.a1), k) /\ Sized(SecondOctets(r), l)
  BY AddressesSized
<1>3. Sized(g, n) /\ \A x : IsSeq(x) /\ Holds(x, 0, g) => Pv1Parts(x, r, k, l)
  BY <1>1, <1>2, HeaderParts DEF HeaderLen
<1>4. n = Size(r, k, l) /\ n \in Nat /\ Len(g) = n /\ IsSeq(g) /\ k \in {2, 6}
  BY <1>3 DEF HeaderLen, Sized, FirstLen
<1> HIDE DEF g, n, k, l
<1>5. Pv1Parts(g, r, k, l)
  BY <1>3, <1>4, HoldsItself
<1>6. e \in Nat /\ e <= n /\ e < n /\ f = SubSeq(g, 1, e)
  <2>1. n > 0
    <3> DEFINE m == SeqLen(r)
               p == OptLen(r.a3)
               q == OptLen(r.a4)
    <3>1. m \in {0, 2} /\ p \in {0, 6} /\ q \in {0, 6} /\ l \in {0, 2, 6}
      BY DEF SeqLen, OptLen, l, SecondLen
    <3>2. n = 2 + k + l + m + p + q
      BY <1>4 DEF Size
    <3> HIDE DEF m, p, q
    <3>3. QED
      BY <1>4, <3>1, <3>2
  <2>2. QED
    BY <1>4, <2>1 DEF g
<1> HIDE DEF e
<1>7. Sized(f, e) /\ Holds(g, 0, f) /\ Len(f) = e /\ IsSeq(f)
  <2>1. Sized(f, e) /\ Holds(g, 0, f)
    BY <1>3, <1>6, CutOff
  <2>2. QED
    BY <2>1 DEF Sized
<1>8. ~(e < 10) /\ ~(Len(f) < 10)
  BY <1>6, <1>7
<1>9. f[1] = Ctl1(r) /\ f[2] = Ctl2(r)
  <2>1. g[1] = Ctl1(r) /\ g[2] = Ctl2(r)
    BY <1>5 DEF Pv1Parts
  <2>2. \A i \in 1 .. e : g[0 + i] = f[i]
    BY <1>7 DEF Holds
  <2>3. 0 + 1 = 1 /\ 0 + 2 = 2 /\ 1 \in 1 .. e /\ 2 \in 1 .. e
    BY <1>6, <1>8
  <2>4. QED
    BY <2>1, <2>2, <2>3
<1>10. ParsePv1(f) = TooShort
  <2>1. CASE r.ptype = 3
    <3>1. k = 6 /\ l = 6
      BY <2>1 DEF k, l, FirstLen, SecondLen
    <3>2. n = 16
      <4>1. r.seq # NoSeq /\ r.a3 = Absent /\ r.a4 = Absent
        BY <2>1, Pv1OfMac
      <4>2. QED
        BY <1>4, <3>1, <4>1 DEF Size, SeqLen, OptLen
    <3>3. (f[1] \div 4) % 8 = 3
      BY <1>1, <1>9, <2>1, ControlReadsBack
    <3>4. QED
      BY <1>4, <1>6, <1>7, <3>2, <3>3, ParsedCutMacFrame
  <2>2. CASE r.ptype = 2
    <3>1. k = 2 /\ l = 0
      BY <2>2 DEF k, l, FirstLen, SecondLen
    <3>2. n = 4
      <4>1. r.seq = NoSeq /\ r.a3 = Absent /\ r.a4 = Absent
        BY <2>2, Pv1OfControl
      <4>2. QED
        BY <1>4, <3>1, <4>1 DEF Size, SeqLen, OptLen
    <3>3. QED
      BY <1>4, <1>6, <1>8, <3>2
  <2>3. CASE r.ptype \in {0, 1}
    <3> DEFINE sid == SidOf(r)
               at == SidAt(r)
               s == AddrOctets(sid)
               end == 10 + SeqSize(r) + A3Size(r) + A4Size(r)
    <3>1. k = (IF r.fromDs THEN 2 ELSE 6) /\ l = (IF r.fromDs THEN 6 ELSE 2)
      BY <1>1, <2>3 DEF k, l, FirstLen, SecondLen
    <3>2. /\ sid \in ShortIds
          /\ r.a3 = Absent <=> ~sid.a3
          /\ r.a4 = Absent <=> ~sid.a4
          /\ r.seq = NoSeq <=> r.ptype = 1 /\ r.subtype = 2
      BY <2>3, Pv1OfSid
    <3>3. n = end
      <4>1. SeqLen(r) = SeqSize(r) /\ OptLen(r.a3) = A3Size(r) /\ OptLen(r.a4) = A4Size(r)
        BY <3>2 DEF SeqLen, SeqSize, OptLen, A3Size, A4Size
      <4>2. 2 + k + l = 10
        BY <1>1, <3>1
      <4>3. QED
        BY <1>4, <4>1, <4>2 DEF Size
    <3>4. Holds(g, at, s) /\ at \in {2, 8} /\ SecondOctets(r) = AddrOctets(r.a2)
      <4>1. SecondOctets(r) = AddrOctets(r.a2)
        BY <2>3 DEF SecondOctets
      <4>2. Holds(g, 2, AddrOctets(r.a1)) /\ Holds(g, 2 + k, AddrOctets(r.a2))
        BY <1>5, <4>1 DEF Pv1Parts
      <4>3. CASE r.fromDs
        BY <4>1, <4>2, <4>3 DEF SidOf, SidAt
      <4>4. CASE ~r.fromDs
        <5>1. 2 + k = 8
          BY <3>1, <4>4
        <5>2. QED
          BY <4>1, <4>2, <4>4, <5>1 DEF SidOf, SidAt
      <4>5. QED
        BY <1>1, <4>3, <4>4
    <3> HIDE DEF at, s, end
    <3>5. Sized(s, 2)
      BY <3>2, ShortIdReadsBack DEF s
    <3>6. Holds(f, at, s)
      <4>1. at \in Nat /\ at + 2 <= e
        BY <1>6, <1>8, <3>4
      <4>2. QED
        BY <1>4, <1>7, <3>4, <3>5, <4>1, PrefixHolds
    <3>7. Sid(U16(f, at)) = sid
      <4>1. at \in Nat
        BY <3>4
      <4>2. QED
        BY <3>2, <3>6, <4>1, ShortIdReadsBack DEF s
    <3>8. SidHeader(f, r)
      BY <1>9, <3>7 DEF SidHeader, at
    <3>9. Len(f) < end
      BY <1>4, <1>6, <1>7, <3>3
    <3>10. QED
      BY <1>1, <2>3, <3>8, <3>9, SidFrameRead DEF end
  <2>4. QED
    BY <1>1, <2>1, <2>2, <2>3
<1>11. f[1] % 4 = 1
  BY <1>1, <1>9, ControlReadsBack
<1>12. Parse(WithFcs(f)) = ParseOctets(f)
  BY <1>7, ParseIs
<1>13. QED
  BY <1>8, <1>10, <1>11, <1>12, ParsedPv1

(* NDPs by type. *)
LEMMA NdpTypes ==
  TYPE_CTS_CF_END = 0 /\ TYPE_ACK = 2 /\ TYPE_BLOCK_ACK = 4
BY DEF TYPE_CTS_CF_END, TYPE_ACK, TYPE_BLOCK_ACK

(* An NDP CTS. *)
LEMMA ParsedNdpCts ==
  ASSUME NEW b, NdpField(b, 0, 3) = TYPE_CTS_CF_END, b[4] = 0
  PROVE  ParseNdp(b) = [kind |-> "cts", indicator |-> b[5], ra |-> NdpField(b, 5, 9), duration |-> NdpField(b, 14, 15),
                        early |-> b[30], bandwidth |-> NdpField(b, 30, 3)]
<1>1. TYPE_CTS_CF_END # TYPE_ACK /\ TYPE_CTS_CF_END # TYPE_BLOCK_ACK
  BY NdpTypes
<1>2. QED
  BY Zenon, <1>1 DEF ParseNdp

(* An NDP Ack. *)
LEMMA ParsedNdpAck ==
  ASSUME NEW b, NdpField(b, 0, 3) = TYPE_ACK
  PROVE  ParseNdp(b) = [kind |-> "ack", id |-> NdpField(b, 3, 16), more |-> b[20], idle |-> b[21],
                        duration |-> NdpField(b, 21, 14), relayed |-> b[36]]
<1>1. TYPE_CTS_CF_END # TYPE_ACK /\ TYPE_ACK # TYPE_BLOCK_ACK
  BY NdpTypes
<1>2. QED
  BY Zenon, <1>1 DEF ParseNdp

(* An NDP BlockAck, its protection taken off. *)
LEMMA ParsedNdpBlockAck ==
  ASSUME NEW b, NdpField(b, 0, 3) = 4, NEW bitmap, bitmap = SubSeq(b, 22, 37), NEW plain, plain = Protect(b, bitmap)
  PROVE  ParseNdp(b) = [kind |-> "block ack", id |-> Value(SubSeq(plain, 4, 9)), ssn |-> Value(SubSeq(plain, 10, 21)),
                        bitmap |-> bitmap]
BY SMT DEF ParseNdp, TYPE_CTS_CF_END, TYPE_ACK, TYPE_BLOCK_ACK

(* Any other NDP is kept as its body. *)
LEMMA ParsedNdpOther ==
  ASSUME NEW b, NdpField(b, 0, 3) # 2, NdpField(b, 0, 3) # 4, NdpField(b, 0, 3) = 0 => b[4] # 0
  PROVE  ParseNdp(b) = [kind |-> "other", body |-> b]
BY SMT DEF ParseNdp, TYPE_CTS_CF_END, TYPE_ACK, TYPE_BLOCK_ACK

(* A word of n bits. *)
LEMMA WordSized ==
  ASSUME NEW n \in Nat, NEW w \in Word(n)
  PROVE  Sized(w, n)
BY DEF Sized, IsSeq, Word

(* x fits in n bits. *)
Fits(x, n) == x \in Nat /\ x < 2^n /\ n \in 0 .. 20

(* The values of a field fit in it. *)
LEMMA UnsignedFits ==
  ASSUME NEW n \in 0 .. 20, NEW x \in Unsigned(n)
  PROVE  Fits(x, n)
<1> DEFINE p == 2^n
<1>1. p \in Nat /\ p > 0
  BY PowersOfTwo
<1>2. x \in 0 .. p - 1
  BY DEF Unsigned
<1> HIDE DEF p
<1>3. x \in Nat /\ x < p
  BY <1>1, <1>2
<1>4. QED
  BY <1>3 DEF Fits, p

(* The type of an NDP has three bits. *)
LEMMA SmallFits ==
  ASSUME NEW x \in 0 .. 7
  PROVE  Fits(x, 3)
<1>1. 2^3 = 8
  OBVIOUS
<1>2. QED
  BY <1>1 DEF Fits

(* A number is read back wherever its bits stand (bits). *)
LEMMA FieldIsRead ==
  ASSUME NEW x, NEW n, Fits(x, n)
  PROVE  /\ Sized(Uint(x, n), n)
         /\ \A b : \A lo \in Nat : IsSeq(b) /\ Holds(b, lo, Uint(x, n)) => NdpField(b, lo, n) = x
<1> DEFINE u == Uint(x, n)
<1>1. n \in 0 .. 20 /\ x \in Nat /\ x < 2^n /\ n \in Nat
  BY DEF Fits
<1>2. Value(u) = x
  BY <1>1, UintReadsBack
<1>3. Sized(u, n)
  <2>1. n \in 0 .. 21
    BY <1>1
  <2>2. u \in Word(n)
    BY <1>1, <2>1, UintWord
  <2>3. QED
    BY <1>1, <2>2, WordSized
<1> HIDE DEF u
<1>4. ASSUME NEW b, NEW lo \in Nat, IsSeq(b), Holds(b, lo, u)
      PROVE  NdpField(b, lo, n) = x
  <2> DEFINE i == lo + 1
             j == lo + n
  <2>1. StandsIn(b, i, j, u)
    BY <1>3, <1>4 DEF StandsIn, Sized
  <2> HIDE DEF i, j
  <2>2. SubSeq(b, i, j) = u
    BY <2>1, FieldCut
  <2>3. QED
    BY <1>2, <2>2 DEF NdpField, i, j
<1>5. QED
  BY <1>3, <1>4 DEF u

(* A piece behind a header. *)
LEMMA OnePiece ==
  ASSUME NEW h, NEW n, Sized(h, n), NEW s, NEW m, Sized(s, m)
  PROVE  Sized(h \o s, n + m) /\ Holds(h \o s, 0, h) /\ Holds(h \o s, n, s)
<1> DEFINE f == h \o s
<1>1. Sized(f, n + m) /\ IsSeq(f)
  <2>1. Sized(f, n + m)
    BY JoinedSeq
  <2>2. QED
    BY <2>1 DEF Sized
<1>2. Holds(f, 0, h \o s)
  BY <1>1, HoldsItself
<1> HIDE DEF f
<1>3. Holds(f, 0, h) /\ Holds(f, n, s)
  BY <1>1, <1>2, PieceFound
<1>4. QED
  BY <1>1, <1>3 DEF f

(* Two elements that stand behind the first k. *)
LEMMA TwoAt ==
  ASSUME NEW f, NEW k \in Nat, NEW x, NEW y, Holds(f, k, <<x, y>>)
  PROVE  f[k + 1] = x /\ f[k + 2] = y
<1> DEFINE h == <<x, y>>
<1>1. Len(h) = 2 /\ h[1] = x /\ h[2] = y
  OBVIOUS
<1>2. Holds(f, k, h)
  OBVIOUS
<1> HIDE DEF h
<1>3. \A i \in 1 .. 2 : f[k + i] = h[i]
  BY <1>1, <1>2 DEF Holds
<1>4. 1 \in 1 .. 2 /\ 2 \in 1 .. 2
  OBVIOUS
<1>5. QED
  BY <1>1, <1>3, <1>4

(* Bodies by kind. *)
LEMMA BodyOfCts ==
  ASSUME NEW n, n.kind = "cts"
  PROVE  NdpToBody(n) = Uint(TYPE_CTS_CF_END, 3) \o <<0, n.indicator>> \o Uint(n.ra, 9) \o Uint(n.duration, 15)
                        \o <<n.early>> \o Uint(n.bandwidth, 3) \o Zeros(4)
BY Zenon DEF NdpToBody

(* The body of an NDP Ack. *)
LEMMA BodyOfAck ==
  ASSUME NEW n, n.kind = "ack"
  PROVE  NdpToBody(n) = Uint(TYPE_ACK, 3) \o Uint(n.id, 16) \o <<n.more, n.idle>> \o Uint(n.duration, 14)
                        \o <<n.relayed, 0>>
BY Zenon DEF NdpToBody

(* The body of an NDP BlockAck. *)
LEMMA BodyOfBlockAck ==
  ASSUME NEW n, n.kind = "block ack"
  PROVE  NdpToBody(n) = Protect(Uint(TYPE_BLOCK_ACK, 3) \o Uint(n.id, 6) \o Uint(n.ssn, 12) \o n.bitmap, n.bitmap)
BY Zenon DEF NdpToBody

(* The body of any other NDP. *)
LEMMA BodyOfOther ==
  ASSUME NEW n, n.kind = "other"
  PROVE  NdpToBody(n) = n.body
BY Zenon DEF NdpToBody

(* One bit, and two. *)
LEMMA BitPair ==
  ASSUME NEW x \in B, NEW y \in B
  PROVE  Sized(<<x, y>>, 2) /\ Sized(<<x>>, 1)
<1> DEFINE s == <<x, y>>
           t == <<x>>
<1>1. s \in Seq(B) /\ Len(s) = 2 /\ t \in Seq(B) /\ Len(t) = 1
  <2> HIDE DEF B
  <2>1. QED
    OBVIOUS
<1> HIDE DEF s, t
<1>2. Sized(s, 2) /\ Sized(t, 1)
  BY <1>1 DEF Sized, IsSeq
<1>3. QED
  BY <1>2 DEF s, t

(* Reserved bits. *)
LEMMA ZerosSized ==
  ASSUME NEW n \in Nat
  PROVE  Sized(Zeros(n), n)
<1>1. Zeros(n) \in [1 .. n -> B]
  BY DEF Zeros, B
<1>2. QED
  BY <1>1, WordOf, WordSized

(* An NDP CTS is read as it was built. *)
LEMMA CtsReadsBack ==
  ASSUME NEW n \in NdpCts
  PROVE  ParseNdp(NdpToBody(n)) = n
<1> DEFINE h == Uint(0, 3)
           i == <<0, n.indicator>>
           r == Uint(n.ra, 9)
           d == Uint(n.duration, 15)
           e == <<n.early>>
           w == Uint(n.bandwidth, 3)
           z == Zeros(4)
           x == h \o i \o r \o d
           b == x \o e \o w \o z
<1>1. /\ n.indicator \in B /\ n.ra \in Unsigned(9) /\ n.early \in B /\ n.bandwidth \in Unsigned(3) /\ n.kind = "cts"
      /\ n.duration \in Unsigned(15)
  BY DEF NdpCts, B
<1>2. n = [kind |-> "cts", indicator |-> n.indicator, ra |-> n.ra, duration |-> n.duration, early |-> n.early,
           bandwidth |-> n.bandwidth]
  BY DEF NdpCts
<1>3. NdpToBody(n) = b
  BY <1>1, BodyOfCts, NdpTypes
<1>4. Fits(0, 3) /\ Fits(n.ra, 9) /\ Fits(n.bandwidth, 3) /\ Fits(n.duration, 15)
  <2>1. 0 \in 0 .. 7 /\ 9 \in 0 .. 20 /\ 3 \in 0 .. 20 /\ 15 \in 0 .. 20
    OBVIOUS
  <2>2. QED
    BY <1>1, <2>1, SmallFits, UnsignedFits
<1>5. Sized(h, 3) /\ Sized(r, 9) /\ Sized(d, 15) /\ Sized(w, 3)
  BY <1>4, FieldIsRead
<1>6. Sized(i, 2) /\ Sized(e, 1) /\ Sized(z, 4)
  <2>1. 0 \in B
    BY DEF B
  <2>2. QED
    BY <1>1, <2>1, BitPair, ZerosSized
<1> HIDE DEF h, i, r, d, e, w, z
<1>7. Three(x, h, 3, i, 2, r, 9, d, 15)
  BY <1>5, <1>6, ThreePieces
<1> HIDE DEF x
<1>8. /\ Sized(x, 29) /\ IsSeq(x) /\ Holds(x, 0, h) /\ Holds(x, 3, i) /\ Holds(x, 5, r) /\ Holds(x, 14, d)
  BY <1>7 DEF Three, Sized
<1>9. Three(b, x, 29, e, 1, w, 3, z, 4)
  BY <1>5, <1>6, <1>8, ThreePieces
<1> HIDE DEF b
<1>10. IsSeq(b) /\ Holds(b, 0, x) /\ Holds(b, 29, e) /\ Holds(b, 30, w)
  BY <1>9 DEF Three, Sized
<1>11. IsSeq(h) /\ IsSeq(i) /\ IsSeq(r) /\ IsSeq(d)
  BY <1>5, <1>6 DEF Sized
<1>12. Holds(b, 0, h) /\ Holds(b, 3, i) /\ Holds(b, 5, r) /\ Holds(b, 14, d)
  BY <1>8, <1>10, <1>11, HoldsWithin
<1>13. /\ NdpField(b, 0, 3) = 0 /\ NdpField(b, 5, 9) = n.ra /\ NdpField(b, 14, 15) = n.duration
       /\ NdpField(b, 30, 3) = n.bandwidth
  BY <1>4, <1>10, <1>12, FieldIsRead DEF h, r, d, w
<1>14. b[4] = 0 /\ b[5] = n.indicator
  <2>1. b[3 + 1] = 0 /\ b[3 + 2] = n.indicator
    BY <1>12, TwoAt DEF i
  <2>2. QED
    BY <2>1
<1>15. b[30] = n.early
  <2>1. Len(e) = 1 /\ e[1] = n.early
    BY DEF e
  <2>2. \A j \in 1 .. 1 : b[29 + j] = e[j]
    BY <1>10, <2>1 DEF Holds
  <2>3. 29 + 1 = 30 /\ 1 \in 1 .. 1
    OBVIOUS
  <2>4. QED
    BY <2>1, <2>2, <2>3
<1>16. ParseNdp(b) = [kind |-> "cts", indicator |-> b[5], ra |-> NdpField(b, 5, 9), duration |-> NdpField(b, 14, 15),
                      early |-> b[30], bandwidth |-> NdpField(b, 30, 3)]
  BY <1>13, <1>14, NdpTypes, ParsedNdpCts
<1>17. ParseNdp(b) = n
  BY <1>2, <1>13, <1>14, <1>15, <1>16
<1>18. QED
  BY <1>3, <1>17

(* An NDP Ack is read as it was built. *)
LEMMA AckReadsBack ==
  ASSUME NEW n \in NdpAck
  PROVE  ParseNdp(NdpToBody(n)) = n
<1> DEFINE h == Uint(2, 3)
           i == Uint(n.id, 16)
           m == <<n.more, n.idle>>
           d == Uint(n.duration, 14)
           e == <<n.relayed, 0>>
           x == h \o i \o m \o d
           b == x \o e
<1>1. /\ n.more \in B /\ n.idle \in B /\ n.relayed \in B /\ n.kind = "ack"
      /\ n.id \in Unsigned(16) /\ n.duration \in Unsigned(14)
  BY DEF NdpAck, B
<1>2. n = [kind |-> "ack", id |-> n.id, more |-> n.more, idle |-> n.idle, duration |-> n.duration, relayed |-> n.relayed]
  BY DEF NdpAck
<1>3. NdpToBody(n) = b
  BY <1>1, BodyOfAck, NdpTypes
<1>4. Fits(2, 3) /\ Fits(n.id, 16) /\ Fits(n.duration, 14)
  <2>1. 2 \in 0 .. 7 /\ 16 \in 0 .. 20 /\ 14 \in 0 .. 20
    OBVIOUS
  <2>2. QED
    BY <1>1, <2>1, SmallFits, UnsignedFits
<1>5. Sized(h, 3) /\ Sized(i, 16) /\ Sized(d, 14)
  BY <1>4, FieldIsRead
<1>6. Sized(m, 2) /\ Sized(e, 2)
  <2>1. 0 \in B
    BY DEF B
  <2>2. QED
    BY <1>1, <2>1, BitPair
<1> HIDE DEF h, i, m, d, e
<1>7. Three(x, h, 3, i, 16, m, 2, d, 14)
  BY <1>5, <1>6, ThreePieces
<1> HIDE DEF x
<1>8. Sized(x, 35) /\ IsSeq(x) /\ Holds(x, 0, h) /\ Holds(x, 3, i) /\ Holds(x, 19, m) /\ Holds(x, 21, d)
  BY <1>7 DEF Three, Sized
<1>9. Sized(b, 37) /\ Holds(b, 0, x) /\ Holds(b, 35, e)
  BY <1>6, <1>8, OnePiece
<1> HIDE DEF b
<1>10. IsSeq(b) /\ IsSeq(h) /\ IsSeq(i) /\ IsSeq(m) /\ IsSeq(d)
  BY <1>5, <1>6, <1>9 DEF Sized
<1>11. Holds(b, 0, h) /\ Holds(b, 3, i) /\ Holds(b, 19, m) /\ Holds(b, 21, d)
  BY <1>8, <1>9, <1>10, HoldsWithin
<1>12. NdpField(b, 0, 3) = 2 /\ NdpField(b, 3, 16) = n.id /\ NdpField(b, 21, 14) = n.duration
  BY <1>4, <1>10, <1>11, FieldIsRead DEF h, i, d
<1>13. b[20] = n.more /\ b[21] = n.idle /\ b[36] = n.relayed
  <2>1. b[19 + 1] = n.more /\ b[19 + 2] = n.idle
    BY <1>11, TwoAt DEF m
  <2>2. b[35 + 1] = n.relayed
    BY <1>9, TwoAt DEF e
  <2>3. QED
    BY <2>1, <2>2
<1>14. ParseNdp(b) = [kind |-> "ack", id |-> NdpField(b, 3, 16), more |-> b[20], idle |-> b[21],
                      duration |-> NdpField(b, 21, 14), relayed |-> b[36]]
  BY <1>12, NdpTypes, ParsedNdpAck
<1>15. ParseNdp(b) = n
  BY <1>2, <1>12, <1>13, <1>14
<1>16. QED
  BY <1>3, <1>15

(* Protection undoes itself, and leaves the type and the bitmap alone.     *)
LEMMA ProtectTwice ==
  ASSUME NEW w \in Word(37), NEW bm \in [1 .. 16 -> B]
  PROVE  /\ Protect(w, bm) \in Word(37)
         /\ \A i \in 1 .. 37 : i \notin 4 .. 19 => Protect(w, bm)[i] = w[i]
         /\ Protect(Protect(w, bm), bm) = w
<1> DEFINE b == Protect(w, bm)
<1>1. w \in [1 .. 37 -> B]
  BY DEF Word
<1>2. b = [i \in 1 .. 37 |-> IF i \in 4 .. 19 THEN Xor(w[i], bm[i - 3]) ELSE w[i]]
  BY DEF Protect
<1>3. Protect(b, bm) = [i \in 1 .. 37 |-> IF i \in 4 .. 19 THEN Xor(b[i], bm[i - 3]) ELSE b[i]]
  BY DEF Protect
<1> HIDE DEF b
<1>4. \A x, y \in B : Xor(x, y) \in B /\ Xor(Xor(x, y), y) = x
  BY DEF B, Xor
<1>5. ASSUME NEW i \in 1 .. 37
      PROVE  b[i] \in B /\ Protect(b, bm)[i] = w[i]
  <2>1. w[i] \in B
    BY <1>1
  <2>2. CASE i \in 4 .. 19
    <3>1. bm[i - 3] \in B
      <4>1. i - 3 \in 1 .. 16
        BY <2>2
      <4>2. QED
        BY <4>1
    <3>2. b[i] = Xor(w[i], bm[i - 3]) /\ Protect(b, bm)[i] = Xor(b[i], bm[i - 3])
      BY <1>2, <1>3, <2>2
    <3>3. QED
      BY <1>4, <2>1, <3>1, <3>2
  <2>3. CASE i \notin 4 .. 19
    BY <1>2, <1>3, <2>1, <2>3
  <2>4. QED
    BY <2>2, <2>3
<1>6. b \in Word(37)
  <2>1. b \in [1 .. 37 -> B]
    BY <1>2, <1>5
  <2>2. QED
    BY <2>1, WordOf
<1>7. Protect(b, bm) = w
  <2>1. Protect(b, bm) \in [1 .. 37 -> B]
    BY <1>1, <1>3, <1>5
  <2>2. QED
    BY <1>1, <1>5, <2>1
<1>8. \A i \in 1 .. 37 : i \notin 4 .. 19 => b[i] = w[i]
  BY <1>2
<1>9. QED
  BY <1>6, <1>7, <1>8 DEF b

(* An NDP BlockAck is read as it was built: its bitmap, which is not       *)
(* protected, takes the protection off.                                    *)
LEMMA BlockAckReadsBack ==
  ASSUME NEW n \in NdpBlockAck
  PROVE  ParseNdp(NdpToBody(n)) = n
<1> DEFINE h == Uint(4, 3)
           i == Uint(n.id, 6)
           s == Uint(n.ssn, 12)
           m == n.bitmap
           w == h \o i \o s \o m
           b == Protect(w, m)
<1>1. n.kind = "block ack" /\ n.id \in Unsigned(6) /\ n.ssn \in Unsigned(12) /\ m \in [1 .. 16 -> B]
  BY DEF NdpBlockAck, B
<1>2. n = [kind |-> "block ack", id |-> n.id, ssn |-> n.ssn, bitmap |-> m]
  BY DEF NdpBlockAck
<1>3. NdpToBody(n) = b
  BY <1>1, BodyOfBlockAck, NdpTypes
<1>4. Fits(4, 3) /\ Fits(n.id, 6) /\ Fits(n.ssn, 12)
  <2>1. 4 \in 0 .. 7 /\ 6 \in 0 .. 20 /\ 12 \in 0 .. 20
    OBVIOUS
  <2>2. QED
    BY <1>1, <2>1, SmallFits, UnsignedFits
<1>5. Sized(h, 3) /\ Sized(i, 6) /\ Sized(s, 12) /\ h \in Word(3) /\ i \in Word(6) /\ s \in Word(12)
  <2>1. Sized(h, 3) /\ Sized(i, 6) /\ Sized(s, 12)
    BY <1>4, FieldIsRead
  <2>2. 4 \in Nat /\ n.id \in Nat /\ n.ssn \in Nat
    BY <1>4 DEF Fits
  <2>3. 3 \in 0 .. 21 /\ 6 \in 0 .. 21 /\ 12 \in 0 .. 21
    OBVIOUS
  <2>4. QED
    BY <2>1, <2>2, <2>3, UintWord
<1>6. m \in Word(16) /\ Sized(m, 16)
  BY <1>1, WordOf, WordSized
<1> HIDE DEF h, i, s, m
<1>7. Three(w, h, 3, i, 6, s, 12, m, 16)
  BY <1>5, <1>6, ThreePieces
<1>8. w \in Word(37)
  <2>1. h \o i \in Word(9)
    BY <1>5, Joined
  <2>2. (h \o i) \o s \in Word(21)
    BY <1>5, <2>1, Joined
  <2>3. QED
    BY <1>6, <2>2, Joined
<1> HIDE DEF w
<1>9. /\ b \in Word(37) /\ Protect(b, m) = w
      /\ \A j \in 1 .. 37 : j \notin 4 .. 19 => b[j] = w[j]
  BY <1>1, <1>8, ProtectTwice
<1> HIDE DEF b
<1>10. /\ Sized(w, 37) /\ IsSeq(w) /\ Holds(w, 0, h) /\ Holds(w, 3, i) /\ Holds(w, 9, s) /\ Holds(w, 21, m)
  BY <1>7 DEF Three, Sized
<1>11. Sized(b, 37) /\ IsSeq(b) /\ Len(b) = 37 /\ IsSeq(m) /\ Len(m) = 16 /\ Len(h) = 3
  BY <1>5, <1>6, <1>9, WordSized DEF Sized
<1>12. Holds(b, 0, h)
  <2>1. ASSUME NEW j \in 1 .. 3
        PROVE  b[0 + j] = h[j]
    <3>1. w[0 + j] = h[j]
      BY <1>10, <1>11 DEF Holds
    <3>2. 0 + j = j /\ j \in 1 .. 37 /\ j \notin 4 .. 19
      OBVIOUS
    <3>3. QED
      BY <1>9, <3>1, <3>2
  <2>2. QED
    BY <1>11, <2>1 DEF Holds
<1>13. Holds(b, 21, m)
  <2>1. ASSUME NEW j \in 1 .. 16
        PROVE  b[21 + j] = m[j]
    <3> DEFINE k == 21 + j
    <3>1. w[k] = m[j]
      BY <1>10, <1>11 DEF Holds
    <3>2. k \in 1 .. 37 /\ k \notin 4 .. 19
      OBVIOUS
    <3> HIDE DEF k
    <3>3. b[k] = m[j]
      BY <1>9, <3>1, <3>2
    <3>4. QED
      BY <3>3 DEF k
  <2>2. QED
    BY <1>11, <2>1 DEF Holds
<1>14. NdpField(b, 0, 3) = TYPE_BLOCK_ACK
  BY <1>4, <1>11, <1>12, FieldIsRead, NdpTypes DEF h
<1>15. SubSeq(b, 22, 37) = m
  <2>1. 22 = 21 + 1 /\ 37 = 21 + 16 /\ 21 \in Nat
    OBVIOUS
  <2>2. StandsIn(b, 22, 37, m)
    BY <1>11, <1>13, <2>1 DEF StandsIn
  <2>3. QED
    BY <2>2, FieldCut
<1>16. Value(SubSeq(w, 4, 9)) = n.id /\ Value(SubSeq(w, 10, 21)) = n.ssn
  <2>1. NdpField(w, 3, 6) = n.id /\ NdpField(w, 9, 12) = n.ssn
    BY <1>4, <1>10, FieldIsRead DEF i, s
  <2>2. 3 + 1 = 4 /\ 3 + 6 = 9 /\ 9 + 1 = 10 /\ 9 + 12 = 21
    OBVIOUS
  <2>3. QED
    BY <2>1, <2>2 DEF NdpField
<1>17. ParseNdp(b) = [kind |-> "block ack", id |-> Value(SubSeq(w, 4, 9)), ssn |-> Value(SubSeq(w, 10, 21)), bitmap |-> m]
  <2>1. m = SubSeq(b, 22, 37) /\ w = Protect(b, m) /\ NdpField(b, 0, 3) = 4
    BY <1>9, <1>14, <1>15, NdpTypes
  <2>2. QED
    BY <2>1, ParsedNdpBlockAck
<1>18. ParseNdp(b) = n
  BY <1>2, <1>16, <1>17
<1>19. QED
  BY <1>3, <1>18

(* Another NDP is read as it was built. *)
LEMMA OtherReadsBack ==
  ASSUME NEW n, IsOtherNdp(n)
  PROVE  ParseNdp(NdpToBody(n)) = n
<1> DEFINE b == n.body
<1>1. n \in [kind : {"other"}, body : [1 .. 37 -> B]]
  BY DEF IsOtherNdp, B
<1>2. n = [kind |-> "other", body |-> b] /\ n.kind = "other"
  BY <1>1
<1>3. NdpToBody(n) = b
  BY <1>2, BodyOfOther
<1>4. NdpField(b, 0, 3) # 2 /\ NdpField(b, 0, 3) # 4 /\ (NdpField(b, 0, 3) = 0 => b[4] # 0)
  BY NdpTypes DEF IsOtherNdp
<1>5. ParseNdp(b) = [kind |-> "other", body |-> b]
  BY <1>4, ParsedNdpOther
<1>6. QED
  BY <1>2, <1>3, <1>5

(* Every NDP is read as it was built (NdpFrame::to_body, parse). *)
LEMMA NdpReadsBack ==
  ASSUME NEW n, IsNdpFrame(n)
  PROVE  ParseNdp(NdpToBody(n)) = n
<1>1. CASE n \in NdpCts
  BY <1>1, CtsReadsBack
<1>2. CASE n \in NdpAck
  BY <1>2, AckReadsBack
<1>3. CASE n \in NdpBlockAck
  BY <1>3, BlockAckReadsBack
<1>4. CASE IsOtherNdp(n)
  BY <1>4, OtherReadsBack
<1>5. QED
  BY <1>1, <1>2, <1>3, <1>4 DEF IsNdpFrame

(* The addresses of the stations, and of all of them. *)
LEMMA StationAddresses ==
  \A a \in {Own, Peer, Stranger, BROADCAST} : a \in Address /\ Sized(a, 6)
<1>1. Own \in Address /\ Peer \in Address /\ Stranger \in Address
  BY SMT DEF Own, Peer, Stranger, Address, Octet
<1>2. BROADCAST \in Address
  BY SMT DEF BROADCAST, WILDCARD_BSSID, Address, Octet
<1>3. QED
  BY <1>1, <1>2, AddressSized

(* The body of the host's payload. *)
LEMMA PayloadBody ==
  ASSUME NEW p \in Payloads
  PROVE  ToBody(SubSeq(p, 1, 2), From(p, 2)) \in Seq(Octet)
<1>1. p \in Seq(Octet) /\ Len(p) >= 2
  BY PayloadAssumption
<1>2. SubSeq(p, 1, 2) \in Seq(Octet)
  <2> HIDE DEF Octet
  <2>1. QED
    BY <1>1
<1>3. From(p, 2) \in Seq(Octet)
  BY <1>1 DEF From
<1>4. LLC_SNAP \in Seq(Octet)
  BY SMT DEF LLC_SNAP, Octet
<1>5. QED
  BY <1>2, <1>3, <1>4 DEF ToBody

(* An Ethernet frame is taken apart. *)
LEMMA EthernetParsed ==
  ASSUME NEW dest, Sized(dest, 6), NEW src, Sized(src, 6), NEW p, NEW n, Sized(p, n), n >= 2
  PROVE  LET e == ParseEthernet(dest \o src \o p)
         IN /\ Sized(e.dest, 6) /\ Sized(e.src, 6)
            /\ IsSeq(ToBody(e.ethertype, e.payload))
<1> DEFINE x == dest \o src
           f == x \o p
           e == ParseEthernet(f)
<1>1. Sized(x, 12) /\ Holds(x, 0, dest) /\ Holds(x, 6, src)
  BY OnePiece
<1> HIDE DEF x
<1>2. Sized(f, 12 + n) /\ Holds(f, 0, x)
  BY <1>1, OnePiece
<1> HIDE DEF f
<1>3. IsSeq(f) /\ IsSeq(x) /\ IsSeq(dest) /\ IsSeq(src) /\ Len(f) = 12 + n /\ n \in Nat
  BY <1>1, <1>2 DEF Sized
<1>4. Holds(f, 0, dest) /\ Holds(f, 6, src)
  BY <1>1, <1>2, <1>3, HoldsWithin
<1>5. Addr(f, 0) = dest /\ Addr(f, 6) = src
  BY <1>3, <1>4, AddrReadsBack
<1>6. e.dest = dest /\ e.src = src /\ e.ethertype = SubSeq(f, 13, 14) /\ e.payload = From(f, 14)
  BY <1>5 DEF ParseEthernet
<1>7. IsSeq(ToBody(e.ethertype, e.payload))
  <2>1. PICK S : f \in Seq(S)
    BY <1>3 DEF IsSeq
  <2> DEFINE s == SubSeq(f, 13, 14)
             t == From(f, 14)
  <2>2. s \in Seq(S) /\ t \in Seq(S)
    BY <1>3, <2>1 DEF From
  <2>3. LLC_SNAP \in Seq(Int)
    BY SMT DEF LLC_SNAP
  <2> DEFINE T == S \cup Int
  <2> HIDE DEF s, t
  <2>4. s \in Seq(T) /\ t \in Seq(T) /\ LLC_SNAP \in Seq(T)
    BY <2>2, <2>3
  <2> HIDE DEF T
  <2>5. LLC_SNAP \o s \o t \in Seq(T)
    BY <2>4
  <2>6. QED
    BY <1>6, <2>5 DEF ToBody, IsSeq, s, t
<1>8. QED
  BY <1>6, <1>7 DEF f, x

(* A built MPDU is read as its fields. *)
IsDataFields(f) ==
  \E dest, src, seq, retry, duration, tid, body :
    /\ f = DataFields(dest, src, seq, retry, duration, tid, body)
    /\ Sized(dest, 6) /\ Sized(src, 6) /\ IsSeqNo(seq) /\ retry \in BOOLEAN /\ IsDuration(duration)
    /\ tid \in {NoTid} \cup (0 .. 15) /\ IsSeq(body)

(* An MPDU built of such fields is read as them. *)
LEMMA MpduReadsBack ==
  ASSUME NEW f, IsDataFields(f)
  PROVE  Parse(BuildMpdu(f)) = f
<1>1. PICK dest, src, seq, retry, duration, tid, body :
        /\ f = DataFields(dest, src, seq, retry, duration, tid, body)
        /\ Sized(dest, 6) /\ Sized(src, 6) /\ IsSeqNo(seq) /\ retry \in BOOLEAN /\ IsDuration(duration)
        /\ tid \in {NoTid} \cup (0 .. 15) /\ IsSeq(body)
  BY DEF IsDataFields
<1>2. BuildMpdu(f) = BuildData(dest, src, seq, retry, duration, tid, body)
  <2>1. /\ f.dest = dest /\ f.src = src /\ f.seq = seq /\ f.retry = retry /\ f.duration = duration
        /\ f.tid = tid /\ f.body = body
    BY <1>1 DEF DataFields
  <2>2. QED
    BY <2>1 DEF BuildMpdu
<1>3. Sized(body, Len(body))
  BY <1>1 DEF Sized, IsSeq
<1>4. QED
  BY <1>1, <1>2, <1>3, DataReadsBack

(* The fields of a batch are fields of Data frames. *)
LEMMA BatchFields ==
  ASSUME NEW dest \in {Peer, Stranger, BROADCAST}, NEW n \in Nat, NEW batch \in [1 .. n -> Payloads],
         NEW seq \in Unsigned(12), NEW qos \in BOOLEAN, NEW retry \in BOOLEAN, NEW duration, IsDuration(duration),
         NEW i \in 1 .. n
  PROVE  LET eth == [k \in 1 .. n |-> dest \o Own \o batch[k]]
         IN IsDataFields(Fields(eth, seq, qos, retry, duration)[i])
<1> DEFINE eth == [k \in 1 .. n |-> dest \o Own \o batch[k]]
           e == ParseEthernet(eth[i])
           p == batch[i]
           s == (seq + i - 1) % 4096
           t == IF qos THEN 0 ELSE NoTid
           body == ToBody(e.ethertype, e.payload)
<1>1. p \in Seq(Octet) /\ Len(p) >= 2
  BY PayloadAssumption
<1>2. Sized(p, Len(p)) /\ Len(p) >= 2
  <2> HIDE DEF p
  <2>1. QED
    BY <1>1 DEF Sized, IsSeq
<1>3. eth[i] = dest \o Own \o p
  OBVIOUS
<1> HIDE DEF eth, p
<1>4. Sized(dest, 6) /\ Sized(Own, 6)
  BY StationAddresses
<1>5. Sized(e.dest, 6) /\ Sized(e.src, 6) /\ IsSeq(body)
  BY <1>2, <1>3, <1>4, EthernetParsed
<1>6. IsSeqNo(s)
  <2>1. seq \in Nat
    <3>1. IsSeqNo(seq)
      BY UnsignedSeqNo
    <3>2. QED
      BY <3>1 DEF IsSeqNo
  <2> DEFINE x == seq + i - 1
  <2>2. x \in Nat
    BY <2>1
  <2> HIDE DEF x
  <2>3. x % 4096 \in Nat /\ (x % 4096) % 4096 = x % 4096
    BY SMT, <2>2
  <2>4. QED
    BY <2>3 DEF IsSeqNo, x
<1>7. t \in {NoTid} \cup (0 .. 15)
  OBVIOUS
<1> DEFINE f == Fields(eth, seq, qos, retry, duration)[i]
<1>8. f = DataFields(e.dest, e.src, s, retry, duration, t, body)
  <2>1. DOMAIN eth = 1 .. n
    BY DEF eth
  <2>2. QED
    BY <2>1 DEF Fields, DataFields
<1> HIDE DEF f, e, s, t, body
<1>9. IsDataFields(f)
  BY <1>5, <1>6, <1>7, <1>8 DEF IsDataFields
<1>10. QED
  BY <1>9 DEF f, eth

(* What a data frame of another make of station is built from.             *)
Pv1Data(dest, seq, noAck, body) ==
  [kind |-> "pv1", ptype |-> PV1_TYPE_QOS_DATA_MAC, subtype |-> 0, fromDs |-> FALSE, protected |-> FALSE,
   noAck |-> noAck, a1 |-> Mac(dest), a2 |-> Mac(Own), a3 |-> Absent, a4 |-> Absent, seq |-> seq, body |-> body]

(* Nothing behind a sequence. *)
LEMMA NothingBehind ==
  ASSUME NEW f, IsSeq(f)
  PROVE  f \o Absent = f
<1>1. PICK S : f \in Seq(S)
  BY DEF IsSeq
<1>2. QED
  BY <1>1 DEF Absent

(* A PV1 data frame is read as it was built (build_pv1_data, parse_pv1). *)
LEMMA Pv1DataReadsBack ==
  ASSUME NEW dest \in Address, NEW seq \in Unsigned(12), NEW noAck \in BOOLEAN, NEW body \in Seq(Octet)
  PROVE  Parse(BuildPv1Data(dest, Own, seq, 0, noAck, body)) = Pv1Data(dest, seq, noAck, body)
<1> DEFINE r == Pv1Data(dest, seq, noAck, body)
           h == <<13, IF noAck THEN 128 ELSE 0>>
           s == SeqControl(seq)
           f == h \o dest \o Own \o s
<1>1. /\ r.ptype = 3 /\ r.subtype = 0 /\ r.fromDs = FALSE /\ r.protected = FALSE /\ r.noAck = noAck
      /\ r.a1 = Mac(dest) /\ r.a2 = Mac(Own) /\ r.a3 = Absent /\ r.a4 = Absent /\ r.seq = seq /\ r.body = body
      /\ r.kind = "pv1"
  BY DEF Pv1Data, PV1_TYPE_QOS_DATA_MAC
<1>2. Own \in Address /\ Sized(Own, 6) /\ Sized(dest, 6)
  BY StationAddresses, AddressSized
<1>3. seq # NoSeq /\ IsSeqNo(seq)
  <2>1. IsSeqNo(seq)
    BY UnsignedSeqNo
  <2>2. QED
    BY <2>1 DEF IsSeqNo, NoSeq
<1>4. Mac(dest) \in Macs /\ Mac(Own) \in Macs
  BY <1>2 DEF Mac, Macs
<1>5. r \in Pv1Fields
  BY <1>4 DEF Pv1Fields, Pv1Data, PV1_TYPE_QOS_DATA_MAC
<1>6. IsPv1(r)
  <2> HIDE DEF r
  <2>1. QED
    BY <1>1, <1>3, <1>4, <1>5 DEF IsPv1, PV1_TYPE_QOS_DATA, PV1_TYPE_MANAGEMENT, PV1_TYPE_QOS_DATA_MAC
<1>7. AddrOctets(Mac(dest)) = dest /\ AddrOctets(Mac(Own)) = Own
  BY DEF AddrOctets, Mac
<1> HIDE DEF r
<1>8. Pv1Header(r) = f \o Absent \o Absent
  BY <1>1, <1>3, <1>7 DEF Pv1Header
<1>9. Sized(h, 2) /\ Sized(s, 2)
  BY <1>3, SizedOctets, SeqReadsBack
<1> HIDE DEF h, s
<1>10. Sized(f, 16)
  <2>1. Three(f, h, 2, dest, 6, Own, 6, s, 2)
    BY <1>2, <1>9, ThreePieces
  <2>2. QED
    BY <2>1 DEF Three
<1> HIDE DEF f
<1>11. Pv1Header(r) = f
  <2>1. IsSeq(f)
    BY <1>10 DEF Sized
  <2>2. f \o Absent = f
    BY <2>1, NothingBehind
  <2>3. QED
    BY <1>8, <2>2
<1>12. BuildPv1Data(dest, Own, seq, 0, noAck, body) = WithFcs(f \o body)
  BY DEF BuildPv1Data, f, h, s, PV1_TYPE_QOS_DATA_MAC
<1> DEFINE g == f \o body
           b == Len(body)
<1>13. Len(g) >= 10
  <2>1. Sized(body, b) /\ b \in Nat
    BY DEF Sized, IsSeq
  <2>2. Sized(g, 16 + b)
    BY <1>10, <2>1, JoinedSeq
  <2>3. QED
    BY <2>1, <2>2 DEF Sized
<1> HIDE DEF g
<1>14. g = Pv1Header(r) \o r.body
  BY <1>1, <1>11 DEF g
<1>15. Parse(WithFcs(g)) = r
  BY <1>6, <1>13, <1>14, WholeFrameReadsBack
<1>16. QED
  BY <1>12, <1>15 DEF g, r

(* Every MPDU on the air is read as its fields, also those of a PSDU that  *)
(* is then damaged; and what is only read as what it was built from.       *)
FieldsInv ==
  /\ stage = "air" => \A i \in DOMAIN sent.mpdus : Parse(sent.mpdus[i]) = sent.fields[i]
  /\ stage = "read" /\ sent.kind = "pv1" => Parse(psdu) = sent.fields[1]
  /\ stage = "read" /\ sent.kind = "ndp" => ParseNdp(psdu) = sent.fields[1]

(* Nothing is on the air at first. *)
LEMMA PathInitFields == PathInit => FieldsInv
BY DEF PathInit, FieldsInv

(* A batch: plain, S-MPDU or A-MPDU. *)
LEMMA BatchFieldsInv ==
  ASSUME NEW dest \in {Peer, Stranger, BROADCAST}, NEW batch \in Batches, NEW seq \in FirstSeqs,
         NEW qos \in BOOLEAN, NEW retry \in BOOLEAN, NEW ndpAck, NEW seed, NEW spare,
         TransmitBatch(dest, batch, seq, qos, retry, ndpAck, seed, spare)
  PROVE  FieldsInv'
<1> DEFINE n == Len(batch)
           duration == IF ~IsGroup(dest) THEN A_SIFS_TIME_US + NDP_TX_TIME_US ELSE 0
           eth == [i \in 1 .. n |-> dest \o Own \o batch[i]]
           fields == Fields(eth, seq, qos, retry, duration)
           mpdus == [i \in 1 .. n |-> BuildMpdu(fields[i])]
<1>1. n \in Nat /\ batch \in [1 .. n -> Payloads]
  <2>1. PICK k \in 1 .. MaxBatch : batch \in [1 .. k -> Payloads]
    BY DEF Batches
  <2>2. k \in Nat
    BY <2>1
  <2>3. batch \in Seq(Payloads) /\ Len(batch) = k
    BY <2>1, <2>2
  <2>4. QED
    BY <2>1, <2>2, <2>3
<1>2. seq \in Unsigned(12)
  BY NumberAssumption
<1>3. IsDuration(duration)
  <2>1. duration \in Nat /\ duration <= 32767
    BY SMT DEF A_SIFS_TIME_US, NDP_TX_TIME_US
  <2> HIDE DEF duration
  <2>2. QED
    BY <2>1, DurationFits
<1>4. stage' = "air" /\ sent'.mpdus = mpdus /\ sent'.fields = fields
  <2> DEFINE wantAck == ~IsGroup(dest)
             Aggregated(ms) == n > 1 \/ Len(ms[1]) > PlainLimit
             Expect(ms) == CASE ~wantAck -> ExpectNothing
                             [] wantAck /\ ~ndpAck -> ExpectAck
                             [] wantAck /\ ndpAck /\ n = 1 -> ExpectNdpAck(seed, ms[1])
                             [] wantAck /\ ndpAck /\ n > 1 -> ExpectBlockAck(seed)
             Planned(ms) == [kind |-> "data", eth |-> eth, fields |-> fields, mpdus |-> ms, aggregated |-> Aggregated(ms),
                             response |-> IF ~wantAck THEN "none" ELSE IF ndpAck THEN "ndp" ELSE "normal",
                             seed |-> seed, expect |-> Expect(ms)]
             PsduOf(ms) == IF Aggregated(ms) THEN Aggregate(ms, PreEofLenMany([i \in 1 .. n |-> Len(ms[i])]) + spare)
                           ELSE ms[1]
  <2>1. \E ms \in {mpdus} : OnAir(Planned(ms), PsduOf(ms))
    BY Zenon DEF TransmitBatch
  <2> HIDE DEF PsduOf
  <2>2. PICK ms \in {mpdus} : OnAir(Planned(ms), PsduOf(ms))
    BY <2>1
  <2>3. ms = mpdus
    BY <2>2
  <2>4. Planned(ms).mpdus = ms /\ Planned(ms).fields = fields
    OBVIOUS
  <2> HIDE DEF Planned
  <2>5. stage' = "air" /\ sent' = Planned(ms)
    BY <2>2 DEF OnAir
  <2>6. QED
    BY <2>3, <2>4, <2>5
<1> HIDE DEF duration, n
<1>5. ASSUME NEW i \in 1 .. n
      PROVE  IsDataFields(fields[i])
  BY <1>1, <1>2, <1>3, BatchFields
<1> HIDE DEF fields
<1>6. DOMAIN mpdus = 1 .. n /\ \A i \in 1 .. n : mpdus[i] = BuildMpdu(fields[i])
  OBVIOUS
<1> HIDE DEF mpdus
<1>7. \A i \in DOMAIN sent'.mpdus : Parse(sent'.mpdus[i]) = sent'.fields[i]
  BY <1>4, <1>5, <1>6, MpduReadsBack
<1>8. QED
  BY <1>4, <1>7 DEF FieldsInv

(* A PSDU of one MPDU. *)
LEMMA OneMpduInv ==
  ASSUME stage' = "air", NEW m, NEW f, sent'.mpdus = <<m>>, sent'.fields = <<f>>, Parse(m) = f
  PROVE  FieldsInv'
<1>1. DOMAIN <<m>> = {1} /\ <<m>>[1] = m /\ <<f>>[1] = f
  OBVIOUS
<1>2. QED
  BY <1>1 DEF FieldsInv

(* An RTS. *)
LEMMA RtsFieldsInv ==
  ASSUME NEW duration \in RtsDurations, NEW seed, TransmitRts(duration, seed)
  PROVE  FieldsInv'
<1> DEFINE m == BuildRts(Peer, Own, duration)
           f == [kind |-> "rts", ra |-> Peer, ta |-> Own, duration |-> duration]
<1>1. duration \in Unsigned(15)
  BY NumberAssumption
<1>2. duration \in Nat /\ duration < 32768
  <2>1. 2^15 = 32768
    BY SMT
  <2>2. QED
    BY SMT, <1>1, <2>1 DEF Unsigned
<1>3. Parse(m) = f
  <2>1. Sized(Peer, 6) /\ Sized(Own, 6)
    BY StationAddresses
  <2>2. QED
    BY <1>2, <2>1, RtsReadsBack
<1>4. stage' = "air" /\ sent'.mpdus = <<m>> /\ sent'.fields = <<f>>
  BY DEF TransmitRts, OnAir
<1> HIDE DEF m, f
<1>5. QED
  BY <1>3, <1>4, OneMpduInv

(* A PV1 frame to this station. *)
LEMMA Pv1FieldsInv ==
  ASSUME NEW dest \in {Peer, Stranger, BROADCAST}, NEW p \in Payloads, NEW seq \in FirstSeqs, NEW noAck \in BOOLEAN,
         NEW seed, NEW pad, TransmitPv1(dest, p, seq, noAck, seed, pad)
  PROVE  FieldsInv'
<1> DEFINE body == ToBody(SubSeq(p, 1, 2), From(p, 2))
           m == BuildPv1Data(dest, Own, seq, 0, noAck, body)
           f == Pv1Data(dest, seq, noAck, body)
<1>1. body \in Seq(Octet)
  BY PayloadBody
<1>2. seq \in Unsigned(12) /\ dest \in Address
  BY NumberAssumption, StationAddresses
<1>3. stage' = "air" /\ sent'.mpdus = <<m>> /\ sent'.fields = <<f>>
  BY DEF TransmitPv1, OnAir, Pv1Data
<1> HIDE DEF body
<1>4. Parse(m) = f
  BY <1>1, <1>2, Pv1DataReadsBack
<1> HIDE DEF m, f
<1>5. QED
  BY <1>3, <1>4, OneMpduInv

(* A PV1 frame of others, whole or cut short. *)
LEMMA ReadPv1Inv ==
  ASSUME NEW r \in Foreign, NEW short \in BOOLEAN, ReadPv1(r, short)
  PROVE  FieldsInv'
<1>1. IsPv1(r)
  BY OthersAssumption
<1> DEFINE header == Pv1Header(r)
           f == IF short THEN SubSeq(header, 1, Len(header) - 1) ELSE header \o r.body
           result == IF short THEN TooShort ELSE r
<1>2. Len(f) >= 10 /\ stage' = "read" /\ psdu' = WithFcs(f) /\ sent'.kind = "pv1" /\ sent'.fields = <<result>>
  BY DEF ReadPv1
<1>3. Parse(WithFcs(f)) = result
  <2>1. CASE short
    BY <1>1, <1>2, <2>1, CutFrameIsRefused
  <2>2. CASE ~short
    BY <1>1, <1>2, <2>2, WholeFrameReadsBack
  <2>3. QED
    BY <2>1, <2>2
<1> HIDE DEF f, result
<1>4. sent'.fields[1] = result
  BY <1>2
<1>5. QED
  BY <1>2, <1>3, <1>4 DEF FieldsInv

(* An NDP of others. *)
LEMMA ReadNdpInv ==
  ASSUME NEW n \in Ndps, ReadNdp(n)
  PROVE  FieldsInv'
<1>1. IsNdpFrame(n)
  BY OthersAssumption
<1>2. stage' = "read" /\ psdu' = NdpToBody(n) /\ sent'.kind = "ndp" /\ sent'.fields = <<n>>
  BY DEF ReadNdp
<1>3. ParseNdp(psdu') = sent'.fields[1]
  BY <1>1, <1>2, NdpReadsBack
<1>4. QED
  BY <1>2, <1>3 DEF FieldsInv

(* Every step keeps FieldsInv. *)
LEMMA NextFields == FieldsInv /\ [PathNext]_pathVars => FieldsInv'
<1> SUFFICES ASSUME FieldsInv, [PathNext]_pathVars
             PROVE  FieldsInv'
  OBVIOUS
<1>1. CASE Host
  BY <1>1 DEF Host, Wrap, FieldsInv
<1>2. CASE Sender
  <2>1. PICK seq \in FirstSeqs, seed \in Seeds :
          \/ \E batch \in Batches, dest \in {Peer, Stranger, BROADCAST}, qos, retry, ndpAck \in BOOLEAN, spare \in Spare :
               TransmitBatch(dest, batch, seq, qos, retry, ndpAck, seed, spare)
          \/ \E payload \in Payloads, dest \in {Peer, Stranger, BROADCAST}, noAck \in BOOLEAN, pad \in 0 .. 3 :
               TransmitPv1(dest, payload, seq, noAck, seed, pad)
          \/ \E duration \in RtsDurations : TransmitRts(duration, seed)
    BY <1>2 DEF Sender
  <2>2. CASE \E batch \in Batches, dest \in {Peer, Stranger, BROADCAST}, qos, retry, ndpAck \in BOOLEAN, spare \in Spare :
               TransmitBatch(dest, batch, seq, qos, retry, ndpAck, seed, spare)
    BY <2>2, BatchFieldsInv
  <2>3. CASE \E payload \in Payloads, dest \in {Peer, Stranger, BROADCAST}, noAck \in BOOLEAN, pad \in 0 .. 3 :
               TransmitPv1(dest, payload, seq, noAck, seed, pad)
    BY <2>3, Pv1FieldsInv
  <2>4. CASE \E duration \in RtsDurations : TransmitRts(duration, seed)
    BY <2>4, RtsFieldsInv
  <2>5. QED
    BY <2>1, <2>2, <2>3, <2>4
<1>3. CASE Channel
  <2>1. stage' = stage /\ sent' = sent /\ stage = "air"
    BY <1>3 DEF Channel, Damage
  <2>2. QED
    BY <2>1 DEF FieldsInv
<1>4. CASE Hear
  BY <1>4 DEF Hear, FieldsInv
<1>5. CASE Answer
  BY <1>5 DEF Answer, FieldsInv
<1>6. CASE Others
  <2>1. CASE \E r \in Foreign, short \in BOOLEAN : ReadPv1(r, short)
    BY <2>1, ReadPv1Inv
  <2>2. CASE \E n \in Ndps : ReadNdp(n)
    BY <2>2, ReadNdpInv
  <2>3. QED
    BY <1>6, <2>1, <2>2 DEF Others
<1>7. CASE UNCHANGED pathVars
  BY <1>7 DEF pathVars, FieldsInv
<1>8. QED
  BY <1>1, <1>2, <1>3, <1>4, <1>5, <1>6, <1>7 DEF PathNext

(* In every state, what is on the air is read as what it was built from. *)
LEMMA FieldsInvariant == PathSpec => []FieldsInv
<1>1. PathInit => FieldsInv
  BY PathInitFields
<1>2. FieldsInv /\ [PathNext]_pathVars => FieldsInv'
  BY NextFields
<1>3. QED
  BY <1>1, <1>2, PTL DEF PathSpec

(* The fields a frame or an NDP is built from are the fields read from it, *)
(* and a frame that ends within its header is refused.                     *)
THEOREM FieldsReadBackAlways == PathSpec => []FieldsReadBack
<1>1. FieldsInv => FieldsReadBack
  BY DEF FieldsInv, FieldsReadBack
<1>2. QED
  BY <1>1, FieldsInvariant, PTL
=============================================================================
