--------------------------- MODULE PlutoRadioProofs ---------------------------
(***************************************************************************)
(* Proofs about PlutoRadio, for any buffer size, latency, clock bound and   *)
(* number of calls and timeouts, for the virtual Pluto and for iiod.  The  *)
(* invariant follows both lines of samples: from radio 2's server to the   *)
(* caller of recv(), and from the sender to radio 1's timeline.            *)
(***************************************************************************)
EXTENDS PlutoRadio, SequenceTheorems, TLAPS

(* What the variables hold.                                                *)
RetToken == [kind : {"ret"}, n : Int]
SampleToken == [kind : {"sample"}, at : Nat, v : Int, late : BOOLEAN]
RxToken == RetToken \cup {Mask} \cup SampleToken
TxToken == [kind : {"cmd"}, n : Nat \ {0}] \cup SampleToken
Position == 0 .. MaxNow + TxAhead + Restart + 2 * Buf

AirTypeOK ==
  /\ now \in 0 .. MaxNow
  /\ tx \in [origin : Nat, buf : Seq(Int)]
  /\ rxPos \in 0 .. now
  /\ placed \in [Position -> Int]
  /\ timeouts \in [rx : Nat, tx : Nat]

RxTypeOK ==
  /\ rc \in [pc : {"ready", "ret", "mask", "data", "done"}, maskPending : BOOLEAN,
             left : Nat, out : Seq(SampleToken), calls : Nat]
  /\ rwire \in Seq(RxToken)
  /\ rs \in [pc : {"line", "pace", "receive"}, asked : Nat, newClient : BOOLEAN, from : Nat]
  /\ heard \in Seq(SampleToken)

TxTypeOK ==
  /\ tc \in [pc : {"ready", "ok", "ack"}, next : Nat \ {0}, chunk : Seq(Nat)]
  /\ ts \in [pc : {"line", "payload", "pace", "append"}, want : Nat, payload : Seq(Int)]
  /\ twire \in Seq(TxToken)
  /\ tack \in Seq(RetToken)
  /\ acked \subseteq Nat \ {0}

-----------------------------------------------------------------------------
(* The line from radio 2's server to its caller.                           *)

(* A chunk's size is followed by its samples, perhaps after the mask.      *)
Announced(w) ==
  \A i \in 1 .. Len(w) : (w[i].kind = "ret" /\ w[i].n > 0) =>
    \/ /\ i + w[i].n <= Len(w)
       /\ \A j \in i + 1 .. i + w[i].n : IsSample(w[j])
    \/ /\ i + 1 + w[i].n <= Len(w)
       /\ w[i + 1] = Mask
       /\ \A j \in i + 2 .. i + 1 + w[i].n : IsSample(w[j])
(* The mask line comes before all samples, and once.                       *)
MaskFirst(w) ==
  \A i \in 1 .. Len(w) : w[i] = Mask => \A j \in 1 .. i - 1 : w[j].kind = "ret"
NoSamples(w) == \A i \in 1 .. Len(w) : w[i].kind = "ret"
NoMask(w) == \A i \in 1 .. Len(w) : w[i] # Mask

WireInv ==
  /\ Announced(rwire) /\ MaskFirst(rwire)
  /\ rc.maskPending <=> (rs.newClient \/ ~NoMask(rwire))
  /\ rs.newClient => NoSamples(rwire)
  /\ rc.pc = "mask" =>
       /\ rc.maskPending /\ rwire # <<>> /\ rwire[1] = Mask
       /\ rc.left >= 1 /\ rc.left + 1 <= Len(rwire)
       /\ \A j \in 2 .. rc.left + 1 : IsSample(rwire[j])
  /\ rc.pc = "data" =>
       /\ ~rc.maskPending
       /\ rc.left >= 1 /\ rc.left <= Len(rwire)
       /\ \A j \in 1 .. rc.left : IsSample(rwire[j])

(* Samples are numbered upwards along the line, and below rxPos.           *)
Ascending(s) ==
  \A i, j \in 1 .. Len(s) : (i < j /\ IsSample(s[i]) /\ IsSample(s[j])) => s[i].at < s[j].at
Before(s, t) ==
  \A i \in 1 .. Len(s), j \in 1 .. Len(t) :
     (IsSample(s[i]) /\ IsSample(t[j])) => s[i].at < t[j].at
(* A sample heard below `pos` says what is on the air p at its position.   *)
IsOnAir(tok, p, pos) ==
  /\ tok.at < pos
  /\ tok.v = p[tok.at] \/ (tok.late /\ tok.v = Silence)
AllOnAir(s, p, pos) == \A i \in 1 .. Len(s) : IsSample(s[i]) => IsOnAir(s[i], p, pos)

LineInv ==
  /\ AllOnAir(heard, placed, rxPos) /\ AllOnAir(rc.out, placed, rxPos)
  /\ AllOnAir(rwire, placed, rxPos)
  /\ Ascending(heard) /\ Ascending(rc.out) /\ Ascending(rwire)
  /\ Before(heard, rc.out) /\ Before(heard, rwire) /\ Before(rc.out, rwire)

(* The timeline is what was placed, less what is too old to be asked for.  *)
End(stream) == stream.origin + Len(stream.buf)
Timeline(stream, p) ==
  /\ \A t \in Position :
       (stream.origin <= t /\ t < End(stream)) => p[t] = stream.buf[t - stream.origin + 1]
  /\ \A t \in Position : (t < stream.origin /\ p[t] # Silence) => t + LookBack < now
  /\ \A t \in Position : t >= End(stream) => p[t] = Silence
AirInv ==
  /\ Timeline(tx, placed)
  /\ rs.pc \in {"pace", "receive"} => rs.from = rxPos
  /\ rs.pc = "receive" => rs.from + Buf <= now

(* While no answer came too late: the answer to the one call under way.    *)
Rest(w, p, got) ==
  \/ got = Buf /\ Len(w) = p
  \/ got < Buf /\ Len(w) = p + 1 /\ w[p + 1] = Ret(0)
  \/ got < Buf /\ Len(w) = p + 1 + (Buf - got) /\ w[p + 1] = Ret(Buf - got)
Asked ==
  /\ rwire = <<>> /\ rc.out = <<>>
  /\ \/ rs.pc = "line" /\ rs.asked = 1
     \/ rs.pc \in {"pace", "receive"} /\ rs.asked = 0
Answered ==
  \/ Len(rc.out) < Buf /\ Rest(rwire, 0, Len(rc.out))
  \/ rwire = <<Ret(-1)>>
  \/ /\ rc.out = <<>> /\ rc.maskPending
     /\ Len(rwire) >= 2 /\ rwire[2] = Mask
     /\ \E n \in 1 .. Buf : rwire[1] = Ret(n) /\ Rest(rwire, n + 2, n)
  \/ /\ rc.out = <<>> /\ ~rc.maskPending
     /\ Len(rwire) >= 1
     /\ \E n \in 1 .. Buf : rwire[1] = Ret(n) /\ Rest(rwire, n + 1, n)
RxSynced ==
  /\ rc.pc \in {"ready", "done"} => rwire = <<>>
  /\ rc.pc # "ret" => rs.pc = "line" /\ rs.asked = 0
  /\ rc.pc = "ret" => Asked \/ (rs.pc = "line" /\ rs.asked = 0 /\ Answered)
  /\ rc.pc = "mask" => rc.out = <<>> /\ Rest(rwire, rc.left + 1, rc.left)
  /\ rc.pc = "data" => Rest(rwire, rc.left, Len(rc.out) + rc.left)
RxSyncInv == timeouts.rx = 0 => RxSynced

-----------------------------------------------------------------------------
(* The line from the sender to radio 1's timeline.                         *)

(* The number of the first sample no answer has covered.                   *)
First == tc.next - Len(tc.chunk)
SenderInv ==
  /\ Len(tc.chunk) <= Buf /\ First >= 1
  /\ \A i \in 1 .. Len(tc.chunk) : tc.chunk[i] = First + i - 1
  /\ tc.pc # "ready" => tc.chunk # <<>>
ServerInv ==
  /\ ts.pc # "line" => ts.want >= 1
  /\ ts.pc \in {"pace", "append"} => Len(ts.payload) = ts.want
  /\ ts.pc = "append" => TxEnd <= now + TxAhead

Commanded ==
  \/ /\ Len(twire) = 1 /\ twire[1] = Command(Len(tc.chunk))
     /\ ts.pc = "line" /\ tack = <<>>
  \/ /\ twire = <<>> /\ ts.pc = "payload" /\ ts.want = Len(tc.chunk)
     /\ Len(tack) = 1 /\ tack[1].n = 0
Written ==
  \/ /\ ts.pc = "payload" /\ ts.want = Len(tc.chunk) /\ tack = <<>>
     /\ Len(twire) = Len(tc.chunk)
     /\ \A i \in 1 .. Len(twire) : IsSample(twire[i]) /\ twire[i].v = tc.chunk[i]
  \/ /\ ts.pc \in {"pace", "append"} /\ ts.want = Len(tc.chunk) /\ tack = <<>>
     /\ twire = <<>>
     /\ \A i \in 1 .. Len(tc.chunk) : ts.payload[i] = tc.chunk[i]
  \/ /\ ts.pc = "line" /\ twire = <<>>
     /\ Len(tack) = 1 /\ tack[1].n \in 1 .. Len(tc.chunk)
TxSynced ==
  /\ tc.pc = "ready" => tack = <<>> /\ twire = <<>> /\ ts.pc = "line"
  /\ tc.pc = "ok" => Commanded
  /\ tc.pc = "ack" => Written

(* The first sample the server has not consumed.                           *)
Unconsumed == First + (IF tc.pc = "ack" /\ tack # <<>> THEN tack[1].n ELSE 0)
IsPlaced(v) == \E t \in Position : placed[t] = v
Delivered ==
  /\ \A t \in Position : placed[t] # Silence => placed[t] \in 1 .. Unconsumed - 1
  /\ \A t, u \in Position : (placed[t] # Silence /\ placed[u] # Silence /\ t < u)
                               => placed[t] < placed[u]
  /\ \A v \in acked : IsPlaced(v)
  /\ \A v \in First .. Unconsumed - 1 : IsPlaced(v)
TxSyncInv == timeouts.tx = 0 => (TxSynced /\ Delivered)

-----------------------------------------------------------------------------
(* Sequences and tokens.                                                   *)

LEMMA Sizes ==
  /\ Buf \in Nat /\ Buf >= 1 /\ Burst \in Nat /\ Burst >= 1
  /\ LookBack \in Nat /\ MaxNow \in Nat /\ TxAhead \in Nat /\ Restart \in Nat
BY SampleAssumption

(* What dropping the first k elements leaves.                              *)
LEMMA Dropped ==
  ASSUME NEW S, NEW w \in Seq(S), NEW k \in 0 .. Len(w)
  PROVE  /\ SubSeq(w, k + 1, Len(w)) \in Seq(S)
         /\ Len(SubSeq(w, k + 1, Len(w))) = Len(w) - k
         /\ \A i \in 1 .. Len(w) - k : SubSeq(w, k + 1, Len(w))[i] = w[i + k]
<1>1. Len(w) \in Nat /\ \A i \in k + 1 .. Len(w) : w[i] \in S
  BY ElementOfSeq
<1>2. /\ SubSeq(w, k + 1, Len(w)) \in Seq(S)
      /\ Len(SubSeq(w, k + 1, Len(w))) = IF k + 1 <= Len(w) THEN Len(w) - (k + 1) + 1 ELSE 0
      /\ \A i \in 1 .. Len(w) - (k + 1) + 1 : SubSeq(w, k + 1, Len(w))[i] = w[k + 1 + i - 1]
  BY <1>1, SubSeqProperties
<1>3. QED
  BY <1>1, <1>2

(* What taking the first k elements gives.                                 *)
LEMMA Taken ==
  ASSUME NEW S, NEW w \in Seq(S), NEW k \in 0 .. Len(w)
  PROVE  /\ SubSeq(w, 1, k) \in Seq(S)
         /\ Len(SubSeq(w, 1, k)) = k
         /\ \A i \in 1 .. k : SubSeq(w, 1, k)[i] = w[i]
<1>1. Len(w) \in Nat /\ \A i \in 1 .. k : w[i] \in S
  BY ElementOfSeq
<1>2. /\ SubSeq(w, 1, k) \in Seq(S)
      /\ Len(SubSeq(w, 1, k)) = IF 1 <= k THEN k - 1 + 1 ELSE 0
      /\ \A i \in 1 .. k - 1 + 1 : SubSeq(w, 1, k)[i] = w[1 + i - 1]
  BY <1>1, SubSeqProperties
<1>3. QED
  BY <1>1, <1>2

(* The first element is dropped by Tail.                                   *)
LEMMA TailDrops ==
  ASSUME NEW S, NEW w \in Seq(S), w # <<>>
  PROVE  Tail(w) = SubSeq(w, 1 + 1, Len(w)) /\ Head(w) = w[1] /\ Len(w) >= 1
BY TailIsSubSeq, EmptySeq

(* A token is of one kind.                                                 *)
LEMMA Kinds ==
  ASSUME NEW tok \in RxToken
  PROVE  /\ tok.kind \in {"ret", "mask", "sample"}
         /\ tok = Mask <=> tok.kind = "mask"
         /\ tok.kind = "ret" => tok.n \in Int /\ tok = Ret(tok.n)
         /\ IsSample(tok) <=> tok \in SampleToken
BY DEF RxToken, RetToken, SampleToken, Mask, Ret, IsSample

-----------------------------------------------------------------------------
(* Dropping tokens from the front of a well-formed line.                   *)

LEMMA DropKeepsFormat ==
  ASSUME NEW w \in Seq(RxToken), NEW k \in 0 .. Len(w), Announced(w), MaskFirst(w)
  PROVE  /\ Announced(SubSeq(w, k + 1, Len(w))) /\ MaskFirst(SubSeq(w, k + 1, Len(w)))
         /\ NoMask(w) => NoMask(SubSeq(w, k + 1, Len(w)))
         /\ NoSamples(w) => NoSamples(SubSeq(w, k + 1, Len(w)))
<1> DEFINE v == SubSeq(w, k + 1, Len(w))
<1>1. /\ v \in Seq(RxToken) /\ Len(v) = Len(w) - k
      /\ \A i \in 1 .. Len(w) - k : v[i] = w[i + k]
  BY Dropped
<1>2. Len(w) \in Nat /\ \A i \in 1 .. Len(w) : w[i] \in RxToken
  BY ElementOfSeq
<1> HIDE DEF v
<1>3. Announced(v)
  <2> SUFFICES ASSUME NEW i \in 1 .. Len(v), v[i].kind = "ret", v[i].n > 0
               PROVE  \/ /\ i + v[i].n <= Len(v)
                         /\ \A j \in i + 1 .. i + v[i].n : IsSample(v[j])
                      \/ /\ i + 1 + v[i].n <= Len(v)
                         /\ v[i + 1] = Mask
                         /\ \A j \in i + 2 .. i + 1 + v[i].n : IsSample(v[j])
    BY DEF Announced
  <2>1. i + k \in 1 .. Len(w) /\ v[i] = w[i + k]
    BY <1>1, <1>2
  <2>2. PICK n \in Int : v[i].n = n
    BY <1>2, <2>1, Kinds
  <2>3. CASE /\ i + k + n <= Len(w)
             /\ \A j \in i + k + 1 .. i + k + n : IsSample(w[j])
    <3>1. i + n <= Len(v)
      BY <1>1, <1>2, <2>3
    <3>2. ASSUME NEW j \in i + 1 .. i + n PROVE IsSample(v[j])
      <4>1. v[j] = w[j + k] /\ j + k \in i + k + 1 .. i + k + n
        BY <1>1, <1>2, <2>3
      <4>2. QED
        BY <2>3, <4>1
    <3>3. QED
      BY <2>2, <3>1, <3>2
  <2>4. CASE /\ i + k + 1 + n <= Len(w)
             /\ w[i + k + 1] = Mask
             /\ \A j \in i + k + 2 .. i + k + 1 + n : IsSample(w[j])
    <3>1. i + 1 + n <= Len(v)
      BY <1>1, <1>2, <2>4
    <3>2. v[i + 1] = Mask
      <4>1. i + 1 \in 1 .. Len(w) - k /\ i + 1 + k = i + k + 1
        BY <1>1, <1>2, <2>2, <2>4
      <4>2. QED
        BY <1>1, <2>4, <4>1
    <3>3. ASSUME NEW j \in i + 2 .. i + 1 + n PROVE IsSample(v[j])
      <4>1. v[j] = w[j + k] /\ j + k \in i + k + 2 .. i + k + 1 + n
        BY <1>1, <1>2, <2>4
      <4>2. QED
        BY <2>4, <4>1
    <3>4. QED
      BY <2>2, <3>1, <3>2, <3>3
  <2>5. QED
    BY <2>1, <2>2, <2>3, <2>4 DEF Announced
<1>4. MaskFirst(v)
  <2> SUFFICES ASSUME NEW i \in 1 .. Len(v), v[i] = Mask, NEW j \in 1 .. i - 1
               PROVE  v[j].kind = "ret"
    BY DEF MaskFirst
  <2>1. i + k \in 1 .. Len(w) /\ w[i + k] = Mask /\ j + k \in 1 .. i + k - 1 /\ v[j] = w[j + k]
    BY <1>1, <1>2
  <2>2. QED
    BY <2>1 DEF MaskFirst
<1>5. NoMask(w) => NoMask(v)
  BY <1>1, <1>2 DEF NoMask
<1>6. NoSamples(w) => NoSamples(v)
  BY <1>1, <1>2 DEF NoSamples
<1>7. QED
  BY <1>3, <1>4, <1>5, <1>6 DEF v

LEMMA DropKeepsOrder ==
  ASSUME NEW w \in Seq(RxToken), NEW k \in 0 .. Len(w)
  PROVE  /\ \A p, pos : AllOnAir(w, p, pos) => AllOnAir(SubSeq(w, k + 1, Len(w)), p, pos)
         /\ Ascending(w) => Ascending(SubSeq(w, k + 1, Len(w)))
         /\ \A s : Before(s, w) => Before(s, SubSeq(w, k + 1, Len(w)))
<1> DEFINE v == SubSeq(w, k + 1, Len(w))
<1>1. /\ v \in Seq(RxToken) /\ Len(v) = Len(w) - k
      /\ \A i \in 1 .. Len(w) - k : v[i] = w[i + k]
  BY Dropped
<1>2. Len(w) \in Nat
  OBVIOUS
<1> HIDE DEF v
<1>3. \A i \in 1 .. Len(v) : i + k \in 1 .. Len(w) /\ v[i] = w[i + k]
  BY <1>1, <1>2
<1>4. ASSUME NEW p, NEW pos, AllOnAir(w, p, pos) PROVE AllOnAir(v, p, pos)
  BY <1>3, <1>4 DEF AllOnAir
<1>5. Ascending(w) => Ascending(v)
  <2> SUFFICES ASSUME Ascending(w), NEW i \in 1 .. Len(v), NEW j \in 1 .. Len(v),
                      i < j, IsSample(v[i]), IsSample(v[j])
               PROVE  v[i].at < v[j].at
    BY DEF Ascending
  <2>1. i + k < j + k
    BY <1>1, <1>2
  <2>2. QED
    BY <1>3, <2>1 DEF Ascending
<1>6. ASSUME NEW s, Before(s, w) PROVE Before(s, v)
  BY <1>3, <1>6 DEF Before
<1>7. QED
  BY <1>4, <1>5, <1>6 DEF v

-----------------------------------------------------------------------------
(* Appending a well-formed answer to a well-formed line.                   *)

LEMMA JoinKeepsFormat ==
  ASSUME NEW w \in Seq(RxToken), NEW v \in Seq(RxToken),
         Announced(w), Announced(v), MaskFirst(w), MaskFirst(v),
         NoMask(v) \/ NoSamples(w)
  PROVE  /\ Announced(w \o v) /\ MaskFirst(w \o v)
         /\ NoMask(w \o v) <=> (NoMask(w) /\ NoMask(v))
         /\ (NoSamples(w) /\ NoSamples(v)) => NoSamples(w \o v)
<1> DEFINE u == w \o v
<1>1. /\ u \in Seq(RxToken) /\ Len(u) = Len(w) + Len(v)
      /\ \A i \in 1 .. Len(w) + Len(v) : u[i] = IF i <= Len(w) THEN w[i] ELSE v[i - Len(w)]
  BY ConcatProperties
<1>2. /\ Len(w) \in Nat /\ \A i \in 1 .. Len(w) : w[i] \in RxToken
      /\ Len(v) \in Nat /\ \A i \in 1 .. Len(v) : v[i] \in RxToken
  BY ElementOfSeq
<1> HIDE DEF u
<1>3. /\ \A i \in 1 .. Len(w) : i \in 1 .. Len(u) /\ u[i] = w[i]
      /\ \A i \in 1 .. Len(v) : i + Len(w) \in 1 .. Len(u) /\ u[i + Len(w)] = v[i]
  BY <1>1, <1>2
<1>4. \A i \in 1 .. Len(u) : i \in 1 .. Len(w) \/ (i - Len(w) \in 1 .. Len(v) /\ i - Len(w) + Len(w) = i)
  BY <1>1, <1>2
<1>5. Announced(u)
  <2> SUFFICES ASSUME NEW i \in 1 .. Len(u), u[i].kind = "ret", u[i].n > 0
               PROVE  \/ /\ i + u[i].n <= Len(u)
                         /\ \A j \in i + 1 .. i + u[i].n : IsSample(u[j])
                      \/ /\ i + 1 + u[i].n <= Len(u)
                         /\ u[i + 1] = Mask
                         /\ \A j \in i + 2 .. i + 1 + u[i].n : IsSample(u[j])
    BY DEF Announced
  <2>1. CASE i \in 1 .. Len(w)
    <3>1. u[i] = w[i] /\ w[i].n \in Int
      BY <1>2, <1>3, <2>1, Kinds
    <3>2. CASE /\ i + w[i].n <= Len(w)
               /\ \A j \in i + 1 .. i + w[i].n : IsSample(w[j])
      <4>1. \A j \in i + 1 .. i + w[i].n : j \in 1 .. Len(w)
        BY <1>2, <2>1, <3>1, <3>2
      <4>2. QED
        BY <1>1, <1>2, <1>3, <3>1, <3>2, <4>1, SMTT(30)
    <3>3. CASE /\ i + 1 + w[i].n <= Len(w)
               /\ w[i + 1] = Mask
               /\ \A j \in i + 2 .. i + 1 + w[i].n : IsSample(w[j])
      <4>1. i + 1 \in 1 .. Len(w) /\ \A j \in i + 2 .. i + 1 + w[i].n : j \in 1 .. Len(w)
        BY <1>2, <2>1, <3>1, <3>3
      <4>2. QED
        BY <1>1, <1>2, <1>3, <3>1, <3>3, <4>1
    <3>4. QED
      BY <2>1, <3>1, <3>2, <3>3 DEF Announced
  <2>2. CASE i - Len(w) \in 1 .. Len(v)
    <3> DEFINE h == i - Len(w)
    <3>1. h \in 1 .. Len(v) /\ h \in Int /\ i = h + Len(w)
      BY <1>2, <2>2
    <3> HIDE DEF h
    <3>2. PICK n \in Int : u[i] = v[h] /\ v[h].n = n
      BY <1>2, <1>3, <3>1, Kinds
    <3>3. CASE /\ h + n <= Len(v)
               /\ \A j \in h + 1 .. h + n : IsSample(v[j])
      <4>1. i + n <= Len(u)
        BY <1>1, <1>2, <3>1, <3>3
      <4>2. ASSUME NEW j \in i + 1 .. i + n PROVE IsSample(u[j])
        <5>1. /\ j - Len(w) \in h + 1 .. h + n
              /\ j \in 1 .. Len(w) + Len(v) /\ ~(j <= Len(w))
          BY <1>2, <3>1, <3>3
        <5>2. QED
          BY <1>1, <3>3, <5>1
      <4>3. QED
        BY <3>2, <4>1, <4>2
    <3>4. CASE /\ h + 1 + n <= Len(v)
               /\ v[h + 1] = Mask
               /\ \A j \in h + 2 .. h + 1 + n : IsSample(v[j])
      <4>1. i + 1 + n <= Len(u)
        BY <1>1, <1>2, <3>1, <3>4
      <4>2. u[i + 1] = Mask
        <5>1. /\ i + 1 - Len(w) = h + 1
              /\ i + 1 \in 1 .. Len(w) + Len(v) /\ ~(i + 1 <= Len(w))
          BY <1>2, <3>1, <3>2, <3>4
        <5>2. QED
          BY <1>1, <3>4, <5>1
      <4>3. ASSUME NEW j \in i + 2 .. i + 1 + n PROVE IsSample(u[j])
        <5>1. /\ j - Len(w) \in h + 2 .. h + 1 + n
              /\ j \in 1 .. Len(w) + Len(v) /\ ~(j <= Len(w))
          BY <1>2, <3>1, <3>4
        <5>2. QED
          BY <1>1, <3>4, <5>1
      <4>4. QED
        BY <3>2, <4>1, <4>2, <4>3
    <3>5. QED
      BY <3>1, <3>2, <3>3, <3>4 DEF Announced
  <2>3. QED
    BY <1>4, <2>1, <2>2
<1>6. MaskFirst(u)
  <2> SUFFICES ASSUME NEW i \in 1 .. Len(u), u[i] = Mask, NEW j \in 1 .. i - 1
               PROVE  u[j].kind = "ret"
    BY DEF MaskFirst
  <2>1. CASE i \in 1 .. Len(w)
    <3>1. w[i] = Mask /\ j \in 1 .. Len(w) /\ u[j] = w[j]
      BY <1>2, <1>3, <2>1
    <3>2. QED
      BY <2>1, <3>1 DEF MaskFirst
  <2>2. CASE i - Len(w) \in 1 .. Len(v)
    <3>1. v[i - Len(w)] = Mask
      BY <1>1, <1>2, <2>2
    <3>2. NoSamples(w)
      BY <2>2, <3>1 DEF NoMask
    <3>3. CASE j \in 1 .. Len(w)
      BY <1>3, <3>2, <3>3 DEF NoSamples
    <3>4. CASE j - Len(w) \in 1 .. Len(v)
      <4>1. j - Len(w) \in 1 .. i - Len(w) - 1 /\ u[j] = v[j - Len(w)]
        BY <1>1, <1>2, <3>4
      <4>2. QED
        BY <2>2, <3>1, <4>1 DEF MaskFirst
    <3>5. j \in 1 .. Len(u)
      BY <1>1, <1>2
    <3>6. QED
      BY <1>4, <3>3, <3>4, <3>5
  <2>3. QED
    BY <1>4, <2>1, <2>2
<1>7. NoMask(u) <=> (NoMask(w) /\ NoMask(v))
  <2>1. NoMask(u) => NoMask(w)
    BY <1>3 DEF NoMask
  <2>2. NoMask(u) => NoMask(v)
    BY <1>3 DEF NoMask
  <2>3. NoMask(w) /\ NoMask(v) => NoMask(u)
    BY <1>1, <1>4 DEF NoMask
  <2>4. QED
    BY <2>1, <2>2, <2>3
<1>8. (NoSamples(w) /\ NoSamples(v)) => NoSamples(u)
  BY <1>1, <1>4 DEF NoSamples
<1>9. QED
  BY <1>5, <1>6, <1>7, <1>8 DEF u

LEMMA JoinKeepsOrder ==
  ASSUME NEW w \in Seq(RxToken), NEW v \in Seq(RxToken)
  PROVE  /\ \A p, pos : (AllOnAir(w, p, pos) /\ AllOnAir(v, p, pos)) => AllOnAir(w \o v, p, pos)
         /\ (Ascending(w) /\ Ascending(v) /\ Before(w, v)) => Ascending(w \o v)
         /\ \A s : (Before(s, w) /\ Before(s, v)) => Before(s, w \o v)
         /\ \A s : (Before(w, s) /\ Before(v, s)) => Before(w \o v, s)
<1> DEFINE u == w \o v
<1>1. /\ u \in Seq(RxToken) /\ Len(u) = Len(w) + Len(v)
      /\ \A i \in 1 .. Len(w) + Len(v) : u[i] = IF i <= Len(w) THEN w[i] ELSE v[i - Len(w)]
  BY ConcatProperties
<1>2. Len(w) \in Nat /\ Len(v) \in Nat
  OBVIOUS
<1> HIDE DEF u
<1>3. \A i \in 1 .. Len(u) :
        \/ i \in 1 .. Len(w) /\ u[i] = w[i]
        \/ i > Len(w) /\ i - Len(w) \in 1 .. Len(v) /\ u[i] = v[i - Len(w)]
  BY <1>1, <1>2
<1>4. ASSUME NEW p, NEW pos, AllOnAir(w, p, pos), AllOnAir(v, p, pos)
      PROVE  AllOnAir(u, p, pos)
  BY <1>3, <1>4 DEF AllOnAir
<1>5. (Ascending(w) /\ Ascending(v) /\ Before(w, v)) => Ascending(u)
  <2> SUFFICES ASSUME Ascending(w), Ascending(v), Before(w, v),
                      NEW i \in 1 .. Len(u), NEW j \in 1 .. Len(u),
                      i < j, IsSample(u[i]), IsSample(u[j])
               PROVE  u[i].at < u[j].at
    BY DEF Ascending
  <2>1. CASE i \in 1 .. Len(w) /\ u[i] = w[i] /\ j \in 1 .. Len(w) /\ u[j] = w[j]
    BY <2>1 DEF Ascending
  <2>2. CASE /\ i \in 1 .. Len(w) /\ u[i] = w[i]
             /\ j - Len(w) \in 1 .. Len(v) /\ u[j] = v[j - Len(w)]
    BY <2>2 DEF Before
  <2>3. CASE /\ i - Len(w) \in 1 .. Len(v) /\ u[i] = v[i - Len(w)]
             /\ j - Len(w) \in 1 .. Len(v) /\ u[j] = v[j - Len(w)]
    <3>1. i - Len(w) < j - Len(w)
      BY <1>1, <1>2
    <3>2. QED
      BY <2>3, <3>1 DEF Ascending
  <2>4. i > Len(w) => ~(j \in 1 .. Len(w))
    BY <1>1, <1>2
  <2>5. QED
    BY <1>3, <2>1, <2>2, <2>3, <2>4
<1>6. ASSUME NEW s, Before(s, w), Before(s, v) PROVE Before(s, u)
  BY <1>3, <1>6 DEF Before
<1>7. ASSUME NEW s, Before(w, s), Before(v, s) PROVE Before(u, s)
  BY <1>3, <1>7 DEF Before
<1>8. QED
  BY <1>4, <1>5, <1>6, <1>7 DEF u

-----------------------------------------------------------------------------
(* The client's steps take tokens from the front of the line.              *)

RxInv == AirTypeOK /\ RxTypeOK /\ WireInv /\ LineInv

LEMMA NothingHeard ==
  /\ \A p, pos : AllOnAir(<<>>, p, pos)
  /\ Ascending(<<>>)
  /\ \A s : Before(s, <<>>) /\ Before(<<>>, s)
BY DEF AllOnAir, Ascending, Before

(* What one step of the client that drops k tokens and no more keeps.      *)
LEMMA DropStep ==
  ASSUME RxInv, NEW k \in 0 .. Len(rwire), rwire' = SubSeq(rwire, k + 1, Len(rwire)),
         UNCHANGED <<rxPos, placed, heard, rs>>,
         rc'.out = rc.out \/ rc'.out = <<>>
  PROVE  /\ rwire' \in Seq(RxToken) /\ heard' \in Seq(SampleToken)
         /\ Announced(rwire') /\ MaskFirst(rwire') /\ LineInv'
         /\ NoMask(rwire) => NoMask(rwire')
         /\ rs'.newClient => NoSamples(rwire')
<1>1. rwire \in Seq(RxToken) /\ heard \in Seq(SampleToken)
  BY DEF RxInv, RxTypeOK
<1>2. rwire' \in Seq(RxToken)
  BY <1>1, Dropped
<1>3. /\ Announced(rwire') /\ MaskFirst(rwire')
      /\ NoMask(rwire) => NoMask(rwire')
      /\ NoSamples(rwire) => NoSamples(rwire')
  BY <1>1, DropKeepsFormat DEF RxInv, WireInv
<1>4. /\ \A p, pos : AllOnAir(rwire, p, pos) => AllOnAir(rwire', p, pos)
      /\ Ascending(rwire) => Ascending(rwire')
      /\ \A s : Before(s, rwire) => Before(s, rwire')
  BY <1>1, DropKeepsOrder
<1>5. LineInv'
  <2>1. CASE rc'.out = rc.out
    BY <1>4, <2>1 DEF RxInv, LineInv
  <2>2. CASE rc'.out = <<>>
    BY <1>4, <2>2, NothingHeard DEF RxInv, LineInv
  <2>3. QED
    BY <2>1, <2>2
<1>6. QED
  BY <1>1, <1>2, <1>3, <1>5 DEF RxInv, WireInv

LEMMA RecvStep ==
  ASSUME RxInv, Recv
  PROVE  RxTypeOK' /\ WireInv' /\ LineInv'
<1>1. /\ rc' = [rc EXCEPT !.pc = "ret", !.out = <<>>, !.calls = @ + 1]
      /\ rs' = [rs EXCEPT !.asked = @ + 1]
      /\ UNCHANGED <<rwire, rxPos, placed, heard>>
  BY DEF Recv, air, history
<1>2. /\ rc'.pc = "ret" /\ rc'.out = <<>> /\ rc'.maskPending = rc.maskPending
      /\ rs'.newClient = rs.newClient
  BY <1>1 DEF RxInv, RxTypeOK
<1>3. RxTypeOK'
  <2>1. <<>> \in Seq(SampleToken) /\ rc.calls + 1 \in Nat /\ rs.asked + 1 \in Nat
    BY DEF RxInv, RxTypeOK
  <2>2. rc' \in [pc : {"ready", "ret", "mask", "data", "done"}, maskPending : BOOLEAN,
                 left : Nat, out : Seq(SampleToken), calls : Nat]
    BY <1>1, <2>1 DEF RxInv, RxTypeOK
  <2>3. rs' \in [pc : {"line", "pace", "receive"}, asked : Nat, newClient : BOOLEAN, from : Nat]
    BY <1>1, <2>1 DEF RxInv, RxTypeOK
  <2>4. QED
    BY <1>1, <2>2, <2>3 DEF RxInv, RxTypeOK
<1>4. WireInv'
  BY <1>1, <1>2 DEF RxInv, WireInv
<1>5. LineInv'
  BY <1>1, <1>2, NothingHeard DEF RxInv, LineInv
<1>6. QED
  BY <1>3, <1>4, <1>5

LEMMA ReadRetStep ==
  ASSUME RxInv, ReadRet
  PROVE  RxTypeOK' /\ WireInv' /\ LineInv'
<1> DEFINE n == Head(rwire).n
<1>1. /\ rc.pc = "ret" /\ rwire # <<>> /\ Head(rwire).kind = "ret"
      /\ rc' = CASE n < 0 -> RxFails
                 [] n = 0 -> [rc EXCEPT !.pc = "done"]
                 [] n > 0 -> [rc EXCEPT !.pc = IF rc.maskPending THEN "mask" ELSE "data", !.left = n]
      /\ rwire' = Tail(rwire)
      /\ UNCHANGED <<rxPos, placed, heard, rs>>
  BY DEF ReadRet, air, history
<1>2. rwire \in Seq(RxToken) /\ \A i \in 1 .. Len(rwire) : rwire[i] \in RxToken
  BY ElementOfSeq DEF RxInv, RxTypeOK
<1>3. rwire' = SubSeq(rwire, 1 + 1, Len(rwire)) /\ Head(rwire) = rwire[1] /\ Len(rwire) >= 1
  BY <1>1, <1>2, TailDrops
<1>4. n \in Int /\ n = rwire[1].n /\ rwire[1].kind = "ret" /\ rwire[1] \in RxToken
  BY <1>1, <1>2, <1>3, Kinds
<1>5. /\ Len(rwire') = Len(rwire) - 1
      /\ \A i \in 1 .. Len(rwire) - 1 : rwire'[i] = rwire[i + 1]
  <2>1. 1 \in 0 .. Len(rwire)
    BY <1>3
  <2>2. QED
    BY <1>2, <1>3, <2>1, Dropped
<1> HIDE DEF n
<1>6. /\ rc' \in [pc : {"ready", "mask", "data", "done"}, maskPending : BOOLEAN,
                  left : Nat, out : Seq(SampleToken), calls : Nat]
      /\ rc'.maskPending = rc.maskPending
      /\ rc'.out = rc.out \/ rc'.out = <<>>
      /\ rc'.pc = "mask" => n > 0 /\ rc'.left = n /\ rc.maskPending
      /\ rc'.pc = "data" => n > 0 /\ rc'.left = n /\ ~rc.maskPending
  <2>1. CASE n < 0
    <3>1. rc' = [rc EXCEPT !.pc = "ready", !.out = <<>>] /\ <<>> \in Seq(SampleToken)
      BY <1>1, <2>1, <1>4 DEF RxFails
    <3>2. QED
      BY <3>1 DEF RxInv, RxTypeOK
  <2>2. CASE n = 0
    <3>1. rc' = [rc EXCEPT !.pc = "done"]
      BY <1>1, <2>2
    <3>2. QED
      BY <3>1 DEF RxInv, RxTypeOK
  <2>3. CASE n > 0
    <3>1. rc' = [rc EXCEPT !.pc = IF rc.maskPending THEN "mask" ELSE "data", !.left = n]
      BY <1>1, <2>3, <1>4
    <3>2. rc.maskPending \in BOOLEAN /\ n \in Nat
      BY <1>4, <2>3 DEF RxInv, RxTypeOK
    <3>3. CASE rc.maskPending
      BY <2>3, <3>1, <3>2, <3>3 DEF RxInv, RxTypeOK
    <3>4. CASE ~rc.maskPending
      BY <2>3, <3>1, <3>2, <3>4 DEF RxInv, RxTypeOK
    <3>5. QED
      BY <3>3, <3>4
  <2>4. QED
    BY <1>4, <2>1, <2>2, <2>3
<1>7. /\ rwire' \in Seq(RxToken) /\ heard' \in Seq(SampleToken)
      /\ Announced(rwire') /\ MaskFirst(rwire') /\ LineInv'
      /\ NoMask(rwire) => NoMask(rwire')
      /\ rs'.newClient => NoSamples(rwire')
  <2>1. 1 \in 0 .. Len(rwire)
    BY <1>3
  <2>2. QED
    BY <1>1, <1>3, <1>6, <2>1, DropStep
<1>8. RxTypeOK'
  BY <1>1, <1>6, <1>7 DEF RxInv, RxTypeOK
<1>9. ~NoMask(rwire) => ~NoMask(rwire')
  <2> SUFFICES ASSUME NEW i \in 1 .. Len(rwire), rwire[i] = Mask
               PROVE  ~NoMask(rwire')
    BY DEF NoMask
  <2>1. i # 1
    BY <1>4, Kinds
  <2>2. i - 1 \in 1 .. Len(rwire) - 1 /\ i - 1 + 1 = i
    BY <1>3, <2>1
  <2>3. rwire'[i - 1] = Mask
    BY <1>5, <2>2
  <2>4. QED
    BY <1>5, <2>2, <2>3 DEF NoMask
<1>10. ASSUME n > 0
       PROVE  \/ /\ ~rc.maskPending /\ n <= Len(rwire')
                 /\ \A j \in 1 .. n : IsSample(rwire'[j])
              \/ /\ rc.maskPending /\ rwire' # <<>> /\ rwire'[1] = Mask /\ n + 1 <= Len(rwire')
                 /\ \A j \in 2 .. n + 1 : IsSample(rwire'[j])
  <2>1. \/ /\ 1 + n <= Len(rwire)
           /\ \A j \in 1 + 1 .. 1 + n : IsSample(rwire[j])
        \/ /\ 1 + 1 + n <= Len(rwire)
           /\ rwire[1 + 1] = Mask
           /\ \A j \in 1 + 2 .. 1 + 1 + n : IsSample(rwire[j])
    <3>1. 1 \in 1 .. Len(rwire) /\ rwire[1].kind = "ret" /\ rwire[1].n > 0 /\ n = rwire[1].n
      BY <1>3, <1>4, <1>10
    <3>2. QED
      BY <3>1 DEF RxInv, WireInv, Announced
  <2>2. CASE /\ 1 + n <= Len(rwire)
             /\ \A j \in 1 + 1 .. 1 + n : IsSample(rwire[j])
    <3>1. 2 \in 1 .. Len(rwire) /\ IsSample(rwire[2])
      BY <1>4, <1>10, <2>2
    <3>2. ~rs.newClient
      BY <3>1 DEF RxInv, WireInv, NoSamples, IsSample
    <3>3. NoMask(rwire)
      <4> SUFFICES ASSUME NEW i \in 1 .. Len(rwire), rwire[i] = Mask PROVE FALSE
        BY DEF NoMask
      <4>1. i # 1 /\ i # 2
        BY <1>2, <1>4, <3>1, Kinds DEF IsSample
      <4>2. 2 \in 1 .. i - 1
        BY <4>1
      <4>3. QED
        BY <3>1, <4>2 DEF RxInv, WireInv, MaskFirst, IsSample
    <3>4. ~rc.maskPending
      BY <3>2, <3>3 DEF RxInv, WireInv
    <3>5. ASSUME NEW j \in 1 .. n PROVE IsSample(rwire'[j])
      <4>1. j \in 1 .. Len(rwire) - 1 /\ j + 1 \in 1 + 1 .. 1 + n
        BY <1>3, <1>4, <2>2
      <4>2. QED
        BY <1>5, <2>2, <4>1
    <3>6. n <= Len(rwire')
      BY <1>3, <1>4, <1>5, <2>2
    <3>7. QED
      BY <3>4, <3>5, <3>6
  <2>3. CASE /\ 1 + 1 + n <= Len(rwire)
             /\ rwire[1 + 1] = Mask
             /\ \A j \in 1 + 2 .. 1 + 1 + n : IsSample(rwire[j])
    <3>1. 2 \in 1 .. Len(rwire) /\ rwire[2] = Mask
      BY <1>4, <1>10, <2>3
    <3>2. rc.maskPending
      BY <3>1 DEF RxInv, WireInv, NoMask
    <3>3. rwire'[1] = Mask /\ n + 1 <= Len(rwire') /\ rwire' # <<>>
      <4>1. 1 \in 1 .. Len(rwire) - 1 /\ n + 1 <= Len(rwire) - 1
        BY <1>3, <1>4, <1>10, <2>3
      <4>2. rwire'[1] = Mask /\ n + 1 <= Len(rwire')
        BY <1>5, <2>3, <4>1
      <4>3. QED
        BY <1>4, <1>7, <1>10, <4>2, EmptySeq
    <3>4. ASSUME NEW j \in 2 .. n + 1 PROVE IsSample(rwire'[j])
      <4>1. j \in 1 .. Len(rwire) - 1 /\ j + 1 \in 1 + 2 .. 1 + 1 + n
        BY <1>3, <1>4, <2>3
      <4>2. QED
        BY <1>5, <2>3, <4>1
    <3>5. QED
      BY <3>2, <3>3, <3>4
  <2>4. QED
    BY <2>1, <2>2, <2>3
<1>11. WireInv'
  <2>1. rc'.maskPending <=> (rs'.newClient \/ ~NoMask(rwire'))
    BY <1>1, <1>6, <1>7, <1>9 DEF RxInv, WireInv
  <2>2. ASSUME rc'.pc = "mask"
        PROVE  /\ rc'.maskPending /\ rwire' # <<>> /\ rwire'[1] = Mask
               /\ rc'.left >= 1 /\ rc'.left + 1 <= Len(rwire')
               /\ \A j \in 2 .. rc'.left + 1 : IsSample(rwire'[j])
    BY <1>4, <1>6, <1>10, <2>2
  <2>3. ASSUME rc'.pc = "data"
        PROVE  /\ ~rc'.maskPending
               /\ rc'.left >= 1 /\ rc'.left <= Len(rwire')
               /\ \A j \in 1 .. rc'.left : IsSample(rwire'[j])
    BY <1>4, <1>6, <1>10, <2>3
  <2>4. QED
    BY <1>7, <2>1, <2>2, <2>3 DEF WireInv
<1>12. QED
  BY <1>7, <1>8, <1>11

(* The mask line is the only one, and before it came no samples.           *)
LEMMA MaskAtHead ==
  ASSUME RxInv, rwire # <<>>, rwire[1] = Mask, NEW k \in 1 .. Len(rwire)
  PROVE  ~rs.newClient /\ NoMask(SubSeq(rwire, k + 1, Len(rwire)))
<1>1. /\ rwire \in Seq(RxToken) /\ Len(rwire) >= 1 /\ Len(rwire) \in Nat
      /\ rwire[1] \in RxToken /\ rwire[1].kind # "ret"
  <2>1. rwire \in Seq(RxToken)
    BY DEF RxInv, RxTypeOK
  <2>2. Len(rwire) >= 1 /\ Len(rwire) \in Nat
    BY <2>1, EmptySeq
  <2>3. rwire[1].kind # "ret"
    BY DEF Mask
  <2>4. QED
    BY <2>1, <2>2, <2>3, ElementOfSeq
<1>2. ~rs.newClient
  <2>1. 1 \in 1 .. Len(rwire)
    BY <1>1
  <2>2. ~NoSamples(rwire)
    BY <1>1, <2>1 DEF NoSamples
  <2>3. QED
    BY <2>2 DEF RxInv, WireInv
<1> DEFINE v == SubSeq(rwire, k + 1, Len(rwire))
<1>3. /\ Len(v) = Len(rwire) - k
      /\ \A i \in 1 .. Len(rwire) - k : v[i] = rwire[i + k]
  <2>1. k \in 0 .. Len(rwire)
    BY <1>1
  <2>2. QED
    BY <1>1, <2>1, Dropped
<1> HIDE DEF v
<1>4. NoMask(v)
  <2> SUFFICES ASSUME NEW i \in 1 .. Len(v), v[i] = Mask PROVE FALSE
    BY DEF NoMask
  <2>1. i + k \in 1 .. Len(rwire) /\ rwire[i + k] = Mask /\ 1 \in 1 .. i + k - 1
    BY <1>1, <1>3
  <2>2. rwire[1].kind = "ret"
    BY <2>1 DEF RxInv, WireInv, MaskFirst
  <2>3. QED
    BY <1>1, <2>2
<1>5. QED
  BY <1>2, <1>4 DEF v

(* A sample at the head of the line: the mask is long gone.                *)
LEMMA SampleAtHead ==
  ASSUME RxInv, rwire # <<>>, IsSample(rwire[1])
  PROVE  ~rs.newClient /\ NoMask(rwire) /\ ~rc.maskPending
<1>1. /\ rwire \in Seq(RxToken) /\ Len(rwire) >= 1 /\ Len(rwire) \in Nat
      /\ rwire[1].kind = "sample"
  <2>1. rwire \in Seq(RxToken)
    BY DEF RxInv, RxTypeOK
  <2>2. Len(rwire) >= 1 /\ Len(rwire) \in Nat
    BY <2>1, EmptySeq
  <2>3. QED
    BY <2>1, <2>2 DEF IsSample
<1>2. ~rs.newClient
  <2>1. 1 \in 1 .. Len(rwire)
    BY <1>1
  <2>2. ~NoSamples(rwire)
    BY <1>1, <2>1 DEF NoSamples
  <2>3. QED
    BY <2>2 DEF RxInv, WireInv
<1>3. NoMask(rwire)
  <2> SUFFICES ASSUME NEW i \in 1 .. Len(rwire), rwire[i] = Mask PROVE FALSE
    BY DEF NoMask
  <2>1. i # 1
    BY <1>1 DEF Mask
  <2>2. 1 \in 1 .. i - 1
    BY <1>1, <2>1
  <2>3. rwire[1].kind = "ret"
    BY <2>2 DEF RxInv, WireInv, MaskFirst
  <2>4. QED
    BY <1>1, <2>3
<1>4. QED
  BY <1>2, <1>3 DEF RxInv, WireInv

LEMMA ReadMaskStep ==
  ASSUME RxInv, ReadMask
  PROVE  RxTypeOK' /\ WireInv' /\ LineInv'
<1>1. /\ rc.pc = "mask" /\ rwire # <<>> /\ Head(rwire) = Mask
      /\ rc' = [rc EXCEPT !.pc = "data", !.maskPending = FALSE]
      /\ rwire' = Tail(rwire)
      /\ UNCHANGED <<rxPos, placed, heard, rs>>
  BY DEF ReadMask, air, history
<1>2. rwire \in Seq(RxToken)
  BY DEF RxInv, RxTypeOK
<1>3. rwire' = SubSeq(rwire, 1 + 1, Len(rwire)) /\ rwire[1] = Mask /\ Len(rwire) >= 1
  BY <1>1, <1>2, TailDrops
<1>4. 1 \in 0 .. Len(rwire) /\ 1 \in 1 .. Len(rwire)
  BY <1>2, <1>3
<1>5. /\ Len(rwire') = Len(rwire) - 1
      /\ \A i \in 1 .. Len(rwire) - 1 : rwire'[i] = rwire[i + 1]
  BY <1>2, <1>3, <1>4, Dropped
<1>6. /\ rc' \in [pc : {"ready", "ret", "mask", "data", "done"}, maskPending : BOOLEAN,
                  left : Nat, out : Seq(SampleToken), calls : Nat]
      /\ rc'.pc = "data" /\ rc'.maskPending = FALSE
      /\ rc'.left = rc.left /\ rc'.out = rc.out
  BY <1>1 DEF RxInv, RxTypeOK
<1>7. ~rs.newClient /\ NoMask(rwire')
  BY <1>1, <1>3, <1>4, MaskAtHead
<1>8. /\ rwire' \in Seq(RxToken) /\ heard' \in Seq(SampleToken)
      /\ Announced(rwire') /\ MaskFirst(rwire') /\ LineInv'
      /\ rs'.newClient => NoSamples(rwire')
  BY <1>1, <1>3, <1>4, <1>6, DropStep
<1>9. RxTypeOK'
  BY <1>1, <1>6, <1>8 DEF RxInv, RxTypeOK
<1>10. WireInv'
  <2>1. /\ rc.left >= 1 /\ rc.left + 1 <= Len(rwire) /\ rc.left \in Nat
        /\ \A j \in 2 .. rc.left + 1 : IsSample(rwire[j])
    BY <1>1 DEF RxInv, WireInv, RxTypeOK
  <2>2. rc'.left <= Len(rwire')
    BY <1>2, <1>5, <1>6, <2>1
  <2>3. ASSUME NEW j \in 1 .. rc'.left PROVE IsSample(rwire'[j])
    <3>1. j \in 1 .. Len(rwire) - 1 /\ j + 1 \in 2 .. rc.left + 1
      BY <1>2, <1>6, <2>1
    <3>2. QED
      BY <1>5, <2>1, <3>1
  <2>4. QED
    BY <1>1, <1>6, <1>7, <1>8, <2>1, <2>2, <2>3 DEF WireInv
<1>11. QED
  BY <1>8, <1>9, <1>10

LEMMA ReadGarbageStep ==
  ASSUME RxInv, ReadGarbage
  PROVE  RxTypeOK' /\ WireInv' /\ LineInv' /\ rc.pc = "ret" /\ rwire[1].kind # "ret"
<1>1. /\ rc.pc = "ret" /\ rwire # <<>>
      /\ IsSample(Head(rwire)) \/ Head(rwire) = Mask
      /\ rc' = [RxFails EXCEPT !.maskPending = @ /\ Head(rwire) # Mask]
      /\ UNCHANGED <<rxPos, placed, heard, rs>>
  BY DEF ReadGarbage, air, history
<1>2. PICK k \in 1 .. Len(rwire) : rwire' = SubSeq(rwire, k + 1, Len(rwire))
  BY DEF ReadGarbage
<1>3. rwire \in Seq(RxToken) /\ Len(rwire) \in Nat
  BY DEF RxInv, RxTypeOK
<1>4. Head(rwire) = rwire[1]
  BY <1>1, <1>3, TailDrops
<1>5. k \in 0 .. Len(rwire)
  BY <1>3
<1>6. rc.pc = "ret" /\ (IsSample(rwire[1]) \/ rwire[1] = Mask)
  BY <1>1, <1>4
<1>7. ~rs.newClient /\ NoMask(rwire') /\ (rwire[1] = Mask \/ ~rc.maskPending)
  <2>1. CASE rwire[1] = Mask
    BY <1>1, <1>2, <2>1, MaskAtHead
  <2>2. CASE IsSample(rwire[1])
    <3>1. ~rs.newClient /\ NoMask(rwire) /\ ~rc.maskPending
      BY <1>1, <2>2, SampleAtHead
    <3>2. NoMask(rwire')
      BY <1>2, <1>3, <1>5, <3>1, DropKeepsFormat DEF RxInv, WireInv
    <3>3. QED
      BY <3>1, <3>2
  <2>3. QED
    BY <1>6, <2>1, <2>2
<1>8. /\ rc' \in [pc : {"ready", "ret", "mask", "data", "done"}, maskPending : BOOLEAN,
                  left : Nat, out : Seq(SampleToken), calls : Nat]
      /\ rc'.pc = "ready" /\ rc'.maskPending = FALSE /\ rc'.out = <<>>
  <2>1. rc.maskPending \in BOOLEAN /\ <<>> \in Seq(SampleToken)
    BY DEF RxInv, RxTypeOK
  <2>2. (rc.maskPending /\ Head(rwire) # Mask) = FALSE
    BY <1>4, <1>7
  <2>3. rc' = [[rc EXCEPT !.pc = "ready", !.out = <<>>] EXCEPT !.maskPending = FALSE]
    BY <1>1, <2>2 DEF RxInv, RxTypeOK, RxFails
  <2>4. QED
    BY <2>1, <2>3 DEF RxInv, RxTypeOK
<1>9. /\ rwire' \in Seq(RxToken) /\ heard' \in Seq(SampleToken)
      /\ Announced(rwire') /\ MaskFirst(rwire') /\ LineInv'
      /\ rs'.newClient => NoSamples(rwire')
  BY <1>1, <1>2, <1>5, <1>8, DropStep
<1>10. RxTypeOK'
  BY <1>1, <1>8, <1>9 DEF RxInv, RxTypeOK
<1>11. WireInv'
  BY <1>1, <1>7, <1>8, <1>9 DEF WireInv
<1>12. QED
  BY <1>6, <1>9, <1>10, <1>11 DEF Mask, IsSample

LEMMA ReadDataStep ==
  ASSUME RxInv, ReadData
  PROVE  /\ RxTypeOK' /\ WireInv' /\ LineInv'
         /\ Len(rc'.out) = Len(rc.out) + rc.left
         /\ rc'.pc = IF Len(rc'.out) >= Buf THEN "done" ELSE "ret"
         /\ rc'.maskPending = FALSE /\ rc.maskPending = FALSE
<1> DEFINE k == rc.left
           taken == SubSeq(rwire, 1, k)
           out == rc.out \o taken
<1>1. /\ rc.pc = "data" /\ Len(rwire) >= k
      /\ rc' = [rc EXCEPT !.out = out, !.pc = IF Len(out) >= Buf THEN "done" ELSE "ret"]
      /\ rwire' = SubSeq(rwire, k + 1, Len(rwire))
      /\ UNCHANGED <<rxPos, placed, heard, rs>>
  BY DEF ReadData, air, history
<1>2. /\ rwire \in Seq(RxToken) /\ Len(rwire) \in Nat /\ k \in 0 .. Len(rwire)
      /\ rc.out \in Seq(SampleToken) /\ heard \in Seq(SampleToken) /\ heard \in Seq(RxToken)
      /\ rc.out \in Seq(RxToken)
  <2>1. SampleToken \subseteq RxToken
    BY DEF RxToken
  <2>2. k \in Nat /\ rc.out \in Seq(SampleToken) /\ rwire \in Seq(RxToken)
        /\ heard \in Seq(SampleToken)
    BY DEF RxInv, RxTypeOK
  <2>3. QED
    BY <1>1, <2>1, <2>2, SeqMonotonic
<1>3. ~rc.maskPending /\ \A j \in 1 .. k : IsSample(rwire[j])
  BY <1>1 DEF RxInv, WireInv
<1>4. /\ taken \in Seq(SampleToken) /\ taken \in Seq(RxToken) /\ Len(taken) = k
      /\ \A i \in 1 .. k : taken[i] = rwire[i]
  <2>1. /\ taken \in Seq(RxToken) /\ Len(taken) = k
        /\ \A i \in 1 .. k : taken[i] = rwire[i]
    BY <1>2, Taken
  <2>2. \A i \in 1 .. k : rwire[i] \in SampleToken
    <3>1. \A i \in 1 .. k : rwire[i] \in RxToken /\ IsSample(rwire[i])
      BY <1>2, <1>3, ElementOfSeq
    <3>2. QED
      BY <3>1, Kinds
  <2>3. taken \in Seq(SampleToken)
    BY <1>2, <2>2, SubSeqProperties
  <2>4. QED
    BY <2>1, <2>3
<1>5. /\ rwire' \in Seq(RxToken) /\ Len(rwire') = Len(rwire) - k
      /\ \A i \in 1 .. Len(rwire) - k : rwire'[i] = rwire[i + k]
  BY <1>1, <1>2, Dropped
<1>6. out \in Seq(SampleToken) /\ Len(out) = Len(rc.out) + k
  BY <1>2, <1>4, ConcatProperties
<1> HIDE DEF out, taken
<1>7. /\ rc' \in [pc : {"ready", "ret", "mask", "data", "done"}, maskPending : BOOLEAN,
                  left : Nat, out : Seq(SampleToken), calls : Nat]
      /\ rc'.pc = IF Len(out) >= Buf THEN "done" ELSE "ret"
      /\ rc'.maskPending = rc.maskPending
      /\ rc'.out = out
  <2>1. CASE Len(out) >= Buf
    BY <1>1, <1>6, <2>1 DEF RxInv, RxTypeOK
  <2>2. CASE ~(Len(out) >= Buf)
    BY <1>1, <1>6, <2>2 DEF RxInv, RxTypeOK
  <2>3. QED
    BY <2>1, <2>2
<1>8. /\ Announced(rwire') /\ MaskFirst(rwire')
      /\ NoMask(rwire) => NoMask(rwire')
      /\ NoSamples(rwire) => NoSamples(rwire')
  BY <1>1, <1>2, DropKeepsFormat DEF RxInv, WireInv
<1>9. RxTypeOK'
  BY <1>1, <1>2, <1>5, <1>7 DEF RxInv, RxTypeOK
<1>10. WireInv'
  <2>1. NoMask(rwire) /\ ~rs.newClient
    BY <1>3 DEF RxInv, WireInv
  <2>2. rc'.pc \notin {"mask", "data"}
    BY <1>7
  <2>3. QED
    BY <1>1, <1>3, <1>7, <1>8, <2>1, <2>2 DEF WireInv
<1>11. LineInv'
  <2>1. /\ AllOnAir(taken, placed, rxPos) /\ Ascending(taken)
        /\ Before(heard, taken) /\ Before(rc.out, taken)
    <3>1. \A i \in 1 .. Len(taken) : i \in 1 .. Len(rwire) /\ taken[i] = rwire[i]
      BY <1>2, <1>4
    <3>2. AllOnAir(taken, placed, rxPos)
      BY <3>1 DEF RxInv, LineInv, AllOnAir
    <3>3. Ascending(taken)
      BY <3>1 DEF RxInv, LineInv, Ascending
    <3>4. Before(heard, taken) /\ Before(rc.out, taken)
      BY <3>1 DEF RxInv, LineInv, Before
    <3>5. QED
      BY <3>2, <3>3, <3>4
  <2>2. /\ AllOnAir(out, placed, rxPos) /\ Ascending(out) /\ Before(heard, out)
    BY <1>2, <1>4, <2>1, JoinKeepsOrder DEF RxInv, LineInv, out
  <2>3. /\ AllOnAir(rwire', placed, rxPos) /\ Ascending(rwire')
        /\ Before(heard, rwire') /\ Before(rc.out, rwire')
    BY <1>1, <1>2, DropKeepsOrder DEF RxInv, LineInv
  <2>4. Before(taken, rwire')
    <3> SUFFICES ASSUME NEW i \in 1 .. Len(taken), NEW j \in 1 .. Len(rwire'),
                        IsSample(taken[i]), IsSample(rwire'[j])
                 PROVE  taken[i].at < rwire'[j].at
      BY DEF Before
    <3>1. /\ i \in 1 .. Len(rwire) /\ j + k \in 1 .. Len(rwire) /\ i < j + k
          /\ taken[i] = rwire[i] /\ rwire'[j] = rwire[j + k]
      BY <1>2, <1>4, <1>5, SMTT(30)
    <3>2. QED
      BY <3>1 DEF RxInv, LineInv, Ascending
  <2>5. Before(out, rwire')
    BY <1>2, <1>4, <2>3, <2>4, JoinKeepsOrder DEF out
  <2>6. QED
    BY <1>1, <1>7, <2>2, <2>3, <2>5 DEF RxInv, LineInv
<1>12. rc.maskPending = FALSE
  BY <1>3 DEF RxInv, RxTypeOK
<1>13. QED
  BY <1>6, <1>7, <1>9, <1>10, <1>11, <1>12

LEMMA RecvReturnsStep ==
  ASSUME RxInv, RecvReturns
  PROVE  RxTypeOK' /\ WireInv' /\ LineInv'
<1>1. /\ rc.pc = "done" /\ heard' = heard \o rc.out
      /\ rc' = [rc EXCEPT !.pc = "ready", !.out = <<>>]
      /\ UNCHANGED <<rxPos, placed, rwire, rs>>
  BY DEF RecvReturns, RxFails, air
<1>2. <<>> \in Seq(SampleToken)
  OBVIOUS
<1>3. /\ rc' \in [pc : {"ready", "ret", "mask", "data", "done"}, maskPending : BOOLEAN,
                  left : Nat, out : Seq(SampleToken), calls : Nat]
      /\ rc'.pc = "ready" /\ rc'.maskPending = rc.maskPending /\ rc'.out = <<>>
  BY <1>1, <1>2 DEF RxInv, RxTypeOK
<1>4. /\ heard \in Seq(SampleToken) /\ rc.out \in Seq(SampleToken)
      /\ heard \in Seq(RxToken) /\ rc.out \in Seq(RxToken)
  <2>1. heard \in Seq(SampleToken) /\ rc.out \in Seq(SampleToken)
    BY DEF RxInv, RxTypeOK
  <2>2. SampleToken \subseteq RxToken
    BY DEF RxToken
  <2>3. QED
    BY <2>1, <2>2, SeqMonotonic
<1>5. heard' \in Seq(SampleToken)
  BY <1>1, <1>4, ConcatProperties
<1>6. RxTypeOK'
  BY <1>1, <1>3, <1>5 DEF RxInv, RxTypeOK
<1>7. WireInv'
  BY <1>1, <1>3 DEF RxInv, WireInv
<1>8. /\ AllOnAir(heard', placed, rxPos) /\ Ascending(heard') /\ Before(heard', rwire)
  BY <1>1, <1>4, JoinKeepsOrder DEF RxInv, LineInv
<1>9. LineInv'
  BY <1>1, <1>3, <1>8, NothingHeard DEF RxInv, LineInv
<1>10. QED
  BY <1>6, <1>7, <1>9

LEMMA RecvTimesOutStep ==
  ASSUME RxInv, RecvTimesOut
  PROVE  RxTypeOK' /\ WireInv' /\ LineInv'
<1>1. /\ rc' = [rc EXCEPT !.pc = "ready", !.out = <<>>]
      /\ UNCHANGED <<rxPos, placed, heard, rs>>
  BY DEF RecvTimesOut, RxFails, air, history
<1>2. PICK k \in 0 .. (IF rc.pc = "data" /\ Len(rwire) >= rc.left THEN rc.left - 1 ELSE 0) :
        rwire' = SubSeq(rwire, k + 1, Len(rwire))
  BY DEF RecvTimesOut
<1>3. rwire \in Seq(RxToken) /\ Len(rwire) \in Nat /\ rc.left \in Nat
  BY DEF RxInv, RxTypeOK
<1>4. k \in 0 .. Len(rwire) /\ (k = 0 \/ rc.pc = "data")
  BY <1>2, <1>3
<1>5. <<>> \in Seq(SampleToken)
  OBVIOUS
<1>6. /\ rc' \in [pc : {"ready", "ret", "mask", "data", "done"}, maskPending : BOOLEAN,
                  left : Nat, out : Seq(SampleToken), calls : Nat]
      /\ rc'.pc = "ready" /\ rc'.maskPending = rc.maskPending /\ rc'.out = <<>>
  BY <1>1, <1>5 DEF RxInv, RxTypeOK
<1>7. /\ rwire' \in Seq(RxToken) /\ heard' \in Seq(SampleToken)
      /\ Announced(rwire') /\ MaskFirst(rwire') /\ LineInv'
      /\ NoMask(rwire) => NoMask(rwire')
      /\ rs'.newClient => NoSamples(rwire')
  BY <1>1, <1>2, <1>4, <1>6, DropStep
<1>8. RxTypeOK'
  BY <1>1, <1>6, <1>7 DEF RxInv, RxTypeOK
<1>9. rc.maskPending <=> (rs.newClient \/ ~NoMask(rwire'))
  <2>1. CASE k = 0
    <3>1. rwire' = rwire
      BY <1>2, <1>3, <2>1, SubSeqFull
    <3>2. QED
      BY <3>1 DEF RxInv, WireInv
  <2>2. CASE rc.pc = "data"
    BY <1>7, <2>2 DEF RxInv, WireInv
  <2>3. QED
    BY <1>4, <2>1, <2>2
<1>10. WireInv'
  BY <1>1, <1>6, <1>7, <1>9 DEF WireInv
<1>11. QED
  BY <1>7, <1>8, <1>10

-----------------------------------------------------------------------------
(* What radio 2's server appends to the line.                              *)

(* A size, perhaps the mask, and the samples.                              *)
IsPiece(c, s, m) ==
  /\ c \in Seq(RxToken) /\ Len(c) = 1 + Len(m) + Len(s)
  /\ c[1] = Ret(Len(s)) /\ (m = <<Mask>> => c[2] = Mask)
  /\ \A i \in 1 .. Len(s) : c[i + 1 + Len(m)] = s[i]

LEMMA Piece ==
  ASSUME NEW s \in Seq(SampleToken), Len(s) >= 1, NEW m \in {<<>>, <<Mask>>},
         NEW c, c = <<Ret(Len(s))>> \o m \o s
  PROVE  IsPiece(c, s, m)
<1>1. /\ <<Ret(Len(s))>> \in Seq(RxToken) /\ Len(<<Ret(Len(s))>>) = 1
      /\ <<Ret(Len(s))>>[1] = Ret(Len(s))
  <2>1. Ret(Len(s)) \in RxToken
    BY DEF Ret, RxToken, RetToken
  <2>2. QED
    BY <2>1
<1>2. m \in Seq(RxToken) /\ Len(m) \in 0 .. 1 /\ (m = <<Mask>> => Len(m) = 1 /\ m[1] = Mask)
  <2>1. Mask \in RxToken
    BY DEF RxToken
  <2>2. CASE m = <<>>
    BY <2>2
  <2>3. CASE m = <<Mask>>
    BY <2>1, <2>3
  <2>4. QED
    BY <2>2, <2>3
<1>3. s \in Seq(RxToken) /\ Len(s) \in Nat
  <2>1. SampleToken \subseteq RxToken
    BY DEF RxToken
  <2>2. QED
    BY <2>1, SeqMonotonic
<1> DEFINE h == <<Ret(Len(s))>>
           g == h \o m
<1>4. /\ g \in Seq(RxToken) /\ Len(g) = 1 + Len(m) /\ g[1] = Ret(Len(s))
      /\ m = <<Mask>> => g[2] = Mask
  <2> HIDE DEF h
  <2>1. /\ g \in Seq(RxToken) /\ Len(g) = Len(h) + Len(m)
        /\ \A i \in 1 .. Len(h) + Len(m) : g[i] = IF i <= Len(h) THEN h[i] ELSE m[i - Len(h)]
    BY <1>1, <1>2, ConcatProperties DEF h
  <2>2. Len(h) = 1 /\ h[1] = Ret(Len(s))
    BY <1>1 DEF h
  <2>3. QED
    BY <1>2, <2>1, <2>2
<1>9. c = g \o s
  OBVIOUS
<1> HIDE DEF g, h
<1>5. /\ c \in Seq(RxToken) /\ Len(c) = Len(g) + Len(s)
      /\ \A i \in 1 .. Len(g) + Len(s) : c[i] = IF i <= Len(g) THEN g[i] ELSE s[i - Len(g)]
  <2>1. g \in Seq(RxToken) /\ s \in Seq(RxToken)
    BY <1>3, <1>4
  <2>2. QED
    <3>1. /\ g \o s \in Seq(RxToken) /\ Len(g \o s) = Len(g) + Len(s)
          /\ \A i \in 1 .. Len(g) + Len(s) :
               (g \o s)[i] = IF i <= Len(g) THEN g[i] ELSE s[i - Len(g)]
      BY <2>1, ConcatProperties
    <3>2. QED
      BY <1>9, <3>1
<1>6. \A i \in 1 .. Len(s) : c[i + 1 + Len(m)] = s[i]
  <2> SUFFICES ASSUME NEW i \in 1 .. Len(s) PROVE c[i + 1 + Len(m)] = s[i]
    OBVIOUS
  <2>1. /\ i + 1 + Len(m) \in 1 .. Len(g) + Len(s) /\ ~(i + 1 + Len(m) <= Len(g))
        /\ i + 1 + Len(m) - Len(g) = i
    BY <1>2, <1>3, <1>4
  <2>2. QED
    BY <1>5, <2>1
<1>7. c[1] = Ret(Len(s)) /\ (m = <<Mask>> => c[2] = Mask)
  BY <1>2, <1>3, <1>4, <1>5
<1>8. QED
  BY <1>2, <1>3, <1>4, <1>5, <1>6, <1>7 DEF IsPiece

(* A piece is well formed, and its samples are those of s.                 *)
LEMMA PieceFormat ==
  ASSUME NEW s \in Seq(SampleToken), Len(s) >= 1, NEW m \in {<<>>, <<Mask>>},
         NEW c, c = <<Ret(Len(s))>> \o m \o s
  PROVE  /\ c \in Seq(RxToken) /\ Announced(c) /\ MaskFirst(c)
         /\ NoMask(c) <=> m = <<>>
         /\ \A p, pos : AllOnAir(s, p, pos) => AllOnAir(c, p, pos)
         /\ Ascending(s) => Ascending(c)
         /\ \A t : (Before(t, s) => Before(t, c)) /\ (Before(s, t) => Before(c, t))
<1>1. /\ c \in Seq(RxToken) /\ Len(c) = 1 + Len(m) + Len(s)
      /\ c[1] = Ret(Len(s)) /\ (m = <<Mask>> => c[2] = Mask)
      /\ \A i \in 1 .. Len(s) : c[i + 1 + Len(m)] = s[i]
  BY Piece, ZenonT(30) DEF IsPiece
<1>2. /\ Len(s) \in Nat /\ \A i \in 1 .. Len(s) : s[i] \in SampleToken
      /\ (m = <<>> /\ Len(m) = 0) \/ (m = <<Mask>> /\ m # <<>> /\ Len(m) = 1)
  BY ElementOfSeq
<1>3. \A i \in 1 .. Len(c) :
        \/ i = 1 /\ c[i] = Ret(Len(s))
        \/ i = 2 /\ m = <<Mask>> /\ c[i] = Mask
        \/ i - 1 - Len(m) \in 1 .. Len(s) /\ c[i] = s[i - 1 - Len(m)]
  <2> SUFFICES ASSUME NEW i \in 1 .. Len(c), i # 1, ~(i = 2 /\ m = <<Mask>>)
               PROVE  i - 1 - Len(m) \in 1 .. Len(s) /\ c[i] = s[i - 1 - Len(m)]
    BY <1>1
  <2>1. i - 1 - Len(m) \in 1 .. Len(s) /\ i - 1 - Len(m) + 1 + Len(m) = i
    BY <1>1, <1>2
  <2>2. QED
    BY <1>1, <2>1
<1>4. \A i \in 1 .. Len(s) : s[i].kind = "sample" /\ s[i] # Mask
  BY <1>2 DEF SampleToken, Mask
<1>5. Announced(c)
  <2> SUFFICES ASSUME NEW i \in 1 .. Len(c), c[i].kind = "ret", c[i].n > 0
               PROVE  \/ /\ i + c[i].n <= Len(c)
                         /\ \A j \in i + 1 .. i + c[i].n : IsSample(c[j])
                      \/ /\ i + 1 + c[i].n <= Len(c)
                         /\ c[i + 1] = Mask
                         /\ \A j \in i + 2 .. i + 1 + c[i].n : IsSample(c[j])
    BY DEF Announced
  <2>1. i = 1 /\ c[i].n = Len(s)
    BY <1>1, <1>3, <1>4 DEF Mask, Ret
  <2>2. CASE Len(m) = 0
    <3>1. \A j \in 2 .. 1 + Len(s) : IsSample(c[j])
      BY <1>1, <1>2, <1>3, <1>4, <2>2 DEF IsSample
    <3>2. QED
      BY <1>1, <1>2, <2>1, <2>2, <3>1
  <2>3. CASE Len(m) = 1 /\ m = <<Mask>>
    <3>1. \A j \in 3 .. 2 + Len(s) : IsSample(c[j])
      BY <1>1, <1>2, <1>3, <1>4, <2>3 DEF IsSample
    <3>2. QED
      BY <1>1, <1>2, <2>1, <2>3, <3>1
  <2>4. QED
    BY <1>2, <2>2, <2>3
<1>6. MaskFirst(c)
  <2> SUFFICES ASSUME NEW i \in 1 .. Len(c), c[i] = Mask, NEW j \in 1 .. i - 1
               PROVE  c[j].kind = "ret"
    BY DEF MaskFirst
  <2>1. i \in 1 .. 2
    BY <1>3, <1>4
  <2>2. j = 1
    BY <2>1
  <2>3. QED
    BY <1>1, <2>2 DEF Ret
<1>7. NoMask(c) <=> m = <<>>
  <2>1. ASSUME m = <<>> PROVE NoMask(c)
    <3>1. Ret(Len(s)) # Mask
      BY DEF Ret, Mask
    <3>2. QED
      BY <1>2, <1>3, <1>4, <2>1, <3>1 DEF NoMask
  <2>2. ASSUME m = <<Mask>> PROVE ~NoMask(c)
    <3>1. 2 \in 1 .. Len(c) /\ c[2] = Mask
      BY <1>1, <1>2, <2>2
    <3>2. QED
      BY <3>1 DEF NoMask
  <2>3. QED
    BY <1>2, <2>1, <2>2
<1>8. \A i \in 1 .. Len(c) : IsSample(c[i]) =>
         i - 1 - Len(m) \in 1 .. Len(s) /\ c[i] = s[i - 1 - Len(m)]
  BY <1>3 DEF IsSample, Ret, Mask
<1>9. ASSUME NEW p, NEW pos, AllOnAir(s, p, pos) PROVE AllOnAir(c, p, pos)
  BY <1>8, <1>9 DEF AllOnAir
<1>10. ASSUME Ascending(s) PROVE Ascending(c)
  <2> SUFFICES ASSUME NEW i \in 1 .. Len(c), NEW j \in 1 .. Len(c),
                      i < j, IsSample(c[i]), IsSample(c[j])
               PROVE  c[i].at < c[j].at
    BY DEF Ascending
  <2>1. i - 1 - Len(m) < j - 1 - Len(m)
    BY <1>1, <1>2
  <2>2. QED
    BY <1>8, <1>10, <2>1 DEF Ascending
<1>11. ASSUME NEW t PROVE (Before(t, s) => Before(t, c)) /\ (Before(s, t) => Before(c, t))
  BY <1>8 DEF Before
<1>12. QED
  BY <1>1, <1>5, <1>6, <1>7, <1>9, <1>10, <1>11

(* The end of a short read, and an error.                                  *)
LEMMA LoneRet ==
  ASSUME NEW n \in Int, n <= 0
  PROVE  /\ <<Ret(n)>> \in Seq(RxToken)
         /\ Announced(<<Ret(n)>>) /\ MaskFirst(<<Ret(n)>>)
         /\ NoMask(<<Ret(n)>>) /\ NoSamples(<<Ret(n)>>)
         /\ \A p, pos : AllOnAir(<<Ret(n)>>, p, pos)
         /\ Ascending(<<Ret(n)>>)
         /\ \A t : Before(t, <<Ret(n)>>) /\ Before(<<Ret(n)>>, t)
<1> DEFINE w == <<Ret(n)>>
<1>1. Ret(n) \in RxToken /\ Ret(n).kind = "ret" /\ Ret(n).n = n
  BY DEF Ret, RxToken, RetToken
<1>2. w \in Seq(RxToken) /\ Len(w) = 1 /\ w[1] = Ret(n)
  BY <1>1
<1> HIDE DEF w
<1>3. \A i \in 1 .. Len(w) : i = 1 /\ w[i].kind = "ret" /\ w[i].n = n
  BY <1>1, <1>2
<1>4. \A i \in 1 .. Len(w) : w[i] # Mask /\ ~IsSample(w[i])
  BY <1>3 DEF Mask, IsSample
<1>5. Announced(w) /\ MaskFirst(w) /\ NoMask(w) /\ NoSamples(w)
  BY <1>3, <1>4 DEF Announced, MaskFirst, NoMask, NoSamples
<1>6. /\ \A p, pos : AllOnAir(w, p, pos)
      /\ Ascending(w)
      /\ \A t : Before(t, w) /\ Before(w, t)
  BY <1>4 DEF AllOnAir, Ascending, Before
<1>7. QED
  BY <1>2, <1>5, <1>6 DEF w

(* The samples Air::receive hands out: what is on the air from rs.from on. *)
LEMMA ReceivedIsOnAir ==
  ASSUME RxInv, AirInv, SampleAssumption, rs.pc = "receive"
  PROVE  /\ Received \in Seq(SampleToken) /\ Len(Received) = Buf
         /\ AllOnAir(Received, placed, rs.from + Buf)
         /\ Ascending(Received)
         /\ \A i \in 1 .. Buf : Received[i].at = rs.from + i - 1
<1>1. /\ now \in 0 .. MaxNow /\ tx.origin \in Nat /\ tx.buf \in Seq(Int)
      /\ rs.from \in Nat /\ placed \in [Position -> Int]
  BY DEF RxInv, AirTypeOK, RxTypeOK
<1>2. /\ Buf \in Nat \ {0} /\ LookBack \in Nat /\ MaxNow \in Nat /\ TxAhead \in Nat /\ Restart \in Nat
      /\ rs.from + Buf <= now
  BY DEF SampleAssumption, AirInv
<1>3. ASSUME NEW t \in rs.from .. rs.from + Buf - 1
      PROVE  /\ t \in Position /\ Sample(t, OnAir(t)) \in SampleToken
             /\ OnAir(t) = placed[t] \/ (now > t + LookBack /\ OnAir(t) = Silence)
  <2>1. t \in Position /\ t \in Nat
    <3>1. t \in Nat /\ t <= MaxNow
      BY <1>1, <1>2
    <3>2. MaxNow <= MaxNow + TxAhead + Restart + 2 * Buf
      BY <1>2
    <3>3. QED
      BY <1>2, <3>1, <3>2 DEF Position
  <2>2. TxEnd \in Int /\ Len(tx.buf) \in Nat
    BY <1>1, SMTT(30) DEF TxEnd
  <2>5. OnAir(t) = placed[t] \/ (now > t + LookBack /\ OnAir(t) = Silence)
    <3>1. CASE tx.origin <= t /\ t < TxEnd
      BY <2>1, <3>1 DEF OnAir, AirInv, Timeline, End, TxEnd
    <3>2. CASE t < tx.origin
      <4>1. OnAir(t) = Silence /\ (placed[t] # Silence => t + LookBack < now)
        BY <1>1, <2>1, <3>2, SMTT(30) DEF OnAir, AirInv, Timeline, End, TxEnd
      <4>2. QED
        BY <1>1, <1>2, <2>1, <4>1
    <3>3. CASE t >= TxEnd
      <4>1. OnAir(t) = Silence /\ placed[t] = Silence
        BY <2>1, <2>2, <3>3 DEF OnAir, AirInv, Timeline, End, TxEnd
      <4>2. QED
        BY <4>1
    <3>4. (tx.origin <= t /\ t < TxEnd) \/ t < tx.origin \/ t >= TxEnd
      BY <1>1, <2>1, <2>2, SMTT(30)
    <3>5. QED
      BY <3>1, <3>2, <3>3, <3>4
  <2>6. OnAir(t) \in Int /\ (now > t + LookBack) \in BOOLEAN
    BY <1>1, <2>1, <2>5 DEF Silence
  <2>7. Sample(t, OnAir(t)) \in SampleToken
    BY <2>1, <2>6 DEF Sample, SampleToken
  <2>8. QED
    BY <2>1, <2>5, <2>7
<1> DEFINE at(i) == rs.from + i - 1
<1>4. \A i \in 1 .. Buf : at(i) \in rs.from .. rs.from + Buf - 1
  BY <1>1, <1>2, SMTT(30)
<1>5. \A i \in 1 .. Buf : Sample(at(i), OnAir(at(i))) \in SampleToken
  BY <1>3, <1>4
<1>6. Received \in Seq(SampleToken) /\ Len(Received) = Buf
  BY <1>2, <1>5, IsASeq DEF Received
<1>7. \A i \in 1 .. Buf : Received[i] = Sample(at(i), OnAir(at(i)))
  BY DEF Received
<1>8. \A i \in 1 .. Buf :
        /\ Received[i].at = at(i)
        /\ IsOnAir(Received[i], placed, rs.from + Buf)
  <2> SUFFICES ASSUME NEW i \in 1 .. Buf
               PROVE  Received[i].at = at(i) /\ IsOnAir(Received[i], placed, rs.from + Buf)
    OBVIOUS
  <2>1. /\ Received[i].at = at(i) /\ Received[i].v = OnAir(at(i))
        /\ (now > at(i) + LookBack) => Received[i].late
    <3> HIDE DEF at
    <3>1. Received[i] = [kind |-> "sample", at |-> at(i), v |-> OnAir(at(i)),
                         late |-> now > at(i) + LookBack]
      BY <1>7 DEF Sample, at
    <3>2. Received[i].late = (now > at(i) + LookBack)
      BY <3>1
    <3>3. Received[i].at = at(i) /\ Received[i].v = OnAir(at(i))
      BY <3>1
    <3>4. QED
      BY <3>2, <3>3
  <2>2. at(i) \in rs.from .. rs.from + Buf - 1 /\ at(i) < rs.from + Buf
    BY <1>1, <1>2, SMTT(30)
  <2>3. OnAir(at(i)) = placed[at(i)] \/ (now > at(i) + LookBack /\ OnAir(at(i)) = Silence)
    BY <1>3, <2>2
  <2>4. QED
    BY <2>1, <2>2, <2>3 DEF IsOnAir
<1>9. Ascending(Received)
  <2> SUFFICES ASSUME NEW i \in 1 .. Buf, NEW j \in 1 .. Buf, i < j
               PROVE  Received[i].at < Received[j].at
    BY <1>6 DEF Ascending
  <2>1. at(i) < at(j)
    BY <1>1, <1>2
  <2>2. QED
    BY <1>8, <2>1
<1>10. QED
  BY <1>6, <1>8, <1>9 DEF AllOnAir

(* A complete answer to one READBUF.                                       *)
Reply(v) ==
  /\ v \in Seq(RxToken) /\ Announced(v) /\ MaskFirst(v)
  /\ AllOnAir(v, placed, rs.from + Buf) /\ Ascending(v)
  /\ \A i \in 1 .. Len(v) : IsSample(v[i]) => v[i].at >= rs.from

Appended(v) == rwire' = rwire \o v /\ rxPos' = rs.from + Buf

(* An answer, appended to a line that ends below where it begins.          *)
LEMMA ReplyJoins ==
  ASSUME RxInv, AirInv, SampleAssumption, rs.pc = "receive",
         NEW v, Reply(v), NoMask(v) \/ rs.newClient,
         Appended(v),
         UNCHANGED <<placed, heard, rc>>,
         rs'.newClient \in BOOLEAN,
         rs'.newClient => rs.newClient /\ NoSamples(v) /\ NoMask(v),
         ~rs'.newClient => (NoMask(v) <=> ~rs.newClient)
  PROVE  rwire' \in Seq(RxToken) /\ WireInv' /\ LineInv'
<1>1. /\ rwire \in Seq(RxToken) /\ Len(rwire) \in Nat /\ v \in Seq(RxToken) /\ Len(v) \in Nat
      /\ rs.from = rxPos /\ rxPos \in Nat /\ Buf \in Nat
  <2>1. rwire \in Seq(RxToken) /\ v \in Seq(RxToken) /\ rs.from = rxPos
    BY DEF RxInv, RxTypeOK, AirInv, Reply
  <2>2. rxPos \in Nat /\ Buf \in Nat
    BY DEF RxInv, AirTypeOK, SampleAssumption
  <2>3. QED
    BY <2>1, <2>2
<1>2. /\ rwire' \in Seq(RxToken) /\ Len(rwire') = Len(rwire) + Len(v)
      /\ \A i \in 1 .. Len(rwire) + Len(v) :
           rwire'[i] = IF i <= Len(rwire) THEN rwire[i] ELSE v[i - Len(rwire)]
      /\ rxPos' = rxPos + Buf
  <2>1. rwire' = rwire \o v /\ rxPos' = rs.from + Buf
    BY DEF Appended
  <2>2. QED
    BY <1>1, <2>1, ConcatProperties
<1>3. /\ Announced(rwire') /\ MaskFirst(rwire')
      /\ NoMask(rwire') <=> (NoMask(rwire) /\ NoMask(v))
      /\ (NoSamples(rwire) /\ NoSamples(v)) => NoSamples(rwire')
  <2>1. NoMask(v) \/ NoSamples(rwire)
    BY DEF RxInv, WireInv
  <2>2. Announced(rwire) /\ Announced(v) /\ MaskFirst(rwire) /\ MaskFirst(v)
    BY DEF RxInv, WireInv, Reply
  <2>3. QED
    BY <1>1, <2>1, <2>2, JoinKeepsFormat DEF Appended
<1>4. rc'.maskPending <=> (rs'.newClient \/ ~NoMask(rwire'))
  BY <1>3 DEF RxInv, WireInv
<1>5. rs'.newClient => NoSamples(rwire')
  BY <1>3 DEF RxInv, WireInv
<1>6. \A i \in 1 .. Len(rwire) : rwire'[i] = rwire[i]
  BY <1>1, <1>2
<1>7. rc'.pc = "mask" =>
        /\ rc'.maskPending /\ rwire' # <<>> /\ rwire'[1] = Mask
        /\ rc'.left >= 1 /\ rc'.left + 1 <= Len(rwire')
        /\ \A j \in 2 .. rc'.left + 1 : IsSample(rwire'[j])
  <2> SUFFICES ASSUME rc.pc = "mask"
               PROVE  /\ rc.maskPending /\ rwire' # <<>> /\ rwire'[1] = Mask
                      /\ rc.left >= 1 /\ rc.left + 1 <= Len(rwire')
                      /\ \A j \in 2 .. rc.left + 1 : IsSample(rwire'[j])
    OBVIOUS
  <2>1. /\ rc.maskPending /\ rwire[1] = Mask /\ rc.left \in Nat
        /\ rc.left >= 1 /\ rc.left + 1 <= Len(rwire)
        /\ \A j \in 2 .. rc.left + 1 : IsSample(rwire[j])
    BY DEF RxInv, WireInv, RxTypeOK
  <2>2. 1 \in 1 .. Len(rwire) /\ \A j \in 2 .. rc.left + 1 : j \in 1 .. Len(rwire)
    BY <1>1, <2>1, SMTT(30)
  <2>3. Len(rwire') >= 1 /\ rwire' # <<>>
    BY <1>1, <1>2, <2>1
  <2>4. QED
    BY <1>1, <1>2, <1>6, <2>1, <2>2, <2>3, SMTT(30)
<1>8. rc'.pc = "data" =>
        /\ ~rc'.maskPending
        /\ rc'.left >= 1 /\ rc'.left <= Len(rwire')
        /\ \A j \in 1 .. rc'.left : IsSample(rwire'[j])
  <2> SUFFICES ASSUME rc.pc = "data"
               PROVE  /\ ~rc.maskPending
                      /\ rc.left >= 1 /\ rc.left <= Len(rwire')
                      /\ \A j \in 1 .. rc.left : IsSample(rwire'[j])
    OBVIOUS
  <2>1. /\ ~rc.maskPending /\ rc.left \in Nat
        /\ rc.left >= 1 /\ rc.left <= Len(rwire)
        /\ \A j \in 1 .. rc.left : IsSample(rwire[j])
    BY DEF RxInv, WireInv, RxTypeOK
  <2>2. \A j \in 1 .. rc.left : j \in 1 .. Len(rwire)
    BY <1>1, <2>1
  <2>3. QED
    BY <1>1, <1>2, <1>6, <2>1, <2>2, SMTT(30)
<1>9. WireInv'
  BY <1>3, <1>4, <1>5, <1>7, <1>8 DEF WireInv
<1>10. \A s \in Seq(RxToken) :
         AllOnAir(s, placed, rxPos) => AllOnAir(s, placed, rxPos') /\ Before(s, v)
  <2> SUFFICES ASSUME NEW s \in Seq(RxToken), AllOnAir(s, placed, rxPos)
               PROVE  AllOnAir(s, placed, rxPos') /\ Before(s, v)
    OBVIOUS
  <2>1. ASSUME NEW w \in Seq(RxToken), NEW i \in 1 .. Len(w), IsSample(w[i])
        PROVE  w[i].at \in Nat
    BY <2>1, ElementOfSeq, Kinds DEF SampleToken
  <2>2. \A i \in 1 .. Len(s) : IsSample(s[i]) =>
          /\ s[i].at \in Nat /\ s[i].at < rxPos
          /\ s[i].v = placed[s[i].at] \/ (s[i].late /\ s[i].v = Silence)
    BY <2>1 DEF AllOnAir, IsOnAir
  <2>3. AllOnAir(s, placed, rxPos')
    <3> SUFFICES ASSUME NEW i \in 1 .. Len(s), IsSample(s[i])
                 PROVE  IsOnAir(s[i], placed, rxPos')
      BY DEF AllOnAir
    <3> DEFINE x == s[i].at
    <3>1. x \in Nat /\ x < rxPos
      BY <2>2
    <3> HIDE DEF x
    <3>2. x < rxPos'
      BY <1>1, <1>2, <3>1
    <3>3. QED
      BY <2>2, <3>2 DEF IsOnAir, x
  <2>4. \A i \in 1 .. Len(v) : IsSample(v[i]) => v[i].at \in Nat /\ v[i].at >= rxPos
    BY <1>1, <2>1 DEF Reply
  <2>5. Before(s, v)
    <3> SUFFICES ASSUME NEW i \in 1 .. Len(s), NEW j \in 1 .. Len(v), IsSample(s[i]), IsSample(v[j])
                 PROVE  s[i].at < v[j].at
      BY DEF Before
    <3> DEFINE x == s[i].at
               y == v[j].at
    <3>1. x \in Nat /\ x < rxPos /\ y \in Nat /\ y >= rxPos
      BY <2>2, <2>4
    <3> HIDE DEF x, y
    <3>2. x < y
      BY <1>1, <3>1, SMTT(30)
    <3>3. QED
      BY <3>2 DEF x, y
  <2>6. QED
    BY <2>3, <2>5
<1>11. AllOnAir(v, placed, rxPos') /\ Ascending(v)
  BY DEF Reply, Appended
<1>12. /\ AllOnAir(rwire', placed, rxPos') /\ Ascending(rwire')
       /\ \A s : (Before(s, rwire) /\ Before(s, v)) => Before(s, rwire')
  BY <1>1, <1>10, <1>11, JoinKeepsOrder DEF RxInv, LineInv, Appended
<1>13. LineInv'
  <2>1. heard \in Seq(RxToken) /\ rc.out \in Seq(RxToken)
    <3>1. SampleToken \subseteq RxToken
      BY DEF RxToken
    <3>2. QED
      BY <3>1, SeqMonotonic DEF RxInv, RxTypeOK
  <2>2. QED
    BY <1>1, <2>1, <1>10, <1>12 DEF RxInv, LineInv
<1>14. QED
  BY <1>2, <1>9, <1>13

FirstChunk(k) == Chunk(SubSeq(Received, 1, k))
SecondChunk(k, rest) ==
  IF rest THEN <<Ret(Buf - k)>> \o SubSeq(Received, k + 1, Buf) ELSE <<Ret(0)>>

(* The answers of the virtual Pluto and of iiod are complete.              *)
LEMMA WholeReply ==
  ASSUME RxInv, AirInv, SampleAssumption, rs.pc = "receive",
         NEW k \in 1 .. Buf,
         NEW v, v = FirstChunk(k)
  PROVE  /\ Reply(v) /\ (NoMask(v) <=> ~rs.newClient)
         /\ \A i \in 1 .. Len(v) : IsSample(v[i]) => v[i].at < rs.from + k
<1> DEFINE s == SubSeq(Received, 1, k)
<1>1. /\ Received \in Seq(SampleToken) /\ Len(Received) = Buf
      /\ AllOnAir(Received, placed, rs.from + Buf) /\ Ascending(Received)
      /\ \A i \in 1 .. Buf : Received[i].at = rs.from + i - 1
  BY ReceivedIsOnAir
<1>2. Buf \in Nat /\ rs.from \in Nat /\ k \in 0 .. Buf /\ k \in Nat /\ k >= 1
  BY Sizes DEF RxInv, RxTypeOK
<1>3. /\ s \in Seq(SampleToken) /\ Len(s) = k
      /\ \A i \in 1 .. k : s[i] = Received[i]
  BY <1>1, <1>2, Taken
<1> HIDE DEF s
<1>4. /\ AllOnAir(s, placed, rs.from + Buf) /\ Ascending(s)
      /\ \A i \in 1 .. Len(s) : s[i].at >= rs.from /\ s[i].at < rs.from + k
  <2>1. \A i \in 1 .. Len(s) : i \in 1 .. Buf /\ s[i] = Received[i]
    BY <1>2, <1>3
  <2>2. AllOnAir(s, placed, rs.from + Buf) /\ Ascending(s)
    BY <1>1, <2>1 DEF AllOnAir, Ascending
  <2>3. ASSUME NEW i \in 1 .. Len(s) PROVE s[i].at >= rs.from /\ s[i].at < rs.from + k
    <3>1. s[i].at = rs.from + i - 1 /\ i \in 1 .. k
      BY <1>1, <1>3, <2>1
    <3>2. QED
      BY <1>2, <3>1, SMTT(30)
  <2>4. QED
    BY <2>2, <2>3
<1>5. v = <<Ret(Len(s))>> \o MaskLine \o s /\ MaskLine \in {<<>>, <<Mask>>}
  BY DEF FirstChunk, Chunk, MaskLine, s
<1>6. MaskLine = <<>> <=> ~rs.newClient
  BY DEF MaskLine
<1>7. /\ v \in Seq(RxToken) /\ Announced(v) /\ MaskFirst(v)
      /\ NoMask(v) <=> MaskLine = <<>>
      /\ \A p, pos : AllOnAir(s, p, pos) => AllOnAir(v, p, pos)
      /\ Ascending(s) => Ascending(v)
  <2>1. Len(s) >= 1
    BY <1>2, <1>3
  <2> DEFINE m == MaskLine
  <2>2. m \in {<<>>, <<Mask>>} /\ v = <<Ret(Len(s))>> \o m \o s
    BY <1>5
  <2> HIDE DEF m
  <2>3. /\ v \in Seq(RxToken) /\ Announced(v) /\ MaskFirst(v)
        /\ NoMask(v) <=> m = <<>>
        /\ \A p, pos : AllOnAir(s, p, pos) => AllOnAir(v, p, pos)
        /\ Ascending(s) => Ascending(v)
    BY <1>3, <2>1, <2>2, PieceFormat
  <2>4. QED
    BY <2>3 DEF m
<1>8. \A i \in 1 .. Len(v) : IsSample(v[i]) => v[i].at >= rs.from /\ v[i].at < rs.from + k
  <2> DEFINE m == MaskLine
  <2>1. m \in {<<>>, <<Mask>>} /\ v = <<Ret(Len(s))>> \o m \o s
    BY <1>5
  <2> HIDE DEF m
  <2>2. Len(s) >= 1
    BY <1>2, <1>3
  <2>3. /\ Len(v) = 1 + Len(m) + Len(s)
        /\ v[1] = Ret(Len(s)) /\ (m = <<Mask>> => v[2] = Mask)
        /\ \A i \in 1 .. Len(s) : v[i + 1 + Len(m)] = s[i]
    <3>1. IsPiece(v, s, m)
      BY <1>3, <2>1, <2>2, Piece
    <3>2. QED
      BY <3>1 DEF IsPiece
  <2>4. PICK l \in 0 .. 1 : Len(m) = l /\ (l = 1 => m = <<Mask>>)
    BY <2>1
  <2>5. ASSUME NEW i \in 1 .. Len(v), IsSample(v[i])
        PROVE  i - 1 - l \in 1 .. Len(s) /\ v[i] = s[i - 1 - l]
    <3>1. i # 1 /\ (l = 1 => i # 2)
      BY <2>3, <2>4, <2>5, SMTT(30) DEF IsSample, Ret, Mask
    <3>2. i - 1 - l \in 1 .. Len(s) /\ i - 1 - l + 1 + l = i
      BY <1>2, <1>3, <2>3, <2>4, <3>1
    <3>3. QED
      BY <2>3, <2>4, <3>2
  <2>6. QED
    BY <1>4, <2>5
<1>9. QED
  BY <1>4, <1>6, <1>7, <1>8 DEF Reply

LEMMA SplitReply ==
  ASSUME RxInv, AirInv, SampleAssumption, rs.pc = "receive",
         NEW k \in 1 .. Buf - 1, NEW rest \in BOOLEAN,
         NEW a, a = FirstChunk(k),
         NEW b, b = SecondChunk(k, rest)
  PROVE  /\ a \in Seq(RxToken) /\ b \in Seq(RxToken)
         /\ Reply(a \o b) /\ (NoMask(a \o b) <=> ~rs.newClient)
<1>1. /\ Received \in Seq(SampleToken) /\ Len(Received) = Buf
      /\ AllOnAir(Received, placed, rs.from + Buf) /\ Ascending(Received)
      /\ \A i \in 1 .. Buf : Received[i].at = rs.from + i - 1
  BY ReceivedIsOnAir
<1>2. /\ Buf \in Nat /\ rs.from \in Nat /\ k \in 1 .. Buf /\ k \in 0 .. Buf
      /\ k \in Nat /\ k >= 1 /\ Buf - k \in Nat /\ Buf - k >= 1
  <2>1. rs.from \in Nat
    BY DEF RxInv, RxTypeOK
  <2>2. QED
    BY <2>1, Sizes
<1>3. /\ Reply(a) /\ (NoMask(a) <=> ~rs.newClient)
      /\ \A i \in 1 .. Len(a) : IsSample(a[i]) => a[i].at < rs.from + k
  BY <1>2, WholeReply
<1>4. /\ b \in Seq(RxToken) /\ Announced(b) /\ MaskFirst(b) /\ NoMask(b)
      /\ AllOnAir(b, placed, rs.from + Buf) /\ Ascending(b)
      /\ \A i \in 1 .. Len(b) : IsSample(b[i]) => b[i].at >= rs.from + k
  <2>1. CASE ~rest
    <3>1. b = <<Ret(0)>>
      BY <2>1 DEF SecondChunk
    <3>2. Len(b) = 1 /\ ~IsSample(b[1])
      BY <3>1 DEF Ret, IsSample
    <3>3. \A i \in 1 .. Len(b) : ~IsSample(b[i])
      BY <3>2
    <3>4. QED
      BY <3>1, <3>3, LoneRet
  <2>2. CASE rest
    <3> DEFINE s == SubSeq(Received, k + 1, Buf)
    <3>1. /\ s \in Seq(SampleToken) /\ Len(s) = Buf - k
          /\ \A i \in 1 .. Buf - k : s[i] = Received[i + k]
      BY <1>1, <1>2, Dropped, ZenonT(30)
    <3>2. b = <<Ret(Buf - k)>> \o s
      BY <2>2 DEF SecondChunk
    <3> HIDE DEF s
    <3>3. b = <<Ret(Len(s))>> \o <<>> \o s
      <4>1. <<Ret(Buf - k)>> \in Seq(RxToken)
        <5>1. Ret(Buf - k) \in RxToken
          BY <1>2 DEF Ret, RxToken, RetToken
        <5>2. QED
          BY <5>1
      <4>2. <<Ret(Buf - k)>> \o <<>> = <<Ret(Buf - k)>>
        BY <4>1, ConcatEmptySeq
      <4>3. QED
        BY <3>1, <3>2, <4>2
    <3>4. /\ AllOnAir(s, placed, rs.from + Buf) /\ Ascending(s)
          /\ \A i \in 1 .. Len(s) : s[i].at >= rs.from + k
      <4>1. \A i \in 1 .. Len(s) : i + k \in 1 .. Buf /\ s[i] = Received[i + k]
        BY <1>2, <3>1
      <4>2. AllOnAir(s, placed, rs.from + Buf)
        BY <1>1, <4>1 DEF AllOnAir
      <4>3. ASSUME NEW i \in 1 .. Len(s) PROVE s[i].at >= rs.from + k
        <5>1. s[i].at = rs.from + (i + k) - 1
          BY <1>1, <4>1
        <5>2. i \in Nat /\ i >= 1
          BY <3>1
        <5>3. rs.from + (i + k) - 1 >= rs.from + k
          BY <1>2, <5>2
        <5>4. QED
          BY <5>1, <5>3
      <4>4. \A i \in 1 .. Len(s) : s[i].at >= rs.from + k
        BY <4>3
      <4>5. Ascending(s)
        <5> SUFFICES ASSUME NEW i \in 1 .. Len(s), NEW j \in 1 .. Len(s), i < j,
                            IsSample(s[i]), IsSample(s[j])
                     PROVE  s[i].at < s[j].at
          BY DEF Ascending
        <5>1. i + k \in 1 .. Len(Received) /\ j + k \in 1 .. Len(Received) /\ i + k < j + k
          BY <1>1, <1>2, <3>1, <4>1
        <5>2. QED
          BY <1>1, <4>1, <5>1 DEF Ascending
      <4>6. QED
        BY <4>2, <4>4, <4>5
    <3>5. /\ b \in Seq(RxToken) /\ Announced(b) /\ MaskFirst(b) /\ NoMask(b)
          /\ \A p, pos : AllOnAir(s, p, pos) => AllOnAir(b, p, pos)
          /\ Ascending(s) => Ascending(b)
      <4>1. Len(s) >= 1
        BY <1>2, <3>1
      <4>2. QED
        BY <3>1, <3>3, <4>1, PieceFormat
    <3>6. \A i \in 1 .. Len(b) : IsSample(b[i]) => b[i].at >= rs.from + k
      <4>1. /\ Len(b) = 1 + Len(<<>>) + Len(s) /\ b[1] = Ret(Len(s))
            /\ \A i \in 1 .. Len(s) : b[i + 1 + Len(<<>>)] = s[i]
        <5>1. Len(s) >= 1
          BY <1>2, <3>1
        <5>2. <<>> \in {<<>>, <<Mask>>}
          OBVIOUS
        <5>3. QED
          <6>1. IsPiece(b, s, <<>>)
            BY <3>1, <3>3, <5>1, <5>2, Piece
          <6>2. QED
            BY <6>1 DEF IsPiece
      <4>2. Len(<<>>) = 0
        BY EmptySeq
      <4>3. ASSUME NEW i \in 1 .. Len(b), IsSample(b[i])
            PROVE  i - 1 \in 1 .. Len(s) /\ b[i] = s[i - 1]
        <5>1. i # 1
          BY <4>1, <4>3 DEF IsSample, Ret
        <5>2. i - 1 \in 1 .. Len(s) /\ i - 1 + 1 + 0 = i
          BY <1>2, <3>1, <4>1, <4>2, <5>1
        <5>3. QED
          BY <4>1, <4>2, <5>2
      <4>4. QED
        BY <3>4, <4>3
    <3>7. QED
      BY <3>4, <3>5, <3>6
  <2>3. QED
    BY <2>1, <2>2
<1> DEFINE v == a \o b
<1>5. a \in Seq(RxToken) /\ Announced(a) /\ MaskFirst(a) /\ Ascending(a)
      /\ AllOnAir(a, placed, rs.from + Buf)
      /\ \A i \in 1 .. Len(a) : IsSample(a[i]) => a[i].at >= rs.from
  BY <1>3 DEF Reply
<1>6. /\ v \in Seq(RxToken) /\ Announced(v) /\ MaskFirst(v)
      /\ NoMask(v) <=> NoMask(a)
  <2>1. v \in Seq(RxToken)
    BY <1>4, <1>5, ConcatProperties
  <2>2. /\ Announced(v) /\ MaskFirst(v)
        /\ NoMask(v) <=> (NoMask(a) /\ NoMask(b))
    BY <1>4, <1>5, JoinKeepsFormat
  <2>3. QED
    BY <1>4, <2>1, <2>2
<1>7. Before(a, b)
  <2> SUFFICES ASSUME NEW i \in 1 .. Len(a), NEW j \in 1 .. Len(b), IsSample(a[i]), IsSample(b[j])
               PROVE  a[i].at < b[j].at
    BY DEF Before
  <2> DEFINE x == a[i].at
             y == b[j].at
             z == rs.from + k
  <2>1. x \in Nat /\ y \in Nat
    <3>1. a[i] \in RxToken /\ b[j] \in RxToken
      BY <1>4, <1>5, ElementOfSeq
    <3>2. QED
      BY <3>1, Kinds DEF SampleToken
  <2>2. x < z /\ y >= z
    BY <1>3, <1>4
  <2>3. z \in Nat
    <3> DEFINE c == rs.from
    <3>1. c \in Nat /\ k \in Nat
      BY <1>2
    <3> HIDE DEF c
    <3>2. c + k \in Nat
      BY <3>1
    <3>3. QED
      BY <3>2 DEF c
  <2> HIDE DEF x, y, z
  <2>5. x < y
    BY <2>1, <2>2, <2>3
  <2>6. QED
    BY <2>5 DEF x, y
<1>8. AllOnAir(v, placed, rs.from + Buf) /\ Ascending(v)
  BY <1>4, <1>5, <1>7, JoinKeepsOrder
<1>9. \A i \in 1 .. Len(v) : IsSample(v[i]) => v[i].at >= rs.from
  <2>1. /\ Len(v) = Len(a) + Len(b)
        /\ \A i \in 1 .. Len(a) + Len(b) : v[i] = IF i <= Len(a) THEN a[i] ELSE b[i - Len(a)]
    BY <1>4, <1>5, ConcatProperties
  <2>2. Len(a) \in Nat /\ Len(b) \in Nat
    BY <1>4, <1>5, LenProperties
  <2> HIDE DEF v
  <2> SUFFICES ASSUME NEW i \in 1 .. Len(v), IsSample(v[i]) PROVE v[i].at >= rs.from
    OBVIOUS
  <2>3. CASE i <= Len(a)
    <3>1. i \in 1 .. Len(a) /\ v[i] = a[i]
      BY <2>1, <2>2, <2>3
    <3>2. QED
      BY <1>5, <3>1
  <2>4. CASE ~(i <= Len(a))
    <3>1. i - Len(a) \in 1 .. Len(b) /\ v[i] = b[i - Len(a)]
      BY <2>1, <2>2, <2>4, SMTT(30)
    <3> DEFINE y == v[i].at
    <3>2. y \in Nat /\ y >= rs.from + k
      <4>1. b[i - Len(a)] \in RxToken
        BY <1>4, <3>1, ElementOfSeq
      <4>2. QED
        BY <1>4, <3>1, <4>1, Kinds DEF SampleToken
    <3> HIDE DEF y
    <3>3. y >= rs.from
      BY <1>2, <3>2
    <3>4. QED
      BY <3>3 DEF y
  <2>5. QED
    BY <2>3, <2>4
<1>10. QED
  BY <1>3, <1>4, <1>5, <1>6, <1>8, <1>9 DEF Reply

LEMMA JoinedInTurn ==
  ASSUME NEW w \in Seq(RxToken), NEW a \in Seq(RxToken), NEW b \in Seq(RxToken)
  PROVE  (w \o a) \o b = w \o (a \o b)
BY ConcatAssociative

LEMMA RxReplyStep ==
  ASSUME RxInv, AirInv, SampleAssumption, RxReply \/ IiodReply
  PROVE  RxTypeOK' /\ WireInv' /\ LineInv'
<1>1. /\ rs.pc = "receive" /\ rxPos' = rs.from + Buf
      /\ UNCHANGED <<placed, heard, rc>>
  BY DEF RxReply, IiodReply, history
<1>2. rwire \in Seq(RxToken) /\ rs.newClient \in BOOLEAN /\ Buf \in Nat /\ Buf >= 1
  BY Sizes DEF RxInv, RxTypeOK
<1>3. \E v : /\ Reply(v) /\ rwire' = rwire \o v
             /\ \/ /\ rs' = [rs EXCEPT !.pc = "line", !.newClient = FALSE]
                   /\ NoMask(v) <=> ~rs.newClient
                \/ /\ rs' = [rs EXCEPT !.pc = "line"]
                   /\ NoMask(v) /\ NoSamples(v)
  <2>1. CASE RxReply
    <3>1. Received = SubSeq(Received, 1, Buf)
      <4>1. Received \in Seq(SampleToken) /\ Len(Received) = Buf
        BY <1>1, ReceivedIsOnAir
      <4>2. QED
        BY <4>1, SubSeqFull
    <3>2. /\ rwire' = rwire \o FirstChunk(Buf)
          /\ rs' = [rs EXCEPT !.pc = "line", !.newClient = FALSE]
      BY <2>1, <3>1 DEF RxReply, FirstChunk
    <3>3. Buf \in 1 .. Buf
      BY <1>2
    <3>4. QED
      BY <1>1, <3>2, <3>3, WholeReply
  <2>2. CASE IiodReply
    <3>1. CASE /\ rwire' = Append(rwire, Ret(-1))
               /\ rs' = [rs EXCEPT !.pc = "line"]
      <4>1. Ret(-1) \in RxToken
        BY DEF Ret, RxToken, RetToken
      <4>2. rwire' = rwire \o <<Ret(-1)>>
        BY <1>2, <3>1, <4>1, AppendIsConcat
      <4>3. /\ <<Ret(-1)>> \in Seq(RxToken)
            /\ Announced(<<Ret(-1)>>) /\ MaskFirst(<<Ret(-1)>>)
            /\ NoMask(<<Ret(-1)>>) /\ NoSamples(<<Ret(-1)>>)
            /\ AllOnAir(<<Ret(-1)>>, placed, rs.from + Buf)
            /\ Ascending(<<Ret(-1)>>)
        BY LoneRet
      <4>4. \A i \in 1 .. Len(<<Ret(-1)>>) : ~IsSample(<<Ret(-1)>>[i])
        BY DEF Ret, IsSample
      <4>5. Reply(<<Ret(-1)>>)
        BY <4>3, <4>4 DEF Reply
      <4>6. QED
        BY <3>1, <4>2, <4>3, <4>5
    <3>2. ASSUME NEW k \in 1 .. Buf - 1, NEW rest \in BOOLEAN,
                 rwire' = rwire \o FirstChunk(k) \o SecondChunk(k, rest),
                 rs' = [rs EXCEPT !.pc = "line", !.newClient = FALSE]
          PROVE  \E v : /\ Reply(v) /\ rwire' = rwire \o v
                        /\ rs' = [rs EXCEPT !.pc = "line", !.newClient = FALSE]
                        /\ NoMask(v) <=> ~rs.newClient
      <4> DEFINE a == FirstChunk(k)
                 b == SecondChunk(k, rest)
      <4>1. rwire' = (rwire \o a) \o b
        BY <3>2
      <4>2. /\ a \in Seq(RxToken) /\ b \in Seq(RxToken)
            /\ Reply(a \o b) /\ (NoMask(a \o b) <=> ~rs.newClient)
        BY <1>1, SplitReply
      <4> HIDE DEF a, b
      <4>3. rwire' = rwire \o (a \o b)
        <5>1. rwire \in Seq(RxToken) /\ a \in Seq(RxToken) /\ b \in Seq(RxToken)
          BY <1>2, <4>2
        <5>2. (rwire \o a) \o b = rwire \o (a \o b)
          BY <5>1, JoinedInTurn
        <5>3. QED
          BY <4>1, <5>2
      <4>4. QED
        BY <3>2, <4>2, <4>3
    <3>3. QED
      BY <2>2, <3>1, <3>2 DEF IiodReply, FirstChunk, SecondChunk
  <2>3. QED
    BY <2>1, <2>2
<1>4. PICK v : /\ Reply(v) /\ rwire' = rwire \o v
               /\ \/ /\ rs' = [rs EXCEPT !.pc = "line", !.newClient = FALSE]
                     /\ NoMask(v) <=> ~rs.newClient
                  \/ /\ rs' = [rs EXCEPT !.pc = "line"]
                     /\ NoMask(v) /\ NoSamples(v)
  BY <1>3
<1>5. /\ rs' \in [pc : {"line", "pace", "receive"}, asked : Nat, newClient : BOOLEAN, from : Nat]
      /\ rs'.newClient \in BOOLEAN
      /\ NoMask(v) \/ rs.newClient
      /\ rs'.newClient => rs.newClient /\ NoSamples(v) /\ NoMask(v)
      /\ ~rs'.newClient => (NoMask(v) <=> ~rs.newClient)
  <2>1. CASE /\ rs' = [rs EXCEPT !.pc = "line", !.newClient = FALSE]
             /\ NoMask(v) <=> ~rs.newClient
    <3>1. rs' \in [pc : {"line", "pace", "receive"}, asked : Nat, newClient : BOOLEAN, from : Nat]
      BY <2>1 DEF RxInv, RxTypeOK
    <3>2. rs'.newClient = FALSE
      BY <2>1 DEF RxInv, RxTypeOK
    <3>3. QED
      BY <1>2, <2>1, <3>1, <3>2
  <2>2. CASE /\ rs' = [rs EXCEPT !.pc = "line"]
             /\ NoMask(v) /\ NoSamples(v)
    <3>1. rs' \in [pc : {"line", "pace", "receive"}, asked : Nat, newClient : BOOLEAN, from : Nat]
      BY <2>2 DEF RxInv, RxTypeOK
    <3>2. rs'.newClient = rs.newClient
      BY <2>2 DEF RxInv, RxTypeOK
    <3>3. QED
      BY <1>2, <2>2, <3>1, <3>2
  <2>3. QED
    BY <1>4, <2>1, <2>2
<1>6. rwire' \in Seq(RxToken) /\ WireInv' /\ LineInv'
  BY <1>1, <1>4, <1>5, ReplyJoins DEF Appended
<1>7. RxTypeOK'
  BY <1>1, <1>5, <1>6 DEF RxInv, RxTypeOK
<1>8. QED
  BY <1>6, <1>7

-----------------------------------------------------------------------------
(* The air: the clock, radio 1's timeline, radio 2's position.             *)

(* Steps that leave the air and the reader's place in it alone.            *)
LEMMA AirKept ==
  ASSUME AirInv, UNCHANGED <<now, tx, placed, rxPos>>,
         rs'.pc = rs.pc, rs'.from = rs.from
  PROVE  AirInv'
BY DEF AirInv, Timeline, End, TxEnd

(* Steps that leave the whole receiving side alone.                        *)
LEMMA RxKept ==
  ASSUME RxInv, UNCHANGED <<rc, rwire, rs, heard, rxPos, placed>>
  PROVE  RxTypeOK' /\ WireInv' /\ LineInv'
BY DEF RxInv, RxTypeOK, WireInv, LineInv

LEMMA TickStep ==
  ASSUME RxInv, AirInv, SampleAssumption, Tick
  PROVE  AirTypeOK' /\ AirInv'
<1>1. /\ now \in 0 .. MaxNow /\ now < MaxNow /\ now' = now + 1 /\ MaxNow \in Nat
      /\ LookBack \in Nat /\ Buf \in Nat /\ rxPos \in 0 .. now
      /\ UNCHANGED <<tx, rxPos, rs, placed, timeouts>>
  BY Sizes DEF Tick, RxInv, AirTypeOK, rxSide, history
<1>2. AirTypeOK'
  <2>1. now' \in 0 .. MaxNow /\ rxPos' \in 0 .. now'
    BY <1>1
  <2>2. QED
    BY <1>1, <2>1 DEF RxInv, AirTypeOK
<1>3. Timeline(tx, placed)'
  <2>1. \A t \in Position : t \in Int
    BY DEF Position
  <2>2. ASSUME NEW t \in Position, t + LookBack < now PROVE t + LookBack < now'
    BY <1>1, <2>1, <2>2
  <2>3. QED
    BY <1>1, <2>2 DEF AirInv, Timeline
<1>4. rs.pc = "receive" => rs.from + Buf <= now'
  <2>1. rs.from \in Nat
    BY DEF RxInv, RxTypeOK
  <2>2. QED
    BY <1>1, <2>1 DEF AirInv
<1>5. QED
  BY <1>1, <1>2, <1>3, <1>4 DEF AirInv

(* The server's two steps before it answers.                               *)
LEMMA RxServerStep ==
  ASSUME RxInv, AirInv, SampleAssumption, RxServe \/ RxPaced
  PROVE  RxTypeOK' /\ WireInv' /\ LineInv' /\ AirInv'
<1>1. /\ UNCHANGED <<now, tx, rxPos, placed, heard, rc, rwire>>
      /\ rs \in [pc : {"line", "pace", "receive"}, asked : Nat, newClient : BOOLEAN, from : Nat]
      /\ Buf \in Nat /\ rxPos \in Nat /\ now \in Nat /\ RxLatency \in Nat
  BY SampleAssumption DEF RxServe, RxPaced, air, history, RxInv, RxTypeOK, AirTypeOK
<1>2. /\ rs' \in [pc : {"line", "pace", "receive"}, asked : Nat, newClient : BOOLEAN, from : Nat]
      /\ rs'.newClient = rs.newClient
      /\ rs'.pc \in {"pace", "receive"} => rs'.from = rxPos
      /\ rs'.pc = "receive" => rs'.from + Buf <= now
  <2>1. CASE RxServe
    <3>1. rs' = [rs EXCEPT !.pc = "pace", !.asked = @ - 1, !.from = rxPos] /\ rs.asked > 0
      BY <2>1 DEF RxServe
    <3>2. rs.asked - 1 \in Nat
      BY <1>1, <3>1
    <3>3. QED
      BY <1>1, <3>1, <3>2
  <2>2. CASE RxPaced
    <3>1. /\ rs' = [rs EXCEPT !.pc = "receive"]
          /\ rs.pc = "pace" /\ now >= rs.from + Buf + RxLatency
      BY <2>2 DEF RxPaced
    <3>2. rs.from = rxPos /\ rs.from + Buf <= now
      BY <1>1, <3>1 DEF AirInv
    <3>3. QED
      BY <1>1, <3>1, <3>2
  <2>3. QED
    BY <2>1, <2>2
<1>3. Timeline(tx, placed)'
  BY <1>1 DEF AirInv, Timeline, End
<1>4. AirInv'
  BY <1>1, <1>2, <1>3 DEF AirInv
<1>5. QED
  BY <1>1, <1>2, <1>4 DEF RxInv, RxTypeOK, WireInv, LineInv

LEMMA RxReplyAir ==
  ASSUME RxInv, AirInv, SampleAssumption, RxReply \/ IiodReply
  PROVE  AirTypeOK' /\ AirInv'
<1>1. /\ rs.pc = "receive" /\ rxPos' = rs.from + Buf
      /\ UNCHANGED <<now, tx, placed, timeouts>>
  BY DEF RxReply, IiodReply, history
<1>2. rs'.pc = "line"
  BY DEF RxReply, IiodReply, RxInv, RxTypeOK
<1>3. rs.from + Buf \in 0 .. now
  <2>1. rs.from \in Nat /\ Buf \in Nat /\ now \in Nat
    BY Sizes DEF RxInv, RxTypeOK, AirTypeOK
  <2>2. QED
    BY <1>1, <2>1 DEF AirInv
<1>4. AirTypeOK'
  BY <1>1, <1>3 DEF RxInv, AirTypeOK
<1>5. Timeline(tx, placed)'
  BY <1>1 DEF AirInv, Timeline, End
<1>6. QED
  BY <1>2, <1>4, <1>5 DEF AirInv

-----------------------------------------------------------------------------
(* What is appended to the timeline, and what is trimmed from it.          *)
Stream == [origin : Nat, buf : Seq(Int)]

LEMMA EndOf ==
  ASSUME NEW stream \in Stream
  PROVE  /\ stream.origin \in Nat /\ stream.buf \in Seq(Int) /\ Len(stream.buf) \in Nat
         /\ End(stream) \in Nat /\ End(stream) = stream.origin + Len(stream.buf)
BY DEF Stream, End

(* The stream after an underrun ends at the clock or later, and nothing a   *)
(* reader may ask for has changed.                                         *)
LEMMA ResumedTimeline ==
  ASSUME SampleAssumption, tx \in Stream, now \in Nat, Timeline(tx, placed)
  PROVE  /\ Resumed \in Stream /\ Timeline(Resumed, placed)
         /\ End(Resumed) >= now /\ End(Resumed) >= End(tx)
         /\ End(Resumed) = End(tx) \/ End(Resumed) = now + Restart
<1> DEFINE e == End(tx)
<1>1. /\ tx.origin \in Nat /\ tx.buf \in Seq(Int) /\ e \in Nat /\ Len(tx.buf) \in Nat
      /\ e = tx.origin + Len(tx.buf) /\ TxEnd = e
  BY EndOf DEF TxEnd
<1>2. /\ Restart \in Nat /\ LookBack \in Nat /\ \A t \in Position : t \in Nat
  BY Sizes DEF Position
<1> HIDE DEF e
<1>3. CASE e >= now
  <2>1. Resumed = tx
    BY <1>1, <1>3 DEF Resumed
  <2>2. QED
    BY <1>1, <1>3, <2>1 DEF e
<1>4. CASE ~(e >= now) /\ (tx.buf = <<>> \/ e < KeepFrom)
  <2> DEFINE b == [origin |-> now + Restart, buf |-> <<>>]
  <2>1. Resumed = b
    BY <1>1, <1>4 DEF Resumed
  <2>2. b \in Stream /\ End(b) = now + Restart /\ b.origin = now + Restart
    <3>1. <<>> \in Seq(Int) /\ Len(<<>>) = 0 /\ now + Restart \in Nat
      BY <1>2
    <3>2. QED
      BY <1>2, <3>1 DEF Stream, End
  <2>3. ASSUME NEW t \in Position, placed[t] # Silence PROVE t < e /\ t + LookBack < now
    <3>1. t < e
      BY <1>1, <1>2, <2>3 DEF Timeline, e
    <3>2. CASE t < tx.origin
      BY <2>3, <3>1, <3>2 DEF Timeline
    <3>3. CASE t >= tx.origin
      <4>1. tx.buf # <<>>
        BY <1>1, <1>2, <3>1, <3>3, EmptySeq
      <4>2. e < now - LookBack
        BY <1>1, <1>2, <1>4, <4>1, SMTT(30) DEF KeepFrom
      <4>3. QED
        BY <1>1, <1>2, <3>1, <4>2
    <3>4. QED
      BY <1>1, <1>2, <3>2, <3>3
  <2> HIDE DEF b
  <2>4. Timeline(b, placed)
    <3>1. ASSUME NEW t \in Position PROVE ~(b.origin <= t /\ t < End(b))
      BY <1>2, <2>2
    <3>2. ASSUME NEW t \in Position, t >= End(b) PROVE placed[t] = Silence
      BY <1>1, <1>2, <1>4, <2>2, <2>3, <3>2
    <3>3. QED
      BY <2>3, <3>1, <3>2 DEF Timeline
  <2>5. End(b) >= now /\ End(b) >= e
    BY <1>1, <1>2, <1>4, <2>2
  <2>6. QED
    BY <2>1, <2>2, <2>4, <2>5 DEF e
<1>5. CASE ~(e >= now) /\ ~(tx.buf = <<>> \/ e < KeepFrom)
  <2> DEFINE o == tx.origin
             n == Len(tx.buf)
             m == now + Restart - e
             gap == [i \in 1 .. m |-> Silence]
             buf == tx.buf \o gap
             b == [tx EXCEPT !.buf = buf]
  <2>1. Resumed = b
    BY <1>1, <1>5 DEF Resumed
  <2>2. /\ o \in Nat /\ n \in Nat /\ m \in Nat /\ e \in Nat /\ e = o + n /\ e < now
        /\ e + m = now + Restart
    <3>1. e \in Nat /\ e < now
      BY <1>1, <1>5
    <3>2. m \in Nat /\ e + m = now + Restart
      BY <1>2, <3>1
    <3>3. QED
      BY <1>1, <3>1, <3>2
  <2> HIDE DEF m
  <2>3. gap \in Seq(Int) /\ Len(gap) = m /\ \A i \in 1 .. m : gap[i] = Silence
    <3>1. \A i \in 1 .. m : Silence \in Int
      BY DEF Silence
    <3>2. QED
      BY <2>2, <3>1, IsASeq
  <2> HIDE DEF gap
  <2>4. /\ buf \in Seq(Int) /\ Len(buf) = n + m
        /\ \A i \in 1 .. n + m : buf[i] = IF i <= n THEN tx.buf[i] ELSE gap[i - n]
    BY <1>1, <2>3, ConcatProperties, ZenonT(30)
  <2> HIDE DEF buf
  <2>5. b \in Stream /\ b.origin = o /\ b.buf = buf
    BY <1>1, <2>4 DEF Stream
  <2> HIDE DEF b
  <2>6. End(b) = now + Restart
    <3>1. End(b) = o + (n + m)
      BY <2>4, <2>5 DEF End
    <3> HIDE DEF o, n
    <3>2. o + (n + m) = now + Restart
      BY <2>2
    <3>3. QED
      BY <3>1, <3>2
  <2>7. Timeline(b, placed)
    <3>1. ASSUME NEW t \in Position, o <= t, t < End(b)
          PROVE  placed[t] = buf[t - o + 1]
      <4> DEFINE i == t - o + 1
      <4>0. t \in Nat /\ t < e + m
        BY <1>2, <2>2, <2>6, <3>1
      <4>1. CASE t < e
        <5>1. placed[t] = tx.buf[i]
          BY <3>1, <4>1 DEF Timeline, e
        <5>2. buf[i] = tx.buf[i]
          <6> HIDE DEF o, n
          <6>1. i \in 1 .. n + m /\ i <= n
            BY <2>2, <3>1, <4>0, <4>1
          <6> HIDE DEF i
          <6>2. QED
            BY <2>4, <6>1
        <5>3. QED
          BY <5>1, <5>2
      <4>2. CASE t >= e
        <5>1. placed[t] = Silence
          BY <4>2 DEF Timeline, e
        <5>2. buf[i] = Silence
          <6> HIDE DEF o, n
          <6>1. i \in 1 .. n + m /\ ~(i <= n) /\ i - n \in 1 .. m
            BY <2>2, <4>0, <4>2
          <6> HIDE DEF i
          <6>2. QED
            BY <2>3, <2>4, <6>1
        <5>3. QED
          BY <5>1, <5>2
      <4>3. QED
        BY <2>2, <4>0, <4>1, <4>2
    <3>2. ASSUME NEW t \in Position, t >= End(b) PROVE placed[t] = Silence
      <4>1. t >= e
        BY <1>2, <2>2, <2>6, <3>2
      <4>2. QED
        BY <4>1 DEF Timeline, e
    <3>3. \A t \in Position : (t < o /\ placed[t] # Silence) => t + LookBack < now
      BY DEF Timeline
    <3>4. QED
      BY <2>5, <3>1, <3>2, <3>3 DEF Timeline
  <2>8. End(b) >= now /\ End(b) >= e
    BY <1>2, <2>2, <2>6
  <2>9. QED
    BY <2>1, <2>5, <2>6, <2>7, <2>8 DEF e
<1>6. QED
  BY <1>3, <1>4, <1>5

(* Samples join the stream at its end.                                     *)
Placed(p, start, k, data) ==
  [t \in Position |-> IF t \in start .. start + k - 1 THEN data[t - start + 1] ELSE p[t]]

Extended(stream, data) == [stream EXCEPT !.buf = @ \o data]

(* Where a position falls: before the samples that join at e, in them, or  *)
(* behind them.                                                            *)
LEMMA Splice ==
  ASSUME NEW o \in Nat, NEW n \in Nat, NEW m \in Nat, NEW e \in Nat, e = o + n, NEW t \in Nat
  PROVE  /\ t < e \/ t >= e + m \/ (t >= e /\ t < e + m)
         /\ (t >= e /\ t < e + m) =>
              /\ t - e + 1 \in 1 .. m /\ t \in e .. e + m - 1
              /\ t - o + 1 \in 1 .. n + m /\ ~(t - o + 1 <= n)
              /\ t - o + 1 - n = t - e + 1
         /\ (t < e \/ t >= e + m) => ~(t \in e .. e + m - 1)
         /\ (o <= t /\ t < e) => t - o + 1 \in 1 .. n + m /\ t - o + 1 <= n
OBVIOUS

LEMMA ExtendedTimeline ==
  ASSUME NEW base \in Stream, NEW p \in [Position -> Int], Timeline(base, p),
         NEW data \in Seq(Int), SampleAssumption,
         NEW b, b = Extended(base, data),
         NEW q, q = Placed(p, End(base), Len(data), data)
  PROVE  /\ b \in Stream /\ q \in [Position -> Int] /\ Timeline(b, q)
         /\ End(b) = End(base) + Len(data)
<1> DEFINE o == base.origin
           n == Len(base.buf)
           m == Len(data)
           e == End(base)
           buf == base.buf \o data
<1>0. \A t \in Position : t \in Nat
  BY Sizes DEF Position
<1>1. /\ o \in Nat /\ n \in Nat /\ m \in Nat /\ e \in Nat /\ e = o + n
      /\ base.buf \in Seq(Int)
  <2>1. m \in Nat
    BY LenProperties
  <2>2. QED
    BY <2>1, EndOf
<1>2. /\ buf \in Seq(Int) /\ Len(buf) = n + m
      /\ \A i \in 1 .. n + m : buf[i] = IF i <= n THEN base.buf[i] ELSE data[i - n]
  BY <1>1, ConcatProperties
<1>3. b \in Stream /\ b.origin = o /\ b.buf = buf
  BY <1>1, <1>2 DEF Stream, Extended
<1>4. /\ DOMAIN q = Position
      /\ \A t \in Position :
           q[t] = IF t \in e .. e + m - 1 THEN data[t - e + 1] ELSE p[t]
  BY DEF Placed
<1>5. End(b) = e + m
  <2>1. End(b) = o + (n + m)
    BY <1>2, <1>3 DEF End
  <2> HIDE DEF o, n, m, e
  <2>2. o + (n + m) = e + m
    BY <1>1
  <2>3. QED
    BY <2>1, <2>2
<1> HIDE DEF buf
<1>6. ASSUME NEW t \in Position, t >= e, t < e + m
      PROVE  t - e + 1 \in 1 .. m /\ q[t] = data[t - e + 1]
  <2>0. t \in Nat
    BY <1>0
  <2> HIDE DEF o, n, m, e
  <2>1. t - e + 1 \in 1 .. m /\ t \in e .. e + m - 1
    BY <1>1, <1>6, <2>0, Splice
  <2>2. QED
    BY <1>4, <2>1
<1>7. ASSUME NEW t \in Position, t < e \/ t >= e + m PROVE q[t] = p[t]
  <2>0. t \in Nat
    BY <1>0
  <2> HIDE DEF o, n, m, e
  <2>1. ~(t \in e .. e + m - 1)
    BY <1>1, <1>7, <2>0, Splice
  <2>2. QED
    BY <1>4, <2>1
<1>8. q \in [Position -> Int]
  <2> SUFFICES ASSUME NEW t \in Position PROVE q[t] \in Int
    BY <1>4, Placed(p, e, m, data) = q DEF Placed
  <2>1. t < e \/ t >= e + m \/ (t >= e /\ t < e + m)
    <3>1. t \in Nat
      BY <1>0
    <3> HIDE DEF o, n, m, e
    <3>2. QED
      BY <1>1, <3>1, Splice
  <2>2. \A i \in 1 .. m : data[i] \in Int
    BY ElementOfSeq
  <2>3. QED
    BY <1>6, <1>7, <2>1, <2>2
<1>9. Timeline(b, q)
  <2>1. ASSUME NEW t \in Position, o <= t, t < e + m PROVE q[t] = buf[t - o + 1]
    <3> DEFINE i == t - o + 1
    <3>0. t \in Nat
      BY <1>0
    <3>1. CASE t < e
      <4>1. q[t] = base.buf[i]
        BY <1>7, <2>1, <3>1 DEF Timeline
      <4>2. i \in 1 .. n + m /\ i <= n
        <5> HIDE DEF o, n, m, e
        <5> QED BY <1>1, <2>1, <3>0, <3>1, Splice
      <4> HIDE DEF i
      <4>3. QED
        BY <1>2, <4>1, <4>2 DEF i
    <3>2. CASE t >= e
      <4>1. q[t] = data[t - e + 1]
        BY <1>6, <2>1, <3>2
      <4>2. i \in 1 .. n + m /\ ~(i <= n) /\ i - n = t - e + 1
        <5> HIDE DEF o, n, m, e
        <5> QED BY <1>1, <2>1, <3>0, <3>2, Splice
      <4> HIDE DEF i
      <4>3. QED
        BY <1>2, <4>1, <4>2 DEF i
    <3>3. QED
      BY <1>1, <3>0, <3>1, <3>2
  <2>2. ASSUME NEW t \in Position, t < o, q[t] # Silence PROVE t + LookBack < now
    <3>1. t < e
      <4>1. t \in Nat
        BY <1>0
      <4> HIDE DEF o, n, e
      <4>2. QED
        BY <1>1, <2>2, <4>1
    <3>2. QED
      BY <1>7, <2>2, <3>1 DEF Timeline
  <2>3. ASSUME NEW t \in Position, t >= e + m PROVE q[t] = Silence
    <3>1. t >= e
      <4>1. t \in Nat
        BY <1>0
      <4> HIDE DEF m, e
      <4>2. QED
        BY <1>1, <2>3, <4>1
    <3>2. QED
      BY <1>7, <2>3, <3>1 DEF Timeline
  <2>4. QED
    BY <1>3, <1>5, <2>1, <2>2, <2>3 DEF Timeline
<1>10. QED
  BY <1>3, <1>5, <1>8, <1>9

(* Only what is older than LookBack is trimmed.                            *)
LEMMA TrimmedTimeline ==
  ASSUME NEW stream \in Stream, NEW p, Timeline(stream, p), SampleAssumption, now \in Nat,
         NEW b, b = Trim(stream, KeepFrom)
  PROVE  b \in Stream /\ Timeline(b, p) /\ End(b) = End(stream)
<1> DEFINE o == stream.origin
           n == Len(stream.buf)
           e == End(stream)
           k == IF KeepFrom > o THEN IF KeepFrom - o < n THEN KeepFrom - o ELSE n ELSE 0
           buf == SubSeq(stream.buf, k + 1, n)
<1>1. /\ o \in Nat /\ n \in Nat /\ e \in Nat /\ e = o + n /\ stream.buf \in Seq(Int)
      /\ LookBack \in Nat /\ \A t \in Position : t \in Nat
  BY EndOf, Sizes DEF Position
<1>2. b = [origin |-> o + k, buf |-> buf]
  BY DEF Trim
<1>3. /\ k \in 0 .. n /\ o + k \in Nat
      /\ k > 0 => (KeepFrom = now - LookBack /\ o + k <= KeepFrom)
  <2>1. KeepFrom \in Nat /\ (KeepFrom > 0 => KeepFrom = now - LookBack)
    BY <1>1 DEF KeepFrom
  <2> HIDE DEF o, n
  <2>2. QED
    BY <1>1, <2>1
<1> HIDE DEF k
<1>4. /\ buf \in Seq(Int) /\ Len(buf) = n - k
      /\ \A i \in 1 .. n - k : buf[i] = stream.buf[i + k]
  BY <1>1, <1>3, Dropped, ZenonT(30)
<1> HIDE DEF buf
<1>5. b \in Stream /\ b.origin = o + k /\ b.buf = buf
  BY <1>2, <1>3, <1>4 DEF Stream
<1>6. End(b) = e
  <2>1. End(b) = (o + k) + (n - k)
    BY <1>4, <1>5 DEF End
  <2> HIDE DEF o, n, e
  <2>2. QED
    BY <1>1, <1>3, <2>1
<1>7. ASSUME NEW t \in Position, o + k <= t, t < e PROVE p[t] = buf[t - (o + k) + 1]
  <2> DEFINE i == t - (o + k) + 1
  <2>0. t \in Nat
    BY <1>1
  <2>1. o <= t /\ i \in 1 .. n - k /\ i + k = t - o + 1
    <3> HIDE DEF o, n, e
    <3>1. k \in Nat /\ k <= n
      BY <1>1, <1>3
    <3>2. QED
      BY <1>1, <1>7, <2>0, <3>1
  <2>2. p[t] = stream.buf[t - o + 1]
    BY <1>7, <2>1 DEF Timeline
  <2> HIDE DEF i
  <2>3. QED
    BY <1>4, <2>1, <2>2 DEF i
<1>8. ASSUME NEW t \in Position, t < o + k, p[t] # Silence PROVE t + LookBack < now
  <2>1. CASE t < o
    BY <1>8, <2>1 DEF Timeline
  <2>2. CASE t >= o
    <3> HIDE DEF o, n, e
    <3>1. k > 0 /\ t < now - LookBack
      BY <1>1, <1>3, <1>8, <2>2
    <3>2. QED
      BY <1>1, <3>1
  <2>3. QED
    BY <1>1, <2>1, <2>2, SMTT(30)
<1>9. \A t \in Position : t >= e => p[t] = Silence
  BY DEF Timeline
<1>10. QED
  BY <1>5, <1>6, <1>7, <1>8, <1>9 DEF Timeline

-----------------------------------------------------------------------------
(* The sender's side.                                                      *)
TxInv == TxTypeOK /\ SenderInv /\ ServerInv

(* Samples `start` to `start + k - 1` of the timeline are those the server *)
(* was handed, and nothing else of it has changed.                         *)
Landed(k, start) ==
  /\ k \in 1 .. ts.want /\ (~Chunked => k = ts.want) /\ tack' = Append(tack, Ret(k))
  /\ start \in Nat /\ start >= now /\ start >= TxEnd /\ start <= now + TxAhead + Restart
  /\ \A t \in Position :
       placed'[t] = IF t \in start .. start + k - 1 THEN ts.payload[t - start + 1] ELSE placed[t]

LEMMA TxAppendLands ==
  ASSUME RxInv, AirInv, TxInv, SampleAssumption, TxAppend
  PROVE  /\ AirTypeOK' /\ AirInv'
         /\ \E k \in Nat, start \in Nat : Landed(k, start)
<1>1. /\ ts.pc = "append" /\ ts.want \in Nat /\ ts.want >= 1
      /\ ts.payload \in Seq(Int) /\ Len(ts.payload) = ts.want
      /\ now \in 0 .. MaxNow /\ now \in Nat /\ tx \in Stream /\ placed \in [Position -> Int]
      /\ TxEnd <= now + TxAhead
  BY Sizes DEF TxAppend, TxInv, TxTypeOK, ServerInv, RxInv, AirTypeOK, Stream
<1>2. PICK k \in (IF Chunked THEN 1 ELSE ts.want) .. ts.want :
        /\ tx' = Trim([Resumed EXCEPT !.buf = @ \o SubSeq(ts.payload, 1, k)], KeepFrom)
        /\ placed' = [t \in DOMAIN placed |->
                        IF t \in Resumed.origin + Len(Resumed.buf)
                                   .. Resumed.origin + Len(Resumed.buf) + k - 1
                        THEN SubSeq(ts.payload, 1, k)[t - (Resumed.origin + Len(Resumed.buf)) + 1]
                        ELSE placed[t]]
        /\ tack' = Append(tack, Ret(k))
  BY DEF TxAppend
<1>3. UNCHANGED <<now, rxPos, rs, timeouts>>
  BY DEF TxAppend, rxSide
<1>4. k \in 1 .. ts.want /\ k \in Nat /\ (~Chunked => k = ts.want)
  BY <1>1, SMTT(30)
<1> DEFINE data == SubSeq(ts.payload, 1, k)
           base == Resumed
           start == End(base)
<1>5. /\ data \in Seq(Int) /\ Len(data) = k
      /\ \A i \in 1 .. k : data[i] = ts.payload[i]
  BY <1>1, <1>4, Taken, SMTT(30)
<1>6. Timeline(tx, placed) /\ TxEnd = End(tx)
  BY DEF AirInv, TxEnd, End
<1>7. /\ base \in Stream /\ Timeline(base, placed)
      /\ start >= now /\ start >= End(tx)
      /\ start = End(tx) \/ start = now + Restart
  BY <1>1, <1>6, ResumedTimeline
<1>8. start \in Nat
  BY <1>7, EndOf
<1>9. /\ tx' = Trim(Extended(base, data), KeepFrom)
      /\ placed' = Placed(placed, start, Len(data), data)
  <2>1. tx' = Trim(Extended(base, data), KeepFrom)
    BY <1>2 DEF Extended
  <2>2. DOMAIN placed = Position
    BY <1>1
  <2>3. placed' = Placed(placed, start, k, data)
    BY <1>2, <2>2 DEF Placed, End
  <2>4. QED
    BY <1>5, <2>1, <2>3
<1> HIDE DEF data, base, start
<1> DEFINE b == Extended(base, data)
           q == Placed(placed, start, Len(data), data)
<1>10. /\ b \in Stream /\ q \in [Position -> Int] /\ Timeline(b, q)
  <2>1. b = Extended(base, data) /\ q = Placed(placed, End(base), Len(data), data)
    BY DEF start
  <2> HIDE DEF b, q
  <2>2. QED
    BY <1>1, <1>5, <1>7, <2>1, ExtendedTimeline
<1>11. tx' \in Stream /\ Timeline(tx', placed') /\ placed' \in [Position -> Int]
  <2>1. tx' = Trim(b, KeepFrom) /\ placed' = q
    BY <1>9
  <2> HIDE DEF b, q
  <2>2. tx' \in Stream /\ Timeline(tx', q)
    BY <1>1, <1>10, <2>1, TrimmedTimeline
  <2>3. QED
    BY <1>10, <2>1, <2>2
<1>12. AirTypeOK'
  BY <1>3, <1>11 DEF RxInv, AirTypeOK, Stream
<1>13. AirInv'
  <2>1. Timeline(tx, placed)'
    BY <1>3, <1>11 DEF Timeline
  <2>2. QED
    BY <1>3, <2>1 DEF AirInv
<1>14. Landed(k, start)
  <2>1. start <= now + TxAhead + Restart
    <3>1. End(tx) <= now + TxAhead /\ TxAhead \in Nat /\ Restart \in Nat /\ End(tx) \in Nat
      BY <1>1, <1>6, Sizes, EndOf
    <3>2. QED
      BY <1>1, <1>7, <3>1
  <2>2. ASSUME NEW t \in Position
        PROVE  placed'[t] = IF t \in start .. start + k - 1 THEN ts.payload[t - start + 1] ELSE placed[t]
    <3>1. placed'[t] = IF t \in start .. start + k - 1 THEN data[t - start + 1] ELSE placed[t]
      BY <1>5, <1>9 DEF Placed
    <3>2. CASE t \in start .. start + k - 1
      <4>1. t - start + 1 \in 1 .. k
        BY <1>4, <1>8, <3>2
      <4>2. QED
        BY <1>5, <3>1, <3>2, <4>1
    <3>3. QED
      BY <3>1, <3>2
  <2>3. QED
    BY <1>2, <1>4, <1>6, <1>7, <1>8, <2>1, <2>2 DEF Landed
<1>15. QED
  BY <1>4, <1>8, <1>12, <1>13, <1>14

(* What a reader has heard lies behind the clock: no append touches it.    *)
LEMMA TxAppendKeepsLine ==
  ASSUME RxInv, AirInv, TxInv, SampleAssumption, TxAppend
  PROVE  RxTypeOK' /\ WireInv' /\ LineInv'
<1>1. PICK k \in Nat, start \in Nat : Landed(k, start)
  BY TxAppendLands
<1>2. UNCHANGED <<rc, rwire, rs, heard, rxPos>>
  BY DEF TxAppend, rxSide
<1>3. rxPos \in Nat /\ now \in Nat /\ now <= MaxNow /\ rxPos <= now /\ start >= now
  BY <1>1, Sizes DEF RxInv, AirTypeOK, Landed
<1>4. ASSUME NEW t \in Nat, t < rxPos PROVE placed'[t] = placed[t]
  <2>1. t \in 0 .. MaxNow /\ MaxNow <= MaxNow + TxAhead + Restart + 2 * Buf
    BY <1>3, <1>4, Sizes
  <2>2. t \in Position
    BY <1>3, <2>1, Sizes DEF Position
  <2>3. ~(t \in start .. start + k - 1)
    BY <1>3, <1>4
  <2>4. QED
    BY <1>1, <2>2, <2>3 DEF Landed
<1>5. \A s \in Seq(RxToken) : AllOnAir(s, placed, rxPos) => AllOnAir(s, placed', rxPos)
  <2> SUFFICES ASSUME NEW s \in Seq(RxToken), AllOnAir(s, placed, rxPos),
                      NEW i \in 1 .. Len(s), IsSample(s[i])
               PROVE  IsOnAir(s[i], placed', rxPos)
    BY DEF AllOnAir
  <2>1. s[i].at \in Nat
    BY ElementOfSeq, Kinds DEF SampleToken
  <2>2. IsOnAir(s[i], placed, rxPos)
    BY DEF AllOnAir
  <2>3. QED
    BY <1>4, <2>1, <2>2 DEF IsOnAir
<1>6. heard \in Seq(RxToken) /\ rc.out \in Seq(RxToken) /\ rwire \in Seq(RxToken)
  <2>1. SampleToken \subseteq RxToken
    BY DEF RxToken
  <2>2. QED
    BY <2>1, SeqMonotonic DEF RxInv, RxTypeOK
<1>7. LineInv'
  BY <1>2, <1>5, <1>6 DEF RxInv, LineInv
<1>8. QED
  BY <1>2, <1>7 DEF RxInv, RxTypeOK, WireInv

-----------------------------------------------------------------------------
(* The client numbers its samples, chunk by chunk.                         *)
SenderType == [pc : {"ready", "ok", "ack"}, next : Nat \ {0}, chunk : Seq(Nat)]
ServerType == [pc : {"line", "payload", "pace", "append"}, want : Nat, payload : Seq(Int)]

LEMMA BurstEndsAfter ==
  ASSUME SampleAssumption, NEW v \in Nat \ {0}
  PROVE  BurstEnd(v) \in Nat /\ BurstEnd(v) >= v
<1> DEFINE q == (v - 1) \div Burst
<1>1. Burst \in Nat /\ Burst >= 1
  BY Sizes
<1>2. q \in Nat /\ (v - 1) = q * Burst + ((v - 1) % Burst) /\ (v - 1) % Burst \in 0 .. Burst - 1
  BY <1>1
<1> HIDE DEF q
<1> DEFINE r == (v - 1) % Burst
           p == q * Burst
<1>3. p \in Nat /\ (q + 1) * Burst = p + Burst
  BY <1>1, <1>2
<1>4. v - 1 = p + r /\ r \in 0 .. Burst - 1
  BY <1>2
<1> HIDE DEF p, r
<1>5. p + Burst >= v
  BY <1>1, <1>3, <1>4
<1>6. BurstEnd(v) = (q + 1) * Burst
  BY DEF BurstEnd, q
<1>7. QED
  BY <1>1, <1>3, <1>5, <1>6

LEMMA NextChunkIs ==
  ASSUME SampleAssumption, NEW v \in Nat \ {0}
  PROVE  /\ NextChunk(v) \in Seq(Nat)
         /\ Len(NextChunk(v)) \in 1 .. Buf
         /\ \A i \in 1 .. Len(NextChunk(v)) : NextChunk(v)[i] = v + i - 1
<1> DEFINE last == IF v + Buf - 1 <= BurstEnd(v) THEN v + Buf - 1 ELSE BurstEnd(v)
           n == last - v + 1
<1>1. BurstEnd(v) \in Nat /\ BurstEnd(v) >= v /\ Buf \in Nat /\ Buf >= 1
  BY BurstEndsAfter, Sizes
<1>2. n \in 1 .. Buf /\ n \in Nat
  BY <1>1
<1>3. NextChunk(v) = [i \in 1 .. n |-> v + i - 1]
  BY DEF NextChunk
<1> HIDE DEF n
<1>4. \A i \in 1 .. n : v + i - 1 \in Nat
  BY <1>2
<1>5. QED
  BY <1>2, <1>3, <1>4, IsASeq

LEMMA SendHeaderStep ==
  ASSUME TxInv, SampleAssumption, SendHeader
  PROVE  /\ TxTypeOK' /\ SenderInv' /\ ServerInv'
         /\ tc.pc = "ready" /\ tc'.pc = "ok" /\ First' = First
         /\ twire' = Append(twire, Command(Len(tc'.chunk)))
         /\ UNCHANGED <<tack, ts, placed, acked>>
<1>1. /\ tc \in SenderType /\ tc.chunk \in Seq(Nat) /\ tc.next \in Nat \ {0}
      /\ Len(tc.chunk) \in Nat /\ Len(tc.chunk) <= Buf /\ First >= 1 /\ Buf \in Nat
      /\ First = tc.next - Len(tc.chunk)
      /\ \A i \in 1 .. Len(tc.chunk) : tc.chunk[i] = First + i - 1
  <2>1. tc \in SenderType
    BY DEF TxInv, TxTypeOK, SenderType
  <2>2. tc.chunk \in Seq(Nat) /\ tc.next \in Nat \ {0}
    BY <2>1 DEF SenderType
  <2>3. Len(tc.chunk) \in Nat
    BY <2>2, LenProperties
  <2>4. /\ Len(tc.chunk) <= Buf /\ First >= 1
        /\ \A i \in 1 .. Len(tc.chunk) : tc.chunk[i] = First + i - 1
    BY DEF TxInv, SenderInv
  <2>5. First = tc.next - Len(tc.chunk)
    BY DEF First
  <2>6. QED
    BY <2>1, <2>2, <2>3, <2>4, <2>5, Sizes
<1> DEFINE chunk == IF tc.chunk = <<>> THEN NextChunk(tc.next) ELSE tc.chunk
           n == Len(chunk)
<1>2. /\ tc.pc = "ready"
      /\ tc' = [pc |-> "ok", next |-> Last(chunk) + 1, chunk |-> chunk]
      /\ twire' = Append(twire, Command(Len(chunk)))
      /\ UNCHANGED <<tack, ts, placed, acked, now, tx>>
  BY DEF SendHeader, air, history
<1>3. First \in Nat \ {0}
  BY <1>1
<1>4. /\ chunk \in Seq(Nat) /\ n \in 1 .. Buf
      /\ \A i \in 1 .. n : chunk[i] = First + i - 1
  <2>1. CASE tc.chunk = <<>>
    <3>1. First = tc.next
      BY <1>1, <2>1
    <3>2. chunk = NextChunk(First)
      BY <2>1, <3>1
    <3>3. QED
      BY <1>3, <3>2, NextChunkIs
  <2>2. CASE tc.chunk # <<>>
    <3>1. chunk = tc.chunk /\ Len(tc.chunk) # 0
      BY <1>1, <2>2, EmptySeq
    <3>2. QED
      BY <1>1, <3>1
  <2>3. QED
    BY <2>1, <2>2
<1> HIDE DEF chunk
<1>5. Last(chunk) = First + n - 1
  BY <1>1, <1>4 DEF Last
<1>6. tc'.pc = "ok" /\ tc'.chunk = chunk /\ tc'.next = First + n
  <2>1. Last(chunk) + 1 = First + n
    BY <1>1, <1>3, <1>4, <1>5
  <2>2. QED
    BY <1>2, <2>1
<1>7. First' = First
  <2>1. First' = (First + n) - n
    BY <1>6 DEF First
  <2>2. QED
    BY <1>3, <1>4, <2>1
<1>8. SenderInv'
  <2>1. Len(tc'.chunk) <= Buf /\ First' >= 1 /\ tc'.chunk # <<>>
    BY <1>1, <1>4, <1>6, <1>7, EmptySeq
  <2>2. QED
    BY <1>4, <1>6, <1>7, <2>1 DEF SenderInv
<1>9. ServerInv'
  BY <1>2 DEF TxInv, ServerInv, TxEnd
<1>10. TxTypeOK'
  <2>1. tc' \in SenderType
    <3>1. First + n \in Nat \ {0}
      BY <1>3, <1>4
    <3>2. tc' = [pc |-> "ok", next |-> First + n, chunk |-> chunk]
      BY <1>2, <1>6
    <3>3. QED
      BY <1>4, <3>1, <3>2 DEF SenderType
  <2>2. Command(Len(chunk)) \in TxToken
    BY <1>4 DEF Command, TxToken
  <2>3. twire' \in Seq(TxToken)
    BY <1>2, <2>2, AppendProperties DEF TxInv, TxTypeOK
  <2>4. QED
    BY <1>2, <2>1, <2>3 DEF TxInv, TxTypeOK, SenderType
<1>11. QED
  BY <1>2, <1>6, <1>7, <1>8, <1>9, <1>10

(* A call that fails goes on to the next one's samples.                    *)
LEMMA FailedSend ==
  ASSUME TxInv, SampleAssumption, tc.pc # "ready", tc' = TxFails
  PROVE  tc' \in SenderType /\ SenderInv' /\ tc'.pc = "ready"
<1>1. /\ tc.chunk \in Seq(Nat) /\ tc.chunk # <<>> /\ tc.next \in Nat /\ First >= 1
      /\ First = tc.next - Len(tc.chunk) /\ Buf \in Nat
  BY Sizes DEF TxInv, TxTypeOK, SenderInv, First
<1>2. Len(tc.chunk) \in Nat /\ Len(tc.chunk) >= 1
  BY <1>1, EmptySeq
<1> DEFINE v == tc.next - 1
           e == BurstEnd(v)
<1>3. v \in Nat \ {0}
  <2> DEFINE l == Len(tc.chunk)
             x == tc.next
  <2>1. x \in Nat /\ l \in Nat /\ l >= 1 /\ x - l >= 1
    BY <1>1, <1>2
  <2> HIDE DEF l, x
  <2>2. x - 1 \in Nat \ {0}
    BY <2>1
  <2>3. QED
    BY <2>2 DEF x
<1> HIDE DEF v
<1>4. e \in Nat /\ e + 1 \in Nat \ {0}
  <2>1. e \in Nat
    BY <1>3, BurstEndsAfter
  <2> HIDE DEF e
  <2>2. QED
    BY <2>1
<1>5. tc' = [pc |-> "ready", next |-> e + 1, chunk |-> <<>>]
  BY DEF TxFails, v
<1> HIDE DEF e
<1>6. <<>> \in Seq(Nat) /\ Len(<<>>) = 0
  OBVIOUS
<1>7. tc' \in SenderType
  BY <1>4, <1>5, <1>6 DEF SenderType
<1>8. tc'.chunk = <<>> /\ tc'.next = e + 1 /\ tc'.pc = "ready"
  BY <1>5
<1>9. First' = e + 1
  BY <1>4, <1>6, <1>8 DEF First
<1>10. SenderInv'
  BY <1>1, <1>4, <1>6, <1>8, <1>9 DEF SenderInv
<1>11. QED
  BY <1>7, <1>8, <1>10

(* What the client's state is while a call is under way.                   *)
LEMMA Sending ==
  ASSUME TxInv, SampleAssumption
  PROVE  /\ tc \in SenderType /\ ts \in ServerType /\ tc.chunk \in Seq(Nat) /\ tc.next \in Nat
         /\ Len(tc.chunk) \in Nat /\ Len(tc.chunk) <= Buf /\ Buf \in Nat
         /\ First \in Nat \ {0} /\ tc.next = First + Len(tc.chunk)
         /\ \A i \in 1 .. Len(tc.chunk) : tc.chunk[i] = First + i - 1
         /\ tc.pc # "ready" => Len(tc.chunk) >= 1
         /\ twire \in Seq(TxToken) /\ tack \in Seq(RetToken) /\ acked \subseteq Nat \ {0}
<1>1. /\ tc \in SenderType /\ ts \in ServerType
      /\ twire \in Seq(TxToken) /\ tack \in Seq(RetToken) /\ acked \subseteq Nat \ {0}
  BY DEF TxInv, TxTypeOK, SenderType, ServerType
<1>2. tc.chunk \in Seq(Nat) /\ tc.next \in Nat
  BY <1>1 DEF SenderType
<1>3. Len(tc.chunk) \in Nat
  BY <1>2, LenProperties
<1>4. /\ Len(tc.chunk) <= Buf /\ First >= 1
      /\ \A i \in 1 .. Len(tc.chunk) : tc.chunk[i] = First + i - 1
      /\ tc.pc # "ready" => tc.chunk # <<>>
  BY DEF TxInv, SenderInv
<1>5. tc.pc # "ready" => Len(tc.chunk) >= 1
  BY <1>2, <1>3, <1>4, EmptySeq
<1>6. First \in Nat \ {0} /\ tc.next = First + Len(tc.chunk)
  <2>1. First = tc.next - Len(tc.chunk)
    BY DEF First
  <2> DEFINE f == First
  <2>2. f = tc.next - Len(tc.chunk) /\ f >= 1
    BY <1>4, <2>1
  <2> HIDE DEF f
  <2>3. f \in Nat \ {0} /\ tc.next = f + Len(tc.chunk)
    BY <1>2, <1>3, <2>2, SMTT(30)
  <2>4. QED
    BY <2>3 DEF f
<1>7. QED
  BY <1>1, <1>2, <1>3, <1>4, <1>5, <1>6, Sizes

LEMMA TxTyped ==
  ASSUME tc' \in SenderType, ts' \in ServerType, twire' \in Seq(TxToken),
         tack' \in Seq(RetToken), acked' \subseteq Nat \ {0}
  PROVE  TxTypeOK'
BY DEF TxTypeOK, SenderType, ServerType

ChunkTokens == [i \in 1 .. Len(tc.chunk) |-> Sample(0, tc.chunk[i])]

LEMMA SamplesWritten ==
  ASSUME TxInv, RxInv, SampleAssumption
  PROVE  /\ ChunkTokens \in Seq(TxToken) /\ Len(ChunkTokens) = Len(tc.chunk)
         /\ \A i \in 1 .. Len(tc.chunk) : IsSample(ChunkTokens[i]) /\ ChunkTokens[i].v = tc.chunk[i]
<1>1. tc.chunk \in Seq(Nat) /\ Len(tc.chunk) \in Nat
  BY Sending
<1>2. ASSUME NEW i \in 1 .. Len(tc.chunk)
      PROVE  /\ Sample(0, tc.chunk[i]) \in TxToken
             /\ IsSample(Sample(0, tc.chunk[i])) /\ Sample(0, tc.chunk[i]).v = tc.chunk[i]
  <2>1. tc.chunk[i] \in Int
    BY <1>1, ElementOfSeq, SMTT(30)
  <2>2. (now > 0 + LookBack) \in BOOLEAN
    OBVIOUS
  <2>3. Sample(0, tc.chunk[i]) \in SampleToken
    BY <2>1, <2>2 DEF Sample, SampleToken
  <2>4. QED
    BY <2>3 DEF TxToken, Sample, IsSample
<1>3. ChunkTokens \in Seq(TxToken) /\ Len(ChunkTokens) = Len(tc.chunk)
  BY <1>1, <1>2, IsASeq, SMTT(30) DEF ChunkTokens
<1>4. QED
  BY <1>2, <1>3 DEF ChunkTokens

LEMMA TailOfAnswers ==
  ASSUME TxInv, SampleAssumption, tack # <<>>
  PROVE  /\ Tail(tack) \in Seq(RetToken) /\ Head(tack) = tack[1] /\ Len(tack) >= 1
         /\ Len(Tail(tack)) = Len(tack) - 1 /\ tack[1] \in RetToken /\ tack[1].n \in Int
<1>1. tack \in Seq(RetToken)
  BY Sending
<1>2. Tail(tack) = SubSeq(tack, 1 + 1, Len(tack)) /\ Head(tack) = tack[1] /\ Len(tack) >= 1
  BY <1>1, TailDrops
<1>3. 1 \in 0 .. Len(tack) /\ 1 \in 1 .. Len(tack)
  BY <1>1, <1>2
<1>4. Tail(tack) \in Seq(RetToken) /\ Len(Tail(tack)) = Len(tack) - 1
  BY <1>1, <1>2, <1>3, Dropped
<1>5. tack[1] \in RetToken
  BY <1>1, <1>3, ElementOfSeq
<1>6. tack[1].n \in Int
  BY <1>5 DEF RetToken
<1>7. QED
  BY <1>2, <1>4, <1>5, <1>6

LEMMA ReadOkStep ==
  ASSUME TxInv, RxInv, SampleAssumption, ReadOk
  PROVE  TxTypeOK' /\ SenderInv' /\ ServerInv'
<1>1. /\ tc.pc = "ok" /\ tack # <<>> /\ tack' = Tail(tack)
      /\ IF Head(tack).n < 0
         THEN tc' = TxFails /\ UNCHANGED twire
         ELSE /\ tc' = [tc EXCEPT !.pc = "ack"]
              /\ twire' = twire \o ChunkTokens
      /\ UNCHANGED <<ts, now, tx, acked>>
  BY DEF ReadOk, ChunkTokens, air, history
<1>2. ServerInv'
  BY <1>1 DEF TxInv, ServerInv, TxEnd
<1>3. tack' \in Seq(RetToken)
  BY <1>1, TailOfAnswers
<1>4. tc' \in SenderType /\ SenderInv' /\ twire' \in Seq(TxToken)
  <2>1. CASE Head(tack).n < 0
    BY <1>1, <2>1, FailedSend, Sending
  <2>2. CASE ~(Head(tack).n < 0)
    <3>1. tc' \in SenderType /\ tc'.chunk = tc.chunk /\ tc'.next = tc.next /\ tc'.pc = "ack"
      BY <1>1, <2>2, Sending DEF SenderType
    <3>2. SenderInv'
      BY <1>1, <3>1 DEF TxInv, SenderInv, First
    <3>3. twire' \in Seq(TxToken)
      <4>1. twire' = twire \o ChunkTokens
        BY <1>1, <2>2
      <4>2. twire \in Seq(TxToken) /\ ChunkTokens \in Seq(TxToken)
        BY SamplesWritten, Sending
      <4>3. twire \o ChunkTokens \in Seq(TxToken)
        BY <4>2, ConcatProperties
      <4>4. QED
        BY <4>1, <4>3
    <3>4. QED
      BY <3>1, <3>2, <3>3
  <2>3. QED
    BY <2>1, <2>2
<1>5. QED
  BY <1>1, <1>2, <1>3, <1>4, Sending, TxTyped

(* An acknowledgement covers the first samples of the chunk; what it does   *)
(* not cover stays to be sent.                                             *)
LEMMA ReadAckStep ==
  ASSUME TxInv, SampleAssumption, ReadAck
  PROVE  /\ TxTypeOK' /\ SenderInv' /\ ServerInv'
         /\ tack[1].n \in 1 .. Len(tc.chunk) =>
              /\ First' = First + tack[1].n /\ tc'.pc = "ready"
              /\ acked' = acked \cup First .. First + tack[1].n - 1
<1> DEFINE l == Len(tc.chunk)
           h == tack[1].n
           n == IF h < l THEN h ELSE l
<1>0. /\ tc.pc = "ack" /\ tack # <<>> /\ tack' = Tail(tack)
      /\ UNCHANGED <<ts, now, tx, twire>>
  BY DEF ReadAck, air
<1>1. Head(tack) = tack[1] /\ h \in Int /\ tack' \in Seq(RetToken)
  BY <1>0, TailOfAnswers
<1>2. IF h <= 0
      THEN tc' = TxFails /\ UNCHANGED acked
      ELSE /\ acked' = acked \cup {tc.chunk[i] : i \in 1 .. n}
           /\ tc' = [tc EXCEPT !.pc = "ready", !.chunk = SubSeq(tc.chunk, n + 1, l)]
  BY <1>1 DEF ReadAck
<1>3. /\ tc \in SenderType /\ tc.chunk \in Seq(Nat) /\ l \in Nat /\ l >= 1 /\ l <= Buf
      /\ First \in Nat \ {0} /\ tc.next = First + l /\ Buf \in Nat /\ acked \subseteq Nat \ {0}
      /\ \A i \in 1 .. l : tc.chunk[i] = First + i - 1
  BY <1>0, Sending
<1>4. ServerInv'
  BY <1>0 DEF TxInv, ServerInv, TxEnd
<1>5. CASE h <= 0
  <2>1. tc' \in SenderType /\ SenderInv' /\ acked' \subseteq Nat \ {0}
    BY <1>0, <1>2, <1>3, <1>5, FailedSend
  <2>2. ~(h \in 1 .. l)
    BY <1>1, <1>3, <1>5, SMTT(30)
  <2>3. TxTypeOK'
    BY <1>0, <1>1, <2>1, Sending, TxTyped
  <2>4. QED
    BY <1>4, <2>1, <2>2, <2>3
<1>6. CASE h > 0
  <2>1. n \in 1 .. l /\ n \in 0 .. l /\ n \in Nat /\ (h \in 1 .. l => n = h)
    <3>1. h \in Int /\ h > 0 /\ l \in Nat /\ l >= 1
      BY <1>1, <1>3, <1>6
    <3> HIDE DEF h, l
    <3>2. QED
      BY <3>1
  <2> DEFINE rest == SubSeq(tc.chunk, n + 1, l)
             m == l - n
             f == First
  <2>2. /\ rest \in Seq(Nat) /\ Len(rest) = m
        /\ \A i \in 1 .. m : rest[i] = tc.chunk[i + n]
    <3> HIDE DEF n
    <3>1. n \in 0 .. Len(tc.chunk) /\ tc.chunk \in Seq(Nat)
      BY <1>3, <2>1
    <3>2. QED
      BY <3>1, Dropped
  <2>3. tc' = [tc EXCEPT !.pc = "ready", !.chunk = rest]
    BY <1>1, <1>2, <1>6
  <2>4. acked' = acked \cup {tc.chunk[i] : i \in 1 .. n}
    BY <1>1, <1>2, <1>6, SMTT(30)
  <2>5. f \in Nat \ {0} /\ tc.next = f + l /\ \A i \in 1 .. l : tc.chunk[i] = f + i - 1
    BY <1>3
  <2> HIDE DEF rest, n, f
  <2>6. tc' \in SenderType /\ tc'.pc = "ready" /\ tc'.chunk = rest /\ tc'.next = tc.next
    BY <1>3, <2>2, <2>3 DEF SenderType
  <2> HIDE DEF l
  <2>7. m \in Nat /\ m <= l /\ m <= Buf
    BY <1>3, <2>1
  <2>8. First' = f + n
    <3>1. First' = tc.next - m
      BY <2>2, <2>6 DEF First
    <3>2. (f + l) - (l - n) = f + n
      BY <1>3, <2>1, <2>5
    <3>3. QED
      BY <2>5, <3>1, <3>2
  <2>9. \A i \in 1 .. m : rest[i] = (f + n) + i - 1
    <3> SUFFICES ASSUME NEW i \in 1 .. m PROVE rest[i] = (f + n) + i - 1
      OBVIOUS
    <3>1. i + n \in 1 .. l /\ i \in Nat
      BY <1>3, <2>1, <2>7, SMTT(30)
    <3>2. rest[i] = f + (i + n) - 1
      BY <2>2, <2>5, <3>1
    <3>3. f + (i + n) - 1 = (f + n) + i - 1
      BY <2>1, <2>5, <3>1
    <3>4. QED
      BY <3>2, <3>3
  <2>10. SenderInv'
    <3>1. f + n >= 1
      BY <2>1, <2>5
    <3>2. QED
      BY <2>2, <2>6, <2>7, <2>8, <2>9, <3>1 DEF SenderInv
  <2>11. {tc.chunk[i] : i \in 1 .. n} = f .. f + n - 1
    <3>1. ASSUME NEW i \in 1 .. n PROVE tc.chunk[i] \in f .. f + n - 1
      <4>1. i \in 1 .. l /\ i \in Nat /\ i <= n /\ i >= 1
        BY <1>3, <2>1
      <4>2. f + i - 1 \in f .. f + n - 1
        BY <2>1, <2>5, <4>1
      <4>3. QED
        BY <2>5, <4>1, <4>2
    <3>2. ASSUME NEW v \in f .. f + n - 1 PROVE \E i \in 1 .. n : tc.chunk[i] = v
      <4> DEFINE i == v - f + 1
      <4>1. i \in 1 .. n /\ i \in 1 .. l /\ f + i - 1 = v
        BY <1>3, <2>1, <2>5
      <4> HIDE DEF i
      <4>2. QED
        BY <2>5, <4>1
    <3>3. QED
      BY <3>1, <3>2
  <2>12. acked' \subseteq Nat \ {0}
    <3>1. f .. f + n - 1 \subseteq Nat \ {0}
      BY <2>1, <2>5
    <3>2. QED
      BY <1>3, <2>4, <2>11, <3>1
  <2>13. TxTypeOK'
    BY <1>0, <1>1, <2>6, <2>12, Sending, TxTyped
  <2>14. h \in 1 .. l => First' = First + h /\ acked' = acked \cup First .. First + h - 1
    BY <2>1, <2>4, <2>8, <2>11 DEF f
  <2>15. QED
    BY <1>4, <2>6, <2>10, <2>13, <2>14 DEF l
<1>7. QED
  BY <1>1, <1>5, <1>6

LEMMA SendTimesOutStep ==
  ASSUME TxInv, SampleAssumption, SendTimesOut
  PROVE  TxTypeOK' /\ SenderInv' /\ ServerInv'
<1>1. /\ tc.pc # "ready" /\ tc' = TxFails
      /\ UNCHANGED <<ts, now, tx, acked, twire, tack>>
  BY DEF SendTimesOut, air, history
<1>2. tc' \in SenderType /\ SenderInv'
  BY <1>1, FailedSend
<1>3. ServerInv'
  BY <1>1 DEF TxInv, ServerInv, TxEnd
<1>4. QED
  BY <1>1, <1>2, <1>3, Sending, TxTyped

-----------------------------------------------------------------------------
(* The server's side of the same line.                                     *)
LEMMA SenderKept ==
  ASSUME TxInv, SampleAssumption, UNCHANGED <<tc, acked>>,
         ts' \in ServerType, twire' \in Seq(TxToken), tack' \in Seq(RetToken)
  PROVE  TxTypeOK' /\ SenderInv'
<1>1. SenderInv'
  BY DEF TxInv, SenderInv, First
<1>2. QED
  BY <1>1, Sending, TxTyped

(* Its first token is of one kind or the other.                            *)
LEMMA HeadOfLine ==
  ASSUME TxInv, SampleAssumption, twire # <<>>
  PROVE  /\ Tail(twire) \in Seq(TxToken) /\ Head(twire) = twire[1] /\ Len(twire) >= 1
         /\ Len(Tail(twire)) = Len(twire) - 1 /\ Len(twire) \in Nat
         /\ twire[1].kind = "cmd" => twire[1].n \in Nat \ {0} /\ ~IsSample(twire[1])
<1>1. twire \in Seq(TxToken) /\ Len(twire) \in Nat
  BY Sending, LenProperties
<1>2. Tail(twire) = SubSeq(twire, 1 + 1, Len(twire)) /\ Head(twire) = twire[1] /\ Len(twire) >= 1
  BY <1>1, TailDrops
<1>3. 1 \in 0 .. Len(twire) /\ 1 \in 1 .. Len(twire)
  BY <1>1, <1>2
<1>4. Tail(twire) \in Seq(TxToken) /\ Len(Tail(twire)) = Len(twire) - 1
  BY <1>1, <1>2, <1>3, Dropped
<1>5. twire[1] \in TxToken
  BY <1>1, <1>3, ElementOfSeq
<1>6. twire[1].kind = "cmd" => twire[1].n \in Nat \ {0} /\ ~IsSample(twire[1])
  BY <1>5 DEF TxToken, SampleToken, IsSample
<1>7. QED
  BY <1>1, <1>2, <1>4, <1>6

LEMMA TxCommandStep ==
  ASSUME TxInv, SampleAssumption, TxCommand
  PROVE  TxTypeOK' /\ SenderInv' /\ ServerInv'
<1>1. /\ twire # <<>> /\ Head(twire).kind = "cmd"
      /\ ts' = [pc |-> "payload", want |-> Head(twire).n, payload |-> <<>>]
      /\ twire' = Tail(twire) /\ tack' = Append(tack, Ret(0))
      /\ UNCHANGED <<tc, acked>>
  BY DEF TxCommand, history
<1>2. twire' \in Seq(TxToken) /\ Head(twire).n \in Nat \ {0}
  BY <1>1, HeadOfLine
<1>3. ts' \in ServerType /\ ts'.pc = "payload" /\ ts'.want \in Nat \ {0}
  <2>1. <<>> \in Seq(Int)
    OBVIOUS
  <2>2. QED
    BY <1>1, <1>2, <2>1 DEF ServerType
<1>4. ServerInv'
  BY <1>3 DEF ServerInv
<1>5. tack' \in Seq(RetToken)
  <2>1. Ret(0) \in RetToken
    BY DEF Ret, RetToken
  <2>2. QED
    BY <1>1, <2>1, Sending, AppendProperties
<1>6. QED
  BY <1>1, <1>2, <1>3, <1>4, <1>5, SenderKept

LEMMA TxGarbageStep ==
  ASSUME TxInv, SampleAssumption, TxGarbage
  PROVE  TxTypeOK' /\ SenderInv' /\ ServerInv'
<1>1. /\ twire # <<>> /\ twire' = Tail(twire) /\ tack' \in {tack, Append(tack, Ret(-22))}
      /\ UNCHANGED <<tc, acked, ts, now, tx>>
  BY DEF TxGarbage, air, history
<1>2. twire' \in Seq(TxToken)
  BY <1>1, HeadOfLine
<1>3. tack' \in Seq(RetToken)
  <2>1. Ret(-22) \in RetToken
    BY DEF Ret, RetToken
  <2>2. Append(tack, Ret(-22)) \in Seq(RetToken) /\ tack \in Seq(RetToken)
    BY <2>1, Sending, AppendProperties
  <2>3. QED
    BY <1>1, <2>2
<1>4. ServerInv'
  BY <1>1 DEF TxInv, ServerInv, TxEnd
<1>5. QED
  BY <1>1, <1>2, <1>3, <1>4, Sending, SenderKept

LEMMA TxPayloadStep ==
  ASSUME TxInv, SampleAssumption, TxPayload
  PROVE  /\ TxTypeOK' /\ SenderInv' /\ ServerInv'
         /\ ts'.pc = "pace" /\ ts'.want = ts.want
         /\ \A i \in 1 .. ts.want : IsSample(twire[i]) => ts'.payload[i] = twire[i].v
<1> DEFINE w == ts.want
           payload == [i \in 1 .. w |-> IF IsSample(twire[i]) THEN twire[i].v ELSE Garbage]
<1>1. /\ ts.pc = "payload" /\ Len(twire) >= w
      /\ ts' = [ts EXCEPT !.pc = "pace", !.payload = payload]
      /\ twire' = SubSeq(twire, w + 1, Len(twire))
      /\ UNCHANGED <<tc, acked, tack, now, tx>>
  BY DEF TxPayload, air, history
<1>2. ts \in ServerType /\ w \in Nat /\ w >= 1 /\ twire \in Seq(TxToken) /\ Len(twire) \in Nat
  <2>1. ts \in ServerType /\ twire \in Seq(TxToken)
    BY Sending
  <2>2. w \in Nat
    BY <2>1 DEF ServerType
  <2>3. w >= 1
    BY <1>1 DEF TxInv, ServerInv
  <2>4. QED
    BY <2>1, <2>2, <2>3, LenProperties
<1> HIDE DEF w
<1>3. payload \in Seq(Int) /\ Len(payload) = w
  <2>1. ASSUME NEW i \in 1 .. w
        PROVE  (IF IsSample(twire[i]) THEN twire[i].v ELSE Garbage) \in Int
    <3>1. i \in 1 .. Len(twire)
      BY <1>1, <1>2
    <3>2. twire[i] \in TxToken
      BY <1>2, <3>1, ElementOfSeq
    <3>3. IsSample(twire[i]) => twire[i].v \in Int
      BY <3>2 DEF TxToken, SampleToken, IsSample
    <3>4. QED
      BY <3>3 DEF Garbage
  <2>2. QED
    BY <1>2, <2>1, IsASeq
<1>4. \A i \in 1 .. w : IsSample(twire[i]) => payload[i] = twire[i].v
  OBVIOUS
<1> HIDE DEF payload
<1>5. ts' \in ServerType /\ ts'.pc = "pace" /\ ts'.want = w /\ ts'.payload = payload
  BY <1>1, <1>2, <1>3 DEF ServerType, w
<1>6. twire' \in Seq(TxToken)
  <2>1. w \in 0 .. Len(twire)
    BY <1>1, <1>2
  <2>2. QED
    BY <1>1, <1>2, <2>1, Dropped
<1>7. ServerInv'
  BY <1>2, <1>3, <1>5 DEF ServerInv
<1>8. QED
  BY <1>1, <1>4, <1>5, <1>6, <1>7, Sending, SenderKept DEF w

LEMMA TxPacedStep ==
  ASSUME TxInv, SampleAssumption, TxPaced
  PROVE  TxTypeOK' /\ SenderInv' /\ ServerInv'
<1>1. /\ ts.pc = "pace" /\ TxEnd <= now + TxAhead /\ ts' = [ts EXCEPT !.pc = "append"]
      /\ UNCHANGED <<tc, acked, twire, tack, now, tx>>
  BY DEF TxPaced, air, history
<1>2. ts' \in ServerType /\ ts'.pc = "append" /\ ts'.want = ts.want /\ ts'.payload = ts.payload
  BY <1>1, Sending DEF ServerType
<1>3. ServerInv'
  BY <1>1, <1>2 DEF TxInv, ServerInv, TxEnd
<1>4. QED
  BY <1>1, <1>2, <1>3, Sending, SenderKept

LEMMA TxAppendStep ==
  ASSUME RxInv, AirInv, TxInv, SampleAssumption, TxAppend
  PROVE  TxTypeOK' /\ SenderInv' /\ ServerInv' /\ ts'.pc = "line"
<1>1. PICK k \in Nat, start \in Nat : Landed(k, start)
  BY TxAppendLands
<1>2. /\ ts' = [ts EXCEPT !.pc = "line"]
      /\ UNCHANGED <<tc, acked, twire>>
  BY DEF TxAppend
<1>3. ts' \in ServerType /\ ts'.pc = "line"
  BY <1>2, Sending DEF ServerType
<1>4. ServerInv'
  BY <1>3 DEF ServerInv
<1>5. tack' \in Seq(RetToken)
  <2>1. Ret(k) \in RetToken /\ tack' = Append(tack, Ret(k))
    BY <1>1 DEF Ret, RetToken, Landed
  <2>2. QED
    BY <2>1, Sending, AppendProperties
<1>6. QED
  BY <1>2, <1>3, <1>4, <1>5, Sending, SenderKept

(* Steps that leave the line alone, the clock going forward at most.       *)
LEMMA TxKept ==
  ASSUME TxInv, RxInv, SampleAssumption, UNCHANGED <<tc, ts, twire, tack, acked, tx>>,
         now' \in Nat, now' >= now
  PROVE  TxTypeOK' /\ SenderInv' /\ ServerInv'
<1>1. TxTypeOK' /\ SenderInv'
  BY Sending, SenderKept
<1>2. TxEnd <= now + TxAhead => TxEnd <= now' + TxAhead
  <2> DEFINE e == TxEnd
  <2>1. e \in Nat
    BY SMTT(30) DEF RxInv, AirTypeOK, TxEnd
  <2>2. now \in Nat /\ TxAhead \in Nat
    BY Sizes DEF RxInv, AirTypeOK
  <2> HIDE DEF e
  <2>3. e <= now + TxAhead => e <= now' + TxAhead
    <3>1. \A x, a, b, c \in Nat : (b >= a /\ x <= a + c) => x <= b + c
      OBVIOUS
    <3>2. QED
      BY <2>1, <2>2, <3>1
  <2>4. QED
    BY <2>3 DEF e
<1>3. ServerInv'
  BY <1>2 DEF TxInv, ServerInv, TxEnd
<1>4. QED
  BY <1>1, <1>3

-----------------------------------------------------------------------------
(* No answer to the sender too late: every answer is to the call it is     *)
(* read for, and what was consumed is what was placed.                     *)
TxGood == TxSynced /\ Delivered

LEMMA DeliveredKept ==
  ASSUME TxInv, SampleAssumption, Delivered, UNCHANGED placed,
         Unconsumed' = Unconsumed, First' \in Int, First' >= First,
         \A v \in acked' : v \in acked \/ v \in First .. Unconsumed - 1
  PROVE  Delivered'
<1>1. \A v \in acked' : IsPlaced(v)
  BY DEF Delivered
<1>2. \A v \in First' .. Unconsumed - 1 : IsPlaced(v)
  <2> SUFFICES ASSUME NEW v \in First' .. Unconsumed - 1 PROVE IsPlaced(v)
    OBVIOUS
  <2>1. v \in First .. Unconsumed - 1
    <3> DEFINE f == First
               g == First'
               u == Unconsumed - 1
    <3>1. f \in Int /\ g \in Int /\ g >= f /\ v \in g .. u
      BY Sending
    <3> HIDE DEF f, g, u
    <3>2. v \in f .. u
      BY <3>1
    <3>3. QED
      BY <3>2 DEF f, u
  <2>2. QED
    BY <2>1 DEF Delivered
<1>3. \A v : IsPlaced(v)' <=> IsPlaced(v)
  BY DEF IsPlaced
<1>4. QED
  BY <1>1, <1>2, <1>3 DEF Delivered

(* Steps of the other side, and of the clock.                              *)
LEMMA TxGoodKept ==
  ASSUME TxGood, UNCHANGED <<tc, ts, twire, tack, acked, placed>>
  PROVE  TxGood'
BY DEF TxGood, TxSynced, Delivered, Commanded, Written, Unconsumed, First, IsPlaced

(* The answer that is due.                                                 *)
LEMMA AnswerCounted ==
  ASSUME TxInv, SampleAssumption
  PROVE  /\ (tc.pc # "ack" \/ tack = <<>>) => Unconsumed = First
         /\ (tc.pc = "ack" /\ tack # <<>>) => Unconsumed = First + tack[1].n
<1>1. First \in Int
  BY Sending
<1>2. Unconsumed = First + (IF tc.pc = "ack" /\ tack # <<>> THEN tack[1].n ELSE 0)
  BY DEF Unconsumed
<1> DEFINE f == First
           u == Unconsumed
           n == tack[1].n
<1>3. u = f + (IF tc.pc = "ack" /\ tack # <<>> THEN n ELSE 0) /\ f \in Int
  BY <1>1, <1>2
<1> HIDE DEF f, u, n
<1>4. /\ (tc.pc # "ack" \/ tack = <<>>) => u = f
      /\ (tc.pc = "ack" /\ tack # <<>>) => u = f + n
  BY <1>3
<1>5. QED
  BY <1>4 DEF f, u, n

LEMMA SendHeaderSync ==
  ASSUME TxInv, SampleAssumption, TxGood, SendHeader
  PROVE  TxGood'
<1>1. /\ tc.pc = "ready" /\ tc'.pc = "ok" /\ First' = First /\ First \in Nat
      /\ twire' = Append(twire, Command(Len(tc'.chunk)))
      /\ UNCHANGED <<tack, ts, placed, acked>>
  BY SendHeaderStep, Sending
<1>2. tack = <<>> /\ twire = <<>> /\ ts.pc = "line"
  BY <1>1 DEF TxGood, TxSynced
<1>3. Len(twire') = 1 /\ twire'[1] = Command(Len(tc'.chunk))
  BY <1>1, <1>2
<1>4. TxSynced'
  BY <1>1, <1>2, <1>3 DEF TxSynced, Commanded
<1>5. Unconsumed = First /\ Unconsumed' = First
  <2>1. Unconsumed = First
    BY <1>1, AnswerCounted
  <2>2. Unconsumed' = First + 0
    BY <1>1 DEF Unconsumed
  <2>3. QED
    BY <1>1, <2>1, <2>2
<1>6. Delivered'
  BY <1>1, <1>5, DeliveredKept DEF TxGood
<1>7. QED
  BY <1>4, <1>6 DEF TxGood

LEMMA ReadOkSync ==
  ASSUME TxInv, RxInv, SampleAssumption, TxGood, ReadOk
  PROVE  TxGood'
<1>1. /\ tc.pc = "ok" /\ tack # <<>> /\ tack' = Tail(tack)
      /\ Head(tack).n >= 0 =>
           /\ tc' = [tc EXCEPT !.pc = "ack"]
           /\ twire' = twire \o ChunkTokens
      /\ UNCHANGED <<ts, acked, placed>>
  <2>1. /\ tc.pc = "ok" /\ tack # <<>> /\ tack' = Tail(tack)
        /\ IF Head(tack).n < 0
           THEN tc' = TxFails /\ UNCHANGED twire
           ELSE /\ tc' = [tc EXCEPT !.pc = "ack"]
                /\ twire' = twire \o ChunkTokens
        /\ UNCHANGED <<ts, acked, placed>>
    BY DEF ReadOk, ChunkTokens, history
  <2> DEFINE h == Head(tack).n
  <2>2. h \in Int
    BY <2>1, TailOfAnswers
  <2>3. h >= 0 => ~(h < 0)
    <3> HIDE DEF h
    <3> QED BY <2>2
  <2>4. QED
    BY <2>1, <2>3
<1>2. /\ twire = <<>> /\ ts.pc = "payload" /\ ts.want = Len(tc.chunk)
      /\ Len(tack) = 1 /\ tack[1].n = 0
  BY <1>1 DEF TxGood, TxSynced, Commanded
<1>3. tack' = <<>>
  <2>1. tack' \in Seq(RetToken) /\ Len(tack') = 0
    BY <1>1, <1>2, TailOfAnswers
  <2>2. QED
    BY <2>1, EmptySeq
<1>4. /\ tc' = [tc EXCEPT !.pc = "ack"] /\ tc \in SenderType
      /\ twire' = ChunkTokens
  <2>1. Head(tack).n >= 0
    BY <1>1, <1>2, TailOfAnswers
  <2>2. ChunkTokens \in Seq(TxToken)
    BY SamplesWritten
  <2>3. <<>> \o ChunkTokens = ChunkTokens
    BY <2>2, ConcatEmptySeq
  <2>4. QED
    BY <1>1, <1>2, <2>1, <2>3, Sending
<1>5. tc'.pc = "ack" /\ tc'.chunk = tc.chunk /\ tc'.next = tc.next
  BY <1>4 DEF SenderType
<1>6. TxSynced'
  <2>1. /\ Len(twire') = Len(tc.chunk)
        /\ \A i \in 1 .. Len(twire') : IsSample(twire'[i]) /\ twire'[i].v = tc.chunk[i]
    BY <1>4, SamplesWritten
  <2>2. Written'
    BY <1>1, <1>2, <1>3, <1>5, <2>1 DEF Written
  <2>3. QED
    BY <1>5, <2>2 DEF TxSynced
<1>7. First' = First /\ First \in Nat
  BY <1>5, Sending DEF First
<1>8. Unconsumed = First /\ Unconsumed' = First
  <2>1. Unconsumed = First
    BY <1>1, AnswerCounted
  <2>2. Unconsumed' = First + 0
    BY <1>3, <1>7 DEF Unconsumed
  <2>3. QED
    BY <1>7, <2>1, <2>2
<1>9. Delivered'
  BY <1>1, <1>7, <1>8, DeliveredKept DEF TxGood
<1>10. QED
  BY <1>6, <1>9 DEF TxGood

LEMMA ReadAckSync ==
  ASSUME TxInv, SampleAssumption, TxGood, ReadAck
  PROVE  TxGood'
<1> DEFINE n == tack[1].n
<1>1. /\ tc.pc = "ack" /\ tack # <<>> /\ tack' = Tail(tack)
      /\ UNCHANGED <<ts, twire, placed>>
  BY DEF ReadAck
<1>2. ts.pc = "line" /\ twire = <<>> /\ Len(tack) = 1 /\ n \in 1 .. Len(tc.chunk)
  BY <1>1 DEF TxGood, TxSynced, Written
<1>3. tack' = <<>>
  <2>1. tack' \in Seq(RetToken) /\ Len(tack') = 0
    BY <1>1, <1>2, TailOfAnswers
  <2>2. QED
    BY <2>1, EmptySeq
<1>4. /\ First' = First + n /\ tc'.pc = "ready"
      /\ acked' = acked \cup First .. First + n - 1
  BY <1>2, ReadAckStep
<1>5. TxSynced'
  BY <1>1, <1>2, <1>3, <1>4 DEF TxSynced
<1>6. Unconsumed = First + n
  BY <1>1, AnswerCounted
<1>7. First \in Nat /\ n \in Nat /\ First' \in Nat /\ First' >= First
  <2> DEFINE f == First
             l == Len(tc.chunk)
  <2>1. f \in Nat /\ l \in Nat /\ n \in 1 .. l /\ First' = f + n
    BY <1>2, <1>4, Sending
  <2> HIDE DEF f, l, n
  <2>2. n \in Nat /\ f + n \in Nat /\ f + n >= f
    BY <2>1
  <2>3. QED
    BY <2>1, <2>2 DEF f
<1>8. Unconsumed' = Unconsumed
  <2>1. Unconsumed' = First' + 0
    BY <1>4 DEF Unconsumed
  <2>2. QED
    BY <1>4, <1>6, <1>7, <2>1
<1>9. \A v \in acked' : v \in acked \/ v \in First .. Unconsumed - 1
  <2> DEFINE f == First
             u == Unconsumed
  <2>1. u = f + n /\ acked' = acked \cup f .. f + n - 1 /\ f \in Nat /\ n \in Nat
    BY <1>4, <1>6, <1>7
  <2> HIDE DEF f, u, n
  <2>2. acked' = acked \cup f .. u - 1
    <3>1. u - 1 = f + n - 1
      BY <2>1
    <3>2. QED
      BY <2>1, <3>1
  <2>3. QED
    BY <2>2 DEF f, u
<1>10. Delivered'
  BY <1>1, <1>7, <1>8, <1>9, DeliveredKept DEF TxGood
<1>11. QED
  BY <1>5, <1>10 DEF TxGood

LEMMA TxCommandSync ==
  ASSUME TxInv, SampleAssumption, TxGood, TxCommand
  PROVE  TxGood'
<1>1. /\ ts.pc = "line" /\ twire # <<>>
      /\ ts' = [pc |-> "payload", want |-> Head(twire).n, payload |-> <<>>]
      /\ twire' = Tail(twire) /\ tack' = Append(tack, Ret(0))
      /\ UNCHANGED <<tc, acked, placed>>
  BY DEF TxCommand, history
<1>2. /\ tc.pc = "ok" /\ Len(twire) = 1 /\ twire[1] = Command(Len(tc.chunk)) /\ tack = <<>>
  <2>1. tc \in SenderType
    BY Sending
  <2>2. tc.pc \in {"ready", "ok", "ack"}
    BY <2>1 DEF SenderType
  <2>3. QED
    BY <1>1, <2>2 DEF TxGood, TxSynced, Commanded, Written
<1>3. twire' = <<>>
  <2>1. twire' \in Seq(TxToken) /\ Len(twire') = 0
    BY <1>1, <1>2, HeadOfLine
  <2>2. QED
    BY <2>1, EmptySeq
<1>4. ts'.pc = "payload" /\ ts'.want = Len(tc.chunk)
  <2>1. Head(twire) = Command(Len(tc.chunk))
    BY <1>1, <1>2, HeadOfLine
  <2>2. QED
    BY <1>1, <2>1 DEF Command
<1>5. Len(tack') = 1 /\ tack'[1].n = 0
  BY <1>1, <1>2 DEF Ret
<1>6. TxSynced'
  BY <1>1, <1>2, <1>3, <1>4, <1>5 DEF TxSynced, Commanded
<1>7. First' = First /\ First \in Nat
  BY <1>1, Sending DEF First
<1>8. Unconsumed = First /\ Unconsumed' = First
  <2>1. Unconsumed = First
    BY <1>2, AnswerCounted
  <2>2. Unconsumed' = First + 0
    BY <1>1, <1>2, <1>7 DEF Unconsumed
  <2>3. QED
    BY <1>7, <2>1, <2>2
<1>9. Delivered'
  BY <1>1, <1>7, <1>8, DeliveredKept DEF TxGood
<1>10. QED
  BY <1>6, <1>9 DEF TxGood

(* Nobody has written samples where a command is expected.                 *)
LEMMA TxGarbageSync ==
  ASSUME TxInv, SampleAssumption, TxGood, TxGarbage
  PROVE  FALSE
<1>1. /\ ts.pc = "line" /\ twire # <<>> /\ IsSample(Head(twire))
  BY DEF TxGarbage
<1>2. tc.pc \in {"ready", "ok", "ack"}
  <2>1. tc \in SenderType
    BY Sending
  <2>2. QED
    BY <2>1 DEF SenderType
<1>3. twire[1] = Command(Len(tc.chunk))
  BY <1>1, <1>2 DEF TxGood, TxSynced, Commanded, Written
<1>4. Head(twire) = twire[1]
  BY <1>1, HeadOfLine
<1>5. QED
  BY <1>1, <1>3, <1>4 DEF IsSample, Command

LEMMA TxPayloadSync ==
  ASSUME TxInv, SampleAssumption, TxGood, TxPayload
  PROVE  TxGood'
<1>1. /\ ts.pc = "payload" /\ Len(twire) >= ts.want
      /\ twire' = SubSeq(twire, ts.want + 1, Len(twire))
      /\ UNCHANGED <<tc, tack, acked, placed>>
  BY DEF TxPayload, history
<1>2. /\ ts.want >= 1 /\ ts.want \in Nat
      /\ twire \in Seq(TxToken) /\ Len(twire) \in Nat
      /\ tc.pc \in {"ready", "ok", "ack"}
  <2>1. ts \in ServerType /\ twire \in Seq(TxToken) /\ tc \in SenderType
    BY Sending
  <2>2. ts.want >= 1
    BY <1>1 DEF TxInv, ServerInv
  <2>3. QED
    BY <2>1, <2>2, LenProperties DEF ServerType, SenderType
<1>3. /\ tc.pc = "ack" /\ ts.want = Len(tc.chunk) /\ tack = <<>>
      /\ Len(twire) = Len(tc.chunk)
      /\ \A i \in 1 .. Len(twire) : IsSample(twire[i]) /\ twire[i].v = tc.chunk[i]
  <2>1. twire # <<>>
    BY <1>1, <1>2
  <2>2. QED
    BY <1>1, <1>2, <2>1 DEF TxGood, TxSynced, Commanded, Written
<1>4. /\ ts'.pc = "pace" /\ ts'.want = ts.want
      /\ \A i \in 1 .. ts.want : IsSample(twire[i]) => ts'.payload[i] = twire[i].v
  BY TxPayloadStep
<1>5. twire' = <<>>
  <2> DEFINE w == ts.want
  <2>1. w \in 0 .. Len(twire) /\ Len(twire) - w = 0 /\ twire' = SubSeq(twire, w + 1, Len(twire))
    BY <1>1, <1>2, <1>3
  <2> HIDE DEF w
  <2>2. twire' \in Seq(TxToken) /\ Len(twire') = 0
    BY <1>2, <2>1, Dropped
  <2>3. QED
    BY <2>2, EmptySeq
<1>6. TxSynced'
  <2>1. \A i \in 1 .. Len(tc.chunk) : ts'.payload[i] = tc.chunk[i]
    BY <1>3, <1>4
  <2>2. Written'
    BY <1>1, <1>3, <1>4, <1>5, <2>1 DEF Written
  <2>3. QED
    BY <1>1, <1>3, <2>2 DEF TxSynced
<1>7. First' = First /\ First \in Nat /\ Unconsumed' = Unconsumed
  BY <1>1, Sending DEF First, Unconsumed
<1>8. Delivered'
  BY <1>1, <1>7, DeliveredKept DEF TxGood
<1>9. QED
  BY <1>6, <1>8 DEF TxGood

LEMMA TxPacedSync ==
  ASSUME TxInv, SampleAssumption, TxGood, TxPaced
  PROVE  TxGood'
<1>1. /\ ts.pc = "pace" /\ ts' = [ts EXCEPT !.pc = "append"] /\ ts \in ServerType
      /\ UNCHANGED <<tc, twire, tack, acked, placed>>
  BY Sending DEF TxPaced, history
<1>2. ts'.pc = "append" /\ ts'.want = ts.want /\ ts'.payload = ts.payload
  BY <1>1 DEF ServerType
<1>3. tc.pc \in {"ready", "ok", "ack"}
  <2>1. tc \in SenderType
    BY Sending
  <2>2. QED
    BY <2>1 DEF SenderType
<1>4. TxSynced'
  <2>1. tc.pc = "ack" /\ Written
    BY <1>1, <1>3 DEF TxGood, TxSynced, Commanded
  <2>2. Written'
    BY <1>1, <1>2, <2>1 DEF Written
  <2>3. QED
    BY <1>1, <2>1, <2>2 DEF TxSynced
<1>5. First' = First /\ First \in Nat /\ Unconsumed' = Unconsumed
  BY <1>1, Sending DEF First, Unconsumed
<1>6. Delivered'
  BY <1>1, <1>5, DeliveredKept DEF TxGood
<1>7. QED
  BY <1>4, <1>6 DEF TxGood

LEMMA TxAppendSync ==
  ASSUME RxInv, AirInv, TxInv, SampleAssumption, TxGood, TxAppend
  PROVE  TxGood'
<1>1. PICK k \in Nat, start \in Nat : Landed(k, start)
  BY TxAppendLands
<1>2. /\ ts.pc = "append" /\ ts'.pc = "line"
      /\ UNCHANGED <<tc, acked, twire>>
  BY TxAppendStep DEF TxAppend
<1>3. /\ tc.pc = "ack" /\ ts.want = Len(tc.chunk) /\ tack = <<>> /\ twire = <<>>
      /\ \A i \in 1 .. Len(tc.chunk) : ts.payload[i] = tc.chunk[i]
  <2>1. tc \in SenderType
    BY Sending
  <2>2. tc.pc \in {"ready", "ok", "ack"}
    BY <2>1 DEF SenderType
  <2>3. QED
    BY <1>2, <2>2 DEF TxGood, TxSynced, Commanded, Written
<1> DEFINE l == Len(tc.chunk)
           f == First
<1>4. /\ k \in 1 .. l /\ tack' = Append(tack, Ret(k))
      /\ start >= now /\ start >= TxEnd /\ start <= now + TxAhead + Restart
      /\ \A t \in Position :
           placed'[t] = IF t \in start .. start + k - 1 THEN ts.payload[t - start + 1] ELSE placed[t]
  BY <1>1, <1>3 DEF Landed
<1>5. /\ l \in Nat /\ l <= Buf /\ Buf \in Nat /\ f \in Nat \ {0}
      /\ \A i \in 1 .. l : ts.payload[i] = f + i - 1
      /\ now \in Nat /\ now <= MaxNow /\ TxEnd \in Nat
      /\ MaxNow \in Nat /\ TxAhead \in Nat /\ Restart \in Nat
      /\ placed \in [Position -> Int] /\ \A t \in Position : t \in Nat
  <2>1. now \in Nat /\ now <= MaxNow /\ placed \in [Position -> Int] /\ tx \in Stream
    BY Sizes DEF RxInv, AirTypeOK, Stream
  <2>2. TxEnd \in Nat
    BY <2>1, EndOf DEF TxEnd, End
  <2>3. \A t \in Position : t \in Nat
    BY DEF Position
  <2>4. /\ l \in Nat /\ l <= Buf /\ f \in Nat \ {0}
        /\ \A i \in 1 .. l : tc.chunk[i] = f + i - 1
    BY Sending
  <2>5. QED
    BY <1>3, <2>1, <2>2, <2>3, <2>4, Sizes
<1>6. Len(tack') = 1 /\ tack'[1].n = k
  BY <1>3, <1>4 DEF Ret
<1>7. TxSynced'
  <2>1. tc'.pc = "ack" /\ Len(tc'.chunk) = l
    BY <1>2, <1>3
  <2>2. Written'
    BY <1>2, <1>3, <1>4, <1>6, <2>1 DEF Written
  <2>3. QED
    BY <2>1, <2>2 DEF TxSynced
<1>8. First' = f /\ Unconsumed = f /\ Unconsumed' = f + k
  <2>1. First' = f
    BY <1>2 DEF First
  <2>2. Unconsumed = f
    BY <1>3, AnswerCounted
  <2>3. tack' # <<>> /\ tc'.pc = "ack"
    <3>1. tack' = <<Ret(k)>>
      BY <1>3, <1>4
    <3>2. QED
      BY <1>2, <1>3, <3>1
  <2>4. Unconsumed' = First' + tack'[1].n
    BY <2>3 DEF Unconsumed
  <2>5. QED
    BY <1>6, <2>1, <2>2, <2>4
<1> HIDE DEF l, f
(* The new samples, and the old.                                           *)
<1>9. ASSUME NEW t \in Position, t \in start .. start + k - 1
      PROVE  placed'[t] = f + (t - start)
  <2>1. t \in Nat
    BY <1>5
  <2>2. t - start + 1 \in 1 .. l /\ f + (t - start + 1) - 1 = f + (t - start)
    BY <1>4, <1>5, <1>9, <2>1
  <2>3. placed'[t] = ts.payload[t - start + 1]
    BY <1>4, <1>9
  <2>4. ts.payload[t - start + 1] = f + (t - start + 1) - 1
    BY <1>5, <2>2
  <2>5. QED
    BY <2>2, <2>3, <2>4
<1>10. ASSUME NEW t \in Position, ~(t \in start .. start + k - 1)
       PROVE  placed'[t] = placed[t]
  BY <1>4, <1>10
<1>11. ASSUME NEW t \in Position, placed[t] # Silence
       PROVE  /\ t < start /\ placed[t] \in 1 .. f - 1 /\ placed'[t] = placed[t]
  <2>1. placed[t] \in 1 .. f - 1
    BY <1>8, <1>11 DEF TxGood, Delivered
  <2>2. t \in Nat
    BY <1>5
  <2>3. ~(t >= TxEnd)
    BY <1>11 DEF AirInv, Timeline, End, TxEnd
  <2>4. t < start
    <3> DEFINE e == TxEnd
    <3>1. e \in Nat /\ start >= e /\ ~(t >= e)
      BY <1>4, <1>5, <2>3
    <3> HIDE DEF e
    <3>2. QED
      BY <2>2, <3>1
  <2>5. ~(t \in start .. start + k - 1)
    BY <2>2, <2>4
  <2>6. QED
    BY <1>10, <2>1, <2>4, <2>5
<1>12. ASSUME NEW t \in Position, placed'[t] # Silence
       PROVE  \/ t \in start .. start + k - 1 /\ placed'[t] = f + (t - start)
              \/ t < start /\ placed[t] # Silence /\ placed'[t] = placed[t] /\ placed[t] \in 1 .. f - 1
  <2>1. CASE t \in start .. start + k - 1
    BY <1>9, <2>1
  <2>2. CASE ~(t \in start .. start + k - 1)
    BY <1>10, <1>11, <1>12, <2>2
  <2>3. QED
    BY <2>1, <2>2
<1>13. \A t \in Position : placed'[t] # Silence => placed'[t] \in 1 .. (f + k) - 1
  <2> SUFFICES ASSUME NEW t \in Position, placed'[t] # Silence
               PROVE  placed'[t] \in 1 .. (f + k) - 1
    OBVIOUS
  <2>1. t \in Nat /\ k \in Nat /\ k >= 1
    BY <1>4, <1>5
  <2>2. t \in start .. start + k - 1 => f + (t - start) \in 1 .. (f + k) - 1
    BY <1>5, <2>1
  <2>3. \A v \in 1 .. f - 1 : v \in 1 .. (f + k) - 1
    BY <1>5, <2>1
  <2>4. QED
    BY <1>12, <2>2, <2>3
<1>14. \A t, u \in Position : (placed'[t] # Silence /\ placed'[u] # Silence /\ t < u)
                                => placed'[t] < placed'[u]
  <2> SUFFICES ASSUME NEW t \in Position, NEW u \in Position,
                      placed'[t] # Silence, placed'[u] # Silence, t < u
               PROVE  placed'[t] < placed'[u]
    OBVIOUS
  <2>1. t \in Nat /\ u \in Nat
    BY <1>5
  <2>2. CASE u \in start .. start + k - 1 /\ t \in start .. start + k - 1
    <3>1. placed'[t] = f + (t - start) /\ placed'[u] = f + (u - start)
      BY <1>9, <2>2
    <3>2. f + (t - start) < f + (u - start)
      BY <1>5, <2>1
    <3>3. QED
      BY <3>1, <3>2
  <2>3. CASE u \in start .. start + k - 1 /\ ~(t \in start .. start + k - 1)
    <3>1. placed'[u] = f + (u - start)
      BY <1>9, <2>3
    <3>2. placed'[t] \in 1 .. f - 1
      BY <1>12, <2>3
    <3>3. \A v \in 1 .. f - 1 : v < f + (u - start)
      BY <1>5, <2>1, <2>3
    <3>4. QED
      BY <3>1, <3>2, <3>3
  <2>4. CASE ~(u \in start .. start + k - 1)
    <3>1. u < start /\ placed[u] # Silence /\ placed'[u] = placed[u]
      BY <1>12, <2>4
    <3>2. ~(t \in start .. start + k - 1)
      BY <2>1, <3>1
    <3>3. placed[t] # Silence /\ placed'[t] = placed[t]
      BY <1>12, <3>2
    <3>4. QED
      BY <3>1, <3>3 DEF TxGood, Delivered
  <2>5. QED
    BY <2>2, <2>3, <2>4
<1>15. \A v \in acked : IsPlaced(v)'
  <2> SUFFICES ASSUME NEW v \in acked PROVE IsPlaced(v)'
    OBVIOUS
  <2>1. PICK t \in Position : placed[t] = v
    BY DEF TxGood, Delivered, IsPlaced
  <2>2. v # Silence
    <3>1. v \in Nat \ {0}
      BY Sending
    <3>2. QED
      BY <3>1 DEF Silence
  <2>3. placed'[t] = v
    BY <1>11, <2>1, <2>2
  <2>4. QED
    BY <2>3 DEF IsPlaced
<1>16. \A v \in f .. (f + k) - 1 : IsPlaced(v)'
  <2> SUFFICES ASSUME NEW v \in f .. (f + k) - 1 PROVE IsPlaced(v)'
    OBVIOUS
  <2> DEFINE t == start + (v - f)
  <2>1. k \in Nat /\ k <= Buf /\ k >= 1 /\ v \in Nat /\ v >= f /\ v < f + k
    BY <1>4, <1>5
  <2>2. t \in start .. start + k - 1 /\ t \in Nat /\ t <= now + TxAhead + Restart + Buf
    <3>1. t \in Nat /\ t <= start + k - 1 /\ t >= start
      BY <1>5, <2>1
    <3> HIDE DEF t
    <3>2. t <= now + TxAhead + Restart + Buf
      BY <1>4, <1>5, <2>1, <3>1
    <3>3. QED
      BY <2>1, <3>1, <3>2
  <2>3. f + (t - start) = v
    BY <1>5, <2>1
  <2> HIDE DEF t
  <2>4. t \in Position
    <3>1. t <= MaxNow + TxAhead + Restart + 2 * Buf
      BY <1>5, <2>2
    <3>2. QED
      BY <1>5, <2>2, <3>1 DEF Position
  <2>5. placed'[t] = v
    BY <1>9, <2>2, <2>3, <2>4
  <2>6. QED
    BY <2>4, <2>5 DEF IsPlaced
<1>17. Delivered'
  <2>1. First' .. Unconsumed' - 1 = f .. (f + k) - 1 /\ 1 .. Unconsumed' - 1 = 1 .. (f + k) - 1
    BY <1>8
  <2>2. \A v \in acked' : IsPlaced(v)'
    BY <1>2, <1>15
  <2>3. QED
    BY <1>13, <1>14, <1>16, <2>1, <2>2 DEF Delivered
<1>18. QED
  BY <1>7, <1>17 DEF TxGood

-----------------------------------------------------------------------------
(* No answer to recv() too late: every token is of the call under way.     *)
LEMMA RestDrops ==
  ASSUME NEW w \in Seq(RxToken), NEW k \in Nat, NEW p \in Nat, NEW q \in Nat, q = p + k,
         NEW got \in Nat, Rest(w, q, got), SampleAssumption,
         NEW v, v = SubSeq(w, k + 1, Len(w))
  PROVE  Rest(v, p, got)
<1>1. Len(w) \in Nat /\ Buf \in Nat
  BY LenProperties, Sizes
<1>2. k \in 0 .. Len(w)
  <2>1. Len(w) >= q
    BY <1>1 DEF Rest
  <2>2. QED
    BY <1>1, <2>1
<1>3. /\ v \in Seq(RxToken) /\ Len(v) = Len(w) - k
      /\ \A i \in 1 .. Len(w) - k : v[i] = w[i + k]
  BY <1>2, Dropped
<1>4. CASE got = Buf /\ Len(w) = q
  <2>1. Len(v) = p
    BY <1>1, <1>3, <1>4
  <2>2. QED
    BY <1>4, <2>1 DEF Rest
<1>5. ASSUME got < Buf, NEW n \in Nat, Len(w) = q + 1 + n
      PROVE  Len(v) = p + 1 + n /\ v[p + 1] = w[q + 1]
  <2>1. Len(w) - k = p + 1 + n
    BY <1>1, <1>5
  <2>2. p + 1 \in 1 .. p + 1 + n /\ (p + 1) + k = q + 1
    BY <1>5
  <2>3. QED
    BY <1>3, <2>1, <2>2
<1>6. CASE got < Buf /\ Len(w) = q + 1 /\ w[q + 1] = Ret(0)
  <2>1. Len(w) = q + 1 + 0
    BY <1>1, <1>6
  <2>2. Len(v) = p + 1 + 0 /\ v[p + 1] = w[q + 1]
    BY <1>5, <1>6, <2>1
  <2>3. QED
    BY <1>6, <2>2 DEF Rest
<1>7. CASE got < Buf /\ Len(w) = q + 1 + (Buf - got) /\ w[q + 1] = Ret(Buf - got)
  <2>1. Buf - got \in Nat
    BY <1>1, <1>7
  <2>2. Len(v) = p + 1 + (Buf - got) /\ v[p + 1] = w[q + 1]
    BY <1>5, <1>7, <2>1
  <2>3. QED
    BY <1>7, <2>2 DEF Rest
<1>8. QED
  BY <1>4, <1>6, <1>7 DEF Rest

(* The line, less its first token.                                         *)
LEMMA LineTyped ==
  ASSUME RxInv, SampleAssumption
  PROVE  /\ rwire \in Seq(RxToken) /\ Len(rwire) \in Nat
         /\ rc.out \in Seq(SampleToken) /\ Len(rc.out) \in Nat /\ rc.left \in Nat
         /\ Buf \in Nat /\ Buf >= 1
         /\ rwire = <<>> <=> Len(rwire) = 0
<1>1. rwire \in Seq(RxToken) /\ rc.out \in Seq(SampleToken) /\ rc.left \in Nat
  BY DEF RxInv, RxTypeOK
<1>2. QED
  BY <1>1, LenProperties, EmptySeq, Sizes

LEMMA RecvSync ==
  ASSUME RxInv, SampleAssumption, RxSynced, Recv
  PROVE  RxSynced'
<1>1. /\ rc.pc = "ready"
      /\ rc' = [rc EXCEPT !.pc = "ret", !.out = <<>>, !.calls = @ + 1]
      /\ rs' = [rs EXCEPT !.asked = @ + 1]
      /\ UNCHANGED rwire
  BY DEF Recv
<1>2. rc'.pc = "ret" /\ rc'.out = <<>> /\ rs'.pc = rs.pc /\ rs'.asked = rs.asked + 1
  BY <1>1 DEF RxInv, RxTypeOK
<1>3. rwire = <<>> /\ rs.pc = "line" /\ rs.asked = 0
  BY <1>1 DEF RxSynced
<1>4. Asked'
  BY <1>1, <1>2, <1>3 DEF Asked
<1>5. QED
  BY <1>2, <1>4 DEF RxSynced

LEMMA ReadRetSync ==
  ASSUME RxInv, SampleAssumption, RxSynced, ReadRet
  PROVE  RxSynced'
<1> DEFINE n == Head(rwire).n
           got == Len(rc.out)
<1>1. /\ rc.pc = "ret" /\ rwire # <<>> /\ rwire' = Tail(rwire) /\ UNCHANGED rs
      /\ rc' = CASE n < 0 -> RxFails
                 [] n = 0 -> [rc EXCEPT !.pc = "done"]
                 [] n > 0 -> [rc EXCEPT !.pc = IF rc.maskPending THEN "mask" ELSE "data", !.left = n]
  BY DEF ReadRet
<1>2. rs.pc = "line" /\ rs.asked = 0 /\ Answered
  BY <1>1 DEF RxSynced, Asked
<1>3. /\ rwire \in Seq(RxToken) /\ Len(rwire) \in Nat /\ Len(rwire) >= 1
      /\ got \in Nat /\ Buf \in Nat /\ Buf >= 1
      /\ rwire' = SubSeq(rwire, 1 + 1, Len(rwire)) /\ Head(rwire) = rwire[1]
  BY <1>1, LineTyped, TailDrops
<1>0. n \in Int
  <2>1. rwire[1] \in RxToken /\ rwire[1].kind = "ret"
    BY <1>3, ElementOfSeq DEF ReadRet
  <2>2. QED
    BY <1>3, <2>1, Kinds
<1>4. rwire' \in Seq(RxToken) /\ Len(rwire') = Len(rwire) - 1
  <2>1. 1 \in 0 .. Len(rwire)
    BY <1>3
  <2>2. QED
    BY <1>3, <2>1, Dropped
<1>5. WireInv' /\ RxTypeOK'
  BY ReadRetStep
<1>6. /\ rc \in [pc : {"ready", "ret", "mask", "data", "done"}, maskPending : BOOLEAN,
                 left : Nat, out : Seq(SampleToken), calls : Nat]
      /\ n < 0 => rc'.pc = "ready"
      /\ n = 0 => rc'.pc = "done"
  <2>1. rc \in [pc : {"ready", "ret", "mask", "data", "done"}, maskPending : BOOLEAN,
                left : Nat, out : Seq(SampleToken), calls : Nat]
    BY DEF RxInv, RxTypeOK
  <2>2. ASSUME n < 0 PROVE rc'.pc = "ready"
    <3>1. rc' = RxFails
      <4>1. ~(n = 0) /\ ~(n > 0)
        <5> HIDE DEF n
        <5> QED BY <1>0, <2>2
      <4>2. QED
        BY <1>1, <2>2, <4>1
    <3>2. QED
      BY <2>1, <3>1 DEF RxFails
  <2>3. ASSUME n = 0 PROVE rc'.pc = "done"
    <3>1. rc' = [rc EXCEPT !.pc = "done"]
      BY <1>1, <2>3
    <3>2. QED
      BY <2>1, <3>1
  <2>4. QED
    BY <2>1, <2>2, <2>3
<1>7. ASSUME n \in Nat, n > 0
      PROVE  /\ rc'.pc \in {"mask", "data"} /\ rc'.left = n /\ rc'.out = rc.out
             /\ rc'.pc = "mask" <=> rc.maskPending
  <2>1. rc' = [rc EXCEPT !.pc = IF rc.maskPending THEN "mask" ELSE "data", !.left = n]
    <3>1. ~(n < 0) /\ ~(n = 0)
      BY <1>7
    <3>2. QED
      BY <1>1, <1>7, <3>1
  <2> HIDE DEF n
  <2>2. CASE rc.maskPending
    BY <1>6, <2>1, <2>2
  <2>3. CASE ~rc.maskPending
    BY <1>6, <2>1, <2>3
  <2>4. QED
    BY <2>2, <2>3
<1>8. CASE got < Buf /\ Rest(rwire, 0, got)
  <2>1. CASE Len(rwire) = 0 + 1 /\ rwire[0 + 1] = Ret(0)
    <3>1. n = 0
      BY <1>3, <2>1 DEF Ret
    <3>2. Len(rwire') = 0
      BY <1>4, <2>1
    <3>3. rc'.pc = "done" /\ rwire' = <<>>
      BY <1>4, <1>6, <3>1, <3>2, EmptySeq
    <3>4. QED
      BY <1>1, <1>2, <3>3 DEF RxSynced
  <2>2. CASE Len(rwire) = 0 + 1 + (Buf - got) /\ rwire[0 + 1] = Ret(Buf - got)
    <3>1. n = Buf - got
      BY <1>3, <2>2 DEF Ret
    <3> HIDE DEF n, got
    <3>2. n \in Nat /\ n > 0 /\ Len(rwire') = n /\ got + n = Buf
      <4> DEFINE r == Len(rwire)
                 s == Len(rwire')
      <4>1. /\ r \in Nat /\ got \in Nat /\ Buf \in Nat /\ got < Buf
            /\ s = r - 1 /\ r = 0 + 1 + (Buf - got) /\ n = Buf - got
        BY <1>3, <1>4, <1>8, <2>2, <3>1
      <4> HIDE DEF r, s
      <4>2. n \in Nat /\ n > 0 /\ s = n /\ got + n = Buf
        BY <4>1
      <4>3. QED
        BY <4>2 DEF s
    <3>3. rc'.pc \in {"mask", "data"} /\ rc'.left = n /\ rc'.out = rc.out
      BY <1>7, <3>2
    <3>4. rc'.pc # "mask"
      <4>1. rc'.pc = "mask" => n + 1 <= n
        BY <1>5, <3>2, <3>3 DEF WireInv
      <4>2. QED
        BY <3>2, <4>1
    <3>5. Len(rc'.out) + rc'.left = Buf
      BY <3>2, <3>3 DEF got
    <3>6. rc'.pc = "data"
      BY <3>3, <3>4
    <3>7. Rest(rwire', rc'.left, Len(rc'.out) + rc'.left)
      BY <3>2, <3>3, <3>5 DEF Rest
    <3>8. QED
      BY <1>1, <1>2, <3>6, <3>7 DEF RxSynced
  <2>3. QED
    BY <1>3, <1>8, <2>1, <2>2 DEF Rest
<1>9. CASE rwire = <<Ret(-1)>>
  <2>1. n = -1 /\ Len(rwire) = 1
    BY <1>3, <1>9 DEF Ret
  <2>2. Len(rwire') = 0
    BY <1>4, <2>1
  <2>3. n < 0
    BY <2>1
  <2>4. rc'.pc = "ready" /\ rwire' = <<>>
    BY <1>4, <1>6, <2>2, <2>3, EmptySeq
  <2>5. QED
    BY <1>1, <1>2, <2>4 DEF RxSynced
<1>10. ASSUME rc.out = <<>>, NEW m \in 1 .. Buf, rwire[1] = Ret(m),
              NEW p \in Nat, p = IF rc.maskPending THEN m + 1 ELSE m,
              NEW q \in Nat, q = p + 1, Rest(rwire, q, m)
       PROVE  RxSynced'
  <2>1. n = m /\ m \in Nat /\ m > 0
    BY <1>3, <1>10 DEF Ret
  <2> HIDE DEF n
  <2>2. /\ rc'.pc \in {"mask", "data"} /\ rc'.left = m /\ rc'.out = <<>>
        /\ rc'.pc = "mask" <=> rc.maskPending
    BY <1>7, <1>10, <2>1
  <2>3. Rest(rwire', p, m)
    BY <1>3, <1>10, <2>1, RestDrops
  <2>4. rc'.pc = "mask" => Rest(rwire', rc'.left + 1, rc'.left)
    BY <1>10, <2>2, <2>3
  <2>5. rc'.pc = "data" => Rest(rwire', rc'.left, Len(rc'.out) + rc'.left)
    <3>1. Len(rc'.out) + rc'.left = m
      <4>1. Len(rc'.out) = 0
        BY <2>2
      <4>2. QED
        BY <2>1, <2>2, <4>1
    <3>2. QED
      BY <1>10, <2>2, <2>3, <3>1
  <2>6. QED
    BY <1>1, <1>2, <2>2, <2>4, <2>5 DEF RxSynced
<1>11. CASE /\ rc.out = <<>> /\ rc.maskPending
            /\ \E m \in 1 .. Buf : rwire[1] = Ret(m) /\ Rest(rwire, m + 2, m)
  <2>1. PICK m \in 1 .. Buf : rwire[1] = Ret(m) /\ Rest(rwire, m + 2, m)
    BY <1>11
  <2>2. m + 1 \in Nat /\ m + 2 \in Nat /\ m + 2 = (m + 1) + 1
    BY <1>3, SMTT(30)
  <2>3. m + 1 = IF rc.maskPending THEN m + 1 ELSE m
    BY <1>11
  <2>4. QED
    BY <1>10, <1>11, <2>1, <2>2, <2>3
<1>12. CASE /\ rc.out = <<>> /\ ~rc.maskPending
            /\ \E m \in 1 .. Buf : rwire[1] = Ret(m) /\ Rest(rwire, m + 1, m)
  <2>1. PICK m \in 1 .. Buf : rwire[1] = Ret(m) /\ Rest(rwire, m + 1, m)
    BY <1>12
  <2>2. m \in Nat /\ m + 1 \in Nat
    BY <1>3
  <2>3. m = IF rc.maskPending THEN m + 1 ELSE m
    BY <1>12
  <2>4. QED
    BY <1>10, <1>12, <2>1, <2>2, <2>3
<1>13. QED
  BY <1>2, <1>8, <1>9, <1>11, <1>12 DEF Answered

LEMMA ReadMaskSync ==
  ASSUME RxInv, SampleAssumption, RxSynced, ReadMask
  PROVE  RxSynced'
<1>1. /\ rc.pc = "mask" /\ rwire # <<>> /\ rwire' = Tail(rwire) /\ UNCHANGED rs
      /\ rc' = [rc EXCEPT !.pc = "data", !.maskPending = FALSE]
  BY DEF ReadMask
<1>2. rc'.pc = "data" /\ rc'.out = rc.out /\ rc'.left = rc.left
  BY <1>1 DEF RxInv, RxTypeOK
<1>3. /\ rs.pc = "line" /\ rs.asked = 0 /\ rc.out = <<>>
      /\ Rest(rwire, rc.left + 1, rc.left)
  BY <1>1 DEF RxSynced
<1> DEFINE l == rc.left
<1>4. rwire' = SubSeq(rwire, 1 + 1, Len(rwire)) /\ rwire \in Seq(RxToken) /\ l \in Nat
  BY <1>1, LineTyped, TailDrops
<1>5. Rest(rwire', l, l)
  <2>1. Rest(rwire, l + 1, l)
    BY <1>3
  <2> HIDE DEF l
  <2>2. l + 1 \in Nat
    BY <1>4
  <2>3. QED
    BY <1>4, <2>1, <2>2, RestDrops
<1>6. Len(rc'.out) + rc'.left = l
  <2>1. Len(rc'.out) = 0
    BY <1>2, <1>3
  <2>2. QED
    BY <1>2, <1>4, <2>1
<1>7. QED
  BY <1>1, <1>2, <1>3, <1>5, <1>6 DEF RxSynced

LEMMA ReadGarbageSync ==
  ASSUME RxInv, SampleAssumption, RxSynced, ReadGarbage
  PROVE  FALSE
<1>1. rc.pc = "ret" /\ rwire # <<>> /\ rwire[1].kind # "ret"
  BY ReadGarbageStep DEF ReadGarbage
<1>2. Answered
  BY <1>1 DEF RxSynced, Asked
<1>3. \A n : rwire[1] # Ret(n)
  BY <1>1 DEF Ret
<1>4. ~(Len(rc.out) < Buf /\ Rest(rwire, 0, Len(rc.out)))
  <2>1. Len(rc.out) < Buf => Len(rc.out) # Buf
    BY LineTyped
  <2>2. rwire[0 + 1] = rwire[1]
    OBVIOUS
  <2>3. QED
    BY <1>3, <2>1, <2>2 DEF Rest
<1>5. rwire # <<Ret(-1)>>
  BY <1>3
<1>6. QED
  BY <1>2, <1>3, <1>4, <1>5 DEF Answered

LEMMA ReadDataSync ==
  ASSUME RxInv, SampleAssumption, RxSynced, ReadData
  PROVE  RxSynced'
<1> DEFINE l == rc.left
           got == Len(rc'.out)
<1>1. /\ rc.pc = "data" /\ rwire' = SubSeq(rwire, l + 1, Len(rwire)) /\ UNCHANGED rs
  BY DEF ReadData
<1>2. /\ got = Len(rc.out) + l
      /\ rc'.pc = IF got >= Buf THEN "done" ELSE "ret"
      /\ rc'.out \in Seq(SampleToken)
  BY ReadDataStep DEF RxTypeOK
<1>3. rs.pc = "line" /\ rs.asked = 0 /\ Rest(rwire, l, got)
  BY <1>1, <1>2 DEF RxSynced
<1>4. rwire \in Seq(RxToken) /\ l \in Nat /\ got \in Nat /\ Buf \in Nat
  BY <1>2, LineTyped, LenProperties
<1> HIDE DEF l, got
<1>5. Rest(rwire', 0, got)
  <2> DEFINE p == 0
  <2>1. l = p + l /\ p \in Nat
    BY <1>4
  <2> HIDE DEF p
  <2>2. Rest(rwire', p, got)
    BY <1>1, <1>3, <1>4, <2>1, RestDrops
  <2>3. QED
    BY <2>2 DEF p
<1>6. CASE got = Buf
  <2>1. rc'.pc = "done"
    BY <1>2, <1>4, <1>6
  <2>2. Len(rwire') = 0
    BY <1>4, <1>5, <1>6 DEF Rest
  <2>3. rwire' = <<>>
    <3>1. rwire' \in Seq(RxToken)
      BY ReadDataStep DEF RxTypeOK
    <3>2. QED
      BY <2>2, <3>1, EmptySeq
  <2>4. QED
    BY <1>1, <1>3, <2>1, <2>3 DEF RxSynced
<1>7. CASE got < Buf
  <2>1. rc'.pc = "ret"
    BY <1>2, <1>4, <1>7
  <2>2. Answered'
    BY <1>5, <1>7 DEF Answered, got
  <2>3. QED
    BY <1>1, <1>3, <2>1, <2>2 DEF RxSynced
<1>8. QED
  BY <1>5, <1>6, <1>7 DEF Rest

LEMMA RecvReturnsSync ==
  ASSUME RxInv, SampleAssumption, RxSynced, RecvReturns
  PROVE  RxSynced'
<1>1. /\ rc.pc = "done" /\ UNCHANGED <<rwire, rs>>
      /\ rc' = [rc EXCEPT !.pc = "ready", !.out = <<>>]
  BY DEF RecvReturns, RxFails
<1>2. rc'.pc = "ready"
  BY <1>1 DEF RxInv, RxTypeOK
<1>3. QED
  BY <1>1, <1>2 DEF RxSynced

LEMMA RxServerSync ==
  ASSUME RxInv, SampleAssumption, RxSynced, RxServe \/ RxPaced
  PROVE  RxSynced'
<1>1. UNCHANGED <<rc, rwire>>
  BY DEF RxServe, RxPaced
<1>2. /\ rs \in [pc : {"line", "pace", "receive"}, asked : Nat, newClient : BOOLEAN, from : Nat]
  BY DEF RxInv, RxTypeOK
<1>3. rc.pc = "ret" /\ Asked
  BY <1>2 DEF RxSynced, RxServe, RxPaced
<1>4. rs'.pc \in {"pace", "receive"} /\ rs'.asked = 0
  <2>1. CASE RxServe
    BY <1>2, <1>3, <2>1 DEF RxServe, Asked
  <2>2. CASE RxPaced
    BY <1>2, <1>3, <2>2 DEF RxPaced, Asked
  <2>3. QED
    BY <2>1, <2>2
<1>5. Asked'
  BY <1>1, <1>3, <1>4 DEF Asked
<1>6. QED
  BY <1>1, <1>3, <1>5 DEF RxSynced

(* The answer begins with its first chunk.                                 *)
LEMMA AnswerDue ==
  ASSUME SampleAssumption, rc'.out = <<>>,
         NEW k \in 1 .. Buf, NEW m \in {<<>>, <<Mask>>},
         m = <<Mask>> <=> rc'.maskPending,
         Len(rwire') \in Nat,
         rwire'[1] = Ret(k), m = <<Mask>> => rwire'[2] = Mask,
         NEW q, q = 1 + Len(m) + k, Rest(rwire', q, k)
  PROVE  Answered'
<1>1. k \in Nat /\ k >= 1 /\ Buf \in Nat
  BY Sizes
<1>2. CASE m = <<Mask>>
  <2>1. Len(m) = 1
    BY <1>2
  <2>2. q = k + 2
    BY <1>1, <2>1
  <2>3. Len(rwire') >= 2
    <3>1. Len(rwire') >= q
      BY <1>1, <2>2, SMTT(30) DEF Rest
    <3>2. QED
      BY <1>1, <2>2, <3>1
  <2>4. Rest(rwire', k + 2, k)
    BY <2>2
  <2>5. QED
    BY <1>2, <2>3, <2>4 DEF Answered
<1>3. CASE m = <<>>
  <2>1. Len(m) = 0 /\ m # <<Mask>>
    BY <1>3
  <2>2. q = k + 1
    BY <1>1, <2>1
  <2>3. Len(rwire') >= 1
    <3>1. Len(rwire') >= q
      BY <1>1, <2>2 DEF Rest
    <3>2. QED
      BY <1>1, <2>2, <3>1
  <2>4. Rest(rwire', k + 1, k)
    BY <2>2
  <2>5. QED
    BY <2>1, <2>3, <2>4 DEF Answered
<1>4. QED
  BY <1>2, <1>3

LEMMA FirstChunkIs ==
  ASSUME RxInv, AirInv, SampleAssumption, rs.pc = "receive", NEW k \in 1 .. Buf,
         NEW c, c = FirstChunk(k)
  PROVE  /\ c \in Seq(RxToken) /\ Len(c) = 1 + Len(MaskLine) + k
         /\ c[1] = Ret(k) /\ (MaskLine = <<Mask>> => c[2] = Mask)
         /\ MaskLine \in {<<>>, <<Mask>>} /\ Len(MaskLine) \in 0 .. 1
         /\ MaskLine = <<Mask>> <=> rs.newClient
<1> DEFINE s == SubSeq(Received, 1, k)
           m == MaskLine
<1>1. Received \in Seq(SampleToken) /\ Len(Received) = Buf
  BY ReceivedIsOnAir
<1>2. Buf \in Nat /\ k \in 0 .. Buf /\ k >= 1
  BY Sizes
<1>3. s \in Seq(SampleToken) /\ Len(s) = k
  BY <1>1, <1>2, Taken
<1>4. c = <<Ret(Len(s))>> \o m \o s
  BY DEF FirstChunk, Chunk
<1>5. m \in {<<>>, <<Mask>>} /\ (m = <<Mask>> <=> rs.newClient)
  BY DEF MaskLine
<1>6. Len(m) \in 0 .. 1
  BY <1>5
<1> HIDE DEF s, m
<1>7. IsPiece(c, s, m)
  BY <1>2, <1>3, <1>4, <1>5, Piece
<1>8. /\ c \in Seq(RxToken) /\ Len(c) = 1 + Len(m) + k
      /\ c[1] = Ret(k) /\ (m = <<Mask>> => c[2] = Mask)
  BY <1>3, <1>7 DEF IsPiece
<1>9. QED
  BY <1>5, <1>6, <1>8 DEF m

(* What is left to come after the first chunk.                             *)
LEMMA SecondChunkIs ==
  ASSUME RxInv, AirInv, SampleAssumption, rs.pc = "receive",
         NEW k \in 1 .. Buf - 1, NEW rest \in BOOLEAN, NEW b, b = SecondChunk(k, rest)
  PROVE  /\ b \in Seq(RxToken)
         /\ (Len(b) = 1 /\ b[1] = Ret(0)) \/ (Len(b) = 1 + (Buf - k) /\ b[1] = Ret(Buf - k))
<1>1. Buf \in Nat /\ k \in Nat /\ k >= 1 /\ Buf - k \in Nat /\ Buf - k >= 1 /\ k \in 0 .. Buf
  BY Sizes
<1>2. Received \in Seq(SampleToken) /\ Len(Received) = Buf
  BY ReceivedIsOnAir
<1>3. CASE ~rest
  <2>1. b = <<Ret(0)>>
    BY <1>3 DEF SecondChunk
  <2>2. Ret(0) \in RxToken
    BY DEF Ret, RxToken, RetToken
  <2>3. QED
    BY <2>1, <2>2
<1>4. CASE rest
  <2> DEFINE s == SubSeq(Received, k + 1, Buf)
             h == <<Ret(Buf - k)>>
  <2>1. s \in Seq(SampleToken) /\ Len(s) = Buf - k
    BY <1>1, <1>2, Dropped
  <2>2. b = h \o s
    BY <1>4 DEF SecondChunk
  <2>3. h \in Seq(RxToken) /\ Len(h) = 1 /\ h[1] = Ret(Buf - k)
    <3>1. Ret(Buf - k) \in RxToken
      BY <1>1 DEF Ret, RxToken, RetToken
    <3>2. QED
      BY <3>1
  <2>4. s \in Seq(RxToken)
    <3>1. SampleToken \subseteq RxToken
      BY DEF RxToken
    <3>2. QED
      BY <2>1, <3>1, SeqMonotonic
  <2> HIDE DEF h, s
  <2>5. /\ h \o s \in Seq(RxToken) /\ Len(h \o s) = Len(h) + Len(s)
        /\ \A i \in 1 .. Len(h) + Len(s) : (h \o s)[i] = IF i <= Len(h) THEN h[i] ELSE s[i - Len(h)]
    BY <2>3, <2>4, ConcatProperties
  <2>6. b[1] = h[1]
    <3>1. 1 \in 1 .. Len(h) + Len(s) /\ 1 <= Len(h)
      BY <1>1, <2>1, <2>3
    <3>2. QED
      BY <2>2, <2>5, <3>1
  <2>7. QED
    BY <2>1, <2>2, <2>3, <2>5, <2>6
<1>5. QED
  BY <1>3, <1>4

LEMMA RxReplySync ==
  ASSUME RxInv, AirInv, SampleAssumption, RxSynced, RxReply \/ IiodReply
  PROVE  RxSynced'
<1>1. /\ rs.pc = "receive" /\ UNCHANGED rc
      /\ rs \in [pc : {"line", "pace", "receive"}, asked : Nat, newClient : BOOLEAN, from : Nat]
      /\ Buf \in Nat /\ Buf >= 1
  BY Sizes DEF RxReply, IiodReply, RxInv, RxTypeOK
<1>2. rc.pc = "ret" /\ rwire = <<>> /\ rc.out = <<>> /\ rs.asked = 0
  BY <1>1 DEF RxSynced, Asked
<1>3. rs'.pc = "line" /\ rs'.asked = 0
  BY <1>1, <1>2 DEF RxReply, IiodReply
<1>4. rc.maskPending <=> rs.newClient
  <2>1. NoMask(<<>>)
    BY DEF NoMask
  <2>2. QED
    BY <1>2, <2>1 DEF RxInv, WireInv
<1> DEFINE l == Len(MaskLine)
<1>5. CASE RxReply
  <2>1. Received = SubSeq(Received, 1, Buf)
    <3>1. Received \in Seq(SampleToken) /\ Len(Received) = Buf
      BY <1>1, ReceivedIsOnAir
    <3>2. QED
      BY <3>1, SubSeqFull
  <2>2. Buf \in 1 .. Buf
    BY <1>1
  <2> DEFINE c == FirstChunk(Buf)
  <2>3. /\ c \in Seq(RxToken) /\ Len(c) = 1 + l + Buf
        /\ c[1] = Ret(Buf) /\ (MaskLine = <<Mask>> => c[2] = Mask)
        /\ MaskLine \in {<<>>, <<Mask>>} /\ l \in 0 .. 1
        /\ MaskLine = <<Mask>> <=> rs.newClient
    BY <1>1, <2>2, FirstChunkIs
  <2>4. rwire' = <<>> \o c
    BY <1>2, <1>5, <2>1 DEF RxReply, FirstChunk
  <2> HIDE DEF c
  <2>5. rwire' = c
    BY <2>3, <2>4, ConcatEmptySeq
  <2> DEFINE q == 1 + l + Buf
  <2>6. Rest(rwire', q, Buf) /\ Len(rwire') \in Nat
    BY <2>3, <2>5, LenProperties DEF Rest
  <2>7. Answered'
    BY <1>1, <1>2, <1>4, <2>2, <2>3, <2>5, <2>6, AnswerDue
  <2>8. QED
    BY <1>1, <1>2, <1>3, <2>7 DEF RxSynced
<1>6. ASSUME NEW k \in 1 .. Buf - 1, NEW rest \in BOOLEAN,
             rwire' = rwire \o FirstChunk(k) \o SecondChunk(k, rest)
      PROVE  RxSynced'
  <2> DEFINE a == FirstChunk(k)
             b == SecondChunk(k, rest)
  <2>1. k \in 1 .. Buf /\ k \in Nat /\ k < Buf
    BY <1>1
  <2>2. /\ a \in Seq(RxToken) /\ Len(a) = 1 + l + k
        /\ a[1] = Ret(k) /\ (MaskLine = <<Mask>> => a[2] = Mask)
        /\ MaskLine \in {<<>>, <<Mask>>} /\ l \in 0 .. 1
        /\ MaskLine = <<Mask>> <=> rs.newClient
    BY <1>1, <2>1, FirstChunkIs
  <2>3. /\ b \in Seq(RxToken)
        /\ (Len(b) = 1 /\ b[1] = Ret(0)) \/ (Len(b) = 1 + (Buf - k) /\ b[1] = Ret(Buf - k))
    BY <1>1, SecondChunkIs
  <2>4. rwire' = (<<>> \o a) \o b
    BY <1>2, <1>6
  <2> HIDE DEF a, b
  <2>5. rwire' = a \o b
    <3>1. <<>> \o a = a
      BY <2>2, ConcatEmptySeq
    <3>2. QED
      BY <2>4, <3>1
  <2>6. /\ rwire' \in Seq(RxToken) /\ Len(rwire') = Len(a) + Len(b)
        /\ \A i \in 1 .. Len(a) + Len(b) : rwire'[i] = IF i <= Len(a) THEN a[i] ELSE b[i - Len(a)]
    <3>1. /\ a \o b \in Seq(RxToken) /\ Len(a \o b) = Len(a) + Len(b)
          /\ \A i \in 1 .. Len(a) + Len(b) : (a \o b)[i] = IF i <= Len(a) THEN a[i] ELSE b[i - Len(a)]
      BY <2>2, <2>3, ConcatProperties
    <3>2. QED
      BY <2>5, <3>1
  <2> DEFINE q == 1 + l + k
             x == Len(b)
  <2>7. x \in Nat /\ x >= 1 /\ q \in Nat /\ q >= 2 /\ Len(a) = q
    <3>1. q \in Nat /\ q >= 2 /\ Len(a) = q
      BY <2>1, <2>2
    <3>2. x = 1 \/ x = 1 + (Buf - k)
      BY <2>3
    <3> HIDE DEF x, q
    <3>3. x \in Nat /\ x >= 1
      BY <1>1, <2>1, <3>2
    <3>4. QED
      BY <3>1, <3>3
  <2>8. q >= 2 + l
    BY <2>1, <2>2
  <2>9. rwire'[1] = Ret(k) /\ (MaskLine = <<Mask>> => rwire'[2] = Mask)
    <3> HIDE DEF q, x
    <3>1. 1 \in 1 .. Len(a) + x /\ 1 <= Len(a) /\ 2 \in 1 .. Len(a) + x /\ 2 <= Len(a)
      BY <2>7
    <3>2. QED
      BY <2>2, <2>6, <3>1 DEF x
  <2>10. rwire'[q + 1] = b[1] /\ Len(rwire') = q + x /\ Len(rwire') \in Nat
    <3>1. Len(rwire') = q + x
      BY <2>6, <2>7
    <3> HIDE DEF q
    <3>2. q + 1 \in 1 .. Len(a) + Len(b) /\ ~(q + 1 <= Len(a)) /\ q + 1 - Len(a) = 1
      BY <2>7
    <3>3. QED
      BY <2>6, <2>7, <3>1, <3>2, SMTT(30)
  <2>11. Rest(rwire', q, k)
    <3> HIDE DEF q
    <3>1. CASE x = 1 /\ b[1] = Ret(0)
      BY <2>1, <2>10, <3>1 DEF Rest
    <3>2. CASE x = 1 + (Buf - k) /\ b[1] = Ret(Buf - k)
      <4>1. q + x = q + 1 + (Buf - k)
        <5> HIDE DEF x
        <5>1. x = 1 + (Buf - k) /\ Buf - k \in Nat
          BY <1>1, <2>1, <3>2
        <5>2. QED
          BY <2>7, <5>1, SMTT(30)
      <4>2. QED
        BY <2>1, <2>10, <3>2, <4>1 DEF Rest
    <3>3. QED
      BY <2>3, <3>1, <3>2
  <2>12. Answered'
    BY <1>1, <1>2, <1>4, <2>1, <2>2, <2>9, <2>10, <2>11, AnswerDue
  <2>13. QED
    BY <1>1, <1>2, <1>3, <2>12 DEF RxSynced
<1>7. CASE rwire' = Append(rwire, Ret(-1))
  <2>1. rwire' = <<Ret(-1)>>
    BY <1>2, <1>7
  <2>2. Answered'
    BY <2>1 DEF Answered
  <2>3. QED
    BY <1>1, <1>2, <1>3, <2>2 DEF RxSynced
<1>8. QED
  BY <1>5, <1>6, <1>7 DEF IiodReply, FirstChunk, SecondChunk

-----------------------------------------------------------------------------
(* The invariant.                                                          *)
IInv == RxInv /\ AirInv /\ TxInv /\ RxSyncInv /\ TxSyncInv

LEMMA InitIInv ==
  ASSUME SampleAssumption, Init
  PROVE  IInv
<1> USE DEF Init
<1>1. /\ MaxNow \in Nat /\ Buf \in Nat /\ Buf >= 1 /\ LookBack \in Nat
      /\ <<>> \in Seq(Int) /\ <<>> \in Seq(SampleToken) /\ <<>> \in Seq(RxToken)
      /\ <<>> \in Seq(Nat) /\ <<>> \in Seq(TxToken) /\ <<>> \in Seq(RetToken) /\ Len(<<>>) = 0
  BY Sizes
<1>2. AirTypeOK
  <2>1. tx \in [origin : Nat, buf : Seq(Int)]
    BY <1>1
  <2>2. placed \in [Position -> Int]
    BY DEF Position, Silence
  <2>3. timeouts \in [rx : Nat, tx : Nat]
    OBVIOUS
  <2>4. now \in 0 .. MaxNow /\ rxPos \in 0 .. now
    BY <1>1 DEF RxOpened
  <2>5. QED
    BY <2>1, <2>2, <2>3, <2>4 DEF AirTypeOK
<1>3. RxTypeOK
  <2>1. rc \in [pc : {"ready", "ret", "mask", "data", "done"}, maskPending : BOOLEAN,
                left : Nat, out : Seq(SampleToken), calls : Nat]
    BY <1>1 DEF RxOpened
  <2>2. rs \in [pc : {"line", "pace", "receive"}, asked : Nat, newClient : BOOLEAN, from : Nat]
    BY DEF RxOpened
  <2>3. QED
    BY <1>1, <2>1, <2>2 DEF RxTypeOK, RxOpened
<1>4. /\ rwire = <<>> /\ heard = <<>> /\ rc.out = <<>> /\ rc.pc = "ready" /\ rc.maskPending
      /\ rs.newClient /\ rs.pc = "line" /\ rs.asked = 0
  BY DEF RxOpened
<1>5. WireInv
  <2>1. Announced(<<>>) /\ MaskFirst(<<>>) /\ NoSamples(<<>>) /\ NoMask(<<>>)
    BY DEF Announced, MaskFirst, NoSamples, NoMask
  <2>2. QED
    BY <1>4, <2>1 DEF WireInv
<1>6. LineInv
  BY <1>4, NothingHeard DEF LineInv
<1>7. AirInv
  <2>1. tx.origin = 0 /\ End(tx) = 0
    BY <1>1 DEF End
  <2>2. \A t \in Position : t \in Nat /\ placed[t] = Silence
    BY DEF Position
  <2>3. \A t \in Position : ~(t < 0) /\ ~(0 <= t /\ t < 0) /\ placed[t] = Silence
    <3> HIDE DEF Init
    <3>1. \A n \in Nat : ~(n < 0)
      OBVIOUS
    <3>2. QED
      BY <2>2, <3>1
  <2>5. Timeline(tx, placed)
    <3> USE <2>1, <2>3 DEF Timeline
    <3> HIDE DEF Init
    <3> QED OBVIOUS
  <2>4. QED
    BY <1>4, <2>5 DEF AirInv
<1>8. /\ tc.pc = "ready" /\ tc.chunk = <<>> /\ tc.next = 1 /\ ts.pc = "line"
      /\ twire = <<>> /\ tack = <<>> /\ acked = {}
  BY DEF TxOpened
<1>9. TxTypeOK
  <2>1. tc \in SenderType
    BY <1>1 DEF TxOpened, SenderType
  <2>2. ts \in ServerType
    BY <1>1 DEF TxOpened, ServerType
  <2>3. QED
    BY <1>1, <1>8, <2>1, <2>2 DEF TxTypeOK, SenderType, ServerType
<1>10. First = 1
  BY <1>1, <1>8 DEF First
<1>11. SenderInv /\ ServerInv
  BY <1>1, <1>8, <1>10 DEF SenderInv, ServerInv
<1>12. RxSyncInv
  BY <1>4 DEF RxSyncInv, RxSynced
<1>13. TxSyncInv
  <2>1. Unconsumed = 1
    BY <1>8, <1>10 DEF Unconsumed
  <2>2. \A t \in Position : placed[t] = Silence
    BY DEF Position
  <2>3. Delivered
    <3> HIDE DEF Init
    <3>1. \A v \in First .. Unconsumed - 1 : FALSE
      BY <1>10, <2>1
    <3>2. QED
      BY <1>8, <2>2, <3>1 DEF Delivered
  <2>4. QED
    BY <1>8, <2>3 DEF TxSyncInv, TxSynced
<1>14. QED
  BY <1>2, <1>3, <1>5, <1>6, <1>7, <1>9, <1>11, <1>12, <1>13 DEF IInv, RxInv, TxInv

(* A step of one side leaves the other side's conditions as they were.     *)
LEMMA RxSideStep ==
  ASSUME IInv, SampleAssumption, RxTypeOK', WireInv', LineInv', AirTypeOK', AirInv',
         UNCHANGED <<now, tx, placed, tc, ts, twire, tack, acked>>,
         timeouts'.tx = timeouts.tx,
         timeouts'.rx = 0 => RxSynced'
  PROVE  IInv'
<1>1. now \in Nat /\ now' >= now /\ now' \in Nat
  <2>1. now \in Nat /\ now' = now
    BY Sizes DEF IInv, RxInv, AirTypeOK
  <2>2. QED
    BY <2>1
<1>2. TxTypeOK' /\ SenderInv' /\ ServerInv'
  BY <1>1, TxKept DEF IInv
<1>3. TxSyncInv'
  BY TxGoodKept DEF IInv, TxSyncInv, TxGood
<1>4. QED
  BY <1>2, <1>3 DEF IInv, RxInv, TxInv, RxSyncInv

LEMMA TxSideStep ==
  ASSUME IInv, SampleAssumption, RxTypeOK', WireInv', LineInv', AirTypeOK', AirInv',
         TxTypeOK', SenderInv', ServerInv',
         UNCHANGED <<rc, rs, rwire>>,
         timeouts'.rx = timeouts.rx,
         timeouts'.tx = 0 => TxGood'
  PROVE  IInv'
<1>1. RxSyncInv'
  BY DEF IInv, RxSyncInv, RxSynced, Asked, Answered
<1>2. TxSyncInv'
  BY DEF TxSyncInv, TxGood
<1>3. QED
  BY <1>1, <1>2 DEF IInv, RxInv, TxInv

(* A step of recv().                                                       *)
LEMMA ReceiverStep ==
  ASSUME IInv, SampleAssumption, Receiver
  PROVE  IInv'
<1>1. RxInv /\ AirInv /\ TxInv /\ (timeouts.rx = 0 => RxSynced)
  BY DEF IInv, RxSyncInv
<1>2. /\ UNCHANGED <<now, tx, rxPos, placed, tc, ts, twire, tack, acked>>
      /\ rs'.pc = rs.pc /\ rs'.from = rs.from
  BY <1>1 DEF Receiver, Recv, ReadRet, ReadMask, ReadGarbage, ReadData, RecvReturns, RecvTimesOut,
              air, txSide, history, RxInv, RxTypeOK
<1>3. AirInv'
  BY <1>1, <1>2, AirKept
<1>4. ASSUME UNCHANGED timeouts PROVE AirTypeOK' /\ timeouts'.tx = timeouts.tx
  BY <1>1, <1>2, <1>4 DEF RxInv, AirTypeOK
<1>5. CASE Recv
  BY <1>1, <1>2, <1>3, <1>4, <1>5, RecvStep, RecvSync, RxSideStep DEF Recv
<1>6. CASE ReadRet
  BY <1>1, <1>2, <1>3, <1>4, <1>6, ReadRetStep, ReadRetSync, RxSideStep DEF ReadRet
<1>7. CASE ReadMask
  BY <1>1, <1>2, <1>3, <1>4, <1>7, ReadMaskStep, ReadMaskSync, RxSideStep DEF ReadMask
<1>8. CASE ReadGarbage
  BY <1>1, <1>2, <1>3, <1>4, <1>8, ReadGarbageStep, ReadGarbageSync, RxSideStep DEF ReadGarbage
<1>9. CASE ReadData
  BY <1>1, <1>2, <1>3, <1>4, <1>9, ReadDataStep, ReadDataSync, RxSideStep DEF ReadData
<1>10. CASE RecvReturns
  BY <1>1, <1>2, <1>3, <1>4, <1>10, RecvReturnsStep, RecvReturnsSync, RxSideStep DEF RecvReturns
<1>11. CASE RecvTimesOut
  <2>1. timeouts' = [timeouts EXCEPT !.rx = @ + 1] /\ timeouts \in [rx : Nat, tx : Nat]
    BY <1>1, <1>11 DEF RecvTimesOut, RxInv, AirTypeOK
  <2>2. /\ timeouts' \in [rx : Nat, tx : Nat] /\ timeouts'.tx = timeouts.tx
        /\ timeouts'.rx # 0
    BY <2>1
  <2>3. AirTypeOK'
    BY <1>1, <1>2, <2>2 DEF RxInv, AirTypeOK
  <2>4. QED
    BY <1>1, <1>2, <1>3, <1>11, <2>2, <2>3, RecvTimesOutStep, RxSideStep
<1>12. QED
  BY <1>5, <1>6, <1>7, <1>8, <1>9, <1>10, <1>11 DEF Receiver

(* A step of send().                                                       *)
LEMMA SenderStep ==
  ASSUME IInv, SampleAssumption, Sender
  PROVE  IInv'
<1>1. RxInv /\ AirInv /\ TxInv /\ (timeouts.tx = 0 => TxGood)
  BY DEF IInv, TxSyncInv, TxGood
<1>2. UNCHANGED <<now, tx, rxPos, placed, rc, rs, rwire, heard>>
  BY DEF Sender, SendHeader, ReadOk, ReadAck, SendTimesOut, air, rxSide, history
<1>3. RxTypeOK' /\ WireInv' /\ LineInv' /\ AirInv'
  BY <1>1, <1>2, RxKept, AirKept
<1>4. ASSUME UNCHANGED timeouts PROVE AirTypeOK' /\ timeouts'.rx = timeouts.rx
  BY <1>1, <1>2, <1>4 DEF RxInv, AirTypeOK
<1>5. CASE SendHeader
  BY <1>1, <1>2, <1>3, <1>4, <1>5, SendHeaderStep, SendHeaderSync, TxSideStep DEF SendHeader
<1>6. CASE ReadOk
  BY <1>1, <1>2, <1>3, <1>4, <1>6, ReadOkStep, ReadOkSync, TxSideStep DEF ReadOk
<1>7. CASE ReadAck
  BY <1>1, <1>2, <1>3, <1>4, <1>7, ReadAckStep, ReadAckSync, TxSideStep DEF ReadAck
<1>8. CASE SendTimesOut
  <2>1. timeouts' = [timeouts EXCEPT !.tx = @ + 1] /\ timeouts \in [rx : Nat, tx : Nat]
    BY <1>1, <1>8 DEF SendTimesOut, RxInv, AirTypeOK
  <2>2. /\ timeouts' \in [rx : Nat, tx : Nat] /\ timeouts'.rx = timeouts.rx
        /\ timeouts'.tx # 0
    BY <2>1
  <2>3. AirTypeOK'
    BY <1>1, <1>2, <2>2 DEF RxInv, AirTypeOK
  <2>4. QED
    BY <1>1, <1>2, <1>3, <1>8, <2>2, <2>3, SendTimesOutStep, TxSideStep
<1>9. QED
  BY <1>5, <1>6, <1>7, <1>8 DEF Sender

(* A step of one of the server's threads.                                  *)
LEMMA ServerStep ==
  ASSUME IInv, SampleAssumption, Server
  PROVE  IInv'
<1>1. /\ RxInv /\ AirInv /\ TxInv
      /\ timeouts.tx = 0 => TxGood
      /\ timeouts.rx = 0 => RxSynced
  BY DEF IInv, TxSyncInv, TxGood, RxSyncInv
<1>2. CASE RxServe \/ RxPaced
  <2>1. UNCHANGED <<now, tx, rxPos, placed, timeouts, tc, ts, twire, tack, acked>>
    BY <1>2 DEF RxServe, RxPaced, air, txSide, history
  <2>2. AirTypeOK' /\ timeouts'.tx = timeouts.tx /\ timeouts'.rx = timeouts.rx
    BY <1>1, <2>1 DEF RxInv, AirTypeOK
  <2>3. RxTypeOK' /\ WireInv' /\ LineInv' /\ AirInv'
    BY <1>1, <1>2, RxServerStep
  <2>4. timeouts'.rx = 0 => RxSynced'
    BY <1>1, <1>2, <2>2, RxServerSync
  <2>5. QED
    BY <2>1, <2>2, <2>3, <2>4, RxSideStep
<1>3. CASE RxReply \/ IiodReply
  <2>1. UNCHANGED <<now, tx, placed, timeouts, tc, ts, twire, tack, acked>>
    BY <1>3 DEF RxReply, IiodReply, txSide, history
  <2>2. timeouts'.tx = timeouts.tx /\ timeouts'.rx = timeouts.rx
    BY <2>1
  <2>3. RxTypeOK' /\ WireInv' /\ LineInv' /\ AirTypeOK' /\ AirInv'
    BY <1>1, <1>3, RxReplyStep, RxReplyAir
  <2>4. timeouts'.rx = 0 => RxSynced'
    BY <1>1, <1>3, <2>2, RxReplySync
  <2>5. QED
    BY <2>1, <2>2, <2>3, <2>4, RxSideStep
<1>4. ASSUME TxCommand \/ TxGarbage \/ TxPayload \/ TxPaced,
             TxTypeOK', SenderInv', ServerInv', timeouts.tx = 0 => TxGood'
      PROVE  IInv'
  <2>1. UNCHANGED <<now, tx, rxPos, placed, timeouts, rc, rs, rwire, heard>>
    BY <1>4 DEF TxCommand, TxGarbage, TxPayload, TxPaced, air, rxSide, history
  <2>2. AirTypeOK' /\ timeouts'.tx = timeouts.tx /\ timeouts'.rx = timeouts.rx
    BY <1>1, <2>1 DEF RxInv, AirTypeOK
  <2>3. RxTypeOK' /\ WireInv' /\ LineInv' /\ AirInv'
    BY <1>1, <2>1, RxKept, AirKept
  <2>4. QED
    BY <1>4, <2>1, <2>2, <2>3, TxSideStep
<1>5. CASE TxCommand
  BY <1>1, <1>4, <1>5, TxCommandStep, TxCommandSync
<1>6. CASE TxGarbage
  BY <1>1, <1>4, <1>6, TxGarbageStep, TxGarbageSync
<1>7. CASE TxPayload
  BY <1>1, <1>4, <1>7, TxPayloadStep, TxPayloadSync
<1>8. CASE TxPaced
  BY <1>1, <1>4, <1>8, TxPacedStep, TxPacedSync
<1>9. CASE TxAppend
  <2>1. UNCHANGED <<timeouts, rc, rs, rwire>>
    BY <1>9 DEF TxAppend, rxSide
  <2>2. RxTypeOK' /\ WireInv' /\ LineInv' /\ AirTypeOK' /\ AirInv'
    BY <1>1, <1>9, TxAppendLands, TxAppendKeepsLine
  <2>3. TxTypeOK' /\ SenderInv' /\ ServerInv' /\ (timeouts.tx = 0 => TxGood')
    BY <1>1, <1>9, TxAppendStep, TxAppendSync
  <2>4. QED
    BY <2>1, <2>2, <2>3, TxSideStep
<1>10. QED
  BY <1>2, <1>3, <1>5, <1>6, <1>7, <1>8, <1>9 DEF Server

LEMMA ClockStep ==
  ASSUME IInv, SampleAssumption, Tick
  PROVE  IInv'
<1>1. /\ RxInv /\ AirInv /\ TxInv
      /\ timeouts.tx = 0 => TxGood
      /\ timeouts.rx = 0 => RxSynced
  BY DEF IInv, TxSyncInv, TxGood, RxSyncInv
<1>2. /\ UNCHANGED <<tx, rxPos, placed, timeouts, rc, rs, rwire, heard, tc, ts, twire, tack, acked>>
      /\ now' = now + 1
  BY DEF Tick, rxSide, txSide, history
<1>3. now' \in Nat /\ now' >= now
  <2>1. now \in Nat
    BY <1>1, Sizes DEF RxInv, AirTypeOK
  <2>2. QED
    BY <1>2, <2>1
<1>4. AirTypeOK' /\ AirInv'
  BY <1>1, TickStep
<1>5. RxTypeOK' /\ WireInv' /\ LineInv'
  BY <1>1, <1>2, RxKept
<1>6. TxTypeOK' /\ SenderInv' /\ ServerInv'
  BY <1>1, <1>2, <1>3, TxKept
<1>7. timeouts'.tx = 0 => TxGood'
  BY <1>1, <1>2, TxGoodKept
<1>8. QED
  BY <1>2, <1>4, <1>5, <1>6, <1>7, TxSideStep

LEMMA IdleStep ==
  ASSUME IInv, SampleAssumption, UNCHANGED vars
  PROVE  IInv'
<1>1. /\ RxInv /\ AirInv /\ TxInv
      /\ timeouts.tx = 0 => TxGood
  BY DEF IInv, TxSyncInv, TxGood
<1>2. UNCHANGED <<now, tx, rxPos, placed, timeouts, rc, rs, rwire, heard, tc, ts, twire, tack, acked>>
  BY DEF vars, air, rxSide, txSide, history
<1>3. now' \in Nat /\ now' >= now
  <2>1. now \in Nat
    BY <1>1, Sizes DEF RxInv, AirTypeOK
  <2>2. QED
    BY <1>2, <2>1
<1>4. AirTypeOK' /\ AirInv'
  BY <1>1, <1>2, AirKept DEF RxInv, AirTypeOK
<1>5. RxTypeOK' /\ WireInv' /\ LineInv'
  BY <1>1, <1>2, RxKept
<1>6. TxTypeOK' /\ SenderInv' /\ ServerInv'
  BY <1>1, <1>2, <1>3, TxKept
<1>7. timeouts'.tx = 0 => TxGood'
  BY <1>1, <1>2, TxGoodKept
<1>8. QED
  BY <1>2, <1>4, <1>5, <1>6, <1>7, TxSideStep

(* Every reachable state of the two streams and their server is as above:  *)
(* what each line carries, what each end makes of it, and what the air     *)
(* holds, agree.                                                           *)
THEOREM InvariantHolds == Spec => []IInv
<1>1. Init => IInv
  BY SampleAssumption, InitIInv
<1>2. IInv /\ [Next]_vars => IInv'
  BY SampleAssumption, ClockStep, ReceiverStep, SenderStep, ServerStep, IdleStep DEF Next
<1>3. QED
  BY <1>1, <1>2, PTL DEF Spec

-----------------------------------------------------------------------------
(* recv() hands over samples only, in the order of the air and none twice,  *)
(* each what was put on the air at its position, or silence once the       *)
(* position is older than radio 1 keeps: for every sequence of timeouts.    *)
THEOREM HeardIsOnAirHolds == Spec => []HeardIsOnAir
<1>1. IInv => HeardIsOnAir
  <2> SUFFICES ASSUME IInv PROVE HeardIsOnAir
    OBVIOUS
  <2>1. /\ heard \in Seq(SampleToken)
        /\ AllOnAir(heard, placed, rxPos) /\ Ascending(heard)
    BY DEF IInv, RxInv, RxTypeOK, LineInv
  <2>2. DOMAIN heard = 1 .. Len(heard)
    BY <2>1
  <2>3. \A i \in DOMAIN heard : IsSample(heard[i])
    <3>1. \A i \in DOMAIN heard : heard[i] \in SampleToken
      BY <2>1, <2>2, ElementOfSeq
    <3>2. QED
      BY <3>1 DEF SampleToken, IsSample
  <2>4. \A i \in DOMAIN heard :
          heard[i].v = placed[heard[i].at] \/ (heard[i].late /\ heard[i].v = Silence)
    BY <2>1, <2>2, <2>3 DEF AllOnAir, IsOnAir
  <2>5. \A i, j \in DOMAIN heard : i < j => heard[i].at < heard[j].at
    BY <2>1, <2>2, <2>3 DEF Ascending
  <2>6. QED
    BY <2>3, <2>4, <2>5 DEF HeardIsOnAir
<1>2. QED
  BY <1>1, InvariantHolds, PTL

(* While no answer came too late, what send() was told is written is on    *)
(* the air, once and in order, however short the server's writes are.       *)
THEOREM AckedIsOnAirHolds == Spec => []AckedIsOnAir
<1>1. IInv => AckedIsOnAir
  <2> SUFFICES ASSUME IInv, timeouts.tx = 0
               PROVE  /\ \A v \in acked : \E t \in DOMAIN placed : placed[t] = v
                      /\ \A t, u \in DOMAIN placed :
                           (placed[t] # Silence /\ placed[u] # Silence /\ t < u)
                             => placed[t] < placed[u]
    BY DEF AckedIsOnAir
  <2>1. Delivered
    BY DEF IInv, TxSyncInv
  <2>2. DOMAIN placed = Position
    BY DEF IInv, RxInv, AirTypeOK
  <2>3. QED
    BY <2>1, <2>2 DEF Delivered, IsPlaced
<1>2. QED
  BY <1>1, InvariantHolds, PTL

(* Until an answer comes too late, a connection between two calls holds    *)
(* nothing unread, and both its ends agree whether the mask is to come.     *)
THEOREM InSyncHolds == Spec => []InSync
<1>1. IInv => InSync
  <2> SUFFICES ASSUME IInv PROVE InSync
    OBVIOUS
  <2>1. ASSUME timeouts.rx = 0, rc.pc = "ready"
        PROVE  rwire = <<>> /\ rs.pc = "line" /\ rc.maskPending = rs.newClient
    <3>1. rwire = <<>> /\ rs.pc = "line"
      BY <2>1 DEF IInv, RxSyncInv, RxSynced
    <3>2. NoMask(<<>>)
      BY DEF NoMask
    <3>3. rc.maskPending <=> rs.newClient
      BY <3>1, <3>2 DEF IInv, RxInv, WireInv
    <3>4. rc.maskPending \in BOOLEAN /\ rs.newClient \in BOOLEAN
      BY DEF IInv, RxInv, RxTypeOK
    <3>5. QED
      BY <3>1, <3>3, <3>4
  <2>2. ASSUME timeouts.tx = 0, tc.pc = "ready"
        PROVE  tack = <<>> /\ twire = <<>> /\ ts.pc = "line"
    BY <2>2 DEF IInv, TxSyncInv, TxSynced
  <2>3. QED
    BY <2>1, <2>2 DEF InSync
<1>2. QED
  BY <1>1, InvariantHolds, PTL
=============================================================================
