--------------------------- MODULE RateControlProofs ---------------------------
(***************************************************************************)
(* Proofs about RateControl, for any ladder bounds, modes, intervals, gain *)
(* tables and SNR values.                                                  *)
(***************************************************************************)
EXTENDS RateControl, TLAPS

Chance == 0 .. Full
Table == [Rung -> [Gi -> Probability]]
Choices == [idx : Lo .. Hi, gi : Gi, fec : Fec]

(* The attempt on the air, or just answered, is where the walk of the      *)
(* retries has got to.                                                     *)
LongGi == IF GiMode = "auto" THEN "long" ELSE GiMode
StepsOf(k) == IF peer.failed.giStep THEN k - 1 ELSE k
IsStep(k) == attempt.idx = Greatest(Lo, peer.failed.idx - StepsOf(k)) /\ attempt.gi = LongGi
WalkBegins ==
  /\ peer.failed.idx = attempt.idx
  /\ peer.failed.giStep = (GiMode = "auto" /\ attempt.gi = "short")
AttemptOfWalk ==
  /\ onAir /\ retry > 0 => IsStep(retry)
  /\ ~onAir /\ retry > 1 => IsStep(retry - 1)
  /\ ~onAir /\ retry = 1 => WalkBegins

(* A fresh attempt has no failure behind it. *)
FreshIsUnblemished == onAir /\ retry = 0 => peer.failed = NoFailure

FixedGiIsUsed == (onAir \/ retry > 0) /\ GiMode # "auto" => attempt.gi = GiMode

(* The inductive invariant. *)
RateInv ==
  /\ TypeOK /\ ProbeIsOnAir /\ RetryKnowsItsFailure /\ LdpcOnlyIfKnown
  /\ AttemptOfWalk /\ FreshIsUnblemished /\ FixedGiIsUsed

-----------------------------------------------------------------------------
(* Lemmas about the operators. *)

LEMMA ConstantTypes ==
  /\ Top \in Nat /\ Lo \in Nat /\ Hi \in Nat /\ Lo <= Hi /\ Hi <= Top
  /\ Start \in Lo .. Hi /\ Full \in Nat /\ PMin \in Chance
  /\ Interval \in Nat /\ BackoffMax \in Nat /\ WaitCap \in Nat /\ MaxWalk \in Nat
<1>1. Override * Interval \in Nat
  BY ProbeAssumption
<1>2. WaitCap \in Nat
  BY <1>1, ProbeAssumption DEF WaitCap
<1>3. QED
  BY <1>2, LadderAssumption, ProbeAssumption DEF Rung, Chance

(* A highest index of a set, where it is taken at all, is one of the set. *)
LEMMA HighestOrType ==
  ASSUME NEW S, NEW d
  PROVE  HighestOr(S, d) \in S \cup {d}
BY DEF HighestOr

LEMMA FloorType ==
  ASSUME NEW below \in Probability, NEW gain \in Nat
  PROVE  FloorOf(OrFull(below), gain) \in Chance
BY ConstantTypes DEF FloorOf, OrFull, Greatest, Least, Chance, Probability, Unknown

LEMMA FloorMcsType ==
  ASSUME NEW stats \in Table, NEW i \in Rung, NEW g \in Gi, NEW gain \in Gains
  PROVE  FloorMcs(stats, i, g, gain) \in Chance
<1>1. CASE i = 0
  BY <1>1, ConstantTypes DEF FloorMcs
<1>2. CASE i # 0
  <2>1. i - 1 \in Rung
    BY <1>2, ConstantTypes DEF Rung
  <2>2. stats[i - 1][g] \in Probability
    BY <2>1 DEF Table
  <2>3. gain.mcs[i] \in Nat
    BY ProbeAssumption
  <2>4. QED
    BY <1>2, <2>2, <2>3, FloorType DEF FloorMcs
<1>3. QED
  BY <1>1, <1>2

LEMMA FloorGiType ==
  ASSUME NEW stats \in Table, NEW i \in Rung, NEW gain \in Gains
  PROVE  FloorGi(stats, i, gain) \in Chance
<1>1. stats[i]["long"] \in Probability
  BY DEF Table, Gi
<1>2. gain.gi \in Nat
  BY ProbeAssumption
<1>3. QED
  BY <1>1, <1>2, FloorType DEF FloorGi

LEMMA BackedOffType ==
  ASSUME NEW b \in 0 .. BackoffMax, NEW base \in Nat
  PROVE  /\ Least(2 * Greatest(b, base), BackoffMax) \in 0 .. BackoffMax
         /\ BackedOff(b) \in 0 .. BackoffMax
BY ConstantTypes DEF BackedOff, Least, Greatest

LEMMA InUseTypes ==
  ASSUME NEW p
  PROVE  GiInUse(p) \in Gi /\ FecInUse(p) \in Fec
BY LadderAssumption DEF GiInUse, FecInUse, Gi, Fec

LEMMA SmoothedType ==
  ASSUME NEW old \in Probability, NEW ok \in BOOLEAN, NEW v \in Smoothed(old, ok)
  PROVE  v \in Chance
<1>1. CASE old = Unknown
  BY <1>1, ConstantTypes DEF Smoothed, Chance
<1>2. CASE old # Unknown /\ ok
  BY <1>2, ConstantTypes DEF Smoothed, Chance, Probability, Unknown
<1>3. CASE old # Unknown /\ ~ok
  BY <1>3, ConstantTypes DEF Smoothed, Chance, Probability, Unknown
<1>4. QED
  BY <1>1, <1>2, <1>3

LEMMA TableUpdate ==
  ASSUME NEW stats \in Table, NEW i \in Rung, NEW g \in Gi, NEW v \in Chance
  PROVE  /\ [stats EXCEPT ![i][g] = v] \in Table
         /\ [stats EXCEPT ![i][g] = Greatest(@, v)] \in Table
<1>1. v \in Probability /\ Greatest(stats[i][g], v) \in Probability
  BY ConstantTypes DEF Table, Chance, Probability, Unknown, Greatest
<1>2. QED
  BY <1>1 DEF Table

LEMMA StartType ==
  ASSUME NEW s
  PROVE  StartIndex(s) \in Lo .. Hi
<1> DEFINE S == {i \in Lo .. Hi : SnrAllows(s, i, FALSE)}
<1>1. StartIndex(s) \in S \cup {Lo}
  BY HighestOrType DEF StartIndex
<1>2. S \subseteq Lo .. Hi
  OBVIOUS
<1>3. Lo \in Lo .. Hi
  BY ConstantTypes
<1> HIDE DEF S
<1>4. QED
  BY <1>1, <1>2, <1>3

-----------------------------------------------------------------------------
(* What each part of the handlers does to the peer record: it keeps its    *)
(* type, and the parts of the record the invariant speaks of.              *)

LEMMA NewPeerType == NewPeer \in PeerRecord
BY ConstantTypes DEF NewPeer, PeerRecord, NoProbe, NoFailure, Rung, Gi, Probability, Unknown

LEMMA ObservedType ==
  ASSUME NEW p \in PeerRecord, NEW s \in Snrs
  PROVE  /\ Observed(p, s) \in PeerRecord
         /\ Observed(p, s).probing = p.probing /\ Observed(p, s).failed = p.failed
         /\ Observed(p, s).ldpc = p.ldpc
<1>1. s \in Nat /\ StartIndex(s) \in Lo .. Hi /\ 0 \in 0 .. BackoffMax
  BY StartType, ProbeAssumption
<1>2. QED
  BY <1>1 DEF Observed, PeerRecord

LEMMA WaitedType ==
  ASSUME NEW p \in PeerRecord
  PROVE  /\ Waited(p) \in PeerRecord
         /\ Waited(p).probing = NoProbe /\ Waited(p).failed = NoFailure
<1>1. Least(p.since + 1, WaitCap) \in 0 .. WaitCap
  BY ConstantTypes DEF Least, PeerRecord
<1>2. NoProbe \in [kind : {"none", "mcs", "aboveHint", "gi", "ldpc"}, idx : Rung]
  BY ConstantTypes DEF NoProbe, Rung
<1>3. NoFailure \in [idx : Rung \cup {Unknown}, giStep : BOOLEAN, ldpcProbe : BOOLEAN]
  BY DEF NoFailure
<1>4. QED
  BY <1>1, <1>2, <1>3 DEF Waited, PeerRecord

LEMMA ProbingType ==
  ASSUME NEW p \in PeerRecord, NEW kind \in {"mcs", "aboveHint", "gi", "ldpc"}, NEW i \in Lo .. Hi
  PROVE  /\ Probing(p, kind, i) \in PeerRecord
         /\ Probing(p, kind, i).probing = [kind |-> kind, idx |-> i]
         /\ Probing(p, kind, i).failed = p.failed
<1> DEFINE booked == [kind |-> kind, idx |-> i]
           ofMcs == kind \in {"mcs", "aboveHint"}
<1>1. 0 \in 0 .. WaitCap /\ ofMcs \in BOOLEAN
  BY ConstantTypes
<1>2. booked \in [kind : {"none", "mcs", "aboveHint", "gi", "ldpc"}, idx : Rung]
  BY ConstantTypes DEF Rung
<1>3. Probing(p, kind, i) = [p EXCEPT !.since = 0, !.probing = booked, !.lastMcs = ofMcs]
  BY DEF Probing
<1> HIDE DEF booked, ofMcs
<1>4. Probing(p, kind, i) \in PeerRecord
  BY <1>1, <1>2, <1>3 DEF PeerRecord
<1>5. Probing(p, kind, i).probing = booked /\ Probing(p, kind, i).failed = p.failed
  BY <1>3 DEF PeerRecord
<1>6. QED
  BY <1>4, <1>5 DEF booked

LEMMA SampledType ==
  ASSUME NEW p \in PeerRecord, NEW c \in Choices, NEW v \in Chance
  PROVE  /\ Sampled(p, c, v) \in PeerRecord
         /\ Sampled(p, c, v).probing = p.probing /\ Sampled(p, c, v).failed = p.failed
<1>1. c.idx \in Rung /\ c.gi \in Gi
  BY ConstantTypes DEF Choices, Rung
<1>2. p.stats \in Table
  BY DEF PeerRecord, Table
<1>3. [p.stats EXCEPT ![c.idx][c.gi] = v] \in Table
  BY <1>1, <1>2, TableUpdate
<1>4. Sampled(p, c, v) = [p EXCEPT !.stats = [p.stats EXCEPT ![c.idx][c.gi] = v]]
  BY DEF Sampled, PeerRecord
<1>5. QED
  BY <1>3, <1>4 DEF PeerRecord, Table

LEMMA FailureNotedType ==
  ASSUME NEW p \in PeerRecord, NEW c \in Choices, NEW ok \in BOOLEAN
  PROVE  /\ FailureNoted(p, c, ok) \in PeerRecord
         /\ FailureNoted(p, c, ok).probing = p.probing
         /\ FailureNoted(p, c, ok).failed =
              IF ok THEN NoFailure
              ELSE IF p.failed # NoFailure THEN p.failed
              ELSE [idx |-> c.idx, giStep |-> GiMode = "auto" /\ c.gi = "short",
                    ldpcProbe |-> ProbeKind(p, c) = "ldpc"]
<1> DEFINE noted == [idx |-> c.idx, giStep |-> GiMode = "auto" /\ c.gi = "short",
                     ldpcProbe |-> ProbeKind(p, c) = "ldpc"]
<1>1. noted \in [idx : Rung \cup {Unknown}, giStep : BOOLEAN, ldpcProbe : BOOLEAN]
  BY ConstantTypes DEF Choices, Rung
<1>2. NoFailure \in [idx : Rung \cup {Unknown}, giStep : BOOLEAN, ldpcProbe : BOOLEAN]
  BY DEF NoFailure
<1> DEFINE f == IF ok THEN NoFailure ELSE IF p.failed # NoFailure THEN p.failed ELSE noted
<1> HIDE DEF noted
<1>3. f \in [idx : Rung \cup {Unknown}, giStep : BOOLEAN, ldpcProbe : BOOLEAN]
  BY <1>1, <1>2 DEF PeerRecord
<1>4. FailureNoted(p, c, ok) = [p EXCEPT !.failed = f]
  BY DEF FailureNoted, noted, PeerRecord
<1> HIDE DEF f
<1>5. /\ FailureNoted(p, c, ok) \in PeerRecord
      /\ FailureNoted(p, c, ok).probing = p.probing
      /\ FailureNoted(p, c, ok).failed = f
  BY <1>3, <1>4 DEF PeerRecord
<1>6. QED
  BY <1>5 DEF f, noted

(* A settled probe is no longer booked, and the failure stays noted. *)
LEMMA McsProbeType ==
  ASSUME NEW p \in PeerRecord, NEW c \in Choices, NEW ok \in BOOLEAN, NEW gain \in Gains
  PROVE  LET q == McsProbeSettled(p, c, ok, gain)
         IN q \in PeerRecord /\ q.probing = NoProbe /\ q.failed = p.failed
<1>1. /\ NoProbe \in [kind : {"none", "mcs", "aboveHint", "gi", "ldpc"}, idx : Rung]
      /\ Unknown \in Nat \cup {Unknown} /\ 0 \in 0 .. BackoffMax
  BY ConstantTypes DEF NoProbe, Rung
<1>2. CASE ok
  <2> DEFINE t == [p.stats EXCEPT ![c.idx][c.gi] =
                     Greatest(@, FloorMcs(p.stats, c.idx, c.gi, gain))]
  <2>1. p.stats \in Table /\ c.idx \in Rung /\ c.gi \in Gi
    BY ConstantTypes DEF PeerRecord, Table, Choices, Rung
  <2>2. t \in Table
    BY <2>1, FloorMcsType, TableUpdate
  <2>3. McsProbeSettled(p, c, ok, gain) =
          [p EXCEPT !.stats = t, !.mcsBackoff = 0, !.failSnr = Unknown, !.probing = NoProbe]
    BY <1>2 DEF McsProbeSettled, PeerRecord
  <2> HIDE DEF t
  <2>4. QED
    BY <1>1, <2>2, <2>3, ZenonT(30) DEF PeerRecord, Table
<1>3. CASE ~ok
  <2> DEFINE base == IF p.probing.kind = "aboveHint" THEN Override * Interval ELSE Interval
             b == Least(2 * Greatest(p.mcsBackoff, base), BackoffMax)
  <2>1. base \in Nat
    BY ProbeAssumption
  <2>2. b \in 0 .. BackoffMax
    BY <2>1, BackedOffType DEF PeerRecord
  <2>3. McsProbeSettled(p, c, ok, gain) =
          [p EXCEPT !.mcsBackoff = b, !.failSnr = p.snr, !.probing = NoProbe]
    BY <1>3 DEF McsProbeSettled, PeerRecord
  <2> HIDE DEF b
  <2>4. QED
    BY <1>1, <2>2, <2>3 DEF PeerRecord
<1>4. QED
  BY <1>2, <1>3

LEMMA BackedOffPeer ==
  ASSUME NEW p \in PeerRecord
  PROVE  /\ BackedOff(p.mcsBackoff) \in 0 .. BackoffMax
         /\ BackedOff(p.giBackoff) \in 0 .. BackoffMax
         /\ BackedOff(p.fecBackoff) \in 0 .. BackoffMax
<1>1. {p.mcsBackoff, p.giBackoff, p.fecBackoff} \subseteq 0 .. BackoffMax
  BY DEF PeerRecord
<1>2. 0 \in Nat
  OBVIOUS
<1>3. QED
  BY <1>1, <1>2, BackedOffType

LEMMA GiProbeType ==
  ASSUME NEW p \in PeerRecord, NEW c \in Choices, NEW ok \in BOOLEAN, NEW gain \in Gains
  PROVE  LET q == GiProbeSettled(p, c, ok, gain)
         IN q \in PeerRecord /\ q.probing = NoProbe /\ q.failed = p.failed
<1>1. /\ NoProbe \in [kind : {"none", "mcs", "aboveHint", "gi", "ldpc"}, idx : Rung]
      /\ 0 \in 0 .. BackoffMax
  BY ConstantTypes DEF NoProbe, Rung
<1>b. BackedOff(p.giBackoff) \in 0 .. BackoffMax
  BY BackedOffPeer
<1>2. CASE ok
  <2> DEFINE t == [p.stats EXCEPT ![c.idx]["short"] = Greatest(@, FloorGi(p.stats, c.idx, gain))]
  <2>1. p.stats \in Table /\ c.idx \in Rung /\ "short" \in Gi
    BY ConstantTypes DEF PeerRecord, Table, Choices, Rung, Gi
  <2>2. t \in Table
    BY <2>1, FloorGiType, TableUpdate
  <2>3. GiProbeSettled(p, c, ok, gain) =
          [p EXCEPT !.stats = t, !.shortGi = TRUE, !.giBackoff = 0, !.probing = NoProbe]
    BY <1>2 DEF GiProbeSettled, PeerRecord
  <2> HIDE DEF t
  <2>4. QED
    BY <1>1, <2>2, <2>3, ZenonT(30) DEF PeerRecord, Table
<1>3. CASE ~ok
  BY <1>1, <1>b, <1>3 DEF GiProbeSettled, PeerRecord
<1>4. QED
  BY <1>2, <1>3

LEMMA LdpcProbeType ==
  ASSUME NEW p \in PeerRecord, NEW ok \in BOOLEAN
  PROVE  LET q == LdpcProbeSettled(p, ok)
         IN q \in PeerRecord /\ q.probing = NoProbe /\ q.failed = p.failed
<1>1. /\ NoProbe \in [kind : {"none", "mcs", "aboveHint", "gi", "ldpc"}, idx : Rung]
      /\ 0 \in 0 .. BackoffMax
  BY ConstantTypes DEF NoProbe, Rung
<1>b. BackedOff(p.fecBackoff) \in 0 .. BackoffMax
  BY BackedOffPeer
<1>2. QED
  BY <1>1, <1>b DEF LdpcProbeSettled, PeerRecord

LEMMA SettledType ==
  ASSUME NEW p \in PeerRecord, NEW c \in Choices, NEW ok \in BOOLEAN, NEW gain \in Gains
  PROVE  LET q == Settled(p, c, ok, gain)
         IN /\ q \in PeerRecord /\ q.failed = p.failed
            /\ q.probing = IF ProbeKind(p, c) = "none" THEN p.probing ELSE NoProbe
BY McsProbeType, GiProbeType, LdpcProbeType DEF Settled

LEMMA GiReviewedType ==
  ASSUME NEW p \in PeerRecord, NEW gain \in Gains
  PROVE  LET q == GiReviewed(p, gain)
         IN q \in PeerRecord /\ q.failed = p.failed /\ q.probing = p.probing
<1>1. BackedOff(p.giBackoff) \in 0 .. BackoffMax
  BY BackedOffPeer
<1>2. [p EXCEPT !.shortGi = FALSE, !.giBackoff = BackedOff(@)] \in PeerRecord
  BY <1>1 DEF PeerRecord
<1>3. QED
  BY <1>2 DEF GiReviewed, PeerRecord

(* The MCS in use stays within the configured bounds. *)
LEMMA McsReviewedType ==
  ASSUME NEW p \in PeerRecord, NEW gain \in Gains
  PROVE  LET q == McsReviewed(p, gain)
         IN q \in PeerRecord /\ q.failed = p.failed /\ q.probing = p.probing
<1> DEFINE g == GiInUse(p)
           holds(i) == p.stats[i][g] # Unknown /\ p.stats[i][g] >= FloorMcs(p.stats, i, g, gain)
           good == {i \in Lo .. Hi : holds(i)}
           best == HighestOr(good, p.cur)
           below == IF best < p.cur THEN best ELSE Greatest(p.cur - 1, Lo)
           hasty == below < p.cur /\ p.since < Interval /\ p.lastMcs
           b == IF hasty THEN BackedOff(p.mcsBackoff) ELSE p.mcsBackoff
           f == IF hasty THEN p.snr ELSE p.failSnr
           down == [p EXCEPT !.cur = below, !.mcsBackoff = b, !.failSnr = f]
           up == [p EXCEPT !.cur = Greatest(p.cur, best)]
<1>1. p.cur \in Lo .. Hi
  BY DEF PeerRecord
<1>2. good \subseteq Lo .. Hi
  OBVIOUS
<1>3. best \in Lo .. Hi
  <2>1. best \in good \cup {p.cur}
    BY HighestOrType
  <2> HIDE DEF good, best
  <2>2. QED
    BY <1>1, <1>2, <2>1
<1>4. McsReviewed(p, gain) = down \/ McsReviewed(p, gain) = up
  BY DEF McsReviewed, PeerRecord
<1> HIDE DEF best, holds, hasty
<1>5. below \in Lo .. Hi /\ Greatest(p.cur, best) \in Lo .. Hi
  BY <1>1, <1>3, ConstantTypes DEF Greatest
<1>6. b \in 0 .. BackoffMax /\ f \in Nat \cup {Unknown}
  BY BackedOffPeer DEF PeerRecord
<1> HIDE DEF below, b, f
<1>7. down \in PeerRecord /\ down.failed = p.failed /\ down.probing = p.probing
  BY <1>5, <1>6 DEF PeerRecord
<1>8. up \in PeerRecord /\ up.failed = p.failed /\ up.probing = p.probing
  BY <1>5 DEF PeerRecord
<1> HIDE DEF down, up
<1>9. QED
  BY <1>4, <1>7, <1>8

(* What a report makes of the peer: the probe it answers is settled, the   *)
(* first failure of the batch is remembered.                               *)
LEMMA ReportType ==
  ASSUME NEW p \in PeerRecord, NEW c \in Choices, NEW ok \in BOOLEAN,
         NEW gain \in Gains, NEW v \in Chance,
         p.probing.kind # "none" => ProbeKind(p, c) = p.probing.kind
  PROVE  LET noted == FailureNoted(Sampled(p, c, v), c, ok)
             q == McsReviewed(GiReviewed(Settled(noted, c, ok, gain), gain), gain)
         IN /\ q \in PeerRecord /\ q.probing.kind = "none"
            /\ ok => q.failed = NoFailure
            /\ ~ok => /\ q.failed # NoFailure
                      /\ q.failed = IF p.failed # NoFailure THEN p.failed
                                    ELSE [idx |-> c.idx, giStep |-> GiMode = "auto" /\ c.gi = "short",
                                          ldpcProbe |-> ProbeKind(p, c) = "ldpc"]
<1> DEFINE s == Sampled(p, c, v)
           noted == FailureNoted(s, c, ok)
           settled == Settled(noted, c, ok, gain)
           reviewed == GiReviewed(settled, gain)
           q == McsReviewed(reviewed, gain)
<1>1. s \in PeerRecord /\ s.probing = p.probing /\ s.failed = p.failed
  BY SampledType
<1>2. /\ noted \in PeerRecord /\ noted.probing = p.probing
      /\ noted.failed = IF ok THEN NoFailure
                        ELSE IF p.failed # NoFailure THEN p.failed
                        ELSE [idx |-> c.idx, giStep |-> GiMode = "auto" /\ c.gi = "short",
                              ldpcProbe |-> ProbeKind(s, c) = "ldpc"]
  <2> HIDE DEF s
  <2>1. QED
    BY <1>1, FailureNotedType
<1>3. ProbeKind(s, c) = ProbeKind(p, c) /\ ProbeKind(noted, c) = ProbeKind(p, c)
  BY <1>1, <1>2 DEF ProbeKind
<1>4. /\ settled \in PeerRecord /\ settled.failed = noted.failed
      /\ settled.probing = IF ProbeKind(p, c) = "none" THEN p.probing ELSE NoProbe
  <2> HIDE DEF noted
  <2>1. QED
    BY <1>2, <1>3, SettledType
<1>5. settled.probing.kind = "none"
  <2> HIDE DEF settled
  <2>1. QED
    BY <1>4 DEF NoProbe
<1>6. reviewed \in PeerRecord /\ reviewed.failed = noted.failed /\ reviewed.probing = settled.probing
  <2> HIDE DEF settled, noted
  <2>1. QED
    BY <1>4, GiReviewedType
<1>7. q \in PeerRecord /\ q.failed = noted.failed /\ q.probing = settled.probing
  <2> HIDE DEF reviewed, noted, settled
  <2>1. QED
    BY <1>6, McsReviewedType
<1>8. c.idx # Unknown
  BY ConstantTypes DEF Choices, Unknown
<1>9. noted.failed # NoFailure \/ ok
  <2> HIDE DEF noted
  <2>1. QED
    BY <1>2, <1>8 DEF NoFailure
<1> HIDE DEF q, noted, settled
<1>10. QED
  BY <1>2, <1>3, <1>5, <1>7, <1>9 DEF q, noted, settled, reviewed, s

-----------------------------------------------------------------------------
(* The invariant is inductive. *)

LEMMA RateInvInit == Init => RateInv
<1> SUFFICES ASSUME Init PROVE RateInv
  OBVIOUS
<1>1. attempt \in Choices /\ retry \in 0 .. MaxWalk
  BY ConstantTypes DEF Init, Choices, Gi, Fec
<1>2. peer \in PeerRecord /\ peer.probing.kind = "none" /\ retry = 0 /\ onAir = FALSE
  <2>1. NewPeer.probing.kind = "none"
    BY DEF NewPeer, NoProbe
  <2>2. QED
    BY <2>1, NewPeerType DEF Init
<1>3. TypeOK
  BY <1>1, <1>2 DEF TypeOK, Choices
<1>4. ProbeIsOnAir /\ RetryKnowsItsFailure /\ LdpcOnlyIfKnown
  BY <1>2 DEF ProbeIsOnAir, RetryKnowsItsFailure, LdpcOnlyIfKnown
<1>5. AttemptOfWalk /\ FreshIsUnblemished /\ FixedGiIsUsed
  BY <1>2 DEF AttemptOfWalk, FreshIsUnblemished, FixedGiIsUsed
<1>6. QED
  BY <1>3, <1>4, <1>5 DEF RateInv

LEMMA SameRecord ==
  ASSUME RateInv, peer' \in PeerRecord, UNCHANGED <<attempt, onAir, retry>>,
         peer'.probing = peer.probing, peer'.failed = peer.failed, peer'.ldpc = peer.ldpc
  PROVE  RateInv'
BY DEF RateInv, TypeOK, ProbeIsOnAir, RetryKnowsItsFailure, LdpcOnlyIfKnown, AttemptOfWalk,
   FreshIsUnblemished, FixedGiIsUsed, IsStep, StepsOf, WalkBegins, ProbeKind

LEMMA ObserveStep == RateInv /\ (ObserveSnr \/ ObserveDelaySpread) => RateInv'
<1>1. ASSUME RateInv, ObserveSnr PROVE RateInv'
  <2>1. PICK s \in Snrs : peer' = Observed(peer, s)
    BY <1>1 DEF ObserveSnr
  <2>2. /\ peer' \in PeerRecord /\ peer'.probing = peer.probing
        /\ peer'.failed = peer.failed /\ peer'.ldpc = peer.ldpc
    BY <1>1, <2>1, ObservedType DEF RateInv, TypeOK
  <2>3. QED
    BY <1>1, <2>2, SameRecord DEF ObserveSnr
<1>2. ASSUME RateInv, ObserveDelaySpread PROVE RateInv'
  <2>1. PICK b \in BOOLEAN : peer' = [peer EXCEPT !.clean = b]
    BY <1>2 DEF ObserveDelaySpread
  <2>2. /\ peer' \in PeerRecord /\ peer'.probing = peer.probing
        /\ peer'.failed = peer.failed /\ peer'.ldpc = peer.ldpc
    BY <1>2, <2>1 DEF RateInv, TypeOK, PeerRecord
  <2>3. QED
    BY <1>2, <2>2, SameRecord DEF ObserveDelaySpread
<1>3. QED
  BY <1>1, <1>2

(* A retry knows where it starts, and is one step further down. *)
LEMMA RetryStep ==
  ASSUME RateInv, SelectRetry
  PROVE  RateInv' /\ OneStepDown(attempt, attempt')
<1> DEFINE f == peer.failed
<1>1. /\ peer \in PeerRecord /\ attempt \in Choices /\ retry \in Nat /\ retry > 0
      /\ ~onAir /\ onAir' /\ retry' = retry /\ f # NoFailure
  BY ConstantTypes DEF RateInv, TypeOK, Choices, SelectRetry, RetryKnowsItsFailure
<1>2. /\ peer' \in PeerRecord /\ peer'.failed = f /\ peer'.probing = NoProbe
      /\ peer'.ldpc = peer.ldpc
  <2>1. NoProbe \in [kind : {"none", "mcs", "aboveHint", "gi", "ldpc"}, idx : Rung]
    BY ConstantTypes DEF NoProbe, Rung
  <2>2. peer' = [peer EXCEPT !.probing = NoProbe]
    BY DEF SelectRetry
  <2>3. QED
    BY <1>1, <2>1, <2>2 DEF PeerRecord
<1>3. /\ attempt'.idx = Greatest(Lo, f.idx - StepsOf(retry))
      /\ attempt'.gi = LongGi
      /\ attempt'.fec = IF f.ldpcProbe THEN "bcc" ELSE FecInUse(peer)
      /\ attempt' = [idx |-> attempt'.idx, gi |-> attempt'.gi, fec |-> attempt'.fec]
  BY <1>1 DEF SelectRetry, RetryChoice, StepsOf, LongGi
<1>4. f.idx \in Int /\ StepsOf(retry) \in Nat /\ f.giStep \in BOOLEAN
  BY <1>1, ConstantTypes DEF PeerRecord, Rung, Unknown, StepsOf
<1>5. LongGi \in Gi /\ (GiMode # "auto" => LongGi = GiMode)
  BY LadderAssumption DEF LongGi, Gi
<1>6. OneStepDown(attempt, attempt')
  <2>1. CASE retry = 1
    <3>1. f.idx = attempt.idx /\ f.giStep = (GiMode = "auto" /\ attempt.gi = "short")
      BY <1>1, <2>1 DEF RateInv, AttemptOfWalk, WalkBegins
    <3>2. attempt.idx \in Lo .. Hi /\ attempt.gi \in Gi
      BY <1>1 DEF Choices
    <3>3. CASE f.giStep
      <4>1. attempt.gi = "short" /\ attempt'.gi = "long"
        BY <1>3, <3>1, <3>3 DEF LongGi
      <4>2. attempt'.idx = Greatest(Lo, attempt.idx - 0)
        BY <1>3, <2>1, <3>1, <3>3 DEF StepsOf
      <4>3. attempt'.idx = attempt.idx
        BY <4>2, <3>2, ConstantTypes DEF Greatest
      <4>4. QED
        BY <4>1, <4>3 DEF OneStepDown
    <3>4. CASE ~f.giStep
      <4>1. attempt.gi = LongGi
        BY <1>1, <3>1, <3>2, <3>4 DEF LongGi, Gi, RateInv, FixedGiIsUsed
      <4>2. attempt'.idx = Greatest(Lo, attempt.idx - 1)
        BY <1>3, <2>1, <3>1, <3>4 DEF StepsOf
      <4>3. QED
        BY <1>3, <4>1, <4>2, <3>2, ConstantTypes DEF Greatest, OneStepDown
    <3>5. QED
      BY <3>3, <3>4, <1>4
  <2>2. CASE retry > 1
    <3>1. attempt.idx = Greatest(Lo, f.idx - StepsOf(retry - 1)) /\ attempt.gi = LongGi
      BY <1>1, <2>2 DEF RateInv, AttemptOfWalk, IsStep
    <3>2. StepsOf(retry) = StepsOf(retry - 1) + 1 /\ StepsOf(retry - 1) \in Int
      BY <1>1, <2>2 DEF StepsOf
    <3>3. QED
      BY <1>3, <1>4, <3>1, <3>2, ConstantTypes DEF Greatest, OneStepDown
  <2>3. QED
    BY <1>1, <2>1, <2>2
<1>7. attempt' \in Choices
  <2>1. attempt'.idx \in Lo .. Hi
    <3>1. attempt.idx \in Lo .. Hi
      BY <1>1 DEF Choices
    <3>2. attempt'.idx <= attempt.idx
      BY <1>6, <3>1, ConstantTypes DEF OneStepDown
    <3>3. attempt'.idx \in Int /\ Lo <= attempt'.idx
      BY <1>3, <1>4, ConstantTypes DEF Greatest
    <3>4. QED
      BY <3>1, <3>2, <3>3, ConstantTypes
  <2>2. attempt'.fec \in Fec
    BY <1>3, InUseTypes DEF Fec
  <2>3. QED
    BY <1>3, <1>5, <2>1, <2>2 DEF Choices
<1>8. TypeOK'
  BY <1>1, <1>2, <1>7 DEF TypeOK, Choices, RateInv
<1>9. ProbeIsOnAir' /\ RetryKnowsItsFailure' /\ FreshIsUnblemished' /\ FixedGiIsUsed'
  BY <1>1, <1>2, <1>3, <1>5 DEF ProbeIsOnAir, RetryKnowsItsFailure, FreshIsUnblemished,
     FixedGiIsUsed, NoProbe
<1>10. LdpcOnlyIfKnown'
  BY <1>2, <1>3 DEF LdpcOnlyIfKnown, FecInUse
<1>11. AttemptOfWalk'
  BY <1>1, <1>2, <1>3 DEF AttemptOfWalk, IsStep, StepsOf
<1>12. QED
  BY <1>6, <1>8, <1>9, <1>10, <1>11 DEF RateInv

LEMMA FreshStep ==
  ASSUME RateInv, SelectFresh
  PROVE  RateInv'
<1> DEFINE p == Waited(peer)
<1>1. /\ p \in PeerRecord /\ p.probing = NoProbe /\ p.failed = NoFailure
      /\ p.cur \in Lo .. Hi
  <2>1. p \in PeerRecord /\ p.probing = NoProbe /\ p.failed = NoFailure
    BY WaitedType DEF RateInv, TypeOK
  <2> HIDE DEF p
  <2>2. QED
    BY <2>1 DEF PeerRecord
<1>2. retry = 0 /\ retry' = 0 /\ onAir'
  BY DEF SelectFresh
<1>3. GiInUse(p) \in Gi /\ FecInUse(p) \in Fec /\ "ldpc" \in Fec /\ "short" \in Gi
  BY InUseTypes DEF Fec, Gi
<1> DEFINE Outcome ==
      /\ peer' \in PeerRecord /\ attempt' \in Choices /\ peer'.failed = NoFailure
      /\ peer'.probing.kind # "none" => ProbeKind(peer', attempt') = peer'.probing.kind
      /\ GiMode # "auto" => attempt'.gi = GiMode
      /\ FecMode = "auto" /\ attempt'.fec = "ldpc" => peer'.ldpc \/ peer'.probing.kind = "ldpc"
<1>4. PICK gain \in Gains : \/ ProbeMcs(p, gain) \/ ProbeLdpc(p, gain)
                            \/ ProbeGi(p, gain) \/ NoProbeDue(p, gain)
  BY DEF SelectFresh
<1>a. Probing(p, "ldpc", p.cur).ldpc = p.ldpc
  BY DEF Probing, Waited, RateInv, TypeOK, PeerRecord
<1> HIDE DEF p
<1>5. ASSUME ProbeMcs(p, gain) PROVE Outcome
  <2> DEFINE kind == IF McsAllowed(p) THEN "mcs" ELSE "aboveHint"
  <2>1. p.cur + 1 \in Lo .. Hi
    BY <1>1, <1>5, ConstantTypes DEF ProbeMcs, McsDue
  <2>2. kind \in {"mcs", "aboveHint", "gi", "ldpc"} /\ kind # "none" /\ kind # "gi" /\ kind # "ldpc"
    OBVIOUS
  <2>3. /\ peer' = Probing(p, kind, p.cur + 1)
        /\ attempt' = [idx |-> p.cur + 1, gi |-> GiInUse(p), fec |-> FecInUse(p)]
    BY <1>5 DEF ProbeMcs
  <2> HIDE DEF kind
  <2>4. /\ peer' \in PeerRecord /\ peer'.failed = NoFailure
        /\ peer'.probing = [kind |-> kind, idx |-> p.cur + 1]
    BY <1>1, <2>1, <2>2, <2>3, ProbingType
  <2>5. peer'.ldpc = p.ldpc
    BY <1>1, <2>3 DEF Probing, PeerRecord
  <2>6. QED
    BY <1>3, <2>1, <2>2, <2>3, <2>4, <2>5 DEF Choices, ProbeKind, GiInUse, FecInUse
<1>6. ASSUME ProbeLdpc(p, gain) PROVE Outcome
  <2>1. /\ peer' = Probing(p, "ldpc", p.cur)
        /\ attempt' = [idx |-> p.cur, gi |-> GiInUse(p), fec |-> "ldpc"]
    BY <1>6 DEF ProbeLdpc
  <2>2. /\ peer' \in PeerRecord /\ peer'.failed = NoFailure
        /\ peer'.probing = [kind |-> "ldpc", idx |-> p.cur]
    BY <1>1, <2>1, ProbingType
  <2>3. QED
    BY <1>1, <1>3, <2>1, <2>2 DEF Choices, ProbeKind, GiInUse
<1>7. ASSUME ProbeGi(p, gain) PROVE Outcome
  <2>1. /\ peer' = Probing(p, "gi", p.cur) /\ GiMode = "auto"
        /\ attempt' = [idx |-> p.cur, gi |-> "short", fec |-> FecInUse(p)]
    BY <1>7 DEF ProbeGi, GiDue
  <2>2. /\ peer' \in PeerRecord /\ peer'.failed = NoFailure
        /\ peer'.probing = [kind |-> "gi", idx |-> p.cur]
    BY <1>1, <2>1, ProbingType
  <2>3. peer'.ldpc = p.ldpc
    BY <1>1, <2>1 DEF Probing, PeerRecord
  <2>4. QED
    BY <1>1, <1>3, <2>1, <2>2, <2>3 DEF Choices, ProbeKind, FecInUse
<1>8. ASSUME NoProbeDue(p, gain) PROVE Outcome
  <2>1. /\ peer' = p
        /\ attempt' = [idx |-> p.cur, gi |-> GiInUse(p), fec |-> FecInUse(p)]
    BY <1>8 DEF NoProbeDue
  <2>2. QED
    BY <1>1, <1>3, <2>1 DEF Choices, NoProbe, GiInUse, FecInUse
<1>9. Outcome
  BY <1>4, <1>5, <1>6, <1>7, <1>8
<1>10. TypeOK'
  BY <1>2, <1>9 DEF RateInv, TypeOK, Choices
<1>11. QED
  BY <1>2, <1>9, <1>10 DEF RateInv, ProbeIsOnAir, RetryKnowsItsFailure, LdpcOnlyIfKnown,
     AttemptOfWalk, FreshIsUnblemished, FixedGiIsUsed

LEMMA ReportStep ==
  ASSUME RateInv, NEW ok \in BOOLEAN, Report(ok)
  PROVE  RateInv'
<1>1. /\ peer \in PeerRecord /\ attempt \in Choices /\ retry \in 0 .. MaxWalk
      /\ onAir /\ ~onAir' /\ onAir' \in BOOLEAN /\ attempt' = attempt
  BY DEF RateInv, TypeOK, Choices, Report
<1>2. peer.probing.kind # "none" => ProbeKind(peer, attempt) = peer.probing.kind
  BY DEF RateInv, ProbeIsOnAir
<1>3. PICK gain \in Gains, v \in Smoothed(peer.stats[attempt.idx][attempt.gi], ok) :
        LET noted == FailureNoted(Sampled(peer, attempt, v), attempt, ok)
        IN peer' = McsReviewed(GiReviewed(Settled(noted, attempt, ok, gain), gain), gain)
  BY DEF Report
<1>4. v \in Chance
  <2>1. attempt.idx \in Rung /\ attempt.gi \in Gi
    BY <1>1, ConstantTypes DEF Choices, Rung
  <2>2. peer.stats[attempt.idx][attempt.gi] \in Probability
    BY <1>1, <2>1 DEF PeerRecord
  <2>3. QED
    BY <2>2, SmoothedType
<1>5. /\ peer' \in PeerRecord /\ peer'.probing.kind = "none"
      /\ ~ok => /\ peer'.failed # NoFailure
                /\ peer'.failed = IF peer.failed # NoFailure THEN peer.failed
                                  ELSE [idx |-> attempt.idx,
                                        giStep |-> GiMode = "auto" /\ attempt.gi = "short",
                                        ldpcProbe |-> ProbeKind(peer, attempt) = "ldpc"]
  BY <1>1, <1>2, <1>3, <1>4, ReportType
<1>6. retry' = 0 \/ (~ok /\ retry # MaxWalk /\ retry' = retry + 1)
  BY DEF Report
<1>7. TypeOK'
  <2>1. retry' \in 0 .. MaxWalk
    BY <1>1, <1>6, ConstantTypes
  <2>2. QED
    BY <1>1, <1>5, <2>1 DEF TypeOK, Choices
<1>8. ProbeIsOnAir' /\ LdpcOnlyIfKnown' /\ FreshIsUnblemished'
  BY <1>1, <1>5 DEF ProbeIsOnAir, LdpcOnlyIfKnown, FreshIsUnblemished
<1>9. RetryKnowsItsFailure'
  BY <1>5, <1>6 DEF RetryKnowsItsFailure
<1>10. FixedGiIsUsed'
  BY <1>1 DEF RateInv, FixedGiIsUsed
<1>11. AttemptOfWalk'
  <2>1. CASE retry' = 0
    BY <1>1, <2>1 DEF AttemptOfWalk
  <2>2. CASE ~ok /\ retry = 0 /\ retry' = 1
    <3>1. peer.failed = NoFailure
      BY <1>1, <2>2 DEF RateInv, FreshIsUnblemished
    <3>2. WalkBegins'
      BY <1>1, <1>5, <2>2, <3>1 DEF WalkBegins
    <3>3. QED
      BY <1>1, <2>2, <3>2 DEF AttemptOfWalk
  <2>3. CASE ~ok /\ retry > 0 /\ retry' = retry + 1
    <3>1. peer'.failed = peer.failed
      BY <1>5, <2>3 DEF RateInv, RetryKnowsItsFailure
    <3>2. IsStep(retry)
      BY <1>1, <2>3 DEF RateInv, AttemptOfWalk
    <3>3. retry' > 1 /\ retry' - 1 = retry
      BY <1>1, <2>3
    <3>4. QED
      BY <1>1, <3>1, <3>2, <3>3 DEF AttemptOfWalk, IsStep, StepsOf
  <2>4. QED
    BY <1>1, <1>6, <2>1, <2>2, <2>3
<1>12. QED
  BY <1>7, <1>8, <1>9, <1>10, <1>11 DEF RateInv

LEMMA RateInvNext == RateInv /\ [Next]_vars => RateInv'
<1>1. ASSUME RateInv, UNCHANGED vars PROVE RateInv'
  BY <1>1, SameRecord DEF vars, RateInv, TypeOK
<1>2. QED
  BY <1>1, ObserveStep, RetryStep, FreshStep, ReportStep DEF Next

-----------------------------------------------------------------------------
(* The results. *)

(* The invariant holds in every reachable state. *)
THEOREM RateInvariant == Spec => []RateInv
BY RateInvInit, RateInvNext, PTL DEF Spec

(* Rates stay on the configured ladder, waits below their caps, whatever   *)
(* the order of outcomes and observations.                                 *)
THEOREM RatesStayInBounds == Spec => []TypeOK
<1>1. RateInv => TypeOK
  BY DEF RateInv
<1>2. QED
  BY <1>1, RateInvariant, PTL

(* No attempt's outcome settles a probe other than its own. *)
THEOREM ProbesAreTheirOwn == Spec => []ProbeIsOnAir
<1>1. RateInv => ProbeIsOnAir
  BY DEF RateInv
<1>2. QED
  BY <1>1, RateInvariant, PTL

(* The fallback of select for a retry without a recorded failure is dead   *)
(* code.                                                                   *)
THEOREM RetriesAreInformed == Spec => []RetryKnowsItsFailure
<1>1. RateInv => RetryKnowsItsFailure
  BY DEF RateInv
<1>2. QED
  BY <1>1, RateInvariant, PTL

(* A peer that never decoded LDPC gets it in probes only. *)
THEOREM LdpcIsProbedFirst == Spec => []LdpcOnlyIfKnown
<1>1. RateInv => LdpcOnlyIfKnown
  BY DEF RateInv
<1>2. QED
  BY <1>1, RateInvariant, PTL

(* However many retries, and whatever the statistics do between them, each *)
(* goes out exactly one step below the attempt that failed before it.      *)
THEOREM WalkIsSteady == Spec => RetriesWalkDown
<1>1. RateInv /\ [Next]_vars => [retry > 0 /\ ~onAir /\ onAir' => OneStepDown(attempt, attempt')]_vars
  <2>1. ASSUME RateInv, Next, retry > 0, ~onAir, onAir' PROVE OneStepDown(attempt, attempt')
    <3>1. ~ObserveSnr /\ ~ObserveDelaySpread
      BY <2>1 DEF ObserveSnr, ObserveDelaySpread
    <3>2. ~SelectFresh
      BY <2>1 DEF SelectFresh
    <3>3. ASSUME NEW ok \in BOOLEAN PROVE ~Report(ok)
      BY <2>1 DEF Report
    <3>4. QED
      BY <2>1, <3>1, <3>2, <3>3, RetryStep DEF Next
  <2>2. QED
    BY <2>1
<1>2. QED
  BY <1>1, RateInvariant, PTL DEF Spec, RetriesWalkDown

=============================================================================
