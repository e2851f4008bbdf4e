----------------------------- MODULE RateControl ------------------------------
(***************************************************************************)
(* Rate control of s2g-mac (rate.rs) towards one peer: which MCS, guard    *)
(* interval and coding the engine's attempts go out with, how probes try   *)
(* the next MCS, the short guard interval and LDPC, and how retries walk   *)
(* down.  Peers do not share state, and the engine has one attempt on the  *)
(* air: it calls select, then report once, with anything the PHY observes  *)
(* of the peer in between.                                                 *)
(*                                                                         *)
(* An MCS is its index in LADDER.  Success probabilities are whole numbers *)
(* of 0 .. Full (Full is P_FLAWLESS); a sample moves one any distance      *)
(* towards itself, which covers every weight alpha and its rounding.  What *)
(* the octets at hand and the current fail_cost_us make of an MCS is one   *)
(* table of Gains, taken anew at each call.  An observation replaces the   *)
(* smoothed SNR by any value.                                              *)
(***************************************************************************)
EXTENDS Integers

CONSTANTS
  Top,                  \* last index of LADDER
  Lo, Hi, Start,        \* lo, hi, and the clamped start_mcs
  GiMode, FecMode,      \* "auto", or the fixed guard interval or coding
  Interval,             \* probe_interval
  BackoffMax,           \* probe_backoff_max
  Override,             \* OVERRIDE_INTERVALS
  Full, PMin,           \* P_FLAWLESS, p_min
  Gains,                \* airtime saved per failure cost, in units of Full:
                        \* [mcs |-> over the MCS below, gi |-> by the short GI]
  Required,             \* Required[i]: SNR_REQUIRED_DB plus snr_margin_db
  Margin, LdpcGain,     \* snr_margin_db, LDPC_GAIN_DB
  Snrs,                 \* values of the smoothed SNR
  RearmSnr,             \* probe_rearm_snr_db
  MaxWalk               \* bound: consecutive failed attempts of a batch

Rung == 0 .. Top
Gi == {"long", "short"}
Fec == {"bcc", "ldpc"}

ASSUME LadderAssumption ==
  /\ Top \in Nat /\ Lo \in Rung /\ Hi \in Rung /\ Start \in Lo .. Hi
  /\ GiMode \in Gi \cup {"auto"} /\ FecMode \in Fec \cup {"auto"}

ASSUME ProbeAssumption ==
  /\ Interval \in Nat /\ BackoffMax \in Nat /\ Override \in Nat \ {0}
  /\ Full \in Nat \ {0} /\ PMin \in 0 .. Full
  /\ Gains \subseteq [mcs : [Rung -> Nat], gi : Nat]
  /\ Required \in [Rung -> Nat] /\ Margin \in Nat /\ LdpcGain \in Nat
  /\ Snrs \subseteq Nat /\ RearmSnr \in Nat /\ MaxWalk \in Nat

VARIABLES
  peer,       \* the Peer record
  attempt,    \* the latest choice
  onAir,      \* it has not been reported yet
  retry       \* rate_failures of the engine's current batch

vars == <<peer, attempt, onAir, retry>>

Unknown == -1                     \* None of an Option<f32>
NoProbe == [kind |-> "none", idx |-> 0]
NoFailure == [idx |-> Unknown, giStep |-> FALSE, ldpcProbe |-> FALSE]

(* Waits beyond this make no difference any more. *)
WaitCap == Override * Interval + BackoffMax

-----------------------------------------------------------------------------
Least(a, b) == IF a < b THEN a ELSE b
Greatest(a, b) == IF a > b THEN a ELSE b
(* The highest index of S, d if there is none. *)
HighestOr(S, d) ==
  IF \E i \in S : \A j \in S : j <= i
  THEN CHOOSE i \in S : \A j \in S : j <= i
  ELSE d

(* snr_required, snr_allows, with the smoothed SNR s. *)
Benefit(i, ldpc) == IF ldpc /\ i > 0 THEN LdpcGain ELSE 0
SnrAllows(s, i, ldpc) == s = Unknown \/ Required[i] <= s + Benefit(i, ldpc)
TableIsPessimistic(s, i, ldpc) ==
  s # Unknown /\ s + Benefit(i, ldpc) + Margin < Required[i]

(* start_index *)
StartIndex(s) == HighestOr({i \in Lo .. Hi : SnrAllows(s, i, FALSE)}, Lo)

(* floor: what a rate must hold against the one below it. *)
FloorOf(below, gain) == Greatest(PMin, Least(Full, below - gain))
OrFull(p) == IF p = Unknown THEN Full ELSE p

FloorMcs(stats, i, g, gain) ==
  IF i = 0 THEN PMin ELSE FloorOf(OrFull(stats[i - 1][g]), gain.mcs[i])
FloorGi(stats, i, gain) == FloorOf(OrFull(stats[i]["long"]), gain.gi)

(* in_use *)
GiInUse(p) == IF GiMode # "auto" THEN GiMode ELSE IF p.shortGi THEN "short" ELSE "long"
FecInUse(p) == IF FecMode # "auto" THEN FecMode ELSE IF p.ldpc THEN "ldpc" ELSE "bcc"

NewPeer ==
  [stats |-> [i \in Rung |-> [g \in Gi |-> Unknown]], cur |-> Start,
   shortGi |-> FALSE, ldpc |-> FALSE, since |-> 0,
   mcsBackoff |-> 0, giBackoff |-> 0, fecBackoff |-> 0,
   probing |-> NoProbe, lastMcs |-> FALSE, failed |-> NoFailure,
   snr |-> Unknown, failSnr |-> Unknown, clean |-> TRUE]

Init ==
  /\ peer = NewPeer
  /\ attempt = [idx |-> Start, gi |-> "long", fec |-> "bcc"]
  /\ onAir = FALSE /\ retry = 0

-----------------------------------------------------------------------------
(* What the PHY says of the peer, at any time. *)

Observed(p, s) ==
  LET rearmed == p.failSnr # Unknown /\ s >= p.failSnr + RearmSnr
      untried == \A i \in Rung, g \in Gi : p.stats[i][g] = Unknown
  IN [p EXCEPT !.snr = s,
               !.mcsBackoff = IF rearmed THEN 0 ELSE @,
               !.failSnr = IF rearmed THEN Unknown ELSE @,
               !.cur = IF untried THEN StartIndex(s) ELSE @]

ObserveSnr ==
  /\ \E s \in Snrs : peer' = Observed(peer, s)
  /\ UNCHANGED <<attempt, onAir, retry>>

ObserveDelaySpread ==
  /\ \E clean \in BOOLEAN : peer' = [peer EXCEPT !.clean = clean]
  /\ UNCHANGED <<attempt, onAir, retry>>

-----------------------------------------------------------------------------
(* select *)

(* Mutant: a retry keeps the coding of the attempt it repeats.             *)
RetryChoiceSameFec(p, k) ==
  LET f == IF p.failed # NoFailure THEN p.failed
           ELSE [idx |-> p.cur, giStep |-> GiMode = "auto" /\ p.shortGi, ldpcProbe |-> FALSE]
      steps == IF f.giStep THEN k - 1 ELSE k
  IN [idx |-> Greatest(Lo, f.idx - steps),
      gi  |-> IF GiMode = "auto" THEN "long" ELSE GiMode,
      fec |-> attempt.fec]

(* A retry of the batch: down the ladder from the attempt that failed      *)
(* first, the long GI before the next MCS.                                 *)
RetryChoice(p, k) ==
  LET f == IF p.failed # NoFailure THEN p.failed
           ELSE [idx |-> p.cur, giStep |-> GiMode = "auto" /\ p.shortGi, ldpcProbe |-> FALSE]
      steps == IF f.giStep THEN k - 1 ELSE k
  IN [idx |-> Greatest(Lo, f.idx - steps),
      gi  |-> IF GiMode = "auto" THEN "long" ELSE GiMode,
      fec |-> IF f.ldpcProbe THEN "bcc" ELSE FecInUse(p)]

SelectRetry ==
  /\ ~onAir /\ retry > 0
  /\ peer' = [peer EXCEPT !.probing = NoProbe]
  /\ attempt' = RetryChoice(peer, retry)
  /\ onAir' = TRUE /\ UNCHANGED retry

(* What a fresh attempt does first; since is the wait since the last probe.*)
Waited(p) ==
  [p EXCEPT !.probing = NoProbe, !.failed = NoFailure,
            !.since = Least(@ + 1, WaitCap)]

McsAllowed(p) ==
  LET ldpc == FecInUse(p) = "ldpc"
  IN TableIsPessimistic(p.snr, p.cur, ldpc) \/ SnrAllows(p.snr, p.cur + 1, ldpc)

(* The next MCS is due for a probe; above the SNR hint only rarely, from a *)
(* flawless rate, and if the airtime saved outweighs one failure.          *)
McsDue(p, gain) ==
  /\ p.cur < Hi
  /\ IF McsAllowed(p)
     THEN p.since >= Interval + p.mcsBackoff
     ELSE /\ p.since >= Override * Interval + p.mcsBackoff
          /\ p.stats[p.cur][GiInUse(p)] = Full
          /\ gain.mcs[p.cur + 1] * Override * Interval >= Full

LdpcDue(p) == FecMode = "auto" /\ ~p.ldpc /\ p.since >= Interval + p.fecBackoff

GiDue(p) ==
  GiMode = "auto" /\ ~p.shortGi /\ p.clean /\ p.since >= Interval + p.giBackoff

Probing(p, kind, i) ==
  [p EXCEPT !.since = 0, !.probing = [kind |-> kind, idx |-> i],
            !.lastMcs = kind \in {"mcs", "aboveHint"}]

ProbeMcs(p, gain) ==
  /\ McsDue(p, gain)
  /\ peer' = Probing(p, IF McsAllowed(p) THEN "mcs" ELSE "aboveHint", p.cur + 1)
  /\ attempt' = [idx |-> p.cur + 1, gi |-> GiInUse(p), fec |-> FecInUse(p)]

ProbeLdpc(p, gain) ==
  /\ ~McsDue(p, gain) /\ LdpcDue(p)
  /\ peer' = Probing(p, "ldpc", p.cur)
  /\ attempt' = [idx |-> p.cur, gi |-> GiInUse(p), fec |-> "ldpc"]

ProbeGi(p, gain) ==
  /\ ~McsDue(p, gain) /\ ~LdpcDue(p) /\ GiDue(p)
  /\ peer' = Probing(p, "gi", p.cur)
  /\ attempt' = [idx |-> p.cur, gi |-> "short", fec |-> FecInUse(p)]

NoProbeDue(p, gain) ==
  /\ ~McsDue(p, gain) /\ ~LdpcDue(p) /\ ~GiDue(p)
  /\ peer' = p
  /\ attempt' = [idx |-> p.cur, gi |-> GiInUse(p), fec |-> FecInUse(p)]

SelectFresh ==
  /\ ~onAir /\ retry = 0
  /\ \E gain \in Gains :
       LET p == Waited(peer)
       IN \/ ProbeMcs(p, gain) \/ ProbeLdpc(p, gain)
          \/ ProbeGi(p, gain) \/ NoProbeDue(p, gain)
  /\ onAir' = TRUE /\ UNCHANGED retry

-----------------------------------------------------------------------------
(* report *)

(* The smoothed probability after a sample. *)
Smoothed(old, ok) ==
  CASE old = Unknown -> {IF ok THEN Full ELSE 0}
    [] old # Unknown /\ ok -> old .. Full
    [] OTHER -> 0 .. old

(* Mutant: the wait does not grow with repeated failures.                  *)
BackedOffOnce(b) == Least(2 * Interval, BackoffMax)

BackedOff(b) == Least(2 * Greatest(b, Interval), BackoffMax)

Sampled(p, c, v) == [p EXCEPT !.stats[c.idx][c.gi] = v]

(* The kind of probe an attempt c was. *)
ProbeKind(p, c) ==
  LET kind == p.probing.kind
  IN IF /\ p.probing.idx = c.idx
        /\ kind = "gi" => c.gi = "short"
        /\ kind = "ldpc" => c.fec = "ldpc"
     THEN kind ELSE "none"

(* Mutant: retries start over from the latest failure.                     *)
FailureNotedLatest(p, c, ok) ==
  [p EXCEPT !.failed =
     IF ok THEN NoFailure
     ELSE [idx |-> c.idx, giStep |-> GiMode = "auto" /\ c.gi = "short",
           ldpcProbe |-> ProbeKind(p, c) = "ldpc"]]

(* Mutant: only a failed probe is remembered.                              *)
FailureNotedOfProbes(p, c, ok) ==
  [p EXCEPT !.failed =
     IF ok \/ ProbeKind(p, c) = "none" THEN NoFailure
     ELSE [idx |-> c.idx, giStep |-> GiMode = "auto" /\ c.gi = "short",
           ldpcProbe |-> ProbeKind(p, c) = "ldpc"]]

(* The first failure of a batch is where its retries start from. *)
FailureNoted(p, c, ok) ==
  [p EXCEPT !.failed =
     IF ok THEN NoFailure
     ELSE IF @ # NoFailure THEN @
     ELSE [idx |-> c.idx, giStep |-> GiMode = "auto" /\ c.gi = "short",
           ldpcProbe |-> ProbeKind(p, c) = "ldpc"]]

(* A probe's own outcome settles it.  A successful one enters its rate at  *)
(* the floor at least; a failed one lengthens the wait for the next, much  *)
(* more if it had doubted the SNR hint.                                    *)
McsProbeSettled(p, c, ok, gain) ==
  LET base == IF p.probing.kind = "aboveHint" THEN Override * Interval ELSE Interval
  IN IF ok
     THEN [p EXCEPT !.stats[c.idx][c.gi] = Greatest(@, FloorMcs(p.stats, c.idx, c.gi, gain)),
                    !.mcsBackoff = 0, !.failSnr = Unknown, !.probing = NoProbe]
     ELSE [p EXCEPT !.mcsBackoff = Least(2 * Greatest(@, base), BackoffMax),
                    !.failSnr = p.snr, !.probing = NoProbe]

GiProbeSettled(p, c, ok, gain) ==
  IF ok
  THEN [p EXCEPT !.stats[c.idx]["short"] = Greatest(@, FloorGi(p.stats, c.idx, gain)),
                 !.shortGi = TRUE, !.giBackoff = 0, !.probing = NoProbe]
  ELSE [p EXCEPT !.giBackoff = BackedOff(@), !.probing = NoProbe]

(* Mutant: a failed probe stays booked.                                    *)
LdpcProbeSettledStill(p, ok) ==
  IF ok
  THEN [p EXCEPT !.ldpc = TRUE, !.fecBackoff = 0, !.probing = NoProbe]
  ELSE [p EXCEPT !.fecBackoff = BackedOff(@)]

LdpcProbeSettled(p, ok) ==
  IF ok
  THEN [p EXCEPT !.ldpc = TRUE, !.fecBackoff = 0, !.probing = NoProbe]
  ELSE [p EXCEPT !.fecBackoff = BackedOff(@), !.probing = NoProbe]

Settled(p, c, ok, gain) ==
  LET kind == ProbeKind(p, c)
  IN CASE kind = "none" -> p
       [] kind = "gi"   -> GiProbeSettled(p, c, ok, gain)
       [] kind = "ldpc" -> LdpcProbeSettled(p, ok)
       [] OTHER         -> McsProbeSettled(p, c, ok, gain)

(* The short GI in use is given up when it falls below its floor. *)
GiReviewed(p, gain) ==
  IF /\ GiMode = "auto" /\ p.shortGi
     /\ p.stats[p.cur]["short"] # Unknown
     /\ p.stats[p.cur]["short"] < FloorGi(p.stats, p.cur, gain)
  THEN [p EXCEPT !.shortGi = FALSE, !.giBackoff = BackedOff(@)]
  ELSE p

(* The MCS in use is given up for the best one known to be good if that is *)
(* lower, else for the next lower one; if it holds, a better one is taken. *)
McsReviewed(p, gain) ==
  LET g == GiInUse(p)
      holds(i) == p.stats[i][g] # Unknown /\ p.stats[i][g] >= FloorMcs(p.stats, i, g, gain)
      best == HighestOr({i \in Lo .. Hi : holds(i)}, p.cur)
      below == IF best < p.cur THEN best ELSE Greatest(p.cur - 1, Lo)
      hasty == below < p.cur /\ p.since < Interval /\ p.lastMcs
  IN IF p.stats[p.cur][g] # Unknown /\ ~holds(p.cur)
     THEN [p EXCEPT !.cur = below,
                    !.mcsBackoff = IF hasty THEN BackedOff(@) ELSE @,
                    !.failSnr = IF hasty THEN p.snr ELSE @]
     ELSE [p EXCEPT !.cur = Greatest(p.cur, best)]

(* The outcome ok of the attempt on the air, and the engine's next move: a *)
(* batch that fell short is tried again or has run out of retries.         *)
Report(ok) ==
  /\ onAir /\ onAir' = FALSE
  /\ \E gain \in Gains, v \in Smoothed(peer.stats[attempt.idx][attempt.gi], ok) :
       LET noted == FailureNoted(Sampled(peer, attempt, v), attempt, ok)
       IN peer' = McsReviewed(GiReviewed(Settled(noted, attempt, ok, gain), gain), gain)
  /\ retry' \in IF ok \/ retry = MaxWalk THEN {0} ELSE {0, retry + 1}
  /\ UNCHANGED attempt

Next ==
  \/ ObserveSnr \/ ObserveDelaySpread
  \/ SelectFresh \/ SelectRetry
  \/ \E ok \in BOOLEAN : Report(ok)

Spec == Init /\ [][Next]_vars

(* There is always a next attempt, and each is answered or given up: while *)
(* none is on the air a select is possible, and otherwise a report.        *)
FairSpec == Spec /\ WF_onAir(onAir' = ~onAir)

-----------------------------------------------------------------------------
(* Properties. *)

Probability == Unknown .. Full
PeerRecord ==
  [stats : [Rung -> [Gi -> Probability]], cur : Lo .. Hi,
   shortGi : BOOLEAN, ldpc : BOOLEAN, since : 0 .. WaitCap,
   mcsBackoff : 0 .. BackoffMax, giBackoff : 0 .. BackoffMax,
   fecBackoff : 0 .. BackoffMax,
   probing : [kind : {"none", "mcs", "aboveHint", "gi", "ldpc"}, idx : Rung],
   lastMcs : BOOLEAN,
   failed : [idx : Rung \cup {Unknown}, giStep : BOOLEAN, ldpcProbe : BOOLEAN],
   snr : Nat \cup {Unknown}, failSnr : Nat \cup {Unknown}, clean : BOOLEAN]

(* Every variable has its type: in particular the MCS in use and that of   *)
(* every attempt, probes and retries included, stay within the configured  *)
(* bounds, and no wait between probes outgrows its cap.                    *)
TypeOK ==
  /\ peer \in PeerRecord
  /\ attempt \in [idx : Lo .. Hi, gi : Gi, fec : Fec]
  /\ onAir \in BOOLEAN /\ retry \in 0 .. MaxWalk

(* A probe is booked only while the probing attempt itself is on the air:  *)
(* no other attempt's outcome is ever taken for the probe's.               *)
ProbeIsOnAir ==
  peer.probing.kind # "none" =>
    onAir /\ retry = 0 /\ ProbeKind(peer, attempt) = peer.probing.kind

(* A retry always knows the attempt its walk down the ladder started from. *)
RetryKnowsItsFailure == retry > 0 => peer.failed # NoFailure

(* A batch's retries walk down the ladder one step at a time: from the     *)
(* short to the long guard interval at the same MCS, then one MCS each,    *)
(* until the bottom, whatever the statistics do meanwhile.                 *)
OneStepDown(a, b) ==
  \/ b.idx = a.idx /\ a.gi = "short" /\ b.gi = "long"
  \/ b.idx = a.idx - 1 /\ b.gi = a.gi
  \/ a.idx = Lo /\ b.idx = Lo /\ b.gi = a.gi
RetriesWalkDown ==
  [][retry > 0 /\ ~onAir /\ onAir' => OneStepDown(attempt, attempt')]_vars

(* Only a probe is sent with LDPC to a peer that has not shown that it     *)
(* decodes it: retries and other attempts are not.                         *)
LdpcOnlyIfKnown ==
  FecMode = "auto" /\ onAir /\ attempt.fec = "ldpc" =>
    peer.ldpc \/ peer.probing.kind = "ldpc"

(* While a higher MCS is configured and allowed by the SNR heard, probing  *)
(* the next MCS never ceases, however often its probes fail, although all  *)
(* kinds of probes share one wait and each starts it anew: probes of the   *)
(* short guard interval that fail, and of LDPC, come to wait as long, and  *)
(* the MCS is looked at first.  This rests on the guard interval settling: *)
(* each time the short one is taken its probes begin with the shortest     *)
(* wait again (see NextMcsIsTriedAgain).                                   *)
McsIsProbed == []<>(peer.probing.kind = "mcs" \/ peer.cur = Hi \/ ~McsAllowed(peer))

LadderIsProbed == <>[]peer.shortGi \/ <>[]~peer.shortGi => McsIsProbed

-----------------------------------------------------------------------------
(* What a comment of rate.rs says and the controller does not do: "Longest *)
(* wait between probes after repeated failures, frames" (of                *)
(* probe_backoff_max).                                                     *)

(* The next MCS is tried again some time, whatever becomes of the guard    *)
(* interval.                                                               *)
NextMcsIsTriedAgain == McsIsProbed

(* The short guard interval is tried again some time, while the channel is *)
(* clean and the peer could use it.                                        *)
ShortGiIsTriedAgain ==
  []<>(peer.shortGi \/ peer.probing.kind = "gi" \/ ~peer.clean)
=============================================================================
