------------------------------- MODULE MacLink -------------------------------
(***************************************************************************)
(* The transfer engine of s2g-mac: how stations queue Ethernet frames,     *)
(* batch them, transmit and retransmit them, acknowledge and deduplicate   *)
(* what they hear, and report the fate of every frame to the host.         *)
(*                                                                         *)
(* One record mac[n] is the state of one `Mac` (engine.rs); each handler   *)
(* of the engine is an operator on that record, and each action below is   *)
(* one call of `poll`, `enqueue_eth` or `on_phy_event` by the caller.      *)
(* Between the stations lies the air: one FIFO per ordered pair, because   *)
(* the sample streams keep order, with losses and with delays of any       *)
(* length (buffered SDR streaming), so a response may arrive after its     *)
(* timeout.                                                                *)
(*                                                                         *)
(* Medium access (CCA, NAV, RID, EIFS, the contention window) decides only *)
(* when a backoff expires; it is the subject of MediumAccess, and here the *)
(* expiry is a step that may happen at any time.  The same holds for the   *)
(* response timeout (RespTimer).  Rate control is an arbitrary choice from *)
(* Choice.  A host's frames carry that host's address as source, no call   *)
(* sign is configured and the filter is off (the defaults).                *)
(***************************************************************************)
EXTENDS Naturals, Sequences, FiniteSets, SequencesExt

CONSTANTS
  Station,       \* the stations on the channel
  Group,         \* the group (broadcast) address
  Frame,         \* Ethernet frames, numbered in the order hosts offer them
  Origin,        \* Origin[f]: the station whose host offers f
  Dest,          \* Dest[f]: a station or Group
  Octets,        \* Octets[f]: length of f's MPDU
  Choice,        \* what rate control can choose for an attempt
  Capacity,      \* Capacity[c]: octets one aggregated PPDU carries at c
  Floor,         \* the choice enqueue_eth checks a frame's size against
  PlainLimit,    \* longest non-aggregated PSDU (511 octets)
  RtsOn, RtsThreshold,
  AckOn, NdpAckOn,
  MaxRetries, QueueLimit,
  MaxAmpdu,      \* ampdu_max_mpdus, at most AMPDU_MAX_MPDUS
  BitmapBits,    \* bits of an NDP BlockAck bitmap (16)
  DedupDepth,    \* sequence numbers remembered per peer (64)
  SeqSpace,      \* sequence numbers (4096)
  Seed,          \* scrambler seeds the engine draws (1..127)
  BaIdMod,       \* a BlockAck ID is the low 6 bits of the seed (64)
  PartialAid     \* PartialAid[n]: the 9-bit hash of n's address

ASSUME StationAssumption == Group \notin Station

ASSUME FrameAssumption ==
  /\ Frame \subseteq Nat
  /\ IsFiniteSet(Frame)
  /\ Origin \in [Frame -> Station]
  /\ Dest \in [Frame -> Station \cup {Group}]
  /\ \A f \in Frame : Dest[f] # Origin[f]

ASSUME ConfigAssumption ==
  /\ Seed \subseteq Nat
  /\ RtsOn \in BOOLEAN /\ AckOn \in BOOLEAN /\ NdpAckOn \in BOOLEAN
  /\ MaxRetries \in Nat /\ QueueLimit \in Nat /\ DedupDepth \in Nat
  /\ MaxAmpdu \in Nat \ {0} /\ BitmapBits \in Nat \ {0}
  /\ MaxAmpdu <= BitmapBits
  /\ PartialAid \in [Station -> Nat]
  /\ SeqSpace \in Nat \ {0} /\ BaIdMod \in Nat \ {0}

(* No other choice carries less than the one enqueue_eth looks at.         *)
ASSUME CapacityAssumption ==
  /\ Octets \in [Frame -> Nat] /\ Capacity \in [Choice -> Nat] /\ PlainLimit \in Nat
  /\ Floor \in Choice /\ \A c \in Choice : Capacity[Floor] <= Capacity[c]

(* A batch is smaller than what a receiver remembers (16 and 64).          *)
ASSUME DedupAssumption == MaxAmpdu <= DedupDepth

VARIABLES
  mac,     \* mac[n]: the sending and responding state of station n
  dedup,   \* dedup[n][s]: ring of the sequence numbers n accepted from s
  air,     \* air[s][r]: PPDUs of s that r will decode, oldest first
  given    \* given[n][f]: times n handed frame f to its host (EthReceived)

vars == <<mac, dedup, air, given>>

NoResponse == [type |-> "none", id |-> <<>>]

SeqNum == 0 .. SeqSpace - 1
Bit == {0, 1}

(* What travels between engines. *)
MpduRecord == [frame : Frame, seq : SeqNum, retry : Bit]
Ppdu ==
  [type : {"data"}, group : BOOLEAN, mpdus : (SUBSET MpduRecord) \ {{}},
   multi : BOOLEAN, seed : Seed, response : {"none", "ndp", "normal"}]
  \cup [type : {"rts"}]
  \cup [type : {"cts"}, ra : Nat]
  \cup [type : {"ack"}, ra : Station]
  \cup [type : {"ndpack"}, id : Seq(Nat)]
  \cup [type : {"ndpba"}, id : Seq(Nat), ssn : SeqNum,
        bits : SUBSET (0 .. BitmapBits - 1)]

-----------------------------------------------------------------------------
(* Mac::new.  outcome and aired are history: what the host was told about  *)
(* each of its frames, and how often the frame was put on the air.         *)
NewMac ==
  [seq       |-> 0,
   queue     |-> {},                          \* accepted, not yet pulled
   batch     |-> {},                          \* cur.mpdus; {} is cur = None
   flight    |-> {},                          \* cur.in_flight
   ctsOk     |-> FALSE,
   mode      |-> "idle",
   expect    |-> NoResponse,
   responses |-> <<>>,
   seqOf     |-> [f \in Frame |-> 0],
   retries   |-> [f \in Frame |-> 0],
   outcome   |-> [f \in Frame |-> "new"],
   aired     |-> [f \in Frame |-> 0]]

Init ==
  /\ mac   = [n \in Station |-> NewMac]
  /\ dedup = [n \in Station |-> [s \in Station |-> <<>>]]
  /\ air   = [s \in Station |-> [r \in Station |-> <<>>]]
  /\ given = [n \in Station |-> [f \in Frame |-> 0]]

-----------------------------------------------------------------------------
(* What a PPDU can carry. *)

Total(S) == SumFunctionOnSet(Octets, S)

(* A lone MPDU goes plain up to PlainLimit; otherwise the A-MPDU must fit. *)
Fits(S, c) ==
  \/ Total(S) <= Capacity[c]
  \/ Cardinality(S) = 1 /\ Total(S) <= PlainLimit

(* Mutant of PlanAttempt: all of the batch or nothing. *)
PlanAttemptWhole(B, c) == {f \in B : Fits(B, c)}

(* plan_attempt: the longest prefix of the outstanding MPDUs that fits. *)
PlanAttempt(B, c) == {f \in B : Fits({g \in B : g <= f}, c)}

WantAck(f) == AckOn /\ Dest[f] # Group

(* poll step 3: a batch is a run of queued frames for one destination.     *)
MaxBatch(f) == IF WantAck(f) /\ NdpAckOn THEN MaxAmpdu ELSE 1

(* Mutants of NextBatch: one frame too many (`<=` for `<`); the newest     *)
(* frames are popped instead of the oldest.                                *)
NextBatchPlusOne(q) ==
  {f \in q : Cardinality({g \in q : g < f}) <= MaxBatch(Min(q))}

NextBatchNewest(q) ==
  {f \in q : Cardinality({g \in q : g > f}) < MaxBatch(Min(q))}

NextBatch(q) ==
  LET head == Min(q)
      run  == {f \in q : \A g \in q : g <= f => Dest[g] = Dest[head]}
  IN {f \in run : Cardinality({g \in run : g < f}) < MaxBatch(head)}

-----------------------------------------------------------------------------
(* Handlers of the engine, as operators on one station's record m.         *)

(* Mutants of EnqueueEth: no size check; the frame is pushed before the    *)
(* limit is looked at.                                                     *)
EnqueueEthUnchecked(m, f) ==
  IF Cardinality(m.queue) >= QueueLimit
  THEN [m EXCEPT !.outcome[f] = "refused"]
  ELSE [m EXCEPT !.outcome[f] = "pending", !.queue = @ \cup {f}]

EnqueueEthEarly(m, f) ==
  [m EXCEPT !.queue = @ \cup {f},
            !.outcome[f] = IF Cardinality(m.queue) >= QueueLimit THEN "refused"
                           ELSE "pending"]

EnqueueEth(m, f) ==
  IF Cardinality(m.queue) >= QueueLimit \/ ~Fits({f}, Floor)
  THEN [m EXCEPT !.outcome[f] = "refused"]
  ELSE [m EXCEPT !.outcome[f] = "pending", !.queue = @ \cup {f}]

StartBackoff(m) == [m EXCEPT !.mode = "backoff", !.expect = NoResponse]

(* The batch is over: cur = None, state = Idle. *)
Finish(m) ==
  [m EXCEPT !.mode = "idle", !.expect = NoResponse, !.batch = {},
            !.flight = {}, !.ctsOk = FALSE]

(* Mutant of PullBatch: the head of the queue is read but not popped. *)
PullBatchKeepsHead(m) ==
  IF m.mode = "idle" /\ m.batch = {} /\ m.queue # {}
  THEN StartBackoff([m EXCEPT !.batch = NextBatch(m.queue),
                              !.queue = @ \ (NextBatch(@) \ {Min(@)})])
  ELSE m

PullBatch(m) ==
  IF m.mode = "idle" /\ m.batch = {} /\ m.queue # {}
  THEN LET B == NextBatch(m.queue)
           seqOf(f) == (m.seq + Cardinality({g \in B : g < f})) % SeqSpace
       IN StartBackoff(
            [m EXCEPT !.queue = @ \ B, !.batch = B, !.flight = {},
                      !.ctsOk = FALSE,
                      !.seq = (@ + Cardinality(B)) % SeqSpace,
                      !.seqOf = [f \in Frame |-> IF f \in B THEN seqOf(f)
                                                            ELSE @[f]]])
  ELSE m

(* Mutant of Retry: the limit is compared before the retry is counted. *)
RetryOffByOne(m, F) ==
  LET over == {f \in F : m.retries[f] > MaxRetries}
  IN [m EXCEPT !.batch   = @ \ over,
               !.retries = [f \in Frame |-> IF f \in F THEN @[f] + 1 ELSE @[f]],
               !.outcome = [f \in Frame |-> IF f \in over THEN "dropped"
                                                          ELSE @[f]]]

(* Burn a retry of every MPDU in F; one past the limit is dropped.         *)
Retry(m, F) ==
  LET over == {f \in F : m.retries[f] + 1 > MaxRetries}
  IN [m EXCEPT !.batch   = @ \ over,
               !.retries = [f \in Frame |-> IF f \in F THEN @[f] + 1 ELSE @[f]],
               !.outcome = [f \in Frame |-> IF f \in over THEN "dropped"
                                                          ELSE @[f]]]

(* Mutants of Continue: a batch of which nothing is left is not ended; the *)
(* flight is not taken out of the batch.                                   *)
ContinueEmpty(m) == StartBackoff([m EXCEPT !.flight = {}, !.ctsOk = FALSE])

ContinueInFlight(m) ==
  IF m.batch = {} THEN Finish(m) ELSE StartBackoff([m EXCEPT !.ctsOk = FALSE])

(* The shared tail of resolve_attempt and of a lost RTS. *)
Continue(m) ==
  IF m.batch = {}
  THEN Finish(m)
  ELSE StartBackoff([m EXCEPT !.flight = {}, !.ctsOk = FALSE])

(* resolve_attempt: the MPDUs in acked are done, the rest of the flight    *)
(* is retried or dropped, MPDUs that did not fly are kept as they are.     *)
ResolveAttempt(m, acked) ==
  LET done == m.flight \cap acked
  IN Continue(
       Retry([m EXCEPT !.batch = @ \ done,
                       !.outcome = [f \in Frame |-> IF f \in done THEN "acked"
                                                                  ELSE @[f]]],
             m.flight \ acked))

(* Mutants of FailAttempt: silence counts as an acknowledgment; a lost RTS *)
(* is free.                                                                *)
FailAttemptSilentAck(m) ==
  IF m.expect.type = "cts"
  THEN Continue(Retry(m, m.batch))
  ELSE ResolveAttempt(m, m.flight)

FailAttemptFreeRts(m) ==
  IF m.expect.type = "cts" THEN StartBackoff(m) ELSE ResolveAttempt(m, {})

(* fail_attempt: a lost RTS costs every MPDU of the batch a retry. *)
FailAttempt(m) ==
  IF m.expect.type = "cts"
  THEN Continue(Retry(m, m.batch))
  ELSE ResolveAttempt(m, {})

-----------------------------------------------------------------------------
(* Transmission: poll step 4 once the backoff has expired.                 *)

Mpdu(m, f) ==
  [frame |-> f, seq |-> m.seqOf[f], retry |-> IF m.retries[f] > 0 THEN 1 ELSE 0]

(* Ack ID: scrambler seed and FCS bits of the MPDU, so a function of what  *)
(* the MPDU says (a collision of the 9 FCS bits is left out).  BlockAck    *)
(* ID: bits of the seed alone.                                             *)
AckId(seed, x) == <<seed, x.frame, x.seq, x.retry>>
BlockAckId(seed) == <<seed % BaIdMod>>

NeedRts(m) ==
  /\ RtsOn
  /\ ~m.ctsOk
  /\ \A f \in m.batch : WantAck(f)
  /\ Total(m.batch) > RtsThreshold

AwaitCts(m) ==
  [m EXCEPT !.mode = "await", !.expect = [type |-> "cts", id |-> <<>>]]

Expected(m, P, seed) ==
  IF ~NdpAckOn THEN [type |-> "ack", id |-> <<>>]
  ELSE IF Cardinality(P) = 1
  THEN [type |-> "ndpack", id |-> AckId(seed, Mpdu(m, CHOOSE f \in P : TRUE))]
  ELSE [type |-> "ndpba", id |-> BlockAckId(seed)]

(* Mutant of Attempt: frames nobody acknowledges are reported acked. *)
AttemptAlwaysAcked(m, P, seed) ==
  IF \A f \in m.batch : WantAck(f)
  THEN [m EXCEPT !.mode = "await", !.flight = P, !.expect = Expected(m, P, seed)]
  ELSE Finish([m EXCEPT !.outcome = [f \in Frame |->
                 IF f \in m.batch THEN "acked" ELSE @[f]]])

(* The engine after it put the MPDUs of P on the air: it waits for the     *)
(* response, or is done at once with frames nobody acknowledges.  An empty *)
(* P is a PSDU that could not be built: the whole batch is dropped.        *)
Attempt(m, P, seed) ==
  IF P = {}
  THEN Finish([m EXCEPT !.outcome = [f \in Frame |->
                 IF f \in m.batch THEN "unbuildable" ELSE @[f]]])
  ELSE LET sent == [m EXCEPT !.aired = [f \in Frame |->
                      IF f \in P THEN @[f] + 1 ELSE @[f]]]
       IN IF \A f \in m.batch : WantAck(f)
          THEN [sent EXCEPT !.mode = "await", !.flight = P,
                            !.expect = Expected(m, P, seed)]
          ELSE Finish([sent EXCEPT !.outcome = [f \in Frame |->
                 IF f \in m.batch THEN "sent" ELSE @[f]]])

DataPpdu(m, P, got, seed) ==
  [type     |-> "data",
   group    |-> \E f \in P : Dest[f] = Group,
   mpdus    |-> {Mpdu(m, f) : f \in got},
   multi    |-> Cardinality(P) > 1,
   seed     |-> seed,
   response |-> IF \E f \in P : ~WantAck(f) THEN "none"
                ELSE IF NdpAckOn THEN "ndp" ELSE "normal"]

(* The stations that do anything but set their NAV when they decode PPDU p *)
(* of station n.                                                           *)
Concerned(n, p) ==
  CASE p.type \in {"ndpack", "ndpba"} -> Station \ {n}
    [] p.type = "cts" -> {r \in Station \ {n} : PartialAid[r] = p.ra}
    [] p.type = "ack" -> {p.ra} \ {n}

(* n transmits; every r in DOMAIN p decodes p[r]. *)
Transmit(n, p) ==
  air' = [air EXCEPT ![n] = [r \in Station |->
            IF r \in DOMAIN p THEN Append(@[r], p[r]) ELSE @[r]]]

-----------------------------------------------------------------------------
(* Reception. *)

(* Mutants of NoteDuplicate: only the latest sequence number is compared;  *)
(* none is; the ring is never cut.                                         *)
NoteDuplicateLatest(acc, x) ==
  IF acc.ring # <<>> /\ Last(acc.ring) = x.seq
  THEN acc
  ELSE [ring |-> IF Len(acc.ring) >= DedupDepth
                 THEN Append(Tail(acc.ring), x.seq) ELSE Append(acc.ring, x.seq),
        fresh |-> acc.fresh \cup {x.frame}]

NoteDuplicateNever(acc, x) ==
  [ring |-> <<x.seq>>, fresh |-> acc.fresh \cup {x.frame}]

NoteDuplicateUncut(acc, x) ==
  IF x.seq \in ToSet(acc.ring)
  THEN acc
  ELSE [ring |-> Append(acc.ring, x.seq), fresh |-> acc.fresh \cup {x.frame}]

(* note_duplicate: what is heard again is not fresh. *)
NoteDuplicate(acc, x) ==
  IF x.seq \in ToSet(acc.ring)
  THEN acc
  ELSE LET ring == Append(acc.ring, x.seq)
       IN [ring  |-> IF Len(ring) > DedupDepth THEN Tail(ring) ELSE ring,
           fresh |-> acc.fresh \cup {x.frame}]

(* The MPDU of a PSDU that comes last. *)
Latest(mpdus) == CHOOSE x \in mpdus : \A y \in mpdus : y.frame <= x.frame

(* on_phy_event: the MPDUs of a PSDU are noted one after the other. *)
Deduplicate(ring, mpdus) ==
  LET noted[S \in SUBSET mpdus] ==
        IF S = {} THEN [ring |-> ring, fresh |-> {}]
        ELSE NoteDuplicate(noted[S \ {Latest(S)}], Latest(S))
  IN  noted[mpdus]

(* queue_block_ack: bit d acknowledges sequence number ssn + d. *)
Offset(seq, ssn) == (seq + SeqSpace - ssn) % SeqSpace

BlockAck(p) ==
  LET first == CHOOSE x \in p.mpdus : \A y \in p.mpdus : x.frame <= y.frame
      ssn   == first.seq
  IN [type |-> "ndpba", id |-> BlockAckId(p.seed), ssn |-> ssn,
      bits |-> {d \in 0 .. BitmapBits - 1 :
                  \E x \in p.mpdus : Offset(x.seq, ssn) = d}]

(* queue_ack / queue_block_ack: the response data PPDU p of s asks for.    *)
(* Duplicates are acknowledged too.                                        *)
DataResponse(p, s) ==
  CASE p.group \/ ~AckOn \/ p.response = "none" -> <<>>
    [] p.response = "normal" -> <<[type |-> "ack", ra |-> s]>>
    [] p.response = "ndp" /\ p.multi -> <<BlockAck(p)>>
    [] OTHER -> <<[type |-> "ndpack",
                   id |-> AckId(p.seed, CHOOSE x \in p.mpdus : TRUE)]>>

Respond(m, r) == [m EXCEPT !.responses = @ \o r]

(* Mutants: an NDP Ack or NDP BlockAck is taken for the expected one       *)
(* whatever its ID, a BlockAck acknowledges the whole flight, a CTS is     *)
(* acted on whether or not one is awaited.                                 *)
OnNdpAckAnyId(m, p) ==
  IF m.expect.type = "ndpack" THEN ResolveAttempt(m, m.flight) ELSE m

OnBlockAckAll(m, p) ==
  IF m.expect = [type |-> "ndpba", id |-> p.id]
  THEN ResolveAttempt(m, m.flight)
  ELSE m

OnCtsAlways(m) == StartBackoff([m EXCEPT !.ctsOk = TRUE])

(* on_ndp and the Ack branch of on_mpdu.  The IDs decide whether an NDP    *)
(* response is the expected one; a legacy Ack names only its receiver.     *)
OnNdpAck(m, p) ==
  IF m.expect = [type |-> "ndpack", id |-> p.id]
  THEN ResolveAttempt(m, m.flight)
  ELSE m

OnBlockAck(m, p) ==
  IF m.expect = [type |-> "ndpba", id |-> p.id]
  THEN ResolveAttempt(m, {f \in m.flight : Offset(m.seqOf[f], p.ssn) \in p.bits})
  ELSE m

OnAck(m) ==
  IF m.expect.type = "ack" THEN ResolveAttempt(m, m.flight) ELSE m

OnCts(m) ==
  IF m.expect.type = "cts"
  THEN StartBackoff([m EXCEPT !.ctsOk = TRUE])      \* transmit at once
  ELSE m

-----------------------------------------------------------------------------
(* The actions: calls of the engine by the node's loop.                    *)

(* enqueue_eth: the host of n offers its next frame. *)
Offer(n) ==
  \E f \in Frame :
    /\ Origin[f] = n /\ mac[n].outcome[f] = "new"
    /\ \A g \in Frame : Origin[g] = n /\ g < f => mac[n].outcome[g] # "new"
    /\ mac' = [mac EXCEPT ![n] = EnqueueEth(@, f)]
    /\ UNCHANGED <<dedup, air, given>>

(* poll step 1: a pending response preempts everything. *)
PollResponse(n) ==
  /\ mac[n].responses # <<>>
  /\ LET p == Head(mac[n].responses)
     IN \E H \in SUBSET Concerned(n, p) : Transmit(n, [r \in H |-> p])
  /\ mac' = [mac EXCEPT ![n].responses = Tail(@)]
  /\ UNCHANGED <<dedup, given>>

(* poll steps 2 and 3: the response timeout fires, however long or short   *)
(* the answer has been under way; a finished batch makes room for the next.*)
PollTimeout(n) ==
  /\ mac[n].responses = <<>> /\ mac[n].mode = "await"
  /\ mac' = [mac EXCEPT ![n] = PullBatch(FailAttempt(@))]
  /\ UNCHANGED <<dedup, air, given>>

(* poll step 3: an idle engine pulls the next batch. *)
PollPull(n) ==
  /\ mac[n].responses = <<>> /\ mac[n].mode = "idle"
  /\ mac[n].batch = {} /\ mac[n].queue # {}
  /\ mac' = [mac EXCEPT ![n] = PullBatch(@)]
  /\ UNCHANGED <<dedup, air, given>>

(* poll step 4, protected attempt: RTS first. *)
PollRts(n) ==
  /\ mac[n].responses = <<>> /\ mac[n].mode = "backoff" /\ NeedRts(mac[n])
  /\ \E H \in SUBSET {Dest[f] : f \in mac[n].batch} :
       Transmit(n, [r \in H |-> [type |-> "rts"]])
  /\ mac' = [mac EXCEPT ![n] = AwaitCts(@)]
  /\ UNCHANGED <<dedup, given>>

(* poll step 4: the data attempt, of which every station concerned decodes *)
(* some of the MPDUs.                                                      *)
PollData(n) ==
  /\ mac[n].responses = <<>> /\ mac[n].mode = "backoff" /\ ~NeedRts(mac[n])
  /\ \E c \in Choice, seed \in Seed :
       LET m == mac[n]
           P == PlanAttempt(m.batch, c)
           audience == IF \E f \in P : Dest[f] = Group THEN Station \ {n}
                       ELSE {Dest[f] : f \in P}
       IN /\ \E got \in [audience -> SUBSET P] :
               Transmit(n, [r \in {s \in audience : got[s] # {}} |->
                              DataPpdu(m, P, got[r], seed)])
          /\ mac' = [mac EXCEPT ![n] = Attempt(@, P, seed)]
  /\ UNCHANGED <<dedup, given>>

(* n decodes the oldest PPDU of s, of the given type. *)
Hears(n, s, type) ==
  /\ air[s][n] # <<>> /\ Head(air[s][n]).type = type
  /\ air' = [air EXCEPT ![s][n] = Tail(@)]

ReceiveData(n, s) ==
  /\ Hears(n, s, "data")
  /\ LET p == Head(air[s][n])
         d == Deduplicate(dedup[n][s], p.mpdus)
     IN /\ mac'   = [mac EXCEPT ![n] = Respond(@, DataResponse(p, s))]
        /\ dedup' = [dedup EXCEPT ![n][s] = d.ring]
        /\ given' = [given EXCEPT ![n] = [f \in Frame |->
                       IF f \in d.fresh THEN @[f] + 1 ELSE @[f]]]

ReceiveRts(n, s) ==
  /\ Hears(n, s, "rts")
  /\ mac' = [mac EXCEPT ![n] =
               Respond(@, <<[type |-> "cts", ra |-> PartialAid[s]]>>)]
  /\ UNCHANGED <<dedup, given>>

ReceiveNdpAck(n, s) ==
  /\ Hears(n, s, "ndpack")
  /\ mac' = [mac EXCEPT ![n] = OnNdpAck(@, Head(air[s][n]))]
  /\ UNCHANGED <<dedup, given>>

ReceiveBlockAck(n, s) ==
  /\ Hears(n, s, "ndpba")
  /\ mac' = [mac EXCEPT ![n] = OnBlockAck(@, Head(air[s][n]))]
  /\ UNCHANGED <<dedup, given>>

ReceiveAck(n, s) ==
  /\ Hears(n, s, "ack")
  /\ mac' = [mac EXCEPT ![n] = OnAck(@)]
  /\ UNCHANGED <<dedup, given>>

ReceiveCts(n, s) ==
  /\ Hears(n, s, "cts")
  /\ mac' = [mac EXCEPT ![n] = OnCts(@)]
  /\ UNCHANGED <<dedup, given>>

Receive(n, s) ==
  \/ ReceiveData(n, s) \/ ReceiveRts(n, s) \/ ReceiveNdpAck(n, s)
  \/ ReceiveBlockAck(n, s) \/ ReceiveAck(n, s) \/ ReceiveCts(n, s)

(* All offered frames are accounted for and nothing is under way. *)
Quiescent ==
  /\ \A f \in Frame : mac[Origin[f]].outcome[f] \notin {"new", "pending"}
  /\ \A n \in Station : mac[n].responses = <<>>
  /\ \A n, s \in Station : air[s][n] = <<>>
  /\ UNCHANGED vars

Next ==
  \/ \E n \in Station :
       \/ Offer(n) \/ PollResponse(n) \/ PollTimeout(n) \/ PollPull(n)
       \/ PollRts(n) \/ PollData(n)
  \/ \E n, s \in Station : Receive(n, s)
  \/ Quiescent

Spec == Init /\ [][Next]_vars

(* The node's loop polls at least every few milliseconds, backoffs and     *)
(* timeouts do expire, and the decoder thread hands on what it decoded;    *)
(* what a poll finds to do is not chosen fairly.                           *)
Fairness ==
  \A n \in Station :
    /\ WF_vars(\/ PollResponse(n) \/ PollTimeout(n) \/ PollPull(n)
               \/ PollRts(n) \/ PollData(n))
    /\ WF_vars(\E s \in Station : Receive(n, s))

FairSpec == Spec /\ Fairness

(* The program of station n is stopped and started again: its engine       *)
(* forgets everything, and the frames it held are lost.                    *)
Restart(n) ==
  /\ mac' = [mac EXCEPT ![n] =
       [NewMac EXCEPT !.aired = mac[n].aired,
                      !.outcome = [f \in Frame |->
                        IF mac[n].outcome[f] = "pending" THEN "lost"
                        ELSE mac[n].outcome[f]]]]
  /\ dedup' = [dedup EXCEPT ![n] = [s \in Station |-> <<>>]]
  /\ UNCHANGED <<air, given>>

RestartSpec == Init /\ [][Next \/ \E n \in Station : Restart(n)]_vars
-----------------------------------------------------------------------------
(* Properties. *)

Outcome == {"new", "refused", "pending", "acked", "sent", "dropped",
            "unbuildable", "lost"}
Expectation == [type : {"none", "cts", "ack", "ndpack", "ndpba"}, id : Seq(Nat)]

MacRecord ==
  [seq : SeqNum, queue : SUBSET Frame, batch : SUBSET Frame,
   flight : SUBSET Frame, ctsOk : BOOLEAN,
   mode : {"idle", "backoff", "await"}, expect : Expectation,
   responses : Seq(Ppdu), seqOf : [Frame -> SeqNum],
   retries : [Frame -> Nat], outcome : [Frame -> Outcome],
   aired : [Frame -> Nat]]

EngineTypeOK ==
  /\ mac \in [Station -> MacRecord]
  /\ air \in [Station -> [Station -> Seq(Ppdu)]]
  /\ given \in [Station -> [Frame -> Nat]]

(* Every variable has its type, and a dedup ring never outgrows its depth. *)
TypeOK ==
  /\ EngineTypeOK
  /\ dedup \in [Station -> [Station -> Seq(SeqNum)]]
  /\ \A n, s \in Station : Len(dedup[n][s]) <= DedupDepth

(* poll relies on "Backoff implies cur" (an expect() that would panic) and *)
(* pulls new work only when idle without a batch: the state machine and    *)
(* the batch agree after every handler, so the engine neither panics nor   *)
(* wedges with a batch nobody works on.                                    *)
BackoffImpliesCur == \A n \in Station : mac[n].mode = "idle" <=> mac[n].batch = {}

(* The attempt a response will resolve is really outstanding: data is in   *)
(* flight exactly while a data response is awaited, and only MPDUs of the  *)
(* current batch are (indices into cur.mpdus stay valid).                  *)
FlightIsAwaited ==
  \A n \in Station :
    /\ mac[n].flight \subseteq mac[n].batch
    /\ mac[n].flight # {} <=> mac[n].expect.type \notin {"none", "cts"}
    /\ mac[n].expect.type # "none" <=> mac[n].mode = "await"

(* No frame is lost track of or held twice: a frame accepted from the host *)
(* and not yet reported is in exactly one of the queue and the batch of    *)
(* its station, and a reported one is in neither.                          *)
FrameConservation ==
  \A n \in Station :
    /\ mac[n].queue \cap mac[n].batch = {}
    /\ \A f \in Frame : f \in mac[n].queue \cup mac[n].batch
                          <=> mac[n].outcome[f] = "pending"

(* A frame reported acknowledged has reached the host of its destination.  *)
AckedIsDelivered ==
  \A f \in Frame :
    mac[Origin[f]].outcome[f] = "acked" => given[Dest[f]][f] > 0

(* When it is so: an answer names its frame (NDP Acks) or the numbers of a *)
(* batch, no number is used twice, and nobody else who awaits a BlockAck   *)
(* hears it.                                                               *)
AnswersNameFrames ==
  /\ NdpAckOn
  /\ \A n \in Station : Cardinality({f \in Frame : Origin[f] = n}) <= SeqSpace
  /\ \/ MaxAmpdu = 1
     \/ \A f, g \in Frame :
          Dest[f] # Group /\ Dest[g] # Group => Origin[g] \in {Origin[f], Dest[f]}

(* A host gets a frame at most once, however often it was retransmitted,   *)
(* and only if the frame was meant for it.                                 *)
AtMostOnce ==
  \A n \in Station, f \in Frame :
    given[n][f] <= IF n # Origin[f] /\ Dest[f] \in {n, Group} THEN 1 ELSE 0

(* max_retries bounds the airtime a frame can cost: it is put on the air   *)
(* at most once more than it may be retried, RTS failures included.        *)
RetryBudget ==
  \A f \in Frame : mac[Origin[f]].aired[f] <= MaxRetries + 1

(* Within a batch the BlockAck bitmap is unambiguous: two outstanding      *)
(* MPDUs are never a bitmap apart or share a sequence number.              *)
BitmapCoversBatch ==
  \A n \in Station : \A f, g \in mac[n].batch :
    f < g => Offset(mac[n].seqOf[g], mac[n].seqOf[f]) \in 1 .. BitmapBits - 1

(* The pre-flight check of enqueue_eth is enough: no accepted frame is     *)
(* thrown away later because its PSDU cannot be built.                     *)
AcceptedIsBuildable ==
  \A f \in Frame : mac[Origin[f]].outcome[f] # "unbuildable"

(* A host may see frames of one peer out of order (there is no reorder     *)
(* buffer), but only frames that can have shared a batch.                  *)
Overtaken(n, f) ==
  {g \in Frame : /\ g > f /\ Origin[g] = Origin[f] /\ Dest[g] = Dest[f]
                 /\ given[n][g] > 0}
ReorderWithinBatch ==
  [][\A n \in Station, f \in Frame :
       given'[n][f] > given[n][f] => Cardinality(Overtaken(n, f)) < MaxAmpdu]_vars

(* Every frame a host hands over is settled in the end: refused, reported  *)
(* complete or reported dropped.  Nothing stays in the engine for ever:    *)
(* each frame is handed over once, so that the time comes from which on    *)
(* none is held.                                                           *)
EveryFrameSettled ==
  <>[](\A f \in Frame : mac[Origin[f]].outcome[f] # "pending")

(* What the engine promises its hosts (FrameDelivery), implemented.        *)
Delivery == INSTANCE FrameDelivery WITH
  Receivers <- [f \in Frame |-> IF Dest[f] = Group THEN Station \ {Origin[f]}
                                                   ELSE {Dest[f]}],
  outcome   <- [f \in Frame |-> mac[Origin[f]].outcome[f]],
  got       <- [f \in Frame |-> {n \in Station : given[n][f] > 0}]
DeliverySpec == Delivery!Spec
=============================================================================
