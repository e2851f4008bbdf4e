---------------------------- MODULE MacLinkProofs ----------------------------
(***************************************************************************)
(* Proofs about MacLink, for any number of stations and frames and every   *)
(* value of its constants.  First the engines: the inductive invariant     *)
(* MacInv speaks of one station's record; each handler of the engine       *)
(* preserves it (one lemma per handler), and each action replaces records  *)
(* by handlers' results.  Then, from "What is delivered" on, a frame       *)
(* reaches each host it is meant for at most once, hosts see frames out of *)
(* order only within a batch, and an accepted frame can always be built:   *)
(* the invariant follows a frame's batch from the sender along the line to *)
(* the receiver's ring of sequence numbers.  Where answers name their      *)
(* frames (AnswersNameFrames), what is reported acknowledged has been      *)
(* delivered, and MacLink implements FrameDelivery: the last part, from    *)
(* "What an acknowledgment says" on.                                       *)
(***************************************************************************)
EXTENDS MacLink, TLAPS, FiniteSetTheorems, WellFoundedInduction, FunctionTheorems, SequenceTheorems

Held(m) == m.queue \cup m.batch

(* The parts of the inductive invariant of a station's record. *)
ModeInv(m) ==
  /\ m.mode = "idle" <=> m.batch = {}
  /\ m.flight \subseteq m.batch
  /\ m.flight # {} <=> m.expect.type \notin {"none", "cts"}
  /\ m.expect.type # "none" <=> m.mode = "await"

HoldInv(m) ==
  /\ m.queue \cap m.batch = {}
  /\ \A f \in Frame : f \in Held(m) <=> m.outcome[f] = "pending"

(* A held frame was aired at most once per retry it burnt, and once more   *)
(* if it is in F (the attempt now in flight); a frame no longer held was   *)
(* aired within its budget.                                                *)
BudgetInv(m, F) ==
  \A f \in Frame :
    /\ m.outcome[f] = "new" => m.aired[f] = 0 /\ m.retries[f] = 0
    /\ f \in Held(m) =>
         /\ m.retries[f] <= MaxRetries
         /\ m.aired[f] <= m.retries[f] + (IF f \in F THEN 1 ELSE 0)
    /\ m.aired[f] <= MaxRetries + 1

MacInv(m) ==
  /\ m \in MacRecord
  /\ ModeInv(m)
  /\ HoldInv(m)
  /\ BudgetInv(m, m.flight)

-----------------------------------------------------------------------------
(* Operators the engine is built from. *)

(* A nonempty set of frames has a first one. *)
LEMMA FirstFrame ==
  ASSUME NEW S \in SUBSET Frame, S # {}
  PROVE  \E f \in S : \A g \in S : f <= g
<1>1. Frame \subseteq Nat
  BY FrameAssumption
<1>2. PICK f \in S : \A g \in S : ~(<<g, f>> \in OpToRel(<, Nat))
  BY <1>1, WFMin, NatLessThanWellFounded
<1>3. \A g \in S : ~(g < f)
  BY <1>1, <1>2 DEF OpToRel
<1>4. QED
  BY <1>1, <1>3

(* poll step 3 takes at least one frame from a nonempty queue. *)
LEMMA NextBatchTakes ==
  ASSUME NEW q \in SUBSET Frame, q # {}
  PROVE  NextBatch(q) # {} /\ NextBatch(q) \subseteq q
<1> DEFINE head == Min(q)
           run  == {f \in q : \A g \in q : g <= f => Dest[g] = Dest[head]}
<1>1. head \in q /\ \A g \in q : head <= g
  BY FirstFrame DEF Min
<1>2. q \subseteq Nat
  BY FrameAssumption
<1>3. head \in run
  <2>1. ASSUME NEW g \in q, g <= head PROVE g = head
    <3>1. g \in Nat /\ head \in Nat /\ head <= g
      BY <1>1, <1>2
    <3> HIDE DEF head
    <3>2. QED
      BY <2>1, <3>1
  <2>2. QED
    BY <1>1, <2>1
<1>4. {g \in run : g < head} = {}
  <2>1. ASSUME NEW g \in q PROVE ~(g < head)
    <3>1. g \in Nat /\ head \in Nat /\ head <= g
      BY <1>1, <1>2
    <3> HIDE DEF head
    <3>2. QED
      BY <3>1
  <2>2. QED
    BY <2>1
<1>5. Cardinality({}) = 0
  BY FS_EmptySet
<1>6. MaxBatch(head) \in Nat /\ MaxBatch(head) > 0
  BY ConfigAssumption DEF MaxBatch
<1>7. head \in NextBatch(q)
  BY <1>3, <1>4, <1>5, <1>6 DEF NextBatch
<1>8. QED
  BY <1>7 DEF NextBatch

LEMMA ModIsSeqNum ==
  ASSUME NEW x \in Nat
  PROVE  x % SeqSpace \in SeqNum
BY ConfigAssumption DEF SeqNum

(* Any set of frames is finite. *)
LEMMA FramesCount ==
  ASSUME NEW S \in SUBSET Frame
  PROVE  IsFiniteSet(S) /\ Cardinality(S) \in Nat
BY FrameAssumption, FS_Subset, FS_CardinalityType

LEMMA PlanIsPrefix ==
  ASSUME NEW S \in SUBSET Frame, NEW c
  PROVE  PlanAttempt(S, c) \subseteq S
BY DEF PlanAttempt

-----------------------------------------------------------------------------
(* The handlers preserve the invariant. *)

LEMMA NewMacInv == MacInv(NewMac)
<1>1. 0 \in SeqNum
  BY ConfigAssumption DEF SeqNum
<1>2. NewMac \in MacRecord
  BY <1>1 DEF NewMac, MacRecord, NoResponse, Expectation, Outcome
<1>3. ModeInv(NewMac)
  BY DEF NewMac, ModeInv, NoResponse
<1>4. HoldInv(NewMac)
  BY DEF NewMac, HoldInv, Held
<1>5. BudgetInv(NewMac, NewMac.flight)
  BY ConfigAssumption DEF NewMac, BudgetInv, Held
<1>6. QED
  BY <1>2, <1>3, <1>4, <1>5 DEF MacInv

LEMMA EnqueueInv ==
  ASSUME NEW m, MacInv(m), NEW f \in Frame, m.outcome[f] = "new"
  PROVE  MacInv(EnqueueEth(m, f))
<1> DEFINE r == EnqueueEth(m, f)
<1>1. m \in MacRecord /\ ModeInv(m) /\ HoldInv(m) /\ BudgetInv(m, m.flight)
  BY DEF MacInv
<1>2. CASE r = [m EXCEPT !.outcome[f] = "refused"]
  <2>1. [m.outcome EXCEPT ![f] = "refused"] \in [Frame -> Outcome]
    BY <1>1 DEF MacRecord, Outcome
  <2>2. r \in MacRecord
    BY <1>1, <1>2, <2>1 DEF MacRecord
  <2>3. /\ r.queue = m.queue /\ r.batch = m.batch /\ r.flight = m.flight
        /\ r.mode = m.mode /\ r.expect = m.expect
        /\ r.retries = m.retries /\ r.aired = m.aired
        /\ r.outcome = [m.outcome EXCEPT ![f] = "refused"]
    BY <1>1, <1>2 DEF MacRecord
  <2> HIDE DEF r
  <2>4. ModeInv(r)
    BY <1>1, <2>3 DEF ModeInv
  <2>5. HoldInv(r)
    BY <1>1, <2>3 DEF HoldInv, Held, MacRecord
  <2>6. BudgetInv(r, r.flight)
    BY <1>1, <2>3 DEF BudgetInv, Held, MacRecord
  <2>7. QED
    BY <2>2, <2>4, <2>5, <2>6 DEF MacInv, r
<1>3. CASE r = [m EXCEPT !.outcome[f] = "pending", !.queue = @ \cup {f}]
  <2>1. /\ [m.outcome EXCEPT ![f] = "pending"] \in [Frame -> Outcome]
        /\ m.queue \cup {f} \in SUBSET Frame
    BY <1>1 DEF MacRecord, Outcome
  <2>2. r \in MacRecord
    BY <1>1, <1>3, <2>1 DEF MacRecord
  <2>3. /\ r.queue = m.queue \cup {f} /\ r.batch = m.batch
        /\ r.flight = m.flight /\ r.mode = m.mode /\ r.expect = m.expect
        /\ r.retries = m.retries /\ r.aired = m.aired
        /\ r.outcome = [m.outcome EXCEPT ![f] = "pending"]
    BY <1>1, <1>3 DEF MacRecord
  <2> HIDE DEF r
  <2>4. ModeInv(r)
    BY <1>1, <2>3 DEF ModeInv
  <2>5. HoldInv(r)
    BY <1>1, <2>3 DEF HoldInv, Held, MacRecord
  <2>6. BudgetInv(r, r.flight)
    BY <1>1, <2>3, ConfigAssumption DEF BudgetInv, Held, MacRecord
  <2>7. QED
    BY <2>2, <2>4, <2>5, <2>6 DEF MacInv, r
<1>4. QED
  BY <1>2, <1>3 DEF EnqueueEth

LEMMA PullBatchInv ==
  ASSUME NEW m, MacInv(m)
  PROVE  MacInv(PullBatch(m))
<1> DEFINE r == PullBatch(m)
           B == NextBatch(m.queue)
           seqOf(f) == (m.seq + Cardinality({g \in B : g < f})) % SeqSpace
           numbered == [f \in Frame |-> IF f \in B THEN seqOf(f) ELSE m.seqOf[f]]
<1>1. m \in MacRecord /\ ModeInv(m) /\ HoldInv(m) /\ BudgetInv(m, m.flight)
  BY DEF MacInv
<1>2. CASE ~(m.mode = "idle" /\ m.batch = {} /\ m.queue # {})
  BY <1>2 DEF PullBatch
<1>3. CASE m.mode = "idle" /\ m.batch = {} /\ m.queue # {}
  <2>1. m.queue \in SUBSET Frame /\ m.seq \in SeqNum /\ m.seqOf \in [Frame -> SeqNum]
    BY <1>1 DEF MacRecord
  <2>2. B # {} /\ B \subseteq m.queue
    BY <1>3, <2>1, NextBatchTakes
  <2> HIDE DEF B
  <2>3. (m.seq + Cardinality(B)) % SeqSpace \in SeqNum
    BY <2>1, <2>2, FramesCount, ModIsSeqNum DEF SeqNum
  <2>4. numbered \in [Frame -> SeqNum]
    <3>1. ASSUME NEW f \in Frame PROVE seqOf(f) \in SeqNum
      <4>1. {g \in B : g < f} \in SUBSET Frame
        BY <2>1, <2>2
      <4>2. Cardinality({g \in B : g < f}) \in Nat
        BY <4>1, FramesCount
      <4>3. m.seq + Cardinality({g \in B : g < f}) \in Nat
        BY <2>1, <4>2 DEF SeqNum
      <4>4. QED
        BY <4>3, ModIsSeqNum
    <3> HIDE DEF seqOf
    <3>2. QED
      BY <2>1, <3>1
  <2>5. r = [m EXCEPT !.queue = m.queue \ B, !.batch = B, !.flight = {},
                      !.ctsOk = FALSE,
                      !.seq = (m.seq + Cardinality(B)) % SeqSpace,
                      !.seqOf = numbered,
                      !.mode = "backoff", !.expect = NoResponse]
    BY <1>1, <1>3 DEF PullBatch, StartBackoff, MacRecord, B
  <2> HIDE DEF numbered, r
  <2>6. NoResponse \in Expectation
    BY DEF NoResponse, Expectation
  <2>7. r \in MacRecord
    BY <1>1, <2>1, <2>2, <2>3, <2>4, <2>5, <2>6 DEF MacRecord
  <2>8. /\ r.queue = m.queue \ B /\ r.batch = B /\ r.flight = {}
        /\ r.mode = "backoff" /\ r.expect = NoResponse
        /\ r.retries = m.retries /\ r.aired = m.aired
        /\ r.outcome = m.outcome
    BY <1>1, <2>5 DEF MacRecord
  <2>9. ModeInv(r)
    BY <2>2, <2>8 DEF ModeInv, NoResponse
  <2>10. Held(r) = Held(m) /\ HoldInv(r)
    BY <1>1, <1>3, <2>2, <2>8 DEF HoldInv, Held
  <2>11. m.flight = {}
    BY <1>1, <1>3 DEF ModeInv
  <2>12. BudgetInv(r, r.flight)
    BY <1>1, <2>8, <2>10, <2>11 DEF BudgetInv
  <2>13. QED
    BY <2>7, <2>9, <2>10, <2>12 DEF MacInv, r
<1>4. QED
  BY <1>2, <1>3

(* Burning a retry of the MPDUs of F pays for their attempt: afterwards no *)
(* held frame was aired more often than it was retried.                    *)
LEMMA RetryInv ==
  ASSUME NEW m, m \in MacRecord, HoldInv(m),
         NEW F \in SUBSET m.batch, BudgetInv(m, F)
  PROVE  /\ Retry(m, F) \in MacRecord
         /\ HoldInv(Retry(m, F))
         /\ BudgetInv(Retry(m, F), {})
<1> DEFINE r == Retry(m, F)
           over == {f \in F : m.retries[f] + 1 > MaxRetries}
           retries == [f \in Frame |-> IF f \in F THEN m.retries[f] + 1
                                                  ELSE m.retries[f]]
           outcome == [f \in Frame |-> IF f \in over THEN "dropped"
                                                     ELSE m.outcome[f]]
<1>1. /\ m.batch \in SUBSET Frame /\ m.queue \in SUBSET Frame
      /\ m.retries \in [Frame -> Nat] /\ m.aired \in [Frame -> Nat]
      /\ m.outcome \in [Frame -> Outcome]
  BY DEF MacRecord
<1>2. r = [m EXCEPT !.batch = m.batch \ over, !.retries = retries,
                    !.outcome = outcome]
  BY DEF Retry, MacRecord
<1>3. retries \in [Frame -> Nat] /\ outcome \in [Frame -> Outcome]
  BY <1>1 DEF Outcome
<1>4. over \subseteq F /\ F \subseteq Frame
  BY <1>1
<1>5. \A f \in Frame : /\ f \in over <=> f \in F /\ m.retries[f] + 1 > MaxRetries
                       /\ retries[f] = IF f \in F THEN m.retries[f] + 1
                                                  ELSE m.retries[f]
                       /\ outcome[f] = IF f \in over THEN "dropped"
                                                     ELSE m.outcome[f]
  OBVIOUS
<1> HIDE DEF over, retries, outcome, r
<1>6. r \in MacRecord
  BY <1>1, <1>2, <1>3 DEF MacRecord
<1>7. /\ r.batch = m.batch \ over /\ r.queue = m.queue
      /\ r.retries = retries /\ r.outcome = outcome /\ r.aired = m.aired
  BY <1>2 DEF MacRecord
<1>8. HoldInv(r)
  BY <1>1, <1>4, <1>5, <1>7 DEF HoldInv, Held
<1>9. BudgetInv(r, {})
  <2> SUFFICES ASSUME NEW f \in Frame
               PROVE  /\ r.outcome[f] = "new" => r.aired[f] = 0 /\ r.retries[f] = 0
                      /\ f \in Held(r) => /\ r.retries[f] <= MaxRetries
                                          /\ r.aired[f] <= r.retries[f] + 0
                      /\ r.aired[f] <= MaxRetries + 1
    BY DEF BudgetInv
  <2>1. m.retries[f] \in Nat /\ m.aired[f] \in Nat
    BY <1>1
  <2>2. f \in F => f \in Held(m) /\ m.outcome[f] = "pending"
    BY DEF HoldInv, Held
  <2>3. f \in Held(r) => f \in Held(m) /\ f \notin over
    BY <1>4, <1>7 DEF Held, HoldInv
  <2>4. QED
    BY <1>5, <1>7, <2>1, <2>2, <2>3, ConfigAssumption DEF BudgetInv
<1>10. QED
  BY <1>6, <1>8, <1>9 DEF r

(* Whatever is left of the batch gets a fresh backoff; an empty batch ends.*)
LEMMA ContinueInv ==
  ASSUME NEW m, m \in MacRecord, HoldInv(m), BudgetInv(m, {})
  PROVE  MacInv(Continue(m))
<1> DEFINE r == Continue(m)
<1>1. NoResponse \in Expectation /\ NoResponse.type = "none"
  BY DEF NoResponse, Expectation
<1>2. /\ r \in MacRecord
      /\ r.batch = m.batch /\ r.flight = {} /\ r.expect = NoResponse
      /\ r.mode = IF m.batch = {} THEN "idle" ELSE "backoff"
      /\ r.queue = m.queue /\ r.outcome = m.outcome
      /\ r.retries = m.retries /\ r.aired = m.aired
  BY <1>1 DEF Continue, Finish, StartBackoff, MacRecord
<1> HIDE DEF r
<1>3. ModeInv(r)
  BY <1>1, <1>2 DEF ModeInv
<1>4. HoldInv(r) /\ BudgetInv(r, r.flight)
  BY <1>2 DEF HoldInv, BudgetInv, Held
<1>5. QED
  BY <1>2, <1>3, <1>4 DEF MacInv, r

LEMMA ResolveInv ==
  ASSUME NEW m, MacInv(m), NEW acked
  PROVE  MacInv(ResolveAttempt(m, acked))
<1> DEFINE done == m.flight \cap acked
           outcome == [f \in Frame |-> IF f \in done THEN "acked" ELSE m.outcome[f]]
           r == [m EXCEPT !.batch = @ \ done,
                          !.outcome = [f \in Frame |-> IF f \in done THEN "acked"
                                                                    ELSE @[f]]]
           F == m.flight \ acked
<1>1. m \in MacRecord /\ ModeInv(m) /\ HoldInv(m) /\ BudgetInv(m, m.flight)
  BY DEF MacInv
<1>2. /\ m.batch \in SUBSET Frame /\ m.flight \subseteq m.batch
      /\ m.outcome \in [Frame -> Outcome]
  BY <1>1 DEF MacRecord, ModeInv
<1>3. outcome \in [Frame -> Outcome]
  BY <1>2 DEF Outcome
<1>4. r = [m EXCEPT !.batch = m.batch \ done, !.outcome = outcome]
  BY <1>1 DEF MacRecord
<1>5. \A f \in Frame : outcome[f] = IF f \in done THEN "acked" ELSE m.outcome[f]
  OBVIOUS
<1>6. ResolveAttempt(m, acked) = Continue(Retry(r, F))
  BY DEF ResolveAttempt
<1> HIDE DEF outcome, r
<1>7. r \in MacRecord
  BY <1>1, <1>2, <1>3, <1>4 DEF MacRecord
<1>8. /\ r.batch = m.batch \ done /\ r.queue = m.queue /\ r.outcome = outcome
      /\ r.retries = m.retries /\ r.aired = m.aired
  BY <1>1, <1>4 DEF MacRecord
<1>9. HoldInv(r)
  BY <1>1, <1>2, <1>5, <1>8 DEF HoldInv, Held
<1>10. F \in SUBSET r.batch
  BY <1>2, <1>8
<1>11. BudgetInv(r, F)
  <2> SUFFICES ASSUME NEW f \in Frame
               PROVE  /\ r.outcome[f] = "new" => r.aired[f] = 0 /\ r.retries[f] = 0
                      /\ f \in Held(r) =>
                           /\ r.retries[f] <= MaxRetries
                           /\ r.aired[f] <= r.retries[f] + (IF f \in F THEN 1 ELSE 0)
                      /\ r.aired[f] <= MaxRetries + 1
    BY DEF BudgetInv
  <2>1. f \in Held(r) => f \in Held(m)
    BY <1>8 DEF Held
  <2>2. f \in Held(r) => (f \in F <=> f \in m.flight)
    BY <1>1, <1>2, <1>8 DEF Held, HoldInv
  <2>3. QED
    BY <1>1, <1>5, <1>8, <2>1, <2>2 DEF BudgetInv
<1>12. QED
  BY <1>6, <1>7, <1>9, <1>10, <1>11, RetryInv, ContinueInv

LEMMA FailInv ==
  ASSUME NEW m, MacInv(m)
  PROVE  MacInv(FailAttempt(m))
<1>1. m \in MacRecord /\ ModeInv(m) /\ HoldInv(m) /\ BudgetInv(m, m.flight)
  BY DEF MacInv
<1>2. CASE m.expect.type = "cts"
  <2>1. m.flight = {}
    BY <1>1, <1>2 DEF ModeInv
  <2>2. BudgetInv(m, m.batch)
    <3>1. ASSUME NEW f \in Frame PROVE m.aired[f] \in Nat /\ m.retries[f] \in Nat
      BY <1>1 DEF MacRecord
    <3>2. QED
      BY <1>1, <2>1, <3>1 DEF BudgetInv
  <2>3. QED
    BY <1>1, <1>2, <2>2, RetryInv, ContinueInv DEF FailAttempt
<1>3. CASE m.expect.type # "cts"
  BY <1>3, ResolveInv DEF FailAttempt
<1>4. QED
  BY <1>2, <1>3

LEMMA AwaitCtsInv ==
  ASSUME NEW m, MacInv(m), m.mode = "backoff"
  PROVE  MacInv(AwaitCts(m))
<1> DEFINE r == AwaitCts(m)
<1>1. m \in MacRecord /\ ModeInv(m) /\ HoldInv(m) /\ BudgetInv(m, m.flight)
  BY DEF MacInv
<1>2. [type |-> "cts", id |-> <<>>] \in Expectation
  BY DEF Expectation
<1>3. /\ r \in MacRecord
      /\ r.mode = "await" /\ r.expect.type = "cts"
      /\ r.queue = m.queue /\ r.batch = m.batch /\ r.flight = m.flight
      /\ r.outcome = m.outcome /\ r.retries = m.retries /\ r.aired = m.aired
  BY <1>1, <1>2 DEF AwaitCts, MacRecord
<1> HIDE DEF r
<1>4. ModeInv(r) /\ HoldInv(r) /\ BudgetInv(r, r.flight)
  BY <1>1, <1>3 DEF ModeInv, HoldInv, BudgetInv, Held
<1>5. QED
  BY <1>3, <1>4 DEF MacInv, r

LEMMA CtsInv ==
  ASSUME NEW m, MacInv(m)
  PROVE  MacInv(OnCts(m))
<1> DEFINE r == OnCts(m)
<1>1. m \in MacRecord /\ ModeInv(m) /\ HoldInv(m) /\ BudgetInv(m, m.flight)
  BY DEF MacInv
<1>2. CASE m.expect.type # "cts"
  BY <1>2 DEF OnCts
<1>3. CASE m.expect.type = "cts"
  <2>1. NoResponse \in Expectation /\ NoResponse.type = "none"
    BY DEF NoResponse, Expectation
  <2>2. m.mode = "await" /\ m.flight = {}
    BY <1>1, <1>3 DEF ModeInv
  <2>3. /\ r \in MacRecord
        /\ r.mode = "backoff" /\ r.expect = NoResponse
        /\ r.queue = m.queue /\ r.batch = m.batch /\ r.flight = m.flight
        /\ r.outcome = m.outcome /\ r.retries = m.retries /\ r.aired = m.aired
    BY <1>1, <1>3, <2>1 DEF OnCts, StartBackoff, MacRecord
  <2> HIDE DEF r
  <2>4. ModeInv(r) /\ HoldInv(r) /\ BudgetInv(r, r.flight)
    BY <1>1, <2>1, <2>2, <2>3 DEF ModeInv, HoldInv, BudgetInv, Held
  <2>5. QED
    BY <2>3, <2>4 DEF MacInv, r
<1>4. QED
  BY <1>2, <1>3

LEMMA OnResponseInv ==
  ASSUME NEW m, MacInv(m), NEW p
  PROVE  MacInv(OnNdpAck(m, p)) /\ MacInv(OnBlockAck(m, p)) /\ MacInv(OnAck(m))
BY ResolveInv DEF OnNdpAck, OnBlockAck, OnAck

(* Responses may be queued and popped without touching the transfer state. *)
LEMMA ResponsesInv ==
  ASSUME NEW m, MacInv(m), NEW q \in Seq(Ppdu)
  PROVE  MacInv([m EXCEPT !.responses = q])
<1> DEFINE r == [m EXCEPT !.responses = q]
<1>1. m \in MacRecord /\ ModeInv(m) /\ HoldInv(m) /\ BudgetInv(m, m.flight)
  BY DEF MacInv
<1>2. /\ r \in MacRecord
      /\ r.mode = m.mode /\ r.expect = m.expect
      /\ r.queue = m.queue /\ r.batch = m.batch /\ r.flight = m.flight
      /\ r.outcome = m.outcome /\ r.retries = m.retries /\ r.aired = m.aired
  BY <1>1 DEF MacRecord
<1> HIDE DEF r
<1>3. ModeInv(r) /\ HoldInv(r) /\ BudgetInv(r, r.flight)
  BY <1>1, <1>2 DEF ModeInv, HoldInv, BudgetInv, Held
<1>4. QED
  BY <1>2, <1>3 DEF MacInv, r

(* Finishing a batch whose frames all got a final outcome. *)
LEMMA FinishInv ==
  ASSUME NEW m, m \in MacRecord,
         m.queue \cap m.batch = {},
         \A f \in Frame : f \in m.queue <=> m.outcome[f] = "pending",
         BudgetInv([m EXCEPT !.batch = {}], {})
  PROVE  MacInv(Finish(m))
<1> DEFINE r == Finish(m)
<1>1. NoResponse \in Expectation /\ NoResponse.type = "none"
  BY DEF NoResponse, Expectation
<1>2. /\ r \in MacRecord
      /\ r.batch = {} /\ r.flight = {} /\ r.expect = NoResponse
      /\ r.mode = "idle" /\ r.queue = m.queue /\ r.outcome = m.outcome
      /\ r.retries = m.retries /\ r.aired = m.aired
  BY <1>1 DEF Finish, MacRecord
<1> HIDE DEF r
<1>3. ModeInv(r) /\ HoldInv(r)
  BY <1>1, <1>2 DEF ModeInv, HoldInv, Held
<1>4. BudgetInv(r, r.flight)
  <2> DEFINE q == [m EXCEPT !.batch = {}]
  <2>1. /\ q.batch = {} /\ q.queue = m.queue /\ q.outcome = m.outcome
        /\ q.retries = m.retries /\ q.aired = m.aired
    BY DEF MacRecord
  <2> HIDE DEF q
  <2>2. BudgetInv(q, {})
    BY DEF q
  <2>3. QED
    BY <1>2, <2>1, <2>2 DEF BudgetInv, Held
<1>5. QED
  BY <1>2, <1>3, <1>4 DEF MacInv, r

LEMMA MpduTyped ==
  ASSUME NEW m, m \in MacRecord, NEW f \in Frame
  PROVE  Mpdu(m, f) \in MpduRecord
BY DEF Mpdu, MacRecord, MpduRecord, Bit

LEMMA IdsTyped ==
  ASSUME NEW seed \in Seed
  PROVE  /\ BlockAckId(seed) \in Seq(Nat)
         /\ \A x \in MpduRecord : AckId(seed, x) \in Seq(Nat)
<1>1. seed \in Nat /\ seed % BaIdMod \in Nat
  BY ConfigAssumption
<1>2. ASSUME NEW x \in MpduRecord
      PROVE  x.frame \in Nat /\ x.seq \in Nat /\ x.retry \in Nat
  <2>1. x.frame \in Frame /\ x.seq \in SeqNum /\ x.retry \in Bit
    BY DEF MpduRecord
  <2>2. x.frame \in Nat
    BY <2>1, FrameAssumption
  <2>3. x.seq \in Nat
    BY <2>1, ConfigAssumption DEF SeqNum
  <2>4. x.retry \in Nat
    BY <2>1 DEF Bit
  <2>5. QED
    BY <2>2, <2>3, <2>4
<1>3. QED
  BY <1>1, <1>2 DEF AckId, BlockAckId

LEMMA ExpectedTyped ==
  ASSUME NEW m, m \in MacRecord, NEW P \in SUBSET Frame, P # {}, NEW seed \in Seed
  PROVE  /\ Expected(m, P, seed) \in Expectation
         /\ Expected(m, P, seed).type \notin {"none", "cts"}
<1>1. (CHOOSE f \in P : TRUE) \in Frame
  OBVIOUS
<1>2. QED
  BY <1>1, MpduTyped, IdsTyped DEF Expected, Expectation

(* An attempt that flies pays for its airtime when it is resolved: until   *)
(* then its MPDUs are in flight, and no others are.                        *)
LEMMA AttemptInv ==
  ASSUME NEW m, MacInv(m), m.mode = "backoff",
         NEW P \in SUBSET m.batch, NEW seed \in Seed
  PROVE  MacInv(Attempt(m, P, seed))
<1> DEFINE aired == [f \in Frame |-> IF f \in P THEN m.aired[f] + 1 ELSE m.aired[f]]
           ended(o) == [f \in Frame |-> IF f \in m.batch THEN o ELSE m.outcome[f]]
<1>1. m \in MacRecord /\ ModeInv(m) /\ HoldInv(m) /\ BudgetInv(m, m.flight)
  BY DEF MacInv
<1>2. /\ m.batch \in SUBSET Frame /\ m.queue \in SUBSET Frame
      /\ m.retries \in [Frame -> Nat] /\ m.aired \in [Frame -> Nat]
      /\ m.outcome \in [Frame -> Outcome]
  BY <1>1 DEF MacRecord
<1>3. m.flight = {} /\ m.batch # {}
  BY <1>1 DEF ModeInv
<1>4. \A f \in Frame : m.retries[f] \in Nat /\ m.aired[f] \in Nat
  BY <1>2
<1>5. \A f \in Frame : f \in m.batch => /\ m.aired[f] <= m.retries[f]
                                       /\ m.retries[f] <= MaxRetries
                                       /\ m.outcome[f] = "pending"
  BY <1>1, <1>3, <1>4 DEF BudgetInv, HoldInv, Held
<1>6. aired \in [Frame -> Nat]
  BY <1>2
<1>7. \A f \in Frame : aired[f] = IF f \in P THEN m.aired[f] + 1 ELSE m.aired[f]
  OBVIOUS
<1>8. \A f \in Frame : aired[f] <= MaxRetries + 1
  BY <1>1, <1>4, <1>5, <1>7, ConfigAssumption DEF BudgetInv
<1>9. ASSUME NEW o \in {"unbuildable", "sent"}
      PROVE  /\ ended(o) \in [Frame -> Outcome]
             /\ \A f \in Frame : ended(o)[f] = IF f \in m.batch THEN o
                                                               ELSE m.outcome[f]
  BY <1>2 DEF Outcome
<1> HIDE DEF aired, ended
<1>10. CASE P = {}
  <2> DEFINE r == [m EXCEPT !.outcome = ended("unbuildable")]
  <2>1. Attempt(m, P, seed) = Finish(r)
    BY <1>1, <1>10 DEF Attempt, MacRecord, ended
  <2>2. /\ r \in MacRecord
        /\ r.queue = m.queue /\ r.batch = m.batch
        /\ r.retries = m.retries /\ r.aired = m.aired
        /\ r.outcome = ended("unbuildable")
    BY <1>1, <1>9 DEF MacRecord
  <2> HIDE DEF r
  <2>3. r.queue \cap r.batch = {}
    BY <1>1, <2>2 DEF HoldInv
  <2>4. \A f \in Frame : f \in r.queue <=> r.outcome[f] = "pending"
    BY <1>1, <1>9, <2>2 DEF HoldInv, Held
  <2>5. BudgetInv([r EXCEPT !.batch = {}], {})
    <3> DEFINE q == [r EXCEPT !.batch = {}]
    <3>1. /\ q.batch = {} /\ q.queue = r.queue /\ q.outcome = r.outcome
          /\ q.retries = r.retries /\ q.aired = r.aired
      BY <2>2 DEF MacRecord
    <3> HIDE DEF q
    <3>2. BudgetInv(q, {})
      BY <1>1, <1>2, <1>3, <1>4, <1>7, <1>8, <1>9, <2>2, <2>4, <3>1 DEF BudgetInv, Held, HoldInv
    <3>3. QED
      BY <3>2 DEF q
  <2>6. QED
    BY <2>1, <2>2, <2>3, <2>4, <2>5, FinishInv
<1>11. CASE P # {} /\ \A f \in m.batch : WantAck(f)
  <2> DEFINE r == [m EXCEPT !.aired = aired, !.mode = "await", !.flight = P,
                            !.expect = Expected(m, P, seed)]
  <2>1. Attempt(m, P, seed)
          = [[m EXCEPT !.aired = [f \in Frame |-> IF f \in P THEN @[f] + 1 ELSE @[f]]]
               EXCEPT !.mode = "await", !.flight = P,
                      !.expect = Expected(m, P, seed)]
    BY <1>11 DEF Attempt
  <2>2. [m EXCEPT !.aired = [f \in Frame |-> IF f \in P THEN @[f] + 1 ELSE @[f]]]
          = [m EXCEPT !.aired = aired]
    BY <1>1 DEF MacRecord, aired
  <2>3. Attempt(m, P, seed) = r
    BY <1>1, <2>1, <2>2 DEF MacRecord
  <2>4. /\ Expected(m, P, seed) \in Expectation
        /\ Expected(m, P, seed).type \notin {"none", "cts"}
    BY <1>1, <1>2, <1>11, ExpectedTyped
  <2>5. /\ r \in MacRecord
        /\ r.mode = "await" /\ r.flight = P /\ r.expect = Expected(m, P, seed)
        /\ r.queue = m.queue /\ r.batch = m.batch /\ r.outcome = m.outcome
        /\ r.retries = m.retries /\ r.aired = aired
    BY <1>1, <1>2, <1>6, <2>4 DEF MacRecord
  <2> HIDE DEF r
  <2>6. ModeInv(r)
    BY <1>3, <1>11, <2>4, <2>5 DEF ModeInv
  <2>7. HoldInv(r)
    BY <1>1, <2>5 DEF HoldInv, Held
  <2>8. BudgetInv(r, r.flight)
    <3> SUFFICES ASSUME NEW f \in Frame
                 PROVE  /\ m.outcome[f] = "new" => aired[f] = 0 /\ m.retries[f] = 0
                        /\ f \in Held(m) =>
                             /\ m.retries[f] <= MaxRetries
                             /\ aired[f] <= m.retries[f] + (IF f \in P THEN 1 ELSE 0)
                        /\ aired[f] <= MaxRetries + 1
      BY <2>5 DEF BudgetInv, Held
    <3>1. f \in P => f \in m.batch
      OBVIOUS
    <3>2. m.aired[f] \in Nat /\ m.retries[f] \in Nat
      BY <1>4
    <3>3. QED
      BY <1>1, <1>3, <1>5, <1>7, <1>8, <3>1, <3>2 DEF BudgetInv
  <2>9. QED
    BY <2>3, <2>5, <2>6, <2>7, <2>8 DEF MacInv
<1>12. CASE P # {} /\ ~(\A f \in m.batch : WantAck(f))
  <2> DEFINE r == [m EXCEPT !.aired = aired, !.outcome = ended("sent")]
  <2>1. Attempt(m, P, seed) = Finish(r)
    BY <1>1, <1>12 DEF Attempt, MacRecord, aired, ended
  <2>2. /\ r \in MacRecord
        /\ r.queue = m.queue /\ r.batch = m.batch
        /\ r.retries = m.retries /\ r.aired = aired
        /\ r.outcome = ended("sent")
    BY <1>1, <1>6, <1>9 DEF MacRecord
  <2> HIDE DEF r
  <2>3. r.queue \cap r.batch = {}
    BY <1>1, <2>2 DEF HoldInv
  <2>4. \A f \in Frame : f \in r.queue <=> r.outcome[f] = "pending"
    BY <1>1, <1>9, <2>2 DEF HoldInv, Held
  <2>5. BudgetInv([r EXCEPT !.batch = {}], {})
    <3> DEFINE q == [r EXCEPT !.batch = {}]
    <3>1. /\ q.batch = {} /\ q.queue = r.queue /\ q.outcome = r.outcome
          /\ q.retries = r.retries /\ q.aired = r.aired
      BY <2>2 DEF MacRecord
    <3> HIDE DEF q
    <3>2. BudgetInv(q, {})
      BY <1>1, <1>2, <1>3, <1>4, <1>7, <1>8, <1>9, <2>2, <2>4, <3>1 DEF BudgetInv, Held, HoldInv
    <3>3. QED
      BY <3>2 DEF q
  <2>6. QED
    BY <2>1, <2>2, <2>3, <2>4, <2>5, FinishInv
<1>13. QED
  BY <1>10, <1>11, <1>12

(* A restarted engine holds nothing; what it aired before still counts. *)
LEMMA RestartedInv ==
  ASSUME NEW m, MacInv(m)
  PROVE  MacInv([NewMac EXCEPT !.aired = m.aired,
                               !.outcome = [f \in Frame |->
                                 IF m.outcome[f] = "pending" THEN "lost"
                                                             ELSE m.outcome[f]]])
<1> DEFINE outcome == [f \in Frame |-> IF m.outcome[f] = "pending" THEN "lost"
                                                               ELSE m.outcome[f]]
           r == [NewMac EXCEPT !.aired = m.aired, !.outcome = outcome]
<1>1. m \in MacRecord /\ HoldInv(m) /\ BudgetInv(m, m.flight)
  BY DEF MacInv
<1>2. NewMac \in MacRecord
  BY NewMacInv DEF MacInv
<1>3. /\ m.aired \in [Frame -> Nat] /\ outcome \in [Frame -> Outcome]
      /\ \A f \in Frame : outcome[f] # "pending"
      /\ \A f \in Frame : outcome[f] = "new" => m.outcome[f] = "new"
  BY <1>1 DEF MacRecord, Outcome
<1> HIDE DEF outcome
<1>4. r \in MacRecord
  BY <1>2, <1>3 DEF MacRecord
<1>5. /\ r.mode = "idle" /\ r.expect = NoResponse
      /\ r.queue = {} /\ r.batch = {} /\ r.flight = {}
      /\ r.outcome = outcome /\ r.retries = [f \in Frame |-> 0]
      /\ r.aired = m.aired
  BY <1>3 DEF NewMac
<1> HIDE DEF r
<1>6. ModeInv(r) /\ HoldInv(r)
  BY <1>3, <1>5 DEF ModeInv, HoldInv, Held, NoResponse
<1>7. BudgetInv(r, r.flight)
  BY <1>1, <1>3, <1>5 DEF BudgetInv, Held
<1>8. QED
  BY <1>4, <1>6, <1>7 DEF MacInv, r, outcome

-----------------------------------------------------------------------------
(* What stations put on the air is a PPDU. *)

LEMMA ControlPpdus ==
  /\ [type |-> "rts"] \in Ppdu
  /\ \A n \in Station : /\ [type |-> "cts", ra |-> PartialAid[n]] \in Ppdu
                         /\ [type |-> "ack", ra |-> n] \in Ppdu
BY ConfigAssumption DEF Ppdu

LEMMA DataPpduTyped ==
  ASSUME NEW m, m \in MacRecord, NEW P \in SUBSET Frame,
         NEW got \in SUBSET P, got # {}, NEW seed \in Seed
  PROVE  DataPpdu(m, P, got, seed) \in Ppdu
<1> DEFINE group == \E f \in P : Dest[f] = Group
           mpdus == {Mpdu(m, f) : f \in got}
           multi == Cardinality(P) > 1
           response == IF \E f \in P : ~WantAck(f) THEN "none"
                       ELSE IF NdpAckOn THEN "ndp" ELSE "normal"
<1>1. mpdus \in (SUBSET MpduRecord) \ {{}}
  BY MpduTyped
<1>2. group \in BOOLEAN /\ multi \in BOOLEAN
  OBVIOUS
<1>3. response \in {"none", "ndp", "normal"}
  OBVIOUS
<1>4. DataPpdu(m, P, got, seed)
        = [type |-> "data", group |-> group, mpdus |-> mpdus, multi |-> multi,
           seed |-> seed, response |-> response]
  BY DEF DataPpdu
<1> HIDE DEF group, mpdus, multi, response
<1>5. QED
  BY <1>1, <1>2, <1>3, <1>4 DEF Ppdu

(* A received data PPDU is answered with well-formed responses. *)
LEMMA DataResponseTyped ==
  ASSUME NEW p \in Ppdu, p.type = "data", NEW s \in Station
  PROVE  DataResponse(p, s) \in Seq(Ppdu)
<1>1. p.mpdus \in (SUBSET MpduRecord) \ {{}} /\ p.seed \in Seed
  BY DEF Ppdu
<1>2. [type |-> "ndpack", id |-> AckId(p.seed, CHOOSE x \in p.mpdus : TRUE)] \in Ppdu
  <2>1. (CHOOSE x \in p.mpdus : TRUE) \in MpduRecord
    BY <1>1
  <2>2. QED
    BY <1>1, <2>1, IdsTyped DEF Ppdu
<1>3. BlockAck(p) \in Ppdu
  <2> DEFINE first == CHOOSE x \in p.mpdus : \A y \in p.mpdus : x.frame <= y.frame
             frames == {x.frame : x \in p.mpdus}
             bits == {d \in 0 .. BitmapBits - 1 :
                        \E x \in p.mpdus : Offset(x.seq, first.seq) = d}
  <2>1. frames \in SUBSET Frame /\ frames # {}
    BY <1>1 DEF MpduRecord
  <2>2. PICK f \in frames : \A g \in frames : f <= g
    BY <2>1, FirstFrame
  <2>3. \E x \in p.mpdus : \A y \in p.mpdus : x.frame <= y.frame
    BY <2>2
  <2>4. first \in p.mpdus
    BY <2>3
  <2>5. first.seq \in SeqNum
    BY <1>1, <2>4 DEF MpduRecord
  <2>6. BlockAck(p) = [type |-> "ndpba", id |-> BlockAckId(p.seed),
                       ssn |-> first.seq, bits |-> bits]
    BY DEF BlockAck
  <2>7. bits \in SUBSET (0 .. BitmapBits - 1)
    OBVIOUS
  <2> HIDE DEF first, bits
  <2>8. QED
    BY <1>1, <2>5, <2>6, <2>7, IdsTyped DEF Ppdu
<1>4. [type |-> "ack", ra |-> s] \in Ppdu
  BY ControlPpdus
<1> DEFINE ndpack == [type |-> "ndpack",
                      id |-> AckId(p.seed, CHOOSE x \in p.mpdus : TRUE)]
           ack == [type |-> "ack", ra |-> s]
<1>5. DataResponse(p, s) \in {<<>>, <<ack>>, <<BlockAck(p)>>, <<ndpack>>}
  BY DEF DataResponse
<1> HIDE DEF ndpack, ack
<1>6. <<ack>> \in Seq(Ppdu) /\ <<BlockAck(p)>> \in Seq(Ppdu) /\ <<ndpack>> \in Seq(Ppdu)
  BY <1>2, <1>3, <1>4 DEF ndpack, ack
<1>7. <<>> \in Seq(Ppdu)
  OBVIOUS
<1>8. QED
  BY <1>5, <1>6, <1>7

LEMMA TransmitTyped ==
  ASSUME air \in [Station -> [Station -> Seq(Ppdu)]], NEW n \in Station,
         NEW p, \A r \in DOMAIN p : p[r] \in Ppdu, Transmit(n, p)
  PROVE  air' \in [Station -> [Station -> Seq(Ppdu)]]
<1> DEFINE row == [r \in Station |-> IF r \in DOMAIN p THEN Append(air[n][r], p[r])
                                                       ELSE air[n][r]]
<1>1. row \in [Station -> Seq(Ppdu)]
  OBVIOUS
<1>2. air' = [air EXCEPT ![n] = row]
  BY DEF Transmit
<1> HIDE DEF row
<1>3. QED
  BY <1>1, <1>2

LEMMA HearsTyped ==
  ASSUME air \in [Station -> [Station -> Seq(Ppdu)]],
         NEW n \in Station, NEW s \in Station, NEW type, Hears(n, s, type)
  PROVE  /\ Head(air[s][n]) \in Ppdu /\ Head(air[s][n]).type = type
         /\ air' \in [Station -> [Station -> Seq(Ppdu)]]
<1>1. air[s][n] \in Seq(Ppdu) /\ air[s][n] # <<>>
  BY DEF Hears
<1>2. Head(air[s][n]) \in Ppdu /\ Tail(air[s][n]) \in Seq(Ppdu)
  BY <1>1
<1>3. QED
  BY <1>2 DEF Hears

(* Queueing responses keeps the invariant. *)
LEMMA RespondInv ==
  ASSUME NEW m, MacInv(m), NEW q \in Seq(Ppdu)
  PROVE  MacInv(Respond(m, q))
<1>1. m.responses \in Seq(Ppdu)
  BY DEF MacInv, MacRecord
<1>2. m.responses \o q \in Seq(Ppdu)
  BY <1>1
<1>3. QED
  BY <1>2, ResponsesInv DEF Respond

-----------------------------------------------------------------------------
(* The inductive invariant of the system. *)
LinkInv ==
  /\ EngineTypeOK
  /\ \A n \in Station : MacInv(mac[n])

LEMMA LinkInvInit == Init => LinkInv
<1> SUFFICES ASSUME Init PROVE LinkInv
  OBVIOUS
<1>1. NewMac \in MacRecord
  BY NewMacInv DEF MacInv
<1>2. EngineTypeOK
  BY <1>1 DEF Init, EngineTypeOK
<1>3. \A n \in Station : MacInv(mac[n])
  BY NewMacInv DEF Init
<1>4. QED
  BY <1>2, <1>3 DEF LinkInv

(* A step that replaces one station's record by one that satisfies MacInv, *)
(* and puts only PPDUs on the air, keeps the invariant.                    *)
LEMMA OneMacStep ==
  ASSUME LinkInv, NEW n \in Station, NEW r, MacInv(r),
         mac' = [mac EXCEPT ![n] = r],
         air' \in [Station -> [Station -> Seq(Ppdu)]],
         given' \in [Station -> [Frame -> Nat]]
  PROVE  LinkInv'
<1>1. mac \in [Station -> MacRecord] /\ r \in MacRecord
  BY DEF LinkInv, EngineTypeOK, MacInv
<1>2. EngineTypeOK'
  BY <1>1 DEF EngineTypeOK
<1>3. ASSUME NEW k \in Station PROVE MacInv(mac'[k])
  <2>1. mac'[k] = IF k = n THEN r ELSE mac[k]
    BY <1>1
  <2>2. QED
    BY <2>1 DEF LinkInv
<1>4. QED
  BY <1>2, <1>3 DEF LinkInv

LEMMA LinkInvStep == LinkInv /\ [Next \/ \E n \in Station : Restart(n)]_vars => LinkInv'
<1> SUFFICES ASSUME LinkInv, [Next \/ \E n \in Station : Restart(n)]_vars
             PROVE  LinkInv'
  OBVIOUS
<1>1. /\ mac \in [Station -> MacRecord]
      /\ air \in [Station -> [Station -> Seq(Ppdu)]]
      /\ given \in [Station -> [Frame -> Nat]]
      /\ \A n \in Station : MacInv(mac[n])
  BY DEF LinkInv, EngineTypeOK
<1>2. ASSUME NEW n \in Station, Offer(n) PROVE LinkInv'
  <2>1. PICK f \in Frame : /\ mac[n].outcome[f] = "new"
                           /\ mac' = [mac EXCEPT ![n] = EnqueueEth(mac[n], f)]
                           /\ UNCHANGED <<air, given>>
    BY <1>2, <1>1 DEF Offer
  <2>2. MacInv(EnqueueEth(mac[n], f))
    BY <1>1, <2>1, EnqueueInv
  <2>3. QED
    BY <1>1, <2>1, <2>2, OneMacStep
<1>3. ASSUME NEW n \in Station, PollResponse(n) PROVE LinkInv'
  <2> DEFINE r == [mac[n] EXCEPT !.responses = Tail(mac[n].responses)]
             p == Head(mac[n].responses)
  <2>1. mac[n].responses \in Seq(Ppdu) /\ mac[n].responses # <<>>
    BY <1>1, <1>3 DEF PollResponse, MacRecord
  <2>2. p \in Ppdu /\ Tail(mac[n].responses) \in Seq(Ppdu)
    BY <2>1
  <2>3. MacInv(r)
    BY <1>1, <2>2, ResponsesInv
  <2>4. mac' = [mac EXCEPT ![n] = r] /\ UNCHANGED given
    BY <1>1, <1>3 DEF PollResponse
  <2>5. PICK H \in SUBSET Concerned(n, p) : Transmit(n, [k \in H |-> p])
    BY <1>3 DEF PollResponse
  <2>6. \A q \in DOMAIN [k \in H |-> p] : [k \in H |-> p][q] \in Ppdu
    BY <2>2
  <2> HIDE DEF r, p
  <2>7. air' \in [Station -> [Station -> Seq(Ppdu)]]
    BY <1>1, <2>5, <2>6, TransmitTyped
  <2>8. QED
    BY <1>1, <2>3, <2>4, <2>7, OneMacStep
<1>4. ASSUME NEW n \in Station, PollTimeout(n) PROVE LinkInv'
  <2>1. /\ mac' = [mac EXCEPT ![n] = PullBatch(FailAttempt(mac[n]))]
        /\ UNCHANGED <<air, given>>
    BY <1>1, <1>4 DEF PollTimeout
  <2>2. MacInv(PullBatch(FailAttempt(mac[n])))
    BY <1>1, FailInv, PullBatchInv
  <2>3. QED
    BY <1>1, <2>1, <2>2, OneMacStep
<1>5. ASSUME NEW n \in Station, PollPull(n) PROVE LinkInv'
  <2>1. /\ mac' = [mac EXCEPT ![n] = PullBatch(mac[n])]
        /\ UNCHANGED <<air, given>>
    BY <1>1, <1>5 DEF PollPull
  <2>2. MacInv(PullBatch(mac[n]))
    BY <1>1, PullBatchInv
  <2>3. QED
    BY <1>1, <2>1, <2>2, OneMacStep
<1>6. ASSUME NEW n \in Station, PollRts(n) PROVE LinkInv'
  <2>1. /\ mac' = [mac EXCEPT ![n] = AwaitCts(mac[n])]
        /\ mac[n].mode = "backoff" /\ UNCHANGED given
    BY <1>1, <1>6 DEF PollRts
  <2>2. MacInv(AwaitCts(mac[n]))
    BY <1>1, <2>1, AwaitCtsInv
  <2>3. PICK H : Transmit(n, [k \in H |-> [type |-> "rts"]])
    BY <1>6 DEF PollRts
  <2>4. \A q \in DOMAIN [k \in H |-> [type |-> "rts"]] :
          [k \in H |-> [type |-> "rts"]][q] \in Ppdu
    BY ControlPpdus
  <2>5. air' \in [Station -> [Station -> Seq(Ppdu)]]
    BY <1>1, <2>3, <2>4, TransmitTyped
  <2>6. QED
    BY <1>1, <2>1, <2>2, <2>5, OneMacStep
<1>7. ASSUME NEW n \in Station, PollData(n) PROVE LinkInv'
  <2> DEFINE m == mac[n]
  <2>1. PICK c \in Choice, seed \in Seed :
          LET P == PlanAttempt(m.batch, c)
              audience == IF \E f \in P : Dest[f] = Group THEN Station \ {n}
                          ELSE {Dest[f] : f \in P}
          IN /\ \E got \in [audience -> SUBSET P] :
                  Transmit(n, [r \in {s \in audience : got[s] # {}} |->
                                 DataPpdu(m, P, got[r], seed)])
             /\ mac' = [mac EXCEPT ![n] = Attempt(@, P, seed)]
    BY <1>7 DEF PollData
  <2> DEFINE P == PlanAttempt(m.batch, c)
             audience == IF \E f \in P : Dest[f] = Group THEN Station \ {n}
                         ELSE {Dest[f] : f \in P}
  <2>2. m \in MacRecord /\ m.batch \in SUBSET Frame /\ m.mode = "backoff"
    BY <1>1, <1>7 DEF PollData, MacRecord
  <2>3. P \in SUBSET m.batch /\ P \in SUBSET Frame
    BY <2>2, PlanIsPrefix
  <2>4. mac' = [mac EXCEPT ![n] = Attempt(mac[n], P, seed)] /\ UNCHANGED given
    BY <1>1, <1>7, <2>1 DEF PollData
  <2>5. MacInv(Attempt(mac[n], P, seed))
    BY <1>1, <2>2, <2>3, AttemptInv
  <2>6. PICK got \in [audience -> SUBSET P] :
          Transmit(n, [r \in {s \in audience : got[s] # {}} |->
                         DataPpdu(m, P, got[r], seed)])
    BY <2>1
  <2> DEFINE heard == {s \in audience : got[s] # {}}
             p == [r \in heard |-> DataPpdu(m, P, got[r], seed)]
  <2>7. ASSUME NEW r \in heard PROVE p[r] \in Ppdu
    <3>1. got[r] \in SUBSET P /\ got[r] # {} /\ p[r] = DataPpdu(m, P, got[r], seed)
      BY <2>6
    <3> HIDE DEF P, m, p
    <3>2. QED
      BY <2>2, <2>3, <3>1, DataPpduTyped
  <2>8. DOMAIN p = heard /\ Transmit(n, p)
    BY <2>6
  <2> HIDE DEF p, heard, P, m
  <2>9. air' \in [Station -> [Station -> Seq(Ppdu)]]
    BY <1>1, <2>7, <2>8, TransmitTyped
  <2>10. QED
    BY <1>1, <2>4, <2>5, <2>9, OneMacStep
<1>8. ASSUME NEW n \in Station, NEW s \in Station, Receive(n, s) PROVE LinkInv'
  <2> DEFINE p == Head(air[s][n])
  <2>1. CASE ReceiveData(n, s)
    <3> DEFINE d == Deduplicate(dedup[n][s], p.mpdus)
               row == [f \in Frame |-> IF f \in d.fresh THEN given[n][f] + 1
                                                        ELSE given[n][f]]
    <3>1. p \in Ppdu /\ p.type = "data"
          /\ air' \in [Station -> [Station -> Seq(Ppdu)]]
      BY <1>1, <2>1, HearsTyped DEF ReceiveData
    <3>2. mac' = [mac EXCEPT ![n] = Respond(mac[n], DataResponse(p, s))]
      BY <1>1, <2>1 DEF ReceiveData
    <3>3. given' = [given EXCEPT ![n] = row]
      BY <1>1, <2>1 DEF ReceiveData
    <3> HIDE DEF p, d
    <3>4. MacInv(Respond(mac[n], DataResponse(p, s)))
      BY <1>1, <3>1, DataResponseTyped, RespondInv
    <3>5. row \in [Frame -> Nat]
      BY <1>1
    <3> HIDE DEF row
    <3>6. given' \in [Station -> [Frame -> Nat]]
      BY <1>1, <3>3, <3>5
    <3>7. QED
      BY <1>1, <3>1, <3>2, <3>4, <3>6, OneMacStep
  <2>2. CASE ReceiveRts(n, s)
    <3>1. air' \in [Station -> [Station -> Seq(Ppdu)]]
      BY <1>1, <2>2, HearsTyped DEF ReceiveRts
    <3> DEFINE q == <<[type |-> "cts", ra |-> PartialAid[s]]>>
    <3>2. mac' = [mac EXCEPT ![n] = Respond(mac[n], q)] /\ UNCHANGED given
      BY <1>1, <2>2 DEF ReceiveRts
    <3>3. q \in Seq(Ppdu)
      <4> DEFINE cts == [type |-> "cts", ra |-> PartialAid[s]]
      <4>1. cts \in Ppdu
        BY ControlPpdus
      <4> HIDE DEF cts
      <4>2. <<cts>> \in Seq(Ppdu)
        BY <4>1
      <4>3. QED
        BY <4>2 DEF cts
    <3> HIDE DEF q
    <3>4. MacInv(Respond(mac[n], q))
      BY <1>1, <3>3, RespondInv
    <3>5. QED
      BY <1>1, <3>1, <3>2, <3>4, OneMacStep
  <2>3. CASE ReceiveNdpAck(n, s)
    <3>1. air' \in [Station -> [Station -> Seq(Ppdu)]]
      BY <1>1, <2>3, HearsTyped DEF ReceiveNdpAck
    <3>2. mac' = [mac EXCEPT ![n] = OnNdpAck(mac[n], p)] /\ UNCHANGED given
      BY <1>1, <2>3 DEF ReceiveNdpAck
    <3>3. QED
      BY <1>1, <3>1, <3>2, OnResponseInv, OneMacStep
  <2>4. CASE ReceiveBlockAck(n, s)
    <3>1. air' \in [Station -> [Station -> Seq(Ppdu)]]
      BY <1>1, <2>4, HearsTyped DEF ReceiveBlockAck
    <3>2. mac' = [mac EXCEPT ![n] = OnBlockAck(mac[n], p)] /\ UNCHANGED given
      BY <1>1, <2>4 DEF ReceiveBlockAck
    <3>3. QED
      BY <1>1, <3>1, <3>2, OnResponseInv, OneMacStep
  <2>5. CASE ReceiveAck(n, s)
    <3>1. air' \in [Station -> [Station -> Seq(Ppdu)]]
      BY <1>1, <2>5, HearsTyped DEF ReceiveAck
    <3>2. mac' = [mac EXCEPT ![n] = OnAck(mac[n])] /\ UNCHANGED given
      BY <1>1, <2>5 DEF ReceiveAck
    <3>3. QED
      BY <1>1, <3>1, <3>2, OnResponseInv, OneMacStep
  <2>6. CASE ReceiveCts(n, s)
    <3>1. air' \in [Station -> [Station -> Seq(Ppdu)]]
      BY <1>1, <2>6, HearsTyped DEF ReceiveCts
    <3>2. mac' = [mac EXCEPT ![n] = OnCts(mac[n])] /\ UNCHANGED given
      BY <1>1, <2>6 DEF ReceiveCts
    <3>3. QED
      BY <1>1, <3>1, <3>2, CtsInv, OneMacStep
  <2>7. QED
    BY <1>8, <2>1, <2>2, <2>3, <2>4, <2>5, <2>6 DEF Receive
<1>9. ASSUME NEW n \in Station, Restart(n) PROVE LinkInv'
  <2>1. mac' = [mac EXCEPT ![n] =
                  [NewMac EXCEPT !.aired = mac[n].aired,
                                 !.outcome = [f \in Frame |->
                                   IF mac[n].outcome[f] = "pending" THEN "lost"
                                   ELSE mac[n].outcome[f]]]]
        /\ UNCHANGED <<air, given>>
    BY <1>9 DEF Restart
  <2>2. QED
    BY <1>1, <2>1, RestartedInv, OneMacStep
<1>10. CASE UNCHANGED vars
  BY <1>10 DEF vars, LinkInv, EngineTypeOK
<1>11. QED
  BY <1>2, <1>3, <1>4, <1>5, <1>6, <1>7, <1>8, <1>9, <1>10 DEF Next, Quiescent

-----------------------------------------------------------------------------
(* The theorems. *)

(* The invariant holds of every behaviour, restarts of engines included.   *)
THEOREM LinkInvariant == RestartSpec => []LinkInv
BY LinkInvInit, LinkInvStep, PTL DEF RestartSpec

(* A run without restarts is one with restarts that did not happen.        *)
LEMMA NoRestart == Spec => RestartSpec
<1>1. [Next]_vars => [Next \/ \E n \in Station : Restart(n)]_vars
  OBVIOUS
<1>2. QED
  BY <1>1, PTL DEF Spec, RestartSpec

(* Every handler keeps the engine's state well formed: what it queues, has *)
(* in flight, waits for and puts on the air.                               *)
THEOREM EngineTypesHold == RestartSpec => []EngineTypeOK
<1>1. LinkInv => EngineTypeOK
  BY DEF LinkInv
<1>2. QED
  BY <1>1, LinkInvariant, PTL

(* `poll` never meets a backoff without a batch, and an engine is never    *)
(* left with a batch and nothing to do about it.                           *)
THEOREM BackoffHasBatch == RestartSpec => []BackoffImpliesCur
<1>1. LinkInv => BackoffImpliesCur
  BY DEF LinkInv, MacInv, ModeInv, BackoffImpliesCur
<1>2. QED
  BY <1>1, LinkInvariant, PTL

(* A response, whenever it arrives, resolves MPDUs of the current batch    *)
(* that are on the air, or nothing.                                        *)
THEOREM FlightIsOfBatch == RestartSpec => []FlightIsAwaited
<1>1. LinkInv => FlightIsAwaited
  BY DEF LinkInv, MacInv, ModeInv, FlightIsAwaited
<1>2. QED
  BY <1>1, LinkInvariant, PTL

(* No frame is lost track of, reported twice or held twice by its engine.  *)
THEOREM FramesAreConserved == RestartSpec => []FrameConservation
<1>1. LinkInv => FrameConservation
  BY DEF LinkInv, MacInv, HoldInv, Held, FrameConservation
<1>2. QED
  BY <1>1, LinkInvariant, PTL

(* However attempts, lost RTSs, partial acknowledgments, timeouts and      *)
(* restarts interleave, a frame is aired at most MaxRetries + 1 times.     *)
THEOREM AirtimeIsBounded == RestartSpec => []RetryBudget
<1>1. ASSUME LinkInv PROVE RetryBudget
  <2>1. ASSUME NEW f \in Frame PROVE mac[Origin[f]].aired[f] <= MaxRetries + 1
    <3>1. Origin[f] \in Station
      BY FrameAssumption
    <3>2. QED
      BY <1>1, <3>1 DEF LinkInv, MacInv, BudgetInv
  <2>2. QED
    BY <2>1 DEF RetryBudget
<1>2. QED
  BY <1>1, LinkInvariant, PTL

(* All of it for an engine that is never restarted. *)
COROLLARY EngineIsSafe ==
  Spec => [](/\ EngineTypeOK /\ BackoffImpliesCur /\ FlightIsAwaited
             /\ FrameConservation /\ RetryBudget)
BY NoRestart, EngineTypesHold, BackoffHasBatch, FlightIsOfBatch,
   FramesAreConserved, AirtimeIsBounded, PTL

-----------------------------------------------------------------------------
(* What is delivered.                                                      *)

(* The frames of a PPDU.                                                   *)
Frames(p) == IF p.type = "data" THEN {x.frame : x \in p.mpdus} ELSE {}

(* Frames pulled from the queue at some time.                              *)
Sent(m) == {f \in Frame : f \notin m.queue /\ m.outcome[f] \notin {"new", "refused"}}

(* A station's record: it holds its own host's frames only, which are      *)
(* numbered in the order offered, queued and sent; all fit at the floor,   *)
(* and those of a batch have one destination.  Responses hold no frames.   *)
OwnInv(m, n) == \A f \in Frame : m.outcome[f] # "new" => Origin[f] = n
OrderInv(m, n) ==
  /\ \A f, g \in Frame :
       (m.outcome[f] # "new" /\ m.outcome[g] = "new" /\ Origin[g] = n) => f < g
  /\ \A f \in Sent(m), g \in m.queue : f < g
FloorInv(m) == \A f \in Held(m) : Fits({f}, Floor)
BuildInv(m) == FloorInv(m) /\ \A f \in Frame : m.outcome[f] # "unbuildable"
DestInv(m) == \A f, g \in m.batch : Dest[f] = Dest[g]
ReplyInv(m) == \A i \in 1 .. Len(m.responses) : m.responses[i].type # "data"
StationInv(m, n) ==
  OwnInv(m, n) /\ OrderInv(m, n) /\ BuildInv(m) /\ DestInv(m) /\ ReplyInv(m)

(* What is on the air from s to n was sent by s with the sequence number   *)
(* it still has, and is meant for n.                                       *)
MpduInv(x, m, s, n) ==
  /\ x \in MpduRecord /\ x.frame \in Sent(m) /\ x.seq = m.seqOf[x.frame]
  /\ s # n /\ Dest[x.frame] \in {n, Group}
PpduInv(p, m, s, n) ==
  p.type = "data" => /\ IsFiniteSet(p.mpdus)
                     /\ \A x \in p.mpdus : MpduInv(x, m, s, n)
LineInv(line, m, s, n) ==
  /\ line \in Seq(Ppdu)
  /\ \A i \in 1 .. Len(line) : PpduInv(line[i], m, s, n)

(* A receiver remembers different numbers, no more than its ring holds.    *)
RingInv(ring) ==
  /\ ring \in Seq(SeqNum) /\ Len(ring) <= DedupDepth
  /\ \A i, j \in 1 .. Len(ring) : i # j => ring[i] # ring[j]

(* A host has a frame at most once, from the air, and only if meant to.    *)
GivenInv(count, m, s, n) ==
  \A f \in Frame : Origin[f] = s =>
    /\ count[f] \in {0, 1}
    /\ count[f] = 1 => f \in Sent(m) /\ s # n /\ Dest[f] \in {n, Group}

-----------------------------------------------------------------------------
(* B is the batch of a frame f that may reach its receiver, perhaps again. *)

Coming(batch, line, f) == f \in batch \/ \E k \in 1 .. Len(line) : f \in Frames(line[k])

(* What f may still follow on the line, from its first copy on, is of its  *)
(* batch; and so is every later frame.                                     *)
LineOf(batch, line, count, f, B) ==
  \A i \in 1 .. Len(line) :
    (f \in batch \/ \E k \in i .. Len(line) : f \in Frames(line[k])) =>
      \A g \in Frames(line[i]) :
        (count[f] > 0 \/ f < g \/ \E j \in 1 .. i : f \in Frames(line[j])) => g \in B

(* The ring remembers f, and since then nothing but its batch.             *)
RingOf(ring, seqOf, f, B) ==
  \E e \in 1 .. Len(ring) :
    /\ ring[e] = seqOf[f]
    /\ \A j \in e + 1 .. Len(ring) : \E g \in B : ring[j] = seqOf[g]

(* Frames of s that n has got before f although they come after it.        *)
AheadOf(count, s, f) == {g \in Frame : f < g /\ Origin[g] = s /\ count[g] > 0}

BatchOf(m, line, count, ring, s, f, B) ==
  /\ B \subseteq Sent(m) /\ f \in B /\ Cardinality(B) <= MaxAmpdu
  /\ f \in m.batch => m.batch \subseteq B
  /\ LineOf(m.batch, line, count, f, B)
  /\ count[f] > 0 => RingOf(ring, m.seqOf, f, B)
  /\ AheadOf(count, s, f) \subseteq B

TogetherInv(m, line, count, ring, s) ==
  \A f \in Frame : Coming(m.batch, line, f) =>
    \E B \in SUBSET Frame : BatchOf(m, line, count, ring, s, f, B)

(* All of it from s to n.                                                  *)
PairInv(m, line, count, ring, s, n) ==
  /\ LineInv(line, m, s, n) /\ RingInv(ring) /\ GivenInv(count, m, s, n)
  /\ TogetherInv(m, line, count, ring, s)

DeliveryInv ==
  /\ LinkInv
  /\ dedup \in [Station -> [Station -> Seq(SeqNum)]]
  /\ \A s \in Station : StationInv(mac[s], s)
  /\ \A s, n \in Station : PairInv(mac[s], air[s][n], given[n], dedup[n][s], s, n)

-----------------------------------------------------------------------------
(* Naturals and finite sets.                                               *)

(* A set that holds 0 and the successor of each of its members is Nat.     *)
LEMMA SetInduction ==
  ASSUME NEW T \in SUBSET Nat, 0 \in T, \A k \in T : k + 1 \in T
  PROVE  T = Nat
<1>1. SUFFICES ASSUME Nat \ T # {} PROVE FALSE
  OBVIOUS
<1>2. PICK k \in Nat \ T : \A j \in Nat \ T : ~(<<j, k>> \in OpToRel(<, Nat))
  BY <1>1, WFMin, NatLessThanWellFounded
<1>3. k \in Nat /\ k # 0 /\ k - 1 \in Nat
  OBVIOUS
<1>4. k - 1 \in T
  <2>1. <<k - 1, k>> \in OpToRel(<, Nat)
    BY <1>3 DEF OpToRel
  <2>2. QED
    BY <1>2, <1>3, <2>1
<1>5. k - 1 + 1 = k
  BY <1>3
<1>6. QED
  BY <1>4, <1>5

(* A nonempty finite set of naturals has a last member.                    *)
LEMMA LastMember ==
  ASSUME NEW T \in SUBSET Nat, IsFiniteSet(T), T # {}
  PROVE  \E x \in T : \A y \in T : y <= x
<1> DEFINE Above(x) == {y \in T : x < y}
           Tails == {Above(x) : x \in T}
<1>1. Tails \subseteq FiniteSubsetsOf(T) /\ Tails # {}
  <2>1. Tails \subseteq SUBSET T /\ Tails # {}
    OBVIOUS
  <2>2. QED
    BY <2>1, FS_FiniteSubsetsOfFinite
<1>2. PICK U \in Tails : \A V \in Tails : ~(<<V, U>> \in StrictSubsetOrdering(T))
  BY <1>1, WFMin, FS_StrictSubsetOrderingWellFounded
<1>3. PICK x \in T : U = Above(x)
  OBVIOUS
<1>4. ASSUME NEW y \in T, x < y PROVE FALSE
  <2>1. Above(y) \subseteq Above(x) /\ y \in Above(x) /\ y \notin Above(y)
    <3>1. x \in Nat /\ y \in Nat /\ \A z \in T : z \in Nat
      OBVIOUS
    <3>2. \A z \in T : y < z => x < z
      BY <1>4, <3>1
    <3>3. ~(y < y)
      BY <3>1
    <3>4. QED
      BY <1>4, <3>2, <3>3
  <2>2. Above(y) \in Tails /\ Above(y) \in SUBSET T /\ Above(x) \in SUBSET T
    OBVIOUS
  <2>3. <<Above(y), Above(x)>> \in StrictSubsetOrdering(T)
    BY <2>1, <2>2 DEF StrictSubsetOrdering
  <2>4. QED
    BY <1>2, <1>3, <2>2, <2>3
<1>5. QED
  BY <1>4

(* As many members as there are below the last one, and that one.          *)
LEMMA FewBelow ==
  ASSUME NEW T \in SUBSET Nat, IsFiniteSet(T), NEW k \in Nat,
         \A x \in T : Cardinality({y \in T : y < x}) < k
  PROVE  Cardinality(T) <= k
<1>1. CASE T = {}
  BY <1>1, FS_EmptySet
<1>2. CASE T # {}
  <2>1. PICK x \in T : \A y \in T : y <= x
    BY <1>2, LastMember
  <2>2. {y \in T : y < x} = T \ {x}
    <3>1. x \in Nat /\ \A y \in T : y \in Nat
      OBVIOUS
    <3>2. \A y \in T : y < x <=> y # x
      BY <2>1, <3>1
    <3>3. QED
      BY <3>2
  <2>3. Cardinality(T \ {x}) = Cardinality(T) - 1 /\ Cardinality(T) \in Nat
    BY FS_RemoveElement, FS_CardinalityType
  <2>4. Cardinality(T) - 1 < k
    BY <2>2, <2>3
  <2>5. QED
    BY <2>3, <2>4
<1>3. QED
  BY <1>1, <1>2

-----------------------------------------------------------------------------
(* Deduplication, MPDU by MPDU.                                            *)

LEMMA LatestIsMember ==
  ASSUME NEW S, IsFiniteSet(S), S # {}, \A x \in S : x.frame \in Nat
  PROVE  Latest(S) \in S
<1> DEFINE T == {x.frame : x \in S}
           F == [x \in S |-> x.frame]
<1>1. F \in Surjection(S, T)
  BY DEF Surjection
<1>2. IsFiniteSet(T)
  <2> HIDE DEF F, T
  <2>1. QED
    BY <1>1, FS_Surjection
<1>3. T \in SUBSET Nat /\ T # {}
  OBVIOUS
<1>4. PICK t \in T : \A u \in T : u <= t
  <2> HIDE DEF T
  <2>1. QED
    BY <1>2, <1>3, LastMember
<1>5. PICK x \in S : t = x.frame
  OBVIOUS
<1>6. \A y \in S : y.frame <= x.frame
  BY <1>4, <1>5
<1>7. QED
  BY <1>6 DEF Latest

(* What has been noted of the MPDUs of S, when ring was there before.      *)
IsNoted(h, ring, mpdus) ==
  h = [S \in SUBSET mpdus |->
         IF S = {} THEN [ring |-> ring, fresh |-> {}]
         ELSE NoteDuplicate(h[S \ {Latest(S)}], Latest(S))]

LEMMA DeduplicateIsNoted ==
  ASSUME NEW ring, NEW mpdus
  PROVE  Deduplicate(ring, mpdus) = (CHOOSE h : IsNoted(h, ring, mpdus))[mpdus]
BY DEF Deduplicate, IsNoted

(* The recursion of Deduplicate has a solution.                            *)
LEMMA NotedExists ==
  ASSUME NEW ring, NEW M, IsFiniteSet(M), \A x \in M : x.frame \in Nat
  PROVE  \E h : IsNoted(h, ring, M)
<1> DEFINE Base == [ring |-> ring, fresh |-> {}]
           Less(S) == S \ {Latest(S)}
           Upto(h, k) == \A S \in SUBSET M : Cardinality(S) <= k =>
                           h[S] = IF S = {} THEN Base ELSE NoteDuplicate(h[Less(S)], Latest(S))
           Depths == {k \in Nat : \E h : Upto(h, k)}
<1>1. \A S \in SUBSET M : /\ IsFiniteSet(S) /\ Cardinality(S) \in Nat
                          /\ Cardinality(S) <= Cardinality(M)
                          /\ (Cardinality(S) = 0 <=> S = {})
  BY FS_Subset, FS_CardinalityType, FS_EmptySet
<1>2. ASSUME NEW S \in SUBSET M, S # {}
      PROVE  Less(S) \in SUBSET M /\ Cardinality(Less(S)) = Cardinality(S) - 1
  <2>1. Latest(S) \in S
    BY <1>1, <1>2, LatestIsMember
  <2>2. QED
    BY <1>1, <2>1, FS_RemoveElement
<1>3. 0 \in Depths
  <2> DEFINE h == [S \in SUBSET M |-> Base]
  <2>1. Upto(h, 0)
    <3> SUFFICES ASSUME NEW S \in SUBSET M, Cardinality(S) <= 0 PROVE S = {}
      OBVIOUS
    <3>1. QED
      BY <1>1
  <2>2. QED
    BY <2>1
<1>4. ASSUME NEW k \in Depths PROVE k + 1 \in Depths
  <2>1. PICK h : Upto(h, k)
    OBVIOUS
  <2>2. k \in Nat
    OBVIOUS
  <2> DEFINE j == [S \in SUBSET M |-> IF Cardinality(S) <= k THEN h[S]
                                     ELSE NoteDuplicate(h[Less(S)], Latest(S))]
  <2>3. Upto(j, k + 1)
    <3> SUFFICES ASSUME NEW S \in SUBSET M, Cardinality(S) <= k + 1
                 PROVE  j[S] = IF S = {} THEN Base ELSE NoteDuplicate(j[Less(S)], Latest(S))
      OBVIOUS
    <3>1. CASE S = {}
      <4>1. Cardinality(S) <= k
        BY <1>1, <2>2, <3>1
      <4>2. QED
        BY <2>1, <3>1, <4>1
    <3>2. CASE S # {}
      <4>1. Less(S) \in SUBSET M /\ Cardinality(Less(S)) = Cardinality(S) - 1 /\ Cardinality(S) \in Nat
        BY <1>1, <1>2, <3>2
      <4>2. Cardinality(Less(S)) <= k
        BY <2>2, <4>1
      <4> HIDE DEF Less
      <4>3. j[Less(S)] = h[Less(S)]
        BY <4>1, <4>2
      <4>4. j[S] = NoteDuplicate(h[Less(S)], Latest(S))
        <5>1. CASE Cardinality(S) <= k
          BY <2>1, <3>2, <5>1
        <5>2. CASE ~(Cardinality(S) <= k)
          BY <5>2
        <5>3. QED
          BY <5>1, <5>2
      <4>5. QED
        BY <3>2, <4>3, <4>4
    <3>3. QED
      BY <3>1, <3>2
  <2>4. k + 1 \in Nat
    BY <2>2
  <2>5. QED
    BY <2>3, <2>4
<1>5. Depths = Nat
  <2>1. Depths \in SUBSET Nat
    OBVIOUS
  <2> HIDE DEF Depths
  <2>2. QED
    BY <1>3, <1>4, <2>1, SetInduction
<1>6. PICK h : Upto(h, Cardinality(M))
  BY <1>1, <1>5
<1> DEFINE j == [S \in SUBSET M |-> h[S]]
<1>7. \A S \in SUBSET M : h[S] = IF S = {} THEN Base ELSE NoteDuplicate(h[Less(S)], Latest(S))
  BY <1>1, <1>6
<1>8. ASSUME NEW S \in SUBSET M
      PROVE  j[S] = IF S = {} THEN Base ELSE NoteDuplicate(j[Less(S)], Latest(S))
  <2>1. Less(S) \in SUBSET M
    OBVIOUS
  <2>2. j[S] = h[S] /\ j[Less(S)] = h[Less(S)]
    BY <2>1
  <2>3. QED
    BY <1>7, <2>2
<1>9. j = [S \in SUBSET M |->
             IF S = {} THEN Base ELSE NoteDuplicate(j[Less(S)], Latest(S))]
  <2> DEFINE i == [S \in SUBSET M |->
                     IF S = {} THEN Base ELSE NoteDuplicate(j[Less(S)], Latest(S))]
  <2>1. \A S \in SUBSET M : j[S] = i[S]
    BY <1>8
  <2>2. i = [S \in SUBSET M |-> i[S]] /\ j = [S \in SUBSET M |-> j[S]]
    OBVIOUS
  <2> HIDE DEF i, j
  <2>3. i = j
    BY <2>1, <2>2
  <2>4. QED
    BY <2>3 DEF i
<1>10. QED
  BY <1>9 DEF IsNoted

-----------------------------------------------------------------------------
(* The ring of a receiver.                                                 *)

Push(ring, v) ==
  IF Len(Append(ring, v)) > DedupDepth THEN Tail(Append(ring, v)) ELSE Append(ring, v)

(* A new number goes to the end; d is 1 when the oldest makes room for it. *)
LEMMA PushShifts ==
  ASSUME NEW ring, RingInv(ring), NEW v \in SeqNum
  PROVE  /\ Push(ring, v) \in Seq(SeqNum)
         /\ \E d \in {0, 1} :
              /\ Len(Push(ring, v)) = Len(ring) + 1 - d /\ Len(Push(ring, v)) <= DedupDepth
              /\ d = 1 => Len(ring) = DedupDepth
              /\ \A i \in 1 .. Len(Push(ring, v)) :
                   Push(ring, v)[i] = IF i + d <= Len(ring) THEN ring[i + d] ELSE v
<1> DEFINE q == Append(ring, v)
<1>1. ring \in Seq(SeqNum) /\ Len(ring) \in Nat /\ DedupDepth \in Nat /\ Len(ring) <= DedupDepth
  BY ConfigAssumption DEF RingInv
<1>2. /\ q \in Seq(SeqNum) /\ Len(q) = Len(ring) + 1
      /\ \A i \in 1 .. Len(ring) : q[i] = ring[i]
      /\ q[Len(ring) + 1] = v
  BY <1>1, AppendProperties
<1> HIDE DEF q
<1>3. \A i \in 1 .. Len(ring) + 1 : q[i] = IF i <= Len(ring) THEN ring[i] ELSE v
  BY <1>1, <1>2
<1>4. CASE Len(q) > DedupDepth
  <2>1. Push(ring, v) = Tail(q)
    BY <1>4 DEF Push, q
  <2>2. q # <<>>
    BY <1>1, <1>2
  <2>3. /\ Tail(q) \in Seq(SeqNum) /\ Len(Tail(q)) = Len(q) - 1
        /\ \A i \in 1 .. Len(Tail(q)) : Tail(q)[i] = q[i + 1]
    BY <1>2, <2>2, HeadTailProperties
  <2> DEFINE p == Tail(q)
  <2> HIDE DEF p
  <2>4. Len(p) = Len(ring) + 1 - 1 /\ Len(p) <= DedupDepth /\ Len(ring) = DedupDepth
    BY <1>1, <1>2, <1>4, <2>3 DEF p
  <2>5. \A i \in 1 .. Len(p) : p[i] = IF i + 1 <= Len(ring) THEN ring[i + 1] ELSE v
    BY <1>1, <1>3, <2>3, <2>4 DEF p
  <2>6. QED
    BY <2>1, <2>3, <2>4, <2>5 DEF p
<1>5. CASE ~(Len(q) > DedupDepth)
  <2>1. Push(ring, v) = q
    BY <1>5 DEF Push, q
  <2>2. Len(q) = Len(ring) + 1 - 0 /\ Len(q) <= DedupDepth
    BY <1>1, <1>2, <1>5
  <2>3. \A i \in 1 .. Len(q) : q[i] = IF i + 0 <= Len(ring) THEN ring[i + 0] ELSE v
    BY <1>1, <1>2, <1>3
  <2>4. QED
    BY <1>2, <2>1, <2>2, <2>3
<1>6. QED
  BY <1>4, <1>5

(* Its numbers stay different.                                             *)
LEMMA PushHolds ==
  ASSUME NEW ring, RingInv(ring), NEW v \in SeqNum
  PROVE  ToSet(Push(ring, v)) \subseteq ToSet(ring) \cup {v}
<1>1. PICK d \in {0, 1} :
        /\ Len(Push(ring, v)) = Len(ring) + 1 - d
        /\ \A i \in 1 .. Len(Push(ring, v)) :
             Push(ring, v)[i] = IF i + d <= Len(ring) THEN ring[i + d] ELSE v
  BY PushShifts
<1> DEFINE r == Push(ring, v)
<1>2. /\ r \in Seq(SeqNum) /\ DOMAIN r = 1 .. Len(r) /\ Len(ring) \in Nat
      /\ DOMAIN ring = 1 .. Len(ring)
  BY PushShifts, LenProperties DEF RingInv
<1> HIDE DEF r
<1>3. ASSUME NEW i \in 1 .. Len(r) PROVE r[i] \in ToSet(ring) \cup {v}
  <2>1. i + d <= Len(ring) => i + d \in 1 .. Len(ring)
    BY <1>2
  <2>2. r[i] = IF i + d <= Len(ring) THEN ring[i + d] ELSE v
    BY <1>1 DEF r
  <2>3. QED
    BY <1>2, <2>1, <2>2 DEF ToSet
<1>4. QED
  BY <1>2, <1>3 DEF ToSet, r

LEMMA PushKeepsRing ==
  ASSUME NEW ring, RingInv(ring), NEW v \in SeqNum, \A i \in 1 .. Len(ring) : ring[i] # v
  PROVE  RingInv(Push(ring, v))
<1> DEFINE p == Push(ring, v)
<1>1. Len(ring) \in Nat /\ \A i, j \in 1 .. Len(ring) : i # j => ring[i] # ring[j]
  BY DEF RingInv
<1>2. PICK d \in {0, 1} :
        /\ Len(p) = Len(ring) + 1 - d /\ Len(p) <= DedupDepth
        /\ \A i \in 1 .. Len(p) : p[i] = IF i + d <= Len(ring) THEN ring[i + d] ELSE v
  BY PushShifts
<1>3. p \in Seq(SeqNum)
  BY PushShifts
<1> HIDE DEF p
<1>4. ASSUME NEW i \in 1 .. Len(p), NEW j \in 1 .. Len(p), i # j PROVE p[i] # p[j]
  <2>1. i + d \in 1 .. Len(ring) + 1 /\ j + d \in 1 .. Len(ring) + 1 /\ i + d # j + d
    BY <1>1, <1>2, <1>4
  <2>2. /\ p[i] = IF i + d <= Len(ring) THEN ring[i + d] ELSE v
        /\ p[j] = IF j + d <= Len(ring) THEN ring[j + d] ELSE v
    BY <1>2
  <2>3. CASE i + d <= Len(ring) /\ j + d <= Len(ring)
    <3>1. i + d \in 1 .. Len(ring) /\ j + d \in 1 .. Len(ring)
      BY <1>1, <2>1, <2>3
    <3>2. QED
      BY <1>1, <2>1, <2>2, <2>3, <3>1
  <2>4. CASE i + d <= Len(ring) /\ ~(j + d <= Len(ring))
    <3>1. i + d \in 1 .. Len(ring)
      BY <1>1, <2>1, <2>4
    <3>2. QED
      BY <2>2, <2>4, <3>1
  <2>5. CASE ~(i + d <= Len(ring)) /\ j + d <= Len(ring)
    <3>1. j + d \in 1 .. Len(ring)
      BY <1>1, <2>1, <2>5
    <3>2. QED
      BY <2>2, <2>5, <3>1
  <2>6. CASE ~(i + d <= Len(ring)) /\ ~(j + d <= Len(ring))
    BY <1>1, <2>1, <2>6
  <2>7. QED
    BY <2>3, <2>4, <2>5, <2>6
<1>5. QED
  BY <1>2, <1>3, <1>4 DEF RingInv, p

(* The number of f that was just noted is the latest.                      *)
LEMMA PushRemembers ==
  ASSUME NEW ring, RingInv(ring), NEW seqOf, NEW f, seqOf[f] \in SeqNum, NEW B
  PROVE  RingOf(Push(ring, seqOf[f]), seqOf, f, B)
<1> DEFINE v == seqOf[f]
           p == Push(ring, v)
<1>1. PICK d \in {0, 1} :
        /\ Len(p) = Len(ring) + 1 - d
        /\ d = 1 => Len(ring) = DedupDepth
        /\ \A i \in 1 .. Len(p) : p[i] = IF i + d <= Len(ring) THEN ring[i + d] ELSE v
  BY PushShifts
<1>2. Len(ring) \in Nat /\ DedupDepth \in Nat /\ DedupDepth >= 1
  BY ConfigAssumption, DedupAssumption DEF RingInv
<1> HIDE DEF p
<1>3. Len(p) \in 1 .. Len(p) /\ Len(p) + d = Len(ring) + 1
  BY <1>1, <1>2
<1>4. p[Len(p)] = v
  BY <1>1, <1>2, <1>3
<1>5. Len(p) + 1 .. Len(p) = {}
  BY <1>3
<1>6. QED
  BY <1>3, <1>4, <1>5 DEF RingOf, p

(* The number of f is not the one that makes room, while nothing but its   *)
(* batch has come since: DedupDepth is at least a batch.                   *)
LEMMA PushKeeps ==
  ASSUME NEW ring, RingInv(ring), NEW seqOf, NEW B \in SUBSET Frame, NEW f \in B,
         Cardinality(B) <= MaxAmpdu, RingOf(ring, seqOf, f, B),
         NEW g \in B, seqOf[g] \in SeqNum, \A i \in 1 .. Len(ring) : ring[i] # seqOf[g]
  PROVE  RingOf(Push(ring, seqOf[g]), seqOf, f, B)
<1> DEFINE v == seqOf[g]
           p == Push(ring, v)
<1>1. PICK d \in {0, 1} :
        /\ Len(p) = Len(ring) + 1 - d
        /\ d = 1 => Len(ring) = DedupDepth
        /\ \A i \in 1 .. Len(p) : p[i] = IF i + d <= Len(ring) THEN ring[i + d] ELSE v
  BY PushShifts
<1>2. /\ Len(ring) \in Nat /\ DedupDepth \in Nat /\ MaxAmpdu \in Nat /\ MaxAmpdu <= DedupDepth
      /\ \A i, j \in 1 .. Len(ring) : i # j => ring[i] # ring[j]
  BY ConfigAssumption, DedupAssumption DEF RingInv
<1>3. PICK e \in 1 .. Len(ring) :
        /\ ring[e] = seqOf[f]
        /\ \A j \in e + 1 .. Len(ring) : \E h \in B : ring[j] = seqOf[h]
  BY DEF RingOf
<1> HIDE DEF p
<1>5. Len(ring) - e + 1 <= MaxAmpdu - 1
  (* The numbers after e, v included, are those of B without f.            *)
  <2> DEFINE Later == e + 1 .. Len(ring) + 1
             At(j) == IF j <= Len(ring) THEN ring[j] ELSE v
             F == [j \in Later |-> CHOOSE h \in B : At(j) = seqOf[h]]
  <2>1. \A j \in Later : \E h \in B : At(j) = seqOf[h]
    BY <1>2, <1>3
  <2>2. \A j \in Later : F[j] \in B /\ At(j) = seqOf[F[j]]
    BY <2>1
  <2>3. \A j \in Later : At(j) # seqOf[f]
    BY <1>2, <1>3
  <2>4. \A i, j \in Later : i # j => At(i) # At(j)
    BY <1>2, <1>3
  <2>5. F \in [Later -> B \ {f}]
    BY <2>2, <2>3
  <2>6. F \in Injection(Later, B \ {f})
    <3> HIDE DEF F, Later, At
    <3>1. \A i, j \in Later : F[i] = F[j] => i = j
      BY <2>2, <2>4
    <3>2. QED
      BY <2>5, <3>1, Fun_IsInj
  <2>7. IsFiniteSet(B) /\ Cardinality(B) \in Nat
    BY FramesCount
  <2>8. IsFiniteSet(B \ {f}) /\ Cardinality(B \ {f}) = Cardinality(B) - 1
    BY <2>7, FS_RemoveElement
  <2>9. Cardinality(Later) <= Cardinality(B) - 1
    <3> HIDE DEF F, Later
    <3>1. QED
      BY <2>6, <2>8, FS_Injection
  <2>10. Cardinality(Later) = Len(ring) + 1 - (e + 1) + 1
    BY <1>2, <1>3, FS_Interval
  <2>11. QED
    BY <1>2, <1>3, <2>7, <2>9, <2>10
<1>6. e - d \in 1 .. Len(p)
  BY <1>1, <1>2, <1>3, <1>5
<1>7. p[e - d] = seqOf[f]
  BY <1>1, <1>2, <1>3, <1>6
<1>8. ASSUME NEW j \in e - d + 1 .. Len(p) PROVE \E h \in B : p[j] = seqOf[h]
  <2>1. j \in 1 .. Len(p) /\ j + d \in e + 1 .. Len(ring) + 1
    BY <1>1, <1>2, <1>3, <1>6
  <2>2. p[j] = IF j + d <= Len(ring) THEN ring[j + d] ELSE v
    BY <1>1, <2>1
  <2>3. CASE j + d <= Len(ring)
    <3>1. j + d \in e + 1 .. Len(ring)
      BY <1>2, <1>3, <2>1, <2>3
    <3>2. QED
      BY <1>3, <2>2, <2>3, <3>1
  <2>4. CASE ~(j + d <= Len(ring))
    BY <2>2, <2>4
  <2>5. QED
    BY <2>3, <2>4
<1>9. QED
  BY <1>6, <1>7, <1>8 DEF RingOf, p

-----------------------------------------------------------------------------
(* What noting the MPDUs of a PPDU does to the ring.  M are the MPDUs, S   *)
(* those already noted, and d what has become of the ring.                 *)

FramesOf(M) == {x.frame : x \in M}

KeptInv(d, ring, M, seqOf) ==
  \A B \in SUBSET Frame : \A f \in B :
    (Cardinality(B) <= MaxAmpdu /\ FramesOf(M) \subseteq B) =>
      /\ (f \in d.fresh \/ RingOf(ring, seqOf, f, B)) => RingOf(d.ring, seqOf, f, B)
      /\ RingOf(ring, seqOf, f, B) => f \notin d.fresh

(* Numbers noted by the time the MPDUs in S are: those of old and of fresh. *)
Known(d, S, ring) == ToSet(ring) \cup {x.seq : x \in {y \in S : y.frame \in d.fresh}}
HeardInv(d, S, ring) ==
  ToSet(d.ring) \subseteq Known(d, S, ring) /\ \A x \in S : x.seq \in Known(d, S, ring)

NotedInv(d, S, ring, M, seqOf) ==
  /\ RingInv(d.ring) /\ d.fresh \subseteq FramesOf(S) /\ HeardInv(d, S, ring)
  /\ KeptInv(d, ring, M, seqOf)

LEMMA NoteKeeps ==
  ASSUME NEW d, NEW S, NEW ring, NEW M, NEW seqOf, NEW x \in M,
         NotedInv(d, S, ring, M, seqOf),
         x \in MpduRecord, x.seq = seqOf[x.frame]
  PROVE  NotedInv(NoteDuplicate(d, x), S \cup {x}, ring, M, seqOf)
<1> DEFINE g == x.frame
           r == NoteDuplicate(d, x)
<1>1. /\ RingInv(d.ring) /\ d.fresh \subseteq FramesOf(S) /\ HeardInv(d, S, ring)
      /\ KeptInv(d, ring, M, seqOf)
  BY DEF NotedInv
<1>2. d.ring \in Seq(SeqNum) /\ DOMAIN d.ring = 1 .. Len(d.ring)
  BY <1>1, LenProperties DEF RingInv
<1>3. g \in Frame /\ seqOf[g] \in SeqNum /\ g \in FramesOf(M)
  BY DEF MpduRecord, FramesOf
<1>4. CASE x.seq \in ToSet(d.ring)
  <2>1. r = d
    BY <1>4 DEF NoteDuplicate
  <2>2. FramesOf(S) \subseteq FramesOf(S \cup {x})
    BY DEF FramesOf
  <2>3. HeardInv(d, S \cup {x}, ring)
    <3>1. Known(d, S, ring) \subseteq Known(d, S \cup {x}, ring)
      BY DEF Known
    <3>2. QED
      BY <1>1, <1>4, <3>1 DEF HeardInv
  <2>4. QED
    BY <1>1, <2>1, <2>2, <2>3 DEF NotedInv
<1>5. CASE x.seq \notin ToSet(d.ring)
  <2>1. r.ring = Push(d.ring, seqOf[g]) /\ r.fresh = d.fresh \cup {g}
    BY <1>5 DEF NoteDuplicate, Push
  <2>2. \A i \in 1 .. Len(d.ring) : d.ring[i] # seqOf[g]
    BY <1>2, <1>5 DEF ToSet
  <2>3. RingInv(r.ring)
    BY <1>1, <1>3, <2>1, <2>2, PushKeepsRing
  <2>4. r.fresh \subseteq FramesOf(S \cup {x})
    BY <1>1, <2>1 DEF FramesOf
  <2>5. ASSUME NEW B \in SUBSET Frame, NEW f \in B,
               Cardinality(B) <= MaxAmpdu, FramesOf(M) \subseteq B
        PROVE  /\ (f \in r.fresh \/ RingOf(ring, seqOf, f, B)) => RingOf(r.ring, seqOf, f, B)
               /\ RingOf(ring, seqOf, f, B) => f \notin r.fresh
    <3>1. /\ (f \in d.fresh \/ RingOf(ring, seqOf, f, B)) => RingOf(d.ring, seqOf, f, B)
          /\ RingOf(ring, seqOf, f, B) => f \notin d.fresh
      BY <1>1, <2>5 DEF KeptInv
    <3>2. RingOf(d.ring, seqOf, f, B) => RingOf(r.ring, seqOf, f, B)
      <4>1. g \in B
        BY <1>3, <2>5
      <4>2. QED
        BY <1>1, <1>3, <2>1, <2>2, <2>5, <4>1, PushKeeps
    <3>3. f = g => RingOf(r.ring, seqOf, f, B)
      BY <1>1, <1>3, <2>1, PushRemembers
    <3>4. RingOf(d.ring, seqOf, f, B) => f # g
      BY <2>2 DEF RingOf
    <3>5. QED
      BY <2>1, <3>1, <3>2, <3>3, <3>4
  <2>6. KeptInv(r, ring, M, seqOf)
    BY <2>5 DEF KeptInv
  <2>7. HeardInv(r, S \cup {x}, ring)
    <3>1. /\ Known(d, S, ring) \subseteq Known(r, S \cup {x}, ring)
          /\ x.seq \in Known(r, S \cup {x}, ring)
      BY <2>1 DEF Known
    <3>2. ToSet(r.ring) \subseteq ToSet(d.ring) \cup {x.seq}
      BY <1>1, <1>3, <2>1, PushHolds
    <3>3. QED
      BY <1>1, <3>1, <3>2 DEF HeardInv
  <2>8. QED
    BY <2>3, <2>4, <2>6, <2>7 DEF NotedInv
<1>6. QED
  BY <1>4, <1>5

(* A PPDU's MPDUs, all of one batch, keep that batch in the ring, and what *)
(* the ring remembered is not handed over again.                           *)
LEMMA DeduplicateKeeps ==
  ASSUME NEW ring, RingInv(ring), NEW seqOf, NEW M, IsFiniteSet(M),
         \A x \in M : x \in MpduRecord /\ x.seq = seqOf[x.frame]
  PROVE  NotedInv(Deduplicate(ring, M), M, ring, M, seqOf)
<1> DEFINE h == CHOOSE f : IsNoted(f, ring, M)
           Good(S) == NotedInv(h[S], S, ring, M, seqOf)
           Depths == {k \in Nat : \A S \in SUBSET M : Cardinality(S) = k => Good(S)}
<1>1. \A x \in M : x.frame \in Nat
  BY FrameAssumption DEF MpduRecord
<1>2. IsNoted(h, ring, M)
  BY <1>1, NotedExists
<1>3. \A S \in SUBSET M : IsFiniteSet(S) /\ Cardinality(S) \in Nat /\ (Cardinality(S) = 0 <=> S = {})
  BY FS_Subset, FS_CardinalityType, FS_EmptySet
<1> HIDE DEF h
<1>4. h[{}] = [ring |-> ring, fresh |-> {}]
  BY <1>2 DEF IsNoted
<1>5. \A S \in SUBSET M : S # {} => h[S] = NoteDuplicate(h[S \ {Latest(S)}], Latest(S))
  BY <1>2 DEF IsNoted
<1>6. Good({})
  BY <1>4 DEF NotedInv, KeptInv, HeardInv, Known, FramesOf
<1>7. 0 \in Depths
  BY <1>3, <1>6
<1>8. ASSUME NEW k \in Depths PROVE k + 1 \in Depths
  <2>1. k \in Nat /\ k + 1 \in Nat /\ \A S \in SUBSET M : Cardinality(S) = k => Good(S)
    OBVIOUS
  <2>2. ASSUME NEW S \in SUBSET M, Cardinality(S) = k + 1 PROVE Good(S)
    <3> DEFINE x == Latest(S)
               L == S \ {x}
    <3>1. S # {}
      BY <1>3, <2>1, <2>2
    <3>2. x \in S
      BY <1>1, <1>3, <3>1, LatestIsMember
    <3>3. Cardinality(L) = k
      <4>1. Cardinality(L) = Cardinality(S) - 1
        BY <1>3, <3>2, FS_RemoveElement
      <4> HIDE DEF L
      <4>2. QED
        BY <2>1, <2>2, <4>1
    <3>4. Good(L)
      BY <2>1, <3>3
    <3>5. S = L \cup {x} /\ x \in M
      BY <3>2
    <3>6. h[S] = NoteDuplicate(h[L], x)
      BY <1>5, <3>1
    <3> HIDE DEF x, L
    <3>7. NotedInv(NoteDuplicate(h[L], x), L \cup {x}, ring, M, seqOf)
      BY <3>4, <3>5, NoteKeeps
    <3>8. QED
      BY <3>5, <3>6, <3>7
  <2> HIDE DEF Good
  <2>3. QED
    BY <2>1, <2>2
<1>9. Depths = Nat
  <2>1. Depths \in SUBSET Nat
    OBVIOUS
  <2> HIDE DEF Depths
  <2>2. QED
    BY <1>7, <1>8, <2>1, SetInduction
<1>10. Good(M)
  <2>1. Cardinality(M) \in Depths /\ M \in SUBSET M
    BY <1>3, <1>9
  <2> HIDE DEF Good
  <2>2. QED
    BY <2>1
<1>11. QED
  BY <1>10, DeduplicateIsNoted DEF h

-----------------------------------------------------------------------------
(* From s to n: what changes the sender's record, the line and the ring.   *)

(* r is m with frames sent or settled, none of them renumbered.            *)
Follows(m, r) ==
  /\ r.batch \subseteq m.batch /\ Sent(m) \subseteq Sent(r)
  /\ \A f \in Sent(m) : r.seqOf[f] = m.seqOf[f]

LEMMA RingOfSeq ==
  ASSUME NEW ring, NEW old, NEW new, NEW B, NEW f \in B, RingOf(ring, old, f, B),
         \A g \in B : new[g] = old[g]
  PROVE  RingOf(ring, new, f, B)
<1>1. PICK e \in 1 .. Len(ring) :
        ring[e] = old[f] /\ \A j \in e + 1 .. Len(ring) : \E g \in B : ring[j] = old[g]
  BY DEF RingOf
<1>2. ring[e] = new[f] /\ \A j \in e + 1 .. Len(ring) : \E g \in B : ring[j] = new[g]
  BY <1>1
<1>3. QED
  BY <1>2 DEF RingOf

LEMMA LineFollows ==
  ASSUME NEW m, NEW r, Sent(m) \subseteq Sent(r), \A f \in Sent(m) : r.seqOf[f] = m.seqOf[f],
         NEW s, NEW n, NEW line, LineInv(line, m, s, n)
  PROVE  LineInv(line, r, s, n)
<1>1. ASSUME NEW i \in 1 .. Len(line), NEW x \in line[i].mpdus, MpduInv(x, m, s, n)
      PROVE  MpduInv(x, r, s, n)
  BY <1>1 DEF MpduInv
<1>2. QED
  BY <1>1 DEF LineInv, PpduInv

LEMMA PairFollows ==
  ASSUME NEW m, NEW r, Follows(m, r), NEW s, NEW n, NEW line, NEW count, NEW ring,
         PairInv(m, line, count, ring, s, n)
  PROVE  PairInv(r, line, count, ring, s, n)
<1>1. LineInv(line, r, s, n)
  BY LineFollows DEF PairInv, Follows
<1>2. GivenInv(count, r, s, n)
  BY DEF PairInv, GivenInv, Follows
<1>3. ASSUME NEW f \in Frame, Coming(r.batch, line, f)
      PROVE  \E B \in SUBSET Frame : BatchOf(r, line, count, ring, s, f, B)
  <2>1. Coming(m.batch, line, f)
    BY <1>3 DEF Coming, Follows
  <2>2. PICK B \in SUBSET Frame : BatchOf(m, line, count, ring, s, f, B)
    BY <2>1 DEF PairInv, TogetherInv
  <2>3. LineOf(r.batch, line, count, f, B)
    BY <2>2 DEF BatchOf, LineOf, Follows
  <2>4. count[f] > 0 => RingOf(ring, r.seqOf, f, B)
    <3>1. \A g \in B : r.seqOf[g] = m.seqOf[g]
      BY <2>2 DEF BatchOf, Follows
    <3>2. QED
      BY <2>2, <3>1, RingOfSeq DEF BatchOf
  <2>5. QED
    BY <2>2, <2>3, <2>4 DEF BatchOf, Follows
<1>4. QED
  BY <1>1, <1>2, <1>3 DEF PairInv, TogetherInv

(* A PPDU of the sender's batch, or of no frames, joins the line.          *)
LEMMA PairAppend ==
  ASSUME NEW m, NEW s, NEW n, NEW line, NEW count, NEW ring,
         PairInv(m, line, count, ring, s, n),
         NEW p \in Ppdu, PpduInv(p, m, s, n), Frames(p) \subseteq m.batch
  PROVE  PairInv(m, Append(line, p), count, ring, s, n)
<1> DEFINE q == Append(line, p)
<1>1. line \in Seq(Ppdu) /\ Len(line) \in Nat
  BY DEF PairInv, LineInv
<1>2. /\ q \in Seq(Ppdu) /\ Len(q) = Len(line) + 1 /\ q[Len(line) + 1] = p
      /\ \A i \in 1 .. Len(line) : q[i] = line[i]
  BY <1>1, AppendProperties
<1> HIDE DEF q
<1>3. \A i \in 1 .. Len(q) : i \in 1 .. Len(line) \/ (i = Len(line) + 1 /\ q[i] = p)
  BY <1>1, <1>2
<1>4. LineInv(q, m, s, n)
  <2>1. \A i \in 1 .. Len(line) : PpduInv(line[i], m, s, n)
    BY DEF PairInv, LineInv
  <2>2. \A i \in 1 .. Len(q) : PpduInv(q[i], m, s, n)
    BY <1>2, <1>3, <2>1
  <2>3. QED
    BY <1>2, <2>2 DEF LineInv
<1>5. ASSUME NEW f \in Frame, Coming(m.batch, q, f)
      PROVE  \E B \in SUBSET Frame : BatchOf(m, q, count, ring, s, f, B)
  <2>1. Coming(m.batch, line, f)
    BY <1>2, <1>3, <1>5 DEF Coming
  <2>2. PICK B \in SUBSET Frame : BatchOf(m, line, count, ring, s, f, B)
    BY <2>1 DEF PairInv, TogetherInv
  <2>3. ASSUME NEW i \in 1 .. Len(q),
               f \in m.batch \/ \E k \in i .. Len(q) : f \in Frames(q[k]),
               NEW g \in Frames(q[i]),
               count[f] > 0 \/ f < g \/ \E j \in 1 .. i : f \in Frames(q[j])
        PROVE  g \in B
    <3>1. CASE i \in 1 .. Len(line)
      <4>1. \A j \in 1 .. i : j \in 1 .. Len(line) /\ q[j] = line[j]
        BY <1>1, <1>2, <3>1
      <4>2. f \in m.batch \/ \E k \in i .. Len(line) : f \in Frames(line[k])
        <5>1. SUFFICES ASSUME NEW k \in i .. Len(q), f \in Frames(q[k]), f \notin m.batch
                       PROVE  \E l \in i .. Len(line) : f \in Frames(line[l])
          BY <2>3
        <5>2. k \in 1 .. Len(q) /\ q[k] # p
          BY <1>2, <3>1, <5>1
        <5>3. k \in i .. Len(line) /\ k \in 1 .. Len(line)
          BY <1>1, <1>3, <3>1, <5>2
        <5>4. QED
          BY <1>2, <5>1, <5>3
      <4>3. count[f] > 0 \/ f < g \/ \E j \in 1 .. i : f \in Frames(line[j])
        BY <2>3, <4>1
      <4>4. g \in Frames(line[i])
        BY <1>2, <2>3, <3>1
      <4>5. QED
        BY <2>2, <3>1, <4>2, <4>3, <4>4 DEF BatchOf, LineOf
    <3>2. CASE i = Len(line) + 1
      <4>1. \A k \in i .. Len(q) : k = i
        BY <1>1, <1>2, <3>2
      <4>2. q[i] = p
        BY <1>2, <3>2
      <4>3. f \in m.batch /\ g \in m.batch
        BY <2>3, <4>1, <4>2
      <4>4. QED
        BY <2>2, <4>3 DEF BatchOf
    <3>3. QED
      BY <1>3, <3>1, <3>2
  <2>4. LineOf(m.batch, q, count, f, B)
    BY <2>3 DEF LineOf
  <2>5. QED
    BY <2>2, <2>4 DEF BatchOf
<1>6. QED
  BY <1>4, <1>5 DEF PairInv, TogetherInv, q

(* The oldest PPDU leaves the line: the ring and the host's counts become  *)
(* what its MPDUs make of them.                                            *)
LEMMA PairTail ==
  ASSUME NEW m, NEW s, NEW n, NEW line, NEW count, NEW ring,
         PairInv(m, line, count, ring, s, n), line # <<>>,
         NEW count2, NEW ring2, RingInv(ring2), GivenInv(count2, m, s, n),
         \A f \in Frame : count2[f] > 0 => count[f] > 0 \/ f \in Frames(line[1]),
         \A f \in Frame : Origin[f] = s /\ count[f] > 0 => count2[f] > 0,
         \A f \in Frame, B \in SUBSET Frame :
           (BatchOf(m, line, count, ring, s, f, B) /\ Coming(m.batch, line, f) /\ count2[f] > 0) =>
              RingOf(ring2, m.seqOf, f, B)
  PROVE  PairInv(m, Tail(line), count2, ring2, s, n)
<1> DEFINE q == Tail(line)
<1>1. line \in Seq(Ppdu) /\ Len(line) \in Nat
  BY DEF PairInv, LineInv
<1>2. /\ q \in Seq(Ppdu) /\ Len(q) = Len(line) - 1 /\ Len(q) \in Nat
      /\ \A i \in 1 .. Len(q) : q[i] = line[i + 1]
  BY <1>1, HeadTailProperties, LenProperties
<1>3. /\ 1 \in 1 .. Len(line)
      /\ \A i \in 1 .. Len(q) : i + 1 \in 1 .. Len(line)
  BY <1>1, <1>2, EmptySeq, LenProperties
<1> HIDE DEF q
<1>4. LineInv(q, m, s, n)
  <2>1. \A i \in 1 .. Len(line) : PpduInv(line[i], m, s, n)
    BY DEF PairInv, LineInv
  <2>2. \A i \in 1 .. Len(q) : PpduInv(q[i], m, s, n)
    BY <1>2, <1>3, <2>1
  <2>3. QED
    BY <1>2, <2>2 DEF LineInv
<1>5. ASSUME NEW f \in Frame, Coming(m.batch, q, f)
      PROVE  \E B \in SUBSET Frame : BatchOf(m, q, count2, ring2, s, f, B)
  <2>1. Coming(m.batch, line, f)
    BY <1>2, <1>3, <1>5 DEF Coming
  <2>2. PICK B \in SUBSET Frame : BatchOf(m, line, count, ring, s, f, B)
    BY <2>1 DEF PairInv, TogetherInv
  <2>3. f \in m.batch \/ \E k \in 1 .. Len(line) : f \in Frames(line[k])
    BY <2>1 DEF Coming
  <2>4. ASSUME NEW i \in 1 .. Len(q),
               f \in m.batch \/ \E k \in i .. Len(q) : f \in Frames(q[k]),
               NEW g \in Frames(q[i]),
               count2[f] > 0 \/ f < g \/ \E j \in 1 .. i : f \in Frames(q[j])
        PROVE  g \in B
    <3>1. i + 1 \in 1 .. Len(line) /\ q[i] = line[i + 1]
      BY <1>2, <1>3
    <3>2. f \in m.batch \/ \E k \in i + 1 .. Len(line) : f \in Frames(line[k])
      <4>1. SUFFICES ASSUME NEW k \in i .. Len(q), f \in Frames(q[k])
                     PROVE  \E l \in i + 1 .. Len(line) : f \in Frames(line[l])
        BY <2>4
      <4>2. k \in 1 .. Len(q) /\ k + 1 \in i + 1 .. Len(line)
        BY <1>1, <1>2
      <4>3. QED
        BY <1>2, <4>1, <4>2
    <3>3. count[f] > 0 \/ f < g \/ \E j \in 1 .. i + 1 : f \in Frames(line[j])
      <4>1. CASE count2[f] > 0
        <5>1. 1 \in 1 .. i + 1
          BY <1>2
        <5>2. QED
          BY <4>1, <5>1
      <4>2. CASE f < g
        BY <4>2
      <4>3. CASE \E j \in 1 .. i : f \in Frames(q[j])
        <5>1. PICK j \in 1 .. i : f \in Frames(q[j])
          BY <4>3
        <5>2. j \in 1 .. Len(q) /\ j + 1 \in 1 .. i + 1
          BY <1>2
        <5>3. QED
          BY <1>2, <5>1, <5>2
      <4>4. QED
        BY <2>4, <4>1, <4>2, <4>3
    <3>4. QED
      BY <2>2, <2>4, <3>1, <3>2, <3>3 DEF BatchOf, LineOf
  <2>5. LineOf(m.batch, q, count2, f, B)
    BY <2>4 DEF LineOf
  <2>6. AheadOf(count2, s, f) \subseteq B
    <3>1. SUFFICES ASSUME NEW g \in Frame, f < g, Origin[g] = s, count2[g] > 0 PROVE g \in B
      BY DEF AheadOf
    <3>2. CASE count[g] > 0
      BY <2>2, <3>1, <3>2 DEF BatchOf, AheadOf
    <3>3. CASE g \in Frames(line[1])
      <4>1. f \in m.batch \/ \E k \in 1 .. Len(line) : f \in Frames(line[k])
        BY <2>3
      <4>2. QED
        BY <1>3, <2>2, <3>1, <3>3, <4>1 DEF BatchOf, LineOf
    <3>4. QED
      BY <3>1, <3>2, <3>3
  <2>7. count2[f] > 0 => RingOf(ring2, m.seqOf, f, B)
    BY <2>1, <2>2
  <2>8. QED
    BY <2>2, <2>5, <2>6, <2>7 DEF BatchOf
<1>6. QED
  BY <1>4, <1>5 DEF PairInv, TogetherInv, q

(* A PPDU without frames leaves the line.                                  *)
LEMMA PairHears ==
  ASSUME NEW m, NEW s, NEW n, NEW line, NEW count, NEW ring,
         PairInv(m, line, count, ring, s, n), line # <<>>
  PROVE  PairInv(m, Tail(line), count, ring, s, n)
<1>1. RingInv(ring) /\ GivenInv(count, m, s, n)
  BY DEF PairInv
<1>2. \A f \in Frame, B \in SUBSET Frame :
        (BatchOf(m, line, count, ring, s, f, B) /\ Coming(m.batch, line, f) /\ count[f] > 0) =>
          RingOf(ring, m.seqOf, f, B)
  BY DEF BatchOf
<1>3. QED
  BY <1>1, <1>2, PairTail

(* A data PPDU is received.                                                *)
Handed(count, fresh) == [f \in Frame |-> IF f \in fresh THEN count[f] + 1 ELSE count[f]]

LEMMA PairReceives ==
  ASSUME NEW m, NEW s, NEW n, NEW line, NEW count \in [Frame -> Nat], NEW ring,
         OwnInv(m, s),
         PairInv(m, line, count, ring, s, n), line # <<>>, line[1].type = "data",
         NEW d, d = Deduplicate(ring, line[1].mpdus)
  PROVE  /\ PairInv(m, Tail(line), Handed(count, d.fresh), d.ring, s, n)
         /\ d.fresh \subseteq Frames(line[1])
<1> DEFINE p == line[1]
           M == p.mpdus
           after == Handed(count, d.fresh)
<1>1. line \in Seq(Ppdu) /\ Len(line) \in Nat /\ 1 \in 1 .. Len(line)
  BY EmptySeq, LenProperties DEF PairInv, LineInv
<1>2. IsFiniteSet(M) /\ \A x \in M : MpduInv(x, m, s, n)
  BY <1>1 DEF PairInv, LineInv, PpduInv
<1>3. RingInv(ring) /\ GivenInv(count, m, s, n)
  BY DEF PairInv
<1>4. Frames(p) = FramesOf(M)
  BY DEF Frames, FramesOf
<1>5. \A x \in M : x \in MpduRecord /\ x.seq = m.seqOf[x.frame]
  BY <1>2 DEF MpduInv
<1> HIDE DEF M, p
<1>6. RingInv(d.ring) /\ d.fresh \subseteq FramesOf(M) /\ KeptInv(d, ring, M, m.seqOf)
  BY <1>2, <1>3, <1>5, DeduplicateKeeps DEF NotedInv, M, p
<1>7. ASSUME NEW f \in Frame, NEW B \in SUBSET Frame, BatchOf(m, line, count, ring, s, f, B),
             Coming(m.batch, line, f), count[f] > 0 \/ f \in Frames(p)
      PROVE  /\ (f \in d.fresh \/ RingOf(ring, m.seqOf, f, B)) => RingOf(d.ring, m.seqOf, f, B)
             /\ RingOf(ring, m.seqOf, f, B) => f \notin d.fresh
  <2>1. f \in B /\ Cardinality(B) <= MaxAmpdu
    BY <1>7 DEF BatchOf
  <2>2. FramesOf(M) \subseteq B
    <3>1. ASSUME NEW g \in Frames(p) PROVE g \in B
      <4>1. f \in m.batch \/ \E k \in 1 .. Len(line) : f \in Frames(line[k])
        BY <1>7 DEF Coming
      <4>2. count[f] > 0 \/ f < g \/ \E j \in 1 .. 1 : f \in Frames(line[j])
        BY <1>7 DEF p
      <4>3. g \in Frames(line[1])
        BY DEF p
      <4>4. QED
        BY <1>1, <1>7, <4>1, <4>2, <4>3 DEF BatchOf, LineOf
    <3>2. QED
      BY <1>4, <3>1
  <2>3. QED
    BY <1>6, <2>1, <2>2 DEF KeptInv
<1>8. ASSUME NEW f \in d.fresh PROVE f \in Frames(p) /\ f \in Frame /\ f \in Sent(m) /\ Origin[f] = s
                                     /\ s # n /\ Dest[f] \in {n, Group}
  <2>1. PICK x \in M : f = x.frame
    BY <1>6 DEF FramesOf
  <2>2. f \in Sent(m) /\ s # n /\ Dest[f] \in {n, Group}
    BY <1>2, <2>1 DEF MpduInv
  <2>3. f \in Frame /\ m.outcome[f] # "new"
    BY <2>2 DEF Sent
  <2>4. QED
    BY <1>4, <1>6, <2>2, <2>3 DEF OwnInv
<1>9. ASSUME NEW f \in d.fresh PROVE count[f] = 0
  <2>1. Coming(m.batch, line, f) /\ f \in Frames(p) /\ f \in Frame
    BY <1>1, <1>8 DEF Coming, p
  <2>2. PICK B \in SUBSET Frame : BatchOf(m, line, count, ring, s, f, B)
    BY <2>1 DEF PairInv, TogetherInv
  <2>3. ~RingOf(ring, m.seqOf, f, B)
    BY <1>7, <2>1, <2>2
  <2>4. ~(count[f] > 0)
    BY <2>2, <2>3 DEF BatchOf
  <2>5. QED
    BY <2>1, <2>4
<1>10. \A f \in Frame : /\ count[f] \in Nat
                        /\ after[f] = IF f \in d.fresh THEN count[f] + 1 ELSE count[f]
  BY DEF Handed
<1> HIDE DEF after
<1>11. \A f \in Frame : IF f \in d.fresh THEN after[f] = 1 ELSE after[f] = count[f]
  BY <1>9, <1>10
<1>12. GivenInv(after, m, s, n)
  <2> SUFFICES ASSUME NEW f \in Frame, Origin[f] = s
               PROVE  /\ after[f] \in {0, 1}
                      /\ after[f] = 1 => f \in Sent(m) /\ s # n /\ Dest[f] \in {n, Group}
    BY DEF GivenInv
  <2>1. CASE f \in d.fresh
    BY <1>8, <1>11, <2>1
  <2>2. CASE f \notin d.fresh
    BY <1>3, <1>11, <2>2 DEF GivenInv
  <2>3. QED
    BY <2>1, <2>2
<1>13. /\ \A f \in Frame : after[f] > 0 => count[f] > 0 \/ f \in Frames(p)
       /\ \A f \in Frame : Origin[f] = s /\ count[f] > 0 => after[f] > 0
  BY <1>8, <1>11
<1>14. ASSUME NEW f \in Frame, NEW B \in SUBSET Frame, BatchOf(m, line, count, ring, s, f, B),
              Coming(m.batch, line, f), after[f] > 0
       PROVE  RingOf(d.ring, m.seqOf, f, B)
  <2>1. count[f] > 0 => RingOf(ring, m.seqOf, f, B)
    BY <1>14 DEF BatchOf
  <2>2. f \in d.fresh \/ count[f] > 0
    BY <1>11, <1>14
  <2>3. QED
    BY <1>7, <1>8, <1>14, <2>1, <2>2
<1>15. QED
  BY <1>4, <1>6, <1>12, <1>13, <1>14, PairTail DEF after, p

-----------------------------------------------------------------------------
(* What a station sends: the first frame of a batch always fits.           *)

(* h is the fold Total({f}) stands for.                                    *)
IsTotal(h, f) ==
  h = [S \in SUBSET {f} |->
         IF S = {} THEN 0
         ELSE Octets[CHOOSE x \in S : TRUE] + h[S \ {CHOOSE x \in S : TRUE}]]

LEMMA TotalIsFold ==
  ASSUME NEW f
  PROVE  Total({f}) = (CHOOSE h : IsTotal(h, f))[{f}]
BY DEF Total, SumFunctionOnSet, FoldFunctionOnSet, MapThenFoldSet, IsTotal

LEMMA TotalOfOne ==
  ASSUME NEW f \in Frame
  PROVE  Total({f}) = Octets[f] /\ Octets[f] \in Nat
<1> DEFINE h == [S \in SUBSET {f} |-> IF S = {} THEN 0 ELSE Octets[f]]
           i == [S \in SUBSET {f} |->
                   IF S = {} THEN 0
                   ELSE Octets[CHOOSE x \in S : TRUE] + h[S \ {CHOOSE x \in S : TRUE}]]
           only == CHOOSE x \in {f} : TRUE
<1>1. Octets[f] \in Nat
  BY CapacityAssumption
<1>2. \A S \in SUBSET {f} : S = {} \/ S = {f}
  OBVIOUS
<1>3. only = f
  OBVIOUS
<1>4. h[{}] = 0 /\ h[{f}] = Octets[f]
  OBVIOUS
<1>5. i[{}] = 0 /\ i[{f}] = Octets[only] + h[{f} \ {only}]
  OBVIOUS
<1> HIDE DEF only
<1>6. i[{f}] = Octets[f]
  <2>1. {f} \ {only} = {}
    BY <1>3
  <2>2. h[{f} \ {only}] = 0
    BY <1>4, <2>1
  <2>3. i[{f}] = Octets[f] + 0
    BY <1>3, <1>5, <2>2
  <2>4. QED
    BY <1>1, <2>3
<1>7. \A S \in SUBSET {f} : h[S] = i[S]
  BY <1>2, <1>4, <1>5, <1>6
<1>8. h = [S \in SUBSET {f} |-> h[S]] /\ i = [S \in SUBSET {f} |-> i[S]]
  OBVIOUS
<1>9. h = i
  <2> HIDE DEF h, i
  <2>1. QED
    BY <1>7, <1>8
<1>10. IsTotal(h, f)
  BY <1>9 DEF IsTotal
<1> DEFINE j == CHOOSE g : IsTotal(g, f)
<1>11. IsTotal(j, f)
  BY <1>10
<1> HIDE DEF h, i, j
<1>12. j[{}] = 0 /\ j[{f}] = Octets[only] + j[{f} \ {only}]
  BY <1>11 DEF IsTotal, only
<1>13. j[{f}] = Octets[f]
  <2>1. {f} \ {only} = {}
    BY <1>3
  <2>2. j[{f} \ {only}] = 0
    BY <1>12, <2>1
  <2>3. j[{f}] = Octets[f] + 0
    BY <1>3, <1>12, <2>2
  <2>4. QED
    BY <1>1, <2>3
<1>14. QED
  BY <1>1, <1>13, TotalIsFold DEF j

LEMMA FloorFits ==
  ASSUME NEW f \in Frame, Fits({f}, Floor), NEW c \in Choice
  PROVE  Fits({f}, c)
<1>1. Total({f}) \in Nat
  BY TotalOfOne
<1>2. Capacity[Floor] \in Nat /\ Capacity[c] \in Nat /\ Capacity[Floor] <= Capacity[c]
  BY CapacityAssumption
<1>3. Total({f}) <= Capacity[Floor] => Total({f}) <= Capacity[c]
  BY <1>1, <1>2
<1>4. QED
  BY <1>3 DEF Fits

LEMMA PlanIsSomething ==
  ASSUME NEW S \in SUBSET Frame, S # {}, \A f \in S : Fits({f}, Floor), NEW c \in Choice
  PROVE  PlanAttempt(S, c) # {}
<1>1. PICK f \in S : \A g \in S : f <= g
  BY FirstFrame
<1>2. {g \in S : g <= f} = {f}
  <2>1. \A g \in S : g \in Nat
    BY FrameAssumption
  <2>2. \A g \in S : g <= f <=> g = f
    BY <1>1, <2>1
  <2>3. QED
    BY <2>2
<1>3. Fits({f}, c)
  BY FloorFits
<1>4. f \in PlanAttempt(S, c)
  BY <1>2, <1>3 DEF PlanAttempt
<1>5. QED
  BY <1>4

-----------------------------------------------------------------------------
(* poll step 3 takes no more than a batch, oldest frames first.            *)

LEMMA NextBatchIsPrefix ==
  ASSUME NEW q \in SUBSET Frame, NEW f \in NextBatch(q), NEW g \in q \ NextBatch(q)
  PROVE  f < g
<1> DEFINE head == Min(q)
           run  == {x \in q : \A y \in q : y <= x => Dest[y] = Dest[head]}
           Below(x) == {y \in run : y < x}
<1>1. f \in run /\ Cardinality(Below(f)) < MaxBatch(head)
  BY DEF NextBatch
<1>2. g \in run => ~(Cardinality(Below(g)) < MaxBatch(head))
  BY DEF NextBatch
<1>3. q \subseteq Nat /\ run \subseteq q
  BY FrameAssumption
<1>4. SUFFICES ASSUME g <= f PROVE FALSE
  BY <1>1, <1>3
<1>5. g \in run
  BY <1>1, <1>3, <1>4
<1>6. Below(g) \subseteq Below(f)
  <2>1. f \in Nat /\ g \in Nat /\ \A y \in run : y \in Nat
    BY <1>1, <1>3
  <2> HIDE DEF run
  <2>2. \A y \in run : y < g => y < f
    BY <1>4, <2>1
  <2>3. QED
    BY <2>2
<1>7. Below(f) \in SUBSET Frame /\ Below(g) \in SUBSET Frame
  BY <1>3
<1>8. Cardinality(Below(g)) <= Cardinality(Below(f))
  BY <1>6, <1>7, FramesCount, FS_Subset
<1>9. Cardinality(Below(g)) \in Nat /\ Cardinality(Below(f)) \in Nat
  BY <1>7, FramesCount
<1>10. MaxBatch(head) \in Nat
  BY ConfigAssumption DEF MaxBatch
<1> HIDE DEF run, head, Below
<1>11. QED
  BY <1>1, <1>2, <1>5, <1>8, <1>9, <1>10

LEMMA NextBatchIsSmall ==
  ASSUME NEW q \in SUBSET Frame, q # {}
  PROVE  Cardinality(NextBatch(q)) <= MaxAmpdu
<1> DEFINE head == Min(q)
           run  == {x \in q : \A y \in q : y <= x => Dest[y] = Dest[head]}
           B    == NextBatch(q)
<1>1. B \subseteq run /\ \A x \in B : Cardinality({y \in run : y < x}) < MaxBatch(head)
  BY DEF NextBatch
<1>2. MaxBatch(head) \in Nat /\ MaxBatch(head) <= MaxAmpdu /\ MaxAmpdu \in Nat
  BY ConfigAssumption DEF MaxBatch
<1>3. run \in SUBSET Frame /\ Frame \subseteq Nat
  BY FrameAssumption
<1> HIDE DEF run, head, B
<1>4. ASSUME NEW x \in B PROVE Cardinality({y \in B : y < x}) < MaxBatch(head)
  <2> DEFINE S == {y \in B : y < x}
             T == {y \in run : y < x}
  <2>1. S \subseteq T /\ S \in SUBSET Frame /\ T \in SUBSET Frame
    BY <1>1, <1>3
  <2>2. Cardinality(T) < MaxBatch(head)
    BY <1>1
  <2> HIDE DEF S, T
  <2>3. Cardinality(S) <= Cardinality(T) /\ Cardinality(S) \in Nat /\ Cardinality(T) \in Nat
    BY <2>1, FramesCount, FS_Subset
  <2>4. Cardinality(S) < MaxBatch(head)
    BY <1>2, <2>2, <2>3
  <2>5. QED
    BY <2>4 DEF S
<1>5. IsFiniteSet(B) /\ Cardinality(B) \in Nat /\ B \in SUBSET Nat
  BY <1>1, <1>3, FramesCount
<1>6. Cardinality(B) <= MaxBatch(head)
  BY <1>2, <1>4, <1>5, FewBelow
<1>7. QED
  BY <1>2, <1>5, <1>6 DEF B

LEMMA NextBatchIsUniform ==
  ASSUME NEW q \in SUBSET Frame, NEW f \in NextBatch(q), NEW g \in NextBatch(q)
  PROVE  Dest[f] = Dest[g]
<1> DEFINE head == Min(q)
<1>1. ASSUME NEW x \in NextBatch(q) PROVE Dest[x] = Dest[head]
  <2>1. x \in q /\ \A y \in q : y <= x => Dest[y] = Dest[head]
    BY DEF NextBatch
  <2>2. x <= x
    BY <2>1, FrameAssumption
  <2>3. QED
    BY <2>1, <2>2
<1>2. QED
  BY <1>1

-----------------------------------------------------------------------------
(* Handlers that settle frames and send nothing new.                       *)

(* r is m after some frames of its batch have been settled.                *)
Settles(m, r) ==
  /\ r.queue = m.queue /\ r.batch \subseteq m.batch /\ r.seqOf = m.seqOf /\ r.seq = m.seq
  /\ \A f \in Frame : \/ r.outcome[f] = m.outcome[f]
                      \/ f \in m.batch /\ r.outcome[f] \in {"acked", "dropped", "sent"}
  /\ ReplyInv(m) => ReplyInv(r)

LEMMA SettlesTwice ==
  ASSUME NEW m, NEW q, NEW r, Settles(m, q), Settles(q, r)
  PROVE  Settles(m, r)
BY DEF Settles

LEMMA SettlesKeeps ==
  ASSUME NEW m, NEW r, NEW n, MacInv(m), StationInv(m, n), Settles(m, r)
  PROVE  Follows(m, r) /\ StationInv(r, n)
<1>1. /\ r.queue = m.queue /\ r.batch \subseteq m.batch /\ r.seqOf = m.seqOf /\ r.seq = m.seq
      /\ m.batch \subseteq Frame /\ m.queue \subseteq Frame
  BY DEF Settles, MacInv, MacRecord
<1>2. \A f \in m.batch : m.outcome[f] = "pending"
  BY <1>1 DEF MacInv, HoldInv, Held
<1>3. \A f \in Frame :
        /\ r.outcome[f] = "new" <=> m.outcome[f] = "new"
        /\ r.outcome[f] = "refused" <=> m.outcome[f] = "refused"
        /\ r.outcome[f] = "unbuildable" => m.outcome[f] = "unbuildable"
  BY <1>2 DEF Settles
<1>4. Sent(r) = Sent(m)
  BY <1>1, <1>3 DEF Sent
<1>5. Follows(m, r)
  BY <1>1, <1>4 DEF Follows
<1>6. OwnInv(r, n)
  BY <1>3 DEF StationInv, OwnInv
<1>7. OrderInv(r, n)
  BY <1>1, <1>3, <1>4 DEF StationInv, OrderInv
<1>8. BuildInv(r)
  BY <1>1, <1>3 DEF StationInv, BuildInv, FloorInv, Held
<1>9. DestInv(r)
  BY <1>1 DEF StationInv, DestInv
<1>10. QED
  BY <1>5, <1>6, <1>7, <1>8, <1>9 DEF StationInv, Settles

LEMMA RetrySettles ==
  ASSUME NEW m, m \in MacRecord, NEW F, F \subseteq m.batch
  PROVE  Settles(m, Retry(m, F)) /\ Retry(m, F) \in MacRecord
<1> DEFINE r == Retry(m, F)
           over == {f \in F : m.retries[f] + 1 > MaxRetries}
           retries == [f \in Frame |-> IF f \in F THEN m.retries[f] + 1 ELSE m.retries[f]]
           outcome == [f \in Frame |-> IF f \in over THEN "dropped" ELSE m.outcome[f]]
<1>1. /\ m.retries \in [Frame -> Nat] /\ m.outcome \in [Frame -> Outcome]
      /\ m.batch \in SUBSET Frame
  BY DEF MacRecord
<1>2. retries \in [Frame -> Nat] /\ outcome \in [Frame -> Outcome]
  BY <1>1 DEF Outcome
<1>3. r = [m EXCEPT !.batch = m.batch \ over, !.retries = retries, !.outcome = outcome]
  BY DEF Retry, MacRecord
<1>4. \A f \in Frame : outcome[f] = IF f \in over THEN "dropped" ELSE m.outcome[f]
  OBVIOUS
<1>5. over \subseteq m.batch
  OBVIOUS
<1> HIDE DEF over, retries, outcome, r
<1>6. r \in MacRecord
  BY <1>1, <1>2, <1>3 DEF MacRecord
<1>7. r.queue = m.queue /\ r.batch = m.batch \ over /\ r.seqOf = m.seqOf /\ r.seq = m.seq /\ r.outcome = outcome
      /\ r.responses = m.responses
  BY <1>3 DEF MacRecord
<1>8. QED
  BY <1>4, <1>5, <1>6, <1>7 DEF Settles, ReplyInv, r

LEMMA ContinueSettles ==
  ASSUME NEW m, m \in MacRecord
  PROVE  Settles(m, Continue(m))
<1> DEFINE r == Continue(m)
<1>1. r.queue = m.queue /\ r.batch = m.batch /\ r.seqOf = m.seqOf /\ r.seq = m.seq /\ r.outcome = m.outcome
      /\ r.responses = m.responses
  BY DEF Continue, Finish, StartBackoff, MacRecord
<1> HIDE DEF r
<1>2. QED
  BY <1>1 DEF Settles, ReplyInv, r

LEMMA ResolveSettles ==
  ASSUME NEW m, MacInv(m), NEW acked
  PROVE  Settles(m, ResolveAttempt(m, acked))
<1> DEFINE done == m.flight \cap acked
           outcome == [f \in Frame |-> IF f \in done THEN "acked" ELSE m.outcome[f]]
           r == [m EXCEPT !.batch = @ \ done,
                          !.outcome = [f \in Frame |-> IF f \in done THEN "acked"
                                                                    ELSE @[f]]]
           F == m.flight \ acked
<1>1. m \in MacRecord /\ m.flight \subseteq m.batch /\ m.batch \subseteq Frame
  BY DEF MacInv, ModeInv, MacRecord
<1>2. outcome \in [Frame -> Outcome]
  BY <1>1 DEF Outcome, MacRecord
<1>3. r = [m EXCEPT !.batch = m.batch \ done, !.outcome = outcome]
  BY <1>1 DEF MacRecord
<1>4. \A f \in Frame : outcome[f] = IF f \in done THEN "acked" ELSE m.outcome[f]
  OBVIOUS
<1>5. ResolveAttempt(m, acked) = Continue(Retry(r, F))
  BY DEF ResolveAttempt
<1> HIDE DEF outcome, r
<1>6. r \in MacRecord
  BY <1>1, <1>2, <1>3 DEF MacRecord
<1>7. r.queue = m.queue /\ r.batch = m.batch \ done /\ r.seqOf = m.seqOf /\ r.seq = m.seq /\ r.outcome = outcome
      /\ r.responses = m.responses
  BY <1>1, <1>3 DEF MacRecord
<1>8. Settles(m, r)
  BY <1>1, <1>4, <1>7 DEF Settles, ReplyInv
<1>9. F \subseteq r.batch
  BY <1>1, <1>7
<1>10. Settles(r, Retry(r, F)) /\ Settles(Retry(r, F), Continue(Retry(r, F)))
  BY <1>6, <1>9, RetrySettles, ContinueSettles
<1>11. QED
  BY <1>5, <1>8, <1>10, SettlesTwice

LEMMA FailSettles ==
  ASSUME NEW m, MacInv(m)
  PROVE  Settles(m, FailAttempt(m))
<1>1. CASE m.expect.type = "cts"
  <2>1. /\ Settles(m, Retry(m, m.batch))
        /\ Settles(Retry(m, m.batch), Continue(Retry(m, m.batch)))
    BY RetrySettles, ContinueSettles DEF MacInv
  <2>2. QED
    BY <1>1, <2>1, SettlesTwice DEF FailAttempt
<1>2. CASE m.expect.type # "cts"
  BY <1>2, ResolveSettles DEF FailAttempt
<1>3. QED
  BY <1>1, <1>2

LEMMA SameSettles == \A m : Settles(m, m)
BY DEF Settles

LEMMA ResponseSettles ==
  ASSUME NEW m, MacInv(m), NEW p
  PROVE  /\ Settles(m, OnNdpAck(m, p)) /\ Settles(m, OnBlockAck(m, p))
         /\ Settles(m, OnAck(m))
BY ResolveSettles, SameSettles DEF OnNdpAck, OnBlockAck, OnAck

LEMMA CtsSettles ==
  ASSUME NEW m, MacInv(m)
  PROVE  Settles(m, OnCts(m)) /\ Settles(m, AwaitCts(m))
<1>1. m \in MacRecord
  BY DEF MacInv
<1>2. Settles(m, OnCts(m))
  <2> DEFINE r == OnCts(m)
  <2>1. r.queue = m.queue /\ r.batch = m.batch /\ r.seqOf = m.seqOf /\ r.seq = m.seq /\ r.outcome = m.outcome
        /\ r.responses = m.responses
    BY <1>1 DEF OnCts, StartBackoff, MacRecord
  <2> HIDE DEF r
  <2>2. QED
    BY <2>1 DEF Settles, ReplyInv, r
<1>3. Settles(m, AwaitCts(m))
  <2> DEFINE r == AwaitCts(m)
  <2>1. r.queue = m.queue /\ r.batch = m.batch /\ r.seqOf = m.seqOf /\ r.seq = m.seq /\ r.outcome = m.outcome
        /\ r.responses = m.responses
    BY <1>1 DEF AwaitCts, MacRecord
  <2> HIDE DEF r
  <2>2. QED
    BY <2>1 DEF Settles, ReplyInv, r
<1>4. QED
  BY <1>2, <1>3

LEMMA QueueSettles ==
  ASSUME NEW m, m \in MacRecord, NEW q, ReplyInv(m) => \A i \in 1 .. Len(q) : q[i].type # "data"
  PROVE  Settles(m, [m EXCEPT !.responses = q])
<1> DEFINE r == [m EXCEPT !.responses = q]
<1>1. r.queue = m.queue /\ r.batch = m.batch /\ r.seqOf = m.seqOf /\ r.seq = m.seq /\ r.outcome = m.outcome
      /\ r.responses = q
  BY DEF MacRecord
<1> HIDE DEF r
<1>2. QED
  BY <1>1 DEF Settles, ReplyInv, r

LEMMA RespondSettles ==
  ASSUME NEW m, m \in MacRecord, NEW q \in Seq(Ppdu), \A i \in 1 .. Len(q) : q[i].type # "data"
  PROVE  Settles(m, Respond(m, q))
<1> DEFINE a == m.responses
           b == a \o q
<1>1. a \in Seq(Ppdu) /\ Len(a) \in Nat /\ Len(q) \in Nat
  BY DEF MacRecord
<1>2. /\ Len(b) = Len(a) + Len(q)
      /\ \A i \in 1 .. Len(b) : b[i] = IF i <= Len(a) THEN a[i] ELSE q[i - Len(a)]
  BY <1>1, ConcatProperties
<1> HIDE DEF b
<1>3. ASSUME ReplyInv(m), NEW i \in 1 .. Len(b) PROVE b[i].type # "data"
  <2>1. CASE i <= Len(a)
    <3>1. i \in 1 .. Len(a) /\ b[i] = a[i]
      BY <1>1, <1>2, <2>1
    <3>2. QED
      BY <1>3, <3>1 DEF ReplyInv
  <2>2. CASE ~(i <= Len(a))
    <3>1. i - Len(a) \in 1 .. Len(q) /\ b[i] = q[i - Len(a)]
      BY <1>1, <1>2, <2>2
    <3>2. QED
      BY <3>1
  <2>3. QED
    BY <2>1, <2>2
<1>4. Settles(m, [m EXCEPT !.responses = b])
  BY <1>3, QueueSettles
<1>5. QED
  BY <1>4 DEF Respond, b

LEMMA ReplySettles ==
  ASSUME NEW m, m \in MacRecord, m.responses # <<>>
  PROVE  Settles(m, [m EXCEPT !.responses = Tail(m.responses)])
<1> DEFINE q == Tail(m.responses)
<1>1. m.responses \in Seq(Ppdu)
  BY DEF MacRecord
<1>2. Len(q) = Len(m.responses) - 1 /\ \A i \in 1 .. Len(q) : q[i] = m.responses[i + 1]
      /\ Len(m.responses) \in Nat
  BY <1>1, HeadTailProperties, LenProperties
<1> HIDE DEF q
<1>3. ASSUME ReplyInv(m), NEW i \in 1 .. Len(q) PROVE q[i].type # "data"
  <2>1. i + 1 \in 1 .. Len(m.responses)
    BY <1>2
  <2>2. QED
    BY <1>2, <1>3, <2>1 DEF ReplyInv
<1>4. QED
  BY <1>3, QueueSettles DEF q

(* The responses to a data PPDU are control PPDUs.                         *)
LEMMA ResponseIsControl ==
  ASSUME NEW p, NEW s, NEW q, q = DataResponse(p, s), NEW i \in 1 .. Len(q)
  PROVE  q[i].type # "data"
<1> DEFINE ack == [type |-> "ack", ra |-> s]
           ndpack == [type |-> "ndpack", id |-> AckId(p.seed, CHOOSE x \in p.mpdus : TRUE)]
<1>1. q \in {<<>>, <<ack>>, <<BlockAck(p)>>, <<ndpack>>}
  BY DEF DataResponse
<1>2. ack.type = "ack" /\ ndpack.type = "ndpack" /\ BlockAck(p).type = "ndpba"
  BY DEF BlockAck
<1> HIDE DEF ack, ndpack
<1>3. q[i] \in {ack, ndpack, BlockAck(p)}
  BY <1>1
<1>4. QED
  BY <1>2, <1>3

(* An attempt with something on the air throws nothing away.               *)
LEMMA AttemptSettles ==
  ASSUME NEW m, m \in MacRecord, NEW P \in SUBSET m.batch, P # {}, NEW seed
  PROVE  Settles(m, Attempt(m, P, seed))
<1> DEFINE r == Attempt(m, P, seed)
           aired == [f \in Frame |-> IF f \in P THEN m.aired[f] + 1 ELSE m.aired[f]]
           outcome == [f \in Frame |-> IF f \in m.batch THEN "sent" ELSE m.outcome[f]]
           sent == [m EXCEPT !.aired = [f \in Frame |-> IF f \in P THEN @[f] + 1 ELSE @[f]]]
<1>1. sent = [m EXCEPT !.aired = aired]
  BY DEF MacRecord
<1> HIDE DEF aired
<1>2. r = IF \A f \in m.batch : WantAck(f)
          THEN [sent EXCEPT !.mode = "await", !.flight = P, !.expect = Expected(m, P, seed)]
          ELSE Finish([sent EXCEPT !.outcome = [f \in Frame |->
                         IF f \in m.batch THEN "sent" ELSE @[f]]])
  BY DEF Attempt
<1>3. CASE \A f \in m.batch : WantAck(f)
  <2>1. r.queue = m.queue /\ r.batch = m.batch /\ r.seqOf = m.seqOf /\ r.seq = m.seq /\ r.outcome = m.outcome
        /\ r.responses = m.responses
    BY <1>1, <1>2, <1>3 DEF MacRecord
  <2> HIDE DEF r
  <2>2. QED
    BY <2>1 DEF Settles, ReplyInv, r
<1>4. CASE ~(\A f \in m.batch : WantAck(f))
  <2>1. [sent EXCEPT !.outcome = [f \in Frame |-> IF f \in m.batch THEN "sent" ELSE @[f]]]
          = [m EXCEPT !.aired = aired, !.outcome = outcome]
    BY <1>1 DEF MacRecord
  <2>2. \A f \in Frame : outcome[f] = IF f \in m.batch THEN "sent" ELSE m.outcome[f]
    OBVIOUS
  <2> HIDE DEF outcome
  <2>3. r = Finish([m EXCEPT !.aired = aired, !.outcome = outcome])
    BY <1>2, <1>4, <2>1
  <2>4. r.queue = m.queue /\ r.batch = {} /\ r.seqOf = m.seqOf /\ r.seq = m.seq /\ r.outcome = outcome
        /\ r.responses = m.responses
    BY <2>3 DEF Finish, MacRecord
  <2> HIDE DEF r
  <2>5. QED
    BY <2>2, <2>4 DEF Settles, ReplyInv, r
<1>5. QED
  BY <1>3, <1>4

-----------------------------------------------------------------------------
(* Handlers that take something on: enqueue_eth and poll step 3.           *)

Pulled(m, r, B) ==
  /\ B = NextBatch(m.queue) /\ B # {} /\ B \subseteq m.queue /\ m.batch = {}
  /\ r.queue = m.queue \ B /\ r.batch = B /\ r.outcome = m.outcome
  /\ r.responses = m.responses /\ r.expect = NoResponse
  /\ r.seq = (m.seq + Cardinality(B)) % SeqSpace
  /\ \A f \in Frame :
       r.seqOf[f] = IF f \in B THEN (m.seq + Cardinality({g \in B : g < f})) % SeqSpace
                               ELSE m.seqOf[f]

LEMMA PullTakes ==
  ASSUME NEW m, MacInv(m)
  PROVE  PullBatch(m) = m \/ Pulled(m, PullBatch(m), NextBatch(m.queue))
<1>1. CASE m.mode = "idle" /\ m.batch = {} /\ m.queue # {}
  <2> DEFINE B == NextBatch(m.queue)
             r == PullBatch(m)
             seqOf(f) == (m.seq + Cardinality({g \in B : g < f})) % SeqSpace
             seqs == [f \in Frame |-> IF f \in B THEN seqOf(f) ELSE m.seqOf[f]]
  <2>1. m \in MacRecord /\ m.queue \in SUBSET Frame
    BY DEF MacInv, MacRecord
  <2>2. B # {} /\ B \subseteq m.queue
    BY <1>1, <2>1, NextBatchTakes
  <2>3. r = StartBackoff([m EXCEPT !.queue = m.queue \ B, !.batch = B, !.flight = {},
                                   !.ctsOk = FALSE,
                                   !.seq = (m.seq + Cardinality(B)) % SeqSpace,
                                   !.seqOf = seqs])
    BY <1>1, <2>1 DEF PullBatch, MacRecord
  <2>4. \A f \in Frame : seqs[f] = IF f \in B THEN seqOf(f) ELSE m.seqOf[f]
    OBVIOUS
  <2> HIDE DEF B, seqs
  <2>5. r.queue = m.queue \ B /\ r.batch = B /\ r.outcome = m.outcome /\ r.seqOf = seqs
        /\ r.responses = m.responses /\ r.expect = NoResponse
        /\ r.seq = (m.seq + Cardinality(B)) % SeqSpace
    BY <2>1, <2>3 DEF StartBackoff, MacRecord
  <2> HIDE DEF r
  <2>6. QED
    BY <1>1, <2>2, <2>4, <2>5 DEF Pulled, B, r
<1>2. CASE ~(m.mode = "idle" /\ m.batch = {} /\ m.queue # {})
  BY <1>2 DEF PullBatch
<1>3. QED
  BY <1>1, <1>2

LEMMA PulledSends ==
  ASSUME NEW m, MacInv(m), NEW r, NEW B, Pulled(m, r, B)
  PROVE  /\ B \subseteq Frame /\ Sent(r) = Sent(m) \cup B /\ B \cap Sent(m) = {}
         /\ \A f \in Sent(m) : r.seqOf[f] = m.seqOf[f]
<1>1. m.queue \subseteq Frame /\ \A f \in m.queue : f \in Frame /\ m.outcome[f] = "pending"
  BY DEF MacInv, MacRecord, HoldInv, Held
<1>2. QED
  BY <1>1 DEF Pulled, Sent

LEMMA PullStation ==
  ASSUME NEW m, MacInv(m), NEW n, StationInv(m, n)
  PROVE  StationInv(PullBatch(m), n)
<1> DEFINE r == PullBatch(m)
           B == NextBatch(m.queue)
<1>1. CASE r = m
  BY <1>1
<1>2. CASE Pulled(m, r, B)
  <2>1. Sent(r) = Sent(m) \cup B /\ r.queue = m.queue \ B /\ r.batch = B
        /\ r.outcome = m.outcome /\ B \subseteq m.queue /\ m.queue \subseteq Frame
    <3>1. Sent(r) = Sent(m) \cup B
      BY <1>2, PulledSends
    <3>2. m.queue \subseteq Frame
      BY DEF MacInv, MacRecord
    <3>3. QED
      BY <1>2, <3>1, <3>2 DEF Pulled
  <2>2. \A f \in B, g \in m.queue \ B : f < g
    BY <2>1, NextBatchIsPrefix
  <2> HIDE DEF r, B
  <2>3. OwnInv(r, n)
    BY <2>1 DEF StationInv, OwnInv
  <2>4. OrderInv(r, n)
    <3>1. \A f \in Sent(r), g \in r.queue : f < g
      BY <2>1, <2>2 DEF StationInv, OrderInv
    <3>2. QED
      BY <2>1, <3>1 DEF StationInv, OrderInv
  <2>5. BuildInv(r)
    BY <2>1 DEF StationInv, BuildInv, FloorInv, Held
  <2>6. DestInv(r)
    BY <1>2, <2>1, NextBatchIsUniform DEF DestInv, Pulled
  <2>7. ReplyInv(r)
    BY <1>2 DEF StationInv, ReplyInv, Pulled
  <2>8. QED
    BY <2>3, <2>4, <2>5, <2>6, <2>7 DEF StationInv, r
<1>3. QED
  BY <1>1, <1>2, PullTakes

(* Nothing of a new batch is on the line or has been handed over.          *)
LEMMA PullPair ==
  ASSUME NEW m, MacInv(m), NEW s, StationInv(m, s),
         NEW n, NEW line, NEW count \in [Frame -> Nat], NEW ring,
         PairInv(m, line, count, ring, s, n)
  PROVE  PairInv(PullBatch(m), line, count, ring, s, n)
<1> DEFINE r == PullBatch(m)
           N == NextBatch(m.queue)
<1>1. CASE r = m
  BY <1>1
<1>2. CASE Pulled(m, r, N)
  <2>1. /\ N \subseteq Frame /\ Sent(r) = Sent(m) \cup N /\ N \cap Sent(m) = {}
        /\ \A f \in Sent(m) : r.seqOf[f] = m.seqOf[f]
    BY <1>2, PulledSends
  <2>2. r.batch = N /\ m.batch = {} /\ N \subseteq m.queue /\ N # {}
        /\ m.queue \in SUBSET Frame
    BY <1>2 DEF Pulled, MacInv, MacRecord
  <2>3. Cardinality(N) <= MaxAmpdu
    BY <2>2, NextBatchIsSmall
  <2> HIDE DEF r, N
  <2>4. LineInv(line, r, s, n)
    BY <2>1, LineFollows DEF PairInv
  <2>5. GivenInv(count, r, s, n)
    BY <2>1 DEF PairInv, GivenInv
  <2>6. \A i \in 1 .. Len(line) : Frames(line[i]) \subseteq Sent(m)
    BY DEF PairInv, LineInv, PpduInv, MpduInv, Frames
  <2>7. \A f \in Sent(m), g \in N : f < g
    BY <2>2 DEF StationInv, OrderInv
  <2>8. ASSUME NEW f \in Frame, f \in N
        PROVE  BatchOf(r, line, count, ring, s, f, N)
    <3>1. f \notin Sent(m)
      BY <2>1, <2>8
    <3>2. ASSUME NEW g \in Sent(m) PROVE ~(f < g)
      <4>1. g < f /\ f \in Nat /\ g \in Nat
        BY <2>7, <2>8, FrameAssumption DEF Sent
      <4>2. QED
        BY <4>1
    <3>3. \A g \in Frame : Origin[g] = s /\ count[g] > 0 => g \in Sent(m)
      <4>1. \A g \in Frame : Origin[g] = s => count[g] = 0 \/ g \in Sent(m)
        BY DEF PairInv, GivenInv
      <4>2. QED
        BY <4>1
    <3>4. Origin[f] = s
      <4>1. m.outcome[f] = "pending"
        BY <2>2, <2>8 DEF MacInv, HoldInv, Held
      <4>2. QED
        BY <4>1 DEF StationInv, OwnInv
    <3>5. ~(count[f] > 0)
      BY <3>1, <3>3, <3>4
    <3>6. LineOf(r.batch, line, count, f, N)
      <4>1. SUFFICES ASSUME NEW i \in 1 .. Len(line), NEW g \in Frames(line[i]),
                            f < g \/ \E j \in 1 .. i : f \in Frames(line[j])
                     PROVE  FALSE
        BY <3>5 DEF LineOf
      <4>2. ~(f < g)
        BY <2>6, <3>2
      <4>3. \A j \in 1 .. i : j \in 1 .. Len(line)
        <5>1. Len(line) \in Nat
          BY DEF PairInv, LineInv
        <5>2. QED
          BY <5>1
      <4>4. QED
        BY <2>6, <3>1, <4>1, <4>2, <4>3
    <3>7. AheadOf(count, s, f) = {}
      BY <3>2, <3>3 DEF AheadOf
    <3>8. QED
      BY <2>1, <2>2, <2>3, <2>8, <3>5, <3>6, <3>7 DEF BatchOf
  <2>9. ASSUME NEW f \in Frame, f \notin N, Coming(r.batch, line, f)
        PROVE  \E B \in SUBSET Frame : BatchOf(r, line, count, ring, s, f, B)
    <3>1. Coming(m.batch, line, f)
      BY <2>2, <2>9 DEF Coming
    <3>2. PICK B \in SUBSET Frame : BatchOf(m, line, count, ring, s, f, B)
      BY <3>1 DEF PairInv, TogetherInv
    <3>3. LineOf(r.batch, line, count, f, B)
      BY <2>2, <2>9, <3>2 DEF BatchOf, LineOf
    <3>4. count[f] > 0 => RingOf(ring, r.seqOf, f, B)
      <4>1. \A g \in B : r.seqOf[g] = m.seqOf[g]
        BY <2>1, <3>2 DEF BatchOf
      <4>2. QED
        BY <3>2, <4>1, RingOfSeq DEF BatchOf
    <3>5. QED
      BY <2>1, <2>2, <2>9, <3>2, <3>3, <3>4 DEF BatchOf
  <2>10. TogetherInv(r, line, count, ring, s)
    BY <2>1, <2>8, <2>9 DEF TogetherInv
  <2>11. QED
    BY <2>4, <2>5, <2>10 DEF PairInv, r
<1>3. QED
  BY <1>1, <1>2, PullTakes

LEMMA EnqueueStation ==
  ASSUME NEW m, MacInv(m), NEW n, StationInv(m, n), NEW f \in Frame,
         Origin[f] = n, m.outcome[f] = "new",
         \A g \in Frame : Origin[g] = n /\ g < f => m.outcome[g] # "new"
  PROVE  Follows(m, EnqueueEth(m, f)) /\ StationInv(EnqueueEth(m, f), n)
<1> DEFINE r == EnqueueEth(m, f)
<1>1. m \in MacRecord /\ m.queue \subseteq Frame /\ m.batch \subseteq Frame
  BY DEF MacInv, MacRecord
<1>2. /\ r.batch = m.batch /\ r.seqOf = m.seqOf /\ r.responses = m.responses
      /\ \A g \in Frame : g # f => r.outcome[g] = m.outcome[g]
      /\ \/ r.outcome[f] = "refused" /\ r.queue = m.queue
         \/ r.outcome[f] = "pending" /\ r.queue = m.queue \cup {f} /\ Fits({f}, Floor)
  BY <1>1 DEF EnqueueEth, MacRecord
<1> HIDE DEF r
<1>3. Sent(r) = Sent(m)
  <2>1. f \notin Sent(r) /\ f \notin Sent(m)
    BY <1>2 DEF Sent
  <2>2. \A g \in Frame : g # f => (g \in Sent(r) <=> g \in Sent(m))
    BY <1>2 DEF Sent
  <2>3. QED
    BY <2>1, <2>2 DEF Sent
<1>4. Follows(m, r)
  BY <1>2, <1>3 DEF Follows
<1>5. OwnInv(r, n)
  BY <1>2 DEF StationInv, OwnInv
<1>6. OrderInv(r, n)
  <2>1. ASSUME NEW x \in Frame, NEW g \in Frame,
               r.outcome[x] # "new", r.outcome[g] = "new", Origin[g] = n
        PROVE  x < g
    <3>1. g # f /\ m.outcome[g] = "new"
      BY <1>2, <2>1
    <3>2. CASE x = f
      <4>1. f \in Nat /\ g \in Nat /\ ~(g < f)
        BY <2>1, <3>1, FrameAssumption
      <4>2. QED
        BY <3>1, <3>2, <4>1
    <3>3. CASE x # f
      <4>1. m.outcome[x] # "new"
        BY <1>2, <2>1, <3>3
      <4>2. QED
        BY <2>1, <3>1, <4>1 DEF StationInv, OrderInv
    <3>4. QED
      BY <3>2, <3>3
  <2>2. ASSUME NEW x \in Sent(r), NEW g \in r.queue PROVE x < g
    <3>1. x \in Sent(m) /\ x \in Frame /\ m.outcome[x] # "new"
      BY <1>3 DEF Sent
    <3>2. g \in m.queue \/ g = f
      BY <1>2
    <3>3. QED
      BY <3>1, <3>2 DEF StationInv, OrderInv
  <2>3. QED
    BY <2>1, <2>2 DEF OrderInv
<1>7. BuildInv(r)
  <2>1. \A g \in Held(r) : g \in Held(m) \/ (g = f /\ Fits({f}, Floor))
    BY <1>2 DEF Held
  <2>2. FloorInv(r)
    BY <2>1 DEF StationInv, BuildInv, FloorInv
  <2>3. \A g \in Frame : r.outcome[g] # "unbuildable"
    BY <1>2 DEF StationInv, BuildInv
  <2>4. QED
    BY <2>2, <2>3 DEF BuildInv
<1>8. DestInv(r)
  BY <1>2 DEF StationInv, DestInv
<1>9. ReplyInv(r)
  BY <1>2 DEF StationInv, ReplyInv
<1>10. QED
  BY <1>4, <1>5, <1>6, <1>7, <1>8, <1>9 DEF StationInv, r

-----------------------------------------------------------------------------
(* The inductive invariant of the system.                                  *)

LEMMA DeliveryInit == Init => DeliveryInv
<1> SUFFICES ASSUME Init PROVE DeliveryInv
  OBVIOUS
<1>1. /\ \A s \in Station : mac[s] = NewMac
      /\ \A s, n \in Station : air[s][n] = <<>> /\ dedup[n][s] = <<>>
                               /\ given[n] = [f \in Frame |-> 0]
      /\ dedup \in [Station -> [Station -> Seq(SeqNum)]]
  BY DEF Init
<1>2. /\ NewMac.queue = {} /\ NewMac.batch = {} /\ NewMac.responses = <<>>
      /\ \A f \in Frame : NewMac.outcome[f] = "new"
  BY DEF NewMac
<1>3. Sent(NewMac) = {}
  BY <1>2 DEF Sent
<1>4. \A s \in Station : StationInv(NewMac, s)
  BY <1>2, <1>3 DEF StationInv, OwnInv, OrderInv, BuildInv, FloorInv, DestInv, ReplyInv, Held
<1>5. ASSUME NEW s \in Station, NEW n \in Station, NEW count, count = [f \in Frame |-> 0]
      PROVE  PairInv(NewMac, <<>>, count, <<>>, s, n)
  <2>1. Len(<<>>) = 0 /\ <<>> \in Seq(Ppdu) /\ <<>> \in Seq(SeqNum)
    OBVIOUS
  <2>2. LineInv(<<>>, NewMac, s, n) /\ \A f : ~Coming(NewMac.batch, <<>>, f)
    BY <1>2, <2>1 DEF LineInv, Coming
  <2>3. RingInv(<<>>)
    BY <2>1, ConfigAssumption DEF RingInv
  <2>4. GivenInv(count, NewMac, s, n)
    BY <1>5 DEF GivenInv
  <2>5. QED
    BY <2>2, <2>3, <2>4 DEF PairInv, TogetherInv
<1>6. QED
  BY <1>1, <1>4, <1>5, LinkInvInit DEF DeliveryInv

(* One station's record moves on; the lines, rings and hosts may, too.     *)
LEMMA RecordStep ==
  ASSUME DeliveryInv, LinkInv', NEW k \in Station, NEW r, mac' = [mac EXCEPT ![k] = r],
         Follows(mac[k], r), StationInv(r, k),
         dedup' \in [Station -> [Station -> Seq(SeqNum)]],
         \A s, n \in Station : PairInv(mac[s], air'[s][n], given'[n], dedup'[n][s], s, n)
  PROVE  DeliveryInv'
<1>1. mac \in [Station -> MacRecord]
  BY DEF DeliveryInv, LinkInv, EngineTypeOK
<1>2. \A s \in Station : mac'[s] = IF s = k THEN r ELSE mac[s]
  BY <1>1
<1>3. \A s \in Station : StationInv(mac'[s], s)
  BY <1>2 DEF DeliveryInv
<1>4. ASSUME NEW s \in Station, NEW n \in Station
      PROVE  PairInv(mac'[s], air'[s][n], given'[n], dedup'[n][s], s, n)
  <2>1. PairInv(mac[s], air'[s][n], given'[n], dedup'[n][s], s, n)
    OBVIOUS
  <2>2. CASE s = k
    <3>1. mac'[s] = r /\ Follows(mac[s], r)
      BY <1>2, <2>2
    <3>2. QED
      BY <2>1, <3>1, PairFollows
  <2>3. CASE s # k
    BY <1>2, <2>1, <2>3
  <2>4. QED
    BY <2>2, <2>3
<1>5. QED
  BY <1>3, <1>4 DEF DeliveryInv

(* One station settles some frames and may pull the next batch.            *)
LEMMA PullStep ==
  ASSUME DeliveryInv, LinkInv', NEW k \in Station, NEW q, MacInv(q), Settles(mac[k], q),
         mac' = [mac EXCEPT ![k] = PullBatch(q)], UNCHANGED <<dedup, air, given>>
  PROVE  DeliveryInv'
<1>1. /\ mac \in [Station -> MacRecord] /\ given \in [Station -> [Frame -> Nat]]
      /\ MacInv(mac[k]) /\ StationInv(mac[k], k)
  BY DEF DeliveryInv, LinkInv, EngineTypeOK
<1>2. Follows(mac[k], q) /\ StationInv(q, k)
  BY <1>1, SettlesKeeps
<1>3. \A s \in Station : mac'[s] = IF s = k THEN PullBatch(q) ELSE mac[s]
  BY <1>1
<1>4. \A s \in Station : StationInv(mac'[s], s)
  BY <1>2, <1>3, PullStation DEF DeliveryInv
<1>5. ASSUME NEW s \in Station, NEW n \in Station
      PROVE  PairInv(mac'[s], air[s][n], given[n], dedup[n][s], s, n)
  <2>1. PairInv(mac[s], air[s][n], given[n], dedup[n][s], s, n) /\ given[n] \in [Frame -> Nat]
    BY <1>1 DEF DeliveryInv
  <2>2. CASE s = k
    <3>1. PairInv(q, air[s][n], given[n], dedup[n][s], s, n)
      BY <1>2, <2>1, <2>2, PairFollows
    <3>2. PairInv(PullBatch(q), air[s][n], given[n], dedup[n][s], s, n)
      BY <1>2, <2>1, <2>2, <3>1, PullPair
    <3>3. QED
      BY <1>3, <2>2, <3>2
  <2>3. CASE s # k
    BY <1>3, <2>1, <2>3
  <2>4. QED
    BY <2>2, <2>3
<1>6. QED
  BY <1>4, <1>5 DEF DeliveryInv

(* A station transmits frames of its batch, or none.                       *)
LEMMA TransmitPairs ==
  ASSUME DeliveryInv, NEW k \in Station, NEW p, Transmit(k, p),
         \A n \in Station : n \in DOMAIN p =>
           p[n] \in Ppdu /\ PpduInv(p[n], mac[k], k, n) /\ Frames(p[n]) \subseteq mac[k].batch,
         NEW s \in Station, NEW n \in Station
  PROVE  PairInv(mac[s], air'[s][n], given[n], dedup[n][s], s, n)
<1>1. air \in [Station -> [Station -> Seq(Ppdu)]]
  BY DEF DeliveryInv, LinkInv, EngineTypeOK
<1>2. PairInv(mac[s], air[s][n], given[n], dedup[n][s], s, n)
  BY DEF DeliveryInv
<1>3. air'[s][n] = IF s = k /\ n \in DOMAIN p THEN Append(air[s][n], p[n]) ELSE air[s][n]
  BY <1>1 DEF Transmit
<1>4. CASE s = k /\ n \in DOMAIN p
  BY <1>2, <1>3, <1>4, PairAppend
<1>5. CASE ~(s = k /\ n \in DOMAIN p)
  BY <1>2, <1>3, <1>5
<1>6. QED
  BY <1>4, <1>5

LEMMA ControlPairs ==
  ASSUME DeliveryInv, NEW k \in Station, NEW p \in Ppdu, p.type # "data", NEW H,
         Transmit(k, [n \in H |-> p]), NEW s \in Station, NEW n \in Station
  PROVE  PairInv(mac[s], air'[s][n], given[n], dedup[n][s], s, n)
<1> DEFINE q == [x \in H |-> p]
<1>1. \A x \in Station : x \in DOMAIN q =>
        q[x] \in Ppdu /\ PpduInv(q[x], mac[k], k, x) /\ Frames(q[x]) \subseteq mac[k].batch
  BY DEF PpduInv, Frames
<1> HIDE DEF q
<1>2. Transmit(k, q)
  BY DEF q
<1>3. QED
  BY <1>1, <1>2, TransmitPairs

(* A PPDU without frames is received: nobody's host gets anything.         *)
LEMMA HearsPairs ==
  ASSUME DeliveryInv, NEW k \in Station, NEW z \in Station, NEW type, Hears(k, z, type),
         NEW s \in Station, NEW n \in Station
  PROVE  PairInv(mac[s], air'[s][n], given[n], dedup[n][s], s, n)
<1>1. air \in [Station -> [Station -> Seq(Ppdu)]]
  BY DEF DeliveryInv, LinkInv, EngineTypeOK
<1>2. PairInv(mac[s], air[s][n], given[n], dedup[n][s], s, n)
  BY DEF DeliveryInv
<1>3. air'[s][n] = IF s = z /\ n = k THEN Tail(air[s][n]) ELSE air[s][n]
  BY <1>1 DEF Hears
<1>4. CASE s = z /\ n = k
  <2>1. air[s][n] # <<>>
    BY <1>4 DEF Hears
  <2>2. QED
    BY <1>2, <1>3, <1>4, <2>1, PairHears
<1>5. CASE ~(s = z /\ n = k)
  BY <1>2, <1>3, <1>5
<1>6. QED
  BY <1>4, <1>5

LEMMA DataIsOwn ==
  ASSUME NEW m, NEW k \in Station, MacInv(m), StationInv(m, k),
         NEW P \in SUBSET m.batch, NEW got \in SUBSET P, NEW seed,
         NEW n \in Station, n # k, \A f \in P : Dest[f] \in {n, Group}
  PROVE  /\ PpduInv(DataPpdu(m, P, got, seed), m, k, n)
         /\ Frames(DataPpdu(m, P, got, seed)) \subseteq m.batch
<1> DEFINE p == DataPpdu(m, P, got, seed)
<1>1. m \in MacRecord /\ m.batch \in SUBSET Frame /\ m.batch \cap m.queue = {}
      /\ \A f \in m.batch : m.outcome[f] = "pending"
  BY DEF MacInv, MacRecord, HoldInv, Held
<1>2. p.type = "data" /\ p.mpdus = {Mpdu(m, f) : f \in got}
  BY DEF DataPpdu
<1>3. IsFiniteSet(got) /\ got \in SUBSET Frame
  BY <1>1, FramesCount
<1>4. IsFiniteSet(p.mpdus)
  <2> DEFINE M == {Mpdu(m, f) : f \in got}
             F == [f \in got |-> Mpdu(m, f)]
  <2>1. F \in [got -> M] /\ \A x \in M : \E f \in got : F[f] = x
    OBVIOUS
  <2> HIDE DEF F, M
  <2>2. F \in Surjection(got, M)
    BY <2>1, Fun_IsSurj
  <2>3. IsFiniteSet(M)
    BY <1>3, <2>2, FS_Surjection
  <2>4. QED
    BY <1>2, <2>3 DEF M
<1>5. ASSUME NEW f \in got PROVE MpduInv(Mpdu(m, f), m, k, n)
  <2>1. f \in P /\ f \in m.batch /\ f \in Frame
    BY <1>1
  <2>2. Mpdu(m, f) \in MpduRecord
    BY <1>1, <2>1, MpduTyped
  <2>3. Mpdu(m, f).frame = f /\ Mpdu(m, f).seq = m.seqOf[f]
    BY DEF Mpdu
  <2>4. f \in Sent(m)
    BY <1>1, <2>1 DEF Sent
  <2>5. QED
    BY <2>1, <2>2, <2>3, <2>4 DEF MpduInv
<1>6. PpduInv(p, m, k, n)
  BY <1>2, <1>4, <1>5 DEF PpduInv
<1>7. \A x \in p.mpdus : x.frame \in m.batch
  BY <1>2 DEF Mpdu
<1>8. QED
  BY <1>6, <1>7 DEF Frames

LEMMA OfferStep ==
  ASSUME DeliveryInv, LinkInv', NEW k \in Station, Offer(k)
  PROVE  DeliveryInv'
<1>1. mac \in [Station -> MacRecord] /\ MacInv(mac[k]) /\ StationInv(mac[k], k)
  BY DEF DeliveryInv, LinkInv, EngineTypeOK
<1>2. PICK f \in Frame :
        /\ Origin[f] = k /\ mac[k].outcome[f] = "new"
        /\ \A g \in Frame : Origin[g] = k /\ g < f => mac[k].outcome[g] # "new"
        /\ mac' = [mac EXCEPT ![k] = EnqueueEth(mac[k], f)]
        /\ UNCHANGED <<dedup, air, given>>
  BY <1>1 DEF Offer
<1>3. Follows(mac[k], EnqueueEth(mac[k], f)) /\ StationInv(EnqueueEth(mac[k], f), k)
  BY <1>1, <1>2, EnqueueStation
<1>4. /\ dedup' \in [Station -> [Station -> Seq(SeqNum)]]
      /\ \A s, n \in Station : PairInv(mac[s], air'[s][n], given'[n], dedup'[n][s], s, n)
  BY <1>2 DEF DeliveryInv
<1>5. QED
  BY <1>2, <1>3, <1>4, RecordStep

(* A handler that settles frames, with the line as the lemmas above say.   *)
LEMMA SettleStep ==
  ASSUME DeliveryInv, LinkInv', NEW k \in Station, NEW r, Settles(mac[k], r),
         mac' = [mac EXCEPT ![k] = r], UNCHANGED <<dedup, given>>,
         \A s, n \in Station : PairInv(mac[s], air'[s][n], given[n], dedup[n][s], s, n)
  PROVE  DeliveryInv'
<1>1. MacInv(mac[k]) /\ StationInv(mac[k], k)
  BY DEF DeliveryInv, LinkInv
<1>2. Follows(mac[k], r) /\ StationInv(r, k)
  BY <1>1, SettlesKeeps
<1>3. dedup' \in [Station -> [Station -> Seq(SeqNum)]]
  BY DEF DeliveryInv
<1>4. \A s, n \in Station : PairInv(mac[s], air'[s][n], given'[n], dedup'[n][s], s, n)
  OBVIOUS
<1>5. QED
  BY <1>2, <1>3, <1>4, RecordStep

LEMMA PollDataStep ==
  ASSUME DeliveryInv, LinkInv', NEW k \in Station, PollData(k)
  PROVE  DeliveryInv'
<1> DEFINE m == mac[k]
<1>1. /\ mac \in [Station -> MacRecord] /\ MacInv(m) /\ StationInv(m, k)
      /\ m \in MacRecord /\ m.batch \in SUBSET Frame
  BY DEF DeliveryInv, LinkInv, EngineTypeOK, MacInv, MacRecord
<1>2. PICK c \in Choice, seed \in Seed :
        LET P == PlanAttempt(m.batch, c)
            audience == IF \E f \in P : Dest[f] = Group THEN Station \ {k}
                        ELSE {Dest[f] : f \in P}
        IN /\ \E got \in [audience -> SUBSET P] :
                Transmit(k, [r \in {s \in audience : got[s] # {}} |->
                               DataPpdu(m, P, got[r], seed)])
           /\ mac' = [mac EXCEPT ![k] = Attempt(@, P, seed)]
  BY DEF PollData
<1> DEFINE P == PlanAttempt(m.batch, c)
           audience == IF \E f \in P : Dest[f] = Group THEN Station \ {k}
                       ELSE {Dest[f] : f \in P}
<1>3. mac' = [mac EXCEPT ![k] = Attempt(mac[k], P, seed)] /\ UNCHANGED <<dedup, given>>
  BY <1>1, <1>2 DEF PollData
<1>4. PICK got \in [audience -> SUBSET P] :
        Transmit(k, [r \in {s \in audience : got[s] # {}} |-> DataPpdu(m, P, got[r], seed)])
  BY <1>2
<1>5. P \in SUBSET m.batch /\ P \in SUBSET Frame
  BY <1>1, PlanIsPrefix
<1>6. P # {}
  <2>1. m.batch # {}
    BY <1>1 DEF PollData, MacInv, ModeInv
  <2>2. \A f \in m.batch : Fits({f}, Floor)
    BY <1>1 DEF StationInv, BuildInv, FloorInv, Held
  <2> HIDE DEF m
  <2>3. QED
    BY <1>1, <2>1, <2>2, PlanIsSomething
<1>7. \A f, g \in P : f \in Frame /\ Dest[f] = Dest[g] /\ Dest[f] # k
  <2>1. \A f \in P : m.outcome[f] = "pending"
    BY <1>1, <1>5 DEF MacInv, HoldInv, Held
  <2>2. \A f \in P : Origin[f] = k
    BY <1>1, <1>5, <2>1 DEF StationInv, OwnInv
  <2>3. QED
    BY <1>1, <1>5, <2>2, FrameAssumption DEF StationInv, DestInv
<1> HIDE DEF P
<1>8. ASSUME NEW n \in Station, n \in audience
      PROVE  n # k /\ \A f \in P : Dest[f] \in {n, Group}
  BY <1>7, <1>8
<1> DEFINE heard == {s \in audience : got[s] # {}}
           p == [r \in heard |-> DataPpdu(m, P, got[r], seed)]
<1>9. ASSUME NEW n \in Station, n \in heard
      PROVE  p[n] \in Ppdu /\ PpduInv(p[n], m, k, n) /\ Frames(p[n]) \subseteq m.batch
  <2>1. /\ n \in audience /\ got[n] \in SUBSET P /\ got[n] # {}
        /\ p[n] = DataPpdu(m, P, got[n], seed)
    BY <1>4, <1>9
  <2>2. n # k /\ \A f \in P : Dest[f] \in {n, Group}
    BY <1>8, <2>1
  <2> HIDE DEF p, m
  <2>3. p[n] \in Ppdu
    BY <1>1, <1>5, <2>1, DataPpduTyped
  <2> DEFINE hears == got[n]
             q == DataPpdu(m, P, hears, seed)
  <2>4. hears \in SUBSET P /\ p[n] = q
    BY <2>1
  <2> HIDE DEF hears
  <2>5. PpduInv(q, m, k, n) /\ Frames(q) \subseteq m.batch
    BY <1>1, <1>5, <2>2, <2>4, DataIsOwn
  <2> HIDE DEF q
  <2>6. PpduInv(p[n], m, k, n) /\ Frames(p[n]) \subseteq m.batch
    BY <2>4, <2>5
  <2>7. QED
    BY <2>3, <2>6
<1>10. DOMAIN p = heard /\ Transmit(k, p)
  BY <1>4
<1> HIDE DEF heard, p, audience
<1>11. \A s, n \in Station : PairInv(mac[s], air'[s][n], given[n], dedup[n][s], s, n)
  BY <1>9, <1>10, TransmitPairs
<1>12. Settles(mac[k], Attempt(mac[k], P, seed))
  BY <1>1, <1>5, <1>6, AttemptSettles
<1>13. QED
  BY <1>3, <1>11, <1>12, SettleStep

(* What ReceiveData does, to the one host and ring it concerns.            *)
Noted(k, z) == Deduplicate(dedup[k][z], Head(air[z][k]).mpdus)

LEMMA ReceiveDataPairs ==
  ASSUME DeliveryInv, NEW k \in Station, NEW z \in Station, ReceiveData(k, z)
  PROVE  /\ given' = [given EXCEPT ![k] = Handed(given[k], Noted(k, z).fresh)]
         /\ dedup' = [dedup EXCEPT ![k][z] = Noted(k, z).ring]
         /\ RingInv(Noted(k, z).ring)
         /\ air[z][k] # <<>> /\ Head(air[z][k]) = air[z][k][1]
         /\ Noted(k, z).fresh \subseteq Frames(air[z][k][1])
         /\ PairInv(mac[z], Tail(air[z][k]), Handed(given[k], Noted(k, z).fresh),
                    Noted(k, z).ring, z, k)
         /\ air' = [air EXCEPT ![z][k] = Tail(air[z][k])]
<1> DEFINE d == Noted(k, z)
<1>1. /\ air \in [Station -> [Station -> Seq(Ppdu)]] /\ given \in [Station -> [Frame -> Nat]]
  BY DEF DeliveryInv, LinkInv, EngineTypeOK
<1>2. air[z][k] # <<>> /\ Head(air[z][k]).type = "data"
      /\ air' = [air EXCEPT ![z][k] = Tail(air[z][k])]
  BY <1>1 DEF ReceiveData, Hears
<1>3. Head(air[z][k]) = air[z][k][1]
  BY <1>1
<1>4. given' = [given EXCEPT ![k] = Handed(given[k], d.fresh)]
  BY <1>1 DEF ReceiveData, Handed, Noted
<1>5. dedup' = [dedup EXCEPT ![k][z] = d.ring]
  BY DEF ReceiveData, Noted
<1>6. PairInv(mac[z], air[z][k], given[k], dedup[k][z], z, k) /\ OwnInv(mac[z], z)
      /\ given[k] \in [Frame -> Nat]
  BY <1>1 DEF DeliveryInv, StationInv
<1>7. /\ PairInv(mac[z], Tail(air[z][k]), Handed(given[k], d.fresh), d.ring, z, k)
      /\ d.fresh \subseteq Frames(air[z][k][1])
  BY <1>2, <1>3, <1>6, PairReceives DEF Noted
<1>8. RingInv(d.ring)
  BY <1>7 DEF PairInv
<1>9. QED
  BY <1>2, <1>3, <1>4, <1>5, <1>7, <1>8

(* What is received from z is of z's host.                                 *)
LEMMA HandedIsOf ==
  ASSUME DeliveryInv, NEW k \in Station, NEW z \in Station, air[z][k] # <<>>,
         NEW f \in Frames(air[z][k][1])
  PROVE  f \in Frame /\ Origin[f] = z /\ Coming(mac[z].batch, air[z][k], f)
<1>1. LineInv(air[z][k], mac[z], z, k) /\ OwnInv(mac[z], z)
  BY DEF DeliveryInv, PairInv, StationInv
<1>2. 1 \in 1 .. Len(air[z][k])
  BY <1>1, EmptySeq, LenProperties DEF LineInv
<1>3. f \in Sent(mac[z])
  BY <1>1, <1>2 DEF LineInv, PpduInv, MpduInv, Frames
<1>4. QED
  BY <1>1, <1>2, <1>3 DEF Sent, OwnInv, Coming

(* The frames of other stations do not matter.                             *)
LEMMA PairOthers ==
  ASSUME NEW m, MacInv(m), NEW s, OwnInv(m, s), NEW n, NEW line, NEW count, NEW ring,
         PairInv(m, line, count, ring, s, n),
         NEW count2, \A f \in Frame : Origin[f] = s => count2[f] = count[f]
  PROVE  PairInv(m, line, count2, ring, s, n)
<1>1. GivenInv(count2, m, s, n)
  BY DEF PairInv, GivenInv
<1>2. ASSUME NEW f \in Frame, Coming(m.batch, line, f) PROVE Origin[f] = s
  <2>1. f \in m.batch => m.outcome[f] = "pending"
    BY DEF MacInv, HoldInv, Held
  <2>2. (\E i \in 1 .. Len(line) : f \in Frames(line[i])) => f \in Sent(m)
    BY DEF PairInv, LineInv, PpduInv, MpduInv, Frames
  <2>3. QED
    BY <1>2, <2>1, <2>2 DEF Coming, Sent, OwnInv
<1>3. ASSUME NEW f \in Frame, Coming(m.batch, line, f)
      PROVE  \E B \in SUBSET Frame : BatchOf(m, line, count2, ring, s, f, B)
  <2>1. PICK B \in SUBSET Frame : BatchOf(m, line, count, ring, s, f, B)
    BY <1>3 DEF PairInv, TogetherInv
  <2>2. count2[f] = count[f]
    BY <1>2, <1>3
  <2>3. AheadOf(count2, s, f) = AheadOf(count, s, f)
    BY DEF AheadOf
  <2>4. LineOf(m.batch, line, count2, f, B)
    BY <2>1, <2>2 DEF BatchOf, LineOf
  <2>5. QED
    BY <2>1, <2>2, <2>3, <2>4 DEF BatchOf
<1>4. QED
  BY <1>1, <1>3 DEF PairInv, TogetherInv

LEMMA ReceiveDataStep ==
  ASSUME DeliveryInv, LinkInv', NEW k \in Station, NEW z \in Station, ReceiveData(k, z)
  PROVE  DeliveryInv'
<1> DEFINE d == Noted(k, z)
           r == Respond(mac[k], DataResponse(Head(air[z][k]), z))
<1> HIDE DEF d
<1>1. /\ given' = [given EXCEPT ![k] = Handed(given[k], d.fresh)]
      /\ dedup' = [dedup EXCEPT ![k][z] = d.ring] /\ RingInv(d.ring)
      /\ PairInv(mac[z], Tail(air[z][k]), Handed(given[k], d.fresh), d.ring, z, k)
      /\ air' = [air EXCEPT ![z][k] = Tail(air[z][k])]
      /\ d.fresh \subseteq Frames(air[z][k][1]) /\ air[z][k] # <<>>
  BY ReceiveDataPairs DEF d
<1>2. /\ mac \in [Station -> MacRecord] /\ MacInv(mac[k]) /\ StationInv(mac[k], k)
      /\ air \in [Station -> [Station -> Seq(Ppdu)]] /\ given \in [Station -> [Frame -> Nat]]
      /\ dedup \in [Station -> [Station -> Seq(SeqNum)]]
  BY DEF DeliveryInv, LinkInv, EngineTypeOK
<1>3. mac' = [mac EXCEPT ![k] = r]
  BY <1>2 DEF ReceiveData
<1>4. Settles(mac[k], r)
  <2> DEFINE p == Head(air[z][k])
             q == DataResponse(p, z)
  <2>1. p \in Ppdu /\ p.type = "data"
    BY <1>2, HearsTyped DEF ReceiveData
  <2> HIDE DEF p
  <2>2. q \in Seq(Ppdu) /\ \A i \in 1 .. Len(q) : q[i].type # "data"
    BY <2>1, DataResponseTyped, ResponseIsControl
  <2>3. mac[k] \in MacRecord
    BY <1>2
  <2> HIDE DEF q
  <2>4. Settles(mac[k], Respond(mac[k], q))
    BY <2>2, <2>3, RespondSettles
  <2>5. QED
    BY <2>4 DEF p, q
<1> HIDE DEF r
<1>5. Follows(mac[k], r) /\ StationInv(r, k)
  BY <1>2, <1>4, SettlesKeeps
<1>6. dedup' \in [Station -> [Station -> Seq(SeqNum)]]
  BY <1>1, <1>2 DEF RingInv
<1>7. ASSUME NEW s \in Station, NEW n \in Station
      PROVE  PairInv(mac[s], air'[s][n], given'[n], dedup'[n][s], s, n)
  <2>1. PairInv(mac[s], air[s][n], given[n], dedup[n][s], s, n)
    BY DEF DeliveryInv
  <2>2. CASE s = z /\ n = k
    <3>1. /\ air'[s][n] = Tail(air[z][k]) /\ dedup'[n][s] = d.ring
          /\ given'[n] = Handed(given[k], d.fresh)
      BY <1>1, <1>2, <2>2
    <3>2. QED
      BY <1>1, <2>2, <3>1
  <2>3. CASE n # k
    <3>1. air'[s][n] = air[s][n] /\ dedup'[n][s] = dedup[n][s] /\ given'[n] = given[n]
      BY <1>1, <1>2, <2>3
    <3>2. QED
      BY <2>1, <3>1
  <2>4. CASE n = k /\ s # z
    <3>1. air'[s][n] = air[s][n] /\ dedup'[n][s] = dedup[n][s]
          /\ given'[n] = Handed(given[k], d.fresh)
      BY <1>1, <1>2, <2>4
    <3>2. MacInv(mac[s]) /\ OwnInv(mac[s], s)
      BY DEF DeliveryInv, LinkInv, StationInv
    <3>3. \A f \in Frame : Origin[f] = s => Handed(given[k], d.fresh)[f] = given[k][f]
      <4>1. \A f \in d.fresh : Origin[f] = z
        BY <1>1, HandedIsOf
      <4>2. QED
        BY <2>4, <4>1 DEF Handed
    <3>4. QED
      BY <2>1, <2>4, <3>1, <3>2, <3>3, PairOthers
  <2>5. QED
    BY <2>2, <2>3, <2>4
<1>8. QED
  BY <1>3, <1>5, <1>6, <1>7, RecordStep

LEMMA DeliveryStep == DeliveryInv /\ [Next]_vars => DeliveryInv'
<1> SUFFICES ASSUME DeliveryInv, [Next]_vars PROVE DeliveryInv'
  OBVIOUS
<1>1. /\ mac \in [Station -> MacRecord] /\ \A k \in Station : MacInv(mac[k]) /\ mac[k] \in MacRecord
      /\ LinkInv
      /\ \A s, n \in Station : PairInv(mac[s], air[s][n], given[n], dedup[n][s], s, n)
  BY DEF DeliveryInv, LinkInv, EngineTypeOK
<1>2. LinkInv'
  BY <1>1, LinkInvStep
<1>3. ASSUME NEW k \in Station, PollResponse(k) PROVE DeliveryInv'
  <2> DEFINE p == Head(mac[k].responses)
             r == [mac[k] EXCEPT !.responses = Tail(mac[k].responses)]
  <2>1. mac' = [mac EXCEPT ![k] = r] /\ UNCHANGED <<dedup, given>>
    BY <1>1, <1>3 DEF PollResponse
  <2>2. PICK H \in SUBSET Concerned(k, p) : Transmit(k, [x \in H |-> p])
    BY <1>3 DEF PollResponse
  <2>3. p \in Ppdu /\ p.type # "data"
    <3>1. mac[k].responses \in Seq(Ppdu) /\ mac[k].responses # <<>>
      BY <1>1, <1>3 DEF PollResponse, MacRecord
    <3>2. p = mac[k].responses[1] /\ 1 \in 1 .. Len(mac[k].responses) /\ p \in Ppdu
      BY <3>1, EmptySeq, LenProperties
    <3>3. ReplyInv(mac[k])
      BY DEF DeliveryInv, StationInv
    <3>4. QED
      BY <3>2, <3>3 DEF ReplyInv
  <2>4. Settles(mac[k], r)
    BY <1>1, <1>3, ReplySettles DEF PollResponse
  <2> HIDE DEF p, r
  <2>5. \A s, n \in Station : PairInv(mac[s], air'[s][n], given[n], dedup[n][s], s, n)
    BY <2>2, <2>3, ControlPairs
  <2>6. QED
    BY <1>2, <2>1, <2>4, <2>5, SettleStep
<1>4. ASSUME NEW k \in Station, PollTimeout(k) PROVE DeliveryInv'
  <2>1. mac' = [mac EXCEPT ![k] = PullBatch(FailAttempt(mac[k]))] /\ UNCHANGED <<dedup, air, given>>
    BY <1>1, <1>4 DEF PollTimeout
  <2>2. MacInv(FailAttempt(mac[k])) /\ Settles(mac[k], FailAttempt(mac[k]))
    BY <1>1, FailInv, FailSettles
  <2>3. QED
    BY <1>2, <2>1, <2>2, PullStep
<1>5. ASSUME NEW k \in Station, PollPull(k) PROVE DeliveryInv'
  <2>1. mac' = [mac EXCEPT ![k] = PullBatch(mac[k])] /\ UNCHANGED <<dedup, air, given>>
    BY <1>1, <1>5 DEF PollPull
  <2>2. QED
    BY <1>1, <1>2, <2>1, SameSettles, PullStep
<1>6. ASSUME NEW k \in Station, PollRts(k) PROVE DeliveryInv'
  <2>1. mac' = [mac EXCEPT ![k] = AwaitCts(mac[k])] /\ UNCHANGED <<dedup, given>>
    BY <1>1, <1>6 DEF PollRts
  <2> DEFINE p == [type |-> "rts"]
  <2>2. PICK H : Transmit(k, [x \in H |-> p])
    BY <1>6 DEF PollRts
  <2>3. p \in Ppdu /\ p.type # "data"
    BY ControlPpdus
  <2> HIDE DEF p
  <2>4. \A s, n \in Station : PairInv(mac[s], air'[s][n], given[n], dedup[n][s], s, n)
    BY <2>2, <2>3, ControlPairs
  <2>5. QED
    BY <1>1, <1>2, <2>1, <2>4, CtsSettles, SettleStep
<1>7. ASSUME NEW k \in Station, NEW z \in Station, Receive(k, z) PROVE DeliveryInv'
  <2>1. CASE ReceiveData(k, z)
    BY <1>2, <2>1, ReceiveDataStep
  <2>2. ASSUME NEW type, Hears(k, z, type), UNCHANGED <<dedup, given>>,
               NEW r, mac' = [mac EXCEPT ![k] = r], Settles(mac[k], r)
        PROVE  DeliveryInv'
    <3>1. \A s, n \in Station : PairInv(mac[s], air'[s][n], given[n], dedup[n][s], s, n)
      BY <2>2, HearsPairs
    <3>2. QED
      BY <1>2, <2>2, <3>1, SettleStep
  <2>3. CASE ReceiveRts(k, z)
    <3> DEFINE cts == [type |-> "cts", ra |-> PartialAid[z]]
               r == Respond(mac[k], <<cts>>)
    <3>1. Settles(mac[k], r)
      <4>1. cts \in Ppdu /\ cts.type # "data"
        BY ControlPpdus
      <4> HIDE DEF cts
      <4>2. <<cts>> \in Seq(Ppdu) /\ \A i \in 1 .. Len(<<cts>>) : <<cts>>[i].type # "data"
        BY <4>1
      <4>3. QED
        BY <1>1, <4>2, RespondSettles
    <3>2. mac' = [mac EXCEPT ![k] = r] /\ Hears(k, z, "rts") /\ UNCHANGED <<dedup, given>>
      BY <1>1, <2>3 DEF ReceiveRts
    <3> HIDE DEF r
    <3>3. QED
      BY <2>2, <3>1, <3>2
  <2> DEFINE p == Head(air[z][k])
  <2>4. CASE ReceiveNdpAck(k, z)
    <3>1. /\ mac' = [mac EXCEPT ![k] = OnNdpAck(mac[k], p)]
          /\ Hears(k, z, "ndpack") /\ UNCHANGED <<dedup, given>>
      BY <1>1, <2>4 DEF ReceiveNdpAck
    <3>2. Settles(mac[k], OnNdpAck(mac[k], p))
      BY <1>1, ResponseSettles
    <3>3. QED
      BY <2>2, <3>1, <3>2
  <2>5. CASE ReceiveBlockAck(k, z)
    <3>1. /\ mac' = [mac EXCEPT ![k] = OnBlockAck(mac[k], p)]
          /\ Hears(k, z, "ndpba") /\ UNCHANGED <<dedup, given>>
      BY <1>1, <2>5 DEF ReceiveBlockAck
    <3>2. Settles(mac[k], OnBlockAck(mac[k], p))
      BY <1>1, ResponseSettles
    <3>3. QED
      BY <2>2, <3>1, <3>2
  <2>6. CASE ReceiveAck(k, z)
    <3>1. /\ mac' = [mac EXCEPT ![k] = OnAck(mac[k])]
          /\ Hears(k, z, "ack") /\ UNCHANGED <<dedup, given>>
      BY <1>1, <2>6 DEF ReceiveAck
    <3>2. Settles(mac[k], OnAck(mac[k]))
      BY <1>1, ResponseSettles
    <3>3. QED
      BY <2>2, <3>1, <3>2
  <2>7. CASE ReceiveCts(k, z)
    <3>1. /\ mac' = [mac EXCEPT ![k] = OnCts(mac[k])]
          /\ Hears(k, z, "cts") /\ UNCHANGED <<dedup, given>>
      BY <1>1, <2>7 DEF ReceiveCts
    <3>2. Settles(mac[k], OnCts(mac[k]))
      BY <1>1, CtsSettles
    <3>3. QED
      BY <2>2, <3>1, <3>2
  <2>8. QED
    BY <1>7, <2>1, <2>3, <2>4, <2>5, <2>6, <2>7 DEF Receive
<1>8. CASE UNCHANGED vars
  <2>1. UNCHANGED mac /\ UNCHANGED dedup /\ UNCHANGED air /\ UNCHANGED given
    BY <1>8 DEF vars
  <2>2. QED
    BY <1>2, <2>1 DEF DeliveryInv
<1>9. QED
  BY <1>2, <1>3, <1>4, <1>5, <1>6, <1>7, <1>8, OfferStep, PollDataStep DEF Next, Quiescent

-----------------------------------------------------------------------------
(* The theorems: no engine is restarted.                                   *)

(* The invariant holds of every behaviour: frames travel from the host to  *)
(* the line and to the rings in batches.                                   *)
THEOREM DeliveryInvariant == Spec => []DeliveryInv
BY DeliveryInit, DeliveryStep, PTL DEF Spec

(* Every variable has its type, and note_duplicate never lets a ring of    *)
(* sequence numbers outgrow its depth.                                     *)
THEOREM TypesHold == Spec => []TypeOK
<1>1. DeliveryInv => TypeOK
  BY DEF DeliveryInv, LinkInv, PairInv, RingInv, TypeOK
<1>2. QED
  BY <1>1, DeliveryInvariant, PTL

(* note_duplicate and on_phy_event hand a frame to a host at most once,    *)
(* however often it is heard, and only if it is meant for that host: also  *)
(* after sequence numbers wrap around.                                     *)
THEOREM DeliveredAtMostOnce == Spec => []AtMostOnce
<1>1. DeliveryInv => AtMostOnce
  <2> SUFFICES ASSUME DeliveryInv, NEW n \in Station, NEW f \in Frame
               PROVE  given[n][f] <= IF n # Origin[f] /\ Dest[f] \in {n, Group} THEN 1 ELSE 0
    BY DEF AtMostOnce
  <2>1. Origin[f] \in Station
    BY FrameAssumption
  <2>2. GivenInv(given[n], mac[Origin[f]], Origin[f], n)
    BY <2>1 DEF DeliveryInv, PairInv
  <2>3. /\ given[n][f] \in {0, 1}
        /\ given[n][f] = 1 => Origin[f] # n /\ Dest[f] \in {n, Group}
    BY <2>2 DEF GivenInv
  <2>4. QED
    BY <2>3
<1>2. QED
  BY <1>1, DeliveryInvariant, PTL

LEMMA HandsOver ==
  ASSUME DeliveryInv, NEW k \in Station, NEW z \in Station, ReceiveData(k, z)
  PROVE  \E F : /\ given' = [given EXCEPT ![k] = Handed(given[k], F)]
                /\ air[z][k] # <<>> /\ F \subseteq Frames(air[z][k][1])
BY ReceiveDataPairs

(* A frame that is handed over (on_phy_event) after later frames of its    *)
(* host comes from the same batch as they: there are fewer than MaxAmpdu.  *)
LEMMA StepKeepsOrder ==
  ASSUME DeliveryInv, [Next]_vars, NEW n \in Station, NEW f \in Frame,
         given'[n][f] > given[n][f]
  PROVE  Cardinality(Overtaken(n, f)) < MaxAmpdu
<1>1. given' # given
  <2>1. given[n][f] \in Nat
    BY DEF DeliveryInv, LinkInv, EngineTypeOK
  <2>2. QED
    BY <2>1
<1>2. PICK k \in Station, z \in Station : ReceiveData(k, z)
  BY <1>1 DEF Next, vars, Offer, PollResponse, PollTimeout, PollPull, PollRts, PollData,
              Receive, ReceiveRts, ReceiveNdpAck, ReceiveBlockAck, ReceiveAck, ReceiveCts,
              Quiescent
<1>3. PICK F : /\ given' = [given EXCEPT ![k] = Handed(given[k], F)]
               /\ air[z][k] # <<>> /\ F \subseteq Frames(air[z][k][1])
  BY <1>2, HandsOver
<1>4. k = n /\ f \in F
  <2>1. given \in [Station -> [Frame -> Nat]]
    BY DEF DeliveryInv, LinkInv, EngineTypeOK
  <2>2. given'[n] = IF k = n THEN Handed(given[k], F) ELSE given[n]
    BY <1>3, <2>1
  <2>3. given[n][f] \in Nat
    BY <2>1
  <2>4. k = n
    BY <2>2, <2>3
  <2>5. Handed(given[k], F)[f] # given[k][f]
    BY <2>2, <2>3, <2>4
  <2>6. QED
    BY <2>4, <2>5 DEF Handed
<1>5. Origin[f] = z /\ Coming(mac[z].batch, air[z][k], f)
  BY <1>3, <1>4, HandedIsOf
<1>6. PICK B \in SUBSET Frame : BatchOf(mac[z], air[z][k], given[k], dedup[k][z], z, f, B)
  BY <1>5 DEF DeliveryInv, PairInv, TogetherInv
<1>7. Overtaken(n, f) \subseteq B \ {f}
  <2>1. \A g \in Overtaken(n, f) : f < g /\ g # f
    <3>1. \A g \in Frame : g > f => f < g /\ g # f
      BY FrameAssumption
    <3>2. QED
      BY <3>1 DEF Overtaken
  <2>2. Overtaken(n, f) \subseteq AheadOf(given[k], z, f)
    BY <1>4, <1>5, <2>1 DEF Overtaken, AheadOf
  <2>3. QED
    BY <1>6, <2>1, <2>2 DEF BatchOf
<1>8. IsFiniteSet(B) /\ Cardinality(B) \in Nat
  BY FramesCount
<1>9. f \in B /\ Cardinality(B) <= MaxAmpdu /\ MaxAmpdu \in Nat
  BY <1>6, ConfigAssumption DEF BatchOf
<1>10. IsFiniteSet(B \ {f}) /\ Cardinality(B \ {f}) = Cardinality(B) - 1
  BY <1>8, <1>9, FS_RemoveElement
<1>11. Cardinality(Overtaken(n, f)) <= Cardinality(B \ {f})
       /\ Cardinality(Overtaken(n, f)) \in Nat
  BY <1>7, <1>10, FS_Subset, FS_CardinalityType
<1>12. QED
  BY <1>8, <1>9, <1>10, <1>11

(* A host sees frames of a peer out of order (on_phy_event has no reorder  *)
(* buffer) only within a batch.                                            *)
THEOREM OrderIsKept == Spec => ReorderWithinBatch
<1>1. DeliveryInv /\ [Next]_vars =>
        [\A n \in Station, f \in Frame :
           given'[n][f] > given[n][f] => Cardinality(Overtaken(n, f)) < MaxAmpdu]_vars
  BY StepKeepsOrder
<1>2. QED
  BY <1>1, DeliveryInvariant, PTL DEF Spec, ReorderWithinBatch

(* What enqueue_eth accepts after its size check, plan_attempt can build:  *)
(* no accepted frame is thrown away for its size.                          *)
THEOREM AcceptedFits == Spec => []AcceptedIsBuildable
<1>1. DeliveryInv => AcceptedIsBuildable
  <2> SUFFICES ASSUME DeliveryInv, NEW f \in Frame
               PROVE  mac[Origin[f]].outcome[f] # "unbuildable"
    BY DEF AcceptedIsBuildable
  <2>1. Origin[f] \in Station
    BY FrameAssumption
  <2>2. QED
    BY <2>1 DEF DeliveryInv, StationInv, BuildInv
<1>2. QED
  BY <1>1, DeliveryInvariant, PTL

-----------------------------------------------------------------------------
(* What an acknowledgment says.                                            *)

(* Frames are numbered in the order sent, without a gap.                   *)
NumberInv(m) ==
  /\ m.seq = Cardinality(Sent(m)) % SeqSpace
  /\ \A f \in Sent(m) : m.seqOf[f] = Cardinality({g \in Sent(m) : g < f})

(* What is awaited names the flight.                                       *)
AwaitInv(m) ==
  /\ m.expect.type # "ack"
  /\ m.expect.type = "ndpack" => \E f \in Frame : m.flight = {f} /\ m.expect.id[2] = f
  /\ \A f \in m.flight : Dest[f] # Group

Acknowledged(f, G) == Dest[f] # Group /\ G[Dest[f]][f] > 0
AckedInv(m, n, G) ==
  \A f \in Frame : Origin[f] = n /\ m.outcome[f] = "acked" => Acknowledged(f, G)

(* A data PPDU that asks for an answer says whether it holds one MPDU.     *)
DataInv(p) ==
  p.type = "data" =>
    /\ ~p.multi => \E x \in p.mpdus : p.mpdus = {x}
    /\ p.multi => MaxAmpdu # 1
    /\ p.response # "normal"
    /\ p.response # "none" => \A x \in p.mpdus : Dest[x.frame] # Group

(* An answer of n names what n's host has, given the stations' records M.  *)
AnswerInv(p, n, count, M) ==
  /\ p.type = "ndpack" => \E f \in Frame : p.id[2] = f /\ Dest[f] = n /\ count[f] > 0
  /\ p.type = "ndpba" =>
       /\ MaxAmpdu # 1 /\ p.ssn \in SeqNum
       /\ \A d \in p.bits : \E g \in Frame :
            /\ Dest[g] = n /\ count[g] > 0
            /\ Offset(M[Origin[g]].seqOf[g], p.ssn) = d

(* The ring of n remembers frames of s that n's host has.                  *)
RingGiven(ring, m, count, s) ==
  \A v \in ToSet(ring) : \E g \in Frame :
    Origin[g] = s /\ count[g] > 0 /\ v = m.seqOf[g]

(* What a PPDU on the line from s to n says is so.                         *)
Says(p, s, n, count, M) ==
  DataInv(p) /\ AnswerInv(p, s, count, M) /\ (p.type = "ndpba" => s # n)

AckInv ==
  /\ DeliveryInv
  /\ \A s \in Station :
       /\ NumberInv(mac[s]) /\ AwaitInv(mac[s]) /\ AckedInv(mac[s], s, given)
       /\ \A p \in ToSet(mac[s].responses) : AnswerInv(p, s, given[s], mac)
  /\ \A s, n \in Station :
       /\ \A p \in ToSet(air[s][n]) : Says(p, s, n, given[s], mac)
       /\ RingGiven(dedup[n][s], mac[s], given[n], s)

(* What a queue holds after one operation.                                 *)
LEMMA QueueHolds ==
  ASSUME NEW T, NEW q \in Seq(T)
  PROVE  /\ \A x \in T : ToSet(Append(q, x)) \subseteq ToSet(q) \cup {x}
         /\ \A r \in Seq(T) : ToSet(q \o r) \subseteq ToSet(q) \cup ToSet(r)
         /\ q # <<>> => Head(q) \in ToSet(q) /\ ToSet(Tail(q)) \subseteq ToSet(q)
<1>1. \A r \in Seq(T) : Len(r) \in Nat /\ DOMAIN r = 1 .. Len(r)
  BY LenProperties
<1>2. ASSUME NEW x \in T, NEW y \in ToSet(Append(q, x)) PROVE y \in ToSet(q) \cup {x}
  <2> DEFINE a == Append(q, x)
  <2>1. Len(a) = Len(q) + 1 /\ a \in Seq(T)
        /\ \A i \in 1 .. Len(a) : a[i] = IF i <= Len(q) THEN q[i] ELSE x
    BY <1>1, AppendProperties
  <2> HIDE DEF a
  <2>2. PICK i \in 1 .. Len(a) : y = a[i]
    BY <1>1, <1>2, <2>1 DEF ToSet, a
  <2>3. i <= Len(q) => i \in 1 .. Len(q)
    BY <1>1, <2>1
  <2>4. QED
    BY <1>1, <2>1, <2>2, <2>3 DEF ToSet
<1>3. ASSUME NEW r \in Seq(T), NEW y \in ToSet(q \o r) PROVE y \in ToSet(q) \cup ToSet(r)
  <2> DEFINE a == q \o r
  <2>1. Len(a) = Len(q) + Len(r) /\ a \in Seq(T)
        /\ \A i \in 1 .. Len(a) : a[i] = IF i <= Len(q) THEN q[i] ELSE r[i - Len(q)]
    BY <1>1, ConcatProperties
  <2> HIDE DEF a
  <2>2. PICK i \in 1 .. Len(a) : y = a[i]
    BY <1>1, <1>3, <2>1 DEF ToSet, a
  <2>3. IF i <= Len(q) THEN i \in 1 .. Len(q) ELSE i - Len(q) \in 1 .. Len(r)
    BY <1>1, <2>1
  <2>4. QED
    BY <1>1, <2>1, <2>2, <2>3 DEF ToSet
<1>4. ASSUME q # <<>> PROVE Head(q) \in ToSet(q) /\ ToSet(Tail(q)) \subseteq ToSet(q)
  <2>1. /\ Tail(q) \in Seq(T) /\ Len(q) \in Nat \ {0} /\ Len(Tail(q)) = Len(q) - 1
        /\ \A i \in 1 .. Len(Tail(q)) : Tail(q)[i] = q[i + 1]
        /\ Head(q) = q[1]
    BY <1>4, EmptySeq, LenProperties, HeadTailProperties
  <2>2. Head(q) \in ToSet(q)
    BY <1>1, <2>1 DEF ToSet
  <2> DEFINE t == Tail(q)
  <2> HIDE DEF t
  <2>3. ASSUME NEW y \in ToSet(t) PROVE y \in ToSet(q)
    <3>1. PICK i \in 1 .. Len(t) : y = t[i]
      BY <1>1, <2>1, <2>3 DEF ToSet, t
    <3>2. i + 1 \in 1 .. Len(q) /\ y = q[i + 1]
      BY <2>1, <3>1 DEF t
    <3>3. QED
      BY <1>1, <3>2 DEF ToSet
  <2>4. QED
    BY <2>2, <2>3 DEF t
<1>5. QED
  BY <1>2, <1>3, <1>4

(* Answers stay true: what is given stays so, what is sent keeps its number. *)
LEMMA AnswerKept ==
  ASSUME NEW p, NEW n, NEW count, NEW M, AnswerInv(p, n, count, M), NEW count2, NEW N,
         \A g \in Frame : Dest[g] = n /\ count[g] > 0 =>
           count2[g] > 0 /\ N[Origin[g]].seqOf[g] = M[Origin[g]].seqOf[g]
  PROVE  AnswerInv(p, n, count2, N)
BY DEF AnswerInv

(* Offsets from one number tell numbers apart.                             *)
LEMMA OffsetTells ==
  ASSUME NEW a \in SeqNum, NEW b \in SeqNum, NEW c \in SeqNum, Offset(a, c) = Offset(b, c)
  PROVE  a = b
<1>1. SeqSpace \in Nat \ {0}
  BY ConfigAssumption
<1>2. \A x \in SeqNum : Offset(x, c) = IF x >= c THEN x - c ELSE x - c + SeqSpace
  BY <1>1 DEF Offset, SeqNum
<1>3. QED
  BY <1>1, <1>2 DEF SeqNum

(* No two frames sent have one number.                                     *)
LEMMA NumbersDiffer ==
  ASSUME NEW m, NumberInv(m), NEW f \in Sent(m), NEW g \in Sent(m),
         m.seqOf[f] = m.seqOf[g]
  PROVE  f = g
<1> DEFINE below(x) == {y \in Sent(m) : y < x}
<1>1. Sent(m) \in SUBSET Frame /\ \A x \in Sent(m) : x \in Nat
  BY FrameAssumption DEF Sent
<1>2. ASSUME NEW x \in Sent(m), NEW y \in Sent(m), x < y
      PROVE  Cardinality(below(x)) # Cardinality(below(y))
  <2>1. below(x) \subseteq below(y) /\ x \in below(y) /\ x \notin below(x)
    BY <1>1, <1>2
  <2>2. IsFiniteSet(below(y))
    BY <1>1, FramesCount
  <2> HIDE DEF below
  <2>3. QED
    BY <2>1, <2>2, FS_Subset, FS_CardinalityType
<1>3. Cardinality(below(f)) = Cardinality(below(g))
  BY DEF NumberInv
<1>4. ~(f < g) /\ ~(g < f)
  BY <1>2, <1>3
<1>5. QED
  BY <1>1, <1>4

-----------------------------------------------------------------------------
(* The handlers: whom they report acknowledged, and what they still await. *)

(* Only frames in A are newly acknowledged, nothing else is awaited than   *)
(* before, and no answer is prepared.                                      *)
Resolves(m, r, A) ==
  /\ r.responses = m.responses
  /\ r.expect.type \in {"none", "cts"} \/ (r.expect = m.expect /\ r.flight = m.flight)
  /\ \A f \in Frame : r.outcome[f] = "acked" => m.outcome[f] = "acked" \/ f \in A

LEMMA ResolvesAwait ==
  ASSUME NEW m, AwaitInv(m), NEW r, MacInv(r), NEW A, Resolves(m, r, A)
  PROVE  AwaitInv(r)
<1>1. CASE r.expect.type \in {"none", "cts"}
  <2>1. r.flight = {}
    BY <1>1 DEF MacInv, ModeInv
  <2>2. QED
    BY <1>1, <2>1 DEF AwaitInv
<1>2. CASE r.expect = m.expect /\ r.flight = m.flight
  BY <1>2 DEF AwaitInv
<1>3. QED
  BY <1>1, <1>2 DEF Resolves

LEMMA RetryContinues ==
  ASSUME NEW m, m \in MacRecord, NEW F, F \subseteq m.batch, NEW r, r = Continue(Retry(m, F))
  PROVE  /\ r.expect = NoResponse /\ r.responses = m.responses
         /\ \A f \in Frame : r.outcome[f] = "acked" => m.outcome[f] = "acked"
<1> DEFINE q == Retry(m, F)
           over == {f \in F : m.retries[f] + 1 > MaxRetries}
<1>1. /\ q.responses = m.responses
      /\ \A f \in Frame : q.outcome[f] = "acked" => m.outcome[f] = "acked"
  BY DEF Retry, MacRecord
<1>2. q \in MacRecord
  BY RetrySettles
<1> HIDE DEF q
<1>3. /\ Continue(q).expect = NoResponse /\ Continue(q).outcome = q.outcome
      /\ Continue(q).responses = q.responses
  BY <1>2 DEF Continue, Finish, StartBackoff, MacRecord
<1>4. QED
  BY <1>1, <1>3 DEF q

LEMMA AttemptResolves ==
  ASSUME NEW m, MacInv(m), NEW acked
  PROVE  Resolves(m, ResolveAttempt(m, acked), m.flight \cap acked)
<1> DEFINE done == m.flight \cap acked
           outcome == [f \in Frame |-> IF f \in done THEN "acked" ELSE m.outcome[f]]
           q == [m EXCEPT !.batch = @ \ done,
                          !.outcome = [f \in Frame |-> IF f \in done THEN "acked"
                                                                    ELSE @[f]]]
           F == m.flight \ acked
<1>1. m \in MacRecord /\ m.flight \subseteq m.batch /\ m.batch \subseteq Frame
  BY DEF MacInv, ModeInv, MacRecord
<1>2. outcome \in [Frame -> Outcome]
  BY <1>1 DEF Outcome, MacRecord
<1>3. q = [m EXCEPT !.batch = m.batch \ done, !.outcome = outcome]
  BY <1>1 DEF MacRecord
<1>4. \A f \in Frame : outcome[f] = IF f \in done THEN "acked" ELSE m.outcome[f]
  OBVIOUS
<1>5. ResolveAttempt(m, acked) = Continue(Retry(q, F))
  BY DEF ResolveAttempt
<1> HIDE DEF outcome, q
<1>6. q \in MacRecord /\ q.batch = m.batch \ done /\ q.outcome = outcome
      /\ q.responses = m.responses
  BY <1>1, <1>2, <1>3 DEF MacRecord
<1>7. F \subseteq q.batch
  BY <1>1, <1>6
<1> DEFINE r == ResolveAttempt(m, acked)
<1> HIDE DEF r, F
<1>8. r = Continue(Retry(q, F))
  BY <1>5 DEF r
<1>9. /\ r.expect = NoResponse /\ r.responses = q.responses
      /\ \A f \in Frame : r.outcome[f] = "acked" => q.outcome[f] = "acked"
  BY <1>6, <1>7, <1>8, RetryContinues
<1>10. \A f \in Frame : r.outcome[f] = "acked" => m.outcome[f] = "acked" \/ f \in done
  BY <1>4, <1>6, <1>9
<1>11. QED
  BY <1>6, <1>9, <1>10 DEF Resolves, NoResponse, r

LEMMA FailResolves ==
  ASSUME NEW m, MacInv(m)
  PROVE  Resolves(m, FailAttempt(m), {})
<1>1. CASE m.expect.type = "cts"
  <2> DEFINE r == Continue(Retry(m, m.batch))
  <2>1. FailAttempt(m) = r
    BY <1>1 DEF FailAttempt
  <2> HIDE DEF r
  <2>2. /\ r.expect = NoResponse /\ r.responses = m.responses
        /\ \A f \in Frame : r.outcome[f] = "acked" => m.outcome[f] = "acked"
    BY RetryContinues DEF MacInv, r
  <2>3. QED
    BY <2>1, <2>2 DEF Resolves, NoResponse
<1>2. CASE m.expect.type # "cts"
  <2>1. Resolves(m, ResolveAttempt(m, {}), m.flight \cap {})
    BY AttemptResolves
  <2>2. m.flight \cap {} = {}
    OBVIOUS
  <2>3. QED
    BY <1>2, <2>1, <2>2 DEF FailAttempt
<1>3. QED
  BY <1>1, <1>2

LEMMA PullResolves ==
  ASSUME NEW m, MacInv(m), NEW q, MacInv(q), NEW A, Resolves(m, q, A)
  PROVE  Resolves(m, PullBatch(q), A)
<1>1. CASE PullBatch(q) = q
  BY <1>1
<1>2. CASE Pulled(q, PullBatch(q), NextBatch(q.queue))
  BY <1>2 DEF Pulled, Resolves, NoResponse
<1>3. QED
  BY <1>1, <1>2, PullTakes

LEMMA SameResolves ==
  ASSUME NEW m, m \in MacRecord
  PROVE  /\ Resolves(m, m, {})
         /\ Resolves(m, OnCts(m), {}) /\ Resolves(m, AwaitCts(m), {})
<1>1. Resolves(m, m, {})
  BY DEF Resolves
<1>2. Resolves(m, OnCts(m), {})
  <2>1. CASE m.expect.type = "cts"
    <3> DEFINE r == OnCts(m)
    <3>1. r.expect = NoResponse /\ r.outcome = m.outcome /\ r.responses = m.responses
      BY <2>1 DEF OnCts, StartBackoff, MacRecord
    <3> HIDE DEF r
    <3>2. Resolves(m, r, {})
      BY <3>1 DEF Resolves, NoResponse
    <3>3. QED
      BY <3>2 DEF r
  <2>2. CASE m.expect.type # "cts"
    BY <1>1, <2>2 DEF OnCts
  <2>3. QED
    BY <2>1, <2>2
<1>3. Resolves(m, AwaitCts(m), {})
  <2> DEFINE r == AwaitCts(m)
  <2>1. r.expect.type = "cts" /\ r.outcome = m.outcome /\ r.responses = m.responses
    BY DEF AwaitCts, MacRecord
  <2> HIDE DEF r
  <2>2. Resolves(m, r, {})
    BY <2>1 DEF Resolves
  <2>3. QED
    BY <2>2 DEF r
<1>4. QED
  BY <1>1, <1>2, <1>3

(* An attempt awaits an answer that names it; nothing is acknowledged yet. *)
LEMMA AttemptAwaits ==
  ASSUME NdpAckOn, NEW m, MacInv(m), AwaitInv(m), m.mode = "backoff",
         NEW P \in SUBSET m.batch, P # {}, NEW seed \in Seed
  PROVE  /\ AwaitInv(Attempt(m, P, seed)) /\ Attempt(m, P, seed).responses = m.responses
         /\ \A f \in Frame : Attempt(m, P, seed).outcome[f] = "acked" => m.outcome[f] = "acked"
<1> DEFINE r == Attempt(m, P, seed)
           aired == [f \in Frame |-> IF f \in P THEN m.aired[f] + 1 ELSE m.aired[f]]
           outcome == [f \in Frame |-> IF f \in m.batch THEN "sent" ELSE m.outcome[f]]
           sent == [m EXCEPT !.aired = [f \in Frame |-> IF f \in P THEN @[f] + 1 ELSE @[f]]]
<1>1. m \in MacRecord /\ m.batch \in SUBSET Frame /\ P \in SUBSET Frame
  BY DEF MacInv, MacRecord
<1>2. sent = [m EXCEPT !.aired = aired]
  BY <1>1 DEF MacRecord
<1> HIDE DEF aired
<1>3. r = IF \A f \in m.batch : WantAck(f)
          THEN [sent EXCEPT !.mode = "await", !.flight = P, !.expect = Expected(m, P, seed)]
          ELSE Finish([sent EXCEPT !.outcome = [f \in Frame |->
                         IF f \in m.batch THEN "sent" ELSE @[f]]])
  BY DEF Attempt
<1>4. CASE \A f \in m.batch : WantAck(f)
  <2>1. r.flight = P /\ r.expect = Expected(m, P, seed) /\ r.outcome = m.outcome
        /\ r.responses = m.responses
    BY <1>1, <1>2, <1>3, <1>4 DEF MacRecord
  <2> HIDE DEF r
  <2>2. \A f \in r.flight : Dest[f] # Group
    BY <1>4, <2>1 DEF WantAck
  <2>3. r.expect.type # "ack"
    BY <2>1 DEF Expected
  <2>4. ASSUME r.expect.type = "ndpack"
        PROVE  \E f \in Frame : r.flight = {f} /\ r.expect.id[2] = f
    <3> DEFINE f == CHOOSE g \in P : TRUE
    <3>1. Cardinality(P) = 1 /\ r.expect.id = AckId(seed, Mpdu(m, f))
      BY <2>1, <2>4 DEF Expected
    <3>2. PICK g \in P : P = {g}
      BY <1>1, <3>1, FramesCount, FS_Singleton
    <3>3. f = g /\ f \in Frame
      BY <1>1, <3>2
    <3> HIDE DEF f
    <3>4. Mpdu(m, f).frame = f
      BY DEF Mpdu
    <3>5. r.expect.id[2] = f
      BY <3>1, <3>4 DEF AckId
    <3>6. QED
      BY <2>1, <3>2, <3>3, <3>5
  <2>5. QED
    BY <2>1, <2>2, <2>3, <2>4 DEF AwaitInv, r
<1>5. CASE ~(\A f \in m.batch : WantAck(f))
  <2>1. [sent EXCEPT !.outcome = [f \in Frame |-> IF f \in m.batch THEN "sent" ELSE @[f]]]
          = [m EXCEPT !.aired = aired, !.outcome = outcome]
    BY <1>1, <1>2 DEF MacRecord
  <2>2. \A f \in Frame : outcome[f] = IF f \in m.batch THEN "sent" ELSE m.outcome[f]
    OBVIOUS
  <2> HIDE DEF outcome
  <2>3. r = Finish([m EXCEPT !.aired = aired, !.outcome = outcome])
    BY <1>3, <1>5, <2>1
  <2>4. r.expect = NoResponse /\ r.flight = {} /\ r.outcome = outcome
        /\ r.responses = m.responses
    BY <1>1, <2>3 DEF Finish, MacRecord
  <2> HIDE DEF r
  <2>5. QED
    BY <2>2, <2>4 DEF AwaitInv, NoResponse, r
<1>6. QED
  BY <1>4, <1>5

-----------------------------------------------------------------------------
(* Numbers are given out in order.                                         *)

LEMMA SameNumbers ==
  ASSUME NEW m, NumberInv(m), NEW r, Sent(r) = Sent(m), r.seq = m.seq, r.seqOf = m.seqOf
  PROVE  NumberInv(r)
BY DEF NumberInv

LEMMA SettlesNumbers ==
  ASSUME NEW m, MacInv(m), NumberInv(m), NEW r, Settles(m, r)
  PROVE  NumberInv(r)
<1>1. \A f \in m.batch : m.outcome[f] = "pending"
  BY DEF MacInv, HoldInv, Held, MacRecord
<1>2. \A f \in Frame : r.outcome[f] \in {"new", "refused"} <=> m.outcome[f] \in {"new", "refused"}
  BY <1>1 DEF Settles
<1>3. Sent(r) = Sent(m) /\ r.seq = m.seq /\ r.seqOf = m.seqOf
  BY <1>2 DEF Settles, Sent
<1>4. QED
  BY <1>3, SameNumbers

LEMMA EnqueueNumbers ==
  ASSUME NEW m, MacInv(m), NumberInv(m), NEW f \in Frame, m.outcome[f] = "new"
  PROVE  NumberInv(EnqueueEth(m, f))
<1> DEFINE r == EnqueueEth(m, f)
<1>1. /\ r.seq = m.seq /\ r.seqOf = m.seqOf
      /\ r.queue \in {m.queue, m.queue \cup {f}}
      /\ r.outcome[f] \in {"pending", "refused"}
      /\ f \in r.queue \/ r.outcome[f] = "refused"
      /\ \A g \in Frame \ {f} : r.outcome[g] = m.outcome[g]
  BY DEF EnqueueEth, MacInv, MacRecord
<1> HIDE DEF r
<1>2. Sent(r) = Sent(m)
  BY <1>1 DEF Sent
<1>3. QED
  BY <1>1, <1>2, SameNumbers DEF r

(* The numbers of a batch follow those of what was sent before.            *)
LEMMA PullNumbers ==
  ASSUME NEW m, MacInv(m), NumberInv(m), NEW n, StationInv(m, n),
         Cardinality({f \in Frame : Origin[f] = n}) <= SeqSpace
  PROVE  NumberInv(PullBatch(m))
<1> DEFINE r == PullBatch(m)
           B == NextBatch(m.queue)
           own == {f \in Frame : Origin[f] = n}
           S == Sent(m)
           c == Cardinality(S)
           b == Cardinality(B)
<1>1. CASE r = m
  BY <1>1
<1>2. CASE Pulled(m, r, B)
  <2>1. /\ B \subseteq Frame /\ Sent(r) = S \cup B /\ B \cap S = {}
        /\ \A f \in S : r.seqOf[f] = m.seqOf[f]
    BY <1>2, PulledSends
  <2>2. S \subseteq Frame /\ B \subseteq m.queue /\ B # {} /\ r.batch = B /\ m.queue \subseteq Frame
    BY <1>2 DEF Pulled, Sent, MacInv, MacRecord
  <2>3. S \cup B \subseteq own
    <3>1. \A f \in B : m.outcome[f] = "pending"
      BY <2>1, <2>2 DEF MacInv, HoldInv, Held
    <3>2. \A f \in S \cup B : f \in Frame /\ m.outcome[f] # "new"
      BY <2>1, <2>2, <3>1 DEF Sent
    <3>3. QED
      BY <3>2 DEF StationInv, OwnInv
  <2>4. \A f \in S, g \in B : f < g /\ f \in Nat /\ g \in Nat
    BY <2>1, <2>2, FrameAssumption DEF StationInv, OrderInv
  <2>5. \A T \in SUBSET Frame : IsFiniteSet(T) /\ Cardinality(T) \in Nat
    BY FramesCount
  <2>6. /\ m.seq = c % SeqSpace /\ r.seq = (m.seq + b) % SeqSpace
        /\ \A f \in S : m.seqOf[f] = Cardinality({g \in S : g < f})
        /\ \A f \in B : r.seqOf[f] = (m.seq + Cardinality({g \in B : g < f})) % SeqSpace
    BY <1>2, <2>1 DEF Pulled, NumberInv
  <2>7. SeqSpace \in Nat \ {0}
    BY ConfigAssumption
  <2> HIDE DEF r, B, S, own
  <2>8. Cardinality(S \cup B) = c + b
    <3>1. Cardinality(S \cup B) = Cardinality(S) + Cardinality(B) - Cardinality(S \cap B)
      BY <2>1, <2>2, <2>5, FS_Union
    <3>2. Cardinality(S \cap B) = 0
      <4>1. S \cap B = {}
        BY <2>1
      <4>2. QED
        BY <4>1, FS_EmptySet
    <3>3. Cardinality(S) \in Nat /\ Cardinality(B) \in Nat
      BY <2>1, <2>2, <2>5
    <3>4. QED
      BY <3>1, <3>2, <3>3
  <2>9. c + b <= SeqSpace
    <3>1. IsFiniteSet(own) /\ own \in SUBSET Frame /\ Cardinality(own) <= SeqSpace
      BY <2>5 DEF own
    <3>2. Cardinality(S \cup B) <= Cardinality(own)
      BY <2>3, <3>1, FS_Subset
    <3>3. QED
      BY <2>1, <2>2, <2>5, <2>7, <2>8, <3>1, <3>2
  <2>10. c \in Nat /\ b \in Nat /\ b > 0
    BY <2>1, <2>2, <2>5, FS_EmptySet
  <2> HIDE DEF c, b
  <2>11. m.seq = c
    BY <2>6, <2>7, <2>9, <2>10
  <2>12. r.seq = Cardinality(Sent(r)) % SeqSpace
    BY <2>1, <2>6, <2>8, <2>11
  <2>13. ASSUME NEW f \in S PROVE r.seqOf[f] = Cardinality({g \in Sent(r) : g < f})
    <3>1. {g \in Sent(r) : g < f} = {g \in S : g < f}
      BY <2>1, <2>4
    <3>2. QED
      BY <2>1, <2>6, <3>1
  <2>14. ASSUME NEW f \in B PROVE r.seqOf[f] = Cardinality({g \in Sent(r) : g < f})
    <3> DEFINE below == {g \in B : g < f}
               d == Cardinality(below)
    <3>1. {g \in Sent(r) : g < f} = S \cup below
      BY <2>1, <2>4
    <3>2. below \in SUBSET Frame /\ below \subseteq B /\ f \in B /\ f \notin below /\ S \cap below = {}
      <4>1. f \in Nat /\ ~(f < f)
        BY <2>1, FrameAssumption
      <4>2. below \subseteq B /\ f \notin below
        BY <4>1
      <4> HIDE DEF below
      <4>3. QED
        BY <2>1, <4>2
    <3>3. r.seqOf[f] = (m.seq + d) % SeqSpace
      BY <2>6
    <3> HIDE DEF below
    <3>4. Cardinality(S \cup below) = c + d
      <4>1. Cardinality(S \cup below)
              = Cardinality(S) + Cardinality(below) - Cardinality(S \cap below)
        BY <2>2, <2>5, <3>2, FS_Union
      <4>2. Cardinality(S \cap below) = 0
        BY <3>2, FS_EmptySet
      <4>3. d \in Nat
        BY <2>5, <3>2
      <4>4. QED
        BY <2>10, <4>1, <4>2, <4>3 DEF c
    <3>5. d \in Nat /\ d < b
      <4>1. IsFiniteSet(B) /\ below \subseteq B /\ below # B
        BY <2>1, <2>5, <3>2
      <4>2. QED
        BY <2>5, <2>10, <3>2, <4>1, FS_Subset DEF b
    <3> HIDE DEF d
    <3>6. (c + d) % SeqSpace = c + d
      BY <2>7, <2>9, <2>10, <3>5
    <3>7. QED
      BY <2>11, <3>1, <3>3, <3>4, <3>6
  <2>15. QED
    BY <2>1, <2>12, <2>13, <2>14 DEF NumberInv, r
<1>3. QED
  BY <1>1, <1>2, PullTakes

-----------------------------------------------------------------------------
(* What is sent and heard.                                                 *)

LEMMA BatchIsSmall ==
  ASSUME DeliveryInv, NEW k \in Station
  PROVE  Cardinality(mac[k].batch) <= MaxAmpdu
<1>1. mac[k].batch \in SUBSET Frame /\ MaxAmpdu \in Nat
  BY ConfigAssumption DEF DeliveryInv, LinkInv, MacInv, MacRecord
<1>2. CASE mac[k].batch = {}
  BY <1>1, <1>2, FS_EmptySet
<1>3. CASE mac[k].batch # {}
  <2>1. PICK f \in mac[k].batch : f \in Frame
    BY <1>1, <1>3
  <2>2. Coming(mac[k].batch, air[k][k], f)
    BY <2>1 DEF Coming
  <2>3. PICK B \in SUBSET Frame : BatchOf(mac[k], air[k][k], given[k], dedup[k][k], k, f, B)
    BY <2>1, <2>2 DEF DeliveryInv, PairInv, TogetherInv
  <2>4. mac[k].batch \subseteq B /\ Cardinality(B) <= MaxAmpdu
    BY <2>1, <2>3 DEF BatchOf
  <2>5. IsFiniteSet(B) /\ Cardinality(B) \in Nat
    BY FramesCount
  <2>6. Cardinality(mac[k].batch) <= Cardinality(B) /\ Cardinality(mac[k].batch) \in Nat
    BY <1>1, <2>4, <2>5, FramesCount, FS_Subset
  <2>7. QED
    BY <1>1, <2>4, <2>5, <2>6
<1>4. QED
  BY <1>2, <1>3

LEMMA DataSays ==
  ASSUME NdpAckOn, NEW m, NEW P \in SUBSET Frame, Cardinality(P) <= MaxAmpdu,
         NEW got \in SUBSET P, got # {}, NEW seed
  PROVE  DataInv(DataPpdu(m, P, got, seed))
<1> DEFINE p == DataPpdu(m, P, got, seed)
<1>1. /\ p.type = "data" /\ p.mpdus = {Mpdu(m, f) : f \in got} /\ p.multi = (Cardinality(P) > 1)
      /\ p.response = IF \E f \in P : ~WantAck(f) THEN "none" ELSE "ndp"
  BY DEF DataPpdu
<1> HIDE DEF p
<1>2. IsFiniteSet(P) /\ Cardinality(P) \in Nat /\ P # {}
  BY FramesCount
<1>3. ASSUME ~p.multi PROVE \E x \in p.mpdus : p.mpdus = {x}
  <2>1. Cardinality(P) # 0
    BY <1>2, FS_EmptySet
  <2> DEFINE many == Cardinality(P) > 1
  <2>2. Cardinality(P) = 1
    <3>1. p.multi = many
      BY <1>1
    <3> HIDE DEF many
    <3>2. ~many
      BY <1>3, <3>1, Zenon
    <3>3. QED
      BY <1>2, <2>1, <3>2 DEF many
  <2>3. PICK f \in P : P = {f}
    BY <1>2, <2>2, FS_Singleton
  <2>4. got = {f}
    BY <2>3
  <2>5. p.mpdus = {Mpdu(m, f)}
    BY <1>1, <2>4
  <2>6. QED
    BY <2>5
<1>4. ASSUME p.multi PROVE MaxAmpdu # 1
  <2> DEFINE many == Cardinality(P) > 1
  <2>1. p.multi = many
    BY <1>1
  <2> HIDE DEF many
  <2>2. many
    BY <1>4, <2>1, Zenon
  <2>3. QED
    BY <1>2, <2>2 DEF many
<1>5. p.response # "none" => \A x \in p.mpdus : Dest[x.frame] # Group
  BY <1>1 DEF WantAck, Mpdu
<1>6. QED
  BY <1>1, <1>3, <1>4, <1>5 DEF DataInv, p

(* Of the MPDUs M of s and what is remembered of s, nothing is missing.    *)
GivenAfter(d, M, m, count, s) ==
  /\ \A x \in M : x.frame \in d.fresh \/ count[x.frame] > 0
  /\ \A v \in ToSet(d.ring) : \E g \in Frame :
       Origin[g] = s /\ (g \in d.fresh \/ count[g] > 0) /\ v = m.seqOf[g]

(* What n hears is n's host's afterwards, if numbers tell frames apart.    *)
LEMMA HeardIsGiven ==
  ASSUME NEW m, NEW s, NEW n, NEW line, NEW count \in [Frame -> Nat], NEW ring,
         NumberInv(m), OwnInv(m, s), PairInv(m, line, count, ring, s, n),
         RingGiven(ring, m, count, s), line # <<>>, line[1].type = "data"
  PROVE  GivenAfter(Deduplicate(ring, line[1].mpdus), line[1].mpdus, m, count, s)
<1> DEFINE M == line[1].mpdus
           d == Deduplicate(ring, M)
<1>1. line \in Seq(Ppdu) /\ 1 \in 1 .. Len(line)
  BY EmptySeq, LenProperties DEF PairInv, LineInv
<1>2. IsFiniteSet(M) /\ \A x \in M : MpduInv(x, m, s, n)
  BY <1>1 DEF PairInv, LineInv, PpduInv
<1>3. RingInv(ring) /\ GivenInv(count, m, s, n)
  BY DEF PairInv
<1>4. \A x \in M : /\ x \in MpduRecord /\ x.seq = m.seqOf[x.frame]
                   /\ x.frame \in Sent(m) /\ x.frame \in Frame
  BY <1>2 DEF MpduInv, Sent
<1> HIDE DEF M, d
<1>5. HeardInv(d, M, ring)
  BY <1>2, <1>3, <1>4, DeduplicateKeeps DEF NotedInv, M, d
<1>6. ASSUME NEW g \in Frame, count[g] > 0, Origin[g] = s PROVE g \in Sent(m)
  <2>1. count[g] = 1
    BY <1>3, <1>6 DEF GivenInv
  <2>2. QED
    BY <1>3, <1>6, <2>1 DEF GivenInv
<1>7. ASSUME NEW v \in Known(d, M, ring)
      PROVE  \E g \in Sent(m) : (g \in d.fresh \/ count[g] > 0) /\ v = m.seqOf[g]
  <2>1. CASE v \in ToSet(ring)
    BY <1>6, <2>1 DEF RingGiven
  <2>2. CASE \E x \in M : x.frame \in d.fresh /\ v = x.seq
    BY <1>4, <2>2
  <2>3. QED
    BY <1>7, <2>1, <2>2 DEF Known
<1>8. ASSUME NEW x \in M PROVE x.frame \in d.fresh \/ count[x.frame] > 0
  <2>1. PICK g \in Sent(m) : (g \in d.fresh \/ count[g] > 0) /\ x.seq = m.seqOf[g]
    BY <1>5, <1>7, <1>8 DEF HeardInv
  <2>2. x.frame = g
    BY <1>4, <2>1, NumbersDiffer
  <2>3. QED
    BY <2>1, <2>2
<1>9. \A g \in Sent(m) : g \in Frame /\ Origin[g] = s
  BY DEF Sent, OwnInv
<1>10. QED
  BY <1>5, <1>7, <1>8, <1>9 DEF HeardInv, GivenAfter, M, d

(* The answer to a data PPDU names what the host has by then.              *)
LEMMA DataIsAnswered ==
  ASSUME NEW p \in Ppdu, p.type = "data", DataInv(p), NEW m, NEW s, NEW k,
         PpduInv(p, m, s, k), OwnInv(m, s), NEW count,
         \A x \in p.mpdus : count[x.frame] > 0, NEW M, M[s].seqOf = m.seqOf,
         NEW q \in ToSet(DataResponse(p, s))
  PROVE  AnswerInv(q, k, count, M)
<1>1. /\ p.mpdus \in SUBSET MpduRecord /\ p.mpdus # {} /\ IsFiniteSet(p.mpdus)
      /\ \A x \in p.mpdus : /\ x.frame \in Sent(m) /\ x.seq = m.seqOf[x.frame]
                            /\ Dest[x.frame] \in {k, Group}
  BY DEF Ppdu, PpduInv, MpduInv
<1>2. \A x \in p.mpdus : x.frame \in Frame /\ Origin[x.frame] = s /\ x.seq \in SeqNum
  BY <1>1 DEF Sent, OwnInv, MpduRecord
<1>3. p.response # "none" /\ p.response # "normal"
  <2>1. DataResponse(p, s) # <<>>
    BY DEF ToSet
  <2>2. p.response # "none"
    BY <2>1 DEF DataResponse
  <2>3. QED
    BY <2>2 DEF DataInv
<1>4. \A x \in p.mpdus : Dest[x.frame] = k
  BY <1>1, <1>3 DEF DataInv
<1> DEFINE z == CHOOSE x \in p.mpdus : TRUE
           ndpack == [type |-> "ndpack", id |-> AckId(p.seed, z)]
           ba == BlockAck(p)
<1>5. q = IF p.response = "ndp" /\ p.multi THEN ba ELSE ndpack
  <2>1. DataResponse(p, s) = IF p.response = "ndp" /\ p.multi THEN <<ba>> ELSE <<ndpack>>
    <3>1. DataResponse(p, s) # <<>>
      BY DEF ToSet
    <3>2. QED
      BY <1>3, <3>1 DEF DataResponse
  <2> HIDE DEF ba, ndpack
  <2>2. ToSet(<<ba>>) = {ba} /\ ToSet(<<ndpack>>) = {ndpack}
    BY DEF ToSet
  <2>3. QED
    BY <2>1, <2>2
<1>6. CASE q = ndpack
  <2>1. z \in p.mpdus
    BY <1>1
  <2> HIDE DEF z
  <2>2. q.type = "ndpack" /\ q.id[2] = z.frame
    BY <1>6 DEF AckId
  <2>3. z.frame \in Frame /\ Dest[z.frame] = k /\ count[z.frame] > 0
    BY <1>2, <1>4, <2>1
  <2>4. QED
    BY <2>2, <2>3 DEF AnswerInv
<1>7. CASE q = ba /\ p.multi
  <2> DEFINE first == CHOOSE x \in p.mpdus : \A y \in p.mpdus : x.frame <= y.frame
  <2>1. first \in p.mpdus
    <3>1. PICK f \in FramesOf(p.mpdus) : \A g \in FramesOf(p.mpdus) : f <= g
      <4>1. FramesOf(p.mpdus) # {} /\ FramesOf(p.mpdus) \in SUBSET Frame
        BY <1>1, <1>2 DEF FramesOf
      <4>2. QED
        BY <4>1, FirstFrame
    <3>2. \E x \in p.mpdus : \A y \in p.mpdus : x.frame <= y.frame
      BY <3>1 DEF FramesOf
    <3>3. QED
      BY <3>2
  <2>2. /\ q.type = "ndpba" /\ q.ssn = first.seq
        /\ q.bits = {d \in 0 .. BitmapBits - 1 : \E x \in p.mpdus : Offset(x.seq, first.seq) = d}
    BY <1>7 DEF BlockAck
  <2> HIDE DEF first
  <2>3. q.ssn \in SeqNum
    BY <1>2, <2>1, <2>2
  <2>4. ASSUME NEW d \in q.bits
        PROVE  \E g \in Frame : /\ Dest[g] = k /\ count[g] > 0
                                /\ Offset(M[Origin[g]].seqOf[g], q.ssn) = d
    <3>1. PICK x \in p.mpdus : Offset(x.seq, q.ssn) = d
      BY <2>2
    <3>2. x.seq = M[Origin[x.frame]].seqOf[x.frame]
      BY <1>1, <1>2
    <3>3. QED
      BY <1>2, <1>4, <3>1, <3>2
  <2>5. MaxAmpdu # 1
    BY <1>7 DEF DataInv
  <2>6. QED
    BY <2>2, <2>3, <2>4, <2>5 DEF AnswerInv
<1>8. QED
  BY <1>5, <1>6, <1>7

-----------------------------------------------------------------------------
(* Steps of the whole.                                                     *)

(* One station's record moves on: sent frames keep their numbers, hosts    *)
(* keep what they have.                                                    *)
Moves(k, r) ==
  /\ mac' = [mac EXCEPT ![k] = r]
  /\ \A f \in Sent(mac[k]) : r.seqOf[f] = mac[k].seqOf[f]
  /\ \A n \in Station, f \in Frame : given[n][f] > 0 => given'[n][f] > 0

LEMMA GivenKeepsNumber ==
  ASSUME DeliveryInv, NEW k \in Station, NEW r, Moves(k, r),
         NEW n \in Station, NEW g \in Frame, given[n][g] > 0
  PROVE  given'[n][g] > 0 /\ mac'[Origin[g]].seqOf[g] = mac[Origin[g]].seqOf[g]
<1> DEFINE s == Origin[g]
<1>1. s \in Station /\ mac \in [Station -> MacRecord]
  BY FrameAssumption DEF DeliveryInv, LinkInv, EngineTypeOK
<1>2. GivenInv(given[n], mac[s], s, n)
  BY <1>1 DEF DeliveryInv, PairInv
<1>3. g \in Sent(mac[s])
  <2>1. given[n][g] = 1
    BY <1>2 DEF GivenInv
  <2>2. QED
    BY <1>2, <2>1 DEF GivenInv
<1>4. mac'[s] = IF s = k THEN r ELSE mac[s]
  BY <1>1 DEF Moves
<1>5. QED
  BY <1>3, <1>4 DEF Moves

LEMMA AnswersStay ==
  ASSUME DeliveryInv, NEW k \in Station, NEW r, Moves(k, r), NEW n \in Station,
         NEW p, AnswerInv(p, n, given[n], mac)
  PROVE  AnswerInv(p, n, given'[n], mac')
<1>1. \A g \in Frame : given[n][g] > 0 =>
        given'[n][g] > 0 /\ mac'[Origin[g]].seqOf[g] = mac[Origin[g]].seqOf[g]
  BY GivenKeepsNumber
<1>2. QED
  BY <1>1, AnswerKept

LEMMA RingsStay ==
  ASSUME AckInv, NEW k \in Station, NEW r, Moves(k, r), NEW s \in Station, NEW n \in Station
  PROVE  RingGiven(dedup[n][s], mac'[s], given'[n], s)
<1>1. \A g \in Frame : given[n][g] > 0 =>
        given'[n][g] > 0 /\ mac'[Origin[g]].seqOf[g] = mac[Origin[g]].seqOf[g]
  BY GivenKeepsNumber DEF AckInv
<1>2. RingGiven(dedup[n][s], mac[s], given[n], s)
  BY DEF AckInv
<1>3. QED
  BY <1>1, <1>2 DEF RingGiven

LEMMA AckRecord ==
  ASSUME AckInv, DeliveryInv', NEW k \in Station, NEW r, Moves(k, r),
         NumberInv(r), AwaitInv(r),
         \A f \in Frame : (Origin[f] = k /\ r.outcome[f] = "acked") =>
           mac[k].outcome[f] = "acked" \/ Acknowledged(f, given'),
         \A p \in ToSet(r.responses) :
           p \in ToSet(mac[k].responses) \/ AnswerInv(p, k, given'[k], mac'),
         \A s, n \in Station : \A p \in ToSet(air'[s][n]) :
           p \in ToSet(air[s][n]) \/ Says(p, s, n, given'[s], mac'),
         \A s, n \in Station : RingGiven(dedup'[n][s], mac'[s], given'[n], s)
  PROVE  AckInv'
<1>1. mac \in [Station -> MacRecord] /\ DeliveryInv
  BY DEF AckInv, DeliveryInv, LinkInv, EngineTypeOK
<1>2. \A s \in Station : mac'[s] = IF s = k THEN r ELSE mac[s]
  BY <1>1 DEF Moves
<1>3. ASSUME NEW s \in Station PROVE NumberInv(mac'[s]) /\ AwaitInv(mac'[s])
  BY <1>2 DEF AckInv
<1>4. ASSUME NEW s \in Station, NEW f \in Frame, Origin[f] = s, mac'[s].outcome[f] = "acked"
      PROVE  Acknowledged(f, given')
  <2>1. CASE mac[s].outcome[f] = "acked"
    <3>1. Acknowledged(f, given)
      BY <1>4, <2>1 DEF AckInv, AckedInv
    <3>2. Dest[f] \in Station
      BY <3>1, FrameAssumption DEF Acknowledged
    <3>3. QED
      BY <3>1, <3>2 DEF Acknowledged, Moves
  <2>2. CASE mac[s].outcome[f] # "acked"
    BY <1>2, <1>4, <2>2
  <2>3. QED
    BY <2>1, <2>2
<1>5. ASSUME NEW s \in Station, NEW p \in ToSet(mac'[s].responses)
      PROVE  AnswerInv(p, s, given'[s], mac')
  <2>1. CASE p \in ToSet(mac[s].responses)
    <3>1. AnswerInv(p, s, given[s], mac)
      BY <2>1 DEF AckInv
    <3>2. QED
      BY <1>1, <3>1, AnswersStay
  <2>2. CASE p \notin ToSet(mac[s].responses)
    BY <1>2, <1>5, <2>2
  <2>3. QED
    BY <2>1, <2>2
<1>6. ASSUME NEW s \in Station, NEW n \in Station, NEW p \in ToSet(air'[s][n])
      PROVE  Says(p, s, n, given'[s], mac')
  <2>1. CASE p \in ToSet(air[s][n])
    <3>1. Says(p, s, n, given[s], mac)
      BY <2>1 DEF AckInv
    <3>2. QED
      BY <1>1, <3>1, AnswersStay DEF Says
  <2>2. CASE p \notin ToSet(air[s][n])
    BY <1>6, <2>2
  <2>3. QED
    BY <2>1, <2>2
<1>7. \A s \in Station : AckedInv(mac'[s], s, given')
  BY <1>4 DEF AckedInv
<1>8. QED
  BY <1>3, <1>5, <1>6, <1>7 DEF AckInv

(* Nobody's host gets anything.                                            *)
LEMMA AckQuiet ==
  ASSUME AckInv, DeliveryInv', NEW k \in Station, NEW r, mac' = [mac EXCEPT ![k] = r],
         UNCHANGED <<dedup, given>>,
         \A f \in Sent(mac[k]) : r.seqOf[f] = mac[k].seqOf[f],
         NumberInv(r), AwaitInv(r),
         \A f \in Frame : r.outcome[f] = "acked" =>
           mac[k].outcome[f] = "acked" \/ Acknowledged(f, given),
         \A p \in ToSet(r.responses) :
           p \in ToSet(mac[k].responses) \/ AnswerInv(p, k, given[k], mac),
         \A s, n \in Station : \A p \in ToSet(air'[s][n]) :
           p \in ToSet(air[s][n]) \/ Says(p, s, n, given[s], mac)
  PROVE  AckInv'
<1>1. Moves(k, r) /\ DeliveryInv /\ given' = given /\ dedup' = dedup
  BY DEF Moves, AckInv
<1>2. \A s \in Station : \A p :
        AnswerInv(p, s, given[s], mac) => AnswerInv(p, s, given'[s], mac')
  BY <1>1, AnswersStay
<1>3. \A s, n \in Station : \A p :
        Says(p, s, n, given[s], mac) => Says(p, s, n, given'[s], mac')
  BY <1>2 DEF Says
<1>4. \A s, n \in Station : RingGiven(dedup'[n][s], mac'[s], given'[n], s)
  <2>1. \A s, n \in Station : RingGiven(dedup[n][s], mac'[s], given'[n], s)
    BY <1>1, RingsStay
  <2>2. QED
    BY <1>1, <2>1
<1>5. \A f \in Frame : Acknowledged(f, given) => Acknowledged(f, given')
  BY <1>1
<1>6. QED
  BY <1>1, <1>2, <1>3, <1>4, <1>5, AckRecord

LEMMA AckSettles ==
  ASSUME AckInv, DeliveryInv', NEW k \in Station, NEW r, mac' = [mac EXCEPT ![k] = r],
         UNCHANGED <<dedup, given>>, MacInv(r), Settles(mac[k], r),
         NEW A, Resolves(mac[k], r, A), \A f \in A : Acknowledged(f, given),
         \A s, n \in Station : \A p \in ToSet(air'[s][n]) :
           p \in ToSet(air[s][n]) \/ Says(p, s, n, given[s], mac)
  PROVE  AckInv'
<1>1. MacInv(mac[k]) /\ NumberInv(mac[k]) /\ AwaitInv(mac[k])
  BY DEF AckInv, DeliveryInv, LinkInv
<1>2. NumberInv(r) /\ AwaitInv(r)
  BY <1>1, SettlesNumbers, ResolvesAwait
<1>3. \A f \in Sent(mac[k]) : r.seqOf[f] = mac[k].seqOf[f]
  BY DEF Settles
<1>4. /\ r.responses = mac[k].responses
      /\ \A f \in Frame : r.outcome[f] = "acked" =>
           mac[k].outcome[f] = "acked" \/ Acknowledged(f, given)
  BY DEF Resolves
<1>5. QED
  BY <1>2, <1>3, <1>4, AckQuiet

(* The lines: what is sent is added, what is heard is taken off.           *)
LEMMA AirSays ==
  ASSUME air \in [Station -> [Station -> Seq(Ppdu)]], NEW k \in Station,
         NEW p, Transmit(k, p), \A n \in DOMAIN p : p[n] \in Ppdu
  PROVE  \A s, n \in Station :
           ToSet(air'[s][n]) \subseteq
             ToSet(air[s][n]) \cup (IF s = k /\ n \in DOMAIN p THEN {p[n]} ELSE {})
<1> SUFFICES ASSUME NEW s \in Station, NEW n \in Station
             PROVE  ToSet(air'[s][n]) \subseteq
                      ToSet(air[s][n]) \cup (IF s = k /\ n \in DOMAIN p THEN {p[n]} ELSE {})
  OBVIOUS
<1>1. air'[s][n] = IF s = k /\ n \in DOMAIN p THEN Append(air[s][n], p[n]) ELSE air[s][n]
  BY DEF Transmit
<1>2. CASE s = k /\ n \in DOMAIN p
  <2>1. air[s][n] \in Seq(Ppdu) /\ p[n] \in Ppdu
    BY <1>2
  <2>2. ToSet(Append(air[s][n], p[n])) \subseteq ToSet(air[s][n]) \cup {p[n]}
    BY <2>1, QueueHolds
  <2>3. QED
    BY <1>1, <1>2, <2>2
<1>3. CASE ~(s = k /\ n \in DOMAIN p)
  BY <1>1, <1>3
<1>4. QED
  BY <1>2, <1>3

LEMMA AirHeard ==
  ASSUME air \in [Station -> [Station -> Seq(Ppdu)]], NEW k \in Station, NEW z \in Station,
         NEW type, Hears(k, z, type)
  PROVE  /\ Head(air[z][k]) \in ToSet(air[z][k])
         /\ \A s, n \in Station : ToSet(air'[s][n]) \subseteq ToSet(air[s][n])
<1>1. air[z][k] \in Seq(Ppdu) /\ air[z][k] # <<>>
  BY DEF Hears
<1>2. Head(air[z][k]) \in ToSet(air[z][k]) /\ ToSet(Tail(air[z][k])) \subseteq ToSet(air[z][k])
  BY <1>1, QueueHolds
<1>3. \A s, n \in Station :
        air'[s][n] = IF s = z /\ n = k THEN Tail(air[s][n]) ELSE air[s][n]
  BY DEF Hears
<1>4. QED
  BY <1>2, <1>3

-----------------------------------------------------------------------------
(* Polls and offers keep what acknowledgments say.                         *)

LEMMA OfferAck ==
  ASSUME AckInv, DeliveryInv', NEW k \in Station, Offer(k)
  PROVE  AckInv'
<1>1. mac \in [Station -> MacRecord] /\ MacInv(mac[k]) /\ NumberInv(mac[k]) /\ AwaitInv(mac[k])
      /\ mac[k] \in MacRecord
  BY DEF AckInv, DeliveryInv, LinkInv, EngineTypeOK
<1>2. PICK f \in Frame : /\ mac[k].outcome[f] = "new"
                         /\ mac' = [mac EXCEPT ![k] = EnqueueEth(mac[k], f)]
                         /\ UNCHANGED <<dedup, air, given>>
  BY <1>1 DEF Offer
<1> DEFINE r == EnqueueEth(mac[k], f)
<1>3. /\ r.seqOf = mac[k].seqOf /\ r.expect = mac[k].expect /\ r.flight = mac[k].flight
      /\ r.responses = mac[k].responses
      /\ \A g \in Frame : r.outcome[g] = "acked" => mac[k].outcome[g] = "acked"
  BY <1>1 DEF EnqueueEth, MacRecord
<1>4. NumberInv(r)
  BY <1>1, <1>2, EnqueueNumbers
<1> HIDE DEF r
<1>5. AwaitInv(r)
  BY <1>1, <1>3 DEF AwaitInv
<1>6. mac' = [mac EXCEPT ![k] = r] /\ UNCHANGED <<dedup, given>> /\ air' = air
  BY <1>2 DEF r
<1>7. QED
  BY <1>3, <1>4, <1>5, <1>6, AckQuiet

LEMMA PollResponseAck ==
  ASSUME AckInv, DeliveryInv', NEW k \in Station, PollResponse(k)
  PROVE  AckInv'
<1> DEFINE m == mac[k]
           p == Head(m.responses)
           q == Tail(m.responses)
           r == [m EXCEPT !.responses = q]
<1>1. /\ mac \in [Station -> MacRecord] /\ MacInv(m) /\ NumberInv(m) /\ AwaitInv(m)
      /\ m \in MacRecord /\ air \in [Station -> [Station -> Seq(Ppdu)]] /\ ReplyInv(m)
  BY DEF AckInv, DeliveryInv, LinkInv, EngineTypeOK, StationInv
<1>2. m.responses \in Seq(Ppdu) /\ m.responses # <<>>
  BY <1>1 DEF MacRecord, PollResponse
<1>3. p \in ToSet(m.responses) /\ ToSet(q) \subseteq ToSet(m.responses) /\ p \in Ppdu
      /\ p = m.responses[1] /\ 1 \in 1 .. Len(m.responses)
  BY <1>2, QueueHolds, EmptySeq, LenProperties
<1>4. mac' = [mac EXCEPT ![k] = r] /\ UNCHANGED <<dedup, given>>
  BY <1>1 DEF PollResponse
<1>5. PICK H \in SUBSET Concerned(k, p) : Transmit(k, [x \in H |-> p])
  BY DEF PollResponse
<1>6. /\ r.seq = m.seq /\ r.seqOf = m.seqOf /\ r.queue = m.queue /\ r.outcome = m.outcome
      /\ r.expect = m.expect /\ r.flight = m.flight /\ r.responses = q
  BY <1>1 DEF MacRecord
<1> HIDE DEF q, r
<1>7. NumberInv(r) /\ AwaitInv(r)
  BY <1>1, <1>6, SameNumbers DEF AwaitInv, Sent
<1>8. AnswerInv(p, k, given[k], mac) /\ p.type # "data"
  BY <1>1, <1>3 DEF AckInv, ReplyInv
<1>9. p.type = "ndpba" => k \notin H
  BY <1>5 DEF Concerned
<1> HIDE DEF m, p
<1>10. \A n \in H : Says(p, k, n, given[k], mac)
  BY <1>8, <1>9 DEF Says, DataInv
<1> DEFINE t == [x \in H |-> p]
<1>11. DOMAIN t = H /\ Transmit(k, t) /\ (\A n \in DOMAIN t : t[n] = p /\ t[n] \in Ppdu)
  BY <1>3, <1>5
<1> HIDE DEF t
<1>12. ASSUME NEW s \in Station, NEW n \in Station, NEW x \in ToSet(air'[s][n])
       PROVE  x \in ToSet(air[s][n]) \/ Says(x, s, n, given[s], mac)
  <2>1. ToSet(air'[s][n]) \subseteq
          ToSet(air[s][n]) \cup (IF s = k /\ n \in DOMAIN t THEN {t[n]} ELSE {})
    BY <1>1, <1>11, AirSays
  <2>2. QED
    BY <1>10, <1>11, <2>1
<1>13. QED
  BY <1>3, <1>4, <1>6, <1>7, <1>12, AckQuiet DEF m

(* A batch is pulled after the handler has settled the last one.           *)
LEMMA PullAck ==
  ASSUME AnswersNameFrames, AckInv, DeliveryInv', NEW k \in Station,
         NEW q, MacInv(q), Settles(mac[k], q), Resolves(mac[k], q, {}),
         mac' = [mac EXCEPT ![k] = PullBatch(q)], UNCHANGED <<dedup, air, given>>
  PROVE  AckInv'
<1> DEFINE m == mac[k]
           r == PullBatch(q)
<1>1. MacInv(m) /\ StationInv(m, k) /\ NumberInv(m) /\ AwaitInv(m)
  BY DEF AckInv, DeliveryInv, LinkInv
<1>2. Follows(m, q) /\ StationInv(q, k) /\ NumberInv(q)
  BY <1>1, SettlesKeeps, SettlesNumbers
<1>3. NumberInv(r)
  <2>1. Cardinality({f \in Frame : Origin[f] = k}) <= SeqSpace
    BY DEF AnswersNameFrames
  <2>2. QED
    BY <1>2, <2>1, PullNumbers
<1>4. Resolves(m, r, {}) /\ MacInv(r)
  BY <1>1, PullResolves, PullBatchInv
<1>5. AwaitInv(r)
  BY <1>1, <1>4, ResolvesAwait
<1>6. \A f \in Sent(m) : r.seqOf[f] = m.seqOf[f]
  <2>1. \A f \in Sent(q) : r.seqOf[f] = q.seqOf[f]
    <3>1. CASE r = q
      BY <3>1
    <3>2. CASE Pulled(q, r, NextBatch(q.queue))
      BY <3>2, PulledSends
    <3>3. QED
      BY <3>1, <3>2, PullTakes
  <2>2. QED
    BY <1>2, <2>1 DEF Follows
<1>7. /\ r.responses = m.responses
      /\ \A f \in Frame : r.outcome[f] = "acked" => m.outcome[f] = "acked"
  BY <1>4 DEF Resolves
<1>8. mac' = [mac EXCEPT ![k] = r] /\ UNCHANGED <<dedup, given>> /\ air' = air
  OBVIOUS
<1> HIDE DEF r
<1>9. QED
  BY <1>3, <1>5, <1>6, <1>7, <1>8, AckQuiet DEF m

LEMMA PollTimeoutAck ==
  ASSUME AnswersNameFrames, AckInv, DeliveryInv', NEW k \in Station, PollTimeout(k)
  PROVE  AckInv'
<1>1. mac \in [Station -> MacRecord] /\ MacInv(mac[k])
  BY DEF AckInv, DeliveryInv, LinkInv, EngineTypeOK
<1>2. mac' = [mac EXCEPT ![k] = PullBatch(FailAttempt(mac[k]))] /\ UNCHANGED <<dedup, air, given>>
  BY <1>1 DEF PollTimeout
<1>3. MacInv(FailAttempt(mac[k])) /\ Settles(mac[k], FailAttempt(mac[k]))
      /\ Resolves(mac[k], FailAttempt(mac[k]), {})
  BY <1>1, FailInv, FailSettles, FailResolves
<1>4. QED
  BY <1>2, <1>3, PullAck

LEMMA PollPullAck ==
  ASSUME AnswersNameFrames, AckInv, DeliveryInv', NEW k \in Station, PollPull(k)
  PROVE  AckInv'
<1>1. mac \in [Station -> MacRecord] /\ MacInv(mac[k]) /\ mac[k] \in MacRecord
  BY DEF AckInv, DeliveryInv, LinkInv, EngineTypeOK
<1>2. mac' = [mac EXCEPT ![k] = PullBatch(mac[k])] /\ UNCHANGED <<dedup, air, given>>
  BY <1>1 DEF PollPull
<1>3. QED
  BY <1>1, <1>2, SameSettles, SameResolves, PullAck

LEMMA PollRtsAck ==
  ASSUME AckInv, DeliveryInv', NEW k \in Station, PollRts(k)
  PROVE  AckInv'
<1>1. /\ mac \in [Station -> MacRecord] /\ MacInv(mac[k]) /\ mac[k] \in MacRecord
      /\ air \in [Station -> [Station -> Seq(Ppdu)]]
  BY DEF AckInv, DeliveryInv, LinkInv, EngineTypeOK
<1>2. mac' = [mac EXCEPT ![k] = AwaitCts(mac[k])] /\ UNCHANGED <<dedup, given>>
  BY <1>1 DEF PollRts
<1> DEFINE p == [type |-> "rts"]
<1>3. PICK H : Transmit(k, [x \in H |-> p])
  BY DEF PollRts
<1>4. p \in Ppdu /\ p.type = "rts"
  BY ControlPpdus
<1> HIDE DEF p
<1>5. \A n \in Station : Says(p, k, n, given[k], mac)
  BY <1>4 DEF Says, DataInv, AnswerInv
<1> DEFINE t == [x \in H |-> p]
<1>6. DOMAIN t = H /\ Transmit(k, t) /\ (\A n \in DOMAIN t : t[n] = p /\ t[n] \in Ppdu)
  BY <1>3, <1>4
<1> HIDE DEF t
<1>7. ASSUME NEW s \in Station, NEW n \in Station, NEW x \in ToSet(air'[s][n])
      PROVE  x \in ToSet(air[s][n]) \/ Says(x, s, n, given[s], mac)
  <2>1. ToSet(air'[s][n]) \subseteq
          ToSet(air[s][n]) \cup (IF s = k /\ n \in DOMAIN t THEN {t[n]} ELSE {})
    BY <1>1, <1>6, AirSays
  <2>2. QED
    BY <1>5, <1>6, <2>1
<1>8. /\ Settles(mac[k], AwaitCts(mac[k])) /\ Resolves(mac[k], AwaitCts(mac[k]), {})
  BY <1>1, CtsSettles, SameResolves
<1>9. MacInv(AwaitCts(mac[k]))
  BY <1>1, AwaitCtsInv DEF PollRts
<1> DEFINE r == AwaitCts(mac[k])
           A == {}
<1>10. /\ mac' = [mac EXCEPT ![k] = r] /\ MacInv(r) /\ Settles(mac[k], r)
       /\ Resolves(mac[k], r, A) /\ \A f \in A : Acknowledged(f, given)
  BY <1>2, <1>8, <1>9
<1> HIDE DEF r, A
<1>11. QED
  BY <1>2, <1>7, <1>10, AckSettles

LEMMA PollDataAck ==
  ASSUME AnswersNameFrames, AckInv, DeliveryInv', NEW k \in Station, PollData(k)
  PROVE  AckInv'
<1> DEFINE m == mac[k]
<1>1. /\ mac \in [Station -> MacRecord] /\ MacInv(m) /\ StationInv(m, k)
      /\ m \in MacRecord /\ m.batch \in SUBSET Frame /\ NumberInv(m) /\ AwaitInv(m)
      /\ air \in [Station -> [Station -> Seq(Ppdu)]]
  BY DEF AckInv, DeliveryInv, LinkInv, EngineTypeOK, MacInv, MacRecord
<1>2. PICK c \in Choice, seed \in Seed :
        LET P == PlanAttempt(m.batch, c)
            audience == IF \E f \in P : Dest[f] = Group THEN Station \ {k}
                        ELSE {Dest[f] : f \in P}
        IN /\ \E got \in [audience -> SUBSET P] :
                Transmit(k, [r \in {s \in audience : got[s] # {}} |->
                               DataPpdu(m, P, got[r], seed)])
           /\ mac' = [mac EXCEPT ![k] = Attempt(@, P, seed)]
  BY DEF PollData
<1> DEFINE P == PlanAttempt(m.batch, c)
           audience == IF \E f \in P : Dest[f] = Group THEN Station \ {k}
                       ELSE {Dest[f] : f \in P}
<1>3. mac' = [mac EXCEPT ![k] = Attempt(mac[k], P, seed)] /\ UNCHANGED <<dedup, given>>
      /\ m.mode = "backoff"
  BY <1>1, <1>2 DEF PollData
<1>4. PICK got \in [audience -> SUBSET P] :
        Transmit(k, [r \in {s \in audience : got[s] # {}} |-> DataPpdu(m, P, got[r], seed)])
  BY <1>2
<1>5. P \in SUBSET m.batch /\ P \in SUBSET Frame
  BY <1>1, PlanIsPrefix
<1>6. P # {}
  <2>1. m.batch # {}
    BY <1>1, <1>3 DEF MacInv, ModeInv
  <2>2. \A f \in m.batch : Fits({f}, Floor)
    BY <1>1 DEF StationInv, BuildInv, FloorInv, Held
  <2> HIDE DEF m
  <2>3. QED
    BY <1>1, <2>1, <2>2, PlanIsSomething
<1>7. Cardinality(P) <= MaxAmpdu
  <2>1. Cardinality(m.batch) <= MaxAmpdu
    BY BatchIsSmall DEF AckInv
  <2>2. IsFiniteSet(m.batch) /\ Cardinality(m.batch) \in Nat /\ Cardinality(P) \in Nat
    BY <1>1, <1>5, FramesCount
  <2>3. Cardinality(P) <= Cardinality(m.batch)
    BY <1>5, <2>2, FS_Subset
  <2>4. MaxAmpdu \in Nat
    BY ConfigAssumption
  <2> HIDE DEF m, P
  <2>5. QED
    BY <2>1, <2>2, <2>3, <2>4
<1> HIDE DEF P
<1> DEFINE heard == {s \in audience : got[s] # {}}
           t == [r \in heard |-> DataPpdu(m, P, got[r], seed)]
<1>8. ASSUME NEW n \in heard
      PROVE  /\ t[n] \in Ppdu /\ \A s : Says(t[n], k, s, given[k], mac)
  <2>1. got[n] \in SUBSET P /\ got[n] # {} /\ t[n] = DataPpdu(m, P, got[n], seed)
    BY <1>4
  <2> DEFINE hears == got[n]
             p == DataPpdu(m, P, hears, seed)
  <2>2. hears \in SUBSET P /\ hears # {} /\ t[n] = p
    BY <2>1
  <2> HIDE DEF hears, t, m, audience
  <2>3. p \in Ppdu
    BY <1>1, <1>5, <2>2, DataPpduTyped
  <2>4. DataInv(p) /\ p.type = "data"
    <3>1. NdpAckOn
      BY DEF AnswersNameFrames
    <3>2. DataInv(p)
      BY <1>5, <1>7, <2>2, <3>1, DataSays
    <3>3. QED
      BY <3>2 DEF DataPpdu
  <2> HIDE DEF p
  <2>5. \A s : Says(p, k, s, given[k], mac)
    BY <2>4 DEF Says, AnswerInv
  <2>6. QED
    BY <2>2, <2>3, <2>5
<1>9. DOMAIN t = heard /\ Transmit(k, t)
  BY <1>4
<1> HIDE DEF heard, t, audience, m
<1>10. ASSUME NEW s \in Station, NEW n \in Station, NEW x \in ToSet(air'[s][n])
       PROVE  x \in ToSet(air[s][n]) \/ Says(x, s, n, given[s], mac)
  <2>1. ToSet(air'[s][n]) \subseteq
          ToSet(air[s][n]) \cup (IF s = k /\ n \in DOMAIN t THEN {t[n]} ELSE {})
    <3>1. \A y \in DOMAIN t : t[y] \in Ppdu
      BY <1>8, <1>9
    <3>2. QED
      BY <1>1, <1>9, <3>1, AirSays
  <2>2. QED
    BY <1>8, <1>9, <2>1
<1> DEFINE r == Attempt(m, P, seed)
<1>11. /\ AwaitInv(r) /\ r.responses = m.responses
       /\ \A f \in Frame : r.outcome[f] = "acked" => m.outcome[f] = "acked"
  BY <1>1, <1>3, <1>5, <1>6, AttemptAwaits DEF AnswersNameFrames
<1>12. Settles(m, r)
  BY <1>1, <1>5, <1>6, AttemptSettles
<1>13. mac' = [mac EXCEPT ![k] = r]
  BY <1>3 DEF m
<1> HIDE DEF r
<1>14. NumberInv(r) /\ \A f \in Sent(m) : r.seqOf[f] = m.seqOf[f]
  BY <1>1, <1>12, SettlesNumbers DEF Settles
<1>15. QED
  BY <1>3, <1>10, <1>11, <1>13, <1>14, AckQuiet DEF m

-----------------------------------------------------------------------------
(* So does what is heard.                                                  *)

(* What the flight's answer acknowledges has been given to its receiver.   *)
LEMMA NdpAckIsTrue ==
  ASSUME NEW m, AwaitInv(m), NEW p, p.type = "ndpack", NEW z \in Station,
         AnswerInv(p, z, given[z], mac), m.expect = [type |-> "ndpack", id |-> p.id],
         NEW f \in m.flight
  PROVE  Acknowledged(f, given)
<1>1. PICK g \in Frame : p.id[2] = g /\ Dest[g] = z /\ given[z][g] > 0
  BY DEF AnswerInv
<1>2. PICK h \in Frame : m.flight = {h} /\ m.expect.id[2] = h
  BY DEF AwaitInv
<1>3. f = g
  BY <1>1, <1>2
<1>4. QED
  BY <1>1, <1>3, StationAssumption DEF Acknowledged

LEMMA BlockAckIsTrue ==
  ASSUME AnswersNameFrames, AckInv, NEW k \in Station, NEW z \in Station,
         NEW p, p.type = "ndpba", Says(p, z, k, given[z], mac),
         NEW f \in mac[k].flight, Offset(mac[k].seqOf[f], p.ssn) \in p.bits
  PROVE  Acknowledged(f, given)
<1>1. MacInv(mac[k]) /\ StationInv(mac[k], k) /\ NumberInv(mac[k]) /\ AwaitInv(mac[k])
  BY DEF AckInv, DeliveryInv, LinkInv
<1>2. /\ f \in Frame /\ f \in Sent(mac[k]) /\ Origin[f] = k /\ Dest[f] # Group
      /\ mac[k].seqOf \in [Frame -> SeqNum]
  <2>1. /\ f \in mac[k].batch /\ f \in Frame /\ f \notin mac[k].queue
        /\ mac[k].seqOf \in [Frame -> SeqNum] /\ Dest[f] # Group
    BY <1>1 DEF MacInv, ModeInv, HoldInv, MacRecord, AwaitInv
  <2>2. mac[k].outcome[f] = "pending"
    BY <1>1, <2>1 DEF MacInv, HoldInv, Held
  <2>3. QED
    BY <1>1, <2>1, <2>2 DEF Sent, StationInv, OwnInv
<1>3. PICK g \in Frame : /\ Dest[g] = z /\ given[z][g] > 0
                         /\ Offset(mac[Origin[g]].seqOf[g], p.ssn)
                              = Offset(mac[k].seqOf[f], p.ssn)
  BY DEF Says, AnswerInv
<1>4. Origin[g] = k
  <2>1. MaxAmpdu # 1 /\ z # k
    BY DEF Says, AnswerInv
  <2>2. Dest[g] # Group
    BY <1>3, StationAssumption
  <2>3. Origin[f] \in {Origin[g], Dest[g]}
    BY <1>2, <2>1, <2>2 DEF AnswersNameFrames
  <2>4. QED
    BY <1>2, <1>3, <2>1, <2>3
<1>5. g \in Sent(mac[k])
  <2>1. GivenInv(given[z], mac[k], k, z)
    BY DEF AckInv, DeliveryInv, PairInv
  <2>2. given[z][g] = 1
    BY <1>3, <1>4, <2>1 DEF GivenInv
  <2>3. QED
    BY <1>3, <1>4, <2>1, <2>2 DEF GivenInv
<1>6. mac[k].seqOf[g] = mac[k].seqOf[f]
  <2>1. p.ssn \in SeqNum
    BY DEF Says, AnswerInv
  <2>2. QED
    BY <1>2, <1>3, <1>4, <2>1, OffsetTells
<1>7. g = f
  BY <1>1, <1>2, <1>5, <1>6, NumbersDiffer
<1>8. QED
  BY <1>3, <1>7, StationAssumption DEF Acknowledged

(* An answer is taken for what it is.                                      *)
LEMMA AnswerAck ==
  ASSUME AnswersNameFrames, AckInv, DeliveryInv', NEW k \in Station, NEW z \in Station,
         ReceiveNdpAck(k, z) \/ ReceiveBlockAck(k, z) \/ ReceiveAck(k, z) \/ ReceiveCts(k, z)
  PROVE  AckInv'
<1> DEFINE m == mac[k]
           p == Head(air[z][k])
<1>1. /\ mac \in [Station -> MacRecord] /\ MacInv(m) /\ m \in MacRecord /\ AwaitInv(m)
      /\ air \in [Station -> [Station -> Seq(Ppdu)]]
  BY DEF AckInv, DeliveryInv, LinkInv, EngineTypeOK
<1>2. PICK type : Hears(k, z, type)
  BY DEF ReceiveNdpAck, ReceiveBlockAck, ReceiveAck, ReceiveCts
<1>3. /\ p \in ToSet(air[z][k])
      /\ \A s, n \in Station : ToSet(air'[s][n]) \subseteq ToSet(air[s][n])
  BY <1>1, <1>2, AirHeard
<1>4. Says(p, z, k, given[z], mac)
  BY <1>3 DEF AckInv
<1>5. UNCHANGED <<dedup, given>>
  BY DEF ReceiveNdpAck, ReceiveBlockAck, ReceiveAck, ReceiveCts
<1>6. ASSUME NEW r, mac' = [mac EXCEPT ![k] = r], MacInv(r), Settles(m, r),
             NEW A, Resolves(m, r, A), \A f \in A : Acknowledged(f, given)
      PROVE  AckInv'
  BY <1>3, <1>5, <1>6, AckSettles
<1>7. Resolves(m, m, {}) /\ Settles(m, m) /\ \A f \in {} : Acknowledged(f, given)
  BY <1>1, SameResolves, SameSettles
<1>8. ASSUME NEW A, \A f \in m.flight \cap A : Acknowledged(f, given),
             mac' = [mac EXCEPT ![k] = ResolveAttempt(m, A)]
      PROVE  AckInv'
  <2> DEFINE r == ResolveAttempt(m, A)
             B == m.flight \cap A
  <2>1. MacInv(r) /\ Settles(m, r) /\ Resolves(m, r, B)
    BY <1>1, ResolveInv, ResolveSettles, AttemptResolves
  <2>2. mac' = [mac EXCEPT ![k] = r] /\ \A f \in B : Acknowledged(f, given)
    BY <1>8
  <2> HIDE DEF r, B
  <2>3. QED
    BY <1>6, <2>1, <2>2
<1>9. ASSUME mac' = [mac EXCEPT ![k] = m] PROVE AckInv'
  <2> DEFINE A == {}
  <2>1. MacInv(m) /\ Resolves(m, m, A) /\ Settles(m, m) /\ \A f \in A : Acknowledged(f, given)
    BY <1>1, <1>7
  <2> HIDE DEF A, m
  <2>2. QED
    BY <1>6, <1>9, <2>1
<1>10. CASE ReceiveNdpAck(k, z)
  <2>1. mac' = [mac EXCEPT ![k] = OnNdpAck(m, p)] /\ p.type = "ndpack"
    BY <1>1, <1>10 DEF ReceiveNdpAck, Hears
  <2> HIDE DEF m, p
  <2>2. CASE m.expect = [type |-> "ndpack", id |-> p.id]
    <3>1. AnswerInv(p, z, given[z], mac)
      BY <1>4 DEF Says
    <3>2. \A f \in m.flight \cap m.flight : Acknowledged(f, given)
      BY <1>1, <2>1, <2>2, <3>1, NdpAckIsTrue
    <3>3. OnNdpAck(m, p) = ResolveAttempt(m, m.flight)
      BY <2>2 DEF OnNdpAck
    <3>4. QED
      BY <1>8, <2>1, <3>2, <3>3
  <2>3. CASE m.expect # [type |-> "ndpack", id |-> p.id]
    BY <1>9, <2>1, <2>3 DEF OnNdpAck
  <2>4. QED
    BY <2>2, <2>3
<1>11. CASE ReceiveBlockAck(k, z)
  <2>1. mac' = [mac EXCEPT ![k] = OnBlockAck(m, p)] /\ p.type = "ndpba"
    BY <1>1, <1>11 DEF ReceiveBlockAck, Hears
  <2> DEFINE A == {f \in m.flight : Offset(m.seqOf[f], p.ssn) \in p.bits}
  <2> HIDE DEF p
  <2>2. CASE m.expect = [type |-> "ndpba", id |-> p.id]
    <3>1. \A f \in m.flight \cap A : Acknowledged(f, given)
      BY <1>4, <2>1, BlockAckIsTrue
    <3>2. OnBlockAck(m, p) = ResolveAttempt(m, A)
      BY <2>2 DEF OnBlockAck
    <3> HIDE DEF A, m
    <3>3. QED
      BY <1>8, <2>1, <3>1, <3>2
  <2>3. CASE m.expect # [type |-> "ndpba", id |-> p.id]
    BY <1>9, <2>1, <2>3 DEF OnBlockAck
  <2>4. QED
    BY <2>2, <2>3
<1>12. CASE ReceiveAck(k, z)
  <2>1. mac' = [mac EXCEPT ![k] = OnAck(m)]
    BY <1>1, <1>12 DEF ReceiveAck
  <2>2. OnAck(m) = m
    BY <1>1 DEF OnAck, AwaitInv
  <2> HIDE DEF m
  <2>3. QED
    BY <1>9, <2>1, <2>2
<1>13. CASE ReceiveCts(k, z)
  <2>1. mac' = [mac EXCEPT ![k] = OnCts(m)]
    BY <1>1, <1>13 DEF ReceiveCts
  <2> DEFINE r == OnCts(m)
             A == {}
  <2>2. MacInv(r) /\ Settles(m, r) /\ Resolves(m, r, A) /\ \A f \in A : Acknowledged(f, given)
    BY <1>1, CtsInv, CtsSettles, SameResolves
  <2>3. mac' = [mac EXCEPT ![k] = r]
    BY <2>1
  <2> HIDE DEF r, A
  <2>4. QED
    BY <1>6, <2>2, <2>3
<1>14. QED
  BY <1>10, <1>11, <1>12, <1>13

LEMMA ReceiveRtsAck ==
  ASSUME AckInv, DeliveryInv', NEW k \in Station, NEW z \in Station, ReceiveRts(k, z)
  PROVE  AckInv'
<1> DEFINE m == mac[k]
           cts == [type |-> "cts", ra |-> PartialAid[z]]
           q == m.responses \o <<cts>>
           r == [m EXCEPT !.responses = q]
<1>1. /\ mac \in [Station -> MacRecord] /\ NumberInv(m) /\ AwaitInv(m) /\ m \in MacRecord
      /\ air \in [Station -> [Station -> Seq(Ppdu)]] /\ m.responses \in Seq(Ppdu)
  BY DEF AckInv, DeliveryInv, LinkInv, EngineTypeOK, MacRecord
<1>2. mac' = [mac EXCEPT ![k] = r] /\ UNCHANGED <<dedup, given>> /\ Hears(k, z, "rts")
  BY <1>1 DEF ReceiveRts, Respond
<1>3. cts \in Ppdu /\ cts.type = "cts"
  BY ControlPpdus
<1> HIDE DEF cts
<1>4. ToSet(q) \subseteq ToSet(m.responses) \cup {cts}
  <2>1. <<cts>> \in Seq(Ppdu) /\ ToSet(<<cts>>) = {cts}
    BY <1>3 DEF ToSet
  <2> DEFINE a == m.responses
             b == <<cts>>
  <2> HIDE DEF a, b
  <2>2. a \in Seq(Ppdu) /\ b \in Seq(Ppdu) /\ ToSet(b) = {cts}
    BY <1>1, <2>1 DEF a, b
  <2>3. ToSet(a \o b) \subseteq ToSet(a) \cup ToSet(b)
    BY <2>2, QueueHolds
  <2>4. QED
    BY <2>2, <2>3 DEF a, b
<1>5. AnswerInv(cts, k, given[k], mac)
  BY <1>3 DEF AnswerInv
<1> HIDE DEF q
<1>6. /\ r.seq = m.seq /\ r.seqOf = m.seqOf /\ r.queue = m.queue /\ r.outcome = m.outcome
      /\ r.expect = m.expect /\ r.flight = m.flight /\ r.responses = q
  BY <1>1 DEF MacRecord
<1> HIDE DEF r
<1>7. NumberInv(r) /\ AwaitInv(r)
  BY <1>1, <1>6, SameNumbers DEF AwaitInv, Sent
<1>8. \A s, n \in Station : ToSet(air'[s][n]) \subseteq ToSet(air[s][n])
  BY <1>1, <1>2, AirHeard
<1>9. QED
  BY <1>2, <1>4, <1>5, <1>6, <1>7, <1>8, AckQuiet

LEMMA HeardData ==
  ASSUME AckInv, NEW k \in Station, NEW z \in Station, ReceiveData(k, z)
  PROVE  GivenAfter(Noted(k, z), Head(air[z][k]).mpdus, mac[z], given[k], z)
<1>1. given[k] \in [Frame -> Nat] /\ NumberInv(mac[z]) /\ OwnInv(mac[z], z)
  BY DEF AckInv, DeliveryInv, LinkInv, EngineTypeOK, StationInv
<1>2. PairInv(mac[z], air[z][k], given[k], dedup[k][z], z, k)
  BY DEF AckInv, DeliveryInv
<1>3. RingGiven(dedup[k][z], mac[z], given[k], z)
  BY DEF AckInv
<1>4. air[z][k] # <<>> /\ Head(air[z][k]) = air[z][k][1]
  BY ReceiveDataPairs DEF AckInv
<1>5. air[z][k][1].type = "data"
  BY <1>4 DEF ReceiveData, Hears
<1>6. GivenAfter(Deduplicate(dedup[k][z], air[z][k][1].mpdus), air[z][k][1].mpdus,
                 mac[z], given[k], z)
  BY <1>1, <1>2, <1>3, <1>4, <1>5, HeardIsGiven
<1>7. QED
  BY <1>4, <1>6 DEF Noted

LEMMA ReceiveDataAck ==
  ASSUME AckInv, DeliveryInv', NEW k \in Station, NEW z \in Station, ReceiveData(k, z)
  PROVE  AckInv'
<1> DEFINE m == mac[k]
           line == air[z][k]
           p == Head(line)
           d == Noted(k, z)
           q == DataResponse(p, z)
           r == Respond(m, q)
<1>1. /\ mac \in [Station -> MacRecord] /\ NumberInv(m) /\ AwaitInv(m) /\ m \in MacRecord
      /\ MacInv(m)
      /\ air \in [Station -> [Station -> Seq(Ppdu)]] /\ m.responses \in Seq(Ppdu)
      /\ given \in [Station -> [Frame -> Nat]]
      /\ dedup \in [Station -> [Station -> Seq(SeqNum)]]
      /\ DeliveryInv
  BY DEF AckInv, DeliveryInv, LinkInv, EngineTypeOK, MacRecord
<1>2. /\ Hears(k, z, "data") /\ mac' = [mac EXCEPT ![k] = r]
  BY <1>1 DEF ReceiveData
<1>3. /\ given' = [given EXCEPT ![k] = Handed(given[k], d.fresh)]
      /\ dedup' = [dedup EXCEPT ![k][z] = d.ring]
      /\ line # <<>> /\ p = line[1]
  BY <1>1, ReceiveDataPairs
<1>4. p \in Ppdu /\ p.type = "data"
  BY <1>1, <1>2, HearsTyped
<1>5. p \in ToSet(line) /\ \A s, n \in Station : ToSet(air'[s][n]) \subseteq ToSet(air[s][n])
  BY <1>1, <1>2, AirHeard
<1>6. DataInv(p)
  BY <1>5 DEF AckInv, Says
<1>7. /\ \A x \in p.mpdus : x.frame \in d.fresh \/ given[k][x.frame] > 0
      /\ \A v \in ToSet(d.ring) : \E g \in Frame :
           Origin[g] = z /\ (g \in d.fresh \/ given[k][g] > 0) /\ v = mac[z].seqOf[g]
  BY HeardData DEF GivenAfter
<1>8. \A f \in Frame : (f \in d.fresh \/ given[k][f] > 0) => given'[k][f] > 0
  <2>1. given'[k] = Handed(given[k], d.fresh)
    BY <1>1, <1>3
  <2>2. \A f \in Frame : given[k][f] \in Nat
    BY <1>1
  <2> HIDE DEF d
  <2>3. \A f \in Frame :
          Handed(given[k], d.fresh)[f] = IF f \in d.fresh THEN given[k][f] + 1 ELSE given[k][f]
    BY DEF Handed
  <2>4. QED
    BY <2>1, <2>2, <2>3
<1>9. \A n \in Station : n # k => given'[n] = given[n]
  BY <1>1, <1>3
<1> HIDE DEF d
<1>10. r.seq = m.seq /\ r.seqOf = m.seqOf /\ r.queue = m.queue /\ r.outcome = m.outcome
       /\ r.expect = m.expect /\ r.flight = m.flight /\ r.responses = m.responses \o q
  <2> DEFINE b == m.responses \o q
  <2>1. r = [m EXCEPT !.responses = b]
    BY <1>1 DEF Respond, MacRecord
  <2> HIDE DEF b, r, m
  <2>2. r.seq = m.seq /\ r.seqOf = m.seqOf /\ r.queue = m.queue /\ r.outcome = m.outcome
        /\ r.expect = m.expect /\ r.flight = m.flight /\ r.responses = b
    BY <1>1, <2>1 DEF MacRecord
  <2>3. QED
    BY <2>2 DEF b
<1> HIDE DEF r, q, p, line
<1>11. NumberInv(r) /\ AwaitInv(r)
  BY <1>1, <1>10, SameNumbers DEF AwaitInv, Sent
<1>12. Moves(k, r)
  <2>1. \A n \in Station, f \in Frame : given[n][f] > 0 => given'[n][f] > 0
    BY <1>8, <1>9
  <2>2. QED
    BY <1>2, <1>10, <2>1 DEF Moves
<1>13. mac'[z].seqOf = mac[z].seqOf
  BY <1>1, <1>2, <1>10
<1>14. \A y \in ToSet(q) : AnswerInv(y, k, given'[k], mac')
  <2> DEFINE count == given'[k]
             M == mac'
             mz == mac[z]
  <2>1. PpduInv(p, mz, z, k) /\ OwnInv(mz, z)
    <3>1. LineInv(line, mz, z, k) /\ OwnInv(mz, z)
      BY <1>1 DEF DeliveryInv, PairInv, StationInv, line
    <3>2. line \in Seq(Ppdu) /\ 1 \in 1 .. Len(line)
      BY <1>1, <1>3, EmptySeq, LenProperties DEF line
    <3>3. QED
      BY <1>3, <3>1, <3>2 DEF LineInv
  <2>2. \A x \in p.mpdus : count[x.frame] > 0
    <3>1. \A x \in p.mpdus : x.frame \in Frame
      BY <1>4, <2>1 DEF PpduInv, MpduInv, Sent
    <3>2. QED
      BY <1>7, <1>8, <3>1
  <2>3. M[z].seqOf = mz.seqOf
    BY <1>13
  <2> HIDE DEF count, M, mz
  <2>4. \A y \in ToSet(DataResponse(p, z)) : AnswerInv(y, k, count, M)
    BY <1>4, <1>6, <2>1, <2>2, <2>3, DataIsAnswered
  <2>5. QED
    BY <2>4 DEF count, M, q
<1>15. ToSet(r.responses) \subseteq ToSet(m.responses) \cup ToSet(q)
  <2>1. q \in Seq(Ppdu)
    BY <1>4, DataResponseTyped DEF q
  <2> DEFINE a == m.responses
  <2> HIDE DEF a
  <2>2. a \in Seq(Ppdu)
    BY <1>1 DEF a
  <2>3. ToSet(a \o q) \subseteq ToSet(a) \cup ToSet(q)
    BY <2>1, <2>2, QueueHolds
  <2>4. QED
    BY <1>10, <2>3 DEF a
<1>16. ASSUME NEW s \in Station, NEW n \in Station
       PROVE  RingGiven(dedup'[n][s], mac'[s], given'[n], s)
  <2>1. dedup'[n][s] = IF n = k /\ s = z THEN d.ring ELSE dedup[n][s]
    BY <1>1, <1>3
  <2>2. CASE n = k /\ s = z
    BY <1>7, <1>8, <1>13, <2>1, <2>2 DEF RingGiven
  <2>3. CASE ~(n = k /\ s = z)
    <3>1. RingGiven(dedup[n][s], mac'[s], given'[n], s)
      BY <1>12, RingsStay
    <3>2. QED
      BY <2>1, <2>3, <3>1
  <2>4. QED
    BY <2>2, <2>3
<1>17. /\ \A f \in Frame : (Origin[f] = k /\ r.outcome[f] = "acked") =>
                           mac[k].outcome[f] = "acked" \/ Acknowledged(f, given')
       /\ \A y \in ToSet(r.responses) :
            y \in ToSet(mac[k].responses) \/ AnswerInv(y, k, given'[k], mac')
  BY <1>10, <1>14, <1>15
<1>18. \A s, n \in Station : \A y \in ToSet(air'[s][n]) :
         y \in ToSet(air[s][n]) \/ Says(y, s, n, given'[s], mac')
  BY <1>5
<1> HIDE DEF m
<1>19. QED
  BY <1>11, <1>12, <1>16, <1>17, <1>18, AckRecord

LEMMA AckInit == Init => AckInv
<1> SUFFICES ASSUME Init PROVE AckInv
  OBVIOUS
<1>1. /\ \A s \in Station : mac[s] = NewMac
      /\ \A s, n \in Station : air[s][n] = <<>> /\ dedup[n][s] = <<>>
  BY DEF Init
<1>2. /\ NewMac.seq = 0 /\ NewMac.responses = <<>> /\ NewMac.flight = {}
      /\ NewMac.expect = NoResponse /\ NewMac.expect.type = "none"
      /\ \A f \in Frame : NewMac.outcome[f] = "new"
  BY DEF NewMac, NoResponse
<1>3. ToSet(<<>>) = {}
  BY DEF ToSet
<1>4. Sent(NewMac) = {}
  BY <1>2 DEF Sent
<1>5. NumberInv(NewMac)
  <2>1. Cardinality(Sent(NewMac)) = 0
    BY <1>4, FS_EmptySet
  <2>2. SeqSpace \in Nat \ {0}
    BY ConfigAssumption
  <2>3. 0 % SeqSpace = 0
    BY <2>2
  <2>4. QED
    BY <1>2, <1>4, <2>1, <2>3 DEF NumberInv
<1>6. AwaitInv(NewMac)
  BY <1>2 DEF AwaitInv
<1> HIDE DEF NewMac
<1>7. \A s \in Station :
        /\ NumberInv(mac[s]) /\ AwaitInv(mac[s]) /\ AckedInv(mac[s], s, given)
        /\ \A p \in ToSet(mac[s].responses) : AnswerInv(p, s, given[s], mac)
  BY <1>1, <1>2, <1>3, <1>5, <1>6 DEF AckedInv
<1>8. \A s, n \in Station :
        /\ \A p \in ToSet(air[s][n]) : Says(p, s, n, given[s], mac)
        /\ RingGiven(dedup[n][s], mac[s], given[n], s)
  BY <1>1, <1>3 DEF RingGiven
<1>9. QED
  BY <1>7, <1>8, DeliveryInit DEF AckInv

LEMMA AckStep ==
  ASSUME AnswersNameFrames, AckInv, [Next]_vars
  PROVE  AckInv'
<1>1. DeliveryInv /\ DeliveryInv'
  BY DeliveryStep DEF AckInv
<1>2. CASE UNCHANGED vars
  <2>1. UNCHANGED mac /\ UNCHANGED dedup /\ UNCHANGED air /\ UNCHANGED given
    BY <1>2 DEF vars
  <2>2. QED
    BY <1>1, <2>1 DEF AckInv
<1>3. ASSUME NEW k \in Station, NEW z \in Station, Receive(k, z) PROVE AckInv'
  BY <1>1, <1>3, ReceiveDataAck, ReceiveRtsAck, AnswerAck DEF Receive
<1>4. QED
  BY <1>1, <1>2, <1>3, OfferAck, PollResponseAck, PollTimeoutAck, PollPullAck, PollRtsAck,
     PollDataAck DEF Next, Quiescent

(* An outcome reported as acknowledged is the truth: the frame has reached *)
(* the host it is for, however late the answers come (on_ndp), as long as  *)
(* the answers name the frames they acknowledge.                           *)
THEOREM AckedIsTrue ==
  ASSUME AnswersNameFrames
  PROVE  Spec => []AckedIsDelivered
<1>1. AckInv => AckedIsDelivered
  <2> SUFFICES ASSUME AckInv, NEW f \in Frame, mac[Origin[f]].outcome[f] = "acked"
               PROVE  given[Dest[f]][f] > 0
    BY DEF AckedIsDelivered
  <2>1. Origin[f] \in Station
    BY FrameAssumption
  <2>2. QED
    BY <2>1 DEF AckInv, AckedInv, Acknowledged
<1>2. AckInv /\ [Next]_vars => AckInv'
  BY AckStep
<1>3. QED
  BY <1>1, <1>2, AckInit, PTL DEF Spec

-----------------------------------------------------------------------------
(* What the engines do, their hosts see as FrameDelivery says.             *)

Told(M, f) == M[Origin[f]].outcome[f]
Holders(G, f) == {n \in Station : G[n][f] > 0}
ReceiversOf(f) == IF Dest[f] = Group THEN Station \ {Origin[f]} ELSE {Dest[f]}

(* A handler that settles frames is one report of their outcomes.          *)
LEMMA ReportStep ==
  ASSUME AckInv, AckInv', NEW k \in Station, NEW r, mac' = [mac EXCEPT ![k] = r],
         given' = given,
         \A f \in Frame : \/ r.outcome[f] = mac[k].outcome[f]
                          \/ f \in mac[k].batch /\ r.outcome[f] \in {"acked", "dropped", "sent"}
  PROVE  Delivery!Next
<1> DEFINE Now(o) == {f \in Frame : Told(mac', f) = o /\ Told(mac, f) # o}
           A == Now("acked")
           U == Now("sent")
           D == Now("dropped")
<1>1. /\ mac \in [Station -> MacRecord] /\ MacInv(mac[k]) /\ OwnInv(mac[k], k)
  BY DEF AckInv, DeliveryInv, LinkInv, EngineTypeOK, StationInv
<1>2. \A s \in Station : mac'[s] = IF s = k THEN r ELSE mac[s]
  BY <1>1
<1>3. \A f \in Frame : Origin[f] \in Station
  BY FrameAssumption
<1>4. ASSUME NEW f \in Frame, Told(mac', f) # Told(mac, f)
      PROVE  Told(mac, f) = "pending" /\ Told(mac', f) \in {"acked", "dropped", "sent"}
  <2>1. Origin[f] = k
    BY <1>2, <1>3, <1>4 DEF Told
  <2>2. f \in mac[k].batch /\ r.outcome[f] \in {"acked", "dropped", "sent"}
    BY <1>2, <1>4, <2>1 DEF Told
  <2>3. mac[k].outcome[f] = "pending"
    BY <1>1, <2>2 DEF MacInv, HoldInv, Held
  <2>4. QED
    BY <1>2, <2>1, <2>2, <2>3 DEF Told
<1>5. \A f \in A \cup U \cup D : f \in Frame /\ Told(mac, f) = "pending"
  BY <1>4
<1>6. ASSUME NEW f \in A PROVE ReceiversOf(f) \subseteq Holders(given, f)
  <2>1. f \in Frame /\ mac'[Origin[f]].outcome[f] = "acked" /\ Origin[f] \in Station
    BY <1>3 DEF Told
  <2>2. Acknowledged(f, given')
    BY <2>1 DEF AckInv, AckedInv
  <2>3. Dest[f] \in Station /\ Dest[f] # Group /\ given[Dest[f]][f] > 0
    BY <2>1, <2>2, FrameAssumption DEF Acknowledged
  <2>4. QED
    BY <2>3 DEF ReceiversOf, Holders
<1>7. \A f \in Frame :
        Told(mac', f) = IF f \in A THEN "acked" ELSE IF f \in U THEN "sent"
                        ELSE IF f \in D THEN "dropped" ELSE Told(mac, f)
  BY <1>4
<1>8. A \in SUBSET Frame /\ U \in SUBSET Frame /\ D \in SUBSET Frame
  OBVIOUS
<1> HIDE DEF A, U, D, Now
<1>9. PICK a, u, d \in SUBSET Frame : a = A /\ u = U /\ d = D
  BY <1>8
<1>10. Delivery!Report(a, u, d)
  BY <1>5, <1>6, <1>7, <1>9 DEF Delivery!Report, Told, Holders, ReceiversOf
<1>11. QED
  BY <1>10 DEF Delivery!Next

LEMMA OfferAccepts ==
  ASSUME AckInv, NEW k \in Station, Offer(k)
  PROVE  Delivery!Next
<1>1. mac \in [Station -> MacRecord] /\ mac[k] \in MacRecord /\ \A f \in Frame : Origin[f] \in Station
  BY FrameAssumption DEF AckInv, DeliveryInv, LinkInv, EngineTypeOK
<1>2. PICK f \in Frame : /\ Origin[f] = k /\ mac[k].outcome[f] = "new"
                         /\ mac' = [mac EXCEPT ![k] = EnqueueEth(mac[k], f)]
                         /\ UNCHANGED <<dedup, air, given>>
  BY <1>1 DEF Offer
<1> DEFINE r == EnqueueEth(mac[k], f)
<1>3. /\ r.outcome[f] \in {"pending", "refused"}
      /\ \A g \in Frame : g # f => r.outcome[g] = mac[k].outcome[g]
  BY <1>1 DEF EnqueueEth, MacRecord
<1> HIDE DEF r
<1>4. \A s \in Station : mac'[s] = IF s = k THEN r ELSE mac[s]
  BY <1>1, <1>2 DEF r
<1>5. \A g \in Frame : Told(mac', g) = IF g = f THEN r.outcome[f] ELSE Told(mac, g)
  BY <1>1, <1>2, <1>3, <1>4 DEF Told
<1>6. Told(mac, f) = "new" /\ given' = given
  BY <1>2 DEF Told
<1> DEFINE o == r.outcome[f]
<1>7. o \in {"pending", "refused"} /\ \A g \in Frame : Told(mac', g) = IF g = f THEN o ELSE Told(mac, g)
  BY <1>3, <1>5
<1> HIDE DEF o
<1>8. Delivery!Accept(f)
  BY <1>6, <1>7 DEF Delivery!Accept, Told, Holders
<1>9. QED
  BY <1>8 DEF Delivery!Next

(* Received data is handed over once, to a receiver, or is no news at all. *)
LEMMA ReceiveDelivers ==
  ASSUME AckInv, AckInv', NEW k \in Station, NEW z \in Station, ReceiveData(k, z)
  PROVE  Delivery!Next \/ UNCHANGED Delivery!vars
<1> DEFINE line == air[z][k]
           F == Noted(k, z).fresh
           r == Respond(mac[k], DataResponse(Head(line), z))
<1>1. /\ mac \in [Station -> MacRecord] /\ given \in [Station -> [Frame -> Nat]]
      /\ mac[k] \in MacRecord /\ DeliveryInv /\ DeliveryInv'
  BY DEF AckInv, DeliveryInv, LinkInv, EngineTypeOK
<1>2. /\ given' = [given EXCEPT ![k] = Handed(given[k], F)]
      /\ line # <<>> /\ F \subseteq Frames(line[1])
  BY <1>1, ReceiveDataPairs
<1>3. mac' = [mac EXCEPT ![k] = r]
  BY <1>1 DEF ReceiveData
<1>4. r.outcome = mac[k].outcome /\ r.queue = mac[k].queue
  <2> DEFINE b == mac[k].responses \o DataResponse(Head(line), z)
  <2>1. r = [mac[k] EXCEPT !.responses = b]
    BY <1>1 DEF Respond, MacRecord
  <2> HIDE DEF b, r
  <2>2. QED
    BY <1>1, <2>1 DEF MacRecord
<1> HIDE DEF r
<1>5. \A s \in Station : mac'[s].outcome = mac[s].outcome
  BY <1>1, <1>3, <1>4
<1>6. \A f \in Frame : Told(mac', f) = Told(mac, f)
  BY <1>5, FrameAssumption DEF Told
<1>7. \A f \in F : f \in Frame /\ Origin[f] = z /\ f \in Frames(line[1])
  BY <1>1, <1>2, HandedIsOf
<1> HIDE DEF F
<1>8. given'[k] = Handed(given[k], F) /\ \A n \in Station : n # k => given'[n] = given[n]
  BY <1>1, <1>2
<1>9. \A f \in Frame : /\ given[k][f] \in Nat
                       /\ given'[k][f] = IF f \in F THEN given[k][f] + 1 ELSE given[k][f]
  BY <1>1, <1>8 DEF Handed
<1>10. ASSUME NEW f \in F
       PROVE  /\ k \in ReceiversOf(f) \ Holders(given, f)
              /\ Told(mac, f) \notin {"new", "refused"}
  <2>1. GivenInv(given'[k], mac'[z], z, k)
    BY <1>1 DEF DeliveryInv, PairInv
  <2>2. given'[k][f] \in {0, 1}
    BY <1>7, <2>1 DEF GivenInv
  <2>3. given'[k][f] = 1 /\ given[k][f] = 0
    BY <1>7, <1>9, <2>2
  <2>4. f \in Sent(mac'[z]) /\ z # k /\ Dest[f] \in {k, Group}
    BY <1>7, <2>1, <2>3 DEF GivenInv
  <2>5. k \in ReceiversOf(f)
    BY <1>7, <2>4, StationAssumption DEF ReceiversOf
  <2>6. k \notin Holders(given, f)
    BY <2>3 DEF Holders
  <2>7. Told(mac', f) \notin {"new", "refused"}
    BY <1>7, <2>4 DEF Sent, Told
  <2>8. QED
    BY <1>6, <1>7, <2>5, <2>6, <2>7
<1>11. \A f \in Frame :
         Holders(given', f) = IF f \in F THEN Holders(given, f) \cup {k} ELSE Holders(given, f)
  <2> SUFFICES ASSUME NEW f \in Frame, NEW n \in Station
               PROVE  given'[n][f] > 0 <=> given[n][f] > 0 \/ (n = k /\ f \in F)
    BY DEF Holders
  <2>1. CASE n = k
    BY <1>9, <2>1
  <2>2. CASE n # k
    BY <1>8, <2>2
  <2>3. QED
    BY <2>1, <2>2
<1>12. F \in SUBSET Frame
  BY <1>7
<1>13. CASE F = {}
  <2>1. \A f \in Frame : Holders(given', f) = Holders(given, f)
    BY <1>11, <1>13
  <2>2. UNCHANGED Delivery!vars
    BY <1>6, <2>1 DEF Delivery!vars, Told, Holders
  <2>3. QED
    BY <2>2
<1>14. CASE F # {}
  <2>1. PICK S \in SUBSET Frame : S = F
    BY <1>12
  <2>2. Delivery!Deliver(k, S)
    BY <1>6, <1>10, <1>11, <2>1 DEF Delivery!Deliver, Told, Holders, ReceiversOf
  <2>3. PICK f \in S : f \in Frame /\ k \in ReceiversOf(f)
    BY <1>10, <1>12, <1>14, <2>1
  <2>4. Delivery!Next
    BY <2>2, <2>3 DEF Delivery!Next, ReceiversOf
  <2>5. QED
    BY <2>4
<1>15. QED
  BY <1>13, <1>14

(* An attempt puts something of the batch on the air.                      *)
LEMMA DataAttempts ==
  ASSUME DeliveryInv, NEW k \in Station, PollData(k)
  PROVE  \E P \in SUBSET mac[k].batch, seed \in Seed :
           P # {} /\ mac' = [mac EXCEPT ![k] = Attempt(mac[k], P, seed)] /\ given' = given
<1> DEFINE m == mac[k]
<1>1. /\ mac \in [Station -> MacRecord] /\ MacInv(m) /\ StationInv(m, k)
      /\ m.batch \in SUBSET Frame
  BY DEF DeliveryInv, LinkInv, EngineTypeOK, MacInv, MacRecord
<1>2. PICK c \in Choice, seed \in Seed :
        mac' = [mac EXCEPT ![k] = Attempt(@, PlanAttempt(m.batch, c), seed)]
  BY DEF PollData
<1> DEFINE P == PlanAttempt(m.batch, c)
<1>3. mac' = [mac EXCEPT ![k] = Attempt(mac[k], P, seed)] /\ given' = given
      /\ m.mode = "backoff"
  BY <1>1, <1>2 DEF PollData
<1>4. P \in SUBSET m.batch
  BY <1>1, PlanIsPrefix
<1>5. P # {}
  <2>1. m.batch # {}
    BY <1>1, <1>3 DEF MacInv, ModeInv
  <2>2. \A f \in m.batch : Fits({f}, Floor)
    BY <1>1 DEF StationInv, BuildInv, FloorInv, Held
  <2> HIDE DEF m
  <2>3. QED
    BY <1>1, <2>1, <2>2, PlanIsSomething
<1>6. QED
  BY <1>3, <1>4, <1>5

LEMMA StepDelivers ==
  ASSUME AckInv, AckInv', [Next]_vars
  PROVE  Delivery!Next \/ UNCHANGED Delivery!vars
<1>1. /\ mac \in [Station -> MacRecord] /\ \A k \in Station : MacInv(mac[k]) /\ mac[k] \in MacRecord
      /\ \A k \in Station : StationInv(mac[k], k)
  BY DEF AckInv, DeliveryInv, LinkInv, EngineTypeOK
<1>2. ASSUME NEW k \in Station, NEW r, mac' = [mac EXCEPT ![k] = r], given' = given,
             Settles(mac[k], r)
      PROVE  Delivery!Next
  BY <1>2, ReportStep DEF Settles
<1>3. ASSUME NEW k \in Station, NEW q, mac' = [mac EXCEPT ![k] = PullBatch(q)], given' = given,
             MacInv(q), Settles(mac[k], q)
      PROVE  Delivery!Next
  <2> DEFINE r == PullBatch(q)
  <2>1. r.outcome = q.outcome
    BY <1>3, PullTakes DEF Pulled
  <2>2. mac' = [mac EXCEPT ![k] = r]
    BY <1>3
  <2> HIDE DEF r
  <2>3. \A f \in Frame : \/ r.outcome[f] = mac[k].outcome[f]
                         \/ f \in mac[k].batch /\ r.outcome[f] \in {"acked", "dropped", "sent"}
    BY <1>3, <2>1 DEF Settles
  <2>4. QED
    BY <1>3, <2>2, <2>3, ReportStep
<1>4. ASSUME NEW k \in Station, PollResponse(k) PROVE Delivery!Next
  <2> DEFINE r == [mac[k] EXCEPT !.responses = Tail(mac[k].responses)]
  <2>1. mac' = [mac EXCEPT ![k] = r] /\ given' = given
    BY <1>1, <1>4 DEF PollResponse
  <2>2. Settles(mac[k], r)
    BY <1>1, <1>4, ReplySettles DEF PollResponse
  <2> HIDE DEF r
  <2>3. QED
    BY <1>2, <2>1, <2>2
<1>5. ASSUME NEW k \in Station, PollTimeout(k) PROVE Delivery!Next
  <2>1. mac' = [mac EXCEPT ![k] = PullBatch(FailAttempt(mac[k]))] /\ given' = given
    BY <1>1, <1>5 DEF PollTimeout
  <2>2. MacInv(FailAttempt(mac[k])) /\ Settles(mac[k], FailAttempt(mac[k]))
    BY <1>1, FailInv, FailSettles
  <2>3. QED
    BY <1>3, <2>1, <2>2
<1>6. ASSUME NEW k \in Station, PollPull(k) PROVE Delivery!Next
  <2>1. mac' = [mac EXCEPT ![k] = PullBatch(mac[k])] /\ given' = given
    BY <1>1, <1>6 DEF PollPull
  <2>2. QED
    BY <1>1, <1>3, <2>1, SameSettles
<1>7. ASSUME NEW k \in Station, PollRts(k) PROVE Delivery!Next
  <2>1. mac' = [mac EXCEPT ![k] = AwaitCts(mac[k])] /\ given' = given
    BY <1>1, <1>7 DEF PollRts
  <2>2. Settles(mac[k], AwaitCts(mac[k]))
    BY <1>1, CtsSettles
  <2>3. QED
    BY <1>2, <2>1, <2>2
<1>8. ASSUME NEW k \in Station, PollData(k) PROVE Delivery!Next
  <2>1. PICK P \in SUBSET mac[k].batch, seed \in Seed :
          P # {} /\ mac' = [mac EXCEPT ![k] = Attempt(mac[k], P, seed)] /\ given' = given
    BY <1>8, DataAttempts DEF AckInv
  <2>2. Settles(mac[k], Attempt(mac[k], P, seed))
    BY <1>1, <2>1, AttemptSettles
  <2>3. QED
    BY <1>2, <2>1, <2>2
<1>9. ASSUME NEW k \in Station, NEW z \in Station, Receive(k, z)
      PROVE  Delivery!Next \/ UNCHANGED Delivery!vars
  <2>1. CASE ReceiveData(k, z)
    BY <2>1, ReceiveDelivers
  <2>2. CASE ReceiveRts(k, z)
    <3> DEFINE cts == [type |-> "cts", ra |-> PartialAid[z]]
               q == <<cts>>
               r == Respond(mac[k], q)
    <3>1. mac' = [mac EXCEPT ![k] = r] /\ given' = given
      BY <1>1, <2>2 DEF ReceiveRts
    <3>2. q \in Seq(Ppdu) /\ \A i \in 1 .. Len(q) : q[i].type # "data"
      <4>1. cts \in Ppdu /\ cts.type # "data"
        BY ControlPpdus
      <4> HIDE DEF cts
      <4>2. QED
        BY <4>1
    <3> HIDE DEF cts, q
    <3>3. Settles(mac[k], r)
      BY <1>1, <3>2, RespondSettles
    <3> HIDE DEF r
    <3>4. QED
      BY <1>2, <3>1, <3>3
  <2> DEFINE p == Head(air[z][k])
  <2>3. Settles(mac[k], OnNdpAck(mac[k], p)) /\ Settles(mac[k], OnBlockAck(mac[k], p))
        /\ Settles(mac[k], OnAck(mac[k])) /\ Settles(mac[k], OnCts(mac[k]))
    BY <1>1, ResponseSettles, CtsSettles
  <2>4. CASE ReceiveNdpAck(k, z)
    <3>1. mac' = [mac EXCEPT ![k] = OnNdpAck(mac[k], p)] /\ given' = given
      BY <1>1, <2>4 DEF ReceiveNdpAck
    <3>2. QED
      BY <1>2, <2>3, <3>1
  <2>5. CASE ReceiveBlockAck(k, z)
    <3>1. mac' = [mac EXCEPT ![k] = OnBlockAck(mac[k], p)] /\ given' = given
      BY <1>1, <2>5 DEF ReceiveBlockAck
    <3>2. QED
      BY <1>2, <2>3, <3>1
  <2>6. CASE ReceiveAck(k, z)
    <3>1. mac' = [mac EXCEPT ![k] = OnAck(mac[k])] /\ given' = given
      BY <1>1, <2>6 DEF ReceiveAck
    <3>2. QED
      BY <1>2, <2>3, <3>1
  <2>7. CASE ReceiveCts(k, z)
    <3>1. mac' = [mac EXCEPT ![k] = OnCts(mac[k])] /\ given' = given
      BY <1>1, <2>7 DEF ReceiveCts
    <3>2. QED
      BY <1>2, <2>3, <3>1
  <2>8. QED
    BY <1>9, <2>1, <2>2, <2>4, <2>5, <2>6, <2>7 DEF Receive
<1>10. CASE UNCHANGED vars
  BY <1>10 DEF vars, Delivery!vars
<1>11. QED
  BY <1>4, <1>5, <1>6, <1>7, <1>8, <1>9, <1>10, OfferAccepts DEF Next, Quiescent

(* The engines implement FrameDelivery: every call of poll, enqueue_eth or *)
(* on_phy_event is, seen from the hosts, an acceptance, a first delivery   *)
(* to a receiver, a report that is true and final, or nothing.             *)
THEOREM DeliveryImplemented ==
  ASSUME AnswersNameFrames
  PROVE  Spec => DeliverySpec
<1>1. Init => Delivery!Init
  <2> SUFFICES ASSUME Init PROVE Delivery!Init
    OBVIOUS
  <2>1. \A f \in Frame : Told(mac, f) = "new" /\ Holders(given, f) = {}
    BY FrameAssumption DEF Init, NewMac, Told, Holders
  <2>2. QED
    BY <2>1 DEF Delivery!Init, Told, Holders
<1>2. AckInv /\ AckInv' /\ [Next]_vars => [Delivery!Next]_(Delivery!vars)
  BY StepDelivers
<1>3. AckInv /\ [Next]_vars => AckInv'
  BY AckStep
<1>4. QED
  BY <1>1, <1>2, <1>3, AckInit, PTL DEF Spec, DeliverySpec, Delivery!Spec
=============================================================================
