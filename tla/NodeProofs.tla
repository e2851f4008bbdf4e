----------------------------- MODULE NodeProofs -----------------------------
(***************************************************************************)
(* Proofs about the node's threads: its loop (NodeLoop) and its live       *)
(* capture (PcapPipe).                                                     *)
(*                                                                         *)
(* Times of NodeLoop, for any configurations, delays, waits, backoffs and  *)
(* blocking, others on the medium or not: an answer is never timed short,  *)
(* however stale the loop's clock is.                                      *)
(*                                                                         *)
(* PcapPipe, for any backlog and pipe, any number of records and readers,  *)
(* FIFO or not: StreamIsACapture says nothing of records on their way; the *)
(* invariant follows the whole line of them, from what the reader has read *)
(* through the pipe to the backlog.                                        *)
(***************************************************************************)
EXTENDS NodeLoop, PcapPipe, SequenceTheorems, TLAPS

Estimate == [known : BOOLEAN, srtt : Nat, var : Nat]
Books == [since : Nat \cup {Never}, data : BOOLEAN, quiet : Nat]
Answer == [age : Int, delay : Nat]
Message == [kind : {"eth", "answer", "ask"}, age : Int]
Engine ==
  [queue : Nat, cur : {"none", "data", "group", "ident"}, tries : 0 .. MaxRetries,
   st : {"idle", "backoff", "await"}, left : 0 .. MaxBackoff, age : Int, wait : 0 .. MaxWait,
   late : Int, est : Estimate, books : Books]

TypeOK ==
  /\ setup \in Setup
  /\ jumped \in BOOLEAN
  /\ air \in SUBSET Answer
  /\ lost \in Nat
  /\ msgs \in Seq(Message)
  /\ loop \in [phase : {"wait", "send"}, ticks : Nat]
  /\ IF loop.phase = "wait" THEN loop.ticks <= 1 ELSE loop.ticks > 0
  /\ mac \in Engine

-----------------------------------------------------------------------------
(* The invariant.                                                          *)

(* A batch that is due has its work: what backs off has something to send, *)
(* only data is answered.                                                  *)
WorkInv(m) ==
  /\ m.st = "backoff" => m.cur # "none"
  /\ m.st = "await" => m.cur = "data"

(* An answer is as old as the delay it was given.                          *)
AgeInv ==
  /\ \A a \in air : a.delay > ShortestAge
  /\ \A i \in 1 .. Len(msgs) : msgs[i].kind = "answer" => msgs[i].age > ShortestAge

NodeInv == TypeOK /\ WorkInv(mac) /\ AgeInv /\ NotTooShort

-----------------------------------------------------------------------------
(* Arithmetic.                                                             *)

LEMMA Numbers ==
  /\ {MaxWait, MinWait, Headroom, Tick, Airtime, MaxBackoff, MaxRetries, QueueLimit, MaxBlock,
      Interval, EndIdle, EndGap, SinceCap} \subseteq Nat
  /\ Tick > 0 /\ Airtime > 0 /\ EndIdle > 0
BY WaitAssumption, LoopAssumption, IdentAssumption

LEMMA TimesMonotone ==
  ASSUME NEW a \in Int, NEW b \in Int, a <= b, NEW n \in Nat
  PROVE  a * n <= b * n
<1>1. b - a \in Nat
  OBVIOUS
<1>2. PICK d \in Nat : b = a + d
  BY <1>1
<1>3. (a + d) * n = a * n + d * n /\ d * n \in Nat /\ a * n \in Int
  OBVIOUS
<1>4. QED
  BY <1>2, <1>3

-----------------------------------------------------------------------------
(* The estimate of the response delay.                                     *)

Sound(est) == est.known => est.srtt >= ShortestAge * Tick

LEMMA WaitType ==
  ASSUME NEW est \in Estimate, NEW adaptive \in BOOLEAN
  PROVE  Wait(est, adaptive) \in 0 .. MaxWait
BY Numbers DEF Wait, Larger, Smaller, Estimate

LEMMA ShortestType == setup \in Setup => ShortestAge \in Int /\ ShortestAge * Tick \in Int
BY SetupAssumption, Numbers DEF ShortestAge, Smaller

(* The smoothed delay never leaves the side of a bound its samples keep.   *)
LEMMA UpdatedBound ==
  ASSUME NEW est \in Estimate, NEW bound \in Int, est.known => est.srtt >= bound,
         NEW sample \in Nat, sample >= bound
  PROVE  Updated(est, sample) \in Estimate /\ Updated(est, sample).srtt >= bound
<1>1. est.srtt \in Nat /\ est.var \in Nat
  BY DEF Estimate
<1>2. CASE est.known
  <2>1. (7 * est.srtt + sample) \div 8 \in Nat /\ (7 * est.srtt + sample) \div 8 >= bound
    BY <1>1, <1>2
  <2>2. (3 * est.var + Larger(sample - est.srtt, est.srtt - sample)) \div 4 \in Nat
    BY <1>1 DEF Larger
  <2>3. QED
    BY <1>2, <2>1, <2>2 DEF Updated, Estimate
<1>3. CASE ~est.known
  BY <1>3 DEF Updated, Estimate
<1>4. QED
  BY <1>2, <1>3

LEMMA SampleBound ==
  ASSUME setup \in Setup, NEW age \in Int, age > ShortestAge, NEW stale \in 0 .. 1
  PROVE  Sample(age, stale) \in Nat /\ Sample(age, stale) >= ShortestAge * Tick
<1>1. ShortestAge \in Int /\ ShortestAge <= age - stale /\ age - stale \in Int
  BY ShortestType
<1>2. ShortestAge * Tick <= (age - stale) * Tick /\ (age - stale) * Tick \in Int
  BY <1>1, TimesMonotone, Numbers
<1>3. QED
  BY <1>2, ShortestType DEF Sample, Larger

(* One more response, in time or late, keeps the estimate sound.           *)
LEMMA NotedSound ==
  ASSUME setup \in Setup, NEW est \in Estimate, Sound(est), NEW age \in Int, age > ShortestAge,
         NEW stale \in 0 .. 1
  PROVE  \A u \in {Updated(est, Sample(age, stale)), UpdatedLate(est, Sample(age, stale))} :
           Noted(est, u) \in Estimate /\ Sound(Noted(est, u))
<1> DEFINE s == Sample(age, stale)
           b == ShortestAge * Tick
<1>1. s \in Nat /\ s >= b /\ b \in Int
  BY SampleBound, ShortestType
<1>2. est.known => est.srtt >= b
  BY DEF Sound
<1> HIDE DEF s, b
<1>3. Updated(est, s) \in Estimate /\ Updated(est, s).srtt >= b
  BY <1>1, <1>2, UpdatedBound
<1>4. UpdatedLate(est, s) \in {Updated(est, s), est}
  BY DEF UpdatedLate
<1>5. QED
  BY <1>3, <1>4 DEF Noted, Sound, s, b

-----------------------------------------------------------------------------
(* The engine in one turn of the loop.                                     *)

(* What holds of the engine whatever the loop does.                        *)
Ready(m) == m \in Engine /\ WorkInv(m) /\ Sound(m.est)

LEMMA NoneType == None \in Int
BY Numbers DEF None

LEMMA ChoiceType == 0 \in 0 .. MaxRetries /\ 0 \in 0 .. MaxBackoff /\ 0 \in 0 .. MaxWait
BY Numbers

LEMMA RestedReady ==
  ASSUME NEW m \in Engine, Sound(m.est)
  PROVE  Ready(Rested(m))
<1> DEFINE r == Rested(m)
<1>1. r \in Engine /\ r.st = "idle" /\ r.est = m.est
  BY NoneType, ChoiceType DEF Rested, Engine
<1> HIDE DEF r
<1>2. Ready(r)
  BY <1>1 DEF Ready, WorkInv
<1>3. QED
  BY <1>2 DEF r

(* A backoff begins.                                                       *)
LEMMA BackoffReady ==
  ASSUME NEW m \in Engine, m.cur # "none", Sound(m.est), NEW r \in BackingOff(m)
  PROVE  Ready(r)
<1>1. PICK b \in 0 .. MaxBackoff : r = [m EXCEPT !.st = "backoff", !.left = b, !.age = None]
  BY DEF BackingOff
<1>2. r \in Engine /\ r.st = "backoff" /\ r.cur = m.cur /\ r.est = m.est
  BY <1>1, NoneType DEF Engine
<1>3. QED
  BY <1>2 DEF Ready, WorkInv

(* Step 1: the message.  An answer may set the engine free.                *)
LEMMA AnsweredReady ==
  ASSUME setup \in Setup, NEW m, Ready(m), NEW age \in Int, age > ShortestAge, NEW stale \in 0 .. 1
  PROVE  Ready(Answered(m, age, stale))
<1> DEFINE a == Answered(m, age, stale)
           in == Noted(m.est, Updated(m.est, Sample(age, stale)))
           after == Noted(m.est, UpdatedLate(m.est, Sample(age, stale)))
<1>1. m \in Engine /\ m.est \in Estimate /\ Sound(m.est)
  BY DEF Ready, Engine
<1>2. in \in Estimate /\ Sound(in) /\ after \in Estimate /\ Sound(after)
  BY <1>1, NotedSound
<1>3. CASE m.st = "await" /\ age = m.age
  <2> DEFINE e == [m EXCEPT !.est = in]
  <2>1. a = Rested(e)
    BY <1>3 DEF Answered
  <2> HIDE DEF in
  <2>2. e \in Engine /\ e.est = in
    BY <1>1, <1>2 DEF Engine
  <2> HIDE DEF e, a
  <2>3. QED
    BY <1>2, <2>1, <2>2, RestedReady DEF a
<1>4. CASE ~(m.st = "await" /\ age = m.age) /\ m.late # None /\ age = m.late
  <2>1. a = [m EXCEPT !.late = None, !.est = after]
    BY <1>4 DEF Answered
  <2> HIDE DEF after, a
  <2>2. a \in Engine /\ a.est = after /\ a.cur = m.cur /\ a.st = m.st
    BY <1>1, <1>2, <2>1, NoneType DEF Engine
  <2>3. QED
    BY <1>2, <2>2 DEF Ready, WorkInv, a
<1>5. CASE ~(m.st = "await" /\ age = m.age) /\ ~(m.late # None /\ age = m.late)
  BY <1>5 DEF Answered
<1>6. QED
  BY <1>3, <1>4, <1>5

LEMMA HandledReady ==
  ASSUME setup \in Setup, NEW m, Ready(m), NEW msg \in Message,
         msg.kind = "answer" => msg.age > ShortestAge, NEW stale \in 0 .. 1
  PROVE  Ready(Handled(m, msg, stale))
<1>1. CASE msg.kind = "answer"
  <2>1. Handled(m, msg, stale) = Answered(m, msg.age, stale) /\ msg.age \in Int
    BY <1>1 DEF Handled, Message
  <2>2. QED
    BY <1>1, <2>1, AnsweredReady
<1>2. CASE msg.kind = "eth"
  <2> DEFINE e == Enqueued(m)
  <2>1. Handled(m, msg, stale) = e
    BY <1>2 DEF Handled
  <2>2. e \in Engine /\ e.est = m.est /\ e.cur = m.cur /\ e.st = m.st
    BY Numbers DEF Ready, Engine, Enqueued
  <2> HIDE DEF e
  <2>3. QED
    BY <2>1, <2>2 DEF Ready, WorkInv
<1>3. CASE msg.kind = "ask"
  BY <1>3 DEF Handled
<1>4. QED
  BY <1>1, <1>2, <1>3 DEF Message

(* Step 2: the deadline.                                                   *)
LEMMA GivenUpReady ==
  ASSUME NEW m, Ready(m), NEW g \in GivenUp(m)
  PROVE  Ready(g)
<1>1. m \in Engine /\ Sound(m.est) /\ m.tries \in 0 .. MaxRetries
  BY DEF Ready, Engine
<1>2. CASE ~(m.st = "await" /\ m.age * Tick >= m.wait)
  BY <1>2 DEF GivenUp
<1>3. CASE m.st = "await" /\ m.age * Tick >= m.wait
  <2> DEFINE failed == [m EXCEPT !.late = m.age, !.tries = @ + 1]
  <2>1. g \in IF failed.tries > MaxRetries THEN {Rested(failed)} ELSE BackingOff(failed)
    BY <1>3 DEF GivenUp
  <2>2. failed.tries = m.tries + 1
    BY <1>1 DEF Engine
  <2>3. CASE m.tries + 1 > MaxRetries
    <3> DEFINE e == [m EXCEPT !.late = m.age]
    <3>1. g = Rested(failed) /\ Rested(failed) = Rested(e)
      BY <1>1, <2>1, <2>2, <2>3 DEF Rested, Engine
    <3>2. e \in Engine /\ e.est = m.est
      BY <1>1 DEF Engine
    <3> HIDE DEF e, failed
    <3>3. QED
      BY <1>1, <3>1, <3>2, RestedReady
  <2>4. CASE m.tries + 1 <= MaxRetries
    <3> DEFINE tried == m.tries + 1
    <3>1. tried \in 0 .. MaxRetries
      BY <1>1, <2>4, Numbers
    <3>2. failed = [m EXCEPT !.late = m.age, !.tries = tried]
      BY <1>1 DEF Engine
    <3> HIDE DEF tried
    <3>3. failed \in Engine /\ failed.est = m.est /\ failed.cur = m.cur
      BY <1>1, <3>1, <3>2 DEF Engine
    <3>4. g \in BackingOff(failed)
      BY <1>1, <2>1, <2>2, <2>4, Numbers
    <3> HIDE DEF failed
    <3>5. m.cur = "data"
      BY <1>3 DEF Ready, WorkInv
    <3>6. QED
      BY <1>1, <3>3, <3>4, <3>5, BackoffReady
  <2>5. QED
    BY <1>1, <2>3, <2>4, Numbers
<1>4. QED
  BY <1>2, <1>3

(* Step 3: new work.                                                       *)
LEMMA PulledReady ==
  ASSUME setup \in Setup, NEW g, Ready(g), NEW q \in Pulled(g)
  PROVE  Ready(q)
<1>1. g \in Engine /\ Sound(g.est) /\ g.queue \in Nat
  BY DEF Ready, Engine
<1>2. CASE g.st # "idle"
  BY <1>2 DEF Pulled
<1>3. CASE g.st = "idle" /\ setup.callsign /\ IdentDue(g.books, g.queue = 0)
  <2> DEFINE e == [g EXCEPT !.cur = "ident"]
  <2>1. q \in BackingOff(e)
    BY <1>3 DEF Pulled
  <2>2. e \in Engine /\ e.est = g.est /\ e.cur = "ident"
    BY <1>1 DEF Engine
  <2> HIDE DEF e
  <2>3. QED
    BY <1>1, <2>1, <2>2, BackoffReady
<1>4. CASE /\ g.st = "idle" /\ ~(setup.callsign /\ IdentDue(g.books, g.queue = 0))
           /\ g.queue > 0
  <2>1. PICK kind \in setup.frames :
          q \in BackingOff([g EXCEPT !.queue = @ - 1, !.cur = kind])
    BY <1>4 DEF Pulled
  <2> DEFINE e == [g EXCEPT !.queue = @ - 1, !.cur = kind]
  <2>2. kind \in {"data", "group"}
    BY SetupAssumption
  <2> DEFINE rest == g.queue - 1
  <2>3. rest \in Nat /\ e = [g EXCEPT !.queue = rest, !.cur = kind]
    BY <1>1, <1>4 DEF Engine
  <2> HIDE DEF rest
  <2>4. e \in Engine /\ e.est = g.est /\ e.cur = kind
    BY <1>1, <2>2, <2>3 DEF Engine
  <2>5. q \in BackingOff(e)
    BY <2>1
  <2> HIDE DEF e
  <2>6. QED
    BY <1>1, <2>2, <2>4, <2>5, BackoffReady
<1>5. CASE /\ g.st = "idle" /\ ~(setup.callsign /\ IdentDue(g.books, g.queue = 0))
           /\ ~(g.queue > 0)
  BY <1>5 DEF Pulled
<1>6. QED
  BY <1>2, <1>3, <1>4, <1>5

(* Step 4: the attempt.                                                    *)
LEMMA TransmittedReady ==
  ASSUME setup \in Setup, NEW q, Ready(q), q.st = "backoff"
  PROVE  Ready(Transmitted(q))
<1>1. q \in Engine /\ q.cur \in {"data", "group", "ident"} /\ Sound(q.est)
      /\ q.est \in Estimate /\ q.books \in Books /\ setup.adaptive \in BOOLEAN
  BY SetupAssumption DEF Ready, Engine, WorkInv
<1>2. Booked(q.books) \in Books /\ IdentWentOut(q.books) \in Books
  BY <1>1 DEF Booked, DataWentOut, IdentWentOut, Books
<1>3. CASE q.cur = "data"
  <2> DEFINE b == Booked(q.books)
             w == Wait(q.est, setup.adaptive)
             a == -Airtime
             t == [q EXCEPT !.st = "await", !.age = a, !.wait = w, !.books = b]
  <2>1. Transmitted(q) = t
    BY <1>1, <1>3 DEF Transmitted, Engine
  <2>2. b \in Books /\ w \in 0 .. MaxWait /\ a \in Int
    BY <1>1, <1>2, WaitType, Numbers
  <2> HIDE DEF b, w, a
  <2>3. t \in Engine /\ t.st = "await" /\ t.cur = "data" /\ t.est = q.est
    BY <1>1, <1>3, <2>2 DEF Engine
  <2> HIDE DEF t
  <2>4. QED
    BY <1>1, <2>1, <2>3 DEF Ready, WorkInv
<1>4. CASE q.cur \in {"group", "ident"}
  <2> DEFINE b == IF q.cur = "group" THEN Booked(q.books) ELSE IdentWentOut(q.books)
             e == [q EXCEPT !.books = b]
  <2>1. Transmitted(q) = Rested(e)
    BY <1>1, <1>4 DEF Transmitted, Engine
  <2>2. b \in Books
    BY <1>2
  <2> HIDE DEF b
  <2>3. e \in Engine /\ e.est = q.est
    BY <1>1, <2>2 DEF Engine
  <2> HIDE DEF e
  <2>4. QED
    BY <1>1, <2>1, <2>3, RestedReady
<1>5. QED
  BY <1>1, <1>3, <1>4

LEMMA AccessedReady ==
  ASSUME setup \in Setup, NEW q, Ready(q), NEW busy \in BOOLEAN, NEW p \in Accessed(q, busy)
  PROVE  Ready(p.mac)
<1>1. CASE ~(q.st = "backoff" /\ q.left = 0)
  BY <1>1 DEF Accessed
<1>2. CASE q.st = "backoff" /\ q.left = 0 /\ busy
  <2>1. PICK b \in BackingOff(q) : p = [mac |-> b, sends |-> "nothing"]
    BY <1>2 DEF Accessed
  <2>2. q \in Engine /\ Sound(q.est) /\ q.cur # "none"
    BY <1>2 DEF Ready, WorkInv
  <2>3. QED
    BY <2>1, <2>2, BackoffReady
<1>3. CASE q.st = "backoff" /\ q.left = 0 /\ ~busy
  <2>1. p = [mac |-> Transmitted(q), sends |-> q.cur]
    BY <1>3 DEF Accessed
  <2>2. QED
    BY <1>3, <2>1, TransmittedReady
<1>4. QED
  BY <1>1, <1>2, <1>3

(* A poll.                                                                 *)
LEMMA PolledReady ==
  ASSUME setup \in Setup, NEW m, Ready(m), NEW asked \in BOOLEAN, NEW busy \in BOOLEAN,
         NEW p \in Polled(m, asked, busy)
  PROVE  Ready(p.mac)
<1>1. CASE asked
  BY <1>1 DEF Polled
<1>2. CASE ~asked
  <2>1. PICK g \in GivenUp(m) : \E q \in Pulled(g) : p \in Accessed(q, busy)
    BY <1>2 DEF Polled
  <2>2. PICK q \in Pulled(g) : p \in Accessed(q, busy)
    BY <2>1
  <2>3. Ready(q)
    BY GivenUpReady, PulledReady
  <2>4. QED
    BY <2>2, <2>3, AccessedReady
<1>3. QED
  BY <1>1, <1>2

-----------------------------------------------------------------------------
(* The steps.                                                              *)

LEMMA NodeReady == NodeInv => Ready(mac)
BY DEF NodeInv, TypeOK, Ready, NotTooShort, Sound

(* What a step leaves of the engine's invariants, setup being constant.    *)
LEMMA ReadyStays ==
  ASSUME NEW m, Ready(m), setup' = setup, mac' = m
  PROVE  mac' \in Engine /\ WorkInv(mac') /\ NotTooShort'
BY DEF Ready, WorkInv, NotTooShort, Sound, ShortestAge, Smaller

LEMMA DelayType == setup \in Setup => Delay \in Nat /\ Delay > ShortestAge
BY SetupAssumption DEF Delay, ShortestAge, Smaller

LEMMA TurnKeeps == ASSUME NodeInv, Turn PROVE NodeInv'
<1> DEFINE stale == loop.ticks
           m == IF msgs = <<>> THEN mac ELSE Handled(mac, Head(msgs), stale)
<1>1. /\ setup \in Setup /\ air \in SUBSET Answer /\ msgs \in Seq(Message) /\ stale \in 0 .. 1
      /\ mac \in Engine /\ Ready(mac) /\ jumped \in BOOLEAN /\ lost \in Nat
  BY NodeReady DEF NodeInv, TypeOK, Turn
<1>2. UNCHANGED <<setup, jumped, lost>> /\ msgs' = IF msgs = <<>> THEN msgs ELSE Tail(msgs)
  BY DEF Turn
<1>3. msgs # <<>> => Head(msgs) \in Message
                     /\ (Head(msgs).kind = "answer" => Head(msgs).age > ShortestAge)
  BY <1>1 DEF NodeInv, AgeInv
<1>4. Ready(m)
  BY <1>1, <1>3, HandledReady
<1> DEFINE Result(p) ==
             /\ mac' = p.mac
             /\ air' = IF p.sends = "data" THEN air \cup {[age |-> -Airtime, delay |-> Delay]}
                                          ELSE air
             /\ IF p.sends = "nothing" THEN loop' = [phase |-> "wait", ticks |-> 0]
                ELSE \E b \in 0 .. MaxBlock :
                       loop' = IF b = 0 THEN [phase |-> "wait", ticks |-> 0]
                               ELSE [phase |-> "send", ticks |-> b]
<1>5. PICK busy \in BOOLEAN : \E p \in Polled(m, Asked, busy) : Result(p)
  BY DEF Turn
<1>6. PICK p \in Polled(m, Asked, busy) : Result(p)
  BY <1>5
<1>7. Asked \in BOOLEAN
  BY DEF Asked
<1> HIDE DEF m
<1>8. Ready(p.mac)
  BY <1>1, <1>4, <1>7, PolledReady
<1>9. mac' \in Engine /\ WorkInv(mac') /\ NotTooShort'
  BY <1>2, <1>6, <1>8, ReadyStays
<1>10. /\ loop' \in [phase : {"wait", "send"}, ticks : Nat]
      /\ IF loop'.phase = "wait" THEN loop'.ticks <= 1 ELSE loop'.ticks > 0
  BY <1>6, Numbers
<1>11. air' \in SUBSET Answer /\ \A a \in air' : a.delay > ShortestAge
  <2> DEFINE new == [age |-> -Airtime, delay |-> Delay]
  <2>1. new \in Answer /\ new.delay > ShortestAge
    BY <1>1, DelayType, Numbers DEF Answer
  <2>2. air' \subseteq air \cup {new}
    BY <1>6
  <2> HIDE DEF new
  <2>3. QED
    BY <1>1, <2>1, <2>2 DEF NodeInv, AgeInv
<1>12. /\ msgs' \in Seq(Message)
       /\ \A i \in 1 .. Len(msgs') : msgs'[i].kind = "answer" => msgs'[i].age > ShortestAge
  <2>1. CASE msgs = <<>>
    BY <1>1, <1>2, <2>1 DEF NodeInv, AgeInv
  <2>2. CASE msgs # <<>>
    <3>1. /\ msgs' \in Seq(Message) /\ Len(msgs') = Len(msgs) - 1
          /\ \A i \in 1 .. Len(msgs') : i + 1 \in 1 .. Len(msgs) /\ msgs'[i] = msgs[i + 1]
      BY <1>1, <1>2, <2>2
    <3>2. QED
      BY <3>1 DEF NodeInv, AgeInv
  <2>3. QED
    BY <2>1, <2>2
<1>13. ShortestAge' = ShortestAge
  BY <1>2 DEF ShortestAge
<1>14. TypeOK'
  BY <1>1, <1>2, <1>9, <1>10, <1>11, <1>12 DEF TypeOK
<1>15. AgeInv'
  BY <1>11, <1>12, <1>13 DEF AgeInv
<1>16. QED
  BY <1>9, <1>14, <1>15 DEF NodeInv

(* Messages arrive, answers are lost or take another time from now on.     *)
LEMMA OthersKeep ==
  ASSUME NodeInv, NicFrame \/ OthersAsk \/ PeerAnswers \/ AnswerLost \/ DelayJumps
  PROVE  NodeInv'
<1>1. /\ UNCHANGED <<setup, loop, mac>> /\ setup \in Setup /\ ShortestAge \in Int
      /\ air \in SUBSET Answer /\ msgs \in Seq(Message)
  BY ShortestType DEF NodeInv, TypeOK, NicFrame, OthersAsk, PeerAnswers, AnswerLost, DelayJumps
<1>2. air' \subseteq air /\ jumped' \in BOOLEAN /\ lost' \in Nat
  <2>1. lost \in Nat /\ jumped \in BOOLEAN
    BY DEF NodeInv, TypeOK
  <2>2. CASE NicFrame \/ OthersAsk \/ PeerAnswers \/ DelayJumps
    BY <2>1, <2>2 DEF NicFrame, OthersAsk, PeerAnswers, DelayJumps
  <2>3. CASE AnswerLost
    BY <2>1, <2>3 DEF AnswerLost
  <2>4. QED
    BY <2>2, <2>3
<1>3. \/ msgs' = msgs
      \/ \E x \in Message : msgs' = Append(msgs, x) /\ (x.kind = "answer" => x.age > ShortestAge)
  <2>1. CASE NicFrame \/ OthersAsk
    <3>1. [kind |-> "eth", age |-> 0] \in Message /\ [kind |-> "ask", age |-> 0] \in Message
      BY DEF Message
    <3>2. QED
      BY <2>1, <3>1 DEF NicFrame, OthersAsk
  <2>2. CASE PeerAnswers
    <3>1. PICK a \in air : a.age >= a.delay /\ msgs' = Append(msgs, [kind |-> "answer", age |-> a.age])
      BY <2>2 DEF PeerAnswers
    <3>2. a.age \in Int /\ a.delay \in Nat /\ a.delay > ShortestAge
      BY <1>1 DEF NodeInv, AgeInv, Answer
    <3>3. [kind |-> "answer", age |-> a.age] \in Message /\ a.age > ShortestAge
      BY <1>1, <3>1, <3>2 DEF Message
    <3>4. QED
      BY <3>1, <3>3
  <2>3. CASE AnswerLost \/ DelayJumps
    BY <2>3 DEF AnswerLost, DelayJumps
  <2>4. QED
    BY <2>1, <2>2, <2>3
<1>4. /\ msgs' \in Seq(Message)
      /\ \A i \in 1 .. Len(msgs') : msgs'[i].kind = "answer" => msgs'[i].age > ShortestAge
  <2>1. CASE msgs' = msgs
    BY <1>1, <2>1 DEF NodeInv, AgeInv
  <2>2. ASSUME NEW x \in Message, msgs' = Append(msgs, x), x.kind = "answer" => x.age > ShortestAge
        PROVE  /\ msgs' \in Seq(Message)
               /\ \A i \in 1 .. Len(msgs') : msgs'[i].kind = "answer" => msgs'[i].age > ShortestAge
    <3>1. /\ msgs' \in Seq(Message) /\ Len(msgs') = Len(msgs) + 1
          /\ \A i \in 1 .. Len(msgs') : msgs'[i] = IF i = Len(msgs) + 1 THEN x ELSE msgs[i]
      BY <1>1, <2>2
    <3>2. \A i \in 1 .. Len(msgs') : i # Len(msgs) + 1 => i \in 1 .. Len(msgs)
      BY <1>1, <3>1
    <3>3. QED
      BY <2>2, <3>1, <3>2 DEF NodeInv, AgeInv
  <2>3. QED
    BY <1>3, <2>1, <2>2
<1>5. ShortestAge' = ShortestAge
  BY <1>1 DEF ShortestAge
<1>6. TypeOK' /\ AgeInv'
  BY <1>1, <1>2, <1>4, <1>5 DEF NodeInv, TypeOK, AgeInv
<1>7. WorkInv(mac') /\ NotTooShort'
  BY <1>1, NodeReady, ReadyStays
<1>8. QED
  BY <1>6, <1>7 DEF NodeInv

(* A tick passes: answers grow older.                                      *)
LEMMA TimeKeeps == ASSUME NodeInv, TimePasses PROVE NodeInv'
<1>1. /\ setup \in Setup /\ air \in SUBSET Answer /\ msgs \in Seq(Message) /\ mac \in Engine
      /\ loop \in [phase : {"wait", "send"}, ticks : Nat] /\ Ready(mac) /\ ShortestAge \in Int
      /\ jumped \in BOOLEAN /\ lost \in Nat
  BY NodeReady, ShortestType DEF NodeInv, TypeOK
<1>2. UNCHANGED <<setup, jumped, lost>>
  BY DEF TimePasses
<1> DEFINE b == Later(mac.books)
           left == IF mac.left > 0 THEN mac.left - 1 ELSE 0
           age == IF mac.st = "await" /\ mac.age < OldestAge THEN mac.age + 1 ELSE mac.age
           late == IF mac.late = None \/ mac.late >= LongestAge THEN None ELSE mac.late + 1
           r == [mac EXCEPT !.left = left, !.age = age, !.late = late, !.books = b]
<1>3. mac' = r
  BY <1>1 DEF TimePasses, Engine
<1>4. left \in 0 .. MaxBackoff /\ age \in Int /\ late \in Int /\ b \in Books
  <2>1. /\ mac.left \in 0 .. MaxBackoff /\ mac.age \in Int /\ mac.late \in Int
        /\ mac.books \in Books
    BY <1>1 DEF Engine
  <2>2. b \in Books
    <3> DEFINE since == IF mac.books.since \in {Never, SinceCap} THEN mac.books.since
                                                                ELSE mac.books.since + 1
               quiet == IF mac.books.data /\ mac.books.quiet < EndIdle THEN mac.books.quiet + 1
                                                                      ELSE mac.books.quiet
    <3>1. since \in Nat \cup {Never} /\ quiet \in Nat
      BY <2>1 DEF Books, Never
    <3>2. b = [mac.books EXCEPT !.since = since, !.quiet = quiet]
      BY <2>1 DEF Later, Books
    <3> HIDE DEF since, quiet, b
    <3>3. QED
      BY <2>1, <3>1, <3>2 DEF Books
  <2>3. QED
    BY <2>1, <2>2, NoneType, Numbers
<1> HIDE DEF left, age, late, b
<1>5. mac' \in Engine /\ WorkInv(mac') /\ NotTooShort'
  <2>1. r \in Engine /\ r.st = mac.st /\ r.cur = mac.cur /\ r.est = mac.est
    BY <1>1, <1>4 DEF Engine
  <2> HIDE DEF r
  <2>2. Ready(r)
    BY <1>1, <2>1 DEF Ready, WorkInv
  <2>3. QED
    BY <1>2, <1>3, <2>2, ReadyStays
<1>6. /\ loop' \in [phase : {"wait", "send"}, ticks : Nat]
      /\ IF loop'.phase = "wait" THEN loop'.ticks <= 1 ELSE loop'.ticks > 0
  <2>1. \/ loop' = [phase |-> "wait", ticks |-> 1]
        \/ loop' = [phase |-> "wait", ticks |-> 0]
        \/ loop.phase = "send" /\ loop.ticks # 1
           /\ loop' = [phase |-> "send", ticks |-> loop.ticks - 1]
    BY <1>1 DEF TimePasses
  <2>2. loop.phase = "send" => loop.ticks \in Nat /\ loop.ticks > 0
    BY <1>1 DEF NodeInv, TypeOK
  <2>3. QED
    BY <2>1, <2>2
<1>7. air' \in SUBSET Answer /\ \A a \in air' : a.delay > ShortestAge
  <2>1. \A a \in air : /\ [a EXCEPT !.age = @ + 1] \in Answer
                       /\ [a EXCEPT !.age = @ + 1].delay > ShortestAge
    BY <1>1 DEF NodeInv, AgeInv, Answer
  <2>2. air' = {[a EXCEPT !.age = @ + 1] : a \in air}
    BY DEF TimePasses
  <2>3. QED
    BY <2>1, <2>2
<1>8. /\ msgs' \in Seq(Message)
       /\ \A i \in 1 .. Len(msgs') : msgs'[i].kind = "answer" => msgs'[i].age > ShortestAge
  <2> DEFINE older(x) == [x EXCEPT !.age = IF x.kind = "answer" THEN @ + 1 ELSE @]
  <2>1. \A x \in Message : /\ older(x) \in Message /\ older(x).kind = x.kind
                           /\ older(x).age >= x.age
    BY DEF Message
  <2>2. msgs' = [i \in 1 .. Len(msgs) |-> older(msgs[i])]
    BY <1>1 DEF TimePasses
  <2>3. \A i \in 1 .. Len(msgs) : msgs[i] \in Message
    BY <1>1
  <2> HIDE DEF older
  <2>4. msgs' \in Seq(Message) /\ Len(msgs') = Len(msgs)
    BY <1>1, <2>1, <2>2, <2>3
  <2>5. ASSUME NEW i \in 1 .. Len(msgs), older(msgs[i]).kind = "answer"
        PROVE  older(msgs[i]).age > ShortestAge
    <3>1. msgs[i].kind = "answer" /\ msgs[i].age > ShortestAge
      BY <2>1, <2>3, <2>5 DEF NodeInv, AgeInv
    <3>2. msgs[i].age \in Int /\ older(msgs[i]).age \in Int /\ older(msgs[i]).age >= msgs[i].age
      BY <2>1, <2>3 DEF Message
    <3>3. QED
      BY <1>1, <3>1, <3>2
  <2>6. QED
    BY <2>2, <2>4, <2>5
<1>9. ShortestAge' = ShortestAge
  BY <1>2 DEF ShortestAge
<1>10. TypeOK' /\ AgeInv'
  BY <1>1, <1>2, <1>5, <1>6, <1>7, <1>8, <1>9 DEF TypeOK, AgeInv
<1>11. QED
  BY <1>5, <1>10 DEF NodeInv

-----------------------------------------------------------------------------
(* What follows.                                                           *)

LEMMA NodeInit == Init => NodeInv
<1> SUFFICES ASSUME Init PROVE NodeInv
  OBVIOUS
<1>1. /\ setup \in Setup /\ air = {} /\ msgs = <<>> /\ loop = [phase |-> "wait", ticks |-> 0]
      /\ mac = Idle /\ jumped = FALSE /\ lost = 0
  BY DEF Init
<1>2. Idle \in Engine
  BY NoneType, ChoiceType DEF Idle, Engine, Estimate, Books, NoEstimate, NoneSent
<1>3. TypeOK
  <2>1. msgs \in Seq(Message) /\ Len(msgs) = 0
    BY <1>1
  <2>2. loop \in [phase : {"wait", "send"}, ticks : Nat] /\ loop.phase = "wait" /\ loop.ticks = 0
    BY <1>1
  <2>3. setup \in Setup /\ jumped \in BOOLEAN /\ air \in SUBSET Answer /\ lost \in Nat
        /\ mac \in Engine
    BY <1>1, <1>2
  <2>4. IF loop.phase = "wait" THEN loop.ticks <= 1 ELSE loop.ticks > 0
    BY <2>2
  <2>5. QED
    BY <2>1, <2>2, <2>3, <2>4 DEF TypeOK
<1>4. Idle.st = "idle" /\ ~Idle.est.known
  BY DEF Idle, NoEstimate
<1>5. QED
  BY <1>1, <1>3, <1>4 DEF NodeInv, WorkInv, AgeInv, NotTooShort

LEMMA NodeStep == NodeInv /\ [Next]_vars => NodeInv'
<1> SUFFICES ASSUME NodeInv, [Next]_vars PROVE NodeInv'
  OBVIOUS
<1>1. CASE UNCHANGED vars
  BY <1>1 DEF vars, NodeInv, TypeOK, AgeInv, NotTooShort, ShortestAge
<1>2. CASE Next
  BY <1>2, TurnKeeps, OthersKeep, TimeKeeps DEF Next
<1>3. QED
  BY <1>1, <1>2

(* The invariant of the node's times holds whatever the threads, the radio *)
(* and the peer do.                                                        *)
THEOREM NodeInvariant == Spec => []NodeInv
BY NodeInit, NodeStep, PTL DEF Spec

(* update_response_delay: no answer is timed from the end of a later       *)
(* attempt, and the clock of the loop is stale by a tick at most, so that  *)
(* the smoothed delay never falls below the shortest delay less one tick.  *)
THEOREM NeverTimedShort == Spec => []NotTooShort
<1>1. NodeInv => NotTooShort
  BY DEF NodeInv
<1>2. QED
  BY <1>1, NodeInvariant, PTL


-----------------------------------------------------------------------------
(* Sequences. *)

(* Moving the first of t behind s does not change what the two hold.       *)
LEMMA HeadMoves ==
  ASSUME NEW s \in Seq(Nat), NEW t \in Seq(Nat), t # <<>>
  PROVE  Append(s, Head(t)) \o Tail(t) = s \o t
<1>1. /\ Head(t) \in Nat /\ Tail(t) \in Seq(Nat) /\ Len(Tail(t)) = Len(t) - 1
      /\ \A i \in 1 .. Len(Tail(t)) : Tail(t)[i] = t[i + 1]
  BY HeadTailProperties
<1>2. Head(t) = t[1] /\ Len(t) \in Nat /\ Len(t) >= 1 /\ Len(s) \in Nat
  OBVIOUS
<1>3. /\ Append(s, Head(t)) \in Seq(Nat) /\ Len(Append(s, Head(t))) = Len(s) + 1
      /\ \A i \in 1 .. Len(s) : Append(s, Head(t))[i] = s[i]
      /\ Append(s, Head(t))[Len(s) + 1] = t[1]
  BY <1>1, <1>2, AppendProperties
<1> DEFINE a == Append(s, Head(t)) \o Tail(t)
<1>4. /\ a \in Seq(Nat) /\ Len(a) = Len(s) + Len(t)
      /\ \A i \in 1 .. Len(s) + Len(t) :
           a[i] = IF i <= Len(s) + 1 THEN Append(s, Head(t))[i]
                  ELSE Tail(t)[i - (Len(s) + 1)]
  <2>1. Len(Append(s, Head(t))) + Len(Tail(t)) = Len(s) + Len(t)
    BY <1>1, <1>2, <1>3
  <2> HIDE DEF a
  <2>2. /\ a \in Seq(Nat) /\ Len(a) = Len(Append(s, Head(t))) + Len(Tail(t))
        /\ \A i \in 1 .. Len(Append(s, Head(t))) + Len(Tail(t)) :
             a[i] = IF i <= Len(Append(s, Head(t))) THEN Append(s, Head(t))[i]
                    ELSE Tail(t)[i - Len(Append(s, Head(t)))]
    BY <1>1, <1>3, ConcatProperties DEF a
  <2>3. QED
    BY <1>3, <2>1, <2>2
<1>5. /\ s \o t \in Seq(Nat) /\ Len(s \o t) = Len(s) + Len(t)
      /\ \A i \in 1 .. Len(s) + Len(t) :
           (s \o t)[i] = IF i <= Len(s) THEN s[i] ELSE t[i - Len(s)]
  BY ConcatProperties
<1> HIDE DEF a
<1>6. ASSUME NEW i \in 1 .. Len(a) PROVE a[i] = (s \o t)[i]
  <2>0. i \in 1 .. Len(s) + Len(t)
    BY <1>4, <1>6
  <2>1. /\ a[i] = IF i <= Len(s) + 1 THEN Append(s, Head(t))[i]
                  ELSE Tail(t)[i - (Len(s) + 1)]
        /\ (s \o t)[i] = IF i <= Len(s) THEN s[i] ELSE t[i - Len(s)]
    BY <2>0, <1>4, <1>5
  <2>2. CASE i <= Len(s)
    <3>1. i \in 1 .. Len(s) /\ i <= Len(s) + 1
      BY <1>2, <2>0, <2>2
    <3>2. Append(s, Head(t))[i] = s[i]
      BY <1>3, <3>1
    <3>3. QED
      BY <2>1, <2>2, <3>1, <3>2
  <2>3. CASE i = Len(s) + 1
    <3>1. i <= Len(s) + 1 /\ ~(i <= Len(s)) /\ i - Len(s) = 1
      BY <1>2, <2>3
    <3>2. QED
      BY <1>3, <2>1, <2>3, <3>1
  <2>4. CASE i > Len(s) + 1
    <3>1. /\ i - (Len(s) + 1) \in 1 .. Len(Tail(t)) /\ (i - (Len(s) + 1)) + 1 = i - Len(s)
          /\ ~(i <= Len(s) + 1) /\ ~(i <= Len(s))
      BY <1>1, <1>2, <2>0, <2>4
    <3>2. Tail(t)[i - (Len(s) + 1)] = t[(i - (Len(s) + 1)) + 1]
      BY <1>1, <3>1
    <3>3. QED
      BY <2>1, <3>1, <3>2
  <2>5. QED
    BY <1>2, <2>0, <2>2, <2>3, <2>4
<1>7. QED
  BY <1>4, <1>5, <1>6, SeqEqual DEF a

(* What is appended behind t is appended behind both.                      *)
LEMMA AppendsBehind ==
  ASSUME NEW s \in Seq(Nat), NEW t \in Seq(Nat), NEW e \in Nat
  PROVE  s \o Append(t, e) = Append(s \o t, e)
<1>1. Append(t, e) = t \o <<e>> /\ <<e>> \in Seq(Nat)
  BY AppendIsConcat
<1>2. s \o t \in Seq(Nat) /\ Append(s \o t, e) = (s \o t) \o <<e>>
  BY ConcatProperties, AppendIsConcat
<1>3. QED
  BY <1>1, <1>2, ConcatAssociative

-----------------------------------------------------------------------------
(* Types, and the flag. *)

LEMMA PutTyped ==
  ASSUME PipeTypeOK, NEW item \in Nat, Put(item, "serve")
  PROVE  pipe' \in Seq(Nat) /\ served' \in {"serve", "lower"}
<1>1. CASE reader.open
  <2>1. Append(pipe, item) \in Seq(Nat)
    BY AppendProperties DEF PipeTypeOK
  <2>2. QED
    BY <1>1, <2>1 DEF Put
<1>2. CASE ~reader.open
  BY <1>2 DEF Put, PipeTypeOK
<1>3. QED
  BY <1>1, <1>2

(* What is up in the thread's own terms is up in the writer's.             *)
FlagFollows ==
  /\ served \in {"drop", "connect", "drain", "raise"} => ~attached
  /\ served \in {"header", "serve"} => attached

(* Nobody finds anything in a pipe without an end.                         *)
PipeIsFresh == served = "connect" /\ ~reader.open => pipe = <<>>

PipeBooks == PipeTypeOK /\ FlagFollows /\ PipeIsFresh

LEMMA TypeInit == PipeInit => PipeTypeOK
<1>1. <<>> \in Seq(Nat)
  OBVIOUS
<1>2. NoReader(0) \in [open : BOOLEAN, got : Seq(Nat), count : Nat, invited : BOOLEAN, since : Nat]
  BY <1>1 DEF NoReader
<1>3. 0 \in Nat
  OBVIOUS
<1>4. QED
  BY <1>1, <1>2, <1>3, Zenon DEF PipeInit, PipeTypeOK

LEMMA TypeStep ==
  ASSUME PipeTypeOK, [PipeNext]_pipeVars
  PROVE  PipeTypeOK'
<1>0. <<>> \in Seq(Nat)
  OBVIOUS
<1>1. CASE LookAtFlag
  <2>0. written + 1 \in Nat
    BY DEF PipeTypeOK
  <2>1. written' \in Nat /\ sending' \in BOOLEAN
    BY <1>1, <2>0, Zenon DEF LookAtFlag, PipeTypeOK
  <2>2. UNCHANGED <<dropped, backlog, attached, served, pipe, reader>>
    BY <1>1 DEF LookAtFlag
  <2>3. QED
    BY <2>1, <2>2 DEF PipeTypeOK
<1>2. CASE TrySend
  <2>1. written + 1 \in Nat /\ Append(backlog, written + 1) \in Seq(Nat)
    BY AppendProperties DEF PipeTypeOK
  <2>2. QED
    BY <1>2, <2>1 DEF TrySend, PipeTypeOK
<1>3. CASE Connect \/ RaiseFlag \/ Probe \/ LowerFlag \/ Drop
  <2>1. served' \in {"drain", "header", "lower", "drop", "connect"} /\ attached' \in BOOLEAN
    BY <1>3 DEF Connect, RaiseFlag, Probe, LowerFlag, Drop, PipeTypeOK
  <2>2. pipe' \in {pipe, <<>>} /\ UNCHANGED <<written, sending, dropped, backlog, reader>>
    BY <1>3 DEF Connect, RaiseFlag, Probe, LowerFlag, Drop
  <2>3. QED
    BY <1>0, <2>1, <2>2 DEF PipeTypeOK
<1>4. CASE Drain
  BY <1>4, HeadTailProperties DEF Drain, PipeTypeOK
<1>5. CASE WriteHeader
  <2>1. Header \in Nat
    BY DEF Header
  <2>2. QED
    BY <1>5, <2>1, PutTyped DEF WriteHeader, PipeTypeOK
<1>6. CASE ServeRecord
  <2>1. Head(backlog) \in Nat /\ Tail(backlog) \in Seq(Nat)
    BY <1>6, HeadTailProperties DEF ServeRecord, PipeTypeOK
  <2>2. QED
    BY <1>6, <2>1, PutTyped DEF ServeRecord, PipeTypeOK
<1>7. CASE Open \/ Close
  <2>1. reader' \in [open : BOOLEAN, got : Seq(Nat), count : Nat, invited : BOOLEAN, since : Nat]
    <3>1. CASE Close
      BY <1>0, <3>1 DEF Close, NoReader, PipeTypeOK
    <3>2. ASSUME NEW invited \in BOOLEAN
          PROVE  [open |-> TRUE, got |-> <<>>, count |-> reader.count + 1, invited |-> invited, since |-> written]
                   \in [open : BOOLEAN, got : Seq(Nat), count : Nat, invited : BOOLEAN, since : Nat]
      BY <1>0, <3>2 DEF PipeTypeOK
    <3>3. CASE Open
      <4>1. (served = "connect") \in BOOLEAN
        OBVIOUS
      <4>2. QED
        BY <3>2, <3>3, <4>1, Zenon DEF Open
    <3>4. QED
      BY <1>7, <3>1, <3>3
  <2>2. pipe' \in {pipe, <<>>} /\ UNCHANGED <<written, sending, dropped, backlog, attached, served>>
    BY <1>7 DEF Open, Close
  <2>3. QED
    BY <1>0, <2>1, <2>2 DEF PipeTypeOK
<1>8. CASE Read
  <2>1. Head(pipe) \in Nat /\ Tail(pipe) \in Seq(Nat)
    BY <1>8, HeadTailProperties DEF Read, PipeTypeOK
  <2>2. Append(reader.got, Head(pipe)) \in Seq(Nat)
    BY <2>1, AppendProperties DEF PipeTypeOK
  <2>3. QED
    BY <1>8, <2>1, <2>2 DEF Read, PipeTypeOK
<1>9. CASE UNCHANGED pipeVars
  BY <1>9 DEF pipeVars, PipeTypeOK
<1>10. QED
  BY <1>1, <1>2, <1>3, <1>4, <1>5, <1>6, <1>7, <1>8, <1>9 DEF PipeNext, Serve

LEMMA FlagStep ==
  ASSUME PipeTypeOK, FlagFollows, [PipeNext]_pipeVars
  PROVE  FlagFollows'
<1>1. CASE LookAtFlag \/ TrySend \/ Open \/ Read \/ Close \/ UNCHANGED pipeVars
  <2>1. UNCHANGED <<attached, served>>
    BY <1>1 DEF LookAtFlag, TrySend, Open, Read, Close, pipeVars
  <2>2. QED
    BY <2>1 DEF FlagFollows
<1>2. CASE WriteHeader \/ ServeRecord
  <2>1. attached /\ attached' = attached /\ served' \in {"serve", "lower"}
    BY <1>2 DEF WriteHeader, ServeRecord, Put, FlagFollows
  <2>2. QED
    BY <2>1, Zenon DEF FlagFollows
<1>3. CASE Connect \/ Probe \/ Drop
  <2>1. attached' = attached
    BY <1>3 DEF Connect, Probe, Drop
  <2>2. (served' \in {"drain", "connect"} /\ ~attached) \/ served' = "lower"
    BY <1>3 DEF Connect, Probe, Drop, FlagFollows
  <2>3. QED
    BY <2>1, <2>2 DEF FlagFollows
<1>4. CASE Drain
  <2>1. ~attached /\ attached' = attached /\ served' \in {"drain", "raise"}
    BY <1>4 DEF Drain, FlagFollows
  <2>2. QED
    BY <2>1 DEF FlagFollows
<1>5. CASE RaiseFlag
  BY <1>5 DEF RaiseFlag, FlagFollows
<1>6. CASE LowerFlag
  BY <1>6 DEF LowerFlag, FlagFollows
<1>7. QED
  BY <1>1, <1>2, <1>3, <1>4, <1>5, <1>6 DEF PipeNext, Serve

LEMMA FreshStep ==
  ASSUME PipeTypeOK, PipeIsFresh, [PipeNext]_pipeVars
  PROVE  PipeIsFresh'
BY DEF PipeNext, Serve, pipeVars, LookAtFlag, TrySend, Connect, Drain, RaiseFlag, WriteHeader, ServeRecord, Put,
       Probe, LowerFlag, Drop, Open, Read, Close, PipeIsFresh, PipeTypeOK

-----------------------------------------------------------------------------
(* A line of records. *)

(* A header, then records after `since` up to `upto`, rising, and from the *)
(* second on without gaps other than what is lost.                         *)
InOrder(q, since, upto, gone) ==
  /\ q # <<>> /\ q[1] = Header
  /\ \A i \in 2 .. Len(q) :
       /\ since < q[i] /\ q[i] <= upto
       /\ i > 2 => q[i - 1] < q[i]
       /\ i > 3 => (q[i - 1] + 1 .. q[i] - 1) \subseteq gone

(* All behind the line's last record is lost, once there are two.          *)
Settled(q, upto, gone) == Len(q) > 2 => (q[Len(q)] + 1 .. upto) \subseteq gone

LEMMA HeaderIsInOrder ==
  ASSUME NEW since \in Nat, NEW upto \in Nat, NEW gone
  PROVE  InOrder(<<Header>>, since, upto, gone)
BY DEF InOrder

LEMMA StaysInOrder ==
  ASSUME NEW q \in Seq(Nat), NEW since \in Nat, NEW upto \in Nat, NEW later \in Nat, upto <= later,
         NEW gone, NEW more, gone \subseteq more, InOrder(q, since, upto, gone)
  PROVE  InOrder(q, since, later, more)
<1>1. ASSUME NEW i \in 2 .. Len(q) PROVE q[i] \in Nat
  BY <1>1
<1>2. QED
  BY <1>1 DEF InOrder

LEMMA LossSettles ==
  ASSUME NEW q \in Seq(Nat), NEW upto \in Nat, NEW gone, Settled(q, upto, gone)
  PROVE  Settled(q, upto + 1, gone \cup {upto + 1})
<1>1. CASE Len(q) > 2
  <2>1. q[Len(q)] \in Nat
    BY <1>1
  <2>2. (q[Len(q)] + 1 .. upto + 1) \subseteq (q[Len(q)] + 1 .. upto) \cup {upto + 1}
    BY <2>1
  <2>3. QED
    BY <1>1, <2>2 DEF Settled
<1>2. QED
  BY <1>1 DEF Settled

LEMMA GrowsInOrder ==
  ASSUME NEW q \in Seq(Nat), NEW since \in Nat, NEW upto \in Nat, NEW gone, since <= upto,
         InOrder(q, since, upto, gone), Settled(q, upto, gone)
  PROVE  /\ InOrder(Append(q, upto + 1), since, upto + 1, gone)
         /\ Settled(Append(q, upto + 1), upto + 1, gone)
<1> DEFINE r == Append(q, upto + 1)
<1>1. /\ r \in Seq(Nat) /\ r # <<>> /\ Len(r) = Len(q) + 1
      /\ \A i \in 1 .. Len(q) : r[i] = q[i]
      /\ r[Len(q) + 1] = upto + 1
  BY AppendProperties
<1> HIDE DEF r
<1>2. Len(q) \in Nat /\ Len(q) >= 1 /\ \A i \in 1 .. Len(q) : q[i] \in Nat
  BY DEF InOrder
<1>3. r[1] = Header
  BY <1>1, <1>2 DEF InOrder
<1>4. ASSUME NEW i \in 2 .. Len(r)
      PROVE  /\ since < r[i] /\ r[i] <= upto + 1
             /\ i > 2 => r[i - 1] < r[i]
             /\ i > 3 => (r[i - 1] + 1 .. r[i] - 1) \subseteq gone
  <2>1. CASE i <= Len(q)
    <3>0. i \in 2 .. Len(q) /\ i \in 1 .. Len(q) /\ i - 1 \in 1 .. Len(q)
      BY <1>1, <1>2, <2>1
    <3>1. i \in 2 .. Len(q) /\ r[i] = q[i] /\ r[i - 1] = q[i - 1] /\ q[i] \in Nat
      BY <1>1, <1>2, <3>0
    <3>2. /\ since < q[i] /\ q[i] <= upto
          /\ i > 2 => q[i - 1] < q[i]
          /\ i > 3 => (q[i - 1] + 1 .. q[i] - 1) \subseteq gone
      BY <3>1 DEF InOrder
    <3>3. QED
      BY <3>1, <3>2
  <2>2. CASE i = Len(q) + 1
    <3>1. r[i] = upto + 1 /\ r[i - 1] = q[Len(q)] /\ Len(q) = i - 1 /\ q[Len(q)] \in Nat
      BY <1>1, <1>2, <2>2
    <3>2. i > 2 => q[Len(q)] <= upto
      BY <1>2, <2>2 DEF InOrder
    <3>3. i > 3 => (q[Len(q)] + 1 .. upto) \subseteq gone
      BY <3>1 DEF Settled
    <3>4. (upto + 1) - 1 = upto
      OBVIOUS
    <3>5. QED
      BY <3>1, <3>2, <3>3, <3>4
  <2>3. QED
    BY <1>1, <1>2, <1>4, <2>1, <2>2
<1>5. InOrder(r, since, upto + 1, gone)
  BY <1>1, <1>3, <1>4 DEF InOrder
<1>6. Settled(r, upto + 1, gone)
  BY <1>1, <1>2 DEF Settled
<1>7. QED
  BY <1>5, <1>6 DEF r

-----------------------------------------------------------------------------
(* The reader that came when the thread was waiting for one. *)

Welcome == reader.open /\ reader.invited

(* What it has read, what the pipe holds for it, what waits behind that.   *)
Stream == reader.got \o pipe
Line == IF served = "serve" THEN Stream \o backlog ELSE <<Header>> \o backlog

InLine == InOrder(Line, reader.since, written, dropped)
LineSettled == Settled(Line, written, dropped)

(* Until it is served it has nothing; when the flag goes up the backlog    *)
(* holds at most the record that was being sent; from then on nothing is   *)
(* written that is neither in line nor lost.                               *)
Waits ==
  /\ reader.got = <<>> /\ pipe = <<>>
  /\ served \in {"connect", "drain", "raise", "header"}
  /\ served = "raise" => InLine /\ Len(backlog) <= 1 /\ (sending => backlog = <<>>)
  /\ served = "header" => InLine /\ LineSettled

Served == served = "serve" /\ Stream # <<>> /\ InLine /\ LineSettled

GuestInv == Welcome => reader.since <= written /\ (Waits \/ Served)

PipeInv == PipeBooks /\ GuestInv

LEMMA LineTyped ==
  ASSUME PipeTypeOK
  PROVE  /\ Stream \in Seq(Nat) /\ Line \in Seq(Nat) /\ <<Header>> \in Seq(Nat)
         /\ reader.since \in Nat /\ reader.got \in Seq(Nat)
<1>1. reader.got \in Seq(Nat) /\ reader.since \in Nat /\ <<Header>> \in Seq(Nat)
  BY DEF PipeTypeOK, Header
<1>2. Stream \in Seq(Nat)
  BY <1>1, ConcatProperties DEF Stream, PipeTypeOK
<1>3. QED
  BY <1>1, <1>2, ConcatProperties DEF Line, PipeTypeOK

LEMMA GuestInit == PipeInit => GuestInv
BY DEF PipeInit, GuestInv, Welcome, NoReader

(* A record that is discarded while the flag is down.                      *)
LEMMA LookStep ==
  ASSUME PipeBooks, GuestInv, LookAtFlag
  PROVE  GuestInv'
<1>1. UNCHANGED <<dropped, backlog, attached, served, pipe, reader>>
  BY DEF LookAtFlag
<1>2. Line' = Line /\ Stream' = Stream /\ Welcome' = Welcome
  BY <1>1 DEF Line, Stream, Welcome
<1>3. written \in Nat /\ written' \in Nat /\ written <= written'
  BY DEF LookAtFlag, PipeBooks, PipeTypeOK
<1>4. CASE attached
  <2>1. written' = written /\ served \notin {"connect", "drain", "raise"}
    BY <1>4 DEF LookAtFlag, PipeBooks, FlagFollows
  <2>2. QED
    BY <1>1, <1>2, <2>1 DEF GuestInv, Waits, Served, InLine, LineSettled
<1>5. CASE ~attached
  <2>1. sending' = sending /\ served \notin {"header", "serve"}
    BY <1>5 DEF LookAtFlag, PipeBooks, FlagFollows
  <2>2. ASSUME InLine PROVE InLine'
    BY <1>1, <1>2, <1>3, <2>2, LineTyped, StaysInOrder DEF InLine, PipeBooks
  <2>3. Welcome => reader.since \in Nat /\ reader.since <= written /\ Waits
    BY <2>1, LineTyped DEF GuestInv, Served, PipeBooks
  <2>4. QED
    BY <1>1, <1>2, <1>3, <2>1, <2>2, <2>3 DEF GuestInv, Waits
<1>6. QED
  BY <1>4, <1>5

(* A record that is sent, behind the line, or lost.                        *)
LEMMA SendStep ==
  ASSUME PipeBooks, GuestInv, TrySend
  PROVE  GuestInv'
<1>1. UNCHANGED <<attached, served, pipe, reader>> /\ written' = written + 1 /\ sending /\ ~sending'
  BY DEF TrySend
<1>2. Stream' = Stream /\ Welcome' = Welcome
  BY <1>1 DEF Stream, Welcome
<1>3. SUFFICES ASSUME Welcome PROVE GuestInv'
  BY <1>2 DEF GuestInv
<1>4. /\ written \in Nat /\ written + 1 \in Nat /\ backlog \in Seq(Nat) /\ Line \in Seq(Nat)
      /\ reader.since \in Nat /\ reader.since <= written
  BY <1>3, LineTyped DEF GuestInv, PipeBooks, PipeTypeOK
<1>5. CASE Len(backlog) < Backlog
  <2>1. backlog' = Append(backlog, written + 1) /\ dropped' = dropped
    BY <1>5 DEF TrySend
  <2>2. Line' = Append(Line, written + 1)
    <3>1. ASSUME NEW s \in Seq(Nat)
          PROVE  s \o backlog' = Append(s \o backlog, written + 1)
      BY <1>4, <2>1, AppendsBehind
    <3>2. QED
      BY <1>1, <1>2, <3>1, LineTyped DEF Line, PipeBooks
  <2>3. ASSUME InLine, LineSettled PROVE InLine' /\ LineSettled'
    BY <1>1, <1>4, <2>1, <2>2, <2>3, GrowsInOrder DEF InLine, LineSettled
  <2>4. CASE Waits /\ served = "raise"
    <3>1. backlog = <<>> /\ InLine /\ Len(backlog) = 0
      BY <1>1, <2>4 DEF Waits
    <3>2. Line = <<Header>> /\ Len(Line) = 1
      BY <2>4, <3>1, LineTyped, ConcatEmptySeq DEF Line, PipeBooks
    <3>3. LineSettled
      BY <3>2 DEF LineSettled, Settled
    <3>4. Len(backlog') = 1
      BY <1>4, <2>1, <3>1, AppendProperties
    <3>5. QED
      BY <1>1, <1>4, <2>3, <2>4, <3>1, <3>3, <3>4 DEF GuestInv, Waits
  <2>5. CASE Waits /\ served # "raise"
    BY <1>1, <1>4, <2>3, <2>5 DEF GuestInv, Waits
  <2>6. CASE Served
    BY <1>1, <1>2, <1>4, <2>3, <2>6 DEF GuestInv, Served
  <2>7. QED
    BY <1>3, <2>4, <2>5, <2>6 DEF GuestInv
<1>6. CASE ~(Len(backlog) < Backlog)
  <2>1. backlog' = backlog /\ dropped' = dropped \cup {written + 1}
    BY <1>6 DEF TrySend
  <2>2. Line' = Line
    BY <1>1, <1>2, <2>1 DEF Line
  <2>3. InLine => InLine'
    BY <1>1, <1>4, <2>1, <2>2, StaysInOrder DEF InLine
  <2>4. LineSettled => LineSettled'
    BY <1>1, <1>4, <2>1, <2>2, LossSettles DEF LineSettled
  <2>5. QED
    BY <1>1, <1>2, <1>3, <1>4, <2>1, <2>3, <2>4 DEF GuestInv, Waits, Served
<1>7. QED
  BY <1>5, <1>6

(* The thread gets ready for the reader: old records go, the flag goes up. *)
LEMMA ReadyStep ==
  ASSUME PipeBooks, GuestInv, Connect \/ Drain \/ RaiseFlag
  PROVE  GuestInv'
<1>1. UNCHANGED <<written, sending, dropped, pipe, reader>> /\ served \in {"connect", "drain", "raise"}
  BY DEF Connect, Drain, RaiseFlag
<1>2. SUFFICES ASSUME Welcome PROVE GuestInv'
  BY <1>1 DEF GuestInv, Welcome
<1>3. Waits /\ reader.since <= written
  BY <1>1, <1>2 DEF GuestInv, Served
<1>4. /\ written \in Nat /\ reader.since \in Nat /\ backlog \in Seq(Nat) /\ <<Header>> \in Seq(Nat)
  BY LineTyped DEF PipeBooks, PipeTypeOK
<1>5. CASE Connect
  BY <1>1, <1>3, <1>5 DEF Connect, GuestInv, Waits
<1>6. CASE Drain
  <2>1. CASE backlog = <<>>
    <3>1. served' = "raise" /\ backlog' = <<>>
      BY <1>6, <2>1 DEF Drain
    <3>2. Line' = <<Header>>
      BY <1>4, <3>1, ConcatEmptySeq DEF Line
    <3>3. InLine'
      BY <1>1, <1>4, <3>2, HeaderIsInOrder DEF InLine
    <3>4. Len(backlog') = 0
      BY <3>1
    <3>5. QED
      BY <1>1, <1>3, <3>1, <3>3, <3>4 DEF GuestInv, Waits
  <2>2. CASE backlog # <<>>
    BY <1>1, <1>3, <1>6, <2>2 DEF Drain, GuestInv, Waits
  <2>3. QED
    BY <2>1, <2>2
<1>7. CASE RaiseFlag
  <2>1. served = "raise" /\ served' = "header" /\ backlog' = backlog
    BY <1>7 DEF RaiseFlag
  <2>2. Line' = Line /\ Line = <<Header>> \o backlog
    BY <2>1 DEF Line
  <2>3. InLine' /\ Len(backlog) <= 1
    BY <1>1, <1>3, <2>1, <2>2 DEF InLine, Waits
  <2>4. Len(Line') = 1 + Len(backlog)
    BY <1>4, <2>2, ConcatProperties
  <2>5. LineSettled'
    BY <1>4, <2>3, <2>4 DEF LineSettled, Settled
  <2>6. QED
    BY <1>1, <1>3, <2>1, <2>3, <2>5 DEF GuestInv, Waits
<1>8. QED
  BY <1>5, <1>6, <1>7

(* The line moves on: into the pipe, out of the pipe.                      *)
LEMMA ServeStep ==
  ASSUME PipeBooks, GuestInv, WriteHeader \/ ServeRecord \/ Read
  PROVE  GuestInv'
<1>1. /\ UNCHANGED <<written, sending, dropped>>
      /\ reader'.open = reader.open /\ reader'.invited = reader.invited /\ reader'.since = reader.since
  BY DEF WriteHeader, ServeRecord, Read, PipeBooks, PipeTypeOK
<1>2. SUFFICES ASSUME Welcome PROVE GuestInv'
  BY <1>1 DEF GuestInv, Welcome
<1>3. reader.open /\ reader.since <= written /\ (Waits \/ Served)
  BY <1>2 DEF Welcome, GuestInv
<1>4. /\ reader.got \in Seq(Nat) /\ pipe \in Seq(Nat) /\ backlog \in Seq(Nat) /\ <<Header>> \in Seq(Nat)
      /\ Stream \in Seq(Nat) /\ <<>> \in Seq(Nat)
  BY LineTyped DEF PipeBooks, PipeTypeOK
<1>5. CASE WriteHeader
  <2>1. /\ served = "header" /\ served' = "serve" /\ pipe' = Append(pipe, Header)
        /\ UNCHANGED <<backlog, reader>>
    BY <1>3, <1>5 DEF WriteHeader, Put
  <2>2. reader.got = <<>> /\ pipe = <<>> /\ InLine /\ LineSettled
    BY <1>3, <2>1 DEF Waits, Served
  <2>3. pipe' = <<Header>>
    BY <2>1, <2>2
  <2>4. Stream' = <<Header>>
    BY <1>4, <2>1, <2>2, <2>3, ConcatEmptySeq DEF Stream
  <2>5. Line' = Line
    BY <2>1, <2>4 DEF Line
  <2>6. QED
    BY <1>1, <1>3, <2>1, <2>2, <2>4, <2>5 DEF GuestInv, Served, InLine, LineSettled
<1>6. CASE ServeRecord
  <2>1. /\ served = "serve" /\ served' = "serve" /\ backlog # <<>> /\ backlog' = Tail(backlog)
        /\ pipe' = Append(pipe, Head(backlog)) /\ reader' = reader
    BY <1>3, <1>6 DEF ServeRecord, Put
  <2>2. Served
    BY <1>3, <2>1 DEF Waits
  <2>3. Stream' = Append(Stream, Head(backlog)) /\ Head(backlog) \in Nat
    BY <1>4, <2>1, AppendsBehind, HeadTailProperties, ZenonT(30) DEF Stream
  <2>4. Line' = Line
    BY <1>4, <2>1, <2>3, HeadMoves DEF Line
  <2>5. Stream' # <<>>
    BY <1>4, <2>3, AppendProperties
  <2>6. QED
    BY <1>1, <1>3, <2>1, <2>2, <2>4, <2>5 DEF GuestInv, Served, InLine, LineSettled
<1>7. CASE Read
  <2>1. /\ pipe # <<>> /\ pipe' = Tail(pipe) /\ reader'.got = Append(reader.got, Head(pipe))
        /\ UNCHANGED <<backlog, served>>
    BY <1>7 DEF Read, PipeBooks, PipeTypeOK
  <2>2. Served
    BY <1>3, <2>1 DEF Waits
  <2>3. Stream' = Stream
    BY <1>4, <2>1, HeadMoves DEF Stream
  <2>4. Line' = Line
    BY <2>1, <2>3 DEF Line
  <2>5. QED
    BY <1>1, <1>3, <2>1, <2>2, <2>3, <2>4 DEF GuestInv, Served, InLine, LineSettled
<1>8. QED
  BY <1>5, <1>6, <1>7

LEMMA GuestStep ==
  ASSUME PipeBooks, GuestInv, [PipeNext]_pipeVars
  PROVE  GuestInv'
<1>1. CASE Probe \/ LowerFlag \/ Drop
  <2>1. reader' = reader /\ (~reader.open \/ served \in {"lower", "drop"})
    BY <1>1 DEF Probe, LowerFlag, Drop
  <2>2. ~Welcome
    BY <2>1 DEF Welcome, GuestInv, Waits, Served
  <2>3. QED
    BY <2>1, <2>2 DEF GuestInv, Welcome
<1>2. CASE Open
  <2>1. SUFFICES ASSUME Welcome' PROVE GuestInv'
    BY DEF GuestInv
  <2>2. served = "connect" /\ served' = served /\ reader'.got = <<>> /\ reader'.since = written
    BY <1>2, <2>1 DEF Open, Welcome
  <2>3. written' = written /\ written \in Nat /\ pipe' = <<>>
    BY <1>2, <2>2 DEF Open, PipeBooks, PipeIsFresh, PipeTypeOK
  <2>4. QED
    BY <2>2, <2>3 DEF GuestInv, Waits
<1>3. CASE Close
  BY <1>3 DEF Close, NoReader, GuestInv, Welcome
<1>4. CASE UNCHANGED pipeVars
  BY <1>4 DEF pipeVars, GuestInv, Welcome, Waits, Served, InLine, LineSettled, Line, Stream
<1>5. QED
  BY <1>1, <1>2, <1>3, <1>4, LookStep, SendStep, ReadyStep, ServeStep DEF PipeNext, Serve

-----------------------------------------------------------------------------
(* The theorems. *)

(* The inductive invariant holds in every reachable state of the capture,  *)
(* whenever readers come and go.                                           *)
THEOREM PipeInvariant == PipeSpec => []PipeInv
<1>1. PipeInit => PipeInv
  BY TypeInit, GuestInit DEF PipeInit, PipeInv, PipeBooks, FlagFollows, PipeIsFresh
<1>2. PipeInv /\ [PipeNext]_pipeVars => PipeInv'
  BY TypeStep, FlagStep, FreshStep, GuestStep DEF PipeInv, PipeBooks
<1>3. QED
  BY <1>1, <1>2, PTL DEF PipeSpec

(* Every reader that comes when the thread waits for one gets a capture of *)
(* its own, whatever the reader before left behind.                        *)
THEOREM StreamsAreCaptures == PipeSpec => []StreamIsACapture
<1>1. ASSUME PipeInv PROVE StreamIsACapture
  <2>1. SUFFICES ASSUME Welcome
                 PROVE  /\ Stream # <<>> => Stream[1] = Header
                        /\ \A i \in 2 .. Len(Stream) :
                             /\ Stream[i] > reader.since
                             /\ i > 2 => Stream[i] > Stream[i - 1]
                             /\ i > 3 => (Stream[i - 1] + 1 .. Stream[i] - 1) \subseteq dropped
    BY Zenon DEF StreamIsACapture, Welcome, Stream
  <2>2. Stream \in Seq(Nat) /\ backlog \in Seq(Nat) /\ Line \in Seq(Nat) /\ reader.since \in Nat
    BY <1>1, LineTyped DEF PipeInv, PipeBooks, PipeTypeOK
  <2>3. CASE Waits
    <3>1. Stream = <<>>
      BY <2>3, ConcatEmptySeq DEF Waits, Stream
    <3>2. QED
      BY <3>1
  <2>4. CASE Served
    <3>1. /\ Len(Line) = Len(Stream) + Len(backlog)
          /\ \A i \in 1 .. Len(Stream) : Line[i] = Stream[i]
      BY <2>2, <2>4, ConcatProperties DEF Served, Line
    <3>2. Len(Stream) \in Nat /\ Len(Stream) >= 1 /\ Len(backlog) \in Nat
      BY <2>2, <2>4 DEF Served
    <3>3. Stream[1] = Header
      BY <2>4, <3>1, <3>2 DEF Served, InLine, InOrder
    <3>4. ASSUME NEW i \in 2 .. Len(Stream)
          PROVE  /\ Stream[i] > reader.since
                 /\ i > 2 => Stream[i] > Stream[i - 1]
                 /\ i > 3 => (Stream[i - 1] + 1 .. Stream[i] - 1) \subseteq dropped
      <4>1. i \in 2 .. Len(Line) /\ Line[i] = Stream[i] /\ Line[i - 1] = Stream[i - 1]
        BY <3>1, <3>2
      <4>2. /\ reader.since < Line[i]
            /\ i > 2 => Line[i - 1] < Line[i]
            /\ i > 3 => (Line[i - 1] + 1 .. Line[i] - 1) \subseteq dropped
        BY <2>4, <4>1 DEF Served, InLine, InOrder
      <4>3. QED
        BY <4>1, <4>2
    <3>5. QED
      BY <3>3, <3>4
  <2>5. QED
    BY <1>1, <2>1, <2>3, <2>4 DEF PipeInv, GuestInv
<1>2. QED
  BY <1>1, PipeInvariant, PTL
=============================================================================
