------------------------------- MODULE NodeLoop -------------------------------
(* The threads of s2g-node around the engine: the radio's and the NIC's    *)
(* thread put messages into one queue, the main loop reads the clock,      *)
(* waits for a message for one tick at most, hands it to the engine with   *)
(* that reading, polls the engine with a fresh one and blocks while the    *)
(* radio takes a PPDU.  Of the engine this module keeps what is about      *)
(* time: a batch with its attempts, the wait for responses (RespTimer) and *)
(* identification (StationIdent).  On a shared medium others' PPDUs call   *)
(* for control responses, which preempt everything, and make the engine    *)
(* draw again when a backoff is over.  A batch is one frame, answered by   *)
(* an NDP Ack and not protected by RTS (the default); MacLink models RTS   *)
(* and batches answered in part, MediumAccess when the medium is busy.     *)
(*                                                                         *)
(* Time passes in ticks, only while the loop waits or is blocked: the      *)
(* program is fast beside a tick.  An attempt and its response are known   *)
(* by their age, the ticks since the end of the attempt's airtime: no two  *)
(* attempts have the same, and an Ack ID tells attempts apart.             *)
EXTENDS RespTimer, StationIdent, Sequences, FiniteSets

CONSTANTS Setup,        \* configurations and what goes on around the node: whether
                        \* others share the medium, the answers' delays before and
                        \* after a jump, their jitter, how many are lost, and the
                        \* kinds of frames queued
          Tick,         \* units of RespTimer in a tick
          Airtime,      \* ticks an attempt is on the air
          MaxBackoff,   \* ticks of one draw, deferrals included
          MaxRetries,
          QueueLimit,
          MaxBlock      \* ticks sdr_tx.send may block

ASSUME LoopAssumption ==
  /\ {Tick, Airtime} \subseteq Nat \ {0}
  /\ {MaxBackoff, MaxRetries, QueueLimit, MaxBlock} \subseteq Nat

ASSUME SetupAssumption ==
  \A s \in Setup : /\ {s.adaptive, s.callsign, s.shared} \subseteq BOOLEAN
                   /\ {s.delays[1], s.delays[2], s.jitter, s.losses} \subseteq Nat
                   /\ s.frames # {} /\ s.frames \subseteq {"data", "group"}

VARIABLES setup,    \* the configuration
          jumped,   \* the second delay holds
          air,      \* answers under way, [age, delay]
          lost,     \* answers lost so far
          msgs,     \* the channel to the main loop
          loop,     \* [phase, ticks]: "wait" since the clock was read, or
                    \* "send" and how long the radio still blocks
          mac       \* the engine

vars == <<setup, jumped, air, lost, msgs, loop, mac>>

None == -Airtime - 1

Delay == setup.delays[IF jumped THEN 2 ELSE 1]

(* No answer is older when the engine hears of it.                         *)
LongestAge == Larger(setup.delays[1], setup.delays[2]) + setup.jitter + 3 * MaxBlock

(* Nothing tells attempts apart that have waited for longer.               *)
OldestAge == Larger(LongestAge, MaxWait \div Tick) + 1

Idle == [queue |-> 0, cur |-> "none", tries |-> 0, st |-> "idle", left |-> 0,
         age |-> None, wait |-> 0, late |-> None, est |-> NoEstimate, books |-> NoneSent]

Init ==
  /\ setup \in Setup
  /\ jumped = FALSE
  /\ air = {}
  /\ lost = 0
  /\ msgs = <<>>
  /\ loop = [phase |-> "wait", ticks |-> 0]
  /\ mac = Idle

-----------------------------------------------------------------------------
(* Calls of the engine.                                                    *)

Rested(m) == [m EXCEPT !.cur = "none", !.tries = 0, !.st = "idle", !.age = None]

BackingOff(m) == {[m EXCEPT !.st = "backoff", !.left = b, !.age = None] : b \in 0 .. MaxBackoff}

(* enqueue_eth *)
Enqueued(m) == IF m.queue < QueueLimit THEN [m EXCEPT !.queue = @ + 1] ELSE m

(* The delay noted for an attempt that ended age ticks ago, at a reading   *)
(* of the clock that is stale ticks old.                                   *)
Sample(age, stale) == Larger(0, (age - stale) * Tick)

(* A fixed wait does not read the estimate, and it is not kept.            *)
Noted(est, updated) == IF setup.adaptive THEN updated ELSE est

(* Mutant of Answered: an answer to an attempt given up is ignored. *)
AnsweredInTimeOnly(m, age, stale) ==
  IF m.st = "await" /\ age = m.age
  THEN Rested([m EXCEPT !.est = Noted(@, Updated(@, Sample(age, stale)))])
  ELSE m

(* Mutant of Answered: a late answer is timed from the attempt in flight. *)
AnsweredMistimed(m, age, stale) ==
  IF m.st = "await" /\ age = m.age
  THEN Rested([m EXCEPT !.est = Noted(@, Updated(@, Sample(age, stale)))])
  ELSE IF m.late # None /\ age = m.late
       THEN [m EXCEPT !.late = None, !.est = Noted(@, UpdatedLate(@, Sample(m.age, stale)))]
       ELSE m

(* on_ndp: an answer to the attempt in flight settles it, one to the       *)
(* attempt given up last only widens the estimate, others do nothing.      *)
Answered(m, age, stale) ==
  IF m.st = "await" /\ age = m.age
  THEN Rested([m EXCEPT !.est = Noted(@, Updated(@, Sample(age, stale)))])
  ELSE IF m.late # None /\ age = m.late
       THEN [m EXCEPT !.late = None, !.est = Noted(@, UpdatedLate(@, Sample(age, stale)))]
       ELSE m

Handled(m, msg, stale) ==
  CASE msg.kind = "eth"    -> Enqueued(m)
    [] msg.kind = "answer" -> Answered(m, msg.age, stale)
    [] msg.kind = "ask"    -> m

(* poll, step 2: the deadline of a response has passed.                    *)
GivenUp(m) ==
  IF ~(m.st = "await" /\ m.age * Tick >= m.wait) THEN {m}
  ELSE LET failed == [m EXCEPT !.late = m.age, !.tries = @ + 1]
       IN  IF failed.tries > MaxRetries THEN {Rested(failed)} ELSE BackingOff(failed)

(* poll, step 3: an identification that is due goes before queued frames.  *)
Pulled(m) ==
  IF m.st # "idle" THEN {m}
  ELSE IF setup.callsign /\ IdentDue(m.books, m.queue = 0) THEN BackingOff([m EXCEPT !.cur = "ident"])
  ELSE IF m.queue > 0 THEN UNION {BackingOff([m EXCEPT !.queue = @ - 1, !.cur = kind]) : kind \in setup.frames}
  ELSE {m}

(* Without a call sign nothing reads the books, and they are not kept.     *)
Booked(books) == IF setup.callsign THEN DataWentOut(books) ELSE books

(* poll, step 4: the engine after it has transmitted.                      *)
Transmitted(m) ==
  CASE m.cur = "data"  -> [m EXCEPT !.st = "await", !.age = -Airtime, !.wait = Wait(m.est, setup.adaptive),
                                    !.books = Booked(@)]
    [] m.cur = "group" -> Rested([m EXCEPT !.books = Booked(@)])
    [] m.cur = "ident" -> Rested([m EXCEPT !.books = IdentWentOut(@)])

(* poll, step 4: a backoff that is over, if the medium is not busy, which  *)
(* makes the engine draw again.                                            *)
Accessed(m, busy) ==
  IF ~(m.st = "backoff" /\ m.left = 0) THEN {[mac |-> m, sends |-> "nothing"]}
  ELSE IF busy THEN {[mac |-> b, sends |-> "nothing"] : b \in BackingOff(m)}
  ELSE {[mac |-> Transmitted(m), sends |-> m.cur]}

(* poll: the engine afterwards, and what it has the loop transmit.  A      *)
(* control response that is asked for goes first, and nothing else is      *)
(* looked at (step 1).                                                     *)
Polled(m, asked, busy) ==
  IF asked THEN {[mac |-> m, sends |-> "response"]}
  ELSE UNION {Accessed(p, busy) : p \in UNION {Pulled(g) : g \in GivenUp(m)}}

-----------------------------------------------------------------------------
(* The main loop.                                                          *)

Asked == msgs # <<>> /\ Head(msgs).kind = "ask"

(* One turn: a message or a timeout of the wait, the engine, the radio.    *)
Turn ==
  /\ loop.phase = "wait"
  /\ msgs # <<>> \/ loop.ticks = 1
  /\ msgs' = IF msgs = <<>> THEN msgs ELSE Tail(msgs)
  /\ \E busy \in IF setup.shared THEN BOOLEAN ELSE {FALSE} :
     \E p \in Polled(IF msgs = <<>> THEN mac ELSE Handled(mac, Head(msgs), loop.ticks), Asked, busy) :
       /\ mac' = p.mac
       /\ air' = IF p.sends = "data" THEN air \cup {[age |-> -Airtime, delay |-> Delay]} ELSE air
       /\ IF p.sends = "nothing"
          THEN loop' = [phase |-> "wait", ticks |-> 0]
          ELSE \E b \in 0 .. MaxBlock :
                 loop' = IF b = 0 THEN [phase |-> "wait", ticks |-> 0] ELSE [phase |-> "send", ticks |-> b]
  /\ UNCHANGED <<setup, jumped, lost>>

-----------------------------------------------------------------------------
(* The other threads, the network and the peer.                            *)

Waiting(kind) == \E i \in DOMAIN msgs : msgs[i].kind = kind

(* The NIC thread has a frame.                                             *)
NicFrame ==
  /\ ~Waiting("eth")
  /\ msgs' = Append(msgs, [kind |-> "eth", age |-> 0])
  /\ UNCHANGED <<setup, jumped, air, lost, loop, mac>>

(* The radio thread has a PPDU of another station that asks for a control  *)
(* response: data, or an RTS.                                              *)
OthersAsk ==
  /\ setup.shared /\ ~Waiting("ask")
  /\ msgs' = Append(msgs, [kind |-> "ask", age |-> 0])
  /\ UNCHANGED <<setup, jumped, air, lost, loop, mac>>

(* The radio thread has the answer to an attempt.                          *)
PeerAnswers ==
  \E a \in air :
    /\ a.age >= a.delay
    /\ air' = air \ {a}
    /\ msgs' = Append(msgs, [kind |-> "answer", age |-> a.age])
    /\ UNCHANGED <<setup, jumped, lost, loop, mac>>

(* The attempt or its answer is lost: on the air, in a read of the radio   *)
(* that failed, or because the PPDU could not be generated or sent, which  *)
(* the loop prints and the engine is not told.                             *)
AnswerLost ==
  \E a \in air :
    /\ lost < setup.losses
    /\ lost' = lost + 1
    /\ air' = air \ {a}
    /\ UNCHANGED <<setup, jumped, msgs, loop, mac>>

(* The answers of later attempts take another time.                        *)
DelayJumps ==
  /\ ~jumped
  /\ jumped' = TRUE
  /\ UNCHANGED <<setup, air, lost, msgs, loop, mac>>

(* A tick passes.  late_expect is forgotten here once no answer to it can  *)
(* come any more, which nothing in the engine can tell.                    *)
TimePasses ==
  /\ \/ loop.phase = "wait" /\ loop.ticks = 0 /\ msgs = <<>> /\ loop' = [loop EXCEPT !.ticks = 1]
     \/ loop.phase = "send" /\ loop' = IF loop.ticks = 1 THEN [phase |-> "wait", ticks |-> 0]
                                       ELSE [loop EXCEPT !.ticks = @ - 1]
  /\ \A a \in air : a.age < a.delay + setup.jitter
  /\ air' = {[a EXCEPT !.age = @ + 1] : a \in air}
  /\ msgs' = [i \in DOMAIN msgs |-> [msgs[i] EXCEPT !.age = IF msgs[i].kind = "answer" THEN @ + 1 ELSE @]]
  /\ mac' = [mac EXCEPT !.left = IF @ > 0 THEN @ - 1 ELSE 0,
                        !.age = IF mac.st = "await" /\ @ < OldestAge THEN @ + 1 ELSE @,
                        !.late = IF @ = None \/ @ >= LongestAge THEN None ELSE @ + 1,
                        !.books = Later(@)]
  /\ UNCHANGED <<setup, jumped, lost>>

Next ==
  \/ Turn \/ NicFrame \/ OthersAsk \/ PeerAnswers \/ AnswerLost \/ DelayJumps \/ TimePasses

Timeout == Turn /\ msgs = <<>>

Access == Turn /\ mac.st = "backoff" /\ mac'.st # "backoff"

LongestDraw == Turn /\ mac'.st = "backoff" /\ mac'.left = MaxBackoff

(* The threads run, and time passes.  Frames and others' PPDUs keep coming *)
(* but the loop is faster, so that recv_timeout times out again and again. *)
(* Again and again the others leave the medium idle when a backoff is      *)
(* over.  Backoffs are drawn uniformly: the longest one comes up again and *)
(* again as long as any are drawn.                                         *)
Spec ==
  /\ Init /\ [][Next]_vars
  /\ WF_vars(Turn) /\ WF_vars(PeerAnswers) /\ WF_vars(TimePasses) /\ []<><<Timeout>>_vars
  /\ SF_vars(Access) /\ SF_vars(LongestDraw)

-----------------------------------------------------------------------------
(* Properties.                                                             *)

(* An attempt is given up although its answer is still under way.          *)
Spurious ==
  /\ mac.st = "await" /\ mac'.late = mac.age
  /\ \/ \E a \in air : a.age = mac.age
     \/ \E i \in DOMAIN msgs : msgs[i].kind = "answer" /\ msgs[i].age = mac.age

(* However the time answers take has changed, from some moment on the wait *)
(* covers it and no attempt is given up while its answer is under way:     *)
(* late answers widen the estimate, although only the one to the attempt   *)
(* given up last counts and the next attempt may be in flight by then.     *)
(* (On a medium that is not shared: PPDUs for others block the loop again  *)
(* and again, and the time answers take never stops changing.)             *)
LearnsTheDelay == <>[][~Spurious]_vars

(* The smoothed delay stays between the shortest and the longest time that *)
(* an answer can have taken, with the staleness of the loop's clock and    *)
(* the time the loop was blocked: no answer is ever timed from the end of  *)
(* another attempt's airtime.                                              *)
ShortestAge == Smaller(setup.delays[1], setup.delays[2]) - 1

NotTooShort == mac.est.known => mac.est.srtt >= ShortestAge * Tick
NotTooLong == mac.est.known => mac.est.srtt <= LongestAge * Tick
EstimateIsOfDelays == NotTooShort /\ NotTooLong

(* Data that went out is followed by an identification: by the one of the  *)
(* interval while more data keeps coming, by the closing one when the      *)
(* station falls silent.                                                   *)
CommunicationIsClosed == setup.callsign /\ mac.books.data ~> ~mac.books.data

(* What engine.rs says of identification, that it repeats every interval   *)
(* while transmitting: a batch pulled just before the interval is over is  *)
(* not interrupted, however long the medium is busy and however often it   *)
(* is retried, and this does not hold (see the README).                    *)
IdentWithinInterval ==
  setup.callsign /\ mac.books.data /\ mac.books.quiet = 0 => mac.books.since <= Interval
=============================================================================
