----------------------------- MODULE MediumAccess -----------------------------
(***************************************************************************)
(* When one station of s2g-mac may transmit: the medium-access half of     *)
(* engine.rs, the half that MacLink leaves open.  CCA from the PHY, the    *)
(* predicted end of the PPDU being heard, the NAV, the response-indication *)
(* deferral (RID), EIFS after a garbled frame, and a backoff that is drawn *)
(* from a contention window and redrawn when the medium is found busy.     *)
(*                                                                         *)
(* Every `*_until_us` of the engine is kept as the time that remains until *)
(* it, so that the model needs no clock that grows; Tick lets one unit     *)
(* pass.  The caller polls whenever it gets round to it: any amount of     *)
(* time and any PHY events may come between two polls.  What the frames    *)
(* are is left out (MacLink): a batch is only group-addressed, short or    *)
(* long enough to need RTS, and an answered attempt ends as MacLink's      *)
(* ResolveAttempt may end it.                                              *)
(***************************************************************************)
EXTENDS Naturals, FiniteSets

CONSTANTS
  Slot, Difs, Eifs,     \* slot_us, difs_us, eifs_us()
  Preamble,             \* T_PREAMBLE_US
  Holds,                \* hold times announced with a busy CCA
  Remainders,           \* what may remain of a PPDU once its SIG is decoded
  RidLengths,           \* deferrals implied by a response indication
  Durations,            \* Duration fields of other stations' frames
  CwMin, CwMax,         \* cw_min_exp, cw_max_exp
  Airtime, Timeout,     \* of an attempt, and of the wait for its response
  Reservation,          \* what remains of an RTS's Duration at the CTS
  Batches,              \* kinds of batch: subset of {"group","short","long"}
  MaxResponses          \* bound: responses queued at a time

ASSUME TimeAssumption ==
  /\ Slot \in Nat /\ Difs \in Nat \ {0} /\ Eifs \in Nat /\ Difs <= Eifs
  /\ Preamble \in Nat /\ Airtime \in Nat /\ Timeout \in Nat /\ Reservation \in Nat
  /\ Holds \subseteq Nat /\ Remainders \subseteq Nat
  /\ RidLengths \subseteq Nat /\ Durations \subseteq Nat

ASSUME WindowAssumption == CwMin \in Nat /\ CwMax \in Nat /\ CwMin <= CwMax

ASSUME BatchAssumption ==
  Batches \subseteq {"group", "short", "long"} /\ MaxResponses \in Nat

VARIABLES
  cca,        \* the PHY says BUSY
  busy,       \* until the medium is known to clear (busy_until_us)
  nav, rid,   \* until NAV and RID expire
  eifs,       \* eifs_pending
  cw,         \* cw_exp
  batch,      \* the batch in progress, "none" is cur = None
  ctsOk,
  state,      \* "idle", "backoff" or the response awaited: "cts", "ack"
  timer,      \* until the backoff expires or the response is given up
  responses,  \* control responses waiting for a poll
  quiet,      \* the channel has gone quiet for good
  history     \* what the properties need to know of the past, see below

medium == <<cca, busy, nav, rid, eifs>>
access == <<cw, batch, ctsOk, state, timer>>
vars == <<medium, access, responses, quiet, history>>

-----------------------------------------------------------------------------
Later(a, b) == IF a > b THEN a ELSE b
Sooner(a, b) == IF a < b THEN a ELSE b

(* What is left of a wait after one unit of time. *)
Elapsed(t) == IF t = 0 THEN 0 ELSE t - 1

(* medium_busy *)
MediumBusy == cca \/ busy > 0 \/ nav > 0 \/ rid > 0

(* start_backoff: a number of slots in [0, CW] after the latest known end  *)
(* of activity, and EIFS instead of DIFS if that is pending.               *)
StartBackoff(window, eifsPending) ==
  LET idleAt == Later(Later(busy, nav), rid)
      ifs    == IF eifsPending THEN Eifs ELSE Difs
  IN /\ \E slots \in 0 .. 2^window - 1 : timer' = idleAt + ifs + slots * Slot
     /\ state' = "backoff"
     /\ eifs'  = FALSE

-----------------------------------------------------------------------------
(* history.sent is what the last step put on the air, last and after are   *)
(* the two latest channel accesses of this station, claims the reservations*)
(* of other stations still running, reserved what is left of its own, idle *)
(* how long the medium has been idle (up to DIFS).                         *)
Init ==
  /\ cca = FALSE /\ busy = 0 /\ nav = 0 /\ rid = 0 /\ eifs = FALSE
  /\ cw = CwMin /\ batch = "none" /\ ctsOk = FALSE
  /\ state = "idle" /\ timer = 0
  /\ responses = 0 /\ quiet = FALSE
  /\ history = [sent |-> "none", last |-> "none", after |-> "none",
                claims |-> {}, reserved |-> 0, idle |-> 0]

(* A step that puts nothing on the air. *)
Silent(h) ==
  history' = [h EXCEPT !.sent = "none", !.idle = IF MediumBusy' THEN 0 ELSE @]

(* A channel access: an RTS or a data PPDU. *)
Accessed(kind) ==
  history' = [history EXCEPT !.sent = kind, !.after = history.last, !.last = kind]

-----------------------------------------------------------------------------
(* on_phy_event: what the PHY tells about the channel. *)

Hearing == ~quiet /\ UNCHANGED <<access, quiet>>

(* Mutant of OnCca: once busy, the report that it is idle again is lost. *)
OnCcaSticky(b, hold) ==
  /\ cca' = (cca \/ b)
  /\ busy' = IF b THEN Later(busy, hold) ELSE busy
  /\ UNCHANGED <<nav, rid, eifs, responses>>
  /\ Silent(history)

OnCca(b, hold) ==
  /\ cca'  = b
  /\ busy' = IF b THEN Later(busy, hold) ELSE busy
  /\ UNCHANGED <<nav, rid, eifs, responses>>
  /\ Silent(history)

HearCca == Hearing /\ \E b \in BOOLEAN, hold \in Holds \cup {0} : OnCca(b, hold)

HearPpduStart ==
  /\ Hearing
  /\ busy' = Later(busy, Preamble)
  /\ UNCHANGED <<cca, nav, rid, eifs, responses>>
  /\ Silent(history)

(* SIG decoded: the end of the PPDU is known, and the response it asks for.*)
HearRxStart ==
  /\ Hearing
  /\ \E rest \in Remainders, length \in RidLengths \cup {0} :
       /\ busy' = Later(busy, rest)
       /\ rid'  = IF length > 0 THEN Later(rid, rest + length) ELSE rid
  /\ UNCHANGED <<cca, nav, eifs, responses>>
  /\ Silent(history)

HearFormatViolation ==
  /\ Hearing
  /\ eifs' = TRUE
  /\ UNCHANGED <<cca, busy, nav, rid, responses>>
  /\ Silent(history)

(* Mutant of Claim: the latest Duration replaces an earlier, longer one. *)
ClaimLatest(d) == nav' = d

(* Another station's exchange reserves the medium for d. *)
Claim(d) == nav' = Later(nav, d)

(* An intact frame that is not for this station (or is a group frame). *)
HearOther ==
  /\ Hearing
  /\ eifs' = FALSE
  /\ UNCHANGED <<cca, busy, rid, responses>>
  /\ \E d \in Durations \cup {0} :
       /\ Claim(d)
       /\ Silent([history EXCEPT !.claims = @ \cup ({d} \ {0})])

(* An intact frame for this station, an RTS or data: the RID is void, and  *)
(* it may want an answer.                                                  *)
HearOwn ==
  /\ Hearing
  /\ eifs' = FALSE /\ rid' = 0
  /\ responses' \in {responses, Sooner(responses + 1, MaxResponses)}
  /\ UNCHANGED <<cca, busy, nav>>
  /\ Silent(history)

(* NDP CMAC PPDUs for others: they carry no MPDU, so EIFS stays due. *)
HearNdp ==
  /\ Hearing
  /\ UNCHANGED <<cca, busy, eifs, responses>>
  /\ \/ \E d \in Durations : /\ Claim(d) /\ rid' = rid
                             /\ Silent([history EXCEPT !.claims = @ \cup ({d} \ {0})])
     \/ \E length \in RidLengths : /\ rid' = Later(rid, length) /\ nav' = nav
                                   /\ Silent(history)

-----------------------------------------------------------------------------
(* The fate of the attempt: resolve_attempt and fail_attempt.              *)

(* Mutant of Finish: the window stays as wide as the last losses made it. *)
FinishWide ==
  /\ batch' = "none" /\ state' = "idle" /\ timer' = 0 /\ ctsOk' = FALSE
  /\ cw' = cw

(* Nothing is left of the batch. *)
Finish ==
  /\ batch' = "none" /\ state' = "idle" /\ timer' = 0 /\ ctsOk' = FALSE
  /\ cw' = CwMin

(* Mutant of Continue: the handshake of the last attempt still counts. *)
ContinueWithCts(window, eifsPending) ==
  /\ batch' \in IF batch = "long" THEN {"long", "short"} ELSE {batch}
  /\ ctsOk' = ctsOk
  /\ cw' = window
  /\ StartBackoff(window, eifsPending)

(* Part of the batch is left; a long batch may have become a short one.    *)
Continue(window, eifsPending) ==
  /\ batch' \in IF batch = "long" THEN {"long", "short"} ELSE {batch}
  /\ ctsOk' = FALSE
  /\ cw' = window
  /\ StartBackoff(window, eifsPending)

(* Mutant of Wider: no upper limit. *)
WiderForEver == cw + 1

(* The window after a failed attempt. *)
Wider == Sooner(cw + 1, CwMax)

(* The awaited Ack, NDP Ack or NDP BlockAck arrives; the legacy Ack is an  *)
(* intact frame and ends EIFS.                                             *)
HearAck ==
  /\ ~quiet /\ state = "ack"
  /\ UNCHANGED <<cca, busy, nav, rid, responses, quiet>>
  /\ \E legacy \in BOOLEAN :
       LET due == eifs /\ ~legacy
       IN /\ \/ Finish /\ eifs' = due
             \/ \E window \in {CwMin, Wider} : Continue(window, due)
          /\ Silent(history)

(* Mutant of HearCts: a CTS nobody waits for is acted on. *)
HearCtsAlways ==
  /\ ~quiet
  /\ ctsOk' = TRUE /\ state' = "backoff" /\ timer' = 0
  /\ UNCHANGED <<medium, cw, batch, responses, quiet>>
  /\ Silent([history EXCEPT !.reserved = Reservation])

(* The NDP CTS this station waits for: transmit at once. *)
HearCts ==
  /\ ~quiet /\ state = "cts"
  /\ ctsOk' = TRUE /\ state' = "backoff" /\ timer' = 0
  /\ UNCHANGED <<medium, cw, batch, responses, quiet>>
  /\ Silent([history EXCEPT !.reserved = Reservation])

-----------------------------------------------------------------------------
(* poll *)

(* Step 1: responses are sent without a look at the medium. *)
PollResponse ==
  /\ responses > 0
  /\ responses' = responses - 1
  /\ history' = [history EXCEPT !.sent = "response"]
  /\ UNCHANGED <<medium, access, quiet>>

(* Step 3: with an empty hand, pull a batch and start its backoff. *)
Pull(window) ==
  /\ batch' \in Batches /\ ctsOk' = FALSE /\ cw' = window
  /\ StartBackoff(window, eifs)

PollPull ==
  /\ responses = 0 /\ state = "idle"
  /\ Pull(cw)
  /\ UNCHANGED <<cca, busy, nav, rid, responses, quiet>>
  /\ Silent(history)

(* Steps 2 and 3: no response came. *)
PollTimeout ==
  /\ responses = 0 /\ state \in {"cts", "ack"} /\ timer = 0
  /\ \/ Finish /\ eifs' = eifs
     \/ Pull(CwMin)
     \/ Continue(Wider, eifs)
  /\ UNCHANGED <<cca, busy, nav, rid, responses, quiet>>
  /\ Silent(history)

(* Step 4: the backoff has expired. *)
Expired == responses = 0 /\ state = "backoff" /\ timer = 0

PollBusy ==
  /\ Expired /\ MediumBusy
  /\ StartBackoff(cw, eifs)
  /\ UNCHANGED <<cca, busy, nav, rid, cw, batch, ctsOk, responses, quiet>>
  /\ Silent(history)

PollRts ==
  /\ Expired /\ ~MediumBusy
  /\ batch = "long" /\ ~ctsOk
  /\ state' = "cts" /\ timer' = Airtime + Timeout
  /\ UNCHANGED <<medium, cw, batch, ctsOk, responses, quiet>>
  /\ Accessed("rts")

PollData ==
  /\ Expired /\ ~MediumBusy
  /\ batch = "long" => ctsOk
  /\ IF batch = "group"
     THEN batch' = "none" /\ state' = "idle" /\ timer' = 0 /\ ctsOk' = FALSE
     ELSE batch' = batch /\ state' = "ack" /\ timer' = Airtime + Timeout
          /\ ctsOk' = ctsOk
  /\ UNCHANGED <<medium, cw, responses, quiet>>
  /\ Accessed("data")

Poll ==
  \/ PollResponse \/ PollPull \/ PollTimeout
  \/ PollBusy \/ PollRts \/ PollData

-----------------------------------------------------------------------------
Tick ==
  /\ busy' = Elapsed(busy) /\ nav' = Elapsed(nav) /\ rid' = Elapsed(rid)
  /\ timer' = Elapsed(timer)
  /\ history' = [history EXCEPT
       !.sent = "none", !.reserved = Elapsed(@),
       !.claims = {Elapsed(d) : d \in @} \ {0},
       !.idle = IF MediumBusy THEN 0 ELSE Sooner(@ + 1, Difs)]
  /\ UNCHANGED <<cca, eifs, cw, batch, ctsOk, state, responses, quiet>>

(* The other stations fall silent: the PHY reports an idle medium, and     *)
(* nothing more is heard.                                                  *)
GoQuiet ==
  /\ ~quiet /\ quiet' = TRUE
  /\ OnCca(FALSE, 0)
  /\ UNCHANGED access

Hear ==
  \/ HearCca \/ HearPpduStart \/ HearRxStart \/ HearFormatViolation
  \/ HearOther \/ HearOwn \/ HearNdp \/ HearAck \/ HearCts

Next == Hear \/ Poll \/ Tick \/ GoQuiet

Spec == Init /\ [][Next]_vars

(* Time passes, the node polls, and the channel is not busy for ever. *)
FairSpec == Spec /\ WF_vars(Tick) /\ WF_vars(Poll) /\ WF_vars(GoQuiet)

-----------------------------------------------------------------------------
(* Properties. *)

TypeOK ==
  /\ cca \in BOOLEAN /\ busy \in Nat /\ nav \in Nat /\ rid \in Nat
  /\ eifs \in BOOLEAN /\ cw \in CwMin .. CwMax
  /\ batch \in {"none", "group", "short", "long"} /\ ctsOk \in BOOLEAN
  /\ state \in {"idle", "backoff", "cts", "ack"} /\ timer \in Nat
  /\ responses \in 0 .. MaxResponses /\ quiet \in BOOLEAN
  /\ history \in [sent : {"none", "response", "rts", "data"},
                  last : {"none", "rts", "data"}, after : {"none", "rts", "data"},
                  claims : SUBSET Nat, reserved : Nat, idle : Nat]

Access == history.sent \in {"rts", "data"}

(* A channel access never cuts into a reservation another station made,    *)
(* however short later ones were, nor into a busy medium.                  *)
AccessDefers == Access => history.claims = {} /\ ~MediumBusy

(* Data long enough to need protection directly follows an RTS of its own  *)
(* among the station's accesses: no handshake serves two attempts.         *)
LongDataFollowsRts ==
  history.sent = "data" /\ batch = "long" => history.after = "rts"

(* A new batch starts with the smallest contention window: what one peer's *)
(* losses did to the window never delays the next batch.                   *)
FreshWindow == batch = "none" => cw = CwMin

(* The state machine and the batch agree. *)
StateMatchesBatch ==
  /\ state = "idle" <=> batch = "none"
  /\ state = "cts" => batch = "long" /\ ~ctsOk
  /\ ctsOk => batch = "long" /\ state \in {"backoff", "ack"}

(* When the channel is left alone a backoff ends in an access: redrawing   *)
(* never postpones it for ever.                                            *)
BackoffEnds == state = "backoff" ~> state # "backoff"

-----------------------------------------------------------------------------
(* What comments of the engine say and it does not do. *)

(* "the MAC never transmits while the PHY says BUSY" *)
NeverTransmitsOverBusy == history.sent # "none" => ~cca

(* An access that had to contend: not the data its own RTS made way for.   *)
Contended == Access /\ ~(history.sent = "data" /\ history.after = "rts")

(* "DIFS + uniform backoff in [0, CW] slots after the medium goes idle;    *)
(* [...] redrawn (not frozen) if the medium turns busy"                    *)
AccessAfterIdleDifs == Contended => history.idle >= Difs

(* "Protect unicast PSDUs longer than this with RTS / NDP CTS": the data   *)
(* is sent while the CTS's reservation still protects it.                  *)
ProtectedWhileReserved ==
  history.sent = "data" /\ batch = "long" => history.reserved > 0
=============================================================================
