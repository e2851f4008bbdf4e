-------------------------- MODULE MediumAccessProofs --------------------------
(***************************************************************************)
(* Proofs about MediumAccess, for any times, windows and kinds of batch.   *)
(* The properties are not inductive by themselves: that an access defers   *)
(* to every reservation needs the NAV to reach as far as each of them, and *)
(* that protected data follows its own RTS needs the handshake flag to     *)
(* vouch for the latest access.                                            *)
(***************************************************************************)
EXTENDS MediumAccess, TLAPS

(* The NAV lasts as long as every reservation still running. *)
NavCovers == \A d \in history.claims : d \in Nat /\ 0 < d /\ d <= nav

(* While a CTS is awaited or has been received, the RTS is the latest      *)
(* access.                                                                 *)
HandshakeIsLatest == state = "cts" \/ (ctsOk /\ state = "backoff") => history.last = "rts"

(* A flag that survives the attempt still stands for its RTS. *)
AttemptFlag == state = "ack" /\ batch = "long" => ctsOk

(* A group-addressed batch waits for no response, so it never widens the   *)
(* window it found.                                                        *)
GroupWindow == batch = "group" => state = "backoff" /\ cw = CwMin

AccessInv ==
  /\ TypeOK /\ StateMatchesBatch /\ FreshWindow
  /\ NavCovers /\ HandshakeIsLatest /\ AttemptFlag /\ GroupWindow
  /\ AccessDefers /\ LongDataFollowsRts

LEMMA LaterIsUpperBound ==
  ASSUME NEW a \in Nat, NEW b \in Nat
  PROVE  Later(a, b) \in Nat /\ a <= Later(a, b) /\ b <= Later(a, b)
BY DEF Later

LEMMA ElapsedIsNat ==
  ASSUME NEW a \in Nat
  PROVE  Elapsed(a) \in Nat /\ (0 < a => Elapsed(a) = a - 1)
BY DEF Elapsed

(* A backoff is a wait of some length, whatever was drawn. *)
LEMMA BackoffTyped ==
  ASSUME TypeOK, NEW window, NEW e \in BOOLEAN, StartBackoff(window, e)
  PROVE  timer' \in Nat /\ state' = "backoff" /\ eifs' = FALSE
<1>1. PICK slots \in 0 .. 2^window - 1 :
        timer' = Later(Later(busy, nav), rid) + (IF e THEN Eifs ELSE Difs) + slots * Slot
  BY DEF StartBackoff
<1>2. slots \in Nat
  OBVIOUS
<1>3. slots * Slot \in Nat
  BY <1>2, TimeAssumption
<1>4. Later(Later(busy, nav), rid) \in Nat
  BY LaterIsUpperBound DEF TypeOK
<1>5. (IF e THEN Eifs ELSE Difs) \in Nat
  BY TimeAssumption
<1>6. timer' \in Nat
  BY <1>1, <1>3, <1>4, <1>5
<1>7. QED
  BY <1>6 DEF StartBackoff

LEMMA WindowTyped ==
  ASSUME TypeOK
  PROVE  Wider \in CwMin .. CwMax /\ CwMin \in CwMin .. CwMax
BY WindowAssumption DEF TypeOK, Wider, Sooner

LEMMA AccessInvInit == Init => AccessInv
<1> SUFFICES ASSUME Init PROVE AccessInv
  OBVIOUS
<1>1. TypeOK
  <2>1. 0 \in 0 .. MaxResponses /\ CwMin \in CwMin .. CwMax
    BY WindowAssumption, BatchAssumption
  <2>2. {} \in SUBSET Nat
    OBVIOUS
  <2>3. QED
    BY <2>1, <2>2 DEF Init, TypeOK
<1>2. QED
  BY <1>1 DEF Init, AccessInv, StateMatchesBatch, FreshWindow, NavCovers,
     HandshakeIsLatest, AttemptFlag, GroupWindow, AccessDefers, Access, LongDataFollowsRts

(* A step that is not an access and leaves the transfer alone preserves    *)
(* what is said of it, provided the NAV still covers the reservations.     *)
LEMMA HearingStep ==
  ASSUME AccessInv, UNCHANGED access, history'.sent \notin {"rts", "data"},
         history'.last = history.last, NavCovers', TypeOK'
  PROVE  AccessInv'
BY DEF AccessInv, access, StateMatchesBatch, FreshWindow, HandshakeIsLatest,
   AttemptFlag, GroupWindow, AccessDefers, Access, LongDataFollowsRts

HistoryType ==
  [sent : {"none", "response", "rts", "data"},
   last : {"none", "rts", "data"}, after : {"none", "rts", "data"},
   claims : SUBSET Nat, reserved : Nat, idle : Nat]

(* Silent keeps the past, and the past well typed. *)
LEMMA SilentStep ==
  ASSUME NEW h \in HistoryType, Silent(h)
  PROVE  /\ history' \in HistoryType
         /\ history'.sent = "none" /\ history'.last = h.last
         /\ history'.after = h.after /\ history'.claims = h.claims
BY DEF Silent, HistoryType

LEMMA HearStep ==
  ASSUME AccessInv, Hear \/ GoQuiet
  PROVE  AccessInv'
<1>1. TypeOK /\ history \in HistoryType /\ NavCovers
  BY DEF AccessInv, TypeOK, HistoryType
<1>2. CASE HearCca \/ GoQuiet
  <2>1. PICK b \in BOOLEAN, hold \in Holds \cup {0} : OnCca(b, hold)
    BY <1>2, TimeAssumption DEF HearCca, GoQuiet
  <2>2. hold \in Nat
    BY TimeAssumption
  <2>3. UNCHANGED access /\ quiet' \in BOOLEAN
    BY <1>1, <1>2 DEF HearCca, GoQuiet, Hearing, TypeOK
  <2>4. busy' \in Nat /\ cca' \in BOOLEAN /\ UNCHANGED <<nav, rid, eifs, responses>>
    BY <1>1, <2>1, <2>2, LaterIsUpperBound DEF OnCca, TypeOK
  <2>5. /\ history' \in HistoryType /\ history'.sent = "none"
        /\ history'.last = history.last /\ history'.claims = history.claims
    BY <1>1, <2>1, SilentStep DEF OnCca
  <2>6. TypeOK'
    BY <1>1, <2>3, <2>4, <2>5 DEF TypeOK, HistoryType, access
  <2>7. NavCovers'
    BY <1>1, <2>4, <2>5 DEF NavCovers
  <2>8. QED
    BY <2>3, <2>5, <2>6, <2>7, HearingStep
<1>3. CASE HearPpduStart
  <2>1. UNCHANGED access /\ quiet' = quiet /\ busy' \in Nat
        /\ UNCHANGED <<cca, nav, rid, eifs, responses>>
    BY <1>1, <1>3, TimeAssumption, LaterIsUpperBound DEF HearPpduStart, Hearing, TypeOK
  <2>2. /\ history' \in HistoryType /\ history'.sent = "none"
        /\ history'.last = history.last /\ history'.claims = history.claims
    BY <1>1, <1>3, SilentStep DEF HearPpduStart
  <2>3. TypeOK'
    BY <1>1, <2>1, <2>2 DEF TypeOK, HistoryType, access
  <2>4. NavCovers'
    BY <1>1, <2>1, <2>2 DEF NavCovers
  <2>5. QED
    BY <2>1, <2>2, <2>3, <2>4, HearingStep
<1>4. CASE HearRxStart
  <2>1. PICK rest \in Remainders, length \in RidLengths \cup {0} :
          /\ busy' = Later(busy, rest)
          /\ rid'  = IF length > 0 THEN Later(rid, rest + length) ELSE rid
    BY <1>4 DEF HearRxStart
  <2>2. rest \in Nat /\ length \in Nat
    BY TimeAssumption
  <2>3. rest + length \in Nat
    BY <2>2
  <2>4. busy' \in Nat /\ rid' \in Nat
    BY <1>1, <2>1, <2>2, <2>3, LaterIsUpperBound DEF TypeOK
  <2>5. UNCHANGED access /\ quiet' = quiet /\ UNCHANGED <<cca, nav, eifs, responses>>
    BY <1>4 DEF HearRxStart, Hearing
  <2>6. /\ history' \in HistoryType /\ history'.sent = "none"
        /\ history'.last = history.last /\ history'.claims = history.claims
    BY <1>1, <1>4, SilentStep DEF HearRxStart
  <2>7. TypeOK'
    BY <1>1, <2>4, <2>5, <2>6 DEF TypeOK, HistoryType, access
  <2>8. NavCovers'
    BY <1>1, <2>5, <2>6 DEF NavCovers
  <2>9. QED
    BY <2>5, <2>6, <2>7, <2>8, HearingStep
<1>5. CASE HearFormatViolation
  <2>3. /\ history' \in HistoryType /\ history'.sent = "none"
        /\ history'.last = history.last /\ history'.claims = history.claims
    BY <1>1, <1>5, SilentStep DEF HearFormatViolation
  <2>4. UNCHANGED access /\ quiet' = quiet /\ eifs' = TRUE
        /\ UNCHANGED <<cca, busy, nav, rid, responses>>
    BY <1>5 DEF HearFormatViolation, Hearing
  <2>5. TypeOK'
    BY <1>1, <2>3, <2>4 DEF TypeOK, HistoryType, access
  <2>6. NavCovers'
    BY <1>1, <2>3, <2>4 DEF NavCovers
  <2>7. QED
    BY <2>3, <2>4, <2>5, <2>6, HearingStep
<1>6. CASE HearOther
  <2>1. PICK d \in Durations \cup {0} :
          /\ Claim(d)
          /\ Silent([history EXCEPT !.claims = @ \cup ({d} \ {0})])
    BY <1>6 DEF HearOther
  <2>2. d \in Nat
    BY TimeAssumption
  <2> DEFINE h == [history EXCEPT !.claims = @ \cup ({d} \ {0})]
  <2>3. h \in HistoryType /\ h.last = history.last
        /\ h.claims = history.claims \cup ({d} \ {0})
    BY <1>1, <2>2 DEF HistoryType
  <2>4. Silent(h)
    BY <2>1
  <2> HIDE DEF h
  <2>5. /\ history' \in HistoryType /\ history'.sent = "none"
        /\ history'.last = history.last
        /\ history'.claims = history.claims \cup ({d} \ {0})
    BY <2>3, <2>4, SilentStep
  <2>6. UNCHANGED access /\ quiet' = quiet /\ eifs' = FALSE
        /\ UNCHANGED <<cca, busy, rid, responses>>
    BY <1>6 DEF HearOther, Hearing
  <2>7. nav' \in Nat /\ nav <= nav' /\ d <= nav'
    BY <1>1, <2>1, <2>2, LaterIsUpperBound DEF Claim, TypeOK
  <2>8. TypeOK'
    BY <1>1, <2>5, <2>6, <2>7 DEF TypeOK, HistoryType, access
  <2>9. NavCovers'
    <3>1. nav \in Nat
      BY <1>1 DEF TypeOK
    <3>2. QED
      BY <1>1, <2>2, <2>5, <2>7, <3>1 DEF NavCovers
  <2>10. QED
    BY <2>5, <2>6, <2>8, <2>9, HearingStep
<1>7. CASE HearOwn
  <2>3. /\ history' \in HistoryType /\ history'.sent = "none"
        /\ history'.last = history.last /\ history'.claims = history.claims
    BY <1>1, <1>7, SilentStep DEF HearOwn
  <2>4. UNCHANGED access /\ quiet' = quiet /\ eifs' = FALSE /\ rid' = 0
        /\ UNCHANGED <<cca, busy, nav>>
        /\ responses' \in {responses, Sooner(responses + 1, MaxResponses)}
    BY <1>7 DEF HearOwn, Hearing
  <2>5. responses' \in 0 .. MaxResponses
    BY <1>1, <2>4, BatchAssumption DEF TypeOK, Sooner
  <2>6. TypeOK'
    BY <1>1, <2>3, <2>4, <2>5 DEF TypeOK, HistoryType, access
  <2>7. NavCovers'
    BY <1>1, <2>3, <2>4 DEF NavCovers
  <2>8. QED
    BY <2>3, <2>4, <2>6, <2>7, HearingStep
<1>8. CASE HearNdp
  <2>1. UNCHANGED access /\ quiet' = quiet /\ UNCHANGED <<cca, busy, eifs, responses>>
    BY <1>8 DEF HearNdp, Hearing
  <2>2. CASE \E d \in Durations :
               /\ Claim(d) /\ rid' = rid
               /\ Silent([history EXCEPT !.claims = @ \cup ({d} \ {0})])
    <3>1. PICK d \in Durations :
            /\ Claim(d) /\ rid' = rid
            /\ Silent([history EXCEPT !.claims = @ \cup ({d} \ {0})])
      BY <2>2
    <3>2. d \in Nat
      BY TimeAssumption
    <3> DEFINE h == [history EXCEPT !.claims = @ \cup ({d} \ {0})]
    <3>3. h \in HistoryType /\ h.last = history.last
          /\ h.claims = history.claims \cup ({d} \ {0})
      BY <1>1, <3>2 DEF HistoryType
    <3>4. Silent(h)
      BY <3>1
    <3> HIDE DEF h
    <3>5. /\ history' \in HistoryType /\ history'.sent = "none"
          /\ history'.last = history.last
          /\ history'.claims = history.claims \cup ({d} \ {0})
      BY <3>3, <3>4, SilentStep
    <3>6. nav \in Nat /\ nav' \in Nat /\ nav <= nav' /\ d <= nav'
      BY <1>1, <3>1, <3>2, LaterIsUpperBound DEF Claim, TypeOK
    <3>7. TypeOK'
      BY <1>1, <2>1, <3>1, <3>5, <3>6 DEF TypeOK, HistoryType, access
    <3>8. NavCovers'
      BY <1>1, <3>2, <3>5, <3>6 DEF NavCovers
    <3>9. QED
      BY <2>1, <3>5, <3>7, <3>8, HearingStep
  <2>3. CASE \E length \in RidLengths :
               rid' = Later(rid, length) /\ nav' = nav /\ Silent(history)
    <3>1. rid' \in Nat /\ nav' = nav
      BY <1>1, <2>3, TimeAssumption, LaterIsUpperBound DEF TypeOK
    <3>2. /\ history' \in HistoryType /\ history'.sent = "none"
          /\ history'.last = history.last /\ history'.claims = history.claims
      BY <1>1, <2>3, SilentStep
    <3>3. TypeOK'
      BY <1>1, <2>1, <3>1, <3>2 DEF TypeOK, HistoryType, access
    <3>4. NavCovers'
      BY <1>1, <3>1, <3>2 DEF NavCovers
    <3>5. QED
      BY <2>1, <3>2, <3>3, <3>4, HearingStep
  <2>4. QED
    BY <1>8, <2>2, <2>3 DEF HearNdp
<1>9. CASE HearAck
  <2>1. PICK legacy \in BOOLEAN :
          /\ \/ Finish /\ eifs' = (eifs /\ ~legacy)
             \/ \E window \in {CwMin, Wider} : Continue(window, eifs /\ ~legacy)
          /\ Silent(history)
    BY <1>9 DEF HearAck
  <2>4. /\ history' \in HistoryType /\ history'.sent = "none"
        /\ history'.last = history.last /\ history'.claims = history.claims
    BY <1>1, <2>1, SilentStep
  <2>5. UNCHANGED <<cca, busy, nav, rid, responses, quiet>> /\ state = "ack"
    BY <1>9 DEF HearAck
  <2>6. batch # "none" /\ batch # "group"
    BY <2>5 DEF AccessInv, StateMatchesBatch, GroupWindow
  <2>7. CASE Finish /\ eifs' = (eifs /\ ~legacy)
    <3>1. eifs' \in BOOLEAN
      BY <1>1, <2>7 DEF TypeOK
    <3>2. TypeOK'
      BY <1>1, <2>4, <2>5, <2>7, <3>1, WindowTyped DEF TypeOK, HistoryType, Finish
    <3>3. QED
      BY <1>1, <2>4, <2>5, <2>7, <3>2 DEF AccessInv, Finish, StateMatchesBatch,
         FreshWindow, NavCovers, HandshakeIsLatest, AttemptFlag, GroupWindow, AccessDefers,
         Access, LongDataFollowsRts
  <2>8. CASE \E window \in {CwMin, Wider} : Continue(window, eifs /\ ~legacy)
    <3>1. PICK window \in {CwMin, Wider} : Continue(window, eifs /\ ~legacy)
      BY <2>8
    <3>2. window \in CwMin .. CwMax
      BY <1>1, WindowTyped
    <3>3. timer' \in Nat /\ state' = "backoff" /\ eifs' = FALSE
      BY <1>1, <3>1, BackoffTyped DEF Continue, TypeOK
    <3>4. batch' \in {"short", "long"} /\ ctsOk' = FALSE /\ cw' = window
      BY <1>1, <2>6, <3>1 DEF Continue, TypeOK
    <3>5. TypeOK'
      BY <1>1, <2>4, <2>5, <3>2, <3>3, <3>4 DEF TypeOK, HistoryType
    <3>6. QED
      BY <1>1, <2>4, <2>5, <3>3, <3>4, <3>5 DEF AccessInv, StateMatchesBatch,
         FreshWindow, NavCovers, HandshakeIsLatest, AttemptFlag, GroupWindow, AccessDefers,
         Access, LongDataFollowsRts
  <2>9. QED
    BY <2>1, <2>7, <2>8
<1>10. CASE HearCts
  <2> DEFINE h == [history EXCEPT !.reserved = Reservation]
  <2>1. h \in HistoryType /\ h.last = history.last /\ h.claims = history.claims
    BY <1>1, TimeAssumption DEF HistoryType
  <2>2. Silent(h)
    BY <1>10 DEF HearCts
  <2> HIDE DEF h
  <2>3. /\ history' \in HistoryType /\ history'.sent = "none"
        /\ history'.last = history.last /\ history'.claims = history.claims
    BY <2>1, <2>2, SilentStep
  <2>4. /\ state = "cts" /\ ctsOk' = TRUE /\ state' = "backoff" /\ timer' = 0
        /\ UNCHANGED <<cca, busy, nav, rid, eifs, cw, batch, responses, quiet>>
    BY <1>10 DEF HearCts, medium
  <2>5. TypeOK'
    BY <1>1, <2>3, <2>4 DEF TypeOK, HistoryType
  <2>6. QED
    BY <1>1, <2>3, <2>4, <2>5 DEF AccessInv, StateMatchesBatch, FreshWindow,
       NavCovers, HandshakeIsLatest, AttemptFlag, GroupWindow, AccessDefers, Access,
       LongDataFollowsRts
<1>11. QED
  BY <1>2, <1>3, <1>4, <1>5, <1>6, <1>7, <1>8, <1>9, <1>10 DEF Hear

LEMMA PollStep ==
  ASSUME AccessInv, Poll
  PROVE  AccessInv'
<1>1. TypeOK /\ history \in HistoryType /\ NavCovers
  BY DEF AccessInv, TypeOK, HistoryType
<1>2. CASE PollResponse
  <2>1. /\ history' \in HistoryType /\ history'.sent = "response"
        /\ history'.last = history.last /\ history'.claims = history.claims
    BY <1>1, <1>2 DEF PollResponse, HistoryType
  <2>2. responses' \in 0 .. MaxResponses
    BY <1>1, <1>2, BatchAssumption DEF PollResponse, TypeOK
  <2>3. UNCHANGED access /\ UNCHANGED <<cca, busy, nav, rid, eifs, quiet>>
    BY <1>2 DEF PollResponse, medium
  <2>4. TypeOK'
    BY <1>1, <2>1, <2>2, <2>3 DEF TypeOK, HistoryType, access
  <2>5. NavCovers'
    BY <1>1, <2>1, <2>3 DEF NavCovers
  <2>6. QED
    BY <2>1, <2>3, <2>4, <2>5, HearingStep
<1>3. ASSUME NEW window, window = CwMin, Pull(window), Silent(history),
             UNCHANGED <<cca, busy, nav, rid, responses, quiet>>
      PROVE  AccessInv'
  <2>1. timer' \in Nat /\ state' = "backoff" /\ eifs' = FALSE
    BY <1>1, <1>3, BackoffTyped DEF Pull, TypeOK
  <2>2. batch' \in {"group", "short", "long"} /\ ctsOk' = FALSE /\ cw' = window
    BY <1>3, BatchAssumption DEF Pull
  <2>3. /\ history' \in HistoryType /\ history'.sent = "none"
        /\ history'.last = history.last /\ history'.claims = history.claims
    BY <1>1, <1>3, SilentStep
  <2>4. TypeOK'
    BY <1>1, <1>3, <2>1, <2>2, <2>3, WindowTyped DEF TypeOK, HistoryType
  <2>5. QED
    BY <1>1, <1>3, <2>1, <2>2, <2>3, <2>4 DEF AccessInv, StateMatchesBatch,
       FreshWindow, NavCovers, HandshakeIsLatest, AttemptFlag, GroupWindow,
       AccessDefers, Access, LongDataFollowsRts
<1>4. CASE PollPull
  <2>1. cw = CwMin
    BY <1>4 DEF PollPull, AccessInv, StateMatchesBatch, FreshWindow
  <2>2. QED
    BY <1>3, <1>4, <2>1 DEF PollPull
<1>5. CASE PollTimeout
  <2>1. /\ UNCHANGED <<cca, busy, nav, rid, responses, quiet>>
        /\ Silent(history) /\ state \in {"cts", "ack"}
    BY <1>5 DEF PollTimeout
  <2>2. /\ history' \in HistoryType /\ history'.sent = "none"
        /\ history'.last = history.last /\ history'.claims = history.claims
    BY <1>1, <2>1, SilentStep
  <2>3. batch # "none" /\ batch # "group"
    BY <2>1 DEF AccessInv, StateMatchesBatch, GroupWindow
  <2>4. CASE Finish /\ eifs' = eifs
    <3>1. TypeOK'
      BY <1>1, <2>1, <2>2, <2>4, WindowTyped DEF TypeOK, HistoryType, Finish
    <3>2. QED
      BY <1>1, <2>1, <2>2, <2>4, <3>1 DEF AccessInv, Finish, StateMatchesBatch,
         FreshWindow, NavCovers, HandshakeIsLatest, AttemptFlag, GroupWindow, AccessDefers,
         Access, LongDataFollowsRts
  <2>5. CASE Pull(CwMin)
    BY <1>1, <1>3, <2>1, <2>5, WindowTyped
  <2>6. CASE Continue(Wider, eifs)
    <3>1. Wider \in CwMin .. CwMax
      BY <1>1, WindowTyped
    <3>2. timer' \in Nat /\ state' = "backoff" /\ eifs' = FALSE
      BY <1>1, <2>6, BackoffTyped DEF Continue, TypeOK
    <3>3. batch' \in {"short", "long"} /\ ctsOk' = FALSE /\ cw' = Wider
      BY <1>1, <2>3, <2>6 DEF Continue, TypeOK
    <3>4. TypeOK'
      BY <1>1, <2>1, <2>2, <3>1, <3>2, <3>3 DEF TypeOK, HistoryType
    <3>5. QED
      BY <1>1, <2>1, <2>2, <3>2, <3>3, <3>4 DEF AccessInv, StateMatchesBatch,
         FreshWindow, NavCovers, HandshakeIsLatest, AttemptFlag, GroupWindow, AccessDefers,
         Access, LongDataFollowsRts
  <2>7. QED
    BY <1>5, <2>4, <2>5, <2>6 DEF PollTimeout
<1>6. CASE PollBusy
  <2>1. /\ UNCHANGED <<cca, busy, nav, rid, cw, batch, ctsOk, responses, quiet>>
        /\ state = "backoff"
    BY <1>6 DEF PollBusy, Expired
  <2>2. timer' \in Nat /\ state' = "backoff" /\ eifs' = FALSE
    BY <1>1, <1>6, BackoffTyped DEF PollBusy, TypeOK
  <2>3. /\ history' \in HistoryType /\ history'.sent = "none"
        /\ history'.last = history.last /\ history'.claims = history.claims
    BY <1>1, <1>6, SilentStep DEF PollBusy
  <2>4. TypeOK'
    BY <1>1, <2>1, <2>2, <2>3 DEF TypeOK, HistoryType
  <2>5. QED
    BY <1>1, <2>1, <2>2, <2>3, <2>4 DEF AccessInv, StateMatchesBatch,
       FreshWindow, NavCovers, HandshakeIsLatest, AttemptFlag, GroupWindow,
       AccessDefers, Access, LongDataFollowsRts
<1>7. ASSUME NEW kind \in {"rts", "data"}, Accessed(kind)
      PROVE  /\ history' \in HistoryType /\ history'.sent = kind
             /\ history'.last = kind /\ history'.after = history.last
             /\ history'.claims = history.claims
  BY <1>1, <1>7 DEF Accessed, HistoryType
<1>8. ~MediumBusy => history.claims = {}
  <2>1. ~MediumBusy => ~(nav > 0)
    BY DEF MediumBusy
  <2>2. QED
    BY <1>1, <2>1 DEF NavCovers, TypeOK
<1>9. CASE PollRts
  <2>1. /\ UNCHANGED <<cca, busy, nav, rid, eifs, cw, batch, ctsOk, responses, quiet>>
        /\ ~MediumBusy /\ batch = "long" /\ ctsOk = FALSE
        /\ state' = "cts" /\ timer' = Airtime + Timeout
    BY <1>1, <1>9 DEF PollRts, Expired, medium, TypeOK
  <2>2. /\ history' \in HistoryType /\ history'.sent = "rts"
        /\ history'.last = "rts" /\ history'.claims = history.claims
    BY <1>7, <1>9 DEF PollRts
  <2>3. TypeOK'
    BY <1>1, <2>1, <2>2, TimeAssumption DEF TypeOK, HistoryType
  <2>4. ~MediumBusy'
    BY <2>1 DEF MediumBusy
  <2>5. QED
    BY <1>1, <1>8, <2>1, <2>2, <2>3, <2>4 DEF AccessInv, StateMatchesBatch,
       FreshWindow, NavCovers, HandshakeIsLatest, AttemptFlag, GroupWindow,
       AccessDefers, Access, LongDataFollowsRts
<1>10. CASE PollData
  <2>1. /\ UNCHANGED <<cca, busy, nav, rid, eifs, cw, responses, quiet>>
        /\ ~MediumBusy /\ state = "backoff" /\ (batch = "long" => ctsOk)
    BY <1>10 DEF PollData, Expired, medium
  <2>2. /\ history' \in HistoryType /\ history'.sent = "data"
        /\ history'.last = "data" /\ history'.after = history.last
        /\ history'.claims = history.claims
    BY <1>7, <1>10 DEF PollData
  <2>3. ~MediumBusy'
    BY <2>1 DEF MediumBusy
  <2>4. CASE batch = "group"
    <3>1. /\ batch' = "none" /\ state' = "idle" /\ timer' = 0 /\ ctsOk' = FALSE
      BY <1>10, <2>4 DEF PollData
    <3>2. TypeOK'
      BY <1>1, <2>1, <2>2, <3>1 DEF TypeOK, HistoryType
    <3>3. cw = CwMin
      BY <2>4 DEF AccessInv, GroupWindow
    <3>4. QED
      BY <1>1, <1>8, <2>1, <2>2, <2>3, <3>1, <3>2, <3>3 DEF AccessInv,
         StateMatchesBatch, FreshWindow, NavCovers, HandshakeIsLatest,
         AttemptFlag, GroupWindow, AccessDefers, Access, LongDataFollowsRts
  <2>5. CASE batch # "group"
    <3>1. /\ batch' = batch /\ state' = "ack" /\ timer' = Airtime + Timeout
          /\ ctsOk' = ctsOk
      BY <1>10, <2>5 DEF PollData
    <3>2. batch # "none"
      BY <2>1 DEF AccessInv, StateMatchesBatch
    <3>3. TypeOK'
      BY <1>1, <2>1, <2>2, <3>1, TimeAssumption DEF TypeOK, HistoryType
    <3>4. batch = "long" => history.last = "rts"
      BY <2>1 DEF AccessInv, HandshakeIsLatest
    <3>5. QED
      BY <1>1, <1>8, <2>1, <2>2, <2>3, <2>5, <3>1, <3>2, <3>3, <3>4 DEF AccessInv,
         StateMatchesBatch, FreshWindow, NavCovers, HandshakeIsLatest,
         AttemptFlag, GroupWindow, AccessDefers, Access, LongDataFollowsRts
  <2>6. QED
    BY <2>4, <2>5
<1>11. QED
  BY <1>2, <1>4, <1>5, <1>6, <1>9, <1>10 DEF Poll

LEMMA TickStep ==
  ASSUME AccessInv, Tick
  PROVE  AccessInv'
<1>1. TypeOK /\ history \in HistoryType /\ NavCovers
  BY DEF AccessInv, TypeOK, HistoryType
<1>2. /\ busy \in Nat /\ nav \in Nat /\ rid \in Nat /\ timer \in Nat
      /\ history.claims \in SUBSET Nat
      /\ history.reserved \in Nat /\ history.idle \in Nat
  BY <1>1 DEF TypeOK, HistoryType
<1>3. busy' \in Nat /\ nav' \in Nat /\ rid' \in Nat /\ timer' \in Nat
  BY <1>2, ElapsedIsNat DEF Tick
<1> DEFINE claims == {Elapsed(d) : d \in history.claims} \ {0}
           idle == IF MediumBusy THEN 0 ELSE Sooner(history.idle + 1, Difs)
<1>4. claims \in SUBSET Nat
  BY <1>2, ElapsedIsNat
<1>5. idle \in Nat
  BY <1>2, TimeAssumption DEF Sooner
<1>6. Elapsed(history.reserved) \in Nat
  BY <1>2, ElapsedIsNat
<1>7. history' = [history EXCEPT !.sent = "none",
                    !.reserved = Elapsed(history.reserved),
                    !.claims = claims, !.idle = idle]
  BY <1>1 DEF Tick, HistoryType
<1>8. ASSUME NEW d \in claims PROVE d \in Nat /\ 0 < d /\ d <= nav'
  <2>1. PICK e \in history.claims : d = Elapsed(e) /\ d # 0
    OBVIOUS
  <2>2. e \in Nat /\ 0 < e /\ e <= nav
    BY <1>1, <2>1 DEF NavCovers
  <2>3. d = e - 1 /\ nav' = nav - 1
    BY <1>2, <2>1, <2>2, ElapsedIsNat DEF Tick, Elapsed
  <2>4. QED
    BY <1>2, <2>1, <2>2, <2>3
<1> HIDE DEF claims, idle
<1>9. /\ history' \in HistoryType /\ history'.sent = "none"
      /\ history'.last = history.last /\ history'.claims = claims
  BY <1>1, <1>4, <1>5, <1>6, <1>7 DEF HistoryType
<1>10. UNCHANGED <<cca, eifs, cw, batch, ctsOk, state, responses, quiet>>
  BY DEF Tick
<1>11. TypeOK'
  BY <1>1, <1>3, <1>9, <1>10 DEF TypeOK, HistoryType
<1>12. NavCovers'
  BY <1>8, <1>9 DEF NavCovers
<1>13. QED
  BY <1>9, <1>10, <1>11, <1>12 DEF AccessInv, StateMatchesBatch, FreshWindow,
     HandshakeIsLatest, AttemptFlag, GroupWindow, AccessDefers, Access,
     LongDataFollowsRts

-----------------------------------------------------------------------------
THEOREM AccessInvariant == Spec => []AccessInv
<1>1. ASSUME AccessInv, [Next]_vars PROVE AccessInv'
  <2>1. CASE UNCHANGED vars
    BY <1>1, <2>1 DEF vars, medium, access, AccessInv, TypeOK, StateMatchesBatch,
       FreshWindow, NavCovers, HandshakeIsLatest, AttemptFlag, GroupWindow,
       AccessDefers, Access, LongDataFollowsRts, MediumBusy
  <2>2. QED
    BY <1>1, <2>1, HearStep, PollStep, TickStep DEF Next
<1>2. QED
  BY <1>1, AccessInvInit, PTL DEF Spec

(* Timers, window and state stay in their ranges. *)
THEOREM TypesHold == Spec => []TypeOK
<1>1. AccessInv => TypeOK
  BY DEF AccessInv
<1>2. QED
  BY <1>1, AccessInvariant, PTL

(* One NAV register is enough to respect any number of overlapping         *)
(* reservations: no access begins before the last of them has ended.       *)
THEOREM AccessesDefer == Spec => []AccessDefers
<1>1. AccessInv => AccessDefers
  BY DEF AccessInv
<1>2. QED
  BY <1>1, AccessInvariant, PTL

(* However responses, timeouts and redrawn backoffs interleave, no data    *)
(* PPDU above the threshold is sent without an RTS of its own.             *)
THEOREM LongDataIsProtected == Spec => []LongDataFollowsRts
<1>1. AccessInv => LongDataFollowsRts
  BY DEF AccessInv
<1>2. QED
  BY <1>1, AccessInvariant, PTL

(* Each batch starts with the smallest contention window. *)
THEOREM WindowIsFresh == Spec => []FreshWindow
<1>1. AccessInv => FreshWindow
  BY DEF AccessInv
<1>2. QED
  BY <1>1, AccessInvariant, PTL

(* The transmit state and the batch never disagree. *)
THEOREM StatesAgree == Spec => []StateMatchesBatch
<1>1. AccessInv => StateMatchesBatch
  BY DEF AccessInv
<1>2. QED
  BY <1>1, AccessInvariant, PTL

=============================================================================
