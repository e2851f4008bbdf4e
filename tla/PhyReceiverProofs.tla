-------------------------- MODULE PhyReceiverProofs --------------------------
(***************************************************************************)
(* Proofs about PhyReceiver, for any windows, strides, chunks and lengths  *)
(* of stream.  CcaIsTheFlags and RxEndForRxStart are inductive as they     *)
(* stand; that nothing needed is trimmed rests on the bound of the drift.  *)
(* For IdleAfterHold one has to know that no hold is left once a PPDU has  *)
(* been triggered (NoHoldInPpdu): the search goes on behind it.            *)
(***************************************************************************)
EXTENDS PhyReceiver, TLAPS

LEMMA MaxOfIsUpperBound ==
  ASSUME NEW a \in Int, NEW b \in Int
  PROVE  /\ MaxOf(a, b) \in {a, b} /\ MaxOf(a, b) \in Int
         /\ a <= MaxOf(a, b) /\ b <= MaxOf(a, b)
BY DEF MaxOf

LEMMA MinOfIsLowerBound ==
  ASSUME NEW a \in Int, NEW b \in Int
  PROVE  /\ MinOf(a, b) \in {a, b} /\ MinOf(a, b) \in Int
         /\ MinOf(a, b) <= a /\ MinOf(a, b) <= b
BY DEF MinOf

-----------------------------------------------------------------------------
(* Types. *)

(* What is told of CCA and held is well typed. *)
CcaTyped ==
  /\ hold \in Int /\ hold >= None
  /\ ccaBusy \in BOOLEAN
  /\ told \in [busy : BOOLEAN, at : Int, promise : Int]

FlagsTyped == edBusy \in BOOLEAN /\ midBusy \in BOOLEAN /\ inPpdu \in BOOLEAN /\ open \in BOOLEAN

LEMMA TypesUnfold == TypeOK => CcaTyped /\ FlagsTyped
BY DEF TypeOK, CcaTyped, FlagsTyped

LEMMA UpdateCcaTyped ==
  ASSUME CcaTyped, FlagsTyped', NEW at \in Int, UpdateCca(at)
  PROVE  CcaTyped'
<1>1. hold' \in Int /\ hold' >= None
  BY DEF UpdateCca, HoldAt, CcaTyped, None
<1>2. ccaBusy' \in BOOLEAN
  BY Zenon DEF UpdateCca, FlagsTyped
<1>3. MaxOf(told.promise, hold') \in Int
  BY <1>1, MaxOfIsUpperBound DEF CcaTyped
<1>4. told' = told \/ \E b \in BOOLEAN, p \in Int : told' = [busy |-> b, at |-> at, promise |-> p]
  <2>1. told.promise \in Int
    BY DEF CcaTyped
  <2>2. CASE ccaBusy' = ccaBusy
    BY <2>2 DEF UpdateCca
  <2>3. CASE ccaBusy' # ccaBusy
    <3>1. told' = [busy |-> ccaBusy', at |-> at,
                   promise |-> IF ccaBusy' THEN MaxOf(told.promise, hold') ELSE told.promise]
      BY <2>3, Zenon DEF UpdateCca
    <3>2. (IF ccaBusy' THEN MaxOf(told.promise, hold') ELSE told.promise) \in Int
      BY <2>1, <1>3
    <3>3. QED
      BY <3>1, <3>2, <1>2
  <2>4. QED
    BY <2>2, <2>3
<1>5. told' \in [busy : BOOLEAN, at : Int, promise : Int]
  BY <1>4 DEF CcaTyped
<1>6. QED
  BY <1>1, <1>2, <1>5 DEF CcaTyped

LEMMA RearmTyped ==
  ASSUME CcaTyped, FlagsTyped, NEW at \in Int, NEW scanFrom, NEW until \in Int, until >= None,
         edBusy' = edBusy, midBusy' = midBusy, open' \in BOOLEAN, Rearm(at, scanFrom, until)
  PROVE  CcaTyped' /\ FlagsTyped' /\ st' = Search /\ scanAbs' = scanFrom
<1>1. FlagsTyped' /\ st' = Search /\ scanAbs' = scanFrom
  BY Zenon DEF Rearm, FlagsTyped
<1>2. CASE until > at
  <2>1. hold' = MaxOf(hold, until) /\ ccaBusy' = TRUE
    BY <1>2 DEF Rearm
  <2>2. hold' \in Int /\ hold' >= None
    BY <2>1, MaxOfIsUpperBound DEF CcaTyped, None
  <2>3. told' = [busy |-> TRUE, at |-> at, promise |-> MaxOf(told.promise, until)]
    BY <1>2 DEF Rearm
  <2>4. told.promise \in Int
    BY DEF CcaTyped
  <2>5. MaxOf(told.promise, until) \in Int
    BY <2>4, MaxOfIsUpperBound
  <2>6. QED
    BY <1>1, <2>1, <2>2, <2>3, <2>5 DEF CcaTyped
<1>3. CASE ~(until > at)
  <2>1. UpdateCca(at)
    BY <1>3 DEF Rearm
  <2>2. QED
    BY <1>1, <2>1, UpdateCcaTyped
<1>4. QED
  BY <1>2, <1>3

(* What the states of the pipeline carry. *)
LEMMA StateFields ==
  ASSUME st \in State
  PROVE  /\ st.kind \in {"search", "ltf", "sig", "long", "data"}
         /\ st.kind = "ltf" => st.trig \in Position
         /\ st.kind = "sig" => st.anchor \in Position
         /\ st.kind = "long" => st.anchor \in Position /\ st.nSym \in SymCounts
         /\ st.kind = "data" =>
              st \in [kind : {"data"}, start : Nat, nSym : SymCounts, n : Nat,
                      lostRun : 0 .. CarrierLost - 1, shift : -MaxShift .. MaxShift, end : Nat]
BY DEF State, Search, LtfSync, Sig

LEMMA DataIsState ==
  ASSUME NEW start \in Nat, NEW n \in SymCounts
  PROVE  Data(start, n) \in State
<1>1. start + n * Symbol \in Nat
  BY WindowAssumption, SignalAssumption
<1>2. 0 \in 0 .. CarrierLost - 1 /\ 0 \in -MaxShift .. MaxShift
  BY WindowAssumption
<1>3. QED
  BY <1>1, <1>2 DEF Data, State

LEMMA TrimmedTyped ==
  ASSUME TypeOK, NEW keep \in Int
  PROVE  /\ Trimmed(keep) \in 0 .. total /\ bufAbs <= Trimmed(keep)
         /\ Trimmed(keep) <= bufAbs \/ Trimmed(keep) <= keep - TrimSlack
<1>1. bufAbs \in Nat /\ total \in Nat /\ bufAbs <= total /\ keep - TrimSlack \in Int
  BY WindowAssumption DEF TypeOK
<1>2. /\ MinOf(keep - TrimSlack, total) \in Int
      /\ MinOf(keep - TrimSlack, total) <= keep - TrimSlack
      /\ MinOf(keep - TrimSlack, total) <= total
  BY <1>1 DEF MinOf
<1>3. /\ Trimmed(keep) \in {bufAbs, MinOf(keep - TrimSlack, total)}
      /\ bufAbs <= Trimmed(keep)
  BY <1>1, <1>2 DEF Trimmed, MaxOf
<1>4. QED
  BY <1>1, <1>2, <1>3

(* The parts of TypeOK that are not about CCA. *)
PlacesTyped ==
  /\ total \in 0 .. Horizon /\ bufAbs \in 0 .. total
  /\ scanAbs \in Nat /\ edAbs \in Nat /\ midAbs \in Nat
  /\ floorEnd \in Nat /\ floorLen \in 0 .. 1 /\ quiet \in QuietFrom

PhaseTyped == pc \in {"idle", "energy", "expire", "pipeline", "mid"}

LEMMA TypesFold == TypeOK <=> PhaseTyped /\ PlacesTyped /\ st \in State /\ CcaTyped /\ FlagsTyped
<1>1. TypeOK => PhaseTyped /\ PlacesTyped /\ st \in State /\ CcaTyped /\ FlagsTyped
  BY DEF TypeOK, PhaseTyped, PlacesTyped, CcaTyped, FlagsTyped
<1>2. PhaseTyped /\ PlacesTyped /\ st \in State /\ CcaTyped /\ FlagsTyped => TypeOK
  BY DEF TypeOK, PhaseTyped, PlacesTyped, CcaTyped, FlagsTyped
<1>3. QED
  BY <1>1, <1>2

LEMMA TypeInit == Init => TypeOK
<1> SUFFICES ASSUME Init PROVE TypeOK
  OBVIOUS
<1>1. CcaTyped
  <2>1. None \in Int /\ hold = None /\ ccaBusy = FALSE /\ told = [busy |-> FALSE, at |-> 0, promise |-> None]
    BY DEF Init, None
  <2>2. told \in [busy : BOOLEAN, at : Int, promise : Int]
    BY <2>1
  <2>3. hold >= None
    BY <2>1
  <2>4. QED
    BY <2>1, <2>2, <2>3 DEF CcaTyped
<1>2. FlagsTyped /\ PhaseTyped
  BY DEF Init, FlagsTyped, PhaseTyped
<1>3. PlacesTyped /\ st \in State
  BY WindowAssumption DEF Init, PlacesTyped, State, Search
<1>4. QED
  BY <1>1, <1>2, <1>3, TypesFold

LEMMA TypeStep ==
  ASSUME TypeOK, Next
  PROVE  TypeOK'
<1> USE DEF vars, stream, buffer, floor, energy, mid, cca
<1>0. PhaseTyped /\ PlacesTyped /\ st \in State /\ CcaTyped /\ FlagsTyped
  BY TypesFold
<1>A. SUFFICES PhaseTyped' /\ PlacesTyped' /\ st' \in State /\ CcaTyped' /\ FlagsTyped'
  BY DEF TypeOK, PhaseTyped, PlacesTyped, CcaTyped, FlagsTyped
<1>1. ASSUME NEW k \in Chunks, PushSamples(k)
      PROVE  PhaseTyped' /\ PlacesTyped' /\ st' \in State /\ CcaTyped' /\ FlagsTyped'
  <2>1. k \in Nat
    BY SignalAssumption
  <2>2. PlacesTyped'
    BY <1>0, <1>1, <2>1, WindowAssumption DEF PushSamples, PlacesTyped, MaxOf
  <2>3. QED
    BY <1>0, <1>1, <2>2 DEF PushSamples, PhaseTyped, CcaTyped, FlagsTyped
<1>2. ASSUME NEW high \in BOOLEAN, EnergyWindow(high)
      PROVE  PhaseTyped' /\ PlacesTyped' /\ st' \in State /\ CcaTyped' /\ FlagsTyped'
  <2>1. edAbs + EdWindow \in Nat
    BY <1>0, WindowAssumption DEF PlacesTyped
  <2>2. PlacesTyped'
    BY <1>0, <1>2, WindowAssumption DEF EnergyWindow, TrackFloor, PlacesTyped
  <2>3. FlagsTyped'
    <3>1. edBusy' \in BOOLEAN
      BY <1>2, Zenon DEF EnergyWindow
    <3>2. midBusy' = midBusy /\ inPpdu' = inPpdu /\ open' = open
      BY <1>2, Zenon DEF EnergyWindow
    <3>3. QED
      BY <1>0, <3>1, <3>2 DEF FlagsTyped
  <2>4. CcaTyped'
    <3>1. CASE UpdateCca(edAbs + EdWindow)
      BY <1>0, <2>1, <2>3, <3>1, UpdateCcaTyped
    <3>2. CASE UNCHANGED cca
      BY <1>0, <3>2 DEF CcaTyped
    <3>3. QED
      BY <1>2, <3>1, <3>2, Zenon DEF EnergyWindow
  <2>5. QED
    BY <1>0, <1>2, <2>2, <2>3, <2>4 DEF EnergyWindow, PhaseTyped
<1>3. CASE EnergyDone
  BY <1>0, <1>3 DEF EnergyDone, PhaseTyped, PlacesTyped, CcaTyped, FlagsTyped
<1>4. CASE ExpireHold
  <2>1. FlagsTyped' /\ PlacesTyped' /\ PhaseTyped' /\ st' \in State
    BY <1>0, <1>4 DEF ExpireHold, FlagsTyped, PlacesTyped, PhaseTyped
  <2>2. CASE UpdateCca(hold)
    <3>1. hold \in Int
      BY <1>0 DEF CcaTyped
    <3>2. QED
      BY <1>0, <2>1, <2>2, <3>1, UpdateCcaTyped
  <2>3. CASE UNCHANGED cca
    BY <1>0, <2>1, <2>3 DEF CcaTyped
  <2>4. QED
    BY <1>4, <2>2, <2>3 DEF ExpireHold
<1>5. ASSUME NEW p \in StfCandidates, StfFound(p)
      PROVE  PhaseTyped' /\ PlacesTyped' /\ st' \in State /\ CcaTyped' /\ FlagsTyped'
  <2>1. p \in Position
    BY <1>0, WindowAssumption DEF StfCandidates, ScanFrom, MaxOf, Position, PlacesTyped
  <2>2. FlagsTyped' /\ PlacesTyped' /\ PhaseTyped' /\ st' \in State
    BY <1>0, <1>5, <2>1 DEF StfFound, FlagsTyped, PlacesTyped, PhaseTyped, State
  <2>3. p \in Int /\ UpdateCca(p)
    BY <2>1, <1>5, WindowAssumption DEF StfFound, Position
  <2>4. QED
    BY <1>0, <2>2, <2>3, UpdateCcaTyped
<1>6. CASE StfNotFound
  <2>1. /\ scanAbs' \in Nat
        /\ MinOf(scanAbs', MaxOf(total - MidWindow, 0)) \in Int
        /\ bufAbs' = Trimmed(MinOf(scanAbs', MaxOf(total - MidWindow, 0)))
    BY <1>0, <1>6, WindowAssumption DEF StfNotFound, PlacesTyped, MaxOf, MinOf
  <2>2. bufAbs' \in 0 .. total
    BY <2>1, TrimmedTyped
  <2>3. QED
    BY <1>0, <1>6, <2>1, <2>2 DEF StfNotFound, PhaseTyped, PlacesTyped, CcaTyped, FlagsTyped
<1>7. CASE LtfFound
  <2>1. PICK d \in LtsStarts : st' = Sig(st.trig + d)
    BY <1>7 DEF LtfFound, LtsCandidates
  <2>2. st.trig + d \in Position
    BY <1>0, <1>7, StateFields, WindowAssumption, SignalAssumption
       DEF LtfFound, Proceed, Buffered, Position, PlacesTyped
  <2>3. st' \in State
    BY <2>1, <2>2 DEF State
  <2>4. QED
    BY <1>0, <1>7, <2>3 DEF LtfFound, PhaseTyped, PlacesTyped, CcaTyped, FlagsTyped
<1>8. CASE LtfNotFound
  <2>1. st.trig \in Nat
    BY <1>0, <1>8, StateFields, WindowAssumption DEF LtfNotFound, Position
  <2>2. /\ st.trig + FalseAlarmSkip \in Nat /\ None \in Int /\ None >= None
        /\ st.trig + FalseAlarmSkip \in Int
    BY <2>1, WindowAssumption DEF None
  <2>3. open' \in BOOLEAN /\ edBusy' = edBusy /\ midBusy' = midBusy
    BY <1>0, <1>8 DEF LtfNotFound, FlagsTyped
  <2>4. CcaTyped' /\ FlagsTyped' /\ st' = Search /\ scanAbs' = st.trig + FalseAlarmSkip
    BY <1>0, <1>8, <2>2, <2>3, RearmTyped DEF LtfNotFound
  <2>5. QED
    BY <1>0, <1>8, <2>2, <2>4 DEF LtfNotFound, PhaseTyped, PlacesTyped, State
<1>9. CASE LtfWait \/ SigWait \/ LongPreambleWait \/ DataWait
  BY <1>0, <1>9 DEF LtfWait, SigWait, LongPreambleWait, DataWait, Wait, PhaseTyped, PlacesTyped, CcaTyped, FlagsTyped
<1>10. CASE SigReady /\ Signal /\ ~SigWait
  <2>1. /\ st.anchor \in Nat /\ SigEnd \in Nat /\ SigEnd \in Int /\ None \in Int /\ None >= None
    BY <1>0, <1>10, StateFields, WindowAssumption DEF SigReady, SigEnd, Position, None
  <2>2. ASSUME NEW until \in Int, until >= None, NEW scan \in Nat,
               edBusy' = edBusy, midBusy' = midBusy, Rearm(SigEnd, scan, until),
               UNCHANGED <<pc, stream, bufAbs, edAbs, floor, midAbs, open>>
        PROVE  PhaseTyped' /\ PlacesTyped' /\ st' \in State /\ CcaTyped' /\ FlagsTyped'
    <3>1. open' \in BOOLEAN
      BY <1>0, <2>2 DEF FlagsTyped
    <3>2. CcaTyped' /\ FlagsTyped' /\ st' = Search /\ scanAbs' = scan
      BY <1>0, <2>1, <2>2, <3>1, RearmTyped
    <3>3. QED
      BY <1>0, <2>2, <3>2 DEF PhaseTyped, PlacesTyped, State
  <2>3. CASE SigNdp
    BY <2>1, <2>2, <2>3 DEF SigNdp
  <2>4. ASSUME NEW d \in Durations, SigUnsupported(d)
        PROVE  PhaseTyped' /\ PlacesTyped' /\ st' \in State /\ CcaTyped' /\ FlagsTyped'
    <3>1. PpduEnd(d) \in Nat /\ PpduEnd(d) \in Int /\ PpduEnd(d) >= None
      BY <2>1, SignalAssumption, WindowAssumption DEF PpduEnd, None
    <3>2. QED
      BY <2>2, <2>4, <3>1 DEF SigUnsupported
  <2>5. CASE SigBad
    BY <2>1, <2>2, <2>5 DEF SigBad
  <2>6. ASSUME NEW n \in SymCounts, NEW long \in BOOLEAN, SigSupported(n, long)
        PROVE  PhaseTyped' /\ PlacesTyped' /\ st' \in State /\ CcaTyped' /\ FlagsTyped'
    <3>1. Data(SigEnd, n) \in State
      BY <2>1, DataIsState
    <3>2. LongPreamble(st.anchor, n) \in State
      BY <1>0, <1>10, StateFields DEF LongPreamble, State, SigReady
    <3>3. st' \in State
      BY <2>6, <3>1, <3>2 DEF SigSupported
    <3>4. QED
      BY <1>0, <2>6, <3>3 DEF SigSupported, PhaseTyped, PlacesTyped, CcaTyped, FlagsTyped
  <2>7. QED
    BY <1>10, <2>3, <2>4, <2>5, <2>6 DEF Signal
<1>11. CASE LongPreambleDone
  <2>1. st.nSym \in SymCounts /\ BeamStart + LongPortion \in Nat
    BY <1>0, <1>11, StateFields, WindowAssumption DEF LongPreambleDone, BeamStart, Position
  <2>2. st' \in State
    BY <1>11, <2>1, DataIsState DEF LongPreambleDone
  <2>3. QED
    BY <1>0, <1>11, <2>2 DEF LongPreambleDone, PhaseTyped, PlacesTyped, CcaTyped, FlagsTyped
<1>12. ASSUME NEW lost \in BOOLEAN, NEW d \in -1 .. 1, DataSymbol(lost, d)
       PROVE  PhaseTyped' /\ PlacesTyped' /\ st' \in State /\ CcaTyped' /\ FlagsTyped'
  <2> DEFINE run == IF lost THEN st.lostRun + 1 ELSE 0
  <2>1. st \in [kind : {"data"}, start : Nat, nSym : SymCounts, n : Nat,
                lostRun : 0 .. CarrierLost - 1, shift : -MaxShift .. MaxShift, end : Nat]
    BY <1>0, <1>12, StateFields DEF DataSymbol, SymbolReady
  <2>2. run \in 0 .. CarrierLost - 1
    BY <1>12, <2>1, WindowAssumption DEF DataSymbol
  <2>3. st.n + 1 \in Nat /\ st.shift + d \in -MaxShift .. MaxShift
    BY <1>12, <2>1 DEF DataSymbol, Drifts
  <2>4. st' = [st EXCEPT !.n = @ + 1, !.lostRun = run, !.shift = @ + d]
    BY <1>12 DEF DataSymbol
  <2>5. st' \in State
    BY <2>1, <2>2, <2>3, <2>4 DEF State
  <2>6. Symbol * st.n \in Int
    BY <2>1, WindowAssumption
  <2>7. st.start + Symbol * st.n \in Int
    BY <2>1, <2>6
  <2>8. bufAbs' \in 0 .. total
    BY <1>12, <2>7, TrimmedTyped DEF DataSymbol
  <2>9. QED
    BY <1>0, <1>12, <2>5, <2>8 DEF DataSymbol, PhaseTyped, PlacesTyped, CcaTyped, FlagsTyped
<1>13. ASSUME SymbolReady, edBusy' = edBusy, midBusy' = midBusy, open' = FALSE,
              UNCHANGED <<pc, stream, bufAbs, edAbs, floor, midAbs>>,
              Rearm(st.end, st.end, None) \/ Rearm(Payload, st.end, st.end)
       PROVE  PhaseTyped' /\ PlacesTyped' /\ st' \in State /\ CcaTyped' /\ FlagsTyped'
  <2>1. /\ st.end \in Nat /\ st.start \in Nat /\ st.n \in Nat /\ st.shift \in Int
    BY <1>0, <1>13, StateFields, WindowAssumption DEF SymbolReady
  <2>2. st.n * Symbol \in Int
    BY <2>1, WindowAssumption
  <2>3. Payload \in Int /\ None \in Int /\ None >= None /\ st.end \in Int /\ st.end >= None
    BY <2>1, <2>2 DEF Payload, None
  <2>4. open' \in BOOLEAN
    BY <1>13
  <2>5. CcaTyped' /\ FlagsTyped' /\ st' = Search /\ scanAbs' = st.end
    BY <1>0, <1>13, <2>3, <2>4, RearmTyped
  <2>6. QED
    BY <1>0, <1>13, <2>1, <2>5 DEF PhaseTyped, PlacesTyped, State
<1>14. ASSUME NEW found \in BOOLEAN, MidSearchWindow(found)
       PROVE  PhaseTyped' /\ PlacesTyped' /\ st' \in State /\ CcaTyped' /\ FlagsTyped'
  <2>1. MidStart \in Nat
    BY <1>0 DEF MidStart, MaxOf, PlacesTyped
  <2>2. MidStart + MidWindow \in Int /\ MidStart + MidStride \in Nat
    BY <2>1, WindowAssumption
  <2>3. FlagsTyped'
    <3>1. midBusy' = found /\ edBusy' = edBusy /\ inPpdu' = inPpdu /\ open' = open
      BY <1>14, Zenon DEF MidSearchWindow
    <3>2. QED
      BY <1>0, <3>1 DEF FlagsTyped
  <2>4. PlacesTyped' /\ PhaseTyped' /\ st' \in State
    BY <1>0, <1>14, <2>2 DEF MidSearchWindow, PlacesTyped, PhaseTyped
  <2>5. CASE UpdateCca(MidStart + MidWindow)
    BY <1>0, <2>2, <2>3, <2>4, <2>5, UpdateCcaTyped
  <2>6. CASE UNCHANGED cca
    BY <1>0, <2>3, <2>4, <2>6 DEF CcaTyped
  <2>7. QED
    BY <1>14, <2>5, <2>6, Zenon DEF MidSearchWindow
<1>15. CASE MidNotSearching
  <2>1. FlagsTyped'
    <3>1. midBusy' = FALSE /\ edBusy' = edBusy /\ inPpdu' = inPpdu /\ open' = open
      BY <1>15, Zenon DEF MidNotSearching
    <3>2. QED
      BY <1>0, <3>1 DEF FlagsTyped
  <2>2. PlacesTyped' /\ PhaseTyped' /\ st' \in State
    BY <1>0, <1>15, WindowAssumption DEF MidNotSearching, PlacesTyped, PhaseTyped, MaxOf
  <2>3. CASE UpdateCca(total)
    <3>1. total \in Int
      BY <1>0 DEF PlacesTyped
    <3>2. QED
      BY <1>0, <2>1, <2>2, <2>3, <3>1, UpdateCcaTyped
  <2>4. CASE UNCHANGED cca
    BY <1>0, <2>1, <2>2, <2>4 DEF CcaTyped
  <2>5. QED
    BY <1>15, <2>3, <2>4, Zenon DEF MidNotSearching
<1>16. CASE MidDone
  <2>1. PlacesTyped'
    BY <1>0, <1>16 DEF MidDone, PlacesTyped, MidStart, MaxOf
  <2>2. QED
    BY <1>0, <1>16, <2>1 DEF MidDone, PhaseTyped, CcaTyped, FlagsTyped
<1>17. CASE Finish
  <2>1. total \in Nat /\ total \in Int
    BY <1>0 DEF PlacesTyped
  <2>2. bufAbs' \in 0 .. total
    BY <1>17, <2>1, TrimmedTyped DEF Finish
  <2>3. PlacesTyped' /\ PhaseTyped' /\ st' \in State
    BY <1>0, <1>17, <2>1, <2>2 DEF Finish, PlacesTyped, PhaseTyped, State
  <2>4. FlagsTyped'
    BY <1>0, <1>17, Zenon DEF Finish, FlagsTyped
  <2>5. ccaBusy' \in BOOLEAN /\ hold' \in Int /\ hold' >= None
    <3>1. ccaBusy' \in BOOLEAN /\ hold' = None
      BY <1>17, Zenon DEF Finish
    <3>2. QED
      BY <3>1 DEF None
  <2>6. told' = told \/ told' = [told EXCEPT !.busy = edBusy \/ midBusy, !.at = total]
    BY <1>17, Zenon DEF Finish
  <2>7. (edBusy \/ midBusy) \in BOOLEAN
    OBVIOUS
  <2>8. told' \in [busy : BOOLEAN, at : Int, promise : Int]
    <3>1. told \in [busy : BOOLEAN, at : Int, promise : Int]
      BY <1>0 DEF CcaTyped
    <3>2. \A b \in BOOLEAN : [told EXCEPT !.busy = b, !.at = total] \in [busy : BOOLEAN, at : Int, promise : Int]
      BY <2>1, <3>1
    <3>3. QED
      BY <2>6, <2>7, <3>1, <3>2, Zenon
  <2>9. QED
    BY <2>3, <2>4, <2>5, <2>8 DEF CcaTyped
<1>18. ASSUME NEW lost \in BOOLEAN, DataComplete(lost)
       PROVE  PhaseTyped' /\ PlacesTyped' /\ st' \in State /\ CcaTyped' /\ FlagsTyped'
  BY <1>13, <1>18 DEF DataComplete
<1>19. CASE DataCarrierLost
  BY <1>13, <1>19 DEF DataCarrierLost
<1>20. CASE Signal
  BY <1>9, <1>10, <1>20 DEF Signal, SigSupported, SigUnsupported, SigNdp, SigBad
<1>21. QED
  BY <1>1, <1>2, <1>3, <1>4, <1>5, <1>6, <1>7, <1>8, <1>9, <1>11, <1>12, <1>14, <1>15, <1>16, <1>17, <1>18, <1>19, <1>20
     DEF Next, Process, Energy, Acquire, Receive, MidPacket

-----------------------------------------------------------------------------
(* CCA, RXSTART and RXEND. *)

(* Whatever position it is computed for, CCA is what the flags say. *)
Consistent == ccaBusy = (edBusy \/ midBusy \/ inPpdu \/ hold # None) /\ told.busy = ccaBusy

LEMMA UpdateCcaConsistent ==
  ASSUME CcaTyped, Consistent, FlagsTyped', NEW at, UpdateCca(at)
  PROVE  Consistent'
<1>1. ccaBusy' = (edBusy' \/ midBusy' \/ inPpdu' \/ hold' # None)
  BY Zenon DEF UpdateCca
<1>2. told'.busy = ccaBusy'
  <2>1. CASE ccaBusy' = ccaBusy
    BY <2>1, Zenon DEF UpdateCca, Consistent
  <2>2. CASE ccaBusy' # ccaBusy
    <3>1. told' = [busy |-> ccaBusy', at |-> at,
                   promise |-> IF ccaBusy' THEN MaxOf(told.promise, hold') ELSE told.promise]
      BY <2>2, Zenon DEF UpdateCca
    <3>2. QED
      BY <3>1, Zenon
  <2>3. QED
    BY <2>1, <2>2
<1>3. QED
  BY <1>1, <1>2 DEF Consistent

LEMMA RearmConsistent ==
  ASSUME CcaTyped, FlagsTyped, Consistent, NEW at \in Int, at >= None, NEW scanFrom, NEW until \in Int,
         FlagsTyped', Rearm(at, scanFrom, until)
  PROVE  Consistent' /\ st' = Search /\ inPpdu' = FALSE
<1>1. st' = Search /\ inPpdu' = FALSE
  BY DEF Rearm
<1>2. CASE until > at
  <2>1. hold' = MaxOf(hold, until) /\ ccaBusy' = TRUE
        /\ told' = [busy |-> TRUE, at |-> at, promise |-> MaxOf(told.promise, until)]
    BY <1>2 DEF Rearm
  <2>2. hold' # None
    BY <1>2, <2>1, MaxOfIsUpperBound DEF CcaTyped, None
  <2>3. QED
    BY <1>1, <2>1, <2>2 DEF Consistent
<1>3. CASE ~(until > at)
  <2>1. UpdateCca(at)
    BY <1>3 DEF Rearm
  <2>2. QED
    BY <1>1, <2>1, UpdateCcaConsistent
<1>4. QED
  BY <1>2, <1>3

LEMMA CcaInit == Init => CcaIsTheFlags
<1> SUFFICES ASSUME Init PROVE CcaIsTheFlags
  OBVIOUS
<1>1. st.kind = "search" /\ told.busy = FALSE
  BY DEF Init, Search
<1>2. /\ edBusy = FALSE /\ midBusy = FALSE /\ inPpdu = FALSE /\ ccaBusy = FALSE /\ hold = None
  BY Zenon DEF Init
<1>3. QED
  BY <1>1, <1>2, Zenon DEF CcaIsTheFlags

(* Both facts about CCA, and that a PPDU is in progress outside of search. *)
LEMMA CcaStep ==
  ASSUME TypeOK, TypeOK', CcaIsTheFlags, Next
  PROVE  CcaIsTheFlags'
<1> USE DEF vars, stream, buffer, floor, energy, mid, cca
<1>0. CcaTyped /\ FlagsTyped /\ FlagsTyped' /\ st \in State /\ Consistent /\ inPpdu = (st.kind # "search")
  BY Zenon DEF TypeOK, CcaTyped, FlagsTyped, CcaIsTheFlags, Consistent
<1>A. SUFFICES Consistent' /\ inPpdu' = (st'.kind # "search")
  BY Zenon DEF CcaIsTheFlags, Consistent
<1>1. ASSUME UNCHANGED <<edBusy, midBusy, inPpdu, cca>>, st'.kind = "search" <=> st.kind = "search"
      PROVE  Consistent' /\ inPpdu' = (st'.kind # "search")
  BY <1>0, <1>1, Zenon DEF Consistent
<1>2. ASSUME NEW at \in Int, at >= None, NEW scan, NEW until \in Int, Rearm(at, scan, until)
      PROVE  Consistent' /\ inPpdu' = (st'.kind # "search")
  <2>1. Consistent' /\ st' = Search /\ inPpdu' = FALSE
    BY <1>0, <1>2, RearmConsistent
  <2>2. QED
    BY <2>1, Zenon DEF Search
<1>3. ASSUME NEW k \in Chunks, PushSamples(k)
      PROVE  Consistent' /\ inPpdu' = (st'.kind # "search")
  BY <1>1, <1>3, Zenon DEF PushSamples
<1>4. ASSUME NEW high \in BOOLEAN, EnergyWindow(high)
      PROVE  Consistent' /\ inPpdu' = (st'.kind # "search")
  <2>1. st' = st /\ inPpdu' = inPpdu
    BY <1>4, Zenon DEF EnergyWindow
  <2>2. CASE edBusy' # edBusy
    <3>1. UpdateCca(edAbs + EdWindow)
      BY <1>4, <2>2, Zenon DEF EnergyWindow
    <3>2. Consistent'
      BY <1>0, <3>1, UpdateCcaConsistent
    <3>3. QED
      BY <1>0, <2>1, <3>2, Zenon
  <2>3. CASE edBusy' = edBusy
    BY <1>1, <1>4, <2>1, <2>3, Zenon DEF EnergyWindow
  <2>4. QED
    BY <2>2, <2>3
<1>5. CASE EnergyDone
  BY <1>1, <1>5, Zenon DEF EnergyDone
<1>6. CASE ExpireHold
  <2>1. st' = st /\ UNCHANGED <<edBusy, midBusy, inPpdu>>
    BY <1>6, Zenon DEF ExpireHold
  <2>2. CASE UpdateCca(hold)
    <3>1. Consistent'
      BY <1>0, <2>2, UpdateCcaConsistent
    <3>2. QED
      BY <1>0, <2>1, <3>1, Zenon
  <2>3. CASE UNCHANGED cca
    BY <1>1, <2>1, <2>3, Zenon
  <2>4. QED
    BY <1>6, <2>2, <2>3, Zenon DEF ExpireHold
<1>7. ASSUME NEW p \in StfCandidates, StfFound(p)
      PROVE  Consistent' /\ inPpdu' = (st'.kind # "search")
  <2>1. Consistent'
    BY <1>0, <1>7, UpdateCcaConsistent, Zenon DEF StfFound
  <2>2. st'.kind = "ltf" /\ inPpdu' = TRUE
    BY <1>7 DEF StfFound, LtfSync
  <2>3. QED
    BY <2>1, <2>2
<1>8. CASE StfNotFound
  BY <1>1, <1>8, Zenon DEF StfNotFound
<1>9. CASE LtfFound
  <2>1. st.kind = "ltf" /\ st'.kind = "sig" /\ UNCHANGED <<edBusy, midBusy, inPpdu, cca>>
    BY <1>9 DEF LtfFound, Sig
  <2>2. QED
    BY <1>1, <2>1, Zenon
<1>10. CASE LtfNotFound
  <2>1. st.trig + FalseAlarmSkip \in Int /\ st.trig + FalseAlarmSkip >= None /\ None \in Int
    BY <1>0, <1>10, StateFields, WindowAssumption DEF LtfNotFound, Position, None
  <2>2. QED
    BY <1>2, <1>10, <2>1 DEF LtfNotFound
<1>11. CASE LtfWait \/ SigWait \/ LongPreambleWait \/ DataWait
  BY <1>1, <1>11, Zenon DEF LtfWait, SigWait, LongPreambleWait, DataWait, Wait
<1>12. ASSUME SigReady PROVE SigEnd \in Int /\ SigEnd >= None /\ st.anchor \in Nat
  BY <1>0, <1>12, StateFields, WindowAssumption DEF SigReady, SigEnd, Position, None
<1>13. CASE SigNdp
  <2>1. None \in Int
    BY DEF None
  <2>2. QED
    BY <1>2, <1>12, <1>13, <2>1 DEF SigNdp
<1>14. ASSUME NEW d \in Durations, SigUnsupported(d)
       PROVE  Consistent' /\ inPpdu' = (st'.kind # "search")
  <2>1. PpduEnd(d) \in Int
    BY <1>12, <1>14, SignalAssumption, WindowAssumption DEF PpduEnd, SigUnsupported
  <2>2. QED
    BY <1>2, <1>12, <1>14, <2>1 DEF SigUnsupported
<1>15. CASE SigBad
  <2>1. None \in Int
    BY DEF None
  <2>2. QED
    BY <1>2, <1>12, <1>15, <2>1 DEF SigBad
<1>16. ASSUME NEW n \in SymCounts, NEW long \in BOOLEAN, SigSupported(n, long)
       PROVE  Consistent' /\ inPpdu' = (st'.kind # "search")
  <2>1. st.kind = "sig" /\ st'.kind \in {"long", "data"} /\ UNCHANGED <<edBusy, midBusy, inPpdu, cca>>
    BY <1>16 DEF SigSupported, SigReady, LongPreamble, Data
  <2>2. (st'.kind = "search" <=> st.kind = "search")
    BY <2>1
  <2>3. QED
    BY <1>1, <2>1, <2>2, Zenon
<1>17. CASE LongPreambleDone
  <2>1. st.kind = "long" /\ st'.kind = "data" /\ UNCHANGED <<edBusy, midBusy, inPpdu, cca>>
    BY <1>17 DEF LongPreambleDone, Data
  <2>2. QED
    BY <1>1, <2>1, Zenon
<1>18. ASSUME NEW lost \in BOOLEAN, NEW d \in -1 .. 1, DataSymbol(lost, d)
       PROVE  Consistent' /\ inPpdu' = (st'.kind # "search")
  <2>1. st'.kind = st.kind /\ UNCHANGED <<edBusy, midBusy, inPpdu, cca>>
    BY <1>0, <1>18, StateFields DEF DataSymbol, SymbolReady
  <2>2. QED
    BY <1>1, <2>1, Zenon
<1>19. ASSUME SymbolReady PROVE Payload \in Int /\ Payload >= None /\ st.end \in Int /\ st.end >= None
  <2>1. bufAbs \in Nat /\ st.end \in Nat /\ st.start \in Nat /\ st.n \in Nat /\ st.shift \in Int
    BY <1>0, <1>19, StateFields, WindowAssumption DEF SymbolReady, TypeOK
  <2>2. st.n * Symbol \in Int
    BY <2>1, WindowAssumption
  <2>3. Payload \in Int
    BY <2>1, <2>2 DEF Payload
  <2>4. Payload >= bufAbs
    BY <1>19, <2>1, <2>3 DEF SymbolReady, Proceed, Buffered
  <2>5. QED
    BY <2>1, <2>3, <2>4 DEF None
<1>20. ASSUME NEW lost \in BOOLEAN, DataComplete(lost)
       PROVE  Consistent' /\ inPpdu' = (st'.kind # "search")
  <2>1. None \in Int
    BY DEF None
  <2>2. QED
    BY <1>2, <1>19, <1>20, <2>1 DEF DataComplete
<1>21. CASE DataCarrierLost
  BY <1>2, <1>19, <1>21 DEF DataCarrierLost
<1>22. ASSUME NEW found \in BOOLEAN, MidSearchWindow(found)
       PROVE  Consistent' /\ inPpdu' = (st'.kind # "search")
  <2>1. st' = st /\ inPpdu' = inPpdu /\ edBusy' = edBusy /\ midBusy' = found
    BY <1>22, Zenon DEF MidSearchWindow
  <2>2. CASE found # midBusy
    <3>1. UpdateCca(MidStart + MidWindow)
      BY <1>22, <2>2, Zenon DEF MidSearchWindow
    <3>2. Consistent'
      BY <1>0, <3>1, UpdateCcaConsistent
    <3>3. QED
      BY <1>0, <2>1, <3>2, Zenon
  <2>3. CASE found = midBusy
    BY <1>1, <1>22, <2>1, <2>3, Zenon DEF MidSearchWindow
  <2>4. QED
    BY <2>2, <2>3
<1>23. CASE MidNotSearching
  <2>1. st' = st /\ inPpdu' = inPpdu /\ edBusy' = edBusy /\ midBusy' = FALSE
    BY <1>23, Zenon DEF MidNotSearching
  <2>2. CASE midBusy
    <3>1. UpdateCca(total)
      BY <1>23, <2>2, Zenon DEF MidNotSearching
    <3>2. Consistent'
      BY <1>0, <3>1, UpdateCcaConsistent
    <3>3. QED
      BY <1>0, <2>1, <3>2, Zenon
  <2>3. CASE ~midBusy
    <3>1. midBusy = FALSE
      BY <1>0, <2>3 DEF FlagsTyped
    <3>2. QED
      BY <1>1, <1>23, <2>1, <2>3, <3>1, Zenon DEF MidNotSearching
  <2>4. QED
    BY <2>2, <2>3
<1>24. CASE MidDone
  BY <1>1, <1>24, Zenon DEF MidDone
<1>25. CASE Finish
  <2>1. /\ inPpdu' = FALSE /\ edBusy' = edBusy /\ midBusy' = midBusy /\ hold' = None
        /\ ccaBusy' = (edBusy \/ midBusy)
        /\ told' = IF (edBusy \/ midBusy) = ccaBusy THEN told ELSE [told EXCEPT !.busy = edBusy \/ midBusy, !.at = total]
    BY <1>25, Zenon DEF Finish
  <2>2. st'.kind = "search"
    BY <1>25 DEF Finish, Search
  <2>3. told'.busy = ccaBusy'
    <3>1. CASE (edBusy \/ midBusy) = ccaBusy
      BY <1>0, <2>1, <3>1, Zenon DEF Consistent
    <3>2. CASE (edBusy \/ midBusy) # ccaBusy
      <4>1. told' = [told EXCEPT !.busy = edBusy \/ midBusy, !.at = total]
        BY <2>1, <3>2, Zenon
      <4>2. \A b \in BOOLEAN : [told EXCEPT !.busy = b, !.at = total].busy = b
        BY <1>0 DEF CcaTyped
      <4>3. (edBusy \/ midBusy) \in BOOLEAN
        OBVIOUS
      <4>4. QED
        BY <2>1, <4>1, <4>2, <4>3, Zenon
    <3>3. QED
      BY <3>1, <3>2
  <2>4. QED
    BY <2>1, <2>2, <2>3, Zenon DEF Consistent
<1>26. QED
  BY <1>3, <1>4, <1>5, <1>6, <1>7, <1>8, <1>9, <1>10, <1>11, <1>13, <1>14, <1>15, <1>16, <1>17, <1>18,
     <1>20, <1>21, <1>22, <1>23, <1>24, <1>25
     DEF Next, Process, Energy, Acquire, Signal, Receive, MidPacket

LEMMA RxInit == Init => RxEndForRxStart
<1> SUFFICES ASSUME Init PROVE RxEndForRxStart
  OBVIOUS
<1>1. (st.kind \in {"long", "data"}) = FALSE
  BY DEF Init, Search
<1>2. open = FALSE
  BY DEF Init
<1>3. QED
  BY <1>1, <1>2, Zenon DEF RxEndForRxStart

LEMMA RxStep ==
  ASSUME TypeOK, TypeOK', RxEndForRxStart, Next
  PROVE  RxEndForRxStart'
<1> USE DEF vars, stream, buffer, floor, energy, mid, cca
<1> DEFINE Ppdu == st.kind \in {"long", "data"}
<1>0. st \in State /\ open = Ppdu
  BY Zenon DEF TypeOK, RxEndForRxStart
<1>A. SUFFICES open' = Ppdu'
  BY Zenon DEF RxEndForRxStart
<1>1. ASSUME UNCHANGED open, Ppdu' = Ppdu PROVE open' = Ppdu'
  BY <1>0, <1>1, Zenon
<1>2. ASSUME UNCHANGED <<open, st>> PROVE open' = Ppdu'
  BY <1>0, <1>2, Zenon
<1>3. (\E k \in Chunks : PushSamples(k)) \/ Energy \/ StfNotFound \/ LtfWait \/ SigWait
        \/ LongPreambleWait \/ DataWait \/ MidPacket => open' = Ppdu'
  BY <1>2, Zenon DEF PushSamples, Energy, EnergyWindow, EnergyDone, ExpireHold, StfNotFound, LtfWait, SigWait,
     LongPreambleWait, DataWait, Wait, MidPacket, MidSearchWindow, MidNotSearching, MidDone
<1>4. ASSUME NEW p \in StfCandidates, StfFound(p) PROVE open' = Ppdu'
  <2>1. st.kind = "search" /\ st'.kind = "ltf" /\ open' = open
    BY <1>4 DEF StfFound, LtfSync
  <2>2. Ppdu' = Ppdu
    BY <2>1
  <2>3. QED
    BY <1>1, <2>1, <2>2
<1>5. CASE LtfFound
  <2>1. st.kind = "ltf" /\ st'.kind = "sig" /\ open' = open
    BY <1>5 DEF LtfFound, Sig
  <2>2. Ppdu' = Ppdu
    BY <2>1
  <2>3. QED
    BY <1>1, <2>1, <2>2
<1>6. CASE LtfNotFound \/ SigNdp \/ SigBad \/ \E d \in Durations : SigUnsupported(d)
  <2>1. st.kind \in {"ltf", "sig"} /\ st'.kind = "search" /\ open' = open
    BY <1>6 DEF LtfNotFound, SigNdp, SigBad, SigUnsupported, SigReady, Rearm, Search
  <2>2. Ppdu' = Ppdu
    BY <2>1
  <2>3. QED
    BY <1>1, <2>1, <2>2
<1>7. ASSUME NEW n \in SymCounts, NEW long \in BOOLEAN, SigSupported(n, long) PROVE open' = Ppdu'
  <2>1. open' = TRUE /\ st'.kind \in {"long", "data"}
    BY <1>7 DEF SigSupported, LongPreamble, Data
  <2>2. Ppdu' = TRUE
    BY <2>1
  <2>3. QED
    BY <2>1, <2>2, Zenon
<1>8. CASE LongPreambleDone
  <2>1. st.kind = "long" /\ st'.kind = "data" /\ open' = open
    BY <1>8 DEF LongPreambleDone, Data
  <2>2. Ppdu' = Ppdu
    BY <2>1
  <2>3. QED
    BY <1>1, <2>1, <2>2
<1>9. ASSUME NEW lost \in BOOLEAN, NEW d \in -1 .. 1, DataSymbol(lost, d) PROVE open' = Ppdu'
  <2>1. st'.kind = st.kind /\ open' = open
    BY <1>0, <1>9, StateFields DEF DataSymbol, SymbolReady
  <2>2. QED
    BY <1>1, <2>1
<1>10. CASE DataCarrierLost \/ Finish \/ \E lost \in BOOLEAN : DataComplete(lost)
  <2>1. open' = FALSE /\ st'.kind = "search"
    BY <1>10 DEF DataComplete, DataCarrierLost, Finish, Rearm, Search
  <2>2. Ppdu' = FALSE
    BY <2>1
  <2>3. QED
    BY <2>1, <2>2, Zenon
<1>11. QED
  BY <1>3, <1>4, <1>5, <1>6, <1>7, <1>8, <1>9, <1>10 DEF Next, Process, Acquire, Signal, Receive

-----------------------------------------------------------------------------
(* The buffer. *)

LEMMA TrimInit == Init => NothingNeededIsTrimmed
BY DEF Init, NothingNeededIsTrimmed, NeededFrom, Search

LEMMA TrimStep ==
  ASSUME TypeOK, TypeOK', NothingNeededIsTrimmed, Next
  PROVE  NothingNeededIsTrimmed'
<1> USE DEF vars, stream, buffer, floor, energy, mid, cca
<1>0. st \in State /\ bufAbs \in Nat /\ bufAbs' \in Nat /\ total \in Nat
  BY WindowAssumption DEF TypeOK
<1>1. ASSUME st'.kind = "search" PROVE NothingNeededIsTrimmed'
  BY <1>0, <1>1 DEF NothingNeededIsTrimmed, NeededFrom
<1>2. ASSUME UNCHANGED <<bufAbs, st>> PROVE NothingNeededIsTrimmed'
  BY <1>2 DEF NothingNeededIsTrimmed, NeededFrom, BeamStart, Payload
<1>3. (\E k \in Chunks : PushSamples(k)) \/ Energy \/ LtfWait \/ SigWait
        \/ LongPreambleWait \/ DataWait \/ MidPacket => NothingNeededIsTrimmed'
  BY <1>2, Zenon DEF PushSamples, Energy, EnergyWindow, EnergyDone, ExpireHold, LtfWait, SigWait,
     LongPreambleWait, DataWait, Wait, MidPacket, MidSearchWindow, MidNotSearching, MidDone
<1>4. CASE LtfNotFound \/ SigNdp \/ SigBad \/ DataCarrierLost \/ Finish \/ StfNotFound
           \/ (\E d \in Durations : SigUnsupported(d)) \/ \E lost \in BOOLEAN : DataComplete(lost)
  <2>1. st'.kind = "search"
    BY <1>4 DEF LtfNotFound, SigNdp, SigBad, SigUnsupported, DataComplete, DataCarrierLost, Finish, StfNotFound, Rearm, Search
  <2>2. QED
    BY <1>1, <2>1
<1>5. ASSUME NEW p \in StfCandidates, StfFound(p) PROVE NothingNeededIsTrimmed'
  <2>1. p >= bufAbs /\ bufAbs' = bufAbs /\ st'.kind = "ltf" /\ st'.trig = p
    BY <1>0, <1>5 DEF StfFound, StfCandidates, ScanFrom, MaxOf, LtfSync, TypeOK
  <2>2. QED
    BY <2>1 DEF NothingNeededIsTrimmed, NeededFrom
<1>6. CASE LtfFound
  <2>1. PICK d \in LtsStarts : st' = Sig(st.trig + d)
    BY <1>6 DEF LtfFound, LtsCandidates
  <2>2. st.trig \in Nat /\ d \in Nat /\ bufAbs <= st.trig /\ bufAbs' = bufAbs
    BY <1>0, <1>6, StateFields, SignalAssumption, WindowAssumption DEF LtfFound, Proceed, Buffered, Position
  <2>3. st'.kind = "sig" /\ st'.anchor = st.trig + d
    BY <2>1 DEF Sig
  <2>4. QED
    BY <1>0, <2>2, <2>3 DEF NothingNeededIsTrimmed, NeededFrom
<1>7. ASSUME NEW n \in SymCounts, NEW long \in BOOLEAN, SigSupported(n, long) PROVE NothingNeededIsTrimmed'
  <2>1. st.anchor \in Nat /\ bufAbs <= st.anchor /\ bufAbs' = bufAbs
    BY <1>0, <1>7, StateFields DEF SigSupported, SigReady, Proceed, Buffered, Position
  <2>2. CASE long
    <3>1. st'.kind = "long" /\ st'.anchor = st.anchor
      BY <1>7, <2>2 DEF SigSupported, LongPreamble
    <3>2. QED
      BY <1>0, <2>1, <3>1, WindowAssumption DEF NothingNeededIsTrimmed, NeededFrom, BeamStart
  <2>3. CASE ~long
    <3>1. st'.kind = "data" /\ st'.start = SigEnd /\ st'.n = 0 /\ st'.shift = 0
      BY <1>7, <2>3 DEF SigSupported, Data
    <3>2. Payload' = SigEnd
      BY <2>1, <3>1, WindowAssumption DEF Payload, SigEnd
    <3>3. QED
      BY <1>0, <2>1, <3>1, <3>2, WindowAssumption DEF NothingNeededIsTrimmed, NeededFrom, SigEnd
  <2>4. QED
    BY <2>2, <2>3
<1>8. CASE LongPreambleDone
  <2>1. st.anchor \in Nat /\ bufAbs <= BeamStart /\ bufAbs' = bufAbs
    BY <1>0, <1>8, StateFields DEF LongPreambleDone, Proceed, Buffered, Position
  <2>2. st'.kind = "data" /\ st'.start = BeamStart + LongPortion /\ st'.n = 0 /\ st'.shift = 0
    BY <1>8 DEF LongPreambleDone, Data
  <2>3. BeamStart \in Nat
    BY <2>1, WindowAssumption DEF BeamStart
  <2>4. Payload' = BeamStart + LongPortion
    BY <2>2, <2>3, WindowAssumption DEF Payload
  <2>5. QED
    BY <1>0, <2>1, <2>2, <2>3, <2>4, WindowAssumption DEF NothingNeededIsTrimmed, NeededFrom
<1>9. ASSUME NEW lost \in BOOLEAN, NEW d \in -1 .. 1, DataSymbol(lost, d) PROVE NothingNeededIsTrimmed'
  <2> DEFINE run == IF lost THEN st.lostRun + 1 ELSE 0
             before == st.start + Symbol * st.n
  <2>1. st \in [kind : {"data"}, start : Nat, nSym : SymCounts, n : Nat,
                lostRun : 0 .. CarrierLost - 1, shift : -MaxShift .. MaxShift, end : Nat]
    BY <1>0, <1>9, StateFields DEF DataSymbol, SymbolReady
  <2>2. st' = [st EXCEPT !.n = @ + 1, !.lostRun = run, !.shift = @ + d]
    BY <1>9 DEF DataSymbol
  <2>3. st'.kind = "data" /\ st'.start = st.start /\ st'.n = st.n + 1 /\ st'.shift = st.shift + d
    BY <2>1, <2>2
  <2>4. Symbol \in Nat /\ Symbol >= 1 /\ st.n * Symbol \in Nat /\ Symbol * st.n = st.n * Symbol
        /\ (st.n + 1) * Symbol = st.n * Symbol + Symbol
    BY <2>1, WindowAssumption
  <2>5. Payload' = before + Symbol + st.shift + d /\ Payload = before + st.shift
    BY <2>1, <2>3, <2>4 DEF Payload
  <2>6. before \in Int /\ bufAbs' = Trimmed(before)
    BY <1>9, <2>1, <2>4 DEF DataSymbol
  <2>7. bufAbs' <= bufAbs \/ bufAbs' <= before - TrimSlack
    BY <2>6, TrimmedTyped
  <2>8. bufAbs <= Payload
    BY <1>9 DEF DataSymbol, SymbolReady, Proceed, Buffered
  <2>9. st.shift + d \in -MaxShift .. MaxShift
    BY <1>9 DEF DataSymbol, Drifts
  <2>10. bufAbs' <= Payload'
    <3>1. CASE bufAbs' <= bufAbs
      BY <1>0, <2>1, <2>4, <2>5, <2>6, <2>8, <3>1
    <3>2. CASE bufAbs' <= before - TrimSlack
      BY <1>0, <2>1, <2>4, <2>5, <2>6, <2>9, <3>2, WindowAssumption
    <3>3. QED
      BY <2>7, <3>1, <3>2
  <2>11. QED
    BY <2>3, <2>10 DEF NothingNeededIsTrimmed, NeededFrom
<1>10. QED
  BY <1>3, <1>4, <1>5, <1>6, <1>7, <1>8, <1>9 DEF Next, Process, Acquire, Signal, Receive

-----------------------------------------------------------------------------
(* What has been announced of a hold. *)

(* The search goes on behind every hold, so none is left when it triggers. *)
NoHoldInPpdu ==
  /\ st.kind # "search" => hold = None
  /\ st.kind = "search" => hold <= scanAbs

(* A promise is past or still held. *)
Promised == told.promise <= total \/ told.promise <= hold

(* finish drops what is held; no samples follow. *)
Finished == pc = "idle" /\ total = Horizon

HoldInv == NoHoldInPpdu /\ (Promised \/ Finished)

(* An update of CCA at a position that has been reached keeps the promise, *)
(* and so does one while nothing is held.                                  *)
LEMMA UpdateCcaPromised ==
  ASSUME CcaTyped, NEW at \in Int, UpdateCca(at), total \in Nat, total' = total, Promised,
         at <= total \/ hold = None
  PROVE  /\ Promised' /\ told'.promise >= told.promise
         /\ hold' = hold \/ hold' = None
         /\ hold # None /\ at >= hold => hold' = None
<1>1. told.promise \in Int /\ hold \in Int /\ hold >= None /\ None \in Int /\ None <= total
  BY DEF CcaTyped, None
<1>2. /\ hold' = hold \/ (hold' = None /\ hold # None /\ hold <= at)
      /\ hold # None /\ at >= hold => hold' = None
  BY <1>1 DEF UpdateCca, HoldAt
<1>3. told.promise <= total \/ told.promise <= hold'
  BY <1>1, <1>2 DEF Promised
<1>4. \/ told' = told
      \/ told' = [busy |-> ccaBusy', at |-> at,
                  promise |-> IF ccaBusy' THEN MaxOf(told.promise, hold') ELSE told.promise]
  BY Zenon DEF UpdateCca
<1>5. told'.promise = told.promise \/ told'.promise = MaxOf(told.promise, hold')
  BY <1>4
<1>6. told'.promise >= told.promise /\ told'.promise \in {told.promise, hold'}
  BY <1>1, <1>2, <1>5 DEF MaxOf
<1>7. told'.promise <= total \/ told'.promise <= hold'
  BY <1>1, <1>2, <1>3, <1>6
<1>8. QED
  BY <1>2, <1>6, <1>7 DEF Promised

(* Leaving a PPDU, for a search behind what is held from now on. *)
LEMMA RearmPromised ==
  ASSUME CcaTyped, NEW at \in Int, at >= None, NEW until \in Int, NEW scan \in Nat, Rearm(at, scan, until),
         until = None \/ until = scan, total \in Nat, total' = total, Promised, hold = None
  PROVE  Promised' /\ told'.promise >= told.promise /\ NoHoldInPpdu'
<1>1. told.promise \in Int /\ told.promise <= total /\ None \in Int /\ None <= scan
  BY DEF CcaTyped, Promised, None
<1>2. st'.kind = "search" /\ scanAbs' = scan
  BY DEF Rearm, Search
<1>3. CASE until > at
  <2>1. hold' = MaxOf(hold, until) /\ told'.promise = MaxOf(told.promise, until) /\ until > None
    BY <1>1, <1>3 DEF Rearm
  <2>2. hold' = until /\ told'.promise \in {told.promise, until} /\ told'.promise >= told.promise
    BY <1>1, <2>1 DEF MaxOf
  <2>3. Promised'
    BY <1>1, <2>2 DEF Promised
  <2>4. until = scan
    BY <2>1, <1>1
  <2>5. QED
    BY <1>2, <2>2, <2>3, <2>4 DEF NoHoldInPpdu
<1>4. CASE ~(until > at)
  <2>1. UpdateCca(at)
    BY <1>4 DEF Rearm
  <2>2. Promised' /\ told'.promise >= told.promise /\ hold' = None
    BY <2>1, UpdateCcaPromised
  <2>3. QED
    BY <1>1, <1>2, <2>2 DEF NoHoldInPpdu
<1>5. QED
  BY <1>3, <1>4

LEMMA HoldInit == Init => HoldInv
<1> SUFFICES ASSUME Init PROVE HoldInv
  OBVIOUS
<1>1. st.kind = "search" /\ hold = None /\ scanAbs = 0 /\ total = 0 /\ told.promise = None
  BY DEF Init, Search
<1>2. QED
  BY <1>1 DEF HoldInv, NoHoldInPpdu, Promised, None

(* As long as the stream has not ended, whatever was promised of a hold    *)
(* stays promised, and more is promised at most.                           *)
LEMMA HoldStep ==
  ASSUME TypeOK, TypeOK', HoldInv, Next, ~Finish
  PROVE  /\ NoHoldInPpdu' /\ Promised' /\ told'.promise >= told.promise
         /\ told' = told \/ total' = total
<1> USE DEF vars, stream, buffer, floor, energy, mid, cca
<1> DEFINE Kept == NoHoldInPpdu' /\ Promised' /\ told'.promise >= told.promise
                   /\ (told' = told \/ total' = total)
<1>0. /\ CcaTyped /\ FlagsTyped /\ st \in State /\ NoHoldInPpdu
      /\ total \in Nat /\ total' \in Nat /\ total <= Horizon /\ total' <= Horizon /\ bufAbs \in Nat
      /\ scanAbs \in Nat /\ scanAbs' \in Nat /\ edAbs \in Nat /\ midAbs \in Nat
      /\ told.promise \in Int /\ hold \in Int /\ hold >= None /\ None \in Int /\ Horizon \in Nat
  <2>1. CcaTyped /\ FlagsTyped /\ st \in State /\ NoHoldInPpdu
    BY TypesFold DEF HoldInv
  <2>2. told.promise \in Int
    BY <2>1 DEF CcaTyped
  <2>3. QED
    BY <2>1, <2>2, WindowAssumption DEF TypeOK, None
<1>A. SUFFICES Kept
  OBVIOUS
<1>1. Promised
  <2>1. CASE Finished
    <3>1. \A k \in Chunks : ~PushSamples(k)
      BY <1>0, <2>1, SignalAssumption DEF PushSamples, Finished
    <3>2. ~Process
      BY <2>1 DEF Finished, Process, Energy, EnergyWindow, EnergyDone, ExpireHold, Acquire, StfFound, StfNotFound,
         LtfFound, LtfNotFound, LtfWait, Signal, SigSupported, SigUnsupported, SigNdp, SigBad, SigWait, SigReady,
         Receive, LongPreambleDone, LongPreambleWait, DataSymbol, DataComplete, DataCarrierLost, DataWait,
         SymbolReady, Proceed, Wait, MidPacket, MidSearchWindow, MidNotSearching, MidDone
    <3>3. QED
      BY <3>1, <3>2 DEF Next
  <2>2. QED
    BY <2>1 DEF HoldInv
<1>2. ASSUME UNCHANGED <<cca, scanAbs>>, total' >= total, st'.kind = "search" <=> st.kind = "search" PROVE Kept
  <2>1. Promised'
    BY <1>0, <1>1, <1>2 DEF Promised
  <2>2. NoHoldInPpdu'
    BY <1>0, <1>2 DEF NoHoldInPpdu
  <2>3. told' = told /\ told'.promise >= told.promise
    BY <1>0, <1>2
  <2>4. QED
    BY <2>1, <2>2, <2>3
<1>3. ASSUME NEW at \in Int, at <= total, UpdateCca(at), st' = st, scanAbs' = scanAbs, total' = total PROVE Kept
  <2>1. Promised' /\ told'.promise >= told.promise /\ (hold' = hold \/ hold' = None)
    BY <1>0, <1>1, <1>3, UpdateCcaPromised
  <2>2. NoHoldInPpdu'
    BY <1>0, <1>3, <2>1 DEF NoHoldInPpdu, None
  <2>3. QED
    BY <1>3, <2>1, <2>2
<1>4. ASSUME NEW at \in Int, at >= None, NEW until \in Int, NEW scan \in Nat, Rearm(at, scan, until),
             until = None \/ until = scan, total' = total, st.kind # "search"
      PROVE  Kept
  <2>1. hold = None
    BY <1>0, <1>4 DEF NoHoldInPpdu
  <2>2. Promised' /\ told'.promise >= told.promise /\ NoHoldInPpdu'
    BY <1>0, <1>1, <1>4, <2>1, RearmPromised
  <2>3. QED
    BY <1>4, <2>2
<1>5. ASSUME NEW k \in Chunks, PushSamples(k) PROVE Kept
  BY <1>0, <1>2, <1>5, SignalAssumption DEF PushSamples
<1>6. ASSUME NEW high \in BOOLEAN, EnergyWindow(high) PROVE Kept
  <2>1. /\ edAbs + EdWindow \in Int /\ edAbs + EdWindow <= total /\ total' = total /\ st' = st /\ scanAbs' = scanAbs
    BY <1>0, <1>6, WindowAssumption DEF EnergyWindow
  <2>2. UpdateCca(edAbs + EdWindow) \/ UNCHANGED cca
    BY <1>6, Zenon DEF EnergyWindow
  <2>3. QED
    BY <1>0, <1>2, <1>3, <2>1, <2>2
<1>7. CASE EnergyDone \/ LtfWait \/ SigWait \/ LongPreambleWait \/ DataWait \/ MidDone
  BY <1>0, <1>2, <1>7 DEF EnergyDone, LtfWait, SigWait, LongPreambleWait, DataWait, Wait, MidDone
<1>8. CASE ExpireHold
  <2>1. total' = total /\ st' = st /\ scanAbs' = scanAbs
    BY <1>8 DEF ExpireHold
  <2>2. (hold <= total /\ UpdateCca(hold)) \/ UNCHANGED cca
    BY <1>0, <1>8 DEF ExpireHold
  <2>3. QED
    BY <1>0, <1>2, <1>3, <2>1, <2>2
<1>9. ASSUME NEW p \in StfCandidates, StfFound(p) PROVE Kept
  <2>1. p \in Int /\ p >= scanAbs /\ p <= total
    BY <1>0 DEF StfCandidates, ScanFrom, MaxOf
  <2>2. st.kind = "search" /\ UpdateCca(p) /\ total' = total
    BY <1>9 DEF StfFound
  <2>3. Promised' /\ told'.promise >= told.promise /\ (hold' = hold \/ hold' = None)
         /\ (hold # None /\ p >= hold => hold' = None)
    BY <1>0, <1>1, <2>1, <2>2, UpdateCcaPromised
  <2>4. hold <= p
    BY <1>0, <2>1, <2>2 DEF NoHoldInPpdu
  <2>5. hold' = None
    BY <1>0, <2>1, <2>3, <2>4
  <2>6. st'.kind # "search"
    BY <1>9 DEF StfFound, LtfSync
  <2>7. QED
    BY <2>2, <2>3, <2>5, <2>6 DEF NoHoldInPpdu
<1>10. CASE StfNotFound
  <2>1. st.kind = "search" /\ st' = st /\ scanAbs' >= scanAbs /\ UNCHANGED cca /\ total' = total
    BY <1>0, <1>10, WindowAssumption DEF StfNotFound, MaxOf
  <2>2. NoHoldInPpdu'
    BY <1>0, <2>1 DEF NoHoldInPpdu
  <2>3. Promised'
    BY <1>1, <2>1 DEF Promised
  <2>4. QED
    BY <1>0, <2>1, <2>2, <2>3
<1>11. CASE LtfFound
  <2>1. st.kind = "ltf" /\ st'.kind = "sig" /\ UNCHANGED <<cca, scanAbs>> /\ total' = total
    BY <1>11 DEF LtfFound, Sig
  <2>2. QED
    BY <1>0, <1>2, <2>1
<1>12. CASE LtfNotFound
  <2>1. st.trig + FalseAlarmSkip \in Nat
    BY <1>0, <1>12, StateFields, WindowAssumption DEF LtfNotFound, Position
  <2>2. QED
    BY <1>0, <1>4, <1>12, <2>1 DEF LtfNotFound, None
<1>13. ASSUME SigReady PROVE SigEnd \in Nat /\ st.anchor \in Nat /\ st.kind = "sig"
  BY <1>0, <1>13, StateFields, WindowAssumption DEF SigReady, SigEnd, Position
<1>14. CASE SigNdp \/ SigBad
  BY <1>0, <1>4, <1>13, <1>14 DEF SigNdp, SigBad, None
<1>15. ASSUME NEW d \in Durations, SigUnsupported(d) PROVE Kept
  <2>1. PpduEnd(d) \in Nat
    BY <1>13, <1>15, SignalAssumption, WindowAssumption DEF PpduEnd, SigUnsupported
  <2>2. QED
    BY <1>0, <1>4, <1>13, <1>15, <2>1 DEF SigUnsupported, None
<1>16. ASSUME NEW n \in SymCounts, NEW long \in BOOLEAN, SigSupported(n, long) PROVE Kept
  <2>1. st.kind = "sig" /\ st'.kind # "search" /\ UNCHANGED <<cca, scanAbs>> /\ total' = total
    BY <1>16 DEF SigSupported, SigReady, LongPreamble, Data
  <2>2. QED
    BY <1>0, <1>2, <2>1
<1>17. CASE LongPreambleDone
  <2>1. st.kind = "long" /\ st'.kind = "data" /\ UNCHANGED <<cca, scanAbs>> /\ total' = total
    BY <1>17 DEF LongPreambleDone, Data
  <2>2. QED
    BY <1>0, <1>2, <2>1
<1>18. ASSUME NEW lost \in BOOLEAN, NEW d \in -1 .. 1, DataSymbol(lost, d) PROVE Kept
  <2>1. st'.kind = st.kind /\ UNCHANGED <<cca, scanAbs>> /\ total' = total
    BY <1>0, <1>18, StateFields DEF DataSymbol, SymbolReady
  <2>2. QED
    BY <1>0, <1>2, <2>1
<1>19. ASSUME SymbolReady
       PROVE  Payload \in Int /\ Payload >= None /\ st.end \in Nat /\ st.kind # "search"
  <2>1. st.kind = "data" /\ st.end \in Nat /\ st.start \in Nat /\ st.n \in Nat /\ st.shift \in Int
    BY <1>0, <1>19, StateFields, WindowAssumption DEF SymbolReady
  <2>2. st.n * Symbol \in Int
    BY <2>1, WindowAssumption
  <2>3. Payload \in Int
    BY <2>1, <2>2 DEF Payload
  <2>4. Payload >= bufAbs
    BY <1>19, <2>1, <2>3 DEF SymbolReady, Proceed, Buffered
  <2>5. QED
    BY <1>0, <2>1, <2>3, <2>4 DEF None
<1>20. ASSUME NEW lost \in BOOLEAN, DataComplete(lost) PROVE Kept
  BY <1>0, <1>4, <1>19, <1>20 DEF DataComplete, None
<1>21. CASE DataCarrierLost
  BY <1>0, <1>4, <1>19, <1>21 DEF DataCarrierLost
<1>22. ASSUME NEW found \in BOOLEAN, MidSearchWindow(found) PROVE Kept
  <2>1. /\ MidStart + MidWindow \in Int /\ MidStart + MidWindow <= total
        /\ total' = total /\ st' = st /\ scanAbs' = scanAbs
    BY <1>0, <1>22, WindowAssumption DEF MidSearchWindow, MidStart, MaxOf
  <2>2. UpdateCca(MidStart + MidWindow) \/ UNCHANGED cca
    BY <1>22, Zenon DEF MidSearchWindow
  <2>3. QED
    BY <1>0, <1>2, <1>3, <2>1, <2>2
<1>23. CASE MidNotSearching
  <2>1. total' = total /\ st' = st /\ scanAbs' = scanAbs
    BY <1>23 DEF MidNotSearching
  <2>2. UpdateCca(total) \/ UNCHANGED cca
    BY <1>23, Zenon DEF MidNotSearching
  <2>3. QED
    BY <1>0, <1>2, <1>3, <2>1, <2>2
<1>24. QED
  BY <1>5, <1>6, <1>7, <1>8, <1>9, <1>10, <1>11, <1>12, <1>14, <1>15, <1>16, <1>17, <1>18, <1>20, <1>21, <1>22, <1>23
     DEF Next, Process, Energy, Acquire, Signal, Receive, MidPacket

-----------------------------------------------------------------------------
(* The theorems. *)

ReceiverInv ==
  /\ TypeOK /\ CcaIsTheFlags /\ RxEndForRxStart /\ NothingNeededIsTrimmed /\ HoldInv

LEMMA ReceiverInit == Init => ReceiverInv
BY TypeInit, CcaInit, RxInit, TrimInit, HoldInit DEF ReceiverInv

LEMMA ReceiverStep ==
  ASSUME ReceiverInv, [Next]_vars
  PROVE  ReceiverInv'
<1>1. CASE Next
  <2>1. TypeOK' /\ CcaIsTheFlags' /\ RxEndForRxStart' /\ NothingNeededIsTrimmed'
    BY <1>1, TypeStep, CcaStep, RxStep, TrimStep DEF ReceiverInv
  <2>2. HoldInv'
    <3>1. CASE Finish
      <4>1. /\ st'.kind = "search" /\ hold' = None /\ scanAbs' = total /\ total' = total
            /\ pc' = "idle" /\ total = Horizon
        BY <3>1 DEF Finish, Search, stream
      <4>2. total \in Nat
        BY WindowAssumption DEF ReceiverInv, TypeOK
      <4>3. NoHoldInPpdu' /\ Finished'
        BY <4>1, <4>2 DEF NoHoldInPpdu, Finished, None
      <4>4. QED
        BY <4>3 DEF HoldInv
    <3>2. CASE ~Finish
      BY <1>1, <2>1, <3>2, HoldStep DEF ReceiverInv, HoldInv
    <3>3. QED
      BY <3>1, <3>2
  <2>3. QED
    BY <2>1, <2>2 DEF ReceiverInv
<1>2. CASE UNCHANGED vars
  BY <1>2, Zenon DEF vars, stream, buffer, floor, energy, mid, cca, ReceiverInv, TypeOK, CcaIsTheFlags, RxEndForRxStart,
     NothingNeededIsTrimmed, NeededFrom, BeamStart, Payload, HoldInv, NoHoldInPpdu, Promised, Finished
<1>3. QED
  BY <1>1, <1>2

(* The inductive invariant holds in every reachable state of the receiver, *)
(* for any sizes and positions of its windows and of the chunks.           *)
THEOREM ReceiverInvariant == Spec => []ReceiverInv
<1>1. ReceiverInv /\ [Next]_vars => ReceiverInv'
  BY ReceiverStep
<1>2. QED
  BY ReceiverInit, <1>1, PTL DEF Spec

(* CCA is what the detectors, the PPDU in progress and the hold say, and   *)
(* the MAC has been told so.                                               *)
THEOREM CcaAgrees == Spec => []CcaIsTheFlags
<1>1. ReceiverInv => CcaIsTheFlags
  BY DEF ReceiverInv
<1>2. QED
  BY <1>1, ReceiverInvariant, PTL

(* Each RXSTART is followed by one RXEND, on every way out of a PPDU.      *)
THEOREM RxEndsPairUp == Spec => []RxEndForRxStart
<1>1. ReceiverInv => RxEndForRxStart
  BY DEF ReceiverInv
<1>2. QED
  BY <1>1, ReceiverInvariant, PTL

(* The samples the receiver waits for are never trimmed, however the FFT   *)
(* window drifts within its bound.                                         *)
THEOREM BufferSuffices == Spec => []NothingNeededIsTrimmed
<1>1. ReceiverInv => NothingNeededIsTrimmed
  BY DEF ReceiverInv
<1>2. QED
  BY <1>1, ReceiverInvariant, PTL

LEMMA IdleStep ==
  ASSUME ReceiverInv, ReceiverInv', Next, told.busy, ~told'.busy, ~Finish
  PROVE  total >= told.promise
<1>1. Promised' /\ told'.promise >= told.promise /\ (told' = told \/ total' = total)
  BY HoldStep DEF ReceiverInv
<1>2. total' = total
  BY <1>1
<1>3. hold' = None
  BY Zenon DEF ReceiverInv, CcaIsTheFlags
<1>4. told.promise \in Int /\ told'.promise \in Int /\ total \in Nat
  BY WindowAssumption DEF ReceiverInv, TypeOK
<1>5. QED
  BY <1>1, <1>2, <1>3, <1>4 DEF Promised, None

(* A hold that was announced is kept: CCA goes IDLE at its end at the      *)
(* earliest, whichever of the detectors is looked at first and wherever    *)
(* they stand.                                                             *)
THEOREM HoldsAreKept == Spec => IdleAfterHold
<1>1. ReceiverInv /\ ReceiverInv' /\ [Next]_vars
        => [(told.busy /\ ~told'.busy /\ ~Finish) => total >= told.promise]_vars
  BY IdleStep
<1>2. QED
  BY <1>1, ReceiverInvariant, PTL DEF Spec, IdleAfterHold
=============================================================================
