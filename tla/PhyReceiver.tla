----------------------------- MODULE PhyReceiver -----------------------------
(***************************************************************************)
(* The streaming receiver of s2g-phy (rx/mod.rs): samples come in chunks,  *)
(* and one call of process() runs the energy detector over the whole       *)
(* chunk, then the pipeline Search -> LtfSync -> Sig [-> LongPreamble] ->  *)
(* Data until it can go no further, then the mid-packet detector.  The     *)
(* three write one set of CCA flags at three different positions of the    *)
(* stream.  A call is a sequence of steps here, ordered by `pc`; only      *)
(* PushSamples, its beginning, is the environment's.                       *)
(*                                                                         *)
(* Samples are counted and never looked at: what a detector or a decoder   *)
(* makes of them is chosen, within what the samples it has been given can  *)
(* show.  From position `quiet` on the channel holds nothing.  The unit    *)
(* is some number of samples that divides every window.                    *)
(***************************************************************************)
EXTENDS Integers, FiniteSets

CONSTANTS
  EdWindow, EdStride,   \* ED_WINDOW (aCCATime), ED_STRIDE
  MidWindow, MidStride, \* MID_WINDOW (aCCAMidTime), MID_STRIDE
  ScanOverlap,          \* SCAN_OVERLAP: samples an STF plateau takes to show
  TrimSlack,            \* what trim keeps before the position asked for
  LtfSpan, LtsStarts,   \* SPAN; where in it the LTS may be found
  FalseAlarmSkip,       \* how far a false alarm moves the scan
  Lead, SigSpan,        \* from the PPDU's start to the LTS, and on to SIG's end
  LongPortion,          \* LONG_BEAM_PORTION
  Symbol,               \* samples of a Data symbol
  SymCounts, Durations, \* what a SIG field may say: N_SYM, PPDU duration
  CarrierLost,          \* carrier_lost_symbols
  MaxShift,             \* bound: drift of the FFT window within one PPDU
  AutoCal, FloorBlock,  \* auto_cal; samples of a noise-floor block
  Chunks, Horizon,      \* bounds: sizes of a chunk, samples ever pushed
  QuietFrom             \* bound: where the channel may fall silent

ASSUME WindowAssumption ==
  /\ {EdWindow, EdStride, MidWindow, MidStride, LtfSpan, FalseAlarmSkip,
      SigSpan, Symbol, CarrierLost, FloorBlock} \subseteq Nat \ {0}
  /\ {ScanOverlap, TrimSlack, Lead, LongPortion, MaxShift, Horizon}
       \subseteq Nat
  /\ MaxShift <= Symbol + TrimSlack
  /\ AutoCal \in BOOLEAN

(* An STF plateau and the LTS that follows it are different waveforms: the *)
(* LTS is never found at the trigger itself.                               *)
ASSUME SignalAssumption ==
  /\ LtsStarts \subseteq 1 .. LtfSpan
  /\ SymCounts \subseteq Nat \ {0}
  /\ \A d \in Durations : d \in Nat /\ d >= Lead + SigSpan
  /\ Chunks \subseteq Nat \ {0} /\ QuietFrom \subseteq Nat

VARIABLES
  pc,                  \* where in process() the receiver is
  total,               \* total_in, which is also end_abs()
  bufAbs, scanAbs,     \* buf_abs, scan_abs
  st,                  \* state: its kind and what the kind carries
  edAbs, edBusy, midAbs, midBusy,
  hold, inPpdu,        \* hold_until, in_ppdu
  ccaBusy,             \* cca_busy
  floorEnd, floorLen,  \* floor_block_end; floor_ring_len up to 1
  quiet,
  open,                \* RXSTART has been given and its RXEND has not
  told                 \* what the last Cca event said, and the latest end
                       \* of a hold any of them has announced

stream == <<total, quiet>>
buffer == <<bufAbs, scanAbs>>
floor == <<floorEnd, floorLen>>
energy == <<edAbs, edBusy, floor>>
mid == <<midAbs, midBusy>>
cca == <<hold, ccaBusy, told>>
vars == <<pc, stream, buffer, st, energy, mid, inPpdu, cca, open>>

None == -1
MaxOf(a, b) == IF a >= b THEN a ELSE b
MinOf(a, b) == IF a <= b THEN a ELSE b

Search == [kind |-> "search"]
LtfSync(t) == [kind |-> "ltf", trig |-> t]
Sig(a) == [kind |-> "sig", anchor |-> a]
LongPreamble(a, n) == [kind |-> "long", anchor |-> a, nSym |-> n]
Data(start, n) ==
  [kind |-> "data", start |-> start, nSym |-> n, n |-> 0, lostRun |-> 0,
   shift |-> 0, end |-> start + n * Symbol]

Position == 0 .. Horizon
State ==
  {Search} \cup {LtfSync(t) : t \in Position} \cup {Sig(a) : a \in Position}
    \cup [kind : {"long"}, anchor : Position, nSym : SymCounts]
    \cup [kind : {"data"}, start : Nat, nSym : SymCounts, n : Nat,
          lostRun : 0 .. CarrierLost - 1, shift : -MaxShift .. MaxShift, end : Nat]

(* Positions are naturals, the CCA flags Booleans, and the state is one of *)
(* the receiver's five with what that state carries.                       *)
TypeOK ==
  /\ pc \in {"idle", "energy", "expire", "pipeline", "mid"}
  /\ total \in 0 .. Horizon /\ bufAbs \in 0 .. total
  /\ scanAbs \in Nat /\ st \in State
  /\ edAbs \in Nat /\ midAbs \in Nat
  /\ {edBusy, midBusy, inPpdu, ccaBusy, open} \subseteq BOOLEAN
  /\ hold \in Int /\ hold >= None
  /\ floorEnd \in Nat /\ floorLen \in 0 .. 1 /\ quiet \in QuietFrom
  /\ told \in [busy : BOOLEAN, at : Int, promise : Int]

Init ==
  /\ pc = "idle" /\ total = 0 /\ bufAbs = 0 /\ scanAbs = 0 /\ st = Search
  /\ edAbs = 0 /\ edBusy = FALSE /\ midAbs = 0 /\ midBusy = FALSE
  /\ hold = None /\ inPpdu = FALSE /\ ccaBusy = FALSE
  /\ floorEnd = FloorBlock /\ floorLen = 0
  /\ quiet \in QuietFrom
  /\ open = FALSE /\ told = [busy |-> FALSE, at |-> 0, promise |-> None]

-----------------------------------------------------------------------------
(* trim: drop what lies before `keepFrom`, less the slack, and never beyond *)
(* the end.                                                                *)
Trimmed(keepFrom) == MaxOf(bufAbs, MinOf(keepFrom - TrimSlack, total))

(* extract, fft_window: the samples [from, from + len) are all buffered.   *)
Buffered(from, len) == bufAbs <= from /\ from + len <= total

HoldAt(at) == IF hold # None /\ at >= hold THEN None ELSE hold

(* update_cca: let a hold that is over go, recompute BUSY from the flags   *)
(* as the step leaves them, and tell the MAC if it changed.                *)
UpdateCca(at) ==
  LET busy == edBusy' \/ midBusy' \/ inPpdu' \/ HoldAt(at) # None IN
    /\ hold' = HoldAt(at)
    /\ ccaBusy' = busy
    /\ told' = IF busy = ccaBusy THEN told
               ELSE [busy |-> busy, at |-> at,
                     promise |-> IF busy THEN MaxOf(told.promise, hold') ELSE told.promise]

(* rearm: leave the PPDU, search on from `scanFrom`; a hold that lies      *)
(* ahead makes CCA BUSY and is announced even if CCA was BUSY already.     *)
Rearm(at, scanFrom, until) ==
  /\ st' = Search
  /\ scanAbs' = scanFrom
  /\ inPpdu' = FALSE
  /\ IF until > at
     THEN /\ hold' = MaxOf(hold, until)
          /\ ccaBusy' = TRUE
          /\ told' = [busy |-> TRUE, at |-> at, promise |-> MaxOf(told.promise, until)]
     ELSE UpdateCca(at)

-----------------------------------------------------------------------------
(* process() begins: the chunk is appended.                                *)
PushSamples(k) ==
  /\ pc = "idle" /\ total + k <= Horizon
  /\ total' = total + k
  /\ edAbs' = MaxOf(edAbs, bufAbs)
  /\ pc' = "energy"
  /\ UNCHANGED <<quiet, buffer, st, edBusy, floor, mid, inPpdu, cca, open>>

(* track_floor: a block of the noise floor ends with the window at `at`.   *)
TrackFloor(at) ==
  /\ floorLen' = IF at >= floorEnd THEN 1 ELSE floorLen
  /\ floorEnd' = IF at >= floorEnd THEN at + FloorBlock ELSE floorEnd

(* step_ed, one window: the floor tracker first, then the threshold, which *)
(* means nothing before an auto-calibrated floor is known.                 *)
EnergyWindow(high) ==
  /\ pc = "energy" /\ edAbs + EdWindow <= total
  /\ high => edAbs < quiet
  /\ LET at == edAbs + EdWindow IN
       /\ TrackFloor(at)
       /\ edAbs' = edAbs + EdStride
       /\ edBusy' = (high /\ ~(AutoCal /\ floorLen' = 0))
       /\ IF edBusy' # edBusy
          THEN midBusy' = midBusy /\ inPpdu' = inPpdu /\ UpdateCca(at)
          ELSE UNCHANGED <<midBusy, inPpdu, cca>>
  /\ UNCHANGED <<pc, stream, buffer, st, midAbs, open>>

EnergyDone ==
  /\ pc = "energy" /\ edAbs + EdWindow > total
  /\ pc' = "expire"
  /\ UNCHANGED <<stream, buffer, st, energy, mid, inPpdu, cca, open>>

(* Mutant: whatever is held is let go after the windows of a chunk.        *)
ExpireHoldEarly ==
  /\ pc = "expire"
  /\ pc' = "pipeline"
  /\ UNCHANGED <<stream, buffer, st, energy, mid, inPpdu, open>>
  /\ IF hold # None THEN UpdateCca(hold) ELSE UNCHANGED cca

(* The end of step_ed: a hold expires with the samples, even if no flag    *)
(* changes.                                                                *)
ExpireHold ==
  /\ pc = "expire"
  /\ pc' = "pipeline"
  /\ UNCHANGED <<stream, buffer, st, energy, mid, inPpdu, open>>
  /\ IF hold # None /\ total >= hold THEN UpdateCca(hold) ELSE UNCHANGED cca

-----------------------------------------------------------------------------
(* detect_stf: the plateau may begin at any position scanned, if it shows  *)
(* in full and there is a signal.                                          *)
ScanFrom == MaxOf(scanAbs, bufAbs)
StfCandidates ==
  {p \in ScanFrom .. total : p + ScanOverlap <= total /\ p < quiet}

(* step_search, a detection: BUSY from the trigger on.                     *)
StfFound(p) ==
  /\ pc = "pipeline" /\ st.kind = "search"
  /\ st' = LtfSync(p)
  /\ inPpdu' = TRUE
  /\ edBusy' = edBusy /\ midBusy' = midBusy
  /\ UpdateCca(p)
  /\ UNCHANGED <<pc, stream, buffer, edAbs, floor, midAbs, open>>

(* step_search, nothing found: the scan resumes an overlap before the end, *)
(* and a mid-packet window of samples is kept.                             *)
StfNotFound ==
  /\ pc = "pipeline" /\ st.kind = "search"
  /\ scanAbs' = MaxOf(scanAbs, MaxOf(total - ScanOverlap, 0))
  /\ bufAbs' = Trimmed(MinOf(scanAbs', MaxOf(total - MidWindow, 0)))
  /\ pc' = "mid"
  /\ UNCHANGED <<stream, st, energy, mid, inPpdu, cca, open>>

(* A step that needs samples not yet pushed ends the pipeline's loop.      *)
Wait(from, len) ==
  /\ pc = "pipeline" /\ ~Buffered(from, len)
  /\ pc' = "mid"
  /\ UNCHANGED <<stream, buffer, st, energy, mid, inPpdu, cca, open>>

Proceed(from, len) == pc = "pipeline" /\ Buffered(from, len)

(* ltf_sync: the LTS shows at some offset of the span.                     *)
LtsCandidates == {st.trig + d : d \in LtsStarts}

(* step_ltf: the LTS is found, or the trigger was a false alarm.           *)
LtfFound ==
  /\ st.kind = "ltf" /\ Proceed(st.trig, LtfSpan)
  /\ \E a \in LtsCandidates : st' = Sig(a)
  /\ UNCHANGED <<pc, stream, buffer, energy, mid, inPpdu, cca, open>>

(* Mutant: a false alarm resumes the scan at the trigger.                  *)
LtfNotFoundStays ==
  /\ st.kind = "ltf" /\ Proceed(st.trig, LtfSpan)
  /\ edBusy' = edBusy /\ midBusy' = midBusy
  /\ Rearm(st.trig + FalseAlarmSkip, st.trig, None)
  /\ UNCHANGED <<pc, stream, bufAbs, edAbs, floor, midAbs, open>>

LtfNotFound ==
  /\ st.kind = "ltf" /\ Proceed(st.trig, LtfSpan)
  /\ edBusy' = edBusy /\ midBusy' = midBusy
  /\ Rearm(st.trig + FalseAlarmSkip, st.trig + FalseAlarmSkip, None)
  /\ UNCHANGED <<pc, stream, bufAbs, edAbs, floor, midAbs, open>>

LtfWait == st.kind = "ltf" /\ Wait(st.trig, LtfSpan)

-----------------------------------------------------------------------------
(* step_sig: what the two SIG symbols decode to.  An NDP has no Data; a    *)
(* supported PPDU goes on to it; an unsupported one, and a reserved one    *)
(* whose fields still give a duration, are waited out with CCA BUSY; after *)
(* a CRC failure the scan resumes at the anchor, since the sync itself may *)
(* have been false.                                                        *)
SigReady == st.kind = "sig" /\ Proceed(st.anchor, SigSpan)
SigEnd == st.anchor + SigSpan
(* ppdu_start + duration: ppdu_start = anchor - 192 may lie before the     *)
(* stream; the wrapping subtraction of the release build is undone by the  *)
(* addition, since no duration is shorter than the preamble.               *)
PpduEnd(duration) == st.anchor - Lead + duration

SigNdp ==
  /\ SigReady
  /\ edBusy' = edBusy /\ midBusy' = midBusy
  /\ Rearm(SigEnd, SigEnd, None)
  /\ UNCHANGED <<pc, stream, bufAbs, edAbs, floor, midAbs, open>>

SigSupported(nSym, long) ==
  /\ SigReady
  /\ open' = TRUE
  /\ st' = IF long THEN LongPreamble(st.anchor, nSym) ELSE Data(SigEnd, nSym)
  /\ UNCHANGED <<pc, stream, buffer, energy, mid, inPpdu, cca>>

SigUnsupported(duration) ==
  /\ SigReady
  /\ edBusy' = edBusy /\ midBusy' = midBusy
  /\ Rearm(SigEnd, PpduEnd(duration), PpduEnd(duration))
  /\ UNCHANGED <<pc, stream, bufAbs, edAbs, floor, midAbs, open>>

(* rearm_after_violation without a duration, or a CRC failure.             *)
SigBad ==
  /\ SigReady
  /\ edBusy' = edBusy /\ midBusy' = midBusy
  /\ Rearm(SigEnd, st.anchor, None)
  /\ UNCHANGED <<pc, stream, bufAbs, edAbs, floor, midAbs, open>>

SigWait == st.kind = "sig" /\ Wait(st.anchor, SigSpan)

-----------------------------------------------------------------------------
(* step_long_preamble: D-STF, D-LTF and SIG-B pass, then the Data field.   *)
BeamStart == st.anchor + SigSpan

LongPreambleDone ==
  /\ st.kind = "long" /\ Proceed(BeamStart, LongPortion)
  /\ st' = Data(BeamStart + LongPortion, st.nSym)
  /\ UNCHANGED <<pc, stream, buffer, energy, mid, inPpdu, cca, open>>

LongPreambleWait == st.kind = "long" /\ Wait(BeamStart, LongPortion)

(* step_data: one symbol at the drifted FFT window.                        *)
Payload == st.start + st.n * Symbol + st.shift
SymbolReady == st.kind = "data" /\ Proceed(Payload, Symbol)

(* TimingTracker::update moves the window by at most one sample a symbol;  *)
(* the drift of one PPDU is bounded by the clocks of the two stations.     *)
Drifts(drift) == st.shift + drift \in -MaxShift .. MaxShift

(* push_symbol gives the PSDU with the last symbol only.                   *)
LastSymbol == st.n + 1 = st.nSym

(* Mutant: the run of powerless symbols is counted but not compared.       *)
DataSymbolNeverLost(lost, drift) ==
  /\ SymbolReady /\ Drifts(drift) /\ ~LastSymbol
  /\ LET run == IF lost THEN st.lostRun + 1 ELSE 0 IN
       /\ st' = [st EXCEPT !.n = @ + 1, !.lostRun = run, !.shift = @ + drift]
  /\ bufAbs' = Trimmed(st.start + Symbol * st.n)
  /\ UNCHANGED <<pc, stream, scanAbs, energy, mid, inPpdu, cca, open>>

(* Mutant: the symbol just counted is taken for the one before the window. *)
DataSymbolTrimsAhead(lost, drift) ==
  /\ SymbolReady /\ Drifts(drift) /\ ~LastSymbol
  /\ LET run == IF lost THEN st.lostRun + 1 ELSE 0 IN
       /\ run < CarrierLost
       /\ st' = [st EXCEPT !.n = @ + 1, !.lostRun = run, !.shift = @ + drift]
  /\ bufAbs' = Trimmed(st.start + Symbol * (st.n + 1))
  /\ UNCHANGED <<pc, stream, scanAbs, energy, mid, inPpdu, cca, open>>

(* A symbol is taken and is not the last (push_symbol returns None); the   *)
(* samples before it are dropped.                                          *)
DataSymbol(lost, drift) ==
  /\ SymbolReady /\ Drifts(drift) /\ ~LastSymbol
  /\ LET run == IF lost THEN st.lostRun + 1 ELSE 0 IN
       /\ run < CarrierLost
       /\ st' = [st EXCEPT !.n = @ + 1, !.lostRun = run, !.shift = @ + drift]
  /\ bufAbs' = Trimmed(st.start + Symbol * st.n)
  /\ UNCHANGED <<pc, stream, scanAbs, energy, mid, inPpdu, cca, open>>

(* Mutant: the end of a complete PSDU leaves RXSTART without its RXEND.    *)
DataCompleteSilent(lost) ==
  /\ SymbolReady
  /\ lost => st.lostRun + 1 < CarrierLost
  /\ LastSymbol
  /\ edBusy' = edBusy /\ midBusy' = midBusy
  /\ Rearm(st.end, st.end, None)
  /\ UNCHANGED <<pc, stream, bufAbs, edAbs, floor, midAbs, open>>

(* The last symbol: PsduReceived, RxEnd(NoError).                          *)
DataComplete(lost) ==
  /\ SymbolReady
  /\ lost => st.lostRun + 1 < CarrierLost
  /\ LastSymbol
  /\ open' = FALSE
  /\ edBusy' = edBusy /\ midBusy' = midBusy
  /\ Rearm(st.end, st.end, None)
  /\ UNCHANGED <<pc, stream, bufAbs, edAbs, floor, midAbs>>

(* Too many symbols in a row without power: RxEnd(CarrierLost), and the    *)
(* intended end of the PPDU is waited out.                                 *)
DataCarrierLost ==
  /\ SymbolReady
  /\ st.lostRun + 1 = CarrierLost
  /\ open' = FALSE
  /\ edBusy' = edBusy /\ midBusy' = midBusy
  /\ Rearm(Payload, st.end, st.end)
  /\ UNCHANGED <<pc, stream, bufAbs, edAbs, floor, midAbs>>

DataWait == st.kind = "data" /\ Wait(Payload, Symbol)

-----------------------------------------------------------------------------
(* step_mid while a PPDU is being received: the window follows the end of  *)
(* the buffer, and what it found before is taken back.                     *)
MidNotSearching ==
  /\ pc = "mid" /\ st.kind # "search"
  /\ midAbs' = MaxOf(MaxOf(total - MidWindow, 0), bufAbs)
  /\ midBusy' = FALSE
  /\ IF midBusy
     THEN edBusy' = edBusy /\ inPpdu' = inPpdu /\ UpdateCca(total)
     ELSE UNCHANGED <<edBusy, inPpdu, cca>>
  /\ pc' = "idle"
  /\ UNCHANGED <<stream, buffer, st, edAbs, floor, open>>

MidStart == MaxOf(midAbs, bufAbs)

(* detect_mid_packet: the guard intervals of Data symbols can only show in *)
(* a window that holds signal.                                             *)
MidShows(found) == found => MidStart < quiet

(* Mutant: the detector's verdict is noted without updating CCA.           *)
MidSearchWindowSilent(found) ==
  /\ pc = "mid" /\ st.kind = "search" /\ MidStart + MidWindow <= total
  /\ MidShows(found)
  /\ midAbs' = MidStart + MidStride
  /\ midBusy' = found
  /\ UNCHANGED <<pc, stream, buffer, st, energy, inPpdu, cca, open>>

(* step_mid while searching, one window.                                   *)
MidSearchWindow(found) ==
  /\ pc = "mid" /\ st.kind = "search" /\ MidStart + MidWindow <= total
  /\ MidShows(found)
  /\ midAbs' = MidStart + MidStride
  /\ midBusy' = found
  /\ IF found # midBusy
     THEN edBusy' = edBusy /\ inPpdu' = inPpdu /\ UpdateCca(MidStart + MidWindow)
     ELSE UNCHANGED <<edBusy, inPpdu, cca>>
  /\ UNCHANGED <<pc, stream, buffer, st, edAbs, floor, open>>

MidDone ==
  /\ pc = "mid" /\ st.kind = "search" /\ MidStart + MidWindow > total
  /\ midAbs' = MidStart
  /\ pc' = "idle"
  /\ UNCHANGED <<stream, buffer, st, energy, midBusy, inPpdu, cca, open>>

(* finish, then reset: a PPDU in progress ends as Truncated, whatever is   *)
(* held is dropped; the detectors' own flags stay.                         *)
Finish ==
  /\ pc = "idle" /\ total = Horizon
  /\ st' = Search /\ scanAbs' = total /\ inPpdu' = FALSE
  /\ bufAbs' = Trimmed(total)
  /\ open' = FALSE
  /\ edBusy' = edBusy /\ midBusy' = midBusy
  /\ LET busy == edBusy \/ midBusy IN
       /\ hold' = None /\ ccaBusy' = busy
       /\ told' = IF busy = ccaBusy THEN told
                  ELSE [told EXCEPT !.busy = busy, !.at = total]
  /\ UNCHANGED <<pc, stream, edAbs, floor, midAbs>>

-----------------------------------------------------------------------------
Energy == \/ \E high \in BOOLEAN : EnergyWindow(high)
          \/ EnergyDone \/ ExpireHold
Acquire == \/ \E p \in StfCandidates : StfFound(p)
           \/ StfNotFound
           \/ LtfFound \/ LtfNotFound \/ LtfWait
Signal == \/ \E n \in SymCounts, long \in BOOLEAN : SigSupported(n, long)
          \/ \E d \in Durations : SigUnsupported(d)
          \/ SigNdp \/ SigBad \/ SigWait
Receive == \/ LongPreambleDone \/ LongPreambleWait
           \/ \E lost \in BOOLEAN, d \in -1 .. 1 : DataSymbol(lost, d)
           \/ \E lost \in BOOLEAN : DataComplete(lost)
           \/ DataCarrierLost \/ DataWait
MidPacket == \/ \E found \in BOOLEAN : MidSearchWindow(found)
             \/ MidNotSearching \/ MidDone

(* The steps of a call to process().                                       *)
Process == Energy \/ Acquire \/ Signal \/ Receive \/ MidPacket

Next == (\E k \in Chunks : PushSamples(k)) \/ Process \/ Finish

Spec == Init /\ [][Next]_vars

(* A call runs to its end, and the radio goes on delivering samples.       *)
FairSpec ==
  Spec /\ WF_vars(Process) /\ WF_vars(\E k \in Chunks : PushSamples(k))

-----------------------------------------------------------------------------
(* CCA is BUSY exactly while one of the detectors, a PPDU in progress or a *)
(* predicted end says so, and the MAC has been told so: the three readers  *)
(* of the stream, each at its own position, never leave cca_busy behind.   *)
CcaIsTheFlags ==
  /\ ccaBusy = (edBusy \/ midBusy \/ inPpdu \/ hold # None)
  /\ told.busy = ccaBusy
  /\ inPpdu = (st.kind # "search")

(* A PHY-RXSTART is outstanding exactly while the Data field, or the long  *)
(* preamble before it, is being received: every exit gives one RXEND.      *)
RxEndForRxStart == open = (st.kind \in {"long", "data"})

(* The samples the receiver waits for have not been dropped: if they had   *)
(* been, extract would return None for ever and the receiver, with CCA     *)
(* BUSY, would be stuck.                                                   *)
NeededFrom ==
  CASE st.kind = "ltf"  -> st.trig
    [] st.kind = "sig"  -> st.anchor
    [] st.kind = "long" -> BeamStart
    [] st.kind = "data" -> Payload
    [] OTHER            -> bufAbs
NothingNeededIsTrimmed == bufAbs <= NeededFrom

(* Once the MAC has been told how long CCA will be held, it is not told    *)
(* IDLE before the stream has reached that position, unless the stream     *)
(* itself ends (finish).                                                   *)
IdleAfterHold ==
  [][(told.busy /\ ~told'.busy /\ ~Finish) => total >= told.promise]_vars

(* However the signal broke off, when the channel has fallen silent and    *)
(* samples go on arriving the receiver is searching again and CCA is IDLE  *)
(* for good.  In particular every call of process() comes to its end.      *)
ReleasedInSilence == <>[](st.kind = "search" /\ ~ccaBusy)
=============================================================================
