# A TLA+ model of s2g

s2g is an IEEE 802.11ah (S1G) radio in software: a PHY, a MAC, SDR drivers and
the tools that join them into a network node.  This directory models its
logic in TLA+, from the threads of the node down to coded bits, checks it with
TLC and proves the most important invariants with TLAPS.  Paths are relative to
the repository; line numbers of the code that each definition stands for are in
`PROJECT.json` ("map").

    tlc -config MacLink_ndp.cfg MCMacLink      # any run of PROJECT.json
    tlapm MacLinkProofs.tla                    # all proofs of a module

## The system

| Component | Where | State it keeps | Operations | Hard part | Modelled by |
|---|---|---|---|---|---|
| MAC engine, transfer | `s2g-mac/src/engine.rs` | queue, current batch, attempt in flight, expected response, duplicate rings, pending responses, sequence counter | `enqueue_eth`, `poll`, `on_phy_event` | late and lost answers, selective retransmission, restarts | `MacLink`, `FrameDelivery` |
| MAC engine, medium access | `engine.rs` | CCA, busy/NAV/RID ends, EIFS flag, contention window, backoff and response deadlines | the same calls | medium sampled only at polls, stale flags | `MediumAccess` |
| Adaptive response timeout | `engine.rs:350-420` | smoothed delay and deviation, the last timed-out attempt | sample per response | late answers of another exchange | `RespTimer`, `NodeLoop` |
| Station identification | `engine.rs`, `ident.rs` | when last sent, when last transmitted | `ident_due` in `poll` | end-of-communication rule | `StationIdent`, `NodeLoop` (text of the frame left out) |
| Rate control | `rate.rs` | per peer MCS, GI, coding, probe state, averages | `select`, `report`, `observe_snr` | a probe's outcome among other outcomes | `RateControl` |
| Good-neighbor filter | `filter.rs` | none | classify a frame | tunnels in tunnels, decision order | `NeighborFilter`, `FramePath` |
| Frame formats | `frame.rs`, `ndp.rs`, `ampdu.rs`, `eth.rs`, `fcs.rs` | none | build, parse, split | delimiter resynchronisation, IDs recomputed by the other side | `MacFrames`, `Ampdu`, `FramePath` |
| PHY receiver | `s2g-phy/src/rx/mod.rs` | buffer, search/sync/SIG/data state, CCA flags and hold | `process` a chunk of samples | CCA from four sources, every BUSY taken back | `PhyReceiver` |
| PHY coding chain | `tx.rs`, `sig.rs`, `scrambler.rs`, `bcc.rs`, `ldpc.rs`, `interleaver.rs`, `mapping.rs`, `pilots.rs`, `params.rs` | none | encode, decode | the receiver re-derives the sender's geometry | `S1gParams`, `PhyCoding`, `LdpcRate`, `SigField`, `PhyLink` (LDPC matrices out) |
| PHY signal processing | rest of `s2g-phy`, `s2g-dsp` | filters | floating point | numeric | its outcomes are choices in `PhyReceiver` |
| Node | `s2g-tools/src/bin/s2g-node.rs` | threads and their channels | receive, NIC and radio loops | stale timestamps, blocking sends | `NodeLoop` (options and printing out) |
| Pluto driver | `s2g-sdr-pluto` | two iiod connections, staging buffers | open, read, write | timeout inside a chunked reply | `PlutoRadio` (streaming) |
| Virtual Pluto | `s2g-virtual-pluto.rs` | shared air timeline, clients | read and write buffers | readers behind writers, underruns | `PlutoRadio` (streaming) |
| Packet capture | `pcap.rs` | backlog, attached flag | record, serve a pipe | attach/detach races | `PcapPipe` |
| Network interfaces, tools | `nic.rs`, `wintap.rs`, other `bin/`, `scripts/` | - | system calls, printing | - | not modelled |

How they interact: `s2g-node` owns one engine.  Its receive thread decodes SDR
samples with the PHY receiver and sends `PhyEvent`s over a channel; its NIC
thread sends Ethernet frames; its main loop gives both to the engine and polls
it after each event and at least every 2 ms (`recv_timeout`,
`s2g-node.rs:434-539`).  The engine answers with at most one `MacAction` per
poll, which the loop turns into samples for the SDR, and with `MacEvent`s for
the host (`EthReceived`, `TxComplete`, `TxDropped`).  Nothing is shared between
stations but the air, and because samples are streamed through buffers at both
ends, what a station hears may be hundreds of milliseconds old: every answer
races its own timeout.

What makes each component correct:

- transfer: every accepted frame is reported exactly once, nobody gets a frame
  twice, a frame reported acknowledged has arrived, airtime per frame is
  bounded, the engine never panics or wedges, everything is settled in the end;
- medium access: accesses respect reservations and CCA, protected data follows
  its own handshake, the window is reset per batch, backoffs terminate;
- rate control: the rate stays on the configured ladder, a probe is settled by
  its own outcome only, retries walk down one step at a time, and probes of the next MCS do
  not cease;
- response wait: it comes to cover the delay the network has, whatever answers
  were missed on the way, and no answer is timed from another attempt;
- identification: data is followed by one, however long frames keep coming;
- PHY receiver: CCA events alternate, each RXSTART has one RXEND, nothing still needed is
  trimmed, no error path leaves the receiver deaf or the medium busy;
- coding: what one station builds the other takes apart, damage is noticed, foreign
  PPDUs hold the medium for as long as they last;
- formats: a damaged MPDU costs itself alone, an answer names what was received;
- filter: a tunnel neither hides a packet from the policy nor gets it past it;
- iiod, virtual air: requests and replies stay in step, a reader hears what was sent;
- capture: a capture starts with its header and has no silent gaps.

## Modules

| Module | What it is |
|---|---|
| `MacLink` | the transfer engine of every station, and the air between them |
| `FrameDelivery` | what the MAC promises its hosts, without saying how |
| `MCMacLink` | traffic scenarios for TLC |
| `MacLinkProofs` | inductive invariants and theorems about the engines of `MacLink` and about what they deliver and report; the refinement of `FrameDelivery` |
| `MediumAccess`, `MediumAccessProofs` | one station's medium access under arbitrary PHY events; its invariant and theorems |
| `RateControl`, `MCRateControl`, `RateControlProofs` | rate control towards one peer, for any outcomes; tables for TLC; theorems |
| `RespTimer`, `StationIdent` | the response wait and the identification rule, as functions on records |
| `NodeLoop`, `MCNodeLoop` | the node's threads and loop around both; configurations for TLC |
| `PhyReceiver`, `PhyReceiverProofs` | the streaming receiver, over samples that are counted and never looked at; its invariant and theorems |
| `S1gParams`, `PhyCoding`, `LdpcRate`, `SigField` | pure algorithms of the PHY: numbers, bits, codewords, SIG fields |
| `PhyLink`, `MCPhyLink`, `PhyLinkProofs` | one PPDU from TXVECTOR to RXVECTOR through those; fades for TLC; what can be on the air and theorems |
| `NeighborFilter`, `MacFrames`, `Ampdu` | pure algorithms of the MAC: filter, frames and NDPs, aggregation |
| `FramePath`, `MCFramePath`, `FramePathProofs` | a packet through tunnels, a PSDU through a damaging channel and back; inputs for TLC; invariants of tunnels and of fields and theorems |
| `PlutoRadio`, `PlutoRadioProofs` | the driver and the virtual radio it streams to and from; the invariant of both lines and its theorems |
| `PcapPipe` | the live capture |
| `NodeProofs` | the node's invariants and theorems: the times of `NodeLoop`, the records of `PcapPipe` |

Who builds on whom: `NodeLoop` extends `RespTimer` and `StationIdent`; `PhyLink` extends the four
PHY modules; `FramePath` extends `Ampdu` (which extends `MacFrames`) and `NeighborFilter`;
`MacLink` instantiates `FrameDelivery`.  The seven state machines meet at interfaces where one
leaves open what another decides: `MacLink` lets any rate be chosen and any timer expire
(`RateControl`, `NodeLoop`), `MediumAccess` takes any event a receiver can give (`PhyReceiver`)
and any decision of the transfer half, `PhyReceiver` takes any outcome of a SIG
(`PhyLink`), `NodeLoop` any loss.

### MacLink

`mac[n]` is the `Mac` struct of station n as far as transfer is concerned, and
each handler is an operator from record to record, so that an action reads like
the call it stands for:

| Code | Model |
|---|---|
| `queue`, `cur.mpdus`, `cur.in_flight`, `cur.cts_ok` | `queue`, `batch`, `flight`, `ctsOk` (`batch = {}` is `cur = None`) |
| `state: TxState` | `mode` and `expect` (type of response, and its ID) |
| `dedup` | `dedup[n][s]`, one ring per source |
| `pending_resp` | `responses` |
| `MacEvent`s | history: `outcome[f]` of each frame, `given[n][f]` |
| `enqueue_eth` | `Offer` / `EnqueueEth` |
| `poll` steps 1; 2 and 3; 3; 4 | `PollResponse`; `PollTimeout`; `PollPull`; `PollRts`, `PollData` |
| `plan_attempt` | `PlanAttempt` |
| `resolve_attempt`, `fail_attempt` | `ResolveAttempt`, `FailAttempt`, `Retry`, `Continue` |
| `on_ndp`, `on_mpdu` | `ReceiveNdpAck`, `ReceiveBlockAck`, `ReceiveCts`, `ReceiveAck`, `ReceiveRts` |
| `Psdu` event, `note_duplicate`, `queue_ack`, `queue_block_ack` | `ReceiveData`, `NoteDuplicate`, `DataResponse`, `BlockAck` |
| `Mac::new` after the program was stopped | `Restart` (only in `RestartSpec`) |

Frames are numbered in the order hosts offer them, so FIFO queues and batches
are sets of numbers and "the oldest" is the minimum.  `mpdus` that were answered
leave the batch, and `flight` is a set of frames where the code keeps indices:
that these agree is `FlightIsAwaited`.

The air is one FIFO per ordered pair of stations.  A transmission reaches any
subset of those it concerns, each with any non-empty subset of its MPDUs
(A-MPDU MPDUs have their own FCS), and waits there any length of time.  That
covers loss, garbled MPDUs, and answers later than any timeout.  It does not
cover reordering, which a sample stream cannot do, or duplication, which only
retransmission does here.  Where the model chooses and the code computes: the
rate (`Choice`, any for each attempt), the expiry of a backoff and of a response
timeout (any time).  Rate control and the timers can only choose among these
behaviours.

Left out: what `FramePath` (payloads, formats, filter) and `NodeLoop` (call-sign identification,
the response wait) have, and addresses other than a host's own as source
(bridging): with Acks of the legacy kind such frames are answered to that source, so
that the answer does not reach the engine that waits for it (`engine.rs:745-754`).

`FrameDelivery` keeps only `outcome` and `got`.  `MacLink` implements it
through `Receivers <- ..., outcome <- mac[Origin[f]].outcome[f], got <- {n :
given[n][f] > 0}` (`DeliverySpec`).  The interesting step is `Report`: frames may
be called acknowledged only when all their receivers have them.

### MediumAccess

Deadlines are kept as remaining time, so that no clock grows; `Tick` lets one
unit pass and polls may come any number of units late.  The PHY may report
anything at any time (CCA with any hold, a PPDU of any length with any response
indication, garbled frames, others' frames with any Duration, NDPs) until
`GoQuiet`.  What the transfer half decides is left open: a batch is "group"
(anything nobody acknowledges: group-addressed, identification, Acks off),
"short" or "long" (more than the RTS threshold), and an attempt may end the
batch or leave part of it.  `history` remembers the reservations of others still running and
the last two accesses; no guard reads it.

The path where no PSDU can be built (`engine.rs:1104-1115`) is left out of this
module: `AcceptedIsBuildable` of `MacLink`, a theorem, says that it cannot be taken.

### RateControl

`peer` is the `Peer` record of `rate.rs` (`since` for `since_probe`, `lastMcs` for
"the last probe was one of the MCS", `failSnr` for `probe_fail_snr_db`, `clean` for the
delay spread being within its limit); peers share nothing.  The engine's side is
`attempt`, `onAir` and `retry` (`rate_failures`): each data attempt calls `select` when it goes
out and `report` once when it is answered or timed out (`engine.rs:662-722`, `1097`), a lost RTS
neither.  `SelectFresh` and `SelectRetry` are the two halves of `select`, `Report` is `report`, in
the order of the code: sample, failure noted, probe settled, guard interval
reviewed, MCS reviewed.  `observe_snr` and `observe_delay_spread` may come between any two of them.

Floating-point numbers become small integers.  Probabilities are 0 .. `Full`, and a
sample moves one any distance towards itself, which covers every weight and
rounding.  The number of octets and the cost of a failure (`set_fail_cost_us`) enter only
as the airtime saved per failure cost, a table of `Gains` chosen anew at each call; the
code keeps the octets of the latest `select` for the `report`, which is one of these
choices.  The smoothed SNR takes any value of `Snrs` at an observation.  Left out:
counters shown to the user and the carrier offset.

### NodeLoop, RespTimer, StationIdent

`NodeLoop` is the main loop of `s2g-node.rs:434-539` between its two other threads.  `msgs` is the
channel; `loop` says whether the loop waits (and how long ago it has read the clock) or is
blocked in `sdr_tx.send`; `mac` is what the engine keeps of time.

| Code | Model |
|---|---|
| `recv_timeout`, `on_phy_event` / `enqueue_eth`, `poll`, `send` | `Turn`, with `Handled`, `Polled` |
| a PPDU that asks for a control response; `poll` step 1 | `OthersAsk`; `Asked` in `Polled` |
| `on_phy_event(now, ..)` with the `now` of before the wait | argument `stale` of `Answered` |
| `poll` steps 2, 3, 4 | `GivenUp`, `Pulled`, `Accessed` with `Transmitted` |
| `medium_busy` at the end of a backoff, which makes it draw again | argument `busy` of `Accessed` |
| `response_timeout_us`, `update_response_delay`, `note_late_response` | `Wait`, `Updated`, `UpdatedLate` |
| `late_expect` | `mac.late` |
| `ident_due` | `IdentDue` |
| NIC thread; RX thread | `NicFrame`; `PeerAnswers`, `AnswerLost` |

Time is discrete and in ticks of the loop's 2 ms; an attempt and its answer are known by their age,
so no clock grows.  Time passes only while the loop waits or is blocked.  Where others share the medium
(`shared` of `Setup`) they may ask for a control response at any time, which preempts whatever the poll would do, and the
medium may be busy whenever a backoff is over.  A batch is one frame that is answered by an NDP Ack, without RTS, the default:
RTS and batches answered in part are left to `MacLink`, the reasons why the medium is busy to `MediumAccess`, and rates to
`RateControl`.  (With RTS the estimate has no attempt to tell from another: every CTS to this station answers every RTS
of its own, `engine.rs:645-650`.)
`late_expect` is forgotten in the model once its answer can no longer come: nothing in the engine
could tell the difference.  `Setup` holds two configurations: an adaptive wait whose answers suddenly
take four times as long, and a call sign with a fixed wait on a shared medium.  (They are apart because the
estimate and the times of identification multiply.  `EstimateIsOfDelays` holds with an adaptive wait on a shared medium
too, 2.2 million states; `LearnsTheDelay` does not, because responses to others block the loop
at any time and the time answers take never settles.)

### PhyReceiver

One call of `process` is a sequence of steps ordered by `pc`: the energy detector over the whole
chunk (`EnergyWindow`, `ExpireHold`), the pipeline until it must wait (`Acquire`, `Signal`,
`Receive`, each action one outcome of one stage; the buffer is trimmed on the way), then the mid-packet
detector (`MidPacket`).  `Finish` ends the stream.  Each writes the CCA flags through `UpdateCca` at its own position in the
stream, as the code does.  What a detector or decoder makes of samples is a choice, limited to what samples
up to `quiet`, where the channel falls silent, can show.  Units of a sample divide every window.
The start of a PPDU, `anchor - 192` (`rx/mod.rs:756`), may lie before the stream when an LTS is found near its
beginning.  The release build wraps there and the addition of the duration undoes it, which is
what `PpduEnd` says; a build with overflow checks would panic.
A hold may be taken back up to a chunk late: `IdleAfterHold` says only that it is never taken back early.

### S1gParams, PhyCoding, LdpcRate, SigField, PhyLink

`S1gParams` has the MCS table, durations and symbol counts (`params.rs`, `vector.rs`), `PhyCoding` scrambler,
convolutional code with puncturing, interleaver, constellations and pilot positions, `LdpcRate` the
rate matching of LDPC (`PpduParams`), `SigField` both SIG formats with CRC-4 and what a
receiver makes of them.  `PhyLink` sends one PPDU through them: `Transmit` or `Refuse` (`tx.rs`), an NDP, or a
PPDU of another station in any mode the SIG can express; `ResidualError` leaves a burst of wrong bits in the SIG,
`Fade` blots out neighbouring subcarriers; `Receive` is the receiver's decoding: `sig` becomes the bits heard, `out` the verdict on
them, and `data` the PSDU and seed where the Data field is decoded too.  The Viterbi decoder is
the real add-compare-select over integers, exact because amplitudes are integers without K_MOD;
for LDPC only the positions of bits are followed, the parity matrices and the min-sum decoder are left out.

### NeighborFilter, MacFrames, Ampdu, FramePath

`NeighborFilter` classifies a sequence of headers as `filter.rs` does, with its `MAX_DEPTH` and its
order of decisions; the offsets of fields within octets are left out.  ESP is taken for ESP-NULL around IPv6, IPv4, TCP, UDP and ICMPv6 (and
padding, next header 59), and as encrypted around anything else (`filter.rs:419-436`): such a packet passes bare and not
in ESP, so `Wrap` does not build it.  `MacFrames` and `Ampdu` build and
parse octets, with the real FCS and delimiter CRC.  In `FramePath` a packet is wrapped in tunnel after
tunnel (`Wrap`), or a batch is sent (`TransmitBatch`, `TransmitRts`), hit (`Damage`), heard (`Hear`), answered (`Answer`) and
the answer read by the sender; frames of other makers and every NDP are parsed in between (`Others`).
Payloads hold no octets that look like a delimiter, and damage is a burst of at most eight
bits in at most two MPDUs: a lookalike that passes both CRC-8 and FCS is possible in
principle and not searched for.  `PlainLimit` is 43 octets where the code has 511.

### PlutoRadio

Station 1's `PlutoTx` streams into a radio of `s2g-virtual-pluto`, station 2's `PlutoRx` reads what another one hears.
Each stream is a client, a server thread and the tokens (lines or samples) between them; the two server threads
share `now`, the timeline `tx` and `rxPos`, one lock-protected block per action.  With `Chunked` the server answers
as iiod may: in chunks, short, with an error.  A read may time out anywhere (`RecvTimesOut`, `SendTimesOut`), and the callers
then do what the code does: go on with the same connection.  Lines arrive whole.  One effect of that is kept out: a mask line
left over from a call that timed out right before it reads as a size of 3 (it is `00000003`), and the call then fails on the
samples behind it (`ReadGarbage`).  Should that call time out as well, after the mask line and before the next, the
driver goes on expecting a mask that has passed, takes a line out of the samples for it and hands over
samples that are shifted; the same may follow if a newline stands in the right octet of the last sample of a
chunk.  `HeardIsOnAir` says nothing of these.

### PcapPipe

`LookAtFlag` and `TrySend` are `PcapWriter::write` on the main loop; `Connect`, `Drain`, `RaiseFlag`, `WriteHeader`,
`ServeRecord`, `Probe`, `LowerFlag`, `Drop` are the thread of the pipe, each access to the flag an action of its
own (sequentially consistent, which is at least what the accesses' ordering with the channel
needs); `Open`, `Read`, `Close` are the readers.  A record is its number; what a pipe holds is lost when neither end is open.

## Runs

| Run | Bounds | What it asks |
|---|---|---|
| `engine_ndp_ack` | 2 stations; 3 unicast frames and a broadcast; queue 3, A-MPDU of 2 behind an RTS, NDP Acks, 1 retry | the books of the engine, the refinement of `FrameDelivery`, and `EveryFrameSettled` under fairness |
| `engine_rts` | 2 stations; 2 unicast, 1 broadcast, 1 oversized; RTS always, legacy Acks; queue 2, 1 retry | the handshake, and refusal |
| `access` | times of 1-3 units, window 0..1 | deferral, handshake, and that backoffs end |
| `rate` | ladder of 3, both modes automatic, interval 1, backoff cap 4, probabilities 0 and 1, walks of up to 2 retries | booking of outcomes, the walk of the retries, and `LadderIsProbed` under fairness |
| `receiver` | 21 units in chunks of 1, 2 or 5; silence from 4 or 6 on; PPDUs of 1 or 3 symbols | CCA, RXSTART/RXEND, the buffer, and release in silence |
| `radio` | 2 bursts of 2 samples, 2 reads, clock to 6, 1 timeout | what is heard, what is acknowledged, connections in step |
| `phy_link` | MCS 0, 2, 4, 7, 11 with both GIs, FECs and formats; PSDUs from 1 to 9000 octets; all SIGs of others with lengths 0, 1, 3, 511 | PPDUs are understood, damage is noticed |
| `frame_path` | 14 packets, 9 policies, 4 tunnels; batches of up to 3 | tunnels, damage, answers, formats |
| `node` | delays of 2 jumping to 8 ticks, wait up to 11; 1 retry, backoffs of 0..3 ticks; interval 12 ticks, others on the medium | the wait and identification, with both liveness properties |
| `capture` | 3 readers, 6 records, backlog 2, pipe 2 | streams are captures, a detach is seen |
| `engine_late_ack` | 2 frames, legacy Acks | disagreement: see below |
| `engine_restart_dedup` | 2 stations that may restart at any time, NDP Acks | disagreement: see below |

Why the bounds are enough for what they ask.  One retry already separates the
first attempt, the retransmission and the drop.  Batches of two with capacity
for one (`slow`) or two (`fast`) give partial flights, partial BlockAcks and
batches of mixed retry counts; a third frame gives a next batch that a late
answer can hit.  A duplicate ring of 2 for batches of 2 keeps the proportion in
which 64 covers batches of 16 and several of them; eight sequence numbers let
a ring outlive its numbers no sooner than the code's does for this traffic.
There is a single scrambler seed, so all BlockAck IDs collide and only
the Ack IDs' FCS part tells attempts apart: the worst case.  For `MediumAccess`
DIFS (2) and EIFS (3) differ and exceed a slot, a PPDU hold may outlast a
backoff and be outlasted by it, and Durations of 1 and 2 overlap in both
orders.  The proofs lift all of these bounds for the properties they cover.

For `RateControl` a ladder of three and two retries hold every kind of step of a
walk: to the long guard interval, to the next MCS, and staying at the bottom
(the proof covers walks of any length); a backoff cap of four times the
interval is reached after two failures, so that a kind of probe that fails for the first time waits for less than
one that has failed often; the SNR of 2 allows the second MCS but not the third, except with LDPC, so both kinds of MCS
probe occur; probabilities 0 and 1 with a floor of 1 are failing and flawless rates, in any order.
The same configuration without the premise of `LadderIsProbed` finds the starvation described below.

For `PhyReceiver` the horizon holds a PPDU, a second one that overlaps it, and the silence after;
chunks of 1 and 5 are shorter and longer than every window, so that decisions fall within and between
calls; durations of 4 and 6 leave a hold that ends within and after the symbols decoded.
For `PlutoRadio` a burst is a whole buffer, one of them follows the other with or
without an underrun, latency and lookahead are 1, and a timeline kept for 3 lets a reader fall behind.
For `PhyLink` the MCSs have every constellation and every code rate; lengths of 511 and 512 are the
border of aggregation, 9000 the refusal; of the LDPC codeword sizes each occurs.  Fades of
8 to 18 of 56 subcarriers are within what the code repairs: MCS 0 with 30 loses PSDUs.
For `FramePath` four tunnels are one more than `MAX_DEPTH`; sequence numbers start before 4094, so batches wrap;
batches of three have a damaged MPDU before, between and behind whole ones; the damage covers a delimiter's
length and CRC, its signature, a header, a body and an FCS.
For `NodeLoop` the second delay exceeds the wait learned from the first, so that an answer comes after its
attempt is given up, in the backoff or with the next attempt in flight; the interval is longer and the
end-idle time shorter than a batch with its retry on an idle medium, and on a busy one a batch outlasts both.
For `PcapPipe` a backlog of two fills while a reader reads slowly; six records suffice for a first
reader, its detach and a second one, and a third one comes after a second that came too early.

Deadlock checking is on in the runs of `MacLink`, `MediumAccess`, `RateControl` and `NodeLoop`.
The engine's runs end in `Quiescent`, which is enabled only when every frame is settled, nothing is on the air and
no response waits; a state that is stuck short of that is a deadlock.  The others end
where their bounds do: at the last sample, call, record or the verdict on the one PPDU or frame.

### Fairness

`FairSpec` of `MacLink` assumes weak fairness of each station's polls and of its
receptions, each taken together.  The main loop polls after every event and at least each 2 ms, so
while a poll has something to do one is made, whatever it finds first; the receive thread forwards events in
order through an unbounded channel, so what is heard is processed.  Losses are
not constrained: all may be lost for ever, and frames are then dropped.  A backoff that
expires is justified by `BackoffEnds`, a timeout by the deadline being a number.
`FairSpec` of `MediumAccess` assumes that time passes, that the node polls, and
that the other stations do not talk for ever (`GoQuiet`); without the last one
a station may indeed defer for ever, as in any CSMA.

`FairSpec` of `RateControl` assumes that the engine always makes a next attempt and that each
is answered or times out; it says nothing of outcomes or observations.

`FairSpec` of `PhyReceiver` assumes that samples keep coming and that each step of a call is followed by the next.

`Spec` of `NodeLoop` assumes weak fairness of the loop, of the RX thread and of time.  The loop is faster than frames and
others' PPDUs come, so that its wait times out again and again (`Timeout`); without that they could keep the clock still.  A backoff
that is over again and again finds the medium idle some time and ends (`Access`): others pause, as `BackoffEnds` of
`MediumAccess` assumes too.  For the backoff
it assumes that the longest value is drawn again and again as long as backoffs are drawn
(`LongestDraw`), which uniform draws justify: an answer that is longer under way than the wait is heard
only if the next attempt starts late enough.  Losses are bounded in the configuration with a call sign and none
in the other, as nothing can be learned from answers that never come.

`PipeSpec` of `PcapPipe` assumes that the thread of the pipe runs, its timeouts included; readers and the main
loop may stop at any time.

### Disagreements between code and documentation

- `engine_late_ack`: a legacy Ack names no frame (`engine.rs:745-754`), so one
  that arrives after its timeout completes the next frame in flight, although
  `TxComplete` is documented as "delivered" (`engine.rs:161`).  NDP Acks, the default, do not
  have this (`engine_ndp_ack` checks the same property).
- `engine_restart_dedup`: after a restart sequence numbers begin at 0 again (`engine.rs:319`); a peer that still remembers them
  acknowledges fresh frames as duplicates and throws them away, and they are reported as delivered (`:161`), with NDP Acks as well.

Others have a configuration of their own that shows them: each finds a counterexample, and none is
among the runs above.

| Configuration | Module | Property | What it shows |
|---|---|---|---|
| `MacLink_wrap` | `MCMacLink` | `AckedIsDelivered` | `note_duplicate` does not look at the Retry bit, and all destinations share one counter (`engine.rs:488`): a frame whose sequence number a rarely addressed peer still remembers from one round (4096 frames) earlier is acknowledged as a duplicate and not delivered, against `:161` |
| `MediumAccess_response_busy` | `MediumAccess` | `NeverTransmitsOverBusy` | responses are sent without a look at CCA (`engine.rs:1006`), which the head comment (`:8-10`) excludes |
| `MediumAccess_no_idle_difs` | `MediumAccess` | `AccessAfterIdleDifs` | the medium is examined only when the backoff has run out (`engine.rs:1062`), so activity that ended just before is not followed by DIFS (`:18-20`) |
| `MediumAccess_stale_cts` | `MediumAccess` | `ProtectedWhileReserved` | the permission of a CTS does not expire with its reservation (`engine.rs:648`, `:90`) |
| `RateControl_starved_gi` | `MCRateControl` | `ShortGiIsTriedAgain` | `probe_backoff_max` is documented as the longest wait between probes (`rate.rs:116`), but the three kinds share one wait that each resets, and the MCS is looked at first (`rate.rs:482-521`): while MCS probes are due no later, the short guard interval never gets its turn |
| `RateControl_starved_mcs` | `MCRateControl` | `NextMcsIsTriedAgain` | the same for the MCS: a short guard interval that is taken and given up again and again starts with the shortest wait each time (`rate.rs:116`, `:482-521`), and each of its probes sets back the wait of an MCS whose probes have failed more often.  Only once the guard interval settles does the MCS get its turn: `LadderIsProbed` |
| `NodeLoop_ident_interval` | `MCNodeLoop` | `IdentWithinInterval` | identification repeats "at least every" interval by `engine.rs:37-39` and the repository's `README.md:242`, but is looked at only between batches: data may go out a batch later, and a batch lasts as long as its retries and a busy medium, where backoffs are drawn again (`engine.rs:1062-1067`), make it last |
| `NodeLoop_long_jump` | `MCNodeLoop` | `LearnsTheDelay` | "a response that still turns up widens the estimate" (`engine.rs:290`), but `late_expect` keeps only the latest attempt (`:953`): when the delay jumps beyond wait plus longest backoff plus wait, the answer always comes after the next timeout and is never matched while frames keep coming.  From a learned delay of 10 ms (a wait of about 19 ms) that is a jump to some 60 ms, well below the ceiling of 150 ms |
| `PcapPipe_header` | `PcapPipe` | `EachGetsItsHeader` | on a FIFO a second reader can open before the thread has noticed that the first one left, and gets the rest of its stream without a header (`pcap.rs`, the comment of `open`) |

Three effects have no property: with more peers a BlockAck for another
station's A-MPDU with the same six seed bits can complete frames
(`engine.rs:616`); EIFS raised while a backoff already runs does not
lengthen it (`engine.rs:890-898` reads the flag only when it draws); and "worker thread died"
(`s2g-node.rs:464`) cannot be reached, because the main loop keeps a sender of the channel itself.
After a timeout inside an iiod reply the connection may stay out of step for good; the documentation makes
no claim about that, and `InSync` says precisely when it has not happened.

## Proofs

The first part of `MacLinkProofs` proves for `RestartSpec`, that is for `Spec` and with restarts at any
time, and for any stations, traffic, rates, limits, seeds and sequence space:
`EngineTypeOK`, `BackoffImpliesCur`, `FlightIsAwaited`, `FrameConservation`, `RetryBudget`
(`EngineIsSafe` restates them for `Spec`).  The argument: all but the types are
facts about one record, so the inductive invariant `LinkInv` is the type
invariant and `MacInv(mac[n])` for every n, and each handler has a lemma that
it preserves `MacInv`.  `MacInv` adds what the properties lack to be inductive:
a frame's airtime is bounded by its retries so far (`aired <= retries`, plus one
while it is in flight), frames in hand still have retries left, new frames were never on the air,
and the expected response fits the kind of flight.  `LinkInvStep` then has one case per action.

Its second part ("What is delivered") proves `AtMostOnce`, `ReorderWithinBatch`, `AcceptedIsBuildable` and `TypeOK` for `Spec`, with any
stations, frames, rates, limits and sequence space.  None of them can be seen from one engine's record, so
`DeliveryInv` adds to `LinkInv` a `PairInv` for each sender s and receiver n.  Copies of a frame
f may be queued on the line while f is still being retransmitted; what must not happen is that its number drops out of
the ring of n between two copies.  `TogetherInv` therefore follows, for each f that may still come, the batch B it was pulled with
(`BatchOf`): at most `MaxAmpdu` frames with different numbers.  From the first copy of f on, the line holds frames of B only,
because `poll` pulls nothing else before the batch is settled and the line is a FIFO; and when n has f, everything
behind f in the ring is of B as well.  As the ring holds at least a batch (`DedupAssumption`), f's
number is still there when its next copy comes.  This does not depend on how often sequence numbers have wrapped around:
two frames with one number are never in one batch, and a false duplicate only makes fewer deliveries.
What is given earlier than f and numbered higher is of B too, which bounds reordering.  The rest of the invariant is of
one station (`StationInv`): what was sent is older than what is queued (`OrderInv`), the frames of a batch have one destination, and
each frame held fits alone at `Floor` (`FloorInv`), hence at any rate.  `Deduplicate` is a recursive function on sets of MPDUs;
`DeduplicateIsNoted` unfolds it by well-founded induction on their cardinality (`SetInduction`).

Its last part ("What an acknowledgment says") proves `AckedIsDelivered` (`AckedIsTrue`) and `DeliverySpec` (`DeliveryImplemented`), given
`AnswersNameFrames`: NDP Acks are on, no station offers more frames than there are sequence numbers, and either nothing is
aggregated or no third station that sends hears a BlockAck.  Each part excludes an effect the code has: without the first, an
Ack that comes late is taken for another frame's (`engine_late_ack`); without the second, a number in use again makes a
false duplicate (`MacLink_wrap`); without the third, another station's BlockAck with the same seed bits is taken
for one's own (`engine.rs:616`).  Run `engine_ndp_ack` meets it, which `MCMacLink` has TLC check (`BurstIsNamed`).
`AckInv` adds to `DeliveryInv` what ties a report to a delivery, station by station and along the way back: frames are numbered in the order sent, without a gap
(`NumberInv`), so that a number means one frame; the response awaited names the frame of a
single flight (`AwaitInv`); an answer prepared or on the air names frames its sender's host has (`AnswerInv`); a number in a
ring is that of a frame already handed over (`RingGiven`), so that what is acknowledged as a
duplicate was delivered; and what is reported acknowledged has arrived (`AckedInv`).  `AckStep` has one lemma per action.
For a BlockAck the bitmap may also be an earlier one, for MPDUs of the same batch or of one before: what it marks
was delivered all the same.
The refinement rests on it: `Offer` is `Accept`, a received data PPDU is `Deliver` or invisible (`ReceiveDelivers`), and every other step of an engine
is `Report`, of no frame where nothing is settled; its guard is what `AckInv` says after the step (`ReportStep`, `StepDelivers`).

`MediumAccessProofs` proves `TypeOK`, `AccessDefers`, `LongDataFollowsRts`, `FreshWindow` and
`StateMatchesBatch` for any times and windows.  `AccessInv` adds that the NAV covers every
reservation still running (`NavCovers`), that the RTS is the latest access while its CTS
is awaited or in force (`HandshakeIsLatest`), that a long attempt in flight used its
handshake (`AttemptFlag`), and that a group batch finds and leaves the smallest
window (`GroupWindow`).

`RateControlProofs` proves every safety property of `RateControl`, for any ladder bounds, fixed or
automatic modes, intervals, caps, gain tables and SNR values: `TypeOK` (rates within bounds,
backoffs below their cap), `ProbeIsOnAir`, `RetryKnowsItsFailure`, `LdpcOnlyIfKnown` and the action
property `RetriesWalkDown`.  `report` is a chain of updates of one record, so there is one lemma per
link (`SampledType` to `McsReviewedType`) that says what it keeps, and `ReportType` puts them together.
`RateInv` adds what the walk needs: the attempt in hand is as many steps below the failure
remembered as retries have been made (`AttemptOfWalk`), a fresh attempt has no failure behind
it (`FreshIsUnblemished`), and a fixed guard interval is always the one used.

`PhyReceiverProofs` proves every safety property of `PhyReceiver`, for any windows, strides, PPDU lengths, chunks
and lengths of stream.  `CcaIsTheFlags` and `RxEndForRxStart` are inductive as they stand, with one case per
action.  `NothingNeededIsTrimmed` rests on the bound of the drift, `MaxShift <= Symbol + TrimSlack`: a stage
waits for samples from no earlier than what `trim` keeps.  The action property `IdleAfterHold` needs `HoldInv`:
the search goes on behind every hold, so that none is left once another PPDU has been triggered
(`NoHoldInPpdu`), and what the MAC was promised last is the hold in force or lies behind
the stream (`Promised`, `Finished`).

`PlutoRadioProofs` proves `HeardIsOnAir`, `AckedIsOnAir` and `InSync` for any buffer size, latency, clock bound,
number of calls and timeouts, with virtual Pluto and with iiod (`Chunked`).  `IInv` follows both lines.  From the
server to the caller of `recv()`: a size on the line is followed by as many samples, the one mask line comes before them and
is still to come exactly while the client waits for it (`WireInv`), and what was handed over, staged and sent
is, in this order, numbered upwards, below `rxPos` and true of the air (`LineInv`).  This part holds across timeouts.
The air: the timeline holds what was placed and lacks only what is more than `LookBack` old
(`AirInv`); appending, restarting after an underrun and trimming keep it (`Extended` and the lemmas around it), and so
nothing already heard is ever contradicted.  From the sender to the air: the staged chunk is numbered without a gap (`SenderInv`),
and the server's payload has its announced size (`ServerInv`).  Two parts hold while no answer has come too
late: what either line holds is the rest of the one call under way (`RxSynced`, `TxSynced`), and what the sender counts
as written is placed once and in order (`Delivered`).  After a timeout they fail, as the code lets them.

The first part of `NodeProofs` proves the lower half of `EstimateIsOfDelays` (`NotTooShort`), for any configurations,
delays, waits, backoffs, retries, blocking of the radio and PPDUs of others.  For the estimate, an answer is at least as old as its delay when the engine hears of it (`AgeInv`), the
clock is stale by one tick at most, and smoothing keeps to the side of a bound that its samples keep to (`UpdatedBound`).
Each stage of a turn (the message, the deadline, the pull, the attempt) has its lemma.

The second part of `NodeProofs` proves `StreamIsACapture` for any backlog, pipe, number of records and readers.  The stream alone
is not inductive: `GuestInv` follows the whole line from what has been read through the pipe to the
backlog, which only grows at its end.  Before the flag goes up at most one record, sent on an old
reading of the flag, is in it (`Waits`); from then on whatever is written is in line or
counted (`LineSettled`).

`PhyLinkProofs` proves `OwnPpduIsUnderstood`, `DamagedSigIsRefused`, `LdpcBitsFindTheirPlace` and `HoldIsTheAirTime`
of `PhyLink`, for any set of valid MCSs, any PSDU lengths and any fade that leaves a subcarrier of the SIG
(`FadeAssumption`).  `LinkInv` says what can be on the air (`IsPpdu`: a PPDU of ours built from a TXVECTOR, an NDP, or another
station's), how the SIG differs from what was sent, and that the verdict is that of the bits heard; the rest is
about the operators, each lemma a step of the code's computation and back:
- the SIG: where each field lies in the 48 bits (`SuLayout`, `MuLayout`), that a field read is the number written
  (`UintReadsBack`), and that the format is told apart by its second symbol, through a fade as well (`FormatIsSeen`);
- the CRC is a register that can be run backwards: two words that agree outside four neighbouring bits and
  end in one state agree everywhere (`BurstIsCaught`), whatever the 38 bits are.  The premise `faded = {}` of `DamagedSigIsRefused` excludes
  nothing that occurs: a fade leaves no wrong bits, which is `FadeIsRepaired`;
- geometry: the Length field, octets or symbols, and the extra bit give back the number of symbols and of octets that the transmitter
  chose (`GeometryFoundBack`), which goes through two roundings and, for LDPC, an added symbol;
- LDPC: for every MCS and number of symbols the shortened, punctured and repeated codewords take up all coded bits and carry all data
  bits (`ParamsAreCut`, `CodewordsAddUp`), and the decoder fills exactly the positions the encoder sent, in every codeword (`PositionsAgree`; the
  property looks at the first and the last);
- air time: the symbols another station computes with the standard's equations are those `duration_from_fields` finds (`SymbolsAgree`), for the fields
  of `OtherFields` and `MuFields`, and with a reserved bit cleared (`ClearedSig`).

What is read from tables (the ten rates, bit positions, fields of a few bits) is proved by cases over the tables; what is a length
is proved for any.

`FramePathProofs` proves `TunnelsChangeNothing` and `FieldsReadBack` of `FramePath`; of `PhyLinkProofs` it uses the lemmas about sequences and bits.

For the tunnels, `TunnelInv` says of a packet wrapped so far: at any depth d it passes exactly if d and its tunnels are at most
`MAX_DEPTH` and the packet at its heart passes at depth 0.  It is kept by `Wrap` because the
check of a header sees only that header and the verdict on the next one (`SameVerdict`), so that the verdicts on those
behind do not change when one is put in front (`PrefixedVerdict`), and because each kind of tunnel costs one level (`Ip6InIp6`, `GreOfIp6`,
`BridgedIp6`, `VxlanOfIp6`, and `EspOfIp6` for ESP-NULL, which goes between IPv6 and what it carries, if that is a header the heuristic knows, `EspNullIsSeen`).  That the verdicts exist at all, from the last
header to the first, is a recursion (`VerdictsExist`).  The packet at the heart is IPv6, or IPv4 in IPv6, with one
header behind that is no tunnel (`InnerAssumption`), the policy any that does not block VXLAN's own ports: otherwise dropping the tunnel is what was asked
for (`PolicyAssumption`).

For the fields, `FieldsInv` says that everything on the air is read as what it was built from.  The argument is one of
places: a frame is pieces joined, each piece stands behind those before it (`ThreePieces`, `DataLayout`, `HeaderParts`), a parser that
looks there finds it (`FieldCut`, `AddrReadsBack`, `FieldIsRead`), and what is cut out is the number written (`Le16ReadsBack`, `UintReadsBack`).
So the parser has to look in the right places for every combination of optional parts: Short ID in front or behind, Sequence Control or not, A3
and A4 or not (`SidFrameReadsBack`), and a header cut short is shorter than the end it computes (`CutFrameIsRefused`).  The protection of an NDP
BlockAck undoes itself because the bitmap is left alone (`ProtectTwice`).  Payloads are any octets
(`PayloadAssumption`), numbers any that fit their fields (`NumberAssumption`, `OthersAssumption`).

The assumptions used are the named ASSUMEs of the modules: shapes of constants, `MaxAmpdu
<= BitmapBits`, `Difs > 0`, `CwMin <= CwMax`, a start MCS and a `p_min` within their bounds.  `EndIdle > 0` is 30 s in the code (`ident.rs:44`; no option changes it).  `DedupAssumption`, `MaxAmpdu <= DedupDepth`,
is 16 against 64 in the code.  `CapacityAssumption` says that no choice carries less than `Floor`: `enqueue_eth` checks
a frame at the lower of the ladder's and the configured MCS (`engine.rs`, `floor_mcs`), a higher MCS carries more, and the two codings differ by at most a
symbol at lengths that Ethernet frames do not reach.

Several of these are proved and no longer repeated in a run: the type invariants, `FlightIsAwaited`, `FreshWindow`,
`StateMatchesBatch`, `LdpcOnlyIfKnown`, and `BackoffImpliesCur` or `RetryBudget` in all but one of the engine's runs.

Not everything holds for `RestartSpec` as well: a restart starts the sequence numbers anew and forgets the rings, and a frame may
then arrive twice.  So the first part of `MacLinkProofs` is about both and the rest of it about `Spec`.

Only model-checked: liveness,
because fairness is beyond the prover, `ReleasedInSilence` included; `FadeIsRepaired`, because what the Viterbi decoder
returns is a recursion over 64 states and up to thousands of bits; `DamageIsContained` and `ReplyNamesReceived`, which are false of arbitrary
payloads and damage (octets may look like a delimiter, and damage may pass a CRC), so that only the chosen ones can be checked; and the upper half of
`EstimateIsOfDelays`, whose bound counts how often the radio can block while an answer waits in the channel, which
depends on the configuration.

## Plan

Done: 1. `FrameDelivery`, `MacLink`.  2. `MediumAccess`.  3. `RateControl`.
4. `PhyReceiver`, each with its proofs.  5. `PlutoRadio`, with its proofs.  6. The pure algorithms with `PhyLink`, with its proofs, and `FramePath`.  7. `NodeLoop` with
`RespTimer` and `StationIdent`, with its proofs.  8. `PcapPipe`, with its proofs.

Not done: `MediumAccess` implementing the mode machine of `MacLink`, which would replace the interface described above by a theorem.

## Not modelled

- Floating-point signal processing (`s2g-dsp`, synchronisation, channel estimation, resampling) and the LDPC min-sum
  decoder with its matrices: no discrete state whose interleavings matter.  What the code does with
  their results is modelled as a choice of the result.
- Wrappers of system calls (TAP, overlapped I/O), the command line, file conversion and printing.
- Of iiod: attributes, the context XML, sample conversion.  Of the virtual Pluto: noise and channel impairments.
- Of identification: the text of the frame.  Of the node: options, set-up and the queue back to the host.
- Of rate control: counters shown to the user and the smoothed carrier offset.
- Of the filter and the capture: offsets of header fields within octets.
