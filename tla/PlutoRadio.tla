------------------------------ MODULE PlutoRadio ------------------------------
(***************************************************************************)
(* Two radios of s2g-virtual-pluto and the driver that uses them: one      *)
(* station's PlutoTx streams into radio 1, another's PlutoRx reads what    *)
(* radio 2 hears.  Each stream is an iiod connection of its own: a client  *)
(* (s2g-sdr-pluto), a server thread, and the bytes between them.  The two  *)
(* server threads share the air: a clock, radio 1's timeline of samples,   *)
(* and the position radio 2 has delivered up to.                           *)
(*                                                                         *)
(* A byte stream is a sequence of tokens, each a line or a sample.  A line *)
(* read where samples come first takes samples until one of them happens   *)
(* to hold a newline, or until the next line; it never parses, and what is *)
(* left of that sample fails like it.  Lines arrive whole.  With `Chunked` *)
(* the server answers as iiod itself may: in several chunks, with an       *)
(* error, or short.                                                        *)
(***************************************************************************)
EXTENDS Integers, Sequences, FiniteSets, SequencesExt

CONSTANTS
  Buf,               \* BUF_SAMPLES, of the driver and of the server
  Burst, Bursts,     \* samples of one call of send(); bound: calls
  RxLatency,         \* rx_latency_buffers, in samples
  TxAhead,           \* tx_ahead_buffers, in samples
  Restart,           \* BUF_SAMPLES / 4: how far ahead a dead stream restarts
  LookBack,          \* a second of samples: what is kept behind the clock
  Chunked,           \* the server is iiod, not the virtual Pluto
  MaxNow, MaxReads,  \* bounds: the air clock, calls of recv()
  MaxTimeouts        \* bound: reads that time out

ASSUME SampleAssumption ==
  /\ {Buf, Burst, Bursts} \subseteq Nat \ {0}
  /\ {RxLatency, TxAhead, Restart, LookBack, MaxNow, MaxReads, MaxTimeouts}
       \subseteq Nat
  /\ Chunked \in BOOLEAN

VARIABLES
  now,               \* the air clock
  tx,                \* radio 1's TxStream: origin, buf
  rxPos,             \* radio 2's rx_pos
  rc, rwire,         \* the RX client; what its server has sent it
  rs,                \* the RX server thread
  tc, twire, tack,   \* the TX client; the bytes to its server, and back
  ts,                \* the TX server thread
  placed,            \* history: what was ever put at each air position
  heard,             \* history: what recv() has handed to its callers
  acked,             \* history: samples whose send was acknowledged
  timeouts           \* reads that timed out, of each stream

air == <<now, tx, rxPos>>
rxSide == <<rc, rwire, rs>>
txSide == <<tc, twire, tack, ts>>
history == <<placed, heard, acked>>
vars == <<air, rxSide, txSide, history, timeouts>>

Silence == 0
Garbage == -1

Ret(n) == [kind |-> "ret", n |-> n]
Mask == [kind |-> "mask"]
Sample(at, v) == [kind |-> "sample", at |-> at, v |-> v, late |-> now > at + LookBack]
Command(n) == [kind |-> "cmd", n |-> n]
IsSample(tok) == tok.kind = "sample"

TxEnd == tx.origin + Len(tx.buf)
(* TxStream::sample                                                        *)
OnAir(t) == IF tx.origin <= t /\ t < TxEnd THEN tx.buf[t - tx.origin + 1] ELSE Silence
(* TxStream::trim                                                          *)
Trim(stream, keepFrom) ==
  LET n == IF keepFrom > stream.origin
           THEN IF keepFrom - stream.origin < Len(stream.buf)
                THEN keepFrom - stream.origin ELSE Len(stream.buf)
           ELSE 0
  IN [origin |-> stream.origin + n, buf |-> SubSeq(stream.buf, n + 1, Len(stream.buf))]

(* open_rx: a connection of its own, and both ends of it expect the mask   *)
(* line; OPEN starts the stream at the air clock.                          *)
RxOpened ==
  /\ rc = [pc |-> "ready", maskPending |-> TRUE, left |-> 0, out |-> <<>>, calls |-> 0]
  /\ rs = [pc |-> "line", asked |-> 0, newClient |-> TRUE, from |-> 0]
  /\ rwire = <<>> /\ rxPos = 0

(* open_tx                                                                 *)
TxOpened ==
  /\ tc = [pc |-> "ready", next |-> 1, chunk |-> <<>>]
  /\ ts = [pc |-> "line", want |-> 0, payload |-> <<>>]
  /\ twire = <<>> /\ tack = <<>>

Init ==
  /\ now = 0 /\ tx = [origin |-> 0, buf |-> <<>>]
  /\ RxOpened /\ TxOpened
  /\ placed = [t \in 0 .. MaxNow + TxAhead + Restart + 2 * Buf |-> Silence]
  /\ heard = <<>> /\ acked = {} /\ timeouts = [rx |-> 0, tx |-> 0]

Tick ==
  /\ now < MaxNow /\ now' = now + 1
  /\ UNCHANGED <<tx, rxPos, rxSide, txSide, history, timeouts>>

-----------------------------------------------------------------------------
(* recv, readbuf: ask for one buffer.                                      *)
Recv ==
  /\ rc.pc = "ready" /\ rc.calls < MaxReads
  /\ rc' = [rc EXCEPT !.pc = "ret", !.out = <<>>, !.calls = @ + 1]
  /\ rs' = [rs EXCEPT !.asked = @ + 1]
  /\ UNCHANGED <<air, rwire, txSide, history, timeouts>>

RxFails == [rc EXCEPT !.pc = "ready", !.out = <<>>]

(* read_ret: a chunk's size, the end of a short read, or an error.         *)
ReadRet ==
  /\ rc.pc = "ret" /\ rwire # <<>> /\ Head(rwire).kind = "ret"
  /\ LET n == Head(rwire).n IN
       /\ rc' = CASE n < 0 -> RxFails
                  [] n = 0 -> [rc EXCEPT !.pc = "done"]
                  [] n > 0 -> [rc EXCEPT !.pc = IF rc.maskPending THEN "mask" ELSE "data", !.left = n]
  /\ rwire' = Tail(rwire)
  /\ UNCHANGED <<air, rs, txSide, history, timeouts>>

(* Mutant: the mask line is expected with every chunk.                     *)
ReadMaskAlways ==
  /\ rc.pc = "mask" /\ rwire # <<>> /\ Head(rwire) = Mask
  /\ rc' = [rc EXCEPT !.pc = "data"]
  /\ rwire' = Tail(rwire)
  /\ UNCHANGED <<air, rs, txSide, history, timeouts>>

(* read_line: the mask that comes with the first chunk after OPEN.         *)
ReadMask ==
  /\ rc.pc = "mask" /\ rwire # <<>> /\ Head(rwire) = Mask
  /\ rc' = [rc EXCEPT !.pc = "data", !.maskPending = FALSE]
  /\ rwire' = Tail(rwire)
  /\ UNCHANGED <<air, rs, txSide, history, timeouts>>

(* A line is read where samples come first: it does not parse, the call    *)
(* fails and what follows stays unread.  The mask line, left behind by a   *)
(* call that timed out before it, parses as a size of three octets: the    *)
(* call takes whatever line is next for the mask, three octets of samples, *)
(* and fails at the line after those, past the next chunk's size perhaps.  *)
ReadGarbage ==
  /\ rc.pc = "ret" /\ rwire # <<>>
  /\ IsSample(Head(rwire)) \/ Head(rwire) = Mask
  /\ \E k \in 1 .. Len(rwire) :
       /\ Head(rwire) = Mask \/ \A i \in 1 .. k - 1 : IsSample(rwire[i])
       /\ rwire' = SubSeq(rwire, k + 1, Len(rwire))
  /\ rc' = [RxFails EXCEPT !.maskPending = @ /\ Head(rwire) # Mask]
  /\ UNCHANGED <<air, rs, txSide, history, timeouts>>

(* read_into: the chunk; the read goes on unless it has all it asked for.   *)
ReadData ==
  /\ rc.pc = "data" /\ Len(rwire) >= rc.left
  /\ LET out == rc.out \o SubSeq(rwire, 1, rc.left) IN
       rc' = [rc EXCEPT !.out = out, !.pc = IF Len(out) >= Buf THEN "done" ELSE "ret"]
  /\ rwire' = SubSeq(rwire, rc.left + 1, Len(rwire))
  /\ UNCHANGED <<air, rs, txSide, history, timeouts>>

(* The samples go to the caller; an empty buffer is an error.              *)
RecvReturns ==
  /\ rc.pc = "done"
  /\ heard' = heard \o rc.out
  /\ rc' = RxFails
  /\ UNCHANGED <<air, rwire, rs, txSide, placed, acked, timeouts>>

(* The socket's read timeout, anywhere in a reply: what was read of it is  *)
(* dropped, what arrives later stays in the connection.                    *)
RecvTimesOut ==
  /\ rc.pc \in {"ret", "mask", "data"}
  /\ timeouts.rx + timeouts.tx < MaxTimeouts
  /\ timeouts' = [timeouts EXCEPT !.rx = @ + 1]
  /\ \E k \in 0 .. (IF rc.pc = "data" /\ Len(rwire) >= rc.left THEN rc.left - 1 ELSE 0) :
       rwire' = SubSeq(rwire, k + 1, Len(rwire))
  /\ rc' = RxFails
  /\ UNCHANGED <<air, rs, txSide, history>>

-----------------------------------------------------------------------------
(* The READBUF handler of serve(): where this read begins is noted under   *)
(* the lock,                                                               *)
RxServe ==
  /\ rs.pc = "line" /\ rs.asked > 0
  /\ rs' = [rs EXCEPT !.pc = "pace", !.asked = @ - 1, !.from = rxPos]
  /\ UNCHANGED <<air, rc, rwire, txSide, history, timeouts>>

(* then the thread sleeps without it until the clock has passed the        *)
(* samples and the pipeline's latency,                                     *)
RxPaced ==
  /\ rs.pc = "pace" /\ now >= rs.from + Buf + RxLatency
  /\ rs' = [rs EXCEPT !.pc = "receive"]
  /\ UNCHANGED <<air, rc, rwire, txSide, history, timeouts>>

Received == [i \in 1 .. Buf |-> Sample(rs.from + i - 1, OnAir(rs.from + i - 1))]
MaskLine == IF rs.newClient THEN <<Mask>> ELSE <<>>
Chunk(s) == <<Ret(Len(s))>> \o MaskLine \o s

(* and takes it again for Air::receive and the position of the next read.  *)
RxReply ==
  /\ rs.pc = "receive"
  /\ rwire' = rwire \o Chunk(Received)
  /\ rxPos' = rs.from + Buf
  /\ rs' = [rs EXCEPT !.pc = "line", !.newClient = FALSE]
  /\ UNCHANGED <<now, tx, rc, txSide, history, timeouts>>

(* iiod: the samples in two chunks, or only the first of them and then 0,  *)
(* or an error and no samples.                                             *)
IiodReply ==
  /\ Chunked /\ rs.pc = "receive"
  /\ \/ \E k \in 1 .. Buf - 1, rest \in BOOLEAN :
          /\ rwire' = rwire \o Chunk(SubSeq(Received, 1, k))
                      \o (IF rest THEN <<Ret(Buf - k)>> \o SubSeq(Received, k + 1, Buf)
                                  ELSE <<Ret(0)>>)
          /\ rs' = [rs EXCEPT !.pc = "line", !.newClient = FALSE]
     \/ /\ rwire' = Append(rwire, Ret(-1))
        /\ rs' = [rs EXCEPT !.pc = "line"]
  /\ rxPos' = rs.from + Buf
  /\ UNCHANGED <<now, tx, rc, txSide, history, timeouts>>

-----------------------------------------------------------------------------
(* send, writebuf.  The samples of a call are numbered on from those of    *)
(* the calls before it; a call that fails leaves its rest unsent.          *)
BurstEnd(v) == ((v - 1) \div Burst + 1) * Burst
NextChunk(v) ==
  LET last == IF v + Buf - 1 <= BurstEnd(v) THEN v + Buf - 1 ELSE BurstEnd(v)
  IN [i \in 1 .. last - v + 1 |-> v + i - 1]

(* The header of one WRITEBUF: the next chunk, or what the server has not  *)
(* consumed of the one before.                                             *)
SendHeader ==
  /\ tc.pc = "ready"
  /\ LET chunk == IF tc.chunk = <<>> THEN NextChunk(tc.next) ELSE tc.chunk IN
       /\ chunk[1] <= Burst * Bursts
       /\ tc' = [pc |-> "ok", next |-> Last(chunk) + 1, chunk |-> chunk]
       /\ twire' = Append(twire, Command(Len(chunk)))
  /\ UNCHANGED <<air, rxSide, tack, ts, history, timeouts>>

TxFails == [pc |-> "ready", next |-> BurstEnd(tc.next - 1) + 1, chunk |-> <<>>]

(* The first of the two answers: go on, and the data is written.           *)
ReadOk ==
  /\ tc.pc = "ok" /\ tack # <<>>
  /\ tack' = Tail(tack)
  /\ IF Head(tack).n < 0
     THEN tc' = TxFails /\ UNCHANGED twire
     ELSE /\ tc' = [tc EXCEPT !.pc = "ack"]
          /\ twire' = twire \o [i \in 1 .. Len(tc.chunk) |-> Sample(0, tc.chunk[i])]
  /\ UNCHANGED <<air, rxSide, ts, history, timeouts>>

(* Mutant: a short write is taken for a whole one.                         *)
ReadAckWhole ==
  /\ tc.pc = "ack" /\ tack # <<>>
  /\ tack' = Tail(tack)
  /\ IF Head(tack).n <= 0
     THEN tc' = TxFails /\ UNCHANGED acked
     ELSE /\ acked' = acked \cup ToSet(tc.chunk)
          /\ tc' = [tc EXCEPT !.pc = "ready", !.chunk = <<>>]
  /\ UNCHANGED <<air, rxSide, twire, ts, placed, heard, timeouts>>

(* The second: how much was consumed; nothing consumed is an error.        *)
ReadAck ==
  /\ tc.pc = "ack" /\ tack # <<>>
  /\ tack' = Tail(tack)
  /\ IF Head(tack).n <= 0
     THEN tc' = TxFails /\ UNCHANGED acked
     ELSE LET n == IF Head(tack).n < Len(tc.chunk) THEN Head(tack).n ELSE Len(tc.chunk) IN
            /\ acked' = acked \cup {tc.chunk[i] : i \in 1 .. n}
            /\ tc' = [tc EXCEPT !.pc = "ready", !.chunk = SubSeq(@, n + 1, Len(@))]
  /\ UNCHANGED <<air, rxSide, twire, ts, placed, heard, timeouts>>

SendTimesOut ==
  /\ tc.pc \in {"ok", "ack"}
  /\ timeouts.rx + timeouts.tx < MaxTimeouts
  /\ timeouts' = [timeouts EXCEPT !.tx = @ + 1]
  /\ tc' = TxFails
  /\ UNCHANGED <<air, rxSide, twire, tack, ts, history>>

-----------------------------------------------------------------------------
(* The WRITEBUF handler: go ahead, then as many bytes as were announced,   *)
(* whatever they are.                                                      *)
TxCommand ==
  /\ ts.pc = "line" /\ twire # <<>> /\ Head(twire).kind = "cmd"
  /\ ts' = [pc |-> "payload", want |-> Head(twire).n, payload |-> <<>>]
  /\ twire' = Tail(twire)
  /\ tack' = Append(tack, Ret(0))
  /\ UNCHANGED <<air, rxSide, tc, history, timeouts>>

(* Samples where a command is expected: an unknown command, or a part of   *)
(* one.                                                                    *)
TxGarbage ==
  /\ ts.pc = "line" /\ twire # <<>> /\ IsSample(Head(twire))
  /\ twire' = Tail(twire)
  /\ tack' \in {tack, Append(tack, Ret(-22))}
  /\ UNCHANGED <<air, rxSide, tc, ts, history, timeouts>>

TxPayload ==
  /\ ts.pc = "payload" /\ Len(twire) >= ts.want
  /\ ts' = [ts EXCEPT !.pc = "pace",
                      !.payload = [i \in 1 .. ts.want |->
                                     IF IsSample(twire[i]) THEN twire[i].v ELSE Garbage]]
  /\ twire' = SubSeq(twire, ts.want + 1, Len(twire))
  /\ UNCHANGED <<air, rxSide, tc, tack, history, timeouts>>

(* Back-pressure: wait while too much is queued ahead of the clock.        *)
TxPaced ==
  /\ ts.pc = "pace" /\ TxEnd <= now + TxAhead
  /\ ts' = [ts EXCEPT !.pc = "append"]
  /\ UNCHANGED <<air, rxSide, tc, twire, tack, history, timeouts>>

KeepFrom == IF now >= LookBack THEN now - LookBack ELSE 0

(* Mutant: a stream that ran dry starts afresh at the clock.               *)
ResumedAfresh ==
  IF TxEnd >= now THEN tx ELSE [origin |-> now + Restart, buf |-> <<>>]

(* The timeline the samples are appended to.  After an underrun the stream *)
(* restarts a little ahead of the clock: behind silence, or afresh if no   *)
(* reader looks back that far.                                             *)
Resumed ==
  IF TxEnd >= now THEN tx
  ELSE IF tx.buf = <<>> \/ TxEnd < KeepFrom
  THEN [origin |-> now + Restart, buf |-> <<>>]
  ELSE [tx EXCEPT !.buf = @ \o [i \in 1 .. now + Restart - TxEnd |-> Silence]]

(* The samples (iiod: perhaps only the first of them) join the timeline,   *)
(* what is too old leaves it, and the acknowledgement goes out.            *)
TxAppend ==
  /\ ts.pc = "append"
  /\ \E k \in (IF Chunked THEN 1 ELSE ts.want) .. ts.want :
       LET base == Resumed
           start == base.origin + Len(base.buf)
           data == SubSeq(ts.payload, 1, k)
       IN /\ tx' = Trim([base EXCEPT !.buf = @ \o data], KeepFrom)
          /\ placed' = [t \in DOMAIN placed |->
                          IF t \in start .. start + k - 1 THEN data[t - start + 1] ELSE placed[t]]
          /\ tack' = Append(tack, Ret(k))
  /\ ts' = [ts EXCEPT !.pc = "line"]
  /\ UNCHANGED <<now, rxPos, rxSide, tc, twire, heard, acked, timeouts>>

-----------------------------------------------------------------------------
Receiver == Recv \/ ReadRet \/ ReadMask \/ ReadGarbage \/ ReadData \/ RecvReturns \/ RecvTimesOut
Sender == SendHeader \/ ReadOk \/ ReadAck \/ SendTimesOut
Server == \/ RxServe \/ RxPaced \/ RxReply \/ IiodReply
          \/ TxCommand \/ TxGarbage \/ TxPayload \/ TxPaced \/ TxAppend

Next == Tick \/ Receiver \/ Sender \/ Server

Spec == Init /\ [][Next]_vars

-----------------------------------------------------------------------------
(* What recv() hands over is samples and nothing else of the protocol, in  *)
(* the order of the air and none twice, whatever timed out before; and     *)
(* each is what the other radio put on the air at that position, then or   *)
(* later: what is appended and trimmed between a read's two locks changes  *)
(* nothing a reader less than LookBack behind the clock gets to hear.      *)
HeardIsOnAir ==
  /\ \A i \in DOMAIN heard :
       /\ IsSample(heard[i])
       /\ heard[i].v = placed[heard[i].at] \/ (heard[i].late /\ heard[i].v = Silence)
  /\ \A i, j \in DOMAIN heard : i < j => heard[i].at < heard[j].at

(* What send() was told is written is on the air, once, in order, however  *)
(* short the server's writes are; for as long as none of the connection's  *)
(* answers has come too late.                                              *)
AckedIsOnAir ==
  timeouts.tx = 0 =>
    /\ \A v \in acked : \E t \in DOMAIN placed : placed[t] = v
    /\ \A t, u \in DOMAIN placed :
         (placed[t] # Silence /\ placed[u] # Silence /\ t < u) => placed[t] < placed[u]

(* Until an answer comes too late, a connection between two calls holds    *)
(* nothing unread, whatever the server answered, and both ends agree       *)
(* whether the mask line is still to come.                                 *)
InSync ==
  /\ (timeouts.rx = 0 /\ rc.pc = "ready") =>
       rwire = <<>> /\ rs.pc = "line" /\ rc.maskPending = rs.newClient
  /\ (timeouts.tx = 0 /\ tc.pc = "ready") => tack = <<>> /\ twire = <<>> /\ ts.pc = "line"
=============================================================================
