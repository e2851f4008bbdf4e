------------------------------- MODULE PcapPipe -------------------------------
(* The live capture: the main loop writes records into a bounded backlog   *)
(* while the flag attached is up, and a thread of its own serves one pipe  *)
(* reader after another from it.  Readers come and go as they please; on a *)
(* FIFO one may even come before the thread has noticed that the one       *)
(* before it has gone, which a Windows named pipe refuses.                 *)
(* A record is its number; the flag is read and written one access at a    *)
(* time.                                                                   *)
EXTENDS Integers, Sequences, FiniteSets

CONSTANTS Fifo,         \* the pipe is a FIFO
          Backlog,      \* PIPE_BACKLOG
          PipeBuffer,   \* what the pipe holds for a reader, in records
          MaxRecords, MaxReaders    \* bounds of the behaviours

ASSUME PipeAssumption ==
  Fifo \in BOOLEAN /\ Backlog \in Nat \ {0} /\ PipeBuffer \in Nat \ {0} /\ {MaxRecords, MaxReaders} \subseteq Nat

VARIABLES written,  \* records whose write has returned
          sending,  \* the writer has seen the flag up and is about to send
          dropped,  \* the records counted as dropped
          backlog, attached, served, pipe, reader

pipeVars == <<written, sending, dropped, backlog, attached, served, pipe, reader>>

Header == 0

(* served: where the pipe's thread is.                                     *)
(* reader: whether it has the pipe open, what it has read, how many readers*)
(* there were; for the properties, whether it came when the thread was     *)
(* waiting for one, and the records written by then.                       *)
NoReader(count) == [open |-> FALSE, got |-> <<>>, count |-> count, invited |-> FALSE, since |-> 0]

PipeInit ==
  /\ written = 0
  /\ sending = FALSE
  /\ dropped = {}
  /\ backlog = <<>>
  /\ attached = FALSE
  /\ served = "connect"
  /\ pipe = <<>>
  /\ reader = NoReader(0)

-----------------------------------------------------------------------------
(* PcapWriter::write on the main loop.                                     *)

(* The flag is looked at: a record nobody reads is discarded.              *)
LookAtFlag ==
  /\ ~sending /\ written < MaxRecords
  /\ IF attached
     THEN sending' = TRUE /\ UNCHANGED written
     ELSE written' = written + 1 /\ UNCHANGED sending
  /\ UNCHANGED <<dropped, backlog, attached, served, pipe, reader>>

(* try_send of the record: a full backlog drops it and counts that.        *)
TrySend ==
  /\ sending
  /\ sending' = FALSE
  /\ written' = written + 1
  /\ IF Len(backlog) < Backlog
     THEN backlog' = Append(backlog, written + 1) /\ UNCHANGED dropped
     ELSE dropped' = dropped \cup {written + 1} /\ UNCHANGED backlog
  /\ UNCHANGED <<attached, served, pipe, reader>>

-----------------------------------------------------------------------------
(* serve, on the pipe's thread.                                            *)

Connect ==
  /\ served = "connect" /\ reader.open
  /\ served' = "drain"
  /\ UNCHANGED <<written, sending, dropped, backlog, attached, pipe, reader>>

(* Mutant of Drain: what is left of the reader before is kept. *)
DrainKeeps ==
  /\ served = "drain"
  /\ served' = "raise"
  /\ UNCHANGED <<written, sending, dropped, backlog, attached, pipe, reader>>

(* One try_recv: what the reader before left behind is thrown away.        *)
Drain ==
  /\ served = "drain"
  /\ IF backlog = <<>>
     THEN served' = "raise" /\ UNCHANGED backlog
     ELSE backlog' = Tail(backlog) /\ UNCHANGED served
  /\ UNCHANGED <<written, sending, dropped, attached, pipe, reader>>

RaiseFlag ==
  /\ served = "raise"
  /\ attached' = TRUE
  /\ served' = "header"
  /\ UNCHANGED <<written, sending, dropped, backlog, pipe, reader>>

(* A write to the pipe: it blocks while the pipe is full and fails when    *)
(* nobody has it open.                                                     *)
Put(item, onSuccess) ==
  IF reader.open
  THEN Len(pipe) < PipeBuffer /\ pipe' = Append(pipe, item) /\ served' = onSuccess
  ELSE served' = "lower" /\ UNCHANGED pipe

WriteHeader ==
  /\ served = "header"
  /\ Put(Header, "serve")
  /\ UNCHANGED <<written, sending, dropped, backlog, attached, reader>>

ServeRecord ==
  /\ served = "serve" /\ backlog # <<>>
  /\ Put(Head(backlog), "serve")
  /\ backlog' = Tail(backlog)
  /\ UNCHANGED <<written, sending, dropped, attached, reader>>

(* Mutant of Probe: an idle pipe is not probed. *)
ProbeNever ==
  /\ served = "serve" /\ backlog = <<>>
  /\ UNCHANGED pipeVars

(* recv_timeout has run out: is the reader still there?                    *)
Probe ==
  /\ served = "serve" /\ backlog = <<>> /\ ~reader.open
  /\ served' = "lower"
  /\ UNCHANGED <<written, sending, dropped, backlog, attached, pipe, reader>>

LowerFlag ==
  /\ served = "lower"
  /\ attached' = FALSE
  /\ served' = "drop"
  /\ UNCHANGED <<written, sending, dropped, backlog, pipe, reader>>

(* The reader's end is dropped, and with it what a pipe that nobody has    *)
(* open still holds.                                                       *)
Drop ==
  /\ served = "drop"
  /\ served' = "connect"
  /\ pipe' = IF reader.open THEN pipe ELSE <<>>
  /\ UNCHANGED <<written, sending, dropped, backlog, attached, reader>>

-----------------------------------------------------------------------------
(* The readers.                                                            *)

Open ==
  /\ ~reader.open /\ reader.count < MaxReaders
  /\ Fifo \/ served = "connect"
  /\ reader' = [open |-> TRUE, got |-> <<>>, count |-> reader.count + 1,
                invited |-> served = "connect", since |-> written]
  /\ UNCHANGED <<written, sending, dropped, backlog, attached, served, pipe>>

Read ==
  /\ reader.open /\ pipe # <<>>
  /\ reader' = [reader EXCEPT !.got = Append(@, Head(pipe))]
  /\ pipe' = Tail(pipe)
  /\ UNCHANGED <<written, sending, dropped, backlog, attached, served>>

(* What the pipe holds is lost when nobody has either end of it open.      *)
Close ==
  /\ reader.open
  /\ reader' = NoReader(reader.count)
  /\ pipe' = IF served = "connect" THEN <<>> ELSE pipe
  /\ UNCHANGED <<written, sending, dropped, backlog, attached, served>>

Serve == Connect \/ Drain \/ RaiseFlag \/ WriteHeader \/ ServeRecord \/ Probe \/ LowerFlag \/ Drop

PipeNext == LookAtFlag \/ TrySend \/ Serve \/ Open \/ Read \/ Close

(* The pipe's thread runs, its timeouts included; nothing obliges the      *)
(* readers to read or the main loop to write.                              *)
PipeSpec == PipeInit /\ [][PipeNext]_pipeVars /\ WF_pipeVars(Serve)

-----------------------------------------------------------------------------
(* Properties.                                                             *)

(* Every variable keeps its type. *)
PipeTypeOK ==
  /\ written \in Nat /\ sending \in BOOLEAN /\ dropped \subseteq Nat
  /\ backlog \in Seq(Nat) /\ pipe \in Seq(Nat) /\ attached \in BOOLEAN
  /\ served \in {"connect", "drain", "raise", "header", "serve", "lower", "drop"}
  /\ reader \in [open : BOOLEAN, got : Seq(Nat), count : Nat,
                 invited : BOOLEAN, since : Nat]

(* The stream of a reader that came when the thread was waiting for one is *)
(* a capture file of its own: one header, then records in the order they   *)
(* were written, none of them from before it came (of the reader before    *)
(* it, say), and from its second record on every one that is missing was   *)
(* counted as dropped.  (The first may have been sent on a flag read long  *)
(* ago, and those up to the flag going up again are then missing.)         *)
StreamIsACapture ==
  reader.open /\ reader.invited =>
    LET stream == reader.got \o pipe IN
    /\ stream # <<>> => stream[1] = Header
    /\ \A i \in 2 .. Len(stream) :
         /\ stream[i] > reader.since
         /\ i > 2 => stream[i] > stream[i - 1]
         /\ i > 3 => (stream[i - 1] + 1 .. stream[i] - 1) \subseteq dropped

(* A reader that has gone is noticed, also when nothing is written: the    *)
(* flag goes down or another reader has taken its place.                   *)
DetachIsSeen == attached /\ ~reader.open ~> ~attached \/ reader.open

(* What the comment of PcapWriter::open says of every reader, invited or   *)
(* not: on a FIFO it does not hold (see the README).                       *)
EachGetsItsHeader == reader.open /\ reader.got # <<>> => reader.got[1] = Header
=============================================================================
