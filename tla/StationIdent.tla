---------------------------- MODULE StationIdent -----------------------------
(* When a station with a call sign identifies: before the first data of a  *)
(* communication, at intervals while it lasts, and after it has ended.     *)
(* A station's books are a record of                                       *)
(*   since  time since the last identification, Never before the first     *)
(*   data   data went out since then (sent_since_ident)                    *)
(*   quiet  time since data last went out, 0 while none has                *)
(* with times that stop at the largest value a comparison needs.           *)
EXTENDS Integers

CONSTANTS Interval,     \* ident.interval_us
          EndIdle,      \* ident.end_idle_us
          EndGap,       \* the 60 s between an identification and a closing one
          SinceCap      \* where since stops growing

ASSUME IdentAssumption ==
  /\ {Interval, EndIdle, EndGap, SinceCap} \subseteq Nat /\ EndIdle > 0
  /\ SinceCap > Interval /\ SinceCap > EndGap

Never == -1

NoneSent == [since |-> Never, data |-> FALSE, quiet |-> 0]

AtLeast(since, time) == since = Never \/ since >= time

(* ident_due of a station that has a call sign *)
IdentDue(books, queueEmpty) ==
  \/ ~queueEmpty /\ AtLeast(books.since, Interval)
  \/ queueEmpty /\ books.data /\ books.quiet >= EndIdle /\ AtLeast(books.since, EndGap)

IdentWentOut(books) == [books EXCEPT !.since = 0, !.data = FALSE, !.quiet = 0]

(* Mutant of DataWentOut: the data restarts the interval too. *)
DataWentOutRestarts(books) == [since |-> 0, data |-> TRUE, quiet |-> 0]

DataWentOut(books) == [books EXCEPT !.data = TRUE, !.quiet = 0]

(* One unit of time passes. *)
Later(books) ==
  [books EXCEPT !.since = IF @ \in {Never, SinceCap} THEN @ ELSE @ + 1,
                !.quiet = IF books.data /\ @ < EndIdle THEN @ + 1 ELSE @]
=============================================================================
