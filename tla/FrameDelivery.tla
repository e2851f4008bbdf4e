---------------------------- MODULE FrameDelivery ----------------------------
(***************************************************************************)
(* What the MAC promises the hosts it serves, without saying how: a frame  *)
(* that was accepted is handed to each of its receivers at most once, is   *)
(* reported exactly once, and is reported acknowledged only after its      *)
(* receiver got it.  A dropped frame may or may not have arrived: when     *)
(* only the acknowledgments were lost the sender cannot know.              *)
(***************************************************************************)
EXTENDS Naturals

CONSTANTS
  Frame,
  Receivers      \* Receivers[f]: the stations f is meant for

VARIABLES
  outcome,       \* outcome[f]: what f's host knows about f
  got            \* got[f]: the stations that handed f to their host

vars == <<outcome, got>>

Init ==
  /\ outcome = [f \in Frame |-> "new"]
  /\ got = [f \in Frame |-> {}]

Accept(f) ==
  /\ outcome[f] = "new"
  /\ \E o \in {"pending", "refused"} : outcome' = [outcome EXCEPT ![f] = o]
  /\ UNCHANGED got

(* Station r hands the frames of S, all on the air at some time, to its    *)
(* host, each for the first time.                                          *)
Deliver(r, S) ==
  /\ \A f \in S : /\ r \in Receivers[f] \ got[f]
                  /\ outcome[f] \notin {"new", "refused"}
  /\ got' = [f \in Frame |-> IF f \in S THEN got[f] \cup {r} ELSE got[f]]
  /\ UNCHANGED outcome

(* One call reports the frames of A acknowledged, those of U sent without  *)
(* acknowledgment and those of D dropped.                                  *)
Report(A, U, D) ==
  /\ \A f \in A \cup U \cup D : outcome[f] = "pending"
  /\ \A f \in A : Receivers[f] \subseteq got[f]
  /\ outcome' = [f \in Frame |-> IF f \in A THEN "acked"
                                 ELSE IF f \in U THEN "sent"
                                 ELSE IF f \in D THEN "dropped"
                                 ELSE outcome[f]]
  /\ UNCHANGED got

Next ==
  \/ \E f \in Frame : Accept(f)
  \/ \E S \in SUBSET Frame : \E r \in UNION {Receivers[f] : f \in S} : Deliver(r, S)
  \/ \E A, U, D \in SUBSET Frame : Report(A, U, D)

Spec == Init /\ [][Next]_vars
=============================================================================
