------------------------------ MODULE MCMacLink ------------------------------
(* Instances of MacLink for TLC: the frames of a scenario as a table of    *)
(* <<origin, dest, octets>>; the stations are numbered.                    *)
EXTENDS MacLink

CONSTANT Traffic    \* name of the scenario

A == 1
B == 2
C == 3
All == 0

Offered ==
  CASE Traffic = "burst" -> <<<<A, B, 2>>, <<A, B, 2>>, <<A, B, 2>>, <<A, All, 2>>>>
    [] Traffic = "mixed" -> <<<<A, B, 2>>, <<A, B, 2>>, <<A, All, 2>>, <<A, B, 9>>>>
    [] Traffic = "wrap"  -> <<<<A, B, 2>>, <<A, C, 2>>, <<A, C, 2>>, <<A, B, 2>>>>
    [] Traffic = "pair"  -> <<<<A, B, 2>>, <<A, B, 2>>>>

MCFrame == 1 .. Len(Offered)
MCOrigin == [f \in MCFrame |-> Offered[f][1]]
MCDest == [f \in MCFrame |-> Offered[f][2]]
MCOctets == [f \in MCFrame |-> Offered[f][3]]
(* The slow choice carries one short frame in an aggregate, the fast one   *)
(* two.                                                                    *)
MCCapacity == [c \in Choice |-> IF c = "slow" THEN 3 ELSE 4]
MCPartialAid == [n \in Station |-> n]
(* The bursts meet the hypothesis of MacLinkProofs.                        *)
ASSUME BurstIsNamed == Traffic = "burst" => AnswersNameFrames
=============================================================================
