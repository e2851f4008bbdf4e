---------------------------- MODULE MCRateControl -----------------------------
(* Instances of RateControl for TLC: what a batch gains by the next MCS and *)
(* by the short guard interval, and the SNR each MCS demands.               *)
EXTENDS RateControl

CONSTANT Batches      \* subset of {"small", "big"}

MCGains ==
  (IF "small" \in Batches THEN {[mcs |-> [i \in Rung |-> 0], gi |-> 0]} ELSE {})
  \cup (IF "big" \in Batches THEN {[mcs |-> [i \in Rung |-> 1], gi |-> 1]} ELSE {})
MCRequired == [i \in Rung |-> i + 1]
=============================================================================
