----------------------------- MODULE MCNodeLoop ------------------------------
(* Two configurations for TLC: answers whose delay jumps, with an adaptive *)
(* wait, and a station with a call sign and a fixed wait.                  *)
EXTENDS NodeLoop

MCSetup == {[adaptive |-> TRUE, callsign |-> FALSE, shared |-> FALSE, delays |-> <<2, 8>>, jitter |-> 1, losses |-> 0, frames |-> {"data"}],
            [adaptive |-> FALSE, callsign |-> TRUE, shared |-> TRUE, delays |-> <<2, 2>>, jitter |-> 0, losses |-> 1, frames |-> {"data", "group"}]}

(* A jump beyond what the wait and the longest backoff reach across.       *)
MCLongJump == {[adaptive |-> TRUE, callsign |-> FALSE, shared |-> FALSE, delays |-> <<2, 15>>, jitter |-> 0, losses |-> 0, frames |-> {"data"}]}
=============================================================================
