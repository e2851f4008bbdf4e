------------------------------ MODULE RespTimer ------------------------------
(* The wait for a response: a smoothed delay from the end of a PPDU to its *)
(* response, its mean deviation, and the wait they give.  All in one unit  *)
(* of time; the divisions truncate as in the code.                         *)
EXTENDS Integers

CONSTANTS MaxWait,      \* ack_timeout_us
          MinWait,      \* MIN_RESPONSE_TIMEOUT_US
          Headroom      \* RESPONSE_HEADROOM_US

ASSUME WaitAssumption == {MaxWait, MinWait, Headroom} \subseteq Nat

Larger(a, b) == IF a >= b THEN a ELSE b

Smaller(a, b) == IF a <= b THEN a ELSE b

NoEstimate == [known |-> FALSE, srtt |-> 0, var |-> 0]

(* response_timeout_us *)
Wait(est, adaptive) ==
  IF est.known /\ adaptive
  THEN Smaller(MaxWait,
               Larger(Smaller(MinWait, MaxWait),
                      est.srtt + Larger(4 * est.var, est.srtt \div 2) + Headroom))
  ELSE MaxWait

(* update_response_delay *)
Updated(est, sample) ==
  IF est.known
  THEN [known |-> TRUE,
        srtt |-> (7 * est.srtt + sample) \div 8,
        var |-> (3 * est.var + Larger(sample - est.srtt, est.srtt - sample)) \div 4]
  ELSE [known |-> TRUE, srtt |-> sample, var |-> sample \div 2]

(* What note_late_response makes of the response to an attempt given up.   *)
UpdatedLate(est, sample) ==
  IF sample <= 2 * MaxWait THEN Updated(est, sample) ELSE est
=============================================================================
