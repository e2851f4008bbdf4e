----------------------------- MODULE S1gParams -----------------------------
(***************************************************************************)
(* Numbers of the 2 MHz S1G PHY that several modules share: the MCS table, *)
(* the durations of PPDUs, and the number of Data symbols a SIG field      *)
(* stands for (params.rs, vector.rs).  "No value" of the code (None) is 0  *)
(* here: no valid symbol count and no valid N_DBPS is 0.  Durations are    *)
(* microseconds.                                                           *)
(***************************************************************************)
EXTENDS Naturals, FiniteSets

N_SERVICE == 8

N_TAIL == 6

N_SD == 52

PSDU_MAX_NO_AGG == 511

N_SYM_MAX == 511

CeilDiv(a, b) == (a + b - 1) \div b

MaxOf(a, b) == IF a > b THEN a ELSE b

(* Truncated subtraction, Rust's saturating_sub. *)
Minus(a, b) == IF a > b THEN a - b ELSE 0

(* Coded bits per subcarrier and code rate of the MCSs defined at 2 MHz and *)
(* above.                                                                   *)
Mcs(bits, num, den) == [bits |-> bits, num |-> num, den |-> den]

McsTable ==
  [m \in (0 .. 9) \cup {11, 12} |->
     CASE m = 0 -> Mcs(1, 1, 2)
       [] m = 1 -> Mcs(2, 1, 2)
       [] m = 2 -> Mcs(2, 3, 4)
       [] m = 3 -> Mcs(4, 1, 2)
       [] m = 4 -> Mcs(4, 3, 4)
       [] m = 5 -> Mcs(6, 2, 3)
       [] m = 6 -> Mcs(6, 3, 4)
       [] m = 7 -> Mcs(6, 5, 6)
       [] m = 8 -> Mcs(8, 3, 4)
       [] m = 9 -> Mcs(8, 5, 6)
       [] m = 11 -> Mcs(10, 3, 4)
       [] m = 12 -> Mcs(10, 5, 6)]

(* N_DBPS for n_ss spatial streams; 0 where 52 * N_BPSCS * N_SS * R is not *)
(* an integer or the combination does not exist.                           *)
NDbps(mcs, n_ss) ==
  IF n_ss \in 1 .. 4 /\ mcs \in DOMAIN McsTable
  THEN LET m == McsTable[mcs]
           coded == N_SD * m.bits * n_ss * m.num
       IN IF coded % m.den = 0 THEN coded \div m.den ELSE 0
  ELSE 0

NCbps(mcs) == N_SD * McsTable[mcs].bits

(* The MCSs this PHY sends and decodes: those valid with one stream. *)
ValidMcs == {m \in DOMAIN McsTable : NDbps(m, 1) > 0}

Nltf(n_sts) == CASE n_sts <= 1 -> 1 [] n_sts = 2 -> 2 [] OTHER -> 4

(* Everything before the Data field. *)
PreambleDuration(long, n_sts) ==
  IF long THEN 240 + 40 + Nltf(n_sts) * 40 + 40
  ELSE 240 + (Nltf(n_sts) - 1) * 40

(* With short GI only the symbols after the first are short. *)
DataDuration(shortGi, nSym) ==
  IF shortGi /\ nSym > 0 THEN 40 + (nSym - 1) * 36 ELSE nSym * 40

PpduDuration(long, n_sts, shortGi, nSym) ==
  PreambleDuration(long, n_sts) + DataDuration(shortGi, nSym)

NoGeometry == [nSym |-> 0, psdu |-> 0]

(* Mutant: the PSDU of an LDPC A-MPDU is taken to fill the extra symbol.    *)
DataFieldGeometryExtraFilled(length, aggregation, ldpc, extra, stbc, n_dbps) ==
  LET m == IF stbc THEN 2 ELSE 1
      overhead == N_SERVICE + (IF ldpc THEN 0 ELSE N_TAIL)
  IN CASE length = 0 -> NoGeometry
       [] aggregation /\ length > 0 -> [nSym |-> length, psdu |-> Minus(length * n_dbps, overhead) \div 8]
       [] OTHER -> [nSym |-> m * CeilDiv(8 * length + overhead, m * n_dbps) + (IF ldpc /\ extra THEN m ELSE 0),
                    psdu |-> length]

(* Symbols and PSDU octets meant by a SIG field: its length counts symbols  *)
(* of an aggregated PPDU and octets of any other one.                       *)
DataFieldGeometry(length, aggregation, ldpc, extra, stbc, n_dbps) ==
  LET m == IF stbc THEN 2 ELSE 1
      more == IF ldpc /\ extra THEN m ELSE 0
      overhead == N_SERVICE + (IF ldpc THEN 0 ELSE N_TAIL)
  IN CASE length = 0 \/ (aggregation /\ length < more) -> NoGeometry
       [] aggregation /\ length > 0 /\ length >= more ->
            [nSym |-> length,
             psdu |-> Minus((IF ldpc THEN MaxOf(length - more, 1) ELSE length) * n_dbps, overhead) \div 8]
       [] OTHER ->
            [nSym |-> m * CeilDiv(8 * length + overhead, m * n_dbps) + more, psdu |-> length]
=============================================================================
