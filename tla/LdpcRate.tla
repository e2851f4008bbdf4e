------------------------------ MODULE LdpcRate ------------------------------
(***************************************************************************)
(* How a PPDU is cut into LDPC codewords (ldpc.rs, PpduParams): the number *)
(* and size of the codewords, how much of each is shortened, punctured or  *)
(* repeated, and whether one more symbol is needed.  The code computes     *)
(* with floating-point rates; the inequalities are multiplied out here.    *)
(* The parity matrices and the min-sum decoder are left out: a codeword is *)
(* known by the positions of its bits that are sent.                       *)
(***************************************************************************)
EXTENDS Naturals, Sequences, S1gParams

(* Number and length of the codewords for avbits coded and pld data bits.   *)
CodewordsFor(avbits, pld, num, den) ==
  LET spare(c) == den * avbits >= den * pld + c * (den - num)
  IN CASE avbits <= 648 -> <<1, IF spare(912) THEN 1296 ELSE 648>>
       [] avbits > 648 /\ avbits <= 1296 -> <<1, IF spare(1464) THEN 1944 ELSE 1296>>
       [] avbits > 1296 /\ avbits <= 1944 -> <<1, 1944>>
       [] avbits > 1944 /\ avbits <= 2592 -> <<2, IF spare(2916) THEN 1944 ELSE 1296>>
       [] avbits > 2592 -> <<CeilDiv(pld * den, 1944 * num), 1944>>

(* Whether so much of total bits would be punctured that one more symbol   *)
(* is taken.                                                               *)
NeedsExtra(m, total, shrt, punc) ==
  \/ /\ 10 * m.den * punc > total * (m.den - m.num)
     /\ 10 * shrt * (m.den - m.num) < 12 * punc * m.num
  \/ 10 * m.den * punc > 3 * total * (m.den - m.num)

(* The parameters of codewords cw for pld data bits in av coded ones.      *)
Filled(m, n_cbps, pld, cw, shrt, av, extra) ==
  [pld |-> pld, avbits |-> av, nCw |-> cw[1], l |-> cw[2],
   k |-> (cw[2] * m.num) \div m.den, shrt |-> shrt,
   punc |-> Minus(cw[1] * cw[2], av + shrt),
   rep |-> Minus(av, (cw[1] * cw[2] * (m.den - m.num)) \div m.den + pld),
   nSym |-> av \div n_cbps, extra |-> extra]

FilledOrMore(m, n_cbps, pld, cw, shrt, avInit) ==
  LET extra == IF NeedsExtra(m, cw[1] * cw[2], shrt, Minus(cw[1] * cw[2], avInit + shrt)) THEN 1 ELSE 0
  IN Filled(m, n_cbps, pld, cw, shrt, avInit + extra * n_cbps, extra)

Shortened(m, n_cbps, pld, avInit, cw) ==
  FilledOrMore(m, n_cbps, pld, cw, Minus((cw[1] * cw[2] * m.num) \div m.den, pld), avInit)

(* Encoding parameters of a PPDU with nSymInit initial symbols. *)
PpduParams(nSymInit, mcs) ==
  LET params(m, n_cbps, pld, avInit) ==
        Shortened(m, n_cbps, pld, avInit, CodewordsFor(avInit, pld, m.num, m.den))
  IN params(McsTable[mcs], NCbps(mcs), nSymInit * NDbps(mcs, 1), nSymInit * NCbps(mcs))

(* Share of codeword j (from 0) in a total over all codewords: the first    *)
(* ones take one more.                                                      *)
Share(p, total, j) == (total \div p.nCw) + (IF j < total % p.nCw THEN 1 ELSE 0)

InfoBits(p, j) == p.k - Share(p, p.shrt, j)

ParityBits(p, j) == (p.l - p.k) - Share(p, p.punc, j)

TxLen(p, j) == p.l - Share(p, p.shrt, j) - Share(p, p.punc, j) + Share(p, p.rep, j)

(* Codeword position of each bit sent for codeword j, as encode_data builds *)
(* it: information bits but the shortened ones, parity bits but the         *)
(* punctured ones, then as many of these again as are repeated.             *)
SentPositions(p, j) ==
  LET n == InfoBits(p, j)
      base == [i \in 1 .. n + ParityBits(p, j) |-> IF i <= n THEN i - 1 ELSE p.k + (i - n - 1)]
  IN base \o [i \in 1 .. Share(p, p.rep, j) |-> base[((i - 1) % Len(base)) + 1]]

(* Mutant: a repeated bit of the parity part is added where an information  *)
(* bit of that number would be.                                             *)
HeardPositionsNoSkip(p, j) ==
  LET n == InfoBits(p, j)
      base == n + ParityBits(p, j)
  IN [i \in 1 .. base + Share(p, p.rep, j) |->
        IF i <= base THEN (IF i <= n THEN i - 1 ELSE p.k + (i - 1 - n)) ELSE (i - base - 1) % base]

(* Codeword position to which decode_data adds the soft value of each bit   *)
(* received for codeword j.                                                 *)
HeardPositions(p, j) ==
  LET n == InfoBits(p, j)
      base == n + ParityBits(p, j)
      of(src) == IF src < n THEN src ELSE p.k + (src - n)
  IN [i \in 1 .. base + Share(p, p.rep, j) |->
        IF i <= base THEN (IF i <= n THEN i - 1 ELSE p.k + (i - 1 - n)) ELSE of((i - base - 1) % base)]
=============================================================================
