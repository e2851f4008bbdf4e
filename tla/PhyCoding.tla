----------------------------- MODULE PhyCoding -----------------------------
(***************************************************************************)
(* The bit-level coding of the PHY: scrambler, convolutional code and its  *)
(* Viterbi decoder, interleavers, Gray mapping and max-log demapping, and  *)
(* the subcarriers of pilots and data (scrambler.rs, bcc.rs,               *)
(* interleaver.rs, mapping.rs, pilots.rs, ofdm.rs).                        *)
(*                                                                         *)
(* A bit string is a sequence over {0, 1}; its first element is the code's *)
(* index 0.  Points of a constellation are integers on each axis, the      *)
(* factor K_MOD being left out, so that soft values are exact; a soft      *)
(* value above 0 means bit 0, and 0 means nothing is known.                *)
(***************************************************************************)
EXTENDS Integers, Sequences, FiniteSets, S1gParams

Bit(v, i) == (v \div 2^i) % 2

Xor(a, b) == (a + b) % 2

Zeros(n) == [i \in 1 .. n |-> 0]

(* n bits of v, least significant first, and back. *)
Uint(v, n) == [i \in 1 .. n |-> Bit(v, i - 1)]

Value(bits) ==
  LET v[i \in 0 .. Len(bits)] == IF i = 0 THEN 0 ELSE v[i - 1] + bits[i] * 2^(i - 1)
  IN v[Len(bits)]

(* The states a loop of n steps goes through from start, all in S, and the  *)
(* concatenation of part(1) .. part(n).  Both halve the loop, which keeps   *)
(* the evaluation shallow.                                                  *)
Run(step(_, _), start, n, S) ==
  LET f[lo \in 1 .. n, hi \in 1 .. n, x \in S] ==
        IF lo = hi THEN <<step(x, lo)>>
        ELSE LET mid == (lo + hi) \div 2
                 first == f[lo, mid, x]
             IN first \o f[mid + 1, hi, first[Len(first)]]
  IN f[1, n, start]

Concat(part(_), n) ==
  LET f[lo \in 1 .. n, hi \in 1 .. n] ==
        IF lo = hi THEN part(lo)
        ELSE LET mid == (lo + hi) \div 2 IN f[lo, mid] \o f[mid + 1, hi]
  IN f[1, n]

---------------------------------------------------------------------------
(* Scrambler. *)

(* w holds the last seven bits, the oldest in bit 0; the next one is the    *)
(* sum of those four and seven back.  The seed is the first seven.          *)
ScramblerSequence(seed, n) ==
  LET shift(w, i) == (w \div 2) + 64 * Xor(Bit(w, 3), Bit(w, 0))
      windows == <<seed>> \o Run(shift, seed, n, 0 .. 127)
  IN [i \in 1 .. n |-> Bit(windows[i], 0)]

Scramble(seed, bits) ==
  LET s == ScramblerSequence(seed, Len(bits)) IN [i \in 1 .. Len(bits) |-> Xor(bits[i], s[i])]

(* The SERVICE field is zero before scrambling, so its first seven bits are *)
(* the seed.                                                                *)
RecoverSeed(bits) == Value(SubSeq(bits, 1, 7))

---------------------------------------------------------------------------
(* Convolutional code, generators 133 and 171 (octal). *)

(* The two coded bits for input x in state s, bit 5 of s being the previous *)
(* input and bit 0 the one six inputs ago.                                  *)
BranchOutput ==
  [x \in 0 .. 1 |-> [s \in 0 .. 63 |->
     << (x + Bit(s, 4) + Bit(s, 3) + Bit(s, 1) + Bit(s, 0)) % 2,
        (x + Bit(s, 5) + Bit(s, 4) + Bit(s, 3) + Bit(s, 0)) % 2 >>]]

(* Which of the two coded bits of each input of a puncturing period is sent. *)
Keep(num) ==
  CASE num = 1 -> << <<TRUE, TRUE>> >>
    [] num = 2 -> << <<TRUE, TRUE>>, <<TRUE, FALSE>> >>
    [] num = 3 -> << <<TRUE, TRUE>>, <<TRUE, FALSE>>, <<FALSE, TRUE>> >>
    [] num = 5 -> << <<TRUE, TRUE>>, <<TRUE, FALSE>>, <<FALSE, TRUE>>, <<TRUE, FALSE>>, <<FALSE, TRUE>> >>

KeepAt(num, k) == Keep(num)[((k - 1) % num) + 1]

(* Rate-1/2 coded pairs of a bit string, the encoder starting in state 0:   *)
(* each depends on the input and the six before it.                         *)
EncodePairs(bits) ==
  LET x(i) == IF i >= 1 THEN bits[i] ELSE 0
      state(k) == 32 * x(k - 1) + 16 * x(k - 2) + 8 * x(k - 3) + 4 * x(k - 4) + 2 * x(k - 5) + x(k - 6)
  IN [k \in 1 .. Len(bits) |-> BranchOutput[bits[k]][state(k)]]

Encode(bits, num) ==
  LET pairs == EncodePairs(bits)
      part(k) == (IF KeepAt(num, k)[1] THEN <<pairs[k][1]>> ELSE << >>)
                 \o (IF KeepAt(num, k)[2] THEN <<pairs[k][2]>> ELSE << >>)
  IN Concat(part, Len(bits))

(* Soft values put back at the places they were sent from, 0 at the others. *)
(* Before input k come (k-1) * (num+1) / num sent bits, rounded up.         *)
Depuncture(llrs, num, n) ==
  [k \in 1 .. n |->
     LET keep == KeepAt(num, k)
         before == CeilDiv((k - 1) * (num + 1), num)
     IN << IF keep[1] THEN llrs[before + 1] ELSE 0,
           IF keep[2] THEN llrs[before + (IF keep[1] THEN 2 ELSE 1)] ELSE 0 >>]

Unreached == -1000000

(* One trellis step.  best[s + 1] is the metric of state s and the oldest   *)
(* bit of the predecessor it came from: the better one of two, the first on *)
(* a tie.                                                                   *)
AddCompareSelect(best, pair) ==
  LET gain(s, x) ==
        LET o == BranchOutput[x][s]
        IN (IF o[1] = 0 THEN pair[1] ELSE 0 - pair[1]) + (IF o[2] = 0 THEN pair[2] ELSE 0 - pair[2])
      cand(s, x) == IF best[s + 1][1] = Unreached THEN Unreached ELSE best[s + 1][1] + gain(s, x)
      next(x) ==
        [i \in 1 .. 32 |->
           LET a == cand(2 * (i - 1), x)
               b == cand(2 * (i - 1) + 1, x)
           IN IF b > a THEN <<b, 1>> ELSE <<a, 0>>]
  IN next(0) \o next(1)

(* Soft Viterbi decoding of a terminated trellis: it starts and ends in     *)
(* state 0.                                                                 *)
ViterbiDecode(llrs, num, n) ==
  LET pairs == Depuncture(llrs, num, n)
      forward(best, k) == AddCompareSelect(best, pairs[k])
      start == [i \in 1 .. 64 |-> << IF i = 1 THEN 0 ELSE Unreached, 0 >>]
      best == Run(forward, start, n, Seq(Int \X {0, 1}))
      back(state, k) == 2 * (state % 32) + best[n - k + 1][state + 1][2]
      states == <<0>> \o Run(back, 0, n, 0 .. 63)
  IN [k \in 1 .. n |-> states[n - k + 1] \div 32]

---------------------------------------------------------------------------
(* Interleavers, on indices from 0. *)

DataPerm(bits, k) ==
  LET rows == 4 * bits
      coded == 13 * rows
      s == MaxOf(1, bits \div 2)
      i == rows * (k % 13) + (k \div 13)
  IN s * (i \div s) + ((i + coded - (13 * i) \div coded) % s)

SigPerm(k) == 3 * (k % 16) + (k \div 16)

(* Where output j of an interleaver comes from: out[perm(k)] = x[k]. *)
DataFrom ==
  [bits \in {1, 2, 4, 6} |->
     [j \in 1 .. N_SD * bits |-> CHOOSE k \in 1 .. N_SD * bits : DataPerm(bits, k - 1) = j - 1]]

SigFrom == [j \in 1 .. 48 |-> CHOOSE k \in 1 .. 48 : SigPerm(k - 1) = j - 1]

Interleave(x, bits) == [j \in 1 .. N_SD * bits |-> x[DataFrom[bits][j]]]

InterleaveSig(x) == [j \in 1 .. 48 |-> x[SigFrom[j]]]

(* The receiver reads them back: out[k] = x[perm(k)]. *)
Deinterleave(llrs, bits) == [k \in 1 .. N_SD * bits |-> llrs[DataPerm(bits, k - 1) + 1]]

DeinterleaveSig(llrs) == [k \in 1 .. 48 |-> llrs[SigPerm(k - 1) + 1]]

---------------------------------------------------------------------------
(* Constellations. *)

(* Level of an axis for its bits, the first one the most significant of the *)
(* Gray index.                                                              *)
AxisLevel(b) ==
  LET n[i \in 0 .. Len(b)] ==
        IF i = 0 THEN 0 ELSE LET p == n[i - 1] IN 2 * p + Xor(p % 2, b[i])
  IN 2 * n[Len(b)] - (2^Len(b) - 1)

Square(x) == x * x

LeastOf(S) == CHOOSE x \in S : \A y \in S : x <= y

(* Max-log soft value of bit i of an axis of m bits received at level y:    *)
(* squared distance to the nearest level with a 1 there less the one to the *)
(* nearest with a 0.                                                        *)
AxisLlr ==
  [m \in 1 .. 3 |->
     [y \in -7 .. 7 |->
        [i \in 1 .. m |->
           LET gray(n) == Xor(Bit(n, m - i), Bit(n, m - i + 1))
               near(v) == LeastOf({Square(y - (2 * n - (2^m - 1))) : n \in {l \in 0 .. 2^m - 1 : gray(l) = v}})
           IN near(1) - near(0)]]]

(* Points of a symbol: <<I>> for BPSK and <<I, Q>> for the others. *)
MapPoints(b, bits) ==
  LET half == bits \div 2
      level(t, first, n) == AxisLevel([o \in 1 .. n |-> b[(t - 1) * bits + first + o]])
  IN [t \in 1 .. N_SD |->
        IF bits = 1 THEN <<level(t, 0, 1)>> ELSE <<level(t, 0, half), level(t, half, half)>>]

(* Soft values of a symbol's points, each scaled by its tone's quality csi. *)
DemapLlrs(points, csi, bits) ==
  LET half == MaxOf(1, bits \div 2)
  IN [i \in 1 .. N_SD * bits |->
        LET t == (i - 1) \div bits + 1
            o == (i - 1) % bits
        IN csi[t] * AxisLlr[half][points[t][o \div half + 1]][(o % half) + 1]]

---------------------------------------------------------------------------
(* Subcarriers. *)

TravelingPositions ==
  << <<-28, -24, -20, -16, -26, -22, -18, -27, -23, -19, -15, -25, -21, -17>>,
     <<-12, -8, -4, -2, -14, -10, -6, -11, -7, -3, 1, -13, -9, -5>>,
     <<4, 8, 12, 16, 2, 6, 10, 5, 9, 13, 17, -1, 3, 7>>,
     <<20, 24, 28, 26, 14, 18, 22, 21, 25, 23, 27, 11, 15, 19>> >>

PilotPositions(n, traveling) ==
  IF traveling THEN {TravelingPositions[l][(n % 14) + 1] : l \in 1 .. 4} ELSE {-21, -7, 7, 21}

UsedTones == (-28 .. 28) \ {0}

(* The members of S in ascending order. *)
Ascending(S) ==
  LET rank(k) == Cardinality({j \in S : j <= k})
  IN [i \in 1 .. Cardinality(S) |-> CHOOSE k \in S : rank(k) = i]

(* The 52 used tones that carry no pilot in Data symbol n. *)
DataSubcarriers(n, traveling) == Ascending(UsedTones \ PilotPositions(n, traveling))

SigSubcarriers == Ascending((-26 .. 26) \ {0, -21, -7, 7, 21})
=============================================================================
