--------------------------- MODULE PhyLinkProofs ---------------------------
(***************************************************************************)
(* Proofs about PhyLink, for any sets of MCSs and lengths and any fades    *)
(* that leave a subcarrier of the SIG. LinkInv says what can be on the air *)
(* and what the receiver has made of it. On it rest four theorems, each    *)
(* with lemmas of its own: the SIG is read back bit by bit and the         *)
(* geometry found back from it; its CRC, a register that can be run        *)
(* backwards, catches every short burst; the LDPC parameters cut the coded *)
(* bits into codewords without rest; and the duration of other stations'   *)
(* PPDUs follows from their fields.                                        *)
(***************************************************************************)
EXTENDS PhyLink, FiniteSetTheorems, SequenceTheorems, WellFoundedInduction, TLAPS

---------------------------------------------------------------------------
(* Numbers of the MCSs.                                                    *)

(* Data and coded bits of a symbol and the code rate of each valid MCS.    *)
Rates == {<<26, 52, 1, 2>>, <<52, 104, 1, 2>>, <<78, 104, 3, 4>>, <<104, 208, 1, 2>>, <<156, 208, 3, 4>>,
          <<208, 312, 2, 3>>, <<234, 312, 3, 4>>, <<260, 312, 5, 6>>, <<312, 416, 3, 4>>, <<390, 520, 3, 4>>}

RateOf(mcs) == <<NDbps(mcs, 1), NCbps(mcs), McsTable[mcs].num, McsTable[mcs].den>>

(* The rows of the table of MCSs.                                          *)
LEMMA RowsOfTable ==
  /\ DOMAIN McsTable = (0 .. 9) \cup {11, 12}
  /\ McsTable[0] = Mcs(1, 1, 2) /\ McsTable[1] = Mcs(2, 1, 2) /\ McsTable[2] = Mcs(2, 3, 4)
  /\ McsTable[3] = Mcs(4, 1, 2) /\ McsTable[4] = Mcs(4, 3, 4) /\ McsTable[5] = Mcs(6, 2, 3)
  /\ McsTable[6] = Mcs(6, 3, 4) /\ McsTable[7] = Mcs(6, 5, 6) /\ McsTable[8] = Mcs(8, 3, 4)
  /\ McsTable[9] = Mcs(8, 5, 6) /\ McsTable[11] = Mcs(10, 3, 4) /\ McsTable[12] = Mcs(10, 5, 6)
  BY DEF McsTable, Mcs

(* What the table says of n_ss streams: N_DBPS is a natural.               *)
LEMMA DbpsType ==
  ASSUME NEW mcs, NEW n_ss
  PROVE  NDbps(mcs, n_ss) \in Nat
<1>1. CASE n_ss \in 1 .. 4 /\ mcs \in DOMAIN McsTable
  <2>1. PICK m \in {Mcs(1, 1, 2), Mcs(2, 1, 2), Mcs(2, 3, 4), Mcs(4, 1, 2), Mcs(4, 3, 4), Mcs(6, 2, 3), Mcs(6, 3, 4),
                    Mcs(6, 5, 6), Mcs(8, 3, 4), Mcs(8, 5, 6), Mcs(10, 3, 4), Mcs(10, 5, 6)} : McsTable[mcs] = m
    BY <1>1, RowsOfTable
  <2>2. m.bits \in Nat /\ m.num \in Nat /\ m.den \in Nat \ {0}
    BY DEF Mcs
  <2>3. n_ss \in {1, 2, 3, 4}
    BY <1>1
  <2>4. N_SD * m.bits * n_ss * m.num \in Nat
    BY <2>2, <2>3 DEF N_SD
  <2>5. QED
    BY <1>1, <2>1, <2>2, <2>4 DEF NDbps
<1>2. CASE ~(n_ss \in 1 .. 4 /\ mcs \in DOMAIN McsTable)
  BY <1>2 DEF NDbps
<1>3. QED
  BY <1>1, <1>2

(* The numbers of a valid MCS are among Rates: the numeric lemmas below    *)
(* need only these ten rows.                                               *)
LEMMA RateIsListed ==
  ASSUME NEW mcs \in ValidMcs
  PROVE  RateOf(mcs) \in Rates
<1>1. mcs \in 0 .. 9 \/ mcs = 11 \/ mcs = 12
  BY RowsOfTable DEF ValidMcs
<1>2. NDbps(9, 1) = 0 /\ NDbps(12, 1) = 0
  BY RowsOfTable DEF NDbps, N_SD, Mcs
<1>3. mcs \in {0, 1, 2, 3, 4, 5, 6, 7, 8, 11}
  BY <1>1, <1>2 DEF ValidMcs
<1>4. ASSUME NEW k \in {0, 1, 2, 3, 4, 5, 6, 7, 8, 11}
      PROVE  RateOf(k) \in Rates
  BY RowsOfTable DEF RateOf, Rates, NDbps, NCbps, N_SD, Mcs
<1>5. QED
  BY <1>3, <1>4

---------------------------------------------------------------------------
(* LDPC codewords.                                                         *)

(* Division with a remainder.                                              *)
LEMMA DivMod ==
  ASSUME NEW a \in Nat, NEW b \in Nat, b > 0
  PROVE  a \div b \in Nat /\ a % b \in 0 .. b - 1 /\ a = b * (a \div b) + (a % b)
<1>1. a % b \in 0 .. b - 1
  OBVIOUS
<1>2. a \div b \in Nat
  OBVIOUS
<1>3. a = b * (a \div b) + (a % b)
  OBVIOUS
<1>4. QED
  BY <1>1, <1>2, <1>3

(* The quotient rounded up is the least whose multiple reaches the         *)
(* dividend.                                                               *)
LEMMA CeilDivBounds ==
  ASSUME NEW a \in Nat, NEW b \in Nat \ {0}
  PROVE  /\ CeilDiv(a, b) \in Nat
         /\ CeilDiv(a, b) * b >= a
         /\ a > 0 => (CeilDiv(a, b) - 1) * b < a /\ CeilDiv(a, b) > 0
<1> DEFINE q == (a + b - 1) \div b
           r == (a + b - 1) % b
<1>1. q \in Nat /\ r \in 0 .. b - 1 /\ a + b - 1 = b * q + r
  OBVIOUS
<1> HIDE DEF q, r
<1>2. CeilDiv(a, b) = q
  BY DEF CeilDiv, q
<1>3. q * b = b * q /\ (q - 1) * b = b * q - b
  BY <1>1
<1>4. q = 0 => b * q = 0
  BY <1>1
<1>5. QED
  BY <1>1, <1>2, <1>3, <1>4

CodeRates == {<<1, 2>>, <<3, 4>>, <<2, 3>>, <<5, 6>>}

CodewordLengths == {648, 1296, 1944}

(* The codewords hold all data bits.                                       *)
LEMMA CodewordsHoldData ==
  ASSUME NEW av \in Nat, NEW pld \in Nat \ {0}, NEW rate \in CodeRates, pld * rate[2] = av * rate[1]
  PROVE  \E c \in Nat \ {0}, l \in CodewordLengths :
           /\ CodewordsFor(av, pld, rate[1], rate[2]) = <<c, l>>
           /\ c * l * rate[1] >= av * rate[1]
<1> DEFINE num == rate[1]
           den == rate[2]
           cw == CodewordsFor(av, pld, num, den)
<1>1. num \in Nat \ {0} /\ den \in Nat \ {0} /\ num < den /\ pld * den = av * num
  BY DEF CodeRates
<1>2. SUFFICES \E c \in Nat \ {0}, l \in CodewordLengths : cw = <<c, l>> /\ c * l * num >= av * num
  OBVIOUS
<1>3. CASE av <= 1944
  <2>1. \E l \in CodewordLengths : cw = <<1, l>> /\ l >= av
    <3> HIDE DEF num, den
    <3>1. CASE av <= 648
      BY <3>1 DEF CodewordsFor, CodewordLengths
    <3>2. CASE av > 648 /\ av <= 1296
      BY <3>2 DEF CodewordsFor, CodewordLengths
    <3>3. CASE av > 1296
      BY <1>3, <3>3 DEF CodewordsFor, CodewordLengths
    <3>4. QED
      BY <3>1, <3>2, <3>3
  <2>2. PICK l \in CodewordLengths : cw = <<1, l>> /\ l >= av
    BY <2>1
  <2> HIDE DEF cw
  <2>3. l * num >= av * num
    BY <2>2 DEF CodeRates, CodewordLengths
  <2>4. 1 * l * num = l * num
    BY <1>1, <2>2 DEF CodewordLengths
  <2> HIDE DEF num
  <2>5. QED
    BY <2>2, <2>3, <2>4
<1>4. CASE av > 1944 /\ av <= 2592
  <2>1. \E l \in {1296, 1944} : cw = <<2, l>>
    <3> HIDE DEF num, den
    <3>1. QED
      BY <1>4 DEF CodewordsFor
  <2>2. PICK l \in {1296, 1944} : cw = <<2, l>>
    BY <2>1
  <2> HIDE DEF cw
  <2>3. 2 * l * num >= av * num
    BY <1>4 DEF CodeRates
  <2>4. QED
    BY <2>2, <2>3 DEF CodewordLengths
<1>5. CASE av > 2592
  <2> DEFINE a == pld * den
             b == 1944 * num
             c == CeilDiv(a, b)
  <2>1. cw = <<c, 1944>>
    <3> HIDE DEF num, den, c
    <3>1. QED
      BY <1>5 DEF CodewordsFor, c
  <2>2. a \in Nat /\ b \in Nat \ {0} /\ a > 0 /\ a = av * num
    BY DEF CodeRates
  <2>3. c \in Nat \ {0} /\ c * b >= a
    <3> HIDE DEF a, b
    <3>1. c \in Nat /\ c * b >= a /\ c > 0
      BY <2>2, CeilDivBounds, Zenon
    <3>2. QED
      BY <3>1
  <2> HIDE DEF c, cw, a
  <2>4. c * 1944 * num >= av * num
    BY <2>2, <2>3 DEF CodeRates
  <2>5. QED
    BY <2>1, <2>3, <2>4 DEF CodewordLengths
<1>6. QED
  BY <1>3, <1>4, <1>5

(* How codewords are cut from n initial symbols of rate r: the data bits    *)
(* and the shortened ones make up the information bits, and what is left    *)
(* of the codewords, with the repeated bits, the coded bits.                *)
IsCut(p, n, r) ==
  /\ p \in [pld : Nat, avbits : Nat, nCw : Nat \ {0}, l : Nat, k : Nat, shrt : Nat, punc : Nat, rep : Nat,
            nSym : Nat, extra : {0, 1}]
  /\ p.pld = n * r[1]
  /\ p.nSym = n + p.extra
  /\ p.avbits = p.nSym * r[2]
  /\ p.k < p.l
  /\ p.rep = 0 \/ p.punc = 0
  /\ p.nCw * p.k = p.pld + p.shrt
  /\ p.punc <= p.nCw * p.l - p.nCw * p.k
  /\ p.nCw * p.l + p.rep = p.avbits + p.shrt + p.punc

(* Products of three factors.                                              *)
LEMMA TimesAssociates ==
  ASSUME NEW a \in Nat, NEW b \in Nat, NEW c \in Nat
  PROVE  a * b * c = a * (b * c) /\ a * b \in Nat
  OBVIOUS

(* Whether or not a symbol is added, the shortening, puncturing and        *)
(* repetition chosen for it make a cut of the coded bits into codewords.   *)
LEMMA FilledIsCut ==
  ASSUME NEW m, NEW rate \in CodeRates, m.num = rate[1], m.den = rate[2],
         NEW c \in Nat \ {0}, NEW l \in CodewordLengths, NEW cw, cw = <<c, l>>,
         NEW n \in Nat \ {0}, NEW dbps \in Nat \ {0}, NEW cbps \in Nat \ {0}, dbps * rate[2] = cbps * rate[1],
         NEW r, r = <<dbps, cbps>>,
         NEW pld, pld = n * dbps, NEW avi, avi = n * cbps, c * l * rate[1] >= avi * rate[1],
         NEW extra \in {0, 1}, NEW av, av = avi + extra * cbps,
         NEW shrt, shrt = Minus((c * l * m.num) \div m.den, pld)
  PROVE  IsCut(Filled(m, cbps, pld, cw, shrt, av, extra), n, r)
<1> DEFINE num == rate[1]
           den == rate[2]
           k == (l * num) \div den
           T == c * l
           K == c * k
           nSym == n + extra
           punc == Minus(T, av + shrt)
           rep == Minus(av, (T * (den - num)) \div den + pld)
           p == [pld |-> pld, avbits |-> av, nCw |-> c, l |-> l, k |-> k, shrt |-> shrt, punc |-> punc,
                 rep |-> rep, nSym |-> av \div cbps, extra |-> extra]
<1>1. k \in Nat /\ k < l /\ l \in Nat /\ k * den = l * num
  BY DEF CodeRates, CodewordLengths
<1>2. T \in Nat /\ K \in Nat /\ pld \in Nat /\ avi \in Nat
  BY <1>1
<1>3. K * den = T * num
  <2> HIDE DEF k
  <2>1. K * den = c * (k * den) /\ T * num = c * (l * num)
    BY <1>1 DEF CodeRates
  <2>2. QED
    BY <1>1, <2>1
<1>4. pld * den = avi * num
  <2>1. pld * den = n * (dbps * den) /\ avi * num = n * (cbps * num)
    BY DEF CodeRates
  <2>2. QED
    BY <2>1
<1>5. T * num >= avi * num
  OBVIOUS
<1> HIDE DEF k, T, K
<1>6. av \in Nat /\ av >= avi
  BY <1>2
<1>7. /\ shrt \in Nat /\ punc \in Nat /\ rep \in Nat
      /\ K = pld + shrt
      /\ punc <= T - K
      /\ T + rep = av + shrt + punc
      /\ rep = 0 \/ punc = 0
  <2>1. K >= pld /\ T >= avi /\ avi >= pld /\ T >= K
    BY <1>2, <1>3, <1>4, <1>5 DEF CodeRates
  <2>2. (T * num) \div den = K /\ (T * (den - num)) \div den = T - K
    <3>1. (T * num) \div den = K
      BY <1>2, <1>3 DEF CodeRates
    <3>2. (T - K) \in Nat /\ T * (den - num) = (T - K) * den
      BY <1>2, <1>3, <2>1 DEF CodeRates
    <3>3. \A j \in Nat : (j * den) \div den = j
      BY DEF CodeRates
    <3> DEFINE rest == T - K
    <3>4. rest \in Nat /\ T * (den - num) = rest * den
      BY <3>2
    <3> HIDE DEF rest, num, den
    <3>5. (T * (den - num)) \div den = rest
      BY <3>3, <3>4
    <3>6. QED
      BY <3>1, <3>5 DEF rest
  <2>3. shrt = K - pld
    BY <1>2, <2>1, <2>2 DEF Minus, T
  <2> DEFINE q == (T * (den - num)) \div den
  <2> HIDE DEF num, den
  <2>4. punc = IF T > av + shrt THEN T - (av + shrt) ELSE 0
    BY DEF Minus
  <2>5. rep = IF av > (T - K) + pld THEN av - ((T - K) + pld) ELSE 0
    BY <2>2 DEF Minus
  <2>6. QED
    BY <1>2, <1>6, <2>1, <2>3, <2>4, <2>5
<1>8. av = nSym * cbps /\ av \div cbps = nSym /\ nSym \in Nat
  <2>1. av = nSym * cbps /\ nSym \in Nat
    OBVIOUS
  <2>2. QED
    BY <2>1
<1>9. Filled(m, cbps, pld, cw, shrt, av, extra) = p
  BY DEF Filled, T, k
<1>10. IsCut(p, n, <<dbps, cbps>>)
  <2> HIDE DEF punc, rep
  <2>1. p \in [pld : Nat, avbits : Nat, nCw : Nat \ {0}, l : Nat, k : Nat, shrt : Nat, punc : Nat, rep : Nat,
               nSym : Nat, extra : {0, 1}]
    BY <1>1, <1>2, <1>6, <1>7, <1>8
  <2>2. /\ p.pld = pld /\ p.avbits = av /\ p.nCw = c /\ p.l = l /\ p.k = k /\ p.shrt = shrt /\ p.punc = punc
        /\ p.rep = rep /\ p.nSym = nSym /\ p.extra = extra
    BY <1>8
  <2> HIDE DEF p
  <2>3. QED
    BY <1>1, <1>2, <1>7, <1>8, <2>1, <2>2 DEF IsCut, T, K
<1>11. QED
  BY <1>9, <1>10

(* What PpduParams chooses for any MCS and number of symbols is such a cut. *)
LEMMA ParamsAreCut ==
  ASSUME NEW mcs \in ValidMcs, NEW n \in Nat \ {0}
  PROVE  IsCut(PpduParams(n, mcs), n, RateOf(mcs))
<1> DEFINE m == McsTable[mcs]
           rate == <<m.num, m.den>>
           dbps == NDbps(mcs, 1)
           cbps == NCbps(mcs)
           av == n * cbps
           pld == n * dbps
<1>1. /\ rate \in CodeRates /\ dbps \in Nat \ {0} /\ cbps \in Nat \ {0}
      /\ dbps * rate[2] = cbps * rate[1]
  BY RateIsListed DEF Rates, RateOf, CodeRates
<1> HIDE DEF m, dbps, cbps
<1>2. av \in Nat /\ pld \in Nat \ {0}
  BY <1>1
<1>3. pld * rate[2] = av * rate[1]
  <2>1. pld * rate[2] = n * (dbps * rate[2]) /\ av * rate[1] = n * (cbps * rate[1])
    BY <1>1 DEF CodeRates
  <2>2. QED
    BY <1>1, <2>1
<1> HIDE DEF av, pld
<1>4. PICK c \in Nat \ {0}, l \in CodewordLengths :
        CodewordsFor(av, pld, m.num, m.den) = <<c, l>> /\ c * l * rate[1] >= av * rate[1]
  BY <1>1, <1>2, <1>3, CodewordsHoldData
<1> DEFINE cw == <<c, l>>
           shrt == Minus((c * l * m.num) \div m.den, pld)
           extra == IF NeedsExtra(m, c * l, shrt, Minus(c * l, av + shrt)) THEN 1 ELSE 0
           avbits == av + extra * cbps
<1>5. PpduParams(n, mcs) = Filled(m, cbps, pld, cw, shrt, avbits, extra)
  BY <1>4 DEF PpduParams, Shortened, FilledOrMore, m, cbps, dbps, pld, av
<1>6. extra \in {0, 1}
  OBVIOUS
<1> HIDE DEF extra
<1>7. IsCut(Filled(m, cbps, pld, cw, shrt, avbits, extra), n, <<dbps, cbps>>)
  <2>1. m.num = rate[1] /\ m.den = rate[2] /\ pld = n * dbps /\ av = n * cbps
    BY DEF pld, av
  <2> DEFINE r == <<dbps, cbps>>
  <2>2. cw = <<c, l>> /\ r = <<dbps, cbps>> /\ avbits = av + extra * cbps /\ shrt = Minus((c * l * m.num) \div m.den, pld)
    OBVIOUS
  <2> HIDE DEF rate, cw, shrt, avbits, r
  <2>3. IsCut(Filled(m, cbps, pld, cw, shrt, avbits, extra), n, r)
    BY <1>1, <1>4, <1>6, <2>1, <2>2, FilledIsCut, ZenonT(60)
  <2>4. QED
    BY <2>3 DEF r
<1>8. IsCut(PpduParams(n, mcs), n, <<dbps, cbps>>)
  BY <1>5, <1>7
<1>9. QED
  BY <1>8 DEF IsCut, RateOf, dbps, cbps

---------------------------------------------------------------------------
(* Recursion.                                                              *)

(* A set that holds 0 and the successor of each of its members is Nat.     *)
LEMMA SetInduction ==
  ASSUME NEW T \in SUBSET Nat, 0 \in T, \A k \in T : k + 1 \in T
  PROVE  T = Nat
<1>1. SUFFICES ASSUME Nat \ T # {} PROVE FALSE
  OBVIOUS
<1>2. PICK k \in Nat \ T : \A j \in Nat \ T : ~(<<j, k>> \in OpToRel(<, Nat))
  BY <1>1, WFMin, NatLessThanWellFounded
<1>3. k \in Nat /\ k # 0 /\ k - 1 \in Nat
  OBVIOUS
<1>4. k - 1 \in T
  <2>1. <<k - 1, k>> \in OpToRel(<, Nat)
    BY <1>3 DEF OpToRel
  <2>2. QED
    BY <1>2, <1>3, <2>1
<1>5. QED
  BY <1>3, <1>4

(* A sum is what adds up to it step by step.                               *)
LEMMA TotalIsLastSum ==
  ASSUME NEW n \in Nat, NEW part, NEW s \in [0 .. n -> Int],
         s[0] = 0, \A j \in 1 .. n : s[j] = s[j - 1] + part[j - 1]
  PROVE  TotalOf(part, n) = s[n]
<1> DEFINE Adds(f) == f = [j \in 0 .. n |-> IF j = 0 THEN 0 ELSE f[j - 1] + part[j - 1]]
           t == CHOOSE f : Adds(f)
           Same == {k \in Nat : k <= n => t[k] = s[k]}
<1>1. Adds(s)
  OBVIOUS
<1>2. Adds(t)
  BY <1>1
<1>3. TotalOf(part, n) = t[n]
  BY DEF TotalOf
<1> HIDE DEF t
<1>4. 0 \in Same
  BY <1>2
<1>5. ASSUME NEW k \in Same PROVE k + 1 \in Same
  <2>1. CASE k + 1 <= n
    <3>1. k + 1 \in 1 .. n /\ k + 1 - 1 = k /\ t[k] = s[k]
      BY <2>1
    <3>2. t[k + 1] = t[k] + part[k] /\ s[k + 1] = s[k] + part[k]
      BY <1>2, <3>1
    <3>3. QED
      BY <3>1, <3>2
  <2>2. CASE ~(k + 1 <= n)
    BY <2>2
  <2>3. QED
    BY <2>1, <2>2
<1>6. Same = Nat
  <2>1. Same \in SUBSET Nat
    OBVIOUS
  <2> HIDE DEF Same
  <2>2. QED
    BY <1>4, <1>5, <2>1, SetInduction
<1>7. QED
  BY <1>3, <1>6

(* The shares of all codewords make up the whole.                          *)
LEMMA ShareBounds ==
  ASSUME NEW p, p.nCw \in Nat \ {0}, NEW total \in Nat, NEW j \in 0 .. p.nCw - 1
  PROVE  /\ Share(p, total, j) \in Nat
         /\ \A k \in Nat : total <= p.nCw * k => Share(p, total, j) <= k
<1> DEFINE c == p.nCw
           q == total \div c
           r == total % c
<1>1. q \in Nat /\ r \in 0 .. c - 1 /\ total = c * q + r
  <2>1. c \in Nat /\ c > 0
    OBVIOUS
  <2> HIDE DEF c
  <2>2. QED
    BY <2>1, DivMod
<1> HIDE DEF q, r
<1>2. Share(p, total, j) = q + (IF j < r THEN 1 ELSE 0)
  BY DEF Share, q, r
<1>3. ASSUME NEW k \in Nat, total <= c * k
      PROVE  Share(p, total, j) <= k
  <2>1. CASE k <= q - 1
    <3>1. c * k <= c * (q - 1)
      BY <1>1, <2>1
    <3>2. c * (q - 1) = c * q - c
      BY SMTT(30), <1>1
    <3>3. QED
      BY <1>1, <1>3, <3>1, <3>2
  <2>2. CASE k = q
    <3>1. r = 0
      BY <1>1, <1>3, <2>2
    <3>2. QED
      BY <1>1, <1>2, <2>2, <3>1
  <2>3. CASE k >= q + 1
    BY <1>1, <1>2, <2>3
  <2>4. QED
    BY <1>1, <2>1, <2>2, <2>3
<1>4. QED
  BY <1>1, <1>2, <1>3

(* What the first j codewords get of a total.                              *)
ShareUpTo(p, total, j) ==
  j * (total \div p.nCw) + (IF j < total % p.nCw THEN j ELSE total % p.nCw)

(* The shares of the codewords, first ones one bit larger, add up to the   *)
(* total.                                                                  *)
LEMMA SharesAddUp ==
  ASSUME NEW p, p.nCw \in Nat \ {0}, NEW total \in Nat
  PROVE  /\ ShareUpTo(p, total, 0) = 0
         /\ \A j \in 1 .. p.nCw : ShareUpTo(p, total, j) = ShareUpTo(p, total, j - 1) + Share(p, total, j - 1)
         /\ \A j \in 0 .. p.nCw : ShareUpTo(p, total, j) \in Nat
         /\ ShareUpTo(p, total, p.nCw) = total
<1> DEFINE c == p.nCw
           q == total \div c
           r == total % c
<1>1. q \in Nat /\ r \in 0 .. c - 1 /\ total = c * q + r
  <2>1. c \in Nat /\ c > 0
    OBVIOUS
  <2> HIDE DEF c
  <2>2. QED
    BY <2>1, DivMod
<1> HIDE DEF q, r
<1>2. /\ \A j : ShareUpTo(p, total, j) = j * q + (IF j < r THEN j ELSE r)
      /\ \A j : Share(p, total, j) = q + (IF j < r THEN 1 ELSE 0)
  BY DEF ShareUpTo, Share, q, r
<1>3. ASSUME NEW j \in 1 .. c
      PROVE  ShareUpTo(p, total, j) = ShareUpTo(p, total, j - 1) + Share(p, total, j - 1)
  <2>1. j * q = (j - 1) * q + q
    BY <1>1
  <2>2. j * q \in Nat /\ (j - 1) * q \in Nat
    BY <1>1
  <2> DEFINE a == (j - 1) * q
  <2>3. ShareUpTo(p, total, j) = a + q + (IF j < r THEN j ELSE r)
    BY <1>2, <2>1
  <2>4. ShareUpTo(p, total, j - 1) = a + (IF j - 1 < r THEN j - 1 ELSE r)
    BY <1>2
  <2>5. Share(p, total, j - 1) = q + (IF j - 1 < r THEN 1 ELSE 0)
    BY <1>2
  <2>6. a \in Nat
    BY <2>2
  <2> HIDE DEF a
  <2>7. QED
    BY <1>1, <2>3, <2>4, <2>5, <2>6
<1>4. ASSUME NEW j \in 0 .. c
      PROVE  ShareUpTo(p, total, j) \in Nat
  <2>1. j * q \in Nat
    BY <1>1
  <2>2. QED
    BY <1>1, <1>2, <2>1
<1>5. 0 * q = 0
  BY <1>1
<1>6. QED
  BY <1>1, <1>2, <1>3, <1>4, <1>5

---------------------------------------------------------------------------
(* The bits of a codeword.                                                 *)

(* A codeword is its information, parity and repeated bits; it repeats only *)
(* where nothing of it is punctured.                                       *)
LEMMA CodewordParts ==
  ASSUME NEW p, NEW n, NEW r, IsCut(p, n, r), NEW j \in 0 .. p.nCw - 1
  PROVE  /\ InfoBits(p, j) \in Nat /\ ParityBits(p, j) \in Nat /\ Share(p, p.rep, j) \in Nat
         /\ TxLen(p, j) = InfoBits(p, j) + ParityBits(p, j) + Share(p, p.rep, j)
         /\ Share(p, p.rep, j) > 0 => ParityBits(p, j) > 0
<1>1. /\ p.nCw \in Nat \ {0} /\ p.l \in Nat /\ p.k \in Nat /\ p.shrt \in Nat /\ p.punc \in Nat /\ p.rep \in Nat
      /\ p.pld \in Nat /\ p.k < p.l
      /\ p.rep = 0 \/ p.punc = 0
  BY DEF IsCut
<1>2. p.shrt <= p.nCw * p.k
  BY DEF IsCut
<1>3. p.punc <= p.nCw * (p.l - p.k)
  <2>1. p.punc <= p.nCw * p.l - p.nCw * p.k
    BY DEF IsCut
  <2>2. p.nCw * (p.l - p.k) = p.nCw * p.l - p.nCw * p.k
    BY <1>1
  <2>3. QED
    BY <2>1, <2>2
<1>4. Share(p, p.shrt, j) \in Nat /\ Share(p, p.shrt, j) <= p.k
  BY <1>1, <1>2, ShareBounds
<1>5. Share(p, p.punc, j) \in Nat /\ Share(p, p.punc, j) <= p.l - p.k
  <2> DEFINE d == p.l - p.k
  <2>1. d \in Nat /\ p.punc <= p.nCw * d
    BY <1>1, <1>3
  <2> HIDE DEF d
  <2>2. Share(p, p.punc, j) \in Nat /\ Share(p, p.punc, j) <= d
    BY <1>1, <2>1, ShareBounds
  <2>3. QED
    BY <2>2 DEF d
<1>6. Share(p, p.rep, j) \in Nat
  BY <1>1, ShareBounds
<1>7. Share(p, 0, j) = 0
  <2>1. Share(p, 0, j) \in Nat /\ Share(p, 0, j) <= 0
    BY <1>1, ShareBounds
  <2>2. QED
    BY <2>1
<1>8. QED
  BY <1>1, <1>4, <1>5, <1>6, <1>7 DEF InfoBits, ParityBits, TxLen

(* The codewords of a PPDU take up all the coded bits and carry all the    *)
(* data bits.                                                              *)
LEMMA CodewordsAddUp ==
  ASSUME NEW p, NEW n, NEW r, IsCut(p, n, r)
  PROVE  /\ TotalOf([j \in 0 .. p.nCw - 1 |-> TxLen(p, j)], p.nCw) = p.avbits
         /\ TotalOf([j \in 0 .. p.nCw - 1 |-> InfoBits(p, j)], p.nCw) = p.pld
<1> DEFINE c == p.nCw
           lens == [j \in 0 .. c - 1 |-> TxLen(p, j)]
           infos == [j \in 0 .. c - 1 |-> InfoBits(p, j)]
           S(j) == ShareUpTo(p, p.shrt, j)
           P(j) == ShareUpTo(p, p.punc, j)
           R(j) == ShareUpTo(p, p.rep, j)
           len == [j \in 0 .. c |-> j * p.l - S(j) - P(j) + R(j)]
           info == [j \in 0 .. c |-> j * p.k - S(j)]
<1>1. /\ c \in Nat \ {0} /\ p.l \in Nat /\ p.k \in Nat /\ p.shrt \in Nat /\ p.punc \in Nat /\ p.rep \in Nat
      /\ p.avbits \in Nat /\ p.pld \in Nat
      /\ c * p.k = p.pld + p.shrt /\ c * p.l + p.rep = p.avbits + p.shrt + p.punc
  BY DEF IsCut
<1>2. /\ S(0) = 0 /\ P(0) = 0 /\ R(0) = 0
      /\ \A j \in 1 .. c : /\ S(j) = S(j - 1) + Share(p, p.shrt, j - 1)
                           /\ P(j) = P(j - 1) + Share(p, p.punc, j - 1)
                           /\ R(j) = R(j - 1) + Share(p, p.rep, j - 1)
      /\ \A j \in 0 .. c : S(j) \in Nat /\ P(j) \in Nat /\ R(j) \in Nat
      /\ S(c) = p.shrt /\ P(c) = p.punc /\ R(c) = p.rep
  BY <1>1, SharesAddUp
<1> HIDE DEF S, P, R, c
<1>3. \A a \in Nat, j \in Nat \ {0} : j * a = (j - 1) * a + a /\ (j - 1) * a \in Nat
  OBVIOUS
<1>4. TotalOf(lens, c) = p.avbits
  <2>1. len \in [0 .. c -> Int] /\ len[0] = 0 /\ len[c] = p.avbits
    BY <1>1, <1>2
  <2>2. ASSUME NEW j \in 1 .. c
        PROVE  len[j] = len[j - 1] + lens[j - 1]
    <3>1. j - 1 \in 0 .. c - 1 /\ j - 1 \in 0 .. c /\ j \in Nat \ {0} /\ j \in 0 .. c
      BY <1>1
    <3>2. lens[j - 1] = p.l - Share(p, p.shrt, j - 1) - Share(p, p.punc, j - 1) + Share(p, p.rep, j - 1)
      BY <3>1 DEF TxLen
    <3>3. j * p.l = (j - 1) * p.l + p.l /\ (j - 1) * p.l \in Nat
      BY <1>1, <1>3, <3>1
    <3>4. /\ Share(p, p.shrt, j - 1) \in Nat /\ Share(p, p.punc, j - 1) \in Nat /\ Share(p, p.rep, j - 1) \in Nat
      BY <1>1, <3>1, ShareBounds DEF c
    <3>5. QED
      BY <1>1, <1>2, <3>1, <3>2, <3>3, <3>4
  <2> HIDE DEF len, lens
  <2>3. QED
    BY <1>1, <2>1, <2>2, TotalIsLastSum
<1>5. TotalOf(infos, c) = p.pld
  <2>1. info \in [0 .. c -> Int] /\ info[0] = 0 /\ info[c] = p.pld
    BY <1>1, <1>2
  <2>2. ASSUME NEW j \in 1 .. c
        PROVE  info[j] = info[j - 1] + infos[j - 1]
    <3>1. j - 1 \in 0 .. c - 1 /\ j - 1 \in 0 .. c /\ j \in Nat \ {0} /\ j \in 0 .. c
      BY <1>1
    <3>2. infos[j - 1] = p.k - Share(p, p.shrt, j - 1)
      BY <3>1 DEF InfoBits
    <3>3. j * p.k = (j - 1) * p.k + p.k /\ (j - 1) * p.k \in Nat
      BY <1>1, <1>3, <3>1
    <3>4. Share(p, p.shrt, j - 1) \in Nat
      BY <1>1, <3>1, ShareBounds DEF c
    <3>5. QED
      BY <1>1, <1>2, <3>1, <3>2, <3>3, <3>4
  <2> HIDE DEF info, infos
  <2>3. QED
    BY <1>1, <2>1, <2>2, TotalIsLastSum
<1>6. QED
  BY <1>4, <1>5 DEF c

(* A concatenation, bit by bit.                                            *)
LEMMA Concatenated ==
  ASSUME NEW S, NEW s \in Seq(S), NEW t \in Seq(S), NEW a \in Nat, NEW b \in Nat, Len(s) = a, Len(t) = b
  PROVE  /\ s \o t \in Seq(S) /\ s \o t \in [1 .. a + b -> S] /\ Len(s \o t) = a + b
         /\ \A i \in 1 .. a + b : (s \o t)[i] = IF i <= a THEN s[i] ELSE t[i - a]
<1> DEFINE st == s \o t
<1>1. /\ st \in Seq(S) /\ Len(st) = a + b
      /\ \A i \in 1 .. a + b : st[i] = IF i <= a THEN s[i] ELSE t[i - a]
  BY ConcatProperties
<1>2. st \in [1 .. a + b -> S]
  BY <1>1, LenProperties
<1>3. QED
  BY <1>1, <1>2

(* The positions the decoder fills are those the encoder sent, in every    *)
(* codeword.                                                               *)
LEMMA PositionsAgree ==
  ASSUME NEW p, NEW n, NEW r, IsCut(p, n, r), NEW j \in 0 .. p.nCw - 1
  PROVE  /\ HeardPositions(p, j) = SentPositions(p, j)
         /\ Len(SentPositions(p, j)) = TxLen(p, j)
<1> DEFINE i1 == InfoBits(p, j)
           base == i1 + ParityBits(p, j)
           again == Share(p, p.rep, j)
           first == [i \in 1 .. base |-> IF i <= i1 THEN i - 1 ELSE p.k + (i - i1 - 1)]
           more == [i \in 1 .. again |-> first[((i - 1) % Len(first)) + 1]]
           sent == first \o more
           heard == HeardPositions(p, j)
<1>1. i1 \in Nat /\ base \in Nat /\ again \in Nat /\ p.k \in Nat /\ (again > 0 => base > 0)
      /\ TxLen(p, j) = base + again
  <2>1. p.k \in Nat
    BY DEF IsCut
  <2>2. QED
    BY <2>1, CodewordParts
<1>2. SentPositions(p, j) = sent
  BY DEF SentPositions
<1> HIDE DEF i1, base, again
<1>3. first \in Seq(Int) /\ Len(first) = base
  BY <1>1
<1>4. ASSUME NEW i \in 1 .. again
      PROVE  /\ (i - 1) % base \in 0 .. base - 1
             /\ more[i] = first[((i - 1) % base) + 1]
             /\ more[i] \in Int
  <2>1. (i - 1) % base \in 0 .. base - 1
    BY <1>1, DivMod
  <2>2. QED
    BY <1>1, <1>3, <2>1
<1>5. more \in Seq(Int) /\ Len(more) = again
  BY <1>1, <1>4
<1>6. ASSUME NEW i \in 1 .. base + again
      PROVE  heard[i] = IF i <= base THEN first[i] ELSE more[i - base]
  <2> DEFINE of(src) == IF src < i1 THEN src ELSE p.k + (src - i1)
  <2>1. heard[i] = IF i <= base THEN (IF i <= i1 THEN i - 1 ELSE p.k + (i - 1 - i1)) ELSE of((i - base - 1) % base)
    BY DEF HeardPositions, i1, base, again
  <2> HIDE DEF heard
  <2>2. CASE i <= base
    BY <1>1, <2>1, <2>2
  <2>3. CASE ~(i <= base)
    <3> DEFINE h == i - base
               m == (h - 1) % base
    <3>1. h \in 1 .. again /\ i - base - 1 = h - 1
      BY <1>1, <2>3
    <3>2. heard[i] = of(m)
      BY <2>1, <2>3, <3>1
    <3> HIDE DEF h
    <3>3. m \in 0 .. base - 1 /\ more[h] = first[m + 1]
      BY <1>4, <3>1
    <3> HIDE DEF m
    <3>4. first[m + 1] = of(m)
      BY <1>1, <3>3
    <3>5. QED
      BY <2>3, <3>2, <3>3, <3>4 DEF h
  <2>4. QED
    BY <2>2, <2>3
<1>7. heard = [i \in 1 .. base + again |-> heard[i]]
  BY DEF HeardPositions, i1, base, again
<1> HIDE DEF first, more, heard
<1>8. /\ sent \in [1 .. base + again -> Int] /\ Len(sent) = base + again
      /\ \A i \in 1 .. base + again : sent[i] = IF i <= base THEN first[i] ELSE more[i - base]
  <2>1. base \in Nat /\ again \in Nat
    BY <1>1
  <2>2. first \in Seq(Int) /\ more \in Seq(Int) /\ Len(first) = base /\ Len(more) = again
    BY <1>3, <1>5
  <2>3. /\ sent \in [1 .. base + again -> Int] /\ Len(sent) = base + again
    BY <2>1, <2>2, Concatenated
  <2>4. \A i \in 1 .. base + again : sent[i] = IF i <= base THEN first[i] ELSE more[i - base]
    <3> DEFINE S == Int
    <3>1. first \in Seq(S) /\ more \in Seq(S)
      BY <2>2
    <3> HIDE DEF S
    <3>2. QED
      BY <2>1, <2>2, <3>1, ConcatProperties
  <2>5. QED
    BY <2>3, <2>4
<1> HIDE DEF sent
<1>9. heard = sent
  BY <1>6, <1>7, <1>8
<1>10. QED
  BY <1>1, <1>2, <1>8, <1>9 DEF heard

---------------------------------------------------------------------------
(* The CRC of a SIG.                                                       *)

B == {0, 1}

Registers == B \X B \X B \X B

IsRegister(c, w, n) ==
  /\ c \in [0 .. n -> Registers]
  /\ c[0] = <<1, 1, 1, 1>>
  /\ \A i \in 1 .. n : c[i] = CrcShift(c[i - 1], w[i])

(* One step of the CRC register stays in its type.                         *)
LEMMA ShiftType ==
  ASSUME NEW c \in Registers, NEW b \in B
  PROVE  CrcShift(c, b) \in Registers
  BY DEF CrcShift, Registers, B, Xor

(* Different registers stay different, whatever bit both are given.        *)
LEMMA ShiftIsInjective ==
  ASSUME NEW c \in Registers, NEW d \in Registers, c # d, NEW b \in B
  PROVE  CrcShift(c, b) # CrcShift(d, b)
  BY DEF CrcShift, Registers, B, Xor

(* One step of the CRC register, bit by bit: it can be undone.             *)
LEMMA ShiftParts ==
  ASSUME NEW c \in Registers, NEW b \in B
  PROVE  LET d == CrcShift(c, b)
         IN /\ \A i \in 1 .. 4 : c[i] \in B /\ d[i] \in B
            /\ d[1] = c[2] /\ d[2] = c[3]
            /\ d[4] = (IF b = c[1] THEN 0 ELSE 1)
            /\ d[3] = (IF c[4] = d[4] THEN 0 ELSE 1)
<1>1. \A i \in 1 .. 4 : c[i] \in B
  BY DEF Registers, B
<1>2. \A x \in B, y \in B : Xor(x, y) = (IF x = y THEN 0 ELSE 1)
  BY DEF Xor, B
<1>3. c[1] \in B /\ c[2] \in B /\ c[3] \in B /\ c[4] \in B
  BY <1>1
<1> DEFINE fb == Xor(b, c[1])
           x4 == Xor(c[4], fb)
<1>4. fb = (IF b = c[1] THEN 0 ELSE 1)
  BY <1>2, <1>3
<1>5. fb \in B
  BY <1>4 DEF B
<1> HIDE DEF fb
<1>6. x4 = (IF c[4] = fb THEN 0 ELSE 1)
  BY <1>2, <1>3, <1>5
<1>7. x4 \in B
  BY <1>6 DEF B
<1>8. CrcShift(c, b) = <<c[2], c[3], x4, fb>>
  BY DEF CrcShift, fb
<1> HIDE DEF x4
<1>9. QED
  BY <1>1, <1>3, <1>4, <1>5, <1>6, <1>7, <1>8

(* Two registers and the bits given to them: one register and different    *)
(* bits, and what is still different after each of the next three bits.    *)
LEMMA TwoShifts ==
  ASSUME NEW d \in Registers, NEW e \in Registers, NEW a \in B, NEW b \in B
  PROVE  LET f == CrcShift(d, a)
             g == CrcShift(e, b)
         IN /\ d = e /\ a # b => f[1] = g[1] /\ f[2] = g[2] /\ f[3] # g[3] /\ f[4] # g[4]
            /\ d[1] = e[1] /\ d[2] = e[2] /\ d[3] # e[3] /\ d[4] # e[4] =>
                 f[1] = g[1] /\ f[2] # g[2] /\ (f[3] = g[3] <=> f[4] # g[4])
            /\ d[1] = e[1] /\ d[2] # e[2] /\ (d[3] = e[3] <=> d[4] # e[4]) =>
                 f[1] # g[1] /\ (f[2] = g[2] => (f[3] = g[3] <=> f[4] # g[4]))
            /\ d[1] # e[1] /\ (d[2] = e[2] => (d[3] = e[3] <=> d[4] # e[4])) => f # g
<1> DEFINE f == CrcShift(d, a)
           g == CrcShift(e, b)
<1>1. /\ \A i \in 1 .. 4 : d[i] \in B /\ f[i] \in B
      /\ f[1] = d[2] /\ f[2] = d[3]
      /\ f[4] = (IF a = d[1] THEN 0 ELSE 1)
      /\ f[3] = (IF d[4] = f[4] THEN 0 ELSE 1)
  BY ShiftParts
<1>2. /\ \A i \in 1 .. 4 : e[i] \in B /\ g[i] \in B
      /\ g[1] = e[2] /\ g[2] = e[3]
      /\ g[4] = (IF b = e[1] THEN 0 ELSE 1)
      /\ g[3] = (IF e[4] = g[4] THEN 0 ELSE 1)
  BY ShiftParts
<1>3. /\ d[1] \in B /\ d[2] \in B /\ d[3] \in B /\ d[4] \in B /\ e[1] \in B /\ e[2] \in B /\ e[3] \in B /\ e[4] \in B
      /\ f[4] \in B /\ g[4] \in B
  BY <1>1, <1>2
<1> HIDE DEF f, g
<1>4. d = e /\ a # b => f[1] = g[1] /\ f[2] = g[2] /\ f[3] # g[3] /\ f[4] # g[4]
  BY <1>1, <1>2, <1>3 DEF B
<1>5. d[1] = e[1] /\ d[2] = e[2] /\ d[3] # e[3] /\ d[4] # e[4] =>
        f[1] = g[1] /\ f[2] # g[2] /\ (f[3] = g[3] <=> f[4] # g[4])
  BY <1>1, <1>2, <1>3 DEF B
<1>6. d[1] = e[1] /\ d[2] # e[2] /\ (d[3] = e[3] <=> d[4] # e[4]) =>
        f[1] # g[1] /\ (f[2] = g[2] => (f[3] = g[3] <=> f[4] # g[4]))
  BY <1>1, <1>2, <1>3 DEF B
<1>7. d[1] # e[1] /\ (d[2] = e[2] => (d[3] = e[3] <=> d[4] # e[4])) => f # g
  BY <1>1, <1>2, <1>3 DEF B
<1>8. QED
  BY <1>4, <1>5, <1>6, <1>7 DEF f, g

(* Every word of bits has a run of the register.                           *)
LEMMA RegisterExists ==
  ASSUME NEW n \in Nat, NEW w \in [1 .. n -> B]
  PROVE  \E c : IsRegister(c, w, n)
<1> DEFINE T == {k \in Nat : k <= n => \E c : IsRegister(c, w, k)}
<1>1. 0 \in T
  <2> DEFINE c == [i \in 0 .. 0 |-> <<1, 1, 1, 1>>]
  <2>1. IsRegister(c, w, 0)
    BY DEF IsRegister, Registers, B
  <2>2. QED
    BY <2>1
<1>2. ASSUME NEW k \in T PROVE k + 1 \in T
  <2>1. SUFFICES ASSUME k + 1 <= n PROVE \E c : IsRegister(c, w, k + 1)
    OBVIOUS
  <2>2. PICK c : IsRegister(c, w, k)
    BY <2>1
  <2>3. w[k + 1] \in B /\ c[k] \in Registers
    BY <2>1, <2>2 DEF IsRegister
  <2>4. CrcShift(c[k], w[k + 1]) \in Registers
    BY <2>3, ShiftType
  <2> DEFINE next == CrcShift(c[k], w[k + 1])
             d == [i \in 0 .. k + 1 |-> IF i <= k THEN c[i] ELSE next]
  <2> HIDE DEF next
  <2>5. d \in [0 .. k + 1 -> Registers] /\ d[0] = <<1, 1, 1, 1>>
    BY <2>2, <2>4 DEF IsRegister, next
  <2>6. ASSUME NEW i \in 1 .. k + 1
        PROVE  d[i] = CrcShift(d[i - 1], w[i])
    <3>1. CASE i <= k
      BY <2>2, <3>1 DEF IsRegister
    <3>2. CASE i = k + 1
      <4>1. d[i] = next /\ d[i - 1] = c[k]
        BY <3>2
      <4>2. QED
        BY <3>2, <4>1 DEF next
    <3>3. QED
      BY <3>1, <3>2
  <2> HIDE DEF d
  <2>7. IsRegister(d, w, k + 1)
    BY <2>5, <2>6 DEF IsRegister
  <2>8. QED
    BY <2>7
<1>3. T = Nat
  <2>1. T \in SUBSET Nat
    OBVIOUS
  <2> HIDE DEF T
  <2>2. QED
    BY <1>1, <1>2, <2>1, SetInduction
<1>4. QED
  BY <1>3

(* The CRC is what the register holds in the end, complemented.            *)
LEMMA CrcIsRegister ==
  ASSUME NEW n \in Nat, NEW w \in [1 .. n -> B], Len(w) = n, NEW c, IsRegister(c, w, n)
  PROVE  Crc4(w) = [i \in 1 .. 4 |-> 1 - c[n][i]]
<1> DEFINE Shifts(f) == f = [i \in 0 .. Len(w) |-> IF i = 0 THEN <<1, 1, 1, 1>> ELSE CrcShift(f[i - 1], w[i])]
           d == CHOOSE f : Shifts(f)
           Same == {k \in Nat : k <= n => d[k] = c[k]}
<1>1. Shifts(c)
  <2>1. c = [i \in 0 .. n |-> c[i]]
    BY DEF IsRegister
  <2>2. \A i \in 0 .. n : i # 0 => i \in 1 .. n
    OBVIOUS
  <2>3. \A i \in 0 .. n : c[i] = IF i = 0 THEN <<1, 1, 1, 1>> ELSE CrcShift(c[i - 1], w[i])
    BY <2>2 DEF IsRegister
  <2>4. QED
    BY <2>1, <2>3
<1>2. Shifts(d)
  BY <1>1
<1>3. Crc4(w) = [i \in 1 .. 4 |-> 1 - d[n][i]]
  BY DEF Crc4
<1> HIDE DEF d
<1>8. d[0] = <<1, 1, 1, 1>> /\ \A i \in 1 .. n : d[i] = CrcShift(d[i - 1], w[i])
  <2>1. \A i \in 0 .. n : d[i] = IF i = 0 THEN <<1, 1, 1, 1>> ELSE CrcShift(d[i - 1], w[i])
    BY <1>2
  <2>2. \A i \in 1 .. n : i \in 0 .. n /\ i # 0
    OBVIOUS
  <2>3. QED
    BY <2>1, <2>2
<1>4. 0 \in Same
  BY <1>8 DEF IsRegister
<1>5. ASSUME NEW k \in Same PROVE k + 1 \in Same
  <2>1. CASE k + 1 <= n
    <3>1. k + 1 \in 1 .. n /\ k + 1 - 1 = k /\ d[k] = c[k]
      BY <2>1
    <3>2. d[k + 1] = CrcShift(d[k], w[k + 1]) /\ c[k + 1] = CrcShift(c[k], w[k + 1])
      BY <1>8, <3>1 DEF IsRegister
    <3>3. QED
      BY <3>1, <3>2
  <2>2. CASE ~(k + 1 <= n)
    BY <2>2
  <2>3. QED
    BY <2>1, <2>2
<1>6. Same = Nat
  <2>1. Same \in SUBSET Nat
    OBVIOUS
  <2> HIDE DEF Same
  <2>2. QED
    BY <1>4, <1>5, <2>1, SetInduction
<1>7. QED
  BY <1>3, <1>6

Word(n) == {w \in [1 .. n -> B] : w \in Seq(B) /\ Len(w) = n}

(* A function on 1 .. n is a sequence.                                     *)
LEMMA WordOf ==
  ASSUME NEW n \in Nat, NEW w \in [1 .. n -> B]
  PROVE  w \in Word(n)
<1> HIDE DEF B
<1>1. w \in Seq(B) /\ Len(w) = n
  OBVIOUS
<1>2. QED
  BY <1>1 DEF Word

(* Concatenating two words.                                                *)
LEMMA Joined ==
  ASSUME NEW a \in Nat, NEW b \in Nat, NEW n, n = a + b, NEW s \in Word(a), NEW t \in Word(b)
  PROVE  /\ s \o t \in Word(n)
         /\ \A i \in 1 .. a : (s \o t)[i] = s[i]
         /\ \A i \in 1 .. b : (s \o t)[a + i] = t[i]
<1> HIDE DEF B
<1>1. s \in Seq(B) /\ Len(s) = a /\ t \in Seq(B) /\ Len(t) = b
  BY DEF Word
<1> DEFINE st == s \o t
<1>2. /\ st \in Seq(B) /\ st \in [1 .. a + b -> B] /\ Len(st) = a + b
      /\ \A i \in 1 .. a + b : st[i] = IF i <= a THEN s[i] ELSE t[i - a]
  <2>1. /\ st \in Seq(B) /\ st \in [1 .. a + b -> B] /\ Len(st) = a + b
    BY <1>1, Concatenated
  <2>2. \A i \in 1 .. a + b : st[i] = IF i <= a THEN s[i] ELSE t[i - a]
    BY <1>1, ConcatProperties
  <2>3. QED
    BY <2>1, <2>2
<1> HIDE DEF st
<1>3. st \in Word(n)
  BY <1>2 DEF Word
<1>4. \A i \in 1 .. a : st[i] = s[i]
  BY <1>2
<1>5. \A i \in 1 .. b : st[a + i] = t[i]
  <2>1. \A i \in 1 .. b : a + i \in 1 .. a + b /\ ~(a + i <= a) /\ a + i - a = i
    OBVIOUS
  <2>2. QED
    BY <1>2, <2>1
<1>6. QED
  BY <1>3, <1>4, <1>5 DEF st

(* s is the m bits of w from bit a on.                                     *)
IsPart(s, w, a, m) == s \in Word(m) /\ \A i \in 1 .. m : s[i] = w[a + i - 1]

(* A word cut out of another.                                              *)
LEMMA PartOfWord ==
  ASSUME NEW n \in Nat, NEW w \in Word(n), NEW a \in Nat, NEW b \in a .. n, a > 0, NEW m, m = b - a + 1
  PROVE  IsPart(SubSeq(w, a, b), w, a, m)
<1>1. w \in [1 .. n -> B] /\ w \in Seq(B) /\ Len(w) = n
  BY DEF Word
<1> HIDE DEF B
<1>2. SubSeq(w, a, b) = [i \in 1 .. m |-> w[a + i - 1]]
  BY <1>1
<1>3. \A i \in 1 .. m : w[a + i - 1] \in B
  BY <1>1
<1> DEFINE s == SubSeq(w, a, b)
<1> HIDE DEF s
<1>4. s \in [1 .. m -> B] /\ m \in Nat
  BY <1>2, <1>3 DEF s
<1>5. s \in Word(m)
  BY <1>4, WordOf
<1>6. QED
  BY <1>2, <1>5 DEF s, IsPart

(* The CRC is four bits.                                                   *)
LEMMA CrcType ==
  ASSUME NEW n \in Nat, NEW w \in Word(n)
  PROVE  Crc4(w) \in Word(4)
<1>1. w \in [1 .. n -> B] /\ Len(w) = n
  BY DEF Word
<1>2. PICK c : IsRegister(c, w, n)
  BY <1>1, RegisterExists
<1>3. Crc4(w) = [i \in 1 .. 4 |-> 1 - c[n][i]]
  BY <1>1, <1>2, CrcIsRegister
<1>4. c[n] \in Registers
  BY <1>2 DEF IsRegister
<1>5. \A i \in 1 .. 4 : c[n][i] \in B
  BY <1>4 DEF Registers, B
<1>6. \A i \in 1 .. 4 : 1 - c[n][i] \in B
  BY <1>5 DEF B
<1>7. Crc4(w) \in [1 .. 4 -> B]
  BY <1>3, <1>6
<1>8. QED
  BY <1>7, WordOf

(* What Finish48 appends.                                                  *)
LEMMA FinishedWord ==
  ASSUME NEW body \in Word(38)
  PROVE  /\ Finish48(body) \in Word(48)
         /\ \A i \in 1 .. 38 : Finish48(body)[i] = body[i]
         /\ \A i \in 1 .. 4 : Finish48(body)[38 + i] = Crc4(body)[i]
         /\ \A i \in 43 .. 48 : Finish48(body)[i] = 0
<1> DEFINE crc == Crc4(body)
           zeros == Zeros(6)
           v == body \o crc
           all == v \o zeros
<1>1. crc \in Word(4)
  BY CrcType
<1>2. zeros \in Word(6) /\ \A i \in 1 .. 6 : zeros[i] = 0
  <2>1. zeros \in [1 .. 6 -> B] /\ \A i \in 1 .. 6 : zeros[i] = 0
    BY DEF Zeros, B
  <2>2. QED
    BY <2>1, WordOf
<1>3. Finish48(body) = all
  BY DEF Finish48
<1> HIDE DEF crc, zeros
<1>4. v \in Word(42) /\ (\A i \in 1 .. 38 : v[i] = body[i]) /\ (\A i \in 1 .. 4 : v[38 + i] = crc[i])
  <2> DEFINE a == 38
             b == 4
             n == 42
  <2>1. a \in Nat /\ b \in Nat /\ n = a + b /\ body \in Word(a) /\ crc \in Word(b)
    BY <1>1
  <2> HIDE DEF a, b, n
  <2>2. v \in Word(n) /\ (\A i \in 1 .. a : v[i] = body[i]) /\ (\A i \in 1 .. b : v[a + i] = crc[i])
    BY <2>1, Joined
  <2>3. QED
    BY <2>2 DEF a, b, n
<1> HIDE DEF v
<1>5. all \in Word(48) /\ (\A i \in 1 .. 42 : all[i] = v[i]) /\ (\A i \in 1 .. 6 : all[42 + i] = zeros[i])
  <2> DEFINE a == 42
             b == 6
             n == 48
  <2>1. a \in Nat /\ b \in Nat /\ n = a + b /\ v \in Word(a) /\ zeros \in Word(b)
    BY <1>2, <1>4
  <2> HIDE DEF a, b, n
  <2>2. all \in Word(n) /\ (\A i \in 1 .. a : all[i] = v[i]) /\ (\A i \in 1 .. b : all[a + i] = zeros[i])
    BY <2>1, Joined
  <2>3. QED
    BY <2>2 DEF a, b, n
<1> HIDE DEF all
<1>6. \A i \in 1 .. 38 : all[i] = body[i]
  BY <1>4, <1>5
<1>7. \A i \in 1 .. 4 : all[38 + i] = crc[i]
  <2>1. \A i \in 1 .. 4 : 38 + i \in 1 .. 42
    OBVIOUS
  <2>2. QED
    BY <1>4, <1>5, <2>1
<1>8. \A i \in 43 .. 48 : all[i] = 0
  <2>1. \A i \in 43 .. 48 : i - 42 \in 1 .. 6 /\ 42 + (i - 42) = i
    OBVIOUS
  <2>2. QED
    BY <1>2, <1>5, <2>1
<1>9. QED
  BY <1>3, <1>5, <1>6, <1>7, <1>8 DEF crc

(* A SIG passes the check when its tail is zero and its CRC is that of its *)
(* 38 bits.                                                                *)
LEMMA CheckMeans ==
  ASSUME NEW w \in Word(48)
  PROVE  /\ Check48(w) \in {"ok", "crc", "tail"}
         /\ Check48(w) = "ok" <=> /\ \A i \in 43 .. 48 : w[i] = 0
                                  /\ \A i \in 1 .. 4 : w[38 + i] = Crc4(SubSeq(w, 1, 38))[i]
<1> DEFINE s == SubSeq(w, 39, 42)
           body == SubSeq(w, 1, 38)
           crc == Crc4(body)
<1>1. s \in Word(4) /\ \A i \in 1 .. 4 : s[i] = w[39 + i - 1]
  BY PartOfWord DEF IsPart
<1>2. body \in Word(38)
  BY PartOfWord DEF IsPart
<1>3. crc \in Word(4)
  BY <1>2, CrcType
<1>4. s \in [1 .. 4 -> B] /\ crc \in [1 .. 4 -> B]
  BY <1>1, <1>3 DEF Word
<1>5. \A i \in 1 .. 4 : s[i] = w[38 + i]
  BY <1>1
<1>6. Check48(w) = (IF \E i \in 43 .. 48 : w[i] # 0 THEN "tail" ELSE IF s # crc THEN "crc" ELSE "ok")
  BY DEF Check48
<1> HIDE DEF s, crc
<1>7. s = crc <=> \A i \in 1 .. 4 : w[38 + i] = crc[i]
  BY <1>4, <1>5
<1>8. QED
  BY <1>6, <1>7 DEF crc

(* A receiver that follows the sender takes its SIG for undamaged.         *)
LEMMA FinishedIsOk ==
  ASSUME NEW body \in Word(38)
  PROVE  Check48(Finish48(body)) = "ok" /\ SubSeq(Finish48(body), 1, 38) = body
<1> DEFINE w == Finish48(body)
           s == SubSeq(w, 1, 38)
<1>1. /\ w \in Word(48)
      /\ \A i \in 1 .. 38 : w[i] = body[i]
      /\ \A i \in 1 .. 4 : w[38 + i] = Crc4(body)[i]
      /\ \A i \in 43 .. 48 : w[i] = 0
  BY FinishedWord
<1> HIDE DEF w
<1>2. s \in Word(38) /\ \A i \in 1 .. 38 : s[i] = w[1 + i - 1]
  BY <1>1, PartOfWord DEF IsPart
<1> HIDE DEF s
<1>3. s = body
  <2>1. \A i \in 1 .. 38 : s[i] = body[i]
    BY <1>1, <1>2
  <2>2. s \in [1 .. 38 -> B] /\ body \in [1 .. 38 -> B]
    BY <1>2 DEF Word
  <2> HIDE DEF B
  <2>3. QED
    BY <2>1, <2>2
<1>4. Check48(w) = "ok"
  BY <1>1, <1>3, CheckMeans DEF s
<1>5. QED
  BY <1>3, <1>4 DEF w, s

(* Once the CRC itself has gone through the register, a word that passes     *)
(* leaves the same in it whatever it says.                                  *)
LEMMA Residue ==
  ASSUME NEW w \in Word(48), NEW c, IsRegister(c, w, 48), Check48(w) = "ok"
  PROVE  c[42] = <<0, 0, 1, 0>>
<1> DEFINE body == SubSeq(w, 1, 38)
           b == [i \in 0 .. 38 |-> c[i]]
<1>1. body \in Word(38) /\ \A i \in 1 .. 38 : body[i] = w[1 + i - 1]
  BY PartOfWord DEF IsPart
<1>2. body \in Word(38) /\ \A i \in 1 .. 38 : body[i] = w[i]
  BY <1>1
<1> HIDE DEF body
<1>3. IsRegister(b, body, 38)
  BY <1>2 DEF IsRegister
<1>4. Crc4(body) = [i \in 1 .. 4 |-> 1 - b[38][i]]
  <2>1. body \in [1 .. 38 -> B] /\ Len(body) = 38
    BY <1>2 DEF Word
  <2> HIDE DEF b, B
  <2>2. QED
    BY ZenonT(60), <1>3, <2>1, CrcIsRegister
<1>5. \A i \in 1 .. 4 : w[38 + i] = 1 - c[38][i]
  BY <1>4, CheckMeans DEF body
<1>6. /\ c[38] \in Registers /\ c[39] \in Registers /\ c[40] \in Registers /\ c[41] \in Registers
      /\ c[39] = CrcShift(c[38], w[39]) /\ c[40] = CrcShift(c[39], w[40])
      /\ c[41] = CrcShift(c[40], w[41]) /\ c[42] = CrcShift(c[41], w[42])
  BY DEF IsRegister
<1>7. w[39] = 1 - c[38][1] /\ w[40] = 1 - c[38][2] /\ w[41] = 1 - c[38][3] /\ w[42] = 1 - c[38][4]
  BY <1>5
<1>8. w[39] \in B /\ w[40] \in B /\ w[41] \in B /\ w[42] \in B
  BY DEF Word
<1>9. PICK x \in B, y \in B, z \in B, u \in B : c[38] = <<x, y, z, u>>
  BY <1>6 DEF Registers
<1>10. \A p \in B, q \in B, r \in B, t \in B :
          /\ CrcShift(<<p, q, r, t>>, 1 - p) = <<q, r, 1 - t, 1>>
          /\ CrcShift(<<p, q, r, t>>, p) = <<q, r, t, 0>>
  <2>1. \A p \in B, q \in B : Xor(p, q) = IF p = q THEN 0 ELSE 1
    BY DEF Xor, B
  <2>2. \A p \in B : 1 - p \in B /\ 1 - p # p /\ Xor(1 - p, p) = 1 /\ Xor(p, p) = 0 /\ Xor(p, 1) = 1 - p /\ Xor(p, 0) = p
    BY DEF Xor, B
  <2>3. QED
    BY <2>2 DEF CrcShift
<1>11. 0 \in B /\ 1 \in B /\ 1 - u \in B /\ 1 - 1 = 0
  BY DEF B
<1>17. w[39] = 1 - x /\ w[40] = 1 - y /\ w[41] = 1 - z /\ w[42] = 1 - u
  <2>1. c[38][1] = x /\ c[38][2] = y /\ c[38][3] = z /\ c[38][4] = u
    BY <1>9
  <2>2. QED
    BY <1>7, <2>1
<1>12. c[39] = <<y, z, 1 - u, 1>>
  BY <1>6, <1>17, <1>9, <1>10
<1>13. c[40] = <<z, 1 - u, 0, 1>>
  BY <1>6, <1>9, <1>10, <1>11, <1>12, <1>17
<1>14. c[41] = <<1 - u, 0, 0, 1>>
  BY <1>6, <1>9, <1>10, <1>11, <1>13, <1>17
<1>15. c[42] = <<0, 0, 1, 0>>
  BY <1>6, <1>10, <1>11, <1>14, <1>17
<1>16. QED
  BY <1>15

(* A burst of up to four wrong bits never passes check_48.                  *)
LEMMA BurstIsCaught ==
  ASSUME NEW v \in Word(48), Check48(v) = "ok", NEW w \in Word(48), NEW at \in 1 .. 48, v[at] # w[at],
         \A i \in 1 .. 48 : i \notin at .. at + 3 => v[i] = w[i]
  PROVE  Check48(w) \in {"crc", "tail"}
<1>1. SUFFICES ASSUME Check48(w) = "ok" PROVE FALSE
  BY CheckMeans
<1>2. PICK c : IsRegister(c, v, 48)
  BY RegisterExists DEF Word
<1>3. PICK d : IsRegister(d, w, 48)
  BY RegisterExists DEF Word
<1>4. \A i \in 43 .. 48 : v[i] = w[i]
  BY <1>1, CheckMeans
<1>5. at \in 1 .. 42
  BY <1>4
<1>6. c[42] = d[42]
  BY <1>1, <1>2, <1>3, Residue
<1>7. \A i \in 0 .. 48 : c[i] \in Registers /\ d[i] \in Registers
  BY <1>2, <1>3 DEF IsRegister
<1>8. \A i \in 1 .. 48 : c[i] = CrcShift(c[i - 1], v[i]) /\ d[i] = CrcShift(d[i - 1], w[i])
  BY <1>2, <1>3 DEF IsRegister
<1>9. \A i \in 1 .. 48 : v[i] \in B /\ w[i] \in B
  BY DEF Word
<1>10. c[48] = d[48]
  <2>1. c[43] = d[43]
    BY <1>4, <1>6, <1>8
  <2>2. c[44] = d[44]
    BY <1>4, <2>1, <1>8
  <2>3. c[45] = d[45]
    BY <1>4, <2>2, <1>8
  <2>4. c[46] = d[46]
    BY <1>4, <2>3, <1>8
  <2>5. c[47] = d[47]
    BY <1>4, <2>4, <1>8
  <2>6. QED
    BY <1>4, <2>5, <1>8
<1>11. c[at - 1] = d[at - 1]
  <2> DEFINE T == {k \in Nat : k < at => c[k] = d[k]}
  <2>1. 0 \in T
    BY <1>2, <1>3 DEF IsRegister
  <2>2. ASSUME NEW k \in T PROVE k + 1 \in T
    <3>1. SUFFICES ASSUME k + 1 < at PROVE c[k + 1] = d[k + 1]
      OBVIOUS
    <3>2. k + 1 \in 1 .. 48 /\ k + 1 \notin at .. at + 3 /\ k + 1 - 1 = k /\ c[k] = d[k]
      BY <3>1
    <3>3. QED
      BY <3>2, <1>8
  <2>3. T = Nat
    <3>1. T \in SUBSET Nat
      OBVIOUS
    <3> HIDE DEF T
    <3>2. QED
      BY <2>1, <2>2, <3>1, SetInduction
  <2>4. at - 1 \in T
    BY <2>3
  <2>5. QED
    BY <2>4
<1>12. c[at + 3] # d[at + 3]
  <2>1. /\ at \in 1 .. 48 /\ at + 1 \in 1 .. 48 /\ at + 2 \in 1 .. 48 /\ at + 3 \in 1 .. 48
        /\ at + 1 - 1 = at /\ at + 2 - 1 = at + 1 /\ at + 3 - 1 = at + 2 /\ at - 1 \in 0 .. 48
    BY <1>5
  <2>2. /\ c[at] = CrcShift(c[at - 1], v[at]) /\ c[at + 1] = CrcShift(c[at], v[at + 1])
        /\ c[at + 2] = CrcShift(c[at + 1], v[at + 2]) /\ c[at + 3] = CrcShift(c[at + 2], v[at + 3])
    BY <1>8, <2>1
  <2>3. /\ d[at] = CrcShift(c[at - 1], w[at]) /\ d[at + 1] = CrcShift(d[at], w[at + 1])
        /\ d[at + 2] = CrcShift(d[at + 1], w[at + 2]) /\ d[at + 3] = CrcShift(d[at + 2], w[at + 3])
    BY <1>8, <1>11, <2>1
  <2>4. /\ c[at - 1] \in Registers
        /\ v[at] \in B /\ v[at + 1] \in B /\ v[at + 2] \in B /\ v[at + 3] \in B
        /\ w[at] \in B /\ w[at + 1] \in B /\ w[at + 2] \in B /\ w[at + 3] \in B
    BY <1>7, <1>9, <2>1
  <2> DEFINE r == c[at - 1]
             a1 == v[at]
             a2 == v[at + 1]
             a3 == v[at + 2]
             a4 == v[at + 3]
             b1 == w[at]
             b2 == w[at + 1]
             b3 == w[at + 2]
             b4 == w[at + 3]
             c1 == c[at]
             c2 == c[at + 1]
             c3 == c[at + 2]
             c4 == c[at + 3]
             d1 == d[at]
             d2 == d[at + 1]
             d3 == d[at + 2]
             d4 == d[at + 3]
  <2>5. /\ r \in Registers /\ a1 # b1
        /\ a1 \in B /\ a2 \in B /\ a3 \in B /\ a4 \in B /\ b1 \in B /\ b2 \in B /\ b3 \in B /\ b4 \in B
    BY <2>4
  <2>9. /\ c1 = CrcShift(r, a1) /\ c2 = CrcShift(c1, a2) /\ c3 = CrcShift(c2, a3) /\ c4 = CrcShift(c3, a4)
        /\ d1 = CrcShift(r, b1) /\ d2 = CrcShift(d1, b2) /\ d3 = CrcShift(d2, b3) /\ d4 = CrcShift(d3, b4)
    BY <2>2, <2>3
  <2> HIDE DEF r, a1, a2, a3, a4, b1, b2, b3, b4, c1, c2, c3, c4, d1, d2, d3, d4
  <2>10. c1 \in Registers /\ d1 \in Registers
    BY <2>5, <2>9, ShiftType
  <2>11. c2 \in Registers /\ d2 \in Registers
    BY <2>5, <2>9, <2>10, ShiftType
  <2>12. c3 \in Registers /\ d3 \in Registers
    BY <2>5, <2>9, <2>11, ShiftType
  <2>13. c1[1] = d1[1] /\ c1[2] = d1[2] /\ c1[3] # d1[3] /\ c1[4] # d1[4]
    BY <2>5, <2>9, TwoShifts
  <2>14. c2[1] = d2[1] /\ c2[2] # d2[2] /\ (c2[3] = d2[3] <=> c2[4] # d2[4])
    BY <2>5, <2>9, <2>10, <2>13, TwoShifts
  <2>15. c3[1] # d3[1] /\ (c3[2] = d3[2] => (c3[3] = d3[3] <=> c3[4] # d3[4]))
    BY <2>5, <2>9, <2>11, <2>14, TwoShifts
  <2>6. c4 # d4
    BY <2>5, <2>9, <2>12, <2>15, TwoShifts
  <2>7. QED
    BY <2>6 DEF c4, d4
<1>13. \A k \in at + 3 .. 48 : c[k] # d[k]
  <2> DEFINE T == {k \in Nat : k >= at + 3 /\ k <= 48 => c[k] # d[k]}
  <2>1. 0 \in T
    OBVIOUS
  <2>2. ASSUME NEW k \in T PROVE k + 1 \in T
    <3>1. SUFFICES ASSUME k + 1 >= at + 3, k + 1 <= 48 PROVE c[k + 1] # d[k + 1]
      OBVIOUS
    <3>2. CASE k + 1 = at + 3
      BY <1>12, <3>2
    <3>3. CASE k + 1 # at + 3
      <4>1. k + 1 \in 1 .. 48 /\ k \in 0 .. 48 /\ k + 1 \notin at .. at + 3 /\ k + 1 - 1 = k /\ c[k] # d[k]
        BY <3>1, <3>3
      <4>2. v[k + 1] = w[k + 1] /\ v[k + 1] \in B
        BY <1>9, <4>1
      <4>3. c[k + 1] = CrcShift(c[k], v[k + 1]) /\ d[k + 1] = CrcShift(d[k], v[k + 1])
        BY <1>8, <4>1, <4>2
      <4>4. c[k] \in Registers /\ d[k] \in Registers
        BY <1>7, <4>1
      <4>5. QED
        BY <4>1, <4>2, <4>3, <4>4, ShiftIsInjective
    <3>4. QED
      BY <3>2, <3>3
  <2>3. T = Nat
    <3>1. T \in SUBSET Nat
      OBVIOUS
    <3> HIDE DEF T
    <3>2. QED
      BY <2>1, <2>2, <3>1, SetInduction
  <2>4. QED
    BY <2>3
<1>14. 48 \in at + 3 .. 48
  BY <1>5
<1>15. QED
  BY <1>10, <1>13, <1>14

---------------------------------------------------------------------------
(* The layout of a SIG.                                                    *)

Join(u, s, t, a, b, n) ==
  u \in Word(n) /\ (\A i \in 1 .. a : u[i] = s[i]) /\ (\A i \in 1 .. b : u[a + i] = t[i])

(* Joined, with a conclusion that can be cited under quantifiers.          *)
LEMMA JoinedWords ==
  ASSUME NEW a \in Nat, NEW b \in Nat, NEW n, n = a + b, NEW s \in Word(a), NEW t \in Word(b)
  PROVE  s \o t \in Word(n) /\ Join(s \o t, s, t, a, b, n)
  BY Joined DEF Join

(* The powers of two used for fields.                                      *)
LEMMA PowersOfTwo ==
  ASSUME NEW i \in Nat, i <= 20
  PROVE  2^i \in Nat /\ 2^i > 0
<1>0. CASE i = 0
  BY <1>0
<1>1. CASE i = 1
  BY <1>1
<1>2. CASE i = 2
  BY <1>2
<1>3. CASE i = 3
  BY <1>3
<1>4. CASE i = 4
  BY <1>4
<1>5. CASE i = 5
  BY <1>5
<1>6. CASE i = 6
  BY <1>6
<1>7. CASE i = 7
  BY <1>7
<1>8. CASE i = 8
  BY <1>8
<1>9. CASE i = 9
  BY <1>9
<1>10. CASE i = 10
  BY <1>10
<1>11. CASE i = 11
  BY <1>11
<1>12. CASE i = 12
  BY <1>12
<1>13. CASE i = 13
  BY <1>13
<1>14. CASE i = 14
  BY <1>14
<1>15. CASE i = 15
  BY <1>15
<1>16. CASE i = 16
  BY <1>16
<1>17. CASE i = 17
  BY <1>17
<1>18. CASE i = 18
  BY <1>18
<1>19. CASE i = 19
  BY <1>19
<1>20. CASE i = 20
  BY <1>20
<1>21. i = 0 \/ i = 1 \/ i = 2 \/ i = 3 \/ i = 4 \/ i = 5 \/ i = 6 \/ i = 7 \/ i = 8 \/ i = 9 \/ i = 10 \/ i = 11
      \/ i = 12 \/ i = 13 \/ i = 14 \/ i = 15 \/ i = 16 \/ i = 17 \/ i = 18 \/ i = 19 \/ i = 20
  OBVIOUS
<1>22. QED
  BY <1>0, <1>1, <1>2, <1>3, <1>4, <1>5, <1>6, <1>7, <1>8, <1>9, <1>10, <1>11, <1>12, <1>13, <1>14, <1>15, <1>16, <1>17, <1>18, <1>19, <1>20, <1>21

(* A field written least significant bit first is a word.                  *)
LEMMA UintWord ==
  ASSUME NEW n \in 0 .. 21, NEW x \in Nat
  PROVE  Uint(x, n) \in Word(n)
<1>1. ASSUME NEW i \in 1 .. n
      PROVE  Bit(x, i - 1) \in B
  <2> DEFINE k == i - 1
             p == 2^k
             q == x \div p
  <2>1. k \in Nat /\ k <= 20
    OBVIOUS
  <2> HIDE DEF k
  <2>5. p \in Nat /\ p > 0
    BY <2>1, PowersOfTwo
  <2> HIDE DEF p
  <2>2. q \in Nat
    BY <2>5, DivMod
  <2> HIDE DEF q
  <2>3. (q % 2) \in B
    BY <2>2 DEF B
  <2>4. QED
    BY <2>3 DEF Bit, p, q, k
<1>2. Uint(x, n) = [i \in 1 .. n |-> Bit(x, i - 1)]
  BY DEF Uint
<1>3. Uint(x, n) \in [1 .. n -> B]
  BY <1>1, <1>2
<1>4. QED
  BY <1>2, <1>3, WordOf

SuFieldSet ==
  [stbc : B, uplink : B, bandwidth : 0 .. 3, nsts : 0 .. 3, id : 0 .. 511, shortGi : B, ldpc : B, extra : B,
   mcs : 0 .. 15, smoothing : B, beam : B, aggregation : B, length : 0 .. 511, response : 0 .. 3, tp : B]

SuBody(f, first, sm, x, y) ==
  <<first, f.stbc, f.uplink>> \o Uint(f.bandwidth, 2) \o Uint(f.nsts, 2) \o Uint(f.id, 9)
  \o <<f.shortGi, f.ldpc, f.extra>> \o Uint(f.mcs, 4) \o <<sm>>
  \o <<f.aggregation>> \o Uint(f.length, 9) \o Uint(f.response, 2) \o <<x, y>>

(* Where each field of a single-user SIG is.                               *)
LEMMA SuLayout ==
  ASSUME NEW f \in SuFieldSet, NEW first \in B, NEW sm \in B, NEW x \in B, NEW y \in B
  PROVE  LET w == SuBody(f, first, sm, x, y)
         IN /\ w \in Word(38)
            /\ w[1] = first /\ w[2] = f.stbc /\ w[3] = f.uplink
            /\ \A i \in 1 .. 2 : w[3 + i] = Uint(f.bandwidth, 2)[i]
            /\ \A i \in 1 .. 2 : w[5 + i] = Uint(f.nsts, 2)[i]
            /\ \A i \in 1 .. 9 : w[7 + i] = Uint(f.id, 9)[i]
            /\ w[17] = f.shortGi /\ w[18] = f.ldpc /\ w[19] = f.extra
            /\ \A i \in 1 .. 4 : w[19 + i] = Uint(f.mcs, 4)[i]
            /\ w[24] = sm /\ w[25] = f.aggregation
            /\ \A i \in 1 .. 9 : w[25 + i] = Uint(f.length, 9)[i]
            /\ \A i \in 1 .. 2 : w[34 + i] = Uint(f.response, 2)[i]
            /\ w[37] = x /\ w[38] = y
<1> DEFINE t1 == <<first, f.stbc, f.uplink>>
           t2 == Uint(f.bandwidth, 2)
           t3 == Uint(f.nsts, 2)
           t4 == Uint(f.id, 9)
           t5 == <<f.shortGi, f.ldpc, f.extra>>
           t6 == Uint(f.mcs, 4)
           t7 == <<sm>>
           t8 == <<f.aggregation>>
           t9 == Uint(f.length, 9)
           t10 == Uint(f.response, 2)
           t11 == <<x, y>>
           w2 == t1 \o t2
           w3 == w2 \o t3
           w4 == w3 \o t4
           w5 == w4 \o t5
           w6 == w5 \o t6
           w7 == w6 \o t7
           w8 == w7 \o t8
           w9 == w8 \o t9
           w10 == w9 \o t10
           w11 == w10 \o t11
<1>1. /\ t1 \in Word(3) /\ t1[1] = first /\ t1[2] = f.stbc /\ t1[3] = f.uplink
      /\ t5 \in Word(3) /\ t5[1] = f.shortGi /\ t5[2] = f.ldpc /\ t5[3] = f.extra
      /\ t7 \in Word(1) /\ t7[1] = sm /\ t8 \in Word(1) /\ t8[1] = f.aggregation
      /\ t11 \in Word(2) /\ t11[1] = x /\ t11[2] = y
  <2>1. t1 \in [1 .. 3 -> B] /\ t5 \in [1 .. 3 -> B] /\ t7 \in [1 .. 1 -> B] /\ t8 \in [1 .. 1 -> B] /\ t11 \in [1 .. 2 -> B]
    BY DEF SuFieldSet
  <2>2. QED
    BY <2>1, WordOf
<1>2. /\ t2 \in Word(2) /\ t3 \in Word(2) /\ t4 \in Word(9) /\ t6 \in Word(4) /\ t9 \in Word(9) /\ t10 \in Word(2)
  <2>1. f.bandwidth \in Nat /\ f.nsts \in Nat /\ f.id \in Nat /\ f.mcs \in Nat /\ f.length \in Nat /\ f.response \in Nat
    BY DEF SuFieldSet
  <2>2. QED
    BY <2>1, UintWord
<1>3. SuBody(f, first, sm, x, y) = w11
  BY DEF SuBody
<1> HIDE DEF t1, t2, t3, t4, t5, t6, t7, t8, t9, t10, t11
<1>4. w2 \in Word(5) /\ Join(w2, t1, t2, 3, 2, 5)
  BY <1>1, <1>2, JoinedWords
<1> HIDE DEF w2
<1>5. w3 \in Word(7) /\ Join(w3, w2, t3, 5, 2, 7)
  BY <1>2, <1>4, JoinedWords
<1> HIDE DEF w3
<1>6. w4 \in Word(16) /\ Join(w4, w3, t4, 7, 9, 16)
  BY <1>2, <1>5, JoinedWords
<1> HIDE DEF w4
<1>7. w5 \in Word(19) /\ Join(w5, w4, t5, 16, 3, 19)
  BY <1>1, <1>6, JoinedWords
<1> HIDE DEF w5
<1>8. w6 \in Word(23) /\ Join(w6, w5, t6, 19, 4, 23)
  BY <1>2, <1>7, JoinedWords
<1> HIDE DEF w6
<1>9. w7 \in Word(24) /\ Join(w7, w6, t7, 23, 1, 24)
  BY <1>1, <1>8, JoinedWords
<1> HIDE DEF w7
<1>10. w8 \in Word(25) /\ Join(w8, w7, t8, 24, 1, 25)
  BY <1>1, <1>9, JoinedWords
<1> HIDE DEF w8
<1>11. w9 \in Word(34) /\ Join(w9, w8, t9, 25, 9, 34)
  BY <1>2, <1>10, JoinedWords
<1> HIDE DEF w9
<1>12. w10 \in Word(36) /\ Join(w10, w9, t10, 34, 2, 36)
  BY <1>2, <1>11, JoinedWords
<1> HIDE DEF w10
<1>13. w11 \in Word(38) /\ Join(w11, w10, t11, 36, 2, 38)
  BY <1>1, <1>12, JoinedWords
<1> HIDE DEF w11
<1>14. /\ \A i \in 1 .. 3 : w11[i] = t1[i]
       /\ \A i \in 1 .. 2 : w11[3 + i] = t2[i]
       /\ \A i \in 1 .. 2 : w11[5 + i] = t3[i]
  <2>1. \A i \in 1 .. 7 : w11[i] = w3[i]
    BY <1>6, <1>7, <1>8, <1>9, <1>10, <1>11, <1>12, <1>13 DEF Join
  <2>2. QED
    BY <1>4, <1>5, <2>1 DEF Join
<1>15. /\ \A i \in 1 .. 9 : w11[7 + i] = t4[i]
       /\ \A i \in 1 .. 3 : w11[16 + i] = t5[i]
       /\ \A i \in 1 .. 4 : w11[19 + i] = t6[i]
  <2>1. \A i \in 1 .. 23 : w11[i] = w6[i]
    BY <1>9, <1>10, <1>11, <1>12, <1>13 DEF Join
  <2>2. QED
    BY <1>6, <1>7, <1>8, <2>1 DEF Join
<1>16. /\ \A i \in 1 .. 1 : w11[23 + i] = t7[i]
       /\ \A i \in 1 .. 1 : w11[24 + i] = t8[i]
       /\ \A i \in 1 .. 9 : w11[25 + i] = t9[i]
  <2>1. \A i \in 1 .. 34 : w11[i] = w9[i]
    BY <1>12, <1>13 DEF Join
  <2>2. QED
    BY <1>9, <1>10, <1>11, <2>1 DEF Join
<1>17. /\ \A i \in 1 .. 2 : w11[34 + i] = t10[i]
       /\ \A i \in 1 .. 2 : w11[36 + i] = t11[i]
  BY <1>12, <1>13 DEF Join
<1>18. QED
  <2>1. w11 \in Word(38)
    BY <1>13
  <2>2. w11[1] = t1[1] /\ w11[2] = t1[2] /\ w11[3] = t1[3] /\ w11[17] = t5[1] /\ w11[18] = t5[2] /\ w11[19] = t5[3]
    BY <1>14, <1>15
  <2>3. w11[24] = t7[1] /\ w11[25] = t8[1] /\ w11[37] = t11[1] /\ w11[38] = t11[2]
    BY <1>16, <1>17
  <2>4. QED
    BY <1>1, <1>3, <1>14, <1>15, <1>16, <1>17, <2>1, <2>2, <2>3 DEF t2, t3, t4, t6, t9, t10

(* A number read from its bits, least significant first.                   *)
LEMMA ValueIsLastSum ==
  ASSUME NEW n \in Nat, NEW w, Len(w) = n, NEW s \in [0 .. n -> Int],
         s[0] = 0, \A j \in 1 .. n : s[j] = s[j - 1] + w[j] * 2^(j - 1)
  PROVE  Value(w) = s[n]
<1> DEFINE Adds(f) == f = [j \in 0 .. Len(w) |-> IF j = 0 THEN 0 ELSE f[j - 1] + w[j] * 2^(j - 1)]
           t == CHOOSE f : Adds(f)
           Same == {k \in Nat : k <= n => t[k] = s[k]}
<1>1. Adds(s)
  OBVIOUS
<1>2. Adds(t)
  BY <1>1
<1>3. Value(w) = t[n]
  BY DEF Value
<1> HIDE DEF t
<1>4. 0 \in Same
  BY <1>2
<1>5. ASSUME NEW k \in Same PROVE k + 1 \in Same
  <2>1. CASE k + 1 <= n
    <3>1. k + 1 \in 1 .. n /\ k + 1 - 1 = k /\ t[k] = s[k]
      BY <2>1
    <3>2. t[k + 1] = t[k] + w[k + 1] * 2^k /\ s[k + 1] = s[k] + w[k + 1] * 2^k
      BY <1>2, <3>1
    <3>3. QED
      BY <3>1, <3>2
  <2>2. CASE ~(k + 1 <= n)
    BY <2>2
  <2>3. QED
    BY <2>1, <2>2
<1>6. Same = Nat
  <2>1. Same \in SUBSET Nat
    OBVIOUS
  <2> HIDE DEF Same
  <2>2. QED
    BY <1>4, <1>5, <2>1, SetInduction
<1>7. n \in Same
  BY <1>6
<1>8. QED
  BY <1>3, <1>7

(* The weight of a bit is twice that of the one before. *)
LEMMA TwiceThePower ==
  ASSUME NEW i \in 1 .. 20
  PROVE  2^i = 2 * 2^(i - 1)
<1>1. CASE i = 1
  BY <1>1
<1>2. CASE i = 2
  BY <1>2
<1>3. CASE i = 3
  BY <1>3
<1>4. CASE i = 4
  BY <1>4
<1>5. CASE i = 5
  BY <1>5
<1>6. CASE i = 6
  BY <1>6
<1>7. CASE i = 7
  BY <1>7
<1>8. CASE i = 8
  BY <1>8
<1>9. CASE i = 9
  BY <1>9
<1>10. CASE i = 10
  BY <1>10
<1>11. CASE i = 11
  BY <1>11
<1>12. CASE i = 12
  BY <1>12
<1>13. CASE i = 13
  BY <1>13
<1>14. CASE i = 14
  BY <1>14
<1>15. CASE i = 15
  BY <1>15
<1>16. CASE i = 16
  BY <1>16
<1>17. CASE i = 17
  BY <1>17
<1>18. CASE i = 18
  BY <1>18
<1>19. CASE i = 19
  BY <1>19
<1>20. CASE i = 20
  BY <1>20
<1>21. i = 1 \/ i = 2 \/ i = 3 \/ i = 4 \/ i = 5 \/ i = 6 \/ i = 7 \/ i = 8 \/ i = 9 \/ i = 10
      \/ i = 11 \/ i = 12 \/ i = 13 \/ i = 14 \/ i = 15 \/ i = 16 \/ i = 17 \/ i = 18 \/ i = 19 \/ i = 20
  OBVIOUS
<1>22. QED
  BY <1>1, <1>2, <1>3, <1>4, <1>5, <1>6, <1>7, <1>8, <1>9, <1>10, <1>11, <1>12, <1>13, <1>14, <1>15, <1>16, <1>17, <1>18, <1>19, <1>20, <1>21

(* A remainder is known by its range. *)
LEMMA RemainderIs ==
  ASSUME NEW x \in Nat, NEW m \in Nat, m > 0, NEW t \in 0 .. m - 1, NEW h \in Nat, x = m * h + t
  PROVE  x % m = t
<1> DEFINE q == x \div m
           r == x % m
<1>1. q \in Nat /\ r \in 0 .. m - 1 /\ x = m * q + r
  BY DivMod
<1> HIDE DEF q, r
<1>2. ASSUME NEW a \in Nat, NEW b \in Nat, a < b
      PROVE  m * a + m <= m * b
  <2>1. PICK d \in Nat : b = a + 1 + d
    BY <1>2
  <2>2. m * b = m * a + m + m * d /\ m * d >= 0
    BY <2>1
  <2>3. QED
    BY <2>2
<1>3. ~(q < h) /\ ~(h < q)
  BY <1>1, <1>2
<1>4. QED
  BY <1>1, <1>3 DEF r

(* The low n bits of a number are the low n - 1 and one bit more. *)
LEMMA OneBitMore ==
  ASSUME NEW x \in Nat, NEW p \in Nat, p > 0
  PROVE  x % (2 * p) = (x % p) + ((x \div p) % 2) * p
<1> DEFINE q == x \div p
           r == x % p
           b == q % 2
           h == q \div 2
<1>1. q \in Nat /\ r \in 0 .. p - 1 /\ x = p * q + r
  BY DivMod
<1> HIDE DEF q, r
<1>2. h \in Nat /\ b \in {0, 1} /\ q = 2 * h + b
  BY <1>1
<1> HIDE DEF h, b
<1>3. p * q = 2 * p * h + b * p
  BY <1>2
<1>4. x = 2 * p * h + (b * p + r) /\ b * p + r \in 0 .. 2 * p - 1
  BY <1>1, <1>2, <1>3
<1> DEFINE m == 2 * p
           t == b * p + r
<1>5. m \in Nat /\ m > 0 /\ t \in 0 .. m - 1 /\ x = m * h + t
  BY <1>1, <1>2, <1>4
<1> HIDE DEF m, t
<1>6. x % m = t
  BY <1>2, <1>5, RemainderIs
<1>7. QED
  BY <1>6 DEF m, t, b, q, r

(* What is written with n bits is read back.                               *)
LEMMA UintReadsBack ==
  ASSUME NEW n \in 0 .. 20, NEW x \in Nat, x < 2^n
  PROVE  Value(Uint(x, n)) = x
<1> DEFINE w == Uint(x, n)
           s == [j \in 0 .. n |-> x % 2^j]
<1>1. Len(w) = n
  <2>1. w \in Word(n)
    BY UintWord
  <2>2. QED
    BY <2>1 DEF Word
<1>2. w = [j \in 1 .. n |-> (x \div 2^(j - 1)) % 2]
  BY DEF Uint, Bit
<1> HIDE DEF w
<1>3. ASSUME NEW j \in 0 .. n
      PROVE  2^j \in Nat /\ 2^j > 0 /\ x % 2^j \in Int
  <2> DEFINE p == 2^j
  <2>1. p \in Nat /\ p > 0
    BY PowersOfTwo
  <2> HIDE DEF p
  <2>2. x % p \in Int
    BY <2>1, DivMod
  <2>3. QED
    BY <2>1, <2>2 DEF p
<1>4. s \in [0 .. n -> Int]
  BY <1>3
<1>5. s[0] = 0
  BY SMT
<1>6. ASSUME NEW j \in 1 .. n
      PROVE  s[j] = s[j - 1] + w[j] * 2^(j - 1)
  <2> DEFINE k == j - 1
             p == 2^k
             r == 2^j
  <2>1. k \in 0 .. n /\ j \in 0 .. n /\ j \in 1 .. 20
    OBVIOUS
  <2>2. r = 2 * p
    BY <2>1, TwiceThePower
  <2>3. p \in Nat /\ p > 0
    BY <1>3, <2>1
  <2>4. s[j] = x % r /\ s[k] = x % p /\ w[j] = (x \div p) % 2
    BY <1>2, <2>1
  <2> HIDE DEF s, r, p
  <2>5. x % (2 * p) = (x % p) + ((x \div p) % 2) * p
    BY <2>3, OneBitMore
  <2>6. s[j] = s[k] + w[j] * p
    BY <2>2, <2>4, <2>5
  <2>7. QED
    BY <2>6 DEF p, k
<1>7. Value(w) = s[n]
  <2> HIDE DEF s
  <2>1. n \in Nat
    OBVIOUS
  <2>2. \A j \in 1 .. n : s[j] = s[j - 1] + w[j] * 2^(j - 1)
    BY <1>6
  <2>3. QED
    BY Zenon, <1>1, <1>4, <1>5, <2>1, <2>2, ValueIsLastSum
<1>8. s[n] = x
  <2> DEFINE p == 2^n
  <2>1. s[n] = x % p /\ x < p
    OBVIOUS
  <2>2. p \in Nat
    BY <1>3
  <2> HIDE DEF p, s
  <2>3. QED
    BY <2>1, <2>2
<1>9. QED
  BY <1>7, <1>8 DEF w

(* The n bits of w after the first a are those of x.                       *)
Reads(w, a, n, x) == \A i \in 1 .. n : w[a + i] = Uint(x, n)[i]

(* The same for a field somewhere in a SIG.                                *)
LEMMA FieldReadsBack ==
  ASSUME NEW w \in Word(48), NEW a \in 1 .. 40, NEW n \in {2, 4, 6, 9}, NEW b, b = a + n, b <= 48,
         NEW x \in Nat, x < 2^n, Reads(w, a, n, x)
  PROVE  FieldAt(w, a, b) = x
<1> DEFINE s == SubSeq(w, a + 1, b)
           u == Uint(x, n)
           a1 == a + 1
<1>1. a1 \in Nat /\ a1 > 0 /\ b \in a1 .. 48 /\ n = b - a1 + 1
  OBVIOUS
<1>10. \A i \in 1 .. n : a1 + i - 1 = a + i
  OBVIOUS
<1>2. u \in Word(n)
  BY UintWord
<1>3. Value(u) = x
  <2>1. n \in 0 .. 20
    OBVIOUS
  <2>2. QED
    BY <2>1, UintReadsBack
<1>4. FieldAt(w, a, b) = Value(s)
  BY DEF FieldAt
<1> HIDE DEF a1, u
<1>5. SubSeq(w, a1, b) \in Word(n) /\ \A i \in 1 .. n : SubSeq(w, a1, b)[i] = w[a1 + i - 1]
  <2> DEFINE m == b - a1 + 1
  <2>1. m = b - a1 + 1
    OBVIOUS
  <2> HIDE DEF m
  <2>2. IsPart(SubSeq(w, a1, b), w, a1, m)
    BY <1>1, <2>1, PartOfWord
  <2>3. m = n
    BY <1>1, <2>1
  <2>4. QED
    BY <2>2, <2>3 DEF IsPart
<1>6. s = SubSeq(w, a1, b)
  BY DEF a1
<1> HIDE DEF s
<1>7. \A i \in 1 .. n : s[i] = u[i]
  BY <1>5, <1>6, <1>10 DEF u, Reads
<1>8. s = u
  <2>1. s \in [1 .. n -> B] /\ u \in [1 .. n -> B]
    BY <1>2, <1>5, <1>6 DEF Word
  <2>2. QED
    BY <1>7, <2>1
<1>9. QED
  BY <1>3, <1>4, <1>8

(* What a single-user SIG says is read back from its bits.                 *)
LEMMA SuReadsBack ==
  ASSUME NEW f \in SuFieldSet, NEW first \in B, NEW sm \in B, NEW x \in B, NEW y \in B, NEW tp,
         NEW w \in Word(48), \A i \in 2 .. 36 : w[i] = SuBody(f, first, sm, x, y)[i]
  PROVE  LET g == SuFieldsIn(w, tp)
         IN /\ g.stbc = f.stbc /\ g.uplink = f.uplink /\ g.bandwidth = f.bandwidth /\ g.nsts = f.nsts
            /\ g.id = f.id /\ g.shortGi = f.shortGi /\ g.ldpc = f.ldpc /\ g.extra = f.extra /\ g.mcs = f.mcs
            /\ g.smoothing = sm /\ g.beam = sm /\ g.aggregation = f.aggregation /\ g.length = f.length
            /\ g.response = f.response /\ g.tp = tp
<1> DEFINE v == SuBody(f, first, sm, x, y)
<1>1. /\ v[2] = f.stbc /\ v[3] = f.uplink
      /\ \A i \in 1 .. 2 : v[3 + i] = Uint(f.bandwidth, 2)[i]
      /\ \A i \in 1 .. 2 : v[5 + i] = Uint(f.nsts, 2)[i]
      /\ \A i \in 1 .. 9 : v[7 + i] = Uint(f.id, 9)[i]
      /\ v[17] = f.shortGi /\ v[18] = f.ldpc /\ v[19] = f.extra
      /\ \A i \in 1 .. 4 : v[19 + i] = Uint(f.mcs, 4)[i]
      /\ v[24] = sm /\ v[25] = f.aggregation
      /\ \A i \in 1 .. 9 : v[25 + i] = Uint(f.length, 9)[i]
      /\ \A i \in 1 .. 2 : v[34 + i] = Uint(f.response, 2)[i]
  BY SuLayout
<1> HIDE DEF v
<1>2. /\ f.bandwidth \in 0 .. 3 /\ f.nsts \in 0 .. 3 /\ f.id \in 0 .. 511 /\ f.mcs \in 0 .. 15
      /\ f.length \in 0 .. 511 /\ f.response \in 0 .. 3
  BY DEF SuFieldSet
<1>3. \A i \in 2 .. 36 : w[i] = v[i]
  BY DEF v
<1>4. FieldAt(w, 3, 5) = f.bandwidth
  <2>1. Reads(w, 3, 2, f.bandwidth)
    BY <1>1, <1>3 DEF Reads
  <2>2. QED
    BY <1>2, <2>1, FieldReadsBack
<1>5. FieldAt(w, 5, 7) = f.nsts
  <2>1. Reads(w, 5, 2, f.nsts)
    BY <1>1, <1>3 DEF Reads
  <2>2. QED
    BY <1>2, <2>1, FieldReadsBack
<1>6. FieldAt(w, 7, 16) = f.id
  <2>1. Reads(w, 7, 9, f.id)
    BY <1>1, <1>3 DEF Reads
  <2>2. QED
    BY SMTT(30), <1>2, <2>1, FieldReadsBack
<1>7. FieldAt(w, 19, 23) = f.mcs
  <2>1. Reads(w, 19, 4, f.mcs)
    BY <1>1, <1>3 DEF Reads
  <2>2. QED
    BY <1>2, <2>1, FieldReadsBack
<1>8. FieldAt(w, 25, 34) = f.length
  <2>1. Reads(w, 25, 9, f.length)
    BY <1>1, <1>3 DEF Reads
  <2>2. QED
    BY SMTT(30), <1>2, <2>1, FieldReadsBack
<1>9. FieldAt(w, 34, 36) = f.response
  <2>1. Reads(w, 34, 2, f.response)
    BY <1>1, <1>3 DEF Reads
  <2>2. QED
    BY <1>2, <2>1, FieldReadsBack
<1>10. /\ w[2] = f.stbc /\ w[3] = f.uplink /\ w[17] = f.shortGi /\ w[18] = f.ldpc /\ w[19] = f.extra
       /\ w[24] = sm /\ w[25] = f.aggregation
  BY <1>1, <1>3
<1>11. QED
  BY <1>4, <1>5, <1>6, <1>7, <1>8, <1>9, <1>10 DEF SuFieldsIn

---------------------------------------------------------------------------
(* The geometry of a Data field, as it is chosen and as it is found back.  *)

(* The quotient rounded up, from its bounds.                               *)
LEMMA CeilDivIs ==
  ASSUME NEW a \in Nat \ {0}, NEW d \in Nat \ {0}, NEW k \in Nat, k * d >= a, (k - 1) * d < a
  PROVE  CeilDiv(a, d) = k
<1> DEFINE c == CeilDiv(a, d)
<1>1. c \in Nat /\ c > 0 /\ c * d >= a /\ (c - 1) * d < a
  BY CeilDivBounds
<1> HIDE DEF c
<1>2. \A i \in Nat, j \in Nat : i <= j => i * d <= j * d
  OBVIOUS
<1>3. CASE c <= k - 1
  <2>1. k - 1 \in Nat
    BY <1>1, <1>3
  <2>2. c * d <= (k - 1) * d
    BY <1>1, <1>2, <1>3, <2>1
  <2>3. c * d \in Int /\ (k - 1) * d \in Int
    BY <1>1
  <2>4. QED
    BY <1>1, <2>2, <2>3
<1>4. CASE k <= c - 1
  <2>1. c - 1 \in Nat
    BY <1>1
  <2>2. k * d <= (c - 1) * d
    BY <1>2, <1>4, <2>1
  <2>3. k * d \in Int /\ (c - 1) * d \in Int
    BY <1>1
  <2>4. QED
    BY <1>1, <2>2, <2>3
<1>5. QED
  BY <1>1, <1>3, <1>4 DEF c

(* SERVICE and, with BCC, tail bits.                                       *)
Overhead(ldpc) == IF ldpc = 1 THEN 8 ELSE 14

(* A symbol of a valid MCS carries at least 26 bits.                       *)
LEMMA DbpsOfValid ==
  ASSUME NEW mcs \in ValidMcs
  PROVE  NDbps(mcs, 1) \in Nat /\ NDbps(mcs, 1) >= 26
<1>1. RateOf(mcs)[1] \in Nat /\ RateOf(mcs)[1] >= 26
  BY RateIsListed DEF Rates
<1>2. QED
  BY <1>1 DEF RateOf

IsGeometry(g, mcs, octets, aggregation, ldpc) ==
  /\ octets \in Nat \ {0} /\ (aggregation = 0 => octets <= 511)
  /\ g.nInit \in Nat \ {0} /\ g.nInit = CeilDiv(8 * octets + Overhead(ldpc), NDbps(mcs, 1))
  /\ g.extra \in B /\ (ldpc = 0 => g.extra = 0) /\ (ldpc = 1 => g.extra = PpduParams(g.nInit, mcs).extra)
  /\ g.nSym = g.nInit + g.extra /\ g.nSym <= 511
  /\ g.length = IF aggregation = 1 THEN g.nSym ELSE octets

(* The geometry chosen for a PSDU, unless it is refused.                   *)
LEMMA GeometryChosen ==
  ASSUME NEW mcs \in ValidMcs, NEW octets \in Nat, NEW aggregation \in B, NEW ldpc \in B,
         NEW g, g = DataGeometry(mcs, octets, aggregation, ldpc)
  PROVE  g.nSym \in Nat /\ (g.nSym # 0 => IsGeometry(g, mcs, octets, aggregation, ldpc))
<1> DEFINE a == 8 * octets + Overhead(ldpc)
           D == NDbps(mcs, 1)
           n == CeilDiv(a, D)
           coding == IF ldpc = 1 THEN PpduParams(n, mcs) ELSE [nSym |-> n, extra |-> 0]
<1>1. a \in Nat \ {0} /\ D \in Nat \ {0}
  BY DbpsOfValid DEF Overhead
<1>2. n \in Nat \ {0}
  <2> HIDE DEF a, D
  <2>1. QED
    BY <1>1, CeilDivBounds
<1>3. g = Geometry(octets, aggregation, n, coding)
  <2>1. a = 8 * octets + N_SERVICE + (IF ldpc = 1 THEN 0 ELSE N_TAIL)
    BY DEF Overhead, N_SERVICE, N_TAIL
  <2> HIDE DEF a
  <2>2. QED
    BY <2>1 DEF DataGeometry
<1>4. coding.nSym = n + coding.extra /\ coding.extra \in B
  <2>1. CASE ldpc = 1
    <3>1. IsCut(PpduParams(n, mcs), n, RateOf(mcs))
      <4> HIDE DEF n
      <4>1. QED
        BY <1>2, ParamsAreCut
    <3>2. QED
      BY <2>1, <3>1 DEF IsCut, B
  <2>2. CASE ldpc # 1
    <3> HIDE DEF n
    <3>1. QED
      BY <1>2, <2>2 DEF B
  <2>3. QED
    BY <2>1, <2>2
<1>5. ldpc = 0 => coding.extra = 0
  OBVIOUS
<1>6. ldpc = 1 => coding.extra = PpduParams(n, mcs).extra
  OBVIOUS
<1> HIDE DEF coding, n
<1>7. ASSUME g.nSym # 0
      PROVE  /\ ~(octets = 0 \/ (aggregation = 0 /\ octets > 511)) /\ coding.nSym <= 511
             /\ g = [nSym |-> coding.nSym, nInit |-> n, extra |-> coding.extra,
                     length |-> IF aggregation = 1 THEN coding.nSym ELSE octets]
  BY <1>2, <1>3, <1>4, <1>7 DEF Geometry, NoData, PSDU_MAX_NO_AGG, N_SYM_MAX, B
<1>8. g.nSym # 0 => IsGeometry(g, mcs, octets, aggregation, ldpc)
  BY <1>2, <1>4, <1>5, <1>6, <1>7 DEF IsGeometry, n, a, D
<1>9. g.nSym \in Nat
  BY <1>2, <1>3, <1>4 DEF Geometry, NoData, B
<1>10. QED
  BY <1>8, <1>9

(* The octets an A-MPDU is padded to fill the same number of symbols.      *)
LEMMA CapacityFills ==
  ASSUME NEW mcs \in ValidMcs, NEW octets \in Nat, NEW ldpc \in B,
         NEW c, c = AggregatedCapacity(mcs, octets, ldpc), NEW g, g = DataGeometry(mcs, c, 1, ldpc), g.nSym > 0
  PROVE  /\ IsGeometry(g, mcs, c, 1, ldpc)
         /\ c = (g.nInit * NDbps(mcs, 1) - Overhead(ldpc)) \div 8
<1> DEFINE h == DataGeometry(mcs, octets, 1, ldpc)
           D == NDbps(mcs, 1)
           o == Overhead(ldpc)
<1>1. c = IF h.nSym = 0 THEN 0 ELSE (h.nInit * D - o) \div 8
  <2>1. CASE h.nSym = 0
    BY <2>1 DEF AggregatedCapacity
  <2>2. CASE h.nSym # 0 /\ ldpc = 1
    BY <2>2 DEF AggregatedCapacity, Overhead, N_SERVICE
  <2>3. CASE h.nSym # 0 /\ ldpc = 0
    <3>1. c = (h.nSym * D - N_SERVICE - N_TAIL) \div 8
      BY <2>3 DEF AggregatedCapacity
    <3>2. h.nSym = h.nInit /\ h.nInit \in Nat
      BY <2>3, GeometryChosen DEF IsGeometry, B
    <3> DEFINE x == h.nInit * D
    <3>3. x \in Nat
      BY <3>2, DbpsOfValid
    <3>4. c = (x - 8 - 6) \div 8
      BY <3>1, <3>2 DEF N_SERVICE, N_TAIL
    <3>5. o = 14
      BY <2>3 DEF Overhead
    <3> HIDE DEF x, o
    <3>6. c = (x - o) \div 8
      BY <3>3, <3>4, <3>5
    <3>7. QED
      BY <2>3, <3>6 DEF x
  <2>4. QED
    BY <2>1, <2>2, <2>3 DEF B
<1>2. D \in Nat /\ D >= 26 /\ o \in {8, 14}
  BY DbpsOfValid DEF Overhead
<1> HIDE DEF o
<1>3. c \in Nat /\ c # 0 => IsGeometry(g, mcs, c, 1, ldpc)
  BY GeometryChosen DEF B
<1>4. c # 0 /\ h.nSym # 0
  <2>1. DataGeometry(mcs, 0, 1, ldpc).nSym = 0
    BY DEF DataGeometry, Geometry, NoData
  <2>2. QED
    BY <1>1, <2>1
<1>5. IsGeometry(h, mcs, octets, 1, ldpc)
  BY <1>4, GeometryChosen DEF B
<1>6. h.nInit \in Nat \ {0} /\ h.nInit = CeilDiv(8 * octets + o, D) /\ octets \in Nat \ {0}
  BY <1>5 DEF IsGeometry, o
<1> DEFINE x == h.nInit * D
<1>7. x \in Nat /\ (h.nInit - 1) * D = x - D /\ x >= 8 * octets + o
  <2> DEFINE y == 8 * octets + o
  <2>1. y \in Nat /\ D \in Nat \ {0}
    BY <1>2, <1>6
  <2>2. CeilDiv(y, D) * D >= y
    <3> HIDE DEF y, D
    <3>1. QED
      BY <2>1, CeilDivBounds
  <2>3. QED
    BY <1>2, <1>6, <2>2
<1>8. c = (x - o) \div 8
  BY <1>1, <1>4
<1> HIDE DEF x, D
<1>9. c \in Nat /\ 8 * c <= x - o /\ x - o < 8 * c + 8
  BY <1>2, <1>6, <1>7, <1>8
<1>10. IsGeometry(g, mcs, c, 1, ldpc)
  BY <1>3, <1>4, <1>9
<1>11. CeilDiv(8 * c + o, D) = h.nInit
  <2> DEFINE y == 8 * c + o
             k == h.nInit
  <2>1. y \in Nat \ {0} /\ D \in Nat \ {0} /\ k \in Nat
    BY <1>2, <1>6, <1>9
  <2>6. x >= y
    BY <1>2, <1>7, <1>9
  <2>2. k * D >= y
    <3>1. k * D = x
      BY DEF x
    <3>2. QED
      BY <2>6, <3>1
  <2>3. (k - 1) * D < y
    BY <1>2, <1>7, <1>9
  <2> HIDE DEF y, k
  <2>4. CeilDiv(y, D) = k
    BY <2>1, <2>2, <2>3, CeilDivIs
  <2>5. QED
    BY <2>4 DEF y, k
<1>12. g.nInit = h.nInit
  BY <1>10, <1>11 DEF IsGeometry, o, D
<1>13. QED
  BY <1>8, <1>10, <1>12 DEF x, o, D

(* The receiver finds the same geometry in the fields.                     *)
FieldsOfGeometry(f, octets, g) ==
  /\ f.mcs \in ValidMcs /\ octets \in Nat /\ f.aggregation \in B /\ f.ldpc \in B
  /\ IsGeometry(g, f.mcs, octets, f.aggregation, f.ldpc)
  /\ f.aggregation = 1 => octets = (g.nInit * NDbps(f.mcs, 1) - Overhead(f.ldpc)) \div 8
  /\ f.length = g.length
  /\ f.extra = IF f.ldpc = 1 THEN g.extra ELSE 1
  /\ f.stbc = 0 /\ f.nsts = 0 /\ f.bandwidth = 0

(* The receiver finds the symbol count and the PSDU length back from the   *)
(* fields.                                                                 *)
LEMMA GeometryFoundBack ==
  ASSUME NEW f, NEW octets, NEW g, FieldsOfGeometry(f, octets, g), NEW d, d = NDbps(f.mcs, 1)
  PROVE  DataFieldGeometry(f.length, f.aggregation = 1, f.ldpc = 1, f.extra = 1, f.stbc = 1, d)
           = [nSym |-> g.nSym, psdu |-> octets]
<1>8. /\ f.mcs \in ValidMcs /\ f.aggregation \in B /\ f.ldpc \in B
      /\ f.aggregation = 1 => octets = (g.nInit * NDbps(f.mcs, 1) - Overhead(f.ldpc)) \div 8
      /\ f.extra = IF f.ldpc = 1 THEN g.extra ELSE 1
      /\ ~(f.stbc = 1)
  BY DEF FieldsOfGeometry
<1> DEFINE o == N_SERVICE + (IF f.ldpc = 1 THEN 0 ELSE N_TAIL)
           more == IF f.ldpc = 1 /\ f.extra = 1 THEN 1 ELSE 0
<1>1. /\ octets \in Nat \ {0} /\ g.nInit \in Nat \ {0} /\ g.extra \in B /\ g.nSym = g.nInit + g.extra
      /\ g.nInit = CeilDiv(8 * octets + Overhead(f.ldpc), d)
      /\ f.length = IF f.aggregation = 1 THEN g.nSym ELSE octets
      /\ f.ldpc = 0 => g.extra = 0
  BY DEF IsGeometry, FieldsOfGeometry
<1>2. o = Overhead(f.ldpc) /\ o \in {8, 14}
  BY DEF Overhead, N_SERVICE, N_TAIL
<1>3. more = g.extra
  BY <1>1, <1>8 DEF B
<1>4. d \in Nat /\ d >= 26
  BY <1>8, DbpsOfValid
<1> HIDE DEF o, more
<1>5. CASE f.aggregation = 1
  <2> DEFINE left == IF f.ldpc = 1 THEN MaxOf(f.length - more, 1) ELSE f.length
             x == g.nInit * d
  <2>1. f.length = g.nSym /\ f.length > 0 /\ f.length >= more
    BY <1>1, <1>3, <1>5 DEF B
  <2>2. left = g.nInit
    BY <1>1, <1>3, <1>5, <1>8 DEF MaxOf, B
  <2>3. DataFieldGeometry(f.length, f.aggregation = 1, f.ldpc = 1, f.extra = 1, f.stbc = 1, d)
          = [nSym |-> f.length, psdu |-> Minus(left * d, o) \div 8]
    BY <1>5, <1>8, <2>1 DEF DataFieldGeometry, o, more
  <2>4. octets = (x - o) \div 8
    BY <1>2, <1>5, <1>8
  <2>5. x \in Nat /\ left * d = x
    BY <1>1, <1>4, <2>2
  <2> HIDE DEF x, left
  <2>8. octets \in Nat \ {0} /\ o \in Nat
    BY <1>1, <1>2
  <2>9. x - o >= 8
    BY <2>4, <2>5, <2>8
  <2>10. Minus(x, o) = x - o
    BY <2>5, <2>8, <2>9 DEF Minus
  <2>6. Minus(left * d, o) \div 8 = octets
    BY <2>4, <2>5, <2>10
  <2>7. QED
    BY <2>1, <2>3, <2>6
<1>6. CASE f.aggregation = 0
  <2> DEFINE k == CeilDiv(8 * octets + o, 1 * d)
  <2>1. f.length = octets
    BY <1>1, <1>6
  <2>2. DataFieldGeometry(f.length, f.aggregation = 1, f.ldpc = 1, f.extra = 1, f.stbc = 1, d)
          = [nSym |-> 1 * k + more, psdu |-> octets]
    BY <1>1, <1>6, <1>8, <2>1 DEF DataFieldGeometry, o, more
  <2>3. 1 * d = d
    BY <1>4
  <2>4. k = g.nInit
    BY <1>1, <1>2, <2>3
  <2> HIDE DEF k
  <2>5. 1 * k + more = g.nSym
    BY <1>1, <1>3, <2>4
  <2>6. QED
    BY <2>2, <2>5
<1>7. QED
  BY <1>5, <1>6, <1>8 DEF B

(* Such fields are classified as supported, with that geometry.            *)
LEMMA OwnIsSupported ==
  ASSUME NEW f, NEW octets, NEW g, FieldsOfGeometry(f, octets, g), NEW long, NEW sm
  PROVE  LET told == Classify(f, long, sm)
         IN /\ told.kind = "supported"
            /\ told.rxv = RxVectorOf(f, long, sm, [nSym |-> g.nSym, psdu |-> octets])
            /\ told.duration = PpduDuration(long, 1, f.shortGi = 1, g.nSym)
<1> DEFINE n_sts == f.nsts + 1
           n_ss == IF f.stbc = 1 THEN n_sts \div 2 ELSE n_sts
           d == NDbps(f.mcs, n_ss)
           h == DataFieldGeometry(f.length, f.aggregation = 1, f.ldpc = 1, f.extra = 1, f.stbc = 1, d)
           reserved == \/ f.stbc = 1 /\ n_sts % 2 = 1
                       \/ f.ldpc = 0 /\ f.extra = 0
                       \/ d = 0
           ours == f.bandwidth = 0 /\ f.stbc = 0 /\ n_sts = 1 /\ f.mcs \in ValidMcs
<1>1. n_sts = 1 /\ n_ss = 1 /\ ours
  BY DEF FieldsOfGeometry
<1>2. f.mcs \in ValidMcs /\ f.stbc = 0 /\ ~(f.ldpc = 0 /\ f.extra = 0) /\ g.nSym \in Nat \ {0}
  BY DEF FieldsOfGeometry, IsGeometry, B
<1>3. d = NDbps(f.mcs, 1)
  BY <1>1
<1>4. h = [nSym |-> g.nSym, psdu |-> octets]
  BY <1>3, GeometryFoundBack
<1>5. ~reserved
  BY <1>1, <1>2, <1>3, DbpsOfValid
<1>6. Classify(f, long, sm)
        = IF reserved \/ h.nSym = 0 THEN Reserved(SuDuration(f, long))
          ELSE [kind |-> IF ours THEN "supported" ELSE "unsupported",
                rxv |-> RxVectorOf(f, long, sm, h),
                duration |-> PpduDuration(long, n_sts, f.shortGi = 1, h.nSym)]
  BY DEF Classify
<1> HIDE DEF n_sts, n_ss, d, h, reserved, ours
<1>7. Classify(f, long, sm)
        = [kind |-> "supported", rxv |-> RxVectorOf(f, long, sm, h),
           duration |-> PpduDuration(long, n_sts, f.shortGi = 1, h.nSym)]
  BY <1>1, <1>2, <1>4, <1>5, <1>6
<1>8. QED
  BY <1>1, <1>4, <1>7

---------------------------------------------------------------------------
(* Our own PPDUs.                                                          *)

(* What a TXVECTOR of the model holds, and that its identifier can be split *)
(* again.                                                                  *)
LEMMA McssAreValid ==
  ASSUME NEW v \in TxVectors
  PROVE  /\ v.mcs \in ValidMcs /\ v.mcs \in 0 .. 15 /\ v.long \in BOOLEAN
         /\ v.shortGi \in B /\ v.ldpc \in B /\ v.aggregation \in B
         /\ v.header.uplink \in B /\ v.header.smoothing \in B /\ v.header.tp \in B /\ v.header.response \in 0 .. 3
         /\ LET id == IF v.header.uplink = 1 THEN v.header.paid ELSE v.header.paid * 8 + v.header.color
            IN /\ id \in 0 .. 511
               /\ v.header.uplink = 1 => id % 512 = v.header.paid
               /\ v.header.uplink = 0 => id % 8 = v.header.color /\ (id \div 8) % 64 = v.header.paid
<1>1. v.mcs \in ValidMcs
  BY MapsAssumption DEF TxVectors
<1>2. v.mcs \in 0 .. 15
  BY <1>1, RowsOfTable DEF ValidMcs
<1>3. v.long \in BOOLEAN /\ v.shortGi \in B /\ v.ldpc \in B /\ v.aggregation \in B
  BY DEF TxVectors, B
<1>4. \/ v.header = [uplink |-> 1, paid |-> 341, color |-> 0, response |-> 1, smoothing |-> 1, tp |-> 0, seed |-> 93]
      \/ v.header = [uplink |-> 0, paid |-> 42, color |-> 5, response |-> 2, smoothing |-> 0, tp |-> 1, seed |-> 127]
  BY DEF TxVectors
<1>5. QED
  <2>1. CASE v.header = [uplink |-> 1, paid |-> 341, color |-> 0, response |-> 1, smoothing |-> 1, tp |-> 0, seed |-> 93]
    <3>1. /\ v.header.uplink = 1 /\ v.header.paid = 341 /\ v.header.smoothing = 1 /\ v.header.tp = 0
          /\ v.header.response = 1
      BY <2>1
    <3>2. QED
      BY <1>1, <1>2, <1>3, <3>1 DEF B
  <2>2. CASE v.header = [uplink |-> 0, paid |-> 42, color |-> 5, response |-> 2, smoothing |-> 0, tp |-> 1, seed |-> 127]
    <3>1. /\ v.header.uplink = 0 /\ v.header.paid = 42 /\ v.header.color = 5 /\ v.header.smoothing = 0
          /\ v.header.tp = 1 /\ v.header.response = 2
      BY <2>2
    <3>2. QED
      BY <1>1, <1>2, <1>3, <3>1 DEF B
  <2>3. QED
    BY <1>4, <2>1, <2>2

(* A PPDU of ours, as Transmit hands it to the channel.                    *)
IsOwn(p, v, n) ==
  /\ v \in TxVectors /\ n \in Lengths
  /\ p = Build(v, Octets(v, n)) /\ DataGeometry(v.mcs, Octets(v, n), v.aggregation, v.ldpc).nSym > 0

(* The geometry of a PPDU of ours.                                         *)
LEMMA OwnGeometry ==
  ASSUME NEW p, NEW v, NEW n, IsOwn(p, v, n), NEW octets, octets = Octets(v, n),
         NEW g, g = DataGeometry(v.mcs, octets, v.aggregation, v.ldpc)
  PROVE  /\ octets \in Nat
         /\ IsGeometry(g, v.mcs, octets, v.aggregation, v.ldpc)
         /\ v.aggregation = 1 => octets = (g.nInit * NDbps(v.mcs, 1) - Overhead(v.ldpc)) \div 8
<1>1. v.mcs \in ValidMcs /\ v.aggregation \in B /\ v.ldpc \in B /\ n \in Nat /\ g.nSym > 0
  BY ZenonT(60), McssAreValid, MapsAssumption DEF IsOwn
<1>2. CASE v.aggregation = 1
  <2>1. octets = AggregatedCapacity(v.mcs, n, v.ldpc) /\ g = DataGeometry(v.mcs, octets, 1, v.ldpc)
    BY <1>2 DEF Octets
  <2>2. IsGeometry(g, v.mcs, octets, 1, v.ldpc) /\ octets = (g.nInit * NDbps(v.mcs, 1) - Overhead(v.ldpc)) \div 8
    BY <1>1, <2>1, CapacityFills
  <2>3. QED
    BY <1>2, <2>2 DEF IsGeometry
<1>3. CASE v.aggregation = 0
  <2>1. octets = n
    BY <1>3 DEF Octets
  <2>2. g.nSym # 0
    BY <1>1
  <2>3. QED
    BY <1>1, <1>3, <2>1, <2>2, GeometryChosen
<1>4. QED
  BY <1>1, <1>2, <1>3 DEF B

(* The 38 bits a single-user SIG protects.                                 *)
SuBodyOf(f, long) ==
  IF long THEN SuBody(f, 0, f.beam, 1, f.tp) ELSE SuBody(f, 1, f.smoothing, f.tp, 0)

(* The bits of a single-user SIG are its body, its CRC and its tail.       *)
LEMMA SuBodyOfWord ==
  ASSUME NEW f \in SuFieldSet, NEW long \in BOOLEAN
  PROVE  /\ SuBodyOf(f, long) \in Word(38)
         /\ Finish48(SuBodyOf(f, long)) = IF long THEN LongSuBits(f) ELSE ShortBits(f)
<1>1. f.beam \in B /\ f.smoothing \in B /\ f.tp \in B /\ 0 \in B /\ 1 \in B
  BY DEF SuFieldSet, B
<1>2. CASE long
  <2>1. SuBody(f, 0, f.beam, 1, f.tp) \in Word(38)
    BY SMTT(30), <1>1, SuLayout
  <2>2. LongSuBits(f) = Finish48(SuBody(f, 0, f.beam, 1, f.tp))
    BY DEF LongSuBits, SuBody
  <2>3. QED
    BY <1>2, <2>1, <2>2 DEF SuBodyOf
<1>3. CASE ~long
  <2>1. SuBody(f, 1, f.smoothing, f.tp, 0) \in Word(38)
    BY SMTT(30), <1>1, SuLayout
  <2>2. ShortBits(f) = Finish48(SuBody(f, 1, f.smoothing, f.tp, 0))
    BY DEF ShortBits, SuBody
  <2>3. QED
    BY <1>3, <2>1, <2>2 DEF SuBodyOf
<1>4. QED
  BY <1>2, <1>3

(* What the receiver reads from a SIG that says f: every field, and the     *)
(* indications of its format.                                              *)
SaysSu(w, f, long) ==
  /\ w \in Word(48) /\ Check48(w) = "ok"
  /\ LET g == SuFieldsIn(w, IF long THEN w[38] ELSE w[37])
     IN /\ g.stbc = f.stbc /\ g.uplink = f.uplink /\ g.bandwidth = f.bandwidth /\ g.nsts = f.nsts
        /\ g.id = f.id /\ g.shortGi = f.shortGi /\ g.ldpc = f.ldpc /\ g.extra = f.extra /\ g.mcs = f.mcs
        /\ g.aggregation = f.aggregation /\ g.length = f.length /\ g.response = f.response
        /\ g.smoothing = (IF long THEN f.beam ELSE f.smoothing) /\ g.beam = g.smoothing
        /\ g.tp = IF long THEN f.tp ELSE w[37]
  /\ long => w[1] = 0 /\ w[38] = f.tp
  /\ ~long => w[38] = 0 /\ w[37] = f.tp

(* The bits of the layout that differ between the formats.                 *)
LEMMA SuEnds ==
  ASSUME NEW f \in SuFieldSet, NEW first \in B, NEW sm \in B, NEW x \in B, NEW y \in B,
         NEW w, w = SuBody(f, first, sm, x, y)
  PROVE  w[1] = first /\ w[37] = x /\ w[38] = y
  BY SMTT(30), SuLayout

(* A sender of this standard sets the reserved bit.                        *)
LEMMA ReservedBitIsOne ==
  ASSUME NEW f \in SuFieldSet, NEW long \in BOOLEAN
  PROVE  SuBodyOf(f, long)[ReservedBit(long)] = 1
<1>1. f.beam \in B /\ f.smoothing \in B /\ f.tp \in B /\ 0 \in B /\ 1 \in B
  BY DEF SuFieldSet, B
<1>2. CASE long
  <2> DEFINE v == SuBody(f, 0, f.beam, 1, f.tp)
  <2>1. v[37] = 1
    <3> DEFINE first == 0
               x == 1
               sm == f.beam
               y == f.tp
    <3>1. first \in B /\ x \in B /\ sm \in B /\ y \in B /\ v = SuBody(f, first, sm, x, y)
      BY <1>1
    <3> HIDE DEF first, x, sm, y, v
    <3>2. v[37] = x
      BY <3>1, SuEnds
    <3>3. QED
      BY <3>2 DEF x
  <2> HIDE DEF v
  <2>2. SuBodyOf(f, long) = v /\ ReservedBit(long) = 37
    BY <1>2 DEF SuBodyOf, ReservedBit, v
  <2>3. QED
    BY <2>1, <2>2
<1>3. CASE ~long
  <2> DEFINE v == SuBody(f, 1, f.smoothing, f.tp, 0)
  <2>1. v[1] = 1
    <3> DEFINE first == 1
               x == f.tp
               sm == f.smoothing
               y == 0
    <3>1. first \in B /\ x \in B /\ sm \in B /\ y \in B /\ v = SuBody(f, first, sm, x, y)
      BY <1>1
    <3> HIDE DEF first, x, sm, y, v
    <3>2. v[1] = first
      BY <3>1, SuEnds
    <3>3. QED
      BY <3>2 DEF first
  <2> HIDE DEF v
  <2>2. SuBodyOf(f, long) = v /\ ReservedBit(long) = 1
    BY <1>3 DEF SuBodyOf, ReservedBit, v
  <2>3. QED
    BY <2>1, <2>2
<1>4. QED
  BY <1>2, <1>3

(* A single-user SIG is read back, but for its reserved bit.               *)
LEMMA SuIsRead ==
  ASSUME NEW f \in SuFieldSet, NEW long \in BOOLEAN, NEW body \in Word(38),
         \A i \in 1 .. 38 : i # ReservedBit(long) => body[i] = SuBodyOf(f, long)[i]
  PROVE  /\ SaysSu(Finish48(body), f, long)
         /\ Finish48(body)[ReservedBit(long)] = body[ReservedBit(long)]
<1> DEFINE w == Finish48(body)
<1>1. w \in Word(48) /\ Check48(w) = "ok" /\ \A i \in 1 .. 38 : w[i] = body[i]
  BY FinishedWord, FinishedIsOk
<1> HIDE DEF w
<1>2. f.beam \in B /\ f.smoothing \in B /\ f.tp \in B /\ 0 \in B /\ 1 \in B
  BY DEF SuFieldSet, B
<1>3. CASE long
  <2> DEFINE v == SuBody(f, 0, f.beam, 1, f.tp)
             g == SuFieldsIn(w, w[38])
  <2>1. \A i \in 1 .. 38 : i # 37 => w[i] = v[i]
    BY <1>1, <1>3 DEF ReservedBit, SuBodyOf
  <2>2. v[1] = 0 /\ v[38] = f.tp
    <3> DEFINE first == 0
               x == 1
               sm == f.beam
               y == f.tp
    <3>1. first \in B /\ x \in B /\ sm \in B /\ y \in B /\ v = SuBody(f, first, sm, x, y)
      BY <1>2
    <3> HIDE DEF first, x, sm, y, v
    <3>2. v[1] = first /\ v[38] = y
      BY <3>1, SuEnds
    <3>3. QED
      BY <3>2 DEF first, y
  <2> HIDE DEF v
  <2>3. w[1] = 0 /\ w[38] = f.tp
    BY <2>1, <2>2
  <2>4. \A i \in 2 .. 36 : w[i] = v[i]
    BY <2>1
  <2>5. /\ g.stbc = f.stbc /\ g.uplink = f.uplink /\ g.bandwidth = f.bandwidth /\ g.nsts = f.nsts
        /\ g.id = f.id /\ g.shortGi = f.shortGi /\ g.ldpc = f.ldpc /\ g.extra = f.extra /\ g.mcs = f.mcs
        /\ g.smoothing = f.beam /\ g.beam = f.beam /\ g.aggregation = f.aggregation /\ g.length = f.length
        /\ g.response = f.response /\ g.tp = w[38]
    <3> DEFINE first == 0
               x == 1
               sm == f.beam
               y == f.tp
               tp == w[38]
    <3>1. first \in B /\ x \in B /\ sm \in B /\ y \in B /\ w \in Word(48)
      BY <1>1, <1>2
    <3>2. \A i \in 2 .. 36 : w[i] = SuBody(f, first, sm, x, y)[i]
      BY <2>4 DEF v
    <3> HIDE DEF first, x, sm, y, tp
    <3>3. QED
      BY <3>1, <3>2, SuReadsBack DEF tp, sm
  <2>6. w[37] = body[37] /\ ReservedBit(long) = 37
    BY <1>1, <1>3 DEF ReservedBit
  <2> HIDE DEF g
  <2>7. SaysSu(w, f, long)
    BY <1>1, <1>3, <2>3, <2>5 DEF SaysSu, g
  <2>8. QED
    BY <2>6, <2>7 DEF w
<1>4. CASE ~long
  <2> DEFINE v == SuBody(f, 1, f.smoothing, f.tp, 0)
             g == SuFieldsIn(w, w[37])
  <2>1. \A i \in 1 .. 38 : i # 1 => w[i] = v[i]
    BY <1>1, <1>4 DEF ReservedBit, SuBodyOf
  <2>2. v[37] = f.tp /\ v[38] = 0
    <3> DEFINE first == 1
               x == f.tp
               sm == f.smoothing
               y == 0
    <3>1. first \in B /\ x \in B /\ sm \in B /\ y \in B /\ v = SuBody(f, first, sm, x, y)
      BY <1>2
    <3> HIDE DEF first, x, sm, y, v
    <3>2. v[37] = x /\ v[38] = y
      BY <3>1, SuEnds
    <3>3. QED
      BY <3>2 DEF x, y
  <2> HIDE DEF v
  <2>3. w[37] = f.tp /\ w[38] = 0
    BY <2>1, <2>2
  <2>4. \A i \in 2 .. 36 : w[i] = v[i]
    BY <2>1
  <2>5. /\ g.stbc = f.stbc /\ g.uplink = f.uplink /\ g.bandwidth = f.bandwidth /\ g.nsts = f.nsts
        /\ g.id = f.id /\ g.shortGi = f.shortGi /\ g.ldpc = f.ldpc /\ g.extra = f.extra /\ g.mcs = f.mcs
        /\ g.smoothing = f.smoothing /\ g.beam = f.smoothing /\ g.aggregation = f.aggregation /\ g.length = f.length
        /\ g.response = f.response /\ g.tp = w[37]
    <3> DEFINE first == 1
               x == f.tp
               sm == f.smoothing
               y == 0
               tp == w[37]
    <3>1. first \in B /\ x \in B /\ sm \in B /\ y \in B /\ w \in Word(48)
      BY <1>1, <1>2
    <3>2. \A i \in 2 .. 36 : w[i] = SuBody(f, first, sm, x, y)[i]
      BY <2>4 DEF v
    <3> HIDE DEF first, x, sm, y, tp
    <3>3. QED
      BY <3>1, <3>2, SuReadsBack DEF tp, sm
  <2>6. w[1] = body[1] /\ ReservedBit(long) = 1
    BY <1>1, <1>4 DEF ReservedBit
  <2> HIDE DEF g
  <2>7. SaysSu(w, f, long)
    BY <1>1, <1>4, <2>3, <2>5 DEF SaysSu, g
  <2>8. QED
    BY <2>6, <2>7 DEF w
<1>5. QED
  BY <1>3, <1>4

(* The fields of a PPDU of ours, from its TXVECTOR.                        *)
LEMMA OwnFieldsAre ==
  ASSUME NEW p, NEW v, NEW n, IsOwn(p, v, n), NEW octets, octets = Octets(v, n),
         NEW g, g = DataGeometry(v.mcs, octets, v.aggregation, v.ldpc),
         NEW f, f = OwnFields(Flat(v), g.length, g.extra)
  PROVE  /\ f \in SuFieldSet
         /\ f.stbc = 0 /\ f.bandwidth = 0 /\ f.nsts = 0 /\ f.mcs = v.mcs /\ f.length = g.length
         /\ f.shortGi = v.shortGi /\ f.ldpc = v.ldpc /\ f.aggregation = v.aggregation
         /\ f.extra = (IF v.ldpc = 1 THEN g.extra ELSE 1)
         /\ f.uplink = v.header.uplink /\ f.response = v.header.response /\ f.tp = v.header.tp
         /\ f.smoothing = v.header.smoothing /\ f.beam = 1 - v.header.smoothing
         /\ SplitId(f.id, f.uplink).paid = v.header.paid
         /\ v.header.uplink = 0 => SplitId(f.id, f.uplink).color = v.header.color
<1>1. IsGeometry(g, v.mcs, octets, v.aggregation, v.ldpc)
  BY OwnGeometry
<1>2. g.length \in 0 .. 511 /\ g.extra \in B
  <2>1. v.aggregation \in B
    BY McssAreValid DEF IsOwn
  <2>2. octets \in Nat /\ g.nSym \in Nat /\ g.extra \in B
    BY <1>1 DEF IsGeometry, B
  <2>6. /\ g.nSym <= 511 /\ (v.aggregation = 0 => octets <= 511)
        /\ g.length = IF v.aggregation = 1 THEN g.nSym ELSE octets
    BY Zenon, <1>1 DEF IsGeometry
  <2>3. CASE v.aggregation = 1
    BY <2>2, <2>3, <2>6
  <2>4. CASE v.aggregation = 0
    BY <2>2, <2>4, <2>6
  <2>5. QED
    BY <2>1, <2>3, <2>4 DEF B
<1>3. v \in TxVectors
  BY DEF IsOwn
<1> DEFINE id == IF v.header.uplink = 1 THEN v.header.paid ELSE v.header.paid * 8 + v.header.color
<1>4. /\ v.mcs \in 0 .. 15 /\ v.shortGi \in B /\ v.ldpc \in B /\ v.aggregation \in B
      /\ v.header.uplink \in B /\ v.header.smoothing \in B /\ v.header.tp \in B /\ v.header.response \in 0 .. 3
      /\ id \in 0 .. 511
      /\ v.header.uplink = 1 => id % 512 = v.header.paid
      /\ v.header.uplink = 0 => id % 8 = v.header.color /\ (id \div 8) % 64 = v.header.paid
  <2>1. /\ v.mcs \in 0 .. 15 /\ v.shortGi \in B /\ v.ldpc \in B /\ v.aggregation \in B
        /\ v.header.uplink \in B /\ v.header.smoothing \in B /\ v.header.tp \in B /\ v.header.response \in 0 .. 3
    BY ZenonT(60), <1>3, McssAreValid
  <2>2. id \in 0 .. 511
    BY <1>3, McssAreValid
  <2>3. v.header.uplink = 1 => id % 512 = v.header.paid
    BY <1>3, McssAreValid
  <2>4. v.header.uplink = 0 => id % 8 = v.header.color /\ (id \div 8) % 64 = v.header.paid
    BY <1>3, McssAreValid
  <2>5. QED
    BY <2>1, <2>2, <2>3, <2>4
<1>5. f = [stbc |-> 0, uplink |-> v.header.uplink, bandwidth |-> 0, nsts |-> 0, id |-> id,
           shortGi |-> v.shortGi, ldpc |-> v.ldpc, extra |-> IF v.ldpc = 1 THEN g.extra ELSE 1,
           mcs |-> v.mcs, smoothing |-> v.header.smoothing, beam |-> 1 - v.header.smoothing,
           aggregation |-> v.aggregation, length |-> g.length, response |-> v.header.response, tp |-> v.header.tp]
  BY DEF OwnFields, BeamChange, Flat, IdOf
<1> HIDE DEF id
<1>6. f \in SuFieldSet
  <2> DEFINE e == IF v.ldpc = 1 THEN g.extra ELSE 1
             beam == 1 - v.header.smoothing
             sm == v.header.smoothing
  <2>1. /\ v.header.uplink \in B /\ id \in 0 .. 511 /\ v.shortGi \in B /\ v.ldpc \in B /\ v.mcs \in 0 .. 15
        /\ v.aggregation \in B /\ g.length \in 0 .. 511
        /\ v.header.response \in 0 .. 3 /\ v.header.tp \in B
    BY Zenon, <1>2, <1>4
  <2>2. e \in B
    BY Zenon, <1>2 DEF B
  <2>3. sm \in B /\ beam = 1 - sm
    BY Zenon, <1>4
  <2> HIDE DEF beam, sm
  <2>4. beam \in B
    BY <2>3 DEF B
  <2>5. 0 \in B /\ 0 \in 0 .. 3
    BY DEF B
  <2> HIDE DEF e
  <2>6. f = [stbc |-> 0, uplink |-> v.header.uplink, bandwidth |-> 0, nsts |-> 0, id |-> id,
             shortGi |-> v.shortGi, ldpc |-> v.ldpc, extra |-> e,
             mcs |-> v.mcs, smoothing |-> sm, beam |-> beam,
             aggregation |-> v.aggregation, length |-> g.length, response |-> v.header.response, tp |-> v.header.tp]
    BY <1>5, Zenon DEF e, beam, sm
  <2> DEFINE up == v.header.uplink
             gi == v.shortGi
             ld == v.ldpc
             mc == v.mcs
             ag == v.aggregation
             len == g.length
             re == v.header.response
             t == v.header.tp
  <2>7. /\ up \in B /\ gi \in B /\ ld \in B /\ mc \in 0 .. 15 /\ ag \in B /\ len \in 0 .. 511 /\ re \in 0 .. 3 /\ t \in B
        /\ id \in 0 .. 511
    BY Zenon, <2>1
  <2>8. f = [stbc |-> 0, uplink |-> up, bandwidth |-> 0, nsts |-> 0, id |-> id, shortGi |-> gi, ldpc |-> ld, extra |-> e,
             mcs |-> mc, smoothing |-> sm, beam |-> beam, aggregation |-> ag, length |-> len, response |-> re, tp |-> t]
    BY Zenon, <2>6
  <2> HIDE DEF up, gi, ld, mc, ag, len, re, t
  <2>9. QED
    BY <2>2, <2>3, <2>4, <2>5, <2>7, <2>8 DEF SuFieldSet
<1>7. f.id = id /\ f.uplink = v.header.uplink
  BY <1>5
<1>8. SplitId(f.id, f.uplink).paid = v.header.paid
  BY <1>4, <1>7 DEF SplitId, B
<1>9. v.header.uplink = 0 => SplitId(f.id, f.uplink).color = v.header.color
  BY <1>4, <1>7 DEF SplitId
<1>10. QED
  BY <1>5, <1>6, <1>8, <1>9

(* The receiver learns what the transmitter used.                          *)
LEMMA OwnIsHeard ==
  ASSUME NEW p, NEW v, NEW n, IsOwn(p, v, n), NEW told, told = ParseSig(p.bits, p.long)
  PROVE  /\ p.kind = "own" /\ p.txv = Flat(v)
         /\ \E body \in Word(38) : p.bits = Finish48(body)
         /\ told.kind = "supported"
         /\ told.rxv.nSym = p.nSym /\ told.rxv.psdu = p.octets /\ told.duration = p.duration
         /\ \A k \in {"mcs", "shortGi", "ldpc", "aggregation", "uplink", "paid", "smoothing", "response", "tp"} :
              told.rxv[k] = p.txv[k]
         /\ p.txv.uplink = 0 => told.rxv.color = p.txv.color
         /\ p.txv.mcs \in ValidMcs /\ p.nInit \in Nat \ {0} /\ p.nSym = p.nInit + told.rxv.extra /\ told.rxv.extra \in B
         /\ p.txv.ldpc = 1 => p.nSym = PpduParams(p.nInit, p.txv.mcs).nSym
<1> DEFINE octets == Octets(v, n)
           g == DataGeometry(v.mcs, octets, v.aggregation, v.ldpc)
           f == OwnFields(Flat(v), g.length, g.extra)
           long == v.long
           body == SuBodyOf(f, long)
           w == Finish48(body)
           h == SuFieldsIn(w, IF long THEN w[38] ELSE w[37])
           sm == IF long THEN (IF h.nsts = 0 /\ h.beam = 0 THEN 1 ELSE 0) ELSE h.smoothing
<1>1. /\ p.kind = "own" /\ p.long = long /\ p.txv = Flat(v) /\ p.octets = octets /\ p.nSym = g.nSym /\ p.nInit = g.nInit
      /\ p.bits = (IF long THEN LongSuBits(f) ELSE ShortBits(f))
      /\ p.duration = PpduDuration(long, 1, v.shortGi = 1, g.nSym)
  BY DEF IsOwn, Build
<1>2. v \in TxVectors /\ long \in BOOLEAN
  BY McssAreValid DEF IsOwn
<1> HIDE DEF octets, g
<1>3. /\ IsGeometry(g, v.mcs, octets, v.aggregation, v.ldpc) /\ octets \in Nat
      /\ v.aggregation = 1 => octets = (g.nInit * NDbps(v.mcs, 1) - Overhead(v.ldpc)) \div 8
  BY OwnGeometry DEF octets, g
<1>4. /\ f \in SuFieldSet
      /\ f.stbc = 0 /\ f.bandwidth = 0 /\ f.nsts = 0 /\ f.mcs = v.mcs /\ f.length = g.length
      /\ f.shortGi = v.shortGi /\ f.ldpc = v.ldpc /\ f.aggregation = v.aggregation
      /\ f.extra = (IF v.ldpc = 1 THEN g.extra ELSE 1)
      /\ f.uplink = v.header.uplink /\ f.response = v.header.response /\ f.tp = v.header.tp
      /\ f.smoothing = v.header.smoothing /\ f.beam = 1 - v.header.smoothing
      /\ SplitId(f.id, f.uplink).paid = v.header.paid
      /\ v.header.uplink = 0 => SplitId(f.id, f.uplink).color = v.header.color
  BY OwnFieldsAre DEF octets, g
<1> HIDE DEF f, long
<1>5. body \in Word(38) /\ p.bits = w
  BY <1>1, <1>2, <1>4, SuBodyOfWord
<1>6. SaysSu(w, f, long) /\ w[ReservedBit(long)] = body[ReservedBit(long)]
  <2> HIDE DEF body
  <2>1. QED
    BY <1>2, <1>4, <1>5, SuIsRead DEF body
<1>7. body[ReservedBit(long)] = 1
  BY <1>2, <1>4, ReservedBitIsOne DEF body
<1>8. w[ReservedBit(long)] = 1 /\ w \in Word(48)
  BY <1>6, <1>7 DEF SaysSu
<1> HIDE DEF body, w
<1>9. /\ h.stbc = f.stbc /\ h.uplink = f.uplink /\ h.bandwidth = f.bandwidth /\ h.nsts = f.nsts
      /\ h.id = f.id /\ h.shortGi = f.shortGi /\ h.ldpc = f.ldpc /\ h.extra = f.extra /\ h.mcs = f.mcs
      /\ h.aggregation = f.aggregation /\ h.length = f.length /\ h.response = f.response
      /\ h.smoothing = (IF long THEN f.beam ELSE f.smoothing) /\ h.beam = h.smoothing /\ h.tp = f.tp
  BY <1>6 DEF SaysSu
<1>10. told = Classify(h, long, sm)
  <2>1. CASE long
    <3>1. Check48(w) = "ok" /\ w[1] = 0 /\ w[37] = 1
      BY <1>6, <1>8, <2>1 DEF SaysSu, ReservedBit
    <3>2. told = ParseLongSu(w)
      BY <1>1, <1>5, <2>1, <3>1 DEF ParseSig, ParseLong
    <3>3. QED
      BY <2>1, <3>1, <3>2 DEF ParseLongSu, LongSuVerdict
  <2>2. CASE ~long
    <3>1. Check48(w) = "ok" /\ w[1] = 1 /\ w[38] = 0
      BY <1>6, <1>8, <2>2 DEF SaysSu, ReservedBit
    <3>2. told = ParseShort(w)
      BY <1>1, <1>5, <2>2 DEF ParseSig
    <3>3. h = SuFieldsIn(w, w[37]) /\ sm = h.smoothing
      BY <2>2
    <3> HIDE DEF h, sm
    <3>4. told = ShortVerdict(h)
      BY <3>1, <3>2, <3>3 DEF ParseShort
    <3>5. long = FALSE
      BY <1>2, <2>2
    <3>6. QED
      BY <3>3, <3>4, <3>5 DEF ShortVerdict
  <2>3. QED
    BY <1>2, <2>1, <2>2
<1>11. sm = v.header.smoothing
  <2>1. v.header.smoothing \in B
    BY <1>2, McssAreValid
  <2>2. QED
    BY <1>4, <1>9, <2>1 DEF B
<1> HIDE DEF h, sm
<1>12. FieldsOfGeometry(h, octets, g)
  <2>1. v.mcs \in ValidMcs /\ v.ldpc \in B /\ v.aggregation \in B
    BY ZenonT(60), <1>2, McssAreValid
  <2>2. QED
    BY <1>3, <1>4, <1>9, <2>1 DEF FieldsOfGeometry
<1>13. /\ told.kind = "supported"
       /\ told.rxv = RxVectorOf(h, long, sm, [nSym |-> g.nSym, psdu |-> octets])
       /\ told.duration = PpduDuration(long, 1, h.shortGi = 1, g.nSym)
  BY <1>10, <1>12, OwnIsSupported
<1>14. told.duration = p.duration
  BY <1>1, <1>4, <1>9, <1>13
<1> DEFINE r == told.rxv
           t == p.txv
<1>15. /\ t.mcs = v.mcs /\ t.shortGi = v.shortGi /\ t.ldpc = v.ldpc /\ t.aggregation = v.aggregation
       /\ t.uplink = v.header.uplink /\ t.paid = v.header.paid /\ t.color = v.header.color
       /\ t.response = v.header.response /\ t.smoothing = v.header.smoothing /\ t.tp = v.header.tp
  BY <1>1 DEF Flat
<1>16. /\ r.nSym = g.nSym /\ r.psdu = octets /\ r.extra = h.ldpc * h.extra
       /\ r.mcs = h.mcs /\ r.shortGi = h.shortGi /\ r.ldpc = h.ldpc /\ r.aggregation = h.aggregation
       /\ r.uplink = h.uplink /\ r.response = h.response /\ r.smoothing = sm /\ r.tp = h.tp
       /\ r.paid = SplitId(h.id, h.uplink).paid /\ r.color = SplitId(h.id, h.uplink).color
  BY <1>13 DEF RxVectorOf
<1>17. /\ r.mcs = t.mcs /\ r.shortGi = t.shortGi /\ r.ldpc = t.ldpc /\ r.aggregation = t.aggregation
       /\ r.uplink = t.uplink /\ r.response = t.response /\ r.smoothing = t.smoothing /\ r.tp = t.tp
       /\ r.paid = t.paid /\ (t.uplink = 0 => r.color = t.color)
  BY <1>4, <1>9, <1>11, <1>15, <1>16
<1>18. r.extra = g.extra /\ g.extra \in B
  <2>1. g.extra \in B /\ (v.ldpc = 0 => g.extra = 0) /\ v.ldpc \in B
    BY <1>2, <1>3, McssAreValid DEF IsGeometry
  <2>2. QED
    BY <1>4, <1>9, <1>16, <2>1 DEF B
<1>19. g.nInit \in Nat \ {0} /\ g.nSym = g.nInit + g.extra /\ (v.ldpc = 1 => g.extra = PpduParams(g.nInit, v.mcs).extra)
  BY <1>3 DEF IsGeometry
<1>20. v.mcs \in ValidMcs
  BY <1>2, McssAreValid
<1>21. v.ldpc = 1 => g.nSym = PpduParams(g.nInit, v.mcs).nSym
  BY <1>19, <1>20, ParamsAreCut DEF IsCut
<1>22. \A k \in {"mcs", "shortGi", "ldpc", "aggregation", "uplink", "paid", "smoothing", "response", "tp"} : r[k] = t[k]
  BY <1>17
<1>23. \E b \in Word(38) : p.bits = Finish48(b)
  BY <1>5 DEF w
<1> HIDE DEF r, t
<1>24. QED
  BY <1>1, <1>13, <1>14, <1>15, <1>16, <1>17, <1>18, <1>19, <1>20, <1>21, <1>22, <1>23 DEF r, t

---------------------------------------------------------------------------
(* The format told by the second SIG symbol.                               *)

(* A bit of the rate-1/2 code is 0 or 1.                                   *)
LEMMA CodedBit ==
  ASSUME NEW w \in Word(48), NEW k \in 7 .. 48, NEW j \in 1 .. 2
  PROVE  EncodePairs(w)[k][j] \in Int
<1> DEFINE x(i) == IF i >= 1 THEN w[i] ELSE 0
           s == 32 * x(k - 1) + 16 * x(k - 2) + 8 * x(k - 3) + 4 * x(k - 4) + 2 * x(k - 5) + x(k - 6)
           b == w[k]
<1>1. w \in [1 .. 48 -> B] /\ Len(w) = 48
  BY DEF Word
<1>2. b \in 0 .. 1 /\ x(k - 1) \in 0 .. 1 /\ x(k - 2) \in 0 .. 1 /\ x(k - 3) \in 0 .. 1 /\ x(k - 4) \in 0 .. 1
      /\ x(k - 5) \in 0 .. 1 /\ x(k - 6) \in 0 .. 1
  BY <1>1 DEF B
<1>3. s \in 0 .. 63
  BY <1>2
<1>4. EncodePairs(w)[k] = BranchOutput[b][s]
  <2> DEFINE y(a) == IF a >= 1 THEN w[a] ELSE 0
             z(a) == 32 * y(a - 1) + 16 * y(a - 2) + 8 * y(a - 3) + 4 * y(a - 4) + 2 * y(a - 5) + y(a - 6)
  <2>1. EncodePairs(w) = [a \in 1 .. 48 |-> BranchOutput[w[a]][z(a)]]
    BY <1>1, Zenon DEF EncodePairs
  <2>2. z(k) = s
    OBVIOUS
  <2> HIDE DEF z, s
  <2>3. QED
    BY <2>1, <2>2
<1> HIDE DEF b, s
<1>5. \A i \in 0 .. 5 : Bit(s, i) \in Nat
  <2>1. ASSUME NEW i \in 0 .. 5 PROVE Bit(s, i) \in Nat
    <3> DEFINE p == 2^i
               q == s \div p
    <3>1. p \in Nat /\ p > 0
      BY PowersOfTwo
    <3> HIDE DEF p
    <3>2. q \in Nat
      BY <1>3, <3>1, DivMod
    <3> HIDE DEF q
    <3>3. q % 2 \in Nat
      BY <3>2
    <3>4. QED
      BY <3>3 DEF Bit, q, p
  <2>2. QED
    BY <2>1
<1> DEFINE l == b + Bit(s, 4) + Bit(s, 3) + Bit(s, 1) + Bit(s, 0)
           r == b + Bit(s, 5) + Bit(s, 4) + Bit(s, 3) + Bit(s, 0)
<1>6. BranchOutput[b][s] = <<l % 2, r % 2>>
  BY <1>2, <1>3 DEF BranchOutput
<1>7. b \in Nat
  BY <1>2 DEF b
<1>8. l \in Nat /\ r \in Nat
  <2>1. Bit(s, 0) \in Nat /\ Bit(s, 1) \in Nat /\ Bit(s, 3) \in Nat /\ Bit(s, 4) \in Nat /\ Bit(s, 5) \in Nat
    BY <1>5
  <2>2. QED
    BY <1>7, <2>1
<1> HIDE DEF l, r
<1>9. l % 2 \in Int /\ r % 2 \in Int
  BY <1>8
<1> DEFINE e == EncodePairs(w)[k]
<1>10. e = <<l % 2, r % 2>>
  BY <1>4, <1>6
<1> HIDE DEF e
<1>11. e[1] \in Int /\ e[2] \in Int
  BY <1>9, <1>10
<1>12. QED
  BY <1>11 DEF e

(* The interleaver of a SIG stays within its 48 tones.                     *)
LEMMA SigFromType ==
  ASSUME NEW t \in 1 .. 48
  PROVE  SigFrom[t] \in 1 .. 48
<1> DEFINE q == (t - 1) \div 3
           r == (t - 1) % 3
           k == 16 * r + q + 1
<1>1. q \in 0 .. 15 /\ r \in 0 .. 2 /\ t - 1 = 3 * q + r
  OBVIOUS
<1> HIDE DEF q, r
<1>2. k \in 1 .. 48 /\ (k - 1) % 16 = q /\ (k - 1) \div 16 = r
  BY <1>1
<1>3. SigPerm(k - 1) = t - 1
  BY <1>1, <1>2 DEF SigPerm
<1>4. \E h \in 1 .. 48 : SigPerm(h - 1) = t - 1
  BY <1>2, <1>3
<1>5. SigFrom[t] = CHOOSE h \in 1 .. 48 : SigPerm(h - 1) = t - 1
  BY DEF SigFrom
<1>6. QED
  BY <1>4, <1>5

(* The second SIG symbol as it arrives through a fade.                     *)
Arrived(bits, long, f) ==
  LET p == SigPoints(bits, long, 1) IN [t \in 1 .. 48 |-> IF SigSubcarriers[t] \in f THEN <<0, 0>> ELSE p[t]]

(* One tone left is enough to tell the format.                             *)
LEMMA FormatIsSeen ==
  ASSUME NEW w \in Word(48), NEW long \in BOOLEAN, NEW f, \E t \in 1 .. 48 : SigSubcarriers[t] \notin f
  PROVE  LooksLong(Arrived(w, long, f)) = long
<1> DEFINE pairs == EncodePairs(w)
           coded == [i \in 1 .. 48 |-> pairs[(24 * 1) + ((i + 1) \div 2)][2 - (i % 2)]]
           tones == InterleaveSig(coded)
           p == SigPoints(w, long, 1)
           a == Arrived(w, long, f)
<1>1. \A i \in 1 .. 48 : coded[i] \in Int
  <2>1. ASSUME NEW i \in 1 .. 48 PROVE coded[i] \in Int
    <3> DEFINE k == (24 * 1) + ((i + 1) \div 2)
               j == 2 - (i % 2)
    <3>1. k \in 7 .. 48 /\ j \in 1 .. 2
      OBVIOUS
    <3>2. coded[i] = pairs[k][j]
      OBVIOUS
    <3> HIDE DEF k, j
    <3>3. QED
      BY <3>1, <3>2, CodedBit
  <2>2. QED
    BY <2>1
<1>2. p = [t \in 1 .. 48 |-> IF Rotated(long, 1) THEN <<0, 2 * tones[t] - 1>> ELSE <<2 * tones[t] - 1, 0>>]
  BY DEF SigPoints
<1> HIDE DEF coded
<1>3. \A t \in 1 .. 48 : tones[t] \in Int
  BY <1>1, SigFromType DEF InterleaveSig
<1> HIDE DEF tones
<1>4. Rotated(long, 1) = ~long
  BY DEF Rotated
<1>5. a = [t \in 1 .. 48 |-> IF SigSubcarriers[t] \in f THEN <<0, 0>> ELSE p[t]]
  BY DEF Arrived
<1> HIDE DEF a, p
<1>6. Len(a) = 48
  BY <1>5
<1> DEFINE I == {t \in 1 .. 48 : a[t][1] # 0}
           Q == {t \in 1 .. 48 : a[t][2] # 0}
<1>7. Energy(a, 1) = Cardinality(I) /\ Energy(a, 2) = Cardinality(Q)
  BY <1>6 DEF Energy
<1>8. IsFiniteSet(I) /\ IsFiniteSet(Q) /\ Cardinality(I) \in Nat /\ Cardinality(Q) \in Nat
  <2> DEFINE lo == 1
             hi == 48
  <2>0. lo \in Int /\ hi \in Int
    OBVIOUS
  <2> HIDE DEF lo, hi
  <2>3. IsFiniteSet(lo .. hi)
    BY <2>0, FS_Interval
  <2>1. IsFiniteSet(1 .. 48)
    BY <2>3 DEF lo, hi
  <2>2. QED
    BY <2>1, FS_Subset, FS_CardinalityType
<1>9. PICK t \in 1 .. 48 : SigSubcarriers[t] \notin f
  OBVIOUS
<1>10. CASE long
  <2>1. Q = {}
    <3>1. ASSUME NEW u \in 1 .. 48 PROVE a[u][2] = 0
      <4>1. a[u] = <<0, 0>> \/ a[u] = <<2 * tones[u] - 1, 0>>
        BY <1>2, <1>4, <1>5, <1>10
      <4>2. QED
        BY <4>1
    <3>2. QED
      BY <3>1
  <2>2. t \in I
    <3>1. a[t] = <<2 * tones[t] - 1, 0>>
      BY <1>2, <1>4, <1>5, <1>9, <1>10
    <3> DEFINE y == 2 * tones[t] - 1
    <3>2. y # 0
      BY <1>3
    <3> HIDE DEF y
    <3>3. a[t] = <<y, 0>>
      BY <3>1 DEF y
    <3>4. a[t][1] # 0
      BY <3>2, <3>3
    <3>5. QED
      BY <3>4
  <2> HIDE DEF I, Q
  <2>3. Cardinality(Q) = 0 /\ Cardinality(I) # 0
    BY <1>8, <2>1, <2>2, FS_EmptySet
  <2>4. Energy(a, 2) < Energy(a, 1)
    BY <1>7, <1>8, <2>3
  <2>5. LooksLong(a) = TRUE
    BY <2>4 DEF LooksLong
  <2>6. long = TRUE
    BY <1>10
  <2>7. QED
    BY <2>5, <2>6 DEF a
<1>11. CASE ~long
  <2>1. I = {}
    <3>1. ASSUME NEW u \in 1 .. 48 PROVE a[u][1] = 0
      <4>1. a[u] = <<0, 0>> \/ a[u] = <<0, 2 * tones[u] - 1>>
        BY <1>2, <1>4, <1>5, <1>11
      <4>2. QED
        BY <4>1
    <3>2. QED
      BY <3>1
  <2> HIDE DEF I, Q
  <2>2. Cardinality(I) = 0
    BY <2>1, FS_EmptySet
  <2>3. QED
    BY <1>7, <1>8, <1>11, <2>2 DEF LooksLong, a
<1>12. QED
  BY <1>10, <1>11 DEF a

---------------------------------------------------------------------------
(* What is on the air, and what a receiver makes of it.                    *)

IsNdp(p) == \E low \in 0 .. 3, high \in {0, 1365, 4095} : p = NdpPpdu(Uint(low, 21) \o Uint(16 * high + 5, 16))

IsOther(p) == \E f \in OtherFields, long \in BOOLEAN, later \in BOOLEAN : p = OtherPpdu(f, long, later)

IsMu(p) == \E f \in MuFields, clear \in {0, 3, 26} : TotalSts(f) > 0 /\ p = MuPpdu(f, clear)

IsPpdu(p) == (\E v \in TxVectors, n \in Lengths : IsOwn(p, v, n)) \/ IsNdp(p) \/ IsOther(p) \/ IsMu(p)

(* w is v with up to four wrong bits that lie together.                    *)
IsBurst(v, w) ==
  /\ w \in Word(48)
  /\ \E at \in 1 .. 48 : v[at] # w[at] /\ \A i \in 1 .. 48 : i \notin at .. at + 3 => v[i] = w[i]

(* A SIG in the air is a sender's or has a burst in it, and a faded one is *)
(* our own; a SIG heard was parsed as the format its second symbol shows.  *)
LinkInv ==
  /\ phase \in {"idle", "sent", "heard"}
  /\ phase = "idle" => ppdu = Nothing /\ faded = {} /\ out = Nothing
  /\ phase = "sent" => ppdu # Nothing
  /\ ppdu # Nothing => IsPpdu(ppdu)
  /\ ppdu # Nothing /\ faded = {} =>
       \/ sig = ppdu.bits
       \/ ppdu.kind \in {"own", "ndp"} /\ IsBurst(ppdu.bits, sig)
  /\ ppdu # Nothing /\ phase = "sent" /\ faded # {} => sig = ppdu.bits
  /\ faded # {} => ppdu # Nothing /\ Coded /\ \E k \in FadeAt : faded = k .. k + FadeWidth[ppdu.txv.mcs] - 1
  /\ phase = "heard" /\ ppdu # Nothing =>
       out = ParseSig(sig, IF faded = {} THEN ppdu.long ELSE LooksLong(Arrived(ppdu.bits, ppdu.long, faded)))

(* The SIG of an NDP.                                                      *)
LEMMA NdpIsFinished ==
  ASSUME NEW p, IsNdp(p)
  PROVE  p.kind = "ndp" /\ p.long = FALSE /\ \E body \in Word(38) : p.bits = Finish48(body)
<1>1. PICK low \in 0 .. 3, high \in {0, 1365, 4095} : p = NdpPpdu(Uint(low, 21) \o Uint(16 * high + 5, 16))
  BY DEF IsNdp
<1> DEFINE x == 16 * high + 5
           a == Uint(low, 21)
           b == Uint(x, 16)
           last == <<1>>
           n21 == 21
           n16 == 16
           n37 == 37
           n1 == 1
           n38 == 38
<1>2. x \in Nat /\ low \in Nat /\ n21 \in 0 .. 21 /\ n16 \in 0 .. 21 /\ n37 = n21 + n16 /\ n38 = n37 + n1 /\ n1 \in Nat /\ n37 \in Nat
  OBVIOUS
<1>3. last \in Word(n1)
  <2>1. last \in [1 .. n1 -> B]
    BY DEF B
  <2> HIDE DEF last, n1
  <2>2. QED
    BY <1>2, <2>1, WordOf
<1> HIDE DEF x, last
<1>4. a = Uint(low, n21) /\ b = Uint(x, n16)
  OBVIOUS
<1> HIDE DEF a, b, n21, n16, n37, n1, n38
<1>5. a \in Word(n21) /\ b \in Word(n16)
  BY <1>2, <1>4, UintWord
<1>6. n21 \in Nat /\ n16 \in Nat
  BY <1>2
<1> DEFINE ab == a \o b
           body == ab \o last
<1>7. ab \in Word(n37)
  BY <1>2, <1>5, <1>6, JoinedWords
<1> HIDE DEF ab
<1>8. body \in Word(n38)
  BY <1>2, <1>3, <1>7, JoinedWords
<1>9. p.bits = Finish48(body) /\ p.kind = "ndp" /\ p.long = FALSE
  BY <1>1 DEF NdpPpdu, NdpBits, ab, a, b, x, last
<1> HIDE DEF body
<1>10. body \in Word(38)
  BY <1>8 DEF n38
<1>11. QED
  BY <1>9, <1>10

(* The invariant holds at the start.                                       *)
LEMMA InitLinkInv == Init => LinkInv
<1>1. ASSUME Init PROVE LinkInv
  BY <1>1 DEF Init, LinkInv
<1>2. QED
  BY <1>1

(* A new PPDU on the air.                                                  *)
LEMMA SentLinkInv ==
  ASSUME LinkInv, phase = "idle", NEW p, IsPpdu(p), p # Nothing, Send(p)
  PROVE  LinkInv'
<1>1. phase' = "sent" /\ ppdu' = p /\ sig' = p.bits /\ faded' = {} /\ out' = out
  BY DEF LinkInv, Send
<1>2. QED
  BY <1>1 DEF LinkInv

(* A burst of wrong bits.                                                  *)
LEMMA BurstMade ==
  ASSUME NEW v \in Word(48), NEW at \in 1 .. 48, NEW rest \in SUBSET (1 .. 3),
         NEW wrong, wrong = ({at} \cup {at + r : r \in rest}) \cap 1 .. 48,
         NEW w, w = [i \in 1 .. 48 |-> IF i \in wrong THEN 1 - v[i] ELSE v[i]]
  PROVE  IsBurst(v, w)
<1>1. \A i \in 1 .. 48 : v[i] \in B
  BY DEF Word
<1>2. \A i \in 1 .. 48 : w[i] \in B
  BY <1>1 DEF B
<1>3. w \in [1 .. 48 -> B]
  BY <1>2
<1>4. w \in Word(48)
  BY <1>3, WordOf
<1>5. at \in wrong
  OBVIOUS
<1>6. v[at] # w[at]
  BY <1>1, <1>5 DEF B
<1>7. \A i \in 1 .. 48 : i \in wrong => i \in at .. at + 3
  OBVIOUS
<1>8. \A i \in 1 .. 48 : i \notin at .. at + 3 => v[i] = w[i]
  BY <1>7
<1>9. QED
  BY <1>4, <1>6, <1>8 DEF IsBurst

(* A SIG sent by us passes its own check.                                  *)
LEMMA SigIsFinished ==
  ASSUME NEW p, (\E v \in TxVectors, n \in Lengths : IsOwn(p, v, n)) \/ IsNdp(p)
  PROVE  /\ \E body \in Word(38) : p.bits = Finish48(body)
         /\ p.bits \in Word(48) /\ Check48(p.bits) = "ok"
<1>1. \E body \in Word(38) : p.bits = Finish48(body)
  <2>1. CASE \E v \in TxVectors, n \in Lengths : IsOwn(p, v, n)
    <3>1. PICK v \in TxVectors, n \in Lengths : IsOwn(p, v, n)
      BY <2>1
    <3> DEFINE out1 == ParseSig(p.bits, p.long)
    <3> HIDE DEF out1
    <3>2. out1 = ParseSig(p.bits, p.long)
      BY DEF out1
    <3>3. QED
      BY <3>1, <3>2, OwnIsHeard
  <2>2. CASE IsNdp(p)
    BY <2>2, NdpIsFinished
  <2>3. QED
    BY <2>1, <2>2
<1>2. QED
  BY <1>1, FinishedWord, FinishedIsOk

(* Only our own PPDUs are of kind own or ndp.                              *)
LEMMA KindOfPpdu ==
  ASSUME NEW p, IsPpdu(p), p.kind \in {"own", "ndp"}
  PROVE  /\ p.kind = "own" => \E v \in TxVectors, n \in Lengths : IsOwn(p, v, n)
         /\ p.kind = "ndp" => IsNdp(p)
<1>1. CASE \E v \in TxVectors, n \in Lengths : IsOwn(p, v, n)
  <2>1. p.kind = "own"
    BY <1>1 DEF IsOwn, Build
  <2>2. QED
    BY <1>1, <2>1
<1>2. CASE IsNdp(p)
  <2>1. p.kind = "ndp"
    BY <1>2, NdpIsFinished
  <2>2. QED
    BY <1>2, <2>1
<1>3. CASE IsOther(p)
  <2>1. p.kind \in {"other", "later"}
    BY <1>3 DEF IsOther, OtherPpdu
  <2>2. QED
    BY <2>1
<1>4. CASE IsMu(p)
  <2>1. p.kind \in {"other", "later"}
    BY <1>4 DEF IsMu, MuPpdu
  <2>2. QED
    BY <2>1
<1>5. QED
  BY <1>1, <1>2, <1>3, <1>4 DEF IsPpdu

(* Every step preserves the invariant.                                     *)
LEMMA NextLinkInv == LinkInv /\ [Next]_vars => LinkInv'
<1> SUFFICES ASSUME LinkInv, [Next]_vars PROVE LinkInv'
  OBVIOUS
<1>1. CASE Transmit
  <2>1. PICK v \in TxVectors, n \in Lengths :
          /\ DataGeometry(v.mcs, Octets(v, n), v.aggregation, v.ldpc).nSym > 0
          /\ Send(Build(v, Octets(v, n)))
    BY <1>1 DEF Transmit
  <2> DEFINE p == Build(v, Octets(v, n))
  <2>2. IsOwn(p, v, n)
    BY <2>1 DEF IsOwn
  <2>3. p.kind = "own"
    BY DEF Build
  <2> HIDE DEF p
  <2>4. IsPpdu(p) /\ p # Nothing
    BY <2>2, <2>3 DEF IsPpdu, Nothing
  <2>5. Send(p) /\ phase = "idle"
    BY <1>1, <2>1 DEF p, Transmit
  <2>6. QED
    BY <2>4, <2>5, SentLinkInv
<1>2. CASE Refuse
  <2>1. phase' = "heard" /\ ppdu' = Nothing /\ faded' = {}
    BY <1>2 DEF Refuse, LinkInv
  <2>2. QED
    BY <2>1 DEF LinkInv
<1>3. CASE TransmitNdp
  <2>1. PICK low \in 0 .. 3, high \in {0, 1365, 4095} : Send(NdpPpdu(Uint(low, 21) \o Uint(16 * high + 5, 16)))
    BY <1>3 DEF TransmitNdp
  <2> DEFINE p == NdpPpdu(Uint(low, 21) \o Uint(16 * high + 5, 16))
  <2>2. IsNdp(p) /\ p.kind = "ndp"
    <3>1. IsNdp(p)
      BY DEF IsNdp
    <3>2. p.kind = "ndp"
      BY DEF NdpPpdu
    <3>3. QED
      BY <3>1, <3>2
  <2> HIDE DEF p
  <2>3. IsPpdu(p) /\ p # Nothing
    BY <2>2 DEF IsPpdu, Nothing
  <2>4. Send(p) /\ phase = "idle"
    BY <1>3, <2>1 DEF p, TransmitNdp
  <2>5. QED
    BY <2>3, <2>4, SentLinkInv
<1>4. CASE OtherSends
  <2>1. PICK f \in OtherFields, long \in BOOLEAN, later \in BOOLEAN : Send(OtherPpdu(f, long, later))
    BY <1>4 DEF OtherSends
  <2> DEFINE p == OtherPpdu(f, long, later)
  <2>2. IsOther(p)
    BY DEF IsOther
  <2>3. p.kind \in {"other", "later"}
    BY DEF OtherPpdu
  <2> HIDE DEF p
  <2>4. IsPpdu(p) /\ p # Nothing
    BY <2>2, <2>3 DEF IsPpdu, Nothing
  <2>5. Send(p) /\ phase = "idle"
    BY <1>4, <2>1 DEF p, OtherSends
  <2>6. QED
    BY <2>4, <2>5, SentLinkInv
<1>5. CASE OtherSendsMu
  <2>1. PICK f \in MuFields, clear \in {0, 3, 26} : TotalSts(f) > 0 /\ Send(MuPpdu(f, clear))
    BY <1>5 DEF OtherSendsMu
  <2> DEFINE p == MuPpdu(f, clear)
  <2>2. IsMu(p)
    BY <2>1 DEF IsMu
  <2>3. p.kind \in {"other", "later"}
    BY DEF MuPpdu
  <2> HIDE DEF p
  <2>4. IsPpdu(p) /\ p # Nothing
    BY <2>2, <2>3 DEF IsPpdu, Nothing
  <2>5. Send(p) /\ phase = "idle"
    BY <1>5, <2>1 DEF p, OtherSendsMu
  <2>6. QED
    BY <2>4, <2>5, SentLinkInv
<1>6. CASE ResidualError
  <2>1. /\ phase = "sent" /\ sig = ppdu.bits /\ faded = {} /\ ppdu # Nothing /\ IsPpdu(ppdu)
        /\ ppdu.kind \in {"own", "ndp"}
        /\ phase' = phase /\ ppdu' = ppdu /\ faded' = faded /\ out' = out
    BY <1>6 DEF ResidualError, LinkInv
  <2>2. ppdu.bits \in Word(48)
    BY <2>1, KindOfPpdu, SigIsFinished
  <2>3. PICK at \in 1 .. 48, rest \in SUBSET (1 .. 3) :
          LET wrong == ({at} \cup {at + r : r \in rest}) \cap 1 .. 48
          IN sig' = [i \in 1 .. 48 |-> IF i \in wrong THEN 1 - sig[i] ELSE sig[i]]
    BY <1>6 DEF ResidualError
  <2> DEFINE wrong == ({at} \cup {at + r : r \in rest}) \cap 1 .. 48
             v == ppdu.bits
  <2>4. sig' = [i \in 1 .. 48 |-> IF i \in wrong THEN 1 - v[i] ELSE v[i]]
    BY <2>1, <2>3
  <2> HIDE DEF v
  <2>5. IsBurst(v, sig')
    BY <2>2, <2>4, BurstMade DEF v
  <2>6. QED
    BY <2>1, <2>5 DEF LinkInv, v
<1>7. CASE Fade
  <2>1. /\ phase = "sent" /\ sig = ppdu.bits /\ Coded /\ ppdu # Nothing /\ IsPpdu(ppdu)
        /\ \E k \in FadeAt : faded' = k .. k + FadeWidth[ppdu.txv.mcs] - 1
        /\ phase' = phase /\ ppdu' = ppdu /\ sig' = sig /\ out' = out
    BY <1>7 DEF Fade, LinkInv
  <2>2. Coded'
    BY <2>1 DEF Coded
  <2>3. QED
    BY <2>1, <2>2 DEF LinkInv
<1>8. CASE Receive
  <2>1. /\ phase = "sent" /\ phase' = "heard" /\ ppdu' = ppdu /\ faded' = faded /\ ppdu # Nothing /\ IsPpdu(ppdu)
    BY <1>8 DEF Receive, LinkInv
  <2>2. Coded' <=> Coded
    BY <2>1 DEF Coded
  <2>3. CASE faded = {}
    <3>1. sig' = sig /\ out' = ParseSig(sig, ppdu.long)
      BY <1>8, <2>3 DEF Receive
    <3>2. QED
      BY <2>1, <2>3, <3>1 DEF LinkInv
  <2>4. CASE faded # {}
    <3>1. Coded
      BY <2>4 DEF LinkInv
    <3> DEFINE tone(n) == LET p == SigPoints(ppdu.bits, ppdu.long, n)
                          IN [t \in 1 .. 48 |-> IF SigSubcarriers[t] \in faded THEN <<0, 0>> ELSE p[t]]
               heard == DecodeSig(tone(0), tone(1), Csi(faded, SigSubcarriers))
    <3>2. sig' = heard.bits /\ out' = ParseSig(heard.bits, heard.long)
      BY <1>8, <2>4, <3>1 DEF Receive
    <3>3. heard.long = LooksLong(tone(1))
      BY DEF DecodeSig
    <3>4. tone(1) = Arrived(ppdu.bits, ppdu.long, faded)
      BY DEF Arrived
    <3> HIDE DEF heard, tone
    <3>5. out' = ParseSig(sig', LooksLong(Arrived(ppdu.bits, ppdu.long, faded)))
      BY <3>2, <3>3, <3>4
    <3>6. QED
      BY <2>1, <2>2, <2>4, <3>5 DEF LinkInv
  <2>5. QED
    BY <2>3, <2>4
<1>9. CASE UNCHANGED vars
  <2>1. phase' = phase /\ ppdu' = ppdu /\ sig' = sig /\ faded' = faded /\ out' = out
    BY <1>9 DEF vars
  <2>2. Coded' <=> Coded
    BY <2>1 DEF Coded
  <2>3. QED
    BY <2>1, <2>2 DEF LinkInv
<1>10. QED
  BY <1>1, <1>2, <1>3, <1>4, <1>5, <1>6, <1>7, <1>8, <1>9 DEF Next

(* The invariant holds in every reachable state.                           *)
LEMMA LinkInvariant == Spec => []LinkInv
<1>1. QED
  BY InitLinkInv, NextLinkInv, PTL DEF Spec

---------------------------------------------------------------------------
(* What a receiver learns.                                                 *)

(* The format is seen whatever the channel does to a PPDU of ours.         *)
LEMMA OwnIsParsed ==
  ASSUME LinkInv, phase = "heard", ppdu # Nothing, ppdu.kind = "own", sig = ppdu.bits
  PROVE  \E v \in TxVectors, n \in Lengths : IsOwn(ppdu, v, n) /\ out = ParseSig(ppdu.bits, ppdu.long)
<1>1. IsPpdu(ppdu)
  BY DEF LinkInv
<1>2. PICK v \in TxVectors, n \in Lengths : IsOwn(ppdu, v, n)
  BY <1>1, KindOfPpdu
<1>3. ppdu.bits \in Word(48)
  BY <1>2, SigIsFinished
<1>4. ppdu.long \in BOOLEAN /\ ppdu.txv.mcs = v.mcs /\ v.mcs \in Mcss
  <2>1. ppdu.long = v.long /\ ppdu.txv = Flat(v)
    BY <1>2 DEF IsOwn, Build
  <2>2. v.long \in BOOLEAN /\ v.mcs \in Mcss
    BY DEF TxVectors
  <2>3. QED
    BY <2>1, <2>2 DEF Flat
<1>5. CASE faded = {}
  BY <1>2, <1>5 DEF LinkInv
<1>6. CASE faded # {}
  <2>1. \E k \in FadeAt : faded = k .. k + FadeWidth[ppdu.txv.mcs] - 1
    BY <1>6 DEF LinkInv
  <2>2. \E t \in 1 .. 48 : SigSubcarriers[t] \notin faded
    BY <1>4, <2>1, FadeAssumption
  <2>3. LooksLong(Arrived(ppdu.bits, ppdu.long, faded)) = ppdu.long
    BY <1>3, <1>4, <2>2, FormatIsSeen
  <2>4. out = ParseSig(ppdu.bits, ppdu.long)
    BY <1>6, <2>3 DEF LinkInv
  <2>5. QED
    BY <1>2, <2>4
<1>7. QED
  BY <1>5, <1>6

(* Whatever TXVECTOR and PSDU the MAC hands over, the receiver of the      *)
(* intact SIG learns the symbol count, length, addressing and air time     *)
(* that the transmitter used (tx.rs against sig.rs), for every table of    *)
(* MCSs and every length; also through a fade.                             *)
THEOREM OwnPpduIsUnderstoodAlways == Spec => []OwnPpduIsUnderstood
<1>1. LinkInv => OwnPpduIsUnderstood
  <2>1. SUFFICES ASSUME LinkInv, Heard({"own"}), Clean
                 PROVE  /\ out.kind = "supported"
                        /\ out.rxv.nSym = ppdu.nSym /\ out.rxv.psdu = ppdu.octets
                        /\ out.duration = ppdu.duration
                        /\ \A n \in {"mcs", "shortGi", "ldpc", "aggregation", "uplink", "paid", "smoothing", "response", "tp"} :
                             out.rxv[n] = ppdu.txv[n]
                        /\ ppdu.txv.uplink = 0 => out.rxv.color = ppdu.txv.color
    BY DEF OwnPpduIsUnderstood
  <2>2. PICK v \in TxVectors, n \in Lengths : IsOwn(ppdu, v, n) /\ out = ParseSig(ppdu.bits, ppdu.long)
    BY <2>1, OwnIsParsed DEF Heard, Clean
  <2>3. QED
    BY <2>2, OwnIsHeard
<1>2. QED
  BY <1>1, LinkInvariant, PTL

(* A burst of up to four wrong bits in a SIG is caught by its CRC or tail, *)
(* in every SIG a station of ours can send (check_48).                     *)
THEOREM DamagedSigIsRefusedAlways == Spec => []DamagedSigIsRefused
<1>1. LinkInv => DamagedSigIsRefused
  <2>1. SUFFICES ASSUME LinkInv, phase = "heard", ppdu # Nothing, faded = {}, ~Clean
                 PROVE  out.kind \in {"crc", "tail"}
    BY DEF DamagedSigIsRefused
  <2>2. IsPpdu(ppdu) /\ ppdu.kind \in {"own", "ndp"} /\ IsBurst(ppdu.bits, sig) /\ out = ParseSig(sig, ppdu.long)
    BY <2>1 DEF LinkInv, Clean
  <2>3. ppdu.bits \in Word(48) /\ Check48(ppdu.bits) = "ok"
    BY <2>2, KindOfPpdu, SigIsFinished
  <2>4. PICK at \in 1 .. 48 :
          ppdu.bits[at] # sig[at] /\ \A i \in 1 .. 48 : i \notin at .. at + 3 => ppdu.bits[i] = sig[i]
    BY <2>2 DEF IsBurst
  <2>5. sig \in Word(48)
    BY <2>2 DEF IsBurst
  <2>6. Check48(sig) \in {"crc", "tail"}
    BY <2>3, <2>4, <2>5, BurstIsCaught
  <2>7. out = Failed(Check48(sig))
    BY <2>2, <2>6 DEF ParseSig, ParseLong, ParseShort
  <2>8. QED
    BY <2>6, <2>7 DEF Failed
<1>2. QED
  BY <1>1, LinkInvariant, PTL

(* The decoder finds the encoder's parameters, its codewords take up all   *)
(* the coded bits and carry all the data bits, and each bit goes where it  *)
(* came from (PpduParams, demap against encode).                           *)
THEOREM LdpcBitsFindTheirPlaceAlways == Spec => []LdpcBitsFindTheirPlace
<1>1. LinkInv => LdpcBitsFindTheirPlace
  <2> DEFINE p == DecoderParams(out.rxv)
  <2>1. SUFFICES ASSUME LinkInv, Heard({"own"}), Clean, ppdu.txv.ldpc = 1
                 PROVE  /\ p = PpduParams(ppdu.nInit, ppdu.txv.mcs) /\ p.nSym = ppdu.nSym
                        /\ TotalOf([j \in 0 .. p.nCw - 1 |-> TxLen(p, j)], p.nCw) = p.avbits
                        /\ TotalOf([j \in 0 .. p.nCw - 1 |-> InfoBits(p, j)], p.nCw) = p.pld
                        /\ \A j \in {0, p.nCw - 1} :
                             /\ HeardPositions(p, j) = SentPositions(p, j)
                             /\ ParityBits(p, j) >= 0 /\ Len(SentPositions(p, j)) = TxLen(p, j)
    BY DEF LdpcBitsFindTheirPlace
  <2>2. PICK v \in TxVectors, n \in Lengths : IsOwn(ppdu, v, n) /\ out = ParseSig(ppdu.bits, ppdu.long)
    BY <2>1, OwnIsParsed DEF Heard, Clean
  <2> DEFINE q == PpduParams(ppdu.nInit, ppdu.txv.mcs)
             r == out.rxv
  <2>3. /\ r.nSym = ppdu.nSym /\ r.mcs = ppdu.txv.mcs
        /\ ppdu.txv.mcs \in ValidMcs /\ ppdu.nInit \in Nat \ {0} /\ ppdu.nSym = ppdu.nInit + r.extra /\ r.extra \in B
        /\ ppdu.nSym = q.nSym
    BY <2>1, <2>2, OwnIsHeard
  <2>4. MaxOf(Minus(r.nSym, r.extra), 1) = ppdu.nInit
    BY <2>3 DEF MaxOf, Minus, B
  <2>5. p = q
    BY <2>3, <2>4 DEF DecoderParams
  <2>6. \E m, c : IsCut(q, m, c)
    BY <2>3, ParamsAreCut
  <2> HIDE DEF q, r
  <2>7. PICK m, c : IsCut(q, m, c)
    BY <2>6
  <2>8. /\ TotalOf([j \in 0 .. q.nCw - 1 |-> TxLen(q, j)], q.nCw) = q.avbits
        /\ TotalOf([j \in 0 .. q.nCw - 1 |-> InfoBits(q, j)], q.nCw) = q.pld
    BY <2>7, CodewordsAddUp
  <2>9. ASSUME NEW j \in {0, q.nCw - 1}
        PROVE  /\ HeardPositions(q, j) = SentPositions(q, j)
               /\ ParityBits(q, j) >= 0 /\ Len(SentPositions(q, j)) = TxLen(q, j)
    <3>1. j \in 0 .. q.nCw - 1
      BY <2>7 DEF IsCut
    <3>2. HeardPositions(q, j) = SentPositions(q, j) /\ Len(SentPositions(q, j)) = TxLen(q, j)
      BY <2>7, <3>1, PositionsAgree
    <3>3. ParityBits(q, j) \in Nat
      BY <2>7, <3>1, CodewordParts
    <3>4. QED
      BY <3>2, <3>3
  <2> HIDE DEF p
  <2>10. p = q /\ q = PpduParams(ppdu.nInit, ppdu.txv.mcs) /\ ppdu.nSym = q.nSym
    BY <2>3, <2>5 DEF q
  <2>11. QED
    BY <2>8, <2>9, <2>10
<1>2. QED
  BY <1>1, LinkInvariant, PTL

---------------------------------------------------------------------------
(* The air time of PPDUs that are not ours.                                *)

(* A symbol of another station's MCS carries at least 26 bits.             *)
LEMMA OtherDbps ==
  ASSUME NEW mcs \in {0, 9, 13}, NEW n_ss \in 1 .. 4, NDbps(mcs, n_ss) # 0
  PROVE  NDbps(mcs, n_ss) \in Nat /\ NDbps(mcs, n_ss) >= 26
<1>1. n_ss \in {1, 2, 3, 4}
  OBVIOUS
<1>2. CASE mcs = 0
  BY <1>1, <1>2, RowsOfTable DEF NDbps, N_SD, Mcs
<1>3. CASE mcs = 9
  BY <1>1, <1>3, RowsOfTable DEF NDbps, N_SD, Mcs
<1>4. CASE mcs = 13
  BY <1>1, <1>4, RowsOfTable DEF NDbps
<1>5. QED
  BY <1>2, <1>3, <1>4

(* The fewest symbols that hold the bits, chosen and computed.             *)
Fewest(bits, x) == CHOOSE k \in 1 .. 512 : k * x >= bits /\ ~((k - 1) * x >= bits)

(* The fewest symbols that hold the bits, as the receiver computes it.     *)
LEMMA FewestIsCeilDiv ==
  ASSUME NEW bits \in Nat, bits > 0, bits <= 4102, NEW x \in Nat, x >= 26
  PROVE  Fewest(bits, x) = CeilDiv(bits, x)
<1> DEFINE c == CeilDiv(bits, x)
<1>1. bits \in Nat \ {0} /\ x \in Nat \ {0}
  OBVIOUS
<1>2. c \in Nat /\ c > 0 /\ c * x >= bits /\ (c - 1) * x < bits
  BY <1>1, CeilDivBounds
<1> HIDE DEF c
<1>3. c <= 512
  <2>1. SUFFICES ASSUME c > 512 PROVE FALSE
    BY <1>2
  <2>2. c - 1 \in Nat /\ c - 1 >= 512
    BY <1>2, <2>1
  <2>3. (c - 1) * x >= 512 * 26
    <3> DEFINE k == c - 1
    <3>1. \A i \in Nat, j \in Nat : i >= 512 /\ j >= 26 => i * j >= 512 * 26
      OBVIOUS
    <3> HIDE DEF k
    <3>2. QED
      BY <2>2, <3>1 DEF k
  <2> DEFINE y == (c - 1) * x
  <2>4. y < bits /\ y >= 512 * 26 /\ y \in Int
    BY <1>2, <2>3
  <2> HIDE DEF y
  <2>5. QED
    BY <2>4
<1>4. c \in 1 .. 512 /\ c * x >= bits /\ ~((c - 1) * x >= bits)
  <2>1. (c - 1) * x \in Int
    BY <1>2
  <2>2. QED
    BY <1>2, <1>3, <2>1
<1>5. ASSUME NEW k \in 1 .. 512, k * x >= bits, ~((k - 1) * x >= bits)
      PROVE  k = c
  <2>1. (k - 1) * x \in Int
    OBVIOUS
  <2>2. (k - 1) * x < bits /\ k \in Nat
    BY <1>5, <2>1
  <2>3. QED
    BY <1>1, <1>5, <2>2, CeilDivIs DEF c
<1>6. QED
  BY <1>4, <1>5 DEF c, Fewest

OtherFieldsAssumed(f) ==
  /\ f.stbc \in B /\ f.nsts \in 0 .. 3 /\ f.mcs \in {0, 9, 13} /\ f.ldpc \in B /\ f.extra \in B
  /\ f.aggregation \in B /\ f.length \in 0 .. 511

(* A number n of symbols is the one the fields tell.                       *)
Tell(f, n, n_sts, n_ss, d) ==
  /\ n_ss \in 1 .. 4 /\ n_sts \in 1 .. 4 /\ d # 0 /\ ~(f.stbc = 1 /\ n_sts % 2 = 1)
  /\ f.aggregation = 1 => n = f.length
  /\ f.aggregation = 0 => DataFieldGeometry(f.length, FALSE, f.ldpc = 1, f.extra = 1, f.stbc = 1, d).nSym = n
  /\ DataFieldGeometry(f.length, f.aggregation = 1, f.ldpc = 1, f.extra = 1, f.stbc = 1, d).nSym = n

(* The receiver tells another station's symbols from its fields.           *)
LEMMA SymbolsAgree ==
  ASSUME NEW f, OtherFieldsAssumed(f), NEW n, n = OtherSymbols(f), n # 0,
         NEW n_sts, n_sts = f.nsts + 1,
         NEW n_ss, n_ss = (IF f.stbc = 1 THEN n_sts \div 2 ELSE n_sts), NEW d, d = NDbps(f.mcs, n_ss)
  PROVE  Tell(f, n, n_sts, n_ss, d)
<1> DEFINE s == IF f.stbc = 1 THEN (f.nsts + 1) \div 2 ELSE f.nsts + 1
           m == f.stbc + 1
           more == IF f.ldpc = 1 /\ f.extra = 1 THEN m ELSE 0
           bits == 8 * f.length + 8 + 6 * (1 - f.ldpc)
           x == m * d
           fewest == CHOOSE k \in 1 .. 512 : k * m * d >= bits /\ ~((k - 1) * m * d >= bits)
<1>1. /\ f.stbc \in B /\ f.nsts \in 0 .. 3 /\ f.mcs \in {0, 9, 13} /\ f.ldpc \in B /\ f.extra \in B
      /\ f.aggregation \in B /\ f.length \in 0 .. 511
  BY DEF OtherFieldsAssumed
<1>2. s = n_ss
  OBVIOUS
<1>3. n = IF f.length = 0 \/ (f.stbc = 1 /\ f.nsts % 2 = 0) \/ d = 0 THEN 0
          ELSE IF f.aggregation = 1 THEN (IF f.length > more THEN f.length ELSE 0)
          ELSE m * fewest + more
  BY <1>2 DEF OtherSymbols
<1>4. /\ f.length # 0 /\ ~(f.stbc = 1 /\ f.nsts % 2 = 0) /\ d # 0
      /\ f.aggregation = 1 => f.length > more /\ n = f.length
      /\ f.aggregation # 1 => n = m * fewest + more
  BY <1>3
<1> HIDE DEF fewest
<1>5. n_ss \in 1 .. 4 /\ n_sts \in 1 .. 4 /\ ~(f.stbc = 1 /\ n_sts % 2 = 1)
  BY <1>1, <1>4 DEF B
<1>6. d \in Nat /\ d >= 26
  BY <1>1, <1>4, <1>5, OtherDbps
<1>7. m \in {1, 2} /\ m = (IF f.stbc = 1 THEN 2 ELSE 1) /\ more \in 0 .. 2
  BY <1>1 DEF B
<1>8. bits \in Nat /\ bits > 0 /\ bits <= 4102 /\ bits = 8 * f.length + (N_SERVICE + (IF f.ldpc = 1 THEN 0 ELSE N_TAIL))
  <2> DEFINE l == f.length
             o == N_SERVICE + (IF f.ldpc = 1 THEN 0 ELSE N_TAIL)
             e == 8 + 6 * (1 - f.ldpc)
  <2>1. l \in Nat /\ l > 0 /\ l <= 511
    BY SMTT(30), <1>1, <1>4
  <2>2. o = e /\ e \in Nat /\ e <= 14 /\ e >= 8
    <3>1. f.ldpc = 0 \/ f.ldpc = 1
      BY <1>1 DEF B
    <3>2. QED
      BY <3>1 DEF N_SERVICE, N_TAIL
  <2>3. bits = 8 * l + e
    <3> DEFINE y == 6 * (1 - f.ldpc)
    <3>1. y \in Int
      BY <1>1 DEF B
    <3>2. bits = 8 * l + 8 + y /\ e = 8 + y
      OBVIOUS
    <3> HIDE DEF y, bits, l, e
    <3>3. QED
      BY <2>1, <3>1, <3>2
  <2> HIDE DEF l, e, o, bits
  <2>4. bits \in Nat /\ bits > 0 /\ bits <= 4102 /\ bits = 8 * l + o
    BY <2>1, <2>2, <2>3
  <2>5. QED
    BY <2>4 DEF l, o
<1>9. x \in Nat /\ x >= 26
  BY <1>6, <1>7
<1>10. fewest = CeilDiv(bits, x)
  <2>1. ASSUME NEW k \in 1 .. 512 PROVE k * m * d = k * x /\ (k - 1) * m * d = (k - 1) * x
    BY <1>6, <1>7
  <2> HIDE DEF x, bits
  <2>2. fewest = Fewest(bits, x)
    BY ZenonT(60), <2>1 DEF fewest, Fewest
  <2>3. QED
    BY <1>8, <1>9, <2>2, FewestIsCeilDiv
<1>11. CASE f.aggregation = 1
  <2>1. n = f.length /\ f.length > more
    BY <1>4, <1>11
  <2>2. DataFieldGeometry(f.length, f.aggregation = 1, f.ldpc = 1, f.extra = 1, f.stbc = 1, d).nSym = f.length
    BY SMTT(30), <1>1, <1>4, <1>7, <1>11, <2>1 DEF DataFieldGeometry
  <2>3. QED
    BY <1>4, <1>5, <1>11, <2>1, <2>2 DEF Tell
<1>12. CASE f.aggregation = 0
  <2> DEFINE o == N_SERVICE + (IF f.ldpc = 1 THEN 0 ELSE N_TAIL)
             y == 8 * f.length + o
             m1 == IF f.stbc = 1 THEN 2 ELSE 1
             more1 == IF f.ldpc = 1 /\ f.extra = 1 THEN m1 ELSE 0
             g == [nSym |-> m1 * CeilDiv(y, m1 * d) + more1, psdu |-> f.length]
  <2>1. y = bits /\ m1 = m /\ more1 = more
    BY <1>7, <1>8
  <2>2. n = m1 * CeilDiv(y, m1 * d) + more1
    BY <1>4, <1>10, <1>12, <2>1
  <2>3. DataFieldGeometry(f.length, FALSE, f.ldpc = 1, f.extra = 1, f.stbc = 1, d) = g
    BY <1>1, <1>4 DEF DataFieldGeometry
  <2>4. DataFieldGeometry(f.length, f.aggregation = 1, f.ldpc = 1, f.extra = 1, f.stbc = 1, d) = g
    BY <1>1, <1>4, <1>12 DEF DataFieldGeometry
  <2> HIDE DEF y, m1, more1
  <2>5. g.nSym = n
    BY <2>2
  <2> HIDE DEF g
  <2>6. QED
    BY <1>4, <1>5, <1>12, <2>3, <2>4, <2>5 DEF Tell
<1>13. QED
  BY <1>1, <1>11, <1>12 DEF B

(* h says what f does of the length of a PPDU.                             *)
SameTiming(h, f) ==
  /\ h.stbc = f.stbc /\ h.nsts = f.nsts /\ h.mcs = f.mcs /\ h.ldpc = f.ldpc /\ h.extra = f.extra
  /\ h.aggregation = f.aggregation /\ h.length = f.length /\ h.shortGi = f.shortGi

(* And so its air time, whatever the verdict.                              *)
LEMMA OtherIsTimed ==
  ASSUME NEW f, OtherFieldsAssumed(f), NEW n, n = OtherSymbols(f), n # 0, NEW h, SameTiming(h, f),
         NEW long, NEW sm
  PROVE  /\ SuDuration(h, long) = PpduDuration(long, f.nsts + 1, f.shortGi = 1, n)
         /\ Classify(h, long, sm).duration = PpduDuration(long, f.nsts + 1, f.shortGi = 1, n)
<1> DEFINE n_sts == h.nsts + 1
           n_ss == IF h.stbc = 1 THEN n_sts \div 2 ELSE n_sts
           d == NDbps(h.mcs, n_ss)
           g == DataFieldGeometry(h.length, h.aggregation = 1, h.ldpc = 1, h.extra = 1, h.stbc = 1, d)
           g0 == DataFieldGeometry(h.length, FALSE, h.ldpc = 1, h.extra = 1, h.stbc = 1, d)
           told == PpduDuration(long, n_sts, h.shortGi = 1, n)
<1>1. /\ h.stbc = f.stbc /\ h.nsts = f.nsts /\ h.mcs = f.mcs /\ h.ldpc = f.ldpc /\ h.extra = f.extra
      /\ h.aggregation = f.aggregation /\ h.length = f.length /\ h.shortGi = f.shortGi
      /\ h.aggregation \in B
  BY DEF SameTiming, OtherFieldsAssumed
<1>2. /\ n_ss \in 1 .. 4 /\ n_sts \in 1 .. 4 /\ d # 0
      /\ h.aggregation = 1 => n = h.length
      /\ h.aggregation = 0 => g0.nSym = n
      /\ g.nSym = n
  <2> DEFINE a == f.nsts + 1
             b == IF f.stbc = 1 THEN a \div 2 ELSE a
             c == NDbps(f.mcs, b)
  <2>1. a = n_sts /\ b = n_ss /\ c = d
    BY <1>1
  <2> HIDE DEF a, b, c, n_sts, n_ss, d
  <2>2. Tell(f, n, a, b, c)
    BY SymbolsAgree DEF a, b, c
  <2>3. QED
    BY <1>1, <2>1, <2>2 DEF Tell
<1>3. told = PpduDuration(long, f.nsts + 1, f.shortGi = 1, n)
  BY <1>1
<1>4. SuDuration(h, long) = told
  <2> DEFINE s == IF h.stbc = 1 THEN MaxOf(n_sts \div 2, 1) ELSE MaxOf(n_sts, 1)
             e == NDbps(h.mcs, s)
             nSym == IF h.aggregation = 1 THEN h.length
                     ELSE IF e = 0 THEN 0
                     ELSE DataFieldGeometry(h.length, FALSE, h.ldpc = 1, h.extra = 1, h.stbc = 1, e).nSym
  <2>1. s = n_ss /\ MaxOf(n_sts, 1) = n_sts
    BY <1>2 DEF MaxOf
  <2>2. e = d
    BY <2>1
  <2>3. SuDuration(h, long) = IF nSym = 0 THEN NotKnown ELSE PpduDuration(long, MaxOf(n_sts, 1), h.shortGi = 1, nSym)
    BY DEF SuDuration, DurationFromFields
  <2> HIDE DEF n_sts, n_ss, d, s
  <2>4. nSym = n
    BY <1>1, <1>2, <2>2 DEF B
  <2> HIDE DEF nSym
  <2>5. QED
    BY <2>1, <2>3, <2>4
<1>5. Classify(h, long, sm).duration = told
  <2> DEFINE reserved == \/ h.stbc = 1 /\ n_sts % 2 = 1
                         \/ h.ldpc = 0 /\ h.extra = 0
                         \/ d = 0
             ours == h.bandwidth = 0 /\ h.stbc = 0 /\ n_sts = 1 /\ h.mcs \in ValidMcs
  <2>1. Classify(h, long, sm)
          = IF reserved \/ g.nSym = 0 THEN Reserved(SuDuration(h, long))
            ELSE [kind |-> IF ours THEN "supported" ELSE "unsupported",
                  rxv |-> RxVectorOf(h, long, sm, g),
                  duration |-> PpduDuration(long, n_sts, h.shortGi = 1, g.nSym)]
    BY DEF Classify
  <2> HIDE DEF reserved, ours, n_sts, n_ss, d, g
  <2>2. CASE reserved \/ g.nSym = 0
    BY <1>4, <2>1, <2>2 DEF Reserved
  <2>3. CASE ~(reserved \/ g.nSym = 0)
    BY <1>2, <2>1, <2>3
  <2>4. QED
    BY <2>2, <2>3
<1>6. QED
  BY <1>3, <1>4, <1>5

(* What a receiver makes of a single-user SIG it reads.                    *)
LEMMA SuVerdict ==
  ASSUME NEW w, NEW f, NEW long \in BOOLEAN, SaysSu(w, f, long), NEW out1, out1 = ParseSig(w, long),
         NEW h, h = SuFieldsIn(w, IF long THEN w[38] ELSE w[37]),
         NEW sm, sm = (IF long THEN (IF h.nsts = 0 /\ h.beam = 0 THEN 1 ELSE 0) ELSE h.smoothing)
  PROVE  /\ w[ReservedBit(long)] = 1 => out1 = Classify(h, long, sm)
         /\ w[ReservedBit(long)] # 1 => out1 = Reserved(SuDuration(h, long))
<1>1. CASE long
  <2>1. Check48(w) = "ok" /\ w[1] = 0 /\ ReservedBit(long) = 37
    BY <1>1 DEF SaysSu, ReservedBit
  <2>2. out1 = ParseLongSu(w)
    BY <1>1, <2>1 DEF ParseSig, ParseLong
  <2>3. long = TRUE /\ h = SuFieldsIn(w, w[38])
    BY <1>1
  <2>4. out1 = IF w[37] # 1 THEN Reserved(SuDuration(h, TRUE)) ELSE LongSuVerdict(h)
    BY <2>2, <2>3 DEF ParseLongSu
  <2>5. LongSuVerdict(h) = Classify(h, TRUE, sm)
    BY <1>1 DEF LongSuVerdict
  <2>6. QED
    BY <2>1, <2>3, <2>4, <2>5
<1>2. CASE ~long
  <2>1. Check48(w) = "ok" /\ w[38] = 0 /\ ReservedBit(long) = 1
    BY <1>2 DEF SaysSu, ReservedBit
  <2>2. out1 = ParseShort(w)
    BY <1>2 DEF ParseSig
  <2>3. long = FALSE /\ h = SuFieldsIn(w, w[37]) /\ sm = h.smoothing
    BY <1>2
  <2>4. out1 = IF w[1] # 1 THEN Reserved(SuDuration(h, FALSE)) ELSE ShortVerdict(h)
    BY <2>1, <2>2, <2>3 DEF ParseShort
  <2>5. ShortVerdict(h) = Classify(h, FALSE, sm)
    BY <2>3 DEF ShortVerdict
  <2>6. QED
    BY <2>1, <2>3, <2>4, <2>5
<1>3. QED
  BY <1>1, <1>2

(* The sender of a later standard clears a bit and finishes the SIG anew.  *)
IsCleared(cleared, body, r) ==
  /\ cleared \in Word(38) /\ cleared[r] = 0 /\ \A i \in 1 .. 38 : i # r => cleared[i] = body[i]
  /\ WithBitCleared(Finish48(body), r) = Finish48(cleared)

(* A SIG with one bit cleared.                                             *)
LEMMA ClearedSig ==
  ASSUME NEW body \in Word(38), NEW r \in 1 .. 38, NEW cleared, cleared = [body EXCEPT ![r] = 0]
  PROVE  IsCleared(cleared, body, r)
<1>1. body \in [1 .. 38 -> B]
  BY DEF Word
<1>2. cleared \in [1 .. 38 -> B]
  BY <1>1 DEF B
<1>3. cleared \in Word(38)
  BY <1>2, WordOf
<1>4. cleared[r] = 0 /\ \A i \in 1 .. 38 : i # r => cleared[i] = body[i]
  BY <1>1
<1>5. SubSeq(Finish48(body), 1, 38) = body
  BY FinishedIsOk
<1>6. WithBitCleared(Finish48(body), r) = Finish48(cleared)
  BY <1>5 DEF WithBitCleared
<1>7. QED
  BY <1>3, <1>4, <1>6 DEF IsCleared

(* The duration told of another station's single-user PPDU is its air   *)
(* time.                                                                   *)
LEMMA OtherIsHeard ==
  ASSUME NEW p, IsOther(p), NEW out1, out1 = ParseSig(p.bits, p.long), p.duration # NotKnown
  PROVE  out1.duration = p.duration
<1>1. PICK f \in OtherFields, long \in BOOLEAN, later \in BOOLEAN : p = OtherPpdu(f, long, later)
  BY DEF IsOther
<1> DEFINE first == IF long THEN LongSuBits(f) ELSE ShortBits(f)
           r == ReservedBit(long)
           n == OtherSymbols(f)
           body0 == SuBodyOf(f, long)
           body == IF later THEN [body0 EXCEPT ![r] = 0] ELSE body0
           w == Finish48(body)
           told == PpduDuration(long, f.nsts + 1, f.shortGi = 1, n)
<1>2. /\ p.long = long /\ p.bits = (IF later THEN WithBitCleared(first, r) ELSE first)
      /\ n # 0 /\ p.duration = told
  BY <1>1 DEF OtherPpdu
<1> HIDE DEF n
<1>3. f \in SuFieldSet /\ OtherFieldsAssumed(f)
  <2>1. f.length \in 0 .. 511
    BY ZenonT(60), MapsAssumption DEF OtherFields
  <2>2. f \in SuFieldSet
    BY <2>1 DEF OtherFields, SuFieldSet, B
  <2>3. f.mcs \in {0, 9, 13}
    BY DEF OtherFields
  <2>4. OtherFieldsAssumed(f)
    BY <2>2, <2>3 DEF SuFieldSet, OtherFieldsAssumed
  <2>5. QED
    BY <2>2, <2>4
<1>4. body0 \in Word(38) /\ Finish48(body0) = first
  BY <1>3, SuBodyOfWord
<1>5. r \in 1 .. 38
  BY DEF ReservedBit
<1> HIDE DEF first, body0, r
<1>6. /\ body \in Word(38) /\ p.bits = w
      /\ \A i \in 1 .. 38 : i # r => body[i] = body0[i]
  <2>1. CASE later
    <3>1. body = [body0 EXCEPT ![r] = 0]
      BY <2>1
    <3> HIDE DEF body
    <3>2. IsCleared(body, body0, r)
      BY <1>4, <1>5, <3>1, ClearedSig
    <3>3. QED
      BY <1>2, <1>4, <2>1, <3>2 DEF IsCleared
  <2>2. CASE ~later
    BY <1>2, <1>4, <2>2
  <2>3. QED
    BY <2>1, <2>2
<1> HIDE DEF body
<1>7. SaysSu(w, f, long)
  BY <1>3, <1>6, SuIsRead DEF r, body0
<1> DEFINE h == SuFieldsIn(w, IF long THEN w[38] ELSE w[37])
           sm == IF long THEN (IF h.nsts = 0 /\ h.beam = 0 THEN 1 ELSE 0) ELSE h.smoothing
<1> HIDE DEF w
<1>8. SameTiming(h, f)
  BY <1>7 DEF SaysSu, SameTiming
<1>9. \/ out1 = Classify(h, long, sm)
      \/ out1 = Reserved(SuDuration(h, long))
  <2>1. out1 = ParseSig(w, long)
    BY <1>2, <1>6
  <2> HIDE DEF h, sm
  <2>2. QED
    BY <1>7, <2>1, SuVerdict DEF h, sm
<1> HIDE DEF h, sm
<1>10. SuDuration(h, long) = told /\ Classify(h, long, sm).duration = told
  BY <1>2, <1>3, <1>8, OtherIsTimed DEF n
<1>11. QED
  BY <1>2, <1>9, <1>10 DEF Reserved

---------------------------------------------------------------------------
(* Multi-user PPDUs.                                                       *)

(* Coding bits of the four users: 1 for one without streams.               *)
MuCoding(f) == [u \in 1 .. 4 |-> IF f.nstsOf[u] > 0 THEN f.ldpcOf[u] ELSE 1]

(* The 38 bits a multi-user SIG protects.                                  *)
MuBody(f) ==
  <<1, f.stbc, 1>>
  \o Uint(f.nstsOf[1], 2) \o Uint(f.nstsOf[2], 2) \o Uint(f.nstsOf[3], 2) \o Uint(f.nstsOf[4], 2)
  \o Uint(f.bandwidth, 2) \o Uint(f.group, 6) \o <<f.shortGi>>
  \o MuCoding(f) \o <<f.extra, 1>> \o Uint(f.length, 9) \o Uint(f.response, 2) \o <<f.tp>>

MuFieldsAssumed(f) ==
  /\ f.stbc \in B /\ f.bandwidth \in 0 .. 3 /\ f.group \in 0 .. 63 /\ f.shortGi \in B /\ f.extra \in B
  /\ f.length \in 0 .. 511 /\ f.response \in 0 .. 3 /\ f.tp \in B
  /\ \A u \in 1 .. 4 : f.nstsOf[u] \in 0 .. 3 /\ f.ldpcOf[u] \in B

(* The multi-user fields of the model, and their bits.                     *)
LEMMA MuFieldsAre ==
  ASSUME NEW f \in MuFields
  PROVE  MuFieldsAssumed(f) /\ Finish48(MuBody(f)) = LongMuBits(f)
<1>1. f.length \in 0 .. 511
  <2>1. f.length \in OtherLengths
    BY DEF MuFields
  <2>2. QED
    BY <2>1, MapsAssumption
<1>2. /\ f.stbc \in B /\ f.bandwidth \in 0 .. 3 /\ f.group \in 0 .. 63 /\ f.shortGi \in B /\ f.extra \in B
      /\ f.response \in 0 .. 3 /\ f.tp \in B
  BY DEF MuFields, B
<1>3. \A u \in 1 .. 4 : f.nstsOf[u] \in 0 .. 3 /\ f.ldpcOf[u] \in B
  <2>1. f.nstsOf \in {<<1, 0, 2, 1>>, <<0, 0, 0, 0>>, <<3, 3, 3, 3>>} /\ f.ldpcOf \in {<<1, 0, 1, 1>>, <<0, 0, 0, 0>>}
    BY DEF MuFields
  <2>2. ASSUME NEW u \in 1 .. 4 PROVE f.nstsOf[u] \in 0 .. 3 /\ f.ldpcOf[u] \in B
    <3>1. u \in {1, 2, 3, 4}
      OBVIOUS
    <3>2. QED
      BY <2>1, <3>1 DEF B
  <2>3. QED
    BY <2>2
<1>4. Finish48(MuBody(f)) = LongMuBits(f)
  BY DEF MuBody, LongMuBits, MuCoding
<1>5. QED
  BY <1>1, <1>2, <1>3, <1>4 DEF MuFieldsAssumed

(* w says what f says of streams, coding and length.                       *)
MuSays(w, f) ==
  /\ w[1] = 1 /\ w[3] = 1 /\ w[26] = 1
  /\ Reads(w, 3, 2, f.nstsOf[1]) /\ Reads(w, 5, 2, f.nstsOf[2])
  /\ Reads(w, 7, 2, f.nstsOf[3]) /\ Reads(w, 9, 2, f.nstsOf[4])
  /\ w[20] = f.shortGi
  /\ \A u \in 1 .. 4 : w[20 + u] = MuCoding(f)[u]
  /\ Reads(w, 26, 9, f.length)

(* Where each field of a multi-user SIG is.                                *)
LEMMA MuLayout ==
  ASSUME NEW f, MuFieldsAssumed(f)
  PROVE  MuBody(f) \in Word(38) /\ MuSays(MuBody(f), f)
<1> DEFINE t1 == <<1, f.stbc, 1>>
           t2 == Uint(f.nstsOf[1], 2)
           t3 == Uint(f.nstsOf[2], 2)
           t4 == Uint(f.nstsOf[3], 2)
           t5 == Uint(f.nstsOf[4], 2)
           t6 == Uint(f.bandwidth, 2)
           t7 == Uint(f.group, 6)
           t8 == <<f.shortGi>>
           t9 == MuCoding(f)
           t10 == <<f.extra, 1>>
           t11 == Uint(f.length, 9)
           t12 == Uint(f.response, 2)
           t13 == <<f.tp>>
           w2 == t1 \o t2
           w3 == w2 \o t3
           w4 == w3 \o t4
           w5 == w4 \o t5
           w6 == w5 \o t6
           w7 == w6 \o t7
           w8 == w7 \o t8
           w9 == w8 \o t9
           w10 == w9 \o t10
           w11 == w10 \o t11
           w12 == w11 \o t12
           w13 == w12 \o t13
<1>0. /\ f.stbc \in B /\ f.bandwidth \in Nat /\ f.group \in Nat /\ f.shortGi \in B /\ f.extra \in B
      /\ f.length \in Nat /\ f.response \in Nat /\ f.tp \in B
      /\ f.nstsOf[1] \in Nat /\ f.nstsOf[2] \in Nat /\ f.nstsOf[3] \in Nat /\ f.nstsOf[4] \in Nat
      /\ \A u \in 1 .. 4 : f.ldpcOf[u] \in B
      /\ 1 \in B
  BY DEF MuFieldsAssumed, B
<1>1. /\ t1 \in Word(3) /\ t1[1] = 1 /\ t1[3] = 1
      /\ t8 \in Word(1) /\ t8[1] = f.shortGi
      /\ t10 \in Word(2) /\ t10[2] = 1 /\ t13 \in Word(1)
  <2>1. t1 \in [1 .. 3 -> B] /\ t8 \in [1 .. 1 -> B] /\ t10 \in [1 .. 2 -> B] /\ t13 \in [1 .. 1 -> B]
    BY <1>0
  <2>2. QED
    BY <2>1, WordOf
<1>2. t9 \in Word(4)
  <2>1. t9 \in [1 .. 4 -> B]
    BY <1>0 DEF MuCoding
  <2>2. QED
    BY <2>1, WordOf
<1>3. /\ t2 \in Word(2) /\ t3 \in Word(2) /\ t4 \in Word(2) /\ t5 \in Word(2) /\ t6 \in Word(2) /\ t7 \in Word(6)
      /\ t11 \in Word(9) /\ t12 \in Word(2)
  BY <1>0, UintWord
<1>4. MuBody(f) = w13
  BY DEF MuBody
<1> HIDE DEF t1, t2, t3, t4, t5, t6, t7, t8, t9, t10, t11, t12, t13
<1>5. w2 \in Word(5) /\ Join(w2, t1, t2, 3, 2, 5)
  BY <1>1, <1>3, JoinedWords
<1> HIDE DEF w2
<1>6. w3 \in Word(7) /\ Join(w3, w2, t3, 5, 2, 7)
  BY <1>3, <1>5, JoinedWords
<1> HIDE DEF w3
<1>7. w4 \in Word(9) /\ Join(w4, w3, t4, 7, 2, 9)
  BY <1>3, <1>6, JoinedWords
<1> HIDE DEF w4
<1>8. w5 \in Word(11) /\ Join(w5, w4, t5, 9, 2, 11)
  BY <1>3, <1>7, JoinedWords
<1> HIDE DEF w5
<1>9. w6 \in Word(13) /\ Join(w6, w5, t6, 11, 2, 13)
  BY <1>3, <1>8, JoinedWords
<1> HIDE DEF w6
<1>10. w7 \in Word(19) /\ Join(w7, w6, t7, 13, 6, 19)
  BY <1>3, <1>9, JoinedWords
<1> HIDE DEF w7
<1>11. w8 \in Word(20) /\ Join(w8, w7, t8, 19, 1, 20)
  BY <1>1, <1>10, JoinedWords
<1> HIDE DEF w8
<1>12. w9 \in Word(24) /\ Join(w9, w8, t9, 20, 4, 24)
  BY <1>2, <1>11, JoinedWords
<1> HIDE DEF w9
<1>13. w10 \in Word(26) /\ Join(w10, w9, t10, 24, 2, 26)
  BY <1>1, <1>12, JoinedWords
<1> HIDE DEF w10
<1>14. w11 \in Word(35) /\ Join(w11, w10, t11, 26, 9, 35)
  BY <1>3, <1>13, JoinedWords
<1> HIDE DEF w11
<1>15. w12 \in Word(37) /\ Join(w12, w11, t12, 35, 2, 37)
  BY <1>3, <1>14, JoinedWords
<1> HIDE DEF w12
<1>16. w13 \in Word(38) /\ Join(w13, w12, t13, 37, 1, 38)
  BY <1>1, <1>15, JoinedWords
<1> HIDE DEF w13
<1>17. \A i \in 1 .. 26 : w13[i] = w10[i]
  BY <1>14, <1>15, <1>16 DEF Join
<1>18. \A i \in 1 .. 11 : w13[i] = w5[i]
  <2>1. \A i \in 1 .. 11 : w10[i] = w5[i]
    BY <1>9, <1>10, <1>11, <1>12, <1>13 DEF Join
  <2>2. QED
    BY <1>17, <2>1
<1>19. w13[1] = 1 /\ w13[3] = 1
  <2>1. \A i \in 1 .. 3 : w5[i] = t1[i]
    BY <1>5, <1>6, <1>7, <1>8 DEF Join
  <2>2. QED
    BY <1>1, <1>18, <2>1
<1>20. /\ \A i \in 1 .. 2 : w13[3 + i] = t2[i]
       /\ \A i \in 1 .. 2 : w13[5 + i] = t3[i]
       /\ \A i \in 1 .. 2 : w13[7 + i] = t4[i]
       /\ \A i \in 1 .. 2 : w13[9 + i] = t5[i]
  <2>1. \A i \in 1 .. 2 : w5[3 + i] = t2[i]
    BY <1>5, <1>6, <1>7, <1>8 DEF Join
  <2>2. \A i \in 1 .. 2 : w5[5 + i] = t3[i]
    BY <1>6, <1>7, <1>8 DEF Join
  <2>3. \A i \in 1 .. 2 : w5[7 + i] = t4[i]
    BY <1>7, <1>8 DEF Join
  <2>4. \A i \in 1 .. 2 : w5[9 + i] = t5[i]
    BY <1>8 DEF Join
  <2>5. QED
    BY <1>18, <2>1, <2>2, <2>3, <2>4
<1>21. w13[20] = f.shortGi /\ w13[26] = 1 /\ \A u \in 1 .. 4 : w13[20 + u] = t9[u]
  <2>1. \A i \in 1 .. 1 : w8[19 + i] = t8[i]
    BY <1>11 DEF Join
  <2>2. w8[20] = f.shortGi
    BY <1>1, <2>1
  <2>3. w10[20] = f.shortGi
    BY <1>12, <1>13, <2>2 DEF Join
  <2>4. \A u \in 1 .. 4 : w10[20 + u] = t9[u]
    BY <1>12, <1>13 DEF Join
  <2>5. \A i \in 1 .. 2 : w10[24 + i] = t10[i]
    BY <1>13 DEF Join
  <2>6. w10[26] = 1
    BY <1>1, <2>5
  <2>7. QED
    BY <1>17, <2>3, <2>4, <2>6
<1>22. \A i \in 1 .. 9 : w13[26 + i] = t11[i]
  <2>1. \A i \in 1 .. 9 : w11[26 + i] = t11[i]
    BY <1>14 DEF Join
  <2>2. \A i \in 1 .. 35 : w13[i] = w11[i]
    BY <1>15, <1>16 DEF Join
  <2>3. QED
    BY <2>1, <2>2
<1>23. /\ Reads(w13, 3, 2, f.nstsOf[1]) /\ Reads(w13, 5, 2, f.nstsOf[2])
       /\ Reads(w13, 7, 2, f.nstsOf[3]) /\ Reads(w13, 9, 2, f.nstsOf[4])
       /\ Reads(w13, 26, 9, f.length)
  BY <1>20, <1>22 DEF Reads, t2, t3, t4, t5, t11
<1>24. MuSays(w13, f)
  BY <1>19, <1>21, <1>23 DEF MuSays, t9
<1>25. QED
  BY <1>4, <1>16, <1>24

(* The length of a multi-user SIG is read back.                            *)
LEMMA MuLengthReadsBack ==
  ASSUME NEW w \in Word(48), NEW x \in 0 .. 511, Reads(w, 26, 9, x)
  PROVE  FieldAt(w, 26, 35) = x
  BY FieldReadsBack

(* What the receiver reads of it, whichever of two bits is cleared.        *)
LEMMA MuReadsBack ==
  ASSUME NEW f, MuFieldsAssumed(f), NEW w \in Word(48), NEW r \in {0, 3, 26}, NEW body \in Word(38), MuSays(body, f),
         \A i \in 1 .. 38 : i # r => w[i] = body[i], NEW h, h = MuFieldsIn(w)
  PROVE  /\ w[1] = 1 /\ h.shortGi = f.shortGi /\ h.length = f.length /\ TotalSts(h) = TotalSts(f)
         /\ ~(\E u \in 1 .. 4 : h.nstsOf[u] = 0 /\ h.ldpcOf[u] = 0)
<1>1. /\ w[1] = body[1] /\ w[20] = body[20]
      /\ \A i \in 1 .. 8 : w[3 + i] = body[3 + i]
      /\ \A u \in 1 .. 4 : w[20 + u] = body[20 + u]
      /\ \A i \in 1 .. 9 : w[26 + i] = body[26 + i]
  OBVIOUS
<1>2. w[1] = 1 /\ w[20] = f.shortGi /\ \A u \in 1 .. 4 : w[20 + u] = MuCoding(f)[u]
  BY <1>1 DEF MuSays
<1>3. /\ f.nstsOf[1] \in 0 .. 3 /\ f.nstsOf[2] \in 0 .. 3 /\ f.nstsOf[3] \in 0 .. 3 /\ f.nstsOf[4] \in 0 .. 3
      /\ f.length \in 0 .. 511
  BY DEF MuFieldsAssumed
<1>4. FieldAt(w, 3, 5) = f.nstsOf[1]
  <2>1. Reads(w, 3, 2, f.nstsOf[1])
    BY <1>1 DEF MuSays, Reads
  <2>2. QED
    BY <1>3, <2>1, FieldReadsBack
<1>5. FieldAt(w, 5, 7) = f.nstsOf[2]
  <2>1. Reads(w, 5, 2, f.nstsOf[2])
    BY <1>1 DEF MuSays, Reads
  <2>2. QED
    BY <1>3, <2>1, FieldReadsBack
<1>6. FieldAt(w, 7, 9) = f.nstsOf[3]
  <2>1. Reads(w, 7, 2, f.nstsOf[3])
    BY <1>1 DEF MuSays, Reads
  <2>2. QED
    BY <1>3, <2>1, FieldReadsBack
<1>7. FieldAt(w, 9, 11) = f.nstsOf[4]
  <2>1. Reads(w, 9, 2, f.nstsOf[4])
    BY <1>1 DEF MuSays, Reads
  <2>2. QED
    BY <1>3, <2>1, FieldReadsBack
<1>8. FieldAt(w, 26, 35) = f.length
  <2>1. Reads(w, 26, 9, f.length)
    BY <1>1 DEF MuSays, Reads
  <2>2. f.length \in 0 .. 511
    BY <1>3
  <2>3. QED
    BY <2>1, <2>2, MuLengthReadsBack
<1>9. /\ h.nstsOf[1] = FieldAt(w, 3, 5) /\ h.nstsOf[2] = FieldAt(w, 5, 7)
      /\ h.nstsOf[3] = FieldAt(w, 7, 9) /\ h.nstsOf[4] = FieldAt(w, 9, 11)
      /\ h.length = FieldAt(w, 26, 35) /\ h.shortGi = w[20]
      /\ \A u \in 1 .. 4 : h.ldpcOf[u] = w[20 + u]
  BY DEF MuFieldsIn
<1>10. \A u \in 1 .. 4 : h.nstsOf[u] = f.nstsOf[u]
  BY <1>4, <1>5, <1>6, <1>7, <1>9
<1>11. TotalSts(h) = TotalSts(f)
  BY <1>10 DEF TotalSts
<1>12. ASSUME NEW u \in 1 .. 4, h.nstsOf[u] = 0, h.ldpcOf[u] = 0 PROVE FALSE
  <2>1. f.nstsOf[u] = 0
    BY <1>10, <1>12
  <2>2. MuCoding(f)[u] = 1
    BY <2>1 DEF MuCoding
  <2>3. QED
    BY <1>2, <1>9, <1>12, <2>2
<1>13. QED
  BY <1>2, <1>8, <1>9, <1>11, <1>12

(* The duration told of a multi-user PPDU is its air time.                 *)
LEMMA MuIsHeard ==
  ASSUME NEW p, IsMu(p), NEW out1, out1 = ParseSig(p.bits, p.long), p.duration # NotKnown
  PROVE  out1.duration = p.duration
<1>1. PICK f \in MuFields, clear \in {0, 3, 26} : TotalSts(f) > 0 /\ p = MuPpdu(f, clear)
  BY DEF IsMu
<1> DEFINE first == LongMuBits(f)
           body0 == MuBody(f)
           body == IF clear = 0 THEN body0 ELSE [body0 EXCEPT ![clear] = 0]
           w == Finish48(body)
           sts == TotalSts(f)
           told == PpduDuration(TRUE, sts, f.shortGi = 1, f.length)
<1>2. /\ p.long = TRUE /\ p.bits = (IF clear = 0 THEN first ELSE WithBitCleared(first, clear))
      /\ f.length # 0 /\ p.duration = told
  BY <1>1 DEF MuPpdu
<1>3. MuFieldsAssumed(f) /\ Finish48(body0) = first
  BY MuFieldsAre
<1>4. body0 \in Word(38) /\ MuSays(body0, f)
  BY <1>3, MuLayout
<1>5. sts \in Nat /\ sts > 0
  <2>1. f.nstsOf[1] \in 0 .. 3 /\ f.nstsOf[2] \in 0 .. 3 /\ f.nstsOf[3] \in 0 .. 3 /\ f.nstsOf[4] \in 0 .. 3
    BY <1>3 DEF MuFieldsAssumed
  <2>2. QED
    BY <1>1, <2>1 DEF TotalSts
<1> HIDE DEF first, body0, sts
<1>6. /\ body \in Word(38) /\ p.bits = w
      /\ \A i \in 1 .. 38 : i # clear => body[i] = body0[i]
      /\ clear = 0 => body = body0
      /\ clear # 0 => body[clear] = 0
  <2>1. CASE clear # 0
    <3>1. body = [body0 EXCEPT ![clear] = 0] /\ clear \in 1 .. 38
      BY <2>1
    <3> HIDE DEF body
    <3>2. IsCleared(body, body0, clear)
      BY <1>4, <3>1, ClearedSig
    <3>3. QED
      BY <1>2, <1>3, <2>1, <3>2 DEF IsCleared
  <2>2. CASE clear = 0
    BY <1>2, <1>3, <1>4, <2>2
  <2>3. QED
    BY <2>1, <2>2
<1> HIDE DEF body
<1>7. w \in Word(48) /\ Check48(w) = "ok" /\ \A i \in 1 .. 38 : w[i] = body[i]
  BY <1>6, FinishedWord, FinishedIsOk
<1> DEFINE h == MuFieldsIn(w)
<1> HIDE DEF w
<1>8. \A i \in 1 .. 38 : i # clear => w[i] = body0[i]
  BY <1>6, <1>7
<1>9. /\ w[1] = 1 /\ h.shortGi = f.shortGi /\ h.length = f.length /\ TotalSts(h) = sts
      /\ ~(\E u \in 1 .. 4 : h.nstsOf[u] = 0 /\ h.ldpcOf[u] = 0)
  BY <1>3, <1>4, <1>7, <1>8, MuReadsBack DEF sts
<1>10. out1 = IF w[3] # 1 \/ w[26] # 1 THEN Reserved(MuDuration(h)) ELSE LongMuVerdict(h)
  <2>1. out1 = ParseLongMu(w)
    BY <1>2, <1>6, <1>7, <1>9 DEF ParseSig, ParseLong
  <2>2. ParseLongMu(w) = IF w[3] # 1 \/ w[26] # 1 \/ (\E u \in 1 .. 4 : h.nstsOf[u] = 0 /\ h.ldpcOf[u] = 0)
                         THEN Reserved(MuDuration(h)) ELSE LongMuVerdict(h)
    BY DEF ParseLongMu
  <2> HIDE DEF h
  <2>3. QED
    BY <1>9, <2>1, <2>2
<1> HIDE DEF h
<1>11. LongMuVerdict(h).duration = told
  <2>1. TotalSts(h) > 0 /\ ~(TotalSts(h) = 0) /\ h.length # 0
    BY <1>2, <1>5, <1>9
  <2>2. LongMuVerdict(h)
          = [kind |-> "unsupported",
             rxv |-> [long |-> TRUE, mu |-> TRUE, nsts |-> TotalSts(h), group |-> h.group, nSym |-> h.length],
             duration |-> PpduDuration(TRUE, TotalSts(h), h.shortGi = 1, h.length)]
    BY <2>1 DEF LongMuVerdict
  <2>3. QED
    BY <1>9, <2>2
<1>12. MuDuration(h) = told
  <2> DEFINE m == MaxOf(TotalSts(h), 1)
             g == [stbc |-> h.stbc, shortGi |-> h.shortGi, mcs |-> 0, ldpc |-> 0, extra |-> 0, aggregation |-> 1,
                   length |-> h.length]
  <2>1. MuDuration(h) = DurationFromFields(TRUE, m, g)
    BY DEF MuDuration
  <2>2. m = sts /\ MaxOf(m, 1) = sts
    BY <1>5, <1>9 DEF MaxOf
  <2>3. g.aggregation = 1 /\ g.length = f.length /\ g.shortGi = f.shortGi
    BY <1>9
  <2> HIDE DEF m, g
  <2>4. DurationFromFields(TRUE, m, g) = PpduDuration(TRUE, MaxOf(m, 1), g.shortGi = 1, g.length)
    BY <1>2, <2>3 DEF DurationFromFields
  <2>5. QED
    BY <2>1, <2>2, <2>3, <2>4
<1>13. CASE w[3] # 1 \/ w[26] # 1
  <2>1. out1 = Reserved(MuDuration(h))
    BY <1>10, <1>13
  <2>2. out1.duration = MuDuration(h)
    BY <2>1 DEF Reserved
  <2>3. QED
    BY <1>2, <1>12, <2>2
<1>14. CASE ~(w[3] # 1 \/ w[26] # 1)
  <2>1. out1 = LongMuVerdict(h)
    BY <1>10, <1>14
  <2>2. QED
    BY <1>2, <1>11, <2>1
<1>15. QED
  BY <1>13, <1>14

(* CCA can be held for exactly the air time of any PPDU the standard       *)
(* defines, decodable here or not, with a reserved bit cleared or not:     *)
(* the duration told by the fields is the sender's (duration_from_fields). *)
THEOREM HoldIsTheAirTimeAlways == Spec => []HoldIsTheAirTime
<1>1. LinkInv => HoldIsTheAirTime
  <2>1. SUFFICES ASSUME LinkInv, Heard({"own", "other", "later"}), Clean, ppdu.duration # NotKnown
                 PROVE  out.duration = ppdu.duration
    BY DEF HoldIsTheAirTime
  <2>2. phase = "heard" /\ ppdu # Nothing /\ IsPpdu(ppdu) /\ sig = ppdu.bits
    BY <2>1 DEF Heard, Clean, LinkInv
  <2>3. CASE ppdu.kind = "own"
    <3>1. PICK v \in TxVectors, n \in Lengths : IsOwn(ppdu, v, n) /\ out = ParseSig(ppdu.bits, ppdu.long)
      BY <2>2, <2>3, <2>1, OwnIsParsed
    <3>2. QED
      BY <3>1, OwnIsHeard
  <2>4. CASE ppdu.kind # "own"
    <3>1. faded = {}
      BY <2>1, <2>4 DEF LinkInv, Coded
    <3>2. out = ParseSig(ppdu.bits, ppdu.long)
      BY <2>1, <2>2, <3>1 DEF LinkInv
    <3>3. IsOther(ppdu) \/ IsMu(ppdu)
      <4>1. ~IsNdp(ppdu)
        <5>1. ppdu.kind # "ndp"
          BY <2>1 DEF Heard
        <5>2. QED
          BY <5>1, NdpIsFinished
      <4>2. ASSUME NEW v \in TxVectors, NEW n \in Lengths, IsOwn(ppdu, v, n) PROVE FALSE
        BY <2>4, <4>2 DEF IsOwn, Build
      <4>3. QED
        BY <2>2, <4>1, <4>2 DEF IsPpdu
    <3>4. QED
      BY <2>1, <3>2, <3>3, OtherIsHeard, MuIsHeard
  <2>5. QED
    BY <2>3, <2>4
<1>2. QED
  BY <1>1, LinkInvariant, PTL

=============================================================================
