-------------------------- MODULE BlockDesignProofs --------------------------
(***************************************************************************)
(* gen_blk_design for every length m_req, every t_pri and every scale of   *)
(* the numbers.                                                            *)
(*                                                                         *)
(* Whenever it completes, its blocks divide the output without gap or      *)
(* overlap.  That the last block is not negative needs the geometric       *)
(* series: what the partial sums may still grow by is bounded in Budget,   *)
(* so that they stay below m_req however the intermediate values are       *)
(* rounded.                                                                *)
(*                                                                         *)
(* With r near e and few blocks, sizes never increase (Regular) and the    *)
(* division completes (Completing).  Both need bounds of the series from   *)
(* the other side: that enough is left after a_pt for the blocks cut anew  *)
(* to be no more than the bits, and little enough for them to fit the      *)
(* vectors, whose length comes from the logarithm of m_req / t_pri.        *)
(***************************************************************************)
EXTENDS BlockDesign, TLAPS, FiniteSetTheorems

\* base[1 .. last] are the ends of the blocks before.
Chained(last) == base[0] = 0 /\ \A k \in 1 .. last : base[k] = base[k - 1] + mi[k - 1]

Tables ==
  /\ mReq \in Nat \ {0} /\ tPri \in Nat \ {0} /\ a \in Nat /\ a >= 2
  /\ mi \in [0 .. a -> Int] /\ base \in [0 .. a -> Int]
  /\ i \in Nat /\ aPt \in Nat /\ newA \in Int /\ sumA \in Int /\ ni \in Int /\ sumNi \in Int

\* S times all that the sum can still become, the rest of the series included
Budget == S * sumNi + ni * (R - S) <= S * (mReq * S - R)

Growing ==
  /\ 1 <= i /\ i <= a /\ aPt < i /\ aOut = a
  /\ ni >= -S /\ Budget
  /\ Chained(i - 1)
  /\ mi[i - 1] + base[i - 1] = Ceil(sumNi)
  /\ \A k \in 0 .. i - 1 : base[k] < mReq
  /\ mi[0] >= 0

Refitting ==
  /\ i <= newA /\ i <= a + 1 /\ aOut = a
  /\ Threshold >= 1 /\ sumA >= Threshold * (newA - i)
  /\ Chained(i - 1)
  /\ IF i = 0 THEN sumA >= 1 ELSE base[i - 1] + mi[i - 1] + sumA = mReq

Divided == aOut \in 0 .. a /\ Chained(aOut) /\ base[aOut] + mi[aOut] = mReq

Inv ==
  /\ Tables
  /\ pc \in {"grow", "refit", "done", "failed"}
  /\ pc = "grow" => Growing
  /\ pc = "refit" => Refitting
  /\ pc = "done" => Divided

-----------------------------------------------------------------------------
(* Numbers in units of 1/S *)

\* Ceil is the ceiling in units of S.
LEMMA CeilType == ASSUME NEW x \in Int PROVE Ceil(x) \in Int
  BY ScaleAssumption DEF Ceil

\* What is at most q units rounds up to at most q.
LEMMA CeilBelow ==
  ASSUME NEW x \in Int, NEW q \in Int, x <= q * S
  PROVE  Ceil(x) <= q
  BY ScaleAssumption DEF Ceil

\* Only what is a whole unit below 0 rounds up to a negative number.
LEMMA CeilNatural ==
  ASSUME NEW x \in Int, x > -S
  PROVE  Ceil(x) >= 0
  BY ScaleAssumption DEF Ceil

\* Division by r, whatever the sign of x.
LEMMA QuotientBelow ==
  ASSUME NEW x \in Int, NEW r \in Nat \ {0}
  PROVE  x \div r \in Int /\ r * (x \div r) <= x /\ x < r * (x \div r) + r
  OBVIOUS

\* A block shrinks by the factor 1 - 1/r or by more.
LEMMA ShrinkBelow ==
  ASSUME NEW x \in Int
  PROVE  Shrink(x) \in Int /\ R * Shrink(x) <= x * (R - S)
  <1>1. R \in Nat \ {0} /\ x * (R - S) \in Int
    BY ScaleAssumption
  <1>2. QED
    BY <1>1, QuotientBelow DEF Shrink

\* A negative size stays above -1.
LEMMA ShrinkAbove ==
  ASSUME NEW x \in Int, x >= -S
  PROVE  Shrink(x) >= -S
  <1>1. S \in Nat \ {0} /\ R \in Nat \ {0} /\ R - S \in Nat
    BY ScaleAssumption
  <1>2. x * (R - S) >= (-S) * (R - S)
    BY <1>1
  <1>3. (-S) * (R - S) >= R * (-S)
    BY <1>1
  <1>4. x * (R - S) \in Int /\ x * (R - S) >= R * (-S)
    BY <1>1, <1>2, <1>3
  <1>5. QED
    BY <1>1, <1>4, QuotientBelow DEF Shrink

\* The budget bounds the sum: it stays a whole bit below m_req.
LEMMA SumBounded ==
  ASSUME Tables, ni >= -S, Budget
  PROVE  Ceil(sumNi) < mReq
  <1>1. S \in Nat \ {0} /\ R \in Nat \ {0} /\ R - S \in Nat /\ mReq \in Nat /\ ni \in Int /\ sumNi \in Int
    BY ScaleAssumption DEF Tables
  <1>2. ni * (R - S) >= (-S) * (R - S)
    BY <1>1
  <1>3. S * sumNi <= S * (mReq * S - R) + S * (R - S)
    BY <1>1, <1>2 DEF Budget
  <1>4. S * (mReq * S - R) + S * (R - S) = S * ((mReq - 1) * S)
    BY <1>1
  <1>5. sumNi <= (mReq - 1) * S
    BY <1>1, <1>3, <1>4
  <1>6. mReq - 1 \in Int /\ Ceil(sumNi) <= mReq - 1
    BY <1>1, <1>5, CeilBelow
  <1>7. QED
    BY <1>1, <1>6, CeilType

-----------------------------------------------------------------------------
(* The two vectors *)

\* Setting element j as all the loops do extends the chain by one block.
LEMMA ChainExtends ==
  ASSUME NEW N \in Nat, NEW j \in 1 .. N, NEW x \in Int,
         NEW bs \in [0 .. N -> Int], NEW ms \in [0 .. N -> Int],
         bs[0] = 0, \A k \in 1 .. j - 1 : bs[k] = bs[k - 1] + ms[k - 1],
         NEW bs1, bs1 = [bs EXCEPT ![j] = ms[j - 1] + bs[j - 1]],
         NEW ms1, ms1 = [ms EXCEPT ![j] = x]
  PROVE  bs1[0] = 0 /\ \A k \in 1 .. j : bs1[k] = bs1[k - 1] + ms1[k - 1]
  <1>1. j \in Nat /\ j >= 1 /\ j - 1 \in 0 .. N
    OBVIOUS
  <1>2. \A k \in 0 .. j - 1 : k \in 0 .. N /\ bs1[k] = bs[k] /\ ms1[k] = ms[k]
    BY <1>1
  <1>3. bs1[j] = bs1[j - 1] + ms1[j - 1]
    <2>1. bs1[j] = ms[j - 1] + bs[j - 1]
      OBVIOUS
    <2>2. bs1[j - 1] = bs[j - 1] /\ ms1[j - 1] = ms[j - 1]
      BY <1>1, <1>2
    <2>3. bs[j - 1] \in Int /\ ms[j - 1] \in Int
      BY <1>1
    <2>4. QED
      BY <2>1, <2>2, <2>3
  <1>4. ASSUME NEW k \in 1 .. j - 1 PROVE bs1[k] = bs1[k - 1] + ms1[k - 1]
    <2>1. k \in 0 .. j - 1 /\ k - 1 \in 0 .. j - 1
      BY <1>1
    <2>2. QED
      BY <1>2, <2>1
  <1>5. bs1[0] = 0
    BY <1>1, <1>2
  <1>6. \A k \in 1 .. j : k = j \/ k \in 1 .. j - 1
    BY <1>1
  <1>7. QED
    BY <1>3, <1>4, <1>5, <1>6

-----------------------------------------------------------------------------
(* The inductive invariant *)

\* The number of blocks the tables are sized with is at least 2.
LEMMA InitialAElements ==
  ASSUME NEW n, NEW t, NEW k \in InitialA(n, t)
  PROVE  k = 2 \/ k \in 2 .. n + 2
  BY Zenon DEF InitialA

\* Nothing is cut yet.
LEMMA InitInv == Init => Inv
  <1> SUFFICES ASSUME Init PROVE Inv
    OBVIOUS
  <1>1. mReq \in Nat \ {0} /\ tPri \in Nat \ {0}
    BY InputAssumption DEF Init
  <1>2. a \in Nat /\ a >= 2
    <2>1. a = 2 \/ a \in 2 .. mReq + 2
      BY InitialAElements DEF Init
    <2>2. QED
      BY <1>1, <2>1
  <1>3. S \in Nat \ {0} /\ R \in Nat \ {0} /\ R - S \in Nat /\ mReq * S * S \in Nat /\ R <= mReq * S * S
    <2>1. S \in Nat \ {0} /\ R \in Nat \ {0} /\ R - S \in Nat /\ R <= S * S
      BY ScaleAssumption
    <2>2. S * S \in Nat /\ mReq * (S * S) >= S * S /\ mReq * (S * S) \in Nat
      BY <1>1, <2>1
    <2>3. mReq * (S * S) = mReq * S * S
      BY <1>1, <2>1
    <2>4. QED
      BY <2>1, <2>2, <2>3
  <1> DEFINE q == (mReq * S * S) \div R
  <1>4. q \in Int /\ R * q <= mReq * S * S /\ mReq * S * S < R * q + R
    BY <1>3, QuotientBelow
  <1>5. q >= 1
    BY <1>3, <1>4
  <1>6. ni = q - S /\ sumNi = ni /\ ni \in Int /\ ni > -S
    BY <1>3, <1>4, <1>5 DEF Init, FirstSize
  <1> HIDE DEF q
  <1>7. Ceil(ni) \in Int /\ Ceil(ni) >= 0
    BY <1>6, CeilType, CeilNatural
  <1>8. mi \in [0 .. a -> Int] /\ base \in [0 .. a -> Int] /\ mi[0] = Ceil(ni) /\ base[0] = 0
    BY <1>2, <1>7 DEF Init
  <1>9. i = 1 /\ aPt = 0 /\ newA = 0 /\ sumA = 0 /\ pc = "grow" /\ aOut = a
    BY DEF Init
  <1>10. Tables
    BY <1>1, <1>2, <1>6, <1>8, <1>9 DEF Tables
  <1>11. Budget
    <2>1. S * ni + ni * (R - S) = R * ni
      BY <1>3, <1>6
    <2>2. R * ni = R * q - R * S
      BY <1>3, <1>4, <1>6
    <2>3. S * (mReq * S - R) = mReq * S * S - R * S
      BY <1>1, <1>3
    <2>4. QED
      BY <1>3, <1>4, <1>6, <2>1, <2>2, <2>3 DEF Budget
  <1>12. Growing
    <2>1. i - 1 = 0
      BY <1>9
    <2>2. Chained(i - 1) /\ mi[i - 1] + base[i - 1] = Ceil(sumNi)
      BY <1>6, <1>7, <1>8, <2>1 DEF Chained
    <2>3. \A k \in 0 .. i - 1 : base[k] < mReq
      BY <1>1, <1>8, <1>9
    <2>4. 1 <= i /\ i <= a /\ aPt < i /\ ni >= -S /\ mi[0] >= 0
      BY <1>2, <1>3, <1>6, <1>7, <1>8, <1>9
    <2>5. QED
      BY <1>9, <1>11, <2>2, <2>3, <2>4 DEF Growing
  <1>13. QED
    BY <1>9, <1>10, <1>12 DEF Inv

\* The block that begins at the current end of the chain, and its base.
LEMMA NextBase ==
  ASSUME Tables, Growing
  PROVE  mi[i - 1] + base[i - 1] \in Int /\ mi[i - 1] + base[i - 1] < mReq
  BY SumBounded, CeilType DEF Tables, Growing

\* A turn of the first loop adds a block no larger than Budget allows.
LEMMA GrowInv ==
  ASSUME Inv, Grow
  PROVE  Inv'
  <1>1. Tables /\ Growing /\ pc = "grow" /\ i < a
    BY DEF Inv, Grow
  <1>2. S \in Nat \ {0} /\ R \in Nat \ {0} /\ R - S \in Nat
    BY ScaleAssumption
  <1> DEFINE b == mi[i - 1] + base[i - 1]
  <1>3. b \in Int /\ b < mReq
    BY <1>1, NextBase
  <1>4. ni' \in Int /\ R * ni' <= ni * (R - S) /\ ni' >= -S
    BY <1>1, ShrinkBelow, ShrinkAbove DEF Grow, Tables, Growing
  <1>5. sumNi' = sumNi + ni' /\ sumNi' \in Int /\ Ceil(sumNi') \in Int
    <2>1. sumNi' = sumNi + ni'
      BY DEF Grow
    <2>2. sumNi' \in Int
      BY <1>1, <1>4, <2>1 DEF Tables
    <2>3. QED
      BY <2>1, <2>2, CeilType
  <1>6. base' = [base EXCEPT ![i] = b] /\ base'[i] = b
    BY <1>1 DEF Grow, Tables
  <1>7. mi' = [mi EXCEPT ![i] = Ceil(sumNi') - b]
    BY <1>6 DEF Grow
  <1> HIDE DEF b
  <1>8. aPt' \in {i, aPt} /\ i' = i + 1 /\ UNCHANGED <<pc, mReq, tPri, a, aOut, sumA, newA>>
    BY DEF Grow
  <1>9. mi' \in [0 .. a -> Int] /\ base' \in [0 .. a -> Int]
    BY <1>1, <1>3, <1>5, <1>6, <1>7 DEF Tables
  <1>10. Tables'
    BY <1>1, <1>4, <1>5, <1>8, <1>9 DEF Tables
  <1>11. Budget'
    <2>1. sumNi \in Int /\ ni \in Int /\ mReq \in Int
      BY <1>1 DEF Tables
    <2>2. S * sumNi \in Int /\ R * ni' \in Int /\ ni * (R - S) \in Int /\ S * (mReq * S - R) \in Int
      BY <1>2, <1>4, <2>1
    <2>3. S * sumNi' + ni' * (R - S) = S * sumNi + R * ni'
      BY <1>2, <1>4, <1>5, <2>1
    <2>4. S * sumNi + ni * (R - S) <= S * (mReq * S - R)
      BY <1>1 DEF Growing, Budget
    <2>5. S * sumNi' + ni' * (R - S) <= S * (mReq * S - R)
      BY <1>4, <2>2, <2>3, <2>4
    <2>6. QED
      BY <1>8, <2>5 DEF Budget
  <1>12. base'[0] = 0 /\ \A k \in 1 .. i : base'[k] = base'[k - 1] + mi'[k - 1]
    <2>1. i \in 1 .. a /\ a \in Nat /\ mi \in [0 .. a -> Int] /\ base \in [0 .. a -> Int]
      BY <1>1 DEF Tables, Growing
    <2>2. base[0] = 0 /\ \A k \in 1 .. i - 1 : base[k] = base[k - 1] + mi[k - 1]
      BY <1>1 DEF Growing, Chained
    <2>3. base' = [base EXCEPT ![i] = mi[i - 1] + base[i - 1]]
      BY <1>6 DEF b
    <2>4. Ceil(sumNi') - b \in Int
      BY <1>3, <1>5
    <2>5. QED
      BY <1>7, <2>1, <2>2, <2>3, <2>4, ChainExtends
  <1>13. mi'[i] + base'[i] = Ceil(sumNi')
    BY <1>1, <1>3, <1>5, <1>6, <1>7 DEF Tables, Growing
  <1>14. \A k \in 0 .. i : base'[k] < mReq
    BY <1>1, <1>3, <1>6 DEF Tables, Growing
  <1>15. mi'[0] >= 0
    BY <1>1, <1>7 DEF Tables, Growing
  <1>16. Growing'
    <2>1. i' - 1 = i /\ i' <= a /\ aPt' < i' /\ 1 <= i'
      BY <1>1, <1>8 DEF Tables, Growing
    <2>2. Ceil(sumNi)' = Ceil(sumNi')
      BY DEF Ceil
    <2>3. QED
      BY <1>1, <1>4, <1>8, <1>11, <1>12, <1>13, <1>14, <1>15, <2>1, <2>2 DEF Growing, Chained
  <1>17. QED
    BY <1>1, <1>8, <1>10, <1>16 DEF Inv

\* The last block of the first loop starts before m_req.
LEMMA CloseInv ==
  ASSUME Inv, Close
  PROVE  Inv'
  <1>1. Tables /\ Growing /\ pc = "grow" /\ i >= a
    BY DEF Inv, Close
  <1>2. i = a /\ a \in Nat /\ a >= 2 /\ aPt \in 0 .. a - 1 /\ aOut = a
    BY <1>1 DEF Tables, Growing
  <1> DEFINE b == mi[a - 1] + base[a - 1]
  <1>3. b \in Int /\ b < mReq
    BY <1>1, <1>2, NextBase
  <1>4. base' = [base EXCEPT ![a] = b] /\ base'[a] = b
    BY <1>1, <1>2 DEF Close, Tables
  <1>5. mi' = [mi EXCEPT ![a] = mReq - b]
    BY <1>4 DEF Close
  <1>6. mi' \in [0 .. a -> Int] /\ base' \in [0 .. a -> Int]
    BY <1>1, <1>2, <1>3, <1>4, <1>5 DEF Tables
  <1>7. base'[0] = 0 /\ \A k \in 1 .. a : base'[k] = base'[k - 1] + mi'[k - 1]
    <2>1. a \in 1 .. a /\ mReq - b \in Int /\ mi \in [0 .. a -> Int] /\ base \in [0 .. a -> Int]
      BY <1>1, <1>2, <1>3 DEF Tables
    <2>2. base[0] = 0 /\ \A k \in 1 .. a - 1 : base[k] = base[k - 1] + mi[k - 1]
      BY <1>1, <1>2 DEF Growing, Chained
    <2>3. QED
      BY <1>2, <1>4, <1>5, <2>1, <2>2, ChainExtends
  <1>8. mi'[a] + base'[a] = mReq
    BY <1>1, <1>2, <1>3, <1>4, <1>5 DEF Tables
  <1> HIDE DEF b
  <1>9. sumA' = mReq - base'[aPt] /\ sumA' \in Int /\ sumA' >= 1
    <2>1. base'[aPt] = base[aPt] /\ base[aPt] \in Int
      BY <1>1, <1>2, <1>4 DEF Tables
    <2>2. base[aPt] < mReq
      BY <1>1, <1>2 DEF Growing
    <2>3. sumA' = mReq - base'[aPt]
      BY DEF Close
    <2>4. mReq \in Int
      BY <1>1 DEF Tables
    <2>5. QED
      BY <2>1, <2>2, <2>3, <2>4
  <1>10. mi'[0] = mi[0] /\ mi[0] \in Int /\ mi[0] >= 0
    BY <1>1, <1>2, <1>5 DEF Tables, Growing
  <1>11. Threshold' = Threshold /\ Threshold \in Nat
    BY <1>1, <1>10 DEF Close, Threshold, Tables
  <1>12. i' = aPt /\ UNCHANGED <<mReq, tPri, a, aOut, ni, sumNi, aPt>>
    BY DEF Close
  <1>13. CASE Threshold = 0
    <2>1. pc' = "failed" /\ newA' = newA
      BY <1>13 DEF Close
    <2>2. Tables'
      BY <1>1, <1>2, <1>6, <1>9, <1>12, <2>1 DEF Tables
    <2>3. QED
      BY <2>1, <2>2 DEF Inv
  <1>14. CASE Threshold # 0
    <2> DEFINE q == sumA' \div Threshold
    <2>1. newA' = q + aPt /\ pc' \in {"done", "refit"}
      BY <1>14 DEF Close, IntDiv
    <2>2. Threshold \in Nat \ {0}
      BY <1>11, <1>14
    <2>3. q \in Int /\ Threshold * q <= sumA' /\ sumA' < Threshold * q + Threshold
      BY <1>9, <2>2, QuotientBelow
    <2>4. q >= 0
      BY <1>9, <2>2, <2>3
    <2> HIDE DEF q
    <2>5. Tables'
      <3>1. newA' \in Int /\ i' \in Nat
        BY <1>2, <1>12, <2>1, <2>3
      <3>2. mi' \in [0 .. a' -> Int] /\ base' \in [0 .. a' -> Int]
        BY <1>6, <1>12
      <3>3. sumA' \in Int
        BY <1>9
      <3>4. QED
        BY <1>1, <1>12, <3>1, <3>2, <3>3 DEF Tables
    <2>6. Divided'
      <3>1. aOut' = a /\ a' = a /\ mReq' = mReq /\ aOut' \in 0 .. a'
        BY <1>2, <1>12
      <3>2. base'[aOut'] + mi'[aOut'] = mReq'
        BY <1>2, <1>6, <1>8, <3>1
      <3>3. QED
        BY <1>7, <3>1, <3>2 DEF Divided, Chained
    <2>7. Refitting'
      <3>1. i' <= newA' /\ i' <= a' + 1 /\ aOut' = a' /\ newA' - i' = q
        BY <1>2, <1>12, <2>1, <2>3, <2>4
      <3>2. Threshold' >= 1 /\ sumA' >= Threshold' * (newA' - i')
        BY <1>11, <2>2, <2>3, <3>1
      <3>3. Chained(i - 1)'
        BY <1>2, <1>7, <1>12 DEF Chained
      <3>4. IF i' = 0 THEN sumA' >= 1 ELSE base'[i' - 1] + mi'[i' - 1] + sumA' = mReq'
        <4>1. CASE aPt = 0
          BY <1>9, <1>12, <4>1
        <4>2. CASE aPt # 0
          <5>1. aPt \in 1 .. a /\ aPt - 1 \in 0 .. a
            BY <1>2, <4>2
          <5>2. base'[aPt] = base'[aPt - 1] + mi'[aPt - 1]
            BY <1>7, <5>1
          <5>3. base'[aPt] \in Int /\ base'[aPt - 1] \in Int /\ mi'[aPt - 1] \in Int /\ mReq \in Int
            BY <1>1, <1>6, <5>1 DEF Tables
          <5>4. base'[aPt - 1] + mi'[aPt - 1] + sumA' = mReq
            BY <1>9, <5>2, <5>3
          <5>5. QED
            BY <1>2, <1>12, <4>2, <5>4
        <4>3. QED
          BY <4>1, <4>2
      <3>5. QED
        BY <3>1, <3>2, <3>3, <3>4 DEF Refitting
    <2>8. QED
      BY <2>1, <2>5, <2>6, <2>7 DEF Inv
  <1>15. QED
    BY <1>13, <1>14

\* A turn of the second loop moves a block to the end of the one before.
LEMMA RefitInv ==
  ASSUME Inv, Refit
  PROVE  Inv'
  <1>1. Tables /\ Refitting /\ pc = "refit" /\ i < newA
    BY DEF Inv, Refit
  <1>2. i \in Nat /\ a \in Nat /\ a >= 2 /\ newA \in Int /\ sumA \in Int /\ mReq \in Nat
    BY <1>1 DEF Tables
  <1>3. UNCHANGED <<mReq, tPri, a, aOut, ni, sumNi, aPt, newA>>
    BY DEF Refit
  <1>4. CASE ~(InRange(i) /\ InRange(i - 1))
    <2>1. pc' = "failed" /\ UNCHANGED <<base, mi, sumA, i>>
      BY <1>4 DEF Refit
    <2>2. QED
      BY <1>1, <1>3, <2>1 DEF Inv, Tables
  <1>5. CASE InRange(i) /\ InRange(i - 1)
    <2>1. i \in 1 .. a /\ i - 1 \in 0 .. a
      BY <1>2, <1>5 DEF InRange
    <2> DEFINE b == mi[i - 1] + base[i - 1]
    <2>2. /\ base' = [base EXCEPT ![i] = b] /\ mi' = [mi EXCEPT ![i] = Threshold]
          /\ sumA' = sumA - Threshold /\ i' = i + 1 /\ pc' = pc
      BY <1>5 DEF Refit
    <2>3. b \in Int /\ b + sumA = mReq
      <3>1. mi[i - 1] \in Int /\ base[i - 1] \in Int
        BY <1>1, <2>1 DEF Tables
      <3>2. base[i - 1] + mi[i - 1] + sumA = mReq
        BY <1>1, <2>1 DEF Refitting
      <3>3. QED
        BY <1>2, <3>1, <3>2
    <2>4. Threshold \in Nat /\ Threshold >= 1
      BY <1>1, <1>2 DEF Threshold, Tables, Refitting
    <2>5. mi' \in [0 .. a -> Int] /\ base' \in [0 .. a -> Int]
      BY <1>1, <2>1, <2>2, <2>3, <2>4 DEF Tables
    <2>6. Tables'
      BY <1>1, <1>3, <2>2, <2>4, <2>5 DEF Tables
    <2>7. base'[0] = 0 /\ \A k \in 1 .. i : base'[k] = base'[k - 1] + mi'[k - 1]
      <3>1. mi \in [0 .. a -> Int] /\ base \in [0 .. a -> Int]
        BY <1>1 DEF Tables
      <3>2. base[0] = 0 /\ \A k \in 1 .. i - 1 : base[k] = base[k - 1] + mi[k - 1]
        BY <1>1 DEF Refitting, Chained
      <3>3. Threshold \in Int
        BY <2>4
      <3>4. QED
        BY <1>2, <2>1, <2>2, <3>1, <3>2, <3>3, ChainExtends
    <2>8. Threshold' = Threshold
      <3>1. mi'[0] = mi[0]
        BY <1>1, <1>2, <2>1, <2>2 DEF Tables
      <3>2. QED
        BY <1>3, <3>1 DEF Threshold
    <2>9. base'[i] = b /\ mi'[i] = Threshold
      BY <1>1, <2>1, <2>2 DEF Tables
    <2> HIDE DEF b
    <2>10. base'[i] + mi'[i] + sumA' = mReq
      BY <1>2, <2>2, <2>3, <2>4, <2>9
    <2>11. sumA' >= Threshold * (newA - (i + 1))
      <3>1. sumA >= Threshold * (newA - i)
        BY <1>1 DEF Refitting
      <3>2. Threshold * (newA - (i + 1)) = Threshold * (newA - i) - Threshold
        BY <1>2, <2>4
      <3>3. Threshold * (newA - i) \in Int
        BY <1>2, <2>4
      <3>4. QED
        BY <1>2, <2>2, <2>4, <3>1, <3>2, <3>3
    <2>12. Refitting'
      <3>1. i' - 1 = i /\ i' # 0 /\ i' <= newA' /\ i' <= a' + 1 /\ aOut' = a'
        BY <1>1, <1>2, <1>3, <2>1, <2>2 DEF Refitting
      <3>2. Threshold' >= 1 /\ sumA' >= Threshold' * (newA' - i')
        BY <1>3, <2>2, <2>4, <2>8, <2>11
      <3>3. Chained(i - 1)'
        BY <2>7, <3>1 DEF Chained
      <3>4. base'[i' - 1] + mi'[i' - 1] + sumA' = mReq'
        BY <1>3, <2>10, <3>1
      <3>5. QED
        BY <3>1, <3>2, <3>3, <3>4 DEF Refitting
    <2>13. QED
      BY <1>1, <2>2, <2>6, <2>12 DEF Inv
  <1>6. QED
    BY <1>4, <1>5

\* The last block gets what is left.
LEMMA LastBlockInv ==
  ASSUME Inv, LastBlock
  PROVE  Inv'
  <1>1. Tables /\ Refitting /\ pc = "refit" /\ i >= newA
    BY DEF Inv, LastBlock
  <1>2. /\ i \in Nat /\ a \in Nat /\ newA = i /\ sumA \in Int /\ mReq \in Nat
        /\ mi \in [0 .. a -> Int] /\ base \in [0 .. a -> Int]
    BY <1>1 DEF Tables, Refitting
  <1>3. UNCHANGED <<mReq, tPri, a, i, ni, sumNi, aPt, sumA, newA>>
    BY DEF LastBlock
  <1>4. base[0] = 0 /\ \A k \in 1 .. i - 1 : base[k] = base[k - 1] + mi[k - 1]
    BY <1>1 DEF Refitting, Chained
  <1>5. CASE sumA > 0 /\ InRange(newA) /\ InRange(newA - 1)
    <2>1. i \in 1 .. a /\ i - 1 \in 0 .. a
      BY <1>2, <1>5 DEF InRange
    <2>2. /\ base' = [base EXCEPT ![i] = mi[i - 1] + base[i - 1]] /\ mi' = [mi EXCEPT ![i] = sumA]
          /\ aOut' = i /\ pc' = "done"
      BY <1>2, <1>5 DEF LastBlock
    <2>3. mi[i - 1] \in Int /\ base[i - 1] \in Int /\ base[i - 1] + mi[i - 1] + sumA = mReq
      BY <1>1, <1>2, <2>1 DEF Refitting
    <2>4. mi' \in [0 .. a -> Int] /\ base' \in [0 .. a -> Int]
      BY <1>2, <2>1, <2>2, <2>3
    <2>5. base'[i] + mi'[i] = mReq
      BY <1>2, <2>1, <2>2, <2>3
    <2>6. base'[0] = 0 /\ \A k \in 1 .. i : base'[k] = base'[k - 1] + mi'[k - 1]
      <3>1. base'[i] = mi[i - 1] + base[i - 1]
        BY <1>2, <2>1, <2>2
      <3>2. \A k \in 0 .. i - 1 : base'[k] = base[k] /\ mi'[k] = mi[k]
        BY <1>2, <2>1, <2>2
      <3>3. base'[0] = 0
        BY <1>2, <1>4, <2>1, <3>2
      <3>4. ASSUME NEW k \in 1 .. i
            PROVE  base'[k] = base'[k - 1] + mi'[k - 1]
        <4>1. k - 1 \in 0 .. i - 1 /\ base'[k - 1] = base[k - 1] /\ mi'[k - 1] = mi[k - 1]
          BY <1>2, <2>1, <3>2
        <4>2. CASE k = i
          BY <2>3, <3>1, <4>1, <4>2
        <4>3. CASE k # i
          <5>1. k \in 1 .. i - 1 /\ k \in 0 .. i - 1
            BY <1>2, <2>1, <4>3
          <5>2. QED
            BY <1>4, <3>2, <4>1, <5>1
        <4>4. QED
          BY <4>2, <4>3
      <3>5. QED
        BY <3>3, <3>4
    <2>7. Tables'
      BY <1>1, <1>3, <2>4 DEF Tables
    <2>8. Divided'
      <3>1. aOut' \in 0 .. a' /\ aOut' = i
        BY <1>3, <2>1, <2>2
      <3>2. QED
        BY <1>3, <2>5, <2>6, <3>1 DEF Divided, Chained
    <2>9. QED
      BY <2>2, <2>7, <2>8 DEF Inv
  <1>6. CASE sumA > 0 /\ ~(InRange(newA) /\ InRange(newA - 1))
    <2>1. pc' = "failed" /\ UNCHANGED <<base, mi, aOut>>
      BY <1>6 DEF LastBlock
    <2>2. QED
      BY <1>1, <1>3, <2>1 DEF Inv, Tables
  <1>7. CASE ~(sumA > 0)
    <2>1. pc' = "done" /\ aOut' = i - 1 /\ UNCHANGED <<base, mi>>
      BY <1>2, <1>7 DEF LastBlock
    <2>2. Threshold \in Int /\ Threshold * (newA - i) = 0
      BY <1>1, <1>2 DEF Threshold, Tables
    <2>3. sumA = 0
      BY <1>1, <1>2, <1>7, <2>2 DEF Refitting
    <2>4. i # 0 /\ base[i - 1] + mi[i - 1] + sumA = mReq
      BY <1>1, <2>3 DEF Refitting
    <2>5. i - 1 \in 0 .. a
      BY <1>1, <1>2, <2>4 DEF Refitting
    <2>6. base[i - 1] + mi[i - 1] = mReq
      BY <1>2, <2>3, <2>4, <2>5
    <2>7. Divided'
      BY <1>3, <1>4, <2>1, <2>5, <2>6 DEF Divided, Chained
    <2>8. Tables'
      BY <1>1, <1>3, <2>1 DEF Tables
    <2>9. QED
      BY <2>1, <2>7, <2>8 DEF Inv
  <1>8. QED
    BY <1>5, <1>6, <1>7

\* Every step.
LEMMA NextInv == Inv /\ [Next]_vars => Inv'
  <1> SUFFICES ASSUME Inv, [Next]_vars PROVE Inv'
    OBVIOUS
  <1>1. CASE Grow
    BY <1>1, GrowInv
  <1>2. CASE Close
    BY <1>2, CloseInv
  <1>3. CASE Refit
    BY <1>3, RefitInv
  <1>4. CASE LastBlock
    BY <1>4, LastBlockInv
  <1>5. CASE Stopped \/ UNCHANGED vars
    <2>1. UNCHANGED vars
      BY <1>5 DEF Stopped
    <2>2. QED
      BY <2>1 DEF vars, Inv, Tables, Growing, Refitting, Divided, Chained, Budget, Threshold, Ceil
  <1>6. QED
    BY <1>1, <1>2, <1>3, <1>4, <1>5 DEF Next

-----------------------------------------------------------------------------
(***************************************************************************)
(* In every behaviour Inv holds.                                           *)
(***************************************************************************)
THEOREM Invariance == Spec => []Inv
  BY InitInv, NextInv, PTL DEF Spec

(***************************************************************************)
(* Whenever gen_blk_design returns, its blocks divide the output exactly:  *)
(* trevisan_extract ORs each extracted bit to a place of its own and       *)
(* leaves no place without a bit.                                          *)
(***************************************************************************)
THEOREM BlocksDivide == Spec => []BlocksDivideOutput
  <1>1. Inv => BlocksDivideOutput
    BY DEF Inv, Divided, Chained, BlocksDivideOutput
  <1>2. QED
    BY <1>1, Invariance, PTL

-----------------------------------------------------------------------------
(* Types: no block size and no remainder is negative *)

NaturalSizes ==
  /\ mReq \in MReqs /\ tPri \in TPris
  /\ sumA \in Nat /\ newA \in Nat /\ aOut \in Int
  /\ mReq > 2 => ni >= 0 /\ \A b \in 0 .. a : mi[b] >= 0

\* A quotient of natural numbers.
LEMMA QuotientNatural ==
  ASSUME NEW x \in Nat, NEW r \in Nat \ {0}
  PROVE  x \div r \in Nat
  OBVIOUS

\* Ceil does not decrease.
LEMMA CeilMonotone ==
  ASSUME NEW x \in Int, NEW y \in Int, x <= y
  PROVE  Ceil(x) <= Ceil(y)
  BY ScaleAssumption DEF Ceil

\* What is not negative shrinks to what is not negative.
LEMMA ShrinkNatural ==
  ASSUME NEW x \in Int, x >= 0
  PROVE  Shrink(x) >= 0
  <1>1. R \in Nat \ {0} /\ R - S \in Nat
    BY ScaleAssumption
  <1>2. x * (R - S) \in Nat
    BY <1>1
  <1>3. QED
    BY <1>1, <1>2, QuotientBelow DEF Shrink

\* From three bits on the first block is not negative.
LEMMA FirstSizeNatural ==
  ASSUME RatioBelowThree, NEW m \in Nat, m > 2
  PROVE  FirstSize(m) >= 0
  <1>1. S \in Nat \ {0} /\ R \in Nat \ {0} /\ R <= 3 * S
    BY ScaleAssumption DEF RatioBelowThree
  <1>2. m * S >= R /\ m * S \in Nat
    <2>1. m * S >= 3 * S
      BY <1>1
    <2>2. QED
      BY <1>1, <2>1
  <1>3. m * S * S >= R * S /\ m * S * S \in Nat /\ R * S \in Nat
    BY <1>1, <1>2
  <1> DEFINE q == (m * S * S) \div R
  <1>4. q \in Int /\ m * S * S < R * q + R
    BY <1>1, <1>3, QuotientBelow
  <1>5. R * S < R * (q + 1)
    BY <1>1, <1>3, <1>4
  <1> HIDE DEF q
  <1>6. S < q + 1
    BY <1>1, <1>4, <1>5
  <1>7. QED
    BY <1>1, <1>4, <1>6 DEF FirstSize, q

\* At the start only the first block has a size.
LEMMA InitNaturals == ASSUME RatioBelowThree, Init PROVE NaturalSizes
  <1>1. mReq \in MReqs /\ tPri \in TPris /\ sumA \in Nat /\ newA \in Nat /\ aOut \in Int
    BY InitInv DEF Init, Inv, Tables
  <1>2. mReq \in Nat
    BY <1>1, InputAssumption
  <1>3. ASSUME mReq > 2 PROVE ni >= 0 /\ \A b \in 0 .. a : mi[b] >= 0
    <2>1. ni >= 0 /\ ni \in Int
      <3>1. Tables
        BY InitInv DEF Inv
      <3>2. QED
        BY <1>2, <1>3, <3>1, FirstSizeNatural DEF Init, Tables
    <2>2. S > 0 /\ S \in Nat
      BY ScaleAssumption
    <2>3. Ceil(ni) >= 0
      BY <2>1, <2>2, CeilNatural
    <2>4. mi = [k \in 0 .. a |-> IF k = 0 THEN Ceil(ni) ELSE 0]
      BY DEF Init
    <2>5. QED
      BY <2>1, <2>3, <2>4
  <1>4. QED
    BY <1>1, <1>3 DEF NaturalSizes

\* A step of the first loop.
LEMMA GrowNaturals == ASSUME Inv, NaturalSizes, Grow PROVE NaturalSizes'
  <1>1. Tables /\ Growing /\ i < a
    BY DEF Inv, Grow
  <1>2. UNCHANGED <<mReq, tPri, a, aOut, sumA, newA>> /\ ni' = Shrink(ni) /\ sumNi' = sumNi + ni'
    BY DEF Grow
  <1>3. ASSUME mReq > 2 PROVE ni' >= 0 /\ \A b \in 0 .. a : mi'[b] >= 0
    <2>1. ni >= 0 /\ (\A b \in 0 .. a : mi[b] >= 0) /\ ni \in Int /\ sumNi \in Int
      BY <1>1, <1>3 DEF NaturalSizes, Tables
    <2>2. ni' >= 0 /\ ni' \in Int
      BY <1>2, <2>1, ShrinkNatural, ShrinkBelow
    <2>3. sumNi' \in Int /\ sumNi' >= sumNi
      BY <1>2, <2>1, <2>2
    <2>4. Ceil(sumNi') >= Ceil(sumNi) /\ Ceil(sumNi') \in Int /\ Ceil(sumNi) \in Int
      BY <2>1, <2>3, CeilMonotone, CeilType
    <2>5. base'[i] = Ceil(sumNi)
      BY <1>1 DEF Grow, Tables, Growing
    <2>6. mi' = [mi EXCEPT ![i] = Ceil(sumNi') - base'[i]]
      BY DEF Grow
    <2>7. QED
      BY <1>1, <2>1, <2>2, <2>4, <2>5, <2>6 DEF Tables
  <1>4. QED
    BY <1>2, <1>3 DEF NaturalSizes

\* The last block takes what is left of m_req, which is not negative.
LEMMA CloseNaturals == ASSUME Inv, NaturalSizes, Close PROVE NaturalSizes'
  <1>1. Tables /\ Growing /\ i >= a
    BY DEF Inv, Close
  <1>2. i = a /\ a \in Nat /\ a >= 2 /\ aPt \in 0 .. a - 1 /\ mReq \in Nat /\ mi \in [0 .. a -> Int] /\ base \in [0 .. a -> Int]
    BY <1>1 DEF Tables, Growing
  <1>3. UNCHANGED <<mReq, tPri, a, aOut, ni>> /\ mi' = [mi EXCEPT ![a] = mReq - base'[a]]
    BY DEF Close
  <1>4. base'[a] \in Int /\ base'[a] < mReq
    BY <1>1, <1>2, NextBase DEF Close
  <1>5. mReq > 2 => ni' >= 0 /\ \A b \in 0 .. a : mi'[b] >= 0
    BY <1>2, <1>3, <1>4 DEF NaturalSizes
  <1>6. sumA' \in Nat
    <2>1. sumA' = mReq - base'[aPt] /\ base'[aPt] = base[aPt] /\ base[aPt] \in Int
      BY <1>2 DEF Close
    <2>2. base[aPt] < mReq
      BY <1>1, <1>2 DEF Growing
    <2>3. QED
      BY <1>2, <2>1, <2>2
  <1>7. newA' \in Nat
    <2>1. mi'[0] = mi[0] /\ mi[0] \in Int /\ mi[0] >= 0
      BY <1>1, <1>2, <1>3, <1>4 DEF Growing
    <2>2. Threshold' = Threshold /\ Threshold \in Nat
      BY <1>1, <1>3, <2>1 DEF Threshold, Tables
    <2>3. CASE Threshold = 0
      BY <2>3 DEF Close, NaturalSizes
    <2>4. CASE Threshold # 0
      <3>1. newA' = (sumA' \div Threshold) + aPt
        BY <2>4 DEF Close, IntDiv
      <3>2. sumA' \in Nat /\ Threshold \in Nat \ {0}
        BY <1>6, <2>2, <2>4
      <3>3. sumA' \div Threshold \in Nat
        BY <3>2, QuotientNatural
      <3>4. QED
        BY <1>2, <3>1, <3>3
    <2>5. QED
      BY <2>3, <2>4
  <1>8. QED
    BY <1>3, <1>5, <1>6, <1>7 DEF NaturalSizes

\* A block of the second loop has the threshold's size, which is left.
LEMMA RefitNaturals == ASSUME Inv, NaturalSizes, Refit PROVE NaturalSizes'
  <1>1. Tables /\ Refitting /\ i < newA
    BY DEF Inv, Refit
  <1>2. UNCHANGED <<mReq, tPri, a, aOut, ni, newA>>
    BY DEF Refit
  <1>3. CASE ~(InRange(i) /\ InRange(i - 1))
    BY <1>2, <1>3 DEF Refit, NaturalSizes
  <1>4. CASE InRange(i) /\ InRange(i - 1)
    <2>1. sumA' = sumA - Threshold /\ mi' = [mi EXCEPT ![i] = Threshold] /\ i \in 0 .. a /\ i \in Nat /\ newA \in Nat
      BY <1>1, <1>4 DEF Refit, InRange, Tables, NaturalSizes
    <2>2. Threshold \in Nat /\ Threshold >= 1
      BY <1>1 DEF Threshold, Tables, Refitting
    <2>3. newA - i >= 1 /\ newA - i \in Int
      BY <1>1, <2>1
    <2>4. Threshold * (newA - i) >= Threshold
      BY <2>2, <2>3
    <2>5. sumA' \in Nat
      <3>1. sumA \in Int /\ Threshold * (newA - i) \in Int /\ sumA >= Threshold * (newA - i)
        BY <1>1, <2>1, <2>2 DEF Refitting, Tables
      <3>2. QED
        BY <2>1, <2>2, <2>4, <3>1
    <2>6. mReq > 2 => \A b \in 0 .. a : mi'[b] >= 0
      BY <1>1, <2>1, <2>2 DEF NaturalSizes, Tables
    <2>7. QED
      BY <1>2, <2>5, <2>6 DEF NaturalSizes
  <1>5. QED
    BY <1>3, <1>4

\* The last block has what is left.
LEMMA LastBlockNaturals == ASSUME Inv, NaturalSizes, LastBlock PROVE NaturalSizes'
  <1>1. Tables
    BY DEF Inv
  <1>2. UNCHANGED <<mReq, tPri, a, ni, sumA, newA>>
    BY DEF LastBlock
  <1>3. mi' = mi \/ mi' = [mi EXCEPT ![newA] = sumA]
    BY DEF LastBlock
  <1>4. mReq > 2 => \A b \in 0 .. a : mi'[b] >= 0
    BY <1>1, <1>3 DEF NaturalSizes, Tables
  <1>5. aOut' \in Int
    BY DEF LastBlock, NaturalSizes
  <1>6. QED
    BY <1>2, <1>4, <1>5 DEF NaturalSizes

\* Every step.
LEMMA NextNaturals == Inv /\ NaturalSizes /\ [Next]_vars => NaturalSizes'
  <1> SUFFICES ASSUME Inv, NaturalSizes, [Next]_vars PROVE NaturalSizes'
    OBVIOUS
  <1>1. CASE Stopped \/ UNCHANGED vars
    BY <1>1 DEF Stopped, vars, NaturalSizes
  <1>2. QED
    BY <1>1, GrowNaturals, CloseNaturals, RefitNaturals, LastBlockNaturals DEF Next

(***************************************************************************)
(* TypeOK.                                                                 *)
(***************************************************************************)
THEOREM TypeCorrect == ASSUME RatioBelowThree PROVE Spec => []TypeOK
  <1>1. Init => NaturalSizes
    BY InitNaturals
  <1>2. Inv /\ NaturalSizes => TypeOK
    <2> SUFFICES ASSUME Inv, NaturalSizes PROVE TypeOK
      OBVIOUS
    <2>1. Tables
      BY DEF Inv
    <2>2. QED
      BY <2>1 DEF Inv, Tables, NaturalSizes, TypeOK
  <1>3. Spec => []NaturalSizes
    BY <1>1, Invariance, NextNaturals, PTL DEF Spec
  <1>4. QED
    BY <1>2, <1>3, Invariance, PTL

-----------------------------------------------------------------------------
(* The first block *)

\* What the call started with: the vectors' length and the first block's size.
Sized ==
  /\ mReq \in MReqs /\ tPri \in TPris /\ a \in InitialA(mReq, tPri)
  /\ mi[0] = Ceil(FirstSize(mReq))

\* The nearest whole units around a number.
LEMMA CeilBounds ==
  ASSUME NEW x \in Int
  PROVE  Ceil(x) \in Int /\ x <= S * Ceil(x) /\ S * Ceil(x) < x + S
  <1>1. S \in Nat \ {0} /\ -x \in Int
    BY ScaleAssumption
  <1> DEFINE q == (-x) \div S
  <1>2. q \in Int /\ S * q <= -x /\ -x < S * q + S
    BY <1>1, QuotientBelow
  <1>3. Ceil(x) = -q
    BY DEF Ceil
  <1> HIDE DEF q
  <1>4. S * (-q) = -(S * q)
    BY <1>1, <1>2
  <1>5. S * q \in Int
    BY <1>1, <1>2
  <1>6. QED
    BY <1>1, <1>2, <1>3, <1>4, <1>5

\* The first loop never writes element 0.
LEMMA InitSized == Init => Sized
  <1> SUFFICES ASSUME Init PROVE Sized
    OBVIOUS
  <1>1. a \in Nat
    BY InitInv DEF Inv, Tables
  <1>2. mi = [k \in 0 .. a |-> IF k = 0 THEN Ceil(ni) ELSE 0] /\ ni = FirstSize(mReq)
    BY DEF Init
  <1>3. mi[0] = Ceil(ni)
    BY <1>1, <1>2
  <1>4. QED
    BY <1>2, <1>3 DEF Init, Sized

\* Nor does any other step.
LEMMA NextSized == Inv /\ Sized /\ [Next]_vars => Sized'
  <1> SUFFICES ASSUME Inv, Sized, [Next]_vars PROVE Sized'
    OBVIOUS
  <1>1. Tables
    BY DEF Inv
  <1>2. UNCHANGED <<mReq, tPri, a>>
    BY DEF Next, Grow, Close, Refit, LastBlock, Stopped, vars
  <1>3. \A j, x : j # 0 => [mi EXCEPT ![j] = x][0] = mi[0]
    BY <1>1 DEF Tables
  <1>4. mi'[0] = mi[0]
    <2>1. CASE Grow
      <3>1. i # 0
        BY <2>1 DEF Inv, Grow, Growing, Tables
      <3>2. QED
        BY <1>3, <2>1, <3>1 DEF Grow
    <2>2. CASE Close
      <3>1. a # 0
        BY <1>1 DEF Tables
      <3>2. QED
        BY <1>3, <2>2, <3>1 DEF Close
    <2>3. CASE Refit
      <3>1. InRange(i - 1) => i # 0
        BY <1>1 DEF InRange, Tables
      <3>2. mi' = mi \/ (InRange(i - 1) /\ mi' = [mi EXCEPT ![i] = Threshold])
        BY <2>3 DEF Refit
      <3>3. QED
        BY <1>1, <3>1, <3>2 DEF Tables
    <2>4. CASE LastBlock
      <3>1. InRange(newA - 1) => newA # 0
        BY <1>1 DEF InRange, Tables
      <3>2. mi' = mi \/ (InRange(newA - 1) /\ mi' = [mi EXCEPT ![newA] = sumA])
        BY <2>4 DEF LastBlock
      <3>3. QED
        BY <1>1, <3>1, <3>2 DEF Tables
    <2>5. CASE Stopped \/ UNCHANGED vars
      BY <2>5 DEF Stopped, vars
    <2>6. QED
      BY <2>1, <2>2, <2>3, <2>4, <2>5 DEF Next
  <1>5. mi'[0] = Ceil(FirstSize(mReq))
    BY <1>4 DEF Sized
  <1>6. FirstSize(mReq)' = FirstSize(mReq)
    BY <1>2 DEF FirstSize
  <1>7. QED
    BY <1>2, <1>5, <1>6 DEF Sized, Ceil

\* In every behaviour.
LEMMA AlwaysSized == Spec => []Sized
  BY InitSized, NextSized, Invariance, PTL DEF Spec

\* The first block is at most m_req / r, the number of rows of m_req bits.
LEMMA FirstBlockBelow ==
  ASSUME NEW m \in Nat
  PROVE  FirstSize(m) \in Int /\ Ceil(FirstSize(m)) \in Int /\ Ceil(FirstSize(m)) * R <= m * S
  <1>1. S \in Nat \ {0} /\ R \in Nat \ {0} /\ m * S * S \in Nat /\ m * S \in Nat
    BY ScaleAssumption
  <1> DEFINE q == (m * S * S) \div R
             c == Ceil(FirstSize(m))
  <1>2. q \in Int /\ R * q <= m * S * S
    BY <1>1, QuotientBelow
  <1>3. FirstSize(m) = q - S
    BY DEF FirstSize
  <1>4. FirstSize(m) \in Int
    BY <1>1, <1>2, <1>3
  <1> HIDE DEF q
  <1>5. c \in Int /\ S * c < q
    BY <1>1, <1>2, <1>3, <1>4, CeilBounds
  <1> HIDE DEF c
  <1>6. R * (S * c) <= R * q
    BY <1>1, <1>2, <1>5
  <1>7. R * (S * c) = S * (c * R) /\ m * S * S = S * (m * S) /\ c * R \in Int /\ R * q \in Int
    BY <1>1, <1>2, <1>5
  <1>8. S * (c * R) <= S * (m * S)
    BY <1>1, <1>2, <1>5, <1>6, <1>7
  <1>9. c * R <= m * S
    BY ONLY <1>1, <1>7, <1>8
  <1>10. QED
    BY <1>4, <1>5, <1>9 DEF c

-----------------------------------------------------------------------------
(* Sizes: never increasing, none below the threshold before a_pt *)

\* The first blocks, to block last, are no smaller than the threshold and
\* each is no larger than the one before.
Descending(last) ==
  /\ \A k \in 0 .. last : mi[k] >= Threshold
  /\ \A k \in 1 .. last : mi[k] <= mi[k - 1]

\* In the first loop the latest block is n_i to less than a bit, and what
\* follows a_pt is left to the second loop, which has enough bits for it.
Cutting ==
  /\ S * (mi[i - 1] - 1) < ni /\ ni < S * (mi[i - 1] + 1)
  /\ Descending(IF aPt = 0 THEN i - 1 ELSE aPt - 1)
  /\ aPt = 0 /\ i >= 2 => mi[i - 1] > Threshold
  /\ aPt # 1 /\ i >= 2 => mi[0] > Threshold
  /\ aPt = 1 => mReq - base[1] >= 2
  /\ aPt >= 2 => S * (mReq - base[aPt]) > (Threshold + 1) * (R - S)

Regular ==
  mReq >= 6 =>
    /\ Threshold >= 2
    /\ pc = "grow" => Cutting
    /\ pc = "refit" /\ i >= 1 => Descending(i - 1) /\ sumA < Threshold * (newA - i + 1)
    /\ pc = "done" => SizesNeverIncrease

\* A block cut between two partial sums is their difference to less than a bit.
LEMMA BlockBounds ==
  ASSUME NEW x \in Int, NEW y \in Int
  PROVE  /\ Ceil(x + y) - Ceil(x) \in Int
         /\ S * ((Ceil(x + y) - Ceil(x)) - 1) < y
         /\ y < S * ((Ceil(x + y) - Ceil(x)) + 1)
  <1>1. S \in Nat \ {0} /\ x + y \in Int
    BY ScaleAssumption
  <1> DEFINE c == Ceil(x)
             e == Ceil(x + y)
  <1>2. c \in Int /\ x <= S * c /\ S * c < x + S
    BY CeilBounds
  <1>3. e \in Int /\ x + y <= S * e /\ S * e < (x + y) + S
    BY <1>1, CeilBounds
  <1> HIDE DEF c, e
  <1>4. S * ((e - c) - 1) = S * e - S * c - S /\ S * ((e - c) + 1) = S * e - S * c + S
    BY <1>1, <1>2, <1>3
  <1>5. S * e \in Int /\ S * c \in Int
    BY <1>1, <1>2, <1>3
  <1>6. e - c \in Int /\ S * ((e - c) - 1) < y /\ y < S * ((e - c) + 1)
    BY <1>1, <1>2, <1>3, <1>4, <1>5
  <1>7. QED
    BY <1>6 DEF c, e

\* From two bits on, the next block is no larger.
LEMMA NextNotLarger ==
  ASSUME RatioNearE, NEW M \in Int, M >= 2, NEW y \in Int, y < S * (M + 1),
         NEW d \in Int, S * (d - 1) < Shrink(y)
  PROVE  d <= M
  <1> SUFFICES ASSUME d >= M + 1 PROVE FALSE
    OBVIOUS
  <1>1. S \in Nat \ {0} /\ R \in Nat \ {0} /\ R - S \in Nat \ {0} /\ 100 * R <= 272 * S
    BY ScaleAssumption DEF RatioNearE
  <1>2. Shrink(y) \in Int /\ R * Shrink(y) <= y * (R - S)
    BY ShrinkBelow
  <1>3. S * M <= S * (d - 1)
    BY <1>1
  <1>4. S * M \in Int /\ S * (d - 1) \in Int /\ S * M < Shrink(y)
    BY <1>1, <1>2, <1>3
  <1>5. R * (S * M) < R * Shrink(y)
    BY <1>1, <1>2, <1>4
  <1>6. y * (R - S) < (S * (M + 1)) * (R - S)
    BY <1>1
  <1>7. R * (S * M) = S * (R * M) /\ (S * (M + 1)) * (R - S) = S * ((M + 1) * (R - S))
    BY <1>1
  <1>8. R * M \in Int /\ (M + 1) * (R - S) \in Int /\ R * Shrink(y) \in Int /\ y * (R - S) \in Int
    BY <1>1, <1>2
  <1>9. S * (R * M) < S * ((M + 1) * (R - S))
    BY <1>1, <1>2, <1>5, <1>6, <1>7, <1>8
  <1>10. R * M < (M + 1) * (R - S)
    BY ONLY <1>1, <1>8, <1>9
  <1>11. (M + 1) * (R - S) = R * M - S * M + R - S /\ S * M >= S * 2
    BY <1>1
  <1>12. QED
    BY <1>1, <1>4, <1>8, <1>10, <1>11

\* From six bits on the first block has at least two.
LEMMA FirstAtLeastTwo ==
  ASSUME RatioNearE, NEW m \in Nat, m >= 6
  PROVE  Ceil(FirstSize(m)) >= 2
  <1>1. S \in Nat /\ S >= 100 /\ R \in Nat \ {0} /\ 100 * R <= 272 * S
    BY ScaleAssumption DEF RatioNearE
  <1> DEFINE q == (m * S * S) \div R
             c == Ceil(FirstSize(m))
             w == S * S
  <1>2. w \in Nat /\ w >= 100 * S
    BY <1>1
  <1>3. m * S * S = m * w /\ m * w >= 6 * w /\ m * w \in Nat
    BY <1>1, <1>2
  <1>4. q \in Int /\ m * w < R * q + R
    BY <1>1, <1>3, QuotientBelow
  <1>5. FirstSize(m) = q - S
    BY DEF FirstSize
  <1> HIDE DEF q
  <1>6. 100 * (R * S) <= 272 * w
    <2>1. (100 * R) * S <= (272 * S) * S
      BY <1>1
    <2>2. (100 * R) * S = 100 * (R * S) /\ (272 * S) * S = 272 * w
      BY <1>1
    <2>3. QED
      BY <2>1, <2>2
  <1>7. R * (2 * S + 1) < R * (q + 1)
    <2>1. R * (2 * S + 1) = 2 * (R * S) + R /\ R * (q + 1) = R * q + R /\ R * S \in Nat /\ R * q \in Int
      BY <1>1, <1>4
    <2> HIDE DEF w
    <2>2. QED
      BY <1>1, <1>2, <1>3, <1>4, <1>6, <2>1
  <1>8. 2 * S + 1 < q + 1
    BY ONLY <1>1, <1>4, <1>7
  <1>9. FirstSize(m) \in Int /\ FirstSize(m) > S
    BY <1>1, <1>4, <1>5, <1>8
  <1>10. c \in Int /\ FirstSize(m) <= S * c
    BY <1>9, CeilBounds
  <1> HIDE DEF c
  <1>11. S * c > S
    BY <1>1, <1>9, <1>10
  <1>12. c >= 2
    BY ONLY <1>1, <1>10, <1>11
  <1>13. QED
    BY <1>12 DEF c

\* m_req / r leaves two bits or more for the other blocks.
LEMMA TwoBitsLeft ==
  ASSUME RatioNearE, NEW m \in Nat, m >= 6, NEW c \in Int, c * R <= m * S
  PROVE  m - c >= 2
  <1>1. S \in Nat \ {0} /\ R \in Nat \ {0} /\ 27 * S <= 10 * R
    BY ScaleAssumption DEF RatioNearE
  <1>2. CASE c <= 0
    BY <1>2
  <1>3. CASE c > 0
    <2>1. c * (27 * S) <= c * (10 * R)
      BY <1>1, <1>3
    <2>2. c * (27 * S) = S * (27 * c) /\ c * (10 * R) = 10 * (c * R) /\ 10 * (m * S) = S * (10 * m)
      BY <1>1
    <2>3. S * (27 * c) <= S * (10 * m)
      <3>1. c * R \in Int /\ m * S \in Int
        BY <1>1
      <3>2. QED
        BY <1>1, <2>1, <2>2, <3>1
    <2>4. 27 * c <= 10 * m
      BY ONLY <1>1, <1>3, <2>3, m \in Nat, c \in Int
    <2>5. QED
      BY <1>3, <2>4
  <1>4. QED
    BY <1>2, <1>3

\* At the start: the first block.
LEMMA InitRegular == ASSUME RatioNearE, FewBlocks, Init PROVE Regular
  <1> SUFFICES ASSUME mReq >= 6
               PROVE  Threshold >= 2 /\ Cutting /\ pc = "grow"
    BY DEF Init, Regular
  <1>1. Tables /\ Sized
    BY InitInv, InitSized DEF Inv
  <1>2. i = 1 /\ aPt = 0 /\ pc = "grow" /\ ni = FirstSize(mReq)
    BY DEF Init
  <1>3. mi[0] = Ceil(ni) /\ mi[0] >= 2 /\ mi[0] \in Int /\ ni \in Int
    <2>1. mReq \in Nat /\ ni \in Int
      BY <1>1 DEF Tables
    <2>2. QED
      BY <1>1, <1>2, <2>1, FirstAtLeastTwo, CeilType DEF Sized
  <1>4. tPri >= 2 /\ tPri \in Nat
    <2>1. 2 * a <= 3 * tPri
      BY <1>1 DEF Sized, FewBlocks
    <2>2. QED
      BY <1>1, <2>1 DEF Tables
  <1>5. Threshold >= 2 /\ mi[0] >= Threshold
    BY <1>3, <1>4 DEF Threshold
  <1>6. S * (mi[0] - 1) < ni /\ ni < S * (mi[0] + 1)
    <2>1. S \in Nat \ {0}
      BY ScaleAssumption
    <2>2. ni <= S * mi[0] /\ S * mi[0] < ni + S
      BY <1>3, CeilBounds
    <2>3. S * (mi[0] - 1) = S * mi[0] - S /\ S * (mi[0] + 1) = S * mi[0] + S /\ S * mi[0] \in Int
      BY <1>3, <2>1
    <2>4. QED
      BY <1>3, <2>1, <2>2, <2>3
  <1>7. Descending(0)
    BY <1>5 DEF Descending
  <1>8. i - 1 = 0
    BY <1>2
  <1>9. QED
    BY <1>2, <1>5, <1>6, <1>7, <1>8 DEF Cutting

\* The blocks of Descending are kept by a step that writes none of them.
LEMMA DescendingKept ==
  ASSUME Descending(aPt - 1), aPt \in 1 .. a, a \in Nat, aPt' = aPt, Threshold' = Threshold,
         \A k \in 0 .. aPt - 1 : mi'[k] = mi[k]
  PROVE  Descending(aPt - 1)'
  <1>1. \A k \in 1 .. aPt - 1 : k \in 0 .. aPt - 1 /\ k - 1 \in 0 .. aPt - 1
    OBVIOUS
  <1>2. QED
    BY <1>1 DEF Descending

\* What the sums may still grow by leaves enough for the blocks after a_pt.
LEMMA TailLeft ==
  ASSUME NEW m \in Nat, NEW x \in Int, NEW y \in Int, NEW T \in Nat,
         S * x + y * (R - S) <= S * (m * S - R), y > S * T
  PROVE  S * (m - Ceil(x)) > (T + 1) * (R - S)
  <1>1. S \in Nat \ {0} /\ R \in Nat \ {0} /\ R - S \in Nat \ {0}
    BY ScaleAssumption
  <1> DEFINE c == Ceil(x)
             D == R - S
  <1>2. c \in Int /\ S * c < x + S
    BY CeilBounds
  <1>3. D \in Nat \ {0} /\ R = S + D
    BY <1>1
  <1> HIDE DEF c, D
  <1>4. y * D > (S * T) * D
    BY <1>1, <1>3
  <1>5. S * x + y * D <= S * (m * S - R)
    BY DEF D
  <1>6. (S * T) * D = S * (T * D) /\ T * D \in Nat
    BY <1>1, <1>3
  <1>7. S * x < S * ((m * S - R) - T * D)
    <2>1. S * ((m * S - R) - T * D) = S * (m * S - R) - S * (T * D)
      BY <1>1, <1>6
    <2>2. S * x \in Int /\ y * D \in Int /\ S * (T * D) \in Int /\ S * (m * S - R) \in Int
      BY <1>1, <1>3, <1>6
    <2>3. QED
      BY <1>4, <1>5, <1>6, <2>1, <2>2
  <1>8. x < (m * S - R) - T * D
    <2>1. m * S \in Int
      BY <1>1
    <2>2. (m * S - R) - T * D \in Int
      BY <1>1, <1>6, <2>1
    <2>3. QED
      BY ONLY <1>1, <1>7, <2>2, x \in Int
  <1>9. S * c < m * S - D - T * D
    <2>1. m * S \in Int /\ S * c \in Int
      BY <1>1, <1>2
    <2>2. QED
      BY <1>1, <1>2, <1>3, <1>6, <1>8, <2>1
  <1>10. S * (m - c) = m * S - S * c /\ (T + 1) * D = T * D + D /\ m * S \in Int /\ S * c \in Int
    BY <1>1, <1>2, <1>3
  <1>11. S * (m - c) > (T + 1) * D
    BY <1>3, <1>6, <1>9, <1>10
  <1>12. QED
    BY <1>11 DEF c, D

\* A turn of the first loop: the next block is no larger than the latest.
LEMMA GrowRegular == ASSUME RatioNearE, Inv, Sized, Regular, Grow PROVE Regular'
  <1> SUFFICES ASSUME mReq >= 6
               PROVE  Threshold' >= 2 /\ Cutting'
    BY DEF Regular, Grow
  <1>1. Tables /\ Growing /\ i < a /\ Threshold >= 2 /\ Cutting
    BY DEF Inv, Grow, Regular
  <1>2. /\ i \in 1 .. a - 1 /\ a \in Nat /\ aPt \in 0 .. i - 1 /\ mReq \in Nat /\ tPri \in Nat
        /\ mi \in [0 .. a -> Int] /\ base \in [0 .. a -> Int] /\ ni \in Int /\ sumNi \in Int
    BY <1>1 DEF Tables, Growing
  <1>3. S \in Nat \ {0} /\ R \in Nat \ {0} /\ R - S \in Nat
    BY ScaleAssumption
  <1> DEFINE b == Ceil(sumNi)
             d == mi'[i]
             M == mi[i - 1]
             T == Threshold
  <1>4. b \in Int /\ base' = [base EXCEPT ![i] = b] /\ base'[i] = b
    <2>1. base' = [base EXCEPT ![i] = mi[i - 1] + base[i - 1]]
      BY DEF Grow
    <2>2. mi[i - 1] + base[i - 1] = b
      BY <1>1 DEF Growing
    <2>3. b \in Int
      BY <1>2, CeilType
    <2> HIDE DEF b
    <2>4. base' = [base EXCEPT ![i] = b]
      BY <2>1, <2>2
    <2>5. i \in 0 .. a
      BY <1>2
    <2>6. QED
      BY <1>2, <2>3, <2>4, <2>5
  <1>5. ni' = Shrink(ni) /\ ni' \in Int /\ sumNi' = sumNi + ni' /\ sumNi' \in Int
    <2>1. ni' = Shrink(ni) /\ sumNi' = sumNi + ni'
      BY DEF Grow
    <2>2. Shrink(ni) \in Int
      BY <1>2, ShrinkBelow
    <2>3. QED
      BY <1>2, <2>1, <2>2
  <1>6. mi' = [mi EXCEPT ![i] = Ceil(sumNi') - b] /\ d = Ceil(sumNi') - b
    <2>1. mi' = [mi EXCEPT ![i] = Ceil(sumNi') - base'[i]]
      BY DEF Grow
    <2>2. QED
      BY <1>2, <1>4, <2>1
  <1>7. d \in Int /\ S * (d - 1) < ni' /\ ni' < S * (d + 1)
    BY <1>2, <1>5, <1>6, BlockBounds
  <1>8. i' = i + 1 /\ UNCHANGED <<pc, mReq, tPri, a>>
    BY DEF Grow
  <1>9. aPt' = IF d <= T /\ aPt = 0 THEN i ELSE aPt
    BY DEF Grow
  <1>10. \A k \in 0 .. i - 1 : mi'[k] = mi[k] /\ base'[k] = base[k] /\ mi[k] \in Int /\ base[k] \in Int
    BY <1>2, <1>4, <1>6
  <1>11. Threshold' = T /\ T \in Int /\ T \in Nat
    <2>1. mi'[0] = mi[0] /\ mi[0] \in Int
      BY <1>2, <1>10
    <2>2. QED
      BY <1>1, <1>2, <1>8, <2>1 DEF Threshold
  <1>12. M \in Int /\ S * (M - 1) < ni /\ ni < S * (M + 1)
    BY <1>1, <1>10, <1>2 DEF Cutting
  <1>13. aPt = 0 => Descending(i - 1) /\ M >= T
    <2>1. aPt = 0 => Descending(i - 1)
      BY <1>1 DEF Cutting
    <2>2. i - 1 \in 0 .. i - 1
      BY <1>2
    <2>3. QED
      BY <2>1, <2>2 DEF Descending
  <1>14. aPt = 0 => d <= M
    <2>1. aPt = 0 => M >= 2
      BY <1>1, <1>11, <1>12, <1>13
    <2> HIDE DEF d, M
    <2>2. QED
      BY <1>2, <1>5, <1>7, <1>12, <2>1, NextNotLarger
  <1> HIDE DEF b, d, M, T
  <1>15. Descending(IF aPt = 0 THEN i - 1 ELSE aPt - 1)'
    <2>1. CASE aPt' = 0
      <3>1. aPt = 0 /\ d > T
        BY <1>2, <1>7, <1>9, <1>11, <2>1
      <3>2. Descending(i - 1)
        BY <1>13, <3>1
      <3>3. \A k \in 0 .. i : mi'[k] >= T
        <4>1. \A k \in 0 .. i : k = i \/ k \in 0 .. i - 1
          BY <1>2
        <4>2. d >= T
          BY <1>7, <1>11, <3>1
        <4>3. QED
          BY <1>10, <3>2, <4>1, <4>2 DEF Descending, d, T
      <3>4. \A k \in 1 .. i : mi'[k] <= mi'[k - 1]
        <4>1. \A k \in 1 .. i : k = i \/ (k \in 1 .. i - 1 /\ k \in 0 .. i - 1)
          BY <1>2
        <4>2. \A k \in 1 .. i : k - 1 \in 0 .. i - 1
          BY <1>2
        <4>3. d <= M
          BY <1>14, <3>1
        <4>4. QED
          BY <1>10, <3>2, <4>1, <4>2, <4>3 DEF Descending, d, M
      <3>5. i' - 1 = i
        BY <1>2, <1>8
      <3>6. QED
        BY <1>11, <2>1, <3>3, <3>4, <3>5 DEF Descending, T
    <2>2. CASE aPt' # 0 /\ aPt = 0
      <3>1. aPt' = i /\ Descending(i - 1)
        BY <1>9, <1>13, <2>2
      <3>2. \A k \in 1 .. i - 1 : k \in 0 .. i - 1 /\ k - 1 \in 0 .. i - 1
        BY <1>2
      <3>3. \A k \in 0 .. i - 1 : mi'[k] >= T
        BY <1>10, <3>1 DEF Descending, T
      <3>4. \A k \in 1 .. i - 1 : mi'[k] <= mi'[k - 1]
        BY <1>10, <3>1, <3>2 DEF Descending
      <3>5. QED
        BY <1>11, <2>2, <3>1, <3>3, <3>4 DEF Descending
    <2>3. CASE aPt # 0
      <3>1. aPt' = aPt /\ aPt \in 1 .. a /\ Descending(aPt - 1)
        BY <1>1, <1>2, <1>9, <2>3 DEF Cutting
      <3>2. \A k \in 0 .. aPt - 1 : k \in 0 .. i - 1
        BY <1>2
      <3>3. Descending(aPt - 1)'
        BY <1>2, <1>10, <1>11, <3>1, <3>2, DescendingKept DEF T
      <3>4. QED
        BY <2>3, <3>1, <3>3
    <2>4. QED
      BY <2>1, <2>2, <2>3
  <1>16. aPt' = 0 => mi'[i] > T
    BY <1>7, <1>9, <1>11, <1>2 DEF d
  <1>17. aPt' # 1 => mi'[0] > T
    <2> SUFFICES ASSUME aPt' # 1 PROVE mi[0] > T
      BY <1>2, <1>10
    <2>1. CASE i = 1
      <3>1. aPt = 0 /\ aPt' = 0
        BY <1>2, <1>9, <2>1
      <3>2. d > T /\ d <= M /\ M = mi[0]
        BY <1>7, <1>9, <1>11, <1>14, <2>1, <3>1 DEF M
      <3>3. QED
        BY <1>7, <1>11, <1>12, <3>2
    <2>2. CASE i # 1
      <3>1. i >= 2 /\ aPt # 1
        BY <1>2, <1>9, <2>2
      <3>2. QED
        BY <1>1, <3>1 DEF Cutting, T
    <2>3. QED
      BY <2>1, <2>2
  <1>18. aPt' = 1 => mReq - base'[1] >= 2
    <2> SUFFICES ASSUME aPt' = 1 PROVE mReq - base'[1] >= 2
      OBVIOUS
    <2>1. CASE aPt = 1
      <3>1. base'[1] = base[1]
        BY <1>2, <1>10, <2>1
      <3>2. QED
        BY <1>1, <2>1, <3>1 DEF Cutting
    <2>2. CASE aPt # 1
      <3>1. aPt = 0 /\ i = 1
        BY <1>2, <1>9, <2>2
      <3>2. base'[1] = mi[0]
        BY <1>1, <1>2, <1>4, <3>1 DEF Growing, Chained, b
      <3>3. mi[0] \in Int /\ mi[0] * R <= mReq * S
        BY <1>2, FirstBlockBelow DEF Sized
      <3>4. QED
        BY <1>2, <3>2, <3>3, TwoBitsLeft
    <2>3. QED
      BY <2>1, <2>2
  <1>19. aPt' >= 2 => S * (mReq - base'[aPt']) > (T + 1) * (R - S)
    <2> SUFFICES ASSUME aPt' >= 2 PROVE S * (mReq - base'[aPt']) > (T + 1) * (R - S)
      OBVIOUS
    <2>1. CASE aPt # 0
      <3>1. aPt' = aPt /\ base'[aPt] = base[aPt]
        BY <1>2, <1>9, <1>10, <2>1
      <3>2. QED
        BY <1>1, <3>1 DEF Cutting, T
    <2>2. CASE aPt = 0
      <3>1. aPt' = i /\ i >= 2
        BY <1>2, <1>9, <2>2
      <3>2. M > T
        BY <1>1, <2>2, <3>1 DEF Cutting, M, T
      <3>3. S * T <= S * (M - 1)
        BY <1>3, <1>11, <1>12, <3>2
      <3>4. ni > S * T
        <4>1. S * T \in Int /\ S * (M - 1) \in Int
          BY <1>3, <1>11, <1>12
        <4>2. QED
          BY <1>2, <1>12, <3>3, <4>1
      <3>5. S * (mReq - b) > (T + 1) * (R - S)
        BY <1>1, <1>2, <1>11, <3>4, TailLeft DEF Growing, Budget, b
      <3>6. QED
        BY <1>4, <3>1, <3>5
    <2>3. QED
      BY <2>1, <2>2
  <1>20. i' - 1 = i
    BY <1>2, <1>8
  <1>21. Cutting'
    <2>1. S' = S /\ R' = R /\ (S * (mi[i - 1] - 1) < ni)' /\ (ni < S * (mi[i - 1] + 1))'
      BY <1>7, <1>20 DEF d
    <2>2. (aPt = 0 /\ i >= 2 => mi[i - 1] > Threshold)'
      BY <1>11, <1>16, <1>20
    <2>3. (aPt # 1 /\ i >= 2 => mi[0] > Threshold)'
      BY <1>11, <1>17
    <2>4. (aPt = 1 => mReq - base[1] >= 2)' /\ (aPt >= 2 => S * (mReq - base[aPt]) > (Threshold + 1) * (R - S))'
      BY <1>8, <1>11, <1>18, <1>19
    <2>5. QED
      BY <1>15, <2>1, <2>2, <2>3, <2>4 DEF Cutting
  <1>22. QED
    BY <1>1, <1>11, <1>21 DEF T

\* The blocks counted anew do not outnumber the bits they take.
LEMMA CountBelowBits ==
  ASSUME RatioNearE, NEW T \in Nat, T >= 2, NEW p \in Nat, 2 * p <= 3 * T - 2,
         NEW s \in Int, S * s > (T + 1) * (R - S), NEW q \in Int, T * q <= s
  PROVE  q + p <= s
  <1> SUFFICES ASSUME q + p > s PROVE FALSE
    OBVIOUS
  <1>1. S \in Nat \ {0} /\ R \in Nat \ {0} /\ 27 * S <= 10 * R
    BY ScaleAssumption DEF RatioNearE
  <1>2. (T + 1) * (17 * S) <= (T + 1) * (10 * (R - S))
    BY <1>1
  <1>3. S * (10 * s) > S * (17 * (T + 1))
    <2>1. (T + 1) * (17 * S) = S * (17 * (T + 1)) /\ (T + 1) * (10 * (R - S)) = 10 * ((T + 1) * (R - S))
      BY <1>1
    <2>2. S * (10 * s) = 10 * (S * s) /\ S * s \in Int /\ (T + 1) * (R - S) \in Int /\ S * (17 * (T + 1)) \in Int
      BY <1>1
    <2>3. QED
      BY <1>2, <2>1, <2>2
  <1>4. 10 * s > 17 * (T + 1)
    BY ONLY <1>1, <1>3, s \in Int, T \in Nat
  \* q > s - p, so that T (s - p + 1) is at most s
  <1>5. T * (s - p + 1) <= s
    <2>1. s - p + 1 <= q /\ s - p + 1 \in Int
      OBVIOUS
    <2>2. T * (s - p + 1) <= T * q
      BY <2>1
    <2>3. T * (s - p + 1) \in Int /\ T * q \in Int
      BY <2>1
    <2>4. QED
      BY <2>2, <2>3
  <1>6. T * (s - p + 1) = (T - 1) * s + s - T * (p - 1)
    OBVIOUS
  <1>7. (T - 1) * s <= T * (p - 1)
    <2>1. (T - 1) * s \in Int /\ T * (p - 1) \in Int
      OBVIOUS
    <2>2. QED
      BY <1>5, <1>6, <2>1
  <1>8. T * (2 * p - 2) <= T * (3 * T - 4)
    OBVIOUS
  <1>9. (T - 1) * (10 * s) >= (T - 1) * (17 * (T + 1))
    BY <1>4
  <1> DEFINE w == T * T
  <1>10. w \in Nat /\ w >= 2 * T
    OBVIOUS
  <1>11. T * (3 * T - 4) = 3 * w - 4 * T /\ (T - 1) * (17 * (T + 1)) = 17 * w - 17
    OBVIOUS
  <1>12. T * (2 * p - 2) = 2 * (T * (p - 1)) /\ (T - 1) * (10 * s) = 10 * ((T - 1) * s)
    OBVIOUS
  <1>13. T * (p - 1) \in Int /\ (T - 1) * s \in Int
    OBVIOUS
  <1> HIDE DEF w
  <1>14. QED
    BY <1>7, <1>8, <1>9, <1>10, <1>11, <1>12, <1>13

\* The last block of the first loop; the tail's new count fits its bits.
LEMMA CloseRegular == ASSUME RatioNearE, FewBlocks, Inv, Sized, Regular, Close PROVE Regular'
  <1> SUFFICES ASSUME mReq >= 6
               PROVE  /\ Threshold' >= 2 /\ pc' = "refit"
                      /\ i' >= 1 => Descending(i - 1)' /\ sumA' < Threshold' * (newA' - i' + 1)
    BY DEF Regular, Close
  <1>1. Tables /\ Growing /\ i >= a /\ Threshold >= 2 /\ Cutting
    BY DEF Inv, Close, Regular
  <1>2. /\ i = a /\ a \in Nat /\ a >= 2 /\ aPt \in 0 .. a - 1 /\ mReq \in Nat /\ tPri \in Nat
        /\ mi \in [0 .. a -> Int] /\ base \in [0 .. a -> Int]
    BY <1>1 DEF Tables, Growing
  <1>3. UNCHANGED <<mReq, tPri, a, aPt>> /\ i' = aPt
    BY DEF Close
  <1>4. \A k \in 0 .. a - 1 : mi'[k] = mi[k] /\ base'[k] = base[k]
    <2>1. base' = [base EXCEPT ![a] = mi[a - 1] + base[a - 1]] /\ mi' = [mi EXCEPT ![a] = mReq - base'[a]]
      BY DEF Close
    <2>2. QED
      BY <1>2, <2>1
  <1>5. Threshold' = Threshold /\ Threshold \in Nat
    <2>1. mi'[0] = mi[0] /\ mi[0] \in Int
      BY <1>2, <1>4
    <2>2. QED
      BY <1>1, <1>2, <1>3, <2>1 DEF Threshold
  <1> DEFINE T == Threshold
             s == sumA'
             q == s \div T
  <1>6. s = mReq - base[aPt] /\ s \in Int /\ s >= 1
    <2>1. s = mReq - base'[aPt]
      BY DEF Close
    <2>2. base'[aPt] = base[aPt] /\ base[aPt] \in Int /\ base[aPt] < mReq
      BY <1>1, <1>2, <1>4 DEF Growing
    <2>3. QED
      BY <1>2, <2>1, <2>2
  <1>7. newA' = q + aPt /\ pc' = IF newA' > s THEN "done" ELSE "refit"
    BY <1>1, <1>5 DEF Close, IntDiv
  <1>8. T \in Nat \ {0} /\ T >= 2
    BY <1>1, <1>5
  <1> HIDE DEF T, s
  <1>9. q \in Int /\ T * q <= s /\ s < T * q + T
    BY <1>6, <1>8, QuotientBelow
  <1> HIDE DEF q
  <1>10. q >= 0 /\ 2 * q <= s
    <2>1. q >= 0
      BY <1>6, <1>8, <1>9
    <2>2. T * q >= 2 * q /\ T * q \in Int
      BY <1>8, <1>9, <2>1
    <2>3. QED
      BY <1>6, <1>9, <2>1, <2>2
  <1>11. newA' <= s
    <2>1. CASE aPt = 0
      BY <1>6, <1>7, <1>9, <1>10, <2>1
    <2>2. CASE aPt = 1
      <3>1. s >= 2
        BY <1>1, <1>6, <2>2 DEF Cutting
      <3>2. QED
        BY <1>6, <1>7, <1>9, <1>10, <2>2, <3>1
    <2>3. CASE aPt >= 2
      <3>1. S * s > (T + 1) * (R - S)
        BY <1>1, <1>6, <2>3 DEF Cutting, T
      <3>2. mi[0] > Threshold
        BY <1>1, <1>2, <2>3 DEF Cutting
      <3>3. T = tPri
        BY <3>2, <1>2 DEF T, Threshold
      <3>4. 2 * a <= 3 * tPri
        BY DEF Sized, FewBlocks
      <3>5. 2 * aPt <= 3 * T - 2
        BY <1>2, <3>3, <3>4
      <3>6. aPt \in Nat /\ T \in Nat
        BY <1>2, <1>8
      <3>7. q + aPt <= s
        BY <1>6, <1>8, <1>9, <3>1, <3>5, <3>6, CountBelowBits
      <3>8. QED
        BY <1>7, <3>7
    <2>4. QED
      BY <1>2, <2>1, <2>2, <2>3
  <1>12. pc' = "refit"
    BY <1>2, <1>6, <1>7, <1>9, <1>11
  <1>13. ASSUME i' >= 1 PROVE Descending(i - 1)' /\ s < T * (newA' - i' + 1)
    <2>1. aPt \in 1 .. a - 1 /\ aPt # 0
      BY <1>2, <1>3, <1>13
    <2>2. Descending(aPt - 1)
      BY <1>1, <2>1 DEF Cutting
    <2>3. \A k \in 0 .. aPt - 1 : mi'[k] = mi[k]
      BY <1>2, <1>4
    <2>4. Descending(aPt - 1)'
      BY <1>2, <1>3, <1>5, <2>1, <2>2, <2>3, DescendingKept
    <2>5. Descending(i - 1)'
      BY <1>3, <2>4 DEF Descending
    <2>6. newA' - i' + 1 = q + 1 /\ T * (q + 1) = T * q + T
      BY <1>2, <1>3, <1>7, <1>8, <1>9
    <2>7. QED
      BY <1>9, <2>5, <2>6
  <1>14. QED
    BY <1>1, <1>5, <1>12, <1>13 DEF T, s

\* A turn of the second loop: a block of the threshold's size.
LEMMA RefitRegular == ASSUME Inv, Regular, Refit PROVE Regular'
  <1> SUFFICES ASSUME mReq >= 6
               PROVE  /\ Threshold' >= 2
                      /\ pc' = "refit" /\ i' >= 1 => Descending(i - 1)' /\ sumA' < Threshold' * (newA' - i' + 1)
                      /\ pc' \notin {"grow", "done"}
    BY DEF Regular, Refit
  <1>1. Tables /\ Threshold >= 2 /\ pc = "refit" /\ i < newA
    BY DEF Inv, Refit, Regular
  <1>2. /\ i \in Nat /\ a \in Nat /\ newA \in Int /\ sumA \in Int /\ tPri \in Nat
        /\ mi \in [0 .. a -> Int]
    BY <1>1 DEF Tables
  <1>3. UNCHANGED <<mReq, tPri, a, newA>>
    BY DEF Refit
  <1>4. CASE ~(InRange(i) /\ InRange(i - 1))
    <2>1. pc' = "failed" /\ mi' = mi
      BY <1>4 DEF Refit
    <2>2. QED
      BY <1>1, <1>3, <2>1 DEF Threshold
  <1>5. CASE InRange(i) /\ InRange(i - 1)
    <2>1. mi' = [mi EXCEPT ![i] = Threshold] /\ sumA' = sumA - Threshold /\ i' = i + 1 /\ pc' = pc
      BY <1>5 DEF Refit
    <2>2. i \in 1 .. a
      BY <1>2, <1>5 DEF InRange
    <2>3. \A k \in 0 .. i - 1 : mi'[k] = mi[k] /\ mi[k] \in Int
      BY <1>2, <2>1, <2>2
    <2>4. Threshold' = Threshold /\ Threshold \in Nat
      <3>1. mi'[0] = mi[0] /\ mi[0] \in Int
        BY <2>2, <2>3
      <3>2. QED
        BY <1>1, <1>2, <1>3, <3>1 DEF Threshold
    <2>5. mi'[i] = Threshold
      BY <1>2, <2>1, <2>2
    <2>6. Descending(i - 1) /\ sumA < Threshold * (newA - i + 1)
      BY <1>1, <2>2 DEF Regular
    <2>7. \A k \in 0 .. i : mi'[k] >= Threshold
      <3>1. \A k \in 0 .. i : k = i \/ k \in 0 .. i - 1
        BY <2>2
      <3>2. QED
        BY <2>3, <2>4, <2>5, <2>6, <3>1 DEF Descending
    <2>8. \A k \in 1 .. i : mi'[k] <= mi'[k - 1]
      <3>1. \A k \in 1 .. i : k - 1 \in 0 .. i - 1 /\ (k = i \/ (k \in 1 .. i - 1 /\ k \in 0 .. i - 1))
        BY <2>2
      <3>2. QED
        BY <2>3, <2>5, <2>6, <3>1 DEF Descending
    <2>9. i' - 1 = i
      BY <1>2, <2>1
    <2>10. Descending(i - 1)'
      BY <2>4, <2>7, <2>8, <2>9 DEF Descending
    <2>11. sumA' < Threshold * (newA - i' + 1)
      <3> DEFINE T == Threshold
      <3> HIDE DEF T
      <3>1. T \in Nat /\ sumA < T * (newA - i + 1) /\ sumA' = sumA - T /\ i' = i + 1
        BY <2>1, <2>4, <2>6 DEF T
      <3> DEFINE e == newA - i + 1
      <3>2. newA - i' + 1 = e - 1 /\ e \in Int /\ sumA < T * e
        BY <1>2, <3>1
      <3> HIDE DEF e
      <3>3. T * (e - 1) = T * e - T /\ T * e \in Int
        BY <3>1, <3>2
      <3>4. sumA' < T * (newA - i' + 1)
        BY <1>2, <3>1, <3>2, <3>3
      <3>5. QED
        BY <3>4 DEF T
    <2>12. QED
      BY <1>1, <1>3, <2>1, <2>4, <2>10, <2>11
  <1>6. QED
    BY <1>4, <1>5

\* The last block: less than the threshold, if any.
LEMMA LastBlockRegular == ASSUME Inv, Regular, LastBlock PROVE Regular'
  <1> SUFFICES ASSUME mReq >= 6
               PROVE  Threshold' >= 2 /\ pc' \in {"done", "failed"} /\ (pc' = "done" => SizesNeverIncrease')
    BY DEF Regular, LastBlock
  <1>1. Tables /\ Refitting /\ Threshold >= 2 /\ pc = "refit" /\ i >= newA
    BY DEF Inv, LastBlock, Regular
  <1>2. /\ i \in Nat /\ a \in Nat /\ newA = i /\ sumA \in Int /\ tPri \in Nat
        /\ mi \in [0 .. a -> Int]
    BY <1>1 DEF Tables, Refitting
  <1>3. UNCHANGED <<mReq, tPri, a>>
    BY DEF LastBlock
  <1> DEFINE T == Threshold
  <1>4. CASE sumA > 0 /\ ~(InRange(newA) /\ InRange(newA - 1))
    <2>1. pc' = "failed" /\ mi' = mi
      BY <1>4 DEF LastBlock
    <2>2. QED
      BY <1>1, <1>3, <2>1 DEF Threshold
  <1>5. CASE sumA > 0 /\ InRange(newA) /\ InRange(newA - 1)
    <2>1. mi' = [mi EXCEPT ![i] = sumA] /\ aOut' = i /\ pc' = "done"
      BY <1>2, <1>5 DEF LastBlock
    <2>2. i \in 1 .. a
      BY <1>2, <1>5 DEF InRange
    <2>3. \A k \in 0 .. i - 1 : mi'[k] = mi[k] /\ mi[k] \in Int
      BY <1>2, <2>1, <2>2
    <2>4. Threshold' = Threshold /\ T \in Nat
      <3>1. mi'[0] = mi[0] /\ mi[0] \in Int
        BY <2>2, <2>3
      <3>2. QED
        BY <1>1, <1>2, <1>3, <3>1 DEF Threshold
    <2>5. Descending(i - 1) /\ sumA < T * (newA - i + 1)
      BY <1>1, <2>2 DEF Regular
    <2> HIDE DEF T
    <2>6. sumA < T
      <3>1. newA - i + 1 = 1 /\ T * 1 = T
        BY <1>2, <2>4
      <3>2. QED
        BY <2>5, <3>1
    <2>7. mi'[i] = sumA
      BY <1>2, <2>1, <2>2
    <2>8. \A k \in 0 .. i - 1 : mi'[k] >= T
      BY <2>3, <2>5 DEF Descending, T
    <2>9. \A k \in 0 .. i : mi'[k] > 0
      <3>1. \A k \in 0 .. i : k = i \/ k \in 0 .. i - 1
        BY <2>2
      <3>2. T >= 2
        BY <1>1 DEF T
      <3>3. QED
        BY <1>5, <2>3, <2>4, <2>7, <2>8, <3>1, <3>2
    <2>10. \A k \in 1 .. i : mi'[k] <= mi'[k - 1]
      <3>1. \A k \in 1 .. i : k - 1 \in 0 .. i - 1 /\ (k = i \/ (k \in 1 .. i - 1 /\ k \in 0 .. i - 1))
        BY <2>2
      <3>2. sumA <= mi'[i - 1]
        <4>1. i - 1 \in 0 .. i - 1
          BY <2>2
        <4>2. mi'[i - 1] >= T /\ mi'[i - 1] \in Int
          BY <2>3, <2>8, <4>1
        <4>3. QED
          BY <1>2, <2>4, <2>6, <4>2
      <3>3. \A k \in 1 .. i - 1 : mi'[k] <= mi'[k - 1]
        <4>1. \A k \in 1 .. i - 1 : k \in 0 .. i - 1 /\ k - 1 \in 0 .. i - 1
          BY <1>2
        <4>2. QED
          BY <2>3, <2>5, <4>1 DEF Descending
      <3>4. QED
        BY <2>7, <3>1, <3>2, <3>3
    <2>11. QED
      BY <1>1, <2>1, <2>4, <2>9, <2>10 DEF SizesNeverIncrease
  <1>6. CASE ~(sumA > 0)
    <2>1. mi' = mi /\ aOut' = i - 1 /\ pc' = "done"
      BY <1>2, <1>6 DEF LastBlock
    <2>2. i >= 1
      <3>1. i = 0 => sumA >= 1
        BY <1>1 DEF Refitting
      <3>2. QED
        BY <1>2, <1>6, <3>1
    <2>3. Descending(i - 1) /\ i - 1 \in 0 .. a
      BY <1>1, <1>2, <2>2 DEF Regular, Refitting
    <2>4. \A k \in 0 .. i - 1 : mi[k] > 0
      <3>1. Threshold >= 2 /\ Threshold \in Int
        BY <1>1, <1>2 DEF Threshold
      <3>2. \A k \in 0 .. i - 1 : k \in 0 .. a
        BY <1>2, <2>3
      <3>3. QED
        BY <1>2, <2>3, <3>1, <3>2 DEF Descending
    <2>5. Threshold' = Threshold
      BY <1>3, <2>1 DEF Threshold
    <2>6. QED
      BY <1>1, <1>3, <2>1, <2>3, <2>4, <2>5 DEF SizesNeverIncrease, Descending
  <1>7. QED
    BY <1>4, <1>5, <1>6

\* Every step.
LEMMA NextRegular == ASSUME RatioNearE, FewBlocks PROVE Inv /\ Sized /\ Regular /\ [Next]_vars => Regular'
  <1> SUFFICES ASSUME Inv, Sized, Regular, [Next]_vars PROVE Regular'
    OBVIOUS
  <1>1. CASE Stopped \/ UNCHANGED vars
    <2>1. UNCHANGED vars
      BY <1>1 DEF Stopped
    <2>2. QED
      BY <2>1 DEF vars, Regular, Cutting, Descending, Threshold, SizesNeverIncrease
  <1>2. QED
    BY <1>1, GrowRegular, CloseRegular, RefitRegular, LastBlockRegular DEF Next

\* In every behaviour sizes are regular.
LEMMA AlwaysRegular == ASSUME RatioNearE, FewBlocks PROVE Spec => []Regular
  <1>1. Init => Regular
    BY InitRegular
  <1>2. QED
    BY <1>1, NextRegular, Invariance, AlwaysSized, PTL DEF Spec

(***************************************************************************)
(* No bit of a block is lost: block sizes never increase, so that a row is *)
(* in all blocks up to the last it has a bit for, and the rows of the      *)
(* parallel loop are no fewer than those of the first block.               *)
(***************************************************************************)
THEOREM BlocksReached == ASSUME RatioNearE, FewBlocks PROVE Spec => []EveryBlockReached
  <1>1. Inv /\ Sized /\ Regular => EveryBlockReached
    <2> SUFFICES ASSUME Inv, Sized, Regular, pc = "done" PROVE SizesNeverIncrease /\ RowsReachFirstBlock
      BY DEF EveryBlockReached
    <2>1. mReq \in Nat
      BY DEF Inv, Tables
    <2>2. RowsReachFirstBlock
      BY <2>1, FirstBlockBelow DEF Sized, RowsReachFirstBlock
    <2>3. SizesNeverIncrease
      BY DEF Regular, SizesNeverIncrease
    <2>4. QED
      BY <2>2, <2>3
  <1>2. QED
    BY <1>1, Invariance, AlwaysSized, AlwaysRegular, PTL

-----------------------------------------------------------------------------
(* Recursion on the natural numbers *)

\* Every set of natural numbers has a least element: of the intervals 1 .. k
\* for its elements one includes no other.
LEMMA LeastElement ==
  ASSUME NEW T \in SUBSET Nat, T # {}
  PROVE  \E x \in T : \A y \in T : x <= y
  <1> DEFINE F == {1 .. k : k \in T}
  <1>1. F \subseteq FiniteSubsetsOf(Nat) /\ F # {}
    <2>1. \A k \in T : 1 .. k \in SUBSET Nat /\ IsFiniteSet(1 .. k)
      BY FS_Interval
    <2>2. QED
      BY <2>1 DEF FiniteSubsetsOf
  <1>2. IsWellFoundedOn(StrictSubsetOrdering(Nat), FiniteSubsetsOf(Nat))
    BY FS_StrictSubsetOrderingWellFounded
  <1>3. PICK X \in F : \A Y \in F : ~(<<Y, X>> \in StrictSubsetOrdering(Nat))
    <2> HIDE DEF F
    <2>1. QED
      BY <1>1, <1>2, WFMin
  <1>4. PICK x \in T : X = 1 .. x
    BY <1>3
  <1>5. ASSUME NEW y \in T, ~(x <= y) PROVE FALSE
    <2>1. 1 .. y \subseteq 1 .. x /\ 1 .. y # 1 .. x
      <3>1. x \in 1 .. x /\ x \notin 1 .. y
        BY <1>5
      <3>2. 1 .. y \subseteq 1 .. x
        BY <1>5
      <3>3. QED
        BY <3>1, <3>2
    <2>2. 1 .. y \in SUBSET Nat /\ 1 .. x \in SUBSET Nat
      OBVIOUS
    <2>3. <<1 .. y, X>> \in StrictSubsetOrdering(Nat)
      BY <1>4, <2>1, <2>2 DEF StrictSubsetOrdering
    <2>4. QED
      BY <1>3, <2>3
  <1>6. QED
    BY <1>5

\* Induction up to a bound, for a set instead of an operator.
LEMMA Induct ==
  ASSUME NEW Q, 0 \in Q, NEW max \in Nat, \A k \in 0 .. max - 1 : k \in Q => k + 1 \in Q
  PROVE  0 .. max \subseteq Q
  <1> DEFINE T == {k \in 0 .. max : k \notin Q}
  <1>1. SUFFICES ASSUME T # {} PROVE FALSE
    OBVIOUS
  <1>2. T \in SUBSET Nat
    OBVIOUS
  <1>3. PICK x \in T : \A y \in T : x <= y
    <2> HIDE DEF T
    <2> QED BY <1>1, <1>2, LeastElement
  <1>4. x # 0 /\ x \in 0 .. max /\ x \notin Q
    OBVIOUS
  <1>5. x - 1 \in 0 .. max - 1 /\ x - 1 \notin T
    BY <1>3, <1>4
  <1>6. x - 1 \in Q /\ (x - 1) + 1 = x
    BY <1>4, <1>5
  <1>7. QED
    BY <1>4, <1>5, <1>6

\* f starts from start and goes from each value to the next by step.
Iterates(f, Y, start, step) ==
  f \in [Nat -> Y] /\ f[0] = start /\ \A k \in Nat : f[k + 1] = step[k + 1][f[k]]

\* A function on the natural numbers may be defined from each value to the next.
LEMMA Recursion ==
  ASSUME NEW Y, NEW start \in Y, NEW step, \A k \in Nat, y \in Y : step[k][y] \in Y
  PROVE  \E f : Iterates(f, Y, start, step)
  <1> DEFINE Good(k) == {g \in [0 .. k -> Y] : g[0] = start /\ \A j \in 1 .. k : g[j] = step[j][g[j - 1]]}
  <1>1. ASSUME NEW m0 \in Nat PROVE Good(m0) # {}
    <2> DEFINE Q == {k \in 0 .. m0 : Good(k) # {}}
    <2>1. 0 \in Q
      <3>1. [j \in 0 .. 0 |-> start] \in Good(0)
        OBVIOUS
      <3>2. QED
        BY <3>1
    <2>2. ASSUME NEW k \in 0 .. m0 - 1, k \in Q PROVE k + 1 \in Q
      <3>1. PICK g \in Good(k) : TRUE
        BY <2>2
      <3> DEFINE e == step[k + 1][g[k]]
                 h == [j \in 0 .. k + 1 |-> IF j = k + 1 THEN e ELSE g[j]]
      <3>2. g[k] \in Y /\ e \in Y /\ k \in Nat
        BY <2>2, <3>1
      <3>3. h \in [0 .. k + 1 -> Y]
        BY <3>1, <3>2
      <3>4. h[0] = start
        BY <3>1, <3>2
      <3>5. ASSUME NEW j \in 1 .. k + 1 PROVE h[j] = step[j][h[j - 1]]
        <4>1. j - 1 \in 0 .. k /\ j - 1 # k + 1
          BY <3>2, <3>5
        <4>2. h[j - 1] = g[j - 1]
          BY <3>2, <4>1
        <4>3. CASE j = k + 1
          <5>1. h[j] = e /\ j - 1 = k
            BY <3>2, <4>3
          <5>2. QED
            BY <4>2, <4>3, <5>1
        <4>4. CASE j # k + 1
          <5>1. j \in 1 .. k
            BY <3>2, <3>5, <4>4
          <5>2. h[j] = g[j]
            BY <3>2, <4>4, <5>1
          <5>3. g[j] = step[j][g[j - 1]]
            BY <3>1, <5>1
          <5>4. QED
            BY <4>2, <5>2, <5>3
        <4>5. QED
          BY <4>3, <4>4
      <3> HIDE DEF h
      <3>6. h \in Good(k + 1)
        BY <3>3, <3>4, <3>5
      <3>7. k + 1 \in 0 .. m0
        BY <2>2
      <3>8. QED
        BY <3>6, <3>7
    <2> HIDE DEF Q
    <2>3. m0 \in Q
      <3>1. 0 .. m0 \subseteq Q
        BY <2>1, <2>2, Induct
      <3>2. QED
        BY <3>1
    <2>4. QED
      BY <2>3 DEF Q
  \* two of them agree as far as the shorter goes
  <1>2. ASSUME NEW k \in Nat, NEW g \in Good(k), NEW h \in Good(k + 1) PROVE g[k] = h[k]
    <2> DEFINE Q == {l \in 0 .. k : g[l] = h[l]}
    <2>1. 0 \in Q
      BY <1>2
    <2>2. ASSUME NEW l \in 0 .. k - 1, l \in Q PROVE l + 1 \in Q
      <3>1. l + 1 \in 1 .. k /\ l + 1 \in 1 .. k + 1 /\ l + 1 \in 0 .. k /\ (l + 1) - 1 = l
        BY <2>2
      <3>2. g[l + 1] = step[l + 1][g[l]] /\ h[l + 1] = step[l + 1][h[l]]
        BY <3>1
      <3>3. QED
        BY <2>2, <3>1, <3>2
    <2> HIDE DEF Q
    <2>3. k \in Q
      <3>1. 0 .. k \subseteq Q
        BY <2>1, <2>2, Induct
      <3>2. QED
        BY <3>1
    <2>4. QED
      BY <2>3 DEF Q
  <1> DEFINE G(k) == CHOOSE g \in Good(k) : TRUE
             f == [k \in Nat |-> G(k)[k]]
  <1>3. \A k \in Nat : G(k) \in Good(k)
    BY <1>1
  <1>4. ASSUME NEW k \in Nat PROVE f[k] \in Y
    <2>1. k \in 0 .. k /\ f[k] = G(k)[k]
      <3>1. k \in 0 .. k
        OBVIOUS
      <3> HIDE DEF G
      <3>2. f[k] = G(k)[k]
        OBVIOUS
      <3>3. QED
        BY <3>1, <3>2
    <2>2. G(k) \in Good(k)
      BY <1>3
    <2> HIDE DEF G, f
    <2>3. G(k) \in [0 .. k -> Y]
      BY <2>2
    <2>4. QED
      BY <2>1, <2>3
  <1>5. f \in [Nat -> Y]
    <2> HIDE DEF G
    <2>1. \A k \in Nat : f[k] = G(k)[k]
      OBVIOUS
    <2>2. \A k \in Nat : G(k)[k] \in Y
      <3> HIDE DEF f
      <3> QED BY <1>4, <2>1
    <2>3. QED
      BY <2>2
  <1>6. f[0] = start
    <2>1. G(0) \in Good(0) /\ f[0] = G(0)[0]
      BY <1>3
    <2>2. QED
      BY <2>1
  <1>7. ASSUME NEW k \in Nat PROVE f[k + 1] = step[k + 1][f[k]]
    <2>1. k + 1 \in Nat /\ k + 1 \in 1 .. k + 1 /\ (k + 1) - 1 = k
      OBVIOUS
    <2>2. G(k + 1) \in Good(k + 1) /\ f[k + 1] = G(k + 1)[k + 1] /\ G(k) \in Good(k) /\ f[k] = G(k)[k]
      BY <1>3, <2>1
    <2>3. G(k + 1)[k + 1] = step[k + 1][G(k + 1)[(k + 1) - 1]]
      BY <2>1, <2>2
    <2> HIDE DEF G, Good, f
    <2>4. G(k)[k] = G(k + 1)[k]
      BY <1>2, <2>2
    <2>5. QED
      BY <2>1, <2>2, <2>3, <2>4
  <1> HIDE DEF f
  <1>8. Iterates(f, Y, start, step)
    BY <1>5, <1>6, <1>7 DEF Iterates
  <1>9. QED
    BY <1>8

\* The recursive definition of Shrunk.
LEMMA ShrunkSteps ==
  ASSUME NEW x \in Int
  PROVE  /\ Shrunk(x)[0] = x
         /\ \A k \in Nat : Shrunk(x)[k] \in Int /\ Shrunk(x)[k + 1] = Shrink(Shrunk(x)[k])
  <1> DEFINE step == [k \in Nat |-> [y \in Int |-> Shrink(y)]]
             Is(f) == f = [k \in Nat |-> IF k = 0 THEN x ELSE Shrink(f[k - 1])]
             f == Shrunk(x)
  <1>1. \A k \in Nat, y \in Int : step[k][y] = Shrink(y) /\ step[k][y] \in Int
    BY ShrinkBelow
  <1>2. PICK F : Iterates(F, Int, x, step)
    <2> HIDE DEF step
    <2>1. QED
      BY <1>1, Recursion
  <1>3. Is(F)
    <2>1. F \in [Nat -> Int] /\ F[0] = x /\ \A k \in Nat : F[k + 1] = step[k + 1][F[k]]
      BY <1>2 DEF Iterates
    <2>2. F = [k \in Nat |-> F[k]]
      BY <2>1
    <2>3. ASSUME NEW k \in Nat PROVE F[k] = IF k = 0 THEN x ELSE Shrink(F[k - 1])
      <3>1. CASE k = 0
        BY <2>1, <3>1
      <3>2. CASE k # 0
        <4>1. k - 1 \in Nat /\ (k - 1) + 1 = k
          BY <3>2
        <4>2. F[k] = step[k][F[k - 1]] /\ F[k - 1] \in Int
          BY <2>1, <4>1
        <4> HIDE DEF step
        <4>3. QED
          BY <1>1, <3>2, <4>2
      <3>3. QED
        BY <3>1, <3>2
    <2>4. QED
      BY <2>2, <2>3
  <1>4. f = CHOOSE g : Is(g)
    BY DEF Shrunk
  <1>5. Is(f)
    <2> HIDE DEF Is, f
    <2>1. QED
      BY <1>3, <1>4
  <1> HIDE DEF f
  <1>6. f[0] = x
    BY <1>5
  <1>7. ASSUME NEW k \in Nat PROVE f[k + 1] = Shrink(f[k])
    <2>1. k + 1 \in Nat /\ k + 1 # 0 /\ (k + 1) - 1 = k
      OBVIOUS
    <2>2. QED
      BY <1>5, <2>1
  <1>8. ASSUME NEW k \in Nat PROVE f[k] \in Int
    <2> DEFINE Q == {j \in 0 .. k : f[j] \in Int}
    <2>1. 0 \in Q
      BY <1>6
    <2>2. ASSUME NEW j \in 0 .. k - 1, j \in Q PROVE j + 1 \in Q
      BY <1>7, <2>2, ShrinkBelow
    <2> HIDE DEF Q
    <2>3. 0 .. k \subseteq Q
      BY <2>1, <2>2, Induct
    <2>4. QED
      BY <2>3 DEF Q
  <1>9. QED
    BY <1>6, <1>7, <1>8 DEF f

-----------------------------------------------------------------------------
(* Completion: what is left after a_pt fits the vectors *)

\* What is not negative stays so however often it shrinks.
LEMMA ShrunkNatural ==
  ASSUME NEW x \in Nat, NEW k \in Nat
  PROVE  Shrunk(x)[k] \in Nat
  <1> DEFINE f == Shrunk(x)
             Q == {j \in 0 .. k : f[j] >= 0}
  <1>1. f[0] = x /\ \A j \in Nat : f[j] \in Int /\ f[j + 1] = Shrink(f[j])
    BY ShrunkSteps
  <1> HIDE DEF f
  <1>2. 0 \in Q
    BY <1>1
  <1>3. ASSUME NEW j \in 0 .. k - 1, j \in Q PROVE j + 1 \in Q
    <2>1. f[j] \in Int /\ f[j] >= 0 /\ f[j + 1] = Shrink(f[j]) /\ j + 1 \in 0 .. k
      BY <1>1, <1>3
    <2>2. Shrink(f[j]) >= 0
      BY <2>1, ShrinkNatural
    <2>3. QED
      BY <2>1, <2>2
  <1> HIDE DEF Q
  <1>4. 0 .. k \subseteq Q
    BY <1>2, <1>3, Induct
  <1>5. f[k] >= 0 /\ f[k] \in Int
    BY <1>1, <1>4 DEF Q
  <1>6. QED
    BY <1>5 DEF f

\* Rounding down takes less than a unit.
LEMMA ShrinkLower ==
  ASSUME NEW x \in Int
  PROVE  Shrink(x) \in Int /\ x * (R - S) < R * Shrink(x) + R
  <1>1. R \in Nat \ {0} /\ x * (R - S) \in Int
    BY ScaleAssumption
  <1>2. QED
    BY <1>1, QuotientBelow DEF Shrink

\* Back from what is left after a turn to what was before it.
LEMMA ShrinkBack ==
  ASSUME RatioNearE, NEW w \in Nat
  PROVE  17 * w < 27 * (Shrink(w) + 1)
  <1>1. S \in Nat \ {0} /\ R \in Nat \ {0} /\ 27 * S <= 10 * R
    BY ScaleAssumption DEF RatioNearE
  <1> DEFINE D == R - S
             v == Shrink(w)
  <1>2. D \in Nat \ {0} /\ 17 * R <= 27 * D
    BY <1>1, ScaleAssumption
  <1>3. v \in Int /\ v >= 0 /\ w * D < R * v + R
    BY ShrinkLower, ShrinkNatural
  <1> HIDE DEF D, v
  <1>4. (17 * R) * (v + 1) <= (27 * D) * (v + 1)
    BY <1>1, <1>2, <1>3
  <1>5. (17 * R) * (v + 1) = 17 * (R * v + R) /\ (27 * D) * (v + 1) = D * (27 * (v + 1))
    BY <1>1, <1>2, <1>3
  <1>6. 17 * (w * D) = D * (17 * w) /\ w * D \in Int /\ R * v \in Int
    BY <1>1, <1>2, <1>3
  <1>7. D * (17 * w) < D * (27 * (v + 1))
    BY <1>1, <1>2, <1>3, <1>4, <1>5, <1>6
  <1>8. 17 * w < 27 * (v + 1)
    BY ONLY <1>2, <1>3, <1>7, w \in Nat
  <1>9. QED
    BY <1>8 DEF v

\* The first sizes take all but what the geometric series still holds.
LEMMA SumReached ==
  ASSUME NEW m \in Nat, NEW n \in Nat, NEW x \in Int, NEW y \in Int,
         S * x + y * (R - S) >= S * (m * S - R) - n * R
  PROVE  S * (S * (m - Ceil(x))) <= S * R + (n + 1) * R + R * Shrink(y)
  <1>1. S \in Nat \ {0} /\ R \in Nat \ {0} /\ R - S \in Nat
    BY ScaleAssumption
  <1> DEFINE c == Ceil(x)
             z == Shrink(y)
  <1>2. c \in Int /\ x <= S * c
    BY CeilBounds
  <1>3. z \in Int /\ y * (R - S) < R * z + R
    BY ShrinkLower
  <1> HIDE DEF c, z
  <1>4. S * x <= S * (S * c)
    BY <1>1, <1>2
  <1>5. S * (S * (m - c)) = S * (m * S) - S * (S * c) /\ S * (m * S - R) = S * (m * S) - S * R /\ (n + 1) * R = n * R + R
    BY <1>1, <1>2
  <1>6. /\ S * (m * S) \in Int /\ S * (S * c) \in Int /\ S * R \in Int /\ n * R \in Int /\ R * z \in Int
        /\ S * x \in Int /\ y * (R - S) \in Int
    BY <1>1, <1>2, <1>3
  <1>7. S * (S * (m - c)) <= S * R + (n + 1) * R + R * z
    BY <1>1, <1>3, <1>4, <1>5, <1>6
  <1>8. QED
    BY <1>7 DEF c, z

\* Divided by S.
LEMMA InBits ==
  ASSUME RatioNearE, NEW s \in Int, NEW k \in Nat, NEW z \in Int,
         S * (S * s) <= S * R + k * R + S * z
  PROVE  100 * (S * s) <= 100 * R + 272 * k + 100 * z
  <1>1. S \in Nat \ {0} /\ R \in Nat \ {0} /\ 100 * R <= 272 * S
    BY ScaleAssumption DEF RatioNearE
  <1>2. k * (100 * R) <= k * (272 * S)
    BY <1>1
  <1>3. k * (100 * R) = 100 * (k * R) /\ k * (272 * S) = S * (272 * k)
    BY <1>1
  <1> DEFINE l == 100 * (S * s)
             r == 100 * R + 272 * k + 100 * z
  <1>4. S * l = 100 * (S * (S * s)) /\ S * r = 100 * (S * R) + S * (272 * k) + 100 * (S * z)
    BY <1>1
  <1>5. /\ S * (S * s) \in Int /\ S * R \in Int /\ S * (272 * k) \in Int /\ S * z \in Int /\ k * R \in Int
        /\ l \in Int /\ r \in Int
    BY <1>1
  <1> HIDE DEF l, r
  <1>6. S * l <= S * r
    BY <1>2, <1>3, <1>4, <1>5
  <1>7. l <= r
    BY ONLY <1>1, <1>5, <1>6
  <1>8. QED
    BY <1>7 DEF l, r

\* One block of the first loop after a_pt: two of t_pri's size are enough.
LEMMA OneMore ==
  ASSUME RatioNearE, NEW T \in Nat, T >= 5, NEW s \in Int, NEW n \in Nat, 2 * (n + 1) <= 3 * T,
         NEW w \in Nat, 17 * w < 27 * (T * S - R + 1), S * (S * s) <= S * R + (n + 2) * R + S * w
  PROVE  s <= T * 2
  <1> SUFFICES ASSUME s >= 2 * T + 1 PROVE FALSE
    OBVIOUS
  <1>1. S \in Nat /\ S >= 100 /\ R \in Nat \ {0}
    BY ScaleAssumption DEF RatioNearE
  <1>2. 100 * (S * s) <= 100 * R + 272 * (n + 2) + 100 * w
    BY InBits
  <1> DEFINE p == T * S
  <1>3. p \in Nat /\ p >= 100 * T
    BY <1>1
  <1>4. S * s >= S * (2 * T + 1) /\ S * (2 * T + 1) = 2 * p + S /\ S * s \in Int
    BY <1>1
  <1>5. 17 * w < 27 * (p - R + 1)
    OBVIOUS
  <1> HIDE DEF p
  <1>6. QED
    BY <1>1, <1>2, <1>3, <1>4, <1>5

\* Two blocks after a_pt: three of t_pri's size.
LEMMA TwoMore ==
  ASSUME RatioNearE, NEW T \in Nat, T >= 5, NEW s \in Int, NEW n \in Nat, 2 * (n + 2) <= 3 * T,
         NEW v \in Nat, 17 * v < 27 * (T * S - R + 1), NEW w \in Nat, 17 * w < 27 * (v + 1),
         S * (S * s) <= S * R + (n + 2) * R + S * w
  PROVE  s <= T * 3
  <1> SUFFICES ASSUME s >= 3 * T + 1 PROVE FALSE
    OBVIOUS
  <1>1. S \in Nat /\ S >= 100 /\ R \in Nat \ {0} /\ 27 * S <= 10 * R
    BY ScaleAssumption DEF RatioNearE
  <1>2. 100 * (S * s) <= 100 * R + 272 * (n + 2) + 100 * w
    BY InBits
  <1> DEFINE p == T * S
  <1>3. p \in Nat /\ p >= 100 * T
    BY <1>1
  <1>4. S * s >= S * (3 * T + 1) /\ S * (3 * T + 1) = 3 * p + S /\ S * s \in Int
    BY <1>1
  <1>5. 17 * v < 27 * (p - R + 1)
    OBVIOUS
  <1> HIDE DEF p
  <1>6. QED
    BY <1>1, <1>2, <1>3, <1>4, <1>5

\* Three or more: the block at a_pt itself is no larger than t_pri.
LEMMA ThreeMore ==
  ASSUME RatioNearE, NEW T \in Nat, T >= 5, NEW s \in Int, NEW n \in Nat, 2 * n <= 3 * T,
         NEW y \in Int, y < S * (T + 1), S * (S * s) <= S * R + (n + 1) * R + R * y
  PROVE  s <= T * 4
  <1> SUFFICES ASSUME s >= 4 * T + 1 PROVE FALSE
    OBVIOUS
  <1>1. S \in Nat /\ S >= 100 /\ R \in Nat \ {0} /\ 100 * R <= 272 * S
    BY ScaleAssumption DEF RatioNearE
  <1> DEFINE u == R * (T + 1)
             p == T * S
  <1>2. S * (S * s) <= S * R + n * R + S * u
    <2>1. y + 1 <= S * (T + 1) /\ S * (T + 1) \in Int
      BY <1>1
    <2>2. R * (y + 1) <= R * (S * (T + 1))
      BY <1>1, <2>1
    <2>3. R * (y + 1) = R * y + R /\ R * (S * (T + 1)) = S * u /\ (n + 1) * R = n * R + R
      BY <1>1
    <2>4. R * y \in Int /\ S * u \in Int /\ n * R \in Int /\ S * R \in Int /\ S * (S * s) \in Int
      BY <1>1
    <2> HIDE DEF u
    <2>5. QED
      BY <1>1, <2>2, <2>3, <2>4
  <1>3. u \in Int /\ p \in Nat /\ p >= 100 * T
    BY <1>1
  <1>4. 100 * u <= 272 * (p + S)
    <2>1. (100 * R) * (T + 1) <= (272 * S) * (T + 1)
      BY <1>1
    <2>2. (100 * R) * (T + 1) = 100 * u /\ (272 * S) * (T + 1) = 272 * (p + S)
      BY <1>1
    <2>3. QED
      BY <2>1, <2>2
  <1> HIDE DEF u
  <1>5. 100 * (S * s) <= 100 * R + 272 * n + 100 * u
    BY <1>2, <1>3, InBits
  <1>6. S * s >= S * (4 * T + 1) /\ S * (4 * T + 1) = 4 * p + S /\ S * s \in Int
    BY <1>1
  <1>7. p >= 5 * S
    BY <1>1
  <1> HIDE DEF p
  <1>8. QED
    BY <1>1, <1>3, <1>4, <1>5, <1>6, <1>7

\* The block before the last is no larger than t_pri.
LEMMA BlockBeforeLast ==
  ASSUME RatioNearE, NEW T \in Nat, T >= 5, NEW w \in Nat, 17 * w < 27 * (T * S - R + 1),
         NEW y \in Int, R * y <= S * w + R, NEW d \in Int, S * (d - 1) < y
  PROVE  d <= T
  <1> SUFFICES ASSUME d >= T + 1 PROVE FALSE
    OBVIOUS
  <1>1. S \in Nat /\ S >= 100 /\ R \in Nat \ {0} /\ 27 * S <= 10 * R
    BY ScaleAssumption DEF RatioNearE
  <1>2. S * T <= S * (d - 1) /\ S * T \in Int /\ S * (d - 1) \in Int
    BY <1>1
  <1>3. S * T + 1 <= y
    BY <1>2
  <1>4. R * (S * T + 1) <= R * y
    BY <1>1, <1>2, <1>3
  <1>5. R * (S * T + 1) = S * (R * T) + R /\ R * T \in Nat /\ S * (R * T) \in Int /\ R * y \in Int /\ S * w \in Int
    BY <1>1
  <1>6. S * (R * T) <= S * w
    BY <1>1, <1>4, <1>5
  <1>7. R * T <= w
    BY ONLY <1>1, <1>5, <1>6, w \in Nat
  <1>8. (27 * S) * T <= (10 * R) * T
    BY <1>1
  <1>9. (27 * S) * T = 27 * (T * S) /\ (10 * R) * T = 10 * (R * T) /\ T * S \in Nat
    BY <1>1
  <1>10. QED
    BY <1>1, <1>5, <1>7, <1>8, <1>9

\* From twenty bits on the first block has at least a third of them.
LEMMA ThirdInFirst ==
  ASSUME RatioNearE, NEW m \in Nat, m >= 20
  PROVE  m <= 3 * Ceil(FirstSize(m))
  <1>1. S \in Nat /\ S >= 100 /\ R \in Nat \ {0} /\ 100 * R <= 272 * S /\ m * S * S \in Nat /\ m * S \in Nat
    BY ScaleAssumption DEF RatioNearE
  <1> DEFINE q == (m * S * S) \div R
             c == Ceil(FirstSize(m))
  <1>2. q \in Int /\ m * S * S < R * q + R
    BY <1>1, QuotientBelow
  <1>3. FirstSize(m) = q - S
    BY DEF FirstSize
  <1> HIDE DEF q
  <1>4. c \in Int /\ q - S <= S * c
    BY <1>1, <1>2, <1>3, CeilBounds
  <1> HIDE DEF c
  <1> DEFINE e == S * (c + 1) + 1
  <1>5. e \in Int /\ q + 1 <= e /\ e = S * c + S + 1
    <2>1. S * (c + 1) = S * c + S /\ S * c \in Int
      BY <1>1, <1>4
    <2>2. QED
      BY <1>1, <1>2, <1>4, <2>1
  <1> HIDE DEF e
  <1>6. m * S * S < R * e
    <2>1. R * (q + 1) <= R * e
      BY <1>1, <1>2, <1>5
    <2>2. R * (q + 1) = R * q + R /\ R * q \in Int /\ R * e \in Int
      BY <1>1, <1>2, <1>5
    <2>3. QED
      BY <1>1, <1>2, <2>1, <2>2
  <1>7. e > 0
    <2>1. R * e > 0
      BY <1>1, <1>5, <1>6
    <2>2. QED
      BY ONLY <1>1, <1>5, <2>1
  <1>8. 100 * (m * S) < 272 * e
    <2>1. (100 * R) * e <= (272 * S) * e
      BY <1>1, <1>5, <1>7
    <2>2. (100 * R) * e = 100 * (R * e) /\ (272 * S) * e = S * (272 * e) /\ S * (100 * (m * S)) = 100 * (m * S * S)
      BY <1>1, <1>5
    <2>3. R * e \in Int /\ S * (272 * e) \in Int
      BY <1>1, <1>5
    <2>4. S * (100 * (m * S)) < S * (272 * e)
      BY <1>1, <1>6, <2>1, <2>2, <2>3
    <2>5. 100 * (m * S) \in Int /\ 272 * e \in Int
      BY <1>1, <1>5
    <2>6. QED
      BY ONLY <1>1, <2>4, <2>5
  <1> DEFINE z == 100 * m - 272 * c - 272
  <1>9. S * z < 272 /\ z \in Int
    <2>1. S * z = 100 * (m * S) - 272 * (S * c) - 272 * S /\ S * c \in Int /\ m * S \in Int
      BY <1>1, <1>4
    <2> HIDE DEF z
    <2>2. S * z < 272
      BY <1>1, <1>5, <1>8, <2>1
    <2>3. QED
      BY <1>4, <2>2 DEF z
  <1>10. z <= 2
    <2> HIDE DEF z
    <2>1. z >= 3 => S * z >= S * 3
      BY <1>1, <1>9
    <2>2. QED
      BY <1>1, <1>9, <2>1
  <1>11. m <= 3 * c
    BY <1>4, <1>10
  <1>12. QED
    BY <1>11 DEF c

\* In the first loop the sum keeps up with the series, the latest size with
\* what is left of m_req - r, and the bits after a_pt fit the vectors.
Keeping ==
  /\ S * sumNi + ni * (R - S) >= S * (mReq * S - R) - i * R
  /\ R * ni <= S * Shrunk(mReq * S - R)[i - 1] + R
  /\ aPt > 0 => mReq - base[aPt] <= Threshold * (a + 1 - aPt)
  /\ i >= a => aPt > 0

Completing ==
  mReq >= 20 =>
    /\ pc # "failed"
    /\ pc = "grow" => Keeping
    /\ pc = "refit" => i >= 1 /\ sumA <= Threshold * (a + 1 - i)

\* From three bits on m_req - r is positive.
LEMMA BitsAboveRatio ==
  ASSUME RatioNearE, NEW m \in Nat, m >= 3
  PROVE  m * S - R \in Nat /\ m * S > R
  <1>1. S \in Nat /\ S >= 100 /\ R \in Nat \ {0} /\ 100 * R <= 272 * S /\ m * S \in Nat /\ m * S >= 3 * S
    BY ScaleAssumption DEF RatioNearE
  <1>2. QED
    BY <1>1

\* At the start.
LEMMA InitCompleting == ASSUME RatioNearE, Init PROVE Completing
  <1> SUFFICES ASSUME mReq >= 20 PROVE pc # "failed" /\ Keeping /\ pc # "refit"
    BY DEF Completing
  <1>1. Tables
    BY InitInv DEF Inv
  <1>2. i = 1 /\ aPt = 0 /\ pc = "grow" /\ ni = FirstSize(mReq) /\ sumNi = ni
    BY DEF Init
  <1>3. S \in Nat \ {0} /\ R \in Nat \ {0} /\ R - S \in Nat /\ mReq \in Nat /\ ni \in Int /\ a \in Nat /\ a >= 2
    BY <1>1, ScaleAssumption DEF Tables
  <1> DEFINE q == (mReq * S * S) \div R
             x == mReq * S - R
  <1>4. q \in Int /\ R * q <= mReq * S * S /\ mReq * S * S < R * q + R
    <2>1. mReq * S * S \in Int
      BY <1>3
    <2>2. QED
      BY <1>3, <2>1, QuotientBelow
  <1>5. ni = q - S
    BY <1>2 DEF FirstSize
  <1> HIDE DEF q
  <1>6. x \in Int /\ Shrunk(x)[0] = x
    <2>1. x \in Int
      BY <1>3
    <2> HIDE DEF x
    <2>2. QED
      BY <2>1, ShrunkSteps
  <1>7. R * ni = R * q - R * S /\ S * x = mReq * S * S - R * S /\ S * ni + ni * (R - S) = R * ni
    BY <1>3, <1>4, <1>5
  <1>8. R * q \in Int /\ mReq * S * S \in Int /\ R * S \in Int
    BY <1>3, <1>4
  <1> HIDE DEF x
  <1>9. R * ni <= S * x + R /\ S * ni + ni * (R - S) >= S * x - R
    BY <1>3, <1>4, <1>7, <1>8
  <1>10. i - 1 = 0 /\ i * R = R /\ ~(i >= a)
    BY <1>2, <1>3
  <1>11. QED
    BY <1>2, <1>6, <1>9, <1>10 DEF Keeping, x

\* The latest size follows what is left.
LEMMA SizeFollows ==
  ASSUME NEW y \in Int, NEW w \in Int, R * y <= S * w + R
  PROVE  R * Shrink(y) <= S * Shrink(w) + R
  <1>1. S \in Nat \ {0} /\ R \in Nat \ {0} /\ R - S \in Nat
    BY ScaleAssumption
  <1> DEFINE D == R - S
             z == Shrink(y)
             v == Shrink(w)
  <1>2. D \in Nat /\ R = S + D
    BY <1>1
  <1>3. z \in Int /\ R * z <= y * D
    BY ShrinkBelow
  <1>4. v \in Int /\ w * D < R * v + R
    BY ShrinkLower
  <1> HIDE DEF D, z, v
  <1>5. (R * y) * D <= (S * w + R) * D
    BY <1>1, <1>2
  <1>6. (R * y) * D = R * (y * D) /\ (S * w + R) * D = S * (w * D) + R * D
    BY <1>1, <1>2
  <1>7. S * (w * D) <= S * (R * v + R)
    BY <1>1, <1>2, <1>4
  <1>8. R * (R * z) <= R * (y * D)
    BY <1>1, <1>2, <1>3
  <1>9. S * (R * v + R) + R * D = R * (S * v + R)
    <2>1. S * (R * v + R) + R * D = R * (S * v + (S + D))
      BY <1>1, <1>2, <1>4
    <2>2. QED
      BY <1>2, <2>1
  <1>10. /\ R * (R * z) \in Int /\ R * (y * D) \in Int /\ S * (w * D) \in Int /\ R * D \in Int
         /\ S * (R * v + R) \in Int /\ R * (S * v + R) \in Int
    BY <1>1, <1>2, <1>3, <1>4
  <1>11. R * (R * z) <= R * (S * v + R)
    BY <1>5, <1>6, <1>7, <1>8, <1>9, <1>10
  <1>12. R * z \in Int /\ S * v + R \in Int
    BY <1>1, <1>3, <1>4
  <1>13. R * z <= S * v + R
    BY ONLY <1>1, <1>11, <1>12
  <1>14. QED
    BY <1>13 DEF z, v

\* The sum keeps up with the series.
LEMMA SumKeepsUp ==
  ASSUME NEW x \in Int, NEW y \in Int, NEW n \in Nat, NEW z \in Int, S * x + y * (R - S) >= z - n * R
  PROVE  S * (x + Shrink(y)) + Shrink(y) * (R - S) >= z - (n + 1) * R
  <1>1. S \in Nat \ {0} /\ R \in Nat \ {0} /\ R - S \in Nat
    BY ScaleAssumption
  <1> DEFINE v == Shrink(y)
  <1>2. v \in Int /\ y * (R - S) < R * v + R
    BY ShrinkLower
  <1> HIDE DEF v
  <1>3. S * (x + v) + v * (R - S) = S * x + R * v /\ (n + 1) * R = n * R + R
    BY <1>1, <1>2
  <1>4. S * x \in Int /\ R * v \in Int /\ y * (R - S) \in Int /\ n * R \in Int
    BY <1>1, <1>2
  <1>5. S * (x + v) + v * (R - S) >= z - (n + 1) * R
    BY <1>1, <1>2, <1>3, <1>4
  <1>6. QED
    BY <1>5 DEF v

\* The number of blocks is large enough for m_req - r to shrink to t_pri - r.
LEMMA InitialAReached ==
  ASSUME RatioNearE, NEW m \in Nat, m >= 3, NEW t \in Nat, t >= 3, NEW k \in InitialA(m, t)
  PROVE  Shrunk(m * S - R)[k] <= t * S - R
  <1>1. m * S > R /\ t * S > R /\ m * S \in Nat /\ t * S \in Nat /\ R \in Nat
    BY BitsAboveRatio, ScaleAssumption
  <1>2. ~(m * S <= R \/ t * S <= R)
    BY <1>1
  <1>3. QED
    BY <1>2, Zenon DEF InitialA

\* Where a block no larger than the threshold is the first, there are enough
\* elements for the rest; and there is one before the last element.
LEMMA TailFits ==
  ASSUME RatioNearE, FewBlocks, FiveIndices, Inv, Sized, Regular, Completing,
         mReq >= 20, pc = "grow", i < a, aPt = 0,
         NEW d \in Int, S * (d - 1) < Shrink(ni), Shrink(ni) < S * (d + 1), d <= mi[i - 1]
  PROVE  /\ i = a - 1 => d <= Threshold
         /\ d <= Threshold => mReq - Ceil(sumNi) <= Threshold * (a + 1 - i)
  <1>1. Tables /\ Growing /\ Cutting /\ Keeping /\ Threshold >= 2
    <2>1. Tables /\ Growing
      BY DEF Inv
    <2>2. mReq >= 6
      BY <2>1 DEF Tables
    <2>3. QED
      BY <2>1, <2>2 DEF Regular, Completing
  <1>2. /\ i \in 1 .. a - 1 /\ i \in Nat /\ a \in Nat /\ a >= 2 /\ mReq \in Nat /\ tPri \in Nat
        /\ ni \in Int /\ sumNi \in Int /\ mi \in [0 .. a -> Int] /\ base \in [0 .. a -> Int]
    BY <1>1 DEF Tables, Growing
  <1>3. S \in Nat \ {0} /\ R \in Nat \ {0}
    BY ScaleAssumption
  <1> DEFINE T == Threshold
             c == Ceil(sumNi)
             s == mReq - c
             y == Shrink(ni)
  <1>4. mi[0] \in Int /\ T \in Nat
    BY <1>1, <1>2 DEF Threshold
  <1>5. c \in Int /\ s \in Int /\ y \in Int
    <2>1. c \in Int
      BY <1>2, CeilType
    <2>2. y \in Int
      BY <1>2, ShrinkBelow
    <2> HIDE DEF c, y
    <2>3. QED
      BY <1>2, <2>1, <2>2
  <1>6. tPri >= 5 /\ 2 * a <= 3 * tPri
    BY DEF Sized, FewBlocks, FiveIndices
  <1>7. CASE T # tPri
    <2>1. T = mi[0] /\ i = 1
      <3>1. T = mi[0]
        BY <1>7 DEF Threshold
      <3>2. ~(i >= 2)
        BY <1>1, <1>4, <3>1 DEF Cutting
      <3>3. QED
        BY <1>2, <3>1, <3>2
    <2>2. c = mi[0]
      <3>1. mi[0] + base[0] = c /\ base[0] = 0
        BY <1>1, <2>1 DEF Growing, Chained
      <3> HIDE DEF c
      <3>2. QED
        BY <1>4, <3>1
    <2> HIDE DEF c, T
    <2>3. mReq <= 3 * T
      BY <1>2, <2>1, ThirdInFirst DEF Sized
    <2>4. T * (a + 1 - i) >= T * 2 /\ T * (a + 1 - i) \in Int
      <3>1. a + 1 - i = a
        BY <1>2, <2>1
      <3>2. T * a >= T * 2
        BY <1>2, <1>4
      <3>3. QED
        BY <1>2, <1>4, <3>1, <3>2
    <2>5. mReq - c <= T * (a + 1 - i)
      BY <1>2, <1>4, <2>1, <2>2, <2>3, <2>4
    <2>6. d <= T
      BY <2>1
    <2>7. QED
      BY <2>5, <2>6 DEF T, c
  <1>8. CASE T = tPri
    <2>1. T >= 5 /\ 2 * a <= 3 * T
      BY <1>6, <1>8
    <2>2. S * (S * s) <= S * R + (i + 1) * R + R * y
      BY <1>1, <1>2, SumReached DEF Keeping
    <2> HIDE DEF T, c, s, y
    <2> DEFINE x == mReq * S - R
               f == Shrunk(x)
    <2>3. x \in Nat
      BY <1>2, BitsAboveRatio
    <2> HIDE DEF x
    <2>4. \A k \in Nat : f[k] \in Nat /\ f[k + 1] = Shrink(f[k])
      BY <2>3, ShrunkNatural, ShrunkSteps
    <2>5. f[a] <= T * S - R
      <3>1. a \in InitialA(mReq, tPri)
        BY DEF Sized
      <3>2. Shrunk(mReq * S - R)[a] <= tPri * S - R
        BY <1>2, <1>6, <3>1, InitialAReached
      <3>3. QED
        BY <1>8, <3>2 DEF x
    <2>6. R * y <= S * f[i] + R
      <3>1. R * ni <= S * f[i - 1] + R
        BY <1>1 DEF Keeping, x
      <3>2. i - 1 \in Nat /\ (i - 1) + 1 = i
        BY <1>2
      <3>3. f[i - 1] \in Int /\ f[i] = Shrink(f[i - 1])
        BY <2>4, <3>2
      <3> HIDE DEF f
      <3>4. R * Shrink(ni) <= S * Shrink(f[i - 1]) + R
        BY <1>2, <3>1, <3>3, SizeFollows
      <3>5. QED
        BY <3>3, <3>4 DEF y
    <2>7. a - 1 \in Nat /\ (a - 1) + 1 = a
      BY <1>2
    <2>8. f[a - 1] \in Nat /\ f[a] = Shrink(f[a - 1]) /\ f[a] \in Nat
      BY <1>2, <2>4, <2>7
    <2> HIDE DEF f
    <2>9. 17 * f[a - 1] < 27 * (T * S - R + 1)
      <3>1. 17 * f[a - 1] < 27 * (f[a] + 1)
        BY <2>8, ShrinkBack
      <3>2. T * S \in Int
        BY <1>3, <1>4
      <3>3. QED
        BY <1>3, <2>5, <2>8, <3>1, <3>2
    <2>10. S * (S * s) <= S * R + (i + 2) * R + S * f[i]
      <3>1. f[i] \in Int
        <4>1. f[i] \in Nat
          BY <1>2, <2>4
        <4>2. QED
          BY <4>1
      <3>2. (i + 2) * R = (i + 1) * R + R
        BY <1>2, <1>3
      <3>3. S * (S * s) \in Int /\ S * R \in Int /\ (i + 1) * R \in Int /\ R * y \in Int /\ S * f[i] \in Int
        BY <1>2, <1>3, <1>5, <3>1
      <3>4. QED
        BY <1>3, <2>2, <2>6, <3>1, <3>2, <3>3
    <2>11. CASE i = a - 1
      <3>1. s <= T * 2
        <4>1. 2 * (i + 1) <= 3 * T
          BY <1>2, <2>1, <2>11
        <4>2. 17 * f[i] < 27 * (T * S - R + 1) /\ f[i] \in Nat
          BY <2>8, <2>9, <2>11
        <4>3. QED
          BY <1>2, <1>4, <1>5, <2>1, <2>10, <4>1, <4>2, OneMore
      <3>2. d <= T
        <4>1. S * (d - 1) < y
          BY DEF y
        <4>2. 17 * f[i] < 27 * (T * S - R + 1) /\ f[i] \in Nat
          BY <2>8, <2>9, <2>11
        <4>3. QED
          BY <1>4, <1>5, <2>1, <2>6, <4>1, <4>2, BlockBeforeLast
      <3>3. a + 1 - i = 2
        BY <1>2, <2>11
      <3>4. QED
        BY <3>1, <3>2, <3>3 DEF T, s, c
    <2>12. CASE i = a - 2
      <3>1. 2 * (i + 2) <= 3 * T
        BY <1>2, <2>1, <2>12
      <3>2. i + 1 = a - 1 /\ a + 1 - i = 3 /\ i # a - 1
        BY <1>2, <2>12
      <3>3. f[i] \in Nat /\ f[a - 1] = Shrink(f[i])
        BY <1>2, <2>4, <3>2 DEF f
      <3>4. 17 * f[i] < 27 * (f[a - 1] + 1)
        BY <3>3, ShrinkBack
      <3>5. s <= T * 3
        BY <1>2, <1>4, <1>5, <2>1, <2>8, <2>9, <2>10, <3>1, <3>3, <3>4, TwoMore
      <3>6. QED
        BY <3>2, <3>5 DEF T, s, c
    <2>13. CASE i < a - 2
      <3>1. i # a - 1 /\ a + 1 - i >= 4 /\ a + 1 - i \in Int
        BY <1>2, <2>13
      <3>2. 2 * i <= 3 * T
        BY <1>2, <1>4, <2>1
      <3>3. ASSUME d <= T PROVE s <= T * (a + 1 - i)
        <4>1. S * (d + 1) <= S * (T + 1)
          BY <1>3, <1>4, <3>3
        <4>2. y < S * (T + 1)
          <5>1. y < S * (d + 1) /\ S * (d + 1) \in Int /\ S * (T + 1) \in Int
            BY <1>3, <1>4 DEF y
          <5>2. QED
            BY <1>5, <4>1, <5>1
        <4>3. s <= T * 4
          BY <1>2, <1>4, <1>5, <2>1, <2>2, <3>2, <4>2, ThreeMore
        <4>4. T * 4 <= T * (a + 1 - i)
          BY <1>4, <3>1
        <4>5. T * (a + 1 - i) \in Int
          BY <1>4, <3>1
        <4>6. QED
          BY <1>4, <1>5, <4>3, <4>4, <4>5
      <3>4. QED
        BY <3>1, <3>3 DEF T, s, c
    <2>14. QED
      BY <1>2, <2>11, <2>12, <2>13
  <1>9. QED
    BY <1>7, <1>8

\* A turn of the first loop.
LEMMA GrowCompleting ==
  ASSUME RatioNearE, FewBlocks, FiveIndices, Inv, Sized, Regular, Completing, Grow
  PROVE  Completing'
  <1> SUFFICES ASSUME mReq >= 20 PROVE Keeping'
    BY DEF Completing, Grow
  <1>1. Tables /\ Growing /\ i < a /\ Cutting /\ Keeping /\ pc = "grow" /\ Threshold >= 2
    <2>1. Tables /\ Growing /\ pc = "grow" /\ i < a
      BY DEF Inv, Grow
    <2>2. mReq >= 6
      BY <2>1 DEF Tables
    <2>3. QED
      BY <2>1, <2>2 DEF Regular, Completing
  <1>2. /\ i \in 1 .. a - 1 /\ i \in Nat /\ a \in Nat /\ aPt \in 0 .. i - 1 /\ mReq \in Nat /\ tPri \in Nat
        /\ mi \in [0 .. a -> Int] /\ base \in [0 .. a -> Int] /\ ni \in Int /\ sumNi \in Int
    BY <1>1 DEF Tables, Growing
  <1>3. S \in Nat \ {0} /\ R \in Nat \ {0}
    BY ScaleAssumption
  <1> DEFINE b == Ceil(sumNi)
             d == mi'[i]
             M == mi[i - 1]
             T == Threshold
  <1>4. ni' = Shrink(ni) /\ ni' \in Int /\ sumNi' = sumNi + ni'
    <2>1. ni' = Shrink(ni) /\ sumNi' = sumNi + ni'
      BY DEF Grow
    <2>2. QED
      BY <1>2, <2>1, ShrinkBelow
  <1>5. base' = [base EXCEPT ![i] = b] /\ base'[i] = b /\ b \in Int
    <2>1. base' = [base EXCEPT ![i] = mi[i - 1] + base[i - 1]] /\ mi[i - 1] + base[i - 1] = b
      BY <1>1 DEF Grow, Growing
    <2>2. b \in Int
      BY <1>2, CeilType
    <2> HIDE DEF b
    <2>3. base' = [base EXCEPT ![i] = b]
      BY <2>1
    <2>4. i \in 0 .. a
      BY <1>2
    <2>5. QED
      BY <1>2, <2>2, <2>3, <2>4
  <1>6. mi' = [mi EXCEPT ![i] = Ceil(sumNi') - b] /\ d = Ceil(sumNi') - b
    <2>1. mi' = [mi EXCEPT ![i] = Ceil(sumNi') - base'[i]]
      BY DEF Grow
    <2>2. QED
      BY <1>2, <1>5, <2>1
  <1>7. d \in Int /\ S * (d - 1) < ni' /\ ni' < S * (d + 1)
    BY <1>2, <1>4, <1>6, BlockBounds
  <1>8. i' = i + 1 /\ UNCHANGED <<mReq, tPri, a>> /\ i' - 1 = i
    BY <1>2 DEF Grow
  <1>9. aPt' = IF d <= T /\ aPt = 0 THEN i ELSE aPt
    BY DEF Grow
  <1>10. Threshold' = T /\ T \in Nat
    <2>1. mi'[0] = mi[0] /\ mi[0] \in Int
      BY <1>2, <1>6
    <2>2. QED
      BY <1>1, <1>2, <1>8, <2>1 DEF Threshold
  <1>11. aPt = 0 => d <= M
    <2> SUFFICES ASSUME aPt = 0 PROVE d <= M
      OBVIOUS
    <2>1. Descending(i - 1) /\ i - 1 \in 0 .. i - 1
      BY <1>1, <1>2 DEF Cutting
    <2>2. M >= T
      BY <2>1 DEF Descending
    <2>3. M \in Int /\ M >= 2 /\ ni < S * (M + 1)
      BY <1>1, <1>2, <1>10, <2>2 DEF Cutting
    <2> HIDE DEF d, M
    <2>4. QED
      BY <1>2, <1>4, <1>7, <2>3, NextNotLarger
  <1> HIDE DEF d
  <1>12. ASSUME aPt = 0
         PROVE  (i = a - 1 => d <= T) /\ (d <= T => mReq - b <= T * (a + 1 - i))
    BY <1>1, <1>4, <1>7, <1>11, <1>12, TailFits
  <1> HIDE DEF b, M, T
  <1>13. S * sumNi' + ni' * (R - S) >= S * (mReq * S - R) - (i + 1) * R
    <2>1. S * (mReq * S - R) \in Int
      BY <1>2, <1>3
    <2>2. S * sumNi + ni * (R - S) >= S * (mReq * S - R) - i * R
      BY <1>1 DEF Keeping
    <2>3. S * (sumNi + Shrink(ni)) + Shrink(ni) * (R - S) >= S * (mReq * S - R) - (i + 1) * R
      BY <1>2, <2>1, <2>2, SumKeepsUp
    <2>4. QED
      BY <1>4, <2>3
  <1>14. R * ni' <= S * Shrunk(mReq * S - R)[i] + R
    <2> DEFINE x == mReq * S - R
               f == Shrunk(x)
    <2>1. x \in Int
      BY <1>2, <1>3
    <2>2. i - 1 \in Nat /\ (i - 1) + 1 = i
      BY <1>2
    <2> HIDE DEF x
    <2>3. f[i - 1] \in Int /\ f[i] = Shrink(f[i - 1])
      BY <2>1, <2>2, ShrunkSteps
    <2>4. R * ni <= S * f[i - 1] + R
      BY <1>1 DEF Keeping, x
    <2> HIDE DEF f
    <2>5. R * Shrink(ni) <= S * Shrink(f[i - 1]) + R
      BY <1>2, <2>3, <2>4, SizeFollows
    <2>6. QED
      BY <1>4, <2>3, <2>5 DEF f, x
  <1>15. aPt' > 0 => mReq - base'[aPt'] <= T * (a + 1 - aPt')
    <2>1. CASE aPt = 0
      <3>1. aPt' > 0 => aPt' = i /\ d <= T
        BY <1>2, <1>9, <2>1
      <3>2. QED
        BY <1>5, <1>12, <2>1, <3>1
    <2>2. CASE aPt # 0
      <3>1. aPt' = aPt /\ aPt > 0 /\ base'[aPt] = base[aPt]
        BY <1>2, <1>5, <1>9, <2>2
      <3>2. QED
        BY <1>1, <3>1 DEF Keeping, T
    <2>3. QED
      BY <2>1, <2>2
  <1>16. i + 1 >= a => aPt' > 0
    BY <1>2, <1>9, <1>12
  <1>17. QED
    BY <1>8, <1>10, <1>13, <1>14, <1>15, <1>16 DEF Keeping, Shrunk, Shrink

\* The threshold's count of what is left fits; there is a block to cut anew.
LEMMA CloseCompleting ==
  ASSUME RatioNearE, FewBlocks, Inv, Sized, Regular, Completing, Close
  PROVE  Completing'
  <1> SUFFICES ASSUME mReq >= 20
               PROVE  /\ pc' \in {"done", "refit"}
                      /\ i' >= 1 /\ sumA' <= Threshold' * (a' + 1 - i')
    BY DEF Completing, Close
  <1>1. Tables /\ Growing /\ i >= a /\ Keeping /\ pc = "grow" /\ Threshold >= 2
    <2>1. Tables /\ Growing /\ pc = "grow" /\ i >= a
      BY DEF Inv, Close
    <2>2. mReq >= 6
      BY <2>1 DEF Tables
    <2>3. QED
      BY <2>1, <2>2 DEF Regular, Completing
  <1>2. /\ i = a /\ a \in Nat /\ a >= 2 /\ aPt \in 0 .. a - 1 /\ tPri \in Nat
        /\ mi \in [0 .. a -> Int] /\ base \in [0 .. a -> Int]
    BY <1>1 DEF Tables, Growing
  <1>3. UNCHANGED <<tPri, a>> /\ i' = aPt /\ sumA' = mReq - base'[aPt]
    BY DEF Close
  <1>4. base'[aPt] = base[aPt] /\ mi'[0] = mi[0]
    <2>1. base' = [base EXCEPT ![a] = mi[a - 1] + base[a - 1]] /\ mi' = [mi EXCEPT ![a] = mReq - base'[a]]
      BY DEF Close
    <2>2. QED
      BY <1>2, <2>1
  <1>5. Threshold' = Threshold /\ Threshold # 0
    <2>1. Threshold \in Int
      BY <1>2 DEF Threshold
    <2>2. QED
      BY <1>1, <1>3, <1>4, <2>1 DEF Threshold
  <1>6. aPt > 0 /\ mReq - base[aPt] <= Threshold * (a + 1 - aPt)
    BY <1>1 DEF Keeping
  <1>7. pc' \in {"done", "refit"}
    BY <1>5 DEF Close
  <1>8. QED
    BY <1>2, <1>3, <1>4, <1>5, <1>6, <1>7

\* The second loop stays inside the vectors.
LEMMA RefitCompleting ==
  ASSUME Inv, Regular, Completing, Refit
  PROVE  Completing'
  <1> SUFFICES ASSUME mReq >= 20
               PROVE  pc' = "refit" /\ i' >= 1 /\ sumA' <= Threshold' * (a' + 1 - i')
    BY DEF Completing, Refit
  <1>1. Tables /\ Refitting /\ i < newA /\ pc = "refit" /\ Threshold >= 2
    <2>1. Tables /\ Refitting /\ pc = "refit" /\ i < newA
      BY DEF Inv, Refit
    <2>2. mReq >= 6
      BY <2>1 DEF Tables
    <2>3. QED
      BY <2>1, <2>2 DEF Regular
  <1>2. /\ i \in Nat /\ a \in Nat /\ newA \in Int /\ sumA \in Int /\ tPri \in Nat
        /\ mi \in [0 .. a -> Int] /\ Threshold \in Nat
    <2>1. Tables
      BY <1>1
    <2>2. mi[0] \in Int
      BY <2>1 DEF Tables
    <2>3. QED
      BY <1>1, <2>1, <2>2 DEF Tables, Threshold
  <1> DEFINE T == Threshold
  <1>3. i >= 1 /\ sumA <= T * (a + 1 - i) /\ sumA >= T * (newA - i)
    BY <1>1 DEF Completing, Refitting
  <1>4. T \in Nat /\ T >= 2
    BY <1>1, <1>2
  <1> HIDE DEF T
  <1>5. T * (newA - i) >= T * 1
    <2>1. newA - i >= 1 /\ newA - i \in Int
      BY <1>1, <1>2
    <2>2. QED
      BY <1>4, <2>1
  <1> DEFINE e == a + 1 - i
  <1>6. e \in Int /\ T * e >= T
    <2>1. e \in Int
      BY <1>2
    <2>2. T * (newA - i) \in Int /\ T * e \in Int
      BY <1>2, <1>4, <2>1
    <2>3. sumA <= T * e
      BY <1>3
    <2> HIDE DEF e
    <2>4. QED
      BY <1>2, <1>3, <1>4, <1>5, <2>1, <2>2, <2>3
  <1>7. e >= 1
    <2> HIDE DEF e
    <2>1. QED
      BY <1>4, <1>6
  <1>8. i \in 1 .. a /\ InRange(i) /\ InRange(i - 1)
    BY <1>2, <1>3, <1>7 DEF InRange
  <1>9. mi' = [mi EXCEPT ![i] = T] /\ sumA' = sumA - T /\ i' = i + 1 /\ pc' = pc /\ UNCHANGED <<tPri, a>>
    BY <1>8 DEF Refit, T
  <1>10. Threshold' = T
    <2>1. mi'[0] = mi[0]
      BY <1>2, <1>8, <1>9
    <2>2. QED
      BY <1>9, <2>1 DEF Threshold, T
  <1>11. sumA' <= T * (a + 1 - (i + 1))
    <2>1. a + 1 - (i + 1) = e - 1 /\ sumA <= T * e
      BY <1>2, <1>3
    <2> HIDE DEF e
    <2>2. T * (e - 1) = T * e - T /\ T * e \in Int
      BY <1>4, <1>6
    <2>3. QED
      BY <1>2, <1>4, <1>9, <2>1, <2>2
  <1>12. QED
    BY <1>1, <1>2, <1>3, <1>9, <1>10, <1>11

\* What is left over is in the vectors too.
LEMMA LastBlockCompleting ==
  ASSUME Inv, Regular, Completing, LastBlock
  PROVE  Completing'
  <1> SUFFICES ASSUME mReq >= 20 PROVE pc' = "done"
    BY DEF Completing, LastBlock
  <1>1. Tables /\ Refitting /\ i >= newA /\ pc = "refit" /\ Threshold >= 2
    <2>1. Tables /\ Refitting /\ pc = "refit" /\ i >= newA
      BY DEF Inv, LastBlock
    <2>2. mReq >= 6
      BY <2>1 DEF Tables
    <2>3. QED
      BY <2>1, <2>2 DEF Regular
  <1>2. i \in Nat /\ a \in Nat /\ newA = i /\ sumA \in Int /\ Threshold \in Nat
    <2>1. Tables
      BY <1>1
    <2>2. mi[0] \in Int
      BY <2>1 DEF Tables
    <2>3. QED
      BY <1>1, <2>1, <2>2 DEF Tables, Threshold, Refitting
  <1>3. CASE sumA > 0
    <2> DEFINE T == Threshold
               e == a + 1 - i
    <2>1. i >= 1 /\ sumA <= T * e
      BY <1>1 DEF Completing
    <2>2. e \in Int /\ T \in Nat
      BY <1>2
    <2> HIDE DEF T, e
    <2>3. T * e > 0
      <3>1. T * e \in Int
        BY <2>2
      <3>2. QED
        BY <1>2, <1>3, <2>1, <3>1
    <2>4. e > 0
      BY ONLY <2>2, <2>3
    <2>5. InRange(newA) /\ InRange(newA - 1)
      BY <1>2, <2>1, <2>4 DEF InRange, e
    <2>6. QED
      BY <1>3, <2>5 DEF LastBlock
  <1>4. CASE ~(sumA > 0)
    BY <1>4 DEF LastBlock
  <1>5. QED
    BY <1>3, <1>4

\* Every step.
LEMMA NextCompleting ==
  ASSUME RatioNearE, FewBlocks, FiveIndices
  PROVE  Inv /\ Sized /\ Regular /\ Completing /\ [Next]_vars => Completing'
  <1> SUFFICES ASSUME Inv, Sized, Regular, Completing, [Next]_vars PROVE Completing'
    OBVIOUS
  <1>1. CASE Stopped \/ UNCHANGED vars
    <2>1. UNCHANGED vars
      BY <1>1 DEF Stopped
    <2>2. QED
      BY <2>1 DEF vars, Completing, Keeping, Threshold
  <1>2. QED
    BY <1>1, GrowCompleting, CloseCompleting, RefitCompleting, LastBlockCompleting DEF Next

(***************************************************************************)
(* The division is completed: neither loop leaves the vectors of a + 1     *)
(* elements, whose length the caller gets from the quotient of logarithms, *)
(* and the threshold is not 0 where it divides.                            *)
(***************************************************************************)
THEOREM DivisionEnds ==
  ASSUME RatioNearE, FewBlocks, FiveIndices PROVE Spec => []DivisionCompletes
  <1>1. Init => Completing
    BY InitCompleting
  <1>2. Spec => []Completing
    BY <1>1, NextCompleting, Invariance, AlwaysSized, AlwaysRegular, PTL DEF Spec
  <1>3. Completing => DivisionCompletes
    BY DEF Completing, DivisionCompletes
  <1>4. QED
    BY <1>2, <1>3, PTL
=============================================================================
