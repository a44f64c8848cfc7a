----------------------------- MODULE BlockDesign -----------------------------
(***************************************************************************)
(* gen_blk_design (extractor.cc) with the table sizing of its caller       *)
(* trevisan_dispatcher: the m_req output bits are divided into blocks      *)
(* whose sizes shrink by the factor 1 - 1/r; from the first block no       *)
(* larger than the threshold on, the tail is cut anew into blocks of the   *)
(* threshold's size.  The code computes with doubles; here a real number   *)
(* is an integer in units of 1/S, so r is R/S.  The vectors' at() throws   *)
(* past their a + 1 elements, and an integer division by zero traps: both  *)
(* end the program ("failed").                                             *)
(***************************************************************************)
EXTENDS Integers

CONSTANTS
  MReqs,   \* values of params.pp.m_req
  TPris,   \* values of params.pp.t_pri, the weak design's t
  S, R     \* r = R / S

\* r is greater than 1, and 1/S no coarser than 1/r
ASSUME ScaleAssumption == S \in Nat \ {0} /\ R \in Nat /\ R > S /\ R <= S * S
ASSUME InputAssumption == MReqs \subseteq Nat \ {0} /\ TPris \subseteq Nat \ {0}

VARIABLES
  pc,       \* "grow", "refit", "done" or "failed"
  mReq, tPri,
  a,        \* params.pp.a on entry: the vectors have a + 1 elements
  aOut,     \* params.pp.a on return
  i, ni, sumNi,
  mi, base, \* the two vectors, 0 .. a
  aPt,      \* a_pt
  sumA, newA

vars == <<pc, mReq, tPri, a, aOut, i, ni, sumNi, mi, base, aPt, sumA, newA>>

\* ceil of a number in units of 1/S, and the product with 1 - 1/r
Ceil(x) == -((-x) \div S)
Shrink(x) == (x * (R - S)) \div R

\* params.pp.a before the call: at least 2, else the number of times m_req - r
\* must shrink to reach t_pri - r (the quotient of logarithms, rounded up); a
\* set with this number as its element
Shrunk(x) == LET times[k \in Nat] == IF k = 0 THEN x ELSE Shrink(times[k - 1]) IN times
\* a slip: the single element of a one-block design
InitialAOne(m, t) == {1}
InitialA(m, t) ==
  IF m * S <= R \/ t * S <= R THEN {2}
  ELSE { k \in 2 .. m + 2 :
         /\ Shrunk(m * S - R)[k] <= t * S - R
         /\ k > 2 => Shrunk(m * S - R)[k - 1] > t * S - R }

\* a slip: the 1 is not subtracted
FirstSizeWhole(m) == (m * S * S) \div R
\* m_req / r - 1, the size of the first block before rounding
FirstSize(m) == (m * S * S) \div R - S
InRange(k) == 0 <= k /\ k <= a
\* min(mi[0], t_pri)
Threshold == IF mi[0] < tPri THEN mi[0] ELSE tPri
\* a slip: rounded up, as ceil would
IntDivUp(x, y) == (x + y - 1) \div y
\* operator/ of C truncates; both operands are non-negative here
IntDiv(x, y) == x \div y

Init ==
  /\ mReq \in MReqs /\ tPri \in TPris
  /\ a \in InitialA(mReq, tPri) /\ aOut = a
  /\ ni = FirstSize(mReq) /\ sumNi = ni
  /\ mi = [k \in 0 .. a |-> IF k = 0 THEN Ceil(ni) ELSE 0]
  /\ base = [k \in 0 .. a |-> 0]
  /\ i = 1 /\ aPt = 0 /\ sumA = 0 /\ newA = 0
  /\ pc = "grow"

\* one turn of the first loop, for i < a
Grow ==
  /\ pc = "grow" /\ i < a
  /\ ni' = Shrink(ni) /\ sumNi' = sumNi + ni'
  /\ base' = [base EXCEPT ![i] = mi[i - 1] + base[i - 1]]
  /\ mi' = [mi EXCEPT ![i] = Ceil(sumNi') - base'[i]]
  /\ aPt' = IF mi'[i] <= Threshold /\ aPt = 0 THEN i ELSE aPt
  /\ i' = i + 1
  /\ UNCHANGED <<pc, mReq, tPri, a, aOut, sumA, newA>>

\* the last block takes what is left; then the new block count is estimated
Close ==
  /\ pc = "grow" /\ i >= a
  /\ base' = [base EXCEPT ![a] = mi[a - 1] + base[a - 1]]
  /\ mi' = [mi EXCEPT ![a] = mReq - base'[a]]
  /\ sumA' = mReq - base'[aPt]
  /\ IF Threshold = 0
     THEN pc' = "failed" /\ UNCHANGED newA
     ELSE /\ newA' = IntDiv(sumA', Threshold) + aPt
          /\ pc' = IF newA' > sumA' THEN "done" ELSE "refit"
  /\ i' = aPt
  /\ UNCHANGED <<mReq, tPri, a, aOut, ni, sumNi, aPt>>

\* one turn of the second loop; i = a_pt = 0 would read element -1
Refit ==
  /\ pc = "refit" /\ i < newA
  /\ IF InRange(i) /\ InRange(i - 1)
     THEN /\ base' = [base EXCEPT ![i] = mi[i - 1] + base[i - 1]]
          /\ mi' = [mi EXCEPT ![i] = Threshold]
          /\ sumA' = sumA - Threshold
          /\ i' = i + 1
          /\ UNCHANGED pc
     ELSE pc' = "failed" /\ UNCHANGED <<base, mi, sumA, i>>
  /\ UNCHANGED <<mReq, tPri, a, aOut, ni, sumNi, aPt, newA>>

LastBlock ==
  /\ pc = "refit" /\ i >= newA
  /\ IF sumA > 0
     THEN IF InRange(newA) /\ InRange(newA - 1)
          THEN /\ base' = [base EXCEPT ![newA] = mi[newA - 1] + base[newA - 1]]
               /\ mi' = [mi EXCEPT ![newA] = sumA]
               /\ aOut' = newA /\ pc' = "done"
          ELSE pc' = "failed" /\ UNCHANGED <<base, mi, aOut>>
     ELSE aOut' = newA - 1 /\ pc' = "done" /\ UNCHANGED <<base, mi>>
  /\ UNCHANGED <<mReq, tPri, a, i, ni, sumNi, aPt, sumA, newA>>

Stopped == pc \in {"done", "failed"} /\ UNCHANGED vars

Next == Grow \/ Close \/ Refit \/ LastBlock \/ Stopped

Spec == Init /\ [][Next]_vars

-----------------------------------------------------------------------------
(***************************************************************************)
(* Counters and table entries stay natural numbers where the code uses     *)
(* unsigned types: what is left of m_req never becomes negative while      *)
(* blocks are cut from it, nor, from three bits on, does a block size.     *)
(***************************************************************************)
TypeOK ==
  /\ pc \in {"grow", "refit", "done", "failed"}
  /\ mReq \in MReqs /\ tPri \in TPris
  /\ a \in Nat /\ aOut \in Int /\ i \in Nat /\ aPt \in Nat
  /\ sumA \in Nat /\ newA \in Nat
  /\ mReq > 2 => \A b \in 0 .. a : mi[b] \in Nat
  /\ mi \in [0 .. a -> Int] /\ base \in [0 .. a -> Int]

(***************************************************************************)
(* The blocks divide the output: they start at 0, follow each other        *)
(* without a gap or an overlap and end at m_req.  trevisan_extract ORs     *)
(* bit i of block b at i + base_mi[b] (extractor.cc 294), so an overlap    *)
(* would merge two bits and a gap would leave constant zeros.              *)
(***************************************************************************)
BlocksDivideOutput ==
  pc = "done" =>
    /\ base[0] = 0
    /\ \A k \in 1 .. aOut : base[k] = base[k - 1] + mi[k - 1]
    /\ base[aOut] + mi[aOut] = mReq

(***************************************************************************)
(* No bit of a block is lost.  From six requested bits on no block is      *)
(* empty and sizes never increase: trevisan_extract leaves a row at the    *)
(* first block that has not got it (extractor.cc 254), so a later, larger  *)
(* block would lose bits.  And the rows of the parallel loop, floor        *)
(* (max_entropy / r) with max_entropy at least m_req, are never fewer than *)
(* those of the largest block.                                             *)
(***************************************************************************)
SizesNeverIncrease ==
  mReq >= 6 =>
    /\ \A k \in 0 .. aOut : mi[k] > 0
    /\ \A k \in 1 .. aOut : mi[k] <= mi[k - 1]
RowsReachFirstBlock == mi[0] * R <= mReq * S
EveryBlockReached == pc = "done" => SizesNeverIncrease /\ RowsReachFirstBlock

(***************************************************************************)
(* From twenty requested bits on the division is completed: no element     *)
(* past the vectors is touched and no division by zero happens.            *)
(***************************************************************************)
DivisionCompletes == mReq >= 20 => pc # "failed"

-----------------------------------------------------------------------------
(* What the theorems on block sizes assume of the constants *)

\* r = e = 2.718..., below three; and in units no coarser than 1/100
RatioBelowThree == R <= 3 * S
RatioNearE == S >= 100 /\ 27 * S <= 10 * R /\ 100 * R <= 272 * S

\* A design has 1.51 times the binary logarithm of m_req / t_pri blocks; t_pri
\* is no smaller than that of n, which every 1-bit extractor needs to address
\* its input (num_random_bits), and n no smaller than m_req.
FewBlocks == \A m \in MReqs, t \in TPris : \A k \in InitialA(m, t) : 2 * k <= 3 * t

\* A row has five indices or more.
FiveIndices == \A t \in TPris : t >= 5
=============================================================================
