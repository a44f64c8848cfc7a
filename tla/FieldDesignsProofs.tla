-------------------------- MODULE FieldDesignsProofs --------------------------
(* Both weak designs for every field size, number of rows and indices:     *)
(* what the comments of compute_Si say of reductions that suffice or never *)
(* happen, that the seed is long enough, that two rows overlap in at most  *)
(* the degree many bits, that the overlaps meet the weak-design condition, *)
(* and over GF(p) that every bit is used equally often.  First GF(p): the  *)
(* loops, numbers and polynomials, the counting of uses.  Then GF(2^n):    *)
(* bits, the field of gf2n.h, its polynomials, the loops.  Then how many   *)
(* polynomials vanish where, over both.  Last the theorems on both.        *)
EXTENDS FieldDesigns, TLAPS, FiniteSetTheorems

\* One bound per loop of compute_Si, and what they add up to over the rows.
SizesOK == m \in Nat /\ i \in Nat /\ t \in Nat /\ tReq \in Nat /\ 2 <= tReq /\ tReq <= t
DigitsOK ==
  pc \in {"digits", "horner"} =>
    i < m /\ val \in Nat /\ coeff = [j \in DOMAIN coeff |-> coeff[j]]
      /\ \A j \in DOMAIN coeff : coeff[j] \in 0 .. t - 1
StartOK == pc = "digits" => a = 0 /\ res = 0 /\ indices = <<>>
HornerOK == pc = "horner" => a \in 0 .. tReq /\ res \in 0 .. 2 * t - 2
\* the x-th index of a row lies in column x of t seed bits
InColumn(index, x) == index \in Int /\ t * (x - 1) <= index /\ index < t * x
IndicesOK ==
  pc = "horner" =>
    indices \in Seq(Int) /\ Len(indices) = a /\ \A x \in 1 .. a : InColumn(indices[x], x)
DesignOK ==
  /\ Len(design) = i /\ design \in Seq(Seq(Int))
  /\ \A j \in 1 .. i : \A x \in 1 .. tReq : InColumn(design[j][x], x)
  /\ pc = "params" => i = 0
  /\ pc = "row" => i < m
  /\ pc = "done" => i = m
GFP == SizesOK /\ DigitsOK /\ StartOK /\ HornerOK /\ IndicesOK /\ DesignOK
Inv == type \in Types /\ (type = "gfp" => GFP)
-----------------------------------------------------------------------------
\* What one turn of Horner's rule leaves is below 2t - 1.
LEMMA EvaluateBound ==
  ASSUME t \in Nat, t >= 1, NEW x \in Nat, a \in Nat, NEW c \in 0 .. t - 1
  PROVE  Evaluate(x, c) \in 0 .. 2 * t - 2
  <1>1. x * a \in Nat
    OBVIOUS
  <1>2. (x * a) % t \in 0 .. t - 1
    BY <1>1
  <1>3. QED
    BY <1>2 DEF Evaluate

\* One subtraction brings such a sum below t.
LEMMA ReducedBound ==
  ASSUME t \in Nat, NEW x \in 0 .. 2 * t - 2
  PROVE  Reduced(x) \in 0 .. t - 1
  BY DEF Reduced

\* The pair <a, poly(a)> lies in column a and is never reduced modulo t * t.
LEMMA SeedIndexInColumn ==
  ASSUME t \in Nat, NEW x \in Nat, x < t, NEW y \in 0 .. t - 1
  PROVE  SeedIndex(x, y) \in Int /\ t * x <= SeedIndex(x, y) /\ SeedIndex(x, y) < t * (x + 1)
  <1>1. t * x \in Nat /\ t * x + y \in Nat /\ t * (x + 1) = t * x + t /\ t * t \in Nat
    OBVIOUS
  <1>2. t * (x + 1) <= t * t
    OBVIOUS
  <1>3. ~(t * x + y >= t * t)
    BY <1>1, <1>2
  <1>4. SeedIndex(x, y) = t * x + y
    BY <1>3 DEF SeedIndex
  <1>5. QED
    BY <1>1, <1>4

\* The column of an index is its quotient by t.
LEMMA ColumnIsQuotient ==
  ASSUME t \in Nat, NEW x \in Nat, NEW index \in Int, t * x <= index, index < t * (x + 1)
  PROVE  index \div t = x
  <1> DEFINE q == index \div t
             e == index % t
  <1>1. t >= 1 /\ t * x \in Nat /\ index \in Nat /\ t * (x + 1) = t * x + t
    OBVIOUS
  <1>2. q \in Nat /\ e \in 0 .. t - 1 /\ index = t * q + e
    BY <1>1
  <1> HIDE DEF q, e
  <1>3. ~(q > x)
    <2>1. SUFFICES ASSUME q > x PROVE FALSE
      OBVIOUS
    <2>2. t * q >= t * (x + 1)
      BY <1>1, <1>2, <2>1
    <2>3. QED
      BY <1>1, <1>2, <2>2
  <1>4. ~(q < x)
    <2>1. SUFFICES ASSUME q < x PROVE FALSE
      OBVIOUS
    <2>2. t * (q + 1) <= t * x /\ t * (q + 1) = t * q + t /\ t * q \in Nat
      BY <1>1, <1>2, <2>1
    <2>3. QED
      BY <1>1, <1>2, <2>2
  <1>5. q = x
    BY <1>2, <1>3, <1>4
  <1>6. QED
    BY <1>5 DEF q

\* No column reaches beyond t * t.
LEMMA ColumnBelowSquare ==
  ASSUME SizesOK, NEW x \in 1 .. tReq, NEW index, InColumn(index, x)
  PROVE  index \in Int /\ 0 <= index /\ index < t * t /\ index \div t = x - 1
  <1>1. /\ t \in Nat /\ x \in Nat /\ x - 1 \in Nat /\ x <= t /\ index \in Int
        /\ t * (x - 1) <= index /\ index < t * x
    BY DEF SizesOK, InColumn
  <1>2. t * x <= t * t /\ 0 <= t * (x - 1) /\ t * t \in Nat /\ t * x \in Nat /\ t * (x - 1) \in Nat
    BY <1>1
  <1>3. index \div t = x - 1
    <2>1. x = (x - 1) + 1
      BY <1>1
    <2>2. QED
      BY <1>1, <2>1, ColumnIsQuotient
  <1>4. QED
    BY <1>1, <1>2, <1>3
-----------------------------------------------------------------------------
\* t is the next prime, so no column is missing.
LEMMA InitInv == Init => Inv
  <1> SUFFICES ASSUME Init PROVE Inv
    OBVIOUS
  <1>1. type \in Types /\ m \in Nat /\ tReq \in Nat /\ 2 <= tReq /\ pc = "params" /\ i = 0
    BY ParamsAssumption DEF Init
  <1>2. ASSUME type = "gfp" PROVE GFP
    <2>1. FieldSize = NextPrime(tReq)
      BY <1>2 DEF FieldSize
    <2>2. t \in tReq .. 2 * tReq
      BY <2>1 DEF Init, NextPrime
    <2>3. SizesOK
      BY <1>1, <2>2 DEF SizesOK
    <2>4. DesignOK
      <3>1. design = <<>>
        BY DEF Init
      <3>2. Len(design) = 0 /\ design \in Seq(Seq(Int))
        BY <3>1
      <3>3. QED
        BY <1>1, <3>2 DEF DesignOK
    <2>5. QED
      BY <1>1, <2>3, <2>4 DEF GFP, DigitsOK, StartOK, HornerOK, IndicesOK
  <1>3. QED
    BY <1>1, <1>2 DEF Inv

\* A row starts with zeros for coefficients and no index.
LEMMA StartRowInv ==
  ASSUME GFP, StartRow
  PROVE  GFP'
  <1>1. /\ pc = "row" /\ pc' = "digits" /\ i < m /\ val' = i /\ a' = 0 /\ res' = 0 /\ indices' = <<>>
        /\ coeff' = [j \in 0 .. deg |-> 0]
        /\ UNCHANGED <<m, tReq, t, i, design>>
    BY DEF StartRow
  <1>2. SizesOK /\ DesignOK /\ i \in Nat /\ t \in Nat /\ t >= 1
    BY DEF GFP, SizesOK
  <1>3. SizesOK'
    BY <1>1, <1>2 DEF SizesOK
  <1>4. DigitsOK'
    <2>1. \A j \in DOMAIN coeff' : coeff'[j] \in 0 .. t - 1
      BY <1>1, <1>2
    <2>2. coeff' = [j \in DOMAIN coeff' |-> coeff'[j]]
      BY <1>1
    <2>3. QED
      BY <1>1, <1>2, <2>1, <2>2 DEF DigitsOK
  <1>5. DesignOK'
    BY <1>1, <1>2 DEF DesignOK, InColumn
  <1>6. QED
    BY <1>1, <1>3, <1>4, <1>5 DEF GFP, StartOK, HornerOK, IndicesOK

\* Every digit is a remainder by t.
LEMMA DigitInv ==
  ASSUME GFP, DigitGFP
  PROVE  GFP'
  <1>1. /\ pc = "digits" /\ pc' \in {"digits", "horner"} /\ val' = val \div t
        /\ coeff' = [coeff EXCEPT ![deg - k] = val % t]
        /\ UNCHANGED <<m, tReq, t, i, a, res, indices, design>>
    BY DEF DigitGFP, NextDigit
  <1>2. /\ SizesOK /\ DesignOK /\ i < m /\ t \in Nat /\ t >= 1 /\ tReq \in Nat
        /\ val \in Nat /\ a = 0 /\ res = 0 /\ indices = <<>>
        /\ coeff = [j \in DOMAIN coeff |-> coeff[j]] /\ \A j \in DOMAIN coeff : coeff[j] \in 0 .. t - 1
    BY <1>1 DEF GFP, SizesOK, DigitsOK, StartOK
  <1>3. val % t \in 0 .. t - 1 /\ val \div t \in Nat
    BY <1>2
  <1>4. DigitsOK'
    <2>1. DOMAIN coeff' = DOMAIN coeff
      BY <1>1
    <2>2. \A j \in DOMAIN coeff : coeff'[j] \in 0 .. t - 1
      BY <1>1, <1>2, <1>3
    <2>3. coeff' = [j \in DOMAIN coeff' |-> coeff'[j]]
      BY <1>1, <1>2
    <2>4. QED
      BY <1>1, <1>2, <1>3, <2>1, <2>2, <2>3 DEF DigitsOK
  <1>5. SizesOK'
    BY <1>1, <1>2 DEF SizesOK
  <1>6. DesignOK'
    BY <1>1, <1>2 DEF DesignOK, InColumn
  <1>7. StartOK' /\ HornerOK'
    BY <1>1, <1>2 DEF StartOK, HornerOK
  <1>8. IndicesOK'
    <2>1. indices' = <<>> /\ a' = 0
      BY <1>1, <1>2
    <2>2. indices' \in Seq(Int) /\ Len(indices') = a' /\ 1 .. a' = {}
      BY <2>1
    <2>3. QED
      BY <2>2 DEF IndicesOK
  <1>9. QED
    BY <1>4, <1>5, <1>6, <1>7, <1>8 DEF GFP

\* One turn of Horner's rule.
LEMMA HornerInv ==
  ASSUME GFP, type = "gfp", HornerStep
  PROVE  GFP'
  <1>1. /\ pc = "horner" /\ pc' = pc /\ a < tReq /\ k \in DOMAIN coeff
        /\ res' = Evaluate(res, coeff[k])
        /\ UNCHANGED <<m, tReq, t, i, val, coeff, a, indices, design>>
    BY DEF HornerStep
  <1>2. /\ SizesOK /\ DigitsOK /\ IndicesOK /\ DesignOK /\ t \in Nat /\ t >= 1 /\ tReq \in Nat
        /\ a \in 0 .. tReq /\ res \in 0 .. 2 * t - 2 /\ coeff[k] \in 0 .. t - 1
    BY <1>1 DEF GFP, SizesOK, DigitsOK, HornerOK
  <1>3. res' \in 0 .. 2 * t - 2
    <2>1. res \in Nat /\ a \in Nat
      BY <1>2
    <2>2. QED
      BY <1>1, <1>2, <2>1, EvaluateBound
  <1>4. SizesOK' /\ DigitsOK'
    BY <1>1, <1>2 DEF SizesOK, DigitsOK
  <1>5. HornerOK' /\ StartOK'
    BY <1>1, <1>2, <1>3 DEF HornerOK, StartOK
  <1>6. IndicesOK'
    BY <1>1, <1>2 DEF IndicesOK, InColumn
  <1>7. DesignOK'
    BY <1>1, <1>2 DEF DesignOK, InColumn
  <1>8. QED
    BY <1>4, <1>5, <1>6, <1>7 DEF GFP

\* The index of the next column.
LEMMA PushInv ==
  ASSUME GFP, PushGFP
  PROVE  GFP'
  <1> DEFINE index == SeedIndex(a, Reduced(res))
  <1>1. /\ pc = "horner" /\ pc' = pc /\ a < tReq /\ a' = a + 1 /\ res' = 0
        /\ indices' = Append(indices, index)
        /\ UNCHANGED <<m, tReq, t, i, val, coeff, design>>
    BY DEF PushGFP, PushIndex
  <1>2. /\ SizesOK /\ DigitsOK /\ DesignOK /\ t \in Nat /\ t >= 1 /\ tReq \in Nat /\ tReq <= t
        /\ a \in 0 .. tReq /\ res \in 0 .. 2 * t - 2
        /\ indices \in Seq(Int) /\ Len(indices) = a /\ \A x \in 1 .. a : InColumn(indices[x], x)
    BY <1>1 DEF GFP, SizesOK, HornerOK, IndicesOK
  <1>3. index \in Int /\ t * a <= index /\ index < t * (a + 1)
    <2>1. a \in Nat /\ a < t /\ Reduced(res) \in 0 .. t - 1
      BY <1>1, <1>2, ReducedBound
    <2>2. QED
      BY <1>2, <2>1, SeedIndexInColumn
  <1> HIDE DEF index
  <1>4. InColumn(index, a + 1)
    <2>1. (a + 1) - 1 = a
      BY <1>2
    <2>2. QED
      BY <1>3, <2>1 DEF InColumn
  <1>5. IndicesOK'
    <2>1. indices' \in Seq(Int) /\ Len(indices') = a + 1
      BY <1>1, <1>2, <1>3
    <2>2. indices'[a + 1] = index /\ \A x \in 1 .. a : indices'[x] = indices[x]
      BY <1>1, <1>2
    <2>3. ASSUME NEW x \in 1 .. a + 1 PROVE InColumn(indices'[x], x)
      <3>1. CASE x = a + 1
        BY <1>4, <2>2, <3>1
      <3>2. CASE x # a + 1
        <4>1. x \in 1 .. a
          BY <1>2, <3>2
        <4>2. QED
          BY <1>2, <2>2, <4>1
      <3>3. QED
        BY <3>1, <3>2
    <2>4. QED
      BY <1>1, <2>1, <2>3 DEF IndicesOK, InColumn
  <1>6. SizesOK' /\ DigitsOK'
    BY <1>1, <1>2 DEF SizesOK, DigitsOK
  <1>7. HornerOK' /\ StartOK'
    BY <1>1, <1>2 DEF HornerOK, StartOK
  <1>8. DesignOK'
    BY <1>1, <1>2 DEF DesignOK, InColumn
  <1>9. QED
    BY <1>5, <1>6, <1>7, <1>8 DEF GFP

\* The finished row joins the design.
LEMMA EndRowInv ==
  ASSUME GFP, EndRow
  PROVE  GFP'
  <1>1. /\ pc = "horner" /\ a = tReq /\ i' = i + 1 /\ design' = Append(design, indices)
        /\ pc' = (IF i + 1 < m THEN "row" ELSE "done")
        /\ UNCHANGED <<m, tReq, t>>
    BY DEF EndRow
  <1>2. /\ SizesOK /\ i \in Nat /\ m \in Nat /\ t \in Nat /\ tReq \in Nat /\ i < m
        /\ indices \in Seq(Int) /\ \A x \in 1 .. tReq : InColumn(indices[x], x)
        /\ Len(design) = i /\ design \in Seq(Seq(Int))
        /\ \A j \in 1 .. i : \A x \in 1 .. tReq : InColumn(design[j][x], x)
    BY <1>1 DEF GFP, SizesOK, DigitsOK, IndicesOK, DesignOK
  <1>3. SizesOK'
    BY <1>1, <1>2 DEF SizesOK
  <1>4. DesignOK'
    <2>1. Len(design') = i + 1 /\ design' \in Seq(Seq(Int))
      BY <1>1, <1>2
    <2>2. design'[i + 1] = indices /\ \A j \in 1 .. i : design'[j] = design[j]
      BY <1>1, <1>2
    <2>3. ASSUME NEW j \in 1 .. i + 1, NEW x \in 1 .. tReq PROVE InColumn(design'[j][x], x)
      <3>1. CASE j = i + 1
        BY <1>2, <2>2, <3>1
      <3>2. CASE j # i + 1
        <4>1. j \in 1 .. i
          BY <1>2, <3>2
        <4>2. QED
          BY <1>2, <2>2, <4>1
      <3>3. QED
        BY <3>1, <3>2
    <2>4. (pc' = "row" => i + 1 < m) /\ (pc' = "done" => i + 1 = m)
      BY <1>1, <1>2
    <2>5. QED
      BY <1>1, <2>1, <2>3, <2>4 DEF DesignOK, InColumn
  <1>5. QED
    BY <1>1, <1>3, <1>4 DEF GFP, DigitsOK, StartOK, HornerOK, IndicesOK

\* Every step keeps the invariant; the class of the design never changes.
LEMMA NextInv ==
  ASSUME Inv, [Next]_vars
  PROVE  Inv'
  <1>1. type' = type /\ type \in Types
    BY DEF Inv, Next, vars, TooFewRows, SetParams, StartRow, DigitGFP, DigitGF2X, NextDigit,
           HornerStep, PushGFP, PushGF2X, PushIndex, EndRow, Stopped
  <1>2. SUFFICES ASSUME type = "gfp", GFP PROVE GFP'
    BY <1>1 DEF Inv
  <1>3. CASE TooFewRows
    BY <1>2, <1>3 DEF TooFewRows, GFP, SizesOK, DigitsOK, StartOK, HornerOK, IndicesOK, DesignOK, InColumn
  <1>4. CASE SetParams
    <2>1. /\ pc' = "row" /\ m >= 2 /\ pc = "params"
          /\ UNCHANGED <<m, tReq, t, i, val, coeff, a, k, res, indices, design>>
      BY <1>2, <1>4 DEF SetParams
    <2>2. i < m
      BY <1>2, <2>1 DEF GFP, SizesOK, DesignOK
    <2>3. QED
      BY <1>2, <2>1, <2>2 DEF GFP, SizesOK, DigitsOK, StartOK, HornerOK, IndicesOK, DesignOK, InColumn
  <1>5. CASE StartRow
    BY <1>2, <1>5, StartRowInv
  <1>6. CASE DigitGFP
    BY <1>2, <1>6, DigitInv
  <1>7. CASE HornerStep
    BY <1>2, <1>7, HornerInv
  <1>8. CASE PushGFP
    BY <1>2, <1>8, PushInv
  <1>9. CASE EndRow
    BY <1>2, <1>9, EndRowInv
  <1>10. CASE UNCHANGED vars
    BY <1>2, <1>10 DEF vars, GFP, SizesOK, DigitsOK, StartOK, HornerOK, IndicesOK, DesignOK, InColumn
  <1>11. QED
    BY <1>2, <1>3, <1>4, <1>5, <1>6, <1>7, <1>8, <1>9, <1>10
       DEF Next, DigitGF2X, PushGF2X, Stopped
-----------------------------------------------------------------------------
\* The inductive invariant: of a GF(p) design, in every loop of compute_Si.
THEOREM Invariance == Spec => []Inv
  <1>1. QED
    BY InitInv, NextInv, PTL DEF Spec

(***************************************************************************)
(* The comment of weakdes_gfp.cc 73-78 for every prime: one subtraction    *)
(* after Horner's loop yields a field element.                             *)
(***************************************************************************)
THEOREM OneSubtraction == Spec => []OneSubtractionSuffices
  <1>1. Inv => OneSubtractionSuffices
    <2>1. SUFFICES ASSUME Inv, pc = "horner", type = "gfp"
                   PROVE  res <= 2 * t - 2 /\ Reduced(res) < t
      BY DEF OneSubtractionSuffices
    <2>2. t \in Nat /\ res \in 0 .. 2 * t - 2
      BY <2>1 DEF Inv, GFP, SizesOK, HornerOK
    <2>3. Reduced(res) \in 0 .. t - 1
      BY <2>2, ReducedBound
    <2>4. QED
      BY <2>2, <2>3
  <1>2. QED
    BY <1>1, Invariance, PTL

\* Over GF(p) every index stays in the column of its position and below
\* t * t: weakdes_gfp.cc 289-296 never has to reduce.
LEMMA ColumnsGFP ==
  ASSUME Inv, type = "gfp"
  PROVE  IndicesByColumn
  <1>1. SUFFICES ASSUME pc = "horner"
                 PROVE  /\ Len(indices) = a
                        /\ \A x \in 1 .. a :
                             /\ indices[x] < t * t
                             /\ x - 1 = IF type = "gfp" THEN indices[x] \div t ELSE indices[x] % t
    BY DEF IndicesByColumn
  <1>2. GFP
    BY DEF Inv
  <1>3. /\ SizesOK /\ tReq \in Nat /\ a \in 0 .. tReq /\ Len(indices) = a
        /\ \A x \in 1 .. a : InColumn(indices[x], x)
    BY <1>1, <1>2 DEF GFP, SizesOK, HornerOK, IndicesOK
  <1>4. ASSUME NEW x \in 1 .. a
        PROVE  indices[x] < t * t /\ indices[x] \div t = x - 1
    <2>1. x \in 1 .. tReq /\ InColumn(indices[x], x)
      BY <1>3
    <2>2. QED
      BY <1>3, <2>1, ColumnBelowSquare
  <1>5. QED
    BY <1>3, <1>4

\* The seed of (a + 1) * t * t bits holds every bit that any block of any row
\* reads, where the indices of a row stay below t * t.
LEMMA SeedHolds ==
  ASSUME SizesOK, pc = "done" => \A j \in 1 .. m : \A index \in Row(j) : index \in Int /\ index < t * t
  PROVE  SeedSuffices
  <1>1. SUFFICES ASSUME pc = "done", NEW b \in 0 .. LastBlk, NEW j \in 1 .. m,
                        NEW index \in Row(j)
                 PROVE  index + BlockOffset(b) < (LastBlk + 1) * t * t
    BY DEF SeedSuffices
  <1>2. t \in Nat /\ tReq \in Nat /\ tReq <= t /\ t >= 1 /\ b \in Nat /\ LastBlk \in Nat /\ b <= LastBlk
    BY ParamsAssumption DEF SizesOK
  <1>3. index \in Int /\ index < t * t
    BY <1>1
  <1>4. b * tReq <= LastBlk * (t * t)
    <2>1. tReq <= t * t /\ t * t \in Nat
      BY <1>2
    <2>2. b * tReq <= b * (t * t)
      BY <1>2, <2>1
    <2>3. b * (t * t) <= LastBlk * (t * t)
      BY <1>2, <2>1
    <2>4. b * tReq \in Nat /\ b * (t * t) \in Nat /\ LastBlk * (t * t) \in Nat
      BY <1>2, <2>1
    <2>5. QED
      BY <2>2, <2>3, <2>4
  <1>5. (LastBlk + 1) * t * t = LastBlk * (t * t) + t * t
    BY <1>2
  <1>6. b * tReq \in Nat /\ LastBlk * (t * t) \in Nat /\ t * t \in Nat
    BY <1>2
  <1>7. QED
    BY <1>3, <1>4, <1>5, <1>6 DEF BlockOffset

\* Over GF(p) they do: their columns end there.
LEMMA SeedGFP ==
  ASSUME Inv, type = "gfp"
  PROVE  SeedSuffices
  <1>1. SizesOK /\ DesignOK
    BY DEF Inv, GFP
  <1>2. ASSUME pc = "done", NEW j \in 1 .. m, NEW index \in Row(j)
        PROVE  index \in Int /\ index < t * t
    <2>1. PICK x \in 1 .. tReq : index = design[j][x]
      BY DEF Row
    <2>2. InColumn(index, x)
      BY <1>1, <1>2, <2>1 DEF DesignOK
    <2>3. QED
      BY <1>1, <2>2, ColumnBelowSquare
  <1>3. QED
    BY <1>1, <1>2, SeedHolds
-----------------------------------------------------------------------------
(* Numbers: division, induction, functions defined by recursion, congruence and Euclid's lemma. *)

\* Quotient and remainder.
LEMMA Divides ==
  ASSUME NEW n \in Nat, NEW v \in Nat \ {0}
  PROVE  n \div v \in Nat /\ n % v \in 0 .. v - 1 /\ n = v * (n \div v) + (n % v)
  OBVIOUS

\* A number has one quotient and one rest.
LEMMA QuotientUnique ==
  ASSUME NEW v \in Nat \ {0}, NEW q \in Nat, NEW e \in 0 .. v - 1
  PROVE  v * q + e \in Nat /\ (v * q + e) \div v = q /\ (v * q + e) % v = e
  <1> DEFINE n == v * q + e
             x == n \div v
             y == n % v
  <1>1. v * q \in Nat /\ n \in Nat
    OBVIOUS
  <1>2. x \in Nat /\ y \in 0 .. v - 1 /\ n = v * x + y
    BY <1>1, Divides
  <1>3. n = v * q + e
    OBVIOUS
  <1> HIDE DEF n, x, y
  <1>4. ~(x > q)
    <2>1. SUFFICES ASSUME x > q PROVE FALSE
      OBVIOUS
    <2>2. v * x >= v * (q + 1) /\ v * (q + 1) = v * q + v /\ v * x \in Nat
      BY <1>2, <2>1
    <2>3. QED
      BY <1>1, <1>2, <1>3, <2>2
  <1>5. ~(x < q)
    <2>1. SUFFICES ASSUME x < q PROVE FALSE
      OBVIOUS
    <2>2. v * q >= v * (x + 1) /\ v * (x + 1) = v * x + v /\ v * x \in Nat
      BY <1>2, <2>1
    <2>3. QED
      BY <1>1, <1>2, <1>3, <2>2
  <1>6. x = q
    <2>1. x \in Nat
      BY <1>2
    <2>2. QED
      BY <1>4, <1>5, <2>1
  <1>7. y = e
    <2>1. v * x = v * q /\ v * q \in Nat
      BY <1>1, <1>6
    <2>2. y \in Nat /\ n = v * q + y
      BY <1>2, <2>1
    <2>3. QED
      BY <1>3, <2>1, <2>2
  <1>8. QED
    BY <1>1, <1>3, <1>6, <1>7 DEF x, y, n

\* Every set of natural numbers has a least element: of the intervals 1 .. n
\* for its elements one includes no other.
LEMMA LeastElement ==
  ASSUME NEW T \in SUBSET Nat, T # {}
  PROVE  \E x \in T : \A y \in T : x <= y
  <1> DEFINE F == {1 .. n : n \in T}
  <1>1. F \subseteq FiniteSubsetsOf(Nat) /\ F # {}
    <2>1. \A n \in T : 1 .. n \in SUBSET Nat /\ IsFiniteSet(1 .. n)
      BY FS_Interval
    <2>2. QED
      BY <2>1 DEF FiniteSubsetsOf
  <1>2. IsWellFoundedOn(StrictSubsetOrdering(Nat), FiniteSubsetsOf(Nat))
    BY FS_StrictSubsetOrderingWellFounded
  <1>3. PICK X \in F : \A Y \in F : ~(<<Y, X>> \in StrictSubsetOrdering(Nat))
    <2> HIDE DEF F
    <2>1. QED
      BY <1>1, <1>2, WFMin
  <1>4. PICK x \in T : X = 1 .. x
    BY <1>3
  <1>5. ASSUME NEW y \in T, ~(x <= y) PROVE FALSE
    <2>1. 1 .. y \subseteq 1 .. x /\ 1 .. y # 1 .. x
      <3>1. x \in 1 .. x /\ x \notin 1 .. y
        BY <1>5
      <3>2. 1 .. y \subseteq 1 .. x
        BY <1>5
      <3>3. QED
        BY <3>1, <3>2
    <2>2. 1 .. y \in SUBSET Nat /\ 1 .. x \in SUBSET Nat
      OBVIOUS
    <2>3. <<1 .. y, X>> \in StrictSubsetOrdering(Nat)
      BY <1>4, <2>1, <2>2 DEF StrictSubsetOrdering
    <2>4. QED
      BY <1>3, <2>3
  <1>6. QED
    BY <1>5

\* Induction up to a bound, for a set instead of an operator.
LEMMA Induct ==
  ASSUME NEW Q, 0 \in Q, NEW max \in Nat, \A n \in 0 .. max - 1 : n \in Q => n + 1 \in Q
  PROVE  0 .. max \subseteq Q
  <1> DEFINE T == {n \in 0 .. max : n \notin Q}
  <1>1. SUFFICES ASSUME T # {} PROVE FALSE
    OBVIOUS
  <1>2. T \in SUBSET Nat
    OBVIOUS
  <1>3. PICK x \in T : \A y \in T : x <= y
    <2> HIDE DEF T
    <2> QED BY <1>1, <1>2, LeastElement
  <1>4. x # 0 /\ x \in 0 .. max /\ x \notin Q
    OBVIOUS
  <1>5. x - 1 \in 0 .. max - 1 /\ x - 1 \notin T
    BY <1>3, <1>4
  <1>6. x - 1 \in Q /\ (x - 1) + 1 = x
    BY <1>4, <1>5
  <1>7. QED
    BY <1>4, <1>5, <1>6

\* f starts from base and goes from each value to the next by step.
Iterates(f, Y, base, step) ==
  f \in [Nat -> Y] /\ f[0] = base /\ \A n \in Nat : f[n + 1] = step[n + 1][f[n]]

\* A function on the natural numbers may be defined from each value to the next.
LEMMA Recursion ==
  ASSUME NEW Y, NEW base \in Y, NEW step, \A n \in Nat, y \in Y : step[n][y] \in Y
  PROVE  \E f : Iterates(f, Y, base, step)
  <1> DEFINE Good(n) == {g \in [0 .. n -> Y] : g[0] = base /\ \A j \in 1 .. n : g[j] = step[j][g[j - 1]]}
  <1>1. ASSUME NEW max \in Nat PROVE Good(max) # {}
    <2> DEFINE Q == {n \in 0 .. max : Good(n) # {}}
    <2>1. 0 \in Q
      <3>1. [j \in 0 .. 0 |-> base] \in Good(0)
        OBVIOUS
      <3>2. QED
        BY <3>1
    <2>2. ASSUME NEW n \in 0 .. max - 1, n \in Q PROVE n + 1 \in Q
      <3>1. PICK g \in Good(n) : TRUE
        BY <2>2
      <3> DEFINE e == step[n + 1][g[n]]
                 h == [j \in 0 .. n + 1 |-> IF j = n + 1 THEN e ELSE g[j]]
      <3>2. g[n] \in Y /\ e \in Y /\ n \in Nat
        BY <2>2, <3>1
      <3>3. h \in [0 .. n + 1 -> Y]
        BY <3>1, <3>2
      <3>4. h[0] = base
        BY <3>1, <3>2
      <3>5. ASSUME NEW j \in 1 .. n + 1 PROVE h[j] = step[j][h[j - 1]]
        <4>1. j - 1 \in 0 .. n /\ j - 1 # n + 1
          BY <3>2, <3>5
        <4>2. h[j - 1] = g[j - 1]
          BY <3>2, <4>1
        <4>3. CASE j = n + 1
          <5>1. h[j] = e /\ j - 1 = n
            BY <3>2, <4>3
          <5>2. QED
            BY <4>2, <4>3, <5>1
        <4>4. CASE j # n + 1
          <5>1. j \in 1 .. n
            BY <3>2, <3>5, <4>4
          <5>2. h[j] = g[j]
            BY <3>2, <4>4, <5>1
          <5>3. g[j] = step[j][g[j - 1]]
            BY <3>1, <5>1
          <5>4. QED
            BY <4>2, <5>2, <5>3
        <4>5. QED
          BY <4>3, <4>4
      <3> HIDE DEF h
      <3>6. h \in Good(n + 1)
        BY <3>3, <3>4, <3>5
      <3>7. n + 1 \in 0 .. max
        BY <2>2
      <3>8. QED
        BY <3>6, <3>7
    <2> HIDE DEF Q
    <2>3. max \in Q
      <3>1. 0 .. max \subseteq Q
        BY <2>1, <2>2, Induct
      <3>2. QED
        BY <3>1
    <2>4. QED
      BY <2>3 DEF Q
  \* two of them agree as far as the shorter goes
  <1>2. ASSUME NEW n \in Nat, NEW g \in Good(n), NEW h \in Good(n + 1) PROVE g[n] = h[n]
    <2> DEFINE Q == {l \in 0 .. n : g[l] = h[l]}
    <2>1. 0 \in Q
      BY <1>2
    <2>2. ASSUME NEW l \in 0 .. n - 1, l \in Q PROVE l + 1 \in Q
      <3>1. l + 1 \in 1 .. n /\ l + 1 \in 1 .. n + 1 /\ l + 1 \in 0 .. n /\ (l + 1) - 1 = l
        BY <2>2
      <3>2. g[l + 1] = step[l + 1][g[l]] /\ h[l + 1] = step[l + 1][h[l]]
        BY <3>1
      <3>3. QED
        BY <2>2, <3>1, <3>2
    <2> HIDE DEF Q
    <2>3. n \in Q
      <3>1. 0 .. n \subseteq Q
        BY <2>1, <2>2, Induct
      <3>2. QED
        BY <3>1
    <2>4. QED
      BY <2>3 DEF Q
  <1> DEFINE G(n) == CHOOSE g \in Good(n) : TRUE
             f == [n \in Nat |-> G(n)[n]]
  <1>3. \A n \in Nat : G(n) \in Good(n)
    BY <1>1
  <1>4. ASSUME NEW n \in Nat PROVE f[n] \in Y
    <2>1. n \in 0 .. n /\ f[n] = G(n)[n]
      <3>1. n \in 0 .. n
        OBVIOUS
      <3> HIDE DEF G
      <3>2. f[n] = G(n)[n]
        OBVIOUS
      <3>3. QED
        BY <3>1, <3>2
    <2>2. G(n) \in Good(n)
      BY <1>3
    <2> HIDE DEF G, f
    <2>3. G(n) \in [0 .. n -> Y]
      BY <2>2
    <2>4. QED
      BY <2>1, <2>3
  <1>5. f \in [Nat -> Y]
    <2> HIDE DEF G
    <2>1. \A n \in Nat : f[n] = G(n)[n]
      OBVIOUS
    <2>2. \A n \in Nat : G(n)[n] \in Y
      <3> HIDE DEF f
      <3> QED BY <1>4, <2>1
    <2>3. QED
      BY <2>2
  <1>6. f[0] = base
    <2>1. G(0) \in Good(0)
      BY <1>3
    <2>2. f[0] = G(0)[0]
      <3> HIDE DEF G
      <3>1. QED
        OBVIOUS
    <2>3. G(0)[0] = base
      <3> HIDE DEF G
      <3>1. QED
        BY <2>1
    <2>4. QED
      BY <2>2, <2>3
  <1>7. ASSUME NEW n \in Nat PROVE f[n + 1] = step[n + 1][f[n]]
    <2>1. n + 1 \in Nat /\ n + 1 \in 1 .. n + 1 /\ (n + 1) - 1 = n
      OBVIOUS
    <2>2. G(n + 1) \in Good(n + 1) /\ f[n + 1] = G(n + 1)[n + 1] /\ G(n) \in Good(n) /\ f[n] = G(n)[n]
      BY <1>3, <2>1
    <2>3. G(n + 1)[n + 1] = step[n + 1][G(n + 1)[(n + 1) - 1]]
      BY <2>1, <2>2
    <2> HIDE DEF G, Good, f
    <2>4. G(n)[n] = G(n + 1)[n]
      BY <1>2, <2>2
    <2>5. QED
      BY <2>1, <2>2, <2>3, <2>4
  <1> HIDE DEF f
  <1>8. Iterates(f, Y, base, step)
    BY <1>5, <1>6, <1>7 DEF Iterates
  <1>9. QED
    BY <1>8

\* What is divided without a rest, and what leaves the same rest.
Divisible(x, b) == \E q \in Int : x = b * q
Congruent(x, y, b) == Divisible(x - y, b)

\* Sums, differences and multiples of what b divides.
LEMMA DivisibleSums ==
  ASSUME NEW b \in Nat, NEW x \in Int, NEW y \in Int, Divisible(x, b), Divisible(y, b)
  PROVE  Divisible(x + y, b) /\ Divisible(x - y, b)
  <1>1. PICK q \in Int : x = b * q
    BY DEF Divisible
  <1>2. PICK r \in Int : y = b * r
    BY DEF Divisible
  <1>3. q + r \in Int /\ q - r \in Int /\ b * (q + r) = b * q + b * r /\ b * (q - r) = b * q - b * r
    OBVIOUS
  <1>4. QED
    BY <1>1, <1>2, <1>3 DEF Divisible

\* Multiples of what b divides.
LEMMA DivisibleProduct ==
  ASSUME NEW b \in Nat, NEW x \in Int, NEW y \in Int, Divisible(x, b)
  PROVE  Divisible(x * y, b) /\ Divisible(y * x, b)
  <1>1. PICK q \in Int : x = b * q
    BY DEF Divisible
  <1>2. q * y \in Int /\ (b * q) * y = b * (q * y) /\ y * (b * q) = b * (q * y)
    OBVIOUS
  <1>3. QED
    BY <1>1, <1>2 DEF Divisible

\* Zero is divisible, and nothing else between -b and b.
LEMMA SmallDivisible ==
  ASSUME NEW b \in Nat, NEW x \in Int, -b < x, x < b
  PROVE  Divisible(x, b) <=> x = 0
  <1>1. ASSUME x = 0 PROVE Divisible(x, b)
    BY <1>1 DEF Divisible
  <1>2. ASSUME Divisible(x, b) PROVE x = 0
    <2>1. PICK q \in Int : x = b * q
      BY <1>2 DEF Divisible
    <2>2. ~(q >= 1)
      <3>1. SUFFICES ASSUME q >= 1 PROVE FALSE
        OBVIOUS
      <3>2. b * q >= b
        BY <3>1
      <3>3. QED
        BY <2>1, <3>2
    <2>3. ~(q <= -1)
      <3>1. SUFFICES ASSUME q <= -1 PROVE FALSE
        OBVIOUS
      <3> DEFINE r == -q
      <3>2. r \in Int /\ r >= 1 /\ q = -r
        BY <3>1
      <3> HIDE DEF r
      <3>3. b * r >= b
        BY <3>2
      <3>4. x = -(b * r)
        BY <2>1, <3>2
      <3>5. b * r \in Int
        BY <3>2
      <3>6. QED
        BY <3>3, <3>4, <3>5
    <2>4. q = 0
      BY <2>2, <2>3
    <2>5. QED
      BY <2>1, <2>4
  <1>3. QED
    BY <1>1, <1>2

\* A number and its rest are congruent.
LEMMA RestCongruent ==
  ASSUME NEW b \in Nat \ {0}, NEW x \in Int
  PROVE  x % b \in 0 .. b - 1 /\ Congruent(x, x % b, b)
  <1>1. x \div b \in Int /\ x % b \in 0 .. b - 1 /\ x = b * (x \div b) + (x % b)
    OBVIOUS
  <1> DEFINE q == x \div b
             e == x % b
             y == b * q
  <1>2. q \in Int /\ e \in Int /\ x = y + e
    BY <1>1
  <1> HIDE DEF q, e
  <1>3. y \in Int
    BY <1>2
  <1>4. y = b * q
    OBVIOUS
  <1> HIDE DEF y
  <1>5. x - e = y
    BY <1>2, <1>3
  <1>6. Divisible(x - e, b)
    BY <1>2, <1>4, <1>5 DEF Divisible
  <1>7. QED
    BY <1>1, <1>6 DEF Congruent, e

\* Two numbers leave the same rest if and only if b divides their difference.
LEMMA SameRest ==
  ASSUME NEW b \in Nat \ {0}, NEW x \in Int, NEW y \in Int
  PROVE  x % b = y % b <=> Congruent(x, y, b)
  <1> DEFINE d == x % b
             e == y % b
  <1>1. d \in 0 .. b - 1 /\ e \in 0 .. b - 1 /\ Divisible(x - d, b) /\ Divisible(y - e, b)
    BY RestCongruent DEF Congruent
  <1> HIDE DEF d, e
  <1>2. d \in Int /\ e \in Int /\ x - d \in Int /\ y - e \in Int
    BY <1>1
  <1>3. Divisible((x - d) - (y - e), b)
    BY <1>1, <1>2, DivisibleSums
  <1>4. ASSUME d = e PROVE Divisible(x - y, b)
    <2>1. (x - d) - (y - e) = x - y
      BY <1>2, <1>4
    <2>2. QED
      BY <1>3, <2>1
  <1>5. ASSUME Divisible(x - y, b) PROVE d = e
    <2>1. (x - y) - ((x - d) - (y - e)) = d - e /\ x - y \in Int /\ (x - d) - (y - e) \in Int /\ d - e \in Int
      BY <1>2
    <2>2. Divisible(d - e, b)
      BY <1>3, <1>5, <2>1, DivisibleSums
    <2>3. -b < d - e /\ d - e < b
      BY <1>1
    <2>4. d - e = 0
      BY <2>1, <2>2, <2>3, SmallDivisible
    <2>5. QED
      BY <1>2, <2>4
  <1>6. QED
    BY <1>4, <1>5 DEF d, e, Congruent

\* Congruent numbers, step by step.
LEMMA CongruentChain ==
  ASSUME NEW b \in Nat, NEW x \in Int, NEW y \in Int, NEW z \in Int, Congruent(x, y, b), Congruent(y, z, b)
  PROVE  Congruent(x, z, b) /\ Congruent(z, x, b)
  <1>1. x - y \in Int /\ y - z \in Int /\ (x - y) + (y - z) = x - z /\ 0 \in Int /\ x - z \in Int /\ 0 - (x - z) = z - x
    OBVIOUS
  <1>2. Divisible(x - z, b)
    BY <1>1, DivisibleSums DEF Congruent
  <1>3. Divisible(0, b)
    <2>1. 0 = b * 0
      OBVIOUS
    <2>2. QED
      BY <2>1 DEF Divisible
  <1>4. Divisible(0 - (x - z), b)
    BY <1>1, <1>2, <1>3, DivisibleSums
  <1>5. QED
    BY <1>1, <1>2, <1>4 DEF Congruent

\* A turn of Horner's rule keeps congruent numbers congruent.
LEMMA CongruentTurn ==
  ASSUME NEW b \in Nat, NEW x \in Int, NEW y \in Int, NEW z \in Int, NEW e \in Int, Congruent(x, y, b)
  PROVE  Congruent(x * z + e, y * z + e, b)
  <1>1. Divisible((x - y) * z, b)
    BY DivisibleProduct DEF Congruent
  <1>2. (x - y) * z = (x * z + e) - (y * z + e)
    OBVIOUS
  <1>3. QED
    BY <1>1, <1>2 DEF Congruent

\* A prime that divides a product divides one of its factors.
LEMMA Euclid ==
  ASSUME NEW b \in Nat, Prime(b), NEW x \in Int, NEW y \in Int, Divisible(x * y, b)
  PROVE  Divisible(x, b) \/ Divisible(y, b)
  <1> DEFINE T == {n \in Nat \ {0} : Divisible(n * y, b)}
  <1>1. b > 1 /\ \A z \in 2 .. b - 1 : b % z # 0
    BY DEF Prime
  <1>2. b \in T
    <2>1. b * y = b * y /\ y \in Int
      OBVIOUS
    <2>2. Divisible(b * y, b)
      BY <2>1 DEF Divisible
    <2>3. QED
      BY <1>1, <2>2
  <1>3. PICK s \in T : \A z \in T : s <= z
    <2>1. T \in SUBSET Nat
      OBVIOUS
    <2> HIDE DEF T
    <2>2. QED
      BY <1>2, <2>1, LeastElement
  <1>4. s \in Nat \ {0} /\ s <= b /\ Divisible(s * y, b)
    BY <1>2, <1>3
  <1>5. ASSUME NEW n \in Int, Divisible(n * y, b) PROVE n % s = 0
    <2> DEFINE r == n % s
               q == n \div s
               p == s * y
    <2>1. r \in 0 .. s - 1 /\ q \in Int /\ n = s * q + r
      BY <1>4
    <2> HIDE DEF r, q
    <2>2. p \in Int /\ n * y = p * q + r * y /\ p * q \in Int /\ r * y \in Int /\ n * y \in Int
      <3>1. n * y = (s * q + r) * y
        BY <2>1
      <3>2. (s * q + r) * y = (s * q) * y + r * y
        BY <1>4, <2>1
      <3>3. (s * q) * y = (s * y) * q
        BY <1>4, <2>1
      <3>4. p \in Int
        BY <1>4
      <3>5. p * q \in Int /\ r * y \in Int /\ n * y \in Int
        <4> HIDE DEF p
        <4>1. QED
          BY <2>1, <3>4
      <3>6. QED
        BY <3>1, <3>2, <3>3, <3>4, <3>5
    <2>3. Divisible(p, b)
      BY <1>4
    <2> HIDE DEF p
    <2>4. Divisible(p * q, b)
      BY <2>1, <2>2, <2>3, DivisibleProduct
    <2>5. Divisible((n * y) - (p * q), b)
      BY <1>5, <2>2, <2>4, DivisibleSums
    <2>6. (n * y) - (p * q) = r * y
      BY <2>2
    <2>7. Divisible(r * y, b)
      BY <2>5, <2>6
    <2>8. ~(r > 0)
      <3>1. SUFFICES ASSUME r > 0 PROVE FALSE
        OBVIOUS
      <3>2. r \in T
        BY <2>1, <2>7, <3>1
      <3>3. s <= r
        BY <1>3, <3>2
      <3>4. QED
        BY <1>4, <2>1, <3>3
    <2>9. r = 0
      BY <2>1, <2>8
    <2>10. QED
      BY <2>9 DEF r
  <1>6. b % s = 0
    BY <1>2, <1>5
  <1>7. CASE s = 1
    <2>1. s * y = y
      BY <1>7
    <2>2. QED
      BY <1>4, <2>1
  <1>8. CASE s # 1
    <2>1. s = b
      <3>1. ~(s \in 2 .. b - 1)
        BY <1>1, <1>6
      <3>2. QED
        BY <1>4, <1>8, <3>1
    <2>2. x % b = 0
      BY <1>5, <2>1
    <2>3. Divisible(x, b)
      <3>1. b \in Nat \ {0}
        BY <1>1
      <3>2. Congruent(x, x % b, b)
        BY <3>1, RestCongruent
      <3>3. x - (x % b) = x
        BY <2>2
      <3>4. QED
        BY <3>2, <3>3 DEF Congruent
    <2>4. QED
      BY <2>3
  <1>9. QED
    BY <1>7, <1>8

-----------------------------------------------------------------------------
(* Powers, digits in base b, and polynomials, which have no more roots modulo a prime than their degree. *)

\* The equation of Power.
PowersOf(b) ==
  Power(b)[0] = 1 /\ \A n \in Nat : Power(b)[n] \in Nat /\ Power(b)[n + 1] = b * Power(b)[n]

\* What Power computes.
LEMMA PowerSteps ==
  ASSUME NEW b \in Nat
  PROVE  PowersOf(b)
  <1> DEFINE step == [n \in Nat |-> [y \in Nat |-> b * y]]
             Is(f) == f = [n \in Nat |-> IF n = 0 THEN 1 ELSE b * f[n - 1]]
             f == Power(b)
  <1>1. \A n \in Nat, y \in Nat : step[n][y] = b * y /\ step[n][y] \in Nat
    OBVIOUS
  <1>2. PICK F : Iterates(F, Nat, 1, step)
    <2> HIDE DEF step
    <2>1. 1 \in Nat /\ \A n \in Nat, y \in Nat : step[n][y] \in Nat
      BY <1>1
    <2>2. QED
      BY <2>1, Recursion
  <1>3. Is(F)
    <2>1. F \in [Nat -> Nat] /\ F[0] = 1 /\ \A n \in Nat : F[n + 1] = step[n + 1][F[n]]
      BY <1>2 DEF Iterates
    <2>2. F = [n \in Nat |-> F[n]]
      BY <2>1
    <2>3. ASSUME NEW n \in Nat PROVE F[n] = IF n = 0 THEN 1 ELSE b * F[n - 1]
      <3>1. CASE n = 0
        BY <2>1, <3>1
      <3>2. CASE n # 0
        <4>1. n - 1 \in Nat /\ (n - 1) + 1 = n
          BY <3>2
        <4>2. F[n] = step[n][F[n - 1]] /\ F[n - 1] \in Nat
          BY <2>1, <4>1
        <4> HIDE DEF step
        <4>3. QED
          BY <1>1, <3>2, <4>2
      <3>3. QED
        BY <3>1, <3>2
    <2>4. QED
      BY <2>2, <2>3
  <1>4. f = CHOOSE g : Is(g)
    BY DEF Power
  <1>5. Is(f)
    <2> HIDE DEF Is, f
    <2>1. QED
      BY <1>3, <1>4
  <1> HIDE DEF f
  <1>6. f[0] = 1
    BY <1>5
  <1>7. ASSUME NEW n \in Nat PROVE f[n + 1] = b * f[n]
    <2>1. n + 1 \in Nat /\ n + 1 # 0 /\ (n + 1) - 1 = n
      OBVIOUS
    <2>2. QED
      BY <1>5, <2>1
  <1>8. ASSUME NEW max \in Nat PROVE f[max] \in Nat
    <2> DEFINE Q == {n \in 0 .. max : f[n] \in Nat}
    <2>1. 0 \in Q
      BY <1>6
    <2>2. ASSUME NEW n \in 0 .. max - 1, n \in Q PROVE n + 1 \in Q
      <3>1. n \in Nat /\ n + 1 \in 0 .. max /\ f[n] \in Nat
        BY <2>2
      <3>2. f[n + 1] \in Nat
        BY <1>7, <3>1
      <3>3. QED
        BY <3>1, <3>2
    <2> HIDE DEF Q
    <2>3. 0 .. max \subseteq Q
      BY <2>1, <2>2, Induct
    <2>4. max \in Q
      BY <2>3
    <2>5. QED
      BY <2>4 DEF Q
  <1>9. QED
    BY <1>6, <1>7, <1>8 DEF PowersOf, f

\* Powers of a base above 1 grow without bound, those of a larger base faster.
LEMMA PowersGrow ==
  ASSUME NEW b \in Nat, b >= 2, NEW max \in Nat, NEW c \in Nat, b <= c
  PROVE  Power(b)[max] >= max + 1 /\ Power(b)[max] <= Power(c)[max]
  <1> DEFINE P == Power(b)
             R == Power(c)
             Q == {n \in 0 .. max : P[n] >= n + 1 /\ P[n] <= R[n]}
  <1>1. /\ P[0] = 1 /\ \A n \in Nat : P[n] \in Nat /\ P[n + 1] = b * P[n]
        /\ R[0] = 1 /\ \A n \in Nat : R[n] \in Nat /\ R[n + 1] = c * R[n]
    BY PowerSteps DEF PowersOf
  <1> HIDE DEF P, R
  <1>2. 0 \in Q
    BY <1>1
  <1>3. ASSUME NEW n \in 0 .. max - 1, n \in Q PROVE n + 1 \in Q
    <2> DEFINE x == P[n]
               y == R[n]
    <2>1. n \in Nat /\ n + 1 \in 0 .. max /\ x \in Nat /\ y \in Nat /\ x >= n + 1 /\ x <= y
      BY <1>1, <1>3
    <2>2. P[n + 1] = b * x /\ R[n + 1] = c * y
      BY <1>1, <2>1
    <2> HIDE DEF x, y
    <2>3. b * x >= 2 * x /\ b * x <= c * x /\ c * x <= c * y /\ b * x \in Nat /\ c * x \in Nat /\ c * y \in Nat
      BY <2>1
    <2>4. b * x >= (n + 1) + 1 /\ b * x <= c * y
      BY <2>1, <2>3
    <2>5. QED
      BY <2>1, <2>2, <2>4
  <1> HIDE DEF Q
  <1>4. 0 .. max \subseteq Q
    BY <1>2, <1>3, Induct
  <1>5. max \in Q
    BY <1>4
  <1>6. QED
    BY <1>5 DEF Q, P, R

\* The degree leaves enough polynomials for all rows.
LEMMA DegreeSuffices ==
  ASSUME NEW rows \in Nat, NEW b \in Nat, b >= 2, NEW g \in Degrees(rows, b)
  PROVE  g \in Nat /\ rows <= Power(b)[g + 1]
  <1> DEFINE P == Power(b)
             T == {x \in 0 .. rows : P[x + 1] >= rows}
             Fits(x) == P[x + 1] >= rows /\ (x > 0 => P[x] < rows)
  <1>1. \A n \in Nat : P[n] \in Nat /\ P[n + 1] >= P[n]
    <2>1. \A n \in Nat : P[n] \in Nat /\ P[n + 1] = b * P[n]
      BY PowerSteps DEF PowersOf
    <2> HIDE DEF P
    <2>2. ASSUME NEW n \in Nat PROVE P[n + 1] >= P[n]
      <3> DEFINE x == P[n]
      <3>1. x \in Nat /\ P[n + 1] = b * x
        BY <2>1
      <3> HIDE DEF x
      <3>2. b * x >= x
        BY <3>1
      <3>3. QED
        BY <3>1, <3>2 DEF x
    <2>3. QED
      BY <2>1, <2>2
  <1>2. rows \in T
    <2>1. P[rows + 1] >= (rows + 1) + 1 /\ P[rows + 1] \in Nat
      BY <1>1, PowersGrow
    <2> HIDE DEF P
    <2>2. QED
      BY <2>1
  <1>3. PICK x \in T : \A y \in T : x <= y
    <2>1. T \in SUBSET Nat
      OBVIOUS
    <2> HIDE DEF T
    <2>2. QED
      BY <1>2, <2>1, LeastElement
  <1> HIDE DEF P
  <1>4. x \in 0 .. rows /\ Fits(x)
    <2>1. ASSUME x > 0 PROVE P[x] < rows
      <3>1. x - 1 \in 0 .. rows /\ (x - 1) + 1 = x /\ x - 1 < x /\ x \in Nat
        BY <1>3, <2>1
      <3>2. x - 1 \notin T
        BY <1>3, <3>1
      <3>3. ~(P[x] >= rows)
        BY <3>1, <3>2
      <3>4. QED
        BY <1>1, <3>1, <3>3
    <2>2. QED
      BY <2>1
  <1> DEFINE h == CHOOSE z \in 0 .. rows : Fits(z)
  <1>5. h \in 0 .. rows /\ Fits(h)
    <2> HIDE DEF Fits
    <2>1. QED
      BY <1>4
  <1>6. g = h \/ g = h + 1
    BY DEF Degrees, P
  <1> HIDE DEF h
  <1>7. h \in Nat /\ P[h + 1] >= rows /\ P[h + 1] \in Nat /\ P[(h + 1) + 1] \in Nat /\ P[(h + 1) + 1] >= P[h + 1]
    BY <1>1, <1>5
  <1>8. g \in Nat /\ rows <= P[g + 1]
    BY <1>6, <1>7
  <1>9. QED
    BY <1>8 DEF P

\* x divided by b again and again; the digits of x are what these leave by b.
Quotients(b, x) == CHOOSE f : Iterates(f, Nat, x, [n \in Nat |-> [y \in Nat |-> y \div b]])

\* The equation of Quotients.
LEMMA QuotientSteps ==
  ASSUME NEW b \in Nat \ {0}, NEW x \in Nat
  PROVE  /\ Quotients(b, x) \in [Nat -> Nat] /\ Quotients(b, x)[0] = x
         /\ \A n \in Nat : Quotients(b, x)[n + 1] = Quotients(b, x)[n] \div b
  <1> DEFINE step == [n \in Nat |-> [y \in Nat |-> y \div b]]
             Is(f) == Iterates(f, Nat, x, step)
             q == Quotients(b, x)
  <1>1. \A n \in Nat, y \in Nat : step[n][y] = y \div b /\ step[n][y] \in Nat
    OBVIOUS
  <1>2. PICK F : Is(F)
    <2> HIDE DEF step
    <2>1. \A n \in Nat, y \in Nat : step[n][y] \in Nat
      BY <1>1
    <2>2. QED
      BY <2>1, Recursion
  <1>3. Is(q)
    <2>1. q = CHOOSE f : Is(f)
      BY DEF Quotients
    <2> HIDE DEF Is, q
    <2>2. QED
      BY <1>2, <2>1
  <1> HIDE DEF q, step
  <1>4. q \in [Nat -> Nat] /\ q[0] = x /\ \A n \in Nat : q[n + 1] = step[n + 1][q[n]]
    BY <1>3 DEF Iterates
  <1>5. \A n \in Nat : q[n + 1] = q[n] \div b
    <2>1. \A n \in Nat : q[n] \in Nat /\ n + 1 \in Nat
      BY <1>4
    <2>2. QED
      BY <1>1, <1>4, <2>1
  <1>6. QED
    BY <1>4, <1>5 DEF q

\* After n turns of Horner's rule at c: the value of the polynomial whose
\* coefficients, the highest first, are f[0] to f[n].
Horner(f, c) == CHOOSE h : Iterates(h, Int, f[0], [n \in Nat |-> [y \in Int |-> y * c + f[n]]])

\* The equation of Horner.
LEMMA HornerSteps ==
  ASSUME NEW f \in [Nat -> Int], NEW c \in Int
  PROVE  /\ Horner(f, c) \in [Nat -> Int] /\ Horner(f, c)[0] = f[0]
         /\ \A n \in Nat : Horner(f, c)[n + 1] = Horner(f, c)[n] * c + f[n + 1]
  <1> DEFINE step == [n \in Nat |-> [y \in Int |-> y * c + f[n]]]
             Is(g) == Iterates(g, Int, f[0], step)
             q == Horner(f, c)
  <1>1. \A n \in Nat, y \in Int : step[n][y] = y * c + f[n] /\ step[n][y] \in Int
    <2>1. \A n \in Nat : f[n] \in Int
      OBVIOUS
    <2>2. \A n \in Nat, y \in Int : step[n][y] = y * c + f[n]
      OBVIOUS
    <2>3. \A n \in Nat, y \in Int : y * c + f[n] \in Int
      BY <2>1
    <2>4. QED
      BY <2>2, <2>3
  <1>2. PICK F : Is(F)
    <2> HIDE DEF step
    <2>1. f[0] \in Int /\ \A n \in Nat, y \in Int : step[n][y] \in Int
      BY <1>1
    <2>2. QED
      BY <2>1, Recursion
  <1>3. Is(q)
    <2>1. q = CHOOSE g : Is(g)
      BY DEF Horner
    <2> HIDE DEF Is, q
    <2>2. QED
      BY <1>2, <2>1
  <1> HIDE DEF q, step
  <1>4. q \in [Nat -> Int] /\ q[0] = f[0] /\ \A n \in Nat : q[n + 1] = step[n + 1][q[n]]
    BY <1>3 DEF Iterates
  <1>5. \A n \in Nat : q[n + 1] = q[n] * c + f[n + 1]
    <2>1. \A n \in Nat : q[n] \in Int /\ n + 1 \in Nat
      BY <1>4
    <2>2. QED
      BY <1>1, <1>4, <2>1
  <1>6. QED
    BY <1>4, <1>5 DEF q

\* The value depends on the coefficients up to the last one used.
LEMMA HornerLocal ==
  ASSUME NEW f \in [Nat -> Int], NEW g \in [Nat -> Int], NEW c \in Int, NEW max \in Nat,
         \A n \in 0 .. max : f[n] = g[n]
  PROVE  Horner(f, c)[max] = Horner(g, c)[max]
  <1> DEFINE F == Horner(f, c)
             G == Horner(g, c)
             Q == {n \in 0 .. max : F[n] = G[n]}
  <1>1. /\ F[0] = f[0] /\ \A n \in Nat : F[n + 1] = F[n] * c + f[n + 1]
        /\ G[0] = g[0] /\ \A n \in Nat : G[n + 1] = G[n] * c + g[n + 1]
    BY HornerSteps
  <1> HIDE DEF F, G
  <1>2. 0 \in Q
    BY <1>1
  <1>3. ASSUME NEW n \in 0 .. max - 1, n \in Q PROVE n + 1 \in Q
    <2>1. n \in Nat /\ n + 1 \in 0 .. max /\ F[n] = G[n] /\ f[n + 1] = g[n + 1]
      BY <1>3
    <2>2. F[n + 1] = G[n + 1]
      BY <1>1, <2>1
    <2>3. QED
      BY <2>1, <2>2
  <1> HIDE DEF Q
  <1>4. 0 .. max \subseteq Q
    BY <1>2, <1>3, Induct
  <1>5. max \in Q
    BY <1>4
  <1>6. QED
    BY <1>5 DEF Q, F, G

\* The value of a difference is the difference of the values.
LEMMA HornerDifference ==
  ASSUME NEW f \in [Nat -> Int], NEW g \in [Nat -> Int], NEW h \in [Nat -> Int], NEW c \in Int, NEW max \in Nat,
         \A n \in Nat : h[n] = f[n] - g[n]
  PROVE  Horner(h, c)[max] = Horner(f, c)[max] - Horner(g, c)[max]
  <1> DEFINE F == Horner(f, c)
             G == Horner(g, c)
             H == Horner(h, c)
             Q == {n \in 0 .. max : H[n] = F[n] - G[n]}
  <1>1. /\ F \in [Nat -> Int] /\ F[0] = f[0] /\ \A n \in Nat : F[n + 1] = F[n] * c + f[n + 1]
        /\ G \in [Nat -> Int] /\ G[0] = g[0] /\ \A n \in Nat : G[n + 1] = G[n] * c + g[n + 1]
        /\ H[0] = h[0] /\ \A n \in Nat : H[n + 1] = H[n] * c + h[n + 1]
    BY HornerSteps
  <1> HIDE DEF F, G, H
  <1>2. 0 \in Q
    BY <1>1
  <1>3. ASSUME NEW n \in 0 .. max - 1, n \in Q PROVE n + 1 \in Q
    <2> DEFINE x == F[n]
               y == G[n]
               u == f[n + 1]
               v == g[n + 1]
    <2>1. n \in Nat /\ n + 1 \in Nat /\ n + 1 \in 0 .. max /\ H[n] = x - y /\ h[n + 1] = u - v
      BY <1>3
    <2>2. x \in Int /\ y \in Int /\ u \in Int /\ v \in Int
      BY <1>1, <2>1
    <2>3. H[n + 1] = (x - y) * c + (u - v) /\ F[n + 1] = x * c + u /\ G[n + 1] = y * c + v
      BY <1>1, <2>1
    <2> HIDE DEF x, y, u, v
    <2>4. (x - y) * c + (u - v) = (x * c + u) - (y * c + v)
      BY <2>2
    <2>5. QED
      BY <2>1, <2>3, <2>4
  <1> HIDE DEF Q
  <1>4. 0 .. max \subseteq Q
    BY <1>2, <1>3, Induct
  <1>5. max \in Q
    BY <1>4
  <1>6. QED
    BY <1>5 DEF Q, F, G, H

\* f is (x - c) times the quotient g, plus a rest.
Divided(f, c, g, x, n) == Horner(f, x)[n + 1] = (x - c) * Horner(g, x)[n] + g[n + 1]

\* A polynomial divided by x - c: the coefficients of the quotient are the
\* values Horner's rule goes through at c, and the last of them is the rest.
LEMMA DividedByLinear ==
  ASSUME NEW f \in [Nat -> Int], NEW c \in Int, NEW g, g = Horner(f, c), NEW x \in Int, NEW max \in Nat
  PROVE  Divided(f, c, g, x, max)
  <1> DEFINE F == Horner(f, x)
             H == Horner(g, x)
             Q == {n \in 0 .. max : F[n + 1] = (x - c) * H[n] + g[n + 1]}
  <1>1. g \in [Nat -> Int] /\ g[0] = f[0] /\ \A n \in Nat : g[n + 1] = g[n] * c + f[n + 1]
    BY HornerSteps
  <1>2. F[0] = f[0] /\ \A n \in Nat : F[n + 1] = F[n] * x + f[n + 1]
    BY HornerSteps
  <1>3. H \in [Nat -> Int] /\ H[0] = g[0] /\ \A n \in Nat : H[n + 1] = H[n] * x + g[n + 1]
    BY <1>1, HornerSteps
  <1> HIDE DEF F, H
  <1>4. 0 \in Q
    <2> DEFINE y == f[0]
               u == f[1]
    <2>1. y \in Int /\ u \in Int /\ 0 + 1 = 1
      OBVIOUS
    <2>2. F[0 + 1] = y * x + u
      BY <1>2, <2>1
    <2>3. H[0] = y /\ g[0 + 1] = y * c + u
      BY <1>1, <1>3, <2>1
    <2> HIDE DEF y, u
    <2>4. y * x + u = (x - c) * y + (y * c + u)
      BY <2>1
    <2>5. QED
      BY <2>2, <2>3, <2>4
  <1>5. ASSUME NEW n \in 0 .. max - 1, n \in Q PROVE n + 1 \in Q
    <2> DEFINE y == H[n]
               z == g[n + 1]
               u == f[(n + 1) + 1]
    <2>1. n \in Nat /\ n + 1 \in Nat /\ (n + 1) + 1 \in Nat /\ n + 1 \in 0 .. max
      BY <1>5
    <2>2. y \in Int /\ z \in Int /\ u \in Int
      BY <1>1, <1>3, <2>1
    <2>3. F[n + 1] = (x - c) * y + z
      BY <1>5
    <2>4. F[(n + 1) + 1] = ((x - c) * y + z) * x + u
      BY <1>2, <2>1, <2>3
    <2>5. H[n + 1] = y * x + z /\ g[(n + 1) + 1] = z * c + u
      BY <1>1, <1>3, <2>1
    <2> HIDE DEF y, z, u
    <2>6. ((x - c) * y + z) * x + u = (x - c) * (y * x + z) + (z * c + u)
      <3> DEFINE w == x - c
      <3>1. w \in Int /\ z * x = z * w + z * c
        BY <2>2
      <3> HIDE DEF w
      <3>2. (w * y + z) * x = w * (y * x) + z * x
        BY <2>2, <3>1
      <3>3. w * (y * x + z) = w * (y * x) + w * z
        BY <2>2, <3>1
      <3>4. z * x \in Int /\ w * z \in Int /\ z * w = w * z /\ z * c \in Int /\ w * (y * x) \in Int
        BY <2>2, <3>1
      <3>5. (w * y + z) * x + u = w * (y * x + z) + (z * c + u)
        BY <2>2, <3>1, <3>2, <3>3, <3>4
      <3>6. QED
        BY <3>5 DEF w
    <2>7. QED
      BY <2>1, <2>4, <2>5, <2>6
  <1> HIDE DEF Q
  <1>6. 0 .. max \subseteq Q
    BY <1>4, <1>5, Induct
  <1>7. max \in Q
    BY <1>6
  <1>8. QED
    BY <1>7 DEF Q, F, H, Divided

\* Where the polynomial with coefficients f[0] to f[d] is 0 modulo b, and that
\* it is not the 0 polynomial.
Roots(f, d, b) == {x \in 0 .. b - 1 : Divisible(Horner(f, x)[d], b)}
Proper(f, d, b) == \E n \in 0 .. d : ~Divisible(f[n], b)

\* Taking out one root leaves a proper polynomial.
LEMMA QuotientProper ==
  ASSUME NEW b \in Nat, NEW d \in Nat, NEW f \in [Nat -> Int], Proper(f, d + 1, b),
         NEW c \in Int, NEW g, g = Horner(f, c), Divisible(g[d + 1], b)
  PROVE  Proper(g, d, b)
  <1>1. SUFFICES ASSUME \A n \in 0 .. d : Divisible(g[n], b) PROVE FALSE
    BY DEF Proper
  <1>2. g \in [Nat -> Int] /\ g[0] = f[0] /\ \A n \in Nat : g[n + 1] = g[n] * c + f[n + 1]
    BY HornerSteps
  <1>3. PICK n \in 0 .. d + 1 : ~Divisible(f[n], b)
    BY DEF Proper
  <1>4. CASE n = 0
    BY <1>1, <1>2, <1>3, <1>4
  <1>5. CASE n # 0
    <2> DEFINE l == n - 1
               x == g[l]
               y == g[n]
    <2>1. l \in Nat /\ l \in 0 .. d /\ l + 1 = n /\ n \in Nat
      BY <1>5
    <2>2. x \in Int /\ y \in Int /\ f[n] \in Int /\ y = x * c + f[n]
      BY <1>2, <2>1
    <2>3. Divisible(x, b)
      BY <1>1, <2>1
    <2>4. Divisible(y, b)
      <3>1. n = d + 1 \/ n \in 0 .. d
        OBVIOUS
      <3>2. QED
        BY <1>1, <3>1
    <2> HIDE DEF l, x, y
    <2>5. Divisible(x * c, b) /\ x * c \in Int
      BY <2>2, <2>3, DivisibleProduct
    <2>6. Divisible(y - x * c, b)
      BY <2>2, <2>4, <2>5, DivisibleSums
    <2>7. y - x * c = f[n]
      BY <2>2, <2>5
    <2>8. QED
      BY <1>3, <2>6, <2>7
  <1>6. QED
    BY <1>4, <1>5

\* A root other than the one taken out is a root of what is left.
LEMMA OtherRoots ==
  ASSUME NEW b \in Nat, Prime(b), NEW d \in Nat, NEW f \in [Nat -> Int],
         NEW c \in Roots(f, d + 1, b), NEW g, g = Horner(f, c)
  PROVE  Roots(f, d + 1, b) \subseteq Roots(g, d, b) \cup {c}
  <1>1. SUFFICES ASSUME NEW x \in Roots(f, d + 1, b), x # c PROVE x \in Roots(g, d, b)
    OBVIOUS
  <1>2. x \in 0 .. b - 1 /\ c \in 0 .. b - 1 /\ Divisible(Horner(f, x)[d + 1], b) /\ Divisible(g[d + 1], b)
    BY DEF Roots
  <1>3. g \in [Nat -> Int] /\ d + 1 \in Nat
    BY <1>2, HornerSteps
  <1> DEFINE y == Horner(g, x)[d]
             w == x - c
  <1> HIDE DEF y, w
  <1>4. Horner(f, x)[d + 1] = w * y + g[d + 1]
    <2>1. c \in Int /\ x \in Int
      BY <1>2
    <2>2. Divided(f, c, g, x, d)
      BY <2>1, DividedByLinear
    <2>3. QED
      BY <2>2 DEF Divided, y, w
  <1>5. y \in Int /\ w \in Int /\ g[d + 1] \in Int
    <2>1. Horner(g, x) \in [Nat -> Int]
      BY <1>2, <1>3, HornerSteps
    <2>2. QED
      BY <1>2, <1>3, <2>1 DEF y, w
  <1>6. -b < w /\ w < b /\ w # 0
    BY <1>1, <1>2 DEF w
  <1>7. Divisible(w * y, b)
    <2> DEFINE z == w * y
               e == g[d + 1]
    <2>1. z \in Int /\ e \in Int /\ z + e \in Int /\ Divisible(z + e, b) /\ Divisible(e, b)
      BY <1>2, <1>4, <1>5
    <2> HIDE DEF z, e
    <2>2. Divisible((z + e) - e, b) /\ (z + e) - e = z
      BY <2>1, DivisibleSums
    <2>3. QED
      BY <2>2 DEF z
  <1>8. Divisible(w, b) \/ Divisible(y, b)
    BY <1>5, <1>7, Euclid
  <1>9. ~Divisible(w, b)
    BY <1>5, <1>6, SmallDivisible
  <1>10. QED
    BY <1>2, <1>8, <1>9 DEF Roots, y

\* A proper polynomial of degree d has at most d roots modulo a prime.
LEMMA RootsBounded ==
  ASSUME NEW b \in Nat, Prime(b), NEW max \in Nat, NEW f \in [Nat -> Int], Proper(f, max, b)
  PROVE  IsFiniteSet(Roots(f, max, b)) /\ Cardinality(Roots(f, max, b)) <= max
  <1> DEFINE Few(g, d) == IsFiniteSet(Roots(g, d, b)) /\ Cardinality(Roots(g, d, b)) <= d
             Q == {d \in 0 .. max : \A g \in [Nat -> Int] : Proper(g, d, b) => Few(g, d)}
  <1>1. 0 \in Q
    <2>1. ASSUME NEW g \in [Nat -> Int], Proper(g, 0, b) PROVE Few(g, 0)
      <3>1. ~Divisible(g[0], b)
        BY <2>1 DEF Proper
      <3>2. \A x \in 0 .. b - 1 : Horner(g, x)[0] = g[0]
        <4>1. \A x \in 0 .. b - 1 : x \in Int
          OBVIOUS
        <4>2. QED
          BY <4>1, HornerSteps
      <3>3. Roots(g, 0, b) = {}
        BY <3>1, <3>2 DEF Roots
      <3>4. QED
        BY <3>3, FS_EmptySet
    <2>2. QED
      BY <2>1
  <1>2. ASSUME NEW d \in 0 .. max - 1, d \in Q PROVE d + 1 \in Q
    <2>1. d \in Nat /\ d + 1 \in 0 .. max /\ \A g \in [Nat -> Int] : Proper(g, d, b) => Few(g, d)
      BY <1>2
    <2>2. ASSUME NEW g \in [Nat -> Int], Proper(g, d + 1, b) PROVE Few(g, d + 1)
      <3>1. CASE Roots(g, d + 1, b) = {}
        BY <2>1, <3>1, FS_EmptySet
      <3>2. CASE Roots(g, d + 1, b) # {}
        <4>1. PICK c : c \in Roots(g, d + 1, b)
          BY <3>2
        <4> DEFINE h == Horner(g, c)
                   R == Roots(h, d, b)
        <4>2. c \in Int /\ Divisible(h[d + 1], b)
          BY <4>1 DEF Roots
        <4>3. h \in [Nat -> Int]
          BY <4>2, HornerSteps
        <4>4. Proper(h, d, b)
          BY <2>1, <2>2, <4>2, QuotientProper
        <4>5. IsFiniteSet(R) /\ Cardinality(R) <= d
          BY <2>1, <4>3, <4>4
        <4>6. Roots(g, d + 1, b) \subseteq R \cup {c}
          BY <2>1, <4>1, OtherRoots
        <4> HIDE DEF h, R
        <4>7. Cardinality(R) \in Nat
          BY <4>5, FS_CardinalityType
        <4>8. IsFiniteSet(R \cup {c}) /\ Cardinality(R \cup {c}) <= d + 1 /\ Cardinality(R \cup {c}) \in Nat
          <5>1. /\ IsFiniteSet(R \cup {c})
                /\ Cardinality(R \cup {c}) = IF c \in R THEN Cardinality(R) ELSE Cardinality(R) + 1
            BY <4>5, FS_AddElement
          <5>2. QED
            BY <2>1, <4>5, <4>7, <5>1
        <4> DEFINE S == Roots(g, d + 1, b)
                   V == R \cup {c}
        <4>9. S \in SUBSET V /\ IsFiniteSet(V)
          BY <4>6, <4>8
        <4> HIDE DEF S, V
        <4>10. IsFiniteSet(S) /\ Cardinality(S) <= Cardinality(V)
          BY <4>9, FS_Subset
        <4>11. Cardinality(S) \in Nat
          BY <4>10, FS_CardinalityType
        <4>12. Cardinality(V) <= d + 1 /\ Cardinality(V) \in Nat
          BY <4>8 DEF V
        <4>13. Cardinality(S) <= d + 1
          BY <2>1, <4>10, <4>11, <4>12
        <4>14. QED
          BY <4>10, <4>13 DEF S
      <3>3. QED
        BY <3>1, <3>2
    <2>3. QED
      BY <2>1, <2>2
  <1> HIDE DEF Q
  <1>3. 0 .. max \subseteq Q
    BY <1>1, <1>2, Induct
  <1>4. max \in Q
    BY <1>3
  <1>5. Few(f, max)
    BY <1>4 DEF Q
  <1>6. QED
    BY <1>5

\* What is left of x after n divisions by b is 0 if x is below b to the n.
LEMMA QuotientVanishes ==
  ASSUME NEW b \in Nat \ {0}, NEW x \in Nat, NEW max \in Nat, x < Power(b)[max]
  PROVE  Quotients(b, x)[max] = 0
  <1> DEFINE f == Quotients(b, x)
             P == Power(b)
             Q == {n \in 0 .. max : f[n] * P[n] <= x}
  <1>1. f \in [Nat -> Nat] /\ f[0] = x /\ \A n \in Nat : f[n + 1] = f[n] \div b
    BY QuotientSteps
  <1>2. P[0] = 1 /\ \A n \in Nat : P[n] \in Nat /\ P[n + 1] = b * P[n]
    BY PowerSteps DEF PowersOf
  <1> HIDE DEF f, P
  <1>3. 0 \in Q
    BY <1>1, <1>2
  <1>4. ASSUME NEW n \in 0 .. max - 1, n \in Q PROVE n + 1 \in Q
    <2> DEFINE y == f[n]
               z == P[n]
               q == y \div b
               r == y % b
    <2>1. n \in Nat /\ n + 1 \in 0 .. max /\ y \in Nat /\ z \in Nat /\ y * z <= x
      BY <1>1, <1>2, <1>4
    <2>2. f[n + 1] = q /\ P[n + 1] = b * z
      BY <1>1, <1>2, <2>1
    <2>3. q \in Nat /\ r \in Nat /\ y = b * q + r
      <3> HIDE DEF y
      <3>1. y \div b \in Nat /\ y % b \in 0 .. b - 1 /\ y = b * (y \div b) + (y % b)
        BY <2>1, Divides
      <3>2. y % b \in Nat
        BY <3>1
      <3>3. QED
        BY <3>1, <3>2
    <2> HIDE DEF y, z, q, r
    <2>4. y * z = (b * q) * z + r * z
      <3>1. b * q \in Nat
        BY <2>3
      <3>2. (b * q + r) * z = (b * q) * z + r * z
        BY <2>1, <2>3, <3>1
      <3>3. QED
        BY <2>3, <3>2
    <2>5. q * (b * z) = (b * q) * z /\ r * z >= 0 /\ (b * q) * z \in Nat /\ r * z \in Nat
      BY <2>1, <2>3
    <2>6. q * (b * z) <= x
      BY <2>1, <2>4, <2>5
    <2>7. QED
      BY <2>1, <2>2, <2>6
  <1> HIDE DEF Q
  <1>5. 0 .. max \subseteq Q
    BY <1>3, <1>4, Induct
  <1>6. f[max] * P[max] <= x
    <2>1. max \in Q
      BY <1>5
    <2>2. QED
      BY <2>1 DEF Q
  <1>7. ~(f[max] > 0)
    <2> DEFINE y == f[max]
               z == P[max]
    <2>1. SUFFICES ASSUME y > 0 PROVE FALSE
      OBVIOUS
    <2>2. y \in Nat /\ z \in Nat /\ y * z <= x /\ x < z
      BY <1>1, <1>2, <1>6 DEF P
    <2> HIDE DEF y, z
    <2>3. y * z >= z
      BY <2>1, <2>2
    <2>4. y * z \in Nat
      BY <2>2
    <2>5. QED
      BY <2>2, <2>3, <2>4
  <1>8. f[max] = 0
    BY <1>1, <1>7
  <1>9. QED
    BY <1>8 DEF f

\* The polynomial of row x: the digits of x in base b, the highest first, and
\* its value at c in the field.
Coefficients(b, d, x) == [n \in Nat |-> IF n <= d THEN Quotients(b, x)[d - n] % b ELSE 0]
Value(b, d, x, c) == Horner(Coefficients(b, d, x), c)[d] % b

\* Coefficients are digits.
LEMMA CoefficientsType ==
  ASSUME NEW b \in Nat \ {0}, NEW d \in Nat, NEW x \in Nat
  PROVE  /\ Coefficients(b, d, x) \in [Nat -> Int]
         /\ \A n \in Nat : Coefficients(b, d, x)[n] \in 0 .. b - 1
         /\ \A n \in 0 .. d : Coefficients(b, d, x)[n] = Quotients(b, x)[d - n] % b
  <1> DEFINE f == Quotients(b, x)
             C == Coefficients(b, d, x)
  <1>1. f \in [Nat -> Nat]
    BY QuotientSteps
  <1>2. C = [n \in Nat |-> IF n <= d THEN f[d - n] % b ELSE 0]
    BY DEF Coefficients
  <1> HIDE DEF f, C
  <1>3. \A n \in 0 .. d : C[n] = f[d - n] % b
    BY <1>2
  <1>4. \A n \in Nat : C[n] \in 0 .. b - 1
    <2>1. ASSUME NEW n \in Nat, n <= d PROVE C[n] \in 0 .. b - 1
      <3>1. d - n \in Nat
        BY <2>1
      <3>2. f[d - n] \in Nat
        BY <1>1, <3>1
      <3>3. C[n] = f[d - n] % b
        BY <1>2, <2>1
      <3>4. QED
        BY <3>2, <3>3
    <2>2. ASSUME NEW n \in Nat, ~(n <= d) PROVE C[n] \in 0 .. b - 1
      BY <1>2, <2>2
    <2>3. QED
      BY <2>1, <2>2
  <1>5. C \in [Nat -> Int]
    <2>1. \A n \in Nat : C[n] \in Int
      BY <1>4
    <2>2. C = [n \in Nat |-> C[n]]
      BY <1>2
    <2>3. QED
      BY <2>1, <2>2
  <1>6. QED
    BY <1>3, <1>4, <1>5 DEF f, C

\* Two rows below b to the d + 1 are different polynomials of degree d.
LEMMA RowsDiffer ==
  ASSUME NEW b \in Nat, b >= 2, NEW d \in Nat, NEW x \in Nat, NEW y \in Nat, x # y,
         x < Power(b)[d + 1], y < Power(b)[d + 1], NEW h,
         \A n \in Nat : h[n] = Coefficients(b, d, x)[n] - Coefficients(b, d, y)[n]
  PROVE  Proper(h, d, b)
  <1>1. SUFFICES ASSUME \A n \in 0 .. d : Divisible(h[n], b) PROVE FALSE
    BY DEF Proper
  <1> DEFINE f == Quotients(b, x)
             g == Quotients(b, y)
             Q == {n \in 0 .. d + 1 : f[(d + 1) - n] = g[(d + 1) - n]}
  <1>2. /\ f \in [Nat -> Nat] /\ f[0] = x /\ \A n \in Nat : f[n + 1] = f[n] \div b
        /\ g \in [Nat -> Nat] /\ g[0] = y /\ \A n \in Nat : g[n + 1] = g[n] \div b
    <2>1. b \in Nat \ {0}
      OBVIOUS
    <2>2. f \in [Nat -> Nat] /\ f[0] = x /\ \A n \in Nat : f[n + 1] = f[n] \div b
      BY <2>1, QuotientSteps
    <2>3. g \in [Nat -> Nat] /\ g[0] = y /\ \A n \in Nat : g[n + 1] = g[n] \div b
      BY <2>1, QuotientSteps
    <2>4. QED
      BY <2>2, <2>3
  <1>3. f[d + 1] = 0 /\ g[d + 1] = 0
    BY QuotientVanishes
  <1>4. ASSUME NEW n \in 0 .. d PROVE f[d - n] % b = g[d - n] % b
    <2> DEFINE u == f[d - n] % b
               v == g[d - n] % b
    <2>1. u \in 0 .. b - 1 /\ v \in 0 .. b - 1
      <3>1. d - n \in Nat
        BY <1>4
      <3>2. f[d - n] \in Nat /\ g[d - n] \in Nat
        BY <1>2, <3>1
      <3> HIDE DEF f, g
      <3>3. QED
        BY <3>2
    <2>2. h[n] = u - v
      <3>1. n \in Nat /\ h[n] = Coefficients(b, d, x)[n] - Coefficients(b, d, y)[n]
        BY <1>4
      <3>2. Coefficients(b, d, x)[n] = u /\ Coefficients(b, d, y)[n] = v
        <4>1. b \in Nat \ {0}
          OBVIOUS
        <4>2. Coefficients(b, d, x)[n] = f[d - n] % b
          BY <1>4, <4>1, CoefficientsType
        <4>3. Coefficients(b, d, y)[n] = g[d - n] % b
          BY <1>4, <4>1, CoefficientsType
        <4>4. QED
          BY <4>2, <4>3
      <3>3. QED
        BY <3>1, <3>2
    <2>3. Divisible(h[n], b)
      BY <1>1, <1>4
    <2> HIDE DEF u, v
    <2>4. u - v \in Int /\ -b < u - v /\ u - v < b
      BY <2>1
    <2>5. u - v = 0
      BY <2>2, <2>3, <2>4, SmallDivisible
    <2>6. u = v
      BY <2>1, <2>5
    <2>7. QED
      BY <2>6 DEF u, v
  <1> HIDE DEF f, g
  <1>5. 0 \in Q
    BY <1>3
  <1>6. ASSUME NEW n \in 0 .. (d + 1) - 1, n \in Q PROVE n + 1 \in Q
    <2> DEFINE l == d - n
               u == f[l]
               v == g[l]
    <2>1. n \in 0 .. d /\ l \in Nat /\ l + 1 = (d + 1) - n /\ l = (d + 1) - (n + 1) /\ n + 1 \in 0 .. d + 1
      BY <1>6
    <2>2. u \in Nat /\ v \in Nat /\ u % b = v % b
      BY <1>2, <1>4, <2>1
    <2>3. u \div b = v \div b
      <3>1. f[l + 1] = u \div b /\ g[l + 1] = v \div b
        BY <1>2, <2>1
      <3>2. f[l + 1] = g[l + 1]
        BY <1>6, <2>1
      <3>3. QED
        BY <3>1, <3>2
    <2>4. u = v
      <3> HIDE DEF u, v
      <3>1. u = b * (u \div b) + (u % b) /\ v = b * (v \div b) + (v % b)
        BY <2>2
      <3>2. QED
        BY <2>2, <2>3, <3>1
    <2>5. f[(d + 1) - (n + 1)] = g[(d + 1) - (n + 1)]
      BY <2>1, <2>4
    <2>6. QED
      BY <2>1, <2>5
  <1>7. d + 1 \in Nat
    OBVIOUS
  <1> HIDE DEF Q
  <1>8. 0 .. d + 1 \subseteq Q
    BY <1>5, <1>6, <1>7, Induct
  <1>9. d + 1 \in Q /\ (d + 1) - (d + 1) = 0
    BY <1>8
  <1>10. f[0] = g[0]
    BY <1>9 DEF Q
  <1>11. QED
    BY <1>2, <1>10

\* Where two rows have the same value.
Common(b, d, x, y) == {c \in 0 .. b - 1 : Value(b, d, x, c) = Value(b, d, y, c)}

\* Two rows have at most d values in common.
LEMMA FewCommon ==
  ASSUME NEW b \in Nat, Prime(b), NEW d \in Nat, NEW x \in Nat, NEW y \in Nat, x # y,
         x < Power(b)[d + 1], y < Power(b)[d + 1]
  PROVE  IsFiniteSet(Common(b, d, x, y)) /\ Cardinality(Common(b, d, x, y)) <= d
  <1> DEFINE F == Coefficients(b, d, x)
             G == Coefficients(b, d, y)
             h == [n \in Nat |-> F[n] - G[n]]
  <1>1. b \in Nat \ {0} /\ b >= 2
    BY DEF Prime
  <1>2. F \in [Nat -> Int] /\ G \in [Nat -> Int]
    BY <1>1, CoefficientsType
  <1>3. h \in [Nat -> Int] /\ \A n \in Nat : h[n] = F[n] - G[n]
    <2> HIDE DEF F, G
    <2>1. \A n \in Nat : F[n] - G[n] \in Int
      BY <1>2
    <2>2. QED
      BY <2>1
  <1> HIDE DEF h
  <1>4. Proper(h, d, b)
    BY <1>1, <1>3, RowsDiffer
  <1> HIDE DEF F, G
  <1>5. ASSUME NEW c \in 0 .. b - 1
        PROVE  Horner(F, c)[d] % b = Horner(G, c)[d] % b <=> Divisible(Horner(h, c)[d], b)
    <2> DEFINE u == Horner(F, c)[d]
               v == Horner(G, c)[d]
    <2>1. c \in Int
      BY <1>5
    <2>2. Horner(h, c)[d] = u - v
      BY <1>2, <1>3, <2>1, HornerDifference
    <2>3. u \in Int /\ v \in Int
      <3>1. Horner(F, c) \in [Nat -> Int] /\ Horner(G, c) \in [Nat -> Int]
        BY <1>2, <2>1, HornerSteps
      <3>2. QED
        BY <3>1
    <2> HIDE DEF u, v
    <2>4. u % b = v % b <=> Congruent(u, v, b)
      BY <1>1, <2>3, SameRest
    <2>5. u % b = v % b <=> Divisible(Horner(h, c)[d], b)
      BY <2>2, <2>4 DEF Congruent
    <2>6. QED
      BY <2>5 DEF u, v
  <1>6. Common(b, d, x, y) = Roots(h, d, b)
    BY <1>5 DEF Common, Roots, Value, F, G
  <1>7. QED
    BY <1>3, <1>4, <1>6, RootsBounded

-----------------------------------------------------------------------------
(* The steps of compute_Si, and the polynomial of the row. *)

\* compute_Si against the polynomial of the row: what each of its loops has
\* computed after k turns, and the rows that are finished.
DegreeOK ==
  /\ Prime(t) /\ deg \in Nat /\ k \in Nat /\ pc # "exit"
  /\ pc \in {"params", "row", "digits", "horner", "done", "undefined"}
  /\ pc \notin {"params", "undefined"} => deg >= 1 /\ m <= Power(t)[deg + 1]
\* what is left of the row number, and the digits cut off so far
DigitsDone ==
  pc = "digits" =>
    /\ k \in 0 .. deg /\ DOMAIN coeff = 0 .. deg /\ val = Quotients(t, i)[k]
    /\ \A n \in 0 .. deg : n < k => coeff[deg - n] = Quotients(t, i)[n] % t
\* the coefficients, and the sum so far
HornerDone ==
  pc = "horner" =>
    /\ DOMAIN coeff = 0 .. deg /\ \A n \in 0 .. deg : coeff[n] = Coefficients(t, deg, i)[n]
    /\ k \in 0 .. deg + 1 /\ (k = 0 => res = 0)
    /\ k > 0 => Congruent(res, Horner(Coefficients(t, deg, i), a)[k - 1], t)
IndexOf(j, x) == t * (x - 1) + Value(t, deg, j, x - 1)
IndicesDone == pc = "horner" => \A x \in 1 .. a : indices[x] = IndexOf(i, x)
DesignDone == \A j \in 1 .. i : \A x \in 1 .. tReq : design[j][x] = IndexOf(j - 1, x)
Polynomials == DegreeOK /\ DigitsDone /\ HornerDone /\ IndicesDone /\ DesignDone
PolyInv == type = "gfp" => Polynomials

\* The prime is fixed at the start, before any row.
LEMMA InitPoly == Init => PolyInv
  <1> SUFFICES ASSUME Init, type = "gfp" PROVE Polynomials
    BY DEF PolyInv
  <1>1. pc = "params" /\ deg = 0 /\ k = 0 /\ i = 0
    BY DEF Init
  <1>2. Prime(t)
    <2>1. FieldSize = NextPrime(tReq)
      BY DEF FieldSize
    <2>2. QED
      BY <2>1 DEF Init, NextPrime
  <1>3. DegreeOK
    BY <1>1, <1>2 DEF DegreeOK
  <1>4. DesignDone
    BY <1>1 DEF DesignDone
  <1>5. QED
    BY <1>1, <1>3, <1>4 DEF Polynomials, DigitsDone, HornerDone, IndicesDone

\* The degree, computed from t_requested, also fits the larger t.
LEMMA SetParamsPoly ==
  ASSUME GFP, Polynomials, type = "gfp", SetParams
  PROVE  Polynomials'
  <1>1. PICK g \in Degrees(m, tReq) : deg' = IF g = 0 THEN 1 ELSE g
    BY DEF SetParams
  <1>2. pc = "params" /\ pc' = "row" /\ m >= 2 /\ UNCHANGED <<m, tReq, t, i, k, design>>
    BY DEF SetParams
  <1>3. m \in Nat /\ t \in Nat /\ tReq \in Nat /\ 2 <= tReq /\ tReq <= t /\ i = 0 /\ Prime(t) /\ k \in Nat
    BY <1>2 DEF GFP, SizesOK, DesignOK, Polynomials, DegreeOK
  <1>4. g \in Nat /\ m <= Power(tReq)[g + 1]
    BY <1>3, DegreeSuffices
  <1>5. Power(tReq)[g + 1] <= Power(t)[g + 1]
    <2>1. g + 1 \in Nat
      BY <1>4
    <2>2. QED
      BY <1>3, <2>1, PowersGrow
  <1> DEFINE P == Power(t)
             R == Power(tReq)
  <1>6. \A n \in Nat : P[n] \in Nat /\ R[n] \in Nat /\ P[n + 1] = t * P[n]
    BY <1>3, PowerSteps DEF PowersOf
  <1> HIDE DEF P, R
  <1>7. m <= P[g + 1]
    <2>1. g + 1 \in Nat /\ m <= R[g + 1] /\ R[g + 1] <= P[g + 1]
      BY <1>4, <1>5 DEF P, R
    <2>2. P[g + 1] \in Nat /\ R[g + 1] \in Nat
      BY <1>6, <2>1
    <2>3. QED
      BY <1>3, <2>1, <2>2
  <1>8. deg' \in Nat /\ deg' >= 1 /\ m <= P[deg' + 1]
    <2>1. CASE g = 0
      <3>1. deg' = 1 /\ P[1] \in Nat /\ P[1 + 1] = t * P[1] /\ m <= P[1]
        BY <1>1, <1>6, <1>7, <2>1
      <3> DEFINE x == P[1]
                 y == t * x
      <3>2. x \in Nat /\ m <= x /\ P[1 + 1] = y
        BY <3>1
      <3> HIDE DEF x
      <3>3. y >= x /\ y \in Nat
        BY <1>3, <3>2
      <3> HIDE DEF y
      <3>4. m <= P[1 + 1]
        BY <1>3, <3>2, <3>3
      <3>5. QED
        BY <3>1, <3>4
    <2>2. CASE g # 0
      BY <1>1, <1>4, <1>7, <2>2
    <2>3. QED
      BY <2>1, <2>2
  <1>9. DegreeOK'
    <2>1. m' <= Power(t)[deg' + 1]
      BY <1>2, <1>8 DEF P
    <2>2. Prime(t)'
      BY <1>2, <1>3 DEF Prime
    <2>3. QED
      BY <1>2, <1>3, <1>8, <2>1, <2>2 DEF DegreeOK
  <1>10. DesignDone'
    BY <1>2, <1>3 DEF DesignDone
  <1>11. QED
    BY <1>2, <1>9, <1>10 DEF Polynomials, DigitsDone, HornerDone, IndicesDone

\* No digit is cut off yet.
LEMMA StartRowPoly ==
  ASSUME GFP, Polynomials, StartRow
  PROVE  Polynomials'
  <1>1. /\ pc = "row" /\ pc' = "digits" /\ val' = i /\ k' = 0 /\ coeff' = [j \in 0 .. deg |-> 0]
        /\ UNCHANGED <<m, tReq, t, deg, i, design>>
    BY DEF StartRow
  <1>2. DegreeOK /\ DesignDone /\ i \in Nat /\ t \in Nat \ {0} /\ deg \in Nat
    BY DEF GFP, SizesOK, Polynomials, DegreeOK
  <1>3. DegreeOK'
    BY <1>1, <1>2 DEF DegreeOK, Prime
  <1>4. Quotients(t, i)[0] = i
    BY <1>2, QuotientSteps
  <1>5. DigitsDone'
    <2>1. val' = Quotients(t, i)[k']
      BY <1>1, <1>4
    <2>2. k' \in 0 .. deg /\ DOMAIN coeff' = 0 .. deg /\ \A n \in 0 .. deg : ~(n < k')
      BY <1>1, <1>2
    <2>3. QED
      BY <1>1, <2>1, <2>2 DEF DigitsDone
  <1>6. DesignDone'
    BY <1>1, <1>2 DEF DesignDone, IndexOf
  <1>7. QED
    BY <1>1, <1>3, <1>5, <1>6 DEF Polynomials, HornerDone, IndicesDone

\* The next digit goes where the polynomial has it.
LEMMA DigitPoly ==
  ASSUME GFP, Polynomials, DigitGFP
  PROVE  Polynomials'
  <1> DEFINE f == Quotients(t, i)
  <1>1. /\ pc = "digits" /\ val' = val \div t /\ coeff' = [coeff EXCEPT ![deg - k] = val % t]
        /\ \/ k < deg /\ k' = k + 1 /\ pc' = "digits"
           \/ ~(k < deg) /\ k' = 0 /\ pc' = "horner"
        /\ UNCHANGED <<m, tReq, t, deg, i, a, res, indices, design>>
    BY DEF DigitGFP, NextDigit
  <1>2. /\ DegreeOK /\ DesignDone /\ i \in Nat /\ t \in Nat \ {0} /\ deg \in Nat /\ a = 0 /\ res = 0
        /\ k \in 0 .. deg /\ DOMAIN coeff = 0 .. deg /\ val = f[k]
        /\ \A n \in 0 .. deg : n < k => coeff[deg - n] = f[n] % t
    BY <1>1 DEF GFP, SizesOK, StartOK, Polynomials, DegreeOK, DigitsDone
  <1>3. \A n \in Nat : f[n + 1] = f[n] \div t
    BY <1>2, QuotientSteps
  <1> HIDE DEF f
  <1>4. DOMAIN coeff' = 0 .. deg /\ \A n \in 0 .. deg : n < k + 1 => coeff'[deg - n] = f[n] % t
    <2>1. DOMAIN coeff' = 0 .. deg /\ deg - k \in 0 .. deg
      BY <1>1, <1>2
    <2>2. ASSUME NEW n \in 0 .. deg, n < k + 1 PROVE coeff'[deg - n] = f[n] % t
      <3>1. CASE n = k
        BY <1>1, <1>2, <2>1, <3>1
      <3>2. CASE n # k
        <4>1. n < k /\ deg - n # deg - k /\ deg - n \in 0 .. deg
          BY <1>2, <2>2, <3>2
        <4>2. coeff'[deg - n] = coeff[deg - n]
          BY <1>1, <1>2, <4>1
        <4>3. QED
          BY <1>2, <4>1, <4>2
      <3>3. QED
        BY <3>1, <3>2
    <2>3. QED
      BY <2>1, <2>2
  <1>5. DegreeOK'
    BY <1>1, <1>2 DEF DegreeOK, Prime
  <1>6. DesignDone'
    BY <1>1, <1>2 DEF DesignDone, IndexOf
  <1>7. CASE k < deg /\ k' = k + 1 /\ pc' = "digits"
    <2>1. val' = f[k + 1] /\ k + 1 \in 0 .. deg
      BY <1>1, <1>2, <1>3, <1>7
    <2>2. DigitsDone'
      BY <1>1, <1>4, <1>7, <2>1 DEF DigitsDone, f
    <2>3. QED
      BY <1>5, <1>6, <1>7, <2>2 DEF Polynomials, HornerDone, IndicesDone
  <1>8. CASE ~(k < deg) /\ k' = 0 /\ pc' = "horner"
    <2>1. k = deg
      BY <1>2, <1>8
    <2>2. ASSUME NEW n \in 0 .. deg PROVE coeff'[n] = Coefficients(t, deg, i)[n]
      <3>1. deg - n \in 0 .. deg /\ deg - n < k + 1 /\ deg - (deg - n) = n
        BY <1>2, <2>1
      <3>2. coeff'[n] = f[deg - n] % t
        BY <1>4, <3>1
      <3>3. QED
        BY <1>2, <3>2, CoefficientsType DEF f
    <2>3. HornerDone'
      BY <1>1, <1>2, <1>4, <1>8, <2>2 DEF HornerDone
    <2>4. IndicesDone'
      <3>1. 1 .. a' = {}
        BY <1>1, <1>2
      <3>2. QED
        BY <3>1 DEF IndicesDone
    <2>5. QED
      BY <1>5, <1>6, <1>8, <2>3, <2>4 DEF Polynomials, DigitsDone
  <1>9. QED
    BY <1>1, <1>7, <1>8

\* A turn of the loop is a turn of Horner's rule modulo t.
LEMMA HornerPoly ==
  ASSUME GFP, Polynomials, type = "gfp", HornerStep
  PROVE  Polynomials'
  <1> DEFINE C == Coefficients(t, deg, i)
             H == Horner(C, a)
  <1>1. /\ pc = "horner" /\ pc' = pc /\ k \in DOMAIN coeff /\ res' = Evaluate(res, coeff[k]) /\ k' = k + 1
        /\ UNCHANGED <<m, tReq, t, deg, i, val, coeff, a, indices, design>>
    BY DEF HornerStep
  <1>2. /\ DegreeOK /\ IndicesDone /\ DesignDone /\ i \in Nat /\ t \in Nat \ {0} /\ deg \in Nat
        /\ a \in Nat /\ res \in Nat
        /\ DOMAIN coeff = 0 .. deg /\ k \in 0 .. deg /\ coeff[k] = C[k]
        /\ (k = 0 => res = 0) /\ (k > 0 => Congruent(res, H[k - 1], t))
    BY <1>1 DEF GFP, SizesOK, HornerOK, Polynomials, DegreeOK, HornerDone
  <1>3. C \in [Nat -> Int] /\ C[k] \in Int
    BY <1>2, CoefficientsType
  <1> HIDE DEF C
  <1>4. H \in [Nat -> Int] /\ H[0] = C[0] /\ \A n \in Nat : H[n + 1] = H[n] * a + C[n + 1]
    <2>1. a \in Int
      BY <1>2
    <2>2. QED
      BY <1>3, <2>1, HornerSteps
  <1> HIDE DEF H
  <1> DEFINE x == res * a
             y == x % t
             e == C[k]
  <1>5. x \in Int /\ e \in Int
    BY <1>2, <1>3
  <1>6. res' = y + e
    BY <1>1, <1>2 DEF Evaluate
  <1>7. Congruent(res', H[k], t)
    <2>1. CASE k = 0
      <3>1. x = 0
        BY <1>2, <2>1
      <3>2. y = 0
        BY <1>2, <3>1
      <3>3. res' = H[0]
        BY <1>4, <1>5, <1>6, <2>1, <3>2
      <3>4. H[0] \in Int /\ 0 = t * 0
        <4>1. 0 \in Nat /\ H[0] \in Int
          BY <1>4
        <4>2. 0 = t * 0
          BY <1>2
        <4>3. QED
          BY <4>1, <4>2
      <3>5. res' - H[k] = 0
        BY <2>1, <3>3, <3>4
      <3>6. QED
        BY <3>4, <3>5 DEF Congruent, Divisible
    <2>2. CASE k # 0
      <3>1. k - 1 \in Nat /\ (k - 1) + 1 = k
        BY <1>2, <2>2
      <3> DEFINE z == H[k - 1]
      <3>2. z \in Int /\ H[k] = z * a + e
        BY <1>4, <3>1
      <3>3. Congruent(res, z, t)
        BY <1>2, <2>2
      <3> HIDE DEF z, e
      <3>4. Congruent(res * a + e, z * a + e, t)
        <4>1. t \in Nat /\ res \in Int /\ a \in Int /\ e \in Int /\ z \in Int
          BY <1>2, <1>5, <3>2
        <4>2. QED
          BY <3>3, <4>1, CongruentTurn
      <3> HIDE DEF x
      <3>5. y \in 0 .. t - 1 /\ Congruent(x, y, t)
        BY <1>2, <1>5, RestCongruent
      <3> HIDE DEF y
      <3>6. (x + e) - (y + e) = x - y
        BY <1>5, <3>5
      <3>7. Congruent(x + e, y + e, t)
        BY <3>5, <3>6 DEF Congruent
      <3>8. Congruent(y + e, x + e, t)
        <4>1. (x + e) - (x + e) = 0 /\ 0 = t * 0
          BY <1>2, <1>5
        <4>2. Congruent(x + e, x + e, t)
          BY <4>1 DEF Congruent, Divisible
        <4>3. x + e \in Int /\ y + e \in Int
          BY <1>5, <3>5
        <4>4. QED
          BY <1>2, <3>7, <4>2, <4>3, CongruentChain
      <3>9. x + e = res * a + e
        BY DEF x
      <3>10. z * a + e \in Int /\ x + e \in Int /\ y + e \in Int
        BY <1>2, <1>5, <3>2, <3>5
      <3>11. Congruent(y + e, z * a + e, t)
        BY <1>2, <3>4, <3>8, <3>9, <3>10, CongruentChain
      <3>12. QED
        BY <1>6, <3>2, <3>11
    <2>3. QED
      BY <2>1, <2>2
  <1>8. HornerDone'
    <2>1. k + 1 \in 0 .. deg + 1 /\ (k + 1) - 1 = k /\ k + 1 > 0
      BY <1>2
    <2>2. Congruent(res', Horner(Coefficients(t, deg, i), a)[k' - 1], t)
      BY <1>1, <1>7, <2>1 DEF H, C
    <2>3. \A n \in 0 .. deg : coeff[n] = Coefficients(t, deg, i)[n]
      BY <1>1 DEF Polynomials, HornerDone
    <2>4. QED
      BY <1>1, <1>2, <2>1, <2>2, <2>3 DEF HornerDone
  <1>9. DegreeOK'
    BY <1>1, <1>2 DEF DegreeOK, Prime
  <1>10. IndicesDone' /\ DesignDone'
    BY <1>1, <1>2 DEF IndicesDone, DesignDone, IndexOf
  <1>11. QED
    BY <1>1, <1>8, <1>9, <1>10 DEF Polynomials, DigitsDone

\* The one subtraction leaves the rest by t.
LEMMA ReducedRest ==
  ASSUME t \in Nat \ {0}, NEW x \in 0 .. 2 * t - 2
  PROVE  Reduced(x) = x % t
  <1>1. CASE x < t
    <2>1. Reduced(x) = x /\ x \in 0 .. t - 1 /\ 0 \in Nat /\ t * 0 + x = x
      BY <1>1 DEF Reduced
    <2>2. (t * 0 + x) % t = x
      BY <2>1, QuotientUnique
    <2>3. QED
      BY <2>1, <2>2
  <1>2. CASE ~(x < t)
    <2> DEFINE y == x - t
    <2>1. Reduced(x) = y /\ y \in 0 .. t - 1 /\ 1 \in Nat /\ t * 1 + y = x
      BY <1>2 DEF Reduced
    <2> HIDE DEF y
    <2>2. (t * 1 + y) % t = y
      BY <2>1, QuotientUnique
    <2>3. QED
      BY <2>1, <2>2
  <1>3. QED
    BY <1>1, <1>2

\* The index pushed is that of the value of the row's polynomial.
LEMMA PushPoly ==
  ASSUME GFP, Polynomials, PushGFP
  PROVE  Polynomials'
  <1> DEFINE C == Coefficients(t, deg, i)
             y == Reduced(res)
             z == Horner(C, a)[deg]
             index == SeedIndex(a, y)
  <1>1. /\ pc = "horner" /\ pc' = pc /\ a < tReq /\ k \notin DOMAIN coeff
        /\ indices' = Append(indices, index) /\ a' = a + 1 /\ k' = 0 /\ res' = 0
        /\ UNCHANGED <<m, tReq, t, deg, i, val, coeff, design>>
    BY DEF PushGFP, PushIndex
  <1>2. /\ DegreeOK /\ DesignDone /\ i \in Nat /\ t \in Nat \ {0} /\ deg \in Nat /\ tReq <= t /\ tReq \in Nat
        /\ a \in Nat /\ res \in 0 .. 2 * t - 2
        /\ indices \in Seq(Int) /\ Len(indices) = a /\ \A x \in 1 .. a : indices[x] = IndexOf(i, x)
        /\ DOMAIN coeff = 0 .. deg /\ k \in 0 .. deg + 1
        /\ k > 0 => Congruent(res, Horner(C, a)[k - 1], t)
    BY <1>1 DEF GFP, SizesOK, HornerOK, IndicesOK, Polynomials, DegreeOK, HornerDone, IndicesDone
  <1>3. Congruent(res, z, t)
    <2>1. k = deg + 1 /\ k > 0 /\ k - 1 = deg
      BY <1>1, <1>2
    <2>2. QED
      BY <1>2, <2>1
  <1>4. C \in [Nat -> Int]
    BY <1>2, CoefficientsType
  <1> HIDE DEF C
  <1>5. z \in Int
    <2>1. a \in Int
      BY <1>2
    <2>2. Horner(C, a) \in [Nat -> Int]
      BY <1>4, <2>1, HornerSteps
    <2>3. QED
      BY <1>2, <2>2
  <1> HIDE DEF z
  <1>6. y = z % t
    <2>1. res % t = z % t
      <3>1. res \in Int
        BY <1>2
      <3>2. QED
        BY <1>2, <1>3, <1>5, <3>1, SameRest
    <2>2. y = res % t
      BY <1>2, ReducedRest
    <2>3. QED
      BY <2>1, <2>2
  <1>7. y = Value(t, deg, i, a)
    BY <1>6 DEF Value, C, z
  <1>8. y \in 0 .. t - 1
    <2>1. t \in Nat
      BY <1>2
    <2>2. QED
      BY <1>2, <2>1, ReducedBound
  <1> HIDE DEF y
  <1>9. index = t * a + y
    <2>1. t * a \in Nat /\ t * (a + 1) <= t * t /\ t * (a + 1) = t * a + t /\ t * t \in Nat
      BY <1>1, <1>2
    <2>2. ~(t * a + y >= t * t)
      BY <1>2, <1>8, <2>1
    <2>3. QED
      BY <2>2 DEF SeedIndex
  <1>10. index \in Int /\ index = IndexOf(i, a + 1)
    <2>1. (a + 1) - 1 = a /\ t * a \in Nat
      BY <1>2
    <2>2. QED
      BY <1>7, <1>8, <1>9, <2>1 DEF IndexOf
  <1> HIDE DEF index
  <1>11. ASSUME NEW x \in 1 .. a + 1 PROVE indices'[x] = IndexOf(i, x)
    <2>1. CASE x = a + 1
      BY <1>1, <1>2, <1>10, <2>1
    <2>2. CASE x # a + 1
      <3>1. x \in 1 .. a
        BY <1>2, <1>11, <2>2
      <3>2. indices'[x] = indices[x]
        BY <1>1, <1>2, <1>10, <3>1
      <3>3. QED
        BY <1>2, <3>1, <3>2
    <2>3. QED
      BY <2>1, <2>2
  <1>12. IndicesDone'
    BY <1>1, <1>11 DEF IndicesDone, IndexOf
  <1>13. DegreeOK' /\ DesignDone'
    BY <1>1, <1>2 DEF DegreeOK, Prime, DesignDone, IndexOf
  <1>14. HornerDone'
    <2>1. \A n \in 0 .. deg : coeff[n] = Coefficients(t, deg, i)[n]
      BY <1>1 DEF Polynomials, HornerDone
    <2>2. 0 \in 0 .. deg + 1 /\ ~(0 > 0)
      BY <1>2
    <2>3. QED
      BY <1>1, <1>2, <2>1, <2>2 DEF HornerDone
  <1>15. QED
    BY <1>1, <1>12, <1>13, <1>14 DEF Polynomials, DigitsDone

\* The finished row holds the indices of its polynomial.
LEMMA EndRowPoly ==
  ASSUME GFP, Polynomials, EndRow
  PROVE  Polynomials'
  <1>1. /\ pc = "horner" /\ a = tReq /\ i' = i + 1 /\ design' = Append(design, indices)
        /\ pc' = (IF i + 1 < m THEN "row" ELSE "done")
        /\ UNCHANGED <<m, tReq, t, deg, k>>
    BY DEF EndRow
  <1>2. /\ DegreeOK /\ i \in Nat /\ tReq \in Nat
        /\ indices \in Seq(Int) /\ \A x \in 1 .. tReq : indices[x] = IndexOf(i, x)
        /\ Len(design) = i /\ design \in Seq(Seq(Int))
        /\ \A j \in 1 .. i : \A x \in 1 .. tReq : design[j][x] = IndexOf(j - 1, x)
    BY <1>1 DEF GFP, SizesOK, IndicesOK, DesignOK, Polynomials, IndicesDone, DesignDone
  <1>3. DegreeOK'
    BY <1>1, <1>2 DEF DegreeOK, Prime
  <1>4. ASSUME NEW j \in 1 .. i + 1, NEW x \in 1 .. tReq PROVE design'[j][x] = IndexOf(j - 1, x)
    <2>1. design'[i + 1] = indices /\ \A l \in 1 .. i : design'[l] = design[l]
      BY <1>1, <1>2
    <2>2. CASE j = i + 1
      <3>1. j - 1 = i
        BY <1>2, <2>2
      <3>2. QED
        BY <1>2, <2>1, <2>2, <3>1
    <2>3. CASE j # i + 1
      <3>1. j \in 1 .. i
        BY <1>2, <2>3
      <3>2. QED
        BY <1>2, <2>1, <3>1
    <2>4. QED
      BY <2>2, <2>3
  <1>5. DesignDone'
    BY <1>1, <1>4 DEF DesignDone, IndexOf
  <1>6. QED
    BY <1>1, <1>3, <1>5 DEF Polynomials, DigitsDone, HornerDone, IndicesDone

\* Every step keeps the correspondence with the polynomials.
LEMMA NextPoly ==
  ASSUME Inv, PolyInv, [Next]_vars
  PROVE  PolyInv'
  <1>1. type' = type
    BY DEF Next, vars, TooFewRows, SetParams, StartRow, DigitGFP, DigitGF2X, NextDigit,
           HornerStep, PushGFP, PushGF2X, PushIndex, EndRow, Stopped
  <1>2. SUFFICES ASSUME type = "gfp", GFP, Polynomials PROVE Polynomials'
    BY <1>1 DEF Inv, PolyInv
  <1>3. CASE TooFewRows
    <2>1. /\ pc = "params" /\ pc' = "undefined" /\ UNCHANGED <<m, tReq, t, deg, i, k, design>>
      BY <1>3 DEF TooFewRows
    <2>2. DegreeOK /\ DesignDone
      BY <1>2 DEF Polynomials
    <2>3. DegreeOK' /\ DesignDone'
      BY <2>1, <2>2 DEF DegreeOK, Prime, DesignDone, IndexOf
    <2>4. QED
      BY <2>1, <2>3 DEF Polynomials, DigitsDone, HornerDone, IndicesDone
  <1>4. CASE SetParams
    BY <1>2, <1>4, SetParamsPoly
  <1>5. CASE StartRow
    BY <1>2, <1>5, StartRowPoly
  <1>6. CASE DigitGFP
    BY <1>2, <1>6, DigitPoly
  <1>7. CASE HornerStep
    BY <1>2, <1>7, HornerPoly
  <1>8. CASE PushGFP
    BY <1>2, <1>8, PushPoly
  <1>9. CASE EndRow
    BY <1>2, <1>9, EndRowPoly
  <1>10. CASE UNCHANGED vars
    BY <1>2, <1>10
       DEF vars, Polynomials, DegreeOK, Prime, DigitsDone, HornerDone, IndicesDone, DesignDone, IndexOf
  <1>11. QED
    BY <1>2, <1>3, <1>4, <1>5, <1>6, <1>7, <1>8, <1>9, <1>10
       DEF Next, DigitGF2X, PushGF2X, Stopped

\* Over GF(p), compute_Si evaluates the polynomial whose coefficients are the
\* digits of the row number, and the degree leaves one for every row.
THEOREM RowsArePolynomials == Spec => []PolyInv
  <1>1. QED
    BY InitPoly, Invariance, NextPoly, PTL DEF Spec

\* What the loops leave in the variables between them are natural numbers.
NaturalsOK ==
  /\ val \in Nat /\ a \in Nat /\ res \in Nat
  /\ indices \in Seq(Nat) /\ design \in Seq(Seq(Nat))
TypeInv == type = "gfp" => NaturalsOK

\* Every step keeps them natural numbers.
LEMMA NextTypes ==
  ASSUME Inv, TypeInv, Inv', [Next]_vars
  PROVE  TypeInv'
  <1>1. type' = type
    BY DEF Next, vars, TooFewRows, SetParams, StartRow, DigitGFP, DigitGF2X, NextDigit,
           HornerStep, PushGFP, PushGF2X, PushIndex, EndRow, Stopped
  <1>2. SUFFICES ASSUME type = "gfp", GFP, NaturalsOK, GFP' PROVE NaturalsOK'
    BY <1>1 DEF Inv, TypeInv
  <1>3. i \in Nat /\ t \in Nat \ {0} /\ tReq \in Nat /\ tReq <= t
    BY <1>2 DEF GFP, SizesOK
  <1>4. CASE TooFewRows
    BY <1>2, <1>4 DEF TooFewRows, NaturalsOK
  <1>5. CASE SetParams
    BY <1>2, <1>5 DEF SetParams, NaturalsOK
  <1>6. CASE StartRow
    <2>1. val' \in Nat /\ a' \in Nat /\ res' \in Nat /\ indices' = <<>> /\ design' = design
      BY <1>3, <1>6 DEF StartRow
    <2>2. QED
      BY <1>2, <2>1 DEF NaturalsOK
  <1>7. CASE DigitGFP
    <2>1. val' = val \div t /\ UNCHANGED <<a, res, indices, design>>
      BY <1>7 DEF DigitGFP, NextDigit
    <2>2. val \in Nat
      BY <1>2 DEF NaturalsOK
    <2>3. val \div t \in Nat
      BY <1>3, <2>2
    <2>4. QED
      BY <1>2, <2>1, <2>3 DEF NaturalsOK
  <1>8. CASE HornerStep
    <2>1. pc' = "horner" /\ UNCHANGED <<val, a, indices, design>>
      BY <1>8 DEF HornerStep
    <2>2. t' \in Nat /\ res' \in 0 .. 2 * t' - 2
      BY <1>2, <2>1 DEF GFP, SizesOK, HornerOK
    <2>3. QED
      BY <1>2, <2>1, <2>2 DEF NaturalsOK
  <1>9. CASE PushGFP
    <2> DEFINE index == SeedIndex(a, Reduced(res))
    <2>1. /\ pc = "horner" /\ a < tReq /\ a' = a + 1 /\ res' = 0
          /\ indices' = Append(indices, index) /\ UNCHANGED <<val, design>>
      BY <1>9 DEF PushGFP, PushIndex
    <2>2. a \in Nat /\ res \in 0 .. 2 * t - 2 /\ a < t
      BY <1>2, <1>3, <2>1 DEF GFP, HornerOK, NaturalsOK
    <2>3. Reduced(res) \in 0 .. t - 1
      BY <1>3, <2>2, ReducedBound
    <2>4. index \in Int /\ t * a <= index /\ t * a \in Nat
      BY <1>3, <2>2, <2>3, SeedIndexInColumn
    <2>5. index \in Nat
      BY <2>4
    <2> HIDE DEF index
    <2>6. QED
      BY <1>2, <2>1, <2>5 DEF NaturalsOK
  <1>10. CASE EndRow
    <2>1. design' = Append(design, indices) /\ UNCHANGED <<val, a, res, indices>>
      BY <1>10 DEF EndRow
    <2>2. QED
      BY <1>2, <2>1 DEF NaturalsOK
  <1>11. CASE UNCHANGED vars
    BY <1>2, <1>11 DEF vars, NaturalsOK
  <1>12. QED
    BY <1>2, <1>4, <1>5, <1>6, <1>7, <1>8, <1>9, <1>10, <1>11
       DEF Next, DigitGF2X, PushGF2X, Stopped

\* They are natural numbers at the start.
LEMMA InitTypes == Init => TypeInv
  <1>1. SUFFICES ASSUME Init PROVE NaturalsOK
    BY DEF TypeInv
  <1>2. val = 0 /\ a = 0 /\ res = 0 /\ indices = <<>> /\ design = <<>>
    BY <1>1 DEF Init
  <1>3. QED
    BY <1>2 DEF NaturalsOK

\* The types of a GF(p) design.
LEMMA TypesGFP ==
  ASSUME Inv, PolyInv, TypeInv, type = "gfp"
  PROVE  TypeOK
  <1>1. type \in Types /\ GFP /\ Polynomials /\ NaturalsOK
    BY DEF Inv, PolyInv, TypeInv
  <1>2. /\ m \in Nat /\ i \in Nat /\ t \in Nat \ {0} /\ tReq \in Nat /\ deg \in Nat /\ k \in Nat
        /\ pc \in {"params", "row", "digits", "horner", "done", "undefined"}
    BY <1>1 DEF GFP, SizesOK, Polynomials, DegreeOK
  <1>3. pc \in {"digits", "horner"} => coeff \in [DOMAIN coeff -> 0 .. t - 1]
    BY <1>1 DEF GFP, DigitsOK
  <1>4. QED
    BY <1>1, <1>2, <1>3 DEF TypeOK, NaturalsOK
-----------------------------------------------------------------------------
(* The overlap of two rows *)

\* Values are field elements.
LEMMA ValueType ==
  ASSUME NEW b \in Nat \ {0}, NEW d \in Nat, NEW x \in Nat, NEW c \in Int
  PROVE  Value(b, d, x, c) \in 0 .. b - 1
  <1> DEFINE C == Coefficients(b, d, x)
  <1>1. C \in [Nat -> Int]
    BY CoefficientsType
  <1> HIDE DEF C
  <1>2. Horner(C, c) \in [Nat -> Int]
    BY <1>1, HornerSteps
  <1> DEFINE y == Horner(C, c)[d]
  <1>3. y \in Int
    BY <1>2
  <1> HIDE DEF y
  <1>4. y % b \in 0 .. b - 1
    BY <1>3
  <1>5. QED
    BY <1>4 DEF Value, y, C

\* A bit lies in a finished row exactly where the row's polynomial says.
LEMMA RowMembers ==
  ASSUME Inv, PolyInv, type = "gfp", pc = "done", NEW j \in 1 .. m, NEW index
  PROVE  /\ index \in Row(j) =>
              /\ index \in Nat /\ index \div t \in 0 .. tReq - 1
              /\ index = t * (index \div t) + Value(t, deg, j - 1, index \div t)
         /\ \A x \in 0 .. tReq - 1 : index = t * x + Value(t, deg, j - 1, x) => index \in Row(j)
  <1>1. SizesOK /\ DesignOK /\ i = m /\ DesignDone
    BY DEF Inv, GFP, DesignOK, PolyInv, Polynomials
  <1>2. tReq \in Nat /\ t \in Nat
    BY <1>1 DEF SizesOK
  <1>3. ASSUME index \in Row(j)
        PROVE  /\ index \in Nat /\ index \div t \in 0 .. tReq - 1
               /\ index = t * (index \div t) + Value(t, deg, j - 1, index \div t)
    <2>1. PICK x \in 1 .. tReq : index = design[j][x]
      BY <1>3 DEF Row
    <2>2. index = t * (x - 1) + Value(t, deg, j - 1, x - 1)
      BY <1>1, <2>1 DEF DesignDone, IndexOf
    <2>3. InColumn(index, x)
      BY <1>1, <2>1 DEF DesignOK
    <2>4. index \in Int /\ 0 <= index /\ index \div t = x - 1
      BY <1>1, <2>3, ColumnBelowSquare
    <2>5. x - 1 \in 0 .. tReq - 1
      BY <1>2
    <2>6. QED
      BY <2>2, <2>4, <2>5
  <1>4. ASSUME NEW x \in 0 .. tReq - 1, index = t * x + Value(t, deg, j - 1, x)
        PROVE  index \in Row(j)
    <2>1. x + 1 \in 1 .. tReq /\ (x + 1) - 1 = x
      BY <1>2
    <2>2. design[j][x + 1] = index
      BY <1>1, <1>4, <2>1 DEF DesignDone, IndexOf
    <2>3. QED
      BY <2>1, <2>2 DEF Row
  <1>5. QED
    BY <1>3, <1>4

\* A bit common to two rows is a common value of their polynomials.
LEMMA SharedGFP ==
  ASSUME Inv, PolyInv, type = "gfp", pc = "done", NEW j \in 1 .. m, NEW l \in 1 .. j - 1,
         NEW index \in Row(j) \cap Row(l)
  PROVE  /\ index \div t \in Common(t, deg, j - 1, l - 1)
         /\ index = t * (index \div t) + Value(t, deg, j - 1, index \div t)
  <1> DEFINE x == j - 1
             y == l - 1
             c == index \div t
             v == Value(t, deg, x, c)
             w == Value(t, deg, y, c)
  <1>1. SizesOK
    BY DEF Inv, GFP
  <1>2. m \in Nat /\ t \in Nat \ {0} /\ tReq \in Nat /\ tReq <= t
    BY <1>1 DEF SizesOK, Prime
  <1>3. x \in Nat /\ y \in Nat /\ l \in 1 .. m
    BY <1>2
  <1>4. c \in 0 .. tReq - 1 /\ index = t * c + v
    <2>1. index \in Row(j)
      OBVIOUS
    <2>2. QED
      BY <2>1, RowMembers
  <1>5. index = t * c + w
    <2>1. index \in Row(l)
      OBVIOUS
    <2>2. QED
      BY <1>3, <2>1, RowMembers
  <1>6. c \in Int /\ c \in 0 .. t - 1
    BY <1>2, <1>4
  <1> HIDE DEF c, x, y
  <1>7. v \in 0 .. t - 1 /\ w \in 0 .. t - 1
    <2>1. SizesOK /\ DegreeOK
      BY DEF Inv, GFP, PolyInv, Polynomials
    <2>2. deg \in Nat /\ t \in Nat \ {0} /\ x \in Nat /\ y \in Nat /\ c \in Int
      BY <1>2, <1>3, <1>6, <2>1 DEF DegreeOK
    <2>3. v \in 0 .. t - 1
      BY ONLY <2>2, ValueType
    <2>4. w \in 0 .. t - 1
      BY ONLY <2>2, ValueType
    <2>5. QED
      BY <2>3, <2>4
  <1> HIDE DEF v, w
  <1>8. v = w
    <2>1. t * c \in Int
      BY <1>2, <1>6
    <2>2. QED
      BY <1>4, <1>5, <1>7, <2>1
  <1>9. c \in Common(t, deg, x, y)
    BY <1>6, <1>8 DEF Common, v, w
  <1>10. QED
    BY <1>4, <1>9 DEF c, x, y, v

\* Two rows of a GF(p) design share at most deg seed bits: a shared bit is a
\* common value of two different polynomials of degree at most deg over a
\* field, at the same element.
LEMMA OverlapGFP ==
  ASSUME Inv, PolyInv, type = "gfp"
  PROVE  SmallOverlap
  <1>1. SUFFICES ASSUME pc = "done", NEW j \in 1 .. m, NEW l \in 1 .. j - 1
                 PROVE  Cardinality(Row(j) \cap Row(l)) <= deg
    BY DEF SmallOverlap
  <1>2. SizesOK /\ DegreeOK
    BY DEF Inv, GFP, PolyInv, Polynomials
  <1>3. /\ m \in Nat /\ t \in Nat \ {0} /\ tReq \in Nat /\ tReq <= t /\ Prime(t) /\ deg \in Nat
        /\ m <= Power(t)[deg + 1]
    BY <1>1, <1>2 DEF SizesOK, DegreeOK, Prime
  <1> DEFINE x == j - 1
             y == l - 1
             S == Common(t, deg, x, y)
             T == Row(j) \cap Row(l)
  <1>4. x \in Nat /\ y \in Nat /\ x # y /\ x < m /\ y < m /\ l \in 1 .. m
    BY <1>1, <1>3
  <1>5. IsFiniteSet(S) /\ Cardinality(S) <= deg
    <2>1. Power(t)[deg + 1] \in Nat
      BY <1>3, PowerSteps DEF PowersOf
    <2>2. x < Power(t)[deg + 1] /\ y < Power(t)[deg + 1]
      BY <1>3, <1>4, <2>1
    <2> HIDE DEF x, y
    <2>3. QED
      BY <1>3, <1>4, <2>2, FewCommon
  <1>6. ASSUME NEW index \in T
        PROVE  index \div t \in S /\ index = t * (index \div t) + Value(t, deg, x, index \div t)
    BY <1>1, <1>6, SharedGFP
  \* the shared bits are an image of the common values
  <1> DEFINE f == [c \in S |-> t * c + Value(t, deg, x, c)]
             U == {f[c] : c \in S}
  <1>7. f \in Surjection(S, U)
    <2> HIDE DEF S, x
    <2>1. f \in [S -> U]
      OBVIOUS
    <2>2. QED
      BY <2>1 DEF Surjection
  <1>8. T \in SUBSET U
    <2>1. SUFFICES ASSUME NEW index \in T PROVE index \in U
      OBVIOUS
    <2>2. index \div t \in S /\ index = t * (index \div t) + Value(t, deg, x, index \div t)
      BY <1>6, <2>1
    <2> HIDE DEF S, T, x
    <2>3. f[index \div t] = index
      BY <2>2
    <2>4. QED
      BY <2>2, <2>3
  <1> HIDE DEF S, T, U, f
  <1>9. IsFiniteSet(U) /\ Cardinality(U) <= Cardinality(S)
    BY <1>5, <1>7, FS_Surjection
  <1>10. IsFiniteSet(T) /\ Cardinality(T) <= Cardinality(U)
    BY <1>8, <1>9, FS_Subset
  <1>11. Cardinality(S) \in Nat /\ Cardinality(T) \in Nat /\ Cardinality(U) \in Nat
    BY <1>5, <1>9, <1>10, FS_CardinalityType
  <1>12. Cardinality(T) <= deg
    BY <1>3, <1>5, <1>9, <1>10, <1>11
  <1>13. QED
    BY <1>12 DEF T
-----------------------------------------------------------------------------
(* How often a bit is used *)

\* The quotients of x after the first are those of x divided by b.
LEMMA QuotientShift ==
  ASSUME NEW b \in Nat \ {0}, NEW x \in Nat, NEW max \in Nat
  PROVE  Quotients(b, x)[max + 1] = Quotients(b, x \div b)[max]
  <1> DEFINE y == x \div b
             f == Quotients(b, x)
             g == Quotients(b, y)
             Q == {n \in 0 .. max : f[n + 1] = g[n]}
  <1>1. y \in Nat
    BY Divides
  <1>2. f[0] = x /\ \A n \in Nat : f[n + 1] = f[n] \div b
    BY QuotientSteps
  <1>3. g[0] = y /\ \A n \in Nat : g[n + 1] = g[n] \div b
    <2> HIDE DEF y
    <2>1. QED
      BY <1>1, QuotientSteps
  <1> HIDE DEF f, g
  <1>4. 0 \in Q
    BY <1>2, <1>3
  <1>5. ASSUME NEW n \in 0 .. max - 1, n \in Q PROVE n + 1 \in Q
    <2>1. n \in Nat /\ n + 1 \in Nat /\ n + 1 \in 0 .. max /\ f[n + 1] = g[n]
      BY <1>5
    <2>2. f[(n + 1) + 1] = f[n + 1] \div b /\ g[n + 1] = g[n] \div b
      BY <1>2, <1>3, <2>1
    <2>3. QED
      BY <2>1, <2>2
  <1> HIDE DEF Q
  <1>6. 0 .. max \subseteq Q
    BY <1>4, <1>5, Induct
  <1>7. max \in Q
    BY <1>6
  <1>8. QED
    BY <1>7 DEF Q, f, g, y

\* The lowest digit of the row number is the constant coefficient; the others
\* are the digits of the row number divided by b.
LEMMA LowestDigit ==
  ASSUME NEW b \in Nat \ {0}, NEW d \in Nat, NEW x \in Nat, NEW c \in Int
  PROVE  /\ Horner(Coefficients(b, d, x \div b), c)[d] \in Int
         /\ Value(b, d + 1, x, c) = (Horner(Coefficients(b, d, x \div b), c)[d] * c + (x % b)) % b
  <1> DEFINE y == x \div b
             C == Coefficients(b, d + 1, x)
             D == Coefficients(b, d, y)
  <1>1. y \in Nat /\ d + 1 \in Nat
    BY Divides
  <1> HIDE DEF y
  <1>2. C \in [Nat -> Int] /\ \A n \in 0 .. d + 1 : C[n] = Quotients(b, x)[(d + 1) - n] % b
    BY <1>1, CoefficientsType
  <1>3. D \in [Nat -> Int] /\ \A n \in 0 .. d : D[n] = Quotients(b, y)[d - n] % b
    BY <1>1, CoefficientsType
  <1> HIDE DEF C, D
  <1>4. ASSUME NEW n \in 0 .. d PROVE C[n] = D[n]
    <2>1. n \in 0 .. d + 1 /\ (d + 1) - n = (d - n) + 1 /\ d - n \in Nat
      BY <1>4
    <2>2. Quotients(b, x)[(d - n) + 1] = Quotients(b, x \div b)[d - n]
      BY <2>1, QuotientShift
    <2>3. QED
      BY <1>2, <1>3, <2>1, <2>2 DEF y
  <1>5. Horner(C, c)[d] = Horner(D, c)[d]
    BY <1>2, <1>3, <1>4, HornerLocal
  <1>6. Horner(C, c)[d + 1] = Horner(C, c)[d] * c + C[d + 1]
    BY <1>2, HornerSteps
  <1>7. C[d + 1] = x % b
    <2>1. d + 1 \in 0 .. d + 1 /\ (d + 1) - (d + 1) = 0
      OBVIOUS
    <2>2. Quotients(b, x)[0] = x
      BY QuotientSteps
    <2>3. QED
      BY <1>2, <2>1, <2>2
  <1>8. Horner(D, c)[d] \in Int
    <2>1. Horner(D, c) \in [Nat -> Int]
      BY <1>3, HornerSteps
    <2>2. QED
      BY <2>1
  <1>9. QED
    BY <1>5, <1>6, <1>7, <1>8 DEF Value, C, D, y

\* The rest r that, added to g, gives v.
Rests(b, g, v, r) == (v - g) % b \in 0 .. b - 1 /\ ((g + r) % b = v <=> r = (v - g) % b)

\* Whatever is added, exactly one rest by b gives the value wanted.
LEMMA OneRest ==
  ASSUME NEW b \in Nat \ {0}, NEW g \in Int, NEW v \in 0 .. b - 1, NEW r \in 0 .. b - 1
  PROVE  Rests(b, g, v, r)
  <1> DEFINE x == g + r
             y == v - g
  <1>1. x \in Int /\ y \in Int /\ v \in Int /\ r \in Int /\ x - v = r - y
    OBVIOUS
  <1>2. v % b = v /\ r % b = r
    OBVIOUS
  <1> HIDE DEF x, y
  <1>3. x % b = v % b <=> Congruent(x, v, b)
    BY <1>1, SameRest
  <1>4. r % b = y % b <=> Congruent(r, y, b)
    BY <1>1, SameRest
  <1>5. Congruent(x, v, b) <=> Congruent(r, y, b)
    BY <1>1 DEF Congruent
  <1>6. y % b \in 0 .. b - 1
    BY <1>1, RestCongruent
  <1>7. QED
    BY <1>2, <1>3, <1>4, <1>5, <1>6 DEF x, y, Rests

\* One number out of every b consecutive ones, at place off[q] of the q-th
\* block: as many as there are blocks, the last one perhaps cut short.
LEMMA OnePerBlock ==
  ASSUME NEW b \in Nat \ {0}, NEW rows \in Nat, NEW off \in [Nat -> 0 .. b - 1],
         NEW A \in SUBSET (1 .. rows),
         \A j \in 1 .. rows : j \in A <=> (j - 1) % b = off[(j - 1) \div b]
  PROVE  Cardinality(A) \in {rows \div b, (rows + b - 1) \div b}
  <1> DEFINE K == rows \div b
             R == rows % b
             g == [q \in Nat |-> b * q + off[q] + 1]
             N == IF g[K] <= rows THEN K + 1 ELSE K
             B == 0 .. N - 1
             h == [q \in B |-> g[q]]
  <1>1. K \in Nat /\ R \in 0 .. b - 1 /\ rows = b * K + R
    BY Divides
  <1> HIDE DEF K, R
  <1>2. ASSUME NEW q \in Nat
        PROVE  /\ off[q] \in 0 .. b - 1 /\ b * q \in Nat /\ g[q] = b * q + off[q] + 1
               /\ g[q] \in Nat /\ (g[q] - 1) \div b = q /\ (g[q] - 1) % b = off[q]
    <2> DEFINE e == off[q]
               p == b * q
    <2>1. e \in 0 .. b - 1 /\ p \in Nat /\ g[q] = p + e + 1
      OBVIOUS
    <2>2. (b * q + e) \div b = q /\ (b * q + e) % b = e
      <3> HIDE DEF e, p
      <3>1. QED
        BY <2>1, QuotientUnique
    <2> HIDE DEF e, g
    <2>3. g[q] \in Nat /\ g[q] - 1 = p + e
      <3> HIDE DEF p
      <3>1. QED
        BY <2>1
    <2>4. QED
      BY <2>1, <2>2, <2>3 DEF e
  <1> HIDE DEF g
  <1>3. ASSUME NEW q \in Nat PROVE q < K => g[q] <= rows
    <2>1. SUFFICES ASSUME q < K PROVE g[q] <= rows
      OBVIOUS
    <2> DEFINE p == b * q
               s == b * K
    <2>2. p + b <= s
      <3>1. b * (q + 1) <= b * K
        BY <1>1, <2>1
      <3>2. b * (q + 1) = b * q + b
        BY <1>3
      <3>3. QED
        BY <3>1, <3>2
    <2>3. p \in Nat /\ s \in Nat /\ g[q] = p + off[q] + 1 /\ off[q] \in 0 .. b - 1 /\ rows = s + R
      BY <1>1, <1>2
    <2> HIDE DEF p, s
    <2>4. QED
      BY <1>1, <2>2, <2>3
  <1>4. ASSUME NEW q \in Nat, g[q] <= rows PROVE q <= K
    <2>1. SUFFICES ASSUME q > K PROVE FALSE
      BY <1>1
    <2> DEFINE p == b * q
               s == b * K
    <2>2. s + b <= p
      <3>1. b * (K + 1) <= b * q
        BY <1>1, <2>1
      <3>2. b * (K + 1) = b * K + b
        BY <1>1
      <3>3. QED
        BY <3>1, <3>2
    <2>3. p \in Nat /\ s \in Nat /\ g[q] = p + off[q] + 1 /\ off[q] \in 0 .. b - 1 /\ rows = s + R
      BY <1>1, <1>2
    <2> HIDE DEF p, s
    <2>4. QED
      BY <1>1, <1>4, <2>2, <2>3
  <1>5. N \in Nat /\ \A q \in Nat : q \in B <=> g[q] <= rows
    <2>1. CASE g[K] <= rows
      <3>1. N = K + 1
        BY <2>1
      <3>2. \A q \in Nat : q \in B <=> q <= K
        BY <1>1, <3>1
      <3>3. \A q \in Nat : q <= K => q < K \/ q = K
        BY <1>1
      <3> HIDE DEF B, N
      <3>4. ASSUME NEW q \in Nat PROVE q \in B <=> g[q] <= rows
        <4>1. q <= K => g[q] <= rows
          BY <1>3, <2>1, <3>3
        <4>2. g[q] <= rows => q <= K
          BY <1>4
        <4>3. QED
          BY <3>2, <4>1, <4>2
      <3>5. QED
        BY <1>1, <3>1, <3>4
    <2>2. CASE ~(g[K] <= rows)
      <3>1. N = K
        BY <2>2
      <3>2. \A q \in Nat : q \in B <=> q < K
        BY <1>1, <3>1
      <3>3. \A q \in Nat : q <= K => q < K \/ q = K
        BY <1>1
      <3> HIDE DEF B, N
      <3>4. ASSUME NEW q \in Nat PROVE q \in B <=> g[q] <= rows
        <4>1. q < K => g[q] <= rows
          BY <1>3
        <4>2. g[q] <= rows => q < K
          BY <1>4, <2>2, <3>3
        <4>3. QED
          BY <3>2, <4>1, <4>2
      <3>5. QED
        BY <1>1, <3>1, <3>4
    <2>3. QED
      BY <2>1, <2>2
  <1>6. N \in {rows \div b, (rows + b - 1) \div b}
    <2>1. CASE g[K] <= rows
      <3> DEFINE s == b * K
                 p == b * (K + 1)
      <3>1. R >= 1
        <4>1. s \in Nat /\ g[K] = s + off[K] + 1 /\ off[K] \in 0 .. b - 1 /\ rows = s + R
          BY <1>1, <1>2
        <4> HIDE DEF s
        <4>2. QED
          BY <1>1, <2>1, <4>1
      <3>2. K + 1 \in Nat /\ R - 1 \in 0 .. b - 1 /\ p = s + b /\ rows = s + R /\ s \in Nat
        BY <1>1, <3>1
      <3>3. (b * (K + 1) + (R - 1)) \div b = K + 1
        BY <3>2, QuotientUnique
      <3>4. rows + b - 1 = p + (R - 1)
        <4> HIDE DEF s, p
        <4>1. QED
          BY <1>1, <3>2
      <3>5. N = K + 1
        BY <2>1
      <3>6. QED
        BY <3>3, <3>4, <3>5
    <2>2. CASE ~(g[K] <= rows)
      BY <2>2 DEF K
    <2>3. QED
      BY <2>1, <2>2
  <1> HIDE DEF N
  <1>7. IsFiniteSet(B) /\ Cardinality(B) = N
    <2>1. 0 \in Int /\ N - 1 \in Int /\ (0 > N - 1 => N = 0) /\ (N - 1) - 0 + 1 = N
      BY <1>5
    <2>2. IsFiniteSet(B) /\ Cardinality(B) = IF 0 > N - 1 THEN 0 ELSE (N - 1) - 0 + 1
      BY <2>1, FS_Interval
    <2>3. QED
      BY <2>1, <2>2
  <1>8. \A q \in B : q \in Nat /\ h[q] = g[q]
    BY <1>5
  <1> HIDE DEF B, h
  <1>9. ASSUME NEW q \in B PROVE h[q] \in A
    <2>1. q \in Nat /\ h[q] = g[q] /\ g[q] <= rows
      BY <1>5, <1>8
    <2>2. g[q] \in 1 .. rows
      <3> DEFINE p == b * q
                 e == off[q]
      <3>1. e \in 0 .. b - 1 /\ p \in Nat /\ g[q] = p + e + 1 /\ g[q] \in Nat
        BY <1>2, <2>1
      <3> HIDE DEF p, e
      <3>2. QED
        BY <2>1, <3>1
    <2>3. (g[q] - 1) % b = off[(g[q] - 1) \div b]
      BY <1>2, <2>1
    <2>4. QED
      BY <2>1, <2>2, <2>3
  <1>10. ASSUME NEW j \in A PROVE \E q \in B : h[q] = j
    <2> DEFINE x == j - 1
               q == x \div b
               e == x % b
    <2>1. j \in 1 .. rows /\ x \in Nat /\ j = x + 1
      OBVIOUS
    <2>2. e = off[q]
      BY <2>1
    <2> HIDE DEF x
    <2>3. q \in Nat /\ e \in 0 .. b - 1 /\ x = b * q + e
      BY <2>1, Divides
    <2> HIDE DEF q, e
    <2>4. g[q] = j
      BY <1>2, <2>1, <2>2, <2>3
    <2>5. q \in B
      BY <1>5, <2>1, <2>3, <2>4
    <2>6. QED
      BY <1>8, <2>4, <2>5
  <1>11. ASSUME NEW q \in B, NEW s \in B, h[q] = h[s] PROVE q = s
    <2>1. q \in Nat /\ s \in Nat /\ g[q] = g[s]
      BY <1>8, <1>11
    <2>2. (g[q] - 1) \div b = q
      BY <1>2, <2>1
    <2>3. (g[s] - 1) \div b = s
      BY <1>2, <2>1
    <2>4. QED
      BY <2>1, <2>2, <2>3
  <1>12. h \in Bijection(B, A)
    <2>1. h \in [B -> A]
      BY <1>9 DEF h
    <2>2. h \in Injection(B, A)
      BY <1>11, <2>1 DEF Injection, IsInjective
    <2>3. h \in Surjection(B, A)
      BY <1>10, <2>1 DEF Surjection
    <2>4. QED
      BY <2>2, <2>3 DEF Bijection
  <1>13. Cardinality(A) = N
    <2>1. ExistsBijection(B, A)
      BY <1>12 DEF ExistsBijection
    <2>2. QED
      BY <1>7, <2>1, FS_Bijection
  <1>14. QED
    BY <1>6, <1>13

(***************************************************************************)
(* Over GF(p) every bit of the used columns is drawn equally often, up to  *)
(* one: for every column and value, one row of each t consecutive ones.    *)
(***************************************************************************)
THEOREM UsedUniformly == Spec => []UniformUse
  <1>1. Inv /\ PolyInv => UniformUse
    <2>1. SUFFICES ASSUME Inv, PolyInv, pc = "done", type = "gfp", NEW x \in 0 .. t * tReq - 1
                   PROVE  Uses(x) \in {m \div t, (m + t - 1) \div t}
      BY DEF UniformUse
    <2>2. SizesOK /\ DegreeOK
      BY <2>1 DEF Inv, GFP, PolyInv, Polynomials
    <2>3. /\ m \in Nat /\ t \in Nat \ {0} /\ tReq \in Nat /\ deg \in Nat /\ deg >= 1
      BY <2>1, <2>2 DEF SizesOK, DegreeOK, Prime
    <2> DEFINE c == x \div t
               v == x % t
               d == deg - 1
               G(q) == Horner(Coefficients(t, d, q), c)[d] * c
               off == [q \in Nat |-> (v - G(q)) % t]
               A == {j \in 1 .. m : x \in Row(j)}
    <2>4. x \in Nat /\ c \in Nat /\ v \in 0 .. t - 1 /\ x = t * c + v
      <3>1. x \in Nat
        <4>1. t * tReq \in Nat
          BY <2>3
        <4>2. QED
          BY <4>1
      <3>2. QED
        BY <2>3, <3>1, Divides
    <2>5. c \in 0 .. tReq - 1
      <3>1. SUFFICES ASSUME c >= tReq PROVE FALSE
        BY <2>3, <2>4
      <3> HIDE DEF c
      <3>2. t * c >= t * tReq
        BY <2>3, <2>4, <3>1
      <3>3. t * c \in Nat /\ t * tReq \in Nat
        BY <2>3, <2>4
      <3>4. QED
        BY <2>3, <2>4, <3>2, <3>3
    <2>6. d \in Nat /\ d + 1 = deg
      BY <2>3
    <2> HIDE DEF c, v, d
    <2>7. ASSUME NEW q \in Nat PROVE G(q) \in Int
      <3>1. Coefficients(t, d, q) \in [Nat -> Int]
        BY <2>3, <2>6, CoefficientsType
      <3>2. c \in Int
        BY <2>4
      <3>3. Horner(Coefficients(t, d, q), c) \in [Nat -> Int]
        BY <3>1, <3>2, HornerSteps
      <3>4. Horner(Coefficients(t, d, q), c)[d] \in Int
        BY <2>6, <3>3
      <3>5. QED
        BY <3>2, <3>4
    <2>8. ASSUME NEW q \in Nat, NEW r \in 0 .. t - 1
          PROVE  (v - G(q)) % t \in 0 .. t - 1 /\ ((G(q) + r) % t = v <=> r = (v - G(q)) % t)
      <3> DEFINE g == G(q)
      <3>1. t \in Nat \ {0} /\ g \in Int /\ v \in 0 .. t - 1 /\ r \in 0 .. t - 1
        BY <2>3, <2>4, <2>7, <2>8
      <3> HIDE DEF g
      <3>2. Rests(t, g, v, r)
        BY <3>1, OneRest
      <3>3. QED
        BY <3>2 DEF g, Rests
    <2>9. off \in [Nat -> 0 .. t - 1] /\ \A q \in Nat : off[q] = (v - G(q)) % t
      <3>1. \A q \in Nat : (v - G(q)) % t \in 0 .. t - 1
        <4>1. 0 \in 0 .. t - 1
          BY <2>3
        <4> HIDE DEF G
        <4>2. QED
          BY <2>8, <4>1
      <3> HIDE DEF G
      <3>2. QED
        BY <3>1
    <2> HIDE DEF off
    <2>10. ASSUME NEW j \in 1 .. m PROVE j \in A <=> (j - 1) % t = off[(j - 1) \div t]
      <3> DEFINE l == j - 1
                 q == l \div t
                 r == l % t
      <3>1. l \in Nat
        BY <2>3
      <3> HIDE DEF l
      <3>2. q \in Nat /\ r \in 0 .. t - 1
        BY <2>3, <3>1, Divides
      <3>3. x \in Row(j) <=> Value(t, deg, l, c) = v
        <4> DEFINE w == Value(t, deg, l, c)
        <4>1. x \in Row(j) => x = t * c + w
          BY <2>1, RowMembers DEF l, c
        <4>2. x = t * c + w => x \in Row(j)
          BY <2>1, <2>5, RowMembers DEF l
        <4>3. w \in 0 .. t - 1
          <5>1. c \in Int
            BY <2>4
          <5>2. QED
            BY <2>3, <3>1, <5>1, ValueType
        <4> HIDE DEF w
        <4>4. x = t * c + w <=> w = v
          <5>1. t * c \in Nat
            BY <2>3, <2>4
          <5>2. QED
            BY <2>3, <2>4, <4>3, <5>1
        <4>5. QED
          BY <4>1, <4>2, <4>4 DEF w
      <3>4. Value(t, deg, l, c) = (G(q) + r) % t
        <4>1. c \in Int
          BY <2>4
        <4>2. Value(t, d + 1, l, c) = (Horner(Coefficients(t, d, l \div t), c)[d] * c + (l % t)) % t
          BY <2>3, <2>6, <3>1, <4>1, LowestDigit
        <4>3. QED
          BY <2>6, <4>2
      <3> HIDE DEF q, r, G
      <3>5. (G(q) + r) % t = v <=> r = off[q]
        BY <2>8, <2>9, <3>2
      <3>6. QED
        BY <3>3, <3>4, <3>5 DEF q, r, l
    <2>11. A \in SUBSET (1 .. m)
      OBVIOUS
    <2> HIDE DEF A
    <2>12. Cardinality(A) \in {m \div t, (m + t - 1) \div t}
      BY <2>3, <2>9, <2>10, <2>11, OnePerBlock
    <2>13. QED
      BY <2>12 DEF Uses, A
  <1>2. QED
    BY <1>1, Invariance, RowsArePolynomials, PTL
-----------------------------------------------------------------------------
(* Bits: a number is the sum of its bits times powers of two, and gf2n_add adds bit by bit. *)

\* The powers of two.
LEMMA PowersOfTwo ==
  /\ Power(2)[0] = 1
  /\ \A n \in Nat : Power(2)[n] \in Nat \ {0} /\ Power(2)[n + 1] = 2 * Power(2)[n]
  <1>1. PowersOf(2)
    BY PowerSteps
  <1>2. \A n \in Nat : Power(2)[n] >= n + 1
    BY PowersGrow
  <1>3. QED
    BY <1>1, <1>2 DEF PowersOf

\* Powers of two grow with their exponent.
LEMMA PowerMonotone ==
  ASSUME NEW n \in Nat, NEW l \in Nat, n <= l
  PROVE  Power(2)[n] <= Power(2)[l]
  <1> DEFINE P == Power(2)
             max == l - n
             Q == {x \in 0 .. max : P[n] <= P[n + x]}
  <1>1. \A x \in Nat : P[x] \in Nat \ {0} /\ P[x + 1] = 2 * P[x]
    BY PowersOfTwo
  <1>2. max \in Nat /\ n + max = l
    OBVIOUS
  <1> HIDE DEF P, max
  <1>3. 0 \in Q
    <2>1. n + 0 = n /\ 0 \in 0 .. max /\ P[n] \in Nat
      BY <1>1, <1>2
    <2>2. QED
      BY <2>1
  <1>4. ASSUME NEW x \in 0 .. max - 1, x \in Q PROVE x + 1 \in Q
    <2>1. x \in Nat /\ x + 1 \in 0 .. max /\ n + x \in Nat /\ (n + x) + 1 = n + (x + 1)
      BY <1>2, <1>4
    <2>2. P[n + x] \in Nat /\ P[n + (x + 1)] = 2 * P[n + x] /\ P[n] \in Nat /\ P[n] <= P[n + x]
      BY <1>1, <1>4, <2>1
    <2>3. P[n] <= P[n + (x + 1)]
      BY <2>2
    <2>4. QED
      BY <2>1, <2>3
  <1> HIDE DEF Q
  <1>5. 0 .. max \subseteq Q
    BY <1>2, <1>3, <1>4, Induct
  <1>6. max \in Q
    BY <1>2, <1>5
  <1>7. QED
    BY <1>2, <1>6 DEF Q, P

\* A bit is 0 or 1.
LEMMA BitType ==
  ASSUME NEW x \in Nat, NEW j \in Nat
  PROVE  Bit(x, j) \in 0 .. 1
  <1>1. Power(2)[j] \in Nat \ {0}
    BY PowersOfTwo
  <1>2. x \div Power(2)[j] \in Nat
    BY <1>1, Divides
  <1>3. QED
    BY <1>2 DEF Bit

\* f[n] adds up the first n bits d.
Sums(f, d) ==
  /\ f[0] = 0
  /\ \A n \in Nat : f[n] \in Nat /\ d[n] \in 0 .. 1 /\ f[n + 1] = f[n] + Power(2)[n] * d[n]

\* Such a sum is below the next power of two.
LEMMA SumBelow ==
  ASSUME NEW f, NEW d, Sums(f, d), NEW max \in Nat
  PROVE  f[max] < Power(2)[max]
  <1> DEFINE P == Power(2)
             Q == {n \in 0 .. max : f[n] < P[n]}
  <1>1. P[0] = 1 /\ \A n \in Nat : P[n] \in Nat \ {0} /\ P[n + 1] = 2 * P[n]
    BY PowersOfTwo
  <1>2. f[0] = 0 /\ \A n \in Nat : f[n] \in Nat /\ d[n] \in 0 .. 1 /\ f[n + 1] = f[n] + P[n] * d[n]
    BY DEF Sums
  <1> HIDE DEF P
  <1>3. 0 \in Q
    BY <1>1, <1>2
  <1>4. ASSUME NEW n \in 0 .. max - 1, n \in Q PROVE n + 1 \in Q
    <2> DEFINE p == P[n]
               y == f[n]
               e == d[n]
    <2>1. n \in Nat /\ n + 1 \in 0 .. max /\ p \in Nat /\ y \in Nat /\ e \in 0 .. 1 /\ y < p
      BY <1>1, <1>2, <1>4
    <2>2. f[n + 1] = y + p * e /\ P[n + 1] = 2 * p
      BY <1>1, <1>2, <2>1
    <2> HIDE DEF p, y, e
    <2>3. y + p * e < 2 * p
      BY <2>1
    <2>4. QED
      BY <2>1, <2>2, <2>3
  <1> HIDE DEF Q
  <1>5. 0 .. max \subseteq Q
    BY <1>3, <1>4, Induct
  <1>6. max \in Q
    BY <1>5
  <1>7. QED
    BY <1>6 DEF Q, P

\* The bits of a sum are those added up.
LEMMA BitOfSum ==
  ASSUME NEW f, NEW d, Sums(f, d), NEW j \in Nat, NEW w \in Nat, j < w
  PROVE  Bit(f[w], j) = d[j]
  <1> DEFINE P == Power(2)
             p == P[j]
             y == f[j]
             e == d[j]
             max == w - (j + 1)
             Q == {n \in 0 .. max : \E q \in Nat : f[(j + 1) + n] = p * (2 * q + e) + y /\ \E r \in Nat : P[(j + 1) + n] = p * (2 * r)}
  <1>1. \A n \in Nat : P[n] \in Nat \ {0} /\ P[n + 1] = 2 * P[n]
    BY PowersOfTwo
  <1>2. \A n \in Nat : f[n] \in Nat /\ d[n] \in 0 .. 1 /\ f[n + 1] = f[n] + P[n] * d[n]
    BY DEF Sums
  <1>3. y < p
    BY SumBelow
  <1>4. p \in Nat \ {0} /\ y \in Nat /\ e \in 0 .. 1
    BY <1>1, <1>2
  <1>5. max \in Nat /\ (j + 1) + max = w /\ j + 1 \in Nat
    OBVIOUS
  <1>6. f[j + 1] = y + p * e /\ P[j + 1] = 2 * p
    BY <1>1, <1>2
  <1> HIDE DEF P, p, y, e, max
  <1>7. 0 \in Q
    <2>1. (j + 1) + 0 = j + 1 /\ 0 \in 0 .. max
      BY <1>5
    <2>2. y + p * e = p * (2 * 0 + e) + y /\ 2 * p = p * (2 * 1)
      BY <1>4
    <2>3. QED
      BY <1>6, <2>1, <2>2
  <1>8. ASSUME NEW n \in 0 .. max - 1, n \in Q PROVE n + 1 \in Q
    <2> DEFINE l == (j + 1) + n
    <2>1. n \in Nat /\ n + 1 \in 0 .. max /\ l \in Nat /\ (j + 1) + (n + 1) = l + 1
      BY <1>5, <1>8
    <2>2. PICK q \in Nat, r \in Nat : f[l] = p * (2 * q + e) + y /\ P[l] = p * (2 * r)
      BY <1>8
    <2>3. f[l + 1] = f[l] + P[l] * d[l] /\ P[l + 1] = 2 * P[l] /\ d[l] \in 0 .. 1
      BY <1>1, <1>2, <2>1
    <2> DEFINE c == d[l]
    <2> HIDE DEF l, c
    <2>4. (p * (2 * q + e) + y) + (p * (2 * r)) * c = p * (2 * (q + r * c) + e) + y
      <3>1. c \in 0 .. 1
        BY <2>3 DEF c
      <3>2. c = 0 \/ c = 1
        BY <3>1
      <3>3. CASE c = 0
        BY <1>4, <3>3
      <3>4. CASE c = 1
        BY <1>4, <3>4
      <3>5. QED
        BY <3>2, <3>3, <3>4
    <2>5. 2 * (p * (2 * r)) = p * (2 * (2 * r)) /\ 2 * r \in Nat
      BY <1>4
    <2>6. q + r * c \in Nat
      <3>1. c \in 0 .. 1
        BY <2>3 DEF c
      <3>2. QED
        BY <3>1
    <2>7. f[l + 1] = p * (2 * (q + r * c) + e) + y /\ P[l + 1] = p * (2 * (2 * r))
      BY <2>2, <2>3, <2>4, <2>5 DEF c
    <2>8. QED
      BY <2>1, <2>5, <2>6, <2>7
  <1> HIDE DEF Q
  <1>9. 0 .. max \subseteq Q
    BY <1>5, <1>7, <1>8, Induct
  <1>10. max \in Q
    BY <1>5, <1>9
  <1>11. PICK q \in Nat : f[w] = p * (2 * q + e) + y
    BY <1>5, <1>10 DEF Q
  <1>12. f[w] \div p = 2 * q + e
    <2>1. 2 * q + e \in Nat /\ y \in 0 .. p - 1
      BY <1>3, <1>4
    <2> DEFINE z == 2 * q + e
    <2> HIDE DEF z
    <2>2. (p * z + y) \div p = z
      BY <1>4, <2>1, QuotientUnique DEF z
    <2>3. QED
      BY <1>11, <2>2 DEF z
  <1>13. (2 * q + e) % 2 = e
    <2>1. e = 0 \/ e = 1
      BY <1>4
    <2>2. QED
      BY <2>1
  <1>14. QED
    BY <1>12, <1>13 DEF Bit, P, p, e

\* Equal bits have equal sums.
LEMMA SumsEqual ==
  ASSUME NEW f, NEW d, Sums(f, d), NEW g, NEW e, Sums(g, e), NEW max \in Nat,
         \A n \in Nat : n < max => d[n] = e[n]
  PROVE  f[max] = g[max]
  <1> DEFINE Q == {n \in 0 .. max : f[n] = g[n]}
  <1>1. f[0] = 0 /\ g[0] = 0
    BY DEF Sums
  <1>2. \A n \in Nat : f[n + 1] = f[n] + Power(2)[n] * d[n] /\ g[n + 1] = g[n] + Power(2)[n] * e[n]
    BY DEF Sums
  <1>3. 0 \in Q
    BY <1>1
  <1>4. ASSUME NEW n \in 0 .. max - 1, n \in Q PROVE n + 1 \in Q
    <2>1. n \in Nat /\ n < max /\ n + 1 \in 0 .. max /\ f[n] = g[n]
      BY <1>4
    <2>2. d[n] = e[n]
      BY <2>1
    <2>3. f[n + 1] = g[n + 1]
      BY <1>2, <2>1, <2>2
    <2>4. QED
      BY <2>1, <2>3
  <1> HIDE DEF Q
  <1>5. 0 .. max \subseteq Q
    BY <1>3, <1>4, Induct
  <1>6. max \in Q
    BY <1>5
  <1>7. QED
    BY <1>6 DEF Q

\* The rests of x by the powers of two add up the bits of x.
LEMMA RestsAreSums ==
  ASSUME NEW x \in Nat
  PROVE  Sums([n \in Nat |-> x % Power(2)[n]], [n \in Nat |-> Bit(x, n)])
  <1> DEFINE P == Power(2)
             f == [n \in Nat |-> x % P[n]]
             d == [n \in Nat |-> Bit(x, n)]
  <1>1. P[0] = 1 /\ \A n \in Nat : P[n] \in Nat \ {0} /\ P[n + 1] = 2 * P[n]
    BY PowersOfTwo
  <1>2. \A n \in Nat : Bit(x, n) = (x \div P[n]) % 2
    BY DEF Bit
  <1> HIDE DEF P
  <1>3. f[0] = 0
    <2>1. x % 1 = 0
      OBVIOUS
    <2>2. QED
      BY <1>1, <2>1
  <1>4. ASSUME NEW n \in Nat PROVE f[n] \in Nat /\ d[n] \in 0 .. 1 /\ f[n + 1] = f[n] + P[n] * d[n]
    <2> DEFINE p == P[n]
               q == x \div p
               y == x % p
               r == q \div 2
               e == q % 2
    <2>1. p \in Nat \ {0} /\ P[n + 1] = 2 * p
      BY <1>1
    <2>2. q \in Nat /\ y \in 0 .. p - 1 /\ x = p * q + y
      BY <2>1, Divides
    <2>3. Bit(x, n) = e /\ f[n] = y /\ d[n] = e
      BY <1>2
    <2> HIDE DEF p, q, y
    <2>4. r \in Nat /\ e \in 0 .. 1 /\ q = 2 * r + e
      BY <2>2, Divides
    <2> HIDE DEF r, e
    <2>5. x = (2 * p) * r + (p * e + y) /\ p * e + y \in 0 .. (2 * p) - 1
      <3>1. e = 0 \/ e = 1
        BY <2>4
      <3>2. CASE e = 0
        <4>1. p * q = (2 * p) * r /\ p * e = 0
          BY <2>1, <2>4, <3>2
        <4>2. QED
          BY <2>1, <2>2, <4>1
      <3>3. CASE e = 1
        <4>1. p * q = (2 * p) * r + p /\ p * e = p
          BY <2>1, <2>4, <3>3
        <4>2. (2 * p) * r \in Nat
          BY <2>1, <2>4
        <4>3. QED
          BY <2>1, <2>2, <4>1, <4>2
      <3>4. QED
        BY <3>1, <3>2, <3>3
    <2>6. x % (2 * p) = p * e + y
      <3> DEFINE u == p * e + y
                 v == 2 * p
      <3>1. v \in Nat \ {0} /\ u \in 0 .. v - 1 /\ x = v * r + u
        BY <2>1, <2>5
      <3> HIDE DEF u, v
      <3>2. x % v = u
        BY <2>4, <3>1, QuotientUnique
      <3>3. QED
        BY <3>2 DEF u, v
    <2>7. f[n + 1] = x % (2 * p)
      BY <2>1
    <2>8. p * e \in Nat
      BY <2>1, <2>4
    <2>9. f[n + 1] = y + p * e
      BY <2>2, <2>6, <2>7, <2>8
    <2>10. QED
      BY <2>2, <2>3, <2>4, <2>9 DEF p
  <1>5. QED
    BY <1>3, <1>4 DEF Sums, P

\* A number is below some power of two.
LEMMA BelowPower ==
  ASSUME NEW x \in Nat
  PROVE  x < Power(2)[x]
  <1>1. Power(2)[x] >= x + 1 /\ Power(2)[x] \in Nat
    BY PowersGrow, PowersOfTwo
  <1>2. QED
    BY <1>1

\* What is below p is its own rest by p.
LEMMA OwnRest ==
  ASSUME NEW p \in Nat \ {0}, NEW x \in 0 .. p - 1
  PROVE  x % p = x /\ x \div p = 0
  <1>1. p * 0 + x = x
    OBVIOUS
  <1>2. QED
    BY <1>1, QuotientUnique

\* Numbers below a power of two are the same if their bits are.
LEMMA SameBitsBelow ==
  ASSUME NEW x \in Nat, NEW y \in Nat, NEW w \in Nat, x < Power(2)[w], y < Power(2)[w],
         \A n \in Nat : n < w => Bit(x, n) = Bit(y, n)
  PROVE  x = y
  <1> DEFINE p == Power(2)[w]
             f == [n \in Nat |-> x % Power(2)[n]]
             d == [n \in Nat |-> Bit(x, n)]
             g == [n \in Nat |-> y % Power(2)[n]]
             e == [n \in Nat |-> Bit(y, n)]
  <1>1. Sums(f, d)
    BY RestsAreSums
  <1>2. Sums(g, e)
    BY RestsAreSums
  <1>3. \A n \in Nat : n < w => d[n] = e[n]
    OBVIOUS
  <1>4. f[w] = x % p /\ g[w] = y % p
    OBVIOUS
  <1>5. p \in Nat \ {0} /\ x \in 0 .. p - 1 /\ y \in 0 .. p - 1
    BY PowersOfTwo
  <1> HIDE DEF f, d, g, e, p
  <1>6. f[w] = g[w]
    BY <1>1, <1>2, <1>3, SumsEqual
  <1>7. x % p = x
    BY <1>5, OwnRest
  <1>8. y % p = y
    BY <1>5, OwnRest
  <1>9. QED
    BY <1>4, <1>6, <1>7, <1>8

\* Numbers are the same if their bits are.
LEMMA SameBits ==
  ASSUME NEW x \in Nat, NEW y \in Nat, \A n \in Nat : Bit(x, n) = Bit(y, n)
  PROVE  x = y
  <1> DEFINE w == x + y
             p == Power(2)[w]
  <1>1. w \in Nat
    OBVIOUS
  <1>2. w < p /\ p \in Nat
    BY <1>1, BelowPower, PowersOfTwo
  <1> HIDE DEF p
  <1>3. x < p /\ y < p
    BY <1>2
  <1>4. QED
    BY <1>1, <1>3, SameBitsBelow DEF p

\* No bit of x is set from n on if x is below 2 to the n.
LEMMA BitsAbove ==
  ASSUME NEW x \in Nat, NEW n \in Nat, x < Power(2)[n], NEW j \in Nat, n <= j
  PROVE  Bit(x, j) = 0
  <1> DEFINE p == Power(2)[j]
  <1>1. Power(2)[n] <= p /\ Power(2)[n] \in Nat /\ p \in Nat \ {0}
    BY PowerMonotone, PowersOfTwo
  <1>2. x \in 0 .. p - 1
    BY <1>1
  <1>3. x \div p = 0
    <2> HIDE DEF p
    <2>1. QED
      BY <1>1, <1>2, OwnRest
  <1>4. 0 % 2 = 0
    OBVIOUS
  <1>5. QED
    BY <1>3, <1>4 DEF Bit

\* And x is below 2 to the n if none is.
LEMMA BelowByBits ==
  ASSUME NEW x \in Nat, NEW n \in Nat, \A j \in Nat : n <= j => Bit(x, j) = 0
  PROVE  x < Power(2)[n]
  <1> DEFINE f == [l \in Nat |-> x % Power(2)[l]]
             d == [l \in Nat |-> Bit(x, l)]
             y == f[n]
  <1>1. Sums(f, d)
    BY RestsAreSums
  <1>2. y < Power(2)[n] /\ y \in Nat
    <2> HIDE DEF f, d
    <2>1. QED
      BY <1>1, SumBelow DEF Sums
  <1>3. ASSUME NEW j \in Nat PROVE Bit(x, j) = Bit(y, j)
    <2>1. CASE j < n
      <3>1. d[j] = Bit(x, j)
        OBVIOUS
      <3> HIDE DEF f, d
      <3>2. Bit(f[n], j) = d[j]
        BY <1>1, <2>1, BitOfSum
      <3>3. QED
        BY <3>1, <3>2
    <2>2. CASE ~(j < n)
      <3> HIDE DEF y
      <3>1. n <= j
        BY <2>2
      <3>2. Bit(y, j) = 0
        BY <1>2, <3>1, BitsAbove
      <3>3. QED
        BY <3>1, <3>2
    <2>3. QED
      BY <2>1, <2>2
  <1> HIDE DEF y
  <1>4. x = y
    BY <1>2, <1>3, SameBits
  <1>5. QED
    BY <1>2, <1>4

\* What CeilLog2 computes.
LEMMA CeilLog2Is ==
  ASSUME NEW x \in Nat
  PROVE  /\ CeilLog2(x) \in Nat /\ x <= Power(2)[CeilLog2(x)]
         /\ CeilLog2(x) > 0 => Power(2)[CeilLog2(x) - 1] < x
  <1> DEFINE P == Power(2)
             T == {n \in Nat : n <= x /\ P[n] >= x}
             Fits(n) == P[n] >= x /\ (n > 0 => P[n - 1] < x)
  <1>1. \A n \in Nat : P[n] \in Nat
    BY PowersOfTwo
  <1>2. x \in T
    BY BelowPower, <1>1
  <1>3. PICK n \in T : \A y \in T : n <= y
    <2>1. T \in SUBSET Nat
      OBVIOUS
    <2> HIDE DEF T
    <2>2. QED
      BY <1>2, <2>1, LeastElement
  <1> HIDE DEF P
  <1>4. n \in 0 .. x /\ Fits(n)
    <2>1. n \in 0 .. x /\ P[n] >= x
      BY <1>3
    <2>2. ASSUME n > 0 PROVE P[n - 1] < x
      <3>1. n - 1 \in Nat /\ n - 1 <= x /\ ~(n <= n - 1)
        BY <2>1, <2>2
      <3>2. n - 1 \notin T
        BY <1>3, <3>1
      <3>3. ~(P[n - 1] >= x) /\ P[n - 1] \in Nat
        BY <1>1, <3>1, <3>2
      <3>4. QED
        BY <3>3
    <2>3. QED
      BY <2>1, <2>2
  <1> DEFINE h == CHOOSE z \in 0 .. x : Fits(z)
  <1>5. h \in 0 .. x /\ Fits(h)
    <2> HIDE DEF Fits
    <2>1. QED
      BY <1>4
  <1>6. CeilLog2(x) = h
    BY DEF CeilLog2, P
  <1> HIDE DEF h
  <1>7. h \in Nat /\ x <= P[h] /\ (h > 0 => P[h - 1] < x)
    BY <1>1, <1>5
  <1>8. QED
    BY <1>6, <1>7 DEF P

\* A power of two has its exponent for logarithm.
LEMMA LogOfPower ==
  ASSUME NEW n \in Nat
  PROVE  CeilLog2(Power(2)[n]) = n
  <1> DEFINE p == Power(2)[n]
             c == CeilLog2(p)
  <1>1. p \in Nat
    BY PowersOfTwo
  <1>2. c \in Nat /\ p <= Power(2)[c] /\ (c > 0 => Power(2)[c - 1] < p)
    <2> HIDE DEF p
    <2>1. QED
      BY <1>1, CeilLog2Is
  <1>3. ASSUME c < n PROVE FALSE
    <2>1. c + 1 \in Nat /\ c + 1 <= n
      BY <1>2, <1>3
    <2>2. Power(2)[c + 1] <= p
      <3> HIDE DEF c
      <3>1. QED
        BY <2>1, PowerMonotone
    <2>3. Power(2)[c + 1] = 2 * Power(2)[c] /\ Power(2)[c] \in Nat \ {0}
      BY <1>2, PowersOfTwo
    <2> HIDE DEF c, p
    <2>4. QED
      BY <1>1, <1>2, <2>2, <2>3
  <1>4. ASSUME c > n PROVE FALSE
    <2>1. c - 1 \in Nat /\ n <= c - 1
      BY <1>2, <1>4
    <2>2. p <= Power(2)[c - 1] /\ Power(2)[c - 1] \in Nat
      <3> HIDE DEF c
      <3>1. QED
        BY <2>1, PowerMonotone, PowersOfTwo
    <2> HIDE DEF c, p
    <2>3. QED
      BY <1>1, <1>2, <1>4, <2>2
  <1>5. c = n
    <2> HIDE DEF c
    <2> QED BY <1>2, <1>3, <1>4
  <1>6. QED
    BY <1>5

\* XorBits adds up the bits that differ.
LEMMA XorSums ==
  ASSUME NEW x \in Nat, NEW y \in Nat
  PROVE  Sums(XorBits(x, y), [n \in Nat |-> (Bit(x, n) + Bit(y, n)) % 2])
  <1> DEFINE d == [n \in Nat |-> (Bit(x, n) + Bit(y, n)) % 2]
             P == Power(2)
             Is(f) == f = [n \in Nat |-> IF n = 0 THEN 0
                            ELSE f[n - 1] + P[n - 1] * ((Bit(x, n - 1) + Bit(y, n - 1)) % 2)]
             f == XorBits(x, y)
  <1>1. \A n \in Nat : P[n] \in Nat
    BY PowersOfTwo
  <1>2. \A n \in Nat : d[n] = (Bit(x, n) + Bit(y, n)) % 2 /\ d[n] \in 0 .. 1
    <2>1. ASSUME NEW n \in Nat PROVE (Bit(x, n) + Bit(y, n)) % 2 \in 0 .. 1
      <3>1. Bit(x, n) \in 0 .. 1 /\ Bit(y, n) \in 0 .. 1
        BY BitType
      <3>2. QED
        BY <3>1
    <2>2. QED
      BY <2>1
  <1>3. f = CHOOSE g : Is(g)
    BY DEF XorBits
  <1> HIDE DEF P, f
  <1> DEFINE next == [n \in Nat |-> [z \in Nat |-> IF n = 0 THEN 0 ELSE z + P[n - 1] * d[n - 1]]]
  <1>4. \A n \in Nat, z \in Nat : next[n + 1][z] = z + P[n] * d[n]
    <2>1. ASSUME NEW n \in Nat, NEW z \in Nat PROVE next[n + 1][z] = z + P[n] * d[n]
      <3>1. n + 1 \in Nat /\ n + 1 # 0 /\ (n + 1) - 1 = n
        OBVIOUS
      <3> HIDE DEF d
      <3>2. QED
        BY <3>1
    <2>2. QED
      BY <2>1
  <1>5. \A n \in Nat, z \in Nat : next[n][z] \in Nat
    <2>1. ASSUME NEW n \in Nat, NEW z \in Nat PROVE next[n][z] \in Nat
      <3>1. CASE n = 0
        BY <3>1
      <3>2. CASE n # 0
        <4>1. n - 1 \in Nat
          BY <3>2
        <4>2. P[n - 1] \in Nat /\ d[n - 1] \in 0 .. 1
          BY <1>1, <1>2, <4>1
        <4> HIDE DEF d
        <4>3. P[n - 1] * d[n - 1] \in Nat
          BY <4>2
        <4>4. next[n][z] = z + P[n - 1] * d[n - 1]
          BY <3>2
        <4>5. QED
          BY <4>3, <4>4
      <3>3. QED
        BY <3>1, <3>2
    <2>2. QED
      BY <2>1
  <1> HIDE DEF next
  <1>6. PICK F : Iterates(F, Nat, 0, next)
    BY <1>5, Recursion
  <1>7. F \in [Nat -> Nat] /\ F[0] = 0 /\ \A n \in Nat : F[n + 1] = F[n] + P[n] * d[n]
    <2>1. F \in [Nat -> Nat] /\ F[0] = 0 /\ \A n \in Nat : F[n + 1] = next[n + 1][F[n]]
      BY <1>6 DEF Iterates
    <2> HIDE DEF d
    <2>2. QED
      BY <1>4, <2>1
  <1>8. Is(F)
    <2>1. F = [n \in Nat |-> F[n]]
      BY <1>7
    <2>2. ASSUME NEW n \in Nat
          PROVE  F[n] = IF n = 0 THEN 0 ELSE F[n - 1] + P[n - 1] * ((Bit(x, n - 1) + Bit(y, n - 1)) % 2)
      <3>1. CASE n = 0
        BY <1>7, <3>1
      <3>2. CASE n # 0
        <4>1. n - 1 \in Nat /\ (n - 1) + 1 = n
          BY <3>2
        <4>2. d[n - 1] = (Bit(x, n - 1) + Bit(y, n - 1)) % 2
          BY <1>2, <4>1
        <4> HIDE DEF d
        <4>3. F[n] = F[n - 1] + P[n - 1] * d[n - 1]
          BY <1>7, <4>1
        <4>4. QED
          BY <3>2, <4>2, <4>3
      <3>3. QED
        BY <3>1, <3>2
    <2>3. QED
      BY <2>1, <2>2
  <1>9. Is(f)
    <2> HIDE DEF Is
    <2>1. QED
      BY <1>3, <1>8
  <1>10. f[0] = 0
    BY <1>9
  <1>11. ASSUME NEW n \in Nat PROVE f[n + 1] = f[n] + P[n] * d[n]
    <2>1. n + 1 \in Nat /\ n + 1 # 0 /\ (n + 1) - 1 = n
      OBVIOUS
    <2>2. d[n] = (Bit(x, n) + Bit(y, n)) % 2
      OBVIOUS
    <2>3. f[n + 1] = f[n] + P[n] * ((Bit(x, n) + Bit(y, n)) % 2)
      BY <1>9, <2>1
    <2>4. QED
      BY <2>2, <2>3
  <1> HIDE DEF d
  <1>12. ASSUME NEW max \in Nat PROVE f[max] \in Nat
    <2> DEFINE Q == {n \in 0 .. max : f[n] \in Nat}
    <2>1. 0 \in Q
      BY <1>10
    <2>2. ASSUME NEW n \in 0 .. max - 1, n \in Q PROVE n + 1 \in Q
      <3>1. n \in Nat /\ n + 1 \in 0 .. max /\ f[n] \in Nat
        BY <2>2
      <3>2. P[n] \in Nat /\ d[n] \in 0 .. 1
        BY <1>1, <1>2, <3>1
      <3>3. P[n] * d[n] \in Nat
        BY <3>2
      <3>4. f[n + 1] \in Nat
        BY <1>11, <3>1, <3>3
      <3>5. QED
        BY <3>1, <3>4
    <2> HIDE DEF Q
    <2>3. 0 .. max \subseteq Q
      BY <2>1, <2>2, Induct
    <2>4. max \in Q
      BY <2>3
    <2>5. QED
      BY <2>4 DEF Q
  <1>13. QED
    BY <1>2, <1>10, <1>11, <1>12 DEF Sums, P, f, d

\* The bits of Xor(x, y) are those in which x and y differ.
LEMMA XorBit ==
  ASSUME NEW x \in Nat, NEW y \in Nat
  PROVE  Xor(x, y) \in Nat /\ \A j \in Nat : Bit(Xor(x, y), j) = (Bit(x, j) + Bit(y, j)) % 2
  <1> DEFINE f == XorBits(x, y)
             d == [n \in Nat |-> (Bit(x, n) + Bit(y, n)) % 2]
             w == CeilLog2(x + y + 1)
             p == Power(2)[w]
             z == f[w]
  <1>1. Sums(f, d) /\ Xor(x, y) = z
    BY XorSums DEF Xor
  <1>2. w \in Nat /\ x < p /\ y < p
    <2>1. x + y + 1 \in Nat
      OBVIOUS
    <2>2. w \in Nat /\ x + y + 1 <= p
      BY <2>1, CeilLog2Is
    <2>3. p \in Nat
      BY <2>2, PowersOfTwo
    <2> HIDE DEF w, p
    <2>4. QED
      BY <2>2, <2>3
  <1>3. \A j \in Nat : d[j] = (Bit(x, j) + Bit(y, j)) % 2
    OBVIOUS
  <1> HIDE DEF f, d, w
  <1>4. z \in Nat /\ z < p
    BY <1>1, <1>2, SumBelow DEF Sums
  <1>5. ASSUME NEW j \in Nat PROVE Bit(z, j) = (Bit(x, j) + Bit(y, j)) % 2
    <2>1. CASE j < w
      <3>1. Bit(f[w], j) = d[j]
        BY <1>1, <1>2, <2>1, BitOfSum
      <3>2. QED
        BY <1>3, <3>1
    <2>2. CASE ~(j < w)
      <3>1. w <= j
        BY <1>2, <2>2
      <3>2. Bit(x, j) = 0
        BY <1>2, <3>1, BitsAbove
      <3>3. Bit(y, j) = 0
        BY <1>2, <3>1, BitsAbove
      <3> HIDE DEF z, p
      <3>4. Bit(z, j) = 0
        BY <1>2, <1>4, <3>1, BitsAbove DEF p
      <3>5. (0 + 0) % 2 = 0
        OBVIOUS
      <3>6. QED
        BY <3>2, <3>3, <3>4, <3>5
    <2>3. QED
      BY <2>1, <2>2
  <1>6. QED
    BY <1>1, <1>4, <1>5

\* Field elements of n bits.
Elements(n) == 0 .. Power(2)[n] - 1

\* Elements of n bits have no bit from n on.
LEMMA ElementBits ==
  ASSUME NEW n \in Nat, NEW x
  PROVE  x \in Elements(n) <=> x \in Nat /\ \A j \in Nat : n <= j => Bit(x, j) = 0
  <1>1. Power(2)[n] \in Nat \ {0}
    BY PowersOfTwo
  <1>2. ASSUME x \in Elements(n) PROVE x \in Nat /\ \A j \in Nat : n <= j => Bit(x, j) = 0
    <2>1. x \in Nat /\ x < Power(2)[n]
      BY <1>1, <1>2 DEF Elements
    <2>2. QED
      BY <2>1, BitsAbove
  <1>3. ASSUME x \in Nat, \A j \in Nat : n <= j => Bit(x, j) = 0 PROVE x \in Elements(n)
    <2>1. x < Power(2)[n]
      BY <1>3, BelowByBits
    <2>2. QED
      BY <1>1, <1>3, <2>1 DEF Elements
  <1>4. QED
    BY <1>2, <1>3

\* The sum of field elements is one.
LEMMA XorElement ==
  ASSUME NEW n \in Nat, NEW x \in Elements(n), NEW y \in Elements(n)
  PROVE  Xor(x, y) \in Elements(n)
  <1> DEFINE z == Xor(x, y)
  <1>1. x \in Nat /\ \A j \in Nat : n <= j => Bit(x, j) = 0
    BY ElementBits
  <1>2. y \in Nat /\ \A j \in Nat : n <= j => Bit(y, j) = 0
    BY ElementBits
  <1>3. z \in Nat /\ \A j \in Nat : Bit(z, j) = (Bit(x, j) + Bit(y, j)) % 2
    BY <1>1, <1>2, XorBit
  <1>4. (0 + 0) % 2 = 0
    OBVIOUS
  <1> HIDE DEF z
  <1>5. \A j \in Nat : n <= j => Bit(z, j) = 0
    BY <1>1, <1>2, <1>3, <1>4
  <1>6. z \in Elements(n)
    BY <1>3, <1>5, ElementBits
  <1>7. QED
    BY <1>6 DEF z

\* 0 has no bits.
LEMMA BitsOfZero ==
  ASSUME NEW j \in Nat
  PROVE  Bit(0, j) = 0
  <1>1. 0 < Power(2)[0] /\ 0 <= j
    BY PowersOfTwo
  <1>2. QED
    BY <1>1, BitsAbove

\* Sums do not depend on the order.
LEMMA XorCommutes ==
  ASSUME NEW x \in Nat, NEW y \in Nat
  PROVE  Xor(x, y) = Xor(y, x)
  <1>1. Xor(x, y) \in Nat /\ \A j \in Nat : Bit(Xor(x, y), j) = (Bit(x, j) + Bit(y, j)) % 2
    BY XorBit
  <1>2. Xor(y, x) \in Nat /\ \A j \in Nat : Bit(Xor(y, x), j) = (Bit(y, j) + Bit(x, j)) % 2
    BY XorBit
  <1>3. ASSUME NEW j \in Nat PROVE Bit(Xor(x, y), j) = Bit(Xor(y, x), j)
    <2>1. Bit(x, j) \in Int /\ Bit(y, j) \in Int
      BY BitType
    <2>2. Bit(x, j) + Bit(y, j) = Bit(y, j) + Bit(x, j)
      BY <2>1
    <2>3. QED
      BY <1>1, <1>2, <2>2
  <1>4. QED
    BY <1>1, <1>2, <1>3, SameBits

\* Sums of three do not depend on brackets.
LEMMA XorAssociates ==
  ASSUME NEW x \in Nat, NEW y \in Nat, NEW z \in Nat
  PROVE  Xor(Xor(x, y), z) = Xor(x, Xor(y, z))
  <1> DEFINE u == Xor(x, y)
             v == Xor(y, z)
             l == Xor(u, z)
             r == Xor(x, v)
  <1>1. u \in Nat /\ \A j \in Nat : Bit(u, j) = (Bit(x, j) + Bit(y, j)) % 2
    BY XorBit
  <1>2. v \in Nat /\ \A j \in Nat : Bit(v, j) = (Bit(y, j) + Bit(z, j)) % 2
    BY XorBit
  <1> HIDE DEF u, v
  <1>3. l \in Nat /\ \A j \in Nat : Bit(l, j) = (Bit(u, j) + Bit(z, j)) % 2
    BY <1>1, XorBit
  <1>4. r \in Nat /\ \A j \in Nat : Bit(r, j) = (Bit(x, j) + Bit(v, j)) % 2
    BY <1>2, XorBit
  <1> HIDE DEF l, r
  <1>5. ASSUME NEW j \in Nat PROVE Bit(l, j) = Bit(r, j)
    <2>1. Bit(x, j) \in 0 .. 1 /\ Bit(y, j) \in 0 .. 1 /\ Bit(z, j) \in 0 .. 1
      BY BitType
    <2> DEFINE b == Bit(x, j)
               c == Bit(y, j)
               e == Bit(z, j)
    <2>2. Bit(l, j) = (((b + c) % 2) + e) % 2 /\ Bit(r, j) = (b + ((c + e) % 2)) % 2
      BY <1>1, <1>2, <1>3, <1>4
    <2> HIDE DEF b, c, e
    <2>3. (b = 0 \/ b = 1) /\ (c = 0 \/ c = 1) /\ (e = 0 \/ e = 1)
      BY <2>1 DEF b, c, e
    <2>4. QED
      BY <2>2, <2>3
  <1>6. l = r
    BY <1>3, <1>4, <1>5, SameBits
  <1>7. QED
    BY <1>6 DEF l, r, u, v

\* 0 adds nothing, and an element is its own inverse.
LEMMA XorZero ==
  ASSUME NEW x \in Nat
  PROVE  Xor(x, 0) = x /\ Xor(0, x) = x /\ Xor(x, x) = 0
  <1> DEFINE u == Xor(x, 0)
             v == Xor(x, x)
  <1>1. u \in Nat /\ \A j \in Nat : Bit(u, j) = (Bit(x, j) + Bit(0, j)) % 2
    BY XorBit
  <1>2. v \in Nat /\ \A j \in Nat : Bit(v, j) = (Bit(x, j) + Bit(x, j)) % 2
    BY XorBit
  <1> HIDE DEF u, v
  <1>3. ASSUME NEW j \in Nat PROVE Bit(u, j) = Bit(x, j) /\ Bit(v, j) = Bit(0, j)
    <2>1. Bit(x, j) \in 0 .. 1 /\ Bit(0, j) = 0
      BY BitType, BitsOfZero
    <2> DEFINE b == Bit(x, j)
    <2>2. Bit(u, j) = (b + 0) % 2 /\ Bit(v, j) = (b + b) % 2
      BY <1>1, <1>2, <2>1
    <2>3. b = 0 \/ b = 1
      BY <2>1
    <2> HIDE DEF b
    <2>4. (b + 0) % 2 = b /\ (b + b) % 2 = 0
      BY <2>3
    <2>5. QED
      BY <2>1, <2>2, <2>4 DEF b
  <1>4. u = x
    BY <1>1, <1>3, SameBits
  <1>5. v = 0
    BY <1>2, <1>3, SameBits
  <1>6. Xor(0, x) = Xor(x, 0)
    BY XorCommutes
  <1>7. QED
    BY <1>4, <1>5, <1>6 DEF u, v

\* Only equal elements have sum 0.
LEMMA XorEqual ==
  ASSUME NEW x \in Nat, NEW y \in Nat, Xor(x, y) = 0
  PROVE  x = y
  <1>1. Xor(Xor(x, y), y) = Xor(x, Xor(y, y))
    BY XorAssociates
  <1>2. Xor(y, y) = 0 /\ Xor(0, y) = y
    BY XorZero
  <1>3. Xor(x, 0) = x
    BY XorZero
  <1>4. QED
    BY <1>1, <1>2, <1>3

\* Two sums added term by term.
LEMMA XorRegrouped ==
  ASSUME NEW p \in Nat, NEW q \in Nat, NEW r \in Nat, NEW s \in Nat
  PROVE  Xor(Xor(p, q), Xor(r, s)) = Xor(Xor(p, r), Xor(q, s))
  <1> DEFINE u == Xor(r, s)
             v == Xor(q, s)
  <1>1. u \in Nat /\ v \in Nat
    BY XorBit
  <1>2. Xor(q, u) = Xor(Xor(q, r), s)
    BY XorAssociates
  <1>3. Xor(q, r) = Xor(r, q)
    BY XorCommutes
  <1>4. Xor(Xor(r, q), s) = Xor(r, v)
    BY XorAssociates
  <1> HIDE DEF u, v
  <1>5. Xor(Xor(p, q), u) = Xor(p, Xor(q, u))
    BY <1>1, XorAssociates
  <1>6. Xor(Xor(p, r), v) = Xor(p, Xor(r, v))
    BY <1>1, XorAssociates
  <1>7. QED
    BY <1>2, <1>3, <1>4, <1>5, <1>6 DEF u, v

\* A term added to both cancels.
LEMMA XorCancels ==
  ASSUME NEW p \in Nat, NEW q \in Nat, NEW s \in Nat
  PROVE  Xor(Xor(p, s), Xor(q, s)) = Xor(p, q)
  <1>1. Xor(Xor(p, s), Xor(q, s)) = Xor(Xor(p, q), Xor(s, s))
    BY XorRegrouped
  <1>2. Xor(s, s) = 0
    BY XorZero
  <1>3. Xor(p, q) \in Nat
    BY XorBit
  <1>4. Xor(Xor(p, q), 0) = Xor(p, q)
    BY <1>3, XorZero
  <1>5. QED
    BY <1>1, <1>2, <1>4

\* Doubling moves the bits up by one.
LEMMA BitsOfDouble ==
  ASSUME NEW x \in Nat
  PROVE  Bit(2 * x, 0) = 0 /\ \A j \in Nat : Bit(2 * x, j + 1) = Bit(x, j)
  <1>1. Bit(2 * x, 0) = 0
    <2>1. (2 * x) \div 1 = 2 * x /\ (2 * x) % 2 = 0
      OBVIOUS
    <2>2. QED
      BY <2>1, PowersOfTwo DEF Bit
  <1>2. ASSUME NEW j \in Nat PROVE Bit(2 * x, j + 1) = Bit(x, j)
    <2> DEFINE p == Power(2)[j]
               q == x \div p
               e == x % p
    <2>1. p \in Nat \ {0} /\ Power(2)[j + 1] = 2 * p
      BY PowersOfTwo
    <2>2. q \in Nat /\ e \in 0 .. p - 1 /\ x = p * q + e
      BY <2>1, Divides
    <2> HIDE DEF p, q, e
    <2>3. (2 * x) \div (2 * p) = q
      <3> DEFINE u == 2 * p
                 v == 2 * e
      <3>1. u \in Nat \ {0} /\ v \in 0 .. u - 1
        BY <2>1, <2>2
      <3>2. 2 * x = u * q + v
        BY <2>1, <2>2
      <3> HIDE DEF u, v
      <3>3. (u * q + v) \div u = q
        BY <2>2, <3>1, QuotientUnique
      <3>4. QED
        BY <3>2, <3>3 DEF u
    <2>4. QED
      BY <2>1, <2>3 DEF Bit, q, p
  <1>3. QED
    BY <1>1, <1>2

\* The field of 2 to the n elements, with a polynomial of degree n.
Modulus(n) == minweight_primpoly[n]
FieldOf(n) == n \in Nat \ {0} /\ Modulus(n) \in Power(2)[n] .. Power(2)[n + 1] - 1

\* Such a polynomial has its highest bit at n.
LEMMA ModulusBits ==
  ASSUME NEW n, FieldOf(n)
  PROVE  /\ Modulus(n) \in Nat /\ Bit(Modulus(n), n) = 1
         /\ \A j \in Nat : n + 1 <= j => Bit(Modulus(n), j) = 0
  <1> DEFINE p == Power(2)[n]
             c == Modulus(n)
  <1>1. n \in Nat /\ n + 1 \in Nat /\ p \in Nat \ {0} /\ Power(2)[n + 1] = 2 * p
    BY PowersOfTwo DEF FieldOf
  <1>2. c \in p .. 2 * p - 1
    BY <1>1 DEF FieldOf
  <1> HIDE DEF p, c
  <1>3. c \in Nat /\ c < Power(2)[n + 1]
    BY <1>1, <1>2
  <1>4. c \div p = 1
    <2>1. c - p \in 0 .. p - 1 /\ c = p * 1 + (c - p)
      BY <1>1, <1>2
    <2> DEFINE e == c - p
    <2> HIDE DEF e
    <2>2. (p * 1 + e) \div p = 1
      BY <1>1, <2>1, QuotientUnique DEF e
    <2>3. QED
      BY <2>1, <2>2 DEF e
  <1>5. Bit(c, n) = 1
    <2>1. 1 % 2 = 1
      OBVIOUS
    <2>2. QED
      BY <1>4, <2>1 DEF Bit, p
  <1>6. \A j \in Nat : n + 1 <= j => Bit(c, j) = 0
    BY <1>1, <1>3, BitsAbove
  <1>7. QED
    BY <1>3, <1>5, <1>6 DEF c

\* One turn of gf2n_mult's shift: a doubled, with the modulus added if the
\* highest bit was set.
LEMMA TimesXBit ==
  ASSUME NEW n, FieldOf(n), NEW x \in Elements(n)
  PROVE  /\ TimesX(n, x) \in Nat
         /\ \A j \in Nat : Bit(TimesX(n, x), j) = (Bit(2 * x, j) + Bit(x, n - 1) * Bit(Modulus(n), j)) % 2
  <1> DEFINE y == 2 * x
             c == Modulus(n)
             b == Bit(x, n - 1)
  <1>1. n \in Nat /\ n - 1 \in Nat
    BY DEF FieldOf
  <1>2. x \in Nat
    BY <1>1, ElementBits
  <1>3. y \in Nat /\ c \in Nat /\ b \in 0 .. 1
    BY <1>1, <1>2, ModulusBits, BitType
  <1>4. TimesX(n, x) = IF b = 1 THEN Xor(y, c) ELSE y
    BY DEF TimesX, Modulus
  <1> HIDE DEF y, c, b
  <1>5. Xor(y, c) \in Nat /\ \A j \in Nat : Bit(Xor(y, c), j) = (Bit(y, j) + Bit(c, j)) % 2
    BY <1>3, XorBit
  <1>6. ASSUME NEW j \in Nat PROVE Bit(TimesX(n, x), j) = (Bit(y, j) + b * Bit(c, j)) % 2
    <2> DEFINE u == Bit(y, j)
               v == Bit(c, j)
    <2>1. u \in 0 .. 1 /\ v \in 0 .. 1
      BY <1>3, BitType
    <2>2. Bit(Xor(y, c), j) = (u + v) % 2
      BY <1>5
    <2> HIDE DEF u, v
    <2>3. CASE b = 1
      <3>1. 1 * v = v
        BY <2>1
      <3>2. Bit(TimesX(n, x), j) = (u + v) % 2
        BY <1>4, <2>2, <2>3
      <3>3. QED
        BY <2>3, <3>1, <3>2 DEF u, v
    <2>4. CASE b # 1
      <3>1. b = 0 /\ 0 * v = 0 /\ (u + 0) % 2 = u
        BY <1>3, <2>1, <2>4
      <3>2. Bit(TimesX(n, x), j) = u
        BY <1>4, <2>4 DEF u
      <3>3. QED
        BY <3>1, <3>2 DEF u, v
    <2>5. QED
      BY <2>3, <2>4
  <1>7. QED
    BY <1>3, <1>4, <1>5, <1>6 DEF y, c, b

\* The shift stays in the field: what is doubled past its highest bit has this
\* bit in common with the modulus.
LEMMA TimesXElement ==
  ASSUME NEW n, FieldOf(n), NEW x \in Elements(n)
  PROVE  TimesX(n, x) \in Elements(n)
  <1> DEFINE z == TimesX(n, x)
             b == Bit(x, n - 1)
  <1>1. n \in Nat /\ n - 1 \in Nat /\ (n - 1) + 1 = n
    BY DEF FieldOf
  <1>2. x \in Nat /\ \A j \in Nat : n <= j => Bit(x, j) = 0
    BY <1>1, ElementBits
  <1>3. z \in Nat /\ \A j \in Nat : Bit(z, j) = (Bit(2 * x, j) + b * Bit(Modulus(n), j)) % 2
    BY TimesXBit
  <1>4. b \in 0 .. 1
    BY <1>1, <1>2, BitType
  <1>5. \A j \in Nat : Bit(2 * x, j + 1) = Bit(x, j)
    BY <1>2, BitsOfDouble
  <1>6. Bit(Modulus(n), n) = 1 /\ \A j \in Nat : n + 1 <= j => Bit(Modulus(n), j) = 0
    BY ModulusBits
  <1> HIDE DEF z
  <1>7. Bit(z, n) = 0
    <2>1. Bit(2 * x, n) = b
      BY <1>1, <1>5
    <2>2. Bit(z, n) = (b + b * 1) % 2
      BY <1>1, <1>3, <1>6, <2>1
    <2> HIDE DEF b
    <2>3. b = 0 \/ b = 1
      BY <1>4
    <2>4. (b + b * 1) % 2 = 0
      BY <2>3
    <2>5. QED
      BY <2>2, <2>4
  <1> HIDE DEF b
  <1>8. ASSUME NEW j \in Nat, n <= j PROVE Bit(z, j) = 0
    <2>1. CASE j = n
      BY <1>7, <2>1
    <2>2. CASE j # n
      <3>1. j - 1 \in Nat /\ (j - 1) + 1 = j /\ n <= j - 1 /\ n + 1 <= j
        BY <1>1, <1>8, <2>2
      <3>2. Bit(2 * x, j) = 0
        <4>1. Bit(2 * x, (j - 1) + 1) = Bit(x, j - 1)
          BY <1>5, <3>1
        <4>2. QED
          BY <1>2, <3>1, <4>1
      <3>3. Bit(Modulus(n), j) = 0
        BY <1>6, <3>1
      <3>4. (0 + b * 0) % 2 = 0
        BY <1>4
      <3>5. QED
        BY <1>3, <3>2, <3>3, <3>4
    <2>3. QED
      BY <2>1, <2>2
  <1>9. z \in Elements(n)
    BY <1>1, <1>3, <1>8, ElementBits
  <1>10. QED
    BY <1>9 DEF z

\* The shift of a sum is the sum of the shifts.
LEMMA TimesXAdds ==
  ASSUME NEW n, FieldOf(n), NEW x \in Elements(n), NEW y \in Elements(n)
  PROVE  TimesX(n, Xor(x, y)) = Xor(TimesX(n, x), TimesX(n, y))
  <1> DEFINE s == Xor(x, y)
             u == TimesX(n, x)
             v == TimesX(n, y)
             l == TimesX(n, s)
             r == Xor(u, v)
             c == Modulus(n)
  <1>1. n \in Nat /\ n - 1 \in Nat
    BY DEF FieldOf
  <1>2. x \in Nat /\ y \in Nat /\ c \in Nat
    BY <1>1, ElementBits, ModulusBits
  <1>3. s \in Elements(n)
    BY <1>1, XorElement
  <1>4. s \in Nat /\ \A j \in Nat : Bit(s, j) = (Bit(x, j) + Bit(y, j)) % 2
    BY <1>2, XorBit
  <1>5. u \in Nat /\ \A j \in Nat : Bit(u, j) = (Bit(2 * x, j) + Bit(x, n - 1) * Bit(c, j)) % 2
    BY TimesXBit
  <1>6. v \in Nat /\ \A j \in Nat : Bit(v, j) = (Bit(2 * y, j) + Bit(y, n - 1) * Bit(c, j)) % 2
    BY TimesXBit
  <1> HIDE DEF s, u, v
  <1>7. l \in Nat /\ \A j \in Nat : Bit(l, j) = (Bit(2 * s, j) + Bit(s, n - 1) * Bit(c, j)) % 2
    BY <1>3, TimesXBit
  <1>8. r \in Nat /\ \A j \in Nat : Bit(r, j) = (Bit(u, j) + Bit(v, j)) % 2
    BY <1>5, <1>6, XorBit
  <1>9. ASSUME NEW j \in Nat PROVE Bit(2 * s, j) = (Bit(2 * x, j) + Bit(2 * y, j)) % 2
    <2>1. CASE j = 0
      <3>1. Bit(2 * s, 0) = 0
        BY <1>4, BitsOfDouble
      <3>2. Bit(2 * x, 0) = 0
        BY <1>2, BitsOfDouble
      <3>3. Bit(2 * y, 0) = 0
        BY <1>2, BitsOfDouble
      <3>4. (0 + 0) % 2 = 0
        OBVIOUS
      <3>5. QED
        BY <2>1, <3>1, <3>2, <3>3, <3>4
    <2>2. CASE j # 0
      <3>1. j - 1 \in Nat /\ (j - 1) + 1 = j
        BY <2>2
      <3>2. Bit(2 * s, j) = Bit(s, j - 1)
        <4>1. \A q \in Nat : Bit(2 * s, q + 1) = Bit(s, q)
          BY <1>4, BitsOfDouble
        <4>2. Bit(2 * s, (j - 1) + 1) = Bit(s, j - 1)
          BY <3>1, <4>1
        <4>3. QED
          BY <3>1, <4>2
      <3>3. Bit(2 * x, j) = Bit(x, j - 1)
        <4>1. \A q \in Nat : Bit(2 * x, q + 1) = Bit(x, q)
          BY <1>2, BitsOfDouble
        <4>2. Bit(2 * x, (j - 1) + 1) = Bit(x, j - 1)
          BY <3>1, <4>1
        <4>3. QED
          BY <3>1, <4>2
      <3>4. Bit(2 * y, j) = Bit(y, j - 1)
        <4>1. \A q \in Nat : Bit(2 * y, q + 1) = Bit(y, q)
          BY <1>2, BitsOfDouble
        <4>2. Bit(2 * y, (j - 1) + 1) = Bit(y, j - 1)
          BY <3>1, <4>1
        <4>3. QED
          BY <3>1, <4>2
      <3>5. QED
        BY <1>4, <3>1, <3>2, <3>3, <3>4
    <2>3. QED
      BY <2>1, <2>2
  <1> HIDE DEF l, r, c
  <1>10. ASSUME NEW j \in Nat PROVE Bit(l, j) = Bit(r, j)
    <2> DEFINE d == Bit(2 * x, j)
               e == Bit(2 * y, j)
               g == Bit(x, n - 1)
               h == Bit(y, n - 1)
               b == Bit(c, j)
    <2>1. d \in 0 .. 1 /\ e \in 0 .. 1 /\ g \in 0 .. 1 /\ h \in 0 .. 1 /\ b \in 0 .. 1
      <3>1. 2 * x \in Nat /\ 2 * y \in Nat
        BY <1>2
      <3>2. QED
        BY <1>1, <1>2, <3>1, BitType
    <2>2. /\ Bit(l, j) = (((d + e) % 2) + ((g + h) % 2) * b) % 2
          /\ Bit(r, j) = (((d + g * b) % 2) + ((e + h * b) % 2)) % 2
      BY <1>1, <1>4, <1>5, <1>6, <1>7, <1>8, <1>9
    <2> HIDE DEF d, e, g, h, b
    <2>3. (d = 0 \/ d = 1) /\ (e = 0 \/ e = 1) /\ (g = 0 \/ g = 1) /\ (h = 0 \/ h = 1) /\ (b = 0 \/ b = 1)
      BY <2>1
    <2>4. (((d + e) % 2) + ((g + h) % 2) * b) % 2 = (((d + g * b) % 2) + ((e + h * b) % 2)) % 2
      <3>1. CASE b = 0
        <4>1. ((g + h) % 2) * b = 0 /\ g * b = 0 /\ h * b = 0
          BY <2>1, <3>1
        <4>2. QED
          BY <2>3, <4>1
      <3>2. CASE b = 1
        <4>1. ((g + h) % 2) * b = (g + h) % 2 /\ g * b = g /\ h * b = h
          BY <2>1, <3>2
        <4>2. QED
          BY <2>3, <4>1
      <3>3. QED
        BY <2>3, <3>1, <3>2
    <2>5. QED
      BY <2>2, <2>4
  <1>11. l = r
    BY <1>7, <1>8, <1>10, SameBits
  <1>12. QED
    BY <1>11 DEF l, r, s, u, v

\* 0 is a field element.
LEMMA ZeroElement ==
  ASSUME NEW n, FieldOf(n)
  PROVE  0 \in Elements(n) /\ Elements(n) \subseteq Nat /\ n \in Nat
  <1>1. n \in Nat /\ Power(2)[n] \in Nat \ {0}
    BY PowersOfTwo DEF FieldOf
  <1>2. QED
    BY <1>1 DEF Elements

\* The equation of Shifted.
LEMMA ShiftedSteps ==
  ASSUME NEW n, FieldOf(n), NEW x \in Elements(n)
  PROVE  /\ Shifted(n, x)[0] = x
         /\ \A j \in Nat : /\ Shifted(n, x)[j] \in Elements(n)
                           /\ Shifted(n, x)[j + 1] = TimesX(n, Shifted(n, x)[j])
  <1> DEFINE Y == Elements(n)
             step == [j \in Nat |-> [y \in Y |-> TimesX(n, y)]]
             Is(f) == f = [j \in Nat |-> IF j = 0 THEN x ELSE TimesX(n, f[j - 1])]
             f == Shifted(n, x)
  <1>1. \A y \in Y : TimesX(n, y) \in Y
    BY TimesXElement
  <1>2. f = CHOOSE g : Is(g)
    BY DEF Shifted
  <1>3. x \in Y
    OBVIOUS
  <1> HIDE DEF Y, f
  <1>4. \A j \in Nat, y \in Y : step[j][y] = TimesX(n, y) /\ step[j][y] \in Y
    BY <1>1
  <1> HIDE DEF step
  <1>5. PICK F : Iterates(F, Y, x, step)
    <2>1. \A j \in Nat, y \in Y : step[j][y] \in Y
      BY <1>4
    <2>2. QED
      BY <1>3, <2>1, Recursion
  <1>6. F \in [Nat -> Y] /\ F[0] = x /\ \A j \in Nat : F[j + 1] = TimesX(n, F[j])
    <2>1. F \in [Nat -> Y] /\ F[0] = x /\ \A j \in Nat : F[j + 1] = step[j + 1][F[j]]
      BY <1>5 DEF Iterates
    <2>2. \A j \in Nat : j + 1 \in Nat /\ F[j] \in Y
      BY <2>1
    <2>3. QED
      BY <1>4, <2>1, <2>2
  <1>7. Is(F)
    <2>1. F = [j \in Nat |-> F[j]]
      BY <1>6
    <2>2. ASSUME NEW j \in Nat PROVE F[j] = IF j = 0 THEN x ELSE TimesX(n, F[j - 1])
      <3>1. CASE j = 0
        BY <1>6, <3>1
      <3>2. CASE j # 0
        <4>1. j - 1 \in Nat /\ (j - 1) + 1 = j
          BY <3>2
        <4>2. F[(j - 1) + 1] = TimesX(n, F[j - 1])
          BY <1>6, <4>1
        <4>3. QED
          BY <3>2, <4>1, <4>2
      <3>3. QED
        BY <3>1, <3>2
    <2>3. QED
      BY <2>1, <2>2
  <1>8. Is(f)
    <2> HIDE DEF Is
    <2>1. QED
      BY <1>2, <1>7
  <1>9. f[0] = x
    BY <1>8
  <1>10. ASSUME NEW j \in Nat PROVE f[j + 1] = TimesX(n, f[j])
    <2>1. j + 1 \in Nat /\ j + 1 # 0 /\ (j + 1) - 1 = j
      OBVIOUS
    <2>2. QED
      BY <1>8, <2>1
  <1> HIDE DEF Is
  <1>11. ASSUME NEW max \in Nat PROVE f[max] \in Y
    <2> DEFINE Q == {j \in 0 .. max : f[j] \in Y}
    <2>1. 0 \in Q
      BY <1>3, <1>9
    <2>2. ASSUME NEW j \in 0 .. max - 1, j \in Q PROVE j + 1 \in Q
      <3>1. j \in Nat /\ j + 1 \in 0 .. max /\ f[j] \in Y
        BY <2>2
      <3>2. f[j + 1] \in Y
        BY <1>1, <1>10, <3>1
      <3>3. QED
        BY <3>1, <3>2
    <2> HIDE DEF Q
    <2>3. 0 .. max \subseteq Q
      BY <2>1, <2>2, Induct
    <2>4. max \in Q
      BY <2>3
    <2>5. QED
      BY <2>4 DEF Q
  <1>12. QED
    BY <1>9, <1>10, <1>11 DEF f, Y

\* What one turn of gf2n_mult makes of the product p, with the shift s and the
\* lowest bit b of what is left.
AddIf(b, p, s) == IF b = 1 THEN Xor(p, s) ELSE p

\* The equation of Products.
LEMMA ProductSteps ==
  ASSUME NEW n, FieldOf(n), NEW x \in Elements(n), NEW z \in Nat
  PROVE  /\ Products(n, x, z)[0] = 0
         /\ \A j \in Nat : /\ Products(n, x, z)[j] \in Elements(n)
                           /\ Products(n, x, z)[j + 1] = AddIf(Bit(z, j), Products(n, x, z)[j], Shifted(n, x)[j])
  <1> DEFINE Y == Elements(n)
             s == Shifted(n, x)
             next == [j \in Nat |-> [y \in Y |-> IF j = 0 THEN y ELSE AddIf(Bit(z, j - 1), y, s[j - 1])]]
             Is(f) == f = [j \in Nat |-> IF j = 0 THEN 0
                             ELSE IF Bit(z, j - 1) = 1 THEN Xor(f[j - 1], s[j - 1]) ELSE f[j - 1]]
             f == Products(n, x, z)
  <1>1. \A j \in Nat : s[j] \in Y
    BY ShiftedSteps
  <1>2. f = CHOOSE g : Is(g)
    BY DEF Products
  <1>3. 0 \in Y /\ n \in Nat
    BY ZeroElement
  <1> HIDE DEF s
  <1>4. ASSUME NEW j \in Nat, NEW y \in Y PROVE AddIf(Bit(z, j), y, s[j]) \in Y
    <2>1. s[j] \in Elements(n)
      BY <1>1
    <2>2. Xor(y, s[j]) \in Y
      BY <1>3, <2>1, XorElement
    <2> HIDE DEF Y
    <2>3. QED
      BY <2>2 DEF AddIf
  <1> HIDE DEF Y, f
  <1>5. \A j \in Nat, y \in Y : next[j + 1][y] = AddIf(Bit(z, j), y, s[j])
    <2>1. ASSUME NEW j \in Nat, NEW y \in Y PROVE next[j + 1][y] = AddIf(Bit(z, j), y, s[j])
      <3>1. j + 1 \in Nat /\ j + 1 # 0 /\ (j + 1) - 1 = j
        OBVIOUS
      <3>2. QED
        BY <3>1
    <2>2. QED
      BY <2>1
  <1>6. \A j \in Nat, y \in Y : next[j][y] \in Y
    <2>1. ASSUME NEW j \in Nat, NEW y \in Y PROVE next[j][y] \in Y
      <3>1. CASE j = 0
        BY <3>1
      <3>2. CASE j # 0
        <4>1. j - 1 \in Nat
          BY <3>2
        <4>2. next[j][y] = AddIf(Bit(z, j - 1), y, s[j - 1])
          BY <3>2
        <4>3. QED
          BY <1>4, <4>1, <4>2
      <3>3. QED
        BY <3>1, <3>2
    <2>2. QED
      BY <2>1
  <1> HIDE DEF next
  <1>7. PICK F : Iterates(F, Y, 0, next)
    BY <1>3, <1>6, Recursion
  <1>8. F \in [Nat -> Y] /\ F[0] = 0 /\ \A j \in Nat : F[j + 1] = AddIf(Bit(z, j), F[j], s[j])
    <2>1. F \in [Nat -> Y] /\ F[0] = 0 /\ \A j \in Nat : F[j + 1] = next[j + 1][F[j]]
      BY <1>7 DEF Iterates
    <2>2. \A j \in Nat : F[j] \in Y
      BY <2>1
    <2>3. QED
      BY <1>5, <2>1, <2>2
  <1>9. Is(F)
    <2>1. F = [j \in Nat |-> F[j]]
      BY <1>8
    <2>2. ASSUME NEW j \in Nat
          PROVE  F[j] = IF j = 0 THEN 0 ELSE IF Bit(z, j - 1) = 1 THEN Xor(F[j - 1], s[j - 1]) ELSE F[j - 1]
      <3>1. CASE j = 0
        BY <1>8, <3>1
      <3>2. CASE j # 0
        <4>1. j - 1 \in Nat /\ (j - 1) + 1 = j
          BY <3>2
        <4>2. F[(j - 1) + 1] = AddIf(Bit(z, j - 1), F[j - 1], s[j - 1])
          BY <1>8, <4>1
        <4>3. QED
          BY <3>2, <4>1, <4>2 DEF AddIf
      <3>3. QED
        BY <3>1, <3>2
    <2>3. QED
      BY <2>1, <2>2
  <1>10. Is(f)
    <2> HIDE DEF Is
    <2>1. QED
      BY <1>2, <1>9
  <1>11. f[0] = 0
    BY <1>10
  <1>12. ASSUME NEW j \in Nat PROVE f[j + 1] = AddIf(Bit(z, j), f[j], s[j])
    <2>1. j + 1 \in Nat /\ j + 1 # 0 /\ (j + 1) - 1 = j
      OBVIOUS
    <2>2. QED
      BY <1>10, <2>1 DEF AddIf
  <1> HIDE DEF Is
  <1>13. ASSUME NEW max \in Nat PROVE f[max] \in Y
    <2> DEFINE Q == {j \in 0 .. max : f[j] \in Y}
    <2>1. 0 \in Q
      BY <1>3, <1>11
    <2>2. ASSUME NEW j \in 0 .. max - 1, j \in Q PROVE j + 1 \in Q
      <3>1. j \in Nat /\ j + 1 \in 0 .. max /\ f[j] \in Y
        BY <2>2
      <3>2. f[j + 1] \in Y
        BY <1>4, <1>12, <3>1
      <3>3. QED
        BY <3>1, <3>2
    <2> HIDE DEF Q
    <2>3. 0 .. max \subseteq Q
      BY <2>1, <2>2, Induct
    <2>4. max \in Q
      BY <2>3
    <2>5. QED
      BY <2>4 DEF Q
  <1>14. QED
    BY <1>11, <1>12, <1>13 DEF f, Y, s

\* A product is a field element.
LEMMA MultElement ==
  ASSUME NEW n, FieldOf(n), NEW x \in Elements(n), NEW z \in Nat
  PROVE  Mult(n, x, z) \in Elements(n)
  <1>1. n \in Nat
    BY ZeroElement
  <1>2. QED
    BY <1>1, ProductSteps DEF Mult

\* Shifts of a sum.
LEMMA ShiftedAdds ==
  ASSUME NEW n, FieldOf(n), NEW x \in Elements(n), NEW y \in Elements(n), NEW max \in Nat
  PROVE  Shifted(n, Xor(x, y))[max] = Xor(Shifted(n, x)[max], Shifted(n, y)[max])
  <1> DEFINE u == Shifted(n, x)
             v == Shifted(n, y)
             s == Shifted(n, Xor(x, y))
             Q == {j \in 0 .. max : s[j] = Xor(u[j], v[j])}
  <1>1. Xor(x, y) \in Elements(n)
    BY ZeroElement, XorElement
  <1>2. u[0] = x /\ \A j \in Nat : u[j] \in Elements(n) /\ u[j + 1] = TimesX(n, u[j])
    BY ShiftedSteps
  <1>3. v[0] = y /\ \A j \in Nat : v[j] \in Elements(n) /\ v[j + 1] = TimesX(n, v[j])
    BY ShiftedSteps
  <1>4. s[0] = Xor(x, y) /\ \A j \in Nat : s[j + 1] = TimesX(n, s[j])
    BY <1>1, ShiftedSteps
  <1> HIDE DEF u, v, s
  <1>5. 0 \in Q
    BY <1>2, <1>3, <1>4
  <1>6. ASSUME NEW j \in 0 .. max - 1, j \in Q PROVE j + 1 \in Q
    <2>1. j \in Nat /\ j + 1 \in 0 .. max /\ s[j] = Xor(u[j], v[j])
      BY <1>6
    <2>2. TimesX(n, Xor(u[j], v[j])) = Xor(TimesX(n, u[j]), TimesX(n, v[j]))
      BY <1>2, <1>3, <2>1, TimesXAdds
    <2>3. s[j + 1] = Xor(u[j + 1], v[j + 1])
      BY <1>2, <1>3, <1>4, <2>1, <2>2
    <2>4. QED
      BY <2>1, <2>3
  <1> HIDE DEF Q
  <1>7. 0 .. max \subseteq Q
    BY <1>5, <1>6, Induct
  <1>8. max \in Q
    BY <1>7
  <1>9. QED
    BY <1>8 DEF Q, u, v, s

\* A turn of the product adds up.
LEMMA AddIfAdds ==
  ASSUME NEW b, NEW p \in Nat, NEW q \in Nat, NEW r \in Nat, NEW s \in Nat
  PROVE  AddIf(b, Xor(p, q), Xor(r, s)) = Xor(AddIf(b, p, r), AddIf(b, q, s))
  BY XorRegrouped DEF AddIf

\* A bit in which two factors differ is used once, one they share never.
LEMMA AddIfFactors ==
  ASSUME NEW b \in 0 .. 1, NEW c \in 0 .. 1, NEW p \in Nat, NEW q \in Nat, NEW s \in Nat
  PROVE  AddIf((b + c) % 2, Xor(p, q), s) = Xor(AddIf(b, p, s), AddIf(c, q, s))
  <1>1. (b = 0 \/ b = 1) /\ (c = 0 \/ c = 1)
    OBVIOUS
  <1>2. (0 + 0) % 2 = 0 /\ (0 + 1) % 2 = 1 /\ (1 + 0) % 2 = 1 /\ (1 + 1) % 2 = 0
    OBVIOUS
  <1>3. Xor(Xor(p, q), s) = Xor(p, Xor(q, s))
    BY XorAssociates
  <1>4. Xor(Xor(p, q), s) = Xor(Xor(p, s), q)
    <2>1. Xor(q, s) = Xor(s, q)
      BY XorCommutes
    <2>2. Xor(Xor(p, s), q) = Xor(p, Xor(s, q))
      BY XorAssociates
    <2>3. QED
      BY <1>3, <2>1, <2>2
  <1>5. Xor(Xor(p, s), Xor(q, s)) = Xor(p, q)
    BY XorCancels
  <1>6. CASE b = 0 /\ c = 0
    BY <1>2, <1>6 DEF AddIf
  <1>7. CASE b = 0 /\ c = 1
    BY <1>2, <1>3, <1>7 DEF AddIf
  <1>8. CASE b = 1 /\ c = 0
    BY <1>2, <1>4, <1>8 DEF AddIf
  <1>9. CASE b = 1 /\ c = 1
    BY <1>2, <1>5, <1>9 DEF AddIf
  <1>10. QED
    BY <1>1, <1>6, <1>7, <1>8, <1>9

\* Products of a sum.
LEMMA ProductsAdd ==
  ASSUME NEW n, FieldOf(n), NEW x \in Elements(n), NEW y \in Elements(n), NEW z \in Nat, NEW max \in Nat
  PROVE  Products(n, Xor(x, y), z)[max] = Xor(Products(n, x, z)[max], Products(n, y, z)[max])
  <1> DEFINE s == Xor(x, y)
             F == Products(n, x, z)
             G == Products(n, y, z)
             H == Products(n, s, z)
             f == Shifted(n, x)
             g == Shifted(n, y)
             h == Shifted(n, s)
             Q == {j \in 0 .. max : H[j] = Xor(F[j], G[j])}
  <1>1. s \in Elements(n) /\ Elements(n) \subseteq Nat
    BY ZeroElement, XorElement
  <1>2. \A j \in Nat : f[j] \in Nat /\ g[j] \in Nat
    BY <1>1, ShiftedSteps
  <1>3. \A j \in Nat : h[j] = Xor(f[j], g[j])
    BY ShiftedAdds
  <1>4. F[0] = 0 /\ \A j \in Nat : F[j] \in Nat /\ F[j + 1] = AddIf(Bit(z, j), F[j], f[j])
    BY <1>1, ProductSteps
  <1>5. G[0] = 0 /\ \A j \in Nat : G[j] \in Nat /\ G[j + 1] = AddIf(Bit(z, j), G[j], g[j])
    BY <1>1, ProductSteps
  <1> HIDE DEF s
  <1>6. H[0] = 0 /\ \A j \in Nat : H[j + 1] = AddIf(Bit(z, j), H[j], h[j])
    BY <1>1, ProductSteps
  <1> HIDE DEF F, G, H, f, g, h
  <1>7. 0 \in Q
    <2>1. Xor(0, 0) = 0
      BY XorZero
    <2>2. QED
      BY <1>4, <1>5, <1>6, <2>1
  <1>8. ASSUME NEW j \in 0 .. max - 1, j \in Q PROVE j + 1 \in Q
    <2>1. j \in Nat /\ j + 1 \in 0 .. max /\ H[j] = Xor(F[j], G[j])
      BY <1>8
    <2>2. AddIf(Bit(z, j), Xor(F[j], G[j]), Xor(f[j], g[j])) = Xor(AddIf(Bit(z, j), F[j], f[j]), AddIf(Bit(z, j), G[j], g[j]))
      BY <1>2, <1>4, <1>5, <2>1, AddIfAdds
    <2>3. H[j + 1] = Xor(F[j + 1], G[j + 1])
      BY <1>3, <1>4, <1>5, <1>6, <2>1, <2>2
    <2>4. QED
      BY <2>1, <2>3
  <1> HIDE DEF Q
  <1>9. 0 .. max \subseteq Q
    BY <1>7, <1>8, Induct
  <1>10. max \in Q
    BY <1>9
  <1>11. QED
    BY <1>10 DEF Q, F, G, H, s

\* Products by a sum.
LEMMA ProductsAddFactors ==
  ASSUME NEW n, FieldOf(n), NEW x \in Elements(n), NEW y \in Nat, NEW z \in Nat, NEW max \in Nat
  PROVE  Products(n, x, Xor(y, z))[max] = Xor(Products(n, x, y)[max], Products(n, x, z)[max])
  <1> DEFINE s == Xor(y, z)
             F == Products(n, x, y)
             G == Products(n, x, z)
             H == Products(n, x, s)
             f == Shifted(n, x)
             Q == {j \in 0 .. max : H[j] = Xor(F[j], G[j])}
  <1>1. s \in Nat /\ \A j \in Nat : Bit(s, j) = (Bit(y, j) + Bit(z, j)) % 2
    BY XorBit
  <1>2. Elements(n) \subseteq Nat
    BY ZeroElement
  <1>3. \A j \in Nat : f[j] \in Nat
    BY <1>2, ShiftedSteps
  <1>4. F[0] = 0 /\ \A j \in Nat : F[j] \in Nat /\ F[j + 1] = AddIf(Bit(y, j), F[j], f[j])
    BY <1>2, ProductSteps
  <1>5. G[0] = 0 /\ \A j \in Nat : G[j] \in Nat /\ G[j + 1] = AddIf(Bit(z, j), G[j], f[j])
    BY <1>2, ProductSteps
  <1> HIDE DEF s
  <1>6. H[0] = 0 /\ \A j \in Nat : H[j + 1] = AddIf(Bit(s, j), H[j], f[j])
    BY <1>1, ProductSteps
  <1> HIDE DEF F, G, H, f
  <1>7. 0 \in Q
    <2>1. Xor(0, 0) = 0
      BY XorZero
    <2>2. QED
      BY <1>4, <1>5, <1>6, <2>1
  <1>8. ASSUME NEW j \in 0 .. max - 1, j \in Q PROVE j + 1 \in Q
    <2>1. j \in Nat /\ j + 1 \in 0 .. max /\ H[j] = Xor(F[j], G[j])
      BY <1>8
    <2>2. Bit(y, j) \in 0 .. 1 /\ Bit(z, j) \in 0 .. 1
      BY <2>1, BitType
    <2>3. AddIf((Bit(y, j) + Bit(z, j)) % 2, Xor(F[j], G[j]), f[j]) = Xor(AddIf(Bit(y, j), F[j], f[j]), AddIf(Bit(z, j), G[j], f[j]))
      <3> DEFINE b == Bit(y, j)
                 c == Bit(z, j)
                 p == F[j]
                 q == G[j]
                 r == f[j]
      <3>1. b \in 0 .. 1 /\ c \in 0 .. 1 /\ p \in Nat /\ q \in Nat /\ r \in Nat
        BY <1>3, <1>4, <1>5, <2>1, <2>2
      <3> HIDE DEF b, c, p, q, r
      <3>2. AddIf((b + c) % 2, Xor(p, q), r) = Xor(AddIf(b, p, r), AddIf(c, q, r))
        BY <3>1, AddIfFactors
      <3>3. QED
        BY <3>2 DEF b, c, p, q, r
    <2>4. H[j + 1] = Xor(F[j + 1], G[j + 1])
      BY <1>1, <1>4, <1>5, <1>6, <2>1, <2>3
    <2>5. QED
      BY <2>1, <2>4
  <1> HIDE DEF Q
  <1>9. 0 .. max \subseteq Q
    BY <1>7, <1>8, Induct
  <1>10. max \in Q
    BY <1>9
  <1>11. QED
    BY <1>10 DEF Q, F, G, H, s

\* gf2n_mult distributes over gf2n_add.
LEMMA MultAdds ==
  ASSUME NEW n, FieldOf(n), NEW x \in Elements(n), NEW y \in Elements(n), NEW z \in Nat
  PROVE  Mult(n, Xor(x, y), z) = Xor(Mult(n, x, z), Mult(n, y, z))
  <1>1. n \in Nat
    BY ZeroElement
  <1>2. QED
    BY <1>1, ProductsAdd DEF Mult

\* And in the second factor.
LEMMA MultAddsFactors ==
  ASSUME NEW n, FieldOf(n), NEW x \in Elements(n), NEW y \in Nat, NEW z \in Nat
  PROVE  Mult(n, x, Xor(y, z)) = Xor(Mult(n, x, y), Mult(n, x, z))
  <1>1. n \in Nat
    BY ZeroElement
  <1>2. QED
    BY <1>1, ProductsAddFactors DEF Mult

\* 0 times anything.
LEMMA MultZero ==
  ASSUME NEW n, FieldOf(n), NEW z \in Nat
  PROVE  Mult(n, 0, z) = 0
  <1>1. 0 \in Elements(n) /\ Elements(n) \subseteq Nat
    BY ZeroElement
  <1>2. Xor(0, 0) = 0
    BY XorZero
  <1>3. Mult(n, Xor(0, 0), z) = Xor(Mult(n, 0, z), Mult(n, 0, z))
    BY <1>1, MultAdds
  <1>4. Mult(n, 0, z) \in Nat
    BY <1>1, MultElement
  <1>5. Xor(Mult(n, 0, z), Mult(n, 0, z)) = 0
    BY <1>4, XorZero
  <1>6. QED
    BY <1>2, <1>3, <1>5

\* Shifting first or last.
LEMMA ShiftedShift ==
  ASSUME NEW n, FieldOf(n), NEW x \in Elements(n), NEW max \in Nat
  PROVE  Shifted(n, TimesX(n, x))[max] = TimesX(n, Shifted(n, x)[max])
  <1> DEFINE y == TimesX(n, x)
             f == Shifted(n, x)
             g == Shifted(n, y)
             Q == {j \in 0 .. max : g[j] = TimesX(n, f[j])}
  <1>1. y \in Elements(n)
    BY TimesXElement
  <1>2. f[0] = x /\ \A j \in Nat : f[j + 1] = TimesX(n, f[j])
    BY ShiftedSteps
  <1>3. g[0] = y /\ \A j \in Nat : g[j + 1] = TimesX(n, g[j])
    BY <1>1, ShiftedSteps
  <1> HIDE DEF f, g
  <1>4. 0 \in Q
    BY <1>2, <1>3
  <1>5. ASSUME NEW j \in 0 .. max - 1, j \in Q PROVE j + 1 \in Q
    <2>1. j \in Nat /\ j + 1 \in 0 .. max /\ g[j] = TimesX(n, f[j])
      BY <1>5
    <2>2. g[j + 1] = TimesX(n, f[j + 1])
      BY <1>2, <1>3, <2>1
    <2>3. QED
      BY <2>1, <2>2
  <1> HIDE DEF Q
  <1>6. 0 .. max \subseteq Q
    BY <1>4, <1>5, Induct
  <1>7. max \in Q
    BY <1>6
  <1>8. QED
    BY <1>7 DEF Q, f, g

\* The product of a shift is the shift of the product.
LEMMA MultShift ==
  ASSUME NEW n, FieldOf(n), NEW x \in Elements(n), NEW z \in Nat
  PROVE  Mult(n, TimesX(n, x), z) = TimesX(n, Mult(n, x, z))
  <1> DEFINE y == TimesX(n, x)
             F == Products(n, x, z)
             G == Products(n, y, z)
             f == Shifted(n, x)
             g == Shifted(n, y)
             Q == {j \in 0 .. n : G[j] = TimesX(n, F[j])}
  <1>1. y \in Elements(n) /\ n \in Nat /\ 0 \in Elements(n)
    BY TimesXElement, ZeroElement
  <1>2. \A j \in Nat : f[j] \in Elements(n)
    BY ShiftedSteps
  <1>3. \A j \in Nat : g[j] = TimesX(n, f[j])
    BY ShiftedShift
  <1>4. F[0] = 0 /\ \A j \in Nat : F[j] \in Elements(n) /\ F[j + 1] = AddIf(Bit(z, j), F[j], f[j])
    BY ProductSteps
  <1> HIDE DEF y
  <1>5. G[0] = 0 /\ \A j \in Nat : G[j + 1] = AddIf(Bit(z, j), G[j], g[j])
    BY <1>1, ProductSteps
  <1> HIDE DEF F, G, f, g
  <1>6. 0 \in Q
    <2>1. Xor(0, 0) = 0
      BY XorZero
    <2>2. TimesX(n, Xor(0, 0)) = Xor(TimesX(n, 0), TimesX(n, 0))
      BY <1>1, TimesXAdds
    <2>3. TimesX(n, 0) \in Nat
      BY <1>1, TimesXElement, ZeroElement
    <2>4. Xor(TimesX(n, 0), TimesX(n, 0)) = 0
      BY <2>3, XorZero
    <2>5. QED
      BY <1>1, <1>4, <1>5, <2>1, <2>2, <2>4
  <1>7. ASSUME NEW j \in 0 .. n - 1, j \in Q PROVE j + 1 \in Q
    <2>1. j \in Nat /\ j + 1 \in 0 .. n /\ G[j] = TimesX(n, F[j])
      BY <1>1, <1>7
    <2>2. TimesX(n, Xor(F[j], f[j])) = Xor(TimesX(n, F[j]), TimesX(n, f[j]))
      BY <1>2, <1>4, <2>1, TimesXAdds
    <2>3. G[j + 1] = TimesX(n, F[j + 1])
      BY <1>3, <1>4, <1>5, <2>1, <2>2 DEF AddIf
    <2>4. QED
      BY <2>1, <2>3
  <1> HIDE DEF Q
  <1>8. 0 .. n \subseteq Q
    BY <1>1, <1>6, <1>7, Induct
  <1>9. n \in Q
    BY <1>1, <1>8
  <1>10. QED
    BY <1>9 DEF Q, F, G, y, Mult

\* The product of any shift.
LEMMA MultShifted ==
  ASSUME NEW n, FieldOf(n), NEW x \in Elements(n), NEW z \in Nat, NEW max \in Nat
  PROVE  Shifted(n, Mult(n, x, z))[max] = Mult(n, Shifted(n, x)[max], z)
  <1> DEFINE y == Mult(n, x, z)
             f == Shifted(n, x)
             g == Shifted(n, y)
             Q == {j \in 0 .. max : g[j] = Mult(n, f[j], z)}
  <1>1. y \in Elements(n)
    BY MultElement
  <1>2. f[0] = x /\ \A j \in Nat : f[j] \in Elements(n) /\ f[j + 1] = TimesX(n, f[j])
    BY ShiftedSteps
  <1>3. g[0] = y /\ \A j \in Nat : g[j + 1] = TimesX(n, g[j])
    BY <1>1, ShiftedSteps
  <1> HIDE DEF f, g
  <1>4. 0 \in Q
    BY <1>2, <1>3
  <1>5. ASSUME NEW j \in 0 .. max - 1, j \in Q PROVE j + 1 \in Q
    <2>1. j \in Nat /\ j + 1 \in 0 .. max /\ g[j] = Mult(n, f[j], z)
      BY <1>5
    <2>2. f[j] \in Elements(n)
      BY <1>2, <2>1
    <2>3. Mult(n, TimesX(n, f[j]), z) = TimesX(n, Mult(n, f[j], z))
      BY <2>2, MultShift
    <2>4. g[j + 1] = Mult(n, f[j + 1], z)
      BY <1>2, <1>3, <2>1, <2>3
    <2>5. QED
      BY <2>1, <2>4
  <1> HIDE DEF Q
  <1>6. 0 .. max \subseteq Q
    BY <1>4, <1>5, Induct
  <1>7. max \in Q
    BY <1>6
  <1>8. QED
    BY <1>7 DEF Q, f, g, y

\* Factors may be taken in any order.
LEMMA MultCommutes ==
  ASSUME NEW n, FieldOf(n), NEW x \in Elements(n), NEW z \in Nat, NEW w \in Nat
  PROVE  Mult(n, Mult(n, x, z), w) = Mult(n, Mult(n, x, w), z)
  <1> DEFINE y == Mult(n, x, z)
             F == Products(n, x, w)
             G == Products(n, y, w)
             f == Shifted(n, x)
             g == Shifted(n, y)
             Q == {j \in 0 .. n : G[j] = Mult(n, F[j], z)}
  <1>1. y \in Elements(n) /\ n \in Nat /\ 0 \in Elements(n)
    BY MultElement, ZeroElement
  <1>2. \A j \in Nat : f[j] \in Elements(n)
    BY ShiftedSteps
  <1>3. \A j \in Nat : g[j] = Mult(n, f[j], z)
    BY MultShifted
  <1>4. F[0] = 0 /\ \A j \in Nat : F[j] \in Elements(n) /\ F[j + 1] = AddIf(Bit(w, j), F[j], f[j])
    BY ProductSteps
  <1> HIDE DEF y
  <1>5. G[0] = 0 /\ \A j \in Nat : G[j + 1] = AddIf(Bit(w, j), G[j], g[j])
    BY <1>1, ProductSteps
  <1> HIDE DEF F, G, f, g
  <1>6. 0 \in Q
    BY <1>1, <1>4, <1>5, MultZero
  <1>7. ASSUME NEW j \in 0 .. n - 1, j \in Q PROVE j + 1 \in Q
    <2>1. j \in Nat /\ j + 1 \in 0 .. n /\ G[j] = Mult(n, F[j], z)
      BY <1>1, <1>7
    <2>2. F[j] \in Elements(n) /\ f[j] \in Elements(n)
      BY <1>2, <1>4, <2>1
    <2>3. Mult(n, Xor(F[j], f[j]), z) = Xor(Mult(n, F[j], z), Mult(n, f[j], z))
      BY <2>2, MultAdds
    <2>4. G[j + 1] = Mult(n, F[j + 1], z)
      BY <1>3, <1>4, <1>5, <2>1, <2>3 DEF AddIf
    <2>5. QED
      BY <2>1, <2>4
  <1> HIDE DEF Q
  <1>8. 0 .. n \subseteq Q
    BY <1>1, <1>6, <1>7, Induct
  <1>9. n \in Q
    BY <1>1, <1>8
  <1>10. QED
    BY <1>9 DEF Q, F, G, y, Mult

-----------------------------------------------------------------------------
(* Polynomials over GF(2^n), which have no more roots than their degree. *)

\* After some turns of horner_poly_gf2n at c: the value of the polynomial whose
\* coefficients, the highest first, are those of f up to there.
HornerX(n, f, c) ==
  CHOOSE h : Iterates(h, Elements(n), f[0], [j \in Nat |-> [y \in Elements(n) |-> Xor(Mult(n, y, c), f[j])]])

\* The equation of HornerX.
LEMMA HornerXSteps ==
  ASSUME NEW n, FieldOf(n), NEW f \in [Nat -> Elements(n)], NEW c \in Elements(n)
  PROVE  /\ HornerX(n, f, c) \in [Nat -> Elements(n)] /\ HornerX(n, f, c)[0] = f[0]
         /\ \A j \in Nat : HornerX(n, f, c)[j + 1] = Xor(Mult(n, HornerX(n, f, c)[j], c), f[j + 1])
  <1> DEFINE Y == Elements(n)
             step == [j \in Nat |-> [y \in Y |-> Xor(Mult(n, y, c), f[j])]]
             Is(g) == Iterates(g, Y, f[0], step)
             q == HornerX(n, f, c)
  <1>1. \A j \in Nat, y \in Y : step[j][y] = Xor(Mult(n, y, c), f[j]) /\ step[j][y] \in Y
    <2>1. ASSUME NEW j \in Nat, NEW y \in Y PROVE Xor(Mult(n, y, c), f[j]) \in Y
      <3>1. c \in Nat /\ n \in Nat /\ f[j] \in Elements(n)
        BY ZeroElement
      <3>2. Mult(n, y, c) \in Elements(n)
        BY <3>1, MultElement
      <3>3. QED
        BY <3>1, <3>2, XorElement
    <2> HIDE DEF Y
    <2>2. QED
      BY <2>1
  <1>2. PICK F : Is(F)
    <2>1. f[0] \in Y
      OBVIOUS
    <2> HIDE DEF step, Y
    <2>2. \A j \in Nat, y \in Y : step[j][y] \in Y
      BY <1>1
    <2>3. QED
      BY <2>1, <2>2, Recursion
  <1>3. Is(q)
    <2>1. q = CHOOSE g : Is(g)
      BY DEF HornerX
    <2> HIDE DEF Is, q
    <2>2. QED
      BY <1>2, <2>1
  <1> HIDE DEF q, step, Y
  <1>4. q \in [Nat -> Y] /\ q[0] = f[0] /\ \A j \in Nat : q[j + 1] = step[j + 1][q[j]]
    BY <1>3 DEF Iterates
  <1>5. \A j \in Nat : q[j + 1] = Xor(Mult(n, q[j], c), f[j + 1])
    <2>1. \A j \in Nat : q[j] \in Y /\ j + 1 \in Nat
      BY <1>4
    <2>2. QED
      BY <1>1, <1>4, <2>1
  <1>6. QED
    BY <1>4, <1>5 DEF q, Y

\* The value of a sum is the sum of the values.
LEMMA HornerXSum ==
  ASSUME NEW n, FieldOf(n), NEW f \in [Nat -> Elements(n)], NEW g \in [Nat -> Elements(n)],
         NEW h \in [Nat -> Elements(n)], NEW c \in Elements(n), NEW max \in Nat,
         \A j \in Nat : h[j] = Xor(f[j], g[j])
  PROVE  HornerX(n, h, c)[max] = Xor(HornerX(n, f, c)[max], HornerX(n, g, c)[max])
  <1> DEFINE F == HornerX(n, f, c)
             G == HornerX(n, g, c)
             H == HornerX(n, h, c)
             Q == {j \in 0 .. max : H[j] = Xor(F[j], G[j])}
  <1>1. F \in [Nat -> Elements(n)] /\ F[0] = f[0] /\ \A j \in Nat : F[j + 1] = Xor(Mult(n, F[j], c), f[j + 1])
    BY HornerXSteps
  <1>2. G \in [Nat -> Elements(n)] /\ G[0] = g[0] /\ \A j \in Nat : G[j + 1] = Xor(Mult(n, G[j], c), g[j + 1])
    BY HornerXSteps
  <1>3. H[0] = h[0] /\ \A j \in Nat : H[j + 1] = Xor(Mult(n, H[j], c), h[j + 1])
    BY HornerXSteps
  <1>4. c \in Nat /\ Elements(n) \subseteq Nat
    BY ZeroElement
  <1> HIDE DEF F, G, H
  <1>5. 0 \in Q
    BY <1>1, <1>2, <1>3
  <1>6. ASSUME NEW j \in 0 .. max - 1, j \in Q PROVE j + 1 \in Q
    <2> DEFINE x == F[j]
               y == G[j]
               u == f[j + 1]
               v == g[j + 1]
               p == Mult(n, x, c)
               q == Mult(n, y, c)
    <2>1. j \in Nat /\ j + 1 \in Nat /\ j + 1 \in 0 .. max /\ H[j] = Xor(x, y) /\ h[j + 1] = Xor(u, v)
      BY <1>6
    <2>2. x \in Elements(n) /\ y \in Elements(n) /\ u \in Nat /\ v \in Nat
      BY <1>1, <1>2, <1>4, <2>1
    <2>3. H[j + 1] = Xor(Mult(n, Xor(x, y), c), Xor(u, v)) /\ F[j + 1] = Xor(p, u) /\ G[j + 1] = Xor(q, v)
      BY <1>1, <1>2, <1>3, <2>1
    <2> HIDE DEF x, y, u, v
    <2>4. Mult(n, Xor(x, y), c) = Xor(p, q)
      BY <1>4, <2>2, MultAdds
    <2>5. p \in Nat /\ q \in Nat
      BY <1>4, <2>2, MultElement
    <2> HIDE DEF p, q
    <2>6. Xor(Xor(p, q), Xor(u, v)) = Xor(Xor(p, u), Xor(q, v))
      BY <2>2, <2>5, XorRegrouped
    <2>7. H[j + 1] = Xor(F[j + 1], G[j + 1])
      BY <2>3, <2>4, <2>6
    <2>8. QED
      BY <2>1, <2>7
  <1> HIDE DEF Q
  <1>7. 0 .. max \subseteq Q
    BY <1>5, <1>6, Induct
  <1>8. max \in Q
    BY <1>7
  <1>9. QED
    BY <1>8 DEF Q, F, G, H

\* f is x + c times the quotient g, plus a rest.
DividedX(n, f, c, g, x, j) == HornerX(n, f, x)[j + 1] = Xor(Mult(n, HornerX(n, g, x)[j], Xor(x, c)), g[j + 1])

\* A polynomial divided by x + c: the coefficients of the quotient are the
\* values Horner's rule goes through at c, and the last of them is the rest.
LEMMA DividedByLinearX ==
  ASSUME NEW n, FieldOf(n), NEW f \in [Nat -> Elements(n)], NEW c \in Elements(n), NEW g, g = HornerX(n, f, c),
         NEW x \in Elements(n), NEW max \in Nat
  PROVE  DividedX(n, f, c, g, x, max)
  <1> DEFINE F == HornerX(n, f, x)
             H == HornerX(n, g, x)
             w == Xor(x, c)
             Q == {j \in 0 .. max : F[j + 1] = Xor(Mult(n, H[j], w), g[j + 1])}
  <1>1. g \in [Nat -> Elements(n)] /\ g[0] = f[0] /\ \A j \in Nat : g[j + 1] = Xor(Mult(n, g[j], c), f[j + 1])
    BY HornerXSteps
  <1>2. F[0] = f[0] /\ \A j \in Nat : F[j + 1] = Xor(Mult(n, F[j], x), f[j + 1])
    BY HornerXSteps
  <1>3. H \in [Nat -> Elements(n)] /\ H[0] = g[0] /\ \A j \in Nat : H[j + 1] = Xor(Mult(n, H[j], x), g[j + 1])
    BY <1>1, HornerXSteps
  <1>4. x \in Nat /\ c \in Nat /\ Elements(n) \subseteq Nat /\ n \in Nat
    BY ZeroElement
  <1>5. w \in Nat
    BY <1>4, XorBit
  \* y * x + e = y * (x + c) + (y * c + e)
  <1>6. ASSUME NEW y \in Elements(n), NEW e \in Nat
        PROVE  Xor(Mult(n, y, x), e) = Xor(Mult(n, y, w), Xor(Mult(n, y, c), e))
    <2> DEFINE p == Mult(n, y, x)
               q == Mult(n, y, c)
    <2>1. p \in Nat /\ q \in Nat
      BY <1>4, MultElement
    <2>2. Mult(n, y, w) = Xor(p, q)
      BY <1>4, MultAddsFactors
    <2> HIDE DEF p, q, w
    <2>3. Xor(p, q) \in Nat
      BY <2>1, XorBit
    <2>4. Xor(Xor(p, q), Xor(q, e)) = Xor(p, Xor(q, Xor(q, e)))
      <3>1. Xor(q, e) \in Nat
        BY <2>1, XorBit
      <3>2. QED
        BY <2>1, <3>1, XorAssociates
    <2>5. Xor(q, Xor(q, e)) = e
      <3>1. Xor(Xor(q, q), e) = Xor(q, Xor(q, e))
        BY <2>1, XorAssociates
      <3>2. Xor(q, q) = 0
        BY <2>1, XorZero
      <3>3. Xor(0, e) = e
        BY XorZero
      <3>4. QED
        BY <3>1, <3>2, <3>3
    <2>6. QED
      BY <2>2, <2>4, <2>5 DEF p, q
  <1> HIDE DEF F, H, w
  <1>7. 0 \in Q
    <2> DEFINE y == f[0]
               e == f[1]
    <2>1. y \in Elements(n) /\ e \in Nat /\ 0 + 1 = 1
      BY <1>4
    <2>2. F[0 + 1] = Xor(Mult(n, y, x), e)
      BY <1>2, <2>1
    <2>3. H[0] = y /\ g[0 + 1] = Xor(Mult(n, y, c), e)
      BY <1>1, <1>3, <2>1
    <2> HIDE DEF y, e
    <2>4. F[0 + 1] = Xor(Mult(n, H[0], w), g[0 + 1])
      BY <1>6, <2>1, <2>2, <2>3
    <2>5. QED
      BY <2>4
  <1>8. ASSUME NEW j \in 0 .. max - 1, j \in Q PROVE j + 1 \in Q
    <2> DEFINE z == H[j]
               y == g[j + 1]
               e == f[j + 2]
               p == Mult(n, z, w)
    <2>1. j \in Nat /\ j + 1 \in Nat /\ j + 1 \in 0 .. max /\ (j + 1) + 1 = j + 2 /\ j + 2 \in Nat
      BY <1>8
    <2>2. z \in Elements(n) /\ y \in Elements(n) /\ e \in Nat
      BY <1>1, <1>3, <1>4, <2>1
    <2>3. F[j + 1] = Xor(p, y)
      BY <1>8
    <2>4. F[(j + 1) + 1] = Xor(Mult(n, Xor(p, y), x), e)
      BY <1>2, <2>1, <2>3
    <2>5. H[j + 1] = Xor(Mult(n, z, x), y)
      BY <1>3, <2>1
    <2>6. g[(j + 1) + 1] = Xor(Mult(n, y, c), e)
      BY <1>1, <2>1
    <2> HIDE DEF z, y, e
    <2>7. p \in Elements(n) /\ Mult(n, z, x) \in Elements(n)
      BY <1>4, <1>5, <2>2, MultElement
    <2>8. Mult(n, Xor(p, y), x) = Xor(Mult(n, p, x), Mult(n, y, x))
      BY <1>4, <2>2, <2>7, MultAdds
    <2>9. Mult(n, p, x) = Mult(n, Mult(n, z, x), w)
      BY <1>4, <1>5, <2>2, MultCommutes
    <2>10. Mult(n, H[j + 1], w) = Xor(Mult(n, Mult(n, z, x), w), Mult(n, y, w))
      BY <1>5, <2>2, <2>5, <2>7, MultAdds
    <2>11. Xor(Mult(n, y, x), e) = Xor(Mult(n, y, w), Xor(Mult(n, y, c), e))
      BY <1>6, <2>2
    <2> DEFINE r == Mult(n, p, x)
               s == Mult(n, y, x)
               u == Mult(n, y, w)
               v == Xor(Mult(n, y, c), e)
    <2>12. r \in Nat /\ s \in Nat /\ u \in Nat
      BY <1>4, <1>5, <2>2, <2>7, MultElement
    <2>13. v \in Nat
      <3>1. Mult(n, y, c) \in Nat
        BY <1>4, <2>2, MultElement
      <3>2. QED
        BY <2>2, <3>1, XorBit
    <2>14. F[(j + 1) + 1] = Xor(Xor(r, s), e) /\ Mult(n, H[j + 1], w) = Xor(r, u) /\ Xor(s, e) = Xor(u, v)
      BY <2>4, <2>8, <2>9, <2>10, <2>11
    <2>15. g[(j + 1) + 1] = v
      BY <2>6
    <2> HIDE DEF r, s, u, v, p
    <2>16. Xor(Xor(r, s), e) = Xor(r, Xor(s, e))
      BY <2>2, <2>12, XorAssociates
    <2>17. Xor(r, Xor(u, v)) = Xor(Xor(r, u), v)
      BY <2>12, <2>13, XorAssociates
    <2>18. F[(j + 1) + 1] = Xor(Mult(n, H[j + 1], w), g[(j + 1) + 1])
      BY <2>14, <2>15, <2>16, <2>17
    <2>19. QED
      BY <2>1, <2>18
  <1> HIDE DEF Q
  <1>9. 0 .. max \subseteq Q
    BY <1>7, <1>8, Induct
  <1>10. max \in Q
    BY <1>9
  <1>11. QED
    BY <1>10 DEF Q, F, H, w, DividedX

\* A product in the field is 0 only if a factor is.
Integral(n) == \A u, v \in Elements(n) : Mult(n, u, v) = 0 => u = 0 \/ v = 0
\* Where the polynomial with coefficients f[0] to f[d] is 0, and that it is not
\* the 0 polynomial.
RootsX(n, f, d) == {x \in Elements(n) : HornerX(n, f, x)[d] = 0}
ProperX(f, d) == \E j \in 0 .. d : f[j] # 0

\* Taking out one root leaves a proper polynomial.
LEMMA QuotientProperX ==
  ASSUME NEW n, FieldOf(n), NEW d \in Nat, NEW f \in [Nat -> Elements(n)], ProperX(f, d + 1),
         NEW c \in Elements(n), NEW g, g = HornerX(n, f, c), g[d + 1] = 0
  PROVE  ProperX(g, d)
  <1>1. SUFFICES ASSUME \A j \in 0 .. d : g[j] = 0 PROVE FALSE
    BY DEF ProperX
  <1>2. g[0] = f[0] /\ \A j \in Nat : g[j + 1] = Xor(Mult(n, g[j], c), f[j + 1])
    BY HornerXSteps
  <1>3. PICK j \in 0 .. d + 1 : f[j] # 0
    BY DEF ProperX
  <1>4. CASE j = 0
    BY <1>1, <1>2, <1>3, <1>4
  <1>5. CASE j # 0
    <2>1. j - 1 \in Nat /\ j - 1 \in 0 .. d /\ (j - 1) + 1 = j /\ j \in Nat
      BY <1>5
    <2>2. g[j - 1] = 0 /\ g[j] = 0
      BY <1>1, <2>1
    <2>3. g[(j - 1) + 1] = Xor(Mult(n, g[j - 1], c), f[(j - 1) + 1])
      BY <1>2, <2>1
    <2>4. Mult(n, 0, c) = 0
      BY MultZero, ZeroElement
    <2>5. f[j] \in Nat
      BY <2>1, ZeroElement
    <2>6. Xor(0, f[j]) = f[j]
      BY <2>5, XorZero
    <2>7. QED
      BY <1>3, <2>1, <2>2, <2>3, <2>4, <2>6
  <1>6. QED
    BY <1>4, <1>5

\* A root other than the one taken out is a root of what is left.
LEMMA OtherRootsX ==
  ASSUME NEW n, FieldOf(n), Integral(n), NEW d \in Nat, NEW f \in [Nat -> Elements(n)],
         NEW c \in RootsX(n, f, d + 1), NEW g, g = HornerX(n, f, c)
  PROVE  RootsX(n, f, d + 1) \subseteq RootsX(n, g, d) \cup {c}
  <1>1. SUFFICES ASSUME NEW x \in RootsX(n, f, d + 1), x # c PROVE x \in RootsX(n, g, d)
    OBVIOUS
  <1>2. x \in Elements(n) /\ c \in Elements(n) /\ HornerX(n, f, x)[d + 1] = 0 /\ g[d + 1] = 0
    BY DEF RootsX
  <1>3. g \in [Nat -> Elements(n)]
    BY <1>2, HornerXSteps
  <1> DEFINE y == HornerX(n, g, x)[d]
             w == Xor(x, c)
             z == Mult(n, y, w)
  <1>4. x \in Nat /\ c \in Nat /\ n \in Nat
    BY <1>2, ZeroElement
  <1>5. y \in Elements(n)
    <2>1. HornerX(n, g, x) \in [Nat -> Elements(n)]
      BY <1>2, <1>3, HornerXSteps
    <2>2. QED
      BY <2>1
  <1>6. w \in Elements(n) /\ w \in Nat
    BY <1>2, <1>4, XorElement, ZeroElement
  <1>7. z \in Nat
    <2> HIDE DEF y, w
    <2>1. QED
      BY <1>5, <1>6, MultElement, ZeroElement
  <1>8. HornerX(n, f, x)[d + 1] = Xor(z, g[d + 1])
    <2>1. DividedX(n, f, c, g, x, d)
      BY <1>2, DividedByLinearX
    <2>2. QED
      BY <2>1 DEF DividedX
  <1> HIDE DEF y, w, z
  <1>9. z = 0
    BY <1>2, <1>7, <1>8, XorZero
  <1>10. w # 0
    BY <1>1, <1>4, XorEqual DEF w
  <1>11. y = 0
    BY <1>5, <1>6, <1>9, <1>10 DEF Integral, z
  <1>12. QED
    BY <1>2, <1>11 DEF RootsX, y

\* A proper polynomial of degree d has at most d roots.
LEMMA RootsBoundedX ==
  ASSUME NEW n, FieldOf(n), Integral(n), NEW max \in Nat, NEW f \in [Nat -> Elements(n)], ProperX(f, max)
  PROVE  IsFiniteSet(RootsX(n, f, max)) /\ Cardinality(RootsX(n, f, max)) <= max
  <1> DEFINE Few(g, d) == IsFiniteSet(RootsX(n, g, d)) /\ Cardinality(RootsX(n, g, d)) <= d
             Q == {d \in 0 .. max : \A g \in [Nat -> Elements(n)] : ProperX(g, d) => Few(g, d)}
  <1>1. 0 \in Q
    <2>1. ASSUME NEW g \in [Nat -> Elements(n)], ProperX(g, 0) PROVE Few(g, 0)
      <3>1. g[0] # 0
        BY <2>1 DEF ProperX
      <3>2. \A x \in Elements(n) : HornerX(n, g, x)[0] = g[0]
        BY HornerXSteps
      <3>3. RootsX(n, g, 0) = {}
        BY <3>1, <3>2 DEF RootsX
      <3>4. QED
        BY <3>3, FS_EmptySet
    <2>2. QED
      BY <2>1
  <1>2. ASSUME NEW d \in 0 .. max - 1, d \in Q PROVE d + 1 \in Q
    <2>1. d \in Nat /\ d + 1 \in 0 .. max /\ \A g \in [Nat -> Elements(n)] : ProperX(g, d) => Few(g, d)
      BY <1>2
    <2>2. ASSUME NEW g \in [Nat -> Elements(n)], ProperX(g, d + 1) PROVE Few(g, d + 1)
      <3>1. CASE RootsX(n, g, d + 1) = {}
        <4>1. 0 <= d + 1
          BY <2>1
        <4>2. IsFiniteSet({}) /\ Cardinality({}) = 0
          BY FS_EmptySet
        <4>3. QED
          BY <3>1, <4>1, <4>2
      <3>2. CASE RootsX(n, g, d + 1) # {}
        <4>1. PICK c : c \in RootsX(n, g, d + 1)
          BY <3>2
        <4> DEFINE h == HornerX(n, g, c)
                   R == RootsX(n, h, d)
        <4>2. c \in Elements(n) /\ h[d + 1] = 0
          BY <4>1 DEF RootsX
        <4>3. h \in [Nat -> Elements(n)]
          BY <4>2, HornerXSteps
        <4>4. ProperX(h, d)
          BY <2>1, <2>2, <4>2, QuotientProperX
        <4>5. IsFiniteSet(R) /\ Cardinality(R) <= d
          BY <2>1, <4>3, <4>4
        <4>6. RootsX(n, g, d + 1) \subseteq R \cup {c}
          BY <2>1, <4>1, OtherRootsX
        <4> HIDE DEF h, R
        <4>7. Cardinality(R) \in Nat
          BY <4>5, FS_CardinalityType
        <4>8. IsFiniteSet(R \cup {c}) /\ Cardinality(R \cup {c}) <= d + 1 /\ Cardinality(R \cup {c}) \in Nat
          <5>1. /\ IsFiniteSet(R \cup {c})
                /\ Cardinality(R \cup {c}) = IF c \in R THEN Cardinality(R) ELSE Cardinality(R) + 1
            BY <4>5, FS_AddElement
          <5>2. QED
            BY <2>1, <4>5, <4>7, <5>1
        <4> DEFINE S == RootsX(n, g, d + 1)
                   V == R \cup {c}
        <4>9. S \in SUBSET V /\ IsFiniteSet(V)
          BY <4>6, <4>8
        <4> HIDE DEF S, V
        <4>10. IsFiniteSet(S) /\ Cardinality(S) <= Cardinality(V)
          BY <4>9, FS_Subset
        <4>11. Cardinality(S) \in Nat
          BY <4>10, FS_CardinalityType
        <4>12. Cardinality(V) <= d + 1 /\ Cardinality(V) \in Nat
          BY <4>8 DEF V
        <4>13. Cardinality(S) <= d + 1
          BY <2>1, <4>10, <4>11, <4>12
        <4>14. QED
          BY <4>10, <4>13 DEF S
      <3>3. QED
        BY <3>1, <3>2
    <2>3. QED
      BY <2>1, <2>2
  <1> HIDE DEF Q
  <1>3. 0 .. max \subseteq Q
    BY <1>1, <1>2, Induct
  <1>4. max \in Q
    BY <1>3
  <1>5. Few(f, max)
    BY <1>4 DEF Q
  <1>6. QED
    BY <1>5

\* x divided by b n times is x divided by the n-th power of b.
LEMMA QuotientByPower ==
  ASSUME NEW b \in Nat \ {0}, NEW x \in Nat, NEW max \in Nat
  PROVE  Quotients(b, x)[max] = x \div Power(b)[max]
  <1> DEFINE f == Quotients(b, x)
             P == Power(b)
             Q == {n \in 0 .. max : P[n] \in Nat \ {0} /\ \E e \in 0 .. P[n] - 1 : x = P[n] * f[n] + e}
  <1>1. f \in [Nat -> Nat] /\ f[0] = x /\ \A n \in Nat : f[n + 1] = f[n] \div b
    BY QuotientSteps
  <1>2. P[0] = 1 /\ \A n \in Nat : P[n + 1] = b * P[n]
    BY PowerSteps DEF PowersOf
  <1> HIDE DEF f, P
  <1>3. 0 \in Q
    <2>1. 0 \in 0 .. P[0] - 1 /\ x = P[0] * f[0] + 0
      BY <1>1, <1>2
    <2>2. QED
      BY <1>2, <2>1
  <1>4. ASSUME NEW n \in 0 .. max - 1, n \in Q PROVE n + 1 \in Q
    <2> DEFINE p == P[n]
               q == f[n]
               r == q \div b
               s == q % b
    <2>1. n \in Nat /\ n + 1 \in 0 .. max /\ p \in Nat \ {0}
      BY <1>4
    <2>2. PICK e \in 0 .. p - 1 : x = p * q + e
      BY <1>4
    <2>3. P[n + 1] = b * p /\ f[n + 1] = r /\ q \in Nat
      BY <1>1, <1>2, <2>1
    <2> HIDE DEF p, q
    <2>4. r \in Nat /\ s \in 0 .. b - 1 /\ q = b * r + s
      BY <2>3, Divides
    <2> HIDE DEF r, s
    <2> DEFINE d == p * s + e
    <2>5. x = (b * p) * r + d
      <3>1. p * q = (b * p) * r + p * s
        BY <2>1, <2>4
      <3>2. (b * p) * r \in Nat /\ p * s \in Nat
        BY <2>1, <2>4
      <3>3. QED
        BY <2>2, <3>1, <3>2
    <2>6. d \in 0 .. (b * p) - 1 /\ b * p \in Nat \ {0}
      <3>1. p * s <= p * (b - 1) /\ p * (b - 1) = b * p - p /\ p * s \in Nat /\ b * p \in Nat
        BY <2>1, <2>4
      <3>2. b * p # 0
        BY <2>1
      <3>3. QED
        BY <2>1, <2>2, <3>1, <3>2
    <2> HIDE DEF d
    <2>7. P[n + 1] \in Nat \ {0} /\ d \in 0 .. P[n + 1] - 1 /\ x = P[n + 1] * f[n + 1] + d
      BY <2>3, <2>5, <2>6
    <2>8. QED
      BY <2>1, <2>7
  <1> HIDE DEF Q
  <1>5. 0 .. max \subseteq Q
    BY <1>3, <1>4, Induct
  <1>6. max \in Q
    BY <1>5
  <1>7. PICK e \in 0 .. P[max] - 1 : x = P[max] * f[max] + e
    BY <1>6 DEF Q
  <1>8. P[max] \in Nat \ {0} /\ f[max] \in Nat
    BY <1>1, <1>6 DEF Q
  <1>9. x \div P[max] = f[max]
    BY <1>7, <1>8, QuotientUnique
  <1>10. QED
    BY <1>9 DEF f, P

\* The polynomial of row x: the digits of x in base b, the lowest first, and its
\* value at c in the field.
CoefficientsX(b, d, x) == [j \in Nat |-> IF j <= d THEN Quotients(b, x)[j] % b ELSE 0]
ValueX(n, d, x, c) == HornerX(n, CoefficientsX(Power(2)[n], d, x), c)[d]

\* Coefficients are field elements.
LEMMA CoefficientsXType ==
  ASSUME NEW n, FieldOf(n), NEW b, b = Power(2)[n], NEW d \in Nat, NEW x \in Nat
  PROVE  /\ CoefficientsX(b, d, x) \in [Nat -> Elements(n)]
         /\ \A j \in 0 .. d : CoefficientsX(b, d, x)[j] = Quotients(b, x)[j] % b
  <1> DEFINE f == Quotients(b, x)
             C == CoefficientsX(b, d, x)
  <1>1. b \in Nat \ {0} /\ Elements(n) = 0 .. b - 1
    BY PowersOfTwo, ZeroElement DEF Elements
  <1>2. f \in [Nat -> Nat]
    BY <1>1, QuotientSteps
  <1>3. C = [j \in Nat |-> IF j <= d THEN f[j] % b ELSE 0]
    BY DEF CoefficientsX
  <1> HIDE DEF f, C
  <1>4. \A j \in 0 .. d : C[j] = f[j] % b
    BY <1>3
  <1>5. \A j \in Nat : C[j] \in 0 .. b - 1
    <2>1. ASSUME NEW j \in Nat PROVE C[j] \in 0 .. b - 1
      <3>1. f[j] \in Nat
        BY <1>2
      <3>2. f[j] % b \in 0 .. b - 1
        BY <1>1, <3>1
      <3>3. C[j] = IF j <= d THEN f[j] % b ELSE 0
        BY <1>3
      <3>4. 0 \in 0 .. b - 1
        BY <1>1
      <3>5. QED
        BY <3>2, <3>3, <3>4
    <2>2. QED
      BY <2>1
  <1>6. C \in [Nat -> Elements(n)]
    <2>1. C = [j \in Nat |-> C[j]]
      BY <1>3
    <2>2. QED
      BY <1>1, <1>5, <2>1
  <1>7. QED
    BY <1>4, <1>6 DEF f, C

\* Two rows below b to the d + 1 differ in a digit.
LEMMA DigitsDiffer ==
  ASSUME NEW b \in Nat, b >= 2, NEW d \in Nat, NEW x \in Nat, NEW y \in Nat, x # y,
         x < Power(b)[d + 1], y < Power(b)[d + 1]
  PROVE  \E j \in 0 .. d : Quotients(b, x)[j] % b # Quotients(b, y)[j] % b
  <1> DEFINE F == Coefficients(b, d, x)
             G == Coefficients(b, d, y)
             h == [n \in Nat |-> F[n] - G[n]]
  <1>1. b \in Nat \ {0}
    OBVIOUS
  <1>2. /\ F \in [Nat -> Int] /\ \A n \in 0 .. d : F[n] = Quotients(b, x)[d - n] % b
        /\ G \in [Nat -> Int] /\ \A n \in 0 .. d : G[n] = Quotients(b, y)[d - n] % b
    BY <1>1, CoefficientsType
  <1>3. \A n \in Nat : h[n] = F[n] - G[n]
    OBVIOUS
  <1> HIDE DEF h
  <1>4. Proper(h, d, b)
    BY <1>3, RowsDiffer
  <1> HIDE DEF F, G
  <1>5. PICK n \in 0 .. d : ~Divisible(h[n], b)
    BY <1>4 DEF Proper
  <1>6. F[n] # G[n]
    <2>1. SUFFICES ASSUME F[n] = G[n] PROVE Divisible(h[n], b)
      BY <1>5
    <2>2. F[n] \in Int /\ h[n] = F[n] - G[n]
      BY <1>2, <1>3
    <2>3. h[n] = 0 /\ h[n] = b * 0
      BY <2>1, <2>2
    <2>4. QED
      BY <2>3 DEF Divisible
  <1>7. d - n \in 0 .. d
    OBVIOUS
  <1>8. QED
    BY <1>2, <1>6, <1>7

\* Two rows have at most d values in common.
LEMMA FewCommonX ==
  ASSUME NEW n, FieldOf(n), Integral(n), NEW b, b = Power(2)[n], NEW d \in Nat, NEW x \in Nat, NEW y \in Nat, x # y,
         x < Power(b)[d + 1], y < Power(b)[d + 1],
         NEW C, C = {c \in Elements(n) : ValueX(n, d, x, c) = ValueX(n, d, y, c)}
  PROVE  IsFiniteSet(C) /\ Cardinality(C) <= d
  <1> DEFINE F == CoefficientsX(b, d, x)
             G == CoefficientsX(b, d, y)
             h == [j \in Nat |-> Xor(F[j], G[j])]
  <1>1. F \in [Nat -> Elements(n)] /\ \A j \in 0 .. d : F[j] = Quotients(b, x)[j] % b
    BY CoefficientsXType
  <1>2. G \in [Nat -> Elements(n)] /\ \A j \in 0 .. d : G[j] = Quotients(b, y)[j] % b
    BY CoefficientsXType
  <1>3. n \in Nat /\ Elements(n) \subseteq Nat
    BY ZeroElement
  <1> HIDE DEF F, G
  <1>4. h \in [Nat -> Elements(n)] /\ \A j \in Nat : h[j] = Xor(F[j], G[j])
    <2>1. \A j \in Nat : Xor(F[j], G[j]) \in Elements(n)
      BY <1>1, <1>2, <1>3, XorElement
    <2>2. QED
      BY <2>1
  <1> HIDE DEF h
  <1>5. ProperX(h, d)
    <2>1. b \in Nat /\ b >= 2
      <3>1. n >= 1
        BY DEF FieldOf
      <3>2. Power(2)[1] <= b
        BY <1>3, <3>1, PowerMonotone
      <3>3. Power(2)[0 + 1] = 2 * Power(2)[0] /\ Power(2)[0] = 1 /\ b \in Nat
        BY <1>3, PowersOfTwo
      <3>4. QED
        BY <3>2, <3>3
    <2>2. PICK j \in 0 .. d : Quotients(b, x)[j] % b # Quotients(b, y)[j] % b
      BY <2>1, DigitsDiffer
    <2>3. F[j] # G[j] /\ F[j] \in Nat /\ G[j] \in Nat
      BY <1>1, <1>2, <1>3, <2>2
    <2>4. Xor(F[j], G[j]) # 0
      BY <2>3, XorEqual
    <2>5. QED
      BY <1>4, <2>4 DEF ProperX
  <1>6. ASSUME NEW c \in Elements(n) PROVE HornerX(n, F, c)[d] = HornerX(n, G, c)[d] <=> HornerX(n, h, c)[d] = 0
    <2> DEFINE u == HornerX(n, F, c)[d]
               v == HornerX(n, G, c)[d]
    <2>1. HornerX(n, h, c)[d] = Xor(u, v)
      BY <1>1, <1>2, <1>4, HornerXSum
    <2>2. u \in Nat /\ v \in Nat
      <3>1. HornerX(n, F, c) \in [Nat -> Elements(n)]
        BY <1>1, HornerXSteps
      <3>2. HornerX(n, G, c) \in [Nat -> Elements(n)]
        BY <1>2, HornerXSteps
      <3>3. QED
        BY <1>3, <3>1, <3>2
    <2> HIDE DEF u, v
    <2>3. u = v => Xor(u, v) = 0
      BY <2>2, XorZero
    <2>4. Xor(u, v) = 0 => u = v
      BY <2>2, XorEqual
    <2>5. QED
      BY <2>1, <2>3, <2>4 DEF u, v
  <1>7. C = RootsX(n, h, d)
    BY <1>6 DEF RootsX, ValueX, F, G
  <1>8. QED
    BY <1>4, <1>5, <1>7, RootsBoundedX
-----------------------------------------------------------------------------
(* The steps of compute_Si over GF(2^n), and the polynomial of the row. *)

\* the field, and a degree with a polynomial for every row
FieldX ==
  /\ SizesOK /\ tReq \in TReqs /\ LogT = CeilLog2(tReq) /\ FieldOf(LogT) /\ t = Power(2)[LogT]
  /\ deg \in Nat /\ k \in Nat
  /\ pc \in {"params", "row", "digits", "horner", "done", "exit", "undefined"}
  /\ pc \notin {"params", "undefined", "exit"} => m <= Power(t)[deg + 1]
IndexX(j, x) == (x - 1) + t * ValueX(LogT, deg, j, x - 1)
\* the finished rows
RowsX ==
  /\ val \in Nat /\ a \in Nat /\ res \in Nat /\ indices \in Seq(Nat)
  /\ design \in Seq(Seq(Nat)) /\ Len(design) = i
  /\ pc = "params" => i = 0
  /\ pc \in {"row", "digits", "horner"} => i < m
  /\ pc = "done" => i = m
  /\ \A j \in 1 .. i : \A x \in 1 .. tReq : design[j][x] = IndexX(j - 1, x)
\* the zeros of the vector, and the first n digits of the row number after them
CoeffsX(n) ==
  /\ coeff \in [0 .. deg + n -> 0 .. t - 1]
  /\ \A j \in 0 .. deg : coeff[j] = 0
  /\ \A j \in 0 .. deg : j < n => coeff[deg + 1 + j] = Quotients(t, i)[j] % t
DigitsX ==
  pc = "digits" => k \in 0 .. deg /\ a = 0 /\ res = 0 /\ indices = <<>> /\ CoeffsX(k)
\* Horner's rule stays at 0 over the zeros.
SumX ==
  /\ k \in 0 .. 2 * deg + 2
  /\ k <= deg + 1 => res = 0
  /\ k > deg + 1 => res = HornerX(LogT, CoefficientsX(t, deg, i), a)[k - deg - 2]
LoopX ==
  pc = "horner" =>
    /\ CoeffsX(deg + 1) /\ SumX
    /\ a \in 0 .. tReq /\ Len(indices) = a /\ \A x \in 1 .. a : indices[x] = IndexX(i, x)
GF2X == FieldX /\ RowsX /\ DigitsX /\ LoopX
InvX == type = "gf2x" => GF2X

\* The field of the next power of two, with the table's polynomial.
LEMMA InitX == Init => InvX
  <1> SUFFICES ASSUME Init, type = "gf2x" PROVE GF2X
    BY DEF InvX
  <1> DEFINE n == CeilLog2(tReq)
  <1>1. /\ m \in Nat /\ tReq \in Nat /\ tReq >= 2 /\ tReq \in TReqs /\ t \in FieldSize
        /\ pc = "params" /\ deg = 0 /\ i = 0 /\ val = 0 /\ a = 0 /\ k = 0 /\ res = 0
        /\ indices = <<>> /\ design = <<>>
    BY ParamsAssumption DEF Init
  <1>2. FieldSize = NextPower(tReq)
    BY DEF FieldSize
  <1>3. t = Power(2)[n]
    BY <1>1, <1>2 DEF NextPower
  <1>4. n \in Nat /\ tReq <= Power(2)[n]
    BY <1>1, CeilLog2Is
  <1>5. Modulus(n) \in Power(2)[n] .. Power(2)[n + 1] - 1
    BY <1>1, TableAssumption DEF Modulus
  <1> HIDE DEF n
  <1>6. LogT = n
    BY <1>3, <1>4, LogOfPower DEF LogT
  <1>7. n # 0
    BY <1>1, <1>4, PowersOfTwo
  <1>8. t \in Nat /\ tReq <= t
    BY <1>3, <1>4, PowersOfTwo
  <1>9. FieldOf(LogT)
    BY <1>4, <1>5, <1>6, <1>7 DEF FieldOf
  <1>10. FieldX
    BY <1>1, <1>3, <1>6, <1>8, <1>9 DEF FieldX, SizesOK, n
  <1>11. RowsX
    BY <1>1 DEF RowsX
  <1>12. QED
    BY <1>1, <1>10, <1>11 DEF GF2X, DigitsX, LoopX

\* The degree, computed from t_requested, also fits the larger t.
LEMMA SetParamsX ==
  ASSUME GF2X, type = "gf2x", SetParams
  PROVE  GF2X'
  <1>1. PICK g \in Degrees(m, tReq) : deg' = g
    BY DEF SetParams
  <1>2. /\ pc = "params" /\ pc' \in {"row", "exit"} /\ m >= 2
        /\ UNCHANGED <<m, tReq, t, i, val, coeff, a, k, res, indices, design>>
    BY DEF SetParams
  <1>3. m \in Nat /\ t \in Nat /\ tReq \in Nat /\ 2 <= tReq /\ tReq <= t /\ i = 0 /\ k \in Nat
    BY <1>2 DEF GF2X, FieldX, SizesOK, RowsX
  <1>4. g \in Nat /\ m <= Power(tReq)[g + 1]
    BY <1>3, DegreeSuffices
  <1>5. Power(tReq)[g + 1] <= Power(t)[g + 1]
    <2>1. g + 1 \in Nat
      BY <1>4
    <2>2. QED
      BY <1>3, <2>1, PowersGrow
  <1> DEFINE P == Power(t)
             R == Power(tReq)
  <1>6. \A n \in Nat : P[n] \in Nat /\ R[n] \in Nat
    BY <1>3, PowerSteps DEF PowersOf
  <1>7. m <= P[g + 1]
    <2> HIDE DEF P, R
    <2>1. g + 1 \in Nat /\ m <= R[g + 1] /\ R[g + 1] <= P[g + 1]
      BY <1>4, <1>5 DEF P, R
    <2>2. P[g + 1] \in Nat /\ R[g + 1] \in Nat
      BY <1>6, <2>1
    <2>3. QED
      BY <1>3, <2>1, <2>2
  <1> HIDE DEF P, R
  <1>8. FieldX'
    <2>1. m' <= Power(t)[deg' + 1]
      BY <1>1, <1>2, <1>7 DEF P
    <2>2. FieldX
      BY DEF GF2X
    <2>3. QED
      BY <1>1, <1>2, <1>4, <2>1, <2>2 DEF FieldX, SizesOK, LogT, FieldOf, Modulus
  <1>9. RowsX'
    <2>1. RowsX
      BY DEF GF2X
    <2>2. QED
      BY <1>2, <1>3, <2>1 DEF RowsX
  <1>10. QED
    BY <1>2, <1>8, <1>9 DEF GF2X, DigitsX, LoopX

\* deg + 1 zeros to start with.
LEMMA StartRowX ==
  ASSUME GF2X, StartRow
  PROVE  GF2X'
  <1>1. /\ pc = "row" /\ i < m /\ pc' = "digits" /\ val' = i /\ coeff' = [j \in 0 .. deg |-> 0]
        /\ indices' = <<>> /\ a' = 0 /\ k' = 0 /\ res' = 0
        /\ UNCHANGED <<m, tReq, t, deg, i, design>>
    BY DEF StartRow
  <1>2. FieldX /\ RowsX /\ i \in Nat /\ t \in Nat /\ t >= 2 /\ deg \in Nat
    BY DEF GF2X, FieldX, SizesOK
  <1>3. FieldX'
    BY <1>1, <1>2 DEF FieldX, SizesOK, LogT, FieldOf, Modulus
  <1>4. RowsX'
    BY <1>1, <1>2 DEF RowsX, IndexX, LogT
  <1>5. CoeffsX(0)'
    <2>1. coeff' \in [0 .. deg + 0 -> 0 .. t - 1] /\ \A j \in 0 .. deg : coeff'[j] = 0 /\ ~(j < 0)
      BY <1>1, <1>2
    <2>2. QED
      BY <1>1, <2>1 DEF CoeffsX
  <1>6. DigitsX'
    <2>1. 0 \in 0 .. deg
      BY <1>2
    <2>2. QED
      BY <1>1, <1>5, <2>1 DEF DigitsX, CoeffsX
  <1>7. QED
    BY <1>1, <1>3, <1>4, <1>6 DEF GF2X, LoopX

\* The mask cuts the k-th digit out, and the vector takes it at its end.
LEMMA DigitX ==
  ASSUME GF2X, DigitGF2X
  PROVE  GF2X'
  <1> DEFINE d == (i \div Power(t)[k]) % t
  <1>1. /\ pc = "digits" /\ coeff' = [j \in 0 .. deg + 1 + k |-> IF j \in DOMAIN coeff THEN coeff[j] ELSE d]
        /\ \/ k < deg /\ k' = k + 1 /\ pc' = "digits"
           \/ ~(k < deg) /\ k' = 0 /\ pc' = "horner"
        /\ UNCHANGED <<m, tReq, t, deg, i, val, a, res, indices, design>>
    BY DEF DigitGF2X, NextDigit, Masked
  <1>2. /\ FieldX /\ RowsX /\ i \in Nat /\ t \in Nat /\ t >= 2 /\ deg \in Nat /\ k \in 0 .. deg
        /\ a = 0 /\ res = 0 /\ indices = <<>> /\ CoeffsX(k) /\ tReq \in Nat /\ i < m
    BY <1>1 DEF GF2X, FieldX, SizesOK, RowsX, DigitsX
  <1>3. d = Quotients(t, i)[k] % t
    <2>1. t \in Nat \ {0} /\ k \in Nat
      BY <1>2
    <2>2. QED
      BY <1>2, <2>1, QuotientByPower
  <1>4. d \in 0 .. t - 1
    <2> DEFINE q == Quotients(t, i)[k]
    <2>1. q \in Nat
      <3>1. t \in Nat \ {0} /\ k \in Nat
        BY <1>2
      <3>2. Quotients(t, i) \in [Nat -> Nat]
        BY <1>2, <3>1, QuotientSteps
      <3>3. QED
        BY <3>1, <3>2
    <2> HIDE DEF q
    <2>2. q % t \in 0 .. t - 1
      BY <1>2, <2>1
    <2>3. QED
      BY <1>3, <2>2 DEF q
  <1> HIDE DEF d
  <1>5. /\ coeff \in [0 .. deg + k -> 0 .. t - 1] /\ \A j \in 0 .. deg : coeff[j] = 0
        /\ \A j \in 0 .. deg : j < k => coeff[deg + 1 + j] = Quotients(t, i)[j] % t
    BY <1>2 DEF CoeffsX
  <1>6. /\ coeff' \in [0 .. deg + (k + 1) -> 0 .. t - 1]
        /\ \A j \in 0 .. deg + k : coeff'[j] = coeff[j]
        /\ coeff'[deg + 1 + k] = d
    <2>1. DOMAIN coeff = 0 .. deg + k /\ deg + 1 + k = deg + (k + 1)
      BY <1>2, <1>5
    <2>2. coeff' = [j \in 0 .. deg + (k + 1) |-> IF j \in 0 .. deg + k THEN coeff[j] ELSE d]
      BY <1>1, <2>1
    <2>3. \A j \in 0 .. deg + k : coeff'[j] = coeff[j] /\ coeff[j] \in 0 .. t - 1
      BY <1>2, <1>5, <2>2
    <2>4. coeff'[deg + (k + 1)] = d
      BY <1>2, <2>2
    <2>5. QED
      BY <1>2, <1>4, <2>1, <2>2, <2>3, <2>4
  <1>7. /\ \A j \in 0 .. deg : coeff'[j] = 0
        /\ \A j \in 0 .. deg : j < k + 1 => coeff'[deg + 1 + j] = Quotients(t, i)[j] % t
    <2>1. ASSUME NEW j \in 0 .. deg PROVE coeff'[j] = 0
      BY <1>2, <1>5, <1>6
    <2>2. ASSUME NEW j \in 0 .. deg, j < k + 1 PROVE coeff'[deg + 1 + j] = Quotients(t, i)[j] % t
      <3>1. CASE j = k
        BY <1>3, <1>6, <3>1
      <3>2. CASE j # k
        <4>1. j < k /\ deg + 1 + j \in 0 .. deg + k
          BY <1>2, <2>2, <3>2
        <4>2. QED
          BY <1>5, <1>6, <4>1
      <3>3. QED
        BY <3>1, <3>2
    <2>3. QED
      BY <2>1, <2>2
  <1>8. FieldX'
    <2>1. k' \in Nat
      BY <1>1, <1>2
    <2>2. QED
      BY <1>1, <1>2, <2>1 DEF FieldX, SizesOK, LogT, FieldOf, Modulus
  <1>9. RowsX'
    BY <1>1, <1>2 DEF RowsX, IndexX, LogT
  <1>10. CASE k < deg
    <2>1. k' = k + 1 /\ pc' = "digits" /\ k + 1 \in 0 .. deg
      BY <1>1, <1>2, <1>10
    <2>2. CoeffsX(k)'
      BY <1>1, <1>6, <1>7, <2>1 DEF CoeffsX
    <2>3. DigitsX'
      BY <1>1, <1>2, <2>1, <2>2 DEF DigitsX, CoeffsX
    <2>4. QED
      BY <1>8, <1>9, <2>1, <2>3 DEF GF2X, LoopX
  <1>11. CASE ~(k < deg)
    <2>1. k' = 0 /\ pc' = "horner" /\ k = deg
      BY <1>1, <1>2, <1>11
    <2>2. CoeffsX(deg + 1)'
      BY <1>1, <1>6, <1>7, <2>1 DEF CoeffsX
    <2>3. SumX'
      <3>1. 0 \in 0 .. 2 * deg + 2 /\ ~(0 > deg + 1)
        BY <1>2
      <3>2. QED
        BY <1>1, <1>2, <2>1, <3>1 DEF SumX
    <2>4. 0 \in 0 .. tReq /\ Len(<<>>) = 0 /\ 1 .. 0 = {}
      BY <1>2
    <2>5. LoopX'
      BY <1>1, <1>2, <2>2, <2>3, <2>4 DEF LoopX
    <2>6. QED
      BY <1>8, <1>9, <2>1, <2>5 DEF GF2X, DigitsX
  <1>12. QED
    BY <1>10, <1>11

\* A turn of Horner's rule in the field.
LEMMA HornerStepX ==
  ASSUME GF2X, type = "gf2x", HornerStep
  PROVE  GF2X'
  <1> DEFINE C == CoefficientsX(t, deg, i)
             H == HornerX(LogT, C, a)
             n == LogT
  <1>1. /\ pc = "horner" /\ a < tReq /\ k \in DOMAIN coeff
        /\ res' = Xor(Mult(n, res, a), coeff[k]) /\ k' = k + 1
        /\ UNCHANGED <<pc, m, tReq, t, deg, i, val, coeff, a, indices, design>>
    BY DEF HornerStep
  <1>2. /\ FieldX /\ RowsX /\ FieldOf(n) /\ t = Power(2)[n] /\ i \in Nat /\ t \in Nat /\ t >= 2 /\ deg \in Nat
        /\ tReq \in Nat /\ tReq <= t /\ a \in 0 .. tReq /\ k \in Nat /\ SumX /\ CoeffsX(deg + 1)
    BY <1>1 DEF GF2X, FieldX, SizesOK, LoopX
  <1>3. /\ coeff \in [0 .. deg + (deg + 1) -> 0 .. t - 1] /\ \A j \in 0 .. deg : coeff[j] = 0
        /\ \A j \in 0 .. deg : coeff[deg + 1 + j] = Quotients(t, i)[j] % t
    <2>1. \A j \in 0 .. deg : j < deg + 1
      BY <1>2
    <2>2. QED
      BY <1>2, <2>1 DEF CoeffsX
  <1>4. k \in 0 .. 2 * deg + 1
    BY <1>1, <1>2, <1>3
  <1>5. /\ C \in [Nat -> Elements(n)]
        /\ \A j \in 0 .. deg : coeff[deg + 1 + j] = C[j]
    <2>1. C \in [Nat -> Elements(n)] /\ \A j \in 0 .. deg : C[j] = Quotients(t, i)[j] % t
      BY <1>2, CoefficientsXType
    <2>2. QED
      BY <1>3, <2>1
  <1>6. a \in Elements(n)
    BY <1>1, <1>2 DEF Elements
  <1> HIDE DEF C, n
  <1>7. /\ H \in [Nat -> Elements(n)] /\ H[0] = C[0]
        /\ \A j \in Nat : H[j + 1] = Xor(Mult(n, H[j], a), C[j + 1])
    BY <1>2, <1>5, <1>6, HornerXSteps DEF n
  <1> HIDE DEF H
  <1>8. Elements(n) \subseteq Nat /\ Xor(0, 0) = 0 /\ Mult(n, 0, a) = 0 /\ C[0] \in Nat
    <2>1. Elements(n) \subseteq Nat
      BY <1>2, ZeroElement
    <2>2. a \in Nat /\ C[0] \in Nat
      BY <1>5, <1>6, <2>1
    <2>3. Mult(n, 0, a) = 0
      BY <1>2, <2>2, MultZero
    <2>4. Xor(0, 0) = 0
      BY XorZero
    <2>5. QED
      BY <2>1, <2>2, <2>3, <2>4
  <1>9. SumX' /\ res' \in Nat
    <2>1. CASE k <= deg
      <3>1. res = 0 /\ coeff[k] = 0
        BY <1>2, <1>3, <1>4, <2>1 DEF SumX
      <3>2. res' = 0
        BY <1>1, <1>8, <3>1
      <3>3. k + 1 \in 0 .. 2 * deg + 2 /\ ~(k + 1 > deg + 1)
        BY <1>2, <1>4, <2>1
      <3>4. QED
        BY <1>1, <3>2, <3>3 DEF SumX
    <2>2. CASE k = deg + 1
      <3>1. res = 0 /\ coeff[k] = C[0]
        <4>1. deg + 1 + 0 = deg + 1 /\ 0 \in 0 .. deg
          BY <1>2
        <4>2. QED
          BY <1>2, <1>5, <2>2, <4>1 DEF SumX
      <3>2. res' = H[0]
        <4>1. Xor(0, C[0]) = C[0]
          BY <1>8, XorZero
        <4>2. QED
          BY <1>1, <1>7, <1>8, <3>1, <4>1
      <3>3. k + 1 \in 0 .. 2 * deg + 2 /\ ~(k + 1 <= deg + 1) /\ (k + 1) - deg - 2 = 0
        BY <1>2, <2>2
      <3>4. res' \in Nat
        BY <1>7, <1>8, <3>2
      <3>5. QED
        BY <1>1, <3>2, <3>3, <3>4 DEF SumX, H, C, n, LogT
    <2>3. CASE k > deg + 1
      <3> DEFINE j == k - deg - 2
      <3>1. /\ j \in Nat /\ j + 1 \in 0 .. deg /\ deg + 1 + (j + 1) = k /\ (k + 1) - deg - 2 = j + 1
            /\ k + 1 \in 0 .. 2 * deg + 2 /\ ~(k + 1 <= deg + 1)
        BY <1>2, <1>4, <2>3
      <3>2. res = H[j]
        BY <1>2, <2>3 DEF SumX, H, C, n
      <3>3. coeff[k] = C[j + 1]
        BY <1>5, <3>1
      <3> HIDE DEF j
      <3>4. res' = H[j + 1] /\ j + 1 \in Nat
        BY <1>1, <1>7, <3>1, <3>2, <3>3
      <3>5. res' \in Nat
        BY <1>7, <1>8, <3>4
      <3>6. res' = H[(k + 1) - deg - 2]
        BY <3>1, <3>4
      <3>7. QED
        BY <1>1, <3>1, <3>5, <3>6 DEF SumX, H, C, n, LogT
    <2>4. QED
      BY <1>2, <1>4, <2>1, <2>2, <2>3
  <1>10. FieldX'
    <2>1. k' \in Nat
      BY <1>1, <1>2
    <2>2. QED
      BY <1>1, <1>2, <2>1 DEF FieldX, SizesOK, LogT, FieldOf, Modulus
  <1>11. RowsX'
    BY <1>1, <1>2, <1>9 DEF RowsX, IndexX, LogT
  <1>12. LoopX'
    <2>1. /\ a \in 0 .. tReq /\ Len(indices) = a /\ \A x \in 1 .. a : indices[x] = IndexX(i, x)
      BY <1>1 DEF GF2X, LoopX
    <2>2. CoeffsX(deg + 1)'
      BY <1>1, <1>2 DEF CoeffsX
    <2>3. QED
      BY <1>1, <1>9, <2>1, <2>2 DEF LoopX, IndexX, LogT
  <1>13. QED
    BY <1>1, <1>10, <1>11, <1>12 DEF GF2X, DigitsX

\* Element and value of the polynomial side by side, within t * t.
LEMMA ConcatenateExact ==
  ASSUME NEW b \in Nat, NEW x \in 0 .. b - 1, NEW y \in 0 .. b - 1
  PROVE  x + b * y < b * b /\ x + b * y \in Nat
  <1>1. b * (y + 1) <= b * b /\ b * (y + 1) = b * y + b /\ b * y \in Nat
    BY y + 1 <= b
  <1>2. QED
    BY <1>1

\* The end of the sum is the value of the row's polynomial.
LEMMA PushX ==
  ASSUME GF2X, PushGF2X
  PROVE  GF2X'
  <1> DEFINE C == CoefficientsX(t, deg, i)
             n == LogT
             index == Concatenate(a, res)
  <1>1. /\ pc = "horner" /\ a < tReq /\ k \notin DOMAIN coeff
        /\ indices' = Append(indices, index) /\ a' = a + 1 /\ k' = 0 /\ res' = 0
        /\ UNCHANGED <<pc, m, tReq, t, deg, i, val, coeff, design>>
    BY DEF PushGF2X, PushIndex
  <1>2. /\ FieldX /\ RowsX /\ FieldOf(n) /\ t = Power(2)[n] /\ i \in Nat /\ t \in Nat /\ t >= 2 /\ deg \in Nat
        /\ tReq \in Nat /\ tReq <= t /\ a \in 0 .. tReq /\ k \in Nat /\ SumX /\ CoeffsX(deg + 1)
        /\ indices \in Seq(Nat) /\ Len(indices) = a /\ \A x \in 1 .. a : indices[x] = IndexX(i, x)
    BY <1>1 DEF GF2X, FieldX, SizesOK, RowsX, LoopX
  <1>3. k = 2 * deg + 2
    <2>1. DOMAIN coeff = 0 .. deg + (deg + 1)
      BY <1>2 DEF CoeffsX
    <2>2. k \in 0 .. 2 * deg + 2
      BY <1>2 DEF SumX
    <2>3. QED
      BY <1>1, <1>2, <2>1, <2>2
  <1>4. a \in Elements(n)
    BY <1>1, <1>2 DEF Elements
  <1>5. res = HornerX(n, C, a)[deg]
    <2>1. k > deg + 1 /\ k - deg - 2 = deg
      BY <1>2, <1>3
    <2>2. QED
      BY <1>2, <2>1 DEF SumX
  <1>6. res \in Elements(n)
    <2>1. C \in [Nat -> Elements(n)]
      BY <1>2, CoefficientsXType
    <2> HIDE DEF C, n
    <2>2. HornerX(n, C, a) \in [Nat -> Elements(n)]
      BY <1>2, <1>4, <2>1, HornerXSteps
    <2>3. QED
      BY <1>2, <1>5, <2>2
  <1>7. res = ValueX(LogT, deg, i, a)
    BY <1>2, <1>5 DEF ValueX
  <1>8. a \in 0 .. t - 1 /\ res \in 0 .. t - 1
    BY <1>2, <1>4, <1>6 DEF Elements
  <1>9. index = a + t * res /\ index \in Nat
    <2>1. a + t * res < t * t /\ a + t * res \in Nat
      BY <1>2, <1>8, ConcatenateExact
    <2>2. res * t = t * res /\ t * t \in Nat
      BY <1>2, <1>8
    <2>3. QED
      BY <2>1, <2>2 DEF Concatenate
  <1>10. index = IndexX(i, a + 1)
    <2>1. (a + 1) - 1 = a
      BY <1>2
    <2>2. QED
      BY <1>7, <1>9, <2>1 DEF IndexX
  <1> HIDE DEF index, n, C
  <1>11. indices' \in Seq(Nat) /\ Len(indices') = a + 1
    BY <1>1, <1>2, <1>9
  <1>12. ASSUME NEW x \in 1 .. a + 1 PROVE indices'[x] = IndexX(i, x)
    <2>1. CASE x = a + 1
      BY <1>1, <1>2, <1>9, <1>10, <2>1
    <2>2. CASE x # a + 1
      <3>1. x \in 1 .. a
        BY <1>2, <1>12, <2>2
      <3>2. indices'[x] = indices[x]
        BY <1>1, <1>2, <1>9, <3>1
      <3>3. QED
        BY <1>2, <3>1, <3>2
    <2>3. QED
      BY <2>1, <2>2
  <1>13. FieldX'
    BY <1>1, <1>2 DEF FieldX, SizesOK, LogT, FieldOf, Modulus
  <1>14. RowsX'
    <2>1. a' \in Nat /\ res' \in Nat
      BY <1>1, <1>2
    <2>2. QED
      BY <1>1, <1>2, <1>11, <2>1 DEF RowsX, IndexX, LogT
  <1>15. LoopX'
    <2>1. CoeffsX(deg + 1)'
      BY <1>1, <1>2 DEF CoeffsX
    <2>2. SumX'
      <3>1. 0 \in 0 .. 2 * deg + 2 /\ ~(0 > deg + 1)
        BY <1>2
      <3>2. QED
        BY <1>1, <3>1 DEF SumX
    <2>3. a + 1 \in 0 .. tReq
      BY <1>1, <1>2
    <2>4. QED
      BY <1>1, <1>11, <1>12, <2>1, <2>2, <2>3 DEF LoopX, IndexX, LogT
  <1>16. QED
    BY <1>1, <1>13, <1>14, <1>15 DEF GF2X, DigitsX

\* The finished row holds the indices of its polynomial.
LEMMA EndRowX ==
  ASSUME GF2X, EndRow
  PROVE  GF2X'
  <1>1. /\ pc = "horner" /\ a = tReq /\ i' = i + 1 /\ design' = Append(design, indices)
        /\ pc' = (IF i + 1 < m THEN "row" ELSE "done")
        /\ UNCHANGED <<m, tReq, t, deg, val, coeff, a, k, res, indices>>
    BY DEF EndRow
  <1>2. /\ FieldX /\ RowsX /\ i \in Nat /\ m \in Nat /\ tReq \in Nat /\ i < m
        /\ indices \in Seq(Nat) /\ \A x \in 1 .. tReq : indices[x] = IndexX(i, x)
        /\ Len(design) = i /\ design \in Seq(Seq(Nat))
        /\ \A j \in 1 .. i : \A x \in 1 .. tReq : design[j][x] = IndexX(j - 1, x)
    BY <1>1 DEF GF2X, FieldX, SizesOK, RowsX, LoopX
  <1>3. FieldX'
    BY <1>1, <1>2 DEF FieldX, SizesOK, LogT, FieldOf, Modulus
  <1>4. ASSUME NEW j \in 1 .. i + 1, NEW x \in 1 .. tReq PROVE design'[j][x] = IndexX(j - 1, x)
    <2>1. design'[i + 1] = indices /\ \A l \in 1 .. i : design'[l] = design[l]
      BY <1>1, <1>2
    <2>2. CASE j = i + 1
      <3>1. j - 1 = i
        BY <1>2, <2>2
      <3>2. QED
        BY <1>2, <2>1, <2>2, <3>1
    <2>3. CASE j # i + 1
      <3>1. j \in 1 .. i
        BY <1>2, <2>3
      <3>2. QED
        BY <1>2, <2>1, <3>1
    <2>4. QED
      BY <2>2, <2>3
  <1>5. design' \in Seq(Seq(Nat)) /\ Len(design') = i + 1
    BY <1>1, <1>2
  <1>6. RowsX'
    BY <1>1, <1>2, <1>4, <1>5 DEF RowsX, IndexX, LogT
  <1>7. QED
    BY <1>1, <1>3, <1>6 DEF GF2X, DigitsX, LoopX

\* Every step keeps the correspondence with the polynomials.
LEMMA NextX ==
  ASSUME type \in Types, InvX, [Next]_vars
  PROVE  InvX'
  <1>1. type' = type
    BY DEF Next, vars, TooFewRows, SetParams, StartRow, DigitGFP, DigitGF2X, NextDigit,
           HornerStep, PushGFP, PushGF2X, PushIndex, EndRow, Stopped
  <1>2. SUFFICES ASSUME type = "gf2x", GF2X PROVE GF2X'
    BY <1>1 DEF InvX
  <1>3. CASE TooFewRows
    <2>1. /\ pc = "params" /\ pc' = "undefined"
          /\ UNCHANGED <<m, tReq, t, deg, i, val, coeff, a, k, res, indices, design>>
      BY <1>3 DEF TooFewRows
    <2>2. FieldX /\ RowsX
      BY <1>2 DEF GF2X
    <2>3. FieldX'
      BY <2>1, <2>2 DEF FieldX, SizesOK, LogT, FieldOf, Modulus
    <2>4. RowsX'
      BY <2>1, <2>2 DEF RowsX, IndexX, LogT
    <2>5. QED
      BY <2>1, <2>3, <2>4 DEF GF2X, DigitsX, LoopX
  <1>4. CASE SetParams
    BY <1>2, <1>4, SetParamsX
  <1>5. CASE StartRow
    BY <1>2, <1>5, StartRowX
  <1>6. CASE DigitGF2X
    BY <1>2, <1>6, DigitX
  <1>7. CASE HornerStep
    BY <1>2, <1>7, HornerStepX
  <1>8. CASE PushGF2X
    BY <1>2, <1>8, PushX
  <1>9. CASE EndRow
    BY <1>2, <1>9, EndRowX
  <1>10. CASE UNCHANGED vars
    <2>1. UNCHANGED <<pc, m, tReq, t, deg, i, val, coeff, a, k, res, indices, design>>
      BY <1>10 DEF vars
    <2>2. FieldX /\ RowsX /\ DigitsX /\ LoopX
      BY <1>2 DEF GF2X
    <2>3. FieldX'
      BY <2>1, <2>2 DEF FieldX, SizesOK, LogT, FieldOf, Modulus
    <2>4. RowsX'
      BY <2>1, <2>2 DEF RowsX, IndexX, LogT
    <2>5. DigitsX'
      BY <2>1, <2>2 DEF DigitsX, CoeffsX
    <2>6. LoopX'
      BY <2>1, <2>2 DEF LoopX, CoeffsX, SumX, IndexX, LogT
    <2>7. QED
      BY <2>3, <2>4, <2>5, <2>6 DEF GF2X
  <1>11. QED
    BY <1>2, <1>3, <1>4, <1>5, <1>6, <1>7, <1>8, <1>9, <1>10
       DEF Next, DigitGFP, PushGFP, Stopped

\* Over GF(2^n), compute_Si evaluates the polynomial whose coefficients are
\* the digits of the row number, by the field's own addition and product, and
\* the degree leaves one for every row.
THEOREM RowsArePolynomialsX == Spec => []InvX
  <1>1. Inv => type \in Types
    BY DEF Inv
  <1>2. QED
    BY <1>1, InitX, Invariance, NextX, PTL DEF Spec

\* The element of an index is its rest by t, and the index is below t * t.
LEMMA ElementIsRest ==
  ASSUME NEW b \in Nat, NEW x \in 0 .. b - 1, NEW y \in 0 .. b - 1, NEW index, index = x + b * y
  PROVE  index \in Nat /\ index < b * b /\ index % b = x
  <1>1. x + b * y < b * b /\ x + b * y \in Nat
    BY ConcatenateExact
  <1>2. b \in Nat \ {0} /\ x + b * y = b * y + x /\ x \in Nat /\ y \in Nat
    BY <1>1
  <1>3. (b * y + x) % b = x
    BY <1>2, QuotientUnique
  <1>4. QED
    BY <1>1, <1>2, <1>3

\* Values are field elements.
LEMMA ValueXType ==
  ASSUME NEW n, FieldOf(n), NEW b, b = Power(2)[n], NEW d \in Nat, NEW x \in Nat, NEW c \in 0 .. b - 1
  PROVE  ValueX(n, d, x, c) \in 0 .. b - 1
  <1> DEFINE C == CoefficientsX(b, d, x)
  <1>1. C \in [Nat -> Elements(n)]
    BY CoefficientsXType
  <1>2. c \in Elements(n)
    BY DEF Elements
  <1> HIDE DEF C
  <1>3. HornerX(n, C, c) \in [Nat -> Elements(n)]
    BY <1>1, <1>2, HornerXSteps
  <1>4. HornerX(n, C, c)[d] \in Elements(n)
    BY <1>3
  <1>5. QED
    BY <1>4 DEF ValueX, C, Elements

\* The indices of an unfinished row, and the reductions that never happen.
LEMMA ColumnsX ==
  ASSUME InvX, type = "gf2x"
  PROVE  IndicesByColumn
  <1>1. SUFFICES ASSUME pc = "horner" PROVE IndicesByColumn
    BY DEF IndicesByColumn
  <1>2. /\ t \in Nat /\ tReq \in Nat /\ tReq <= t /\ deg \in Nat /\ i \in Nat /\ FieldOf(LogT)
        /\ t = Power(2)[LogT] /\ a \in 0 .. tReq /\ Len(indices) = a
        /\ \A x \in 1 .. a : indices[x] = IndexX(i, x)
    BY <1>1 DEF InvX, GF2X, FieldX, SizesOK, LoopX
  <1>3. ASSUME NEW x \in 1 .. a PROVE indices[x] < t * t /\ x - 1 = indices[x] % t
    <2> DEFINE c == x - 1
               v == ValueX(LogT, deg, i, c)
    <2>1. indices[x] = c + t * v
      BY <1>2 DEF IndexX
    <2>2. c \in 0 .. t - 1
      BY <1>2
    <2> HIDE DEF c
    <2>3. v \in 0 .. t - 1
      BY <1>2, <2>2, ValueXType
    <2> HIDE DEF v
    <2> DEFINE index == indices[x]
    <2>4. index = c + t * v /\ t \in Nat
      BY <1>2, <2>1
    <2> HIDE DEF index
    <2>5. index < t * t /\ index % t = c
      BY <2>2, <2>3, <2>4, ElementIsRest
    <2>6. QED
      BY <2>5 DEF c, index
  <1>4. QED
    BY <1>1, <1>2, <1>3 DEF IndicesByColumn

\* A bit lies in a finished row exactly where the row's polynomial says.
LEMMA RowMembersX ==
  ASSUME InvX, type = "gf2x", pc = "done", NEW j \in 1 .. m, NEW index \in Row(j)
  PROVE  /\ index \in Nat /\ index < t * t /\ index % t \in 0 .. t - 1
         /\ index = (index % t) + t * ValueX(LogT, deg, j - 1, index % t)
  <1>1. /\ t \in Nat /\ tReq \in Nat /\ tReq <= t /\ deg \in Nat /\ m \in Nat /\ FieldOf(LogT)
        /\ t = Power(2)[LogT] /\ i = m
        /\ \A l \in 1 .. i : \A x \in 1 .. tReq : design[l][x] = IndexX(l - 1, x)
    BY DEF InvX, GF2X, FieldX, SizesOK, RowsX
  <1>2. PICK x \in 1 .. tReq : index = design[j][x]
    BY DEF Row
  <1> DEFINE c == x - 1
             l == j - 1
             v == ValueX(LogT, deg, l, c)
  <1>3. index = c + t * v
    BY <1>1, <1>2 DEF IndexX
  <1>4. c \in 0 .. t - 1 /\ l \in Nat
    BY <1>1
  <1> HIDE DEF c, l
  <1>5. v \in 0 .. t - 1
    BY <1>1, <1>4, ValueXType
  <1> HIDE DEF v
  <1>6. index \in Nat /\ index < t * t /\ index % t = c
    BY <1>1, <1>3, <1>4, <1>5, ElementIsRest
  <1>7. index = (index % t) + t * ValueX(LogT, deg, j - 1, index % t)
    BY <1>3, <1>6 DEF v, l
  <1>8. QED
    BY <1>4, <1>6, <1>7

\* Over GF(2^n) all indices are below t * t too.
LEMMA SeedX ==
  ASSUME InvX, type = "gf2x"
  PROVE  SeedSuffices
  <1>1. SizesOK
    BY DEF InvX, GF2X, FieldX
  <1>2. ASSUME pc = "done", NEW j \in 1 .. m, NEW index \in Row(j)
        PROVE  index \in Int /\ index < t * t
    BY <1>2, RowMembersX
  <1>3. QED
    BY <1>1, <1>2, SeedHolds

\* The types of a GF(2^n) design.
LEMMA TypesX ==
  ASSUME type \in Types, InvX, type = "gf2x"
  PROVE  TypeOK
  <1>1. GF2X
    BY DEF InvX
  <1>2. /\ m \in Nat /\ i \in Nat /\ t \in Nat \ {0} /\ tReq \in Nat /\ deg \in Nat /\ k \in Nat
        /\ pc \in {"params", "row", "digits", "horner", "done", "exit", "undefined"}
        /\ val \in Nat /\ a \in Nat /\ res \in Nat
        /\ indices \in Seq(Nat) /\ design \in Seq(Seq(Nat))
    BY <1>1 DEF GF2X, FieldX, SizesOK, RowsX
  <1>3. ASSUME NEW n, CoeffsX(n) PROVE coeff \in [DOMAIN coeff -> 0 .. t - 1]
    BY <1>3 DEF CoeffsX
  <1>4. pc \in {"digits", "horner"} => coeff \in [DOMAIN coeff -> 0 .. t - 1]
    <2>1. pc = "digits" => CoeffsX(k)
      BY <1>1 DEF GF2X, DigitsX
    <2>2. pc = "horner" => CoeffsX(deg + 1)
      BY <1>1 DEF GF2X, LoopX
    <2>3. QED
      BY <1>3, <2>1, <2>2
  <1>5. QED
    BY <1>2, <1>4 DEF TypeOK

\* the points where the two rows have the same value
CommonX(e, d, x, y) == {c \in Elements(e) : ValueX(e, d, x, c) = ValueX(e, d, y, c)}

\* A bit common to two rows of a GF(2^n) design is a common value too.
LEMMA SharedGF2X ==
  ASSUME InvX, type = "gf2x", pc = "done", NEW j \in 1 .. m, NEW l \in 1 .. j - 1,
         NEW index \in Row(j) \cap Row(l)
  PROVE  /\ index % t \in CommonX(LogT, deg, j - 1, l - 1)
         /\ index = (index % t) + t * ValueX(LogT, deg, j - 1, index % t)
  <1> DEFINE x == j - 1
             y == l - 1
             c == index % t
             v == ValueX(LogT, deg, x, c)
             w == ValueX(LogT, deg, y, c)
  <1>1. /\ m \in Nat /\ t \in Nat /\ deg \in Nat /\ FieldOf(LogT) /\ t = Power(2)[LogT] /\ t >= 2
    BY DEF InvX, GF2X, FieldX, SizesOK
  <1>2. x \in Nat /\ y \in Nat /\ l \in 1 .. m
    BY <1>1
  <1>3. c \in 0 .. t - 1 /\ index = c + t * v
    <2>1. index \in Row(j)
      OBVIOUS
    <2>2. QED
      BY <2>1, RowMembersX
  <1>4. index = c + t * w
    <2>1. index \in Row(l)
      OBVIOUS
    <2>2. QED
      BY <1>2, <2>1, RowMembersX
  <1> HIDE DEF c, x, y
  <1>5. v \in 0 .. t - 1 /\ w \in 0 .. t - 1
    BY <1>1, <1>2, <1>3, ValueXType
  <1> HIDE DEF v, w
  <1>6. v = w
    <2>1. v \in Int /\ w \in Int /\ t * v = t * w
      BY <1>1, <1>3, <1>4, <1>5
    <2>2. QED
      BY <1>1, <2>1
  <1>7. c \in CommonX(LogT, deg, x, y)
    BY <1>1, <1>3, <1>6 DEF CommonX, v, w, Elements
  <1>8. QED
    BY <1>3, <1>7 DEF c, x, y, v

\* Two rows of a GF(2^n) design share at most deg seed bits, by the same
\* argument, where the table's polynomial gives a field.
LEMMA OverlapX ==
  ASSUME InvX, type = "gf2x", NoZeroDivisors
  PROVE  SmallOverlap
  <1>1. SUFFICES ASSUME pc = "done", NEW j \in 1 .. m, NEW l \in 1 .. j - 1
                 PROVE  Cardinality(Row(j) \cap Row(l)) <= deg
    BY DEF SmallOverlap
  <1>2. /\ m \in Nat /\ t \in Nat /\ deg \in Nat /\ FieldOf(LogT) /\ t = Power(2)[LogT]
        /\ m <= Power(t)[deg + 1] /\ tReq \in TReqs /\ LogT = CeilLog2(tReq) /\ t >= 2
    BY <1>1 DEF InvX, GF2X, FieldX, SizesOK
  <1>3. Integral(LogT)
    BY <1>2 DEF NoZeroDivisors, Integral, Elements
  <1> DEFINE x == j - 1
             y == l - 1
             S == {c \in Elements(LogT) : ValueX(LogT, deg, x, c) = ValueX(LogT, deg, y, c)}
             T == Row(j) \cap Row(l)
  <1>4. x \in Nat /\ y \in Nat /\ x # y /\ x < m /\ y < m /\ l \in 1 .. m
    BY <1>1, <1>2
  <1>5. IsFiniteSet(S) /\ Cardinality(S) <= deg
    <2>1. Power(t)[deg + 1] \in Nat
      BY <1>2, PowerSteps DEF PowersOf
    <2>2. x < Power(t)[deg + 1] /\ y < Power(t)[deg + 1]
      BY <1>2, <1>4, <2>1
    <2> HIDE DEF x, y
    <2> DEFINE n == LogT
               P == Power(t)[deg + 1]
    <2>3. S = {c \in Elements(n) : ValueX(n, deg, x, c) = ValueX(n, deg, y, c)}
      OBVIOUS
    <2>4. /\ FieldOf(n) /\ Integral(n) /\ t = Power(2)[n] /\ deg \in Nat
          /\ x \in Nat /\ y \in Nat /\ x # y /\ x < P /\ y < P
      BY <1>2, <1>3, <1>4, <2>2
    <2> HIDE DEF S, n
    <2>5. QED
      BY ONLY <2>3, <2>4, FewCommonX DEF P
  <1>6. ASSUME NEW index \in T
        PROVE  index % t \in S /\ index = (index % t) + t * ValueX(LogT, deg, x, index % t)
    BY <1>1, <1>6, SharedGF2X DEF CommonX
  <1> DEFINE f == [c \in S |-> c + t * ValueX(LogT, deg, x, c)]
             U == {f[c] : c \in S}
  <1>7. f \in Surjection(S, U)
    <2> HIDE DEF S, x
    <2>1. f \in [S -> U]
      OBVIOUS
    <2>2. QED
      BY <2>1 DEF Surjection
  <1>8. T \in SUBSET U
    <2>1. SUFFICES ASSUME NEW index \in T PROVE index \in U
      OBVIOUS
    <2>2. index % t \in S /\ index = (index % t) + t * ValueX(LogT, deg, x, index % t)
      BY <1>6, <2>1
    <2> HIDE DEF S, T, x
    <2>3. f[index % t] = index
      BY <2>2
    <2>4. QED
      BY <2>2, <2>3
  <1> HIDE DEF S, T, U, f
  <1>9. IsFiniteSet(U) /\ Cardinality(U) <= Cardinality(S)
    BY <1>5, <1>7, FS_Surjection
  <1>10. IsFiniteSet(T) /\ Cardinality(T) <= Cardinality(U)
    BY <1>8, <1>9, FS_Subset
  <1>11. Cardinality(S) \in Nat /\ Cardinality(T) \in Nat /\ Cardinality(U) \in Nat
    BY <1>5, <1>9, <1>10, FS_CardinalityType
  <1>12. Cardinality(T) <= deg
    BY <1>2, <1>5, <1>9, <1>10, <1>11
  <1>13. QED
    BY <1>12 DEF T
-----------------------------------------------------------------------------
(* How many polynomials vanish at how many points. *)

\* An injection counts.
LEMMA Injected ==
  ASSUME NEW S, NEW T, IsFiniteSet(T), NEW f \in [S -> T],
         \A x, y \in S : f[x] = f[y] => x = y
  PROVE  IsFiniteSet(S) /\ Cardinality(S) \in Nat /\ Cardinality(T) \in Nat /\ Cardinality(S) <= Cardinality(T)
  <1>1. f \in Injection(S, T)
    BY DEF Injection, IsInjective
  <1>2. QED
    BY <1>1, FS_Injection, FS_CardinalityType

\* What the counting needs to know of polynomials of degree s, as functions
\* from 0 .. s to the field E: rt gives their roots, dv divides by x - p for a
\* root p in X, and low[p] takes the quotient's marked coefficient to theirs.
Division(E, X, mk, rt, dv, low) ==
  /\ 0 \in E /\ IsFiniteSet(E) /\ X \subseteq E
  /\ \A s \in Nat : mk[s] \in 0 .. s
  /\ \A f \in [0 .. 0 -> E] : f[0] # 0 => rt[0][f] = {}
  /\ \A p \in X : /\ low[p] \in [E -> E] /\ low[p][0] = 0
                  /\ \A u, v \in E : low[p][u] = low[p][v] => u = v
  /\ \A s \in Nat : \A p \in X : \A f \in [0 .. s + 1 -> E] :
       p \in rt[s + 1][f] =>
         /\ dv[s][p][f] \in [0 .. s -> E]
         /\ f[mk[s + 1]] = low[p][dv[s][p][f][mk[s]]]
         /\ rt[s + 1][f] \ {p} \subseteq rt[s][dv[s][p][f]]
         /\ \A g \in [0 .. s + 1 -> E] : p \in rt[s + 1][g] /\ dv[s][p][f] = dv[s][p][g] => f = g

\* the polynomials of degree s with the marked coefficient in V, each with a
\* set of points of P where it vanishes
Vanishing(E, mk, rt, s, V, P) ==
  {z \in [0 .. s -> E] \X SUBSET P : z[1][mk[s]] \in V /\ z[2] \subseteq rt[s][z[1]]}

\* Functions on 1 .. n.
LEMMA CountFunctions ==
  ASSUME NEW E, IsFiniteSet(E), NEW q, q = Cardinality(E), NEW max \in Nat
  PROVE  IsFiniteSet([1 .. max -> E]) /\ Cardinality([1 .. max -> E]) <= Power(q)[max]
  <1> DEFINE F(n) == [1 .. n -> E]
             P == Power(q)
             Q == {n \in 0 .. max : IsFiniteSet(F(n)) /\ Cardinality(F(n)) <= P[n]}
  <1>1. q \in Nat
    BY FS_CardinalityType
  <1>2. P[0] = 1 /\ \A n \in Nat : P[n] \in Nat /\ P[n + 1] = q * P[n]
    BY <1>1, PowerSteps DEF PowersOf
  <1> HIDE DEF P
  <1>3. 0 \in Q
    <2>1. IsFiniteSet({<<>>}) /\ Cardinality({<<>>}) = 1
      BY FS_Singleton
    <2> DEFINE g == [f \in F(0) |-> <<>>]
    <2>2. g \in [F(0) -> {<<>>}] /\ \A f, h \in F(0) : g[f] = g[h] => f = h
      OBVIOUS
    <2> HIDE DEF g, F
    <2>3. IsFiniteSet(F(0)) /\ Cardinality(F(0)) <= 1
      BY <2>1, <2>2, Injected
    <2>4. QED
      BY <1>2, <2>3
  <1>4. ASSUME NEW n \in 0 .. max - 1, n \in Q PROVE n + 1 \in Q
    <2> DEFINE S == F(n + 1)
               T == F(n) \X E
               g == [f \in S |-> <<[j \in 1 .. n |-> f[j]], f[n + 1]>>]
    <2>1. n \in Nat /\ n + 1 \in 0 .. max /\ IsFiniteSet(F(n)) /\ Cardinality(F(n)) <= P[n]
      BY <1>4
    <2>2. g \in [S -> T]
      <3>1. ASSUME NEW f \in S PROVE <<[j \in 1 .. n |-> f[j]], f[n + 1]>> \in T
        <4>1. f \in [1 .. n + 1 -> E] /\ n + 1 \in 1 .. n + 1 /\ \A j \in 1 .. n : j \in 1 .. n + 1
          BY <2>1
        <4>2. [j \in 1 .. n |-> f[j]] \in [1 .. n -> E] /\ f[n + 1] \in E
          BY <4>1
        <4>3. QED
          BY <4>2
      <3>2. QED
        BY <3>1
    <2>3. ASSUME NEW f \in S, NEW h \in S, g[f] = g[h] PROVE f = h
      <3> DEFINE fn == [j \in 1 .. n |-> f[j]]
                 hn == [j \in 1 .. n |-> h[j]]
      <3>1. g[f] = <<fn, f[n + 1]>> /\ g[h] = <<hn, h[n + 1]>>
        OBVIOUS
      <3>2. fn = hn /\ f[n + 1] = h[n + 1]
        BY <2>3, <3>1
      <3>3. \A j \in 1 .. n : f[j] = fn[j] /\ h[j] = hn[j]
        OBVIOUS
      <3> HIDE DEF fn, hn
      <3>4. \A j \in 1 .. n + 1 : j \in 1 .. n \/ j = n + 1
        BY <2>1
      <3>5. \A j \in 1 .. n + 1 : f[j] = h[j]
        BY <3>2, <3>3, <3>4
      <3>6. f \in [1 .. n + 1 -> E] /\ h \in [1 .. n + 1 -> E]
        OBVIOUS
      <3>7. QED
        BY <3>5, <3>6
    <2>4. IsFiniteSet(T) /\ Cardinality(T) = Cardinality(F(n)) * q /\ Cardinality(F(n)) \in Nat
      BY <2>1, FS_Product, FS_CardinalityType
    <2> HIDE DEF g, S, T
    <2>5. IsFiniteSet(S) /\ Cardinality(S) <= Cardinality(F(n)) * q
      BY <2>2, <2>3, <2>4, Injected
    <2> DEFINE c == Cardinality(F(n))
               w == P[n]
    <2>6. c \in Nat /\ c <= w /\ w \in Nat /\ P[n + 1] = q * w /\ Cardinality(S) <= c * q /\ Cardinality(S) \in Int
      BY <1>2, <2>1, <2>4, <2>5, FS_CardinalityType
    <2> HIDE DEF c, w
    <2>7. c * q <= w * q /\ w * q = q * w /\ c * q \in Nat /\ w * q \in Nat
      BY <1>1, <2>6
    <2>8. Cardinality(S) <= P[n + 1]
      BY <2>6, <2>7
    <2>9. QED
      BY <2>1, <2>5, <2>8 DEF S
  <1> HIDE DEF Q
  <1>5. 0 .. max \subseteq Q
    BY <1>3, <1>4, Induct
  <1>6. max \in Q
    BY <1>5
  <1>7. QED
    BY <1>6 DEF Q, P

\* With no point given there is one pair for each polynomial.
LEMMA CountMarked ==
  ASSUME NEW E, IsFiniteSet(E), NEW q, q = Cardinality(E), NEW mk, NEW rt, NEW s \in Nat, mk[s] \in 0 .. s,
         NEW V \in SUBSET E
  PROVE  /\ IsFiniteSet(Vanishing(E, mk, rt, s, V, {}))
         /\ Cardinality(Vanishing(E, mk, rt, s, V, {})) <= Cardinality(V) * Power(q)[s]
  <1> DEFINE S == Vanishing(E, mk, rt, s, V, {})
             F == [1 .. s -> E]
             T == V \X F
             rest(f) == [j \in 1 .. s |-> IF j <= mk[s] THEN f[j - 1] ELSE f[j]]
             g == [z \in S |-> <<z[1][mk[s]], rest(z[1])>>]
  <1>1. ASSUME NEW z \in S PROVE z[1] \in [0 .. s -> E] /\ z[2] = {} /\ z = <<z[1], z[2]>> /\ z[1][mk[s]] \in V
    BY DEF Vanishing
  <1>2. g \in [S -> T]
    <2>1. ASSUME NEW z \in S PROVE <<z[1][mk[s]], rest(z[1])>> \in T
      <3>1. \A j \in 1 .. s : (IF j <= mk[s] THEN z[1][j - 1] ELSE z[1][j]) \in E
        <4>1. z[1] \in [0 .. s -> E] /\ \A j \in 1 .. s : j \in 0 .. s /\ j - 1 \in 0 .. s
          BY <1>1
        <4>2. QED
          BY <4>1
      <3>2. QED
        BY <1>1, <3>1
    <2>2. QED
      BY <2>1
  <1>3. ASSUME NEW z \in S, NEW w \in S, g[z] = g[w] PROVE z = w
    <2> DEFINE f == z[1]
               h == w[1]
    <2>1. f \in [0 .. s -> E] /\ h \in [0 .. s -> E] /\ z = <<f, {}>> /\ w = <<h, {}>>
      BY <1>1
    <2>2. g[z] = <<f[mk[s]], rest(f)>> /\ g[w] = <<h[mk[s]], rest(h)>>
      OBVIOUS
    <2>3. f[mk[s]] = h[mk[s]] /\ rest(f) = rest(h)
      BY <1>3, <2>2
    <2>4. ASSUME NEW j \in 1 .. s
          PROVE  (IF j <= mk[s] THEN f[j - 1] ELSE f[j]) = (IF j <= mk[s] THEN h[j - 1] ELSE h[j])
      <3>1. rest(f)[j] = rest(h)[j]
        BY <2>3
      <3>2. QED
        BY <3>1
    <2> HIDE DEF f, h
    <2>5. ASSUME NEW j \in 0 .. s PROVE f[j] = h[j]
      <3>1. CASE j = mk[s]
        BY <2>3, <3>1
      <3>2. CASE j < mk[s]
        <4>1. j + 1 \in 1 .. s /\ j + 1 <= mk[s] /\ (j + 1) - 1 = j
          BY <3>2
        <4>2. QED
          BY <2>4, <4>1
      <3>3. CASE j > mk[s]
        <4>1. j \in 1 .. s /\ ~(j <= mk[s])
          BY <3>3
        <4>2. QED
          BY <2>4, <4>1
      <3>4. QED
        BY <3>1, <3>2, <3>3
    <2>6. f = h
      BY <2>1, <2>5
    <2>7. QED
      BY <2>1, <2>6
  <1>4. IsFiniteSet(F) /\ Cardinality(F) <= Power(q)[s]
    BY CountFunctions
  <1>5. IsFiniteSet(V)
    BY FS_Subset
  <1> HIDE DEF g, S, F
  <1>6. IsFiniteSet(T) /\ Cardinality(T) = Cardinality(V) * Cardinality(F)
    BY <1>4, <1>5, FS_Product
  <1> HIDE DEF T
  <1>7. IsFiniteSet(S) /\ Cardinality(S) \in Nat /\ Cardinality(S) <= Cardinality(T)
    BY <1>2, <1>3, <1>6, Injected
  <1> DEFINE c == Cardinality(F)
             w == Power(q)[s]
             v == Cardinality(V)
  <1>8. c \in Nat /\ c <= w /\ w \in Nat /\ v \in Nat /\ Cardinality(T) = v * c
    <2>1. q \in Nat
      BY FS_CardinalityType
    <2>2. w \in Nat
      BY <2>1, PowerSteps DEF PowersOf
    <2>3. QED
      BY <1>4, <1>5, <1>6, <2>2, FS_CardinalityType
  <1> HIDE DEF c, w, v
  <1>9. v * c <= v * w /\ v * c \in Nat /\ v * w \in Nat
    BY <1>8
  <1>10. Cardinality(S) <= v * w
    BY <1>7, <1>8, <1>9
  <1>11. QED
    BY <1>7, <1>10 DEF S, v, w

\* z of Z has at most v * Qs * (q + 1)^n / q^n elements.
Counted(q, Z, v, s, n) ==
  /\ IsFiniteSet(Z) /\ Cardinality(Z) \in Nat
  /\ Cardinality(Z) * Power(q)[n] <= v * Power(q)[s] * Power(q + 1)[n]

\* Arithmetic of one more point.
LEMMA OneMorePoint ==
  ASSUME NEW q \in Nat, NEW x \in Nat, NEW y \in Nat, NEW z \in Nat, z <= x + y,
         NEW u \in Nat, NEW w \in Nat, x * u <= w, q * (y * u) <= w
  PROVE  z * (q * u) <= (q + 1) * w
  <1>1. z * (q * u) <= (x + y) * (q * u)
    BY q * u \in Nat
  <1>2. (x + y) * (q * u) = q * (x * u) + q * (y * u)
    OBVIOUS
  <1>3. q * (x * u) <= q * w /\ (q + 1) * w = q * w + w
    <2> DEFINE e == x * u
    <2>1. e \in Nat /\ e <= w
      OBVIOUS
    <2> HIDE DEF e
    <2>2. q * e <= q * w /\ (q + 1) * w = q * w + w
      BY <2>1
    <2>3. QED
      BY <2>2 DEF e
  <1> DEFINE c1 == z * (q * u)
             c2 == (x + y) * (q * u)
             c3 == q * (x * u)
             c4 == q * (y * u)
             c5 == q * w
  <1>4. c1 \in Int /\ c2 \in Int /\ c3 \in Int /\ c4 \in Int /\ c5 \in Int
    OBVIOUS
  <1>5. c1 <= c2 /\ c2 = c3 + c4 /\ c3 <= c5 /\ (q + 1) * w = c5 + w /\ c4 <= w
    BY <1>1, <1>2, <1>3
  <1> HIDE DEF c1, c2, c3, c4, c5
  <1>6. c1 <= c5 + w
    BY <1>4, <1>5
  <1>7. QED
    BY <1>5, <1>6 DEF c1

\* the pairs with p, and the quotient's coefficients for theirs in V
With(p, Z) == {z \in Z : p \in z[2]}
Lowered(E, low, p, V) == {u \in E : low[p][u] \in V}

\* The polynomials that vanish at p, too, are x - p times one degree less.
LEMMA CountDivided ==
  ASSUME NEW E, NEW X, NEW mk, NEW rt, NEW dv, NEW low, Division(E, X, mk, rt, dv, low),
         NEW r \in Nat, NEW V \in SUBSET (E \ {0}), NEW p \in X, NEW P \in SUBSET X, p \in P,
         NEW W, W = Lowered(E, low, p, V), IsFiniteSet(Vanishing(E, mk, rt, r, W, P \ {p})),
         NEW Z, Z = With(p, Vanishing(E, mk, rt, r + 1, V, P))
  PROVE  /\ IsFiniteSet(Z) /\ Cardinality(Z) <= Cardinality(Vanishing(E, mk, rt, r, W, P \ {p}))
         /\ W \in SUBSET (E \ {0}) /\ Cardinality(W) \in Nat /\ Cardinality(W) <= Cardinality(V)
  <1>1. /\ low[p] \in [E -> E] /\ low[p][0] = 0
        /\ \A u, v \in E : low[p][u] = low[p][v] => u = v
        /\ IsFiniteSet(E) /\ 0 \in E
    BY DEF Division
  <1>2. W \in SUBSET (E \ {0}) /\ \A u \in W : low[p][u] \in V
    BY <1>1 DEF Lowered
  <1>3. Cardinality(W) \in Nat /\ Cardinality(W) <= Cardinality(V)
    <2> DEFINE g == [u \in W |-> low[p][u]]
    <2>1. g \in [W -> V] /\ \A u, v \in W : g[u] = g[v] => u = v
      BY <1>1, <1>2
    <2>2. IsFiniteSet(V)
      <3>1. V \in SUBSET E
        OBVIOUS
      <3>2. QED
        BY <1>1, <3>1, FS_Subset
    <2> HIDE DEF g
    <2>3. QED
      BY <2>1, <2>2, Injected
  <1>4. r + 1 \in Nat /\ mk[r + 1] \in 0 .. r + 1
    BY DEF Division
  <1> DEFINE D == dv[r][p]
             T == Vanishing(E, mk, rt, r, W, P \ {p})
             g == [z \in Z |-> <<D[z[1]], z[2] \ {p}>>]
  <1>5. ASSUME NEW z \in Z
        PROVE  /\ z = <<z[1], z[2]>> /\ z[1] \in [0 .. r + 1 -> E] /\ z[2] \in SUBSET P /\ p \in z[2]
               /\ z[1][mk[r + 1]] \in V /\ z[2] \subseteq rt[r + 1][z[1]]
    BY DEF Vanishing, With
  <1>6. ASSUME NEW z \in Z
        PROVE  /\ D[z[1]] \in [0 .. r -> E]
               /\ z[1][mk[r + 1]] = low[p][D[z[1]][mk[r]]]
               /\ rt[r + 1][z[1]] \ {p} \subseteq rt[r][D[z[1]]]
               /\ p \in rt[r + 1][z[1]]
    <2>1. p \in rt[r + 1][z[1]] /\ z[1] \in [0 .. r + 1 -> E]
      BY <1>5
    <2>2. QED
      BY <2>1 DEF Division
  <1>7. g \in [Z -> T]
    <2>1. ASSUME NEW z \in Z PROVE <<D[z[1]], z[2] \ {p}>> \in T
      <3> DEFINE f == D[z[1]]
                 A == z[2] \ {p}
      <3>1. f \in [0 .. r -> E] /\ z[1][mk[r + 1]] = low[p][f[mk[r]]] /\ rt[r + 1][z[1]] \ {p} \subseteq rt[r][f]
        BY <1>6
      <3>2. A \in SUBSET (P \ {p}) /\ A \subseteq rt[r + 1][z[1]] \ {p} /\ z[1][mk[r + 1]] \in V
        BY <1>5
      <3>3. mk[r] \in 0 .. r
        BY DEF Division
      <3> HIDE DEF f, A
      <3>4. f[mk[r]] \in W
        BY <3>1, <3>2, <3>3 DEF Lowered
      <3>5. A \subseteq rt[r][f]
        BY <3>1, <3>2
      <3>6. <<f, A>> \in T
        BY <3>1, <3>2, <3>4, <3>5 DEF Vanishing
      <3>7. QED
        BY <3>6 DEF f, A
    <2>2. QED
      BY <2>1
  <1>8. ASSUME NEW z \in Z, NEW w \in Z, g[z] = g[w] PROVE z = w
    <2>1. D[z[1]] = D[w[1]] /\ z[2] \ {p} = w[2] \ {p}
      BY <1>8
    <2>2. z[1] = w[1]
      <3>1. /\ z[1] \in [0 .. r + 1 -> E] /\ w[1] \in [0 .. r + 1 -> E]
            /\ p \in rt[r + 1][z[1]] /\ p \in rt[r + 1][w[1]]
        BY <1>5, <1>6
      <3>2. QED
        BY <2>1, <3>1 DEF Division
    <2>3. z[2] = w[2]
      <3> DEFINE A == z[2]
                 B == w[2]
      <3>1. p \in A /\ p \in B /\ A \ {p} = B \ {p}
        BY <1>5, <2>1
      <3> HIDE DEF A, B
      <3>2. \A x : x \in A <=> x \in B
        <4>1. \A x : x \in A \ {p} <=> x \in B \ {p}
          BY <3>1
        <4>2. QED
          BY ONLY <3>1, <4>1
      <3>3. A = B
        <4>1. A \in SUBSET P /\ B \in SUBSET P
          BY <1>5 DEF A, B
        <4>2. QED
          BY <3>2, <4>1
      <3>4. QED
        BY <3>3 DEF A, B
    <2>4. QED
      BY <1>5, <2>2, <2>3
  <1> HIDE DEF g, T
  <1>9. IsFiniteSet(T)
    BY DEF T
  <1>10. IsFiniteSet(Z) /\ Cardinality(Z) <= Cardinality(T)
    BY <1>7, <1>8, <1>9, Injected
  <1>11. QED
    BY <1>2, <1>3, <1>10 DEF T

\* At n points of X.
LEMMA CountVanishing ==
  ASSUME NEW E, NEW X, NEW mk, NEW rt, NEW dv, NEW low, Division(E, X, mk, rt, dv, low),
         NEW q, q = Cardinality(E), NEW max \in Nat
  PROVE  \A s \in Nat : \A V \in SUBSET (E \ {0}) : \A P \in SUBSET X :
           Cardinality(P) = max => Counted(q, Vanishing(E, mk, rt, s, V, P), Cardinality(V), s, max)
  <1> DEFINE Z(s, V, P) == Vanishing(E, mk, rt, s, V, P)
             Holds(n) == \A s \in Nat : \A V \in SUBSET (E \ {0}) : \A P \in SUBSET X :
                           Cardinality(P) = n => Counted(q, Z(s, V, P), Cardinality(V), s, n)
             Q == {n \in 0 .. max : Holds(n)}
  <1>1. IsFiniteSet(E) /\ 0 \in E /\ X \subseteq E /\ IsFiniteSet(X) /\ q \in Nat
    <2>1. IsFiniteSet(E) /\ 0 \in E /\ X \in SUBSET E
      BY DEF Division
    <2>2. QED
      BY <2>1, FS_Subset, FS_CardinalityType
  <1>2. /\ Power(q)[0] = 1 /\ Power(q + 1)[0] = 1
        /\ \A n \in Nat : /\ Power(q)[n] \in Nat /\ Power(q)[n + 1] = q * Power(q)[n]
                          /\ Power(q + 1)[n] \in Nat /\ Power(q + 1)[n + 1] = (q + 1) * Power(q + 1)[n]
    <2>1. q + 1 \in Nat
      BY <1>1
    <2>2. QED
      BY <1>1, <2>1, PowerSteps DEF PowersOf
  <1>3. \A P \in SUBSET X : IsFiniteSet(P)
    BY <1>1, FS_Subset
  <1>4. \A V \in SUBSET (E \ {0}) : IsFiniteSet(V) /\ Cardinality(V) \in Nat /\ V \in SUBSET E
    <2>1. \A V \in SUBSET (E \ {0}) : V \in SUBSET E
      OBVIOUS
    <2>2. QED
      BY <1>1, <2>1, FS_Subset, FS_CardinalityType
  <1>5. 0 \in Q
    <2>1. SUFFICES ASSUME NEW s \in Nat, NEW V \in SUBSET (E \ {0}), NEW P \in SUBSET X, Cardinality(P) = 0
                   PROVE  Counted(q, Z(s, V, P), Cardinality(V), s, 0)
      OBVIOUS
    <2>2. P = {}
      BY <1>3, <2>1, FS_EmptySet
    <2>3. mk[s] \in 0 .. s
      BY DEF Division
    <2> DEFINE S == Z(s, V, P)
               v == Cardinality(V)
               w == Power(q)[s]
    <2>4. IsFiniteSet(S) /\ Cardinality(S) <= v * w
      BY <1>1, <1>4, <2>2, <2>3, CountMarked
    <2>5. Cardinality(S) \in Nat
      BY <2>4, FS_CardinalityType
    <2>6. v \in Nat /\ w \in Nat
      BY <1>2, <1>4
    <2> HIDE DEF S, v, w
    <2>7. Cardinality(S) * 1 <= v * w * 1
      BY <2>4, <2>5, <2>6
    <2>8. QED
      BY <1>2, <2>4, <2>5, <2>7 DEF Counted, S, v, w
  <1>6. ASSUME NEW n \in 0 .. max - 1, n \in Q PROVE n + 1 \in Q
    <2>1. n \in Nat /\ n + 1 \in 0 .. max /\ Holds(n)
      BY <1>6
    <2>2. SUFFICES ASSUME NEW s \in Nat, NEW V \in SUBSET (E \ {0}), NEW P \in SUBSET X, Cardinality(P) = n + 1
                   PROVE  Counted(q, Z(s, V, P), Cardinality(V), s, n + 1)
      BY <2>1
    <2>3. PICK p : p \in P
      <3>1. P # {}
        BY <2>1, <2>2, FS_EmptySet
      <3>2. QED
        BY <3>1
    <2> DEFINE R == P \ {p}
               S == Z(s, V, P)
               S0 == Z(s, V, R)
               S1 == With(p, S)
               v == Cardinality(V)
               u == Power(q)[n]
               w == v * Power(q)[s] * Power(q + 1)[n]
    <2>4. p \in X /\ R \in SUBSET X /\ Cardinality(R) = n
      <3>1. Cardinality(R) = Cardinality(P) - 1
        BY <1>3, <2>3, FS_RemoveElement
      <3>2. QED
        BY <2>1, <2>2, <2>3, <3>1
    <2>5. S = S0 \cup S1
      <3>1. ASSUME NEW z \in S, p \notin z[2] PROVE z \in S0
        BY <3>1 DEF Vanishing
      <3>2. S0 \subseteq S
        BY DEF Vanishing
      <3>3. QED
        BY <3>1, <3>2 DEF With
    <2>6. IsFiniteSet(S0) /\ Cardinality(S0) \in Nat /\ Cardinality(S0) * u <= w
      BY <2>1, <2>4 DEF Counted
    <2>7. v \in Nat /\ u \in Nat /\ w \in Nat
      <3>1. v \in Nat /\ Power(q)[s] \in Nat /\ Power(q + 1)[n] \in Nat /\ u \in Nat
        BY <1>2, <1>4, <2>1
      <3>2. QED
        BY <3>1
    <2>8. IsFiniteSet(S1) /\ Cardinality(S1) \in Nat /\ q * (Cardinality(S1) * u) <= w
      <3>1. CASE s = 0
        <4>1. S1 = {}
          <5>1. ASSUME NEW z \in S1 PROVE FALSE
            <6>1. z[1] \in [0 .. 0 -> E] /\ z[1][mk[0]] \in V /\ z[2] \subseteq rt[0][z[1]] /\ p \in z[2]
              BY <3>1 DEF Vanishing, With
            <6>2. mk[0] = 0
              <7>1. mk[0] \in 0 .. 0
                BY DEF Division
              <7>2. QED
                BY <7>1
            <6>3. z[1][0] # 0
              BY <6>1, <6>2
            <6>4. rt[0][z[1]] = {}
              BY <6>1, <6>3 DEF Division
            <6>5. QED
              BY <6>1, <6>4
          <5>2. QED
            BY <5>1
        <4>2. Cardinality(S1) = 0 /\ IsFiniteSet(S1)
          BY <4>1, FS_EmptySet
        <4> HIDE DEF S1, u, w
        <4>3. q * (0 * u) = 0
          BY <1>1, <2>7
        <4>4. QED
          BY <2>7, <4>2, <4>3
      <3>2. CASE s # 0
        <4> DEFINE r == s - 1
                   W == Lowered(E, low, p, V)
                   T == Z(r, W, R)
                   v1 == Cardinality(W)
        <4>1. r \in Nat /\ r + 1 = s
          BY <3>2
        <4>2. W \in SUBSET (E \ {0})
          BY <2>4 DEF Division, Lowered
        <4> HIDE DEF r, W
        <4>3. IsFiniteSet(T) /\ Cardinality(T) \in Nat /\ Cardinality(T) * u <= v1 * Power(q)[r] * Power(q + 1)[n]
          BY <2>1, <2>4, <4>1, <4>2 DEF Counted
        <4>4. /\ IsFiniteSet(S1) /\ Cardinality(S1) <= Cardinality(T)
              /\ v1 \in Nat /\ v1 <= v
          <5>1. S1 = With(p, Vanishing(E, mk, rt, r + 1, V, P)) /\ W = Lowered(E, low, p, V)
            BY <4>1 DEF W
          <5>2. IsFiniteSet(Vanishing(E, mk, rt, r, W, P \ {p}))
            BY <4>3
          <5>3. r \in Nat /\ p \in X /\ p \in P /\ V \in SUBSET (E \ {0}) /\ P \in SUBSET X
            BY <2>3, <2>4, <4>1
          <5> HIDE DEF S1
          <5>4. /\ IsFiniteSet(S1) /\ Cardinality(S1) <= Cardinality(Vanishing(E, mk, rt, r, W, P \ {p}))
                /\ W \in SUBSET (E \ {0}) /\ Cardinality(W) \in Nat /\ Cardinality(W) <= Cardinality(V)
            BY <5>1, <5>2, <5>3, CountDivided
          <5>5. QED
            BY <5>4
        <4>5. Cardinality(S1) \in Nat
          BY <4>4, FS_CardinalityType
        <4> DEFINE c == Cardinality(S1)
                   e == Cardinality(T)
                   y == Power(q)[r]
                   k1 == Power(q + 1)[n]
        <4>6. /\ c \in Nat /\ e \in Nat /\ c <= e /\ e * u <= v1 * y * k1 /\ y \in Nat /\ k1 \in Nat
              /\ v1 \in Nat /\ v1 <= v /\ u \in Nat /\ w = v * (q * y) * k1
          BY <1>2, <2>1, <2>7, <4>1, <4>3, <4>4, <4>5
        <4> HIDE DEF c, e, y, k1, u, v, v1, w, S1
        <4>7. c * u <= e * u /\ c * u \in Nat /\ e * u \in Nat
          BY <4>6
        <4>8. v1 * y * k1 <= v * y * k1
          <5>1. v1 * (y * k1) <= v * (y * k1)
            BY <2>7, <4>6, y * k1 \in Nat
          <5>2. v1 * y * k1 = v1 * (y * k1) /\ v * y * k1 = v * (y * k1)
            BY <2>7, <4>6
          <5>3. QED
            BY <5>1, <5>2
        <4>9. c * u <= v * y * k1
          <5>1. v1 * y * k1 \in Int /\ v * y * k1 \in Int
            BY <2>7, <4>6
          <5>2. QED
            BY <4>6, <4>7, <4>8, <5>1
        <4>10. q * (c * u) <= q * (v * y * k1) /\ q * (v * y * k1) = v * (q * y) * k1
          <5> DEFINE c1 == c * u
                     c2 == v * y * k1
          <5>1. c1 \in Nat /\ c2 \in Nat /\ c1 <= c2
            BY <2>7, <4>6, <4>7, <4>9
          <5>2. q * (v * y * k1) = v * (q * y) * k1
            BY <1>1, <2>7, <4>6
          <5> HIDE DEF c1, c2
          <5>3. q * c1 <= q * c2
            BY <1>1, <5>1
          <5>4. QED
            BY <5>2, <5>3 DEF c1, c2
        <4>11. q * (c * u) <= w
          BY <4>6, <4>10
        <4>12. QED
          BY <4>4, <4>6, <4>11 DEF c
      <3>3. QED
        BY <3>1, <3>2
    <2> DEFINE x == Cardinality(S0)
               y == Cardinality(S1)
               z == Cardinality(S)
    <2>9. IsFiniteSet(S) /\ z \in Nat /\ z <= x + y
      <3> HIDE DEF S, S0, S1
      <3>1. /\ IsFiniteSet(S0 \cup S1)
            /\ Cardinality(S0 \cup S1) = Cardinality(S0) + Cardinality(S1) - Cardinality(S0 \cap S1)
        BY <2>6, <2>8, FS_Union
      <3>2. Cardinality(S0 \cap S1) \in Nat /\ Cardinality(S) \in Nat
        <4>1. IsFiniteSet(S0 \cap S1)
          BY <2>6, FS_Intersection
        <4>2. QED
          BY <2>5, <3>1, <4>1, FS_CardinalityType
      <3>3. QED
        BY <2>5, <2>6, <2>8, <3>1, <3>2
    <2>10. x \in Nat /\ y \in Nat /\ x * u <= w /\ q * (y * u) <= w
      BY <2>6, <2>8
    <2> HIDE DEF x, y, z, u, w
    <2>11. z * (q * u) <= (q + 1) * w
      BY <1>1, <2>7, <2>9, <2>10, OneMorePoint
    <2>12. z * Power(q)[n + 1] <= v * Power(q)[s] * Power(q + 1)[n + 1]
      <3>1. Power(q)[n + 1] = q * u /\ Power(q + 1)[n + 1] = (q + 1) * Power(q + 1)[n]
        BY <1>2, <2>1 DEF u
      <3> DEFINE k1 == Power(q + 1)[n]
                 y1 == Power(q)[s]
      <3>2. k1 \in Nat /\ y1 \in Nat /\ w = v * y1 * k1
        BY <1>2, <2>1 DEF w
      <3> HIDE DEF k1, y1, v
      <3>3. (q + 1) * (v * y1 * k1) = v * y1 * ((q + 1) * k1)
        BY <1>1, <2>7, <3>2
      <3>4. QED
        BY <2>11, <3>1, <3>2, <3>3 DEF k1, y1
    <2>13. QED
      BY <2>9, <2>12 DEF Counted, z
  <1> HIDE DEF Q
  <1>7. 0 .. max \subseteq Q
    BY <1>5, <1>6, Induct
  <1>8. max \in Q
    BY <1>7
  <1>9. QED
    BY <1>8 DEF Q

-----------------------------------------------------------------------------
(* (1 + 1 / q) ^ max stays below e, rounded up, for max <= q. *)

\* 96 * q ^ 5 times the first terms of the exponential series at j / q.
Series(q, j) ==
  96 * (q * q * q * q * q) + 96 * (j * (q * q * q * q)) + 48 * (j * j * (q * q * q))
    + 16 * (j * j * j * (q * q)) + 4 * (j * j * j * j * q) + j * j * j * j * j

\* Its growth from j to j + 1.
LEMMA SeriesGrows ==
  ASSUME NEW q \in Nat, NEW j \in Nat, j <= q
  PROVE  /\ Series(q, j) \in Nat /\ Series(q, j + 1) \in Nat
         /\ (q + 1) * Series(q, j) <= q * Series(q, j + 1) /\ Series(q, j) <= Series(q, j + 1)
  <1> DEFINE j2 == j * j
             j3 == j * j * j
             j4 == j * j * j * j
             q2 == q * q
             q3 == q * q * q
             q4 == q * q * q * q
             rest == 48 * q4 + 48 * (j * q3) + 16 * q3 + 24 * (j2 * q2) + 16 * (j * q2) + 4 * q2
                       + 10 * (j3 * q) + 10 * (j2 * q) + 5 * (j * q) + q
  <1>1. Series(q, j) \in Nat /\ Series(q, j + 1) \in Nat
    <2>1. \A x \in Nat : Series(q, x) \in Nat
      <3>1. SUFFICES ASSUME NEW x \in Nat PROVE Series(q, x) \in Nat
        OBVIOUS
      <3>2. x * x \in Nat /\ x * x * x \in Nat /\ x * x * x * x \in Nat /\ x * x * x * x * x \in Nat
        OBVIOUS
      <3>3. q2 \in Nat /\ q3 \in Nat /\ q4 \in Nat /\ q4 * q \in Nat
        OBVIOUS
      <3>4. QED
        BY <3>2, <3>3 DEF Series
    <2>2. QED
      BY <2>1
  <1>2. q * Series(q, j + 1) = (q + 1) * Series(q, j) + rest + j4 * (q - j)
    BY DEF Series
  <1>3. rest \in Nat /\ j4 * (q - j) \in Nat
    <2>1. j2 \in Nat /\ j3 \in Nat /\ j4 \in Nat /\ q2 \in Nat /\ q3 \in Nat /\ q4 \in Nat /\ q - j \in Nat
      OBVIOUS
    <2> HIDE DEF j2, j3, j4, q2, q3, q4
    <2>2. QED
      BY <2>1
  <1>4. Series(q, j) <= Series(q, j + 1)
    <2>1. Series(q, j + 1) = Series(q, j) + 96 * q4 + 48 * ((2 * j + 1) * q3) + 16 * ((3 * j2 + 3 * j + 1) * q2)
            + 4 * ((4 * j3 + 6 * j2 + 4 * j + 1) * q) + (5 * j4 + 10 * j3 + 10 * j2 + 5 * j + 1)
      BY DEF Series
    <2>2. j2 \in Nat /\ j3 \in Nat /\ j4 \in Nat /\ q2 \in Nat /\ q3 \in Nat /\ q4 \in Nat
      OBVIOUS
    <2> HIDE DEF j2, j3, j4, q2, q3, q4
    <2>3. /\ (2 * j + 1) * q3 \in Nat /\ (3 * j2 + 3 * j + 1) * q2 \in Nat
          /\ (4 * j3 + 6 * j2 + 4 * j + 1) * q \in Nat
      BY <2>2
    <2>4. QED
      BY <1>1, <2>1, <2>2, <2>3
  <1> DEFINE e == j4 * (q - j)
             y == (q + 1) * Series(q, j)
             z == q * Series(q, j + 1)
  <1>5. y \in Nat /\ z \in Nat
    BY <1>1
  <1> HIDE DEF rest, e, y, z
  <1>6. y <= z
    BY <1>2, <1>3, <1>5 DEF e, y, z
  <1>7. QED
    BY <1>1, <1>4, <1>6 DEF y, z

\* The bound on the power.
LEMMA BelowE ==
  ASSUME NEW q \in Nat \ {0}, NEW max \in 0 .. q
  PROVE  96 * Power(q + 1)[max] <= 261 * Power(q)[max] /\ Power(q)[max] \in Nat \ {0} /\ Power(q + 1)[max] \in Nat
  <1> DEFINE q5 == 96 * (q * q * q * q * q)
             P == Power(q)
             R == Power(q + 1)
             F(n) == Series(q, n)
             Q == {n \in 0 .. max : P[n] > 0 /\ R[n] * q5 <= P[n] * F(n)}
  <1>1. /\ P[0] = 1 /\ R[0] = 1
        /\ \A n \in Nat : P[n] \in Nat /\ P[n + 1] = q * P[n] /\ R[n] \in Nat /\ R[n + 1] = (q + 1) * R[n]
    <2>1. q \in Nat /\ q + 1 \in Nat
      OBVIOUS
    <2>2. QED
      BY <2>1, PowerSteps DEF PowersOf
  <1>2. q5 \in Nat /\ q5 > 0
    <2>1. q * q \in Nat \ {0}
      OBVIOUS
    <2>2. q * q * q \in Nat \ {0}
      BY <2>1
    <2>3. q * q * q * q \in Nat \ {0}
      BY <2>2
    <2>4. q * q * q * q * q \in Nat \ {0}
      BY <2>3
    <2>5. QED
      BY <2>4
  <1>3. \A n \in 0 .. q : F(n) \in Nat /\ (q + 1) * F(n) <= q * F(n + 1) /\ F(n) <= F(n + 1) /\ F(n + 1) \in Nat
    <2>1. ASSUME NEW n \in 0 .. q
          PROVE  F(n) \in Nat /\ (q + 1) * F(n) <= q * F(n + 1) /\ F(n) <= F(n + 1) /\ F(n + 1) \in Nat
      <3>1. q \in Nat /\ n \in Nat /\ n <= q
        OBVIOUS
      <3>2. QED
        BY <3>1, SeriesGrows
    <2>2. QED
      BY <2>1
  <1>4. F(0) = q5 /\ F(q) = 261 * (q * q * q * q * q)
    BY DEF Series
  <1> HIDE DEF P, R, F
  <1>5. 0 \in Q
    BY <1>1, <1>2, <1>4
  <1>6. ASSUME NEW n \in 0 .. max - 1, n \in Q PROVE n + 1 \in Q
    <2> DEFINE x == P[n]
               y == R[n]
               f == F(n)
               g == F(n + 1)
    <2>1. /\ n \in 0 .. q /\ n \in Nat /\ n + 1 \in 0 .. max
          /\ x \in Nat /\ y \in Nat /\ x > 0 /\ f \in Nat /\ g \in Nat
      BY <1>1, <1>3, <1>6
    <2>2. P[n + 1] = q * x /\ R[n + 1] = (q + 1) * y /\ y * q5 <= x * f /\ (q + 1) * f <= q * g
      BY <1>1, <1>3, <1>6, <2>1
    <2> HIDE DEF x, y, f, g, q5
    <2>3. q * x > 0
      BY <2>1
    <2>4. (q + 1) * (y * q5) <= (q + 1) * (x * f)
      BY <1>2, <2>1, <2>2, y * q5 \in Nat, x * f \in Nat
    <2>5. x * ((q + 1) * f) <= x * (q * g)
      BY <2>1, <2>2, (q + 1) * f \in Nat, q * g \in Nat
    <2>6. /\ (q + 1) * (y * q5) = (q + 1) * y * q5 /\ (q + 1) * (x * f) = x * ((q + 1) * f)
          /\ x * (q * g) = q * x * g
      BY <1>2, <2>1
    <2>7. (q + 1) * y * q5 <= q * x * g
      BY <2>4, <2>5, <2>6, <1>2, <2>1, (q + 1) * y * q5 \in Int, q * x * g \in Int, x * ((q + 1) * f) \in Int
    <2>8. QED
      BY <2>1, <2>2, <2>3, <2>7 DEF g
  <1> HIDE DEF Q
  <1>7. 0 .. max \subseteq Q
    BY <1>5, <1>6, Induct
  <1>8. max \in Q
    BY <1>7
  <1>9. F(max) <= F(q)
    <2> DEFINE H == {n \in 0 .. q : F(max) <= F(q) \/ (n <= q - max /\ F(max) <= F(max + n))}
    <2>1. 0 \in H
      BY <1>3
    <2>2. ASSUME NEW n \in 0 .. q - 1, n \in H PROVE n + 1 \in H
      <3>1. CASE F(max) <= F(q)
        BY <3>1
      <3>2. CASE n <= q - max /\ F(max) <= F(max + n)
        <4>1. CASE n = q - max
          <5>1. max + n = q
            BY <4>1
          <5>2. QED
            BY <3>2, <5>1
        <4>2. CASE n < q - max
          <5>1. max + n \in 0 .. q /\ (max + n) + 1 = max + (n + 1) /\ n + 1 <= q - max /\ n + 1 \in 0 .. q
            BY <4>2
          <5>2. F(max + n) <= F(max + (n + 1)) /\ F(max + n) \in Nat /\ F(max + (n + 1)) \in Nat /\ F(max) \in Nat
            BY <1>3, <5>1
          <5>3. F(max) <= F(max + (n + 1))
            BY <3>2, <5>2
          <5>4. QED
            BY <5>1, <5>3
        <4>3. QED
          BY <3>2, <4>1, <4>2
      <3>3. QED
        BY <2>2, <3>1, <3>2
    <2> HIDE DEF H
    <2>3. 0 .. q \subseteq H
      BY <2>1, <2>2, Induct
    <2>4. q - max \in H
      BY <2>3
    <2>5. max + (q - max) = q
      OBVIOUS
    <2>6. QED
      BY <2>4, <2>5 DEF H
  <1> DEFINE w == q * q * q * q * q
             x == P[max]
             y == R[max]
  <1>10. /\ x \in Nat /\ y \in Nat /\ x > 0 /\ y * (96 * w) <= x * F(max) /\ F(max) \in Nat /\ w \in Nat /\ w > 0
         /\ F(max) <= 261 * w
    <2>1. F(max) \in Nat
      BY <1>3
    <2>2. y * (96 * w) <= x * F(max) /\ x > 0
      BY <1>8 DEF Q
    <2>3. x \in Nat /\ y \in Nat
      BY <1>1
    <2>4. w \in Nat /\ w > 0
      BY <1>2
    <2>5. QED
      BY <1>4, <1>9, <2>1, <2>2, <2>3, <2>4
  <1> HIDE DEF w, x, y
  <1>11. x * F(max) <= x * (261 * w)
    BY <1>10
  <1>12. (96 * y) * w <= (261 * x) * w
    BY <1>10, <1>11, x * F(max) \in Int, x * (261 * w) = (261 * x) * w, y * (96 * w) = (96 * y) * w
  <1>13. 96 * y <= 261 * x
    <2> DEFINE u == 96 * y
               v == 261 * x
    <2>1. u \in Nat /\ v \in Nat /\ u * w <= v * w
      BY <1>10, <1>12
    <2> HIDE DEF u, v
    <2>2. ASSUME v < u PROVE FALSE
      <3>1. (v + 1) * w <= u * w /\ (v + 1) * w = v * w + w
        BY <1>10, <2>1, <2>2
      <3>2. QED
        BY <1>10, <2>1, <3>1, u * w \in Int, v * w \in Int
    <2>3. QED
      BY <2>1, <2>2 DEF u, v
  <1>14. QED
    BY <1>10, <1>13 DEF x, y, P, R

-----------------------------------------------------------------------------
(* The numbers below x, grouped by the highest digit that differs from x's. *)

\* Digit n is the highest in which y differs from x.
FirstAt(b, x, y, n) == Quotients(b, y)[n + 1] = Quotients(b, x)[n + 1] /\ Quotients(b, y)[n] # Quotients(b, x)[n]
\* The numbers below x, each with some of the points of P common to it and x:
\* those that differ first in digit n, and those that agree from there on.
Group(b, x, P, common, n) ==
  {z \in (0 .. x - 1) \X SUBSET P : FirstAt(b, x, z[1], n) /\ z[2] \subseteq common[z[1]]}
Pairs(b, x, P, common, n) ==
  {z \in (0 .. x - 1) \X SUBSET P : Quotients(b, z[1])[n] = Quotients(b, x)[n] /\ z[2] \subseteq common[z[1]]}

\* To each of a group belongs a polynomial, its difference from x, that vanishes
\* at the common points and whose marked coefficient is one of V.
Differences(b, E, mk, rt, x, common, V, df, n) ==
  /\ V \in SUBSET (E \ {0}) /\ Cardinality(V) <= Quotients(b, x)[n] % b
  /\ \A y \in 0 .. x - 1 : FirstAt(b, x, y, n) =>
       /\ df[y] \in [0 .. n -> E] /\ df[y][mk[n]] \in V /\ common[y] \subseteq rt[n][df[y]]
       /\ \A z \in 0 .. x - 1 : FirstAt(b, x, z, n) /\ df[z] = df[y] => z = y

\* How many there are in a group.
LEMMA CountGroup ==
  ASSUME NEW E, NEW X, NEW mk, NEW rt, NEW dv, NEW low, Division(E, X, mk, rt, dv, low),
         NEW q, q = Cardinality(E), NEW b \in Nat \ {0}, NEW x \in Nat, NEW P \in SUBSET X, NEW common,
         NEW V, NEW df, NEW n \in Nat, Differences(b, E, mk, rt, x, common, V, df, n),
         NEW G, G = Group(b, x, P, common, n)
  PROVE  Counted(q, G, Quotients(b, x)[n] % b, n, Cardinality(P))
  <1> DEFINE T == Vanishing(E, mk, rt, n, V, P)
             g == [z \in G |-> <<df[z[1]], z[2]>>]
             max == Cardinality(P)
             v == Cardinality(V)
             e == Quotients(b, x)[n] % b
  <1>1. IsFiniteSet(E) /\ IsFiniteSet(P) /\ max \in Nat /\ q \in Nat
    <2>1. IsFiniteSet(E) /\ X \in SUBSET E /\ P \in SUBSET E
      BY DEF Division
    <2>2. QED
      BY <2>1, FS_Subset, FS_CardinalityType
  <1>2. V \in SUBSET (E \ {0}) /\ v <= e /\ v \in Nat /\ e \in Nat
    <2>1. V \in SUBSET (E \ {0}) /\ v <= e /\ V \in SUBSET E
      BY DEF Differences
    <2>2. v \in Nat
      BY <1>1, <2>1, FS_Subset, FS_CardinalityType
    <2>3. Quotients(b, x)[n] \in Nat
      BY QuotientSteps
    <2>4. e \in Nat
      <3> DEFINE y == Quotients(b, x)[n]
      <3>1. y \in Nat
        BY <2>3
      <3> HIDE DEF y
      <3>2. y % b \in 0 .. b - 1
        BY <3>1, Divides
      <3>3. y % b \in Nat
        BY <3>2
      <3>4. QED
        BY <3>3 DEF y
    <2>5. QED
      BY <2>1, <2>2, <2>4
  <1>3. Counted(q, T, v, n, max)
    <2> HIDE DEF max
    <2>1. \A s \in Nat : \A W \in SUBSET (E \ {0}) : \A R \in SUBSET X :
            Cardinality(R) = max => Counted(q, Vanishing(E, mk, rt, s, W, R), Cardinality(W), s, max)
      BY <1>1, CountVanishing
    <2>2. Cardinality(P) = max
      BY DEF max
    <2>3. QED
      BY <1>2, <2>1, <2>2
  <1>4. ASSUME NEW z \in G
        PROVE  /\ z = <<z[1], z[2]>> /\ z[1] \in 0 .. x - 1 /\ z[2] \in SUBSET P
               /\ FirstAt(b, x, z[1], n) /\ z[2] \subseteq common[z[1]]
               /\ df[z[1]] \in [0 .. n -> E] /\ df[z[1]][mk[n]] \in V /\ common[z[1]] \subseteq rt[n][df[z[1]]]
    <2>1. /\ z = <<z[1], z[2]>> /\ z[1] \in 0 .. x - 1 /\ z[2] \in SUBSET P
          /\ FirstAt(b, x, z[1], n) /\ z[2] \subseteq common[z[1]]
      BY DEF Group
    <2>2. QED
      BY <2>1 DEF Differences
  <1>5. g \in [G -> T]
    <2>1. ASSUME NEW z \in G PROVE <<df[z[1]], z[2]>> \in T
      <3> DEFINE f == df[z[1]]
                 A == z[2]
                 C == common[z[1]]
      <3>1. f \in [0 .. n -> E] /\ f[mk[n]] \in V /\ C \subseteq rt[n][f] /\ A \subseteq C /\ A \in SUBSET P
        BY <1>4
      <3> HIDE DEF f, A, C
      <3>2. <<f, A>> \in T
        BY <3>1 DEF Vanishing
      <3>3. QED
        BY <3>2 DEF f, A
    <2>2. QED
      BY <2>1
  <1>6. ASSUME NEW z \in G, NEW w \in G, g[z] = g[w] PROVE z = w
    <2>1. df[z[1]] = df[w[1]] /\ z[2] = w[2]
      BY <1>6
    <2>2. z[1] = w[1]
      <3>1. z[1] \in 0 .. x - 1 /\ w[1] \in 0 .. x - 1 /\ FirstAt(b, x, z[1], n) /\ FirstAt(b, x, w[1], n)
        BY <1>4
      <3>2. QED
        BY <2>1, <3>1 DEF Differences
    <2>3. QED
      BY <1>4, <2>1, <2>2
  <1>7. IsFiniteSet(T)
    BY <1>3 DEF Counted
  <1> HIDE DEF T, g
  <1>8. IsFiniteSet(G) /\ Cardinality(G) \in Nat /\ Cardinality(G) <= Cardinality(T)
    BY <1>5, <1>6, <1>7, Injected
  <1> DEFINE c == Cardinality(G)
             d == Cardinality(T)
             u == Power(q)[max]
             y == Power(q)[n]
             w == Power(q + 1)[max]
  <1>9. /\ c \in Nat /\ d \in Nat /\ c <= d /\ u \in Nat /\ y \in Nat /\ w \in Nat /\ d * u <= v * y * w
    <2>1. d \in Nat /\ d * u <= v * y * w
      BY <1>3 DEF Counted
    <2>2. q + 1 \in Nat
      BY <1>1
    <2>3. u \in Nat /\ y \in Nat /\ w \in Nat
      BY <1>1, <2>2, PowerSteps DEF PowersOf
    <2>4. QED
      BY <1>8, <2>1, <2>3
  <1> HIDE DEF c, d, u, y, w, v, e, max
  <1>10. c * u <= d * u /\ v * y * w <= e * y * w
    <2>1. v * (y * w) <= e * (y * w)
      BY <1>2, <1>9, y * w \in Nat
    <2>2. v * (y * w) = v * y * w /\ e * (y * w) = e * y * w
      BY <1>2, <1>9
    <2>3. QED
      BY <1>9, <2>1, <2>2
  <1>11. c * u <= e * y * w
    BY <1>2, <1>9, <1>10, c * u \in Int, d * u \in Int, v * y * w \in Int, e * y * w \in Int
  <1>12. QED
    BY <1>8, <1>11 DEF Counted, c, u, e, y, w, max

\* The quotients of a smaller number are not larger.
LEMMA QuotientOrder ==
  ASSUME NEW b \in Nat \ {0}, NEW x \in Nat, NEW y \in Nat, y <= x, NEW max \in Nat
  PROVE  Quotients(b, y)[max] <= Quotients(b, x)[max]
  <1> DEFINE f == Quotients(b, x)
             g == Quotients(b, y)
             Q == {n \in 0 .. max : g[n] <= f[n]}
  <1>1. /\ f \in [Nat -> Nat] /\ f[0] = x /\ \A n \in Nat : f[n + 1] = f[n] \div b
        /\ g \in [Nat -> Nat] /\ g[0] = y /\ \A n \in Nat : g[n + 1] = g[n] \div b
    BY QuotientSteps
  <1> HIDE DEF f, g
  <1>2. 0 \in Q
    BY <1>1
  <1>3. ASSUME NEW n \in 0 .. max - 1, n \in Q PROVE n + 1 \in Q
    <2> DEFINE u == f[n]
               v == g[n]
               r == u \div b
               s == v \div b
    <2>1. n \in Nat /\ n + 1 \in 0 .. max /\ u \in Nat /\ v \in Nat /\ v <= u /\ f[n + 1] = r /\ g[n + 1] = s
      BY <1>1, <1>3
    <2> HIDE DEF u, v
    <2>2. /\ r \in Nat /\ u % b \in 0 .. b - 1 /\ u = b * r + (u % b)
          /\ s \in Nat /\ v % b \in 0 .. b - 1 /\ v = b * s + (v % b)
      BY <2>1, Divides
    <2> HIDE DEF r, s
    <2>3. ~(s > r)
      <3>1. SUFFICES ASSUME s > r PROVE FALSE
        OBVIOUS
      <3>2. b * s >= b * (r + 1) /\ b * (r + 1) = b * r + b /\ b * s \in Nat /\ b * r \in Nat
        BY <2>2, <3>1
      <3>3. QED
        BY <2>1, <2>2, <3>2
    <2>4. QED
      BY <2>1, <2>2, <2>3
  <1> HIDE DEF Q
  <1>4. 0 .. max \subseteq Q
    BY <1>2, <1>3, Induct
  <1>5. max \in Q
    BY <1>4
  <1>6. QED
    BY <1>5 DEF Q, f, g

\* How many pairs agree with x from digit n on, with a bound from every group.
LEMMA CountPairs ==
  ASSUME NEW b \in Nat \ {0}, NEW x \in Nat, NEW P, NEW common, NEW max \in Nat,
         NEW u \in Nat, NEW w \in Nat,
         \A n \in 0 .. max - 1 :
           LET G == Group(b, x, P, common, n)
           IN /\ IsFiniteSet(G) /\ Cardinality(G) \in Nat
              /\ Cardinality(G) * u <= (Quotients(b, x)[n] % b) * Power(b)[n] * w
  PROVE  LET S == Pairs(b, x, P, common, max)
         IN /\ IsFiniteSet(S) /\ Cardinality(S) \in Nat
            /\ Cardinality(S) * u <= (x - Power(b)[max] * Quotients(b, x)[max]) * w
  <1> DEFINE S(n) == Pairs(b, x, P, common, n)
             G(n) == Group(b, x, P, common, n)
             f == Quotients(b, x)
             B == Power(b)
             Q == {n \in 0 .. max : /\ IsFiniteSet(S(n)) /\ Cardinality(S(n)) \in Nat
                                    /\ Cardinality(S(n)) * u <= (x - B[n] * f[n]) * w}
  <1>1. f \in [Nat -> Nat] /\ f[0] = x /\ \A n \in Nat : f[n + 1] = f[n] \div b
    BY QuotientSteps
  <1>2. B[0] = 1 /\ \A n \in Nat : B[n] \in Nat /\ B[n + 1] = b * B[n]
    BY PowerSteps DEF PowersOf
  <1>3. 0 \in Q
    <2>1. S(0) = {}
      <3>1. ASSUME NEW z \in S(0) PROVE FALSE
        <4>1. z[1] \in 0 .. x - 1 /\ Quotients(b, z[1])[0] = x
          BY <1>1 DEF Pairs
        <4>2. z[1] \in Nat
          BY <4>1
        <4>3. Quotients(b, z[1])[0] = z[1]
          BY <4>2, QuotientSteps
        <4>4. QED
          BY <4>1, <4>3
      <3>2. QED
        BY <3>1
    <2>2. Cardinality(S(0)) = 0 /\ IsFiniteSet(S(0))
      BY <2>1, FS_EmptySet
    <2>3. 0 * u = 0 /\ (x - B[0] * f[0]) * w = 0
      BY <1>1, <1>2
    <2> HIDE DEF S
    <2>4. QED
      BY <2>2, <2>3
  <1>4. ASSUME NEW n \in 0 .. max - 1, n \in Q PROVE n + 1 \in Q
    <2>1. n \in Nat /\ n + 1 \in 0 .. max /\ IsFiniteSet(S(n)) /\ Cardinality(S(n)) \in Nat
      BY <1>4
    <2>2. S(n + 1) = S(n) \cup G(n)
      <3>1. ASSUME NEW z \in S(n) PROVE z \in S(n + 1)
        <4>1. z[1] \in 0 .. x - 1 /\ Quotients(b, z[1])[n] = f[n]
          BY DEF Pairs
        <4>2. Quotients(b, z[1])[n + 1] = Quotients(b, z[1])[n] \div b
          <5>1. z[1] \in Nat
            BY <4>1
          <5>2. QED
            BY <2>1, <5>1, QuotientSteps
        <4>3. Quotients(b, z[1])[n + 1] = f[n + 1]
          BY <1>1, <2>1, <4>1, <4>2
        <4>4. QED
          BY <4>3 DEF Pairs
      <3>2. G(n) \subseteq S(n + 1)
        BY DEF Group, Pairs, FirstAt
      <3>3. ASSUME NEW z \in S(n + 1), z \notin S(n) PROVE z \in G(n)
        BY <3>3 DEF Group, Pairs, FirstAt
      <3>4. QED
        BY <3>1, <3>2, <3>3
    <2>3. /\ IsFiniteSet(G(n)) /\ Cardinality(G(n)) \in Nat
          /\ Cardinality(G(n)) * u <= (f[n] % b) * B[n] * w
      OBVIOUS
    <2> DEFINE c == Cardinality(S(n))
               e == Cardinality(G(n))
               z == Cardinality(S(n + 1))
    <2>4. IsFiniteSet(S(n + 1)) /\ z \in Nat /\ z <= c + e
      <3> DEFINE S0 == S(n)
                 S1 == G(n)
                 S2 == S(n + 1)
      <3>1. IsFiniteSet(S0) /\ IsFiniteSet(S1) /\ S2 = S0 \cup S1 /\ Cardinality(S0) \in Nat /\ Cardinality(S1) \in Nat
        BY <2>1, <2>2, <2>3
      <3> HIDE DEF S0, S1, S2
      <3>2. /\ IsFiniteSet(S0 \cup S1)
            /\ Cardinality(S0 \cup S1) = Cardinality(S0) + Cardinality(S1) - Cardinality(S0 \cap S1)
        BY <3>1, FS_Union
      <3>3. Cardinality(S0 \cap S1) \in Nat /\ Cardinality(S2) \in Nat
        <4>1. IsFiniteSet(S0 \cap S1)
          BY <3>1, FS_Intersection
        <4>2. QED
          BY <3>1, <3>2, <4>1, FS_CardinalityType
      <3>4. IsFiniteSet(S2) /\ Cardinality(S2) \in Nat /\ Cardinality(S2) <= Cardinality(S0) + Cardinality(S1)
        BY <3>1, <3>2, <3>3
      <3>5. QED
        BY <3>4 DEF S0, S1, S2
    <2> DEFINE y == f[n]
               r == y \div b
               s == y % b
               p == B[n]
    <2>5. y \in Nat /\ p \in Nat /\ f[n + 1] = r /\ B[n + 1] = b * p
      BY <1>1, <1>2, <2>1
    <2>6. c \in Nat /\ e \in Nat /\ c * u <= (x - p * y) * w /\ e * u <= s * p * w
      BY <1>4, <2>3
    <2> HIDE DEF y, p, c, e, z
    <2>7. r \in Nat /\ s \in 0 .. b - 1 /\ y = b * r + s
      BY <2>5, Divides
    <2> HIDE DEF r, s
    <2>8. (x - p * y) * w + s * p * w = (x - (b * p) * r) * w
      BY <2>5, <2>7
    <2>9. z * u <= (c + e) * u /\ (c + e) * u = c * u + e * u
      BY <2>4, <2>6
    <2>10. z * u <= (x - (b * p) * r) * w
      <3>1. /\ z * u \in Int /\ c * u \in Int /\ e * u \in Int /\ (x - p * y) * w \in Int /\ s * p * w \in Int
        BY <2>4, <2>5, <2>6, <2>7
      <3>2. QED
        BY <2>6, <2>8, <2>9, <3>1
    <2>11. QED
      BY <2>1, <2>4, <2>5, <2>10 DEF z
  <1> HIDE DEF Q
  <1>5. 0 .. max \subseteq Q
    BY <1>3, <1>4, Induct
  <1>6. max \in Q
    BY <1>5
  <1>7. QED
    BY <1>6 DEF Q, B, f

\* They do for every digit.
EachDifference(b, E, mk, rt, x, common, V, df, d) ==
  \A n \in 0 .. d : Differences(b, E, mk, rt, x, common, V[n], df[n], n)

\* The numbers below x with some of the common points.
Chosen(x, P, common) == {z \in (0 .. x - 1) \X SUBSET P : z[2] \subseteq common[z[1]]}

\* With a bound for every digit: 96 times the pairs are at most 261 times x.
LEMMA CountBelow ==
  ASSUME NEW E, NEW X, NEW mk, NEW rt, NEW dv, NEW low, Division(E, X, mk, rt, dv, low),
         NEW b \in Nat \ {0}, b = Cardinality(E), NEW d \in Nat, NEW x \in Nat, x < Power(b)[d + 1],
         NEW P \in SUBSET X, Cardinality(P) <= b, NEW common, NEW V, NEW df,
         EachDifference(b, E, mk, rt, x, common, V, df, d),
         NEW S, S = Chosen(x, P, common)
  PROVE  IsFiniteSet(S) /\ Cardinality(S) \in Nat /\ 96 * Cardinality(S) <= 261 * x
  <1> DEFINE max == Cardinality(P)
             u == Power(b)[max]
             w == Power(b + 1)[max]
  <1>1. max \in 0 .. b
    <2>1. P \in SUBSET E /\ IsFiniteSet(E)
      BY DEF Division
    <2>2. max \in Nat
      BY <2>1, FS_Subset, FS_CardinalityType
    <2>3. QED
      BY <2>2
  <1>2. 96 * w <= 261 * u /\ u \in Nat \ {0} /\ w \in Nat
    <2> HIDE DEF max
    <2>1. QED
      BY <1>1, BelowE
  <1>3. ASSUME NEW n \in 0 .. (d + 1) - 1, NEW G, G = Group(b, x, P, common, n)
        PROVE  /\ IsFiniteSet(G) /\ Cardinality(G) \in Nat
               /\ Cardinality(G) * u <= (Quotients(b, x)[n] % b) * Power(b)[n] * w
    <2>1. n \in Nat /\ Differences(b, E, mk, rt, x, common, V[n], df[n], n)
      BY <1>3 DEF EachDifference
    <2>2. Counted(b, G, Quotients(b, x)[n] % b, n, max)
      BY <1>3, <2>1, CountGroup
    <2>3. QED
      BY <2>2 DEF Counted
  <1> DEFINE S1 == Pairs(b, x, P, common, d + 1)
  <1>4. \A y \in 0 .. x : Quotients(b, y)[d + 1] = 0
    <2>1. ASSUME NEW y \in 0 .. x PROVE Quotients(b, y)[d + 1] = 0
      <3>1. y \in Nat /\ d + 1 \in Nat /\ b \in Nat
        BY <2>1
      <3>2. Power(b)[d + 1] \in Nat
        BY <3>1, PowerSteps DEF PowersOf
      <3>3. y < Power(b)[d + 1]
        BY <3>1, <3>2
      <3>4. QED
        BY <3>1, <3>3, QuotientVanishes
    <2>2. QED
      BY <2>1
  <1>5. S1 = S
    <2>1. ASSUME NEW z \in (0 .. x - 1) \X SUBSET P PROVE Quotients(b, z[1])[d + 1] = Quotients(b, x)[d + 1]
      <3>1. z[1] \in 0 .. x /\ x \in 0 .. x
        OBVIOUS
      <3>2. QED
        BY <1>4, <3>1
    <2>2. QED
      BY <2>1 DEF Pairs, Chosen
  <1> HIDE DEF u, w
  <1>6. /\ IsFiniteSet(S1) /\ Cardinality(S1) \in Nat
        /\ Cardinality(S1) * u <= (x - Power(b)[d + 1] * Quotients(b, x)[d + 1]) * w
    <2>1. d + 1 \in Nat /\ u \in Nat /\ w \in Nat
      BY <1>2
    <2>2. QED
      BY <1>3, <2>1, CountPairs
  <1> HIDE DEF S1
  <1> DEFINE c == Cardinality(S)
  <1>7. c * u <= x * w /\ c \in Nat
    <2>1. Power(b)[d + 1] \in Nat
      <3>1. d + 1 \in Nat /\ b \in Nat
        OBVIOUS
      <3>2. QED
        BY <3>1, PowerSteps DEF PowersOf
    <2>2. x - Power(b)[d + 1] * 0 = x
      BY <2>1
    <2>3. Quotients(b, x)[d + 1] = 0
      BY <1>4
    <2>4. QED
      BY <1>5, <1>6, <2>2, <2>3
  <1> HIDE DEF c
  <1>8. (96 * c) * u <= (261 * x) * u
    <2>1. (96 * c) * u = 96 * (c * u) /\ x * (96 * w) = 96 * (x * w) /\ x * (261 * u) = (261 * x) * u
      BY <1>2, <1>7
    <2>2. x * (96 * w) <= x * (261 * u)
      BY <1>2
    <2>3. c * u \in Int /\ x * w \in Int /\ x * (261 * u) \in Int
      BY <1>2, <1>7
    <2>4. QED
      BY <1>7, <2>1, <2>2, <2>3
  <1>9. 96 * c <= 261 * x
    <2> DEFINE y == 96 * c
               z == 261 * x
    <2>1. y \in Nat /\ z \in Nat /\ y * u <= z * u
      BY <1>7, <1>8
    <2> HIDE DEF y, z
    <2>2. ASSUME z < y PROVE FALSE
      <3>1. (z + 1) * u <= y * u /\ (z + 1) * u = z * u + u
        BY <1>2, <2>1, <2>2
      <3>2. QED
        BY <1>2, <2>1, <3>1, y * u \in Int, z * u \in Int
    <2>3. QED
      BY <2>1, <2>2 DEF y, z
  <1>10. QED
    BY <1>5, <1>6, <1>7, <1>9 DEF c

\* A number that agrees with x from digit n + 1 on and in the digits to n is x.
LEMMA SameNumber ==
  ASSUME NEW b \in Nat \ {0}, NEW x \in Nat, NEW y \in Nat, NEW max \in Nat,
         Quotients(b, x)[max] = Quotients(b, y)[max],
         \A n \in 0 .. max - 1 : Quotients(b, x)[n] % b = Quotients(b, y)[n] % b
  PROVE  x = y
  <1> DEFINE f == Quotients(b, x)
             g == Quotients(b, y)
             Q == {n \in 0 .. max : f[max - n] = g[max - n]}
  <1>1. /\ f \in [Nat -> Nat] /\ f[0] = x /\ \A n \in Nat : f[n + 1] = f[n] \div b
        /\ g \in [Nat -> Nat] /\ g[0] = y /\ \A n \in Nat : g[n + 1] = g[n] \div b
    BY QuotientSteps
  <1>2. \A n \in 0 .. max - 1 : f[n] % b = g[n] % b
    OBVIOUS
  <1>3. f[max] = g[max]
    OBVIOUS
  <1> HIDE DEF f, g
  <1>4. 0 \in Q
    BY <1>3
  <1>5. ASSUME NEW n \in 0 .. max - 1, n \in Q PROVE n + 1 \in Q
    <2> DEFINE l == max - (n + 1)
               u == f[l]
               v == g[l]
    <2>1. n + 1 \in 0 .. max /\ l \in 0 .. max - 1 /\ l \in Nat /\ l + 1 = max - n
      BY <1>5
    <2>2. u \in Nat /\ v \in Nat /\ u % b = v % b
      BY <1>1, <1>2, <2>1
    <2>3. u \div b = v \div b
      <3>1. f[l + 1] = u \div b /\ g[l + 1] = v \div b
        BY <1>1, <2>1
      <3>2. f[l + 1] = g[l + 1]
        BY <1>5, <2>1
      <3>3. QED
        BY <3>1, <3>2
    <2>4. u = v
      <3> HIDE DEF u, v
      <3>1. u = b * (u \div b) + (u % b) /\ v = b * (v \div b) + (v % b)
        BY <2>2, Divides
      <3>2. QED
        BY <2>2, <2>3, <3>1
    <2>5. f[max - (n + 1)] = g[max - (n + 1)]
      BY <2>4
    <2>6. QED
      BY <2>1, <2>5
  <1> HIDE DEF Q
  <1>6. 0 .. max \subseteq Q
    BY <1>4, <1>5, Induct
  <1>7. max \in Q /\ max - max = 0
    BY <1>6
  <1>8. f[0] = g[0]
    BY <1>7 DEF Q
  <1>9. QED
    BY <1>1, <1>8

\* Below x, the digit that differs first is smaller.
LEMMA SmallerDigit ==
  ASSUME NEW b \in Nat \ {0}, NEW x \in Nat, NEW y \in 0 .. x - 1, NEW n \in Nat, FirstAt(b, x, y, n)
  PROVE  /\ Quotients(b, x)[n] % b \in 0 .. b - 1
         /\ Quotients(b, y)[n] % b \in 0 .. (Quotients(b, x)[n] % b) - 1
  <1> DEFINE u == Quotients(b, x)[n]
             v == Quotients(b, y)[n]
  <1>1. y \in Nat /\ y <= x
    OBVIOUS
  <1>2. u \in Nat /\ v \in Nat /\ v <= u
    <2>1. u \in Nat /\ v \in Nat
      <3>1. Quotients(b, x) \in [Nat -> Nat]
        BY QuotientSteps
      <3>2. Quotients(b, y) \in [Nat -> Nat]
        BY <1>1, QuotientSteps
      <3>3. QED
        BY <3>1, <3>2
    <2>2. Quotients(b, y)[n] <= Quotients(b, x)[n]
      BY <1>1, QuotientOrder
    <2>3. QED
      BY <2>1, <2>2
  <1>3. v # u /\ u \div b = v \div b
    <2>1. Quotients(b, x)[n + 1] = u \div b /\ Quotients(b, y)[n + 1] = v \div b
      BY <1>1, QuotientSteps
    <2>2. QED
      BY <2>1 DEF FirstAt
  <1> HIDE DEF u, v
  <1>4. u % b \in 0 .. b - 1 /\ v % b \in 0 .. b - 1 /\ u = b * (u \div b) + (u % b) /\ v = b * (v \div b) + (v % b)
    BY <1>2, Divides
  <1>5. v % b < u % b
    BY <1>2, <1>3, <1>4
  <1>6. QED
    BY <1>4, <1>5 DEF u, v

-----------------------------------------------------------------------------
(* Polynomials over GF(p), the highest coefficient marked. *)

\* Coefficients f[0] to f[s], and no more.
Extended(f, s) == [n \in Nat |-> IF n <= s THEN f[n] ELSE 0]

\* They are the coefficients of f.
LEMMA ExtendedType ==
  ASSUME NEW E, 0 \in E, NEW s \in Nat, NEW f \in [0 .. s -> E]
  PROVE  Extended(f, s) \in [Nat -> E] /\ \A n \in 0 .. s : Extended(f, s)[n] = f[n]
  <1>1. ASSUME NEW n \in Nat PROVE (IF n <= s THEN f[n] ELSE 0) \in E
    <2>1. n <= s => n \in 0 .. s
      OBVIOUS
    <2>2. QED
      BY <2>1
  <1>2. \A n \in 0 .. s : n \in Nat /\ n <= s
    OBVIOUS
  <1>3. QED
    BY <1>1, <1>2 DEF Extended

\* Coefficients of GF(p).
LEMMA ExtendedDigits ==
  ASSUME NEW b \in Nat \ {0}, NEW s \in Nat, NEW f \in [0 .. s -> 0 .. b - 1]
  PROVE  /\ Extended(f, s) \in [Nat -> 0 .. b - 1] /\ Extended(f, s) \in [Nat -> Int]
         /\ \A n \in 0 .. s : Extended(f, s)[n] = f[n]
  <1> DEFINE E == 0 .. b - 1
             F == Extended(f, s)
  <1>1. 0 \in E /\ E \subseteq Int
    OBVIOUS
  <1>2. f \in [0 .. s -> E]
    OBVIOUS
  <1> HIDE DEF E
  <1>3. F \in [Nat -> E] /\ \A n \in 0 .. s : F[n] = f[n]
    BY <1>1, <1>2, ExtendedType
  <1> HIDE DEF F
  <1>4. F \in [Nat -> Int]
    BY <1>1, <1>3
  <1>5. QED
    BY <1>3, <1>4 DEF E, F

\* Congruent coefficients give congruent values.
LEMMA HornerCongruent ==
  ASSUME NEW b \in Nat, NEW f \in [Nat -> Int], NEW g \in [Nat -> Int], NEW c \in Int, NEW max \in Nat,
         \A n \in 0 .. max : Congruent(f[n], g[n], b)
  PROVE  Congruent(Horner(f, c)[max], Horner(g, c)[max], b)
  <1> DEFINE F == Horner(f, c)
             G == Horner(g, c)
             Q == {n \in 0 .. max : Congruent(F[n], G[n], b)}
  <1>1. /\ F \in [Nat -> Int] /\ F[0] = f[0] /\ \A n \in Nat : F[n + 1] = F[n] * c + f[n + 1]
        /\ G \in [Nat -> Int] /\ G[0] = g[0] /\ \A n \in Nat : G[n + 1] = G[n] * c + g[n + 1]
    BY HornerSteps
  <1> HIDE DEF F, G
  <1>2. 0 \in Q
    BY <1>1
  <1>3. ASSUME NEW n \in 0 .. max - 1, n \in Q PROVE n + 1 \in Q
    <2> DEFINE x == F[n]
               y == G[n]
               u == f[n + 1]
               v == g[n + 1]
    <2>1. n \in Nat /\ n + 1 \in Nat /\ n + 1 \in 0 .. max /\ Congruent(x, y, b) /\ Congruent(u, v, b)
      BY <1>3
    <2>2. x \in Int /\ y \in Int /\ u \in Int /\ v \in Int /\ F[n + 1] = x * c + u /\ G[n + 1] = y * c + v
      BY <1>1, <2>1
    <2> HIDE DEF x, y, u, v
    <2>3. Congruent(x * c + u, y * c + u, b)
      BY <2>1, <2>2, CongruentTurn
    <2>4. Congruent(y * c + u, y * c + v, b)
      <3>1. (y * c + u) - (y * c + v) = u - v
        BY <2>2
      <3>2. QED
        BY <2>1, <3>1 DEF Congruent
    <2>5. x * c + u \in Int /\ y * c + u \in Int /\ y * c + v \in Int
      BY <2>2
    <2>6. Congruent(F[n + 1], G[n + 1], b)
      BY <2>2, <2>3, <2>4, <2>5, CongruentChain
    <2>7. QED
      BY <2>1, <2>6
  <1> HIDE DEF Q
  <1>4. 0 .. max \subseteq Q
    BY <1>2, <1>3, Induct
  <1>5. max \in Q
    BY <1>4
  <1>6. QED
    BY <1>5 DEF Q, F, G

\* Congruent values have the same roots.
LEMMA SameRoots ==
  ASSUME NEW b \in Nat, NEW f \in [Nat -> Int], NEW g \in [Nat -> Int], NEW max \in Nat,
         \A n \in 0 .. max : Congruent(f[n], g[n], b)
  PROVE  Roots(f, max, b) \subseteq Roots(g, max, b)
  <1>1. SUFFICES ASSUME NEW c \in Roots(f, max, b) PROVE Divisible(Horner(g, c)[max], b) /\ c \in 0 .. b - 1
    BY DEF Roots
  <1> DEFINE u == Horner(f, c)[max]
             v == Horner(g, c)[max]
  <1>2. c \in 0 .. b - 1 /\ Divisible(u, b) /\ c \in Int
    BY DEF Roots
  <1>3. Congruent(u, v, b)
    BY <1>2, HornerCongruent
  <1>4. u \in Int /\ v \in Int
    BY <1>2, HornerSteps
  <1> HIDE DEF u, v
  <1>5. Divisible(u - (u - v), b) /\ u - (u - v) = v /\ u - v \in Int
    BY <1>2, <1>3, <1>4, DivisibleSums DEF Congruent
  <1>6. QED
    BY <1>2, <1>5 DEF v

\* The quotient by x - p for a root p: its coefficients, reduced.
Quotient(f, s, p, b) == [n \in 0 .. s |-> Horner(Extended(f, s + 1), p)[n] % b]

\* It has the same highest coefficient and the other roots.
LEMMA RootsOfQuotient ==
  ASSUME NEW b \in Nat, Prime(b), NEW s \in Nat, NEW f \in [0 .. s + 1 -> 0 .. b - 1],
         NEW p \in Roots(Extended(f, s + 1), s + 1, b), NEW g, g = Quotient(f, s, p, b)
  PROVE  /\ g \in [0 .. s -> 0 .. b - 1] /\ g[0] = f[0]
         /\ Roots(Extended(f, s + 1), s + 1, b) \ {p} \subseteq Roots(Extended(g, s), s, b)
  <1> DEFINE F == Extended(f, s + 1)
             G == Extended(g, s)
             H == Horner(F, p)
             R == Roots(F, s + 1, b)
  <1>1. b \in Nat \ {0} /\ 0 \in 0 .. b - 1 /\ p \in 0 .. b - 1 /\ p \in Int /\ s + 1 \in Nat
    BY DEF Prime, Roots
  <1>2. F \in [Nat -> 0 .. b - 1] /\ F[0] = f[0] /\ F \in [Nat -> Int]
    <2>1. 0 \in 0 .. s + 1
      OBVIOUS
    <2>2. F \in [Nat -> 0 .. b - 1] /\ F \in [Nat -> Int] /\ \A n \in 0 .. s + 1 : F[n] = f[n]
      BY <1>1, ExtendedDigits
    <2> HIDE DEF F
    <2>3. QED
      BY <2>1, <2>2
  <1>3. F \in [Nat -> Int]
    BY <1>2
  <1> HIDE DEF F
  <1>4. H \in [Nat -> Int] /\ H[0] = F[0]
    BY <1>1, <1>3, HornerSteps
  <1>5. g = [n \in 0 .. s |-> H[n] % b]
    BY DEF Quotient, F
  <1> HIDE DEF H
  <1>6. g \in [0 .. s -> 0 .. b - 1] /\ \A n \in 0 .. s : g[n] = H[n] % b
    <2>1. \A n \in 0 .. s : H[n] % b \in 0 .. b - 1
      <3>1. \A n \in 0 .. s : H[n] \in Int
        BY <1>4
      <3>2. QED
        BY <1>1, <3>1
    <2>2. QED
      BY <1>5, <2>1
  <1>7. g[0] = f[0]
    <2> DEFINE y == f[0]
    <2>1. y \in 0 .. b - 1 /\ g[0] = y % b
      <3>1. 0 \in 0 .. s + 1 /\ 0 \in 0 .. s
        OBVIOUS
      <3>2. QED
        BY <1>2, <1>4, <1>6, <3>1
    <2> HIDE DEF y
    <2>2. y % b = y
      <3>1. b * 0 + y = y /\ 0 \in Nat
        BY <2>1
      <3>2. (b * 0 + y) % b = y
        BY <1>1, <2>1, <3>1, QuotientUnique
      <3>3. QED
        BY <3>1, <3>2
    <2>3. QED
      BY <2>1, <2>2 DEF y
  <1>8. G \in [Nat -> Int] /\ \A n \in 0 .. s : G[n] = g[n]
    BY <1>1, <1>6, ExtendedDigits
  <1> HIDE DEF G
  <1>9. G \in [Nat -> Int]
    BY <1>8
  <1>10. ASSUME NEW n \in 0 .. s PROVE Congruent(H[n], G[n], b)
    <2> DEFINE y == H[n]
    <2>1. y \in Int /\ G[n] = y % b
      <3>1. n \in Nat
        OBVIOUS
      <3>2. QED
        BY <1>4, <1>6, <1>8, <3>1
    <2> HIDE DEF y
    <2>2. Congruent(y, y % b, b)
      BY <1>1, <2>1, RestCongruent
    <2>3. QED
      BY <2>1, <2>2 DEF y
  <1>11. Roots(H, s, b) \subseteq Roots(G, s, b)
    BY <1>4, <1>9, <1>10, SameRoots
  <1>12. R \subseteq Roots(H, s, b) \cup {p}
    <2>1. p \in Roots(F, s + 1, b)
      BY DEF F
    <2>2. QED
      BY <1>3, <2>1, OtherRoots DEF H
  <1>13. QED
    BY <1>6, <1>7, <1>11, <1>12 DEF F, G

\* The quotient by x - p and the root p give the polynomial.
LEMMA QuotientKnows ==
  ASSUME NEW b \in Nat, Prime(b), NEW s \in Nat,
         NEW f \in [0 .. s + 1 -> 0 .. b - 1], NEW g \in [0 .. s + 1 -> 0 .. b - 1],
         NEW p \in Roots(Extended(f, s + 1), s + 1, b), p \in Roots(Extended(g, s + 1), s + 1, b),
         Quotient(f, s, p, b) = Quotient(g, s, p, b)
  PROVE  f = g
  <1> DEFINE F == Extended(f, s + 1)
             G == Extended(g, s + 1)
             H == Horner(F, p)
             I == Horner(G, p)
  <1>1. b \in Nat \ {0} /\ 0 \in 0 .. b - 1 /\ p \in 0 .. b - 1 /\ p \in Int /\ s + 1 \in Nat
    BY DEF Prime, Roots
  <1>2. /\ F \in [Nat -> Int] /\ \A n \in 0 .. s + 1 : F[n] = f[n]
        /\ G \in [Nat -> Int] /\ \A n \in 0 .. s + 1 : G[n] = g[n]
    BY <1>1, ExtendedDigits
  <1>3. Divisible(H[s + 1], b) /\ Divisible(I[s + 1], b)
    BY DEF Roots
  <1>4. \A n \in 0 .. s : H[n] % b = I[n] % b
    <2> DEFINE q == Quotient(f, s, p, b)
               r == Quotient(g, s, p, b)
    <2>1. \A n \in 0 .. s : q[n] = H[n] % b /\ r[n] = I[n] % b
      BY DEF Quotient
    <2>2. q = r
      OBVIOUS
    <2> HIDE DEF q, r
    <2>3. QED
      BY <2>1, <2>2
  <1> HIDE DEF F, G
  <1>5. F \in [Nat -> Int] /\ G \in [Nat -> Int]
    BY <1>2
  <1>6. /\ H \in [Nat -> Int] /\ H[0] = F[0] /\ \A n \in Nat : H[n + 1] = H[n] * p + F[n + 1]
        /\ I \in [Nat -> Int] /\ I[0] = G[0] /\ \A n \in Nat : I[n + 1] = I[n] * p + G[n + 1]
    BY <1>1, <1>5, HornerSteps
  <1> HIDE DEF H, I
  <1>7. ASSUME NEW n \in 0 .. s + 1 PROVE Congruent(H[n], I[n], b)
    <2> DEFINE x == H[n]
               y == I[n]
    <2>1. x \in Int /\ y \in Int
      <3>1. n \in Nat
        OBVIOUS
      <3>2. QED
        BY <1>6, <3>1
    <2>2. CASE n \in 0 .. s
      <3>1. x % b = y % b
        BY <1>4, <2>2
      <3> HIDE DEF x, y
      <3>2. Congruent(x, y, b)
        BY <1>1, <2>1, <3>1, SameRest
      <3>3. QED
        BY <3>2 DEF x, y
    <2>3. CASE n = s + 1
      <3>1. Divisible(x, b) /\ Divisible(y, b)
        BY <1>3, <2>3
      <3> HIDE DEF x, y
      <3>2. Divisible(x - y, b)
        BY <2>1, <3>1, DivisibleSums
      <3>3. QED
        BY <3>2 DEF Congruent, x, y
    <2>4. QED
      BY <2>2, <2>3
  <1>8. ASSUME NEW n \in 0 .. s + 1 PROVE Congruent(F[n], G[n], b)
    <2>1. CASE n = 0
      BY <1>6, <1>7, <2>1
    <2>2. CASE n # 0
      <3> DEFINE l == n - 1
                 x == H[l]
                 y == I[l]
                 u == F[n]
                 v == G[n]
      <3>1. l \in 0 .. s + 1 /\ l + 1 = n /\ l \in Nat /\ n \in Nat
        BY <2>2
      <3>2. x \in Int /\ y \in Int /\ u \in Int /\ v \in Int /\ H[n] = x * p + u /\ I[n] = y * p + v
        BY <1>5, <1>6, <3>1
      <3>3. Divisible(x - y, b) /\ Divisible(H[n] - I[n], b)
        BY <1>7, <3>1 DEF Congruent
      <3> HIDE DEF l, x, y, u, v
      <3>4. Divisible((x - y) * p, b) /\ (x - y) * p \in Int /\ H[n] - I[n] \in Int
        <4>1. x - y \in Int /\ (x - y) * p \in Int /\ H[n] - I[n] \in Int
          BY <1>1, <3>2
        <4>2. Divisible((x - y) * p, b)
          BY <1>1, <3>3, <4>1, DivisibleProduct
        <4>3. QED
          BY <4>1, <4>2
      <3>5. Divisible((H[n] - I[n]) - (x - y) * p, b)
        BY <3>3, <3>4, DivisibleSums
      <3>6. (H[n] - I[n]) - (x - y) * p = u - v
        BY <1>1, <3>2
      <3>7. QED
        BY <3>5, <3>6 DEF Congruent, u, v
    <2>3. QED
      BY <2>1, <2>2
  <1>9. ASSUME NEW n \in 0 .. s + 1 PROVE f[n] = g[n]
    <2> DEFINE x == f[n]
               y == g[n]
    <2>1. x \in 0 .. b - 1 /\ y \in 0 .. b - 1 /\ Divisible(x - y, b)
      BY <1>2, <1>8 DEF Congruent
    <2> HIDE DEF x, y
    <2>2. x - y \in Int /\ -b < x - y /\ x - y < b
      BY <2>1
    <2>3. x - y = 0
      BY <2>1, <2>2, SmallDivisible
    <2>4. x = y
      BY <2>1, <2>3
    <2>5. QED
      BY <2>4 DEF x, y
  <1>10. QED
    BY <1>9

\* The parts of Division over GF(p).
FirstMark == [s \in Nat |-> 0]
RootsGFP(b) == [s \in Nat |-> [f \in [0 .. s -> 0 .. b - 1] |-> Roots(Extended(f, s), s, b)]]
QuotientGFP(b) ==
  [s \in Nat |-> [p \in 0 .. b - 1 |-> [f \in [0 .. s + 1 -> 0 .. b - 1] |-> Quotient(f, s, p, b)]]]
Same(b) == [p \in 0 .. b - 1 |-> [u \in 0 .. b - 1 |-> u]]

\* Modulo a prime polynomials divide by their roots.
LEMMA DivisionGFP ==
  ASSUME NEW b \in Nat, Prime(b)
  PROVE  Division(0 .. b - 1, 0 .. b - 1, FirstMark, RootsGFP(b), QuotientGFP(b), Same(b))
  <1> DEFINE E == 0 .. b - 1
             rt == RootsGFP(b)
             dv == QuotientGFP(b)
             low == Same(b)
  <1>1. b \in Nat \ {0} /\ 0 \in E /\ IsFiniteSet(E)
    BY FS_Interval DEF Prime
  <1>2. \A s \in Nat : FirstMark[s] = 0 /\ FirstMark[s] \in 0 .. s
    BY DEF FirstMark
  <1>3. ASSUME NEW s \in Nat, NEW f \in [0 .. s -> E] PROVE rt[s][f] = Roots(Extended(f, s), s, b)
    BY DEF RootsGFP
  <1>4. ASSUME NEW s \in Nat, NEW p \in E, NEW f \in [0 .. s + 1 -> E] PROVE dv[s][p][f] = Quotient(f, s, p, b)
    BY DEF QuotientGFP
  <1>5. ASSUME NEW p \in E
        PROVE  low[p] \in [E -> E] /\ low[p][0] = 0 /\ \A u \in E : low[p][u] = u
    BY <1>1 DEF Same
  <1> HIDE DEF rt, dv, low
  <1>6. ASSUME NEW f \in [0 .. 0 -> E], f[0] # 0 PROVE rt[0][f] = {}
    <2>1. SUFFICES ASSUME NEW c \in Roots(Extended(f, 0), 0, b) PROVE FALSE
      BY <1>3
    <2> DEFINE F == Extended(f, 0)
               y == f[0]
    <2>2. F \in [Nat -> Int] /\ \A n \in 0 .. 0 : F[n] = f[n]
      <3>1. f \in [0 .. 0 -> 0 .. b - 1] /\ 0 \in Nat /\ b \in Nat \ {0}
        BY <1>1
      <3> HIDE DEF E
      <3>2. QED
        BY <3>1, ExtendedDigits
    <2>3. c \in Int /\ Divisible(Horner(F, c)[0], b)
      BY DEF Roots
    <2> HIDE DEF F
    <2>4. Horner(F, c)[0] = y
      <3>1. 0 \in 0 .. 0
        OBVIOUS
      <3>2. QED
        BY <2>2, <2>3, <3>1, HornerSteps
    <2>5. y \in 0 .. b - 1 /\ y # 0
      <3>1. 0 \in 0 .. 0
        OBVIOUS
      <3>2. QED
        BY <1>6, <3>1
    <2> HIDE DEF y
    <2>6. y \in Int /\ -b < y /\ y < b /\ Divisible(y, b)
      BY <2>3, <2>4, <2>5
    <2>7. QED
      BY <2>5, <2>6, SmallDivisible
  <1>7. ASSUME NEW s \in Nat, NEW p \in E, NEW f \in [0 .. s + 1 -> E], p \in rt[s + 1][f]
        PROVE  /\ dv[s][p][f] \in [0 .. s -> E]
               /\ f[FirstMark[s + 1]] = low[p][dv[s][p][f][FirstMark[s]]]
               /\ rt[s + 1][f] \ {p} \subseteq rt[s][dv[s][p][f]]
               /\ \A g \in [0 .. s + 1 -> E] : p \in rt[s + 1][g] /\ dv[s][p][f] = dv[s][p][g] => f = g
    <2> DEFINE h == Quotient(f, s, p, b)
               R(g) == Roots(Extended(g, s + 1), s + 1, b)
    <2>1. s + 1 \in Nat /\ \A g \in [0 .. s + 1 -> E] : rt[s + 1][g] = R(g)
      <3>1. s + 1 \in Nat
        OBVIOUS
      <3>2. QED
        BY <1>3, <3>1
    <2>2. p \in R(f)
      BY <1>7, <2>1
    <2>3. dv[s][p][f] = h
      BY <1>4
    <2>4. h \in [0 .. s -> E] /\ h[0] = f[0] /\ R(f) \ {p} \subseteq Roots(Extended(h, s), s, b)
      BY <2>2, RootsOfQuotient
    <2>5. \A g \in [0 .. s + 1 -> E] : p \in R(g) /\ h = Quotient(g, s, p, b) => f = g
      <3>1. SUFFICES ASSUME NEW g \in [0 .. s + 1 -> E], p \in R(g), h = Quotient(g, s, p, b) PROVE f = g
        OBVIOUS
      <3>2. QED
        BY <2>2, <3>1, QuotientKnows
    <2> HIDE DEF h, R
    <2>6. f[FirstMark[s + 1]] = low[p][h[FirstMark[s]]]
      <3>1. FirstMark[s + 1] = 0 /\ FirstMark[s] = 0
        BY <1>2, <2>1
      <3>2. h[0] \in E
        <4>1. 0 \in 0 .. s
          OBVIOUS
        <4>2. QED
          BY <2>4, <4>1
      <3>3. low[p][h[0]] = h[0]
        BY <1>5, <3>2
      <3>4. QED
        BY <2>4, <3>1, <3>3
    <2>7. rt[s][h] = Roots(Extended(h, s), s, b)
      BY <1>3, <2>4
    <2>8. \A g \in [0 .. s + 1 -> E] : dv[s][p][g] = Quotient(g, s, p, b)
      BY <1>4
    <2>9. \A g \in [0 .. s + 1 -> E] : p \in rt[s + 1][g] /\ dv[s][p][f] = dv[s][p][g] => f = g
      BY <2>1, <2>3, <2>5, <2>8
    <2>10. rt[s + 1][f] \ {p} \subseteq rt[s][h]
      BY <2>1, <2>4, <2>7
    <2>11. QED
      BY <2>3, <2>4, <2>6, <2>9, <2>10
  <1> HIDE DEF E
  <1>8. Division(E, E, FirstMark, rt, dv, low)
    <2>1. \A p \in E : /\ low[p] \in [E -> E] /\ low[p][0] = 0
                       /\ \A u, v \in E : low[p][u] = low[p][v] => u = v
      BY <1>5
    <2>2. QED
      BY <1>1, <1>2, <1>6, <1>7, <2>1 DEF Division
  <1>9. QED
    BY <1>8 DEF E, rt, dv, low

\* Zeros before the highest coefficient change nothing.
LEMMA LeadingZeros ==
  ASSUME NEW h \in [Nat -> Int], NEW e \in Nat, \A n \in 0 .. e - 1 : h[n] = 0,
         NEW g \in [Nat -> Int], \A n \in Nat : g[n] = h[e + n], NEW c \in Int, NEW max \in Nat
  PROVE  Horner(h, c)[e + max] = Horner(g, c)[max]
  <1> DEFINE H == Horner(h, c)
             G == Horner(g, c)
             Q == {n \in 0 .. max : H[e + n] = G[n]}
             Z == {n \in 0 .. e : n < e => H[n] = 0}
  <1>1. /\ H \in [Nat -> Int] /\ H[0] = h[0] /\ \A n \in Nat : H[n + 1] = H[n] * c + h[n + 1]
        /\ G[0] = g[0] /\ \A n \in Nat : G[n + 1] = G[n] * c + g[n + 1]
    BY HornerSteps
  <1> HIDE DEF H, G
  <1>2. 0 \in Z
    <2>1. 0 < e => 0 \in 0 .. e - 1
      OBVIOUS
    <2>2. QED
      BY <1>1, <2>1
  <1>3. ASSUME NEW n \in 0 .. e - 1, n \in Z PROVE n + 1 \in Z
    <2>1. n \in Nat /\ n + 1 \in 0 .. e /\ H[n] = 0
      BY <1>3
    <2>2. n + 1 < e => n + 1 \in 0 .. e - 1
      BY <2>1
    <2>3. H[n + 1] = 0 * c + h[n + 1]
      BY <1>1, <2>1
    <2>4. n + 1 < e => H[n + 1] = 0
      BY <2>2, <2>3
    <2>5. QED
      BY <2>1, <2>4
  <1> HIDE DEF Z
  <1>4. 0 .. e \subseteq Z
    BY <1>2, <1>3, Induct
  <1>5. 0 \in Q
    <2>1. H[e] = h[e]
      <3>1. CASE e = 0
        BY <1>1, <3>1
      <3>2. CASE e # 0
        <4>1. e - 1 \in 0 .. e /\ e - 1 < e /\ (e - 1) + 1 = e /\ e - 1 \in Nat
          BY <3>2
        <4>2. H[e - 1] = 0
          BY <1>4, <4>1 DEF Z
        <4>3. H[e] = 0 * c + h[e] /\ h[e] \in Int
          BY <1>1, <4>1, <4>2
        <4>4. QED
          BY <4>3
      <3>3. QED
        BY <3>1, <3>2
    <2>2. e + 0 = e /\ g[0] = h[e + 0] /\ 0 \in 0 .. max
      OBVIOUS
    <2>3. H[e + 0] = G[0]
      BY <1>1, <2>1, <2>2
    <2>4. QED
      BY <2>2, <2>3
  <1>6. ASSUME NEW n \in 0 .. max - 1, n \in Q PROVE n + 1 \in Q
    <2>1. n \in Nat /\ n + 1 \in Nat /\ n + 1 \in 0 .. max /\ e + n \in Nat /\ (e + n) + 1 = e + (n + 1)
      BY <1>6
    <2>2. H[e + (n + 1)] = H[e + n] * c + h[e + (n + 1)]
      BY <1>1, <2>1
    <2>3. G[n + 1] = G[n] * c + h[e + (n + 1)]
      BY <1>1, <2>1
    <2>4. H[e + n] = G[n]
      BY <1>6
    <2>5. H[e + (n + 1)] = G[n + 1]
      BY <2>2, <2>3, <2>4
    <2>6. QED
      BY <2>1, <2>5
  <1> HIDE DEF Q
  <1>7. 0 .. max \subseteq Q
    BY <1>5, <1>6, Induct
  <1>8. max \in Q
    BY <1>7
  <1>9. QED
    BY <1>8 DEF Q, H, G

\* Quotients that agree once agree from there on.
LEMMA SameAbove ==
  ASSUME NEW b \in Nat \ {0}, NEW x \in Nat, NEW y \in Nat, NEW l \in Nat, Quotients(b, y)[l] = Quotients(b, x)[l],
         NEW max \in Nat
  PROVE  Quotients(b, y)[l + max] = Quotients(b, x)[l + max]
  <1> DEFINE f == Quotients(b, x)
             g == Quotients(b, y)
             Q == {n \in 0 .. max : g[l + n] = f[l + n]}
  <1>1. (\A n \in Nat : f[n + 1] = f[n] \div b) /\ (\A n \in Nat : g[n + 1] = g[n] \div b) /\ g[l] = f[l]
    BY QuotientSteps
  <1> HIDE DEF f, g
  <1>2. 0 \in Q
    BY <1>1, l + 0 = l
  <1>3. ASSUME NEW n \in 0 .. max - 1, n \in Q PROVE n + 1 \in Q
    <2>1. n \in Nat /\ n + 1 \in 0 .. max /\ l + n \in Nat /\ (l + n) + 1 = l + (n + 1) /\ g[l + n] = f[l + n]
      BY <1>3
    <2>2. g[l + (n + 1)] = f[l + (n + 1)]
      BY <1>1, <2>1
    <2>3. QED
      BY <2>1, <2>2
  <1> HIDE DEF Q
  <1>4. 0 .. max \subseteq Q
    BY <1>2, <1>3, Induct
  <1>5. max \in Q
    BY <1>4
  <1>6. QED
    BY <1>5 DEF Q, f, g

\* Two rows differ by this polynomial of degree n if digit n is the first
\* that differs.
Difference(b, x, y, n) == [j \in 0 .. n |-> ((Quotients(b, x)[n - j] % b) - (Quotients(b, y)[n - j] % b)) % b]

\* It vanishes where the rows have the same value.
LEMMA DifferenceVanishes ==
  ASSUME NEW b \in Nat, Prime(b), NEW d \in Nat, NEW x \in Nat, NEW y \in Nat, NEW n \in 0 .. d, FirstAt(b, x, y, n)
  PROVE  /\ Difference(b, x, y, n) \in [0 .. n -> 0 .. b - 1]
         /\ Common(b, d, x, y) \subseteq Roots(Extended(Difference(b, x, y, n), n), n, b)
  <1> DEFINE f == Quotients(b, x)
             g == Quotients(b, y)
             C == Coefficients(b, d, x)
             D == Coefficients(b, d, y)
             h == [j \in Nat |-> C[j] - D[j]]
             e == d - n
             u == [j \in Nat |-> h[e + j]]
             v == Difference(b, x, y, n)
             w == Extended(v, n)
  <1>1. b \in Nat \ {0} /\ n \in Nat /\ e \in Nat /\ e + n = d
    BY DEF Prime
  <1>2. f \in [Nat -> Nat] /\ g \in [Nat -> Nat]
    <2>1. f \in [Nat -> Nat]
      BY <1>1, QuotientSteps
    <2>2. g \in [Nat -> Nat]
      BY <1>1, QuotientSteps
    <2>3. QED
      BY <2>1, <2>2
  <1>3. /\ C \in [Nat -> Int] /\ \A j \in 0 .. d : C[j] = f[d - j] % b
        /\ D \in [Nat -> Int] /\ \A j \in 0 .. d : D[j] = g[d - j] % b
    <2>1. C \in [Nat -> Int] /\ \A j \in 0 .. d : C[j] = f[d - j] % b
      BY <1>1, CoefficientsType
    <2>2. D \in [Nat -> Int] /\ \A j \in 0 .. d : D[j] = g[d - j] % b
      BY <1>1, CoefficientsType
    <2>3. QED
      BY <2>1, <2>2
  <1>4. ASSUME NEW l \in 0 .. d - n, l # 0 PROVE f[n + l] = g[n + l]
    <2>1. l - 1 \in Nat /\ (n + 1) + (l - 1) = n + l /\ n + 1 \in Nat
      BY <1>1, <1>4
    <2>2. g[n + 1] = f[n + 1]
      BY DEF FirstAt
    <2> HIDE DEF f, g
    <2>3. g[(n + 1) + (l - 1)] = f[(n + 1) + (l - 1)]
      BY <1>1, <2>1, <2>2, SameAbove DEF f, g
    <2>4. QED
      BY <2>1, <2>3
  <1>5. v = [j \in 0 .. n |-> ((f[n - j] % b) - (g[n - j] % b)) % b]
    BY DEF Difference
  <1> HIDE DEF f, g, C, D, v
  <1>6. \A l \in Nat : f[l] % b \in Int /\ g[l] % b \in Int
    <2>1. ASSUME NEW l \in Nat PROVE f[l] % b \in Int /\ g[l] % b \in Int
      <3>1. f[l] \in Nat /\ g[l] \in Nat
        BY <1>2
      <3>2. f[l] % b \in 0 .. b - 1 /\ g[l] % b \in 0 .. b - 1
        BY <1>1, <3>1, Divides
      <3>3. QED
        BY <3>2
    <2>2. QED
      BY <2>1
  <1>7. v \in [0 .. n -> 0 .. b - 1] /\ \A j \in 0 .. n : v[j] = ((f[n - j] % b) - (g[n - j] % b)) % b
    <2>1. ASSUME NEW j \in 0 .. n PROVE ((f[n - j] % b) - (g[n - j] % b)) % b \in 0 .. b - 1
      <3> DEFINE r == f[n - j] % b
                 s == g[n - j] % b
      <3>1. n - j \in Nat
        BY <1>1
      <3>2. r \in Int /\ s \in Int
        BY <1>6, <3>1
      <3> HIDE DEF r, s
      <3>3. r - s \in Int
        BY <3>2
      <3>4. (r - s) % b \in 0 .. b - 1
        BY <1>1, <3>3
      <3>5. QED
        BY <3>4 DEF r, s
    <2>2. QED
      BY <1>5, <2>1
  <1>8. h \in [Nat -> Int] /\ \A j \in Nat : h[j] = C[j] - D[j]
    <2>1. \A j \in Nat : C[j] - D[j] \in Int
      BY <1>3
    <2>2. QED
      BY <2>1
  <1>9. \A j \in 0 .. d : h[j] = (f[d - j] % b) - (g[d - j] % b)
    <2>1. \A j \in 0 .. d : j \in Nat
      OBVIOUS
    <2>2. QED
      BY <1>3, <1>8, <2>1
  <1> HIDE DEF h
  <1>10. \A j \in 0 .. e - 1 : h[j] = 0
    <2>1. ASSUME NEW j \in 0 .. e - 1 PROVE h[j] = 0
      <3> DEFINE l == e - j
                 r == f[n + l] % b
      <3>1. j \in 0 .. d /\ d - j = n + l /\ l \in 0 .. d - n /\ l # 0 /\ n + l \in Nat
        BY <1>1
      <3>2. h[j] = r - r
        BY <1>4, <1>9, <3>1
      <3>3. r \in Int
        BY <1>6, <3>1
      <3> HIDE DEF r
      <3>4. QED
        BY <3>2, <3>3
    <2>2. QED
      BY <2>1
  <1>11. u \in [Nat -> Int] /\ \A j \in Nat : u[j] = h[e + j]
    <2>1. \A j \in Nat : e + j \in Nat /\ h[e + j] \in Int
      BY <1>1, <1>8
    <2>2. QED
      BY <2>1
  <1> HIDE DEF u, e
  <1>12. w \in [Nat -> Int] /\ \A j \in 0 .. n : w[j] = v[j]
    BY <1>1, <1>7, ExtendedDigits
  <1> HIDE DEF w
  <1>13. ASSUME NEW j \in 0 .. n PROVE Congruent(u[j], w[j], b)
    <2> DEFINE r == u[j]
    <2>1. e + j \in 0 .. d /\ d - (e + j) = n - j /\ j \in Nat
      BY <1>1
    <2>2. r = (f[n - j] % b) - (g[n - j] % b) /\ r \in Int
      BY <1>9, <1>11, <2>1
    <2>3. w[j] = r % b
      BY <1>7, <1>12, <2>2
    <2> HIDE DEF r
    <2>4. Congruent(r, r % b, b)
      BY <1>1, <2>2, RestCongruent
    <2>5. QED
      BY <2>3, <2>4 DEF r
  <1>14. Roots(u, n, b) \subseteq Roots(w, n, b)
    BY <1>1, <1>11, <1>12, <1>13, SameRoots
  <1>15. ASSUME NEW c \in Common(b, d, x, y) PROVE c \in Roots(u, n, b)
    <2> DEFINE r == Horner(C, c)[d]
               s == Horner(D, c)[d]
    <2>1. c \in 0 .. b - 1 /\ c \in Int /\ r % b = s % b
      BY DEF Common, Value, C, D
    <2>2. Horner(h, c)[d] = r - s
      BY <1>3, <1>8, <2>1, HornerDifference
    <2>3. r \in Int /\ s \in Int
      <3>1. Horner(C, c) \in [Nat -> Int] /\ Horner(D, c) \in [Nat -> Int]
        BY <1>3, <2>1, HornerSteps
      <3>2. QED
        BY <3>1
    <2> HIDE DEF r, s
    <2>4. Divisible(r - s, b)
      BY <1>1, <2>1, <2>3, SameRest DEF Congruent
    <2>5. Horner(h, c)[e + n] = Horner(u, c)[n]
      BY <1>1, <1>8, <1>10, <1>11, <2>1, LeadingZeros
    <2>6. Divisible(Horner(u, c)[n], b)
      BY <1>1, <2>2, <2>4, <2>5
    <2>7. QED
      BY <2>1, <2>6 DEF Roots
  <1>16. QED
    BY <1>7, <1>14, <1>15 DEF v, w

\* Different numbers have different differences.
LEMMA DifferencesDiffer ==
  ASSUME NEW b \in Nat, Prime(b), NEW x \in Nat, NEW y \in Nat, NEW z \in Nat, NEW n \in Nat,
         FirstAt(b, x, y, n), FirstAt(b, x, z, n), Difference(b, x, z, n) = Difference(b, x, y, n)
  PROVE  z = y
  <1> DEFINE f == Quotients(b, x)
             g == Quotients(b, y)
             h == Quotients(b, z)
             u == Difference(b, x, y, n)
             v == Difference(b, x, z, n)
  <1>1. b \in Nat \ {0} /\ n + 1 \in Nat
    BY DEF Prime
  <1>2. f \in [Nat -> Nat] /\ g \in [Nat -> Nat] /\ h \in [Nat -> Nat]
    <2>1. f \in [Nat -> Nat]
      BY <1>1, QuotientSteps
    <2>2. g \in [Nat -> Nat]
      BY <1>1, QuotientSteps
    <2>3. h \in [Nat -> Nat]
      BY <1>1, QuotientSteps
    <2>4. QED
      BY <2>1, <2>2, <2>3
  <1>3. h[n + 1] = g[n + 1]
    BY DEF FirstAt
  <1>4. /\ u = [j \in 0 .. n |-> ((f[n - j] % b) - (g[n - j] % b)) % b]
        /\ v = [j \in 0 .. n |-> ((f[n - j] % b) - (h[n - j] % b)) % b]
    BY DEF Difference
  <1>5. u = v
    OBVIOUS
  <1> HIDE DEF f, g, h, u, v
  <1>6. ASSUME NEW l \in 0 .. (n + 1) - 1 PROVE h[l] % b = g[l] % b
    <2> DEFINE j == n - l
               p == f[l] % b
               q == g[l] % b
               r == h[l] % b
    <2>1. j \in 0 .. n /\ n - j = l /\ l \in Nat
      OBVIOUS
    <2>2. u[j] = (p - q) % b /\ v[j] = (p - r) % b
      BY <1>4, <2>1
    <2>3. p \in 0 .. b - 1 /\ q \in 0 .. b - 1 /\ r \in 0 .. b - 1
      <3>1. f[l] \in Nat /\ g[l] \in Nat /\ h[l] \in Nat
        BY <1>2, <2>1
      <3>2. QED
        BY <1>1, <3>1, Divides
    <2> HIDE DEF p, q, r, j
    <2>4. (p - q) % b = (p - r) % b /\ p - q \in Int /\ p - r \in Int
      BY <1>5, <2>2, <2>3
    <2>5. Divisible((p - q) - (p - r), b)
      BY <1>1, <2>4, SameRest DEF Congruent
    <2>6. (p - q) - (p - r) = r - q /\ r - q \in Int /\ -b < r - q /\ r - q < b
      BY <1>1, <2>3
    <2>7. r - q = 0
      BY <2>5, <2>6, SmallDivisible
    <2>8. r = q
      BY <2>3, <2>7
    <2>9. QED
      BY <2>8 DEF r, q
  <1>7. QED
    BY <1>1, <1>3, <1>6, SameNumber DEF g, h

\* The parts of Differences over GF(p): the highest coefficient is the
\* difference of digits n.
DifferencesGFP(b, x, n) == [y \in Nat |-> Difference(b, x, y, n)]
HighestGFP(b, x, n) == 1 .. Quotients(b, x)[n] % b

\* The differences are as the counting needs them.
LEMMA EachDifferenceGFP ==
  ASSUME NEW b \in Nat, Prime(b), NEW d \in Nat, NEW x \in Nat, NEW n \in 0 .. d, NEW E, E = 0 .. b - 1,
         NEW common, common = [y \in Nat |-> Common(b, d, x, y)]
  PROVE  Differences(b, E, FirstMark, RootsGFP(b), x, common, HighestGFP(b, x, n), DifferencesGFP(b, x, n), n)
  <1> DEFINE V == HighestGFP(b, x, n)
             df == DifferencesGFP(b, x, n)
             e == Quotients(b, x)[n] % b
  <1>1. b \in Nat \ {0} /\ n \in Nat
    BY DEF Prime
  <1>2. e \in 0 .. b - 1
    <2>1. Quotients(b, x)[n] \in Nat
      BY <1>1, QuotientSteps
    <2>2. QED
      BY <1>1, <2>1, Divides
  <1>3. V = 1 .. e
    BY DEF HighestGFP
  <1>4. \A y \in Nat : df[y] = Difference(b, x, y, n)
    BY DEF DifferencesGFP
  <1> HIDE DEF V, df
  <1>5. V \in SUBSET (E \ {0}) /\ Cardinality(V) <= e
    <2> HIDE DEF e
    <2>1. Cardinality(1 .. e) = IF 1 > e THEN 0 ELSE (e - 1) + 1
      BY <1>2, FS_Interval
    <2>2. QED
      BY <1>2, <1>3, <2>1
  <1>6. ASSUME NEW y \in 0 .. x - 1, FirstAt(b, x, y, n)
        PROVE  /\ df[y] \in [0 .. n -> E] /\ df[y][FirstMark[n]] \in V /\ common[y] \subseteq RootsGFP(b)[n][df[y]]
               /\ \A z \in 0 .. x - 1 : FirstAt(b, x, z, n) /\ df[z] = df[y] => z = y
    <2> DEFINE v == Difference(b, x, y, n)
    <2>1. y \in Nat /\ df[y] = v
      BY <1>4
    <2>2. v \in [0 .. n -> E] /\ common[y] \subseteq Roots(Extended(v, n), n, b)
      BY <2>1, <1>6, DifferenceVanishes
    <2>3. v[0] \in V
      <3> DEFINE s == Quotients(b, y)[n] % b
      <3>1. s \in 0 .. e - 1
        BY <1>1, <1>6, SmallerDigit
      <3>2. v[0] = (e - s) % b
        <4>1. 0 \in 0 .. n /\ n - 0 = n
          BY <1>1
        <4>2. QED
          BY <4>1 DEF Difference
      <3> HIDE DEF v, s, e
      <3>3. b * 0 + (e - s) = e - s /\ e - s \in 0 .. b - 1 /\ 0 \in Nat /\ e - s \in 1 .. e
        BY <1>1, <1>2, <3>1
      <3>4. (b * 0 + (e - s)) % b = e - s
        BY <1>1, <3>3, QuotientUnique
      <3>5. QED
        BY <1>3, <3>2, <3>3, <3>4
    <2>4. FirstMark[n] = 0
      BY <1>1 DEF FirstMark
    <2>5. RootsGFP(b)[n][v] = Roots(Extended(v, n), n, b)
      BY <1>1, <2>2 DEF RootsGFP
    <2>6. ASSUME NEW z \in 0 .. x - 1, FirstAt(b, x, z, n), df[z] = df[y] PROVE z = y
      <3>1. z \in Nat /\ df[z] = Difference(b, x, z, n)
        BY <1>4
      <3>2. QED
        BY <1>1, <1>6, <2>1, <2>6, <3>1, DifferencesDiffer
    <2> HIDE DEF v
    <2>7. QED
      BY <2>1, <2>2, <2>3, <2>4, <2>5, <2>6
  <1>7. Differences(b, E, FirstMark, RootsGFP(b), x, common, V, df, n)
    BY <1>5, <1>6 DEF Differences
  <1>8. QED
    BY <1>7 DEF V, df

\* The columns row x of a GF(p) design has in common with each row.
CommonsGFP(b, d, x) == [y \in Nat |-> Common(b, d, x, y)]

\* What is counted over GF(p), in the terms CountBelow counts in.
PartsGFP(b, d, x, E, P, common, mk, rt, dv, low, V, df, S) ==
  /\ E = 0 .. b - 1 /\ P \in SUBSET E /\ common = CommonsGFP(b, d, x)
  /\ mk = FirstMark /\ rt = RootsGFP(b) /\ dv = QuotientGFP(b) /\ low = Same(b)
  /\ V = [n \in Nat |-> HighestGFP(b, x, n)] /\ df = [n \in Nat |-> DifferencesGFP(b, x, n)]
  /\ S = Chosen(x, P, common)

\* Counting with the division and the differences of GF(p).
LEMMA CountWithGFP ==
  ASSUME NEW b \in Nat \ {0}, Prime(b), NEW d \in Nat, NEW x \in Nat, x < Power(b)[d + 1],
         NEW E, NEW P, NEW common, NEW mk, NEW rt, NEW dv, NEW low, NEW V, NEW df, NEW S,
         PartsGFP(b, d, x, E, P, common, mk, rt, dv, low, V, df, S)
  PROVE  IsFiniteSet(S) /\ Cardinality(S) \in Nat /\ 96 * Cardinality(S) <= 261 * x
  <1>0. /\ E = 0 .. b - 1 /\ P \in SUBSET E /\ common = [y \in Nat |-> Common(b, d, x, y)]
        /\ mk = FirstMark /\ rt = RootsGFP(b) /\ dv = QuotientGFP(b) /\ low = Same(b)
        /\ V = [n \in Nat |-> HighestGFP(b, x, n)] /\ df = [n \in Nat |-> DifferencesGFP(b, x, n)]
        /\ S = Chosen(x, P, common)
    BY DEF PartsGFP, CommonsGFP
  <1>1. IsFiniteSet(E) /\ Cardinality(E) = b
    <2>1. IsFiniteSet(0 .. b - 1) /\ Cardinality(0 .. b - 1) = IF 0 > b - 1 THEN 0 ELSE ((b - 1) - 0) + 1
      <3>1. b - 1 \in Int /\ 0 \in Int
        OBVIOUS
      <3>2. QED
        BY ONLY <3>1, FS_Interval
    <2>2. QED
      BY <1>0, <2>1
  <1>2. Cardinality(P) <= b
    BY <1>0, <1>1, FS_Subset
  <1>3. Division(E, E, mk, rt, dv, low)
    BY <1>0, DivisionGFP
  <1>4. ASSUME NEW n \in 0 .. d PROVE Differences(b, E, mk, rt, x, common, V[n], df[n], n)
    <2>1. V[n] = HighestGFP(b, x, n) /\ df[n] = DifferencesGFP(b, x, n)
      BY <1>0
    <2>2. Differences(b, E, FirstMark, RootsGFP(b), x, common, HighestGFP(b, x, n), DifferencesGFP(b, x, n), n)
      BY <1>0, EachDifferenceGFP
    <2>3. QED
      BY <1>0, <2>1, <2>2
  <1>5. EachDifference(b, E, mk, rt, x, common, V, df, d)
    BY <1>4 DEF EachDifference
  <1>6. /\ b \in Nat \ {0} /\ d \in Nat /\ x \in Nat /\ P \in SUBSET E
        /\ x < Power(b)[d + 1] /\ b = Cardinality(E) /\ S = Chosen(x, P, common)
    BY <1>0, <1>1
  <1>7. QED
    BY ONLY <1>2, <1>3, <1>5, <1>6, CountBelow

\* Over GF(p) the pairs of a smaller row and some of the columns common with it
\* are at most e times as many as the rows, rounded up.
LEMMA CountGFP ==
  ASSUME NEW b \in Nat, Prime(b), NEW d \in Nat, NEW x \in Nat, x < Power(b)[d + 1],
         NEW P \in SUBSET (0 .. b - 1), NEW common, common = CommonsGFP(b, d, x)
  PROVE  LET S == Chosen(x, P, common)
         IN  IsFiniteSet(S) /\ Cardinality(S) \in Nat /\ 96 * Cardinality(S) <= 261 * x
  <1> DEFINE S == Chosen(x, P, common)
             E == 0 .. b - 1
             mk == FirstMark
             rt == RootsGFP(b)
             dv == QuotientGFP(b)
             low == Same(b)
             V == [n \in Nat |-> HighestGFP(b, x, n)]
             df == [n \in Nat |-> DifferencesGFP(b, x, n)]
  <1>1. b \in Nat \ {0} /\ Prime(b) /\ d \in Nat /\ x \in Nat /\ x < Power(b)[d + 1]
    BY DEF Prime
  <1>2. PartsGFP(b, d, x, E, P, common, mk, rt, dv, low, V, df, S)
    BY DEF PartsGFP
  <1> HIDE DEF E, mk, rt, dv, low, V, df, S
  <1>3. IsFiniteSet(S) /\ Cardinality(S) \in Nat /\ 96 * Cardinality(S) <= 261 * x
    BY ONLY <1>1, <1>2, CountWithGFP
  <1>4. QED
    BY <1>3 DEF S

-----------------------------------------------------------------------------
(* Polynomials over GF(2^n), the constant coefficient marked. *)

\* Coefficients of GF(2^n).
LEMMA ExtendedElements ==
  ASSUME NEW e, FieldOf(e), NEW s \in Nat, NEW f \in [0 .. s -> Elements(e)]
  PROVE  Extended(f, s) \in [Nat -> Elements(e)] /\ \A n \in 0 .. s : Extended(f, s)[n] = f[n]
  <1>1. 0 \in Elements(e)
    BY ZeroElement
  <1>2. QED
    BY <1>1, ExtendedType

\* Only the coefficients up to max count.
LEMMA HornerXLocal ==
  ASSUME NEW e, FieldOf(e), NEW f \in [Nat -> Elements(e)], NEW g \in [Nat -> Elements(e)],
         NEW c \in Elements(e), NEW max \in Nat, \A n \in 0 .. max : f[n] = g[n]
  PROVE  HornerX(e, f, c)[max] = HornerX(e, g, c)[max]
  <1> DEFINE F == HornerX(e, f, c)
             G == HornerX(e, g, c)
             Q == {n \in 0 .. max : F[n] = G[n]}
  <1>1. F[0] = f[0] /\ \A n \in Nat : F[n + 1] = Xor(Mult(e, F[n], c), f[n + 1])
    BY HornerXSteps
  <1>2. G[0] = g[0] /\ \A n \in Nat : G[n + 1] = Xor(Mult(e, G[n], c), g[n + 1])
    BY HornerXSteps
  <1> HIDE DEF F, G
  <1>3. 0 \in Q
    BY <1>1, <1>2
  <1>4. ASSUME NEW n \in 0 .. max - 1, n \in Q PROVE n + 1 \in Q
    <2>1. n \in Nat /\ n + 1 \in 0 .. max /\ F[n] = G[n] /\ f[n + 1] = g[n + 1]
      BY <1>4
    <2>2. F[n + 1] = G[n + 1]
      BY <1>1, <1>2, <2>1
    <2>3. QED
      BY <2>1, <2>2
  <1> HIDE DEF Q
  <1>5. 0 .. max \subseteq Q
    BY <1>3, <1>4, Induct
  <1>6. max \in Q
    BY <1>5
  <1>7. QED
    BY <1>6 DEF Q, F, G

\* The quotient by x + p for a root p.
QuotientX(e, f, s, p) == [j \in 0 .. s |-> HornerX(e, Extended(f, s + 1), p)[j]]

\* Its constant coefficient times p is that of f, and it has the other roots.
LEMMA RootsOfQuotientX ==
  ASSUME NEW e, FieldOf(e), Integral(e), NEW s \in Nat, NEW f \in [0 .. s + 1 -> Elements(e)],
         NEW p \in RootsX(e, Extended(f, s + 1), s + 1), NEW g, g = QuotientX(e, f, s, p)
  PROVE  /\ g \in [0 .. s -> Elements(e)] /\ f[s + 1] = Mult(e, g[s], p)
         /\ RootsX(e, Extended(f, s + 1), s + 1) \ {p} \subseteq RootsX(e, Extended(g, s), s)
  <1> DEFINE F == Extended(f, s + 1)
             G == Extended(g, s)
             H == HornerX(e, F, p)
             y == Mult(e, H[s], p)
  <1>1. p \in Elements(e) /\ p \in Nat /\ H[s + 1] = 0 /\ s + 1 \in Nat /\ Elements(e) \subseteq Nat
    BY ZeroElement DEF RootsX
  <1>2. F \in [Nat -> Elements(e)] /\ F[s + 1] = f[s + 1]
    <2>1. s + 1 \in 0 .. s + 1
      OBVIOUS
    <2>2. F \in [Nat -> Elements(e)] /\ \A n \in 0 .. s + 1 : F[n] = f[n]
      BY <1>1, ExtendedElements
    <2>3. QED
      BY <2>1, <2>2
  <1>3. p \in RootsX(e, F, s + 1)
    OBVIOUS
  <1> HIDE DEF F
  <1>4. H \in [Nat -> Elements(e)] /\ H[s + 1] = Xor(y, F[s + 1])
    BY <1>1, <1>2, HornerXSteps
  <1>5. g = [j \in 0 .. s |-> H[j]]
    BY DEF QuotientX, F
  <1>6. RootsX(e, F, s + 1) \subseteq RootsX(e, H, s) \cup {p}
    BY <1>2, <1>3, OtherRootsX
  <1> HIDE DEF H
  <1>7. g \in [0 .. s -> Elements(e)] /\ \A j \in 0 .. s : g[j] = H[j]
    <2>1. \A j \in 0 .. s : j \in Nat /\ H[j] \in Elements(e)
      BY <1>4
    <2>2. QED
      BY <1>5, <2>1
  <1>8. f[s + 1] = Mult(e, g[s], p)
    <2>1. g[s] = H[s] /\ H[s] \in Elements(e)
      BY <1>4, <1>7, s \in 0 .. s
    <2>2. y \in Nat
      BY <1>1, <2>1, MultElement
    <2>3. F[s + 1] \in Nat
      BY <1>1, <1>2
    <2>4. y = F[s + 1]
      <3> DEFINE z == F[s + 1]
      <3>1. Xor(y, z) = 0 /\ y \in Nat /\ z \in Nat
        BY <1>1, <1>4, <2>2, <2>3
      <3> HIDE DEF y, z
      <3>2. y = z
        BY <3>1, XorEqual
      <3>3. QED
        BY <3>2 DEF z
    <2>5. QED
      BY <1>2, <2>1, <2>4
  <1>9. G \in [Nat -> Elements(e)] /\ \A j \in 0 .. s : G[j] = g[j]
    BY <1>7, ExtendedElements
  <1> HIDE DEF G
  <1>10. RootsX(e, H, s) \subseteq RootsX(e, G, s)
    <2>1. ASSUME NEW c \in Elements(e) PROVE HornerX(e, H, c)[s] = HornerX(e, G, c)[s]
      <3>1. \A j \in 0 .. s : H[j] = G[j]
        BY <1>7, <1>9
      <3>2. QED
        BY <1>4, <1>9, <3>1, HornerXLocal
    <2>2. QED
      BY <2>1 DEF RootsX
  <1>11. QED
    BY <1>6, <1>7, <1>8, <1>10 DEF F, G

\* The quotient by x + p and the root p give the polynomial.
LEMMA QuotientKnowsX ==
  ASSUME NEW e, FieldOf(e), NEW s \in Nat,
         NEW f \in [0 .. s + 1 -> Elements(e)], NEW g \in [0 .. s + 1 -> Elements(e)],
         NEW p \in RootsX(e, Extended(f, s + 1), s + 1), p \in RootsX(e, Extended(g, s + 1), s + 1),
         QuotientX(e, f, s, p) = QuotientX(e, g, s, p)
  PROVE  f = g
  <1> DEFINE F == Extended(f, s + 1)
             G == Extended(g, s + 1)
             H == HornerX(e, F, p)
             I == HornerX(e, G, p)
  <1>1. p \in Elements(e) /\ p \in Nat /\ s + 1 \in Nat /\ Elements(e) \subseteq Nat
    BY ZeroElement DEF RootsX
  <1>2. F \in [Nat -> Elements(e)] /\ \A n \in 0 .. s + 1 : F[n] = f[n]
    BY <1>1, ExtendedElements
  <1>3. G \in [Nat -> Elements(e)] /\ \A n \in 0 .. s + 1 : G[n] = g[n]
    BY <1>1, ExtendedElements
  <1>4. H[s + 1] = 0 /\ I[s + 1] = 0
    BY DEF RootsX
  <1>5. \A n \in 0 .. s : H[n] = I[n]
    <2> DEFINE q == QuotientX(e, f, s, p)
               r == QuotientX(e, g, s, p)
    <2>1. \A n \in 0 .. s : q[n] = H[n] /\ r[n] = I[n]
      BY DEF QuotientX
    <2>2. q = r
      OBVIOUS
    <2> HIDE DEF q, r
    <2>3. QED
      BY <2>1, <2>2
  <1> HIDE DEF F, G
  <1>6. /\ H \in [Nat -> Elements(e)] /\ H[0] = F[0]
        /\ \A n \in Nat : H[n + 1] = Xor(Mult(e, H[n], p), F[n + 1])
    BY <1>1, <1>2, HornerXSteps
  <1>7. /\ I \in [Nat -> Elements(e)] /\ I[0] = G[0]
        /\ \A n \in Nat : I[n + 1] = Xor(Mult(e, I[n], p), G[n + 1])
    BY <1>1, <1>3, HornerXSteps
  <1> HIDE DEF H, I
  <1>8. \A n \in 0 .. s + 1 : H[n] = I[n]
    <2>1. \A n \in 0 .. s + 1 : n = s + 1 \/ n \in 0 .. s
      OBVIOUS
    <2>2. QED
      BY <1>4, <1>5, <2>1
  <1>9. ASSUME NEW n \in 0 .. s + 1 PROVE F[n] = G[n]
    <2>1. CASE n = 0
      BY <1>6, <1>7, <1>8, <2>1
    <2>2. CASE n # 0
      <3> DEFINE l == n - 1
                 y == Mult(e, H[l], p)
                 u == F[n]
                 v == G[n]
      <3>1. l \in 0 .. s + 1 /\ l + 1 = n /\ l \in Nat /\ n \in Nat
        BY <2>2
      <3>2. H[n] = Xor(y, u)
        BY <1>6, <3>1
      <3>3. I[n] = Xor(Mult(e, I[l], p), v)
        BY <1>7, <3>1
      <3>4. H[n] = I[n] /\ H[l] = I[l]
        BY <1>8, <3>1
      <3>5. y \in Nat
        BY <1>1, <1>6, <3>1, MultElement
      <3>6. u \in Nat /\ v \in Nat
        BY <1>1, <1>2, <1>3, <3>1
      <3>7. Xor(y, u) = Xor(y, v)
        BY <3>2, <3>3, <3>4
      <3> HIDE DEF y, u, v
      <3>8. Xor(Xor(y, y), u) = Xor(y, Xor(y, u)) /\ Xor(Xor(y, y), v) = Xor(y, Xor(y, v))
        BY <3>5, <3>6, XorAssociates
      <3>9. Xor(y, y) = 0 /\ Xor(0, u) = u /\ Xor(0, v) = v
        BY <3>5, <3>6, XorZero
      <3>10. u = v
        BY <3>7, <3>8, <3>9
      <3>11. QED
        BY <3>10 DEF u, v
    <2>3. QED
      BY <2>1, <2>2
  <1>10. \A n \in 0 .. s + 1 : f[n] = g[n]
    BY <1>2, <1>3, <1>9
  <1>11. QED
    BY <1>10

\* The parts of Division over GF(2^n), for the points other than 0.
LastMark == [s \in Nat |-> s]
RootsGF2X(e) == [s \in Nat |-> [f \in [0 .. s -> Elements(e)] |-> RootsX(e, Extended(f, s), s)]]
QuotientGF2X(e) ==
  [s \in Nat |-> [p \in Elements(e) \ {0} |-> [f \in [0 .. s + 1 -> Elements(e)] |-> QuotientX(e, f, s, p)]]]
Times(e) == [p \in Elements(e) \ {0} |-> [u \in Elements(e) |-> Mult(e, u, p)]]

\* Multiplying by p # 0 keeps elements apart.
LEMMA TimesKnows ==
  ASSUME NEW e, FieldOf(e), Integral(e), NEW p \in Elements(e) \ {0},
         NEW u \in Elements(e), NEW v \in Elements(e), Mult(e, u, p) = Mult(e, v, p)
  PROVE  u = v
  <1>1. Elements(e) \subseteq Nat /\ e \in Nat
    BY ZeroElement
  <1> DEFINE y == Mult(e, u, p)
             w == Xor(u, v)
  <1>2. w \in Elements(e)
    BY <1>1, XorElement
  <1>3. Mult(e, w, p) = Xor(y, y)
    <2>1. Mult(e, Xor(u, v), p) = Xor(Mult(e, u, p), Mult(e, v, p))
      BY <1>1, MultAdds
    <2>2. QED
      BY <2>1
  <1>4. y \in Nat
    BY <1>1, MultElement
  <1> HIDE DEF y, w
  <1>5. Mult(e, w, p) = 0
    BY <1>3, <1>4, XorZero
  <1>6. w = 0
    BY <1>2, <1>5 DEF Integral
  <1>7. QED
    BY <1>1, <1>6, XorEqual DEF w

\* Over GF(2^n) polynomials divide by their roots.
LEMMA DivisionGF2X ==
  ASSUME NEW e, FieldOf(e), Integral(e)
  PROVE  Division(Elements(e), Elements(e) \ {0}, LastMark, RootsGF2X(e), QuotientGF2X(e), Times(e))
  <1> DEFINE E == Elements(e)
             X == Elements(e) \ {0}
             rt == RootsGF2X(e)
             dv == QuotientGF2X(e)
             low == Times(e)
  <1>1. 0 \in E /\ IsFiniteSet(E) /\ X \subseteq E /\ E \subseteq Nat /\ X = E \ {0}
    <2>1. 0 \in E /\ E \subseteq Nat /\ e \in Nat
      BY ZeroElement
    <2>2. Power(2)[e] \in Nat
      BY <2>1, PowersOfTwo
    <2>3. IsFiniteSet(E)
      BY <2>2, FS_Interval DEF Elements
    <2>4. QED
      BY <2>1, <2>3
  <1>2. \A s \in Nat : LastMark[s] = s /\ LastMark[s] \in 0 .. s
    BY DEF LastMark
  <1>3. ASSUME NEW s \in Nat, NEW f \in [0 .. s -> E] PROVE rt[s][f] = RootsX(e, Extended(f, s), s)
    BY DEF RootsGF2X
  <1>4. ASSUME NEW s \in Nat, NEW p \in X, NEW f \in [0 .. s + 1 -> E] PROVE dv[s][p][f] = QuotientX(e, f, s, p)
    BY DEF QuotientGF2X
  <1>5. ASSUME NEW p \in X
        PROVE  low[p] \in [E -> E] /\ low[p][0] = 0 /\ \A u \in E : low[p][u] = Mult(e, u, p)
    <2>1. low[p] = [u \in E |-> Mult(e, u, p)]
      BY DEF Times
    <2>2. p \in Nat
      BY <1>1
    <2>3. \A u \in E : Mult(e, u, p) \in E
      BY <2>2, MultElement
    <2>4. Mult(e, 0, p) = 0
      BY <2>2, MultZero
    <2> HIDE DEF E, low
    <2>5. QED
      BY <1>1, <2>1, <2>3, <2>4
  <1>6. ASSUME NEW p \in X, NEW u \in E, NEW v \in E, low[p][u] = low[p][v] PROVE u = v
    <2>1. Mult(e, u, p) = Mult(e, v, p)
      BY <1>5, <1>6
    <2>2. QED
      BY <2>1, TimesKnows
  <1> HIDE DEF rt, dv, low
  <1>7. ASSUME NEW f \in [0 .. 0 -> E], f[0] # 0 PROVE rt[0][f] = {}
    <2>1. SUFFICES ASSUME NEW c \in RootsX(e, Extended(f, 0), 0) PROVE FALSE
      BY <1>3
    <2> DEFINE F == Extended(f, 0)
    <2>2. F \in [Nat -> Elements(e)] /\ \A n \in 0 .. 0 : F[n] = f[n]
      <3>1. f \in [0 .. 0 -> Elements(e)] /\ 0 \in Nat
        OBVIOUS
      <3> HIDE DEF E, X
      <3>2. QED
        BY <3>1, ExtendedElements
    <2>3. c \in Elements(e) /\ HornerX(e, F, c)[0] = 0
      BY DEF RootsX
    <2> HIDE DEF F
    <2>4. HornerX(e, F, c)[0] = F[0]
      BY <2>2, <2>3, HornerXSteps
    <2>5. F[0] = f[0]
      BY <2>2, 0 \in 0 .. 0
    <2>6. QED
      BY <1>7, <2>3, <2>4, <2>5
  <1>8. ASSUME NEW s \in Nat, NEW p \in X, NEW f \in [0 .. s + 1 -> E], p \in rt[s + 1][f]
        PROVE  /\ dv[s][p][f] \in [0 .. s -> E]
               /\ f[LastMark[s + 1]] = low[p][dv[s][p][f][LastMark[s]]]
               /\ rt[s + 1][f] \ {p} \subseteq rt[s][dv[s][p][f]]
               /\ \A g \in [0 .. s + 1 -> E] : p \in rt[s + 1][g] /\ dv[s][p][f] = dv[s][p][g] => f = g
    <2> DEFINE h == QuotientX(e, f, s, p)
               R(g) == RootsX(e, Extended(g, s + 1), s + 1)
    <2>1. s + 1 \in Nat /\ \A g \in [0 .. s + 1 -> E] : rt[s + 1][g] = R(g)
      <3>1. s + 1 \in Nat
        OBVIOUS
      <3>2. QED
        BY <1>3, <3>1
    <2>2. p \in R(f)
      BY <1>8, <2>1
    <2>3. dv[s][p][f] = h
      BY <1>4
    <2>4. /\ h \in [0 .. s -> E] /\ f[s + 1] = Mult(e, h[s], p)
          /\ R(f) \ {p} \subseteq RootsX(e, Extended(h, s), s)
      BY <2>2, RootsOfQuotientX
    <2>5. \A g \in [0 .. s + 1 -> E] : p \in R(g) /\ h = QuotientX(e, g, s, p) => f = g
      <3>1. SUFFICES ASSUME NEW g \in [0 .. s + 1 -> E], p \in R(g), h = QuotientX(e, g, s, p) PROVE f = g
        OBVIOUS
      <3>2. QED
        BY <2>2, <3>1, QuotientKnowsX
    <2> HIDE DEF h, R
    <2>6. f[LastMark[s + 1]] = low[p][h[LastMark[s]]]
      <3>1. LastMark[s + 1] = s + 1 /\ LastMark[s] = s
        BY <1>2, <2>1
      <3>2. h[s] \in E
        <4>1. s \in 0 .. s
          OBVIOUS
        <4>2. QED
          BY <2>4, <4>1
      <3>3. low[p][h[s]] = Mult(e, h[s], p)
        BY <1>5, <3>2
      <3>4. QED
        BY <2>4, <3>1, <3>3
    <2>7. rt[s][h] = RootsX(e, Extended(h, s), s)
      BY <1>3, <2>4
    <2>8. \A g \in [0 .. s + 1 -> E] : dv[s][p][g] = QuotientX(e, g, s, p)
      BY <1>4
    <2>9. \A g \in [0 .. s + 1 -> E] : p \in rt[s + 1][g] /\ dv[s][p][f] = dv[s][p][g] => f = g
      BY <2>1, <2>3, <2>5, <2>8
    <2>10. rt[s + 1][f] \ {p} \subseteq rt[s][h]
      BY <2>1, <2>4, <2>7
    <2>11. QED
      BY <2>3, <2>4, <2>6, <2>9, <2>10
  <1> HIDE DEF E, X
  <1>9. Division(E, X, LastMark, rt, dv, low)
    <2>1. \A p \in X : /\ low[p] \in [E -> E] /\ low[p][0] = 0
                       /\ \A u, v \in E : low[p][u] = low[p][v] => u = v
      BY <1>5, <1>6
    <2>2. QED
      BY <1>1, <1>2, <1>7, <1>8, <2>1 DEF Division
  <1>10. QED
    BY <1>9 DEF E, X, rt, dv, low

\* At a point other than 0, zeros after coefficient n change nothing.
LEMMA TrailingZeros ==
  ASSUME NEW e, FieldOf(e), Integral(e), NEW h \in [Nat -> Elements(e)], NEW c \in Elements(e), c # 0,
         NEW n \in Nat, NEW max \in Nat, \A j \in 1 .. max : h[n + j] = 0, HornerX(e, h, c)[n + max] = 0
  PROVE  HornerX(e, h, c)[n] = 0
  <1> DEFINE H == HornerX(e, h, c)
             Q == {j \in 0 .. max : H[n + j] = 0 => H[n] = 0}
  <1>1. H \in [Nat -> Elements(e)] /\ \A j \in Nat : H[j + 1] = Xor(Mult(e, H[j], c), h[j + 1])
    <2>1. FieldOf(e) /\ h \in [Nat -> Elements(e)] /\ c \in Elements(e)
      OBVIOUS
    <2>2. QED
      BY ONLY <2>1, HornerXSteps
  <1>2. Elements(e) \subseteq Nat /\ H[n + max] = 0
    BY ZeroElement
  <1> HIDE DEF H
  <1>3. 0 \in Q
    BY n + 0 = n
  <1>4. ASSUME NEW j \in 0 .. max - 1, j \in Q PROVE j + 1 \in Q
    <2> DEFINE y == H[n + j]
               w == Mult(e, y, c)
    <2>1. n + j \in Nat /\ (n + j) + 1 = n + (j + 1) /\ j + 1 \in 1 .. max /\ j + 1 \in 0 .. max
      BY <1>4
    <2>2. H[n + (j + 1)] = Xor(w, h[n + (j + 1)])
      BY <1>1, <2>1
    <2>3. h[n + (j + 1)] = 0
      BY <2>1
    <2>4. y \in Elements(e)
      BY <1>1, <2>1
    <2>5. w \in Nat
      BY <1>2, <2>4, MultElement
    <2>6. Xor(w, 0) = w
      BY <2>5, XorZero
    <2>7. w = 0 => y = 0
      BY <2>4 DEF Integral
    <2>8. QED
      BY <1>4, <2>1, <2>2, <2>3, <2>6, <2>7
  <1> HIDE DEF Q
  <1>5. 0 .. max \subseteq Q
    BY <1>3, <1>4, Induct
  <1>6. max \in Q
    BY <1>5
  <1>7. QED
    BY <1>2, <1>6 DEF Q, H

\* A sum and one of its terms give the other.
LEMMA XorKnows ==
  ASSUME NEW x \in Nat, NEW y \in Nat, NEW z \in Nat, Xor(x, y) = Xor(x, z)
  PROVE  y = z
  <1>1. Xor(Xor(x, x), y) = Xor(x, Xor(x, y)) /\ Xor(Xor(x, x), z) = Xor(x, Xor(x, z))
    BY XorAssociates
  <1>2. Xor(x, x) = 0 /\ Xor(0, y) = y /\ Xor(0, z) = z
    BY XorZero
  <1>3. QED
    BY <1>1, <1>2

\* Two rows differ by this polynomial, its constant coefficient last, if digit
\* n is the first that differs.
DifferenceX(b, x, y, n) == [j \in 0 .. n |-> Xor(Quotients(b, x)[j] % b, Quotients(b, y)[j] % b)]

\* It vanishes there.
LEMMA DifferenceVanishesX ==
  ASSUME NEW e, FieldOf(e), Integral(e), NEW b, b = Power(2)[e], NEW d \in Nat, NEW x \in Nat, NEW y \in Nat,
         NEW n \in 0 .. d, FirstAt(b, x, y, n)
  PROVE  /\ DifferenceX(b, x, y, n) \in [0 .. n -> Elements(e)]
         /\ CommonX(e, d, x, y) \ {0} \subseteq RootsX(e, Extended(DifferenceX(b, x, y, n), n), n)
  <1> DEFINE f == Quotients(b, x)
             g == Quotients(b, y)
             C == CoefficientsX(b, d, x)
             D == CoefficientsX(b, d, y)
             h == [j \in Nat |-> Xor(C[j], D[j])]
             v == DifferenceX(b, x, y, n)
             w == Extended(v, n)
             max == d - n
  <1>1. b \in Nat \ {0} /\ n \in Nat /\ e \in Nat /\ Elements(e) \subseteq Nat /\ max \in Nat /\ n + max = d
    BY PowersOfTwo, ZeroElement
  <1>2. C \in [Nat -> Elements(e)] /\ \A j \in 0 .. d : C[j] = f[j] % b
    BY CoefficientsXType
  <1>3. D \in [Nat -> Elements(e)] /\ \A j \in 0 .. d : D[j] = g[j] % b
    BY CoefficientsXType
  <1>4. ASSUME NEW l \in 1 .. max PROVE f[n + l] = g[n + l]
    <2>1. l - 1 \in Nat /\ (n + 1) + (l - 1) = n + l /\ n + 1 \in Nat
      BY <1>1, <1>4
    <2>2. g[n + 1] = f[n + 1]
      BY DEF FirstAt
    <2> HIDE DEF f, g
    <2>3. g[(n + 1) + (l - 1)] = f[(n + 1) + (l - 1)]
      <3> DEFINE p == n + 1
                 q == l - 1
      <3>1. b \in Nat \ {0} /\ x \in Nat /\ y \in Nat /\ p \in Nat /\ q \in Nat /\ Quotients(b, y)[p] = Quotients(b, x)[p]
        BY <1>1, <2>1, <2>2 DEF f, g
      <3> HIDE DEF p, q
      <3>2. Quotients(b, y)[p + q] = Quotients(b, x)[p + q]
        BY ONLY <3>1, SameAbove
      <3>3. QED
        BY <3>2 DEF f, g, p, q
    <2>4. QED
      BY <2>1, <2>3
  <1>5. v = [j \in 0 .. n |-> Xor(f[j] % b, g[j] % b)]
    BY DEF DifferenceX
  <1> HIDE DEF f, g, C, D, v
  <1>6. h \in [Nat -> Elements(e)] /\ \A j \in Nat : h[j] = Xor(C[j], D[j])
    <2>1. \A j \in Nat : Xor(C[j], D[j]) \in Elements(e)
      BY <1>1, <1>2, <1>3, XorElement
    <2>2. QED
      BY <2>1
  <1> HIDE DEF h
  <1>7. v \in [0 .. n -> Elements(e)] /\ \A j \in 0 .. n : v[j] = h[j]
    <2>1. ASSUME NEW j \in 0 .. n PROVE Xor(f[j] % b, g[j] % b) = h[j] /\ h[j] \in Elements(e)
      <3>1. j \in 0 .. d /\ j \in Nat
        BY <1>1
      <3>2. QED
        BY <1>2, <1>3, <1>6, <3>1
    <2>2. QED
      BY <1>5, <2>1
  <1>8. w \in [Nat -> Elements(e)] /\ \A j \in 0 .. n : w[j] = v[j]
    <2>1. FieldOf(e) /\ n \in Nat /\ v \in [0 .. n -> Elements(e)]
      BY <1>1, <1>7
    <2>2. QED
      BY ONLY <2>1, ExtendedElements
  <1> HIDE DEF w
  <1>9. \A j \in 1 .. max : h[n + j] = 0
    <2>1. ASSUME NEW j \in 1 .. max PROVE h[n + j] = 0
      <3>1. n + j \in 0 .. d /\ n + j \in Nat
        BY <1>1
      <3> DEFINE z == C[n + j]
      <3>2. D[n + j] = z
        BY <1>2, <1>3, <1>4, <3>1
      <3>3. z \in Nat
        BY <1>1, <1>2, <3>1
      <3>4. h[n + j] = Xor(z, z)
        BY <1>6, <3>1, <3>2
      <3> HIDE DEF z
      <3>5. QED
        BY <3>3, <3>4, XorZero
    <2>2. QED
      BY <2>1
  <1>10. ASSUME NEW c \in CommonX(e, d, x, y) \ {0} PROVE c \in RootsX(e, w, n)
    <2> DEFINE r == HornerX(e, C, c)[d]
               s == HornerX(e, D, c)[d]
    <2>1. c \in Elements(e) /\ c # 0 /\ r = s
      BY DEF CommonX, ValueX, C, D
    <2>2. HornerX(e, h, c)[d] = Xor(r, s)
      BY <1>2, <1>3, <1>6, <2>1, HornerXSum
    <2>3. r \in Nat
      <3>1. HornerX(e, C, c) \in [Nat -> Elements(e)]
        BY <1>2, <2>1, HornerXSteps
      <3>2. QED
        BY <1>1, <3>1
    <2> HIDE DEF r, s
    <2>4. Xor(r, s) = 0
      BY <2>1, <2>3, XorZero
    <2>5. HornerX(e, h, c)[n + max] = 0
      BY <1>1, <2>2, <2>4
    <2>6. HornerX(e, h, c)[n] = 0
      <3>1. /\ FieldOf(e) /\ Integral(e) /\ h \in [Nat -> Elements(e)] /\ c \in Elements(e) /\ c # 0
            /\ n \in Nat /\ max \in Nat
        BY <1>1, <1>6, <2>1
      <3> HIDE DEF max
      <3>2. QED
        BY ONLY <1>9, <2>5, <3>1, TrailingZeros
    <2>7. \A j \in 0 .. n : h[j] = w[j]
      BY <1>7, <1>8
    <2>8. HornerX(e, h, c)[n] = HornerX(e, w, c)[n]
      <3>1. /\ FieldOf(e) /\ h \in [Nat -> Elements(e)] /\ w \in [Nat -> Elements(e)] /\ c \in Elements(e)
            /\ n \in Nat
        BY <1>1, <1>6, <1>8, <2>1
      <3>2. QED
        BY ONLY <2>7, <3>1, HornerXLocal
    <2>9. QED
      BY <2>1, <2>6, <2>8 DEF RootsX
  <1>11. QED
    BY <1>7, <1>10 DEF v, w

\* Different numbers have different differences.
LEMMA DifferencesDifferX ==
  ASSUME NEW b \in Nat \ {0}, NEW x \in Nat, NEW y \in Nat, NEW z \in Nat, NEW n \in Nat,
         FirstAt(b, x, y, n), FirstAt(b, x, z, n), DifferenceX(b, x, z, n) = DifferenceX(b, x, y, n)
  PROVE  z = y
  <1> DEFINE f == Quotients(b, x)
             g == Quotients(b, y)
             h == Quotients(b, z)
             u == DifferenceX(b, x, y, n)
             v == DifferenceX(b, x, z, n)
  <1>1. n + 1 \in Nat
    OBVIOUS
  <1>2. f \in [Nat -> Nat] /\ g \in [Nat -> Nat] /\ h \in [Nat -> Nat]
    <2>1. f \in [Nat -> Nat]
      BY QuotientSteps
    <2>2. g \in [Nat -> Nat]
      BY QuotientSteps
    <2>3. h \in [Nat -> Nat]
      BY QuotientSteps
    <2>4. QED
      BY <2>1, <2>2, <2>3
  <1>3. h[n + 1] = g[n + 1]
    BY DEF FirstAt
  <1>4. u = [j \in 0 .. n |-> Xor(f[j] % b, g[j] % b)] /\ v = [j \in 0 .. n |-> Xor(f[j] % b, h[j] % b)]
    BY DEF DifferenceX
  <1>5. u = v
    OBVIOUS
  <1> HIDE DEF f, g, h, u, v
  <1>6. ASSUME NEW l \in 0 .. (n + 1) - 1 PROVE h[l] % b = g[l] % b
    <2> DEFINE p == f[l] % b
               q == g[l] % b
               r == h[l] % b
    <2>1. l \in 0 .. n /\ l \in Nat
      OBVIOUS
    <2>2. u[l] = Xor(p, q) /\ v[l] = Xor(p, r)
      BY <1>4, <2>1
    <2>3. p \in Nat /\ q \in Nat /\ r \in Nat
      <3>1. f[l] \in Nat /\ g[l] \in Nat /\ h[l] \in Nat
        BY <1>2, <2>1
      <3>2. p \in 0 .. b - 1 /\ q \in 0 .. b - 1 /\ r \in 0 .. b - 1
        BY <3>1, Divides
      <3>3. QED
        BY <3>2
    <2> HIDE DEF p, q, r
    <2>4. q = r
      BY <1>5, <2>2, <2>3, XorKnows
    <2>5. QED
      BY <2>4 DEF r, q
  <1>7. QED
    BY <1>1, <1>3, <1>6, SameNumber DEF g, h

\* The parts of Differences over GF(2^n): the constant coefficient is the sum of
\* digits n.
DifferencesGF2X(b, x, n) == [y \in Nat |-> DifferenceX(b, x, y, n)]
LowestGF2X(b, x, n) == {Xor(Quotients(b, x)[n] % b, s) : s \in 0 .. (Quotients(b, x)[n] % b) - 1}

\* The sums of an element with the smaller numbers.
LEMMA SumsWithSmaller ==
  ASSUME NEW e, FieldOf(e), NEW u \in Elements(e), NEW V, V = {Xor(u, s) : s \in 0 .. u - 1}
  PROVE  V \in SUBSET (Elements(e) \ {0}) /\ Cardinality(V) <= u
  <1>1. Elements(e) \subseteq Nat /\ e \in Nat /\ u \in Nat /\ u < Power(2)[e] /\ Power(2)[e] \in Nat
    <2>1. Elements(e) \subseteq Nat /\ e \in Nat
      BY ZeroElement
    <2>2. Power(2)[e] \in Nat
      BY <2>1, PowersOfTwo
    <2>3. QED
      BY <2>1, <2>2 DEF Elements
  <1>2. ASSUME NEW s \in 0 .. u - 1 PROVE Xor(u, s) \in Elements(e) \ {0}
    <2>1. s \in Elements(e) /\ s \in Nat /\ s # u
      BY <1>1 DEF Elements
    <2>2. Xor(u, s) \in Elements(e)
      BY <1>1, <2>1, XorElement
    <2>3. Xor(u, s) # 0
      BY <1>1, <2>1, XorEqual
    <2>4. QED
      BY <2>2, <2>3
  <1> DEFINE S == 0 .. u - 1
             f == [s \in S |-> Xor(u, s)]
  <1>3. f \in Surjection(S, V)
    <2>1. f \in [S -> V]
      OBVIOUS
    <2>2. QED
      BY <2>1 DEF Surjection
  <1>4. IsFiniteSet(S) /\ Cardinality(S) = u
    <2>1. IsFiniteSet(0 .. u - 1) /\ Cardinality(0 .. u - 1) = IF 0 > u - 1 THEN 0 ELSE ((u - 1) - 0) + 1
      <3>1. u - 1 \in Int /\ 0 \in Int
        BY <1>1
      <3>2. QED
        BY ONLY <3>1, FS_Interval
    <2>2. QED
      BY <1>1, <2>1
  <1> HIDE DEF S, f
  <1>5. Cardinality(V) <= Cardinality(S)
    BY <1>3, <1>4, FS_Surjection
  <1>6. QED
    BY <1>2, <1>4, <1>5

\* The differences are as the counting needs them.
LEMMA EachDifferenceGF2X ==
  ASSUME NEW e, FieldOf(e), Integral(e), NEW b, b = Power(2)[e], NEW d \in Nat, NEW x \in Nat, NEW n \in 0 .. d,
         NEW E, E = Elements(e), NEW common, common = [y \in Nat |-> CommonX(e, d, x, y) \ {0}]
  PROVE  Differences(b, E, LastMark, RootsGF2X(e), x, common, LowestGF2X(b, x, n), DifferencesGF2X(b, x, n), n)
  <1> DEFINE V == LowestGF2X(b, x, n)
             df == DifferencesGF2X(b, x, n)
             u == Quotients(b, x)[n] % b
  <1>1. b \in Nat \ {0} /\ n \in Nat /\ e \in Nat /\ Elements(e) = 0 .. b - 1
    BY PowersOfTwo, ZeroElement DEF Elements
  <1>2. u \in Elements(e)
    <2>1. Quotients(b, x) \in [Nat -> Nat]
      <3>1. b \in Nat \ {0} /\ x \in Nat
        BY <1>1
      <3>2. QED
        BY ONLY <3>1, QuotientSteps
    <2>2. Quotients(b, x)[n] \in Nat
      BY <1>1, <2>1
    <2>3. QED
      BY <1>1, <2>2, Divides
  <1>3. V = {Xor(u, s) : s \in 0 .. u - 1}
    BY DEF LowestGF2X
  <1>4. \A y \in Nat : df[y] = DifferenceX(b, x, y, n)
    BY DEF DifferencesGF2X
  <1> HIDE DEF V, df
  <1>5. V \in SUBSET (E \ {0}) /\ Cardinality(V) <= u
    <2> HIDE DEF u
    <2>1. QED
      BY <1>2, <1>3, SumsWithSmaller
  <1>6. ASSUME NEW y \in 0 .. x - 1, FirstAt(b, x, y, n)
        PROVE  /\ df[y] \in [0 .. n -> E] /\ df[y][LastMark[n]] \in V /\ common[y] \subseteq RootsGF2X(e)[n][df[y]]
               /\ \A z \in 0 .. x - 1 : FirstAt(b, x, z, n) /\ df[z] = df[y] => z = y
    <2> DEFINE v == DifferenceX(b, x, y, n)
    <2>1. y \in Nat /\ df[y] = v
      BY <1>4
    <2>2. v \in [0 .. n -> E] /\ common[y] \subseteq RootsX(e, Extended(v, n), n)
      <3>1. common[y] = CommonX(e, d, x, y) \ {0}
        BY <2>1
      <3>2. v \in [0 .. n -> Elements(e)] /\ CommonX(e, d, x, y) \ {0} \subseteq RootsX(e, Extended(v, n), n)
        BY <2>1, <1>6, DifferenceVanishesX
      <3>3. QED
        BY <3>1, <3>2
    <2>3. v[n] \in V
      <3> DEFINE s == Quotients(b, y)[n] % b
      <3>1. s \in 0 .. u - 1
        BY <1>1, <1>6, SmallerDigit
      <3>2. v[n] = Xor(u, s)
        <4>1. n \in 0 .. n
          BY <1>1
        <4>2. QED
          BY <4>1 DEF DifferenceX
      <3> HIDE DEF v, s, u
      <3>3. QED
        BY <1>3, <3>1, <3>2
    <2>4. LastMark[n] = n
      BY <1>1 DEF LastMark
    <2>5. RootsGF2X(e)[n][v] = RootsX(e, Extended(v, n), n)
      BY <1>1, <2>2 DEF RootsGF2X
    <2>6. ASSUME NEW z \in 0 .. x - 1, FirstAt(b, x, z, n), df[z] = df[y] PROVE z = y
      <3>1. z \in Nat /\ df[z] = DifferenceX(b, x, z, n)
        BY <1>4
      <3>2. QED
        BY <1>1, <1>6, <2>1, <2>6, <3>1, DifferencesDifferX
    <2> HIDE DEF v
    <2>7. QED
      BY <2>1, <2>2, <2>3, <2>4, <2>5, <2>6
  <1>7. Differences(b, E, LastMark, RootsGF2X(e), x, common, V, df, n)
    BY <1>5, <1>6 DEF Differences
  <1>8. QED
    BY <1>7 DEF V, df

\* The columns row x of a GF(2^n) design has in common with each row, and those
\* other than 0.
CommonsX(e, d, x) == [y \in Nat |-> CommonX(e, d, x, y)]
CommonsGF2X(e, d, x) == [y \in Nat |-> CommonX(e, d, x, y) \ {0}]

\* What is counted over GF(2^n), in the terms CountBelow counts in.
PartsGF2X(e, b, d, x, E, X, P, common, mk, rt, dv, low, V, df, S) ==
  /\ b = Power(2)[e] /\ E = Elements(e) /\ X = E \ {0} /\ P \in SUBSET X /\ common = CommonsGF2X(e, d, x)
  /\ mk = LastMark /\ rt = RootsGF2X(e) /\ dv = QuotientGF2X(e) /\ low = Times(e)
  /\ V = [n \in Nat |-> LowestGF2X(b, x, n)] /\ df = [n \in Nat |-> DifferencesGF2X(b, x, n)]
  /\ S = Chosen(x, P, common)

\* Counting with the division and the differences of GF(2^n).
LEMMA CountWithGF2X ==
  ASSUME NEW e, FieldOf(e), Integral(e), NEW b, NEW d \in Nat, NEW x \in Nat, x < Power(b)[d + 1],
         NEW E, NEW X, NEW P, NEW common, NEW mk, NEW rt, NEW dv, NEW low, NEW V, NEW df, NEW S,
         PartsGF2X(e, b, d, x, E, X, P, common, mk, rt, dv, low, V, df, S)
  PROVE  IsFiniteSet(S) /\ Cardinality(S) \in Nat /\ 96 * Cardinality(S) <= 261 * x
  <1>1. /\ b = Power(2)[e] /\ E = Elements(e) /\ X = E \ {0} /\ P \in SUBSET X
        /\ common = [y \in Nat |-> CommonX(e, d, x, y) \ {0}]
        /\ mk = LastMark /\ rt = RootsGF2X(e) /\ dv = QuotientGF2X(e) /\ low = Times(e)
        /\ V = [n \in Nat |-> LowestGF2X(b, x, n)] /\ df = [n \in Nat |-> DifferencesGF2X(b, x, n)]
        /\ S = Chosen(x, P, common)
    BY DEF PartsGF2X, CommonsGF2X
  <1>2. b \in Nat \ {0} /\ E = 0 .. b - 1
    BY <1>1, PowersOfTwo, ZeroElement DEF Elements
  <1>3. IsFiniteSet(E) /\ Cardinality(E) = b
    <2>1. IsFiniteSet(0 .. b - 1) /\ Cardinality(0 .. b - 1) = IF 0 > b - 1 THEN 0 ELSE ((b - 1) - 0) + 1
      <3>1. b - 1 \in Int /\ 0 \in Int
        BY <1>2
      <3>2. QED
        BY ONLY <3>1, FS_Interval
    <2>2. QED
      BY <1>2, <2>1
  <1>4. Cardinality(P) <= b
    <2>1. P \in SUBSET E
      BY <1>1
    <2>2. QED
      BY <1>3, <2>1, FS_Subset
  <1>5. Division(E, X, mk, rt, dv, low)
    BY <1>1, DivisionGF2X
  <1>6. ASSUME NEW n \in 0 .. d PROVE Differences(b, E, mk, rt, x, common, V[n], df[n], n)
    <2>1. V[n] = LowestGF2X(b, x, n) /\ df[n] = DifferencesGF2X(b, x, n)
      BY <1>1
    <2>2. Differences(b, E, LastMark, RootsGF2X(e), x, common, LowestGF2X(b, x, n), DifferencesGF2X(b, x, n), n)
      BY <1>1, EachDifferenceGF2X
    <2>3. QED
      BY <1>1, <2>1, <2>2
  <1>7. EachDifference(b, E, mk, rt, x, common, V, df, d)
    BY <1>6 DEF EachDifference
  <1>8. /\ b \in Nat \ {0} /\ d \in Nat /\ x \in Nat /\ P \in SUBSET X
        /\ x < Power(b)[d + 1] /\ b = Cardinality(E) /\ S = Chosen(x, P, common)
    BY <1>1, <1>2, <1>3
  <1>9. QED
    BY ONLY <1>4, <1>5, <1>7, <1>8, CountBelow

\* Over GF(2^n) the bound is the same for columns other than 0.
LEMMA CountGF2X ==
  ASSUME NEW e, FieldOf(e), Integral(e), NEW b, b = Power(2)[e], NEW d \in Nat, NEW x \in Nat, x < Power(b)[d + 1],
         NEW P \in SUBSET (Elements(e) \ {0}), NEW shared, shared = CommonsX(e, d, x)
  PROVE  LET S == Chosen(x, P, shared)
         IN  IsFiniteSet(S) /\ Cardinality(S) \in Nat /\ 96 * Cardinality(S) <= 261 * x
  <1> DEFINE S == Chosen(x, P, shared)
             common == CommonsGF2X(e, d, x)
  <1>1. \A y \in 0 .. x - 1 : common[y] = CommonX(e, d, x, y) \ {0} /\ shared[y] = CommonX(e, d, x, y)
    <2>1. \A y \in 0 .. x - 1 : y \in Nat
      OBVIOUS
    <2>2. QED
      BY <2>1 DEF CommonsX, CommonsGF2X
  <1>2. S = Chosen(x, P, common)
    <2>1. ASSUME NEW z \in (0 .. x - 1) \X SUBSET P
          PROVE  z[2] \subseteq shared[z[1]] <=> z[2] \subseteq common[z[1]]
      <3> DEFINE C == CommonX(e, d, x, z[1])
      <3>1. common[z[1]] = C \ {0} /\ shared[z[1]] = C /\ 0 \notin z[2]
        BY <1>1
      <3> HIDE DEF C, common
      <3>2. QED
        BY <3>1
    <2> HIDE DEF common
    <2>2. QED
      BY <2>1 DEF Chosen
  <1> DEFINE E == Elements(e)
             X == E \ {0}
             mk == LastMark
             rt == RootsGF2X(e)
             dv == QuotientGF2X(e)
             low == Times(e)
             V == [n \in Nat |-> LowestGF2X(b, x, n)]
             df == [n \in Nat |-> DifferencesGF2X(b, x, n)]
  <1>3. FieldOf(e) /\ Integral(e) /\ d \in Nat /\ x \in Nat /\ x < Power(b)[d + 1]
    OBVIOUS
  <1>4. PartsGF2X(e, b, d, x, E, X, P, common, mk, rt, dv, low, V, df, S)
    BY <1>2 DEF PartsGF2X
  <1> HIDE DEF E, X, mk, rt, dv, low, V, df, common, S
  <1>5. IsFiniteSet(S) /\ Cardinality(S) \in Nat /\ 96 * Cardinality(S) <= 261 * x
    BY ONLY <1>3, <1>4, CountWithGF2X
  <1>6. QED
    BY <1>5 DEF S

-----------------------------------------------------------------------------
(* The sum of the weak-design condition counts pairs. *)

\* Each earlier row with some of the bits common to it and row j.
CommonBits(j, n) == {z \in (1 .. n) \X SUBSET Row(j) : z[2] \subseteq Row(z[1])}

\* The rows to n + 1 are the rows to n and row n + 1.
LEMMA OneMoreRow ==
  ASSUME NEW j, IsFiniteSet(Row(j)), NEW n \in Nat, IsFiniteSet(CommonBits(j, n))
  PROVE  /\ IsFiniteSet(CommonBits(j, n + 1)) /\ Cardinality(CommonBits(j, n + 1)) \in Nat
         /\ Cardinality(CommonBits(j, n)) \in Nat
         /\ Cardinality(CommonBits(j, n + 1)) = Cardinality(CommonBits(j, n)) + 2 ^ Cardinality(Row(j) \cap Row(n + 1))
  <1> DEFINE A == CommonBits(j, n)
             R == Row(j) \cap Row(n + 1)
             I == {n + 1}
             B == I \X SUBSET R
             S == CommonBits(j, n + 1)
  <1>1. IsFiniteSet(R) /\ R \in SUBSET Row(j)
    BY FS_Intersection
  <1>2. S = A \cup B /\ A \cap B = {}
    <2>1. n + 1 \notin 1 .. n /\ 1 .. n + 1 = (1 .. n) \cup {n + 1}
      OBVIOUS
    <2>2. ASSUME NEW z \in S PROVE z \in A \/ z \in B
      <3>1. z \in (1 .. n + 1) \X SUBSET Row(j) /\ z[2] \subseteq Row(z[1])
        BY <2>2 DEF CommonBits
      <3>2. CASE z[1] = n + 1
        <4>1. z[1] \in I /\ z[2] \in SUBSET R /\ z = <<z[1], z[2]>>
          BY <3>1, <3>2
        <4> HIDE DEF R, I
        <4>2. QED
          BY <4>1
      <3>3. CASE z[1] # n + 1
        <4>1. z[1] \in 1 .. n /\ z[2] \in SUBSET Row(j) /\ z = <<z[1], z[2]>>
          BY <2>1, <3>1, <3>3
        <4>2. QED
          BY <3>1, <4>1 DEF CommonBits
      <3>4. QED
        BY <3>2, <3>3
    <2>3. ASSUME NEW z \in A PROVE z \in S /\ z[1] # n + 1
      <3>1. z \in (1 .. n) \X SUBSET Row(j) /\ z[2] \subseteq Row(z[1])
        BY <2>3 DEF CommonBits
      <3>2. z[1] \in 1 .. n + 1 /\ z[1] # n + 1 /\ z[2] \in SUBSET Row(j) /\ z = <<z[1], z[2]>>
        BY <2>1, <3>1
      <3>3. QED
        BY <3>1, <3>2 DEF CommonBits
    <2>4. ASSUME NEW z \in B PROVE z \in S /\ z[1] = n + 1
      <3>1. z[1] = n + 1 /\ z[2] \in SUBSET R /\ z = <<z[1], z[2]>>
        BY <2>4
      <3>2. z[1] \in 1 .. n + 1 /\ z[2] \in SUBSET Row(j) /\ z[2] \subseteq Row(z[1])
        BY <2>1, <3>1
      <3>3. QED
        BY <3>1, <3>2 DEF CommonBits
    <2> HIDE DEF A, B, S
    <2>5. QED
      BY <2>2, <2>3, <2>4
  <1>3. IsFiniteSet(B) /\ Cardinality(B) = Cardinality(SUBSET R) /\ Cardinality(B) \in Nat
    <2>1. IsFiniteSet(I) /\ Cardinality(I) = 1
      BY FS_Singleton
    <2> DEFINE T == SUBSET R
    <2>2. IsFiniteSet(T)
      BY <1>1, FS_SUBSET
    <2>3. Cardinality(T) \in Nat
      BY <2>2, FS_CardinalityType
    <2> HIDE DEF I, T
    <2>4. IsFiniteSet(I \X T) /\ Cardinality(I \X T) = Cardinality(I) * Cardinality(T)
      BY <2>1, <2>2, FS_Product
    <2>5. Cardinality(I \X T) = Cardinality(T)
      BY <2>1, <2>3, <2>4
    <2>6. QED
      BY <2>3, <2>4, <2>5 DEF T
  <1>4. Cardinality(SUBSET R) = 2 ^ Cardinality(R)
    <2> HIDE DEF R
    <2>1. QED
      BY <1>1, FS_SUBSET
  <1>5. IsFiniteSet(A)
    OBVIOUS
  <1> HIDE DEF A, B, S
  <1>6. Cardinality(A) \in Nat
    BY <1>5, FS_CardinalityType
  <1>7. IsFiniteSet(A \cup B) /\ Cardinality(A \cup B) = Cardinality(A) + Cardinality(B) - Cardinality(A \cap B)
    BY <1>3, <1>5, FS_Union
  <1>8. Cardinality(A \cap B) = 0
    BY <1>2, FS_EmptySet
  <1>9. IsFiniteSet(S) /\ Cardinality(S) = Cardinality(A) + Cardinality(B)
    BY <1>2, <1>3, <1>6, <1>7, <1>8
  <1>10. Cardinality(S) \in Nat
    BY <1>3, <1>6, <1>9
  <1>11. QED
    BY <1>3, <1>4, <1>6, <1>9, <1>10 DEF A, S

\* The weight of a row is the number of its pairs.
LEMMA WeightCounts ==
  ASSUME NEW j \in Nat \ {0}, IsFiniteSet(Row(j))
  PROVE  /\ IsFiniteSet(CommonBits(j, j - 1)) /\ Cardinality(CommonBits(j, j - 1)) \in Nat
         /\ OverlapWeight(j) = Cardinality(CommonBits(j, j - 1))
  <1> DEFINE max == j - 1
             Q == {n \in 0 .. max : IsFiniteSet(CommonBits(j, n))}
             Is(f) == f = [l \in 0 .. max |-> IF l = 0 THEN 0 ELSE f[l - 1] + 2 ^ Cardinality(Row(j) \cap Row(l))]
             w == CHOOSE f : Is(f)
             g == [l \in 0 .. max |-> Cardinality(CommonBits(j, l))]
  <1>1. max \in Nat
    OBVIOUS
  <1>2. CommonBits(j, 0) = {}
    <2>1. 1 .. 0 = {}
      OBVIOUS
    <2>2. QED
      BY <2>1 DEF CommonBits
  <1>3. IsFiniteSet(CommonBits(j, 0)) /\ Cardinality(CommonBits(j, 0)) = 0
    BY <1>2, FS_EmptySet
  <1>4. OverlapWeight(j) = w[max]
    BY DEF OverlapWeight
  <1> HIDE DEF w, Is, max
  <1>5. 0 .. max \subseteq Q
    <2>1. 0 \in Q
      BY <1>1, <1>3
    <2>2. ASSUME NEW n \in 0 .. max - 1, n \in Q PROVE n + 1 \in Q
      <3>1. n \in Nat /\ n + 1 \in 0 .. max /\ IsFiniteSet(CommonBits(j, n))
        BY <1>1, <2>2
      <3>2. IsFiniteSet(CommonBits(j, n + 1))
        BY <3>1, OneMoreRow
      <3>3. QED
        BY <3>1, <3>2
    <2> HIDE DEF Q
    <2>3. QED
      BY <1>1, <2>1, <2>2, Induct
  <1>6. \A n \in 0 .. max : IsFiniteSet(CommonBits(j, n))
    BY <1>5
  <1>7. \A l \in 0 .. max : g[l] = Cardinality(CommonBits(j, l))
    OBVIOUS
  <1>8. ASSUME NEW l \in 0 .. max, l # 0
        PROVE  g[l] = g[l - 1] + 2 ^ Cardinality(Row(j) \cap Row(l))
    <2> DEFINE n == l - 1
    <2>1. n \in Nat /\ n \in 0 .. max /\ n + 1 = l
      BY <1>1, <1>8
    <2>2. IsFiniteSet(CommonBits(j, n))
      BY <1>6, <2>1
    <2> HIDE DEF n
    <2>3. Cardinality(CommonBits(j, n + 1)) = Cardinality(CommonBits(j, n)) + 2 ^ Cardinality(Row(j) \cap Row(n + 1))
      BY <2>1, <2>2, OneMoreRow
    <2> HIDE DEF g
    <2>4. g[l] = Cardinality(CommonBits(j, n + 1)) /\ g[n] = Cardinality(CommonBits(j, n))
      BY <1>7, <2>1
    <2>5. QED
      BY <2>1, <2>3, <2>4 DEF n
  <1>9. g = [l \in 0 .. max |-> g[l]]
    OBVIOUS
  <1>10. 0 \in 0 .. max /\ g[0] = 0
    BY <1>1, <1>3
  <1> HIDE DEF g
  <1>11. Is(g)
    BY <1>8, <1>9, <1>10 DEF Is
  <1>12. Is(w)
    BY <1>11 DEF w
  <1> DEFINE E == {l \in 0 .. max : w[l] = g[l]}
  <1>13. 0 .. max \subseteq E
    <2>1. w = [l \in 0 .. max |-> IF l = 0 THEN 0 ELSE w[l - 1] + 2 ^ Cardinality(Row(j) \cap Row(l))]
      BY <1>12 DEF Is
    <2>2. 0 \in E
      BY <1>10, <2>1
    <2>3. ASSUME NEW n \in 0 .. max - 1, n \in E PROVE n + 1 \in E
      <3>1. n + 1 \in 0 .. max /\ n + 1 # 0 /\ (n + 1) - 1 = n /\ w[n] = g[n]
        BY <1>1, <2>3
      <3> DEFINE p == 2 ^ Cardinality(Row(j) \cap Row(n + 1))
      <3>2. w[n + 1] = w[n] + p
        BY <2>1, <3>1
      <3>3. g[n + 1] = g[n] + p
        BY <1>8, <3>1
      <3> HIDE DEF p
      <3>4. w[n + 1] = g[n + 1]
        BY <3>1, <3>2, <3>3
      <3>5. QED
        BY <3>1, <3>4
    <2> HIDE DEF E
    <2>4. QED
      BY <1>1, <2>2, <2>3, Induct
  <1>14. max \in 0 .. max
    BY <1>1
  <1>15. w[max] = Cardinality(CommonBits(j, max)) /\ IsFiniteSet(CommonBits(j, max))
    BY <1>6, <1>7, <1>13, <1>14
  <1>16. Cardinality(CommonBits(j, max)) \in Nat
    BY <1>15, FS_CardinalityType
  <1>17. QED
    BY <1>4, <1>15, <1>16 DEF max

\* A row has finitely many bits.
LEMMA RowFinite ==
  ASSUME NEW j, tReq \in Nat
  PROVE  IsFiniteSet(Row(j))
  <1> DEFINE S == 1 .. tReq
             f == [x \in S |-> design[j][x]]
             R == Row(j)
  <1>1. IsFiniteSet(S)
    BY FS_Interval
  <1>2. f \in Surjection(S, R)
    <2>1. f \in [S -> R] /\ \A y \in R : \E x \in S : f[x] = y
      BY DEF Row
    <2>2. QED
      BY <2>1 DEF Surjection
  <1> HIDE DEF S, f, R
  <1>3. IsFiniteSet(R)
    BY <1>1, <1>2, FS_Surjection
  <1>4. QED
    BY <1>3 DEF R

\* Where a column of the matrix tells the bits of a row apart, and says which
\* values are common, there are no more pairs than CountBelow counts.
LEMMA PairsInjected ==
  ASSUME NEW n \in Nat, NEW j, NEW P, IsFiniteSet(P), NEW col \in [Row(j) -> P],
         \A p, q \in Row(j) : col[p] = col[q] => p = q, NEW common,
         \A l \in 1 .. n : \A p \in Row(j) \cap Row(l) : col[p] \in common[l - 1],
         NEW T, T = Chosen(n, P, common)
  PROVE  IsFiniteSet(T) /\ Cardinality(T) \in Nat /\ Cardinality(CommonBits(j, n)) <= Cardinality(T)
  <1> DEFINE S == CommonBits(j, n)
             Image(A) == {col[p] : p \in A}
             f == [z \in S |-> <<z[1] - 1, Image(z[2])>>]
  <1>1. IsFiniteSet(T)
    <2> DEFINE N == 0 .. n - 1
               A == SUBSET P
    <2>1. IsFiniteSet(N)
      BY FS_Interval
    <2>2. IsFiniteSet(A)
      BY FS_SUBSET
    <2>3. T \subseteq N \X A
      BY DEF Chosen
    <2> HIDE DEF N, A
    <2>4. IsFiniteSet(N \X A)
      BY <2>1, <2>2, FS_Product
    <2>5. QED
      BY <2>3, <2>4, FS_Subset
  <1>2. ASSUME NEW z \in S
        PROVE  z[1] \in 1 .. n /\ z[2] \in SUBSET Row(j) /\ z[2] \subseteq Row(z[1]) /\ z = <<z[1], z[2]>>
    <2>1. z \in (1 .. n) \X SUBSET Row(j) /\ z[2] \subseteq Row(z[1])
      BY <1>2 DEF CommonBits
    <2>2. QED
      BY <2>1
  <1> HIDE DEF S
  <1>3. ASSUME NEW z \in S PROVE <<z[1] - 1, Image(z[2])>> \in T
    <2> DEFINE l == z[1]
               A == z[2]
    <2>1. l \in 1 .. n /\ A \in SUBSET Row(j) /\ A \subseteq Row(l)
      BY <1>2
    <2> HIDE DEF l, A
    <2>2. Image(A) \in SUBSET P /\ Image(A) \subseteq common[l - 1]
      BY <2>1
    <2>3. l - 1 \in 0 .. n - 1
      BY <2>1
    <2> HIDE DEF Image
    <2>4. <<l - 1, Image(A)>> \in Chosen(n, P, common)
      BY <2>2, <2>3 DEF Chosen
    <2>5. QED
      BY <2>4 DEF l, A
  <1>4. f \in [S -> T]
    <2> HIDE DEF Image
    <2>1. QED
      BY <1>3
  <1>5. ASSUME NEW y \in S, NEW z \in S, f[y] = f[z] PROVE y = z
    <2> DEFINE A == y[2]
               B == z[2]
    <2>1. y[1] - 1 = z[1] - 1 /\ Image(A) = Image(B)
      <3> HIDE DEF Image
      <3>1. <<y[1] - 1, Image(A)>> = <<z[1] - 1, Image(B)>>
        BY <1>5
      <3>2. QED
        BY <3>1
    <2>2. A \in SUBSET Row(j) /\ B \in SUBSET Row(j) /\ y[1] = z[1] /\ y = <<y[1], A>> /\ z = <<z[1], B>>
      BY <1>2, <2>1
    <2> HIDE DEF A, B
    <2>3. ASSUME NEW p \in A PROVE p \in B
      <3>1. col[p] \in Image(B)
        BY <2>1, <2>3
      <3>2. PICK q \in B : col[p] = col[q]
        BY <3>1
      <3>3. QED
        BY <2>2, <3>2
    <2>4. ASSUME NEW p \in B PROVE p \in A
      <3>1. col[p] \in Image(A)
        BY <2>1, <2>4
      <3>2. PICK q \in A : col[p] = col[q]
        BY <3>1
      <3>3. QED
        BY <2>2, <3>2
    <2>5. A = B
      BY <2>3, <2>4
    <2>6. QED
      BY <2>2, <2>5
  <1> HIDE DEF f
  <1>6. IsFiniteSet(S) /\ Cardinality(S) <= Cardinality(T)
    BY <1>1, <1>4, <1>5, Injected
  <1>7. Cardinality(T) \in Nat
    BY <1>1, FS_CardinalityType
  <1>8. QED
    BY <1>1, <1>6, <1>7 DEF S

\* One more column at most doubles the pairs.
LEMMA OneMoreColumn ==
  ASSUME NEW n \in Nat, NEW P, IsFiniteSet(P), 0 \notin P, NEW Q, Q = P \cup {0}, NEW common,
         NEW S, S = Chosen(n, Q, common), NEW T, T = Chosen(n, P, common),
         IsFiniteSet(T), Cardinality(T) \in Nat
  PROVE  Cardinality(S) \in Nat /\ Cardinality(S) <= 2 * Cardinality(T)
  <1> DEFINE D == {0, 1}
             flag(z) == IF 0 \in z[2] THEN 1 ELSE 0
             rest(z) == <<z[1], z[2] \ {0}>>
             U == D \X T
             f == [z \in S |-> <<flag(z), rest(z)>>]
  <1>1. ASSUME NEW z \in S
        PROVE  z[1] \in 0 .. n - 1 /\ z[2] \in SUBSET Q /\ z[2] \subseteq common[z[1]] /\ z = <<z[1], z[2]>>
    BY DEF Chosen
  <1>2. ASSUME NEW z \in S PROVE flag(z) \in D /\ rest(z) \in T
    <2> DEFINE A == z[2]
               B == A \ {0}
               l == z[1]
    <2>1. l \in 0 .. n - 1 /\ A \in SUBSET Q /\ A \subseteq common[l]
      BY <1>1
    <2> HIDE DEF A, l
    <2>2. B \in SUBSET P /\ B \subseteq common[l]
      BY <2>1
    <2> HIDE DEF B
    <2>3. <<l, B>> \in T
      BY <2>1, <2>2 DEF Chosen
    <2>4. rest(z) \in T
      BY <2>3 DEF A, B, l
    <2>5. flag(z) \in D
      OBVIOUS
    <2>6. QED
      BY <2>4, <2>5
  <1>3. f \in [S -> U]
    <2> HIDE DEF flag, rest, D
    <2>1. QED
      BY <1>2
  <1>4. ASSUME NEW y \in S, NEW z \in S, f[y] = f[z] PROVE y = z
    <2> DEFINE A == y[2]
               B == z[2]
    <2>1. flag(y) = flag(z) /\ rest(y) = rest(z)
      <3> HIDE DEF flag, rest
      <3>1. <<flag(y), rest(y)>> = <<flag(z), rest(z)>>
        BY <1>4
      <3>2. QED
        BY <3>1
    <2>2. y[1] = z[1] /\ A \ {0} = B \ {0}
      BY <2>1
    <2>3. 0 \in A <=> 0 \in B
      BY <2>1
    <2>4. y = <<y[1], A>> /\ z = <<z[1], B>>
      BY <1>1
    <2> HIDE DEF A, B
    <2>5. A = B
      BY <2>2, <2>3
    <2>6. QED
      BY <2>2, <2>4, <2>5
  <1>5. IsFiniteSet(D) /\ Cardinality(D) = 2
    <2>1. IsFiniteSet({0}) /\ Cardinality({0}) = 1
      BY FS_Singleton
    <2>2. IsFiniteSet({0} \cup {1}) /\ Cardinality({0} \cup {1}) = Cardinality({0}) + 1
      BY <2>1, 1 \notin {0}, FS_AddElement
    <2>3. D = {0} \cup {1}
      OBVIOUS
    <2>4. QED
      BY <2>1, <2>2, <2>3
  <1> HIDE DEF D, f
  <1>6. IsFiniteSet(U) /\ Cardinality(U) = 2 * Cardinality(T)
    <2>1. IsFiniteSet(D \X T) /\ Cardinality(D \X T) = Cardinality(D) * Cardinality(T)
      BY <1>5, FS_Product
    <2>2. QED
      BY <1>5, <2>1
  <1> HIDE DEF U
  <1>7. Cardinality(S) \in Nat /\ Cardinality(S) <= Cardinality(U)
    BY <1>3, <1>4, <1>6, Injected
  <1>8. QED
    BY <1>6, <1>7

\* A row of a GF(p) design weighs at most e times the rows before it, rounded up.
LEMMA WeightGFP ==
  ASSUME Inv, PolyInv, type = "gfp", pc = "done", NEW j \in 1 .. m
  PROVE  OverlapWeight(j) \in Nat /\ 96 * OverlapWeight(j) <= 261 * (j - 1)
  <1> DEFINE x == j - 1
             E == 0 .. t - 1
             R == Row(j)
             common == CommonsGFP(t, deg, x)
             col == [index \in R |-> index \div t]
             T == Chosen(x, E, common)
  <1>1. SizesOK /\ DegreeOK
    BY DEF Inv, GFP, PolyInv, Polynomials
  <1>2. /\ m \in Nat /\ t \in Nat \ {0} /\ t \in Nat /\ tReq \in Nat /\ tReq <= t /\ Prime(t) /\ deg \in Nat
        /\ m <= Power(t)[deg + 1]
    BY <1>1 DEF SizesOK, DegreeOK, Prime
  <1>3. j \in Nat \ {0} /\ x \in Nat /\ x < m
    BY <1>2
  <1>4. x < Power(t)[deg + 1]
    <2>1. Power(t)[deg + 1] \in Nat
      BY <1>2, PowerSteps DEF PowersOf
    <2>2. QED
      BY <1>2, <1>3, <2>1
  <1>5. ASSUME NEW index \in R
        PROVE  index \div t \in E /\ index = t * (index \div t) + Value(t, deg, x, index \div t)
    <2>1. /\ index \div t \in 0 .. tReq - 1
          /\ index = t * (index \div t) + Value(t, deg, j - 1, index \div t)
      BY RowMembers
    <2>2. QED
      BY <1>2, <2>1
  <1>6. IsFiniteSet(E)
    BY <1>2, FS_Interval
  <1>7. IsFiniteSet(Row(j))
    BY <1>2, RowFinite
  <1>8. \A l \in 1 .. x : \A p \in Row(j) \cap Row(l) : p \div t \in Common(t, deg, x, l - 1)
    <2>1. SUFFICES ASSUME NEW l \in 1 .. j - 1, NEW p \in Row(j) \cap Row(l)
                   PROVE  p \div t \in Common(t, deg, j - 1, l - 1)
      OBVIOUS
    <2>2. QED
      BY SharedGFP
  <1>9. \A l \in 1 .. x : \A p \in Row(j) \cap Row(l) : col[p] \in common[l - 1]
    <2>1. \A l \in 1 .. x : l - 1 \in Nat
      BY <1>3
    <2> HIDE DEF x
    <2>2. QED
      BY <1>8, <2>1 DEF CommonsGFP
  <1>10. T = Chosen(x, E, common) /\ common = CommonsGFP(t, deg, x)
    OBVIOUS
  <1>11. col \in [Row(j) -> E] /\ \A p, q \in Row(j) : col[p] = col[q] => p = q
    <2> HIDE DEF x, E
    <2>1. \A p \in R : col[p] = p \div t
      OBVIOUS
    <2> HIDE DEF R
    <2>2. col \in [R -> E]
      BY <1>5
    <2> HIDE DEF col
    <2>3. \A p, q \in R : col[p] = col[q] => p = q
      BY <1>5, <2>1
    <2>4. QED
      BY <2>2, <2>3 DEF R
  <1> DEFINE S == CommonBits(j, x)
  <1>12. IsFiniteSet(S) /\ Cardinality(S) \in Nat /\ OverlapWeight(j) = Cardinality(S)
    BY <1>3, <1>7, WeightCounts
  <1> HIDE DEF x, T, common, col, E, R
  <1>13. Cardinality(S) <= Cardinality(T)
    BY <1>3, <1>6, <1>9, <1>11, PairsInjected DEF T
  <1>14. Cardinality(T) \in Nat /\ 96 * Cardinality(T) <= 261 * x
    <2>1. E \in SUBSET (0 .. t - 1)
      BY DEF E
    <2>2. t \in Nat /\ Prime(t) /\ deg \in Nat /\ x \in Nat /\ x < Power(t)[deg + 1]
      BY <1>2, <1>3, <1>4
    <2>3. QED
      BY ONLY <1>10, <2>1, <2>2, CountGFP
  <1> HIDE DEF S
  <1>15. QED
    BY <1>3, <1>12, <1>13, <1>14 DEF x

\* A row of a GF(2^n) design weighs at most twice as much.
LEMMA WeightGF2X ==
  ASSUME InvX, type = "gf2x", NoZeroDivisors, pc = "done", NEW j \in 1 .. m
  PROVE  OverlapWeight(j) \in Nat /\ 96 * OverlapWeight(j) <= 522 * (j - 1)
  <1> DEFINE x == j - 1
             e == LogT
             E == Elements(e)
             X == E \ {0}
             R == Row(j)
             common == CommonsX(e, deg, x)
             col == [index \in R |-> index % t]
             T == Chosen(x, E, common)
             U == Chosen(x, X, common)
  <1>1. /\ m \in Nat /\ t \in Nat /\ tReq \in Nat /\ deg \in Nat /\ FieldOf(e) /\ t = Power(2)[e] /\ t >= 2
        /\ m <= Power(t)[deg + 1] /\ tReq \in TReqs /\ e = CeilLog2(tReq)
    BY DEF InvX, GF2X, FieldX, SizesOK
  <1>2. Integral(e)
    BY <1>1 DEF NoZeroDivisors, Integral, Elements
  <1>3. j \in Nat \ {0} /\ x \in Nat /\ x < m
    BY <1>1
  <1>4. x < Power(t)[deg + 1]
    <2>1. Power(t)[deg + 1] \in Nat
      BY <1>1, PowerSteps DEF PowersOf
    <2>2. QED
      BY <1>1, <1>3, <2>1
  <1>5. ASSUME NEW index \in R
        PROVE  index % t \in E /\ index = (index % t) + t * ValueX(e, deg, x, index % t)
    <2>1. /\ index % t \in 0 .. t - 1
          /\ index = (index % t) + t * ValueX(LogT, deg, j - 1, index % t)
      BY RowMembersX
    <2>2. QED
      BY <1>1, <2>1 DEF Elements
  <1>6. IsFiniteSet(E) /\ IsFiniteSet(X) /\ E = X \cup {0} /\ 0 \notin X
    <2>1. IsFiniteSet(E)
      <3> DEFINE b == Power(2)[e]
      <3>1. E = 0 .. b - 1
        BY DEF Elements
      <3>2. 0 \in Int /\ b - 1 \in Int
        BY <1>1
      <3> HIDE DEF E, b
      <3>3. IsFiniteSet(0 .. b - 1)
        BY ONLY <3>2, FS_Interval
      <3>4. QED
        BY <3>1, <3>3
    <2>2. 0 \in E
      BY <1>1, ZeroElement
    <2> HIDE DEF E
    <2>3. IsFiniteSet(X)
      BY <2>1, FS_Subset
    <2>4. QED
      BY <2>1, <2>2, <2>3
  <1>7. IsFiniteSet(Row(j))
    BY <1>1, RowFinite
  <1>8. \A l \in 1 .. x : \A p \in Row(j) \cap Row(l) : p % t \in CommonX(e, deg, x, l - 1)
    <2>1. SUFFICES ASSUME NEW l \in 1 .. j - 1, NEW p \in Row(j) \cap Row(l)
                   PROVE  p % t \in CommonX(LogT, deg, j - 1, l - 1)
      OBVIOUS
    <2>2. QED
      BY SharedGF2X
  <1>9. \A l \in 1 .. x : \A p \in Row(j) \cap Row(l) : col[p] \in common[l - 1]
    <2>1. \A l \in 1 .. x : l - 1 \in Nat
      BY <1>3
    <2> HIDE DEF x, e
    <2>2. QED
      BY <1>8, <2>1 DEF CommonsX
  <1>10. U = Chosen(x, X, common) /\ common = CommonsX(e, deg, x)
    OBVIOUS
  <1>11. col \in [Row(j) -> E] /\ \A p, q \in Row(j) : col[p] = col[q] => p = q
    <2> HIDE DEF x, E, e
    <2>1. \A p \in R : col[p] = p % t
      OBVIOUS
    <2> HIDE DEF R
    <2>2. col \in [R -> E]
      BY <1>5
    <2> HIDE DEF col
    <2>3. \A p, q \in R : col[p] = col[q] => p = q
      BY <1>5, <2>1
    <2>4. QED
      BY <2>2, <2>3 DEF R
  <1> DEFINE S == CommonBits(j, x)
  <1>12. IsFiniteSet(S) /\ Cardinality(S) \in Nat /\ OverlapWeight(j) = Cardinality(S)
    BY <1>3, <1>7, WeightCounts
  <1>13. X \in SUBSET (Elements(e) \ {0})
    OBVIOUS
  <1> HIDE DEF x, T, U, common, col, E, R, X, e
  <1>14. Cardinality(S) <= Cardinality(T) /\ Cardinality(T) \in Nat
    BY <1>3, <1>6, <1>9, <1>11, PairsInjected DEF T
  <1>15. IsFiniteSet(U) /\ Cardinality(U) \in Nat /\ 96 * Cardinality(U) <= 261 * x
    <2>1. /\ FieldOf(e) /\ Integral(e) /\ t = Power(2)[e] /\ deg \in Nat /\ x \in Nat
          /\ x < Power(t)[deg + 1]
      BY <1>1, <1>2, <1>3, <1>4
    <2>2. QED
      BY ONLY <1>10, <1>13, <2>1, CountGF2X
  <1>16. Cardinality(T) <= 2 * Cardinality(U)
    BY <1>3, <1>6, <1>15, OneMoreColumn DEF T, U
  <1> HIDE DEF S
  <1>17. QED
    BY <1>3, <1>12, <1>14, <1>15, <1>16 DEF x

-----------------------------------------------------------------------------
(* Both designs *)

\* Each class of weak design has its invariants.
LEMMA EitherDesign ==
  ASSUME Inv
  PROVE  type \in Types /\ (type = "gfp" \/ type = "gf2x")
  <1>1. QED
    BY ParamsAssumption DEF Inv

(***************************************************************************)
(* The unsigned arithmetic of compute_Si stays within the natural numbers  *)
(* and the coefficients within the field, over GF(p) and over GF(2^n).     *)
(***************************************************************************)
THEOREM TypeCorrect == Spec => []TypeOK
  <1>1. Inv /\ PolyInv /\ TypeInv /\ InvX => TypeOK
    BY EitherDesign, TypesGFP, TypesX
  <1>2. Spec => []TypeInv
    BY InitTypes, Invariance, NextTypes, PTL DEF Spec
  <1>3. QED
    BY <1>1, <1>2, Invariance, RowsArePolynomials, RowsArePolynomialsX, PTL

(***************************************************************************)
(* Every index names its position and stays below t * t, for every prime   *)
(* and every power of two: weakdes_gfp.cc 289-296 and weakdes_gf2x.cc      *)
(* 309-316 never have to reduce, and a row never names a bit twice.        *)
(***************************************************************************)
THEOREM ColumnsKept == Spec => []IndicesByColumn
  <1>1. Inv /\ InvX => IndicesByColumn
    BY EitherDesign, ColumnsGFP, ColumnsX
  <1>2. QED
    BY <1>1, Invariance, RowsArePolynomialsX, PTL

(***************************************************************************)
(* The seed of (a + 1) * t * t bits holds every bit that any block of any  *)
(* row reads, for every field and number of blocks.                        *)
(***************************************************************************)
THEOREM SeedLongEnough == Spec => []SeedSuffices
  <1>1. Inv /\ InvX => SeedSuffices
    BY EitherDesign, SeedGFP, SeedX
  <1>2. QED
    BY <1>1, Invariance, RowsArePolynomialsX, PTL

(***************************************************************************)
(* Two rows share at most deg seed bits: a shared bit is a common value of *)
(* two different polynomials of degree at most deg over a field, at the    *)
(* same element.  Over GF(p) the field is that of the prime; over GF(2^n)  *)
(* the table's polynomials have to be irreducible.                         *)
(***************************************************************************)
THEOREM OverlapBounded ==
  ASSUME "gf2x" \in Types => NoZeroDivisors
  PROVE  Spec => []SmallOverlap
  <1>1. Inv /\ PolyInv /\ InvX => SmallOverlap
    BY EitherDesign, OverlapGFP, OverlapX
  <1>2. QED
    BY <1>1, Invariance, RowsArePolynomials, RowsArePolynomialsX, PTL

(***************************************************************************)
(* Over GF(p) the design is a weak one with the r = e of get_r, over       *)
(* GF(2^n) with 2e, for every number of rows and field, e rounded up to    *)
(* thousandths: the subsets of the bits that a row shares with the earlier *)
(* ones are at most as many as the polynomials that vanish on subsets of   *)
(* the columns.  Over GF(2^n) the first column is the lowest coefficient,  *)
(* the digit that earlier rows need not differ in, and counts twice.       *)
(***************************************************************************)
THEOREM WeakDesignHolds ==
  ASSUME "gf2x" \in Types => NoZeroDivisors
  PROVE  Spec => []WeakDesign
  <1>1. ASSUME Inv, PolyInv, InvX, pc = "done", NEW j \in 1 .. m
        PROVE  1000 * OverlapWeight(j) <= (IF type = "gfp" THEN 2719 ELSE 5438) * m
    <2>1. m \in Nat
      <3>1. SizesOK
        BY <1>1, EitherDesign DEF Inv, GFP, InvX, GF2X, FieldX
      <3>2. QED
        BY <3>1 DEF SizesOK
    <2> DEFINE w == OverlapWeight(j)
    <2>2. CASE type = "gfp"
      <3>1. w \in Nat /\ 96 * w <= 261 * (j - 1)
        BY <1>1, <2>2, WeightGFP
      <3> HIDE DEF w
      <3>2. 1000 * w <= 2719 * m
        BY <2>1, <3>1
      <3>3. QED
        BY <2>2, <3>2 DEF w
    <2>3. CASE type = "gf2x"
      <3>1. NoZeroDivisors
        BY <1>1, <2>3, EitherDesign
      <3>2. w \in Nat /\ 96 * w <= 522 * (j - 1)
        BY <1>1, <2>3, <3>1, WeightGF2X
      <3> HIDE DEF w
      <3>3. 1000 * w <= 5438 * m
        BY <2>1, <3>2
      <3>4. QED
        BY <2>3, <3>3 DEF w
    <2>4. QED
      BY <1>1, <2>2, <2>3, EitherDesign
  <1>2. Inv /\ PolyInv /\ InvX => WeakDesign
    BY <1>1 DEF WeakDesign, WeakWithin
  <1>3. QED
    BY <1>2, Invariance, RowsArePolynomials, RowsArePolynomialsX, PTL
=============================================================================
