---------------------------- MODULE FieldDesigns ----------------------------
(***************************************************************************)
(* The weak designs over GF(p) and GF(2^n) of weakdes_gfp.cc and           *)
(* weakdes_gf2x.cc, driven row by row as Si_test of extractor.cc drives    *)
(* them.  set_params fixes the field size t and the degree; compute_Si     *)
(* writes row i in base t as the coefficients of a polynomial and          *)
(* evaluates it with Horner's rule at 0, 1, ..., giving seed indices that  *)
(* combine a and poly(a).                                                  *)
(***************************************************************************)
EXTENDS Integers, Sequences, FiniteSets

CONSTANTS
  Types,   \* the classes alloc_init_weakdes may create: "gfp", "gf2x"
  Ms,      \* values of m: rows of the design
  TReqs,   \* values of t_requested: indices per row
  LastBlk, \* params.pp.a: trevisan_extract uses a row once per block 0 .. LastBlk
  minweight_primpoly \* the table of gf2n.h: a polynomial over GF(2) for every degree

ASSUME ParamsAssumption ==
  /\ Types \subseteq {"gfp", "gf2x"} /\ Ms \subseteq Nat
  /\ TReqs \subseteq Nat \ {0, 1} /\ LastBlk \in Nat

VARIABLES
  type,     \* the class of *wd
  pc,       \* "params", "row", "digits", "horner", "done", "exit" or "undefined"
  m, tReq,  \* arguments of set_params
  t, deg,   \* the members compute_admissible_params sets
  i,        \* the row
  val, coeff, \* what is left of i, and the coefficients, the highest first
  a, k,     \* loop counters of compute_Si, and of its digit and Horner loops
  res,      \* of horner_poly
  indices,  \* the indices of row i so far
  design    \* history: the finished rows

vars == <<type, pc, m, tReq, t, deg, i, val, coeff, a, k, res, indices, design>>

Prime(x) == x > 1 /\ \A y \in 2 .. x - 1 : x % y # 0
\* t_requested if it is prime, else mpz_nextprime of it, as a set of one
NextPrime(x) == {p \in x .. 2 * x : Prime(p) /\ \A q \in x .. p - 1 : ~Prime(q)}
\* base to the power of n
Power(base) == LET power[n \in Nat] == IF n = 0 THEN 1 ELSE base * power[n - 1] IN power
\* 1 << ceil_log2(x), as a set of one; t_requested itself if it is a power of two
CeilLog2(x) == CHOOSE n \in 0 .. x : Power(2)[n] >= x /\ (n > 0 => Power(2)[n - 1] < x)
NumBits(x) == IF x = 0 THEN 1 ELSE CeilLog2(x + 1)
NextPower(x) == {Power(2)[CeilLog2(x)]}
FieldSize == [gfp |-> NextPrime(tReq), gf2x |-> NextPower(tReq)][type]

\* the entry for the field of each size is a polynomial of its degree
ASSUME TableAssumption ==
  \A x \in TReqs :
    LET n == CeilLog2(x) IN minweight_primpoly[n] \in Power(2)[n] .. Power(2)[n + 1] - 1

\* a slip: a constant polynomial for every number of rows
DegreesNone(rows, base) == {0}
\* ceil(log(rows) / log(base) - 1) for at least two rows.  Where the quotient
\* is an integer above 1, the floating-point result may lie just above it.
Degrees(rows, base) ==
  LET g == CHOOSE x \in 0 .. rows : Power(base)[x + 1] >= rows /\ (x > 0 => Power(base)[x] < rows)
  IN {g} \cup (IF g > 0 /\ Power(base)[g + 1] = rows THEN {g + 1} ELSE {})

Init ==
  /\ type \in Types /\ m \in Ms /\ tReq \in TReqs
  /\ pc = "params" /\ t \in FieldSize /\ deg = 0
  /\ i = 0 /\ val = 0 /\ coeff = [j \in 0 .. 0 |-> 0] /\ a = 0 /\ k = 0 /\ res = 0
  /\ indices = <<>> /\ design = <<>>

\* Below two rows the logarithm is -inf or 0 and the value converted to
\* unsigned is negative, which C++ leaves undefined.
TooFewRows ==
  /\ pc = "params" /\ m < 2
  /\ pc' = "undefined"
  /\ UNCHANGED <<type, m, tReq, t, deg, i, val, coeff, a, k, res, indices, design>>

\* GF(p) raises a degree 0 to 1; GF(2^n) ends the program, there and, in
\* compute_Si, where t^deg does not fit 64 bits.
SetParams ==
  /\ pc = "params" /\ m >= 2
  /\ \E g \in Degrees(m, tReq) :
       IF type = "gfp" THEN deg' = (IF g = 0 THEN 1 ELSE g) /\ pc' = "row"
       ELSE deg' = g /\ pc' = IF g = 0 \/ g * NumBits(t) > 64 THEN "exit" ELSE "row"
  /\ UNCHANGED <<type, m, tReq, t, i, val, coeff, a, k, res, indices, design>>

StartRow ==
  /\ pc = "row" /\ i < m
  /\ val' = i /\ coeff' = [j \in 0 .. deg |-> 0]
  /\ indices' = <<>> /\ a' = 0 /\ k' = 0 /\ res' = 0
  /\ pc' = "digits"
  /\ UNCHANGED <<type, m, tReq, t, deg, i, design>>

\* one turn of the loop that writes the row number in base t
NextDigit ==
  /\ pc = "digits"
  /\ IF k < deg THEN k' = k + 1 /\ UNCHANGED pc
                ELSE k' = 0 /\ pc' = "horner"
  /\ UNCHANGED <<type, m, tReq, t, deg, i, a, res, indices, design>>

\* GF(p) puts the least significant digit last
DigitGFP ==
  /\ type = "gfp" /\ NextDigit
  /\ coeff' = [coeff EXCEPT ![deg - k] = val % t]
  /\ val' = val \div t

\* GF(2^n) masks the j-th digit out of the row number and appends it to a
\* vector that has deg + 1 zeros already: the least significant one first
Masked(j) == (i \div Power(t)[j]) % t

DigitGF2X ==
  /\ type = "gf2x" /\ NextDigit
  /\ coeff' = [j \in 0 .. deg + 1 + k |-> IF j \in DOMAIN coeff THEN coeff[j] ELSE Masked(k)]
  /\ UNCHANGED val

\* slips: the product not reduced, and the subtraction not guarded
EvaluateUnreduced(x, c) == x * a + c
ReducedAlways(x) == x - t
\* one turn of Horner's rule, and the single subtraction that ends it
Evaluate(x, c) == ((x * a) % t) + c
Reduced(x) == IF x >= t THEN x - t ELSE x

Bit(x, j) == (x \div Power(2)[j]) % 2
\* the lowest bits of x ^ y, added up
XorBits(x, y) ==
  LET low[n \in Nat] ==
        IF n = 0 THEN 0 ELSE low[n - 1] + Power(2)[n - 1] * ((Bit(x, n - 1) + Bit(y, n - 1)) % 2)
  IN low
\* gf2n_add
Xor(x, y) == XorBits(x, y)[CeilLog2(x + y + 1)]
\* a slip: the product by x not reduced
TimesXUnreduced(n, x) == 2 * x
\* a <<= 1, with the bit h = 1 << (n - 1) shifted out of the field replaced by c
TimesX(n, x) == IF Bit(x, n - 1) = 1 THEN Xor(2 * x, minweight_primpoly[n]) ELSE 2 * x
\* gf2n_mult of field elements of n bits: a and t after some turns of its loop
Shifted(n, x) == LET shifted[j \in Nat] == IF j = 0 THEN x ELSE TimesX(n, shifted[j - 1]) IN shifted
Products(n, x, y) ==
  LET product[j \in Nat] ==
        IF j = 0 THEN 0
        ELSE IF Bit(y, j - 1) = 1 THEN Xor(product[j - 1], Shifted(n, x)[j - 1]) ELSE product[j - 1]
  IN product
Mult(n, x, y) == Products(n, x, y)[n]
\* the exponent of the field size
LogT == CeilLog2(t)

HornerStep ==
  /\ pc = "horner" /\ a < tReq /\ k \in DOMAIN coeff
  /\ res' = IF type = "gfp" THEN Evaluate(res, coeff[k]) ELSE Xor(Mult(LogT, res, a), coeff[k])
  /\ k' = k + 1
  /\ UNCHANGED <<type, pc, m, tReq, t, deg, i, val, coeff, a, indices, design>>

PushIndex(index) ==
  /\ pc = "horner" /\ a < tReq /\ k \notin DOMAIN coeff
  /\ indices' = Append(indices, index)
  /\ a' = a + 1 /\ k' = 0 /\ res' = 0
  /\ UNCHANGED <<type, pc, m, tReq, t, deg, i, val, coeff, design>>

\* the pair in the order of the line commented out at weakdes_gfp.cc 286
SeedIndexTransposed(x, y) == t * y + x
\* <a, poly(a)> as one seed index below d = t * t
SeedIndex(x, y) == LET r == t * x + y IN IF r >= t * t THEN r % (t * t) ELSE r
PushGFP == type = "gfp" /\ PushIndex(SeedIndex(a, Reduced(res)))

\* a slip: the bits of the pair concatenated without the shift
ConcatenateUnshifted(x, y) == Xor(x, y)
\* res | poly << log_t; no common bits, so | is +
Concatenate(x, y) == LET r == x + y * t IN IF r > t * t THEN r % (t * t) ELSE r
PushGF2X == type = "gf2x" /\ PushIndex(Concatenate(a, res))

EndRow ==
  /\ pc = "horner" /\ a = tReq
  /\ design' = Append(design, indices)
  /\ i' = i + 1
  /\ pc' = IF i' < m THEN "row" ELSE "done"
  /\ UNCHANGED <<type, m, tReq, t, deg, val, coeff, a, k, res, indices>>

Stopped == pc \in {"done", "exit", "undefined"} /\ UNCHANGED vars

Next ==
  \/ TooFewRows \/ SetParams \/ StartRow \/ DigitGFP \/ DigitGF2X \/ HornerStep
  \/ PushGFP \/ PushGF2X \/ EndRow \/ Stopped

Spec == Init /\ [][Next]_vars

-----------------------------------------------------------------------------
(***************************************************************************)
(* Field elements, digits and indices are natural numbers: the unsigned    *)
(* arithmetic of compute_Si never wraps below 0.                           *)
(***************************************************************************)
TypeOK ==
  /\ pc \in {"params", "row", "digits", "horner", "done", "exit", "undefined"}
  /\ type \in Types
  /\ m \in Nat /\ tReq \in Nat /\ t \in Nat \ {0} /\ deg \in Nat
  /\ i \in Nat /\ val \in Nat /\ a \in Nat /\ k \in Nat /\ res \in Nat
  /\ pc \in {"digits", "horner"} => coeff \in [DOMAIN coeff -> 0 .. t - 1]
  /\ indices \in Seq(Nat) /\ design \in Seq(Seq(Nat))

(***************************************************************************)
(* The comment of weakdes_gfp.cc 73-78: the sum the Horner loop leaves is  *)
(* too large by at most t - 2, so one subtraction yields a field element.  *)
(***************************************************************************)
OneSubtractionSuffices ==
  pc = "horner" /\ type = "gfp" => res <= 2 * t - 2 /\ Reduced(res) < t

(***************************************************************************)
(* The a-th index of a row is t*a plus a field element, over GF(2^n) a     *)
(* plus t times a field element: the indices are all different, stay below *)
(* d = t*t, and the reductions modulo d (weakdes_gfp.cc 295, weakdes_gf2x  *)
(* .cc 315) are never needed.                                              *)
(***************************************************************************)
IndicesByColumn ==
  pc = "horner" =>
    /\ Len(indices) = a
    /\ \A x \in 1 .. a :
         /\ indices[x] < t * t
         /\ x - 1 = IF type = "gfp" THEN indices[x] \div t ELSE indices[x] % t

(***************************************************************************)
(* Two different rows share at most deg indices: they are different        *)
(* polynomials of degree at most deg.  This is what a truncation to        *)
(* t_requested columns and rows beyond t^deg might have broken             *)
(* (weakdes_gfp.cc 251-253, 132; weakdes_gf2x.cc 233-234).                 *)
(***************************************************************************)
Row(j) == {design[j][x] : x \in 1 .. tReq}
SmallOverlap ==
  pc = "done" =>
    \A j \in 1 .. m : \A l \in 1 .. j - 1 : Cardinality(Row(j) \cap Row(l)) <= deg

(***************************************************************************)
(* The weak-design condition: for every row, the earlier rows weighted by  *)
(* two to the power of the overlap sum to at most r * m.  Over GF(p) with  *)
(* the r = e that get_r reports, over GF(2^n) with the r = 2e of           *)
(* weakdes_gf2x.cc 131-133, both rounded up to thousandths.                *)
(***************************************************************************)
OverlapWeight(j) ==
  LET weight[l \in 0 .. j - 1] ==
        IF l = 0 THEN 0 ELSE weight[l - 1] + 2 ^ Cardinality(Row(j) \cap Row(l))
  IN weight[j - 1]
WeakWithin(r1000) == pc = "done" => \A j \in 1 .. m : 1000 * OverlapWeight(j) <= r1000 * m
WeakDesign == WeakWithin(IF type = "gfp" THEN 2719 ELSE 5438)

(***************************************************************************)
(* weakdes.h 90 calls the result of get_r, e for both designs, the overlap *)
(* factor; compute_k and the entropy check rely on it.                     *)
(***************************************************************************)
OverlapAsReported == WeakWithin(2719)

(***************************************************************************)
(* Si_test's text, extractor.cc 120: over all rows every index of the used *)
(* columns is drawn n or n + 1 times.  Over GF(p) only: with the digits of *)
(* the row in reverse the last coefficient is the highest digit.           *)
(***************************************************************************)
Uses(x) == Cardinality({j \in 1 .. m : x \in Row(j)})
UniformUse ==
  pc = "done" /\ type = "gfp" =>
    \A x \in 0 .. t * tReq - 1 : Uses(x) \in {m \div t, (m + t - 1) \div t}

(***************************************************************************)
(* The seed of (a + 1) * t * t bits that trevisan_dispatcher draws holds   *)
(* every bit trevisan_extract reads, block b reading at indices[] plus     *)
(* b * t_req (extractor.cc 274, 282, 298, 365).                            *)
(***************************************************************************)
\* a slip: the base advanced before the block instead of after it, by t * t
BlockOffsetPast(b) == (b + 1) * t * t
\* cur_seed_base of block b
BlockOffset(b) == b * tReq
SeedSuffices ==
  pc = "done" =>
    \A b \in 0 .. LastBlk : \A j \in 1 .. m : \A x \in Row(j) :
      x + BlockOffset(b) < (LastBlk + 1) * t * t

(***************************************************************************)
(* The comment of extractor.cc 253, "use same seed loc but on a diff set   *)
(* of seed": two blocks read no common seed bit.                           *)
(***************************************************************************)
BlocksUseOwnSeed ==
  pc = "done" =>
    \A b, c \in 0 .. LastBlk : b < c =>
      {x + BlockOffset(b) : x \in UNION {Row(j) : j \in 1 .. m}}
        \cap {x + BlockOffset(c) : x \in UNION {Row(j) : j \in 1 .. m}} = {}

-----------------------------------------------------------------------------
(* What the theorem on overlaps assumes of the table *)

\* Its polynomials are irreducible: no two field elements but 0 have product 0.
NoZeroDivisors ==
  \A x \in TReqs :
    LET n == CeilLog2(x)
    IN \A u, v \in 0 .. Power(2)[n] - 1 : Mult(n, u, v) = 0 => u = 0 \/ v = 0
=============================================================================
