--------------------------- MODULE RSHExtractProofs ---------------------------
(* That every bit of the input is in one coefficient at its place, that no  *)
(* array is left, that Horner's rule gives the value of the polynomial, and *)
(* that the bit is the inner product when the first segment fills its words: *)
(* for every input length, coefficient length, word and character width and *)
(* every polynomial of degree l.                                            *)
EXTENDS RSHExtract, TLAPS, FiniteSetTheorems

-----------------------------------------------------------------------------
(* Numbers *)

\* Quotient and remainder.
LEMMA Divides ==
  ASSUME NEW k \in Nat, NEW v \in Nat \ {0}
  PROVE  k \div v \in Nat /\ k % v \in 0 .. v - 1 /\ k = v * (k \div v) + (k % v)
  OBVIOUS

\* A number has one quotient and one rest.
LEMMA QuotientUnique ==
  ASSUME NEW v \in Nat \ {0}, NEW q \in Nat, NEW e \in 0 .. v - 1
  PROVE  v * q + e \in Nat /\ (v * q + e) \div v = q /\ (v * q + e) % v = e
  <1> DEFINE k == v * q + e
             x == k \div v
             y == k % v
  <1>1. v * q \in Nat /\ k \in Nat
    OBVIOUS
  <1>2. x \in Nat /\ y \in 0 .. v - 1 /\ k = v * x + y
    BY <1>1, Divides
  <1>3. k = v * q + e
    OBVIOUS
  <1> HIDE DEF k, x, y
  <1>4. ~(x > q)
    <2>1. SUFFICES ASSUME x > q PROVE FALSE
      OBVIOUS
    <2>2. v * x >= v * (q + 1) /\ v * (q + 1) = v * q + v /\ v * x \in Nat
      BY <1>2, <2>1
    <2>3. QED
      BY <1>1, <1>2, <1>3, <2>2
  <1>5. ~(x < q)
    <2>1. SUFFICES ASSUME x < q PROVE FALSE
      OBVIOUS
    <2>2. v * q >= v * (x + 1) /\ v * (x + 1) = v * x + v /\ v * x \in Nat
      BY <1>2, <2>1
    <2>3. QED
      BY <1>1, <1>2, <1>3, <2>2
  <1>6. x = q
    <2>1. x \in Nat
      BY <1>2
    <2>2. QED
      BY <1>4, <1>5, <2>1
  <1>7. y = e
    <2>1. v * x = v * q /\ v * q \in Nat
      BY <1>1, <1>6
    <2>2. y \in Nat /\ k = v * q + y
      BY <1>2, <2>1
    <2>3. QED
      BY <1>3, <2>1, <2>2
  <1>8. QED
    BY <1>1, <1>3, <1>6, <1>7 DEF x, y, k

\* A smaller number has no larger quotient.
LEMMA QuotientMonotone ==
  ASSUME NEW v \in Nat \ {0}, NEW j \in Nat, NEW k \in Nat, j <= k
  PROVE  j \div v <= k \div v
  <1> DEFINE x == j \div v
             y == k \div v
  <1>1. /\ x \in Nat /\ y \in Nat /\ j = v * x + (j % v) /\ k = v * y + (k % v)
        /\ j % v \in 0 .. v - 1 /\ k % v \in 0 .. v - 1
    BY Divides
  <1> HIDE DEF x, y
  <1>2. ASSUME x > y PROVE FALSE
    <2>1. v * x >= v * (y + 1) /\ v * (y + 1) = v * y + v /\ v * x \in Nat /\ v * y \in Nat
      BY <1>1, <1>2
    <2>2. QED
      BY <1>1, <2>1
  <1>3. QED
    BY <1>1, <1>2 DEF x, y

\* Every set of natural numbers has a least element: of the intervals 1 .. k
\* for its elements one includes no other.
LEMMA LeastElement ==
  ASSUME NEW T \in SUBSET Nat, T # {}
  PROVE  \E x \in T : \A y \in T : x <= y
  <1> DEFINE F == {1 .. k : k \in T}
  <1>1. F \subseteq FiniteSubsetsOf(Nat) /\ F # {}
    <2>1. \A k \in T : 1 .. k \in SUBSET Nat /\ IsFiniteSet(1 .. k)
      BY FS_Interval
    <2>2. QED
      BY <2>1 DEF FiniteSubsetsOf
  <1>2. IsWellFoundedOn(StrictSubsetOrdering(Nat), FiniteSubsetsOf(Nat))
    BY FS_StrictSubsetOrderingWellFounded
  <1>3. PICK X \in F : \A Y \in F : ~(<<Y, X>> \in StrictSubsetOrdering(Nat))
    <2> HIDE DEF F
    <2>1. QED
      BY <1>1, <1>2, WFMin
  <1>4. PICK x \in T : X = 1 .. x
    BY <1>3
  <1>5. ASSUME NEW y \in T, ~(x <= y) PROVE FALSE
    <2>1. 1 .. y \subseteq 1 .. x /\ 1 .. y # 1 .. x
      <3>1. x \in 1 .. x /\ x \notin 1 .. y
        BY <1>5
      <3>2. 1 .. y \subseteq 1 .. x
        BY <1>5
      <3>3. QED
        BY <3>1, <3>2
    <2>2. 1 .. y \in SUBSET Nat /\ 1 .. x \in SUBSET Nat
      OBVIOUS
    <2>3. <<1 .. y, X>> \in StrictSubsetOrdering(Nat)
      BY <1>4, <2>1, <2>2 DEF StrictSubsetOrdering
    <2>4. QED
      BY <1>3, <2>3
  <1>6. QED
    BY <1>5

\* Induction up to a bound, for a set instead of an operator.
LEMMA Induct ==
  ASSUME NEW Q, 0 \in Q, NEW m \in Nat, \A k \in 0 .. m - 1 : k \in Q => k + 1 \in Q
  PROVE  0 .. m \subseteq Q
  <1> DEFINE T == {k \in 0 .. m : k \notin Q}
  <1>1. SUFFICES ASSUME T # {} PROVE FALSE
    OBVIOUS
  <1>2. T \in SUBSET Nat
    OBVIOUS
  <1>3. PICK x \in T : \A y \in T : x <= y
    <2> HIDE DEF T
    <2> QED BY <1>1, <1>2, LeastElement
  <1>4. x # 0 /\ x \in 0 .. m /\ x \notin Q
    OBVIOUS
  <1>5. x - 1 \in 0 .. m - 1 /\ x - 1 \notin T
    BY <1>3, <1>4
  <1>6. x - 1 \in Q /\ (x - 1) + 1 = x
    BY <1>4, <1>5
  <1>7. QED
    BY <1>4, <1>5, <1>6

\* A finite set of natural numbers has a largest element: a smallest subset
\* without one would have it when one of its elements is left out.
LEMMA Largest ==
  ASSUME NEW x \in SUBSET Nat, IsFiniteSet(x), x # {}
  PROVE  Max(x) \in x /\ \A e \in x : e <= Max(x)
  <1> DEFINE Has(y) == \E high \in y : \A e \in y : e <= high
             F == {y \in SUBSET x : y # {} /\ ~Has(y)}
  <1>1. F = {}
    <2>1. SUFFICES ASSUME F # {} PROVE FALSE
      OBVIOUS
    <2>2. F \subseteq FiniteSubsetsOf(x)
      <3>1. \A y \in SUBSET x : IsFiniteSet(y)
        BY FS_Subset
      <3>2. QED
        BY <3>1 DEF FiniteSubsetsOf
    <2>3. PICK y \in F : \A z \in F : ~(<<z, y>> \in StrictSubsetOrdering(x))
      <3> HIDE DEF F
      <3>1. QED
        BY <2>1, <2>2, FS_StrictSubsetOrderingWellFounded, WFMin
    <2>4. PICK e \in y : TRUE
      OBVIOUS
    <2> DEFINE z == y \ {e}
    <2>5. z \in SUBSET x /\ z \subseteq y /\ z # y /\ y \in SUBSET x
      BY <2>4
    <2>6. <<z, y>> \in StrictSubsetOrdering(x)
      BY <2>5 DEF StrictSubsetOrdering
    <2>7. z \notin F
      BY <2>3, <2>6
    <2>8. y \subseteq Nat /\ e \in Nat
      BY <2>4, <2>5
    <2>9. CASE z = {}
      <3>1. \A f \in y : f = e
        BY <2>9
      <3>2. Has(y)
        BY <2>4, <2>8, <3>1
      <3>3. QED
        BY <3>2
    <2>10. CASE z # {}
      <3>1. PICK high \in z : \A f \in z : f <= high
        BY <2>5, <2>7, <2>10
      <3>2. CASE e <= high
        <4>1. \A f \in y : f <= high
          BY <2>8, <3>1, <3>2
        <4>2. QED
          BY <3>1, <4>1
      <3>3. CASE ~(e <= high)
        <4>1. \A f \in y : f <= e
          BY <2>8, <3>1, <3>3
        <4>2. QED
          BY <2>4, <4>1
      <3>4. QED
        BY <3>2, <3>3
    <2>11. QED
      BY <2>9, <2>10
  <1>2. PICK high \in x : \A e \in x : e <= high
    BY <1>1
  <1>3. high \in Nat /\ \A e \in x : e \in Nat /\ high >= e
    BY <1>2
  <1>4. Max(x) \in x /\ \A e \in x : Max(x) >= e
    BY <1>3 DEF Max
  <1>5. QED
    BY <1>4

-----------------------------------------------------------------------------
(* Numbers as the sets of their bits *)

\* A number has finitely many bits.
IsNumber(x) == x \in SUBSET Nat /\ IsFiniteSet(x)

\* All bits of a number are in its words, and it has no more words than needed.
LEMMA BitsInWords ==
  ASSUME NEW x, IsNumber(x)
  PROVE  /\ Words(x) \in Nat
         /\ \A e \in x : e < Words(x) * WordBits
         /\ \A c \in Nat : (\A e \in x : e < c * WordBits) => Words(x) <= c
  <1>1. WordBits \in Nat \ {0}
    BY ParamsAssumption
  <1>2. CASE x = {}
    BY <1>2 DEF Words
  <1>3. CASE x # {}
    <2> DEFINE high == Max(x)
               q == high \div WordBits
    <2>1. high \in x /\ high \in Nat /\ \A e \in x : e \in Nat /\ e <= high
      BY <1>3, Largest DEF IsNumber
    <2>2. q \in Nat /\ high % WordBits \in 0 .. WordBits - 1 /\ high = WordBits * q + (high % WordBits)
      BY <1>1, <2>1, Divides
    <2>3. Words(x) = q + 1
      BY <1>3 DEF Words
    <2> HIDE DEF high, q
    <2>4. (q + 1) * WordBits = WordBits * q + WordBits /\ WordBits * q \in Nat
      BY <1>1, <2>2
    <2>5. high < (q + 1) * WordBits
      BY <1>1, <2>1, <2>2, <2>4
    <2>6. \A e \in x : e < Words(x) * WordBits
      BY <1>1, <2>1, <2>3, <2>4, <2>5
    <2>7. ASSUME NEW c \in Nat, high < c * WordBits PROVE q + 1 <= c
      <3>1. ASSUME ~(q + 1 <= c) PROVE FALSE
        <4>1. c <= q /\ c * WordBits <= q * WordBits /\ q * WordBits = WordBits * q /\ c * WordBits \in Nat
          BY <1>1, <2>2, <3>1
        <4>2. WordBits * q <= high
          BY <1>1, <2>1, <2>2, <2>4
        <4>3. QED
          BY <2>1, <2>4, <2>7, <4>1, <4>2
      <3>2. QED
        BY <3>1
    <2>8. QED
      BY <2>1, <2>2, <2>3, <2>6, <2>7
  <1>4. QED
    BY <1>2, <1>3

\* A sum over GF(2) is a number again, with no new exponents.
LEMMA PlusNumber ==
  ASSUME NEW x, NEW y, IsNumber(x), IsNumber(y)
  PROVE  IsNumber(Plus(x, y)) /\ Plus(x, y) \subseteq x \cup y
  <1>1. Plus(x, y) \subseteq x \cup y
    BY DEF Plus
  <1>2. IsFiniteSet(x \cup y)
    BY FS_Union DEF IsNumber
  <1>3. QED
    BY <1>1, <1>2, FS_Subset DEF IsNumber

\* A bounded set of exponents is a number.
LEMMA BoundedNumber ==
  ASSUME NEW c \in Nat, NEW x \in SUBSET (0 .. c - 1)
  PROVE  IsNumber(x)
  <1>1. IsFiniteSet(0 .. c - 1)
    BY FS_Interval
  <1>2. IsFiniteSet(x)
    BY <1>1, FS_Subset
  <1>3. QED
    BY <1>2 DEF IsNumber

\* The division steps of Mod, from the exponent N down to l.
Steps(x, N, g) ==
  g = [e \in l .. N |-> IF e = N THEN x
                        ELSE IF e \in g[e + 1] THEN Plus(g[e + 1], Shift(Irrep[l], e - l))
                        ELSE g[e + 1]]
IsModOf(x, N, g) ==
  /\ N \in Nat /\ l <= N /\ x \in SUBSET (0 .. N - 1)
  /\ Steps(x, N, g) /\ Mod(x) = g[l]

\* They exist, from above the highest exponent.
LEMMA ModSteps ==
  ASSUME l \in Ls, NEW x, IsNumber(x)
  PROVE  \E N, g : IsModOf(x, N, g)
  <1> DEFINE high == Max(x \cup {l})
             N == high + 1
             Body(g, e) == IF e = N THEN x
                           ELSE IF e \in g[e + 1] THEN Plus(g[e + 1], Shift(Irrep[l], e - l))
                           ELSE g[e + 1]
  <1>1. l \in Nat /\ l \in Irrep[l] /\ Irrep[l] \subseteq 0 .. l
    BY ParamsAssumption
  <1>2. high \in Nat /\ l <= high /\ \A e \in x : e \in Nat /\ e <= high
    <2>1. IsFiniteSet(x \cup {l})
      BY FS_AddElement DEF IsNumber
    <2>2. x \cup {l} \in SUBSET Nat /\ x \cup {l} # {}
      BY <1>1 DEF IsNumber
    <2>3. QED
      BY <1>1, <2>1, <2>2, Largest
  <1>3. x \in SUBSET (0 .. N - 1) /\ N \in Nat /\ l <= N
    <2> HIDE DEF high
    <2>1. N \in Nat /\ l <= N /\ N - 1 = high
      BY <1>1, <1>2
    <2>2. \A e \in x : e \in 0 .. high
      BY <1>2
    <2>3. QED
      BY <2>1, <2>2
  <1> HIDE DEF high
  \* the recursive function exists, down to every exponent
  <1>4. \A k \in 0 .. N - l : \E g : g = [e \in N - k .. N |-> Body(g, e)]
    <2> DEFINE Q == {k \in 0 .. N - l : \E g : g = [e \in N - k .. N |-> Body(g, e)]}
    <2>1. 0 \in Q
      <3> DEFINE g == [e \in N - 0 .. N |-> x]
      <3>1. g = [e \in N - 0 .. N |-> Body(g, e)]
        BY <1>3
      <3>2. 0 \in 0 .. N - l
        BY <1>1, <1>3
      <3>3. QED
        BY <3>1, <3>2
    <2>2. ASSUME NEW k \in 0 .. (N - l) - 1, k \in Q PROVE k + 1 \in Q
      <3>1. PICK g : g = [e \in N - k .. N |-> Body(g, e)]
        BY <2>2
      <3> DEFINE c == N - (k + 1)
                 h == [e \in c .. N |-> IF e = c THEN Body(g, e) ELSE g[e]]
      <3>2. c \in Nat /\ c # N /\ c + 1 = N - k /\ c + 1 \in N - k .. N
        BY <1>1, <1>3, <2>2
      <3>3. \A e \in N - k .. N : e # c /\ e \in c .. N /\ (e # N => e + 1 \in N - k .. N)
        BY <1>3, <2>2
      <3>4. \A e \in N - k .. N : h[e] = g[e]
        BY <3>3
      <3>5. ASSUME NEW e \in c .. N PROVE h[e] = Body(h, e)
        <4>1. CASE e = c
          <5>1. h[e] = Body(g, e)
            BY <4>1
          <5>2. h[e + 1] = g[e + 1]
            BY <3>2, <3>4, <4>1
          <5> HIDE DEF h
          <5>3. QED
            BY <3>2, <4>1, <5>1, <5>2
        <4>2. CASE e # c
          <5>1. e \in N - k .. N
            BY <3>2, <3>5, <4>2
          <5>2. h[e] = g[e]
            BY <3>4, <5>1
          <5>3. e # N => h[e + 1] = g[e + 1]
            BY <3>3, <3>4, <5>1
          <5>4. g[e] = Body(g, e)
            BY <3>1, <5>1
          <5> HIDE DEF h
          <5>5. QED
            BY <5>2, <5>3, <5>4
        <4>3. QED
          BY <4>1, <4>2
      <3>6. h = [e \in c .. N |-> Body(h, e)]
        <4>1. h = [e \in c .. N |-> h[e]]
          OBVIOUS
        <4> HIDE DEF h, Body
        <4>2. QED
          BY <3>5, <4>1
      <3>7. k + 1 \in 0 .. N - l
        BY <1>1, <1>3, <2>2
      <3> HIDE DEF h
      <3>8. QED
        BY <3>6, <3>7
    <2>3. N - l \in Nat
      BY <1>1, <1>3
    <2> HIDE DEF Q
    <2>4. 0 .. N - l \subseteq Q
      BY <2>1, <2>2, <2>3, Induct
    <2>5. QED
      BY <2>4 DEF Q
  <1>5. PICK f : f = [e \in l .. N |-> Body(f, e)]
    <2>1. N - l \in 0 .. N - l /\ N - (N - l) = l
      BY <1>1, <1>3
    <2> HIDE DEF Body
    <2>2. QED
      BY <1>4, <2>1
  <1>6. Mod(x) = (CHOOSE g : g = [e \in l .. N |-> Body(g, e)])[l]
    BY DEF Mod, high
  <1>7. PICK g : g = [e \in l .. N |-> Body(g, e)] /\ Mod(x) = g[l]
    <2> DEFINE F(g) == g = [e \in l .. N |-> Body(g, e)]
    <2>1. F(CHOOSE g : F(g))
      <3>1. \E g : F(g)
        BY <1>5
      <3> HIDE DEF F
      <3>2. QED
        BY <3>1
    <2>2. QED
      BY <1>6, <2>1
  <1>8. Steps(x, N, g)
    BY <1>7 DEF Steps
  <1>9. QED
    BY <1>3, <1>7, <1>8 DEF IsModOf

\* One division step clears the highest bit there may still be.
LEMMA ModStepBelow ==
  ASSUME l \in Ls, NEW e \in Nat, l <= e, NEW y \in SUBSET (0 .. e)
  PROVE  (IF e \in y THEN Plus(y, Shift(Irrep[l], e - l)) ELSE y) \in SUBSET (0 .. e - 1)
  <1>1. l \in Nat /\ l \in Irrep[l] /\ Irrep[l] \subseteq 0 .. l
    BY ParamsAssumption
  <1>2. Shift(Irrep[l], e - l) \subseteq 0 .. e /\ e \in Shift(Irrep[l], e - l)
    <2>1. \A c \in 0 .. l : c + (e - l) \in 0 .. e
      BY <1>1
    <2>2. l + (e - l) = e
      BY <1>1
    <2>3. Shift(Irrep[l], e - l) \subseteq 0 .. e
      BY <1>1, <2>1 DEF Shift
    <2>4. QED
      BY <1>1, <2>2, <2>3 DEF Shift
  <1>3. CASE e \in y
    <2>1. e \notin Plus(y, Shift(Irrep[l], e - l))
      BY <1>2, <1>3 DEF Plus
    <2>2. Plus(y, Shift(Irrep[l], e - l)) \subseteq 0 .. e
      BY <1>2 DEF Plus
    <2>3. Plus(y, Shift(Irrep[l], e - l)) \subseteq 0 .. e - 1
      BY <2>1, <2>2
    <2>4. QED
      BY <1>3, <2>3
  <1>4. CASE e \notin y
    BY <1>4
  <1>5. QED
    BY <1>3, <1>4

\* What is left after the steps down to N - k has no bit that was to be cleared.
LEMMA StepsBelow ==
  ASSUME l \in Ls, NEW x, NEW N, NEW g, IsModOf(x, N, g)
  PROVE  /\ N - l \in Nat /\ g[N] = x
         /\ \A k \in 0 .. N - l : g[N - k] \in SUBSET (0 .. (N - k) - 1)
         /\ \A e \in l .. N - 1 :
              g[e] = IF e \in g[e + 1] THEN Plus(g[e + 1], Shift(Irrep[l], e - l)) ELSE g[e + 1]
  <1>1. l \in Nat /\ N \in Nat /\ l <= N /\ x \in SUBSET (0 .. N - 1) /\ N - l \in Nat
    BY ParamsAssumption DEF IsModOf
  <1>2. Steps(x, N, g)
    BY DEF IsModOf
  <1>3. g[N] = x
    <2>1. N \in l .. N
      BY <1>1
    <2>2. QED
      BY <1>2, <2>1 DEF Steps
  <1>4. ASSUME NEW e \in l .. N - 1
        PROVE  g[e] = IF e \in g[e + 1] THEN Plus(g[e + 1], Shift(Irrep[l], e - l)) ELSE g[e + 1]
    <2>1. e \in l .. N /\ e # N
      BY <1>1
    <2>2. QED
      BY <1>2, <2>1 DEF Steps
  <1> DEFINE Q == {k \in 0 .. N - l : g[N - k] \in SUBSET (0 .. (N - k) - 1)}
  <1>5. 0 \in Q
    <2>1. N - 0 = N /\ 0 \in 0 .. N - l
      BY <1>1
    <2>2. QED
      BY <1>1, <1>3, <2>1
  <1>6. ASSUME NEW k \in 0 .. (N - l) - 1, k \in Q PROVE k + 1 \in Q
    <2> DEFINE c == N - (k + 1)
    <2>1. /\ c \in l .. N - 1 /\ c \in Nat /\ l <= c /\ c + 1 = N - k /\ (N - k) - 1 = c
          /\ k + 1 \in 0 .. N - l
      BY <1>1, <1>6
    <2>2. g[c + 1] \in SUBSET (0 .. c)
      BY <1>6, <2>1
    <2>3. g[c] = IF c \in g[c + 1] THEN Plus(g[c + 1], Shift(Irrep[l], c - l)) ELSE g[c + 1]
      <3> HIDE DEF c
      <3>1. QED
        BY <1>4, <2>1
    <2>4. g[c] \in SUBSET (0 .. c - 1)
      <3> HIDE DEF c
      <3>1. QED
        BY <2>1, <2>2, <2>3, ModStepBelow
    <2>5. QED
      BY <2>1, <2>4
  <1>7. 0 .. N - l \subseteq Q
    <2> HIDE DEF Q
    <2>1. QED
      BY <1>1, <1>5, <1>6, Induct
  <1>8. \A k \in 0 .. N - l : g[N - k] \in SUBSET (0 .. (N - k) - 1)
    BY <1>7
  <1>9. QED
    BY <1>1, <1>3, <1>4, <1>8

\* The remainder has at most l bits.
LEMMA ModBelow ==
  ASSUME l \in Ls, NEW x, IsNumber(x)
  PROVE  Mod(x) \in SUBSET (0 .. l - 1)
  <1>1. PICK N, g : IsModOf(x, N, g)
    BY ModSteps
  <1>2. N - l \in Nat /\ \A k \in 0 .. N - l : g[N - k] \in SUBSET (0 .. (N - k) - 1)
    BY <1>1, StepsBelow
  <1>3. l \in Nat /\ N \in Nat
    BY <1>1, ParamsAssumption DEF IsModOf
  <1>4. N - l \in 0 .. N - l /\ N - (N - l) = l
    BY <1>2, <1>3
  <1>5. g[l] \in SUBSET (0 .. l - 1)
    BY <1>2, <1>4
  <1>6. QED
    BY <1>1, <1>5 DEF IsModOf

-----------------------------------------------------------------------------
(* The place of a bit *)

\* The quotient of a sum is the sum of the quotients, or one more.
LEMMA SumQuotient ==
  ASSUME NEW v \in Nat \ {0}, NEW j \in Nat, NEW k \in Nat
  PROVE  (j + k) \div v \in {(j \div v) + (k \div v), (j \div v) + (k \div v) + 1}
  <1> DEFINE x == j \div v
             y == k \div v
             e == j % v
             f == k % v
  <1>1. x \in Nat /\ y \in Nat /\ e \in 0 .. v - 1 /\ f \in 0 .. v - 1 /\ j = v * x + e /\ k = v * y + f
    BY Divides
  <1> HIDE DEF x, y, e, f
  <1>2. v * (x + y) = v * x + v * y /\ v * (x + y + 1) = v * x + v * y + v /\ v * x \in Nat /\ v * y \in Nat
    BY <1>1
  <1>3. CASE e + f < v
    <2>1. j + k = v * (x + y) + (e + f) /\ e + f \in 0 .. v - 1 /\ x + y \in Nat
      BY <1>1, <1>2, <1>3
    <2>2. (v * (x + y) + (e + f)) \div v = x + y
      BY <2>1, QuotientUnique
    <2>3. QED
      BY <2>1, <2>2 DEF x, y
  <1>4. CASE ~(e + f < v)
    <2>1. j + k = v * (x + y + 1) + (e + f - v) /\ e + f - v \in 0 .. v - 1 /\ x + y + 1 \in Nat
      BY <1>1, <1>2, <1>4
    <2>2. (v * (x + y + 1) + (e + f - v)) \div v = x + y + 1
      BY <2>1, QuotientUnique
    <2>3. QED
      BY <2>1, <2>2 DEF x, y
  <1>5. QED
    BY <1>3, <1>4

\* Rounding up adds one to the quotient of what is one less.
LEMMA CeilDivIs ==
  ASSUME NEW v \in Nat \ {0}, NEW x \in Nat \ {0}
  PROVE  /\ CeilDiv(x, v) = ((x - 1) \div v) + 1
         /\ CeilDiv(x, v) \in Nat \ {0}
         /\ x <= v * CeilDiv(x, v) /\ v * CeilDiv(x, v) <= x - 1 + v
         /\ v * CeilDiv(x, v) \in Nat
  <1> DEFINE q == (x - 1) \div v
             e == (x - 1) % v
  <1>1. x - 1 \in Nat
    OBVIOUS
  <1>2. q \in Nat /\ e \in 0 .. v - 1 /\ x - 1 = v * q + e
    BY <1>1, Divides
  <1> HIDE DEF q, e
  <1>3. v * (q + 1) = v * q + v /\ v * q \in Nat
    BY <1>2
  <1>4. x + v - 1 = v * (q + 1) + e /\ q + 1 \in Nat
    BY <1>2, <1>3
  <1>5. (x + v - 1) \div v = q + 1
    BY <1>2, <1>4, QuotientUnique
  <1>6. CeilDiv(x, v) = q + 1
    BY <1>5 DEF CeilDiv
  <1>7. QED
    BY <1>2, <1>3, <1>6 DEF q

\* The word and the place in it of the position after k.
LEMMA NextPlace ==
  ASSUME NEW v \in Nat \ {0}, NEW k \in Nat
  PROVE  /\ k % v = v - 1 => (k + 1) \div v = (k \div v) + 1 /\ (k + 1) % v = 0
         /\ k % v # v - 1 => (k + 1) \div v = k \div v /\ (k + 1) % v = (k % v) + 1
  <1> DEFINE q == k \div v
             e == k % v
  <1>1. q \in Nat /\ e \in 0 .. v - 1 /\ k = v * q + e
    BY Divides
  <1> HIDE DEF q, e
  <1>2. v * (q + 1) = v * q + v /\ v * q \in Nat
    BY <1>1
  <1>3. CASE e = v - 1
    <2>1. k + 1 = v * (q + 1) + 0 /\ q + 1 \in Nat /\ 0 \in 0 .. v - 1
      BY <1>1, <1>2, <1>3
    <2>2. (v * (q + 1) + 0) \div v = q + 1 /\ (v * (q + 1) + 0) % v = 0
      BY <2>1, QuotientUnique
    <2>3. (k + 1) \div v = q + 1 /\ (k + 1) % v = 0
      BY <2>1, <2>2
    <2>4. QED
      BY <1>3, <2>3 DEF q, e
  <1>4. CASE e # v - 1
    <2>1. k + 1 = v * q + (e + 1) /\ e + 1 \in 0 .. v - 1
      BY <1>1, <1>2, <1>4
    <2>2. (k + 1) \div v = q /\ (k + 1) % v = e + 1
      BY <1>1, <2>1, QuotientUnique
    <2>3. QED
      BY <1>4, <2>2 DEF q, e
  <1>5. QED
    BY <1>3, <1>4

-----------------------------------------------------------------------------
(* The bounds of a segment. In vec, read as one row of bits with the        *)
(* highest of every byte first, the segment starts at Start and is followed *)
(* by Slack unused bits.                                                     *)

Low(j) == j * l
Past(j) == (j + 1) * l - 1
Pad(j) == IF Past(j) >= n THEN Past(j) - (n - 1) ELSE 0
Top(j) == Past(j) - Pad(j)
Start(j) == CharBits * (Pad(j) \div CharBits) + (CharBits - 1 - ((Top(j) - Low(j)) % CharBits))
Slack(j) == CharBits * ElemsPerCoeff - 1 - (Start(j) + (Top(j) - Low(j)))

\* compute_bound and the constructor: r coefficients of l bits cover the n bits of input.
LEMMA Sizes ==
  ASSUME n \in Ns, l \in Ls
  PROVE  /\ n \in Nat \ {0} /\ l \in Nat \ {0} /\ WordBits \in Nat \ {0} /\ CharBits \in Nat \ {0}
         /\ r \in Nat \ {0} /\ (r - 1) * l <= n - 1 /\ n <= r * l
         /\ ElemsPerCoeff \in Nat \ {0} /\ ElemsPerCoeff = ((l - 1) \div CharBits) + 1
         /\ l <= CharBits * ElemsPerCoeff /\ CharBits * ElemsPerCoeff \in Nat
  <1>1. n \in Nat \ {0} /\ l \in Nat \ {0} /\ WordBits \in Nat \ {0} /\ CharBits \in Nat \ {0}
    BY ParamsAssumption
  <1>2. r \in Nat \ {0} /\ n <= l * r /\ l * r <= n - 1 + l /\ l * r \in Nat
    BY <1>1, CeilDivIs DEF r
  <1>3. (r - 1) * l = l * r - l /\ r * l = l * r
    BY <1>1, <1>2
  <1>4. (r - 1) * l <= n - 1 /\ n <= r * l
    BY <1>1, <1>2, <1>3
  <1>5. /\ ElemsPerCoeff \in Nat \ {0} /\ ElemsPerCoeff = ((l - 1) \div CharBits) + 1
        /\ l <= CharBits * ElemsPerCoeff /\ CharBits * ElemsPerCoeff \in Nat
    BY <1>1, CeilDivIs DEF ElemsPerCoeff
  <1>6. QED
    BY <1>1, <1>2, <1>4, <1>5

\* A segment lies in the input, and only the last may be shorter than l bits.
LEMMA SegmentBounds ==
  ASSUME n \in Ns, l \in Ls, NEW j \in 0 .. r - 1
  PROVE  /\ Low(j) \in 0 .. n - 1 /\ Top(j) \in Low(j) .. n - 1
         /\ Pad(j) \in 0 .. l - 1 /\ (Top(j) - Low(j)) + Pad(j) = l - 1
         /\ Past(j) - Low(j) = l - 1
         /\ j < r - 1 => Pad(j) = 0
         /\ j = r - 1 => Top(j) = n - 1
  <1> DEFINE w == r
  <1>1. /\ n \in Nat \ {0} /\ l \in Nat \ {0} /\ w \in Nat \ {0} /\ j \in 0 .. w - 1
        /\ (w - 1) * l <= n - 1 /\ n <= w * l
    BY Sizes
  <1> HIDE DEF w
  <1>2. j \in Nat /\ j * l \in Nat /\ (j + 1) * l = j * l + l
    BY <1>1
  <1>3. j * l <= (w - 1) * l
    BY <1>1, <1>2
  <1>4. j < w - 1 => (j + 1) * l <= (w - 1) * l
    BY <1>1, <1>2
  <1>5. j = w - 1 => (j + 1) * l = w * l
    BY <1>1, <1>2
  <1> DEFINE k == j * l
             m == (j + 1) * l
             x == (w - 1) * l
             y == w * l
  <1>6. x \in Int /\ y \in Int
    BY <1>1
  <1>7. /\ k \in Nat /\ m = k + l /\ k <= x /\ (j < w - 1 => m <= x) /\ (j = w - 1 => m = y)
        /\ x <= n - 1 /\ n <= y
    BY <1>1, <1>2, <1>3, <1>4, <1>5
  <1>8. Low(j) = k /\ Past(j) = m - 1
    BY DEF Low, Past
  <1> HIDE DEF k, m, x, y
  <1>9. Pad(j) = (IF m - 1 >= n THEN m - 1 - (n - 1) ELSE 0) /\ Top(j) = m - 1 - Pad(j)
    BY <1>8 DEF Pad, Top
  <1>10. Low(j) \in 0 .. n - 1 /\ Top(j) \in Low(j) .. n - 1 /\ Past(j) - Low(j) = l - 1
    BY <1>1, <1>6, <1>7, <1>8, <1>9
  <1>11. Pad(j) \in 0 .. l - 1 /\ (Top(j) - Low(j)) + Pad(j) = l - 1
    BY <1>1, <1>6, <1>7, <1>8, <1>9
  <1>12. /\ j < w - 1 => Pad(j) = 0
         /\ j = w - 1 => Top(j) = n - 1
    BY <1>1, <1>6, <1>7, <1>9
  <1>13. QED
    BY <1>10, <1>11, <1>12 DEF w

\* The bits of a segment fit into vec: after them a byte at most is left, and
\* nothing after those of a segment of l bits.
LEMMA SegmentPlace ==
  ASSUME n \in Ns, l \in Ls, NEW j \in 0 .. r - 1
  PROVE  /\ Start(j) \in Nat /\ Slack(j) \in {0, CharBits}
         /\ Pad(j) = 0 => Slack(j) = 0
         /\ Start(j) \div CharBits = Pad(j) \div CharBits
         /\ Start(j) % CharBits = CharBits - 1 - ((Top(j) - Low(j)) % CharBits)
  <1> DEFINE d == Top(j) - Low(j)
             x == Pad(j) \div CharBits
             y == d \div CharBits
             f == d % CharBits
             E == ElemsPerCoeff
  <1>1. /\ CharBits \in Nat \ {0} /\ l \in Nat \ {0} /\ E \in Nat \ {0} /\ E = ((l - 1) \div CharBits) + 1
        /\ d \in Nat /\ Pad(j) \in Nat /\ l - 1 = Pad(j) + d
    <2>1. Low(j) \in Nat /\ Top(j) \in Low(j) .. n - 1 /\ Pad(j) \in Nat /\ d + Pad(j) = l - 1
      BY Sizes, SegmentBounds
    <2>2. d \in Nat /\ l - 1 = Pad(j) + d
      BY <2>1
    <2>3. QED
      BY <2>1, <2>2, Sizes
  <1> HIDE DEF E
  <1>2. x \in Nat /\ y \in Nat /\ f \in 0 .. CharBits - 1 /\ d = CharBits * y + f
    <2> HIDE DEF d
    <2>1. QED
      BY <1>1, Divides
  <1>3. E - 1 \in {x + y, x + y + 1}
    <2>1. (Pad(j) + d) \div CharBits \in {x + y, x + y + 1}
      <3> HIDE DEF d
      <3>1. QED
        BY <1>1, SumQuotient
    <2>2. E - 1 = (l - 1) \div CharBits
      BY <1>1
    <2>3. QED
      BY <1>1, <2>1, <2>2
  <1>4. Pad(j) = 0 => E - 1 = x + y
    <2>1. SUFFICES ASSUME Pad(j) = 0 PROVE E - 1 = x + y
      OBVIOUS
    <2>2. Pad(j) = CharBits * 0 + 0
      BY <1>1, <2>1
    <2>3. x = 0
      BY <1>1, <2>1, <2>2, QuotientUnique
    <2>4. (l - 1) \div CharBits = y
      BY <1>1, <2>1
    <2>5. QED
      BY <1>1, <1>2, <2>3, <2>4
  <1>5. Start(j) = CharBits * x + (CharBits - 1 - f)
    BY DEF Start
  <1>6. Slack(j) = CharBits * E - 1 - (Start(j) + d)
    BY DEF Slack, E
  <1> HIDE DEF d, x, y, f
  <1>7. CharBits * x \in Nat /\ CharBits * y \in Nat
    BY <1>1, <1>2
  <1>8. /\ E = x + y + 1 => CharBits * E = CharBits * x + CharBits * y + CharBits
        /\ E = x + y + 2 => CharBits * E = CharBits * x + CharBits * y + CharBits + CharBits
    BY <1>1, <1>2
  <1>9. E = x + y + 1 \/ E = x + y + 2
    BY <1>1, <1>2, <1>3
  <1>10. Start(j) \in Nat /\ Slack(j) \in {0, CharBits}
    <2>1. Start(j) \in Nat
      BY <1>1, <1>2, <1>5, <1>7
    <2>2. Start(j) + d = CharBits * x + CharBits * y + CharBits - 1
      BY <1>1, <1>2, <1>5, <1>7
    <2>3. CASE E = x + y + 1
      <3> DEFINE a == CharBits * x
                 b == CharBits * y
                 c == CharBits * E
      <3>1. a \in Nat /\ b \in Nat /\ c = a + b + CharBits
        BY <1>7, <1>8, <2>3
      <3>2. Slack(j) = c - 1 - (a + b + CharBits - 1)
        BY <1>6, <2>2
      <3> HIDE DEF a, b, c
      <3>3. Slack(j) = 0
        BY <1>1, <3>1, <3>2
      <3>4. QED
        BY <2>1, <3>3
    <2>4. CASE E = x + y + 2
      <3> DEFINE a == CharBits * x
                 b == CharBits * y
                 c == CharBits * E
      <3>1. a \in Nat /\ b \in Nat /\ c = a + b + CharBits + CharBits
        BY <1>7, <1>8, <2>4
      <3>2. Slack(j) = c - 1 - (a + b + CharBits - 1)
        BY <1>6, <2>2
      <3> HIDE DEF a, b, c
      <3>3. Slack(j) = CharBits
        BY <1>1, <3>1, <3>2
      <3>4. QED
        BY <2>1, <3>3
    <2>5. QED
      BY <1>9, <2>3, <2>4
  <1>11. Pad(j) = 0 => Slack(j) = 0
    BY <1>1, <1>2, <1>4, <1>5, <1>6, <1>7, <1>8
  <1>12. Start(j) \div CharBits = x /\ Start(j) % CharBits = CharBits - 1 - f
    <2> DEFINE g == CharBits - 1 - f
    <2>1. g \in 0 .. CharBits - 1 /\ Start(j) = CharBits * x + g
      BY <1>1, <1>2, <1>5
    <2> HIDE DEF g
    <2>2. (CharBits * x + g) \div CharBits = x /\ (CharBits * x + g) % CharBits = g
      BY <1>1, <1>2, <2>1, QuotientUnique
    <2>3. QED
      BY <2>1, <2>2 DEF g
  <1>13. QED
    BY <1>10, <1>11, <1>12 DEF d, x, f

-----------------------------------------------------------------------------
(* The invariant of the cutting *)

\* the byte and the bit of the place p of vec
Cell(p) == <<p \div CharBits, CharBits - 1 - (p % CharBits)>>
InSegment(j, k) == {b \in input : Low(j) <= b /\ b < k}
\* what the first k - Low(j) turns of a segment leave in vec
Placed(j, k) == {Cell(Start(j) + (b - Low(j))) : b \in InSegment(j, k)}
SegValue(j) == {Slack(j) + (Top(j) - b) : b \in InSegment(j, Top(j) + 1)}

PlacesTyped ==
  /\ pc \in {"segment", "copy", "idle", "horner", "parity", "done"}
  /\ n \in Ns /\ l \in Ls /\ input \subseteq 0 .. n - 1
  /\ at \in 0 .. n /\ last \in 0 .. n - 1
  /\ wrd \in 0 .. n \div WordBits /\ loc \in 0 .. WordBits - 1
  /\ vecWrd \in 0 .. ElemsPerCoeff /\ vecLoc \in 0 .. CharBits - 1
  /\ vect \subseteq (0 .. ElemsPerCoeff - 1) \X (0 .. CharBits - 1)

CopyPlaces ==
  pc = "copy" =>
    /\ last = Top(seg) /\ at \in Low(seg) .. last + 1
    /\ wrd = at \div WordBits /\ loc = WordBits - 1 - (at % WordBits)
    /\ vecWrd = (Start(seg) + (at - Low(seg))) \div CharBits
    /\ vecLoc = CharBits - 1 - ((Start(seg) + (at - Low(seg))) % CharBits)
    /\ vect = Placed(seg, at)

CoeffsCut ==
  /\ seg \in 0 .. r
  /\ IF pc \in {"segment", "copy"} THEN seg < r ELSE seg = r
  /\ seg > 0 => coeffs \in [0 .. seg - 1 -> SUBSET (0 .. CharBits * ElemsPerCoeff - 1)]
  /\ \A j \in 0 .. seg - 1 : coeffs[j] = SegValue(j)

LayoutInv == PlacesTyped /\ CopyPlaces /\ CoeffsCut

\* The input stays, and with it where its bits go.
LEMMA SameInput ==
  ASSUME UNCHANGED <<n, l, input>>
  PROVE  /\ r' = r /\ ElemsPerCoeff' = ElemsPerCoeff
         /\ \A j : Low(j)' = Low(j) /\ Top(j)' = Top(j) /\ Start(j)' = Start(j) /\ SegValue(j)' = SegValue(j)
         /\ \A j, k : Placed(j, k)' = Placed(j, k)
  <1>1. r' = r /\ ElemsPerCoeff' = ElemsPerCoeff
    BY DEF r, ElemsPerCoeff, CeilDiv
  <1>2. ASSUME NEW j
        PROVE  Low(j)' = Low(j) /\ Top(j)' = Top(j) /\ Start(j)' = Start(j) /\ Slack(j)' = Slack(j)
    <2>1. Low(j)' = Low(j) /\ Past(j)' = Past(j)
      BY DEF Low, Past
    <2>2. Pad(j)' = Pad(j)
      BY <2>1 DEF Pad
    <2>3. Top(j)' = Top(j)
      BY <2>1, <2>2 DEF Top
    <2>4. Start(j)' = Start(j)
      BY <2>1, <2>2, <2>3 DEF Start
    <2>5. Slack(j)' = Slack(j)
      BY <1>1, <2>1, <2>3, <2>4 DEF Slack
    <2>6. QED
      BY <2>1, <2>3, <2>4, <2>5
  <1>3. ASSUME NEW j, NEW k PROVE InSegment(j, k)' = InSegment(j, k) /\ Placed(j, k)' = Placed(j, k)
    BY <1>2 DEF InSegment, Placed
  <1>4. ASSUME NEW j PROVE SegValue(j)' = SegValue(j)
    BY <1>2 DEF InSegment, SegValue
  <1>5. QED
    BY <1>1, <1>2, <1>3, <1>4

\* A cell holds the bit of the number whose exponent counts the places behind it.
LEMMA CellNumber ==
  ASSUME n \in Ns, l \in Ls, NEW p \in Nat
  PROVE  CharBits * (ElemsPerCoeff - 1 - (p \div CharBits)) + (CharBits - 1 - (p % CharBits))
           = CharBits * ElemsPerCoeff - 1 - p
  <1> DEFINE E == ElemsPerCoeff
             q == p \div CharBits
             e == p % CharBits
  <1>1. CharBits \in Nat \ {0} /\ E \in Nat
    BY Sizes
  <1>2. q \in Nat /\ e \in 0 .. CharBits - 1 /\ p = CharBits * q + e
    BY <1>1, Divides
  <1> HIDE DEF E, q, e
  <1>3. CharBits * (E - 1 - q) = CharBits * E - CharBits - CharBits * q
    BY <1>1, <1>2
  <1>4. CharBits * E \in Nat /\ CharBits * q \in Nat
    BY <1>1, <1>2
  <1>5. CharBits * (E - 1 - q) + (CharBits - 1 - e) = CharBits * E - 1 - p
    BY <1>1, <1>2, <1>3, <1>4
  <1>6. QED
    BY <1>5 DEF E, q, e

\* The place of a bit of a segment is in vec, the place behind it at most at its end.
LEMMA PlaceInVec ==
  ASSUME n \in Ns, l \in Ls, NEW j \in 0 .. r - 1, NEW k \in Low(j) .. Top(j)
  PROVE  /\ Start(j) + (k - Low(j)) \in Nat
         /\ Cell(Start(j) + (k - Low(j))) \in (0 .. ElemsPerCoeff - 1) \X (0 .. CharBits - 1)
         /\ (Start(j) + (k + 1 - Low(j))) \div CharBits \in 0 .. ElemsPerCoeff
         /\ Slack(j) + (Top(j) - k) \in 0 .. CharBits * ElemsPerCoeff - 1
         /\ Slack(j) + (Top(j) - k) = CharBits * ElemsPerCoeff - 1 - (Start(j) + (k - Low(j)))
  <1> DEFINE E == ElemsPerCoeff
             m == CharBits * E
             p == Start(j) + (k - Low(j))
  <1>1. /\ CharBits \in Nat \ {0} /\ E \in Nat \ {0} /\ m \in Nat
        /\ Low(j) \in Nat /\ Top(j) \in Nat /\ Low(j) <= k /\ k <= Top(j) /\ k \in Nat
        /\ Start(j) \in Nat /\ Slack(j) \in Nat
        /\ Slack(j) = m - 1 - (Start(j) + (Top(j) - Low(j)))
    <2>1. Low(j) \in Nat /\ Top(j) \in Nat
      <3>1. n \in Nat /\ Low(j) \in 0 .. n - 1 /\ Top(j) \in Low(j) .. n - 1
        BY Sizes, SegmentBounds
      <3>2. QED
        BY <3>1
    <2>2. CharBits \in Nat \ {0} /\ E \in Nat \ {0} /\ m \in Nat
      BY Sizes
    <2>3. Start(j) \in Nat /\ Slack(j) \in {0, CharBits}
      BY SegmentPlace
    <2>4. Slack(j) \in Nat
      BY <2>2, <2>3
    <2>5. Slack(j) = m - 1 - (Start(j) + (Top(j) - Low(j)))
      BY DEF Slack
    <2>6. Low(j) <= k /\ k <= Top(j) /\ k \in Nat
      BY <2>1
    <2>7. QED
      BY <2>1, <2>2, <2>3, <2>4, <2>5, <2>6
  <1>2. m = CharBits * (E - 1) + CharBits /\ (E - 1) \in Nat /\ CharBits * (E - 1) \in Nat
    BY <1>1
  <1> HIDE DEF E, m
  <1>3. p \in Nat /\ p <= m - 1 /\ Start(j) + (k + 1 - Low(j)) = p + 1
    BY <1>1
  <1>4. Slack(j) + (Top(j) - k) = m - 1 - p /\ m - 1 - p \in 0 .. m - 1
    BY <1>1, <1>3
  <1> HIDE DEF p
  <1>5. p \div CharBits \in 0 .. E - 1
    <2>1. m - 1 = CharBits * (E - 1) + (CharBits - 1) /\ CharBits - 1 \in 0 .. CharBits - 1
      BY <1>1, <1>2
    <2>2. (CharBits * (E - 1) + (CharBits - 1)) \div CharBits = E - 1
      BY <1>1, <1>2, <2>1, QuotientUnique
    <2>3. m - 1 \in Nat /\ (m - 1) \div CharBits = E - 1
      BY <1>3, <1>1, <2>1, <2>2
    <2>4. p \div CharBits <= (m - 1) \div CharBits
      BY <1>1, <1>3, <2>3, QuotientMonotone
    <2>5. p \div CharBits \in Nat
      BY <1>1, <1>3, Divides
    <2>6. QED
      BY <1>1, <2>3, <2>4, <2>5
  <1>6. (p + 1) \div CharBits \in 0 .. E
    <2>1. p + 1 \in Nat /\ p + 1 <= m /\ m = CharBits * E + 0 /\ 0 \in 0 .. CharBits - 1
      BY <1>1, <1>3 DEF m
    <2>2. (CharBits * E + 0) \div CharBits = E
      BY <1>1, <2>1, QuotientUnique
    <2>3. (p + 1) \div CharBits <= m \div CharBits
      BY <1>1, <2>1, QuotientMonotone
    <2>4. (p + 1) \div CharBits \in Nat
      BY <1>1, <2>1, Divides
    <2>5. QED
      BY <1>1, <2>1, <2>2, <2>3, <2>4
  <1>7. CharBits - 1 - (p % CharBits) \in 0 .. CharBits - 1
    <2>1. p % CharBits \in 0 .. CharBits - 1
      BY <1>1, <1>3, Divides
    <2>2. QED
      BY <1>1, <2>1
  <1>8. Cell(p) \in (0 .. E - 1) \X (0 .. CharBits - 1)
    BY <1>5, <1>7 DEF Cell
  <1>9. QED
    BY <1>3, <1>4, <1>6, <1>8 DEF E, m, p

\* Before the first coefficient.
LEMMA InitLayout == Init => LayoutInv
  <1>1. SUFFICES ASSUME Init PROVE LayoutInv
    OBVIOUS
  <1>2. n \in Ns /\ l \in Ls /\ input \subseteq 0 .. n - 1
    BY <1>1 DEF Init
  <1>3. /\ n \in Nat \ {0} /\ WordBits \in Nat \ {0} /\ CharBits \in Nat \ {0}
        /\ r \in Nat \ {0} /\ ElemsPerCoeff \in Nat \ {0}
    BY <1>2, Sizes
  <1>4. n \div WordBits \in Nat
    BY <1>3, Divides
  <1>5. PlacesTyped
    <2>1. 0 \in 0 .. n /\ 0 \in 0 .. n - 1 /\ 0 \in 0 .. n \div WordBits /\ 0 \in 0 .. WordBits - 1
      BY <1>3, <1>4
    <2>2. 0 \in 0 .. ElemsPerCoeff /\ 0 \in 0 .. CharBits - 1
      BY <1>3
    <2>3. pc = "segment" /\ at = 0 /\ last = 0 /\ wrd = 0 /\ loc = 0 /\ vecWrd = 0 /\ vecLoc = 0 /\ vect = {}
      BY <1>1 DEF Init
    <2>4. QED
      BY <1>2, <2>1, <2>2, <2>3 DEF PlacesTyped
  <1>6. CopyPlaces
    BY <1>1 DEF Init, CopyPlaces
  <1>7. CoeffsCut
    <2>1. pc = "segment" /\ seg = 0
      BY <1>1 DEF Init
    <2>2. QED
      BY <1>3, <2>1 DEF CoeffsCut
  <1>8. QED
    BY <1>5, <1>6, <1>7 DEF LayoutInv

\* A step of a call leaves the coefficients.
LEMMA CallKeepsLayout ==
  ASSUME LayoutInv, UNCHANGED <<n, l, input, segVars>>,
         pc \in {"idle", "horner", "parity", "done"}, pc' \in {"idle", "horner", "parity", "done"}
  PROVE  LayoutInv'
  <1>1. UNCHANGED <<n, l, input, seg, vect, at, last, wrd, loc, vecWrd, vecLoc, coeffs>>
    BY DEF segVars
  <1>2. /\ r' = r /\ ElemsPerCoeff' = ElemsPerCoeff
        /\ \A j : SegValue(j)' = SegValue(j)
    BY <1>1, SameInput
  <1>3. pc' \notin {"segment", "copy"} /\ pc \notin {"segment", "copy"}
    OBVIOUS
  <1>4. PlacesTyped'
    <2>1. pc' \in {"segment", "copy", "idle", "horner", "parity", "done"}
      OBVIOUS
    <2>2. QED
      BY <1>1, <1>2, <2>1 DEF LayoutInv, PlacesTyped
  <1>5. CopyPlaces'
    BY <1>3 DEF CopyPlaces
  <1>6. CoeffsCut'
    BY <1>1, <1>2, <1>3 DEF LayoutInv, CoeffsCut
  <1>7. QED
    BY <1>4, <1>5, <1>6 DEF LayoutInv

\* The first place of a segment, in vec set to zero.
LEMMA StartSegmentLayout == LayoutInv /\ StartSegment => LayoutInv'
  <1>1. SUFFICES ASSUME LayoutInv, StartSegment PROVE LayoutInv'
    OBVIOUS
  <1>2. /\ PlacesTyped /\ CoeffsCut /\ n \in Ns /\ l \in Ls /\ input \subseteq 0 .. n - 1
        /\ seg \in 0 .. r /\ pc = "segment" /\ seg < r
        /\ pc' = "copy" /\ UNCHANGED <<n, l, input, seg, coeffs>>
    BY <1>1 DEF LayoutInv, PlacesTyped, CoeffsCut, StartSegment
  <1>3. /\ n \in Nat \ {0} /\ l \in Nat \ {0} /\ WordBits \in Nat \ {0} /\ CharBits \in Nat \ {0}
        /\ r \in Nat \ {0} /\ ElemsPerCoeff \in Nat \ {0}
    BY <1>2, Sizes
  <1>4. seg \in 0 .. r - 1
    BY <1>2, <1>3
  <1>5. /\ Low(seg) \in Nat /\ Low(seg) <= n - 1 /\ Top(seg) \in Nat /\ Low(seg) <= Top(seg) /\ Top(seg) <= n - 1
        /\ Past(seg) - Low(seg) = l - 1 /\ Pad(seg) \in Nat
    <2>1. /\ Low(seg) \in 0 .. n - 1 /\ Top(seg) \in Low(seg) .. n - 1
          /\ Past(seg) - Low(seg) = l - 1 /\ Pad(seg) \in 0 .. l - 1
      BY <1>2, <1>4, SegmentBounds
    <2>2. QED
      BY <1>3, <2>1
  <1>6. /\ vect' = ClearedUpTo((Past(seg) - Low(seg) + CharBits) \div CharBits)
        /\ at' = Low(seg) /\ last' = Top(seg)
        /\ wrd' = Low(seg) \div WordBits /\ loc' = WordBits - 1 - (Low(seg) % WordBits)
        /\ vecWrd' = Pad(seg) \div CharBits /\ vecLoc' = (Top(seg) - Low(seg)) % CharBits
    BY <1>1 DEF StartSegment, Upper, Past, Pad, Top, Low
  <1>7. vect' = {}
    <2>1. (Past(seg) - Low(seg) + CharBits) = l + CharBits - 1
      BY <1>3, <1>5
    <2>2. (Past(seg) - Low(seg) + CharBits) \div CharBits = ElemsPerCoeff
      BY <2>1 DEF ElemsPerCoeff, CeilDiv
    <2>3. vect' = {p \in vect : p[1] >= ElemsPerCoeff}
      BY <1>6, <2>2 DEF ClearedUpTo
    <2>4. \A p \in vect : p[1] \in 0 .. ElemsPerCoeff - 1
      BY <1>2 DEF PlacesTyped
    <2>5. \A p \in vect : ~(p[1] >= ElemsPerCoeff)
      BY <1>3, <2>4
    <2>6. QED
      BY <2>3, <2>5
  <1>8. /\ r' = r /\ ElemsPerCoeff' = ElemsPerCoeff
        /\ \A j : Low(j)' = Low(j) /\ Top(j)' = Top(j) /\ Start(j)' = Start(j) /\ SegValue(j)' = SegValue(j)
        /\ \A j, k : Placed(j, k)' = Placed(j, k)
    BY <1>2, SameInput
  <1>9. /\ Start(seg) \in Nat /\ Start(seg) \div CharBits = Pad(seg) \div CharBits
        /\ Start(seg) % CharBits = CharBits - 1 - ((Top(seg) - Low(seg)) % CharBits)
    BY <1>2, <1>4, SegmentPlace
  <1>10. Start(seg) + (at' - Low(seg)) = Start(seg)
    BY <1>5, <1>6, <1>9
  <1>11. /\ (Top(seg) - Low(seg)) % CharBits \in 0 .. CharBits - 1
         /\ Low(seg) % WordBits \in 0 .. WordBits - 1
         /\ Low(seg) \div WordBits \in Nat /\ Low(seg) \div WordBits <= n \div WordBits
         /\ n \div WordBits \in Nat
    <2>1. Top(seg) - Low(seg) \in Nat /\ Low(seg) <= n /\ n \in Nat
      BY <1>3, <1>5
    <2>2. QED
      BY <1>3, <1>5, <2>1, Divides, QuotientMonotone
  <1>12. Start(seg) \div CharBits \in 0 .. ElemsPerCoeff
    <2>1. Low(seg) \in Low(seg) .. Top(seg)
      BY <1>5
    <2>2. Cell(Start(seg) + (Low(seg) - Low(seg))) \in (0 .. ElemsPerCoeff - 1) \X (0 .. CharBits - 1)
      BY <1>2, <1>4, <2>1, PlaceInVec
    <2>3. Start(seg) + (Low(seg) - Low(seg)) = Start(seg)
      BY <1>5, <1>9
    <2>4. Start(seg) \div CharBits \in 0 .. ElemsPerCoeff - 1
      BY <2>2, <2>3 DEF Cell
    <2>5. QED
      BY <1>3, <2>4
  <1>13. PlacesTyped'
    <2>1. at' \in 0 .. n /\ last' \in 0 .. n - 1
      BY <1>3, <1>5, <1>6
    <2>2. wrd' \in 0 .. n \div WordBits /\ loc' \in 0 .. WordBits - 1
      BY <1>3, <1>6, <1>11
    <2>3. vecWrd' \in 0 .. ElemsPerCoeff /\ vecLoc' \in 0 .. CharBits - 1
      BY <1>6, <1>9, <1>11, <1>12
    <2>4. QED
      BY <1>2, <1>7, <1>8, <2>1, <2>2, <2>3 DEF PlacesTyped
  <1>14. CopyPlaces'
    <2>1. Placed(seg, at') = {}
      <3>1. InSegment(seg, at') = {}
        <4>1. \A b \in input : ~(Low(seg) <= b /\ b < at')
          BY <1>2, <1>5, <1>6
        <4>2. QED
          BY <4>1 DEF InSegment
      <3>2. QED
        BY <3>1 DEF Placed
    <2>2. at' \in Low(seg) .. last' + 1
      BY <1>5, <1>6
    <2>3. vecLoc' = CharBits - 1 - ((Start(seg) + (at' - Low(seg))) % CharBits)
      BY <1>3, <1>6, <1>9, <1>10, <1>11
    <2>4. seg' = seg /\ Low(seg') = Low(seg)
      BY <1>2
    <2>5. /\ Low(seg)' = Low(seg) /\ Top(seg)' = Top(seg) /\ Start(seg)' = Start(seg)
          /\ Placed(seg, at)' = Placed(seg, at')
      <3>1. \A j, k : seg' = j /\ at' = k => Placed(seg, at)' = Placed(j, k)
        BY <1>2 DEF Placed, InSegment, Cell, Start, Top, Past, Pad, Low
      <3>2. \A j : seg' = j => Low(seg)' = Low(j) /\ Top(seg)' = Top(j) /\ Start(seg)' = Start(j)
        BY <1>2 DEF Start, Top, Past, Pad, Low
      <3>3. QED
        BY <1>2, <3>1, <3>2
    <2>6. QED
      BY <1>6, <1>7, <1>9, <1>10, <2>1, <2>2, <2>3, <2>5 DEF CopyPlaces
  <1>15. CoeffsCut'
    <2>1. pc \in {"segment", "copy"} /\ pc' \in {"segment", "copy"}
      BY <1>2
    <2>2. QED
      BY <1>2, <1>8, <2>1 DEF CoeffsCut
  <1>16. QED
    BY <1>13, <1>14, <1>15 DEF LayoutInv

\* A turn puts the next bit of the segment at the next place.
LEMMA CopyBitLayout == LayoutInv /\ CopyBit => LayoutInv'
  <1>1. SUFFICES ASSUME LayoutInv, CopyBit PROVE LayoutInv'
    OBVIOUS
  <1>2. /\ PlacesTyped /\ CoeffsCut /\ n \in Ns /\ l \in Ls /\ input \subseteq 0 .. n - 1
        /\ seg \in 0 .. r /\ pc = "copy" /\ seg < r /\ at <= last
        /\ pc' = pc /\ UNCHANGED <<n, l, input, seg, last, coeffs>>
    BY <1>1 DEF LayoutInv, PlacesTyped, CoeffsCut, CopyBit
  <1>3. /\ n \in Nat \ {0} /\ WordBits \in Nat \ {0} /\ CharBits \in Nat \ {0}
        /\ r \in Nat \ {0} /\ ElemsPerCoeff \in Nat \ {0}
    BY <1>2, Sizes
  <1>4. seg \in 0 .. r - 1
    BY <1>2, <1>3
  <1> DEFINE low == Low(seg)
             p == Start(seg) + (at - low)
  <1>5. /\ last = Top(seg) /\ at \in low .. last + 1
        /\ wrd = at \div WordBits /\ loc = WordBits - 1 - (at % WordBits)
        /\ vecWrd = p \div CharBits /\ vecLoc = CharBits - 1 - (p % CharBits)
        /\ vect = Placed(seg, at)
    BY <1>1, <1>2 DEF LayoutInv, CopyPlaces
  <1>6. low \in Nat /\ last \in Nat /\ last <= n - 1 /\ at \in Nat /\ at \in low .. Top(seg) /\ Start(seg) \in Nat
    <2>1. low \in 0 .. n - 1 /\ Top(seg) \in low .. n - 1
      BY <1>2, <1>4, SegmentBounds
    <2>2. Start(seg) \in Nat
      BY <1>2, <1>4, SegmentPlace
    <2>3. QED
      BY <1>2, <1>3, <1>5, <2>1, <2>2
  <1>7. /\ p \in Nat /\ Cell(p) \in (0 .. ElemsPerCoeff - 1) \X (0 .. CharBits - 1)
        /\ (Start(seg) + (at + 1 - low)) \div CharBits \in 0 .. ElemsPerCoeff
    BY <1>2, <1>4, <1>6, PlaceInVec
  <1>8. Start(seg) + (at + 1 - low) = p + 1
    BY <1>6
  <1>9. at' = at + 1
    BY <1>1 DEF CopyBit
  <1>10. /\ at = WordBits * (at \div WordBits) + (at % WordBits) /\ at % WordBits \in 0 .. WordBits - 1
         /\ at \div WordBits \in Nat
    BY <1>3, <1>6, Divides
  <1>11. p % CharBits \in 0 .. CharBits - 1 /\ p \div CharBits \in Nat
    <2> HIDE DEF p
    <2>1. QED
      BY <1>3, <1>7, Divides
  <1>12. InputBit <=> at \in input
    <2>1. WordBits - 1 - loc = at % WordBits
      BY <1>3, <1>5, <1>10
    <2>2. wrd * WordBits = WordBits * (at \div WordBits)
      BY <1>3, <1>5, <1>10
    <2>3. wrd * WordBits + (WordBits - 1 - loc) = at
      BY <1>10, <2>1, <2>2
    <2>4. QED
      BY <2>3 DEF InputBit
  <1>13. wrd' = (at + 1) \div WordBits /\ loc' = WordBits - 1 - ((at + 1) % WordBits)
    <2>1. /\ at % WordBits = WordBits - 1 => (at + 1) \div WordBits = (at \div WordBits) + 1 /\ (at + 1) % WordBits = 0
          /\ at % WordBits # WordBits - 1 => (at + 1) \div WordBits = at \div WordBits /\ (at + 1) % WordBits = (at % WordBits) + 1
      BY <1>3, <1>6, NextPlace
    <2>2. IF loc = 0 THEN loc' = WordBits - 1 /\ wrd' = wrd + 1 ELSE loc' = loc - 1 /\ wrd' = wrd
      BY <1>1 DEF CopyBit
    <2>3. loc = 0 <=> at % WordBits = WordBits - 1
      BY <1>3, <1>5, <1>10
    <2>4. CASE loc = 0
      BY <1>3, <1>5, <2>1, <2>2, <2>3, <2>4
    <2>5. CASE loc # 0
      BY <1>3, <1>5, <1>10, <2>1, <2>2, <2>3, <2>5
    <2>6. QED
      BY <2>4, <2>5
  <1>14. vecWrd' = (p + 1) \div CharBits /\ vecLoc' = CharBits - 1 - ((p + 1) % CharBits)
    <2>1. IF vecLoc = 0 THEN vecLoc' = CharBits - 1 /\ vecWrd' = vecWrd + 1 ELSE vecLoc' = vecLoc - 1 /\ vecWrd' = vecWrd
      BY <1>1 DEF CopyBit
    <2> HIDE DEF p
    <2>2. /\ p % CharBits = CharBits - 1 => (p + 1) \div CharBits = (p \div CharBits) + 1 /\ (p + 1) % CharBits = 0
          /\ p % CharBits # CharBits - 1 => (p + 1) \div CharBits = p \div CharBits /\ (p + 1) % CharBits = (p % CharBits) + 1
      BY <1>3, <1>7, NextPlace
    <2>3. vecLoc = 0 <=> p % CharBits = CharBits - 1
      <3> DEFINE e == p % CharBits
      <3>1. e \in 0 .. CharBits - 1 /\ vecLoc = CharBits - 1 - e
        BY <1>5, <1>11
      <3> HIDE DEF e
      <3>2. vecLoc = 0 <=> e = CharBits - 1
        BY <1>3, <3>1
      <3>3. QED
        BY <3>2 DEF e
    <2>4. CASE vecLoc = 0
      BY <1>3, <1>5, <2>1, <2>2, <2>3, <2>4
    <2>5. CASE vecLoc # 0
      BY <1>3, <1>5, <1>11, <2>1, <2>2, <2>3, <2>5
    <2>6. QED
      BY <2>4, <2>5
  <1>15. vect' = Placed(seg, at + 1)
    <2>1. vect' = IF at \in input THEN vect \cup {<<vecWrd, vecLoc>>} ELSE vect
      BY <1>1, <1>12 DEF CopyBit
    <2>2. <<vecWrd, vecLoc>> = Cell(p)
      BY <1>5 DEF Cell
    <2>3. InSegment(seg, at + 1) = IF at \in input THEN InSegment(seg, at) \cup {at} ELSE InSegment(seg, at)
      <3>1. \A b \in input : b < at + 1 <=> (b < at \/ b = at)
        BY <1>2, <1>6
      <3>2. low <= at
        BY <1>6
      <3>3. QED
        BY <3>1, <3>2 DEF InSegment
    <2>4. CASE at \in input
      <3>1. Placed(seg, at + 1) = Placed(seg, at) \cup {Cell(p)}
        BY <2>3, <2>4 DEF Placed
      <3>2. QED
        BY <1>5, <2>1, <2>2, <2>4, <3>1
    <2>5. CASE at \notin input
      BY <1>5, <2>1, <2>3, <2>5 DEF Placed
    <2>6. QED
      BY <2>4, <2>5
  <1>16. r' = r /\ ElemsPerCoeff' = ElemsPerCoeff /\ \A j : SegValue(j)' = SegValue(j)
    BY <1>2, SameInput
  <1>17. PlacesTyped'
    <2>1. at' \in 0 .. n
      BY <1>2, <1>3, <1>6, <1>9
    <2>2. wrd' \in 0 .. n \div WordBits /\ loc' \in 0 .. WordBits - 1
      <3>1. at + 1 \in Nat /\ at + 1 <= n /\ n \in Nat
        BY <1>2, <1>3, <1>6
      <3>2. /\ (at + 1) \div WordBits \in Nat /\ (at + 1) % WordBits \in 0 .. WordBits - 1 /\ n \div WordBits \in Nat
            /\ (at + 1) \div WordBits <= n \div WordBits
        BY <1>3, <3>1, Divides, QuotientMonotone
      <3>3. QED
        BY <1>3, <1>13, <3>2
    <2>3. vecWrd' \in 0 .. ElemsPerCoeff /\ vecLoc' \in 0 .. CharBits - 1
      <3>1. p + 1 \in Nat
        BY <1>7
      <3>2. (p + 1) % CharBits \in 0 .. CharBits - 1
        <4> HIDE DEF p
        <4>1. QED
          BY <1>3, <3>1, Divides
      <3>3. QED
        BY <1>3, <1>7, <1>8, <1>14, <3>2
    <2>4. vect' \subseteq (0 .. ElemsPerCoeff - 1) \X (0 .. CharBits - 1)
      <3>1. <<vecWrd, vecLoc>> = Cell(p)
        BY <1>5 DEF Cell
      <3>2. vect' \subseteq vect \cup {Cell(p)}
        BY <1>1, <3>1 DEF CopyBit
      <3>3. vect \subseteq (0 .. ElemsPerCoeff - 1) \X (0 .. CharBits - 1)
        BY <1>2 DEF PlacesTyped
      <3> HIDE DEF p
      <3>4. QED
        BY <1>7, <3>2, <3>3
    <2>5. QED
      BY <1>2, <1>16, <2>1, <2>2, <2>3, <2>4 DEF PlacesTyped
  <1>18. CopyPlaces'
    <2>1. \A j, k : seg' = j /\ at' = k => Placed(seg, at)' = Placed(j, k)
      BY <1>2 DEF Placed, InSegment, Cell, Start, Top, Past, Pad, Low
    <2>2. \A j : seg' = j => Low(seg)' = Low(j) /\ Top(seg)' = Top(j) /\ Start(seg)' = Start(j)
      BY <1>2 DEF Start, Top, Past, Pad, Low
    <2>3. /\ Low(seg)' = low /\ Top(seg)' = Top(seg) /\ Start(seg)' = Start(seg)
          /\ Placed(seg, at)' = Placed(seg, at + 1)
      BY <1>2, <1>9, <2>1, <2>2
    <2>4. (Start(seg) + (at - Low(seg)))' = p + 1
      <3>1. Start(seg)' = Start(seg) /\ at' = at + 1 /\ Low(seg)' = low
        BY <1>9, <2>3
      <3> HIDE DEF low
      <3>2. Start(seg)' + (at' - Low(seg)') = Start(seg) + ((at + 1) - low)
        BY <3>1
      <3>3. Start(seg) + ((at + 1) - low) = p + 1
        BY <1>6
      <3>4. QED
        BY <3>2, <3>3
    <2>5. at' \in low .. last + 1
      BY <1>2, <1>6, <1>9
    <2>6. QED
      BY <1>2, <1>5, <1>9, <1>13, <1>14, <1>15, <2>3, <2>4, <2>5 DEF CopyPlaces
  <1>19. CoeffsCut'
    <2>1. pc' \in {"segment", "copy"} /\ pc \in {"segment", "copy"}
      BY <1>2
    <2>2. QED
      BY <1>2, <1>16, <2>1 DEF CoeffsCut
  <1>20. QED
    BY <1>17, <1>18, <1>19 DEF LayoutInv

\* The filled vec is the coefficient of its segment.
LEMMA SegmentNumber ==
  ASSUME n \in Ns, l \in Ls, input \subseteq 0 .. n - 1, NEW j \in 0 .. r - 1
  PROVE  /\ BinToNumber(Placed(j, Top(j) + 1), ElemsPerCoeff) = SegValue(j)
         /\ SegValue(j) \subseteq 0 .. CharBits * ElemsPerCoeff - 1
  <1> DEFINE B == InSegment(j, Top(j) + 1)
             P(b) == Cell(Start(j) + (b - Low(j)))
             N(p) == CharBits * (ElemsPerCoeff - 1 - p[1]) + p[2]
             V(b) == Slack(j) + (Top(j) - b)
  <1>1. \A b \in B : b \in Low(j) .. Top(j)
    <2>1. Low(j) \in Nat /\ Top(j) \in Nat /\ n \in Nat
      <3>1. n \in Nat /\ Low(j) \in 0 .. n - 1 /\ Top(j) \in Low(j) .. n - 1
        BY Sizes, SegmentBounds
      <3>2. QED
        BY <3>1
    <2>2. \A b \in B : b \in Nat /\ Low(j) <= b /\ b < Top(j) + 1
      BY <2>1 DEF InSegment
    <2>3. QED
      BY <2>1, <2>2
  <1>2. ASSUME NEW b \in B PROVE N(P(b)) = V(b) /\ V(b) \in 0 .. CharBits * ElemsPerCoeff - 1
    <2> DEFINE p == Start(j) + (b - Low(j))
    <2>1. b \in Low(j) .. Top(j)
      BY <1>1
    <2>2. p \in Nat /\ V(b) = CharBits * ElemsPerCoeff - 1 - p /\ V(b) \in 0 .. CharBits * ElemsPerCoeff - 1
      BY <2>1, PlaceInVec
    <2> HIDE DEF p
    <2>3. N(Cell(p)) = CharBits * ElemsPerCoeff - 1 - p
      <3>1. Cell(p)[1] = p \div CharBits /\ Cell(p)[2] = CharBits - 1 - (p % CharBits)
        BY DEF Cell
      <3>2. QED
        BY <2>2, <3>1, CellNumber
    <2>4. QED
      BY <2>2, <2>3 DEF p
  <1>3. BinToNumber(Placed(j, Top(j) + 1), ElemsPerCoeff) = {N(p) : p \in {P(b) : b \in B}}
    BY DEF BinToNumber, Placed
  <1>4. SegValue(j) = {V(b) : b \in B}
    BY DEF SegValue
  <1> HIDE DEF B, P, N, V
  <1>5. {N(p) : p \in {P(b) : b \in B}} = {V(b) : b \in B}
    BY <1>2
  <1>6. QED
    BY <1>2, <1>3, <1>4, <1>5

\* BN_bin2bn of a full buffer: the coefficient is its segment.
LEMMA EndSegmentLayout == LayoutInv /\ EndSegment => LayoutInv'
  <1>1. SUFFICES ASSUME LayoutInv, EndSegment PROVE LayoutInv'
    OBVIOUS
  <1>2. /\ PlacesTyped /\ CoeffsCut /\ n \in Ns /\ l \in Ls /\ input \subseteq 0 .. n - 1
        /\ seg \in 0 .. r /\ pc = "copy" /\ seg < r /\ at > last
        /\ UNCHANGED <<n, l, input, vect, at, last, wrd, loc, vecWrd, vecLoc>>
        /\ seg' = seg + 1 /\ pc' = IF seg' < r THEN "segment" ELSE "idle"
    BY <1>1 DEF LayoutInv, PlacesTyped, CoeffsCut, EndSegment
  <1>3. r \in Nat \ {0} /\ n \in Nat
    BY <1>2, Sizes
  <1>4. seg \in 0 .. r - 1
    BY <1>2, <1>3
  <1>5. r' = r /\ ElemsPerCoeff' = ElemsPerCoeff /\ \A j : SegValue(j)' = SegValue(j)
    BY <1>2, SameInput
  <1>6. at = Top(seg) + 1
    <2>1. last = Top(seg) /\ at \in Low(seg) .. last + 1
      BY <1>1, <1>2 DEF LayoutInv, CopyPlaces
    <2>2. Low(seg) \in 0 .. n - 1 /\ Top(seg) \in Low(seg) .. n - 1
      BY <1>2, <1>4, SegmentBounds
    <2>3. QED
      BY <1>2, <1>3, <2>1, <2>2
  <1>7. BinToNumber(vect, ElemsPerCoeff) = SegValue(seg)
    <2>1. vect = Placed(seg, Top(seg) + 1)
      BY <1>1, <1>2, <1>6 DEF LayoutInv, CopyPlaces
    <2>2. QED
      BY <1>2, <1>4, <2>1, SegmentNumber
  <1>8. coeffs' = [j \in 0 .. seg |-> IF j < seg THEN coeffs[j] ELSE SegValue(seg)]
    BY <1>1, <1>7 DEF EndSegment
  <1>9. \A j \in 0 .. seg : coeffs'[j] = SegValue(j)
    <2>1. ASSUME NEW j \in 0 .. seg PROVE coeffs'[j] = SegValue(j)
      <3>1. CASE j < seg
        <4>1. j \in 0 .. seg - 1
          BY <1>4, <2>1, <3>1
        <4>2. QED
          BY <1>2, <1>8, <3>1, <4>1 DEF CoeffsCut
      <3>2. CASE ~(j < seg)
        <4>1. j = seg
          BY <1>4, <2>1, <3>2
        <4>2. QED
          BY <1>8, <4>1
      <3>3. QED
        BY <3>1, <3>2
    <2>2. QED
      BY <2>1
  <1>10. coeffs' \in [0 .. seg -> SUBSET (0 .. CharBits * ElemsPerCoeff - 1)]
    <2>1. \A j \in 0 .. seg : j \in 0 .. r - 1
      BY <1>3, <1>4
    <2>2. \A j \in 0 .. seg : SegValue(j) \in SUBSET (0 .. CharBits * ElemsPerCoeff - 1)
      BY <1>2, <2>1, SegmentNumber
    <2>3. coeffs' = [j \in 0 .. seg |-> coeffs'[j]]
      BY <1>8
    <2>4. QED
      BY <1>9, <2>2, <2>3
  <1>11. PlacesTyped'
    <2>1. pc' \in {"segment", "copy", "idle", "horner", "parity", "done"}
      BY <1>2
    <2>2. QED
      BY <1>2, <1>5, <2>1 DEF PlacesTyped
  <1>12. CopyPlaces'
    BY <1>2 DEF CopyPlaces
  <1>13. CoeffsCut'
    <2>1. seg' \in 0 .. r /\ seg' - 1 = seg /\ seg' > 0
      BY <1>2, <1>3, <1>4
    <2>2. IF pc' \in {"segment", "copy"} THEN seg' < r ELSE seg' = r
      BY <1>2, <1>3, <2>1
    <2>3. QED
      BY <1>5, <1>9, <1>10, <2>1, <2>2 DEF CoeffsCut
  <1>14. QED
    BY <1>11, <1>12, <1>13 DEF LayoutInv

\* Every step keeps the layout.
LEMMA LayoutStep == LayoutInv /\ [Next]_vars => LayoutInv'
  <1>1. SUFFICES ASSUME LayoutInv, [Next]_vars PROVE LayoutInv'
    OBVIOUS
  <1>2. CASE StartSegment
    BY <1>1, <1>2, StartSegmentLayout
  <1>3. CASE CopyBit
    BY <1>1, <1>3, CopyBitLayout
  <1>4. CASE EndSegment
    BY <1>1, <1>4, EndSegmentLayout
  <1>5. CASE Extract
    <2>1. pc = "idle" /\ pc' = "horner" /\ UNCHANGED <<n, l, input, segVars>>
      BY <1>5 DEF Extract
    <2>2. QED
      BY <1>1, <2>1, CallKeepsLayout
  <1>6. CASE HornerTurn
    <2>1. pc = "horner" /\ pc' \in {"parity", "horner"} /\ UNCHANGED <<n, l, input, segVars>>
      BY <1>6 DEF HornerTurn
    <2>2. QED
      BY <1>1, <2>1, CallKeepsLayout
  <1>7. CASE Hadamard
    <2>1. pc = "parity" /\ pc' = "done" /\ UNCHANGED <<n, l, input, segVars>>
      BY <1>7 DEF Hadamard
    <2>2. QED
      BY <1>1, <2>1, CallKeepsLayout
  <1>8. CASE Return
    <2>1. pc = "done" /\ pc' = "idle" /\ UNCHANGED <<n, l, input, segVars>>
      BY <1>8 DEF Return
    <2>2. QED
      BY <1>1, <2>1, CallKeepsLayout
  <1>9. CASE UNCHANGED vars
    <2>1. UNCHANGED <<pc, n, l, input, seg, vect, at, last, wrd, loc, vecWrd, vecLoc, coeffs>>
      BY <1>9 DEF vars, segVars
    <2>2. /\ r' = r /\ ElemsPerCoeff' = ElemsPerCoeff
          /\ \A j : SegValue(j)' = SegValue(j)
      BY <2>1, SameInput
    <2>3. PlacesTyped'
      BY <1>1, <2>1, <2>2 DEF LayoutInv, PlacesTyped
    <2>4. CoeffsCut'
      BY <1>1, <2>1, <2>2 DEF LayoutInv, CoeffsCut
    <2>5. CopyPlaces'
      <3>1. CopyPlaces
        BY <1>1 DEF LayoutInv
      <3>2. QED
        BY <2>1, <3>1 DEF CopyPlaces, Placed, InSegment, Cell, Start, Top, Past, Pad, Low
    <2>6. QED
      BY <2>3, <2>4, <2>5 DEF LayoutInv
  <1>10. QED
    BY <1>1, <1>2, <1>3, <1>4, <1>5, <1>6, <1>7, <1>8, <1>9 DEF Next

\* While coefficients are built, the buffer holds the copied part of the segment.
THEOREM LayoutInvariance == Spec => []LayoutInv
  <1>1. QED
    BY InitLayout, LayoutStep, PTL DEF Spec

-----------------------------------------------------------------------------
(* What the cut coefficients are *)

\* A segment of l bits is the number of its digits.
LEMMA FullSegment ==
  ASSUME n \in Ns, l \in Ls, input \subseteq 0 .. n - 1, NEW j \in 0 .. r - 1, j < r - 1
  PROVE  SegValue(j) = Digits(j)
  <1>1. /\ Low(j) \in Nat /\ l \in Nat /\ n \in Nat /\ Top(j) = Low(j) + (l - 1) /\ Slack(j) = 0
    <2>1. Low(j) \in 0 .. n - 1 /\ Top(j) \in Low(j) .. n - 1 /\ Pad(j) = 0 /\ (Top(j) - Low(j)) + Pad(j) = l - 1
      BY SegmentBounds
    <2>2. Slack(j) = 0
      BY <2>1, SegmentPlace
    <2>3. l \in Nat /\ n \in Nat
      BY Sizes
    <2>4. QED
      BY <2>1, <2>2, <2>3
  <1>2. SegValue(j) = {Slack(j) + (Top(j) - b) : b \in {b \in input : Low(j) <= b /\ b < Top(j) + 1}}
    BY DEF SegValue, InSegment
  <1>3. Digits(j) = {e \in 0 .. l - 1 : Low(j) + (l - 1 - e) \in input}
    BY DEF Digits, Low
  <1>4. ASSUME NEW b \in input, Low(j) <= b /\ b < Top(j) + 1 PROVE Slack(j) + (Top(j) - b) \in Digits(j)
    <2>1. b \in Nat
      BY <1>1
    <2>2. Slack(j) + (Top(j) - b) \in 0 .. l - 1 /\ Low(j) + (l - 1 - (Slack(j) + (Top(j) - b))) = b
      BY <1>1, <1>4, <2>1
    <2>3. QED
      BY <1>3, <2>2
  <1>5. ASSUME NEW e \in Digits(j) PROVE \E b \in input : Low(j) <= b /\ b < Top(j) + 1 /\ e = Slack(j) + (Top(j) - b)
    <2> DEFINE b == Low(j) + (l - 1 - e)
    <2>1. e \in 0 .. l - 1 /\ b \in input
      BY <1>3
    <2>2. Low(j) <= b /\ b < Top(j) + 1 /\ e = Slack(j) + (Top(j) - b)
      BY <1>1, <2>1
    <2>3. QED
      BY <2>1, <2>2
  <1>6. QED
    BY <1>2, <1>4, <1>5

\* The last segment is the number of its digits, up to one byte higher.
LEMMA LastSegment ==
  ASSUME n \in Ns, l \in Ls, input \subseteq 0 .. n - 1
  PROVE  \E s \in 0 .. CharBits : SegValue(r - 1) = Shift(LastDigits(r - 1, n - (r - 1) * l), s)
  <1> DEFINE j == r - 1
             m == n - j * l
  <1>1. j \in 0 .. r - 1
    BY Sizes
  <1>2. /\ Low(j) \in Nat /\ n \in Nat /\ Top(j) = Low(j) + (m - 1) /\ m \in Nat \ {0}
        /\ Slack(j) \in 0 .. CharBits
    <2>1. Low(j) \in 0 .. n - 1 /\ Top(j) \in Low(j) .. n - 1 /\ Top(j) = n - 1
      BY <1>1, SegmentBounds
    <2>2. Slack(j) \in {0, CharBits}
      BY <1>1, SegmentPlace
    <2>3. CharBits \in Nat /\ n \in Nat
      BY Sizes
    <2>4. m = n - Low(j)
      BY DEF Low
    <2> HIDE DEF j, m
    <2>5. Low(j) \in Nat /\ n \in Nat /\ Top(j) = Low(j) + (m - 1) /\ m \in Nat \ {0}
      BY <2>1, <2>3, <2>4
    <2>6. QED
      BY <2>2, <2>3, <2>5
  <1>3. SegValue(j) = {Slack(j) + (Top(j) - b) : b \in {b \in input : Low(j) <= b /\ b < Top(j) + 1}}
    BY DEF SegValue, InSegment
  <1>4. LastDigits(j, m) = {e \in 0 .. m - 1 : Low(j) + (m - 1 - e) \in input}
    BY DEF LastDigits, Low
  <1>5. Shift(LastDigits(j, m), Slack(j)) = {e + Slack(j) : e \in LastDigits(j, m)}
    BY DEF Shift
  <1> HIDE DEF j, m
  <1>6. ASSUME NEW b \in input, Low(j) <= b /\ b < Top(j) + 1
        PROVE  \E e \in LastDigits(j, m) : Slack(j) + (Top(j) - b) = e + Slack(j)
    <2> DEFINE e == Top(j) - b
    <2>1. b \in Nat
      BY <1>2
    <2>2. e \in 0 .. m - 1 /\ Low(j) + (m - 1 - e) = b /\ Slack(j) + (Top(j) - b) = e + Slack(j)
      BY <1>2, <1>6, <2>1
    <2>3. QED
      BY <1>4, <2>2
  <1>7. ASSUME NEW e \in LastDigits(j, m)
        PROVE  \E b \in input : Low(j) <= b /\ b < Top(j) + 1 /\ e + Slack(j) = Slack(j) + (Top(j) - b)
    <2> DEFINE b == Low(j) + (m - 1 - e)
    <2>1. e \in 0 .. m - 1 /\ b \in input
      BY <1>4
    <2>2. Low(j) <= b /\ b < Top(j) + 1 /\ e + Slack(j) = Slack(j) + (Top(j) - b)
      BY <1>2, <2>1
    <2>3. QED
      BY <2>1, <2>2
  <1>8. SegValue(j) = Shift(LastDigits(j, m), Slack(j))
    BY <1>3, <1>5, <1>6, <1>7
  <1>9. QED
    BY <1>2, <1>8 DEF j, m

\* Every bit of the input is in exactly one coefficient, at the place of its
\* position in its segment; the bits of a short last segment keep their order.
THEOREM SegmentsCovered == Spec => []SegmentsCoverInput
  <1>1. LayoutInv => SegmentsCoverInput
    <2>1. SUFFICES ASSUME LayoutInv, pc = "idle"
          PROVE  /\ \A j \in 0 .. r - 2 : coeffs[j] = Digits(j)
                 /\ \E s \in 0 .. CharBits :
                      coeffs[r - 1] = Shift(LastDigits(r - 1, n - (r - 1) * l), s)
      BY DEF SegmentsCoverInput
    <2>2. n \in Ns /\ l \in Ls /\ input \subseteq 0 .. n - 1
      BY <2>1 DEF LayoutInv, PlacesTyped
    <2>3. seg = r /\ r \in Nat \ {0} /\ \A j \in 0 .. r - 1 : coeffs[j] = SegValue(j)
      <3>1. seg = r /\ \A j \in 0 .. seg - 1 : coeffs[j] = SegValue(j)
        BY <2>1 DEF LayoutInv, CoeffsCut
      <3>2. QED
        BY <2>2, <3>1, Sizes
    <2>4. ASSUME NEW j \in 0 .. r - 2 PROVE coeffs[j] = Digits(j)
      <3>1. j \in 0 .. r - 1 /\ j < r - 1
        BY <2>3, <2>4
      <3>2. QED
        BY <2>2, <2>3, <3>1, FullSegment
    <2>5. coeffs[r - 1] = SegValue(r - 1)
      BY <2>3
    <2>6. QED
      BY <2>2, <2>4, <2>5, LastSegment
  <1>2. QED
    BY <1>1, LayoutInvariance, PTL

-----------------------------------------------------------------------------
(* The invariant of a call *)

\* The larger length, as BN_GF2m_add takes it.
LEMMA LargerOfTwo ==
  ASSUME NEW j \in Nat, NEW k \in Nat
  PROVE  Max({j, k}) \in Nat /\ j <= Max({j, k}) /\ k <= Max({j, k})
  <1> DEFINE y == {j, k}
  <1>1. IsFiniteSet(y)
    <2>1. IsFiniteSet({j}) /\ IsFiniteSet({j} \cup {k}) /\ {j} \cup {k} = y
      BY FS_Singleton, FS_AddElement
    <2>2. QED
      BY <2>1
  <1>2. y \in SUBSET Nat /\ y # {} /\ j \in y /\ k \in y
    OBVIOUS
  <1> HIDE DEF y
  <1>3. Max(y) \in y /\ \A e \in y : e <= Max(y)
    BY <1>1, <1>2, Largest
  <1>4. QED
    BY <1>2, <1>3 DEF y

\* A number is below some power of two.
LEMMA NumberBelow ==
  ASSUME NEW x, IsNumber(x)
  PROVE  \E k \in Nat : x \in SUBSET (0 .. k)
  <1>1. CASE x = {}
    <2>1. 0 \in Nat /\ x \in SUBSET (0 .. 0)
      BY <1>1
    <2>2. QED
      BY <2>1
  <1>2. CASE x # {}
    <2>1. x \in SUBSET Nat /\ Max(x) \in x /\ \A e \in x : e <= Max(x)
      BY <1>2, Largest DEF IsNumber
    <2> DEFINE k == Max(x)
    <2> HIDE DEF k
    <2>2. k \in Nat /\ \A e \in x : e \in Nat /\ e <= k
      BY <2>1 DEF k
    <2>3. x \in SUBSET (0 .. k)
      BY <2>2
    <2>4. QED
      BY <2>2, <2>3
  <1>3. QED
    BY <1>1, <1>2

\* A product of numbers is a number.
LEMMA TimesNumber ==
  ASSUME NEW x, NEW y, IsNumber(x), IsNumber(y)
  PROVE  IsNumber(Times(x, y))
  <1>1. PICK j \in Nat : x \in SUBSET (0 .. j)
    BY NumberBelow
  <1>2. PICK k \in Nat : y \in SUBSET (0 .. k)
    BY NumberBelow
  <1>3. \A d \in x, f \in y : d + f \in 0 .. (j + k + 1) - 1
    <2>1. ASSUME NEW d \in x, NEW f \in y PROVE d + f \in 0 .. (j + k + 1) - 1
      <3>1. d \in 0 .. j /\ f \in 0 .. k
        BY <1>1, <1>2
      <3>2. QED
        BY <3>1
    <2>2. QED
      BY <2>1
  <1>4. Times(x, y) \subseteq {d + f : d \in x, f \in y}
    BY DEF Times
  <1>5. Times(x, y) \in SUBSET (0 .. (j + k + 1) - 1)
    BY <1>3, <1>4
  <1>6. QED
    <2> DEFINE c == j + k + 1
    <2>1. c \in Nat
      OBVIOUS
    <2> HIDE DEF c
    <2>2. Times(x, y) \in SUBSET (0 .. c - 1)
      BY <1>5 DEF c
    <2>3. QED
      BY <2>1, <2>2, BoundedNumber

\* The point at which the polynomial is evaluated is a number.
LEMMA PointNumber ==
  ASSUME l \in Ls, NEW half \in SUBSET (0 .. l - 1)
  PROVE  IsNumber(Point(half))
  <1> DEFINE K == l \div CharBits
             e == l % CharBits
             m == CharBits * K
  <1>1. l \in Nat \ {0} /\ CharBits \in Nat \ {0}
    BY ParamsAssumption
  <1>2. K \in Nat /\ e \in 0 .. CharBits - 1 /\ l = m + e
    BY <1>1, Divides
  <1>3. m \in Nat
    <2> HIDE DEF K
    <2>1. QED
      BY <1>1, <1>2
  <1>4. CharsPerHalf = K + 1
    <2> HIDE DEF K, e
    <2>1. CharBits * (K + 1) = m + CharBits
      BY <1>1, <1>2
    <2> HIDE DEF m
    <2>2. l + (CharBits - e) = CharBits * (K + 1) + 0 /\ 0 \in 0 .. CharBits - 1
      BY <1>1, <1>2, <1>3, <2>1
    <2>3. (CharBits * (K + 1) + 0) \div CharBits = K + 1
      BY <1>1, <1>2, QuotientUnique
    <2>4. (l + (CharBits - e)) \div CharBits = K + 1
      BY <2>2, <2>3
    <2>5. QED
      BY <2>4 DEF CharsPerHalf, e
  <1>5. ASSUME NEW c \in half
        PROVE  CharBits * (CharsPerHalf - 1 - (c \div CharBits)) + (c % CharBits) \in 0 .. (m + CharBits) - 1
    <2> DEFINE q == c \div CharBits
               f == c % CharBits
    <2>1. c \in Nat /\ c <= l
      BY <1>1
    <2>2. q \in Nat /\ f \in 0 .. CharBits - 1 /\ q <= K
      BY <1>1, <2>1, Divides, QuotientMonotone
    <2> HIDE DEF q, f, K
    <2>3. CharsPerHalf - 1 - q = K - q /\ K - q \in Nat
      BY <1>2, <1>4, <2>2
    <2>4. CharBits * (K - q) = m - CharBits * q /\ CharBits * q \in Nat /\ CharBits * (K - q) \in Nat
      BY <1>1, <1>2, <2>2, <2>3
    <2> HIDE DEF m
    <2>5. CharBits * (K - q) + f \in 0 .. (m + CharBits) - 1
      BY <1>1, <1>3, <2>2, <2>4
    <2>6. QED
      BY <2>3, <2>5 DEF q, f
  <1>6. Point(half) \in SUBSET (0 .. (m + CharBits) - 1)
    <2>1. Point(half) = {CharBits * (CharsPerHalf - 1 - p[1]) + p[2] : p \in {<<c \div CharBits, c % CharBits>> : c \in half}}
      BY DEF Point, BinToNumber
    <2> DEFINE V(c) == CharBits * (CharsPerHalf - 1 - (c \div CharBits)) + (c % CharBits)
               W(p) == CharBits * (CharsPerHalf - 1 - p[1]) + p[2]
               C(c) == <<c \div CharBits, c % CharBits>>
    <2>2. Point(half) = {V(c) : c \in half}
      <3>1. \A c : W(C(c)) = V(c)
        OBVIOUS
      <3>2. Point(half) = {W(p) : p \in {C(c) : c \in half}}
        BY <2>1
      <3> HIDE DEF V, W, C
      <3>3. QED
        BY <3>1, <3>2
    <2>3. \A c \in half : V(c) \in 0 .. (m + CharBits) - 1
      BY <1>5
    <2> HIDE DEF V, m
    <2>4. QED
      BY <2>2, <2>3
  <1>7. QED
    <2>1. m + CharBits \in Nat
      BY <1>1, <1>3
    <2> HIDE DEF m
    <2>2. QED
      BY <1>6, <2>1, BoundedNumber

FieldWords == CeilDiv(l, WordBits)

\* A coefficient has no more bits than the words of the field.
LEMMA CoeffInFieldWords ==
  ASSUME n \in Ns, l \in Ls
  PROVE  /\ FieldWords \in Nat /\ l <= FieldWords * WordBits
         /\ CharBits * ElemsPerCoeff <= FieldWords * WordBits
  <1> DEFINE E == ElemsPerCoeff
             F == FieldWords
             m == WordBits \div CharBits
  <1>1. /\ l \in Nat \ {0} /\ WordBits \in Nat \ {0} /\ CharBits \in Nat \ {0}
        /\ WordBits % CharBits = 0
    BY ParamsAssumption
  <1>2. F \in Nat /\ l <= WordBits * F /\ WordBits * F \in Nat
    BY <1>1, CeilDivIs DEF FieldWords
  <1>3. E \in Nat /\ CharBits * E <= l - 1 + CharBits /\ CharBits * E \in Nat
    BY <1>1, CeilDivIs DEF ElemsPerCoeff
  <1>4. m \in Nat /\ WordBits = CharBits * m
    <2> DEFINE e == WordBits % CharBits
    <2>1. m \in Nat /\ WordBits = CharBits * m + e /\ e = 0
      BY <1>1, Divides
    <2> HIDE DEF m, e
    <2>2. QED
      BY <1>1, <2>1
  <1> HIDE DEF E, F, m
  <1>5. WordBits * F = CharBits * (m * F) /\ F * WordBits = WordBits * F /\ m * F \in Nat
    BY <1>1, <1>2, <1>4
  <1>6. ~(E >= m * F + 1)
    <2>1. SUFFICES ASSUME E >= m * F + 1 PROVE FALSE
      OBVIOUS
    <2> DEFINE k == m * F
    <2>2. k \in Nat /\ E >= k + 1
      BY <1>5, <2>1
    <2> HIDE DEF k
    <2>3. CharBits * E >= CharBits * (k + 1) /\ CharBits * (k + 1) = CharBits * k + CharBits /\ CharBits * k \in Nat
      BY <1>1, <1>3, <2>2
    <2>4. CharBits * k = WordBits * F
      BY <1>5 DEF k
    <2>5. QED
      BY <1>1, <1>2, <1>3, <2>3, <2>4
  <1>7. CharBits * E <= CharBits * (m * F)
    <2> DEFINE k == m * F
    <2>1. k \in Nat /\ E <= k
      BY <1>3, <1>5, <1>6
    <2> HIDE DEF k
    <2>2. CharBits * E <= CharBits * k
      BY <1>1, <1>3, <2>1
    <2>3. QED
      BY <2>2 DEF k
  <1>8. QED
    BY <1>2, <1>5, <1>7 DEF E, F

CallInv ==
  /\ subA \subseteq 0 .. l - 1 /\ subB \subseteq 0 .. l - 1
  /\ turn \in 0 .. r /\ dmax \in Nat /\ bit \in BOOLEAN
  /\ pc = "horner" => turn < r
  /\ IsNumber(held) /\ res \subseteq held
  /\ \A e \in held : e < dmax * WordBits /\ e < FieldWords * WordBits
  /\ pc \in {"parity", "done"} /\ Words(coeffs[0]) = FieldWords => held = res
  /\ pc = "done" => bit = Parity(held \cap subB)

\* No extraction has been called.
LEMMA InitCall == Init => CallInv
  <1>1. SUFFICES ASSUME Init PROVE CallInv
    OBVIOUS
  <1>2. /\ pc = "segment" /\ subA = {} /\ subB = {} /\ turn = 0 /\ res = {} /\ held = {}
        /\ dmax = 0 /\ bit = FALSE /\ n \in Ns /\ l \in Ls
    BY <1>1 DEF Init
  <1>3. r \in Nat \ {0} /\ IsNumber({})
    <2>1. IsFiniteSet({})
      BY FS_EmptySet
    <2>2. QED
      BY <1>2, <2>1, Sizes DEF IsNumber
  <1>4. turn \in 0 .. r /\ dmax \in Nat /\ bit \in BOOLEAN
    <2>1. turn = 0 /\ dmax = 0
      BY <1>2
    <2>2. turn \in 0 .. r /\ dmax \in Nat
      BY <1>3, <2>1
    <2>3. QED
      BY <1>2, <2>2
  <1>5. subA \subseteq 0 .. l - 1 /\ subB \subseteq 0 .. l - 1
    BY <1>2
  <1>6. pc # "horner" /\ pc \notin {"parity", "done"} /\ pc # "done"
    BY <1>2
  <1>7. IsNumber(held) /\ res \subseteq held /\ \A e \in held : e < dmax * WordBits /\ e < FieldWords * WordBits
    BY <1>2, <1>3
  <1>8. QED
    BY <1>4, <1>5, <1>6, <1>7 DEF CallInv

\* The cutting starts no call, and a step of a call that leaves rs_res too.
LEMMA ResultKept ==
  ASSUME CallInv, UNCHANGED <<n, l, subA, subB, turn, res, held, dmax, bit>>,
         pc \in {"segment", "copy"}, pc' \in {"segment", "copy", "idle"}
  PROVE  CallInv'
  <1>1. r' = r /\ FieldWords' = FieldWords
    BY DEF r, FieldWords, CeilDiv
  <1>2. pc' # "horner" /\ pc' \notin {"parity", "done"} /\ pc' # "done"
    OBVIOUS
  <1>3. QED
    BY <1>1, <1>2 DEF CallInv, IsNumber

\* One turn of Horner's rule: held keeps its old upper words only if the sum is short.
LEMMA HornerTurnCall == LayoutInv /\ CallInv /\ HornerTurn => CallInv'
  <1>1. SUFFICES ASSUME LayoutInv, CallInv, HornerTurn PROVE CallInv'
    OBVIOUS
  <1> DEFINE tmp == ModMul(res, Point(subA))
             C == Coeff(turn)
             top == Max({Words(tmp), Words(C)})
             F == FieldWords
  <1>2. /\ pc = "horner" /\ n \in Ns /\ l \in Ls /\ seg = r
        /\ turn \in 0 .. r /\ turn < r /\ dmax \in Nat /\ bit \in BOOLEAN
        /\ subA \subseteq 0 .. l - 1 /\ subB \subseteq 0 .. l - 1
        /\ IsNumber(held) /\ res \subseteq held
        /\ \A e \in held : e < dmax * WordBits /\ e < F * WordBits
    BY <1>1 DEF LayoutInv, PlacesTyped, CoeffsCut, CallInv, HornerTurn
  <1>3. /\ res' = Plus(tmp, C) /\ held' = res' \cup {e \in held : e >= top * WordBits}
        /\ dmax' = Max({dmax, top}) /\ turn' = turn + 1
        /\ pc' = IF turn' = r THEN "parity" ELSE "horner"
        /\ UNCHANGED <<n, l, input, coeffs, subA, subB, bit>>
    BY <1>1 DEF HornerTurn, segVars
  <1>4. /\ r \in Nat \ {0} /\ l \in Nat \ {0} /\ WordBits \in Nat \ {0} /\ F \in Nat
        /\ l <= F * WordBits /\ CharBits * ElemsPerCoeff <= F * WordBits
        /\ CharBits * ElemsPerCoeff \in Nat /\ F * WordBits \in Nat
    <2>1. F \in Nat /\ l <= F * WordBits /\ CharBits * ElemsPerCoeff <= F * WordBits
      BY <1>2, CoeffInFieldWords
    <2>2. r \in Nat \ {0} /\ l \in Nat \ {0} /\ WordBits \in Nat \ {0} /\ CharBits * ElemsPerCoeff \in Nat
      BY <1>2, Sizes
    <2> HIDE DEF F
    <2>3. F * WordBits \in Nat
      BY <2>1, <2>2
    <2>4. QED
      BY <2>1, <2>2, <2>3
  <1>5. IsNumber(tmp) /\ \A e \in tmp : e < F * WordBits
    <2>1. IsNumber(res)
      BY <1>2, FS_Subset DEF IsNumber
    <2>2. IsNumber(Times(res, Point(subA)))
      BY <1>2, <2>1, PointNumber, TimesNumber
    <2>3. tmp \in SUBSET (0 .. l - 1)
      BY <1>2, <2>2, ModBelow DEF ModMul
    <2> HIDE DEF tmp, F
    <2>4. IsNumber(tmp)
      BY <1>4, <2>3, BoundedNumber
    <2>5. \A e \in 0 .. l - 1 : e < F * WordBits
      BY <1>4
    <2>6. QED
      BY <2>3, <2>4, <2>5
  <1>6. IsNumber(C) /\ \A e \in C : e < F * WordBits
    <2>1. r - 1 - turn \in 0 .. r - 1 /\ r > 0
      BY <1>2, <1>4
    <2>2. coeffs \in [0 .. r - 1 -> SUBSET (0 .. CharBits * ElemsPerCoeff - 1)]
      BY <1>1, <1>2, <2>1 DEF LayoutInv, CoeffsCut
    <2>3. C \in SUBSET (0 .. CharBits * ElemsPerCoeff - 1)
      BY <2>1, <2>2 DEF Coeff
    <2> DEFINE k == CharBits * ElemsPerCoeff
    <2>4. k \in Nat /\ k <= F * WordBits
      BY <1>4
    <2>5. C \in SUBSET (0 .. k - 1)
      BY <2>3
    <2> HIDE DEF k, C, F
    <2>6. IsNumber(C)
      BY <2>4, <2>5, BoundedNumber
    <2>7. \A e \in 0 .. k - 1 : e < F * WordBits
      BY <1>4, <2>4
    <2>8. QED
      BY <2>5, <2>6, <2>7
  <1> HIDE DEF tmp, C, F
  <1>7. /\ Words(tmp) \in Nat /\ Words(C) \in Nat
        /\ (\A e \in tmp : e < Words(tmp) * WordBits) /\ (\A e \in C : e < Words(C) * WordBits)
    BY <1>5, <1>6, BitsInWords
  <1>8. top \in Nat /\ Words(tmp) <= top /\ Words(C) <= top
    BY <1>7, LargerOfTwo
  <1> HIDE DEF top
  <1>9. dmax' \in Nat /\ dmax <= dmax' /\ top <= dmax'
    BY <1>2, <1>3, <1>8, LargerOfTwo
  <1>10. IsNumber(res') /\ res' \subseteq tmp \cup C
    BY <1>3, <1>5, <1>6, PlusNumber
  <1>11. IsNumber(held')
    <2>1. IsFiniteSet({e \in held : e >= top * WordBits}) /\ held' \subseteq res' \cup held
      BY <1>2, <1>3, FS_Subset DEF IsNumber
    <2>2. IsFiniteSet(held')
      BY <1>3, <1>10, <2>1, FS_Union DEF IsNumber
    <2>3. QED
      BY <1>2, <1>10, <2>1, <2>2 DEF IsNumber
  <1>12. ASSUME NEW e \in held' PROVE e < dmax' * WordBits /\ e < F * WordBits
    <2>1. e \in Nat
      BY <1>11 DEF IsNumber
    <2>2. /\ top * WordBits <= dmax' * WordBits /\ Words(tmp) * WordBits <= top * WordBits
          /\ Words(C) * WordBits <= top * WordBits /\ dmax * WordBits <= dmax' * WordBits
          /\ top * WordBits \in Nat /\ dmax * WordBits \in Nat /\ dmax' * WordBits \in Nat
          /\ Words(tmp) * WordBits \in Nat /\ Words(C) * WordBits \in Nat
      <3>1. \A j, k \in Nat : j <= k => j * WordBits \in Nat /\ k * WordBits \in Nat /\ j * WordBits <= k * WordBits
        BY <1>4
      <3>2. QED
        BY <1>2, <1>7, <1>8, <1>9, <3>1
    <2>3. CASE e \in held
      <3>1. e < dmax * WordBits /\ e < F * WordBits
        BY <1>2, <2>3
      <3>2. QED
        BY <2>1, <2>2, <3>1
    <2>4. CASE e \in tmp
      <3>1. e < Words(tmp) * WordBits /\ e < F * WordBits
        BY <1>5, <1>7, <2>4
      <3>2. QED
        BY <2>1, <2>2, <3>1
    <2>5. CASE e \in C
      <3>1. e < Words(C) * WordBits /\ e < F * WordBits
        BY <1>6, <1>7, <2>5
      <3>2. QED
        BY <2>1, <2>2, <3>1
    <2>6. QED
      BY <1>3, <1>10, <2>3, <2>4, <2>5
  <1>13. r' = r /\ FieldWords' = F
    BY <1>3 DEF r, FieldWords, CeilDiv, F
  \* the turn that adds the first segment overwrites every word of the field
  <1>14. ASSUME pc' \in {"parity", "done"}, Words(coeffs[0]) = F PROVE held' = res'
    <2>1. turn + 1 = r
      BY <1>3, <1>14
    <2>2. r - 1 - turn = 0
      BY <1>2, <1>4, <2>1
    <2>3. C = coeffs[0]
      BY <2>2 DEF C, Coeff
    <2>4. F <= top /\ F * WordBits <= top * WordBits /\ top * WordBits \in Nat
      BY <1>4, <1>8, <1>14, <2>3
    <2>5. \A e \in held : e \in Nat /\ ~(e >= top * WordBits)
      <3>1. \A e \in held : e \in Nat /\ e < F * WordBits
        BY <1>2 DEF IsNumber
      <3>2. QED
        BY <1>4, <2>4, <3>1
    <2>6. QED
      BY <1>3, <2>5
  <1>15. turn' \in 0 .. r /\ (pc' = "horner" => turn' < r) /\ pc' # "done"
    BY <1>2, <1>3, <1>4
  <1>16. subA' \subseteq 0 .. l' - 1 /\ subB' \subseteq 0 .. l' - 1 /\ bit' \in BOOLEAN
    BY <1>2, <1>3
  <1>17. pc' \in {"parity", "done"} /\ Words(coeffs[0])' = FieldWords' => held' = res'
    <2>1. Words(coeffs[0])' = Words(coeffs[0])
      BY <1>3 DEF Words
    <2>2. QED
      BY <1>13, <1>14, <2>1
  <1>18. IsNumber(held)'
    BY <1>11 DEF IsNumber
  <1>19. QED
    BY <1>3, <1>9, <1>12, <1>13, <1>15, <1>16, <1>17, <1>18 DEF CallInv

\* Every step keeps what is known of the result.
LEMMA CallStep == LayoutInv /\ CallInv /\ [Next]_vars => CallInv'
  <1>1. SUFFICES ASSUME LayoutInv, CallInv, [Next]_vars PROVE CallInv'
    OBVIOUS
  <1>2. n \in Ns /\ l \in Ls /\ r \in Nat \ {0}
    <2>1. n \in Ns /\ l \in Ls
      BY <1>1 DEF LayoutInv, PlacesTyped
    <2>2. QED
      BY <2>1, Sizes
  <1>3. ASSUME UNCHANGED <<n, l>> PROVE r' = r /\ FieldWords' = FieldWords
    BY <1>3 DEF r, FieldWords, CeilDiv
  <1>4. CASE StartSegment
    <2>1. pc = "segment" /\ pc' = "copy" /\ UNCHANGED <<n, l, callVars>>
      BY <1>4 DEF StartSegment
    <2>2. QED
      BY <1>1, <2>1, ResultKept DEF callVars
  <1>5. CASE CopyBit
    <2>1. pc = "copy" /\ pc' = "copy" /\ UNCHANGED <<n, l, callVars>>
      BY <1>5 DEF CopyBit
    <2>2. QED
      BY <1>1, <2>1, ResultKept DEF callVars
  <1>6. CASE EndSegment
    <2>1. pc = "copy" /\ pc' \in {"segment", "idle"} /\ UNCHANGED <<n, l, callVars>>
      BY <1>6 DEF EndSegment
    <2>2. QED
      BY <1>1, <2>1, ResultKept DEF callVars
  <1>7. CASE Extract
    <2>1. /\ pc' = "horner" /\ UNCHANGED <<n, l>>
          /\ subA' \subseteq 0 .. l - 1 /\ subB' \subseteq 0 .. l - 1
          /\ turn' = 0 /\ res' = {} /\ held' = {} /\ dmax' = 1 /\ bit' = FALSE
      BY <1>7 DEF Extract
    <2>2. IsNumber(held)'
      BY <2>1, FS_EmptySet DEF IsNumber
    <2>3. turn' \in 0 .. r /\ turn' < r /\ dmax' \in Nat /\ bit' \in BOOLEAN
      <3>1. turn' = 0 /\ dmax' = 1
        BY <2>1
      <3>2. turn' \in 0 .. r /\ turn' < r /\ dmax' \in Nat
        BY <1>2, <3>1
      <3>3. QED
        BY <2>1, <3>2
    <2>4. subA' \subseteq 0 .. l' - 1 /\ subB' \subseteq 0 .. l' - 1
      BY <2>1
    <2>5. pc' \notin {"parity", "done"} /\ pc' # "done"
      BY <2>1
    <2>6. (\A e \in held : e < dmax * WordBits /\ e < FieldWords * WordBits)' /\ res' \subseteq held'
      BY <2>1
    <2>7. QED
      BY <1>3, <2>1, <2>2, <2>3, <2>4, <2>5, <2>6 DEF CallInv
  <1>8. CASE HornerTurn
    BY <1>1, <1>8, HornerTurnCall
  <1>9. CASE Hadamard
    <2>1. /\ pc = "parity" /\ pc' = "done" /\ bit' = Parity({e \in held : e < dmax * WordBits} \cap subB)
          /\ UNCHANGED <<n, l, coeffs, subA, subB, turn, res, held, dmax>>
      BY <1>9 DEF Hadamard, segVars
    <2>2. {e \in held : e < dmax * WordBits} = held
      BY <1>1 DEF CallInv
    <2>3. bit' = Parity(held \cap subB) /\ bit' \in BOOLEAN
      BY <2>1, <2>2 DEF Parity
    <2>4. Words(coeffs[0])' = Words(coeffs[0]) /\ IsNumber(held)' = IsNumber(held)
          /\ Parity(held \cap subB)' = Parity(held \cap subB)
      BY <2>1 DEF Words, IsNumber, Parity
    <2>5. QED
      BY <1>1, <1>3, <2>1, <2>3, <2>4 DEF CallInv
  <1>10. CASE Return
    <2>1. /\ pc' = "idle" /\ UNCHANGED <<n, l>>
          /\ subA' = {} /\ subB' = {} /\ turn' = 0 /\ res' = {} /\ held' = {} /\ dmax' = 0 /\ bit' = FALSE
      BY <1>10 DEF Return
    <2>2. IsNumber(held)'
      BY <2>1, FS_EmptySet DEF IsNumber
    <2>3. turn' \in 0 .. r /\ turn' < r /\ dmax' \in Nat /\ bit' \in BOOLEAN
      <3>1. turn' = 0 /\ dmax' = 0
        BY <2>1
      <3>2. turn' \in 0 .. r /\ turn' < r /\ dmax' \in Nat
        BY <1>2, <3>1
      <3>3. QED
        BY <2>1, <3>2
    <2>4. subA' \subseteq 0 .. l' - 1 /\ subB' \subseteq 0 .. l' - 1
      BY <2>1
    <2>5. pc' \notin {"parity", "done"} /\ pc' # "done"
      BY <2>1
    <2>6. (\A e \in held : e < dmax * WordBits /\ e < FieldWords * WordBits)' /\ res' \subseteq held'
      BY <2>1
    <2>7. QED
      BY <1>3, <2>1, <2>2, <2>3, <2>4, <2>5, <2>6 DEF CallInv
  <1>11. CASE UNCHANGED vars
    <2>1. UNCHANGED <<pc, n, l, coeffs, subA, subB, turn, res, held, dmax, bit>>
      BY <1>11 DEF vars, segVars, callVars
    <2>2. Words(coeffs[0])' = Words(coeffs[0]) /\ IsNumber(held)' = IsNumber(held)
          /\ Parity(held \cap subB)' = Parity(held \cap subB)
      BY <2>1 DEF Words, IsNumber, Parity
    <2>3. QED
      BY <1>1, <1>3, <2>1, <2>2 DEF CallInv
  <1>12. QED
    BY <1>1, <1>4, <1>5, <1>6, <1>7, <1>8, <1>9, <1>10, <1>11 DEF Next

\* The inductive invariant: the coefficients are cut right, and held is res while the first one is full.
THEOREM Invariance == Spec => [](LayoutInv /\ CallInv)
  <1>1. QED
    BY InitLayout, InitCall, LayoutStep, CallStep, PTL DEF Spec

-----------------------------------------------------------------------------
(* The properties *)

\* No bit is written past the bytes of vec, and no word past the words of the
\* input is fetched.
THEOREM TypeCorrect == Spec => []TypeOK
  <1>1. LayoutInv /\ CallInv => TypeOK
    <2>1. SUFFICES ASSUME LayoutInv, CallInv PROVE TypeOK
      OBVIOUS
    <2>2. Words(held) <= dmax
      <3>1. IsNumber(held) /\ dmax \in Nat /\ \A e \in held : e < dmax * WordBits
        BY <2>1 DEF CallInv
      <3>2. QED
        BY <3>1, BitsInWords
    <2>3. QED
      BY <2>1, <2>2 DEF LayoutInv, PlacesTyped, CoeffsCut, CallInv, TypeOK
  <1>2. QED
    BY <1>1, Invariance, PTL

\* The bit is the parity of the value and the second half of the sub-seed,
\* whenever the first segment has as many words as the field.
THEOREM InnerProduct == Spec => []InnerProductIfFull
  <1>1. CallInv => InnerProductIfFull
    <2>1. SUFFICES ASSUME CallInv, pc = "done", Words(coeffs[0]) = CeilDiv(l, WordBits) PROVE IsInnerProduct
      BY DEF InnerProductIfFull
    <2>2. held = res /\ bit = Parity(held \cap subB)
      BY <2>1 DEF CallInv, FieldWords
    <2>3. QED
      BY <2>2 DEF IsInnerProduct, Parity
  <1>2. QED
    BY <1>1, Invariance, PTL

-----------------------------------------------------------------------------
(* Polynomials over GF(2): the sum is the symmetric difference, and a product *)
(* has an exponent if an odd number of pairs gives it.                        *)

\* The sum forms a group in which everything is its own inverse.
LEMMA PlusGroup ==
  ASSUME NEW x, NEW y, NEW z
  PROVE  /\ Plus(x, y) = Plus(y, x) /\ Plus(Plus(x, y), z) = Plus(x, Plus(y, z))
         /\ Plus(x, x) = {} /\ Plus(x, {}) = x
         /\ (Plus(x, y) = {} => x = y)
  BY DEF Plus

\* One more element changes the parity, a bijection does not.
Odd(x) == Cardinality(x) % 2 = 1
LEMMA OddSteps ==
  ASSUME NEW x, IsFiniteSet(x), NEW e, e \notin x
  PROVE  ~Odd({}) /\ IsFiniteSet(x \cup {e}) /\ (Odd(x \cup {e}) <=> ~Odd(x))
  <1> DEFINE k == Cardinality(x)
  <1>1. k \in Nat /\ IsFiniteSet(x \cup {e}) /\ Cardinality(x \cup {e}) = k + 1
    BY FS_CardinalityType, FS_AddElement
  <1> HIDE DEF k
  <1>2. k + 1 \in Nat /\ ((k + 1) % 2 = 1 <=> ~(k % 2 = 1))
    BY <1>1
  <1>3. Cardinality({}) = 0
    BY FS_EmptySet
  <1>4. QED
    BY <1>1, <1>2, <1>3 DEF Odd, k

\* Induction over the exponents of a number.
LEMMA NumberInduct ==
  ASSUME NEW Q, {} \in Q,
         \A y \in SUBSET Nat, f \in Nat : IsNumber(y) /\ y \in Q /\ f \notin y => y \cup {f} \in Q,
         NEW x, IsNumber(x)
  PROVE  x \in Q
  <1> DEFINE F == {y \in SUBSET x : y \notin Q}
  <1>1. SUFFICES ASSUME F # {} PROVE FALSE
    OBVIOUS
  <1>2. F \subseteq FiniteSubsetsOf(x)
    <2>1. \A y \in SUBSET x : IsFiniteSet(y)
      BY FS_Subset DEF IsNumber
    <2>2. QED
      BY <2>1 DEF FiniteSubsetsOf
  <1>3. IsFiniteSet(x)
    BY DEF IsNumber
  <1>4. PICK y \in F : \A z \in F : ~(<<z, y>> \in StrictSubsetOrdering(x))
    <2> HIDE DEF F
    <2>1. QED
      BY <1>1, <1>2, <1>3, FS_StrictSubsetOrderingWellFounded, WFMin
  <1>5. PICK f \in y : TRUE
    OBVIOUS
  <1> DEFINE z == y \ {f}
  <1>6. z \in SUBSET x /\ z \subseteq y /\ z # y /\ f \notin z /\ f \in Nat /\ z \cup {f} = y /\ z \in SUBSET Nat
    BY <1>5 DEF IsNumber
  <1>7. <<z, y>> \in StrictSubsetOrdering(x)
    BY <1>6 DEF StrictSubsetOrdering
  <1>8. z \in Q
    BY <1>4, <1>6, <1>7
  <1>9. IsNumber(z)
    BY <1>3, <1>6, FS_Subset DEF IsNumber
  <1>10. z \cup {f} \in Q
    BY <1>6, <1>8, <1>9
  <1>11. QED
    BY <1>4, <1>6, <1>10

\* The exponents of a shifted number.
LEMMA ShiftMember ==
  ASSUME NEW x, IsNumber(x), NEW f \in Nat
  PROVE  IsNumber(Shift(x, f)) /\ \A e \in Nat : e \in Shift(x, f) <=> e - f \in x
  <1>1. PICK j \in Nat : x \in SUBSET (0 .. j)
    BY NumberBelow
  <1>2. Shift(x, f) \in SUBSET (0 .. (j + f + 1) - 1)
    BY <1>1 DEF Shift
  <1>3. IsNumber(Shift(x, f))
    <2> DEFINE c == j + f + 1
    <2>1. c \in Nat
      OBVIOUS
    <2> HIDE DEF c
    <2>2. Shift(x, f) \in SUBSET (0 .. c - 1)
      BY <1>2 DEF c
    <2>3. QED
      BY <2>1, <2>2, BoundedNumber
  <1>4. ASSUME NEW e \in Nat PROVE e \in Shift(x, f) <=> e - f \in x
    <2>1. ASSUME e \in Shift(x, f) PROVE e - f \in x
      <3>1. PICK d \in x : e = d + f
        BY <2>1 DEF Shift
      <3>2. d \in Nat
        BY <1>1
      <3>3. e - f = d
        BY <3>1, <3>2
      <3>4. QED
        BY <3>1, <3>3
    <2>2. ASSUME e - f \in x PROVE e \in Shift(x, f)
      <3>1. e = (e - f) + f
        OBVIOUS
      <3>2. QED
        BY <2>2, <3>1 DEF Shift
    <2>3. QED
      BY <2>1, <2>2
  <1>5. QED
    BY <1>3, <1>4

\* The exponents of a product, and the pairs that give one.
Pairs(x, y, e) == {f \in y : e - f \in x}
LEMMA TimesMember ==
  ASSUME NEW x, NEW y, IsNumber(x), IsNumber(y), NEW e \in Nat
  PROVE  IsFiniteSet(Pairs(x, y, e)) /\ (e \in Times(x, y) <=> Odd(Pairs(x, y, e)))
  <1> DEFINE S == Pairs(x, y, e)
  <1>1. IsFiniteSet(S)
    BY FS_Subset DEF Pairs, IsNumber
  <1>2. e \in Times(x, y) => Odd(S)
    BY DEF Times, Odd, Pairs
  <1>3. ASSUME Odd(S) PROVE e \in Times(x, y)
    <2>1. S # {}
      BY <1>3, FS_EmptySet DEF Odd
    <2>2. PICK f \in S : TRUE
      BY <2>1
    <2>3. f \in y /\ e - f \in x /\ f \in Nat
      BY <2>2 DEF Pairs, IsNumber
    <2>4. e = (e - f) + f
      BY <2>3
    <2>5. e \in {d + g : d \in x, g \in y}
      BY <2>3, <2>4
    <2>6. QED
      BY <1>3, <2>5 DEF Times, Odd, Pairs
  <1>4. QED
    BY <1>1, <1>2, <1>3

\* A product by nothing, and by one more exponent.
LEMMA TimesSteps ==
  ASSUME NEW x, NEW y, IsNumber(x), IsNumber(y), NEW f \in Nat, f \notin y
  PROVE  Times(x, {}) = {} /\ Times(x, y \cup {f}) = Plus(Times(x, y), Shift(x, f))
  <1> DEFINE z == y \cup {f}
  <1>1. Times(x, {}) = {}
    BY DEF Times
  <1>2. IsNumber(z)
    BY FS_AddElement DEF IsNumber
  <1>3. ASSUME NEW e \in Nat PROVE e \in Times(x, z) <=> e \in Plus(Times(x, y), Shift(x, f))
    <2> DEFINE S == Pairs(x, y, e)
               T == Pairs(x, z, e)
    <2>1. IsFiniteSet(S) /\ (e \in Times(x, y) <=> Odd(S))
      BY TimesMember
    <2>2. e \in Times(x, z) <=> Odd(T)
      <3> HIDE DEF z
      <3>1. QED
        BY <1>2, TimesMember
    <2>3. e \in Shift(x, f) <=> e - f \in x
      BY ShiftMember
    <2>4. f \notin S
      BY DEF Pairs
    <2>5. CASE e - f \in x
      <3>1. T = S \cup {f}
        BY <2>5 DEF Pairs
      <3>2. Odd(S \cup {f}) <=> ~Odd(S)
        <4> HIDE DEF S
        <4>1. QED
          BY <2>1, <2>4, OddSteps
      <3>3. QED
        BY <2>1, <2>2, <2>3, <2>5, <3>1, <3>2 DEF Plus
    <2>6. CASE e - f \notin x
      <3>1. T = S
        BY <2>6 DEF Pairs
      <3>2. QED
        BY <2>1, <2>2, <2>3, <2>6, <3>1 DEF Plus
    <2>7. QED
      BY <2>5, <2>6
  <1>4. Times(x, z) \in SUBSET Nat
    BY <1>2, TimesNumber DEF IsNumber
  <1>5. Plus(Times(x, y), Shift(x, f)) \in SUBSET Nat
    <2>1. IsNumber(Times(x, y))
      BY TimesNumber
    <2>2. IsNumber(Shift(x, f))
      BY ShiftMember
    <2>3. IsNumber(Plus(Times(x, y), Shift(x, f)))
      BY <2>1, <2>2, PlusNumber
    <2>4. QED
      BY <2>3 DEF IsNumber
  <1>6. QED
    BY <1>1, <1>3, <1>4, <1>5

\* Sums and further shifts of shifted numbers.
LEMMA ShiftSteps ==
  ASSUME NEW x, NEW y, IsNumber(x), IsNumber(y), NEW f \in Nat, NEW g \in Nat
  PROVE  /\ Shift(Plus(x, y), f) = Plus(Shift(x, f), Shift(y, f))
         /\ Shift(Shift(x, f), g) = Shift(Shift(x, g), f)
         /\ Shift({}, f) = {} /\ Shift(x, 0) = x
  <1>1. Shift({}, f) = {}
    BY DEF Shift
  <1>2. Shift(x, 0) = x
    <2>1. \A e \in x : e \in Nat /\ e + 0 = e
      BY DEF IsNumber
    <2>2. QED
      BY <2>1 DEF Shift
  <1>3. IsNumber(Plus(x, y))
    BY PlusNumber
  <1>4. Shift(Plus(x, y), f) = Plus(Shift(x, f), Shift(y, f))
    <2>1. \A e \in Nat : e \in Shift(Plus(x, y), f) <=> e \in Plus(Shift(x, f), Shift(y, f))
      <3>1. \A e \in Nat : e \in Shift(Plus(x, y), f) <=> e - f \in Plus(x, y)
        BY <1>3, ShiftMember
      <3>2. \A e \in Nat : (e \in Shift(x, f) <=> e - f \in x) /\ (e \in Shift(y, f) <=> e - f \in y)
        BY ShiftMember
      <3>3. QED
        BY <3>1, <3>2 DEF Plus
    <2>2. Shift(Plus(x, y), f) \in SUBSET Nat
      BY <1>3, ShiftMember DEF IsNumber
    <2>3. Plus(Shift(x, f), Shift(y, f)) \in SUBSET Nat
      <3>1. IsNumber(Shift(x, f)) /\ IsNumber(Shift(y, f))
        BY ShiftMember
      <3>2. IsNumber(Plus(Shift(x, f), Shift(y, f)))
        BY <3>1, PlusNumber
      <3>3. QED
        BY <3>2 DEF IsNumber
    <2>4. QED
      BY <2>1, <2>2, <2>3
  <1>5. Shift(Shift(x, f), g) = Shift(Shift(x, g), f)
    <2>1. \A d \in x : (d + f) + g = (d + g) + f
      BY DEF IsNumber
    <2>2. Shift(Shift(x, f), g) = {(d + f) + g : d \in x}
      BY DEF Shift
    <2>3. Shift(Shift(x, g), f) = {(d + g) + f : d \in x}
      BY DEF Shift
    <2>4. QED
      BY <2>1, <2>2, <2>3
  <1>6. QED
    BY <1>1, <1>2, <1>4, <1>5

\* One more exponent is a sum, and the smallest numbers are numbers.
LEMMA OneMore ==
  ASSUME NEW x, IsNumber(x), NEW f \in Nat, f \notin x
  PROVE  /\ x \cup {f} = Plus(x, {f}) /\ IsNumber(x \cup {f})
         /\ IsNumber({f}) /\ IsNumber({})
  <1>1. x \cup {f} = Plus(x, {f})
    BY DEF Plus
  <1>2. IsFiniteSet(x \cup {f}) /\ IsFiniteSet({f}) /\ IsFiniteSet({})
    BY FS_AddElement, FS_Singleton, FS_EmptySet DEF IsNumber
  <1>3. QED
    BY <1>1, <1>2 DEF IsNumber

\* The product distributes over a sum on its left.
LEMMA TimesLeftSum ==
  ASSUME NEW x, NEW y, IsNumber(x), IsNumber(y), NEW z, IsNumber(z)
  PROVE  Times(Plus(x, y), z) = Plus(Times(x, z), Times(y, z))
  <1> DEFINE Q == {w \in SUBSET Nat : Times(Plus(x, y), w) = Plus(Times(x, w), Times(y, w))}
  <1>1. IsNumber(Plus(x, y))
    BY PlusNumber
  <1>2. {} \in Q
    BY DEF Times, Plus
  <1>3. ASSUME NEW w \in SUBSET Nat, NEW f \in Nat, IsNumber(w), w \in Q, f \notin w
        PROVE  w \cup {f} \in Q
    <2>1. Times(x, w \cup {f}) = Plus(Times(x, w), Shift(x, f))
      BY <1>3, TimesSteps
    <2>2. Times(y, w \cup {f}) = Plus(Times(y, w), Shift(y, f))
      BY <1>3, TimesSteps
    <2>3. Times(Plus(x, y), w \cup {f}) = Plus(Times(Plus(x, y), w), Shift(Plus(x, y), f))
      BY <1>1, <1>3, TimesSteps
    <2>4. Shift(Plus(x, y), f) = Plus(Shift(x, f), Shift(y, f))
      BY <1>3, ShiftSteps
    <2>5. Times(Plus(x, y), w) = Plus(Times(x, w), Times(y, w))
      BY <1>3
    <2>6. Times(Plus(x, y), w \cup {f}) = Plus(Times(x, w \cup {f}), Times(y, w \cup {f}))
      BY <2>1, <2>2, <2>3, <2>4, <2>5 DEF Plus
    <2>7. QED
      BY <2>6
  <1> HIDE DEF Q
  <1>4. z \in Q
    BY <1>2, <1>3, NumberInduct
  <1>5. QED
    BY <1>4 DEF Q

\* Times a power of the variable is a shift.
LEMMA TimesPower ==
  ASSUME NEW x, IsNumber(x), NEW f \in Nat
  PROVE  Times({f}, x) = Shift(x, f)
  <1> DEFINE Q == {w \in SUBSET Nat : Times({f}, w) = Shift(w, f)}
  <1>1. IsNumber({f})
    BY FS_Singleton DEF IsNumber
  <1>2. {} \in Q
    BY DEF Times, Shift
  <1>3. ASSUME NEW w \in SUBSET Nat, NEW g \in Nat, IsNumber(w), w \in Q, g \notin w
        PROVE  w \cup {g} \in Q
    <2>1. Times({f}, w \cup {g}) = Plus(Times({f}, w), Shift({f}, g))
      BY <1>1, <1>3, TimesSteps
    <2>2. w \cup {g} = Plus(w, {g}) /\ IsNumber({g})
      BY <1>3, OneMore
    <2>3. Shift(Plus(w, {g}), f) = Plus(Shift(w, f), Shift({g}, f))
      BY <1>3, <2>2, ShiftSteps
    <2>4. Shift({f}, g) = Shift({g}, f)
      <3>1. f + g = g + f
        OBVIOUS
      <3>2. QED
        BY <3>1 DEF Shift
    <2>5. Times({f}, w) = Shift(w, f)
      BY <1>3
    <2>6. Times({f}, w \cup {g}) = Shift(w \cup {g}, f)
      BY <2>1, <2>2, <2>3, <2>4, <2>5
    <2>7. QED
      BY <2>6
  <1> HIDE DEF Q
  <1>4. x \in Q
    BY <1>2, <1>3, NumberInduct
  <1>5. QED
    BY <1>4 DEF Q

\* The order of two factors does not matter.
LEMMA TimesCommutes ==
  ASSUME NEW x, NEW y, IsNumber(x), IsNumber(y)
  PROVE  Times(x, y) = Times(y, x)
  <1> DEFINE Q == {w \in SUBSET Nat : Times(w, y) = Times(y, w)}
  <1>1. {} \in Q
    BY DEF Times
  <1>2. ASSUME NEW w \in SUBSET Nat, NEW f \in Nat, IsNumber(w), w \in Q, f \notin w
        PROVE  w \cup {f} \in Q
    <2>1. w \cup {f} = Plus(w, {f}) /\ IsNumber({f})
      BY <1>2, OneMore
    <2>2. Times(Plus(w, {f}), y) = Plus(Times(w, y), Times({f}, y))
      BY <1>2, <2>1, TimesLeftSum
    <2>3. Times({f}, y) = Shift(y, f)
      BY TimesPower
    <2>4. Times(y, w \cup {f}) = Plus(Times(y, w), Shift(y, f))
      BY <1>2, TimesSteps
    <2>5. Times(w, y) = Times(y, w)
      BY <1>2
    <2>6. Times(w \cup {f}, y) = Times(y, w \cup {f})
      BY <2>1, <2>2, <2>3, <2>4, <2>5
    <2>7. QED
      BY <2>6
  <1> HIDE DEF Q
  <1>3. x \in Q
    BY <1>1, <1>2, NumberInduct
  <1>4. QED
    BY <1>3 DEF Q

\* The product distributes over a sum on its right.
LEMMA TimesRightSum ==
  ASSUME NEW x, NEW y, NEW z, IsNumber(x), IsNumber(y), IsNumber(z)
  PROVE  Times(z, Plus(x, y)) = Plus(Times(z, x), Times(z, y))
  <1>1. IsNumber(Plus(x, y))
    BY PlusNumber
  <1>2. Times(z, Plus(x, y)) = Times(Plus(x, y), z)
    BY <1>1, TimesCommutes
  <1>3. Times(z, x) = Times(x, z)
    BY TimesCommutes
  <1>4. Times(z, y) = Times(y, z)
    BY TimesCommutes
  <1>5. QED
    BY <1>2, <1>3, <1>4, TimesLeftSum

\* A shift of one factor is a shift of the product.
LEMMA TimesShift ==
  ASSUME NEW x, NEW y, IsNumber(x), IsNumber(y), NEW f \in Nat
  PROVE  Times(Shift(x, f), y) = Shift(Times(x, y), f)
  <1> DEFINE Q == {w \in SUBSET Nat : Times(Shift(x, f), w) = Shift(Times(x, w), f)}
  <1>1. IsNumber(Shift(x, f))
    BY ShiftMember
  <1>2. {} \in Q
    BY DEF Times, Shift
  <1>3. ASSUME NEW w \in SUBSET Nat, NEW g \in Nat, IsNumber(w), w \in Q, g \notin w
        PROVE  w \cup {g} \in Q
    <2>1. Times(x, w \cup {g}) = Plus(Times(x, w), Shift(x, g))
      BY <1>3, TimesSteps
    <2>2. Times(Shift(x, f), w \cup {g}) = Plus(Times(Shift(x, f), w), Shift(Shift(x, f), g))
      BY <1>1, <1>3, TimesSteps
    <2>3. IsNumber(Times(x, w)) /\ IsNumber(Shift(x, g))
      BY <1>3, TimesNumber, ShiftMember
    <2>4. Shift(Plus(Times(x, w), Shift(x, g)), f) = Plus(Shift(Times(x, w), f), Shift(Shift(x, g), f))
      BY <2>3, ShiftSteps
    <2>5. Shift(Shift(x, f), g) = Shift(Shift(x, g), f)
      BY <1>3, ShiftSteps
    <2>6. Times(Shift(x, f), w) = Shift(Times(x, w), f)
      BY <1>3
    <2>7. Times(Shift(x, f), w \cup {g}) = Shift(Times(x, w \cup {g}), f)
      BY <2>1, <2>2, <2>4, <2>5, <2>6
    <2>8. QED
      BY <2>7
  <1> HIDE DEF Q
  <1>4. y \in Q
    BY <1>2, <1>3, NumberInduct
  <1>5. QED
    BY <1>4 DEF Q

\* The grouping of three factors does not matter.
LEMMA TimesAssociates ==
  ASSUME NEW x, NEW y, IsNumber(x), IsNumber(y), NEW z, IsNumber(z)
  PROVE  Times(Times(x, y), z) = Times(x, Times(y, z))
  <1> DEFINE Q == {w \in SUBSET Nat : Times(Times(x, y), w) = Times(x, Times(y, w))}
  <1>1. IsNumber(Times(x, y))
    BY TimesNumber
  <1>2. {} \in Q
    BY DEF Times
  <1>3. ASSUME NEW w \in SUBSET Nat, NEW f \in Nat, IsNumber(w), w \in Q, f \notin w
        PROVE  w \cup {f} \in Q
    <2>1. Times(Times(x, y), w \cup {f}) = Plus(Times(Times(x, y), w), Shift(Times(x, y), f))
      BY <1>1, <1>3, TimesSteps
    <2>2. Times(y, w \cup {f}) = Plus(Times(y, w), Shift(y, f))
      BY <1>3, TimesSteps
    <2>3. IsNumber(Times(y, w)) /\ IsNumber(Shift(y, f))
      BY <1>3, TimesNumber, ShiftMember
    <2>4. Times(x, Plus(Times(y, w), Shift(y, f))) = Plus(Times(x, Times(y, w)), Times(x, Shift(y, f)))
      BY <2>3, TimesRightSum
    <2>5. Times(x, Shift(y, f)) = Times(Shift(y, f), x)
      BY <2>3, TimesCommutes
    <2>6. Times(Shift(y, f), x) = Shift(Times(y, x), f)
      BY <1>3, TimesShift
    <2>7. Times(y, x) = Times(x, y)
      BY TimesCommutes
    <2>8. Times(Times(x, y), w) = Times(x, Times(y, w))
      BY <1>3
    <2>9. Times(Times(x, y), w \cup {f}) = Times(x, Times(y, w \cup {f}))
      BY <2>1, <2>2, <2>4, <2>5, <2>6, <2>7, <2>8
    <2>10. QED
      BY <2>9
  <1> HIDE DEF Q
  <1>4. z \in Q
    BY <1>2, <1>3, NumberInduct
  <1>5. QED
    BY <1>4 DEF Q

-----------------------------------------------------------------------------
(* Numbers that differ by a multiple of the irreducible polynomial *)

Same(x, y) == \E q : IsNumber(q) /\ Plus(x, y) = Times(Irrep[l], q)

\* The irreducible polynomial is a number.
LEMMA IrrepNumber ==
  ASSUME l \in Ls
  PROVE  IsNumber(Irrep[l]) /\ l \in Nat \ {0} /\ l \in Irrep[l] /\ Irrep[l] \in SUBSET (0 .. l)
  <1>1. l \in Nat \ {0} /\ l \in Irrep[l] /\ Irrep[l] \in SUBSET (0 .. l)
    BY ParamsAssumption
  <1>2. IsFiniteSet(0 .. l)
    BY <1>1, FS_Interval
  <1>3. IsFiniteSet(Irrep[l])
    BY <1>1, <1>2, FS_Subset
  <1>4. QED
    BY <1>1, <1>3 DEF IsNumber

\* It is an equivalence.
LEMMA SameEquivalence ==
  ASSUME l \in Ls, NEW x, NEW y, NEW z
  PROVE  /\ Same(x, x) /\ (Same(x, y) => Same(y, x))
         /\ (Same(x, y) /\ Same(y, z) => Same(x, z))
  <1>1. Same(x, x)
    <2>1. IsNumber({}) /\ Plus(x, x) = {} /\ Times(Irrep[l], {}) = {}
      BY FS_EmptySet DEF IsNumber, Plus, Times
    <2>2. QED
      BY <2>1 DEF Same
  <1>2. Same(x, y) => Same(y, x)
    <2>1. Plus(x, y) = Plus(y, x)
      BY PlusGroup
    <2>2. QED
      BY <2>1 DEF Same
  <1>3. ASSUME Same(x, y), Same(y, z) PROVE Same(x, z)
    <2>1. PICK p : IsNumber(p) /\ Plus(x, y) = Times(Irrep[l], p)
      BY <1>3 DEF Same
    <2>2. PICK q : IsNumber(q) /\ Plus(y, z) = Times(Irrep[l], q)
      BY <1>3 DEF Same
    <2>3. IsNumber(Irrep[l])
      BY IrrepNumber
    <2>4. Times(Irrep[l], Plus(p, q)) = Plus(Times(Irrep[l], p), Times(Irrep[l], q))
      BY <2>1, <2>2, <2>3, TimesRightSum
    <2>5. Plus(x, z) = Plus(Plus(x, y), Plus(y, z))
      BY DEF Plus
    <2>6. IsNumber(Plus(p, q))
      BY <2>1, <2>2, PlusNumber
    <2>7. QED
      BY <2>1, <2>2, <2>4, <2>5, <2>6 DEF Same
  <1>4. QED
    BY <1>1, <1>2, <1>3

\* Sums of numbers that are the same are the same.
LEMMA SamePlus ==
  ASSUME l \in Ls, NEW x, NEW y, Same(x, y), NEW v, NEW w, Same(v, w)
  PROVE  Same(Plus(x, v), Plus(y, w))
  <1>1. PICK p : IsNumber(p) /\ Plus(x, y) = Times(Irrep[l], p)
    BY DEF Same
  <1>2. PICK q : IsNumber(q) /\ Plus(v, w) = Times(Irrep[l], q)
    BY DEF Same
  <1>3. IsNumber(Irrep[l])
    BY IrrepNumber
  <1>4. Times(Irrep[l], Plus(p, q)) = Plus(Times(Irrep[l], p), Times(Irrep[l], q))
    BY <1>1, <1>2, <1>3, TimesRightSum
  <1>5. Plus(Plus(x, v), Plus(y, w)) = Plus(Plus(x, y), Plus(v, w))
    BY DEF Plus
  <1>6. IsNumber(Plus(p, q))
    BY <1>1, <1>2, PlusNumber
  <1>7. QED
    BY <1>1, <1>2, <1>4, <1>5, <1>6 DEF Same

\* Products too.
LEMMA SameTimes ==
  ASSUME l \in Ls, NEW x, NEW y, Same(x, y), IsNumber(x), IsNumber(y), NEW z, IsNumber(z)
  PROVE  Same(Times(x, z), Times(y, z)) /\ Same(Times(z, x), Times(z, y))
  <1>1. PICK p : IsNumber(p) /\ Plus(x, y) = Times(Irrep[l], p)
    BY DEF Same
  <1>2. IsNumber(Irrep[l])
    BY IrrepNumber
  <1>3. Plus(Times(x, z), Times(y, z)) = Times(Plus(x, y), z)
    BY TimesLeftSum
  <1>4. Times(Times(Irrep[l], p), z) = Times(Irrep[l], Times(p, z))
    BY <1>1, <1>2, TimesAssociates
  <1>5. IsNumber(Times(p, z))
    BY <1>1, TimesNumber
  <1>6. Same(Times(x, z), Times(y, z))
    BY <1>1, <1>3, <1>4, <1>5 DEF Same
  <1>7. Times(x, z) = Times(z, x)
    BY TimesCommutes
  <1>8. Times(y, z) = Times(z, y)
    BY TimesCommutes
  <1>9. QED
    BY <1>6, <1>7, <1>8

\* A multiple of the irreducible polynomial other than zero has an exponent of l or
\* more: numbers of l bits that are the same are equal.
LEMMA SameShort ==
  ASSUME l \in Ls, NEW x \in SUBSET (0 .. l - 1), NEW y \in SUBSET (0 .. l - 1), Same(x, y)
  PROVE  x = y
  <1>1. PICK q : IsNumber(q) /\ Plus(x, y) = Times(Irrep[l], q)
    BY DEF Same
  <1>2. IsNumber(Irrep[l]) /\ l \in Nat \ {0} /\ l \in Irrep[l] /\ Irrep[l] \in SUBSET (0 .. l)
    BY IrrepNumber
  <1>3. ASSUME q # {} PROVE FALSE
    <2> DEFINE top == Max(q)
    <2>1. top \in q /\ \A f \in q : f <= top
      BY <1>1, <1>3, Largest DEF IsNumber
    <2> HIDE DEF top
    <2>2. top \in Nat /\ \A f \in q : f \in Nat
      BY <1>1, <2>1 DEF IsNumber
    <2>3. l + top \in Nat
      BY <1>2, <2>2
    <2>4. Pairs(Irrep[l], q, l + top) = {top}
      <3>1. ASSUME NEW f \in q, (l + top) - f \in Irrep[l] PROVE f = top
        BY <1>2, <2>1, <2>2, <3>1
      <3>2. (l + top) - top = l
        BY <1>2, <2>2
      <3>3. QED
        BY <1>2, <2>1, <3>1, <3>2 DEF Pairs
    <2>5. Odd({top})
      <3>1. IsFiniteSet({}) /\ top \notin {}
        BY FS_EmptySet
      <3>2. ~Odd({}) /\ (Odd({} \cup {top}) <=> ~Odd({}))
        BY <3>1, OddSteps
      <3>3. {} \cup {top} = {top}
        OBVIOUS
      <3>4. QED
        BY <3>2, <3>3
    <2>6. l + top \in Times(Irrep[l], q)
      BY <1>1, <1>2, <2>3, <2>4, <2>5, TimesMember
    <2>7. l + top \notin Plus(x, y)
      BY <1>2, <2>2 DEF Plus
    <2>8. QED
      BY <1>1, <2>6, <2>7
  <1>4. Plus(x, y) = {}
    BY <1>1, <1>3 DEF Times
  <1>5. QED
    BY <1>4, PlusGroup

\* A number and its remainder are the same.
LEMMA ModSame ==
  ASSUME l \in Ls, NEW x, IsNumber(x)
  PROVE  Same(Mod(x), x)
  <1>1. PICK N, g : IsModOf(x, N, g)
    BY ModSteps
  <1>2. /\ N - l \in Nat /\ g[N] = x
        /\ \A e \in l .. N - 1 :
             g[e] = IF e \in g[e + 1] THEN Plus(g[e + 1], Shift(Irrep[l], e - l)) ELSE g[e + 1]
    BY <1>1, StepsBelow
  <1>3. l \in Nat /\ N \in Nat /\ IsNumber(Irrep[l])
    BY <1>1, IrrepNumber DEF IsModOf
  <1>4. ASSUME NEW y, NEW e \in Nat PROVE Same(Plus(y, Shift(Irrep[l], e)), y)
    <2>1. IsNumber({e})
      BY FS_Singleton DEF IsNumber
    <2>2. Times({e}, Irrep[l]) = Shift(Irrep[l], e)
      BY <1>3, TimesPower
    <2>3. Times({e}, Irrep[l]) = Times(Irrep[l], {e})
      BY <1>3, <2>1, TimesCommutes
    <2>4. Plus(Plus(y, Shift(Irrep[l], e)), y) = Shift(Irrep[l], e)
      BY DEF Plus
    <2>5. QED
      BY <2>1, <2>2, <2>3, <2>4 DEF Same
  <1> DEFINE Q == {k \in 0 .. N - l : Same(g[N - k], x)}
  <1>5. 0 \in Q
    <2>1. Same(x, x)
      BY SameEquivalence
    <2>2. N - 0 = N /\ 0 \in 0 .. N - l
      BY <1>2, <1>3
    <2>3. QED
      BY <1>2, <2>1, <2>2
  <1>6. ASSUME NEW k \in 0 .. (N - l) - 1, k \in Q PROVE k + 1 \in Q
    <2> DEFINE c == N - (k + 1)
    <2>1. /\ c \in l .. N - 1 /\ c + 1 = N - k /\ c - l \in Nat /\ k + 1 \in 0 .. N - l
      BY <1>2, <1>3, <1>6
    <2>2. Same(g[c + 1], x)
      BY <1>6, <2>1
    <2> HIDE DEF c
    <2>3. Same(g[c], g[c + 1])
      <3>1. Same(g[c + 1], g[c + 1])
        BY SameEquivalence
      <3>2. Same(Plus(g[c + 1], Shift(Irrep[l], c - l)), g[c + 1])
        BY <1>4, <2>1
      <3>3. g[c] = IF c \in g[c + 1] THEN Plus(g[c + 1], Shift(Irrep[l], c - l)) ELSE g[c + 1]
        BY <1>2, <2>1
      <3>4. QED
        BY <3>1, <3>2, <3>3
    <2>4. Same(g[c], x)
      BY <2>2, <2>3, SameEquivalence
    <2>5. QED
      BY <2>1, <2>4 DEF c
  <1>7. 0 .. N - l \subseteq Q
    <2> HIDE DEF Q
    <2>1. QED
      BY <1>2, <1>5, <1>6, Induct
  <1>8. N - l \in 0 .. N - l /\ N - (N - l) = l
    BY <1>2, <1>3
  <1>9. Same(g[l], x)
    BY <1>7, <1>8
  <1>10. QED
    BY <1>1, <1>9 DEF IsModOf

\* A product in the field is a remainder, the same as the product of the polynomials.
LEMMA ModMulSame ==
  ASSUME l \in Ls, NEW x, NEW y, IsNumber(x), IsNumber(y)
  PROVE  /\ ModMul(x, y) \in SUBSET (0 .. l - 1) /\ IsNumber(ModMul(x, y))
         /\ Same(ModMul(x, y), Times(x, y))
  <1>1. IsNumber(Times(x, y)) /\ l \in Nat
    BY TimesNumber, ParamsAssumption
  <1>2. ModMul(x, y) \in SUBSET (0 .. l - 1) /\ Same(ModMul(x, y), Times(x, y))
    BY <1>1, ModBelow, ModSame DEF ModMul
  <1>3. IsNumber(ModMul(x, y))
    BY <1>1, <1>2, BoundedNumber
  <1>4. QED
    BY <1>2, <1>3

-----------------------------------------------------------------------------
(* Sums of several numbers *)

SumOf(S, t) == {e \in Nat : Odd({j \in S : e \in t[j]})}

\* The sum of nothing, and of one more number.
LEMMA SumSteps ==
  ASSUME NEW S, IsFiniteSet(S), NEW t, NEW i, i \notin S, t[i] \in SUBSET Nat
  PROVE  SumOf({}, t) = {} /\ SumOf(S \cup {i}, t) = Plus(SumOf(S, t), t[i])
  <1>1. ~Odd({})
    BY FS_EmptySet DEF Odd
  <1>2. SumOf({}, t) = {}
    <2>1. \A e : {j \in {} : e \in t[j]} = {}
      OBVIOUS
    <2>2. QED
      BY <1>1, <2>1 DEF SumOf
  <1>3. ASSUME NEW e \in Nat PROVE e \in SumOf(S \cup {i}, t) <=> e \in Plus(SumOf(S, t), t[i])
    <2> DEFINE T == {j \in S : e \in t[j]}
               U == {j \in S \cup {i} : e \in t[j]}
    <2>1. IsFiniteSet(T) /\ i \notin T
      BY FS_Subset
    <2>2. CASE e \in t[i]
      <3>1. U = T \cup {i}
        BY <2>2
      <3>2. Odd(T \cup {i}) <=> ~Odd(T)
        <4> HIDE DEF T
        <4>1. QED
          BY <2>1, OddSteps
      <3>3. Odd(U) <=> ~Odd(T)
        BY <3>1, <3>2
      <3>4. QED
        BY <2>2, <3>3 DEF SumOf, Plus
    <2>3. CASE e \notin t[i]
      <3>1. U = T
        BY <2>3
      <3>2. QED
        BY <2>3, <3>1 DEF SumOf, Plus
    <2>4. QED
      BY <2>2, <2>3
  <1>4. SumOf(S \cup {i}, t) \in SUBSET Nat /\ Plus(SumOf(S, t), t[i]) \in SUBSET Nat
    BY DEF SumOf, Plus
  <1>5. QED
    BY <1>2, <1>3, <1>4

\* A sum of numbers is a number; multiplied by x it is the sum of the products; and
\* sums of numbers that are the same are the same.
LEMMA SumNumber ==
  ASSUME NEW S, IsNumber(S), NEW t, \A j \in S : IsNumber(t[j])
  PROVE  IsNumber(SumOf(S, t))
  <1> DEFINE Q == {T \in SUBSET Nat : T \subseteq S => IsNumber(SumOf(T, t))}
  <1>1. {} \in Q
    <2>1. SumOf({}, t) = {}
      <3>1. ~Odd({}) /\ \A e : {j \in {} : e \in t[j]} = {}
        BY FS_EmptySet DEF Odd
      <3>2. QED
        BY <3>1 DEF SumOf
    <2>2. QED
      BY <2>1, FS_EmptySet DEF IsNumber
  <1>2. ASSUME NEW T \in SUBSET Nat, NEW i \in Nat, IsNumber(T), T \in Q, i \notin T
        PROVE  T \cup {i} \in Q
    <2>1. SUFFICES ASSUME T \cup {i} \subseteq S PROVE IsNumber(SumOf(T \cup {i}, t))
      OBVIOUS
    <2>2. IsNumber(t[i]) /\ IsNumber(SumOf(T, t))
      BY <1>2, <2>1
    <2> HIDE DEF Q
    <2>3. SumOf(T \cup {i}, t) = Plus(SumOf(T, t), t[i])
      <3>1. IsFiniteSet(T) /\ t[i] \in SUBSET Nat
        BY <1>2, <2>2 DEF IsNumber
      <3>2. QED
        BY <1>2, <3>1, SumSteps
    <2>4. QED
      BY <2>2, <2>3, PlusNumber
  <1> HIDE DEF Q
  <1>3. S \in Q
    BY <1>1, <1>2, NumberInduct
  <1>4. QED
    BY <1>3 DEF Q

\* A product of a sum is the sum of the products.
LEMMA SumTimes ==
  ASSUME NEW S, IsNumber(S), NEW t, \A j \in S : IsNumber(t[j]), NEW z, IsNumber(z),
         NEW u, \A j \in S : u[j] = Times(t[j], z)
  PROVE  Times(SumOf(S, t), z) = SumOf(S, u)
  <1> DEFINE Q == {T \in SUBSET Nat : T \subseteq S => Times(SumOf(T, t), z) = SumOf(T, u)}
  <1>1. SumOf({}, t) = {} /\ SumOf({}, u) = {}
    <2>1. ~Odd({}) /\ \A e : {j \in {} : e \in t[j]} = {} /\ {j \in {} : e \in u[j]} = {}
      BY FS_EmptySet DEF Odd
    <2>2. QED
      BY <2>1 DEF SumOf
  <1>2. {} \in Q
    BY <1>1 DEF Times
  <1>3. ASSUME NEW T \in SUBSET Nat, NEW i \in Nat, IsNumber(T), T \in Q, i \notin T
        PROVE  T \cup {i} \in Q
    <2>1. SUFFICES ASSUME T \cup {i} \subseteq S
                   PROVE  Times(SumOf(T \cup {i}, t), z) = SumOf(T \cup {i}, u)
      OBVIOUS
    <2>2. IsNumber(t[i]) /\ u[i] = Times(t[i], z) /\ \A j \in T : IsNumber(t[j])
      BY <2>1
    <2>3. IsNumber(SumOf(T, t))
      BY <1>3, <2>2, SumNumber
    <2>4. IsNumber(u[i])
      BY <2>2, TimesNumber
    <2>5. IsFiniteSet(T) /\ t[i] \in SUBSET Nat /\ u[i] \in SUBSET Nat
      BY <1>3, <2>2, <2>4 DEF IsNumber
    <2>6. SumOf(T \cup {i}, t) = Plus(SumOf(T, t), t[i])
      <3>1. i \notin T /\ IsFiniteSet(T) /\ t[i] \in SUBSET Nat
        BY <1>3, <2>5
      <3>2. QED
        BY ONLY <3>1, SumSteps
    <2>7. SumOf(T \cup {i}, u) = Plus(SumOf(T, u), u[i])
      <3>1. i \notin T /\ IsFiniteSet(T) /\ u[i] \in SUBSET Nat
        BY <1>3, <2>5
      <3>2. QED
        BY ONLY <3>1, SumSteps
    <2>8. Times(Plus(SumOf(T, t), t[i]), z) = Plus(Times(SumOf(T, t), z), Times(t[i], z))
      BY <2>2, <2>3, TimesLeftSum
    <2>9. Times(SumOf(T, t), z) = SumOf(T, u)
      BY <1>3, <2>1
    <2>10. QED
      BY <2>2, <2>6, <2>7, <2>8, <2>9
  <1> HIDE DEF Q
  <1>4. S \in Q
    BY <1>2, <1>3, NumberInduct
  <1>5. QED
    BY <1>4 DEF Q

\* Sums of numbers that are the same are the same.
LEMMA SumSame ==
  ASSUME l \in Ls, NEW S, IsNumber(S), NEW t, NEW u,
         \A j \in S : IsNumber(t[j]) /\ IsNumber(u[j]) /\ Same(t[j], u[j])
  PROVE  Same(SumOf(S, t), SumOf(S, u))
  <1> DEFINE Q == {T \in SUBSET Nat : T \subseteq S => Same(SumOf(T, t), SumOf(T, u))}
  <1>1. {} \in Q
    <2>1. ~Odd({}) /\ \A e : {j \in {} : e \in t[j]} = {} /\ {j \in {} : e \in u[j]} = {}
      BY FS_EmptySet DEF Odd
    <2>2. SumOf({}, t) = {} /\ SumOf({}, u) = {}
      BY <2>1 DEF SumOf
    <2>3. QED
      BY <2>2, SameEquivalence
  <1>2. ASSUME NEW T \in SUBSET Nat, NEW i \in Nat, IsNumber(T), T \in Q, i \notin T
        PROVE  T \cup {i} \in Q
    <2>1. SUFFICES ASSUME T \cup {i} \subseteq S
                   PROVE  Same(SumOf(T \cup {i}, t), SumOf(T \cup {i}, u))
      OBVIOUS
    <2>2. IsNumber(t[i]) /\ IsNumber(u[i]) /\ Same(t[i], u[i])
      BY <2>1
    <2>3. IsFiniteSet(T) /\ t[i] \in SUBSET Nat /\ u[i] \in SUBSET Nat
      BY <1>2, <2>2 DEF IsNumber
    <2>4. SumOf(T \cup {i}, t) = Plus(SumOf(T, t), t[i])
      BY <1>2, <2>3, SumSteps
    <2>5. SumOf(T \cup {i}, u) = Plus(SumOf(T, u), u[i])
      BY <1>2, <2>3, SumSteps
    <2>6. Same(SumOf(T, t), SumOf(T, u))
      BY <1>2, <2>1
    <2>7. Same(Plus(SumOf(T, t), t[i]), Plus(SumOf(T, u), u[i]))
      BY <2>2, <2>6, SamePlus
    <2>8. QED
      BY <2>4, <2>5, <2>7
  <1> HIDE DEF Q
  <1>3. S \in Q
    BY <1>1, <1>2, NumberInduct
  <1>4. QED
    BY <1>3 DEF Q

\* A function on 0 .. m given by its first value and by each from the one before.
LEMMA Recursion ==
  ASSUME NEW D, NEW a \in D, NEW G \in [D -> D], NEW m \in Nat
  PROVE  \E g \in [0 .. m -> D] : g = [j \in 0 .. m |-> IF j = 0 THEN a ELSE G[g[j - 1]]]
  <1> DEFINE Body(g, j) == IF j = 0 THEN a ELSE G[g[j - 1]]
             Q == {k \in 0 .. m : \E g \in [0 .. k -> D] : \A j \in 0 .. k : g[j] = Body(g, j)}
  <1>1. 0 \in Q
    <2> DEFINE g == [j \in 0 .. 0 |-> a]
    <2>1. g \in [0 .. 0 -> D] /\ \A j \in 0 .. 0 : g[j] = a /\ j = 0
      OBVIOUS
    <2>2. 0 \in 0 .. m /\ Body(g, 0) = a
      OBVIOUS
    <2>3. \A j \in 0 .. 0 : g[j] = Body(g, j)
      BY <2>1, <2>2
    <2> HIDE DEF g, Body
    <2>4. QED
      BY <2>1, <2>2, <2>3
  <1>2. ASSUME NEW k \in 0 .. m - 1, k \in Q PROVE k + 1 \in Q
    <2>1. PICK g \in [0 .. k -> D] : \A j \in 0 .. k : g[j] = Body(g, j)
      BY <1>2
    <2> DEFINE h == [j \in 0 .. k + 1 |-> IF j = k + 1 THEN G[g[k]] ELSE g[j]]
    <2>2. \A j \in 0 .. k : j # k + 1 /\ j \in 0 .. k + 1 /\ (j # 0 => j - 1 \in 0 .. k)
      OBVIOUS
    <2>3. g[k] \in D /\ k + 1 # 0 /\ (k + 1) - 1 = k /\ k \in 0 .. k /\ k + 1 \in 0 .. k + 1 /\ k + 1 \in 0 .. m
      OBVIOUS
    <2>4. \A j \in 0 .. k : h[j] = g[j]
      BY <2>2
    <2>5. h[k + 1] = G[g[k]]
      BY <2>3
    <2>6. h \in [0 .. k + 1 -> D]
      <3>1. \A j \in 0 .. k + 1 : j = k + 1 \/ j \in 0 .. k
        OBVIOUS
      <3>2. \A j \in 0 .. k + 1 : (IF j = k + 1 THEN G[g[k]] ELSE g[j]) \in D
        BY <2>3, <3>1
      <3>3. QED
        BY <3>2
    <2> HIDE DEF h
    <2>7. ASSUME NEW j \in 0 .. k + 1 PROVE h[j] = Body(h, j)
      <3>1. CASE j = k + 1
        <4>1. Body(h, j) = G[h[k]] /\ h[k] = g[k]
          BY <2>3, <2>4, <3>1
        <4>2. QED
          BY <2>5, <3>1, <4>1
      <3>2. CASE j # k + 1
        <4>1. j \in 0 .. k
          BY <3>2
        <4>2. g[j] = Body(g, j) /\ h[j] = g[j] /\ (j # 0 => h[j - 1] = g[j - 1])
          BY <2>1, <2>2, <2>4, <4>1
        <4>3. QED
          BY <4>2
      <3>3. QED
        BY <3>1, <3>2
    <2>8. QED
      BY <2>3, <2>6, <2>7
  <1>3. 0 .. m \subseteq Q
    <2> HIDE DEF Q
    <2>1. QED
      BY <1>1, <1>2, Induct
  <1>4. m \in Q
    BY <1>3
  <1>5. PICK g \in [0 .. m -> D] : \A j \in 0 .. m : g[j] = Body(g, j)
    BY <1>4
  <1>6. g = [j \in 0 .. m |-> Body(g, j)]
    <2>1. g = [j \in 0 .. m |-> g[j]]
      BY <1>5
    <2> HIDE DEF Body
    <2>2. QED
      BY <1>5, <2>1
  <1>7. QED
    BY <1>6

-----------------------------------------------------------------------------
(* Horner's rule *)

\* The powers of z as polynomials, not reduced, and the sum of the k highest
\* coefficients, each times its power.
Powers(p, z) ==
  /\ p[0] = {0} /\ \A j \in 0 .. r : IsNumber(p[j])
  /\ \A j \in 0 .. r - 1 : p[j + 1] = Times(p[j], z)
HighTerms(p, k) == [j \in r - k .. r - 1 |-> Times(coeffs[j], p[j - (r - k)])]
HighSum(p, k) == SumOf(r - k .. r - 1, HighTerms(p, k))

\* Once in parity all coefficients are in; res is the sum of those that are.
HornerInv ==
  /\ pc = "parity" => turn = r
  /\ pc \in {"horner", "parity"} =>
       \A p : Powers(p, Point(subA)) => Same(res, HighSum(p, turn))

\* The unit of the product.
LEMMA TimesOne ==
  ASSUME NEW x, IsNumber(x)
  PROVE  Times(x, {0}) = x
  <1>1. IsNumber({0})
    <2>1. 0 \in Nat /\ IsFiniteSet({0})
      BY FS_Singleton
    <2>2. QED
      BY <2>1 DEF IsNumber
  <1>2. Times(x, {0}) = Times({0}, x)
    BY <1>1, TimesCommutes
  <1>3. Times({0}, x) = Shift(x, 0)
    BY TimesPower
  <1>4. Shift(x, 0) = x
    BY ShiftSteps
  <1>5. QED
    BY <1>2, <1>3, <1>4

\* The coefficients are numbers once they are all there.
LEMMA CoeffNumber ==
  ASSUME LayoutInv, pc \notin {"segment", "copy"}, NEW j \in 0 .. r - 1
  PROVE  IsNumber(coeffs[j])
  <1>1. n \in Ns /\ l \in Ls /\ seg = r
    BY DEF LayoutInv, PlacesTyped, CoeffsCut
  <1>2. r \in Nat \ {0} /\ CharBits * ElemsPerCoeff \in Nat
    BY <1>1, Sizes
  <1>3. r > 0
    BY <1>2
  <1>4. coeffs \in [0 .. r - 1 -> SUBSET (0 .. CharBits * ElemsPerCoeff - 1)]
    BY <1>1, <1>3 DEF LayoutInv, CoeffsCut
  <1> DEFINE c == CharBits * ElemsPerCoeff
  <1>5. c \in Nat /\ coeffs[j] \in SUBSET (0 .. c - 1)
    BY <1>2, <1>4
  <1> HIDE DEF c
  <1>6. QED
    BY <1>5, BoundedNumber

\* One turn multiplies the sum by the point and adds the next coefficient.
LEMMA NextHighSum ==
  ASSUME l \in Ls, r \in Nat, NEW k \in 0 .. r - 1, NEW z, IsNumber(z), NEW p, Powers(p, z),
         \A j \in 0 .. r - 1 : IsNumber(coeffs[j]),
         NEW x, IsNumber(x), Same(x, HighSum(p, k))
  PROVE  Same(Plus(ModMul(x, z), coeffs[r - 1 - k]), HighSum(p, k + 1))
  <1> DEFINE S == r - k .. r - 1
             T == r - (k + 1) .. r - 1
             i == r - 1 - k
             t == HighTerms(p, k)
             u == HighTerms(p, k + 1)
  <1>1. i \notin S /\ T = S \cup {i} /\ i \in T /\ i \in 0 .. r - 1 /\ S \in SUBSET (0 .. r - 1)
    <2>1. i \notin S /\ i \in T /\ i \in 0 .. r - 1
      OBVIOUS
    <2>2. ASSUME NEW j PROVE j \in T <=> j \in S \cup {i}
      OBVIOUS
    <2>3. \A j \in S : j \in 0 .. r - 1
      OBVIOUS
    <2> HIDE DEF S, T, i
    <2>4. QED
      BY <2>1, <2>2, <2>3
  <1>2. IsNumber(S)
    BY <1>1, BoundedNumber
  <1>3. ASSUME NEW j \in S
        PROVE  /\ j \in 0 .. r - 1 /\ j - (r - k) \in 0 .. r - 1
               /\ j - (r - (k + 1)) = (j - (r - k)) + 1 /\ j \in T
    OBVIOUS
  <1>4. ASSUME NEW j \in S PROVE t[j] = Times(coeffs[j], p[j - (r - k)])
    BY DEF HighTerms
  <1>5. ASSUME NEW j \in T PROVE u[j] = Times(coeffs[j], p[j - (r - (k + 1))])
    BY DEF HighTerms
  <1>6. i - (r - (k + 1)) = 0
    OBVIOUS
  <1>7. \A j \in 0 .. r - 1 : IsNumber(p[j]) /\ p[j + 1] = Times(p[j], z)
    <2>1. \A j \in 0 .. r - 1 : j \in 0 .. r
      OBVIOUS
    <2>2. QED
      BY <2>1 DEF Powers
  <1> HIDE DEF S, T, i, t, u
  <1>8. ASSUME NEW j \in S PROVE IsNumber(t[j]) /\ IsNumber(u[j]) /\ u[j] = Times(t[j], z)
    <2> DEFINE e == j - (r - k)
    <2>1. e \in 0 .. r - 1 /\ j \in 0 .. r - 1 /\ j \in T
      BY <1>3
    <2>2. t[j] = Times(coeffs[j], p[e]) /\ u[j] = Times(coeffs[j], p[e + 1])
      <3>1. t[j] = Times(coeffs[j], p[e])
        BY <1>4
      <3>2. j - (r - (k + 1)) = e + 1
        BY <1>3
      <3> HIDE DEF e
      <3>3. u[j] = Times(coeffs[j], p[e + 1])
        BY <1>5, <2>1, <3>2
      <3>4. QED
        BY <3>1, <3>3
    <2> HIDE DEF e
    <2>3. IsNumber(coeffs[j]) /\ IsNumber(p[e]) /\ p[e + 1] = Times(p[e], z)
      BY <1>7, <2>1
    <2>4. IsNumber(t[j])
      BY <2>2, <2>3, TimesNumber
    <2>5. Times(Times(coeffs[j], p[e]), z) = Times(coeffs[j], Times(p[e], z))
      BY <2>3, TimesAssociates
    <2>6. IsNumber(Times(t[j], z))
      BY <2>4, TimesNumber
    <2>7. QED
      BY <2>2, <2>3, <2>4, <2>5, <2>6
  <1>9. u[i] = coeffs[i] /\ IsNumber(coeffs[i])
    <2>1. u[i] = Times(coeffs[i], p[0])
      BY <1>1, <1>5, <1>6
    <2>2. IsNumber(coeffs[i]) /\ p[0] = {0}
      BY <1>1 DEF Powers
    <2>3. QED
      BY <2>1, <2>2, TimesOne
  <1>10. HighSum(p, k) = SumOf(S, t) /\ HighSum(p, k + 1) = SumOf(T, u)
    BY DEF HighSum, S, T, t, u
  <1>11. SumOf(T, u) = Plus(SumOf(S, u), coeffs[i])
    <2>1. IsFiniteSet(S) /\ u[i] \in SUBSET Nat
      BY <1>2, <1>9 DEF IsNumber
    <2>2. SumOf(S \cup {i}, u) = Plus(SumOf(S, u), u[i])
      BY <1>1, <2>1, SumSteps
    <2>3. QED
      BY <1>1, <1>9, <2>2
  <1>12. Times(SumOf(S, t), z) = SumOf(S, u)
    BY <1>2, <1>8, SumTimes
  <1>13. IsNumber(SumOf(S, t))
    BY <1>2, <1>8, SumNumber
  <1>14. Same(Times(x, z), SumOf(S, u))
    <2>1. Same(Times(x, z), Times(SumOf(S, t), z))
      BY <1>10, <1>13, SameTimes
    <2>2. QED
      BY <1>12, <2>1
  <1>15. Same(ModMul(x, z), SumOf(S, u))
    <2>1. Same(ModMul(x, z), Times(x, z))
      BY ModMulSame
    <2>2. QED
      BY <1>14, <2>1, SameEquivalence
  <1>16. Same(Plus(ModMul(x, z), coeffs[i]), Plus(SumOf(S, u), coeffs[i]))
    <2>1. Same(coeffs[i], coeffs[i])
      BY SameEquivalence
    <2>2. QED
      BY <1>15, <2>1, SamePlus
  <1>17. QED
    BY <1>10, <1>11, <1>16 DEF i

\* The steps other than a turn keep the sum.
LEMMA SumKept ==
  ASSUME HornerInv, UNCHANGED <<n, l, coeffs, subA, turn, res>>,
         pc' \in {"horner", "parity"} => pc' = pc
  PROVE  HornerInv'
  <1>1. r' = r /\ Point(subA)' = Point(subA)
    BY DEF r, CeilDiv, Point, BinToNumber, CharsPerHalf
  <1>2. QED
    BY <1>1 DEF HornerInv, Powers, Same, HighSum, HighTerms

\* No step of the program breaks the sum.
LEMMA HornerStep == LayoutInv /\ CallInv /\ HornerInv /\ [Next]_vars => HornerInv'
  <1>1. SUFFICES ASSUME LayoutInv, CallInv, HornerInv, [Next]_vars PROVE HornerInv'
    OBVIOUS
  <1>2. n \in Ns /\ l \in Ls /\ r \in Nat \ {0}
    <2>1. n \in Ns /\ l \in Ls
      BY <1>1 DEF LayoutInv, PlacesTyped
    <2>2. QED
      BY <2>1, Sizes
  <1>3. CASE StartSegment
    <2>1. pc' = "copy" /\ UNCHANGED <<n, l, coeffs, callVars>>
      BY <1>3 DEF StartSegment
    <2>2. pc' \notin {"horner", "parity"}
      BY <2>1
    <2>3. QED
      BY <2>2 DEF HornerInv
  <1>4. CASE CopyBit
    <2>1. pc = "copy" /\ pc' = pc
      BY <1>4 DEF CopyBit
    <2>2. pc' \notin {"horner", "parity"}
      BY <2>1
    <2>3. QED
      BY <2>2 DEF HornerInv
  <1>5. CASE EndSegment
    <2>1. pc' \notin {"horner", "parity"}
      BY <1>5 DEF EndSegment
    <2>2. QED
      BY <2>1 DEF HornerInv
  <1>6. CASE Extract
    <2>1. pc' = "horner" /\ turn' = 0 /\ res' = {} /\ UNCHANGED <<n, l>>
      BY <1>6 DEF Extract
    <2>2. r' = r
      BY <2>1 DEF r, CeilDiv
    <2>3. ASSUME NEW p PROVE Same(res, HighSum(p, turn))'
      <3>1. (r - 0) .. r - 1 = {}
        BY <1>2
      <3>2. \A t : SumOf({}, t) = {}
        <4>1. ~Odd({}) /\ \A t, e : {j \in {} : e \in t[j]} = {}
          BY FS_EmptySet DEF Odd
        <4>2. QED
          BY <4>1 DEF SumOf
      <3>3. HighSum(p, turn)' = {}
        BY <2>1, <2>2, <3>1, <3>2 DEF HighSum
      <3>4. Same({}, {})
        BY <1>2, SameEquivalence
      <3>5. QED
        BY <2>1, <3>3, <3>4 DEF Same
    <2>4. pc' # "parity"
      BY <2>1
    <2>5. QED
      BY <2>3, <2>4 DEF HornerInv
  <1>7. CASE HornerTurn
    <2>1. /\ pc = "horner" /\ res' = Plus(ModMul(res, Point(subA)), Coeff(turn)) /\ turn' = turn + 1
          /\ pc' = IF turn' = r THEN "parity" ELSE "horner"
          /\ UNCHANGED <<n, l, coeffs, subA>>
      BY <1>7 DEF HornerTurn, segVars
    <2>2. /\ turn \in 0 .. r /\ turn < r /\ subA \in SUBSET (0 .. l - 1)
          /\ IsNumber(held) /\ res \subseteq held
      BY <1>1, <2>1 DEF CallInv
    <2>3. turn \in 0 .. r - 1
      BY <1>2, <2>2
    <2>4. IsNumber(res)
      BY <2>2, FS_Subset DEF IsNumber
    <2>5. IsNumber(Point(subA))
      BY <1>2, <2>2, PointNumber
    <2>6. \A j \in 0 .. r - 1 : IsNumber(coeffs[j])
      BY <1>1, <2>1, CoeffNumber
    <2>7. r' = r /\ Point(subA)' = Point(subA)
      BY <2>1 DEF r, CeilDiv, Point, BinToNumber, CharsPerHalf
    <2>8. ASSUME NEW p, Powers(p, Point(subA)) PROVE Same(res', HighSum(p, turn + 1))
      <3>1. Same(res, HighSum(p, turn))
        BY <1>1, <2>1, <2>8 DEF HornerInv
      <3>2. Same(Plus(ModMul(res, Point(subA)), coeffs[r - 1 - turn]), HighSum(p, turn + 1))
        BY <1>2, <2>3, <2>4, <2>5, <2>6, <2>8, <3>1, NextHighSum
      <3>3. QED
        BY <2>1, <3>2 DEF Coeff
    <2>9. ASSUME NEW p, Powers(p, Point(subA))' PROVE Same(res, HighSum(p, turn))'
      <3>1. Powers(p, Point(subA))
        BY <2>7, <2>9 DEF Powers
      <3>2. Same(res', HighSum(p, turn + 1))
        BY <2>8, <3>1
      <3>3. QED
        BY <2>1, <2>7, <3>2 DEF Same, HighSum, HighTerms
    <2>10. pc' = "parity" => turn' = r'
      BY <2>1, <2>7
    <2>11. QED
      BY <2>9, <2>10 DEF HornerInv
  <1>8. CASE Hadamard
    <2>1. pc' \notin {"horner", "parity"}
      BY <1>8 DEF Hadamard
    <2>2. QED
      BY <2>1 DEF HornerInv
  <1>9. CASE Return
    <2>1. pc' \notin {"horner", "parity"}
      BY <1>9 DEF Return
    <2>2. QED
      BY <2>1 DEF HornerInv
  <1>10. CASE UNCHANGED vars
    <2>1. UNCHANGED <<pc, n, l, coeffs, subA, turn, res>>
      BY <1>10 DEF vars, segVars, callVars
    <2>2. QED
      BY <1>1, <2>1, SumKept
  <1>11. QED
    BY <1>1, <1>3, <1>4, <1>5, <1>6, <1>7, <1>8, <1>9, <1>10 DEF Next

-----------------------------------------------------------------------------
(* The value of the polynomial *)

Numbers == {x \in SUBSET Nat : IsFiniteSet(x)}
\* The powers of the point as Value takes them.
FieldPowers(q) == q = [j \in 0 .. r |-> IF j = 0 THEN {0} ELSE ModMul(q[j - 1], Point(subA))]
FieldTerms(q) == [j \in 0 .. r - 1 |-> ModMul(coeffs[j], q[j])]

\* There are powers, not reduced and reduced.
LEMMA PowersExist ==
  ASSUME l \in Ls, r \in Nat, IsNumber(Point(subA))
  PROVE  (\E p : Powers(p, Point(subA))) /\ (\E q : FieldPowers(q))
  <1> DEFINE z == Point(subA)
             G == [x \in Numbers |-> Times(x, z)]
             H == [x \in Numbers |-> ModMul(x, z)]
  <1>1. \A x : IsNumber(x) <=> x \in Numbers
    BY DEF IsNumber, Numbers
  <1>2. {0} \in Numbers
    <2>1. 0 \in Nat /\ IsFiniteSet({0})
      BY FS_Singleton
    <2>2. QED
      BY <2>1 DEF Numbers
  <1>3. G \in [Numbers -> Numbers]
    <2>1. \A x \in Numbers : IsNumber(Times(x, z))
      BY <1>1, TimesNumber
    <2> HIDE DEF z
    <2>2. \A x \in Numbers : Times(x, z) \in Numbers
      BY <1>1, <2>1
    <2>3. QED
      BY <2>2
  <1>4. H \in [Numbers -> Numbers]
    <2>1. \A x \in Numbers : IsNumber(ModMul(x, z))
      BY <1>1, ModMulSame
    <2> HIDE DEF z
    <2>2. \A x \in Numbers : ModMul(x, z) \in Numbers
      BY <1>1, <2>1
    <2>3. QED
      BY <2>2
  <1>5. \E p : Powers(p, z)
    <2>1. PICK p \in [0 .. r -> Numbers] : p = [j \in 0 .. r |-> IF j = 0 THEN {0} ELSE G[p[j - 1]]]
      <3> HIDE DEF G
      <3>1. QED
        BY <1>2, <1>3, Recursion
    <2>2. p[0] = {0}
      <3>1. 0 \in 0 .. r
        OBVIOUS
      <3> HIDE DEF G
      <3>2. QED
        BY <2>1, <3>1
    <2>3. \A j \in 0 .. r : IsNumber(p[j])
      BY <1>1, <2>1
    <2>4. ASSUME NEW j \in 0 .. r - 1 PROVE p[j + 1] = Times(p[j], z)
      <3>1. j \in 0 .. r /\ j + 1 \in 0 .. r /\ j + 1 # 0 /\ (j + 1) - 1 = j
        OBVIOUS
      <3>2. p[j + 1] = G[p[j]]
        <4> HIDE DEF G
        <4>1. QED
          BY <2>1, <3>1
      <3>3. p[j] \in Numbers
        BY <2>1, <3>1
      <3> HIDE DEF z
      <3>4. QED
        BY <3>2, <3>3
    <2>5. QED
      BY <2>2, <2>3, <2>4 DEF Powers
  <1>6. \E q : FieldPowers(q)
    <2>1. PICK q \in [0 .. r -> Numbers] : q = [j \in 0 .. r |-> IF j = 0 THEN {0} ELSE H[q[j - 1]]]
      <3> HIDE DEF H
      <3>1. QED
        BY <1>2, <1>4, Recursion
    <2>2. ASSUME NEW j \in 0 .. r, j # 0 PROVE H[q[j - 1]] = ModMul(q[j - 1], z)
      <3>1. j - 1 \in 0 .. r
        BY <2>2
      <3>2. q[j - 1] \in Numbers
        BY <2>1, <3>1
      <3> HIDE DEF z
      <3>3. QED
        BY <3>2
    <2> HIDE DEF H
    <2>3. q = [j \in 0 .. r |-> IF j = 0 THEN {0} ELSE ModMul(q[j - 1], z)]
      BY <2>1, <2>2
    <2>4. QED
      BY <2>3 DEF FieldPowers
  <1>7. QED
    BY <1>5, <1>6

\* Value is the sum of the terms with the reduced powers.
LEMMA ValueIs ==
  ASSUME l \in Ls, r \in Nat, IsNumber(Point(subA))
  PROVE  \E q : FieldPowers(q) /\ Value = {e \in 0 .. l - 1 : Odd({j \in 0 .. r - 1 : e \in FieldTerms(q)[j]})}
  <1> DEFINE q == CHOOSE g : g = [j \in 0 .. r |-> IF j = 0 THEN {0} ELSE ModMul(g[j - 1], Point(subA))]
  <1>1. Value = {e \in 0 .. l - 1 : Odd({j \in 0 .. r - 1 : e \in FieldTerms(q)[j]})}
    BY DEF Value, FieldTerms, Odd
  <1>2. FieldPowers(q)
    <2>1. \E g : g = [j \in 0 .. r |-> IF j = 0 THEN {0} ELSE ModMul(g[j - 1], Point(subA))]
      BY PowersExist DEF FieldPowers
    <2>2. q = [j \in 0 .. r |-> IF j = 0 THEN {0} ELSE ModMul(q[j - 1], Point(subA))]
      BY <2>1
    <2>3. QED
      BY <2>2 DEF FieldPowers
  <1>3. QED
    BY <1>1, <1>2

\* The reduced powers are numbers, the same as the ones not reduced.
LEMMA FieldPowersSame ==
  ASSUME l \in Ls, r \in Nat, IsNumber(Point(subA)),
         NEW p, Powers(p, Point(subA)), NEW q, FieldPowers(q)
  PROVE  \A j \in 0 .. r : IsNumber(q[j]) /\ Same(q[j], p[j])
  <1> DEFINE z == Point(subA)
             Q == {j \in 0 .. r : IsNumber(q[j]) /\ Same(q[j], p[j])}
  <1>1. q[0] = {0} /\ \A j \in 0 .. r - 1 : q[j + 1] = ModMul(q[j], z)
    <2>1. 0 \in 0 .. r /\ \A j \in 0 .. r - 1 : j + 1 \in 0 .. r /\ j + 1 # 0 /\ (j + 1) - 1 = j
      OBVIOUS
    <2>2. QED
      BY <2>1 DEF FieldPowers
  <1>2. 0 \in Q
    <2>1. 0 \in 0 .. r /\ q[0] = p[0] /\ IsNumber(p[0])
      BY <1>1 DEF Powers
    <2>2. Same(p[0], p[0])
      BY SameEquivalence
    <2>3. QED
      BY <2>1, <2>2
  <1>3. ASSUME NEW j \in 0 .. r - 1, j \in Q PROVE j + 1 \in Q
    <2>1. j \in 0 .. r /\ j + 1 \in 0 .. r
      OBVIOUS
    <2>2. q[j + 1] = ModMul(q[j], z) /\ p[j + 1] = Times(p[j], z) /\ IsNumber(p[j])
      BY <1>1, <2>1 DEF Powers
    <2>3. IsNumber(q[j]) /\ Same(q[j], p[j])
      BY <1>3
    <2> HIDE DEF Q
    <2>4. IsNumber(ModMul(q[j], z)) /\ Same(ModMul(q[j], z), Times(q[j], z))
      BY <2>3, ModMulSame
    <2>5. Same(Times(q[j], z), Times(p[j], z))
      BY <2>2, <2>3, SameTimes
    <2>6. Same(ModMul(q[j], z), Times(p[j], z))
      BY <2>4, <2>5, SameEquivalence
    <2> HIDE DEF z
    <2>7. QED
      BY <2>1, <2>2, <2>4, <2>6 DEF Q
  <1>4. 0 .. r \subseteq Q
    <2> HIDE DEF Q
    <2>1. QED
      BY <1>2, <1>3, Induct
  <1>5. QED
    BY <1>4

\* The value of the polynomial has at most l bits and is the same as the sum of all terms.
LEMMA ValueSame ==
  ASSUME l \in Ls, r \in Nat, IsNumber(Point(subA)), \A j \in 0 .. r - 1 : IsNumber(coeffs[j]),
         NEW p, Powers(p, Point(subA))
  PROVE  Value \in SUBSET (0 .. l - 1) /\ Same(Value, HighSum(p, r))
  <1> DEFINE S == 0 .. r - 1
             u == HighTerms(p, r)
  <1>1. PICK q : FieldPowers(q) /\ Value = {e \in 0 .. l - 1 : Odd({j \in 0 .. r - 1 : e \in FieldTerms(q)[j]})}
    BY ValueIs
  <1> DEFINE t == FieldTerms(q)
  <1>2. IsNumber(S)
    BY BoundedNumber
  <1>3. r - r .. r - 1 = S /\ \A j \in S : j - (r - r) = j
    OBVIOUS
  <1>4. HighSum(p, r) = SumOf(S, u)
    BY <1>3 DEF HighSum
  <1>5. \A j \in S : u[j] = Times(coeffs[j], p[j])
    BY <1>3 DEF HighTerms
  <1>6. \A j \in S : t[j] = ModMul(coeffs[j], q[j])
    BY DEF FieldTerms
  <1>7. Value = {e \in 0 .. l - 1 : Odd({j \in S : e \in t[j]})}
    BY <1>1
  <1>8. ASSUME NEW j \in S
        PROVE  t[j] \in SUBSET (0 .. l - 1) /\ IsNumber(t[j]) /\ IsNumber(u[j]) /\ Same(t[j], u[j])
    <2>1. j \in 0 .. r
      OBVIOUS
    <2>2. IsNumber(q[j]) /\ Same(q[j], p[j])
      BY <1>1, <2>1, FieldPowersSame
    <2>3. IsNumber(coeffs[j]) /\ IsNumber(p[j])
      BY <2>1 DEF Powers
    <2>4. /\ ModMul(coeffs[j], q[j]) \in SUBSET (0 .. l - 1) /\ IsNumber(ModMul(coeffs[j], q[j]))
          /\ Same(ModMul(coeffs[j], q[j]), Times(coeffs[j], q[j]))
      BY <2>2, <2>3, ModMulSame
    <2>5. Same(Times(coeffs[j], q[j]), Times(coeffs[j], p[j]))
      BY <2>2, <2>3, SameTimes
    <2>6. Same(ModMul(coeffs[j], q[j]), Times(coeffs[j], p[j]))
      BY <2>4, <2>5, SameEquivalence
    <2>7. IsNumber(Times(coeffs[j], p[j]))
      BY <2>3, TimesNumber
    <2> HIDE DEF S, t, u
    <2>8. QED
      BY <1>5, <1>6, <2>4, <2>6, <2>7
  <1> HIDE DEF S, t, u
  <1>9. Value = SumOf(S, t)
    <2>1. ASSUME NEW e \in Nat, Odd({j \in S : e \in t[j]}) PROVE e \in 0 .. l - 1
      <3>1. {j \in S : e \in t[j]} # {}
        BY <2>1, FS_EmptySet DEF Odd
      <3>2. PICK j \in S : e \in t[j]
        BY <3>1
      <3>3. QED
        BY <1>8, <3>2
    <2>2. \A e \in 0 .. l - 1 : e \in Nat
      OBVIOUS
    <2>3. QED
      BY <1>7, <2>1, <2>2 DEF SumOf
  <1>10. Same(SumOf(S, t), SumOf(S, u))
    BY <1>2, <1>8, SumSame
  <1>11. QED
    BY <1>4, <1>7, <1>9, <1>10

\* Horner's rule evaluates the polynomial: reduced, res is the sum of the coefficients
\* times the powers of the point in the field.
THEOREM PolynomialEvaluated == Spec => []PolynomialValue
  <1>1. Init => HornerInv
    <2>1. SUFFICES ASSUME Init PROVE HornerInv
      OBVIOUS
    <2>2. pc = "segment"
      BY <2>1 DEF Init
    <2>3. QED
      BY <2>2 DEF HornerInv
  <1>2. LayoutInv /\ CallInv /\ HornerInv => PolynomialValue
    <2>1. SUFFICES ASSUME LayoutInv, CallInv, HornerInv, pc = "parity" PROVE Mod(res) = Value
      BY DEF PolynomialValue
    <2>2. n \in Ns /\ l \in Ls /\ subA \in SUBSET (0 .. l - 1) /\ IsNumber(held) /\ res \subseteq held
      BY <2>1 DEF LayoutInv, PlacesTyped, CallInv
    <2>3. r \in Nat
      BY <2>2, Sizes
    <2>4. IsNumber(Point(subA))
      BY <2>2, PointNumber
    <2>5. IsNumber(res)
      BY <2>2, FS_Subset DEF IsNumber
    <2>6. \A j \in 0 .. r - 1 : IsNumber(coeffs[j])
      BY <2>1, CoeffNumber
    <2>7. PICK p : Powers(p, Point(subA))
      BY <2>2, <2>3, <2>4, PowersExist
    <2>8. Same(res, HighSum(p, r))
      BY <2>1, <2>7 DEF HornerInv
    <2>9. Value \in SUBSET (0 .. l - 1) /\ Same(Value, HighSum(p, r))
      BY <2>2, <2>3, <2>4, <2>6, <2>7, ValueSame
    <2>10. Mod(res) \in SUBSET (0 .. l - 1) /\ Same(Mod(res), res)
      BY <2>2, <2>5, ModBelow, ModSame
    <2>11. Same(HighSum(p, r), Value)
      BY <2>2, <2>9, SameEquivalence
    <2>12. Same(Mod(res), HighSum(p, r))
      BY <2>2, <2>8, <2>10, SameEquivalence
    <2>13. Same(Mod(res), Value)
      BY <2>2, <2>11, <2>12, SameEquivalence
    <2>14. QED
      BY <2>2, <2>9, <2>10, <2>13, SameShort
  <1>3. QED
    BY <1>1, <1>2, HornerStep, Invariance, PTL DEF Spec

=============================================================================
