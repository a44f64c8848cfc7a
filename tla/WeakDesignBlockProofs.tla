------------------------ MODULE WeakDesignBlockProofs ------------------------
(* That the table of blockdes.r divides the rows among the blocks, that no *)
(* thread's cursor leaves it, and that a thread asked for rows 0, 1, 2, ... *)
(* gets the row and the block the table has there: for all numbers of rows, *)
(* indices per row and threads, and every r.                               *)
EXTENDS WeakDesignBlock, TLAPS, FiniteSetTheorems

-----------------------------------------------------------------------------
(* Numbers *)

\* Quotient and remainder.
LEMMA Divides ==
  ASSUME NEW k \in Nat, NEW v \in Nat \ {0}
  PROVE  k \div v \in Nat /\ k % v \in 0 .. v - 1 /\ k = v * (k \div v) + (k % v)
  OBVIOUS

\* A number has one quotient and one rest.
LEMMA QuotientUnique ==
  ASSUME NEW v \in Nat \ {0}, NEW q \in Nat, NEW e \in 0 .. v - 1
  PROVE  v * q + e \in Nat /\ (v * q + e) \div v = q /\ (v * q + e) % v = e
  <1> DEFINE k == v * q + e
             x == k \div v
             y == k % v
  <1>1. v * q \in Nat /\ k \in Nat
    OBVIOUS
  <1>2. x \in Nat /\ y \in 0 .. v - 1 /\ k = v * x + y
    BY <1>1, Divides
  <1>3. k = v * q + e
    OBVIOUS
  <1> HIDE DEF k, x, y
  <1>4. ~(x > q)
    <2>1. SUFFICES ASSUME x > q PROVE FALSE
      OBVIOUS
    <2>2. v * x >= v * (q + 1) /\ v * (q + 1) = v * q + v /\ v * x \in Nat
      BY <1>2, <2>1
    <2>3. QED
      BY <1>1, <1>2, <1>3, <2>2
  <1>5. ~(x < q)
    <2>1. SUFFICES ASSUME x < q PROVE FALSE
      OBVIOUS
    <2>2. v * q >= v * (x + 1) /\ v * (x + 1) = v * x + v /\ v * x \in Nat
      BY <1>2, <2>1
    <2>3. QED
      BY <1>1, <1>2, <1>3, <2>2
  <1>6. x = q
    <2>1. x \in Nat
      BY <1>2
    <2>2. QED
      BY <1>4, <1>5, <2>1
  <1>7. y = e
    <2>1. v * x = v * q /\ v * q \in Nat
      BY <1>1, <1>6
    <2>2. y \in Nat /\ k = v * q + y
      BY <1>2, <2>1
    <2>3. QED
      BY <1>3, <2>1, <2>2
  <1>8. QED
    BY <1>1, <1>3, <1>6, <1>7 DEF x, y, k

\* A smaller number has no larger quotient.
LEMMA QuotientMonotone ==
  ASSUME NEW v \in Nat \ {0}, NEW j \in Nat, NEW k \in Nat, j <= k
  PROVE  j \div v <= k \div v
  <1> DEFINE x == j \div v
             y == k \div v
  <1>1. /\ x \in Nat /\ y \in Nat /\ j = v * x + (j % v) /\ k = v * y + (k % v)
        /\ j % v \in 0 .. v - 1 /\ k % v \in 0 .. v - 1
    BY Divides
  <1> HIDE DEF x, y
  <1>2. ASSUME x > y PROVE FALSE
    <2>1. v * x >= v * (y + 1) /\ v * (y + 1) = v * y + v /\ v * x \in Nat /\ v * y \in Nat
      BY <1>1, <1>2
    <2>2. QED
      BY <1>1, <2>1
  <1>3. QED
    BY <1>1, <1>2 DEF x, y

\* Every set of natural numbers has a least element: of the intervals 1 .. k
\* for its elements one includes no other.
LEMMA LeastElement ==
  ASSUME NEW T \in SUBSET Nat, T # {}
  PROVE  \E x \in T : \A y \in T : x <= y
  <1> DEFINE F == {1 .. k : k \in T}
  <1>1. F \subseteq FiniteSubsetsOf(Nat) /\ F # {}
    <2>1. \A k \in T : 1 .. k \in SUBSET Nat /\ IsFiniteSet(1 .. k)
      BY FS_Interval
    <2>2. QED
      BY <2>1 DEF FiniteSubsetsOf
  <1>2. IsWellFoundedOn(StrictSubsetOrdering(Nat), FiniteSubsetsOf(Nat))
    BY FS_StrictSubsetOrderingWellFounded
  <1>3. PICK X \in F : \A Y \in F : ~(<<Y, X>> \in StrictSubsetOrdering(Nat))
    <2> HIDE DEF F
    <2>1. QED
      BY <1>1, <1>2, WFMin
  <1>4. PICK x \in T : X = 1 .. x
    BY <1>3
  <1>5. ASSUME NEW y \in T, ~(x <= y) PROVE FALSE
    <2>1. 1 .. y \subseteq 1 .. x /\ 1 .. y # 1 .. x
      <3>1. x \in 1 .. x /\ x \notin 1 .. y
        BY <1>5
      <3>2. 1 .. y \subseteq 1 .. x
        BY <1>5
      <3>3. QED
        BY <3>1, <3>2
    <2>2. 1 .. y \in SUBSET Nat /\ 1 .. x \in SUBSET Nat
      OBVIOUS
    <2>3. <<1 .. y, X>> \in StrictSubsetOrdering(Nat)
      BY <1>4, <2>1, <2>2 DEF StrictSubsetOrdering
    <2>4. QED
      BY <1>3, <2>3
  <1>6. QED
    BY <1>5

\* Induction up to a bound, for a set instead of an operator.
LEMMA Induct ==
  ASSUME NEW Q, 0 \in Q, NEW max \in Nat, \A k \in 0 .. max - 1 : k \in Q => k + 1 \in Q
  PROVE  0 .. max \subseteq Q
  <1> DEFINE T == {k \in 0 .. max : k \notin Q}
  <1>1. SUFFICES ASSUME T # {} PROVE FALSE
    OBVIOUS
  <1>2. T \in SUBSET Nat
    OBVIOUS
  <1>3. PICK x \in T : \A y \in T : x <= y
    <2> HIDE DEF T
    <2> QED BY <1>1, <1>2, LeastElement
  <1>4. x # 0 /\ x \in 0 .. max /\ x \notin Q
    OBVIOUS
  <1>5. x - 1 \in 0 .. max - 1 /\ x - 1 \notin T
    BY <1>3, <1>4
  <1>6. x - 1 \in Q /\ (x - 1) + 1 = x
    BY <1>4, <1>5
  <1>7. QED
    BY <1>4, <1>5, <1>6

\* f starts from base and goes from each value to the next by step.
Iterates(f, Y, base, step) ==
  f \in [Nat -> Y] /\ f[0] = base /\ \A k \in Nat : f[k + 1] = step[k + 1][f[k]]

\* A function on the natural numbers may be defined from each value to the next.
LEMMA Recursion ==
  ASSUME NEW Y, NEW base \in Y, NEW step, \A k \in Nat, y \in Y : step[k][y] \in Y
  PROVE  \E f : Iterates(f, Y, base, step)
  <1> DEFINE Good(k) == {g \in [0 .. k -> Y] : g[0] = base /\ \A j \in 1 .. k : g[j] = step[j][g[j - 1]]}
  <1>1. ASSUME NEW m0 \in Nat PROVE Good(m0) # {}
    <2> DEFINE Q == {k \in 0 .. m0 : Good(k) # {}}
    <2>1. 0 \in Q
      <3>1. [j \in 0 .. 0 |-> base] \in Good(0)
        OBVIOUS
      <3>2. QED
        BY <3>1
    <2>2. ASSUME NEW k \in 0 .. m0 - 1, k \in Q PROVE k + 1 \in Q
      <3>1. PICK g \in Good(k) : TRUE
        BY <2>2
      <3> DEFINE e == step[k + 1][g[k]]
                 h == [j \in 0 .. k + 1 |-> IF j = k + 1 THEN e ELSE g[j]]
      <3>2. g[k] \in Y /\ e \in Y /\ k \in Nat
        BY <2>2, <3>1
      <3>3. h \in [0 .. k + 1 -> Y]
        BY <3>1, <3>2
      <3>4. h[0] = base
        BY <3>1, <3>2
      <3>5. ASSUME NEW j \in 1 .. k + 1 PROVE h[j] = step[j][h[j - 1]]
        <4>1. j - 1 \in 0 .. k /\ j - 1 # k + 1
          BY <3>2, <3>5
        <4>2. h[j - 1] = g[j - 1]
          BY <3>2, <4>1
        <4>3. CASE j = k + 1
          <5>1. h[j] = e /\ j - 1 = k
            BY <3>2, <4>3
          <5>2. QED
            BY <4>2, <4>3, <5>1
        <4>4. CASE j # k + 1
          <5>1. j \in 1 .. k
            BY <3>2, <3>5, <4>4
          <5>2. h[j] = g[j]
            BY <3>2, <4>4, <5>1
          <5>3. g[j] = step[j][g[j - 1]]
            BY <3>1, <5>1
          <5>4. QED
            BY <4>2, <5>2, <5>3
        <4>5. QED
          BY <4>3, <4>4
      <3> HIDE DEF h
      <3>6. h \in Good(k + 1)
        BY <3>3, <3>4, <3>5
      <3>7. k + 1 \in 0 .. m0
        BY <2>2
      <3>8. QED
        BY <3>6, <3>7
    <2> HIDE DEF Q
    <2>3. m0 \in Q
      <3>1. 0 .. m0 \subseteq Q
        BY <2>1, <2>2, Induct
      <3>2. QED
        BY <3>1
    <2>4. QED
      BY <2>3 DEF Q
  \* two of them agree as far as the shorter goes
  <1>2. ASSUME NEW k \in Nat, NEW g \in Good(k), NEW h \in Good(k + 1) PROVE g[k] = h[k]
    <2> DEFINE Q == {i \in 0 .. k : g[i] = h[i]}
    <2>1. 0 \in Q
      BY <1>2
    <2>2. ASSUME NEW i \in 0 .. k - 1, i \in Q PROVE i + 1 \in Q
      <3>1. i + 1 \in 1 .. k /\ i + 1 \in 1 .. k + 1 /\ i + 1 \in 0 .. k /\ (i + 1) - 1 = i
        BY <2>2
      <3>2. g[i + 1] = step[i + 1][g[i]] /\ h[i + 1] = step[i + 1][h[i]]
        BY <3>1
      <3>3. QED
        BY <2>2, <3>1, <3>2
    <2> HIDE DEF Q
    <2>3. k \in Q
      <3>1. 0 .. k \subseteq Q
        BY <2>1, <2>2, Induct
      <3>2. QED
        BY <3>1
    <2>4. QED
      BY <2>3 DEF Q
  <1> DEFINE G(k) == CHOOSE g \in Good(k) : TRUE
             f == [k \in Nat |-> G(k)[k]]
  <1>3. \A k \in Nat : G(k) \in Good(k)
    BY <1>1
  <1>4. ASSUME NEW k \in Nat PROVE f[k] \in Y
    <2>1. k \in 0 .. k /\ f[k] = G(k)[k]
      <3>1. k \in 0 .. k
        OBVIOUS
      <3> HIDE DEF G
      <3>2. f[k] = G(k)[k]
        OBVIOUS
      <3>3. QED
        BY <3>1, <3>2
    <2>2. G(k) \in Good(k)
      BY <1>3
    <2> HIDE DEF G, f
    <2>3. G(k) \in [0 .. k -> Y]
      BY <2>2
    <2>4. QED
      BY <2>1, <2>3
  <1>5. f \in [Nat -> Y]
    <2> HIDE DEF G
    <2>1. \A k \in Nat : f[k] = G(k)[k]
      OBVIOUS
    <2>2. \A k \in Nat : G(k)[k] \in Y
      <3> HIDE DEF f
      <3> QED BY <1>4, <2>1
    <2>3. QED
      BY <2>2
  <1>6. f[0] = base
    <2>1. G(0) \in Good(0) /\ f[0] = G(0)[0]
      BY <1>3
    <2>2. QED
      BY <2>1
  <1>7. ASSUME NEW k \in Nat PROVE f[k + 1] = step[k + 1][f[k]]
    <2>1. k + 1 \in Nat /\ k + 1 \in 1 .. k + 1 /\ (k + 1) - 1 = k
      OBVIOUS
    <2>2. G(k + 1) \in Good(k + 1) /\ f[k + 1] = G(k + 1)[k + 1] /\ G(k) \in Good(k) /\ f[k] = G(k)[k]
      BY <1>3, <2>1
    <2>3. G(k + 1)[k + 1] = step[k + 1][G(k + 1)[(k + 1) - 1]]
      BY <2>1, <2>2
    <2> HIDE DEF G, Good, f
    <2>4. G(k)[k] = G(k + 1)[k]
      BY <1>2, <2>2
    <2>5. QED
      BY <2>1, <2>2, <2>3, <2>4
  <1> HIDE DEF f
  <1>8. Iterates(f, Y, base, step)
    BY <1>5, <1>6, <1>7 DEF Iterates
  <1>9. QED
    BY <1>8

-----------------------------------------------------------------------------
(* Sums *)

First(s) == CHOOSE x \in s : TRUE
\* the equation of the fold that sums f over the subsets of a set
Fold(f, g, s) == IF s = {} THEN 0 ELSE f[First(s)] + g[s \ {First(s)}]
FoldOn(f, T, g) == g = [s \in SUBSET T |-> Fold(f, g, s)]

\* The fold over a finite set exists.
LEMMA FoldExists ==
  ASSUME NEW T, IsFiniteSet(T), NEW f, \A x \in T : f[x] \in Int
  PROVE  \E g \in [SUBSET T -> Int] : FoldOn(f, T, g)
  <1> DEFINE Y == [SUBSET T -> Int]
             base == [s \in SUBSET T |-> 0]
             step == [k \in Nat |-> [y \in Y |-> [s \in SUBSET T |-> Fold(f, y, s)]]]
  <1>1. base \in Y
    OBVIOUS
  <1>2. ASSUME NEW y \in Y, NEW s \in SUBSET T PROVE Fold(f, y, s) \in Int
    <2>1. CASE s = {}
      BY <2>1 DEF Fold
    <2>2. CASE s # {}
      <3>1. First(s) \in s
        BY <2>2 DEF First
      <3>2. f[First(s)] \in Int /\ s \ {First(s)} \in SUBSET T
        BY <3>1
      <3>3. y[s \ {First(s)}] \in Int
        BY <3>2
      <3>4. QED
        BY <2>2, <3>2, <3>3 DEF Fold
    <2>3. QED
      BY <2>1, <2>2
  <1>3. \A k \in Nat, y \in Y : step[k][y] \in Y
    <2>1. ASSUME NEW k \in Nat, NEW y \in Y PROVE step[k][y] \in Y
      <3>1. step[k][y] = [s \in SUBSET T |-> Fold(f, y, s)]
        <4> HIDE DEF Y
        <4>1. QED
          OBVIOUS
      <3>2. [s \in SUBSET T |-> Fold(f, y, s)] \in Y
        BY <1>2
      <3>3. QED
        BY <3>1, <3>2
    <2>2. QED
      BY <2>1
  <1>a. PICK F : Iterates(F, Y, base, step)
    <2> HIDE DEF Y, base, step
    <2>1. QED
      BY <1>1, <1>3, Recursion
  <1>4. F \in [Nat -> Y] /\ F[0] = base /\ \A k \in Nat : F[k + 1] = step[k + 1][F[k]]
    BY <1>a DEF Iterates
  <1>5. \A k \in Nat : F[k + 1] = [s \in SUBSET T |-> Fold(f, F[k], s)]
    <2>1. ASSUME NEW k \in Nat PROVE F[k + 1] = [s \in SUBSET T |-> Fold(f, F[k], s)]
      <3>1. F[k] \in Y /\ k + 1 \in Nat
        <4> HIDE DEF Y
        <4>1. QED
          BY <1>4
      <3>2. F[k + 1] = step[k + 1][F[k]]
        BY <1>4
      <3> HIDE DEF Y
      <3>3. QED
        BY <3>1, <3>2
    <2>2. QED
      BY <2>1
  \* what one more turn changes are the sums of larger sets
  <1> DEFINE Q(K) == {k \in 0 .. K : \A s \in SUBSET T : Cardinality(s) <= k => F[k + 1][s] = F[k][s]}
  <1>6. ASSUME NEW K \in Nat PROVE K \in Q(K)
    <2>1. 0 \in Q(K)
      <3>1. ASSUME NEW s \in SUBSET T, Cardinality(s) <= 0 PROVE F[0 + 1][s] = F[0][s]
        <4>1. s = {}
          <5>1. IsFiniteSet(s)
            BY FS_Subset
          <5>2. QED
            BY <3>1, <5>1, FS_EmptySet, FS_CardinalityType
        <4>2. F[0] = base
          BY <1>4
        <4>3. F[0 + 1][s] = Fold(f, F[0], s)
          BY <1>5
        <4>4. QED
          BY <4>1, <4>2, <4>3 DEF Fold
      <3>2. QED
        BY <3>1
    <2>2. ASSUME NEW k \in 0 .. K - 1, k \in Q(K) PROVE k + 1 \in Q(K)
      <3>1. ASSUME NEW s \in SUBSET T, Cardinality(s) <= k + 1 PROVE F[(k + 1) + 1][s] = F[k + 1][s]
        <4>1. F[(k + 1) + 1][s] = Fold(f, F[k + 1], s) /\ F[k + 1][s] = Fold(f, F[k], s)
          <5>1. k \in Nat /\ k + 1 \in Nat
            BY <2>2
          <5>2. F[(k + 1) + 1] = [c \in SUBSET T |-> Fold(f, F[k + 1], c)] /\ F[k + 1] = [c \in SUBSET T |-> Fold(f, F[k], c)]
            BY <1>5, <5>1
          <5>3. QED
            BY <5>2
        <4>2. CASE s = {}
          BY <4>1, <4>2 DEF Fold
        <4>3. CASE s # {}
          <5> DEFINE x == First(s)
          <5>1. x \in s
            BY <4>3 DEF First
          <5> HIDE DEF x
          <5>2. IsFiniteSet(s)
            BY FS_Subset
          <5>3. Cardinality(s \ {x}) = Cardinality(s) - 1 /\ Cardinality(s) \in Nat
            BY <5>1, <5>2, FS_RemoveElement, FS_CardinalityType
          <5>4. s \ {x} \in SUBSET T /\ Cardinality(s \ {x}) <= k
            BY <3>1, <5>3
          <5>5. F[k + 1][s \ {x}] = F[k][s \ {x}]
            BY <2>2, <5>4
          <5>6. QED
            BY <4>1, <4>3, <5>5 DEF Fold, x
        <4>4. QED
          BY <4>2, <4>3
      <3>2. k + 1 \in 0 .. K
        BY <2>2
      <3>3. QED
        BY <3>1, <3>2
    <2> DEFINE P == Q(K)
    <2>3. 0 \in P /\ \A k \in 0 .. K - 1 : k \in P => k + 1 \in P
      BY <2>1, <2>2
    <2> HIDE DEF P, Q
    <2>4. 0 .. K \subseteq P
      BY <2>3, Induct
    <2>5. QED
      BY <2>4 DEF P
  <1> DEFINE K == Cardinality(T)
  <1>7. K \in Nat
    BY FS_CardinalityType
  <1>8. \A s \in SUBSET T : F[K + 1][s] = F[K][s]
    <2>1. \A s \in SUBSET T : Cardinality(s) <= K
      BY FS_Subset
    <2>2. QED
      BY <1>6, <1>7, <2>1
  <1>9. F[K] \in Y /\ F[K] = [s \in SUBSET T |-> F[K][s]]
    BY <1>4, <1>7
  <1>10. F[K] = [s \in SUBSET T |-> Fold(f, F[K], s)]
    <2>1. \A s \in SUBSET T : F[K][s] = Fold(f, F[K], s)
      BY <1>5, <1>7, <1>8
    <2> HIDE DEF K
    <2>2. QED
      BY <1>9, <2>1
  <1>11. QED
    BY <1>9, <1>10 DEF FoldOn

\* Two folds of one function agree on the sets both are defined for.
LEMMA FoldsAgree ==
  ASSUME NEW f, NEW T, NEW U, IsFiniteSet(T), NEW g, NEW h, FoldOn(f, T, g), FoldOn(f, U, h),
         NEW c \in SUBSET T, c \in SUBSET U
  PROVE  g[c] = h[c]
  <1> DEFINE K == Cardinality(T)
             Q == {k \in 0 .. K : \A s \in SUBSET T : s \in SUBSET U /\ Cardinality(s) <= k => g[s] = h[s]}
  <1>1. K \in Nat
    BY FS_CardinalityType
  <1>2. ASSUME NEW s \in SUBSET T, s \in SUBSET U PROVE g[s] = Fold(f, g, s) /\ h[s] = Fold(f, h, s)
    BY <1>2 DEF FoldOn
  <1>3. 0 \in Q
    <2>1. ASSUME NEW s \in SUBSET T, s \in SUBSET U, Cardinality(s) <= 0 PROVE g[s] = h[s]
      <3>1. IsFiniteSet(s)
        BY FS_Subset
      <3>2. s = {}
        BY <2>1, <3>1, FS_EmptySet, FS_CardinalityType
      <3>3. QED
        BY <1>2, <2>1, <3>2 DEF Fold
    <2>2. QED
      BY <1>1, <2>1
  <1>4. ASSUME NEW k \in 0 .. K - 1, k \in Q PROVE k + 1 \in Q
    <2>1. ASSUME NEW s \in SUBSET T, s \in SUBSET U, Cardinality(s) <= k + 1 PROVE g[s] = h[s]
      <3>1. g[s] = Fold(f, g, s) /\ h[s] = Fold(f, h, s)
        BY <1>2, <2>1
      <3>2. CASE s = {}
        BY <3>1, <3>2 DEF Fold
      <3>3. CASE s # {}
        <4> DEFINE x == First(s)
        <4>1. x \in s
          BY <3>3 DEF First
        <4> HIDE DEF x
        <4>2. IsFiniteSet(s)
          BY FS_Subset
        <4>3. Cardinality(s \ {x}) = Cardinality(s) - 1 /\ Cardinality(s) \in Nat
          BY <4>1, <4>2, FS_RemoveElement, FS_CardinalityType
        <4>4. s \ {x} \in SUBSET T /\ s \ {x} \in SUBSET U /\ Cardinality(s \ {x}) <= k
          <5>1. k \in Int
            OBVIOUS
          <5>2. QED
            BY <2>1, <4>3, <5>1
        <4>5. g[s \ {x}] = h[s \ {x}]
          BY <1>4, <4>4
        <4>6. QED
          BY <3>1, <3>3, <4>5 DEF Fold, x
      <3>4. QED
        BY <3>2, <3>3
    <2>2. k + 1 \in 0 .. K
      BY <1>1
    <2>3. QED
      BY <2>1, <2>2
  <1>5. \A s \in SUBSET T : Cardinality(s) <= K
    BY FS_Subset
  <1> HIDE DEF K
  <1>6. K \in 0 .. K
    BY <1>1
  <1>7. K \in Q
    <2> HIDE DEF Q
    <2>1. 0 .. K \subseteq Q
      BY <1>1, <1>3, <1>4, Induct
    <2>2. QED
      BY <1>6, <2>1
  <1>8. QED
    BY <1>5, <1>7

\* The sum over a finite set is the value any of its folds has there.
LEMMA SumIsFold ==
  ASSUME NEW f, NEW T, NEW U, IsFiniteSet(T), U \subseteq T, \A x \in T : f[x] \in Int,
         NEW g, FoldOn(f, T, g)
  PROVE  SumFunctionOnSet(f, U) = g[U]
  <1>1. SumFunctionOnSet(f, U) = (CHOOSE h : h = [s \in SUBSET U |-> Fold(f, h, s)])[U]
    BY DEF SumFunctionOnSet, FoldFunctionOnSet, MapThenFoldSet, Fold, First
  <1> DEFINE h == CHOOSE h : FoldOn(f, U, h)
  <1>2. IsFiniteSet(U)
    BY FS_Subset
  <1>3. FoldOn(f, U, h)
    <2>1. \A x \in U : f[x] \in Int
      OBVIOUS
    <2>2. \E k \in [SUBSET U -> Int] : FoldOn(f, U, k)
      BY <1>2, <2>1, FoldExists
    <2>3. QED
      BY <2>2
  <1>4. SumFunctionOnSet(f, U) = h[U]
    BY <1>1 DEF FoldOn
  <1> HIDE DEF h
  <1>5. U \in SUBSET U /\ U \in SUBSET T
    OBVIOUS
  <1>6. h[U] = g[U]
    BY <1>2, <1>3, <1>5, FoldsAgree
  <1>7. QED
    BY <1>4, <1>6

\* Of a sum any term may be split off.
LEMMA SumSplit ==
  ASSUME NEW f, NEW T, IsFiniteSet(T), \A x \in T : f[x] \in Int
  PROVE  /\ SumFunctionOnSet(f, T) \in Int
         /\ SumFunctionOnSet(f, {}) = 0
         /\ \A x \in T : SumFunctionOnSet(f, T) = f[x] + SumFunctionOnSet(f, T \ {x})
  <1>1. PICK g \in [SUBSET T -> Int] : FoldOn(f, T, g)
    BY FoldExists
  <1>2. \A s \in SUBSET T : SumFunctionOnSet(f, s) = g[s]
    BY <1>1, SumIsFold
  <1>3. \A s \in SUBSET T : g[s] = Fold(f, g, s) /\ g[s] \in Int
    BY <1>1 DEF FoldOn
  <1> DEFINE K == Cardinality(T)
             Q == {k \in 0 .. K : \A s \in SUBSET T : Cardinality(s) <= k => \A x \in s : g[s] = f[x] + g[s \ {x}]}
  <1>4. K \in Nat
    BY FS_CardinalityType
  <1>5. 0 \in Q
    <2>1. ASSUME NEW s \in SUBSET T, Cardinality(s) <= 0, NEW x \in s PROVE FALSE
      <3>1. IsFiniteSet(s)
        BY FS_Subset
      <3>2. s = {}
        BY <2>1, <3>1, FS_EmptySet, FS_CardinalityType
      <3>3. QED
        BY <3>2
    <2>2. QED
      BY <1>4, <2>1
  <1>6. ASSUME NEW k \in 0 .. K - 1, k \in Q PROVE k + 1 \in Q
    <2>1. ASSUME NEW s \in SUBSET T, Cardinality(s) <= k + 1, NEW x \in s PROVE g[s] = f[x] + g[s \ {x}]
      <3> DEFINE y == First(s)
      <3>1. y \in s
        BY DEF First
      <3>2. g[s] = f[y] + g[s \ {y}]
        BY <1>3 DEF Fold
      <3> HIDE DEF y
      <3>3. CASE x = y
        BY <3>2, <3>3
      <3>4. CASE x # y
        <4>1. IsFiniteSet(s)
          BY FS_Subset
        <4>2. Cardinality(s \ {x}) = Cardinality(s) - 1 /\ Cardinality(s \ {y}) = Cardinality(s) - 1 /\ Cardinality(s) \in Nat
          BY <3>1, <4>1, FS_RemoveElement, FS_CardinalityType
        <4>3. k \in Int
          OBVIOUS
        <4>4. Cardinality(s \ {x}) <= k /\ Cardinality(s \ {y}) <= k
          BY <2>1, <4>2, <4>3
        <4>5. g[s \ {x}] = f[y] + g[(s \ {x}) \ {y}]
          <5>1. s \ {x} \in SUBSET T /\ y \in s \ {x}
            BY <3>1, <3>4
          <5>2. QED
            BY <1>6, <4>4, <5>1
        <4>6. g[s \ {y}] = f[x] + g[(s \ {y}) \ {x}]
          <5>1. s \ {y} \in SUBSET T /\ x \in s \ {y}
            BY <3>1, <3>4
          <5>2. QED
            BY <1>6, <4>4, <5>1
        <4>7. (s \ {x}) \ {y} = (s \ {y}) \ {x}
          OBVIOUS
        <4>8. g[(s \ {x}) \ {y}] \in Int /\ f[x] \in Int /\ f[y] \in Int
          BY <1>3, <3>1
        <4>9. \A c, u, v \in Int : u + (v + c) = v + (u + c)
          OBVIOUS
        <4>10. g[s] = f[y] + (f[x] + g[(s \ {x}) \ {y}])
          BY <3>2, <4>6, <4>7
        <4>11. QED
          BY <4>5, <4>8, <4>9, <4>10
      <3>5. QED
        BY <3>3, <3>4
    <2>2. k + 1 \in 0 .. K
      BY <1>4
    <2>3. QED
      BY <2>1, <2>2
  <1>7. \A s \in SUBSET T : Cardinality(s) <= K
    BY FS_Subset
  <1> HIDE DEF K
  <1>8. K \in 0 .. K
    BY <1>4
  <1>9. K \in Q
    <2> HIDE DEF Q
    <2>1. 0 .. K \subseteq Q
      BY <1>4, <1>5, <1>6, Induct
    <2>2. QED
      BY <1>8, <2>1
  <1>10. \A s \in SUBSET T : \A x \in s : g[s] = f[x] + g[s \ {x}]
    BY <1>7, <1>9
  <1>11. SumFunctionOnSet(f, {}) = 0
    BY <1>2, <1>3 DEF Fold
  <1>12. T \in SUBSET T /\ \A x \in T : T \ {x} \in SUBSET T
    OBVIOUS
  <1>13. QED
    BY <1>2, <1>3, <1>10, <1>11, <1>12

\* What the first n terms of f add up to.
Total(f, n) == SumFunctionOnSet(f, 1 .. n)

\* Total is the sum, term by term.
LEMMA TotalSteps ==
  ASSUME NEW f, NEW n \in Nat, \A k \in 1 .. n : f[k] \in Int
  PROVE  /\ Total(f, 0) = 0
         /\ \A k \in 0 .. n : Total(f, k) \in Int
         /\ \A k \in 0 .. n - 1 : Total(f, k + 1) = Total(f, k) + f[k + 1]
  <1>1. Total(f, 0) = 0
    <2>1. 1 .. 0 = {}
      OBVIOUS
    <2>2. IsFiniteSet({}) /\ \A x \in {} : f[x] \in Int
      BY FS_EmptySet
    <2>3. SumFunctionOnSet(f, {}) = 0
      BY <2>2, SumSplit
    <2>4. QED
      BY <2>1, <2>3 DEF Total
  <1>2. ASSUME NEW k \in 0 .. n PROVE IsFiniteSet(1 .. k) /\ \A x \in 1 .. k : f[x] \in Int
    <2>1. IsFiniteSet(1 .. k)
      BY FS_Interval
    <2>2. 1 .. k \subseteq 1 .. n
      OBVIOUS
    <2>3. QED
      BY <2>1, <2>2
  <1>3. ASSUME NEW k \in 0 .. n PROVE Total(f, k) \in Int
    BY <1>2, SumSplit DEF Total
  <1>4. ASSUME NEW k \in 0 .. n - 1 PROVE Total(f, k + 1) = Total(f, k) + f[k + 1]
    <2>1. k + 1 \in 0 .. n /\ k \in 0 .. n /\ k + 1 \in 1 .. k + 1 /\ k + 1 \in 1 .. n
      OBVIOUS
    <2>2. (1 .. k + 1) \ {k + 1} = 1 .. k
      OBVIOUS
    <2>3. Total(f, k + 1) = f[k + 1] + SumFunctionOnSet(f, (1 .. k + 1) \ {k + 1})
      BY <1>2, <2>1, SumSplit DEF Total
    <2>4. Total(f, k + 1) = f[k + 1] + Total(f, k)
      BY <2>2, <2>3 DEF Total
    <2>5. f[k + 1] \in Int /\ Total(f, k) \in Int
      BY <1>3, <2>1
    <2>6. QED
      BY <2>4, <2>5
  <1>5. QED
    BY <1>1, <1>3, <1>4

\* A total depends on the terms only.
LEMMA TotalOfEqual ==
  ASSUME NEW f, NEW g, NEW n \in Nat, \A k \in 1 .. n : f[k] \in Int /\ g[k] = f[k]
  PROVE  Total(f, n) = Total(g, n)
  <1> DEFINE Q == {k \in 0 .. n : Total(f, k) = Total(g, k)}
  <1>1. /\ Total(f, 0) = 0 /\ Total(g, 0) = 0
        /\ \A k \in 0 .. n - 1 : Total(f, k + 1) = Total(f, k) + f[k + 1] /\ Total(g, k + 1) = Total(g, k) + g[k + 1]
    <2>1. \A k \in 1 .. n : f[k] \in Int /\ g[k] \in Int
      OBVIOUS
    <2>2. QED
      BY <2>1, TotalSteps
  <1>2. 0 \in Q
    BY <1>1
  <1>3. \A k \in 0 .. n - 1 : k \in Q => k + 1 \in Q
    BY <1>1
  <1> HIDE DEF Q
  <1>4. 0 .. n \subseteq Q
    BY <1>2, <1>3, Induct
  <1>5. QED
    BY <1>4 DEF Q

\* SumFunction of a sequence is the total of its terms.
LEMMA SumFunctionTotal ==
  ASSUME NEW n \in Nat, NEW f, DOMAIN f = 1 .. n
  PROVE  SumFunction(f) = Total(f, n)
  BY DEF SumFunction, SumFunctionOnSet, Total

-----------------------------------------------------------------------------
(* Sizes of the blocks *)

\* A block is not larger than the one before, and smaller if that has rows.
LEMMA ShrinkBounds ==
  ASSUME NEW x \in Nat
  PROVE  /\ Shrink(x) \in Nat /\ Shrink(x) <= x /\ R * Shrink(x) <= x * (R - S)
         /\ x > 0 => Shrink(x) < x
  <1> DEFINE y == x * (R - S)
             q == Shrink(x)
  <1>1. R \in Nat \ {0} /\ S \in Nat \ {0} /\ R - S \in Nat
    BY ScaleAssumption
  <1>2. y \in Nat
    BY <1>1
  <1>3. q \in Nat /\ y % R \in 0 .. R - 1 /\ y = R * q + (y % R)
    BY <1>1, <1>2, Divides DEF Shrink
  <1>4. R * q \in Nat /\ R * q <= y
    <2>1. R * q \in Nat
      BY <1>1, <1>3
    <2> HIDE DEF q, y
    <2>2. QED
      BY <1>3, <2>1, <1>1
  <1>5. y = x * R - x * S /\ x * R \in Nat /\ x * S \in Nat /\ x * R = R * x
    BY <1>1
  <1>6. q <= x
    <2>1. SUFFICES ASSUME q > x PROVE FALSE
      BY <1>3
    <2> HIDE DEF q
    <2>2. R * q >= R * (x + 1) /\ R * (x + 1) = R * x + R
      BY <1>1, <1>3, <2>1
    <2> HIDE DEF y
    <2>3. QED
      BY <1>1, <1>4, <1>5, <2>2
  <1>7. ASSUME x > 0 PROVE q < x
    <2>1. SUFFICES ASSUME q = x PROVE FALSE
      BY <1>3, <1>6
    <2>2. x * S > 0
      BY <1>1, <1>7
    <2>3. R * q = R * x
      BY <2>1
    <2> HIDE DEF q, y
    <2>4. QED
      BY <1>4, <1>5, <2>2, <2>3
  <1>8. R * Shrink(x) <= x * (R - S)
    BY <1>4
  <1> HIDE DEF y
  <1>9. QED
    BY <1>3, <1>6, <1>7, <1>8

\* The recursive definition of Shrunk.
LEMMA ShrunkSteps ==
  ASSUME NEW x \in Nat
  PROVE  /\ Shrunk(x)[0] = x
         /\ \A k \in Nat : Shrunk(x)[k] \in Nat /\ Shrunk(x)[k + 1] = Shrink(Shrunk(x)[k])
  <1> DEFINE step == [k \in Nat |-> [y \in Nat |-> Shrink(y)]]
             Is(f) == f = [k \in Nat |-> IF k = 0 THEN x ELSE Shrink(f[k - 1])]
             f == Shrunk(x)
  <1>1. \A k \in Nat, y \in Nat : step[k][y] = Shrink(y) /\ step[k][y] \in Nat
    BY ShrinkBounds
  <1>2. PICK F : Iterates(F, Nat, x, step)
    <2> HIDE DEF step
    <2>1. QED
      BY <1>1, Recursion
  <1>3. Is(F)
    <2>1. F \in [Nat -> Nat] /\ F[0] = x /\ \A k \in Nat : F[k + 1] = step[k + 1][F[k]]
      BY <1>2 DEF Iterates
    <2>2. F = [k \in Nat |-> F[k]]
      BY <2>1
    <2>3. ASSUME NEW k \in Nat PROVE F[k] = IF k = 0 THEN x ELSE Shrink(F[k - 1])
      <3>1. CASE k = 0
        BY <2>1, <3>1
      <3>2. CASE k # 0
        <4>1. k - 1 \in Nat /\ (k - 1) + 1 = k
          BY <3>2
        <4>2. F[k] = step[k][F[k - 1]] /\ F[k - 1] \in Nat
          BY <2>1, <4>1
        <4> HIDE DEF step
        <4>3. QED
          BY <1>1, <3>2, <4>2
      <3>3. QED
        BY <3>1, <3>2
    <2>4. QED
      BY <2>2, <2>3
  <1>4. f = CHOOSE g : Is(g)
    BY DEF Shrunk
  <1>5. Is(f)
    <2> HIDE DEF Is, f
    <2>1. QED
      BY <1>3, <1>4
  <1> HIDE DEF f
  <1>6. f[0] = x
    BY <1>5
  <1>7. ASSUME NEW k \in Nat PROVE f[k + 1] = Shrink(f[k])
    <2>1. k + 1 \in Nat /\ k + 1 # 0 /\ (k + 1) - 1 = k
      OBVIOUS
    <2>2. QED
      BY <1>5, <2>1
  <1>8. ASSUME NEW k \in Nat PROVE f[k] \in Nat
    <2> DEFINE Q == {j \in 0 .. k : f[j] \in Nat}
    <2>1. 0 \in Q
      BY <1>6
    <2>2. ASSUME NEW j \in 0 .. k - 1, j \in Q PROVE j + 1 \in Q
      BY <1>7, <2>2, ShrinkBounds
    <2> HIDE DEF Q
    <2>3. 0 .. k \subseteq Q
      BY <2>1, <2>2, Induct
    <2>4. QED
      BY <2>3 DEF Q
  <1>9. QED
    BY <1>6, <1>7, <1>8 DEF f

\* It takes at most x steps to get from x to 0.
LEMMA ShrunkDown ==
  ASSUME NEW x \in Nat, NEW n \in Nat
  PROVE  Shrunk(x)[n] <= IF n <= x THEN x - n ELSE 0
  <1> DEFINE f == Shrunk(x)
             Q == {k \in 0 .. n : f[k] <= IF k <= x THEN x - k ELSE 0}
  <1>1. f[0] = x /\ \A k \in Nat : f[k] \in Nat /\ f[k + 1] = Shrink(f[k])
    BY ShrunkSteps
  <1>2. 0 \in Q
    BY <1>1
  <1>3. ASSUME NEW k \in 0 .. n - 1, k \in Q PROVE k + 1 \in Q
    <2>1. f[k] \in Nat /\ f[k + 1] = Shrink(f[k]) /\ f[k + 1] \in Nat
      BY <1>1
    <2>2. f[k + 1] <= f[k] /\ (f[k] > 0 => f[k + 1] < f[k])
      BY <2>1, ShrinkBounds
    <2>3. f[k] <= IF k <= x THEN x - k ELSE 0
      BY <1>3
    <2> HIDE DEF f
    <2>4. QED
      BY <2>1, <2>2, <2>3
  <1> HIDE DEF Q
  <1>4. 0 .. n \subseteq Q
    BY <1>2, <1>3, Induct
  <1>5. n \in Q
    BY <1>4
  <1>6. QED
    BY <1>5 DEF Q

\* There is a number of blocks that m.list.block may use.
LEMMA NumBlocksExists ==
  ASSUME NEW rows \in Nat, NEW t \in Nat, rows >= t, t * S > R
  PROVE  /\ NumBlocks(rows, t) \in Nat \ {0}
         /\ rows * S * S \in Nat /\ (rows * S * S) \div R - S \in Nat
         /\ R * ((rows * S * S) \div R) <= rows * S * S
         /\ rows * S - R \in Nat
  <1> DEFINE M == rows * S
             T == t * S
             f == Shrunk(M - R)
  <1>1. S \in Nat \ {0} /\ R \in Nat \ {0} /\ M \in Nat /\ T \in Nat /\ T > R
    BY ScaleAssumption
  <1>2. M >= T
    BY <1>1
  <1>3. f[M] <= T - R
    <2>1. M - R \in Nat
      BY <1>1, <1>2
    <2> HIDE DEF M, T
    <2>2. f[M] <= IF M <= M - R THEN (M - R) - M ELSE 0
      BY <1>1, <2>1, ShrunkDown
    <2>3. f[M] <= 0 /\ f[M] \in Nat
      BY <1>1, <2>1, <2>2, ShrunkSteps
    <2> HIDE DEF f
    <2>4. QED
      BY <1>1, <2>3
  <1>4. M \in 1 .. M
    <2> HIDE DEF M, T
    <2>1. QED
      BY <1>1, <1>2
  <1>5. \A k \in Nat : f[k] \in Nat
    <2>1. M - R \in Nat
      BY <1>1, <1>2
    <2> HIDE DEF M
    <2>2. QED
      BY <2>1, ShrunkSteps
  <1>6. \E k \in 1 .. M : f[k] <= T - R /\ (k > 1 => f[k - 1] > T - R)
    <2> HIDE DEF f, M, T
    <2> DEFINE U == {k \in 1 .. M : f[k] <= T - R}
    <2>1. U \in SUBSET Nat /\ U # {}
      BY <1>3, <1>4
    <2>2. PICK k \in U : \A j \in U : k <= j
      <3> HIDE DEF U
      <3>1. QED
        BY <2>1, LeastElement
    <2>3. ASSUME k > 1 PROVE f[k - 1] > T - R
      <3>1. k - 1 \in 1 .. M /\ ~(k <= k - 1)
        BY <1>1, <2>3
      <3>2. ~(f[k - 1] <= T - R) /\ f[k - 1] \in Nat
        BY <1>5, <2>2, <3>1
      <3>3. QED
        BY <1>1, <3>2
    <2>4. QED
      BY <2>2, <2>3
  <1>7. NumBlocks(rows, t) \in 1 .. M
    BY <1>6 DEF NumBlocks
  <1>8. NumBlocks(rows, t) \in Nat \ {0} /\ rows * S - R \in Nat
    <2>1. M - R \in Nat
      BY <1>1, <1>2
    <2> HIDE DEF M
    <2>2. NumBlocks(rows, t) \in Nat \ {0}
      BY <1>1, <1>7
    <2>3. QED
      BY <2>1, <2>2 DEF M
  <1>9. /\ rows * S * S \in Nat /\ (rows * S * S) \div R - S \in Nat
        /\ R * ((rows * S * S) \div R) <= rows * S * S
    <2> DEFINE q == (M * S) \div R
    <2>1. M * S \in Nat
      BY <1>1
    <2>2. q \in Nat /\ (M * S) % R \in 0 .. R - 1 /\ M * S = R * q + ((M * S) % R)
      BY <1>1, <2>1, Divides
    <2>3. M * S >= R * S /\ R * S \in Nat /\ R * q \in Nat
      BY <1>1, <1>2, <2>2
    <2> HIDE DEF q
    <2>4. q >= S
      <3>1. SUFFICES ASSUME q < S PROVE FALSE
        BY <1>1, <2>2
      <3>2. R * (q + 1) <= R * S /\ R * (q + 1) = R * q + R
        BY <1>1, <2>2, <3>1
      <3>3. QED
        BY <1>1, <2>1, <2>2, <2>3, <3>2
    <2>5. R * q <= M * S
      BY <1>1, <2>1, <2>2, <2>3
    <2>6. q - S \in Nat
      BY <1>1, <2>2, <2>4
    <2>7. QED
      BY <2>1, <2>5, <2>6 DEF q
  <1>10. QED
    BY <1>8, <1>9

\* The recursive definition of NSum.
LEMMA NSumSteps ==
  ASSUME NEW rows \in Nat, NEW n, n = Shrunk((rows * S * S) \div R - S), \A k \in Nat : n[k] \in Nat
  PROVE  /\ NSum(rows)[0] = n[0]
         /\ \A k \in Nat : NSum(rows)[k] \in Nat /\ NSum(rows)[k + 1] = NSum(rows)[k] + n[k + 1]
  <1> DEFINE step == [k \in Nat |-> [y \in Nat |-> y + n[k]]]
             Is(f) == f = [k \in Nat |-> IF k = 0 THEN n[0] ELSE f[k - 1] + n[k]]
             f == NSum(rows)
  <1>1. \A k \in Nat, y \in Nat : step[k][y] = y + n[k] /\ step[k][y] \in Nat
    OBVIOUS
  <1>2. PICK F : Iterates(F, Nat, n[0], step)
    <2> HIDE DEF step
    <2>1. n[0] \in Nat
      OBVIOUS
    <2>2. QED
      BY <1>1, <2>1, Recursion
  <1>3. Is(F)
    <2>1. F \in [Nat -> Nat] /\ F[0] = n[0] /\ \A k \in Nat : F[k + 1] = step[k + 1][F[k]]
      BY <1>2 DEF Iterates
    <2>2. F = [k \in Nat |-> F[k]]
      BY <2>1
    <2>3. ASSUME NEW k \in Nat PROVE F[k] = IF k = 0 THEN n[0] ELSE F[k - 1] + n[k]
      <3>1. CASE k = 0
        BY <2>1, <3>1
      <3>2. CASE k # 0
        <4>1. k - 1 \in Nat /\ (k - 1) + 1 = k
          BY <3>2
        <4>2. F[k] = step[k][F[k - 1]] /\ F[k - 1] \in Nat
          BY <2>1, <4>1
        <4> HIDE DEF step
        <4>3. QED
          BY <1>1, <3>2, <4>2
      <3>3. QED
        BY <3>1, <3>2
    <2>4. QED
      BY <2>2, <2>3
  <1>4. f = CHOOSE g : Is(g)
    BY DEF NSum
  <1>5. Is(f)
    <2> HIDE DEF Is, f
    <2>1. QED
      BY <1>3, <1>4
  <1> HIDE DEF f
  <1>6. f[0] = n[0]
    BY <1>5
  <1>7. ASSUME NEW k \in Nat PROVE f[k + 1] = f[k] + n[k + 1]
    <2>1. k + 1 \in Nat /\ k + 1 # 0 /\ (k + 1) - 1 = k
      OBVIOUS
    <2>2. QED
      BY <1>5, <2>1
  <1>8. ASSUME NEW k \in Nat PROVE f[k] \in Nat
    <2> DEFINE Q == {j \in 0 .. k : f[j] \in Nat}
    <2>1. 0 \in Q
      BY <1>6
    <2>2. ASSUME NEW j \in 0 .. k - 1, j \in Q PROVE j + 1 \in Q
      BY <1>7, <2>2
    <2> HIDE DEF Q
    <2>3. 0 .. k \subseteq Q
      BY <2>1, <2>2, Induct
    <2>4. QED
      BY <2>3 DEF Q
  <1>9. QED
    BY <1>6, <1>7, <1>8 DEF f

\* All the n_i together stay r rows below the rows asked for.
LEMMA NSumBounded ==
  ASSUME NEW rows \in Nat, NEW t \in Nat, rows >= t, t * S > R, NEW j \in Nat
  PROVE  NSum(rows)[j] \in Nat /\ NSum(rows)[j + 1] >= NSum(rows)[j] /\ NSum(rows)[j] <= rows * S - R
  <1> DEFINE a == (rows * S * S) \div R
             M == rows * S
             n == Shrunk(a - S)
             f == NSum(rows)
  <1>1. S \in Nat \ {0} /\ R \in Nat /\ R - S \in Nat
    BY ScaleAssumption
  <1>2. a - S \in Nat /\ R * a <= M * S /\ M - R \in Nat /\ M \in Nat
    BY <1>1, NumBlocksExists
  <1>3. n[0] = a - S /\ \A k \in Nat : n[k] \in Nat /\ n[k + 1] = Shrink(n[k])
    <2> HIDE DEF a
    <2>1. QED
      BY <1>2, ShrunkSteps
  <1>4. f[0] = n[0] /\ \A k \in Nat : f[k] \in Nat /\ f[k + 1] = f[k] + n[k + 1]
    <2> DEFINE nn == n
    <2>1. \A k \in Nat : nn[k] \in Nat
      BY <1>3
    <2>2. nn = Shrunk((rows * S * S) \div R - S)
      OBVIOUS
    <2> HIDE DEF nn
    <2>3. f[0] = nn[0] /\ \A k \in Nat : f[k] \in Nat /\ f[k + 1] = f[k] + nn[k + 1]
      BY <2>1, <2>2, NSumSteps
    <2>4. QED
      BY <2>3 DEF nn
  <1> DEFINE Q == {k \in 0 .. j : S * f[k] + (R - S) * n[k] <= S * (M - R)}
  <1>5. 0 \in Q
    <2>1. S * (a - S) + (R - S) * (a - S) = R * a - R * S /\ M * S \in Nat /\ R * S \in Nat /\ R * a \in Int
      <3>1. a \in Int
        BY <1>1, <1>2
      <3> HIDE DEF a
      <3>2. S * (a - S) + (R - S) * (a - S) = R * (a - S)
        BY <1>1, <3>1
      <3>3. QED
        BY <1>1, <1>2, <3>1, <3>2
    <2>2. S * (M - R) = M * S - R * S
      BY <1>1
    <2>3. f[0] = a - S /\ n[0] = a - S
      BY <1>3, <1>4
    <2> HIDE DEF a, f, n, M
    <2>4. QED
      BY <1>2, <2>1, <2>2, <2>3
  <1>6. ASSUME NEW k \in 0 .. j - 1, k \in Q PROVE k + 1 \in Q
    <2> DEFINE x == n[k]
               y == n[k + 1]
               u == f[k]
    <2>1. x \in Nat /\ y \in Nat /\ u \in Nat /\ f[k + 1] = u + y /\ y = Shrink(x)
      BY <1>3, <1>4
    <2>2. R * y <= x * (R - S)
      BY <2>1, ShrinkBounds
    <2>3. S * u + (R - S) * x <= S * (M - R)
      BY <1>6
    <2> HIDE DEF x, y, u, f, n, M
    <2>4. S * (u + y) + (R - S) * y = S * u + R * y
      BY <1>1, <2>1
    <2>5. S * u \in Nat /\ R * y \in Nat /\ (R - S) * x \in Nat /\ (R - S) * x = x * (R - S) /\ S * (M - R) \in Nat
      BY <1>1, <1>2, <2>1
    <2>6. S * (u + y) + (R - S) * y <= S * (M - R)
      BY <2>2, <2>3, <2>4, <2>5
    <2>7. S * f[k + 1] + (R - S) * n[k + 1] <= S * (M - R)
      BY <2>1, <2>6 DEF y
    <2>8. QED
      BY <2>7
  <1> HIDE DEF Q
  <1>7. 0 .. j \subseteq Q
    BY <1>5, <1>6, Induct
  <1>8. j \in Q
    BY <1>7
  <1>9. f[j] <= M - R
    <2> DEFINE x == n[j]
               u == f[j]
    <2>1. x \in Nat /\ u \in Nat
      BY <1>3, <1>4
    <2>2. S * u + (R - S) * x <= S * (M - R)
      BY <1>8 DEF Q
    <2> HIDE DEF x, u, M
    <2>3. (R - S) * x \in Nat /\ S * u \in Nat /\ S * (M - R) \in Nat
      BY <1>1, <1>2, <2>1
    <2>4. S * u <= S * (M - R)
      BY <2>2, <2>3
    <2>5. SUFFICES ASSUME u > M - R PROVE FALSE
      BY <1>1, <1>2, <2>1 DEF u
    <2>6. S * u >= S * ((M - R) + 1) /\ S * ((M - R) + 1) = S * (M - R) + S
      BY <1>1, <1>2, <2>1, <2>5
    <2>7. QED
      BY <1>1, <2>3, <2>4, <2>6
  <1>10. f[j] \in Nat /\ f[j + 1] >= f[j]
    <2>1. f[j] \in Nat /\ f[j + 1] = f[j] + n[j + 1] /\ n[j + 1] \in Nat
      BY <1>3, <1>4
    <2> HIDE DEF f, n
    <2>2. QED
      BY <2>1
  <1>11. QED
    BY <1>9, <1>10

\* Rounding up.
LEMMA CeilBounds ==
  ASSUME NEW x \in Nat
  PROVE  Ceil(x) \in Nat /\ S * Ceil(x) >= x /\ S * Ceil(x) < x + S
  <1> DEFINE q == (-x) \div S
  <1>1. S \in Nat \ {0}
    BY ScaleAssumption
  <1>2. q \in Int /\ S * q <= -x /\ -x < S * q + S
    BY <1>1
  <1>3. Ceil(x) = -q
    BY DEF Ceil
  <1> HIDE DEF q
  <1>4. S * (-q) = -(S * q) /\ S * q \in Int
    BY <1>1, <1>2
  <1>5. S * (-q) >= x /\ S * (-q) < x + S
    BY <1>1, <1>2, <1>4
  <1>6. -q \in Nat
    <2>1. SUFFICES ASSUME q >= 1 PROVE FALSE
      BY <1>2
    <2> DEFINE p == S * q
    <2>2. p > 0
      BY <1>1, <1>2, <2>1
    <2>3. p \in Int /\ p <= -x
      BY <1>2, <1>4
    <2> HIDE DEF p
    <2>4. QED
      BY <2>2, <2>3
  <1>7. QED
    BY <1>3, <1>5, <1>6

\* What is at most c units rounds up to at most c.
LEMMA CeilMonotone ==
  ASSUME NEW x \in Nat, NEW c \in Nat, x <= S * c
  PROVE  Ceil(x) <= c
  <1> DEFINE q == Ceil(x)
  <1>1. S \in Nat \ {0} /\ q \in Nat /\ S * q < x + S
    BY ScaleAssumption, CeilBounds
  <1> HIDE DEF q
  <1>2. SUFFICES ASSUME q >= c + 1 PROVE FALSE
    BY <1>1 DEF q
  <1>3. S * q >= S * (c + 1) /\ S * (c + 1) = S * c + S /\ S * c \in Nat /\ S * q \in Nat
    BY <1>1, <1>2
  <1>4. QED
    BY <1>1, <1>3

\* The sizes are natural numbers that add up to the rows asked for.
LEMMA SizesAddUp ==
  ASSUME NEW rows \in Nat, NEW t \in Nat, rows >= t, t * S > R
  PROVE  /\ BlockSizes(rows, t) \in Seq(Nat) /\ Len(BlockSizes(rows, t)) \in Nat /\ Len(BlockSizes(rows, t)) >= 2
         /\ Total(BlockSizes(rows, t), Len(BlockSizes(rows, t))) = rows
  <1> DEFINE l == NumBlocks(rows, t)
             UpTo(k) == IF k = 0 THEN 0 ELSE Ceil(NSum(rows)[k - 1])
             z == [k \in 1 .. l + 1 |-> IF k <= l THEN UpTo(k) - UpTo(k - 1) ELSE rows - UpTo(l)]
  <1>1. l \in Nat \ {0}
    BY NumBlocksExists
  <1>2. z = BlockSizes(rows, t)
    BY DEF BlockSizes
  <1> HIDE DEF l
  <1>3. ASSUME NEW k \in Nat PROVE UpTo(k) \in Nat /\ UpTo(k + 1) >= UpTo(k) /\ UpTo(k) <= rows
    <2>1. ASSUME NEW j \in Nat PROVE /\ Ceil(NSum(rows)[j]) \in Nat /\ Ceil(NSum(rows)[j]) <= rows
                                     /\ Ceil(NSum(rows)[j]) <= Ceil(NSum(rows)[j + 1])
      <3> DEFINE u == NSum(rows)[j]
                 v == NSum(rows)[j + 1]
      <3>1. u \in Nat /\ v \in Nat /\ u <= v /\ u <= rows * S - R
        BY NSumBounded
      <3> HIDE DEF u, v
      <3>2. rows * S = S * rows /\ rows * S \in Nat /\ R \in Nat
        BY ScaleAssumption
      <3>3. u <= S * rows
        BY <3>1, <3>2
      <3>4. Ceil(u) \in Nat /\ Ceil(v) \in Nat /\ v <= S * Ceil(v)
        BY <3>1, CeilBounds
      <3>5. u <= S * Ceil(v)
        <4>1. S * Ceil(v) \in Nat
          BY <3>4, ScaleAssumption
        <4>2. QED
          BY <3>1, <3>4, <4>1
      <3>6. Ceil(u) <= rows /\ Ceil(u) <= Ceil(v)
        BY <3>1, <3>3, <3>4, <3>5, CeilMonotone
      <3>7. QED
        BY <3>4, <3>6 DEF u, v
    <2>2. CASE k = 0
      <3>1. UpTo(k) = 0 /\ UpTo(k + 1) = Ceil(NSum(rows)[0])
        BY <2>2
      <3>2. QED
        BY <2>1, <3>1
    <2>3. CASE k # 0
      <3>1. k - 1 \in Nat /\ (k - 1) + 1 = k /\ (k + 1) - 1 = k
        BY <2>3
      <3>2. UpTo(k) = Ceil(NSum(rows)[k - 1]) /\ UpTo(k + 1) = Ceil(NSum(rows)[k])
        BY <2>3, <3>1
      <3>3. Ceil(NSum(rows)[k - 1]) <= Ceil(NSum(rows)[k]) /\ Ceil(NSum(rows)[k - 1]) <= rows
        BY <2>1, <3>1
      <3>4. QED
        BY <2>1, <3>1, <3>2, <3>3
    <2>4. QED
      BY <2>2, <2>3
  <1>4. UpTo(0) = 0
    OBVIOUS
  <1> HIDE DEF UpTo
  <1>5. ASSUME NEW k \in 1 .. l + 1 PROVE z[k] \in Nat
    <2>1. CASE k <= l
      <3>1. k - 1 \in Nat /\ (k - 1) + 1 = k /\ z[k] = UpTo(k) - UpTo(k - 1)
        BY <1>1, <2>1
      <3>2. UpTo(k) \in Nat /\ UpTo(k - 1) \in Nat /\ UpTo(k) >= UpTo(k - 1)
        BY <1>3, <3>1
      <3> HIDE DEF z
      <3>3. QED
        BY <3>1, <3>2
    <2>2. CASE ~(k <= l)
      <3>1. z[k] = rows - UpTo(l)
        BY <1>1, <2>2
      <3>2. UpTo(l) \in Nat /\ UpTo(l) <= rows
        BY <1>1, <1>3
      <3> HIDE DEF z
      <3>3. QED
        BY <3>1, <3>2
    <2>3. QED
      BY <2>1, <2>2
  <1>6. z \in Seq(Nat) /\ Len(z) = l + 1
    <2>1. z = [k \in 1 .. l + 1 |-> z[k]] /\ l + 1 \in Nat
      BY <1>1
    <2> HIDE DEF z
    <2>2. z \in [1 .. l + 1 -> Nat]
      BY <1>5, <2>1
    <2>3. QED
      BY <2>1, <2>2
  <1>7. /\ Total(z, 0) = 0 /\ \A k \in 0 .. l + 1 : Total(z, k) \in Int
        /\ \A k \in 0 .. (l + 1) - 1 : Total(z, k + 1) = Total(z, k) + z[k + 1]
    <2> DEFINE n == l + 1
    <2>1. n \in Nat /\ \A k \in 1 .. n : z[k] \in Int
      BY <1>1, <1>5
    <2> HIDE DEF z, n
    <2>2. /\ Total(z, 0) = 0 /\ \A k \in 0 .. n : Total(z, k) \in Int
          /\ \A k \in 0 .. n - 1 : Total(z, k + 1) = Total(z, k) + z[k + 1]
      BY <2>1, TotalSteps
    <2>3. QED
      BY <2>2 DEF n
  <1> DEFINE Q == {k \in 0 .. l : Total(z, k) = UpTo(k)}
  <1>8. 0 \in Q
    BY <1>1, <1>4, <1>7
  <1>9. ASSUME NEW k \in 0 .. l - 1, k \in Q PROVE k + 1 \in Q
    <2>1. k + 1 \in 1 .. l + 1 /\ k + 1 <= l /\ (k + 1) - 1 = k /\ k \in Nat /\ k + 1 \in 0 .. l /\ k \in 0 .. (l + 1) - 1
      BY <1>1
    <2>2. z[k + 1] = UpTo(k + 1) - UpTo(k)
      BY <2>1
    <2>3. UpTo(k) \in Nat /\ UpTo(k + 1) \in Nat
      BY <1>3, <2>1
    <2> HIDE DEF z
    <2>4. Total(z, k + 1) = Total(z, k) + z[k + 1] /\ Total(z, k) = UpTo(k)
      BY <1>7, <1>9, <2>1
    <2>5. QED
      BY <2>1, <2>2, <2>3, <2>4
  <1> HIDE DEF Q
  <1>10. l \in Q
    <2>1. 0 .. l \subseteq Q
      BY <1>1, <1>8, <1>9, Induct
    <2>2. QED
      BY <1>1, <2>1
  <1>11. Total(z, l + 1) = rows
    <2>1. Total(z, l) = UpTo(l) /\ Total(z, l + 1) = Total(z, l) + z[l + 1]
      <3>1. l \in 0 .. (l + 1) - 1
        BY <1>1
      <3>2. QED
        BY <1>7, <1>10, <3>1 DEF Q
    <2>2. z[l + 1] = rows - UpTo(l)
      BY <1>1
    <2>3. UpTo(l) \in Nat
      BY <1>1, <1>3
    <2> HIDE DEF z
    <2>4. QED
      BY <2>1, <2>2, <2>3
  <1> HIDE DEF z
  <1>12. QED
    BY <1>1, <1>2, <1>6, <1>11

-----------------------------------------------------------------------------
(* One step of compute.descriptor *)

\* what the positions in s have left of v, once iter is taken from each
Kept(v, iter, s) == Total([j \in 1 .. Len(s) |-> v[s[j]] - iter], Len(s))

\* Nothing picked, nothing kept.
LEMMA KeptNone ==
  ASSUME NEW v, NEW iter
  PROVE  Kept(v, iter, <<>>) = 0
  <1> DEFINE f == [j \in 1 .. 0 |-> v[<<>>[j]] - iter]
  <1>1. Len(<<>>) = 0
    OBVIOUS
  <1>2. Total(f, 0) = 0
    <2>1. \A k \in 1 .. 0 : f[k] \in Int
      OBVIOUS
    <2> HIDE DEF f
    <2>2. QED
      BY <2>1, TotalSteps
  <1>3. QED
    BY <1>1, <1>2 DEF Kept

\* picking p as well keeps what p has left
KeepsMore(v, iter, s, p) ==
  Kept(v, iter, s) \in Int /\ Kept(v, iter, Append(s, p)) = Kept(v, iter, s) + (v[p] - iter)

\* One more position picked.
LEMMA KeptAppend ==
  ASSUME NEW n \in Nat, NEW v \in Seq(Nat), Len(v) = n, NEW iter \in Nat,
         NEW s \in Seq(Nat), \A j \in 1 .. Len(s) : s[j] \in 1 .. n, NEW p \in 1 .. n
  PROVE  KeepsMore(v, iter, s, p)
  <1> SUFFICES Kept(v, iter, s) \in Int /\ Kept(v, iter, Append(s, p)) = Kept(v, iter, s) + (v[p] - iter)
    BY DEF KeepsMore
  <1> DEFINE k == Len(s)
             f == [j \in 1 .. k |-> v[s[j]] - iter]
             t == Append(s, p)
             g == [j \in 1 .. k + 1 |-> v[t[j]] - iter]
  <1>1. k \in Nat /\ Len(t) = k + 1
    OBVIOUS
  <1>2. t[k + 1] = p /\ \A j \in 1 .. k : t[j] = s[j] /\ s[j] \in 1 .. n
    OBVIOUS
  <1>3. \A q \in 1 .. n : v[q] \in Nat
    OBVIOUS
  <1>4. Kept(v, iter, s) = Total(f, k) /\ Kept(v, iter, t) = Total(g, k + 1)
    BY <1>1 DEF Kept
  <1> HIDE DEF t, k
  <1>5. \A j \in 1 .. k : f[j] \in Int /\ g[j] = f[j] /\ g[j] \in Int
    <2>1. \A j \in 1 .. k : f[j] = v[s[j]] - iter
      OBVIOUS
    <2>2. \A j \in 1 .. k : j \in 1 .. k + 1
      BY <1>1
    <2>3. \A j \in 1 .. k : g[j] = v[t[j]] - iter
      BY <2>2
    <2> HIDE DEF f, g
    <2>4. QED
      BY <1>2, <1>3, <2>1, <2>3
  <1>6. g[k + 1] = v[p] - iter /\ g[k + 1] \in Int
    <2>1. k + 1 \in 1 .. k + 1 /\ v[p] \in Nat
      BY <1>1, <1>3
    <2>2. g[k + 1] = v[t[k + 1]] - iter
      BY <2>1
    <2> HIDE DEF g
    <2>3. QED
      BY <1>2, <2>1, <2>2
  <1>7. \A j \in 1 .. k + 1 : g[j] \in Int
    <2>1. \A j \in 1 .. k + 1 : j = k + 1 \/ j \in 1 .. k
      BY <1>1
    <2> HIDE DEF f, g
    <2>2. QED
      BY <1>5, <1>6, <2>1
  <1> HIDE DEF f, g
  <1>8. Total(f, k) = Total(g, k)
    BY <1>1, <1>5, TotalOfEqual
  <1>9. Total(f, k) \in Int
    <2>1. \A j \in 1 .. k : f[j] \in Int
      BY <1>5
    <2>2. k \in 0 .. k
      BY <1>1
    <2>3. QED
      BY <1>1, <2>1, <2>2, TotalSteps
  <1>10. Total(g, k + 1) = Total(g, k) + g[k + 1]
    <2> DEFINE n1 == k + 1
    <2>1. n1 \in Nat /\ \A j \in 1 .. n1 : g[j] \in Int
      BY <1>1, <1>7
    <2>2. k \in 0 .. n1 - 1
      BY <1>1
    <2> HIDE DEF n1
    <2>3. \A j \in 0 .. n1 - 1 : Total(g, j + 1) = Total(g, j) + g[j + 1]
      BY <2>1, TotalSteps
    <2>4. QED
      BY <2>2, <2>3
  <1>11. QED
    BY <1>4, <1>6, <1>8, <1>9, <1>10 DEF t

\* s holds, in order, the positions of the first k terms of v that exceed iter.
Picks(v, k, iter, s) ==
  /\ s \in Seq(Nat)
  /\ \A j \in 1 .. Len(s) : s[j] \in 1 .. k /\ v[s[j]] > iter
  /\ \A i \in 1 .. Len(s) : \A j \in 1 .. Len(s) : i < j => s[i] < s[j]
  /\ \A p \in 1 .. k : v[p] > iter => \E j \in 1 .. Len(s) : s[j] = p
\* If one term p of them was not picked there are k - 1 at most, and when there
\* are as many, p is the only one left out.
LeftOut(k, p, s) ==
  /\ k < p => Len(s) <= k /\ (Len(s) = k => \A j \in 1 .. Len(s) : s[j] = j)
  /\ k >= p => Len(s) <= k - 1 /\ (Len(s) = k - 1 => \A j \in 1 .. Len(s) : s[j] = IF j < p THEN j ELSE j + 1)
\* Terms that are not picked are smaller than iter, so that more is left.
Amounts(v, k, iter, s) ==
  /\ Kept(v, iter, s) \in Int /\ Kept(v, iter, s) >= Total(v, k) - k * iter
  /\ (\A p \in 1 .. k : v[p] >= iter) => Kept(v, iter, s) = Total(v, k) - k * iter

\* Going on to block k + 1 keeps the picks in order.
LEMMA PicksStep ==
  ASSUME NEW n \in Nat, NEW v \in Seq(Nat), Len(v) = n, NEW iter \in Nat,
         NEW k \in 0 .. n - 1, NEW s, Picks(v, k, iter, s), NEW u,
         u = IF v[k + 1] > iter THEN Append(s, k + 1) ELSE s
  PROVE  Picks(v, k + 1, iter, u)
  <1>1. v[k + 1] \in Nat /\ k + 1 \in Nat /\ Len(s) \in Nat /\ s \in Seq(Nat)
    BY DEF Picks
  <1>2. CASE v[k + 1] > iter
    <2>1. u = Append(s, k + 1) /\ u \in Seq(Nat) /\ Len(u) = Len(s) + 1 /\ u[Len(s) + 1] = k + 1
      BY <1>1, <1>2
    <2>2. \A j \in 1 .. Len(s) : u[j] = s[j]
      BY <1>1, <2>1
    <2>3. \A j \in 1 .. Len(s) : s[j] \in 1 .. k /\ v[s[j]] > iter
      BY DEF Picks
    <2>4. \A j \in 1 .. Len(u) : u[j] \in 1 .. k + 1 /\ v[u[j]] > iter
      BY <1>1, <1>2, <2>1, <2>2, <2>3
    <2>5. ASSUME NEW i \in 1 .. Len(u), NEW j \in 1 .. Len(u), i < j PROVE u[i] < u[j]
      <3>1. i \in 1 .. Len(s) /\ u[i] = s[i] /\ s[i] \in 1 .. k
        BY <1>1, <2>1, <2>2, <2>3, <2>5
      <3>2. CASE j = Len(s) + 1
        BY <2>1, <3>1, <3>2
      <3>3. CASE j # Len(s) + 1
        <4>1. j \in 1 .. Len(s)
          <5>1. Len(u) = Len(s) + 1 /\ Len(s) \in Nat
            BY <1>1, <2>1
          <5>2. QED
            BY <3>3, <5>1
        <4>2. s[i] < s[j]
          <5>1. \A i1 \in 1 .. Len(s) : \A j1 \in 1 .. Len(s) : i1 < j1 => s[i1] < s[j1]
            BY DEF Picks
          <5>2. QED
            BY <2>5, <3>1, <4>1, <5>1
        <4>3. QED
          BY <2>2, <3>1, <4>1, <4>2
      <3>4. QED
        BY <3>2, <3>3
    <2>6. ASSUME NEW p \in 1 .. k + 1, v[p] > iter PROVE \E j \in 1 .. Len(u) : u[j] = p
      <3>1. CASE p = k + 1
        <4>1. Len(s) + 1 \in 1 .. Len(u)
          BY <1>1, <2>1
        <4>2. QED
          BY <2>1, <3>1, <4>1
      <3>2. CASE p # k + 1
        <4>1. p \in 1 .. k
          BY <3>2
        <4>2. PICK j \in 1 .. Len(s) : s[j] = p
          BY <2>6, <4>1 DEF Picks
        <4>3. j \in 1 .. Len(u)
          BY <1>1, <2>1
        <4>4. QED
          BY <2>2, <4>2, <4>3
      <3>3. QED
        BY <3>1, <3>2
    <2>7. QED
      BY <2>1, <2>4, <2>5, <2>6 DEF Picks
  <1>3. CASE ~(v[k + 1] > iter)
    <2>1. u = s
      BY <1>3
    <2>2. \A j \in 1 .. Len(s) : s[j] \in 1 .. k + 1 /\ v[s[j]] > iter
      BY DEF Picks
    <2>3. \A p \in 1 .. k + 1 : v[p] > iter => \E j \in 1 .. Len(s) : s[j] = p
      <3>1. \A p \in 1 .. k + 1 : p = k + 1 \/ p \in 1 .. k
        OBVIOUS
      <3>2. QED
        BY <1>3, <3>1 DEF Picks
    <2>4. QED
      BY <2>1, <2>2, <2>3 DEF Picks
  <1>4. QED
    BY <1>2, <1>3

\* Going on to block k + 1 keeps the p-th block left out.
LEMMA LeftOutStep ==
  ASSUME NEW k \in Nat, NEW p \in Nat \ {0}, NEW s \in Seq(Nat), LeftOut(k, p, s), NEW b \in BOOLEAN,
         k + 1 = p => ~b, NEW u, u = IF b THEN Append(s, k + 1) ELSE s
  PROVE  LeftOut(k + 1, p, u)
  <1>1. Len(s) \in Nat
    OBVIOUS
  <1>2. CASE b
    <2>1. u \in Seq(Nat) /\ Len(u) = Len(s) + 1 /\ u[Len(s) + 1] = k + 1
      BY <1>2
    <2>2. \A j \in 1 .. Len(s) : u[j] = s[j]
      BY <1>2
    <2>3. k + 1 # p
      BY <1>2
    <2>4. CASE k + 1 < p
      <3>1. k < p
        BY <2>4
      <3>2. Len(s) <= k /\ (Len(s) = k => \A j \in 1 .. Len(s) : s[j] = j)
        BY <3>1 DEF LeftOut
      <3>3. Len(u) <= k + 1
        BY <1>1, <2>1, <3>2
      <3>4. ASSUME Len(u) = k + 1, NEW j \in 1 .. Len(u) PROVE u[j] = j
        <4>1. Len(s) = k
          BY <1>1, <2>1, <3>4
        <4>2. j = k + 1 \/ j \in 1 .. Len(s)
          BY <1>1, <3>4, <4>1
        <4>3. QED
          BY <2>1, <2>2, <3>2, <4>1, <4>2
      <3>5. ~(k + 1 >= p)
        BY <2>4
      <3>6. QED
        BY <3>3, <3>4, <3>5 DEF LeftOut
    <2>5. CASE k + 1 > p
      <3>1. k >= p
        BY <2>5
      <3>2. Len(s) <= k - 1 /\ (Len(s) = k - 1 => \A j \in 1 .. Len(s) : s[j] = IF j < p THEN j ELSE j + 1)
        BY <3>1 DEF LeftOut
      <3>3. Len(u) <= (k + 1) - 1
        BY <1>1, <2>1, <3>2
      <3>4. ASSUME Len(u) = (k + 1) - 1, NEW j \in 1 .. Len(u) PROVE u[j] = IF j < p THEN j ELSE j + 1
        <4>1. Len(s) = k - 1
          BY <1>1, <2>1, <3>4
        <4>2. j = k \/ j \in 1 .. Len(s)
          BY <1>1, <3>4, <4>1
        <4>3. CASE j = k
          BY <2>1, <3>1, <4>1, <4>3
        <4>4. CASE j \in 1 .. Len(s)
          BY <2>2, <3>2, <4>1, <4>4
        <4>5. QED
          BY <4>2, <4>3, <4>4
      <3>5. ~(k + 1 < p)
        BY <2>5
      <3>6. QED
        BY <3>3, <3>4, <3>5 DEF LeftOut
    <2>6. QED
      BY <2>3, <2>4, <2>5
  <1>3. CASE ~b
    <2>1. u = s
      BY <1>3
    <2>2. CASE k + 1 < p
      <3>1. k < p /\ ~(k + 1 >= p)
        BY <2>2
      <3>2. Len(s) <= k
        BY <3>1 DEF LeftOut
      <3>3. Len(s) <= k + 1 /\ Len(s) # k + 1
        BY <1>1, <3>2
      <3>4. QED
        BY <2>1, <3>1, <3>3 DEF LeftOut
    <2>3. CASE k + 1 = p
      <3>1. k < p /\ ~(k + 1 < p) /\ (k + 1) - 1 = k
        BY <2>3
      <3>2. Len(s) <= k /\ (Len(s) = k => \A j \in 1 .. Len(s) : s[j] = j)
        BY <3>1 DEF LeftOut
      <3>3. \A j \in 1 .. Len(s) : j < p
        BY <1>1, <2>3, <3>2
      <3>4. QED
        BY <2>1, <3>1, <3>2, <3>3 DEF LeftOut
    <2>4. CASE k + 1 > p
      <3>1. k >= p /\ ~(k + 1 < p) /\ (k + 1) - 1 = k
        BY <2>4
      <3>2. Len(s) <= k - 1
        BY <3>1 DEF LeftOut
      <3>3. Len(s) <= k /\ Len(s) # k
        BY <1>1, <3>2
      <3>4. QED
        BY <2>1, <3>1, <3>3 DEF LeftOut
    <2>5. QED
      BY <2>2, <2>3, <2>4
  <1>4. QED
    BY <1>2, <1>3

\* Going on to block k + 1 keeps the account of what is left.
LEMMA AmountsStep ==
  ASSUME NEW n \in Nat, NEW v \in Seq(Nat), Len(v) = n, NEW iter \in Nat,
         NEW k \in 0 .. n - 1, NEW s, Picks(v, k, iter, s), Amounts(v, k, iter, s), NEW u,
         u = IF v[k + 1] > iter THEN Append(s, k + 1) ELSE s
  PROVE  Amounts(v, k + 1, iter, u)
  <1> DEFINE a == Kept(v, iter, s)
             b == Kept(v, iter, u)
             t == Total(v, k)
             x == v[k + 1]
             y == k * iter
  <1>1. x \in Nat /\ y \in Nat /\ (k + 1) * iter = y + iter
    OBVIOUS
  <1>2. t \in Int /\ Total(v, k + 1) = t + x
    <2>1. \A j \in 1 .. n : v[j] \in Int
      OBVIOUS
    <2>2. k \in 0 .. n
      OBVIOUS
    <2>3. QED
      BY <2>1, <2>2, TotalSteps
  <1>3. a \in Int /\ a >= t - y /\ ((\A p \in 1 .. k : v[p] >= iter) => a = t - y)
    BY DEF Amounts
  <1>4. CASE x > iter
    <2>1. k + 1 \in 1 .. n /\ s \in Seq(Nat) /\ \A j \in 1 .. Len(s) : s[j] \in 1 .. n
      BY DEF Picks
    <2>2. b = a + (x - iter)
      <3>1. u = Append(s, k + 1)
        BY <1>4
      <3> DEFINE p == k + 1
      <3>2. p \in 1 .. n /\ v[p] = x
        BY <2>1
      <3> HIDE DEF p, t, x, y, b
      <3>3. KeepsMore(v, iter, s, p)
        BY <2>1, <3>2, KeptAppend
      <3>4. b = Kept(v, iter, Append(s, p))
        BY <3>1 DEF b, p
      <3>5. QED
        BY <3>2, <3>3, <3>4 DEF KeepsMore
    <2>3. \A p \in 1 .. k : p \in 1 .. k + 1
      OBVIOUS
    <2> HIDE DEF a, b, t, x, y
    <2>4. b \in Int /\ b >= (t + x) - (y + iter)
      BY <1>1, <1>2, <1>3, <2>2
    <2>5. ASSUME \A p \in 1 .. k + 1 : v[p] >= iter PROVE b = (t + x) - (y + iter)
      <3>1. a = t - y
        BY <1>3, <2>3, <2>5
      <3>2. QED
        BY <1>1, <1>2, <2>2, <3>1
    <2>6. QED
      BY <1>1, <1>2, <2>4, <2>5 DEF Amounts, b
  <1>5. CASE ~(x > iter)
    <2>1. b = a
      BY <1>5
    <2>2. \A p \in 1 .. k : p \in 1 .. k + 1
      OBVIOUS
    <2>3. k + 1 \in 1 .. k + 1
      OBVIOUS
    <2>4. x = v[k + 1]
      OBVIOUS
    <2> HIDE DEF a, b, t, x, y
    <2>5. b \in Int /\ b >= (t + x) - (y + iter)
      BY <1>1, <1>2, <1>3, <1>5, <2>1
    <2>6. ASSUME \A p \in 1 .. k + 1 : v[p] >= iter PROVE b = (t + x) - (y + iter)
      <3>1. a = t - y
        BY <1>3, <2>2, <2>6
      <3>2. x >= iter
        BY <2>3, <2>4, <2>6
      <3>3. QED
        BY <1>1, <1>2, <1>5, <2>1, <3>1, <3>2
    <2>7. QED
      BY <1>1, <1>2, <2>5, <2>6 DEF Amounts, b
  <1>6. QED
    BY <1>4, <1>5

\* What Left picks.
LEMMA LeftPicks ==
  ASSUME lst \in Seq(Nat), NEW iter \in Nat
  PROVE  /\ Picks(lst, Len(lst), iter, Left(iter))
         /\ Amounts(lst, Len(lst), iter, Left(iter))
         /\ \A p \in 1 .. Len(lst) : ~(lst[p] > iter) => LeftOut(Len(lst), p, Left(iter))
  <1> DEFINE n == Len(lst)
             step == [k \in Nat |-> [y \in Seq(Nat) |-> IF lst[k] > iter THEN Append(y, k) ELSE y]]
             Is(f) == f = [k \in Nat |-> IF k = 0 THEN <<>>
                                         ELSE IF lst[k] > iter THEN Append(f[k - 1], k) ELSE f[k - 1]]
             f == CHOOSE g : Is(g)
  <1>1. \A k \in Nat, y \in Seq(Nat) :
          step[k][y] = (IF lst[k] > iter THEN Append(y, k) ELSE y) /\ step[k][y] \in Seq(Nat)
    OBVIOUS
  <1>2. PICK F : Iterates(F, Seq(Nat), <<>>, step)
    <2> HIDE DEF step
    <2>1. <<>> \in Seq(Nat)
      OBVIOUS
    <2>2. \A k \in Nat, y \in Seq(Nat) : step[k][y] \in Seq(Nat)
      BY <1>1
    <2>3. QED
      BY <2>1, <2>2, Recursion
  <1>3. Is(F)
    <2>1. F \in [Nat -> Seq(Nat)] /\ F[0] = <<>> /\ \A k \in Nat : F[k + 1] = step[k + 1][F[k]]
      BY <1>2 DEF Iterates
    <2>2. F = [k \in Nat |-> F[k]]
      BY <2>1
    <2>3. ASSUME NEW k \in Nat
          PROVE  F[k] = IF k = 0 THEN <<>> ELSE IF lst[k] > iter THEN Append(F[k - 1], k) ELSE F[k - 1]
      <3>1. CASE k = 0
        BY <2>1, <3>1
      <3>2. CASE k # 0
        <4>1. k - 1 \in Nat /\ (k - 1) + 1 = k
          BY <3>2
        <4>2. F[k] = step[k][F[k - 1]] /\ F[k - 1] \in Seq(Nat)
          BY <2>1, <4>1
        <4> HIDE DEF step
        <4>3. QED
          BY <1>1, <3>2, <4>2
      <3>3. QED
        BY <3>1, <3>2
    <2> HIDE DEF step
    <2>4. QED
      BY <2>2, <2>3
  <1>4. Left(iter) = f[n]
    BY DEF Left
  <1>5. Is(f)
    <2> HIDE DEF Is
    <2>1. QED
      BY <1>3
  <1> HIDE DEF f
  <1>6. f[0] = <<>>
    BY <1>5
  <1>7. ASSUME NEW k \in Nat PROVE f[k + 1] = IF lst[k + 1] > iter THEN Append(f[k], k + 1) ELSE f[k]
    <2>1. k + 1 \in Nat /\ k + 1 # 0 /\ (k + 1) - 1 = k
      OBVIOUS
    <2>2. QED
      BY <1>5, <2>1
  <1>8. n \in Nat /\ n \in 0 .. n /\ \A j \in 1 .. n : lst[j] \in Nat
    OBVIOUS
  <1> HIDE DEF Is, step
  <1>9. ASSUME NEW k \in 0 .. n PROVE Picks(lst, k, iter, f[k]) /\ Amounts(lst, k, iter, f[k])
    <2> DEFINE Q == {j \in 0 .. n : Picks(lst, j, iter, f[j]) /\ Amounts(lst, j, iter, f[j])}
    <2>1. 0 \in Q
      <3>1. <<>> \in Seq(Nat) /\ Len(<<>>) = 0
        OBVIOUS
      <3>2. Picks(lst, 0, iter, <<>>)
        BY <3>1 DEF Picks
      <3>3. Total(lst, 0) = 0
        <4>1. \A j \in 1 .. n : lst[j] \in Int
          BY <1>8
        <4>2. QED
          BY <1>8, <4>1, TotalSteps
      <3>4. Amounts(lst, 0, iter, <<>>)
        BY <3>3, KeptNone DEF Amounts
      <3>5. QED
        BY <1>6, <1>8, <3>2, <3>4
    <2>2. ASSUME NEW j \in 0 .. n - 1, j \in Q PROVE j + 1 \in Q
      <3>0. j \in Nat
        BY <1>8
      <3>1. f[j + 1] = IF lst[j + 1] > iter THEN Append(f[j], j + 1) ELSE f[j]
        BY <1>7, <3>0
      <3>2. Picks(lst, j, iter, f[j]) /\ Amounts(lst, j, iter, f[j])
        BY <2>2
      <3>3. Picks(lst, j + 1, iter, f[j + 1])
        BY <1>8, <3>1, <3>2, PicksStep
      <3>4. Amounts(lst, j + 1, iter, f[j + 1])
        BY <1>8, <3>1, <3>2, AmountsStep
      <3>5. j + 1 \in 0 .. n
        BY <1>8
      <3>6. QED
        BY <3>3, <3>4, <3>5
    <2> HIDE DEF Q, n
    <2>3. 0 .. n \subseteq Q
      BY <1>8, <2>1, <2>2, Induct
    <2>4. QED
      BY <2>3 DEF Q
  <1>10. ASSUME NEW p \in 1 .. n, ~(lst[p] > iter) PROVE LeftOut(n, p, f[n])
    <2> DEFINE Q == {j \in 0 .. n : LeftOut(j, p, f[j])}
    <2>1. 0 \in Q
      <3>1. Len(<<>>) = 0 /\ 0 < p /\ ~(0 >= p)
        OBVIOUS
      <3>2. LeftOut(0, p, <<>>)
        BY <3>1 DEF LeftOut
      <3>3. QED
        BY <1>6, <1>8, <3>2
    <2>2. ASSUME NEW j \in 0 .. n - 1, j \in Q PROVE j + 1 \in Q
      <3> DEFINE b == lst[j + 1] > iter
      <3>1. b \in BOOLEAN
        <4>1. j + 1 \in 1 .. n
          BY <1>8
        <4>2. lst[j + 1] \in Nat
          BY <1>8, <4>1
        <4>3. QED
          OBVIOUS
      <3>2. f[j + 1] = IF b THEN Append(f[j], j + 1) ELSE f[j]
        <4>1. j \in Nat
          BY <1>8
        <4>2. QED
          BY <1>7, <4>1
      <3>3. j + 1 = p => ~b
        BY <1>10
      <3>4. f[j] \in Seq(Nat)
        <4>1. j \in 0 .. n
          BY <1>8
        <4>2. Picks(lst, j, iter, f[j])
          BY <1>9, <4>1
        <4>3. QED
          BY <4>2 DEF Picks
      <3>5. LeftOut(j, p, f[j]) /\ j \in Nat /\ p \in Nat \ {0}
        BY <2>2
      <3> HIDE DEF b
      <3>6. LeftOut(j + 1, p, f[j + 1])
        BY <3>1, <3>2, <3>3, <3>4, <3>5, LeftOutStep
      <3>7. j + 1 \in 0 .. n
        BY <1>8
      <3>8. QED
        BY <3>6, <3>7
    <2> HIDE DEF Q, n
    <2>3. 0 .. n \subseteq Q
      BY <1>8, <2>1, <2>2, Induct
    <2>4. QED
      BY <1>8, <2>3 DEF Q
  <1>11. QED
    BY <1>4, <1>8, <1>9, <1>10

-----------------------------------------------------------------------------
(* The invariant.  L blocks, of which the list lst still has rows of some. *)

L == Len(sizes)
Threads == 0 .. team - 1
Descriptors == [highest : Nat, iter : Nat, bits : Nat, fixup : BOOLEAN, owners : Seq(Nat)]

\* what the parameters say
SizesInv ==
  /\ sizes \in Seq(Nat) /\ L \in Nat /\ L >= 2
  /\ m \in Nat /\ Total(sizes, L) = m
  /\ team \in Nat \ {0} /\ siRows \in Nat /\ siRows <= m

\* no block is forgotten, and the table ends after the last row
DescribeInv ==
  /\ lst \in Seq(Nat) /\ owners \in Seq(Nat) /\ Len(owners) = Len(lst)
  /\ consumed \in Nat /\ fixup \in BOOLEAN
  /\ desc \in Seq(Descriptors)
  /\ \A d \in 1 .. Len(desc) : desc[d].bits \in 1 .. L
  /\ pc = "describe" => Len(desc) + Len(lst) <= L /\ consumed + Total(lst, Len(lst)) >= m
  /\ Described => Len(desc) \in 1 .. L /\ desc[Len(desc)].highest >= m

\* the cursors are in the table
CursorInv ==
  /\ next \in [Threads -> Nat] /\ bIdx \in [Threads -> Nat] /\ lIdx \in [Threads -> Nat]
  /\ cachedI \in [Threads -> Int] /\ inOrder \in [Threads -> Int]
  /\ pc = "describe" =>
       /\ \A h \in Threads : bIdx[h] = 0 /\ lIdx[h] = 0 /\ cachedI[h] = Invalid /\ inOrder[h] = 0
       /\ ~out.ordered
  /\ Described => \A h \in Threads : bIdx[h] < Len(desc)
  /\ out.block \in 0 .. L - 1

PcInv == pc \in {"describe", "sitest", "loop", "failed"}

\* position p of the list has what is left of the block it belongs to
Served(b) ==
  /\ \A p \in 1 .. Len(lst) : owners[p] = b => Total(Serving(b), Len(desc)) + lst[p] = sizes[b + 1]
  /\ (\A p \in 1 .. Len(lst) : owners[p] # b) => Total(Serving(b), Len(desc)) = sizes[b + 1]

\* for blocks of decreasing sizes the descriptors cut off the right rows
Rising ==
  /\ \A b \in 0 .. Len(desc) - 1 : Low(b) < Desc(b).highest
  /\ \A d \in 1 .. Len(desc) : desc[d].fixup => desc[d].bits > 1
BlocksInv ==
  /\ Rising
  /\ pc = "describe" =>
       /\ \A p \in 1 .. Len(lst) : lst[p] > 0
       /\ \A i \in 1 .. Len(lst) - 1 : \A j \in 1 .. Len(lst) - 1 : i < j => lst[j] <= lst[i]
       /\ consumed + Total(lst, Len(lst)) = m /\ consumed = Low(Len(desc))
       /\ \A i \in 1 .. Len(lst) : \A j \in 1 .. Len(lst) : i < j => owners[i] < owners[j]
       /\ \A b \in 0 .. L - 1 : Served(b)
  /\ pc = "sitest" => DescriptorsServeBlocks

\* the multiplier of a position, where there is a descriptor for every block
Named(d) ==
  \A k \in 0 .. desc[d].bits - 1 :
    desc[d].owners[k + 1] = IF desc[d].fixup /\ k = desc[d].bits - 1 THEN L - 1 ELSE k
NamedInv ==
  /\ pc = "describe" /\ Len(desc) + Len(lst) = L =>
       /\ Len(lst) >= 1
       /\ \A p \in 1 .. Len(lst) : owners[p] = IF fixup /\ p = Len(lst) THEN L - 1 ELSE p - 1
       /\ lst[Len(lst)] <= lst[1]
       /\ Len(lst) = 1 => ~fixup
       /\ ~fixup /\ Len(desc) > 0 /\ Len(lst) > 1 => lst[Len(lst)] <= lst[Len(lst) - 1]
       /\ \A d \in 1 .. Len(desc) : Named(d)
  /\ pc = "sitest" /\ Len(desc) = L => \A d \in 1 .. Len(desc) : Named(d)

\* a thread's cursors are where its last call in order left them
At(h) ==
  inOrder[h] # -1 =>
    /\ inOrder[h] \in Nat /\ Low(bIdx[h]) <= inOrder[h] /\ inOrder[h] <= Desc(bIdx[h]).highest
    /\ lIdx[h] = inOrder[h] - Low(bIdx[h])
    /\ lIdx[h] > 0 => cachedI[h] = (lIdx[h] - 1) \div Desc(bIdx[h]).bits

TableInv == PcInv /\ SizesInv /\ DescribeInv /\ CursorInv
RegularInv ==
  Regular =>
    /\ BlocksInv
    /\ sizes[1] >= sizes[L] => NamedInv
    /\ Described => \A h \in Threads : At(h)
    /\ RowsByTable

\* The sizes of m.list.block add up to m, and the table is empty.
LEMMA InitInv ==
  ASSUME Init PROVE TableInv
  <1>1. PICK q \in Requests : m = q[1] /\ sizes = BlockSizes(q[1], q[2])
    BY DEF Init
  <1>2. q[1] \in Nat /\ q[2] \in Nat /\ q[1] >= q[2] /\ q[2] * S > R
    BY RequestAssumption
  <1>3. sizes \in Seq(Nat) /\ L \in Nat /\ L >= 2 /\ Total(sizes, L) = m
    BY <1>1, <1>2, SizesAddUp DEF L
  <1>4. team \in Nat \ {0} /\ siRows \in Nat /\ siRows <= m
    BY RequestAssumption DEF Init
  <1>5. SizesInv
    BY <1>1, <1>2, <1>3, <1>4 DEF SizesInv
  <1>6. DescribeInv
    <2>1. lst = sizes /\ owners = [k \in 1 .. L |-> k - 1] /\ consumed = 0 /\ fixup = FALSE /\ desc = <<>>
      BY DEF Init, L
    <2>2. owners \in Seq(Nat) /\ Len(owners) = L
      <3>1. owners \in [1 .. L -> Nat]
        BY <1>3, <2>1
      <3>2. QED
        BY <1>3, <3>1
    <2>3. desc \in Seq(Descriptors) /\ Len(desc) = 0
      BY <2>1
    <2>4. Len(lst) = L
      BY <2>1 DEF L
    <2>5. fixup \in BOOLEAN /\ consumed \in Nat
      BY <2>1
    <2>6. Len(desc) + Len(lst) <= L /\ consumed + Total(lst, Len(lst)) >= m
      BY <1>1, <1>2, <1>3, <2>1, <2>3, <2>4
    <2>7. ~Described
      BY DEF Init, Described
    <2>8. \A d \in 1 .. Len(desc) : desc[d].bits \in 1 .. L
      BY <2>3
    <2>9. lst \in Seq(Nat)
      BY <1>3, <2>1
    <2>10. QED
      BY <2>2, <2>3, <2>4, <2>5, <2>6, <2>7, <2>8, <2>9 DEF DescribeInv
  <1>7. CursorInv
    <2>1. \A h \in Threads : bIdx[h] = 0 /\ lIdx[h] = 0 /\ cachedI[h] = Invalid /\ inOrder[h] = 0
      BY DEF Init, Threads
    <2>2. next \in [Threads -> Nat] /\ bIdx \in [Threads -> Nat] /\ lIdx \in [Threads -> Nat]
      BY DEF Init, Threads
    <2>3. cachedI \in [Threads -> Int] /\ inOrder \in [Threads -> Int]
      BY DEF Init, Threads, Invalid
    <2>4. out.block = 0
      BY DEF Init, NoCall
    <2>5. ~out.ordered
      BY DEF Init, NoCall
    <2>6. ~Described
      BY DEF Init, Described
    <2>7. 0 \in 0 .. L - 1
      BY <1>3
    <2>8. QED
      BY <2>1, <2>2, <2>3, <2>4, <2>5, <2>6, <2>7 DEF CursorInv
  <1>8. PcInv
    BY DEF Init, PcInv
  <1>9. QED
    BY <1>5, <1>6, <1>7, <1>8 DEF TableInv

\* A descriptor's fields.
LEMMA DescriptorFields ==
  ASSUME NEW iter \in Nat, consumed \in Nat, lst \in Seq(Nat), fixup \in BOOLEAN, owners \in Seq(Nat), NEW d,
         d = Descriptor(iter) \/ d = [Descriptor(iter) EXCEPT !.fixup = FALSE]
  PROVE  /\ d \in Descriptors
         /\ d.highest = consumed + iter * Len(lst) /\ d.iter = iter /\ d.bits = Len(lst) /\ d.owners = owners
         /\ d = Descriptor(iter) => d.fixup = fixup
         /\ d = [Descriptor(iter) EXCEPT !.fixup = FALSE] => d.fixup = FALSE
  <1>1. Len(lst) \in Nat /\ iter * Len(lst) \in Nat
    <2>1. Len(lst) \in Nat
      OBVIOUS
    <2> DEFINE n == Len(lst)
    <2> HIDE DEF n
    <2>2. QED
      BY <2>1 DEF n
  <1>2. consumed + iter * Len(lst) \in Nat
    BY <1>1
  <1> DEFINE r == Descriptor(iter)
  <1>3. r \in Descriptors
    BY <1>1, <1>2 DEF Descriptors, Descriptor
  <1>4. r.highest = consumed + iter * Len(lst) /\ r.iter = iter /\ r.bits = Len(lst) /\ r.owners = owners /\ r.fixup = fixup
    BY DEF Descriptor
  <1> HIDE DEF r
  <1>5. CASE d = r
    <2>1. d = [r EXCEPT !.fixup = FALSE] => d.fixup = FALSE
      BY <1>3 DEF Descriptors
    <2>2. QED
      BY <1>3, <1>4, <1>5, <2>1 DEF r
  <1>6. CASE d = [r EXCEPT !.fixup = FALSE]
    <2>1. d \in Descriptors
      BY <1>3, <1>6 DEF Descriptors
    <2>2. d.highest = r.highest /\ d.iter = r.iter /\ d.bits = r.bits /\ d.owners = r.owners
      BY <1>3, <1>6 DEF Descriptors
    <2>3. d.fixup = FALSE
      BY <1>3, <1>6 DEF Descriptors
    <2>4. d = r => d.fixup = fixup
      BY <1>4
    <2>5. QED
      BY <1>4, <2>1, <2>2, <2>3, <2>4 DEF r
  <1>7. d = r \/ d = [r EXCEPT !.fixup = FALSE]
    BY DEF r
  <1>8. QED
    BY <1>5, <1>6, <1>7

\* What Describe does, with iter rows of each block and the positions s left.
Cuts(iter, s) ==
  /\ iter \in Nat /\ iter = Iterations
  /\ \E p \in 1 .. Len(lst) : p >= Len(lst) - 1 /\ lst[p] = iter
  /\ Picks(lst, Len(lst), iter, s) /\ Amounts(lst, Len(lst), iter, s)
  /\ \A p \in 1 .. Len(lst) : ~(lst[p] > iter) => LeftOut(Len(lst), p, s)
  /\ Len(s) \in Nat /\ Len(s) < Len(lst)
  /\ lst' \in Seq(Nat) /\ Len(lst') = Len(s) /\ \A j \in 1 .. Len(s) : lst'[j] = lst[s[j]] - iter
  /\ owners' \in Seq(Nat) /\ Len(owners') = Len(s) /\ \A j \in 1 .. Len(s) : owners'[j] = owners[s[j]]
  /\ Total(lst', Len(s)) = Kept(lst, iter, s)
  /\ consumed' = consumed + iter * Len(lst) /\ consumed' \in Nat

\* A call of compute.descriptor takes the size of one of the last two blocks from each and leaves out what that uses up.
LEMMA DescribeCuts ==
  ASSUME DescribeInv, Describe
  PROVE  \E iter, s : Cuts(iter, s)
  <1> DEFINE n == Len(lst)
             iter == Iterations
             s == Left(iter)
             k == Len(s)
  <1>1. /\ lst \in Seq(Nat) /\ owners \in Seq(Nat) /\ Len(owners) = n /\ n \in Nat /\ n > 1
        /\ consumed \in Nat
    BY DEF DescribeInv, Describe
  <1>2. n \in 1 .. n /\ n - 1 \in 1 .. n /\ lst[n] \in Nat /\ lst[n - 1] \in Nat
    BY <1>1
  <1>3. iter \in {lst[n - 1], lst[n]}
    BY DEF Iterations
  <1>4. iter \in Nat
    <2> HIDE DEF iter
    <2> QED BY <1>2, <1>3
  <1>5. \E p \in 1 .. n : p >= n - 1 /\ lst[p] = iter
    <2> HIDE DEF iter
    <2>1. CASE iter = lst[n - 1]
      <3>1. n - 1 >= n - 1
        BY <1>1
      <3>2. QED
        BY <1>2, <2>1, <3>1
    <2>2. CASE iter = lst[n]
      <3>1. n >= n - 1
        BY <1>1
      <3>2. QED
        BY <1>2, <2>2, <3>1
    <2>3. QED
      BY <1>3, <2>1, <2>2
  <1>6. lst' = [j \in 1 .. k |-> lst[s[j]] - iter] /\ owners' = [j \in 1 .. k |-> owners[s[j]]]
        /\ consumed' = consumed + iter * n
    BY DEF Describe
  <1>7. iter = Iterations
    OBVIOUS
  <1> HIDE DEF iter
  <1>8. /\ Picks(lst, n, iter, s) /\ Amounts(lst, n, iter, s)
        /\ \A p \in 1 .. n : ~(lst[p] > iter) => LeftOut(n, p, s)
    BY <1>1, <1>4, LeftPicks
  <1> HIDE DEF s
  <1>9. k \in Nat /\ \A j \in 1 .. k : s[j] \in 1 .. n /\ lst[s[j]] > iter
    BY <1>8 DEF Picks
  <1>10. k < n
    <2>1. PICK p \in 1 .. n : lst[p] = iter
      BY <1>5
    <2>2. ~(lst[p] > iter)
      BY <1>4, <2>1
    <2>3. LeftOut(n, p, s)
      BY <1>8, <2>2
    <2>4. k <= n - 1
      BY <2>3 DEF LeftOut
    <2>5. QED
      BY <1>1, <1>9, <2>4
  <1>11. \A j \in 1 .. k : lst[s[j]] - iter \in Nat /\ owners[s[j]] \in Nat
    <2>1. \A p \in 1 .. n : lst[p] \in Nat /\ owners[p] \in Nat
      BY <1>1
    <2>2. QED
      BY <1>4, <1>9, <2>1
  <1>12. lst' \in Seq(Nat) /\ Len(lst') = k
    <2>1. lst' \in [1 .. k -> Nat]
      BY <1>6, <1>11
    <2>2. QED
      BY <1>9, <2>1
  <1>13. owners' \in Seq(Nat) /\ Len(owners') = k
    <2>1. owners' \in [1 .. k -> Nat]
      BY <1>6, <1>11
    <2>2. QED
      BY <1>9, <2>1
  <1>14. Total(lst', k) = Kept(lst, iter, s)
    BY <1>6 DEF Kept
  <1>15. consumed' \in Nat
    <2>1. iter * n \in Nat
      <3> HIDE DEF n
      <3> QED BY <1>1, <1>4
    <2>2. QED
      BY <1>1, <1>6, <2>1
  <1>16. \A j \in 1 .. k : lst'[j] = lst[s[j]] - iter /\ owners'[j] = owners[s[j]]
    BY <1>6
  <1>17. Cuts(iter, s)
    BY <1>4, <1>5, <1>6, <1>7, <1>8, <1>9, <1>10, <1>12, <1>13, <1>14, <1>15, <1>16 DEF Cuts
  <1>18. QED
    BY <1>17

\* The static schedule deals out rows 0 .. m - 1 and no others.
LEMMA FirstRowInRange ==
  ASSUME NEW rows \in Nat, NEW k \in Nat \ {0}, NEW h \in Nat
  PROVE  FirstRow(rows, k, h) \in Nat /\ (h <= k => FirstRow(rows, k, h) <= rows)
  <1> DEFINE q == rows \div k
             e == rows % k
             a == h * q
  <1>1. q \in Nat /\ e \in 0 .. k - 1 /\ rows = k * q + e
    BY Divides
  <1>2. FirstRow(rows, k, h) = a + IF h < e THEN h ELSE e
    BY DEF FirstRow
  <1> HIDE DEF q, e
  <1>3. a \in Nat /\ k * q \in Nat
    BY <1>1
  <1>4. h <= k => a <= k * q
    BY <1>1
  <1> HIDE DEF a
  <1>5. QED
    BY <1>1, <1>2, <1>3, <1>4

\* A call for a row of the loop: descriptor b and local index l.
Calls(h, i, b, l) ==
  /\ b = (IF i = Desc(bIdx[h]).highest THEN bIdx[h] + 1 ELSE bIdx[h])
  /\ l = (IF i = Desc(bIdx[h]).highest THEN 0 ELSE lIdx[h])
  /\ b \in Nat /\ b < Len(desc) /\ l \in Nat
  /\ Desc(b) \in Descriptors /\ Desc(b).bits \in Nat \ {0}
  /\ l \div Desc(b).bits \in Nat /\ Multiplier(b, l % Desc(b).bits) \in 0 .. L - 1
  /\ bIdx' = [bIdx EXCEPT ![h] = b] /\ lIdx' = [lIdx EXCEPT ![h] = l + 1]
  /\ cachedI' = [cachedI EXCEPT ![h] = l \div Desc(b).bits]
  /\ inOrder' = [inOrder EXCEPT ![h] = IF i = inOrder[h] THEN i + 1 ELSE -1]
  /\ out'.i = i /\ out'.row = l \div Desc(b).bits
  /\ out'.block = (IF l \div Desc(b).bits = cachedI[h] THEN Multiplier(b, l % Desc(b).bits) ELSE 0)
  /\ out'.ordered = (inOrder'[h] # -1)

\* Wherever the cursors are, a row below m is found inside the table.
LEMMA ComputeSiCalls ==
  ASSUME TableInv, Described, NEW h \in Threads, NEW i \in Nat, i < m, ComputeSi(h, i)
  PROVE  \E b, l : Calls(h, i, b, l)
  <1> DEFINE c == bIdx[h]
             b == NextCursor(h, i)[1]
             l == NextCursor(h, i)[2]
             bits == Desc(b).bits
             mult == Multiplier(b, l % bits)
  <1>1. /\ c \in Nat /\ c < Len(desc) /\ lIdx[h] \in Nat /\ Len(desc) \in 1 .. L
        /\ desc \in Seq(Descriptors) /\ desc[Len(desc)].highest >= m
        /\ \A d \in 1 .. Len(desc) : desc[d].bits \in 1 .. L
    BY DEF TableInv, DescribeInv, CursorInv
  <1>2. m \in Nat /\ L \in Nat
    BY DEF TableInv, SizesInv
  <1>3. /\ b = (IF i = Desc(c).highest THEN c + 1 ELSE c)
        /\ l = (IF i = Desc(c).highest THEN 0 ELSE lIdx[h])
    BY DEF NextCursor
  <1>4. i = Desc(c).highest => c + 1 < Len(desc)
    <2>1. SUFFICES ASSUME i = Desc(c).highest, ~(c + 1 < Len(desc)) PROVE FALSE
      OBVIOUS
    <2>2. c + 1 = Len(desc)
      BY <1>1, <1>2, <2>1
    <2>3. desc[c + 1].highest \in Nat
      <3>1. desc[c + 1] \in Descriptors
        BY <1>1, <2>2
      <3>2. QED
        BY <3>1 DEF Descriptors
    <2>4. i >= m
      BY <1>1, <2>1, <2>2, <2>3 DEF Desc
    <2>5. QED
      BY <1>2, <2>4
  <1>5. bIdx' = [bIdx EXCEPT ![h] = b] /\ lIdx' = [lIdx EXCEPT ![h] = l + 1]
        /\ cachedI' = [cachedI EXCEPT ![h] = l \div bits]
        /\ inOrder' = [inOrder EXCEPT ![h] = IF i = inOrder[h] THEN i + 1 ELSE -1]
    BY DEF ComputeSi
  <1>6. out' = [thread |-> h, i |-> i, row |-> l \div bits,
                block |-> IF l \div bits = cachedI[h] THEN mult ELSE 0, ordered |-> inOrder'[h] # -1]
    BY DEF ComputeSi
  <1> HIDE DEF b, l
  <1>7. b \in Nat /\ b < Len(desc) /\ l \in Nat
    <2>1. Len(desc) \in Nat
      BY <1>1, <1>2
    <2>2. CASE i = Desc(c).highest
      BY <1>1, <1>3, <1>4, <2>1, <2>2
    <2>3. CASE i # Desc(c).highest
      BY <1>1, <1>3, <2>1, <2>3
    <2>4. QED
      BY <2>2, <2>3
  <1>8. b + 1 \in 1 .. Len(desc)
    BY <1>1, <1>2, <1>7
  <1>9. Desc(b) \in Descriptors
    <2>1. desc[b + 1] \in Descriptors
      BY <1>1, <1>8
    <2>2. QED
      BY <2>1 DEF Desc
  <1>10. bits \in 1 .. L
    BY <1>1, <1>8 DEF Desc
  <1> HIDE DEF bits
  <1>11. bits \in Nat \ {0} /\ l \div bits \in Nat /\ l % bits \in 0 .. bits - 1
    <2>1. bits \in Nat \ {0}
      BY <1>2, <1>10
    <2>2. QED
      BY <1>7, <2>1, Divides
  <1>12. mult \in 0 .. L - 1
    <2> DEFINE e == l % bits
    <2>1. e \in 0 .. bits - 1
      BY <1>11
    <2> HIDE DEF e
    <2>2. Multiplier(b, e) = Len(desc) - 1 \/ Multiplier(b, e) = e
      BY DEF Multiplier
    <2>3. Len(desc) - 1 \in 0 .. L - 1 /\ e \in 0 .. L - 1
      BY <1>1, <1>2, <1>10, <2>1
    <2>4. Multiplier(b, e) \in 0 .. L - 1
      BY <2>2, <2>3
    <2>5. QED
      BY <2>4 DEF e
  <1> HIDE DEF mult
  <1>13. /\ out'.i = i /\ out'.row = l \div bits
         /\ out'.block = (IF l \div bits = cachedI[h] THEN mult ELSE 0)
    BY <1>6
  <1>14. out'.ordered = (inOrder'[h] # -1)
    BY <1>6
  <1>15. Calls(h, i, b, l)
    BY <1>3, <1>5, <1>7, <1>9, <1>11, <1>12, <1>13, <1>14 DEF Calls, bits, mult
  <1>16. QED
    BY <1>15

\* A row of Si_test or of the loop is one of the rows 0 .. m - 1.
LEMMA RowsInRange ==
  ASSUME TableInv, Next, NEW h \in Threads, (SiTest /\ h = 0) \/ Row(h)
  PROVE  /\ next[h] \in Nat /\ next[h] < m /\ ComputeSi(h, next[h]) /\ Described /\ pc' = pc
         /\ next' = [next EXCEPT ![h] = @ + 1]
         /\ UNCHANGED <<m, team, siRows, sizes, lst, owners, consumed, fixup, desc>>
  <1>1. next \in [Threads -> Nat] /\ m \in Nat /\ siRows <= m /\ siRows \in Nat /\ team \in Nat \ {0}
    BY DEF TableInv, CursorInv, SizesInv
  <1>2. next[h] \in Nat
    BY <1>1
  <1>3. CASE SiTest /\ h = 0
    <2>1. next[h] < siRows /\ ComputeSi(h, next[h]) /\ next' = [next EXCEPT ![h] = @ + 1]
      BY <1>3 DEF SiTest
    <2>2. Described
      BY <1>3 DEF SiTest, Described
    <2>3. pc' = pc /\ UNCHANGED <<m, team, siRows, sizes, lst, owners, consumed, fixup, desc>>
      BY <1>3 DEF SiTest
    <2>4. next[h] < m
      BY <1>1, <1>2, <2>1
    <2>5. QED
      BY <1>2, <2>1, <2>2, <2>3, <2>4
  <1>4. CASE Row(h)
    <2>1. next[h] < FirstRow(m, team, h + 1) /\ ComputeSi(h, next[h]) /\ next' = [next EXCEPT ![h] = @ + 1]
      BY <1>4 DEF Row
    <2>2. Described
      BY <1>4 DEF Row, Described
    <2>3. pc' = pc /\ UNCHANGED <<m, team, siRows, sizes, lst, owners, consumed, fixup, desc>>
      BY <1>4 DEF Row
    <2>4. h + 1 \in Nat /\ h + 1 <= team
      BY <1>1 DEF Threads
    <2>5. FirstRow(m, team, h + 1) \in Nat /\ FirstRow(m, team, h + 1) <= m
      <3> DEFINE g == h + 1
      <3>1. g \in Nat /\ g <= team
        BY <2>4
      <3> HIDE DEF g
      <3>2. FirstRow(m, team, g) \in Nat /\ FirstRow(m, team, g) <= m
        BY <1>1, <3>1, FirstRowInRange
      <3>3. QED
        BY <3>2 DEF g
    <2>6. next[h] < m
      BY <1>1, <1>2, <2>1, <2>5
    <2>7. QED
      BY <1>2, <2>1, <2>2, <2>3, <2>6
  <1>5. QED
    BY <1>3, <1>4

\* What every step of the table leaves alone.
LEMMA Unchanging ==
  ASSUME UNCHANGED <<m, team, siRows, sizes>>
  PROVE  L' = L /\ Threads' = Threads /\ (SizesInv => SizesInv')
  BY DEF L, Threads, SizesInv

\* The table grows at the end.
LEMMA Appended ==
  ASSUME desc \in Seq(Descriptors), NEW d \in Descriptors, desc' = Append(desc, d)
  PROVE  /\ desc' \in Seq(Descriptors) /\ Len(desc) \in Nat /\ Len(desc') = Len(desc) + 1 /\ desc'[Len(desc) + 1] = d
         /\ \A k \in 1 .. Len(desc) : desc'[k] = desc[k]
  OBVIOUS

\* A descriptor for each call that finds more than one block left.
LEMMA DescribeTable ==
  ASSUME TableInv, Describe PROVE TableInv'
  <1>1. PcInv /\ SizesInv /\ DescribeInv /\ CursorInv
    BY DEF TableInv
  <1>2. pc = "describe" /\ pc' = pc /\ UNCHANGED <<m, team, siRows, sizes, next, bIdx, lIdx, cachedI, inOrder, out>>
    BY DEF Describe
  <1>3. L' = L /\ Threads' = Threads /\ SizesInv'
    BY <1>1, <1>2, Unchanging
  <1>4. PcInv'
    BY <1>1, <1>2 DEF PcInv
  <1>5. ~Described /\ ~Described'
    BY <1>2 DEF Described
  <1>6. CursorInv'
    BY <1>1, <1>2, <1>3, <1>5 DEF CursorInv
  <1>7. PICK iter, s : Cuts(iter, s)
    BY <1>1, DescribeCuts
  <1> DEFINE n == Len(lst)
             d == Descriptor(iter)
  <1>8. /\ lst \in Seq(Nat) /\ owners \in Seq(Nat) /\ n \in Nat /\ consumed \in Nat /\ fixup \in BOOLEAN
        /\ desc \in Seq(Descriptors) /\ \A k \in 1 .. Len(desc) : desc[k].bits \in 1 .. L
        /\ Len(desc) + n <= L /\ consumed + Total(lst, n) >= m
    BY <1>1, <1>2 DEF DescribeInv
  <1>9. desc' = Append(desc, d) /\ n > 1 /\ fixup' = LastIsLarger
    BY <1>7 DEF Describe, Cuts
  <1>10. iter \in Nat
    BY <1>7 DEF Cuts
  <1>11. d \in Descriptors /\ d.bits = n
    <2> HIDE DEF d
    <2>1. d = Descriptor(iter)
      BY DEF d
    <2>2. QED
      BY <1>8, <1>10, <2>1, DescriptorFields
  <1> HIDE DEF d
  <1>12. /\ desc' \in Seq(Descriptors) /\ Len(desc) \in Nat /\ Len(desc') = Len(desc) + 1 /\ desc'[Len(desc) + 1] = d
         /\ \A k \in 1 .. Len(desc) : desc'[k] = desc[k]
    BY <1>8, <1>9, <1>11, Appended
  <1>13. L \in Nat /\ m \in Nat
    BY <1>1 DEF SizesInv
  <1>14. \A k \in 1 .. Len(desc') : desc'[k].bits \in 1 .. L
    <2>1. ASSUME NEW k \in 1 .. Len(desc') PROVE desc'[k].bits \in 1 .. L
      <3>1. CASE k = Len(desc) + 1
        <4>1. n \in 1 .. L
          BY <1>8, <1>9, <1>12, <1>13
        <4>2. QED
          BY <1>11, <1>12, <3>1, <4>1
      <3>2. CASE k # Len(desc) + 1
        <4>1. k \in 1 .. Len(desc)
          BY <1>12, <3>2
        <4>2. QED
          BY <1>8, <1>12, <4>1
      <3>3. QED
        BY <3>1, <3>2
    <2>2. QED
      BY <2>1
  <1>15. /\ lst' \in Seq(Nat) /\ owners' \in Seq(Nat) /\ Len(owners') = Len(lst') /\ Len(lst') = Len(s)
         /\ Len(s) \in Nat /\ Len(s) < n /\ consumed' \in Nat /\ consumed' = consumed + iter * n
         /\ Total(lst', Len(s)) = Kept(lst, iter, s)
    BY <1>7 DEF Cuts
  <1>16. Len(desc') + Len(lst') <= L
    BY <1>8, <1>12, <1>13, <1>15
  <1>17. consumed' + Total(lst', Len(lst')) >= m
    <2> DEFINE a == Kept(lst, iter, s)
               t == Total(lst, n)
               x == iter * n
    <2>1. a \in Int /\ a >= t - n * iter
      BY <1>7 DEF Cuts, Amounts
    <2>2. t \in Int
      <3>1. \A j \in 1 .. n : lst[j] \in Int
        BY <1>8
      <3>2. n \in 0 .. n
        BY <1>8
      <3>3. QED
        BY <1>8, <3>1, <3>2, TotalSteps
    <2>3. x \in Nat /\ n * iter = x
      <3> HIDE DEF n
      <3> QED BY <1>8, <1>10
    <2>4. consumed + t >= m /\ consumed' = consumed + x /\ Total(lst', Len(lst')) = a
      BY <1>8, <1>15
    <2> HIDE DEF a, t, x, n
    <2>5. a >= t - x
      BY <2>1, <2>3
    <2>6. consumed' + a >= m
      <3>1. a \in Int /\ x \in Nat /\ consumed' = consumed + x /\ consumed + t >= m
        BY <2>1, <2>3, <2>4
      <3>2. consumed \in Nat /\ m \in Nat
        BY <1>8, <1>13
      <3> DEFINE c == consumed'
      <3>3. c = consumed + x
        BY <3>1
      <3> HIDE DEF c
      <3>4. c + a >= m
        BY <2>2, <2>5, <3>1, <3>2, <3>3
      <3>5. QED
        BY <3>4 DEF c
    <2>7. QED
      BY <2>4, <2>6
  <1>18. fixup' \in BOOLEAN
    <2>1. lst[n - 1] \in Nat /\ lst[n] \in Nat
      BY <1>8, <1>9
    <2>2. LastIsLarger \in BOOLEAN
      BY DEF LastIsLarger
    <2>3. QED
      BY <1>9, <2>2
  <1>19. DescribeInv'
    <2>1. \A k \in 1 .. Len(desc') : desc'[k].bits \in 1 .. L'
      BY <1>3, <1>14
    <2>2. Len(desc') + Len(lst') <= L' /\ consumed' + Total(lst', Len(lst')) >= m'
      BY <1>2, <1>3, <1>16, <1>17
    <2>3. QED
      BY <1>5, <1>12, <1>15, <1>18, <2>1, <2>2 DEF DescribeInv
  <1>20. QED
    BY <1>3, <1>4, <1>6, <1>19 DEF TableInv

\* The descriptor of the last block left.
LEMMA DescribeLastTable ==
  ASSUME TableInv, DescribeLast
  PROVE  /\ TableInv'
         /\ lst[1] \in Nat /\ desc' = Append(desc, [Descriptor(lst[1]) EXCEPT !.fixup = FALSE])
         /\ [Descriptor(lst[1]) EXCEPT !.fixup = FALSE] \in Descriptors
  <1>1. PcInv /\ SizesInv /\ DescribeInv /\ CursorInv
    BY DEF TableInv
  <1>2. /\ pc = "describe" /\ pc' = "sitest" /\ Len(lst) = 1
        /\ UNCHANGED <<m, team, siRows, sizes, lst, owners, consumed, fixup, next, bIdx, lIdx, cachedI, inOrder, out>>
    BY DEF DescribeLast
  <1>3. L' = L /\ Threads' = Threads /\ SizesInv'
    BY <1>1, <1>2, Unchanging
  <1>4. PcInv'
    BY <1>2 DEF PcInv
  <1> DEFINE x == lst[1]
             d == [Descriptor(x) EXCEPT !.fixup = FALSE]
  <1>5. /\ lst \in Seq(Nat) /\ owners \in Seq(Nat) /\ Len(owners) = Len(lst) /\ consumed \in Nat /\ fixup \in BOOLEAN
        /\ desc \in Seq(Descriptors) /\ \A k \in 1 .. Len(desc) : desc[k].bits \in 1 .. L
        /\ Len(desc) + Len(lst) <= L /\ consumed + Total(lst, Len(lst)) >= m
    BY <1>1, <1>2 DEF DescribeInv
  <1>6. x \in Nat /\ desc' = Append(desc, d)
    <2>1. x \in Nat
      <3>1. lst \in Seq(Nat) /\ 1 \in 1 .. Len(lst)
        BY <1>2, <1>5
      <3>2. QED
        BY <3>1
    <2>2. desc' = Append(desc, d)
      BY DEF DescribeLast
    <2>3. QED
      BY <2>1, <2>2
  <1> HIDE DEF x
  <1>7. d \in Descriptors /\ d.bits = 1 /\ d.highest = consumed + x * 1
    <2> HIDE DEF d
    <2>1. d = [Descriptor(x) EXCEPT !.fixup = FALSE]
      BY DEF d
    <2>2. x \in Nat
      BY <1>6
    <2> HIDE DEF x
    <2>3. d \in Descriptors /\ d.bits = Len(lst) /\ d.highest = consumed + x * Len(lst)
      BY <1>5, <2>1, <2>2, DescriptorFields
    <2>4. QED
      BY <1>2, <2>3
  <1> HIDE DEF d
  <1>8. /\ desc' \in Seq(Descriptors) /\ Len(desc) \in Nat /\ Len(desc') = Len(desc) + 1 /\ desc'[Len(desc) + 1] = d
        /\ \A k \in 1 .. Len(desc) : desc'[k] = desc[k]
    BY <1>5, <1>6, <1>7, Appended
  <1>9. L \in Nat /\ L >= 2 /\ m \in Nat
    BY <1>1 DEF SizesInv
  <1>10. \A k \in 1 .. Len(desc') : desc'[k].bits \in 1 .. L
    <2>1. ASSUME NEW k \in 1 .. Len(desc') PROVE desc'[k].bits \in 1 .. L
      <3>1. CASE k = Len(desc) + 1
        BY <1>7, <1>8, <1>9, <3>1
      <3>2. CASE k # Len(desc) + 1
        <4>1. k \in 1 .. Len(desc)
          BY <1>8, <3>2
        <4>2. QED
          BY <1>5, <1>8, <4>1
      <3>3. QED
        BY <3>1, <3>2
    <2>2. QED
      BY <2>1
  <1>11. Len(desc') \in 1 .. L
    BY <1>2, <1>5, <1>8, <1>9
  <1>12. desc'[Len(desc')].highest >= m
    <2>1. Total(lst, 1) = x
      <3>1. 1 \in Nat /\ \A k \in 1 .. 1 : lst[k] \in Int
        BY <1>6 DEF x
      <3>2. Total(lst, 0) = 0 /\ Total(lst, 0 + 1) = Total(lst, 0) + lst[0 + 1]
        <4>1. 0 \in 0 .. 1 - 1
          OBVIOUS
        <4>2. QED
          BY <3>1, <4>1, TotalSteps
      <3>3. QED
        BY <1>6, <3>2 DEF x
    <2>2. d.highest >= m
      BY <1>2, <1>5, <1>6, <1>7, <2>1
    <2>3. QED
      BY <1>8, <2>2
  <1>13. DescribeInv'
    <2>1. ~(pc' = "describe")
      BY <1>2
    <2>2. QED
      BY <1>2, <1>3, <1>5, <1>8, <1>10, <1>11, <1>12, <2>1 DEF DescribeInv
  <1>14. CursorInv'
    <2>1. ~(pc' = "describe")
      BY <1>2
    <2>2. \A h \in Threads : bIdx[h] = 0
      BY <1>1, <1>2 DEF CursorInv
    <2>3. \A h \in Threads' : bIdx'[h] < Len(desc')
      BY <1>2, <1>3, <1>8, <2>2
    <2>4. QED
      BY <1>1, <1>2, <1>3, <2>1, <2>3 DEF CursorInv
  <1>15. QED
    BY <1>3, <1>4, <1>6, <1>7, <1>13, <1>14 DEF TableInv, x, d

\* A call of compute_Si moves the cursors inside the table.
LEMMA CallTable ==
  ASSUME TableInv, NEW h \in Threads, NEW i \in Nat, i < m, ComputeSi(h, i), Described, pc' = pc,
         next' = [next EXCEPT ![h] = @ + 1], UNCHANGED <<m, team, siRows, sizes, lst, owners, consumed, fixup, desc>>
  PROVE  TableInv'
  <1>1. PcInv /\ SizesInv /\ DescribeInv /\ CursorInv
    BY DEF TableInv
  <1>2. L' = L /\ Threads' = Threads /\ SizesInv'
    BY <1>1, Unchanging
  <1>3. PcInv'
    BY <1>1 DEF PcInv
  <1>4. Described' = Described /\ pc # "describe" /\ pc' # "describe"
    BY DEF Described
  <1>5. DescribeInv'
    BY <1>1, <1>2, <1>4 DEF DescribeInv
  <1>6. PICK b, l : Calls(h, i, b, l)
    BY ComputeSiCalls
  <1>7. CursorInv'
    <2>1. /\ next \in [Threads -> Nat] /\ bIdx \in [Threads -> Nat] /\ lIdx \in [Threads -> Nat]
          /\ cachedI \in [Threads -> Int] /\ inOrder \in [Threads -> Int]
          /\ \A g \in Threads : bIdx[g] < Len(desc)
      BY <1>1 DEF CursorInv
    <2>2. next' \in [Threads -> Nat]
      BY <2>1
    <2>3. b \in Nat /\ b < Len(desc) /\ l \in Nat /\ bIdx' = [bIdx EXCEPT ![h] = b] /\ lIdx' = [lIdx EXCEPT ![h] = l + 1]
      BY <1>6 DEF Calls
    <2>4. bIdx' \in [Threads -> Nat] /\ lIdx' \in [Threads -> Nat] /\ \A g \in Threads : bIdx'[g] < Len(desc)
      BY <2>1, <2>3
    <2>5. cachedI' \in [Threads -> Int]
      <3> DEFINE q == l \div Desc(b).bits
      <3>1. q \in Nat /\ cachedI' = [cachedI EXCEPT ![h] = q]
        BY <1>6 DEF Calls
      <3> HIDE DEF q
      <3>2. QED
        BY <2>1, <3>1
    <2>6. inOrder' \in [Threads -> Int]
      <3>1. inOrder' = [inOrder EXCEPT ![h] = IF i = inOrder[h] THEN i + 1 ELSE -1]
        BY <1>6 DEF Calls
      <3>2. QED
        BY <2>1, <3>1
    <2>7. out'.block \in 0 .. L - 1
      <3> DEFINE u == Multiplier(b, l % Desc(b).bits)
      <3>1. u \in 0 .. L - 1 /\ (out'.block = u \/ out'.block = 0)
        BY <1>6 DEF Calls
      <3>2. 0 \in 0 .. L - 1
        BY <1>1 DEF SizesInv
      <3>3. QED
        BY <3>1, <3>2
    <2>8. QED
      BY <1>2, <1>4, <2>2, <2>4, <2>5, <2>6, <2>7 DEF CursorInv
  <1>8. QED
    BY <1>2, <1>3, <1>5, <1>7 DEF TableInv

\* The cursors stay where Si_test left them.
LEMMA StartLoopTable ==
  ASSUME TableInv, StartLoop PROVE TableInv'
  <1>1. PcInv /\ SizesInv /\ DescribeInv /\ CursorInv
    BY DEF TableInv
  <1>2. /\ pc = "sitest" /\ pc' = "loop"
        /\ UNCHANGED <<m, team, siRows, sizes, lst, owners, consumed, fixup, desc, bIdx, lIdx, cachedI, inOrder, out>>
    BY DEF StartLoop
  <1>3. L' = L /\ Threads' = Threads /\ SizesInv'
    BY <1>1, <1>2, Unchanging
  <1>4. PcInv'
    BY <1>2 DEF PcInv
  <1>5. Described /\ Described' /\ pc' # "describe"
    BY <1>2 DEF Described
  <1>6. DescribeInv'
    BY <1>1, <1>2, <1>3, <1>5 DEF DescribeInv
  <1>7. next' \in [Threads -> Nat]
    <2>1. next' = [h \in Threads |-> FirstRow(m, team, h)]
      BY DEF StartLoop, Threads
    <2>2. m \in Nat /\ team \in Nat \ {0}
      BY <1>1 DEF SizesInv
    <2>3. \A h \in Threads : FirstRow(m, team, h) \in Nat
      <3>1. \A h \in Threads : h \in Nat
        BY <2>2 DEF Threads
      <3>2. QED
        BY <2>2, <3>1, FirstRowInRange
    <2>4. QED
      BY <2>1, <2>3
  <1>8. CursorInv'
    BY <1>1, <1>2, <1>3, <1>5, <1>7 DEF CursorInv
  <1>9. QED
    BY <1>3, <1>4, <1>6, <1>8 DEF TableInv

\* With no block left the script fails.
LEMMA DescribeNothingTable ==
  ASSUME TableInv, DescribeNothing PROVE TableInv'
  <1>1. PcInv /\ SizesInv /\ DescribeInv /\ CursorInv
    BY DEF TableInv
  <1>2. /\ pc = "describe" /\ pc' = "failed"
        /\ UNCHANGED <<m, team, siRows, sizes, lst, owners, consumed, fixup, desc, next, bIdx, lIdx, cachedI, inOrder, out>>
    BY DEF DescribeNothing
  <1>3. L' = L /\ Threads' = Threads /\ SizesInv'
    BY <1>1, <1>2, Unchanging
  <1>4. PcInv'
    BY <1>2 DEF PcInv
  <1>5. ~Described' /\ pc' # "describe"
    BY <1>2 DEF Described
  <1>6. DescribeInv' /\ CursorInv'
    BY <1>1, <1>2, <1>3, <1>5 DEF DescribeInv, CursorInv
  <1>7. QED
    BY <1>3, <1>4, <1>6 DEF TableInv

\* Every step.
LEMMA NextTable ==
  ASSUME TableInv, [Next]_vars PROVE TableInv'
  <1>1. CASE Describe
    BY <1>1, DescribeTable
  <1>2. CASE DescribeLast
    BY <1>2, DescribeLastTable
  <1>3. CASE DescribeNothing
    BY <1>3, DescribeNothingTable
  <1>4. CASE StartLoop
    BY <1>4, StartLoopTable
  <1>5. ASSUME NEW h \in Threads, (SiTest /\ h = 0) \/ Row(h) PROVE TableInv'
    <2>1. Next
      BY <1>5 DEF Next, Threads
    <2>2. /\ next[h] \in Nat /\ next[h] < m /\ ComputeSi(h, next[h]) /\ Described /\ pc' = pc
          /\ next' = [next EXCEPT ![h] = @ + 1]
          /\ UNCHANGED <<m, team, siRows, sizes, lst, owners, consumed, fixup, desc>>
      BY <1>5, <2>1, RowsInRange
    <2>3. QED
      BY <2>2, CallTable
  <1>6. CASE SiTest
    <2>1. 0 \in Threads
      BY DEF TableInv, SizesInv, Threads
    <2>2. QED
      BY <1>5, <1>6, <2>1
  <1>7. CASE UNCHANGED vars
    <2>1. L' = L /\ Threads' = Threads /\ Described' = Described
      BY <1>7 DEF vars, L, Threads, Described
    <2>2. QED
      BY <1>7, <2>1 DEF vars, TableInv, PcInv, SizesInv, DescribeInv, CursorInv
  <1>8. CASE Stopped
    BY <1>7, <1>8 DEF Stopped
  <1>9. QED
    BY <1>1, <1>2, <1>3, <1>4, <1>5, <1>6, <1>7, <1>8 DEF Next, Threads

\* The sizes are natural numbers that add up to m, and no thread's cursor
\* leaves the table, whatever rows it is asked for: blocks(b_idx, ...) is an
\* unchecked access to an R matrix (weakdes_block.cc 91).
THEOREM TypeCorrect == Spec => []TypeOK
  <1>1. Init => TableInv
    BY InitInv
  <1>2. TableInv /\ [Next]_vars => TableInv'
    BY NextTable
  <1>3. TableInv => TypeOK
    <2>1. SUFFICES ASSUME TableInv PROVE TypeOK
      OBVIOUS
    <2>2. PcInv /\ SizesInv /\ DescribeInv /\ CursorInv
      BY <2>1 DEF TableInv
    <2>3. pc \in {"describe", "sitest", "loop", "failed"}
      BY <2>2 DEF PcInv
    <2>4. m \in Nat /\ team \in Nat \ {0} /\ siRows \in Nat /\ consumed \in Nat
      BY <2>2 DEF SizesInv, DescribeInv
    <2>5. fixup \in BOOLEAN
      BY <2>2 DEF DescribeInv
    <2>6. \A k \in 1 .. Len(sizes) : sizes[k] \in Nat
      BY <2>2 DEF SizesInv, L
    <2>7. SumFunction(sizes) = m
      <3>1. L \in Nat /\ DOMAIN sizes = 1 .. L /\ Total(sizes, L) = m
        BY <2>2 DEF SizesInv, L
      <3>2. QED
        BY <3>1, SumFunctionTotal
    <2>8. ASSUME Described
          PROVE  /\ \A h \in 0 .. team - 1 : bIdx[h] \in 0 .. Len(desc) - 1 /\ lIdx[h] \in Nat
                 /\ out.block \in 0 .. Len(sizes) - 1
      <3>1. /\ bIdx \in [Threads -> Nat] /\ lIdx \in [Threads -> Nat]
            /\ \A h \in Threads : bIdx[h] < Len(desc)
            /\ out.block \in 0 .. L - 1
        BY <2>2, <2>8 DEF CursorInv
      <3>2. Len(desc) \in Nat
        BY <2>2 DEF DescribeInv
      <3>3. QED
        BY <3>1, <3>2 DEF Threads, L
    <2>9. QED
      BY <2>3, <2>4, <2>5, <2>6, <2>7, <2>8 DEF TypeOK
  <1>4. QED
    BY <1>1, <1>2, <1>3, PTL DEF Spec

-----------------------------------------------------------------------------
(* Blocks of decreasing sizes *)

\* The rows a block gets from the descriptors of D.
Share(D, b) == [k \in 1 .. Len(D) |-> IF \E p \in DOMAIN D[k].owners : D[k].owners[p] = b THEN D[k].iter ELSE 0]

\* What descriptor d adds to them when E has it after those of D.
Gains(D, d, E, b) ==
  /\ Total(Share(D, b), Len(D)) \in Int
  /\ (\E p \in DOMAIN d.owners : d.owners[p] = b)
       => Total(Share(E, b), Len(E)) = Total(Share(D, b), Len(D)) + d.iter
  /\ ~(\E p \in DOMAIN d.owners : d.owners[p] = b)
       => Total(Share(E, b), Len(E)) = Total(Share(D, b), Len(D))

\* What a new descriptor adds to a block's share.
LEMMA ShareGrows ==
  ASSUME NEW D \in Seq(Descriptors), NEW d \in Descriptors, NEW E, E = Append(D, d), NEW b
  PROVE  Gains(D, d, E, b)
  <1> DEFINE n == Len(D)
             n1 == n + 1
             f == Share(D, b)
             g == Share(E, b)
             In(c) == \E p \in DOMAIN c.owners : c.owners[p] = b
             x == IF In(d) THEN d.iter ELSE 0
  <1>1. n \in Nat /\ Len(E) = n1 /\ E[n1] = d /\ \A k \in 1 .. n : E[k] = D[k] /\ D[k] \in Descriptors
    OBVIOUS
  <1>2. d.iter \in Nat /\ \A k \in 1 .. n : D[k].iter \in Nat
    BY <1>1 DEF Descriptors
  <1>3. f = [k \in 1 .. n |-> IF In(D[k]) THEN D[k].iter ELSE 0]
    BY DEF Share
  <1>4. g = [k \in 1 .. n1 |-> IF In(E[k]) THEN E[k].iter ELSE 0]
    BY <1>1 DEF Share
  <1> HIDE DEF f, g, In, n
  <1>5. \A k \in 1 .. n : f[k] = (IF In(D[k]) THEN D[k].iter ELSE 0)
    BY <1>3
  <1>6. \A k \in 1 .. n : f[k] \in Nat
    BY <1>2, <1>5
  <1>7. \A k \in 1 .. n : k \in 1 .. n1
    BY <1>1
  <1>8. \A k \in 1 .. n : g[k] = f[k]
    <2> HIDE DEF n1
    <2>1. \A k \in 1 .. n1 : g[k] = (IF In(E[k]) THEN E[k].iter ELSE 0)
      BY <1>4
    <2>2. QED
      BY <1>1, <1>5, <1>7, <2>1
  <1>9. g[n1] = x
    <2>1. n1 \in 1 .. n1
      BY <1>1
    <2> HIDE DEF n1
    <2>2. QED
      BY <1>1, <1>4, <2>1
  <1>10. x \in Nat
    BY <1>2
  <1>11. n1 \in Nat /\ \A k \in 1 .. n1 : g[k] \in Int
    <2>1. \A k \in 1 .. n1 : k = n1 \/ k \in 1 .. n
      BY <1>1
    <2>2. n1 \in Nat
      BY <1>1
    <2> HIDE DEF n1, x
    <2>3. QED
      BY <1>6, <1>8, <1>9, <1>10, <2>1, <2>2
  <1>12. Total(f, n) = Total(g, n)
    <2>1. \A k \in 1 .. n : f[k] \in Int /\ g[k] = f[k]
      BY <1>6, <1>8
    <2>2. QED
      BY <1>1, <2>1, TotalOfEqual
  <1>13. Total(g, n1) = Total(g, n) + g[n1] /\ Total(g, n) \in Int
    <2>1. n \in 0 .. n1 - 1 /\ n \in 0 .. n1
      BY <1>1
    <2>2. n + 1 = n1
      OBVIOUS
    <2> HIDE DEF n1
    <2>3. /\ \A k \in 0 .. n1 : Total(g, k) \in Int
          /\ \A k \in 0 .. n1 - 1 : Total(g, k + 1) = Total(g, k) + g[k + 1]
      BY <1>11, TotalSteps
    <2>4. QED
      BY <2>1, <2>2, <2>3
  <1>14. Total(f, n) \in Int /\ Total(g, Len(E)) = Total(f, n) + x
    BY <1>1, <1>9, <1>12, <1>13
  <1>15. CASE In(d)
    <2>1. Total(g, Len(E)) = Total(f, n) + d.iter
      BY <1>14, <1>15
    <2>2. QED
      BY <1>14, <1>15, <2>1 DEF Gains, f, g, In, n
  <1>16. CASE ~In(d)
    <2>1. x = 0
      BY <1>16
    <2> HIDE DEF x
    <2>2. Total(g, Len(E)) = Total(f, n)
      BY <1>14, <2>1
    <2>3. QED
      BY <1>14, <1>16, <2>2 DEF Gains, f, g, In, n
  <1>17. QED
    BY <1>15, <1>16

\* Sizes that never grow from one block to the next do not grow at all.
LEMMA SortedSizes ==
  ASSUME SizesInv, Regular, NEW i \in 1 .. L - 1, NEW j \in 1 .. L - 1, i < j
  PROVE  sizes[j] <= sizes[i]
  <1> DEFINE K == j - i
             Q == {k \in 0 .. K : sizes[i + k] <= sizes[i]}
  <1>1. L \in Nat /\ \A k \in 1 .. L : sizes[k] \in Nat
    BY DEF SizesInv, L
  <1>2. K \in Nat /\ i \in Nat /\ j \in Nat /\ i + K = j
    BY <1>1
  <1>3. \A k \in 2 .. L - 1 : sizes[k] <= sizes[k - 1]
    BY DEF Regular, L
  <1>4. 0 \in Q
    <2>1. i + 0 = i /\ sizes[i] \in Nat /\ 0 \in 0 .. K
      BY <1>1, <1>2
    <2> HIDE DEF K
    <2>2. sizes[i + 0] <= sizes[i]
      BY <2>1
    <2>3. QED
      BY <2>1, <2>2
  <1>5. ASSUME NEW k \in 0 .. K - 1, k \in Q PROVE k + 1 \in Q
    <2>1. i + (k + 1) \in 2 .. L - 1 /\ (i + (k + 1)) - 1 = i + k /\ k + 1 \in 0 .. K /\ k \in Nat /\ i + k \in 1 .. L /\ i + (k + 1) \in 1 .. L
      BY <1>1, <1>2
    <2>2. sizes[i + (k + 1)] <= sizes[(i + (k + 1)) - 1]
      BY <1>3, <2>1
    <2>3. sizes[i + (k + 1)] <= sizes[i + k] /\ sizes[i + k] <= sizes[i]
      BY <1>5, <2>1, <2>2
    <2>4. sizes[i + (k + 1)] \in Nat /\ sizes[i + k] \in Nat /\ sizes[i] \in Nat
      BY <1>1, <2>1
    <2>5. sizes[i + (k + 1)] <= sizes[i]
      BY <2>3, <2>4
    <2>6. QED
      BY <2>1, <2>5
  <1> HIDE DEF Q, K
  <1>6. 0 .. K \subseteq Q
    BY <1>2, <1>4, <1>5, Induct
  <1>7. K \in Q
    BY <1>2, <1>6
  <1>8. QED
    BY <1>2, <1>7 DEF Q

\* No block has been served.
LEMMA InitRegular ==
  ASSUME Init PROVE RegularInv
  <1>1. TableInv
    BY InitInv
  <1>2. SizesInv /\ CursorInv
    BY <1>1 DEF TableInv
  <1>3. /\ L \in Nat /\ L >= 2 /\ sizes \in Seq(Nat) /\ Total(sizes, L) = m /\ m \in Nat
        /\ \A k \in 1 .. L : sizes[k] \in Nat
    BY <1>2 DEF SizesInv, L
  <1>4. lst = sizes /\ owners = [k \in 1 .. L |-> k - 1] /\ consumed = 0 /\ fixup = FALSE /\ desc = <<>> /\ pc = "describe"
    BY DEF Init, L
  <1>5. Len(lst) = L /\ Len(desc) = 0
    BY <1>4 DEF L
  <1>6. ~Described /\ pc # "sitest" /\ ~out.ordered
    BY <1>2, <1>4 DEF Described, CursorInv
  <1>7. RowsByTable
    BY <1>6 DEF RowsByTable
  <1>8. ASSUME Regular PROVE BlocksInv
    <2>1. Rising
      BY <1>5 DEF Rising
    <2>2. \A p \in 1 .. Len(lst) : lst[p] > 0
      BY <1>4, <1>8 DEF Regular
    <2>3. \A i \in 1 .. Len(lst) - 1 : \A j \in 1 .. Len(lst) - 1 : i < j => lst[j] <= lst[i]
      BY <1>2, <1>4, <1>5, <1>8, SortedSizes
    <2>4. consumed + Total(lst, Len(lst)) = m
      BY <1>3, <1>4, <1>5
    <2>5. consumed = Low(Len(desc))
      BY <1>4, <1>5 DEF Low
    <2>6. \A i \in 1 .. Len(lst) : \A j \in 1 .. Len(lst) : i < j => owners[i] < owners[j]
      BY <1>3, <1>4, <1>5
    <2>7. ASSUME NEW b \in 0 .. L - 1 PROVE Served(b)
      <3>1. Total(Serving(b), Len(desc)) = 0
        <4> DEFINE f == Serving(b)
        <4>1. \A k \in 1 .. 0 : f[k] \in Int
          OBVIOUS
        <4> HIDE DEF f
        <4>2. Total(f, 0) = 0
          BY <4>1, TotalSteps
        <4>3. QED
          BY <1>5, <4>2 DEF f
      <3>2. ASSUME NEW p \in 1 .. Len(lst), owners[p] = b PROVE lst[p] = sizes[b + 1] /\ lst[p] \in Nat
        <4>1. p = b + 1
          BY <1>3, <1>4, <1>5, <3>2
        <4>2. QED
          BY <1>3, <1>4, <1>5, <4>1
      <3>3. b + 1 \in 1 .. Len(lst) /\ owners[b + 1] = b
        BY <1>3, <1>4, <1>5
      <3>4. \A p \in 1 .. Len(lst) : owners[p] = b => Total(Serving(b), Len(desc)) + lst[p] = sizes[b + 1]
        BY <3>1, <3>2
      <3>5. QED
        BY <3>3, <3>4 DEF Served
    <2>8. QED
      BY <1>6, <2>1, <2>2, <2>3, <2>4, <2>5, <2>6, <2>7 DEF BlocksInv
  <1>9. ASSUME sizes[1] >= sizes[L] PROVE NamedInv
    <2>1. Len(lst) >= 1 /\ Len(lst) # 1 /\ ~(Len(desc) > 0)
      BY <1>3, <1>5
    <2>2. \A p \in 1 .. Len(lst) : owners[p] = IF fixup /\ p = Len(lst) THEN L - 1 ELSE p - 1
      BY <1>4, <1>5
    <2>3. lst[Len(lst)] <= lst[1]
      <3>1. sizes[1] \in Nat /\ sizes[L] \in Nat
        BY <1>3
      <3>2. QED
        BY <1>4, <1>5, <1>9, <3>1
    <2>4. \A d \in 1 .. Len(desc) : Named(d)
      BY <1>5
    <2>5. QED
      BY <1>6, <2>1, <2>2, <2>3, <2>4 DEF NamedInv
  <1>10. QED
    BY <1>6, <1>7, <1>8, <1>9 DEF RegularInv

\* No block of a regular list has fewer rows left than the descriptor takes.
LEMMA CutsRegular ==
  ASSUME TableInv, BlocksInv, Describe, NEW iter, NEW s, Cuts(iter, s)
  PROVE  /\ iter \in Nat /\ iter > 0
         /\ \A p \in 1 .. Len(lst) : lst[p] \in Nat /\ lst[p] >= iter
         /\ iter = lst[Len(lst)] \/ (iter = lst[Len(lst) - 1] /\ LastIsLarger)
         /\ LastIsLarger <=> lst[Len(lst) - 1] < lst[Len(lst)]
         /\ ~LastIsLarger => iter = lst[Len(lst)]
         /\ LastIsLarger => iter = lst[Len(lst) - 1]
  <1> DEFINE n == Len(lst)
  <1>1. pc = "describe" /\ n > 1 /\ lst \in Seq(Nat) /\ n \in Nat
    BY DEF Describe, TableInv, DescribeInv
  <1>2. /\ \A p \in 1 .. n : lst[p] > 0
        /\ \A i \in 1 .. n - 1 : \A j \in 1 .. n - 1 : i < j => lst[j] <= lst[i]
    BY <1>1 DEF BlocksInv
  <1>3. iter \in Nat /\ iter = Iterations
    BY DEF Cuts
  <1>4. \A p \in 1 .. n : lst[p] \in Nat
    BY <1>1
  <1>5. n \in 1 .. n /\ n - 1 \in 1 .. n /\ n - 1 \in 1 .. n - 1
    BY <1>1
  <1>6. /\ LastIsLarger <=> lst[n - 1] < lst[n]
        /\ LastIsLarger => iter = lst[n - 1]
        /\ ~LastIsLarger => iter = lst[n]
    BY <1>3 DEF Iterations, LastIsLarger
  <1> HIDE DEF n
  <1>7. iter > 0
    BY <1>2, <1>5, <1>6
  <1>8. iter <= lst[n] /\ iter <= lst[n - 1]
    <2>1. lst[n] \in Nat /\ lst[n - 1] \in Nat
      BY <1>4, <1>5
    <2>2. QED
      BY <1>6, <2>1
  <1>9. ASSUME NEW p \in 1 .. n PROVE lst[p] >= iter
    <2>1. lst[p] \in Nat /\ lst[n] \in Nat /\ lst[n - 1] \in Nat
      BY <1>4, <1>5
    <2>2. p = n \/ p = n - 1 \/ (p \in 1 .. n - 1 /\ p < n - 1)
      BY <1>1
    <2>3. CASE p \in 1 .. n - 1 /\ p < n - 1
      <3>1. lst[n - 1] <= lst[p]
        BY <1>2, <1>5, <2>3
      <3>2. QED
        BY <1>3, <1>8, <2>1, <3>1
    <2>4. QED
      BY <1>3, <1>8, <2>1, <2>2, <2>3
  <1>10. QED
    BY <1>3, <1>4, <1>6, <1>7, <1>9 DEF n

\* What a descriptor serves and what is left add up to the block.
LEMMA DescribeBlocks ==
  ASSUME TableInv, Regular, BlocksInv, Describe PROVE BlocksInv'
  <1>1. PcInv /\ SizesInv /\ DescribeInv /\ CursorInv
    BY DEF TableInv
  <1>2. pc = "describe" /\ pc' = pc /\ UNCHANGED <<m, team, siRows, sizes>>
    BY DEF Describe
  <1>3. L' = L
    BY <1>2 DEF L
  <1>4. PICK iter, s : Cuts(iter, s)
    BY <1>1, DescribeCuts
  <1> DEFINE n == Len(lst)
             k == Len(s)
             d == Descriptor(iter)
  <1>5. /\ iter \in Nat /\ iter > 0 /\ \A p \in 1 .. n : lst[p] \in Nat /\ lst[p] >= iter
    BY <1>4, CutsRegular
  <1>6. /\ lst \in Seq(Nat) /\ owners \in Seq(Nat) /\ Len(owners) = n /\ n \in Nat /\ consumed \in Nat
        /\ fixup \in BOOLEAN /\ desc \in Seq(Descriptors)
    BY <1>1 DEF DescribeInv
  <1>7. desc' = Append(desc, d) /\ n > 1
    BY <1>4 DEF Describe, Cuts
  <1>8. d \in Descriptors /\ d.bits = n /\ d.iter = iter /\ d.owners = owners /\ d.highest = consumed + iter * n
    <2> HIDE DEF d
    <2>1. d = Descriptor(iter)
      BY DEF d
    <2>2. QED
      BY <1>5, <1>6, <2>1, DescriptorFields
  <1> HIDE DEF d
  <1>9. /\ desc' \in Seq(Descriptors) /\ Len(desc) \in Nat /\ Len(desc') = Len(desc) + 1 /\ desc'[Len(desc) + 1] = d
        /\ \A j \in 1 .. Len(desc) : desc'[j] = desc[j]
    BY <1>6, <1>7, <1>8, Appended
  <1>10. /\ Len(lst') = k /\ k \in Nat /\ k < n /\ Len(owners') = k
         /\ \A j \in 1 .. k : lst'[j] = lst[s[j]] - iter /\ owners'[j] = owners[s[j]]
         /\ Total(lst', k) = Kept(lst, iter, s) /\ consumed' = consumed + iter * n /\ consumed' \in Nat
    BY <1>4 DEF Cuts
  <1>11. /\ \A j \in 1 .. k : s[j] \in 1 .. n /\ lst[s[j]] > iter
         /\ \A i \in 1 .. k : \A j \in 1 .. k : i < j => s[i] < s[j]
         /\ \A p \in 1 .. n : lst[p] > iter => \E j \in 1 .. k : s[j] = p
    BY <1>4 DEF Cuts, Picks
  <1>12. /\ Rising
         /\ \A i \in 1 .. n - 1 : \A j \in 1 .. n - 1 : i < j => lst[j] <= lst[i]
         /\ consumed + Total(lst, n) = m /\ consumed = Low(Len(desc))
         /\ \A i \in 1 .. n : \A j \in 1 .. n : i < j => owners[i] < owners[j]
         /\ \A b \in 0 .. L - 1 : Served(b)
    BY <1>2 DEF BlocksInv
  <1>13. iter * n > 0 /\ iter * n \in Nat
    <2> HIDE DEF n
    <2>1. QED
      BY <1>5, <1>6, <1>7
  <1> HIDE DEF n, k
  <1>14. \A j \in 1 .. k : lst'[j] > 0
    <2>1. ASSUME NEW j \in 1 .. k PROVE lst'[j] > 0
      <3>1. lst[s[j]] \in Nat /\ lst[s[j]] > iter
        BY <1>5, <1>11
      <3>2. QED
        BY <1>5, <1>10, <3>1
    <2>2. QED
      BY <2>1
  <1>15. \A i \in 1 .. k - 1 : \A j \in 1 .. k - 1 : i < j => lst'[j] <= lst'[i]
    <2>1. ASSUME NEW i \in 1 .. k - 1, NEW j \in 1 .. k - 1, i < j PROVE lst'[j] <= lst'[i]
      <3>1. i \in 1 .. k /\ j \in 1 .. k /\ k \in 1 .. k /\ j < k
        BY <1>10
      <3>2. s[i] < s[j] /\ s[j] < s[k] /\ s[i] \in 1 .. n /\ s[j] \in 1 .. n /\ s[k] \in 1 .. n
        BY <1>11, <2>1, <3>1
      <3>3. s[i] \in 1 .. n - 1 /\ s[j] \in 1 .. n - 1
        <4>1. n \in Nat
          BY <1>6 DEF n
        <4>2. QED
          BY <3>2, <4>1
      <3>4. lst[s[j]] <= lst[s[i]]
        BY <1>12, <3>2, <3>3
      <3>5. lst[s[j]] \in Nat /\ lst[s[i]] \in Nat
        BY <1>5, <3>2
      <3>6. lst'[i] = lst[s[i]] - iter /\ lst'[j] = lst[s[j]] - iter
        BY <1>10, <3>1
      <3>7. QED
        BY <1>5, <3>4, <3>5, <3>6
    <2>2. QED
      BY <2>1
  <1>16. consumed' + Total(lst', k) = m
    <2> DEFINE a == Kept(lst, iter, s)
               t == Total(lst, n)
               x == iter * n
    <2>1. a = t - n * iter
      BY <1>4, <1>5 DEF Cuts, Amounts, n
    <2>2. n * iter = x
      BY <1>5, <1>6 DEF n
    <2>3. t \in Int
      <3>1. n \in Nat /\ \A j \in 1 .. n : lst[j] \in Int
        BY <1>5, <1>6 DEF n
      <3>2. n \in 0 .. n
        BY <3>1
      <3>3. QED
        BY <3>1, <3>2, TotalSteps
    <2>4. consumed + t = m /\ consumed' = consumed + x /\ Total(lst', k) = a /\ x \in Nat
      BY <1>10, <1>12, <1>13
    <2> HIDE DEF a, t, x
    <2>5. QED
      BY <1>6, <2>1, <2>2, <2>3, <2>4
  <1>17. \A i \in 1 .. k : \A j \in 1 .. k : i < j => owners'[i] < owners'[j]
    <2>1. ASSUME NEW i \in 1 .. k, NEW j \in 1 .. k, i < j PROVE owners'[i] < owners'[j]
      <3>1. s[i] < s[j] /\ s[i] \in 1 .. n /\ s[j] \in 1 .. n
        BY <1>11, <2>1
      <3>2. owners[s[i]] < owners[s[j]]
        BY <1>12, <3>1
      <3>3. QED
        BY <1>10, <3>2
    <2>2. QED
      BY <2>1
  \* the new descriptor begins where the ones before end
  <1>18. \A b \in 0 .. Len(desc) : Low(b)' = Low(b)
    <2>1. ASSUME NEW b \in 0 .. Len(desc) PROVE Low(b)' = Low(b)
      <3>1. CASE b = 0
        BY <3>1 DEF Low
      <3>2. CASE b # 0
        <4>1. (b - 1) + 1 = b /\ b \in 1 .. Len(desc)
          BY <1>9, <3>2
        <4>2. QED
          BY <1>9, <3>2, <4>1 DEF Low, Desc
      <3>3. QED
        BY <3>1, <3>2
    <2>2. QED
      BY <2>1
  <1>19. Low(Len(desc))' = consumed'
    <2>1. (Len(desc') - 1) + 1 = Len(desc') /\ Len(desc') # 0 /\ Len(desc') = Len(desc) + 1
      BY <1>9
    <2>2. Low(Len(desc))' = desc'[Len(desc')].highest
      BY <2>1 DEF Low, Desc
    <2>3. QED
      BY <1>8, <1>9, <1>10, <2>2 DEF n
  <1>20. Rising'
    <2>1. ASSUME NEW b \in 0 .. Len(desc') - 1 PROVE Low(b)' < Desc(b)'.highest
      <3>1. b \in 0 .. Len(desc)
        BY <1>9
      <3>2. Low(b)' = Low(b) /\ Desc(b)' = desc'[b + 1]
        BY <1>18, <3>1 DEF Desc
      <3>3. CASE b = Len(desc)
        <4>1. Low(b) = consumed /\ desc'[b + 1].highest = consumed + iter * n
          BY <1>8, <1>9, <1>12, <3>3 DEF n
        <4>2. QED
          BY <1>6, <1>13, <3>2, <4>1
      <3>4. CASE b # Len(desc)
        <4>1. b \in 0 .. Len(desc) - 1 /\ b + 1 \in 1 .. Len(desc)
          BY <1>9, <3>1, <3>4
        <4>2. Low(b) < desc[b + 1].highest
          BY <1>12, <4>1 DEF Rising, Desc
        <4>3. QED
          BY <1>9, <3>2, <4>1, <4>2
      <3>5. QED
        BY <3>3, <3>4
    <2>2. ASSUME NEW b \in 1 .. Len(desc'), desc'[b].fixup PROVE desc'[b].bits > 1
      <3>1. CASE b = Len(desc) + 1
        BY <1>7, <1>8, <1>9, <3>1 DEF n
      <3>2. CASE b # Len(desc) + 1
        <4>1. b \in 1 .. Len(desc)
          BY <1>9, <3>2
        <4>2. desc'[b] = desc[b]
          BY <1>9, <4>1
        <4>3. desc[b].fixup
          BY <2>2, <4>2
        <4>4. QED
          BY <1>12, <4>1, <4>2, <4>3 DEF Rising
      <3>3. QED
        BY <3>1, <3>2
    <2>3. QED
      BY <2>1, <2>2 DEF Rising
  \* every block that was served by the new descriptor has iter rows less left
  <1>21. ASSUME NEW b \in 0 .. L - 1 PROVE Served(b)'
    <2> DEFINE u == Total(Serving(b), Len(desc))
               w == Total(Serving(b)', Len(desc'))
               In == \E p \in 1 .. n : owners[p] = b
    <2>1. Serving(b) = Share(desc, b) /\ Serving(b)' = Share(desc', b)
      BY DEF Serving, Share
    <2>2. DOMAIN d.owners = 1 .. n
      BY <1>6, <1>8 DEF n
    <2>3. u \in Int /\ (In => w = u + iter) /\ (~In => w = u)
      <3> DEFINE To(D) == Total(Share(D, b), Len(D))
                 Has == \E p \in DOMAIN d.owners : d.owners[p] = b
      <3>1. To(desc) \in Int /\ (Has => To(desc') = To(desc) + d.iter) /\ (~Has => To(desc') = To(desc))
        <4>1. Gains(desc, d, desc', b)
          BY <1>6, <1>7, <1>8, ShareGrows
        <4>2. QED
          BY <4>1 DEF Gains
      <3>2. Has <=> In
        BY <1>8, <2>2
      <3>3. u = To(desc) /\ w = To(desc')
        BY <2>1
      <3> HIDE DEF To, Has, In, u, w
      <3>4. QED
        BY <1>8, <3>1, <3>2, <3>3
    <2>4. /\ \A p \in 1 .. n : owners[p] = b => u + lst[p] = sizes[b + 1]
          /\ (\A p \in 1 .. n : owners[p] # b) => u = sizes[b + 1]
      BY <1>12 DEF Served, n
    <2> HIDE DEF u, w
    <2>5. ASSUME NEW j \in 1 .. k, owners'[j] = b PROVE w + lst'[j] = sizes[b + 1]
      <3>1. s[j] \in 1 .. n /\ owners[s[j]] = b /\ lst'[j] = lst[s[j]] - iter
        BY <1>10, <1>11, <2>5
      <3>2. u + lst[s[j]] = sizes[b + 1] /\ w = u + iter /\ lst[s[j]] \in Nat
        BY <1>5, <2>3, <2>4, <3>1
      <3>3. QED
        BY <1>5, <2>3, <3>1, <3>2
    <2>6. ASSUME \A j \in 1 .. k : owners'[j] # b PROVE w = sizes[b + 1]
      <3>1. CASE In
        <4>1. PICK p \in 1 .. n : owners[p] = b
          BY <3>1
        <4>2. ~(lst[p] > iter)
          <5>1. SUFFICES ASSUME lst[p] > iter PROVE FALSE
            OBVIOUS
          <5>2. PICK j \in 1 .. k : s[j] = p
            BY <1>11, <5>1
          <5>3. owners'[j] = b
            BY <1>10, <4>1, <5>2
          <5>4. QED
            BY <2>6, <5>3
        <4>3. lst[p] = iter
          BY <1>5, <4>2
        <4>4. QED
          BY <2>3, <2>4, <3>1, <4>1, <4>3
      <3>2. CASE ~In
        BY <2>3, <2>4, <3>2
      <3>3. QED
        BY <3>1, <3>2
    <2>7. sizes' = sizes /\ Len(lst') = k
      BY <1>2, <1>10
    <2>8. QED
      BY <2>5, <2>6, <2>7 DEF Served, w
  <1>22. pc' # "sitest"
    BY <1>2
  <1>23. \A b \in 0 .. L' - 1 : Served(b)'
    BY <1>3, <1>21
  <1>24. /\ \A j \in 1 .. Len(lst') : lst'[j] > 0
         /\ \A i \in 1 .. Len(lst') - 1 : \A j \in 1 .. Len(lst') - 1 : i < j => lst'[j] <= lst'[i]
         /\ consumed' + Total(lst', Len(lst')) = m'
         /\ \A i \in 1 .. Len(lst') : \A j \in 1 .. Len(lst') : i < j => owners'[i] < owners'[j]
    BY <1>2, <1>10, <1>14, <1>15, <1>16, <1>17
  <1>25. consumed' = Low(Len(desc))'
    BY <1>19
  <1>26. QED
    BY <1>20, <1>22, <1>23, <1>24, <1>25 DEF BlocksInv

\* While there are as many blocks left as descriptors still to come, every
\* step leaves one block out: the last, or the one before a larger last one.
LEMMA DescribeNamed ==
  ASSUME TableInv, Regular, BlocksInv, NamedInv, Describe PROVE NamedInv'
  <1>1. PcInv /\ SizesInv /\ DescribeInv /\ CursorInv
    BY DEF TableInv
  <1>2. pc = "describe" /\ pc' = pc /\ UNCHANGED <<m, team, siRows, sizes>>
    BY DEF Describe
  <1>3. L' = L
    BY <1>2 DEF L
  <1>4. PICK iter, s : Cuts(iter, s)
    BY <1>1, DescribeCuts
  <1> DEFINE n == Len(lst)
             k == Len(s)
             d == Descriptor(iter)
             p0 == IF LastIsLarger THEN n - 1 ELSE n
  <1>5. /\ iter \in Nat /\ \A p \in 1 .. n : lst[p] \in Nat /\ lst[p] >= iter
        /\ LastIsLarger <=> lst[n - 1] < lst[n]
        /\ ~LastIsLarger => iter = lst[n]
        /\ LastIsLarger => iter = lst[n - 1]
    BY <1>4, CutsRegular
  <1>6. /\ lst \in Seq(Nat) /\ owners \in Seq(Nat) /\ Len(owners) = n /\ n \in Nat /\ consumed \in Nat
        /\ fixup \in BOOLEAN /\ desc \in Seq(Descriptors)
    BY <1>1 DEF DescribeInv
  <1>7. desc' = Append(desc, d) /\ n > 1 /\ fixup' = LastIsLarger
    BY <1>4 DEF Describe, Cuts
  <1>8. d \in Descriptors /\ d.bits = n /\ d.owners = owners /\ d.fixup = fixup
    <2> HIDE DEF d
    <2>1. d = Descriptor(iter)
      BY DEF d
    <2>2. QED
      BY <1>5, <1>6, <2>1, DescriptorFields
  <1> HIDE DEF d
  <1>9. /\ desc' \in Seq(Descriptors) /\ Len(desc) \in Nat /\ Len(desc') = Len(desc) + 1 /\ desc'[Len(desc) + 1] = d
        /\ \A j \in 1 .. Len(desc) : desc'[j] = desc[j]
    BY <1>6, <1>7, <1>8, Appended
  <1>10. /\ Len(lst') = k /\ k \in Nat /\ k < n /\ Len(owners') = k
         /\ \A j \in 1 .. k : lst'[j] = lst[s[j]] - iter /\ owners'[j] = owners[s[j]]
         /\ \A p \in 1 .. n : ~(lst[p] > iter) => LeftOut(n, p, s)
    BY <1>4 DEF Cuts
  <1>11. Len(desc) + n <= L /\ L \in Nat
    BY <1>1, <1>2 DEF DescribeInv, SizesInv
  <1>12. \A i \in 1 .. n - 1 : \A j \in 1 .. n - 1 : i < j => lst[j] <= lst[i]
    BY <1>2 DEF BlocksInv
  <1>13. n \in Nat /\ n > 1
    BY <1>6, <1>7
  <1> HIDE DEF n, k
  <1>14. p0 \in 1 .. n /\ lst[p0] = iter
    BY <1>5, <1>13
  <1>15. LeftOut(n, p0, s)
    <2> HIDE DEF p0
    <2>1. ~(lst[p0] > iter)
      BY <1>5, <1>14
    <2>2. QED
      BY <1>10, <1>14, <2>1
  <1>16. SUFFICES ASSUME Len(desc') + Len(lst') = L'
         PROVE  /\ Len(lst') >= 1
                /\ \A p \in 1 .. Len(lst') : owners'[p] = IF fixup' /\ p = Len(lst') THEN L' - 1 ELSE p - 1
                /\ lst'[Len(lst')] <= lst'[1]
                /\ Len(lst') = 1 => ~fixup'
                /\ ~fixup' /\ Len(desc') > 0 /\ Len(lst') > 1 => lst'[Len(lst')] <= lst'[Len(lst') - 1]
                /\ \A e \in 1 .. Len(desc') : Named(e)'
    <2>1. pc' # "sitest"
      BY <1>2
    <2>2. QED
      BY <2>1 DEF NamedInv
  <1>17. k = n - 1 /\ Len(desc) + n = L
    BY <1>3, <1>9, <1>10, <1>11, <1>13, <1>16
  <1>18. \A j \in 1 .. k : s[j] = IF j < p0 THEN j ELSE j + 1
    <2> HIDE DEF p0
    <2>1. n >= p0
      BY <1>13, <1>14
    <2>2. QED
      BY <1>15, <1>17, <2>1 DEF LeftOut, k
  <1>19. /\ \A p \in 1 .. n : owners[p] = IF fixup /\ p = n THEN L - 1 ELSE p - 1
         /\ lst[n] <= lst[1]
         /\ ~fixup /\ Len(desc) > 0 => lst[n] <= lst[n - 1]
         /\ \A e \in 1 .. Len(desc) : Named(e)
    BY <1>2, <1>13, <1>17 DEF NamedInv, n
  <1>20. \A e \in 1 .. Len(desc') : Named(e)'
    <2>1. ASSUME NEW e \in 1 .. Len(desc') PROVE Named(e)'
      <3>1. CASE e = Len(desc) + 1
        <4>1. desc'[e] = d
          BY <1>9, <3>1
        <4>2. ASSUME NEW j \in 0 .. n - 1 PROVE owners[j + 1] = IF fixup /\ j = n - 1 THEN L - 1 ELSE j
          <5>1. j + 1 \in 1 .. n /\ (j + 1 = n <=> j = n - 1) /\ (j + 1) - 1 = j
            BY <1>13
          <5>2. owners[j + 1] = IF fixup /\ j + 1 = n THEN L - 1 ELSE (j + 1) - 1
            BY <1>19, <5>1
          <5>3. CASE fixup /\ j = n - 1
            BY <5>1, <5>2, <5>3
          <5>4. CASE ~(fixup /\ j = n - 1)
            BY <5>1, <5>2, <5>4
          <5>5. QED
            BY <5>3, <5>4
        <4>3. QED
          BY <1>3, <1>8, <4>1, <4>2 DEF Named
      <3>2. CASE e # Len(desc) + 1
        <4>1. e \in 1 .. Len(desc)
          BY <1>9, <3>2
        <4>2. Named(e) /\ desc'[e] = desc[e]
          BY <1>9, <1>19, <4>1
        <4>3. QED
          BY <1>3, <4>2 DEF Named
      <3>3. QED
        BY <3>1, <3>2
    <2>2. QED
      BY <2>1
  <1>21. CASE ~LastIsLarger
    <2>1. p0 = n /\ ~fixup'
      BY <1>7, <1>21
    <2>2. \A j \in 1 .. k : s[j] = j /\ j \in 1 .. n - 1
      BY <1>10, <1>13, <1>17, <1>18, <2>1
    <2>3. \A j \in 1 .. k : owners'[j] = j - 1
      <3>1. \A j \in 1 .. k : j \in 1 .. n /\ j # n
        BY <1>13, <1>17
      <3>2. QED
        BY <1>10, <1>19, <2>2, <3>1
    <2>4. \A j \in 1 .. k : lst'[j] = lst[j] - iter /\ lst[j] \in Nat
      <3>1. \A j \in 1 .. k : j \in 1 .. n
        BY <1>13, <1>17
      <3>2. QED
        BY <1>5, <1>10, <2>2, <3>1
    <2>5. \A i \in 1 .. k : \A j \in 1 .. k : i <= j => lst'[j] <= lst'[i]
      <3>1. ASSUME NEW i \in 1 .. k, NEW j \in 1 .. k, i <= j PROVE lst'[j] <= lst'[i]
        <4>1. i \in 1 .. n - 1 /\ j \in 1 .. n - 1
          BY <1>17
        <4>2. CASE i = j
          BY <1>5, <2>4, <4>2
        <4>3. CASE i < j
          <5>1. lst[j] <= lst[i]
            BY <1>12, <4>1, <4>3
          <5>2. QED
            BY <1>5, <2>4, <5>1
        <4>4. QED
          BY <3>1, <4>2, <4>3
      <3>2. QED
        BY <3>1
    <2>6. k >= 1 /\ 1 \in 1 .. k /\ k \in 1 .. k /\ (k > 1 => k - 1 \in 1 .. k /\ k - 1 <= k)
      BY <1>10, <1>13, <1>17
    <2>7. lst'[k] <= lst'[1]
      BY <2>5, <2>6
    <2>8. k > 1 => lst'[k] <= lst'[k - 1]
      BY <2>5, <2>6
    <2>9. QED
      BY <1>10, <1>20, <2>1, <2>3, <2>6, <2>7, <2>8
  <1>22. CASE LastIsLarger
    <2>1. p0 = n - 1 /\ fixup'
      BY <1>7, <1>22
    <2>2. lst[n - 1] < lst[n] /\ lst[n] \in Nat /\ lst[n - 1] \in Nat /\ lst[1] \in Nat
      <3>1. n \in 1 .. n /\ n - 1 \in 1 .. n /\ 1 \in 1 .. n
        BY <1>13
      <3>2. QED
        BY <1>5, <1>22, <3>1
    <2>3. n > 2
      <3>1. SUFFICES ASSUME n = 2 PROVE FALSE
        BY <1>13
      <3>2. lst[1] < lst[n]
        BY <2>2, <3>1
      <3>3. QED
        BY <1>19, <2>2, <3>2
    <2>4. owners[n] = L - 1
      <3>1. n \in 1 .. n
        BY <1>13
      <3>2. CASE fixup
        BY <1>19, <3>1, <3>2
      <3>3. CASE ~fixup
        <4>1. ~(Len(desc) > 0)
          BY <1>19, <2>2, <3>3
        <4>2. n = L
          BY <1>9, <1>11, <1>13, <1>17, <4>1
        <4>3. owners[n] = n - 1
          BY <1>19, <3>1, <3>3
        <4>4. QED
          BY <4>2, <4>3
      <3>4. QED
        BY <3>2, <3>3
    <2>5. s[k] = n /\ \A j \in 1 .. k - 1 : s[j] = j
      <3>1. k \in 1 .. k /\ k = p0 /\ p0 \in Nat /\ k + 1 = n
        BY <1>13, <1>17, <2>1
      <3>2. \A j \in 1 .. k - 1 : j \in 1 .. k /\ j < p0
        BY <3>1
      <3> HIDE DEF p0
      <3>3. QED
        BY <1>18, <3>1, <3>2
    <2>6. \A p \in 1 .. k : owners'[p] = IF p = k THEN L - 1 ELSE p - 1
      <3>1. ASSUME NEW p \in 1 .. k PROVE owners'[p] = IF p = k THEN L - 1 ELSE p - 1
        <4>1. CASE p = k
          BY <1>10, <2>4, <2>5, <4>1
        <4>2. CASE p # k
          <5>1. p \in 1 .. k - 1 /\ p \in 1 .. n /\ p # n
            BY <1>10, <1>13, <1>17, <4>2
          <5>2. owners'[p] = owners[p] /\ owners[p] = p - 1
            BY <1>10, <1>19, <2>5, <5>1
          <5>3. QED
            BY <4>2, <5>2
        <4>3. QED
          BY <4>1, <4>2
      <3>2. QED
        BY <3>1
    <2>7. k >= 2 /\ k \in 1 .. k /\ 1 \in 1 .. k /\ 1 \in 1 .. k - 1 /\ k # 1
      BY <1>10, <1>13, <1>17, <2>3
    <2>8. lst'[k] <= lst'[1]
      <3>1. lst'[k] = lst[n] - iter /\ lst'[1] = lst[1] - iter
        BY <1>10, <2>5, <2>7
      <3>2. QED
        BY <1>5, <1>19, <2>2, <3>1
    <2>9. QED
      BY <1>3, <1>10, <1>20, <2>1, <2>6, <2>7, <2>8
  <1>23. QED
    BY <1>21, <1>22

\* The last descriptor has one block, and serves what it has left.
LEMMA DescribeLastRegular ==
  ASSUME TableInv, Regular, RegularInv, DescribeLast PROVE RegularInv'
  <1>1. PcInv /\ SizesInv /\ DescribeInv /\ CursorInv /\ BlocksInv /\ RowsByTable
    BY DEF TableInv, RegularInv
  <1>2. /\ pc = "describe" /\ pc' = "sitest" /\ Len(lst) = 1
        /\ UNCHANGED <<m, team, siRows, sizes, lst, owners, consumed, fixup, next, bIdx, lIdx, cachedI, inOrder, out>>
    BY DEF DescribeLast
  <1>3. L' = L /\ Threads' = Threads
    BY <1>2, Unchanging
  <1> DEFINE x == lst[1]
             d == [Descriptor(x) EXCEPT !.fixup = FALSE]
  <1>4. x \in Nat /\ desc' = Append(desc, d) /\ d \in Descriptors
    BY DescribeLastTable
  <1>5. /\ lst \in Seq(Nat) /\ owners \in Seq(Nat) /\ Len(owners) = 1 /\ consumed \in Nat /\ fixup \in BOOLEAN
        /\ desc \in Seq(Descriptors)
    BY <1>1, <1>2 DEF DescribeInv
  <1>6. d.highest = consumed + x * 1 /\ d.iter = x /\ d.bits = 1 /\ d.owners = owners /\ d.fixup = FALSE
    <2> DEFINE z == x
    <2>1. z \in Nat /\ d = [Descriptor(z) EXCEPT !.fixup = FALSE]
      BY <1>4
    <2> HIDE DEF d, z
    <2>2. d.highest = consumed + z * Len(lst) /\ d.iter = z /\ d.bits = Len(lst) /\ d.owners = owners /\ d.fixup = FALSE
      BY <1>5, <2>1, DescriptorFields
    <2>3. QED
      BY <1>2, <2>2 DEF z
  <1> HIDE DEF d
  <1>7. /\ desc' \in Seq(Descriptors) /\ Len(desc) \in Nat /\ Len(desc') = Len(desc) + 1 /\ desc'[Len(desc) + 1] = d
        /\ \A j \in 1 .. Len(desc) : desc'[j] = desc[j]
    BY <1>4, <1>5, Appended
  <1>8. /\ Rising /\ x > 0 /\ consumed + Total(lst, 1) = m /\ consumed = Low(Len(desc))
        /\ \A b \in 0 .. L - 1 : Served(b)
    <2>1. 1 \in 1 .. Len(lst)
      BY <1>2
    <2>2. QED
      BY <1>1, <1>2, <2>1 DEF BlocksInv
  <1>9. Total(lst, 1) = x
    <2>1. 1 \in Nat /\ \A j \in 1 .. 1 : lst[j] \in Int
      BY <1>4
    <2>2. Total(lst, 0) = 0 /\ Total(lst, 0 + 1) = Total(lst, 0) + lst[0 + 1]
      <3>1. 0 \in 0 .. 1 - 1
        OBVIOUS
      <3>2. QED
        BY <2>1, <3>1, TotalSteps
    <2>3. QED
      BY <1>4, <2>2
  <1> HIDE DEF x
  <1>10. \A b \in 0 .. Len(desc) : Low(b)' = Low(b)
    <2>1. ASSUME NEW b \in 0 .. Len(desc) PROVE Low(b)' = Low(b)
      <3>1. CASE b = 0
        BY <3>1 DEF Low
      <3>2. CASE b # 0
        <4>1. (b - 1) + 1 = b /\ b \in 1 .. Len(desc)
          BY <1>7, <3>2
        <4>2. QED
          BY <1>7, <3>2, <4>1 DEF Low, Desc
      <3>3. QED
        BY <3>1, <3>2
    <2>2. QED
      BY <2>1
  <1>11. Rising'
    <2>1. ASSUME NEW b \in 0 .. Len(desc') - 1 PROVE Low(b)' < Desc(b)'.highest
      <3>1. b \in 0 .. Len(desc)
        BY <1>7
      <3>2. Low(b)' = Low(b) /\ Desc(b)' = desc'[b + 1]
        BY <1>10, <3>1 DEF Desc
      <3>3. CASE b = Len(desc)
        <4>1. Low(b) = consumed /\ desc'[b + 1].highest = consumed + x * 1
          BY <1>6, <1>7, <1>8, <3>3
        <4>2. QED
          BY <1>4, <1>5, <1>8, <3>2, <4>1
      <3>4. CASE b # Len(desc)
        <4>1. b \in 0 .. Len(desc) - 1 /\ b + 1 \in 1 .. Len(desc)
          BY <1>7, <3>1, <3>4
        <4>2. Low(b) < desc[b + 1].highest
          BY <1>8, <4>1 DEF Rising, Desc
        <4>3. QED
          BY <1>7, <3>2, <4>1, <4>2
      <3>5. QED
        BY <3>3, <3>4
    <2>2. ASSUME NEW b \in 1 .. Len(desc'), desc'[b].fixup PROVE desc'[b].bits > 1
      <3>1. CASE b = Len(desc) + 1
        BY <1>6, <1>7, <2>2, <3>1
      <3>2. CASE b # Len(desc) + 1
        <4>1. b \in 1 .. Len(desc)
          BY <1>7, <3>2
        <4>2. desc'[b] = desc[b]
          BY <1>7, <4>1
        <4>3. desc[b].fixup
          BY <2>2, <4>2
        <4>4. QED
          BY <1>8, <4>1, <4>2, <4>3 DEF Rising
      <3>3. QED
        BY <3>1, <3>2
    <2>3. QED
      BY <2>1, <2>2 DEF Rising
  <1>12. DescriptorsServeBlocks'
    <2>1. ASSUME NEW k \in 2 .. Len(desc') PROVE desc'[k].highest > desc'[k - 1].highest
      <3>1. k - 1 \in 0 .. Len(desc') - 1 /\ (k - 1) + 1 = k /\ k - 1 # 0 /\ ((k - 1) - 1) + 1 = k - 1
        BY <1>7
      <3>2. Low(k - 1)' < Desc(k - 1)'.highest
        BY <1>11, <3>1 DEF Rising
      <3>3. Low(k - 1)' = desc'[k - 1].highest /\ Desc(k - 1)' = desc'[k]
        BY <3>1 DEF Low, Desc
      <3>4. desc'[k].highest \in Nat /\ desc'[k - 1].highest \in Nat
        <4>1. k \in 1 .. Len(desc') /\ k - 1 \in 1 .. Len(desc')
          BY <1>7
        <4>2. desc'[k] \in Descriptors /\ desc'[k - 1] \in Descriptors
          BY <1>7, <4>1
        <4>3. QED
          BY <4>2 DEF Descriptors
      <3>5. QED
        BY <3>2, <3>3, <3>4
    <2>2. desc'[Len(desc')].highest = m
      BY <1>4, <1>5, <1>6, <1>7, <1>8, <1>9
    <2>3. ASSUME NEW b \in 0 .. L - 1 PROVE SumFunction(Serving(b)') = sizes[b + 1]
      <3> DEFINE To(D) == Total(Share(D, b), Len(D))
                 In == owners[1] = b
      <3>1. Serving(b) = Share(desc, b) /\ Serving(b)' = Share(desc', b)
        BY DEF Serving, Share
      <3>2. Gains(desc, d, desc', b)
        BY <1>4, <1>5, ShareGrows
      <3>3. DOMAIN d.owners = 1 .. 1
        BY <1>5, <1>6
      <3>4. (\E p \in DOMAIN d.owners : d.owners[p] = b) <=> In
        BY <1>6, <3>3
      <3>5. To(desc) \in Int /\ (In => To(desc') = To(desc) + x) /\ (~In => To(desc') = To(desc))
        BY <1>6, <3>2, <3>4 DEF Gains
      <3>6. (In => To(desc) + x = sizes[b + 1]) /\ (~In => To(desc) = sizes[b + 1])
        <4>1. 1 .. Len(lst) = {1}
          BY <1>2
        <4>2. Served(b)
          BY <1>8
        <4>3. QED
          BY <3>1, <4>1, <4>2 DEF Served, x
      <3>7. SumFunction(Serving(b)') = To(desc')
        <4> DEFINE g == Share(desc', b)
        <4>1. Len(desc') \in Nat /\ DOMAIN g = 1 .. Len(desc')
          BY <1>7 DEF Share
        <4> HIDE DEF g
        <4>2. SumFunction(g) = Total(g, Len(desc'))
          BY <4>1, SumFunctionTotal
        <4>3. QED
          BY <3>1, <4>2 DEF g
      <3> HIDE DEF To, In
      <3>8. QED
        BY <3>5, <3>6, <3>7
    <2>4. \A b \in 0 .. Len(sizes') - 1 : SumFunction(Serving(b)') = sizes'[b + 1]
      BY <1>2, <2>3 DEF L
    <2>5. m' = m
      BY <1>2
    <2>6. QED
      BY <2>1, <2>2, <2>4, <2>5 DEF DescriptorsServeBlocks
  <1>13. BlocksInv'
    <2>1. pc' # "describe"
      BY <1>2
    <2>2. QED
      BY <1>11, <1>12, <2>1 DEF BlocksInv
  <1>14. ASSUME sizes[1] >= sizes[L] PROVE NamedInv'
    <2>1. NamedInv
      BY <1>14 DEF RegularInv
    <2>2. ASSUME Len(desc') = L, NEW e \in 1 .. Len(desc') PROVE Named(e)'
      <3>1. Len(desc) + Len(lst) = L
        BY <1>2, <1>7, <2>2
      <3>2. /\ owners[1] = IF fixup /\ 1 = Len(lst) THEN L - 1 ELSE 1 - 1
            /\ Len(lst) = 1 => ~fixup
            /\ \A k \in 1 .. Len(desc) : Named(k)
        <4>1. 1 \in 1 .. Len(lst)
          BY <1>2
        <4>2. QED
          BY <1>2, <2>1, <3>1, <4>1 DEF NamedInv
      <3>3. owners[1] = 0
        <4>1. ~fixup
          BY <1>2, <3>2
        <4>2. QED
          BY <3>2, <4>1
      <3>4. CASE e = Len(desc) + 1
        <4>1. desc'[e] = d
          BY <1>7, <3>4
        <4>2. \A k \in 0 .. 1 - 1 : k = 0 /\ k + 1 = 1
          OBVIOUS
        <4>3. \A k \in 0 .. 1 - 1 : owners[k + 1] = k
          BY <3>3, <4>2
        <4>4. QED
          BY <1>6, <4>1, <4>3 DEF Named
      <3>5. CASE e # Len(desc) + 1
        <4>1. e \in 1 .. Len(desc)
          BY <1>7, <3>5
        <4>2. Named(e) /\ desc'[e] = desc[e]
          BY <1>7, <3>2, <4>1
        <4>3. QED
          BY <1>3, <4>2 DEF Named
      <3>6. QED
        BY <3>4, <3>5
    <2>3. pc' # "describe"
      BY <1>2
    <2>4. QED
      BY <1>3, <2>2, <2>3 DEF NamedInv
  <1>15. \A h \in Threads : At(h)'
    <2>1. ASSUME NEW h \in Threads PROVE At(h)'
      <3>1. bIdx'[h] = 0 /\ lIdx'[h] = 0 /\ inOrder'[h] = 0
        BY <1>1, <1>2 DEF CursorInv
      <3>2. Low(bIdx[h])' = 0
        BY <3>1 DEF Low
      <3>3. Desc(bIdx[h])' = desc'[1] /\ desc'[1].highest \in Nat
        <4>1. 1 \in 1 .. Len(desc')
          BY <1>7
        <4>2. desc'[1] \in Descriptors
          BY <1>7, <4>1
        <4>3. desc'[1].highest \in Nat
          BY <4>2 DEF Descriptors
        <4>4. QED
          BY <3>1, <4>3 DEF Desc
      <3>4. QED
        BY <3>1, <3>2, <3>3 DEF At
    <2>2. QED
      BY <2>1
  <1>16. RowsByTable'
    <2>1. ~out'.ordered
      BY <1>1, <1>2 DEF CursorInv
    <2>2. QED
      BY <2>1 DEF RowsByTable
  <1>17. sizes' = sizes
    BY <1>2
  <1>18. QED
    BY <1>3, <1>13, <1>14, <1>15, <1>16, <1>17 DEF RegularInv

\* Between multiples the quotient does not change.
LEMMA SameQuotient ==
  ASSUME NEW k \in Nat, NEW v \in Nat \ {0}, k % v # 0
  PROVE  k > 0 /\ (k - 1) \div v = k \div v
  <1> DEFINE q == k \div v
             e == k % v
             e1 == e - 1
  <1>1. q \in Nat /\ e \in 0 .. v - 1 /\ k = v * q + e /\ e # 0
    BY Divides
  <1> HIDE DEF q, e
  <1>2. e1 \in 0 .. v - 1 /\ v * q \in Nat
    BY <1>1
  <1>3. k - 1 = v * q + e1 /\ k > 0
    BY <1>1, <1>2
  <1> HIDE DEF e1
  <1>4. (v * q + e1) \div v = q
    BY <1>1, <1>2, QuotientUnique
  <1>5. QED
    BY <1>3, <1>4 DEF q

\* The cursors of a thread that has been asked for rows 0 .. i - 1 lead to
\* place i - low of the descriptor that contains i; only the first of the rows
\* of a descriptor that share an index misses the cache.
LEMMA CallRow ==
  ASSUME TableInv, BlocksInv, NEW h \in Threads, At(h), NEW i \in Nat, i = inOrder[h],
         NEW b, NEW l, Calls(h, i, b, l)
  PROVE  /\ b \in 0 .. Len(desc) - 1 /\ Low(b) \in Nat /\ Contains(b, i) /\ l = i - Low(b)
         /\ out'.block = Multiplier(b, l % Desc(b).bits)
  <1> DEFINE c == bIdx[h]
             bits == Desc(b).bits
  <1>1. /\ b = (IF i = Desc(c).highest THEN c + 1 ELSE c)
        /\ l = (IF i = Desc(c).highest THEN 0 ELSE lIdx[h])
        /\ b \in Nat /\ b < Len(desc) /\ l \in Nat /\ bits \in Nat \ {0}
        /\ out'.block = (IF l \div bits = cachedI[h] THEN Multiplier(b, l % bits) ELSE 0)
    BY DEF Calls
  <1>2. Len(desc) \in Nat /\ desc \in Seq(Descriptors) /\ c \in Nat
    BY DEF TableInv, DescribeInv, CursorInv
  <1>3. /\ Low(c) <= i /\ i <= Desc(c).highest /\ lIdx[h] = i - Low(c)
        /\ lIdx[h] > 0 => cachedI[h] = (lIdx[h] - 1) \div Desc(c).bits
    BY DEF At
  <1>4. b \in 0 .. Len(desc) - 1
    BY <1>1, <1>2
  <1>5. Low(b) < Desc(b).highest /\ (Desc(b).fixup => bits > 1)
    <2>1. Low(b) < Desc(b).highest
      BY <1>4 DEF BlocksInv, Rising
    <2>2. b + 1 \in 1 .. Len(desc)
      BY <1>2, <1>4
    <2>3. QED
      BY <2>1, <2>2 DEF BlocksInv, Rising, Desc
  <1>6. \A k \in 0 .. Len(desc) - 1 : Low(k) \in Nat /\ Desc(k).highest \in Nat
    <2>1. ASSUME NEW k \in 1 .. Len(desc) PROVE desc[k].highest \in Nat
      <3>1. desc[k] \in Descriptors
        BY <1>2
      <3>2. QED
        BY <3>1 DEF Descriptors
    <2>2. ASSUME NEW k \in 0 .. Len(desc) - 1 PROVE Low(k) \in Nat /\ Desc(k).highest \in Nat
      <3>1. k + 1 \in 1 .. Len(desc) /\ (k # 0 => (k - 1) + 1 \in 1 .. Len(desc))
        BY <1>2
      <3>2. QED
        BY <2>1, <3>1 DEF Low, Desc
    <2>3. QED
      BY <2>2
  <1>7. Low(b) \in Nat /\ Contains(b, i) /\ l = i - Low(b) /\ (l > 0 => cachedI[h] = (l - 1) \div bits)
    <2>1. Low(b) \in Nat /\ Desc(b).highest \in Nat
      BY <1>4, <1>6
    <2>2. CASE i = Desc(c).highest
      <3>1. b = c + 1 /\ l = 0 /\ b - 1 = c /\ b # 0
        BY <1>1, <1>2, <2>2
      <3>2. Low(b) = i
        BY <2>2, <3>1 DEF Low
      <3>3. QED
        BY <1>5, <2>1, <3>1, <3>2 DEF Contains
    <2>3. CASE i # Desc(c).highest
      <3>1. b = c /\ l = lIdx[h]
        BY <1>1, <2>3
      <3>2. i < Desc(b).highest
        BY <1>3, <2>1, <2>3, <3>1
      <3>3. QED
        BY <1>3, <2>1, <3>1, <3>2 DEF Contains
    <2>4. QED
      BY <2>2, <2>3
  <1> HIDE DEF bits, c
  <1>8. out'.block = Multiplier(b, l % bits)
    <2>1. CASE l \div bits = cachedI[h]
      BY <1>1, <2>1
    <2>2. CASE l \div bits # cachedI[h]
      <3>1. l % bits = 0
        <4>1. SUFFICES ASSUME l % bits # 0 PROVE FALSE
          OBVIOUS
        <4>2. l > 0 /\ (l - 1) \div bits = l \div bits
          BY <1>1, <4>1, SameQuotient
        <4>3. QED
          BY <1>7, <2>2, <4>2
      <3>2. ~(Desc(b).fixup /\ 0 = bits - 1)
        BY <1>1, <1>5
      <3>3. Multiplier(b, 0) = 0
        BY <3>2 DEF Multiplier, bits
      <3>4. QED
        BY <1>1, <2>2, <3>1, <3>3
    <2>3. QED
      BY <2>1, <2>2
  <1>9. QED
    BY <1>4, <1>7, <1>8 DEF bits

\* A call in order moves the cursor to the next place of the table.
LEMMA CallRegular ==
  ASSUME TableInv, Regular, RegularInv, NEW h \in Threads, NEW i \in Nat, i < m, ComputeSi(h, i), Described,
         pc' = pc, UNCHANGED <<m, team, siRows, sizes, lst, owners, consumed, fixup, desc>>
  PROVE  RegularInv'
  <1>1. BlocksInv /\ (sizes[1] >= sizes[L] => NamedInv) /\ \A g \in Threads : At(g)
    BY DEF RegularInv
  <1>2. L' = L /\ Threads' = Threads /\ Described'
    BY Unchanging DEF Described
  <1>3. \A b : Desc(b)' = Desc(b) /\ Low(b)' = Low(b)
    BY DEF Desc, Low
  <1>4. BlocksInv'
    <2>1. \A b : Serving(b)' = Serving(b)
      BY DEF Serving
    <2>2. Rising' /\ (pc # "describe")
      BY <1>1, <1>3 DEF BlocksInv, Rising, Described
    <2>3. pc' = "sitest" => DescriptorsServeBlocks'
      <3>1. pc = "sitest" => DescriptorsServeBlocks
        BY <1>1 DEF BlocksInv
      <3>2. DescriptorsServeBlocks' <=> DescriptorsServeBlocks
        BY <2>1 DEF DescriptorsServeBlocks
      <3>3. QED
        BY <3>1, <3>2
    <2>4. QED
      BY <2>2, <2>3 DEF BlocksInv
  <1>5. sizes'[1] >= sizes'[L'] => NamedInv'
    <2>1. pc # "describe"
      BY DEF Described
    <2>2. \A d : Named(d)' <=> Named(d)
      BY <1>2 DEF Named
    <2>3. QED
      BY <1>1, <1>2, <2>1, <2>2 DEF NamedInv
  <1>6. PICK b, l : Calls(h, i, b, l)
    BY ComputeSiCalls
  <1> DEFINE bits == Desc(b).bits
             q == l \div bits
  <1>7. /\ b \in Nat /\ b < Len(desc) /\ l \in Nat /\ bits \in Nat \ {0} /\ q \in Nat
        /\ bIdx' = [bIdx EXCEPT ![h] = b] /\ lIdx' = [lIdx EXCEPT ![h] = l + 1]
        /\ cachedI' = [cachedI EXCEPT ![h] = q]
        /\ inOrder' = [inOrder EXCEPT ![h] = IF i = inOrder[h] THEN i + 1 ELSE -1]
        /\ out'.i = i /\ out'.row = q /\ Desc(b) \in Descriptors
    BY <1>6 DEF Calls
  <1>8. out'.ordered = (inOrder'[h] # -1)
    BY <1>6 DEF Calls
  <1>9. /\ bIdx \in [Threads -> Nat] /\ lIdx \in [Threads -> Nat]
        /\ cachedI \in [Threads -> Int] /\ inOrder \in [Threads -> Int]
    BY DEF TableInv, CursorInv
  <1> HIDE DEF q
  <1>10. bIdx'[h] = b /\ lIdx'[h] = l + 1 /\ cachedI'[h] = q /\ inOrder'[h] = (IF i = inOrder[h] THEN i + 1 ELSE -1)
    BY <1>7, <1>9
  <1>11. ASSUME i = inOrder[h]
         PROVE  /\ b \in 0 .. Len(desc) - 1 /\ Low(b) \in Nat /\ Contains(b, i) /\ l = i - Low(b)
                /\ out'.block = Multiplier(b, l % Desc(b).bits)
    BY <1>1, <1>6, <1>11, CallRow
  <1>12. ASSUME NEW g \in Threads PROVE At(g)'
    <2>1. CASE g # h
      <3>1. bIdx'[g] = bIdx[g] /\ lIdx'[g] = lIdx[g] /\ cachedI'[g] = cachedI[g] /\ inOrder'[g] = inOrder[g]
        BY <1>7, <1>9, <2>1
      <3>2. At(g)
        BY <1>1
      <3>3. Low(bIdx[g])' = Low(bIdx[g]) /\ Desc(bIdx[g])' = Desc(bIdx[g])
        BY <3>1 DEF Low, Desc
      <3>4. QED
        BY <3>1, <3>2, <3>3 DEF At
    <2>2. CASE g = h /\ i # inOrder[h]
      <3>1. inOrder'[g] = -1
        BY <1>10, <2>2
      <3>2. QED
        BY <3>1 DEF At
    <2>3. CASE g = h /\ i = inOrder[h]
      <3>1. Low(b) \in Nat /\ Low(b) <= i /\ i < Desc(b).highest /\ l = i - Low(b)
        BY <1>11, <2>3 DEF Contains
      <3>2. Desc(b).highest \in Nat
        BY <1>7 DEF Descriptors
      <3>3. bIdx'[g] = b /\ lIdx'[g] = l + 1 /\ cachedI'[g] = q /\ inOrder'[g] = i + 1
        BY <1>10, <2>3
      <3>4. i + 1 \in Nat /\ Low(b) <= i + 1 /\ i + 1 <= Desc(b).highest /\ l + 1 = (i + 1) - Low(b)
        BY <1>7, <3>1, <3>2
      <3>5. q = ((l + 1) - 1) \div bits
        <4>1. (l + 1) - 1 = l
          BY <1>7
        <4>2. QED
          BY <4>1 DEF q
      <3>6. Low(bIdx[g])' = Low(b) /\ Desc(bIdx[g])' = Desc(b)
        BY <3>3 DEF Low, Desc
      <3> HIDE DEF bits
      <3>7. /\ inOrder'[g] \in Nat /\ Low(bIdx[g])' <= inOrder'[g] /\ inOrder'[g] <= Desc(bIdx[g])'.highest
            /\ lIdx'[g] = inOrder'[g] - Low(bIdx[g])'
        BY <3>3, <3>4, <3>6
      <3>8. cachedI'[g] = (lIdx'[g] - 1) \div Desc(bIdx[g])'.bits
        BY <3>3, <3>5, <3>6 DEF bits
      <3>9. QED
        BY <3>7, <3>8 DEF At
    <2>4. QED
      BY <2>1, <2>2, <2>3
  <1>13. RowsByTable'
    <2>1. SUFFICES ASSUME out'.ordered
                   PROVE  \E k \in 0 .. Len(desc') - 1 :
                            /\ Contains(k, i)' /\ out'.row = (i - Low(k)') \div Desc(k)'.bits
                            /\ out'.block = Multiplier(k, (i - Low(k)) % Desc(k).bits)'
      BY <1>7 DEF RowsByTable
    <2>2. i = inOrder[h]
      BY <1>8, <1>10, <2>1
    <2>3. /\ b \in 0 .. Len(desc) - 1 /\ Contains(b, i) /\ l = i - Low(b)
          /\ out'.block = Multiplier(b, l % Desc(b).bits)
      BY <1>11, <2>2
    <2>4. Contains(b, i)'
      BY <1>3, <2>3 DEF Contains
    <2>5. out'.row = (i - Low(b)') \div Desc(b)'.bits
      BY <1>3, <1>7, <2>3 DEF q
    <2>6. \A e : Multiplier(b, e)' = Multiplier(b, e)
      BY <1>3 DEF Multiplier
    <2>7. Multiplier(b, (i - Low(b)) % Desc(b).bits)' = Multiplier(b, (i - Low(b)) % Desc(b).bits)
      BY <1>3 DEF Multiplier
    <2>8. out'.block = Multiplier(b, (i - Low(b)) % Desc(b).bits)'
      BY <2>3, <2>7
    <2>9. Len(desc') = Len(desc)
      OBVIOUS
    <2>10. QED
      BY <2>3, <2>4, <2>5, <2>8, <2>9
  <1>14. \A g \in Threads' : At(g)'
    BY <1>2, <1>12
  <1>15. QED
    BY <1>4, <1>5, <1>13, <1>14 DEF RegularInv

\* Every step.
LEMMA NextRegular ==
  ASSUME TableInv, RegularInv, [Next]_vars PROVE RegularInv'
  <1>1. UNCHANGED sizes
    BY DEF Next, Describe, DescribeLast, DescribeNothing, SiTest, StartLoop, Row, Stopped, vars
  <1>2. SUFFICES ASSUME Regular PROVE RegularInv'
    BY <1>1 DEF RegularInv, Regular
  <1>3. CASE Describe
    <2>1. BlocksInv /\ RowsByTable
      BY <1>2 DEF RegularInv
    <2>2. BlocksInv'
      BY <1>2, <1>3, <2>1, DescribeBlocks
    <2>3. sizes[1] >= sizes[L] => NamedInv'
      BY <1>2, <1>3, <2>1, DescribeNamed DEF RegularInv
    <2>4. L' = L
      BY <1>1 DEF L
    <2>5. ~Described'
      BY <1>3 DEF Describe, Described
    <2>6. RowsByTable'
      <3>1. ~out.ordered /\ out' = out
        BY <1>3 DEF TableInv, CursorInv, Describe
      <3>2. ~out'.ordered
        BY <3>1
      <3>3. QED
        BY <3>2 DEF RowsByTable
    <2>7. QED
      BY <1>1, <2>2, <2>3, <2>4, <2>5, <2>6 DEF RegularInv
  <1>4. CASE DescribeLast
    BY <1>2, <1>4, DescribeLastRegular
  <1>5. ASSUME UNCHANGED <<m, team, siRows, sizes, lst, owners, consumed, fixup, desc, bIdx, lIdx, cachedI, inOrder, out>>,
               pc' # "describe" \/ pc' = pc, pc' # "sitest" \/ pc' = pc, Described' => Described
        PROVE  RegularInv'
    <2>1. BlocksInv /\ (sizes[1] >= sizes[L] => NamedInv) /\ RowsByTable /\ (Described => \A g \in Threads : At(g))
      BY <1>2 DEF RegularInv
    <2>2. L' = L /\ Threads' = Threads
      BY <1>5, Unchanging
    <2>3. \A b : Desc(b)' = Desc(b) /\ Low(b)' = Low(b) /\ Serving(b)' = Serving(b)
      BY <1>5 DEF Desc, Low, Serving
    <2>4. Rising' /\ (\A b : Served(b)' <=> Served(b)) /\ (DescriptorsServeBlocks' <=> DescriptorsServeBlocks)
      <3>1. Rising'
        BY <1>5, <2>1, <2>3 DEF Rising, BlocksInv
      <3>2. \A b : Served(b)' <=> Served(b)
        BY <1>5, <2>3 DEF Served
      <3>3. DescriptorsServeBlocks' <=> DescriptorsServeBlocks
        BY <1>5, <2>3 DEF DescriptorsServeBlocks
      <3>4. QED
        BY <3>1, <3>2, <3>3
    <2>5. BlocksInv'
      <3>1. consumed' = consumed /\ lst' = lst /\ owners' = owners /\ m' = m /\ desc' = desc
        BY <1>5
      <3>2. Low(Len(desc))' = Low(Len(desc))
        BY <3>1 DEF Low, Desc
      <3>3. CASE pc' = "describe"
        <4>1. pc = "describe" /\ pc' # "sitest"
          BY <1>5, <3>3
        <4>2. QED
          BY <2>1, <2>2, <2>4, <3>1, <3>2, <4>1 DEF BlocksInv
      <3>4. CASE pc' # "describe"
        <4>1. pc' = "sitest" => pc = "sitest"
          BY <1>5
        <4>2. QED
          BY <2>1, <2>4, <3>4, <4>1 DEF BlocksInv
      <3>5. QED
        BY <3>3, <3>4
    <2>6. sizes'[1] >= sizes'[L'] => NamedInv'
      <3>1. \A d : Named(d)' <=> Named(d)
        BY <1>5, <2>2 DEF Named
      <3>2. ASSUME sizes[1] >= sizes[L] PROVE NamedInv'
        <4>1. NamedInv
          BY <2>1, <3>2
        <4>2. CASE pc' = "describe"
          <5>1. pc = "describe" /\ pc' # "sitest"
            BY <1>5, <4>2
          <5>2. QED
            BY <1>5, <2>2, <3>1, <4>1, <5>1 DEF NamedInv
        <4>3. CASE pc' # "describe"
          <5>1. pc' = "sitest" => pc = "sitest"
            BY <1>5
          <5>2. QED
            BY <1>5, <2>2, <3>1, <4>1, <4>3, <5>1 DEF NamedInv
        <4>4. QED
          BY <4>2, <4>3
      <3>3. QED
        BY <1>5, <2>2, <3>2
    <2>7. RowsByTable'
      <3>1. \A b, e : Multiplier(b, e)' = Multiplier(b, e)
        BY <1>5 DEF Multiplier, Desc
      <3>2. \A b, e : Contains(b, e)' <=> Contains(b, e)
        BY <1>5 DEF Contains, Low, Desc
      <3>3. Regular' <=> Regular
        BY <1>5 DEF Regular
      <3>4. QED
        BY <1>5, <2>1 DEF RowsByTable, Regular, Contains, Low, Desc, Multiplier
    <2>8. Described' => \A g \in Threads' : At(g)'
      BY <1>5, <2>1, <2>2 DEF At, Low, Desc
    <2>9. QED
      BY <2>5, <2>6, <2>7, <2>8 DEF RegularInv
  <1>6. CASE DescribeNothing
    <2>1. pc' = "failed"
      BY <1>6 DEF DescribeNothing
    <2>2. QED
      BY <1>5, <1>6, <2>1 DEF DescribeNothing, Described
  <1>7. CASE StartLoop
    <2>1. pc = "sitest" /\ pc' = "loop"
      BY <1>7 DEF StartLoop
    <2>2. QED
      BY <1>5, <1>7, <2>1 DEF StartLoop, Described
  <1>8. CASE UNCHANGED vars
    BY <1>5, <1>8 DEF vars, Described
  <1>9. CASE Stopped
    BY <1>8, <1>9 DEF Stopped
  <1>10. ASSUME NEW h \in Threads, (SiTest /\ h = 0) \/ Row(h) PROVE RegularInv'
    <2>1. Next
      BY <1>10 DEF Next, Threads
    <2>2. /\ next[h] \in Nat /\ next[h] < m /\ ComputeSi(h, next[h]) /\ Described /\ pc' = pc
          /\ UNCHANGED <<m, team, siRows, sizes, lst, owners, consumed, fixup, desc>>
      BY <1>10, <2>1, RowsInRange
    <2>3. QED
      BY <1>2, <2>2, CallRegular
  <1>11. CASE SiTest
    <2>1. 0 \in Threads
      BY DEF TableInv, SizesInv, Threads
    <2>2. QED
      BY <1>10, <1>11, <2>1
  <1>12. QED
    BY <1>3, <1>4, <1>6, <1>7, <1>8, <1>9, <1>10, <1>11 DEF Next, Threads

\* The inductive invariant.
THEOREM Invariance == Spec => [](TableInv /\ RegularInv)
  <1>1. Init => TableInv /\ RegularInv
    BY InitInv, InitRegular
  <1>2. TableInv /\ RegularInv /\ [Next]_vars => (TableInv /\ RegularInv)'
    BY NextTable, NextRegular
  <1>3. QED
    BY <1>1, <1>2, PTL DEF Spec

\* The table of blockdes.r matches the blocks: its row ranges follow each other
\* up to m, the iterations a block takes part in add up to its size, and the
\* multiplier of a position is the number of the block whose row it is, with
\* the fixup for a larger last block, when there are as many descriptors as
\* blocks and the first block is not smaller than the last (blockdes.r 48).
THEOREM TableMatches == Spec => []TableMatchesBlocks
  <1>1. TableInv /\ RegularInv => TableMatchesBlocks
    <2>1. SUFFICES ASSUME TableInv, RegularInv, pc = "sitest", Regular
                   PROVE  DescriptorsServeBlocks /\ MultiplierNamesBlock
      BY DEF TableMatchesBlocks
    <2>2. DescriptorsServeBlocks
      BY <2>1 DEF RegularInv, BlocksInv
    <2>3. ASSUME Len(desc) = Len(sizes), sizes[1] >= sizes[Len(sizes)],
                 NEW b \in 0 .. Len(desc) - 1, NEW k \in 0 .. Desc(b).bits - 1
          PROVE  Multiplier(b, k) = Desc(b).owners[k + 1]
      <3>1. b + 1 \in 1 .. Len(desc)
        <4>1. Len(desc) \in Nat
          BY <2>1 DEF TableInv, DescribeInv
        <4>2. QED
          BY <4>1
      <3>2. Named(b + 1)
        BY <2>1, <2>3, <3>1 DEF RegularInv, NamedInv, L
      <3>3. Desc(b).owners[k + 1] = IF Desc(b).fixup /\ k = Desc(b).bits - 1 THEN L - 1 ELSE k
        BY <3>2 DEF Named, Desc
      <3>4. QED
        BY <2>3, <3>3 DEF Multiplier, L
    <2>4. QED
      BY <2>2, <2>3 DEF MultiplierNamesBlock
  <1>2. QED
    BY <1>1, Invariance, PTL

\* For a thread that is asked for rows 0, 1, 2, ... the cursors of compute_Si
\* are where the table says: the row and the block of call i are those of
\* place i - low of the descriptor that contains i.
THEOREM RowsRight == Spec => []RowsByTable
  <1>1. RegularInv => RowsByTable
    BY DEF RegularInv, RowsByTable
  <1>2. TableInv /\ RegularInv => RowsByTable
    BY <1>1
  <1>3. QED
    BY <1>2, Invariance, PTL

=============================================================================
