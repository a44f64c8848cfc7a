--------------------------- MODULE SeedSupplyProofs ---------------------------
(* That experiments share no seed, that the words loaded hold the first    *)
(* bits of the seed in order and nothing else, and that get_bit answers    *)
(* with bits of the seed, two indices never with the same: for every pool, *)
(* number of runs, seed length, d_tot, word and chunk width.               *)
EXTENDS SeedSupply, TLAPS, FiniteSetTheorems, SequenceTheorems

Size == Len(pool)
Offset == Size - Len(input)

\* Characters leave the input from its front, one after the other.
InputOK ==
  /\ pool \in Seq({"bit", "other"})
  /\ Len(input) \in 0 .. Size
  /\ input = [k \in 1 .. Len(input) |-> Offset + k]
\* Those that have left are in a seed file or dropped, and not in both.
SpentOK ==
  /\ spent \in Seq(1 .. Offset)
  /\ dropped \in SUBSET (1 .. Offset) /\ IsFiniteSet(dropped)
  /\ ToSet(spent) \cup dropped = 1 .. Offset
  /\ Len(spent) + Cardinality(dropped) = Offset
\* The run in progress has not dropped its character yet.
DroppedOK ==
  /\ splits \in Nat
  /\ Cardinality(dropped) <= splits
  /\ pc = "split" => Cardinality(dropped) + 1 <= splits
Inv == InputOK /\ SpentOK /\ DroppedOK
-----------------------------------------------------------------------------
\* A character at the end of a seed file is one more element of its set.
LEMMA AppendSet ==
  ASSUME NEW T, NEW s \in Seq(T), NEW x
  PROVE  ToSet(Append(s, x)) = ToSet(s) \cup {x} /\ Len(Append(s, x)) = Len(s) + 1
  <1>1. Len(s) \in Nat /\ DOMAIN s = 1 .. Len(s)
    OBVIOUS
  <1>2. Len(Append(s, x)) = Len(s) + 1 /\ DOMAIN Append(s, x) = 1 .. Len(s) + 1
    OBVIOUS
  <1>3. /\ \A k \in 1 .. Len(s) : Append(s, x)[k] = s[k]
        /\ Append(s, x)[Len(s) + 1] = x
    OBVIOUS
  <1>4. 1 .. Len(s) + 1 = (1 .. Len(s)) \cup {Len(s) + 1}
    BY <1>1
  <1>5. ToSet(Append(s, x)) = ToSet(s) \cup {x}
    BY <1>1, <1>2, <1>3, <1>4 DEF ToSet
  <1>6. QED
    BY <1>2, <1>5

\* What is left of the input after its first j characters.
LEMMA Rest ==
  ASSUME InputOK, NEW j \in 0 .. Len(input)
  PROVE  /\ Len(SubSeq(input, j + 1, Len(input))) = Len(input) - j
         /\ SubSeq(input, j + 1, Len(input)) = [k \in 1 .. Len(input) - j |-> Offset + j + k]
  <1> DEFINE N == Len(input)
             o == Offset
  <1>1. N \in Nat /\ j \in Nat /\ j <= N /\ o \in Int
    BY DEF InputOK, Offset, Size
  <1>2. input = [k \in 1 .. N |-> o + k]
    BY DEF InputOK
  <1>3. input \in Seq(Int)
    BY <1>1, <1>2
  <1> HIDE DEF N, o
  <1>4. /\ SubSeq(input, j + 1, N) = [k \in 1 .. N - j |-> input[k + j]]
        /\ Len(SubSeq(input, j + 1, N)) = N - j
    <2>1. Len(input) = N
      BY DEF N
    <2>2. SubSeq(input, j + 1, N) \in Seq(Int)
      BY <1>1, <1>3, <2>1
    <2>3. Len(SubSeq(input, j + 1, N)) = N - j
      BY <1>1, <1>3, <2>1
    <2>4. \A k \in 1 .. N - j : SubSeq(input, j + 1, N)[k] = input[k + j]
      BY <1>1, <1>3, <2>1, <2>3
    <2>5. QED
      BY <1>1, <2>2, <2>3, <2>4
  <1>5. \A k \in 1 .. N - j : input[k + j] = o + j + k
    BY <1>1, <1>2
  <1>6. SubSeq(input, j + 1, N) = [k \in 1 .. N - j |-> o + j + k]
    BY <1>4, <1>5
  <1>7. QED
    BY <1>4, <1>6 DEF N, o

\* The invariant says of what is left just what the pool's account needs.
LEMMA InvImplies == Inv => PoolAccounted
  <1> SUFFICES ASSUME Inv PROVE PoolAccounted
    OBVIOUS
  <1>1. /\ Size \in Nat /\ Len(input) \in 0 .. Size /\ Offset = Size - Len(input)
        /\ input = [k \in 1 .. Len(input) |-> Offset + k]
    BY DEF Inv, InputOK, Offset, Size
  <1>2. ToSet(input) = Offset + 1 .. Size
    <2>1. ToSet(input) = {Offset + k : k \in 1 .. Len(input)}
      BY <1>1 DEF ToSet
    <2>2. \A x \in Offset + 1 .. Size : x - Offset \in 1 .. Len(input) /\ x = Offset + (x - Offset)
      BY <1>1
    <2>3. \A k \in 1 .. Len(input) : Offset + k \in Offset + 1 .. Size
      BY <1>1
    <2>4. QED
      BY <2>1, <2>2, <2>3
  <1>3. (1 .. Offset) \cup (Offset + 1 .. Size) = 1 .. Size
    BY <1>1
  <1>4. ToSet(spent) \cup dropped \cup ToSet(input) = 1 .. Len(pool)
    BY <1>2, <1>3 DEF Inv, SpentOK, Size
  <1>5. Len(spent) + Cardinality(dropped) + Len(input) = Len(pool)
    <2>1. Len(spent) + Cardinality(dropped) = Offset
      BY DEF Inv, SpentOK
    <2>2. QED
      BY <1>1, <2>1 DEF Size
  <1>6. Cardinality(dropped) <= splits
    BY DEF Inv, DroppedOK
  <1>7. QED
    BY <1>4, <1>5, <1>6 DEF PoolAccounted

\* Nothing has left the pool at the start.
LEMMA InitInv == Init => Inv
  <1> SUFFICES ASSUME Init PROVE Inv
    OBVIOUS
  <1>1. pool \in Seq({"bit", "other"}) /\ Size \in Nat
    BY SupplyAssumption DEF Init, Size
  <1>2. Len(input) = Size /\ Offset = 0
    BY <1>1 DEF Init, Size, Offset
  <1>3. InputOK
    BY <1>1, <1>2 DEF InputOK, Init, Size
  <1>4. SpentOK
    <2>1. spent = <<>> /\ dropped = {} /\ 1 .. Offset = {}
      BY <1>2 DEF Init
    <2>2. ToSet(spent) = {} /\ Len(spent) = 0 /\ spent \in Seq(1 .. Offset)
      BY <2>1 DEF ToSet
    <2>3. Cardinality(dropped) = 0 /\ IsFiniteSet(dropped)
      BY <2>1, FS_EmptySet
    <2>4. QED
      BY <1>2, <2>1, <2>2, <2>3 DEF SpentOK
  <1>5. DroppedOK
    <2>1. splits = 0 /\ pc = "start" /\ Cardinality(dropped) = 0
      BY FS_EmptySet DEF Init
    <2>2. QED
      BY <2>1 DEF DroppedOK
  <1>6. QED
    BY <1>3, <1>4, <1>5 DEF Inv

\* The front character goes to the seed file.
LEMMA CopyCharInv ==
  ASSUME Inv, CopyChar
  PROVE  Inv'
  <1>1. /\ Size \in Nat /\ Len(input) \in 0 .. Size /\ Offset = Size - Len(input)
        /\ input = [k \in 1 .. Len(input) |-> Offset + k] /\ Len(input) # 0
    <2>1. input # <<>>
      BY DEF CopyChar
    <2>2. QED
      BY <2>1 DEF Inv, InputOK, Offset, Size
  <1>2. /\ pool' = pool /\ dropped' = dropped /\ splits' = splits /\ pc' = pc
        /\ spent' = Append(spent, Head(input)) /\ input' = Tail(input)
    BY DEF CopyChar
  <1>3. Head(input) = Offset + 1 /\ Tail(input) = SubSeq(input, 2, Len(input))
    BY <1>1
  <1>4. Len(input') = Len(input) - 1 /\ input' = [k \in 1 .. Len(input) - 1 |-> Offset + 1 + k]
    <2>1. 1 \in 0 .. Len(input) /\ 1 + 1 = 2
      BY <1>1
    <2>2. InputOK
      BY DEF Inv
    <2>3. QED
      BY <1>2, <1>3, <2>1, <2>2, Rest
  <1>5. Size' = Size /\ Offset' = Offset + 1
    BY <1>1, <1>2, <1>4 DEF Size, Offset
  <1>6. InputOK'
    <2>1. pool' \in Seq({"bit", "other"}) /\ Len(input') \in 0 .. Size'
      BY <1>1, <1>2, <1>4, <1>5 DEF Inv, InputOK
    <2>2. input' = [k \in 1 .. Len(input') |-> Offset' + k]
      BY <1>4, <1>5
    <2>3. QED
      BY <2>1, <2>2 DEF InputOK
  <1>7. SpentOK'
    <2>1. /\ spent \in Seq(1 .. Offset) /\ dropped \in SUBSET (1 .. Offset) /\ IsFiniteSet(dropped)
          /\ ToSet(spent) \cup dropped = 1 .. Offset /\ Len(spent) + Cardinality(dropped) = Offset
      BY DEF Inv, SpentOK
    <2>2. ToSet(spent') = ToSet(spent) \cup {Offset + 1} /\ Len(spent') = Len(spent) + 1
      BY <1>2, <1>3, <2>1, AppendSet
    <2>3. 1 .. Offset + 1 = (1 .. Offset) \cup {Offset + 1}
      BY <1>1
    <2>4. spent' \in Seq(1 .. Offset + 1)
      <3>1. spent \in Seq(1 .. Offset + 1) /\ Offset + 1 \in 1 .. Offset + 1
        BY <1>1, <2>1, <2>3
      <3>2. QED
        BY <1>2, <1>3, <3>1
    <2>5. Len(spent') + Cardinality(dropped') = Offset + 1
      <3>1. Len(spent) \in Nat /\ Cardinality(dropped) \in Nat
        BY <2>1, FS_CardinalityType
      <3>2. Cardinality(dropped') = Cardinality(dropped)
        BY <1>2
      <3>3. QED
        BY <2>1, <2>2, <3>1, <3>2
    <2>6. QED
      BY <1>2, <1>5, <2>1, <2>2, <2>3, <2>4, <2>5 DEF SpentOK
  <1>8. DroppedOK'
    BY <1>2 DEF Inv, DroppedOK
  <1>9. QED
    BY <1>6, <1>7, <1>8 DEF Inv

\* The loop ends: at most one character more leaves the input, for nowhere.
LEMMA EndSplitInv ==
  ASSUME Inv, EndSplit
  PROVE  Inv'
  <1> DEFINE j == ReadAhead
  <1>1. /\ Size \in Nat /\ Len(input) \in 0 .. Size /\ Offset = Size - Len(input) /\ Offset \in Nat
        /\ input = [k \in 1 .. Len(input) |-> Offset + k]
    BY DEF Inv, InputOK, Offset, Size
  <1>2. j \in {0, 1} /\ j \in 0 .. Len(input)
    <2>1. CASE input = <<>>
      BY <1>1, <2>1 DEF ReadAhead
    <2>2. CASE input # <<>>
      <3>1. Len(input) >= 1
        BY <1>1, <2>2
      <3>2. QED
        BY <1>1, <3>1 DEF ReadAhead
    <2>3. QED
      BY <2>1, <2>2
  <1>3. /\ pool' = pool /\ spent' = spent /\ splits' = splits /\ pc = "split" /\ pc' = "read"
        /\ dropped' = dropped \cup {input[k] : k \in 1 .. j}
        /\ input' = SubSeq(input, j + 1, Len(input))
    BY DEF EndSplit
  <1> HIDE DEF j
  <1>4. Len(input') = Len(input) - j /\ input' = [k \in 1 .. Len(input) - j |-> Offset + j + k]
    BY <1>2, <1>3, Rest DEF Inv
  <1>5. Size' = Size /\ Offset' = Offset + j
    <2>1. Size' = Size
      BY <1>3 DEF Size
    <2>2. Len(input') = Len(input) - j
      BY <1>4
    <2>3. Offset' = Size' - Len(input')
      BY DEF Offset
    <2>4. QED
      BY <1>1, <1>2, <2>1, <2>2, <2>3
  <1>6. InputOK'
    <2>1. pool' \in Seq({"bit", "other"}) /\ Len(input') \in 0 .. Size'
      <3>1. pool' \in Seq({"bit", "other"})
        BY <1>3 DEF Inv, InputOK
      <3>2. Len(input') = Len(input) - j
        BY <1>4
      <3>3. QED
        BY <1>1, <1>2, <1>5, <3>1, <3>2
    <2>2. input' = [k \in 1 .. Len(input') |-> Offset' + k]
      BY <1>4, <1>5
    <2>3. QED
      BY <2>1, <2>2 DEF InputOK
  <1>7. /\ spent \in Seq(1 .. Offset) /\ dropped \in SUBSET (1 .. Offset) /\ IsFiniteSet(dropped)
        /\ ToSet(spent) \cup dropped = 1 .. Offset /\ Len(spent) + Cardinality(dropped) = Offset
        /\ Len(spent) \in Nat /\ Cardinality(dropped) \in Nat
    BY FS_CardinalityType DEF Inv, SpentOK
  <1>8. splits \in Nat /\ Cardinality(dropped) + 1 <= splits
    BY <1>3 DEF Inv, DroppedOK
  <1>9. CASE j = 0
    <2>1. dropped' = dropped /\ Offset' = Offset
      BY <1>1, <1>3, <1>5, <1>9
    <2>2. SpentOK'
      BY <1>3, <2>1 DEF Inv, SpentOK
    <2>3. DroppedOK'
      <3>1. Cardinality(dropped') = Cardinality(dropped) /\ splits' = splits /\ pc' # "split"
        BY <1>3, <2>1
      <3>2. QED
        BY <1>7, <1>8, <3>1 DEF DroppedOK
    <2>4. QED
      BY <1>6, <2>2, <2>3 DEF Inv
  <1>10. CASE j = 1
    <2>1. Offset' = Offset + 1 /\ dropped' = dropped \cup {Offset + 1}
      <3>1. input[1] = Offset + 1
        BY <1>1, <1>2, <1>10
      <3>2. {input[k] : k \in 1 .. j} = {input[1]}
        BY <1>10
      <3>3. QED
        BY <1>3, <1>5, <1>10, <3>1, <3>2
    <2>2. IsFiniteSet(dropped') /\ Cardinality(dropped') = Cardinality(dropped) + 1
      <3>1. Offset + 1 \notin dropped
        BY <1>1, <1>7
      <3>2. QED
        BY <1>7, <2>1, <3>1, FS_AddElement
    <2>3. 1 .. Offset + 1 = (1 .. Offset) \cup {Offset + 1}
      BY <1>1
    <2>4. spent' \in Seq(1 .. Offset')
      BY <1>3, <1>7, <2>1, <2>3
    <2>5. ToSet(spent') \cup dropped' = 1 .. Offset' /\ dropped' \in SUBSET (1 .. Offset')
      BY <1>3, <1>7, <2>1, <2>3
    <2>6. Len(spent') + Cardinality(dropped') = Offset'
      <3>1. Len(spent') = Len(spent)
        BY <1>3
      <3>2. /\ Len(spent) + Cardinality(dropped) = Offset
            /\ Len(spent) \in Nat /\ Cardinality(dropped) \in Nat
        BY <1>7
      <3>3. Cardinality(dropped') = Cardinality(dropped) + 1 /\ Offset' = Offset + 1
        BY <2>1, <2>2
      <3>4. QED
        BY <3>1, <3>2, <3>3
    <2>7. SpentOK'
      BY <2>2, <2>4, <2>5, <2>6 DEF SpentOK
    <2>8. DroppedOK'
      <3>1. splits' = splits /\ pc' # "split"
        BY <1>3
      <3>2. QED
        BY <1>7, <1>8, <2>2, <3>1 DEF DroppedOK
    <2>9. QED
      BY <1>6, <2>7, <2>8 DEF Inv
  <1>11. QED
    BY <1>2, <1>9, <1>10

\* Every step keeps the invariant.
LEMMA NextInv ==
  ASSUME Inv, [Next]_vars
  PROVE  Inv'
  <1>1. ASSUME UNCHANGED <<pool, input, spent, dropped>>, splits' = splits,
               pc' = "split" => pc = "split"
        PROVE  Inv'
    <2>1. InputOK'
      BY <1>1 DEF Inv, InputOK, Size, Offset
    <2>2. SpentOK'
      BY <1>1 DEF Inv, SpentOK, Size, Offset
    <2>3. DroppedOK'
      BY <1>1 DEF Inv, DroppedOK
    <2>4. QED
      BY <2>1, <2>2, <2>3 DEF Inv
  <1>2. CASE StartSplit
    <2>1. UNCHANGED <<pool, input, spent, dropped>> /\ splits' = splits + 1
      BY <1>2 DEF StartSplit
    <2>2. InputOK'
      BY <2>1 DEF Inv, InputOK, Size, Offset
    <2>3. SpentOK'
      BY <2>1 DEF Inv, SpentOK, Size, Offset
    <2>4. DroppedOK'
      <3>1. Cardinality(dropped) \in Nat /\ splits \in Nat /\ Cardinality(dropped) <= splits
        BY FS_CardinalityType DEF Inv, SpentOK, DroppedOK
      <3>2. Cardinality(dropped') = Cardinality(dropped)
        BY <2>1
      <3>3. QED
        BY <2>1, <3>1, <3>2 DEF DroppedOK
    <2>5. QED
      BY <2>2, <2>3, <2>4 DEF Inv
  <1>3. CASE CopyChar
    BY <1>3, CopyCharInv
  <1>4. CASE EndSplit
    BY <1>4, EndSplitInv
  <1>5. CASE ReadChar
    BY <1>1, <1>5 DEF ReadChar, splitter
  <1>6. CASE EndRead
    BY <1>1, <1>6 DEF EndRead, splitter
  <1>7. CASE Receive
    BY <1>1, <1>7 DEF Receive, splitter
  <1>8. CASE Create
    BY <1>1, <1>8 DEF Create, splitter
  <1>9. CASE Mask
    BY <1>1, <1>9 DEF Mask, splitter
  <1>10. CASE NextExperiment
    BY <1>1, <1>10 DEF NextExperiment
  <1>11. CASE UNCHANGED vars
    BY <1>1, <1>11 DEF vars, splitter
  <1>12. CASE Stopped
    BY <1>11, <1>12 DEF Stopped
  <1>13. QED
    BY <1>2, <1>3, <1>4, <1>5, <1>6, <1>7, <1>8, <1>9, <1>10, <1>11, <1>12 DEF Next
-----------------------------------------------------------------------------
\* The characters that have left the pool are its first ones, each in one
\* seed file or dropped.
THEOREM Invariance == Spec => []Inv
  <1>1. QED
    BY InitInv, NextInv, PTL DEF Spec

(***************************************************************************)
(* Experiments share no seed: for every pool, every sequence of lengths    *)
(* and every number of runs of split_seed_pool, each character is in one   *)
(* seed, left for later or dropped, one per run at most.                   *)
(***************************************************************************)
THEOREM SeedsDisjoint == Spec => []PoolAccounted
  <1>1. QED
    BY Invariance, InvImplies, PTL

-----------------------------------------------------------------------------
(* Places of bits *)

\* The word of a bit and its place in the word.
LEMMA Divides ==
  ASSUME NEW k \in Nat, NEW v \in Nat \ {0}
  PROVE  k \div v \in Nat /\ k % v \in 0 .. v - 1 /\ k = v * (k \div v) + (k % v)
  OBVIOUS

\* A number has one quotient and one rest.
LEMMA QuotientUnique ==
  ASSUME NEW v \in Nat \ {0}, NEW q \in Nat, NEW e \in 0 .. v - 1
  PROVE  v * q + e \in Nat /\ (v * q + e) \div v = q /\ (v * q + e) % v = e
  <1> DEFINE k == v * q + e
             x == k \div v
             y == k % v
  <1>1. v * q \in Nat /\ k \in Nat
    OBVIOUS
  <1>2. x \in Nat /\ y \in 0 .. v - 1 /\ k = v * x + y
    BY <1>1, Divides
  <1>3. k = v * q + e
    OBVIOUS
  <1> HIDE DEF k, x, y
  <1>4. ~(x > q)
    <2>1. SUFFICES ASSUME x > q PROVE FALSE
      OBVIOUS
    <2>2. v * x >= v * (q + 1) /\ v * (q + 1) = v * q + v /\ v * x \in Nat
      BY <1>2, <2>1
    <2>3. QED
      BY <1>1, <1>2, <1>3, <2>2
  <1>5. ~(x < q)
    <2>1. SUFFICES ASSUME x < q PROVE FALSE
      OBVIOUS
    <2>2. v * q >= v * (x + 1) /\ v * (x + 1) = v * x + v /\ v * x \in Nat
      BY <1>2, <2>1
    <2>3. QED
      BY <1>1, <1>2, <1>3, <2>2
  <1>6. x = q
    <2>1. x \in Nat
      BY <1>2
    <2>2. QED
      BY <1>4, <1>5, <2>1
  <1>7. y = e
    <2>1. v * x = v * q /\ v * q \in Nat
      BY <1>1, <1>6
    <2>2. y \in Nat /\ k = v * q + y
      BY <1>2, <2>1
    <2>3. QED
      BY <1>3, <2>1, <2>2
  <1>8. QED
    BY <1>1, <1>3, <1>6, <1>7 DEF x, y, k

\* A smaller number has no larger quotient.
LEMMA QuotientMonotone ==
  ASSUME NEW v \in Nat \ {0}, NEW j \in Nat, NEW k \in Nat, j <= k
  PROVE  j \div v <= k \div v
  <1> DEFINE x == j \div v
             y == k \div v
  <1>1. /\ x \in Nat /\ y \in Nat /\ j = v * x + (j % v) /\ k = v * y + (k % v)
        /\ j % v \in 0 .. v - 1 /\ k % v \in 0 .. v - 1
    BY Divides
  <1> HIDE DEF x, y
  <1>2. ASSUME x > y PROVE FALSE
    <2>1. v * x >= v * (y + 1) /\ v * (y + 1) = v * y + v /\ v * x \in Nat /\ v * y \in Nat
      BY <1>1, <1>2
    <2>2. QED
      BY <1>1, <2>1
  <1>3. QED
    BY <1>1, <1>2 DEF x, y

\* get_bit finds in its chunk of a word the bit of the word itself.
LEMMA ChunkOfWord ==
  ASSUME NEW i \in Nat
  PROVE  /\ (i \div C) \div (W \div C) = i \div W
         /\ ((i \div C) % (W \div C)) * C + (i % C) = i % W
  <1> DEFINE c == W \div C
             q == i \div C
             r == i % C
             w == q \div c
             s == q % c
  <1>1. C \in Nat \ {0} /\ W \in Nat \ {0} /\ W % C = 0
    BY WidthAssumption
  <1>2. W = C * c /\ c \in Nat
    <2>1. W = C * c + (W % C) /\ c \in Nat
      BY <1>1, Divides
    <2>2. C * c \in Nat
      BY <1>1, <2>1
    <2>3. QED
      BY <1>1, <2>1, <2>2
  <1>3. c # 0
    BY <1>1, <1>2
  <1>4. q \in Nat /\ r \in 0 .. C - 1 /\ i = C * q + r
    BY <1>1, Divides
  <1>5. w \in Nat /\ s \in 0 .. c - 1 /\ q = c * w + s
    BY <1>2, <1>3, <1>4, Divides
  <1> HIDE DEF c, q, r, w, s
  <1>6. C * s \in Nat /\ C * s <= C * (c - 1) /\ C * (c - 1) = W - C
    BY <1>1, <1>2, <1>3, <1>5
  <1>7. C * s + r \in 0 .. W - 1
    BY <1>1, <1>4, <1>6
  <1>8. i = W * w + (C * s + r)
    <2>1. C * q = C * (c * w) + C * s
      BY <1>1, <1>2, <1>5
    <2>2. C * (c * w) = W * w /\ W * w \in Nat
      BY <1>1, <1>2, <1>5
    <2>3. QED
      BY <1>1, <1>4, <1>6, <2>1, <2>2
  <1>9. i \div W = w /\ i % W = C * s + r
    <2>1. \A x \in 0 .. W - 1 : (W * w + x) \div W = w /\ (W * w + x) % W = x
      BY <1>1, <1>5, QuotientUnique
    <2>2. QED
      BY <1>7, <1>8, <2>1
  <1>10. s * C = C * s
    BY <1>1, <1>5
  <1>11. QED
    BY <1>9, <1>10 DEF c, q, r, w, s

\* The bits of the words that size bits fill have their word.
LEMMA PlaceInWords ==
  ASSUME NEW size \in Nat \ {0}, NEW k \in 0 .. W * ((size - 1) \div W + 1) - 1
  PROVE  /\ k \in Nat /\ k \div W \in 0 .. (size - 1) \div W /\ k \div W \in 0 .. size \div W
         /\ k % W \in 0 .. W - 1 /\ W - 1 - (k % W) \in 0 .. W - 1
         /\ k = W * (k \div W) + (k % W)
  <1> DEFINE q == (size - 1) \div W
  <1>1. W \in Nat \ {0} /\ size - 1 \in Nat
    BY WidthAssumption
  <1>2. q \in Nat /\ q <= size \div W /\ size \div W \in Nat
    <2>1. q \in Nat /\ size \div W \in Nat
      BY <1>1, Divides
    <2>2. \A j, h \in Nat : j <= h => j \div W <= h \div W
      BY <1>1, QuotientMonotone
    <2>3. QED
      BY <1>1, <2>1, <2>2
  <1>3. k \in 0 .. W * (q + 1) - 1
    OBVIOUS
  <1> HIDE DEF q
  <1>4. W * q \in Nat /\ W * (q + 1) = W * q + W
    BY <1>1, <1>2
  <1>5. k \in Nat
    BY <1>3
  <1>6. k \div W \in Nat /\ k % W \in 0 .. W - 1 /\ k = W * (k \div W) + (k % W)
    BY <1>1, <1>5, Divides
  <1>7. k \div W <= q
    <2> DEFINE x == k \div W
    <2>1. x \in Nat /\ k = W * x + (k % W) /\ k % W \in 0 .. W - 1
      BY <1>6
    <2> HIDE DEF x
    <2>2. ASSUME x > q PROVE FALSE
      <3>1. W * x >= W * (q + 1)
        BY <1>1, <1>2, <2>1, <2>2
      <3>2. W * x \in Nat /\ W * q \in Nat
        BY <1>1, <1>4, <2>1
      <3>3. k >= W * x /\ k <= W * (q + 1) - 1 /\ W * (q + 1) \in Nat
        BY <1>1, <1>3, <1>4, <2>1, <3>2
      <3>4. QED
        BY <1>5, <3>1, <3>2, <3>3
    <2>3. QED
      BY <1>2, <2>1, <2>2 DEF x
  <1>8. k \div W \in 0 .. q /\ k \div W \in 0 .. size \div W
    BY <1>2, <1>6, <1>7
  <1>9. W - 1 - (k % W) \in 0 .. W - 1
    BY <1>1, <1>6
  <1>10. QED
    BY <1>5, <1>6, <1>8, <1>9 DEF q

\* part_mask keeps of the last word just the bits below size.
LEMMA MaskKeeps ==
  ASSUME NEW size \in Nat \ {0}, NEW k \in 0 .. W * ((size - 1) \div W + 1) - 1
  PROVE  k \div W # size \div W \/ W - 1 - (k % W) \in PartMask(size) <=> k < size
  <1> DEFINE q == size \div W
             e == size % W
             x == k \div W
             y == k % W
  <1>1. W \in Nat \ {0} /\ size - 1 \in Nat
    BY WidthAssumption
  <1>2. q \in Nat /\ e \in 0 .. W - 1 /\ size = W * q + e
    BY <1>1, Divides
  <1>3. k \in Nat /\ x \in 0 .. (size - 1) \div W /\ y \in 0 .. W - 1 /\ k = W * x + y
    BY PlaceInWords
  <1>4. \A j \in Nat, l \in 0 .. W - 1 : (W * j + l) \div W = j
    BY <1>1, QuotientUnique
  <1>5. W * q \in Nat
    BY <1>1, <1>2
  <1>6. CASE e = 0
    <2>1. q # 0
      BY <1>1, <1>2, <1>6
    <2>2. size - 1 = W * (q - 1) + (W - 1) /\ q - 1 \in Nat
      <3> HIDE DEF q, e
      <3>1. size = W * q /\ W * (q - 1) = W * q - W
        BY <1>1, <1>2, <1>6
      <3>2. QED
        BY <1>1, <1>2, <1>5, <2>1, <3>1
    <2>3. (size - 1) \div W = q - 1
      BY <1>1, <1>4, <2>2
    <2>4. x <= q - 1
      BY <1>3, <2>2, <2>3
    <2>5. k < size
      <3> HIDE DEF q, e, x, y
      <3>1. x \in Nat
        BY <1>3, <2>2, <2>4
      <3>2. W * x <= W * (q - 1) /\ W * x \in Nat
        BY <1>1, <2>2, <2>4, <3>1
      <3>3. QED
        BY <1>1, <1>3, <2>2, <3>2
    <2>6. W - 1 - y \in PartMask(size)
      BY <1>1, <1>3, <1>6 DEF PartMask
    <2>7. QED
      BY <2>5, <2>6
  <1>7. CASE e # 0
    <2>1. size - 1 = W * q + (e - 1) /\ e - 1 \in 0 .. W - 1
      <3> HIDE DEF q, e
      <3>1. QED
        BY <1>1, <1>2, <1>5, <1>7
    <2>2. (size - 1) \div W = q
      BY <1>2, <1>4, <2>1
    <2>3. x \in Nat /\ x <= q
      BY <1>2, <1>3, <2>2
    <2>4. W - 1 - y \in PartMask(size) <=> y < e
      <3>1. W - 1 - y \in PartMask(size) <=> W - 1 - y \in W - e .. W - 1
        BY <1>7 DEF PartMask
      <3> HIDE DEF q, e, x, y
      <3>2. QED
        BY <1>1, <1>2, <1>3, <1>7, <3>1
    <2>5. CASE x = q
      <3> HIDE DEF q, e, x, y
      <3>1. k < size <=> y < e
        <4>1. k = W * q + y
          BY <1>3, <2>5
        <4>2. QED
          BY <1>1, <1>2, <1>3, <1>5, <4>1
      <3>2. QED
        BY <2>4, <2>5, <3>1 DEF q, x, y
    <2>6. CASE x # q
      <3>1. k < size
        <4> HIDE DEF q, e, x, y
        <4>1. x + 1 <= q
          BY <1>2, <2>3, <2>6
        <4>2. W * (x + 1) <= W * q /\ W * (x + 1) = W * x + W /\ W * x \in Nat
          BY <1>1, <1>2, <2>3, <4>1
        <4>3. QED
          BY <1>1, <1>2, <1>3, <1>5, <4>2
      <3>2. QED
        BY <2>6, <3>1
    <2>7. QED
      BY <2>5, <2>6
  <1>8. QED
    BY <1>6, <1>7

-----------------------------------------------------------------------------
(* Bits of the seed file *)

\* Bits are counted one by one.
LEMMA NextBit ==
  ASSUME NEW j \in Nat \ {0}
  PROVE  /\ BitsBefore(j) \in Nat
         /\ BitsBefore(j + 1) = BitsBefore(j) + IF IsBit(seedFile[j]) THEN 1 ELSE 0
  <1> DEFINE B(x) == {i \in 1 .. x - 1 : IsBit(seedFile[i])}
  <1>1. IsFiniteSet(B(j)) /\ Cardinality(B(j)) \in Nat
    <2>1. IsFiniteSet(1 .. j - 1)
      BY FS_Interval
    <2>2. IsFiniteSet(B(j))
      BY <2>1, FS_Subset
    <2>3. QED
      BY <2>2, FS_CardinalityType
  <1>2. j \notin B(j)
    OBVIOUS
  <1>3. 1 .. (j + 1) - 1 = (1 .. j - 1) \cup {j}
    OBVIOUS
  <1>4. CASE IsBit(seedFile[j])
    <2>1. B(j + 1) = B(j) \cup {j}
      BY <1>3, <1>4
    <2> HIDE DEF B
    <2>2. Cardinality(B(j + 1)) = Cardinality(B(j)) + 1
      BY <1>1, <1>2, <2>1, FS_AddElement
    <2>3. QED
      BY <1>1, <1>4, <2>2 DEF BitsBefore, B
  <1>5. CASE ~IsBit(seedFile[j])
    <2>1. B(j + 1) = B(j)
      BY <1>3, <1>5
    <2>2. QED
      BY <1>1, <1>5, <2>1 DEF BitsBefore
  <1>6. QED
    BY <1>4, <1>5

\* A later character has no fewer bits before it.
LEMMA BitsMonotone ==
  ASSUME NEW j \in Nat \ {0}, NEW k \in Nat \ {0}, j <= k
  PROVE  BitsBefore(j) <= BitsBefore(k)
  <1>1. IsFiniteSet({i \in 1 .. k - 1 : IsBit(seedFile[i])})
    <2>1. IsFiniteSet(1 .. k - 1)
      BY FS_Interval
    <2>2. QED
      BY <2>1, FS_Subset
  <1>2. {i \in 1 .. j - 1 : IsBit(seedFile[i])} \in SUBSET {i \in 1 .. k - 1 : IsBit(seedFile[i])}
    <2>1. 1 .. j - 1 \subseteq 1 .. k - 1
      OBVIOUS
    <2>2. QED
      BY <2>1
  <1>3. QED
    BY <1>1, <1>2, FS_Subset DEF BitsBefore

\* Two bits have different numbers.
LEMMA BitUnique ==
  ASSUME NEW j \in Nat \ {0}, NEW k \in Nat \ {0}, IsBit(seedFile[j]), IsBit(seedFile[k]),
         BitsBefore(j) = BitsBefore(k)
  PROVE  j = k
  <1>1. ASSUME NEW a \in Nat \ {0}, NEW b \in Nat \ {0}, IsBit(seedFile[a]), a < b
        PROVE  BitsBefore(a) < BitsBefore(b)
    <2>1. BitsBefore(a) \in Nat /\ BitsBefore(a + 1) = BitsBefore(a) + 1 /\ BitsBefore(b) \in Nat
      BY <1>1, NextBit
    <2>2. a + 1 \in Nat \ {0} /\ a + 1 <= b
      BY <1>1
    <2>3. BitsBefore(a + 1) <= BitsBefore(b)
      BY <2>2, BitsMonotone
    <2>4. QED
      BY <2>1, <2>3
  <1>2. BitsBefore(j) \in Nat
    BY NextBit
  <1>3. ~(j < k) /\ ~(k < j)
    BY <1>1, <1>2
  <1>4. QED
    BY <1>3

\* Bits 0 to count - 1 are in the seed file.
BitsFound(count) ==
  \A k \in 0 .. count - 1 : \E j \in DOMAIN seedFile : IsBit(seedFile[j]) /\ BitsBefore(j) = k

\* The bit with k others before it is bit k.
LEMMA BitOfFile ==
  ASSUME seedFile \in Seq(Nat), source = "file", NEW j \in DOMAIN seedFile, IsBit(seedFile[j])
  PROVE  SeedBit(BitsBefore(j)) = seedFile[j]
  <1> DEFINE c == CHOOSE x \in DOMAIN seedFile : IsBit(seedFile[x]) /\ BitsBefore(x) = BitsBefore(j)
  <1>1. c \in DOMAIN seedFile /\ IsBit(seedFile[c]) /\ BitsBefore(c) = BitsBefore(j)
    OBVIOUS
  <1>2. DOMAIN seedFile \subseteq Nat \ {0}
    OBVIOUS
  <1>3. SeedBit(BitsBefore(j)) = seedFile[c]
    BY DEF SeedBit
  <1> HIDE DEF c
  <1>4. c = j
    BY <1>1, <1>2, BitUnique
  <1>5. QED
    BY <1>3, <1>4

\* Bits of different numbers are different bits, and none is the bit that is
\* never set.
LEMMA SeedBitsDiffer ==
  ASSUME seedFile \in Seq(1 .. Size), Size \in Nat, source \in {"file", "stream", "random"},
         \A j, k \in DOMAIN seedFile : j # k => seedFile[j] # seedFile[k],
         NEW count \in Nat, source = "file" => BitsFound(count)
  PROVE  /\ \A k \in 0 .. count - 1 : SeedBit(k) \in Nat \ {0}
         /\ \A j, k \in 0 .. count - 1 : SeedBit(j) = SeedBit(k) => j = k
  <1>1. CASE source # "file"
    BY <1>1 DEF SeedBit
  <1>2. CASE source = "file"
    <2>1. seedFile \in Seq(Nat) /\ \A j \in DOMAIN seedFile : seedFile[j] \in Nat \ {0}
      OBVIOUS
    <2>2. ASSUME NEW k \in 0 .. count - 1
          PROVE  \E j \in DOMAIN seedFile : BitsBefore(j) = k /\ SeedBit(k) = seedFile[j]
      <3>1. PICK j \in DOMAIN seedFile : IsBit(seedFile[j]) /\ BitsBefore(j) = k
        BY <1>2 DEF BitsFound
      <3>2. SeedBit(k) = seedFile[j]
        BY <1>2, <2>1, <3>1, BitOfFile
      <3>3. QED
        BY <3>1, <3>2
    <2>3. QED
      BY <2>1, <2>2
  <1>3. QED
    BY <1>1, <1>2

-----------------------------------------------------------------------------
(* The words loaded *)

\* The types; no loop counts past the bits it wants.
CountsOK ==
  /\ pc \in {"start", "split", "read", "mask", "ready", "failed"}
  /\ source \in {"file", "stream", "random"}
  /\ d \in Nat /\ cnt \in Nat /\ seedLen \in Nat
  /\ pc = "split" => cnt <= seedLen
  /\ pc = "read" => cnt <= d
  /\ pc \in {"read", "mask", "ready"} => d # 0
  /\ words \in [0 .. d \div W -> [0 .. W - 1 -> Nat]]
\* A seed file has no character twice: they come from the input in order.
FileOK ==
  /\ seedFile \in Seq(1 .. Size) /\ unread \in Seq(1 .. Size)
  /\ \A j, k \in DOMAIN seedFile : j # k => seedFile[j] # seedFile[k]
  /\ pc = "split" => \A j \in DOMAIN seedFile : seedFile[j] <= Offset
\* What is not read yet is the end of the file, and cnt the bits before it.
Done == Len(seedFile) - Len(unread)
ReadOK ==
  pc = "read" =>
    /\ source = "file" /\ Done \in Nat
    /\ unread = [k \in 1 .. Len(unread) |-> seedFile[Done + k]]
    /\ cnt = BitsBefore(Done + 1)
    /\ BitsFound(cnt) /\ HoldsFirst(cnt)
\* Whole words have come, before part_mask.
MaskOK ==
  pc = "mask" =>
    \/ source = "stream" /\ words = Delivered(d, (d - 1) \div W)
    \/ /\ source = "random"
       /\ words = [w \in 0 .. d \div W |-> [loc \in 0 .. W - 1 |->
                    IF loc % C = C - 1 THEN 0 ELSE Delivered(d, d \div W)[w][loc]]]
ReadyOK ==
  pc = "ready" => HoldsFirst(d) /\ (source = "file" => BitsFound(d))
LoadInv == CountsOK /\ FileOK /\ ReadOK /\ MaskOK /\ ReadyOK

\* The places of the first size bits and of those that fill the last word.
Span == 0 .. W * ((d - 1) \div W + 1) - 1

\* calloc clears all words.
LEMMA ZeroWordsType ==
  ASSUME NEW size \in Nat
  PROVE  ZeroWords(size) \in [0 .. size \div W -> [0 .. W - 1 -> Nat]]
  BY DEF ZeroWords

\* Words that came whole have the types of words.
LEMMA DeliveredType ==
  ASSUME NEW size \in Nat, NEW last
  PROVE  Delivered(size, last) \in [0 .. size \div W -> [0 .. W - 1 -> Nat]]
  <1>1. W \in Nat \ {0}
    BY WidthAssumption
  <1>2. \A w \in 0 .. size \div W, loc \in 0 .. W - 1 :
          (IF w <= last THEN w * W + W - loc ELSE 0) \in Nat
    <2>1. SUFFICES ASSUME NEW w \in 0 .. size \div W, NEW loc \in 0 .. W - 1
                   PROVE  w * W + W - loc \in Nat
      OBVIOUS
    <2>2. w \in Nat /\ loc \in Nat /\ w * W \in Nat
      BY <1>1
    <2>3. QED
      BY <1>1, <2>2
  <1>3. QED
    BY <1>2 DEF Delivered

\* Bit k of what is delivered comes where Place(k) is.
LEMMA DeliveredBit ==
  ASSUME d \in Nat \ {0}, NEW k \in Span, NEW last \in Int, k \div W <= last
  PROVE  Delivered(d, last)[k \div W][W - 1 - (k % W)] = k + 1
  <1> DEFINE x == k \div W
             y == k % W
  <1>1. W \in Nat \ {0}
    BY WidthAssumption
  <1>2. k \in Nat /\ x \in 0 .. d \div W /\ y \in 0 .. W - 1 /\ W - 1 - y \in 0 .. W - 1 /\ k = W * x + y
    BY PlaceInWords DEF Span
  <1>3. x <= last
    OBVIOUS
  <1> HIDE DEF x, y
  <1>4. Delivered(d, last)[x][W - 1 - y] = x * W + W - (W - 1 - y)
    BY <1>2, <1>3 DEF Delivered
  <1>5. x \in Nat /\ x * W = W * x /\ W * x \in Nat
    BY <1>1, <1>2
  <1>6. x * W + W - (W - 1 - y) = k + 1
    BY <1>1, <1>2, <1>5
  <1>7. QED
    BY <1>4, <1>6 DEF x, y

\* Nothing is loaded.
LEMMA InitLoad == Init => LoadInv
  <1> SUFFICES ASSUME Init PROVE LoadInv
    OBVIOUS
  <1>1. /\ pc = "start" /\ cnt = 0 /\ d = 0 /\ seedLen = 0 /\ source = "file"
        /\ words = ZeroWords(0) /\ seedFile = <<>> /\ unread = <<>>
    BY DEF Init
  <1>2. CountsOK
    <2>1. words \in [0 .. d \div W -> [0 .. W - 1 -> Nat]]
      BY <1>1, ZeroWordsType
    <2>2. QED
      BY <1>1, <2>1 DEF CountsOK
  <1>3. FileOK
    <2>1. DOMAIN seedFile = {} /\ seedFile \in Seq(1 .. Size) /\ unread \in Seq(1 .. Size)
      BY <1>1
    <2>2. QED
      BY <1>1, <2>1 DEF FileOK
  <1>4. QED
    BY <1>1, <1>2, <1>3 DEF LoadInv, ReadOK, MaskOK, ReadyOK

\* The seed is what it was as long as its file and its source are.
LEMMA SameSeed ==
  ASSUME UNCHANGED <<pool, seedFile, source>>
  PROVE  /\ \A k : SeedBit(k)' = SeedBit(k) /\ BitsBefore(k)' = BitsBefore(k) /\ IsBit(k)' = IsBit(k)
         /\ \A k : NeverSet(k)' = NeverSet(k)
         /\ \A count : BitsFound(count)' = BitsFound(count)
  <1>1. \A k : BitsBefore(k)' = BitsBefore(k) /\ IsBit(k)' = IsBit(k)
    BY DEF BitsBefore, IsBit
  <1>2. \A k : NeverSet(k)' = NeverSet(k)
    BY DEF NeverSet, Place
  <1>3. \A k : SeedBit(k)' = SeedBit(k)
    BY DEF SeedBit, IsBit, BitsBefore
  <1>4. \A count : BitsFound(count)' = BitsFound(count)
    BY <1>1 DEF BitsFound, IsBit
  <1>5. QED
    BY <1>1, <1>2, <1>3, <1>4

\* Cutting a seed off the pool touches no word.
LEMMA StartSplitLoad == ASSUME LoadInv, StartSplit PROVE LoadInv'
  <1>1. /\ seedLen' \in Nat /\ cnt' = 0 /\ seedFile' = <<>> /\ pc' = "split"
        /\ UNCHANGED <<pool, input, source, d, unread, words>>
    BY SupplyAssumption DEF StartSplit
  <1>2. CountsOK'
    BY <1>1 DEF LoadInv, CountsOK
  <1>3. FileOK'
    <2>1. DOMAIN seedFile' = {} /\ seedFile' \in Seq(1 .. Size')
      BY <1>1
    <2>2. unread' \in Seq(1 .. Size')
      BY <1>1 DEF LoadInv, FileOK, Size
    <2>3. QED
      BY <2>1, <2>2 DEF FileOK
  <1>4. QED
    BY <1>1, <1>2, <1>3 DEF LoadInv, ReadOK, MaskOK, ReadyOK

\* The character copied has a higher place than those before it.
LEMMA CopyCharLoad == ASSUME Inv, LoadInv, CopyChar PROVE LoadInv'
  <1>1. /\ Size \in Nat /\ Len(input) \in 0 .. Size /\ Offset = Size - Len(input) /\ Offset \in Nat
        /\ input = [k \in 1 .. Len(input) |-> Offset + k] /\ Len(input) # 0
    <2>1. input # <<>>
      BY DEF CopyChar
    <2>2. QED
      BY <2>1 DEF Inv, InputOK, Offset, Size
  <1>2. /\ pc = "split" /\ cnt < seedLen /\ cnt' = cnt + (IF IsBit(Head(input)) THEN 1 ELSE 0)
        /\ seedFile' = Append(seedFile, Head(input)) /\ input' = Tail(input)
        /\ UNCHANGED <<pc, pool, seedLen, source, d, unread, words>>
    BY DEF CopyChar, More
  <1>3. Head(input) = Offset + 1
    BY <1>1
  <1>4. Size' = Size /\ Offset' = Offset + 1
    <2>1. Len(input') = Len(input) - 1
      BY <1>1, <1>2
    <2>2. QED
      BY <1>1, <1>2, <2>1 DEF Size, Offset
  <1>5. CountsOK'
    <2>1. cnt \in Nat /\ seedLen \in Nat
      BY DEF LoadInv, CountsOK
    <2>2. cnt' \in Nat /\ cnt' <= seedLen
      BY <1>2, <2>1
    <2>3. QED
      BY <1>2, <2>2 DEF LoadInv, CountsOK
  <1>6. FileOK'
    <2> DEFINE s == Append(seedFile, Offset + 1)
    <2>1. /\ seedFile \in Seq(1 .. Size) /\ unread \in Seq(1 .. Size)
          /\ \A j, k \in DOMAIN seedFile : j # k => seedFile[j] # seedFile[k]
          /\ \A j \in DOMAIN seedFile : seedFile[j] <= Offset
      BY <1>2 DEF LoadInv, FileOK
    <2>2. Offset + 1 \in 1 .. Size
      BY <1>1
    <2>3. s \in Seq(1 .. Size)
      BY <2>1, <2>2
    <2>4. /\ Len(seedFile) \in Nat /\ DOMAIN seedFile = 1 .. Len(seedFile)
          /\ DOMAIN s = 1 .. Len(seedFile) + 1
      BY <2>1
    <2>5. /\ \A k \in 1 .. Len(seedFile) : s[k] = seedFile[k]
          /\ s[Len(seedFile) + 1] = Offset + 1
      BY <2>1
    <2>6. seedFile' = s
      BY <1>2, <1>3
    <2> HIDE DEF s
    <2>7. 1 .. Len(seedFile) + 1 = (1 .. Len(seedFile)) \cup {Len(seedFile) + 1}
      BY <2>4
    <2>8. \A j \in DOMAIN s : s[j] <= Offset + 1
      <3>1. \A j \in 1 .. Len(seedFile) : seedFile[j] \in 1 .. Size /\ seedFile[j] <= Offset
        BY <2>1, <2>4, ElementOfSeq
      <3>2. \A x \in 1 .. Size : x <= Offset => x <= Offset + 1
        BY <1>1
      <3>3. Offset + 1 <= Offset + 1
        BY <1>1
      <3>4. QED
        BY <2>4, <2>5, <2>7, <3>1, <3>2, <3>3
    <2>9. \A j, k \in DOMAIN s : j # k => s[j] # s[k]
      <3>1. \A j \in DOMAIN seedFile : seedFile[j] \in 1 .. Size /\ seedFile[j] <= Offset
        BY <2>1, <2>4, ElementOfSeq
      <3>2. \A x \in 1 .. Size : x <= Offset => x # Offset + 1
        BY <1>1
      <3>3. \A j \in DOMAIN seedFile : seedFile[j] # Offset + 1
        BY <3>1, <3>2
      <3>4. QED
        BY <2>1, <2>4, <2>5, <2>7, <3>3
    <2>10. unread' = unread
      BY <1>2
    <2>11. QED
      BY <1>4, <2>1, <2>3, <2>6, <2>8, <2>9, <2>10 DEF FileOK
  <1>7. QED
    BY <1>2, <1>5, <1>6 DEF LoadInv, ReadOK, MaskOK, ReadyOK

\* Reading starts at the first character, into empty words.
LEMMA EndSplitLoad == ASSUME Inv, LoadInv, EndSplit PROVE LoadInv'
  <1>1. /\ pc = "split" /\ pc' = "read" /\ source' = "file" /\ unread' = seedFile /\ cnt' = 0
        /\ d' \in Nat \ {0} /\ words' = ZeroWords(d')
        /\ UNCHANGED <<pool, seedLen, seedFile>>
    BY SupplyAssumption DEF EndSplit
  <1>2. CountsOK'
    <2>1. words' \in [0 .. d' \div W -> [0 .. W - 1 -> Nat]]
      BY <1>1, ZeroWordsType
    <2>2. QED
      BY <1>1, <2>1 DEF LoadInv, CountsOK
  <1>3. FileOK'
    BY <1>1 DEF LoadInv, FileOK, Size
  <1>4. ReadOK'
    <2>1. seedFile' \in Seq(1 .. Size) /\ Len(unread') = Len(seedFile') /\ Len(seedFile') \in Nat
      BY <1>1 DEF LoadInv, FileOK
    <2>2. Done' = 0
      BY <2>1 DEF Done
    <2>3. unread' = [k \in 1 .. Len(unread') |-> seedFile'[Done' + k]]
      <3>1. seedFile' = [k \in 1 .. Len(seedFile') |-> seedFile'[k]]
        BY <2>1
      <3>2. \A k \in 1 .. Len(seedFile') : Done' + k = k
        BY <2>2
      <3>3. QED
        BY <1>1, <2>1, <3>1, <3>2
    <2>4. cnt' = BitsBefore(Done + 1)'
      <3>1. 1 .. (Done' + 1) - 1 = {}
        BY <2>2
      <3>2. BitsBefore(Done + 1)' = Cardinality({})
        BY <3>1 DEF BitsBefore
      <3>3. QED
        BY <1>1, <3>2, FS_EmptySet
    <2>5. BitsFound(cnt)'
      BY <1>1 DEF BitsFound
    <2>6. HoldsFirst(cnt)'
      <3>1. SUFFICES ASSUME NEW k \in 0 .. W * ((d' - 1) \div W + 1) - 1
                     PROVE  words'[k \div W][W - 1 - (k % W)] = 0 /\ ~(k < cnt')
        BY DEF HoldsFirst
      <3>2. k \in Nat /\ k \div W \in 0 .. d' \div W /\ W - 1 - (k % W) \in 0 .. W - 1
        BY <1>1, PlaceInWords
      <3>3. QED
        BY <1>1, <3>2 DEF ZeroWords
    <2>7. QED
      BY <1>1, <2>2, <2>3, <2>4, <2>5, <2>6 DEF ReadOK
  <1>5. QED
    BY <1>1, <1>2, <1>3, <1>4 DEF LoadInv, MaskOK, ReadyOK

\* A character that is a bit is the next bit of the seed, and goes to the
\* next place; the others change nothing.
LEMMA ReadCharLoad == ASSUME Inv, LoadInv, ReadChar PROVE LoadInv'
  <1> DEFINE char == Head(unread)
             j == Done + 1
  <1>1. /\ pc = "read" /\ unread # <<>> /\ cnt < d /\ unread' = Tail(unread)
        /\ IF IsBit(char)
           THEN words' = SetBit(words, Place(cnt), char) /\ cnt' = cnt + 1
           ELSE UNCHANGED <<words, cnt>>
        /\ UNCHANGED <<pc, seedLen, pool, seedFile, source, d>>
    BY DEF ReadChar, splitter, More
  <1>2. /\ source = "file" /\ Done \in Nat /\ cnt = BitsBefore(j) /\ BitsFound(cnt) /\ HoldsFirst(cnt)
        /\ unread = [k \in 1 .. Len(unread) |-> seedFile[Done + k]]
    BY <1>1 DEF LoadInv, ReadOK
  <1>3. /\ seedFile \in Seq(1 .. Size) /\ unread \in Seq(1 .. Size) /\ Size \in Nat
        /\ Len(seedFile) \in Nat /\ Len(unread) \in Nat /\ Len(unread) >= 1
        /\ DOMAIN seedFile = 1 .. Len(seedFile)
    <2>1. seedFile \in Seq(1 .. Size) /\ unread \in Seq(1 .. Size) /\ Size \in Nat
      BY DEF LoadInv, FileOK, Inv, InputOK, Size
    <2>2. QED
      BY <1>1, <2>1
  <1>4. d \in Nat \ {0} /\ cnt \in Nat /\ words \in [0 .. d \div W -> [0 .. W - 1 -> Nat]]
    BY <1>1 DEF LoadInv, CountsOK
  <1>5. j \in DOMAIN seedFile /\ char = seedFile[j] /\ j \in Nat \ {0}
    <2>1. Len(seedFile) = Done + Len(unread)
      BY <1>2, <1>3 DEF Done
    <2>2. char = unread[1]
      BY <1>3
    <2>3. QED
      BY <1>2, <1>3, <2>1, <2>2
  <1>6. char \in Nat
    BY <1>3, <1>5, ElementOfSeq
  <1>7. /\ unread' \in Seq(1 .. Size) /\ Len(unread') = Len(unread) - 1
        /\ \A k \in 1 .. Len(unread) - 1 : unread'[k] = unread[k + 1]
    BY <1>1, <1>3
  <1>8. Done' = Done + 1
    BY <1>1, <1>2, <1>3, <1>7 DEF Done
  <1> HIDE DEF char, j
  <1>9. FileOK'
    BY <1>1, <1>7 DEF LoadInv, FileOK, Size
  <1>10. unread' = [k \in 1 .. Len(unread') |-> seedFile'[Done' + k]]
    <2>1. unread' = [k \in 1 .. Len(unread') |-> unread'[k]]
      BY <1>7
    <2>2. ASSUME NEW k \in 1 .. Len(unread) - 1 PROVE unread'[k] = seedFile[Done + 1 + k]
      <3>1. unread'[k] = unread[k + 1] /\ k + 1 \in 1 .. Len(unread)
        BY <1>3, <1>7
      <3>2. unread[k + 1] = seedFile[Done + (k + 1)]
        BY <1>2, <3>1
      <3>3. Done + (k + 1) = Done + 1 + k
        BY <1>2
      <3>4. QED
        BY <3>1, <3>2, <3>3
    <2>3. QED
      BY <1>1, <1>7, <1>8, <2>1, <2>2
  <1>11. BitsBefore(Done + 1)' = BitsBefore(j + 1)
    <2>1. Done' + 1 = j + 1
      BY <1>2, <1>8 DEF j
    <2>2. QED
      BY <1>1, <2>1 DEF BitsBefore, IsBit
  <1>12. BitsBefore(j + 1) = cnt + IF IsBit(char) THEN 1 ELSE 0
    BY <1>2, <1>5, NextBit
  <1>13. CASE IsBit(char)
    <2>1. words' = SetBit(words, Place(cnt), char) /\ cnt' = cnt + 1
      BY <1>1, <1>13
    <2>2. cnt \in Span
      <3> DEFINE q == (d - 1) \div W
      <3>1. W \in Nat \ {0} /\ d - 1 \in Nat
        BY <1>4, WidthAssumption
      <3>2. q \in Nat /\ (d - 1) % W \in 0 .. W - 1 /\ d - 1 = W * q + ((d - 1) % W)
        BY <3>1, Divides
      <3> HIDE DEF q
      <3>3. W * q \in Nat /\ W * (q + 1) = W * q + W
        BY <3>1, <3>2
      <3>4. cnt \in 0 .. W * (q + 1) - 1
        BY <1>1, <1>4, <3>1, <3>2, <3>3
      <3>5. QED
        BY <3>4 DEF Span, q
    <2>3. cnt \div W \in 0 .. d \div W /\ W - 1 - (cnt % W) \in 0 .. W - 1
      BY <1>4, <2>2, PlaceInWords DEF Span
    <2>4. words' = [words EXCEPT ![cnt \div W] = [words[cnt \div W] EXCEPT ![W - 1 - (cnt % W)] = char]]
      BY <2>1 DEF SetBit, Place
    <2>5. CountsOK'
      <3>1. words' \in [0 .. d \div W -> [0 .. W - 1 -> Nat]]
        <4>1. [words[cnt \div W] EXCEPT ![W - 1 - (cnt % W)] = char] \in [0 .. W - 1 -> Nat]
          BY <1>4, <1>6, <2>3
        <4>2. QED
          BY <1>4, <2>3, <2>4, <4>1
      <3>2. cnt' \in Nat /\ cnt' <= d'
        BY <1>1, <1>4, <2>1
      <3>3. QED
        BY <1>1, <3>1, <3>2 DEF LoadInv, CountsOK
    <2>6. BitsFound(cnt)'
      <3>1. BitsFound(cnt + 1)
        <4>1. SUFFICES ASSUME NEW k \in 0 .. (cnt + 1) - 1
                       PROVE  \E i \in DOMAIN seedFile : IsBit(seedFile[i]) /\ BitsBefore(i) = k
          BY DEF BitsFound
        <4>2. CASE k = cnt
          BY <1>2, <1>5, <1>13, <4>2
        <4>3. CASE k # cnt
          <5>1. k \in 0 .. cnt - 1
            BY <1>4, <4>3
          <5>2. QED
            BY <1>2, <5>1 DEF BitsFound
        <4>4. QED
          BY <4>2, <4>3
      <3>2. SUFFICES ASSUME NEW k \in 0 .. cnt' - 1
                     PROVE  \E i \in DOMAIN seedFile' : IsBit(seedFile[i])' /\ BitsBefore(i)' = k
        BY DEF BitsFound
      <3>3. k \in 0 .. (cnt + 1) - 1
        BY <2>1
      <3>4. \E i \in DOMAIN seedFile : IsBit(seedFile[i]) /\ BitsBefore(i) = k
        BY <3>1, <3>3 DEF BitsFound
      <3>5. QED
        BY <1>1, <3>4, SameSeed DEF IsBit
    <2>7. char = SeedBit(cnt)
      <3>1. seedFile \in Seq(Nat)
        BY <1>3
      <3>2. QED
        BY <1>2, <1>5, <1>13, <3>1, BitOfFile
    <2>8. HoldsFirst(cnt)'
      <3>1. SUFFICES ASSUME NEW k \in Span
                     PROVE  words'[k \div W][W - 1 - (k % W)] = IF k < cnt + 1 THEN SeedBit(k) ELSE 0
        <4>1. \A k : ~NeverSet(k)' /\ SeedBit(k)' = SeedBit(k)
          BY <1>1, <1>2, SameSeed DEF NeverSet
        <4>2. Span' = Span
          BY <1>1 DEF Span
        <4>3. QED
          BY <2>1, <4>1, <4>2 DEF HoldsFirst, Span
      <3>2. words[k \div W][W - 1 - (k % W)] = IF k < cnt THEN SeedBit(k) ELSE 0
        BY <1>2 DEF HoldsFirst, NeverSet, Span
      <3>3. /\ k \in Nat /\ k \div W \in 0 .. d \div W /\ W - 1 - (k % W) \in 0 .. W - 1 /\ k % W \in 0 .. W - 1
            /\ k = W * (k \div W) + (k % W)
        BY <1>4, PlaceInWords DEF Span
      <3>4. cnt % W \in 0 .. W - 1 /\ cnt = W * (cnt \div W) + (cnt % W)
        BY <1>4, <2>2, PlaceInWords DEF Span
      <3>5. CASE k = cnt
        <4>1. words'[k \div W][W - 1 - (k % W)] = char
          BY <1>4, <2>3, <2>4, <3>5
        <4>2. QED
          BY <1>4, <2>7, <3>5, <4>1
      <3>6. CASE k # cnt
        <4>1. k \div W # cnt \div W \/ k % W # cnt % W
          BY <3>3, <3>4, <3>6
        <4>2. k \div W # cnt \div W \/ W - 1 - (k % W) # W - 1 - (cnt % W)
          <5>1. \A x, y \in 0 .. W - 1 : x # y => W - 1 - x # W - 1 - y
            BY WidthAssumption
          <5>2. QED
            BY <3>3, <3>4, <4>1, <5>1
        <4>3. words'[k \div W][W - 1 - (k % W)] = words[k \div W][W - 1 - (k % W)]
          BY <1>4, <2>3, <2>4, <3>3, <4>2
        <4>4. k < cnt + 1 <=> k < cnt
          BY <1>4, <3>3, <3>6
        <4>5. QED
          BY <3>2, <4>3, <4>4
      <3>7. QED
        BY <3>5, <3>6
    <2>9. ReadOK'
      BY <1>1, <1>2, <1>8, <1>10, <1>11, <1>12, <1>13, <2>1, <2>6, <2>8 DEF ReadOK
    <2>10. QED
      BY <1>1, <1>9, <2>5, <2>9 DEF LoadInv, MaskOK, ReadyOK
  <1>14. CASE ~IsBit(char)
    <2>1. words' = words /\ cnt' = cnt
      BY <1>1, <1>14
    <2>2. CountsOK'
      BY <1>1, <2>1 DEF LoadInv, CountsOK
    <2>3. BitsFound(cnt)' /\ HoldsFirst(cnt)'
      <3>1. BitsFound(cnt)'
        <4>1. SUFFICES ASSUME NEW k \in 0 .. cnt' - 1
                       PROVE  \E i \in DOMAIN seedFile' : IsBit(seedFile[i])' /\ BitsBefore(i)' = k
          BY DEF BitsFound
        <4>2. \E i \in DOMAIN seedFile : IsBit(seedFile[i]) /\ BitsBefore(i) = k
          BY <1>2, <2>1 DEF BitsFound
        <4>3. QED
          BY <1>1, <4>2, SameSeed DEF IsBit
      <3>2. \A k : ~NeverSet(k)' /\ ~NeverSet(k) /\ SeedBit(k)' = SeedBit(k)
        BY <1>1, <1>2, SameSeed DEF NeverSet
      <3>3. HoldsFirst(cnt)'
        BY <1>1, <1>2, <2>1, <3>2 DEF HoldsFirst
      <3>4. QED
        BY <3>1, <3>3
    <2>4. cnt' = BitsBefore(Done + 1)'
      BY <1>4, <1>11, <1>12, <1>14, <2>1
    <2>5. ReadOK'
      BY <1>1, <1>2, <1>8, <1>10, <2>3, <2>4 DEF ReadOK
    <2>6. QED
      BY <1>1, <1>9, <2>2, <2>5 DEF LoadInv, MaskOK, ReadyOK
  <1>15. QED
    BY <1>13, <1>14

\* The loop ends with all the bits, or the program does.
LEMMA EndReadLoad == ASSUME LoadInv, EndRead PROVE LoadInv'
  <1>1. /\ pc = "read" /\ pc' = (IF cnt < d THEN "failed" ELSE "ready")
        /\ UNCHANGED <<seedLen, seedFile, pool, input, cnt, source, d, unread, words>>
    BY DEF EndRead, splitter
  <1>2. CountsOK'
    BY <1>1 DEF LoadInv, CountsOK
  <1>3. FileOK'
    BY <1>1 DEF LoadInv, FileOK, Size, Offset
  <1>4. ReadyOK'
    <2>1. SUFFICES ASSUME pc' = "ready" PROVE HoldsFirst(d)' /\ BitsFound(d)'
      BY DEF ReadyOK
    <2>2. cnt = d
      BY <1>1, <2>1 DEF LoadInv, CountsOK
    <2>3. HoldsFirst(d) /\ BitsFound(d)
      BY <1>1, <2>2 DEF LoadInv, ReadOK
    <2>4. BitsFound(d)'
      <3>1. BitsFound(d)' <=> BitsFound(d)
        BY <1>1 DEF BitsFound, BitsBefore, IsBit
      <3>2. QED
        BY <2>3, <3>1
    <2>5. HoldsFirst(d)'
      <3>1. \A k : SeedBit(k)' = SeedBit(k) /\ NeverSet(k)' = NeverSet(k)
        BY <1>1, SameSeed
      <3>2. QED
        BY <1>1, <2>3, <3>1 DEF HoldsFirst
    <2>6. QED
      BY <2>4, <2>5
  <1>5. QED
    BY <1>1, <1>2, <1>3, <1>4 DEF LoadInv, ReadOK, MaskOK

\* The client's bits fill the words from the first.
LEMMA ReceiveLoad == ASSUME LoadInv, Receive PROVE LoadInv'
  <1>1. /\ pc' = "mask" /\ source' = "stream" /\ d' \in Nat \ {0} /\ words' = Delivered(d', (d' - 1) \div W)
        /\ UNCHANGED <<seedLen, seedFile, pool, input, cnt, unread>>
    BY SupplyAssumption DEF Receive, splitter
  <1>2. words' \in [0 .. d' \div W -> [0 .. W - 1 -> Nat]]
    <2>1. \A size \in Nat, last \in Int : Delivered(size, last) \in [0 .. size \div W -> [0 .. W - 1 -> Nat]]
      BY DeliveredType
    <2>2. d' - 1 \in Nat /\ W \in Nat \ {0}
      <3>1. \A x \in Nat \ {0} : x - 1 \in Nat
        OBVIOUS
      <3>2. QED
        BY <1>1, <3>1, WidthAssumption
    <2>3. (d' - 1) \div W \in Int
      BY <2>2
    <2>4. QED
      BY <1>1, <2>1, <2>3
  <1>3. CountsOK'
    BY <1>1, <1>2 DEF LoadInv, CountsOK
  <1>4. FileOK'
    BY <1>1 DEF LoadInv, FileOK, Size
  <1>5. MaskOK'
    BY <1>1 DEF MaskOK
  <1>6. QED
    BY <1>1, <1>3, <1>4, <1>5 DEF LoadInv, ReadOK, ReadyOK

\* rand() fills every word.
LEMMA CreateLoad == ASSUME LoadInv, Create PROVE LoadInv'
  <1>1. /\ pc' = "mask" /\ source' = "random" /\ d' \in Nat \ {0}
        /\ words' = [w \in 0 .. d' \div W |-> [loc \in 0 .. W - 1 |->
                      IF loc % C = C - 1 THEN 0 ELSE Delivered(d', d' \div W)[w][loc]]]
        /\ UNCHANGED <<seedLen, seedFile, pool, input, cnt, unread>>
    BY SupplyAssumption DEF Create, splitter
  <1>2. words' \in [0 .. d' \div W -> [0 .. W - 1 -> Nat]]
    <2>1. \A size \in Nat, last \in Int : Delivered(size, last) \in [0 .. size \div W -> [0 .. W - 1 -> Nat]]
      BY DeliveredType
    <2>2. d' \div W \in Int
      BY <1>1, WidthAssumption
    <2>3. Delivered(d', d' \div W) \in [0 .. d' \div W -> [0 .. W - 1 -> Nat]]
      BY <1>1, <2>1, <2>2
    <2>4. \A w \in 0 .. d' \div W, loc \in 0 .. W - 1 :
            (IF loc % C = C - 1 THEN 0 ELSE Delivered(d', d' \div W)[w][loc]) \in Nat
      BY <2>3
    <2>5. QED
      BY <1>1, <2>4
  <1>3. CountsOK'
    BY <1>1, <1>2 DEF LoadInv, CountsOK
  <1>4. FileOK'
    BY <1>1 DEF LoadInv, FileOK, Size
  <1>5. MaskOK'
    BY <1>1 DEF MaskOK
  <1>6. QED
    BY <1>1, <1>3, <1>4, <1>5 DEF LoadInv, ReadOK, ReadyOK

\* What is kept of whole words is the seed and nothing else.
LEMMA MaskLoad == ASSUME LoadInv, Mask PROVE LoadInv'
  <1>1. /\ pc = "mask" /\ pc' = "ready"
        /\ words' = [words EXCEPT ![d \div W] = [loc \in 0 .. W - 1 |->
                       IF loc \in PartMask(d) THEN words[d \div W][loc] ELSE 0]]
        /\ UNCHANGED <<seedLen, seedFile, pool, input, cnt, source, d, unread>>
    BY DEF Mask, splitter
  <1>2. d \in Nat \ {0} /\ words \in [0 .. d \div W -> [0 .. W - 1 -> Nat]]
    BY <1>1 DEF LoadInv, CountsOK
  <1>3. W \in Nat \ {0} /\ C \in Nat \ {0} /\ d - 1 \in Nat
    BY <1>2, WidthAssumption
  <1>4. d \div W \in Nat
    BY <1>2, <1>3
  <1>5. CountsOK'
    <2>1. [loc \in 0 .. W - 1 |-> IF loc \in PartMask(d) THEN words[d \div W][loc] ELSE 0] \in [0 .. W - 1 -> Nat]
      <3>1. words[d \div W] \in [0 .. W - 1 -> Nat]
        BY <1>2, <1>4
      <3>2. QED
        BY <3>1
    <2>2. words' \in [0 .. d \div W -> [0 .. W - 1 -> Nat]]
      BY <1>1, <1>2, <2>1
    <2>3. QED
      BY <1>1, <2>2 DEF LoadInv, CountsOK
  <1>6. FileOK'
    BY <1>1 DEF LoadInv, FileOK, Size
  <1>7. source # "file"
    BY <1>1 DEF LoadInv, MaskOK
  <1>8. ASSUME NEW k \in Span
        PROVE  /\ k \div W \in 0 .. d \div W /\ W - 1 - (k % W) \in 0 .. W - 1 /\ k \in Nat
               /\ k \div W <= (d - 1) \div W /\ (d - 1) \div W \in Int
               /\ words[k \div W][W - 1 - (k % W)] = IF NeverSet(k) THEN 0 ELSE SeedBit(k)
    <2>1. /\ k \div W \in 0 .. d \div W /\ W - 1 - (k % W) \in 0 .. W - 1 /\ k \in Nat
          /\ k \div W \in 0 .. (d - 1) \div W /\ (d - 1) \div W \in Int
      <3>1. k \in 0 .. W * ((d - 1) \div W + 1) - 1
        BY <1>8 DEF Span
      <3>2. (d - 1) \div W \in Nat
        BY <1>3, Divides
      <3>3. QED
        BY <1>2, <3>1, <3>2, PlaceInWords
    <2>2. k \div W <= (d - 1) \div W /\ k \div W <= d \div W
      BY <1>4, <2>1
    <2>3. SeedBit(k) = k + 1
      BY <1>7 DEF SeedBit
    <2>4. NeverSet(k) <=> source = "random" /\ (W - 1 - (k % W)) % C = C - 1
      BY DEF NeverSet, Place
    <2>5. \A last \in Int : k \div W <= last => Delivered(d, last)[k \div W][W - 1 - (k % W)] = k + 1
      BY <1>2, DeliveredBit
    <2>6. CASE source = "stream"
      <3>1. words = Delivered(d, (d - 1) \div W)
        BY <1>1, <2>6 DEF LoadInv, MaskOK
      <3>2. words[k \div W][W - 1 - (k % W)] = k + 1
        BY <2>1, <2>2, <2>5, <3>1
      <3>3. QED
        BY <2>1, <2>2, <2>3, <2>4, <2>6, <3>2
    <2>7. CASE source = "random"
      <3>1. words = [w \in 0 .. d \div W |-> [loc \in 0 .. W - 1 |->
                      IF loc % C = C - 1 THEN 0 ELSE Delivered(d, d \div W)[w][loc]]]
        BY <1>1, <2>7 DEF LoadInv, MaskOK
      <3>2. words[k \div W][W - 1 - (k % W)] =
              IF (W - 1 - (k % W)) % C = C - 1 THEN 0 ELSE Delivered(d, d \div W)[k \div W][W - 1 - (k % W)]
        BY <2>1, <3>1
      <3>3. Delivered(d, d \div W)[k \div W][W - 1 - (k % W)] = k + 1
        BY <1>4, <2>2, <2>5
      <3>4. QED
        BY <2>1, <2>2, <2>3, <2>4, <2>7, <3>2, <3>3
    <2>8. QED
      BY <1>1, <2>6, <2>7 DEF LoadInv, MaskOK
  <1>9. ReadyOK'
    <2>1. HoldsFirst(d)'
      <3>1. \A k : SeedBit(k)' = SeedBit(k) /\ NeverSet(k)' = NeverSet(k)
        BY <1>1, SameSeed
      <3>2. SUFFICES ASSUME NEW k \in Span
                     PROVE  words'[k \div W][W - 1 - (k % W)] = IF k < d /\ ~NeverSet(k) THEN SeedBit(k) ELSE 0
        BY <1>1, <3>1 DEF HoldsFirst, Span
      <3>3. k \div W # d \div W \/ W - 1 - (k % W) \in PartMask(d) <=> k < d
        BY <1>2, MaskKeeps DEF Span
      <3>4. CASE k < d
        <4>1. words'[k \div W][W - 1 - (k % W)] = words[k \div W][W - 1 - (k % W)]
          BY <1>1, <1>2, <1>8, <3>3, <3>4
        <4>2. QED
          BY <1>8, <3>4, <4>1
      <3>5. CASE ~(k < d)
        <4>1. words'[k \div W][W - 1 - (k % W)] = 0
          BY <1>1, <1>2, <1>8, <3>3, <3>5
        <4>2. QED
          BY <3>5, <4>1
      <3>6. QED
        BY <3>4, <3>5
    <2>2. QED
      BY <1>1, <1>7, <2>1 DEF ReadyOK
  <1>10. QED
    BY <1>1, <1>5, <1>6, <1>9 DEF LoadInv, ReadOK, MaskOK

\* The words of the experiment before are gone.
LEMMA NextExperimentLoad == ASSUME LoadInv, NextExperiment PROVE LoadInv'
  <1>1. /\ pc' = "start" /\ seedLen' = 0 /\ cnt' = 0 /\ seedFile' = <<>> /\ unread' = <<>>
        /\ source' = "file" /\ d' = 0 /\ words' = ZeroWords(0)
    BY DEF NextExperiment
  <1>2. CountsOK'
    <2>1. words' \in [0 .. d' \div W -> [0 .. W - 1 -> Nat]]
      BY <1>1, ZeroWordsType
    <2>2. QED
      BY <1>1, <2>1 DEF CountsOK
  <1>3. FileOK'
    <2>1. DOMAIN seedFile' = {} /\ seedFile' \in Seq(1 .. Size') /\ unread' \in Seq(1 .. Size')
      BY <1>1
    <2>2. QED
      BY <1>1, <2>1 DEF FileOK
  <1>4. QED
    BY <1>1, <1>2, <1>3 DEF LoadInv, ReadOK, MaskOK, ReadyOK

\* Every step.
LEMMA NextLoad == ASSUME Inv, LoadInv, [Next]_vars PROVE LoadInv'
  <1>1. CASE UNCHANGED vars
    <2>1. UNCHANGED <<pc, pool, input, seedLen, seedFile, cnt, source, d, unread, words>>
      BY <1>1 DEF vars, splitter
    <2>2. \A k : SeedBit(k)' = SeedBit(k) /\ NeverSet(k)' = NeverSet(k)
      BY <2>1, SameSeed
    <2>3. /\ HoldsFirst(cnt)' <=> HoldsFirst(cnt)
          /\ HoldsFirst(d)' <=> HoldsFirst(d)
      BY <2>1, <2>2 DEF HoldsFirst
    <2>4. /\ BitsFound(cnt)' <=> BitsFound(cnt)
          /\ BitsFound(d)' <=> BitsFound(d)
      BY <2>1 DEF BitsFound, BitsBefore, IsBit
    <2>5. CountsOK' /\ FileOK'
      BY <2>1 DEF LoadInv, CountsOK, FileOK, Size, Offset
    <2>6. BitsBefore(Done + 1)' = BitsBefore(Done + 1)
      BY <2>1 DEF BitsBefore, IsBit, Done
    <2>7. ReadOK'
      BY <2>1, <2>3, <2>4, <2>6 DEF LoadInv, ReadOK, Done
    <2>8. MaskOK'
      BY <2>1 DEF LoadInv, MaskOK
    <2>9. ReadyOK'
      BY <2>1, <2>3, <2>4 DEF LoadInv, ReadyOK
    <2>10. QED
      BY <2>5, <2>7, <2>8, <2>9 DEF LoadInv
  <1>2. CASE Stopped
    BY <1>1, <1>2 DEF Stopped
  <1>3. QED
    BY <1>1, <1>2, StartSplitLoad, CopyCharLoad, EndSplitLoad, ReadCharLoad, EndReadLoad, ReceiveLoad,
       CreateLoad, MaskLoad, NextExperimentLoad DEF Next
-----------------------------------------------------------------------------
\* While a seed file is read its end is what is unread, and the words hold
\* the bits before that.
THEOREM LoadInvariance == Spec => [](Inv /\ LoadInv)
  <1>1. Inv /\ LoadInv /\ [Next]_vars => Inv' /\ LoadInv'
    BY NextInv, NextLoad
  <1>2. QED
    BY <1>1, InitInv, InitLoad, PTL DEF Spec

(***************************************************************************)
(* No loop of split_seed_pool or rd_ascii_bit_file counts past the bits it *)
(* wants or writes past the words, whatever the characters are.            *)
(***************************************************************************)
THEOREM TypeCorrect == Spec => []TypeOK
  <1>1. Inv /\ LoadInv => TypeOK
    <2> SUFFICES ASSUME Inv, LoadInv PROVE TypeOK
      OBVIOUS
    <2>2. /\ Size \in Nat /\ Len(input) \in 0 .. Size /\ Offset = Size - Len(input)
          /\ input = [k \in 1 .. Len(input) |-> Offset + k] /\ DOMAIN pool = 1 .. Size
      BY DEF Inv, InputOK, Offset, Size
    <2>3. ToSet(input) \subseteq 1 .. Size
      <3>1. \A k \in 1 .. Len(input) : Offset + k \in 1 .. Size
        BY <2>2
      <3>2. QED
        BY <2>2, <3>1 DEF ToSet
    <2>4. ASSUME NEW T, NEW s \in Seq(T) PROVE ToSet(s) \subseteq T
      BY ElementOfSeq DEF ToSet
    <2>5. ToSet(seedFile) \subseteq 1 .. Size /\ ToSet(unread) \subseteq 1 .. Size
      BY <2>4 DEF LoadInv, FileOK
    <2>6. DOMAIN words = 0 .. d \div W /\ \A w \in DOMAIN words : words[w] \in [0 .. W - 1 -> Nat]
      BY DEF LoadInv, CountsOK
    <2>7. splits \in Nat
      BY DEF Inv, DroppedOK
    <2>8. QED
      BY <2>2, <2>3, <2>5, <2>6, <2>7 DEF LoadInv, CountsOK, TypeOK
  <1>2. QED
    BY <1>1, LoadInvariance, PTL

(***************************************************************************)
(* For every pool, number of bits and word width: the words hold the first *)
(* bits of the seed in order from the highest bit of word 0, from a file,  *)
(* the seed client or rand(), and no surplus bit.                          *)
(***************************************************************************)
THEOREM LoadedRight == Spec => []LoadedInOrder
  <1>1. LoadInv => LoadedInOrder
    BY DEF LoadInv, ReadOK, ReadyOK, LoadedInOrder
  <1>2. QED
    BY <1>1, LoadInvariance, PTL

-----------------------------------------------------------------------------
(* What get_bit answers *)

\* Index i is answered with bit Mirror(i) of the seed: get_bit counts the bits
\* of a word from the other end.
Mirror(i) == W * (i \div W) + (W - 1 - (i % W))

\* Index i is answered by the bit stored at Mirror(i): same word, opposite end.
LEMMA MirrorOfIndex ==
  ASSUME d \in Nat \ {0}, NEW i \in 0 .. d - 1
  PROVE  /\ Mirror(i) \in Span /\ Mirror(i) \in Nat
         /\ Mirror(i) \div W = i \div W
         /\ W - 1 - (Mirror(i) % W) = i % W
         /\ Mirror(Mirror(i)) = i
         /\ d % W = 0 => Mirror(i) \in 0 .. d - 1
  <1> DEFINE x == i \div W
             y == i % W
             q == (d - 1) \div W
             k == W * x + (W - 1 - y)
  <1>1. W \in Nat \ {0} /\ i \in Nat /\ d - 1 \in Nat /\ i <= d - 1
    BY WidthAssumption
  <1>2. x \in Nat /\ y \in 0 .. W - 1 /\ i = W * x + y
    BY <1>1, Divides
  <1>3. q \in Nat /\ x <= q
    <2>1. q \in Nat
      BY <1>1, Divides
    <2>2. \A j, h \in Nat : j <= h => j \div W <= h \div W
      BY <1>1, QuotientMonotone
    <2>3. QED
      BY <1>1, <2>1, <2>2
  <1>4. d % W = 0 => d = W * (q + 1)
    <2>1. SUFFICES ASSUME d % W = 0 PROVE d = W * (q + 1)
      OBVIOUS
    <2> DEFINE z == d \div W
    <2>2. z \in Nat /\ d = W * z + 0
      BY <1>1, <2>1, Divides
    <2> HIDE DEF z
    <2>3. d = W * z /\ z # 0
      BY <1>1, <2>2
    <2>4. z - 1 \in Nat /\ W * (z - 1) = W * z - W /\ W * (z - 1) \in Nat
      BY <1>1, <2>2, <2>3
    <2>5. d - 1 = W * (z - 1) + (W - 1) /\ W - 1 \in 0 .. W - 1
      BY <1>1, <2>3, <2>4
    <2>6. \A j \in Nat, l \in 0 .. W - 1 : (W * j + l) \div W = j
      BY <1>1, QuotientUnique
    <2>7. (d - 1) \div W = z - 1
      BY <2>4, <2>5, <2>6
    <2>8. q + 1 = z
      BY <2>2, <2>7
    <2>9. QED
      BY <2>3, <2>8
  <1>5. Mirror(i) = k
    BY DEF Mirror
  <1> HIDE DEF x, y, q
  <1>6. W - 1 - y \in 0 .. W - 1 /\ W - 1 - (W - 1 - y) = y
    BY <1>1, <1>2
  <1>7. k \in Nat /\ k \div W = x /\ k % W = W - 1 - y
    BY <1>1, <1>2, <1>6, QuotientUnique
  <1>8. k \in 0 .. W * (q + 1) - 1
    <2>1. W * x <= W * q /\ W * (q + 1) = W * q + W /\ W * x \in Nat /\ W * q \in Nat
      BY <1>1, <1>2, <1>3
    <2>2. k = W * x + (W - 1 - y)
      OBVIOUS
    <2> HIDE DEF k
    <2>3. k <= W * (q + 1) - 1
      BY <1>1, <1>2, <1>7, <2>1, <2>2
    <2>4. W * (q + 1) - 1 \in Int
      BY <1>1, <2>1
    <2>5. QED
      BY <1>7, <2>3, <2>4
  <1> HIDE DEF k
  <1>9. Mirror(k) = i
    <2>1. Mirror(k) = W * x + (W - 1 - (W - 1 - y))
      BY <1>7 DEF Mirror
    <2>2. QED
      BY <1>2, <1>6, <2>1
  <1>10. k \in Span
    BY <1>8 DEF Span, q
  <1>11. W - 1 - (k % W) = y
    BY <1>6, <1>7
  <1>12. d % W = 0 => k \in 0 .. d - 1
    BY <1>4, <1>8
  <1>13. QED
    BY <1>5, <1>7, <1>9, <1>10, <1>11, <1>12 DEF x, y

\* The answer is the seed bit, or 0 for one that is surplus or never set.
LEMMA AnswerIsBit ==
  ASSUME d \in Nat \ {0}, HoldsFirst(d), NEW i \in 0 .. d - 1
  PROVE  GetBit(i) = IF Mirror(i) < d /\ ~NeverSet(Mirror(i)) THEN SeedBit(Mirror(i)) ELSE 0
  <1>1. GetBit(i) = words[i \div W][i % W]
    <2>1. i \in Nat
      OBVIOUS
    <2>2. QED
      BY <2>1, ChunkOfWord DEF GetBit
  <1>2. Mirror(i) \in Span /\ Mirror(i) \div W = i \div W /\ W - 1 - (Mirror(i) % W) = i % W
    BY MirrorOfIndex
  <1>3. \A k \in Span : words[k \div W][W - 1 - (k % W)] = IF k < d /\ ~NeverSet(k) THEN SeedBit(k) ELSE 0
    BY DEF HoldsFirst, Span
  <1>4. QED
    BY <1>1, <1>2, <1>3

(***************************************************************************)
(* For every pool, number of bits, word and chunk width: an index below    *)
(* d_tot is answered with a bit of the seed or 0, no two with the same     *)
(* bit, and if d_tot fills whole words every bit of the seed has an index. *)
(***************************************************************************)
THEOREM AnswersRight == Spec => []AnswersAreSeedBits
  <1>1. Inv /\ LoadInv => AnswersAreSeedBits
    <2> SUFFICES ASSUME Inv, LoadInv, pc = "ready"
                 PROVE  /\ Answers \subseteq SeedBits \cup {0}
                        /\ \A i, k \in 0 .. d - 1 : i # k => GetBit(i) # GetBit(k) \/ GetBit(i) = 0
                        /\ d % W = 0 /\ source # "random" => SeedBits \subseteq Answers
      BY DEF AnswersAreSeedBits
    <2>1. d \in Nat \ {0} /\ HoldsFirst(d) /\ source \in {"file", "stream", "random"}
      BY DEF LoadInv, CountsOK, ReadyOK
    <2>2. /\ \A k \in 0 .. d - 1 : SeedBit(k) \in Nat \ {0}
          /\ \A j, k \in 0 .. d - 1 : SeedBit(j) = SeedBit(k) => j = k
      <3>1. /\ seedFile \in Seq(1 .. Size) /\ Size \in Nat
            /\ \A j, k \in DOMAIN seedFile : j # k => seedFile[j] # seedFile[k]
        BY DEF LoadInv, FileOK, Inv, InputOK, Size
      <3>2. source = "file" => BitsFound(d)
        BY DEF LoadInv, ReadyOK
      <3>3. QED
        BY <2>1, <3>1, <3>2, SeedBitsDiffer
    <2>3. \A i \in 0 .. d - 1 :
            GetBit(i) = IF Mirror(i) < d /\ ~NeverSet(Mirror(i)) THEN SeedBit(Mirror(i)) ELSE 0
      BY <2>1, AnswerIsBit
    <2>4. \A i \in 0 .. d - 1 : /\ Mirror(i) \in Nat /\ Mirror(Mirror(i)) = i
                                /\ d % W = 0 => Mirror(i) \in 0 .. d - 1
      BY <2>1, MirrorOfIndex
    <2>5. \A i \in 0 .. d - 1 : GetBit(i) # 0 => Mirror(i) \in 0 .. d - 1 /\ GetBit(i) = SeedBit(Mirror(i))
      <3>1. SUFFICES ASSUME NEW i \in 0 .. d - 1, GetBit(i) # 0
                     PROVE  Mirror(i) \in 0 .. d - 1 /\ GetBit(i) = SeedBit(Mirror(i))
        OBVIOUS
      <3>2. Mirror(i) < d /\ GetBit(i) = SeedBit(Mirror(i))
        BY <2>3, <3>1
      <3>3. QED
        BY <2>1, <2>4, <3>2
    <2>6. Answers \subseteq SeedBits \cup {0}
      BY <2>5 DEF Answers, SeedBits
    <2>7. \A i, k \in 0 .. d - 1 : i # k => GetBit(i) # GetBit(k) \/ GetBit(i) = 0
      <3>1. SUFFICES ASSUME NEW i \in 0 .. d - 1, NEW k \in 0 .. d - 1, GetBit(i) = GetBit(k), GetBit(i) # 0
                     PROVE  i = k
        OBVIOUS
      <3>2. Mirror(i) = Mirror(k)
        BY <2>2, <2>5, <3>1
      <3>3. QED
        BY <2>4, <3>2
    <2>8. ASSUME d % W = 0, source # "random" PROVE SeedBits \subseteq Answers
      <3>1. SUFFICES ASSUME NEW k \in 0 .. d - 1 PROVE \E i \in 0 .. d - 1 : SeedBit(k) = GetBit(i)
        BY DEF SeedBits, Answers
      <3>2. Mirror(k) \in 0 .. d - 1 /\ Mirror(Mirror(k)) = k
        BY <2>4, <2>8
      <3>3. ~NeverSet(k) /\ k < d
        BY <2>1, <2>8 DEF NeverSet
      <3>4. GetBit(Mirror(k)) = SeedBit(k)
        BY <2>3, <3>2, <3>3
      <3>5. QED
        BY <3>2, <3>4
    <2>9. QED
      BY <2>6, <2>7, <2>8
  <1>2. QED
    BY <1>1, LoadInvariance, PTL

=============================================================================
