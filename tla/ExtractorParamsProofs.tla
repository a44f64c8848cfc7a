------------------------ MODULE ExtractorParamsProofs ------------------------
(***************************************************************************)
(* For every set of requests, every sequence of commands, complete or not, *)
(* and every precision S and rate r = R/S: what a round extracts is        *)
(* covered by the entropy, and the entropy check stops nothing.            *)
(* Both follow from Inv, whose part Covered says of which entropy the rows *)
(* and the output are shares from the moment they are derived.  From Det,  *)
(* that a round's fields are functions of a complete command, follows that *)
(* a command has the same outcome whenever it is sent.                     *)
(***************************************************************************)
EXTENDS ExtractorParams, TLAPS

\* What derive hands on, in the fields that the later steps leave alone.
Covered ==
  /\ mReq <= maxEntropy
  /\ R * m <= S * maxEntropy
  /\ IF blkDes THEN m = MaxRows(maxEntropy) /\ m <= mReq ELSE m = mReq

\* max_entropy is what eps has left of k.
EntropyKept == S * maxEntropy + loss <= k

Inv == TypeOK /\ (pc \in {"check", "extract", "finished"} => Covered /\ EntropyKept)

-----------------------------------------------------------------------------
(* Division *)

\* A quotient rounded down, times its divisor, is no more than the dividend.
LEMMA QuotientBelow ==
  ASSUME NEW x \in Nat, NEW r \in Nat \ {0}
  PROVE  x \div r \in Nat /\ r * (x \div r) <= x
  OBVIOUS

\* With a divisor no smaller than the factor the quotient is no larger.
LEMMA QuotientShrinks ==
  ASSUME NEW x \in Nat, NEW s \in Nat \ {0}, NEW r \in Nat, r > s
  PROVE  (x * s) \div r <= x
  OBVIOUS

\* What a limit on the rows says about a limit on the entropy.
LEMMA ProductMonotone ==
  ASSUME NEW f \in Nat, NEW x \in Nat, NEW y \in Nat, x <= y
  PROVE  f * x <= f * y
  OBVIOUS

\* The rows a weak design supports: covered by the entropy, and not more than bits.
LEMMA RowsCovered ==
  ASSUME NEW e \in Nat
  PROVE  MaxRows(e) \in Nat /\ R * MaxRows(e) <= S * e /\ MaxRows(e) <= e
  <1>1. S \in Nat \ {0} /\ R \in Nat \ {0} /\ R > S /\ e * S \in Nat /\ e * S = S * e
    BY RateAssumption
  <1>2. (e * S) \div R \in Nat /\ R * ((e * S) \div R) <= e * S
    BY <1>1, QuotientBelow
  <1>3. (e * S) \div R <= e
    BY <1>1, QuotientShrinks
  <1>4. QED
    BY <1>1, <1>2, <1>3 DEF MaxRows

\* What a command, complete or not, can say.
LEMMA CommandTypes ==
  ASSUME NEW c \in Commands
  PROVE  c.k \in Nat /\ c.m \in Nat /\ c.loss \in Int /\ c.b \in BOOLEAN
  BY RequestAssumption DEF Commands

-----------------------------------------------------------------------------
(* The inductive invariant *)

\* Before the first command nothing is limited.
LEMMA InitInv == Init => Inv
  <1> SUFFICES ASSUME Init PROVE Inv
    OBVIOUS
  <1>1. cmd \in Commands
    BY DEF Init, FullCommands
  <1>2. k \in Nat /\ m \in Nat /\ loss \in Int /\ blkDes \in BOOLEAN
    BY <1>1, CommandTypes DEF Init
  <1>3. siTst \in Int /\ mReq \in Nat /\ maxEntropy \in Nat /\ siRows \in Nat /\ dryRun \in BOOLEAN
    BY RequestAssumption DEF Init
  <1>4. pc \in {"input", "derive"}
    BY DEF Init
  <1>5. QED
    BY <1>1, <1>2, <1>3, <1>4 DEF Inv, TypeOK

\* The part of the derivation the three cases share.
LEMMA EntropyLeftType ==
  ASSUME TypeOK, ~NothingLeft
  PROVE  EntropyLeft \in Nat /\ S * EntropyLeft + loss <= k
  <1>1. k \in Nat /\ loss \in Int /\ k - loss \in Nat /\ S \in Nat \ {0}
    BY RateAssumption DEF TypeOK, NothingLeft
  <1>2. EntropyLeft \in Nat /\ S * EntropyLeft <= k - loss
    BY <1>1, QuotientBelow DEF EntropyLeft
  <1>3. S * EntropyLeft \in Nat
    BY <1>1, <1>2
  <1>4. QED
    BY <1>1, <1>2, <1>3

\* Each of the three ways to m and m_req stays within the entropy.
LEMMA DeriveCovers ==
  ASSUME Inv, Derive
  PROVE  m' \in Nat /\ mReq' \in Nat /\ blkDes' \in BOOLEAN /\ Covered' /\ EntropyKept'
  <1> DEFINE e == EntropyLeft
             rows == MaxRows(e)
  <1>1. e \in Nat /\ S * e + loss <= k
    BY EntropyLeftType DEF Inv, Derive
  <1>2. rows \in Nat /\ R * rows <= S * e /\ rows <= e
    BY <1>1, RowsCovered
  <1>3. maxEntropy' = e /\ loss' = loss /\ k' = k
    BY DEF Derive
  <1>4. m \in Nat /\ blkDes \in BOOLEAN /\ R \in Nat /\ S \in Nat
    BY RateAssumption DEF Inv, TypeOK
  <1>5. EntropyKept'
    BY <1>1, <1>3 DEF EntropyKept
  <1>6. MaxRows(maxEntropy)' = rows
    BY <1>3 DEF MaxRows
  <1> HIDE DEF e, rows
  <1>7. CASE TakeAll(rows)
    <2>1. m' = rows /\ blkDes' = blkDes /\ mReq' = IF blkDes THEN e ELSE rows
      BY <1>7 DEF TakeAll, e
    <2>2. CASE blkDes
      BY <1>1, <1>2, <1>3, <1>4, <1>5, <1>6, <2>1, <2>2 DEF Covered
    <2>3. CASE ~blkDes
      BY <1>1, <1>2, <1>3, <1>4, <1>5, <1>6, <2>1, <2>3 DEF Covered
    <2>4. QED
      BY <2>2, <2>3
  <1>8. CASE FitsWeakDesign(rows)
    <2>1. m' = m /\ mReq' = m /\ blkDes' = FALSE /\ m <= rows
      BY <1>8 DEF FitsWeakDesign
    <2>2. R * m <= R * rows /\ R * m \in Nat /\ R * rows \in Nat /\ S * e \in Nat
      BY <1>1, <1>2, <1>4, <2>1, ProductMonotone
    <2>3. mReq' <= maxEntropy' /\ R * m' <= S * maxEntropy'
      BY <1>1, <1>2, <1>3, <1>4, <2>1, <2>2
    <2>4. Covered'
      BY <2>1, <2>3 DEF Covered
    <2>5. QED
      BY <1>4, <1>5, <2>1, <2>4
  <1>9. CASE NeedsBlocks(rows)
    <2>1. m' = rows /\ mReq' = m /\ blkDes' = blkDes /\ blkDes /\ m <= e /\ m > rows
      BY <1>9 DEF NeedsBlocks, e
    <2>2. QED
      BY <1>1, <1>2, <1>3, <1>4, <1>5, <1>6, <2>1 DEF Covered
  <1>10. QED
    BY <1>7, <1>8, <1>9 DEF Derive, rows, e

\* Every step.
LEMMA NextInv == Inv /\ [Next]_vars => Inv'
  <1> SUFFICES ASSUME Inv, [Next]_vars PROVE Inv'
    OBVIOUS
  <1> USE DEF Inv
  <1>1. CASE GetCommand
    <2>1. cmd' \in Commands
      BY <1>1 DEF GetCommand
    <2>2. k' \in Nat /\ m' \in Nat /\ loss' \in Int
      BY <1>1, <2>1, CommandTypes DEF GetCommand, TypeOK
    <2>3. blkDes' \in BOOLEAN
      BY <1>1, <2>1, CommandTypes DEF GetCommand, TypeOK, BlockFlag
    <2>4. pc' \in {"derive", "exited"}
      BY <1>1 DEF GetCommand
    <2>5. siRows' = 0 /\ UNCHANGED <<mReq, maxEntropy, siTst, dryRun>>
      BY <1>1 DEF GetCommand
    <2>6. QED
      BY <2>1, <2>2, <2>3, <2>4, <2>5 DEF TypeOK
  <1>2. CASE Derive
    <2>1. m' \in Nat /\ mReq' \in Nat /\ blkDes' \in BOOLEAN /\ Covered' /\ EntropyKept'
      BY <1>2, DeriveCovers
    <2>2. maxEntropy' \in Nat
      BY <1>2, EntropyLeftType DEF Derive
    <2>3. pc' = "check" /\ UNCHANGED <<cmd, k, loss, siTst, dryRun, siRows>>
      BY <1>2 DEF Derive
    <2>4. QED
      BY <2>1, <2>2, <2>3 DEF TypeOK
  <1>3. CASE Refuse
    BY <1>3 DEF Refuse, TypeOK
  <1>4. CASE CheckEntropy
    <2>1. pc = "check" /\ pc' \in {"exited", "extract"}
      BY <1>4 DEF CheckEntropy
    <2>2. UNCHANGED <<cmd, k, loss, m, mReq, blkDes, maxEntropy, siTst, dryRun, siRows>>
      BY <1>4 DEF CheckEntropy
    <2>3. QED
      BY <2>1, <2>2 DEF TypeOK, Covered, EntropyKept, MaxRows
  <1>5. CASE Extract
    <2>1. pc = "extract" /\ pc' = "finished"
      BY <1>5 DEF Extract
    <2>2. UNCHANGED <<cmd, k, loss, m, mReq, blkDes, maxEntropy, dryRun>>
      BY <1>5 DEF Extract
    <2>3. siTst' \in Int
      BY <1>5 DEF Extract, SiTestRows, TypeOK
    <2>4. siRows' \in Nat
      BY <1>5, <2>3 DEF Extract
    <2>5. QED
      BY <2>1, <2>2, <2>3, <2>4 DEF TypeOK, Covered, EntropyKept, MaxRows
  <1>6. CASE DryRun
    BY <1>6 DEF DryRun, TypeOK, Covered, EntropyKept, MaxRows
  <1>7. CASE NextStream
    BY <1>7 DEF NextStream, TypeOK
  <1>8. CASE Stopped \/ UNCHANGED vars
    BY <1>8 DEF Stopped, vars, TypeOK, Covered, EntropyKept, MaxRows
  <1>9. QED
    BY <1>1, <1>2, <1>3, <1>4, <1>5, <1>6, <1>7, <1>8 DEF Next

-----------------------------------------------------------------------------
(***************************************************************************)
(* In every behaviour Inv holds.                                           *)
(***************************************************************************)
THEOREM Invariance == Spec => []Inv
  BY InitInv, NextInv, PTL DEF Spec

(***************************************************************************)
(* No entropy, number of rows or length ever leaves the natural numbers,   *)
(* whatever commands the data client sends: the conversions to uint64_t    *)
(* of extractor.cc 911-947 are of numbers that are not negative.           *)
(***************************************************************************)
THEOREM TypeCorrect == Spec => []TypeOK
  <1>1. Inv => TypeOK
    BY DEF Inv
  <1>2. QED
    BY <1>1, Invariance, PTL

(***************************************************************************)
(* What is extracted is covered by the entropy of the round's own request. *)
(***************************************************************************)
THEOREM Coverage == Spec => []ExtractionCovered
  <1>1. Inv => ExtractionCovered
    BY DEF Inv, Covered, EntropyKept, ExtractionCovered
  <1>2. QED
    BY <1>1, Invariance, PTL

(***************************************************************************)
(* The entropy check of extractor.cc 973 never stops a request for which   *)
(* compute_k is defined: what the rows and eps take is no more than k.     *)
(***************************************************************************)
THEOREM CheckRedundant == Spec => []EntropyCheckRedundant
  <1>1. ASSUME Inv, pc = "check" PROVE ComputeK(m) * S <= k + S
    <2>1. /\ S \in Nat \ {0} /\ R \in Nat /\ m \in Nat /\ k \in Nat /\ loss \in Int
          /\ maxEntropy \in Nat
      BY <1>1, RateAssumption DEF Inv, TypeOK
    <2>2. R * m <= S * maxEntropy /\ S * maxEntropy + loss <= k
      BY <1>1 DEF Inv, Covered, EntropyKept
    <2>3. R * m \in Nat /\ S * maxEntropy \in Nat
      BY <2>1
    <2>4. Required(m) \in Int /\ Required(m) <= k
      BY <2>1, <2>2, <2>3 DEF Required
    <2>5. CASE Required(m) < 0
      BY <2>1, <2>5 DEF ComputeK
    <2>6. CASE ~(Required(m) < 0)
      <3>1. Required(m) \in Nat
        BY <2>4, <2>6
      <3>2. Required(m) \div S \in Nat /\ S * (Required(m) \div S) <= Required(m)
        BY <2>1, <3>1, QuotientBelow
      <3>3. S * ComputeK(m) <= k /\ ComputeK(m) \in Nat
        BY <2>1, <2>4, <2>6, <3>2 DEF ComputeK
      <3>4. QED
        BY <2>1, <3>3
    <2>7. QED
      BY <2>5, <2>6
  <1>2. Inv => EntropyCheckRedundant
    BY <1>1 DEF EntropyCheckRedundant
  <1>3. QED
    BY <1>2, Invariance, PTL

-----------------------------------------------------------------------------
(* The outcome of a complete command *)

\* What eps leaves, the rows, the output bits and the design of command c,
\* provided that it is not refused.
Left(c) == (c.k - c.loss) \div S
RowsOf(c) == IF c.m # 0 /\ c.m <= MaxRows(Left(c)) THEN c.m ELSE MaxRows(Left(c))
BitsOf(c) == IF c.m # 0 THEN c.m ELSE IF c.b THEN Left(c) ELSE MaxRows(Left(c))
BlocksOf(c) == IF c.m # 0 /\ c.m <= MaxRows(Left(c)) THEN FALSE ELSE c.b
OutcomeOf(c) == [rows |-> RowsOf(c), bits |-> BitsOf(c), blocks |-> BlocksOf(c)]

Det ==
  /\ watched \in FullCommands
  /\ pc = "derive" /\ cmd = watched => k = cmd.k /\ loss = cmd.loss /\ m = cmd.m /\ blkDes = cmd.b
  /\ pc \in {"check", "extract"} /\ cmd = watched =>
       m = RowsOf(cmd) /\ mReq = BitsOf(cmd) /\ blkDes = BlocksOf(cmd)
  /\ outcome # Undecided => outcome = OutcomeOf(watched)

\* The derivation of the watched command depends on that command only.
LEMMA DeriveDet ==
  ASSUME Inv, Det, Derive, cmd = watched
  PROVE  m' = RowsOf(cmd) /\ mReq' = BitsOf(cmd) /\ blkDes' = BlocksOf(cmd)
  <1> DEFINE rows == MaxRows(EntropyLeft)
  <1>1. k = cmd.k /\ loss = cmd.loss /\ m = cmd.m /\ blkDes = cmd.b
    BY DEF Det, Derive
  <1>2. EntropyLeft = Left(cmd)
    BY <1>1 DEF EntropyLeft, Left
  <1>3. rows = MaxRows(Left(cmd)) /\ rows \in Nat /\ m \in Nat
    BY <1>2, EntropyLeftType, RowsCovered DEF Inv, Derive, TypeOK
  <1> HIDE DEF rows
  <1>4. CASE TakeAll(rows)
    BY <1>1, <1>2, <1>3, <1>4 DEF TakeAll, RowsOf, BitsOf, BlocksOf
  <1>5. CASE FitsWeakDesign(rows)
    BY <1>1, <1>3, <1>5 DEF FitsWeakDesign, RowsOf, BitsOf, BlocksOf
  <1>6. CASE NeedsBlocks(rows)
    <2>1. ~(m <= rows)
      BY <1>3, <1>6 DEF NeedsBlocks
    <2>2. QED
      BY <1>1, <1>3, <1>6, <2>1 DEF NeedsBlocks, RowsOf, BitsOf, BlocksOf
  <1>7. QED
    BY <1>4, <1>5, <1>6 DEF Derive, rows

\* No outcome is remembered yet.
LEMMA InitDet == Init => Det
  BY DEF Init, Det

\* Every step.
LEMMA NextDet == Inv /\ Det /\ [Next]_vars => Det'
  <1> SUFFICES ASSUME Inv, Det, [Next]_vars PROVE Det'
    OBVIOUS
  <1>1. CASE GetCommand
    <2>1. ASSUME cmd' = watched, pc' = "derive"
          PROVE  k' = cmd'.k /\ loss' = cmd'.loss /\ m' = cmd'.m /\ blkDes' = cmd'.b
      <3>1. cmd'.holds = Full
        BY <2>1 DEF Det, FullCommands
      <3>2. "m" \in cmd'.holds /\ "e" \in cmd'.holds /\ "b" \in cmd'.holds
        BY <3>1 DEF Full
      <3>3. QED
        BY <1>1, <2>1, <3>2 DEF GetCommand, BlockFlag
    <2>2. watched' = watched /\ outcome' = outcome /\ pc' \in {"derive", "exited"}
      BY <1>1 DEF GetCommand
    <2>3. QED
      BY <2>1, <2>2 DEF Det, OutcomeOf, RowsOf, BitsOf, BlocksOf, Left, MaxRows
  <1>2. CASE Derive
    <2>1. cmd = watched => m' = RowsOf(cmd) /\ mReq' = BitsOf(cmd) /\ blkDes' = BlocksOf(cmd)
      BY <1>2, DeriveDet
    <2>2. pc' = "check" /\ UNCHANGED <<cmd, watched, outcome>>
      BY <1>2 DEF Derive
    <2>3. QED
      BY <2>1, <2>2 DEF Det, OutcomeOf, RowsOf, BitsOf, BlocksOf, Left, MaxRows
  <1>3. CASE CheckEntropy
    <2>1. pc = "check" /\ pc' \in {"exited", "extract"}
      BY <1>3 DEF CheckEntropy
    <2>2. UNCHANGED <<cmd, m, mReq, blkDes, watched, outcome>>
      BY <1>3 DEF CheckEntropy
    <2>3. QED
      BY <2>1, <2>2 DEF Det, OutcomeOf, RowsOf, BitsOf, BlocksOf, Left, MaxRows
  <1>4. CASE Extract
    <2>1. pc = "extract" /\ pc' = "finished" /\ UNCHANGED <<cmd, m, mReq, blkDes, watched>>
      BY <1>4 DEF Extract
    <2>2. outcome' = IF cmd = watched THEN [rows |-> m, bits |-> mReq, blocks |-> blkDes] ELSE outcome
      BY <1>4 DEF Extract
    <2>3. outcome' # Undecided => outcome' = OutcomeOf(watched)
      BY <2>1, <2>2 DEF Det, OutcomeOf
    <2>4. QED
      BY <2>1, <2>3 DEF Det, OutcomeOf, RowsOf, BitsOf, BlocksOf, Left, MaxRows
  <1>5. CASE Refuse
    BY <1>5 DEF Refuse, Det, OutcomeOf, RowsOf, BitsOf, BlocksOf, Left, MaxRows
  <1>6. CASE DryRun
    BY <1>6 DEF DryRun, Det, OutcomeOf, RowsOf, BitsOf, BlocksOf, Left, MaxRows
  <1>7. CASE NextStream
    BY <1>7 DEF NextStream, Det, OutcomeOf, RowsOf, BitsOf, BlocksOf, Left, MaxRows
  <1>8. CASE Stopped \/ UNCHANGED vars
    BY <1>8 DEF Stopped, vars, Det, OutcomeOf, RowsOf, BitsOf, BlocksOf, Left, MaxRows
  <1>9. QED
    BY <1>1, <1>2, <1>3, <1>4, <1>5, <1>6, <1>7, <1>8 DEF Next

(***************************************************************************)
(* A complete command leads to the same extraction whenever in a session   *)
(* it is sent, whatever commands, complete or not, came between.           *)
(***************************************************************************)
THEOREM RoundsIndependent == Spec => SameCommandSameRound
  <1>1. Inv /\ Det /\ Det' /\ [Next]_vars => [outcome # Undecided => outcome' = outcome]_vars
    <2> SUFFICES ASSUME Det, [Next]_vars, outcome # Undecided, cmd = watched, Extract
                 PROVE  outcome' = outcome
      BY DEF Next, vars, GetCommand, Derive, Refuse, CheckEntropy, Extract, DryRun, NextStream, Stopped
    <2>1. outcome = OutcomeOf(watched)
      BY DEF Det
    <2>2. outcome' = OutcomeOf(watched)
      BY DEF Extract, Det, OutcomeOf
    <2>3. QED
      BY <2>1, <2>2
  <1>2. Spec => []Det
    BY InitDet, NextDet, Invariance, PTL DEF Spec
  <1>3. QED
    BY <1>1, <1>2, Invariance, PTL DEF Spec, SameCommandSameRound
=============================================================================
