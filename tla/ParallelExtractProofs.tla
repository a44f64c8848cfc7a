------------------------ MODULE ParallelExtractProofs ------------------------
(***************************************************************************)
(* For every number of threads, rows, blocks, word size and every answer   *)
(* of the 1-bit extractor: the parallel loop publishes the reference       *)
(* string.  The inductive invariant Inv says that at every moment the      *)
(* words hold exactly the 1s of the (row, block) pairs already done.       *)
(***************************************************************************)
EXTENDS ParallelExtract, TLAPS

\* Row i is through with block b: taken, and no thread has it at or before b.
Done(i, b) ==
  i \notin todo /\ \A t \in Threads : pc[t] # "idle" /\ row[t] = i => b < blk[t]

Written ==
  {p \in Pos : \E i \in Rows, b \in Blocks :
     InBlock(i, b) /\ p = Position(i, b) /\ <<i, SeedBase(b)>> \in ones /\ Done(i, b)}

\* Outside the loop nobody works; inside, the active threads have distinct rows.
ThreadsOK ==
  /\ phase # "rows" => todo = {} /\ \A t \in Threads : pc[t] = "idle"
  /\ \A t \in Threads : pc[t] # "idle" =>
       row[t] \in Rows /\ row[t] \notin todo /\ seedBase[t] = SeedBase(blk[t])
  /\ \A t, u \in Threads :
       t # u /\ pc[t] # "idle" /\ pc[u] # "idle" => row[t] # row[u]
  /\ \A t \in Threads : pc[t] = "update" =>
       InBlock(row[t], blk[t]) /\ <<row[t], seedBase[t]>> \in ones

WordsOK == Unpacked(words) = Written
OutOK   == phase = "done" => out = Unpacked(words)

Inv == TypeOK /\ ThreadsOK /\ WordsOK /\ OutOK

-----------------------------------------------------------------------------
(* Words and positions *)

\* A block's position for a row lies in the output.
LEMMA PositionType ==
  ASSUME NEW i \in Rows, NEW b \in Blocks, InBlock(i, b)
  PROVE  Position(i, b) \in Pos
  <1>1. Mi[b] \in Nat /\ BaseMi[b] \in Nat /\ M \in Nat /\ MReq \in Nat
    BY GeometryAssumption
  <1>2. BaseMi[b] + Mi[b] <= MReq /\ i < Mi[b] /\ i \in Nat
    BY <1>1, LayoutAssumption DEF LayoutOK, InBlock, Rows
  <1>3. QED
    BY <1>1, <1>2 DEF Position, Pos

\* A position of the output has its word and its bit in the allocated array.
LEMMA CellType ==
  ASSUME NEW p \in Pos
  PROVE  WordOf(p) \in WordIndex /\ BitOf(p) \in BitIndex
  <1>1. p \in Nat /\ MReq \in Nat /\ W \in Nat /\ W > 0 /\ p <= MReq
    BY GeometryAssumption, EngineAssumption DEF Pos
  <1>2. p % W \in 0 .. W - 1
    BY <1>1
  <1>3. p \div W \in Int /\ 0 <= p \div W /\ p \div W <= MReq \div W
    BY <1>1
  <1>4. QED
    BY <1>1, <1>2, <1>3 DEF WordOf, BitOf, WordIndex, BitIndex

\* No two positions share a cell.
LEMMA CellInjective ==
  ASSUME NEW p \in Pos, NEW q \in Pos, WordOf(p) = WordOf(q), BitOf(p) = BitOf(q)
  PROVE  p = q
  <1>1. p \in Nat /\ q \in Nat /\ W \in Nat /\ W > 0
    BY GeometryAssumption, EngineAssumption DEF Pos
  <1>2. p % W = q % W /\ p \div W = q \div W
    BY <1>1 DEF WordOf, BitOf
  <1>3. p = W * (p \div W) + (p % W) /\ q = W * (q \div W) + (q % W)
    BY <1>1
  <1>4. QED
    BY <1>2, <1>3

\* The atomic update sets the bit of its position and no other.
LEMMA OrIntoAdds ==
  ASSUME TypeOK, NEW q \in Pos
  PROVE  /\ OrInto(words, q) \in [WordIndex -> SUBSET BitIndex]
         /\ Unpacked(OrInto(words, q)) = Unpacked(words) \cup {q}
  <1>1. WordOf(q) \in WordIndex /\ BitOf(q) \in BitIndex
    BY CellType
  <1>2. words \in [WordIndex -> SUBSET BitIndex]
    BY DEF TypeOK
  <1>3. OrInto(words, q) \in [WordIndex -> SUBSET BitIndex]
    BY <1>1, <1>2 DEF OrInto
  <1>4. ASSUME NEW p \in Pos
        PROVE  BitOf(p) \in OrInto(words, q)[WordOf(p)]
                 <=> (BitOf(p) \in words[WordOf(p)] \/ p = q)
    <2>1. WordOf(p) \in WordIndex
      BY CellType
    <2>2. CASE WordOf(p) = WordOf(q)
      <3>1. OrInto(words, q)[WordOf(p)] = words[WordOf(p)] \cup {BitOf(q)}
        BY <1>1, <1>2, <2>2 DEF OrInto
      <3>2. BitOf(p) = BitOf(q) => p = q
        BY <2>2, CellInjective
      <3>3. QED
        BY <3>1, <3>2
    <2>3. CASE WordOf(p) # WordOf(q)
      BY <1>1, <1>2, <2>1, <2>3 DEF OrInto
    <2>4. QED
      BY <2>2, <2>3
  <1>5. QED
    BY <1>3, <1>4 DEF Unpacked

\* cur_seed_base keeps up with the block number.
LEMMA NextSeedBase ==
  ASSUME NEW b \in Nat
  PROVE  SeedBase(b) + TReq = SeedBase(b + 1) /\ SeedBase(b) \in Nat
  <1>1. TReq \in Nat
    BY GeometryAssumption
  <1>2. b * TReq + TReq = (b + 1) * TReq /\ b * TReq \in Nat
    BY <1>1
  <1>3. QED
    BY <1>2 DEF SeedBase
-----------------------------------------------------------------------------
(* The invariant holds initially and every step keeps it *)

\* No round has begun.
LEMMA InitInv == Init => Inv
  <1> SUFFICES ASSUME Init PROVE Inv
    OBVIOUS
  <1>1. TypeOK
    BY DEF Init, TypeOK
  <1>2. ThreadsOK
    BY DEF Init, ThreadsOK
  <1>3. Unpacked(words) = {}
    BY CellType DEF Init, Unpacked
  <1>4. Written = {}
    BY DEF Init, Written
  <1>5. QED
    BY <1>1, <1>2, <1>3, <1>4 DEF Inv, WordsOK, OutOK, Init

\* A new round: cleared words, all rows to do.
LEMMA BeginRoundInv == ASSUME Inv, BeginRound PROVE Inv'
  <1>1. \A t \in Threads : pc[t] = "idle"
    BY DEF Inv, ThreadsOK, BeginRound
  <1>2. TypeOK'
    <2>1. words' \in [WordIndex -> SUBSET BitIndex]
      BY DEF BeginRound, Zeroed
    <2>2. QED
      BY <2>1 DEF Inv, TypeOK, BeginRound
  <1>3. ThreadsOK'
    BY <1>1 DEF BeginRound, ThreadsOK
  <1>4. Unpacked(words)' = {}
    BY CellType DEF BeginRound, Zeroed, Unpacked
  <1>5. Written' = {}
    BY DEF BeginRound, Written, Done
  <1>6. QED
    BY <1>2, <1>3, <1>4, <1>5 DEF Inv, WordsOK, OutOK, BeginRound

\* After the barrier nothing is left to do: the words are the reference string.
LEMMA PublishInv == ASSUME Inv, Publish PROVE Inv'
  <1>1. TypeOK'
    BY DEF Inv, TypeOK, Publish, Unpacked
  <1>2. ThreadsOK'
    BY DEF Inv, ThreadsOK, Publish, LoopFinished
  <1>3. Unpacked(words)' = Unpacked(words) /\ Written' = Written
    BY DEF Publish, Unpacked, Written, Done
  <1>4. QED
    BY <1>1, <1>2, <1>3 DEF Inv, WordsOK, OutOK, Publish

\* A step of one thread t inside the loop: what the other parts need to know.
LEMMA InLoop ==
  ASSUME Inv, NEW t \in Threads, pc[t] # "idle"
  PROVE  phase = "rows"
  BY DEF Inv, ThreadsOK

\* A row leaves todo and belongs to one thread.
LEMMA TakeRowInv == ASSUME Inv, NEW t \in Threads, TakeRow(t) PROVE Inv'
  <1>1. PICK i \in todo : row' = [row EXCEPT ![t] = i] /\ todo' = todo \ {i}
    BY DEF TakeRow
  <1>2. i \in Rows /\ i \in Nat
    BY GeometryAssumption DEF Inv, TypeOK, Rows
  <1>3. TypeOK'
    BY <1>1, <1>2 DEF Inv, TypeOK, TakeRow
  <1>4. ThreadsOK'
    <2>1. SeedBase(0) = 0
      BY GeometryAssumption DEF SeedBase
    <2>2. \A u \in Threads : u # t => row'[u] = row[u] /\ pc'[u] = pc[u]
                                       /\ blk'[u] = blk[u] /\ seedBase'[u] = seedBase[u]
      BY <1>1 DEF Inv, TypeOK, TakeRow
    <2>3. /\ row'[t] = i /\ pc'[t] = "block" /\ blk'[t] = 0 /\ seedBase'[t] = 0
          /\ i \notin todo'
      BY <1>1 DEF Inv, TypeOK, TakeRow
    <2>4. \A u \in Threads : pc[u] # "idle" => row[u] # i
      BY DEF Inv, ThreadsOK
    <2>5. phase' = "rows" /\ ones' = ones
      BY DEF TakeRow
    <2>6. \A u \in Threads : pc'[u] # "idle" =>
            row'[u] \in Rows /\ row'[u] \notin todo' /\ seedBase'[u] = SeedBase(blk'[u])
      BY <1>1, <1>2, <2>1, <2>2, <2>3 DEF Inv, ThreadsOK
    <2>7. \A u, v \in Threads :
            u # v /\ pc'[u] # "idle" /\ pc'[v] # "idle" => row'[u] # row'[v]
      BY <2>2, <2>3, <2>4 DEF Inv, ThreadsOK
    <2>8. \A u \in Threads : pc'[u] = "update" =>
            InBlock(row'[u], blk'[u]) /\ <<row'[u], seedBase'[u]>> \in ones'
      BY <2>2, <2>3, <2>5 DEF Inv, ThreadsOK
    <2>9. QED
      BY <2>5, <2>6, <2>7, <2>8 DEF ThreadsOK
  <1>5. \A j \in Rows, b \in Blocks : Done(j, b)' <=> Done(j, b)
    <2>1. SUFFICES ASSUME NEW j \in Rows, NEW b \in Blocks
                   PROVE  Done(j, b)' <=> Done(j, b)
      OBVIOUS
    <2>2. ~(b < 0)
      BY GeometryAssumption DEF Blocks
    <2>3. CASE j = i
      <3>1. ~Done(j, b)
        BY <2>3 DEF Done
      <3>2. pc'[t] # "idle" /\ row'[t] = j /\ blk'[t] = 0
        BY <1>1, <2>3 DEF Inv, TypeOK, TakeRow
      <3>3. QED
        BY <2>2, <3>1, <3>2 DEF Done
    <2>4. CASE j # i
      <3>1. j \in todo' <=> j \in todo
        BY <1>1, <2>4
      <3>2. pc[t] = "idle" /\ row'[t] # j
        BY <1>1, <2>4 DEF Inv, TypeOK, TakeRow
      <3>3. \A u \in Threads : u # t => pc'[u] = pc[u] /\ row'[u] = row[u] /\ blk'[u] = blk[u]
        BY <1>1 DEF Inv, TypeOK, TakeRow
      <3>4. QED
        BY <3>1, <3>2, <3>3 DEF Done
    <2>5. QED
      BY <2>3, <2>4
  <1>6. Written' = Written /\ Unpacked(words)' = Unpacked(words)
    BY <1>5 DEF TakeRow, Written, Unpacked
  <1>7. QED
    BY <1>3, <1>4, <1>6 DEF Inv, WordsOK, OutOK, TakeRow

\* A row that is through all its blocks is done.
LEMMA LeaveRowInv == ASSUME Inv, NEW t \in Threads, LeaveRow(t) PROVE Inv'
  <1>1. TypeOK'
    BY DEF Inv, TypeOK, LeaveRow
  <1>2. \A u \in Threads : u # t => pc'[u] = pc[u]
    BY DEF Inv, TypeOK, LeaveRow
  <1>3. pc'[t] = "idle" /\ pc[t] = "block"
    BY DEF Inv, TypeOK, LeaveRow
  <1>4. phase = "rows"
    BY <1>3, InLoop
  <1>5. ThreadsOK'
    BY <1>2, <1>3, <1>4 DEF Inv, ThreadsOK, LeaveRow
  <1>6. ASSUME NEW j \in Rows, NEW b \in Blocks, InBlock(j, b)
        PROVE  Done(j, b)' <=> Done(j, b)
    <2>1. CASE j = row[t]
      <3>1. b < blk[t]
        <4>1. b \in Nat /\ blk[t] \in Nat /\ Mi[b] \in Nat /\ j \in Nat
          BY GeometryAssumption DEF Inv, TypeOK, Blocks, Rows
        <4>2. CASE blk[t] \in Blocks
          <5>1. ~(j < Mi[blk[t]]) /\ j < Mi[b] /\ Mi[blk[t]] \in Nat
            BY <2>1, <4>2, <1>6, GeometryAssumption DEF InBlock, LeaveRow
          <5>2. blk[t] < b => Mi[b] <= Mi[blk[t]]
            BY <4>2, LayoutAssumption DEF LayoutOK
          <5>3. b # blk[t]
            BY <5>1
          <5>4. QED
            BY <4>1, <5>1, <5>2, <5>3
        <4>3. CASE blk[t] \notin Blocks
          BY <4>1, <4>3, GeometryAssumption DEF Blocks
        <4>4. QED
          BY <4>2, <4>3
      <3>2. \A u \in Threads : u # t /\ pc[u] # "idle" => row[u] # j
        BY <2>1, <1>3 DEF Inv, ThreadsOK
      <3>3. QED
        BY <1>2, <1>3, <3>1, <3>2 DEF Done, LeaveRow
    <2>2. CASE j # row[t]
      BY <1>2, <1>3, <2>2 DEF Done, LeaveRow
    <2>3. QED
      BY <2>1, <2>2
  <1>7. Written' = Written /\ Unpacked(words)' = Unpacked(words)
    BY <1>6 DEF LeaveRow, Written, Unpacked
  <1>8. QED
    BY <1>1, <1>5, <1>7 DEF Inv, WordsOK, OutOK, LeaveRow

\* Moving on to the next block completes the pair (row[t], blk[t]) and no other.
LEMMA NextBlockDone ==
  ASSUME Inv, NEW t \in Threads, pc[t] # "idle", InBlock(row[t], blk[t]),
         NextBlock(t), UNCHANGED <<phase, ones, todo, row>>
  PROVE  /\ ThreadsOK'
         /\ pc' \in [Threads -> {"idle", "block", "update"}]
         /\ blk' \in [Threads -> Nat] /\ seedBase' \in [Threads -> Nat]
         /\ \A j \in Rows, b \in Blocks :
              Done(j, b)' <=> Done(j, b) \/ (j = row[t] /\ b = blk[t])
  <1>1. \A u \in Threads : u # t => pc'[u] = pc[u] /\ blk'[u] = blk[u]
                                     /\ seedBase'[u] = seedBase[u]
    BY DEF Inv, TypeOK, NextBlock
  <1>2. pc'[t] = "block" /\ blk'[t] = blk[t] + 1 /\ seedBase'[t] = seedBase[t] + TReq
    BY DEF Inv, TypeOK, NextBlock
  <1>3. blk[t] \in Nat /\ blk[t] \in Blocks
    BY DEF Inv, TypeOK, InBlock
  <1>4. seedBase'[t] = SeedBase(blk'[t]) /\ seedBase'[t] \in Nat
    <2>1. seedBase[t] = SeedBase(blk[t])
      BY DEF Inv, ThreadsOK
    <2>2. SeedBase(blk[t]) + TReq = SeedBase(blk[t] + 1) /\ SeedBase(blk[t] + 1) \in Nat
      BY <1>3, NextSeedBase
    <2>3. QED
      BY <1>2, <2>1, <2>2
  <1>5. row' = row /\ todo' = todo /\ ones' = ones /\ phase' = "rows"
    BY InLoop
  <1>6. ThreadsOK'
    BY <1>1, <1>2, <1>4, <1>5 DEF Inv, ThreadsOK
  <1>7. /\ pc' \in [Threads -> {"idle", "block", "update"}]
        /\ blk' \in [Threads -> Nat]
    BY <1>3 DEF Inv, TypeOK, NextBlock
  <1>8. seedBase' \in [Threads -> Nat]
    BY <1>2, <1>4 DEF Inv, TypeOK, NextBlock
  <1>9. ASSUME NEW j \in Rows, NEW b \in Blocks
        PROVE  Done(j, b)' <=> Done(j, b) \/ (j = row[t] /\ b = blk[t])
    <2>1. CASE j = row[t]
      <3>1. j \notin todo
        BY <2>1 DEF Inv, ThreadsOK
      <3>2. \A u \in Threads : u # t /\ pc[u] # "idle" => row[u] # j
        BY <2>1 DEF Inv, ThreadsOK
      <3>3. Done(j, b) <=> b < blk[t]
        BY <2>1, <3>1, <3>2 DEF Done
      <3>4. Done(j, b)' <=> b < blk[t] + 1
        BY <1>1, <1>2, <1>5, <2>1, <3>1, <3>2 DEF Done
      <3>5. b < blk[t] + 1 <=> b < blk[t] \/ b = blk[t]
        BY <1>3, GeometryAssumption DEF Blocks
      <3>6. QED
        BY <2>1, <3>3, <3>4, <3>5
    <2>2. CASE j # row[t]
      BY <1>1, <1>5, <2>2 DEF Done
    <2>3. QED
      BY <2>1, <2>2
  <1>10. QED
    BY <1>6, <1>7, <1>8, <1>9

\* Calling the 1-bit extractor changes no word.
LEMMA ExtractBitInv == ASSUME Inv, NEW t \in Threads, ExtractBit(t) PROVE Inv'
  <1>1. pc[t] = "block" /\ InBlock(row[t], blk[t]) /\ phase = "rows"
    BY InLoop DEF ExtractBit
  <1>2. UNCHANGED <<phase, ones, words, todo, row, out>>
    BY DEF ExtractBit
  <1>3. CASE <<row[t], seedBase[t]>> \in ones
    <2>1. pc' = [pc EXCEPT ![t] = "update"] /\ UNCHANGED <<blk, seedBase>>
      BY <1>3 DEF ExtractBit
    <2>2. TypeOK'
      BY <1>2, <2>1 DEF Inv, TypeOK
    <2>3. \A u \in Threads : pc'[u] = IF u = t THEN "update" ELSE pc[u]
      BY <2>1 DEF Inv, TypeOK
    <2>4. ThreadsOK'
      BY <1>1, <1>2, <1>3, <2>1, <2>3 DEF Inv, ThreadsOK
    <2>5. \A j, b : Done(j, b)' <=> Done(j, b)
      BY <1>1, <1>2, <2>1, <2>3 DEF Done
    <2>6. Written' = Written /\ Unpacked(words)' = Unpacked(words)
      BY <1>2, <2>5 DEF Written, Unpacked
    <2>7. QED
      BY <1>1, <1>2, <2>2, <2>4, <2>6 DEF Inv, WordsOK, OutOK
  <1>4. CASE <<row[t], seedBase[t]>> \notin ones
    <2>1. NextBlock(t)
      BY <1>4 DEF ExtractBit
    <2>2. /\ ThreadsOK'
          /\ pc' \in [Threads -> {"idle", "block", "update"}]
          /\ blk' \in [Threads -> Nat] /\ seedBase' \in [Threads -> Nat]
          /\ \A j \in Rows, b \in Blocks :
               Done(j, b)' <=> Done(j, b) \/ (j = row[t] /\ b = blk[t])
      BY <1>1, <1>2, <2>1, NextBlockDone
    <2>3. TypeOK'
      BY <1>2, <2>2 DEF Inv, TypeOK
    <2>4. <<row[t], SeedBase(blk[t])>> \notin ones
      BY <1>1, <1>4 DEF Inv, ThreadsOK
    <2>5. Written' = Written /\ Unpacked(words)' = Unpacked(words)
      BY <1>2, <2>2, <2>4 DEF Written, Unpacked
    <2>6. QED
      BY <1>1, <1>2, <2>2, <2>3, <2>5 DEF Inv, WordsOK, OutOK
  <1>5. QED
    BY <1>3, <1>4

\* An atomic OR completes exactly one (row, block) pair.
LEMMA UpdateInv == ASSUME Inv, NEW t \in Threads, Update(t) PROVE Inv'
  <1> DEFINE p == Position(row[t], blk[t])
  <1>1. /\ pc[t] = "update" /\ phase = "rows" /\ row[t] \in Rows
        /\ InBlock(row[t], blk[t]) /\ blk[t] \in Blocks
        /\ <<row[t], SeedBase(blk[t])>> \in ones
    BY InLoop DEF Update, Inv, ThreadsOK, InBlock
  <1>2. UNCHANGED <<phase, ones, todo, row, out>> /\ NextBlock(t) /\ words' = OrInto(words, p)
    BY DEF Update
  <1>3. /\ ThreadsOK'
        /\ pc' \in [Threads -> {"idle", "block", "update"}]
        /\ blk' \in [Threads -> Nat] /\ seedBase' \in [Threads -> Nat]
        /\ \A j \in Rows, b \in Blocks :
             Done(j, b)' <=> Done(j, b) \/ (j = row[t] /\ b = blk[t])
    BY <1>1, <1>2, NextBlockDone
  <1>4. p \in Pos
    BY <1>1, PositionType
  <1>5. /\ words' \in [WordIndex -> SUBSET BitIndex]
        /\ Unpacked(words') = Unpacked(words) \cup {p}
    BY <1>2, <1>4, OrIntoAdds DEF Inv
  <1>6. TypeOK'
    BY <1>2, <1>3, <1>5 DEF Inv, TypeOK
  <1>7. Written' = Written \cup {p}
    <2>1. ASSUME NEW q \in Pos
          PROVE  q \in Written' <=> q \in Written \/ q = p
      BY <1>1, <1>2, <1>3 DEF Written
    <2>2. QED
      BY <1>4, <2>1 DEF Written
  <1>8. QED
    BY <1>1, <1>2, <1>3, <1>5, <1>6, <1>7 DEF Inv, WordsOK, OutOK

\* Every step.
LEMMA StepInv == Inv /\ [Next]_vars => Inv'
  <1> SUFFICES ASSUME Inv, [Next]_vars PROVE Inv'
    OBVIOUS
  <1>1. CASE BeginRound
    BY <1>1, BeginRoundInv
  <1>2. CASE Publish
    BY <1>2, PublishInv
  <1>3. ASSUME NEW t \in Threads, ThreadStep(t) PROVE Inv'
    BY <1>3, TakeRowInv, LeaveRowInv, ExtractBitInv, UpdateInv DEF ThreadStep
  <1>4. CASE UNCHANGED vars
    <2>1. TypeOK' /\ ThreadsOK'
      BY <1>4 DEF vars, Inv, TypeOK, ThreadsOK
    <2>2. Written' = Written /\ Unpacked(words)' = Unpacked(words)
      BY <1>4 DEF vars, Written, Done, Unpacked
    <2>3. QED
      BY <1>4, <2>1, <2>2 DEF vars, Inv, WordsOK, OutOK
  <1>5. QED
    BY <1>1, <1>2, <1>3, <1>4 DEF Next

\* The inductive invariant holds throughout.
LEMMA AlwaysInv == Spec => []Inv
  <1>1. QED
    BY InitInv, StepInv, PTL DEF Spec

-----------------------------------------------------------------------------
(* What follows from the invariant *)

\* With no row left and nobody at work every pair is done.
LEMMA AllDone ==
  ASSUME todo = {}, \A t \in Threads : pc[t] = "idle"
  PROVE  Written = Reference(ones)
  BY DEF Written, Reference, Done

(***************************************************************************)
(* Every variable of the loop keeps its type: in particular no update      *)
(* leaves the m / W + 1 words that alloc_and_zero allocated.               *)
(***************************************************************************)
THEOREM TypeCorrect == Spec => []TypeOK
  <1>1. Inv => TypeOK
    BY DEF Inv
  <1>2. QED
    BY <1>1, AlwaysInv, PTL

(***************************************************************************)
(* Whatever the schedule of the rows, the number of threads and the word   *)
(* size, the string handed over is the reference string.                   *)
(***************************************************************************)
THEOREM OutputCorrect == Spec => []OutputIsReference
  <1>1. Inv => OutputIsReference
    BY AllDone DEF Inv, ThreadsOK, WordsOK, OutOK, OutputIsReference
  <1>2. QED
    BY <1>1, AlwaysInv, PTL

(***************************************************************************)
(* At no moment of the loop do the shared words hold a wrong 1.            *)
(***************************************************************************)
THEOREM PartialResultsCorrect == Spec => []NoStrayBit
  <1>1. Inv => NoStrayBit
    BY DEF Inv, WordsOK, NoStrayBit, Written, Reference
  <1>2. QED
    BY <1>1, AlwaysInv, PTL

(***************************************************************************)
(* Two threads about to update aim at different positions.                 *)
(***************************************************************************)
THEOREM TargetsDistinct == Spec => []DistinctTargets
  <1>1. ASSUME Inv PROVE DistinctTargets
    <2> SUFFICES ASSUME NEW t \in Threads, NEW u \in Threads, t # u,
                        pc[t] = "update", pc[u] = "update",
                        Position(row[t], blk[t]) = Position(row[u], blk[u])
                 PROVE  FALSE
      BY DEF DistinctTargets
    <2>1. row[t] # row[u] /\ InBlock(row[t], blk[t]) /\ InBlock(row[u], blk[u])
      BY <1>1 DEF Inv, ThreadsOK
    <2>2. /\ blk[t] \in Blocks /\ blk[u] \in Blocks
          /\ row[t] \in Nat /\ row[u] \in Nat
          /\ row[t] < Mi[blk[t]] /\ row[u] < Mi[blk[u]]
      BY <1>1, <2>1 DEF Inv, TypeOK, InBlock
    <2>3. /\ Mi[blk[t]] \in Nat /\ Mi[blk[u]] \in Nat
          /\ BaseMi[blk[t]] \in Nat /\ BaseMi[blk[u]] \in Nat
          /\ blk[t] \in Int /\ blk[u] \in Int
      BY <2>2, GeometryAssumption DEF Blocks
    <2>4. row[t] + BaseMi[blk[t]] = row[u] + BaseMi[blk[u]]
      BY DEF Position
    <2>5. CASE blk[t] = blk[u]
      BY <2>1, <2>2, <2>3, <2>4, <2>5
    <2>6. CASE blk[t] < blk[u]
      <3>1. BaseMi[blk[t]] + Mi[blk[t]] <= BaseMi[blk[u]]
        BY <2>2, <2>6, LayoutAssumption DEF LayoutOK
      <3>2. QED
        BY <2>2, <2>3, <2>4, <3>1
    <2>7. CASE blk[u] < blk[t]
      <3>1. BaseMi[blk[u]] + Mi[blk[u]] <= BaseMi[blk[t]]
        BY <2>2, <2>7, LayoutAssumption DEF LayoutOK
      <3>2. QED
        BY <2>2, <2>3, <2>4, <3>1
    <2>8. QED
      BY <2>3, <2>5, <2>6, <2>7
  <1>2. QED
    BY <1>1, AlwaysInv, PTL

(***************************************************************************)
(* The steps of the loop implement those of the abstract extraction: only  *)
(* Publish changes the output, and it hands over the reference string.     *)
(***************************************************************************)
THEOREM ImplementsSafely ==
  Spec => Abstract!Init /\ [][Abstract!Next]_(Abstract!vars)
  <1>0. Abstract!Queries = Queries /\ Abstract!Reference(ones) = Reference(ones)
    BY DEF Queries, Reference, Rows, Blocks, Pos, InBlock, Position, SeedBase,
           Abstract!Queries, Abstract!Reference, Abstract!Rows, Abstract!Blocks,
           Abstract!Pos, Abstract!InBlock, Abstract!Position, Abstract!SeedBase
  <1>1. Init => Abstract!Init
    BY DEF Init, Abstract!Init
  <1>2. ASSUME Inv, [Next]_vars PROVE [Abstract!Next]_(Abstract!vars)
    <2>1. CASE BeginRound
      BY <1>0, <2>1 DEF BeginRound, Abstract!Next, Abstract!BeginRound
    <2>2. CASE Publish
      <3>1. Unpacked(words) = Reference(ones)
        BY <1>2, <2>2, AllDone DEF Publish, LoopFinished, Inv, WordsOK
      <3>2. Abstract!Publish
        BY <1>0, <2>2, <3>1 DEF Publish, LoopFinished, Abstract!Publish
      <3>3. QED
        BY <3>2 DEF Abstract!Next
    <2>3. ASSUME NEW t \in Threads, ThreadStep(t) PROVE UNCHANGED Abstract!vars
      BY <2>3 DEF ThreadStep, TakeRow, LeaveRow, ExtractBit, Update, Abstract!vars
    <2>4. CASE UNCHANGED vars
      BY <2>4 DEF vars, Abstract!vars
    <2>5. QED
      BY <1>2, <2>1, <2>2, <2>3, <2>4 DEF Next
  <1>3. QED
    BY <1>1, <1>2, AlwaysInv, PTL DEF Spec
=============================================================================
