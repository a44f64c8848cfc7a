--------------------------- MODULE ParallelExtract ---------------------------
(***************************************************************************)
(* The parallel loop of trevisan_dispatcher (extractor.cc) and the body    *)
(* trevisan_extract that it runs for every row.  OpenMP threads take rows  *)
(* in an order the schedule decides; for a row a thread walks the blocks,  *)
(* asks the 1-bit extractor for one bit per block at a seed offset that    *)
(* grows by t_req, and ORs a 1 into the word of the shared array           *)
(* extracted_rand that holds the bit's position.  The end of the loop is a *)
(* barrier; then the array is sent or written to the file and, when        *)
(* streaming, the next round starts with a freshly zeroed array.  With     *)
(* --skip-bitext the loop is the same and every query is answered with 0.  *)
(***************************************************************************)
EXTENDS OutputLayout, FiniteSets

CONSTANTS
  Threads,    \* the OpenMP team
  W,          \* bits per word of extracted_rand (32 in the build)
  Streaming   \* params.streaming

ASSUME EngineAssumption == W \in Nat \ {0} /\ Streaming \in BOOLEAN

VARIABLES
  phase,     \* "setup", "rows" (inside the parallel loop) or "done"
  ones,      \* this round's data and seed: the queries answered with a 1
  words,     \* extracted_rand: the set of bits at 1 in each word
  todo,      \* rows of the loop no thread has taken
  pc,        \* pc[t]: "idle", "block" (at the loop test) or "update"
  row,       \* row[t]: i of trevisan_extract
  blk,       \* blk[t]: a of its loop over the blocks
  seedBase,  \* seedBase[t]: cur_seed_base
  out        \* the string handed over, as the set of positions at 1

vars == <<phase, ones, words, todo, pc, row, blk, seedBase, out>>

WordIndex == 0 .. MReq \div W       \* alloc_and_zero allocates m / W + 1 words
BitIndex  == 0 .. W - 1
WordOf(p) == p \div W
\* A slip of one: bits 1 to W of a word.
BitOfShifted(p) == W - (p % W)
BitOf(p)  == W - 1 - (p % W)        \* most significant bit first

(***************************************************************************)
(* Every store of trevisan_extract is inside the array alloc_and_zero      *)
(* allocated and inside a word of it (extractor.cc 76-83, 292-295), and    *)
(* the threads stay at the points of the loop the model knows.             *)
(***************************************************************************)
TypeOK ==
  /\ phase \in {"setup", "rows", "done"}
  /\ ones \subseteq Queries
  /\ words \in [WordIndex -> SUBSET BitIndex]
  /\ todo \subseteq Rows
  /\ pc \in [Threads -> {"idle", "block", "update"}]
  /\ row \in [Threads -> Nat]
  /\ blk \in [Threads -> Nat]
  /\ seedBase \in [Threads -> Nat]
  /\ out \subseteq Pos

Init ==
  /\ phase = "setup" /\ ones = {} /\ out = {} /\ todo = {}
  /\ words = [w \in WordIndex |-> {}]
  /\ pc = [t \in Threads |-> "idle"]
  /\ row = [t \in Threads |-> 0]
  /\ blk = [t \in Threads |-> 0]
  /\ seedBase = [t \in Threads |-> 0]

\* The array of the last round reused without its memset.
KeepOld(ws) == ws
\* memset over the whole of a new array
Zeroed(ws) == [w \in WordIndex |-> {}]

\* Data and seed of a round arrive, the result array is allocated, the loop starts.
BeginRound ==
  /\ phase = "setup" \/ (phase = "done" /\ Streaming)
  /\ phase' = "rows"
  /\ ones' \in SUBSET Queries
  /\ words' = Zeroed(words)
  /\ todo' = Rows
  /\ UNCHANGED <<pc, row, blk, seedBase, out>>

\* An idle thread takes any row that is left: this covers every loop schedule.
TakeRow(t) ==
  /\ phase = "rows" /\ pc[t] = "idle"
  /\ \E i \in todo : row' = [row EXCEPT ![t] = i] /\ todo' = todo \ {i}
  /\ pc' = [pc EXCEPT ![t] = "block"]
  /\ blk' = [blk EXCEPT ![t] = 0]
  /\ seedBase' = [seedBase EXCEPT ![t] = 0]
  /\ UNCHANGED <<phase, ones, words, out>>

\* The loop variable advances and cur_seed_base does with it; the slip below
\* leaves both where they are, and the row is never left.
SameBlock(t) ==
  /\ pc' = [pc EXCEPT ![t] = "block"]
  /\ UNCHANGED <<blk, seedBase>>

NextBlock(t) ==
  /\ pc' = [pc EXCEPT ![t] = "block"]
  /\ blk' = [blk EXCEPT ![t] = @ + 1]
  /\ seedBase' = [seedBase EXCEPT ![t] = @ + TReq]

\* The loop over the blocks ends, or breaks at the first block without this row.
LeaveRow(t) ==
  /\ pc[t] = "block" /\ ~InBlock(row[t], blk[t])
  /\ pc' = [pc EXCEPT ![t] = "idle"]
  /\ UNCHANGED <<phase, ones, words, todo, row, blk, seedBase, out>>

\* bext->extract on the sub-seed selected at cur_seed_base.
ExtractBit(t) ==
  /\ pc[t] = "block" /\ InBlock(row[t], blk[t])
  /\ IF <<row[t], seedBase[t]>> \in ones
     THEN pc' = [pc EXCEPT ![t] = "update"] /\ UNCHANGED <<blk, seedBase>>
     ELSE NextBlock(t)
  /\ UNCHANGED <<phase, ones, words, todo, row, out>>

\* The word stored instead of ORed, as a plain assignment would.
StoreInto(ws, p) == [ws EXCEPT ![WordOf(p)] = {BitOf(p)}]
\* omp atomic update: extracted_rand[w] |= bit
OrInto(ws, p) == [ws EXCEPT ![WordOf(p)] = @ \cup {BitOf(p)}]

Update(t) ==
  /\ pc[t] = "update"
  /\ words' = OrInto(words, Position(row[t], blk[t]))
  /\ NextBlock(t)
  /\ UNCHANGED <<phase, ones, todo, row, out>>

\* The loop without its barrier: the writer starts when no row is left to take.
LoopStarted == phase = "rows" /\ todo = {}
\* The barrier that ends the parallel loop.
LoopFinished == phase = "rows" /\ todo = {} /\ \A t \in Threads : pc[t] = "idle"

\* The words as the output file's writer reads them, most significant bit first.
Unpacked(ws) == {p \in Pos : BitOf(p) \in ws[WordOf(p)]}

Publish ==
  /\ LoopFinished
  /\ out' = Unpacked(words)
  /\ phase' = "done"
  /\ UNCHANGED <<ones, words, todo, pc, row, blk, seedBase>>

ThreadStep(t) == TakeRow(t) \/ LeaveRow(t) \/ ExtractBit(t) \/ Update(t)

Next == BeginRound \/ Publish \/ \E t \in Threads : ThreadStep(t)

\* Every thread of the team keeps running, and so does the master after the loop.
Fairness ==
  /\ WF_vars(Publish)
  /\ \A t \in Threads : WF_vars(ThreadStep(t))

Spec == Init /\ [][Next]_vars /\ Fairness

-----------------------------------------------------------------------------
(***************************************************************************)
(* The string handed over is the reference string of this round's data and *)
(* seed: no bit of another thread is lost in a shared word, no bit of an   *)
(* earlier round survives, no row is missing when the writer starts        *)
(* (extractor.cc 293-295, 465-501, 76-83).                                 *)
(***************************************************************************)
OutputIsReference == phase = "done" => out = Reference(ones)

(***************************************************************************)
(* Every 1 in the shared words, at any moment of the loop, is one the      *)
(* reference string has: partial results are never wrong, only incomplete. *)
(***************************************************************************)
NoStrayBit == phase = "rows" => Unpacked(words) \subseteq Reference(ones)

(***************************************************************************)
(* Two threads about to update never aim at the same output position: the  *)
(* rows of the blocks are disjoint and no row is taken twice.              *)
(***************************************************************************)
DistinctTargets ==
  \A t, u \in Threads :
    t # u /\ pc[t] = "update" /\ pc[u] = "update"
      => Position(row[t], blk[t]) # Position(row[u], blk[u])

(***************************************************************************)
(* Every round that starts publishes its string: no thread stays at the    *)
(* loop over the blocks and the barrier opens.                             *)
(***************************************************************************)
RoundsFinish == phase = "rows" ~> phase = "done"

(***************************************************************************)
(* The loop implements the one-step extraction of ExtractOnce.             *)
(***************************************************************************)
Abstract == INSTANCE ExtractOnce
ImplementsExtractOnce == Abstract!Spec
=============================================================================
