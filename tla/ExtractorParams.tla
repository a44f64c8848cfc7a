--------------------------- MODULE ExtractorParams ---------------------------
(***************************************************************************)
(* How dispatch (extractor.cc) turns a request into the number of rows m   *)
(* and the output length m_req, round after round.  One struct params      *)
(* lives through all rounds of a streaming session: stream_get_cmd_line_   *)
(* bits resets n, m and k, every other field keeps what the last round     *)
(* left in it.  The code computes with doubles; here k and loss are         *)
(* integers in units of 1/S bit, loss being 4 log2(1/eps) + 6, the part of *)
(* k that eps costs; m, m_req and max_entropy are whole bits; r = e is R/S.*)
(* The eps of a command is any positive number: nothing checks that it is  *)
(* at most 1, so the loss may be negative.                                 *)
(***************************************************************************)
EXTENDS Integers

CONSTANTS
  Ks, MReqs, Losses,  \* values of k_frac = alpha*n - 1, of m and of the loss
  SiTsts,             \* values of -s
  Holds,              \* which parameters a command of the data client may hold
  Streaming, Ignore,  \* --stream, --ignore-entropy-violation
  S, R

Full == {"a", "m", "e", "b"}
\* "a" stands for a and n, of which k is computed; "x" for an unknown letter
Parameters == Full \cup {"x"}

ASSUME RateAssumption == S \in Nat \ {0} /\ R \in Nat /\ R > S
ASSUME RequestAssumption ==
  /\ Ks \subseteq Nat \ {0} /\ MReqs \subseteq Nat /\ Losses \subseteq Int /\ SiTsts \subseteq Int
  /\ Streaming \in BOOLEAN /\ Ignore \in BOOLEAN
  /\ Holds \subseteq SUBSET Parameters /\ Full \in Holds

\* a parameter that a command does not hold has one value, which does not matter
Any(values) == CHOOSE x \in values : TRUE
Commands ==
  { c \in [k : Ks, m : MReqs, loss : Losses, b : BOOLEAN, holds : Holds] :
      /\ "a" \in c.holds \/ c.k = Any(Ks)
      /\ "m" \in c.holds \/ c.m = Any(MReqs)
      /\ "e" \in c.holds \/ c.loss = Any(Losses)
      /\ "b" \in c.holds \/ ~c.b }
FullCommands == {c \in Commands : c.holds = Full}

VARIABLES
  pc,         \* "input", "derive", "check", "extract", "finished" or "exited"
  cmd,        \* history: the request of this round
  k, loss,    \* k_frac = alpha*n - 1, and what eps costs
  m, mReq, blkDes, maxEntropy, siTst,  \* fields of params
  dryRun,     \* --dryrun
  siRows,     \* history: rows Si_test has run in this round
  siArg,      \* history: the value of -s
  watched,    \* history: some command,
  outcome     \* and what it led to when it was last extracted

vars == <<pc, cmd, k, loss, m, mReq, blkDes, maxEntropy, siTst, dryRun, siRows, siArg, watched, outcome>>

Undecided == [rows |-> -1, bits |-> -1, blocks |-> FALSE]

\* parse_cmdline, which refuses an eps above 1; when streaming, what -a and -m
\* say is overwritten
Init ==
  /\ pc = IF Streaming THEN "input" ELSE "derive"
  /\ cmd \in FullCommands /\ cmd.loss >= 6 * S
  /\ k = cmd.k /\ loss = cmd.loss /\ m = cmd.m /\ blkDes = cmd.b
  /\ dryRun \in BOOLEAN
  /\ siArg \in SiTsts /\ siTst = siArg
  /\ mReq = 0 /\ maxEntropy = 0 /\ siRows = 0
  /\ watched \in FullCommands /\ outcome = Undecided

\* a slip: only a set flag is stored
BlockFlagSticky(c) == IF "b" \in c.holds THEN c.b \/ blkDes ELSE blkDes
\* b of a command, 1 or 0, goes to blk_des
BlockFlag(c) == IF "b" \in c.holds THEN c.b ELSE blkDes

\* stream_get_cmd_line_bits: n, m and k are 0 unless the command says more, e
\* and b keep their values; without n and a, and at a letter it does not know,
\* the server exits.
GetCommand ==
  /\ pc = "input"
  /\ cmd' \in Commands
  /\ IF "a" \in cmd'.holds /\ "x" \notin cmd'.holds
     THEN /\ k' = cmd'.k /\ m' = IF "m" \in cmd'.holds THEN cmd'.m ELSE 0
          /\ loss' = IF "e" \in cmd'.holds THEN cmd'.loss ELSE loss
          /\ blkDes' = BlockFlag(cmd')
          /\ pc' = "derive"
     ELSE UNCHANGED <<k, m, loss, blkDes>> /\ pc' = "exited"
  /\ siRows' = 0
  /\ UNCHANGED <<mReq, maxEntropy, siTst, dryRun, siArg, watched, outcome>>

\* a slip: rounded up
MaxRowsUp(entropy) == (entropy * S + R - 1) \div R
\* most rows a weak design of overlap r supports: floor(max_entropy / e)
MaxRows(entropy) == (entropy * S) \div R

\* a slip: the test is forgotten
NothingLeftForgotten == FALSE
\* the double is truncated when it is stored in max_entropy
NothingLeft == k - loss <= 0
EntropyLeft == (k - loss) \div S

\* the three cases of a request, in the order of the code
TakeAll(rows) ==
  /\ m = 0
  /\ m' = rows /\ mReq' = IF blkDes THEN EntropyLeft ELSE rows
  /\ UNCHANGED blkDes
FitsWeakDesign(rows) ==
  /\ m # 0 /\ m <= rows
  /\ mReq' = m /\ blkDes' = FALSE
  /\ UNCHANGED m
NeedsBlocks(rows) ==
  /\ m # 0 /\ m > rows /\ blkDes /\ m <= EntropyLeft
  /\ mReq' = m /\ m' = rows
  /\ UNCHANGED blkDes

Derive ==
  /\ pc = "derive" /\ ~NothingLeft
  /\ maxEntropy' = EntropyLeft
  /\ \/ TakeAll(MaxRows(EntropyLeft))
     \/ FitsWeakDesign(MaxRows(EntropyLeft))
     \/ NeedsBlocks(MaxRows(EntropyLeft))
  /\ pc' = "check"
  /\ UNCHANGED <<cmd, k, loss, siTst, dryRun, siRows, siArg, watched, outcome>>

\* the error exits of the same code
Refuse ==
  /\ pc = "derive"
  /\ \/ NothingLeft
     \/ m # 0 /\ m > MaxRows(EntropyLeft) /\ (~blkDes \/ m > EntropyLeft)
  /\ pc' = "exited"
  /\ UNCHANGED <<cmd, k, loss, m, mReq, blkDes, maxEntropy, siTst, dryRun, siRows, siArg, watched, outcome>>

\* r * m and what eps costs, and whether compute_k can return it: C++ leaves
\* undefined what a double of -1 or less is as an unsigned number
Required(rows) == R * rows + loss
Representable(rows) == Required(rows) > -S
\* a slip: the overlap 2e of the older designs
ComputeKTwice(rows) == IF Required(rows) < 0 THEN 0 ELSE (Required(rows) + R * rows) \div S
\* bext->compute_k(), truncated to whole bits; it is compared with alpha * n
ComputeK(rows) == IF Required(rows) < 0 THEN 0 ELSE Required(rows) \div S
\* the results the comparison with alpha * n may have
Insufficient(rows) == IF Representable(rows) THEN {ComputeK(rows) * S > k + S} ELSE BOOLEAN
CheckEntropy ==
  /\ pc = "check"
  /\ \E insufficient \in Insufficient(m) :
       pc' = IF insufficient /\ ~Ignore THEN "exited" ELSE "extract"
  /\ UNCHANGED <<cmd, k, loss, m, mReq, blkDes, maxEntropy, siTst, dryRun, siRows, siArg, watched, outcome>>

\* trevisan_dispatcher: the -1 of -s becomes m, and Si_test runs
SiTestRows == IF siTst = -1 THEN m ELSE siTst
Extract ==
  /\ pc = "extract" /\ ~dryRun
  /\ siTst' = SiTestRows
  /\ siRows' = IF siTst' > 0 THEN siTst' ELSE 0
  /\ outcome' = IF cmd = watched THEN [rows |-> m, bits |-> mReq, blocks |-> blkDes] ELSE outcome
  /\ pc' = "finished"
  /\ UNCHANGED <<cmd, k, loss, m, mReq, blkDes, maxEntropy, dryRun, siArg, watched>>

\* trevisan_dispatcher returns before anything is allocated or tested
DryRun ==
  /\ pc = "extract" /\ dryRun
  /\ pc' = "finished"
  /\ UNCHANGED <<cmd, k, loss, m, mReq, blkDes, maxEntropy, siTst, dryRun, siRows, siArg, watched, outcome>>

NextStream ==
  /\ pc = "finished" /\ Streaming
  /\ pc' = "input"
  /\ UNCHANGED <<cmd, k, loss, m, mReq, blkDes, maxEntropy, siTst, dryRun, siRows, siArg, watched, outcome>>

Stopped == (pc = "exited" \/ (pc = "finished" /\ ~Streaming)) /\ UNCHANGED vars

Next == GetCommand \/ Derive \/ Refuse \/ CheckEntropy \/ Extract \/ DryRun \/ NextStream \/ Stopped

Spec == Init /\ [][Next]_vars

-----------------------------------------------------------------------------
\* Entropies, rows and lengths stay natural numbers: max_entropy is unsigned,
\* and the double stored in it is never negative, whatever eps a command holds.
TypeOK ==
  /\ pc \in {"input", "derive", "check", "extract", "finished", "exited"}
  /\ cmd \in Commands /\ k \in Nat /\ loss \in Int
  /\ m \in Nat /\ mReq \in Nat /\ maxEntropy \in Nat
  /\ blkDes \in BOOLEAN /\ dryRun \in BOOLEAN /\ siTst \in Int /\ siRows \in Nat

(***************************************************************************)
(* What is extracted is covered: the output is no longer than the entropy  *)
(* left after eps, which together with what eps costs is no more than k, a *)
(* single design has one row per output bit and no more rows than its      *)
(* overlap allows, and a block design's rows are exactly the most the      *)
(* overlap allows.                                                         *)
(***************************************************************************)
ExtractionCovered ==
  pc \in {"extract", "finished"} =>
    /\ mReq <= maxEntropy /\ S * maxEntropy + loss <= k
    /\ R * m <= S * maxEntropy
    /\ IF blkDes THEN m = MaxRows(maxEntropy) /\ m <= mReq ELSE m = mReq

(***************************************************************************)
(* The check of extractor.cc 973 never stops a request that the limits of  *)
(* 929-950 have let through, whatever --ignore-entropy-violation says,     *)
(* unless an eps above 1 makes the entropy it asks for negative.           *)
(***************************************************************************)
EntropyCheckRedundant ==
  pc = "check" /\ Representable(m) => ComputeK(m) * S <= k + S

(***************************************************************************)
(* A streaming round depends on its own command only, when the command     *)
(* holds all its parameters as the data client's does: it never leads to   *)
(* another extraction later in the session, whatever commands came between *)
(* and although every round overwrites m, m_req and blk_des.  A command    *)
(* without e or b uses what an earlier one, or the derivation of an        *)
(* earlier round, has left.                                                *)
(***************************************************************************)
SameCommandSameRound == [][outcome # Undecided => outcome' = outcome]_vars
=============================================================================
