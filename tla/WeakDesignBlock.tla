--------------------------- MODULE WeakDesignBlock ---------------------------
(***************************************************************************)
(* The block weak design of weakdes_block.cc with the table it reads, which *)
(* blockdes.r computes: the m rows are divided into blocks of decreasing   *)
(* size, and descriptors say for which rows how many blocks take part.     *)
(* compute_Si finds its place in the table with cursors that live per       *)
(* thread and advance by one in every call, whatever row is asked for.  A  *)
(* row of the basic design, shifted by block * t * t, is <<row, block>>.    *)
(* Reals are integers in units of 1/S; r is R/S.                           *)
(***************************************************************************)
EXTENDS Integers, Sequences, Functions

CONSTANTS
  Requests,  \* pairs <<m, t>>: rows asked for, and indices per row
  Teams,     \* numbers of OpenMP threads
  SiTests,   \* rows Si_test computes before the loop, -s on the command line
  S, R       \* r = R / S

ASSUME ScaleAssumption == S \in Nat \ {0} /\ R \in Nat /\ R > S
ASSUME RequestAssumption ==
  /\ \A q \in Requests : q \in Nat \X Nat /\ q[1] >= q[2] /\ q[2] * S > R
  /\ Teams \subseteq Nat \ {0} /\ SiTests \subseteq Nat

VARIABLES
  pc,        \* "describe", "sitest", "loop" or "failed"
  m, team, siRows,
  sizes,     \* m.list.block: rows of each block, block 0 first
  lst, owners, \* the argument of compute.descriptor; history: whose rows they are
  consumed, fixup,  \* its other arguments
  desc,      \* blocks: the descriptors so far
  next,      \* next[h]: the row thread h computes next
  bIdx, lIdx, cachedI,  \* the thread-local cursors and the cached row's number
  inOrder,   \* history: the calls of a thread so far were for rows 0, 1, 2, ...
  out        \* history: the last call and what it returned

vars == <<pc, m, team, siRows, sizes, lst, owners, consumed, fixup, desc, next, bIdx, lIdx, cachedI, inOrder, out>>

Ceil(x) == -((-x) \div S)
Shrink(x) == (x * (R - S)) \div R
\* x after k times
Shrunk(x) == LET times[k \in Nat] == IF k = 0 THEN x ELSE Shrink(times[k - 1]) IN times
\* n_i.block, and what the first k + 1 of them add up to
NSum(rows) ==
  LET n == Shrunk((rows * S * S) \div R - S)
      sum[k \in Nat] == IF k = 0 THEN n[0] ELSE sum[k - 1] + n[k]
  IN sum

\* l.block: at least 1, else how often m - r shrinks until it is at most t - r;
\* each time takes one unit at least
NumBlocks(rows, t) ==
  CHOOSE k \in 1 .. rows * S :
    /\ Shrunk(rows * S - R)[k] <= t * S - R
    /\ k > 1 => Shrunk(rows * S - R)[k - 1] > t * S - R

\* m.list.block: rounded partial sums; one more block takes what is left
BlockSizes(rows, t) ==
  LET l == NumBlocks(rows, t)
      UpTo(k) == IF k = 0 THEN 0 ELSE Ceil(NSum(rows)[k - 1])
  IN [k \in 1 .. l + 1 |-> IF k <= l THEN UpTo(k) - UpTo(k - 1) ELSE rows - UpTo(l)]

\* the first row of thread h of a team of k, when OpenMP's static schedule
\* deals m rows in contiguous parts that differ by one row at most
FirstRow(rows, k, h) == h * (rows \div k) + IF h < rows % k THEN h ELSE rows % k

Invalid == -1    \* numeric_limits<uint64_t>::max()
NoCall == [thread |-> 0, i |-> -1, row |-> 0, block |-> 0, ordered |-> FALSE]

Init ==
  /\ \E q \in Requests : m = q[1] /\ sizes = BlockSizes(q[1], q[2])
  /\ team \in Teams /\ siRows \in SiTests /\ siRows <= m
  /\ pc = "describe"
  /\ lst = sizes /\ owners = [k \in 1 .. Len(sizes) |-> k - 1]
  /\ consumed = 0 /\ fixup = FALSE /\ desc = <<>>
  /\ next = [h \in 0 .. team - 1 |-> 0]
  /\ bIdx = [h \in 0 .. team - 1 |-> 0] /\ lIdx = [h \in 0 .. team - 1 |-> 0]
  /\ cachedI = [h \in 0 .. team - 1 |-> Invalid]
  /\ inOrder = [h \in 0 .. team - 1 |-> 0]
  /\ out = NoCall
-----------------------------------------------------------------------------
(* compute.descriptor, one action per recursive call *)

Descriptor(iter) ==
  [highest |-> consumed + iter * Len(lst), iter |-> iter, bits |-> Len(lst),
   fixup |-> fixup, owners |-> owners]
LastIsLarger == lst[Len(lst) - 1] < lst[Len(lst)]
\* rows every block has left in this descriptor: the last block's, or those of
\* the block before it if the last one is larger
Iterations == IF LastIsLarger THEN lst[Len(lst) - 1] ELSE lst[Len(lst)]
\* the positions of lst[lst > 0] after the subtraction
Left(iter) ==
  LET left[k \in Nat] ==
        IF k = 0 THEN <<>>
        ELSE IF lst[k] > iter THEN Append(left[k - 1], k) ELSE left[k - 1]
  IN left[Len(lst)]

Describe ==
  /\ pc = "describe" /\ Len(lst) > 1
  /\ desc' = Append(desc, Descriptor(Iterations))
  /\ consumed' = consumed + Iterations * Len(lst)
  /\ fixup' = LastIsLarger
  /\ LET left == Left(Iterations) IN
       /\ lst' = [k \in 1 .. Len(left) |-> lst[left[k]] - Iterations]
       /\ owners' = [k \in 1 .. Len(left) |-> owners[left[k]]]
  /\ UNCHANGED <<pc, m, team, siRows, sizes, next, bIdx, lIdx, cachedI, inOrder, out>>

\* one block left: its rows follow one by one
DescribeLast ==
  /\ pc = "describe" /\ Len(lst) = 1
  /\ desc' = Append(desc, [Descriptor(lst[1]) EXCEPT !.fixup = FALSE])
  /\ pc' = "sitest"
  /\ UNCHANGED <<m, team, siRows, sizes, lst, owners, consumed, fixup, next, bIdx, lIdx, cachedI, inOrder, out>>

\* no block left: the condition of the if has length zero, an error in R
DescribeNothing ==
  /\ pc = "describe" /\ Len(lst) = 0
  /\ pc' = "failed"
  /\ UNCHANGED <<m, team, siRows, sizes, lst, owners, consumed, fixup, desc, next, bIdx, lIdx, cachedI, inOrder, out>>
-----------------------------------------------------------------------------
(* compute_Si, called by thread h for row i *)

Desc(b) == desc[b + 1]
\* a slip: the local index runs on in the next descriptor
NextCursorRunning(h, i) ==
  IF i = Desc(bIdx[h]).highest THEN <<bIdx[h] + 1, lIdx[h]>> ELSE <<bIdx[h], lIdx[h]>>
\* a new descriptor begins at its first row
NextCursor(h, i) ==
  IF i = Desc(bIdx[h]).highest THEN <<bIdx[h] + 1, 0>> ELSE <<bIdx[h], lIdx[h]>>

\* slips: no fixup, and a fixup that counts blocks from 1
MultiplierPlain(b, k) == k
MultiplierPast(b, k) == IF Desc(b).fixup /\ k = Desc(b).bits - 1 THEN Len(desc) ELSE k
\* the multiplier of position k; the larger last block is put last again
Multiplier(b, k) ==
  IF Desc(b).fixup /\ k = Desc(b).bits - 1 THEN Len(desc) - 1 ELSE k

ComputeSi(h, i) ==
  LET b     == NextCursor(h, i)[1]
      l     == NextCursor(h, i)[2]
      local == l \div Desc(b).bits
      mult  == Multiplier(b, l % Desc(b).bits)
      hit   == local = cachedI[h]
  IN /\ bIdx' = [bIdx EXCEPT ![h] = b]
     /\ lIdx' = [lIdx EXCEPT ![h] = l + 1]
     /\ cachedI' = [cachedI EXCEPT ![h] = local]
     /\ inOrder' = [inOrder EXCEPT ![h] = IF i = @ THEN i + 1 ELSE -1]
     \* a row that is not in the cache is returned without its multiplier
     /\ out' = [thread |-> h, i |-> i, row |-> local, block |-> IF hit THEN mult ELSE 0,
                ordered |-> inOrder'[h] # -1]

\* Si_test: the main thread, before the loop
SiTest ==
  /\ pc = "sitest" /\ next[0] < siRows
  /\ ComputeSi(0, next[0])
  /\ next' = [next EXCEPT ![0] = @ + 1]
  /\ UNCHANGED <<pc, m, team, siRows, sizes, lst, owners, consumed, fixup, desc>>

StartLoop ==
  /\ pc = "sitest" /\ next[0] >= siRows
  /\ next' = [h \in 0 .. team - 1 |-> FirstRow(m, team, h)]
  /\ pc' = "loop"
  /\ UNCHANGED <<m, team, siRows, sizes, lst, owners, consumed, fixup, desc, bIdx, lIdx, cachedI, inOrder, out>>

\* one row of the parallel loop
Row(h) ==
  /\ pc = "loop" /\ next[h] < FirstRow(m, team, h + 1)
  /\ ComputeSi(h, next[h])
  /\ next' = [next EXCEPT ![h] = @ + 1]
  /\ UNCHANGED <<pc, m, team, siRows, sizes, lst, owners, consumed, fixup, desc>>

Stopped ==
  /\ \/ pc = "failed"
     \/ pc = "loop" /\ \A h \in 0 .. team - 1 : next[h] >= FirstRow(m, team, h + 1)
  /\ UNCHANGED vars

Next ==
  \/ Describe \/ DescribeLast \/ DescribeNothing \/ SiTest \/ StartLoop \/ Stopped
  \/ \E h \in 0 .. team - 1 : Row(h)

Spec == Init /\ [][Next]_vars
-----------------------------------------------------------------------------
Described == pc \in {"sitest", "loop"}
\* Block sizes as m.list.block makes them for t of 24 and more: none is empty
\* and, up to the last one, none is larger than the one before.
Regular ==
  /\ \A k \in 1 .. Len(sizes) : sizes[k] > 0
  /\ \A k \in 2 .. Len(sizes) - 1 : sizes[k] <= sizes[k - 1]

(***************************************************************************)
(* The sizes are natural numbers that add up to m, and no thread's cursor  *)
(* leaves the table, whatever rows it is asked for: blocks(b_idx, ...) is  *)
(* an unchecked access to an R matrix.                                     *)
(***************************************************************************)
TypeOK ==
  /\ pc \in {"describe", "sitest", "loop", "failed"}
  /\ m \in Nat /\ team \in Nat \ {0} /\ siRows \in Nat
  /\ consumed \in Nat /\ fixup \in BOOLEAN
  /\ \A k \in 1 .. Len(sizes) : sizes[k] \in Nat
  /\ SumFunction(sizes) = m
  /\ Described =>
       /\ \A h \in 0 .. team - 1 : bIdx[h] \in 0 .. Len(desc) - 1 /\ lIdx[h] \in Nat
       /\ out.block \in 0 .. Len(sizes) - 1

(***************************************************************************)
(* The table of blockdes.r matches the blocks.  Its descriptors are the    *)
(* blocks cut the other way: their row ranges follow each other up to m,   *)
(* and the iterations of those a block takes part in add up to its size.   *)
(* And the multiplier, a position in the list of blocks left, is the       *)
(* number of the block whose row it is, with the fixup for a larger last   *)
(* block: true when there are as many descriptors as blocks and the first  *)
(* block is not smaller than the last ("The routine assumes that lst[1] >  *)
(* lst[length(lst)]", blockdes.r 48).  Blocks of equal size share a        *)
(* descriptor, and nrow - 1 is then no longer the last block.              *)
(***************************************************************************)
Serving(b) == [k \in 1 .. Len(desc) |->
                IF \E p \in DOMAIN desc[k].owners : desc[k].owners[p] = b THEN desc[k].iter ELSE 0]
DescriptorsServeBlocks ==
  /\ \A k \in 2 .. Len(desc) : desc[k].highest > desc[k - 1].highest
  /\ desc[Len(desc)].highest = m
  /\ \A b \in 0 .. Len(sizes) - 1 : SumFunction(Serving(b)) = sizes[b + 1]
MultiplierNamesBlock ==
  Len(desc) = Len(sizes) /\ sizes[1] >= sizes[Len(sizes)] =>
    \A b \in 0 .. Len(desc) - 1 : \A k \in 0 .. Desc(b).bits - 1 :
      Multiplier(b, k) = Desc(b).owners[k + 1]
TableMatchesBlocks ==
  pc = "sitest" /\ Regular => DescriptorsServeBlocks /\ MultiplierNamesBlock

(***************************************************************************)
(* For a thread that is asked for rows 0, 1, 2, ... the cursors are where  *)
(* the table says: the row and the block of call i are those of place      *)
(* i - low of its descriptor.  The second thread of a team starts with     *)
(* row m/2 and gets rows from the beginning, as does the main thread when  *)
(* Si_test has moved its cursors before the loop.                          *)
(***************************************************************************)
Low(b) == IF b = 0 THEN 0 ELSE Desc(b - 1).highest
Contains(b, i) == Low(b) <= i /\ i < Desc(b).highest
RowsByTable ==
  Regular /\ out.ordered =>
    \E b \in 0 .. Len(desc) - 1 :
      /\ Contains(b, out.i)
      /\ out.row = (out.i - Low(b)) \div Desc(b).bits
      /\ out.block = Multiplier(b, (out.i - Low(b)) % Desc(b).bits)
=============================================================================
