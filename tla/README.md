# A TLA+ model of libtrevisan

libtrevisan extracts nearly uniform bits from a weak random source with
Trevisan's construction.  One program, `extractor`, reads weak data and a seed
(from files, from a pseudo-random generator or, with `--stream`, from TCP
clients), computes one output bit per row of a weak design with a 1-bit
extractor, and writes the bits to a file or sends them to a client.  This
directory holds TLA+ modules translated from the sources, the TLC
configurations that check them and machine-checked proofs about the loop that
produces the bits, the streaming session, the parameters of a round, the blocks
of the output, the weak designs, the 1-bit extractor and the seed.

File names and line numbers below are those of `src/`.

## 1. The system

| Component | Files | State | Operations | What makes it correct |
|---|---|---|---|---|
| Dispatcher | `extractor.cc` (`dispatch`, `parse_cmdline`) | `struct params`, kept over all streaming rounds | derive `m`, `m_req`, `blk_des` from a request; entropy check; start a round | the output is covered by the entropy; a round depends on its own command only |
| Block design | `extractor.cc` (`gen_blk_design`, start of `trevisan_dispatcher`) | vectors `mi`, `base_mi`, count `a` | cut `m_req` bits into blocks of shrinking size, refit the tail | blocks divide the output, sizes never increase, tables are not overrun |
| Extraction loop | `extractor.cc` (`trevisan_dispatcher`, `trevisan_extract`) | shared `extracted_rand`, per-thread row, block, seed offset | OpenMP loop over rows, atomic OR of a bit, write the result | whatever the schedule, the result is the reference string |
| Weak designs GF(p), GF(2^n) | `weakdes_gfp.cc`, `weakdes_gf2x.cc` | `t`, `deg`; coefficients of a row; irreducible polynomial | `set_params`, `compute_Si`, Horner's rule | index sets overlap little, indices stay inside the seed |
| Streaming session | `stream_ops.cc`, `stream_tst_data.c` | three sockets, buffers, the clients' blocks | identify clients, request command, data and seed, send output, acknowledge | requests and replies stay in step; data and seed of a round are its own; one end ends all |
| RSH 1-bit extractor | `1bitext_rsh.cc` | coefficients of a polynomial, the words of the result | build them from the weak data, evaluate, take the parity | coefficients divide the data, the bit is the inner product of the polynomial's value and the seed |
| Seed supply | `split_seed_pool.cc`, `extractor.cc` (`rd_ascii_bit_file`, `part_mask`), `prng.hpp`, `bitfield.hpp` | the pool file, `initial_rand_vector` | cut a seed off the pool; load it from file, client or generator; read its bits | no seed bit is used in two experiments; the words hold the seed and nothing else; all of it is read |
| Block weak design | `weakdes_block.cc`, `blockdes.r` | table of descriptors; per-thread cursors and cache | build the table, `compute_Si` | linked, but never created (extractor.cc:748); the table cuts the blocks exactly; the cursors agree with it |
| Ahead-of-time design | `weakdes_aot.cc` | shared file position | `compute_Si` | created by `-w aot`, undefined from its first read, see section 7 |
| XOR and Lu extractors | `1bitext_xor.cc`, `1bitext_expander.cc` | | | refused by `dispatch` |
| Helpers | `utils.hpp`, `R_interp.cc`, `ossl_locking.cc`, `timing.cc`, `gen_irreps.cc` | | | |

How they interact.  `dispatch` calls the session for a command and weak data,
derives the parameters, builds extractor and design, and calls
`trevisan_dispatcher`, which sizes and fills the block tables, gets the seed
from the session (or file or generator), runs the parallel loop and hands the
result to the session or the file; with `--stream` it then starts over with the
same `params`, sockets and data vector.  The threads of the loop share the
result array and read the tables, the seed and the design.

What is hard here: threads that share a word of the result; a byte stream
whose pieces are not the messages; the end of one of four processes; state that
outlives its round (`params`, `si_tst`, the data vector) or belongs to a thread
instead of a row (the block design's cursors); rounding and integer division in
the geometry of the blocks and of the design; three orders of the bits of a
word.
`PROJECT.json` lists these hazards with their lines and the properties on them.

## 2. Modules

```
OutputLayout          geometry: rows, blocks, positions, reference string
  ExtractOnce         abstract: one step per round
  ParallelExtract     the OpenMP loop            -> implements ExtractOnce
    ParallelExtractProofs                           theorems
StreamRounds          abstract: take, deliver, acknowledge
StreamSession         server and clients         -> implements StreamRounds
  StreamSessionProofs                               theorems
BlockDesign           gen_blk_design             (computes what OutputLayout assumes)
  BlockDesignProofs                                 theorems
FieldDesigns          the weak designs over GF(p) and GF(2^n)
  FieldDesignsProofs                                theorems
WeakDesignBlock       the block weak design and its table
  WeakDesignBlockProofs                             theorems
RSHExtract            the 1-bit extractor
  RSHExtractProofs                                  theorems
ExtractorParams       dispatch's parameters over the rounds
  ExtractorParamsProofs                             theorems
SeedSupply            the seed, from the pool to get_bit
  SeedSupplyProofs                                  theorems
MC*                   instances for TLC
```

In every module a few operators named in comments as "a slip" stand just before
the definition they could be mistaken for (`StoreInto` before `OrInto`, say).
No specification uses them.  Each is a plausible error in the code the
definition translates; with the slip in the definition's place TLC finds the
property violated that `PROJECT.json` pairs it with, which shows that the
property depends on that piece of code.

### ParallelExtract, ExtractOnce, OutputLayout

`words` is `extracted_rand`, as the set of bits at 1 in each word; `todo` the
rows of the loop no thread has taken; `pc[t]`, `row[t]`, `blk[t]`, `seedBase[t]`
a thread's place in `trevisan_extract` with its variables `i`, `a` and
`cur_seed_base`.  `TakeRow` lets any idle thread take any row, which covers all
OpenMP schedules.  `ExtractBit` is the call of the 1-bit extractor, and
`Update` the atomic OR; between them other threads run.  `Publish` is what
follows the barrier.  The 1-bit extractor with data and seed of a round is an
arbitrary set `ones` of (row, seed offset) pairs, chosen at `BeginRound`: the
loop must be right for every such function.  `--skip-bitext` is `ones = {}`.

`OutputLayout` states what the loop needs of the block tables as an
assumption, `LayoutOK`; `BlockDesign` checks of the code that fills the tables
that it delivers this from six output bits on (`BlocksDivideOutput`,
`EveryBlockReached`).  The single-block branch (`a = 0`, `mi[0] = m_req`)
satisfies it trivially.

### StreamSession, StreamRounds

A connection is two sequences of bytes, a byte being "byte k of message m", so
a receiver that lost its place would be seen to misread.  `spc` walks through
`start_server`, `socket_get_request_data_bits` and
`socket_send_output_data_bits`; `cpc[c]` through `start_client` and
`socket_send_response_data_bits`.  Every `send` and `recv` is an action of its
own; the loops take any number of bytes the call may return; headers are one
`recv` of exactly the header's length, or the process exits.  `fragment`,
chosen once, says whether headers may arrive in pieces in this behaviour;
`dryRun` whether the server was started with `--dryrun`, in which case
`trevisan_dispatcher` returns before it asks for a seed and every round is a
command and its data (`AfterData`).
`ServerExits` and `ClientExits` close the connections; unread bytes may take
with them what the process had sent (a reset).  Errors of local calls
(`socket`, `bind`, `calloc`) end a process just like a kill and are covered by
`KillServer` and `KillClient`.

`StreamRounds` names data and seeds by generation numbers: a round takes a
fresh pair, delivers the output computed from this pair, and has it
acknowledged before the next pair is taken.

### BlockDesign

`Grow`, `Close`, `Refit` and `LastBlock` are the turns of the two loops of
`gen_blk_design` and what stands between and after them.  Doubles become
integers in thousandths (`S = 1000`, `R = 2718` for e).  An `at()` past the
tables and a division by zero end in `pc = "failed"`.  `InitialA` is the set
holding the one value of `a`, so that a proof need not show that it exists.

### FieldDesigns

`type` is the class `alloc_init_weakdes` created.  `SetParams` computes the
degree, allowing for both results of the floating-point quotient at exact
powers; `DigitGFP` and `DigitGF2X`, `HornerStep`, `PushGFP` and `PushGF2X`, and
`EndRow` are the loops of the two `compute_Si` as `Si_test` and the parallel loop
drive them.  `design` remembers the rows.  The degree is computed with `Power`, a
recursive function that can be proved about as `^` cannot.  Elements of GF(2^n) are integers as in
the code: `Xor` adds them bit by bit, `Shifted` and `Products` are the variables a and t of
`gf2n_mult` after each turn of its loop.  `minweight_primpoly`, the table of
gf2n.h, is a constant; `TableAssumption` says that the entry for the field of
each `t_requested` is a polynomial of its degree.

### RSHExtract

`StartSegment`, `CopyBit` and `EndSegment` are the loops of
`create_coefficients` and `build_ext_poly_seg`, with their positions `wrd`,
`loc` in the input words and `vecWrd`, `vecLoc` in the byte buffer `vect`, which
is kept from one coefficient to the next.  `Extract`, `HornerTurn` and `Hadamard`
are one call of `extract`, for every sub-seed.  Numbers are sets of exponents, so
addition over GF(2) is the symmetric difference.  The OpenSSL operations are
modelled from their use, with one detail of the library: `BN_GF2m_add` writes
as many words as its longer operand has and leaves words above as they are.
`held` is what all `dmax` words of the result hold, `res` its value.

### ExtractorParams

One action per stage of `dispatch`: `GetCommand`, `Derive` (its three cases
`TakeAll`, `FitsWeakDesign`, `NeedsBlocks`), `Refuse`, `CheckEntropy`, `Extract`
or `DryRun`, `NextStream`.  Bits are counted in thousandths, `loss` is
4 log2(1/eps) + 6.  `parse_cmdline` refuses an eps above 1 (extractor.cc:682), so
the session starts with a loss of at least 6; the eps of a command is taken as it
is (stream_ops.cc:375), so `loss` may be any integer afterwards.  With a negative one
`compute_k` may convert a negative double to an unsigned number, which is undefined;
`Insufficient` then allows both outcomes of the check.

A command `holds` some of its parameters: without `m` all
is taken, without `e` or `b` the values of an earlier round stay, without `a` or
`n` and at an unknown letter the server exits.  `watched` and `outcome` remember what one arbitrary command
led to, so that rounds can be compared.

### WeakDesignBlock

`Describe`, `DescribeLast` and `DescribeNothing` are the recursive calls of
`compute.descriptor` in `blockdes.r`, started from `BlockSizes`
(`m.list.block`).  `ComputeSi` is one call of `compute_Si` with its cursors
`bIdx` and `lIdx` and the cached row's number, which live per thread; `SiTest`
and `Row` are its callers, the rows dealt to threads as OpenMP's static
schedule does.  `owners` remembers whose rows a descriptor stands for, so that
the table can be compared with the blocks it was made from.  `NumBlocks`, the
number of times a size above 1 shrinks, is chosen from 1 to `rows * S`: a size
is counted in units of 1/S and each shrinking takes one unit or more away.

### SeedSupply

Bits have names instead of values, so that it can be seen where each goes: a
character's place in the pool, or a delivered bit's number.  `StartSplit`,
`CopyChar` and `EndSplit` are a run of `split_seed_pool`; the remainder is the
pool of the next run.  `ReadChar` and `EndRead` (`rd_ascii_bit_file`),
`Receive` (`stream_get_seed_bits`) and `Create` (`prng`) fill `words`, `Mask`
is `part_mask`.  `GetBit` reads them as `bitfield<unsigned int, uint64_t>` does
on a little-endian machine.

## 3. Runs

| Run | States | Shows |
|---|---|---|
| `extract` | 118 529 | The published string is the reference string, nothing wrong is ever in the words, threads never aim at one position, every round ends; the loop implements `ExtractOnce`, liveness included. |
| `session` | 181 274 | What is read as a reply is the reply due, exchanges alternate, nobody ends without a cause, rounds complete, dry runs included, one end ends all; the session implements `StreamRounds`. |
| `blocks` | 5 824 | Blocks divide the output; from 6 bits on sizes never increase; the rows of the loop reach all of the first block; the tables suffice from 20 bits on. |
| `designs` | 53 840 | One subtraction suffices in Horner's rule over GF(p); indices stay in their column and below t * t, overlaps are at most the degree, the weak-design sum holds with r = e over GF(p) and 2e over GF(2^n), e rounded up to 2.719, GF(p) uses seed bits evenly, the seed is long enough. |
| `rsh` | 142 680 | The coefficients divide the input, Horner's rule computes the polynomial's value, the bit is the inner product of value and seed when the coefficient added last is a full one; no store leaves the buffer. |
| `params` | 2 387 160 | What is extracted is covered, whatever commands lacked; the entropy check never fires where `compute_k` is defined; equal complete commands lead to equal rounds. |
| `block_rows` | 274 086 | The descriptors cut the blocks exactly and name the right block; the cursors follow the table for a thread that computes rows in order. |
| `seeds` | 265 360 | No character is in two seeds; the words hold the seed in order; what an extraction reads is a seed bit or 0, never the same one twice, and all of them if `d_tot` fills its words. |
| `seed_tail`, `seed_blocks`, `overlap_gf2x`, `stale_words` | | Violations, see section 6. |

Bounds and why they are enough.

* `extract`: two threads, three blocks of 2, 1 and 1 rows and one row beyond
  all of them, words of two bits.  Two rows of different threads share a word,
  a word holds the end of one block and the start of another, a row ends at the
  first block without it and at the last block; rounds repeat.  The theorems of
  section 5 remove these bounds for the safety properties.
* `session`: four clients, one of them a second data client that may or may
  not be started; headers of 2 bytes, at most 3 bytes per call, 4 bytes in
  flight, payloads of 1, 2, 1 and 4 bytes: the output takes more than one call
  and does not fit into the connection together with its header.  One process
  may be killed.  Generation numbers modulo 2: `StreamRounds` only compares a
  generation with its neighbours.
* `blocks`: all lengths 1 to 150, three larger ones, five primes on both sides
  of the first block's size.
* `designs`: `t_requested` 2, 4 and 6 (t = 2, 5, 7 over GF(p) and 2, 4, 8
  over GF(2^n): equal to and above the request), numbers of rows around the
  powers of `t_requested` and of `t`, and one row, where the degree is undefined
  in C++.  Up to 6 digits and both sides of every change of the degree.
* `rsh`: words of 2 bits and chars of 2 bits stand for 64 and 8; l from 1 to 4 is
  below, at and above a char and a word; n from 2 to 6 is divided by l or not,
  with one to six coefficients.  All inputs and all sub-seeds of these lengths.
* `params`: entropies and losses that leave less than nothing, no row, 2 and 4
  rows, and, with an eps above 1, 5 to 10 rows and a `compute_k` that is undefined;
  lengths on both sides of each limit; commands that are complete, lack
  some of their parameters, lack the entropy, or hold an unknown letter.
* `block_rows`: t of 24 with every m from 24 to 60, larger t with tables of
  eleven and more different blocks, t of 12 where blocks are empty or grow, and
  m = 158, t = 30, where no block is left for the last call of the script; one
  thread and two, with and without five rows of `Si_test` before.
* `seeds`: words of 8 bits in chunks of 4 stand for 64 and 32; pools of 1, 18 and
  30 characters, some of them neither 0 nor 1, at the start, at the end of a
  word and at the end of a seed; seeds of 1, 8, 9 and 17 bits, and totals below,
  at and above one word and two, with the rest in the lower and in the upper
  chunk.  Experiments repeat until the pool is used up.

## 4. Fairness

Only `ParallelExtract` and `StreamSession` have liveness properties.  In the
first, every thread of the team keeps running (`WF(ThreadStep(t))`) and so does
the master after the barrier (`WF(Publish)`): the operating system schedules
runnable threads, and no step of the loop waits for another thread.  Nobody is
obliged to start a round.  In the second, each started process keeps running
(`WF(ServerStep)`, `WF(ClientStep(c))`): a process blocked in `recv` or `send`
is not enabled until bytes or room arrive, and TCP delivers what was sent.
Nobody is obliged to start a client or to kill a process.

## 5. What is proved

`ParallelExtractProofs` proves, with tlapm and for every number of threads,
word size, layout with `LayoutOK` and answer of the 1-bit extractor:

* `TypeCorrect`: no store leaves the allocated words or a word's bits;
* `OutputCorrect`: a published string is the reference string;
* `PartialResultsCorrect`: the words never hold a wrong 1;
* `TargetsDistinct`: no two threads are about to update the same position;
* `ImplementsSafely`: initial states and steps of the loop are those of
  `ExtractOnce` or stutter.

None of the properties is inductive.  The invariant is
`Inv == TypeOK /\ ThreadsOK /\ WordsOK /\ OutOK`.  `ThreadsOK` says where
threads can be: working only while the loop runs, on rows nobody else works on
and that are no longer in `todo`, with `seedBase` in step with `blk`.
`WordsOK` says that the words, unpacked, hold exactly the answers of the (row,
block) pairs that are done, `Done` being defined from `todo` and the threads'
places.  `OutOK` says that what was published is still what the words hold.
The proof has one lemma per action.  Its core is `OrIntoAdds` (an OR adds its
own position and no other, because positions and cells correspond one to one)
and `NextBlockDone` (moving on completes exactly one pair).  When nothing is
left to do every pair is done, and `WordsOK` becomes equality with the
reference string.  The assumptions used are the types of the constants and
`LayoutOK`.

`ExtractorParamsProofs` proves, for all entropies, lengths, losses (any integer, also
the negative ones of an eps above 1), rates and sequences of commands, complete
or partial: `TypeCorrect` (no unsigned field
becomes negative), `Coverage` (`ExtractionCovered`: the output, with the cost of eps, is
no more than the entropy), `CheckRedundant` (`EntropyCheckRedundant`, wherever
`compute_k` is defined) and `RoundsIndependent` (`SameCommandSameRound`).  The
invariant adds to the types what is known at each stage: `NothingLeft` is false
and the limits hold from `Derive` on, because `loss` and `k` change only with
the next command.  The last theorem needs that the outcome of a complete
command is a function of the command, which the invariant states of the stages
in between.  Assumptions: units are positive and r > 1.

`BlockDesignProofs` proves `BlocksDivide` (`BlocksDivideOutput`) for every
length, prime and scale with 1 < r <= S.  That the blocks follow each other is
kept by every turn (`Chained`); that they end exactly at `m_req` needs that the
last block starts before it.  This is the geometric series: `Budget` bounds
what the partial sum can still grow by if every later term shrinks by
(r - 1) / r or more, so rounding each term down keeps it.  In the refit,
`sumA >= Threshold * (newA - i)` says that enough bits are left.

Three further theorems of this module depend on numbers and therefore on
hypotheses, stated at the end of `BlockDesign`.

* `TypeCorrect` (`TypeOK`), for r <= 3: bits left, block counts and sizes are
  natural numbers (`NaturalSizes`).
* `BlocksReached` (`EveryBlockReached`).  `Regular` keeps, up to a_pt, sizes that
  decrease and reach the threshold, the last one within a bit of the exact term
  of the series; what follows a_pt has enough bits for two more blocks (`TailLeft`),
  which is where the refit would start with a block larger than the one before.
  `sumA < Threshold * (newA - i + 1)` then says that a refitted block is at most
  one larger than the threshold, and the remainder is spent on the first ones.
* `DivisionEnds` (`DivisionCompletes`).  `Keeping` bounds the series from below: the
  partial sum with its remaining budget loses no more than r per turn to
  rounding, and the current term is within r of the one `InitialA` counts with
  (`Shrunk`).  So a_pt is set before the a blocks are used up, and the bits after it
  are no more than threshold times the elements left.

The hypotheses: `RatioNearE` (2.7 <= r <= 2.72 in units of 1/100 or finer), the code's
`params.pp.r = M_E` (extractor.cc:656); `FewBlocks` (a is at most
1.5 t_pri) and `FiveIndices` (t_pri >= 5).  The code computes a as
log(m_req - r) - log(t_pri - r) over log r - log(r - 1), about 1.51 times the
binary logarithm of m_req / t_pri, and t_pri is no smaller than the
`num_random_bits` of the 1-bit extractor, which is at least the number of bits
that address an input no shorter than the output: 2 l with l of that order for
RSH, l numbers of numbits(n - 1) bits for XOR.  Without them the properties fail:
TLC finds sizes that increase for t_pri = 1 and, from 500 bits on, for t_pri = 3
and 4, and a division that does not complete for t_pri = 1 and 2.
`MCBlockDesign` assumes the hypotheses of its instance, so that TLC evaluates them.

`FieldDesignsProofs` proves of both designs, for every prime, power of two, number
of rows and of indices: `TypeCorrect`, `ColumnsKept` (`IndicesByColumn`),
`SeedLongEnough` (`SeedSuffices`), `OverlapBounded` (`SmallOverlap`) and
`WeakDesignHolds` (`WeakDesign`), and of what only GF(p) promises `OneSubtraction` (`OneSubtractionSuffices`) and
`UsedUniformly` (`UniformUse`).

Over GF(p) there are two invariants.  `Inv` has one bound per loop of
`compute_Si`: digits below t, what Horner's rule leaves below 2t - 1, the x-th
index in column x (`InColumn`), also in the finished rows.  `PolyInv` says what
the loops compute (`RowsArePolynomials`): after k turns the digits loop has cut
off k digits of the row number, Horner's loop is congruent modulo t to k turns
of the rule on these digits, and every index is t times its column plus the
value there of the polynomial of its row, `Value`.  `DegreeOK` adds that the
degree, computed from t_requested, leaves a different polynomial for every
row (m is at most the power t^(deg + 1)).

On top of that stands the algebra the comments of `weakdes_gfp.cc` appeal to: a
prime that divides a product divides a factor (`Euclid`); the values Horner's
rule goes through at c are the coefficients of the quotient by x - c
(`DividedByLinear`); so a polynomial that is not zero modulo t has no more roots
there than its degree (`RootsBounded`), and two rows, whose coefficients differ in a
digit, have at most deg values in common (`FewCommon`).  That every bit of the used
columns is drawn equally often holds because the lowest digit of the row number
is the constant coefficient (`LowestDigit`): for given higher digits, which t
consecutive rows share, it takes exactly one row to each value (`OneRest`), so a
bit is in one row of each t, and `OnePerBlock` counts them.

Over GF(2^n) the invariant is `InvX` (`RowsArePolynomialsX`): after k turns the
vector holds deg + 1 zeros and the k lowest digits of the row number, cut out by a
mask (`QuotientByPower`); Horner's loop stays at 0 over the zeros and is then at
`HornerX`, the rule with the sums and products of gf2n.h; every index is the
element plus t times the value there of the row's polynomial, `ValueX`.  What these
sums and products are is proved from the bits.  Two numbers with the same bits
are equal (`SameBits`), the bits of `Xor` are those of its arguments added modulo
2 (`XorBit`), so it commutes, associates and stays below 2^n; doubling with
reduction does too and distributes over sums (`TimesXElement`, `TimesXAdds`: the
polynomial's highest bit cancels the one shifted out), and with it the whole product
(`MultAdds`, `MultAddsFactors`, `MultCommutes`).  That is enough ring for the
argument above, with `Xor` for both sum and difference: `DividedByLinearX`,
`RootsBoundedX`, `FewCommonX`.

`WeakDesignHolds` (`WeakDesign`) is the property the designs exist for: for every
row, the earlier ones weighted by two to the overlap sum to at most e * m, over
GF(2^n) to 2e * m, with e rounded up to thousandths.  Two to an overlap is the
number of sets of common columns, so the sum counts pairs of an earlier row y and
a set A of columns common to it and row x (`WeightCounts`).  The proof groups the
rows y below x by the highest digit in which they differ from x (`FirstAt`).  In the
group of digit n, the difference of the two rows is a polynomial of degree n that
vanishes on A, no two alike, and one coefficient of it, the one that digit n gives,
has only as many values, none of them 0, as x has in digit n, since y's is smaller
(`SmallerDigit`, `EachDifferenceGFP`, `EachDifferenceGF2X`).  How many polynomials with a given
range for that coefficient vanish where is counted point by point: dividing by a
root is one-to-one and leaves a coefficient with as many values (`Division`,
`CountDivided`), so that each point at most adds a part in b, and over a set of up
to b points there are at most (1 + 1/b)^b pairs for each polynomial
(`CountVanishing`).  That is below 261/96, five terms of the series of e and
the bound for the rest (`BelowE`).  The groups add up to x, digit by digit
(`CountPairs`).  Over GF(2^n) the coefficient is the constant one, because the
digits run the other way; dividing by x + p multiplies it by p, which tells its
values apart for p # 0 only, and the column of 0 is left to double the count
(`OneMoreColumn`): the 2e of the comment in `weakdes_gf2x.cc`.

The one thing the theorems on overlaps and weights assume is `NoZeroDivisors`, that no two elements
but 0 have product 0, where GF(2^n) designs may be made: the polynomials of the
table, "primitive" by the comment gf2n.h:8, are irreducible.  `MCFieldDesigns` assumes it
of its instance and of all fields up to n = 7 (t = 128), so that TLC evaluates
it; larger fields rest on the table.  The other theorems need the degrees
of `TableAssumption` only.

`StreamSessionProofs` proves of the session, for every set of extra clients,
number of kills, length of header, payload, chunk and connection, and every
way in which `send` and `recv` cut the bytes:

* `TypeCorrect`: no loop passes the length that was announced, no connection
  holds more than it can, and a role is served by a client or by nobody;
* `ReplyAlwaysFits` (`ReplyFitsRequest`): what the server has read of a payload is
  the beginning of the reply due: the next block of the client it asked, no byte
  missing, repeated or out of place, and as long as it asked for;
* `LockstepKept` (`Lockstep`);
* `NobodyExitsAlone` (`NoSpontaneousExit`): if no header is cut, nobody is killed
  and no second client claims a role, nobody leaves by an error exit;
* `SessionImplementsRounds` (`ImplementsStreamRounds`): every step is one of
  `StreamRounds` or a stutter there.

The invariant says of each connection which bytes of which message are on
their way and which of them each end has seen.  All connections but one are
silent (`Silence`); on the one in use the request is on its way, or the client
has taken it and is somewhere in its reply (`Exchange`), or the output or its
acknowledgement is (`Handover`).  `Round` and `Offers` tie this to the
generations: what a client will send next is one generation behind or at what
the server has used.  After the end of the server only what clients may still
find in their connections matters (`Aftermath`).  There is one lemma per
receive and send.  `SessionAssumption` gives the constants their types and says
that a header fits into one chunk, a chunk into the connection, and that the output
is no shorter than a header (section 7).

`SeedSupplyProofs` proves `SeedsDisjoint` (`PoolAccounted`) for every pool and
every sequence of runs: `InputOK` says that the input is always the end of the
pool, `SpentOK` that seeds and dropped characters are exactly its beginning,
each once, and `DroppedOK` that the run in progress has dropped none yet.  Then,
for every word and chunk size and every source, `TypeCorrect`, `LoadedRight`
(`LoadedInOrder`) and `AnswersRight` (`AnswersAreSeedBits`).  `LoadInv` adds
where the reading of the seed file stands (what is unread is its end, the words
hold the `cnt` bits before it) and what a client or `rand()` has put into the
words before `part_mask`.  That an index is answered by one bit and no two by
the same is arithmetic: `Mirror` turns the bits of a word around and is its own
inverse, and chunks divide words (`WidthAssumption`).

`RSHExtractProofs` proves for every input, length of coefficients and width of
words and chars, aligned or not: `TypeCorrect` (no read past the input and no
store past the byte buffer), `SegmentsCovered` (`SegmentsCoverInput`),
`InnerProduct` (`InnerProductIfFull`) and `PolynomialEvaluated`
(`PolynomialValue`).  `LayoutInv` says that the four positions
follow from the one loop counter and that the buffer holds exactly the bits of
the segment copied so far; bits that an earlier coefficient left would show up
there.  `CallInv` says that `held` is `res` and whatever an earlier, longer sum
left above it, and that nothing is left above it when the last coefficient
added is as long as a field element.  `ParamsAssumption` asks that a word holds
a whole number of chars and that the polynomial has degree l.

`PolynomialEvaluated` rests on the arithmetic of polynomials over GF(2) as sets
of exponents.  `TimesSteps` gives the product by one more exponent; from it,
by induction over exponents, come that products distribute, commute and
associate.  `Same` says that two numbers differ by a multiple of the
irreducible polynomial; sums and products respect it (`SamePlus`, `SameTimes`),
two numbers of l bits that are the same are equal (`SameShort`), and the
division steps of `Mod` end below l and stay the same (`ModBelow`, `ModSame`).
The invariant `HornerInv` is then that `res` is the same as the sum, over the
coefficients taken so far from the highest down, of the coefficient times a
power of the point; the powers in it are not reduced, so that the invariant
speaks of no remainder, and `ValueSame` passes to the reduced powers of `Value`
when all coefficients are in.  Nowhere is the polynomial used to be irreducible.

`WeakDesignBlockProofs` proves, for every m and t with m >= t > e, every team and
number of rows tested before:

* `TypeCorrect`: no call of `compute_Si`, in any order, moves a cursor past the
  table, which `compute_Si` reads without a check;
* `TableMatches` (`TableMatchesBlocks`) and `RowsRight` (`RowsByTable`), both for
  block sizes that are positive and do not grow before the last block
  (`Regular`), as the properties say.

`TableInv` is what holds of every table: descriptors and blocks left are never
more than blocks, and the rows described with those left are at least m, because
a call of `compute.descriptor` takes as much from each block as it adds to the
table and leaves a block out.  A block smaller than the amount taken, which sizes
that grow can bring about, makes the table reach past m and never short of it;
so the search of a row below m ends inside it.  `RegularInv` adds the accounts
of each block (`Served`: what descriptors with it in their owners serve, and what is left
of it, make its size), the names of the positions when every call leaves out
one block (`Named`), and where a thread's cursors are after a call in order
(`At`).  That the loop over the blocks and the sums over a list come out as
defined is proved by induction over finite sets (below).

### How the proofs handle data

The library's induction theorems take a predicate as a parameter and cannot be
used.  `WeakDesignBlockProofs`, `RSHExtractProofs` and `FieldDesignsProofs` get induction
from what the prover can use: a nonempty set of natural numbers has a least element
(`LeastElement`), so a set that holds 0 and is closed under +1 holds all
(`Induct`), and a recursively defined function exists and is what its equation
says (`Recursion`).  The folds of the community modules are recursive functions
of the same kind over finite sets; `FoldExists` and `SumSplit` make of them a sum
term by term.  The bound on roots is an induction over the degree, its hypothesis
quantified over all polynomials of that degree.

### Only model-checked

* Liveness and fairness: `RoundsFinish`, the fair part of
  `ImplementsExtractOnce`, `RoundsComplete`, `ServerEndStopsClients` and
  `ClientEndStopsServer`.  The prover has no rules for WF and ENABLED.
* The four runs of section 6 that end in a violation.

## 6. Disagreements found

* `seed_tail`: the seed is stored highest bit first and `part_mask` keeps the
  upper bits of a last word that is not full, but `get_bit` reads the lower
  bits of its chunks first.  With d_tot % 64 = r up to 32, the last r bits of the
  seed are never used and r indices always read 0.  Over GF(p) d_tot is
  (a + 1) * t_pri^2, hardly ever a multiple of 64.
* `seed_blocks`: blocks share seed bits, against the comment extractor.cc:253;
  the seed base advances by `t_req`, the drawn seed by `t_pri * t_pri`.
* `overlap_gf2x`: `weakdes_gf2x` gives the lowest digit of the row the highest
  coefficient, so that the overlap of its rows exceeds the r = e that `get_r`
  reports and `compute_k` uses; `weakdes_gfp` had the order changed.
* `stale_words`: the parity at 1bitext_rsh.cc:381 runs over all words the
  result ever had, not over those in use; when the last sum in Horner's rule is
  shorter than an earlier one, old words reach the bit.  For l = 69 this needs
  two numbers of 69 bits with the upper 5 bits zero.

Seen while modelling, without a run of their own: headers are read by one `recv` that must return all their bytes, and one that
TCP has cut ends the process (`fragment` in `StreamSession`, which
`NoSpontaneousExit` excludes); `-s -1` sticks to the first round's m
(extractor.cc:442-443, `Extract` in `ExtractorParams`); for 7 output bits and a
few other short lengths the refit writes past its tables (`DivisionCompletes`
holds from 20 bits on); the pseudo-random seed has bits 31 and 63 of every word
always 0, `rand()` having 31 bits; every run of `split_seed_pool` loses a
character between its two files; `weakdes_block`, which the
program never creates, starts the rows of its basic
design anew with every descriptor (weakdes_block.cc:97), returns a row it has
not cached without its multiplier (128), gives wrong rows to every thread but
the first and, after `-s`, to that one too, counts its blocks by the
descriptors, of which there are fewer when sizes are equal, and its R script
fails when the blocks left are all equal; with three output bits the
block sizes are 1, 0 and 2, so the third block's bits are never computed; with
fewer than two rows the degree of the design is a negative double converted to
unsigned (one row, or none when less than e bits are left: "Nothing can be
extracted" is printed only when nothing is left at all); the help text of `-s`
says that 0 implies m, where 0 disables the test and -1 implies m;
the eps of a command is not checked (stream_ops.cc:375), so that one of 3 or
more raises `max_entropy` above the entropy of the data and may leave
`compute_k` a negative double to convert; `-w aot` is accepted, although no file is
opened for it (nothing calls `set_file`) and its first read is undefined
(weakdes_aot.cc:77); `--ignore-entropy-violation` has no effect, because the stricter limits at
extractor.cc:941-949 are enforced before the check it disables
(`EntropyCheckRedundant`); `Si_test` calls seed usage other than n or n + 1
"not uniformly accessed" (extractor.cc:120), and a GF(2^n) design has such; the
OpenSSL build may place a short last coefficient a byte higher than the NTL
build (1bitext_rsh.cc:205, 207), although the two are kept for cross-checking
(53-58); the comment
stream_tst_data.c:4 says that killing a client leaves the rest hung, while
`ClientEndStopsServer` and `ServerEndStopsClients` show that all of them end
(in a dry run only the data client's end is noticed: nothing is asked of the
other two).

## 7. What is not modelled

* The NTL build of the RSH extractor and of the GF(2^n) design; the XOR and Lu
  extractors, which `dispatch` refuses (extractor.cc:902, 908) and whose classes
  do not implement the two-part `extract` of `1bitext.h`.  The parallel loop is
  checked for every answer an extractor could give.
* `weakdes_aot`: `-w aot` creates it (extractor.cc:760), but its `compute_Si` reads
  into the value of `indices[0]` as an address (weakdes_aot.cc:77), which is
  undefined from the first call on, and nothing writes its file any more
  (extractor.cc:344).  So it is reached, but has no behaviour to model.
* Of `weakdes_block` the parameters it hands on to the basic design.  The class is
  modelled as its callers would drive it: `alloc_init_weakdes` (extractor.cc:748) has
  no case for it, and `-w block` ends in "Unknown weak design type".
* Rounds of 32 output bits or fewer with the client of the repository:
  stream_tst_data.c:216, 234-239 writes the acknowledgement of 8 bytes into the output's buffer, which then has
  4.  `SessionAssumption` excludes it (`Hdr <= OutLen`); that client asks for a
  fixed 512 bits.  Clients other than the repository's are not modelled
  either: the server compares the announced length with its own buffer nowhere
  (256 bytes for a command, stream_ops.cc:342).
* An eps of 0 or less in a command, whose loss is infinite or no number.
* `R_interp` and `ossl_locking`: forwarding to libraries from one thread, and a
  table of mutexes that only the library takes.  `get_bit_range`, which only the
  refused extractors call.
* The tables of irreducible polynomials for OpenSSL, generated at build time:
  `Irrep` is a parameter.  Whether every first half of a sub-seed is a field
  element of its own depends on them and is not checked.
* Doubles: thousandths, with the branches floating point may take at exact
  powers in `Degrees`.
* Overflow of 64-bit products, memory that is never freed, timing, output to
  the terminal.
* The older client functions in `stream_ops.cc` (222-337, 568-604) that nothing
  calls.
* `m_req = mi[a] + base_mi[a]` (extractor.cc:364) changes nothing, by
  `BlocksDivideOutput`, and is not a step of any module.

## 8. Plan

Done: the loop, the session, block design, the designs over fields, the block
weak design, the RSH extractor, parameters, the seed supply; proofs about all
of them.  Next:

1. The composition of `SeedSupply` with `ParallelExtract`, so that the bits a
   row reads are those of the seed and not any function of row and offset.
