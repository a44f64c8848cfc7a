----------------------------- MODULE SeedSupply -----------------------------
(***************************************************************************)
(* Where the seed comes from and which of its bits are read.  A pool of    *)
(* random characters is used up over several experiments: split_seed_pool  *)
(* cuts the seed of one experiment off and keeps the rest for the next,    *)
(* trevisan_dispatcher loads the seed into 64-bit words, from that file,   *)
(* from the seed client or from rand(), and get_bit of bitfield.hpp reads   *)
(* the words as chunks of 32 bits on a little-endian machine.              *)
(* Bits are not 0 or 1 here but names: the place of a character in the     *)
(* pool, or the number of a bit as delivered; 0 is a bit that is never set.*)
(* White space, which >> skips, is no character here.                      *)
(***************************************************************************)
EXTENDS Integers, Sequences, FiniteSets, SequencesExt

CONSTANTS
  Pools,   \* pools; a character of a pool is "bit" or "other"
  Lengths, \* values of -n of split_seed_pool
  Totals,  \* values of d_tot
  W, C     \* bits per word of the seed and per chunk of the bit field

ASSUME WidthAssumption == C \in Nat \ {0} /\ W \in Nat \ {0} /\ W % C = 0
ASSUME SupplyAssumption ==
  /\ Pools \subseteq Seq({"bit", "other"})
  /\ Lengths \subseteq Nat \ {0} /\ Totals \subseteq Nat \ {0}

VARIABLES
  pc,        \* "start", "split", "read", "mask", "ready" or "failed"
  pool,      \* history: the pool before the first experiment
  input,     \* what is left to read of cin: places in the pool
  seedLen, cnt, \* -n, and bits counted by the loop that runs
  seedFile,  \* file_seed
  spent,     \* history: all that was ever written to a seed file
  dropped,   \* history: characters read from cin and written nowhere
  splits,    \* history: how often split_seed_pool has run
  source,    \* "file", "stream" or "random"
  d,         \* d_tot, bits of seed the extraction needs
  unread,    \* what is left to read of file_seed
  words      \* initial_rand_vector: bit W - 1 is the highest of a word

splitter == <<input, seedLen, seedFile, spent, dropped, splits>>
vars == <<splitter, pc, pool, cnt, source, d, unread, words>>

ZeroWords(size) == [w \in 0 .. size \div W |-> [loc \in 0 .. W - 1 |-> 0]]

Init ==
  /\ pc = "start" /\ pool \in Pools
  /\ input = [p \in 1 .. Len(pool) |-> p]
  /\ seedLen = 0 /\ cnt = 0 /\ seedFile = <<>> /\ unread = <<>>
  /\ spent = <<>> /\ dropped = {} /\ splits = 0
  /\ source = "file" /\ d = 0 /\ words = ZeroWords(0)
-----------------------------------------------------------------------------
(* split_seed_pool: copy_part_ascii_bit_file, then the rest of cin *)

IsBit(p) == pool[p] = "bit"
\* a slip: one bit too many
MoreInclusive(needed) == cnt <= needed
\* the condition of both copying loops, cnt < bits_needed
More(needed) == cnt < needed

\* the program is started on the pool or on the remainder of the last run
StartSplit ==
  /\ pc = "start"
  /\ seedLen' \in Lengths /\ cnt' = 0 /\ seedFile' = <<>> /\ splits' = splits + 1
  /\ pc' = "split"
  /\ UNCHANGED <<pool, input, spent, dropped, source, d, unread, words>>

\* one turn of the loop: other characters are copied too
CopyChar ==
  /\ pc = "split" /\ input # <<>> /\ More(seedLen)
  /\ cnt' = cnt + IF IsBit(Head(input)) THEN 1 ELSE 0
  /\ seedFile' = Append(seedFile, Head(input))
  /\ spent' = Append(spent, Head(input))
  /\ input' = Tail(input)
  /\ UNCHANGED <<pc, pool, seedLen, dropped, splits, source, d, unread, words>>

\* a slip: the loop reads on to the next bit before it sees that it is done
ReadAheadToBit ==
  LET bits == {k \in 1 .. Len(input) : IsBit(input[k])}
  IN IF More(seedLen) THEN 0 ELSE IF bits = {} THEN Len(input) ELSE CHOOSE k \in bits : \A j \in bits : k <= j
\* characters the loop has read when it ends: cnt is tested after the next one
ReadAhead == IF More(seedLen) \/ input = <<>> THEN 0 ELSE 1

\* the loop ends; what is left in cin becomes file_remainder, the next input
EndSplit ==
  /\ pc = "split" /\ (input = <<>> \/ ~More(seedLen))
  /\ dropped' = dropped \cup {input[k] : k \in 1 .. ReadAhead}
  /\ input' = SubSeq(input, ReadAhead + 1, Len(input))
  /\ source' = "file" /\ unread' = seedFile /\ cnt' = 0
  /\ d' \in Totals /\ words' = ZeroWords(d')
  /\ pc' = "read"
  /\ UNCHANGED <<pool, seedLen, seedFile, spent, splits>>
-----------------------------------------------------------------------------
(* trevisan_dispatcher: rd_ascii_bit_file *)

\* a slip: the lowest bit first, as get_bit reads
PlaceLow(k) == <<k \div W, k % W>>
\* the word and the bit of a word that bit k of the seed goes to
Place(k) == <<k \div W, W - 1 - (k % W)>>
SetBit(ws, place, label) == [ws EXCEPT ![place[1]][place[2]] = label]

ReadChar ==
  /\ pc = "read" /\ unread # <<>> /\ More(d)
  /\ IF IsBit(Head(unread))
     THEN words' = SetBit(words, Place(cnt), Head(unread)) /\ cnt' = cnt + 1
     ELSE UNCHANGED <<words, cnt>>
  /\ unread' = Tail(unread)
  /\ UNCHANGED <<splitter, pc, pool, source, d>>

EndRead ==
  /\ pc = "read" /\ (unread = <<>> \/ ~More(d))
  /\ pc' = IF cnt < d THEN "failed" ELSE "ready"
  /\ UNCHANGED <<splitter, pool, cnt, source, d, unread, words>>

(* the other two sources fill whole words, then part_mask clears *)

\* the words for size bits; names of delivered bits, highest first, in words 0 to last
Delivered(size, last) ==
  [w \in 0 .. size \div W |-> [loc \in 0 .. W - 1 |-> IF w <= last THEN w * W + W - loc ELSE 0]]

\* stream_get_seed_bits: as many words as d bits fill
Receive ==
  /\ pc = "start"
  /\ source' = "stream" /\ d' \in Totals
  /\ words' = Delivered(d', (d' - 1) \div W)
  /\ pc' = "mask"
  /\ UNCHANGED <<splitter, pool, cnt, unread>>

\* rand() has 31 bits: the highest bit of each half of a word is never set
Create ==
  /\ pc = "start"
  /\ source' = "random" /\ d' \in Totals
  /\ words' = [w \in 0 .. d' \div W |-> [loc \in 0 .. W - 1 |->
                IF loc % C = C - 1 THEN 0 ELSE Delivered(d', d' \div W)[w][loc]]]
  /\ pc' = "mask"
  /\ UNCHANGED <<splitter, pool, cnt, unread>>

\* a slip: the bits below the first surplus one
PartMaskOne(size) == IF size % W = 0 THEN 0 .. W - 1 ELSE (W - 1 - (size % W)) .. W - 1
\* the bits of the last word that are kept
PartMask(size) == IF size % W = 0 THEN 0 .. W - 1 ELSE (W - (size % W)) .. W - 1
Mask ==
  /\ pc = "mask"
  /\ words' = [words EXCEPT ![d \div W] = [loc \in 0 .. W - 1 |-> IF loc \in PartMask(d) THEN @[loc] ELSE 0]]
  /\ pc' = "ready"
  /\ UNCHANGED <<splitter, pool, cnt, source, d, unread>>

\* both programs have ended; the next experiment starts from the remainder
NextExperiment ==
  /\ pc = "ready" /\ pc' = "start"
  /\ seedLen' = 0 /\ cnt' = 0 /\ seedFile' = <<>> /\ unread' = <<>>
  /\ source' = "file" /\ d' = 0 /\ words' = ZeroWords(0)
  /\ UNCHANGED <<pool, input, spent, dropped, splits>>

Stopped == pc = "failed" /\ UNCHANGED vars

Next ==
  \/ StartSplit \/ CopyChar \/ EndSplit \/ ReadChar \/ EndRead
  \/ Receive \/ Create \/ Mask \/ NextExperiment \/ Stopped

Spec == Init /\ [][Next]_vars
-----------------------------------------------------------------------------
\* bit i of the seed as trevisan_extract asks for it
GetBit(i) ==
  LET idx == i \div C
      loc == i % C
  IN words[idx \div (W \div C)][(idx % (W \div C)) * C + loc]

\* bits among the characters of the seed file before its character j
BitsBefore(j) == Cardinality({i \in 1 .. j - 1 : IsBit(seedFile[i])})
\* what the file or the client says is bit k of the seed
SeedBit(k) ==
  IF source = "file"
  THEN seedFile[CHOOSE j \in DOMAIN seedFile : IsBit(seedFile[j]) /\ BitsBefore(j) = k]
  ELSE k + 1

(***************************************************************************)
(* No loop runs past its file or past the words: rd_ascii_bit_file's       *)
(* data_vector->at(wrd) never throws.                                      *)
(***************************************************************************)
TypeOK ==
  /\ pc \in {"start", "split", "read", "mask", "ready", "failed"}
  /\ source \in {"file", "stream", "random"}
  /\ d \in Nat /\ cnt \in Nat /\ splits \in Nat /\ seedLen \in Nat
  /\ pc = "split" => cnt <= seedLen
  /\ pc = "read" => cnt <= d
  /\ ToSet(input) \cup ToSet(seedFile) \cup ToSet(unread) \subseteq DOMAIN pool
  /\ DOMAIN words = 0 .. d \div W
  /\ \A w \in DOMAIN words : words[w] \in [0 .. W - 1 -> Nat]

(***************************************************************************)
(* Experiments share no seed: over all runs of split_seed_pool, every      *)
(* character of the pool is in one seed file, or in what is left for the   *)
(* next run, or was dropped, and of these never in two; a run drops one    *)
(* character at most.  split_seed_pool.cc 7-9, "so the seed data won't be   *)
(* used again".                                                            *)
(***************************************************************************)
PoolAccounted ==
  /\ ToSet(spent) \cup dropped \cup ToSet(input) = 1 .. Len(pool)
  /\ Len(spent) + Cardinality(dropped) + Len(input) = Len(pool)
  /\ Cardinality(dropped) <= splits

(***************************************************************************)
(* While a seed file is read, and when any seed is loaded, the words hold  *)
(* exactly its first bits, in order from the highest bit of word 0, and    *)
(* nothing else: no bit beyond d_tot is left in a word that d_tot fills.   *)
(***************************************************************************)
NeverSet(k) == source = "random" /\ Place(k)[2] % C = C - 1
HoldsFirst(count) ==
  \A k \in 0 .. W * ((d - 1) \div W + 1) - 1 :
    words[k \div W][W - 1 - (k % W)] = IF k < count /\ ~NeverSet(k) THEN SeedBit(k) ELSE 0
LoadedInOrder ==
  /\ pc = "read" => HoldsFirst(cnt)
  /\ pc = "ready" => HoldsFirst(d)

(***************************************************************************)
(* What get_bit answers for an index below d_tot is a bit of the seed or 0,*)
(* never a surplus bit, and no two indices answer with the same bit: the    *)
(* bits a row combines stay independent.  If d_tot fills whole words every  *)
(* seed bit has its index.                                                 *)
(***************************************************************************)
Answers == {GetBit(i) : i \in 0 .. d - 1}
SeedBits == {SeedBit(k) : k \in 0 .. d - 1}
AnswersAreSeedBits ==
  pc = "ready" =>
    /\ Answers \subseteq SeedBits \cup {0}
    /\ \A i, k \in 0 .. d - 1 : i # k => GetBit(i) # GetBit(k) \/ GetBit(i) = 0
    /\ d % W = 0 /\ source # "random" => SeedBits \subseteq Answers

(***************************************************************************)
(* part_mask clears "unneeded lower bits when len is not aligned at 64"    *)
(* (extractor.cc 412): the bits the extraction asks for are those that     *)
(* stay, so that every bit of a seed that was given is used.               *)
(***************************************************************************)
EverySeedBitRead == pc = "ready" /\ source # "random" => SeedBits \subseteq Answers
=============================================================================
