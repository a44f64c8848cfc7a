------------------------------ MODULE RSHExtract ------------------------------
(***************************************************************************)
(* The 1-bit extractor of 1bitext_rsh.cc in its OpenSSL build: the input   *)
(* is cut into r coefficients of l bits, the first half of a sub-seed is   *)
(* the point at which their polynomial is evaluated over GF(2^l), and the  *)
(* bit is the parity of the value and the second half.                     *)
(*                                                                         *)
(* A big number is the set of the exponents of its 1 bits.                 *)
(***************************************************************************)
EXTENDS Integers, FiniteSets, FiniteSetsExt

CONSTANTS
  WordBits,   \* bits of uint64_t, of input words and of the words of a BIGNUM
  CharBits,   \* bits of a char; sizeof(chunk_t) stands for it in the code
  Ns, Ls,     \* values of pp.n and of l
  Irrep       \* set_irrep: the exponents of an irreducible polynomial per l

ASSUME ParamsAssumption ==
  /\ WordBits \in Nat \ {0} /\ CharBits \in Nat \ {0} /\ WordBits % CharBits = 0
  /\ Ns \subseteq Nat \ {0} /\ Ls \subseteq Nat \ {0}
  /\ \A len \in Ls : len \in Irrep[len] /\ 0 \in Irrep[len] /\ Irrep[len] \subseteq 0 .. len

VARIABLES
  pc,          \* "segment", "copy", "idle", "horner" or "parity"
  n, l, input, \* pp.n, l, and the numbers of the input bits that are 1
  seg, vect,   \* create_coefficients: i, and <<byte, bit>> of the 1 bits of vec
  at, last,    \* build_ext_poly_seg: i and new_upper_bound
  wrd, loc, vecWrd, vecLoc, \* its positions in the input and in vect
  coeffs,      \* of the polynomial
  subA, subB,  \* the halves of the sub-seed
  turn,        \* i of horner_poly_gf2n
  res, held, dmax, \* rs_res: its value, what all its words hold, their number
  bit          \* the result of extract

segVars == <<seg, vect, at, last, wrd, loc, vecWrd, vecLoc, coeffs>>
callVars == <<subA, subB, turn, res, held, dmax, bit>>
vars == <<pc, n, l, input, segVars, callVars>>

CeilDiv(x, y) == (x + y - 1) \div y
r == CeilDiv(n, l)
ElemsPerCoeff == CeilDiv(l, CharBits)
CharsPerHalf == (l + (CharBits - (l % CharBits))) \div CharBits

Init ==
  /\ n \in Ns /\ l \in Ls /\ input \in SUBSET (0 .. n - 1)
  /\ pc = "segment" /\ seg = 0 /\ vect = {} /\ at = 0 /\ last = 0
  /\ wrd = 0 /\ loc = 0 /\ vecWrd = 0 /\ vecLoc = 0 /\ coeffs = <<>>
  /\ subA = {} /\ subB = {} /\ turn = 0 /\ res = {} /\ held = {} /\ dmax = 0 /\ bit = FALSE

-----------------------------------------------------------------------------
(* create_coefficients and build_ext_poly_seg *)

\* slips: the bits of the segment before are left in vec; the bound taken for n
UnclearedUpTo(bytes) == vect
UpperPast == (seg + 1) * l
\* the first bytes of vec set to zero
ClearedUpTo(bytes) == {p \in vect : p[1] >= bytes}
Upper == (seg + 1) * l - 1

StartSegment ==
  /\ pc = "segment" /\ seg < r
  /\ LET low == seg * l
         pad == IF Upper >= n THEN Upper - (n - 1) ELSE 0
         top == Upper - pad
     IN /\ vect' = ClearedUpTo((Upper - low + CharBits) \div CharBits)
        /\ at' = low /\ last' = top
        /\ wrd' = low \div WordBits /\ loc' = WordBits - 1 - (low % WordBits)
        /\ vecWrd' = pad \div CharBits /\ vecLoc' = (top - low) % CharBits
  /\ pc' = "copy"
  /\ UNCHANGED <<n, l, input, seg, coeffs, callVars>>

\* the bit of the input word, the first bit of the input in its top bit
InputBit == wrd * WordBits + (WordBits - 1 - loc) \in input

CopyBit ==
  /\ pc = "copy" /\ at <= last
  /\ vect' = IF InputBit THEN vect \cup {<<vecWrd, vecLoc>>} ELSE vect
  /\ at' = at + 1
  /\ IF loc = 0 THEN loc' = WordBits - 1 /\ wrd' = wrd + 1
                ELSE loc' = loc - 1 /\ UNCHANGED wrd
  /\ IF vecLoc = 0 THEN vecLoc' = CharBits - 1 /\ vecWrd' = vecWrd + 1
                   ELSE vecLoc' = vecLoc - 1 /\ UNCHANGED vecWrd
  /\ UNCHANGED <<pc, n, l, input, seg, last, coeffs, callVars>>

\* BN_bin2bn of a number of bytes, the most significant first
BinToNumber(bits, bytes) == {CharBits * (bytes - 1 - p[1]) + p[2] : p \in bits}

EndSegment ==
  /\ pc = "copy" /\ at > last
  /\ coeffs' = [j \in 0 .. seg |->
                  IF j < seg THEN coeffs[j] ELSE BinToNumber(vect, ElemsPerCoeff)]
  /\ seg' = seg + 1
  /\ pc' = IF seg' < r THEN "segment" ELSE "idle"
  /\ UNCHANGED <<n, l, input, vect, at, last, wrd, loc, vecWrd, vecLoc, callVars>>

-----------------------------------------------------------------------------
(* extract and horner_poly_gf2n *)

Plus(x, y) == (x \ y) \cup (y \ x)
Shift(x, e) == {d + e : d \in x}
Times(x, y) ==
  {e \in {d + f : d \in x, f \in y} : Cardinality({f \in y : e - f \in x}) % 2 = 1}
\* the remainder modulo the irreducible polynomial, from the highest exponent down
Mod(x) ==
  LET high == Max(x \cup {l})
      rest[e \in l .. high + 1] ==
        IF e = high + 1 THEN x
        ELSE IF e \in rest[e + 1] THEN Plus(rest[e + 1], Shift(Irrep[l], e - l))
        ELSE rest[e + 1]
  IN rest[l]
ModMul(x, y) == Mod(Times(x, y))

Words(x) == IF x = {} THEN 0 ELSE Max(x) \div WordBits + 1

\* the seed bit c, bit c % 8 of byte c / 8, read as a number the top byte first
Point(half) == BinToNumber({<<c \div CharBits, c % CharBits>> : c \in half}, CharsPerHalf)

\* BN_zero leaves one word with no bit set
Extract ==
  /\ pc = "idle"
  /\ \E first, second \in SUBSET (0 .. l - 1) : subA' = first /\ subB' = second
  /\ turn' = 0 /\ res' = {} /\ held' = {} /\ dmax' = 1 /\ bit' = FALSE
  /\ pc' = "horner"
  /\ UNCHANGED <<n, l, input, segVars>>

\* a slip: the coefficients in the order before the change noted at line 170
ReversedCoeff(j) == coeffs[j]
\* of turn j, the highest first
Coeff(j) == coeffs[r - 1 - j]

\* BN_GF2m_add writes the words of the longer operand and leaves those above
HornerTurn ==
  /\ pc = "horner"
  /\ LET tmp == ModMul(res, Point(subA))
         top == Max({Words(tmp), Words(Coeff(turn))})
     IN /\ res' = Plus(tmp, Coeff(turn))
        /\ held' = res' \cup {e \in held : e >= top * WordBits}
        /\ dmax' = Max({dmax, top})
  /\ turn' = turn + 1
  /\ pc' = IF turn' = r THEN "parity" ELSE "horner"
  /\ UNCHANGED <<n, l, input, segVars, subA, subB, bit>>

\* a slip: the parity of line 395 before it was changed from even to odd
EvenParity(x) == Cardinality(x) % 2 = 0
Parity(x) == Cardinality(x) % 2 = 1

\* data_len is dmax: all words, those above the value included
Hadamard ==
  /\ pc = "parity"
  /\ bit' = Parity({e \in held : e < dmax * WordBits} \cap subB)
  /\ pc' = "done"
  /\ UNCHANGED <<n, l, input, segVars, subA, subB, turn, res, held, dmax>>

\* the next bit, from the same coefficients
Return ==
  /\ pc = "done"
  /\ subA' = {} /\ subB' = {} /\ turn' = 0 /\ res' = {} /\ held' = {} /\ dmax' = 0
  /\ bit' = FALSE /\ pc' = "idle"
  /\ UNCHANGED <<n, l, input, segVars>>

Next == StartSegment \/ CopyBit \/ EndSegment \/ Extract \/ HornerTurn \/ Hadamard \/ Return

Spec == Init /\ [][Next]_vars

-----------------------------------------------------------------------------
(***************************************************************************)
(* No bit is written past the elems_per_coeff bytes of vec, and no word    *)
(* past the n / 64 + 1 of the input vector is fetched, not even by the     *)
(* fetch after the last bit.                                               *)
(***************************************************************************)
TypeOK ==
  /\ pc \in {"segment", "copy", "idle", "horner", "parity", "done"}
  /\ n \in Ns /\ l \in Ls /\ input \subseteq 0 .. n - 1
  /\ seg \in 0 .. r /\ at \in 0 .. n /\ last \in 0 .. n - 1
  /\ vect \subseteq (0 .. ElemsPerCoeff - 1) \X (0 .. CharBits - 1)
  /\ wrd \in 0 .. n \div WordBits /\ loc \in 0 .. WordBits - 1
  /\ vecWrd \in 0 .. ElemsPerCoeff /\ vecLoc \in 0 .. CharBits - 1
  /\ seg > 0 => coeffs \in [0 .. seg - 1 -> SUBSET (0 .. CharBits * ElemsPerCoeff - 1)]
  /\ subA \subseteq 0 .. l - 1 /\ subB \subseteq 0 .. l - 1
  /\ turn \in 0 .. r /\ dmax \in Nat /\ bit \in BOOLEAN
  /\ res \subseteq held /\ Words(held) <= dmax

(***************************************************************************)
(* Every bit of the input is in exactly one coefficient, at the place of   *)
(* its position in the segment, the first bit the highest; the bits of a   *)
(* last segment shorter than l keep their order but may all be up to one   *)
(* byte higher than in a number of that length (1bitext_rsh.cc 207, 209).  *)
(***************************************************************************)
Digits(j) == {e \in 0 .. l - 1 : j * l + (l - 1 - e) \in input}
LastDigits(j, size) == {e \in 0 .. size - 1 : j * l + (size - 1 - e) \in input}
SegmentsCoverInput ==
  pc = "idle" =>
    /\ \A j \in 0 .. r - 2 : coeffs[j] = Digits(j)
    /\ \E s \in 0 .. CharBits :
         coeffs[r - 1] = Shift(LastDigits(r - 1, n - (r - 1) * l), s)

(***************************************************************************)
(* Horner's rule, in the order of lines 169-173, evaluates the polynomial  *)
(* whose i-th coefficient is the i-th segment, in the field; a last        *)
(* coefficient of more than l bits is reduced on the way.                  *)
(***************************************************************************)
Value ==
  LET power[j \in 0 .. r] == IF j = 0 THEN {0} ELSE ModMul(power[j - 1], Point(subA))
      term == [j \in 0 .. r - 1 |-> ModMul(coeffs[j], power[j])]
  IN {e \in 0 .. l - 1 : Cardinality({j \in 0 .. r - 1 : e \in term[j]}) % 2 = 1}
PolynomialValue == pc = "parity" => Mod(res) = Value

(***************************************************************************)
(* Lines 364-366: the bit is the parity of the value and the second l bits *)
(* of the sub-seed, whenever the coefficient added last has as many words  *)
(* as the field: no word of rs_res is then left from an earlier turn.      *)
(***************************************************************************)
IsInnerProduct == bit = (Cardinality(res \cap subB) % 2 = 1)
InnerProductIfFull ==
  pc = "done" /\ Words(coeffs[0]) = CeilDiv(l, WordBits) => IsInnerProduct

(***************************************************************************)
(* The comment of lines 364-366, for every input and sub-seed.             *)
(***************************************************************************)
BitIsInnerProduct == pc = "done" => IsInnerProduct
=============================================================================
