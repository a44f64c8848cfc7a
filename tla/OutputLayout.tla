---------------------------- MODULE OutputLayout ----------------------------
(***************************************************************************)
(* The geometry of one extraction, shared by every module that produces or *)
(* consumes the extracted string: m rows of the weak design, a + 1 blocks, *)
(* block b holding mi[b] rows and starting at output position base_mi[b]   *)
(* (params.pp.mi_ptr and params.pp.base_mi_ptr in extractor.cc).           *)
(***************************************************************************)
EXTENDS Integers

CONSTANTS
  M,       \* params.pp.m: rows of the parallel loop
  A,       \* params.pp.a: index of the last block
  Mi,      \* Mi[b]: rows of block b
  BaseMi,  \* BaseMi[b]: output position of row 0 of block b
  MReq,    \* params.pp.m_req: length of the extracted string
  TReq     \* params.pp.t_req: seed bits consumed per output bit

Rows   == 0 .. M - 1
Blocks == 0 .. A
Pos    == 0 .. MReq - 1

\* The test of trevisan_extract off by one: a block takes one row too many.
InBlockClosed(i, b) == b \in Blocks /\ i <= Mi[b]
InBlock(i, b) == b \in Blocks /\ i < Mi[b]
Position(i, b) == i + BaseMi[b]
SeedBase(b) == b * TReq

\* What trevisan_extract asks the 1-bit extractor for: a row at a seed offset.
Queries == {q \in Rows \X {SeedBase(b) : b \in Blocks} :
              \E b \in Blocks : q[2] = SeedBase(b) /\ InBlock(q[1], b)}

(***************************************************************************)
(* What the rest of extractor.cc relies on when it walks the tables that   *)
(* gen_blk_design (or the single-block branch of trevisan_dispatcher)      *)
(* filled in.  BlockDesign checks it of the code that fills them.          *)
(***************************************************************************)
LayoutOK ==
  /\ \A b \in Blocks : BaseMi[b] + Mi[b] <= MReq /\ Mi[b] <= M
  /\ \A b, c \in Blocks : b < c => BaseMi[b] + Mi[b] <= BaseMi[c] /\ Mi[c] <= Mi[b]
  /\ \A p \in Pos : \E b \in Blocks : BaseMi[b] <= p /\ p < BaseMi[b] + Mi[b]

ASSUME GeometryAssumption ==
  /\ M \in Nat /\ A \in Nat /\ MReq \in Nat /\ TReq \in Nat \ {0}
  /\ Mi \in [Blocks -> Nat] /\ BaseMi \in [Blocks -> Nat]

ASSUME LayoutAssumption == LayoutOK

(***************************************************************************)
(* The string one round must output, as the set of positions holding a 1:  *)
(* ones is the set of queries the 1-bit extractor answers with a 1.        *)
(***************************************************************************)
Reference(ones) ==
  {p \in Pos : \E i \in Rows, b \in Blocks :
     InBlock(i, b) /\ p = Position(i, b) /\ <<i, SeedBase(b)>> \in ones}
=============================================================================
