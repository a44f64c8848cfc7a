-------------------------- MODULE MCParallelExtract --------------------------
(* Three blocks of 2, 1 and 1 rows and one row of the loop beyond them     *)
(* all: words of two bits are shared by rows of different threads.         *)
EXTENDS ParallelExtract

MCMi     == [b \in 0 .. 2 |-> IF b = 0 THEN 2 ELSE 1]
MCBaseMi == [b \in 0 .. 2 |-> IF b = 0 THEN 0 ELSE b + 1]
=============================================================================
