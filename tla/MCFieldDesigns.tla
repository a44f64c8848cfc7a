---------------------------- MODULE MCFieldDesigns ----------------------------
EXTENDS FieldDesigns

\* around the powers of t_requested and of t, where the degree changes
MCMs == {1, 2, 3, 5, 11, 15, 16, 17, 25, 30, 36, 37, 49, 51}

\* gf2n.h 16-25
MCTable == [n \in 0 .. 7 |-> <<1, 3, 7, 11, 19, 37, 67, 131>>[n + 1]]

\* The theorem on overlaps speaks of this instance, and of t up to 128.
ASSUME IrreducibleTable ==
  /\ NoZeroDivisors
  /\ \A n \in 1 .. 7 : \A u, v \in 1 .. Power(2)[n] - 1 : Mult(n, u, v) # 0
=============================================================================
