---------------------------- MODULE StreamRounds ----------------------------
(***************************************************************************)
(* What a streaming session promises, without sockets: each round takes    *)
(* one fresh block of weak data and one fresh seed, hands over the output  *)
(* computed from exactly these two, and has it acknowledged before the     *)
(* next round takes anything.  A round is named by the pair of the         *)
(* generation numbers of its data and its seed, counted modulo NGen.       *)
(***************************************************************************)
EXTENDS Integers

CONSTANT NGen   \* bound: generation numbers are kept modulo NGen

VARIABLES
  taken,      \* the data and seed the last extraction started from
  delivered,  \* the ones the last output handed over was computed from
  acked,      \* the ones the last acknowledged output was computed from
  stopped     \* the server has ended

vars == <<taken, delivered, acked, stopped>>

Fresh(pair) == <<(pair[1] + 1) % NGen, (pair[2] + 1) % NGen>>

Init == taken = <<0, 0>> /\ delivered = <<0, 0>> /\ acked = <<0, 0>> /\ stopped = FALSE

Take ==
  /\ ~stopped /\ acked = taken
  /\ taken' = Fresh(taken)
  /\ UNCHANGED <<delivered, acked, stopped>>

Deliver ==
  /\ delivered # taken
  /\ delivered' = taken
  /\ UNCHANGED <<taken, acked, stopped>>

Acknowledge ==
  /\ ~stopped /\ acked # delivered
  /\ acked' = delivered
  /\ UNCHANGED <<taken, delivered, stopped>>

Stop == ~stopped /\ stopped' = TRUE /\ UNCHANGED <<taken, delivered, acked>>

Next == Take \/ Deliver \/ Acknowledge \/ Stop

Spec == Init /\ [][Next]_vars
=============================================================================
