----------------------------- MODULE ExtractOnce -----------------------------
(***************************************************************************)
(* What trevisan_dispatcher promises, with no threads, words or loops: in  *)
(* each round the weak data and the seed determine the answers of the      *)
(* 1-bit extractor, and the round publishes exactly the reference string,  *)
(* in one step, before the next round's inputs are taken.                  *)
(***************************************************************************)
EXTENDS OutputLayout

VARIABLES phase, ones, out

vars == <<phase, ones, out>>

Init == phase = "setup" /\ ones = {} /\ out = {}

BeginRound ==
  /\ phase \in {"setup", "done"}
  /\ ones' \in SUBSET Queries
  /\ phase' = "rows"
  /\ UNCHANGED out

Publish ==
  /\ phase = "rows"
  /\ out' = Reference(ones)
  /\ phase' = "done"
  /\ UNCHANGED ones

Next == BeginRound \/ Publish

Spec == Init /\ [][Next]_vars /\ WF_vars(Publish)
=============================================================================
