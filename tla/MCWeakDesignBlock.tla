-------------------------- MODULE MCWeakDesignBlock --------------------------
(* Two and more blocks of equal and of different sizes, sizes for which    *)
(* the R script has no block left (<<158, 30>>) and for which the last     *)
(* block is the largest, sizes that are empty or grow (t of 12), and       *)
(* tables of eleven and more different blocks (t of 40 and 60).            *)
EXTENDS WeakDesignBlock

MCRequests ==
  ((24 .. 60) \X {24}) \cup {<<17, 12>>, <<23, 12>>, <<120, 24>>, <<158, 30>>, <<160, 30>>, <<250, 40>>, <<300, 60>>}
=============================================================================
