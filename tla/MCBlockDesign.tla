---------------------------- MODULE MCBlockDesign ----------------------------
EXTENDS BlockDesign

MCMReqs == (1 .. 150) \cup {200, 331, 512}
MCTPris == {8, 11, 13, 29, 67}

\* The theorems of BlockDesignProofs speak of this instance.
ASSUME HypothesesHold == RatioBelowThree /\ RatioNearE /\ FewBlocks /\ FiveIndices
=============================================================================
