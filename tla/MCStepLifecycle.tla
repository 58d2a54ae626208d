-------------------------- MODULE MCStepLifecycle --------------------------
(***************************************************************************)
(* Instances of StepLifecycle for TLC.                                     *)
(***************************************************************************)
EXTENDS StepLifecycle, TLC

CONSTANTS s1, s2, s3, s4

\* s2 waits for s1.
Chain == [s \in Steps |-> IF s = s2 THEN {s1} ELSE {}]
\* Connections are alike, and so are the steps healing may take.
Sym == Permutations(Workers) \cup Permutations(Steps \ InitSteps)

NoEdges == [s \in Steps |-> {}]
=============================================================================
