------------------------- MODULE MCDurableVerifier -------------------------
(***************************************************************************)
(* Instances of DurableVerifier for TLC.                                   *)
(***************************************************************************)
EXTENDS DurableVerifier, TLC

\* Processes that may die are alike, and so are the others.
Sym == Permutations(MayDie) \cup Permutations(Processes \ MayDie)
=============================================================================
