---------------------------- MODULE MCDispatch ----------------------------
EXTENDS Dispatch
\* Two steps of one run need the same file, a third belongs to another user.
TwoRuns == [s \in Steps |-> IF s = 3 THEN "r2" ELSE "r1"]
TwoUsers == [r \in Runs |-> IF r = "r2" THEN "u2" ELSE "u1"]
SameFile == [s \in Steps |-> IF s = 3 THEN {} ELSE {"f"}]
=============================================================================
