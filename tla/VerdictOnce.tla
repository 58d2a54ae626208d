---------------------------- MODULE VerdictOnce ----------------------------
(***************************************************************************)
(* What verification promises about one delivery (cortex/plan/VERIFIER.md, *)
(* "The gate" and "Billing binding"), with no jobs, claims, dispatchers or *)
(* crashes: it is decided at most once, it is charged at most once and     *)
(* only for a verdict that costs something, the step shows the verdict     *)
(* that was sealed, and what a person accepted stays accepted.             *)
(* DurableVerifier is shown to implement this specification.               *)
(***************************************************************************)
CONSTANTS Steps,     \* the deliveries, one for each step
          Payers     \* what distinguishes the charges of one delivery

VARIABLES place,     \* steps.status
          outcome,   \* the sealed verdict of the step's delivery
          paid       \* the entries of the ledger

vars == <<place, outcome, paid>>

Verdicts == {"verified", "failed", "inconclusive", "unverified"}
Costing  == {"verified", "unverified"}

\* The status that shows a verdict; nothing proven is no pass.
Shown(v) == IF v \in {"verified", "failed"} THEN v ELSE "inconclusive"

Init == /\ place = [s \in Steps |-> "running"]
        /\ outcome = [s \in Steps |-> "none"]
        /\ paid = {}

Hand(s) == \/ place[s] = "running" /\ place' = [place EXCEPT ![s] = "delivered"]
           \/ place[s] = "delivered" /\ place' = [place EXCEPT ![s] = "verifying"]

Decide(s, v) == /\ place[s] \notin {"running", "delivered"}
                /\ outcome[s] = "none"
                /\ outcome' = [outcome EXCEPT ![s] = v]

Charge(s, p) == /\ outcome[s] \in Costing
                /\ \A e \in paid : e.step # s
                /\ paid' = paid \cup {[step |-> s, by |-> p, kind |-> "charge"]}

Show(s) == /\ place[s] = "verifying" /\ outcome[s] # "none"
           /\ place' = [place EXCEPT ![s] = Shown(outcome[s])]

Accept(s) == /\ place[s] \in {"delivered", "verifying", "failed", "inconclusive"}
             /\ place' = [place EXCEPT ![s] = "manual_override"]

Next == \E s \in Steps :
          \/ (Hand(s) \/ Show(s) \/ Accept(s)) /\ UNCHANGED <<outcome, paid>>
          \/ \E v \in Verdicts : Decide(s, v) /\ UNCHANGED <<place, paid>>
          \/ \E p \in Payers : Charge(s, p) /\ UNCHANGED <<place, outcome>>

Spec == Init /\ [][Next]_vars
=============================================================================
