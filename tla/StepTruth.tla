----------------------------- MODULE StepTruth -----------------------------
(***************************************************************************)
(* What the step truth model promises (docs/adr/ADR-0001-step-truth-model),*)
(* with no leases, workers, queues or crashes: a step is planned, its      *)
(* attempts come and go, a delivery is graded, and only a step that was    *)
(* accepted lets another one that needs it begin.  StepLifecycle is shown  *)
(* to implement this specification.                                        *)
(***************************************************************************)
CONSTANTS Steps         \* every step a run can ever hold

VARIABLES phase,        \* phase[s]: where the plan stands with step s
          needs         \* needs[s]: the steps s waits for (success_required)

vars == <<phase, needs>>

Phases == {"absent", "planned", "executing", "delivered", "undecided",
           "verified", "overridden", "closed"}

\* The steps downstream work may build on (captain.rs, is_accepted).
Accepted == {s \in Steps : phase[s] \in {"verified", "overridden"}}

TypeOK == /\ phase \in [Steps -> Phases]
          /\ needs \in [Steps -> SUBSET Steps]

\* A run is created with all its steps and their edges, or with the steps a
\* plan holds so far; the others are absent.
Init == /\ phase \in [Steps -> {"absent", "planned"}]
        /\ needs \in [Steps -> SUBSET Steps]

\* Steps move one at a time, except where one statement moves many.
MoveAll(S, from, to) == /\ \A s \in S : phase[s] \in from
                        /\ phase' = [s \in Steps |-> IF s \in S THEN to ELSE phase[s]]
                        /\ UNCHANGED needs
Move(s, from, to) == MoveAll({s}, from, to)

Plan(s) == Move(s, {"absent"}, "planned")

Need(s, d) == /\ phase[s] = "planned"
              /\ needs' = [needs EXCEPT ![s] = @ \cup {d}]
              /\ UNCHANGED phase

\* The one guard that matters downstream: no attempt on unaccepted ground.
Begin(s) == /\ needs[s] \subseteq Accepted
            /\ Move(s, {"planned"}, "executing")

\* Attempts are lost or handed back; their steps wait for another one.
Return(S) == MoveAll(S, {"executing"}, "planned")

Deliver(s) == Move(s, {"executing"}, "delivered")

\* A verdict is about a delivery, never about an attempt that is running.
\* (The verdict `failed` closes the step, as a worker's failure does.)
Verify(s)    == Move(s, {"delivered"}, "verified")
Undecided(s) == Move(s, {"delivered"}, "undecided")

\* A person accepts the step without a passing verdict.
Override(s) == Move(s, {"delivered", "undecided", "closed"}, "overridden")

\* Steps end without acceptance (failure, cancellation, a failed ancestor).
\* What was accepted is never taken back.
Close(S) == MoveAll(S, Phases \ {"absent", "verified", "overridden"}, "closed")

StepOf(s) == \/ Plan(s) \/ Begin(s) \/ Deliver(s)
             \/ Verify(s) \/ Undecided(s) \/ Override(s)
             \/ \E d \in Steps : Need(s, d)

Next == \/ \E s \in Steps : StepOf(s)
        \/ \E S \in SUBSET Steps : Return(S) \/ Close(S)

Spec == Init /\ [][Next]_vars
=============================================================================
