-------------------------- MODULE DurableVerifier --------------------------
(***************************************************************************)
(* Durable verification: the queue of jobs (db/verification_queue.rs), the *)
(* dispatcher of each server process (verification_dispatcher.rs) and the  *)
(* driver that runs the frozen checks, seals the verdict, charges for it   *)
(* and moves the step (verification_driver.rs).                            *)
(*                                                                         *)
(* One action is one database call.  A process may die between any two of  *)
(* them; the database then holds what was committed and a claim that       *)
(* nobody refreshes.  Each step is delivered once (StepLifecycle,          *)
(* WorkIsNeverRepeated), so a step stands for its delivery and its job.    *)
(***************************************************************************)
EXTENDS Integers

CONSTANTS Steps,
          Processes,     \* server processes, each with one dispatcher and token
          NoStep, NoProcess,
          Unexamined,    \* steps for which no checks were frozen at dispatch
          Changed,       \* steps whose frozen checks are edited, by somebody
                         \* outside the program, before the job is claimed
          Billable,      \* owner, frozen quote and credit suffice for a charge
          MaxTries,      \* VERIFICATION_MAX_ATTEMPTS
          MayDie,        \* bound: the processes that may die
          Overlap,       \* a deploy may start a process before the old one ends
          RunnerMayFail, \* the container runtime may be away
          SealMayFail    \* the statement that seals a verdict may fail

ASSUME StepAssumption == /\ Unexamined \subseteq Steps /\ Changed \subseteq Steps
                         /\ Billable \subseteq Steps /\ NoStep \notin Steps
ASSUME ProcessAssumption == MayDie \subseteq Processes /\ NoProcess \notin Processes
ASSUME BoundAssumption == MaxTries \in Nat \ {0}
ASSUME SwitchAssumption == {Overlap, RunnerMayFail, SealMayFail} \subseteq BOOLEAN

VARIABLES
  \* the database
  step,      \* steps.status, from the attempt that will deliver onwards
  job,       \* verification_jobs
  receipts,  \* verification_runs; the id of a row is who claimed it for what
  ledger,    \* credit_transactions of verifications, by idempotency key
  \* the processes
  proc,      \* whether the process has started and still lives
  carrier,   \* whose connection task is between the two calls of a delivery
  disp,      \* where the dispatcher is, with which job and which verdict
  beat       \* the heartbeat task of the claimed job runs

db   == <<step, job, receipts, ledger>>
vars == <<db, proc, carrier, disp, beat>>

Verdicts    == {"verified", "failed", "inconclusive", "unverified"}
HasBillingEffect(v) == v # "inconclusive"

Claimable   == {"queued", "retry_wait"}
Ended       == {"succeeded", "failed", "inconclusive", "dead"}
NoJob       == [state |-> "none", token |-> NoProcess, tries |-> 0,
                expired |-> FALSE, waiting |-> FALSE]
Asleep      == [at |-> "off", step |-> NoStep, verdict |-> "none"]

Init ==
  /\ step = [s \in Steps |-> "running"]
  /\ job = [s \in Steps |-> NoJob]
  /\ receipts = {} /\ ledger = {}
  /\ proc = [p \in Processes |-> "new"]
  /\ carrier = [s \in Steps |-> NoProcess]
  /\ disp = [p \in Processes |-> Asleep]
  /\ beat = [p \in Processes |-> FALSE]

-----------------------------------------------------------------------------
(* Statements on the rows *)

SetJob(s, j) == job' = [job EXCEPT ![s] = j]

\* Mutant: one attempt too many.
HandBackOnceMore(j, delay) ==
  [j EXCEPT !.state = IF j.tries > MaxTries THEN "dead" ELSE "retry_wait",
            !.token = NoProcess, !.expired = FALSE, !.waiting = delay /\ j.tries < MaxTries]

\* Out of attempts a job is retired, else it is offered again.
HandBack(j, delay) ==
  [j EXCEPT !.state = IF j.tries >= MaxTries THEN "dead" ELSE "retry_wait",
            !.token = NoProcess, !.expired = FALSE, !.waiting = delay /\ j.tries < MaxTries]

\* Mutant: only the statement that retires jobs.
ExpiredForGood == {s \in Steps : /\ job[s].state = "claimed" /\ job[s].expired
                                 /\ job[s].tries >= MaxTries}
Expired == {s \in Steps : job[s].state = "claimed" /\ job[s].expired}

\* reclaim_expired_verification_jobs, whoever held the claims.
ReclaimExpired == job' = [s \in Steps |-> IF s \in Expired THEN HandBack(job[s], FALSE)
                                                           ELSE job[s]]

\* Mutant: the statement names the state it leaves but not the claim.
HoldsAnyClaim(p, s) == job[s].state = "claimed"

\* The guard of heartbeat, retry and finish.
Holds(p, s) == job[s].state = "claimed" /\ job[s].token = p

Transition(s, from, to) == /\ step[s] \in from
                           /\ step' = [step EXCEPT ![s] = to]

-----------------------------------------------------------------------------
(* Processes.  assert_single_node trusts the operator that no two overlap. *)

\* reconcile_on_startup, then spawn.
Start(p) ==
  /\ proc[p] = "new"
  /\ Overlap \/ \A q \in Processes : proc[q] # "up"
  /\ proc' = [proc EXCEPT ![p] = "up"]
  /\ ReclaimExpired
  /\ disp' = [disp EXCEPT ![p].at = "wait"]
  /\ UNCHANGED <<step, receipts, ledger, carrier, beat>>

Die(p) ==
  /\ p \in MayDie /\ proc[p] = "up"
  /\ proc' = [proc EXCEPT ![p] = "dead"]
  /\ disp' = [disp EXCEPT ![p] = Asleep]
  /\ beat' = [beat EXCEPT ![p] = FALSE]
  /\ carrier' = [s \in Steps |-> IF carrier[s] = p THEN NoProcess ELSE carrier[s]]
  /\ UNCHANGED db

-----------------------------------------------------------------------------
(* Delivery: two calls of the worker connection's task *)

DeliverStep(s, p) ==
  /\ proc[p] = "up"
  /\ Transition(s, {"running"}, "delivered")
  /\ carrier' = [carrier EXCEPT ![s] = p]
  /\ UNCHANGED <<job, receipts, ledger, proc, disp, beat>>

\* The job is inserted in the transaction that moves the step.
BeginVerifyingStep(s) ==
  /\ carrier[s] # NoProcess
  /\ carrier' = [carrier EXCEPT ![s] = NoProcess]
  /\ \/ /\ Transition(s, {"delivered"}, "verifying")
        /\ SetJob(s, IF job[s] = NoJob THEN [NoJob EXCEPT !.state = "queued"] ELSE job[s])
     \/ /\ step[s] # "delivered"
        /\ UNCHANGED <<step, job>>
  /\ UNCHANGED <<receipts, ledger, proc, disp, beat>>

ManualOverride(s) ==
  /\ Transition(s, {"delivered", "verifying", "failed", "inconclusive"}, "manual_override")
  /\ UNCHANGED <<job, receipts, ledger, proc, carrier, disp, beat>>

-----------------------------------------------------------------------------
(* Time *)

LeaseExpires(s) ==
  /\ job[s].state = "claimed" /\ ~job[s].expired
  /\ SetJob(s, [job[s] EXCEPT !.expired = TRUE])
  /\ UNCHANGED <<step, receipts, ledger, proc, carrier, disp, beat>>

BackoffEnds(s) ==
  /\ job[s].waiting
  /\ SetJob(s, [job[s] EXCEPT !.waiting = FALSE])
  /\ UNCHANGED <<step, receipts, ledger, proc, carrier, disp, beat>>

\* spawn_heartbeat: refreshes the claim, or learns that it is gone and stops.
Heartbeat(p) ==
  LET s == disp[p].step IN
  /\ beat[p]
  /\ \/ Holds(p, s) /\ SetJob(s, [job[s] EXCEPT !.expired = FALSE]) /\ UNCHANGED beat
     \/ ~Holds(p, s) /\ beat' = [beat EXCEPT ![p] = FALSE] /\ UNCHANGED job
  /\ UNCHANGED <<step, receipts, ledger, proc, carrier, disp>>

-----------------------------------------------------------------------------
(* dispatch_loop: wake up, drain what is runnable, one job at a time *)

At(p, where) == disp[p].at = where
Go(p, where) == disp' = [disp EXCEPT ![p].at = where]

Poll(p) == /\ At(p, "wait") /\ Go(p, "drain")
           /\ UNCHANGED <<db, proc, carrier, beat>>

Sweep(p) == /\ At(p, "wait") /\ Go(p, "drain")
            /\ ReclaimExpired
            /\ UNCHANGED <<step, receipts, ledger, proc, carrier, beat>>

Runnable == {s \in Steps : job[s].state \in Claimable /\ ~job[s].waiting}

ClaimJob(p, s) ==
  /\ At(p, "drain") /\ s \in Runnable
  /\ SetJob(s, [job[s] EXCEPT !.state = "claimed", !.token = p, !.expired = FALSE,
                              !.tries = @ + 1])
  /\ disp' = [disp EXCEPT ![p] = [at |-> "claimed", step |-> s, verdict |-> "none"]]
  /\ UNCHANGED <<step, receipts, ledger, proc, carrier, beat>>

Drained(p) == /\ At(p, "drain") /\ Runnable = {} /\ Go(p, "wait")
              /\ UNCHANGED <<db, proc, carrier, beat>>

-----------------------------------------------------------------------------
(* run_claimed_job up to the driver *)

\* Mutant: the early return forgets the job.
RefuseExamOnly(p) ==
  /\ At(p, "claimed") /\ disp[p].step \in Changed
  /\ disp' = [disp EXCEPT ![p] = [Asleep EXCEPT !.at = "drain"]]
  /\ UNCHANGED <<db, proc, carrier, beat>>

\* The exam is not the one that was promised: no verdict at all.
RefuseExam(p) ==
  /\ At(p, "claimed") /\ disp[p].step \in Changed
  /\ disp' = [disp EXCEPT ![p].at = "ending", ![p].verdict = "refused"]
  /\ UNCHANGED <<db, proc, carrier, beat>>

\* No container runner: the job is handed back, if it is still ours.
RetryLater(p) ==
  LET s == disp[p].step IN
  /\ At(p, "claimed") /\ s \notin Changed /\ RunnerMayFail
  /\ IF Holds(p, s) THEN SetJob(s, HandBack(job[s], TRUE)) ELSE UNCHANGED job
  /\ disp' = [disp EXCEPT ![p] = [Asleep EXCEPT !.at = "drain"]]
  /\ UNCHANGED <<step, receipts, ledger, proc, carrier, beat>>

StartHeartbeat(p) ==
  /\ At(p, "claimed") /\ disp[p].step \notin Changed
  /\ Go(p, "driving")
  /\ beat' = [beat EXCEPT ![p] = TRUE]
  /\ UNCHANGED <<db, proc, carrier>>

-----------------------------------------------------------------------------
(* verify_delivery *)

Receipt(s, p, v) == [step |-> s, by |-> p, verdict |-> v]

\* Mutant: a verification that was never sealed may be claimed again.
UnclaimedOrPending(s) == \A r \in receipts : r.step = s => r.verdict = "pending"

\* UNIQUE(run_id, step_id, attempt), ON CONFLICT DO NOTHING.
Unclaimed(s) == \A r \in receipts : r.step # s

\* Nothing was frozen, or somebody else owns the verdict: no verdict from here.
NothingToVerify(p) ==
  LET s == disp[p].step IN
  /\ At(p, "driving") /\ (s \in Unexamined \/ ~Unclaimed(s))
  /\ Go(p, "ending")
  /\ beat' = [beat EXCEPT ![p] = FALSE]
  /\ UNCHANGED <<db, proc, carrier>>

ClaimVerification(p) ==
  LET s == disp[p].step IN
  /\ At(p, "driving") /\ s \notin Unexamined /\ Unclaimed(s)
  /\ receipts' = receipts \cup {Receipt(s, p, "pending")}
  /\ Go(p, "grading")
  /\ UNCHANGED <<step, job, ledger, proc, carrier, beat>>

\* The checks have run, or could not: exam integrity, checkout and check runs
\* come down to the verdict they lead to.  finish_verification seals it.
FinishVerification(p, v) ==
  LET s == disp[p].step IN
  /\ At(p, "grading")
  /\ receipts' = {IF r.step = s /\ r.by = p THEN Receipt(s, p, v) ELSE r : r \in receipts}
  /\ disp' = [disp EXCEPT ![p].verdict = v,
                          ![p].at = IF HasBillingEffect(v) THEN "billing" ELSE "projecting"]
  /\ UNCHANGED <<step, job, ledger, proc, carrier, beat>>

\* finish_and_bill returns early; its caller projects the verdict all the same.
SealFails(p, v) ==
  /\ SealMayFail /\ At(p, "grading")
  /\ disp' = [disp EXCEPT ![p].verdict = v, ![p].at = "projecting"]
  /\ UNCHANGED <<db, proc, carrier, beat>>

\* billing_effect, with the billing state read from the ledger.  The keys
\* derive from the verification id, so only this task reads or writes them.
Effect(s, p, v) ==
  LET charge == [step |-> s, by |-> p, kind |-> "charge"]
      refund == [step |-> s, by |-> p, kind |-> "refund"]
  IN  CASE refund \in ledger -> {}
        [] charge \in ledger -> IF v = "failed" THEN {refund} ELSE {}
        [] OTHER -> IF v # "failed" /\ s \in Billable THEN {charge} ELSE {}

AfterBillEnd == "ending"      \* mutant: the verdict is not projected
AfterBill    == "projecting"

Bill(p) ==
  /\ At(p, "billing")
  /\ ledger' = ledger \cup Effect(disp[p].step, p, disp[p].verdict)
  /\ Go(p, AfterBill)
  /\ UNCHANGED <<step, job, receipts, proc, carrier, beat>>

Shown(v) == IF v \in {"verified", "failed"} THEN v ELSE "inconclusive"

\* record_verification_outcome; the heartbeat is aborted on return.
ProjectVerdict(p) ==
  LET s == disp[p].step IN
  /\ At(p, "projecting")
  /\ \/ Transition(s, {"verifying"}, Shown(disp[p].verdict))
     \/ step[s] # "verifying" /\ UNCHANGED step
  /\ Go(p, "ending")
  /\ beat' = [beat EXCEPT ![p] = FALSE]
  /\ UNCHANGED <<job, receipts, ledger, proc, carrier>>

-----------------------------------------------------------------------------
(* The end of run_claimed_job *)

JobState(v) == CASE v \in {"verified", "none"} -> "succeeded"
                 [] v = "failed"               -> "failed"
                 [] OTHER                      -> "inconclusive"

FinishJob(p) ==
  LET s == disp[p].step IN
  /\ At(p, "ending")
  /\ IF Holds(p, s)
     THEN SetJob(s, [job[s] EXCEPT !.state = JobState(disp[p].verdict),
                                   !.token = NoProcess, !.expired = FALSE])
     ELSE UNCHANGED job
  /\ disp' = [disp EXCEPT ![p] = [Asleep EXCEPT !.at = "drain"]]
  /\ UNCHANGED <<step, receipts, ledger, proc, carrier, beat>>

-----------------------------------------------------------------------------
Dispatcher(p) ==
  \/ Poll(p) \/ Sweep(p) \/ Drained(p) \/ \E s \in Steps : ClaimJob(p, s)
  \/ RefuseExam(p) \/ RetryLater(p) \/ StartHeartbeat(p)
  \/ NothingToVerify(p) \/ ClaimVerification(p)
  \/ \E v \in Verdicts : FinishVerification(p, v) \/ SealFails(p, v)
  \/ Bill(p) \/ ProjectVerdict(p) \/ FinishJob(p)

Next == \/ \E p \in Processes : Start(p) \/ Die(p) \/ Dispatcher(p) \/ Heartbeat(p)
        \/ \E s \in Steps : \/ BeginVerifyingStep(s) \/ ManualOverride(s)
                            \/ LeaseExpires(s) \/ BackoffEnds(s)
                            \/ \E p \in Processes : DeliverStep(s, p)

Spec == Init /\ [][Next]_vars

\* Live processes go on, a new one is started when the last has died, the
\* clock goes on, and the reconcile interval is not passed over for ever: its
\* tick is ready every RECONCILE_INTERVAL.  Deliveries and people may stop.
Fairness == /\ \A p \in Processes : /\ WF_vars(Start(p)) /\ WF_vars(Dispatcher(p))
                                    /\ SF_vars(Sweep(p))
            /\ \A s \in Steps : /\ WF_vars(BeginVerifyingStep(s))
                                /\ WF_vars(LeaseExpires(s)) /\ WF_vars(BackoffEnds(s))
FairSpec == Spec /\ Fairness

-----------------------------------------------------------------------------
(* Properties *)

StepOK == step \in [Steps -> {"running", "delivered", "verifying", "verified",
                              "failed", "inconclusive", "manual_override"}]
JobRows == [state : Claimable \cup Ended \cup {"none", "claimed"},
            token : Processes \cup {NoProcess}, tries : 0..MaxTries,
            expired : BOOLEAN, waiting : BOOLEAN]
JobOK == job \in [Steps -> JobRows]
ReceiptsOK == receipts \subseteq [step : Steps, by : Processes, verdict : Verdicts \cup {"pending"}]
LedgerOK == ledger \subseteq [step : Steps, by : Processes, kind : {"charge", "refund"}]
ProcessesOK == /\ proc \in [Processes -> {"new", "up", "dead"}]
               /\ carrier \in [Steps -> Processes \cup {NoProcess}]
               /\ beat \in [Processes -> BOOLEAN]
DispOK == disp \in [Processes -> [at : {"off", "wait", "drain", "claimed", "driving", "grading",
                                        "billing", "projecting", "ending"},
                                  step : Steps \cup {NoStep},
                                  verdict : Verdicts \cup {"none", "refused"}]]
TypeOK == StepOK /\ JobOK /\ ReceiptsOK /\ LedgerOK /\ ProcessesOK /\ DispOK

\* A job ends once, and by the claim that holds it: a dispatcher whose claim
\* was reclaimed while its checks ran cannot end the job for its successor.
\* A sweep, or the holder, may retire it.
EndsByItsHolder(s) ==
  job'[s].state \in Ended =>
    \/ job'[s] = job[s]
    \/ job'[s].state = "dead" /\ job[s].tries = MaxTries
    \/ \E p \in Processes : /\ job[s].state = "claimed" /\ job[s].token = p
                            /\ disp[p].step = s /\ At(p, "ending")
                            /\ disp'[p].at = "drain"
JobEndsOnce == [][\A s \in Steps : /\ EndsByItsHolder(s)
                                   /\ job[s].state \in Ended => job'[s] = job[s]]_vars

\* A job that says what the verdict was says so after the step does: nobody
\* reads `failed` in the queue of a step that is still being verified.  Steps whose
\* exam was edited are excepted: their job ends without the driver being asked.
EndedJobIsProjected ==
  \A s \in Steps \ Changed : job[s].state \in {"failed", "inconclusive"} =>
    step[s] \in {"manual_override", job[s].state}

\* Only a death leaves a claim behind: the job a living process claimed is the
\* one its dispatcher works on.
ClaimIsWorkedOn ==
  \A s \in Steps, p \in Processes :
    job[s].state = "claimed" /\ job[s].token = p /\ proc[p] # "dead" => disp[p].step = s

\* Every job that was queued comes to an end, through dying processes, absent
\* runners and slow checks (the dispatcher's header, "recoverable rather than
\* silently stranded").
JobsEnd == \A s \in Steps : job[s].state # "none" ~> job[s].state \in Ended

-----------------------------------------------------------------------------
(* The promise this module keeps *)

SealedOf(s) == {r \in receipts : r.step = s /\ r.verdict # "pending"}
Outcome == [s \in Steps |-> IF SealedOf(s) = {} THEN "none"
                            ELSE (CHOOSE r \in SealedOf(s) : TRUE).verdict]
Once == INSTANCE VerdictOnce WITH place <- step, outcome <- Outcome, paid <- ledger,
                                  Payers <- Processes
VerdictOnceHolds == Once!Spec

-----------------------------------------------------------------------------
(* A statement of the documentation that the code does not keep *)

\* verification_dispatcher.rs: a process that dies leaves work that is "still
\* claimable, and still counted"; a job that ended has decided its step.
EndedJobDecidesItsStep ==
  \A s \in Steps : job[s].state \in Ended => step[s] # "verifying"

=============================================================================
