--------------------------- MODULE StepLifecycle ---------------------------
(***************************************************************************)
(* The life of the steps of one run, as the API server drives it: the      *)
(* `steps` and `step_dependencies` rows (crates/api/src/db/mod.rs), the    *)
(* scheduler task that leases ready steps, heals failed ones and finishes  *)
(* the run (scheduler.rs), one task per worker connection that applies the *)
(* worker's reports (ws.rs), and the verdicts that arrive out of band.     *)
(*                                                                         *)
(* One action is one database call: every call takes the connection's      *)
(* mutex, and anything else may run between two of them.  What a task      *)
(* remembers from one call to the next is in `sched` and `handler`.  The   *)
(* database survives a crash of the server; those, the scheduler's queue   *)
(* and its events do not.                                                  *)
(***************************************************************************)
EXTENDS Integers

CONSTANTS Steps,        \* the steps the run has and may be given by healing
          InitSteps,    \* the steps the run is created with
          InitNeeds,    \* their success_required edges: [Steps -> SUBSET Steps]
          InitHealable, \* those of a kind is_healable() accepts
          Workers,      \* worker connections; each gets a fresh worker id
          NoStep, NoWorker, NoCommit,
          Sent,         \* bound: the reports the workers of this instance send
          MayLeave,     \* bound: the connections that may close
          Overridable,  \* bound: the steps a person may accept
          MaxGen,       \* bound: leases of one step
          MaxHeals,     \* Profile::heal_attempts()
          MaxRestarts   \* bound: crashes or shutdowns of the server

FinalReports == {"complete", "reject", "fail", "cancel", "block"}
Reports == FinalReports \cup {"start", "renew"}

ASSUME InitAssumption == /\ InitSteps \subseteq Steps
                         /\ InitNeeds \in [Steps -> SUBSET InitSteps]
                         /\ \A s \in Steps \ InitSteps : InitNeeds[s] = {}
                         /\ InitHealable \subseteq InitSteps
ASSUME ScopeAssumption == /\ Sent \subseteq Reports
                          /\ MayLeave \subseteq Workers
                          /\ Overridable \subseteq Steps
ASSUME NullAssumption == /\ NoStep \notin Steps
                         /\ NoWorker \notin Workers
                         /\ NoCommit \notin [worker : Workers, gen : Nat]
ASSUME BoundAssumption == MaxGen \in Nat /\ MaxHeals \in Nat /\ MaxRestarts \in Nat

VARIABLES
  \* the database
  status,    \* steps.status; "absent": no such row yet
  gen,       \* steps.lease_gen
  owner,     \* steps.assigned_worker
  due,       \* steps.lease_deadline has passed
  head,      \* steps.head_commit: the attempt that produced it
  reason,    \* steps.last_error, as far as the scheduler tells texts apart
  needs,     \* success_required edges
  after,     \* completion_required edges
  healable,  \* steps whose kind is_healable() accepts
  heals,     \* runs.heal_count
  run,       \* runs.status
  session,   \* worker_sessions and the registry of connected workers
  jobs,      \* verification jobs that may still seal a verdict
  \* the workers
  attempts,  \* ExecuteStep orders held by connected workers
  \* the server's memory
  handler,   \* what each connection's task is in the middle of
  sched,     \* what the scheduler's task is in the middle of
  queue,     \* UserQueue: the StepRefs waiting to be dispatched
  events,    \* SchedulerEvents sent and not yet received
  restarts   \* restarts so far

stepRows == <<status, gen, owner, due, head, reason>>
graph    == <<needs, after, healable>>
db       == <<stepRows, graph, heals, run, session, jobs>>
memory   == <<handler, sched, queue, events>>
vars     == <<db, attempts, memory, restarts>>

-----------------------------------------------------------------------------
(* Vocabulary of the rows *)

Waiting   == {"pending", "orphaned"}
Live      == {"leased", "running"}
AcceptedS == {"verified", "manual_override"}
TerminalOnDelivery == AcceptedS \cup {"delivered", "failed", "execution_failed", "recovered",
                                      "cancelled", "skipped"}  \* mutant
TerminalS == AcceptedS \cup {"failed", "execution_failed", "recovered",
                             "cancelled", "skipped"}
Statuses  == Waiting \cup Live \cup TerminalS
             \cup {"absent", "delivered", "verifying", "inconclusive"}
RunTerminal == {"succeeded", "failed", "cancelled"}

\* "auth": the text holds CliNotAuthenticated or CliAuthExpired.
Reasons == {"none", "text", "auth", "no_provider"}

Commits == [worker : Workers, gen : 1..MaxGen]
Present == {s \in Steps : status[s] # "absent"}
Accepted == {s \in Steps : status[s] \in AcceptedS}
Terminal == {s \in Steps : status[s] \in TerminalS}

\* Mutant: a dependency that was handed over counts as accepted.
ReadyOnDelivery == {s \in Steps : /\ status[s] \in Waiting
                                  /\ \A d \in needs[s] : status[d] \in AcceptedS \cup {"verifying"}
                                  /\ after[s] \subseteq Terminal}

\* find_ready_steps: what may be put in the queue.
Ready == {s \in Steps : /\ status[s] \in Waiting
                        /\ needs[s] \subseteq Accepted
                        /\ after[s] \subseteq Terminal}

\* check_run_completion over the steps the run has.
Outcome == LET has(S) == \E s \in Steps : status[s] \in S
           IN  IF Present = {} \/ ~(Present \subseteq Terminal) THEN "none"
               ELSE IF has({"failed", "execution_failed", "skipped"}) THEN "failed"
               ELSE IF has({"cancelled"}) THEN "cancelled" ELSE "succeeded"

\* Mutant: the cascade does not look at the dependents' status.
DownstreamAny(s) == {t \in Steps \ {s} : s \in needs[t]}

\* cascade_failure: everything not terminal that success_required edges
\* reach from s through steps that are not terminal either.
Downstream(s) ==
  LET open == Present \ Terminal
      closed == {C \in SUBSET open :
                   \A t \in open : needs[t] \cap (C \cup {s}) # {} => t \in C}
  IN  {t \in open \ {s} : \A C \in closed : t \in C}

-----------------------------------------------------------------------------
(* Single statements on the step rows.  Each is an UPDATE whose WHERE clause
   is the guard; a statement that matches no row changes nothing, and its
   caller reads that from the number of rows. *)

Set(s, st) == status' = [status EXCEPT ![s] = st]

\* Mutant: the statement checks the state it leaves but not the attempt.
CasAnyAttempt(s, g, from) == status[s] \in from

\* A transition that carries the lease generation of its caller's attempt.
Cas(s, g, from) == status[s] \in from /\ gen[s] = g

Unassign(S) == /\ owner' = [s \in Steps |-> IF s \in S THEN NoWorker ELSE owner[s]]
               /\ due'   = [s \in Steps |-> IF s \in S THEN FALSE ELSE due[s]]

\* Mutant: the holder is taken from every lost lease, the status only of the
\* steps that were started.
OrphanStarted(S) ==
  /\ status' = [s \in Steps |-> IF s \in S /\ status[s] = "running" THEN "orphaned"
                                ELSE status[s]]
  /\ Unassign(S)
  /\ UNCHANGED <<gen, head, reason>>

\* expire_stale_leases and orphan_step: assigned_worker and deadline go NULL.
Orphan(S) == /\ status' = [s \in Steps |-> IF s \in S THEN "orphaned" ELSE status[s]]
             /\ Unassign(S)
             /\ UNCHANGED <<gen, head, reason>>

\* Mutants: a sweep that also takes work that was handed over, and one that
\* forgets the leases nobody started.
ExpiredDelivered == {s \in Steps : status[s] \in Live \cup {"delivered", "verifying"} /\ due[s]}
ExpiredStarted   == {s \in Steps : status[s] = "running" /\ due[s]}

Expired == {s \in Steps : status[s] \in Live /\ due[s]}

-----------------------------------------------------------------------------
(* Initial state: create_run has committed the run, its steps and its edges,
   and RunCreated is in the scheduler's channel. *)

Idle == [at |-> "idle", step |-> NoStep, worker |-> NoWorker,
         heal |-> NoStep, retry |-> NoStep, todo |-> {}, final |-> "none"]
NoReport == [at |-> "idle", step |-> NoStep, gen |-> 0]

Init ==
  /\ status = [s \in Steps |-> IF s \in InitSteps THEN "pending" ELSE "absent"]
  /\ gen = [s \in Steps |-> 0]
  /\ owner = [s \in Steps |-> NoWorker]
  /\ due = [s \in Steps |-> FALSE]
  /\ head = [s \in Steps |-> NoCommit]
  /\ reason = [s \in Steps |-> "none"]
  /\ needs = [s \in Steps |-> InitNeeds[s]]
  /\ after = [s \in Steps |-> {}]
  /\ healable = InitHealable
  /\ heals = 0
  /\ run = "pending"
  /\ session = [w \in Workers |-> "new"]
  /\ jobs = {}
  /\ attempts = {}
  /\ handler = [w \in Workers |-> NoReport]
  /\ sched = [Idle EXCEPT !.at = "recover"]
  /\ queue = {}
  /\ events = {[kind |-> "created", step |-> NoStep]}
  /\ restarts = 0

-----------------------------------------------------------------------------
(* Connections and time *)

Registered == {w \in Workers : session[w] = "open"}

\* handle_worker_connection after a valid Register: a fresh worker id.
Connect(w) ==
  /\ session[w] = "new"
  /\ session' = [session EXCEPT ![w] = "open"]
  /\ UNCHANGED <<stepRows, graph, heals, run, jobs, attempts, memory, restarts>>

\* The socket closes: the session row is closed and gets its grace deadline,
\* the worker leaves the registry, and what it held or was about to be sent is
\* never heard of again.
Disconnect(w) ==
  /\ w \in MayLeave /\ session[w] = "open" /\ handler[w].at = "idle"
  /\ session' = [session EXCEPT ![w] = "closed"]
  /\ attempts' = {a \in attempts : a.worker # w}
  /\ UNCHANGED <<stepRows, graph, heals, run, jobs, memory, restarts>>

GraceEnds(w) ==
  /\ session[w] = "closed"
  /\ session' = [session EXCEPT ![w] = "past"]
  /\ UNCHANGED <<stepRows, graph, heals, run, jobs, attempts, memory, restarts>>

DeadlinePasses(s) ==
  /\ status[s] \in Live /\ ~due[s]
  /\ due' = [due EXCEPT ![s] = TRUE]
  /\ UNCHANGED <<status, gen, owner, head, reason, graph, heals, run,
                 session, jobs, attempts, memory, restarts>>

-----------------------------------------------------------------------------
(* Worker reports (ws.rs, handle_worker_msg).  The task of a connection takes
   one message at a time: it checks that the worker still holds the step,
   then applies the report in one or more further calls.  The check names the
   worker and the step but not the attempt, so each later call carries the
   lease generation. *)

VerifyStepWorker(s, w) == owner[s] = w /\ status[s] \in Live /\ ~due[s]

\* The worker sends a report about an order it holds; the last one ends it.
Receive(w, a, kind) ==
  /\ a \in attempts /\ a.worker = w
  /\ session[w] = "open" /\ handler[w].at = "idle"
  /\ attempts' = IF kind \in FinalReports THEN attempts \ {a} ELSE attempts
  /\ handler' = IF VerifyStepWorker(a.step, w)
                THEN [handler EXCEPT ![w] = [at |-> kind, step |-> a.step, gen |-> a.gen]]
                ELSE handler
  /\ UNCHANGED <<db, sched, queue, events, restarts>>

Busy(w, kind) == handler[w].at = kind
Finish(w) == handler' = [handler EXCEPT ![w] = NoReport]

\* A report whose statement matches no row: the attempt has moved on.
Stale(w, from) ==
  LET s == handler[w].step IN
  /\ ~Cas(s, handler[w].gen, from)
  /\ Finish(w)
  /\ UNCHANGED <<db, attempts, sched, queue, events, restarts>>

StartStep(w) ==
  LET s == handler[w].step IN
  /\ Busy(w, "start")
  /\ \/ /\ Cas(s, handler[w].gen, Live)
        /\ Set(s, "running") /\ Finish(w)
        /\ UNCHANGED <<gen, owner, due, head, reason, graph, heals, run,
                       session, jobs, attempts, sched, queue, events, restarts>>
     \/ Stale(w, Live)

RenewLease(w) ==
  LET s == handler[w].step IN
  /\ Busy(w, "renew")
  /\ \/ /\ Cas(s, handler[w].gen, Live)
        /\ due' = [due EXCEPT ![s] = FALSE] /\ Finish(w)
        /\ UNCHANGED <<status, gen, owner, head, reason, graph, heals, run,
                       session, jobs, attempts, sched, queue, events, restarts>>
     \/ Stale(w, Live)

Emit(kind, s) == events' = events \cup {[kind |-> kind, step |-> s]}

\* deliver_step.  Without a head commit there is nothing to grade and the
\* report ends here; with one, the task goes on to begin_verifying_step.
DeliverStep(w) ==
  LET s == handler[w].step  g == handler[w].gen IN
  /\ Busy(w, "complete")
  /\ \/ /\ Cas(s, g, Live)
        /\ Set(s, "delivered")
        /\ \/ /\ head' = [head EXCEPT ![s] = [worker |-> w, gen |-> g]]
              /\ handler' = [handler EXCEPT ![w].at = "enqueue"]
              /\ UNCHANGED events
           \/ /\ head' = [head EXCEPT ![s] = NoCommit]
              /\ Finish(w) /\ Emit("delivered", s)
        /\ UNCHANGED <<gen, owner, due, reason, graph, heals, run,
                       session, jobs, attempts, sched, queue, restarts>>
     \/ Stale(w, Live)

\* begin_verifying_step: the job is inserted in the transaction that moves the
\* step, for the commit of this report.  The event is sent either way.
BeginVerifyingStep(w) ==
  LET s == handler[w].step  g == handler[w].gen IN
  /\ Busy(w, "enqueue")
  /\ IF Cas(s, g, {"delivered"})
     THEN /\ Set(s, "verifying")
          /\ jobs' = jobs \cup {[step |-> s, gen |-> g, commit |-> [worker |-> w, gen |-> g]]}
     ELSE UNCHANGED <<status, jobs>>
  /\ Finish(w) /\ Emit("delivered", s)
  /\ UNCHANGED <<gen, owner, due, head, reason, graph, heals, run,
                 session, attempts, sched, queue, restarts>>

\* The engine's verifier blocked the completion: record_failed_step_output
\* keeps the output, then fail_step ends the step.
RecordFailedOutput(w) ==
  LET s == handler[w].step  g == handler[w].gen IN
  /\ Busy(w, "reject")
  /\ \/ Cas(s, g, Live \cup {"failed"}) /\ head' \in
          {[head EXCEPT ![s] = c] : c \in {NoCommit, [worker |-> w, gen |-> g]}}
     \/ ~Cas(s, g, Live \cup {"failed"}) /\ UNCHANGED head
  /\ handler' = [handler EXCEPT ![w].at = "fail"]
  /\ UNCHANGED <<status, gen, owner, due, reason, graph, heals, run,
                 session, jobs, attempts, sched, queue, events, restarts>>

\* fail_step.  The scheduler looks for the names of two failure kinds in
\* last_error, but what goes there is the tool's stderr, whatever the kind.
FailStep(w) ==
  LET s == handler[w].step IN
  /\ Busy(w, "fail")
  /\ \/ /\ Cas(s, handler[w].gen, Live)
        /\ Set(s, "failed")
        /\ \E text \in {"text", "auth"} : reason' = [reason EXCEPT ![s] = text]
        /\ Finish(w) /\ Emit("failed", s)
        /\ UNCHANGED <<gen, owner, due, head, graph, heals, run,
                       session, jobs, attempts, sched, queue, restarts>>
     \/ Stale(w, Live)

CancelStep(w) ==
  LET s == handler[w].step IN
  /\ Busy(w, "cancel")
  /\ \/ /\ Cas(s, handler[w].gen, Live)
        /\ Set(s, "cancelled") /\ Unassign({s})
        /\ reason' = [reason EXCEPT ![s] = "text"]
        /\ Finish(w) /\ Emit("failed", s)
        /\ UNCHANGED <<gen, head, graph, heals, run,
                       session, jobs, attempts, sched, queue, restarts>>
     \/ Stale(w, Live)

\* StepBlocked: record_execution_failure.
BlockStep(w) ==
  LET s == handler[w].step  from == Live \cup {"delivered", "verifying"} IN
  /\ Busy(w, "block")
  /\ \/ /\ Cas(s, handler[w].gen, from)
        /\ Set(s, "execution_failed")
        /\ Finish(w) /\ Emit("failed", s)
        /\ UNCHANGED <<gen, owner, due, head, reason, graph, heals, run,
                       session, jobs, attempts, sched, queue, restarts>>
     \/ Stale(w, from)

Handle(w) == \/ StartStep(w) \/ RenewLease(w) \/ DeliverStep(w)
             \/ BeginVerifyingStep(w) \/ RecordFailedOutput(w)
             \/ FailStep(w) \/ CancelStep(w) \/ BlockStep(w)

-----------------------------------------------------------------------------
(* Verdicts and people, out of band *)

\* record_verification_outcome: fenced by the generation of the delivery.
Verdict(j, v) ==
  /\ j \in jobs
  /\ jobs' = jobs \ {j}
  /\ IF Cas(j.step, j.gen, {"verifying"}) THEN Set(j.step, v) ELSE UNCHANGED status
  /\ UNCHANGED <<gen, owner, due, head, reason, graph, heals, run,
                 session, attempts, memory, restarts>>

\* The dispatcher seals the job without a verdict: nothing was frozen for the
\* step, or another dispatcher had claimed the verdict (DurableVerifier).
EndWithoutVerdict(j) ==
  /\ j \in jobs
  /\ jobs' = jobs \ {j}
  /\ UNCHANGED <<stepRows, graph, heals, run, session, attempts, memory, restarts>>

\* record_manual_override, for the attempt the operator looked at.
ManualOverride(s) ==
  /\ s \in Overridable
  /\ status[s] \in {"delivered", "verifying", "failed", "inconclusive"}
  /\ Set(s, "manual_override")
  /\ UNCHANGED <<gen, owner, due, head, reason, graph, heals, run,
                 session, jobs, attempts, memory, restarts>>

-----------------------------------------------------------------------------
(* The scheduler's task (scheduler_loop).  From "idle" it takes an event or a
   tick; both end in "assign", where it dispatches until it is blocked. *)

SchedulerPoints ==
  {"idle", "assign", "send",
   "heal_new", "heal_dep", "retry_new", "retry_dep", "recover_step", "count",
   "load_new", "load", "grace_load", "reconcile", "check", "finish",
   "grace", "orphan", "recover", "recover_load"}

At(pc) == sched.at = pc
Goto(pc) == sched' = [sched EXCEPT !.at = pc]     \* keeps what it remembers
Then(pc) == sched' = [Idle EXCEPT !.at = pc]      \* forgets it

\* Unchanged in every step of the scheduler: it holds no worker's report.
OthersIdle == UNCHANGED <<session, attempts, handler, restarts>>

Takes(kind, s) == LET e == [kind |-> kind, step |-> s] IN
  At("idle") /\ e \in events /\ events' = events \ {e}

\* RunCreated: the run is running, whatever it was.
RunCreated ==
  /\ Takes("created", NoStep)
  /\ run' = "running" /\ Then("load_new")
  /\ UNCHANGED <<stepRows, graph, heals, jobs, queue>> /\ OthersIdle

\* StepDelivered: nothing is accepted yet; only the slot is free again.
StepDelivered(s) ==
  /\ Takes("delivered", s) /\ Then("load")
  /\ UNCHANGED <<db, queue>> /\ OthersIdle

\* StepFailed: whether and how the failure is repaired.
Healable(s) == /\ status[s] # "cancelled"
               /\ reason[s] \notin {"auth", "no_provider"}
               /\ s \in healable
CascadeFrom(s) == /\ status[s] # "cancelled"
                  /\ \/ reason[s] \in {"auth", "no_provider"}
                     \/ s \in healable /\ heals >= MaxHeals

Cascade(S) == status' = [s \in Steps |-> IF s \in S THEN "skipped" ELSE status[s]]

StepFailed(s) ==
  /\ Takes("failed", s)
  /\ \/ /\ CascadeFrom(s)
        /\ Cascade(Downstream(s)) /\ Then("load")
     \/ /\ Healable(s) /\ heals < MaxHeals
        /\ \E h, r \in Steps \ Present :
             h # r /\ sched' = [Idle EXCEPT !.at = "heal_new", !.step = s, !.heal = h, !.retry = r]
        /\ UNCHANGED status
     \/ /\ ~CascadeFrom(s) /\ ~Healable(s)
        /\ Then("load") /\ UNCHANGED status
  /\ UNCHANGED <<gen, owner, due, head, reason, graph, heals, run, jobs, queue>>
  /\ OthersIdle

\* try_heal: one committed statement after another.  The one that sets the heal
\* step's earliest dispatch is left out: the model never says how soon a step is
\* queued.
CreateHealStep ==
  /\ At("heal_new") /\ Goto("heal_dep")
  /\ Set(sched.heal, "pending")
  /\ UNCHANGED <<gen, owner, due, head, reason, graph, heals, run, jobs,
                 queue, events>>
  /\ OthersIdle

LinkHealStep ==
  /\ At("heal_dep") /\ Goto("retry_new")
  /\ after' = [after EXCEPT ![sched.heal] = @ \cup {sched.step}]
  /\ UNCHANGED <<stepRows, needs, healable, heals, run, jobs, queue, events>>
  /\ OthersIdle

CreateRetryStep ==
  /\ At("retry_new") /\ Goto("retry_dep")
  /\ Set(sched.retry, "pending")
  /\ healable' = healable \cup {sched.retry}
  /\ UNCHANGED <<gen, owner, due, head, reason, needs, after, heals, run,
                 jobs, queue, events>>
  /\ OthersIdle

LinkRetryStep ==
  /\ At("retry_dep") /\ Goto("recover_step")
  /\ needs' = [needs EXCEPT ![sched.retry] = @ \cup {sched.heal}]
  /\ UNCHANGED <<stepRows, after, healable, heals, run, jobs, queue, events>>
  /\ OthersIdle

\* Mutant: the step is marked without looking at its status.
MarkRecoveredAlways ==
  /\ At("recover_step") /\ Goto("count")
  /\ Set(sched.step, "recovered")
  /\ UNCHANGED <<gen, owner, due, head, reason, graph, heals, run, jobs,
                 queue, events>>
  /\ OthersIdle

MarkRecovered ==
  /\ At("recover_step") /\ Goto("count")
  /\ IF status[sched.step] = "failed" THEN Set(sched.step, "recovered")
                                      ELSE UNCHANGED status
  /\ UNCHANGED <<gen, owner, due, head, reason, graph, heals, run, jobs,
                 queue, events>>
  /\ OthersIdle

CountHeal ==
  /\ At("count") /\ heals' = heals + 1
  /\ Then("load")
  /\ UNCHANGED <<stepRows, graph, run, jobs, queue, events>> /\ OthersIdle

TryHeal == \/ CreateHealStep \/ LinkHealStep \/ CreateRetryStep
           \/ LinkRetryStep \/ MarkRecovered \/ CountHeal

\* load_ready_steps_for_run, whatever the run's status; a new run is then
\* scheduled, any other is checked for completion first.
LoadReadySteps ==
  /\ sched.at \in {"load", "load_new", "grace_load"}
  /\ queue' = queue \cup Ready
  /\ Then(CASE At("load") -> "check" [] At("load_new") -> "assign"
            [] At("grace_load") -> "reconcile")
  /\ UNCHANGED <<db, events>> /\ OthersIdle

\* reconcile_ready_steps, and recover_from_db's loads: active runs only, which
\* a run whose RunCreated has not been applied is not.
ReconcileReadySteps ==
  /\ sched.at \in {"reconcile", "recover_load"}
  /\ queue' = IF run = "running" THEN queue \cup Ready ELSE queue
  /\ Then(IF At("reconcile") THEN "check" ELSE "idle")
  /\ UNCHANGED <<db, events>> /\ OthersIdle

\* expire_stale_leases: first of all on every tick, and when the server starts.
ExpireStaleLeases ==
  /\ sched.at \in {"idle", "recover"}
  /\ Orphan(Expired)
  /\ Then(IF At("idle") THEN "grace" ELSE "recover_load")
  /\ UNCHANGED <<graph, heals, run, jobs, queue, events>> /\ OthersIdle

\* expire_grace_periods: first the list, then one statement per step.
WorkersPastGrace ==
  /\ At("grace")
  /\ LET past == {s \in Steps : /\ status[s] \in Live
                                /\ owner[s] \in Workers /\ session[owner[s]] = "past"}
     IN  IF past = {} THEN Then("reconcile")
         ELSE sched' = [sched EXCEPT !.at = "orphan", !.todo = past]
  /\ UNCHANGED <<db, queue, events>> /\ OthersIdle

OrphanStep(s) ==
  /\ At("orphan") /\ s \in sched.todo
  /\ IF status[s] \in Live THEN Orphan({s}) ELSE UNCHANGED stepRows
  /\ sched' = [sched EXCEPT !.todo = @ \ {s},
                            !.at = IF sched.todo = {s} THEN "grace_load" ELSE "orphan"]
  /\ UNCHANGED <<graph, heals, run, jobs, queue, events>> /\ OthersIdle

\* check_run_done: the statuses and the run's own status are read, then the
\* outcome is written.  On a tick only active runs are looked at, which the
\* guard against double completion repeats.
CheckRunDone ==
  /\ At("check")
  /\ sched' = IF Outcome = "none" \/ run \in RunTerminal
              THEN [Idle EXCEPT !.at = "assign"]
              ELSE [Idle EXCEPT !.at = "finish", !.final = Outcome]
  /\ UNCHANGED <<db, queue, events>> /\ OthersIdle

FinishRun ==
  /\ At("finish")
  /\ run' = sched.final /\ Then("assign")
  /\ UNCHANGED <<stepRows, graph, heals, jobs, queue, events>> /\ OthersIdle

-----------------------------------------------------------------------------
(* Dispatch (schedule_until_blocked, dispatch_step).  Which step is next and
   whether the user has a slot free is UserQueue's choice. *)

Assigned(s) == At("assign") /\ s \in queue

NothingAssignable ==
  /\ At("assign") /\ Then("idle")
  /\ UNCHANGED <<db, queue, events>> /\ OthersIdle

\* No worker, billing gate closed, paths leased to another step: back in the
\* queue until the next event or tick.
RetryLater(s) ==
  /\ Assigned(s) /\ Then("idle")
  /\ UNCHANGED <<db, queue, events>> /\ OthersIdle

\* The autonomy gate asks a person; a later tick finds the step again.
WaitForApproval(s) ==
  /\ Assigned(s) /\ Then("idle") /\ queue' = queue \ {s}
  /\ UNCHANGED <<db, events>> /\ OthersIdle

\* fail_unleased_step, on a rejected approval ("text") or when every provider
\* is vetoed.  When it matches no row the second is retried later.
FailUnleased(s, why) ==
  /\ Assigned(s) /\ status[s] \in Waiting
  /\ Set(s, "failed") /\ reason' = [reason EXCEPT ![s] = why]
  /\ Emit("failed", s) /\ Then("assign") /\ queue' = queue \ {s}
  /\ UNCHANGED <<gen, owner, due, head, graph, heals, run, jobs>>
  /\ OthersIdle

ForgetStale(s) ==
  /\ Assigned(s) /\ status[s] \notin Waiting
  /\ Then("assign") /\ queue' = queue \ {s}
  /\ UNCHANGED <<db, events>> /\ OthersIdle

FirstGen(s) == 1            \* mutant: a new lease starts counting again
NextGen(s) == gen[s] + 1

\* find_worker_for_user, then lease_step: the status is compared again, the
\* dependencies are not.  A step that is not waiting any more is retried later.
LeaseStep(s, w) ==
  /\ Assigned(s) /\ w \in Registered
  /\ status[s] \in Waiting /\ gen[s] < MaxGen
  /\ Set(s, "leased")
  /\ owner' = [owner EXCEPT ![s] = w]
  /\ due' = [due EXCEPT ![s] = FALSE]
  /\ gen' = [gen EXCEPT ![s] = NextGen(s)]
  /\ sched' = [Idle EXCEPT !.at = "send", !.step = s, !.worker = w]
  /\ queue' = queue \ {s}
  /\ UNCHANGED <<head, reason, graph, heals, run, jobs, events>>
  /\ OthersIdle

\* worker_tx.send succeeds while the connection's task lives.
SendOrder ==
  LET w == sched.worker  s == sched.step IN
  /\ At("send") /\ w \in Registered
  /\ attempts' = attempts \cup {[worker |-> w, step |-> s, gen |-> gen[s]]}
  /\ Then("assign")
  /\ UNCHANGED <<db, handler, queue, events, restarts>>

\* The channel is closed, or the work contract could not be recorded.
UnleaseStep ==
  LET s == sched.step IN
  /\ At("send")
  /\ IF status[s] = "leased" THEN Set(s, "pending") /\ Unassign({s})
                             ELSE UNCHANGED <<status, owner, due>>
  /\ queue' = queue \cup {s} /\ Then("idle")
  /\ UNCHANGED <<gen, head, reason, graph, heals, run, jobs, events>>
  /\ OthersIdle

Dispatch == \/ NothingAssignable \/ SendOrder \/ UnleaseStep
            \/ \E s \in Steps : \/ RetryLater(s) \/ WaitForApproval(s) \/ ForgetStale(s)
                              \/ \E why \in {"text", "no_provider"} : FailUnleased(s, why)
                              \/ \E w \in Workers : LeaseStep(s, w)

Scheduler == \/ RunCreated
             \/ \E s \in Steps : StepDelivered(s) \/ StepFailed(s) \/ OrphanStep(s)
             \/ TryHeal \/ LoadReadySteps \/ ReconcileReadySteps
             \/ ExpireStaleLeases \/ WorkersPastGrace
             \/ CheckRunDone \/ FinishRun \/ Dispatch

-----------------------------------------------------------------------------
(* The server stops and starts again *)

\* What is in memory is gone and every connection with it.  A session that had
\* not been closed in the database never is: it gets no grace deadline.
ForgetMemory(cancelled) ==
  /\ restarts < MaxRestarts
  /\ restarts' = restarts + 1
  /\ handler' = [w \in Workers |-> NoReport]
  /\ sched' = [Idle EXCEPT !.at = "recover"]
  /\ queue' = {} /\ events' = {} /\ attempts' = {}
  /\ session' = [w \in Workers |->
                   IF session[w] = "open" THEN "lost" ELSE session[w]]
  /\ status' = [s \in Steps |-> IF s \in cancelled THEN "cancelled" ELSE status[s]]
  /\ reason' = [s \in Steps |-> IF s \in cancelled THEN "text" ELSE reason[s]]
  /\ Unassign(cancelled)
  /\ UNCHANGED <<gen, head, graph, heals, run, jobs>>

Crash == ForgetMemory({})

\* shutdown: the steps a chat is still following are cancelled, last of all,
\* with no event (cancel_assigned_step).
Shutdown == \E followed \in SUBSET {s \in Steps : status[s] \in Live} :
               followed # {} /\ ForgetMemory(followed)

-----------------------------------------------------------------------------
Environment == \/ \E w \in Workers : Connect(w) \/ Disconnect(w) \/ GraceEnds(w)
               \/ \E s \in Steps : DeadlinePasses(s) \/ ManualOverride(s)
               \/ \E w \in Workers, a \in attempts, kind \in Sent : Receive(w, a, kind)
               \/ \E j \in jobs : EndWithoutVerdict(j)
                                 \/ \E v \in {"verified", "failed", "inconclusive"} : Verdict(j, v)

Next == \/ Environment \/ Scheduler
        \/ \E w \in Workers : Handle(w)
        \/ Crash \/ Shutdown

Spec == Init /\ [][Next]_vars

\* The scheduler's task, the connections' tasks and the clock keep going, and
\* select!, which picks among ready branches at random, does not pass an event
\* over for ever.  Workers and people may stop.
TakeEvent == RunCreated \/ \E s \in Steps : StepDelivered(s) \/ StepFailed(s)
Fairness == /\ WF_vars(Scheduler) /\ SF_vars(TakeEvent)
            /\ \A w \in Workers : WF_vars(Handle(w))
            /\ \A s \in Steps : WF_vars(DeadlinePasses(s))
FairSpec == Spec /\ Fairness

-----------------------------------------------------------------------------
(* Properties *)

\* A step that somebody is to work on has somebody: the sweep of lost leases,
\* the graces and the events of a worker all take status and holder together.
RowsOK ==
  /\ status \in [Steps -> Statuses]
  /\ gen \in [Steps -> 0..MaxGen]
  /\ owner \in [Steps -> Workers \cup {NoWorker}]
  /\ \A s \in Steps : status[s] \in Live => owner[s] \in Workers
  /\ due \in [Steps -> BOOLEAN]
  /\ head \in [Steps -> Commits \cup {NoCommit}]
  /\ reason \in [Steps -> Reasons]
GraphOK ==
  /\ needs \in [Steps -> SUBSET Steps]
  /\ after \in [Steps -> SUBSET Steps]
  /\ healable \subseteq Steps
RunOK ==
  /\ heals \in Nat
  /\ run \in RunTerminal \cup {"pending", "running"}
  /\ restarts \in 0..MaxRestarts
SessionsOK == session \in [Workers -> {"new", "open", "closed", "past", "lost"}]
JobsOK     == jobs \subseteq [step : Steps, gen : 1..MaxGen, commit : Commits]
AttemptsOK == attempts \subseteq [worker : Workers, step : Steps, gen : 1..MaxGen]
HandlersOK == handler \in [Workers -> {NoReport} \cup
                 [at : Reports \cup {"enqueue"}, step : Steps, gen : 1..MaxGen]]
SchedOK    == sched \in [at : SchedulerPoints, step : Steps \cup {NoStep},
                         worker : Workers \cup {NoWorker}, heal : Steps \cup {NoStep},
                         retry : Steps \cup {NoStep}, todo : SUBSET Steps,
                         final : RunTerminal \cup {"none"}]
QueueOK    == queue \subseteq Steps
EventsOK   == events \subseteq [kind : {"created", "delivered", "failed"},
                               step : Steps \cup {NoStep}]

TypeOK == /\ RowsOK /\ GraphOK /\ RunOK /\ SessionsOK /\ JobsOK /\ AttemptsOK
          /\ HandlersOK /\ SchedOK /\ QueueOK /\ EventsOK

\* What is graded is what the step's current attempt delivered: a step under
\* or past verification shows the commit of its own last lease, and the job
\* that may still move it is about that same commit.  Late reports of earlier
\* attempts, by the same worker too, must not get in (deliver_step's CAS).
GradedWorkIsCurrent ==
  /\ \A s \in Steps : status[s] \in {"verifying", "verified", "inconclusive"} =>
       head[s] = [worker |-> owner[s], gen |-> gen[s]]
  /\ \A j \in jobs : status[j.step] = "verifying" /\ gen[j.step] = j.gen =>
       head[j.step] = j.commit

\* Nothing is ever leased on ground that is not accepted, although lease_step
\* does not look at the dependencies and the queue may be old.
DependentsWaitForAcceptance ==
  \A s \in Steps : gen[s] > 0 => needs[s] \subseteq Accepted /\ after[s] \subseteq Terminal

\* Only one worker can move a leased step: an order or a report of the current
\* generation belongs to the worker the row names.
OnlyTheHolderReports ==
  /\ \A a \in attempts : status[a.step] \in Live /\ gen[a.step] = a.gen
                           => owner[a.step] = a.worker
  /\ \A w \in Workers : LET h == handler[w] IN
       h.at # "idle" /\ status[h.step] \in Live /\ gen[h.step] = h.gen => owner[h.step] = w

\* A step whose attempt is over never gets another one, and an accepted step
\* never loses its acceptance, whatever expires, fails or cascades.
Over(s) == status[s] \notin Waiting \cup Live \cup {"absent"}
EndsOnce == \A s \in Steps : /\ Over(s) => Over(s)'
                             /\ s \in Accepted => s \in Accepted'
WorkIsNeverRepeated == [][EndsOnce]_vars

\* The steps that repeat s: those that wait for a heal step of s.
RetriesOf(s) == {r \in Steps : \E h \in needs[r] : s \in after[h]}

\* A run becomes succeeded only when each of its steps was accepted, or failed
\* and was repaired by a retry that was (ADR-0001, "A run cannot report
\* success until every step is verified").
RunSucceedsOnAcceptedWork ==
  [][run # "succeeded" /\ run' = "succeeded" =>
       \A s \in Present : \/ s \in Accepted
                          \/ /\ status[s] = "recovered"
                             /\ \E r \in RetriesOf(s) : status[r] \in AcceptedS \cup {"recovered"}]_vars

\* A lease whose worker is no longer there is taken back (ARCHITECTURE.md,
\* Lease Model), also when the session was lost with the server.
LostLeaseComesBack ==
  \A s \in Steps : (/\ status[s] \in Live
                    /\ \A w \in Workers : owner[s] = w => session[w] # "open")
                   ~> status[s] \notin Live

-----------------------------------------------------------------------------
(* The promise this module keeps *)

PhaseOf(st) == CASE st = "absent" -> "absent"
                 [] st \in Waiting -> "planned"
                 [] st \in Live -> "executing"
                 [] st \in {"delivered", "verifying"} -> "delivered"
                 [] st = "inconclusive" -> "undecided"
                 [] st = "verified" -> "verified"
                 [] st = "manual_override" -> "overridden"
                 [] OTHER -> "closed"

Phase == [s \in Steps |-> PhaseOf(status[s])]

Truth == INSTANCE StepTruth WITH phase <- Phase
StepTruthHolds == Truth!Spec

=============================================================================
