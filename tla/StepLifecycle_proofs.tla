------------------------ MODULE StepLifecycle_proofs ------------------------
(***************************************************************************)
(* Proofs about StepLifecycle, for every set of steps and workers, every   *)
(* initial plan and every bound.                                           *)
(***************************************************************************)
EXTENDS StepLifecycle, TLAPS

-----------------------------------------------------------------------------
(* Type correctness.  The scheduler's task also remembers, from one statement
   to the next, which step it is in the middle of. *)

HealPoints == {"heal_new", "heal_dep", "retry_new", "retry_dep", "recover_step", "count"}
Restful == SchedulerPoints \ (HealPoints \cup {"send", "finish"})

SchedulerHolds ==
  /\ sched.at = "send" => sched.step \in Steps /\ gen[sched.step] > 0
  /\ sched.at \in HealPoints => /\ sched.step \in Steps
                                /\ sched.heal \in Steps /\ sched.retry \in Steps
                                /\ sched.heal # sched.retry
  /\ sched.at = "finish" => sched.final \in RunTerminal

Typed == TypeOK /\ SchedulerHolds

LEMMA TypedInit == Init => Typed
BY InitAssumption, NullAssumption, BoundAssumption
   DEF Init, Typed, TypeOK, SchedulerHolds, RowsOK, GraphOK, RunOK, SessionsOK, JobsOK,
       AttemptsOK, HandlersOK, SchedOK, QueueOK, EventsOK, HealPoints, Idle, Statuses,
       Waiting, Live, TerminalS, AcceptedS, RunTerminal, Reasons, Commits, NoReport,
       SchedulerPoints, Reports, FinalReports

\* A task in the middle of a report knows the step and the attempt.
LEMMA BusyHandler ==
  ASSUME HandlersOK, NEW w \in Workers, handler[w].at # "idle"
  PROVE  /\ handler[w].step \in Steps /\ handler[w].gen \in 1..MaxGen
         /\ handler[w] \in [at : Reports \cup {"enqueue"}, step : Steps, gen : 1..MaxGen]
BY DEF HandlersOK, NoReport

LEMMA FinishTyped ==
  ASSUME HandlersOK, NEW w \in Workers, Finish(w) PROVE HandlersOK'
BY DEF HandlersOK, Finish

LEMMA EmitTyped ==
  ASSUME EventsOK, NEW s \in Steps, NEW k \in {"created", "delivered", "failed"}, Emit(k, s)
  PROVE  EventsOK'
BY DEF EventsOK, Emit

\* Where the scheduler goes when it forgets, and when it remembers.
LEMMA ThenTyped ==
  ASSUME NEW pc \in Restful, Then(pc) PROVE SchedOK' /\ SchedulerHolds'
<1>1. sched' = [at |-> pc, step |-> NoStep, worker |-> NoWorker, heal |-> NoStep,
                retry |-> NoStep, todo |-> {}, final |-> "none"]
  BY DEF Then, Idle
<1>2. pc \in SchedulerPoints /\ pc \notin HealPoints /\ pc # "send" /\ pc # "finish"
  BY DEF Restful
<1>3. SchedOK'
  BY <1>1, <1>2 DEF SchedOK
<1>4. SchedulerHolds'
  BY <1>1, <1>2 DEF SchedulerHolds
<1> QED BY <1>3, <1>4

LEMMA GotoTyped ==
  ASSUME SchedOK, SchedulerHolds, sched.at \in HealPoints, NEW pc \in HealPoints, Goto(pc)
  PROVE  /\ SchedOK' /\ SchedulerHolds'
         /\ sched'.heal = sched.heal /\ sched'.retry = sched.retry
<1>1. /\ sched' \in [at : SchedulerPoints, step : Steps \cup {NoStep},
                     worker : Workers \cup {NoWorker}, heal : Steps \cup {NoStep},
                     retry : Steps \cup {NoStep}, todo : SUBSET Steps,
                     final : RunTerminal \cup {"none"}]
      /\ sched'.at = pc /\ sched'.step = sched.step
      /\ sched'.heal = sched.heal /\ sched'.retry = sched.retry
  BY DEF Goto, SchedOK, SchedulerPoints, HealPoints
<1>2. pc # "send" /\ pc # "finish"
  BY DEF HealPoints
<1>3. SchedOK'
  BY <1>1 DEF SchedOK
<1>4. SchedulerHolds'
  BY <1>1, <1>2 DEF SchedulerHolds
<1> QED BY <1>1, <1>3, <1>4

\* What a task of a connection, and what the scheduler, leave alone.
LEMMA HandlerFrame ==
  ASSUME Typed, RowsOK', JobsOK', HandlersOK', EventsOK',
         UNCHANGED <<gen, graph, heals, run, restarts, session, attempts, sched, queue>>
  PROVE  Typed'
BY DEF Typed, TypeOK, GraphOK, RunOK, SessionsOK, AttemptsOK, SchedOK, QueueOK,
       SchedulerHolds, graph

LEMMA SchedulerFrame ==
  ASSUME Typed, RowsOK', GraphOK', RunOK', JobsOK', SchedOK', SchedulerHolds', QueueOK',
         EventsOK', UNCHANGED <<session, attempts, handler>>
  PROVE  Typed'
BY DEF Typed, TypeOK, SessionsOK, AttemptsOK, HandlersOK

-----------------------------------------------------------------------------
(* Type correctness: connections, time, people and verdicts *)

LEMMA TypedConnect == ASSUME Typed, NEW w \in Workers, Connect(w) PROVE Typed'
BY DEF Connect, Typed, TypeOK, SchedulerHolds, RowsOK, GraphOK, RunOK, SessionsOK, JobsOK,
       AttemptsOK, HandlersOK, SchedOK, QueueOK, EventsOK, stepRows, graph, memory

LEMMA TypedDisconnect == ASSUME Typed, NEW w \in Workers, Disconnect(w) PROVE Typed'
BY DEF Disconnect, Typed, TypeOK, SchedulerHolds, RowsOK, GraphOK, RunOK, SessionsOK, JobsOK,
       AttemptsOK, HandlersOK, SchedOK, QueueOK, EventsOK, stepRows, graph, memory

LEMMA TypedGraceEnds == ASSUME Typed, NEW w \in Workers, GraceEnds(w) PROVE Typed'
BY DEF GraceEnds, Typed, TypeOK, SchedulerHolds, RowsOK, GraphOK, RunOK, SessionsOK, JobsOK,
       AttemptsOK, HandlersOK, SchedOK, QueueOK, EventsOK, stepRows, graph, memory

LEMMA TypedDeadlinePasses == ASSUME Typed, NEW s \in Steps, DeadlinePasses(s) PROVE Typed'
BY DEF DeadlinePasses, Typed, TypeOK, SchedulerHolds, RowsOK, GraphOK, RunOK, SessionsOK,
       JobsOK, AttemptsOK, HandlersOK, SchedOK, QueueOK, EventsOK, graph, memory

LEMMA TypedReceive ==
  ASSUME Typed, NEW w \in Workers, NEW a \in attempts, NEW kind \in Sent, Receive(w, a, kind)
  PROVE  Typed'
<1>1. a \in [worker : Workers, step : Steps, gen : 1..MaxGen] /\ kind \in Reports
  BY ScopeAssumption DEF Typed, TypeOK, AttemptsOK
<1>2. HandlersOK'
  BY <1>1 DEF Receive, Typed, TypeOK, HandlersOK
<1>3. AttemptsOK'
  BY DEF Receive, Typed, TypeOK, AttemptsOK
<1> QED
  BY <1>2, <1>3 DEF Receive, Typed, TypeOK, SchedulerHolds, RowsOK, GraphOK, RunOK,
     SessionsOK, JobsOK, SchedOK, QueueOK, EventsOK, db, stepRows, graph

LEMMA TypedManualOverride == ASSUME Typed, NEW s \in Steps, ManualOverride(s) PROVE Typed'
<1>1. RowsOK'
  BY DEF ManualOverride, Set, Typed, TypeOK, RowsOK, Statuses, TerminalS, AcceptedS, Live,
         Waiting
<1> QED
  BY <1>1 DEF ManualOverride, Typed, TypeOK, SchedulerHolds, GraphOK, RunOK, SessionsOK,
     JobsOK, AttemptsOK, HandlersOK, SchedOK, QueueOK, EventsOK, graph, memory

LEMMA TypedVerdict ==
  ASSUME Typed, NEW j \in jobs, NEW v \in {"verified", "failed", "inconclusive"}, Verdict(j, v)
  PROVE  Typed'
<1>1. RowsOK'
  BY DEF Verdict, Set, Typed, TypeOK, RowsOK, JobsOK, Statuses, TerminalS, AcceptedS, Live,
         Waiting
<1>2. JobsOK'
  BY DEF Verdict, Typed, TypeOK, JobsOK
<1> QED
  BY <1>1, <1>2 DEF Verdict, Typed, TypeOK, SchedulerHolds, GraphOK, RunOK, SessionsOK,
     AttemptsOK, HandlersOK, SchedOK, QueueOK, EventsOK, graph, memory

LEMMA TypedEndWithoutVerdict == ASSUME Typed, NEW j \in jobs, EndWithoutVerdict(j) PROVE Typed'
BY DEF EndWithoutVerdict, Typed, TypeOK, SchedulerHolds, RowsOK, GraphOK, RunOK, SessionsOK,
       JobsOK, AttemptsOK, HandlersOK, SchedOK, QueueOK, EventsOK, stepRows, graph, memory

-----------------------------------------------------------------------------
(* Type correctness: a worker's reports *)

LEMMA TypedStale ==
  ASSUME Typed, NEW w \in Workers, NEW from, handler[w].at # "idle", Stale(w, from)
  PROVE  Typed'
<1>1. HandlersOK'
  BY FinishTyped DEF Stale, Typed, TypeOK
<1> QED
  BY <1>1, HandlerFrame
     DEF Stale, Typed, TypeOK, RowsOK, JobsOK, EventsOK, db, stepRows

LEMMA TypedStartStep == ASSUME Typed, NEW w \in Workers, StartStep(w) PROVE Typed'
<1>1. handler[w].at # "idle"
  BY DEF StartStep, Busy
<1>2. CASE Stale(w, Live)
  BY <1>1, <1>2, TypedStale
<1>3. CASE ~Stale(w, Live)
  <2>1. RowsOK'
    <3>1. /\ handler[w].step \in Steps /\ status[handler[w].step] \in Live
          /\ Set(handler[w].step, "running")
          /\ UNCHANGED <<gen, owner, due, head, reason>>
      BY <1>1, <1>3, BusyHandler DEF StartStep, Cas, Typed, TypeOK
    <3> QED
      BY <3>1 DEF Set, Typed, TypeOK, RowsOK, Statuses, Live, Waiting, TerminalS, AcceptedS
  <2>2. HandlersOK'
    BY <1>3, FinishTyped DEF StartStep, Typed, TypeOK
  <2> QED
    BY <1>3, <2>1, <2>2, HandlerFrame DEF StartStep, Typed, TypeOK, JobsOK, EventsOK
<1> QED BY <1>2, <1>3

LEMMA TypedRenewLease == ASSUME Typed, NEW w \in Workers, RenewLease(w) PROVE Typed'
<1>1. handler[w].at # "idle"
  BY DEF RenewLease, Busy
<1>2. CASE Stale(w, Live)
  BY <1>1, <1>2, TypedStale
<1>3. CASE ~Stale(w, Live)
  <2>1. RowsOK'
    BY <1>1, <1>3, BusyHandler DEF RenewLease, Typed, TypeOK, RowsOK
  <2>2. HandlersOK'
    BY <1>3, FinishTyped DEF RenewLease, Typed, TypeOK
  <2> QED
    BY <1>3, <2>1, <2>2, HandlerFrame DEF RenewLease, Typed, TypeOK, JobsOK, EventsOK
<1> QED BY <1>2, <1>3

LEMMA TypedDeliverStep == ASSUME Typed, NEW w \in Workers, DeliverStep(w) PROVE Typed'
<1>1. /\ handler[w].at # "idle"
      /\ handler[w].step \in Steps /\ handler[w].gen \in 1..MaxGen
  BY BusyHandler DEF DeliverStep, Busy, Typed, TypeOK
<1>2. CASE Stale(w, Live)
  BY <1>1, <1>2, TypedStale
<1>3. CASE ~Stale(w, Live)
  <2>1. RowsOK'
    BY <1>1, <1>3 DEF DeliverStep, Set, Typed, TypeOK, RowsOK, Statuses, Commits, Live,
                      Waiting, TerminalS, AcceptedS
  <2>2. HandlersOK'
    <3>1. CASE Finish(w)
      BY <3>1, FinishTyped DEF Typed, TypeOK
    <3>2. CASE handler' = [handler EXCEPT ![w].at = "enqueue"]
      BY <1>1, <3>2, BusyHandler DEF Typed, TypeOK, HandlersOK
    <3> QED BY <1>3, <3>1, <3>2 DEF DeliverStep
  <2>3. EventsOK'
    BY <1>1, <1>3, EmitTyped DEF DeliverStep, Typed, TypeOK, EventsOK
  <2> QED
    BY <1>3, <2>1, <2>2, <2>3, HandlerFrame DEF DeliverStep, Typed, TypeOK, JobsOK
<1> QED BY <1>2, <1>3

LEMMA TypedBeginVerifyingStep ==
  ASSUME Typed, NEW w \in Workers, BeginVerifyingStep(w) PROVE Typed'
<1>1. handler[w].step \in Steps /\ handler[w].gen \in 1..MaxGen
  BY BusyHandler DEF BeginVerifyingStep, Busy, Typed, TypeOK
<1>2. RowsOK'
  BY <1>1 DEF BeginVerifyingStep, Set, Typed, TypeOK, RowsOK, Statuses, Live, Waiting,
              TerminalS, AcceptedS
<1>3. JobsOK'
  BY <1>1 DEF BeginVerifyingStep, Typed, TypeOK, JobsOK, Commits
<1>4. HandlersOK' /\ EventsOK'
  BY <1>1, FinishTyped, EmitTyped DEF BeginVerifyingStep, Typed, TypeOK
<1> QED
  BY <1>2, <1>3, <1>4, HandlerFrame DEF BeginVerifyingStep

LEMMA TypedRecordFailedOutput ==
  ASSUME Typed, NEW w \in Workers, RecordFailedOutput(w) PROVE Typed'
<1>1. /\ handler[w].at # "idle"
      /\ handler[w].step \in Steps /\ handler[w].gen \in 1..MaxGen
  BY BusyHandler DEF RecordFailedOutput, Busy, Typed, TypeOK
<1>2. RowsOK'
  BY <1>1 DEF RecordFailedOutput, Typed, TypeOK, RowsOK, Commits
<1>3. HandlersOK'
  BY <1>1, BusyHandler
     DEF RecordFailedOutput, Typed, TypeOK, HandlersOK, Reports, FinalReports
<1> QED
  BY <1>2, <1>3, HandlerFrame DEF RecordFailedOutput, Typed, TypeOK, JobsOK, EventsOK

LEMMA TypedFailStep == ASSUME Typed, NEW w \in Workers, FailStep(w) PROVE Typed'
<1>1. /\ handler[w].at # "idle" /\ handler[w].step \in Steps
  BY BusyHandler DEF FailStep, Busy, Typed, TypeOK
<1>2. CASE Stale(w, Live)
  BY <1>1, <1>2, TypedStale
<1>3. CASE ~Stale(w, Live)
  <2>1. RowsOK'
    BY <1>1, <1>3 DEF FailStep, Set, Typed, TypeOK, RowsOK, Statuses, TerminalS, Reasons, Live,
                      Waiting, AcceptedS
  <2>2. HandlersOK' /\ EventsOK'
    BY <1>1, <1>3, FinishTyped, EmitTyped DEF FailStep, Typed, TypeOK
  <2> QED
    BY <1>3, <2>1, <2>2, HandlerFrame DEF FailStep, Typed, TypeOK, JobsOK
<1> QED BY <1>2, <1>3

LEMMA TypedCancelStep == ASSUME Typed, NEW w \in Workers, CancelStep(w) PROVE Typed'
<1>1. handler[w].at # "idle" /\ handler[w].step \in Steps
  BY BusyHandler DEF CancelStep, Busy, Typed, TypeOK
<1>2. CASE Stale(w, Live)
  BY <1>1, <1>2, TypedStale
<1>3. CASE ~Stale(w, Live)
  <2>1. RowsOK'
    BY <1>1, <1>3
       DEF CancelStep, Set, Unassign, Typed, TypeOK, RowsOK, Statuses, TerminalS, Reasons,
           Live, Waiting, AcceptedS
  <2>2. HandlersOK' /\ EventsOK'
    BY <1>1, <1>3, FinishTyped, EmitTyped DEF CancelStep, Typed, TypeOK
  <2> QED
    BY <1>3, <2>1, <2>2, HandlerFrame DEF CancelStep, Typed, TypeOK, JobsOK
<1> QED BY <1>2, <1>3

LEMMA TypedBlockStep == ASSUME Typed, NEW w \in Workers, BlockStep(w) PROVE Typed'
<1> DEFINE from == Live \cup {"delivered", "verifying"}
<1>1. handler[w].at # "idle" /\ handler[w].step \in Steps
  BY BusyHandler DEF BlockStep, Busy, Typed, TypeOK
<1>2. CASE Stale(w, from)
  BY <1>1, <1>2, TypedStale
<1>3. CASE ~Stale(w, from)
  <2>1. RowsOK'
    BY <1>1, <1>3 DEF BlockStep, Set, Typed, TypeOK, RowsOK, Statuses, TerminalS, Live,
                      Waiting, AcceptedS
  <2>2. HandlersOK' /\ EventsOK'
    BY <1>1, <1>3, FinishTyped, EmitTyped DEF BlockStep, Typed, TypeOK
  <2> QED
    BY <1>3, <2>1, <2>2, HandlerFrame DEF BlockStep, Typed, TypeOK, JobsOK
<1> QED BY <1>2, <1>3

LEMMA TypedHandle == ASSUME Typed, NEW w \in Workers, Handle(w) PROVE Typed'
BY TypedStartStep, TypedRenewLease, TypedDeliverStep, TypedBeginVerifyingStep,
   TypedRecordFailedOutput, TypedFailStep, TypedCancelStep, TypedBlockStep DEF Handle

-----------------------------------------------------------------------------
(* Type correctness: the scheduler *)

\* A step of the scheduler that ends at a point where it remembers nothing.
LEMMA ThenFrame ==
  ASSUME Typed, NEW pc \in Restful, Then(pc), OthersIdle,
         RowsOK', GraphOK', RunOK', JobsOK', QueueOK', EventsOK'
  PROVE  Typed'
BY ThenTyped, SchedulerFrame DEF OthersIdle

LEMMA TypedRunCreated == ASSUME Typed, RunCreated PROVE Typed'
<1>1. "load_new" \in Restful
  BY DEF Restful, SchedulerPoints, HealPoints
<1> QED
  BY <1>1, ThenFrame DEF RunCreated, Takes, Typed, TypeOK, RowsOK, GraphOK, RunOK, JobsOK,
     QueueOK, EventsOK, OthersIdle, stepRows, graph, RunTerminal

LEMMA TypedStepDelivered == ASSUME Typed, NEW s \in Steps, StepDelivered(s) PROVE Typed'
<1>1. "load" \in Restful
  BY DEF Restful, SchedulerPoints, HealPoints
<1> QED
  BY <1>1, ThenFrame DEF StepDelivered, Takes, Typed, TypeOK, RowsOK, GraphOK, RunOK, JobsOK,
     QueueOK, EventsOK, OthersIdle, db, stepRows, graph

LEMMA TypedStepFailed == ASSUME Typed, NEW s \in Steps, StepFailed(s) PROVE Typed'
<1>1. RowsOK'
  BY DEF StepFailed, Cascade, Typed, TypeOK, RowsOK, Statuses, TerminalS, Live, Waiting,
         AcceptedS
<1>2. ASSUME Then("load") PROVE SchedOK' /\ SchedulerHolds'
  <2>1. "load" \in Restful
    BY DEF Restful, SchedulerPoints, HealPoints
  <2> QED BY <1>2, <2>1, ThenTyped
<1>3. ASSUME NEW h \in Steps, NEW r \in Steps, h # r,
             sched' = [Idle EXCEPT !.at = "heal_new", !.step = s, !.heal = h, !.retry = r]
      PROVE  SchedOK' /\ SchedulerHolds'
  <2>1. sched' = [at |-> "heal_new", step |-> s, worker |-> NoWorker, heal |-> h,
                  retry |-> r, todo |-> {}, final |-> "none"]
    BY <1>3 DEF Idle
  <2>2. SchedOK'
    BY <2>1 DEF SchedOK, SchedulerPoints
  <2>3. SchedulerHolds'
    BY <2>1, <1>3 DEF SchedulerHolds
  <2> QED BY <2>2, <2>3
<1>4. SchedOK' /\ SchedulerHolds'
  BY <1>2, <1>3 DEF StepFailed
<1> QED
  BY <1>1, <1>4, SchedulerFrame DEF StepFailed, Takes, OthersIdle, Typed, TypeOK, GraphOK,
     RunOK, JobsOK, QueueOK, EventsOK, graph

LEMMA TypedTryHeal == ASSUME Typed, TryHeal PROVE Typed'
<1>1. sched.at \in HealPoints
  BY DEF TryHeal, CreateHealStep, LinkHealStep, CreateRetryStep, LinkRetryStep, MarkRecovered,
         CountHeal, At, HealPoints
<1>2. sched.step \in Steps /\ sched.heal \in Steps /\ sched.retry \in Steps
  BY <1>1 DEF Typed, SchedulerHolds
<1>3. RowsOK' /\ GraphOK' /\ RunOK'
  <2>1. CASE CreateHealStep
    BY <1>2, <2>1 DEF CreateHealStep, OthersIdle, Set, Typed, TypeOK, RowsOK, GraphOK, RunOK,
                      graph, Statuses, Waiting, Live, TerminalS, AcceptedS
  <2>2. CASE LinkHealStep
    BY <1>2, <2>2 DEF LinkHealStep, OthersIdle, Typed, TypeOK, RowsOK, GraphOK, RunOK, stepRows
  <2>3. CASE CreateRetryStep
    BY <1>2, <2>3 DEF CreateRetryStep, OthersIdle, Set, Typed, TypeOK, RowsOK, GraphOK, RunOK,
                      Statuses, Waiting, Live, TerminalS, AcceptedS
  <2>4. CASE LinkRetryStep
    BY <1>2, <2>4 DEF LinkRetryStep, OthersIdle, Typed, TypeOK, RowsOK, GraphOK, RunOK, stepRows
  <2>5. CASE MarkRecovered
    BY <1>2, <2>5 DEF MarkRecovered, OthersIdle, Set, Typed, TypeOK, RowsOK, GraphOK, RunOK,
                      graph, Statuses, TerminalS, Live, Waiting, AcceptedS
  <2>6. CASE CountHeal
    BY <2>6 DEF CountHeal, OthersIdle, Typed, TypeOK, RowsOK, GraphOK, RunOK, stepRows, graph
  <2> QED BY <2>1, <2>2, <2>3, <2>4, <2>5, <2>6 DEF TryHeal
<1>4. SchedOK' /\ SchedulerHolds'
  <2>1. CASE CountHeal
    <3>1. "load" \in Restful
      BY DEF Restful, SchedulerPoints, HealPoints
    <3> QED BY <2>1, <3>1, ThenTyped DEF CountHeal
  <2>2. CASE \E pc \in HealPoints : Goto(pc)
    BY <1>1, <2>2, GotoTyped DEF Typed, TypeOK
  <2> QED BY <2>1, <2>2 DEF TryHeal, CreateHealStep, LinkHealStep, CreateRetryStep, LinkRetryStep,
                            MarkRecovered, HealPoints
<1>5. UNCHANGED <<jobs, queue, events, session, attempts, handler>>
  BY DEF TryHeal, CreateHealStep, LinkHealStep, CreateRetryStep, LinkRetryStep, MarkRecovered, CountHeal, OthersIdle
<1> QED
  BY <1>3, <1>4, <1>5, SchedulerFrame DEF Typed, TypeOK, JobsOK, QueueOK, EventsOK

LEMMA TypedLoads == ASSUME Typed, LoadReadySteps \/ ReconcileReadySteps PROVE Typed'
<1>1. \E pc \in Restful : Then(pc)
  <2>1. {"check", "assign", "reconcile", "idle"} \subseteq Restful
    BY DEF Restful, SchedulerPoints, HealPoints
  <2> QED BY <2>1 DEF LoadReadySteps, ReconcileReadySteps, At
<1>2. QueueOK'
  BY DEF LoadReadySteps, ReconcileReadySteps, Ready, Typed, TypeOK, QueueOK
<1> QED
  BY <1>1, <1>2, ThenFrame DEF LoadReadySteps, ReconcileReadySteps, Typed, TypeOK, RowsOK,
     GraphOK, RunOK, JobsOK, EventsOK, OthersIdle, db, stepRows, graph

LEMMA OrphanTyped == ASSUME RowsOK, NEW S \in SUBSET Steps, Orphan(S) PROVE RowsOK'
BY DEF Orphan, Unassign, RowsOK, Statuses, Waiting, Live, TerminalS, AcceptedS

LEMMA TypedExpireStaleLeases == ASSUME Typed, ExpireStaleLeases PROVE Typed'
<1>1. "grace" \in Restful /\ "recover_load" \in Restful
  BY DEF Restful, SchedulerPoints, HealPoints
<1>2. RowsOK'
  BY OrphanTyped DEF ExpireStaleLeases, Expired, Typed, TypeOK
<1>3. \E pc \in Restful : Then(pc)
  BY <1>1 DEF ExpireStaleLeases
<1> QED
  BY <1>2, <1>3, ThenFrame DEF ExpireStaleLeases, OthersIdle, Typed, TypeOK, GraphOK, RunOK,
     JobsOK, QueueOK, EventsOK, graph

LEMMA TypedWorkersPastGrace == ASSUME Typed, WorkersPastGrace PROVE Typed'
<1> DEFINE past == {s \in Steps : /\ status[s] \in Live
                                  /\ owner[s] \in Workers /\ session[owner[s]] = "past"}
<1>1. ASSUME Then("reconcile") PROVE SchedOK' /\ SchedulerHolds'
  <2>1. "reconcile" \in Restful
    BY DEF Restful, SchedulerPoints, HealPoints
  <2> QED BY <1>1, <2>1, ThenTyped
<1>2. ASSUME sched' = [sched EXCEPT !.at = "orphan", !.todo = past]
      PROVE  SchedOK' /\ SchedulerHolds'
  <2>1. SchedOK' /\ sched'.at = "orphan"
    BY <1>2 DEF Typed, TypeOK, SchedOK, SchedulerPoints
  <2>2. SchedulerHolds'
    BY <2>1 DEF SchedulerHolds, HealPoints
  <2> QED BY <2>1, <2>2
<1>3. SchedOK' /\ SchedulerHolds'
  BY <1>1, <1>2 DEF WorkersPastGrace
<1> QED
  BY <1>3, SchedulerFrame DEF WorkersPastGrace, OthersIdle, Typed, TypeOK, RowsOK, GraphOK,
     RunOK, JobsOK, QueueOK, EventsOK, db, stepRows, graph

LEMMA TypedOrphanStep == ASSUME Typed, NEW s \in Steps, OrphanStep(s) PROVE Typed'
<1>1. RowsOK'
  <2>1. CASE Orphan({s})
    BY <2>1, OrphanTyped DEF Typed, TypeOK
  <2>2. CASE UNCHANGED stepRows
    BY <2>2 DEF Typed, TypeOK, RowsOK, stepRows
  <2> QED BY <2>1, <2>2 DEF OrphanStep
<1>2. SchedOK' /\ sched'.at \in {"grace_load", "orphan"}
  BY DEF OrphanStep, Typed, TypeOK, SchedOK, SchedulerPoints
<1>3. SchedulerHolds'
  BY <1>2 DEF SchedulerHolds, HealPoints
<1> QED
  BY <1>1, <1>2, <1>3, SchedulerFrame DEF OrphanStep, OthersIdle, Typed, TypeOK, GraphOK,
     RunOK, JobsOK, QueueOK, EventsOK, graph

LEMMA TypedCheckRunDone == ASSUME Typed, CheckRunDone PROVE Typed'
<1>1. Outcome \in RunTerminal \cup {"none"}
  BY DEF Outcome, RunTerminal
<1>2. ASSUME sched' = [Idle EXCEPT !.at = "assign"] PROVE SchedOK' /\ SchedulerHolds'
  <2>1. "assign" \in Restful
    BY DEF Restful, SchedulerPoints, HealPoints
  <2> QED BY <1>2, <2>1, ThenTyped DEF Then
<1>3. ASSUME sched' = [Idle EXCEPT !.at = "finish", !.final = Outcome], Outcome # "none"
      PROVE  SchedOK' /\ SchedulerHolds'
  <2>1. sched' = [at |-> "finish", step |-> NoStep, worker |-> NoWorker, heal |-> NoStep,
                  retry |-> NoStep, todo |-> {}, final |-> Outcome]
    BY <1>3 DEF Idle
  <2>2. SchedOK'
    BY <1>1, <2>1 DEF SchedOK, SchedulerPoints
  <2>3. SchedulerHolds'
    BY <1>1, <1>3, <2>1 DEF SchedulerHolds, HealPoints
  <2> QED BY <2>2, <2>3
<1>4. SchedOK' /\ SchedulerHolds'
  BY <1>2, <1>3 DEF CheckRunDone
<1> QED
  BY <1>4, SchedulerFrame DEF CheckRunDone, OthersIdle, Typed, TypeOK, RowsOK, GraphOK,
     RunOK, JobsOK, QueueOK, EventsOK, db, stepRows, graph

LEMMA TypedFinishRun == ASSUME Typed, FinishRun PROVE Typed'
<1>1. "assign" \in Restful
  BY DEF Restful, SchedulerPoints, HealPoints
<1>2. RunOK'
  BY DEF FinishRun, At, OthersIdle, Typed, TypeOK, SchedulerHolds, RunOK
<1> QED
  BY <1>1, <1>2, ThenFrame DEF FinishRun, OthersIdle, Typed, TypeOK, RowsOK, GraphOK,
     JobsOK, QueueOK, EventsOK, stepRows, graph

-----------------------------------------------------------------------------
(* Type correctness: dispatch *)

LEMMA RestfulPoints == {"idle", "assign", "recover"} \subseteq Restful
BY DEF Restful, SchedulerPoints, HealPoints

LEMMA TypedNotLeased ==
  ASSUME Typed, NEW s \in Steps,
         NothingAssignable \/ RetryLater(s) \/ WaitForApproval(s) \/ ForgetStale(s)
  PROVE  Typed'
<1>1. \E pc \in Restful : Then(pc)
  BY RestfulPoints DEF NothingAssignable, RetryLater, WaitForApproval, ForgetStale
<1>2. QueueOK'
  BY DEF NothingAssignable, RetryLater, WaitForApproval, ForgetStale, Typed, TypeOK, QueueOK
<1>3. UNCHANGED <<db, events>> /\ OthersIdle
  BY DEF NothingAssignable, RetryLater, WaitForApproval, ForgetStale
<1> QED
  BY <1>1, <1>2, <1>3, ThenFrame DEF Typed, TypeOK, RowsOK, GraphOK, RunOK, JobsOK, EventsOK,
     OthersIdle, db, stepRows, graph

LEMMA TypedFailUnleased ==
  ASSUME Typed, NEW s \in Steps, NEW why \in {"text", "no_provider"}, FailUnleased(s, why)
  PROVE  Typed'
<1>1. RowsOK'
  BY DEF FailUnleased, Set, Typed, TypeOK, RowsOK, Statuses, TerminalS, Reasons, Live, Waiting,
         AcceptedS
<1>2. EventsOK' /\ QueueOK'
  BY EmitTyped DEF FailUnleased, Typed, TypeOK, QueueOK
<1>3. "assign" \in Restful
  BY RestfulPoints
<1> QED
  BY <1>1, <1>2, <1>3, ThenFrame DEF FailUnleased, OthersIdle, Typed, TypeOK, GraphOK, RunOK,
     JobsOK, graph

LEMMA TypedLeaseStep == ASSUME Typed, NEW s \in Steps, NEW w \in Workers, LeaseStep(s, w) PROVE Typed'
<1>1. RowsOK' /\ gen'[s] > 0
  BY BoundAssumption DEF LeaseStep, Set, NextGen, Typed, TypeOK, RowsOK, Statuses, Live
<1>2. sched' = [at |-> "send", step |-> s, worker |-> w, heal |-> NoStep,
                retry |-> NoStep, todo |-> {}, final |-> "none"]
  BY DEF LeaseStep, Idle
<1>3. SchedOK'
  BY <1>2 DEF SchedOK, SchedulerPoints
<1>4. SchedulerHolds'
  BY <1>1, <1>2 DEF SchedulerHolds, HealPoints
<1> QED
  BY <1>1, <1>3, <1>4, SchedulerFrame DEF LeaseStep, OthersIdle, Typed, TypeOK, GraphOK, RunOK,
     JobsOK, QueueOK, EventsOK, graph

LEMMA TypedSendOrder == ASSUME Typed, SendOrder PROVE Typed'
<1>1. sched.step \in Steps /\ sched.worker \in Workers /\ gen[sched.step] \in 1..MaxGen
  BY BoundAssumption DEF SendOrder, At, Registered, Typed, TypeOK, SchedulerHolds, RowsOK
<1>2. AttemptsOK'
  BY <1>1 DEF SendOrder, Typed, TypeOK, AttemptsOK
<1>3. SchedOK' /\ SchedulerHolds'
  BY RestfulPoints, ThenTyped DEF SendOrder
<1> QED
  BY <1>2, <1>3 DEF SendOrder, Typed, TypeOK, RowsOK, GraphOK, RunOK, SessionsOK, JobsOK,
     HandlersOK, QueueOK, EventsOK, db, stepRows, graph

LEMMA TypedUnleaseStep == ASSUME Typed, UnleaseStep PROVE Typed'
<1>1. sched.step \in Steps
  BY DEF UnleaseStep, At, Typed, SchedulerHolds
<1>2. RowsOK'
  <2>1. CASE status[sched.step] = "leased"
    <3>1. status' = [status EXCEPT ![sched.step] = "pending"] /\ Unassign({sched.step})
      BY <2>1 DEF UnleaseStep, Set
    <3> QED
      BY <1>1, <3>1 DEF UnleaseStep, Unassign, Typed, TypeOK, RowsOK, Statuses, Waiting, Live,
                        TerminalS, AcceptedS
  <2>2. CASE status[sched.step] # "leased"
    BY <2>2 DEF UnleaseStep, Typed, TypeOK, RowsOK
  <2> QED BY <2>1, <2>2
<1>3. QueueOK'
  BY <1>1 DEF UnleaseStep, Typed, TypeOK, QueueOK
<1> QED
  BY <1>2, <1>3, RestfulPoints, ThenFrame DEF UnleaseStep, OthersIdle, Typed, TypeOK, GraphOK, RunOK,
     JobsOK, EventsOK, graph

LEMMA TypedForgetMemory ==
  ASSUME Typed, NEW cancelled \in SUBSET Steps, ForgetMemory(cancelled) PROVE Typed'
<1>1. RowsOK'
  BY DEF ForgetMemory, Unassign, Typed, TypeOK, RowsOK, Statuses, TerminalS, Reasons, Live,
         Waiting, AcceptedS
<1>2. SchedOK' /\ SchedulerHolds'
  BY RestfulPoints, ThenTyped DEF ForgetMemory, Then
<1>3. RunOK' /\ SessionsOK'
  BY BoundAssumption DEF ForgetMemory, Typed, TypeOK, RunOK, SessionsOK
<1>4. HandlersOK' /\ QueueOK' /\ EventsOK' /\ AttemptsOK'
  BY DEF ForgetMemory, HandlersOK, QueueOK, EventsOK, AttemptsOK
<1> QED
  BY <1>1, <1>2, <1>3, <1>4 DEF ForgetMemory, Typed, TypeOK, GraphOK, JobsOK, graph

-----------------------------------------------------------------------------
(* Type correctness *)

LEMMA TypedNext == ASSUME Typed, [Next]_vars PROVE Typed'
<1>1. CASE Environment
  BY <1>1, TypedConnect, TypedDisconnect, TypedGraceEnds, TypedDeadlinePasses, TypedReceive,
     TypedManualOverride, TypedVerdict, TypedEndWithoutVerdict DEF Environment
<1>2. CASE Scheduler
  <2>1. CASE Dispatch
    <3>1. ASSUME NEW s \in Steps, NothingAssignable \/ RetryLater(s) \/ WaitForApproval(s) \/ ForgetStale(s)
          PROVE  Typed'
      BY <3>1, TypedNotLeased
    <3>2. CASE NothingAssignable
      BY <3>2, RestfulPoints, ThenFrame
         DEF NothingAssignable, Typed, TypeOK, RowsOK, GraphOK, RunOK, JobsOK, EventsOK,
             QueueOK, OthersIdle, db, stepRows, graph
    <3> QED
      BY <2>1, <3>1, <3>2, TypedFailUnleased, TypedLeaseStep, TypedSendOrder, TypedUnleaseStep
         DEF Dispatch
  <2> QED
    BY <1>2, <2>1, TypedRunCreated, TypedStepDelivered, TypedStepFailed, TypedOrphanStep,
       TypedTryHeal, TypedLoads, TypedExpireStaleLeases, TypedWorkersPastGrace,
       TypedCheckRunDone, TypedFinishRun DEF Scheduler
<1>3. CASE \E w \in Workers : Handle(w)
  BY <1>3, TypedHandle
<1>4. CASE Crash \/ Shutdown
  BY <1>4, TypedForgetMemory DEF Crash, Shutdown
<1>5. CASE UNCHANGED vars
  BY <1>5 DEF vars, db, memory, stepRows, graph, Typed, TypeOK, SchedulerHolds, RowsOK,
     GraphOK, RunOK, SessionsOK, JobsOK, AttemptsOK, HandlersOK, SchedOK, QueueOK, EventsOK
<1> QED BY <1>1, <1>2, <1>3, <1>4, <1>5 DEF Next

LEMMA AlwaysTyped == Spec => []Typed
BY TypedInit, TypedNext, PTL DEF Spec

\* Every variable always has its type, and so every action reads rows, reports
\* and program counters that exist.
THEOREM TypeCorrect == Spec => []TypeOK
BY AlwaysTyped, PTL DEF Typed

-----------------------------------------------------------------------------
(* What a statement may make of a status.  Everything else the scheduler and
   the reports rely on follows from this: a step that ended stays ended, and
   what was accepted stays accepted. *)

Undone == Waiting \cup Live \cup {"absent"}

MayBecome(a, b) == /\ a \notin Undone => b \notin Undone
                   /\ a \in AcceptedS => b \in AcceptedS
                   /\ a \in TerminalS => b \in TerminalS
                   /\ a = "absent" <=> b = "absent"

Moved == \A s \in Steps : MayBecome(status[s], status'[s])

\* Only try_heal inserts rows.
Grows == \A s \in Steps : \/ MayBecome(status[s], status'[s])
                          \/ status[s] = "absent" /\ status'[s] = "pending"

LEMMA SameMoved == ASSUME UNCHANGED status PROVE Moved
BY DEF Moved, MayBecome

LEMMA SetMoved ==
  ASSUME RowsOK, NEW s \in Steps, NEW st, Set(s, st), MayBecome(status[s], st) PROVE Moved
<1>1. ASSUME NEW t \in Steps PROVE MayBecome(status[t], status'[t])
  <2>1. CASE t = s
    BY <2>1 DEF Set, RowsOK
  <2>2. CASE t # s
    <3>1. status'[t] = status[t]
      BY <2>2 DEF Set, RowsOK
    <3> QED BY <3>1 DEF MayBecome
  <2> QED BY <2>1, <2>2
<1> QED BY <1>1 DEF Moved

LEMMA MoveMoved ==
  ASSUME RowsOK, NEW S \in SUBSET Steps, NEW st,
         status' = [s \in Steps |-> IF s \in S THEN st ELSE status[s]],
         \A s \in S : MayBecome(status[s], st)
  PROVE  Moved
<1>1. ASSUME NEW t \in Steps PROVE MayBecome(status[t], status'[t])
  <2>1. CASE t \in S
    BY <2>1
  <2>2. CASE t \notin S
    <3>1. status'[t] = status[t]
      BY <2>2
    <3> QED BY <3>1 DEF MayBecome
  <2> QED BY <2>1, <2>2
<1> QED BY <1>1 DEF Moved

\* The statuses each statement takes a step from and to.
LEMMA Moves ==
  /\ \A a \in Live, b \in {"running", "delivered", "failed", "cancelled", "execution_failed",
                           "orphaned", "pending"} : MayBecome(a, b)
  /\ \A a \in Waiting, b \in {"leased", "failed"} : MayBecome(a, b)
  /\ MayBecome("delivered", "verifying") /\ MayBecome("failed", "recovered")
  /\ \A a \in {"delivered", "verifying"} : MayBecome(a, "execution_failed")
  /\ \A b \in {"verified", "failed", "inconclusive"} : MayBecome("verifying", b)
  /\ \A a \in {"delivered", "verifying", "failed", "inconclusive"} : MayBecome(a, "manual_override")
  /\ \A a \in Statuses \ (TerminalS \cup {"absent"}) : MayBecome(a, "skipped")
BY DEF MayBecome, Undone, Waiting, Live, AcceptedS, TerminalS, Statuses

LEMMA HandleMoved == ASSUME Typed, NEW w \in Workers, Handle(w) PROVE Moved
<1> DEFINE s == handler[w].step
<1>1. handler[w].at # "idle" /\ s \in Steps
  BY BusyHandler DEF Handle, StartStep, RenewLease, DeliverStep, BeginVerifyingStep, FailStep,
     RecordFailedOutput, CancelStep, BlockStep, Busy, Typed, TypeOK
<1>2. CASE UNCHANGED status
  BY <1>2, SameMoved
<1>3. CASE \E st \in {"running", "delivered", "failed", "cancelled", "execution_failed"} :
             status[s] \in Live /\ Set(s, st)
  BY <1>1, <1>3, Moves, SetMoved DEF Typed, TypeOK
<1>4. CASE status[s] = "delivered" /\ Set(s, "verifying")
  BY <1>1, <1>4, Moves, SetMoved DEF Typed, TypeOK
<1>5. CASE status[s] \in {"delivered", "verifying"} /\ Set(s, "execution_failed")
  BY <1>1, <1>5, Moves, SetMoved DEF Typed, TypeOK
<1> QED
  BY <1>2, <1>3, <1>4, <1>5
     DEF Handle, StartStep, RenewLease, DeliverStep, BeginVerifyingStep, FailStep,
         RecordFailedOutput, CancelStep, BlockStep, Stale, Cas, db, stepRows

LEMMA EnvironmentMoved == ASSUME Typed, Environment PROVE Moved
<1>1. CASE UNCHANGED status
  BY <1>1, SameMoved
<1>2. CASE \E s \in Steps : ManualOverride(s)
  BY <1>2, Moves, SetMoved DEF ManualOverride, Typed, TypeOK
<1>3. ASSUME NEW j \in jobs, NEW v \in {"verified", "failed", "inconclusive"}, Verdict(j, v),
             status' # status
      PROVE  Moved
  BY <1>3, Moves, SetMoved DEF Verdict, Cas, Typed, TypeOK, JobsOK
<1> QED
  BY <1>1, <1>2, <1>3 DEF Environment, Connect, Disconnect, GraceEnds, DeadlinePasses, Receive,
     EndWithoutVerdict, db, stepRows

LEMMA SchedulerMoved ==
  ASSUME Typed, Scheduler, ~CreateHealStep, ~CreateRetryStep PROVE Moved
<1>1. CASE UNCHANGED status
  BY <1>1, SameMoved
<1>2. CASE MarkRecovered
  BY <1>2, SameMoved, Moves, SetMoved DEF MarkRecovered, At, HealPoints, Typed, TypeOK,
     SchedulerHolds
<1>3. CASE \E s \in Steps : StepFailed(s)
  <2>1. PICK s \in Steps : StepFailed(s)
    BY <1>3
  <2>2. CASE Cascade(Downstream(s))
    <3>1. \A t \in Downstream(s) : t \in Steps /\ status[t] \in Statuses \ (TerminalS \cup {"absent"})
      BY DEF Downstream, Present, Terminal, Typed, TypeOK, RowsOK
    <3> QED BY <2>2, <3>1, Moves, MoveMoved DEF Cascade, Typed, TypeOK
  <2> QED BY <1>1, <2>1, <2>2 DEF StepFailed
<1>4. CASE ExpireStaleLeases \/ \E s \in Steps : OrphanStep(s)
  <2>1. ASSUME NEW S \in SUBSET Steps, Orphan(S), \A s \in S : status[s] \in Live PROVE Moved
    BY <2>1, Moves, MoveMoved DEF Orphan, Typed, TypeOK
  <2> QED BY <1>1, <1>4, <2>1 DEF ExpireStaleLeases, Expired, OrphanStep, stepRows
<1>5. CASE \E s \in Steps : \/ \E why \in {"text", "no_provider"} : FailUnleased(s, why)
                            \/ \E w \in Workers : LeaseStep(s, w)
  BY <1>5, Moves, SetMoved DEF FailUnleased, LeaseStep, Typed, TypeOK
<1>6. CASE UnleaseStep
  <2>1. CASE status[sched.step] = "leased"
    BY <1>6, <2>1, Moves, SetMoved DEF UnleaseStep, At, Live, Typed, TypeOK, SchedulerHolds
  <2> QED BY <1>1, <1>6, <2>1 DEF UnleaseStep
<1> QED
  BY <1>1, <1>2, <1>3, <1>4, <1>5, <1>6
     DEF Scheduler, Dispatch, TryHeal, RunCreated, StepDelivered, LinkHealStep, LinkRetryStep,
         CountHeal, LoadReadySteps, ReconcileReadySteps, WorkersPastGrace, CheckRunDone,
         FinishRun, NothingAssignable, RetryLater, WaitForApproval, ForgetStale, SendOrder,
         db, stepRows

LEMMA CreateGrows ==
  ASSUME Typed, CreateHealStep \/ CreateRetryStep,
         sched.at = "heal_new" => status[sched.heal] = "absent",
         sched.at = "retry_new" => status[sched.retry] = "absent"
  PROVE  Grows
<1>1. PICK s \in Steps : status[s] = "absent" /\ Set(s, "pending")
  BY DEF CreateHealStep, CreateRetryStep, At, HealPoints, Typed, SchedulerHolds
<1>2. ASSUME NEW t \in Steps, t # s PROVE status'[t] = status[t]
  BY <1>1, <1>2 DEF Set, Typed, TypeOK, RowsOK
<1>3. status'[s] = "pending"
  BY <1>1 DEF Set, Typed, TypeOK, RowsOK
<1> QED BY <1>1, <1>2, <1>3 DEF Grows, MayBecome

LEMMA StopMoved == ASSUME Typed, Crash \/ Shutdown PROVE Moved
<1>1. ASSUME NEW S \in SUBSET Steps, ForgetMemory(S), \A s \in S : status[s] \in Live PROVE Moved
  BY <1>1, Moves, MoveMoved DEF ForgetMemory, Typed, TypeOK
<1> QED BY <1>1 DEF Crash, Shutdown

-----------------------------------------------------------------------------
(* Nothing is leased on ground that is not accepted.  lease_step compares only
   the status, so the reason lies in the past: a step enters the queue when
   its dependencies are satisfied, they stay satisfied, and no edge is added
   to a step that ever was in the queue.  The edges that healing adds go to
   steps so new that nobody has queued them: try_heal runs in the same task
   as the load of the queue. *)

Grounded(s) == needs[s] \subseteq Accepted /\ after[s] \subseteq Terminal

\* Not in the queue, and never leased.
Untouched(s) == gen[s] = 0 /\ s \notin queue

HealInOrder ==
  /\ sched.at = "heal_new" => status[sched.heal] = "absent"
  /\ sched.at = "heal_dep" => Untouched(sched.heal)
  /\ sched.at \in {"heal_new", "heal_dep", "retry_new"} => status[sched.retry] = "absent"
  /\ sched.at = "retry_dep" => Untouched(sched.retry)

Ground == /\ Typed
          /\ \A s \in Steps : gen[s] > 0 \/ s \in queue => Grounded(s)
          /\ \A s \in Steps : status[s] = "absent" => Untouched(s)
          /\ HealInOrder

LEMMA GroundInit == Init => Ground
<1> SUFFICES ASSUME Init PROVE Ground
  OBVIOUS
<1>1. Typed
  BY TypedInit
<1>2. \A s \in Steps : gen[s] = 0 /\ s \notin queue
  BY DEF Init
<1>3. HealInOrder
  BY DEF Init, Idle, HealInOrder
<1> QED BY <1>1, <1>2, <1>3 DEF Ground, Untouched

\* Growing statuses keep satisfied dependencies satisfied.
LEMMA GroundKept ==
  ASSUME Typed, Grows, NEW s \in Steps, Grounded(s), needs'[s] = needs[s], after'[s] = after[s]
  PROVE  Grounded(s)'
BY DEF Grounded, Grows, MayBecome, Accepted, Terminal, AcceptedS, TerminalS

LEMMA MovedGrows == Moved => Grows
BY DEF Moved, Grows

\* A step of anyone but the scheduler; a crash empties the queue.
LEMMA GroundElsewhere ==
  ASSUME Ground, Typed', Moved, UNCHANGED <<gen, needs, after>>,
         UNCHANGED <<sched, queue>> \/ (queue' = {} /\ sched'.at = "recover")
  PROVE  Ground'
<1>1. \A s \in Steps : gen'[s] > 0 \/ s \in queue' => Grounded(s)'
  BY GroundKept, MovedGrows DEF Ground
<1>2. \A s \in Steps : status'[s] = "absent" => Untouched(s)'
  BY DEF Ground, Untouched, Moved, MayBecome
<1>3. HealInOrder'
  <2>1. CASE sched'.at = "recover"
    BY <2>1 DEF HealInOrder
  <2>2. CASE UNCHANGED <<sched, queue>> /\ sched.at \in HealPoints
    <3>1. sched.heal \in Steps /\ sched.retry \in Steps
      BY <2>2 DEF Ground, Typed, SchedulerHolds
    <3> QED BY <2>2, <3>1 DEF Ground, HealInOrder, Untouched, Moved, MayBecome
  <2>3. CASE UNCHANGED <<sched, queue>> /\ sched.at \notin HealPoints
    BY <2>3 DEF HealInOrder, HealPoints
  <2> QED BY <2>1, <2>2, <2>3
<1> QED BY <1>1, <1>2, <1>3 DEF Ground

\* A step of the scheduler outside try_heal: what is queued or leased was
\* queued or leased before, or is there and satisfied.
LEMMA GroundResting ==
  ASSUME Ground, Typed', Moved, UNCHANGED <<needs, after>>,
         sched'.at \notin {"heal_new", "heal_dep", "retry_new", "retry_dep"},
         \A s \in Steps : gen'[s] > 0 \/ s \in queue' =>
           gen[s] > 0 \/ s \in queue \/ (Grounded(s) /\ status[s] # "absent")
  PROVE  Ground'
<1>1. \A s \in Steps : gen'[s] > 0 \/ s \in queue' => Grounded(s)'
  BY GroundKept, MovedGrows DEF Ground
<1>2. \A s \in Steps : status'[s] = "absent" => Untouched(s)'
  <2> SUFFICES ASSUME NEW s \in Steps, status'[s] = "absent" PROVE gen'[s] = 0 /\ s \notin queue'
    BY DEF Untouched
  <2>1. status[s] = "absent" /\ gen[s] = 0 /\ s \notin queue
    BY DEF Ground, Untouched, Moved, MayBecome
  <2>2. gen'[s] \in Nat
    BY BoundAssumption DEF Typed, TypeOK, RowsOK
  <2> QED BY <2>1, <2>2
<1>3. HealInOrder'
  BY DEF HealInOrder
<1> QED BY <1>1, <1>2, <1>3 DEF Ground

LEMMA GroundTryHeal == ASSUME Ground, Typed', TryHeal PROVE Ground'
<1> DEFINE x == sched.heal  y == sched.retry
<1>1. sched.step \in Steps /\ x \in Steps /\ y \in Steps /\ x # y /\ Typed
  BY DEF Ground, Typed, SchedulerHolds, HealPoints, TryHeal, CreateHealStep, LinkHealStep, CreateRetryStep,
     LinkRetryStep, MarkRecovered, CountHeal, At
<1>2. sched.at \in HealPoints /\ UNCHANGED <<gen, queue>>
  BY DEF HealPoints, TryHeal, CreateHealStep, LinkHealStep, CreateRetryStep, LinkRetryStep, MarkRecovered, CountHeal, At, stepRows
<1>3. ASSUME NEW pc \in HealPoints, Goto(pc) PROVE sched'.at = pc /\ sched'.heal = x /\ sched'.retry = y
  BY <1>1, <1>2, <1>3, GotoTyped DEF Goto, Typed, TypeOK, SchedOK
<1>4. CASE CreateHealStep
  <2>1. Grows
    BY <1>1, <1>4, CreateGrows DEF Ground, HealInOrder
  <2>2. sched.at = "heal_new" /\ sched'.at = "heal_dep" /\ sched'.heal = x /\ sched'.retry = y
    BY <1>3, <1>4 DEF CreateHealStep, At, HealPoints
  <2>3. status' = [status EXCEPT ![x] = "pending"] /\ UNCHANGED <<needs, after>>
    BY <1>4 DEF CreateHealStep, Set, graph
  <2>4. status[x] = "absent" /\ status[y] = "absent" /\ Untouched(x)
    BY <1>1, <2>2 DEF Ground, HealInOrder
  <2>5. HealInOrder'
    BY <1>1, <1>2, <2>2, <2>3, <2>4 DEF HealInOrder, Untouched, Typed, TypeOK, RowsOK
  <2>6. \A s \in Steps : gen'[s] > 0 \/ s \in queue' => Grounded(s)'
    BY <1>1, <1>2, <2>1, <2>3, GroundKept DEF Ground
  <2>7. \A s \in Steps : status'[s] = "absent" => Untouched(s)'
    BY <1>1, <1>2, <2>3 DEF Ground, Untouched, Typed, TypeOK, RowsOK
  <2> QED BY <2>5, <2>6, <2>7 DEF Ground
<1>5. CASE LinkHealStep
  <2>1. sched.at = "heal_dep" /\ sched'.at = "retry_new" /\ sched'.heal = x /\ sched'.retry = y
    BY <1>3, <1>5 DEF LinkHealStep, At, HealPoints
  <2>2. UNCHANGED <<status, needs>> /\ \A s \in Steps \ {x} : after'[s] = after[s]
    BY <1>1, <1>5 DEF LinkHealStep, stepRows, Typed, TypeOK, GraphOK
  <2>3. Grows
    BY <2>2, SameMoved, MovedGrows
  <2>4. \A s \in Steps : gen'[s] > 0 \/ s \in queue' => Grounded(s)'
    BY <1>1, <1>2, <2>1, <2>2, <2>3, GroundKept DEF Ground, HealInOrder, Untouched
  <2>5. HealInOrder' /\ \A s \in Steps : status'[s] = "absent" => Untouched(s)'
    BY <1>2, <2>1, <2>2 DEF Ground, HealInOrder, Untouched
  <2> QED BY <2>4, <2>5 DEF Ground
<1>6. CASE CreateRetryStep
  <2>1. Grows
    BY <1>1, <1>6, CreateGrows DEF Ground, HealInOrder
  <2>2. sched.at = "retry_new" /\ sched'.at = "retry_dep" /\ sched'.heal = x /\ sched'.retry = y
    BY <1>3, <1>6 DEF CreateRetryStep, At, HealPoints
  <2>3. status' = [status EXCEPT ![y] = "pending"] /\ UNCHANGED <<needs, after>>
    BY <1>6 DEF CreateRetryStep, Set
  <2>4. Untouched(y)
    BY <1>1, <2>2 DEF Ground, HealInOrder
  <2>5. HealInOrder'
    BY <1>2, <2>2, <2>4 DEF HealInOrder, Untouched
  <2>6. \A s \in Steps : gen'[s] > 0 \/ s \in queue' => Grounded(s)'
    BY <1>1, <1>2, <2>1, <2>3, GroundKept DEF Ground
  <2>7. \A s \in Steps : status'[s] = "absent" => Untouched(s)'
    BY <1>1, <1>2, <2>3 DEF Ground, Untouched, Typed, TypeOK, RowsOK
  <2> QED BY <2>5, <2>6, <2>7 DEF Ground
<1>7. CASE LinkRetryStep
  <2>1. sched.at = "retry_dep" /\ sched'.at = "recover_step"
    BY <1>3, <1>7 DEF LinkRetryStep, At, HealPoints
  <2>2. UNCHANGED <<status, after>> /\ \A s \in Steps \ {y} : needs'[s] = needs[s]
    BY <1>1, <1>7 DEF LinkRetryStep, stepRows, Typed, TypeOK, GraphOK
  <2>3. Grows
    BY <2>2, SameMoved, MovedGrows
  <2>4. \A s \in Steps : gen'[s] > 0 \/ s \in queue' => Grounded(s)'
    BY <1>1, <1>2, <2>1, <2>2, <2>3, GroundKept DEF Ground, HealInOrder, Untouched
  <2>5. HealInOrder' /\ \A s \in Steps : status'[s] = "absent" => Untouched(s)'
    BY <1>2, <2>1, <2>2 DEF Ground, HealInOrder, Untouched
  <2> QED BY <2>4, <2>5 DEF Ground
<1>8. CASE MarkRecovered \/ CountHeal
  <2>1. Moved
    BY <1>1, <1>8, SchedulerMoved DEF Scheduler, TryHeal, MarkRecovered, CountHeal, CreateHealStep, CreateRetryStep, At
  <2>2. sched'.at \in {"count", "load"}
    <3>1. CASE MarkRecovered
      BY <1>3, <3>1 DEF MarkRecovered, HealPoints
    <3>2. CASE CountHeal
      BY <3>2 DEF CountHeal, Then, Idle
    <3> QED BY <1>8, <3>1, <3>2
  <2> QED BY <1>2, <1>8, <2>1, <2>2, GroundResting DEF MarkRecovered, CountHeal, graph
<1> QED BY <1>4, <1>5, <1>6, <1>7, <1>8 DEF TryHeal

LEMMA GroundStepFailed == ASSUME Ground, Typed', NEW s \in Steps, StepFailed(s) PROVE Ground'
<1>1. Moved /\ UNCHANGED <<gen, needs, after, queue>>
  BY SchedulerMoved DEF Ground, Scheduler, StepFailed, Takes, CreateHealStep, CreateRetryStep, At, graph
<1>2. CASE Then("load")
  BY <1>1, <1>2, GroundResting DEF Then, Idle
<1>3. CASE \E h, r \in Steps \ Present :
             h # r /\ sched' = [Idle EXCEPT !.at = "heal_new", !.step = s, !.heal = h, !.retry = r]
  <2>1. PICK h, r \in Steps \ Present :
             sched' = [Idle EXCEPT !.at = "heal_new", !.step = s, !.heal = h, !.retry = r]
    BY <1>3
  <2>2. sched'.at = "heal_new" /\ sched'.heal = h /\ sched'.retry = r
    BY <2>1 DEF Idle
  <2>3. status'[h] = "absent" /\ status'[r] = "absent"
    BY <1>1, <2>1 DEF Present, Moved, MayBecome
  <2>4. HealInOrder'
    BY <2>2, <2>3 DEF HealInOrder
  <2>5. \A t \in Steps : gen'[t] > 0 \/ t \in queue' => Grounded(t)'
    BY <1>1, GroundKept, MovedGrows DEF Ground
  <2>6. \A t \in Steps : status'[t] = "absent" => Untouched(t)'
    BY <1>1 DEF Ground, Untouched, Moved, MayBecome
  <2> QED BY <2>4, <2>5, <2>6 DEF Ground
<1> QED BY <1>2, <1>3 DEF StepFailed

LEMMA GroundLoads == ASSUME Ground, Typed', LoadReadySteps \/ ReconcileReadySteps PROVE Ground'
<1>1. Moved
  BY SchedulerMoved DEF Ground, Scheduler, LoadReadySteps, ReconcileReadySteps, CreateHealStep,
     CreateRetryStep, At
<1>2. UNCHANGED <<gen, needs, after>> /\ queue' \subseteq queue \cup Ready
  BY DEF LoadReadySteps, ReconcileReadySteps, db, stepRows, graph
<1>3. \A s \in Ready : Grounded(s) /\ status[s] # "absent"
  BY DEF Ready, Grounded, Waiting
<1>4. sched'.at \in {"check", "assign", "reconcile", "idle"}
  BY DEF LoadReadySteps, ReconcileReadySteps, Then, Idle, At
<1> QED BY <1>1, <1>2, <1>3, <1>4, GroundResting

LEMMA GroundDispatch == ASSUME Ground, Typed', Dispatch PROVE Ground'
<1>1. Moved
  <2>1. ~CreateHealStep /\ ~CreateRetryStep
    BY DEF Dispatch, NothingAssignable, RetryLater, WaitForApproval, ForgetStale, SendOrder,
       FailUnleased, LeaseStep, UnleaseStep, Assigned, CreateHealStep, CreateRetryStep, At
  <2> QED BY <2>1, SchedulerMoved DEF Ground, Scheduler
<1>2. UNCHANGED <<needs, after>>
  BY DEF Dispatch, NothingAssignable, RetryLater, WaitForApproval, ForgetStale, SendOrder,
     FailUnleased, LeaseStep, UnleaseStep, db, graph
<1>3. sched'.at \in {"idle", "assign", "send"}
  BY DEF Dispatch, NothingAssignable, RetryLater, WaitForApproval, ForgetStale, SendOrder,
     FailUnleased, LeaseStep, UnleaseStep, Then, Idle
<1>4. \A s \in Steps : gen'[s] > 0 \/ s \in queue' => gen[s] > 0 \/ s \in queue
  <2>1. CASE UNCHANGED gen /\ queue' \subseteq queue
    BY <2>1
  <2>2. CASE UnleaseStep
    BY <2>2 DEF UnleaseStep, At, Ground, Typed, SchedulerHolds
  <2>3. CASE \E s \in Steps, w \in Workers : LeaseStep(s, w)
    BY <2>3 DEF LeaseStep, Assigned, Ground, Typed, TypeOK, RowsOK
  <2> QED
    BY <2>1, <2>2, <2>3 DEF Dispatch, NothingAssignable, RetryLater, WaitForApproval, ForgetStale,
       SendOrder, FailUnleased, db, stepRows
<1> QED BY <1>1, <1>2, <1>3, <1>4, GroundResting

\* The scheduler's other steps touch neither edges nor attempts nor the queue.
LEMMA GroundSweeps ==
  ASSUME Ground, Typed',
         \/ RunCreated \/ ExpireStaleLeases \/ WorkersPastGrace \/ CheckRunDone \/ FinishRun
         \/ \E s \in Steps : StepDelivered(s) \/ OrphanStep(s)
  PROVE  Ground'
<1>1. Moved
  <2>1. ~CreateHealStep /\ ~CreateRetryStep
    BY DEF RunCreated, ExpireStaleLeases, WorkersPastGrace, CheckRunDone, FinishRun, StepDelivered,
       OrphanStep, Takes, CreateHealStep, CreateRetryStep, At
  <2> QED BY <2>1, SchedulerMoved DEF Ground, Scheduler
<1>2. UNCHANGED <<gen, needs, after, queue>>
  BY DEF RunCreated, ExpireStaleLeases, WorkersPastGrace, CheckRunDone, FinishRun, StepDelivered,
     OrphanStep, Orphan, db, stepRows, graph
<1>3. sched'.at \notin HealPoints
  <2>1. CASE \E s \in Steps : OrphanStep(s)
    BY <2>1 DEF OrphanStep, HealPoints, Typed, TypeOK, SchedOK, Ground
  <2>2. CASE WorkersPastGrace
    BY <2>2 DEF WorkersPastGrace, Then, Idle, HealPoints, Typed, TypeOK, SchedOK, Ground
  <2> QED
    BY <2>1, <2>2 DEF RunCreated, ExpireStaleLeases, CheckRunDone, FinishRun, StepDelivered,
       Then, Idle, HealPoints
<1> QED BY <1>1, <1>2, <1>3, GroundResting DEF HealPoints

LEMMA GroundNext == ASSUME Ground, [Next]_vars PROVE Ground'
<1>1. Typed /\ Typed'
  BY TypedNext DEF Ground
<1>2. CASE Environment
  <2>1. UNCHANGED <<gen, needs, after, sched, queue>>
    BY <1>2 DEF Environment, Connect, Disconnect, GraceEnds, DeadlinePasses, Receive,
       EndWithoutVerdict, Verdict, ManualOverride, db, stepRows, graph, memory
  <2> QED BY <1>1, <1>2, <2>1, EnvironmentMoved, GroundElsewhere
<1>3. CASE \E w \in Workers : Handle(w)
  <2>1. UNCHANGED <<gen, needs, after, sched, queue>>
    BY <1>3 DEF Handle, StartStep, RenewLease, DeliverStep, BeginVerifyingStep, FailStep,
       RecordFailedOutput, CancelStep, BlockStep, Stale, db, stepRows, graph
  <2> QED BY <1>1, <1>3, <2>1, HandleMoved, GroundElsewhere
<1>4. CASE Crash \/ Shutdown
  <2>1. UNCHANGED <<gen, needs, after>> /\ queue' = {} /\ sched'.at = "recover"
    BY <1>4 DEF Crash, Shutdown, ForgetMemory, Idle, graph
  <2> QED BY <1>1, <1>4, <2>1, StopMoved, GroundElsewhere
<1>5. CASE Scheduler
  BY <1>1, <1>5, GroundTryHeal, GroundStepFailed, GroundLoads, GroundDispatch, GroundSweeps
     DEF Scheduler
<1>6. CASE UNCHANGED vars
  BY <1>1, <1>6, SameMoved, GroundElsewhere DEF vars, db, memory, stepRows, graph
<1> QED BY <1>2, <1>3, <1>4, <1>5, <1>6 DEF Next

LEMMA AlwaysGround == Spec => []Ground
BY GroundInit, GroundNext, PTL DEF Spec

\* No step is ever leased before everything it needs is accepted and
\* everything it follows has ended, however old the queue entry was and
\* whatever was lost in between; and that ground never falls away later.
THEOREM DependentsAlwaysWait == Spec => []DependentsWaitForAcceptance
<1>1. Ground => DependentsWaitForAcceptance
  BY DEF Ground, Grounded, DependentsWaitForAcceptance
<1> QED BY <1>1, AlwaysGround, PTL

-----------------------------------------------------------------------------
(* An attempt that ended is not repeated, and acceptance is not taken back *)

LEMMA GroundGrows == ASSUME Ground, [Next]_vars PROVE Grows
<1>1. CASE UNCHANGED vars
  BY <1>1, SameMoved, MovedGrows DEF vars, db, stepRows
<1>2. CASE CreateHealStep \/ CreateRetryStep
  BY <1>2, CreateGrows DEF Ground, HealInOrder
<1> QED
  BY <1>1, <1>2, MovedGrows, EnvironmentMoved, HandleMoved, SchedulerMoved, StopMoved
     DEF Next, Ground

\* Whatever expires, fails, cascades, is healed or is lost with the server, no
\* step comes back from a state in which its work had ended, and no step that
\* was accepted stops being so.
THEOREM WorkIsNeverRepeatedTheorem == Spec => WorkIsNeverRepeated
<1>1. Ground /\ [Next]_vars => EndsOnce
  BY GroundGrows DEF EndsOnce, Grows, MayBecome, Over, Undone, Accepted, AcceptedS
<1> QED BY <1>1, AlwaysGround, PTL DEF Spec, WorkIsNeverRepeated

-----------------------------------------------------------------------------
(* Only the holder of a lease reports on it, and what is graded is what the
   holder delivered.  An order, a report or a verification job never runs
   ahead of its step's generation, and one of the current generation agrees
   with the row for as long as the row is in the state it was made for. *)

Examined == {"verifying", "verified", "inconclusive"}
Closed   == {"failed", "cancelled", "skipped", "recovered", "execution_failed", "manual_override"}

OrderOK(a) == /\ a.gen <= gen[a.step]
              /\ status[a.step] \in Live /\ gen[a.step] = a.gen => owner[a.step] = a.worker

ReportOK(w) == LET h == handler[w] IN
  h # NoReport =>
    /\ h.gen <= gen[h.step]
    /\ status[h.step] \in Live /\ gen[h.step] = h.gen => owner[h.step] = w
    /\ h.at = "enqueue" /\ status[h.step] = "delivered" /\ gen[h.step] = h.gen =>
         owner[h.step] = w /\ head[h.step] = [worker |-> w, gen |-> h.gen]

JobOK(j) == /\ j.gen <= gen[j.step]
            /\ gen[j.step] = j.gen =>
                 /\ status[j.step] \notin Undone \cup {"delivered"}
                 /\ status[j.step] = "verifying" => head[j.step] = j.commit

RowOK(s) == status[s] \in Examined => head[s] = [worker |-> owner[s], gen |-> gen[s]]

SendOK == sched.at = "send" /\ status[sched.step] \in Live => owner[sched.step] = sched.worker

Fenced == /\ Ground
          /\ \A a \in attempts : OrderOK(a)
          /\ \A w \in Workers : ReportOK(w)
          /\ \A j \in jobs : JobOK(j)
          /\ \A s \in Steps : RowOK(s)
          /\ SendOK

\* What a statement that neither leases nor delivers nor begins a verification
\* does to a row.
RowKept(s) ==
  /\ gen'[s] = gen[s]
  /\ status'[s] \in Live => status[s] \in Live /\ owner'[s] = owner[s]
  /\ status'[s] \in Undone => status[s] \in Undone
  /\ status'[s] = "delivered" => status[s] = "delivered"
  /\ status'[s] = "verifying" => status[s] = "verifying"
  /\ status'[s] \in Examined => status[s] \in Examined
  /\ status'[s] \in Examined \cup {"delivered"} => owner'[s] = owner[s] /\ head'[s] = head[s]

\* What becomes of a connection's report.
ReportKept(w) ==
  \/ handler'[w] = handler[w] \/ handler'[w] = NoReport
  \/ /\ handler[w] # NoReport /\ handler'[w].at # "enqueue"
     /\ handler'[w].step = handler[w].step /\ handler'[w].gen = handler[w].gen
  \/ \E a \in attempts : /\ a.worker = w /\ handler'[w].at # "enqueue"
                         /\ handler'[w].step = a.step /\ handler'[w].gen = a.gen

LEMMA ReportKeptOK ==
  ASSUME Fenced, NEW w \in Workers, ReportKept(w), \A s \in Steps : RowKept(s)
  PROVE  ReportOK(w)'
<1> DEFINE h == handler[w]  k == handler'[w]
<1> SUFFICES ASSUME k # NoReport PROVE ReportOK(w)'
  BY DEF ReportOK
<1>1. CASE k = h
  <2>1. h.step \in Steps
    BY <1>1 DEF Fenced, Ground, Typed, TypeOK, HandlersOK
  <2>2. ReportOK(w) BY DEF Fenced
  <2> QED BY <1>1, <2>1, <2>2 DEF ReportOK, RowKept
<1>2. CASE h # NoReport /\ k.at # "enqueue" /\ k.step = h.step /\ k.gen = h.gen
  <2>1. h.step \in Steps
    BY <1>2 DEF Fenced, Ground, Typed, TypeOK, HandlersOK
  <2>2. ReportOK(w) BY DEF Fenced
  <2> QED BY <1>2, <2>1, <2>2 DEF ReportOK, RowKept
<1>3. CASE \E a \in attempts : /\ a.worker = w /\ k.at # "enqueue"
                               /\ k.step = a.step /\ k.gen = a.gen
  <2>1. PICK a \in attempts : /\ a.worker = w /\ k.at # "enqueue"
                              /\ k.step = a.step /\ k.gen = a.gen
    BY <1>3
  <2>2. a.step \in Steps /\ OrderOK(a)
    BY DEF Fenced, Ground, Typed, TypeOK, AttemptsOK
  <2> QED BY <2>1, <2>2 DEF OrderOK, ReportOK, RowKept
<1> QED BY <1>1, <1>2, <1>3 DEF ReportKept

LEMMA FencedFrame ==
  ASSUME Fenced, Ground', \A s \in Steps : RowKept(s), \A w \in Workers : ReportKept(w),
         attempts' \subseteq attempts, jobs' \subseteq jobs,
         sched'.at = "send" => sched' = sched
  PROVE  Fenced'
<1>1. \A a \in attempts' : OrderOK(a)'
  BY DEF Fenced, Ground, Typed, TypeOK, AttemptsOK, OrderOK, RowKept
<1>2. \A w \in Workers : ReportOK(w)'
  BY ReportKeptOK
<1>3. \A j \in jobs' : JobOK(j)'
  BY DEF Fenced, Ground, Typed, TypeOK, JobsOK, JobOK, RowKept, Examined
<1>4. \A s \in Steps : RowOK(s)'
  BY DEF Fenced, RowOK, RowKept
<1>5. SendOK'
  BY DEF Fenced, Ground, Typed, SchedulerHolds, SendOK, RowKept
<1> QED BY <1>1, <1>2, <1>3, <1>4, <1>5 DEF Fenced

\* Statements that take the steps of a set to one status.
MayTurn(a, b) == \/ b \in Closed
                 \/ b \in Waiting /\ a \in Undone
                 \/ a \in Live /\ b = "running"
                 \/ a = "verifying" /\ b \in {"verified", "inconclusive"}

LEMMA TurnKept ==
  ASSUME NEW S, NEW st, NEW t \in Steps, gen'[t] = gen[t],
         status'[t] = IF t \in S THEN st ELSE status[t],
         t \in S => MayTurn(status[t], st),
         t \in S /\ st \notin Live \cup Examined => owner'[t] \in Workers \cup {NoWorker},
         t \notin S \/ st \in Live \cup Examined => owner'[t] = owner[t],
         status'[t] \in Examined \cup {"delivered"} => head'[t] = head[t]
  PROVE  RowKept(t)
BY DEF RowKept, MayTurn, Closed, Waiting, Live, Examined, Undone

LEMMA SameRowsKept ==
  ASSUME UNCHANGED <<status, gen, owner, head>> PROVE \A t \in Steps : RowKept(t)
BY DEF RowKept

\* One row moves; its owner may be taken from it.
LEMMA SetKept ==
  ASSUME RowsOK, NEW s \in Steps, NEW st, Set(s, st), MayTurn(status[s], st), UNCHANGED <<gen, head>>,
         UNCHANGED owner \/ (Unassign({s}) /\ st \notin Live \cup Examined)
  PROVE  \A t \in Steps : RowKept(t)
<1> SUFFICES ASSUME NEW t \in Steps PROVE RowKept(t)
  OBVIOUS
<1>1. status'[t] = IF t \in {s} THEN st ELSE status[t]
  BY DEF Set, RowsOK
<1>2. owner'[t] \in Workers \cup {NoWorker} /\ (t # s \/ st \in Live \cup Examined => owner'[t] = owner[t])
  BY DEF RowsOK, Unassign
<1> QED BY <1>1, <1>2, TurnKept

LEMMA MoveKept ==
  ASSUME RowsOK, NEW S \in SUBSET Steps, NEW st,
         status' = [s \in Steps |-> IF s \in S THEN st ELSE status[s]],
         \A s \in S : MayTurn(status[s], st), UNCHANGED <<gen, head>>,
         UNCHANGED owner \/ Unassign(S), st \in Closed \cup Waiting
  PROVE  \A t \in Steps : RowKept(t)
<1> SUFFICES ASSUME NEW t \in Steps PROVE RowKept(t)
  OBVIOUS
<1>1. owner'[t] \in Workers \cup {NoWorker} /\ (t \notin S => owner'[t] = owner[t])
  BY DEF RowsOK, Unassign
<1>2. st \notin Live \cup Examined
  BY DEF Closed, Waiting, Live, Examined
<1> QED BY <1>1, <1>2, TurnKept

LEMMA FencedInit == Init => Fenced
BY GroundInit DEF Init, Fenced, ReportOK, RowOK, SendOK, Idle, Examined

\* Workers, the clock, verdicts and people.
LEMMA FencedEnvironment == ASSUME Fenced, Ground', Environment PROVE Fenced'
<1>a. RowsOK /\ JobsOK
  BY DEF Fenced, Ground, Typed, TypeOK
<1>1. UNCHANGED sched /\ attempts' \subseteq attempts /\ jobs' \subseteq jobs
  BY DEF Environment, Connect, Disconnect, GraceEnds, DeadlinePasses, Receive, EndWithoutVerdict,
     Verdict, ManualOverride, db, memory
<1>2. \A w \in Workers : ReportKept(w)
  <2>1. CASE UNCHANGED handler
    BY <2>1 DEF ReportKept
  <2>2. ASSUME NEW w \in Workers, NEW a \in attempts, NEW kind \in Sent, Receive(w, a, kind)
        PROVE  \A v \in Workers : ReportKept(v)
    <3>1. kind # "enqueue"
      BY <2>2, ScopeAssumption DEF Reports, FinalReports
    <3>2. CASE UNCHANGED handler
      BY <3>2 DEF ReportKept
    <3>3. CASE handler' = [handler EXCEPT ![w] = [at |-> kind, step |-> a.step, gen |-> a.gen]]
      BY <2>2, <3>1, <3>3 DEF ReportKept, Receive, Fenced, Ground, Typed, TypeOK, HandlersOK
    <3> QED BY <2>2, <3>2, <3>3 DEF Receive
  <2> QED BY <2>1, <2>2 DEF Environment, Connect, Disconnect, GraceEnds, DeadlinePasses,
                            EndWithoutVerdict, Verdict, ManualOverride, memory
<1>3. \A s \in Steps : RowKept(s)
  <2>1. CASE UNCHANGED <<status, gen, owner, head>>
    BY <2>1, SameRowsKept
  <2>2. ASSUME NEW s \in Steps, ManualOverride(s) PROVE \A t \in Steps : RowKept(t)
    BY <1>a, <2>2, SetKept DEF ManualOverride, MayTurn, Closed
  <2>3. ASSUME NEW j \in jobs, NEW v \in {"verified", "failed", "inconclusive"}, Verdict(j, v),
               status' # status
        PROVE  \A t \in Steps : RowKept(t)
    <3>1. j.step \in Steps /\ status[j.step] = "verifying" /\ Set(j.step, v)
      BY <1>a, <2>3 DEF Verdict, Cas, JobsOK
    <3>2. MayTurn(status[j.step], v)
      BY <3>1 DEF MayTurn, Closed
    <3> QED BY <1>a, <2>3, <3>1, <3>2, SetKept DEF Verdict
  <2> QED BY <2>1, <2>2, <2>3 DEF Environment, Connect, Disconnect, GraceEnds, DeadlinePasses,
                                  Receive, EndWithoutVerdict, Verdict, db, stepRows
<1> QED BY <1>1, <1>2, <1>3, FencedFrame

\* A delivery: the report is of the holder, if the row lets it in.
LEMMA FencedDeliverStep == ASSUME Fenced, Ground', NEW w \in Workers, DeliverStep(w) PROVE Fenced'
<1> DEFINE s == handler[w].step  g == handler[w].gen
<1>a. handler[w] # NoReport /\ s \in Steps /\ g \in 1..MaxGen /\ RowsOK
  BY BusyHandler DEF Fenced, Ground, Typed, TypeOK, DeliverStep, Busy, NoReport
<1>b. \A v \in Workers : ReportOK(v)
  BY DEF Fenced
<1>c. UNCHANGED <<sched, attempts, jobs>>
  BY DEF DeliverStep, Stale, db
<1>1. CASE Stale(w, Live)
  <2>1. UNCHANGED <<status, gen, owner, head>> /\ \A v \in Workers : ReportKept(v)
    BY <1>1 DEF Stale, Finish, db, stepRows, ReportKept, Fenced, Ground, Typed, TypeOK, HandlersOK
  <2> QED BY <1>c, <2>1, SameRowsKept, FencedFrame
<1>2. CASE /\ Cas(s, g, Live) /\ Set(s, "delivered") /\ UNCHANGED <<gen, owner>>
           /\ \/ /\ head' = [head EXCEPT ![s] = [worker |-> w, gen |-> g]]
                 /\ handler' = [handler EXCEPT ![w].at = "enqueue"]
              \/ head' = [head EXCEPT ![s] = NoCommit] /\ Finish(w)
  <2>1. status[s] \in Live /\ gen[s] = g /\ owner[s] = w
    BY <1>a, <1>b, <1>2 DEF Cas, ReportOK
  <2>2. status'[s] = "delivered" /\ \A t \in Steps \ {s} : status'[t] = status[t] /\ head'[t] = head[t]
    BY <1>a, <1>2 DEF Set, RowsOK
  <2>3. \A a \in attempts' : OrderOK(a)'
    BY <1>c, <1>2, <2>2 DEF Fenced, Ground, Typed, TypeOK, AttemptsOK, OrderOK, Live
  <2>4. ASSUME NEW v \in Workers PROVE ReportOK(v)'
    <3>1. CASE v = w
      <4>1. \/ /\ handler'[w].step = s /\ handler'[w].gen = g
               /\ head'[s] = [worker |-> w, gen |-> g]
            \/ handler'[w] = NoReport
        BY <1>a, <1>2 DEF Finish, Fenced, Ground, Typed, TypeOK, HandlersOK, RowsOK
      <4> QED BY <1>a, <1>2, <2>1, <2>2, <3>1, <4>1 DEF ReportOK, Live, RowsOK
    <3>2. CASE v # w
      <4>1. handler'[v] = handler[v]
        BY <1>2, <3>2 DEF Finish, Fenced, Ground, Typed, TypeOK, HandlersOK
      <4>2. handler[v] # NoReport => handler[v].step \in Steps
        BY DEF Fenced, Ground, Typed, TypeOK, HandlersOK
      <4>3. ReportOK(v)
        BY <1>b
      <4>4. CASE handler[v].step = s
        BY <1>2, <2>1, <2>2, <3>2, <4>1, <4>3, <4>4 DEF ReportOK, Live
      <4>5. CASE handler[v].step # s
        BY <1>2, <2>2, <4>1, <4>2, <4>3, <4>5 DEF ReportOK
      <4> QED BY <4>4, <4>5
    <3> QED BY <3>1, <3>2
  <2>5. ASSUME NEW j \in jobs' PROVE JobOK(j)'
    <3>1. j \in jobs /\ j.step \in Steps /\ JobOK(j)
      BY <1>c DEF Fenced, Ground, Typed, TypeOK, JobsOK
    <3>2. j.step = s => gen[s] # j.gen
      BY <2>1, <3>1 DEF JobOK, Undone
    <3> QED BY <1>2, <2>2, <3>1, <3>2 DEF JobOK
  <2>6. \A t \in Steps : RowOK(t)'
    BY <1>2, <2>2 DEF Fenced, RowOK, Examined
  <2>7. SendOK'
    BY <1>c, <1>2, <2>2 DEF Fenced, Ground, Typed, SchedulerHolds, SendOK, Live
  <2> QED BY <2>3, <2>4, <2>5, <2>6, <2>7 DEF Fenced
<1> QED BY <1>1, <1>2 DEF DeliverStep

\* The job is made in the transaction that moves the step, from the commit of
\* the report; the row still shows that commit and its worker.
LEMMA FencedBeginVerifyingStep ==
  ASSUME Fenced, Ground', NEW w \in Workers, BeginVerifyingStep(w) PROVE Fenced'
<1> DEFINE s == handler[w].step  g == handler[w].gen
           job == [step |-> s, gen |-> g, commit |-> [worker |-> w, gen |-> g]]
<1>a. handler[w] # NoReport /\ handler[w].at = "enqueue" /\ s \in Steps /\ g \in 1..MaxGen /\ RowsOK
  BY BusyHandler DEF Fenced, Ground, Typed, TypeOK, BeginVerifyingStep, Busy, NoReport
<1>b. ReportOK(w)
  BY DEF Fenced
<1>c. UNCHANGED <<sched, attempts, gen, owner, head>>
  BY DEF BeginVerifyingStep
<1>d. \A v \in Workers : ReportKept(v)
  BY DEF BeginVerifyingStep, Finish, ReportKept, Fenced, Ground, Typed, TypeOK, HandlersOK
<1>1. CASE UNCHANGED <<status, jobs>>
  BY <1>c, <1>d, <1>1, SameRowsKept, FencedFrame
<1>2. CASE Cas(s, g, {"delivered"}) /\ Set(s, "verifying") /\ jobs' = jobs \cup {job}
  <2>1. status[s] = "delivered" /\ gen[s] = g /\ owner[s] = w /\ head[s] = [worker |-> w, gen |-> g]
    BY <1>a, <1>b, <1>2 DEF Cas, ReportOK
  <2>2. status'[s] = "verifying" /\ \A t \in Steps \ {s} : status'[t] = status[t]
    BY <1>a, <1>2 DEF Set, RowsOK
  <2>3. \A a \in attempts' : OrderOK(a)'
    BY <1>c, <2>2 DEF Fenced, Ground, Typed, TypeOK, AttemptsOK, OrderOK, Live
  <2>4. ASSUME NEW v \in Workers PROVE ReportOK(v)'
    <3>1. CASE v = w
      BY <3>1 DEF BeginVerifyingStep, Finish, ReportOK, Fenced, Ground, Typed, TypeOK, HandlersOK
    <3>2. CASE v # w
      <4>1. handler'[v] = handler[v]
        BY <3>2 DEF BeginVerifyingStep, Finish, Fenced, Ground, Typed, TypeOK, HandlersOK
      <4>2. handler[v] # NoReport => handler[v].step \in Steps
        BY DEF Fenced, Ground, Typed, TypeOK, HandlersOK
      <4>3. ReportOK(v)
        BY DEF Fenced
      <4> QED BY <1>c, <2>2, <4>1, <4>2, <4>3 DEF ReportOK, Live
    <3> QED BY <3>1, <3>2
  <2>5. ASSUME NEW j \in jobs' PROVE JobOK(j)'
    <3>1. CASE j = job
      BY <1>a, <1>c, <2>1, <2>2, <3>1 DEF JobOK, Undone, Waiting, Live
    <3>2. CASE j \in jobs
      <4>1. j.step \in Steps /\ JobOK(j)
        BY <3>2 DEF Fenced, Ground, Typed, TypeOK, JobsOK
      <4>2. j.step = s => gen[s] # j.gen
        BY <2>1, <4>1 DEF JobOK
      <4> QED BY <1>c, <2>2, <4>1, <4>2 DEF JobOK
    <3> QED BY <1>2, <3>1, <3>2
  <2>6. \A t \in Steps : RowOK(t)'
    BY <1>c, <2>1, <2>2 DEF Fenced, RowOK
  <2>7. SendOK'
    BY <1>c, <2>2 DEF Fenced, Ground, Typed, SchedulerHolds, SendOK, Live
  <2> QED BY <2>3, <2>4, <2>5, <2>6, <2>7 DEF Fenced
<1> QED BY <1>1, <1>2 DEF BeginVerifyingStep

\* The other reports end the attempt, keep it going or change nothing.
LEMMA FencedReport ==
  ASSUME Fenced, Ground', NEW w \in Workers,
         StartStep(w) \/ RenewLease(w) \/ RecordFailedOutput(w) \/ FailStep(w) \/ CancelStep(w)
           \/ BlockStep(w)
  PROVE  Fenced'
<1> DEFINE s == handler[w].step
<1>a. handler[w] # NoReport /\ s \in Steps /\ RowsOK /\ HandlersOK
  BY BusyHandler DEF Fenced, Ground, Typed, TypeOK, StartStep, RenewLease, RecordFailedOutput,
     FailStep, CancelStep, BlockStep, Busy, NoReport
<1>1. UNCHANGED <<sched, attempts, jobs>>
  BY DEF StartStep, RenewLease, RecordFailedOutput, FailStep, CancelStep, BlockStep, Stale, db
<1>2. \A v \in Workers : ReportKept(v)
  <2>1. CASE Finish(w)
    BY <1>a, <2>1 DEF Finish, ReportKept, HandlersOK
  <2>2. CASE handler' = [handler EXCEPT ![w].at = "fail"]
    BY <1>a, <2>2 DEF ReportKept, HandlersOK
  <2> QED BY <2>1, <2>2 DEF StartStep, RenewLease, RecordFailedOutput, FailStep, CancelStep,
                            BlockStep, Stale
<1>3. \A t \in Steps : RowKept(t)
  <2>1. CASE UNCHANGED <<status, gen, owner, head>>
    BY <2>1, SameRowsKept
  <2>2. CASE RecordFailedOutput(w) /\ ~UNCHANGED head
    <3>1. status[s] \in Live \cup {"failed"} /\ UNCHANGED <<status, gen, owner>>
          /\ \A t \in Steps \ {s} : head'[t] = head[t]
      BY <1>a, <2>2 DEF RecordFailedOutput, Cas, RowsOK
    <3> QED BY <3>1 DEF RowKept, Live, Examined
  <2>3. ASSUME NEW st \in {"running", "failed", "cancelled", "execution_failed"}, Set(s, st),
               status[s] \in Live \/ st = "execution_failed", UNCHANGED <<gen, head>>,
               UNCHANGED owner \/ (Unassign({s}) /\ st = "cancelled")
        PROVE  \A t \in Steps : RowKept(t)
    <3>1. MayTurn(status[s], st) /\ (st = "cancelled" => st \notin Live \cup Examined)
      BY <2>3 DEF MayTurn, Closed, Live, Examined
    <3> QED BY <1>a, <2>3, <3>1, SetKept
  <2> QED BY <2>1, <2>2, <2>3 DEF StartStep, RenewLease, RecordFailedOutput, FailStep, CancelStep,
                                  BlockStep, Stale, Cas, db, stepRows
<1> QED BY <1>1, <1>2, <1>3, FencedFrame

LEMMA FencedHandle == ASSUME Fenced, Ground', NEW w \in Workers, Handle(w) PROVE Fenced'
BY FencedDeliverStep, FencedBeginVerifyingStep, FencedReport DEF Handle

\* A lease starts a generation nobody has heard of yet.
LEMMA FencedLeaseStep ==
  ASSUME Fenced, Ground', NEW s \in Steps, NEW w \in Workers, LeaseStep(s, w) PROVE Fenced'
<1>a. RowsOK /\ HandlersOK /\ AttemptsOK /\ JobsOK /\ BoundAssumption
  BY BoundAssumption DEF Fenced, Ground, Typed, TypeOK
<1>1. UNCHANGED <<attempts, handler, jobs, head>>
  BY DEF LeaseStep, OthersIdle
<1>2. /\ gen'[s] = gen[s] + 1 /\ status'[s] = "leased" /\ owner'[s] = w /\ gen[s] \in Nat
      /\ \A t \in Steps \ {s} : gen'[t] = gen[t] /\ status'[t] = status[t] /\ owner'[t] = owner[t]
  BY <1>a DEF LeaseStep, Set, NextGen, RowsOK
<1>3. ASSUME NEW a \in attempts' PROVE OrderOK(a)'
  <2>1. a \in attempts /\ a.step \in Steps /\ a.gen \in Nat /\ OrderOK(a)
    BY <1>1, <1>a DEF Fenced, AttemptsOK
  <2> QED BY <1>2, <2>1 DEF OrderOK
<1>4. ASSUME NEW v \in Workers PROVE ReportOK(v)'
  <2>1. handler[v] # NoReport => handler[v].step \in Steps /\ handler[v].gen \in Nat
    BY <1>a DEF HandlersOK
  <2>2. ReportOK(v)
    BY DEF Fenced
  <2> QED BY <1>1, <1>2, <2>1, <2>2 DEF ReportOK
<1>5. ASSUME NEW j \in jobs' PROVE JobOK(j)'
  <2>1. j \in jobs /\ j.step \in Steps /\ j.gen \in Nat /\ JobOK(j)
    BY <1>1, <1>a DEF Fenced, JobsOK
  <2> QED BY <1>1, <1>2, <2>1 DEF JobOK
<1>6. \A t \in Steps : RowOK(t)'
  BY <1>1, <1>2 DEF Fenced, RowOK, Examined
<1>7. SendOK'
  BY <1>2 DEF LeaseStep, Idle, SendOK
<1> QED BY <1>3, <1>4, <1>5, <1>6, <1>7 DEF Fenced

\* The order goes to the worker the row names, or the lease is gone already.
LEMMA FencedSendOrder == ASSUME Fenced, Ground', SendOrder PROVE Fenced'
<1> DEFINE a == [worker |-> sched.worker, step |-> sched.step, gen |-> gen[sched.step]]
<1>1. /\ attempts' = attempts \cup {a} /\ sched'.at = "assign"
      /\ UNCHANGED <<status, gen, owner, head, jobs, handler>>
  BY DEF SendOrder, Then, Idle, db, stepRows
<1>2. sched.step \in Steps /\ gen[sched.step] \in Nat /\ sched.at = "send"
  BY BoundAssumption DEF SendOrder, At, Fenced, Ground, Typed, TypeOK, RowsOK, SchedulerHolds
<1>3. OrderOK(a)
  BY <1>2 DEF Fenced, SendOK, OrderOK
<1>4. \A o \in attempts' : OrderOK(o)'
  BY <1>1, <1>3 DEF Fenced, OrderOK
<1>5. /\ \A w \in Workers : ReportOK(w)'
      /\ \A j \in jobs' : JobOK(j)'
      /\ \A s \in Steps : RowOK(s)'
  BY <1>1 DEF Fenced, ReportOK, JobOK, RowOK
<1>6. SendOK'
  BY <1>1 DEF SendOK
<1> QED BY <1>4, <1>5, <1>6 DEF Fenced

\* Everything else the scheduler does leases nothing and grades nothing.
LEMMA FencedSchedules ==
  ASSUME Fenced, Ground', Scheduler, ~SendOrder,
         \A s \in Steps, w \in Workers : ~LeaseStep(s, w)
  PROVE  Fenced'
<1>a. RowsOK /\ SchedOK /\ SchedulerHolds
  BY DEF Fenced, Ground, Typed, TypeOK
<1>1. UNCHANGED <<attempts, handler, jobs>>
  BY DEF Scheduler, Dispatch, TryHeal, RunCreated, StepDelivered, StepFailed, CreateHealStep,
     LinkHealStep, CreateRetryStep, LinkRetryStep, MarkRecovered, CountHeal, LoadReadySteps,
     ReconcileReadySteps, ExpireStaleLeases, WorkersPastGrace, OrphanStep, CheckRunDone, FinishRun,
     NothingAssignable, RetryLater, WaitForApproval, ForgetStale, FailUnleased, UnleaseStep,
     OthersIdle, db
<1>2. sched'.at # "send"
  <2>1. ASSUME NEW pc \in HealPoints, Goto(pc) PROVE sched'.at # "send"
    BY <1>a, <2>1 DEF Goto, SchedOK, HealPoints
  <2>2. ASSUME NEW pc, Then(pc), pc # "send" PROVE sched'.at # "send"
    BY <2>2 DEF Then, Idle
  <2>3. CASE TryHeal
    BY <2>1, <2>2, <2>3 DEF TryHeal, CreateHealStep, LinkHealStep, CreateRetryStep, LinkRetryStep,
       MarkRecovered, CountHeal, HealPoints
  <2>4. CASE \E s \in Steps : OrphanStep(s)
    BY <1>a, <2>4 DEF OrphanStep, SchedOK
  <2>5. CASE WorkersPastGrace
    BY <1>a, <2>2, <2>5 DEF WorkersPastGrace, SchedOK
  <2>6. CASE \E s \in Steps : StepFailed(s)
    <3>1. PICK s \in Steps : StepFailed(s)
      BY <2>6
    <3>2. CASE Then("load")
      BY <2>2, <3>2
    <3>3. CASE \E h, r \in Steps \ Present :
             h # r /\ sched' = [Idle EXCEPT !.at = "heal_new", !.step = s, !.heal = h, !.retry = r]
      BY <3>3 DEF Idle
    <3> QED BY <3>1, <3>2, <3>3 DEF StepFailed
  <2>7. CASE LoadReadySteps \/ ReconcileReadySteps \/ ExpireStaleLeases
    BY <2>7 DEF LoadReadySteps, ReconcileReadySteps, ExpireStaleLeases, Then, Idle, At
  <2>8. CASE RunCreated \/ CheckRunDone \/ FinishRun \/ \E s \in Steps : StepDelivered(s)
    BY <2>8 DEF RunCreated, CheckRunDone, FinishRun, StepDelivered, Then, Idle
  <2>9. CASE Dispatch
    BY <2>2, <2>9 DEF Dispatch, NothingAssignable, RetryLater, WaitForApproval, ForgetStale,
       FailUnleased, UnleaseStep
  <2> QED BY <2>3, <2>4, <2>5, <2>6, <2>7, <2>8, <2>9 DEF Scheduler
<1>3. \A s \in Steps : RowKept(s)
  <2>1. CASE UNCHANGED <<status, gen, owner, head>>
    BY <2>1, SameRowsKept
  <2>2. CASE CreateHealStep \/ CreateRetryStep
    <3>1. PICK s \in Steps : status[s] = "absent" /\ Set(s, "pending")
      BY <1>a, <2>2 DEF CreateHealStep, CreateRetryStep, At, HealPoints, SchedulerHolds, Fenced,
         Ground, HealInOrder
    <3>2. MayTurn(status[s], "pending")
      BY <3>1 DEF MayTurn, Waiting, Undone
    <3> QED BY <1>a, <2>2, <3>1, <3>2, SetKept DEF CreateHealStep, CreateRetryStep
  <2>3. CASE MarkRecovered
    <3>1. sched.step \in Steps
      BY <1>a, <2>3 DEF MarkRecovered, At, HealPoints, SchedulerHolds
    <3>2. MayTurn(status[sched.step], "recovered")
      BY DEF MayTurn, Closed
    <3> QED BY <1>a, <2>1, <2>3, <3>1, <3>2, SetKept DEF MarkRecovered
  <2>4. CASE \E s \in Steps : StepFailed(s)
    <3>1. PICK s \in Steps : StepFailed(s)
      BY <2>4
    <3>2. CASE Cascade(Downstream(s))
      <4>1. Downstream(s) \in SUBSET Steps
        BY DEF Downstream, Present
      <4>2. \A t \in Downstream(s) : MayTurn(status[t], "skipped")
        BY DEF MayTurn, Closed
      <4>3. "skipped" \in Closed \cup Waiting
        BY DEF Closed
      <4> QED BY <1>a, <3>1, <3>2, <4>1, <4>2, <4>3, MoveKept DEF Cascade, StepFailed
    <3> QED BY <2>1, <3>1, <3>2 DEF StepFailed
  <2>5. CASE ExpireStaleLeases \/ \E s \in Steps : OrphanStep(s)
    <3>1. ASSUME NEW S \in SUBSET Steps, Orphan(S), \A s \in S : status[s] \in Live
          PROVE  \A t \in Steps : RowKept(t)
      <4>1. "orphaned" \in Closed \cup Waiting /\ \A s \in S : MayTurn(status[s], "orphaned")
        BY <3>1 DEF MayTurn, Waiting, Undone
      <4> QED BY <1>a, <3>1, <4>1, MoveKept DEF Orphan
    <3>2. Expired \in SUBSET Steps /\ \A s \in Expired : status[s] \in Live
      BY DEF Expired
    <3>3. CASE ExpireStaleLeases
      BY <3>1, <3>2, <3>3 DEF ExpireStaleLeases
    <3>4. CASE \E s \in Steps : OrphanStep(s)
      BY <2>1, <3>1, <3>4 DEF OrphanStep, stepRows
    <3> QED BY <2>5, <3>3, <3>4
  <2>6. ASSUME NEW s \in Steps, NEW why \in {"text", "no_provider"}, FailUnleased(s, why)
        PROVE  \A t \in Steps : RowKept(t)
    <3>1. MayTurn(status[s], "failed")
      BY DEF MayTurn, Closed
    <3> QED BY <1>a, <2>6, <3>1, SetKept DEF FailUnleased
  <2>7. CASE UnleaseStep
    <3>1. CASE status[sched.step] = "leased"
      <4>1. sched.step \in Steps
        BY <1>a, <2>7 DEF UnleaseStep, At, SchedulerHolds
      <4>2. MayTurn(status[sched.step], "pending") /\ "pending" \notin Live \cup Examined
        BY <3>1 DEF MayTurn, Waiting, Undone, Live, Examined
      <4> QED BY <1>a, <2>7, <3>1, <4>1, <4>2, SetKept DEF UnleaseStep
    <3> QED BY <2>1, <2>7, <3>1 DEF UnleaseStep
  <2> QED
    BY <2>1, <2>2, <2>3, <2>4, <2>5, <2>6, <2>7
       DEF Scheduler, Dispatch, TryHeal, RunCreated, StepDelivered, LinkHealStep, LinkRetryStep,
           CountHeal, LoadReadySteps, ReconcileReadySteps, WorkersPastGrace, CheckRunDone,
           FinishRun, NothingAssignable, RetryLater, WaitForApproval, ForgetStale, db, stepRows
<1>4. \A w \in Workers : ReportKept(w)
  BY <1>1 DEF ReportKept
<1> QED BY <1>1, <1>2, <1>3, <1>4, FencedFrame

LEMMA FencedStop == ASSUME Fenced, Ground', Crash \/ Shutdown PROVE Fenced'
<1>1. ASSUME NEW S \in SUBSET Steps, ForgetMemory(S) PROVE Fenced'
  <2>1. "cancelled" \in Closed \cup Waiting /\ \A s \in S : MayTurn(status[s], "cancelled")
    BY DEF MayTurn, Closed
  <2>2. \A t \in Steps : RowKept(t)
    BY <1>1, <2>1, MoveKept DEF ForgetMemory, Fenced, Ground, Typed, TypeOK
  <2>3. \A w \in Workers : ReportKept(w)
    BY <1>1 DEF ForgetMemory, ReportKept
  <2>4. attempts' \subseteq attempts /\ UNCHANGED jobs /\ sched'.at # "send"
    BY <1>1 DEF ForgetMemory, Idle
  <2> QED BY <2>2, <2>3, <2>4, FencedFrame
<1> QED BY <1>1 DEF Crash, Shutdown

LEMMA FencedNext == ASSUME Fenced, [Next]_vars PROVE Fenced'
<1>1. Ground'
  BY GroundNext DEF Fenced
<1>2. CASE UNCHANGED vars
  <2>1. UNCHANGED <<status, gen, owner, head, attempts, jobs, sched, handler>>
    BY <1>2 DEF vars, db, stepRows, memory
  <2>2. \A w \in Workers : ReportKept(w)
    BY <2>1 DEF ReportKept
  <2> QED BY <1>1, <2>1, <2>2, SameRowsKept, FencedFrame
<1> QED BY <1>1, <1>2, FencedEnvironment, FencedHandle, FencedLeaseStep, FencedSendOrder,
           FencedSchedules, FencedStop DEF Next

LEMMA AlwaysFenced == Spec => []Fenced
BY FencedInit, FencedNext, PTL DEF Spec

\* However a lease expired, moved on or came back to the same worker: an order
\* or a report of the current generation is the holder's.
THEOREM OnlyTheHolderReportsTheorem == Spec => []OnlyTheHolderReports
<1>1. Fenced => OnlyTheHolderReports
  <2>1. \A w \in Workers : handler[w].at # "idle" => handler[w] # NoReport
    BY DEF NoReport
  <2>2. ASSUME Fenced, NEW w \in Workers
        PROVE  LET h == handler[w] IN
                 h.at # "idle" /\ status[h.step] \in Live /\ gen[h.step] = h.gen => owner[h.step] = w
    BY <2>1, <2>2 DEF Fenced, ReportOK
  <2>3. Fenced => \A a \in attempts : status[a.step] \in Live /\ gen[a.step] = a.gen
                                         => owner[a.step] = a.worker
    BY DEF Fenced, OrderOK
  <2> QED BY <2>2, <2>3 DEF OnlyTheHolderReports
<1> QED BY <1>1, AlwaysFenced, PTL

\* What a verdict decides about is the commit of the step's own last lease.
THEOREM GradedWorkIsCurrentTheorem == Spec => []GradedWorkIsCurrent
<1>1. Fenced => GradedWorkIsCurrent
  BY DEF Fenced, RowOK, JobOK, Examined, GradedWorkIsCurrent
<1> QED BY <1>1, AlwaysFenced, PTL

-----------------------------------------------------------------------------
(* The step truth model is kept.  A statement takes the steps it moves from
   one phase to another, or leaves them in their phase; the lease alone needs
   more, that the ground is accepted, and the edges of a repair that the retry
   they are added to is still planned. *)

LEMMA PhaseTable ==
  /\ PhaseOf("absent") = "absent"
  /\ \A a \in Waiting : PhaseOf(a) = "planned"
  /\ \A a \in Live : PhaseOf(a) = "executing"
  /\ \A a \in {"delivered", "verifying"} : PhaseOf(a) = "delivered"
  /\ PhaseOf("inconclusive") = "undecided"
  /\ PhaseOf("verified") = "verified" /\ PhaseOf("manual_override") = "overridden"
  /\ \A a \in TerminalS \ AcceptedS : PhaseOf(a) = "closed"
BY DEF PhaseOf, Waiting, Live, TerminalS, AcceptedS

LEMMA TruthSame ==
  ASSUME \A s \in Steps : PhaseOf(status'[s]) = PhaseOf(status[s]), UNCHANGED needs
  PROVE  UNCHANGED Truth!vars
BY DEF Truth!vars, Phase

LEMMA TruthMoveAll ==
  ASSUME RowsOK, NEW S \in SUBSET Steps, NEW st, NEW from,
         status' = [s \in Steps |-> IF s \in S THEN st ELSE status[s]],
         \A s \in S : PhaseOf(status[s]) \in from, UNCHANGED needs
  PROVE  Truth!MoveAll(S, from, PhaseOf(st))
BY DEF Truth!MoveAll, Phase

LEMMA TruthMove ==
  ASSUME RowsOK, NEW s \in Steps, NEW st, NEW from, Set(s, st), PhaseOf(status[s]) \in from,
         UNCHANGED needs
  PROVE  Truth!Move(s, from, PhaseOf(st))
<1>1. status' = [t \in Steps |-> IF t \in {s} THEN st ELSE status[t]]
  BY DEF Set, RowsOK
<1> QED BY <1>1, TruthMoveAll DEF Truth!Move

\* Any step that is neither absent nor accepted may close.
LEMMA TruthClose ==
  ASSUME RowsOK, NEW S \in SUBSET Steps, NEW st \in TerminalS \ AcceptedS,
         status' = [s \in Steps |-> IF s \in S THEN st ELSE status[s]],
         \A s \in S : status[s] \notin AcceptedS \cup {"absent"}, UNCHANGED needs
  PROVE  Truth!Next
<1>1. \A s \in S : PhaseOf(status[s]) \in Truth!Phases \ {"absent", "verified", "overridden"}
  BY DEF PhaseOf, Truth!Phases, RowsOK, Statuses, Waiting, Live, TerminalS, AcceptedS
<1>2. PhaseOf(st) = "closed"
  BY PhaseTable
<1> QED BY <1>1, <1>2, TruthMoveAll DEF Truth!Next, Truth!Close

LEMMA TruthCloseOne ==
  ASSUME RowsOK, NEW s \in Steps, NEW st \in TerminalS \ AcceptedS, Set(s, st),
         status[s] \notin AcceptedS \cup {"absent"}, UNCHANGED needs
  PROVE  Truth!Next
<1>1. status' = [t \in Steps |-> IF t \in {s} THEN st ELSE status[t]]
  BY DEF Set, RowsOK
<1> QED BY <1>1, TruthClose

LEMMA TruthReturn ==
  ASSUME RowsOK, NEW S \in SUBSET Steps, NEW st \in Waiting,
         status' = [s \in Steps |-> IF s \in S THEN st ELSE status[s]],
         \A s \in S : status[s] \in Live, UNCHANGED needs
  PROVE  Truth!Next
<1>1. \A s \in S : PhaseOf(status[s]) \in {"executing"}
  BY PhaseTable
<1>2. PhaseOf(st) = "planned"
  BY PhaseTable
<1> QED BY <1>1, <1>2, TruthMoveAll DEF Truth!Next, Truth!Return

\* A retry is planned until its edge is there: nobody else can move it.
RetryPlanned == sched.at = "retry_dep" => status[sched.retry] \in Waiting

Faithful == Ground /\ RetryPlanned

LEMMA WaitingStays ==
  ASSUME Typed, Environment \/ (\E w \in Workers : Handle(w)),
         NEW s \in Steps, status[s] \in Waiting
  PROVE  status'[s] = status[s]
<1>1. CASE Environment
  BY <1>1 DEF Environment, Connect, Disconnect, GraceEnds, DeadlinePasses, Receive, ManualOverride,
     EndWithoutVerdict, Verdict, Cas, Set, Waiting, Typed, TypeOK, RowsOK, db, stepRows
<1>2. ASSUME NEW w \in Workers, Handle(w) PROVE status'[s] = status[s]
  BY <1>2 DEF Handle, StartStep, RenewLease, DeliverStep, BeginVerifyingStep, FailStep,
     RecordFailedOutput, CancelStep, BlockStep, Stale, Cas, Set, Waiting, Live, Typed, TypeOK,
     RowsOK, db, stepRows
<1> QED BY <1>1, <1>2

LEMMA FaithfulNext == ASSUME Faithful, [Next]_vars PROVE Faithful'
<1>1. Ground' /\ Typed
  BY GroundNext DEF Faithful, Ground
<1>2. CASE Environment \/ \E w \in Workers : Handle(w)
  <2>1. UNCHANGED sched
    BY <1>2 DEF Environment, Connect, Disconnect, GraceEnds, DeadlinePasses, Receive,
       EndWithoutVerdict, Verdict, ManualOverride, db, memory, Handle, StartStep, RenewLease,
       DeliverStep, BeginVerifyingStep, FailStep, RecordFailedOutput, CancelStep, BlockStep, Stale
  <2>2. sched.at = "retry_dep" => sched.retry \in Steps
    BY <1>1 DEF Typed, SchedulerHolds, HealPoints
  <2> QED BY <1>1, <1>2, <2>1, <2>2, WaitingStays DEF Faithful, RetryPlanned
<1>3. CASE CreateRetryStep
  <2>1. sched.retry \in Steps /\ sched'.retry = sched.retry
    BY <1>1, <1>3 DEF CreateRetryStep, At, Goto, Typed, TypeOK, SchedOK, SchedulerHolds, HealPoints
  <2> QED BY <1>1, <1>3, <2>1
          DEF CreateRetryStep, Set, Faithful, RetryPlanned, Waiting, Typed, TypeOK, RowsOK
<1>4. CASE Scheduler /\ ~CreateRetryStep
  <2>1. sched'.at # "retry_dep"
    <3>1. ASSUME NEW pc \in HealPoints, Goto(pc), pc # "retry_dep" PROVE sched'.at # "retry_dep"
      BY <1>1, <3>1 DEF Goto, Typed, TypeOK, SchedOK
    <3>2. ASSUME NEW pc, Then(pc), pc # "retry_dep" PROVE sched'.at # "retry_dep"
      BY <3>2 DEF Then, Idle
    <3>3. CASE TryHeal
      BY <1>4, <3>1, <3>2, <3>3 DEF TryHeal, CreateHealStep, LinkHealStep, LinkRetryStep,
         MarkRecovered, CountHeal, HealPoints
    <3>4. CASE (\E s \in Steps : OrphanStep(s)) \/ WorkersPastGrace
      BY <1>1, <3>2, <3>4 DEF OrphanStep, WorkersPastGrace, Typed, TypeOK, SchedOK
    <3>5. CASE \E s \in Steps : StepFailed(s)
      <4>1. CASE Then("load")
        BY <3>2, <4>1
      <4>2. ASSUME NEW s, NEW h, NEW r,
                   sched' = [Idle EXCEPT !.at = "heal_new", !.step = s, !.heal = h, !.retry = r]
            PROVE  sched'.at # "retry_dep"
        BY <4>2 DEF Idle
      <4> QED BY <3>5, <4>1, <4>2 DEF StepFailed
    <3>6. CASE LoadReadySteps \/ ReconcileReadySteps \/ ExpireStaleLeases
      BY <3>6 DEF LoadReadySteps, ReconcileReadySteps, ExpireStaleLeases, Then, Idle, At
    <3>7. CASE RunCreated \/ CheckRunDone \/ FinishRun \/ \E s \in Steps : StepDelivered(s)
      BY <3>7 DEF RunCreated, CheckRunDone, FinishRun, StepDelivered, Then, Idle
    <3>8. CASE Dispatch
      BY <3>2, <3>8 DEF Dispatch, NothingAssignable, RetryLater, WaitForApproval, ForgetStale,
         FailUnleased, UnleaseStep, SendOrder, LeaseStep, Idle
    <3> QED BY <1>4, <3>3, <3>4, <3>5, <3>6, <3>7, <3>8 DEF Scheduler
  <2> QED BY <1>1, <2>1 DEF Faithful, RetryPlanned
<1>5. CASE Crash \/ Shutdown
  BY <1>1, <1>5 DEF Crash, Shutdown, ForgetMemory, Idle, Faithful, RetryPlanned
<1>6. CASE UNCHANGED vars
  BY <1>1, <1>6 DEF vars, db, stepRows, memory, Faithful, RetryPlanned
<1> QED BY <1>2, <1>3, <1>4, <1>5, <1>6 DEF Next, Scheduler

LEMMA TruthHandle ==
  ASSUME Ground, NEW w \in Workers, Handle(w) PROVE [Truth!Next]_(Truth!vars)
<1> DEFINE s == handler[w].step
<1>a. RowsOK /\ s \in Steps
  BY BusyHandler DEF Ground, Typed, TypeOK, Handle, StartStep, RenewLease, DeliverStep,
     BeginVerifyingStep, FailStep, RecordFailedOutput, CancelStep, BlockStep, Busy
<1>b. UNCHANGED needs
  BY DEF Handle, StartStep, RenewLease, DeliverStep, BeginVerifyingStep, FailStep,
     RecordFailedOutput, CancelStep, BlockStep, Stale, db, graph
<1>1. CASE UNCHANGED status
  BY <1>b, <1>1, TruthSame
<1>2. CASE status[s] \in Live /\ Set(s, "running")
  <2>1. \A t \in Steps : PhaseOf(status'[t]) = PhaseOf(status[t])
    BY <1>a, <1>2, PhaseTable DEF Set, RowsOK, Live
  <2> QED BY <1>b, <2>1, TruthSame
<1>3. CASE status[s] \in Live /\ Set(s, "delivered")
  <2>1. PhaseOf(status[s]) \in {"executing"} /\ PhaseOf("delivered") = "delivered"
    BY <1>3, PhaseTable
  <2> QED BY <1>a, <1>b, <1>3, <2>1, TruthMove DEF Truth!Next, Truth!StepOf, Truth!Deliver
<1>4. CASE status[s] = "delivered" /\ Set(s, "verifying")
  <2>1. \A t \in Steps : PhaseOf(status'[t]) = PhaseOf(status[t])
    BY <1>a, <1>4, PhaseTable DEF Set, RowsOK
  <2> QED BY <1>b, <2>1, TruthSame
<1>5. CASE \E st \in {"failed", "cancelled", "execution_failed"} :
             status[s] \in Live \cup {"delivered", "verifying"} /\ Set(s, st)
  BY <1>a, <1>b, <1>5, TruthCloseOne DEF TerminalS, AcceptedS, Live
<1> QED
  BY <1>1, <1>2, <1>3, <1>4, <1>5
     DEF Handle, StartStep, RenewLease, DeliverStep, BeginVerifyingStep, FailStep,
         RecordFailedOutput, CancelStep, BlockStep, Stale, Cas, db, stepRows

LEMMA TruthEnvironment == ASSUME Ground, Environment PROVE [Truth!Next]_(Truth!vars)
<1>a. RowsOK /\ JobsOK
  BY DEF Ground, Typed, TypeOK
<1>b. UNCHANGED needs
  BY DEF Environment, Connect, Disconnect, GraceEnds, DeadlinePasses, Receive, EndWithoutVerdict,
     Verdict, ManualOverride, db, graph
<1>1. CASE UNCHANGED status
  BY <1>b, <1>1, TruthSame
<1>2. ASSUME NEW s \in Steps, ManualOverride(s) PROVE Truth!Next
  <2>1. /\ PhaseOf(status[s]) \in {"delivered", "undecided", "closed"}
        /\ PhaseOf("manual_override") = "overridden"
    BY <1>2, PhaseTable DEF ManualOverride, TerminalS, AcceptedS
  <2>2. Set(s, "manual_override")
    BY <1>2 DEF ManualOverride
  <2> QED BY <1>a, <1>b, <2>1, <2>2, TruthMove DEF Truth!Next, Truth!StepOf, Truth!Override
<1>3. ASSUME NEW j \in jobs, NEW v \in {"verified", "failed", "inconclusive"}, Verdict(j, v),
             status' # status
      PROVE  Truth!Next
  <2>1. j.step \in Steps /\ status[j.step] = "verifying" /\ Set(j.step, v)
    BY <1>a, <1>3 DEF Verdict, Cas, JobsOK
  <2>2. PhaseOf(status[j.step]) \in {"delivered"}
    BY <2>1, PhaseTable
  <2>3. CASE v = "verified"
    <3>1. Truth!Move(j.step, {"delivered"}, "verified")
      BY <1>a, <1>b, <2>1, <2>2, <2>3, PhaseTable, TruthMove
    <3> QED BY <2>1, <3>1 DEF Truth!Next, Truth!StepOf, Truth!Verify
  <2>4. CASE v = "inconclusive"
    <3>1. Truth!Move(j.step, {"delivered"}, "undecided")
      BY <1>a, <1>b, <2>1, <2>2, <2>4, PhaseTable, TruthMove
    <3> QED BY <2>1, <3>1 DEF Truth!Next, Truth!StepOf, Truth!Undecided
  <2>5. CASE v = "failed"
    BY <1>a, <1>b, <2>1, <2>5, TruthCloseOne DEF TerminalS, AcceptedS
  <2> QED BY <2>3, <2>4, <2>5
<1> QED BY <1>1, <1>2, <1>3 DEF Environment, Connect, Disconnect, GraceEnds, DeadlinePasses,
                                Receive, EndWithoutVerdict, db, stepRows

\* try_heal plans two steps and the edge between them.
LEMMA TruthTryHeal == ASSUME Faithful, TryHeal PROVE [Truth!Next]_(Truth!vars)
<1>a. RowsOK /\ GraphOK /\ SchedulerHolds
  BY DEF Faithful, Ground, Typed, TypeOK
<1>1. CASE CreateHealStep \/ CreateRetryStep
  <2>1. PICK s \in Steps : status[s] = "absent" /\ Set(s, "pending")
    BY <1>a, <1>1 DEF CreateHealStep, CreateRetryStep, At, HealPoints, SchedulerHolds, Faithful,
       Ground, HealInOrder
  <2>2. UNCHANGED needs
    BY <1>1 DEF CreateHealStep, CreateRetryStep, graph
  <2>3. PhaseOf(status[s]) \in {"absent"} /\ PhaseOf("pending") = "planned"
    BY <2>1, PhaseTable DEF Waiting
  <2> QED BY <1>a, <2>1, <2>2, <2>3, TruthMove DEF Truth!Next, Truth!StepOf, Truth!Plan
<1>2. CASE LinkRetryStep
  <2>1. /\ sched.retry \in Steps /\ sched.heal \in Steps
        /\ needs' = [needs EXCEPT ![sched.retry] = @ \cup {sched.heal}]
        /\ UNCHANGED status /\ status[sched.retry] \in Waiting
    BY <1>a, <1>2 DEF LinkRetryStep, At, HealPoints, SchedulerHolds, Faithful, RetryPlanned, stepRows
  <2>2. Phase[sched.retry] = "planned" /\ UNCHANGED Phase
    BY <2>1, PhaseTable DEF Phase
  <2> QED BY <2>1, <2>2 DEF Truth!Next, Truth!StepOf, Truth!Need
<1>3. CASE LinkHealStep \/ CountHeal
  <2>1. UNCHANGED <<status, needs>>
    BY <1>3 DEF LinkHealStep, CountHeal, stepRows, graph
  <2> QED BY <2>1, TruthSame
<1>4. CASE MarkRecovered
  <2>1. UNCHANGED needs /\ sched.step \in Steps
    BY <1>a, <1>4 DEF MarkRecovered, At, HealPoints, SchedulerHolds, graph
  <2>2. CASE UNCHANGED status
    BY <2>1, <2>2, TruthSame
  <2>3. CASE status[sched.step] = "failed" /\ Set(sched.step, "recovered")
    BY <1>a, <2>1, <2>3, TruthCloseOne DEF TerminalS, AcceptedS
  <2> QED BY <1>4, <2>2, <2>3 DEF MarkRecovered
<1> QED BY <1>1, <1>2, <1>3, <1>4 DEF TryHeal

LEMMA TruthScheduler == ASSUME Faithful, Scheduler PROVE [Truth!Next]_(Truth!vars)
<1>a. RowsOK /\ SchedulerHolds
  BY DEF Faithful, Ground, Typed, TypeOK
<1>1. CASE UNCHANGED <<status, needs>>
  BY <1>1, TruthSame
<1>2. CASE \E s \in Steps : StepFailed(s)
  <2>1. PICK s \in Steps : StepFailed(s)
    BY <1>2
  <2>2. UNCHANGED needs
    BY <2>1 DEF StepFailed, graph
  <2>3. CASE Cascade(Downstream(s))
    <3>1. /\ Downstream(s) \in SUBSET Steps
          /\ \A t \in Downstream(s) : status[t] \notin AcceptedS \cup {"absent"}
      BY DEF Downstream, Present, Terminal, TerminalS
    <3>2. "skipped" \in TerminalS \ AcceptedS
      BY DEF TerminalS, AcceptedS
    <3> QED BY <1>a, <2>2, <2>3, <3>1, <3>2, TruthClose DEF Cascade
  <2> QED BY <1>1, <2>1, <2>2, <2>3 DEF StepFailed
<1>3. CASE ExpireStaleLeases \/ \E s \in Steps : OrphanStep(s)
  <2>1. ASSUME NEW S \in SUBSET Steps, Orphan(S), \A s \in S : status[s] \in Live, UNCHANGED needs
        PROVE  Truth!Next
    BY <1>a, <2>1, TruthReturn DEF Orphan, Waiting
  <2>2. Expired \in SUBSET Steps /\ \A s \in Expired : status[s] \in Live
    BY DEF Expired
  <2>3. UNCHANGED needs
    BY <1>3 DEF ExpireStaleLeases, OrphanStep, graph
  <2>4. CASE ExpireStaleLeases
    BY <2>1, <2>2, <2>3, <2>4 DEF ExpireStaleLeases
  <2>5. ASSUME NEW s \in Steps, OrphanStep(s) PROVE [Truth!Next]_(Truth!vars)
    BY <1>1, <2>1, <2>3, <2>5 DEF OrphanStep, stepRows
  <2> QED BY <1>3, <2>4, <2>5
<1>4. ASSUME NEW s \in Steps, NEW why \in {"text", "no_provider"}, FailUnleased(s, why)
      PROVE  Truth!Next
  <2>1. Set(s, "failed") /\ status[s] \notin AcceptedS \cup {"absent"} /\ UNCHANGED needs
    BY <1>4 DEF FailUnleased, Waiting, AcceptedS, graph
  <2> QED BY <1>a, <2>1, TruthCloseOne DEF TerminalS, AcceptedS
<1>5. ASSUME NEW s \in Steps, NEW w \in Workers, LeaseStep(s, w) PROVE Truth!Next
  <2>1. Set(s, "leased") /\ status[s] \in Waiting /\ UNCHANGED needs /\ s \in queue
    BY <1>5 DEF LeaseStep, Assigned, graph
  <2>2. needs[s] \subseteq Truth!Accepted
    <3>1. needs[s] \subseteq Accepted
      BY <2>1 DEF Faithful, Ground, Grounded
    <3>2. Accepted \subseteq Truth!Accepted
      BY PhaseTable DEF Accepted, AcceptedS, Truth!Accepted, Phase
    <3> QED BY <3>1, <3>2
  <2>3. PhaseOf(status[s]) \in {"planned"} /\ PhaseOf("leased") = "executing"
    BY <2>1, PhaseTable DEF Live
  <2> QED BY <1>a, <2>1, <2>2, <2>3, TruthMove DEF Truth!Next, Truth!StepOf, Truth!Begin
<1>6. CASE UnleaseStep
  <2>1. UNCHANGED needs /\ sched.step \in Steps
    BY <1>a, <1>6 DEF UnleaseStep, At, SchedulerHolds, graph
  <2>2. CASE status[sched.step] = "leased" /\ Set(sched.step, "pending")
    <3>1. status' = [t \in Steps |-> IF t \in {sched.step} THEN "pending" ELSE status[t]]
      BY <1>a, <2>1, <2>2 DEF Set, RowsOK
    <3>2. "pending" \in Waiting /\ \A t \in {sched.step} : status[t] \in Live
      BY <2>2 DEF Waiting, Live
    <3> QED BY <1>a, <2>1, <3>1, <3>2, TruthReturn
  <2> QED BY <1>1, <1>6, <2>1, <2>2 DEF UnleaseStep
<1>7. CASE TryHeal
  BY <1>7, TruthTryHeal
<1> QED
  BY <1>1, <1>2, <1>3, <1>4, <1>5, <1>6, <1>7
     DEF Scheduler, Dispatch, RunCreated, StepDelivered, LoadReadySteps, ReconcileReadySteps,
         WorkersPastGrace, CheckRunDone, FinishRun, NothingAssignable, RetryLater,
         WaitForApproval, ForgetStale, SendOrder, db, stepRows, graph

LEMMA TruthStop == ASSUME Ground, Crash \/ Shutdown PROVE [Truth!Next]_(Truth!vars)
<1>1. ASSUME NEW S \in SUBSET Steps, ForgetMemory(S), \A s \in S : status[s] \in Live
      PROVE  Truth!Next
  <2>1. UNCHANGED needs /\ RowsOK
    BY <1>1 DEF ForgetMemory, graph, Ground, Typed, TypeOK
  <2>2. "cancelled" \in TerminalS \ AcceptedS /\ \A s \in S : status[s] \notin AcceptedS \cup {"absent"}
    BY <1>1 DEF TerminalS, AcceptedS, Live
  <2> QED BY <1>1, <2>1, <2>2, TruthClose DEF ForgetMemory
<1> QED BY <1>1 DEF Crash, Shutdown

\* Every plan and every history of leases, reports, sweeps, repairs and
\* restarts is a behaviour of the step truth model.
THEOREM KeepsTheStepTruth == Spec => StepTruthHolds
<1>1. Init => Truth!Init
  <2> SUFFICES ASSUME Init PROVE Truth!Init
    OBVIOUS
  <2>1. needs \in [Steps -> SUBSET Steps]
    BY TypedInit DEF Typed, TypeOK, GraphOK
  <2>2. \A s \in Steps : Phase[s] \in {"absent", "planned"}
    BY PhaseTable DEF Init, Phase, Waiting
  <2>3. Phase \in [Steps -> {"absent", "planned"}]
    BY <2>2 DEF Phase
  <2> QED BY <2>1, <2>3 DEF Truth!Init
<1>2. Init => Faithful
  BY GroundInit DEF Init, Faithful, RetryPlanned, Idle
<1>3. Faithful /\ [Next]_vars => [Truth!Next]_(Truth!vars)
  <2> SUFFICES ASSUME Faithful, [Next]_vars PROVE [Truth!Next]_(Truth!vars)
    OBVIOUS
  <2>1. CASE UNCHANGED vars
    <3>1. UNCHANGED <<status, needs>>
      BY <2>1 DEF vars, db, stepRows, graph
    <3> QED BY <3>1, TruthSame
  <2> QED BY <2>1, TruthEnvironment, TruthHandle, TruthScheduler, TruthStop DEF Next, Faithful
<1> QED BY <1>1, <1>2, <1>3, FaithfulNext, PTL DEF Spec, StepTruthHolds, Truth!Spec

-----------------------------------------------------------------------------
(* A run that succeeds.  check_run_done reads the statuses in one statement and
   writes the outcome in another; what it read then cannot be undone in
   between.  A step is marked recovered last of all, when its retry is there
   and follows the heal step, so a crash within try_heal leaves a step that
   failed, not one that seems repaired. *)

Settled == AcceptedS \cup {"absent", "recovered"}

Repairs(r, h, s) == h \in needs[r] /\ s \in after[h] /\ status[r] # "absent"

RepairInOrder ==
  /\ sched.at \in {"retry_new", "retry_dep", "recover_step"} => sched.step \in after[sched.heal]
  /\ sched.at = "recover_step" => Repairs(sched.retry, sched.heal, sched.step)

SuccessHolds ==
  sched.at = "finish" /\ sched.final = "succeeded" => \A s \in Steps : status[s] \in Settled

Repaired == /\ Faithful
            /\ \A s \in Steps : status[s] = "recovered" => \E r, h \in Steps : Repairs(r, h, s)
            /\ RepairInOrder /\ SuccessHolds

\* Outside the scheduler nothing settled moves, and nothing is marked.
LEMMA SettledStays ==
  ASSUME Typed, Environment \/ (\E w \in Workers : Handle(w)), NEW s \in Steps
  PROVE  /\ status[s] \in Settled => status'[s] = status[s]
         /\ status'[s] = "recovered" => status[s] = "recovered"
<1>1. CASE Environment
  BY <1>1 DEF Environment, Connect, Disconnect, GraceEnds, DeadlinePasses, Receive, ManualOverride,
     EndWithoutVerdict, Verdict, Cas, Set, Settled, AcceptedS, Typed, TypeOK, RowsOK, db, stepRows
<1>2. ASSUME NEW w \in Workers, Handle(w)
      PROVE  /\ status[s] \in Settled => status'[s] = status[s]
             /\ status'[s] = "recovered" => status[s] = "recovered"
  BY <1>2 DEF Handle, StartStep, RenewLease, DeliverStep, BeginVerifyingStep, FailStep,
     RecordFailedOutput, CancelStep, BlockStep, Stale, Cas, Set, Settled, AcceptedS, Live, Typed,
     TypeOK, RowsOK, db, stepRows
<1> QED BY <1>1, <1>2

LEMMA OnlyTryHealMarks ==
  ASSUME Typed, Scheduler, ~MarkRecovered, NEW s \in Steps, status'[s] = "recovered"
  PROVE  status[s] = "recovered"
<1>1. CASE UNCHANGED status
  BY <1>1
<1>2. ASSUME NEW t \in Steps, NEW st, Set(t, st), st # "recovered" PROVE status[s] = "recovered"
  BY <1>2 DEF Set, Typed, TypeOK, RowsOK
<1>3. ASSUME NEW S, NEW st, st # "recovered",
             status' = [t \in Steps |-> IF t \in S THEN st ELSE status[t]]
      PROVE  status[s] = "recovered"
  BY <1>3
<1>4. CASE CreateHealStep \/ CreateRetryStep
  BY <1>2, <1>4 DEF CreateHealStep, CreateRetryStep, At, HealPoints, Typed, SchedulerHolds
<1>5. CASE \E t \in Steps : StepFailed(t)
  BY <1>1, <1>3, <1>5 DEF StepFailed, Cascade
<1>6. CASE ExpireStaleLeases \/ \E t \in Steps : OrphanStep(t)
  BY <1>1, <1>3, <1>6 DEF ExpireStaleLeases, OrphanStep, Orphan, stepRows
<1>7. CASE \E t \in Steps : \/ \E why \in {"text", "no_provider"} : FailUnleased(t, why)
                            \/ \E w \in Workers : LeaseStep(t, w)
  BY <1>2, <1>7 DEF FailUnleased, LeaseStep
<1>8. CASE UnleaseStep
  BY <1>1, <1>2, <1>8 DEF UnleaseStep, At, Typed, SchedulerHolds
<1> QED
  BY <1>1, <1>4, <1>5, <1>6, <1>7, <1>8
     DEF Scheduler, Dispatch, TryHeal, RunCreated, StepDelivered, LinkHealStep, LinkRetryStep,
         CountHeal, LoadReadySteps, ReconcileReadySteps, WorkersPastGrace, CheckRunDone,
         FinishRun, NothingAssignable, RetryLater, WaitForApproval, ForgetStale, SendOrder,
         db, stepRows

\* Edges are only added and rows only inserted, so a repair stays one.
LEMMA EdgesStay ==
  ASSUME Typed, [Next]_vars, NEW s \in Steps
  PROVE  needs[s] \subseteq needs'[s] /\ after[s] \subseteq after'[s]
<1>1. CASE UNCHANGED <<needs, after>>
  BY <1>1
<1>2. CASE LinkHealStep \/ LinkRetryStep
  BY <1>2 DEF LinkHealStep, LinkRetryStep, Typed, TypeOK, GraphOK
<1>3. CASE Environment \/ (\E w \in Workers : Handle(w)) \/ Crash \/ Shutdown \/ UNCHANGED vars
  BY <1>1, <1>3 DEF Environment, Connect, Disconnect, GraceEnds, DeadlinePasses, Receive,
     EndWithoutVerdict, Verdict, ManualOverride, Handle, StartStep, RenewLease, DeliverStep,
     BeginVerifyingStep, FailStep, RecordFailedOutput, CancelStep, BlockStep, Stale, Crash,
     Shutdown, ForgetMemory, vars, db, graph
<1>4. CASE Scheduler
  BY <1>1, <1>2, <1>4 DEF Scheduler, Dispatch, TryHeal, RunCreated, StepDelivered, StepFailed,
     CreateHealStep, CreateRetryStep, MarkRecovered, CountHeal, LoadReadySteps,
     ReconcileReadySteps, ExpireStaleLeases, WorkersPastGrace, OrphanStep, CheckRunDone, FinishRun,
     NothingAssignable, RetryLater, WaitForApproval, ForgetStale, FailUnleased, LeaseStep,
     SendOrder, UnleaseStep, db, graph
<1> QED BY <1>3, <1>4 DEF Next

LEMMA RepairsStay ==
  ASSUME Ground, [Next]_vars, NEW r \in Steps, NEW h \in Steps, NEW s \in Steps, Repairs(r, h, s)
  PROVE  Repairs(r, h, s)'
<1>1. Typed /\ status'[r] # "absent"
  BY GroundGrows DEF Ground, Grows, MayBecome, Repairs
<1>2. needs[r] \subseteq needs'[r] /\ after[h] \subseteq after'[h]
  BY <1>1, EdgesStay
<1> QED BY <1>1, <1>2 DEF Repairs

LEMMA RepairInOrderNext ==
  ASSUME Repaired, [Next]_vars PROVE RepairInOrder'
<1> DEFINE x == sched.heal  y == sched.retry  f == sched.step
<1>a. Ground /\ Typed
  BY DEF Repaired, Faithful, Ground
<1>b. sched.at \in HealPoints => x \in Steps /\ y \in Steps /\ f \in Steps /\ x # y
  BY <1>a DEF Typed, SchedulerHolds
<1>1. ASSUME UNCHANGED sched PROVE RepairInOrder'
  <2>1. CASE sched.at \in HealPoints
    BY <1>a, <1>b, <1>1, <2>1, EdgesStay, RepairsStay DEF Repaired, RepairInOrder
  <2>2. CASE sched.at \notin HealPoints
    BY <1>1, <2>2 DEF RepairInOrder, HealPoints
  <2> QED BY <2>1, <2>2
<1>2. ASSUME NEW pc \in HealPoints, Goto(pc)
      PROVE  sched'.at = pc /\ sched'.heal = x /\ sched'.retry = y /\ sched'.step = f
  BY <1>a, <1>2 DEF Goto, Typed, TypeOK, SchedOK
<1>3. CASE CreateHealStep
  BY <1>2, <1>3 DEF CreateHealStep, RepairInOrder, HealPoints
<1>4. CASE LinkHealStep
  <2>1. x \in Steps /\ f \in after'[x]
    BY <1>a, <1>b, <1>4 DEF LinkHealStep, At, HealPoints, Typed, TypeOK, GraphOK
  <2> QED BY <1>2, <1>4, <2>1 DEF LinkHealStep, RepairInOrder, HealPoints
<1>5. CASE CreateRetryStep
  <2>1. f \in after[x] /\ UNCHANGED after
    BY <1>5 DEF CreateRetryStep, At, Repaired, RepairInOrder
  <2> QED BY <1>2, <1>5, <2>1 DEF CreateRetryStep, RepairInOrder, HealPoints
<1>6. CASE LinkRetryStep
  <2>1. /\ y \in Steps /\ x \in needs'[y] /\ f \in after'[x] /\ status'[y] # "absent"
        /\ sched'.at = "recover_step" /\ sched'.heal = x /\ sched'.retry = y /\ sched'.step = f
    BY <1>a, <1>b, <1>2, <1>6 DEF LinkRetryStep, At, HealPoints, Typed, TypeOK, GraphOK, Repaired,
       RepairInOrder, Faithful, RetryPlanned, Waiting, stepRows
  <2> QED BY <2>1 DEF RepairInOrder, Repairs
<1>7. CASE MarkRecovered
  BY <1>2, <1>7 DEF MarkRecovered, RepairInOrder, HealPoints
<1>8. ASSUME NEW pc, Then(pc), pc \notin HealPoints PROVE RepairInOrder'
  BY <1>8 DEF Then, Idle, RepairInOrder, HealPoints
<1>9. CASE Scheduler /\ ~TryHeal
  <2>1. CASE (\E s \in Steps : OrphanStep(s)) \/ WorkersPastGrace
    BY <1>a, <1>8, <2>1 DEF OrphanStep, WorkersPastGrace, Typed, TypeOK, SchedOK, RepairInOrder,
       HealPoints
  <2>2. ASSUME NEW s, NEW h, NEW r,
               sched' = [Idle EXCEPT !.at = "heal_new", !.step = s, !.heal = h, !.retry = r]
        PROVE  RepairInOrder'
    BY <2>2 DEF Idle, RepairInOrder
  <2>3. CASE \E s \in Steps : StepFailed(s)
    BY <1>8, <2>2, <2>3 DEF StepFailed, HealPoints
  <2>4. CASE LoadReadySteps \/ ReconcileReadySteps \/ ExpireStaleLeases
    BY <2>4 DEF LoadReadySteps, ReconcileReadySteps, ExpireStaleLeases, Then, Idle, At,
       RepairInOrder
  <2>5. CASE RunCreated \/ CheckRunDone \/ FinishRun \/ \E s \in Steps : StepDelivered(s)
    BY <2>5 DEF RunCreated, CheckRunDone, FinishRun, StepDelivered, Then, Idle, RepairInOrder
  <2>6. ASSUME NEW s, NEW w, sched' = [Idle EXCEPT !.at = "send", !.step = s, !.worker = w]
        PROVE  RepairInOrder'
    BY <2>6 DEF Idle, RepairInOrder
  <2>7. CASE Dispatch
    BY <1>8, <2>6, <2>7 DEF Dispatch, NothingAssignable, RetryLater, WaitForApproval, ForgetStale,
       FailUnleased, UnleaseStep, SendOrder, LeaseStep, HealPoints
  <2> QED BY <1>9, <2>1, <2>3, <2>4, <2>5, <2>7 DEF Scheduler
<1>10. CASE CountHeal
  BY <1>8, <1>10 DEF CountHeal, HealPoints
<1>11. CASE Environment \/ (\E w \in Workers : Handle(w)) \/ UNCHANGED vars
  <2>1. UNCHANGED sched
    BY <1>11 DEF Environment, Connect, Disconnect, GraceEnds, DeadlinePasses, Receive,
       EndWithoutVerdict, Verdict, ManualOverride, vars, db, memory, Handle, StartStep, RenewLease,
       DeliverStep, BeginVerifyingStep, FailStep, RecordFailedOutput, CancelStep, BlockStep, Stale
  <2> QED BY <1>1, <2>1
<1>12. CASE Crash \/ Shutdown
  BY <1>12 DEF Crash, Shutdown, ForgetMemory, Idle, RepairInOrder
<1> QED BY <1>3, <1>4, <1>5, <1>6, <1>7, <1>9, <1>10, <1>11, <1>12 DEF Next, TryHeal

LEMMA SuccessHoldsNext ==
  ASSUME Repaired, [Next]_vars PROVE SuccessHolds'
<1>a. Typed
  BY DEF Repaired, Faithful, Ground
<1>1. CASE Environment \/ (\E w \in Workers : Handle(w)) \/ UNCHANGED vars
  <2>1. UNCHANGED sched
    BY <1>1 DEF Environment, Connect, Disconnect, GraceEnds, DeadlinePasses, Receive,
       EndWithoutVerdict, Verdict, ManualOverride, vars, db, memory, Handle, StartStep, RenewLease,
       DeliverStep, BeginVerifyingStep, FailStep, RecordFailedOutput, CancelStep, BlockStep, Stale
  <2>2. \A s \in Steps : status[s] \in Settled => status'[s] = status[s]
    BY <1>a, <1>1, SettledStays DEF vars, db, stepRows
  <2> QED BY <2>1, <2>2 DEF Repaired, SuccessHolds
<1>2. CASE Crash \/ Shutdown
  BY <1>2 DEF Crash, Shutdown, ForgetMemory, Idle, SuccessHolds
<1>3. CASE CheckRunDone
  <2>1. sched'.at = "finish" /\ sched'.final = "succeeded" => Outcome = "succeeded"
    BY <1>3 DEF CheckRunDone, Idle
  <2>2. Outcome = "succeeded" => \A s \in Steps : status[s] \in Settled
    BY <1>a DEF Outcome, Present, Terminal, TerminalS, AcceptedS, Settled, Typed, TypeOK, RowsOK
  <2> QED BY <1>3, <2>1, <2>2 DEF CheckRunDone, SuccessHolds, db, stepRows
<1>4. CASE Scheduler /\ ~CheckRunDone
  <2> SUFFICES sched'.at # "finish"
    BY DEF SuccessHolds
  <2>1. ASSUME NEW pc \in HealPoints, Goto(pc) PROVE sched'.at # "finish"
    BY <1>a, <2>1 DEF Goto, Typed, TypeOK, SchedOK, HealPoints
  <2>2. ASSUME NEW pc, Then(pc), pc # "finish" PROVE sched'.at # "finish"
    BY <2>2 DEF Then, Idle
  <2>3. CASE TryHeal
    BY <2>1, <2>2, <2>3 DEF TryHeal, CreateHealStep, LinkHealStep, CreateRetryStep, LinkRetryStep,
       MarkRecovered, CountHeal, HealPoints
  <2>4. CASE (\E s \in Steps : OrphanStep(s)) \/ WorkersPastGrace
    BY <1>a, <2>2, <2>4 DEF OrphanStep, WorkersPastGrace, Typed, TypeOK, SchedOK
  <2>5. ASSUME NEW s, NEW h, NEW r,
               sched' = [Idle EXCEPT !.at = "heal_new", !.step = s, !.heal = h, !.retry = r]
        PROVE  sched'.at # "finish"
    BY <2>5 DEF Idle
  <2>6. CASE \E s \in Steps : StepFailed(s)
    BY <2>2, <2>5, <2>6 DEF StepFailed
  <2>7. CASE LoadReadySteps \/ ReconcileReadySteps \/ ExpireStaleLeases
    BY <2>7 DEF LoadReadySteps, ReconcileReadySteps, ExpireStaleLeases, Then, Idle, At
  <2>8. CASE RunCreated \/ FinishRun \/ \E s \in Steps : StepDelivered(s)
    BY <2>8 DEF RunCreated, FinishRun, StepDelivered, Then, Idle
  <2>9. CASE Dispatch
    BY <2>2, <2>9 DEF Dispatch, NothingAssignable, RetryLater, WaitForApproval, ForgetStale,
       FailUnleased, UnleaseStep, SendOrder, LeaseStep, Idle
  <2> QED BY <1>4, <2>3, <2>4, <2>6, <2>7, <2>8, <2>9 DEF Scheduler
<1> QED BY <1>1, <1>2, <1>3, <1>4 DEF Next

LEMMA RepairedNext == ASSUME Repaired, [Next]_vars PROVE Repaired'
<1>a. Faithful' /\ Ground /\ Typed
  BY FaithfulNext DEF Repaired, Faithful, Ground
<1>1. ASSUME NEW s \in Steps, status'[s] = "recovered" PROVE \E r, h \in Steps : Repairs(r, h, s)'
  <2>1. CASE status[s] = "recovered"
    <3>1. PICK r \in Steps, h \in Steps : Repairs(r, h, s)
      BY <2>1 DEF Repaired
    <3> QED BY <1>a, <3>1, RepairsStay
  <2>2. CASE status[s] # "recovered"
    <3>1. MarkRecovered
      <4>1. CASE Environment \/ \E w \in Workers : Handle(w)
        BY <1>a, <1>1, <2>2, <4>1, SettledStays
      <4>2. CASE Crash \/ Shutdown
        BY <1>1, <2>2, <4>2 DEF Crash, Shutdown, ForgetMemory
      <4>3. CASE UNCHANGED vars
        BY <1>1, <2>2, <4>3 DEF vars, db, stepRows
      <4> QED BY <1>a, <1>1, <2>2, <4>1, <4>2, <4>3, OnlyTryHealMarks DEF Next
    <3>2. /\ sched.step \in Steps /\ sched.retry \in Steps /\ sched.heal \in Steps
          /\ Repairs(sched.retry, sched.heal, sched.step)
      BY <1>a, <3>1 DEF MarkRecovered, At, HealPoints, Typed, SchedulerHolds, Repaired, RepairInOrder
    <3>3. s = sched.step
      BY <1>a, <1>1, <2>2, <3>1, <3>2 DEF MarkRecovered, Set, Typed, TypeOK, RowsOK
    <3> QED BY <1>a, <3>2, <3>3, RepairsStay
  <2> QED BY <2>1, <2>2
<1> QED BY <1>a, <1>1, RepairInOrderNext, SuccessHoldsNext DEF Repaired

\* A run becomes succeeded only on accepted work, or on failed work whose
\* retry was accepted or repaired in its turn.
THEOREM RunSucceedsOnAcceptedWorkTheorem == Spec => RunSucceedsOnAcceptedWork
<1>1. Init => Repaired
  <2>1. Init => Ground
    BY GroundInit
  <2> QED BY <2>1 DEF Init, Repaired, Faithful, RetryPlanned, RepairInOrder, SuccessHolds, Idle
<1>2. ASSUME Repaired, [Next]_vars, run # "succeeded", run' = "succeeded", NEW s \in Present
      PROVE  \/ s \in Accepted
             \/ /\ status[s] = "recovered"
                /\ \E r \in RetriesOf(s) : status[r] \in AcceptedS \cup {"recovered"}
  <2>1. FinishRun
    <3>1. ~UNCHANGED run /\ ~RunCreated
      BY <1>2 DEF RunCreated
    <3> QED
      BY <1>2, <3>1 DEF Next, Environment, Connect, Disconnect, GraceEnds, DeadlinePasses, Receive,
         EndWithoutVerdict, Verdict, ManualOverride, Handle, StartStep, RenewLease, DeliverStep,
         BeginVerifyingStep, FailStep, RecordFailedOutput, CancelStep, BlockStep, Stale, Crash,
         Shutdown, ForgetMemory, Scheduler, Dispatch, TryHeal, StepDelivered, StepFailed,
         CreateHealStep, LinkHealStep, CreateRetryStep, LinkRetryStep, MarkRecovered, CountHeal,
         LoadReadySteps, ReconcileReadySteps, ExpireStaleLeases, WorkersPastGrace, OrphanStep,
         CheckRunDone, NothingAssignable, RetryLater, WaitForApproval, ForgetStale, FailUnleased,
         LeaseStep, SendOrder, UnleaseStep, vars, db
  <2>2. \A t \in Steps : status[t] \in Settled
    BY <1>2, <2>1 DEF FinishRun, At, Repaired, SuccessHolds
  <2>3. s \in Steps /\ status[s] \in AcceptedS \cup {"recovered"}
    BY <2>2 DEF Present, Settled
  <2>4. CASE status[s] = "recovered"
    <3>1. PICK r \in Steps, h \in Steps : Repairs(r, h, s)
      BY <1>2, <2>3, <2>4 DEF Repaired
    <3>2. r \in RetriesOf(s) /\ status[r] \in AcceptedS \cup {"recovered"}
      BY <2>2, <3>1 DEF Repairs, RetriesOf, Settled
    <3> QED BY <2>4, <3>2
  <2> QED BY <2>3, <2>4 DEF Accepted
<1>3. Repaired /\ [Next]_vars =>
        (run # "succeeded" /\ run' = "succeeded" =>
           \A s \in Present : \/ s \in Accepted
                              \/ /\ status[s] = "recovered"
                                 /\ \E r \in RetriesOf(s) : status[r] \in AcceptedS \cup {"recovered"})
  BY <1>2
<1>4. Repaired /\ [Next]_vars => Repaired'
  BY RepairedNext
<1> QED BY <1>1, <1>3, <1>4, PTL DEF Spec, RunSucceedsOnAcceptedWork
=============================================================================
