------------------------------ MODULE Dispatch ------------------------------
(***************************************************************************)
(* Who works next: the scheduler's round robin with its per-user slots     *)
(* (SchedulerState), the path leases that keep two steps of a user out of  *)
(* the same files, and the bounded channel that brings events back.        *)
(*                                                                         *)
(* The life of a step is told in StepLifecycle; here it is "new" until its *)
(* dependencies are met, "pending" (or orphaned), "working" (leased or     *)
(* running), "graded" (delivered, verifying) and "ended".                  *)
(***************************************************************************)
EXTENDS Naturals, Sequences, SequencesExt, FiniteSets

CONSTANTS
  Steps,          \* numbered in the order of their rows
  Runs, Users,
  None,           \* no step
  RunOf,          \* the run of a step
  UserOf,         \* the user of a run
  Files,          \* Files[s]: what the lease keys of a step cover
  Risky,          \* steps that the autonomy gate asks a person about
  MaxConcurrent,  \* slots of a user (5)
  ChannelSize,    \* events the scheduler's channel holds (256)
  MaxTroubles     \* leases, connections and servers that are lost, providers that fail

ASSUME DispatchAssumption ==
  /\ RunOf \in [Steps -> Runs] /\ UserOf \in [Runs -> Users]
  /\ Steps \subseteq Nat /\ Risky \subseteq Steps /\ None \notin Steps
  /\ {MaxConcurrent, ChannelSize} \subseteq Nat \ {0}
  /\ MaxTroubles \in Nat

VARIABLES
  status, approval,  \* the steps and the approval requests in the database
  held,              \* steps whose path leases are active
  turn,              \* schedulable_users
  ready,             \* ready_steps of every user
  count,             \* running_count of every user
  enqueued,          \* enqueued_step_ids
  sched,             \* what the scheduler's task is doing
  chan,              \* its channel
  outbox,            \* events that a connection's task waits to send
  connected,         \* users with a usable worker and an open billing gate
  outlived,          \* history: steps whose path lease ran out while they worked
  restarted,         \* history: the server was restarted
  troubles

db == <<status, approval, held>>
queues == <<turn, ready, count, enqueued>>
rest == <<connected, outlived, restarted, troubles>>
vars == <<db, queues, sched, chan, outbox, rest>>

Owner(s) == UserOf[RunOf[s]]
Event == [kind : {"created", "delivered", "failed"}, step : Steps]
Points == {"idle", "load", "pass", "try", "send", "emit"}

TypeOK ==
  /\ status \in [Steps -> {"new", "pending", "working", "graded", "ended"}]
  /\ approval \in [Steps -> {"none", "pending", "approved", "rejected"}]
  /\ held \subseteq Steps /\ outlived \subseteq Steps
  /\ turn \in Seq(Users) /\ ready \in [Users -> Seq(Steps)]
  /\ count \in [Users -> 0 .. MaxConcurrent]
  /\ enqueued \subseteq Steps
  /\ sched \in [at : Points, step : Steps \cup {None}, batch : SUBSET Steps, then : {"idle", "pass"}]
  /\ chan \in Seq(Event) /\ Len(chan) <= ChannelSize
  /\ outbox \subseteq Event
  /\ connected \subseteq Users
  /\ troubles \in 0 .. MaxTroubles /\ restarted \in BOOLEAN

----------------------------------------------------------------------------
(* Steps and workers.                                                      *)

Working == {s \in Steps : status[s] = "working"}
Trouble == troubles < MaxTroubles /\ troubles' = troubles + 1

StepsOf(r) == {s \in Steps : RunOf[s] = r}

\* The run is created; later its other steps become ready by verdicts, which tell nobody.
BecomesReady(s) ==
  /\ status[s] = "new" /\ status' = [status EXCEPT ![s] = "pending"]
  /\ outbox' = IF \A t \in StepsOf(RunOf[s]) : status[t] = "new"
               THEN outbox \cup {[kind |-> "created", step |-> s]} ELSE outbox
  /\ UNCHANGED <<approval, held, queues, sched, chan, rest>>

\* A worker's report of an attempt that was sent to it: the row first, then the event.
Report(s, kind) ==
  /\ status[s] = "working" /\ ~(sched.at = "send" /\ sched.step = s)
  /\ status' = [status EXCEPT ![s] = IF kind = "delivered" THEN "graded" ELSE "ended"]
  /\ outbox' = outbox \cup {[kind |-> kind, step |-> s]}
  /\ UNCHANGED <<approval, held, queues, sched, chan, rest>>

\* transition_verification to a verdict: the paths are released with it.
Judge(s) ==
  /\ status[s] = "graded" /\ status' = [status EXCEPT ![s] = "ended"]
  /\ held' = held \ {s}
  /\ UNCHANGED <<approval, queues, sched, chan, outbox, rest>>

\* ... and to manual_override or execution_failed: they are not.
EndWithoutRelease(s) ==
  /\ status[s] = "graded" /\ status' = [status EXCEPT ![s] = "ended"]
  /\ UNCHANGED <<approval, held, queues, sched, chan, outbox, rest>>

Decide(s, answer) ==
  /\ approval[s] = "pending" /\ approval' = [approval EXCEPT ![s] = answer]
  /\ UNCHANGED <<status, held, queues, sched, chan, outbox, rest>>

\* The 24 hours of a path lease are over.  A renewed step lease does not renew it.
PathLeaseEnds(s) ==
  /\ Trouble
  /\ s \in held /\ held' = held \ {s}
  /\ outlived' = IF s \in Working THEN outlived \cup {s} ELSE outlived
  /\ UNCHANGED <<status, approval, queues, sched, chan, outbox, connected, restarted>>

Connect(u) ==
  /\ u \notin connected /\ connected' = connected \cup {u}
  /\ UNCHANGED <<db, queues, sched, chan, outbox, outlived, restarted, troubles>>

Disconnect(u) ==
  /\ Trouble
  /\ u \in connected /\ connected' = connected \ {u}
  /\ UNCHANGED <<db, queues, sched, chan, outbox, outlived, restarted>>

Emit(e) ==
  /\ e \in outbox /\ Len(chan) < ChannelSize
  /\ outbox' = outbox \ {e} /\ chan' = Append(chan, e)
  /\ UNCHANGED <<db, queues, sched, rest>>

----------------------------------------------------------------------------
(* SchedulerState.                                                         *)

OneSlotMore(u) == count[u] <= MaxConcurrent    \* mutant: off by one
HasCapacity(u) == count[u] < MaxConcurrent
Present(q, x) == \E n \in 1 .. Len(q) : q[n] = x
AppendNew(q, x) == IF Present(q, x) THEN q ELSE Append(q, x)

NoTurn(q, s) == q    \* mutant: the user is not put in the rotation
TakeTurn(q, s) == AppendNew(q, Owner(s))

InFront(q, s) == <<s>> \o q    \* mutant: a step that must wait goes to the front
Behind(q, s) == Append(q, s)

\* enqueue_ready_step
EnqueueReadyStep(s) ==
  IF s \in enqueued THEN UNCHANGED <<turn, ready, enqueued>>
  ELSE /\ enqueued' = enqueued \cup {s}
       /\ ready' = [ready EXCEPT ![Owner(s)] = Behind(@, s)]
       /\ turn' = TakeTurn(turn, s)

OneLess(n) == IF n = 0 THEN 0 ELSE n - 1

\* mark_step_done
MarkStepDone(u) ==
  /\ count' = [count EXCEPT ![u] = OneLess(@)]
  /\ turn' = IF ready[u] # <<>> /\ count'[u] < MaxConcurrent THEN AppendNew(turn, u)
                                                          ELSE turn

\* next_assignable: the first user with a slot; those before him go to the back.
Assignable(n) == n \in 1 .. Len(turn) /\ HasCapacity(turn[n]) /\ ready[turn[n]] # <<>>
SentBack(n) ==  \* of the first n users, those without a slot
  LET back[k \in 0 .. n] ==
        IF k = 0 THEN <<>>
        ELSE IF HasCapacity(turn[k]) THEN back[k - 1] ELSE Append(back[k - 1], turn[k])
  IN  back[n]
NextAssignable(n) ==
  LET u == turn[n]
      others == SubSeq(turn, n + 1, Len(turn)) \o SentBack(n - 1)
  IN  /\ turn' = IF Len(ready[u]) > 1 THEN Append(others, u) ELSE others
      /\ ready' = [ready EXCEPT ![u] = Tail(@)]
      /\ count' = [count EXCEPT ![u] = @ + 1]
      /\ enqueued' = enqueued \ {Head(ready[u])}

----------------------------------------------------------------------------
(* The scheduler's task (scheduler_loop).                                  *)

At(point) == sched.at = point
Task(at, step) == [at |-> at, step |-> step, batch |-> {}, then |-> "pass"]
Goto(point) == sched' = Task(point, IF point = "idle" \/ point = "pass" THEN None ELSE sched.step)
Load(batch, then) ==
  sched' = IF batch = {} THEN Task(then, None)
           ELSE [at |-> "load", step |-> None, batch |-> batch, then |-> then]

\* find_ready_steps, after what this step did to the rows.
IsReadyNext(s) == status'[s] = "pending" /\ approval[s] # "pending"
\* check_run_done: a run whose steps have all ended lets go of its leases.
Kept == {s \in held : \E t \in StepsOf(RunOf[s]) : status'[t] # "ended"}

AnyEvent(e) == TRUE     \* mutant: every event gives a slot back
GivesBack(e) == e.kind # "created"

\* After a failure the steps that needed the failed one may be skipped.
TakeEvent ==
  /\ At("idle") /\ chan # <<>> /\ chan' = Tail(chan)
  /\ LET e == chan[1]  r == RunOf[e.step]
     IN  /\ \E skipped \in SUBSET {s \in StepsOf(r) : status[s] \in {"new", "pending"}} :
              /\ e.kind # "failed" => skipped = {}
              /\ status' = [s \in Steps |-> IF s \in skipped THEN "ended" ELSE status[s]]
         /\ IF ~GivesBack(e) THEN UNCHANGED <<turn, count, held>>
            ELSE /\ MarkStepDone(UserOf[r])
                 /\ held' = {s \in held : RunOf[s] # r} \cup Kept
         /\ Load({s \in StepsOf(r) : IsReadyNext(s)}, "pass")
  /\ UNCHANGED <<approval, ready, enqueued, outbox, rest>>

\* expire_stale_leases and expire_grace_periods: the steps are pending again.
Expire(lost) ==
  /\ lost \subseteq Working
  /\ status' = [s \in Steps |-> IF s \in lost THEN "pending" ELSE status[s]]

\* The 30 second tick.
Tick ==
  /\ At("idle")
  /\ \E lost \in SUBSET Working :
       /\ Expire(lost)
       /\ IF lost = {} THEN UNCHANGED troubles ELSE Trouble
  /\ held' = Kept
  /\ Load({s \in Steps : IsReadyNext(s)}, "pass")
  /\ UNCHANGED <<approval, queues, chan, outbox, connected, outlived, restarted>>

Enqueue(s) ==
  /\ At("load") /\ s \in sched.batch /\ \A t \in sched.batch : s <= t
  /\ EnqueueReadyStep(s)
  /\ Load(sched.batch \ {s}, sched.then)
  /\ UNCHANGED <<db, count, chan, outbox, rest>>

\* schedule_until_blocked
Assign ==
  /\ At("pass")
  /\ \E n \in 1 .. Len(turn) :
       /\ Assignable(n) /\ \A k \in 1 .. n - 1 : ~Assignable(k)
       /\ NextAssignable(n)
       /\ sched' = Task("try", Head(ready[turn[n]]))
  /\ UNCHANGED <<db, chan, outbox, rest>>

NothingAssignable ==
  /\ At("pass") /\ \A n \in 1 .. Len(turn) : ~Assignable(n)
  /\ turn' = SentBack(Len(turn))
  /\ Goto("idle")
  /\ UNCHANGED <<db, ready, count, enqueued, chan, outbox, rest>>

\* RetryLater: the slot is given back, the step goes to the end of the queue.
GiveBackAndRequeue(s) ==
  /\ count' = [count EXCEPT ![Owner(s)] = OneLess(@)]
  /\ EnqueueReadyStep(s)
  /\ Goto("idle")

(* dispatch_step, up to the lease; s is the step that was assigned. *)
Trying(s) == At("try") /\ s = sched.step
SameOwner(s, t) == Owner(s) = Owner(t) /\ s # t
Clash(s, t) == SameOwner(s, t) /\ Files[s] \cap Files[t] # {}
AnyPath(s) == TRUE          \* mutant: conflicts are not looked for
PathsAreFree(s) == \A t \in held : ~Clash(s, t)
Reserved(s) == IF Files[s] = {} THEN held ELSE held \cup {s}
Dispatchable(s) ==
  Trying(s) /\ Owner(s) \in connected /\ PathsAreFree(s) /\ held' = Reserved(s)

RetryLater(s) ==
  /\ Trying(s) /\ ~(Owner(s) \in connected /\ PathsAreFree(s))
  /\ GiveBackAndRequeue(s)
  /\ UNCHANGED <<db, chan, outbox, rest>>

\* The paths stay leased while a person is asked.
WaitForApproval(s) ==
  /\ Dispatchable(s) /\ s \in Risky /\ approval[s] \in {"none", "pending"}
  /\ approval' = [approval EXCEPT ![s] = "pending"]
  /\ MarkStepDone(Owner(s)) /\ Goto("idle")
  /\ UNCHANGED <<status, ready, enqueued, chan, outbox, rest>>

Rejected(s) == s \in Risky /\ approval[s] = "rejected"
Cleared(s) == s \in Risky => approval[s] = "approved"

\* A rejected approval: no retry and, if the step is not waiting any more, no event.
FailRejected(s) ==
  /\ Dispatchable(s) /\ Rejected(s)
  /\ IF status[s] = "pending"
     THEN status' = [status EXCEPT ![s] = "ended"] /\ Goto("emit")
     ELSE UNCHANGED status /\ Goto("pass")
  /\ UNCHANGED <<approval, queues, chan, outbox, rest>>

\* Every provider is vetoed.
FailWithoutProvider(s) ==
  /\ Trouble
  /\ Dispatchable(s) /\ Cleared(s) /\ status[s] = "pending"
  /\ status' = [status EXCEPT ![s] = "ended"] /\ Goto("emit")
  /\ UNCHANGED <<approval, queues, chan, outbox, connected, outlived, restarted>>

\* lease_step
Lease(s) ==
  /\ Dispatchable(s) /\ Cleared(s) /\ status[s] = "pending"
  /\ status' = [status EXCEPT ![s] = "working"]
  /\ outlived' = outlived \ {s}
  /\ Goto("send")
  /\ UNCHANGED <<approval, queues, chan, outbox, connected, restarted, troubles>>

\* The queue entry is old: lease_step finds another status, and the entry is kept.
LeaseLost(s) ==
  /\ Dispatchable(s) /\ Cleared(s) /\ status[s] # "pending"
  /\ GiveBackAndRequeue(s)
  /\ UNCHANGED <<status, approval, chan, outbox, rest>>

Send(s) ==
  /\ At("send") /\ s = sched.step /\ Owner(s) \in connected
  /\ Goto("pass")
  /\ UNCHANGED <<db, queues, chan, outbox, rest>>

\* unlease_step
SendFails(s) ==
  /\ At("send") /\ s = sched.step /\ Owner(s) \notin connected
  /\ status' = IF status[s] = "working" THEN [status EXCEPT ![s] = "pending"] ELSE status
  /\ GiveBackAndRequeue(s)
  /\ UNCHANGED <<approval, held, chan, outbox, rest>>

\* The scheduler sends to itself, and waits if its channel is full.
EmitFailed ==
  /\ At("emit") /\ Len(chan) < ChannelSize
  /\ chan' = Append(chan, [kind |-> "failed", step |-> sched.step])
  /\ Goto("pass")
  /\ UNCHANGED <<db, queues, outbox, rest>>

\* The server dies and recover_from_db builds a new SchedulerState.
Restart ==
  /\ Trouble /\ restarted' = TRUE
  /\ \E lost \in SUBSET Working : Expire(lost)
  /\ turn' = <<>> /\ enqueued' = {}
  /\ ready' = [u \in Users |-> <<>>] /\ count' = [u \in Users |-> 0]
  /\ chan' = <<>> /\ outbox' = {} /\ connected' = {}
  /\ Load({s \in Steps : IsReadyNext(s)}, "idle")
  /\ UNCHANGED <<approval, held, outlived>>

----------------------------------------------------------------------------
Init ==
  /\ status = [s \in Steps |-> "new"] /\ approval = [s \in Steps |-> "none"]
  /\ held = {} /\ outlived = {}
  /\ turn = <<>> /\ ready = [u \in Users |-> <<>>]
  /\ count = [u \in Users |-> 0] /\ enqueued = {}
  /\ sched = Task("idle", None)
  /\ chan = <<>> /\ outbox = {} /\ connected = Users
  /\ troubles = 0 /\ restarted = FALSE

Dispatching(s) ==
  \/ RetryLater(s) \/ WaitForApproval(s) \/ FailRejected(s) \/ FailWithoutProvider(s)
  \/ Lease(s) \/ LeaseLost(s) \/ Send(s) \/ SendFails(s)
Scheduler ==
  \/ TakeEvent \/ Tick \/ Assign \/ NothingAssignable \/ EmitFailed
  \/ \E s \in Steps : Enqueue(s) \/ Dispatching(s)
Reports(s) == \E kind \in {"delivered", "failed"} : Report(s, kind)
Emits == \E e \in outbox : Emit(e)

Next ==
  \/ Scheduler \/ Emits \/ Restart
  \/ \E s \in Steps : \/ BecomesReady(s) \/ Reports(s) \/ Judge(s)
                      \/ EndWithoutRelease(s) \/ PathLeaseEnds(s)
                      \/ \E answer \in {"approved", "rejected"} : Decide(s, answer)
  \/ \E u \in Users : Connect(u) \/ Disconnect(u)

Spec == Init /\ [][Next]_vars
FairSpec ==
  /\ Spec
  /\ WF_vars(Scheduler) /\ WF_vars(Emits)
  /\ \A s \in Steps : WF_vars(Reports(s))
  /\ \A u \in Users : WF_vars(Connect(u))

----------------------------------------------------------------------------
Queued(s) == Present(ready[Owner(s)], s)
Idle == At("idle") \/ At("load")

\* Nobody is forgotten: whoever has steps queued has exactly one place in the
\* rotation, and a step is queued exactly once if its id is remembered.
EveryoneHasATurn ==
  /\ \A u \in Users : ready[u] # <<>> => Present(turn, u)
  /\ IsInjective(turn) /\ \A u \in Users : IsInjective(ready[u])
  /\ \A s \in Steps : s \in enqueued <=> Queued(s)

\* Two steps of a user that work at the same time touch different files, unless
\* one of them has worked for longer than its path lease lasts.
WritersAreApart ==
  \A s, t \in Working \ outlived : ~Clash(s, t)

\* Until the server restarted, no user has more steps at work than slots.
WithinShare ==
  ~restarted =>
    \A u \in Users : Cardinality({s \in Working : Owner(s) = u}) <= MaxConcurrent

\* A queued step of a user who again and again has a free slot is tried again and
\* again: nothing that blocks one step or one user starves another.
Served ==
  \A s \in Steps : []<>(Idle /\ HasCapacity(Owner(s))) => []<>~Queued(s)

\* A queued step is assigned some time, as all work ends.
StillGetsAssignments == \A s \in Steps : Queued(s) ~> ~Queued(s)
=============================================================================
