# A verification project for heyvera

TLA+ modules for the parts of the repository that run a protocol: the run engine of
Cortex, which decides what work is done, by whom, and when it counts as done; the
gateway that spends money at the model supplier; and the two pages of the web clients
that keep a screen, a socket and a server in agreement. Every definition is translated
from the source; `PROJECT.json` ("map") gives the lines each one stands for. Paths below
are relative to `src/`; `api/` abbreviates `crates/api/src/`.

    tlc -config Steps_fencing.cfg MCStepLifecycle      # model-check one run
    tlapm StepLifecycle_proofs.tla                     # check the proofs of one module

| module | what it is |
|---|---|
| `StepTruth` | abstract: what the step truth model (ADR-0001) promises |
| `StepLifecycle` | the rows of one run, the scheduler's task, connections, crashes; implements `StepTruth` |
| `MCStepLifecycle` | its instances for TLC (`Steps_*.cfg`) |
| `StepLifecycle_proofs` | type correctness, fencing, dependents wait, work is never repeated, honest success, the refinement |
| `VerdictOnce` | abstract: what verification promises about one delivery |
| `DurableVerifier` | verification jobs, dispatchers that may overlap and die, sealing, charging; implements `VerdictOnce` |
| `MCDurableVerifier` | its instances for TLC (`Verifier_*.cfg`) |
| `DurableVerifier_proofs` | type correctness, claims, ended jobs, one verdict and one charge (the refinement) |
| `Dispatch` | round robin and slots, every outcome of `dispatch_step`, path leases, the bounded event channel |
| `MCDispatch`, `Dispatch_proofs` | its instances (`Dispatch_*.cfg`); all of its safety properties |
| `ProviderGateway` | capacity, authorisations, reservations, calls that may be dropped, late reports |
| `MCProviderGateway`, `ProviderGateway_proofs` | its instance (`Gateway_spend.cfg`); five promises about money |
| `ChatSession` | one tab of the Cortex chat: the active conversation, the composer, streams and their retries |
| `ChatSession_proofs` | all of its safety properties |
| `DirectMessages` | the messages page and the social hub: pages, recovery, polling, reconnecting socket |
| `DirectMessages_proofs` | all of its safety properties |
| `FiniteMath` | least and greatest elements of finite sets, and sums over them, for the proofs |

## 1. The system

A user asks for a *run*; a plan makes it a DAG of *steps*. The API server is one
process: an SQLite database behind a mutex, one scheduler task, one task per
worker WebSocket, a verification dispatcher, and the HTTP handlers. Workers are
programs on users' machines that execute steps and report. The server grades what
they deliver in a container, charges for it, and releases the steps that build on it.
Workers reach the model supplier through the server's gateway. Users talk to all this
in a chat; the repository's other product, a social network, has direct messages.

| component | state | operations | how it meets the others |
|---|---|---|---|
| step, dependency and run rows (`api/db/mod.rs`) | status, lease generation, holder, deadline, head commit, edges, heal count | lease, start, renew, deliver, begin verifying, fail, cancel, block, override, skip, recover, orphan | compare-and-set UPDATEs; every task calls them, one call at a time |
| scheduler (`api/scheduler.rs`) | position between two calls | events RunCreated, StepDelivered, StepFailed; a tick every 30 s; heal, cascade, completion, dispatch | reads rows, sends ExecuteStep to a connection, receives events |
| fair queue (`crates/engine/src/captain.rs`) | rotation of users, their queued steps, slots in use | enqueue, next assignable, mark done | inside the scheduler |
| path leases (`api/db/mod.rs` 5074-5147, 10295-10352, 10789-10920) | leases on paths with a TTL | acquire, conflict, release, expire | dispatch, verdicts, end of the run |
| event channel (`api/state.rs` 616) | 256 events | emit, receive | filled by connections and by the scheduler itself |
| worker connections (`api/ws.rs`, `api/state.rs`) | registry, session rows with grace deadline | register, reports, disconnect | verify the report against the row, apply it, emit an event |
| verification queue (`api/db/verification_queue.rs`) | `verification_jobs`: state, claim token, expiry, attempts | enqueue, claim, heartbeat, retry, finish, reclaim | filled by a delivery, drained by the dispatcher |
| dispatcher and driver (`api/verification_dispatcher.rs`, `verification_driver.rs`) | current job, verdict, heartbeat task | poll, sweep, claim, check the exam, grade, seal, bill, project | moves the step; sends no event |
| receipts and ledger (`api/db/ledger.rs`, `crates/core/src/billing_binding.rs`) | verification rows, credit transactions by idempotency key | claim, seal, debit, refund | called by the driver |
| provider gateway (`api/provider_gateway.rs`, `api/db/provider_gateway.rs`) | funded capacity, authorisations, reservations, spend rows | reserve, forward, settle, release, mark unresolved | workers ask, the supplier charges, reports arrive later |
| chat tab (`cortex/src/lib/useChatSession.ts`, `cortexApi.ts`, `App.tsx`) | conversation of each group, transcript, composer, refs, requests under way | open, new chat, send, stop, reload, answers | conversation store and stream of the server |
| messages page and hub (`heyvera/src/pages/MessagesPage.tsx`, `api/messaging.rs`, `api/state.rs`) | screen, cursor, socket, timer; subscriptions and queues | select, load, poll, recover, connect, push, gap | REST pages and WebSocket pushes of one history |
| run graph (`captain.rs` RunBuilder, `crates/engine`) | none | build, detect cycles, topological order | creates the rows |
| worker program, sandbox (`crates/worker`) | worktree, processes | execute a step | sends reports |
| policy libraries, bandit, evaluator (`crates/core`, `crates/engine`) | none | pure functions | called on the way |
| rest of the social product, accounts, other front ends, SOMA | rows of their own | record keeping, forwarding | take no part in the protocols above |

What is hard here, and hard to test:

* **Interleaving at call granularity.** There is no transaction around a handler.
  `ws.rs` checks who holds a step, unlocks, and applies the report later; the
  scheduler computes readiness, keeps it in a queue, and leases later without
  looking at the dependencies again. The chat's `sendMessage` awaits four requests
  while its user opens something else.
* **Generations.** A step is leased again after expiry. The holder check does not
  name the attempt; only the lease generation of each UPDATE keeps a late report
  of the same worker out. In the browser a version counter and refs play that part.
* **Crashes between statements.** `try_heal` is seven commits, a delivery two, a
  verdict four, a supplier call two with the charge between them; the memory of the
  process is gone and the rows stay.
* **Time.** A lease, grace period or claim runs out while the answer is on its way.
* **Two processes.** A deploy starts a server before the old one ended;
  `CORTEX_SINGLE_NODE` asserts that it does not and detects nothing.
* **Limits.** Slots, the event channel, a subscriber's queue, a page, a cap.
* **Things that must happen eventually.** Events are in memory; what they would
  have caused must be found again from the rows. A page must find its way back
  to its socket, a composer must open again.

What makes each part correct:

* *Step rows*: only the current attempt moves its step; what is graded is what that
  attempt delivered; a step that ended is never executed again; nothing begins
  before all it needs was accepted, where *accepted* is `verified` or
  `manual_override` and nothing else; a run succeeds only on accepted work.
* *Scheduler*: every lost lease comes back; healing is all or nothing in its effects.
* *Fair queue, path leases*: nobody falls out of the rotation; no user has more at
  work than slots, and slots come back; two steps that work never share a file.
* *Verifier*: one delivery gets one verdict and at most one charge, the step shows
  the verdict that was sealed, every job ends, and an ended job decided its step.
* *Gateway*: a request is bought once; what was charged is in the books at every
  moment; nothing overdraws its authorisation or the capacity; history is not rewritten.
* *Chat*: nothing lands in another conversation; one prompt, one ending; the composer
  is locked only by work that will unlock it.
* *Messages*: only the open conversation is on screen; a page that says Live misses
  nothing; a page that is online is connected or trying.

`PROJECT.json` ("hazards") places these at their lines.

## 2. Plan

Done: `StepTruth` and `StepLifecycle`, `VerdictOnce` and `DurableVerifier`, then
`Dispatch` (the fair queue, path leases and channel of one scheduler, which belong
together: path leases decide whether a slot is given back), `ProviderGateway`,
`ChatSession` and `DirectMessages`. Every safety invariant, action property and
refinement that a passing run checks is also a theorem (section 10).

Considered and left out: the credit ledger's split of a debit over two buckets and the
mirrored refund, and the run graph's cycle detection and topological order. Both are
sequential code in one transaction or in none, on which no interleaving, crash or retry
acts, and unit tests reach their cases; what the ledger does in a protocol is in
`DurableVerifier`.

Next:

1. Composition. `StepLifecycle` abstracts the verifier to "a job may produce a verdict
   once" and the queue to "any queued step"; `DurableVerifier` and `Dispatch` in turn
   assume that a step is delivered once, by a numbered attempt
   (`WorkIsNeverRepeated`, `GradedWorkIsCurrent`, both proved). A module that
   instantiates all three would check these interfaces instead of stating them.
2. The abstract specification of a chat (a conversation as a sequence of prompts with
   one ending each), which the safety properties of `ChatSession` describe piecemeal.

## 3. StepLifecycle

**State.** One function per column of `steps` (`status`, `gen`, `owner`, `due`,
`head`, `reason`), the two kinds of edges (`needs`: success_required, `after`:
completion_required), `healable` (the step's kind, as `is_healable()` sees it),
`heals` and `run` for the run, `session` for `worker_sessions` with the registry,
`jobs` for deliveries a verdict may still arrive for. In memory: `handler` (what
each connection's task is in the middle of), `sched` (the same for the scheduler),
`queue`, `events`; `attempts` are orders held by workers. A heal creates steps, so
`Steps` is a pool of which `InitSteps` exist at first.

**Actions.** One action is one database call with what its caller does before the
next one. All of `ws.rs`'s step reports are there: `Receive` is
`verify_step_worker`, then `StartStep`, `RenewLease`, `DeliverStep` and
`BeginVerifyingStep`, `RecordFailedOutput` and `FailStep`, `CancelStep`,
`BlockStep`. The scheduler's task is a program counter: an event or a tick
(`ExpireStaleLeases`, then `WorkersPastGrace` and one `OrphanStep` per step, then
`ReconcileReadySteps`) leads to loads, `CheckRunDone`, `FinishRun`, and dispatch
(`LeaseStep`, `SendOrder`, `UnleaseStep`, and the ways not to dispatch). `try_heal`
is six actions: its seventh commit sets the heal step's earliest dispatch, and the model
does not say how soon a step is queued. `Crash` forgets the memory; `Shutdown` cancels, last, the steps a
chat follows. Environment: connections, time, verdicts, overrides.

**Abstractions.**

* Worker identity is fresh for each connection, as in the code; a worker that comes
  back is another member of `Workers`.
* `StepFailed` is several reads (error text, status, kind, heal count) and then
  `cascade_failure`, which holds the connection for all its statements. The reads and the
  cascade are one action because what is read is stable while the scheduler's task is
  busy: only the scheduler counts heals, and of the statuses it asks for `cancelled` alone,
  which is final. A crash within `cascade_failure` would leave some of the dependents
  pending; so does, in the model, a crash just before it, since the event is lost.
* Events are a set: an unordered channel, which contains the behaviours of the FIFO
  one. Its order and capacity are in `Dispatch`.
* `last_error` is a class of texts: those in which the scheduler finds
  `CliNotAuthenticated` or `CliAuthExpired` ("auth"), "no_provider", any other, none.
* Which queued step is next and whether its user has a slot is any choice;
  `NothingAssignable` may happen with a full queue.
* The autonomy gate, billing gate, path leases and provider choice appear as their
  outcomes: retry later, ask a person, fail, lease.
* A verdict or none arrives for each job, and `DurableVerifier` is what sends it.

**Properties.** `TypeOK`, with the one clause that a leased or running step has a holder;
`GradedWorkIsCurrent`, `OnlyTheHolderReports`,
`DependentsWaitForAcceptance` (invariants), `WorkIsNeverRepeated`,
`RunSucceedsOnAcceptedWork` (action properties), `LostLeaseComesBack` (liveness), and
`StepTruthHolds`: the module implements `StepTruth` with `phase` computed from
`status`. `StepTruth` knows no lease or generation; its `Begin` is the only way to
execute and demands accepted dependencies, `Close` never takes what was accepted, and
a verdict needs a delivery.

## 4. DurableVerifier

**State.** `step` (status from the attempt that delivers onwards), `job`
(`verification_jobs`: state, claim token, attempts, whether the claim expired or the
backoff runs), `receipts` (`verification_runs`, identified by who claimed it for
what), `ledger`; per process `proc`, `disp` (where the dispatcher is, with which job
and verdict) and `beat` (its heartbeat task); `carrier`, the connection task between
the two calls of a delivery.

**Actions.** `Start` is `reconcile_on_startup`; `Die` may come between any two calls.
`Poll`, `Sweep`, `ClaimJob`, `Drained` are `dispatch_loop`; `RefuseExam`,
`RetryLater`, `StartHeartbeat` and `FinishJob` are `run_claimed_job`;
`NothingToVerify`, `ClaimVerification`, `FinishVerification` or `SealFails`, `Bill`,
`ProjectVerdict` are `verify_delivery`. The sweep takes back every expired claim,
whoever holds it, and retires jobs out of attempts; heartbeat, retry and finish carry
the claim token and change nothing when the claim has gone, while the driver's own
calls do not and go on.

**Abstractions.** A step stands for its delivery and its job, which is justified by
`WorkIsNeverRepeated`, proved in the other module. Exam integrity, checkout and
check runs come down to the verdict they lead to. The three ledger calls of a charge
are one action: their keys derive from the verification's own id, so no other task
reads or writes them. The order in which jobs are claimed is any. An INSERT error of
`claim_verification` is handled by the code as "already claimed" and is a case of
`NothingToVerify`; of the statements that may fail, the seal is modelled. In the
code as it is the refund branch of the billing effect cannot be reached (a failed
verdict never finds a charge under its own key); `Effect` keeps the branch.

**Properties.** `EndedJobIsProjected`, `ClaimIsWorkedOn` (invariants), `JobEndsOnce`
(action property), `JobsEnd` (liveness), and `VerdictOnceHolds`: it implements
`VerdictOnce`, where a delivery is decided at most once, charged at most once and
only for a verdict that costs something, and the step shows what was sealed.

## 5. Dispatch

**State.** Steps in five states (`StepLifecycle` has their life), approval requests,
`held` (steps whose path leases are active); `turn`, `ready`, `count`, `enqueued` are the
fields of `SchedulerState`; `sched` is where the scheduler's task is, with the steps it
is still to enqueue; `chan` its FIFO channel of `ChannelSize`, `outbox` what connections
wait to send into it.

**Actions.** `SchedulerState`'s operations are operators; the task is `TakeEvent`, `Tick`,
`Enqueue`, `Assign` or `NothingAssignable`, and then one of the outcomes of
`dispatch_step`: `RetryLater`, `WaitForApproval`, `FailRejected`, `FailWithoutProvider`,
`Lease`, `LeaseLost`, `Send`, `SendFails`, each with what it does to the slot, the
rotation and the path leases. `SentBack` are the users without a slot whom
`next_assignable` passes over and moves to the end, also when it finds nobody. `Report`
is about an order that was sent: not the one the task still holds between lease and send. `EmitFailed` waits for room in the channel the task itself
empties. `Restart` builds a new `SchedulerState`. Environment: reports, verdicts, other
ends of a step, answers to approvals, path leases that run out, connections.

**Abstractions.** `connected` stands for all that makes `dispatch_step` say "later"
before it looks at paths: no usable worker, a closed billing gate. What `cascade_failure`
skips and when a step becomes ready is any choice. Path keys are the sets of files they
cover; leases of whole runs, taken when a run is created, carry another authority scope
and never meet those of steps.

**Properties.** `EveryoneHasATurn` (the rotation, the queues and the ids remembered
agree), `WritersAreApart`, `WithinShare` (until a restart), `Served` (liveness), and
`StillGetsAssignments`, which the code does not keep.

## 6. ProviderGateway

**State.** `funded`, `auth`, `row` (reservations by request key) and `spend` are the
tables; `call` is what each call of `forward` knows between two of its transactions;
`asked` and `charged` are the supplier's side. `mostFunded` and `misreported` are history.

**Actions.** `Reserve` or `ReserveAgain`, `Ask`, then `AnswerSettles`, `AnswerUnknown`
(no usage, impossible usage, time-out, broken connection) or `NotSent`; a call is dropped
at any await (`Abandon`). Reports settle or release at any time. The four cases of
`settle_provider_request` are four disjuncts, in the order of the code.

**Abstractions.** Signatures, scopes, deadlines as numbers and the cost formula are
left out: a form is a digest with a bound, an authorisation is active until it expires.
A report that comes while the call is at work, or that is wrong, is allowed and marks its
request: about such requests `ChargesAreCovered` says nothing, the others still do.

**Properties.** `SupplierIsAskedOnce`, `ChargesAreCovered`, `ExposureIsCapped`,
`BooksAgree` (invariants), `HistoryIsKept` (action property).

## 7. ChatSession

**State.** What the hook keeps in refs (`idRef`, `skipRef`, `version`, `abortRef`) and in
React state (`view`, `bubble`, `extra`, `isStreaming`), what `App.tsx` keeps for each group
(`convOf`), requests under way (`loads`, `send`), the hand-off timer (`due`), and the
server's conversations and messages. `send[s]` is the continuation of the s-th prompt
with what its closure captured.

**Actions.** A state change and the effects React runs for it are one step (`Showing` is
the load effect with its early returns). `sendMessage` is cut at its awaits:
`SendMessage`, `ConversationCreated`, `PromptAdded` or `SendFailed`, then the callbacks of
`streamChat`: `TerminalEvent`, `StreamDone`, `StreamError`, and `StreamBroken` followed by
`PostAgain`, up to `MaxPosts`. The user opens groups and conversations, sends, stops and
reloads; another tab deletes. Below all requests is `fetchWithRetry`, which repeats a POST
after a 503 or a broken connection, without a key: a request whose answer was lost may have
been carried out all the same. `Posts` therefore stores any number of copies of a message up to
`MaxTries`, or none, and `CreationLost` creates a conversation the tab never learns of.
`MaxTries` and `MaxPosts` apply to the prompts in `Retried`.

**Abstractions.** The copies of one message are stored in one step. In the program they
arrive one after another, but no step depends on how many there are: the tab waits at most
for the last request, `stored` is unordered, and what is said of it stays true when messages
are taken away. A prompt or a
failure notice that is stored when its request has been given up is a case of `SendFailed`.
Ids of new conversations are interchangeable and taken in order (`Fresh`).

**Properties.** `ScreenIsActive`, `StoredWhereTyped`, `OneEnding`, `LockedOnlyByWork`,
`OnlyTheUserInterrupts` (invariants), `ComposerReopens` (liveness). The first two except
`LateCreation`, the one case in which the code breaks them (section 11). `OneEnding` is
about all three endings - an answer, a stop, a failure - and about the post of the stream
they belong to: whatever is stored of the ending of a prompt is copies of one message. The
one exception is named in it: a prompt that was stopped while it was being stored, which
then failed, gets both notices.

## 8. DirectMessages

**State.** The server's history `msgs`, `unsent` (stored and not yet broadcast) and, for
each socket, `server[i]`: subscriptions, frames to handle, the queue of pushes (`tx`), the
gap watch, frames sent. The page: `sel`, `shown`, `cursor`, page requests `loads`, `live`
(`wsConnected`), and the connection effect's shared variables `socket`, `wsRef`, `subRef`,
`timer`, with `conn[i]`, how far the i-th `connect()` has come. `lapses` is history.

**Actions.** `handle_social_ws` is one turn of its loop (`HandleFrame`, `Push`,
`SendGap`), `broadcast_dm_event` is `Broadcast` with the slow consumer's case. The page's
effects and handlers: `Select`, the head pages and polls, `RecoveryArrives` with its
further pages, `Reconnect`, `TokenArrives`, `TicketArrives`, `Opened`, `Receive`,
`Closed`, `Refused`, `ConnectFails`, `GoOffline`, `GoOnline`, `Visible`.

**Abstractions.** Asking for a page and the server's reading of it are one step; the
answer arrives later, in any order. One message at a time is between storing and
broadcast, and a poll that finds a page under way is left out (polls are six seconds
apart). Composing, read marks, requests and older pages are left out, and so is a refused
subscription (no access to the conversation, no profile, too many): the page then never
becomes live. A socket whose peer is gone without a close counts as open.

**Properties.** `ShownIsSelected`, `NeverAbandoned`, and `LiveIsCaughtUp`: a page that says
Live misses nothing, that is, each message of its conversation is on screen, or on its way
(`Coming`), or history (`Older` than all on screen or than a head page under way), unless
one of five lapses occurred in this visit. They are named where they happen: two
`connect()` calls under way at once ("overlap"), a head page that does not reach back to
what is on screen ("page"), a page or push that arrives when messages newer than it are
missing and a cursor is already past them ("late"), a recovery without a token, which reads
nothing and counts as done ("token"), a failed first load ("history"). A page request keeps
`from`, the cursor it was asked with, since a recovery under way will move the cursor
wherever it has got to. `CaughtUp` without the exceptions is what the code's comment says,
and is violated.

The "late" lapse is what the proof of `LiveIsCaughtUp` found. An earlier statement had four
lapses and held in instances with two messages; with three it does not, because a slow
first page that a recovery overtakes sets the cursor back (section 11).

## 9. Runs

| run | instance | question | result |
|---|---|---|---|
| `fencing` | 1 step, 2 connections that may leave, 2 leases, every report, 1 restart, override, fairness | do late reports, expiry and grace periods ever let the wrong attempt move a step? does every lost lease come back? | holds |
| `chain` | s2 needs s1, 2 leases each, override of s1, no heals left, 1 restart | does a dependent begin on anything but accepted ground? is `StepTruth` kept by cascades? | holds |
| `heal` | 1 healable step, 1 heal, override, 1 restart | do the steps of a heal wait for what they need, and does a run ever succeed on unrepaired work, whatever crash interrupts `try_heal`? is `StepTruth` kept? | holds |
| `once` | 2 deliveries (one exam edited), 3 overlapping processes, 2 may die, 2 attempts | one verdict, one charge, one end of each job? | holds |
| `ends` | 1 delivery, 3 processes in turn, 2 may die, runner away, seals fail, fairness | does every job end? | holds |
| `chat` | 2 prompts, 2 groups, 1 move, a hand-off, one prompt whose requests and streams are tried twice, fairness | does anything land in the wrong place, end twice, or lock the composer? | holds |
| `messages` | 2 conversations, 2 messages, pages of 1, a queue of 1, 1 move, 1 failure, 2 connects | does a Live page miss a message, show another conversation, or stay cut off? | holds |
| `dispatch` | 2 users with 1 slot each, 3 steps, 2 want one file, an approval, a channel of 1, 1 loss, fairness | does anyone starve, do writers meet, are slots given back twice? | holds |
| `gateway` | 2 requests, 2 calls, 2 authorisations, capacities and costs below and above the bounds | is a request bought twice, a charge lost, a cap overdrawn, history rewritten? | holds |
| `stranded` | a process dies while grading | has an ended job decided its step? | **violated** |
| `slots` | 1 user, 1 slot, 1 step whose lease is lost, fairness | is the step assigned again? | **violated** |
| `caughtup` | 4 messages, head pages of 2, recovery pages of 3, nothing fails | is a Live page caught up? | **violated** |

The three violated runs each state a sentence of the repository's documents or comments
that the program does not keep; `PROJECT.json` ("findings") quotes them with the lines.

* `stranded`: a dispatcher that dies after claiming the verification makes its successor
  find the claim taken and end the job without a verdict; the step stays `verifying`.
* `slots`: slots are given back by reports alone. A lease that expires or is orphaned
  keeps its slot; after `max_concurrent` of them a user's steps are queued at every tick
  and never assigned until the server restarts.
* `caughtup`: a polled head page moves the recovery cursor past messages it did not
  contain; the recovery starts after them, and the page says Live with a hole.

**Bounds, and why they are enough.** *Steps*: `MaxGen = 2` is the least that has an
attempt with a successor; every fencing error in the code is between two adjacent
generations. Two connections give a holder and a stale one (the same worker twice is
included: it may be leased both). Two steps give an edge; the pool of 3 is what one heal
needs. One restart at any point is one crash between any two statements; a second adds
only repetitions of recovery, whose effect does not depend on how often it ran. `MaxHeals`
of 1 has both a heal and its exhaustion, of 0 only that. `Sent`, `MayLeave` and
`Overridable` restrict what the environment of an instance does, so that each run spends
its states on its own question; `fencing` has all reports. *Verifier*: three processes
are two that die holding claims and one that must cope; `MaxTries = 2` has a handed-back
job and a retired one. Without `Overlap` processes follow each other. `Unexamined`,
`Changed` and `Billable` say which deliveries have no frozen checks, an edited exam, and
credit. *Dispatch*: one slot and a channel of one are always at their limit; the two steps
with one file meet there only through a restart or a path lease that ran out, and more
slots are covered by the theorem. *Gateway*: a bound of 1 and of 2, costs of 1 and 3 and
capacities of 1 and 3 lie on both sides of each comparison. *Chat*: two prompts are an
old continuation and a current one; two posts are a retry and its exhaustion, and so are
two tries of a request (in the program `streamChat` posts a prompt up to four times, and
`fetchWithRetry` makes up to four requests of each post). `Retried` names the prompts of an
instance that are tried again, here the second: every request of the first is made once,
which leaves the request that is carried out and whose answer is lost. The theorems are
about any `Retried`. With three prompts there is one more way to a late creation, which the
instance cannot reach and the theorems cover. *Messages*: pages and a queue of
one are overrun by two messages; one failure of any kind and a second connection give
every transition of the connection effect. What takes a third message (a page between two
others, section 8) is left to the theorem, whose invariant was model-checked with three.

Deadlock is checked in the runs of `StepLifecycle` and `DurableVerifier`, whose
schedulers and sweeps never stop. In the others people and networks may stop where a
bound or the end of all work is reached, so the configurations switch the check off; in
`Dispatch` a scheduler that waits for its own channel is a real end, see section 11.

**Fairness.** *Steps*: `WF` of the scheduler's task, of each connection's task and of the
clock: tokio polls every ready task. `SF` of taking an event: `select!` chooses among the
ready branches at random, so a tick cannot win for ever. *Verifier*: `WF` of each live
dispatcher, of the next process's start (the platform restarts a dead one), of the second
call of a delivery, of claim expiry and backoff; `SF` of the sweep, whose interval is
ready again every 30 s, however busy the queue. Heartbeats need none: the claim of a
grader that works may or may not be refreshed. *Dispatch*: `WF` of the scheduler, of
sending from a connection, of a report of each step at work, and of a worker's return: its
liveness is about what the scheduler makes of work that ends and workers that come back.
*Chat*: `WF` of the answers to prompts: of the requests under way some is answered or
fails. No fairness is
assumed of people, of workers in `StepLifecycle`, of connections, verdicts, processes
that die, runners that come back, or anything in `DirectMessages` and `ProviderGateway`.

## 10. Proofs

For every value of the constants - any steps, plans, workers, processes, users, slots,
requests, prompts, conversations, page and queue sizes, and every bound - from the
ASSUMEs of the modules only.

`StepLifecycle_proofs`

* `TypeCorrect`. `TypeOK` is not inductive: a task between two calls relies on what it
  remembers, so `Typed` adds `SchedulerHolds` (in the middle of a heal or of sending an
  order the scheduler knows which steps it works on, and which outcome it is about to
  write).
* `DependentsAlwaysWait`. `lease_step` does not look at dependencies, so the invariant
  says why the queue cannot be too old. `Ground` adds that every queued or once leased
  step is grounded *now*, which needs that acceptance and terminality are never lost
  (`Moved`, `Grows`), and that edges are only added to steps that were neither queued
  nor leased (`HealInOrder`): the two steps of a heal are linked by the task that would
  have to queue them, before it loads again. After a crash the retry may lack its edge;
  the theorem speaks of the edges that are there.
* `WorkIsNeverRepeatedTheorem`, from the same invariant.
* `OnlyTheHolderReportsTheorem`, `GradedWorkIsCurrentTheorem`. `Fenced` adds that orders,
  reports and jobs never run ahead of their step's generation, and that one of the current
  generation agrees with the row as long as the row is in the state it was made for
  (`OrderOK`, `ReportOK`, `JobOK`, `RowOK`, `SendOK`). Every statement but the lease, the
  delivery and the begin of a verification keeps what these say of a row (`RowKept`).
* `RunSucceedsOnAcceptedWorkTheorem`. `check_run_done` reads the statuses in one statement
  and writes the outcome in another, so `Repaired` says that what it read cannot be undone
  (`SuccessHolds`), and that a step is marked recovered only when its retry and both edges
  are there (`RepairInOrder`), which is the order of `try_heal`'s statements.
* `KeepsTheStepTruth`: `Spec => StepTruthHolds`. Each statement is a step of `StepTruth`
  or leaves it unchanged. The lease needs `Ground`; the edges of a repair need that the
  retry they are added to is still planned (`RetryPlanned`).

`DurableVerifier_proofs`

* `TypeCorrect`, `EndedJobsAreProjected`, `JobsEndOnce` from `Inv`: `TypeOK`; `JobShape`,
  which ties a job's state to its step, token and attempts; `Claims`, that a
  receipt has one claimant; and `Work(p)`, what a dispatcher knows at each point, even
  when its claim has been taken away (its job has begun, a receipt it claimed is
  still there, and the step has left `verifying` once it is `ending` with a verdict).
* `ClaimsAreWorkedOn`: `Held` adds that a dispatcher without a job names none and that one
  which has not started sleeps, so a claim can only be made by one that takes the job up.
* `VerdictIsGivenOnce`: under `~SealMayFail`, `Spec => VerdictOnceHolds`. `Promise` adds
  that a charge belongs to a sealed verdict that costs something (`Charged`) and that a
  dispatcher that bills or projects carries exactly the verdict it sealed
  (`Sealing(p)`); then every step is a step of `VerdictOnce` or leaves it unchanged.

`Dispatch_proofs`

* `WritersNeverMeet`. The invariant says that path leases in force never clash and that
  whoever works on files holds its lease until the lease runs out; everything that drops a
  lease or a step at work only makes less of both (`LessPreserves`).
* `TypeCorrect`, `NobodyIsForgotten` from `IInv`: `TypeOK`; `TaskOK`, which step the task
  holds and that it is at work while its order is being sent; `Rotation`, which is
  `EveryoneHasATurn` with types and says that a queue holds its own user's steps. What
  `next_assignable` leaves of the rotation follows from what `SentBack` contains
  (`Back`), a fact about all its values at once.
* `SlotsAreKept`: `WithinShare`. A count alone says nothing about who will give a slot back,
  so `Share` names the *claims* on the slots of a user, which its counter covers until a
  restart: steps at work, reports in the hands of connections, events in the channel, and
  the step the task has assigned and not yet leased, or whose failure it is about to send.
  Each action keeps the claims, trades one for another, or moves both sides by one.

`ProviderGateway_proofs`

* `TypeCorrect`, `NeverPaidTwice`, `ChargesAreNeverLost`, `BooksAlwaysAgree`,
  `HistoryNeverRewritten` from `Inv`: what the books say of a request in each status
  (`RequestOK`), that a call which may still ask has a reservation nobody asked for
  (`CallOK`), and that there is one such call for a request (`OneFirst`).
* `ExposureNeverExceeds`: `ExposureIsCapped`. There may be infinitely many requests; the
  reservations in the table (`Booked`) are finitely many, which makes exposure a sum
  (`ExposureIsSum`). A step either adds one reservation that fits, or counts no more of any
  (`Shrinks`): what is settled was observed within what was reserved, or is a mismatch.

`ChatSession_proofs`: `TypeCorrect`; `OneEndingEach`, `NeverLockedInVain`,
`InterruptedByTheUser` from `Inv`: what is known of a prompt in each phase (`SendKnown`),
that an answer or a failure is stored with `finalized` set, and that the prompt of a stored
stop is of an older version and no longer streaming on screen (`Endings`), so no callback
stores another ending, however many copies each request leaves (`InsertedAre`,
`EndingAdded`), and the only code that does not look, the catch block, runs before the first
post; `ScreenNeverMixed`, `NothingMisplaced` from `Placed`: until a creation comes too late
the refs name the active conversation, transcripts under way for the current version are
of it, and a prompt whose conversation is being created was typed in the group on screen
or has been left.

`DirectMessages_proofs`

* `ShownIsOfTheSelected` from `Visit` (pages, pushes and queues name messages of the
  conversation they were asked for, and a first page not of the open one is cancelled);
  `NeverLeftAlone` from `Trying`.
* `TypeCorrect` from `IInv`: `Visit`; `Reads`, what a page under way contains (a head page is
  an end of the conversation as it was, a recovery page an unbroken stretch after its
  cursor), and that cursors name stored messages; `Fields` and `Bounded`.
* `LiveMissesNothing`: `LiveIsCaughtUp`, from `IInv` and `NothingMissed`, which has three
  parts. `NoOverlap`: without the first lapse there is one socket at a time, a live page
  has it open, and the page's subscription is the open conversation. `Subscribed`: that
  socket is subscribed, or will be once the server has read its frames. `Clean`, without
  any lapse: up to each cursor only history is missing (`NoHole`); a missing message is queued,
  about to be broadcast, in or behind a recovery's page, or before a cursor (`AllCovered`);
  and while the screen is empty no cursor is past the page that will fill it (`FirstLook`).
  With these, a missing message that is not coming is before a cursor, and therefore history.

`FiniteMath` holds the facts about finite data. An induction theorem of the library takes an
operator that the provers cannot instantiate; instead a least counterexample is taken, whose
existence is the well-foundedness of strict inclusion among finite sets. `LeastNumber` and
`GreatestNumber` are used wherever a `CHOOSE` picks an end of a page or a turn. A sum is
a function on the finite subsets, unique because two of them would differ first on a least
set, and so independent of the order in which elements are taken.

Only model-checked: the liveness properties `LostLeaseComesBack`, `JobsEnd`,
`ComposerReopens`, `Served`, which need fairness and ENABLED and are outside what the prover
does; and the three sentences that are violated. There are no RECURSIVE operators.

## 11. Noticed while modelling

What the models do because the code does, and no property forbids; most of it because no
document says whether it is meant.

*Steps and scheduler*

* A run whose `RunCreated` event is lost in a crash stays `pending`: recovery selects
  other statuses (`api/db/mod.rs` 11391; `docs/ARCHITECTURE.md` 934 calls events hints).
* The edge from a retry to its heal step is a commit of its own (`api/scheduler.rs` 1639); a
  crash before it leaves a retry that may run at once (`docs/ARCHITECTURE.md` 627 says it
  depends on the heal step).
* A failing verdict informs nobody (`api/verification_driver.rs` 250): dependents of rejected
  work are neither released nor cancelled.
* A step without frozen checks is moved to `verifying` and nothing moves it on
  (`api/verification_driver.rs` 143).
* A death between the two calls of a delivery leaves the step `delivered`; the log message
  says that reconciliation will see it (`api/ws.rs` 579-581).
* A tick can finish a run as failed while the `StepFailed` event that would heal it is
  still in the channel; the event then inserts pending heal steps into the finished run
  (`api/scheduler.rs` 1622, 1684).
* Whether a failure was one of authentication is read from the error text, which is the
  tool's stderr; the kind the worker reports is not stored (`api/scheduler.rs` 180).
  Such failures are healed unless the text happens to name the kind.
* A recovered step is not accepted and its retry does not inherit its dependents, so a
  healed step's dependents never start and the run stays `running` (`api/scheduler.rs` 1656).
* A person may accept a failed step before the scheduler has applied its `StepFailed`;
  the handler does not look whether the step is still failed, so the accepted step's
  dependents are skipped, or it is healed, all the same (`chain`, `heal`).
* An override and its audit row are two transactions (`api/db/mod.rs` 9864).

*Verifier*

* A verdict whose seal fails is still projected (`api/verification_driver.rs` 246-257):
  a step may be `verified` with a pending receipt and no charge. The run `once` and the
  theorem about `VerdictOnce` therefore exclude failing seals, and say so
  (`SealMayFail`); `ends` includes them.
* A step a person accepted while it was being graded is charged all the same.

*Dispatch*

* After a restart the counters are zero while steps are still at work
  (`docs/ARCHITECTURE.md` 1006 rebuilds them). A user may then have up to twice his slots at
  work, and the reports of the old steps give back slots that new ones hold; `WithinShare`
  is stated until the first restart.
* The scheduler sends `StepFailed` into its own channel while it dispatches. When 256
  events wait there, it waits for itself for ever; `Served` speaks of a scheduler that
  comes back to idle.
* The queue entry of a step that was skipped meanwhile takes the step's path leases before
  `lease_step` finds out, and is queued again at every pass.
* Path leases are released by verdicts and by the end of the run. Those of failed,
  cancelled, rejected or overridden work stay until then or for 24 hours, and a heal step
  can be blocked by its failed original; `release_step_resource_leases`, whose comment
  says it is called when a step reaches a terminal state (`api/db/mod.rs` 10905), is called
  by tests only. They are also held while a person is asked.
* A heartbeat renews a step's lease and not its path leases (`outlived`).

*Provider gateway*

* A later report of the amount of a `mismatch` that fits its reservation changes no
  reservation and inserts a spend row (`api/db/provider_gateway.rs` 405-424); an amount
  above the reservation never gets one; a mismatch's amount may be overwritten by a later
  report above the reservation.
* A released reservation that is settled later becomes a mismatch that counts again, and
  a capacity may be set below what is held, so the total may exceed the cap without a
  reservation that should not have been taken. `ExposureIsCapped` leaves mismatches out
  and takes the greatest capacity there was.
* A crash between reservation and settlement keeps the full exposure until a report comes;
  no caller in production makes such reports. The status `revoked` is never written.

*Chat*

* **Late creation.** `createConversation` answers after its user opened another group (or
  stopped): the refs then name a conversation that is not on screen, the next prompt is
  stored there, and the next visit to it is not loaded. The same follows when two prompts
  of one new chat are at work together, which takes a third, older one whose failure
  unlocked the composer (`crossed`).
* The catch block of `sendMessage` does not look at the version: the failure of a prompt its
  user has left unlocks the composer of another. Two streams may then be at work, of which
  only the last can be stopped.
* `streamChat` posts a prompt again after a break, after its `completed` event too
  (`cortex/src/lib/cortexApi.ts` 280, 288), without a key by which the server could tell.
* `fetchWithRetry` repeats a POST whose answer was lost (`cortex/src/lib/cortexApi.ts` 53-66).
  Prompts, answers, notices and hand-offs may be stored up to four times, a repeated answer
  also after the next prompt, since nothing waits for it; and conversations are created that
  no group is on. Its comment promises three attempts (line 45), it makes four. The request of a stream is repeated in
  the same way, so a provider may be started for one prompt up to sixteen times.
* A prompt stopped while it is being stored, whose storing then fails, has a stop notice and a
  failure notice (`cortex/src/lib/useChatSession.ts` 332, 785).
* An answer whose storing fails is shown as final and lost at the next visit.
* A hand-off message is stored in its own conversation and shown in whichever is open one
  second later.
* A prompt sent while the transcript loads loses its bubble, and Stop then finds nothing
  to stop; Stop while the transcript loads leaves it loading.

*Messages*

* Of two overlapping `connect()` calls the first socket is leaked; its `onopen` reads the
  shared variable and may set Live before anything was recovered. An old recovery that
  ends after a reconnect does the same.
* `loadMessagesFor` and `recoverMessagesFor` set the cursor to the end of the page that has
  just arrived, whatever it was (`heyvera/src/pages/MessagesPage.tsx` 539, 573). A slow first
  page that a push, a poll or a recovery has overtaken moves it back; an old page or push may
  arrive when messages after it are missing and a recovery has begun beyond them. No
  recovery then asks for those messages again; a head page does if it reaches back to them.
* `recoverMessagesFor` without a token fulfils its promise without reading
  (`heyvera/src/pages/MessagesPage.tsx` 560).
* Editing a message that failed to send forgets its key (1613), so a send that had reached
  the server is stored twice.

## 12. Not modelled

The credit ledger's buckets and run graph construction are sequential (section 2). Left
out: routing, bandit and evaluator (numeric scoring without protocol state); the worker
program and sandbox (tools on another machine; their reports are modelled); context
selection and the repository index; the engine's judgement of a report (its two outcomes
are); the policy libraries that are not on the live path; the server's side of chat and run
streams beyond what the tab sees of it (forwarding); the social product but for its
messages; accounts, webhooks and rate limits; SOMA; the other pages of the front ends, which
are forms and views of what the server holds; iOS and the archive.

Within the modelled parts: attempt billing and chat-only steps, the audit row of an
override, the routing signal and operations timeline of the verifier, failures of
statements other than the seal; leases of whole runs; signatures, scopes and prices of the
gateway; titles, approvals and work-event lists of the chat; composing, read marks, message
requests, refused subscriptions and older pages of the messages page.
