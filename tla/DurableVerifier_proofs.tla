----------------------- MODULE DurableVerifier_proofs -----------------------
(***************************************************************************)
(* Proofs about DurableVerifier, for every set of steps and processes, any *)
(* overlap of processes and any number of deaths.                          *)
(***************************************************************************)
EXTENDS DurableVerifier, TLAPS

-----------------------------------------------------------------------------
(* The inductive invariant *)

Begun(s) == job[s].state # "none"

\* A job that is offered has attempts left; only a claim has a holder.
JobShape ==
  \A s \in Steps : /\ job[s].state \in Claimable => job[s].tries < MaxTries
                   /\ job[s].state = "claimed" => job[s].token \in Processes
                   /\ job[s].waiting => job[s].state = "retry_wait"
                   /\ ~Begun(s) => job[s] = NoJob
                   /\ Begun(s) => step[s] \notin {"running", "delivered"}

Working == {"claimed", "driving", "grading", "billing", "projecting", "ending"}
Owning  == {"grading", "billing", "projecting"}

\* What a dispatcher knows about its job, and what only the one that claimed
\* the verification may assume: nobody else can show a verdict for the step.
Work(p) ==
  LET d == disp[p] IN
  /\ d.at \in Working => d.step \in Steps /\ Begun(d.step)
  /\ d.at \in {"claimed", "driving", "grading"} => d.verdict = "none"
  /\ d.at \in {"billing", "projecting"} => d.verdict \in Verdicts
  /\ d.at \in Owning => /\ \E r \in receipts : r.step = d.step /\ r.by = p
                        /\ step[d.step] \in {"verifying", "manual_override"}
  /\ d.at = "ending" => \/ d.verdict = "none"
                        \/ d.verdict = "refused" /\ d.step \in Changed
                        \/ /\ d.verdict \in Verdicts
                           /\ step[d.step] \in {"manual_override", Shown(d.verdict)}

Claims ==
  /\ \A r1, r2 \in receipts : r1.step = r2.step => r1 = r2
  /\ \A r \in receipts : Begun(r.step)
  /\ \A s \in Steps : step[s] \in {"verified", "failed", "inconclusive"} =>
                        \E r \in receipts : r.step = s

Inv == /\ TypeOK /\ JobShape /\ Claims /\ EndedJobIsProjected
       /\ \A p \in Processes : Work(p)

LEMMA InvInit == Init => Inv
BY StepAssumption, ProcessAssumption, BoundAssumption
   DEF Init, Inv, TypeOK, StepOK, JobOK, JobRows, ReceiptsOK, LedgerOK, ProcessesOK, DispOK,
       JobShape, Claims, EndedJobIsProjected, Work, NoJob, Asleep, Begun, Claimable, Ended, Working,
       Owning

-----------------------------------------------------------------------------
(* Steps of the preservation proof that several actions share *)

\* Jobs whose state `none` and whose end do not change.
JobsKeep == \A s \in Steps : /\ Begun(s)' <=> Begun(s)
                             /\ job'[s].state \in {"failed", "inconclusive"} <=>
                                  job[s].state \in {"failed", "inconclusive"}
                             /\ job'[s].state \in Ended \ {"dead"} => job'[s].state = job[s].state

LEMMA HandBackShape ==
  ASSUME JobOK, JobShape, NEW s \in Steps, NEW b \in BOOLEAN, job[s].state = "claimed",
         NEW j, j = HandBack(job[s], b)
  PROVE  /\ j \in JobRows
         /\ j.state \in {"dead", "retry_wait"} /\ j.tries = job[s].tries
         /\ j.state = "retry_wait" => j.tries < MaxTries
         /\ j.waiting => j.state = "retry_wait"
<1> DEFINE w == b /\ job[s].tries < MaxTries
           st == IF job[s].tries >= MaxTries THEN "dead" ELSE "retry_wait"
<1>1. job[s] \in JobRows
  BY DEF JobOK
<1>2. job[s].tries \in 0..MaxTries
  BY <1>1 DEF JobRows
<1>3. w \in BOOLEAN /\ st \in {"dead", "retry_wait"}
  OBVIOUS
<1>4. j = [job[s] EXCEPT !.state = st, !.token = NoProcess, !.expired = FALSE, !.waiting = w]
  BY DEF HandBack
<1> HIDE DEF w, st
<1>5. j \in JobRows /\ j.state = st /\ j.tries = job[s].tries /\ j.waiting = w
  BY <1>1, <1>3, <1>4 DEF JobRows, Claimable, Ended
<1>6. w => job[s].tries < MaxTries
  BY DEF w
<1>7. st = IF job[s].tries >= MaxTries THEN "dead" ELSE "retry_wait"
  BY DEF st
<1> QED BY <1>2, <1>3, <1>5, <1>6, <1>7, BoundAssumption

\* Any change of one job that a claim allows.
LEMMA JobFrame ==
  ASSUME Inv, JobOK', JobShape', JobsKeep, UNCHANGED <<step, receipts>>
  PROVE  Claims' /\ EndedJobIsProjected'
         /\ \A p \in Processes : disp'[p] = disp[p] => Work(p)'
<1>1. Claims'
  BY DEF Inv, Claims, JobsKeep, TypeOK, ReceiptsOK, Begun
<1>2. EndedJobIsProjected'
  BY DEF Inv, EndedJobIsProjected, JobsKeep, Ended
<1>3. ASSUME NEW p \in Processes, disp'[p] = disp[p] PROVE Work(p)'
  BY <1>3 DEF Inv, Work, JobsKeep, TypeOK, DispOK, Begun, Working, Owning
<1> QED BY <1>1, <1>2, <1>3

LEMMA ReclaimKeeps ==
  ASSUME Inv, ReclaimExpired, UNCHANGED step
  PROVE  JobOK' /\ JobShape' /\ JobsKeep
<1>1. ASSUME NEW s \in Steps, s \in Expired
      PROVE  /\ job'[s] = HandBack(job[s], FALSE) /\ job[s].state = "claimed"
             /\ job'[s] \in JobRows
             /\ job'[s].state \in {"dead", "retry_wait"}
             /\ job'[s].state = "retry_wait" => job'[s].tries < MaxTries
             /\ job'[s].waiting => job'[s].state = "retry_wait"
  <2>1. job'[s] = HandBack(job[s], FALSE) /\ job[s].state = "claimed"
    BY <1>1 DEF ReclaimExpired, Expired
  <2> QED BY <2>1, HandBackShape DEF Inv, TypeOK
<1>2. \A s \in Steps : s \notin Expired => job'[s] = job[s]
  BY DEF ReclaimExpired
<1>3. JobOK'
  BY <1>1, <1>2 DEF JobOK, Inv, TypeOK, ReclaimExpired
<1>4. JobShape'
  BY <1>1, <1>2 DEF JobShape, Inv, Begun, Claimable
<1>5. JobsKeep
  BY <1>1, <1>2 DEF JobsKeep, Begun, Ended
<1> QED BY <1>3, <1>4, <1>5

-----------------------------------------------------------------------------
(* Each action preserves the invariant *)

LEMMA InvStart == ASSUME Inv, NEW p \in Processes, Start(p) PROVE Inv'
<1>1. JobOK' /\ JobShape' /\ JobsKeep
  BY ReclaimKeeps DEF Start
<1>2. Claims' /\ EndedJobIsProjected' /\ \A q \in Processes : disp'[q] = disp[q] => Work(q)'
  BY <1>1, JobFrame DEF Start
<1>3. TypeOK'
  BY <1>1 DEF Start, Inv, TypeOK, StepOK, ReceiptsOK, LedgerOK, ProcessesOK, DispOK
<1>4. Work(p)'
  BY DEF Start, Inv, TypeOK, DispOK, Work, Working, Owning
<1>5. \A q \in Processes \ {p} : disp'[q] = disp[q]
  BY DEF Start, Inv, TypeOK, DispOK
<1> QED BY <1>1, <1>2, <1>3, <1>4, <1>5 DEF Inv

LEMMA InvDie == ASSUME Inv, NEW p \in Processes, Die(p) PROVE Inv'
<1>1. TypeOK'
  BY ProcessAssumption DEF Die, db, Inv, TypeOK, StepOK, JobOK, ReceiptsOK, LedgerOK, ProcessesOK, DispOK,
     Asleep
<1>2. JobShape' /\ Claims' /\ EndedJobIsProjected'
  BY DEF Die, db, Inv, JobShape, Claims, EndedJobIsProjected, Begun
<1>3. ASSUME NEW q \in Processes PROVE Work(q)'
  BY DEF Die, db, Inv, TypeOK, DispOK, Work, Working, Owning, Asleep, Begun
<1> QED BY <1>1, <1>2, <1>3 DEF Inv

LEMMA InvDeliverStep ==
  ASSUME Inv, NEW s \in Steps, NEW p \in Processes, DeliverStep(s, p) PROVE Inv'
<1>1. ~Begun(s) /\ step' = [step EXCEPT ![s] = "delivered"] /\ UNCHANGED <<job, receipts, disp>>
  BY DEF DeliverStep, Transition, Inv, JobShape
<1>2. TypeOK'
  BY DEF DeliverStep, Transition, Inv, TypeOK, StepOK, JobOK, ReceiptsOK, LedgerOK, ProcessesOK,
         DispOK
<1>3. JobShape' /\ Claims' /\ EndedJobIsProjected'
  BY <1>1 DEF Inv, TypeOK, StepOK, JobShape, Claims, EndedJobIsProjected, Begun, NoJob
<1>4. ASSUME NEW q \in Processes PROVE Work(q)'
  BY <1>1 DEF Inv, TypeOK, StepOK, DispOK, Work, Working, Owning, Begun
<1> QED BY <1>2, <1>3, <1>4 DEF Inv

LEMMA InvBeginVerifyingStep ==
  ASSUME Inv, NEW s \in Steps, BeginVerifyingStep(s) PROVE Inv'
<1>1. CASE step[s] # "delivered"
  <2>1. UNCHANGED <<step, job, receipts, ledger, proc, disp, beat>>
    BY <1>1 DEF BeginVerifyingStep, Transition
  <2>2. TypeOK'
    BY <2>1 DEF BeginVerifyingStep, Inv, TypeOK, StepOK, JobOK, ReceiptsOK, LedgerOK,
       ProcessesOK, DispOK
  <2> QED BY <2>1, <2>2 DEF Inv, JobShape, Claims, EndedJobIsProjected, Work, Begun
<1>2. CASE step[s] = "delivered"
  <2>1. /\ ~Begun(s) /\ job[s] = NoJob
        /\ step' = [step EXCEPT ![s] = "verifying"]
        /\ job' = [job EXCEPT ![s] = [NoJob EXCEPT !.state = "queued"]]
        /\ UNCHANGED <<receipts, ledger, proc, disp, beat>>
    BY <1>2 DEF BeginVerifyingStep, Transition, Inv, JobShape, SetJob
  <2>2. /\ job'[s] \in JobRows /\ job'[s].state = "queued" /\ job'[s].tries = 0
        /\ job'[s].waiting = FALSE
        /\ job' \in [Steps -> JobRows] /\ \A t \in Steps \ {s} : job'[t] = job[t]
    <3>1. NoJob \in JobRows /\ NoJob.tries = 0 /\ NoJob.waiting = FALSE
      BY BoundAssumption DEF NoJob, JobRows
    <3>2. LET q == [NoJob EXCEPT !.state = "queued"]
          IN  q \in JobRows /\ q.state = "queued" /\ q.tries = 0 /\ q.waiting = FALSE
      BY <3>1 DEF JobRows, Claimable
    <3> QED BY <2>1, <3>2 DEF Inv, TypeOK, JobOK
  <2>3. TypeOK'
    BY <2>1, <2>2 DEF BeginVerifyingStep, Inv, TypeOK, StepOK, JobOK, ReceiptsOK, LedgerOK,
       ProcessesOK, DispOK
  <2>4. JobShape'
    BY <2>1, <2>2, BoundAssumption DEF Inv, TypeOK, StepOK, JobShape, Begun, Claimable
  <2>5. Claims' /\ EndedJobIsProjected'
    BY <2>1, <2>2 DEF Inv, TypeOK, StepOK, Claims, EndedJobIsProjected, Begun, ReceiptsOK
  <2>6. ASSUME NEW q \in Processes PROVE Work(q)'
    BY <2>1, <2>2 DEF Inv, TypeOK, StepOK, DispOK, Work, Working, Owning, Begun
  <2> QED BY <2>3, <2>4, <2>5, <2>6 DEF Inv
<1> QED BY <1>1, <1>2

LEMMA InvManualOverride ==
  ASSUME Inv, NEW s \in Steps, ManualOverride(s) PROVE Inv'
<1>1. /\ step[s] # "running" /\ step' = [step EXCEPT ![s] = "manual_override"]
      /\ UNCHANGED <<job, receipts, ledger, proc, carrier, disp, beat>>
  BY DEF ManualOverride, Transition
<1>2. TypeOK'
  BY <1>1 DEF Inv, TypeOK, StepOK, JobOK, ReceiptsOK, LedgerOK, ProcessesOK, DispOK
<1>3. JobShape' /\ Claims' /\ EndedJobIsProjected'
  BY <1>1 DEF Inv, TypeOK, StepOK, JobShape, Claims, EndedJobIsProjected, Begun
<1>4. ASSUME NEW q \in Processes PROVE Work(q)'
  BY <1>1 DEF Inv, TypeOK, StepOK, DispOK, Work, Working, Owning, Begun
<1> QED BY <1>2, <1>3, <1>4 DEF Inv

\* The clock and the heartbeat touch two flags of one live job.
Touched(s) ==
  /\ job' \in [Steps -> JobRows] /\ \A t \in Steps \ {s} : job'[t] = job[t]
  /\ job'[s].state = job[s].state /\ job'[s].token = job[s].token
  /\ job'[s].tries = job[s].tries /\ (job'[s].waiting => job[s].waiting)

LEMMA InvTouchJob ==
  ASSUME Inv, NEW s \in Steps, Begun(s), Touched(s),
         UNCHANGED <<step, receipts, ledger, proc, carrier, disp>>,
         beat' \in [Processes -> BOOLEAN]
  PROVE  Inv'
<1>1. JobOK'
  BY DEF Touched, JobOK
<1>2. JobShape' /\ JobsKeep
  BY DEF Touched, Inv, JobShape, JobsKeep, Begun, Claimable, Ended
<1>3. Claims' /\ EndedJobIsProjected' /\ \A q \in Processes : disp'[q] = disp[q] => Work(q)'
  BY <1>1, <1>2, JobFrame
<1>4. TypeOK'
  BY <1>1 DEF Inv, TypeOK, StepOK, ReceiptsOK, LedgerOK, ProcessesOK, DispOK
<1> QED BY <1>2, <1>3, <1>4 DEF Inv

LEMMA InvClock ==
  ASSUME Inv, NEW s \in Steps, LeaseExpires(s) \/ BackoffEnds(s) PROVE Inv'
<1>1. job \in [Steps -> JobRows] /\ beat \in [Processes -> BOOLEAN]
  BY DEF Inv, TypeOK, JobOK, ProcessesOK
<1>2. CASE LeaseExpires(s)
  <2>1. Touched(s)
    BY <1>1, <1>2 DEF LeaseExpires, SetJob, Touched, JobRows
  <2>2. Begun(s)
    BY <1>2 DEF LeaseExpires, Begun
  <2> QED BY <1>1, <1>2, <2>1, <2>2, InvTouchJob DEF LeaseExpires
<1>3. CASE BackoffEnds(s)
  <2>1. Touched(s)
    BY <1>1, <1>3 DEF BackoffEnds, SetJob, Touched, JobRows
  <2>2. Begun(s)
    BY <1>3 DEF BackoffEnds, Begun, Inv, JobShape
  <2> QED BY <1>1, <1>3, <2>1, <2>2, InvTouchJob DEF BackoffEnds
<1> QED BY <1>2, <1>3

LEMMA InvHeartbeat == ASSUME Inv, NEW p \in Processes, Heartbeat(p) PROVE Inv'
<1>1. /\ job \in [Steps -> JobRows]
      /\ beat \in [Processes -> BOOLEAN] /\ beat' \in [Processes -> BOOLEAN]
  BY DEF Heartbeat, Inv, TypeOK, JobOK, ProcessesOK
<1>2. ASSUME NEW s \in Steps, s = disp[p].step, Holds(p, s) PROVE Inv'
  <2>1. job' = [job EXCEPT ![s] = [job[s] EXCEPT !.expired = FALSE]]
    BY <1>2 DEF Heartbeat, SetJob
  <2>2. Touched(s)
    BY <1>1, <2>1 DEF Touched, JobRows
  <2>3. Begun(s)
    BY <1>2 DEF Holds, Begun
  <2> QED BY <1>1, <2>2, <2>3, InvTouchJob DEF Heartbeat
<1>3. CASE ~(Holds(p, disp[p].step) /\ disp[p].step \in Steps)
  <2>1. UNCHANGED <<step, job, receipts, ledger, proc, carrier, disp>>
    BY <1>1, <1>3 DEF Heartbeat, SetJob
  <2>2. TypeOK'
    BY <1>1, <2>1 DEF Inv, TypeOK, StepOK, JobOK, ReceiptsOK, LedgerOK, ProcessesOK, DispOK
  <2> QED BY <2>1, <2>2 DEF Inv, JobShape, Claims, EndedJobIsProjected, Work, Begun
<1> QED BY <1>2, <1>3

\* A step of one dispatcher: its record, the job it works on, the receipts of
\* its step; everything about the other dispatchers follows.
LEMMA OthersWork ==
  ASSUME Inv, NEW p \in Processes, JobOK', JobShape', JobsKeep,
         UNCHANGED <<step, receipts>>, DispOK', Work(p)',
         UNCHANGED <<proc, carrier>>, beat' \in [Processes -> BOOLEAN], LedgerOK',
         \A q \in Processes \ {p} : disp'[q] = disp[q]
  PROVE  Inv'
<1>1. Claims' /\ EndedJobIsProjected' /\ \A q \in Processes : disp'[q] = disp[q] => Work(q)'
  BY JobFrame
<1>2. TypeOK'
  BY DEF Inv, TypeOK, StepOK, ReceiptsOK, ProcessesOK
<1> QED BY <1>1, <1>2 DEF Inv

\* The jobs do not change at all.
LEMMA JobsStay == ASSUME Inv, UNCHANGED <<step, job>> PROVE JobOK' /\ JobShape' /\ JobsKeep
BY DEF Inv, TypeOK, JobOK, JobShape, JobsKeep, Begun, Ended

Positions == {"off", "wait", "drain", "claimed", "driving", "grading", "billing", "projecting",
              "ending"}

\* What a dispatcher's record is after it moves on.
LEMMA GoShape ==
  ASSUME Inv, NEW p \in Processes, NEW where \in Positions, Go(p, where)
  PROVE  /\ DispOK' /\ disp'[p].at = where /\ disp'[p].step = disp[p].step
         /\ disp'[p].verdict = disp[p].verdict
         /\ \A q \in Processes \ {p} : disp'[q] = disp[q]
BY DEF Inv, TypeOK, DispOK, Go, Positions

LEMMA InvIdle ==
  ASSUME Inv, NEW p \in Processes, Poll(p) \/ Sweep(p) \/ Drained(p) PROVE Inv'
<1>1. PICK where \in {"wait", "drain"} : Go(p, where)
  BY DEF Poll, Sweep, Drained
<1>2. DispOK' /\ disp'[p].at = where /\ \A q \in Processes \ {p} : disp'[q] = disp[q]
  BY <1>1, GoShape DEF Positions
<1>3. UNCHANGED <<step, receipts, ledger, proc, carrier, beat>>
  BY DEF Poll, Sweep, Drained, db
<1>4. JobOK' /\ JobShape' /\ JobsKeep
  BY <1>3, JobsStay, ReclaimKeeps DEF Poll, Sweep, Drained, db
<1>5. Work(p)'
  BY <1>2 DEF Work, Working, Owning
<1>6. beat' \in [Processes -> BOOLEAN] /\ LedgerOK'
  BY <1>3 DEF Inv, TypeOK, ProcessesOK, LedgerOK
<1> QED BY <1>2, <1>3, <1>4, <1>5, <1>6, OthersWork

LEMMA InvClaimJob ==
  ASSUME Inv, NEW p \in Processes, NEW s \in Steps, ClaimJob(p, s) PROVE Inv'
<1>1. /\ job[s] \in JobRows /\ job[s].state \in Claimable /\ job[s].tries < MaxTries
      /\ ~job[s].waiting
  BY DEF ClaimJob, Runnable, Inv, TypeOK, JobOK, JobShape
<1>2. job[s].tries \in 0..MaxTries /\ job[s].tries + 1 \in 0..MaxTries
  BY <1>1, BoundAssumption DEF JobRows
<1>3. /\ job'[s] \in JobRows /\ job'[s].state = "claimed" /\ job'[s].token = p
      /\ job'[s].waiting = FALSE
      /\ job' \in [Steps -> JobRows] /\ \A t \in Steps \ {s} : job'[t] = job[t]
  <2>1. LET c == [job[s] EXCEPT !.state = "claimed", !.token = p, !.expired = FALSE,
                                !.tries = job[s].tries + 1]
        IN  c \in JobRows /\ c.state = "claimed" /\ c.token = p /\ c.waiting = job[s].waiting
    BY <1>1, <1>2 DEF JobRows
  <2> QED BY <1>1, <2>1 DEF ClaimJob, SetJob, Inv, TypeOK, JobOK, JobRows
<1>4. JobOK' /\ JobShape' /\ JobsKeep
  BY <1>1, <1>3 DEF ClaimJob, JobOK, JobShape, JobsKeep, Inv, Begun, Claimable, Ended
<1>5. /\ disp'[p].at = "claimed" /\ disp'[p].step = s /\ disp'[p].verdict = "none"
      /\ DispOK' /\ \A q \in Processes \ {p} : disp'[q] = disp[q]
  BY DEF ClaimJob, Inv, TypeOK, DispOK
<1>6. Work(p)'
  BY <1>3, <1>5 DEF Work, Working, Owning, Begun
<1>7. beat' \in [Processes -> BOOLEAN] /\ LedgerOK'
  BY DEF ClaimJob, Inv, TypeOK, ProcessesOK, LedgerOK
<1> QED BY <1>4, <1>5, <1>6, <1>7, OthersWork DEF ClaimJob

LEMMA InvRefuseExam == ASSUME Inv, NEW p \in Processes, RefuseExam(p) PROVE Inv'
<1>1. /\ disp'[p].at = "ending" /\ disp'[p].step = disp[p].step /\ disp'[p].verdict = "refused"
      /\ DispOK' /\ \A q \in Processes \ {p} : disp'[q] = disp[q]
  BY DEF RefuseExam, Inv, TypeOK, DispOK
<1>2. disp[p].step \in Changed /\ disp[p].step \in Steps /\ Begun(disp[p].step)
  BY DEF RefuseExam, At, Inv, Work, Working
<1>3. UNCHANGED <<step, job, receipts, ledger, proc, carrier, beat>>
  BY DEF RefuseExam, db
<1>4. Work(p)'
  BY <1>1, <1>2, <1>3 DEF Work, Working, Owning, Begun
<1>5. beat' \in [Processes -> BOOLEAN] /\ LedgerOK'
  BY <1>3 DEF Inv, TypeOK, ProcessesOK, LedgerOK
<1> QED BY <1>1, <1>3, <1>4, <1>5, JobsStay, OthersWork

LEMMA InvStartHeartbeat == ASSUME Inv, NEW p \in Processes, StartHeartbeat(p) PROVE Inv'
<1>1. /\ disp'[p].at = "driving" /\ disp'[p].step = disp[p].step
      /\ disp'[p].verdict = disp[p].verdict
      /\ DispOK' /\ \A q \in Processes \ {p} : disp'[q] = disp[q]
  BY GoShape DEF StartHeartbeat, Positions
<1>2. UNCHANGED <<step, job, receipts, ledger, proc, carrier>>
  BY DEF StartHeartbeat, db
<1>3. Work(p)'
  BY <1>1, <1>2 DEF StartHeartbeat, At, Inv, Work, Working, Owning, Begun
<1>4. beat' \in [Processes -> BOOLEAN] /\ LedgerOK'
  BY <1>2 DEF StartHeartbeat, Inv, TypeOK, ProcessesOK, LedgerOK
<1> QED BY <1>1, <1>2, <1>3, <1>4, JobsStay, OthersWork

LEMMA InvNothingToVerify == ASSUME Inv, NEW p \in Processes, NothingToVerify(p) PROVE Inv'
<1>1. /\ disp'[p].at = "ending" /\ disp'[p].step = disp[p].step
      /\ disp'[p].verdict = disp[p].verdict
      /\ DispOK' /\ \A q \in Processes \ {p} : disp'[q] = disp[q]
  BY GoShape DEF NothingToVerify, Positions
<1>2. UNCHANGED <<step, job, receipts, ledger, proc, carrier>>
  BY DEF NothingToVerify, db
<1>3. Work(p)'
  BY <1>1, <1>2 DEF NothingToVerify, At, Inv, Work, Working, Owning, Begun
<1>4. beat' \in [Processes -> BOOLEAN] /\ LedgerOK'
  BY <1>2 DEF NothingToVerify, Inv, TypeOK, ProcessesOK, LedgerOK
<1> QED BY <1>1, <1>2, <1>3, <1>4, JobsStay, OthersWork

LEMMA InvSealFails ==
  ASSUME Inv, NEW p \in Processes, NEW v \in Verdicts, SealFails(p, v) PROVE Inv'
<1>1. /\ disp'[p].at = "projecting" /\ disp'[p].step = disp[p].step /\ disp'[p].verdict = v
      /\ DispOK' /\ \A q \in Processes \ {p} : disp'[q] = disp[q]
  BY DEF SealFails, Inv, TypeOK, DispOK
<1>2. UNCHANGED <<step, job, receipts, ledger, proc, carrier, beat>>
  BY DEF SealFails, db
<1>3. Work(p)'
  <2>1. disp[p].at = "grading"
    BY DEF SealFails, At
  <2> QED BY <1>1, <1>2, <2>1 DEF Inv, Work, Working, Owning, Begun
<1>4. beat' \in [Processes -> BOOLEAN] /\ LedgerOK'
  BY <1>2 DEF Inv, TypeOK, ProcessesOK, LedgerOK
<1> QED BY <1>1, <1>2, <1>3, <1>4, JobsStay, OthersWork

LEMMA InvBill == ASSUME Inv, NEW p \in Processes, Bill(p) PROVE Inv'
<1>1. /\ disp'[p].at = "projecting" /\ disp'[p].step = disp[p].step
      /\ disp'[p].verdict = disp[p].verdict
      /\ DispOK' /\ \A q \in Processes \ {p} : disp'[q] = disp[q]
  BY GoShape DEF Bill, AfterBill, Positions
<1>2. UNCHANGED <<step, job, receipts, proc, carrier, beat>>
  BY DEF Bill
<1>3. disp[p].step \in Steps
  BY DEF Bill, At, Inv, Work, Working
<1>4. Work(p)'
  BY <1>1, <1>2 DEF Bill, At, Inv, Work, Working, Owning, Begun
<1>5. beat' \in [Processes -> BOOLEAN] /\ LedgerOK'
  BY <1>2, <1>3 DEF Bill, Effect, Inv, TypeOK, ProcessesOK, LedgerOK
<1> QED BY <1>1, <1>2, <1>4, <1>5, JobsStay, OthersWork

\* What the statement guarded by Holds does to the jobs.
LEMMA OneJob ==
  ASSUME Inv, NEW s \in Steps, NEW j \in JobRows, job' = [job EXCEPT ![s] = j]
  PROVE  /\ job'[s] = j /\ \A t \in Steps \ {s} : job'[t] = job[t]
         /\ JobOK'
BY DEF Inv, TypeOK, JobOK

LEMMA InvRetryLater == ASSUME Inv, NEW p \in Processes, RetryLater(p) PROVE Inv'
<1>1. /\ disp'[p] = [Asleep EXCEPT !.at = "drain"]
      /\ DispOK' /\ \A q \in Processes \ {p} : disp'[q] = disp[q]
  BY DEF RetryLater, Inv, TypeOK, DispOK, Asleep
<1>2. Work(p)'
  BY <1>1 DEF Asleep, Work, Working, Owning
<1>3. UNCHANGED <<step, receipts, ledger, proc, carrier, beat>>
  BY DEF RetryLater
<1>4. beat' \in [Processes -> BOOLEAN] /\ LedgerOK'
  BY <1>3 DEF Inv, TypeOK, ProcessesOK, LedgerOK
<1>5. JobOK' /\ JobShape' /\ JobsKeep
  <2>1. PICK s \in Steps : s = disp[p].step
    BY DEF RetryLater, At, Inv, Work, Working
  <2>2. CASE Holds(p, s)
    <3>1. PICK j : j = HandBack(job[s], TRUE)
      OBVIOUS
    <3>2. /\ j \in JobRows /\ j.state \in {"dead", "retry_wait"}
          /\ j.state = "retry_wait" => j.tries < MaxTries
          /\ j.waiting => j.state = "retry_wait"
      BY <2>2, <3>1, HandBackShape DEF Holds, Inv, TypeOK
    <3>3. job' = [job EXCEPT ![s] = j]
      BY <2>1, <2>2, <3>1 DEF RetryLater, SetJob
    <3>4. job'[s] = j /\ (\A t \in Steps \ {s} : job'[t] = job[t]) /\ JobOK'
      BY <3>2, <3>3, OneJob
    <3>5. job[s].state = "claimed"
      BY <2>2 DEF Holds
    <3>6. JobShape'
      BY <1>3, <3>2, <3>4, <3>5 DEF Inv, JobShape, Begun, Claimable
    <3>7. JobsKeep
      BY <3>2, <3>4, <3>5 DEF JobsKeep, Begun, Ended
    <3> QED BY <3>4, <3>6, <3>7
  <2>3. CASE ~Holds(p, s)
    BY <1>3, <2>1, <2>3, JobsStay DEF RetryLater
  <2> QED BY <2>2, <2>3
<1> QED BY <1>1, <1>2, <1>3, <1>4, <1>5, OthersWork

LEMMA InvFinishJob == ASSUME Inv, NEW p \in Processes, FinishJob(p) PROVE Inv'
<1>1. /\ disp'[p] = [Asleep EXCEPT !.at = "drain"]
      /\ DispOK' /\ \A q \in Processes \ {p} : disp'[q] = disp[q]
  BY DEF FinishJob, Inv, TypeOK, DispOK, Asleep
<1>2. Work(p)'
  BY <1>1 DEF Asleep, Work, Working, Owning
<1>3. UNCHANGED <<step, receipts, ledger, proc, carrier, beat>>
  BY DEF FinishJob
<1>4. beat' \in [Processes -> BOOLEAN] /\ LedgerOK'
  BY <1>3 DEF Inv, TypeOK, ProcessesOK, LedgerOK
<1>5. PICK s \in Steps : s = disp[p].step
  BY DEF FinishJob, At, Inv, Work, Working
<1>6. CASE ~Holds(p, s)
  BY <1>1, <1>2, <1>3, <1>4, <1>5, <1>6, JobsStay, OthersWork DEF FinishJob
<1>7. CASE Holds(p, s)
  <2>1. PICK v : v = disp[p].verdict
    OBVIOUS
  <2>2. PICK st : st = JobState(v)
    OBVIOUS
  <2>3. st \in {"succeeded", "failed", "inconclusive"}
    BY <2>2 DEF JobState
  <2>4. PICK j : j = [job[s] EXCEPT !.state = st, !.token = NoProcess, !.expired = FALSE]
    OBVIOUS
  <2>5. job[s] \in JobRows /\ job[s].state = "claimed" /\ job[s].waiting = FALSE
    BY <1>7 DEF Holds, Inv, TypeOK, JobOK, JobRows, JobShape
  <2>6. j \in JobRows /\ j.state = st /\ j.waiting = FALSE
    BY <2>3, <2>4, <2>5 DEF JobRows, Ended
  <2>7. job' = [job EXCEPT ![s] = j]
    BY <1>5, <1>7, <2>1, <2>2, <2>4 DEF FinishJob, SetJob
  <2>8. job'[s] = j /\ (\A t \in Steps \ {s} : job'[t] = job[t]) /\ JobOK'
    BY <2>6, <2>7, OneJob
  <2>9. JobShape'
    BY <1>3, <2>3, <2>5, <2>6, <2>8 DEF Inv, JobShape, Begun, Claimable
  <2>10. Claims'
    BY <1>3, <2>3, <2>5, <2>6, <2>8 DEF Inv, Claims, Begun, TypeOK, ReceiptsOK
  <2>11. s \notin Changed /\ st \in {"failed", "inconclusive"}
            => step[s] \in {"manual_override", st}
    <3>1. \/ v = "none"
          \/ v = "refused" /\ s \in Changed
          \/ v \in Verdicts /\ step[s] \in {"manual_override", Shown(v)}
      BY <1>5, <2>1 DEF FinishJob, At, Inv, Work
    <3> QED BY <2>2, <3>1 DEF JobState, Shown, Verdicts
  <2>12. EndedJobIsProjected'
    BY <1>3, <2>6, <2>8, <2>11 DEF Inv, EndedJobIsProjected
  <2>13. ASSUME NEW q \in Processes \ {p} PROVE Work(q)'
    BY <1>1, <1>3, <2>3, <2>5, <2>6, <2>8, <2>13
       DEF Inv, Work, TypeOK, DispOK, Begun, Working, Owning
  <2>14. TypeOK'
    BY <1>1, <1>3, <2>8 DEF Inv, TypeOK, StepOK, ReceiptsOK, LedgerOK, ProcessesOK
  <2> QED BY <1>2, <2>9, <2>10, <2>12, <2>13, <2>14 DEF Inv
<1> QED BY <1>6, <1>7

LEMMA InvClaimVerification == ASSUME Inv, NEW p \in Processes, ClaimVerification(p) PROVE Inv'
<1>1. PICK s \in Steps : s = disp[p].step /\ Begun(s)
  BY DEF ClaimVerification, At, Inv, Work, Working
<1>2. /\ receipts' = receipts \cup {Receipt(s, p, "pending")}
      /\ \A r \in receipts : r.step # s
      /\ UNCHANGED <<step, job, ledger, proc, carrier, beat>> /\ disp[p].at = "driving"
  BY <1>1 DEF ClaimVerification, Unclaimed, At
<1>3. /\ disp'[p].at = "grading" /\ disp'[p].step = s /\ disp'[p].verdict = disp[p].verdict
      /\ DispOK' /\ \A q \in Processes \ {p} : disp'[q] = disp[q]
  BY <1>1, GoShape DEF ClaimVerification, Positions
<1>4. TypeOK'
  BY <1>1, <1>2, <1>3 DEF Inv, TypeOK, StepOK, JobOK, ReceiptsOK, LedgerOK, ProcessesOK, Receipt
<1>5. step[s] \in {"verifying", "manual_override"}
  BY <1>1, <1>2 DEF Inv, Claims, JobShape, TypeOK, StepOK
<1>6. Claims'
  BY <1>1, <1>2 DEF Inv, Claims, Receipt, Begun
<1>7. JobShape' /\ EndedJobIsProjected'
  BY <1>2 DEF Inv, JobShape, EndedJobIsProjected, Begun
<1>8. Work(p)'
  <2>1. \E r \in receipts' : r.step = s /\ r.by = p
    <3>1. PICK r : r = Receipt(s, p, "pending")
      OBVIOUS
    <3>2. r \in receipts' /\ r.step = s /\ r.by = p
      BY <1>2, <3>1 DEF Receipt
    <3> QED BY <3>2
  <2>2. disp[p].verdict = "none"
    BY <1>2 DEF Inv, Work
  <2> QED BY <1>1, <1>2, <1>3, <1>5, <2>1, <2>2 DEF Work, Begun, Working, Owning
<1>9. ASSUME NEW q \in Processes \ {p} PROVE Work(q)'
  BY <1>2, <1>3, <1>9 DEF Inv, Work, Begun, Working, Owning
<1> QED BY <1>4, <1>6, <1>7, <1>8, <1>9 DEF Inv

LEMMA InvFinishVerification ==
  ASSUME Inv, NEW p \in Processes, NEW v \in Verdicts, FinishVerification(p, v) PROVE Inv'
<1>1. PICK s \in Steps : s = disp[p].step /\ Begun(s)
  BY DEF FinishVerification, At, Inv, Work, Working
<1>2. disp[p].at = "grading" /\ UNCHANGED <<step, job, ledger, proc, carrier, beat>>
  BY DEF FinishVerification, At
<1>3. PICK where \in {"billing", "projecting"} :
        where = IF HasBillingEffect(v) THEN "billing" ELSE "projecting"
  OBVIOUS
<1>4. /\ disp'[p].at = where /\ disp'[p].step = s /\ disp'[p].verdict = v
      /\ DispOK' /\ \A q \in Processes \ {p} : disp'[q] = disp[q]
  BY <1>1, <1>3 DEF FinishVerification, Inv, TypeOK, DispOK
<1>5. /\ \A r \in receipts : \E q \in receipts' : q.step = r.step /\ q.by = r.by
      /\ \A q \in receipts' : \E r \in receipts : q.step = r.step
      /\ receipts' \subseteq [step : Steps, by : Processes, verdict : Verdicts \cup {"pending"}]
  <2>1. receipts' = {IF r.step = s /\ r.by = p THEN Receipt(s, p, v) ELSE r : r \in receipts}
    BY <1>1 DEF FinishVerification
  <2>2. receipts \subseteq [step : Steps, by : Processes, verdict : Verdicts \cup {"pending"}]
    BY DEF Inv, TypeOK, ReceiptsOK
  <2>3. ASSUME NEW r \in receipts PROVE \E q \in receipts' : q.step = r.step /\ q.by = r.by
    <3>1. PICK q : q = IF r.step = s /\ r.by = p THEN Receipt(s, p, v) ELSE r
      OBVIOUS
    <3>2. q \in receipts'
      BY <2>1, <3>1
    <3>3. q.step = r.step /\ q.by = r.by
      BY <3>1 DEF Receipt
    <3> QED BY <3>2, <3>3
  <2>4. ASSUME NEW q \in receipts'
        PROVE  /\ \E r \in receipts : q.step = r.step
               /\ q \in [step : Steps, by : Processes, verdict : Verdicts \cup {"pending"}]
    <3>1. PICK r \in receipts : q = IF r.step = s /\ r.by = p THEN Receipt(s, p, v) ELSE r
      BY <2>1
    <3>2. q.step = r.step
      BY <3>1 DEF Receipt
    <3>3. q \in [step : Steps, by : Processes, verdict : Verdicts \cup {"pending"}]
      BY <1>1, <2>2, <3>1 DEF Receipt
    <3> QED BY <3>2, <3>3
  <2> QED BY <2>3, <2>4
<1>6. \A r1, r2 \in receipts' : r1.step = r2.step => r1 = r2
  <2>1. receipts' = {IF r.step = s /\ r.by = p THEN Receipt(s, p, v) ELSE r : r \in receipts}
    BY <1>1 DEF FinishVerification
  <2> QED BY <2>1 DEF Inv, Claims, Receipt
<1>7. TypeOK'
  BY <1>2, <1>4, <1>5 DEF Inv, TypeOK, StepOK, JobOK, ReceiptsOK, LedgerOK, ProcessesOK
<1>8. Claims'
  BY <1>2, <1>5, <1>6 DEF Inv, Claims, Begun
<1>9. JobShape' /\ EndedJobIsProjected'
  BY <1>2 DEF Inv, JobShape, EndedJobIsProjected, Begun
<1>10. Work(p)'
  BY <1>1, <1>2, <1>4, <1>5 DEF Inv, Work, Begun, Working, Owning
<1>11. ASSUME NEW q \in Processes \ {p} PROVE Work(q)'
  BY <1>2, <1>4, <1>5, <1>11 DEF Inv, Work, TypeOK, DispOK, Begun, Working, Owning
<1> QED BY <1>7, <1>8, <1>9, <1>10, <1>11 DEF Inv

\* Only the holder of the receipt moves the step out of `verifying`, so no
\* other dispatcher is between its claim and its projection of this step.
LEMMA InvProjectVerdict == ASSUME Inv, NEW p \in Processes, ProjectVerdict(p) PROVE Inv'
<1>1. PICK s \in Steps : s = disp[p].step /\ Begun(s)
  BY DEF ProjectVerdict, At, Inv, Work, Working
<1>2. /\ disp[p].at = "projecting" /\ disp[p].verdict \in Verdicts
      /\ \E r \in receipts : r.step = s /\ r.by = p
      /\ step[s] \in {"verifying", "manual_override"}
      /\ UNCHANGED <<job, receipts, ledger, proc, carrier>>
  BY <1>1 DEF ProjectVerdict, At, Inv, Work, Owning
<1>3. /\ disp'[p].at = "ending" /\ disp'[p].step = s /\ disp'[p].verdict = disp[p].verdict
      /\ DispOK' /\ \A q \in Processes \ {p} : disp'[q] = disp[q]
  BY <1>1, GoShape DEF ProjectVerdict, Positions
<1>4. /\ step'[s] \in {"manual_override", Shown(disp[p].verdict)}
      /\ step[s] = "manual_override" => step'[s] = "manual_override"
      /\ \A t \in Steps \ {s} : step'[t] = step[t]
      /\ StepOK'
  BY <1>1, <1>2 DEF ProjectVerdict, Transition, Inv, TypeOK, StepOK, Shown
<1>5. TypeOK'
  BY <1>2, <1>3, <1>4 DEF ProjectVerdict, Inv, TypeOK, JobOK, ReceiptsOK, LedgerOK, ProcessesOK
<1>6. JobShape'
  BY <1>1, <1>2, <1>4 DEF Inv, JobShape, Begun, Shown
<1>7. Claims'
  BY <1>1, <1>2, <1>4 DEF Inv, Claims, Begun
<1>8. EndedJobIsProjected'
  BY <1>1, <1>2, <1>4 DEF Inv, EndedJobIsProjected
<1>9. Work(p)'
  BY <1>1, <1>2, <1>3, <1>4 DEF Inv, Work, Begun, Working, Owning
<1>10. ASSUME NEW q \in Processes \ {p} PROVE Work(q)'
  <2>1. disp[q].step = s => disp[q].at \notin Owning
    BY <1>1, <1>2, <1>10 DEF Inv, Work, Claims
  <2>2. disp[q].at = "ending" /\ disp[q].verdict \in Verdicts /\ disp[q].step = s
        => step'[s] \in {"manual_override", Shown(disp[q].verdict)}
    BY <1>2, <1>4, <1>10 DEF Inv, Work, Shown, Verdicts
  <2> QED BY <1>1, <1>2, <1>3, <1>4, <1>10, <2>1, <2>2 DEF Inv, Work, TypeOK, DispOK, Begun, Working, Owning, Verdicts
<1> QED BY <1>5, <1>6, <1>7, <1>8, <1>9, <1>10 DEF Inv

-----------------------------------------------------------------------------
(* The invariant, and what follows from it *)

LEMMA InvNext == Inv /\ [Next]_vars => Inv'
<1> SUFFICES ASSUME Inv, [Next]_vars PROVE Inv'
  OBVIOUS
<1>1. CASE UNCHANGED vars
  BY <1>1 DEF vars, db, Inv, TypeOK, StepOK, JobOK, ReceiptsOK, LedgerOK, ProcessesOK, DispOK,
     JobShape, Claims, EndedJobIsProjected, Work, Begun
<1>2. ASSUME NEW p \in Processes, Start(p) \/ Die(p) \/ Heartbeat(p) PROVE Inv'
  BY <1>2, InvStart, InvDie, InvHeartbeat
<1>3. ASSUME NEW p \in Processes, Dispatcher(p) PROVE Inv'
  BY <1>3, InvIdle, InvClaimJob, InvRefuseExam, InvRetryLater, InvStartHeartbeat,
     InvNothingToVerify, InvClaimVerification, InvFinishVerification, InvSealFails, InvBill,
     InvProjectVerdict, InvFinishJob DEF Dispatcher
<1>4. ASSUME NEW s \in Steps,
             \/ BeginVerifyingStep(s) \/ ManualOverride(s) \/ LeaseExpires(s) \/ BackoffEnds(s)
             \/ \E p \in Processes : DeliverStep(s, p)
      PROVE  Inv'
  BY <1>4, InvBeginVerifyingStep, InvManualOverride, InvClock, InvDeliverStep
<1> QED BY <1>1, <1>2, <1>3, <1>4 DEF Next

LEMMA InvAlways == Spec => []Inv
BY InvInit, InvNext, PTL DEF Spec

\* Type correctness.
THEOREM TypeCorrect == Spec => []TypeOK
BY InvAlways, PTL DEF Inv

\* A job says `failed` or `inconclusive` only when the step says so too, or a
\* person has accepted the work (finish_verification_job after
\* project_outcome).
THEOREM EndedJobsAreProjected == Spec => []EndedJobIsProjected
BY InvAlways, PTL DEF Inv

-----------------------------------------------------------------------------
(* A job ends once, and by the claim that holds it *)

LEMMA HandedBackEnds ==
  ASSUME JobOK, NEW s \in Steps, NEW b, job[s].state = "claimed", job'[s] = HandBack(job[s], b)
  PROVE  EndsByItsHolder(s)
<1> DEFINE st == IF job[s].tries >= MaxTries THEN "dead" ELSE "retry_wait"
<1>1. job[s] \in JobRows /\ job[s].tries \in 0..MaxTries
  BY DEF JobOK, JobRows
<1>2. job'[s].state = st
  <2>1. PICK w : w = (b /\ job[s].tries < MaxTries)
    OBVIOUS
  <2>2. job'[s] = [job[s] EXCEPT !.state = st, !.token = NoProcess, !.expired = FALSE,
                                 !.waiting = w]
    BY <2>1 DEF HandBack
  <2> HIDE DEF st
  <2> QED BY <1>1, <2>2 DEF JobRows
<1> QED BY <1>1, <1>2, BoundAssumption DEF EndsByItsHolder, Ended

\* No statement touches the job of a verdict that was reached or given up.
EndsOnce(s) == EndsByItsHolder(s) /\ (job[s].state \in Ended => job'[s] = job[s])

LEMMA EndsOnceUnchanged == ASSUME NEW s \in Steps, job'[s] = job[s] PROVE EndsOnce(s)
BY DEF EndsOnce, EndsByItsHolder

LEMMA EndsOnceLive ==
  ASSUME NEW s \in Steps, job[s].state \notin Ended, job'[s].state \notin Ended
  PROVE  EndsOnce(s)
BY DEF EndsOnce, EndsByItsHolder

\* A statement on one job: the others are as they were.
LEMMA EndsOnceOther ==
  ASSUME JobOK, NEW s, NEW t \in Steps \ {s}, NEW j, SetJob(s, j)
  PROVE  EndsOnce(t)
BY EndsOnceUnchanged DEF SetJob, JobOK

LEMMA EndsOnceReclaim == ASSUME Inv, ReclaimExpired, NEW t \in Steps PROVE EndsOnce(t)
<1>1. CASE t \in Expired
  <2>1. job'[t] = HandBack(job[t], FALSE) /\ job[t].state = "claimed"
    BY <1>1 DEF ReclaimExpired, Expired
  <2> QED BY <2>1, HandedBackEnds DEF EndsOnce, Ended, Inv, TypeOK
<1>2. CASE t \notin Expired
  BY <1>2, EndsOnceUnchanged DEF ReclaimExpired
<1> QED BY <1>1, <1>2

LEMMA EndsOnceDatabase ==
  ASSUME Inv, NEW s \in Steps, NEW t \in Steps,
         BeginVerifyingStep(s) \/ LeaseExpires(s) \/ BackoffEnds(s)
  PROVE  EndsOnce(t)
<1>1. CASE job' = job
  BY <1>1, EndsOnceUnchanged
<1>2. PICK j : job' = job \/ SetJob(s, j)
  BY DEF BeginVerifyingStep, LeaseExpires, BackoffEnds
<1>3. CASE s # t /\ job' # job
  BY <1>2, <1>3, EndsOnceOther DEF Inv, TypeOK
<1>4. CASE s = t /\ BeginVerifyingStep(t) /\ job' # job
  <2>1. step[t] = "delivered" /\ job' = [job EXCEPT ![t] = [NoJob EXCEPT !.state = "queued"]]
    BY <1>4 DEF BeginVerifyingStep, SetJob, Transition, Inv, JobShape, Begun
  <2>2. job[t].state = "none" /\ job'[t].state = "queued"
    BY <2>1 DEF Inv, TypeOK, JobOK, JobShape, Begun, NoJob
  <2> QED BY <2>2, EndsOnceLive DEF Ended
<1>5. CASE s = t /\ LeaseExpires(t)
  <2>1. job[t].state = "claimed" /\ job'[t] = [job[t] EXCEPT !.expired = TRUE]
    BY <1>5 DEF LeaseExpires, SetJob, Inv, TypeOK, JobOK
  <2>2. job'[t].state = "claimed"
    BY <2>1 DEF Inv, TypeOK, JobOK, JobRows
  <2> QED BY <2>1, <2>2, EndsOnceLive DEF Ended
<1>6. CASE s = t /\ BackoffEnds(t)
  <2>1. job[t].state = "retry_wait" /\ job'[t] = [job[t] EXCEPT !.waiting = FALSE]
    BY <1>6 DEF BackoffEnds, SetJob, Inv, TypeOK, JobOK, JobShape
  <2>2. job'[t].state = "retry_wait"
    BY <2>1 DEF Inv, TypeOK, JobOK, JobRows
  <2> QED BY <2>1, <2>2, EndsOnceLive DEF Ended
<1> QED BY <1>1, <1>3, <1>4, <1>5, <1>6

LEMMA EndsOnceHeartbeat ==
  ASSUME Inv, NEW p \in Processes, Heartbeat(p), NEW t \in Steps PROVE EndsOnce(t)
<1>1. CASE job' = job
  BY <1>1, EndsOnceUnchanged
<1>2. CASE job' # job
  <2>1. PICK s : s = disp[p].step
    OBVIOUS
  <2>2. Holds(p, s) /\ SetJob(s, [job[s] EXCEPT !.expired = FALSE])
    BY <1>2, <2>1 DEF Heartbeat
  <2>3. CASE s = t
    <3>1. job[t].state = "claimed" /\ job'[t] = [job[t] EXCEPT !.expired = FALSE]
      BY <2>2, <2>3 DEF Holds, SetJob, Inv, TypeOK, JobOK
    <3>2. job'[t].state = "claimed"
      BY <3>1 DEF Inv, TypeOK, JobOK, JobRows
    <3> QED BY <3>1, <3>2, EndsOnceLive DEF Ended
  <2>4. CASE s # t
    BY <2>2, <2>4, EndsOnceOther DEF Inv, TypeOK
  <2> QED BY <2>3, <2>4
<1> QED BY <1>1, <1>2

LEMMA EndsOnceDispatcher ==
  ASSUME Inv, NEW p \in Processes, Dispatcher(p), NEW t \in Steps PROVE EndsOnce(t)
<1>1. CASE job' = job
  BY <1>1, EndsOnceUnchanged
<1>2. CASE Sweep(p)
  BY <1>2, EndsOnceReclaim DEF Sweep
<1>3. ASSUME NEW s \in Steps, ClaimJob(p, s) PROVE EndsOnce(t)
  <2>1. CASE s = t
    <3>1. PICK j : j = [job[t] EXCEPT !.state = "claimed", !.token = p, !.expired = FALSE,
                                      !.tries = job[t].tries + 1]
      OBVIOUS
    <3>2. job[t] \in JobRows /\ job[t].state \in Claimable /\ job'[t] = j
      BY <1>3, <2>1, <3>1 DEF ClaimJob, Runnable, SetJob, Inv, TypeOK, JobOK
    <3>3. j.state = "claimed"
      BY <3>1, <3>2 DEF JobRows
    <3> QED BY <3>2, <3>3, EndsOnceLive DEF Ended, Claimable
  <2>2. CASE s # t
    BY <1>3, <2>2, EndsOnceOther DEF ClaimJob, Inv, TypeOK
  <2> QED BY <2>1, <2>2
<1>4. ASSUME NEW s, s = disp[p].step, Holds(p, s), NEW j, SetJob(s, j),
             \/ j = HandBack(job[s], TRUE)
             \/ /\ disp[p].at = "ending" /\ disp'[p].at = "drain"
                /\ j.state \notin {"dead"}
      PROVE  EndsOnce(t)
  <2>1. CASE s = t
    <3>1. job[t].state = "claimed" /\ job[t].token = p /\ job'[t] = j
      BY <1>4, <2>1 DEF Holds, SetJob, Inv, TypeOK, JobOK
    <3>2. CASE j = HandBack(job[t], TRUE)
      BY <3>1, <3>2, HandedBackEnds DEF EndsOnce, Ended, Inv, TypeOK
    <3>3. CASE disp[p].at = "ending" /\ disp'[p].at = "drain"
      BY <1>4, <2>1, <3>1, <3>3 DEF EndsOnce, EndsByItsHolder, Ended, At
    <3> QED BY <1>4, <2>1, <3>2, <3>3
  <2>2. CASE s # t
    BY <1>4, <2>2, EndsOnceOther DEF Inv, TypeOK
  <2> QED BY <2>1, <2>2
<1>5. CASE RetryLater(p)
  BY <1>1, <1>4, <1>5 DEF RetryLater
<1>6. CASE FinishJob(p)
  <2>1. PICK s : s = disp[p].step
    OBVIOUS
  <2>2. CASE Holds(p, s)
    <3>1. PICK st : st = JobState(disp[p].verdict)
      OBVIOUS
    <3>2. PICK j : j = [job[s] EXCEPT !.state = st, !.token = NoProcess, !.expired = FALSE]
      OBVIOUS
    <3>3. s \in Steps /\ disp[p].at = "ending" /\ disp'[p].at = "drain"
      BY <1>6, <2>1 DEF FinishJob, At, Asleep, Inv, Work, Working, TypeOK, DispOK
    <3>4. job[s] \in JobRows
      BY <3>3 DEF Inv, TypeOK, JobOK
    <3>5. j.state = st /\ st # "dead"
      BY <3>1, <3>2, <3>4 DEF JobState, JobRows
    <3>6. SetJob(s, j)
      BY <1>6, <2>1, <2>2, <3>1, <3>2 DEF FinishJob
    <3> QED BY <1>4, <2>1, <2>2, <3>3, <3>5, <3>6
  <2>3. CASE ~Holds(p, s)
    BY <1>1, <1>6, <2>1, <2>3 DEF FinishJob
  <2> QED BY <2>2, <2>3
<1>7. CASE \/ Poll(p) \/ Drained(p) \/ RefuseExam(p) \/ StartHeartbeat(p) \/ NothingToVerify(p)
           \/ ClaimVerification(p) \/ Bill(p) \/ ProjectVerdict(p)
           \/ \E v \in Verdicts : FinishVerification(p, v) \/ SealFails(p, v)
  BY <1>1, <1>7 DEF Poll, Drained, RefuseExam, StartHeartbeat, NothingToVerify, ClaimVerification,
     Bill, ProjectVerdict, FinishVerification, SealFails, db
<1> QED BY <1>2, <1>3, <1>5, <1>6, <1>7 DEF Dispatcher

\* Whoever ends a job held its claim (finish_verification_job names the state
\* and the token), and an ended job is never touched again.
THEOREM JobsEndOnce == Spec => JobEndsOnce
<1>1. ASSUME Inv, Next, NEW t \in Steps PROVE EndsOnce(t)
  <2>1. ASSUME job' = job PROVE EndsOnce(t)
    BY <2>1, EndsOnceUnchanged
  <2>2. ASSUME NEW p \in Processes, Start(p) \/ Die(p) PROVE EndsOnce(t)
    <3>1. CASE Start(p)
      BY <1>1, <3>1, EndsOnceReclaim DEF Start
    <3>2. CASE Die(p)
      BY <2>1, <3>2 DEF Die, db
    <3> QED BY <2>2, <3>1, <3>2
  <2>3. ASSUME NEW s \in Steps, ManualOverride(s) \/ \E p \in Processes : DeliverStep(s, p)
        PROVE  EndsOnce(t)
    BY <2>1, <2>3 DEF ManualOverride, DeliverStep
  <2> QED BY <1>1, <2>2, <2>3, EndsOnceDatabase, EndsOnceHeartbeat, EndsOnceDispatcher DEF Next
<1>2. Inv /\ [Next]_vars =>
        [\A s \in Steps : /\ EndsByItsHolder(s)
                          /\ job[s].state \in Ended => job'[s] = job[s]]_vars
  BY <1>1 DEF EndsOnce
<1> QED BY <1>2, InvAlways, PTL DEF Spec, JobEndsOnce

-----------------------------------------------------------------------------
(* The promise is kept: DurableVerifier implements VerdictOnce, as long as   *)
(* the statement that seals a verdict does not fail.                         *)

\* What a dispatcher holds while it decides and charges: its own receipt,
\* sealed from the moment it goes on; nothing charged before it does.
Sealing(p) ==
  LET d == disp[p] IN
  /\ d.at = "grading" => Receipt(d.step, p, "pending") \in receipts
  /\ d.at \in {"billing", "projecting"} => Receipt(d.step, p, d.verdict) \in receipts
  /\ d.at = "billing" => d.verdict # "inconclusive" /\ \A e \in ledger : e.step # d.step

\* Every entry is a charge for a sealed verdict that costs something.
Charged ==
  \A e \in ledger : /\ e.kind = "charge"
                    /\ \E r \in receipts : r.step = e.step /\ r.verdict \in Once!Costing

Promise == Inv /\ Charged /\ \A p \in Processes : Sealing(p)

LEMMA PromiseInit == Init => Promise
<1> SUFFICES ASSUME Init PROVE Promise
  OBVIOUS
<1>1. Inv
  BY InvInit
<1>2. Charged /\ \A p \in Processes : Sealing(p)
  BY DEF Init, Charged, Sealing, Asleep
<1> QED BY <1>1, <1>2 DEF Promise

\* The outcome of a step is the verdict of its one receipt.
LEMMA OutcomeOfReceipt ==
  ASSUME Inv, NEW s \in Steps, NEW r \in receipts, r.step = s
  PROVE  Outcome[s] = IF r.verdict = "pending" THEN "none" ELSE r.verdict
<1>1. \A q \in SealedOf(s) : q = r
  BY DEF SealedOf, Inv, Claims
<1>2. CASE r.verdict = "pending"
  <2>1. SealedOf(s) = {}
    BY <1>1, <1>2 DEF SealedOf
  <2> QED BY <1>2, <2>1 DEF Outcome
<1>3. CASE r.verdict # "pending"
  <2>1. r \in SealedOf(s)
    BY <1>3 DEF SealedOf
  <2>2. (CHOOSE q \in SealedOf(s) : TRUE) = r
    BY <1>1, <2>1
  <2> QED BY <1>3, <2>1, <2>2 DEF Outcome
<1> QED BY <1>2, <1>3

\* An outcome is a function of the steps, before and after.
LEMMA OutcomeFunction ==
  /\ Outcome = [t \in Steps |-> Outcome[t]]
  /\ Outcome' = [t \in Steps |-> Outcome'[t]]
BY DEF Outcome

LEMMA OutcomeStays == ASSUME UNCHANGED receipts PROVE UNCHANGED Outcome
BY DEF Outcome, SealedOf

\* Steps that leave the verdicts and the charges alone.
LEMMA PromiseFrame ==
  ASSUME Promise, Inv', UNCHANGED <<receipts, ledger>>,
         \A p \in Processes : \/ disp'[p].at \notin Owning
                              \/ disp'[p] = disp[p]
  PROVE  Promise'
<1>1. Charged'
  BY DEF Promise, Charged
<1>2. ASSUME NEW p \in Processes PROVE Sealing(p)'
  <2>1. CASE disp'[p].at \notin Owning
    BY <2>1 DEF Sealing, Owning
  <2>2. CASE disp'[p] = disp[p]
    BY <2>2 DEF Promise, Sealing
  <2> QED BY <2>1, <2>2
<1> QED BY <1>1, <1>2 DEF Promise

OnceStep == [Once!Next]_(Once!vars)

LEMMA Stutter == ASSUME UNCHANGED <<step, receipts, ledger>> PROVE OnceStep
BY OutcomeStays DEF OnceStep, Once!vars

\* A move of one step, with the verdicts and the charges as they were.
LEMMA MoveStep ==
  ASSUME Inv, NEW s \in Steps, UNCHANGED <<receipts, ledger>>,
         NEW to, step' = [step EXCEPT ![s] = to],
         \/ step[s] = "running" /\ to = "delivered"
         \/ step[s] = "delivered" /\ to = "verifying"
         \/ /\ step[s] \in {"delivered", "verifying", "failed", "inconclusive"}
            /\ to = "manual_override"
         \/ step[s] = "verifying" /\ Outcome[s] # "none" /\ to = Once!Shown(Outcome[s])
  PROVE  OnceStep
<1>1. UNCHANGED Outcome
  BY OutcomeStays
<1> QED BY <1>1 DEF OnceStep, Once!Next, Once!Hand, Once!Accept, Once!Show

LEMMA PromiseClaimVerification ==
  ASSUME Promise, Inv', NEW p \in Processes, ClaimVerification(p) PROVE Promise' /\ OnceStep
<1>1. PICK s \in Steps : s = disp[p].step
  BY DEF ClaimVerification, At, Promise, Inv, Work, Working
<1>2. PICK n : n = Receipt(s, p, "pending")
  OBVIOUS
<1>3. n.step = s /\ n.by = p /\ n.verdict = "pending"
  BY <1>2 DEF Receipt
<1>4. /\ receipts' = receipts \cup {n} /\ \A r \in receipts : r.step # s
      /\ UNCHANGED <<step, job, ledger, proc, carrier, beat>>
  BY <1>1, <1>2 DEF ClaimVerification, Unclaimed
<1>5. /\ disp'[p].at = "grading" /\ disp'[p].step = s
      /\ \A q \in Processes \ {p} : disp'[q] = disp[q]
  BY <1>1, GoShape DEF ClaimVerification, Positions, Promise
<1>6. Charged'
  BY <1>4 DEF Promise, Charged
<1>7. Sealing(p)'
  BY <1>2, <1>4, <1>5 DEF Sealing
<1>8. ASSUME NEW q \in Processes \ {p} PROVE Sealing(q)'
  BY <1>4, <1>5, <1>8 DEF Promise, Sealing
<1>9. UNCHANGED Outcome
  <2>1. ASSUME NEW t PROVE SealedOf(t)' = SealedOf(t)
    BY <1>3, <1>4 DEF SealedOf
  <2>2. ASSUME NEW t \in Steps PROVE Outcome'[t] = Outcome[t]
    <3>1. SealedOf(t)' = SealedOf(t)
      BY <2>1
    <3> QED BY <3>1 DEF Outcome
  <2> QED BY <2>2, OutcomeFunction
<1> QED BY <1>4, <1>6, <1>7, <1>8, <1>9 DEF Promise, OnceStep, Once!vars

LEMMA PromiseFinishVerification ==
  ASSUME Promise, Inv', NEW p \in Processes, NEW v \in Verdicts, FinishVerification(p, v)
  PROVE  Promise' /\ OnceStep
<1>1. PICK s \in Steps : s = disp[p].step
  BY DEF FinishVerification, At, Promise, Inv, Work, Working
<1>2. PICK o : o = Receipt(s, p, "pending")
  OBVIOUS
<1>3. PICK n : n = Receipt(s, p, v)
  OBVIOUS
<1>4. /\ o.step = s /\ o.by = p /\ o.verdict = "pending"
      /\ n.step = s /\ n.by = p /\ n.verdict = v /\ v # "pending"
  BY <1>2, <1>3 DEF Receipt, Verdicts
<1>5. o \in receipts /\ \A r \in receipts : r.step = s => r = o
  BY <1>1, <1>2, <1>4 DEF FinishVerification, At, Promise, Sealing, Inv, Claims
<1>6. /\ n \in receipts' /\ \A r \in receipts' : r = n \/ (r \in receipts /\ r # o)
      /\ \A r \in receipts \ {o} : r \in receipts'
  <2>1. receipts' = {IF r.step = s /\ r.by = p THEN n ELSE r : r \in receipts}
    BY <1>1, <1>3 DEF FinishVerification
  <2> QED BY <1>4, <1>5, <2>1
<1>7. UNCHANGED <<step, job, ledger, proc, carrier, beat>>
  BY DEF FinishVerification
<1>8. /\ disp'[p].at \in {"billing", "projecting"} /\ disp'[p].step = s /\ disp'[p].verdict = v
      /\ disp'[p].at = "billing" => v # "inconclusive"
      /\ \A q \in Processes \ {p} : disp'[q] = disp[q]
  BY <1>1 DEF FinishVerification, Promise, Inv, TypeOK, DispOK, HasBillingEffect
<1>9. \A e \in ledger : e.step # s
  BY <1>4, <1>5 DEF Promise, Charged, Once!Costing
<1>10. Charged'
  BY <1>4, <1>5, <1>6, <1>7, <1>9 DEF Promise, Charged
<1>11. Sealing(p)'
  BY <1>3, <1>6, <1>7, <1>8, <1>9 DEF Sealing
<1>12. ASSUME NEW q \in Processes \ {p} PROVE Sealing(q)'
  <2>1. ASSUME NEW t, NEW w PROVE Receipt(t, q, w) \in receipts => Receipt(t, q, w) \in receipts'
    <3>1. Receipt(t, q, w).by = q
      BY DEF Receipt
    <3> QED BY <1>4, <1>6, <1>12, <3>1
  <2> QED BY <1>7, <1>8, <1>12, <2>1 DEF Promise, Sealing
<1>13. Outcome[s] = "none" /\ Outcome'[s] = v
  <2>1. Outcome[s] = "none"
    BY <1>4, <1>5, OutcomeOfReceipt DEF Promise
  <2>2. SealedOf(s)' = {n}
    BY <1>4, <1>5, <1>6 DEF SealedOf
  <2>3. (CHOOSE r \in SealedOf(s)' : TRUE) = n
    BY <2>2
  <2>4. Outcome'[s] = n.verdict
    BY <2>2, <2>3 DEF Outcome
  <2> QED BY <1>4, <2>1, <2>4
<1>14. ASSUME NEW t \in Steps \ {s} PROVE Outcome'[t] = Outcome[t]
  <2>1. SealedOf(t)' = SealedOf(t)
    BY <1>4, <1>6, <1>14 DEF SealedOf
  <2> QED BY <2>1 DEF Outcome
<1>15. Outcome' = [Outcome EXCEPT ![s] = v]
  BY <1>13, <1>14, OutcomeFunction
<1>16. step[s] \notin {"running", "delivered"}
  BY <1>1 DEF FinishVerification, At, Promise, Inv, Work, Owning
<1>17. Once!Decide(s, v)
  BY <1>13, <1>15, <1>16 DEF Once!Decide
<1>18. OnceStep
  BY <1>7, <1>17 DEF OnceStep, Once!Next, Once!Verdicts, Verdicts
<1> QED BY <1>10, <1>11, <1>12, <1>18 DEF Promise

LEMMA PromiseBill ==
  ASSUME Promise, Inv', NEW p \in Processes, Bill(p) PROVE Promise' /\ OnceStep
<1>1. PICK s \in Steps : s = disp[p].step
  BY DEF Bill, At, Promise, Inv, Work, Working
<1>2. PICK v : v = disp[p].verdict
  OBVIOUS
<1>3. PICK n : n = Receipt(s, p, v)
  OBVIOUS
<1>4. /\ n \in receipts /\ n.step = s /\ n.verdict = v
      /\ \A e \in ledger : e.step # s
      /\ v \in {"verified", "failed", "unverified"}
  <2>1. disp[p].at = "billing"
    BY DEF Bill, At
  <2>2. n \in receipts /\ (\A e \in ledger : e.step # s) /\ v # "inconclusive"
    BY <1>1, <1>2, <1>3, <2>1 DEF Promise, Sealing
  <2>3. n.step = s /\ n.verdict = v
    BY <1>3 DEF Receipt
  <2>4. v \in Verdicts
    BY <1>2, <2>1 DEF Promise, Inv, Work
  <2> QED BY <2>2, <2>3, <2>4 DEF Verdicts
<1>5. PICK c : c = [step |-> s, by |-> p, kind |-> "charge"]
  OBVIOUS
<1>6. c.step = s /\ c.kind = "charge"
  BY <1>5
<1>7. PICK d : d = [step |-> s, by |-> p, kind |-> "refund"]
  OBVIOUS
<1>8. Effect(s, p, v) = IF v # "failed" /\ s \in Billable THEN {c} ELSE {}
  <2>1. d.step = s
    BY <1>7
  <2>2. c \notin ledger /\ d \notin ledger
    BY <1>4, <1>6, <2>1
  <2> QED BY <1>5, <1>7, <2>2 DEF Effect
<1>9. /\ ledger' = ledger \cup Effect(s, p, v)
      /\ UNCHANGED <<step, job, receipts, proc, carrier, beat>>
  BY <1>1, <1>2 DEF Bill
<1>10. /\ disp'[p].at = "projecting" /\ disp'[p].step = s /\ disp'[p].verdict = v
       /\ \A q \in Processes \ {p} : disp'[q] = disp[q]
  BY <1>1, <1>2, GoShape DEF Bill, AfterBill, Positions, Promise
<1>11. Charged'
  BY <1>4, <1>6, <1>8, <1>9 DEF Promise, Charged, Once!Costing
<1>12. Sealing(p)'
  BY <1>3, <1>4, <1>9, <1>10 DEF Sealing
<1>13. ASSUME NEW q \in Processes \ {p} PROVE Sealing(q)'
  <2>1. disp[q].at = "billing" => disp[q].step # s
    <3>1. SUFFICES ASSUME disp[q].at = "billing", disp[q].step = s PROVE FALSE
      OBVIOUS
    <3>2. PICK w : w = disp[q].verdict
      OBVIOUS
    <3>3. Receipt(s, q, w) \in receipts
      BY <1>13, <3>1, <3>2 DEF Promise, Sealing
    <3>4. Receipt(s, q, w).step = s /\ Receipt(s, q, w).by = q /\ n.by = p
      BY <1>3 DEF Receipt
    <3> QED BY <1>4, <1>13, <3>3, <3>4 DEF Promise, Inv, Claims
  <2> QED BY <1>6, <1>8, <1>9, <1>10, <1>13, <2>1 DEF Promise, Sealing
<1>14. OnceStep
  <2>1. CASE Effect(s, p, v) = {}
    BY <1>9, <2>1, Stutter
  <2>2. CASE Effect(s, p, v) = {c} /\ v # "failed"
    <3>1. Outcome[s] = v
      BY <1>4, OutcomeOfReceipt DEF Promise
    <3>2. Once!Charge(s, p)
      BY <1>4, <1>5, <1>9, <2>2, <3>1 DEF Once!Charge, Once!Costing
    <3> QED BY <1>9, <3>2, OutcomeStays DEF OnceStep, Once!Next
  <2> QED BY <1>8, <2>1, <2>2
<1> QED BY <1>11, <1>12, <1>13, <1>14 DEF Promise

LEMMA PromiseProjectVerdict ==
  ASSUME Promise, Inv', NEW p \in Processes, ProjectVerdict(p) PROVE Promise' /\ OnceStep
<1>1. PICK s \in Steps : s = disp[p].step
  BY DEF ProjectVerdict, At, Promise, Inv, Work, Working
<1>2. UNCHANGED <<receipts, ledger>>
  BY DEF ProjectVerdict
<1>3. disp'[p].at = "ending" /\ \A q \in Processes \ {p} : disp'[q] = disp[q]
  BY GoShape DEF ProjectVerdict, Positions, Promise
<1>4. Promise'
  BY <1>2, <1>3, PromiseFrame DEF Owning
<1>5. PICK v : v = disp[p].verdict
  OBVIOUS
<1>6. Receipt(s, p, v) \in receipts /\ v \in Verdicts
  BY <1>1, <1>5 DEF ProjectVerdict, At, Promise, Sealing, Inv, Work
<1>7. Outcome[s] = v /\ v # "none"
  BY <1>6, OutcomeOfReceipt DEF Promise, Receipt, Verdicts
<1>8. OnceStep
  <2>1. CASE step' = step
    BY <1>2, <2>1, Stutter
  <2>2. CASE step[s] = "verifying" /\ step' = [step EXCEPT ![s] = Shown(v)]
    <3>1. Shown(v) = Once!Shown(Outcome[s])
      BY <1>7 DEF Shown, Once!Shown
    <3> QED BY <1>2, <1>7, <2>2, <3>1, MoveStep DEF Promise
  <2> QED BY <1>1, <1>5, <2>1, <2>2 DEF ProjectVerdict, Transition
<1> QED BY <1>4, <1>8

\* The rest of a process's actions moves no step and decides nothing.
LEMMA PromiseProcess ==
  ASSUME Promise, Inv', NEW p \in Processes,
         \/ Start(p) \/ Die(p) \/ Heartbeat(p) \/ Poll(p) \/ Sweep(p) \/ Drained(p)
         \/ (\E s \in Steps : ClaimJob(p, s)) \/ RefuseExam(p) \/ RetryLater(p)
         \/ StartHeartbeat(p) \/ NothingToVerify(p) \/ FinishJob(p)
  PROVE  Promise' /\ OnceStep
<1>1. UNCHANGED <<step, receipts, ledger>>
  BY DEF Start, Die, Heartbeat, Poll, Sweep, Drained, ClaimJob, RefuseExam, RetryLater,
     StartHeartbeat, NothingToVerify, FinishJob, db
<1>2. \A q \in Processes : disp'[q] = disp[q] \/ disp'[q].at \notin Owning
  <2> USE DEF Promise, Inv, TypeOK, DispOK, Asleep, Owning
  <2>1. CASE Start(p) \/ Die(p) \/ Heartbeat(p)
    BY <2>1 DEF Start, Die, Heartbeat
  <2>2. CASE Poll(p) \/ Sweep(p) \/ Drained(p) \/ StartHeartbeat(p) \/ NothingToVerify(p)
    BY <2>2 DEF Poll, Sweep, Drained, StartHeartbeat, NothingToVerify, Go
  <2>3. CASE \/ (\E s \in Steps : ClaimJob(p, s)) \/ RefuseExam(p) \/ RetryLater(p)
             \/ FinishJob(p)
    <3>1. ASSUME NEW s \in Steps, ClaimJob(p, s)
          PROVE  disp'[p].at = "claimed" /\ \A q \in Processes \ {p} : disp'[q] = disp[q]
      BY <3>1 DEF ClaimJob
    <3>2. ASSUME RefuseExam(p)
          PROVE  disp'[p].at = "ending" /\ \A q \in Processes \ {p} : disp'[q] = disp[q]
      BY <3>2 DEF RefuseExam
    <3>3. ASSUME RetryLater(p) \/ FinishJob(p)
          PROVE  disp'[p].at = "drain" /\ \A q \in Processes \ {p} : disp'[q] = disp[q]
      BY <3>3 DEF RetryLater, FinishJob
    <3> QED BY <2>3, <3>1, <3>2, <3>3
  <2> QED BY <2>1, <2>2, <2>3
<1> QED BY <1>1, <1>2, PromiseFrame, Stutter

LEMMA PromiseStep ==
  ASSUME Promise, Inv', NEW s \in Steps,
         \/ BeginVerifyingStep(s) \/ ManualOverride(s) \/ LeaseExpires(s) \/ BackoffEnds(s)
         \/ \E p \in Processes : DeliverStep(s, p)
  PROVE  Promise' /\ OnceStep
<1>1. UNCHANGED <<receipts, ledger, disp>>
  BY DEF BeginVerifyingStep, ManualOverride, LeaseExpires, BackoffEnds, DeliverStep
<1>2. Promise'
  BY <1>1, PromiseFrame
<1>3. ASSUME \E p \in Processes : DeliverStep(s, p) PROVE OnceStep
  BY <1>1, <1>3, MoveStep DEF DeliverStep, Transition, Promise
<1>4. ASSUME BeginVerifyingStep(s) PROVE OnceStep
  BY <1>1, <1>4, MoveStep, Stutter DEF BeginVerifyingStep, Transition, Promise
<1>5. ASSUME ManualOverride(s) PROVE OnceStep
  <2>1. PICK from \in {"delivered", "verifying", "failed", "inconclusive"} :
          step[s] = from /\ step' = [step EXCEPT ![s] = "manual_override"]
    BY <1>5 DEF ManualOverride, Transition
  <2> QED BY <1>1, <2>1, MoveStep DEF Promise
<1>6. ASSUME LeaseExpires(s) \/ BackoffEnds(s) PROVE OnceStep
  BY <1>1, <1>6, Stutter DEF LeaseExpires, BackoffEnds
<1> QED BY <1>2, <1>3, <1>4, <1>5, <1>6

LEMMA PromiseNext ==
  ASSUME ~SealMayFail PROVE Promise /\ [Next]_vars => Promise' /\ [Once!Next]_(Once!vars)
<1> SUFFICES ASSUME Promise, [Next]_vars PROVE Promise' /\ OnceStep
  BY DEF OnceStep
<1>1. Inv'
  BY InvNext DEF Promise
<1>2. CASE UNCHANGED vars
  <2>1. UNCHANGED <<step, receipts, ledger, disp>>
    BY <1>2 DEF vars, db
  <2> QED BY <1>1, <2>1, PromiseFrame, Stutter
<1>3. ASSUME NEW p \in Processes, Dispatcher(p) PROVE Promise' /\ OnceStep
  <2>1. \A v \in Verdicts : ~SealFails(p, v)
    BY DEF SealFails
  <2>2. \/ ClaimVerification(p) \/ (\E v \in Verdicts : FinishVerification(p, v))
        \/ Bill(p) \/ ProjectVerdict(p)
        \/ \/ Poll(p) \/ Sweep(p) \/ Drained(p) \/ (\E s \in Steps : ClaimJob(p, s))
           \/ RefuseExam(p) \/ RetryLater(p) \/ StartHeartbeat(p) \/ NothingToVerify(p)
           \/ FinishJob(p)
    BY <1>3, <2>1 DEF Dispatcher
  <2> QED BY <1>1, <2>2, PromiseClaimVerification, PromiseFinishVerification, PromiseBill,
             PromiseProjectVerdict, PromiseProcess
<1>4. ASSUME NEW p \in Processes, Start(p) \/ Die(p) \/ Heartbeat(p) PROVE Promise' /\ OnceStep
  BY <1>1, <1>4, PromiseProcess
<1>5. ASSUME NEW s \in Steps,
             \/ BeginVerifyingStep(s) \/ ManualOverride(s) \/ LeaseExpires(s) \/ BackoffEnds(s)
             \/ \E p \in Processes : DeliverStep(s, p)
      PROVE  Promise' /\ OnceStep
  BY <1>1, <1>5, PromiseStep
<1> QED BY <1>2, <1>3, <1>4, <1>5 DEF Next

LEMMA OnceInit == Init => Once!Init
BY DEF Init, Once!Init, Outcome, SealedOf

\* What VerdictOnce promises: one verdict for a delivery, at most one charge
\* for it and only for a verdict that costs something, and the step shows the
\* sealed verdict (verification_driver::finish_and_bill, project_outcome).
THEOREM VerdictIsGivenOnce == ASSUME ~SealMayFail PROVE Spec => VerdictOnceHolds
<1>1. Promise /\ [Next]_vars => Promise' /\ [Once!Next]_(Once!vars)
  BY PromiseNext
<1> QED BY <1>1, PromiseInit, OnceInit, PTL DEF Spec, VerdictOnceHolds, Once!Spec

-----------------------------------------------------------------------------
(* Claims and the dispatchers that hold them.                              *)

\* A dispatcher without a job names none; one that has not started sleeps.
Resting(p) == /\ disp[p].at \in {"off", "wait", "drain"} => disp[p].step = NoStep
              /\ proc[p] = "new" => disp[p] = Asleep

Held == Inv /\ ClaimIsWorkedOn /\ \A p \in Processes : Resting(p)

\* No claim is made.
NoNewClaims ==
  \A s \in Steps : job'[s].state = "claimed" =>
    job[s].state = "claimed" /\ job'[s].token = job[s].token

LEMMA HeldFrame ==
  ASSUME Held, Inv', NoNewClaims,
         \A p \in Processes : proc[p] = "dead" => proc'[p] = "dead",
         \A p \in Processes : proc'[p] = "dead" \/ disp'[p].step = disp[p].step,
         \A p \in Processes : Resting(p)'
  PROVE  Held'
BY DEF Held, ClaimIsWorkedOn, NoNewClaims

LEMMA ReclaimMakesNoClaim ==
  ASSUME Inv, ReclaimExpired PROVE NoNewClaims
<1>1. ASSUME NEW s \in Steps, s \in Expired PROVE job'[s].state # "claimed"
  <2>1. job'[s] = HandBack(job[s], FALSE) /\ job[s].state = "claimed"
    BY <1>1 DEF ReclaimExpired, Expired
  <2> QED BY <2>1, HandBackShape DEF Inv, TypeOK
<1>2. \A s \in Steps : s \notin Expired => job'[s] = job[s] BY DEF ReclaimExpired
<1> QED BY <1>1, <1>2 DEF NoNewClaims

\* A dispatcher that goes on with its job, or with none.
LEMMA HeldGo ==
  ASSUME Held, Inv', NEW p \in Processes, NEW d \in [at : Positions, step : Steps \cup {NoStep},
                                                     verdict : Verdicts \cup {"none", "refused"}],
         disp' = [disp EXCEPT ![p] = d], UNCHANGED proc, NoNewClaims,
         d.step = disp[p].step, d.at # "off", disp[p].at # "off",
         d.at \in {"wait", "drain"} => disp[p].at \in {"wait", "drain"}
  PROVE  Held'
<1>1. disp'[p] = d /\ \A q \in Processes : q # p => disp'[q] = disp[q]
  BY DEF Held, Inv, TypeOK, DispOK
<1>2. \A q \in Processes : Resting(q)' BY <1>1 DEF Held, Resting, Asleep
<1> QED BY <1>1, <1>2, HeldFrame

\* A dispatcher that lays its job down: the job is nobody's then.
LEMMA HeldDone ==
  ASSUME Held, Inv', NEW p \in Processes, disp[p].at # "off", UNCHANGED proc, NoNewClaims,
         disp' = [disp EXCEPT ![p] = [Asleep EXCEPT !.at = "drain"]],
         disp[p].step \in Steps => job'[disp[p].step].state # "claimed" \/ job'[disp[p].step].token # p
  PROVE  Held'
<1>1. /\ disp'[p] = [Asleep EXCEPT !.at = "drain"]
      /\ \A q \in Processes : q # p => disp'[q] = disp[q]
  BY DEF Held, Inv, TypeOK, DispOK
<1>2. disp'[p].step = NoStep /\ disp'[p].at = "drain" BY <1>1 DEF Asleep
<1>3. proc[p] # "new" BY DEF Held, Resting, Asleep
<1>4. \A q \in Processes : Resting(q)' BY <1>1, <1>2, <1>3 DEF Held, Resting
<1>5. ClaimIsWorkedOn'
  <2> SUFFICES ASSUME NEW s \in Steps, NEW q \in Processes,
                      job'[s].state = "claimed", job'[s].token = q, proc'[q] # "dead"
               PROVE  disp'[q].step = s
    BY DEF ClaimIsWorkedOn
  <2>1. disp[q].step = s BY DEF Held, ClaimIsWorkedOn, NoNewClaims
  <2>2. CASE q = p BY <2>1, <2>2
  <2> QED BY <1>1, <2>1, <2>2
<1> QED BY <1>4, <1>5 DEF Held

LEMMA HeldDispatcher ==
  ASSUME Held, Inv', NEW p \in Processes, Dispatcher(p)
  PROVE  Held'
<1> DEFINE d == disp[p]
<1>a. Inv /\ d \in [at : Positions, step : Steps \cup {NoStep},
                    verdict : Verdicts \cup {"none", "refused"}]
  BY DEF Held, Inv, TypeOK, DispOK, Positions
<1>b. UNCHANGED proc
  <2>1. ASSUME NEW s \in Steps, ClaimJob(p, s) PROVE UNCHANGED proc BY <2>1 DEF ClaimJob
  <2>2. ASSUME NEW v \in Verdicts, FinishVerification(p, v) \/ SealFails(p, v)
        PROVE  UNCHANGED proc
    BY <2>2 DEF FinishVerification, SealFails
  <2>3. CASE Poll(p) \/ Sweep(p) \/ Drained(p) \/ RefuseExam(p) \/ RetryLater(p) \/ StartHeartbeat(p)
    BY <2>3 DEF Poll, Sweep, Drained, RefuseExam, RetryLater, StartHeartbeat
  <2>4. CASE \/ NothingToVerify(p) \/ ClaimVerification(p) \/ Bill(p) \/ ProjectVerdict(p)
             \/ FinishJob(p)
    BY <2>4 DEF NothingToVerify, ClaimVerification, Bill, ProjectVerdict, FinishJob
  <2> QED BY <2>1, <2>2, <2>3, <2>4 DEF Dispatcher
<1>c. UNCHANGED job => NoNewClaims BY DEF NoNewClaims
<1>d. disp \in [Processes -> [at : Positions, step : Steps \cup {NoStep},
                    verdict : Verdicts \cup {"none", "refused"}]]
  BY DEF Held, Inv, TypeOK, DispOK, Positions
<1>1. ASSUME NEW w \in Positions, Go(p, w), w # "off", d.at # "off", NoNewClaims,
             w \in {"wait", "drain"} => d.at \in {"wait", "drain"}
      PROVE  Held'
  <2>1. disp' = [disp EXCEPT ![p] = [d EXCEPT !.at = w]] BY <1>1, <1>d DEF Go
  <2>2. /\ [d EXCEPT !.at = w] \in [at : Positions, step : Steps \cup {NoStep},
                                     verdict : Verdicts \cup {"none", "refused"}]
        /\ [d EXCEPT !.at = w].step = d.step /\ [d EXCEPT !.at = w].at = w
    BY <1>a, <1>1
  <2> QED BY <1>b, <1>1, <2>1, <2>2, HeldGo
<1>2. CASE Poll(p) \/ Drained(p) BY <1>1, <1>c, <1>2 DEF Poll, Drained, At, Positions, db
<1>3. CASE Sweep(p) BY <1>1, <1>a, <1>3, ReclaimMakesNoClaim DEF Sweep, At, Positions
<1>4. CASE StartHeartbeat(p) \/ NothingToVerify(p) \/ ClaimVerification(p)
  BY <1>1, <1>c, <1>4 DEF StartHeartbeat, NothingToVerify, ClaimVerification, At, Positions, db
<1>5. CASE Bill(p) \/ ProjectVerdict(p)
  BY <1>1, <1>c, <1>5 DEF Bill, ProjectVerdict, At, Positions, AfterBill
<1>6. ASSUME NEW w \in {"ending", "billing", "projecting"}, NEW v \in Verdicts \cup {"refused"},
             disp' = [disp EXCEPT ![p] = [d EXCEPT !.at = w, !.verdict = v]],
             d.at # "off", UNCHANGED job
      PROVE  Held'
  <2>1. /\ [d EXCEPT !.at = w, !.verdict = v] \in
             [at : Positions, step : Steps \cup {NoStep}, verdict : Verdicts \cup {"none", "refused"}]
        /\ [d EXCEPT !.at = w, !.verdict = v].step = d.step
        /\ [d EXCEPT !.at = w, !.verdict = v].at = w
    BY <1>a DEF Positions
  <2> QED BY <1>b, <1>c, <1>6, <2>1, HeldGo
<1>7. CASE RefuseExam(p)
  <2>1. disp' = [disp EXCEPT ![p] = [d EXCEPT !.at = "ending", !.verdict = "refused"]]
    BY <1>d, <1>7 DEF RefuseExam
  <2> QED BY <1>6, <1>7, <2>1 DEF RefuseExam, At, db
<1>8. ASSUME NEW v \in Verdicts, FinishVerification(p, v) \/ SealFails(p, v) PROVE Held'
  <2>1. \E w \in {"billing", "projecting"} :
          disp' = [disp EXCEPT ![p] = [d EXCEPT !.at = w, !.verdict = v]]
    BY <1>d, <1>8 DEF FinishVerification, SealFails
  <2> QED BY <1>6, <1>8, <2>1 DEF FinishVerification, SealFails, At, db
<1>9. CASE RetryLater(p)
  <2>1. d.step \in Steps BY <1>a, <1>9 DEF RetryLater, At, Inv, Work, Working
  <2>2. CASE Holds(p, d.step)
    <3>1. job' = [job EXCEPT ![d.step] = HandBack(job[d.step], TRUE)]
      BY <1>9, <2>2 DEF RetryLater, SetJob
    <3>2. job[d.step].state = "claimed" BY <2>2 DEF Holds
    <3>3. HandBack(job[d.step], TRUE).state \in {"dead", "retry_wait"}
      BY <1>a, <2>1, <3>2, HandBackShape DEF Inv, TypeOK
    <3>4. job'[d.step].state # "claimed" /\ \A s \in Steps : s # d.step => job'[s] = job[s]
      BY <1>a, <2>1, <3>1, <3>3 DEF Inv, TypeOK, JobOK
    <3> QED BY <1>b, <1>9, <3>4, HeldDone DEF RetryLater, At, NoNewClaims, Holds
  <2>3. CASE ~Holds(p, d.step)
    <3>1. UNCHANGED job BY <1>9, <2>3 DEF RetryLater
    <3> QED BY <1>b, <1>c, <1>9, <2>3, <3>1, HeldDone DEF RetryLater, At, Holds
  <2> QED BY <2>2, <2>3
<1>10. CASE FinishJob(p)
  <2>1. d.step \in Steps BY <1>a, <1>10 DEF FinishJob, At, Inv, Work, Working
  <2>2. CASE Holds(p, d.step)
    <3> DEFINE j == [job[d.step] EXCEPT !.state = JobState(d.verdict),
                                        !.token = NoProcess, !.expired = FALSE]
    <3>1. job' = [job EXCEPT ![d.step] = j] BY <1>10, <2>2 DEF FinishJob, SetJob
    <3>2. j.state # "claimed"
      BY <1>a, <2>1 DEF Inv, TypeOK, JobOK, JobRows, JobState
    <3>4. job'[d.step].state # "claimed" /\ \A s \in Steps : s # d.step => job'[s] = job[s]
      BY <1>a, <2>1, <3>1, <3>2 DEF Inv, TypeOK, JobOK
    <3> QED BY <1>b, <1>10, <3>4, HeldDone DEF FinishJob, At, NoNewClaims, Holds
  <2>3. CASE ~Holds(p, d.step)
    <3>1. UNCHANGED job BY <1>10, <2>3 DEF FinishJob
    <3> QED BY <1>b, <1>c, <1>10, <2>3, <3>1, HeldDone DEF FinishJob, At, Holds
  <2> QED BY <2>2, <2>3
<1>11. ASSUME NEW s \in Steps, ClaimJob(p, s) PROVE Held'
  <2>1. d.at = "drain" /\ d.step = NoStep /\ proc[p] # "new"
    BY <1>11 DEF ClaimJob, At, Held, Resting, Asleep
  <2>2. /\ disp'[p] = [at |-> "claimed", step |-> s, verdict |-> "none"]
        /\ \A q \in Processes : q # p => disp'[q] = disp[q]
    BY <1>d, <1>11 DEF ClaimJob
  <2>3. /\ job'[s].token = p
        /\ \A t \in Steps : t # s => job'[t] = job[t]
    BY <1>a, <1>11 DEF ClaimJob, SetJob, Inv, TypeOK, JobOK, JobRows
  <2>4. \A q \in Processes : Resting(q)' BY <1>b, <2>1, <2>2 DEF Held, Resting
  <2>5. ClaimIsWorkedOn'
    <3> SUFFICES ASSUME NEW t \in Steps, NEW q \in Processes,
                        job'[t].state = "claimed", job'[t].token = q, proc'[q] # "dead"
                 PROVE  disp'[q].step = t
      BY DEF ClaimIsWorkedOn
    <3>1. CASE t = s BY <2>2, <2>3, <3>1
    <3>2. CASE t # s
      <4>1. disp[q].step = t BY <1>b, <2>3, <3>2 DEF Held, ClaimIsWorkedOn
      <4>2. q # p BY <2>1, <4>1, StepAssumption
      <4> QED BY <2>2, <4>1, <4>2
    <3> QED BY <3>1, <3>2
  <2> QED BY <2>4, <2>5 DEF Held
<1> QED BY <1>2, <1>3, <1>4, <1>5, <1>7, <1>8, <1>9, <1>10, <1>11 DEF Dispatcher

LEMMA HeldNext == Held /\ [Next]_vars => Held'
<1> SUFFICES ASSUME Held, [Next]_vars PROVE Held'
  OBVIOUS
<1>a. Inv /\ Inv' BY InvNext DEF Held
<1>b. UNCHANGED job => NoNewClaims BY DEF NoNewClaims
<1>1. ASSUME NEW p \in Processes, Start(p) PROVE Held'
  <2>1. NoNewClaims BY <1>a, <1>1, ReclaimMakesNoClaim DEF Start
  <2>2. disp[p] = Asleep BY <1>1 DEF Start, Held, Resting
  <2>3. /\ disp' = [disp EXCEPT ![p] = [Asleep EXCEPT !.at = "wait"]]
        /\ proc'[p] = "up" /\ \A q \in Processes : q # p => proc'[q] = proc[q]
    BY <1>a, <1>1, <2>2 DEF Start, Inv, TypeOK, DispOK, ProcessesOK
  <2>4. /\ disp'[p] = [Asleep EXCEPT !.at = "wait"]
        /\ \A q \in Processes : q # p => disp'[q] = disp[q]
    BY <1>a, <2>3 DEF Inv, TypeOK, DispOK
  <2>5. disp'[p].step = NoStep /\ disp[p].step = NoStep BY <2>2, <2>4 DEF Asleep
  <2>6. \A q \in Processes : Resting(q)' BY <2>3, <2>4, <2>5 DEF Held, Resting
  <2> QED BY <1>a, <1>1, <2>1, <2>3, <2>4, <2>5, <2>6, HeldFrame DEF Start
<1>2. ASSUME NEW p \in Processes, Die(p) PROVE Held'
  <2>1. /\ proc'[p] = "dead" /\ disp'[p] = Asleep /\ UNCHANGED job
        /\ \A q \in Processes : q # p => disp'[q] = disp[q] /\ proc'[q] = proc[q]
    BY <1>a, <1>2 DEF Die, db, Inv, TypeOK, DispOK, ProcessesOK
  <2>2. \A q \in Processes : Resting(q)' BY <2>1 DEF Held, Resting, Asleep
  <2> QED BY <1>a, <1>b, <2>1, <2>2, HeldFrame
<1>3. ASSUME UNCHANGED <<disp, proc>>, NoNewClaims PROVE Held'
  BY <1>a, <1>3, HeldFrame DEF Held, Resting
<1>4. ASSUME NEW s \in Steps, NEW j, job' = [job EXCEPT ![s] = j], UNCHANGED <<disp, proc>>,
             j.state # "claimed" \/ (j.state = job[s].state /\ j.token = job[s].token)
      PROVE  Held'
  <2>1. \A t \in Steps : job'[t] = IF t = s THEN j ELSE job[t]
    BY <1>a, <1>4 DEF Inv, TypeOK, JobOK
  <2> QED BY <1>3, <1>4, <2>1 DEF NoNewClaims
<1>5. ASSUME NEW s \in Steps, BeginVerifyingStep(s) PROVE Held'
  <2>1. UNCHANGED job \/ job' = [job EXCEPT ![s] = IF job[s] = NoJob THEN [NoJob EXCEPT !.state = "queued"]
                                                   ELSE job[s]]
    BY <1>5 DEF BeginVerifyingStep, SetJob
  <2>2. UNCHANGED <<disp, proc>> BY <1>5 DEF BeginVerifyingStep
  <2>3. [NoJob EXCEPT !.state = "queued"].state # "claimed" BY DEF NoJob
  <2> QED BY <1>3, <1>4, <1>b, <2>1, <2>2, <2>3
<1>6. ASSUME NEW s \in Steps, ManualOverride(s) PROVE Held'
  BY <1>3, <1>b, <1>6 DEF ManualOverride
<1>7. ASSUME NEW s \in Steps, NEW p \in Processes, DeliverStep(s, p) PROVE Held'
  BY <1>3, <1>b, <1>7 DEF DeliverStep
<1>8. ASSUME NEW s \in Steps, LeaseExpires(s) \/ BackoffEnds(s) PROVE Held'
  <2>1. job[s] \in JobRows BY <1>a DEF Inv, TypeOK, JobOK
  <2>2. CASE LeaseExpires(s)
    <3> DEFINE j == [job[s] EXCEPT !.expired = TRUE]
    <3>1. j.state = job[s].state /\ j.token = job[s].token BY <2>1 DEF JobRows
    <3>2. job' = [job EXCEPT ![s] = j] /\ UNCHANGED <<disp, proc>> BY <2>2 DEF LeaseExpires, SetJob
    <3> QED BY <1>4, <3>1, <3>2
  <2>3. CASE BackoffEnds(s)
    <3> DEFINE j == [job[s] EXCEPT !.waiting = FALSE]
    <3>1. j.state = job[s].state /\ j.token = job[s].token BY <2>1 DEF JobRows
    <3>2. job' = [job EXCEPT ![s] = j] /\ UNCHANGED <<disp, proc>> BY <2>3 DEF BackoffEnds, SetJob
    <3> QED BY <1>4, <3>1, <3>2
  <2> QED BY <1>8, <2>2, <2>3
<1>9. ASSUME NEW p \in Processes, Heartbeat(p) PROVE Held'
  <2>1. CASE UNCHANGED job BY <1>3, <1>b, <1>9, <2>1 DEF Heartbeat
  <2>2. CASE SetJob(disp[p].step, [job[disp[p].step] EXCEPT !.expired = FALSE])
    <3> DEFINE s == disp[p].step
               j == [job[s] EXCEPT !.expired = FALSE]
    <3>1. job' = [job EXCEPT ![s] = j] BY <2>2 DEF SetJob
    <3>2. CASE s \in Steps
      <4>1. job[s] \in JobRows BY <1>a, <3>2 DEF Inv, TypeOK, JobOK
      <4>2. j.state = job[s].state /\ j.token = job[s].token BY <4>1 DEF JobRows
      <4> QED BY <1>4, <1>9, <3>1, <3>2, <4>2 DEF Heartbeat
    <3>3. CASE s \notin Steps
      <4>1. job' = job BY <1>a, <3>1, <3>3 DEF Inv, TypeOK, JobOK
      <4> QED BY <2>1, <4>1
    <3> QED BY <3>2, <3>3
  <2> QED BY <1>9, <2>1, <2>2 DEF Heartbeat
<1>10. ASSUME NEW p \in Processes, Dispatcher(p) PROVE Held' BY <1>a, <1>10, HeldDispatcher
<1>11. CASE UNCHANGED vars BY <1>3, <1>b, <1>11 DEF vars, db
<1> QED BY <1>1, <1>2, <1>5, <1>6, <1>7, <1>8, <1>9, <1>10, <1>11 DEF Next

\* A claim of a living process is the job its dispatcher works on: no process
\* ever keeps a job from the others without grading it.
THEOREM ClaimsAreWorkedOn == Spec => []ClaimIsWorkedOn
<1>1. Init => Held
  <2>1. Init => Inv BY InvInit
  <2> QED BY <2>1 DEF Init, Held, ClaimIsWorkedOn, Resting, NoJob, Asleep
<1>2. Held => ClaimIsWorkedOn BY DEF Held
<1> QED BY <1>1, <1>2, HeldNext, PTL DEF Spec

=============================================================================
