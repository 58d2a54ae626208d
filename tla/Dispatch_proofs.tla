---------------------------- MODULE Dispatch_proofs ----------------------------
(***************************************************************************)
(* Proofs about Dispatch, for every set of users, runs, steps and files,   *)
(* every number of slots and every size of the channel: two writers never  *)
(* meet, nobody falls out of the rotation, and nobody gets more slots than *)
(* his share.                                                              *)
(***************************************************************************)
EXTENDS Dispatch, FiniteMath, SequenceTheorems

States == {"new", "pending", "working", "graded", "ended"}

\* Path leases are apart, and whoever works on files holds its lease until it runs out.
Inv ==
  /\ status \in [Steps -> States] /\ held \subseteq Steps /\ outlived \subseteq Steps
  /\ \A s, t \in held : ~Clash(s, t)
  /\ \A s \in Working \ outlived : Files[s] # {} => s \in held

LEMMA InvInit == Init => Inv
BY DEF Init, Inv, States, Working

\* Leases may be dropped of steps that do not work, and steps may stop working.
LEMMA LessPreserves ==
  ASSUME Inv, status' \in [Steps -> States], outlived' = outlived,
         held' \subseteq held, Working' \subseteq Working, held \cap Working' \subseteq held'
  PROVE  Inv'
BY DEF Inv, Working, Clash, SameOwner

\* A lost lease or connection: steps are pending again.
LEMMA ExpireLess ==
  ASSUME Inv, NEW lost, Expire(lost)
  PROVE  status' \in [Steps -> States] /\ Working' \subseteq Working
BY DEF Expire, Inv, States, Working

\* The end of a run lets go of no step that works.
LEMMA KeptEnough ==
  ASSUME Inv, status' \in [Steps -> States]
  PROVE  Kept \subseteq held /\ held \cap Working' \subseteq Kept
BY DEF Kept, Working, StepsOf, Inv

LEMMA TakeEventPreserves == Inv /\ TakeEvent => Inv'
<1> SUFFICES ASSUME Inv, TakeEvent PROVE Inv' OBVIOUS
<1> DEFINE e == chan[1]
           r == RunOf[e.step]
<1>1. PICK skipped \in SUBSET {s \in StepsOf(r) : status[s] \in {"new", "pending"}} :
        status' = [s \in Steps |-> IF s \in skipped THEN "ended" ELSE status[s]]
  BY DEF TakeEvent
<1>2. status' \in [Steps -> States] /\ Working' \subseteq Working
  BY <1>1 DEF Inv, States, Working
<1>3. held' = held \/ held' = {s \in held : RunOf[s] # r} \cup Kept
  BY DEF TakeEvent
<1>4. held' \subseteq held /\ held \cap Working' \subseteq held'
  BY <1>2, <1>3, KeptEnough DEF Inv
<1>5. outlived' = outlived BY DEF TakeEvent, rest
<1> QED BY <1>2, <1>4, <1>5, LessPreserves

LEMMA TickPreserves == Inv /\ Tick => Inv'
<1> SUFFICES ASSUME Inv, Tick PROVE Inv' OBVIOUS
<1>1. PICK lost \in SUBSET Working : Expire(lost) BY DEF Tick
<1>2. held' = Kept /\ outlived' = outlived BY DEF Tick
<1> QED BY <1>1, <1>2, ExpireLess, KeptEnough, LessPreserves DEF Inv

LEMMA RestartPreserves == Inv /\ Restart => Inv'
<1> SUFFICES ASSUME Inv, Restart PROVE Inv' OBVIOUS
<1>1. PICK lost \in SUBSET Working : Expire(lost) BY DEF Restart
<1>2. held' = held /\ outlived' = outlived BY DEF Restart
<1> QED BY <1>1, <1>2, ExpireLess, LessPreserves DEF Inv

\* The paths of a step that is dispatched are free, and its own afterwards.
LEMMA ReservePaths ==
  ASSUME Inv, NEW s \in Steps, Dispatchable(s)
  PROVE  /\ held' \subseteq Steps /\ held \subseteq held'
         /\ \A t, u \in held' : ~Clash(t, u)
         /\ Files[s] # {} => s \in held'
BY DEF Inv, Dispatchable, PathsAreFree, Reserved, Clash, SameOwner

LEMMA DispatchingPreserves == ASSUME Inv, NEW s \in Steps, Dispatching(s) PROVE Inv'
<1>1. CASE RetryLater(s) \/ Send(s)
  <2>1. status' = status /\ held' = held /\ outlived' = outlived
    BY <1>1 DEF RetryLater, Send, db, rest
  <2> QED BY <2>1, LessPreserves DEF Inv, Working
<1>2. CASE SendFails(s)
  <2>1. held' = held /\ outlived' = outlived BY <1>2 DEF SendFails, rest
  <2>2. status' \in [Steps -> States] /\ Working' \subseteq Working
    BY <1>2 DEF SendFails, Inv, States, Working
  <2> QED BY <2>1, <2>2, LessPreserves DEF Inv
<1>3. CASE WaitForApproval(s) \/ FailRejected(s) \/ FailWithoutProvider(s) \/ LeaseLost(s)
  <2>1. Dispatchable(s) /\ outlived' = outlived
    BY <1>3 DEF WaitForApproval, FailRejected, FailWithoutProvider, LeaseLost, rest
  <2>2. status' \in [Steps -> States] /\ Working' \subseteq Working
    BY <1>3 DEF WaitForApproval, FailRejected, FailWithoutProvider, LeaseLost, Inv, States, Working
  <2> QED BY <2>1, <2>2, ReservePaths DEF Inv, Clash, SameOwner
<1>4. CASE Lease(s)
  <2>1. /\ Dispatchable(s) /\ outlived' = outlived \ {s}
        /\ status' = [status EXCEPT ![s] = "working"]
    BY <1>4 DEF Lease
  <2>2. status' \in [Steps -> States] /\ Working' \subseteq Working \cup {s}
    BY <2>1 DEF Inv, States, Working
  <2> QED BY <2>1, <2>2, ReservePaths DEF Inv, Clash, SameOwner
<1> QED BY <1>1, <1>2, <1>3, <1>4 DEF Dispatching

LEMMA StepPreserves ==
  ASSUME Inv, NEW s \in Steps,
         \/ BecomesReady(s) \/ Reports(s) \/ Judge(s) \/ EndWithoutRelease(s)
         \/ \E answer \in {"approved", "rejected"} : Decide(s, answer)
  PROVE  Inv'
<1>1. /\ outlived' = outlived
      /\ \/ held' = held
         \/ held' = held \ {s} /\ s \notin Working'
  BY DEF BecomesReady, Reports, Report, Judge, EndWithoutRelease, Decide, rest, Inv, Working
<1>2. status' \in [Steps -> States] /\ Working' \subseteq Working
  BY DEF BecomesReady, Reports, Report, Judge, EndWithoutRelease, Decide, Inv, States, Working
<1> QED BY <1>1, <1>2, LessPreserves

\* A path lease that runs out under a working step marks it as outlived.
LEMMA PathLeaseEndsPreserves == ASSUME Inv, NEW s \in Steps, PathLeaseEnds(s) PROVE Inv'
BY DEF PathLeaseEnds, Inv, Working, Clash, SameOwner

LEMMA NextPreserves == Inv /\ [Next]_vars => Inv'
<1> SUFFICES ASSUME Inv, [Next]_vars PROVE Inv' OBVIOUS
<1>1. CASE status' = status /\ held' = held /\ outlived' = outlived
  BY <1>1, LessPreserves DEF Inv, Working
<1>2. CASE UNCHANGED vars BY <1>1, <1>2 DEF vars, db, rest
<1>3. CASE Scheduler
  <2>1. CASE Assign \/ NothingAssignable \/ EmitFailed \/ \E s \in Steps : Enqueue(s)
    BY <1>1, <2>1 DEF Assign, NothingAssignable, EmitFailed, Enqueue, db, rest
  <2> QED BY <1>3, <2>1, TakeEventPreserves, TickPreserves, DispatchingPreserves DEF Scheduler
<1>4. CASE Emits BY <1>1, <1>4 DEF Emits, Emit, db, rest
<1>5. CASE \E u \in Users : Connect(u) \/ Disconnect(u)
  BY <1>1, <1>5 DEF Connect, Disconnect, db
<1> QED BY <1>2, <1>3, <1>4, <1>5, RestartPreserves, StepPreserves, PathLeaseEndsPreserves DEF Next

LEMMA InvHolds == Spec => []Inv
BY InvInit, NextPreserves, PTL DEF Spec

\* Steps of one user that work at the same time touch different files, whatever the queue, the
\* approvals, the verdicts, lost leases and restarts did before.
THEOREM WritersNeverMeet == Spec => []WritersAreApart
<1>1. Inv => WritersAreApart
  BY DEF Inv, WritersAreApart, Working, Clash, SameOwner
<1> QED BY <1>1, InvHolds, PTL
----------------------------------------------------------------------------
(* Sequences as queues.                                                    *)

LEMMA AppendPresent ==
  ASSUME NEW S, NEW q \in Seq(S), NEW x \in S
  PROVE  /\ Append(q, x) \in Seq(S)
         /\ \A y : Present(Append(q, x), y) <=> Present(q, y) \/ y = x
         /\ IsInjective(q) /\ ~Present(q, x) => IsInjective(Append(q, x))
<1>1. /\ Append(q, x) \in Seq(S) /\ Len(Append(q, x)) = Len(q) + 1 /\ Len(q) \in Nat
      /\ \A i \in 1 .. Len(q) : Append(q, x)[i] = q[i]
      /\ Append(q, x)[Len(q) + 1] = x
  OBVIOUS
<1>2. ASSUME NEW y PROVE Present(Append(q, x), y) <=> Present(q, y) \/ y = x
  <2>1. Present(q, y) => Present(Append(q, x), y) BY <1>1 DEF Present
  <2>2. y = x => Present(Append(q, x), y) BY <1>1 DEF Present
  <2>3. ASSUME NEW i \in 1 .. Len(q) + 1, Append(q, x)[i] = y PROVE Present(q, y) \/ y = x
    BY <1>1, <2>3 DEF Present
  <2> QED BY <1>1, <2>1, <2>2, <2>3 DEF Present
<1>3. ASSUME IsInjective(q), ~Present(q, x) PROVE IsInjective(Append(q, x))
  <2>1. /\ DOMAIN Append(q, x) = 1 .. Len(q) + 1 /\ DOMAIN q = 1 .. Len(q)
    BY <1>1
  <2>2. \A i \in 1 .. Len(q) : q[i] # x BY <1>3 DEF Present
  <2> QED BY <1>1, <1>3, <2>1, <2>2 DEF IsInjective
<1> QED BY <1>1, <1>2, <1>3

LEMMA AppendNewPresent ==
  ASSUME NEW S, NEW q \in Seq(S), NEW x \in S
  PROVE  /\ AppendNew(q, x) \in Seq(S)
         /\ \A y : Present(AppendNew(q, x), y) <=> Present(q, y) \/ y = x
         /\ IsInjective(q) => IsInjective(AppendNew(q, x))
BY AppendPresent DEF AppendNew

\* What is left when the first one leaves.
LEMMA TailPresent ==
  ASSUME NEW S, NEW q \in Seq(S), q # <<>>
  PROVE  /\ Tail(q) \in Seq(S) /\ Head(q) \in S /\ Present(q, Head(q))
         /\ \A y : Present(Tail(q), y) => Present(q, y)
         /\ \A y : Present(q, y) => y = Head(q) \/ Present(Tail(q), y)
         /\ IsInjective(q) => IsInjective(Tail(q)) /\ ~Present(Tail(q), Head(q))
<1>1. /\ Tail(q) \in Seq(S) /\ Head(q) = q[1] /\ q[1] \in S /\ Len(q) \in Nat /\ Len(q) >= 1
      /\ Len(Tail(q)) = Len(q) - 1
      /\ \A i \in 1 .. Len(q) - 1 : Tail(q)[i] = q[i + 1]
      /\ DOMAIN q = 1 .. Len(q) /\ DOMAIN Tail(q) = 1 .. Len(q) - 1
  OBVIOUS
<1>2. Present(q, Head(q)) BY <1>1 DEF Present
<1>3. \A y : Present(Tail(q), y) => Present(q, y)
  <2> SUFFICES ASSUME NEW y, NEW i \in 1 .. Len(q) - 1, Tail(q)[i] = y PROVE Present(q, y)
    BY <1>1 DEF Present
  <2>1. i + 1 \in 1 .. Len(q) /\ q[i + 1] = y BY <1>1
  <2> QED BY <2>1 DEF Present
<1>4. \A y : Present(q, y) => y = Head(q) \/ Present(Tail(q), y)
  <2> SUFFICES ASSUME NEW y, NEW i \in 1 .. Len(q), q[i] = y, i # 1 PROVE Present(Tail(q), y)
    BY <1>1 DEF Present
  <2>1. i - 1 \in 1 .. Len(q) - 1 BY <1>1
  <2>2. Tail(q)[i - 1] = q[(i - 1) + 1] BY <1>1, <2>1
  <2>3. Tail(q)[i - 1] = y BY <2>2
  <2> QED BY <1>1, <2>1, <2>3 DEF Present
<1>5. ASSUME IsInjective(q) PROVE IsInjective(Tail(q)) /\ ~Present(Tail(q), Head(q))
  <2>1. \A i, j \in 1 .. Len(q) : q[i] = q[j] => i = j BY <1>1, <1>5 DEF IsInjective
  <2>2. \A i, j \in 1 .. Len(q) - 1 : Tail(q)[i] = Tail(q)[j] => i = j
    <3> SUFFICES ASSUME NEW i \in 1 .. Len(q) - 1, NEW j \in 1 .. Len(q) - 1, Tail(q)[i] = Tail(q)[j]
                 PROVE  i = j
      OBVIOUS
    <3>1. i + 1 \in 1 .. Len(q) /\ j + 1 \in 1 .. Len(q) /\ q[i + 1] = q[j + 1] BY <1>1
    <3>2. i + 1 = j + 1 BY <2>1, <3>1
    <3> QED BY <3>2
  <2>3. \A i \in 1 .. Len(q) - 1 : Tail(q)[i] # q[1]
    <3> SUFFICES ASSUME NEW i \in 1 .. Len(q) - 1, Tail(q)[i] = q[1] PROVE FALSE OBVIOUS
    <3>1. i + 1 \in 1 .. Len(q) /\ 1 \in 1 .. Len(q) /\ q[i + 1] = q[1] BY <1>1
    <3>2. i + 1 = 1 BY <2>1, <3>1
    <3> QED BY <3>2
  <2> QED BY <1>1, <2>2, <2>3 DEF IsInjective, Present
<1> QED BY <1>1, <1>2, <1>3, <1>4, <1>5

\* Two queues without a common element, one behind the other.
LEMMA JoinPresent ==
  ASSUME NEW S, NEW p \in Seq(S), NEW q \in Seq(S), IsInjective(p), IsInjective(q),
         \A y : ~(Present(p, y) /\ Present(q, y))
  PROVE  /\ p \o q \in Seq(S) /\ IsInjective(p \o q)
         /\ \A y : Present(p \o q, y) <=> Present(p, y) \/ Present(q, y)
<1>1. /\ p \o q \in Seq(S) /\ Len(p \o q) = Len(p) + Len(q) /\ Len(p) \in Nat /\ Len(q) \in Nat
      /\ \A i \in 1 .. Len(p) + Len(q) : (p \o q)[i] = IF i <= Len(p) THEN p[i] ELSE q[i - Len(p)]
      /\ DOMAIN (p \o q) = 1 .. Len(p) + Len(q) /\ DOMAIN p = 1 .. Len(p) /\ DOMAIN q = 1 .. Len(q)
  BY ConcatProperties, LenProperties
<1> DEFINE r == p \o q
<1> HIDE DEF r
<1>2. ASSUME NEW i \in 1 .. Len(p) + Len(q)
      PROVE  \/ i \in 1 .. Len(p) /\ r[i] = p[i] /\ Present(p, r[i])
             \/ i - Len(p) \in 1 .. Len(q) /\ r[i] = q[i - Len(p)] /\ Present(q, r[i])
  <2>1. CASE i <= Len(p) BY <1>1, <2>1 DEF r, Present
  <2>2. CASE ~(i <= Len(p))
    <3>1. i - Len(p) \in 1 .. Len(q) BY <1>1, <2>2
    <3> QED BY <1>1, <2>2, <3>1 DEF r, Present
  <2> QED BY <2>1, <2>2
<1>3. \A y : Present(r, y) => Present(p, y) \/ Present(q, y)
  BY <1>1, <1>2 DEF Present, r
<1>4. ASSUME NEW y, Present(p, y) \/ Present(q, y) PROVE Present(r, y)
  <2>1. ASSUME NEW i \in 1 .. Len(p), p[i] = y PROVE Present(r, y)
    BY <1>1, <2>1 DEF Present, r
  <2>2. ASSUME NEW i \in 1 .. Len(q), q[i] = y PROVE Present(r, y)
    <3>1. /\ i + Len(p) \in 1 .. Len(p) + Len(q) /\ (i + Len(p)) - Len(p) = i
          /\ ~(i + Len(p) <= Len(p))
      BY <1>1
    <3>2. r[i + Len(p)] = y BY <1>1, <2>2, <3>1 DEF r
    <3> QED BY <1>1, <3>1, <3>2 DEF Present, r
  <2> QED BY <1>4, <2>1, <2>2 DEF Present
<1>5. ASSUME NEW i \in 1 .. Len(p) + Len(q), NEW j \in 1 .. Len(p) + Len(q), r[i] = r[j]
      PROVE  i = j
  <2>1. CASE i \in 1 .. Len(p) /\ j \in 1 .. Len(p) /\ r[i] = p[i] /\ r[j] = p[j]
    BY <1>1, <1>5, <2>1 DEF IsInjective
  <2>2. CASE /\ i - Len(p) \in 1 .. Len(q) /\ j - Len(p) \in 1 .. Len(q)
             /\ r[i] = q[i - Len(p)] /\ r[j] = q[j - Len(p)]
    <3>1. i - Len(p) = j - Len(p) BY <1>1, <1>5, <2>2 DEF IsInjective
    <3> QED BY <1>1, <3>1
  <2> QED BY <1>2, <1>5, <2>1, <2>2
<1> QED BY <1>1, <1>3, <1>4, <1>5 DEF IsInjective, r

----------------------------------------------------------------------------
(* The users who are passed over.                                          *)

\* b[k]: of the first k users, those who go to the back.
Back(b, n) ==
  /\ DOMAIN b = 0 .. n /\ b[0] = <<>>
  /\ \A k \in 1 .. n :
       b[k] = IF HasCapacity(turn[k]) THEN b[k - 1] ELSE Append(b[k - 1], turn[k])

LEMMA BackExists ==
  ASSUME NEW n \in Nat
  PROVE  \E b : Back(b, n)
<1> DEFINE T == {m \in Nat : ~\E b : Back(b, m)}
<1>1. SUFFICES ASSUME T # {} PROVE FALSE OBVIOUS
<1>2. PICK m \in T : \A k \in T : m <= k
  <2>1. T \in SUBSET Nat OBVIOUS
  <2> HIDE DEF T
  <2> QED BY <1>1, <2>1, LeastNumber
<1>3. CASE m = 0
  <2>1. Back([k \in 0 .. 0 |-> <<>>], 0) BY DEF Back
  <2> QED BY <1>2, <1>3, <2>1
<1>4. CASE m # 0
  <2>1. m - 1 \in Nat /\ m - 1 \notin T BY <1>2, <1>4
  <2>2. PICK b : Back(b, m - 1) BY <2>1
  <2> DEFINE c == [k \in 0 .. m |->
                     IF k < m THEN b[k]
                     ELSE IF HasCapacity(turn[m]) THEN b[m - 1] ELSE Append(b[m - 1], turn[m])]
  <2>3. c[0] = <<>> BY <1>4, <2>2 DEF Back
  <2>4. ASSUME NEW k \in 1 .. m
        PROVE  c[k] = IF HasCapacity(turn[k]) THEN c[k - 1] ELSE Append(c[k - 1], turn[k])
    <3>1. c[k - 1] = b[k - 1] BY <2>4
    <3>2. CASE k < m
      <4>1. k \in 1 .. m - 1 /\ c[k] = b[k] BY <3>2
      <4> HIDE DEF c
      <4> QED BY <2>2, <3>1, <4>1 DEF Back
    <3>3. CASE k = m BY <3>1, <3>3
    <3> QED BY <3>2, <3>3
  <2>5. Back(c, m)
    <3>1. DOMAIN c = 0 .. m OBVIOUS
    <3> HIDE DEF c
    <3> QED BY <2>3, <2>4, <3>1 DEF Back
  <2> QED BY <1>2, <2>5
<1> QED BY <1>3, <1>4

\* The definition of SentBack yields such a function.
LEMMA SentBackIsBack ==
  ASSUME NEW n \in Nat
  PROVE  \E b : Back(b, n) /\ SentBack(n) = b[n]
<1> DEFINE Rec(b) == [k \in 0 .. n |->
                        IF k = 0 THEN <<>>
                        ELSE IF HasCapacity(turn[k]) THEN b[k - 1] ELSE Append(b[k - 1], turn[k])]
           B == CHOOSE b : b = Rec(b)
<1>1. PICK b : Back(b, n) BY BackExists
<1>2. \E c : c = Rec(c)
  <2> DEFINE c == [k \in 0 .. n |-> b[k]]
  <2>1. ASSUME NEW k \in 0 .. n PROVE c[k] = Rec(c)[k]
    <3>1. CASE k = 0 BY <1>1, <3>1 DEF Back
    <3>2. CASE k # 0
      <4>1. k \in 1 .. n /\ k - 1 \in 0 .. n BY <3>2
      <4> QED BY <1>1, <3>2, <4>1 DEF Back
    <3> QED BY <3>1, <3>2
  <2>2. c = Rec(c) BY <2>1
  <2> HIDE DEF c, Rec
  <2> QED BY <2>2
<1>3. B = Rec(B)
  <2> HIDE DEF Rec
  <2> QED BY <1>2
<1>4. Back(B, n)
  <2> HIDE DEF B
  <2>1. DOMAIN B = 0 .. n BY <1>3
  <2>2. B[0] = <<>> BY <1>3
  <2>3. ASSUME NEW k \in 1 .. n
        PROVE  B[k] = IF HasCapacity(turn[k]) THEN B[k - 1] ELSE Append(B[k - 1], turn[k])
    <3>1. B[k] = Rec(B)[k] BY <1>3
    <3>2. k \in 0 .. n /\ k # 0 OBVIOUS
    <3> QED BY <3>1, <3>2
  <2> QED BY <2>1, <2>2, <2>3 DEF Back
<1>5. SentBack(n) = B[n] BY DEF SentBack
<1> QED BY <1>4, <1>5

\* Those without a slot, in their order, each once.
LEMMA SentBackFacts ==
  ASSUME turn \in Seq(Users), NEW n \in 0 .. Len(turn)
  PROVE  /\ SentBack(n) \in Seq(Users)
         /\ \A u : Present(SentBack(n), u) <=> \E k \in 1 .. n : turn[k] = u /\ ~HasCapacity(u)
         /\ IsInjective(turn) => IsInjective(SentBack(n))
<1> DEFINE Good(q, k) ==
             /\ q \in Seq(Users)
             /\ \A u : Present(q, u) <=> \E i \in 1 .. k : turn[i] = u /\ ~HasCapacity(u)
             /\ IsInjective(turn) => IsInjective(q)
<1>0. Len(turn) \in Nat /\ DOMAIN turn = 1 .. Len(turn) /\ n \in Nat OBVIOUS
<1>1. PICK b : Back(b, n) /\ SentBack(n) = b[n] BY <1>0, SentBackIsBack
<1> DEFINE T == {k \in 0 .. n : ~Good(b[k], k)}
<1>2. SUFFICES ASSUME T # {} PROVE FALSE
  <2>1. n \notin T => Good(b[n], n) BY <1>0
  <2> HIDE DEF T
  <2> QED BY <1>1, <2>1
<1>3. PICK m \in T : \A k \in T : m <= k
  <2>1. T \in SUBSET Nat BY <1>0
  <2> HIDE DEF T
  <2> QED BY <1>2, <2>1, LeastNumber
<1>4. CASE m = 0
  <2>1. b[0] = <<>> BY <1>1 DEF Back
  <2>2. Good(<<>>, 0) BY DEF Present, IsInjective
  <2> QED BY <1>3, <1>4, <2>1, <2>2
<1>5. CASE m # 0
  <2>1. m \in 1 .. n /\ m - 1 \in 0 .. n /\ m - 1 \notin T
    <3>1. m \in 0 .. n BY <1>3
    <3> HIDE DEF T
    <3> QED BY <1>0, <1>3, <1>5, <3>1
  <2>2. Good(b[m - 1], m - 1) BY <2>1
  <2>3. b[m] = IF HasCapacity(turn[m]) THEN b[m - 1] ELSE Append(b[m - 1], turn[m])
    BY <1>1, <2>1 DEF Back
  <2> DEFINE q == b[m - 1]
             v == turn[m]
  <2>4. v \in Users BY <1>0, <2>1
  <2>5. \A i : i \in 1 .. m <=> i \in 1 .. m - 1 \/ i = m BY <2>1
  <2>6. CASE HasCapacity(v)
    <3>1. b[m] = q BY <2>3, <2>6
    <3>2. Good(q, m) BY <2>2, <2>5, <2>6
    <3> QED BY <1>3, <3>1, <3>2
  <2>7. CASE ~HasCapacity(v)
    <3>1. b[m] = Append(q, v) BY <2>3, <2>7
    <3>2. /\ Append(q, v) \in Seq(Users)
          /\ \A y : Present(Append(q, v), y) <=> Present(q, y) \/ y = v
          /\ IsInjective(q) /\ ~Present(q, v) => IsInjective(Append(q, v))
      <4>1. q \in Seq(Users) BY <2>2
      <4> HIDE DEF q, v
      <4> QED BY <2>4, <4>1, AppendPresent
    <3>3. IsInjective(turn) => ~Present(q, v)
      BY <1>0, <2>1, <2>2 DEF IsInjective
    <3>4. \A u : Present(Append(q, v), u) <=> \E i \in 1 .. m : turn[i] = u /\ ~HasCapacity(u)
      BY <2>2, <2>5, <2>7, <3>2
    <3>5. IsInjective(turn) => IsInjective(Append(q, v)) BY <2>2, <3>2, <3>3
    <3>6. Good(b[m], m)
      <4> HIDE DEF q, v
      <4> QED BY <3>1, <3>2, <3>4, <3>5
    <3> QED BY <1>3, <3>6
  <2> QED BY <2>6, <2>7
<1> QED BY <1>4, <1>5

----------------------------------------------------------------------------
(* The rotation.                                                           *)

QueueTypes == turn \in Seq(Users) /\ ready \in [Users -> Seq(Steps)] /\ enqueued \subseteq Steps

\* Everyone has a turn, and the steps of a queue are those of its user.
Rotation ==
  /\ QueueTypes /\ EveryoneHasATurn
  /\ \A u \in Users : \A s : Present(ready[u], s) => s \in Steps /\ Owner(s) = u

LEMMA OwnerType == ASSUME NEW s \in Steps PROVE Owner(s) \in Users /\ RunOf[s] \in Runs
BY DispatchAssumption DEF Owner

LEMMA RotationKept ==
  ASSUME Rotation, UNCHANGED <<ready, enqueued>>, NEW u \in Users,
         turn' = turn \/ turn' = AppendNew(turn, u)
  PROVE  Rotation'
<1>1. /\ turn' \in Seq(Users) /\ IsInjective(turn') /\ \A v : Present(turn, v) => Present(turn', v)
  BY AppendNewPresent DEF Rotation, QueueTypes, EveryoneHasATurn
<1> QED BY <1>1 DEF Rotation, QueueTypes, EveryoneHasATurn, Queued

LEMMA EnqueueKeeps ==
  ASSUME Rotation, NEW s \in Steps, EnqueueReadyStep(s)
  PROVE  Rotation'
<1> DEFINE o == Owner(s)
<1>0. o \in Users BY OwnerType
<1>1. CASE s \in enqueued BY <1>0, <1>1, RotationKept DEF EnqueueReadyStep
<1>2. CASE s \notin enqueued
  <2>1. /\ enqueued' = enqueued \cup {s} /\ turn' = AppendNew(turn, o)
        /\ ready' = [ready EXCEPT ![o] = Append(@, s)]
    BY <1>2 DEF EnqueueReadyStep, Behind, TakeTurn
  <2>2. /\ ready[o] \in Seq(Steps) /\ ready' \in [Users -> Seq(Steps)]
        /\ ready'[o] = Append(ready[o], s) /\ \A u \in Users : u # o => ready'[u] = ready[u]
    BY <1>0, <2>1 DEF Rotation, QueueTypes
  <2>3. /\ turn' \in Seq(Users) /\ IsInjective(turn') /\ Present(turn', o)
        /\ \A v : Present(turn, v) => Present(turn', v)
    BY <1>0, <2>1, AppendNewPresent DEF Rotation, QueueTypes, EveryoneHasATurn
  <2>4. ~Present(ready[o], s) BY <1>2 DEF Rotation, EveryoneHasATurn, Queued
  <2>5. /\ \A y : Present(ready'[o], y) <=> Present(ready[o], y) \/ y = s
        /\ IsInjective(ready'[o])
    <3>1. IsInjective(ready[o]) BY <1>0 DEF Rotation, EveryoneHasATurn
    <3> QED BY <2>2, <2>4, <3>1, AppendPresent
  <2>6. QueueTypes' BY <2>1, <2>2, <2>3 DEF Rotation, QueueTypes
  <2>7. \A u \in Users : \A t : Present(ready'[u], t) => t \in Steps /\ Owner(t) = u
    BY <2>2, <2>5 DEF Rotation
  <2>8. \A u \in Users : ready'[u] # <<>> => Present(turn', u)
    BY <2>2, <2>3 DEF Rotation, EveryoneHasATurn
  <2>9. \A u \in Users : IsInjective(ready'[u]) BY <2>2, <2>5 DEF Rotation, EveryoneHasATurn
  <2>10. \A t \in Steps : t \in enqueued' <=> Present(ready'[Owner(t)], t)
    <3> SUFFICES ASSUME NEW t \in Steps PROVE t \in enqueued' <=> Present(ready'[Owner(t)], t)
      OBVIOUS
    <3>1. t \in enqueued <=> Present(ready[Owner(t)], t)
      BY DEF Rotation, EveryoneHasATurn, Queued
    <3>2. CASE Owner(t) = o BY <2>1, <2>5, <3>1, <3>2
    <3>3. CASE Owner(t) # o BY <2>1, <2>2, <3>1, <3>3, OwnerType
    <3> QED BY <3>2, <3>3
  <2>11. EveryoneHasATurn' BY <2>3, <2>8, <2>9, <2>10 DEF EveryoneHasATurn, Queued
  <2> QED BY <2>6, <2>7, <2>11 DEF Rotation
<1> QED BY <1>1, <1>2

\* Whoever has steps and a slot and is passed over does not exist: the first such user is served,
\* and goes to the end if there is more; the others before him have no slot, and stay too.
LEMMA AssignKeeps ==
  ASSUME Rotation, NEW n \in 1 .. Len(turn), Assignable(n), \A k \in 1 .. n - 1 : ~Assignable(k),
         NextAssignable(n)
  PROVE  /\ Rotation' /\ turn[n] \in Users /\ Head(ready[turn[n]]) \in Steps
         /\ Owner(Head(ready[turn[n]])) = turn[n]
         /\ Head(ready[turn[n]]) \notin enqueued'
<1> DEFINE u == turn[n]
           h == Head(ready[u])
           after == SubSeq(turn, n + 1, Len(turn))
           back == SentBack(n - 1)
           others == after \o back
<1>1. /\ Len(turn) \in Nat /\ DOMAIN turn = 1 .. Len(turn) /\ n - 1 \in 0 .. Len(turn)
      /\ n \in Nat /\ n <= Len(turn)
      /\ \A k \in 1 .. Len(turn) : turn[k] \in Users
      /\ turn \in Seq(Users)
  BY DEF Rotation, QueueTypes
<1>2. u \in Users /\ ready[u] \in Seq(Steps) /\ ready[u] # <<>>
  BY <1>1 DEF Assignable, Rotation, QueueTypes
<1>3. /\ turn' = (IF Len(ready[u]) > 1 THEN Append(others, u) ELSE others)
      /\ ready' = [ready EXCEPT ![u] = Tail(@)]
      /\ enqueued' = enqueued \ {h}
  BY DEF NextAssignable
<1>4. /\ Tail(ready[u]) \in Seq(Steps) /\ h \in Steps /\ Present(ready[u], h)
      /\ \A y : Present(Tail(ready[u]), y) => Present(ready[u], y)
      /\ \A y : Present(ready[u], y) => y = h \/ Present(Tail(ready[u]), y)
      /\ IsInjective(Tail(ready[u])) /\ ~Present(Tail(ready[u]), h)
  <2>1. IsInjective(ready[u]) BY <1>2 DEF Rotation, EveryoneHasATurn
  <2> HIDE DEF u
  <2> QED BY <1>2, <2>1, TailPresent
<1>5. Owner(h) = u BY <1>2, <1>4 DEF Rotation
<1>6. /\ ready' \in [Users -> Seq(Steps)] /\ ready'[u] = Tail(ready[u])
      /\ \A v \in Users : v # u => ready'[v] = ready[v]
  BY <1>2, <1>3, <1>4 DEF Rotation, QueueTypes
<1>7. /\ after \in Seq(Users) /\ Len(after) = Len(turn) - n
      /\ \A i \in 1 .. Len(turn) - n : after[i] = turn[n + i]
      /\ DOMAIN after = 1 .. Len(turn) - n
  <2>1. n + 1 \in Int /\ Len(turn) \in Int /\ \A i \in n + 1 .. Len(turn) : turn[i] \in Users
    BY <1>1
  <2>2. /\ after \in Seq(Users)
        /\ Len(after) = IF n + 1 <= Len(turn) THEN Len(turn) - (n + 1) + 1 ELSE 0
        /\ \A i \in 1 .. Len(turn) - (n + 1) + 1 : after[i] = turn[n + 1 + i - 1]
    BY <2>1, SubSeqProperties
  <2>3. Len(after) = Len(turn) - n
    <3>1. Len(turn) \in Nat /\ n \in Nat /\ n <= Len(turn) BY <1>1
    <3>2. Len(after) = IF n + 1 <= Len(turn) THEN Len(turn) - (n + 1) + 1 ELSE 0 BY <2>2
    <3> HIDE DEF after
    <3> QED BY <3>1, <3>2
  <2>4. ASSUME NEW i \in 1 .. Len(turn) - n PROVE after[i] = turn[n + i]
    <3>1. n + 1 + i - 1 = n + i /\ i \in 1 .. Len(turn) - (n + 1) + 1 BY <1>1
    <3> HIDE DEF after
    <3> QED BY <2>2, <3>1
  <2>5. DOMAIN after = 1 .. Len(turn) - n
    <3> HIDE DEF after
    <3> QED BY <2>2, <2>3, LenProperties
  <2> QED BY <2>2, <2>3, <2>4, <2>5
<1>8. \A v : Present(after, v) <=> \E k \in n + 1 .. Len(turn) : turn[k] = v
  <2>1. ASSUME NEW v, NEW i \in 1 .. Len(turn) - n, after[i] = v
        PROVE  \E k \in n + 1 .. Len(turn) : turn[k] = v
    <3>1. n + i \in n + 1 .. Len(turn) BY <1>1
    <3>2. turn[n + i] = v
      <4> HIDE DEF after
      <4> QED BY <1>7, <2>1
    <3> QED BY <3>1, <3>2
  <2>2. ASSUME NEW v, NEW k \in n + 1 .. Len(turn), turn[k] = v
        PROVE  Present(after, v)
    <3>1. k - n \in 1 .. Len(turn) - n /\ n + (k - n) = k BY <1>1
    <3>2. after[k - n] = v
      <4> HIDE DEF after
      <4> QED BY <1>7, <2>2, <3>1
    <3> HIDE DEF after
    <3> QED BY <1>7, <3>1, <3>2 DEF Present
  <2> HIDE DEF after
  <2> QED BY <1>7, <2>1, <2>2 DEF Present
<1>9. \A i, j \in 1 .. Len(turn) : turn[i] = turn[j] => i = j
  BY <1>1 DEF Rotation, EveryoneHasATurn, IsInjective
<1>10. IsInjective(after)
  <2> SUFFICES ASSUME NEW i \in 1 .. Len(turn) - n, NEW j \in 1 .. Len(turn) - n, after[i] = after[j]
               PROVE  i = j
    <3> HIDE DEF after
    <3> QED BY <1>7 DEF IsInjective
  <2>1. n + i \in 1 .. Len(turn) /\ n + j \in 1 .. Len(turn) BY <1>1
  <2>3. turn[n + i] = turn[n + j]
    <3> HIDE DEF after
    <3> QED BY <1>7
  <2>2. n + i = n + j BY <1>9, <2>1, <2>3
  <2> QED BY <2>2
<1>11. /\ back \in Seq(Users) /\ IsInjective(back)
       /\ \A v : Present(back, v) <=> \E k \in 1 .. n - 1 : turn[k] = v /\ ~HasCapacity(v)
  BY <1>1, SentBackFacts DEF Rotation, EveryoneHasATurn
<1>12. /\ others \in Seq(Users) /\ IsInjective(others)
       /\ \A v : Present(others, v) <=> Present(after, v) \/ Present(back, v)
  <2>1. \A v : ~(Present(after, v) /\ Present(back, v))
    <3> SUFFICES ASSUME NEW k \in n + 1 .. Len(turn), NEW j \in 1 .. n - 1, turn[k] = turn[j]
                 PROVE  FALSE
      BY <1>8, <1>11
    <3>1. k \in 1 .. Len(turn) /\ j \in 1 .. Len(turn) BY <1>1
    <3>2. k = j BY <1>9, <3>1
    <3> QED BY <3>2
  <2> HIDE DEF after, back
  <2> QED BY <1>7, <1>10, <1>11, <2>1, JoinPresent
<1>13. ~Present(others, u)
  <2> SUFFICES ASSUME NEW k \in 1 .. Len(turn), k # n, turn[k] = turn[n] PROVE FALSE
    <3>1. \A k \in n + 1 .. Len(turn) : k \in 1 .. Len(turn) /\ k # n BY <1>1
    <3>2. \A k \in 1 .. n - 1 : k \in 1 .. Len(turn) /\ k # n BY <1>1
    <3> HIDE DEF others, after, back
    <3> QED BY <1>8, <1>11, <1>12, <3>1, <3>2
  <2> QED BY <1>9
<1>14. /\ turn' \in Seq(Users) /\ IsInjective(turn')
       /\ \A v : Present(others, v) => Present(turn', v)
       /\ Len(ready[u]) > 1 => Present(turn', u)
  <2> HIDE DEF others, u
  <2> QED BY <1>2, <1>3, <1>12, <1>13, AppendPresent
<1>15. ASSUME NEW v \in Users, ready'[v] # <<>> PROVE Present(turn', v)
  <2>1. CASE v = u
    <3>1. Len(ready[u]) > 1
      <4>1. Tail(ready[u]) # <<>> BY <1>6, <1>15, <2>1
      <4> HIDE DEF u
      <4> QED BY <1>2, <4>1
    <3> QED BY <1>14, <2>1, <3>1
  <2>2. CASE v # u
    <3>1. ready[v] # <<>> BY <1>6, <1>15, <2>2
    <3>2. PICK k \in 1 .. Len(turn) : turn[k] = v
      BY <3>1 DEF Rotation, EveryoneHasATurn, Present
    <3>3. k # n BY <2>2, <3>2
    <3>4. CASE k \in n + 1 .. Len(turn) BY <1>8, <1>12, <1>14, <3>2, <3>4
    <3>5. CASE k \in 1 .. n - 1
      <4>1. ~HasCapacity(v) BY <3>1, <3>2, <3>5 DEF Assignable
      <4> QED BY <1>11, <1>12, <1>14, <3>2, <3>5, <4>1
    <3> QED BY <1>1, <3>2, <3>3, <3>4, <3>5
  <2> QED BY <2>1, <2>2
<1>16. \A v \in Users : IsInjective(ready'[v])
  BY <1>4, <1>6 DEF Rotation, EveryoneHasATurn
<1>17. \A v \in Users : \A t : Present(ready'[v], t) => t \in Steps /\ Owner(t) = v
  <2> HIDE DEF u
  <2> QED BY <1>2, <1>4, <1>6 DEF Rotation
<1>18. \A t \in Steps : t \in enqueued' <=> Present(ready'[Owner(t)], t)
  <2> SUFFICES ASSUME NEW t \in Steps PROVE t \in enqueued' <=> Present(ready'[Owner(t)], t)
    OBVIOUS
  <2>1. t \in enqueued <=> Present(ready[Owner(t)], t)
    BY DEF Rotation, EveryoneHasATurn, Queued
  <2> HIDE DEF u, h
  <2>2. CASE Owner(t) = u BY <1>3, <1>4, <1>5, <1>6, <2>1, <2>2
  <2>3. CASE Owner(t) # u BY <1>3, <1>5, <1>6, <2>1, <2>3, OwnerType
  <2> QED BY <2>2, <2>3
<1>19. EveryoneHasATurn' BY <1>14, <1>15, <1>16, <1>18 DEF EveryoneHasATurn, Queued
<1>20. QueueTypes' BY <1>3, <1>6, <1>14 DEF Rotation, QueueTypes
<1> QED BY <1>2, <1>3, <1>4, <1>5, <1>17, <1>19, <1>20 DEF Rotation

LEMMA NothingKeeps ==
  ASSUME Rotation, NothingAssignable
  PROVE  Rotation'
<1> DEFINE n == Len(turn)
<1>1. /\ n \in 0 .. Len(turn) /\ turn \in Seq(Users) /\ turn' = SentBack(n)
      /\ UNCHANGED <<ready, enqueued>>
  BY DEF NothingAssignable, Rotation, QueueTypes
<1>2. /\ turn' \in Seq(Users) /\ IsInjective(turn')
      /\ \A u : Present(turn', u) <=> \E k \in 1 .. n : turn[k] = u /\ ~HasCapacity(u)
  <2> HIDE DEF n
  <2> QED BY <1>1, SentBackFacts DEF Rotation, EveryoneHasATurn
<1>3. ASSUME NEW u \in Users, ready'[u] # <<>> PROVE Present(turn', u)
  <2>1. PICK k \in 1 .. Len(turn) : turn[k] = u
    BY <1>1, <1>3 DEF Rotation, EveryoneHasATurn, Present
  <2>2. ~HasCapacity(u) BY <1>1, <1>3, <2>1 DEF NothingAssignable, Assignable
  <2> QED BY <1>2, <2>1, <2>2
<1> QED BY <1>1, <1>2, <1>3 DEF Rotation, QueueTypes, EveryoneHasATurn, Queued

LEMMA EmptyRotation ==
  ASSUME turn' = <<>>, ready' = [u \in Users |-> <<>>], enqueued' = {}
  PROVE  Rotation'
BY OwnerType DEF Rotation, QueueTypes, EveryoneHasATurn, Queued, Present, IsInjective

----------------------------------------------------------------------------
(* Types, with the rotation: who is assigned comes out of the queues.      *)

\* What the task holds in its hands, and that nobody reports on a step before it is sent.
TaskOK ==
  /\ sched.at \in {"try", "send", "emit"} => sched.step \in Steps
  /\ sched.at = "send" => status[sched.step] = "working"

IInv == TypeOK /\ TaskOK /\ Rotation

Task2 == [at : Points, step : Steps \cup {None}, batch : SUBSET Steps, then : {"idle", "pass"}]

LEMMA IInvInit == Init => IInv
<1> SUFFICES ASSUME Init PROVE IInv OBVIOUS
<1>1. TypeOK
  <2>1. /\ <<>> \in Seq(Users) /\ <<>> \in Seq(Steps) /\ <<>> \in Seq(Event) /\ Len(<<>>) = 0 OBVIOUS
  <2>2. MaxConcurrent \in Nat /\ ChannelSize \in Nat /\ MaxTroubles \in Nat BY DispatchAssumption
  <2>3. sched \in Task2 /\ sched.at = "idle" BY DEF Init, Task, Task2, Points
  <2>4. /\ turn \in Seq(Users) /\ ready \in [Users -> Seq(Steps)] /\ chan \in Seq(Event)
        /\ Len(chan) <= ChannelSize /\ count \in [Users -> 0 .. MaxConcurrent]
    BY <2>1, <2>2 DEF Init
  <2>5. /\ status \in [Steps -> {"new", "pending", "working", "graded", "ended"}]
        /\ approval \in [Steps -> {"none", "pending", "approved", "rejected"}]
    BY DEF Init
  <2>7. troubles \in 0 .. MaxTroubles /\ restarted \in BOOLEAN
    <3>1. troubles = 0 /\ restarted = FALSE BY DEF Init
    <3>2. 0 \in 0 .. MaxTroubles BY <2>2
    <3>3. troubles \in 0 .. MaxTroubles BY <3>1, <3>2, Zenon
    <3> QED BY <3>1, <3>3
  <2>6. /\ held \subseteq Steps /\ outlived \subseteq Steps /\ enqueued \subseteq Steps
        /\ outbox \subseteq Event /\ connected \subseteq Users
    BY DEF Init
  <2> QED BY <2>3, <2>4, <2>5, <2>6, <2>7 DEF TypeOK, Task2
<1>2. TaskOK BY DEF Init, TaskOK, Task
<1>3. Rotation BY OwnerType DEF Init, Rotation, QueueTypes, EveryoneHasATurn, Queued, Present, IsInjective
<1> QED BY <1>1, <1>2, <1>3 DEF IInv

\* The tasks that the operators build.
LEMMA TaskType ==
  ASSUME NEW at \in Points, NEW s \in Steps \cup {None}, sched' = Task(at, s)
  PROVE  sched' \in Task2 /\ sched'.at = at /\ sched'.step = s
BY DEF Task, Task2

LEMMA LoadType ==
  ASSUME NEW batch \in SUBSET Steps, NEW then \in {"idle", "pass"}, Load(batch, then)
  PROVE  sched' \in Task2 /\ sched'.at \in {"load", "idle", "pass"}
BY DEF Task, Task2, Points, Load

LEMMA GotoType ==
  ASSUME TypeOK, NEW point \in {"idle", "pass", "send", "emit"}, Goto(point)
  PROVE  /\ sched' \in Task2 /\ sched'.at = point
         /\ point \in {"send", "emit"} => sched'.step = sched.step
BY DEF Task, Task2, Points, Goto, TypeOK

\* Steps and connections: the scheduler's fields stay.
LEMMA WorldPreserves ==
  ASSUME IInv, UNCHANGED <<turn, ready, enqueued, count, sched>>,
         status' \in [Steps -> States], \A s \in Steps : sched.at = "send" /\ s = sched.step => status'[s] = status[s],
         approval' \in [Steps -> {"none", "pending", "approved", "rejected"}],
         held' \subseteq Steps, outlived' \subseteq Steps, connected' \subseteq Users,
         chan' \in Seq(Event), Len(chan') <= ChannelSize, outbox' \subseteq Event,
         troubles' \in 0 .. MaxTroubles, restarted' \in BOOLEAN
  PROVE  IInv'
<1>1. TypeOK' BY DEF IInv, TypeOK, States
<1>2. TaskOK' BY DEF IInv, TaskOK
<1>3. Rotation' BY DEF IInv, Rotation, QueueTypes, EveryoneHasATurn, Queued
<1> QED BY <1>1, <1>2, <1>3 DEF IInv

LEMMA TroubleType == TypeOK /\ Trouble => troubles' \in 0 .. MaxTroubles
BY DispatchAssumption DEF TypeOK, Trouble

LEMMA StepKeepsTypes ==
  ASSUME IInv, NEW s \in Steps,
         \/ BecomesReady(s) \/ Reports(s) \/ Judge(s) \/ EndWithoutRelease(s)
         \/ \E answer \in {"approved", "rejected"} : Decide(s, answer)
  PROVE  IInv'
<1>1. /\ UNCHANGED <<turn, ready, enqueued, count, sched, connected, outlived, restarted, troubles, chan>>
      /\ held' \subseteq held
  BY DEF BecomesReady, Reports, Report, Judge, EndWithoutRelease, Decide, queues, rest
<1>2. /\ status' \in [Steps -> States]
      /\ approval' \in [Steps -> {"none", "pending", "approved", "rejected"}]
  <2>1. CASE UNCHANGED status /\ \E answer \in {"approved", "rejected"} : Decide(s, answer)
    BY <2>1 DEF Decide, IInv, TypeOK, States
  <2>2. CASE UNCHANGED approval /\ \E v \in States : status' = [status EXCEPT ![s] = v]
    BY <2>2 DEF IInv, TypeOK, States
  <2> QED BY <2>1, <2>2 DEF BecomesReady, Reports, Report, Judge, EndWithoutRelease, Decide, States
<1>3. outbox' \subseteq Event
  BY DEF BecomesReady, Reports, Report, Judge, EndWithoutRelease, Decide, IInv, TypeOK, Event
<1>4. \A t \in Steps : sched.at = "send" /\ t = sched.step => status'[t] = status[t]
  BY DEF BecomesReady, Reports, Report, Judge, EndWithoutRelease, Decide, IInv, TypeOK, TaskOK
<1> QED BY <1>1, <1>2, <1>3, <1>4, WorldPreserves DEF IInv, TypeOK

LEMMA OthersKeepTypes ==
  ASSUME IInv,
         \/ \E s \in Steps : PathLeaseEnds(s)
         \/ \E u \in Users : Connect(u) \/ Disconnect(u)
         \/ Emits \/ UNCHANGED vars
  PROVE  IInv'
<1>1. UNCHANGED <<turn, ready, enqueued, count, sched, status, approval, restarted>>
  BY DEF PathLeaseEnds, Connect, Disconnect, Emits, Emit, vars, queues, rest, db
<1>2. held' \subseteq held /\ outlived' \subseteq Steps /\ connected' \subseteq Users
  BY DEF PathLeaseEnds, Connect, Disconnect, Emits, Emit, vars, rest, db, IInv, TypeOK
<1>3. outbox' \subseteq Event /\ chan' \in Seq(Event) /\ Len(chan') <= ChannelSize
  <2>1. CASE UNCHANGED <<outbox, chan>> BY <2>1 DEF IInv, TypeOK
  <2>2. ASSUME NEW e \in outbox, Emit(e)
        PROVE  outbox' \subseteq Event /\ chan' \in Seq(Event) /\ Len(chan') <= ChannelSize
    <3>1. e \in Event /\ chan \in Seq(Event) /\ Len(chan) < ChannelSize /\ chan' = Append(chan, e)
      BY <2>2 DEF Emit, IInv, TypeOK
    <3>2. chan' \in Seq(Event) /\ Len(chan') = Len(chan) + 1 /\ Len(chan) \in Nat BY <3>1
    <3> QED BY <2>2, <3>1, <3>2, DispatchAssumption DEF Emit, IInv, TypeOK
  <2> QED BY <2>1, <2>2 DEF PathLeaseEnds, Connect, Disconnect, Emits, vars
<1>4. troubles' \in 0 .. MaxTroubles
  BY TroubleType DEF PathLeaseEnds, Connect, Disconnect, Emits, Emit, vars, rest, IInv, TypeOK
<1> QED BY <1>1, <1>2, <1>3, <1>4, WorldPreserves DEF IInv, TypeOK, States

\* What a step of the task has to keep: the types of what it writes, and the rotation.
LEMMA TaskPreserves ==
  ASSUME IInv, Rotation', status' \in [Steps -> States],
         approval' \in [Steps -> {"none", "pending", "approved", "rejected"}],
         held' \subseteq Steps, outlived' \subseteq Steps, count' \in [Users -> 0 .. MaxConcurrent],
         sched' \in Task2, chan' \in Seq(Event), Len(chan') <= ChannelSize,
         outbox' \subseteq Event, connected' \subseteq Users,
         troubles' \in 0 .. MaxTroubles, restarted' \in BOOLEAN,
         sched'.at \in {"try", "send", "emit"} => sched'.step \in Steps,
         sched'.at = "send" => status'[sched'.step] = "working"
  PROVE  IInv'
<1>1. TypeOK' BY DEF Rotation, QueueTypes, TypeOK, States, Task2
<1>2. TaskOK' BY DEF TaskOK
<1> QED BY <1>1, <1>2 DEF IInv

LEMMA CountTypes ==
  ASSUME TypeOK, NEW u \in Users
  PROVE  /\ count[u] \in Nat /\ OneLess(count[u]) \in 0 .. MaxConcurrent
         /\ [count EXCEPT ![u] = OneLess(@)] \in [Users -> 0 .. MaxConcurrent]
         /\ HasCapacity(u) => [count EXCEPT ![u] = @ + 1] \in [Users -> 0 .. MaxConcurrent]
<1>1. MaxConcurrent \in Nat /\ count \in [Users -> 0 .. MaxConcurrent]
  BY DispatchAssumption DEF TypeOK
<1>2. count[u] \in 0 .. MaxConcurrent BY <1>1
<1>3. OneLess(count[u]) \in 0 .. MaxConcurrent BY <1>1, <1>2 DEF OneLess
<1>4. HasCapacity(u) => count[u] + 1 \in 0 .. MaxConcurrent BY <1>1, <1>2 DEF HasCapacity
<1> QED BY <1>1, <1>2, <1>3, <1>4

LEMMA MarkKeeps ==
  ASSUME IInv, NEW u \in Users, MarkStepDone(u), UNCHANGED <<ready, enqueued>>
  PROVE  Rotation' /\ count' \in [Users -> 0 .. MaxConcurrent]
BY RotationKept, CountTypes DEF MarkStepDone, IInv

LEMMA RequeueKeeps ==
  ASSUME IInv, NEW s \in Steps, GiveBackAndRequeue(s)
  PROVE  /\ Rotation' /\ count' \in [Users -> 0 .. MaxConcurrent]
         /\ sched' \in Task2 /\ sched'.at = "idle"
BY EnqueueKeeps, CountTypes, OwnerType, GotoType DEF GiveBackAndRequeue, IInv

LEMMA ExpireType ==
  ASSUME TypeOK, NEW lost, Expire(lost)
  PROVE  status' \in [Steps -> States]
BY DEF Expire, TypeOK, States

LEMMA TakeEventKeepsTypes == IInv /\ TakeEvent => IInv'
<1> SUFFICES ASSUME IInv, TakeEvent PROVE IInv' OBVIOUS
<1> DEFINE e == chan[1]
           r == RunOf[e.step]
<1>1. /\ chan \in Seq(Event) /\ chan # <<>> /\ Len(chan) <= ChannelSize BY DEF TakeEvent, IInv, TypeOK
<1>2. /\ e \in Event /\ Tail(chan) \in Seq(Event) /\ Len(Tail(chan)) <= ChannelSize
  <2>1. /\ e \in Event /\ Tail(chan) \in Seq(Event)
        /\ Len(Tail(chan)) = Len(chan) - 1 /\ Len(chan) \in Nat
    BY <1>1
  <2> QED BY <1>1, <2>1, DispatchAssumption
<1>3. e.step \in Steps /\ r \in Runs /\ UserOf[r] \in Users
  BY <1>2, OwnerType DEF Event, Owner
<1>4. /\ UNCHANGED <<approval, ready, enqueued, outbox, connected, outlived, restarted, troubles>>
      /\ chan' = Tail(chan)
  BY DEF TakeEvent, rest
<1>5. status' \in [Steps -> States]
  <2>1. PICK skipped \in SUBSET Steps :
          status' = [s \in Steps |-> IF s \in skipped THEN "ended" ELSE status[s]]
    BY DEF TakeEvent, StepsOf
  <2> QED BY <2>1 DEF IInv, TypeOK, States
<1>6. Rotation' /\ count' \in [Users -> 0 .. MaxConcurrent] /\ held' \subseteq Steps
  <2>1. CASE UNCHANGED <<turn, count, held>>
    BY <1>3, <1>4, <2>1, RotationKept DEF IInv, TypeOK
  <2>2. CASE MarkStepDone(UserOf[r]) /\ held' = {s \in held : RunOf[s] # r} \cup Kept
    <3>1. held' \subseteq Steps BY <2>2 DEF Kept, IInv, TypeOK
    <3> QED BY <1>3, <1>4, <2>2, <3>1, MarkKeeps
  <2> QED BY <2>1, <2>2 DEF TakeEvent
<1>7. sched' \in Task2 /\ sched'.at \in {"load", "idle", "pass"}
  <2>1. Load({s \in StepsOf(r) : IsReadyNext(s)}, "pass") BY DEF TakeEvent
  <2>2. {s \in StepsOf(r) : IsReadyNext(s)} \in SUBSET Steps BY DEF StepsOf
  <2> QED BY <2>1, <2>2, LoadType
<1> HIDE DEF e, r
<1> QED BY <1>2, <1>4, <1>5, <1>6, <1>7, TaskPreserves DEF IInv, TypeOK

LEMMA TickKeepsTypes == IInv /\ Tick => IInv'
<1> SUFFICES ASSUME IInv, Tick PROVE IInv' OBVIOUS
<1>1. PICK lost \in SUBSET Working : Expire(lost) /\ (UNCHANGED troubles \/ Trouble) BY DEF Tick
<1>2. /\ UNCHANGED <<approval, turn, ready, count, enqueued, chan, outbox, connected, outlived, restarted>>
      /\ held' = Kept
  BY DEF Tick, queues
<1>3. status' \in [Steps -> States] /\ held' \subseteq Steps BY <1>1, <1>2, ExpireType DEF IInv, TypeOK, Kept
<1>4. Rotation' BY <1>2 DEF IInv, Rotation, QueueTypes, EveryoneHasATurn, Queued
<1>5. sched' \in Task2 /\ sched'.at \in {"load", "idle", "pass"}
  <2>1. Load({s \in Steps : IsReadyNext(s)}, "pass") BY DEF Tick
  <2> QED BY <2>1, LoadType
<1>6. troubles' \in 0 .. MaxTroubles BY <1>1, TroubleType DEF IInv, TypeOK
<1> QED BY <1>2, <1>3, <1>4, <1>5, <1>6, TaskPreserves DEF IInv, TypeOK

LEMMA RestartKeepsTypes == IInv /\ Restart => IInv'
<1> SUFFICES ASSUME IInv, Restart PROVE IInv' OBVIOUS
<1>1. PICK lost \in SUBSET Working : Expire(lost) BY DEF Restart
<1>2. /\ UNCHANGED <<approval, held, outlived>> /\ restarted' = TRUE /\ Trouble
      /\ chan' = <<>> /\ outbox' = {} /\ connected' = {}
      /\ count' = [u \in Users |-> 0]
      /\ turn' = <<>> /\ ready' = [u \in Users |-> <<>>] /\ enqueued' = {}
  BY DEF Restart
<1>3. status' \in [Steps -> States] BY <1>1, ExpireType DEF IInv
<1>4. Rotation' BY <1>2, EmptyRotation
<1>5. sched' \in Task2 /\ sched'.at \in {"load", "idle", "pass"}
  <2>1. Load({s \in Steps : IsReadyNext(s)}, "idle") BY DEF Restart
  <2> QED BY <2>1, LoadType
<1>6. troubles' \in 0 .. MaxTroubles BY <1>2, TroubleType DEF IInv
<1>7. chan' \in Seq(Event) /\ Len(chan') <= ChannelSize BY <1>2, DispatchAssumption
<1>8. count' \in [Users -> 0 .. MaxConcurrent]
  <2>1. 0 \in 0 .. MaxConcurrent BY DispatchAssumption
  <2> QED BY <1>2, <2>1
<1> QED BY <1>2, <1>3, <1>4, <1>5, <1>6, <1>7, <1>8, TaskPreserves DEF IInv, TypeOK


LEMMA QueueingKeepsTypes ==
  ASSUME IInv, Assign \/ NothingAssignable \/ EmitFailed \/ \E s \in Steps : Enqueue(s)
  PROVE  IInv'
<1>1. /\ UNCHANGED <<status, approval, held, outbox, connected, outlived, restarted, troubles>>
  BY DEF Assign, NothingAssignable, EmitFailed, Enqueue, db, rest
<1>2. CASE Assign
  <2>1. PICK n \in 1 .. Len(turn) :
          /\ Assignable(n) /\ \A k \in 1 .. n - 1 : ~Assignable(k)
          /\ NextAssignable(n) /\ sched' = Task("try", Head(ready[turn[n]]))
    BY <1>2 DEF Assign
  <2>2. Rotation' /\ turn[n] \in Users /\ Head(ready[turn[n]]) \in Steps
    BY <2>1, AssignKeeps DEF IInv
  <2>3. count' \in [Users -> 0 .. MaxConcurrent]
    BY <2>1, <2>2, CountTypes DEF NextAssignable, Assignable, IInv
  <2>4. sched' \in Task2 /\ sched'.at = "try" /\ sched'.step \in Steps
    BY <2>1, <2>2, TaskType DEF Points
  <2>5. UNCHANGED chan BY <1>2 DEF Assign
  <2> QED BY <1>1, <2>2, <2>3, <2>4, <2>5, TaskPreserves DEF IInv, TypeOK, States
<1>3. CASE NothingAssignable
  <2>1. Rotation' BY <1>3, NothingKeeps DEF IInv
  <2>2. sched' \in Task2 /\ sched'.at = "idle" BY <1>3, GotoType DEF NothingAssignable, IInv
  <2>3. UNCHANGED <<count, chan>> BY <1>3 DEF NothingAssignable
  <2> QED BY <1>1, <2>1, <2>2, <2>3, TaskPreserves DEF IInv, TypeOK, States
<1>4. CASE EmitFailed
  <2>1. UNCHANGED <<turn, ready, count, enqueued>> BY <1>4 DEF EmitFailed, queues
  <2>2. Rotation' BY <2>1 DEF IInv, Rotation, QueueTypes, EveryoneHasATurn, Queued
  <2>3. sched' \in Task2 /\ sched'.at = "pass" BY <1>4, GotoType DEF EmitFailed, IInv
  <2>4. chan' \in Seq(Event) /\ Len(chan') <= ChannelSize
    <3> DEFINE e == [kind |-> "failed", step |-> sched.step]
    <3>1. e \in Event BY <1>4 DEF EmitFailed, At, IInv, TaskOK, Event
    <3>2. chan \in Seq(Event) /\ Len(chan) < ChannelSize /\ chan' = Append(chan, e)
      BY <1>4 DEF EmitFailed, IInv, TypeOK
    <3> HIDE DEF e
    <3>3. chan' \in Seq(Event) /\ Len(chan') = Len(chan) + 1 /\ Len(chan) \in Nat BY <3>1, <3>2
    <3> QED BY <3>2, <3>3, DispatchAssumption
  <2> QED BY <1>1, <2>1, <2>2, <2>3, <2>4, TaskPreserves DEF IInv, TypeOK, States
<1>5. ASSUME NEW s \in Steps, Enqueue(s) PROVE IInv'
  <2>1. Rotation' BY <1>5, EnqueueKeeps DEF Enqueue, IInv
  <2>2. sched' \in Task2 /\ sched'.at \in {"load", "idle", "pass"}
    <3>1. sched.batch \ {s} \in SUBSET Steps /\ sched.then \in {"idle", "pass"}
      BY DEF IInv, TypeOK
    <3> QED BY <1>5, <3>1, LoadType DEF Enqueue
  <2>3. UNCHANGED <<count, chan>> BY <1>5 DEF Enqueue
  <2> QED BY <1>1, <2>1, <2>2, <2>3, TaskPreserves DEF IInv, TypeOK, States
<1> QED BY <1>2, <1>3, <1>4, <1>5

LEMMA DispatchingKeepsTypes ==
  ASSUME IInv, NEW s \in Steps, Dispatching(s)
  PROVE  IInv'
<1>1. UNCHANGED <<chan, outbox, connected, restarted>>
  BY DEF Dispatching, RetryLater, WaitForApproval, FailRejected, FailWithoutProvider, Lease,
         LeaseLost, Send, SendFails, rest
<1>2. held' \subseteq Steps /\ outlived' \subseteq Steps
  BY DEF Dispatching, RetryLater, WaitForApproval, FailRejected, FailWithoutProvider, Lease,
         LeaseLost, Send, SendFails, Dispatchable, Reserved, db, rest, IInv, TypeOK
<1>3. troubles' \in 0 .. MaxTroubles
  BY TroubleType DEF Dispatching, RetryLater, WaitForApproval, FailRejected, FailWithoutProvider,
         Lease, LeaseLost, Send, SendFails, rest, IInv, TypeOK
<1>4. CASE RetryLater(s) \/ LeaseLost(s) \/ SendFails(s)
  <2>1. GiveBackAndRequeue(s) /\ UNCHANGED approval
    BY <1>4 DEF RetryLater, LeaseLost, SendFails, db
  <2>2. status' \in [Steps -> States]
    <3>1. CASE UNCHANGED status BY <3>1 DEF IInv, TypeOK, States
    <3>2. CASE status' = [status EXCEPT ![s] = "pending"] BY <3>2 DEF IInv, TypeOK, States
    <3> QED BY <1>4, <3>1, <3>2 DEF RetryLater, LeaseLost, SendFails, db
  <2>3. /\ Rotation' /\ count' \in [Users -> 0 .. MaxConcurrent]
        /\ sched' \in Task2 /\ sched'.at = "idle"
    BY <2>1, RequeueKeeps
  <2> QED BY <1>1, <1>2, <1>3, <2>1, <2>2, <2>3, TaskPreserves DEF IInv, TypeOK
<1>5. CASE WaitForApproval(s)
  <2>1. MarkStepDone(Owner(s)) /\ UNCHANGED <<status, ready, enqueued>> /\ Goto("idle")
    BY <1>5 DEF WaitForApproval
  <2>2. approval' \in [Steps -> {"none", "pending", "approved", "rejected"}]
    BY <1>5 DEF WaitForApproval, IInv, TypeOK
  <2>3. Rotation' /\ count' \in [Users -> 0 .. MaxConcurrent] BY <2>1, MarkKeeps, OwnerType
  <2>4. sched' \in Task2 /\ sched'.at = "idle" BY <2>1, GotoType DEF IInv
  <2> QED BY <1>1, <1>2, <1>3, <2>1, <2>2, <2>3, <2>4, TaskPreserves DEF IInv, TypeOK, States
<1>6. CASE FailRejected(s) \/ FailWithoutProvider(s) \/ Lease(s) \/ Send(s)
  <2>1. UNCHANGED <<approval, turn, ready, count, enqueued>>
    BY <1>6 DEF FailRejected, FailWithoutProvider, Lease, Send, queues, db
  <2>2. Rotation' BY <2>1 DEF IInv, Rotation, QueueTypes, EveryoneHasATurn, Queued
  <2>3. status' \in [Steps -> States]
    BY <1>6 DEF FailRejected, FailWithoutProvider, Lease, Send, db, IInv, TypeOK, States
  <2>4. \/ Goto("emit") /\ sched.step = s
        \/ Goto("pass")
        \/ Goto("send") /\ sched.step = s /\ status'[s] = "working"
    BY <1>6 DEF FailRejected, FailWithoutProvider, Lease, Send, Dispatchable, Trying, IInv, TypeOK
  <2>5. /\ sched' \in Task2
        /\ sched'.at \in {"try", "send", "emit"} => sched'.step \in Steps
        /\ sched'.at = "send" => status'[sched'.step] = "working"
    BY <2>4, GotoType DEF IInv
  <2> QED BY <1>1, <1>2, <1>3, <2>1, <2>2, <2>3, <2>5, TaskPreserves DEF IInv, TypeOK
<1> QED BY <1>4, <1>5, <1>6 DEF Dispatching

LEMMA NextKeepsTypes == IInv /\ [Next]_vars => IInv'
BY StepKeepsTypes, OthersKeepTypes, TakeEventKeepsTypes, TickKeepsTypes, RestartKeepsTypes,
   QueueingKeepsTypes, DispatchingKeepsTypes
   DEF Next, Scheduler

LEMMA IInvHolds == Spec => []IInv
BY IInvInit, NextKeepsTypes, PTL DEF Spec

\* Every field keeps its type: no queue, slot counter, batch or channel leaves its bounds.
THEOREM TypeCorrect == Spec => []TypeOK
<1>1. IInv => TypeOK BY DEF IInv
<1> QED BY <1>1, IInvHolds, PTL

\* Nobody is forgotten: a user with steps queued has a place in the rotation and only one, a step
\* is queued once, and exactly the steps that are queued are remembered as such; whatever the order
\* of events, assignments that pass users over, retries and restarts.
THEOREM NobodyIsForgotten == Spec => []EveryoneHasATurn
<1>1. IInv => EveryoneHasATurn BY DEF IInv, Rotation
<1> QED BY <1>1, IInvHolds, PTL

----------------------------------------------------------------------------
(* Slots: what a user has under way is never more than its count.          *)

\* The slots of u that are accounted for: steps at work, events of theirs that are still under way,
\* and the step that the task has in its hands.
Counts(e, u) == GivesBack(e) /\ Owner(e.step) = u
Claims(u) ==
  {<<"work", s>> : s \in {t \in Working : Owner(t) = u}}
    \cup {<<"told", e>> : e \in {d \in outbox : Counts(d, u)}}
    \cup {<<"chan", i>> : i \in {j \in 1 .. Len(chan) : Counts(chan[j], u)}}
    \cup {<<"try", x>> : x \in {y \in {sched.step} : sched.at \in {"try", "emit"} /\ Owner(y) = u}}

Covered(C, n) == n \in Nat /\ IsFiniteSet(C) /\ Cardinality(C) <= n
Share == ~restarted => \A u \in Users : Covered(Claims(u), count[u])

\* The same claims or less; one of them is another one now; one is given back; one is new.
LEMMA Less == ASSUME NEW C, NEW n, Covered(C, n), NEW D \in SUBSET C PROVE Covered(D, n)
<1>1. IsFiniteSet(D) /\ Cardinality(D) <= Cardinality(C) BY FS_Subset DEF Covered
<1>2. Cardinality(D) \in Nat /\ Cardinality(C) \in Nat BY <1>1, FS_CardinalityType DEF Covered
<1> QED BY <1>1, <1>2 DEF Covered

LEMMA Without ==
  ASSUME NEW C, NEW n, Covered(C, n), NEW a \in C
  PROVE  n # 0 /\ Covered(C \ {a}, n - 1)
<1>1. IsFiniteSet(C) /\ IsFiniteSet(C \ {a}) /\ Cardinality(C \ {a}) = Cardinality(C) - 1
  BY FS_RemoveElement DEF Covered
<1>2. Cardinality(C) \in Nat /\ Cardinality(C \ {a}) \in Nat BY <1>1, FS_CardinalityType
<1> QED BY <1>1, <1>2 DEF Covered

LEMMA With ==
  ASSUME NEW C, NEW n, Covered(C, n), NEW b
  PROVE  Covered(C \cup {b}, n + 1)
<1>1. /\ IsFiniteSet(C) /\ IsFiniteSet(C \cup {b})
      /\ Cardinality(C \cup {b}) = IF b \in C THEN Cardinality(C) ELSE Cardinality(C) + 1
  BY FS_AddElement DEF Covered
<1>2. Cardinality(C) \in Nat BY <1>1, FS_CardinalityType
<1> QED BY <1>1, <1>2 DEF Covered

LEMMA Moved ==
  ASSUME NEW C, NEW n, Covered(C, n), NEW a \in C, NEW b, NEW D \in SUBSET ((C \ {a}) \cup {b})
  PROVE  Covered(D, n)
<1>1. n # 0 /\ Covered(C \ {a}, n - 1) BY Without
<1>2. Covered((C \ {a}) \cup {b}, (n - 1) + 1) BY <1>1, With
<1>3. (n - 1) + 1 = n BY DEF Covered
<1> QED BY <1>2, <1>3, Less

LEMMA GivenBack ==
  ASSUME NEW C, NEW n, Covered(C, n), NEW a \in C, NEW D \in SUBSET (C \ {a})
  PROVE  Covered(D, OneLess(n))
BY Without, Less DEF OneLess

LEMMA StillCovered ==
  ASSUME NEW C, NEW n, Covered(C, n), NEW D \in SUBSET C
  PROVE  Covered(D, OneLess(n)) \/ Covered(D, n)
BY Less

\* Claims that move to other places, each to its own.
LEMMA Shifted ==
  ASSUME NEW C, NEW n, Covered(C, n), NEW D, NEW f \in [D -> C],
         \A x, y \in D : f[x] = f[y] => x = y
  PROVE  Covered(D, n)
<1>1. f \in Injection(D, C) BY DEF Injection, IsInjective
<1>2. IsFiniteSet(D) /\ Cardinality(D) <= Cardinality(C) BY <1>1, FS_Injection DEF Covered
<1>3. Cardinality(D) \in Nat /\ Cardinality(C) \in Nat BY <1>2, FS_CardinalityType DEF Covered
<1> QED BY <1>2, <1>3 DEF Covered

LEMMA ClaimOf ==
  ASSUME NEW u
  PROVE  /\ \A s : <<"work", s>> \in Claims(u) <=> s \in Working /\ Owner(s) = u
         /\ \A e : <<"told", e>> \in Claims(u) <=> e \in outbox /\ Counts(e, u)
         /\ \A i : <<"chan", i>> \in Claims(u) <=> i \in 1 .. Len(chan) /\ Counts(chan[i], u)
         /\ \A s : <<"try", s>> \in Claims(u)
                     <=> s = sched.step /\ sched.at \in {"try", "emit"} /\ Owner(s) = u
         /\ \A c \in Claims(u) : \/ \E s : c = <<"work", s>>
                                 \/ \E e : c = <<"told", e>>
                                 \/ \E i : c = <<"chan", i>>
                                 \/ \E s : c = <<"try", s>>
BY DEF Claims

\* What is not counted any more is not in the way.
LEMMA FewerClaims ==
  ASSUME Share, UNCHANGED <<count, restarted>>, \A u \in Users : Claims(u)' \subseteq Claims(u)
  PROVE  Share'
<1> SUFFICES ASSUME ~restarted', NEW u \in Users PROVE Covered(Claims(u)', count[u]) BY DEF Share
<1>1. Covered(Claims(u), count[u]) BY DEF Share
<1> QED BY <1>1, Less

LEMMA WorldKeepsShare ==
  ASSUME IInv, Share, NEW s \in Steps,
         \/ BecomesReady(s) \/ Judge(s) \/ EndWithoutRelease(s) \/ PathLeaseEnds(s)
         \/ \E answer \in {"approved", "rejected"} : Decide(s, answer)
  PROVE  Share'
<1>1. UNCHANGED <<count, restarted, chan, sched>>
  BY DEF BecomesReady, Judge, EndWithoutRelease, PathLeaseEnds, Decide, queues, rest
<1>2. Working' \subseteq Working
  BY DEF BecomesReady, Judge, EndWithoutRelease, PathLeaseEnds, Decide, Working, IInv, TypeOK
<1>3. \A e \in outbox' : GivesBack(e) => e \in outbox
  BY DEF BecomesReady, Judge, EndWithoutRelease, PathLeaseEnds, Decide, GivesBack
<1>4. ASSUME NEW u PROVE Claims(u)' \subseteq Claims(u)
  BY <1>1, <1>2, <1>3 DEF Claims, Counts
<1> QED BY <1>1, <1>4, FewerClaims

LEMMA ReportKeepsShare ==
  ASSUME IInv, Share, NEW s \in Steps, NEW kind \in {"delivered", "failed"}, Report(s, kind)
  PROVE  Share'
<1> DEFINE e == [kind |-> kind, step |-> s]
<1>1. UNCHANGED <<count, restarted, chan, sched>> BY DEF Report, queues, rest
<1>2. s \in Working /\ Working' = Working \ {s} /\ outbox' = outbox \cup {e}
  BY DEF Report, Working, IInv, TypeOK
<1>3. e.step = s OBVIOUS
<1> HIDE DEF e
<1>4. ASSUME NEW u \in Users, u # Owner(s) PROVE Claims(u)' \subseteq Claims(u)
  BY <1>1, <1>2, <1>3, <1>4 DEF Claims, Counts
<1>5. ASSUME NEW u \in Users, u = Owner(s)
      PROVE  /\ <<"work", s>> \in Claims(u)
             /\ Claims(u)' \subseteq (Claims(u) \ {<<"work", s>>}) \cup {<<"told", e>>}
  BY <1>1, <1>2, <1>3, <1>5 DEF Claims, Counts
<1> SUFFICES ASSUME ~restarted', NEW u \in Users PROVE Covered(Claims(u)', count[u])
  BY <1>1 DEF Share
<1>6. Covered(Claims(u), count[u]) BY <1>1 DEF Share
<1> QED BY <1>4, <1>5, <1>6, Less, Moved

LEMMA EmitKeepsShare ==
  ASSUME IInv, Share, NEW e \in outbox, Emit(e)
  PROVE  Share'
<1> DEFINE n == Len(chan) + 1
<1>1. UNCHANGED <<count, restarted, status, sched>> BY DEF Emit, queues, db, rest
<1>2. chan \in Seq(Event) /\ e \in Event /\ chan' = Append(chan, e) /\ outbox' = outbox \ {e}
  BY DEF Emit, IInv, TypeOK
<1>3. /\ Len(chan') = n /\ chan'[n] = e /\ n \notin 1 .. Len(chan)
      /\ \A i \in 1 .. n : i = n \/ (i \in 1 .. Len(chan) /\ chan'[i] = chan[i])
  BY <1>2
<1> HIDE DEF n
<1>4. ASSUME NEW u \in Users, ~Counts(e, u) PROVE Claims(u)' \subseteq Claims(u)
  BY <1>1, <1>2, <1>3, <1>4 DEF Claims, Counts, Working
<1>5. ASSUME NEW u \in Users, Counts(e, u)
      PROVE  /\ <<"told", e>> \in Claims(u)
             /\ Claims(u)' \subseteq (Claims(u) \ {<<"told", e>>}) \cup {<<"chan", n>>}
  BY <1>1, <1>2, <1>3, <1>5 DEF Claims, Counts, Working
<1> SUFFICES ASSUME ~restarted', NEW u \in Users PROVE Covered(Claims(u)', count[u])
  BY <1>1 DEF Share
<1>6. Covered(Claims(u), count[u]) BY <1>1 DEF Share
<1> QED BY <1>4, <1>5, <1>6, Less, Moved

LEMMA EmitFailedKeepsShare == IInv /\ Share /\ EmitFailed => Share'
<1> SUFFICES ASSUME IInv, Share, EmitFailed PROVE Share' OBVIOUS
<1> DEFINE s == sched.step
           e == [kind |-> "failed", step |-> s]
           n == Len(chan) + 1
<1>1. UNCHANGED <<count, restarted, status, outbox>> BY DEF EmitFailed, queues, db, rest
<1>2. /\ chan \in Seq(Event) /\ s \in Steps /\ e \in Event /\ e.step = s /\ chan' = Append(chan, e)
      /\ sched.at = "emit" /\ sched'.at = "pass"
  BY DEF EmitFailed, IInv, TypeOK, TaskOK, Event, At, Goto, Task
<1>3. /\ Len(chan') = n /\ chan'[n] = e
      /\ \A i \in 1 .. n : i = n \/ (i \in 1 .. Len(chan) /\ chan'[i] = chan[i])
  <2> HIDE DEF e
  <2> QED BY <1>2
<1> HIDE DEF n, e
<1>4. ASSUME NEW u \in Users, u # Owner(s) PROVE Claims(u)' \subseteq Claims(u)
  BY <1>1, <1>2, <1>3, <1>4 DEF Claims, Counts, Working
<1>5. ASSUME NEW u \in Users, u = Owner(s)
      PROVE  /\ <<"try", s>> \in Claims(u)
             /\ Claims(u)' \subseteq (Claims(u) \ {<<"try", s>>}) \cup {<<"chan", n>>}
  BY <1>1, <1>2, <1>3, <1>5 DEF Claims, Counts, Working
<1> SUFFICES ASSUME ~restarted', NEW u \in Users PROVE Covered(Claims(u)', count[u])
  BY <1>1 DEF Share
<1>6. Covered(Claims(u), count[u]) BY <1>1 DEF Share
<1> HIDE DEF s
<1>7. CASE u = Owner(s) BY <1>5, <1>6, <1>7, Moved
<1>8. CASE u # Owner(s) BY <1>4, <1>6, <1>8, Less
<1> QED BY <1>7, <1>8

\* Ticks, queueing, and a pass that finds nobody: at most less is under way.
LEMMA QueueingKeepsShare ==
  ASSUME IInv, Share, Tick \/ NothingAssignable \/ \E s \in Steps : Enqueue(s)
  PROVE  Share'
<1>1. UNCHANGED <<count, restarted, chan, outbox>>
  BY DEF Tick, NothingAssignable, Enqueue, queues, rest
<1>2. Working' \subseteq Working
  <2>1. CASE UNCHANGED status BY <2>1 DEF Working
  <2>2. ASSUME NEW lost, Expire(lost) PROVE Working' \subseteq Working
    BY <2>2 DEF Expire, Working
  <2> QED BY <2>1, <2>2 DEF Tick, NothingAssignable, Enqueue, db
<1>3. sched'.at \notin {"try", "emit"}
  BY DEF Tick, NothingAssignable, Enqueue, Load, Goto, Task, IInv, TypeOK
<1>4. ASSUME NEW u PROVE Claims(u)' \subseteq Claims(u)
  BY <1>1, <1>2, <1>3 DEF Claims, Counts
<1> QED BY <1>1, <1>4, FewerClaims

LEMMA AssignKeepsShare == IInv /\ Share /\ Assign => Share'
<1> SUFFICES ASSUME IInv, Share, Assign PROVE Share' OBVIOUS
<1>1. PICK n \in 1 .. Len(turn) :
        /\ Assignable(n) /\ \A k \in 1 .. n - 1 : ~Assignable(k)
        /\ NextAssignable(n) /\ sched' = Task("try", Head(ready[turn[n]]))
  BY DEF Assign
<1>2. PICK o \in Users, s \in Steps : o = turn[n] /\ s = Head(ready[o]) /\ Owner(s) = o
  BY <1>1, AssignKeeps DEF IInv
<1>3. UNCHANGED <<restarted, status, outbox, chan>> BY DEF Assign, db, rest
<1>4. sched'.at = "try" /\ sched'.step = s BY <1>1, <1>2 DEF Task
<1>5. count' = [count EXCEPT ![o] = @ + 1] BY <1>1, <1>2 DEF NextAssignable
<1>6. ASSUME NEW u \in Users, u # o PROVE Claims(u)' \subseteq Claims(u) /\ count'[u] = count[u]
  <2>1. Claims(u)' \subseteq Claims(u) BY <1>2, <1>3, <1>4, <1>6 DEF Claims, Counts, Working
  <2> QED BY <1>5, <1>6, <2>1 DEF IInv, TypeOK
<1>7. /\ Claims(o)' \subseteq Claims(o) \cup {<<"try", s>>} /\ count'[o] = count[o] + 1
  <2>1. Claims(o)' \subseteq Claims(o) \cup {<<"try", s>>}
    <3>1. ASSUME NEW c \in Claims(o)' PROVE c \in Claims(o) \/ c = <<"try", s>>
      BY <1>3, <1>4 DEF Claims, Counts, Working
    <3> QED BY <3>1
  <2> QED BY <1>2, <1>5, <2>1 DEF IInv, TypeOK
<1> SUFFICES ASSUME ~restarted', NEW u \in Users PROVE Covered(Claims(u)', count'[u]) BY DEF Share
<1>8. Covered(Claims(u), count[u]) BY <1>3 DEF Share
<1>9. CASE u = o
  <2>1. Covered(Claims(o) \cup {<<"try", s>>}, count[o] + 1) BY <1>8, <1>9, With
  <2>2. Claims(o)' \in SUBSET (Claims(o) \cup {<<"try", s>>}) BY <1>7
  <2>3. Covered(Claims(o)', count[o] + 1) BY <2>1, <2>2, Less
  <2> QED BY <1>7, <1>9, <2>3
<1> QED BY <1>6, <1>8, <1>9, Less

\* A slot is given back for a claim that ends.
LEMMA SlotGivenBack ==
  ASSUME IInv, Share, NEW o \in Users, count' = [count EXCEPT ![o] = OneLess(@)],
         UNCHANGED restarted, NEW a \in Claims(o), Claims(o)' \subseteq Claims(o) \ {a},
         \A u \in Users : u # o => Claims(u)' \subseteq Claims(u)
  PROVE  Share'
<1> SUFFICES ASSUME ~restarted', NEW u \in Users PROVE Covered(Claims(u)', count'[u]) BY DEF Share
<1>1. Covered(Claims(u), count[u]) BY DEF Share
<1>2. count'[u] = IF u = o THEN OneLess(count[u]) ELSE count[u] BY DEF IInv, TypeOK
<1>3. CASE u = o
  <2>1. Claims(u)' \in SUBSET (Claims(u) \ {a}) BY <1>3
  <2>2. a \in Claims(u) BY <1>3
  <2>3. Covered(Claims(u)', OneLess(count[u])) BY <1>1, <2>1, <2>2, GivenBack
  <2> QED BY <1>2, <1>3, <2>3
<1>4. CASE u # o BY <1>1, <1>2, <1>4, Less
<1> QED BY <1>3, <1>4

LEMMA DispatchingKeepsShare ==
  ASSUME IInv, Share, NEW s \in Steps, Dispatching(s)
  PROVE  Share'
<1>1. UNCHANGED <<chan, outbox, restarted>> /\ s = sched.step
  BY DEF Dispatching, RetryLater, WaitForApproval, FailRejected, FailWithoutProvider, Lease,
         LeaseLost, Send, SendFails, Dispatchable, Trying, rest
<1>2. PICK o \in Users : o = Owner(s) BY OwnerType
<1>3. CASE RetryLater(s) \/ LeaseLost(s) \/ WaitForApproval(s)
  <2>1. /\ sched.at = "try" /\ sched'.at = "idle" /\ UNCHANGED status
        /\ count' = [count EXCEPT ![o] = OneLess(@)]
    BY <1>2, <1>3 DEF RetryLater, LeaseLost, WaitForApproval, Dispatchable, Trying, At,
                      GiveBackAndRequeue, MarkStepDone, Goto, Task, db
  <2>2. /\ <<"try", s>> \in Claims(o)
        /\ Claims(o)' \subseteq Claims(o) \ {<<"try", s>>}
    BY <1>1, <1>2, <2>1 DEF Claims, Counts, Working
  <2>3. ASSUME NEW u \in Users PROVE Claims(u)' \subseteq Claims(u)
    BY <1>1, <2>1 DEF Claims, Counts, Working
  <2> QED BY <1>1, <2>1, <2>2, <2>3, SlotGivenBack
<1>4. CASE SendFails(s)
  <2>1. /\ sched.at = "send" /\ sched'.at = "idle" /\ s \in Working /\ Working' = Working \ {s}
        /\ count' = [count EXCEPT ![o] = OneLess(@)]
    BY <1>1, <1>2, <1>4 DEF SendFails, At, GiveBackAndRequeue, Goto, Task, Working, IInv, TaskOK, TypeOK
  <2>2. /\ <<"work", s>> \in Claims(o)
        /\ Claims(o)' \subseteq Claims(o) \ {<<"work", s>>}
    BY <1>1, <1>2, <2>1 DEF Claims, Counts
  <2>3. ASSUME NEW u \in Users PROVE Claims(u)' \subseteq Claims(u)
    BY <1>1, <2>1 DEF Claims, Counts
  <2> QED BY <1>1, <2>1, <2>2, <2>3, SlotGivenBack
<1>5. CASE FailRejected(s) \/ FailWithoutProvider(s) \/ Send(s)
  <2>1. UNCHANGED count /\ Working' \subseteq Working
    BY <1>5 DEF FailRejected, FailWithoutProvider, Send, queues, db, Working, IInv, TypeOK
  <2>2. \/ sched'.at = "pass"
        \/ sched.at = "try" /\ sched'.at = "emit" /\ sched'.step = sched.step
    BY <1>5 DEF FailRejected, FailWithoutProvider, Send, Dispatchable, Trying, At, Goto, Task
  <2>3. ASSUME NEW u \in Users PROVE Claims(u)' \subseteq Claims(u)
    BY <1>1, <2>1, <2>2 DEF Claims, Counts
  <2> QED BY <1>1, <2>1, <2>3, FewerClaims
<1>6. CASE Lease(s)
  <2>1. /\ sched.at = "try" /\ sched'.at = "send" /\ Working' = Working \cup {s} /\ UNCHANGED count
    BY <1>6 DEF Lease, Dispatchable, Trying, At, Goto, Task, queues, Working, IInv, TypeOK
  <2>2. /\ <<"try", s>> \in Claims(o)
        /\ Claims(o)' \subseteq (Claims(o) \ {<<"try", s>>}) \cup {<<"work", s>>}
    BY <1>1, <1>2, <2>1 DEF Claims, Counts
  <2>3. ASSUME NEW u \in Users, u # o PROVE Claims(u)' \subseteq Claims(u)
    BY <1>1, <1>2, <2>1, <2>3 DEF Claims, Counts
  <2> SUFFICES ASSUME ~restarted', NEW u \in Users PROVE Covered(Claims(u)', count[u])
    BY <2>1 DEF Share
  <2>4. Covered(Claims(u), count[u]) BY <1>1 DEF Share
  <2>5. CASE u = o
    <3>1. /\ <<"try", s>> \in Claims(u)
          /\ Claims(u)' \in SUBSET ((Claims(u) \ {<<"try", s>>}) \cup {<<"work", s>>})
      BY <2>2, <2>5
    <3> QED BY <2>4, <3>1, Moved
  <2>6. CASE u # o BY <2>3, <2>4, <2>6, Less
  <2> QED BY <2>5, <2>6
<1> QED BY <1>3, <1>4, <1>5, <1>6 DEF Dispatching

\* An event that is taken: the others move up, and if it gives back a slot, its claim ends.
LEMMA TakeEventKeepsShare == IInv /\ Share /\ TakeEvent => Share'
<1> SUFFICES ASSUME IInv, Share, TakeEvent PROVE Share' OBVIOUS
<1>1. /\ chan \in Seq(Event) /\ chan # <<>> /\ chan' = Tail(chan)
      /\ UNCHANGED <<outbox, restarted>>
  BY DEF TakeEvent, rest, IInv, TypeOK
<1>2. PICK e \in Event : e = chan[1] BY <1>1
<1>3. e.step \in Steps BY DEF Event
<1>4. PICK o \in Users : o = Owner(e.step) BY <1>3, OwnerType
<1>5. Working' \subseteq Working
  <2>1. PICK skipped \in SUBSET Steps :
          status' = [s \in Steps |-> IF s \in skipped THEN "ended" ELSE status[s]]
    BY DEF TakeEvent, StepsOf
  <2> QED BY <2>1 DEF Working
<1>6. sched'.at \in {"load", "pass"} BY DEF TakeEvent, Load, Task
<1>7. /\ Len(chan) \in Nat /\ Len(chan') = Len(chan) - 1 /\ 1 \in 1 .. Len(chan)
      /\ \A i \in 1 .. Len(chan) - 1 : i + 1 \in 2 .. Len(chan) /\ chan'[i] = chan[i + 1]
  BY <1>1
<1>8. IF GivesBack(e) THEN count' = [count EXCEPT ![o] = OneLess(@)] ELSE UNCHANGED count
  BY <1>2, <1>4 DEF TakeEvent, MarkStepDone, Owner
<1> SUFFICES ASSUME ~restarted', NEW u \in Users PROVE Covered(Claims(u)', count'[u]) BY DEF Share
<1>9. Covered(Claims(u), count[u]) BY <1>1 DEF Share
<1> DEFINE D == Claims(u)'
           C == Claims(u) \ {<<"chan", 1>>}
           f == [c \in D |-> IF c[1] = "chan" THEN <<"chan", c[2] + 1>> ELSE c]
<1>10. ASSUME NEW c \in D
       PROVE  \/ c[1] # "chan" /\ c \in C
              \/ \E i \in 1 .. Len(chan) - 1 : c = <<"chan", i>> /\ <<"chan", i + 1>> \in C
  BY <1>1, <1>5, <1>6, <1>7 DEF Claims, Counts
<1>11. f \in [D -> C]
  <2> HIDE DEF C, D
  <2>1. ASSUME NEW c \in D PROVE f[c] \in C
    <3>1. CASE c[1] # "chan"
      <4>1. c \in C
        <5>1. ASSUME NEW i, c = <<"chan", i>> PROVE FALSE BY <3>1, <5>1
        <5> QED BY <1>10, <5>1
      <4>2. f[c] = c BY <3>1
      <4> HIDE DEF f
      <4> QED BY <4>1, <4>2
    <3>2. CASE c[1] = "chan"
      <4>1. PICK i \in 1 .. Len(chan) - 1 : c = <<"chan", i>> /\ <<"chan", i + 1>> \in C
        BY <1>10, <3>2
      <4> QED BY <4>1
    <3> QED BY <3>1, <3>2
  <2> QED BY <2>1
<1>12. \A x, y \in D : f[x] = f[y] => x = y
  <2> HIDE DEF C, D
  <2> SUFFICES ASSUME NEW x \in D, NEW y \in D, f[x] = f[y] PROVE x = y OBVIOUS
  <2>1. CASE x[1] # "chan" BY <1>10, <2>1
  <2>2. CASE y[1] # "chan" BY <1>10, <2>2
  <2>3. CASE x[1] = "chan" /\ y[1] = "chan"
    <3>1. PICK i \in 1 .. Len(chan) - 1 : x = <<"chan", i>> BY <1>10, <2>3
    <3>2. PICK j \in 1 .. Len(chan) - 1 : y = <<"chan", j>> BY <1>10, <2>3
    <3>3. i + 1 = j + 1 BY <3>1, <3>2
    <3> QED BY <1>7, <3>1, <3>2, <3>3
  <2> QED BY <2>1, <2>2, <2>3
<1>13. ASSUME NEW n, Covered(C, n) PROVE Covered(D, n)
  <2> HIDE DEF C, D, f
  <2> QED BY <1>11, <1>12, <1>13, Shifted
<1>14. count'[u] = IF GivesBack(e) /\ u = o THEN OneLess(count[u]) ELSE count[u]
  BY <1>8 DEF IInv, TypeOK
<1>15. CASE GivesBack(e) /\ u = o
  <2>1. <<"chan", 1>> \in Claims(u) BY <1>2, <1>4, <1>7, <1>15 DEF Claims, Counts
  <2>2. Covered(C, OneLess(count[u])) BY <1>9, <2>1, GivenBack
  <2> QED BY <1>13, <1>14, <1>15, <2>2
<1>16. CASE ~(GivesBack(e) /\ u = o)
  <2>1. Covered(C, count[u]) BY <1>9, Less
  <2> QED BY <1>13, <1>14, <1>16, <2>1
<1> QED BY <1>15, <1>16

LEMMA NextKeepsShare == IInv /\ Share /\ [Next]_vars => Share'
<1> SUFFICES ASSUME IInv, Share, [Next]_vars PROVE Share' OBVIOUS
<1>1. CASE Restart BY <1>1 DEF Restart, Share
<1>2. CASE UNCHANGED <<count, restarted, status, outbox, chan, sched>>
  <2>1. \A u \in Users : Claims(u)' \subseteq Claims(u) BY <1>2 DEF Claims, Counts, Working
  <2> QED BY <1>2, <2>1, FewerClaims
<1>3. CASE UNCHANGED vars BY <1>2, <1>3 DEF vars, queues, db, rest
<1>4. CASE Scheduler
  BY <1>4, TakeEventKeepsShare, QueueingKeepsShare, AssignKeepsShare, EmitFailedKeepsShare,
     DispatchingKeepsShare DEF Scheduler
<1>5. CASE Emits BY <1>5, EmitKeepsShare DEF Emits
<1>6. CASE \E u \in Users : Connect(u) \/ Disconnect(u)
  BY <1>2, <1>6 DEF Connect, Disconnect, queues, db
<1>7. CASE \E s \in Steps : \/ BecomesReady(s) \/ Reports(s) \/ Judge(s)
                            \/ EndWithoutRelease(s) \/ PathLeaseEnds(s)
                            \/ \E answer \in {"approved", "rejected"} : Decide(s, answer)
  BY <1>7, WorldKeepsShare, ReportKeepsShare DEF Reports
<1> QED BY <1>1, <1>3, <1>4, <1>5, <1>6, <1>7 DEF Next

LEMMA InitShare == Init => Share
<1> SUFFICES ASSUME Init, NEW u \in Users PROVE Covered(Claims(u), count[u]) BY DEF Share
<1>1. Claims(u) = {}
  <2>1. sched.at = "idle" /\ outbox = {} /\ Working = {} /\ 1 .. Len(chan) = {}
    BY DEF Init, Task, Working
  <2> QED BY <2>1 DEF Claims
<1>2. count[u] = 0 BY DEF Init
<1> QED BY <1>1, <1>2, FS_EmptySet DEF Covered

\* The slots are kept: until a restart forgets who is at work, no user has more steps at work than
\* slots, however events wait, channels fill, leases are lost and failures are told.
THEOREM SlotsAreKept == Spec => []WithinShare
<1>1. IInv /\ Share => WithinShare
  <2> SUFFICES ASSUME IInv, Share, ~restarted, NEW u \in Users
               PROVE  Cardinality({s \in Working : Owner(s) = u}) <= MaxConcurrent
    BY DEF WithinShare
  <2> DEFINE D == {s \in Working : Owner(s) = u}
             f == [s \in D |-> <<"work", s>>]
  <2>1. Covered(Claims(u), count[u]) BY DEF Share
  <2>2. \A s \in D : <<"work", s>> \in Claims(u) BY DEF Claims
  <2>3. Covered(D, count[u])
    <3>1. f \in [D -> Claims(u)] /\ \A x, y \in D : f[x] = f[y] => x = y
      <4> HIDE DEF D
      <4> QED BY <2>2
    <3> HIDE DEF f, D
    <3> QED BY <2>1, <3>1, Shifted
  <2>4. count[u] \in 0 .. MaxConcurrent BY DEF IInv, TypeOK
  <2>5. Cardinality(D) \in Nat
    <3> HIDE DEF D
    <3> QED BY <2>3, FS_CardinalityType DEF Covered
  <2> HIDE DEF D
  <2>6. Cardinality(D) <= MaxConcurrent BY <2>3, <2>4, <2>5, DispatchAssumption DEF Covered
  <2> QED BY <2>6 DEF D
<1> QED BY <1>1, IInvInit, NextKeepsTypes, InitShare, NextKeepsShare, PTL DEF Spec
=============================================================================
