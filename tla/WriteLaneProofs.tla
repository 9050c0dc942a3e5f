-------------------------- MODULE WriteLaneProofs ---------------------------
(***************************************************************************)
(* Facts about the jobs of a handler, about steps that leave part of the   *)
(* write plane alone, and about the commits that move a lane.              *)
(***************************************************************************)
EXTENDS WriteAgreement, TLAPS, FiniteSetTheorems

USE Zenon

-----------------------------------------------------------------------------
(***************************************************************************)
(* Jobs.                                                                   *)
(***************************************************************************)

\* Single jobs of each kind are plain.
LEMMA PlainLaneJob ==
    ASSUME NEW op \in LaneOps, NEW arg \in LaneArgs, NEW done \in SUBSET LaneKeys
    PROVE  [op |-> op, arg |-> arg, done |-> done] \in PlainJobs
BY DEF Jobs, LaneOps, PlainJobs

\* The jobs that concern one write are plain; one that calls the write
\* unroutable needs a plan that names no relay.
LEMMA PlainIntentJob ==
    ASSUME NEW op \in IntentOps, NEW i \in Intents,
           op = "unroutable" => Plan[i] = {}
    PROVE  IntentJob(op, i) \in PlainJobs
BY DEF Jobs, IntentJob, IntentOps, PlainJobs

\* The two halves of schedule_ready are plain jobs.
LEMMA PlainSchedule == Schedule \in Seq(PlainJobs)
<1>1. LaneJob("reclaim", "all") \in PlainJobs /\ LaneJob("start", "all") \in PlainJobs
  BY PlainLaneJob DEF LaneJob, LaneOps, LaneArgs
<1> QED BY <1>1, SMT DEF Schedule

\* The jobs of one relay session are plain.
LEMMA PlainPark ==
    ASSUME NEW s \in Sessions
    PROVE  /\ {Park(s), Suspend(s), Wake(s), WakeAuth(s), Deny(s)} \subseteq PlainJobs
           /\ Invalidate(s) \in Seq(PlainJobs)
<1>1. \A op \in LaneOps : LaneJob(op, s) \in PlainJobs
  BY PlainLaneJob DEF LaneJob, LaneArgs
<1> QED BY <1>1, SMT DEF Park, Suspend, Wake, WakeAuth, Deny, LaneOps, Invalidate

\* What a commit makes of a lane, field by field.
LEMMA MoveFields ==
    ASSUME NEW st \in LaneStates \ {"None"}, NEW out \in Outcomes \cup {"None"},
           NEW end \in Ends \cup {"None"}, st = "Terminal" <=> out # "None"
    PROVE  /\ Move(st, out, end) \in Moves
           /\ Move(st, out, end).st = st
           /\ Move(st, out, end).out = out
           /\ Move(st, out, end).end = end
BY DEF Move, Moves

\* retry_or_give_up ends the attempt.
LEMMA RetryEnds ==
    ASSUME NEW k
    PROVE  /\ RetryOrGiveUp(k) \in Moves /\ EndsAttempt(RetryOrGiveUp(k))
           /\ RetryOrGiveUp(k).out # "Answered"
<1>1. CASE Ordinal(k) >= MaxAttempts
  <2>1. RetryOrGiveUp(k) = Move("Terminal", "GaveUp", "GaveUp")
    BY <1>1 DEF RetryOrGiveUp
  <2> QED BY <2>1, MoveFields, SMT DEF EndsAttempt, LaneStates, Outcomes, Ends, InFlight
<1>2. CASE ~ (Ordinal(k) >= MaxAttempts)
  <2>1. RetryOrGiveUp(k) = Move("Transient", "None", "Failed")
    BY <1>2 DEF RetryOrGiveUp
  <2> QED BY <2>1, MoveFields, SMT DEF EndsAttempt, LaneStates, Outcomes, Ends, InFlight
<1> QED BY <1>1, <1>2

\* The commit of a lane job ends an attempt exactly if the lane runs one, and
\* ends the lane only where an attempt or an AUTH exchange failed for good.
LEMMA JobMoveSound ==
    ASSUME Rows, NEW job, job.op \in LaneOps \ {"start"}, NEW k \in Targets(job)
    PROVE  /\ k \in LaneKeys
           /\ JobMove(job.op, k) \in Moves
           /\ JobMove(job.op, k).st \notin InFlight
           /\ lane[k].st \in InFlight <=> JobMove(job.op, k).end # "None"
           /\ lane[k].st # "Terminal"
           /\ JobMove(job.op, k).out # "Answered"
           /\ JobMove(job.op, k).st = "Terminal" => job.op \in {"suspend", "due", "deny"}
<1> DEFINE op == job.op
           st == lane[k].st
           m == JobMove(op, k)
           waits == {"WaitingConnection", "WaitingAuth", "Eligible"}
           idle == st \notin InFlight /\ st # "Terminal"
<1>0. k \in LaneKeys
  BY DEF Targets
<1>a. ASSUME NEW x \in waits, m = Waiting(x), idle
      PROVE  /\ m \in Moves /\ m.st \notin InFlight /\ m.end = "None"
             /\ m.out = "None" /\ m.st # "Terminal"
  BY <1>a, MoveFields, SMT DEF Waiting, LaneStates, InFlight
<1> HIDE DEF m
<1>1. CASE op = "park"
  <2>1. st # "Terminal"
    BY <1>1 DEF Targets, OpenLanes
  <2>2. CASE st \in InFlight
    <3>1. m = Move("WaitingAuth", "None", "AuthRequired")
      BY <1>1, <2>2 DEF JobMove, AuthSuspended, m
    <3>2. m \in Moves /\ m.st = "WaitingAuth" /\ m.out = "None" /\ m.end = "AuthRequired"
      BY <3>1, MoveFields, SMT DEF LaneStates, Ends
    <3> QED BY <1>0, <2>1, <2>2, <3>2 DEF InFlight, m
  <2>3. CASE st \notin InFlight
    <3>1. m = Waiting("WaitingAuth")
      BY <1>1, <2>3 DEF JobMove, m
    <3> QED BY <1>0, <1>a, <2>1, <2>3, <3>1 DEF m
  <2> QED BY <2>2, <2>3
<1>2. CASE op \in {"suspend", "due"} /\ st = "AwaitingAck"
  <2>1. m = RetryOrGiveUp(k)
    BY <1>2 DEF JobMove, InFlight, m
  <2> QED BY <1>0, <1>2, <2>1, RetryEnds DEF EndsAttempt, InFlight, m
<1>3. CASE op \in {"suspend", "reopen"} /\ st = "WaitingAuth"
  <2>1. m = Waiting("WaitingConnection")
    BY <1>3 DEF JobMove, m
  <2> QED BY <1>0, <1>3, <1>a, <2>1 DEF InFlight, m
<1>4. CASE op \in {"reopen", "reclaim"} /\ st = "AwaitingHandoff"
  <2>1. m = Move("Transient", "None", "Interrupted")
    BY <1>4 DEF JobMove, Reclaimed, m
  <2>2. m \in Moves /\ m.st = "Transient" /\ m.out = "None" /\ m.end = "Interrupted"
    BY <2>1, MoveFields, SMT DEF LaneStates, Ends
  <2> QED BY <1>0, <1>4, <2>2 DEF InFlight, m
<1>5. CASE op = "deny"
  <2>1. m = Move("Terminal", "AuthDenied", "None")
    BY <1>5 DEF JobMove, Denied, m
  <2>2. st = "WaitingAuth"
    BY <1>5 DEF Targets
  <2>3. m \in Moves /\ m.st = "Terminal" /\ m.out = "AuthDenied" /\ m.end = "None"
    BY <2>1, MoveFields, SMT DEF LaneStates, Outcomes
  <2> QED BY <1>0, <1>5, <2>2, <2>3 DEF InFlight, m
<1>6. CASE op \in {"wake", "wakeAuth", "open"} \/ (op = "due" /\ st = "Transient")
  <2>1. m = Waiting("Eligible")
    BY <1>6 DEF JobMove, m
  <2>2. st \in {"WaitingConnection", "WaitingAuth", "Transient"}
    BY <1>6 DEF Targets
  <2> QED BY <1>0, <1>a, <2>1, <2>2 DEF InFlight, m
<1>7. \/ op = "park"
      \/ op \in {"suspend", "due"} /\ st = "AwaitingAck"
      \/ op \in {"suspend", "reopen"} /\ st = "WaitingAuth"
      \/ op \in {"reopen", "reclaim"} /\ st = "AwaitingHandoff"
      \/ op = "deny"
      \/ op \in {"wake", "wakeAuth", "open"} \/ (op = "due" /\ st = "Transient")
  BY DEF Targets, LaneOps, HasDeadline
<1> QED BY <1>1, <1>2, <1>3, <1>4, <1>5, <1>6, <1>7

\* The job that may close a write after its lane ended is plain.
LEMMA PlainThenClose ==
    ASSUME NEW k \in LaneKeys, NEW m, NEW ok
    PROVE  ThenClose(k, m, ok) \in Seq(PlainJobs)
<1>1. k[1] \in Intents
  BY DEF LaneKeys
<1>2. Close(k[1]) \in PlainJobs
  BY <1>1, PlainIntentJob DEF Close, IntentOps
<1> QED BY <1>2, SMT DEF ThenClose

\* The head of a lane job or an intent job is plain.
LEMMA HeadPlain ==
    ASSUME Queue, todo # <<>>, Head(todo).op # "apply"
    PROVE  Head(todo) \in PlainJobs
BY DEF Queue, HeadFits

\* A lane job has the lanes it visited beside its operation and argument.
LEMMA LaneJobForm ==
    ASSUME NEW job \in PlainJobs, job.op \in LaneOps
    PROVE  job \in [op : LaneOps, arg : LaneArgs, done : SUBSET LaneKeys]
BY DEF PlainJobs, Jobs, IntentOps, LaneOps

\* A lane job that visited one lane more is plain.
LEMMA VisitedPlain ==
    ASSUME NEW job \in PlainJobs, job.op \in LaneOps, NEW k \in LaneKeys
    PROVE  [job EXCEPT !.done = @ \cup {k}] \in PlainJobs
<1>1. job \in [op : LaneOps, arg : LaneArgs, done : SUBSET LaneKeys]
  BY LaneJobForm
<1>2. [job EXCEPT !.done = @ \cup {k}]
          = [op |-> job.op, arg |-> job.arg, done |-> job.done \cup {k}]
  BY <1>1, SMT
<1>3. job.op \in LaneOps /\ job.arg \in LaneArgs /\ job.done \cup {k} \in SUBSET LaneKeys
  BY <1>1
<1> QED BY <1>2, <1>3, PlainLaneJob, SMT

\* The jobs the handlers of a write may leave behind are plain.
LEMMA PlainIntentJobs ==
    ASSUME NEW i \in Intents
    PROVE  /\ {Promote(i), Compensate(i), Cancel(i), Route(i), Bootstrap(i),
               BootRoute(i), BootLanes(i), Close(i)} \subseteq PlainJobs
           /\ Open(i) \in PlainJobs /\ Reopen(i) \in PlainJobs
<1>1. \A op \in IntentOps \ {"unroutable"} : IntentJob(op, i) \in PlainJobs
  BY PlainIntentJob
<1>2. \A op \in LaneOps : LaneJob(op, i) \in PlainJobs
  BY PlainLaneJob DEF LaneJob, LaneArgs
<1>3. Open(i) \in PlainJobs /\ Reopen(i) \in PlainJobs
  BY <1>2 DEF Open, Reopen, LaneOps
<1>4. {Promote(i), Compensate(i), Cancel(i), Route(i), Bootstrap(i),
       BootRoute(i), BootLanes(i), Close(i)} \subseteq PlainJobs
  BY <1>1 DEF Promote, Compensate, Cancel, Route, Bootstrap, BootRoute, BootLanes,
              Close, IntentOps
<1> QED BY <1>3, <1>4

\* The order in which a finite set is listed has no repetition and no stranger.
LEMMA Listed ==
    ASSUME NEW S, IsFiniteSet(S)
    PROVE  /\ InKeyOrder(S) \in Seq(S)
           /\ Len(InKeyOrder(S)) = Cardinality(S)
           /\ \A m, n \in 1 .. Cardinality(S) :
                  InKeyOrder(S)[m] = InKeyOrder(S)[n] => m = n
           /\ \A x \in S : \E n \in 1 .. Cardinality(S) : InKeyOrder(S)[n] = x
<1> DEFINE N == 1 .. Cardinality(S)
           Once(q) == \A m, n \in N : q[m] = q[n] => m = n
<1>1. PICK f : f \in Bijection(N, S)
  BY FS_CardinalityType DEF ExistsBijection
<1>2. f \in [N -> S] /\ Once(f)
  BY <1>1 DEF Bijection, Injection, IsInjective
<1>3. InKeyOrder(S) \in [N -> S] /\ Once(InKeyOrder(S))
  BY <1>2 DEF InKeyOrder
<1>4. Cardinality(S) \in Nat
  BY FS_CardinalityType
<1>5. InKeyOrder(S) \in Seq(S) /\ Len(InKeyOrder(S)) = Cardinality(S)
  BY <1>3, <1>4, SMT
<1>6. ASSUME NEW x \in S PROVE \E n \in N : InKeyOrder(S)[n] = x
  <2> DEFINE q == InKeyOrder(S)
  <2>1. q \in Injection(N, S)
    BY <1>3 DEF Injection, IsInjective
  <2>2. IsFiniteSet(N) /\ Cardinality(N) = Cardinality(S)
    BY <1>4, FS_Interval, SMT
  <2> HIDE DEF q
  <2>3. q \in Surjection(N, S)
    BY <2>1, <2>2, FS_Injection
  <2> QED BY <2>3 DEF Surjection, q
<1> QED BY <1>3, <1>5, <1>6

\* rewrite_open_routes queues one plain job per open write.
LEMMA PlainRewrite == RewriteOpenRoutes \in Seq(PlainJobs)
<1> DEFINE q == InKeyOrder(Unfinished)
           r == [n \in 1 .. 2 * Len(q) |-> IF n % 2 = 1 THEN Route(q[(n + 1) \div 2])
                                                        ELSE Close(q[n \div 2])]
<1>1. IsFiniteSet(Unfinished)
  BY IntentsAssumption, FS_Subset DEF Unfinished
<1>2. q \in Seq(Intents) /\ Len(q) \in Nat
  BY <1>1, Listed, SMT DEF Unfinished
<1> HIDE DEF q
<1>3. ASSUME NEW n \in 1 .. 2 * Len(q) PROVE r[n] \in PlainJobs
  <2>1. CASE n % 2 = 1
    <3>1. (n + 1) \div 2 \in 1 .. Len(q)
      BY <1>2, <2>1, SMT
    <3>2. q[(n + 1) \div 2] \in Intents
      BY <1>2, <3>1, SMT
    <3> QED BY <2>1, <3>2, PlainIntentJobs
  <2>2. CASE n % 2 # 1
    <3>1. n \div 2 \in 1 .. Len(q)
      BY <1>2, <2>2, SMT
    <3>2. q[n \div 2] \in Intents
      BY <1>2, <3>1, SMT
    <3> QED BY <2>2, <3>2, PlainIntentJobs
  <2> QED BY <2>1, <2>2
<1>4. r \in [1 .. 2 * Len(q) -> PlainJobs]
  BY <1>3
<1>5. 2 * Len(q) \in Nat
  BY <1>2, SMT
<1>6. r \in Seq(PlainJobs)
  BY <1>4, <1>5, SMT
<1> QED BY <1>6 DEF RewriteOpenRoutes, q

-----------------------------------------------------------------------------
(***************************************************************************)
(* The queue of a handler.                                                 *)
(***************************************************************************)

\* The jobs of a queue put together from two.
LEMMA HeldBoth ==
    ASSUME NEW S, NEW p \in Seq(S), NEW q \in Seq(S)
    PROVE  Held(p \o q) = Held(p) \cup Held(q)
<1>1. Len(p) \in Nat /\ Len(q) \in Nat /\ Len(p \o q) = Len(p) + Len(q)
  BY SMT
<1>2. ASSUME NEW n \in 1 .. Len(p) PROVE p[n] \in Held(p \o q)
  <2>1. (p \o q)[n] = p[n] /\ n \in 1 .. Len(p \o q)
    BY <1>1, SMT
  <2> QED BY <2>1 DEF Held
<1>3. ASSUME NEW n \in 1 .. Len(q) PROVE q[n] \in Held(p \o q)
  <2>1. (p \o q)[Len(p) + n] = q[n] /\ Len(p) + n \in 1 .. Len(p \o q)
    BY <1>1, SMT
  <2> QED BY <2>1 DEF Held
<1>4. ASSUME NEW n \in 1 .. Len(p \o q) PROVE (p \o q)[n] \in Held(p) \cup Held(q)
  <2>1. CASE n =< Len(p)
    BY <1>1, <2>1, SMT DEF Held
  <2>2. CASE n > Len(p)
    <3>1. (p \o q)[n] = q[n - Len(p)] /\ n - Len(p) \in 1 .. Len(q)
      BY <1>1, <2>2, SMT
    <3> QED BY <3>1 DEF Held
  <2> QED BY <1>1, <2>1, <2>2, SMT
<1> QED BY <1>2, <1>3, <1>4 DEF Held

\* Two queues in order, no job of the first barring one of the second.
LEMMA OrderedBoth ==
    ASSUME NEW S, NEW p \in Seq(S), NEW q \in Seq(S), Ordered(p), Ordered(q),
           \A a \in Held(p), b \in Held(q) : ~ Bars(a, b)
    PROVE  Ordered(p \o q)
<1> SUFFICES ASSUME NEW m \in 1 .. Len(p \o q), NEW n \in 1 .. Len(p \o q), m < n
             PROVE  ~ Bars((p \o q)[m], (p \o q)[n])
  BY DEF Ordered
<1>1. Len(p) \in Nat /\ Len(q) \in Nat /\ Len(p \o q) = Len(p) + Len(q)
  BY SMT
<1>2. \A x \in 1 .. Len(p \o q) :
          (p \o q)[x] = IF x =< Len(p) THEN p[x] ELSE q[x - Len(p)]
  BY <1>1, SMT
<1>3. CASE n =< Len(p)
  <2>1. m \in 1 .. Len(p) /\ n \in 1 .. Len(p)
    BY <1>1, <1>3, SMT
  <2> QED BY <1>2, <1>3, <2>1, SMT DEF Ordered
<1>4. CASE m > Len(p)
  <2>1. /\ m - Len(p) \in 1 .. Len(q) /\ n - Len(p) \in 1 .. Len(q)
        /\ m - Len(p) < n - Len(p)
        /\ (p \o q)[m] = q[m - Len(p)] /\ (p \o q)[n] = q[n - Len(p)]
    BY <1>1, <1>2, <1>4, SMT
  <2> QED BY <2>1 DEF Ordered
<1>5. CASE m =< Len(p) /\ n > Len(p)
  <2>1. (p \o q)[m] = p[m] /\ (p \o q)[n] = q[n - Len(p)]
    BY <1>1, <1>2, <1>5, SMT
  <2>2. m \in 1 .. Len(p) /\ n - Len(p) \in 1 .. Len(q)
    BY <1>1, <1>5, SMT
  <2>3. p[m] \in Held(p) /\ q[n - Len(p)] \in Held(q)
    BY <2>2 DEF Held
  <2> QED BY <2>1, <2>3
<1> QED BY <1>1, <1>3, <1>4, <1>5, SMT

\* A job that is passed over is not one that builds lanes.
LEMMA SkippedOps ==
    ASSUME NEW q, NEW n, SkipsVoid(q, n), NEW m \in 1 .. n - 1
    PROVE  q[m].op \notin Lasting
<1>1. Void(q[m])'
  BY DEF SkipsVoid
<1> QED BY <1>1 DEF Void, Lasting, LaneOps, BootOps

\* What the handler has left of its jobs.
LEMMA Left ==
    ASSUME NEW S, NEW q \in Seq(S), Do(q)
    PROVE  /\ Held(todo') \subseteq Held(q)
           /\ \A j \in Held(q) : j.op \in Lasting => j \in Held(todo')
           /\ Ordered(q) => Ordered(todo')
<1>1. PICK n \in 1 .. Len(q) + 1 : todo' = SubSeq(q, n, Len(q)) /\ SkipsVoid(q, n)
  BY DEF Do
<1>2. /\ Len(q) \in Nat /\ Len(todo') = Len(q) - n + 1
      /\ \A x \in 1 .. Len(todo') : todo'[x] = q[x + n - 1] /\ x + n - 1 \in 1 .. Len(q)
  BY <1>1, SMT
<1>3. Held(todo') \subseteq Held(q)
  BY <1>2 DEF Held
<1>4. ASSUME NEW m \in 1 .. Len(q), q[m].op \in Lasting PROVE q[m] \in Held(todo')
  <2>1. m >= n
    BY <1>1, <1>2, <1>4, SkippedOps, SMT
  <2>2. m - n + 1 \in 1 .. Len(todo') /\ todo'[m - n + 1] = q[m]
    BY <1>2, <2>1, SMT
  <2> QED BY <2>2 DEF Held
<1>5. Ordered(q) => Ordered(todo')
  BY <1>2, SMT DEF Ordered
<1> QED BY <1>3, <1>4, <1>5 DEF Held

\* The jobs behind the running one.
LEMMA RestHeld ==
    ASSUME Queue, JobsAgree, todo # <<>>
    PROVE  /\ Held(todo) = {Head(todo)} \cup Rest
           /\ \A b \in Rest : ~ Bars(Head(todo), b)
           /\ Ordered(Tail(todo))
           /\ Tail(todo) \in Seq(PlainJobs)
<1> DEFINE h == Head(todo)
           S == {h} \cup PlainJobs
<1>1. /\ todo = <<h>> \o Tail(todo) /\ Tail(todo) \in Seq(PlainJobs)
      /\ <<h>> \in Seq(S) /\ Tail(todo) \in Seq(S)
  BY SMT DEF Queue
<1> HIDE DEF h, S
<1>2. Held(<<h>>) = {h}
  BY SMT DEF Held
<1>3. Held(todo) = {h} \cup Rest
  <2> DEFINE p == <<h>>
             t == Tail(todo)
  <2>1. p \in Seq(S) /\ t \in Seq(S)
    BY <1>1
  <2> HIDE DEF p, t
  <2>2. Held(p \o t) = Held(p) \cup Held(t)
    BY <2>1, HeldBoth, ZenonT(40)
  <2> QED BY <1>1, <1>2, <2>2 DEF Rest, p, t
<1>4. /\ Len(todo) = Len(Tail(todo)) + 1 /\ Len(Tail(todo)) \in Nat /\ todo[1] = h
      /\ \A x \in 1 .. Len(Tail(todo)) : Tail(todo)[x] = todo[x + 1]
  BY <1>1, SMT
<1>5. \A b \in Rest : ~ Bars(h, b)
  BY <1>4, SMT DEF Rest, Held, JobsAgree, Ordered
<1>6. Ordered(Tail(todo))
  BY <1>4, SMT DEF JobsAgree, Ordered
<1> QED BY <1>1, <1>3, <1>5, <1>6 DEF h

\* A handler whose running job is replaced by jobs that bar no more.
LEMMA Continued ==
    ASSUME Queue, JobsAgree, todo # <<>>, NEW jobs \in Seq(PlainJobs), Continue(jobs),
           Ordered(jobs), \A j \in Held(jobs) : Milder(j, Head(todo))
    PROVE  /\ Ordered(todo')
           /\ Held(todo') \subseteq Held(jobs) \cup Rest
           /\ \A j \in Held(jobs) \cup Rest : j.op \in Lasting => j \in Held(todo')
<1> DEFINE t == Tail(todo)
<1>1. /\ \A b \in Held(t) : ~ Bars(Head(todo), b)
      /\ Ordered(t) /\ t \in Seq(PlainJobs)
  BY RestHeld DEF Rest
<1>2. \A a \in Held(jobs), b \in Held(t) : ~ Bars(a, b)
  BY <1>1 DEF Bars, Milder
<1>3. jobs \o t \in Seq(PlainJobs) /\ Do(jobs \o t)
  BY <1>1, SMT DEF Continue
<1>4. Ordered(jobs \o t) /\ Held(jobs \o t) = Held(jobs) \cup Rest
  BY <1>1, <1>2, OrderedBoth, HeldBoth, ZenonT(40) DEF Rest
<1> HIDE DEF t
<1> QED BY <1>3, <1>4, Left

-----------------------------------------------------------------------------
(***************************************************************************)
(* What the steps leave alone.                                             *)
(***************************************************************************)

\* With no fault left every commit succeeds.
LEMMA NoFault ==
    ASSUME Shapes, NEW ok \in BOOLEAN, Commit(ok)
    PROVE  ok /\ UNCHANGED <<faulted, left>>
BY SMT DEF Shapes, Kinds, Commit, Spend

\* Such a step keeps what is known of correlations and of bytes on the wire.
LEMMA TalkKept ==
    ASSUME Rows, Rows', CorrTyped, Shapes, CorrAgree, WireAgree, ReceiptsStay, ReportsStay,
           corr' \subseteq corr, wire' = wire
    PROVE  CorrAgree' /\ WireAgree'
<1>0. \A k \in LaneKeys : Len(att[k]) \in Nat /\ Len(att'[k]) \in Nat
  BY SMT DEF Rows
<1>1. ASSUME NEW c \in corr'
      PROVE  /\ receipt'[c.key[1]] \in {"Signed", "Superseded"}
             /\ receipt'[c.key[1]] = "Signed" =>
                  /\ lane'[c.key].st # "None"
                  /\ c.ord =< Len(att'[c.key])
                  /\ att'[c.key][c.ord].handoff = "None"
  <2>1. c \in corr /\ c.key \in LaneKeys /\ c.ord \in Nat \ {0} /\ c.key[1] \in Talked
    BY <1>1 DEF CorrTyped, Talked
  <2>2. receipt[c.key[1]] \in {"Signed", "Superseded"}
    BY <2>1 DEF CorrAgree
  <2>3. /\ receipt'[c.key[1]] \in {"Signed", "Superseded"}
        /\ receipt'[c.key[1]] = "Signed" => receipt[c.key[1]] = "Signed"
    BY <2>1, <2>2 DEF ReceiptsStay
  <2>4. CASE receipt'[c.key[1]] = "Signed"
    <3>1. /\ lane[c.key].st # "None" /\ c.ord =< Len(att[c.key])
          /\ att[c.key][c.ord].handoff = "None"
      BY <2>1, <2>3, <2>4 DEF CorrAgree
    <3> QED BY <1>0, <2>1, <2>3, <2>4, <3>1, SMT DEF ReportsStay
  <2> QED BY <2>3, <2>4
<1>2. ASSUME NEW k \in wire
      PROVE  /\ receipt'[k[1]] \in {"Signed", "Superseded"}
             /\ receipt'[k[1]] = "Signed" =>
                 /\ lane'[k].st # "None"
                 /\ \E o \in 1 .. Len(att'[k]) :
                       /\ att'[k][o].handoff # "NotHandedOff"
                       /\ \A c \in corr' : c.key = k /\ c.ord = o => c.sent
  <2>1. k \in LaneKeys /\ k[1] \in Talked
    BY DEF Shapes, Talked
  <2>2. receipt[k[1]] \in {"Signed", "Superseded"}
    BY DEF WireAgree
  <2>3. /\ receipt'[k[1]] \in {"Signed", "Superseded"}
        /\ receipt'[k[1]] = "Signed" => receipt[k[1]] = "Signed"
    BY <2>1, <2>2 DEF ReceiptsStay
  <2>4. CASE receipt'[k[1]] = "Signed"
    <3>1. PICK o \in 1 .. Len(att[k]) :
                  /\ att[k][o].handoff # "NotHandedOff"
                  /\ \A c \in corr : c.key = k /\ c.ord = o => c.sent
      BY <2>3, <2>4 DEF WireAgree
    <3>2. lane[k].st # "None"
      BY <2>3, <2>4 DEF WireAgree
    <3>3. /\ lane'[k].st # "None" /\ o \in 1 .. Len(att'[k])
          /\ att'[k][o].handoff = att[k][o].handoff
      BY <1>0, <2>1, <2>4, <3>2, SMT DEF ReportsStay
    <3> QED BY <2>3, <3>1, <3>3
  <2> QED BY <2>3, <2>4
<1>3. \A c, d \in corr' : c.key = d.key /\ c.ord = d.ord => c = d
  BY DEF CorrAgree
<1>4. CorrAgree'
  BY <1>1, <1>3 DEF CorrAgree
<1>5. WireAgree'
  BY <1>2 DEF WireAgree
<1> QED BY <1>4, <1>5

\* Such a step keeps the caps.
LEMMA CapsKept ==
    ASSUME IsFiniteSet(InFlightLanes), CapsHold, FewerFlights
    PROVE  IsFiniteSet(InFlightLanes') /\ CapsHold'
<1>1. InFlightLanes' \subseteq InFlightLanes
  BY DEF InFlightLanes, FewerFlights
<1>2. /\ IsFiniteSet(InFlightLanes')
      /\ Cardinality(InFlightLanes') \in Nat /\ Cardinality(InFlightLanes) \in Nat
      /\ Cardinality(InFlightLanes') =< Cardinality(InFlightLanes)
  BY <1>1, FS_Subset, FS_CardinalityType
<1>3. Cardinality(InFlightLanes') =< MaxGlobal
  BY <1>2, GlobalAssumption, SMT DEF CapsHold, InFlightLanes
<1>4. \A k, l \in LaneKeys : k # l /\ k[2] = l[2] /\ lane'[k].st \in InFlight =>
          lane'[l].st \notin InFlight
  BY DEF CapsHold, FewerFlights
<1> QED BY <1>2, <1>3, <1>4 DEF CapsHold, InFlightLanes

\* A commit of a handler that accounts for the jobs that rely on open writes,
\* for the lanes still to be built and for the lanes still to be projected.
LEMMA HandlerKept ==
    ASSUME Queue, JobsAgree, LanesBuilt, FlightsKnown, up, up', todo # <<>>,
           NEW jobs \in Seq(PlainJobs), Continue(jobs), Ordered(jobs),
           \A j \in Held(jobs) : Milder(j, Head(todo)),
           \A j \in Held(jobs) : j.op \in RouteOps => intent'[j.arg] = "Signed",
           \A i \in Intents : intent[i] = "Signed" /\ i \notin MayEnd(Head(todo)) =>
               intent'[i] = "Signed",
           \A i \in Intents : \A r \in routes'[i] : intent'[i] = "Signed" =>
               \/ lane'[<<i, r>>].st # "None"
               \/ \E j \in Held(jobs) : j.op \in Lasting /\ j.arg = i
               \/ /\ Relieved(i) /\ intent[i] = "Signed" /\ r \in routes[i]
                  /\ lane[<<i, r>>].st = "None",
           \A k \in LaneKeys : lane'[k].st \in InFlight =>
               \/ k \in known'
               \/ \E j \in Held(jobs) : j.op \in BootOps /\ j.arg = k[1]
               \/ Relieved(k[1]) /\ lane[k].st \in InFlight /\ k \notin known
    PROVE  JobsAgree' /\ LanesBuilt' /\ FlightsKnown'
<1>1. /\ Ordered(todo')
      /\ Held(todo') \subseteq Held(jobs) \cup Rest
      /\ \A j \in Held(jobs) \cup Rest : j.op \in Lasting => j \in Held(todo')
  BY Continued
<1>2. /\ Held(todo) = {Head(todo)} \cup Rest
      /\ \A b \in Rest : ~ Bars(Head(todo), b)
  BY RestHeld
<1>3. ASSUME NEW j \in Rest, j.op \in RouteOps PROVE intent'[j.arg] = "Signed"
  <2>1. intent[j.arg] = "Signed"
    BY <1>2, <1>3 DEF JobsAgree
  <2>2. j.arg \notin MayEnd(Head(todo))
    BY <1>2, <1>3 DEF Bars
  <2>3. j \in PlainJobs
    BY RestHeld, SMT DEF Rest, Held
  <2>4. j.arg \in Intents
    BY <1>3, <2>3 DEF PlainJobs, Jobs, RouteOps, BootOps, LaneOps
  <2> QED BY <2>1, <2>2, <2>4
<1>4. \A j \in Held(todo') : j.op \in RouteOps => intent'[j.arg] = "Signed"
  BY <1>1, <1>3
<1>5. JobsAgree'
  BY <1>1, <1>4 DEF JobsAgree, Ordered, Held
<1>6. BootOps \subseteq Lasting
  BY DEF Lasting
<1>7. ASSUME NEW ops \in {Lasting, BootOps}, NEW i, Relieved(i), Awaits(i, ops)
      PROVE  \E j \in Held(todo') : j.op \in ops /\ j.arg = i
  <2>1. PICK j \in Held(todo) : j.op \in ops /\ j.arg = i
    BY <1>7 DEF Awaits
  <2>2. j.op \in Lasting
    BY <1>6, <2>1
  <2>3. j \in Rest
    BY <1>2, <1>7, <2>1, <2>2 DEF Relieved
  <2> QED BY <1>1, <2>1, <2>2, <2>3
<1>8. ASSUME NEW i \in Intents, NEW r \in routes'[i], intent'[i] = "Signed"
      PROVE  \/ lane'[<<i, r>>].st # "None"
             \/ \E j \in Held(todo') : j.op \in Lasting /\ j.arg = i
  <2>1. CASE \E j \in Held(jobs) : j.op \in Lasting /\ j.arg = i
    BY <1>1, <2>1
  <2>2. CASE /\ Relieved(i) /\ intent[i] = "Signed" /\ r \in routes[i]
             /\ lane[<<i, r>>].st = "None"
    BY <1>7, <2>2 DEF LanesBuilt
  <2> QED BY <1>8, <2>1, <2>2
<1>9. ASSUME NEW k \in LaneKeys, lane'[k].st \in InFlight
      PROVE  k \in known' \/ \E j \in Held(todo') : j.op \in BootOps /\ j.arg = k[1]
  <2>1. CASE \E j \in Held(jobs) : j.op \in BootOps /\ j.arg = k[1]
    BY <1>1, <1>6, <2>1
  <2>2. CASE Relieved(k[1]) /\ lane[k].st \in InFlight /\ k \notin known
    BY <1>7, <2>2 DEF FlightsKnown
  <2> QED BY <1>9, <2>1, <2>2
<1> QED BY <1>5, <1>8, <1>9 DEF LanesBuilt, FlightsKnown, Awaits, Held

\* No job of a handler that has just begun bars another, as none relies on an
\* open write.
LEMMA NoneBarred ==
    ASSUME NEW q, \A j \in Held(q) : j.op \notin RouteOps
    PROVE  Ordered(q)
BY DEF Held, Ordered, Bars

\* A message is handled with nothing left to do, so no lane is missing.
LEMMA MessageKept ==
    ASSUME LanesBuilt, FlightsKnown, up, up', todo = <<>>,
           NEW S, NEW jobs \in Seq(S), Do(jobs), Ordered(jobs),
           \A j \in Held(jobs) : j.op \in RouteOps => intent'[j.arg] = "Signed",
           \A i \in Intents : \A r \in routes'[i] : intent'[i] = "Signed" =>
               \/ lane'[<<i, r>>].st # "None"
               \/ /\ intent[i] = "Signed" /\ r \in routes[i]
                  /\ lane[<<i, r>>].st = "None",
           \A k \in LaneKeys : lane'[k].st \in InFlight =>
               k \in known' \/ (lane[k].st \in InFlight /\ k \notin known)
    PROVE  JobsAgree' /\ LanesBuilt' /\ FlightsKnown'
<1>1. Held(todo) = {}
  BY SMT DEF Held
<1>2. Held(todo') \subseteq Held(jobs) /\ Ordered(todo')
  BY Left
<1>3. JobsAgree'
  BY <1>2 DEF JobsAgree, Ordered, Held
<1>4. \A i, ops : ~ Awaits(i, ops)
  BY <1>1 DEF Awaits
<1>5. \A i \in Intents : \A r \in routes'[i] : intent'[i] = "Signed" =>
          lane'[<<i, r>>].st # "None"
  BY <1>4 DEF LanesBuilt
<1>6. \A k \in LaneKeys : lane'[k].st \in InFlight => k \in known'
  BY <1>4 DEF FlightsKnown
<1> QED BY <1>3, <1>5, <1>6 DEF LanesBuilt, FlightsKnown

-----------------------------------------------------------------------------
(***************************************************************************)
(* What the application is shown.                                          *)
(***************************************************************************)

\* The status before and after a step.
LEMMA StatusShown ==
    ASSUME NEW i
    PROVE  /\ Status(i) = StatusOf(receipt[i], intent[i])
           /\ Status(i)' = StatusOf(receipt'[i], intent'[i])
BY DEF Status, StatusOf

\* What each receipt stands for.
LEMMA StatusFacts ==
    ASSUME NEW n
    PROVE  /\ StatusOf("None", n) = "None"
           /\ \A r \in {"Cancelled", "Compensated", "NotSent", "NoDestination"} :
                  StatusOf(r, n) = "NotSent"
           /\ StatusOf("Superseded", n) = "Superseded"
           /\ StatusOf("Accepted", n) = "Accepted"
           /\ n # "None" => StatusOf("Signed", n) = "Signed"
           /\ n = "None" => StatusOf("Signed", n) = "Settled"
BY DEF StatusOf

\* A step that shows the application nothing.
LEMMA NothingShown ==
    ASSUME routes' = routes, wire' = wire,
           \A i \in Intents : receipt'[i] = receipt[i] /\ intent'[i] = intent[i],
           \A k \in LaneKeys : lane'[k].out = lane[k].out
    PROVE  PromiseStep
<1>1. [i \in Intents |-> Status(i)]' = [i \in Intents |-> Status(i)]
  BY StatusShown, SMT
<1>2. [k \in LaneKeys |-> lane[k].out]' = [k \in LaneKeys |-> lane[k].out]
  OBVIOUS
<1> QED BY <1>1, <1>2 DEF PromiseStep, Promise!vars

\* One write changes its status and nothing else is shown.
LEMMA StatusMoved ==
    ASSUME NEW i \in Intents, NEW s, Status(i)' = s,
           \A j \in Intents \ {i} : receipt'[j] = receipt[j] /\ intent'[j] = intent[j]
    PROVE  [j \in Intents |-> Status(j)]' = [[j \in Intents |-> Status(j)] EXCEPT ![i] = s]
<1>1. ASSUME NEW j \in Intents, j # i PROVE Status(j)' = Status(j)
  BY <1>1, StatusShown
<1> QED BY <1>1

\* A signed write gets its verdict at a relay.
LEMMA DecideShown ==
    ASSUME routes' = routes, wire' = wire, receipt' = receipt, intent' = intent,
           NEW k \in LaneKeys, NEW v \in Outcomes,
           receipt[k[1]] = "Signed", intent[k[1]] # "None", k[2] \in routes[k[1]],
           lane[k].out = "None", v = "Answered" => k \in wire,
           lane'[k].out = v, \A l \in LaneKeys \ {k} : lane'[l].out = lane[l].out
    PROVE  PromiseStep
<1> DEFINE i == k[1]
           r == k[2]
           verdict == [l \in LaneKeys |-> lane[l].out]
<1>1. i \in Intents /\ r \in Relays /\ k = <<i, r>>
  BY SMT DEF LaneKeys
<1>2. [j \in Intents |-> Status(j)]' = [j \in Intents |-> Status(j)]
  BY StatusShown
<1>3. verdict' = [verdict EXCEPT ![<<i, r>>] = v]
  BY <1>1
<1>4. [j \in Intents |-> Status(j)][i] = "Signed"
  BY <1>1, StatusShown, StatusFacts, SMT
<1>5. verdict[<<i, r>>] = "None"
  BY <1>1
<1>6. v = "Answered" => <<i, r>> \in wire
  BY <1>1
<1>7. r \in routes[i]
  OBVIOUS
<1> HIDE DEF i, r, verdict
<1>8. Promise!Decide(i, r, v)
  BY <1>2, <1>3, <1>4, <1>5, <1>6, <1>7 DEF Promise!Decide, verdict
<1> QED BY <1>1, <1>8 DEF PromiseStep, Promise!Next, Promise!Verdicts, Outcomes

\* Queues of no job, of one, and the two jobs of the scheduler.
LEMMA HeldFew ==
    /\ Held(<<>>) = {}
    /\ \A x : Held(<<x>>) = {x}
    /\ \A j \in Held(Schedule) : j.op \in {"reclaim", "start"}
BY SMT DEF Held, Schedule, LaneJob

\* A step that leaves lanes, attempts, correlations and bytes alone.
LEMMA StillKept ==
    ASSUME FInv, FInv', CorrTyped, PInv, ReceiptsStay,
           UNCHANGED <<lane, att, corr, wire>>
    PROVE  CorrAgree' /\ WireAgree' /\ IsFiniteSet(InFlightLanes') /\ CapsHold'
<1>1. \A k \in LaneKeys : Len(att[k]) \in Nat
  BY SMT DEF FInv, Rows
<1>2. ReportsStay
  BY <1>1, SMT DEF ReportsStay
<1>3. CorrAgree' /\ WireAgree'
  BY <1>2, TalkKept DEF FInv, PInv, Agreement
<1>4. IsFiniteSet(InFlightLanes') /\ CapsHold'
  BY CapsKept DEF PInv, Agreement, FewerFlights
<1> QED BY <1>3, <1>4

\* What the invariant says of each write.
LEMMA EachAgrees == ASSUME PInv PROVE \A i \in Intents : IntentAgrees(i)
BY ZenonT(40) DEF PInv, Agreement, IntentsAgree, LanesAgree, SettledEverywhere, IntentAgrees

\* Writes the relays or the transport know of are writes.
LEMMA TalkedIntents == ASSUME CorrTyped, PInv PROVE Talked \subseteq Intents
BY ZenonT(40) DEF Talked, CorrTyped, PInv, Agreement, Shapes, LaneKeys

-----------------------------------------------------------------------------
(***************************************************************************)
(* The commits of a handler.                                               *)
(***************************************************************************)

\* A lane's commit that ends its attempt, if it runs one, keeps the reports.
LEMMA ReplaceReports ==
    ASSUME Rows, LedgerSound, NEW k \in LaneKeys, NEW m \in Moves,
           lane[k].st \in InFlight <=> m.end # "None", ReplaceLane(k, m)
    PROVE  /\ lane'[k] = [st |-> m.st, out |-> m.out]
           /\ \A l \in LaneKeys \ {k} : lane'[l] = lane[l]
           /\ \A l \in LaneKeys :
                 /\ Len(att'[l]) = Len(att[l])
                 /\ \A o \in 1 .. Len(att[l]) : att'[l][o].handoff = att[l][o].handoff
<1>1. /\ lane'[k] = [st |-> m.st, out |-> m.out]
      /\ \A l \in LaneKeys \ {k} : lane'[l] = lane[l]
  BY DEF ReplaceLane, Rows
<1>2. CASE m.end = "None"
  BY <1>1, <1>2 DEF ReplaceLane
<1>3. CASE m.end # "None"
  <2> DEFINE n == Len(att[k])
             q == [att[k] EXCEPT ![n].end = m.end]
  <2>1. n \in Nat \ {0} /\ att[k] \in Seq(AttemptRows)
    BY <1>3, SMT DEF Rows, LedgerSound, Ordinal
  <2>2. \A o \in 1 .. n : att[k][o] \in AttemptRows
    BY <2>1, SMT
  <2>3. Len(q) = n /\ \A o \in 1 .. n : q[o].handoff = att[k][o].handoff
    BY <2>1, <2>2, SMT DEF AttemptRows
  <2>4. att' = [att EXCEPT ![k] = q]
    BY <1>3 DEF ReplaceLane, Ordinal
  <2> HIDE DEF q, n
  <2>5. att'[k] = q /\ \A l \in LaneKeys \ {k} : att'[l] = att[l]
    BY <2>4 DEF Rows
  <2>6. \A l \in LaneKeys :
           /\ Len(att'[l]) = Len(att[l])
           /\ \A o \in 1 .. Len(att[l]) : att'[l][o].handoff = att[l][o].handoff
    BY <2>3, <2>5 DEF n
  <2> QED BY <1>1, <2>6
<1> QED BY <1>2, <1>3

\* The commit of one lane of an open write, which leaves the lane out of flight.
LEMMA LaneMoveKept ==
    ASSUME FInv, Rows', CorrTyped, Agreement, up, NEW k \in LaneKeys, NEW m \in Moves,
           m.st \notin InFlight, lane[k].st \notin {"None", "Terminal"},
           lane[k].st \in InFlight <=> m.end # "None",
           m.out = "Answered" => k \in wire, ReplaceLane(k, m),
           UNCHANGED <<up, pend, corr, wire, heard, left, app>>
    PROVE  Agreement' /\ PromiseStep
<1>0. /\ Shapes /\ IntentsAgree /\ LanesAgree /\ CorrAgree /\ WireAgree
      /\ IsFiniteSet(InFlightLanes) /\ CapsHold /\ SettledEverywhere
      /\ Rows /\ LedgerSound
  BY DEF Agreement, FInv
<1>1. /\ lane'[k] = [st |-> m.st, out |-> m.out]
      /\ \A l \in LaneKeys \ {k} : lane'[l] = lane[l]
      /\ \A l \in LaneKeys :
            /\ Len(att'[l]) = Len(att[l])
            /\ \A o \in 1 .. Len(att[l]) : att'[l][o].handoff = att[l][o].handoff
  BY <1>0, ReplaceReports
<1>2. /\ UNCHANGED <<intent, receipt, routes>>
      /\ known' = IF pend[k[1]].on THEN known \cup {k} ELSE known
  BY DEF ReplaceLane
<1>3. /\ m.st \in LaneStates \ {"None"} /\ (m.st = "Terminal" <=> m.out # "None")
      /\ m.out \in Outcomes \cup {"None"}
      /\ lane'[k].st = m.st /\ lane'[k].out = m.out
      /\ k[1] \in Intents /\ k[2] \in Relays
  BY <1>1, SMT DEF Moves, LaneKeys
<1>4. /\ k[2] \in routes[k[1]] /\ intent[k[1]] = "Signed" /\ lane[k].out = "None"
      /\ receipt[k[1]] = "Signed"
  BY <1>0, <1>3 DEF LanesAgree, IntentsAgree
<1>5. Shapes' /\ IntentsAgree'
  BY <1>0, <1>2 DEF Shapes, IntentsAgree, Plan
<1>6. LanesAgree'
  BY <1>0, <1>1, <1>2, <1>3, <1>4, SMT DEF LanesAgree
<1>7. CorrAgree' /\ WireAgree'
  <2>1. \A l \in LaneKeys : lane[l].st # "None" => lane'[l].st # "None"
    BY <1>1, <1>3
  <2>2. \A l \in LaneKeys : Len(att[l]) \in Nat
    BY <1>0, SMT DEF Rows
  <2>3. ReceiptsStay /\ ReportsStay
    BY <1>1, <1>2, <2>1, <2>2, SMT DEF ReceiptsStay, ReportsStay
  <2> QED BY <1>0, <2>3, TalkKept
<1>8. IsFiniteSet(InFlightLanes') /\ CapsHold'
  BY <1>0, <1>1, <1>3, CapsKept DEF FewerFlights
<1>9. SettledEverywhere'
  <2>1. \A i \in Intents : \A r \in Plan[i] : <<i, r>> = k => i = k[1]
    BY SMT
  <2>2. \A i \in Intents : Plan[i] \subseteq Relays
    BY AppsAssumption DEF FInv, Plan
  <2>3. \A i \in Intents : \A r \in Plan[i] : <<i, r>> \in LaneKeys
    BY <2>2 DEF LaneKeys
  <2> QED BY <1>0, <1>1, <1>2, <1>4, <2>1, <2>3, ZenonT(40) DEF SettledEverywhere, Plan
<1>10. DownIsEmpty'
  BY DEF DownIsEmpty
<1>11. PromiseStep
  <2>1. CASE m.out = "None"
    BY <1>1, <1>2, <1>3, <1>4, <2>1, NothingShown
  <2>2. CASE m.out # "None"
    BY <1>1, <1>2, <1>3, <1>4, <2>2, DecideShown
  <2> QED BY <2>1, <2>2
<1> QED BY <1>5, <1>6, <1>7, <1>8, <1>9, <1>10, <1>11 DEF Agreement

\* Lane jobs rely on no open write and build no lane.
LEMMA LaneOpsApart ==
    /\ LaneOps \cap RouteOps = {} /\ LaneOps \cap Lasting = {}
    /\ "close" \notin RouteOps \cup Lasting /\ "apply" \notin RouteOps \cup Lasting
BY DEF LaneOps, RouteOps, Lasting, BootOps

\* What the commit of one lane leaves of the rest of the handler.
LEMMA LaneQueueKept ==
    ASSUME FInv, PInv, up, up', todo # <<>>,
           Head(todo).op \in LaneOps \cup {"apply"},
           NEW jobs \in Seq(PlainJobs), Continue(jobs),
           \A j \in Held(jobs) : j.op \notin RouteOps /\ Milder(j, Head(todo)),
           UNCHANGED <<intent, routes>>,
           \A l \in LaneKeys : lane[l].st # "None" => lane'[l].st # "None",
           \A l \in LaneKeys : lane'[l].st \in InFlight => lane[l].st \in InFlight \/ l \in known,
           known \subseteq known'
    PROVE  JobsAgree' /\ LanesBuilt' /\ FlightsKnown'
<1>1. Queue /\ JobsAgree /\ LanesBuilt /\ FlightsKnown
  BY DEF FInv, PInv
<1>2. \A i : Relieved(i)
  BY LaneOpsApart DEF Relieved
<1>3. Ordered(jobs)
  BY NoneBarred
<1>4. \A i \in Intents : \A r \in routes'[i] :
          <<i, r>> \in LaneKeys /\ r \in routes[i]
  BY DEF PInv, Agreement, Shapes, LaneKeys
<1>5. \A i \in Intents : \A r \in routes'[i] : intent'[i] = "Signed" =>
               \/ lane'[<<i, r>>].st # "None"
               \/ /\ Relieved(i) /\ intent[i] = "Signed" /\ r \in routes[i]
                  /\ lane[<<i, r>>].st = "None"
  BY <1>2, <1>4
<1>6. \A l \in LaneKeys : lane'[l].st \in InFlight =>
               l \in known' \/ (Relieved(l[1]) /\ lane[l].st \in InFlight /\ l \notin known)
  BY <1>2
<1>7. \A j \in Held(jobs) : j.op \in RouteOps => intent'[j.arg] = "Signed"
  OBVIOUS
<1>8. \A i : intent[i] = "Signed" /\ i \notin MayEnd(Head(todo)) => intent'[i] = "Signed"
  OBVIOUS
<1> QED BY <1>1, <1>3, <1>5, <1>6, <1>7, <1>8, HandlerKept

\* The jobs a lane's commit may put before the rest: its write may have ended.
LEMMA ThenCloseHeld ==
    ASSUME NEW k \in LaneKeys, NEW m, NEW ok
    PROVE  /\ Held(ThenClose(k, m, ok)) \subseteq {Close(k[1])}
           /\ m.st # "Terminal" => Held(ThenClose(k, m, ok)) = {}
BY HeldFew DEF ThenClose

\* A write may be closed by a job that may end any.
LEMMA CloseMilder ==
    ASSUME NEW i \in Intents, NEW job, job.op \in {"suspend", "due", "deny", "apply"}
    PROVE  Milder(Close(i), job) /\ Close(i).op = "close"
BY DEF Milder, MayEnd, Boots, BootOps, Close, IntentJob

\* A lane job after one more visit bars no more.
LEMMA VisitedMilder ==
    ASSUME NEW job \in PlainJobs, job.op \in LaneOps, NEW k \in LaneKeys
    PROVE  /\ Milder([job EXCEPT !.done = @ \cup {k}], job)
           /\ [job EXCEPT !.done = @ \cup {k}].op = job.op
<1> DEFINE v == [job EXCEPT !.done = @ \cup {k}]
<1>1. job \in [op : LaneOps, arg : LaneArgs, done : SUBSET LaneKeys]
  BY LaneJobForm
<1>2. v.op = job.op /\ v.arg = job.arg
  BY <1>1
<1> HIDE DEF v
<1>3. Milder(v, job)
  BY <1>2 DEF Milder, MayEnd, Boots
<1> QED BY <1>2, <1>3 DEF v

\* One lane of a lane job.
LEMMA VisitLaneKept ==
    ASSUME FInv, FInv', CorrTyped, PInv, UNCHANGED app, NEW ok \in BOOLEAN, VisitLane(ok)
    PROVE  PInv' /\ PromiseStep
<1> DEFINE job == Head(todo)
           k == CHOOSE l \in Targets(job) : TRUE
           m == JobMove(job.op, k)
           visited == [job EXCEPT !.done = @ \cup {k}]
           jobs == ThenClose(k, m, ok) \o <<visited>>
<1>1. /\ up /\ todo # <<>> /\ job.op \in LaneOps \ {"start"} /\ CommitLane(k, m, ok)
      /\ Continue(ThenClose(k, m, ok)
                     \o <<IF job.op = "due" /\ ~ ok THEN job ELSE visited>>)
      /\ UNCHANGED <<up, pend, corr, wire, heard>>
  BY DEF VisitLane, links
<1>2. ok /\ UNCHANGED left /\ ReplaceLane(k, m)
  BY <1>1, NoFault DEF CommitLane, PInv, Agreement
<1>3. Continue(jobs)
  BY <1>1, <1>2
<1>4. k \in Targets(job) /\ job \in PlainJobs
  <2>1. ~ Void(job)
    BY <1>1 DEF FInv, Queue, HeadWorks
  <2>2. Targets(job) # {}
    BY <1>1, <2>1 DEF Void
  <2>3. job \in PlainJobs
    BY <1>1, HeadPlain DEF FInv, LaneOps
  <2> QED BY <2>2, <2>3
<1> HIDE DEF job, k
<1>5. /\ k \in LaneKeys /\ m \in Moves /\ m.st \notin InFlight
      /\ lane[k].st \in InFlight <=> m.end # "None"
      /\ lane[k].st # "Terminal" /\ m.out # "Answered"
      /\ m.st = "Terminal" => job.op \in {"suspend", "due", "deny"}
  BY <1>1, <1>4, JobMoveSound DEF FInv
<1> HIDE DEF m
<1>6. lane[k].st # "None"
  BY <1>4, <1>5 DEF Targets, PInv, Agreement, LanesAgree, OpenLanes, HasDeadline
<1>7. Agreement' /\ PromiseStep
  BY <1>1, <1>2, <1>5, <1>6, LaneMoveKept DEF FInv, PInv
<1>8. visited \in PlainJobs /\ Milder(visited, job) /\ visited.op = job.op
  BY <1>1, <1>4, <1>5, VisitedPlain, VisitedMilder
<1> HIDE DEF visited
<1>9. /\ <<visited>> \in Seq(PlainJobs) /\ ThenClose(k, m, ok) \in Seq(PlainJobs)
      /\ jobs \in Seq(PlainJobs)
  BY <1>5, <1>8, PlainThenClose, SMT
<1>10. /\ Held(jobs) \subseteq {visited, Close(k[1])}
       /\ m.st # "Terminal" => Held(jobs) = {visited}
  <2> DEFINE p == ThenClose(k, m, ok)
             q == <<visited>>
  <2>1. p \in Seq(PlainJobs) /\ q \in Seq(PlainJobs) /\ jobs = p \o q
    BY <1>9
  <2>2. Held(q) = {visited}
    BY HeldFew
  <2>3. Held(p) \subseteq {Close(k[1])} /\ (m.st # "Terminal" => Held(p) = {})
    BY <1>5, ThenCloseHeld
  <2> HIDE DEF p, q, jobs
  <2>4. Held(jobs) = Held(p) \cup Held(q)
    BY <2>1, HeldBoth, ZenonT(40)
  <2> QED BY <2>2, <2>3, <2>4
<1> HIDE DEF jobs
<1>11. \A j \in Held(jobs) : j.op \notin RouteOps /\ Milder(j, job)
  <2>1. visited.op \notin RouteOps
    BY <1>1, <1>8, LaneOpsApart
  <2>2. k[1] \in Intents
    BY <1>5 DEF LaneKeys
  <2>3. m.st = "Terminal" => Milder(Close(k[1]), job) /\ Close(k[1]).op \notin RouteOps
    BY <1>5, <2>2, CloseMilder, LaneOpsApart, SMT
  <2> QED BY <1>8, <1>10, <2>1, <2>3
<1>12. /\ UNCHANGED <<intent, routes>> /\ known \subseteq known'
       /\ \A l \in LaneKeys : lane[l].st # "None" => lane'[l].st # "None"
       /\ \A l \in LaneKeys : lane'[l].st \in InFlight => lane[l].st \in InFlight
  <2>1. lane'[k] = [st |-> m.st, out |-> m.out] /\ \A l \in LaneKeys \ {k} : lane'[l] = lane[l]
    BY <1>2, <1>5, ReplaceReports DEF FInv
  <2>2. m.st # "None"
    BY <1>5 DEF Moves
  <2> QED BY <1>2, <1>5, <2>1, <2>2, SMT DEF ReplaceLane
<1>13. JobsAgree' /\ LanesBuilt' /\ FlightsKnown'
  BY <1>1, <1>3, <1>9, <1>11, <1>12, LaneQueueKept DEF job
<1> QED BY <1>7, <1>13 DEF PInv

\* The commit of a relay's answer.
LEMMA ApplyMoveKept ==
    ASSUME FInv, FInv', CorrTyped, PInv, UNCHANGED app, NEW ok \in BOOLEAN, ApplyMove(ok)
    PROVE  PInv' /\ PromiseStep
<1> DEFINE job == Head(todo)
           k == job.arg
           m == job.move
           jobs == ThenClose(k, m, ok)
<1>1. /\ up /\ todo # <<>> /\ job.op = "apply" /\ CommitLane(k, m, ok) /\ Continue(jobs)
      /\ UNCHANGED <<up, pend, corr, wire, heard>>
  BY DEF ApplyMove, Running, links
<1>2. ok /\ UNCHANGED left /\ ReplaceLane(k, m)
  BY <1>1, NoFault DEF CommitLane, PInv, Agreement
<1>3. /\ k \in LaneKeys /\ m \in Moves /\ lane[k].st = "AwaitingAck" /\ EndsAttempt(m)
      /\ m.out = "Answered" => k \in heard
  BY <1>1 DEF FInv, Queue, HeadFits, PlainJobs
<1> HIDE DEF job
<1>4. m.out = "Answered" => k \in wire
  BY <1>3 DEF PInv, Agreement, Shapes
<1> HIDE DEF k, m
<1>5. m.st \notin InFlight /\ (lane[k].st \in InFlight <=> m.end # "None")
  BY <1>3 DEF EndsAttempt, InFlight
<1>6. Agreement' /\ PromiseStep
  BY <1>1, <1>2, <1>3, <1>4, <1>5, LaneMoveKept DEF FInv, PInv
<1>7. jobs \in Seq(PlainJobs) /\ Held(jobs) \subseteq {Close(k[1])}
  BY <1>3, PlainThenClose, ThenCloseHeld
<1> HIDE DEF jobs
<1>8. \A j \in Held(jobs) : j.op \notin RouteOps /\ Milder(j, job)
  <2>1. k[1] \in Intents
    BY <1>3 DEF LaneKeys
  <2> QED BY <1>1, <1>7, <2>1, CloseMilder, LaneOpsApart, SMT
<1>9. /\ UNCHANGED <<intent, routes>> /\ known \subseteq known'
      /\ \A l \in LaneKeys : lane[l].st # "None" => lane'[l].st # "None"
      /\ \A l \in LaneKeys : lane'[l].st \in InFlight => lane[l].st \in InFlight
  <2>1. lane'[k] = [st |-> m.st, out |-> m.out] /\ \A l \in LaneKeys \ {k} : lane'[l] = lane[l]
    BY <1>2, <1>3, <1>5, ReplaceReports DEF FInv
  <2>2. m.st # "None"
    BY <1>3 DEF Moves
  <2> QED BY <1>2, <1>5, <2>1, <2>2, SMT DEF ReplaceLane
<1>10. JobsAgree' /\ LanesBuilt' /\ FlightsKnown'
  BY <1>1, <1>7, <1>8, <1>9, LaneQueueKept DEF job
<1> QED BY <1>6, <1>10 DEF PInv

\* While the scheduler starts lanes no lane in flight is missing from the
\* projection, so the caps it reads are the caps.
LEMMA ProjectionExact ==
    ASSUME Queue, PInv, up, todo # <<>>, Head(todo).op = "start"
    PROVE  InFlightLanes = {k \in OpenLanes : lane[k].st \in InFlight}
<1>1. ASSUME NEW i PROVE ~ Awaits(i, BootOps)
  <2> SUFFICES ASSUME NEW j \in Held(todo), j.op \in BootOps PROVE FALSE
    BY DEF Awaits
  <2>1. Held(todo) = {Head(todo)} \cup Rest /\ \A b \in Rest : ~ Bars(Head(todo), b)
    BY RestHeld DEF PInv
  <2>2. j \in Rest
    BY <2>1 DEF BootOps
  <2>3. Bars(Head(todo), j)
    BY DEF Bars, RouteOps, Boots, BootOps
  <2> QED BY <2>1, <2>2, <2>3
<1>2. \A k \in InFlightLanes : k \in known
  BY <1>1 DEF PInv, FlightsKnown, InFlightLanes
<1>3. known \subseteq LaneKeys
  BY DEF PInv, Agreement, Shapes
<1> QED BY <1>2, <1>3 DEF InFlightLanes, OpenLanes, InFlight

\* schedule_ready starts a lane within the caps.
LEMMA LaneStartKept ==
    ASSUME FInv, FInv', CorrTyped, PInv, UNCHANGED app, up, todo # <<>>,
           Head(todo).op = "start", NEW k \in OpenLanes, Actionable(k), ~ Gated(Session(k)),
           lane' = [lane EXCEPT ![k].st = "AwaitingHandoff"],
           att' = [att EXCEPT ![k] = Append(@, [handoff |-> "None", end |-> "None"])],
           corr' = corr \cup {[key |-> k, ord |-> Ordinal(k) + 1, sent |-> FALSE]},
           UNCHANGED <<intent, receipt, routes, known, up, pend, wire, heard, left>>
    PROVE  Agreement' /\ PromiseStep
<1> DEFINE fresh == [key |-> k, ord |-> Ordinal(k) + 1, sent |-> FALSE]
           n == Len(att[k])
<1>0. /\ Shapes /\ IntentsAgree /\ LanesAgree /\ CorrAgree /\ WireAgree
      /\ IsFiniteSet(InFlightLanes) /\ CapsHold /\ SettledEverywhere
      /\ Rows /\ Queue /\ Rows'
  BY DEF PInv, Agreement, FInv
<1>1. k \in LaneKeys /\ k \in known /\ lane[k].st = "Eligible"
  BY <1>0 DEF OpenLanes, Shapes, Actionable
<1>2. /\ k[1] \in Intents /\ k[2] \in routes[k[1]] /\ intent[k[1]] = "Signed"
      /\ receipt[k[1]] = "Signed"
  BY <1>0, <1>1 DEF LanesAgree, IntentsAgree, LaneKeys
<1>3. /\ lane'[k].st = "AwaitingHandoff" /\ lane'[k].out = lane[k].out
      /\ \A l \in LaneKeys \ {k} : lane'[l] = lane[l]
  BY <1>0, <1>1 DEF Rows, LaneRows
<1>4. /\ n \in Nat /\ Len(att'[k]) = n + 1 /\ att'[k][n + 1].handoff = "None"
      /\ \A o \in 1 .. n : att'[k][o] = att[k][o]
      /\ \A l \in LaneKeys \ {k} : att'[l] = att[l]
  BY <1>0, <1>1, SMT DEF Rows
<1>5. Shapes' /\ IntentsAgree' /\ LanesAgree' /\ DownIsEmpty'
  <2>1. Shapes' /\ IntentsAgree'
    BY <1>0 DEF Shapes, IntentsAgree, Plan
  <2>2. LanesAgree'
    BY <1>0, <1>1, <1>2, <1>3, ZenonT(40) DEF LanesAgree
  <2> QED BY <2>1, <2>2 DEF DownIsEmpty
<1>6. \A c \in corr : c.key = k => c.ord =< n
  BY <1>0, <1>2 DEF CorrAgree
<1>7. CorrAgree'
  <2>1. ASSUME NEW c \in corr'
        PROVE  /\ receipt[c.key[1]] \in {"Signed", "Superseded"}
               /\ receipt[c.key[1]] = "Signed" =>
                     /\ lane'[c.key].st # "None"
                     /\ c.ord =< Len(att'[c.key])
                     /\ att'[c.key][c.ord].handoff = "None"
    <3>1. CASE c = fresh
      BY <1>2, <1>3, <1>4, <3>1, SMT DEF Ordinal
    <3>2. CASE c \in corr
      <4>1. c.key \in LaneKeys /\ c.ord \in Nat \ {0}
        BY <3>2 DEF CorrTyped
      <4>2. CASE c.key = k
        BY <1>0, <1>2, <1>3, <1>4, <3>2, <4>1, <4>2, SMT DEF CorrAgree
      <4>3. CASE c.key # k
        BY <1>0, <1>3, <1>4, <3>2, <4>1, <4>3, SMT DEF CorrAgree
      <4> QED BY <4>2, <4>3
    <3> QED BY <3>1, <3>2
  <2>2. \A c, d \in corr' : c.key = d.key /\ c.ord = d.ord => c = d
    <3>1. \A c \in corr : c.key = fresh.key => c.ord # fresh.ord
      BY <1>4, <1>6, SMT DEF Ordinal, CorrTyped
    <3>2. \A c, d \in corr : c.key = d.key /\ c.ord = d.ord => c = d
      BY <1>0 DEF CorrAgree
    <3>3. corr' = corr \cup {fresh}
      OBVIOUS
    <3> HIDE DEF fresh
    <3> QED BY <3>1, <3>2, <3>3
  <2> QED BY <2>1, <2>2 DEF CorrAgree
<1>8. WireAgree'
  <2>1. ASSUME NEW l \in wire
        PROVE  /\ receipt[l[1]] \in {"Signed", "Superseded"}
               /\ receipt[l[1]] = "Signed" =>
                   /\ lane'[l].st # "None"
                   /\ \E o \in 1 .. Len(att'[l]) :
                         /\ att'[l][o].handoff # "NotHandedOff"
                         /\ \A c \in corr' : c.key = l /\ c.ord = o => c.sent
    <3>1. receipt[l[1]] \in {"Signed", "Superseded"} /\ l \in LaneKeys
      BY <1>0 DEF WireAgree, Shapes
    <3>2. CASE receipt[l[1]] = "Signed"
      <4>1. lane[l].st # "None"
        BY <1>0, <3>2 DEF WireAgree
      <4>2. PICK o \in 1 .. Len(att[l]) :
                   /\ att[l][o].handoff # "NotHandedOff"
                   /\ \A c \in corr : c.key = l /\ c.ord = o => c.sent
        BY <1>0, <3>2 DEF WireAgree
      <4>3. lane'[l].st # "None"
        BY <1>3, <3>1, <4>1
      <4>4. o \in 1 .. Len(att'[l]) /\ att'[l][o] = att[l][o]
        BY <1>4, <3>1, SMT
      <4>5. l = k => o # fresh.ord
        BY <1>4, SMT DEF Ordinal
      <4>6. \A c \in corr' : c.key = l /\ c.ord = o => c.sent
        BY <4>2, <4>5, SMT
      <4> QED BY <3>1, <4>2, <4>3, <4>4, <4>6, SMT
    <3> QED BY <3>1, <3>2
  <2> QED BY <2>1 DEF WireAgree
<1>9. IsFiniteSet(InFlightLanes') /\ CapsHold'
  <2>1. InFlightLanes = {l \in OpenLanes : lane[l].st \in InFlight}
    BY <1>0, ProjectionExact
  <2>2. ~ Busy(k[2]) /\ ~ Full
    BY DEF Actionable
  <2>3. InFlightLanes' = InFlightLanes \cup {k}
    BY <1>1, <1>3 DEF InFlightLanes, InFlight
  <2>4. k \notin InFlightLanes
    BY <1>1 DEF InFlightLanes, InFlight
  <2>5. Cardinality(InFlightLanes) \in Nat
    BY <1>0, FS_CardinalityType
  <2>6. Cardinality(InFlightLanes) < MaxGlobal
    BY <2>1, <2>2, <2>5, GlobalAssumption, SMT DEF Full
  <2>7. IsFiniteSet(InFlightLanes') /\ Cardinality(InFlightLanes') = Cardinality(InFlightLanes) + 1
    BY <1>0, <2>3, <2>4, FS_AddElement
  <2>8. Cardinality(InFlightLanes') =< MaxGlobal
    BY <2>5, <2>6, <2>7, GlobalAssumption, SMT
  <2>9. \A l \in InFlightLanes : l[2] # k[2]
    BY <2>1, <2>2 DEF Busy
  <2>10. \A a, b \in LaneKeys : a # b /\ a[2] = b[2] /\ lane'[a].st \in InFlight =>
             lane'[b].st \notin InFlight
    BY <1>0, <1>1, <1>3, <2>9, ZenonT(40) DEF CapsHold, InFlightLanes
  <2> QED BY <2>7, <2>8, <2>10 DEF CapsHold, InFlightLanes
<1>10. SettledEverywhere'
  <2>1. \A i \in Intents : \A r \in Plan[i] : <<i, r>> \in LaneKeys
    BY AppsAssumption DEF FInv, Plan, LaneKeys
  <2> QED BY <1>0, <1>2, <1>3, <2>1, SMT DEF SettledEverywhere, Plan
<1>11. PromiseStep
  BY <1>3, NothingShown
<1> QED BY <1>5, <1>7, <1>8, <1>9, <1>10, <1>11 DEF Agreement

\* The second half of schedule_ready, for one lane.
LEMMA StartLaneKept ==
    ASSUME FInv, FInv', CorrTyped, PInv, UNCHANGED app, NEW k \in LaneKeys,
           NEW ok \in BOOLEAN, StartLane(k, ok)
    PROVE  PInv' /\ PromiseStep
<1> DEFINE job == Head(todo)
           visited == [job EXCEPT !.done = @ \cup {k}]
           waits == Waiting("WaitingAuth")
<1>1. /\ up /\ todo # <<>> /\ job.op = "start" /\ k \in Targets(job)
      /\ Continue(<<visited>>) /\ UNCHANGED <<up, pend, wire, heard>>
  BY DEF StartLane, Running, links
<1>2. k \in OpenLanes /\ Actionable(k) /\ lane[k].st = "Eligible" /\ k \in known
  BY <1>1 DEF Targets, Actionable, OpenLanes
<1>3. ok /\ UNCHANGED left
  <2>1. Commit(ok)
    BY DEF StartLane, CommitLane
  <2> QED BY <2>1, NoFault DEF PInv, Agreement
<1>4. /\ waits \in Moves /\ waits.st = "WaitingAuth" /\ waits.out = "None"
      /\ waits.end = "None"
  BY MoveFields, SMT DEF Waiting, LaneStates
<1>5. job \in PlainJobs
  BY <1>1, HeadPlain DEF FInv
<1>6. visited \in PlainJobs /\ Milder(visited, job) /\ visited.op = job.op
  BY <1>1, <1>5, VisitedPlain, VisitedMilder DEF LaneOps
<1> HIDE DEF visited
<1>7. <<visited>> \in Seq(PlainJobs) /\ Held(<<visited>>) = {visited}
  BY <1>6, HeldFew, SMT
<1>8. visited.op \notin RouteOps
  BY <1>1, <1>6, LaneOpsApart DEF LaneOps
<1> HIDE DEF job, waits
<1>9. CASE ReplaceLane(k, waits) /\ UNCHANGED corr
  <2>1. Agreement' /\ PromiseStep
    BY <1>1, <1>2, <1>3, <1>4, <1>9, LaneMoveKept DEF FInv, PInv, InFlight
  <2>2. lane'[k] = [st |-> waits.st, out |-> waits.out]
        /\ \A l \in LaneKeys \ {k} : lane'[l] = lane[l]
    BY <1>2, <1>4, <1>9, ReplaceReports DEF FInv, InFlight
  <2>3. UNCHANGED <<intent, routes>> /\ known \subseteq known'
    BY <1>9 DEF ReplaceLane
  <2>4. /\ \A l \in LaneKeys : lane[l].st # "None" => lane'[l].st # "None"
        /\ \A l \in LaneKeys : lane'[l].st \in InFlight => lane[l].st \in InFlight
    BY <1>4, <2>2, SMT DEF InFlight
  <2>5. JobsAgree' /\ LanesBuilt' /\ FlightsKnown'
    BY <1>1, <1>6, <1>7, <1>8, <2>3, <2>4, LaneQueueKept DEF job, LaneOps
  <2> QED BY <2>1, <2>5 DEF PInv
<1>10. CASE /\ ~ Gated(Session(k))
            /\ lane' = [lane EXCEPT ![k].st = "AwaitingHandoff"]
            /\ att' = [att EXCEPT ![k] = Append(@, [handoff |-> "None", end |-> "None"])]
            /\ corr' = corr \cup {[key |-> k, ord |-> Ordinal(k) + 1, sent |-> FALSE]}
            /\ UNCHANGED <<intent, receipt, routes, known>>
  <2>1. Agreement' /\ PromiseStep
    BY <1>1, <1>2, <1>3, <1>10, LaneStartKept DEF job
  <2>2. /\ \A l \in LaneKeys : lane[l].st # "None" => lane'[l].st # "None"
        /\ \A l \in LaneKeys : lane'[l].st \in InFlight => lane[l].st \in InFlight \/ l \in known
    BY <1>2, <1>10 DEF FInv, Rows, LaneRows
  <2>3. JobsAgree' /\ LanesBuilt' /\ FlightsKnown'
    BY <1>1, <1>6, <1>7, <1>8, <1>10, <2>2, LaneQueueKept DEF job, LaneOps
  <2> QED BY <2>1, <2>3 DEF PInv
<1> QED BY <1>3, <1>9, <1>10 DEF StartLane, CommitLane, waits
=============================================================================
