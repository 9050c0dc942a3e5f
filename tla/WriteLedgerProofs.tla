------------------------- MODULE WriteLedgerProofs --------------------------
(***************************************************************************)
(* What failed commits leave behind in the write plane, for every number   *)
(* of writes and relays, every application and any number of faults.       *)
(***************************************************************************)
EXTENDS WriteLaneProofs

USE Zenon

(***************************************************************************)
(* Jobs.                                                                   *)
(***************************************************************************)

\* Which jobs are plain depends on the application at hand only.
LEMMA PlainSteady ==
    ASSUME UNCHANGED app PROVE PlainJobs' = PlainJobs
BY DEF PlainJobs, Plan

\* A job that has work still has it when nothing changed.
LEMMA HeadKept ==
    ASSUME HeadWorks, UNCHANGED vars, UNCHANGED app PROVE HeadWorks'
<1>1. /\ lane' = lane /\ att' = att /\ pend' = pend /\ known' = known
      /\ learned' = learned /\ conn' = conn /\ probe' = probe /\ required' = required
      /\ ready' = ready /\ corr' = corr /\ todo' = todo /\ app' = app
  BY DEF vars, store, links
<1>2. OpenLanes' = OpenLanes
  BY <1>1 DEF OpenLanes
<1>3. Full' <=> Full
  BY <1>1, <1>2 DEF Full
<1> DEFINE job == Head(todo)
<1>4. Targets(job)' = Targets(job)
  BY <1>1, <1>2, <1>3, SMT DEF Targets, HasDeadline, HandoffIsOutstanding, Ordinal,
                          Actionable, Gated, Busy
<1>5. CanClose(job.arg)' <=> CanClose(job.arg)
  BY <1>1 DEF CanClose
<1>6. NothingNew(job.arg)' <=> NothingNew(job.arg)
  BY <1>1 DEF NothingNew, Answer, AnswerComplete, Plan, Early, Explicit
<1> QED BY <1>1, <1>4, <1>5, <1>6 DEF HeadWorks, Void

\* What is left of plain jobs once the void ones at the front are gone.
LEMMA PlainDo ==
    ASSUME NEW jobs \in Seq(PlainJobs), Do(jobs), UNCHANGED app
    PROVE  Queue'
<1>1. PICK n \in 1 .. Len(jobs) + 1 : todo' = SubSeq(jobs, n, Len(jobs))
  BY DEF Do
<1>2. HeadWorks'
  BY DEF Do
<1>3. todo' \in Seq(PlainJobs)
  BY <1>1, SMT
<1>4. CASE todo' # <<>>
  <2>1. Head(todo') \in PlainJobs /\ Tail(todo') \in Seq(PlainJobs)
        /\ todo' = <<Head(todo')>> \o Tail(todo')
    BY <1>3, <1>4, SMT
  <2> QED BY <1>2, <2>1, PlainSteady DEF Queue, HeadFits
<1> QED BY <1>4 DEF Queue

\* A handler that puts plain jobs before the rest of its queue keeps the queue
\* in form.
LEMMA PlainContinue ==
    ASSUME NEW jobs \in Seq(PlainJobs), Continue(jobs), Queue, todo # <<>>,
           UNCHANGED app
    PROVE  Queue'
<1>1. jobs \o Tail(todo) \in Seq(PlainJobs)
  BY SMT DEF Queue
<1> QED BY <1>1, PlainDo DEF Continue

-----------------------------------------------------------------------------
(***************************************************************************)
(* The ledger.                                                             *)
(***************************************************************************)

\* A step that leaves the lanes and the attempts alone keeps the ledger.
LEMMA LedgerKept ==
    ASSUME Rows, LedgerSound, UNCHANGED <<lane, att>>
    PROVE  Rows' /\ LedgerSound' /\ FinalStep
BY DEF Rows, LedgerSound, FinalStep, Ordinal, ContradictoryHistory, Runs

\* A commit that ends an attempt exactly if the lane runs one, and leaves the
\* lane out of flight.
LEMMA LaneReplaced ==
    ASSUME Rows, LedgerSound, NEW k \in LaneKeys, NEW m \in Moves,
           m.st \notin InFlight, lane[k].st \in InFlight <=> m.end # "None",
           lane[k].st # "Terminal", ReplaceLane(k, m)
    PROVE  Rows' /\ LedgerSound' /\ FinalStep
<1> DEFINE row == [st |-> m.st, out |-> m.out]
<1>1. row \in LaneRows /\ row.st = m.st
  BY DEF LaneRows, Moves
<1>2. lane' = [lane EXCEPT ![k] = row]
  BY DEF ReplaceLane
<1> HIDE DEF row
<1>3. lane' \in [LaneKeys -> LaneRows] /\ FinalStep
  BY <1>1, <1>2 DEF Rows, FinalStep
<1>4. CASE m.end = "None"
  <2>1. att' = att
    BY <1>4 DEF ReplaceLane
  <2> QED BY <1>1, <1>2, <1>3, <1>4, <2>1
          DEF Rows, LedgerSound, Ordinal, ContradictoryHistory, Runs
<1>5. CASE m.end # "None"
  <2> DEFINE o == Len(att[k])
             q == [att[k] EXCEPT ![o].end = m.end]
  <2>1. o \in Nat \ {0} /\ att[k] \in Seq(AttemptRows) /\ att[k][o] \in AttemptRows
    BY <1>5, SMT DEF Rows, LedgerSound, Ordinal
  <2>2. m.end \in Ends
    BY <1>5 DEF Moves
  <2>3. [att[k][o] EXCEPT !.end = m.end] \in AttemptRows
    BY <2>1, <2>2 DEF AttemptRows
  <2>4. /\ q \in Seq(AttemptRows) /\ Len(q) = o
        /\ q[o].end = m.end
        /\ \A x \in 1 .. o - 1 : q[x] = att[k][x]
    BY <2>1, <2>3, SMT DEF AttemptRows
  <2>5. att' = [att EXCEPT ![k] = q]
    BY <1>5 DEF ReplaceLane, Ordinal
  <2> HIDE DEF q
  <2>6. att' \in [LaneKeys -> Seq(AttemptRows)] /\ att'[k] = q
    BY <2>4, <2>5 DEF Rows
  <2>7. ASSUME NEW l \in LaneKeys
        PROVE  /\ lane'[l].st \in InFlight <=>
                      Len(att'[l]) > 0 /\ Runs(att'[l][Len(att'[l])])
               /\ ~ \E x \in 1 .. Len(att'[l]) - 1 : Runs(att'[l][x])
    <3>1. CASE l = k
      <4>1. lane'[l].st \notin InFlight
        BY <3>1, <1>1, <1>2 DEF Rows
      <4>2. \A x \in 1 .. o - 1 : ~ Runs(att[k][x])
        BY DEF LedgerSound, Ordinal, ContradictoryHistory
      <4>3. ~ Runs(q[o])
        BY <1>5, <2>4 DEF Runs
      <4> QED BY <3>1, <2>1, <2>4, <2>6, <4>1, <4>2, <4>3, SMT
    <3>2. CASE l # k
      <4>1. lane'[l] = lane[l] /\ att'[l] = att[l]
        BY <3>2, <1>2, <2>5 DEF Rows
      <4> QED BY <4>1 DEF LedgerSound, Ordinal, ContradictoryHistory
    <3> QED BY <3>1, <3>2
  <2> QED BY <1>3, <2>6, <2>7
          DEF Rows, LedgerSound, Ordinal, ContradictoryHistory, Runs
<1> QED BY <1>4, <1>5

\* The start of an attempt, on a lane that runs none.
LEMMA LaneStarted ==
    ASSUME Rows, LedgerSound, NEW k \in LaneKeys, lane[k].st = "Eligible",
           lane' = [lane EXCEPT ![k].st = "AwaitingHandoff"],
           att' = [att EXCEPT ![k] =
                      Append(@, [handoff |-> "None", end |-> "None"])]
    PROVE  Rows' /\ LedgerSound' /\ FinalStep
<1> DEFINE row == [lane[k] EXCEPT !.st = "AwaitingHandoff"]
           new == [handoff |-> "None", end |-> "None"]
           q == Append(att[k], new)
           o == Len(att[k])
<1>1. row \in LaneRows /\ row.st = "AwaitingHandoff" /\ lane' = [lane EXCEPT ![k] = row]
  BY DEF Rows, LaneRows, LaneStates
<1>2. new \in AttemptRows /\ Runs(new)
  BY DEF AttemptRows, Runs
<1> HIDE DEF row, new
<1>3. /\ att[k] \in Seq(AttemptRows) /\ o \in Nat
      /\ q \in Seq(AttemptRows) /\ Len(q) = o + 1
      /\ q[o + 1] = new /\ \A x \in 1 .. o : q[x] = att[k][x]
  BY <1>2, SMT DEF Rows
<1>4. att' = [att EXCEPT ![k] = q]
  BY DEF new
<1> HIDE DEF q
<1>5. lane' \in [LaneKeys -> LaneRows] /\ FinalStep /\ lane'[k] = row
  BY <1>1 DEF Rows, FinalStep
<1>6. att' \in [LaneKeys -> Seq(AttemptRows)] /\ att'[k] = q
  BY <1>3, <1>4 DEF Rows
<1>7. ASSUME NEW l \in LaneKeys
      PROVE  /\ lane'[l].st \in InFlight <=>
                    Len(att'[l]) > 0 /\ Runs(att'[l][Len(att'[l])])
             /\ ~ \E x \in 1 .. Len(att'[l]) - 1 : Runs(att'[l][x])
  <2>1. CASE l = k
    <3>1. \A x \in 1 .. o : ~ Runs(att[k][x])
      BY <1>3, SMT DEF LedgerSound, Ordinal, ContradictoryHistory, InFlight
    <3> QED BY <2>1, <3>1, <1>1, <1>2, <1>3, <1>5, <1>6, SMT DEF InFlight
  <2>2. CASE l # k
    <3>1. lane'[l] = lane[l] /\ att'[l] = att[l]
      BY <2>2, <1>1, <1>4 DEF Rows
    <3> QED BY <3>1 DEF LedgerSound, Ordinal, ContradictoryHistory
  <2> QED BY <2>1, <2>2
<1> QED BY <1>5, <1>6, <1>7
        DEF Rows, LedgerSound, Ordinal, ContradictoryHistory, Runs

\* The report on an attempt its lane awaits.
LEMMA HandoffRecorded ==
    ASSUME Rows, LedgerSound, NEW k \in LaneKeys, NEW result \in Handoffs,
           lane[k].st = "AwaitingHandoff", HandoffCommit(k, result)
    PROVE  Rows' /\ LedgerSound' /\ FinalStep
<1> DEFINE new == IF result = "NotHandedOff" THEN "WaitingConnection"
                  ELSE "AwaitingAck"
           row == [lane[k] EXCEPT !.st = new]
           o == Len(att[k])
           q == [att[k] EXCEPT ![o].handoff = result]
<1>1. row \in LaneRows /\ row.st = new /\ lane' = [lane EXCEPT ![k] = row]
  BY DEF Rows, LaneRows, LaneStates, HandoffCommit
<1>2. o \in Nat \ {0} /\ att[k] \in Seq(AttemptRows) /\ att[k][o] \in AttemptRows
      /\ Runs(att[k][o])
  BY SMT DEF Rows, LedgerSound, Ordinal, InFlight
<1>3. [att[k][o] EXCEPT !.handoff = result] \in AttemptRows
  BY <1>2 DEF AttemptRows
<1>4. /\ q \in Seq(AttemptRows) /\ Len(q) = o
      /\ q[o].handoff = result /\ q[o].end = att[k][o].end
      /\ \A x \in 1 .. o - 1 : q[x] = att[k][x]
  BY <1>2, <1>3, SMT DEF AttemptRows
<1>5. att' = [att EXCEPT ![k] = q]
  BY DEF HandoffCommit, Ordinal
<1>6. Runs(q[o]) <=> new \in InFlight
  BY <1>2, <1>4 DEF Runs, InFlight, Handoffs
<1> HIDE DEF row, q, new
<1>7. lane' \in [LaneKeys -> LaneRows] /\ FinalStep /\ lane'[k] = row
  BY <1>1 DEF Rows, FinalStep
<1>8. att' \in [LaneKeys -> Seq(AttemptRows)] /\ att'[k] = q
  BY <1>4, <1>5 DEF Rows
<1>9. ASSUME NEW l \in LaneKeys
      PROVE  /\ lane'[l].st \in InFlight <=>
                    Len(att'[l]) > 0 /\ Runs(att'[l][Len(att'[l])])
             /\ ~ \E x \in 1 .. Len(att'[l]) - 1 : Runs(att'[l][x])
  <2>1. CASE l = k
    <3>1. \A x \in 1 .. o - 1 : ~ Runs(att[k][x])
      BY DEF LedgerSound, Ordinal, ContradictoryHistory
    <3> QED BY <2>1, <3>1, <1>1, <1>2, <1>4, <1>6, <1>7, <1>8, SMT
  <2>2. CASE l # k
    <3>1. lane'[l] = lane[l] /\ att'[l] = att[l]
      BY <2>2, <1>1, <1>5 DEF Rows
    <3> QED BY <3>1 DEF LedgerSound, Ordinal, ContradictoryHistory
  <2> QED BY <2>1, <2>2
<1> QED BY <1>7, <1>8, <1>9
        DEF Rows, LedgerSound, Ordinal, ContradictoryHistory, Runs

\* The lanes minted for a route revision run no attempt.
LEMMA LanesBuiltSound ==
    ASSUME Rows, LedgerSound, NEW i \in Intents, BuildLanes(i)
    PROVE  Rows' /\ LedgerSound' /\ FinalStep
<1> DEFINE fresh == [st |-> "WaitingConnection", out |-> "None"]
<1>1. fresh \in LaneRows /\ fresh.st \notin InFlight
  BY DEF LaneRows, LaneStates, InFlight
<1>2. att' = att
  BY DEF BuildLanes
<1>3. ASSUME NEW k \in LaneKeys
      PROVE  lane'[k] = lane[k] \/ (lane[k].st = "None" /\ lane'[k] = fresh)
  BY DEF BuildLanes
<1>4. lane' = [k \in LaneKeys |-> lane'[k]]
  BY DEF BuildLanes
<1> HIDE DEF fresh
<1>5. lane' \in [LaneKeys -> LaneRows] /\ FinalStep
  BY <1>1, <1>3, <1>4 DEF Rows, FinalStep
<1>6. \A k \in LaneKeys : lane'[k].st \in InFlight <=> lane[k].st \in InFlight
  BY <1>1, <1>3 DEF InFlight
<1> QED BY <1>2, <1>5, <1>6
        DEF Rows, LedgerSound, Ordinal, ContradictoryHistory, Runs

-----------------------------------------------------------------------------
(***************************************************************************)
(* The steps of a handler.                                                 *)
(***************************************************************************)

\* A step that leaves the receipts alone keeps them true.
LEMMA ReceiptsKept ==
    ASSUME ReceiptsTrue, UNCHANGED <<receipt, app>> PROVE ReceiptsTrue'
BY DEF ReceiptsTrue, NoDestinationIsTrue, Plan

\* A receipt moved to a state other than NoDestination, or to NoDestination
\* for a write whose plan is empty, is true.
LEMMA ReceiptMoved ==
    ASSUME ReceiptsTrue, UNCHANGED app, NEW i \in Intents, NEW r \in Receipts,
           r = "NoDestination" => Plan[i] = {},
           receipt' = [receipt EXCEPT ![i] = r]
    PROVE  ReceiptsTrue'
BY DEF ReceiptsTrue, NoDestinationIsTrue, Plan

\* A lane's commit, whether it succeeds or fails.
LEMMA CommitLaneSound ==
    ASSUME FInv, UNCHANGED app, NEW k \in LaneKeys, NEW m \in Moves,
           NEW ok \in BOOLEAN, CommitLane(k, m, ok),
           m.st \notin InFlight, lane[k].st \in InFlight <=> m.end # "None",
           lane[k].st # "Terminal"
    PROVE  Rows' /\ LedgerSound' /\ FinalStep /\ ReceiptsTrue'
<1>1. CASE ok
  <2>1. ReplaceLane(k, m) /\ UNCHANGED receipt
    BY <1>1 DEF CommitLane, ReplaceLane
  <2> QED BY <2>1, LaneReplaced, ReceiptsKept DEF FInv
<1>2. CASE ~ ok
  <2>1. UNCHANGED <<lane, att, receipt>>
    BY <1>2 DEF CommitLane, Commit, store
  <2> QED BY <2>1, LedgerKept, ReceiptsKept DEF FInv
<1> QED BY <1>1, <1>2

\* One lane of a lane job: whatever the commit does, the ledger stays sound.
LEMMA VisitLaneSound ==
    ASSUME FInv, UNCHANGED app, NEW ok \in BOOLEAN, VisitLane(ok)
    PROVE  FInv' /\ FinalStep
<1> DEFINE job == Head(todo)
           k == CHOOSE l \in Targets(job) : TRUE
           m == JobMove(job.op, k)
           visited == [job EXCEPT !.done = @ \cup {k}]
<1>1. todo # <<>> /\ job.op \in LaneOps \ {"start"} /\ CommitLane(k, m, ok)
      /\ Continue(ThenClose(k, m, ok)
                     \o <<IF job.op = "due" /\ ~ ok THEN job ELSE visited>>)
  BY DEF VisitLane
<1>2. ~ Void(job)
  BY <1>1 DEF FInv, Queue, HeadWorks
<1>3. Targets(job) # {}
  BY <1>1, <1>2 DEF Void
<1>4. k \in Targets(job)
  BY <1>3
<1>5. job \in PlainJobs
  BY <1>1, HeadPlain DEF FInv, LaneOps
<1> HIDE DEF job, k
<1>6. /\ k \in LaneKeys /\ m \in Moves /\ m.st \notin InFlight
      /\ lane[k].st \in InFlight <=> m.end # "None"
      /\ lane[k].st # "Terminal"
  BY <1>1, <1>4, JobMoveSound DEF FInv
<1> HIDE DEF m
<1>7. Rows' /\ LedgerSound' /\ FinalStep /\ ReceiptsTrue'
  BY <1>1, <1>6, CommitLaneSound
<1>8. visited \in PlainJobs
  BY <1>1, <1>5, <1>6, VisitedPlain
<1> HIDE DEF visited
<1>9. ThenClose(k, m, ok) \o <<IF job.op = "due" /\ ~ ok THEN job ELSE visited>>
          \in Seq(PlainJobs)
  BY <1>5, <1>6, <1>8, PlainThenClose, SMT
<1>10. Queue'
  BY <1>1, <1>9, PlainContinue DEF FInv
<1> QED BY <1>7, <1>10 DEF FInv

\* The commit of a relay's answer ends the attempt the lane awaits.
LEMMA ApplyMoveSound ==
    ASSUME FInv, UNCHANGED app, NEW ok \in BOOLEAN, ApplyMove(ok)
    PROVE  FInv' /\ FinalStep
<1> DEFINE k == Head(todo).arg
           m == Head(todo).move
<1>1. todo # <<>> /\ Head(todo).op = "apply" /\ CommitLane(k, m, ok)
      /\ Continue(ThenClose(k, m, ok))
  BY DEF ApplyMove, Running
<1>2. k \in LaneKeys /\ m \in Moves /\ lane[k].st = "AwaitingAck" /\ EndsAttempt(m)
  BY <1>1 DEF FInv, Queue, HeadFits, PlainJobs
<1> HIDE DEF k, m
<1>3. Rows' /\ LedgerSound' /\ FinalStep /\ ReceiptsTrue'
  BY <1>1, <1>2, CommitLaneSound DEF EndsAttempt, InFlight
<1>4. Queue'
  BY <1>1, <1>2, PlainThenClose, PlainContinue DEF FInv
<1> QED BY <1>3, <1>4 DEF FInv

\* schedule_ready journals an attempt only on a lane that runs none.
LEMMA StartLaneSound ==
    ASSUME FInv, UNCHANGED app, NEW k \in LaneKeys, NEW ok \in BOOLEAN,
           StartLane(k, ok)
    PROVE  FInv' /\ FinalStep
<1> DEFINE job == Head(todo)
           visited == [job EXCEPT !.done = @ \cup {k}]
<1>1. todo # <<>> /\ job.op = "start" /\ k \in Targets(job) /\ Continue(<<visited>>)
  BY DEF StartLane, Running
<1>2. lane[k].st = "Eligible"
  BY <1>1 DEF Targets, Actionable
<1>3. Rows' /\ LedgerSound' /\ FinalStep /\ ReceiptsTrue'
  <2>1. CASE CommitLane(k, Waiting("WaitingAuth"), ok)
    <3>1. /\ Waiting("WaitingAuth") \in Moves
          /\ Waiting("WaitingAuth").st \notin InFlight
          /\ Waiting("WaitingAuth").end = "None"
      BY DEF Waiting, Move, Moves, LaneStates, InFlight
    <3> QED BY <1>2, <2>1, <3>1, CommitLaneSound DEF InFlight
  <2>2. CASE /\ lane' = [lane EXCEPT ![k].st = "AwaitingHandoff"]
             /\ att' = [att EXCEPT ![k] =
                           Append(@, [handoff |-> "None", end |-> "None"])]
             /\ UNCHANGED receipt
    BY <1>2, <2>2, LaneStarted, ReceiptsKept DEF FInv
  <2>3. CASE ~ ok /\ Commit(ok)
    <3>1. UNCHANGED <<lane, att, receipt>>
      BY <2>3 DEF Commit, store
    <3> QED BY <3>1, LedgerKept, ReceiptsKept DEF FInv
  <2> QED BY <2>1, <2>2, <2>3 DEF StartLane
<1>4. job \in PlainJobs
  BY <1>1, HeadPlain DEF FInv
<1>5. visited \in PlainJobs
  BY <1>1, <1>4, VisitedPlain DEF LaneOps
<1> HIDE DEF visited, job
<1>6. <<visited>> \in Seq(PlainJobs)
  BY <1>5, SMT
<1>7. Queue'
  BY <1>1, <1>6, PlainContinue DEF FInv
<1> QED BY <1>3, <1>7 DEF FInv

\* A job of an intent that moves no lane.
LEMMA IntentStepSound ==
    ASSUME FInv, UNCHANGED <<app, lane, att>>, ReceiptsTrue', todo # <<>>,
           NEW jobs \in Seq(PlainJobs), Continue(jobs)
    PROVE  FInv' /\ FinalStep
BY LedgerKept, PlainContinue DEF FInv

\* A complete answer that names no relay means a plan that names none.
LEMMA PlanKnown ==
    ASSUME app \in Apps, NEW i \in Intents, AnswerComplete(i), Answer(i) = {}
    PROVE  Plan[i] = {}
BY RouteAssumption DEF AnswerComplete, Answer, Plan, Early, Explicit

\* The jobs of one write: promotion, retraction, routing, lane building, closing.
LEMMA IntentJobsSound ==
    ASSUME FInv, UNCHANGED app, NEW i \in Intents, NEW ok \in BOOLEAN,
           \/ PromoteSigned(i, ok)
           \/ \E op \in {"compensate", "cancel"} : Retract(i, op, ok)
           \/ RecordRoutes(i, ok)
           \/ \E op \in {"bootstrap", "bootLanes"} : BootstrapLanes(i, op, ok)
           \/ CloseUnroutable(i, ok)
           \/ CloseIfAllLanesTerminal(i, ok)
           \/ BootRoutes(i, ok)
           \/ ok /\ NoNewRoutes(i)
           \/ ~ ok /\ BootRoutesUnread(i)
    PROVE  FInv' /\ FinalStep
<1>0. Commit(FALSE) => UNCHANGED <<lane, att, receipt>>
  BY DEF Commit, store
<1>a. ReceiptsTrue
  BY DEF FInv
<1>b. <<>> \in Seq(PlainJobs)
  BY SMT
<1>1. CASE PromoteSigned(i, ok)
  <2>1. todo # <<>> /\ UNCHANGED <<lane, att>>
    BY <1>0, <1>1 DEF PromoteSigned, IntentStep, Running
  <2>2. receipt' = receipt \/ receipt' = [receipt EXCEPT ![i] = "Signed"]
    BY <1>0, <1>1 DEF PromoteSigned
  <2>3. ReceiptsTrue'
    BY <1>a, <2>2, ReceiptsKept, ReceiptMoved DEF Receipts
  <2>4. <<IF ok THEN Route(i) ELSE Compensate(i)>> \in Seq(PlainJobs)
    BY PlainIntentJobs, SMT
  <2> QED BY <1>1, <2>1, <2>3, <2>4, IntentStepSound DEF PromoteSigned
<1>2. ASSUME NEW op \in {"compensate", "cancel"}, Retract(i, op, ok)
      PROVE  FInv' /\ FinalStep
  <2>1. todo # <<>> /\ UNCHANGED <<lane, att>>
    BY <1>0, <1>2 DEF Retract, IntentStep, Running
  <2>2. \/ receipt' = receipt
        \/ receipt' = [receipt EXCEPT ![i] = IF op = "cancel" THEN "Cancelled"
                                             ELSE "Compensated"]
    BY <1>0, <1>2 DEF Retract
  <2>3. ReceiptsTrue'
    BY <1>a, <2>2, ReceiptsKept, ReceiptMoved DEF Receipts
  <2>4. (IF ok /\ op = "cancel" THEN Schedule ELSE <<>>) \in Seq(PlainJobs)
    BY PlainSchedule, SMT
  <2>5. Continue(IF ok /\ op = "cancel" THEN Schedule ELSE <<>>)
    BY <1>2 DEF Retract
  <2> QED BY <2>1, <2>3, <2>4, <2>5, IntentStepSound
<1>3. CASE RecordRoutes(i, ok)
  <2>1. todo # <<>> /\ UNCHANGED <<lane, att, receipt>>
    BY <1>0, <1>3 DEF RecordRoutes, IntentStep, Running
  <2>2. (IF ok THEN <<Bootstrap(i)>> ELSE <<>>) \in Seq(PlainJobs)
    BY PlainIntentJobs, SMT
  <2> QED BY <1>3, <1>a, <2>1, <2>2, ReceiptsKept, IntentStepSound DEF RecordRoutes
<1>4. ASSUME NEW op \in {"bootstrap", "bootLanes"}, BootstrapLanes(i, op, ok)
      PROVE  FInv' /\ FinalStep
  <2>1. todo # <<>>
    BY <1>4 DEF BootstrapLanes, IntentStep, Running
  <2>2. Rows' /\ LedgerSound' /\ FinalStep /\ ReceiptsTrue'
    <3>1. CASE ok
      <4>1. BuildLanes(i) /\ UNCHANGED receipt
        BY <1>4, <3>1 DEF BootstrapLanes, BuildLanes
      <4> QED BY <1>a, <4>1, LanesBuiltSound, ReceiptsKept DEF FInv
    <3>2. CASE ~ ok
      <4>1. UNCHANGED <<lane, att, receipt>>
        BY <1>4, <1>0, <3>2 DEF BootstrapLanes
      <4> QED BY <1>a, <4>1, LedgerKept, ReceiptsKept DEF FInv
    <3> QED BY <3>1, <3>2
  <2> DEFINE jobs == IF ~ ok THEN <<>> ELSE IF op = "bootLanes" THEN <<Reopen(i)>>
                     ELSE <<Open(i)>> \o Schedule
  <2>3. jobs \in Seq(PlainJobs)
    BY PlainIntentJobs, PlainSchedule, SMT
  <2>4. Continue(jobs)
    BY <1>4 DEF BootstrapLanes
  <2> HIDE DEF jobs
  <2>5. Queue'
    BY <2>1, <2>3, <2>4, PlainContinue DEF FInv
  <2> QED BY <2>2, <2>5 DEF FInv
<1>5. CASE CloseUnroutable(i, ok)
  <2>1. todo # <<>> /\ UNCHANGED <<lane, att>>
        /\ Head(todo).op = "unroutable" /\ i = Head(todo).arg
    BY <1>0, <1>5 DEF CloseUnroutable, IntentStep, Running
  <2>2. receipt' = receipt \/ receipt' = [receipt EXCEPT ![i] = "NoDestination"]
    BY <1>0, <1>5 DEF CloseUnroutable
  <2>3. Plan[i] = {}
    BY <2>1, HeadPlain DEF FInv, PlainJobs
  <2>4. ReceiptsTrue'
    BY <1>a, <2>2, <2>3, ReceiptsKept, ReceiptMoved DEF Receipts
  <2> QED BY <1>5, <1>b, <2>1, <2>4, IntentStepSound DEF CloseUnroutable
<1>6. CASE CloseIfAllLanesTerminal(i, ok)
  <2>1. todo # <<>> /\ UNCHANGED <<lane, att, receipt>> /\ Continue(<<>>)
    BY <1>0, <1>6 DEF CloseIfAllLanesTerminal, IntentStep, Running, store
  <2> QED BY <1>a, <1>b, <2>1, ReceiptsKept, IntentStepSound
<1>7. CASE BootRoutes(i, ok)
  <2>1. todo # <<>> /\ UNCHANGED <<lane, att, receipt>>
    BY <1>0, <1>7 DEF BootRoutes, IntentStep, Running
  <2>2. <<BootLanes(i)>> \in Seq(PlainJobs) /\ Continue(<<BootLanes(i)>>)
    BY <1>7, PlainIntentJobs, SMT DEF BootRoutes
  <2> QED BY <1>a, <2>1, <2>2, ReceiptsKept, IntentStepSound
<1>8. CASE NoNewRoutes(i)
  <2>1. todo # <<>> /\ UNCHANGED <<lane, att, receipt>>
    BY <1>8 DEF NoNewRoutes, IntentStep, Running, store
  <2>2. pend[i].routed = {} /\ AnswerComplete(i) => Plan[i] = {}
    BY <1>8, PlanKnown DEF FInv, NoNewRoutes
  <2>3. (IF pend[i].routed = {} /\ AnswerComplete(i) THEN <<Unroutable(i)>> ELSE <<>>)
            \in Seq(PlainJobs)
    <3>1. CASE pend[i].routed = {} /\ AnswerComplete(i)
      <4>1. "unroutable" \in IntentOps
        BY DEF IntentOps
      <4>2. Unroutable(i) \in PlainJobs
        BY <2>2, <3>1, <4>1, PlainIntentJob DEF Unroutable
      <4>3. <<Unroutable(i)>> \in Seq(PlainJobs)
        BY <4>2, SMT
      <4> QED BY <3>1, <4>3
    <3>2. CASE ~ (pend[i].routed = {} /\ AnswerComplete(i))
      BY <1>b, <3>2
    <3> QED BY <3>1, <3>2
  <2> QED BY <1>8, <1>a, <2>1, <2>3, ReceiptsKept, IntentStepSound DEF NoNewRoutes
<1>9. CASE BootRoutesUnread(i)
  <2>1. todo # <<>> /\ UNCHANGED <<lane, att, receipt>> /\ Continue(<<>>)
    BY <1>0, <1>9 DEF BootRoutesUnread, IntentStep, Running
  <2> QED BY <1>a, <1>b, <2>1, ReceiptsKept, IntentStepSound
<1> QED BY <1>1, <1>2, <1>3, <1>4, <1>5, <1>6, <1>7, <1>8, <1>9

\* Every commit of a running handler keeps the invariant.
LEMMA HandlerStepSound ==
    ASSUME FInv, UNCHANGED app, HandlerStep
    PROVE  FInv' /\ FinalStep
BY VisitLaneSound, ApplyMoveSound, StartLaneSound, IntentJobsSound DEF HandlerStep

-----------------------------------------------------------------------------
(***************************************************************************)
(* The messages.                                                           *)
(***************************************************************************)

\* A message that changes no row and starts plain jobs.
LEMMA MessageSound ==
    ASSUME FInv, UNCHANGED app, NEW jobs \in Seq(PlainJobs), Message(jobs)
    PROVE  FInv' /\ FinalStep
<1>1. UNCHANGED <<lane, att, receipt>> /\ Do(jobs)
  BY DEF Message, store
<1> QED BY <1>1, LedgerKept, ReceiptsKept, PlainDo DEF FInv

\* The messages of the application and of the signer.
LEMMA WriteMessagesSound ==
    ASSUME FInv, UNCHANGED app,
           \/ \E i \in Intents : \E ok \in BOOLEAN : SignerCompleted(i, ok)
           \/ \E i \in Intents : SignerUnavailable(i)
           \/ \E i \in Intents : CancelWrite(i)
           \/ \E pk \in Authors : SignerAttached(pk)
           \/ AuthorRoutesLearned
           \/ \E D \in SUBSET LaneKeys : Tick(D)
    PROVE  FInv' /\ FinalStep
<1>0. <<>> \in Seq(PlainJobs)
  BY SMT
<1>1. ASSUME NEW i \in Intents, NEW ok \in BOOLEAN, SignerCompleted(i, ok)
      PROVE  FInv' /\ FinalStep
  <2>1. <<IF ok THEN Promote(i) ELSE Compensate(i)>> \in Seq(PlainJobs)
    BY PlainIntentJobs, SMT
  <2> QED BY <1>1, <2>1, MessageSound DEF SignerCompleted
<1>2. ASSUME NEW i \in Intents, SignerUnavailable(i)
      PROVE  FInv' /\ FinalStep
  BY <1>0, <1>2, MessageSound DEF SignerUnavailable
<1>3. ASSUME NEW i \in Intents, CancelWrite(i)
      PROVE  FInv' /\ FinalStep
  <2>1. <<Cancel(i)>> \in Seq(PlainJobs)
    BY PlainIntentJobs, SMT
  <2> QED BY <1>3, <2>1, MessageSound DEF CancelWrite
<1>4. ASSUME NEW pk \in Authors, SignerAttached(pk)
      PROVE  FInv' /\ FinalStep
  BY <1>0, <1>4, MessageSound DEF SignerAttached
<1>5. CASE AuthorRoutesLearned
  BY <1>5, PlainRewrite, MessageSound DEF AuthorRoutesLearned
<1>6. ASSUME NEW D \in SUBSET LaneKeys, Tick(D)
      PROVE  FInv' /\ FinalStep
  <2>1. Due(D) \in PlainJobs
    BY PlainLaneJob DEF Due, LaneJob, LaneOps, LaneArgs
  <2>2. RewriteOpenRoutes \o <<Due(D)>> \o Schedule \in Seq(PlainJobs)
    BY <2>1, PlainRewrite, PlainSchedule, SMT
  <2> QED BY <1>6, <2>2, MessageSound DEF Tick
<1> QED BY <1>1, <1>2, <1>3, <1>4, <1>5, <1>6

\* The messages about a relay session: connection, AUTH and deadlines.
LEMMA SessionMessagesSound ==
    ASSUME FInv, UNCHANGED app, NEW s \in Sessions,
           \/ RelayConnected(s)
           \/ RelayDisconnected(s)
           \/ \E ok \in BOOLEAN : AuthChallenge(s, ok) \/ AuthFinished(s, ok)
           \/ AuthRestricted(s)
           \/ AuthErred(s)
           \/ AuthCapabilityInvalidated(s)
           \/ AuthProbeReleased(s)
    PROVE  FInv' /\ FinalStep
<1>0. /\ Park(s) \in PlainJobs /\ Suspend(s) \in PlainJobs /\ Wake(s) \in PlainJobs
      /\ WakeAuth(s) \in PlainJobs /\ Deny(s) \in PlainJobs
      /\ Invalidate(s) \in Seq(PlainJobs) /\ Schedule \in Seq(PlainJobs)
  BY PlainPark, PlainSchedule
<1>1. CASE RelayConnected(s)
  <2>1. Invalidate(s) \o <<Wake(s)>> \o Schedule \in Seq(PlainJobs)
    BY <1>0, SMT
  <2> QED BY <1>1, <2>1, MessageSound DEF RelayConnected
<1>2. CASE RelayDisconnected(s)
  <2>1. Invalidate(s) \o <<Suspend(s)>> \o Schedule \in Seq(PlainJobs)
    BY <1>0, SMT
  <2> QED BY <1>2, <2>1, MessageSound DEF RelayDisconnected
<1>3. ASSUME NEW ok \in BOOLEAN, AuthChallenge(s, ok)
      PROVE  FInv' /\ FinalStep
  <2>1. <<Park(s)>> \in Seq(PlainJobs)
    BY <1>0, SMT
  <2> QED BY <1>3, <2>1, MessageSound DEF AuthChallenge
<1>4. ASSUME NEW ok \in BOOLEAN, AuthFinished(s, ok)
      PROVE  FInv' /\ FinalStep
  <2>1. <<IF ok THEN WakeAuth(s) ELSE Deny(s)>> \o Schedule \in Seq(PlainJobs)
    BY <1>0, SMT
  <2> QED BY <1>4, <2>1, MessageSound DEF AuthFinished
<1>5. CASE AuthRestricted(s)
  <2>1. (<<Park(s)>> \o IF s \in ready THEN <<Deny(s)>> \o Schedule ELSE <<>>)
            \in Seq(PlainJobs)
    BY <1>0, SMT
  <2> QED BY <1>5, <2>1, MessageSound DEF AuthRestricted
<1>6. CASE AuthErred(s)
  <2>1. <<>> \in Seq(PlainJobs)
    BY SMT
  <2> QED BY <1>6, <2>1, MessageSound DEF AuthErred
<1>7. CASE AuthCapabilityInvalidated(s)
  BY <1>0, <1>7, MessageSound DEF AuthCapabilityInvalidated
<1>8. CASE AuthProbeReleased(s)
  <2>1. <<WakeAuth(s)>> \o Schedule \in Seq(PlainJobs)
    BY <1>0, SMT
  <2> QED BY <1>8, <2>1, MessageSound DEF AuthProbeReleased
<1> QED BY <1>1, <1>2, <1>3, <1>4, <1>5, <1>6, <1>7, <1>8

\* An answer to the attempt a lane awaits becomes the first job.
LEMMA RelayOkSound ==
    ASSUME FInv, UNCHANGED app, NEW k \in LaneKeys,
           NEW class \in {"Answered", "Transient", "AuthRequired"},
           RelayOk(k, class)
    PROVE  FInv' /\ FinalStep
<1> DEFINE m == AckMove(k, class)
           jobs == <<Apply(k, m)>> \o Schedule
<1>1. CASE lane[k].st # "AwaitingAck"
  <2>1. Message(<<>> \o Schedule)
    BY <1>1 DEF RelayOk
  <2>2. <<>> \o Schedule \in Seq(PlainJobs)
    BY PlainSchedule, SMT
  <2> QED BY <2>1, <2>2, MessageSound
<1>2. CASE lane[k].st = "AwaitingAck"
  <2>1. Message(jobs)
    BY <1>2 DEF RelayOk
  <2>2. UNCHANGED <<lane, att, receipt>> /\ Do(jobs)
    BY <2>1 DEF Message, store
  <2>3. m \in Moves /\ EndsAttempt(m)
    <3>1. CASE class = "Answered"
      BY <3>1, MoveFields, SMT DEF AckMove, EndsAttempt, LaneStates, Outcomes, Ends, InFlight
    <3>2. CASE class = "Transient"
      BY <3>2, RetryEnds DEF AckMove
    <3>3. CASE class = "AuthRequired"
      BY <3>3, MoveFields, SMT DEF AckMove, AuthSuspended, EndsAttempt, LaneStates, Ends, InFlight
    <3> QED BY <3>1, <3>2, <3>3
  <2>a. k \in heard /\ heard' = heard
    BY DEF RelayOk
  <2> HIDE DEF m
  <2>4. /\ Apply(k, m) \in [op : {"apply"}, arg : LaneKeys, move : Moves]
        /\ Apply(k, m).arg = k /\ Apply(k, m).move = m
    BY <2>3 DEF Apply
  <2>5. PICK n \in 1 .. Len(jobs) + 1 : todo' = SubSeq(jobs, n, Len(jobs))
    BY <2>2 DEF Do
  <2>6. HeadWorks'
    BY <2>2 DEF Do
  <2>7. Schedule \in Seq(PlainJobs) /\ Schedule # <<>>
    BY PlainSchedule DEF Schedule
  <2>8. CASE n = 1
    <3>1. Len(jobs) \in Nat /\ todo' = jobs /\ Head(jobs) = Apply(k, m)
          /\ Tail(jobs) = Schedule
      BY <2>5, <2>7, <2>8, SMT
    <3> HIDE DEF jobs
    <3>2. HeadFits'
      BY <2>2, <2>3, <2>4, <2>a, <3>1, <1>2 DEF HeadFits
    <3>3. Tail(todo') \in Seq(PlainJobs') /\ todo' = <<Head(todo')>> \o Tail(todo')
      BY <2>7, <3>1, PlainSteady DEF jobs
    <3>4. Queue'
      BY <2>6, <3>2, <3>3 DEF Queue
    <3> QED BY <2>2, <3>4, LedgerKept, ReceiptsKept DEF FInv
  <2>9. CASE n # 1
    <3>1. Len(jobs) = 1 + Len(Schedule) /\ \A x \in 2 .. Len(jobs) : jobs[x] \in PlainJobs
      BY <2>7, SMT
    <3>2. todo' \in Seq(PlainJobs)
      BY <2>5, <2>7, <2>9, <3>1, SMT
    <3>3. CASE todo' # <<>>
      <4>1. Head(todo') \in PlainJobs /\ Tail(todo') \in Seq(PlainJobs)
            /\ todo' = <<Head(todo')>> \o Tail(todo')
        BY <3>2, <3>3, SMT
      <4> QED BY <2>2, <2>6, <4>1, PlainSteady, LedgerKept, ReceiptsKept
              DEF FInv, Queue, HeadFits
    <3>4. CASE todo' = <<>>
      BY <2>2, <3>4, LedgerKept, ReceiptsKept DEF FInv, Queue
    <3> QED BY <3>3, <3>4
  <2> QED BY <2>8, <2>9
<1> QED BY <1>1, <1>2

\* accept_write: the rows of the retired writes go, all others stay.
LEMMA PublishSound ==
    ASSUME FInv, UNCHANGED app, NEW i \in Intents, Publish(i)
    PROVE  FInv' /\ FinalStep
<1> DEFINE retired == {j \in Retires[i] : intent[j] # "None"}
<1>1. ASSUME NEW k \in LaneKeys
      PROVE  \/ lane'[k] = lane[k] /\ att'[k] = att[k]
             \/ lane'[k] = NoLane /\ att'[k] = <<>>
  BY DEF Publish
<1>2. lane' = [k \in LaneKeys |-> lane'[k]] /\ att' = [k \in LaneKeys |-> att'[k]]
  BY DEF Publish
<1>3. NoLane \in LaneRows /\ NoLane.st \notin InFlight /\ Len(<<>>) = 0
      /\ <<>> \in Seq(AttemptRows)
  BY SMT DEF NoLane, LaneRows, LaneStates, InFlight
<1>4. Rows' /\ FinalStep
  BY <1>1, <1>2, <1>3 DEF FInv, Rows, FinalStep
<1>5. ASSUME NEW l \in LaneKeys
      PROVE  /\ lane'[l].st \in InFlight <=>
                    Len(att'[l]) > 0 /\ Runs(att'[l][Len(att'[l])])
             /\ ~ \E x \in 1 .. Len(att'[l]) - 1 : Runs(att'[l][x])
  BY <1>1, <1>3, SMT DEF FInv, LedgerSound, Ordinal, ContradictoryHistory
<1>6. LedgerSound'
  BY <1>5 DEF LedgerSound, Ordinal, ContradictoryHistory, Runs
<1>7. ReceiptsTrue'
  BY DEF FInv, Publish, ReceiptsTrue, Receipts, NoDestinationIsTrue, Plan
<1>8. (IF i \in Presigned THEN <<Promote(i)>> ELSE <<>>) \in Seq(PlainJobs)
  BY PlainIntentJobs, SMT
<1>9. Queue'
  BY <1>8, PlainDo DEF Publish
<1> QED BY <1>4, <1>6, <1>7, <1>9 DEF FInv

\* A report on a handoff changes a lane only if the lane awaits that attempt.
LEMMA EventHandoffSound ==
    ASSUME FInv, UNCHANGED app, NEW c \in corr, c.key \in LaneKeys,
           NEW result \in Handoffs, NEW ok \in BOOLEAN, EventHandoff(c, result, ok)
    PROVE  FInv' /\ FinalStep
<1> DEFINE k == c.key
           awaited == lane[k].st = "AwaitingHandoff" /\ c.ord = Ordinal(k)
<1>1. Rows' /\ LedgerSound' /\ FinalStep /\ ReceiptsTrue'
  <2>1. CASE awaited /\ HandoffCommit(k, result)
    <3>1. UNCHANGED receipt
      BY <2>1 DEF HandoffCommit
    <3> QED BY <2>1, <3>1, HandoffRecorded, ReceiptsKept DEF FInv
  <2>2. CASE UNCHANGED store
    <3>1. UNCHANGED <<lane, att, receipt>>
      BY <2>2 DEF store
    <3> QED BY <3>1, LedgerKept, ReceiptsKept DEF FInv
  <2>3. CASE ~ ok /\ Commit(ok)
    <3>1. UNCHANGED <<lane, att, receipt>>
      BY <2>3 DEF Commit, store
    <3> QED BY <3>1, LedgerKept, ReceiptsKept DEF FInv
  <2> QED BY <2>1, <2>2, <2>3 DEF EventHandoff
<1>2. (IF ok /\ awaited THEN Schedule ELSE <<>>) \in Seq(PlainJobs)
  BY PlainSchedule, SMT
<1>3. Do(IF ok /\ awaited THEN Schedule ELSE <<>>)
  BY DEF EventHandoff
<1>4. Queue'
  BY <1>2, <1>3, PlainDo
<1> QED BY <1>1, <1>4 DEF FInv

\* Boot recovery queues plain jobs and leaves the rows alone.
LEMMA BootSound ==
    ASSUME FInv, UNCHANGED app, NEW D \in SUBSET LaneKeys, Boot(D)
    PROVE  FInv' /\ FinalStep
<1> DEFINE open == {i \in Intents : intent[i] # "None"}
           signed == {i \in open : intent[i] = "Signed"}
           first == InKeyOrder(signed)
           last == InKeyOrder(open)
           late == D \cup {k \in LaneKeys : lane[k].st = "AwaitingHandoff"}
           jobs == [n \in DOMAIN first |-> BootRoute(first[n])] \o <<Due(late)>>
                       \o Schedule \o [n \in DOMAIN last |-> Close(last[n])]
<1>1. UNCHANGED <<lane, att, receipt>> /\ Do(jobs)
  BY DEF Boot, store
<1>2. first \in Seq(Intents) /\ last \in Seq(Intents)
  <2>1. IsFiniteSet(open) /\ IsFiniteSet(signed)
    BY IntentsAssumption, FS_Subset
  <2> QED BY <2>1, Listed, SMT
<1> HIDE DEF first, last
<1>3. [n \in DOMAIN first |-> BootRoute(first[n])] \in Seq(PlainJobs)
  <2>1. \A n \in 1 .. Len(first) : BootRoute(first[n]) \in PlainJobs
    BY <1>2, PlainIntentJobs, SMT
  <2>2. DOMAIN first = 1 .. Len(first) /\ Len(first) \in Nat
    BY <1>2, SMT
  <2> QED BY <2>1, <2>2, SMT
<1>4. [n \in DOMAIN last |-> Close(last[n])] \in Seq(PlainJobs)
  <2>1. \A n \in 1 .. Len(last) : Close(last[n]) \in PlainJobs
    BY <1>2, PlainIntentJobs, SMT
  <2>2. DOMAIN last = 1 .. Len(last) /\ Len(last) \in Nat
    BY <1>2, SMT
  <2> QED BY <2>1, <2>2, SMT
<1>5. Due(late) \in PlainJobs
  BY PlainLaneJob DEF Due, LaneJob, LaneOps, LaneArgs
<1>6. jobs \in Seq(PlainJobs)
  BY <1>3, <1>4, <1>5, PlainSchedule, SMT
<1> HIDE DEF jobs
<1> QED BY <1>1, <1>6, PlainDo, LedgerKept, ReceiptsKept DEF FInv

\* The correlations of the transport keep their type in every step.
LEMMA CorrKept ==
    ASSUME Rows, CorrTyped, Next PROVE CorrTyped'
<1>1. \A k \in LaneKeys : Len(att[k]) + 1 \in Nat \ {0}
  BY SMT DEF Rows
<1>2. ASSUME NEW c \in corr, TransportWrite(c) PROVE CorrTyped'
  <2>1. c \in [key : LaneKeys, ord : Nat \ {0}, sent : BOOLEAN]
    BY DEF CorrTyped
  <2>2. [c EXCEPT !.sent = TRUE] \in [key : LaneKeys, ord : Nat \ {0}, sent : BOOLEAN]
    BY <2>1
  <2> QED BY <1>2, <2>2 DEF TransportWrite, CorrTyped
<1>3. ASSUME NEW k \in LaneKeys, NEW ok \in BOOLEAN, StartLane(k, ok) PROVE CorrTyped'
  <2>1. [key |-> k, ord |-> Len(att[k]) + 1, sent |-> FALSE]
            \in [key : LaneKeys, ord : Nat \ {0}, sent : BOOLEAN]
    BY <1>1
  <2>2. corr' \subseteq corr \cup {[key |-> k, ord |-> Len(att[k]) + 1, sent |-> FALSE]}
    BY <1>3 DEF StartLane, Ordinal
  <2> QED BY <2>1, <2>2 DEF CorrTyped
<1>4. ASSUME corr' \subseteq corr PROVE CorrTyped'
  BY <1>4 DEF CorrTyped
<1>5. CASE HandlerStep
  <2>1. \/ \E k \in LaneKeys, ok \in BOOLEAN : StartLane(k, ok)
        \/ corr' \subseteq corr
    <3>1. ASSUME NEW ok \in BOOLEAN, VisitLane(ok) \/ ApplyMove(ok) PROVE corr' = corr
      BY <3>1 DEF VisitLane, ApplyMove
    <3>2. ASSUME NEW i \in Intents, NEW op, IntentStep(op, i) PROVE corr' = corr
      BY <3>2 DEF IntentStep
    <3>3. ASSUME NEW i \in Intents, NEW ok \in BOOLEAN,
                 \/ PromoteSigned(i, ok)
                 \/ \E op \in {"compensate", "cancel"} : Retract(i, op, ok)
                 \/ RecordRoutes(i, ok)
                 \/ \E op \in {"bootstrap", "bootLanes"} : BootstrapLanes(i, op, ok)
                 \/ CloseUnroutable(i, ok)
                 \/ CloseIfAllLanesTerminal(i, ok)
                 \/ BootRoutes(i, ok)
                 \/ NoNewRoutes(i)
                 \/ BootRoutesUnread(i)
          PROVE  corr' = corr
      <4>1. \E op : IntentStep(op, i)
        BY <3>3 DEF PromoteSigned, Retract, RecordRoutes, BootstrapLanes,
                    CloseUnroutable, CloseIfAllLanesTerminal, BootRoutes, NoNewRoutes,
                    BootRoutesUnread
      <4> QED BY <4>1, <3>2
    <3> QED BY <1>5, <3>1, <3>3 DEF HandlerStep
  <2> QED BY <1>3, <1>4, <2>1
<1>6. CASE ~ HandlerStep
  <2>1. (\E c \in corr : TransportWrite(c)) \/ corr' \subseteq corr
    BY <1>6 DEF Next, Publish, Message, SignerCompleted, SignerUnavailable, CancelWrite,
                SignerAttached, AuthorRoutesLearned, Tick, EventHandoff, RelayOk,
                RelayConnected, RelayDisconnected, AuthChallenge, AuthFinished,
                AuthRestricted, AuthErred, AuthCapabilityInvalidated,
                AuthProbeReleased, Crash, Boot
  <2> QED BY <1>2, <1>4, <2>1
<1> QED BY <1>5, <1>6

\* Every step of the write plane keeps the invariant and leaves ended lanes alone.
LEMMA NextSound ==
    ASSUME FInv, CorrTyped, Steady, Next
    PROVE  FInv' /\ FinalStep
<1>0. UNCHANGED app
  BY DEF Steady
<1>1. CASE HandlerStep
  BY <1>0, <1>1, HandlerStepSound
<1>2. CASE \E i \in Intents : Publish(i)
  BY <1>0, <1>2, PublishSound
<1>3. CASE \E c \in corr : TransportWrite(c)
  <2>1. UNCHANGED <<lane, att, receipt, todo>>
    BY <1>3 DEF TransportWrite, store
  <2>2. Queue'
    BY <1>0, <1>3, PlainSteady DEF FInv, Queue, TransportWrite, Idle
  <2> QED BY <1>0, <2>1, <2>2, LedgerKept, ReceiptsKept DEF FInv
<1>4. CASE \E c \in corr, result \in Handoffs, ok \in BOOLEAN : EventHandoff(c, result, ok)
  <2>1. \A c \in corr : c.key \in LaneKeys
    BY DEF CorrTyped
  <2> QED BY <1>0, <1>4, <2>1, EventHandoffSound
<1>5. CASE \E k \in LaneKeys, class \in {"Answered", "Transient", "AuthRequired"} :
               RelayOk(k, class)
  BY <1>0, <1>5, RelayOkSound
<1>6. CASE Crash
  <2>1. UNCHANGED <<lane, att, receipt>> /\ todo' = <<>>
    BY <1>6 DEF Crash, store
  <2> QED BY <1>0, <2>1, LedgerKept, ReceiptsKept DEF FInv, Queue
<1>7. CASE \E D \in SUBSET LaneKeys : Boot(D)
  BY <1>0, <1>7, BootSound
<1>8. CASE \/ \E i \in Intents : \E ok \in BOOLEAN : SignerCompleted(i, ok)
           \/ \E i \in Intents : SignerUnavailable(i)
           \/ \E i \in Intents : CancelWrite(i)
           \/ \E pk \in Authors : SignerAttached(pk)
           \/ AuthorRoutesLearned
           \/ \E D \in SUBSET LaneKeys : Tick(D)
  BY <1>0, <1>8, WriteMessagesSound
<1>9. CASE \E s \in Sessions :
              \/ RelayConnected(s)
              \/ RelayDisconnected(s)
              \/ \E ok \in BOOLEAN : AuthChallenge(s, ok) \/ AuthFinished(s, ok)
              \/ AuthRestricted(s)
              \/ AuthErred(s)
              \/ AuthCapabilityInvalidated(s)
              \/ AuthProbeReleased(s)
  BY <1>0, <1>9, SessionMessagesSound
<1> QED BY <1>1, <1>2, <1>3, <1>4, <1>5, <1>6, <1>7, <1>8, <1>9 DEF Next

\* The invariant holds when the process first starts.
LEMMA InitSound == Init => FInv /\ CorrTyped
<1> SUFFICES ASSUME Init PROVE FInv /\ CorrTyped
  OBVIOUS
<1>1. NoLane \in LaneRows /\ NoLane.st \notin InFlight /\ Len(<<>>) = 0
      /\ <<>> \in Seq(AttemptRows)
  BY SMT DEF NoLane, LaneRows, LaneStates, InFlight
<1>2. Rows /\ LedgerSound
  BY <1>1, SMT DEF Init, Rows, LedgerSound, Ordinal, ContradictoryHistory
<1>3. ReceiptsTrue
  BY DEF Init, ReceiptsTrue, Receipts, NoDestinationIsTrue
<1> QED BY <1>2, <1>3 DEF Init, FInv, Queue, CorrTyped

\* The ledger of attempts, the receipts and the running handler stay sound in
\* every behaviour of the write plane, failed commits included.
THEOREM LedgerInvariant == Spec => [](FInv /\ CorrTyped)
<1>1. FInv /\ CorrTyped /\ [Steady /\ Next]_<<vars, app>> => FInv' /\ CorrTyped'
  <2> SUFFICES ASSUME FInv, CorrTyped, [Steady /\ Next]_<<vars, app>>
               PROVE  FInv' /\ CorrTyped'
    OBVIOUS
  <2>1. CASE Steady /\ Next
    BY <2>1, NextSound, CorrKept DEF FInv
  <2>2. CASE UNCHANGED <<vars, app>>
    <3>1. UNCHANGED <<lane, att, receipt, todo, app, corr, heard>> /\ UNCHANGED vars
      BY <2>2 DEF vars, store, links
    <3>2. Queue'
      BY <3>1, PlainSteady, HeadKept DEF FInv, Queue, HeadFits
    <3> QED BY <3>1, <3>2, LedgerKept, ReceiptsKept DEF FInv, CorrTyped
  <2> QED BY <2>1, <2>2
<1> QED BY <1>1, InitSound, PTL DEF Spec

\* FaultsContained: whatever commits fail, and wherever the process crashes,
\* attempts match the lanes that run them, a write called NoDestination had
\* none, and a lane that ended stays ended.
THEOREM FaultsAreContained == Spec => FaultsContained
<1>1. FInv /\ CorrTyped => LedgerSound /\ NoDestinationIsTrue
  BY DEF FInv, ReceiptsTrue
<1>2. FInv /\ CorrTyped /\ [Steady /\ Next]_<<vars, app>>
          => [\A k \in LaneKeys : lane[k].st = "Terminal" =>
                 lane'[k] \in {lane[k], NoLane}]_vars
  BY NextSound DEF FinalStep
<1> QED BY <1>1, <1>2, LedgerInvariant, PTL DEF Spec, FaultsContained, TerminalIsFinal
=============================================================================
