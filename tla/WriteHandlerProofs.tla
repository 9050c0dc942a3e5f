------------------------- MODULE WriteHandlerProofs -------------------------
(***************************************************************************)
(* The jobs a handler does for one write keep the agreement and the        *)
(* promise, and so does every step of a handler.                           *)
(***************************************************************************)
EXTENDS WriteLaneProofs

USE Zenon

-----------------------------------------------------------------------------
(***************************************************************************)
(* The jobs of one write.                                                  *)
(***************************************************************************)

\* What the running job of a write says about it.
LEMMA JobOfOpenWrite ==
    ASSUME PInv, todo # <<>>, Queue, Head(todo).op \in RouteOps
    PROVE  intent[Head(todo).arg] = "Signed"
BY RestHeld DEF PInv, JobsAgree

\* on_signed: the promoted write.
LEMMA PromoteKept ==
    ASSUME FInv, FInv', CorrTyped, PInv, UNCHANGED app, NEW i \in Intents,
           NEW ok \in BOOLEAN, PromoteSigned(i, ok)
    PROVE  PInv' /\ PromiseStep
<1>1. /\ up /\ todo # <<>> /\ Head(todo).op = "promote" /\ i = Head(todo).arg
      /\ UNCHANGED <<up, corr, wire, heard, known>> /\ Commit(ok)
  BY DEF PromoteSigned, IntentStep, Running, links
<1>2. ok /\ UNCHANGED left
  BY <1>1, NoFault DEF PInv, Agreement
<1>3. /\ intent[i] # "None"
      /\ intent' = [intent EXCEPT ![i] = "Signed"]
      /\ receipt' = [receipt EXCEPT ![i] = "Signed"]
      /\ pend' = [pend EXCEPT ![i].signed = TRUE]
      /\ UNCHANGED <<routes, lane, att>> /\ Continue(<<Route(i)>>)
  BY <1>2 DEF PromoteSigned
<1>4. /\ Shapes /\ IntentsAgree /\ LanesAgree /\ CorrAgree /\ WireAgree /\ SettledEverywhere
  BY DEF PInv, Agreement
<1>5. receipt[i] \in {"Accepted", "Signed"} /\ (receipt[i] = "Accepted" => routes[i] = {})
  BY <1>3, <1>4 DEF Shapes, IntentsAgree
<1>6. /\ intent' \in [Intents -> {"None", "AwaitingSigner", "Pending", "Signed"}]
      /\ intent'[i] = "Signed" /\ receipt'[i] = "Signed"
      /\ \A j \in Intents \ {i} : intent'[j] = intent[j] /\ receipt'[j] = receipt[j]
  BY <1>3, <1>4 DEF Shapes, FInv, ReceiptsTrue
<1>7. /\ pend' \in [Intents -> Pendings]
      /\ pend'[i].signed /\ pend'[i].on = pend[i].on /\ pend'[i].routed = pend[i].routed
      /\ pend'[i].complete = pend[i].complete
      /\ \A j \in Intents \ {i} : pend'[j] = pend[j]
  BY <1>3, <1>4 DEF Shapes, Pendings
<1>8. Shapes' /\ DownIsEmpty'
  BY <1>1, <1>2, <1>3, <1>4, <1>6, <1>7 DEF Shapes, DownIsEmpty
<1>9. IntentsAgree'
  <2> SUFFICES ASSUME NEW j \in Intents
               PROVE  /\ intent'[j] \in {"AwaitingSigner", "Pending"} <=> receipt'[j] = "Accepted"
                      /\ intent'[j] = "Signed" => receipt'[j] = "Signed"
                      /\ up' => /\ pend'[j].on <=> intent'[j] # "None"
                                /\ pend'[j].signed <=> intent'[j] = "Signed"
                      /\ routes'[j] \subseteq Plan'[j]
                      /\ routes'[j] # {} => receipt'[j] = "Signed"
                      /\ pend'[j].routed \subseteq routes'[j]
                      /\ pend'[j].complete => Plan'[j] \subseteq routes'[j]
    BY DEF IntentsAgree
  <2>1. Plan' = Plan
    BY DEF Plan
  <2>2. CASE j = i
    BY <1>1, <1>3, <1>4, <1>6, <1>7, <2>1, <2>2 DEF IntentsAgree
  <2>3. CASE j # i
    BY <1>1, <1>3, <1>4, <1>6, <1>7, <2>1, <2>3, SMT DEF IntentsAgree
  <2> QED BY <2>2, <2>3
<1>10. LanesAgree' /\ SettledEverywhere'
  <2>1. \A k \in LaneKeys : k[1] \in Intents
    BY DEF LaneKeys
  <2>2. \A k \in LaneKeys : pend'[k[1]].on = pend[k[1]].on
    BY <1>7, <2>1
  <2>3. \A k \in LaneKeys : intent[k[1]] = "Signed" => intent'[k[1]] = "Signed"
    BY <1>6, <2>1
  <2>4. LanesAgree'
    BY <1>1, <1>3, <1>4, <2>2, <2>3 DEF LanesAgree
  <2> QED BY <1>3, <1>4, <1>6, <2>4 DEF SettledEverywhere, Plan
<1>11. ReceiptsStay
  <2>1. Talked \subseteq Intents
    BY ZenonT(40) DEF Talked, CorrTyped, PInv, Agreement, Shapes, LaneKeys
  <2> QED BY <1>5, <1>6, <2>1 DEF ReceiptsStay
<1>12. Agreement'
  BY <1>1, <1>3, <1>8, <1>9, <1>10, <1>11, StillKept DEF Agreement
<1>13. JobsAgree' /\ LanesBuilt' /\ FlightsKnown'
  <2> DEFINE jobs == <<Route(i)>>
  <2>1. /\ jobs \in Seq(PlainJobs) /\ Held(jobs) = {Route(i)}
        /\ Route(i).op = "route" /\ Route(i).arg = i
    BY PlainIntentJobs, HeldFew, SMT DEF Route, IntentJob
  <2>2. Ordered(jobs)
    BY SMT DEF Ordered
  <2> HIDE DEF jobs
  <2>3. \A j \in Held(jobs) : Milder(j, Head(todo))
    BY <1>1, <2>1 DEF Milder, MayEnd, Boots, BootOps
  <2>4. \A j : Relieved(j)
    BY <1>1 DEF Relieved, Lasting, BootOps
  <2>5. \A j : intent[j] = "Signed" => intent'[j] = "Signed"
    BY <1>3, <1>4, SMT DEF Shapes
  <2>6. \A j \in Intents : \A r \in routes'[j] : intent'[j] = "Signed" =>
               \/ lane'[<<j, r>>].st # "None"
               \/ /\ Relieved(j) /\ intent[j] = "Signed" /\ r \in routes[j]
                  /\ lane[<<j, r>>].st = "None"
    <3>1. \A j \in Intents : routes[j] # {} /\ intent'[j] = "Signed" => intent[j] = "Signed"
      BY <1>3, <1>4, <1>5, <1>6 DEF Shapes, IntentsAgree
    <3> QED BY <1>3, <2>4, <3>1
  <2>7. \A k \in LaneKeys : lane'[k].st \in InFlight =>
               \/ k \in known'
               \/ Relieved(k[1]) /\ lane[k].st \in InFlight /\ k \notin known
    BY <1>1, <1>3, <2>4
  <2>8. \A j \in Held(jobs) : j.op \in RouteOps => intent'[j.arg] = "Signed"
    BY <1>6, <2>1
  <2>9. Queue /\ JobsAgree /\ LanesBuilt /\ FlightsKnown /\ Continue(jobs) /\ up'
    BY <1>1, <1>3 DEF FInv, PInv, jobs
  <2> QED BY <1>1, <2>1, <2>2, <2>3, <2>5, <2>6, <2>7, <2>8, <2>9, HandlerKept
<1>14. PromiseStep
  <2>1. CASE receipt[i] = "Signed"
    <3>1. intent[i] = "Signed"
      BY <1>3, <1>4, <2>1 DEF Shapes, IntentsAgree
    <3> QED BY <1>1, <1>3, <1>6, <2>1, <3>1, NothingShown
  <2>2. CASE receipt[i] = "Accepted"
    <3> DEFINE status == [j \in Intents |-> Status(j)]
    <3>1. status' = [status EXCEPT ![i] = "Signed"]
      <4>1. Status(i)' = "Signed"
        BY <1>6, StatusShown, StatusFacts, SMT
      <4> QED BY <4>1, <1>6, StatusMoved
    <3>2. status[i] = "Accepted"
      BY <2>2, StatusShown, StatusFacts, SMT
    <3>3. [k \in LaneKeys |-> lane[k].out]' = [k \in LaneKeys |-> lane[k].out]
      BY <1>3
    <3>4. Promise!Sign(i)
      BY <1>1, <1>3, <3>1, <3>2, <3>3 DEF Promise!Sign
    <3> QED BY <3>4 DEF PromiseStep, Promise!Next
  <2> QED BY <1>5, <2>1, <2>2
<1> QED BY <1>12, <1>13, <1>14 DEF PInv

\* A step of a handler that concerns one write, and none of the lanes.
LEMMA OneWriteKept ==
    ASSUME FInv, FInv', CorrTyped, PInv, UNCHANGED app, up, NEW i \in Intents,
           UNCHANGED <<up, lane, att, corr, wire, heard, left>>, ReceiptsStay,
           intent' \in [Intents -> {"None", "AwaitingSigner", "Pending", "Signed"}],
           routes' \in [Intents -> SUBSET Relays], pend' \in [Intents -> Pendings],
           known' \subseteq known, IntentAgrees(i)',
           \A j \in Intents \ {i} : /\ intent'[j] = intent[j] /\ receipt'[j] = receipt[j]
                                    /\ routes'[j] = routes[j] /\ pend'[j] = pend[j]
    PROVE  Agreement'
<1>0. Shapes /\ IntentsAgree /\ LanesAgree /\ SettledEverywhere
  BY DEF PInv, Agreement
<1>1. Shapes' /\ DownIsEmpty'
  BY <1>0 DEF Shapes, DownIsEmpty
<1>2. CorrAgree' /\ WireAgree' /\ IsFiniteSet(InFlightLanes') /\ CapsHold'
  BY StillKept
<1>3. ASSUME NEW j \in Intents PROVE IntentAgrees(j)'
  <2>1. CASE j = i
    BY <2>1
  <2>2. CASE j # i
    <3>1. IntentAgrees(j)
      BY EachAgrees
    <3>2. /\ intent'[j] = intent[j] /\ receipt'[j] = receipt[j]
          /\ routes'[j] = routes[j] /\ pend'[j] = pend[j]
      BY <2>2
    <3>3. Plan' = Plan /\ up' = up /\ lane' = lane
      BY DEF Plan
    <3> QED BY <3>1, <3>2, <3>3, ZenonT(40) DEF IntentAgrees
  <2> QED BY <2>1, <2>2
<1>4. IntentsAgree' /\ SettledEverywhere'
  BY <1>3 DEF IntentAgrees, IntentsAgree, SettledEverywhere
<1>5. LanesAgree'
  <2>1. \A k \in LaneKeys : k[1] \in Intents
    BY DEF LaneKeys
  <2> QED BY <1>0, <1>3, <2>1, ZenonT(40) DEF IntentAgrees, LanesAgree
<1> QED BY <1>1, <1>2, <1>4, <1>5 DEF Agreement

\* fail_and_compensate and cancel_write.
LEMMA RetractKept ==
    ASSUME FInv, FInv', CorrTyped, PInv, UNCHANGED app, NEW i \in Intents,
           NEW op \in {"compensate", "cancel"}, NEW ok \in BOOLEAN, Retract(i, op, ok)
    PROVE  PInv' /\ PromiseStep
<1> DEFINE jobs == IF op = "cancel" THEN Schedule ELSE <<>>
<1>1. /\ up /\ todo # <<>> /\ Head(todo).op = op /\ i = Head(todo).arg
      /\ UNCHANGED <<up, corr, wire, heard>> /\ Commit(ok)
  BY DEF Retract, IntentStep, Running, links
<1>2. ok /\ UNCHANGED left
  BY <1>1, NoFault DEF PInv, Agreement
<1>3. /\ intent[i] \in {"AwaitingSigner", "Pending"}
      /\ intent' = [intent EXCEPT ![i] = "None"]
      /\ \E r \in {"Cancelled", "Compensated"} : receipt' = [receipt EXCEPT ![i] = r]
      /\ Forget({i}) /\ UNCHANGED <<routes, lane, att>> /\ Continue(jobs)
  BY <1>2 DEF Retract
<1>4. Shapes /\ IntentAgrees(i)
  BY EachAgrees DEF PInv, Agreement
<1>5. receipt[i] = "Accepted" /\ routes[i] = {}
  BY <1>3, <1>4 DEF IntentAgrees
<1>6. /\ intent' \in [Intents -> {"None", "AwaitingSigner", "Pending", "Signed"}]
      /\ intent'[i] = "None" /\ receipt'[i] \in {"Cancelled", "Compensated"}
      /\ \A j \in Intents \ {i} : intent'[j] = intent[j] /\ receipt'[j] = receipt[j]
  BY <1>3, <1>4 DEF Shapes, FInv, ReceiptsTrue
<1>7. NoPending \in Pendings /\ ~ NoPending.on /\ ~ NoPending.signed
      /\ NoPending.routed = {} /\ ~ NoPending.complete
  BY DEF NoPending, Pendings
<1>8. /\ pend' = [j \in Intents |-> IF j \in {i} THEN NoPending ELSE pend[j]]
      /\ known' = {k \in known : k[1] \notin {i}}
  BY <1>3 DEF Forget
<1>9. pend' \in [Intents -> Pendings] /\ pend'[i] = NoPending
      /\ \A j \in Intents \ {i} : pend'[j] = pend[j]
  BY <1>4, <1>7, <1>8 DEF Shapes
<1>10. ReceiptsStay
  BY <1>5, <1>6, TalkedIntents DEF ReceiptsStay
<1>11. IntentAgrees(i)'
  <2>1. \A k \in LaneKeys : k[1] = i => lane[k].st = "None"
    BY <1>4, <1>5 DEF IntentAgrees
  <2>2. \A k \in LaneKeys : k[1] = i => k \notin known'
    BY <1>8
  <2> QED BY <1>3, <1>5, <1>6, <1>7, <1>9, <2>1, <2>2 DEF IntentAgrees
<1>12. Agreement'
  <2>1. routes' \in [Intents -> SUBSET Relays]
    BY <1>3, <1>4 DEF Shapes
  <2> QED BY <1>1, <1>2, <1>3, <1>6, <1>8, <1>9, <1>10, <1>11, <2>1, OneWriteKept
<1>13. JobsAgree' /\ LanesBuilt' /\ FlightsKnown'
  <2>1. jobs \in Seq(PlainJobs) /\ \A j \in Held(jobs) : j.op \in {"reclaim", "start"}
    BY PlainSchedule, HeldFew, SMT
  <2>2. Queue /\ JobsAgree /\ LanesBuilt /\ FlightsKnown /\ Continue(jobs) /\ up'
    BY <1>1, <1>3 DEF FInv, PInv
  <2> HIDE DEF jobs
  <2>3. Ordered(jobs)
    BY <2>1, NoneBarred DEF RouteOps, BootOps
  <2>4. \A j \in Held(jobs) : Milder(j, Head(todo))
    BY <1>1, <2>1 DEF Milder, MayEnd, Boots, BootOps
  <2>5. \A j \in Held(jobs) : j.op \in RouteOps => intent'[j.arg] = "Signed"
    BY <2>1 DEF RouteOps, BootOps
  <2>6. \A j : intent[j] = "Signed" => intent'[j] = "Signed"
    BY <1>3, <1>4, SMT DEF Shapes
  <2>7. \A j : Relieved(j)
    BY <1>1 DEF Relieved, Lasting, BootOps
  <2>8. \A j \in Intents : \A r \in routes'[j] : intent'[j] = "Signed" =>
               \/ lane'[<<j, r>>].st # "None"
               \/ /\ Relieved(j) /\ intent[j] = "Signed" /\ r \in routes[j]
                  /\ lane[<<j, r>>].st = "None"
    BY <1>3, <1>6, <2>7
  <2>9. \A k \in LaneKeys : lane'[k].st \in InFlight =>
               \/ k \in known'
               \/ Relieved(k[1]) /\ lane[k].st \in InFlight /\ k \notin known
    <3>1. \A k \in LaneKeys : lane[k].st \in InFlight => k[1] # i
      BY <1>4, <1>5 DEF IntentAgrees, InFlight
    <3> QED BY <1>3, <1>8, <2>7, <3>1
  <2> QED BY <1>1, <2>1, <2>2, <2>3, <2>4, <2>5, <2>6, <2>8, <2>9, HandlerKept
<1>14. PromiseStep
  <2> DEFINE status == [j \in Intents |-> Status(j)]
  <2>1. status' = [status EXCEPT ![i] = "NotSent"]
    <3>1. Status(i)' = "NotSent"
      BY <1>6, StatusShown, StatusFacts, SMT
    <3> QED BY <3>1, <1>6, StatusMoved
  <2>2. status[i] = "Accepted"
    BY <1>5, StatusShown, StatusFacts, SMT
  <2>3. [k \in LaneKeys |-> lane[k].out]' = [k \in LaneKeys |-> lane[k].out]
    BY <1>3
  <2>4. Promise!Retract(i)
    BY <1>1, <1>3, <2>1, <2>2, <2>3 DEF Promise!Retract
  <2> QED BY <2>4 DEF PromiseStep, Promise!Next
<1> QED BY <1>12, <1>13, <1>14 DEF PInv

\* An answer names relays of the plan, and a complete one all of them.
LEMMA AnswerPlan ==
    ASSUME app \in Apps, NEW i \in Intents
    PROVE  /\ Answer(i) \subseteq Plan[i] /\ Plan[i] \subseteq Relays
           /\ AnswerComplete(i) => Answer(i) = Plan[i]
BY AppsAssumption, RouteAssumption DEF Answer, AnswerComplete, Plan, Early, Explicit

\* A signed write is addressed to more relays of its plan, or to none.
LEMMA AddressKept ==
    ASSUME FInv, FInv', CorrTyped, PInv, UNCHANGED app, up, NEW i \in Intents,
           NEW A \in SUBSET Plan[i], intent[i] = "Signed",
           routes' = [routes EXCEPT ![i] = @ \cup A],
           pend' \in [Intents -> Pendings], \A j \in Intents \ {i} : pend'[j] = pend[j],
           pend'[i].on = pend[i].on, pend'[i].signed = pend[i].signed,
           pend'[i].routed \subseteq routes'[i],
           pend'[i].complete => Plan[i] \subseteq routes'[i],
           UNCHANGED <<up, intent, receipt, lane, att, known, corr, wire, heard, left>>
    PROVE  Agreement' /\ PromiseStep
<1>1. Shapes /\ IntentAgrees(i) /\ Plan[i] \subseteq Relays
  BY EachAgrees, AnswerPlan DEF PInv, Agreement, FInv
<1>2. /\ routes' \in [Intents -> SUBSET Relays] /\ routes'[i] = routes[i] \cup A
      /\ \A j \in Intents \ {i} : routes'[j] = routes[j]
  BY <1>1 DEF Shapes
<1>3. receipt[i] = "Signed" /\ Plan' = Plan
  BY <1>1 DEF IntentAgrees, Plan
<1>4. IntentAgrees(i)'
  BY <1>1, <1>2, <1>3 DEF IntentAgrees
<1>5. ReceiptsStay
  BY DEF ReceiptsStay
<1>6. intent' \in [Intents -> {"None", "AwaitingSigner", "Pending", "Signed"}]
  BY <1>1 DEF Shapes
<1>7. Agreement'
  BY <1>2, <1>4, <1>5, <1>6, OneWriteKept
<1>8. PromiseStep
  <2> DEFINE status == [j \in Intents |-> Status(j)]
  <2>1. status' = status
    BY StatusShown
  <2>2. status[i] = "Signed"
    BY <1>3, StatusShown, StatusFacts, SMT
  <2>3. [k \in LaneKeys |-> lane[k].out]' = [k \in LaneKeys |-> lane[k].out]
    OBVIOUS
  <2>4. Promise!Address(i, A)
    BY <2>1, <2>2, <2>3 DEF Promise!Address
  <2>5. A \in SUBSET Relays
    BY <1>1
  <2> QED BY <2>4, <2>5 DEF PromiseStep, Promise!Next
<1> QED BY <1>7, <1>8

\* A job of one write that leaves the lanes alone and leaves one job behind.
LEMMA OneJobKept ==
    ASSUME FInv, PInv, up, up', todo # <<>>, NEW i \in Intents, i = Head(todo).arg,
           Head(todo).op \in {"route", "bootRoute"}, intent[i] = "Signed",
           NEW jobs \in Seq(PlainJobs), Continue(jobs), Len(jobs) =< 1,
           \A j \in Held(jobs) :
               /\ j.arg = i
               /\ j.op \in IF Head(todo).op = "route" THEN {"bootstrap", "unroutable"}
                                                      ELSE {"bootLanes"},
           Head(todo).op = "bootRoute" => Held(jobs) # {},
           UNCHANGED <<intent, lane, known>>,
           \A j \in Intents \ {i} : routes'[j] = routes[j],
           routes'[i] = routes[i] \/ \E j \in Held(jobs) : j.op \in Lasting
    PROVE  JobsAgree' /\ LanesBuilt' /\ FlightsKnown'
<1>1. Queue /\ JobsAgree /\ LanesBuilt /\ FlightsKnown
  BY DEF FInv, PInv
<1>2. Ordered(jobs)
  BY SMT DEF Ordered
<1>3. \A j \in Held(jobs) : Milder(j, Head(todo))
  BY DEF Milder, MayEnd, Boots, BootOps
<1>4. \A j \in Held(jobs) : j.op \in RouteOps => intent'[j.arg] = "Signed"
  OBVIOUS
<1>5. \A j \in Intents : j # i => Relieved(j)
  BY DEF Relieved
<1>6. Head(todo).op = "route" => Relieved(i)
  BY DEF Relieved, Lasting, BootOps
<1>7. ASSUME NEW j \in Intents, NEW r \in routes'[j], intent'[j] = "Signed"
      PROVE  \/ lane'[<<j, r>>].st # "None"
             \/ \E b \in Held(jobs) : b.op \in Lasting /\ b.arg = j
             \/ /\ Relieved(j) /\ intent[j] = "Signed" /\ r \in routes[j]
                /\ lane[<<j, r>>].st = "None"
  <2>1. CASE j # i
    BY <1>5, <1>7, <2>1
  <2>2. CASE j = i /\ Head(todo).op = "bootRoute"
    BY <2>2 DEF Lasting, BootOps
  <2>3. CASE j = i /\ Head(todo).op = "route"
    BY <1>6, <1>7, <2>3
  <2> QED BY <2>1, <2>2, <2>3
<1>8. ASSUME NEW k \in LaneKeys, lane'[k].st \in InFlight
      PROVE  \/ k \in known'
             \/ \E j \in Held(jobs) : j.op \in BootOps /\ j.arg = k[1]
             \/ Relieved(k[1]) /\ lane[k].st \in InFlight /\ k \notin known
  <2>1. k[1] \in Intents
    BY DEF LaneKeys
  <2>2. CASE k[1] # i
    BY <1>5, <1>8, <2>1, <2>2
  <2>3. CASE k[1] = i /\ Head(todo).op = "bootRoute"
    BY <2>3 DEF BootOps
  <2>4. CASE k[1] = i /\ Head(todo).op = "route"
    BY <1>6, <1>8, <2>4
  <2> QED BY <2>2, <2>3, <2>4
<1>9. \A j : intent[j] = "Signed" /\ j \notin MayEnd(Head(todo)) => intent'[j] = "Signed"
  OBVIOUS
<1> QED BY <1>1, <1>2, <1>3, <1>4, <1>7, <1>8, <1>9, HandlerKept

\* apply_route_answer, with or without a relay not resolved before.
LEMMA RouteKept ==
    ASSUME FInv, FInv', CorrTyped, PInv, UNCHANGED app, NEW i \in Intents,
           NEW ok \in BOOLEAN, RecordRoutes(i, ok) \/ NoNewRoutes(i)
    PROVE  PInv' /\ PromiseStep
<1>1. /\ up /\ todo # <<>> /\ Head(todo).op = "route" /\ i = Head(todo).arg
      /\ UNCHANGED <<up, corr, wire, heard, known>>
  BY DEF RecordRoutes, NoNewRoutes, IntentStep, Running, links
<1>2. Shapes /\ IntentAgrees(i) /\ intent[i] = "Signed" /\ Queue
  BY <1>1, EachAgrees, JobOfOpenWrite DEF PInv, Agreement, RouteOps, FInv
<1>3. /\ Answer(i) \subseteq Plan[i] /\ Plan[i] \subseteq Relays
      /\ AnswerComplete(i) => Answer(i) = Plan[i]
      /\ AnswerComplete(i) \in BOOLEAN
  BY AnswerPlan DEF FInv, AnswerComplete
<1>4. CASE RecordRoutes(i, ok)
  <2> DEFINE jobs == <<Bootstrap(i)>>
  <2>1. ok /\ UNCHANGED left
    BY <1>4, NoFault DEF RecordRoutes, PInv, Agreement
  <2>2. /\ routes' = [routes EXCEPT ![i] = @ \cup Answer(i)]
        /\ pend' = [pend EXCEPT ![i].routed = @ \cup Answer(i),
                                ![i].complete = AnswerComplete(i)]
        /\ UNCHANGED <<intent, receipt, lane, att>> /\ Continue(jobs)
    BY <1>4, <2>1 DEF RecordRoutes
  <2>3. routes'[i] = routes[i] \cup Answer(i) /\ \A j \in Intents \ {i} : routes'[j] = routes[j]
    BY <1>2, <2>2 DEF Shapes
  <2>4. /\ pend' \in [Intents -> Pendings] /\ pend'[i].routed = pend[i].routed \cup Answer(i)
        /\ pend'[i].complete = AnswerComplete(i)
        /\ pend'[i].on = pend[i].on /\ pend'[i].signed = pend[i].signed
        /\ \A j \in Intents \ {i} : pend'[j] = pend[j]
    BY <1>2, <1>3, <2>2, ZenonT(40) DEF Shapes, Pendings
  <2>5. pend'[i].routed \subseteq routes'[i] /\ (pend'[i].complete => Plan[i] \subseteq routes'[i])
    BY <1>2, <1>3, <2>3, <2>4 DEF IntentAgrees
  <2>6. Agreement' /\ PromiseStep
    BY <1>1, <1>2, <1>3, <2>1, <2>2, <2>4, <2>5, AddressKept
  <2>7. /\ jobs \in Seq(PlainJobs) /\ Len(jobs) = 1 /\ Held(jobs) = {Bootstrap(i)}
        /\ Bootstrap(i).op = "bootstrap" /\ Bootstrap(i).arg = i
    BY PlainIntentJobs, HeldFew, SMT DEF Bootstrap, IntentJob
  <2> HIDE DEF jobs
  <2>8. /\ \A j \in Held(jobs) :
               /\ j.arg = i
               /\ j.op \in IF Head(todo).op = "route" THEN {"bootstrap", "unroutable"}
                                                      ELSE {"bootLanes"}
        /\ \E j \in Held(jobs) : j.op \in Lasting
        /\ Len(jobs) =< 1 /\ jobs \in Seq(PlainJobs)
        /\ Head(todo).op \in {"route", "bootRoute"} /\ Head(todo).op # "bootRoute"
    BY <1>1, <2>7, SMT DEF Lasting
  <2>9. JobsAgree' /\ LanesBuilt' /\ FlightsKnown'
    BY <1>1, <1>2, <2>2, <2>3, <2>8, OneJobKept
  <2> QED BY <2>6, <2>9 DEF PInv
<1>5. CASE NoNewRoutes(i)
  <2> DEFINE jobs == IF pend[i].routed = {} /\ AnswerComplete(i)
                     THEN <<Unroutable(i)>> ELSE <<>>
  <2>1. /\ Answer(i) \subseteq pend[i].routed
        /\ pend' = [pend EXCEPT ![i].complete = AnswerComplete(i)]
        /\ UNCHANGED <<intent, receipt, routes, lane, att, left>> /\ Continue(jobs)
    BY <1>5 DEF NoNewRoutes, store
  <2>2. PICK A \in SUBSET Plan[i] : routes' = [routes EXCEPT ![i] = @ \cup A]
    <3>1. routes' = [routes EXCEPT ![i] = @ \cup {}]
      BY <1>2, <2>1 DEF Shapes
    <3> QED BY <3>1
  <2>3. /\ pend' \in [Intents -> Pendings] /\ pend'[i].routed = pend[i].routed
        /\ pend'[i].complete = AnswerComplete(i)
        /\ pend'[i].on = pend[i].on /\ pend'[i].signed = pend[i].signed
        /\ \A j \in Intents \ {i} : pend'[j] = pend[j]
    BY <1>2, <1>3, <2>1 DEF Shapes, Pendings
  <2>4. pend'[i].routed \subseteq routes'[i] /\ (pend'[i].complete => Plan[i] \subseteq routes'[i])
    BY <1>2, <1>3, <2>1, <2>3 DEF IntentAgrees
  <2>5. Agreement' /\ PromiseStep
    BY <1>1, <1>2, <2>1, <2>2, <2>3, <2>4, AddressKept
  <2>6. pend[i].routed = {} /\ AnswerComplete(i) => Plan[i] = {}
    BY <1>3, <2>1
  <2>7. jobs \in Seq(PlainJobs) /\ Len(jobs) =< 1
        /\ \A j \in Held(jobs) : j.op = "unroutable" /\ j.arg = i
    <3>1. CASE pend[i].routed = {} /\ AnswerComplete(i)
      <4>1. Unroutable(i) \in PlainJobs
        BY <2>6, <3>1, PlainIntentJob DEF Unroutable, IntentOps
      <4>2. jobs = <<Unroutable(i)>> /\ <<Unroutable(i)>> \in Seq(PlainJobs)
        BY <3>1, <4>1, SMT
      <4> QED BY <4>2, HeldFew, SMT DEF Unroutable, IntentJob
    <3>2. CASE ~ (pend[i].routed = {} /\ AnswerComplete(i))
      <4>1. jobs = <<>>
        BY <3>2
      <4> QED BY <4>1, HeldFew, SMT
    <3> QED BY <3>1, <3>2
  <2> HIDE DEF jobs
  <2>8. JobsAgree' /\ LanesBuilt' /\ FlightsKnown'
    BY <1>1, <1>2, <2>1, <2>7, OneJobKept
  <2> QED BY <2>5, <2>8 DEF PInv
<1> QED BY <1>4, <1>5

\* Boot recovery of the routes of one write.
LEMMA BootRoutesKept ==
    ASSUME FInv, FInv', CorrTyped, PInv, UNCHANGED app, NEW i \in Intents,
           NEW ok \in BOOLEAN, BootRoutes(i, ok)
    PROVE  PInv' /\ PromiseStep
<1> DEFINE new == Answer(i) \ routes[i]
           jobs == <<BootLanes(i)>>
<1>1. /\ up /\ todo # <<>> /\ Head(todo).op = "bootRoute" /\ i = Head(todo).arg
      /\ UNCHANGED <<up, corr, wire, heard, known>> /\ Commit(ok) /\ Continue(jobs)
  BY DEF BootRoutes, IntentStep, Running, links
<1>2. Shapes /\ IntentAgrees(i) /\ intent[i] = "Signed" /\ Queue
  BY <1>1, EachAgrees, JobOfOpenWrite DEF PInv, Agreement, RouteOps, BootOps, FInv
<1>3. /\ Answer(i) \subseteq Plan[i] /\ Plan[i] \subseteq Relays
      /\ AnswerComplete(i) => Answer(i) = Plan[i]
      /\ AnswerComplete(i) \in BOOLEAN
  BY AnswerPlan DEF FInv, AnswerComplete
<1>4. ok /\ UNCHANGED left
  BY <1>1, NoFault DEF PInv, Agreement
<1>5. /\ routes' = [routes EXCEPT ![i] = @ \cup new]
      /\ pend' = [pend EXCEPT ![i].routed = routes[i] \cup new,
                              ![i].complete = AnswerComplete(i)]
      /\ UNCHANGED <<intent, receipt, lane, att>>
  BY <1>4 DEF BootRoutes
<1>6. routes'[i] = routes[i] \cup new /\ \A j \in Intents \ {i} : routes'[j] = routes[j]
  BY <1>2, <1>5 DEF Shapes
<1>7. /\ pend' \in [Intents -> Pendings] /\ pend'[i].routed = routes[i] \cup new
      /\ pend'[i].complete = AnswerComplete(i)
      /\ pend'[i].on = pend[i].on /\ pend'[i].signed = pend[i].signed
      /\ \A j \in Intents \ {i} : pend'[j] = pend[j]
  BY <1>2, <1>3, <1>5 DEF Shapes, Pendings
<1>8. pend'[i].routed \subseteq routes'[i] /\ (pend'[i].complete => Plan[i] \subseteq routes'[i])
  BY <1>3, <1>6, <1>7
<1>9. new \in SUBSET Plan[i]
  BY <1>3
<1> HIDE DEF new
<1>10. Agreement' /\ PromiseStep
  BY <1>1, <1>2, <1>4, <1>5, <1>7, <1>8, <1>9, AddressKept
<1>11. /\ jobs \in Seq(PlainJobs) /\ Len(jobs) =< 1 /\ Held(jobs) = {BootLanes(i)}
       /\ BootLanes(i).op = "bootLanes" /\ BootLanes(i).arg = i
  BY PlainIntentJobs, HeldFew, SMT DEF BootLanes, IntentJob
<1> HIDE DEF jobs
<1>12. /\ \A j \in Held(jobs) :
              /\ j.arg = i
              /\ j.op \in IF Head(todo).op = "route" THEN {"bootstrap", "unroutable"}
                                                     ELSE {"bootLanes"}
       /\ \E j \in Held(jobs) : j.op \in Lasting
       /\ Held(jobs) # {} /\ Head(todo).op \in {"route", "bootRoute"}
  BY <1>1, <1>11 DEF Lasting, BootOps
<1>13. JobsAgree' /\ LanesBuilt' /\ FlightsKnown'
  BY <1>1, <1>2, <1>5, <1>6, <1>11, <1>12, OneJobKept
<1> QED BY <1>10, <1>13 DEF PInv

\* The store builds the lanes of an open write, and all of them are projected.
LEMMA BuildKept ==
    ASSUME FInv, FInv', CorrTyped, PInv, UNCHANGED app, up, NEW i \in Intents,
           intent[i] = "Signed", BuildLanes(i),
           UNCHANGED <<up, pend, corr, wire, heard, left>>
    PROVE  Agreement' /\ PromiseStep
<1>0. /\ Shapes /\ IntentsAgree /\ LanesAgree /\ CorrAgree /\ WireAgree
      /\ IsFiniteSet(InFlightLanes) /\ CapsHold /\ SettledEverywhere /\ Rows /\ Rows'
  BY DEF PInv, Agreement, FInv
<1>1. /\ UNCHANGED <<intent, receipt, routes, att>>
      /\ known' = known \cup {k \in LaneKeys : k[1] = i /\ lane'[k].st # "None"}
  BY DEF BuildLanes
<1>2. ASSUME NEW k \in LaneKeys
      PROVE  \/ lane'[k] = lane[k]
             \/ /\ k[1] = i /\ k[2] \in routes[i] /\ lane[k].st = "None"
                /\ lane'[k].st = "WaitingConnection" /\ lane'[k].out = "None"
  BY DEF BuildLanes
<1>3. Shapes' /\ IntentsAgree' /\ DownIsEmpty'
  BY <1>0, <1>1 DEF Shapes, IntentsAgree, DownIsEmpty, Plan
<1>4. pend[i].on
  BY <1>0 DEF IntentsAgree
<1>5. LanesAgree'
  BY <1>0, <1>1, <1>2, <1>4, SMT DEF LanesAgree
<1>6. CorrAgree' /\ WireAgree'
  <2>1. \A k \in LaneKeys : Len(att[k]) \in Nat
    BY <1>0, SMT DEF Rows
  <2>2. ReceiptsStay /\ ReportsStay
    BY <1>1, <1>2, <2>1, SMT DEF ReceiptsStay, ReportsStay
  <2> QED BY <1>0, <2>2, TalkKept
<1>7. IsFiniteSet(InFlightLanes') /\ CapsHold'
  <2>1. FewerFlights
    BY <1>2 DEF FewerFlights, InFlight
  <2> QED BY <1>0, <2>1, CapsKept
<1>8. SettledEverywhere'
  <2>1. \A j \in Intents : \A r \in Plan[j] : <<j, r>> \in LaneKeys
    BY AppsAssumption DEF FInv, Plan, LaneKeys
  <2> QED BY <1>0, <1>1, <1>2, <2>1 DEF SettledEverywhere, Plan
<1>9. PromiseStep
  <2>1. \A k \in LaneKeys : lane'[k].out = lane[k].out
    BY <1>0, <1>2, SMT DEF LanesAgree
  <2> QED BY <1>1, <2>1, NothingShown
<1> QED BY <1>3, <1>5, <1>6, <1>7, <1>8, <1>9 DEF Agreement

\* bootstrap_projected_lanes, after a route revision and at boot.
LEMMA BootstrapKept ==
    ASSUME FInv, FInv', CorrTyped, PInv, UNCHANGED app, NEW i \in Intents,
           NEW op \in {"bootstrap", "bootLanes"}, NEW ok \in BOOLEAN,
           BootstrapLanes(i, op, ok)
    PROVE  PInv' /\ PromiseStep
<1> DEFINE jobs == IF op = "bootLanes" THEN <<Reopen(i)>> ELSE <<Open(i)>> \o Schedule
<1>1. /\ up /\ todo # <<>> /\ Head(todo).op = op /\ i = Head(todo).arg
      /\ UNCHANGED <<up, corr, wire, heard, pend>> /\ Commit(ok)
  BY DEF BootstrapLanes, IntentStep, Running, links
<1>2. ok /\ UNCHANGED left
  BY <1>1, NoFault DEF PInv, Agreement
<1>3. BuildLanes(i) /\ Continue(jobs)
  BY <1>2 DEF BootstrapLanes
<1>4. intent[i] = "Signed" /\ Queue
  BY <1>1, JobOfOpenWrite DEF RouteOps, BootOps, FInv
<1>5. Agreement' /\ PromiseStep
  BY <1>1, <1>2, <1>3, <1>4, BuildKept
<1>6. /\ jobs \in Seq(PlainJobs)
      /\ \A j \in Held(jobs) : j.op \in IF op = "bootLanes" THEN {"reopen"}
                                         ELSE {"open", "reclaim", "start"}
  <2>1. CASE op = "bootLanes"
    <3>1. jobs = <<Reopen(i)>> /\ Reopen(i) \in PlainJobs /\ Reopen(i).op = "reopen"
      BY <2>1, PlainIntentJobs DEF Reopen, LaneJob
    <3> QED BY <2>1, <3>1, HeldFew, SMT
  <2>2. CASE op # "bootLanes"
    <3> DEFINE p == <<Open(i)>>
    <3>0. Open(i) \in PlainJobs /\ Open(i).op = "open"
      BY PlainIntentJobs DEF Open, LaneJob
    <3>1. /\ jobs = p \o Schedule /\ p \in Seq(PlainJobs) /\ Schedule \in Seq(PlainJobs)
          /\ Held(p) = {Open(i)}
      BY <2>2, <3>0, PlainSchedule, HeldFew, SMT
    <3> HIDE DEF p
    <3>2. Held(p \o Schedule) = Held(p) \cup Held(Schedule)
      BY <3>1, HeldBoth, SMT
    <3> QED BY <2>2, <3>0, <3>1, <3>2, HeldFew, SMT
  <2> QED BY <2>1, <2>2
<1> HIDE DEF jobs
<1>7. \A j \in Held(jobs) : j.op \notin RouteOps
  BY <1>6 DEF RouteOps, BootOps
<1>8. Ordered(jobs)
  BY <1>7, NoneBarred
<1>9. \A j \in Held(jobs) : Milder(j, Head(todo))
  BY <1>1, <1>6 DEF Milder, MayEnd, Boots, BootOps
<1>10. JobsAgree' /\ LanesBuilt' /\ FlightsKnown'
  <2>1. /\ UNCHANGED <<intent, routes>> /\ routes \in [Intents -> SUBSET Relays]
        /\ known' = known \cup {k \in LaneKeys : k[1] = i /\ lane'[k].st # "None"}
    BY <1>3 DEF BuildLanes, PInv, Agreement, Shapes
  <2>2. /\ \A r \in routes[i] : lane'[<<i, r>>].st # "None"
        /\ \A k \in LaneKeys : k[1] # i => lane'[k] = lane[k]
    BY <1>3, <2>1 DEF BuildLanes, LaneKeys
  <2>3. \A j \in Intents : j # i => Relieved(j)
    BY <1>1 DEF Relieved
  <2>4. \A j \in Intents : \A r \in routes'[j] : intent'[j] = "Signed" =>
               \/ lane'[<<j, r>>].st # "None"
               \/ /\ Relieved(j) /\ intent[j] = "Signed" /\ r \in routes[j]
                  /\ lane[<<j, r>>].st = "None"
    <3>1. \A j \in Intents : \A r \in routes[j] : <<j, r>> \in LaneKeys /\ <<j, r>>[1] = j
      BY <2>1 DEF LaneKeys
    <3> QED BY <2>1, <2>2, <2>3, <3>1
  <2>5. \A k \in LaneKeys : lane'[k].st \in InFlight =>
               \/ k \in known'
               \/ Relieved(k[1]) /\ lane[k].st \in InFlight /\ k \notin known
    <3>1. \A k \in LaneKeys : k[1] \in Intents
      BY DEF LaneKeys
    <3> QED BY <2>1, <2>2, <2>3, <3>1 DEF InFlight
  <2>6. \A j : intent[j] = "Signed" => intent'[j] = "Signed"
    BY <2>1
  <2>7. JobsAgree /\ LanesBuilt /\ FlightsKnown /\ up'
    BY <1>1 DEF PInv
  <2> QED BY <1>1, <1>3, <1>4, <1>6, <1>7, <1>8, <1>9, <2>4, <2>5, <2>6, <2>7, HandlerKept
<1> QED BY <1>5, <1>10 DEF PInv

\* The queue after a job that ended its write, or found it could not.
LEMMA EndedQueue ==
    ASSUME FInv, PInv, up, up', todo # <<>>, NEW i \in Intents, i = Head(todo).arg,
           Head(todo).op \in {"close", "unroutable"},
           \A j \in Intents \ {i} : intent'[j] = intent[j],
           intent' \in [Intents -> {"None", "AwaitingSigner", "Pending", "Signed"}],
           intent'[i] = "Signed" => intent[i] = "Signed",
           UNCHANGED <<routes, lane>>, known \subseteq known' \cup {k \in LaneKeys : k[1] = i},
           \A k \in LaneKeys : k[1] = i /\ k \in known /\ k \notin known' =>
               lane[k].st \notin InFlight,
           Continue(<<>>)
    PROVE  JobsAgree' /\ LanesBuilt' /\ FlightsKnown'
<1> DEFINE jobs == <<>>
<1>1. /\ Queue /\ JobsAgree /\ LanesBuilt /\ FlightsKnown /\ Continue(jobs) /\ Shapes
      /\ jobs \in Seq(PlainJobs) /\ Held(jobs) = {}
  BY HeldFew, SMT DEF FInv, PInv, Agreement
<1> HIDE DEF jobs
<1>2. Ordered(jobs) /\ (\A j \in Held(jobs) : Milder(j, Head(todo)))
      /\ \A j \in Held(jobs) : j.op \in RouteOps => intent'[j.arg] = "Signed"
  BY <1>1, NoneBarred
<1>3. i \in MayEnd(Head(todo))
  BY DEF MayEnd
<1>4. \A j \in Intents : intent[j] = "Signed" /\ j \notin MayEnd(Head(todo)) =>
          intent'[j] = "Signed"
  BY <1>3
<1>5. \A j : Relieved(j)
  BY DEF Relieved, Lasting, BootOps
<1>6. \A j \in Intents : \A r \in routes'[j] : intent'[j] = "Signed" =>
          \/ lane'[<<j, r>>].st # "None"
          \/ /\ Relieved(j) /\ intent[j] = "Signed" /\ r \in routes[j]
             /\ lane[<<j, r>>].st = "None"
  BY <1>5
<1>7. \A k \in LaneKeys : lane'[k].st \in InFlight =>
          k \in known' \/ (Relieved(k[1]) /\ lane[k].st \in InFlight /\ k \notin known)
  BY <1>5
<1> QED BY <1>1, <1>2, <1>4, <1>6, <1>7, HandlerKept

\* The rows and the projection after a write left the reducer.
LEMMA Forgotten ==
    ASSUME Shapes, NEW i \in Intents, intent' = [intent EXCEPT ![i] = "None"], Forget({i})
    PROVE  /\ intent' \in [Intents -> {"None", "AwaitingSigner", "Pending", "Signed"}]
           /\ intent'[i] = "None" /\ \A j \in Intents \ {i} : intent'[j] = intent[j]
           /\ pend' \in [Intents -> Pendings] /\ pend'[i] = NoPending
           /\ \A j \in Intents \ {i} : pend'[j] = pend[j]
           /\ known' = {k \in known : k[1] # i}
<1>1. NoPending \in Pendings
  BY DEF NoPending, Pendings
<1> QED BY <1>1 DEF Shapes, Forget

\* close_unroutable_intent: nobody was ever told of the write.
LEMMA CloseUnroutableKept ==
    ASSUME FInv, FInv', CorrTyped, PInv, UNCHANGED app, NEW i \in Intents,
           NEW ok \in BOOLEAN, CloseUnroutable(i, ok)
    PROVE  PInv' /\ PromiseStep
<1>1. /\ up /\ todo # <<>> /\ Head(todo).op = "unroutable" /\ i = Head(todo).arg
      /\ UNCHANGED <<up, corr, wire, heard>> /\ Commit(ok)
  BY DEF CloseUnroutable, IntentStep, Running, links
<1>2. ok /\ UNCHANGED left
  BY <1>1, NoFault DEF PInv, Agreement
<1>3. /\ LanesOf(i) = {} /\ intent' = [intent EXCEPT ![i] = "None"]
      /\ receipt' = [receipt EXCEPT ![i] = "NoDestination"]
      /\ Forget({i}) /\ UNCHANGED <<routes, lane, att>> /\ Continue(<<>>)
  BY <1>2 DEF CloseUnroutable
<1>4. Shapes /\ IntentAgrees(i) /\ Queue /\ CorrAgree /\ WireAgree
  BY EachAgrees DEF PInv, Agreement, FInv
<1>5. intent[i] = "Signed" /\ receipt[i] = "Signed" /\ routes[i] = {}
  <2>1. intent[i] = "Signed"
    BY <1>1, <1>4, JobOfOpenWrite DEF RouteOps
  <2>2. Plan[i] = {}
    BY <1>1, <1>4 DEF Queue, HeadFits, PlainJobs
  <2> QED BY <1>4, <2>1, <2>2 DEF IntentAgrees
<1>6. \A k \in LaneKeys : k[1] = i => lane[k].st = "None"
  BY <1>3 DEF LanesOf
<1>7. i \notin Talked
  <2>1. \A c \in corr : c.key \in LaneKeys
    BY DEF CorrTyped
  <2>2. wire \subseteq LaneKeys
    BY <1>4 DEF Shapes
  <2> QED BY <1>4, <1>5, <1>6, <2>1, <2>2 DEF Talked, CorrAgree, WireAgree
<1>8. /\ intent' \in [Intents -> {"None", "AwaitingSigner", "Pending", "Signed"}]
      /\ intent'[i] = "None" /\ \A j \in Intents \ {i} : intent'[j] = intent[j]
      /\ pend' \in [Intents -> Pendings] /\ pend'[i] = NoPending
      /\ \A j \in Intents \ {i} : pend'[j] = pend[j]
      /\ known' = {k \in known : k[1] # i}
  BY <1>3, <1>4, Forgotten
<1>9. receipt'[i] = "NoDestination" /\ \A j \in Intents \ {i} : receipt'[j] = receipt[j]
  BY <1>3 DEF FInv, ReceiptsTrue
<1>10. ReceiptsStay
  BY <1>7, <1>9, TalkedIntents DEF ReceiptsStay
<1>11. IntentAgrees(i)'
  <2>1. ~ NoPending.on /\ ~ NoPending.signed /\ NoPending.routed = {} /\ ~ NoPending.complete
    BY DEF NoPending
  <2> QED BY <1>3, <1>5, <1>6, <1>8, <1>9, <2>1 DEF IntentAgrees
<1>12. Agreement'
  <2>1. routes' \in [Intents -> SUBSET Relays] /\ known' \subseteq known
    BY <1>3, <1>4, <1>8 DEF Shapes
  <2>2. \A j \in Intents \ {i} : /\ intent'[j] = intent[j] /\ receipt'[j] = receipt[j]
                                 /\ routes'[j] = routes[j] /\ pend'[j] = pend[j]
    BY <1>3, <1>8, <1>9
  <2> QED BY <1>1, <1>2, <1>3, <1>8, <1>10, <1>11, <2>1, <2>2, OneWriteKept
<1>13. JobsAgree' /\ LanesBuilt' /\ FlightsKnown'
  <2>1. known \subseteq known' \cup {k \in LaneKeys : k[1] = i}
    BY <1>4, <1>8 DEF Shapes
  <2>2. \A k \in LaneKeys : k[1] = i /\ k \in known /\ k \notin known' =>
            lane[k].st \notin InFlight
    BY <1>6 DEF InFlight
  <2>3. Head(todo).op \in {"close", "unroutable"} /\ up'
    BY <1>1
  <2>4. intent'[i] = "Signed" => intent[i] = "Signed"
    BY <1>5
  <2> QED BY <1>1, <1>3, <1>8, <2>1, <2>2, <2>3, <2>4, EndedQueue
<1>14. PromiseStep
  <2> DEFINE status == [j \in Intents |-> Status(j)]
  <2>1. status' = [status EXCEPT ![i] = "NotSent"]
    <3>1. Status(i)' = "NotSent"
      BY <1>8, <1>9, StatusShown, StatusFacts, SMT
    <3> QED BY <3>1, <1>8, <1>9, StatusMoved
  <2>2. status[i] = "Signed"
    BY <1>5, StatusShown, StatusFacts, SMT
  <2>3. [k \in LaneKeys |-> lane[k].out]' = [k \in LaneKeys |-> lane[k].out]
    BY <1>3
  <2>4. Promise!Retract(i)
    BY <1>1, <1>3, <1>5, <2>1, <2>2, <2>3 DEF Promise!Retract
  <2> QED BY <2>4 DEF PromiseStep, Promise!Next
<1> QED BY <1>12, <1>13, <1>14 DEF PInv

\* close_if_all_lanes_terminal: with no job left that builds a lane of the
\* write, every relay of its plan has a lane, and all of them have ended.
LEMMA AllDecided ==
    ASSUME FInv, PInv, up, todo # <<>>, NEW i \in Intents, i = Head(todo).arg,
           Head(todo).op = "close", \A k \in LanesOf(i) : lane[k].st = "Terminal"
    PROVE  /\ intent[i] = "Signed" /\ receipt[i] = "Signed" /\ routes[i] # {}
           /\ routes[i] = Plan[i]
           /\ \A r \in routes[i] : lane[<<i, r>>].st = "Terminal"
<1>1. Shapes /\ IntentAgrees(i) /\ Queue /\ JobsAgree /\ LanesBuilt /\ LanesAgree
  BY EachAgrees DEF PInv, Agreement, FInv
<1>2. CanClose(i)
  BY <1>1 DEF Queue, HeadWorks, Void
<1>3. PICK k \in known : k[1] = i
  BY <1>2 DEF CanClose
<1>4. k \in LaneKeys /\ k[2] \in routes[i]
  BY <1>1, <1>3 DEF Shapes, LanesAgree
<1>5. intent[i] = "Signed" /\ receipt[i] = "Signed"
  <2>1. receipt[i] = "Signed" /\ intent[i] # "None"
    BY <1>1, <1>2, <1>4 DEF IntentAgrees, CanClose
  <2> QED BY <1>1, <2>1 DEF IntentAgrees, Shapes
<1>6. ~ Awaits(i, Lasting)
  <2>1. Held(todo) = {Head(todo)} \cup Rest /\ \A b \in Rest : ~ Bars(Head(todo), b)
    BY <1>1, RestHeld
  <2>2. Head(todo).op \notin Lasting /\ i \in MayEnd(Head(todo))
    BY DEF Lasting, BootOps, MayEnd
  <2>3. Lasting \subseteq RouteOps
    BY DEF Lasting, RouteOps
  <2> QED BY <2>1, <2>2, <2>3 DEF Awaits, Bars
<1>7. routes[i] = Plan[i]
  BY <1>1, <1>2 DEF IntentAgrees, CanClose
<1>8. ASSUME NEW r \in routes[i] PROVE lane[<<i, r>>].st = "Terminal"
  <2>1. <<i, r>> \in LaneKeys /\ <<i, r>>[1] = i
    BY <1>1 DEF Shapes, LaneKeys
  <2>2. lane[<<i, r>>].st # "None"
    BY <1>1, <1>5, <1>6 DEF LanesBuilt
  <2> QED BY <2>1, <2>2 DEF LanesOf
<1> QED BY <1>4, <1>5, <1>7, <1>8

\* close_if_all_lanes_terminal.
LEMMA CloseIfAllKept ==
    ASSUME FInv, FInv', CorrTyped, PInv, UNCHANGED app, NEW i \in Intents,
           NEW ok \in BOOLEAN, CloseIfAllLanesTerminal(i, ok)
    PROVE  PInv' /\ PromiseStep
<1> DEFINE shape == \A k \in LanesOf(i) : lane[k].st = "Terminal"
<1>1. /\ up /\ todo # <<>> /\ Head(todo).op = "close" /\ i = Head(todo).arg
      /\ UNCHANGED <<up, corr, wire, heard>> /\ Continue(<<>>)
  BY DEF CloseIfAllLanesTerminal, IntentStep, Running, links
<1>2. Shapes /\ IntentAgrees(i) /\ Queue /\ LanesAgree
  BY EachAgrees DEF PInv, Agreement, FInv
<1>3. ok
  BY <1>2, NoFault DEF CloseIfAllLanesTerminal
<1>4. CASE /\ shape /\ Commit(ok) /\ intent' = [intent EXCEPT ![i] = "None"]
           /\ Forget({i}) /\ UNCHANGED <<receipt, routes, lane, att>>
  <2>0. UNCHANGED left
    BY <1>2, <1>4, NoFault
  <2>1. /\ intent[i] = "Signed" /\ receipt[i] = "Signed" /\ routes[i] # {}
        /\ routes[i] = Plan[i] /\ \A r \in routes[i] : lane[<<i, r>>].st = "Terminal"
    BY <1>1, <1>4, AllDecided
  <2>2. /\ intent' \in [Intents -> {"None", "AwaitingSigner", "Pending", "Signed"}]
        /\ intent'[i] = "None" /\ \A j \in Intents \ {i} : intent'[j] = intent[j]
        /\ pend' \in [Intents -> Pendings] /\ pend'[i] = NoPending
        /\ \A j \in Intents \ {i} : pend'[j] = pend[j]
        /\ known' = {k \in known : k[1] # i}
    BY <1>2, <1>4, Forgotten
  <2>3. \A k \in LaneKeys : k[1] = i => lane[k].st \in {"None", "Terminal"}
    BY <1>4 DEF LanesOf
  <2>4. ReceiptsStay
    BY <1>4 DEF ReceiptsStay
  <2>5. IntentAgrees(i)'
    <3>1. ~ NoPending.on /\ ~ NoPending.signed /\ NoPending.routed = {} /\ ~ NoPending.complete
      BY DEF NoPending
    <3>2. Plan' = Plan
      BY DEF Plan
    <3> QED BY <1>2, <1>4, <2>1, <2>2, <2>3, <3>1, <3>2 DEF IntentAgrees
  <2>6. Agreement'
    <3>1. routes' \in [Intents -> SUBSET Relays] /\ known' \subseteq known
      BY <1>2, <1>4, <2>2 DEF Shapes
    <3>2. \A j \in Intents \ {i} : /\ intent'[j] = intent[j] /\ receipt'[j] = receipt[j]
                                   /\ routes'[j] = routes[j] /\ pend'[j] = pend[j]
      BY <1>4, <2>2
    <3> QED BY <1>1, <1>4, <2>0, <2>2, <2>4, <2>5, <3>1, <3>2, OneWriteKept
  <2>7. JobsAgree' /\ LanesBuilt' /\ FlightsKnown'
    <3>1. known \subseteq known' \cup {k \in LaneKeys : k[1] = i}
      BY <1>2, <2>2 DEF Shapes
    <3>2. \A k \in LaneKeys : k[1] = i /\ k \in known /\ k \notin known' =>
              lane[k].st \notin InFlight
      BY <2>3 DEF InFlight
    <3>3. Head(todo).op \in {"close", "unroutable"} /\ up'
      BY <1>1
    <3>4. intent'[i] = "Signed" => intent[i] = "Signed"
      BY <2>1
    <3> QED BY <1>1, <1>4, <2>2, <3>1, <3>2, <3>3, <3>4, EndedQueue
  <2>8. PromiseStep
    <3> DEFINE status == [j \in Intents |-> Status(j)]
               verdict == [k \in LaneKeys |-> lane[k].out]
    <3>1. status' = [status EXCEPT ![i] = "Settled"]
      <4>1. Status(i)' = "Settled"
        BY <1>4, <2>1, <2>2, StatusShown, StatusFacts, SMT
      <4> QED BY <4>1, <1>4, <2>1, <2>2, StatusMoved
    <3>2. status[i] = "Signed"
      BY <2>1, StatusShown, StatusFacts, SMT
    <3>3. verdict' = verdict
      BY <1>4
    <3>4. \A r \in routes[i] : verdict[<<i, r>>] # "None"
      <4>1. \A r \in routes[i] : <<i, r>> \in LaneKeys
        BY <1>2 DEF Shapes, LaneKeys
      <4> QED BY <1>2, <2>1, <4>1 DEF LanesAgree
    <3>5. Promise!Settle(i)
      BY <1>1, <1>4, <2>1, <3>1, <3>2, <3>3, <3>4 DEF Promise!Settle
    <3> QED BY <3>5 DEF PromiseStep, Promise!Next
  <2> QED BY <2>6, <2>7, <2>8 DEF PInv
<1>5. CASE UNCHANGED <<store, pend, known, faulted, left>>
  <2>1. UNCHANGED <<intent, receipt, routes, lane, att, pend, known, left>>
    BY <1>5 DEF store
  <2>2. PromiseStep
    BY <1>1, <2>1, NothingShown
  <2>3. ReceiptsStay
    BY <2>1 DEF ReceiptsStay
  <2>4. IntentAgrees(i)'
    BY <1>1, <1>2, <2>1 DEF IntentAgrees, Plan
  <2>5. Agreement'
    <3>1. /\ intent' \in [Intents -> {"None", "AwaitingSigner", "Pending", "Signed"}]
          /\ routes' \in [Intents -> SUBSET Relays] /\ pend' \in [Intents -> Pendings]
          /\ known' \subseteq known
      BY <1>2, <2>1 DEF Shapes
    <3> QED BY <1>1, <2>1, <2>3, <2>4, <3>1, OneWriteKept
  <2>6. JobsAgree' /\ LanesBuilt' /\ FlightsKnown'
    <3>1. known \subseteq known' \cup {k \in LaneKeys : k[1] = i}
      BY <2>1
    <3>2. Head(todo).op \in {"close", "unroutable"} /\ up'
      BY <1>1
    <3>3. intent' \in [Intents -> {"None", "AwaitingSigner", "Pending", "Signed"}]
      BY <1>2, <2>1 DEF Shapes
    <3> QED BY <1>1, <2>1, <3>1, <3>2, <3>3, EndedQueue
  <2> QED BY <2>2, <2>5, <2>6 DEF PInv
<1> QED BY <1>3, <1>4, <1>5 DEF CloseIfAllLanesTerminal

\* Every commit of the running handler.
LEMMA HandlerStepKept ==
    ASSUME FInv, FInv', CorrTyped, PInv, UNCHANGED app, HandlerStep
    PROVE  PInv' /\ PromiseStep
<1>1. PICK ok \in BOOLEAN :
        \/ VisitLane(ok)
        \/ ApplyMove(ok)
        \/ \E k \in LaneKeys : StartLane(k, ok)
        \/ \E i \in Intents :
            \/ PromoteSigned(i, ok)
            \/ \E op \in {"compensate", "cancel"} : Retract(i, op, ok)
            \/ RecordRoutes(i, ok)
            \/ \E op \in {"bootstrap", "bootLanes"} : BootstrapLanes(i, op, ok)
            \/ CloseUnroutable(i, ok)
            \/ CloseIfAllLanesTerminal(i, ok)
            \/ BootRoutes(i, ok)
            \/ ok /\ NoNewRoutes(i)
            \/ ~ ok /\ BootRoutesUnread(i)
  BY DEF HandlerStep
<1>2. ASSUME NEW i \in Intents PROVE ~ BootRoutesUnread(i)
  <2>1. Shapes /\ FALSE \in BOOLEAN
    BY DEF PInv, Agreement
  <2> QED BY <2>1, NoFault DEF BootRoutesUnread
<1> QED BY <1>1, <1>2, VisitLaneKept, ApplyMoveKept, StartLaneKept, PromoteKept, RetractKept,
           RouteKept, BootstrapKept, CloseUnroutableKept, CloseIfAllKept, BootRoutesKept
=============================================================================
