------------------------- MODULE WriteMessageProofs -------------------------
(***************************************************************************)
(* The messages that start a handler keep the agreement and the promise.   *)
(***************************************************************************)
EXTENDS WriteLaneProofs

USE Zenon

-----------------------------------------------------------------------------
(***************************************************************************)
(* Messages.                                                               *)
(***************************************************************************)

\* Misfortunes other than faults leave no fault behind.
LEMMA Spent ==
    ASSUME Shapes, NEW kind \in Kinds \ {"fault"}, NEW cost \in Nat, Spend(kind, cost)
    PROVE  left' \in [Kinds -> Nat] /\ left'["fault"] = 0
BY SMT DEF Shapes, Kinds, Spend

\* A message that changes no row, no correlation and no projection.
Quiet ==
    /\ Idle
    /\ UNCHANGED <<intent, receipt, routes, lane, att, up, known, corr, wire>>
    /\ heard' \subseteq heard
    /\ left' \in [Kinds -> Nat] /\ left'["fault"] = 0
    /\ pend' \in [Intents -> Pendings]
    /\ \A i \in Intents : /\ pend'[i].on = pend[i].on /\ pend'[i].signed = pend[i].signed
                          /\ pend'[i].routed = pend[i].routed
                          /\ pend'[i].complete = pend[i].complete

\* What it starts relies on signed writes only.
LEMMA QuietKept ==
    ASSUME FInv, FInv', CorrTyped, PInv, UNCHANGED app, Quiet,
           NEW S, NEW jobs \in Seq(S), Do(jobs), Ordered(jobs),
           \A j \in Held(jobs) : j.op \in RouteOps => intent[j.arg] = "Signed"
    PROVE  PInv' /\ PromiseStep
<1>1. /\ Shapes /\ IntentsAgree /\ LanesAgree /\ SettledEverywhere
      /\ LanesBuilt /\ FlightsKnown
  BY DEF PInv, Agreement
<1>2. /\ up /\ todo = <<>>
      /\ UNCHANGED <<intent, receipt, routes, lane, att, up, known, corr, wire>>
  BY DEF Quiet, Idle
<1>3. Shapes' /\ DownIsEmpty'
  BY <1>1, <1>2, SMT DEF Shapes, DownIsEmpty, Quiet
<1>4. IntentsAgree' /\ SettledEverywhere'
  BY <1>1, <1>2, SMT DEF IntentsAgree, SettledEverywhere, Plan, Quiet
<1>5. LanesAgree'
  <2>1. \A k \in LaneKeys : pend'[k[1]].on = pend[k[1]].on
    BY DEF Quiet, LaneKeys
  <2> QED BY <1>1, <1>2, <2>1 DEF LanesAgree
<1>6. ReceiptsStay
  BY <1>2 DEF ReceiptsStay
<1>7. CorrAgree' /\ WireAgree' /\ IsFiniteSet(InFlightLanes') /\ CapsHold'
  BY <1>2, <1>6, StillKept
<1>8. Agreement'
  BY <1>3, <1>4, <1>5, <1>7 DEF Agreement
<1>9. JobsAgree' /\ LanesBuilt' /\ FlightsKnown'
  <2>1. \A j \in Held(jobs) : j.op \in RouteOps => intent'[j.arg] = "Signed"
    BY <1>2
  <2>2. \A i \in Intents : \A r \in routes'[i] : intent'[i] = "Signed" =>
            \/ lane'[<<i, r>>].st # "None"
            \/ intent[i] = "Signed" /\ r \in routes[i] /\ lane[<<i, r>>].st = "None"
    BY <1>2
  <2>3. \A k \in LaneKeys : lane'[k].st \in InFlight =>
            k \in known' \/ (lane[k].st \in InFlight /\ k \notin known)
    BY <1>2
  <2> QED BY <1>1, <1>2, <2>1, <2>2, <2>3, MessageKept
<1>10. PromiseStep
  BY <1>2, NothingShown
<1> QED BY <1>8, <1>9, <1>10 DEF PInv

\* What it starts relies on no write at all.
LEMMA CalmKept ==
    ASSUME FInv, FInv', CorrTyped, PInv, UNCHANGED app, Quiet,
           NEW S, \A j \in S : j.op \notin RouteOps,
           NEW jobs \in Seq(S), Do(jobs)
    PROVE  PInv' /\ PromiseStep
<1>1. \A j \in Held(jobs) : j.op \notin RouteOps
  BY SMT DEF Held
<1>2. Ordered(jobs)
  BY <1>1, NoneBarred
<1> QED BY <1>1, <1>2, QuietKept

\* A message whose handler leaves the pending writes alone.
LEMMA MessageQuiet ==
    ASSUME PInv, NEW jobs, Message(jobs), UNCHANGED pend, heard' \subseteq heard,
           left' \in [Kinds -> Nat], left'["fault"] = 0
    PROVE  Quiet /\ Do(jobs)
BY DEF Message, store, Quiet, PInv, Agreement, Shapes

\* A message that changes whether a signer has been asked.
LEMMA AskingQuiet ==
    ASSUME PInv, NEW jobs, Message(jobs), NEW f \in [Intents -> BOOLEAN],
           pend' = [i \in Intents |-> [pend[i] EXCEPT !.asking = f[i]]],
           UNCHANGED <<links, left>>
    PROVE  Quiet /\ Do(jobs)
<1>1. Shapes
  BY DEF PInv, Agreement
<1>2. \A i \in Intents :
          /\ pend'[i] \in Pendings
          /\ pend'[i].on = pend[i].on /\ pend'[i].signed = pend[i].signed
          /\ pend'[i].routed = pend[i].routed /\ pend'[i].complete = pend[i].complete
  BY <1>1 DEF Shapes, Pendings
<1>3. pend' \in [Intents -> Pendings]
  BY <1>2
<1>4. UNCHANGED heard /\ left' \in [Kinds -> Nat] /\ left'["fault"] = 0
  BY <1>1 DEF links, Shapes
<1> QED BY <1>2, <1>3, <1>4 DEF Message, store, Quiet

\* The messages of the application and of the signer about one write.
LEMMA SignerMessagesKept ==
    ASSUME FInv, FInv', CorrTyped, PInv, UNCHANGED app,
           \/ \E i \in Intents : \E ok \in BOOLEAN : SignerCompleted(i, ok)
           \/ \E i \in Intents : SignerUnavailable(i)
           \/ \E i \in Intents : CancelWrite(i)
           \/ \E pk \in Authors : SignerAttached(pk)
    PROVE  PInv' /\ PromiseStep
<1> DEFINE S == {j \in PlainJobs : j.op \notin RouteOps}
<1>0. /\ Shapes /\ <<>> \in Seq(S) /\ \A j \in S : j.op \notin RouteOps
      /\ left \in [Kinds -> Nat] /\ left["fault"] = 0
  BY SMT DEF PInv, Agreement, Shapes
<1>1. \A i \in Intents : Promote(i) \in S /\ Compensate(i) \in S /\ Cancel(i) \in S
  BY PlainIntentJobs DEF Promote, Compensate, Cancel, IntentJob, RouteOps, BootOps
<1> HIDE DEF S
<1>2. ASSUME NEW i \in Intents, pend' = [pend EXCEPT ![i].asking = FALSE]
      PROVE  \E f \in [Intents -> BOOLEAN] :
                pend' = [j \in Intents |-> [pend[j] EXCEPT !.asking = f[j]]]
  <2> DEFINE f == [j \in Intents |-> IF j = i THEN FALSE ELSE pend[j].asking]
  <2>1. f \in [Intents -> BOOLEAN]
    BY <1>0 DEF Shapes, Pendings
  <2>2. \A j \in Intents : pend'[j] = [pend[j] EXCEPT !.asking = f[j]]
    BY <1>0, <1>2 DEF Shapes, Pendings
  <2>3. pend' = [j \in Intents |-> [pend[j] EXCEPT !.asking = f[j]]]
    BY <1>0, <1>2, <2>2 DEF Shapes
  <2> QED BY <2>1, <2>3
<1>3. ASSUME NEW i \in Intents, NEW ok \in BOOLEAN, SignerCompleted(i, ok)
      PROVE  PInv' /\ PromiseStep
  <2> DEFINE jobs == <<IF ok THEN Promote(i) ELSE Compensate(i)>>
  <2>1. jobs \in Seq(S)
    BY <1>1, SMT
  <2>2. /\ Message(jobs) /\ pend' = [pend EXCEPT ![i].asking = FALSE]
        /\ UNCHANGED <<links, left>>
    BY <1>3 DEF SignerCompleted
  <2> HIDE DEF jobs
  <2>3. Quiet /\ Do(jobs)
    BY <1>2, <2>2, AskingQuiet
  <2> QED BY <1>0, <2>1, <2>3, CalmKept
<1>4. ASSUME NEW i \in Intents, SignerUnavailable(i)
      PROVE  PInv' /\ PromiseStep
  <2>1. /\ Message(<<>>) /\ pend' = [pend EXCEPT ![i].asking = FALSE]
        /\ UNCHANGED <<links, left>>
    BY <1>4 DEF SignerUnavailable
  <2>2. Quiet /\ Do(<<>>)
    BY <1>2, <2>1, AskingQuiet
  <2> QED BY <1>0, <2>2, CalmKept
<1>5. ASSUME NEW i \in Intents, CancelWrite(i)
      PROVE  PInv' /\ PromiseStep
  <2> DEFINE jobs == <<Cancel(i)>>
  <2>1. jobs \in Seq(S)
    BY <1>1, SMT
  <2>2. Message(jobs) /\ UNCHANGED <<pend, heard, left>>
    BY <1>5 DEF CancelWrite, links
  <2> HIDE DEF jobs
  <2>3. Quiet /\ Do(jobs)
    BY <1>0, <2>2, MessageQuiet
  <2> QED BY <1>0, <2>1, <2>3, CalmKept
<1>6. ASSUME NEW pk \in Authors, SignerAttached(pk)
      PROVE  PInv' /\ PromiseStep
  <2> DEFINE f == [i \in Intents |-> pend[i].asking \/ NeedsSigner(i, pk)]
  <2>1. f \in [Intents -> BOOLEAN]
    <3>1. \A i \in Intents : (pend[i].asking \/ NeedsSigner(i, pk)) \in BOOLEAN
      OBVIOUS
    <3> QED BY <3>1
  <2>2. pend' = [i \in Intents |-> [pend[i] EXCEPT !.asking = f[i]]]
    BY <1>6 DEF SignerAttached
  <2> HIDE DEF f
  <2>3. Message(<<>>) /\ UNCHANGED <<links, left>>
    BY <1>6 DEF SignerAttached
  <2>4. Quiet /\ Do(<<>>)
    BY <2>1, <2>2, <2>3, AskingQuiet
  <2> QED BY <1>0, <2>4, CalmKept
<1> QED BY <1>3, <1>4, <1>5, <1>6

\* The messages about a relay session.
LEMMA SessionMessagesKept ==
    ASSUME FInv, FInv', CorrTyped, PInv, UNCHANGED app, NEW s \in Sessions,
           \/ RelayConnected(s)
           \/ RelayDisconnected(s)
           \/ \E ok \in BOOLEAN : AuthChallenge(s, ok) \/ AuthFinished(s, ok)
           \/ AuthRestricted(s)
           \/ AuthErred(s)
           \/ AuthCapabilityInvalidated(s)
           \/ AuthProbeReleased(s)
    PROVE  PInv' /\ PromiseStep
<1> DEFINE S == {j \in PlainJobs : j.op \notin RouteOps}
<1>0. /\ Shapes /\ <<>> \in Seq(S) /\ \A j \in S : j.op \notin RouteOps
      /\ left \in [Kinds -> Nat] /\ left["fault"] = 0
  BY SMT DEF PInv, Agreement, Shapes
<1>1. /\ Park(s) \in S /\ Suspend(s) \in S /\ Wake(s) \in S
      /\ WakeAuth(s) \in S /\ Deny(s) \in S
  BY PlainPark DEF Park, Suspend, Wake, WakeAuth, Deny, LaneJob, RouteOps, BootOps
<1>2. LaneJob("reclaim", "all") \in S /\ LaneJob("start", "all") \in S
  BY PlainLaneJob DEF LaneJob, LaneOps, LaneArgs, RouteOps, BootOps
<1> HIDE DEF S
<1>3. Schedule \in Seq(S) /\ Invalidate(s) \in Seq(S)
  BY <1>1, <1>2, SMT DEF Schedule, Invalidate
<1>4. ASSUME NEW kind \in {"drop", "auth"}, NEW cost \in {0, 1}, Spend(kind, cost)
      PROVE  left' \in [Kinds -> Nat] /\ left'["fault"] = 0
  BY <1>0, <1>4, Spent DEF Kinds
<1>5. ASSUME NEW jobs \in Seq(S), Message(jobs), UNCHANGED pend, heard' \subseteq heard,
             left' \in [Kinds -> Nat] /\ left'["fault"] = 0
      PROVE  PInv' /\ PromiseStep
  <2>1. Quiet /\ Do(jobs)
    BY <1>5, MessageQuiet
  <2> QED BY <1>0, <2>1, CalmKept
<1>6. CASE RelayConnected(s)
  <2>1. Invalidate(s) \o <<Wake(s)>> \o Schedule \in Seq(S)
    BY <1>1, <1>3, SMT
  <2>2. heard' \subseteq heard /\ UNCHANGED <<pend, left>>
    BY <1>6 DEF RelayConnected
  <2> QED BY <1>0, <1>5, <1>6, <2>1, <2>2 DEF RelayConnected
<1>7. CASE RelayDisconnected(s)
  <2>1. Invalidate(s) \o <<Suspend(s)>> \o Schedule \in Seq(S)
    BY <1>1, <1>3, SMT
  <2>2. heard' \subseteq heard /\ UNCHANGED pend /\ Spend("drop", 1)
    BY <1>7 DEF RelayDisconnected
  <2> QED BY <1>4, <1>5, <1>7, <2>1, <2>2 DEF RelayDisconnected
<1>8. ASSUME NEW ok \in BOOLEAN, AuthChallenge(s, ok)
      PROVE  PInv' /\ PromiseStep
  <2>1. <<Park(s)>> \in Seq(S)
    BY <1>1, SMT
  <2>2. UNCHANGED <<pend, heard>>
    BY <1>8 DEF AuthChallenge
  <2>3. \E cost \in {0, 1} : Spend("auth", cost)
    BY <1>8 DEF AuthChallenge
  <2> QED BY <1>4, <1>5, <1>8, <2>1, <2>2, <2>3 DEF AuthChallenge
<1>9. ASSUME NEW ok \in BOOLEAN, AuthFinished(s, ok)
      PROVE  PInv' /\ PromiseStep
  <2>1. <<IF ok THEN WakeAuth(s) ELSE Deny(s)>> \o Schedule \in Seq(S)
    BY <1>1, <1>3, SMT
  <2>2. UNCHANGED <<pend, heard, left>>
    BY <1>9 DEF AuthFinished
  <2> QED BY <1>0, <1>5, <1>9, <2>1, <2>2 DEF AuthFinished
<1>10. CASE AuthRestricted(s)
  <2>1. (<<Park(s)>> \o IF s \in ready THEN <<Deny(s)>> \o Schedule ELSE <<>>) \in Seq(S)
    BY <1>1, <1>3, SMT
  <2>2. UNCHANGED <<pend, heard>> /\ Spend("auth", 1)
    BY <1>10 DEF AuthRestricted
  <2> QED BY <1>4, <1>5, <1>10, <2>1, <2>2 DEF AuthRestricted
<1>11. CASE AuthErred(s)
  <2>1. UNCHANGED <<pend, heard>> /\ Spend("auth", 1) /\ Message(<<>>)
    BY <1>11 DEF AuthErred
  <2> QED BY <1>0, <1>4, <1>5, <2>1
<1>12. CASE AuthCapabilityInvalidated(s)
  <2>1. UNCHANGED <<pend, heard>> /\ Spend("auth", 1) /\ Message(Invalidate(s))
    BY <1>12 DEF AuthCapabilityInvalidated
  <2> QED BY <1>3, <1>4, <1>5, <2>1
<1>13. CASE AuthProbeReleased(s)
  <2>1. <<WakeAuth(s)>> \o Schedule \in Seq(S)
    BY <1>1, <1>3, SMT
  <2>2. UNCHANGED <<pend, heard, left>>
    BY <1>13 DEF AuthProbeReleased
  <2> QED BY <1>0, <1>5, <1>13, <2>1, <2>2 DEF AuthProbeReleased
<1> QED BY <1>6, <1>7, <1>8, <1>9, <1>10, <1>11, <1>12, <1>13

\* The answer to an event.
LEMMA RelayOkKept ==
    ASSUME FInv, FInv', CorrTyped, PInv, UNCHANGED app, NEW k \in LaneKeys,
           NEW class \in {"Answered", "Transient", "AuthRequired"}, RelayOk(k, class)
    PROVE  PInv' /\ PromiseStep
<1> DEFINE a == Apply(k, AckMove(k, class))
           first == IF lane[k].st = "AwaitingAck" THEN <<a>> ELSE <<>>
           S == {a, LaneJob("reclaim", "all"), LaneJob("start", "all")}
<1>1. Message(first \o Schedule) /\ UNCHANGED <<pend, heard, left>>
  BY DEF RelayOk
<1>2. /\ a.op = "apply" /\ LaneJob("reclaim", "all").op = "reclaim"
      /\ LaneJob("start", "all").op = "start"
  BY DEF Apply, LaneJob
<1> HIDE DEF a
<1>3. \A j \in S : j.op \notin RouteOps
  BY <1>2 DEF RouteOps, BootOps
<1>a. a \in S /\ LaneJob("reclaim", "all") \in S /\ LaneJob("start", "all") \in S
  OBVIOUS
<1> HIDE DEF S
<1>4. first \in Seq(S) /\ Schedule \in Seq(S)
  BY <1>a, SMT DEF Schedule
<1> HIDE DEF first
<1>5. first \o Schedule \in Seq(S)
  BY <1>4, SMT
<1>6. left' \in [Kinds -> Nat] /\ left'["fault"] = 0
  BY <1>1 DEF PInv, Agreement, Shapes
<1>7. Quiet /\ Do(first \o Schedule)
  BY <1>1, <1>6, MessageQuiet
<1> QED BY <1>3, <1>5, <1>7, CalmKept

\* rewrite_open_routes resolves each open write once, and closes it after that.
LEMMA RewriteOrdered ==
    ASSUME PInv, up
    PROVE  /\ Ordered(RewriteOpenRoutes)
           /\ \A j \in Held(RewriteOpenRoutes) :
                  j.op \in {"route", "close"} /\ intent[j.arg] = "Signed"
<1> DEFINE q == InKeyOrder(Unfinished)
           C == Cardinality(Unfinished)
           r == RewriteOpenRoutes
<1>1. IsFiniteSet(Unfinished)
  BY IntentsAssumption, FS_Subset DEF Unfinished
<1>2. /\ q \in Seq(Unfinished) /\ Len(q) = C
      /\ \A m, n \in 1 .. C : q[m] = q[n] => m = n
  BY <1>1, Listed
<1>3. C \in Nat
  BY <1>1, FS_CardinalityType
<1>4. r = [n \in 1 .. 2 * Len(q) |-> IF n % 2 = 1 THEN Route(q[(n + 1) \div 2])
                                                 ELSE Close(q[n \div 2])]
  BY DEF RewriteOpenRoutes
<1> HIDE DEF q, C, r
<1>5. Len(r) = 2 * C
  BY <1>2, <1>3, <1>4, SMT
<1>6. \A n \in 1 .. 2 * C :
          \/ /\ (n + 1) \div 2 \in 1 .. C /\ n = 2 * ((n + 1) \div 2) - 1
             /\ r[n].op = "route" /\ r[n].arg = q[(n + 1) \div 2]
          \/ /\ n \div 2 \in 1 .. C /\ n = 2 * (n \div 2)
             /\ r[n].op = "close" /\ r[n].arg = q[n \div 2]
  <2> TAKE n \in 1 .. 2 * C
  <2>1. r[n] = IF n % 2 = 1 THEN Route(q[(n + 1) \div 2]) ELSE Close(q[n \div 2])
    BY <1>2, <1>4
  <2>2. CASE n % 2 = 1
    <3>1. (n + 1) \div 2 \in 1 .. C /\ n = 2 * ((n + 1) \div 2) - 1
      BY <1>3, <2>2, SMT
    <3> QED BY <2>1, <2>2, <3>1, SMT DEF Route, IntentJob
  <2>3. CASE n % 2 # 1
    <3>1. n \div 2 \in 1 .. C /\ n = 2 * (n \div 2)
      BY <1>3, <2>3, SMT
    <3> QED BY <2>1, <2>3, <3>1, SMT DEF Close, IntentJob
  <2> QED BY <2>2, <2>3
<1>7. \A m \in 1 .. C : q[m] \in Unfinished
  BY <1>2, SMT
<1>8. \A i \in Unfinished : intent[i] = "Signed"
  BY EachAgrees DEF Unfinished, IntentAgrees
<1>9. \A j \in Held(r) : j.op \in {"route", "close"} /\ intent[j.arg] = "Signed"
  BY <1>5, <1>6, <1>7, <1>8, SMT DEF Held
<1>10. ASSUME NEW m \in 1 .. Len(r), NEW n \in 1 .. Len(r), m < n
       PROVE  ~ Bars(r[m], r[n])
  <2> SUFFICES ASSUME Bars(r[m], r[n]) PROVE FALSE
    OBVIOUS
  <2>1. r[m].op \in {"route", "close"} /\ r[n].op \in {"route", "close"}
    BY <1>5, <1>6
  <2>2. r[n].op = "route" /\ r[n].arg = r[m].arg
    BY <2>1 DEF Bars, MayEnd, RouteOps, BootOps
  <2>3. /\ (n + 1) \div 2 \in 1 .. C /\ n = 2 * ((n + 1) \div 2) - 1
        /\ r[n].arg = q[(n + 1) \div 2]
    BY <1>5, <1>6, <2>2
  <2>4. CASE r[m].op = "route"
    <3>1. /\ (m + 1) \div 2 \in 1 .. C /\ m = 2 * ((m + 1) \div 2) - 1
          /\ r[m].arg = q[(m + 1) \div 2]
      BY <1>5, <1>6, <2>4
    <3>2. (m + 1) \div 2 = (n + 1) \div 2
      BY <1>2, <2>2, <2>3, <3>1
    <3> QED BY <1>10, <2>3, <3>1, <3>2, SMT
  <2>5. CASE r[m].op = "close"
    <3>1. m \div 2 \in 1 .. C /\ m = 2 * (m \div 2) /\ r[m].arg = q[m \div 2]
      BY <1>5, <1>6, <2>5
    <3>2. m \div 2 = (n + 1) \div 2
      BY <1>2, <2>2, <2>3, <3>1
    <3> QED BY <1>3, <1>10, <2>3, <3>1, <3>2, SMT
  <2> QED BY <2>1, <2>4, <2>5
<1> QED BY <1>9, <1>10 DEF Ordered, r

\* What is learned of routes, and the timer.
LEMMA RewriteMessagesKept ==
    ASSUME FInv, FInv', CorrTyped, PInv, UNCHANGED app,
           AuthorRoutesLearned \/ \E D \in SUBSET LaneKeys : Tick(D)
    PROVE  PInv' /\ PromiseStep
<1> DEFINE r == RewriteOpenRoutes
<1>0. left \in [Kinds -> Nat] /\ left["fault"] = 0
  BY DEF PInv, Agreement, Shapes
<1>1. /\ r \in Seq(PlainJobs) /\ up /\ Ordered(r)
      /\ \A j \in Held(r) : j.op \in {"route", "close"} /\ intent[j.arg] = "Signed"
  BY PlainRewrite, RewriteOrdered DEF AuthorRoutesLearned, Tick, Message, Idle
<1>2. CASE AuthorRoutesLearned
  <2>1. Message(r) /\ UNCHANGED <<pend, heard, left>>
    BY <1>2 DEF AuthorRoutesLearned, links
  <2> HIDE DEF r
  <2>2. Quiet /\ Do(r)
    BY <1>0, <2>1, MessageQuiet
  <2> QED BY <1>1, <2>2, QuietKept
<1>3. ASSUME NEW D \in SUBSET LaneKeys, Tick(D)
      PROVE  PInv' /\ PromiseStep
  <2> DEFINE p == <<Due(D)>>
             t == p \o Schedule
  <2>1. Message((r \o p) \o Schedule) /\ UNCHANGED <<pend, heard, left>>
    BY <1>3 DEF Tick, links
  <2>2. /\ p \in Seq(PlainJobs) /\ Schedule \in Seq(PlainJobs)
        /\ Held(p) = {Due(D)} /\ Due(D).op = "due"
    <3>1. Due(D) \in PlainJobs /\ Due(D).op = "due"
      BY PlainLaneJob DEF Due, LaneJob, LaneOps, LaneArgs
    <3> QED BY <3>1, PlainSchedule, HeldFew, SMT
  <2> HIDE DEF p, r
  <2>3. t \in Seq(PlainJobs) /\ (r \o p) \o Schedule = r \o t
    BY <1>1, <2>2, SMT
  <2>4. Held(t) = Held(p) \cup Held(Schedule)
    BY <2>2, HeldBoth, SMT
  <2>5. \A j \in Held(t) : j.op \notin RouteOps
    BY <2>2, <2>4, HeldFew DEF RouteOps, BootOps
  <2> HIDE DEF t
  <2>6. Ordered(t)
    BY <2>5, NoneBarred
  <2>7. \A a \in Held(r), b \in Held(t) : ~ Bars(a, b)
    BY <2>5 DEF Bars
  <2>8. Ordered(r \o t) /\ Held(r \o t) = Held(r) \cup Held(t)
    BY <1>1, <2>3, <2>6, <2>7, OrderedBoth, HeldBoth, SMT
  <2>9. \A j \in Held(r \o t) : j.op \in RouteOps => intent[j.arg] = "Signed"
    BY <1>1, <2>5, <2>8
  <2>10. Quiet /\ Do(r \o t) /\ r \o t \in Seq(PlainJobs)
    BY <1>0, <1>1, <2>1, <2>3, MessageQuiet, SMT
  <2> QED BY <2>8, <2>9, <2>10, QuietKept
<1> QED BY <1>2, <1>3

\* on_publish: the rows of an accepted write and of those it retires.
Retired(i) == {j \in Retires[i] : intent[j] # "None"}

LEMMA PublishedRows ==
    ASSUME FInv, PInv, NEW i \in Intents, Publish(i)
    PROVE  /\ Idle /\ i \notin Retired(i) /\ Retired(i) \subseteq Intents
           /\ UNCHANGED <<up, heard, corr, wire, left>>
           /\ receipt[i] = "None" /\ intent[i] = "None" /\ routes[i] = {}
           /\ intent'[i] \in {"Pending", "AwaitingSigner"} /\ receipt'[i] = "Accepted"
           /\ routes'[i] = {}
           /\ pend'[i].on /\ ~ pend'[i].signed /\ pend'[i].routed = {} /\ ~ pend'[i].complete
           /\ \A j \in Retired(i) :
                 /\ intent[j] # "None" /\ intent'[j] = "None" /\ routes'[j] = {}
                 /\ pend'[j] = NoPending
                 /\ receipt'[j] = IF HandoffMayHaveOccurred(j) THEN "Superseded"
                                                               ELSE "NotSent"
           /\ \A j \in Intents \ (Retired(i) \cup {i}) :
                 /\ intent'[j] = intent[j] /\ receipt'[j] = receipt[j]
                 /\ routes'[j] = routes[j] /\ pend'[j] = pend[j]
           /\ \A k \in LaneKeys : k[1] \in Retired(i) => lane'[k] = NoLane /\ att'[k] = <<>>
           /\ \A k \in LaneKeys : k[1] \notin Retired(i) => lane'[k] = lane[k] /\ att'[k] = att[k]
           /\ known' = {k \in known : k[1] \notin Retired(i)}
           /\ Shapes'
<1>1. Shapes /\ IntentAgrees(i)
  BY EachAgrees DEF PInv, Agreement
<1>2. /\ Idle /\ receipt[i] = "None" /\ \A j \in Retires[i] : receipt[j] # "None"
      /\ UNCHANGED <<up, heard, corr, wire, left>>
      /\ known' = {k \in known : k[1] \notin Retired(i)}
  BY DEF Publish, links, Retired
<1>3. i \notin Retired(i) /\ Retired(i) \subseteq Intents
  BY <1>2, AppsAssumption DEF Retired, Retires, FInv
<1>4. intent[i] = "None" /\ routes[i] = {}
  BY <1>1, <1>2 DEF Shapes, IntentAgrees
<1>5. /\ intent' = [j \in Intents |-> IF j = i THEN IF i \in Presigned THEN "Pending"
                                                    ELSE "AwaitingSigner"
                                      ELSE IF j \in Retired(i) THEN "None" ELSE intent[j]]
      /\ receipt' = [j \in Intents |-> IF j = i THEN "Accepted"
                          ELSE IF j \notin Retired(i) THEN receipt[j]
                          ELSE IF HandoffMayHaveOccurred(j) THEN "Superseded" ELSE "NotSent"]
      /\ routes' = [j \in Intents |-> IF j \in Retired(i) THEN {} ELSE routes[j]]
  BY DEF Publish, Retired
<1>6. /\ lane' = [k \in LaneKeys |-> IF k[1] \in Retired(i) THEN NoLane ELSE lane[k]]
      /\ att' = [k \in LaneKeys |-> IF k[1] \in Retired(i) THEN <<>> ELSE att[k]]
  BY DEF Publish, Retired
<1> DEFINE new == [NoPending EXCEPT !.on = TRUE, !.asking = i \notin Presigned]
<1>7. pend' = [j \in Intents |-> IF j = i THEN new
                                 ELSE IF j \in Retired(i) THEN NoPending ELSE pend[j]]
  BY DEF Publish, Retired
<1>8. /\ new \in Pendings /\ NoPending \in Pendings /\ new.on /\ ~ new.signed
      /\ new.routed = {} /\ ~ new.complete
  BY DEF NoPending, Pendings
<1> HIDE DEF new
<1>9. /\ pend' \in [Intents -> Pendings]
      /\ intent' \in [Intents -> {"None", "AwaitingSigner", "Pending", "Signed"}]
      /\ routes' \in [Intents -> SUBSET Relays]
  BY <1>1, <1>5, <1>7, <1>8 DEF Shapes
<1>10. Shapes'
  BY <1>1, <1>2, <1>9 DEF Shapes
<1>11. \A j \in Retired(i) : intent[j] # "None"
  BY DEF Retired
<1>12. /\ intent'[i] \in {"Pending", "AwaitingSigner"} /\ receipt'[i] = "Accepted"
       /\ routes'[i] = {} /\ pend'[i] = new
  BY <1>3, <1>4, <1>5, <1>7
<1>13. \A j \in Retired(i) :
           /\ intent'[j] = "None" /\ routes'[j] = {} /\ pend'[j] = NoPending
           /\ receipt'[j] = IF HandoffMayHaveOccurred(j) THEN "Superseded" ELSE "NotSent"
  BY <1>3, <1>5, <1>7
<1>14. \A j \in Intents \ (Retired(i) \cup {i}) :
           /\ intent'[j] = intent[j] /\ receipt'[j] = receipt[j]
           /\ routes'[j] = routes[j] /\ pend'[j] = pend[j]
  BY <1>3, <1>5, <1>7
<1>15. /\ \A k \in LaneKeys : k[1] \in Retired(i) => lane'[k] = NoLane /\ att'[k] = <<>>
       /\ \A k \in LaneKeys : k[1] \notin Retired(i) => lane'[k] = lane[k] /\ att'[k] = att[k]
  BY <1>6
<1> QED BY <1>2, <1>3, <1>4, <1>8, <1>10, <1>11, <1>12, <1>13, <1>14, <1>15

\* A write the transport or a relay knows of may have been handed off.
LEMMA TalkedMayHave ==
    ASSUME FInv, PInv, CorrTyped, NEW j \in Talked, receipt[j] = "Signed"
    PROVE  HandoffMayHaveOccurred(j)
<1>1. CorrAgree /\ WireAgree /\ Shapes /\ Rows
  BY DEF PInv, Agreement, FInv
<1>2. CASE \E c \in corr : c.key[1] = j
  <2>1. PICK c \in corr : c.key[1] = j
    BY <1>2
  <2>2. /\ c.key \in LaneKeys /\ c.ord \in Nat \ {0} /\ lane[c.key].st # "None"
        /\ c.ord =< Len(att[c.key]) /\ att[c.key][c.ord].handoff = "None"
    BY <1>1, <2>1 DEF CorrAgree, CorrTyped
  <2>3. Len(att[c.key]) \in Nat
    BY <1>1, <2>2, SMT DEF Rows
  <2> QED BY <2>1, <2>2, <2>3, SMT DEF HandoffMayHaveOccurred, LanesOf, Ordinal
<1>3. CASE \E k \in wire : k[1] = j
  <2>1. PICK k \in wire : k[1] = j
    BY <1>3
  <2>2. /\ k \in LaneKeys /\ lane[k].st # "None"
        /\ \E o \in 1 .. Len(att[k]) : att[k][o].handoff # "NotHandedOff"
    BY <1>1, <2>1 DEF WireAgree, Shapes
  <2> QED BY <2>1, <2>2 DEF HandoffMayHaveOccurred, LanesOf, Ordinal
<1> QED BY <1>2, <1>3 DEF Talked

\* on_publish.
LEMMA PublishKept ==
    ASSUME FInv, FInv', CorrTyped, PInv, UNCHANGED app, NEW i \in Intents, Publish(i)
    PROVE  PInv' /\ PromiseStep
<1>0. PICK R : R = Retired(i)
  OBVIOUS
<1>1. /\ Idle /\ i \notin R /\ R \subseteq Intents
      /\ UNCHANGED <<up, heard, corr, wire, left>>
      /\ receipt[i] = "None" /\ intent[i] = "None" /\ routes[i] = {}
      /\ intent'[i] \in {"Pending", "AwaitingSigner"} /\ receipt'[i] = "Accepted"
      /\ routes'[i] = {}
      /\ pend'[i].on /\ ~ pend'[i].signed /\ pend'[i].routed = {} /\ ~ pend'[i].complete
      /\ known' = {k \in known : k[1] \notin R}
      /\ Shapes'
  BY <1>0, PublishedRows
<1>2. \A j \in R :
         /\ intent[j] # "None" /\ intent'[j] = "None" /\ routes'[j] = {}
         /\ pend'[j] = NoPending
         /\ receipt'[j] = IF HandoffMayHaveOccurred(j) THEN "Superseded" ELSE "NotSent"
  BY <1>0, PublishedRows
<1>3. \A j \in Intents \ (R \cup {i}) :
         /\ intent'[j] = intent[j] /\ receipt'[j] = receipt[j]
         /\ routes'[j] = routes[j] /\ pend'[j] = pend[j]
  BY <1>0, PublishedRows
<1>4. /\ \A k \in LaneKeys : k[1] \in R => lane'[k] = NoLane /\ att'[k] = <<>>
      /\ \A k \in LaneKeys : k[1] \notin R => lane'[k] = lane[k] /\ att'[k] = att[k]
  BY <1>0, PublishedRows
<1>5. /\ Shapes /\ IntentsAgree /\ LanesAgree /\ CorrAgree /\ WireAgree /\ SettledEverywhere
      /\ IsFiniteSet(InFlightLanes) /\ CapsHold /\ LanesBuilt /\ FlightsKnown
      /\ Rows /\ Rows'
  BY DEF PInv, Agreement, FInv
<1>6. \A j \in R : receipt[j] \in {"Accepted", "Signed"} /\ receipt'[j] \in {"NotSent", "Superseded"}
  BY <1>1, <1>2, <1>5 DEF Shapes, IntentsAgree
<1>7. Talked \subseteq Intents /\ i \notin Talked
  <2>1. \A c \in corr : c.key[1] # i
    BY <1>1, <1>5 DEF CorrAgree
  <2>2. \A k \in wire : k[1] # i
    BY <1>1, <1>5 DEF WireAgree
  <2> QED BY <2>1, <2>2, TalkedIntents DEF Talked
<1>8. \A j \in Talked \cap R : receipt'[j] = "Superseded" /\ receipt[j] = "Signed"
  <2> TAKE j \in Talked \cap R
  <2>1. receipt[j] = "Signed"
    BY <1>5, <1>6 DEF Talked, CorrAgree, WireAgree
  <2> QED BY <1>2, <2>1, TalkedMayHave
<1>9. ReceiptsStay
  BY <1>3, <1>7, <1>8 DEF ReceiptsStay
<1>10. ReportsStay
  <2> SUFFICES ASSUME NEW k \in LaneKeys, receipt'[k[1]] = "Signed", lane[k].st # "None"
               PROVE  /\ lane'[k].st # "None" /\ Len(att[k]) =< Len(att'[k])
                      /\ \A o \in 1 .. Len(att[k]) : att'[k][o].handoff = att[k][o].handoff
    BY DEF ReportsStay
  <2>1. k[1] \notin R
    BY <1>6
  <2>2. lane'[k] = lane[k] /\ att'[k] = att[k] /\ Len(att[k]) \in Nat
    BY <1>4, <1>5, <2>1, SMT DEF Rows
  <2> QED BY <2>2, SMT
<1>11. CorrAgree' /\ WireAgree'
  BY <1>1, <1>5, <1>9, <1>10, TalkKept
<1>12. IsFiniteSet(InFlightLanes') /\ CapsHold'
  <2>1. FewerFlights
    BY <1>4, SMT DEF FewerFlights, NoLane, InFlight
  <2> QED BY <1>5, <2>1, CapsKept
<1>13. IntentsAgree'
  <2> SUFFICES ASSUME NEW j \in Intents
               PROVE  /\ intent'[j] \in {"AwaitingSigner", "Pending"} <=> receipt'[j] = "Accepted"
                      /\ intent'[j] = "Signed" => receipt'[j] = "Signed"
                      /\ up' => /\ pend'[j].on <=> intent'[j] # "None"
                                /\ pend'[j].signed <=> intent'[j] = "Signed"
                      /\ routes'[j] \subseteq Plan'[j]
                      /\ routes'[j] # {} => receipt'[j] = "Signed"
                      /\ pend'[j].routed \subseteq routes'[j]
                      /\ pend'[j].complete => Plan'[j] \subseteq routes'[j]
    BY DEF IntentsAgree
  <2>0. Plan' = Plan
    BY DEF Plan
  <2>1. CASE j = i
    BY <1>1, <2>1
  <2>2. CASE j \in R
    BY <1>2, <1>6, <2>2, SMT DEF NoPending
  <2>3. CASE j \notin R \cup {i}
    BY <1>1, <1>3, <1>5, <2>0, <2>3, ZenonT(40) DEF IntentsAgree
  <2> QED BY <2>1, <2>2, <2>3
<1>14. LanesAgree'
  <2> SUFFICES ASSUME NEW k \in LaneKeys
               PROVE  /\ lane'[k].st # "None" => k[2] \in routes'[k[1]]
                      /\ lane'[k].st \notin {"None", "Terminal"} => intent'[k[1]] = "Signed"
                      /\ lane'[k].st = "Terminal" <=> lane'[k].out # "None"
                      /\ k \in known' => lane'[k].st # "None" /\ pend'[k[1]].on
    BY DEF LanesAgree
  <2>0. k[1] \in Intents
    BY DEF LaneKeys
  <2>1. CASE k[1] \in R
    BY <1>1, <1>4, <2>1, SMT DEF NoLane
  <2>2. CASE k[1] = i
    <3>1. lane[k].st = "None" /\ lane'[k] = lane[k]
      BY <1>1, <1>4, <1>5, <2>2 DEF LanesAgree
    <3> QED BY <1>1, <1>5, <2>2, <3>1 DEF LanesAgree
  <2>3. CASE k[1] \notin R \cup {i}
    BY <1>1, <1>3, <1>4, <1>5, <2>0, <2>3, SMT DEF LanesAgree
  <2> QED BY <2>1, <2>2, <2>3
<1>15. SettledEverywhere'
  <2> SUFFICES ASSUME NEW j \in Intents, receipt'[j] = "Signed", intent'[j] = "None",
                      NEW r \in Plan'[j]
               PROVE  lane'[<<j, r>>].st = "Terminal"
    BY DEF SettledEverywhere
  <2>1. j \notin R \cup {i}
    BY <1>1, <1>6
  <2>2. Plan' = Plan
    BY DEF Plan
  <2>3. <<j, r>> \in LaneKeys /\ <<j, r>>[1] = j
    BY <2>2, AppsAssumption DEF FInv, Plan, LaneKeys
  <2> QED BY <1>3, <1>4, <1>5, <2>1, <2>2, <2>3, ZenonT(40) DEF SettledEverywhere
<1>16. Agreement'
  <2>1. DownIsEmpty'
    BY <1>1 DEF DownIsEmpty, Idle
  <2> QED BY <1>1, <1>11, <1>12, <1>13, <1>14, <1>15, <2>1 DEF Agreement
<1>17. JobsAgree' /\ LanesBuilt' /\ FlightsKnown'
  <2> DEFINE jobs == IF i \in Presigned THEN <<Promote(i)>> ELSE <<>>
  <2>1. jobs \in Seq(PlainJobs) /\ \A j \in Held(jobs) : j.op \notin RouteOps
    BY PlainIntentJobs, HeldFew, SMT DEF Promote, IntentJob, RouteOps, BootOps
  <2>2. Do(jobs) /\ up /\ up' /\ todo = <<>>
    BY <1>1, SMT DEF Publish, Idle
  <2> HIDE DEF jobs
  <2>3. Ordered(jobs)
    BY <2>1, NoneBarred
  <2>4. \A j \in Intents : \A r \in routes'[j] : intent'[j] = "Signed" =>
            \/ lane'[<<j, r>>].st # "None"
            \/ intent[j] = "Signed" /\ r \in routes[j] /\ lane[<<j, r>>].st = "None"
    <3> TAKE j \in Intents
    <3> TAKE r \in routes'[j]
    <3>1. j \notin R \cup {i}
      BY <1>1, <1>2
    <3>2. routes'[j] = routes[j] /\ intent'[j] = intent[j] /\ <<j, r>> \in LaneKeys
      BY <1>3, <1>5, <3>1 DEF Shapes, LaneKeys
    <3>3. lane'[<<j, r>>] = lane[<<j, r>>]
      BY <1>4, <3>1, <3>2
    <3> QED BY <3>2, <3>3
  <2>5. \A k \in LaneKeys : lane'[k].st \in InFlight =>
            k \in known' \/ (lane[k].st \in InFlight /\ k \notin known)
    <3>1. \A k \in LaneKeys : lane'[k].st \in InFlight => k[1] \notin R
      BY <1>4, SMT DEF NoLane, InFlight
    <3> QED BY <1>1, <1>4, <3>1
  <2> QED BY <1>5, <2>1, <2>2, <2>3, <2>4, <2>5, MessageKept
<1>18. PromiseStep
  <2> DEFINE status == [j \in Intents |-> Status(j)]
             verdict == [k \in LaneKeys |-> lane[k].out]
             end == [j \in R |-> status'[j]]
  <2>1. status[i] = "None" /\ status'[i] = "Accepted"
    BY <1>1, StatusShown, StatusFacts, SMT
  <2>2. \A j \in R : status[j] \in {"Accepted", "Signed"}
    BY <1>1, <1>2, <1>6, StatusShown, StatusFacts, SMT
  <2>3. \A j \in R : /\ status'[j] \in {"NotSent", "Superseded"}
                     /\ receipt'[j] = "Superseded" => status'[j] = "Superseded"
    BY <1>1, <1>6, StatusShown, StatusFacts, SMT
  <2>4. \A j \in Intents \ (R \cup {i}) : status'[j] = status[j]
    BY <1>3, StatusShown, SMT
  <2>5. \A j \in R : (\E r \in Relays : <<j, r>> \in wire) => status'[j] = "Superseded"
    BY <1>8, <2>3, SMT DEF Talked
  <2>6. routes' = [j \in Intents |-> IF j \in R THEN {} ELSE routes[j]]
    <3>1. \A j \in Intents : routes'[j] = IF j \in R THEN {} ELSE routes[j]
      BY <1>1, <1>2, <1>3
    <3> QED BY <1>1, <3>1 DEF Shapes
  <2>7. verdict' = [k \in LaneKeys |-> IF k[1] \in R THEN "None" ELSE verdict[k]]
    BY <1>4, SMT DEF NoLane
  <2>8. end \in [R -> {"NotSent", "Superseded"}]
    BY <2>3
  <2>9. status' = [j \in Intents |-> IF j = i THEN "Accepted"
                                     ELSE IF j \in R THEN end[j] ELSE status[j]]
    <3>1. \A j \in Intents : status'[j] = IF j = i THEN "Accepted"
                                          ELSE IF j \in R THEN end[j] ELSE status[j]
      BY <1>1, <2>1, <2>4
    <3> QED BY <3>1
  <2>10. \A j \in R : (\E r \in Relays : <<j, r>> \in wire) => end[j] = "Superseded"
    BY <2>5
  <2> HIDE DEF end, status, verdict
  <2>11. Promise!Accept(i, R)
    BY <1>1, <2>1, <2>2, <2>6, <2>7, <2>8, <2>9, <2>10
       DEF Promise!Accept, Promise!Live, Promise!Reached, Promise!Pairs, status, verdict, LaneKeys
  <2>12. R \in SUBSET (Intents \ {i})
    BY <1>1
  <2> QED BY <2>11, <2>12 DEF PromiseStep, Promise!Next
<1> QED BY <1>16, <1>17, <1>18 DEF PInv
=============================================================================
