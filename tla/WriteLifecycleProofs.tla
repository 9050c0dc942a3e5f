------------------------ MODULE WriteLifecycleProofs ------------------------
(***************************************************************************)
(* The write plane keeps its caps, settles a write only when every relay   *)
(* has its verdict, and implements WritePromise, for every number of       *)
(* writes and relays and every application, as long as store commits       *)
(* succeed.                                                                *)
(***************************************************************************)
EXTENDS WriteLedgerProofs, WriteHandlerProofs, WriteMessageProofs

USE Zenon

-----------------------------------------------------------------------------
(***************************************************************************)
(* The transport, crash and boot.                                          *)
(***************************************************************************)

\* A step that leaves the writes and the lanes alone.
LEMMA WritesStill ==
    ASSUME PInv, UNCHANGED app,
           UNCHANGED <<intent, receipt, routes, lane, up, pend, known>>
    PROVE  IntentsAgree' /\ LanesAgree' /\ SettledEverywhere'
           /\ IsFiniteSet(InFlightLanes') /\ CapsHold'
<1>1. Plan' = Plan /\ InFlightLanes' = InFlightLanes
  BY DEF Plan, InFlightLanes
<1>2. IntentsAgree' /\ LanesAgree' /\ SettledEverywhere'
  BY <1>1 DEF PInv, Agreement, IntentsAgree, LanesAgree, SettledEverywhere
<1>3. FewerFlights
  BY DEF FewerFlights
<1> QED BY <1>2, <1>3, CapsKept DEF PInv, Agreement

\* The bytes leave.
LEMMA TransportWriteKept ==
    ASSUME FInv, FInv', CorrTyped, PInv, UNCHANGED app, NEW c \in corr, TransportWrite(c)
    PROVE  PInv' /\ PromiseStep
<1> DEFINE k == c.key
           d == [c EXCEPT !.sent = TRUE]
<1>1. /\ Idle /\ corr' = (corr \ {c}) \cup {d} /\ wire' = wire \cup {k}
      /\ heard' = heard \cup {k}
      /\ UNCHANGED <<intent, receipt, routes, lane, att, up, pend, known, todo, left>>
  BY DEF TransportWrite, store
<1>2. /\ k \in LaneKeys /\ c.ord \in Nat \ {0} /\ k[1] \in Intents /\ k[2] \in Relays
      /\ k = <<k[1], k[2]>> /\ d.key = k /\ d.ord = c.ord /\ d.sent
  BY SMT DEF CorrTyped, LaneKeys
<1> HIDE DEF d
<1>3. /\ Shapes /\ CorrAgree /\ WireAgree /\ LanesAgree /\ IntentsAgree /\ Rows
      /\ JobsAgree /\ LanesBuilt /\ FlightsKnown
  BY DEF PInv, Agreement, FInv
<1>4. /\ receipt[k[1]] \in {"Signed", "Superseded"}
      /\ receipt[k[1]] = "Signed" =>
            /\ lane[k].st # "None" /\ c.ord =< Len(att[k])
            /\ att[k][c.ord].handoff = "None" /\ k[2] \in routes[k[1]]
  BY <1>2, <1>3 DEF CorrAgree, LanesAgree
<1>5. CorrAgree'
  <2>1. \A e \in corr' : e \in corr \/ (e = d)
    BY <1>1
  <2>2. \A e \in corr' : \E f \in corr : f.key = e.key /\ f.ord = e.ord
    BY <1>2, <2>1
  <2>3. \A e, f \in corr' : e.key = f.key /\ e.ord = f.ord => e = f
    BY <1>1, <1>2, <1>3, SMT DEF CorrAgree
  <2>4. \A e \in corr' :
            /\ receipt'[e.key[1]] \in {"Signed", "Superseded"}
            /\ receipt'[e.key[1]] = "Signed" =>
                  /\ lane'[e.key].st # "None" /\ e.ord =< Len(att'[e.key])
                  /\ att'[e.key][e.ord].handoff = "None"
    <3> TAKE e \in corr'
    <3>1. PICK f \in corr : f.key = e.key /\ f.ord = e.ord
      BY <2>2
    <3>2. /\ receipt[f.key[1]] \in {"Signed", "Superseded"}
          /\ receipt[f.key[1]] = "Signed" =>
                /\ lane[f.key].st # "None" /\ f.ord =< Len(att[f.key])
                /\ att[f.key][f.ord].handoff = "None"
      BY <1>3 DEF CorrAgree
    <3> QED BY <1>1, <3>1, <3>2
  <2> QED BY <2>3, <2>4 DEF CorrAgree
<1>6. WireAgree'
  <2> SUFFICES ASSUME NEW l \in wire'
               PROVE  /\ receipt'[l[1]] \in {"Signed", "Superseded"}
                      /\ receipt'[l[1]] = "Signed" =>
                          /\ lane'[l].st # "None"
                          /\ \E o \in 1 .. Len(att'[l]) :
                                /\ att'[l][o].handoff # "NotHandedOff"
                                /\ \A e \in corr' : e.key = l /\ e.ord = o => e.sent
    BY DEF WireAgree
  <2>1. CASE l = k
    <3>1. \A e \in corr' : e.key = k /\ e.ord = c.ord => e.sent
      BY <1>1, <1>2, <1>3 DEF CorrAgree
    <3>2. Len(att[k]) \in Nat
      BY <1>2, <1>3, SMT DEF Rows
    <3> QED BY <1>1, <1>2, <1>4, <2>1, <3>1, <3>2, SMT
  <2>2. CASE l \in wire
    <3>1. CASE receipt[l[1]] = "Signed"
      <4>1. PICK o \in 1 .. Len(att[l]) :
                /\ att[l][o].handoff # "NotHandedOff"
                /\ \A e \in corr : e.key = l /\ e.ord = o => e.sent
        BY <1>3, <2>2, <3>1 DEF WireAgree
      <4>2. \A e \in corr' : e.key = l /\ e.ord = o => e.sent
        BY <1>1, <1>2, <4>1
      <4> QED BY <1>1, <1>3, <2>2, <4>1, <4>2 DEF WireAgree
    <3>2. CASE receipt[l[1]] # "Signed"
      BY <1>1, <1>3, <2>2, <3>2 DEF WireAgree
    <3> QED BY <3>1, <3>2
  <2> QED BY <1>1, <2>1, <2>2
<1>7. Agreement'
  <2>1. Shapes'
    BY <1>1, <1>2, <1>3 DEF Shapes
  <2>2. DownIsEmpty'
    BY <1>1 DEF DownIsEmpty, Idle
  <2> QED BY <1>1, <1>5, <1>6, <2>1, <2>2, WritesStill DEF Agreement
<1>8. JobsAgree' /\ LanesBuilt' /\ FlightsKnown'
  BY <1>1, <1>3, SMT DEF JobsAgree, LanesBuilt, FlightsKnown, Ordered, Held, Awaits
<1>9. PromiseStep
  <2> DEFINE status == [j \in Intents |-> Status(j)]
             i == k[1]
             r == k[2]
  <2>1. status' = status /\ [l \in LaneKeys |-> lane[l].out]' = [l \in LaneKeys |-> lane[l].out]
    BY <1>1, StatusShown
  <2>2. CASE receipt[i] = "Signed"
    <3>1. status[i] \in {"Signed", "Settled"}
      BY <1>2, <2>2, StatusShown, StatusFacts, SMT
    <3>2. \E j \in Intents, s \in Relays : Promise!Send(j, s)
      <4>1. PICK j \in Intents, s \in Relays : j = i /\ s = r
        BY <1>2
      <4>2. Promise!Send(j, s)
        BY <1>1, <1>2, <1>4, <2>1, <2>2, <3>1, <4>1 DEF Promise!Send
      <4> QED BY <4>2
    <3> QED BY <3>2 DEF PromiseStep, Promise!Next
  <2>3. CASE receipt[i] = "Superseded"
    <3>1. status[i] = "Superseded"
      BY <1>2, <2>3, StatusShown, StatusFacts, SMT
    <3>2. \E j \in Intents, s \in Relays : Promise!Send(j, s)
      <4>1. PICK j \in Intents, s \in Relays : j = i /\ s = r
        BY <1>2
      <4>2. Promise!Send(j, s)
        BY <1>1, <1>2, <2>1, <3>1, <4>1 DEF Promise!Send
      <4> QED BY <4>2
    <3> QED BY <3>2 DEF PromiseStep, Promise!Next
  <2> QED BY <1>4, <2>2, <2>3
<1> QED BY <1>7, <1>8, <1>9 DEF PInv

\* What is recorded of a report.
LEMMA HandoffReports ==
    ASSUME Rows, LedgerSound, NEW k \in LaneKeys, NEW result \in Handoffs,
           lane[k].st = "AwaitingHandoff", HandoffCommit(k, result)
    PROVE  /\ lane'[k].st \in {"WaitingConnection", "AwaitingAck"} /\ lane'[k].out = lane[k].out
           /\ \A l \in LaneKeys \ {k} : lane'[l] = lane[l] /\ att'[l] = att[l]
           /\ Len(att'[k]) = Len(att[k]) /\ Len(att[k]) \in Nat
           /\ att'[k][Len(att[k])].handoff = result
           /\ \A o \in 1 .. Len(att[k]) : o # Len(att[k]) => att'[k][o] = att[k][o]
<1> DEFINE o == Len(att[k])
           new == IF result = "NotHandedOff" THEN "WaitingConnection" ELSE "AwaitingAck"
           row == [lane[k] EXCEPT !.st = new]
           q == [att[k] EXCEPT ![o].handoff = result]
<1>1. lane' = [lane EXCEPT ![k] = row] /\ att' = [att EXCEPT ![k] = q]
  BY DEF HandoffCommit, Ordinal
<1>2. row.st = new /\ row.out = lane[k].out
  BY DEF Rows, LaneRows
<1>3. o \in Nat \ {0} /\ att[k] \in Seq(AttemptRows) /\ att[k][o] \in AttemptRows
  BY SMT DEF Rows, LedgerSound, Ordinal, InFlight
<1>4. /\ Len(q) = o /\ q[o].handoff = result
      /\ \A x \in 1 .. o : x # o => q[x] = att[k][x]
  BY <1>3, SMT DEF AttemptRows
<1> HIDE DEF row, q
<1>5. lane'[k] = row /\ att'[k] = q /\ \A l \in LaneKeys \ {k} : lane'[l] = lane[l] /\ att'[l] = att[l]
  BY <1>1 DEF Rows
<1> QED BY <1>2, <1>3, <1>4, <1>5

\* The report on an attempt its lane awaits.
LEMMA AwaitedHandoffKept ==
    ASSUME FInv, FInv', CorrTyped, PInv, UNCHANGED app, NEW c \in corr,
           NEW result \in Reports(c), result \in Handoffs, up, todo = <<>>,
           lane[c.key].st = "AwaitingHandoff", c.ord = Ordinal(c.key),
           corr' = corr \ {c}, HandoffCommit(c.key, result),
           left' \in [Kinds -> Nat], left'["fault"] = 0,
           UNCHANGED <<up, pend, heard, wire>>, Do(Schedule)
    PROVE  PInv' /\ PromiseStep
<1> DEFINE k == c.key
           n == Len(att[k])
<1>1. k \in LaneKeys /\ c.ord = n /\ k[1] \in Intents
  BY DEF CorrTyped, LaneKeys, Ordinal
<1>2. /\ Shapes /\ CorrAgree /\ WireAgree /\ LanesAgree /\ IntentsAgree /\ Rows /\ Rows'
      /\ LanesBuilt /\ FlightsKnown /\ LedgerSound /\ SettledEverywhere
      /\ IsFiniteSet(InFlightLanes) /\ CapsHold
  BY DEF PInv, Agreement, FInv
<1>3. /\ lane'[k].st \in {"WaitingConnection", "AwaitingAck"} /\ lane'[k].out = lane[k].out
      /\ \A l \in LaneKeys \ {k} : lane'[l] = lane[l] /\ att'[l] = att[l]
      /\ Len(att'[k]) = n /\ n \in Nat
      /\ att'[k][n].handoff = result
      /\ \A o \in 1 .. n : o # n => att'[k][o] = att[k][o]
  BY <1>1, <1>2, HandoffReports
<1>4. /\ UNCHANGED <<intent, receipt, routes>>
      /\ known' = IF pend[k[1]].on THEN known \cup {k} ELSE known
  BY DEF HandoffCommit
<1>5. Shapes' /\ IntentsAgree' /\ DownIsEmpty'
  BY <1>1, <1>2, <1>4, ZenonT(40) DEF Shapes, IntentsAgree, DownIsEmpty, Plan
<1>6. LanesAgree' /\ SettledEverywhere'
  <2>1. LanesAgree'
    BY <1>1, <1>2, <1>3, <1>4, SMT DEF LanesAgree
  <2>2. \A j \in Intents : \A r \in Plan[j] : <<j, r>> \in LaneKeys
    BY AppsAssumption DEF FInv, Plan, LaneKeys
  <2>3. \A l \in LaneKeys : lane[l].st = "Terminal" => lane'[l].st = "Terminal"
    BY <1>3
  <2>4. SettledEverywhere'
    BY <1>2, <1>4, <2>2, <2>3 DEF SettledEverywhere, Plan
  <2> QED BY <2>1, <2>4
<1>7. CorrAgree'
  <2>1. \A e, f \in corr' : e.key = f.key /\ e.ord = f.ord => e = f
    BY <1>2 DEF CorrAgree
  <2>2. ASSUME NEW e \in corr'
        PROVE  /\ receipt'[e.key[1]] \in {"Signed", "Superseded"}
               /\ receipt'[e.key[1]] = "Signed" =>
                     /\ lane'[e.key].st # "None" /\ e.ord =< Len(att'[e.key])
                     /\ att'[e.key][e.ord].handoff = "None"
    <3>1. e \in corr /\ e # c /\ e.key \in LaneKeys /\ e.ord \in Nat \ {0}
      BY DEF CorrTyped
    <3>2. /\ receipt[e.key[1]] \in {"Signed", "Superseded"}
          /\ receipt[e.key[1]] = "Signed" =>
                /\ lane[e.key].st # "None" /\ e.ord =< Len(att[e.key])
                /\ att[e.key][e.ord].handoff = "None"
      BY <1>2, <3>1 DEF CorrAgree
    <3>3. e.key = k => e.ord # n
      BY <1>1, <1>2, <3>1 DEF CorrAgree
    <3>4. CASE e.key = k
      BY <1>3, <1>4, <3>1, <3>2, <3>3, <3>4, SMT
    <3>5. CASE e.key # k
      BY <1>3, <1>4, <3>1, <3>2, <3>5
    <3> QED BY <3>4, <3>5
  <2> QED BY <2>1, <2>2 DEF CorrAgree
<1>8. WireAgree'
  <2> SUFFICES ASSUME NEW l \in wire
               PROVE  /\ receipt'[l[1]] \in {"Signed", "Superseded"}
                      /\ receipt'[l[1]] = "Signed" =>
                          /\ lane'[l].st # "None"
                          /\ \E o \in 1 .. Len(att'[l]) :
                                /\ att'[l][o].handoff # "NotHandedOff"
                                /\ \A e \in corr' : e.key = l /\ e.ord = o => e.sent
    BY DEF WireAgree
  <2>1. CASE receipt[l[1]] = "Signed"
    <3>1. PICK o \in 1 .. Len(att[l]) :
              /\ att[l][o].handoff # "NotHandedOff"
              /\ \A e \in corr : e.key = l /\ e.ord = o => e.sent
      BY <1>2, <2>1 DEF WireAgree
    <3>2. l \in LaneKeys /\ lane[l].st # "None"
      BY <1>2, <2>1 DEF WireAgree, Shapes
    <3>3. lane'[l].st # "None" /\ Len(att'[l]) = Len(att[l])
      BY <1>3, <3>2
    <3>4. att'[l][o].handoff # "NotHandedOff"
      <4>1. CASE l = k /\ o = n
        <5>1. c.sent
          BY <1>1, <3>1, <4>1
        <5>2. result = "HandedOff"
          BY <5>1 DEF Reports
        <5> QED BY <1>3, <4>1, <5>2
      <4>2. CASE l = k /\ o # n
        BY <1>3, <3>1, <4>2
      <4>3. CASE l # k
        BY <1>3, <3>1, <3>2, <4>3
      <4> QED BY <4>1, <4>2, <4>3
    <3>5. \A e \in corr' : e.key = l /\ e.ord = o => e.sent
      BY <3>1
    <3> QED BY <1>4, <2>1, <3>1, <3>3, <3>4, <3>5
  <2>2. CASE receipt[l[1]] # "Signed"
    BY <1>2, <1>4, <2>2 DEF WireAgree
  <2> QED BY <2>1, <2>2
<1>9. IsFiniteSet(InFlightLanes') /\ CapsHold'
  <2>1. FewerFlights
    BY <1>1, <1>3 DEF FewerFlights, InFlight
  <2> QED BY <1>2, <2>1, CapsKept
<1>10. Agreement'
  BY <1>5, <1>6, <1>7, <1>8, <1>9 DEF Agreement
<1>11. JobsAgree' /\ LanesBuilt' /\ FlightsKnown'
  <2>1. Schedule \in Seq(PlainJobs) /\ \A j \in Held(Schedule) : j.op \notin RouteOps
    BY PlainSchedule, HeldFew DEF RouteOps, BootOps
  <2>2. Ordered(Schedule)
    BY <2>1, NoneBarred
  <2>3. \A j \in Intents : \A r \in routes'[j] : intent'[j] = "Signed" =>
            \/ lane'[<<j, r>>].st # "None"
            \/ intent[j] = "Signed" /\ r \in routes[j] /\ lane[<<j, r>>].st = "None"
    <3>1. \A j \in Intents : \A r \in routes[j] : <<j, r>> \in LaneKeys
      BY <1>2 DEF Shapes, LaneKeys
    <3> QED BY <1>3, <1>4, <3>1
  <2>4. \A l \in LaneKeys : lane'[l].st \in InFlight =>
            l \in known' \/ (lane[l].st \in InFlight /\ l \notin known)
    BY <1>1, <1>3, <1>4 DEF InFlight
  <2>5. up'
    OBVIOUS
  <2> QED BY <1>2, <2>1, <2>2, <2>3, <2>4, <2>5, MessageKept
<1>12. PromiseStep
  <2>1. \A l \in LaneKeys : lane'[l].out = lane[l].out
    BY <1>3
  <2> QED BY <1>4, <2>1, NothingShown
<1> QED BY <1>10, <1>11, <1>12 DEF PInv

\* on_event_handoff.
LEMMA EventHandoffKept ==
    ASSUME FInv, FInv', CorrTyped, PInv, UNCHANGED app, NEW c \in corr,
           NEW result \in Handoffs, NEW ok \in BOOLEAN, EventHandoff(c, result, ok)
    PROVE  PInv' /\ PromiseStep
<1> DEFINE k == c.key
           awaited == lane[k].st = "AwaitingHandoff" /\ c.ord = Ordinal(k)
           spent == IF result = "NotHandedOff" THEN 1 ELSE 0
<1>1. /\ up /\ todo = <<>> /\ result \in Reports(c) /\ corr' = corr \ {c}
      /\ UNCHANGED <<up, pend, heard, wire>>
      /\ Do(IF ok /\ awaited THEN Schedule ELSE <<>>)
  BY DEF EventHandoff, Idle
<1>2. Shapes /\ JobsAgree /\ LanesBuilt /\ FlightsKnown /\ CorrAgree /\ WireAgree
      /\ Rows /\ Rows'
  BY DEF PInv, Agreement, FInv
<1>3. ok
  BY <1>2, NoFault DEF EventHandoff
<1>4. Spend("refuse", spent)
  BY <1>3 DEF EventHandoff
<1>5. left' \in [Kinds -> Nat] /\ left'["fault"] = 0
  BY <1>2, <1>4, Spent DEF Kinds
<1>6. CASE awaited
  <2>1. HandoffCommit(k, result) /\ Do(Schedule)
    BY <1>1, <1>3, <1>6 DEF EventHandoff
  <2> QED BY <1>1, <1>5, <1>6, <2>1, AwaitedHandoffKept
<1>7. CASE ~ awaited
  <2>1. UNCHANGED <<intent, receipt, routes, lane, att, known>>
    BY <1>3, <1>7 DEF EventHandoff, store
  <2>2. ReceiptsStay
    BY <2>1 DEF ReceiptsStay
  <2>3. ReportsStay
    <3>1. \A l \in LaneKeys : Len(att[l]) \in Nat
      BY <1>2, SMT DEF Rows
    <3> QED BY <2>1, <3>1, SMT DEF ReportsStay
  <2>4. CorrAgree' /\ WireAgree'
    BY <1>1, <1>2, <2>2, <2>3, TalkKept
  <2>5. Shapes' /\ DownIsEmpty'
    BY <1>1, <1>2, <1>5, <2>1 DEF Shapes, DownIsEmpty
  <2>6. Agreement'
    BY <1>1, <2>1, <2>4, <2>5, WritesStill DEF Agreement
  <2>7. JobsAgree' /\ LanesBuilt' /\ FlightsKnown'
    <3> DEFINE jobs == <<>>
    <3>1. jobs \in Seq(PlainJobs) /\ Held(jobs) = {} /\ Do(jobs) /\ up'
      BY <1>1, <1>7, HeldFew, SMT
    <3> HIDE DEF jobs
    <3>2. Ordered(jobs) /\ \A j \in Held(jobs) : j.op \in RouteOps => intent'[j.arg] = "Signed"
      BY <3>1, NoneBarred
    <3>3. \A j \in Intents : \A r \in routes'[j] : intent'[j] = "Signed" =>
            \/ lane'[<<j, r>>].st # "None"
            \/ intent[j] = "Signed" /\ r \in routes[j] /\ lane[<<j, r>>].st = "None"
      BY <2>1
    <3>4. \A l \in LaneKeys : lane'[l].st \in InFlight =>
            l \in known' \/ (lane[l].st \in InFlight /\ l \notin known)
      BY <2>1
    <3> QED BY <1>1, <1>2, <3>1, <3>2, <3>3, <3>4, MessageKept
  <2>8. PromiseStep
    BY <1>1, <2>1, NothingShown
  <2> QED BY <2>6, <2>7, <2>8 DEF PInv
<1> QED BY <1>6, <1>7

\* The process dies.
LEMMA CrashKept ==
    ASSUME FInv, FInv', CorrTyped, PInv, UNCHANGED app, Crash
    PROVE  PInv' /\ PromiseStep
<1>1. /\ ~ up' /\ pend' = [i \in Intents |-> NoPending] /\ known' = {} /\ corr' = {}
      /\ heard' = {} /\ todo' = <<>> /\ Spend("crash", 1)
      /\ UNCHANGED <<intent, receipt, routes, lane, att, wire>>
  BY DEF Crash, store
<1>2. /\ Shapes /\ IntentsAgree /\ LanesAgree /\ CorrAgree /\ WireAgree /\ SettledEverywhere
      /\ IsFiniteSet(InFlightLanes) /\ CapsHold /\ Rows /\ Rows'
  BY DEF PInv, Agreement, FInv
<1>3. left' \in [Kinds -> Nat] /\ left'["fault"] = 0
  BY <1>1, <1>2, Spent DEF Kinds
<1>4. NoPending \in Pendings /\ NoPending.routed = {} /\ ~ NoPending.complete
  BY DEF NoPending, Pendings
<1>5. Shapes' /\ DownIsEmpty'
  <2>1. up' \in BOOLEAN
    BY DEF Crash
  <2> QED BY <1>1, <1>2, <1>3, <1>4, <2>1 DEF Shapes, DownIsEmpty
<1>6. IntentsAgree' /\ SettledEverywhere'
  BY <1>1, <1>2, <1>4 DEF IntentsAgree, SettledEverywhere, Plan
<1>7. LanesAgree'
  BY <1>1, <1>2 DEF LanesAgree
<1>8. CorrAgree' /\ WireAgree'
  <2>1. \A k \in LaneKeys : Len(att[k]) \in Nat
    BY <1>2, SMT DEF Rows
  <2>2. ReceiptsStay /\ ReportsStay
    BY <1>1, <2>1, SMT DEF ReceiptsStay, ReportsStay
  <2> QED BY <1>1, <1>2, <2>2, TalkKept
<1>9. IsFiniteSet(InFlightLanes') /\ CapsHold'
  <2>1. FewerFlights
    BY <1>1 DEF FewerFlights
  <2> QED BY <1>2, <2>1, CapsKept
<1>10. Held(todo') = {} /\ Ordered(todo')
  BY <1>1, SMT DEF Held, Ordered
<1>11. JobsAgree' /\ LanesBuilt' /\ FlightsKnown'
  BY <1>1, <1>10 DEF JobsAgree, LanesBuilt, FlightsKnown, Ordered, Held
<1>12. PromiseStep
  BY <1>1, NothingShown
<1> QED BY <1>5, <1>6, <1>7, <1>8, <1>9, <1>11, <1>12 DEF PInv, Agreement

\* A pending write rebuilt at boot.
LEMMA RebuiltPending ==
    ASSUME NEW a \in BOOLEAN, NEW b \in BOOLEAN
    PROVE  LET p == [NoPending EXCEPT !.on = a, !.signed = b]
           IN  /\ p \in Pendings /\ (p.on <=> a) /\ (p.signed <=> b)
               /\ p.routed = {} /\ ~ p.complete
BY DEF NoPending, Pendings

\* The queue of boot recovery: the signed writes come first, and no job before
\* them can end one.
BootJobs(first, last, late) ==
    [n \in DOMAIN first |-> BootRoute(first[n])] \o <<Due(late)>> \o Schedule
        \o [n \in DOMAIN last |-> Close(last[n])]

LEMMA BootQueue ==
    ASSUME NEW first \in Seq(Intents), NEW last \in Seq(Intents),
           NEW late \in SUBSET LaneKeys
    PROVE  /\ BootJobs(first, last, late) \in Seq(PlainJobs)
           /\ Ordered(BootJobs(first, last, late))
           /\ \A j \in Held(BootJobs(first, last, late)) : j.op \in RouteOps =>
                  \E n \in 1 .. Len(first) : j.arg = first[n]
           /\ \A n \in 1 .. Len(first) :
                  \E j \in Held(BootJobs(first, last, late)) :
                      j.op = "bootRoute" /\ j.arg = first[n]
<1> DEFINE boots == [n \in DOMAIN first |-> BootRoute(first[n])]
           due == <<Due(late)>>
           closes == [n \in DOMAIN last |-> Close(last[n])]
<1>1. /\ DOMAIN first = 1 .. Len(first) /\ Len(first) \in Nat
      /\ DOMAIN last = 1 .. Len(last) /\ Len(last) \in Nat
      /\ \A n \in 1 .. Len(first) : first[n] \in Intents
      /\ \A n \in 1 .. Len(last) : last[n] \in Intents
  BY SMT
<1>2. /\ \A i \in Intents : BootRoute(i) \in PlainJobs /\ Close(i) \in PlainJobs
      /\ \A i : /\ BootRoute(i).op = "bootRoute" /\ BootRoute(i).arg = i
                /\ Close(i).op = "close"
  BY PlainIntentJobs DEF BootRoute, Close, IntentJob
<1>3. /\ boots \in Seq(PlainJobs) /\ Len(boots) = Len(first)
      /\ \A n \in 1 .. Len(first) : boots[n] = BootRoute(first[n])
  BY <1>1, <1>2, SMT
<1>4. /\ closes \in Seq(PlainJobs) /\ Len(closes) = Len(last)
      /\ \A n \in 1 .. Len(last) : closes[n] = Close(last[n])
  BY <1>1, <1>2, SMT
<1>5. Due(late) \in PlainJobs /\ Due(late).op = "due"
  BY PlainLaneJob DEF Due, LaneJob, LaneOps, LaneArgs
<1>6. due \in Seq(PlainJobs) /\ Held(due) = {Due(late)}
  BY <1>5, HeldFew, SMT
<1>7. BootJobs(first, last, late) = ((boots \o due) \o Schedule) \o closes
  BY DEF BootJobs
<1> HIDE DEF boots, closes, due
<1> DEFINE mid == due \o Schedule
           rest == mid \o closes
<1>8. /\ mid \in Seq(PlainJobs) /\ rest \in Seq(PlainJobs)
  <2>1. mid \in Seq(PlainJobs)
    BY <1>6, PlainSchedule, SMT
  <2> HIDE DEF mid
  <2> QED BY <1>4, <2>1, SMT
<1>9. ((boots \o due) \o Schedule) \o closes = boots \o rest
  <2>1. (boots \o due) \o Schedule = boots \o mid
    BY <1>3, <1>6, PlainSchedule, SMT
  <2> HIDE DEF mid
  <2>2. (boots \o mid) \o closes = boots \o rest
    BY <1>3, <1>4, <1>8, SMT
  <2> QED BY <2>1, <2>2
<1>10. Held(mid) = Held(due) \cup Held(Schedule)
  BY <1>6, PlainSchedule, HeldBoth, SMT
<1> HIDE DEF mid
<1>11. Held(rest) = Held(mid) \cup Held(closes)
  BY <1>4, <1>8, HeldBoth, ZenonT(40)
<1>12. \A j \in Held(closes) : j.op = "close"
  <2>1. \A n \in 1 .. Len(closes) : closes[n].op = "close"
    BY <1>2, <1>4, SMT
  <2> QED BY <2>1 DEF Held
<1>13. \A j \in Held(rest) : j.op \notin RouteOps
  BY <1>5, <1>6, <1>10, <1>11, <1>12, HeldFew DEF RouteOps, BootOps
<1> HIDE DEF rest
<1>14. \A n \in 1 .. Len(boots) : boots[n].op = "bootRoute" /\ boots[n].arg = first[n]
  BY <1>2, <1>3, SMT
<1>15. Ordered(boots)
  BY <1>14 DEF Ordered, Bars, MayEnd, Boots, BootOps
<1>16. Ordered(rest)
  BY <1>13, NoneBarred
<1>17. \A a \in Held(boots), b \in Held(rest) : ~ Bars(a, b)
  BY <1>13 DEF Bars
<1>18. Ordered(boots \o rest)
  BY <1>3, <1>8, <1>15, <1>16, <1>17, OrderedBoth
<1>19. Held(boots \o rest) = Held(boots) \cup Held(rest)
  BY <1>3, <1>8, HeldBoth, ZenonT(40)
<1>20. boots \o rest \in Seq(PlainJobs)
  BY <1>3, <1>8, SMT
<1>21. \A j \in Held(boots) : \E n \in 1 .. Len(first) : j.arg = first[n]
  BY <1>3, <1>14 DEF Held
<1>22. \A n \in 1 .. Len(first) : \E j \in Held(boots) : j.op = "bootRoute" /\ j.arg = first[n]
  BY <1>3, <1>14 DEF Held
<1> QED BY <1>7, <1>9, <1>13, <1>18, <1>19, <1>20, <1>21, <1>22

\* recover_on_boot: the pending writes mirror the intents, and every signed one
\* has its boot job.
LEMMA BootKept ==
    ASSUME FInv, FInv', CorrTyped, PInv, UNCHANGED app, NEW D \in SUBSET LaneKeys, Boot(D)
    PROVE  PInv' /\ PromiseStep
<1> DEFINE open == {i \in Intents : intent[i] # "None"}
           signed == {i \in open : intent[i] = "Signed"}
           first == InKeyOrder(signed)
           last == InKeyOrder(open)
           late == D \cup {k \in LaneKeys : lane[k].st = "AwaitingHandoff"}
<1>1. /\ ~ up /\ up' = TRUE
      /\ UNCHANGED <<intent, receipt, routes, lane, att, known, heard, corr, wire, left>>
  BY DEF Boot, store, links
<1>2. pend' = [i \in Intents |-> [NoPending EXCEPT !.on = i \in open, !.signed = i \in signed]]
  BY DEF Boot
<1>3. Do(BootJobs(first, last, late))
  BY DEF Boot, BootJobs
<1>4. /\ Shapes /\ IntentsAgree /\ LanesAgree /\ CorrAgree /\ WireAgree /\ SettledEverywhere
      /\ IsFiniteSet(InFlightLanes) /\ CapsHold /\ DownIsEmpty /\ Rows /\ Rows'
  BY DEF PInv, Agreement, FInv
<1>5. known = {}
  BY <1>1, <1>4 DEF DownIsEmpty
<1>6. /\ signed \subseteq Intents /\ open \subseteq Intents
      /\ \A i \in Intents : (i \in open <=> intent[i] # "None")
                            /\ (i \in signed <=> intent[i] = "Signed")
  OBVIOUS
<1>7. IsFiniteSet(open) /\ IsFiniteSet(signed)
  BY IntentsAssumption, FS_Subset
<1>8. first \in Seq(signed) /\ Len(first) = Cardinality(signed)
      /\ \A i \in signed : \E n \in 1 .. Cardinality(signed) : first[n] = i
  BY <1>7, Listed
<1>9. last \in Seq(open)
  BY <1>7, Listed
<1>10. late \in SUBSET LaneKeys
  OBVIOUS
<1> HIDE DEF open, signed, first, last, late
<1>11. \A i \in Intents :
          /\ pend'[i] \in Pendings /\ (pend'[i].on <=> intent[i] # "None")
          /\ (pend'[i].signed <=> intent[i] = "Signed")
          /\ pend'[i].routed = {} /\ ~ pend'[i].complete
  <2> TAKE i \in Intents
  <2> DEFINE p(a, b) == [NoPending EXCEPT !.on = a, !.signed = b]
  <2>1. \A a, b \in BOOLEAN : /\ p(a, b) \in Pendings /\ (p(a, b).on <=> a)
                              /\ (p(a, b).signed <=> b)
                              /\ p(a, b).routed = {} /\ ~ p(a, b).complete
    BY RebuiltPending
  <2>2. pend'[i] = p(i \in open, i \in signed)
    BY <1>2
  <2>3. (i \in open) \in BOOLEAN /\ (i \in signed) \in BOOLEAN
    BY SMT
  <2> HIDE DEF p
  <2> QED BY <1>6, <2>1, <2>2, <2>3
<1>12. Shapes' /\ DownIsEmpty'
  <2>1. pend' \in [Intents -> Pendings]
    BY <1>2, <1>11
  <2> QED BY <1>1, <1>4, <2>1 DEF Shapes, DownIsEmpty
<1>13. IntentsAgree'
  <2>1. Plan' = Plan
    BY DEF Plan
  <2> QED BY <1>1, <1>4, <1>11, <2>1 DEF IntentsAgree
<1>14. SettledEverywhere'
  BY <1>1, <1>4 DEF SettledEverywhere, Plan
<1>15. LanesAgree'
  BY <1>1, <1>4, <1>5 DEF LanesAgree
<1>16. CorrAgree' /\ WireAgree'
  <2>1. UNCHANGED <<lane, att, corr, wire, receipt>>
    BY <1>1
  <2>2. ReceiptsStay
    BY <2>1 DEF ReceiptsStay
  <2> QED BY <2>1, <2>2, StillKept
<1>17. IsFiniteSet(InFlightLanes') /\ CapsHold'
  <2>1. FewerFlights
    BY <1>1 DEF FewerFlights
  <2> QED BY <1>4, <2>1, CapsKept
<1>18. Agreement'
  BY <1>12, <1>13, <1>14, <1>15, <1>16, <1>17 DEF Agreement
<1>19. PromiseStep
  BY <1>1, NothingShown
<1> DEFINE jobs == BootJobs(first, last, late)
<1>20. first \in Seq(Intents) /\ last \in Seq(Intents)
  BY <1>6, <1>8, <1>9, SMT
<1>21. /\ jobs \in Seq(PlainJobs) /\ Ordered(jobs) /\ Do(jobs)
       /\ \A j \in Held(jobs) : j.op \in RouteOps => \E n \in 1 .. Len(first) : j.arg = first[n]
       /\ \A n \in 1 .. Len(first) : \E j \in Held(jobs) : j.op = "bootRoute" /\ j.arg = first[n]
  BY <1>3, <1>10, <1>20, BootQueue
<1> HIDE DEF jobs
<1>22. \A j \in Held(jobs) : j.op \in RouteOps => intent[j.arg] = "Signed"
  <2>1. \A n \in 1 .. Len(first) : intent[first[n]] = "Signed"
    BY <1>6, <1>8, SMT
  <2> QED BY <1>21, <2>1, SMT
<1>23. \A i \in Intents : intent[i] = "Signed" =>
           \E j \in Held(jobs) : j.op = "bootRoute" /\ j.arg = i
  BY <1>6, <1>8, <1>21, SMT
<1>24. /\ Held(todo') \subseteq Held(jobs) /\ Ordered(todo')
       /\ \A j \in Held(jobs) : j.op \in Lasting => j \in Held(todo')
  BY <1>21, Left
<1>25. JobsAgree'
  <2>1. \A j \in Held(todo') : j.op \in RouteOps => intent'[j.arg] = "Signed"
    BY <1>1, <1>22, <1>24
  <2> QED BY <1>24, <2>1 DEF JobsAgree, Ordered, Held
<1>26. \A i \in Intents : intent[i] = "Signed" =>
           \E j \in Held(todo') : j.op = "bootRoute" /\ j.arg = i
  BY <1>23, <1>24 DEF Lasting, BootOps
<1>27. LanesBuilt'
  BY <1>1, <1>26 DEF LanesBuilt, Awaits, Held, Lasting, BootOps
<1>28. FlightsKnown'
  <2>1. \A k \in LaneKeys : k[1] \in Intents
    BY DEF LaneKeys
  <2>2. \A k \in LaneKeys : lane[k].st \in InFlight => intent[k[1]] = "Signed"
    BY <1>4 DEF LanesAgree, InFlight
  <2>3. \A k \in LaneKeys : lane[k].st \in InFlight =>
            \E j \in Held(todo') : j.op = "bootRoute" /\ j.arg = k[1]
    BY <1>26, <2>1, <2>2
  <2> QED BY <1>1, <2>3 DEF FlightsKnown, Awaits, Held, BootOps
<1> QED BY <1>18, <1>19, <1>25, <1>27, <1>28 DEF PInv

-----------------------------------------------------------------------------
(***************************************************************************)
(* The theorems.                                                           *)
(***************************************************************************)

\* Every step.
LEMMA NextKept ==
    ASSUME FInv, FInv', CorrTyped, PInv, UNCHANGED app, Next
    PROVE  PInv' /\ PromiseStep
<1>1. CASE HandlerStep
  BY <1>1, HandlerStepKept
<1>2. CASE \E i \in Intents : Publish(i)
  BY <1>2, PublishKept
<1>3. CASE \E c \in corr : TransportWrite(c)
  BY <1>3, TransportWriteKept
<1>4. CASE \E c \in corr, result \in Handoffs, ok \in BOOLEAN : EventHandoff(c, result, ok)
  BY <1>4, EventHandoffKept
<1>5. CASE \E k \in LaneKeys, class \in {"Answered", "Transient", "AuthRequired"} :
               RelayOk(k, class)
  BY <1>5, RelayOkKept
<1>6. CASE Crash
  BY <1>6, CrashKept
<1>7. CASE \E D \in SUBSET LaneKeys : Boot(D)
  BY <1>7, BootKept
<1>8. CASE \/ \E i \in Intents : \E ok \in BOOLEAN : SignerCompleted(i, ok)
           \/ \E i \in Intents : SignerUnavailable(i)
           \/ \E i \in Intents : CancelWrite(i)
           \/ \E pk \in Authors : SignerAttached(pk)
  BY <1>8, SignerMessagesKept
<1>9. CASE AuthorRoutesLearned \/ \E D \in SUBSET LaneKeys : Tick(D)
  BY <1>9, RewriteMessagesKept
<1>10. CASE \E s \in Sessions :
              \/ RelayConnected(s)
              \/ RelayDisconnected(s)
              \/ \E ok \in BOOLEAN : AuthChallenge(s, ok) \/ AuthFinished(s, ok)
              \/ AuthRestricted(s)
              \/ AuthErred(s)
              \/ AuthCapabilityInvalidated(s)
              \/ AuthProbeReleased(s)
  BY <1>10, SessionMessagesKept
<1> QED BY <1>1, <1>2, <1>3, <1>4, <1>5, <1>6, <1>7, <1>8, <1>9, <1>10 DEF Next

\* A step that changes nothing.
LEMMA StutterKept ==
    ASSUME FInv, FInv', CorrTyped, PInv, UNCHANGED <<vars, app>>
    PROVE  PInv' /\ PromiseStep
<1>1. /\ UNCHANGED <<intent, receipt, routes, lane, att, up, pend, known, todo>>
      /\ UNCHANGED <<corr, wire, heard, left>> /\ UNCHANGED app
  BY DEF vars, store, links
<1>2. /\ Shapes /\ DownIsEmpty /\ JobsAgree /\ LanesBuilt /\ FlightsKnown
  BY DEF PInv, Agreement
<1>3. ReceiptsStay
  BY <1>1 DEF ReceiptsStay
<1>4. CorrAgree' /\ WireAgree'
  BY <1>1, <1>3, StillKept
<1>5. Shapes' /\ DownIsEmpty'
  BY <1>1, <1>2 DEF Shapes, DownIsEmpty
<1>6. JobsAgree' /\ LanesBuilt' /\ FlightsKnown'
  BY <1>1, <1>2, SMT DEF JobsAgree, LanesBuilt, FlightsKnown, Ordered, Held, Awaits
<1>7. Agreement'
  BY <1>1, <1>4, <1>5, WritesStill DEF Agreement
<1>8. PromiseStep
  BY <1>1, NothingShown
<1> QED BY <1>6, <1>7, <1>8 DEF PInv

\* The invariant holds when the process first starts, and so does the promise.
LEMMA InitKept ==
    ASSUME NoFaults, Init
    PROVE  PInv /\ Promise!Init
<1>1. /\ NoPending \in Pendings /\ ~ NoPending.on /\ ~ NoPending.signed
      /\ NoPending.routed = {} /\ ~ NoPending.complete
      /\ NoLane.st = "None" /\ NoLane.out = "None"
  BY DEF NoPending, Pendings, NoLane
<1>2. left \in [Kinds -> Nat] /\ left["fault"] = 0
  BY AppsAssumption DEF Init, NoFaults, Kinds
<1>3. Shapes /\ DownIsEmpty
  BY <1>1, <1>2 DEF Init, Shapes, DownIsEmpty
<1>4. IntentsAgree /\ LanesAgree /\ SettledEverywhere /\ CorrAgree /\ WireAgree
  BY <1>1 DEF Init, IntentsAgree, LanesAgree, SettledEverywhere, CorrAgree, WireAgree
<1>5. InFlightLanes = {}
  BY <1>1 DEF Init, InFlightLanes, InFlight
<1>6. IsFiniteSet(InFlightLanes) /\ CapsHold
  <2>1. IsFiniteSet({}) /\ Cardinality({}) = 0
    BY FS_EmptySet
  <2>2. Cardinality(InFlightLanes) =< MaxGlobal
    BY <1>5, <2>1, GlobalAssumption, SMT
  <2>3. \A k \in LaneKeys : lane[k].st \notin InFlight
    BY <1>5 DEF InFlightLanes
  <2> QED BY <1>5, <2>1, <2>2, <2>3 DEF CapsHold, InFlightLanes
<1>7. Held(todo) = {} /\ Ordered(todo)
  BY SMT DEF Init, Held, Ordered
<1>8. JobsAgree /\ LanesBuilt /\ FlightsKnown
  <2>1. \A k \in LaneKeys : lane[k].st \notin InFlight
    BY <1>5 DEF InFlightLanes
  <2> QED BY <1>7, <2>1 DEF Init, JobsAgree, LanesBuilt, FlightsKnown
<1>9. Promise!Init
  <2>1. [i \in Intents |-> Status(i)] = [i \in Intents |-> "None"]
    BY DEF Init, Status
  <2>2. [k \in LaneKeys |-> lane[k].out] = [k \in LaneKeys |-> "None"]
    BY <1>1 DEF Init
  <2> QED BY <2>1, <2>2 DEF Init, Promise!Init, Promise!Pairs, LaneKeys
<1> QED BY <1>3, <1>4, <1>6, <1>8, <1>9 DEF PInv, Agreement

\* While commits succeed, the reducer's picture of its writes agrees with the
\* store's, every route of an open write has its lane or the job that builds it,
\* and every lane in flight is one the scheduler counts.
THEOREM AgreementInvariant == NoFaults => (Spec => []PInv)
<1> SUFFICES ASSUME NoFaults PROVE Spec => []PInv
  OBVIOUS
<1>1. /\ FInv /\ CorrTyped /\ (FInv /\ CorrTyped)' /\ PInv /\ [Steady /\ Next]_<<vars, app>>
      => PInv'
  BY NextKept, StutterKept DEF Steady
<1>2. Init => PInv
  BY InitKept
<1> QED BY <1>1, <1>2, LedgerInvariant, PTL DEF Spec

\* CapsHold: schedule_ready keeps one attempt per relay and MaxGlobal in all,
\* whichever handlers, crashes and boots interleave.
THEOREM CapsAreHeld == NoFaults => (Spec => []CapsHold)
<1> SUFFICES ASSUME NoFaults PROVE Spec => []CapsHold
  OBVIOUS
<1>1. PInv => CapsHold
  BY DEF PInv, Agreement
<1> QED BY <1>1, AgreementInvariant, PTL

\* SettledEverywhere: close_if_all_lanes_terminal closes a write only when every
\* relay of its plan has a terminal lane.
THEOREM SettlesEverywhere == NoFaults => (Spec => []SettledEverywhere)
<1> SUFFICES ASSUME NoFaults PROVE Spec => []SettledEverywhere
  OBVIOUS
<1>1. PInv => SettledEverywhere
  BY DEF PInv, Agreement
<1> QED BY <1>1, AgreementInvariant, PTL

\* KeepsPromise: the handlers, retries, crashes and boots of the write plane show
\* the application nothing but the steps of WritePromise.
THEOREM PromiseIsKept == NoFaults => (Spec => KeepsPromise)
<1> SUFFICES ASSUME NoFaults PROVE Spec => KeepsPromise
  OBVIOUS
<1>1. /\ FInv /\ CorrTyped /\ (FInv /\ CorrTyped)' /\ PInv /\ [Steady /\ Next]_<<vars, app>>
      => [Promise!Next]_(Promise!vars)
  BY NextKept, StutterKept DEF Steady, PromiseStep
<1>2. Init => Promise!Init
  BY InitKept
<1> QED BY <1>1, <1>2, LedgerInvariant, AgreementInvariant, PTL
        DEF Spec, KeepsPromise, Promise!Spec

=============================================================================
