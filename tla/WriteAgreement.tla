--------------------------- MODULE WriteAgreement ---------------------------
(***************************************************************************)
(* How the tables of the write plane, the queue of its running handler, its *)
(* correlations and the wire agree with one another: the inductive         *)
(* invariants behind the theorems about WriteLifecycle.                    *)
(***************************************************************************)
EXTENDS WriteLifecycle

LaneRows == [st : LaneStates, out : Outcomes \cup {"None"}]
AttemptRows == [handoff : Handoffs \cup {"None"}, end : Ends \cup {"None"}]
IntentOps == {"promote", "compensate", "cancel", "route", "bootstrap",
              "unroutable", "bootRoute", "bootLanes", "close"}
Moves == {m \in [st : LaneStates \ {"None"}, out : Outcomes \cup {"None"},
                 end : Ends \cup {"None"}] : m.st = "Terminal" <=> m.out # "None"}
LaneArgs == Sessions \cup Intents \cup {"all"} \cup SUBSET LaneKeys
Jobs == [op : LaneOps, arg : LaneArgs, done : SUBSET LaneKeys]
            \cup [op : IntentOps, arg : Intents]
            \cup [op : {"apply"}, arg : LaneKeys, move : Moves]

Rows ==
    /\ lane \in [LaneKeys -> LaneRows]
    /\ att \in [LaneKeys -> Seq(AttemptRows)]
Receipts == {"None", "Accepted", "Signed", "Compensated", "Cancelled",
             "Superseded", "NotSent", "NoDestination"}
ReceiptsTrue == receipt \in [Intents -> Receipts] /\ NoDestinationIsTrue

\* Jobs that neither apply an answer nor call a write unroutable in error.
PlainJobs ==
    {j \in Jobs : /\ j.op # "apply"
                  /\ j.op = "unroutable" => Plan[j.arg] = {}}

\* A handler has plain jobs, except that the first may be the commit of an
\* answer, for a lane that still runs the attempt the answer ends.
EndsAttempt(m) == m.end # "None" /\ m.st \notin InFlight
HeadFits ==
    \/ Head(todo) \in PlainJobs
    \/ /\ Head(todo) \in [op : {"apply"}, arg : LaneKeys, move : Moves]
       /\ lane[Head(todo).arg].st = "AwaitingAck"
       /\ EndsAttempt(Head(todo).move)
       /\ Head(todo).move.out = "Answered" => Head(todo).arg \in heard
Queue ==
    \/ todo = <<>>
    \/ HeadWorks /\ HeadFits /\ todo = <<Head(todo)>> \o Tail(todo)
                 /\ Tail(todo) \in Seq(PlainJobs)

\* The inductive invariant.
FInv == app \in Apps /\ Rows /\ LedgerSound /\ Queue /\ ReceiptsTrue

\* A step that leaves ended lanes alone.
FinalStep ==
    \A k \in LaneKeys : lane[k].st = "Terminal" => lane'[k] \in {lane[k], NoLane}

-----------------------------------------------------------------------------

\* Correlations are about lanes.
CorrTyped == corr \subseteq [key : LaneKeys, ord : Nat \ {0}, sent : BOOLEAN]

\* No commit of the store fails.
NoFaults == \A a \in Apps : a.budget["fault"] = 0

-----------------------------------------------------------------------------
(***************************************************************************)
(* The inductive invariant.                                                *)
(***************************************************************************)
Kinds == {"crash", "fault", "drop", "refuse", "auth"}
Pendings == [on : BOOLEAN, signed : BOOLEAN, asking : BOOLEAN,
             routed : SUBSET Relays, complete : BOOLEAN]

Shapes ==
    /\ intent \in [Intents -> {"None", "AwaitingSigner", "Pending", "Signed"}]
    /\ routes \in [Intents -> SUBSET Relays]
    /\ pend \in [Intents -> Pendings]
    /\ known \subseteq LaneKeys
    /\ wire \subseteq LaneKeys
    /\ heard \subseteq wire
    /\ left \in [Kinds -> Nat] /\ left["fault"] = 0
    /\ up \in BOOLEAN

\* The reducer's pending write mirrors the durable intent, and routing is
\* complete only when every relay of the plan is among the routes.
IntentsAgree ==
    \A i \in Intents :
        /\ intent[i] \in {"AwaitingSigner", "Pending"} <=> receipt[i] = "Accepted"
        /\ intent[i] = "Signed" => receipt[i] = "Signed"
        /\ up => /\ pend[i].on <=> intent[i] # "None"
                 /\ pend[i].signed <=> intent[i] = "Signed"
        /\ routes[i] \subseteq Plan[i]
        /\ routes[i] # {} => receipt[i] = "Signed"
        /\ pend[i].routed \subseteq routes[i]
        /\ pend[i].complete => Plan[i] \subseteq routes[i]

\* A lane belongs to a signed write that is routed to its relay, and an
\* unfinished one to a write that is still open.
LanesAgree ==
    \A k \in LaneKeys :
        /\ lane[k].st # "None" => k[2] \in routes[k[1]]
        /\ lane[k].st \notin {"None", "Terminal"} => intent[k[1]] = "Signed"
        /\ lane[k].st = "Terminal" <=> lane[k].out # "None"
        /\ k \in known => lane[k].st # "None" /\ pend[k[1]].on

\* The attempt a correlation is about has no report yet, unless its write was
\* superseded.
CorrAgree ==
    /\ \A c \in corr :
        /\ receipt[c.key[1]] \in {"Signed", "Superseded"}
        /\ receipt[c.key[1]] = "Signed" =>
              /\ lane[c.key].st # "None"
              /\ c.ord =< Len(att[c.key])
              /\ att[c.key][c.ord].handoff = "None"
    /\ \A c, d \in corr : c.key = d.key /\ c.ord = d.ord => c = d

\* Bytes that left are on record: some attempt of the lane is not NotHandedOff,
\* and no report can still call it so.
WireAgree ==
    \A k \in wire :
        /\ receipt[k[1]] \in {"Signed", "Superseded"}
        /\ receipt[k[1]] = "Signed" =>
            /\ lane[k].st # "None"
            /\ \E o \in 1 .. Len(att[k]) :
                  /\ att[k][o].handoff # "NotHandedOff"
                  /\ \A c \in corr : c.key = k /\ c.ord = o => c.sent

DownIsEmpty == ~ up => /\ known = {} /\ corr = {} /\ todo = <<>>
                       /\ \A i \in Intents : pend[i] = NoPending

\* The jobs of a queue.
Held(q) == {q[n] : n \in 1 .. Len(q)}

\* The jobs that rely on a write being open, and the writes a job may end.  The
\* jobs of boot recovery come before all others.
BootOps == {"bootRoute", "bootLanes"}
RouteOps == {"route", "bootstrap", "unroutable"} \cup BootOps
MayEnd(job) ==
    IF job.op \in {"close", "unroutable", "compensate", "cancel", "route", "promote"}
    THEN {job.arg}
    ELSE IF job.op \in {"suspend", "due", "deny", "apply"} THEN Intents ELSE {}
Boots(job) == job.op \in BootOps \cup {"reopen"}
Bars(a, b) ==
    /\ b.op \in RouteOps
    /\ b.arg \in MayEnd(a) \/ (b.op \in BootOps /\ ~ Boots(a))
Ordered(q) == \A m, n \in 1 .. Len(q) : m < n => ~ Bars(q[m], q[n])

JobsAgree ==
    /\ Ordered(todo)
    /\ \A j \in Held(todo) : j.op \in RouteOps => intent[j.arg] = "Signed"

Awaits(i, ops) == \E j \in Held(todo) : j.op \in ops /\ j.arg = i

\* Jobs that always have something to commit, and build lanes.
Lasting == BootOps \cup {"bootstrap"}

\* Every route of an open write has its lane, or the job that builds it is due.
LanesBuilt ==
    up => \A i \in Intents : intent[i] = "Signed" => \A r \in routes[i] :
        lane[<<i, r>>].st # "None" \/ Awaits(i, Lasting)

\* Every lane in flight is projected, or boot recovery has yet to read it.
FlightsKnown ==
    up => \A k \in LaneKeys : lane[k].st \in InFlight => k \in known \/ Awaits(k[1], BootOps)

InFlightLanes == {k \in LaneKeys : lane[k].st \in InFlight}

\* The invariant, without and with what it says of the queue.
Agreement == /\ Shapes /\ IntentsAgree /\ LanesAgree /\ CorrAgree /\ WireAgree
             /\ DownIsEmpty
             /\ IsFiniteSet(InFlightLanes) /\ CapsHold /\ SettledEverywhere
PInv == Agreement /\ JobsAgree /\ LanesBuilt /\ FlightsKnown

-----------------------------------------------------------------------------
(***************************************************************************)
(* What a step does, as far as the agreement cares.                        *)
(***************************************************************************)

\* A job that bars no more than another.
Milder(a, b) == MayEnd(a) \subseteq MayEnd(b) /\ (Boots(b) => Boots(a))

\* The jobs behind the one that runs.
Rest == Held(Tail(todo))

\* The writes a correlation or a relay knows of keep a receipt that says so.
Talked == {c.key[1] : c \in corr} \cup {k[1] : k \in wire}
ReceiptsStay ==
    \A i \in Talked : /\ receipt[i] = "Signed" => receipt'[i] \in {"Signed", "Superseded"}
                      /\ receipt[i] = "Superseded" => receipt'[i] = "Superseded"

\* The attempts of a lane that is still there keep their reports.
ReportsStay ==
    \A k \in LaneKeys : receipt'[k[1]] = "Signed" /\ lane[k].st # "None" =>
        /\ lane'[k].st # "None"
        /\ Len(att[k]) =< Len(att'[k])
        /\ \A o \in 1 .. Len(att[k]) : att'[k][o].handoff = att[k][o].handoff

\* The lanes in flight after a step are among those before it.
FewerFlights == \A k \in LaneKeys : lane'[k].st \in InFlight => lane[k].st \in InFlight

\* The running job is not one that builds the lanes of write i.
Relieved(i) == Head(todo).op \in Lasting => Head(todo).arg # i

\* A step of WritePromise, or none.
PromiseStep == Promise!Next \/ UNCHANGED Promise!vars

\* The status of a write with receipt r and intent n.
StatusOf(r, n) ==
    CASE r = "None" -> "None"
      [] r \in {"Cancelled", "Compensated", "NotSent", "NoDestination"} -> "NotSent"
      [] r = "Superseded" -> "Superseded"
      [] r = "Accepted" -> "Accepted"
      [] r = "Signed" -> IF n = "None" THEN "Settled" ELSE "Signed"

\* What agrees about one write after a step.
IntentAgrees(i) ==
    /\ intent[i] \in {"AwaitingSigner", "Pending"} <=> receipt[i] = "Accepted"
    /\ intent[i] = "Signed" => receipt[i] = "Signed"
    /\ up => /\ pend[i].on <=> intent[i] # "None"
             /\ pend[i].signed <=> intent[i] = "Signed"
    /\ routes[i] \subseteq Plan[i]
    /\ routes[i] # {} => receipt[i] = "Signed"
    /\ pend[i].routed \subseteq routes[i]
    /\ pend[i].complete => Plan[i] \subseteq routes[i]
    /\ \A k \in LaneKeys : k[1] = i =>
          /\ lane[k].st # "None" => k[2] \in routes[i]
          /\ lane[k].st \notin {"None", "Terminal"} => intent[i] = "Signed"
          /\ k \in known => pend[i].on
    /\ receipt[i] = "Signed" /\ intent[i] = "None" =>
          \A r \in Plan[i] : lane[<<i, r>>].st = "Terminal"
=============================================================================
