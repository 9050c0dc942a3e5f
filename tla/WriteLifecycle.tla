---------------------------- MODULE WriteLifecycle ----------------------------
(***************************************************************************)
(* The write plane of nmp-engine's reducer: how an accepted write is       *)
(* signed, routed, scheduled onto relays, retried and settled on top of    *)
(* the durable publish queue, while relays drop and authenticate, store    *)
(* commits fail and the process crashes and boots again.                   *)
(*                                                                         *)
(* The reducer is one thread.  A handler is the sequence of store commits  *)
(* it makes: an engine message fills `todo` with the handler's jobs, each  *)
(* step runs one commit of the job at the head, and no other message is    *)
(* handled until `todo` is empty.  Every commit may fail, in which case    *)
(* the handler goes on exactly as its error path does, and the process may *)
(* crash between any two commits.  Effects reach the transport only after  *)
(* the handler returns.                                                    *)
(*                                                                         *)
(* Abstracted.  A lane row has no revision: a handler reads each row it    *)
(* replaces in the same turn, so the compare-and-swap of PublishQueue      *)
(* always succeeds.  Instants: a deadline row exists exactly for Transient *)
(* and AwaitingAck lanes (PublishQueueProofs, DeadlineIndexExact), a tick  *)
(* finds any set of them due, and as `since` may order eligible lanes in   *)
(* any way the scheduler may take any of them first.  Only writes of whole *)
(* events are modelled, not replaceable-operation cohorts.                 *)
(***************************************************************************)
EXTENDS Integers, Sequences, FiniteSets

CONSTANTS
    Intents,        \* the writes the application makes
    Relays,
    Author,         \* the key each write is signed with
    Apps,           \* what an application may ask for, and what befalls it
    Guarded,        \* sessions whose relay demands authentication
    Lazy,           \* those of them whose relay need not challenge before an EVENT
    MaxAttempts,    \* max_publish_attempts
    MaxGlobal       \* MAX_GLOBAL_ATTEMPTS

ASSUME AttemptsAssumption == MaxAttempts \in Nat \ {0}
ASSUME GlobalAssumption == MaxGlobal \in Nat \ {0}
ASSUME IntentsAssumption == IsFiniteSet(Intents)
ASSUME AppsAssumption ==
    Apps \subseteq [explicit : SUBSET Intents, presigned : SUBSET Intents,
                    early : [Intents -> SUBSET Relays],
                    plan : [Intents -> SUBSET Relays],
                    retires : [Intents -> SUBSET Intents],
                    budget : [{"crash", "fault", "drop", "refuse", "auth"} -> Nat]]
ASSUME RouteAssumption ==
    \A a \in Apps, i \in Intents :
        /\ a.early[i] \subseteq a.plan[i]
        /\ i \in a.explicit => a.early[i] = a.plan[i] /\ a.plan[i] # {}

LaneKeys == Intents \X Relays
Authors == {Author[i] : i \in Intents}
Sessions == Relays \X Authors

\* A write rides the session of its relay that is bound to its author.
Session(k) == <<k[2], Author[k[1]]>>

\* "Answered" stands for Acked and Rejected, the relay's final word.
Outcomes == {"Answered", "GaveUp", "AuthDenied"}
LaneStates ==
    {"None", "WaitingConnection", "WaitingAuth", "Eligible",
     "AwaitingHandoff", "AwaitingAck", "Transient", "Terminal"}
InFlight == {"AwaitingHandoff", "AwaitingAck"}
\* "HandedOff" stands for Written and Ambiguous, which the reducer treats alike.
Handoffs == {"NotHandedOff", "HandedOff"}

\* How an attempt ended.  "Failed" stands for every retryable observation:
\* a timeout, a lost connection, a transient refusal.
Ends == {"Interrupted", "AuthRequired", "Failed", "Answered", "GaveUp"}

NoLane == [st |-> "None", out |-> "None"]
NoPending == [on |-> FALSE, signed |-> FALSE, asking |-> FALSE,
              routed |-> {}, complete |-> FALSE]

VARIABLES
    intent,     \* durable: the signature state of an open intent
    receipt,    \* durable: the receipt; "NotSent" is a receipt deleted by a
                \* supersession that proved nothing was sent
    routes,     \* durable: the union of the route revisions
    lane,       \* durable: the lane rows
    att,        \* durable: the attempts of a lane, in order of ordinal
    up,         \* the process runs
    pend,       \* the reducer's pending write of each intent
    known,      \* the lanes in the reducer's lane projection
    learned,    \* the author's routes are known to this process
    conn,       \* connected_relays
    probe,      \* auth_probe_sessions
    required,   \* auth_required_sessions
    ready,      \* auth_ready_sessions
    corr,       \* attempt_correlations: handoffs the transport still owes
    todo,       \* the jobs the running handler has left
    dialog,     \* sessions with an AUTH exchange under way
    heard,      \* lanes whose event the relay received on this connection
    wire,       \* lanes whose event reached the relay
    faulted,    \* a commit failed since this process booted
    left,       \* how often each kind of misfortune may still strike
    app         \* the application at hand, one of Apps

Explicit == app.explicit        \* writes whose relays the application named
Presigned == app.presigned      \* writes handed over already signed
Early == app.early              \* the relays known before the author's routes are
Plan == app.plan                \* the relays a complete resolution names
Retires == app.retires          \* the earlier writes whose row a write supersedes

store == <<intent, receipt, routes, lane, att>>
links == <<conn, probe, ready, dialog, heard>>
vars == <<store, up, pend, known, learned, links, required, corr, todo, wire,
          faulted, left>>

Init ==
    /\ intent = [i \in Intents |-> "None"]
    /\ receipt = [i \in Intents |-> "None"]
    /\ routes = [i \in Intents |-> {}]
    /\ lane = [k \in LaneKeys |-> NoLane]
    /\ att = [k \in LaneKeys |-> <<>>]
    /\ up = TRUE
    /\ pend = [i \in Intents |-> NoPending]
    /\ known = {}
    /\ learned = FALSE
    /\ conn = {} /\ probe = {} /\ required = {} /\ ready = {}
    /\ dialog = {} /\ heard = {}
    /\ corr = {}
    /\ todo = <<>>
    /\ wire = {}
    /\ faulted = FALSE
    /\ app \in Apps
    /\ left = app.budget

-----------------------------------------------------------------------------
(***************************************************************************)
(* Reading the projection.                                                 *)
(***************************************************************************)
LanesOf(i) == {k \in LaneKeys : k[1] = i /\ lane[k].st # "None"}
\* The ordinal of a lane's last attempt.
Ordinal(k) == Len(att[k])

\* Variant: an attempt handed off arms no acknowledgement timeout.
HasRetryDeadlineOnly(k) == lane[k].st = "Transient"

HasDeadline(k) == lane[k].st \in {"Transient", "AwaitingAck"}

\* recover_all_lanes: the projected lanes that have not ended.
OpenLanes == {k \in known : lane[k].st # "Terminal"}

\* prune_unowned_relay_state, which ends every message: the sessions of S that
\* still have work.  The model prunes as the next message begins.
Demanded(S) == {s \in S : \E k \in OpenLanes : Session(k) = s}

Prune == required' = Demanded(required)

\* handoff_is_outstanding: compares the intent and the ordinal.
HandoffIsOutstanding(k) ==
    \E c \in corr : c.key[1] = k[1] /\ c.ord = Ordinal(k)

\* The AUTH gate of schedule_ready.
Gated(s) == s \in probe \/ (s \in required /\ s \notin ready)

\* Variant: an attempt the transport has not reported on takes no slot.
BusyOnceHandedOff(r) == \E k \in OpenLanes : k[2] = r /\ lane[k].st = "AwaitingAck"

\* The caps of schedule_ready: one attempt per relay, MaxGlobal in all.
Busy(r) == \E k \in OpenLanes : k[2] = r /\ lane[k].st \in InFlight
Full == Cardinality({k \in OpenLanes : lane[k].st \in InFlight}) >= MaxGlobal

\* Variant: the global cap is off by one.
ActionableBelowCap(k) ==
    /\ lane[k].st = "Eligible"
    /\ Session(k) \in conn
    /\ \/ Gated(Session(k))
       \/ /\ ~ Busy(k[2])
          /\ Cardinality({l \in OpenLanes : lane[l].st \in InFlight}) + 1 < MaxGlobal

\* What a scheduling pass does something about: a lane behind the AUTH gate is
\* parked, one within the caps is started, any other is passed over.
Actionable(k) ==
    /\ lane[k].st = "Eligible"
    /\ Session(k) \in conn
    /\ Gated(Session(k)) \/ (~ Busy(k[2]) /\ ~ Full)

\* Variant: routing that may still name a relay does not keep a write open.
CanCloseEarly(i) ==
    /\ pend[i].on
    /\ \E k \in known : k[1] = i
    /\ \A k \in known : k[1] = i => lane[k].st = "Terminal"

\* can_close of the lane projection, and route completeness.
CanClose(i) ==
    /\ pend[i].on
    /\ pend[i].complete
    /\ \E k \in known : k[1] = i
    /\ \A k \in known : k[1] = i => lane[k].st = "Terminal"

\* What route resolution answers from what this process has learned.
Answer(i) == IF learned THEN Plan[i] ELSE Early[i]
AnswerComplete(i) == learned \/ i \in Explicit
NothingNew(i) ==
    /\ Answer(i) \subseteq pend[i].routed
    /\ pend[i].complete = AnswerComplete(i)
    /\ pend[i].routed = {} => ~ AnswerComplete(i)

-----------------------------------------------------------------------------
(***************************************************************************)
(* Jobs.  A lane job visits the lanes that qualify one by one, each with a *)
(* commit of its own; `done` holds the lanes it has visited.               *)
(***************************************************************************)
LaneJob(op, arg) == [op |-> op, arg |-> arg, done |-> {}]
IntentJob(op, i) == [op |-> op, arg |-> i]

\* Variant: the end of an AUTH exchange wakes the wrong class of lanes.
WakeConnected(s) == LaneJob("wake", s)

Park(s) == LaneJob("park", s)          \* park_relay_lanes_for_auth
Suspend(s) == LaneJob("suspend", s)    \* suspend_disconnected_lanes
Wake(s) == LaneJob("wake", s)          \* wake_relay_lanes, auth_only = false
WakeAuth(s) == LaneJob("wakeAuth", s)  \* wake_relay_lanes, auth_only = true
Deny(s) == LaneJob("deny", s)          \* deny_write_lanes_for_auth
Due(D) == LaneJob("due", D)            \* consume_due_publish_queue_deadlines
Open(i) == LaneJob("open", i)          \* open_fresh_lanes
Reopen(i) == LaneJob("reopen", i)      \* open_bootstrapped_lanes
Schedule == <<LaneJob("reclaim", "all"), LaneJob("start", "all")>>

Promote(i) == IntentJob("promote", i)
Compensate(i) == IntentJob("compensate", i)
Cancel(i) == IntentJob("cancel", i)
Route(i) == IntentJob("route", i)
Bootstrap(i) == IntentJob("bootstrap", i)
Unroutable(i) == IntentJob("unroutable", i)
BootRoute(i) == IntentJob("bootRoute", i)
BootLanes(i) == IntentJob("bootLanes", i)
Close(i) == IntentJob("close", i)

\* Invalidating an AUTH epoch parks the session's lanes if AUTH is required.
Invalidate(s) == IF s \in Demanded(required) THEN <<Park(s)>> ELSE <<>>

\* The lanes a lane job acts on, as the store and the projection stand.
Targets(job) ==
    {k \in LaneKeys \ job.done :
        \/ /\ job.op = "park" /\ k \in OpenLanes /\ Session(k) = job.arg
           /\ lane[k].st # "WaitingAuth"
        \/ /\ job.op = "suspend" /\ k \in OpenLanes /\ Session(k) = job.arg
           /\ lane[k].st \in {"AwaitingAck", "WaitingAuth"}
        \/ /\ job.op = "wake" /\ k \in known /\ Session(k) = job.arg
           /\ lane[k].st = "WaitingConnection"
        \/ /\ job.op \in {"wakeAuth", "deny"} /\ k \in known
           /\ Session(k) = job.arg /\ lane[k].st = "WaitingAuth"
        \/ job.op = "due" /\ k \in job.arg /\ HasDeadline(k)
        \/ /\ job.op = "open" /\ k \in known /\ k[1] = job.arg
           /\ lane[k].st = "WaitingConnection" /\ Session(k) \in conn
        \/ /\ job.op = "reopen" /\ k \in known /\ k[1] = job.arg
           /\ \/ lane[k].st = "WaitingAuth"
              \/ lane[k].st = "AwaitingHandoff" /\ ~ HandoffIsOutstanding(k)
        \/ /\ job.op = "reclaim" /\ k \in OpenLanes
           /\ lane[k].st = "AwaitingHandoff" /\ ~ HandoffIsOutstanding(k)
        \/ job.op = "start" /\ k \in OpenLanes /\ Actionable(k)}

\* What a commit makes of a lane: its state, its outcome, and how its running
\* attempt ended ("None": it has not, or there is none).
Move(st, out, end) == [st |-> st, out |-> out, end |-> end]
Waiting(st) == Move(st, "None", "None")
Reclaimed == Move("Transient", "None", "Interrupted")
AuthSuspended == Move("WaitingAuth", "None", "AuthRequired")

Denied == Move("Terminal", "AuthDenied", "None")

\* Variant: the end of the attempt is not recorded.
RetryUnrecorded(k) ==
    IF Ordinal(k) >= MaxAttempts THEN Move("Terminal", "GaveUp", "None")
                              ELSE Waiting("Transient")

\* retry_or_give_up: the ceiling is on the attempt's ordinal.
RetryOrGiveUp(k) ==
    IF Ordinal(k) >= MaxAttempts THEN Move("Terminal", "GaveUp", "GaveUp")
                              ELSE Move("Transient", "None", "Failed")

\* The commit each lane job makes for lane k.
JobMove(op, k) ==
    CASE op = "park" /\ lane[k].st \in InFlight -> AuthSuspended
      [] op = "park" /\ lane[k].st \notin InFlight -> Waiting("WaitingAuth")
      [] op \in {"suspend", "due"} /\ lane[k].st = "AwaitingAck" ->
             RetryOrGiveUp(k)
      [] op \in {"suspend", "reopen"} /\ lane[k].st = "WaitingAuth" ->
             Waiting("WaitingConnection")
      [] op \in {"reopen", "reclaim"} /\ lane[k].st = "AwaitingHandoff" ->
             Reclaimed
      [] op = "deny" -> Denied
      [] op \in {"wake", "wakeAuth", "open"} -> Waiting("Eligible")
      [] op = "due" /\ lane[k].st = "Transient" -> Waiting("Eligible")

-----------------------------------------------------------------------------
(***************************************************************************)
(* One commit of the running handler.  `ok` says whether it succeeds.      *)
(***************************************************************************)
LaneOps == {"park", "suspend", "wake", "wakeAuth", "deny", "due", "open",
            "reopen", "reclaim", "start"}

\* A job that finds nothing to commit is passed over.
Void(job) ==
    \/ job.op \in LaneOps /\ Targets(job) = {}
    \/ job.op = "close" /\ ~ CanClose(job.arg)
    \/ job.op = "route" /\ NothingNew(job.arg)

HeadWorks == todo # <<>> => ~ Void(Head(todo))
SkipsVoid(q, n) == \A m \in 1 .. n - 1 : Void(q[m])'

\* What the handler has left: the void jobs at its front go, as judged in the
\* state its commit leaves behind.
Do(jobs) ==
    \E q \in {jobs} : \E n \in 1 .. Len(q) + 1 :
        /\ todo' = SubSeq(q, n, Len(q))
        /\ SkipsVoid(q, n)
        /\ HeadWorks'

Continue(jobs) == Do(jobs \o Tail(todo))

Idle == up /\ todo = <<>>
Running(op) == up /\ todo # <<>> /\ Head(todo).op = op

\* Misfortunes are drawn from the budget.
Spend(kind, cost) ==
    /\ left[kind] >= cost
    /\ left' = [left EXCEPT ![kind] = @ - cost]

\* A commit that fails changes no row.
Commit(ok) ==
    \/ ok /\ UNCHANGED <<faulted, left>>
    \/ /\ ~ ok
       /\ Spend("fault", 1)
       /\ faulted' = TRUE
       /\ UNCHANGED store

\* The lane row and its running attempt; a committed row enters the
\* projection of its pending write.
ReplaceLane(k, m) ==
    /\ lane' = [lane EXCEPT ![k] = [st |-> m.st, out |-> m.out]]
    /\ att' = IF m.end = "None" THEN att
              ELSE [att EXCEPT ![k] = [@ EXCEPT ![Ordinal(k)].end = m.end]]
    /\ known' = IF pend[k[1]].on THEN known \cup {k} ELSE known
    /\ UNCHANGED <<intent, receipt, routes>>

CommitLane(k, m, ok) ==
    /\ Commit(ok)
    /\ ok => ReplaceLane(k, m)
    /\ ~ ok => UNCHANGED known

\* A lane that ended may have been the last of its write.
ThenClose(k, m, ok) ==
    IF ok /\ m.st = "Terminal" THEN <<Close(k[1])>> ELSE <<>>

\* A lane job visits its next lane.  The order of keys is arbitrary.  The
\* deadline sweep reads the due rows again until none is left; every other
\* loop goes on after a failure.
VisitLane(ok) ==
    LET job == Head(todo)
        k == CHOOSE l \in Targets(job) : TRUE
        m == JobMove(job.op, k)
        visited == [job EXCEPT !.done = @ \cup {k}]
    IN  /\ up /\ todo # <<>>
        /\ job.op \in LaneOps \ {"start"}
        /\ CommitLane(k, m, ok)
        /\ UNCHANGED <<up, pend, learned, links, required, corr, wire>>
        /\ Continue(ThenClose(k, m, ok)
                       \o <<IF job.op = "due" /\ ~ ok THEN job ELSE visited>>)

\* The second half of schedule_ready.  Lanes are taken by the instant they
\* became eligible, which may be any order.  A gated lane parks; any other
\* starts: the next ordinal is journalled and the transport owes its handoff.
StartLane(k, ok) ==
    LET job == Head(todo)
        gated == Gated(Session(k))
        fresh == [key |-> k, ord |-> Ordinal(k) + 1, sent |-> FALSE]
    IN  /\ Running("start")
        /\ k \in Targets(job)
        /\ \/ gated /\ CommitLane(k, Waiting("WaitingAuth"), ok)
                    /\ UNCHANGED corr
           \/ /\ ~ gated /\ ok
              /\ Commit(ok)
              /\ lane' = [lane EXCEPT ![k].st = "AwaitingHandoff"]
              /\ att' = [att EXCEPT ![k] =
                            Append(@, [handoff |-> "None", end |-> "None"])]
              /\ corr' = corr \cup {fresh}
              /\ UNCHANGED <<intent, receipt, routes, known>>
           \/ ~ gated /\ ~ ok /\ Commit(ok) /\ UNCHANGED <<known, corr>>
        /\ UNCHANGED <<up, pend, learned, links, required, wire>>
        /\ Continue(<<[job EXCEPT !.done = @ \cup {k}]>>)

\* The pending write of each intent of I and its indexes go away.
Forget(I) ==
    /\ pend' = [i \in Intents |-> IF i \in I THEN NoPending ELSE pend[i]]
    /\ known' = {k \in known : k[1] \notin I}

\* What the steps below, one per job of an intent, leave alone.
IntentStep(op, i) ==
    /\ Running(op)
    /\ i = Head(todo).arg
    /\ UNCHANGED <<up, learned, links, required, corr, wire>>

\* on_signed: a promoted write resolves its routes; one whose promotion did
\* not commit is compensated.
PromoteSigned(i, ok) ==
    /\ IntentStep("promote", i)
    /\ Commit(ok)
    /\ \/ /\ ok /\ intent[i] # "None"
          /\ intent' = [intent EXCEPT ![i] = "Signed"]
          /\ receipt' = [receipt EXCEPT ![i] = "Signed"]
          /\ pend' = [pend EXCEPT ![i].signed = TRUE]
          /\ UNCHANGED <<routes, lane, att>>
       \/ ~ ok /\ UNCHANGED pend
    /\ UNCHANGED known
    /\ Continue(<<IF ok THEN Route(i) ELSE Compensate(i)>>)

\* fail_and_compensate and cancel_write: the unsigned obligation ends.  Only
\* a cancellation runs the scheduler.
Retract(i, op, ok) ==
    /\ IntentStep(op, i)
    /\ Commit(ok)
    /\ \/ /\ ok /\ intent[i] \in {"AwaitingSigner", "Pending"}
          /\ intent' = [intent EXCEPT ![i] = "None"]
          /\ receipt' = [receipt EXCEPT ![i] = IF op = "cancel" THEN "Cancelled"
                                               ELSE "Compensated"]
          /\ Forget({i})
          /\ UNCHANGED <<routes, lane, att>>
       \/ ~ ok /\ UNCHANGED <<pend, known>>
    /\ Continue(IF ok /\ op = "cancel" THEN Schedule ELSE <<>>)

\* apply_route_answer: relays never resolved before are appended in a route
\* revision, then get lanes.  A revision that does not commit leaves routing
\* incomplete.
RecordRoutes(i, ok) ==
    /\ IntentStep("route", i)
    /\ Answer(i) \ pend[i].routed # {}
    /\ Commit(ok)
    /\ \/ /\ ok
          /\ routes' = [routes EXCEPT ![i] = @ \cup Answer(i)]
          /\ pend' = [pend EXCEPT ![i].routed = @ \cup Answer(i),
                                  ![i].complete = AnswerComplete(i)]
          /\ UNCHANGED <<intent, receipt, lane, att>>
       \/ ~ ok /\ pend' = [pend EXCEPT ![i].complete = FALSE]
    /\ UNCHANGED known
    /\ Continue(IF ok THEN <<Bootstrap(i)>> ELSE <<>>)

\* apply_route_answer with no new relay: a complete answer that never named
\* anybody ends the write.
NoNewRoutes(i) ==
    /\ IntentStep("route", i)
    /\ Answer(i) \subseteq pend[i].routed
    /\ pend' = [pend EXCEPT ![i].complete = AnswerComplete(i)]
    /\ UNCHANGED <<store, known, faulted, left>>
    /\ Continue(IF pend[i].routed = {} /\ AnswerComplete(i)
                THEN <<Unroutable(i)>> ELSE <<>>)

\* An attempt runs until evidence of its end is recorded, and the store builds
\* no lane on a history in which an attempt other than the last one runs.
Runs(a) == a.end = "None" /\ a.handoff # "NotHandedOff"
ContradictoryHistory(k) == \E o \in 1 .. Ordinal(k) - 1 : Runs(att[k][o])

\* Variant: a lane that has ended counts as absent and is minted again.
BuildEndedLanes(i) ==
    /\ lane' = [k \in LaneKeys |->
                   IF /\ k[1] = i /\ k[2] \in routes[i]
                      /\ lane[k].st \in {"None", "Terminal"}
                   THEN [st |-> "WaitingConnection", out |-> "None"]
                   ELSE lane[k]]
    /\ known' = known \cup {k \in LaneKeys : k[1] = i /\ lane'[k].st # "None"}
    /\ UNCHANGED <<intent, receipt, routes, att>>

\* The store builds the lanes of the route revisions it holds, and the
\* projection becomes exactly the intent's lanes.
BuildLanes(i) ==
    /\ \A r \in routes[i] : ~ ContradictoryHistory(<<i, r>>)
    /\ lane' = [k \in LaneKeys |->
                   IF k[1] = i /\ k[2] \in routes[i] /\ lane[k].st = "None"
                   THEN [st |-> "WaitingConnection", out |-> "None"]
                   ELSE lane[k]]
    /\ known' = known \cup {k \in LaneKeys : k[1] = i /\ lane'[k].st # "None"}
    /\ UNCHANGED <<intent, receipt, routes, att>>

\* bootstrap_projected_lanes after a committed revision, and at boot.  The
\* lanes are then opened; a failure leaves the projection as it was.
BootstrapLanes(i, op, ok) ==
    /\ IntentStep(op, i)
    /\ Commit(ok)
    /\ ok => BuildLanes(i)
    /\ ~ ok => UNCHANGED known
    /\ UNCHANGED pend
    /\ Continue(IF ~ ok THEN <<>>
                ELSE IF op = "bootLanes" THEN <<Reopen(i)>>
                ELSE <<Open(i)>> \o Schedule)

\* close_unroutable_intent; the pending write stays if it did not commit.
CloseUnroutable(i, ok) ==
    /\ IntentStep("unroutable", i)
    /\ Commit(ok)
    /\ \/ /\ ok /\ LanesOf(i) = {}
          /\ intent' = [intent EXCEPT ![i] = "None"]
          /\ receipt' = [receipt EXCEPT ![i] = "NoDestination"]
          /\ Forget({i})
          /\ UNCHANGED <<routes, lane, att>>
       \/ ~ ok /\ UNCHANGED <<pend, known>>
    /\ Continue(<<>>)

\* close_if_all_lanes_terminal.  The store checks the lanes it holds, and
\* refuses when one of them has not ended.
CloseIfAllLanesTerminal(i, ok) ==
    LET shape == \A k \in LanesOf(i) : lane[k].st = "Terminal"
    IN  /\ IntentStep("close", i)
        /\ \/ /\ ok /\ shape
              /\ Commit(ok)
              /\ intent' = [intent EXCEPT ![i] = "None"]
              /\ Forget({i})
              /\ UNCHANGED <<receipt, routes, lane, att>>
           \/ ok /\ ~ shape /\ UNCHANGED <<store, pend, known, faulted, left>>
           \/ ~ ok /\ Commit(ok) /\ UNCHANGED <<pend, known>>
        /\ Continue(<<>>)

\* Boot recovery of one signed intent: its durable routes are read and
\* resolved again, and relays learned since get a revision.
BootRoutes(i, ok) ==
    LET new == Answer(i) \ routes[i]
    IN  /\ IntentStep("bootRoute", i)
        /\ ~ ok => new # {}
        /\ Commit(ok)
        /\ \/ /\ ok
              /\ routes' = [routes EXCEPT ![i] = @ \cup new]
              /\ pend' = [pend EXCEPT ![i].routed = routes[i] \cup new,
                                      ![i].complete = AnswerComplete(i)]
              /\ UNCHANGED <<intent, receipt, lane, att>>
           \/ ~ ok /\ pend' = [pend EXCEPT ![i].routed = routes[i]]
        /\ UNCHANGED known
        /\ Continue(<<BootLanes(i)>>)

\* Boot recovery when the durable routes cannot be read: no lane is projected.
BootRoutesUnread(i) ==
    /\ IntentStep("bootRoute", i)
    /\ Commit(FALSE)
    /\ UNCHANGED <<pend, known>>
    /\ Continue(<<>>)

\* A single lane's commit, on the way to the rest of the handler.
Apply(k, m) == [op |-> "apply", arg |-> k, move |-> m]

ApplyMove(ok) ==
    LET k == Head(todo).arg
        m == Head(todo).move
    IN  /\ Running("apply")
        /\ CommitLane(k, m, ok)
        /\ UNCHANGED <<up, pend, learned, links, required, corr, wire>>
        /\ Continue(ThenClose(k, m, ok))

HandlerStep ==
    \E ok \in BOOLEAN :
        \/ VisitLane(ok)
        \/ ApplyMove(ok)
        \/ \E k \in LaneKeys : StartLane(k, ok)
        \/ \E i \in Intents :
            \/ PromoteSigned(i, ok)
            \/ \E op \in {"compensate", "cancel"} : Retract(i, op, ok)
            \/ RecordRoutes(i, ok)
            \/ \E op \in {"bootstrap", "bootLanes"} : BootstrapLanes(i, op, ok)
            \/ CloseUnroutable(i, ok)
            \/ CloseIfAllLanesTerminal(i, ok)
            \/ BootRoutes(i, ok)
            \/ ok /\ NoNewRoutes(i)
            \/ ~ ok /\ BootRoutesUnread(i)

-----------------------------------------------------------------------------
(***************************************************************************)
(* The messages the reducer handles.                                       *)
(***************************************************************************)

\* Variant: an attempt without a report counts as not sent.
HandoffReported(i) ==
    \E k \in LanesOf(i) : \E o \in 1 .. Ordinal(k) :
        att[k][o].handoff = "HandedOff"

\* Supersession keeps the receipt of a write whose bytes may have left.
HandoffMayHaveOccurred(i) ==
    \E k \in LanesOf(i) : \E o \in 1 .. Ordinal(k) :
        att[k][o].handoff # "NotHandedOff"

\* on_publish: accept_write commits the intent and retires the open writes it
\* supersedes; their transport correlations stay.  A signed payload goes on to
\* promotion in the same turn, any other asks its signer.
Publish(i) ==
    LET retired == {j \in Retires[i] : intent[j] # "None"}
    IN  /\ Idle
        /\ receipt[i] = "None"
        /\ \A j \in Retires[i] : receipt[j] # "None"
        /\ intent' = [j \in Intents |->
                         IF j = i THEN IF i \in Presigned THEN "Pending"
                                                         ELSE "AwaitingSigner"
                         ELSE IF j \in retired THEN "None" ELSE intent[j]]
        /\ receipt' = [j \in Intents |->
                          IF j = i THEN "Accepted"
                          ELSE IF j \notin retired THEN receipt[j]
                          ELSE IF HandoffMayHaveOccurred(j) THEN "Superseded"
                          ELSE "NotSent"]
        /\ routes' = [j \in Intents |-> IF j \in retired THEN {} ELSE routes[j]]
        /\ lane' = [k \in LaneKeys |-> IF k[1] \in retired THEN NoLane
                                       ELSE lane[k]]
        /\ att' = [k \in LaneKeys |-> IF k[1] \in retired THEN <<>> ELSE att[k]]
        /\ pend' = [j \in Intents |->
                       IF j = i THEN [NoPending EXCEPT !.on = TRUE,
                                          !.asking = i \notin Presigned]
                       ELSE IF j \in retired THEN NoPending ELSE pend[j]]
        /\ known' = {k \in known : k[1] \notin retired}
        /\ Prune
        /\ UNCHANGED <<up, learned, links, corr, wire, faulted, left>>
        /\ Do(IF i \in Presigned THEN <<Promote(i)>> ELSE <<>>)

\* A message that changes no row as it arrives, and the jobs it starts.
Message(jobs) ==
    /\ Idle
    /\ UNCHANGED <<store, up, known, corr, wire, faulted>>
    /\ Do(jobs)

\* on_signer_completed with a signature, or with a terminal refusal.
SignerCompleted(i, ok) ==
    /\ pend[i].asking
    /\ pend' = [pend EXCEPT ![i].asking = FALSE]
    /\ Prune
    /\ UNCHANGED <<learned, links, left>>
    /\ Message(<<IF ok THEN Promote(i) ELSE Compensate(i)>>)

\* on_signer_unavailable and a retryable signer error: the write waits for a
\* signer to attach.
SignerUnavailable(i) ==
    /\ pend[i].asking
    /\ pend' = [pend EXCEPT ![i].asking = FALSE]
    /\ Prune
    /\ UNCHANGED <<learned, links, left>>
    /\ Message(<<>>)

NeedsSigner(i, pk) ==
    Author[i] = pk /\ pend[i].on /\ ~ pend[i].signed /\ ~ pend[i].asking

SignerAttached(pk) ==
    /\ \E i \in Intents : NeedsSigner(i, pk)
    /\ pend' = [i \in Intents |-> [pend[i] EXCEPT !.asking =
                                      @ \/ NeedsSigner(i, pk)]]
    /\ Prune
    /\ UNCHANGED <<learned, links, left>>
    /\ Message(<<>>)

\* cancel_write of a write that is still pending and unsigned.
CancelWrite(i) ==
    /\ pend[i].on /\ ~ pend[i].signed
    /\ Prune
    /\ UNCHANGED <<pend, learned, links, left>>
    /\ Message(<<Cancel(i)>>)

\* The members of a finite set one after another, as a table is read by key.
InKeyOrder(S) == CHOOSE q \in [1 .. Cardinality(S) -> S] :
                     \A m, n \in 1 .. Cardinality(S) : q[m] = q[n] => m = n

\* rewrite_open_routes: every signed write whose routing is still open is
\* resolved again and closed if that completed it.
Unfinished == {i \in Intents : pend[i].on /\ pend[i].signed
                                         /\ ~ pend[i].complete}
RewriteOpenRoutes ==
    LET q == InKeyOrder(Unfinished)
    IN  [n \in 1 .. 2 * Len(q) |-> IF n % 2 = 1 THEN Route(q[(n + 1) \div 2])
                                                ELSE Close(q[n \div 2])]

\* replace_author_routes: the author's routes become known.
AuthorRoutesLearned ==
    /\ ~ learned
    /\ learned' = TRUE
    /\ Prune
    /\ UNCHANGED <<pend, links, left>>
    /\ Message(RewriteOpenRoutes)

\* tick: open routes are resolved again, then the deadlines that are due, the
\* lanes of D, are consumed and the scheduler runs.
Tick(D) ==
    /\ \A k \in D : HasDeadline(k)
    /\ Prune
    /\ UNCHANGED <<pend, learned, links, left>>
    /\ Message(RewriteOpenRoutes \o <<Due(D)>> \o Schedule)

(***************************************************************************)
(* The transport and the relays.                                           *)
(***************************************************************************)

\* The socket carries the EVENT of an outstanding attempt to the relay.
TransportWrite(c) ==
    /\ Idle
    /\ ~ c.sent
    /\ Session(c.key) \in conn
    /\ corr' = (corr \ {c}) \cup {[c EXCEPT !.sent = TRUE]}
    /\ wire' = wire \cup {c.key}
    /\ heard' = heard \cup {c.key}
    /\ UNCHANGED <<store, up, pend, known, learned, conn, probe, ready,
                   dialog, required, todo, faulted, left>>

\* What the transport may say of an attempt: NotHandedOff only of one it never
\* wrote, while Ambiguous may be said of any.
Reports(c) == IF c.sent THEN {"HandedOff"} ELSE Handoffs

\* on_event_handoff.  A report on an attempt its lane no longer awaits is
\* dropped.  A commit that fails ends the turn without scheduling.
HandoffCommit(k, result) ==
    /\ lane' = [lane EXCEPT ![k].st = IF result = "NotHandedOff"
                                      THEN "WaitingConnection"
                                      ELSE "AwaitingAck"]
    /\ att' = [att EXCEPT ![k] = [@ EXCEPT ![Ordinal(k)].handoff = result]]
    /\ known' = IF pend[k[1]].on THEN known \cup {k} ELSE known
    /\ conn' = IF result = "NotHandedOff" THEN conn \ {Session(k)} ELSE conn
    /\ UNCHANGED <<intent, receipt, routes, faulted>>

EventHandoff(c, result, ok) ==
    LET k == c.key
        awaited == lane[k].st = "AwaitingHandoff" /\ c.ord = Ordinal(k)
        spent == IF result = "NotHandedOff" THEN 1 ELSE 0
    IN  /\ Idle
        /\ result \in Reports(c)
        /\ corr' = corr \ {c}
        /\ \/ /\ ok /\ awaited
              /\ HandoffCommit(k, result)
              /\ Spend("refuse", spent)
           \/ /\ ok /\ ~ awaited
              /\ Spend("refuse", spent)
              /\ UNCHANGED <<store, known, conn, faulted>>
           \/ ~ ok /\ awaited /\ Commit(ok) /\ UNCHANGED <<known, conn>>
        /\ Prune
        /\ UNCHANGED <<up, pend, learned, probe, ready, dialog, heard, wire>>
        /\ Do(IF ok /\ awaited THEN Schedule ELSE <<>>)

\* handle_write_ack: an OK for an event the relay received on this connection of
\* the write's own session.  It moves a lane that awaits it; the scheduler runs either way.
AckMove(k, class) ==
    CASE class = "Answered" -> Move("Terminal", "Answered", "Answered")
      [] class = "Transient" -> RetryOrGiveUp(k)
      [] class = "AuthRequired" -> AuthSuspended

RelayOk(k, class) ==
    LET s == Session(k)
        awaited == lane[k].st = "AwaitingAck"
        demand == class = "AuthRequired"
    IN  /\ s \in conn /\ k \in heard
        /\ pend[k[1]].on
        /\ demand => awaited /\ s \in Guarded /\ s \notin ready
        /\ probe' = IF demand THEN probe \ {s} ELSE probe
        /\ required' = Demanded(required) \cup (IF demand THEN {s} ELSE {})
        /\ UNCHANGED <<pend, learned, conn, ready, dialog, heard, left>>
        /\ Message((IF awaited THEN <<Apply(k, AckMove(k, class))>> ELSE <<>>)
                      \o Schedule)

\* on_relay_connected: a session some lane wants comes up.  The old AUTH epoch
\* is void, the initial AUTH probe begins, and the waiting lanes wake.
RelayConnected(s) ==
    /\ s \notin conn
    /\ \E k \in OpenLanes : Session(k) = s
    /\ conn' = conn \cup {s}
    /\ probe' = probe \cup {s}
    /\ ready' = ready \ {s}
    /\ dialog' = dialog \ {s}
    /\ heard' = {k \in heard : Session(k) # s}
    /\ Prune
    /\ UNCHANGED <<pend, learned, left>>
    /\ Message(Invalidate(s) \o <<Wake(s)>> \o Schedule)

\* on_relay_disconnected.
RelayDisconnected(s) ==
    /\ s \in conn
    /\ Spend("drop", 1)
    /\ conn' = conn \ {s}
    /\ probe' = probe \ {s}
    /\ ready' = ready \ {s}
    /\ dialog' = dialog \ {s}
    /\ heard' = {k \in heard : Session(k) # s}
    /\ Prune
    /\ UNCHANGED <<pend, learned>>
    /\ Message(Invalidate(s) \o <<Suspend(s)>> \o Schedule)

(***************************************************************************)
(* AUTH, as the write plane sees it: whether an exchange is under way, and *)
(* how it ends.  A relay challenges an unauthenticated session whenever it *)
(* likes; challenging it again, and every way an exchange can end without  *)
(* a verdict, is drawn from the budget.                                    *)
(***************************************************************************)
\* on_auth_challenge: parks the session's lanes and runs no scheduler.  An
\* empty challenge starts no exchange.
AuthChallenge(s, valid) ==
    /\ s \in conn /\ s \in Guarded
    /\ Spend("auth", IF valid /\ s \notin ready \cup dialog THEN 0 ELSE 1)
    /\ probe' = probe \ {s}
    /\ required' = Demanded(required) \cup {s}
    /\ ready' = ready \ {s}
    /\ dialog' = IF valid THEN dialog \cup {s} ELSE dialog \ {s}
    /\ UNCHANGED <<pend, learned, conn, heard>>
    /\ Message(<<Park(s)>>)

\* on_auth_restricted, a subscription closed for want of AUTH: a demand on an
\* unauthenticated session, a refusal on an authenticated one.
AuthRestricted(s) ==
    /\ s \in conn /\ s \in Guarded
    /\ Spend("auth", 1)
    /\ probe' = probe \ {s}
    /\ required' = Demanded(required) \cup {s}
    /\ ready' = ready \ {s}
    /\ UNCHANGED <<pend, learned, conn, dialog, heard>>
    /\ Message(<<Park(s)>> \o IF s \in ready THEN <<Deny(s)>> \o Schedule
                                             ELSE <<>>)

\* finish_auth_ok, and the denials of policy and signer: the exchange ends and
\* wakes the parked lanes, or ends them.
AuthFinished(s, ok) ==
    /\ s \in dialog
    /\ dialog' = dialog \ {s}
    /\ ready' = IF ok THEN ready \cup {s} ELSE ready
    /\ Prune
    /\ UNCHANGED <<pend, learned, conn, probe, heard, left>>
    /\ Message(<<IF ok THEN WakeAuth(s) ELSE Deny(s)>> \o Schedule)

\* An exchange that ends in error, its policy, signer or socket unavailable:
\* the parked lanes stay parked.
AuthErred(s) ==
    /\ s \in dialog
    /\ Spend("auth", 1)
    /\ dialog' = dialog \ {s}
    /\ Prune
    /\ UNCHANGED <<pend, learned, conn, probe, ready, heard>>
    /\ Message(<<>>)

\* on_auth_capability_invalidated: the policy or signer a session used is gone.
AuthCapabilityInvalidated(s) ==
    /\ s \in dialog \cup ready
    /\ Spend("auth", 1)
    /\ dialog' = dialog \ {s}
    /\ ready' = ready \ {s}
    /\ Prune
    /\ UNCHANGED <<pend, learned, conn, probe, heard>>
    /\ Message(Invalidate(s))

\* on_auth_probe_released: the bounded wait for a first challenge is over.
AuthProbeReleased(s) ==
    /\ s \in probe
    /\ probe' = probe \ {s}
    /\ Prune
    /\ UNCHANGED <<pend, learned, conn, ready, dialog, heard, left>>
    /\ Message(<<WakeAuth(s)>> \o Schedule)

(***************************************************************************)
(* Crash and boot.                                                         *)
(***************************************************************************)
Crash ==
    /\ up
    /\ Spend("crash", 1)
    /\ up' = FALSE
    /\ pend' = [i \in Intents |-> NoPending]
    /\ known' = {}
    /\ learned' = FALSE
    /\ conn' = {} /\ probe' = {} /\ required' = {} /\ ready' = {}
    /\ dialog' = {} /\ heard' = {}
    /\ corr' = {}
    /\ todo' = <<>>
    /\ faulted' = FALSE
    /\ UNCHANGED <<store, wire>>

\* recover_on_boot: the pending writes are rebuilt from the open intents, the
\* signed ones get their routes and lanes back, the due deadlines are consumed
\* (an attempt reclaimed at boot is eligible at once), the scheduler runs and
\* every write that had finished is closed.
Boot(D) ==
    LET open == {i \in Intents : intent[i] # "None"}
        signed == {i \in open : intent[i] = "Signed"}
        first == InKeyOrder(signed)
        last == InKeyOrder(open)
    IN  /\ ~ up
        /\ \A k \in D : HasDeadline(k)
        /\ up' = TRUE
        /\ pend' = [i \in Intents |->
                       [NoPending EXCEPT !.on = i \in open,
                                         !.signed = i \in signed]]
        /\ UNCHANGED <<store, known, learned, links, required, corr, wire,
                       faulted, left>>
        /\ Do([n \in DOMAIN first |-> BootRoute(first[n])]
                 \o <<Due(D \cup {k \in LaneKeys :
                             lane[k].st = "AwaitingHandoff"})>>
                 \o Schedule \o [n \in DOMAIN last |-> Close(last[n])])

-----------------------------------------------------------------------------
\* The application stays what it is.
Steady == UNCHANGED app

Next ==
    \/ HandlerStep
    \/ \E i \in Intents :
        \/ Publish(i)
        \/ \E ok \in BOOLEAN : SignerCompleted(i, ok)
        \/ SignerUnavailable(i)
        \/ CancelWrite(i)
    \/ \E pk \in Authors : SignerAttached(pk)
    \/ AuthorRoutesLearned
    \/ \E D \in SUBSET LaneKeys : Tick(D)
    \/ \E c \in corr : TransportWrite(c)
    \/ \E c \in corr, result \in Handoffs, ok \in BOOLEAN :
            EventHandoff(c, result, ok)
    \/ \E k \in LaneKeys,
          class \in {"Answered", "Transient", "AuthRequired"} :
            RelayOk(k, class)
    \/ \E s \in Sessions :
        \/ RelayConnected(s)
        \/ RelayDisconnected(s)
        \/ \E ok \in BOOLEAN : AuthChallenge(s, ok) \/ AuthFinished(s, ok)
        \/ AuthRestricted(s)
        \/ AuthErred(s)
        \/ AuthCapabilityInvalidated(s)
        \/ AuthProbeReleased(s)
    \/ Crash
    \/ \E D \in SUBSET LaneKeys : Boot(D)

Spec == Init /\ [][Steady /\ Next]_<<vars, app>>

(***************************************************************************)
(* Fairness.  A handler runs to its end, and a process that died is started*)
(* again.  A deadline that stays armed is handled: the runtime's timer is  *)
(* set to the earliest one.  The transport reports every attempt it was    *)
(* given, and redials a relay that is wanted.  The AUTH probe is a bounded *)
(* wait, and the discovery of the author's routes ends.  Of the relay it   *)
(* is assumed that it challenges a session it guards, at once or, if it is *)
(* Lazy, when an EVENT reached it on this connection, and that it answers  *)
(* an AUTH, for which the engine has no timeout, but not that it answers   *)
(* an event.                                                               *)
(* Weak fairness is enough, as each of these stays enabled between         *)
(* handlers until it happens or is no longer needed.                       *)
(***************************************************************************)
\* The relay of this session has cause to challenge it.
Provoked(s) == s \in Lazy => \E k \in heard : Session(k) = s

LaneFairness(k) ==
    /\ WF_vars(Steady /\ \E D \in SUBSET LaneKeys : k \in D /\ Tick(D))
    /\ WF_vars(Steady /\ \E c \in corr, result \in Handoffs, ok \in BOOLEAN :
                        c.key = k /\ EventHandoff(c, result, ok))

SessionFairness(s) ==
    /\ WF_vars(Steady /\ RelayConnected(s))
    /\ WF_vars(Steady /\ AuthProbeReleased(s))
    /\ WF_vars(Steady /\ s \notin dialog \cup ready /\ Provoked(s) /\ AuthChallenge(s, TRUE))
    /\ WF_vars(Steady /\ \E ok \in BOOLEAN : AuthFinished(s, ok))

FairSpec ==
    /\ Spec
    /\ WF_vars(Steady /\ HandlerStep)
    /\ WF_vars(Steady /\ \E D \in SUBSET LaneKeys : Boot(D))
    /\ WF_vars(Steady /\ AuthorRoutesLearned)
    /\ \A k \in LaneKeys : LaneFairness(k)
    /\ \A s \in Sessions : SessionFairness(s)

-----------------------------------------------------------------------------
\* Every variable holds a value of its kind.
TypeOK ==
    /\ intent \in [Intents -> {"None", "AwaitingSigner", "Pending", "Signed"}]
    /\ receipt \in [Intents -> {"None", "Accepted", "Signed", "Compensated",
                                "Cancelled", "Superseded", "NotSent",
                                "NoDestination"}]
    /\ routes \in [Intents -> SUBSET Relays]
    /\ lane \in [LaneKeys -> [st : LaneStates, out : Outcomes \cup {"None"}]]
    /\ \A k \in LaneKeys : \A o \in 1 .. Ordinal(k) :
          att[k][o] \in [handoff : Handoffs \cup {"None"},
                         end : Ends \cup {"None"}]
    /\ up \in BOOLEAN /\ learned \in BOOLEAN /\ faulted \in BOOLEAN
    /\ pend \in [Intents -> [on : BOOLEAN, signed : BOOLEAN, asking : BOOLEAN,
                             routed : SUBSET Relays, complete : BOOLEAN]]
    /\ \A K \in {known, heard, wire} : K \subseteq LaneKeys
    /\ \A S \in {conn, probe, required, ready, dialog} :
          S \subseteq Sessions
    /\ \A c \in corr : c.key \in LaneKeys /\ c.ord \in Nat \ {0}

\* schedule_ready never has two attempts in flight at one relay, nor more than
\* the global cap, whichever handlers, crashes and boots interleave.
CapsHold ==
    /\ \A k, l \in LaneKeys :
          k # l /\ k[2] = l[2] /\ lane[k].st \in InFlight =>
              lane[l].st \notin InFlight
    /\ Cardinality({k \in LaneKeys : lane[k].st \in InFlight}) =< MaxGlobal

\* A lane is in flight exactly while its last attempt runs, and no earlier
\* attempt does: bootstrap never meets the contradictory history on which it
\* refuses to build lanes, which would keep the intent from every later boot.
LedgerSound ==
    \A k \in LaneKeys :
        /\ lane[k].st \in InFlight <=>
               Ordinal(k) > 0 /\ Runs(att[k][Ordinal(k)])
        /\ ~ ContradictoryHistory(k)

\* A settled write has a terminal lane at every relay a complete resolution
\* names, those learned while it was under way or while the process was down
\* included: "the destination set is CLOSED and every relay in it is terminal".
SettledEverywhere ==
    \A i \in Intents : receipt[i] = "Signed" /\ intent[i] = "None" =>
        \A r \in Plan[i] : lane[<<i, r>>].st = "Terminal"

\* Only a write for which a complete resolution names nobody is reported as
\* having no destination; one whose route revision failed to commit is not.
NoDestinationIsTrue ==
    \A i \in Intents : receipt[i] = "NoDestination" => Plan[i] = {}

\* Between messages no eligible lane is left behind while its session stands
\* ungated and the caps have room: nothing but an event would start it later.
WorkConserving ==
    Idle /\ ~ faulted => \A k \in OpenLanes :
        lane[k].st = "Eligible" /\ Session(k) \in conn =>
            Gated(Session(k)) \/ Busy(k[2]) \/ Full

\* Between messages the projection of a process none of whose commits failed
\* holds every lane of every open write.
ProjectionComplete ==
    Idle /\ ~ faulted => \A i \in Intents : pend[i].on =>
        /\ LanesOf(i) = {k \in known : k[1] = i}
        /\ pend[i].routed = routes[i]
        /\ LanesOf(i) = {<<i, r>> : r \in routes[i]}

\* A lane that ended stays ended, with the same outcome, through late reports,
\* duplicate answers, deadlines and boots; only the removal of its write by a
\* superseding one takes the row away.
TerminalIsFinal ==
    [][\A k \in LaneKeys : lane[k].st = "Terminal" =>
        lane'[k] \in {lane[k], NoLane}]_vars

\* Every signed write ends: each relay answers, runs out of attempts or denies
\* authentication, or a newer write supersedes it, and the intent is closed.
\* A write is signed once, so this says that none stays open, with one
\* exception, which the code has: a demand for AUTH outlives the connection it
\* was made on, so after a reconnect the lane is parked before its EVENT is
\* sent, and a relay that challenges only in answer to an EVENT never does.  An
\* eligible lane of the same relay may be left with it: on_auth_challenge parks
\* the lane that held the relay's place and runs no scheduler, so the place
\* stays free until some other message comes.
Unprovoked(k) == lane[k].st = "WaitingAuth" /\ Session(k) \in conn /\ ~ Provoked(Session(k))

SignedSettles ==
    <>[](\A i \in Intents : intent[i] = "Signed" =>
            \E r \in Relays :
                \/ Unprovoked(<<i, r>>)
                \/ /\ lane[<<i, r>>].st = "Eligible"
                   /\ \E j \in Intents : Unprovoked(<<j, r>>))

\* The scheduler is exact: it holds its caps, leaves no lane behind that it
\* could start, and works on a projection that misses no lane.
SchedulerExact == TypeOK /\ CapsHold /\ WorkConserving /\ ProjectionComplete

\* What failed commits leave behind is still true: attempts match the lanes that
\* run them, lanes that ended stay so, and a write without a destination had none.
FaultsContained == [](LedgerSound /\ NoDestinationIsTrue) /\ TerminalIsFinal

-----------------------------------------------------------------------------
(***************************************************************************)
(* What the application sees of all this.                                  *)
(***************************************************************************)
Status(i) ==
    CASE receipt[i] = "None" -> "None"
      [] receipt[i] \in {"Cancelled", "Compensated", "NotSent",
                         "NoDestination"} -> "NotSent"
      [] receipt[i] = "Superseded" -> "Superseded"
      [] receipt[i] = "Accepted" -> "Accepted"
      [] receipt[i] = "Signed" -> IF intent[i] = "None" THEN "Settled"
                                                        ELSE "Signed"

Promise == INSTANCE WritePromise WITH
    status <- [i \in Intents |-> Status(i)],
    dest <- routes,
    verdict <- [k \in LaneKeys |-> lane[k].out],
    sent <- wire

\* The write plane keeps WritePromise: its handlers, retries, crashes and boots
\* show the application nothing but the steps of that specification.
KeepsPromise == Promise!Spec
=============================================================================
