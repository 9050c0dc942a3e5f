---------------------------- MODULE PublishQueue ----------------------------
(***************************************************************************)
(* The durable publish queue of nmp-store: the redb tables that hold a     *)
(* write from acceptance to settlement, and the store doors that change    *)
(* them.  One door is one redb write transaction, so each is one action:   *)
(* a crash leaves the state before it or the state after it.               *)
(*                                                                         *)
(* The caller is any client that may call any door with any arguments at   *)
(* any time.  What holds here therefore holds whatever the engine's        *)
(* reducer does; what needs the reducer's discipline as well is stated in  *)
(* WriteLifecycle.  A door that would return an error changes nothing, so  *)
(* its guard is the condition under which it commits.                      *)
(*                                                                         *)
(* Abstracted: event bodies and relay URLs (an intent owns one event and   *)
(* relays are model values), timestamps other than deadlines, the reason   *)
(* texts of attempts, the byte layout of keys and values.                  *)
(***************************************************************************)
EXTENDS Integers, FiniteSets

CONSTANTS
    MaxIntent,      \* intents are allocated from 1 upwards to here
    Relays,         \* relays a route may name
    MaxTime,        \* deadlines lie in 0..MaxTime
    MaxRev          \* the largest lane revision (u64::MAX in the code)

ASSUME MaxIntentAssumption == MaxIntent \in Nat
ASSUME MaxTimeAssumption == MaxTime \in Nat
ASSUME MaxRevAssumption == MaxRev \in Nat \ {0}

Intents == 1 .. MaxIntent
Times == 0 .. MaxTime
Ordinals == 1 .. MaxRev
LaneKeys == Intents \X Relays

(***************************************************************************)
(* The values a row may hold.  "None" stands for an absent row or field.   *)
(***************************************************************************)
SigStates == {"AwaitingSigner", "Pending", "Signed"}
ReceiptStates ==
    {"Accepted", "Signed", "Compensated", "Cancelled", "Superseded",
     "NoDestination"}
\* "Answered" stands for Acked and Rejected, "HandedOff" for Written and
\* Ambiguous, "Retryable" for every transient cause but AuthRequired: no door
\* tells them apart.
Outcomes == {"Answered", "GaveUp"}
Handoffs == {"NotHandedOff", "HandedOff"}
Causes == {"Retryable", "AuthRequired"}
LaneStates ==
    {"WaitingConnection", "WaitingAuth", "Eligible", "AwaitingHandoff",
     "AwaitingAck", "Transient", "Terminal"}

\* A lane row.  `at` is Eligible's `since`, Transient's `eligible_at` or
\* AwaitingAck's `deadline`; `out` is Terminal's outcome.  InFlight, Transient
\* and Terminal also carry an ordinal, which is always the row's last_ordinal.
Lanes == [state : LaneStates \cup {"None"}, rev : 0 .. MaxRev,
          last : 0 .. MaxRev, at : Times,
          out : Outcomes \cup {"None", "AuthDenied"}]
NoLane == [state |-> "None", rev |-> 0, last |-> 0, at |-> 0, out |-> "None"]
FreshLane == [state |-> "WaitingConnection", rev |-> 1, last |-> 0, at |-> 0,
              out |-> "None"]

\* An attempt row with its detail row: the two are written together.
Attempts == [row : {"None", "Started"},
             handoff : Handoffs \cup {"None"},
             transient : Causes \cup {"None"},
             terminal : Outcomes \cup {"None"}]
NoAttempt == [row |-> "None", handoff |-> "None", transient |-> "None",
              terminal |-> "None"]
Started == [NoAttempt EXCEPT !.row = "Started"]

Deadlines == [at : Times, key : LaneKeys, rev : 0 .. MaxRev,
              kind : {"RetryEligible", "AckTimeout"}]

VARIABLES
    nextIntent,   \* the intent id counter
    intents,      \* open-work rows: the signature state of an open intent
    receipts,     \* receipt rows
    routes,       \* the union of an intent's route revisions
    lanes,        \* lane rows, one per intent and relay
    attempts,     \* attempt rows of a lane, by ordinal
    deadlines     \* the deadline index

vars == <<nextIntent, intents, receipts, routes, lanes, attempts, deadlines>>

Init ==
    /\ nextIntent = 1
    /\ intents = [i \in Intents |-> "None"]
    /\ receipts = [i \in Intents |-> "None"]
    /\ routes = [i \in Intents |-> {}]
    /\ lanes = [k \in LaneKeys |-> NoLane]
    /\ attempts = [k \in LaneKeys |-> [o \in Ordinals |-> NoAttempt]]
    /\ deadlines = {}

IsOpen(i) == intents[i] # "None"
HasLane(k) == lanes[k].state # "None"
LanesOf(i) == {k \in LaneKeys : k[1] = i /\ HasLane(k)}

(***************************************************************************)
(* The deadline a lane's state implies: Transient waits for its retry      *)
(* instant, AwaitingAck for its timeout, and no other state has one.       *)
(***************************************************************************)
HasDeadline(lane) == lane.state \in {"Transient", "AwaitingAck"}

LaneDeadline(k, lane) ==
    [at |-> lane.at, key |-> k, rev |-> lane.rev,
     kind |-> IF lane.state = "Transient" THEN "RetryEligible"
                                          ELSE "AckTimeout"]

\* Variant: the rows go and their deadlines stay.
KeepIntentDeadlines(I) == deadlines

\* The index after dropping every deadline the intents of I own, derived
\* from their lane rows while those still stand.
ClearIntentDeadlines(I) ==
    {d \in deadlines : ~ \E k \in LaneKeys :
        /\ k[1] \in I
        /\ HasDeadline(lanes[k])
        /\ d.key = k /\ d.at = lanes[k].at}

\* The lane row that replaces lanes[k]: the state changes, the revision
\* advances and only starting an attempt advances the ordinal.
Advance(k, state, at, out, ordinal) ==
    [state |-> state, rev |-> lanes[k].rev + 1, last |-> ordinal,
     at |-> at, out |-> out]

\* Replace one lane row under its revision, moving its deadline row along.
ReplaceLane(k, rev, state, at, out, ordinal) ==
    LET next == Advance(k, state, at, out, ordinal)
        kept == {d \in deadlines : ~ /\ HasDeadline(lanes[k])
                                     /\ d.key = k /\ d.at = lanes[k].at}
    IN  /\ HasLane(k)
        /\ lanes[k].rev = rev
        /\ rev < MaxRev
        /\ ordinal =< lanes[k].last + 1
        /\ lanes' = [lanes EXCEPT ![k] = next]
        /\ deadlines' = kept \cup (IF HasDeadline(next)
                                   THEN {LaneDeadline(k, next)} ELSE {})

(***************************************************************************)
(* Acceptance and its end: the intent row opens with a receipt, is signed, *)
(* and goes away by compensation, cancellation, supersession or close.     *)
(***************************************************************************)

\* Whether supersession must keep a receipt for intent i: some attempt may
\* have reached a relay, or, with no attempt row at all, some lane started.
\* Only an explicit NotHandedOff proves that an attempt reached nobody.
HandoffMayHaveOccurred(attempt) == attempt.handoff # "NotHandedOff"

RetainSafetyReceipt(i) ==
    \/ \E r \in Relays, o \in Ordinals :
            /\ attempts[<<i, r>>][o].row = "Started"
            /\ HandoffMayHaveOccurred(attempts[<<i, r>>][o])
    \/ /\ \A r \in Relays, o \in Ordinals : attempts[<<i, r>>][o].row = "None"
       /\ \E k \in LanesOf(i) : lanes[k].last # 0

\* remove_publish_queue_entry_in_txn, of every intent of `gone`: the routes,
\* lanes and attempts they retained go together, with the deadlines of those
\* lanes and of the lanes of `closed`.
Reclaim(gone, closed) ==
    /\ routes' = [j \in Intents |-> IF j \in gone THEN {} ELSE routes[j]]
    /\ lanes' = [k \in LaneKeys |-> IF k[1] \in gone THEN NoLane
                                    ELSE lanes[k]]
    /\ attempts' = [k \in LaneKeys |->
                       IF k[1] \in gone THEN [o \in Ordinals |-> NoAttempt]
                       ELSE attempts[k]]
    /\ deadlines' = ClearIntentDeadlines(gone \cup closed)

\* The entries maintain_terminal_receipts_in_txn may evict: receipts whose
\* intent is no longer open.  Count, bytes and age choose a prefix of them in
\* the code and are abstracted to any subset; the receipt the transaction
\* itself ends is the newest and stays.
Retained == {j \in Intents : receipts[j] # "None" /\ ~ IsOpen(j)}

\* accept_write: journal a new intent and its receipt; the open intents of
\* `retired` own the row this write supersedes, and lose all their rows.  A
\* duplicate of an event that already carries its signature supersedes
\* nothing and is born signed.  The sweep ends the transaction.
AcceptWrite(i, sig, retired, swept) ==
    /\ i = nextIntent
    /\ \A j \in retired : IsOpen(j)
    /\ sig = "Signed" => retired = {}
    /\ swept \subseteq Retained
    /\ nextIntent' = i + 1
    /\ intents' = [j \in Intents |-> IF j = i THEN sig
                                     ELSE IF j \in retired THEN "None"
                                     ELSE intents[j]]
    /\ receipts' = [j \in Intents |->
                       IF j = i
                       THEN IF sig = "Signed" THEN "Signed" ELSE "Accepted"
                       ELSE IF j \in swept THEN "None"
                       ELSE IF j \notin retired THEN receipts[j]
                       ELSE IF RetainSafetyReceipt(j) THEN "Superseded"
                       ELSE "None"]
    /\ Reclaim(retired \cup swept, {})

\* promote_signed: the open intent takes its verified signature, and
\* fan_out_signed_in_txn gives the same signature to every other owner of the
\* event's row that is still open and unsigned, in the same transaction.
PromoteSigned(i, owners) ==
    LET signing == {j \in owners \cup {i} : IsOpen(j) /\ intents[j] # "Signed"}
    IN  /\ i \in signing
        /\ intents' = [j \in Intents |-> IF j \in signing THEN "Signed"
                                                        ELSE intents[j]]
        /\ receipts' = [j \in Intents |-> IF j \in signing THEN "Signed"
                                                         ELSE receipts[j]]
        /\ UNCHANGED <<nextIntent, routes, lanes, attempts, deadlines>>

\* compensate_write and cancel_write: an unsigned intent ends; a signed one
\* is never retracted.
CompensateWrite(i, terminal, swept) ==
    /\ IsOpen(i)
    /\ intents[i] # "Signed"
    /\ swept \subseteq Retained
    /\ intents' = [intents EXCEPT ![i] = "None"]
    /\ receipts' = [j \in Intents |-> IF j = i THEN terminal
                                      ELSE IF j \in swept THEN "None"
                                      ELSE receipts[j]]
    /\ Reclaim(swept, {})
    /\ UNCHANGED nextIntent

\* close_terminal_intent: the open row goes once every lane is terminal; the
\* lanes and attempts stay as evidence.
CloseTerminalIntent(i, swept) ==
    /\ IsOpen(i)
    /\ LanesOf(i) # {}
    /\ \A k \in LanesOf(i) : lanes[k].state = "Terminal"
    /\ swept \subseteq Retained
    /\ intents' = [intents EXCEPT ![i] = "None"]
    /\ receipts' = [j \in Intents |-> IF j \in swept THEN "None"
                                      ELSE receipts[j]]
    /\ Reclaim(swept, {i})
    /\ UNCHANGED nextIntent

\* close_unroutable_intent: the open row of an intent that owns no lane goes,
\* and its receipt says why.
CloseUnroutableIntent(i, swept) ==
    /\ IsOpen(i)
    /\ LanesOf(i) = {}
    /\ swept \subseteq Retained
    /\ intents' = [intents EXCEPT ![i] = "None"]
    /\ receipts' = [j \in Intents |-> IF j = i THEN "NoDestination"
                                      ELSE IF j \in swept THEN "None"
                                      ELSE receipts[j]]
    /\ Reclaim(swept, {i})
    /\ UNCHANGED nextIntent

\* remove_publish_queue_entry, called by the application, and the sweep the
\* clock calls: closed intents' receipts and every row they retained go.
RemoveEntries(gone) ==
    /\ gone # {}
    /\ gone \subseteq Retained
    /\ receipts' = [j \in Intents |-> IF j \in gone THEN "None"
                                      ELSE receipts[j]]
    /\ Reclaim(gone, {})
    /\ UNCHANGED <<nextIntent, intents>>

(***************************************************************************)
(* Routes and lanes.                                                       *)
(***************************************************************************)

\* record_route_revision: append the relays one resolution named.
RecordRouteRevision(i, relays) ==
    /\ IsOpen(i)
    /\ routes' = [routes EXCEPT ![i] = @ \cup relays]
    /\ UNCHANGED <<nextIntent, intents, receipts, lanes, attempts, deadlines>>

\* An attempt is live until some evidence of its end is recorded.
AttemptIsLive(attempt) ==
    /\ attempt.row = "Started"
    /\ attempt.terminal = "None"
    /\ attempt.transient = "None"
    /\ attempt.handoff # "NotHandedOff"

LiveAttempts(k) == {o \in Ordinals : AttemptIsLive(attempts[k][o])}

\* The attempt history bootstrap refuses to build lanes on: two live
\* attempts, or a live attempt that is not the last one.
ContradictoryLiveHistory(k) ==
    \E o \in LiveAttempts(k) :
        \E p \in Ordinals : attempts[k][p].row = "Started" /\ p > o

\* bootstrap_publish_queue_lanes: every routed relay without a lane gets one.
BootstrapLanes(i) ==
    /\ IsOpen(i)
    /\ \A r \in routes[i] : ~ ContradictoryLiveHistory(<<i, r>>)
    /\ lanes' = [k \in LaneKeys |->
                    IF k[1] = i /\ k[2] \in routes[i] /\ ~ HasLane(k)
                    THEN FreshLane ELSE lanes[k]]
    /\ UNCHANGED <<nextIntent, intents, receipts, routes, attempts, deadlines>>

\* set_lane_waiting and set_lane_eligible (persist_lane_state): only these
\* two doors ask that the intent still be open.
SetLaneWaiting(k, rev, auth) ==
    /\ IsOpen(k[1])
    /\ ReplaceLane(k, rev, IF auth THEN "WaitingAuth" ELSE "WaitingConnection",
                   0, "None", lanes[k].last)
    /\ UNCHANGED <<nextIntent, intents, receipts, routes, attempts>>

SetLaneEligible(k, rev, since) ==
    /\ IsOpen(k[1])
    /\ ReplaceLane(k, rev, "Eligible", since, "None", lanes[k].last)
    /\ UNCHANGED <<nextIntent, intents, receipts, routes, attempts>>

\* One attempt row, and its detail row, written over.
SetAttempt(k, ordinal, attempt) ==
    attempts' = [attempts EXCEPT ![k] = [@ EXCEPT ![ordinal] = attempt]]
HasAttemptRow(k, ordinal) ==
    ordinal \in Ordinals /\ attempts[k][ordinal].row = "Started"

\* set_lane_transient: the attempt failed and may be retried at eligibleAt.
SetLaneTransient(k, rev, ordinal, eligibleAt, cause) ==
    /\ lanes[k].last = ordinal
    /\ \/ ordinal = 0 /\ UNCHANGED attempts
       \/ /\ HasAttemptRow(k, ordinal)
          /\ SetAttempt(k, ordinal,
                        [attempts[k][ordinal] EXCEPT !.transient = cause])
    /\ ReplaceLane(k, rev, "Transient", eligibleAt, "None", ordinal)
    /\ UNCHANGED <<nextIntent, intents, receipts, routes>>

\* suspend_lane_attempt: the attempt ended without a verdict and the lane
\* waits for authentication or a connection.
SuspendLaneAttempt(k, rev, ordinal, cause, auth) ==
    /\ lanes[k].last = ordinal
    /\ HasAttemptRow(k, ordinal)
    /\ SetAttempt(k, ordinal,
                  [attempts[k][ordinal] EXCEPT !.transient = cause])
    /\ ReplaceLane(k, rev, IF auth THEN "WaitingAuth" ELSE "WaitingConnection",
                   0, "None", ordinal)
    /\ UNCHANGED <<nextIntent, intents, receipts, routes>>

\* start_lane_attempt: a signed intent's eligible lane mints the next ordinal.
StartLaneAttempt(k, rev) ==
    LET ordinal == lanes[k].last + 1
    IN  /\ intents[k[1]] = "Signed"
        /\ lanes[k].state = "Eligible"
        /\ ordinal \in Ordinals
        /\ SetAttempt(k, ordinal, Started)
        /\ ReplaceLane(k, rev, "AwaitingHandoff", 0, "None", ordinal)
        /\ UNCHANGED <<nextIntent, intents, receipts, routes>>

\* record_lane_handoff: what the transport did with the attempt's bytes, and
\* the state that follows.  The reducer asks for WaitingConnection after
\* NotHandedOff and for AwaitingAck otherwise; the door allows any pairing.
RecordLaneHandoff(k, rev, ordinal, handoff, next, at, out) ==
    /\ lanes[k].last = ordinal
    /\ lanes[k].state = "AwaitingHandoff"
    /\ HasAttemptRow(k, ordinal)
    /\ attempts[k][ordinal].handoff \in {"None", handoff}
    /\ \/ /\ next = "Terminal"
          /\ out \in Outcomes
          /\ SetAttempt(k, ordinal,
                        [attempts[k][ordinal] EXCEPT !.handoff = handoff,
                                                     !.terminal = out])
       \/ /\ next \in {"WaitingConnection", "AwaitingAck", "Transient"}
          /\ out = "None"
          /\ SetAttempt(k, ordinal,
                        [attempts[k][ordinal] EXCEPT !.handoff = handoff])
    /\ ReplaceLane(k, rev, next, at, out, ordinal)
    /\ UNCHANGED <<nextIntent, intents, receipts, routes>>

\* Variant: a second verdict is accepted.
FinishLaneAgain(k, rev, ordinal, outcome) ==
    /\ lanes[k].last = ordinal
    /\ HasAttemptRow(k, ordinal)
    /\ SetAttempt(k, ordinal,
                  [attempts[k][ordinal] EXCEPT !.terminal = outcome])
    /\ ReplaceLane(k, rev, "Terminal", 0, outcome, ordinal)
    /\ UNCHANGED <<nextIntent, intents, receipts, routes>>

\* finish_lane_attempt: the terminal verdict of an attempt that has none.
FinishLaneAttempt(k, rev, ordinal, outcome) ==
    /\ lanes[k].last = ordinal
    /\ HasAttemptRow(k, ordinal)
    /\ attempts[k][ordinal].terminal = "None"
    /\ SetAttempt(k, ordinal,
                  [attempts[k][ordinal] EXCEPT !.terminal = outcome])
    /\ ReplaceLane(k, rev, "Terminal", 0, outcome, ordinal)
    /\ UNCHANGED <<nextIntent, intents, receipts, routes>>

\* deny_lane_auth: a lane parked on authentication ends without an attempt.
DenyLaneAuth(k, rev) ==
    /\ lanes[k].state = "WaitingAuth"
    /\ ReplaceLane(k, rev, "Terminal", 0, "AuthDenied", lanes[k].last)
    /\ UNCHANGED <<nextIntent, intents, receipts, routes, attempts>>

(***************************************************************************)
(* Any client: every door, with every argument.                            *)
(***************************************************************************)
IntentDoor(i) ==
    \/ \E sig \in SigStates, R \in SUBSET Intents, S \in SUBSET Retained :
            AcceptWrite(i, sig, R, S)
    \/ \E owners \in SUBSET Intents : PromoteSigned(i, owners)
    \/ \E terminal \in {"Compensated", "Cancelled"}, S \in SUBSET Retained :
            CompensateWrite(i, terminal, S)
    \/ \E S \in SUBSET Retained : CloseTerminalIntent(i, S)
    \/ \E S \in SUBSET Retained : CloseUnroutableIntent(i, S)
    \/ \E relays \in SUBSET Relays : RecordRouteRevision(i, relays)
    \/ BootstrapLanes(i)

\* The lane doors; each one refuses a call under any revision but the lane's.
LaneDoor(k, rev) ==
    /\ lanes[k].rev = rev
    /\ \/ \E auth \in BOOLEAN : SetLaneWaiting(k, rev, auth)
       \/ \E t \in Times : SetLaneEligible(k, rev, t)
       \/ \E o \in 0 .. MaxRev, t \in Times, c \in Causes :
               SetLaneTransient(k, rev, o, t, c)
       \/ \E o \in Ordinals, c \in Causes, auth \in BOOLEAN :
               SuspendLaneAttempt(k, rev, o, c, auth)
       \/ StartLaneAttempt(k, rev)
       \/ \E o \in Ordinals, h \in Handoffs, s \in LaneStates, t \in Times,
             out \in Outcomes \cup {"None"} :
               RecordLaneHandoff(k, rev, o, h, s, t, out)
       \/ \E o \in Ordinals, out \in Outcomes : FinishLaneAttempt(k, rev, o, out)
       \/ DenyLaneAuth(k, rev)

Next ==
    \/ \E i \in Intents : IntentDoor(i)
    \/ \E gone \in SUBSET Retained : RemoveEntries(gone)
    \/ \E k \in LaneKeys, rev \in 0 .. MaxRev : LaneDoor(k, rev)

Spec == Init /\ [][Next]_vars

-----------------------------------------------------------------------------
\* Every table holds well-formed rows.
TypeOK ==
    /\ nextIntent \in 1 .. MaxIntent + 1
    /\ intents \in [Intents -> SigStates \cup {"None"}]
    /\ receipts \in [Intents -> ReceiptStates \cup {"None"}]
    /\ routes \in [Intents -> SUBSET Relays]
    /\ lanes \in [LaneKeys -> Lanes]
    /\ attempts \in [LaneKeys -> [Ordinals -> Attempts]]
    /\ deadlines \in SUBSET Deadlines

\* The deadline index is exactly what the lane rows imply: no lane's deadline
\* is missing, and no row is left that no lane names at its revision, kind and
\* instant, which due_publish_queue_deadlines reports as corruption and which
\* stops every deadline of the queue.
DeadlineExact ==
    deadlines = {LaneDeadline(k, lanes[k]) :
                    k \in {l \in LaneKeys : HasDeadline(lanes[l])}}

\* The attempt rows of a lane are those of ordinals 1..last_ordinal: starting
\* an attempt never reuses an ordinal, skips one, or survives its lane.
AttemptLedger ==
    \A k \in LaneKeys :
        /\ lanes[k].last =< lanes[k].rev
        /\ \A o \in Ordinals :
            attempts[k][o].row = "Started" <=> o =< lanes[k].last

\* A lane that ended with a relay's verdict, or by giving up, has that same
\* verdict on its last attempt: close_terminal_intent and reattachment read
\* the one, the receipt the other.
TerminalEvidence ==
    \A k \in LaneKeys :
        lanes[k].state = "Terminal" /\ lanes[k].out \in Outcomes =>
            /\ lanes[k].last \in Ordinals
            /\ attempts[k][lanes[k].last].terminal = lanes[k].out

\* No row outlives its receipt: removal, eviction and retirement reclaim the
\* routes, lanes, attempts and deadlines of an intent together, and an open
\* intent always has a receipt.
NoOrphanRows ==
    \A i \in Intents :
        receipts[i] = "None" =>
            /\ ~ IsOpen(i)
            /\ routes[i] = {}
            /\ \A r \in Relays : ~ HasLane(<<i, r>>)
            /\ \A d \in deadlines : d.key[1] # i

\* Evidence is written once: while an attempt row stands, its handoff result
\* and its terminal verdict are never overwritten, whatever door runs.
EvidenceWrittenOnce ==
    [][\A k \in LaneKeys, o \in Ordinals :
        attempts[k][o].row = "Started" /\ attempts'[k][o].row = "Started" =>
            /\ attempts[k][o].handoff # "None" =>
                    attempts'[k][o].handoff = attempts[k][o].handoff
            /\ attempts[k][o].terminal # "None" =>
                    attempts'[k][o].terminal = attempts[k][o].terminal]_vars

\* A receipt whose intent is no longer open keeps its final state until the
\* whole entry is removed, and a signed write never becomes compensated or
\* cancelled.
ReceiptFinal ==
    [][\A i \in Intents :
        /\ receipts[i] # "None" /\ ~ IsOpen(i) =>
               receipts'[i] \in {receipts[i], "None"}
        /\ receipts[i] = "Signed" =>
               receipts'[i] \notin {"Accepted", "Compensated", "Cancelled"}]_vars

\* The queue's tables agree with each other, whatever doors a client calls and
\* in whatever order: rows are well formed, deadlines are those the lanes
\* imply, attempts those the lanes count, verdicts those of the attempts, and
\* nothing outlives its receipt.
QueueExact == TypeOK /\ DeadlineExact /\ AttemptLedger /\ TerminalEvidence /\ NoOrphanRows

\* No door rewrites history: neither an attempt's evidence nor a final receipt.
HistoryKept == EvidenceWrittenOnce /\ ReceiptFinal

=============================================================================
