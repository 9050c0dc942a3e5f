------------------------- MODULE PublishQueueProofs -------------------------
(***************************************************************************)
(* What the store's doors guarantee to any client, for every number of     *)
(* intents, relays, instants and revisions.                                *)
(***************************************************************************)
EXTENDS PublishQueue, TLAPS

\* Typing of the row that replaces a lane.
LEMMA AdvanceType ==
    ASSUME TypeOK, NEW k \in LaneKeys, NEW rev \in 0 .. MaxRev,
           NEW s \in LaneStates, NEW at \in Times,
           NEW out \in Outcomes \cup {"None", "AuthDenied"},
           NEW o \in 0 .. MaxRev,
           ReplaceLane(k, rev, s, at, out, o)
    PROVE  /\ Advance(k, s, at, out, o) \in Lanes
           /\ lanes' \in [LaneKeys -> Lanes]
           /\ deadlines' \in SUBSET Deadlines
<1> DEFINE next == Advance(k, s, at, out, o)
<1>1. next \in Lanes
  BY MaxRevAssumption DEF ReplaceLane, Advance, TypeOK, Lanes
<1>2. lanes' \in [LaneKeys -> Lanes]
  BY <1>1 DEF ReplaceLane, TypeOK
<1>3. HasDeadline(next) => LaneDeadline(k, next) \in Deadlines
  BY <1>1 DEF HasDeadline, LaneDeadline, Deadlines, Lanes
<1>4. deadlines' \in SUBSET Deadlines
  BY <1>3 DEF ReplaceLane, TypeOK
<1> QED BY <1>1, <1>2, <1>4

\* Typing of one attempt row written over.
LEMMA SetAttemptType ==
    ASSUME TypeOK, NEW k \in LaneKeys, NEW o \in Ordinals,
           NEW a \in Attempts, SetAttempt(k, o, a)
    PROVE  attempts' \in [LaneKeys -> [Ordinals -> Attempts]]
BY DEF SetAttempt, TypeOK

\* Typing of the tables after some intents' rows are reclaimed.
LEMMA ReclaimType ==
    ASSUME TypeOK, NEW gone, NEW closed, Reclaim(gone, closed)
    PROVE  /\ routes' \in [Intents -> SUBSET Relays]
           /\ lanes' \in [LaneKeys -> Lanes]
           /\ attempts' \in [LaneKeys -> [Ordinals -> Attempts]]
           /\ deadlines' \in SUBSET Deadlines
<1>1. routes' \in [Intents -> SUBSET Relays]
  BY DEF Reclaim, TypeOK
<1>2. lanes' \in [LaneKeys -> Lanes]
  <2>1. NoLane \in Lanes
    BY MaxRevAssumption, MaxTimeAssumption DEF NoLane, Lanes, Times
  <2> QED BY <2>1 DEF Reclaim, TypeOK
<1>3. attempts' \in [LaneKeys -> [Ordinals -> Attempts]]
  <2>1. NoAttempt \in Attempts
    BY DEF NoAttempt, Attempts
  <2> QED BY <2>1 DEF Reclaim, TypeOK
<1>4. deadlines' \in SUBSET Deadlines
  BY DEF Reclaim, TypeOK, ClearIntentDeadlines
<1> QED BY <1>1, <1>2, <1>3, <1>4

\* No door of the store leaves a malformed row in any table.
THEOREM Typing == Spec => []TypeOK
<1>1. Init => TypeOK
  BY MaxIntentAssumption, MaxRevAssumption, MaxTimeAssumption
  DEF Init, TypeOK, Intents, LaneKeys, NoLane, Lanes, NoAttempt, Attempts,
      Times, Deadlines
<1>2. TypeOK /\ [Next]_vars => TypeOK'
  <2> SUFFICES ASSUME TypeOK, [Next]_vars PROVE TypeOK'
    OBVIOUS
  <2>0. CASE UNCHANGED vars
    BY <2>0 DEF TypeOK, vars
  <2>1. CASE \E i \in Intents : IntentDoor(i)
    <3> PICK i \in Intents : IntentDoor(i)
      BY <2>1
    <3>1. ASSUME NEW sig \in SigStates, NEW R \in SUBSET Intents,
                 NEW S \in SUBSET Retained, AcceptWrite(i, sig, R, S)
          PROVE  TypeOK'
      <4>1. /\ nextIntent' \in 1 .. MaxIntent + 1
            /\ intents' \in [Intents -> SigStates \cup {"None"}]
            /\ receipts' \in [Intents -> ReceiptStates \cup {"None"}]
        BY <3>1, MaxIntentAssumption
        DEF AcceptWrite, TypeOK, ReceiptStates, Intents
      <4> QED BY <4>1, <3>1, ReclaimType DEF AcceptWrite, TypeOK
    <3>2. ASSUME NEW owners \in SUBSET Intents, PromoteSigned(i, owners)
          PROVE  TypeOK'
      BY <3>2 DEF PromoteSigned, TypeOK, SigStates, ReceiptStates
    <3>3. ASSUME NEW t \in {"Compensated", "Cancelled"},
                 NEW S \in SUBSET Retained, CompensateWrite(i, t, S)
          PROVE  TypeOK'
      BY <3>3, ReclaimType DEF CompensateWrite, TypeOK, SigStates, ReceiptStates
    <3>4. ASSUME NEW S \in SUBSET Retained, CloseTerminalIntent(i, S)
          PROVE  TypeOK'
      BY <3>4, ReclaimType DEF CloseTerminalIntent, TypeOK, SigStates, ReceiptStates
    <3>5. ASSUME NEW S \in SUBSET Retained, CloseUnroutableIntent(i, S)
          PROVE  TypeOK'
      BY <3>5, ReclaimType
      DEF CloseUnroutableIntent, TypeOK, SigStates, ReceiptStates
    <3>7. ASSUME NEW rs \in SUBSET Relays, RecordRouteRevision(i, rs)
          PROVE  TypeOK'
      BY <3>7 DEF RecordRouteRevision, TypeOK
    <3>8. CASE BootstrapLanes(i)
      BY <3>8, MaxRevAssumption, MaxTimeAssumption
      DEF BootstrapLanes, TypeOK, FreshLane, Lanes, LaneStates, Times
    <3> QED BY <3>1, <3>2, <3>3, <3>4, <3>5, <3>7, <3>8 DEF IntentDoor
  <2>2. CASE \E k \in LaneKeys, rev \in 0 .. MaxRev : LaneDoor(k, rev)
    <3> PICK k \in LaneKeys, rev \in 0 .. MaxRev : LaneDoor(k, rev)
      BY <2>2
    <3>0. lanes[k].last \in 0 .. MaxRev /\ Ordinals \subseteq 0 .. MaxRev
      BY DEF TypeOK, Lanes, Ordinals
    <3>1. ASSUME NEW auth \in BOOLEAN, SetLaneWaiting(k, rev, auth)
          PROVE  TypeOK'
      <4> DEFINE s == IF auth THEN "WaitingAuth" ELSE "WaitingConnection"
      <4>1. s \in LaneStates /\ 0 \in Times
        BY MaxTimeAssumption DEF LaneStates, Times
      <4>2. ReplaceLane(k, rev, s, 0, "None", lanes[k].last)
        BY <3>1 DEF SetLaneWaiting
      <4> HIDE DEF s
      <4>3. lanes' \in [LaneKeys -> Lanes] /\ deadlines' \in SUBSET Deadlines
        BY <4>1, <4>2, <3>0, AdvanceType
      <4> QED BY <4>3, <3>1 DEF SetLaneWaiting, TypeOK
    <3>2. ASSUME NEW t \in Times, SetLaneEligible(k, rev, t)
          PROVE  TypeOK'
      <4>1. ReplaceLane(k, rev, "Eligible", t, "None", lanes[k].last)
        BY <3>2 DEF SetLaneEligible
      <4>2. lanes' \in [LaneKeys -> Lanes] /\ deadlines' \in SUBSET Deadlines
        BY <4>1, <3>0, AdvanceType DEF LaneStates
      <4> QED BY <4>2, <3>2 DEF SetLaneEligible, TypeOK
    <3>3. ASSUME NEW o \in 0 .. MaxRev, NEW t \in Times, NEW c \in Causes,
                 SetLaneTransient(k, rev, o, t, c)
          PROVE  TypeOK'
      <4>1. ReplaceLane(k, rev, "Transient", t, "None", o)
        BY <3>3 DEF SetLaneTransient
      <4>2. lanes' \in [LaneKeys -> Lanes] /\ deadlines' \in SUBSET Deadlines
        BY <4>1, AdvanceType DEF LaneStates
      <4>3. attempts' \in [LaneKeys -> [Ordinals -> Attempts]]
        <5>1. CASE UNCHANGED attempts
          BY <5>1 DEF TypeOK
        <5>2. CASE HasAttemptRow(k, o)
                   /\ SetAttempt(k, o, [attempts[k][o] EXCEPT !.transient = c])
          <6>1. o \in Ordinals /\ attempts[k][o] \in Attempts
            BY <5>2 DEF HasAttemptRow, TypeOK
          <6>2. [attempts[k][o] EXCEPT !.transient = c] \in Attempts
            BY <6>1 DEF Attempts
          <6> QED BY <5>2, <6>1, <6>2, SetAttemptType
        <5> QED BY <3>3, <5>1, <5>2 DEF SetLaneTransient
      <4> QED BY <4>2, <4>3, <3>3 DEF SetLaneTransient, TypeOK
    <3>4. ASSUME NEW o \in Ordinals, NEW c \in Causes, NEW auth \in BOOLEAN,
                 SuspendLaneAttempt(k, rev, o, c, auth)
          PROVE  TypeOK'
      <4> DEFINE s == IF auth THEN "WaitingAuth" ELSE "WaitingConnection"
      <4>1. s \in LaneStates /\ 0 \in Times
        BY MaxTimeAssumption DEF LaneStates, Times
      <4>2. ReplaceLane(k, rev, s, 0, "None", o)
        BY <3>4 DEF SuspendLaneAttempt
      <4> HIDE DEF s
      <4>3. lanes' \in [LaneKeys -> Lanes] /\ deadlines' \in SUBSET Deadlines
        BY <4>1, <4>2, <3>0, AdvanceType
      <4>4. attempts' \in [LaneKeys -> [Ordinals -> Attempts]]
        <5>1. attempts[k][o] \in Attempts
          BY DEF TypeOK
        <5>2. [attempts[k][o] EXCEPT !.transient = c] \in Attempts
          BY <5>1 DEF Attempts
        <5> QED BY <3>4, <5>2, SetAttemptType DEF SuspendLaneAttempt
      <4> QED BY <4>3, <4>4, <3>4 DEF SuspendLaneAttempt, TypeOK
    <3>5. CASE StartLaneAttempt(k, rev)
      <4>1. ReplaceLane(k, rev, "AwaitingHandoff", 0, "None", lanes[k].last + 1)
            /\ lanes[k].last + 1 \in Ordinals
        BY <3>5 DEF StartLaneAttempt
      <4>2. lanes' \in [LaneKeys -> Lanes] /\ deadlines' \in SUBSET Deadlines
        BY <4>1, <3>0, AdvanceType, MaxTimeAssumption DEF LaneStates, Times
      <4>3. attempts' \in [LaneKeys -> [Ordinals -> Attempts]]
        <5>1. Started \in Attempts
          BY DEF Started, NoAttempt, Attempts
        <5> QED BY <3>5, <4>1, <5>1, SetAttemptType DEF StartLaneAttempt
      <4> QED BY <4>2, <4>3, <3>5 DEF StartLaneAttempt, TypeOK
    <3>6. ASSUME NEW o \in Ordinals, NEW h \in Handoffs, NEW s \in LaneStates,
                 NEW t \in Times, NEW out \in Outcomes \cup {"None"},
                 RecordLaneHandoff(k, rev, o, h, s, t, out)
          PROVE  TypeOK'
      <4>1. ReplaceLane(k, rev, s, t, out, o)
        BY <3>6 DEF RecordLaneHandoff
      <4>2. lanes' \in [LaneKeys -> Lanes] /\ deadlines' \in SUBSET Deadlines
        BY <4>1, <3>0, AdvanceType
      <4>3. attempts' \in [LaneKeys -> [Ordinals -> Attempts]]
        <5>1. attempts[k][o] \in Attempts
          BY DEF TypeOK
        <5>2. [attempts[k][o] EXCEPT !.handoff = h] \in Attempts
          BY <5>1 DEF Attempts
        <5>3. out \in Outcomes =>
                [attempts[k][o] EXCEPT !.handoff = h, !.terminal = out]
                    \in Attempts
          BY <5>1 DEF Attempts
        <5> QED BY <3>6, <5>2, <5>3, SetAttemptType DEF RecordLaneHandoff
      <4> QED BY <4>2, <4>3, <3>6 DEF RecordLaneHandoff, TypeOK
    <3>7. ASSUME NEW o \in Ordinals, NEW out \in Outcomes,
                 FinishLaneAttempt(k, rev, o, out)
          PROVE  TypeOK'
      <4>1. ReplaceLane(k, rev, "Terminal", 0, out, o)
        BY <3>7 DEF FinishLaneAttempt
      <4>2. lanes' \in [LaneKeys -> Lanes] /\ deadlines' \in SUBSET Deadlines
        BY <4>1, <3>0, AdvanceType, MaxTimeAssumption DEF LaneStates, Times
      <4>3. attempts' \in [LaneKeys -> [Ordinals -> Attempts]]
        <5>1. attempts[k][o] \in Attempts
          BY DEF TypeOK
        <5>2. [attempts[k][o] EXCEPT !.terminal = out] \in Attempts
          BY <5>1 DEF Attempts
        <5> QED BY <3>7, <5>2, SetAttemptType DEF FinishLaneAttempt
      <4> QED BY <4>2, <4>3, <3>7 DEF FinishLaneAttempt, TypeOK
    <3>8. CASE DenyLaneAuth(k, rev)
      <4>1. ReplaceLane(k, rev, "Terminal", 0, "AuthDenied", lanes[k].last)
        BY <3>8 DEF DenyLaneAuth
      <4>2. lanes' \in [LaneKeys -> Lanes] /\ deadlines' \in SUBSET Deadlines
        BY <4>1, <3>0, AdvanceType, MaxTimeAssumption DEF LaneStates, Times
      <4> QED BY <4>2, <3>8 DEF DenyLaneAuth, TypeOK
    <3> QED BY <3>1, <3>2, <3>3, <3>4, <3>5, <3>6, <3>7, <3>8 DEF LaneDoor
  <2>3. ASSUME NEW gone, RemoveEntries(gone) PROVE TypeOK'
    BY <2>3, ReclaimType DEF RemoveEntries, TypeOK, ReceiptStates
  <2> QED BY <2>0, <2>1, <2>2, <2>3 DEF Next
<1> QED BY <1>1, <1>2, PTL DEF Spec

-----------------------------------------------------------------------------
\* The deadline index as a membership fact, the form the proofs use.
LEMMA DeadlineMember ==
    DeadlineExact <=>
        /\ \A d \in deadlines : \E k \in LaneKeys :
                HasDeadline(lanes[k]) /\ d = LaneDeadline(k, lanes[k])
        /\ \A k \in LaneKeys :
                HasDeadline(lanes[k]) => LaneDeadline(k, lanes[k]) \in deadlines
BY DEF DeadlineExact

\* Replacing a lane moves its deadline row along and touches no other.
LEMMA ReplaceLaneExact ==
    ASSUME TypeOK, DeadlineExact, NEW k \in LaneKeys, NEW rev, NEW s, NEW at,
           NEW out, NEW o, ReplaceLane(k, rev, s, at, out, o)
    PROVE  DeadlineExact'
<1> DEFINE next == Advance(k, s, at, out, o)
<1>1. /\ lanes'[k] = next
      /\ \A l \in LaneKeys : l # k => lanes'[l] = lanes[l]
  BY DEF ReplaceLane, TypeOK
<1>2. ASSUME NEW d \in deadlines'
      PROVE  \E l \in LaneKeys :
                HasDeadline(lanes'[l]) /\ d = LaneDeadline(l, lanes'[l])
  <2>1. CASE HasDeadline(next) /\ d = LaneDeadline(k, next)
    BY <2>1, <1>1
  <2>2. CASE d \in deadlines
             /\ ~ (HasDeadline(lanes[k]) /\ d.key = k /\ d.at = lanes[k].at)
    <3>1. PICK l \in LaneKeys :
              HasDeadline(lanes[l]) /\ d = LaneDeadline(l, lanes[l])
      BY <2>2, DeadlineMember
    <3>2. l # k
      BY <3>1, <2>2 DEF LaneDeadline
    <3> QED BY <3>1, <3>2, <1>1
  <2> QED BY <2>1, <2>2 DEF ReplaceLane
<1>3. ASSUME NEW l \in LaneKeys, HasDeadline(lanes'[l])
      PROVE  LaneDeadline(l, lanes'[l]) \in deadlines'
  <2>1. CASE l = k
    BY <2>1, <1>1, <1>3 DEF ReplaceLane
  <2>2. CASE l # k
    <3>1. LaneDeadline(l, lanes[l]) \in deadlines
      BY <2>2, <1>1, <1>3, DeadlineMember
    <3>2. LaneDeadline(l, lanes[l]).key = l
      BY DEF LaneDeadline
    <3> QED BY <3>1, <3>2, <2>2, <1>1 DEF ReplaceLane
  <2> QED BY <2>1, <2>2
<1> QED BY <1>2, <1>3 DEF DeadlineExact

\* Reclaiming some intents' rows drops the deadlines their lanes imply, and
\* no other when the intents being closed have no lane that waits.
LEMMA ReclaimExact ==
    ASSUME TypeOK, DeadlineExact, NEW gone, NEW closed, Reclaim(gone, closed),
           \A k \in LaneKeys : k[1] \in closed => ~ HasDeadline(lanes[k])
    PROVE  DeadlineExact'
<1>0. \A l \in LaneKeys :
          lanes'[l] = IF l[1] \in gone THEN NoLane ELSE lanes[l]
  BY DEF Reclaim
<1>1. ASSUME NEW d \in deadlines'
      PROVE  \E l \in LaneKeys :
                HasDeadline(lanes'[l]) /\ d = LaneDeadline(l, lanes'[l])
  <2>1. PICK l \in LaneKeys :
            HasDeadline(lanes[l]) /\ d = LaneDeadline(l, lanes[l])
    BY <1>1, DeadlineMember DEF Reclaim, ClearIntentDeadlines
  <2>2. l[1] \notin gone
    BY <2>1, <1>1 DEF Reclaim, ClearIntentDeadlines, LaneDeadline
  <2> QED BY <2>1, <2>2, <1>0
<1>2. ASSUME NEW l \in LaneKeys, HasDeadline(lanes'[l])
      PROVE  LaneDeadline(l, lanes'[l]) \in deadlines'
  <2>1. l[1] \notin gone /\ lanes'[l] = lanes[l]
    BY <1>2, <1>0 DEF HasDeadline, NoLane
  <2>2. LaneDeadline(l, lanes[l]) \in deadlines /\ l[1] \notin closed
    BY <2>1, <1>2, DeadlineMember
  <2>3. LaneDeadline(l, lanes[l]).key = l
    BY DEF LaneDeadline
  <2> QED BY <2>1, <2>2, <2>3 DEF Reclaim, ClearIntentDeadlines
<1> QED BY <1>1, <1>2 DEF DeadlineExact

\* Every lane door replaces its lane under the revision it was given.
LEMMA LaneDoorReplaces ==
    ASSUME NEW k \in LaneKeys, NEW rev, LaneDoor(k, rev)
    PROVE  \E s, at, out, o : ReplaceLane(k, rev, s, at, out, o)
BY DEF LaneDoor, SetLaneWaiting, SetLaneEligible, SetLaneTransient,
    SuspendLaneAttempt, StartLaneAttempt, RecordLaneHandoff,
    FinishLaneAttempt, DenyLaneAuth

\* The deadline index is exact after every door, for any client.
THEOREM DeadlineIndexExact == Spec => []DeadlineExact
<1>1. Init => DeadlineExact
  BY DEF Init, DeadlineExact, HasDeadline, NoLane
<1>2. TypeOK /\ DeadlineExact /\ [Next]_vars => DeadlineExact'
  <2> SUFFICES ASSUME TypeOK, DeadlineExact, [Next]_vars PROVE DeadlineExact'
    OBVIOUS
  <2>0. ASSUME UNCHANGED <<lanes, deadlines>> PROVE DeadlineExact'
    BY <2>0 DEF DeadlineExact
  <2>1. ASSUME NEW i \in Intents, IntentDoor(i) PROVE DeadlineExact'
    <3>1. ASSUME NEW sig, NEW R, NEW S, AcceptWrite(i, sig, R, S)
          PROVE  DeadlineExact'
      BY <3>1, ReclaimExact DEF AcceptWrite
    <3>2. ASSUME NEW owners, PromoteSigned(i, owners) PROVE DeadlineExact'
      BY <3>2, <2>0 DEF PromoteSigned
    <3>3. ASSUME NEW t, NEW S, CompensateWrite(i, t, S) PROVE DeadlineExact'
      BY <3>3, ReclaimExact DEF CompensateWrite
    <3>4. ASSUME NEW S, CloseTerminalIntent(i, S) PROVE DeadlineExact'
      <4>1. \A k \in LaneKeys : k[1] \in {i} => ~ HasDeadline(lanes[k])
        BY <3>4 DEF CloseTerminalIntent, LanesOf, HasLane, HasDeadline
      <4> QED BY <4>1, <3>4, ReclaimExact DEF CloseTerminalIntent
    <3>5. ASSUME NEW S, CloseUnroutableIntent(i, S) PROVE DeadlineExact'
      <4>1. \A k \in LaneKeys : k[1] \in {i} => ~ HasDeadline(lanes[k])
        BY <3>5 DEF CloseUnroutableIntent, LanesOf, HasLane, HasDeadline
      <4> QED BY <4>1, <3>5, ReclaimExact DEF CloseUnroutableIntent
    <3>7. ASSUME NEW rs, RecordRouteRevision(i, rs) PROVE DeadlineExact'
      BY <3>7, <2>0 DEF RecordRouteRevision
    <3>8. CASE BootstrapLanes(i)
      <4>1. \A k \in LaneKeys : /\ HasDeadline(lanes'[k]) <=> HasDeadline(lanes[k])
                                /\ HasDeadline(lanes[k]) => lanes'[k] = lanes[k]
        BY <3>8 DEF BootstrapLanes, HasDeadline, HasLane, FreshLane
      <4>2. deadlines' = deadlines
        BY <3>8 DEF BootstrapLanes
      <4> QED BY <4>1, <4>2 DEF DeadlineExact
    <3> QED BY <2>1, <3>1, <3>2, <3>3, <3>4, <3>5, <3>7, <3>8
            DEF IntentDoor
  <2>2. ASSUME NEW k \in LaneKeys, NEW rev \in 0 .. MaxRev, LaneDoor(k, rev)
        PROVE  DeadlineExact'
    BY <2>2, LaneDoorReplaces, ReplaceLaneExact
  <2>3. CASE UNCHANGED vars
    BY <2>3, <2>0 DEF vars
  <2>4. ASSUME NEW gone, RemoveEntries(gone) PROVE DeadlineExact'
    BY <2>4, ReclaimExact DEF RemoveEntries
  <2> QED BY <2>1, <2>2, <2>3, <2>4 DEF Next
<1> QED BY <1>1, <1>2, Typing, PTL DEF Spec

-----------------------------------------------------------------------------
(***************************************************************************)
(* The ledger of one lane: what ties a lane row to its attempt rows.  The  *)
(* first and the fourth conjunct strengthen AttemptLedger and              *)
(* TerminalEvidence to something a door preserves: bootstrap starts a lane *)
(* over no attempts because an absent lane counts none, and an attempt     *)
(* that awaits its handoff has no verdict yet.                             *)
(***************************************************************************)
LaneLedger(k) ==
    /\ ~ HasLane(k) => lanes[k] = NoLane
    /\ lanes[k].last =< lanes[k].rev
    /\ \A o \in Ordinals : attempts[k][o].row = "Started" <=> o =< lanes[k].last
    /\ lanes[k].state = "AwaitingHandoff" =>
            attempts[k][lanes[k].last].terminal = "None"
    /\ lanes[k].state = "Terminal" /\ lanes[k].out \in Outcomes =>
            /\ lanes[k].last \in Ordinals
            /\ attempts[k][lanes[k].last].terminal = lanes[k].out

Ledger == \A k \in LaneKeys : LaneLedger(k)

\* A lane whose row and attempts a step leaves alone keeps its ledger.
LEMMA LedgerUnchanged ==
    ASSUME NEW k \in LaneKeys, LaneLedger(k),
           lanes'[k] = lanes[k], attempts'[k] = attempts[k]
    PROVE  LaneLedger(k)'
BY DEF LaneLedger, HasLane

\* A lane whose rows a step deletes.
LEMMA LedgerDeleted ==
    ASSUME NEW k \in LaneKeys, lanes'[k] = NoLane,
           attempts'[k] = [o \in Ordinals |-> NoAttempt]
    PROVE  LaneLedger(k)'
BY MaxRevAssumption DEF LaneLedger, HasLane, NoLane, NoAttempt, Ordinals

\* Reclaiming rows deletes a lane with its attempts or leaves both alone.
LEMMA LedgerReclaimed ==
    ASSUME NEW k \in LaneKeys, LaneLedger(k), NEW gone, NEW closed,
           Reclaim(gone, closed)
    PROVE  LaneLedger(k)'
<1>1. CASE k[1] \in gone
  BY <1>1, LedgerDeleted DEF Reclaim
<1>2. CASE k[1] \notin gone
  BY <1>2, LedgerUnchanged DEF Reclaim
<1> QED BY <1>1, <1>2

\* A lane door touches the rows of its own lane only.
LEMMA LaneDoorLocal ==
    ASSUME TypeOK, NEW k \in LaneKeys, NEW rev, LaneDoor(k, rev),
           NEW l \in LaneKeys, l # k
    PROVE  lanes'[l] = lanes[l] /\ attempts'[l] = attempts[l]
<1>1. lanes'[l] = lanes[l]
  BY LaneDoorReplaces DEF ReplaceLane, TypeOK
<1>2. attempts'[l] = attempts[l]
  <2>1. \/ UNCHANGED attempts
        \/ \E o, a : SetAttempt(k, o, a)
    BY DEF LaneDoor, SetLaneWaiting, SetLaneEligible, SetLaneTransient,
        SuspendLaneAttempt, StartLaneAttempt, RecordLaneHandoff,
        FinishLaneAttempt, DenyLaneAuth
  <2> QED BY <2>1 DEF SetAttempt, TypeOK
<1> QED BY <1>1, <1>2

\* The row a replaced lane ends up with.
LEMMA ReplacedRow ==
    ASSUME TypeOK, NEW k \in LaneKeys, NEW rev, NEW s, NEW at, NEW out, NEW o,
           ReplaceLane(k, rev, s, at, out, o)
    PROVE  /\ lanes'[k].state = s
           /\ lanes'[k].last = o
           /\ lanes'[k].out = out
           /\ lanes'[k].rev = lanes[k].rev + 1
           /\ HasLane(k)
BY DEF ReplaceLane, Advance, TypeOK

\* The attempt rows a written-over attempt leaves.
LEMMA SetAttemptRow ==
    ASSUME TypeOK, NEW k \in LaneKeys, NEW o \in Ordinals, NEW a,
           SetAttempt(k, o, a)
    PROVE  /\ attempts'[k][o] = a
           /\ \A p \in Ordinals : p # o => attempts'[k][p] = attempts[k][p]
BY DEF SetAttempt, TypeOK

\* Every lane door preserves its lane's ledger.
LEMMA LaneDoorLedger ==
    ASSUME TypeOK, NEW k \in LaneKeys, LaneLedger(k), NEW rev \in 0 .. MaxRev,
           LaneDoor(k, rev)
    PROVE  LaneLedger(k)'
<1>0. /\ lanes[k].last \in 0 .. MaxRev /\ lanes[k].rev \in 0 .. MaxRev
      /\ \A o \in Ordinals : attempts[k][o] \in Attempts
      /\ Ordinals \subseteq 0 .. MaxRev
  <2>1. lanes[k] \in Lanes /\ \A o \in Ordinals : attempts[k][o] \in Attempts
    BY DEF TypeOK
  <2> QED BY <2>1 DEF Lanes, Ordinals
<1>a. ASSUME NEW s \in LaneStates \ {"AwaitingHandoff"}, NEW at,
             NEW out \in {"None", "AuthDenied"},
             ReplaceLane(k, rev, s, at, out, lanes[k].last),
             \A o \in Ordinals : attempts'[k][o].row = attempts[k][o].row
      PROVE  LaneLedger(k)'
  BY <1>a, <1>0, ReplacedRow DEF LaneLedger, HasLane, LaneStates, Outcomes
<1>1. ASSUME NEW auth \in BOOLEAN, SetLaneWaiting(k, rev, auth)
      PROVE  LaneLedger(k)'
  <2> DEFINE s == IF auth THEN "WaitingAuth" ELSE "WaitingConnection"
  <2>1. s \in LaneStates \ {"AwaitingHandoff"}
    BY DEF LaneStates
  <2> QED BY <1>1, <1>a, <2>1 DEF SetLaneWaiting
<1>2. ASSUME NEW t \in Times, SetLaneEligible(k, rev, t)
      PROVE  LaneLedger(k)'
  BY <1>2, <1>a DEF SetLaneEligible, LaneStates
<1>3. ASSUME NEW o \in 0 .. MaxRev, NEW t \in Times, NEW c \in Causes,
             SetLaneTransient(k, rev, o, t, c)
      PROVE  LaneLedger(k)'
  <2>1. \A p \in Ordinals : attempts'[k][p].row = attempts[k][p].row
    <3>1. CASE UNCHANGED attempts
      BY <3>1
    <3>2. CASE HasAttemptRow(k, o)
               /\ SetAttempt(k, o, [attempts[k][o] EXCEPT !.transient = c])
      BY <3>2, <1>0, SetAttemptRow DEF HasAttemptRow, Attempts
    <3> QED BY <1>3, <3>1, <3>2 DEF SetLaneTransient
  <2> QED BY <1>3, <1>a, <2>1 DEF SetLaneTransient, LaneStates
<1>4. ASSUME NEW o \in Ordinals, NEW c \in Causes, NEW auth \in BOOLEAN,
             SuspendLaneAttempt(k, rev, o, c, auth)
      PROVE  LaneLedger(k)'
  <2> DEFINE s == IF auth THEN "WaitingAuth" ELSE "WaitingConnection"
  <2>1. s \in LaneStates \ {"AwaitingHandoff"}
    BY DEF LaneStates
  <2>2. \A p \in Ordinals : attempts'[k][p].row = attempts[k][p].row
    BY <1>4, <1>0, SetAttemptRow DEF SuspendLaneAttempt, Attempts
  <2> QED BY <1>4, <1>a, <2>1, <2>2 DEF SuspendLaneAttempt
<1>5. CASE StartLaneAttempt(k, rev)
  <2> DEFINE o == lanes[k].last + 1
  <2>1. /\ o \in Ordinals
        /\ ReplaceLane(k, rev, "AwaitingHandoff", 0, "None", o)
        /\ SetAttempt(k, o, Started)
    BY <1>5 DEF StartLaneAttempt
  <2>2. /\ attempts'[k][o] = Started
        /\ \A p \in Ordinals : p # o => attempts'[k][p] = attempts[k][p]
    BY <2>1, SetAttemptRow
  <2>3. Started.row = "Started" /\ Started.terminal = "None"
    BY DEF Started, NoAttempt
  <2>4. /\ lanes'[k].state = "AwaitingHandoff" /\ lanes'[k].last = o
        /\ lanes'[k].rev = lanes[k].rev + 1
    BY <2>1, ReplacedRow
  <2>5. \A p \in Ordinals : attempts'[k][p].row = "Started" <=> p =< o
    BY <2>2, <2>3, <1>0 DEF LaneLedger, Ordinals
  <2> HIDE DEF o
  <2> QED BY <2>2, <2>3, <2>4, <2>5, <1>0 DEF LaneLedger, HasLane, o
<1>6. ASSUME NEW o \in Ordinals, NEW h \in Handoffs, NEW s \in LaneStates,
             NEW t \in Times, NEW out \in Outcomes \cup {"None"},
             RecordLaneHandoff(k, rev, o, h, s, t, out)
      PROVE  LaneLedger(k)'
  <2>1. ReplaceLane(k, rev, s, t, out, o) /\ o = lanes[k].last
    BY <1>6 DEF RecordLaneHandoff
  <2>2. CASE /\ s = "Terminal" /\ out \in Outcomes
             /\ SetAttempt(k, o, [attempts[k][o] EXCEPT !.handoff = h,
                                                        !.terminal = out])
    <3>1. /\ attempts'[k][o].row = attempts[k][o].row
          /\ attempts'[k][o].terminal = out
          /\ \A p \in Ordinals : p # o => attempts'[k][p] = attempts[k][p]
      <4> DEFINE a == [attempts[k][o] EXCEPT !.handoff = h, !.terminal = out]
      <4>1. a.row = attempts[k][o].row /\ a.terminal = out
        BY <1>0 DEF Attempts
      <4>2. SetAttempt(k, o, a)
        BY <2>2
      <4> HIDE DEF a
      <4> QED BY <4>1, <4>2, SetAttemptRow
    <3> QED BY <3>1, <2>1, <2>2, <1>0, ReplacedRow DEF LaneLedger, HasLane
  <2>3. CASE /\ s \in {"WaitingConnection", "AwaitingAck", "Transient"}
             /\ out = "None"
             /\ SetAttempt(k, o, [attempts[k][o] EXCEPT !.handoff = h])
    <3>1. \A p \in Ordinals : attempts'[k][p].row = attempts[k][p].row
      BY <2>3, <1>0, SetAttemptRow DEF Attempts
    <3>2. s \in LaneStates \ {"AwaitingHandoff"}
      BY <2>3 DEF LaneStates
    <3> QED BY <3>1, <3>2, <2>1, <2>3, <1>a
  <2> QED BY <1>6, <2>2, <2>3 DEF RecordLaneHandoff
<1>7. ASSUME NEW o \in Ordinals, NEW out \in Outcomes,
             FinishLaneAttempt(k, rev, o, out)
      PROVE  LaneLedger(k)'
  <2>1. ReplaceLane(k, rev, "Terminal", 0, out, o) /\ o = lanes[k].last
    BY <1>7 DEF FinishLaneAttempt
  <2>2. /\ attempts'[k][o].row = attempts[k][o].row
        /\ attempts'[k][o].terminal = out
        /\ \A p \in Ordinals : p # o => attempts'[k][p] = attempts[k][p]
    BY <1>7, <1>0, SetAttemptRow DEF FinishLaneAttempt, Attempts
  <2> QED BY <2>1, <2>2, <1>0, ReplacedRow DEF LaneLedger, HasLane
<1>8. CASE DenyLaneAuth(k, rev)
  BY <1>8, <1>a DEF DenyLaneAuth, LaneStates
<1> QED BY <1>1, <1>2, <1>3, <1>4, <1>5, <1>6, <1>7, <1>8 DEF LaneDoor

\* Every lane and its attempts agree after every door, for any client.
THEOREM LedgerInvariant == Spec => []Ledger
<1>1. Init => Ledger
  BY MaxRevAssumption
  DEF Init, Ledger, LaneLedger, HasLane, NoLane, NoAttempt, Ordinals
<1>2. TypeOK /\ Ledger /\ [Next]_vars => Ledger'
  <2> SUFFICES ASSUME TypeOK, Ledger, [Next]_vars, NEW l \in LaneKeys
               PROVE  LaneLedger(l)'
    BY DEF Ledger
  <2>0. LaneLedger(l)
    BY DEF Ledger
  <2>1. ASSUME NEW i \in Intents, IntentDoor(i) PROVE LaneLedger(l)'
    <3>1. ASSUME NEW sig, NEW R, NEW S, AcceptWrite(i, sig, R, S)
          PROVE  LaneLedger(l)'
      BY <3>1, <2>0, LedgerReclaimed DEF AcceptWrite
    <3>2. ASSUME NEW owners, PromoteSigned(i, owners) PROVE LaneLedger(l)'
      BY <3>2, <2>0, LedgerUnchanged DEF PromoteSigned
    <3>3. ASSUME NEW t, NEW S, CompensateWrite(i, t, S) PROVE LaneLedger(l)'
      BY <3>3, <2>0, LedgerReclaimed DEF CompensateWrite
    <3>4. ASSUME NEW S, CloseTerminalIntent(i, S) PROVE LaneLedger(l)'
      BY <3>4, <2>0, LedgerReclaimed DEF CloseTerminalIntent
    <3>5. ASSUME NEW S, CloseUnroutableIntent(i, S) PROVE LaneLedger(l)'
      BY <3>5, <2>0, LedgerReclaimed DEF CloseUnroutableIntent
    <3>7. ASSUME NEW rs, RecordRouteRevision(i, rs) PROVE LaneLedger(l)'
      BY <3>7, <2>0, LedgerUnchanged DEF RecordRouteRevision
    <3>8. CASE BootstrapLanes(i)
      <4>1. CASE l[1] = i /\ l[2] \in routes[i] /\ ~ HasLane(l)
        BY <4>1, <3>8, <2>0
        DEF BootstrapLanes, FreshLane, LaneLedger, HasLane, NoLane
      <4>2. CASE ~ (l[1] = i /\ l[2] \in routes[i] /\ ~ HasLane(l))
        BY <4>2, <3>8, <2>0, LedgerUnchanged DEF BootstrapLanes
      <4> QED BY <4>1, <4>2
    <3> QED BY <2>1, <3>1, <3>2, <3>3, <3>4, <3>5, <3>7, <3>8
            DEF IntentDoor
  <2>2. ASSUME NEW k \in LaneKeys, NEW rev \in 0 .. MaxRev, LaneDoor(k, rev)
        PROVE  LaneLedger(l)'
    <3>1. CASE l = k
      BY <3>1, <2>2, <2>0, LaneDoorLedger
    <3>2. CASE l # k
      BY <3>2, <2>2, <2>0, LaneDoorLocal, LedgerUnchanged
    <3> QED BY <3>1, <3>2
  <2>3. CASE UNCHANGED vars
    BY <2>3, <2>0, LedgerUnchanged DEF vars
  <2>4. ASSUME NEW gone, RemoveEntries(gone) PROVE LaneLedger(l)'
    BY <2>4, <2>0, LedgerReclaimed DEF RemoveEntries
  <2> QED BY <2>1, <2>2, <2>3, <2>4 DEF Next
<1> QED BY <1>1, <1>2, Typing, PTL DEF Spec

\* Attempt rows are exactly the ordinals a lane has counted.
THEOREM AttemptLedgerInvariant == Spec => []AttemptLedger
<1>1. Ledger => AttemptLedger
  BY DEF Ledger, LaneLedger, AttemptLedger
<1> QED BY <1>1, LedgerInvariant, PTL

\* A lane's verdict is its last attempt's verdict.
THEOREM TerminalEvidenceInvariant == Spec => []TerminalEvidence
<1>1. Ledger => TerminalEvidence
  BY DEF Ledger, LaneLedger, TerminalEvidence
<1> QED BY <1>1, LedgerInvariant, PTL

\* No row outlives its receipt, for any client.
THEOREM NoOrphanRowsInvariant == Spec => []NoOrphanRows
<1>1. Init => NoOrphanRows
  BY DEF Init, NoOrphanRows, IsOpen, HasLane, NoLane, LaneKeys
<1> DEFINE Bare(i) == /\ intents[i] = "None" /\ routes[i] = {}
                      /\ \A r \in Relays : lanes[<<i, r>>].state = "None"
           Inv == \A i \in Intents : receipts[i] = "None" => Bare(i)
<1>2. Inv /\ DeadlineExact => NoOrphanRows
  BY DeadlineMember DEF NoOrphanRows, IsOpen, HasLane, HasDeadline, LaneKeys,
      LaneDeadline
<1>3. Init => Inv
  BY DEF Init, NoLane, LaneKeys
<1>4. TypeOK /\ Inv /\ [Next]_vars => Inv'
  <2> SUFFICES ASSUME TypeOK, Inv, [Next]_vars, NEW j \in Intents,
                      receipts'[j] = "None"
               PROVE  Bare(j)'
    OBVIOUS
  <2>0. \A r \in Relays : <<j, r>> \in LaneKeys
    BY DEF LaneKeys
  <2>a. ASSUME NEW gone, NEW closed, Reclaim(gone, closed), j \in gone,
               intents'[j] = "None"
        PROVE  Bare(j)'
    BY <2>a, <2>0 DEF Reclaim, NoLane
  <2>b. ASSUME NEW gone, NEW closed, Reclaim(gone, closed), j \notin gone,
               receipts[j] = "None", intents'[j] \in {"None", intents[j]}
        PROVE  Bare(j)'
    BY <2>b, <2>0 DEF Reclaim
  <2>1. ASSUME NEW i \in Intents, IntentDoor(i) PROVE Bare(j)'
    <3>1. ASSUME NEW sig, NEW R, NEW S, AcceptWrite(i, sig, R, S)
          PROVE  Bare(j)'
      <4>1. j # i
        BY <3>1 DEF AcceptWrite
      <4>2. CASE j \in R \cup S
        BY <4>1, <4>2, <3>1, <2>a DEF AcceptWrite, Retained, IsOpen
      <4>3. CASE j \notin R \cup S
        BY <4>1, <4>3, <3>1, <2>b DEF AcceptWrite
      <4> QED BY <4>2, <4>3
    <3>2. ASSUME NEW owners, PromoteSigned(i, owners) PROVE Bare(j)'
      BY <3>2 DEF PromoteSigned, TypeOK
    <3>3. ASSUME NEW t \in {"Compensated", "Cancelled"}, NEW S,
                 CompensateWrite(i, t, S)
          PROVE  Bare(j)'
      <4>1. j # i
        BY <3>3 DEF CompensateWrite
      <4>2. CASE j \in S
        BY <4>1, <4>2, <3>3, <2>a DEF CompensateWrite, Retained, IsOpen, TypeOK
      <4>3. CASE j \notin S
        BY <4>1, <4>3, <3>3, <2>b DEF CompensateWrite, TypeOK
      <4> QED BY <4>2, <4>3
    <3>4. ASSUME NEW S, CloseTerminalIntent(i, S) PROVE Bare(j)'
      <4>1. intents'[j] \in {"None", intents[j]}
        BY <3>4 DEF CloseTerminalIntent, TypeOK
      <4>2. CASE j \in S
        BY <4>1, <4>2, <3>4, <2>a DEF CloseTerminalIntent, Retained, IsOpen
      <4>3. CASE j \notin S
        BY <4>1, <4>3, <3>4, <2>b DEF CloseTerminalIntent
      <4> QED BY <4>2, <4>3
    <3>5. ASSUME NEW S, CloseUnroutableIntent(i, S) PROVE Bare(j)'
      <4>1. intents'[j] \in {"None", intents[j]} /\ j # i
        BY <3>5 DEF CloseUnroutableIntent, TypeOK
      <4>2. CASE j \in S
        BY <4>1, <4>2, <3>5, <2>a DEF CloseUnroutableIntent, Retained, IsOpen
      <4>3. CASE j \notin S
        BY <4>1, <4>3, <3>5, <2>b DEF CloseUnroutableIntent
      <4> QED BY <4>2, <4>3
    <3>7. ASSUME NEW rs, RecordRouteRevision(i, rs) PROVE Bare(j)'
      BY <3>7 DEF RecordRouteRevision, TypeOK, IsOpen
    <3>8. CASE BootstrapLanes(i)
      BY <3>8, <2>0 DEF BootstrapLanes, IsOpen
    <3> QED BY <2>1, <3>1, <3>2, <3>3, <3>4, <3>5, <3>7, <3>8
            DEF IntentDoor
  <2>2. ASSUME NEW k \in LaneKeys, NEW rev \in 0 .. MaxRev, LaneDoor(k, rev)
        PROVE  Bare(j)'
    <3>1. UNCHANGED <<intents, receipts, routes>>
      BY <2>2 DEF LaneDoor, SetLaneWaiting, SetLaneEligible, SetLaneTransient,
          SuspendLaneAttempt, StartLaneAttempt, RecordLaneHandoff,
          FinishLaneAttempt, DenyLaneAuth
    <3>2. HasLane(k)
      BY <2>2, LaneDoorReplaces DEF ReplaceLane
    <3>3. \A r \in Relays : <<j, r>> # k
      BY <3>1, <3>2 DEF HasLane
    <3> QED BY <3>1, <3>3, <2>0, <2>2, LaneDoorLocal
  <2>3. CASE UNCHANGED vars
    BY <2>3 DEF vars
  <2>4. ASSUME NEW gone, RemoveEntries(gone) PROVE Bare(j)'
    <3>1. CASE j \in gone
      BY <3>1, <2>4, <2>a DEF RemoveEntries, Retained, IsOpen
    <3>2. CASE j \notin gone
      BY <3>2, <2>4, <2>b DEF RemoveEntries
    <3> QED BY <3>1, <3>2
  <2> QED BY <2>1, <2>2, <2>3, <2>4 DEF Next
<1> QED BY <1>2, <1>3, <1>4, Typing, DeadlineIndexExact, PTL DEF Spec

-----------------------------------------------------------------------------
\* While an attempt row stands, no door overwrites its handoff result or its
\* verdict.
THEOREM EvidenceImmutable == Spec => EvidenceWrittenOnce
<1> DEFINE Kept(k, o) ==
        attempts[k][o].row = "Started" /\ attempts'[k][o].row = "Started" =>
            /\ attempts[k][o].handoff # "None" =>
                    attempts'[k][o].handoff = attempts[k][o].handoff
            /\ attempts[k][o].terminal # "None" =>
                    attempts'[k][o].terminal = attempts[k][o].terminal
<1>1. TypeOK /\ Ledger /\ [Next]_vars =>
        [\A k \in LaneKeys, o \in Ordinals : Kept(k, o)]_vars
  <2> SUFFICES ASSUME TypeOK, Ledger, Next, NEW l \in LaneKeys,
                      NEW p \in Ordinals
               PROVE  Kept(l, p)
    OBVIOUS
  <2>0. attempts[l][p] \in Attempts /\ LaneLedger(l)
    BY DEF TypeOK, Ledger
  <2>a. ASSUME attempts'[l] = attempts[l] PROVE Kept(l, p)
    BY <2>a
  <2>b. ASSUME attempts'[l] = [o \in Ordinals |-> NoAttempt] PROVE Kept(l, p)
    BY <2>b DEF NoAttempt
  <2>1. ASSUME NEW i \in Intents, IntentDoor(i) PROVE Kept(l, p)
    <3>1. \/ attempts'[l] = attempts[l]
          \/ attempts'[l] = [o \in Ordinals |-> NoAttempt]
      BY <2>1 DEF IntentDoor, AcceptWrite, PromoteSigned, CompensateWrite,
          CloseTerminalIntent, CloseUnroutableIntent, Reclaim,
          RecordRouteRevision, BootstrapLanes
    <3> QED BY <3>1, <2>a, <2>b
  <2>2. ASSUME NEW k \in LaneKeys, NEW rev \in 0 .. MaxRev, LaneDoor(k, rev)
        PROVE  Kept(l, p)
    <3>1. CASE l # k
      BY <3>1, <2>2, <2>a, LaneDoorLocal
    <3>2. CASE l = k
      <4>1. CASE attempts'[k] = attempts[k]
        BY <4>1, <3>2, <2>a
      <4>2. ASSUME NEW o \in Ordinals, NEW a, SetAttempt(k, o, a),
                   \/ attempts[k][o].row # "Started"
                   \/ /\ attempts[k][o].handoff \in {"None", a.handoff}
                      /\ attempts[k][o].terminal \in {"None", a.terminal}
            PROVE  Kept(l, p)
        <5>1. /\ attempts'[k][o] = a
              /\ p # o => attempts'[k][p] = attempts[k][p]
          BY <4>2, SetAttemptRow
        <5> QED BY <5>1, <4>2, <3>2
      <4>3. ASSUME NEW o \in Ordinals, NEW c \in Causes,
                   SetAttempt(k, o, [attempts[k][o] EXCEPT !.transient = c])
            PROVE  Kept(l, p)
        <5> DEFINE a == [attempts[k][o] EXCEPT !.transient = c]
        <5>1. a.handoff = attempts[k][o].handoff
              /\ a.terminal = attempts[k][o].terminal
          <6>1. attempts[k][o] \in Attempts
            BY DEF TypeOK
          <6> QED BY <6>1 DEF Attempts
        <5>2. SetAttempt(k, o, a)
          BY <4>3
        <5> HIDE DEF a
        <5> QED BY <4>2, <5>1, <5>2
      <4>4. CASE StartLaneAttempt(k, rev)
        <5> DEFINE o == lanes[k].last + 1
        <5>1. o \in Ordinals /\ SetAttempt(k, o, Started)
          BY <4>4 DEF StartLaneAttempt
        <5>2. attempts[k][o].row # "Started"
          BY <5>1, <2>0, <3>2 DEF LaneLedger, TypeOK, Lanes
        <5> HIDE DEF o
        <5> QED BY <4>2, <5>1, <5>2
      <4>5. ASSUME NEW o \in Ordinals, NEW h \in Handoffs, NEW s, NEW t,
                   NEW out, RecordLaneHandoff(k, rev, o, h, s, t, out)
            PROVE  Kept(l, p)
        <5>1. /\ attempts[k][o].handoff \in {"None", h}
              /\ attempts[k][o].terminal = "None"
          BY <4>5, <2>0, <3>2 DEF RecordLaneHandoff, LaneLedger
        <5>2. attempts[k][o] \in Attempts
          BY DEF TypeOK
        <5>3. /\ [attempts[k][o] EXCEPT !.handoff = h].handoff = h
              /\ [attempts[k][o] EXCEPT !.handoff = h,
                                        !.terminal = out].handoff = h
          BY <5>2 DEF Attempts
        <5>4. PICK a : SetAttempt(k, o, a) /\ a.handoff = h
          BY <4>5, <5>3 DEF RecordLaneHandoff
        <5> QED BY <4>2, <5>1, <5>4
      <4>6. ASSUME NEW o \in Ordinals, NEW out, FinishLaneAttempt(k, rev, o, out)
            PROVE  Kept(l, p)
        <5>1. attempts[k][o].terminal = "None" /\ attempts[k][o] \in Attempts
          BY <4>6 DEF FinishLaneAttempt, TypeOK
        <5>2. PICK a : /\ SetAttempt(k, o, a)
                       /\ a.handoff = attempts[k][o].handoff
          BY <4>6, <5>1 DEF FinishLaneAttempt, Attempts
        <5> QED BY <4>2, <5>1, <5>2
      <4> QED BY <2>2, <4>1, <4>3, <4>4, <4>5, <4>6
              DEF LaneDoor, SetLaneWaiting, SetLaneEligible, SetLaneTransient,
                  HasAttemptRow, SuspendLaneAttempt, DenyLaneAuth
    <3> QED BY <3>1, <3>2
  <2>3. ASSUME NEW gone, RemoveEntries(gone) PROVE Kept(l, p)
    <3>1. \/ attempts'[l] = attempts[l]
          \/ attempts'[l] = [o \in Ordinals |-> NoAttempt]
      BY <2>3 DEF RemoveEntries, Reclaim
    <3> QED BY <3>1, <2>a, <2>b
  <2> QED BY <2>1, <2>2, <2>3 DEF Next
<1> QED BY <1>1, Typing, LedgerInvariant, PTL DEF Spec, EvidenceWrittenOnce
(***************************************************************************)
(* Receipts.  The strengthening of ReceiptFinal: identifiers not yet       *)
(* allocated have no receipt, an open intent has one, and an open intent   *)
(* whose receipt says Signed is signed, so neither acceptance nor          *)
(* compensation can touch a settled or a signed receipt.                   *)
(***************************************************************************)
ReceiptLedger ==
    \A i \in Intents :
        /\ i >= nextIntent => receipts[i] = "None"
        /\ IsOpen(i) => receipts[i] # "None"
        /\ IsOpen(i) /\ receipts[i] = "Signed" => intents[i] = "Signed"

\* A settled receipt never changes, and a signed write is never retracted.
THEOREM ReceiptsFinal == Spec => ReceiptFinal
<1> DEFINE Final(i) ==
        /\ receipts[i] # "None" /\ ~ IsOpen(i) =>
               receipts'[i] \in {receipts[i], "None"}
        /\ receipts[i] = "Signed" =>
               receipts'[i] \notin {"Accepted", "Compensated", "Cancelled"}
<1>1. Init => ReceiptLedger
  BY DEF Init, ReceiptLedger, IsOpen
<1>2. TypeOK /\ ReceiptLedger /\ [Next]_vars =>
        ReceiptLedger' /\ [\A i \in Intents : Final(i)]_vars
  <2> SUFFICES ASSUME TypeOK, ReceiptLedger, [Next]_vars
               PROVE  ReceiptLedger' /\ \A i \in Intents : Final(i)
    OBVIOUS
  <2>0. ASSUME UNCHANGED <<nextIntent, intents, receipts>>
        PROVE  ReceiptLedger' /\ \A i \in Intents : Final(i)
    BY <2>0 DEF ReceiptLedger, IsOpen
  <2>1. ASSUME NEW i \in Intents, IntentDoor(i)
        PROVE  ReceiptLedger' /\ \A j \in Intents : Final(j)
    <3> USE DEF ReceiptLedger, IsOpen, TypeOK
    <3>1. ASSUME NEW sig \in SigStates, NEW R \in SUBSET Intents,
                 NEW S \in SUBSET Retained, AcceptWrite(i, sig, R, S)
          PROVE  ReceiptLedger' /\ \A j \in Intents : Final(j)
      BY <3>1 DEF AcceptWrite, Intents, Retained, SigStates
    <3>2. ASSUME NEW owners \in SUBSET Intents, PromoteSigned(i, owners)
          PROVE  ReceiptLedger' /\ \A j \in Intents : Final(j)
      BY <3>2 DEF PromoteSigned
    <3>3. ASSUME NEW t \in {"Compensated", "Cancelled"},
                 NEW S \in SUBSET Retained, CompensateWrite(i, t, S)
          PROVE  ReceiptLedger' /\ \A j \in Intents : Final(j)
      BY <3>3 DEF CompensateWrite, Retained
    <3>4. ASSUME NEW S \in SUBSET Retained, CloseTerminalIntent(i, S)
          PROVE  ReceiptLedger' /\ \A j \in Intents : Final(j)
      BY <3>4 DEF CloseTerminalIntent, Retained
    <3>5. ASSUME NEW S \in SUBSET Retained, CloseUnroutableIntent(i, S)
          PROVE  ReceiptLedger' /\ \A j \in Intents : Final(j)
      BY <3>5 DEF CloseUnroutableIntent, Retained
    <3>7. ASSUME NEW rs, RecordRouteRevision(i, rs)
          PROVE  ReceiptLedger' /\ \A j \in Intents : Final(j)
      BY <3>7, <2>0 DEF RecordRouteRevision
    <3>8. CASE BootstrapLanes(i)
      BY <3>8, <2>0 DEF BootstrapLanes
    <3> QED BY <2>1, <3>1, <3>2, <3>3, <3>4, <3>5, <3>7, <3>8
            DEF IntentDoor
  <2>2. ASSUME NEW k \in LaneKeys, NEW rev \in 0 .. MaxRev, LaneDoor(k, rev)
        PROVE  ReceiptLedger' /\ \A i \in Intents : Final(i)
    BY <2>2, <2>0 DEF LaneDoor, SetLaneWaiting, SetLaneEligible,
        SetLaneTransient, SuspendLaneAttempt, StartLaneAttempt,
        RecordLaneHandoff, FinishLaneAttempt, DenyLaneAuth
  <2>3. CASE UNCHANGED vars
    BY <2>3, <2>0 DEF vars
  <2>4. ASSUME NEW gone, RemoveEntries(gone)
        PROVE  ReceiptLedger' /\ \A j \in Intents : Final(j)
    BY <2>4 DEF RemoveEntries, Retained, ReceiptLedger, IsOpen, TypeOK
  <2> QED BY <2>1, <2>2, <2>3, <2>4 DEF Next
<1> QED BY <1>1, <1>2, Typing, PTL DEF Spec, ReceiptFinal

-----------------------------------------------------------------------------
(* The two statements the model checker evaluates, put together.           *)

\* The queue's tables agree after any sequence of doors, for any client.
THEOREM QueueIsExact == Spec => []QueueExact
<1>1. TypeOK /\ DeadlineExact /\ AttemptLedger /\ TerminalEvidence /\ NoOrphanRows
          => QueueExact
  BY DEF QueueExact
<1> QED BY <1>1, Typing, DeadlineIndexExact, AttemptLedgerInvariant,
          TerminalEvidenceInvariant, NoOrphanRowsInvariant, PTL

\* No sequence of doors rewrites an attempt's evidence or a final receipt.
THEOREM HistoryIsKept == Spec => HistoryKept
BY EvidenceImmutable, ReceiptsFinal DEF HistoryKept
=============================================================================
