----------------------------- MODULE EventStore -----------------------------
(***************************************************************************)
(* The canonical event store of nmp-store: which events are held, who      *)
(* vouches for them, and how local drafts, relay deliveries, deletions,    *)
(* expiry and eviction change that.  Relay ingest and accepted local       *)
(* writes go through the same rules for replaceable addresses and          *)
(* tombstones.  One door is one redb write transaction, so each is one     *)
(* action, and a crash leaves the state before it or after it.             *)
(*                                                                         *)
(* The store is one record `db` with a field per table.  The helpers below *)
(* take a store and return one, as the code's helpers take the open        *)
(* transaction, and a door composes them in the order the code calls them. *)
(*                                                                         *)
(* Abstracted: an event is a number, which is also the order of its id; its*)
(* contents are the constant functions below.  When a relay was last seen  *)
(* to hold an event is dropped; that it was is kept.  Whether an attempt of*)
(* a signed intent may have reached a relay is a choice here: PublishQueue *)
(* models the lanes and attempts that decide it.                           *)
(***************************************************************************)
EXTENDS Integers, FiniteSets, FiniteSetsExt

CONSTANTS
    MaxEvent,      \* events are 1..MaxEvent
    MaxIntent,     \* intents are allocated from 1 upwards to here
    Relays,
    Authors,
    Addrs,         \* replaceable and addressable coordinates
    NoAddr,        \* the address of a regular event
    AuthorOf,      \* the author of an event or of an address
    AddrOf,        \* the address of an event
    CreatedAt,
    ExpiresAt,     \* the NIP-40 expiration, or Never
    Never,
    Deletions,     \* the kind:5 events
    IdTargets,     \* the events a deletion names
    AddrTargets,   \* the addresses a deletion names
    Drafts,        \* the events an application composes
    MaxTime,       \* events are created, and windows lie, in 0..MaxTime
    Windows,       \* the windows a relay vouches for
    Queries        \* the (demand, session) pairs coverage is recorded for

Events == 1 .. MaxEvent
Intents == 1 .. MaxIntent
Times == 0 .. MaxTime

ASSUME SizeAssumption ==
    MaxEvent \in Nat /\ MaxIntent \in Nat /\ MaxTime \in Nat
ASSUME AddressAssumption ==
    /\ NoAddr \notin Addrs
    /\ AddrOf \in [Events -> Addrs \cup {NoAddr}]
ASSUME AuthorAssumption ==
    /\ AuthorOf \in [Events \cup Addrs -> Authors]
    /\ \A e \in Events : AddrOf[e] # NoAddr => AuthorOf[AddrOf[e]] = AuthorOf[e]
ASSUME TimeAssumption ==
    /\ Never \notin Times
    /\ CreatedAt \in [Events -> Times]
    /\ ExpiresAt \in [Events -> Times \cup {Never}]
ASSUME DeletionAssumption ==
    /\ Deletions \subseteq Events
    /\ \A d \in Deletions : AddrOf[d] = NoAddr
    /\ IdTargets \in [Deletions -> SUBSET Events]
    /\ AddrTargets \in [Deletions -> SUBSET Addrs]
    /\ Drafts \subseteq Events
ASSUME WindowAssumption ==
    \A v \in Windows : v \in [from : Times, through : Times] /\ v.from <= v.through

(***************************************************************************)
(* A stored event.  `sig` is the signature in its bytes: the sentinel of a *)
(* draft or a real one.  `local` and `owners` are LocalOrigin: the open or *)
(* past intents behind the row and the state of its signature.             *)
(***************************************************************************)
Rows == [sig : {"None", "Sentinel", "Real"}, seen : SUBSET Relays,
         local : {"None", "Pending", "Signed"}, owners : SUBSET Intents]
NoRow == [sig |-> "None", seen |-> {}, local |-> "None", owners |-> {}]
Draft(i) == [sig |-> "Sentinel", seen |-> {}, local |-> "Pending", owners |-> {i}]
Delivered(r) == [sig |-> "Real", seen |-> {r}, local |-> "None", owners |-> {}]

NoStash == [event |-> 0, row |-> NoRow]
Stashes == [event : Events, row : Rows] \cup {NoStash}

\* An intent's journal: the event it froze and the signature it carries.
Journals == [event : Events, state : {"Pending", "Signed"},
             sig : {"Sentinel", "Real"}]
NoIntent == [event |-> 0, state |-> "None", sig |-> "None"]
\* "Compensated" stands for Cancelled too: no door tells them apart.
ReceiptStates ==
    {"None", "Accepted", "Signed", "Compensated", "Superseded"}

\* A suppression claim of a pending deletion.  `by` is the intent.
IdClaims == [event : Events, author : Authors, by : Intents]
AddrClaims == [addr : Addrs, ceiling : Times, by : Intents]

\* The window [from, through] a demand is covered for at a session.
Intervals == {v \in [from : Times, through : Times] : v.from <= v.through}
NoCover == [from |-> 0, through |-> -1]

VARIABLES
    db,          \* the tables
    nextIntent,  \* the intent id counter
    now,         \* the clock the doors are called with
    proven       \* the instants a relay vouched for and nothing was evicted at

vars == <<db, nextIntent, now, proven>>

Init ==
    /\ db = [rows |-> [e \in Events |-> NoRow],
             addr |-> [a \in Addrs |-> 0],
             expiry |-> {},
             tombstones |-> {},
             ceiling |-> [a \in Addrs |-> -1],
             intents |-> [i \in Intents |-> NoIntent],
             receipts |-> [i \in Intents |-> "None"],
             displaced |-> [i \in Intents |-> NoStash],
             claims |-> {},
             hidden |-> {},
             coverage |-> [q \in Queries |-> NoCover]]
    /\ nextIntent = 1
    /\ now = 0
    /\ proven = [q \in Queries |-> {}]

-----------------------------------------------------------------------------
(***************************************************************************)
(* Helpers on an open transaction.                                         *)
(***************************************************************************)
Held(s, e) == s.rows[e].sig # "None"
HasAddr(e) == AddrOf[e] # NoAddr

\* A newer event wins its address; of two as new, the smaller id.
CandidateWins(e, current) ==
    \/ CreatedAt[e] > CreatedAt[current]
    \/ CreatedAt[e] = CreatedAt[current] /\ e < current

\* The row at the event's address, 0 if there is none.
Current(s, e) == IF HasAddr(e) THEN s.addr[AddrOf[e]] ELSE 0
Admits(s, e) == Current(s, e) # 0 => CandidateWins(e, Current(s, e))

TombstoneRefuses(s, e) ==
    \/ <<e, AuthorOf[e]>> \in s.tombstones
    \/ HasAddr(e) /\ CreatedAt[e] <= s.ceiling[AddrOf[e]]

\* Variant: an event comes back whenever its address is free to take.
AcceptsByAge(s, e) == Admits(s, e)

\* A relay's event, and a stashed one, passes the tombstones and then its
\* address.
Accepts(s, e) == ~ TombstoneRefuses(s, e) /\ Admits(s, e)

Suppressed(s, e) ==
    \E c \in s.hidden :
        \/ c \in IdClaims /\ c.event = e /\ c.author = AuthorOf[e]
        \/ c \in AddrClaims /\ c.addr = AddrOf[e] /\ CreatedAt[e] <= c.ceiling

\* Variant: the row goes and the address index still names it.
RemoveRowsOnly(s, E) ==
    [s EXCEPT !.rows = [e \in Events |-> IF e \in E THEN NoRow ELSE @[e]],
              !.expiry = @ \ E]

RemoveRows(s, E) ==
    [s EXCEPT !.rows = [e \in Events |-> IF e \in E THEN NoRow ELSE @[e]],
              !.addr = [a \in Addrs |-> IF @[a] \in E THEN 0 ELSE @[a]],
              !.expiry = @ \ E]

\* The event takes its address, if it has one, from the row that holds it.
PutRow(s, e, row) ==
    LET t == RemoveRows(s, {Current(s, e)})
    IN [t EXCEPT !.rows[e] = row,
                 !.addr = [a \in Addrs |-> IF a = AddrOf[e] THEN e ELSE @[a]],
                 !.expiry = IF ExpiresAt[e] = Never THEN @ ELSE @ \cup {e}]

\* Only an author's own coordinates carry authority.
OwnTargets(d) == {a \in AddrTargets[d] : AuthorOf[a] = AuthorOf[d]}

\* A deletion takes effect for good: its tombstones, and the rows it names.
ProcessDeletions(s, d) ==
    LET byId == {e \in IdTargets[d] : AuthorOf[e] = AuthorOf[d]}
        byAddr == {s.addr[a] : a \in OwnTargets(d)} \ {0}
        t == RemoveRows(s, byId \cup
                           {e \in byAddr : CreatedAt[e] <= CreatedAt[d]})
    IN [t EXCEPT
          !.tombstones = @ \cup {<<e, AuthorOf[d]>> : e \in IdTargets[d]},
          !.ceiling = [a \in Addrs |->
                          IF a \in OwnTargets(d) /\ CreatedAt[d] > @[a]
                          THEN CreatedAt[d] ELSE @[a]]]

\* A pending deletion hides what it names and leaves the rows where they are.
DeletionClaims(i, d) ==
    [event : IdTargets[d], author : {AuthorOf[d]}, by : {i}] \cup
    [addr : OwnTargets(d), ceiling : {CreatedAt[d]}, by : {i}]

StageClaims(s, i, d) ==
    [s EXCEPT !.claims = @ \cup DeletionClaims(i, d),
              !.hidden = @ \cup DeletionClaims(i, d)]

DropClaims(s, I) ==
    LET dropped == {c \in s.claims : c.by \in I}
    IN [s EXCEPT !.claims = @ \ dropped, !.hidden = @ \ dropped]

\* Variant: only the first of the owners hears of the signature.
FirstPending(s, owners) ==
    {i \in owners : s.intents[i].state = "Pending" /\ \A j \in owners : i <= j}

PendingOwners(s, owners) == {i \in owners : s.intents[i].state = "Pending"}

DropStashes(s, I) ==
    [s EXCEPT !.displaced = [i \in Intents |-> IF i \in I THEN NoStash ELSE @[i]]]

\* The event of a row is signed: so are the pending intents behind it.  Every
\* owner's stash goes; an owner that was signed already is skipped.
FanOutSigned(s, owners, e) ==
    LET moved == PendingOwners(s, owners)
        signed == [event |-> e, state |-> "Signed", sig |-> "Real"]
        settled == {i \in owners : s.intents[i].state = "Signed"}
        t == [DropStashes(s, owners) EXCEPT
                !.intents = [i \in Intents |-> IF i \in moved THEN signed ELSE @[i]],
                !.receipts = [i \in Intents |-> IF i \in moved THEN "Signed" ELSE @[i]]]
    IN IF e \in Deletions
       THEN ProcessDeletions(DropClaims(t, owners \ settled), e) ELSE t

\* The stash that holds the event; with two, the one of the older intent.
StashesOf(s, e) == {j \in Intents : s.displaced[j].event = e}
First(J) == CHOOSE j \in J : \A k \in J : j <= k

\* A row with no local origin came from a relay, so its signature is real.
IsSigned(row) == row.local # "Pending"

\* Two copies of an event become one: what either knows, with a real
\* signature winning.
MergedRow(row, stashed) ==
    LET origin == [row EXCEPT
            !.owners = @ \cup stashed.owners,
            !.local = IF IsSigned(row) \/ IsSigned(stashed) THEN "Signed" ELSE "Pending",
            !.sig = IF IsSigned(row) THEN @ ELSE stashed.sig]
    IN [(IF stashed.local = "None" THEN row ELSE origin)
            EXCEPT !.seen = row.seen \cup stashed.seen]

\* Variant: what was displaced is dropped.
ForgetStashed(s, stash) == s

\* A displaced row comes back through the ordinary door.
ReinsertStashed(s, stash) ==
    LET e == stash.event
        merged == MergedRow(s.rows[e], stash.row)
        t == [s EXCEPT !.rows[e] = merged]
    IN CASE e = 0 -> s
         [] e # 0 /\ Held(s, e) ->
                IF stash.row.local # "None" /\ IsSigned(merged)
                THEN FanOutSigned(t, merged.owners, e) ELSE t
         [] OTHER -> IF Accepts(s, e) THEN PutRow(s, e, stash.row) ELSE s

-----------------------------------------------------------------------------
(***************************************************************************)
(* Accepting a local write.                                                *)
(***************************************************************************)
Expired(e) == ExpiresAt[e] # Never /\ ExpiresAt[e] <= now

\* The intent and its receipt are journaled with whatever else the door does.
Journal(s, i, e, state, stash) ==
    [s EXCEPT
        !.intents[i] = [event |-> e, state |-> state,
                        sig |-> IF state = "Signed" THEN "Real" ELSE "Sentinel"],
        !.receipts[i] = IF state = "Signed" THEN "Signed" ELSE "Accepted",
        !.displaced[i] = stash]

\* The intents behind a superseded row end with it.  A receipt stays only as
\* evidence that the event may have left (those of `kept`); the row is stashed
\* for a restore only if a relay vouched for it.
RetireOwners(s, replaced, kept) ==
    LET R == {j \in replaced.owners : s.intents[j].state # "None"}
    IN [s EXCEPT
          !.intents = [j \in Intents |-> IF j \in R THEN NoIntent ELSE @[j]],
          !.displaced = [j \in Intents |-> IF j \in R THEN NoStash ELSE @[j]],
          !.receipts = [j \in Intents |->
              IF j \notin R THEN @[j]
              ELSE IF j \in kept THEN "Superseded" ELSE "None"]]
Displaced(s, e, replaced) ==
    LET R == {j \in replaced.owners : s.intents[j].state # "None"}
    IN IF replaced.seen = {} THEN NoStash
       ELSE [event |-> e, row |-> [replaced EXCEPT !.owners = @ \ R]]

\* The event is held, or stashed by an intent: the new intent joins the owners
\* of that copy, and is signed at once if the copy is.
JoinRow(row, i) ==
    [row EXCEPT !.owners = @ \cup {i},
                !.local = IF @ = "None" THEN "Signed" ELSE @]
AcceptDuplicate(i, e) ==
    LET live == Held(db, e)
        j == First(StashesOf(db, e))
        row == IF live THEN db.rows[e] ELSE db.displaced[j].row
        joined == IF live THEN [db EXCEPT !.rows[e] = JoinRow(row, i)]
                  ELSE [db EXCEPT !.displaced[j].row = JoinRow(row, i)]
        staged == IF e \in Deletions /\ ~ IsSigned(row)
                  THEN StageClaims(joined, i, e) ELSE joined
    IN /\ live \/ StashesOf(db, e) # {}
       /\ db' = Journal(staged, i, e, IF IsSigned(row) THEN "Signed" ELSE "Pending",
                        NoStash)

AcceptFresh(i, e) ==
    LET c == Current(db, e)
        put == PutRow(db, e, Draft(i))
        staged == IF e \in Deletions THEN StageClaims(put, i, e) ELSE put
    IN /\ ~ Held(db, e) /\ StashesOf(db, e) = {}
       /\ ~ TombstoneRefuses(db, e)
       /\ \/ /\ c = 0
             /\ db' = Journal(staged, i, e, "Pending", NoStash)
          \/ /\ c # 0 /\ CandidateWins(e, c)
             /\ \E kept \in SUBSET {j \in db.rows[c].owners :
                                       db.intents[j].state = "Signed"} :
                    db' = Journal(RetireOwners(put, db.rows[c], kept), i, e,
                                  "Pending", Displaced(db, c, db.rows[c]))
          \/ /\ c # 0 /\ ~ CandidateWins(e, c)
             /\ db' = Journal(db, i, e, "Pending", NoStash)

AcceptWrite(e) ==
    /\ nextIntent \in Intents
    /\ e \in Drafts
    /\ ~ Expired(e)
    /\ AcceptDuplicate(nextIntent, e) \/ AcceptFresh(nextIntent, e)
    /\ nextIntent' = nextIntent + 1
    /\ UNCHANGED <<now, proven>>

-----------------------------------------------------------------------------
(***************************************************************************)
(* What becomes of it.                                                     *)
(***************************************************************************)
OwnsLive(i, e) == i \in db.rows[e].owners
OwningStashes(i, e) == {j \in StashesOf(db, e) : i \in db.displaced[j].row.owners}

SignedRow(row) ==
    IF row.local = "Signed" THEN row
    ELSE [row EXCEPT !.sig = "Real", !.local = "Signed"]

\* The signer answered.  The copy the intent owns, live or stashed, takes the
\* signature; an intent that owns no copy is signed in its journal alone.
PromoteSigned(i) ==
    LET e == db.intents[i].event
        j == First(OwningStashes(i, e))
        stashed == OwningStashes(i, e) # {}
        owners == CASE OwnsLive(i, e) -> db.rows[e].owners
                    [] ~ OwnsLive(i, e) /\ stashed -> db.displaced[j].row.owners
                    [] OTHER -> {i}
        signed == CASE OwnsLive(i, e) -> [db EXCEPT !.rows[e] = SignedRow(@)]
                    [] ~ OwnsLive(i, e) /\ stashed ->
                           [db EXCEPT !.displaced[j].row = SignedRow(@)]
                    [] OTHER -> db
    IN /\ db.intents[i].state = "Pending"
       /\ db' = FanOutSigned(signed, owners, e)
       /\ UNCHANGED <<nextIntent, now, proven>>

\* An owner leaves.  A copy goes with its last owner unless it was signed or a
\* relay vouched for it.
Abandoned(row, i) ==
    row.owners = {i} /\ row.local = "Pending" /\ row.seen = {}

\* The signer refused or the application cancelled: the intent's copy, its
\* journal and its claims go and what it displaced is offered again.
CompensateWrite(i) ==
    LET e == db.intents[i].event
        j == First(OwningStashes(i, e))
        stash == db.displaced[j]
        left == CASE OwnsLive(i, e) ->
                        IF Abandoned(db.rows[e], i) THEN RemoveRows(db, {e})
                        ELSE [db EXCEPT !.rows[e].owners = @ \ {i}]
                  [] ~ OwnsLive(i, e) /\ OwningStashes(i, e) # {} ->
                        [db EXCEPT !.displaced[j] =
                            IF Abandoned(stash.row, i) THEN NoStash
                            ELSE [stash EXCEPT !.row.owners = @ \ {i}]]
                  [] OTHER -> db
        own == left.displaced[i]
        closed == [left EXCEPT !.intents[i] = NoIntent, !.displaced[i] = NoStash]
    IN /\ db.intents[i].state = "Pending"
       /\ db' = [DropClaims(ReinsertStashed(closed, own), {i})
                    EXCEPT !.receipts[i] = "Compensated"]
       /\ UNCHANGED <<nextIntent, now, proven>>

\* The last relay of a signed write has its verdict.
CloseIntent(i) ==
    /\ db.intents[i].state = "Signed"
    /\ db' = [db EXCEPT !.intents[i] = NoIntent]
    /\ UNCHANGED <<nextIntent, now, proven>>

\* A relay delivers an event whose signature was verified.  A draft of it takes
\* the signature.
Insert(e, r) ==
    LET row == db.rows[e]
        seen == [row EXCEPT !.seen = @ \cup {r}]
        adopted == [db EXCEPT !.rows[e] = SignedRow(seen)]
        put == PutRow(db, e, Delivered(r))
    IN /\ ~ Expired(e)
       /\ \/ /\ Held(db, e) /\ ~ IsSigned(row)
             /\ db' = FanOutSigned(adopted, row.owners, e)
          \/ /\ Held(db, e) /\ IsSigned(row)
             /\ db' = [db EXCEPT !.rows[e] = seen]
          \/ /\ ~ Held(db, e) /\ Accepts(db, e)
             /\ db' = IF e \in Deletions THEN ProcessDeletions(put, e) ELSE put
       /\ UNCHANGED <<nextIntent, now, proven>>

ExpireDue ==
    /\ db' = RemoveRows(db, {e \in db.expiry : ExpiresAt[e] <= now})
    /\ UNCHANGED <<nextIntent, now, proven>>

Tick ==
    /\ now < MaxTime
    /\ now' = now + 1
    /\ UNCHANGED <<db, nextIntent, proven>>

-----------------------------------------------------------------------------
(***************************************************************************)
(* Coverage and eviction.                                                  *)
(***************************************************************************)
\* Variant: windows an instant apart count as touching.
MergeApart(cur, inc) ==
    IF cur = NoCover THEN inc
    ELSE [from |-> Min({cur.from, inc.from}), through |-> Max({cur.through, inc.through})]

\* Windows that touch become one; of two that do not, the later one is kept.
MergeInterval(cur, inc) ==
    LET touches == inc.from <= cur.through + 1 /\ inc.through >= cur.from - 1
    IN IF cur = NoCover THEN inc
       ELSE IF touches
            THEN [from |-> Min({cur.from, inc.from}),
                  through |-> Max({cur.through, inc.through})]
            ELSE IF inc.through > cur.through THEN inc ELSE cur

\* The upper side of the window is kept, if there is one.
ShrinkAfterEviction(v, at) ==
    IF at >= v.through THEN NoCover ELSE [v EXCEPT !.from = at + 1]

RecordCoverage(q, v) ==
    /\ db' = [db EXCEPT !.coverage[q] = MergeInterval(@, v)]
    /\ proven' = [proven EXCEPT ![q] = @ \cup v.from .. v.through]
    /\ UNCHANGED <<nextIntent, now>>

\* Regular events that no live demand claims, no draft is and no pending
\* deletion hides.  Coverage is lowered in the same transaction, for every
\* window an evicted event falls in, whatever was asked for.
Victims(claimed) ==
    {e \in Events : /\ Held(db, e) /\ ~ HasAddr(e)
                    /\ IsSigned(db.rows[e])
                    /\ ~ Suppressed(db, e)
                    /\ e \notin claimed}
Gc(claimed) ==
    LET victims == Victims(claimed)
        at == {CreatedAt[e] : e \in victims}
        within(v) == at \cap v.from .. v.through
        shrunk(v) == IF within(v) = {} THEN v
                     ELSE ShrinkAfterEviction(v, Max(within(v)))
        t == RemoveRows(db, victims)
    IN /\ db' = [t EXCEPT !.coverage = [q \in Queries |-> shrunk(@[q])]]
       /\ proven' = [q \in Queries |-> proven[q] \ at]
       /\ UNCHANGED <<nextIntent, now>>

Next ==
    \/ \E e \in Events : AcceptWrite(e)
    \/ \E i \in Intents :
        \/ PromoteSigned(i)
        \/ CompensateWrite(i)
        \/ CloseIntent(i)
    \/ \E e \in Events, r \in Relays : Insert(e, r)
    \/ ExpireDue
    \/ Tick
    \/ \E q \in Queries, v \in Windows : RecordCoverage(q, v)
    \/ \E claimed \in SUBSET {e \in Events : Held(db, e) /\ ~ HasAddr(e)} : Gc(claimed)

Spec == Init /\ [][Next]_vars

-----------------------------------------------------------------------------
\* Every table holds values of its kind.
TypeOK ==
    /\ db.rows \in [Events -> Rows]
    /\ db.addr \in [Addrs -> Events \cup {0}]
    /\ db.expiry \subseteq Events
    /\ db.tombstones \subseteq Events \X Authors
    /\ db.ceiling \in [Addrs -> Times \cup {-1}]
    /\ db.intents \in [Intents -> Journals \cup {NoIntent}]
    /\ db.receipts \in [Intents -> ReceiptStates]
    /\ db.displaced \in [Intents -> Stashes]
    /\ db.claims \subseteq IdClaims \cup AddrClaims
    /\ db.hidden \subseteq IdClaims \cup AddrClaims
    /\ db.coverage \in [Queries -> Intervals \cup {NoCover}]
    /\ nextIntent \in 1 .. MaxIntent + 1
    /\ now \in Times
    /\ proven \in [Queries -> SUBSET Times]

\* The address index names exactly the rows that have an address, so an address
\* holds one row, and the expiration index names exactly the rows that expire.
IndexExact ==
    /\ \A a \in Addrs : db.addr[a] # 0 =>
           Held(db, db.addr[a]) /\ AddrOf[db.addr[a]] = a
    /\ \A e \in Events : Held(db, e) /\ HasAddr(e) => db.addr[AddrOf[e]] = e
    /\ db.expiry = {e \in Events : Held(db, e) /\ ExpiresAt[e] # Never}

\* What an author deleted is not held again, whichever door it comes back
\* through: a relay, a draft, or the stash of a cancelled edit.
DeletedStaysDeleted == \A e \in Events : Held(db, e) => ~ TombstoneRefuses(db, e)

\* A row or stash is a draft exactly while its owners wait for a signature:
\* when one of them signs, or a relay delivers the event, none is left waiting
\* behind it, and a draft never outlives its last owner.
CopySound(e, row) ==
    /\ row.local = "Pending" <=> row.sig = "Sentinel"
    /\ row.local = "Pending" => row.seen = {} /\ row.owners # {}
    /\ \A i \in row.owners : db.intents[i].state # "None" =>
           db.intents[i].event = e /\ db.intents[i].state = row.local
    /\ row.local = "Pending" => \A i \in row.owners : db.intents[i].state # "None"
OwnersAgree ==
    /\ \A e \in Events : Held(db, e) => CopySound(e, db.rows[e])
    /\ \A i \in Intents : db.displaced[i] # NoStash =>
           CopySound(db.displaced[i].event, db.displaced[i].row)

\* An intent's journal, its receipt and its stash tell one story: only a draft
\* keeps what it displaced, and a signed journal carries a real signature.
JournalSound ==
    \A i \in Intents :
        /\ db.intents[i].state = "Pending" =>
               db.receipts[i] = "Accepted" /\ db.intents[i].sig = "Sentinel"
        /\ db.intents[i].state = "Signed" =>
               db.receipts[i] = "Signed" /\ db.intents[i].sig = "Real"
        /\ db.displaced[i] # NoStash =>
               db.intents[i].state = "Pending" /\ db.displaced[i].row.seen # {}

\* A row is hidden exactly by the open, unsigned deletions that name it: a
\* signed or cancelled deletion leaves no claim behind.
SuppressionExact ==
    db.hidden = UNION {DeletionClaims(i, db.intents[i].event) : i \in
        {j \in Intents : db.intents[j].state = "Pending"
                         /\ db.intents[j].event \in Deletions}}

\* Coverage is claimed only for instants a relay vouched for and at which
\* nothing has been evicted since.
CoverageHonest ==
    \A q \in Queries :
        db.coverage[q].from .. db.coverage[q].through \subseteq proven[q]

\* What an edit displaced leaves the edit's stash only because the edit was
\* signed, because the event is held again or deleted, or because a signed
\* event holds its address.
Accounted(i) ==
    LET e == db.displaced[i].event
        c == Current(db', e)
    IN \/ StashesOf(db', e) # {} \/ Held(db', e) \/ TombstoneRefuses(db', e)
       \/ db'.intents[i].state = "Signed"
       \/ c # 0 /\ IsSigned(db'.rows[c])

\* The two ways in which the code loses it.  A later edit of the address retires
\* this one and its stash, and stashes in turn only a row a relay vouched for;
\* and an edit is cancelled while another intent owns the same draft, which
\* still holds the address when the stash is offered again, once and for all.
RetiredByEdit(i) ==
    db.intents[i].state = "Pending" /\ db'.intents[i].state = "None" /\ db'.receipts[i] = "None"
CancelledWhileShared(i) ==
    LET draft == db.intents[i].event
    IN db'.receipts[i] = "Compensated" /\ db'.rows[draft].local = "Pending"
                                       /\ db'.rows[draft].owners # {}

\* Cancelling an edit restores the relay's event it displaced, expired or not,
\* whatever signatures, deletions, expiries and deliveries came between.  The
\* design notes promise it of chained edits too; the code does not keep that
\* promise, and the cases it breaks are the two above and no others.
DisplacedIsAccounted ==
    [][\A i \in Intents : db.displaced[i] # NoStash =>
        Accounted(i) \/ RetiredByEdit(i) \/ CancelledWhileShared(i)]_vars

\* The address, expiration and suppression indexes are exactly what the rows
\* and the open deletions imply.
IndexesExact == IndexExact /\ SuppressionExact

\* Rows, stashes, journals and receipts of a write tell one story.
OwnershipSound == OwnersAgree /\ JournalSound

=============================================================================
