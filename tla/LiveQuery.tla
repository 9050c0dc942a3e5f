------------------------------ MODULE LiveQuery -----------------------------
(***************************************************************************)
(* Live queries, from a committed store mutation to the rows an            *)
(* application holds: the resolver's graph (module Resolver) maintained    *)
(* incrementally, the engine's row projection per observation, and the     *)
(* composing mailbox a slow consumer drains.                               *)
(*                                                                         *)
(* One handler of the engine thread is one action.  The store is reduced   *)
(* to what a projection reads: the current rows with the relays that       *)
(* carried them and the signature state of a local write, the ids a        *)
(* deletion removed, and the row a local replaceable write displaced.      *)
(***************************************************************************)
EXTENDS Resolver

CONSTANTS
    Observer,     \* observation ids
    HandleId,       \* resolver handle ids
    Scene         \* what may happen in a behaviour, one record per scenario:
                  \*   asks[o]: the queries observer o may open, each a record
                  \*     [branches: Seq([root, strict, live]), limit];
                  \*   batches: relay batches, sequences of <<event, relay>>;
                  \*   local, expiring: events this node authors, events that
                  \*     expire;
                  \*   accounts: identities that may be active (or Nil);
                  \*   faulty: opening or projecting may fail to read the store;
                  \*   breaks: so may a recompute round

VARIABLES
    scene,        \* the scenario, fixed by the initial state
    held,         \* the store's current rows: [event -> [seen, local]]
    leftover,         \* events a deletion removed for good
    stash,        \* [local event -> the row it displaced, by event]
    account,      \* the resolver's identity register
    graphs,          \* the resolver: [roots, refs, value, count, root, drops, ops]
    liveOwners,        \* WireOwnership: [handle -> atoms it contributes]
    obs,          \* open observations
    mail,         \* row mailboxes: Nil, or the pending transition per event
    app           \* the rows each application holds

liveVars == <<scene, held, leftover, stash, account, graphs, liveOwners, obs, mail, app>>

----------------------------------------------------------------------------
(* The row projection.                                                     *)

RootNode(r) == <<r, <<>>>>
RootFilters(R, r) == {a.filter : a \in R.value[RootNode(r)]}
Subtree(R, r) == UNION {R.value[n] : n \in FilterNodes(r)}

\* wire_atoms_for_handle: the atoms of the demand scopes that contribute wire.
WireAtoms(R, b) ==
    (IF b.live THEN R.value[RootNode(b.root)] ELSE {}) \cup
    UNION {R.value[ChildOf(n, 1)] :
              n \in {m \in NodesOfType(b.root, "derived") : Node(m).live}}

RowOf(row) == [sig |-> IF row.local = "Pending" THEN "Pending" ELSE "Signed",
               seen |-> row.seen]

\* rows_for: every root atom, pre-bounded by the limit, filtered by the pin of
\* a strict handle, and capped once.
BranchRows(R, store, b) ==
    LET sel == Selection[b.root]
        bound(events) == IF sel.limit = Nil THEN events ELSE NewestOf(events, sel.limit)
        visible(e) == (b.strict /\ sel.relays # {}) => VisibleUnderPin(store[e], sel.relays)
        found == UNION {{e \in bound({x \in DOMAIN store : Satisfies(f, x)}) : visible(e)} :
                           f \in RootFilters(R, b.root)}
    IN  bound(found)

\* observation_rows_for: the branches' union, capped by the aggregate limit.
ObservationRows(R, store, ob) ==
    LET kept(union) == IF ob.limit = Nil THEN union ELSE NewestOf(union, ob.limit)
    IN  [e \in kept(UNION {BranchRows(R, store, ob.branches[i]) : i \in DOMAIN ob.branches})
            |-> RowOf(store[e])]

\* apply_observation_projection: the exact transition from the rows delivered
\* before to the rows now.
RowDelta(last, current) ==
    LET tag(e) == IF e \notin DOMAIN current THEN "Removed"
                  ELSE IF e \notin DOMAIN last THEN "Added"
                  ELSE IF last[e].sig # current[e].sig THEN "Updated"
                  ELSE "SourcesGrew"
        moved == {e \in DOMAIN last \cup DOMAIN current :
                     ~(/\ e \in DOMAIN last /\ e \in DOMAIN current
                       /\ last[e] = current[e])}
    IN  [e \in moved |-> [tag |-> tag(e),
                          row |-> IF e \in DOMAIN current THEN current[e] ELSE Nil]]

----------------------------------------------------------------------------
(* The row mailbox.                                                        *)

\* Mutant: sources that grow behind a pending addition are forgotten.
ComposeForgetsSources(pending, delta) ==
    IF pending = Nil THEN delta
    ELSE IF pending.tag = "Added" /\ delta.tag = "Removed" THEN Nil
    ELSE IF pending.tag = "Added" /\ delta.tag = "SourcesGrew" THEN pending
    ELSE IF pending.tag = "Removed" /\ delta.tag = "Added"
         THEN [tag |-> "Replaced", row |-> delta.row]
    ELSE IF pending.tag = "Added" THEN [tag |-> "Added", row |-> delta.row]
    ELSE delta

\* PendingRows::push, for one event: the pending transition and the next delta.
Compose(pending, delta) ==
    CASE pending = Nil -> delta
      [] pending # Nil /\ pending.tag = "Added" ->
            IF delta.tag = "Removed" THEN Nil
            ELSE [tag |-> "Added",
                  row |-> IF delta.tag = "SourcesGrew"
                            THEN [pending.row EXCEPT !.seen = delta.row.seen]
                            ELSE delta.row]
      [] pending # Nil /\ pending.tag = "SourcesGrew" ->
            IF delta.tag = "Added"
              THEN [tag |-> "SourcesGrew", row |-> delta.row] ELSE delta
      [] pending # Nil /\ pending.tag = "Removed" ->
            IF delta.tag = "Added"
              THEN [tag |-> "Replaced", row |-> delta.row] ELSE pending
      [] pending # Nil /\ pending.tag \in {"Replaced", "Updated"} ->
            IF delta.tag = "Removed" THEN delta
            ELSE [tag |-> pending.tag,
                  row |-> IF delta.tag = "SourcesGrew"
                            THEN [pending.row EXCEPT !.seen = delta.row.seen]
                            ELSE delta.row]

\* RowsSender::send: fold a frame onto the one pending frame.
Send(box, delta) ==
    LET old == IF box = Nil THEN <<>> ELSE box
        next(e) == IF e \notin DOMAIN delta THEN old[e]
                   ELSE Compose(IF e \in DOMAIN old THEN old[e] ELSE Nil, delta[e])
    IN  [e \in {x \in DOMAIN old \cup DOMAIN delta : next(x) # Nil} |-> next(e)]

\* What a consumer does with a frame.
Applied(rows, box) ==
    LET value(e) ==
            IF e \notin DOMAIN box THEN rows[e]
            ELSE IF box[e].tag = "Removed" THEN Nil
            ELSE IF box[e].tag = "SourcesGrew"
                 THEN IF e \in DOMAIN rows
                        THEN [rows[e] EXCEPT !.seen = box[e].row.seen] ELSE Nil
            ELSE box[e].row
    IN  [e \in {x \in DOMAIN rows \cup DOMAIN box : value(x) # Nil} |-> value(e)]

----------------------------------------------------------------------------
(* From a committed mutation to the observations.  "ch" holds the events   *)
(* inserted, removed, seen on more relays (grew, with the relays of the    *)
(* batch in "carried") and promoted to signed (updated).                   *)

Changes(ins, rem, grew, updated, carried) ==
    [inserted |-> ins \ rem, removed |-> rem \ ins,
     grew |-> grew \ (ins \cup rem), updated |-> updated, carried |-> carried]

\* affected_handles: roots whose shape changed, or whose root filters match a
\* changed event.
Affected(before, after, events) ==
    {r \in ToSet(after.roots) :
        \/ r \notin ToSet(before.roots)
        \/ RootFilters(before, r) # RootFilters(after, r)
        \/ Subtree(before, r) # Subtree(after, r)
        \/ \E f \in RootFilters(after, r), e \in events : Satisfies(f, e)}

\* Whether try_apply_committed_row_changes may project without a store read.
Simple(R, ob) ==
    /\ Len(ob.branches) = 1 /\ ob.limit = Nil
    /\ Cardinality(RootFilters(R, ob.branches[1].root)) = 1
    /\ Cardinality(Subtree(R, ob.branches[1].root)) = 1
    /\ ~ob.branches[1].strict
    /\ ob.complete

OnlyFilter(R, ob) == CHOOSE f \in RootFilters(R, ob.branches[1].root) : TRUE
LimitOf(ob) == Selection[ob.branches[1].root].limit

\* A full window that loses a visible row must be refilled from the store.
NeedsRefill(R, ob, ch) ==
    /\ LimitOf(ob) # Nil
    /\ Cardinality(DOMAIN ob.rows) = LimitOf(ob)
    /\ \E e \in ch.removed \cap DOMAIN ob.rows : Satisfies(OnlyFilter(R, ob), e)

\* The remembered rows after the batch, before the window is cut.
RowsAfter(R, store, ob, ch) ==
    LET hit(events) == {e \in events : Satisfies(OnlyFilter(R, ob), e)}
        removed == hit(ch.removed)
        inserted == hit(ch.inserted)
        base == [e \in DOMAIN ob.rows \ removed |-> ob.rows[e]]
        added == [e \in inserted |-> RowOf(store[e])] @@ base
        row(e) == IF e \in hit(ch.updated) THEN RowOf(store[e])
                  ELSE IF e \in hit(ch.grew)
                       THEN [sig |-> "Signed", seen |-> added[e].seen \cup ch.carried[e]]
                  ELSE added[e]
    IN  [e \in DOMAIN added |-> row(e)]

Window(ob, rows) ==
    IF LimitOf(ob) = Nil THEN rows
    ELSE [e \in NewestOf(DOMAIN rows, LimitOf(ob)) |-> rows[e]]

\* An unlimited projection reports every inserted and every promoted row as
\* such; a bounded one reports the difference of its two windows.
DirectDelta(R, ob, ch, rows) ==
    LET told(events, tag) ==
            [e \in {x \in events \cap DOMAIN rows : Satisfies(OnlyFilter(R, ob), x)} |->
                [tag |-> tag, row |-> rows[e]]]
    IN  IF LimitOf(ob) # Nil THEN RowDelta(ob.rows, rows)
        ELSE told(ch.inserted, "Added") @@ told(ch.updated, "Updated")
                 @@ RowDelta(ob.rows, rows)

\* The observation and its frame after a full refresh; a failed read leaves the
\* delivered rows alone and marks the projection incomplete.
Refreshed(ob, rows) ==
    <<[ob EXCEPT !.complete = TRUE, !.missed = FALSE, !.rows = rows], RowDelta(ob.rows, rows)>>

Refresh(R, store, o, unread) ==
    IF o \in unread THEN <<[obs[o] EXCEPT !.complete = FALSE], <<>>>>
    ELSE Refreshed(obs[o], ObservationRows(R, store, obs[o]))

\* try_apply_committed_row_changes, or the refresh it falls back to.
DirectlyProjected(R, ob, ch, rows) == <<[ob EXCEPT !.rows = rows], DirectDelta(R, ob, ch, rows)>>

ApplyRowChanges(R, store, o, ch, unread) ==
    IF ~Simple(R, obs[o]) \/ NeedsRefill(R, obs[o], ch)
    THEN Refresh(R, store, o, unread)
    ELSE DirectlyProjected(R, obs[o], ch, Window(obs[o], RowsAfter(R, store, obs[o], ch)))

Emit(step) ==
    /\ obs' = [o \in DOMAIN obs |-> step[o][1]]
    /\ mail' = [o \in DOMAIN obs |->
                   IF step[o][2] = <<>> THEN mail[o] ELSE Send(mail[o], step[o][2])]

BranchesOf(o) == ToSet(obs[o].branches)
Rebuilt(R) == [h \in DOMAIN liveOwners |->
                  WireAtoms(R, CHOOSE b \in UNION {BranchesOf(o) : o \in DOMAIN obs} :
                                   b.h = h)]

\* The pass is over; "due" are the nodes it set out to recompute.
Settled(R, due) ==
    [R EXCEPT !.ops = {}, !.broke = FALSE,
              !.missed = IF R.broke THEN (@ \cup {n[1] : n \in due}) \cap ToSet(R.roots) ELSE @]

Unread == {{}} \cup (IF scene.faulty THEN {{o} : o \in DOMAIN obs} ELSE {})
Broken(R) == {Nil} \cup (IF scene.breaks THEN DerivedNodes(R) ELSE {})

\* An observation whose rows a stopped pass left unprojected.
Missed(os) == [o \in DOMAIN obs |-> IF o \in os THEN [obs[o] EXCEPT !.missed = TRUE] ELSE obs[o]]

\* apply_committed_mutation_with.  An error of the resolver after the commit
\* abandons the whole projection: nothing records that the rows are behind.
ApplyCommitted(R, store, ch, events, broad, unread) ==
    LET recompiled == R.ops # {}
        touched == {o \in DOMAIN obs :
                       \E b \in BranchesOf(o) : b.root \in Affected(graphs, R, events)}
        behind == IF recompiled \/ broad THEN DOMAIN obs ELSE touched
    IN  /\ graphs' = Settled(R, Dirty(graphs, events))
        /\ IF R.broke THEN obs' = Missed(behind) /\ UNCHANGED <<liveOwners, mail>>
           ELSE /\ Emit([o \in DOMAIN obs |->
                            IF recompiled \/ broad THEN Refresh(R, store, o, unread)
                            ELSE IF o \in touched THEN ApplyRowChanges(R, store, o, ch, unread)
                            ELSE <<obs[o], <<>>>>])
                /\ liveOwners' = IF recompiled THEN Rebuilt(R) ELSE liveOwners

----------------------------------------------------------------------------
(* The store's doors, as far as a projection can tell them apart.          *)

\* insert_batch, one frame: a duplicate grows its provenance and satisfies a
\* pending local owner; a newer replaceable event supersedes; a deletion
\* removes its targets; anything older or deleted is refused.
StoreInsert(S, frame) ==
    LET e == frame[1]
        rivals == {f \in DOMAIN S.rows : /\ Body[e].address # Nil
                                         /\ Body[f].address = Body[e].address}
        deleted == Body[e].targets \cap DOMAIN S.rows
        row == [seen |-> {frame[2]}, local |-> Nil]
    IN  IF e \in S.gone THEN S
        ELSE IF e \in DOMAIN S.rows
        THEN LET old == S.rows[e]
             IN  [S EXCEPT
                     !.rows[e] = [seen |-> old.seen \cup {frame[2]},
                                  local |-> IF old.local = Nil THEN Nil ELSE "Signed"],
                     !.grew = IF frame[2] \in old.seen THEN @ ELSE @ \cup {e},
                     !.satisfied = @ \/ old.local = "Pending"]
        ELSE IF \E f \in rivals : Newer(f, e) THEN S
        ELSE [S EXCEPT !.rows = (e :> row) @@
                           [f \in DOMAIN @ \ (rivals \cup deleted) |-> @[f]],
                       !.gone = @ \cup Body[e].targets,
                       !.ins = @ \cup {e},
                       !.rem = @ \cup rivals \cup deleted]

Carried(batch) ==
    [e \in {batch[i][1] : i \in DOMAIN batch} |->
        {batch[i][2] : i \in {j \in DOMAIN batch : batch[j][1] = e}}]

----------------------------------------------------------------------------
(* Handlers.                                                               *)

LiveInit ==
    /\ held = <<>> /\ leftover = {} /\ stash = <<>>
    /\ scene \in Scene /\ account \in scene.accounts
    /\ graphs = [roots |-> <<>>, refs |-> [r \in Root |-> 0], value |-> <<>>,
              count |-> <<>>, root |-> <<>>, drops |-> {}, ops |-> {}, broke |-> FALSE, missed |-> {}]
    /\ liveOwners = <<>> /\ obs = <<>> /\ mail = <<>> /\ app = <<>>

\* ingest_relay_observations_governed.
IngestRelayBatch(batch) ==
    \E S \in {FoldLeft(StoreInsert,
                  [rows |-> held, gone |-> leftover, ins |-> {}, rem |-> {},
                   grew |-> {}, satisfied |-> FALSE], batch)} :
    \E events \in {S.ins \cup S.rem \cup S.grew} :
        /\ held' = S.rows /\ leftover' = S.gone
        /\ stash' = [e \in {x \in DOMAIN stash :
                        x \in DOMAIN S.rows => S.rows[x].local = "Pending"} |-> stash[e]]
        /\ \E unread \in Unread, broken \in Broken(graphs) :
              ApplyCommitted(React(graphs, events, S.rows, account, broken), S.rows,
                  Changes(S.ins, S.rem, S.grew, {}, Carried(batch)), events,
                  S.satisfied, unread)
        /\ UNCHANGED <<account, app>>

\* retract: project a mutation the store has already committed.
Retract(store, ins, rem) ==
    \E unread \in Unread, broken \in Broken(graphs) :
        ApplyCommitted(React(graphs, ins \cup rem, store, account, broken), store,
            Changes(ins, rem, {}, {}, <<>>), ins \cup rem, FALSE, unread)

\* accept_local: the pending row is visible at once and may supersede the row
\* it will restore if the write is compensated.
AcceptLocal(e) ==
    LET rivals == {f \in DOMAIN held : /\ Body[e].address # Nil
                                       /\ Body[f].address = Body[e].address}
        store == (e :> [seen |-> {}, local |-> "Pending"]) @@
                     [f \in DOMAIN held \ rivals |-> held[f]]
    IN  /\ e \notin leftover \cup DOMAIN held \cup DOMAIN stash
        /\ ~\E f \in rivals : Newer(f, e)
        /\ held' = store
        /\ stash' = (e :> [f \in rivals |-> held[f]]) @@ stash
        /\ Retract(store, {e}, rivals)
        /\ UNCHANGED <<leftover, account, app>>

\* promote_signed and react_to_signature_promotion: no graph pass, no drain.
Promote(e) ==
    LET current == e \in DOMAIN held
        store == IF current THEN [held EXCEPT ![e].local = "Signed"] ELSE held
    IN  /\ held' = store
        /\ stash' = [f \in DOMAIN stash \ {e} |-> stash[f]]
        /\ IF current
             THEN \E unread \in Unread :
                     ApplyCommitted(graphs, store, Changes({}, {}, {}, {e}, <<>>), {e},
                         FALSE, unread)
             ELSE UNCHANGED <<graphs, liveOwners, obs, mail>>
        /\ UNCHANGED <<leftover, account, app>>

\* The pre-signature compensation door and react_to_compensation: the pending
\* row goes, and what it displaced comes back if it was still current.
Compensate(e) ==
    LET restored == IF e \notin DOMAIN held THEN <<>>
                    ELSE [f \in DOMAIN stash[e] \ leftover |-> stash[e][f]]
        store == restored @@ [f \in DOMAIN held \ {e} |-> held[f]]
    IN  /\ held' = store
        /\ stash' = [f \in DOMAIN stash \ {e} |-> stash[f]]
        /\ Retract(store, DOMAIN restored, {e})
        /\ UNCHANGED <<leftover, account, app>>

\* tick: NIP-40 expiry.
Expire(e) ==
    LET store == [f \in DOMAIN held \ {e} |-> held[f]]
    IN  /\ e \in DOMAIN held
        /\ held' = store
        /\ Retract(store, {}, {e})
        /\ UNCHANGED <<leftover, stash, account, app>>

\* on_set_active_pubkey: a re-root always recompiles, unless a read failed.
OnSetActivePubkey(a) ==
    /\ a # account /\ account' = a
    /\ \E unread \in Unread, broken \in Broken(graphs) :
          \E R \in {SetActivePubkey(graphs, held, a, broken)} :
              /\ graphs' = Settled(R, ReactiveNodes(graphs))
              /\ IF R.broke THEN obs' = Missed(DOMAIN obs) /\ UNCHANGED <<liveOwners, mail>>
                 ELSE /\ Emit([o \in DOMAIN obs |-> Refresh(R, held, o, unread)])
                      /\ liveOwners' = Rebuilt(R)
    /\ UNCHANGED <<held, leftover, stash, app>>

\* consume_resolver_delta: a closed atom leaves every handle that indexed it.
Consume(own, R) == [h \in DOMAIN own |-> own[h] \ {op[2] : op \in R.ops}]

Free == SetToSeq(HandleId \ (DOMAIN graphs.root \cup graphs.drops))
Branch(q, i) == [h |-> Free[i]] @@ q.branches[i]

Subscribed(acc, R) == [res |-> R, owned |-> Consume(acc.owned, R)]

SubscribeFirst(q, n) ==
    FoldLeft(LAMBDA acc, i :
                 Subscribed(acc, SubscribeTo(acc.res, Free[i], q.branches[i].root, held, account)),
             [res |-> graphs, owned |-> liveOwners], [i \in 1..n |-> i])

Withdrawn(a, h, R) ==
    [res |-> [R EXCEPT !.drops = {h}],
     owned |-> Consume([k \in DOMAIN a.owned \ {h} |-> a.owned[k]], R)]

WithdrawBranches(acc, handles) ==
    FoldLeft(LAMBDA a, h : Withdrawn(a, h, CloseQuery(a.res, h)), acc, handles)

\* open_observation, accepted: every branch subscribed, the union projected,
\* the handles attached to the wire, and the first frame put in the mailbox.
OpenObservation(o, q) ==
    LET branches == [i \in DOMAIN q.branches |-> Branch(q, i)]
        opened == [branches |-> branches, limit |-> q.limit, rows |-> <<>>,
                   complete |-> TRUE, missed |-> FALSE]
    IN  /\ o \notin DOMAIN obs
        /\ Len(Free) >= Len(q.branches)
        /\ \E acc \in {SubscribeFirst(q, Len(q.branches))} :
           \E rows \in {ObservationRows(acc.res, held, opened)} :
              /\ graphs' = Settled(acc.res, {})
              /\ liveOwners' = [h \in {branches[i].h : i \in DOMAIN branches} |->
                              WireAtoms(acc.res, CHOOSE b \in ToSet(branches) : b.h = h)]
                          @@ acc.owned
              /\ obs' = (o :> [opened EXCEPT !.rows = rows]) @@ obs
              /\ mail' = (o :> Send(Nil, RowDelta(<<>>, rows))) @@ mail
        /\ app' = (o :> <<>>) @@ app
        /\ UNCHANGED <<held, leftover, stash, account>>

Undo(acc) == graphs' = Settled(acc.res, {}) /\ liveOwners' = acc.owned

\* open_observation, refused: the n-th branch's resolve, or a later read,
\* failed, and every branch opened before it is withdrawn.
RefuseObservation(q, n) ==
    /\ scene.faulty
    /\ Len(Free) >= Len(q.branches)
    /\ n < Len(q.branches) => ReadsStore(q.branches[n + 1].root, account, held)
    /\ Undo(WithdrawBranches(SubscribeFirst(q, n), [i \in 1..n |-> Free[i]]))
    /\ UNCHANGED <<held, leftover, stash, account, obs, mail, app>>

\* on_unsubscribe; the dropped handles are drained by a later call.
CloseObservation(o) ==
    LET handles == [i \in DOMAIN obs[o].branches |-> obs[o].branches[i].h]
        others(f) == [p \in DOMAIN f \ {o} |-> f[p]]
    IN  /\ Undo(WithdrawBranches([res |-> graphs, owned |-> liveOwners], handles))
        /\ obs' = others(obs) /\ mail' = others(mail) /\ app' = others(app)
        /\ UNCHANGED <<held, leftover, stash, account>>

\* RowsReceiver::recv and the consumer's fold.
Receive(o) ==
    /\ mail[o] # Nil
    /\ app' = [app EXCEPT ![o] = Applied(@, mail[o])]
    /\ mail' = [mail EXCEPT ![o] = Nil]
    /\ UNCHANGED <<held, leftover, stash, account, graphs, liveOwners, obs>>

LiveNext ==
    /\ scene' = scene
    /\ \/ \E batch \in scene.batches : IngestRelayBatch(batch)
       \/ \E e \in scene.local : AcceptLocal(e)
       \/ \E e \in DOMAIN stash : Promote(e) \/ Compensate(e)
       \/ \E e \in scene.expiring : Expire(e)
       \/ \E a \in scene.accounts : OnSetActivePubkey(a)
       \/ \E o \in Observer : \E q \in scene.asks[o] :
             \/ OpenObservation(o, q)
             \/ \E n \in 0..Len(q.branches) : RefuseObservation(q, n)
       \/ \E o \in DOMAIN obs : CloseObservation(o) \/ Receive(o)

LiveSpec == LiveInit /\ [][LiveNext]_liveVars

----------------------------------------------------------------------------
(* Properties.                                                             *)

\* The graph maintained by recompute rounds is the graph a fresh subscription
\* would build from the store and the active account now; each atom's count is
\* the number of filter nodes producing it; and nodes exist only for roots some
\* handle holds, counted once per handle.  The values of a root a stopped pass
\* missed are not claimed: run_recompute returns its error with the graph half
\* updated, and nothing repeats the pass.  The counts are claimed there too.
GraphExact ==
    /\ DOMAIN graphs.value = UNION {Nodes(r) : r \in ToSet(graphs.roots)}
    /\ \A n \in DOMAIN graphs.value :
          n[1] \notin graphs.missed => graphs.value[n] = Evaluate(Node(n), held, account)
    /\ graphs.count = LET all == UNION {FilterNodes(r) : r \in ToSet(graphs.roots)}
                   IN  [a \in UNION {graphs.value[n] : n \in all} |->
                           Cardinality({n \in all : a \in graphs.value[n]})]
    /\ \A r \in Root :
          /\ graphs.refs[r] = Cardinality({h \in DOMAIN graphs.root : graphs.root[h] = r})
          /\ Contains(graphs.roots, r) <=> graphs.refs[r] > 0

\* The rows an observation remembers, reached by applying committed deltas
\* without reading the store, are the rows a full read would project: whatever
\* mixture of insertions, supersessions, deletions, expiries, promotions and
\* provenance growth led here.  An observation whose read failed says so
\* (complete).  One whose batch was abandoned with a stopped pass (missed) does
\* not, and its rows are not claimed until it is next refreshed.
RowsExact ==
    \A o \in DOMAIN obs :
        obs[o].complete /\ ~obs[o].missed => obs[o].rows = ObservationRows(graphs, held, obs[o])

\* A consumer that skipped any number of frames and applies the one composed
\* frame in its mailbox to the rows it holds arrives at the engine's rows.
FoldExact ==
    \A o \in DOMAIN obs :
        Applied(app[o], IF mail[o] = Nil THEN <<>> ELSE mail[o]) = obs[o].rows

\* The graph and the rows, each maintained step by step, are what a fresh
\* subscription and a full read would give, but for what a store failure in
\* the middle of a recompute pass leaves behind.
ViewsExact == GraphExact /\ RowsExact

============================================================================
