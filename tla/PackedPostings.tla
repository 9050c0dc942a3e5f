--------------------------- MODULE PackedPostings ---------------------------
(***************************************************************************)
(* The physical layout of the redb event store: canonical rows under       *)
(* surrogate keys, interned relays with reference counts, and the packed    *)
(* postings index the ordered queries read (crates/nmp-store/src/           *)
(* redb_store/{canonical,postings,postings_store,query,ingest_txn}.rs).     *)
(*                                                                         *)
(* Postings are an LSM: every write transaction publishes its new events as *)
(* one immutable level-0 run, a removal adds its key to a death block of the*)
(* run that holds it, and full levels are merged.  A query merges the lists *)
(* of all runs newest first.  The index is never consulted for truth: what  *)
(* can go wrong is a row that a merge, a rewrite or a cursor loses, repeats *)
(* or brings back, and that shows only after many transactions.             *)
(*                                                                         *)
(* Bytes, varints, checks of stored bytes and the hash that shards a prefix *)
(* are abstracted: a run is a dictionary (key -> event) and one posting     *)
(* list per prefix.                                                         *)
(***************************************************************************)
EXTENDS Integers, Sequences, FiniteSets, Functions, FiniteSetsExt, SequencesExt

CONSTANTS
    Event,          \* event ids
    Attr,           \* Event -> [author, kind, tags, at, rank]; rank orders the ids
    Letter,         \* tag -> its letter, a number from 1 in the order of the letters
    Relay,
    Everything,     \* the prefix of the global family
    Lookups,        \* the reads compared with the reference in every state
    Stored,         \* transactions a store may open with: sequences of sets of events
    BaseFanIn, LargeFanIn,   \* runs of level 0, of a higher level, merged into one
    MaxDeathBlocks,
    MaxKey, MaxOps  \* bounds: event keys ever allocated, operations of a transaction

ASSUME Bounds ==
    /\ {BaseFanIn, LargeFanIn} \subseteq Nat \ {0, 1}
    /\ {MaxDeathBlocks, MaxKey, MaxOps} \subseteq Nat \ {0}

VARIABLES
    disk,       \* the committed tables
    txn,      \* the open governed write, or Closed
    refused   \* some commit failed on the consistency checks of the index

packedVars == <<disk, txn, refused>>

(***************************************************************************)
(* Small helpers over tables (functions whose domain grows and shrinks).    *)
(***************************************************************************)
Put(f, x, v) == [y \in DOMAIN f \cup {x} |-> IF y = x THEN v ELSE f[y]]

Drop(f, S) == Restrict(f, DOMAIN f \ S)

NoTable == [x \in {} |-> x]

(***************************************************************************)
(* The canonical tables.                                                    *)
(***************************************************************************)
EmptyDb ==
    [rows |-> NoTable,      \* EVENTS: key -> [ev, seen (relay keys), local]
     ids |-> NoTable,       \* EVENT_IDS: event -> key
     nextKey |-> 1,
     relays |-> NoTable,    \* RELAYS: relay key -> [url, refs]
     relayIds |-> NoTable,  \* RELAY_IDS: url -> relay key
     nextRelay |-> 1,
     runs |-> NoTable,      \* run id -> [level, min, max, live, dict, lists, dead]
     byMin |-> NoTable,     \* the BY_MIN column: smallest key -> run id
     nextRun |-> 1,
     err |-> FALSE]         \* an operation of the transaction returned Err

\* An operation on the working tables that fails leaves the rest undone.
Fail(D) == [D EXCEPT !.err = TRUE]

Closed == [open |-> FALSE]

\* GovernedWrite::begin: working tables, the PostingsBatch and the overlay of
\* relay reference counts that flush_pending writes back.
Opened(D) ==
    [open |-> TRUE, D |-> D, additions |-> {}, deaths |-> {},
     overlay |-> NoTable, ops |-> 0]

EffectiveRef(t, k) == IF k \in DOMAIN t.overlay THEN t.overlay[k] ELSE t.D.relays[k].refs

CountRef(t, k, by) == [t EXCEPT !.overlay = Put(@, k, EffectiveRef(t, k) + by)]

RemoveObservation(t, key, k) ==
    IF k \in t.D.rows[key].seen
    THEN CountRef([t EXCEPT !.D.rows[key].seen = @ \ {k}], k, -1)
    ELSE t

RemoveObservations(t, key, S) ==
    FoldSet(LAMBDA k, acc : RemoveObservation(acc, key, k), t, S)

Intern(t, relay) ==
    IF relay \in DOMAIN t.D.relayIds
    THEN t
    ELSE LET k == t.D.nextRelay
         IN  [t EXCEPT !.D.relays = Put(@, k, [url |-> relay, refs |-> 0]),
                       !.D.relayIds = Put(@, relay, k),
                       !.D.nextRelay = k + 1]

MergeObservation(t, key, relay) ==
    LET interned == Intern(t, relay)
        k == interned.D.relayIds[relay]
    IN  IF k \in interned.D.rows[key].seen
        THEN interned
        ELSE CountRef([interned EXCEPT !.D.rows[key].seen = @ \cup {k}], k, 1)

MergeObservations(t, key, R) ==
    FoldSet(LAMBDA r, acc : MergeObservation(acc, key, r), t, R)

InsertNew(t, e, R, local) ==
    LET key == t.D.nextKey
        row == [t EXCEPT !.D.nextKey = key + 1,
                         !.D.rows = Put(@, key, [ev |-> e, seen |-> {}, local |-> local]),
                         !.D.ids = Put(@, e, key)]
    IN  MergeObservations(row, key, R)

RemoveByKey(t, key) ==
    LET bare == RemoveObservations(t, key, t.D.rows[key].seen)
    IN  [bare EXCEPT !.D.ids = Drop(@, {t.D.rows[key].ev}), !.D.rows = Drop(@, {key})]

\* read_provenance, load_seen: the relays a row was observed from.
SeenFrom(D, key) == {D.relays[k].url : k \in D.rows[key].seen}

ReplaceProvenance(t, key, R, local) ==
    LET gone == {k \in t.D.rows[key].seen : t.D.relays[k].url \notin R}
        pruned == RemoveObservations(t, key, gone)
    IN  [MergeObservations(pruned, key, R) EXCEPT !.D.rows[key].local = local]

\* flush_pending: counts are written back and a relay nobody observed from any
\* more loses its row and its interned id.
FlushPending(t) ==
    LET idle == {k \in DOMAIN t.overlay : t.overlay[k] = 0}
        urls == {t.D.relays[k].url : k \in idle}
        counted == [k \in DOMAIN t.D.relays |->
                       [t.D.relays[k] EXCEPT !.refs = EffectiveRef(t, k)]]
    IN  [t EXCEPT !.D.relays = Drop(counted, idle),
                  !.D.relayIds = Drop(@, urls),
                  !.overlay = NoTable]

(***************************************************************************)
(* PostingsBatch: what the transaction owes the index.                      *)
(***************************************************************************)
BatchInsert(t, key) ==
    [t EXCEPT !.additions = @ \cup {key}, !.deaths = @ \ {key}]

BatchRemove(t, key) ==
    IF key \in t.additions
    THEN [t EXCEPT !.additions = @ \ {key}]
    ELSE [t EXCEPT !.deaths = @ \cup {key}]

(***************************************************************************)
(* Runs: a dictionary of keys and, per prefix, a list in canonical order    *)
(* (newest first, then id, then key).                                       *)
(***************************************************************************)
PostingPrefixes(e) ==
    {Everything, Attr[e].author, Attr[e].kind} \cup Attr[e].tags

EventBefore(e, f) ==
    \/ Attr[e].at > Attr[f].at
    \/ Attr[e].at = Attr[f].at /\ Attr[e].rank < Attr[f].rank

Before(dict, j, k) ==
    EventBefore(dict[j], dict[k]) \/ (dict[j] = dict[k] /\ j < k)

Sorted(S, Less(_, _)) ==
    [i \in 1..Cardinality(S) |->
        CHOOSE x \in S : Cardinality({y \in S : Less(y, x)}) = i - 1]

NoDeaths == [b \in 0..(MaxDeathBlocks - 1) |-> {}]

EncodeRun(dict) ==
    [p \in UNION {PostingPrefixes(dict[k]) : k \in DOMAIN dict} |->
        Sorted({k \in DOMAIN dict : p \in PostingPrefixes(dict[k])},
               LAMBDA j, k : Before(dict, j, k))]

Dead(run) == UNION {run.dead[b] : b \in DOMAIN run.dead}

\* validate_run_metas and the checks of RunMeta: ranges and live counts are
\* possible and no two runs overlap.
MetasValid(D) ==
    /\ \A r \in DOMAIN D.runs :
          /\ D.runs[r].min <= D.runs[r].max
          /\ D.runs[r].live \in 1..(D.runs[r].max - D.runs[r].min + 1)
    /\ \A r, o \in DOMAIN D.runs :
          r # o => D.runs[r].max < D.runs[o].min \/ D.runs[o].max < D.runs[r].min

\* load_run_catalog: the BY_MIN column names every run once, under its smallest
\* key.  Every door of the index refuses any other catalog.
CatalogValid(D) ==
    /\ MetasValid(D)
    /\ \A r \in DOMAIN D.runs :
          D.runs[r].min \in DOMAIN D.byMin /\ D.byMin[D.runs[r].min] = r
    /\ Cardinality(DOMAIN D.byMin) = Cardinality(DOMAIN D.runs)

AllocateRunId(D) ==
    IF CatalogValid(D) /\ \A r \in DOMAIN D.runs : r < D.nextRun
    THEN [D EXCEPT !.nextRun = @ + 1]
    ELSE Fail(D)

NewRun(level, dict, lists) ==
    [level |-> level, min |-> Min(DOMAIN dict), max |-> Max(DOMAIN dict),
     live |-> Cardinality(DOMAIN dict), dict |-> dict, lists |-> lists,
     dead |-> NoDeaths]

InsertRun(D, id, level, dict, lists) ==
    [D EXCEPT !.runs = Put(@, id, NewRun(level, dict, lists)),
              !.byMin = Put(@, Min(DOMAIN dict), id)]

DeleteRun(D, r) ==
    [D EXCEPT !.runs = Drop(@, {r}), !.byMin = Drop(@, {D.runs[r].min})]

DeleteRuns(D, R) == FoldSet(LAMBDA r, acc : DeleteRun(acc, r), D, R)

(***************************************************************************)
(* The k-way merge of posting lists shared by compaction and scan: the heap *)
(* yields the first head in canonical order.  Heads that tie are one posting.*)
(***************************************************************************)
RECURSIVE MergeLists(_, _)
MergeLists(dict, lists) ==
    LET heads == {i \in DOMAIN lists : lists[i] # <<>>}
        first == CHOOSE i \in heads : \A j \in heads :
                    ~Before(dict, Head(lists[j]), Head(lists[i]))
    IN  IF heads = {}
        THEN <<>>
        ELSE <<Head(lists[first])>>
                \o MergeLists(dict, [lists EXCEPT ![first] = Tail(@)])

\* compact_segment drops a posting equal to the one it has just written.
Once(list) ==
    LET kept == {i \in DOMAIN list : i = 1 \/ list[i] # list[i - 1]}
    IN  [i \in 1..Cardinality(kept) |-> list[Sorted(kept, <)[i]]]

UnionDict(D, R) ==
    [k \in UNION {DOMAIN D.runs[r].dict : r \in R} |->
        D.runs[CHOOSE r \in R : k \in DOMAIN D.runs[r].dict].dict[k]]

\* SegmentView::prefix: the posting list of a prefix, if the run has one.
ListOf(run, p) == IF p \in DOMAIN run.lists THEN run.lists[p] ELSE <<>>

\* compact_segment: the survivors of the cohort, prefix by prefix.  A
\* prefix whose postings are all dead leaves the segment.
CompactLists(D, cohort, survivors) ==
    LET dict == UnionDict(D, Range(cohort))
        Live(r, p) == SelectSeq(ListOf(D.runs[r], p), LAMBDA k : k \in survivors)
        prefixes == {p \in UNION {DOMAIN D.runs[r].lists : r \in Range(cohort)} :
                        \E i \in DOMAIN cohort : Live(cohort[i], p) # <<>>}
    IN  [p \in prefixes |->
            Once(MergeLists(dict, [i \in DOMAIN cohort |-> Live(cohort[i], p)]))]

Cohort(D, cohort, dead) ==
    LET Keys(i) == DOMAIN D.runs[cohort[i]].dict \ dead
    IN  [survivors |-> UNION {Keys(i) : i \in DOMAIN cohort},
         ordered |-> \A i, j \in DOMAIN cohort : i < j =>
                        \A k \in Keys(i), l \in Keys(j) : k < l]

\* stream_compaction_cohort, delete_run and insert_run_catalog: the dictionary
\* must come out in key order, the new run is named while the old ones still
\* stand, and its catalog entry is written after they are gone.
Publish(D, cohort, level, dead) ==
    LET out == Cohort(D, cohort, dead)
        named == AllocateRunId(D)
        dict == Restrict(UnionDict(D, Range(cohort)), out.survivors)
    IN  IF ~out.ordered \/ named.err
        THEN Fail(D)
        ELSE InsertRun(DeleteRuns(named, Range(cohort)), D.nextRun, level, dict,
                       CompactLists(D, cohort, out.survivors))

\* A rewrite that leaves nothing is refused: the run was counted as live.
RewriteRunWithoutDead(D, r, dead) ==
    IF Cohort(D, <<r>>, dead).survivors = {}
    THEN Fail(D)
    ELSE Publish(D, <<r>>, D.runs[r].level, dead)

\* A cohort that died in full is only deleted.
CompactCohort(D, cohort, level) ==
    LET dead == UNION {Dead(D.runs[r]) : r \in Range(cohort)}
    IN  IF Cohort(D, cohort, dead).survivors = {} /\ Cohort(D, cohort, dead).ordered
        THEN DeleteRuns(D, Range(cohort))
        ELSE Publish(D, cohort, level + 1, dead)

RECURSIVE CompactOverfullLevels(_, _)
CompactOverfullLevels(D, level) ==
    LET fanIn == IF level = 0 THEN BaseFanIn ELSE LargeFanIn
        mine == {r \in DOMAIN D.runs : D.runs[r].level = level}
        oldest == Sorted(mine, LAMBDA r, o : D.runs[r].min < D.runs[o].min)
    IN  IF D.err THEN D
        ELSE IF Cardinality(mine) >= fanIn
        THEN CompactOverfullLevels(CompactCohort(D, SubSeq(oldest, 1, fanIn), level), level)
        ELSE IF \E r \in DOMAIN D.runs : D.runs[r].level > level
        THEN CompactOverfullLevels(D, level + 1)
        ELSE D

(***************************************************************************)
(* Deaths: a binary counter of blocks per run.  The fresh keys are carried   *)
(* through the occupied blocks to the first free one; a full counter rewrites*)
(* the run.                                                                 *)
(***************************************************************************)
FreeBlock(run) == {b \in DOMAIN run.dead : run.dead[b] = {}}

\* The carry takes the fresh keys only, and the blocks it passes are emptied.
CarryFresh(run, fresh) ==
    LET free == Min(FreeBlock(run))
    IN  [b \in DOMAIN run.dead |->
            IF b < free THEN {} ELSE IF b = free THEN fresh ELSE run.dead[b]]

Carry(run, fresh) ==
    LET free == Min(FreeBlock(run))
    IN  [b \in DOMAIN run.dead |->
            IF b < free THEN {}
            ELSE IF b = free THEN fresh \cup UNION {run.dead[c] : c \in 0..(free - 1)}
            ELSE run.dead[b]]

ApplyRunDeaths(D, r, keys) ==
    LET run == D.runs[r]
        fresh == keys \ Dead(run)
        live == Cardinality(DOMAIN run.dict) - Cardinality(Dead(run)) - Cardinality(fresh)
    IN  CASE fresh = {} -> D
          [] fresh # {} /\ live < 0 -> Fail(D)
          [] fresh # {} /\ live = 0 -> DeleteRun(D, r)
          [] fresh # {} /\ live > 0 /\ FreeBlock(run) # {} ->
                [D EXCEPT !.runs[r].dead = Carry(run, fresh), !.runs[r].live = live]
          [] OTHER -> RewriteRunWithoutDead(D, r, Dead(run) \cup fresh)

\* The run whose key range covers a dead key, by the BY_MIN column.
RunOf(D, key) ==
    LET below == {m \in DOMAIN D.byMin : m <= key}
    IN  {r \in {D.byMin[m] : m \in IF below = {} THEN {} ELSE {Max(below)}} :
            key <= D.runs[r].max}

ApplyDeaths(D, deaths) ==
    FoldSet(LAMBDA r, acc :
               IF acc.err THEN acc
               ELSE ApplyRunDeaths(acc, r, {k \in deaths : r \in RunOf(D, k)}),
            D, {r \in DOMAIN D.runs : \E k \in deaths : r \in RunOf(D, k)})

PublishPending(D, additions) ==
    LET dict == [k \in additions |-> D.rows[k].ev]
        named == AllocateRunId(D)
    IN  IF named.err
        THEN named
        ELSE CompactOverfullLevels(InsertRun(named, D.nextRun, 0, dict, EncodeRun(dict)), 0)

FlushPostings(D, additions, deaths) ==
    LET buried == ApplyDeaths(D, deaths)
    IN  IF buried.err \/ additions = {} THEN buried ELSE PublishPending(buried, additions)

(***************************************************************************)
(* Ordered reads.  A filter is [ids, authors, tags, kinds, since, until]; a  *)
(* query adds the pinned relays, the exclusive cursor and the limit, where   *)
(* {} (relays), Nowhere (cursor) and 0 (limit) stand for None.  Its `hidden` *)
(* are the events that pending deletions suppress in the snapshot it reads:  *)
(* a table of its own (EventStore), which the index does not know.           *)
(***************************************************************************)
Nowhere == [at |-> 0, rank |-> 0]

Letters(q) == {Letter[v] : v \in q.tags}
Wanted(q, letter) == {v \in q.tags : Letter[v] = letter}

\* plan_ordered_query: the candidate index of the lowest tie rank, of the tag
\* letters the first.
Plan(q) ==
    CASE q.authors # {} -> [index |-> <<"author", 0>>, prefixes |-> q.authors]
      [] q.authors = {} /\ q.tags # {} ->
            [index |-> <<"tag", Min(Letters(q))>>, prefixes |-> Wanted(q, Min(Letters(q)))]
      [] q.authors \cup q.tags = {} /\ q.kinds # {} -> [index |-> <<"kind", 0>>, prefixes |-> q.kinds]
      [] OTHER -> [index |-> <<"global", 0>>, prefixes |-> {Everything}]

Unindexed == <<"none", 0>>

\* matches_prepared_filter_after_index: the dimension the index already answered
\* is not tested again; every other letter must match by itself.
Matches(e, q, indexed) ==
    /\ q.ids = {} \/ e \in q.ids
    /\ indexed[1] = "author" \/ q.authors = {} \/ Attr[e].author \in q.authors
    /\ indexed[1] = "kind" \/ q.kinds = {} \/ Attr[e].kind \in q.kinds
    /\ q.since <= Attr[e].at /\ Attr[e].at <= q.until
    /\ \A letter \in Letters(q) \ {indexed[2]} : Attr[e].tags \cap Wanted(q, letter) # {}

\* A posting list is searched by (created_at, id), newest first: the posting
\* stands before the target.
StandsBefore(a, target) ==
    target.at < a.at \/ (target.at = a.at /\ a.rank < target.rank)

\* binary_search_index over postings [lo, hi): the index of the target, or the
\* one it would have.
RECURSIVE Search(_, _, _, _, _)
Search(dict, list, target, lo, hi) ==
    LET mid == lo + (hi - lo) \div 2
        a == Attr[dict[list[mid + 1]]]
    IN  IF lo >= hi THEN [found |-> FALSE, at |-> lo]
        ELSE IF StandsBefore(a, target) THEN Search(dict, list, target, mid + 1, hi)
        ELSE IF <<a.at, a.rank>> = <<target.at, target.rank>> THEN [found |-> TRUE, at |-> mid]
        ELSE Search(dict, list, target, lo, mid)

CursorStart(dict, list, q) ==
    LET top == Search(dict, list, [at |-> q.until, rank |-> 0], 0, Len(list)).at
        after == Search(dict, list, q.before, 0, Len(list))
    IN  IF q.before = Nowhere
        THEN top
        ELSE Max({top, IF after.found THEN after.at + 1 ELSE after.at})

\* PostingCursor: from the start to the first posting older than `since`,
\* without the dead keys.
CursorKeys(run, list, q) ==
    LET from == CursorStart(run.dict, list, q) + 1
        old == {i \in from..Len(list) : Attr[run.dict[list[i]]].at < q.since}
        to == IF old = {} THEN Len(list) ELSE Min(old) - 1
    IN  SelectSeq(SubSeq(list, from, to), LAMBDA k : k \notin Dead(run))

\* materialize_if_visible: under a pin the row must have been observed from a
\* pinned relay or be local; without one, a posting with no canonical row is an
\* error that ends the read (here it stays in the result, which is then wrong).
\* A suppressed row is not shown, and does not count towards the limit.
Shows(D, q, indexed, k) ==
    LET pinned == {D.relayIds[r] : r \in q.pinned \cap DOMAIN D.relayIds}
        carried == k \in DOMAIN D.rows /\ (D.rows[k].local \/ D.rows[k].seen \cap pinned # {})
    IN  /\ q.pinned = {} \/ carried
        /\ k \in DOMAIN D.rows => /\ Matches(D.rows[k].ev, q, indexed)
                                  /\ D.rows[k].ev \notin q.hidden

Limited(list, q) == IF q.limit = 0 THEN list ELSE SubSeq(list, 1, Min({q.limit, Len(list)}))

\* scan_packed: one cursor per run and wanted prefix, merged newest first, each
\* key projected once.
ScanPacked(D, q) ==
    LET plan == Plan(q)
        merged == MergeLists(UnionDict(D, DOMAIN D.runs),
                             [s \in (DOMAIN D.runs) \X plan.prefixes |->
                                CursorKeys(D.runs[s[1]], ListOf(D.runs[s[1]], s[2]), q)])
        firsts == {i \in DOMAIN merged : \A j \in 1..(i - 1) : merged[j] # merged[i]}
        order == Sorted(firsts, <)
    IN  Limited(SelectSeq([i \in DOMAIN order |-> merged[order[i]]],
                          LAMBDA k : Shows(D, q, plan.index, k)), q)

PastCursor(e, q) ==
    \/ q.before = Nowhere
    \/ Attr[e].at < q.before.at
    \/ Attr[e].at = q.before.at /\ Attr[e].rank > q.before.rank

\* Exact ids go through EVENT_IDS and are sorted afterwards.
QueryIds(D, q) ==
    LET hits == {k \in {D.ids[e] : e \in q.ids \cap DOMAIN D.ids} :
                    Shows(D, q, Unindexed, k) /\ PastCursor(D.rows[k].ev, q)}
    IN  Limited(Sorted(hits, LAMBDA j, k : EventBefore(D.rows[j].ev, D.rows[k].ev)), q)

\* query, query_newest, query_newest_before and their pinned forms.
Query(D, q) ==
    IF q.since > q.until THEN <<>> ELSE IF q.ids # {} THEN QueryIds(D, q) ELSE ScanPacked(D, q)

(***************************************************************************)
(* One governed write: operations on the working tables, then one commit    *)
(* that flushes the reference counts and the postings, or nothing at all    *)
(* (a refused commit, an error, a crash).                                   *)
(***************************************************************************)
StoreEvents(D, E) ==
    LET t == FoldSet(LAMBDA e, acc : LET one == InsertNew(acc, e, {}, TRUE)
                                     IN  BatchInsert(one, acc.D.nextKey),
                     Opened(D), E)
    IN  FlushPostings(FlushPending(t).D, t.additions, {})

PackedInit ==
    /\ \E history \in Stored :
          disk = FoldLeft(LAMBDA D, E : StoreEvents(D, E), EmptyDb, history)
    /\ txn = Closed
    /\ refused = FALSE

Begin ==
    /\ ~txn.open
    /\ txn' = Opened(disk)
    /\ UNCHANGED <<disk, refused>>

Working == txn.open /\ txn.ops < MaxOps

Step(t) ==
    /\ txn' = [t EXCEPT !.ops = @ + 1]
    /\ UNCHANGED <<disk, refused>>

\* insert_new and insert_indexes.
InsertEvent(e, R, local) ==
    /\ Working
    /\ e \notin DOMAIN txn.D.ids /\ txn.D.nextKey <= MaxKey
    /\ Step(BatchInsert(InsertNew(txn, e, R, local), txn.D.nextKey))

\* remove_by_key and remove_indexes.
RemoveEvent(e) ==
    /\ Working
    /\ e \in DOMAIN txn.D.ids
    /\ Step(BatchRemove(RemoveByKey(txn, txn.D.ids[e]), txn.D.ids[e]))

\* A duplicate delivery records one more observation.
ObserveEvent(e, r) ==
    /\ Working
    /\ e \in DOMAIN txn.D.ids
    /\ Step(MergeObservation(txn, txn.D.ids[e], r))

\* reinsert_stashed folds the stashed provenance into a row that is there again.
RestateProvenance(e, R, local) ==
    /\ Working
    /\ e \in DOMAIN txn.D.ids
    /\ SeenFrom(txn.D, txn.D.ids[e]) \subseteq R
    /\ txn.D.rows[txn.D.ids[e]].local => local
    /\ Step(ReplaceProvenance(txn, txn.D.ids[e], R, local))

\* GovernedWrite::apply returns: the overlay is flushed, the batch stays open.
EndApply ==
    /\ txn.open /\ txn.overlay # NoTable
    /\ txn' = FlushPending(txn)
    /\ UNCHANGED <<disk, refused>>

CommitWrite ==
    /\ txn.open
    /\ LET flushed == FlushPending(txn)
           D == FlushPostings(flushed.D, flushed.additions, flushed.deaths)
       IN  /\ disk' = IF D.err THEN disk ELSE D
           /\ refused' = (refused \/ D.err)
    /\ txn' = Closed

AbortWrite ==
    /\ txn.open
    /\ txn' = Closed
    /\ UNCHANGED <<disk, refused>>

PackedNext ==
    \/ Begin
    \/ \E e \in Event, r \in Relay : InsertEvent(e, {r}, FALSE)
    \/ \E e \in Event : InsertEvent(e, {}, TRUE)
    \/ \E e \in Event : RemoveEvent(e)
    \/ \E e \in Event, r \in Relay : ObserveEvent(e, r)
    \/ \E e \in Event, R \in SUBSET Relay : (\E local \in BOOLEAN : RestateProvenance(e, R, local))
    \/ EndApply
    \/ CommitWrite
    \/ AbortWrite

PackedSpec == PackedInit /\ [][PackedNext]_packedVars

(***************************************************************************)
(* Properties.                                                              *)
(***************************************************************************)
Reference(D, q) ==
    LET hits == {k \in DOMAIN D.rows :
                    /\ Matches(D.rows[k].ev, q, Unindexed)
                    /\ D.rows[k].ev \notin q.hidden
                    /\ PastCursor(D.rows[k].ev, q)
                    /\ q.pinned = {} \/ D.rows[k].local \/ SeenFrom(D, k) \cap q.pinned # {}}
    IN  Limited(Sorted(hits, LAMBDA j, k : EventBefore(D.rows[j].ev, D.rows[k].ev)), q)

\* Whatever transactions, merges, rewrites and death blocks came before, every
\* ordered read (any plan, cursor, window, pin and limit) returns exactly the
\* canonical rows the filter names and no pending deletion hides, newest first,
\* each once.  (The committed
\* tables change at a commit only, so comparing between writes is enough.)
ScanExact ==
    ~txn.open => \A q \in Lookups : Query(disk, q) = Reference(disk, q)

\* The catalog the next transaction reads is the one it will accept: ranges are
\* disjoint and indexed by BY_MIN, a run's live count is its dictionary without
\* its dead keys and never zero, every canonical row is live in exactly one run
\* and no other key is, no level is left full, run ids are fresh; and no commit
\* was ever refused by these checks.
CatalogSound == ~txn.open =>
    /\ ~refused
    /\ CatalogValid(disk)
    /\ \A r \in DOMAIN disk.runs :
          LET run == disk.runs[r]
          IN  /\ r < disk.nextRun
              /\ Dead(run) \subseteq DOMAIN run.dict
              /\ run.live = Cardinality(DOMAIN run.dict \ Dead(run))
              /\ {k \in DOMAIN disk.rows : k \in run.min..run.max} = DOMAIN run.dict \ Dead(run)
    /\ \A k \in DOMAIN disk.rows : RunOf(disk, k) # {}
    /\ \A level \in 0..MaxKey :
          Cardinality({r \in DOMAIN disk.runs : disk.runs[r].level = level})
             < IF level = 0 THEN BaseFanIn ELSE LargeFanIn

\* Interned relays are exactly the relays some row was seen from: every count is
\* the number of observations that name the relay, a relay nobody was seen from
\* has no row and no id, and no observation names a relay that is gone.
RelaysExact ==
    /\ \A k \in DOMAIN disk.rows : disk.rows[k].seen \subseteq DOMAIN disk.relays
    /\ \A o \in DOMAIN disk.relays :
          /\ disk.relays[o].refs = Cardinality({k \in DOMAIN disk.rows : o \in disk.rows[k].seen})
          /\ disk.relays[o].refs > 0
          /\ disk.relayIds[disk.relays[o].url] = o
    /\ Cardinality(DOMAIN disk.relayIds) = Cardinality(DOMAIN disk.relays)

\* The packed index answers as the canonical rows would, its catalog is one the
\* next transaction accepts, and its interned relays are exactly those in use.
PostingsExact == ScanExact /\ CatalogSound /\ RelaysExact

=============================================================================
