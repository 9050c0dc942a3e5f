--------------------------- MODULE HistoryWindow ---------------------------
(***************************************************************************)
(* An expandable history window (nmp-engine core/history_lifecycle.rs and  *)
(* the receiver in nmp-runtime history_mailbox.rs): the newest rows of a   *)
(* query, at most "target" of them, kept current by committed store        *)
(* changes and grown by RequestRows.                                       *)
(*                                                                         *)
(* Growing is staged: the target is raised, resolver handles are opened    *)
(* for the boundary second and for everything older, and the older rows    *)
(* are projected; if the caller is gone when the reply is sent all of it   *)
(* is rolled back, otherwise it is committed and, while progress is made   *)
(* and the target is unmet, staged again.  The runtime does this inside    *)
(* one command, so a command is one action here.                           *)
(*                                                                         *)
(* A branch of the query is the set of its current root atoms, an atom the *)
(* set of posts it matches.  The store is the rows it holds; a commit is   *)
(* any consistent set of insertions, removals, new sightings and           *)
(* promotions.  Acquisition evidence is one fact that can change.          *)
(***************************************************************************)
EXTENDS Naturals, Sequences, FiniteSets, FiniteSetsExt, SequencesExt, TLC

CONSTANTS
    Post,         \* the events of the instance
    Stamp,        \* Stamp[p]: created_at, in seconds
    IdOrder,         \* IdOrder[p]: the order of the ids, smaller first
    Ask,          \* window queries and their surroundings, records with
                  \*   page, max: the first and the largest window;
                  \*   shapes: the root-atom assignments the query may resolve
                  \*     to, one set of atoms per branch;
                  \*   pins: per branch, the relays of a strict branch, or Nil;
                  \*   commits: mutations [ins, rem, grew, upd], see Committed;
                  \*   requests: the row counts the application asks for;
                  \*   facts: the acquisition evidence there may be
    HandlePool,   \* resolver handle ids
    Nil

VARIABLES
    wrows,        \* the store: [post -> [seen, local]]
    shape,        \* the root atoms of each branch
    win,          \* the session, or Nil
    subs,         \* resolver subscriptions, the by_handle index and the
                  \*   handles attached to the wire
    slot,         \* the latest-wins frame mailbox: Nil or a frame
    delivered,    \* the receiver's copy of the last frame's rows
    ask           \* the query and what happens around it, fixed at the start

winVars == <<wrows, shape, win, subs, slot, delivered, ask>>

----------------------------------------------------------------------------
(* Rows and their order.                                                   *)

Before(p, q) == \/ Stamp[p] > Stamp[q]
                \/ Stamp[p] = Stamp[q] /\ IdOrder[p] < IdOrder[q]

Newest(posts, n) == {p \in posts : Cardinality({q \in posts : Before(q, p)}) < n}

\* HistoryRows::boundary: the oldest row held.
Boundary(rows) == IF rows = <<>> THEN Nil
                  ELSE CHOOSE p \in DOMAIN rows : \A q \in DOMAIN rows \ {p} : Before(q, p)

WinRow(row) == [sig |-> IF row.local = "Pending" THEN "Pending" ELSE "Signed",
                seen |-> row.seen]

Pinned(pin, row) == pin # Nil => (row.local # Nil \/ row.seen \cap pin # {})

\* The posts of the store that branch b shows, by atom.
Shown(store, q, atoms, b, atom) ==
    {p \in atom \cap DOMAIN store : Pinned(q.pins[b], store[p])}

\* history_rows_for.
HistoryRowsFor(store, q, atoms, target) ==
    LET found == UNION {UNION {Newest(Shown(store, q, atoms, b, atom), target) :
                                  atom \in atoms[b]} : b \in DOMAIN atoms}
    IN  [p \in Newest(found, target) |-> WinRow(store[p])]

\* The candidates of advance_history_projection: the newest rows strictly older
\* than the boundary.
OlderRows(store, q, atoms, boundary, needed) ==
    LET older(b, atom) == {p \in Shown(store, q, atoms, b, atom) : Before(boundary, p)}
        found == UNION {UNION {Newest(older(b, atom), needed) : atom \in atoms[b]} :
                           b \in DOMAIN atoms}
    IN  [p \in Newest(found, needed) |-> WinRow(store[p])]

----------------------------------------------------------------------------
(* The session.  Besides what the code keeps, `missed` is a history        *)
(* variable: a read has failed since the rows were last derived in full.   *)

Frame(w) == [rows |-> w.rows, load |-> w.load, evidence |-> w.evidence]

\* W is the state a handler works on: the session, the subscriptions and the
\* newest frame emitted (Nil when none was).
Work(w, s) == [win |-> w, subs |-> s, out |-> Nil]

Publish(W) == [W EXCEPT !.out = Frame(W.win)]

\* apply_history_projection.
Project(W, rows, evidence, load) ==
    LET w == W.win
        changed == rows # w.rows \/ evidence # w.evidence \/ load # w.load
        next == [W EXCEPT !.win = [w EXCEPT !.rows = rows, !.evidence = evidence,
                                            !.complete = TRUE, !.load = load,
                                            !.missed = FALSE]]
    IN  IF changed THEN Publish(next) ELSE next

\* The store failed to answer: the rows stay as they were, incomplete.
ReadFailed(W) == [W EXCEPT !.win.complete = FALSE, !.win.missed = TRUE]

\* refresh_history.
RefreshWindow(W, store, atoms, fact, unread) ==
    IF unread THEN ReadFailed(W)
    ELSE Project(W, HistoryRowsFor(store, W.win.query, atoms, W.win.target), fact, <<"Idle", 0>>)

\* Handles are opened in the resolver, linked to the session and attached.
OpenReads(s, handles) ==
    [open |-> s.open \cup handles, linked |-> s.linked \cup handles,
     wired |-> s.wired \cup handles]

\* Handles leave the wire, the resolver and the by_handle index together.
CloseReads(s, handles) ==
    [open |-> s.open \ handles, linked |-> s.linked \ handles,
     wired |-> s.wired \ handles]

\* The first n unused handle ids.
Fresh(ids, n) ==
    [i \in 1..n |-> CHOOSE h \in ids : Cardinality({g \in ids : g < h}) = i - 1]

Without(f, keys) == [k \in DOMAIN f \ keys |-> f[k]]

\* on_rollback_history_load.
Rollback(W) ==
    LET w == W.win
        p == w.pending
    IN  IF p = Nil THEN W
        ELSE [W EXCEPT
                !.subs = CloseReads(@, p.opened),
                !.win = [w EXCEPT !.pending = Nil,
                                  !.acq = Without(@, p.opened),
                                  !.ties = IF p.tie = Nil THEN @ ELSE @ \ {p.tie},
                                  !.rows = Without(@, p.added),
                                  !.target = p.target, !.load = p.load,
                                  !.evidence = p.evidence, !.complete = p.complete]]

\* The handles an advance opens, with the second each acquires: one per branch
\* for the boundary second if it was never acquired, and one per branch, with no
\* second, for everything older.
Staged(w, second, tie) ==
    LET n == Len(w.live)
        kinds == (IF tie THEN [i \in 1..n |-> second] ELSE <<>>)
                     \o (IF second = 0 THEN <<>> ELSE [i \in 1..n |-> Nil])
        free == Fresh(HandlePool \ (ToSet(w.live) \cup DOMAIN w.acq), Len(kinds))
    IN  [h \in {free[i] : i \in DOMAIN kinds} |->
            kinds[CHOOSE i \in DOMAIN kinds : free[i] = h]]

\* The state a rollback returns to, noted before anything is opened.
Noted(w, tie) ==
    [target |-> w.target, load |-> w.load, evidence |-> w.evidence,
     complete |-> w.complete, tie |-> tie, opened |-> {}, added |-> {}]

\* The advance's handles join the session and the wire.
LinkAdvance(W, acq, second) ==
    [W EXCEPT !.win.ties = @ \cup {second},
              !.win.acq = acq @@ @,
              !.win.pending.opened = DOMAIN acq,
              !.subs = OpenReads(@, DOMAIN acq)]

\* advance_history_projection: the older rows join the window.
ProjectAdvance(W, rows, fact) ==
    [W EXCEPT !.win.rows = rows @@ @,
              !.win.evidence = fact, !.win.complete = TRUE,
              !.win.load = <<"Returned", Cardinality(DOMAIN rows)>>,
              !.win.pending.added = DOMAIN rows]

\* stage_history_advance: "fail" is Nil, or where the store fails to answer.
StageAdvance(W, store, atoms, fact, newTarget, fail) ==
    LET w == W.win
        boundary == Boundary(w.rows)
        target == Max({w.target, newTarget})
        needed == target - Cardinality(DOMAIN w.rows)
        second == Stamp[boundary]
        tie == second \notin w.ties
        raised == [W EXCEPT !.win.target = target]
        staged == [raised EXCEPT !.win.pending = Noted(w, IF tie THEN second ELSE Nil)]
        linked == LinkAdvance(staged, Staged(w, second, tie), second)
    IN  IF boundary = Nil \/ needed = 0 THEN raised
        ELSE IF fail = "resolve" THEN Rollback(staged)
        ELSE IF fail = "project"
             THEN Rollback([linked EXCEPT !.win.complete = FALSE])
        ELSE ProjectAdvance(linked, OlderRows(store, w.query, atoms, boundary, needed), fact)

StageAtBound(W) ==
    [W EXCEPT !.win.pending = Noted(W.win, Nil),
              !.win.load = <<"AtBound", W.win.query.max>>]

\* The acquisitions a commit retires: all but the ones just opened and the tie
\* of the present boundary second.
Superseded(w) ==
    {h \in DOMAIN w.acq \ w.pending.opened :
        ~(Boundary(w.rows) # Nil /\ w.acq[h] = Stamp[Boundary(w.rows)])}

\* on_commit_history_load and the runtime's loop around it.
RECURSIVE CommitLoad(_, _, _, _, _)
CommitLoad(W, store, atoms, fact, fail) ==
    LET w == W.win
        retired == Superseded(w)
        committed == Publish([W EXCEPT !.subs = CloseReads(@, retired),
                                       !.win.acq = Without(@, retired),
                                       !.win.pending = Nil])
        again == /\ w.pending.added # {}
                 /\ w.target > Cardinality(DOMAIN w.rows)
                 /\ w.rows # <<>>
    IN  IF w.pending = Nil THEN W
        ELSE IF ~again THEN committed
        ELSE LET next == StageAdvance(committed, store, atoms, fact, w.target, fail)
             IN  IF next.win.pending = Nil THEN next
                 ELSE CommitLoad(next, store, atoms, fact, fail)

\* on_request_rows.
RequestOn(W, store, atoms, fact, atLeast, fail) ==
    LET w == W.win
        target == Min({Max({w.target, atLeast}), w.query.max})
    IN  IF target = w.target
        THEN IF w.target = w.query.max THEN StageAtBound(W) ELSE W
        ELSE StageAdvance(W, store, atoms, fact, target, fail)

----------------------------------------------------------------------------
(* Committed changes.                                                      *)

Committed(store, c) ==
    LET kept == Without(store, c.rem)
    IN  [p \in DOMAIN kept \cup DOMAIN c.ins |->
            IF p \in DOMAIN c.ins THEN c.ins[p]
            ELSE [seen |-> kept[p].seen \cup (IF p \in DOMAIN c.grew THEN c.grew[p] ELSE {}),
                  local |-> IF p \in c.upd THEN "Signed" ELSE kept[p].local]]

\* A mutation the store's doors can commit: what is inserted was absent, what is
\* removed, seen again or promoted was there, and only a pending row is promoted.
Commits(store, c) ==
    /\ DOMAIN c.ins \cap DOMAIN store = {}
    /\ c.rem \cup DOMAIN c.grew \cup c.upd \subseteq DOMAIN store
    /\ \A p \in DOMAIN c.grew : ~(c.grew[p] \subseteq store[p].seen) /\ store[p].local # "Pending"
    /\ \A p \in c.upd : store[p].local = "Pending"

Matched(atoms) == UNION {UNION atoms[b] : b \in DOMAIN atoms}

\* Mutant: only the rows the batch does not itself make up for are read back.
BackfillNet(w, removed, inserted) ==
    IF Cardinality(inserted) >= Cardinality(removed) THEN 0
    ELSE Cardinality(removed) - Cardinality(inserted)

\* How many rows below the old boundary a batch can expose.
Backfill(w, removed, inserted) == Cardinality(removed)

\* try_apply_committed_history_row_changes on a window that may take it.
Rebalance(W, store, atoms, c) ==
    LET w == W.win
        pin == w.query.pins[1]
        hit == Matched(atoms)
        removed == c.rem \cap DOMAIN w.rows
        kept == Without(w.rows, removed)
        inserted == {p \in DOMAIN c.ins \cap hit : Pinned(pin, c.ins[p])}
        grown(p) == [sig |-> "Signed", seen |-> kept[p].seen \cup c.grew[p]]
        grew == DOMAIN c.grew \cap hit
        surfaced == {p \in grew \ DOMAIN kept :
                        /\ pin # Nil
                        /\ Pinned(pin, [seen |-> c.grew[p], local |-> store[p].local])}
        touched == [p \in grew \cap DOMAIN kept |-> grown(p)]
                     @@ [p \in (c.upd \cap hit) \cap DOMAIN kept |-> WinRow(store[p])]
                     @@ [p \in inserted \cup surfaced |-> WinRow(store[p])]
                     @@ kept
        below == {p \in hit \cap DOMAIN store : /\ Pinned(pin, store[p])
                                                /\ Before(Boundary(w.rows), p)}
        exposed == IF removed = {} THEN {}
                   ELSE Newest(below, Backfill(w, removed, inserted)) \ DOMAIN touched
        merged == touched @@ [p \in exposed |-> WinRow(store[p])]
        rows == [p \in Newest(DOMAIN merged, w.target) |-> merged[p]]
    IN  IF rows = w.rows THEN W
        ELSE Publish([W EXCEPT !.win.rows = rows, !.win.load = <<"Idle", 0>>])

\* The batches for which the store is read again.
NeedsRead(w, atoms, c) ==
    \/ c.rem \cap DOMAIN w.rows # {}
    \/ w.query.pins[1] # Nil /\ (DOMAIN c.grew \cap Matched(atoms)) \ DOMAIN w.rows # {}

ApplyCommit(W, store, atoms, fact, c, unread) ==
    LET w == W.win
        direct == Len(w.live) = 1 /\ w.complete
    IN  IF ~direct \/ (atoms[1] = {} /\ w.rows # <<>>)
        THEN RefreshWindow(W, store, atoms, fact, unread)
        ELSE IF atoms[1] = {} THEN W
        ELSE IF unread /\ NeedsRead(w, atoms, c) THEN ReadFailed(W)
        ELSE Rebalance(W, store, atoms, c)
----------------------------------------------------------------------------
(* Handlers.                                                               *)

\* The frame a handler published replaces the one in the mailbox.
EndTurn(W) ==
    /\ win' = W.win
    /\ subs' = W.subs
    /\ slot' = IF W.out = Nil THEN slot ELSE W.out

WinInit ==
    /\ wrows = <<>> /\ shape = Nil /\ win = Nil /\ slot = Nil
    /\ subs = [open |-> {}, linked |-> {}, wired |-> {}]
    /\ delivered = <<>> /\ ask \in Ask

\* open_history_observation; a read that fails leaves nothing open.
OpenHistory(q) ==
    \E atoms \in q.shapes, refused \in BOOLEAN :
        LET n == Len(atoms)
            live == Fresh(HandlePool, n)
            fresh == [query |-> q, target |-> q.page, live |-> live, acq |-> <<>>,
                      ties |-> {}, rows |-> <<>>, evidence |-> Nil, complete |-> FALSE,
                      missed |-> FALSE, load |-> <<"Idle", 0>>, pending |-> Nil]
        IN  /\ win = Nil
            /\ IF refused THEN UNCHANGED <<shape, win, subs, slot>>
                 ELSE /\ shape' = atoms
                      /\ EndTurn(Project(Work(fresh, OpenReads(subs, ToSet(live))),
                             HistoryRowsFor(wrows, q, atoms, q.page), 0, <<"Idle", 0>>))
            /\ UNCHANGED <<wrows, delivered>>

\* on_unsubscribe_history.
CloseHistory ==
    /\ win # Nil
    /\ win' = Nil /\ slot' = Nil /\ shape' = Nil
    /\ subs' = CloseReads(subs, ToSet(win.live) \cup DOMAIN win.acq)
    /\ delivered' = <<>>
    /\ UNCHANGED wrows

\* Cmd::RequestRows: "heard" is FALSE when the caller's reply channel is gone,
\* "first" and "later" say where the store fails during the first advance and
\* during the ones the commit continues with.
RequestRows(atLeast) ==
    \E heard \in BOOLEAN, first, later \in {Nil, "resolve", "project"} :
        LET fact == win.evidence
            asked == RequestOn(Work(win, subs), wrows, shape, fact, atLeast, first)
        IN  /\ win # Nil
            /\ EndTurn(IF heard THEN CommitLoad(asked, wrows, shape, fact, later)
                               ELSE Rollback(asked))
            /\ UNCHANGED <<wrows, shape, delivered>>

\* apply_committed_mutation_with, for the window: a batch that matches nothing
\* of the selection leaves it alone.
CommitRows(c) ==
    LET store == Committed(wrows, c)
        events == DOMAIN c.ins \cup c.rem \cup DOMAIN c.grew \cup c.upd
    IN  /\ Commits(wrows, c)
        /\ wrows' = store
        /\ IF win = Nil \/ events \cap Matched(shape) = {}
             THEN UNCHANGED <<win, subs, slot>>
             ELSE \E unread \in BOOLEAN :
                     EndTurn(ApplyCommit(Work(win, subs), store, shape, win.evidence, c, unread))
        /\ UNCHANGED <<shape, delivered>>

\* A recompile: the roots resolve to other atoms and every window is refreshed.
Reroot ==
    /\ win # Nil
    /\ \E atoms \in win.query.shapes \ {shape}, unread \in BOOLEAN :
          /\ shape' = atoms
          /\ EndTurn(RefreshWindow(Work(win, subs), wrows, atoms, win.evidence, unread))
    /\ UNCHANGED <<wrows, delivered>>

\* refresh_history_evidence, when the acquisition facts are now "fact".
EvidenceMoved(fact) ==
    LET W == Work(win, subs)
    IN  /\ win # Nil
        /\ \E unread \in BOOLEAN :
              EndTurn(IF ~win.complete THEN RefreshWindow(W, wrows, shape, fact, unread)
                     ELSE IF unread \/ (fact = win.evidence /\ win.load = <<"Idle", 0>>) THEN W
                     ELSE Publish([W EXCEPT !.win.evidence = fact, !.win.load = <<"Idle", 0>>]))
        /\ UNCHANGED <<wrows, shape, delivered>>

\* HistoryReceiver::reconcile: what the receiver derives from two frames.
Reconcile(last, rows) ==
    [p \in {x \in DOMAIN rows \cup DOMAIN last :
               \/ x \notin DOMAIN last \/ x \notin DOMAIN rows
               \/ last[x].seen # rows[x].seen} |->
        IF p \notin DOMAIN rows THEN <<"Removed">>
        ELSE IF p \notin DOMAIN last THEN <<"Added", rows[p]>>
        ELSE <<"SourcesGrew", rows[p].seen>>]

\* What an application that keeps its rows by applying deltas does with them.
Fold(rows, deltas) ==
    [p \in (DOMAIN rows \cup DOMAIN deltas)
             \ {x \in DOMAIN deltas : deltas[x][1] = "Removed"} |->
        IF p \notin DOMAIN deltas THEN rows[p]
        ELSE IF deltas[p][1] = "Added" THEN deltas[p][2]
        ELSE [rows[p] EXCEPT !.seen = deltas[p][2]]]

ReceiveFrame ==
    /\ slot # Nil
    /\ slot' = Nil
    /\ delivered' = slot.rows
    /\ UNCHANGED <<wrows, shape, win, subs>>

WinNext ==
    /\ ask' = ask
    /\ \/ OpenHistory(ask)
       \/ CloseHistory
       \/ \E n \in ask.requests : RequestRows(n)
       \/ \E c \in ask.commits : CommitRows(c)
       \/ Reroot
       \/ \E fact \in ask.facts : EvidenceMoved(fact)
       \/ ReceiveFrame

WinSpec == WinInit /\ [][WinNext]_winVars

----------------------------------------------------------------------------
(* Properties.                                                             *)

\* A window that says it is complete holds exactly the newest "target" rows of
\* the store its query matches, whatever mixture of incremental rebalancing,
\* backfill below a removed row, staged growth and rollback brought it here;
\* it never holds more rows than its target or asks beyond the declared
\* maximum.  One case is not claimed, because the code does not give it: after
\* a failed read (`missed`) an advance marks the stale rows complete again
\* (advance_history_projection), and they stay inexact until the next full
\* refresh.
WindowExact ==
    win # Nil =>
        /\ win.pending = Nil
        /\ win.target <= win.query.max
        /\ Cardinality(DOMAIN win.rows) <= win.target
        /\ win.complete /\ ~win.missed =>
               win.rows = HistoryRowsFor(wrows, win.query, shape, win.target)
        /\ ~win.complete => win.missed

\* A session's handles are held by the resolver, the by_handle index and the
\* wire together, released with the session, and do not accumulate over a deep
\* scroll: besides the live handles only the last advance's are open, and the
\* ties of one more second.
HandlesExact ==
    LET mine == IF win = Nil THEN {} ELSE ToSet(win.live) \cup DOMAIN win.acq
    IN  /\ subs.open = mine /\ subs.linked = mine /\ subs.wired = mine
        /\ win # Nil => /\ Cardinality(DOMAIN win.acq) <= 3 * Len(win.live)
                        /\ \A h \in DOMAIN win.acq :
                              win.acq[h] # Nil => win.acq[h] \in win.ties

\* The receiver never misses the newest rows: the frame waiting in the mailbox
\* is the session's rows, and with an empty mailbox they were delivered.
NewestFrameReaches ==
    win # Nil => win.rows = IF slot = Nil THEN delivered ELSE slot.rows

\* Applying the deltas of a frame to the rows of the frame delivered before it
\* gives the rows of the frame.
WindowDeltaExact ==
    slot # Nil => Fold(delivered, Reconcile(delivered, slot.rows)) = slot.rows

\* The window, its handles and what the receiver will see of it are exact.
WindowSound == WindowExact /\ HandlesExact /\ NewestFrameReaches

============================================================================
