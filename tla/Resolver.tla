------------------------------ MODULE Resolver ------------------------------
(***************************************************************************)
(* The reactive demand graph (crate nmp-resolver): how a live query's      *)
(* declarative selection becomes the set of concrete filters ("atoms") the *)
(* wire has to ask for, and how that set follows the store and the active  *)
(* account.                                                                *)
(*                                                                         *)
(* A selection is a tree.  A filter node binds some of its fields to       *)
(* binding nodes: a literal set, the active account ("reactive"), the      *)
(* projection of the rows another demand selects ("derived"), or a set     *)
(* operation over bindings.  Every node caches its value.  A commit seeds  *)
(* the derived nodes whose inner filter matches a changed event; a round   *)
(* of recomputation walks the dirty nodes deepest first.  The atom table   *)
(* counts, for every atom, the filter nodes that produce it.               *)
(*                                                                         *)
(* A node is named by its root selection and its path in the tree.  Values *)
(* are the code's values with the strings left out: an element is a scalar *)
(* or an address coordinate, a concrete filter maps each constrained field *)
(* to the values it allows, and "since"/"until" windows are dropped.       *)
(***************************************************************************)
EXTENDS Naturals, Sequences, FiniteSets, FiniteSetsExt, SequencesExt, TLC

CONSTANTS
    Event,        \* every event of the instance, by id
    Body,         \* Body[e]: [kind, author, at, order, tags]
    Root,         \* the acquisition keys an application may subscribe to
    Selection,    \* Selection[r]: the filter tree of acquisition key r
    Key,          \* the values that parse as public keys
    Nil

----------------------------------------------------------------------------
(* Concrete filters and the events they match.                             *)

Values(e, slot) ==
    CASE slot = "kinds"   -> {Body[e].kind}
      [] slot = "authors" -> {Body[e].author}
      [] slot = "ids"     -> {e}
      [] OTHER            -> IF slot \in DOMAIN Body[e].tags
                               THEN DOMAIN Body[e].tags[slot] ELSE {}

\* nostr's match_event: every constrained field allows a value of the event.
Satisfies(f, e) == \A slot \in DOMAIN f : f[slot] \cap Values(e, slot) # {}

\* NIP-01 order: newest first, ties by id.
Newer(e, f) == \/ Body[e].at > Body[f].at
               \/ Body[e].at = Body[f].at /\ Body[e].order < Body[f].order

NewestOf(events, n) ==
    {e \in events : Cardinality({f \in events : Newer(f, e)}) < n}

\* A row is visible under a pin when this node accepted it or a pinned relay
\* carried it.
VisibleUnderPin(row, pinned) == row.local # Nil \/ row.seen \cap pinned # {}

\* What merging one resolved element into a filter contributes; nothing when
\* the value does not parse for the field it is bound to.
Contribution(slot, element) ==
    IF element[1] = "coord"
    THEN ("kinds" :> {element[2]}) @@ ("authors" :> {element[3]})
             @@ ("d" :> {element[4]})
    ELSE IF \/ slot = "authors" /\ element[2] \notin Key
            \/ slot = "ids" /\ element[2] \notin Event
         THEN <<>>
         ELSE slot :> {element[2]}

MergeAll(parts) ==
    [slot \in UNION {DOMAIN p : p \in parts} |->
        UNION {p[slot] : p \in {q \in parts : slot \in DOMAIN q}}]

BaseFilter(node) == IF node.kinds = {} THEN <<>> ELSE "kinds" :> node.kinds

----------------------------------------------------------------------------
(* The tree.                                                               *)

Arity(node) ==
    CASE node.type = "filter"  -> Len(node.fields)
      [] node.type = "derived" -> 1
      [] node.type = "setop"   -> Len(node.operands)
      [] OTHER                 -> 0

Child(node, i) ==
    CASE node.type = "filter"  -> node.fields[i][2]
      [] node.type = "derived" -> node.inner
      [] node.type = "setop"   -> node.operands[i]

RECURSIVE Paths(_)
Paths(node) ==
    {<<>>} \cup UNION {{<<i>> \o p : p \in Paths(Child(node, i))} :
                          i \in 1..Arity(node)}

RECURSIVE NodeAt(_, _)
NodeAt(node, path) ==
    IF path = <<>> THEN node ELSE NodeAt(Child(node, Head(path)), Tail(path))

\* Every node of every selection, by root and path, and the nodes of each type.
NodesOf == [r \in Root |-> {<<r, p>> : p \in Paths(Selection[r])}]
NodeTable == [n \in UNION {NodesOf[r] : r \in Root} |-> NodeAt(Selection[n[1]], n[2])]
TypeTable == [r \in Root |->
                 [type \in {"filter", "literal", "reactive", "derived", "setop"} |->
                     {n \in NodesOf[r] : NodeTable[n].type = type}]]

Nodes(r) == NodesOf[r]
Node(n) == NodeTable[n]
DepthOf(n) == Len(n[2])
ParentOf(n) == <<n[1], Front(n[2])>>
ChildOf(n, i) == <<n[1], Append(n[2], i)>>
NodesOfType(r, type) == TypeTable[r][type]

----------------------------------------------------------------------------
(* Values.  A resolved set maps each element to its routing evidence.      *)

\* resolve_reactive: no active account is the empty set, never a wildcard.
ResolveReactive(identity) ==
    IF identity = Nil THEN <<>> ELSE <<"scalar", identity>> :> {}

\* The elements one row contributes under a selector, with their evidence: an
\* explicit relay hint in an e, a or p tag, otherwise the relays the row was
\* seen on.
Projected(e, row, project) ==
    CASE project = "authors" -> <<"scalar", Body[e].author>> :> {}
      [] project = "ids"     -> <<"scalar", e>> :> {}
      [] project = "coord"   ->
            <<"coord", Body[e].kind, Body[e].author,
              CHOOSE d \in Values(e, "d") \cup {Nil} :
                  Values(e, "d") # {} => d # Nil>> :> row.seen
      [] OTHER ->
            LET tags == IF project \in DOMAIN Body[e].tags
                          THEN Body[e].tags[project] ELSE <<>>
            IN  [el \in {<<"scalar", v>> : v \in DOMAIN tags} |->
                    IF project \notin {"e", "a", "p"} THEN {}
                    ELSE IF tags[el[2]] # Nil THEN {tags[el[2]]}
                    ELSE row.seen]

Union(sets) ==
    [el \in UNION {DOMAIN s : s \in sets} |->
        UNION {s[el] : s \in {t \in sets : el \in DOMAIN t}}]

ResolveSetOp(op, sets) ==
    LET all == {sets[i] : i \in DOMAIN sets}
        first == IF sets = <<>> THEN {} ELSE DOMAIN sets[1]
        rest == {sets[i] : i \in DOMAIN sets \ {1}}
    IN  CASE op = "union" -> Union(all)
          [] op = "intersect" ->
                [el \in {x \in first : \A s \in rest : x \in DOMAIN s} |->
                    Union(all)[el]]
          [] op = "diff" ->
                [el \in {x \in first : \A s \in rest : x \notin DOMAIN s} |->
                    sets[1][el]]

\* The bound fields' contributing elements, given the values of the children.
Contributing(node, val, i) ==
    {el \in DOMAIN val[i] : Contribution(node.fields[i][1], el) # <<>>}

\* wide_concrete: the one filter a derived parent queries the store with, or
\* Nil when some bound field contributes nothing: an empty set never widens
\* to a wildcard.
WideConcrete(node, val) ==
    IF \E i \in DOMAIN node.fields : Contributing(node, val, i) = {}
    THEN Nil
    ELSE MergeAll({BaseFilter(node)} \cup
             UNION {{Contribution(node.fields[i][1], el) :
                        el \in Contributing(node, val, i)} :
                    i \in DOMAIN node.fields})

\* compute_atoms: the product of the bound fields' elements.
ComputeAtoms(node, val) ==
    LET fields == DOMAIN node.fields
        picks == {c \in [fields -> UNION {DOMAIN val[i] : i \in fields}] :
                    \A i \in fields : c[i] \in Contributing(node, val, i)}
    IN  {[filter |-> MergeAll({BaseFilter(node)} \cup
                         {Contribution(node.fields[i][1], c[i]) : i \in fields}),
          limit |-> node.limit,
          relays |-> node.relays,
          evidence |-> UNION {val[i][c[i]] : i \in fields}] : c \in picks}

\* projection_input_events: the rows a derived node projects.
InputEvents(store, inner, wide, strict) ==
    LET matching == {e \in DOMAIN store : Satisfies(wide, e)}
        visible == IF strict /\ inner.relays # {}
                     THEN {e \in matching : VisibleUnderPin(store[e], inner.relays)}
                     ELSE matching
    IN  IF inner.limit = Nil THEN visible ELSE NewestOf(visible, inner.limit)

ProjectEvents(store, events, project) ==
    Union({Projected(e, store[e], project) : e \in events})

\* The value of a node, given the values "val" of its children and "inner" of
\* the children of a derived node's filter.
ValueOf(node, val, inner, store, identity) ==
    CASE node.type = "literal"  -> [el \in {<<"scalar", v>> : v \in node.values} |-> {}]
      [] node.type = "reactive" -> ResolveReactive(identity)
      [] node.type = "setop"    -> ResolveSetOp(node.op, val)
      [] node.type = "filter"   -> ComputeAtoms(node, val)
      [] node.type = "derived"  ->
            LET wide == WideConcrete(node.inner, inner)
            IN  IF wide = Nil THEN <<>>
                ELSE ProjectEvents(store,
                         InputEvents(store, node.inner, wide, node.strict),
                         node.project)
----------------------------------------------------------------------------
(* The resolver's state R: its live roots in the order they were built,    *)
(* the handles counted on each (refs), every node's cached value, the atom *)
(* table (count), the root of each handle, the handles dropped and not yet *)
(* drained, the operations of the delta being built (ops), and whether a   *)
(* store read stopped the current pass (broke).  `missed` is a history     *)
(* variable: the live roots a stopped pass should have recomputed.         *)

CountOf(R, a) == IF a \in DOMAIN R.count THEN R.count[a] ELSE 0

SetCount(R, a, n) ==
    [R EXCEPT !.count = IF n = 0 THEN [b \in DOMAIN @ \ {a} |-> @[b]]
                                 ELSE (a :> n) @@ @]

RefAtom(a, R) ==
    LET counted == SetCount(R, a, CountOf(R, a) + 1)
    IN  IF CountOf(counted, a) = 1
          THEN [counted EXCEPT !.ops = @ \cup {<<"open", a>>}] ELSE counted

UnrefAtom(a, R) ==
    IF CountOf(R, a) = 0 THEN R
    ELSE LET counted == SetCount(R, a, CountOf(R, a) - 1)
         IN  IF CountOf(counted, a) = 0
               THEN [counted EXCEPT !.ops = @ \cup {<<"close", a>>}] ELSE counted

FilterNodes(r) == NodesOfType(r, "filter")

OverFilters(op(_, _), R, r) ==
    FoldSet(LAMBDA n, Q : FoldSet(op, Q, R.value[n]), R, FilterNodes(r))

----------------------------------------------------------------------------
(* Building, tearing down and draining.                                    *)

\* build_filter_node / build_binding_node: the tree evaluated from the leaves.
RECURSIVE Evaluate(_, _, _)
Evaluate(node, store, identity) ==
    LET below(n) == [i \in 1..Arity(n) |-> Evaluate(Child(n, i), store, identity)]
    IN  ValueOf(node,
                IF node.type = "derived" THEN <<>> ELSE below(node),
                IF node.type = "derived" THEN below(node.inner) ELSE <<>>,
                store, identity)

Built(r, store, identity) ==
    [n \in Nodes(r) |-> Evaluate(Node(n), store, identity)]

\* A broken build leaves nothing behind: construction reads the store only for
\* a derived node whose inner filter can match something.
ReadsStore(r, identity, store) ==
    \E n \in NodesOfType(r, "derived") :
        LET inner == Node(n).inner
        IN  WideConcrete(inner, [i \in 1..Arity(inner) |->
                Evaluate(Child(inner, i), store, identity)]) # Nil

UnsubscribeInner(h, R) ==
    IF h \notin DOMAIN R.root THEN R
    ELSE LET r == R.root[h]
             left == [R EXCEPT !.root = [k \in DOMAIN @ \ {h} |-> @[k]],
                               !.refs[r] = @ - 1]
         IN  IF left.refs[r] > 0 THEN left
             ELSE LET unrefd == OverFilters(UnrefAtom, left, r)
                  IN  [unrefd EXCEPT
                          !.roots = Remove(@, r), !.missed = @ \ {r},
                          !.value = [n \in DOMAIN @ \ Nodes(r) |-> @[n]]]

Drain(R) ==
    [FoldSet(UnsubscribeInner, [R EXCEPT !.ops = {}], R.drops) EXCEPT !.drops = {}]

CloseQuery(R, h) == UnsubscribeInner(h, Drain(R))

JoinRoot(drained, h, r, store, identity) ==
    LET joined == [drained EXCEPT !.root = (h :> r) @@ @, !.refs[r] = @ + 1]
    IN  IF Contains(drained.roots, r) THEN joined
        ELSE OverFilters(RefAtom,
                 [joined EXCEPT !.roots = Append(@, r),
                                !.value = Built(r, store, identity) @@ @], r)

SubscribeTo(R, h, r, store, identity) == JoinRoot(Drain(R), h, r, store, identity)

----------------------------------------------------------------------------
(* Recompute rounds.                                                       *)

\* The order of NodeIds among nodes of one depth: root by root as subscribed,
\* then from left to right.
Allocated(R, n, m) ==
    \/ SelectInSeq(R.roots, LAMBDA r : r = n[1])
         < SelectInSeq(R.roots, LAMBDA r : r = m[1])
    \/ /\ n[1] = m[1]
       /\ \E i \in 1..Len(m[2]) :
             /\ SubSeq(n[2], 1, i - 1) = SubSeq(m[2], 1, i - 1)
             /\ n[2][i] < m[2][i]

ChildValues(R, n) ==
    IF Node(n).type = "derived" THEN <<>>
    ELSE [i \in 1..Arity(Node(n)) |-> R.value[ChildOf(n, i)]]

InnerValues(R, n) ==
    IF Node(n).type # "derived" THEN <<>>
    ELSE [i \in 1..Arity(Node(n).inner) |-> R.value[ChildOf(ChildOf(n, 1), i)]]

NewValue(R, n, store, identity) ==
    ValueOf(Node(n), ChildValues(R, n), InnerValues(R, n), store, identity)

\* Mutant: an atom a filter no longer produces keeps its count.
ReplaceWithoutUnref(R, n, new) ==
    IF Node(n).type # "filter" THEN [R EXCEPT !.value[n] = new]
    ELSE FoldSet(RefAtom, [R EXCEPT !.value[n] = new], new \ R.value[n])

ReplaceValue(R, n, new) ==
    IF Node(n).type # "filter" THEN [R EXCEPT !.value[n] = new]
    ELSE FoldSet(RefAtom, FoldSet(UnrefAtom, [R EXCEPT !.value[n] = new], R.value[n] \ new),
                 new \ R.value[n])

RecomputeNode(R, n, store, identity) == ReplaceValue(R, n, NewValue(R, n, store, identity))

\* recompute_node reads the store for a derived node whose inner filter can
\* match something.
ReadFails(R, n, broken) ==
    /\ n = broken
    /\ WideConcrete(Node(n).inner, InnerValues(R, n)) # Nil

\* run_recompute: rounds by descending depth.  "broken" is a derived node whose
\* store read fails: the round stops there and keeps what it already applied.
RECURSIVE RunRecompute(_, _, _, _, _)
RunRecompute(R, pending, store, identity, broken) ==
    IF pending = {} \/ R.broke THEN R
    ELSE LET depth == Max({DepthOf(n) : n \in pending})
             round == {n \in pending : DepthOf(n) = depth}
             step(Q, n) == IF Q.broke THEN Q
                           ELSE IF ReadFails(Q, n, broken) THEN [Q EXCEPT !.broke = TRUE]
                           ELSE RecomputeNode(Q, n, store, identity)
             changed(after) == {n \in round : after.value[n] # R.value[n]}
             nextRound(after) ==
                 RunRecompute(after,
                     (pending \ round) \cup {ParentOf(n) : n \in {m \in changed(after) : depth > 0}},
                     store, identity, broken)
         IN  nextRound(FoldLeft(step, R,
                           SetToSortSeq(round, LAMBDA n, m : Allocated(R, n, m))))

DerivedNodes(R) == UNION {NodesOfType(r, "derived") : r \in ToSet(R.roots)}

Dirty(R, events) ==
    {n \in DerivedNodes(R) :
        LET wide == WideConcrete(Node(n).inner, InnerValues(R, n))
        IN  wide # Nil /\ \E e \in events : Satisfies(wide, e)}

ReactDrained(R, changed, store, identity, broken) ==
    IF changed = {} THEN R
    ELSE RunRecompute(R, Dirty(R, changed), store, identity, broken)

React(R, changed, store, identity, broken) == ReactDrained(Drain(R), changed, store, identity, broken)

ReactiveNodes(R) == UNION {NodesOfType(r, "reactive") : r \in ToSet(R.roots)}

Reroot(R, store, identity, broken) == RunRecompute(R, ReactiveNodes(R), store, identity, broken)

SetActivePubkey(R, store, identity, broken) == Reroot(Drain(R), store, identity, broken)
====================================================================================================================================================
