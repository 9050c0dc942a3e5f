------------------------------ MODULE RoutePlan ------------------------------
(***************************************************************************)
(* The pure half of nmp-router: how a set of demand atoms becomes one      *)
(* relay plan.  Filters and their merge rule, the optimised fixed point    *)
(* of the coalescer, the greedy relay-coverage solver, the assignment of   *)
(* subscription tokens, the relay cap, the per-relay subscription budget   *)
(* and compile_demand, which strings them together.                        *)
(*                                                                         *)
(* A relay is a number (the order of relay URLs is the order of numbers),  *)
(* a session is a relay: the authenticated identity, a second coordinate   *)
(* of the session key that nothing here branches on, is left out.  The     *)
(* canonical order of filters, a tie-break only, is the order of CHOOSE.   *)
(* Tag names are one name; ids behave as kinds do.                         *)
(***************************************************************************)
EXTENDS Integers, FiniteSets, Sequences, SequencesExt, FiniteSetsExt, Functions, Bags, BagsExt

CONSTANTS None,             \* Option::None
          Auto,             \* ReadRouting::Auto; any other routing is a set of relays
          MaxTagValues,     \* MAX_TAG_VALUES_PER_FILTER
          K                 \* relays wanted per author (the literal 2 of the solve)

Axes == {"kinds", "authors", "tag", "since", "until", "limit"}

At(f, k, default) == IF k \in DOMAIN f THEN f[k] ELSE default

Put(f, k, v) == (k :> v) @@ f

Drop(f, ks) == Restrict(f, DOMAIN f \ ks)

\* op(x), one stage of a pipeline: x is computed before op is.
Given(x, op(_)) == CHOOSE y \in {op(v) : v \in {x}} : TRUE

\* Folds over a set and over a sequence whose every step is such a stage.
Stages(op(_, _), base, S) ==
    Given(base, LAMBDA b : FoldSet(LAMBDA x, acc : Given(acc, LAMBDA v : op(x, v)), b, S))

Sequel(op(_, _), base, s) ==
    Given(base, LAMBDA b : FoldLeft(LAMBDA acc, x : Given(acc, LAMBDA v : op(v, x)), b, s))

AddAll(bag, S) == FoldSet(LAMBDA x, b : BagAdd(b, x), bag, S)

RemoveAll(bag, S) == FoldSet(LAMBDA x, b : BagRemove(b, x), bag, S)

-----------------------------------------------------------------------------
(* Filters *)

\* What an event must look like to be selected.  An absent or empty kind or
\* author set constrains nothing; an absent tag name constrains nothing, but a
\* present name with no value matches no event.
Matches(f, ev) ==
    /\ f.kinds \in {None, {}} \/ ev.kind \in f.kinds
    /\ f.authors \in {None, {}} \/ ev.author \in f.authors
    /\ f.tag = None \/ ev.tag \in f.tag
    /\ f.since = None \/ f.since =< ev.at
    /\ f.until = None \/ ev.at =< f.until

\* component.rs: the axes two filters differ on.
Differing(a, b) == {x \in Axes : a[x] # b[x]}

BothConstrain(a, b) == a \notin {None, {}} /\ b \notin {None, {}}

\* A wrong merge rule: the second operand's value is lost.
DiscardSecondOperand(a, b) ==
    IF Cardinality(Differing(a, b)) = 1 /\ a.limit = None /\ b.limit = None THEN a ELSE None

\* StructuralUnion::try_merge: the union on the one axis that differs, or None.
TryMerge(a, b) ==
    LET d == Differing(a, b)
        axis == CHOOSE x \in d : TRUE
        union == [a EXCEPT ![axis] = @ \cup b[axis]]
    IN  IF /\ a.limit = None /\ b.limit = None
           /\ Cardinality(d) = 1
           /\ \/ axis \in {"kinds", "authors"} /\ BothConstrain(a[axis], b[axis])
              \/ /\ axis = "tag" /\ a.tag # None /\ b.tag # None
                 /\ Cardinality(a.tag \cup b.tag) =< MaxTagValues
        THEN union ELSE None

\* physical_filter_covers: an already-sent filter selects all a candidate does.
OptionSetCovers(p, c) == p = None \/ (c # None /\ c \subseteq p)

PhysicalFilterCovers(p, c) ==
    /\ p.limit = None /\ c.limit = None
    /\ OptionSetCovers(p.kinds, c.kinds)
    /\ OptionSetCovers(p.authors, c.authors)
    /\ p.tag # None => c.tag # None /\ c.tag \subseteq p.tag
    /\ p.since = None \/ (c.since # None /\ p.since =< c.since)
    /\ p.until = None \/ (c.until # None /\ p.until >= c.until)

\* CoverageKey erases the window and the count; DemandKey keeps them.
CoverageKey(atom) ==
    [routing |-> atom.routing,
     filter  |-> [atom.filter EXCEPT !.since = None, !.until = None, !.limit = None]]

DemandKey(atom) ==
    [coverage |-> CoverageKey(atom), since |-> atom.filter.since,
     until |-> atom.filter.until, limit |-> atom.filter.limit]

WithAuthors(f, authors) == [f EXCEPT !.authors = IF authors = {} THEN None ELSE authors]

AuthorsOf(f) == IF f.authors = None THEN {} ELSE f.authors

OutboxAuthors(atom) == IF atom.routing = Auto THEN AuthorsOf(atom.filter) ELSE {}

\* coverage_claim_atoms: one claim per named author of an Auto atom.
CoverageClaims(atom) ==
    IF atom.routing # Auto \/ atom.filter.authors = None
    THEN {CoverageKey(atom)}
    ELSE {CoverageKey([atom EXCEPT !.filter = WithAuthors(@, {a})]) : a \in atom.filter.authors}

-----------------------------------------------------------------------------
(* The coalescer.  An entry is a filter with the provenance, the claims,   *)
(* the owning demands and the coverage assignments that ride on it.        *)

Join(e, other) ==
    [e EXCEPT !.prov = @ \cup other.prov, !.claims = @ \cup other.claims,
              !.demands = @ \cup other.demands, !.assigns = @ \cup other.assigns]

TryMergePair(a, b) ==
    LET f == TryMerge(a.filter, b.filter)
    IN  IF f = None THEN None ELSE [Join(a, b) EXCEPT !.filter = f]

\* Remove both operands, append the merged entry.
ApplyMerge(s, i, j, merged) == Append(RemoveAt(RemoveAt(s, j), i), merged)

\* Re-offer the new tail to the settled prefix, lowest index first, restarting
\* after every merge; st is [cur, settled].
RECURSIVE RevalidatePrefix(_, _)
RevalidatePrefix(st, k) ==
    IF k > st.settled THEN st
    ELSE LET tail == Len(st.cur)
             retry(merged) == IF merged = None THEN RevalidatePrefix(st, k + 1)
                              ELSE RevalidatePrefix([cur |-> ApplyMerge(st.cur, k, tail, merged),
                                                     settled |-> st.settled - 1], 1)
         IN  retry(TryMergePair(st.cur[k], st.cur[tail]))

\* merge_fixed_point: rows before the settled mark are merge-free against all.
RECURSIVE MergeFixedPoint(_, _)
MergeFixedPoint(st, j) ==
    LET row == st.settled + 1
        resume(next) == MergeFixedPoint(next, next.settled + 2)
        attempt(merged) == IF merged = None THEN MergeFixedPoint(st, j + 1)
                           ELSE resume(RevalidatePrefix([st EXCEPT !.cur = ApplyMerge(@, row, j, merged)], 1))
    IN  IF row > Len(st.cur) THEN st.cur
        ELSE IF j > Len(st.cur) THEN MergeFixedPoint([st EXCEPT !.settled = @ + 1], row + 2)
        ELSE attempt(TryMergePair(st.cur[row], st.cur[j]))

\* Fold byte-identical entries into the first of them.
DedupSurvivors(s) ==
    FoldLeft(LAMBDA out, e :
                LET i == SelectInSeq(out, LAMBDA x : x.filter = e.filter)
                IN  IF i = 0 THEN Append(out, e) ELSE [out EXCEPT ![i] = Join(@, e)],
             <<>>, s)

\* coalesce_with: exact dedup, fixed point, exact dedup of the survivors.
Coalesce(entries) ==
    Given(DedupSurvivors(SetToSeq(entries)),
          LAMBDA distinct : Given(MergeFixedPoint([cur |-> distinct, settled |-> 0], 2), DedupSurvivors))

\* Reference for the fixed point: restart the whole row-major scan after every
\* merge (the implementation merge_fixed_point replaced).
RECURSIVE RestartScan(_)
RestartScan(s) ==
    LET pairs == {p \in (1..Len(s)) \X (1..Len(s)) :
                    p[1] < p[2] /\ TryMergePair(s[p[1]], s[p[2]]) # None}
        first == CHOOSE p \in pairs : \A o \in pairs :
                    p[1] < o[1] \/ (p[1] = o[1] /\ p[2] =< o[2])
    IN  IF pairs = {} THEN s
        ELSE RestartScan(ApplyMerge(s, first[1], first[2],
                                    TryMergePair(s[first[1]], s[first[2]])))

-----------------------------------------------------------------------------
(* The coverage solver: a greedy K-cover of authors by relays.  cands maps *)
(* each author to its candidate relays, [relay, lane] in lane order.       *)

CandidateRelays(list) == {c.relay : c \in ToSet(list)}

\* solve's loop: take the relay that fills most open author slots.
RECURSIVE Greedy(_, _, _)
Greedy(cands, selected, assigned) ==
    LET need(a) == Min({Cardinality(CandidateRelays(cands[a])), K}) - Cardinality(assigned[a])
        open == {a \in DOMAIN cands : need(a) > 0}
        useful == UNION {CandidateRelays(cands[a]) : a \in open} \ selected
        score(r) == Cardinality({a \in open : r \in CandidateRelays(cands[a])})
        best == CHOOSE r \in useful : \A o \in useful :
                    score(r) > score(o) \/ (score(r) = score(o) /\ r =< o)
    IN  IF useful = {} THEN assigned
        ELSE Greedy(cands, selected \cup {best},
                    [a \in DOMAIN assigned |->
                        IF a \in open /\ best \in CandidateRelays(cands[a])
                        THEN assigned[a] \cup {best} ELSE assigned[a]])

Solve(cands) == Greedy(cands, {}, [a \in DOMAIN cands |-> {}])

\* The shortfall facts of a solve, per author that stayed below K.
SolveShortfalls(cands, assigned) ==
    [a \in {x \in DOMAIN cands : Cardinality(assigned[x]) < K} |->
        [achieved |-> Cardinality(assigned[a]),
         reason |-> IF cands[a] = <<>> THEN "NoCandidates"
                    ELSE IF Cardinality(CandidateRelays(cands[a])) < K THEN "FewerCandidatesThanK"
                    ELSE "CapExhausted"]]

\* A wrong reduction: an author without any known relay is no shortfall.
ReduceKnownAuthors(intrinsic, achieved, refused) ==
    IF achieved >= K \/ (intrinsic = None /\ ~refused) THEN None
    ELSE IF intrinsic = None THEN [achieved |-> achieved, reason |-> "CapExhausted"]
    ELSE IF intrinsic.reason = "NoCandidates" THEN None ELSE [achieved |-> achieved, reason |-> intrinsic.reason]

\* reduce_outbox_shortfall: what one (demand, author) truthfully reports, or None.
ReduceOutboxShortfall(intrinsic, achieved, refused) ==
    IF achieved >= K THEN None
    ELSE IF intrinsic # None
    THEN [achieved |-> achieved,
          reason |-> IF achieved > 0 /\ intrinsic.reason = "NoCandidates"
                     THEN "FewerCandidatesThanK" ELSE intrinsic.reason]
    ELSE IF refused THEN [achieved |-> achieved, reason |-> "CapExhausted"] ELSE None

\* build_candidates and add_projected_candidates for one author.
Candidates(author, evidence, facts) ==
    LET outbound == [i \in 1..Cardinality(facts.routes[author]) |->
                        [relay |-> SetToSortSeq(facts.routes[author], <)[i], lane |-> "AuthorOutbound"]]
    IN  FoldLeft(LAMBDA list, fact :
                    IF fact.relay \in CandidateRelays(list) THEN list ELSE Append(list, fact),
                 outbound, SetToSeq(evidence))

LaneOf(list, relay) == list[SelectInSeq(list, LAMBDA c : c.relay = relay)].lane

Prov(lane, authors) == [lane |-> lane, covers |-> authors]

-----------------------------------------------------------------------------
(* The bag: for every lane of every group, the entries each relay would    *)
(* carry, as [relay, routing, entry].                                      *)

\* Atoms sharing an author-erased filter are routed as one group.
SkeletonOf(atom) == [atom.filter EXCEPT !.authors = None]

\* auto_ownership: what an entry that serves these authors claims and owns.
AutoOwnership(skeleton, group, authors, coverageAuthors, unbounded) ==
    LET claim(f) == CoverageKey([routing |-> Auto, filter |-> f])
        names(atom) == AuthorsOf(atom.filter)
    IN  [claims  |-> {claim(WithAuthors(skeleton, {a})) : a \in authors}
                       \cup (IF unbounded THEN {claim(skeleton)} ELSE {}),
         demands |-> {DemandKey(atom) : atom \in
                        {x \in group : \/ authors \cap names(x) # {}
                                       \/ unbounded /\ names(x) = {}}},
         assigns |-> {<<DemandKey(p[1]), p[2]>> :
                        p \in {q \in group \X coverageAuthors : q[2] \in names(q[1])}}]

\* One REQ per (relay, group) for the solved authors, the direct hint lane of
\* an unbounded group, the operator's app lane and the fallback lane.
AutoEntries(group, facts, cands, assigned, shortfall) ==
    LET skeleton == SkeletonOf(CHOOSE a \in group : TRUE)
        unbounded == \E a \in group : a.filter.authors = None
        authors == DOMAIN cands
        entry(f, prov, own) == [filter |-> f, prov |-> prov, claims |-> own.claims,
                                demands |-> own.demands, assigns |-> own.assigns]
        at(relay, e) == [relay |-> relay, routing |-> Auto, entry |-> e]
        served(r) == {x \in authors : r \in assigned[x]}
        solved(r) == entry(WithAuthors(skeleton, served(r)),
                           {Prov(LaneOf(cands[x], r), {x}) : x \in served(r)},
                           AutoOwnership(skeleton, group, served(r), served(r), FALSE))
        laneFilter == WithAuthors(skeleton, IF unbounded THEN {} ELSE authors)
        laneOwn == AutoOwnership(skeleton, group, authors, {}, unbounded)
        hints == IF unbounded THEN UNION {a.evidence : a \in group} ELSE {}
        short == DOMAIN shortfall
        fallback == IF short = {} \/ facts.app # {} THEN {} ELSE facts.fallback
    IN  [shortfall |-> shortfall,
         bag |-> {at(r, solved(r)) : r \in UNION {assigned[x] : x \in authors}}
            \cup {at(h.relay, entry(laneFilter, {Prov(h.lane, {})}, laneOwn)) : h \in hints}
            \cup {at(r, entry(laneFilter, {Prov("OperatorApp", authors)}, laneOwn)) : r \in facts.app}
            \cup {at(r, entry(WithAuthors(skeleton, short), {Prov("OperatorFallback", short)},
                              AutoOwnership(skeleton, group, short, {}, FALSE))) : r \in fallback}]

AutoSolved(group, facts, cands, assigned) ==
    AutoEntries(group, facts, cands, assigned, SolveShortfalls(cands, assigned))

AutoBag(group, facts) ==
    LET evidence(x) == UNION {a.evidence : a \in {g \in group : x \in AuthorsOf(g.filter)}}
        cands == [x \in UNION {AuthorsOf(a.filter) : a \in group} |-> Candidates(x, evidence(x), facts)]
    IN  AutoSolved(group, facts, cands, Solve(cands))

\* An explicit atom goes to exactly the relays it names.
ExactBag(atom) ==
    {[relay |-> r, routing |-> atom.routing,
      entry |-> [filter |-> atom.filter, prov |-> {Prov("Exact", {})}, claims |-> {CoverageKey(atom)},
                 demands |-> {DemandKey(atom)}, assigns |-> {}]] : r \in atom.routing}

AutoGroups(demand) ==
    LET auto == {a \in demand : a.routing = Auto}
    IN  {{a \in auto : SkeletonOf(a) = sk} : sk \in {SkeletonOf(a) : a \in auto}}

Bag(demand, facts) ==
    UNION {AutoBag(g, facts).bag : g \in AutoGroups(demand)}
        \cup UNION {ExactBag(a) : a \in {x \in demand : x.routing # Auto}}

-----------------------------------------------------------------------------
(* The relay cap *)

\* The sessions a cap of n keeps: most coverage assignments, then most route
\* facts, then the smaller relay.
Keep(sessions, n, primary(_), secondary(_)) ==
    LET ahead(a, b) == \/ primary(a) > primary(b)
                       \/ primary(a) = primary(b) /\ secondary(a) > secondary(b)
                       \/ primary(a) = primary(b) /\ secondary(a) = secondary(b) /\ a < b
    IN  {a \in sessions : Cardinality({b \in sessions : ahead(b, a)}) < n}

\* apply_global_relay_cap: the sessions the whole plan may use.
ApplyGlobalRelayCap(bag, cap) ==
    LET sessions == {b.relay : b \in bag}
        of(s) == {b.entry : b \in {x \in bag : x.relay = s}}
        primary(s) == Cardinality(UNION {e.assigns : e \in of(s)})
        secondary(s) == MapThenSumSet(
                            LAMBDA e : Max({Cardinality(e.prov), Cardinality(e.claims), 1}), of(s))
    IN  Keep(sessions, cap, primary, secondary)

-----------------------------------------------------------------------------
(* Subscription tokens: which request of the running plan a newly compiled *)
(* filter continues.  priors is a set of requests of one partition.        *)

Distance(a, b) == IF a = None \/ b = None THEN 1000000 ELSE IF a > b THEN a - b ELSE b - a

Affinity(axis, a, b) ==
    IF axis \in {"since", "until", "limit"}
    THEN [overlap |-> 0, distance |-> Distance(a[axis], b[axis])]
    ELSE [overlap |-> IF a[axis] = None \/ b[axis] = None THEN 0
                      ELSE Cardinality(a[axis] \cap b[axis]),
          distance |-> 0]

\* The untaken prior that differs on one axis only, best affinity first.
OneDiffPrior(priors, f) ==
    LET near == {p \in priors : Cardinality(Differing(p.filter, f)) = 1}
        aff(p) == Affinity(CHOOSE x \in Differing(p.filter, f) : TRUE, p.filter, f)
        better(p, o) == \/ aff(p).overlap > aff(o).overlap
                        \/ aff(p).overlap = aff(o).overlap /\ aff(p).distance =< aff(o).distance
    IN  IF near = {} THEN None ELSE CHOOSE p \in near : \A o \in near : better(p, o)

\* SubId::allocate, for a filter that may replace a prior one.
TokenFor(relay, prior, n) == <<relay, n>>

\* assign: an unchanged filter keeps its token; a filter one axis away from an
\* unclaimed prior gets a fresh token and names that prior as the request it
\* replaces; everything else is new.  Returns tokens and predecessors by index.
Assign(relay, priors, filters, mint) ==
    LET n == Len(filters)
        same(i) == {p \in priors : p.filter = filters[i]}
        kept == [i \in {x \in 1..n : same(x) # {}} |->
                    CHOOSE p \in same(i) : \A o \in same(i) : p.sub[2] =< o.sub[2]]
        claim(acc, i, prior) == IF prior = None THEN acc
                                ELSE [acc EXCEPT !.taken = @ \cup {prior}, !.pred = Put(@, i, prior.sub)]
        step(acc, i) == IF i \in DOMAIN kept THEN acc
                        ELSE claim(acc, i, OneDiffPrior(priors \ (Range(kept) \cup acc.taken), filters[i]))
        matched == FoldLeft(step, [taken |-> {}, pred |-> <<>>], [i \in 1..n |-> i])
        continued == {i \in 1..n : i \in DOMAIN matched.pred}
        fresh == (1..n) \ (DOMAIN kept \cup continued)
        pred(i) == IF i \in continued THEN matched.pred[i] ELSE None
        before(i) == IF i \in continued THEN {x \in continued : x < i}
                     ELSE continued \cup {x \in fresh : x < i}
    IN  [sub  |-> [i \in 1..n |-> IF i \in DOMAIN kept THEN kept[i].sub
                                  ELSE TokenFor(relay, pred(i), mint + Cardinality(before(i)))],
         pred |-> [i \in 1..n |-> pred(i)],
         mint |-> mint + Cardinality(continued) + Cardinality(fresh)]

Rank(req) == <<Cardinality(req.assigns), Cardinality(req.claims), Cardinality(req.prov)>>

Ahead(a, b) == \E i \in 1..Len(a) : a[i] > b[i] /\ \A k \in 1..(i - 1) : a[k] = b[k]

\* refuse_over_budget and the residual budget: incumbents outrank newcomers,
\* then the coverage bias decides.  Returns the requests that stay.
WithinBudget(reqs, allowed, incumbents) ==
    LET rank(q) == <<IF q.sub \in incumbents THEN 1 ELSE 0>> \o Rank(q)
    IN  IF Cardinality(reqs) =< allowed THEN reqs
        ELSE CHOOSE keep \in kSubset(allowed, reqs) :
                \A q \in keep, o \in reqs \ keep : ~Ahead(rank(o), rank(q))

BySub(reqs) == SetToSortSeq(reqs, LAMBDA a, b : a.sub[2] < b.sub[2])

\* The requests of one partition, its filters merged and named.
NamedRequests(acc, routing, merged, named) ==
    [mint |-> named.mint,
     reqs |-> acc.reqs \cup {[sub |-> named.sub[i], filter |-> merged[i].filter,
                routing |-> routing, prov |-> merged[i].prov,
                claims |-> merged[i].claims, demands |-> merged[i].demands,
                assigns |-> merged[i].assigns] : i \in DOMAIN merged},
     replaced |-> acc.replaced \cup
        {[prior |-> named.pred[i], next |-> named.sub[i]] :
            i \in {x \in DOMAIN merged : named.pred[x] # None}}]

NamePartition(acc, relay, routing, priors, merged) ==
    Given(Assign(relay, priors, [i \in DOMAIN merged |-> merged[i].filter], acc.mint),
          LAMBDA named : NamedRequests(acc, routing, merged, named))

\* One session of compile_demand: coalesce and name every partition, then cut
\* the result to the relay's advertised number of subscriptions.
CutSession(all, running, allowed) ==
    LET kept == IF allowed = None THEN all.reqs
                ELSE WithinBudget(all.reqs, allowed, {q.sub : q \in running})
    IN  [mint |-> all.mint, kept |-> kept, refused |-> all.reqs \ kept,
         planned |-> Cardinality(all.reqs), replaced |-> all.replaced]

CompileSession(bag, relay, running, mint, allowed) ==
    LET here == {b \in bag : b.relay = relay}
        step(acc, routing) ==
            Given(Coalesce({b.entry : b \in {x \in here : x.routing = routing}}),
                  LAMBDA merged : NamePartition(acc, relay, routing, {q \in running : q.routing = routing}, merged))
    IN  Given(Sequel(step, [mint |-> mint, reqs |-> {}, replaced |-> {}], SetToSeq({b.routing : b \in here})),
              LAMBDA all : CutSession(all, running, allowed))

\* The intrinsic shortfall facts of every Auto demand, reduced against what the
\* selected requests really achieve.
ReducedFacts(a, short, reqs, refusedAssigns) ==
    LET achieved(x) == Cardinality({s \in DOMAIN reqs : \E q \in ToSet(reqs[s]) :
                                        <<DemandKey(a), x>> \in q.assigns})
        fact(x) == ReduceOutboxShortfall(At(short, x, None), achieved(x),
                                         <<DemandKey(a), x>> \in refusedAssigns)
    IN  [x \in {y \in AuthorsOf(a.filter) : fact(y) # None} |-> fact(x)]

ReducedUncovered(demand, facts, reqs, refusedAssigns) ==
    LET auto == {a \in demand : a.routing = Auto}
        of(a) == ReducedFacts(a, AutoBag({x \in auto : SkeletonOf(x) = SkeletonOf(a)}, facts).shortfall,
                              reqs, refusedAssigns)
        atomOf(d) == CHOOSE a \in auto : DemandKey(a) = d
    IN  [d \in {DemandKey(a) : a \in {x \in auto : of(x) # <<>>}} |-> of(atomOf(d))]

PlanSession(acc, relay, c) ==
    [mint |-> c.mint,
     reqs |-> IF c.kept = {} THEN acc.reqs ELSE Put(acc.reqs, relay, BySub(c.kept)),
     replaced |-> acc.replaced \cup c.replaced,
     refused |-> acc.refused \cup {[session |-> relay, req |-> q] : q \in c.refused},
     shortfalls |-> IF c.refused = {} THEN acc.shortfalls
                    ELSE Put(acc.shortfalls, relay,
                             [planned |-> c.planned, refused |-> Cardinality(c.refused)])]

\* What a compilation reports beside its plan: who was refused, and where.
CompiledPlan(plan, all, keep, demand, facts) ==
    LET capped == {b \in all : b.relay \notin keep}
        capAssigns == UNION {b.entry.assigns : b \in capped}
        refusedAssigns == capAssigns \cup UNION {x.req.assigns : x \in plan.refused}
    IN  [mint |-> plan.mint, reqs |-> plan.reqs, replaced |-> plan.replaced,
         shortfalls |-> plan.shortfalls,
         budgetRefused |-> plan.refused,
         capRefused |-> UNION {{<<b.relay, d>> : d \in b.entry.demands} : b \in capped},
         capAssigns |-> capAssigns,
         limited |-> UNION {b.entry.demands : b \in capped} \cup UNION {x.req.demands : x \in plan.refused},
         refusedSessions |-> {b.relay : b \in capped} \cup (keep \ DOMAIN plan.reqs),
         uncovered |-> ReducedUncovered(demand, facts, plan.reqs, refusedAssigns)]

CompileBag(mint, running, demand, facts, budget, all) ==
    LET keep == ApplyGlobalRelayCap(all, budget.cap)
        step(acc, relay) ==
            Given(CompileSession(all, relay, ToSet(At(running, relay, <<>>)), acc.mint, budget.subs[relay]),
                  LAMBDA c : PlanSession(acc, relay, c))
    IN  Given(Sequel(step, [mint |-> mint, reqs |-> <<>>, replaced |-> {}, refused |-> {},
                            shortfalls |-> <<>>], SetToSortSeq(keep, <)),
              LAMBDA plan : CompiledPlan(plan, all, keep, demand, facts))

\* compile_demand: route, cap, coalesce, name and budget a demand set.
CompileDemand(mint, running, demand, facts, budget) ==
    Given(Bag(demand, facts), LAMBDA all : CompileBag(mint, running, demand, facts, budget, all))

=============================================================================
