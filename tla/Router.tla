------------------------------- MODULE Router -------------------------------
(***************************************************************************)
(* The stateful half of nmp-router: one running relay plan and the two     *)
(* dozen indexes that let it be extended (admit), shrunk (withdraw),       *)
(* re-joined (reactivate_covered_atom) and rebuilt (compile) without       *)
(* recomputing it.  A running request is immutable: admission attaches     *)
(* owners to it or opens a new one, withdrawal detaches owners and closes  *)
(* it with the last of them, and only compile may replace its filter.      *)
(*                                                                         *)
(* The router is one record, every method an operator from record to       *)
(* record, as the engine owns it behind &mut self.  A reverse map that the *)
(* code updates in the same two functions as its forward map (physical     *)
(* claims, physical demands, owners of an uncovered author) is derived.    *)
(***************************************************************************)
EXTENDS RoutePlan

EmptyRouter ==
    [reqs |-> <<>>, limited |-> {}, refusedSessions |-> {}, shortfalls |-> <<>>, mint |-> 0,
     active |-> <<>>, byDemand |-> <<>>, count |-> <<>>, cover |-> <<>>, pos |-> <<>>,
     exact |-> <<>>, physClaims |-> <<>>, physContrib |-> <<>>, contrib |-> <<>>,
     claimCount |-> EmptyBag, provCount |-> EmptyBag, coverCount |-> EmptyBag,
     assignReqs |-> <<>>, refusedAssigns |-> <<>>, authors |-> EmptyBag,
     uncovered |-> <<>>, uncoveredAuthors |-> <<>>,
     refusals |-> <<>>, refusedReqs |-> <<>>, refusedCount |-> EmptyBag,
     lanes |-> EmptyBag, diagAuthors |-> EmptyBag, capRefused |-> 0, budgetRefused |-> 0]

PlanRequests(r) == UNION {ToSet(r.reqs[s]) : s \in DOMAIN r.reqs}

RequestAt(r, key) == r.reqs[key[1]][r.pos[key]]

SetRequest(r, key, req) == [r EXCEPT !.reqs[key[1]][r.pos[key]] = req]

\* Add x to, or take x from, the set a partial map keeps under k.
Link(f, k, x) == Put(f, k, At(f, k, {}) \cup {x})

Unlink(f, k, x) == IF At(f, k, {}) \ {x} = {} THEN Drop(f, {k}) ELSE Put(f, k, f[k] \ {x})

LinkAll(f, ks, x) == FoldSet(LAMBDA k, g : Link(g, k, x), f, ks)

UnlinkAll(f, ks, x) == FoldSet(LAMBDA k, g : Unlink(g, k, x), f, ks)

-----------------------------------------------------------------------------
(* What each demand contributes to a physical request *)

NoContribution == [claims |-> {}, assigns |-> {}, prov |-> {}]

DeriveContribution(atom, req) ==
    LET authors == OutboxAuthors(atom)
    IN  [claims |-> CoverageClaims(atom) \cap req.claims,
         assigns |-> {x \in req.assigns : x[1] = DemandKey(atom)},
         prov |-> {p \in req.prov : \/ p.covers = {} \/ authors = {}
                                    \/ p.covers \cap authors # {}}]

Contributions(r, req) ==
    [d \in req.demands \cap DOMAIN r.active |-> DeriveContribution(r.active[d], req)]

\* The delta holds what no other owner of the request contributed before.
AddContribution(r, key, d, c) ==
    LET owners == At(r.contrib, key, <<>>)
        old == At(owners, d, NoContribution)
        claims == c.claims \ old.claims
        prov == c.prov \ old.prov
        tag(S) == {<<key, x>> : x \in S}
        first(S, bag) == {x \in S : CopiesIn(<<key, x>>, bag) = 0}
        added == d \notin DOMAIN owners
    IN  [r |-> [r EXCEPT !.contrib = Put(@, key, Put(owners, d,
                            [claims |-> old.claims \cup claims, assigns |-> old.assigns \cup c.assigns,
                             prov |-> old.prov \cup prov])),
                         !.claimCount = AddAll(@, tag(claims)),
                         !.provCount = AddAll(@, tag(prov)),
                         !.coverCount = IF added THEN BagAdd(@, <<key, d.coverage>>) ELSE @],
         added |-> IF added THEN {d} ELSE {},
         claims |-> first(claims, r.claimCount), prov |-> first(prov, r.provCount),
         assigns |-> c.assigns \ old.assigns]

Gathered(acc, x) ==
    [r |-> x.r, added |-> acc.added \cup x.added, claims |-> acc.claims \cup x.claims,
     prov |-> acc.prov \cup x.prov, assigns |-> acc.assigns \cup x.assigns]

AddContributions(r, key, cs) ==
    Stages(LAMBDA d, acc : Gathered(acc, AddContribution(acc.r, key, d, cs[d])),
           [r |-> r, added |-> {}, claims |-> {}, prov |-> {}, assigns |-> {}], DOMAIN cs)

RemoveContribution(r, key, d) ==
    LET owners == At(r.contrib, key, <<>>)
        c == At(owners, d, NoContribution)
        rest == Drop(owners, {d})
        tag(S) == {<<key, x>> : x \in S}
        last(S, bag) == {x \in S : CopiesIn(<<key, x>>, bag) = 1}
    IN  IF d \notin DOMAIN owners
        THEN [r |-> r, claims |-> {}, prov |-> {}, assigns |-> {}]
        ELSE [r |-> [r EXCEPT !.contrib = IF rest = <<>> THEN Drop(@, {key}) ELSE Put(@, key, rest),
                              !.claimCount = RemoveAll(@, tag(c.claims)),
                              !.provCount = RemoveAll(@, tag(c.prov)),
                              !.coverCount = BagRemove(@, <<key, d.coverage>>)],
              claims |-> last(c.claims, r.claimCount), prov |-> last(c.prov, r.provCount),
              assigns |-> c.assigns]

-----------------------------------------------------------------------------
(* Per-session diagnostics: how many route facts each lane and each author *)
(* has among the requests of a session.                                    *)

LaneFacts(session, prov) ==
    FoldSet(LAMBDA p, b : BagAdd(b, <<session, p.lane>>), EmptyBag, prov)

AuthorFacts(session, prov) ==
    FoldSet(LAMBDA p, b : AddAll(b, {<<session, x>> : x \in p.covers}), EmptyBag, prov)

AddDiagnostics(r, session, prov) ==
    [r EXCEPT !.lanes = @ (+) LaneFacts(session, prov),
              !.diagAuthors = @ (+) AuthorFacts(session, prov)]

RemoveDiagnostics(r, session, prov) ==
    [r EXCEPT !.lanes = @ (-) LaneFacts(session, prov),
              !.diagAuthors = @ (-) AuthorFacts(session, prov)]

\* RefusedSessionClass of a session, or None.
RefusedClass(r, s) ==
    IF s \notin r.refusedSessions THEN None
    ELSE IF s \in DOMAIN r.shortfalls THEN "SubscriptionBudget" ELSE "RelayCap"

\* refresh_refusal_diagnostics: adjust the two session counters.
RefreshRefusal(r, s, before) ==
    LET moved(class) == (IF RefusedClass(r, s) = class THEN 1 ELSE 0) - (IF before = class THEN 1 ELSE 0)
    IN  [r EXCEPT !.capRefused = @ + moved("RelayCap"),
                  !.budgetRefused = @ + moved("SubscriptionBudget")]

\* A session is refused when nothing is planned on it and some owner is refused there.
SettleRefusedSession(r, s) ==
    [r EXCEPT !.refusedSessions =
        IF s \in DOMAIN r.reqs \/ CopiesIn(s, r.refusedCount) = 0 THEN @ \ {s} ELSE @ \cup {s}]

-----------------------------------------------------------------------------
(* Refusals *)

IndexRefusal(r, d, s, owner) ==
    [r EXCEPT !.refusals = Put(@, d, Put(At(@, d, <<>>), s, owner)),
              !.refusedCount = BagAdd(@, s)]

RefuseAssigns(r, assigns) ==
    [r EXCEPT !.refusedAssigns = FoldSet(LAMBDA x, f : Link(f, x[1], x[2]), @, assigns)]

\* record_refused_request
RecordRefused(r, s, req, kind) ==
    LET sub == IF kind = "SubscriptionBudget" THEN req.sub ELSE None
        noted == RefuseAssigns(r, req.assigns)
        counted == IF sub = None THEN noted
                   ELSE [noted EXCEPT !.refusedReqs = Put(@, sub, Cardinality(req.demands))]
    IN  FoldSet(LAMBDA d, acc :
                    [IndexRefusal(acc, d, s, [kind |-> kind, request |-> sub])
                        EXCEPT !.limited = IF d \in DOMAIN acc.refusals THEN @ ELSE @ \cup {d}],
                counted, req.demands)

\* remove_refusal_owners: the demand's refusals at every session go together.
RemoveRefusals(r, d) ==
    LET owners == At(r.refusals, d, <<>>)
        cleared == [r EXCEPT !.refusals = Drop(@, {d}), !.limited = @ \ {d},
                             !.refusedAssigns = Drop(@, {d})]
        shrink(f, s) == LET x == [planned |-> Max({f[s].planned - 1, 0}), refused |-> Max({f[s].refused - 1, 0})]
                        IN  IF x.refused = 0 THEN Drop(f, {s}) ELSE Put(f, s, x)
        step(s, acc) ==
            LET sub == owners[s].request
                less == [acc EXCEPT !.refusedCount = BagRemove(@, s)]
                last == sub # None /\ At(acc.refusedReqs, sub, 0) = 1
                freed == IF sub = None THEN less
                         ELSE IF last
                         THEN [less EXCEPT !.refusedReqs = Drop(@, {sub}),
                                           !.shortfalls = IF s \in DOMAIN @ THEN shrink(@, s) ELSE @]
                         ELSE [less EXCEPT !.refusedReqs = Put(@, sub, @[sub] - 1)]
            IN  RefreshRefusal(SettleRefusedSession(freed, s), s, RefusedClass(acc, s))
    IN  IF d \notin DOMAIN r.refusals THEN r ELSE FoldSet(step, cleared, DOMAIN owners)

-----------------------------------------------------------------------------
(* Uncovered authors *)

Severity(f) == <<K - f.achieved,
                 CASE f.reason = "NoCandidates" -> 3 [] f.reason = "CapExhausted" -> 2 [] OTHER -> 1,
                 K, 0 - f.achieved>>

\* strongest_shortfall over every demand that is short of the author.
StrongestShortfall(uncovered, author) ==
    LET facts == {uncovered[d][author] : d \in {x \in DOMAIN uncovered : author \in DOMAIN uncovered[x]}}
    IN  CHOOSE f \in facts : \A o \in facts : ~Ahead(Severity(o), Severity(f))

UncoveredOf(uncovered) ==
    [a \in UNION {DOMAIN uncovered[d] : d \in DOMAIN uncovered} |-> StrongestShortfall(uncovered, a)]

\* replace_uncovered_demand and remove_uncovered_demand: only the authors named
\* by the old or the new facts are refreshed.
ReplaceUncovered(r, d, facts) ==
    LET next == IF facts = <<>> THEN Drop(r.uncovered, {d}) ELSE Put(r.uncovered, d, facts)
        touched == DOMAIN At(r.uncovered, d, <<>>) \cup DOMAIN facts
        all == UncoveredOf(next)
    IN  [r EXCEPT !.uncovered = next,
                  !.uncoveredAuthors = Drop(@, touched) @@ Restrict(all, touched \cap DOMAIN all)]

-----------------------------------------------------------------------------
(* Admission: attach to what runs, append what does not *)

\* activate: a demand becomes live again on every request that still knows it.
Activate(r, atom) ==
    LET d == DemandKey(atom)
        edges == At(r.byDemand, d, {})
    IN  IF d \in DOMAIN r.active THEN [r EXCEPT !.active = Put(@, d, atom)]
        ELSE [r EXCEPT !.active = Put(@, d, atom), !.authors = AddAll(@, OutboxAuthors(atom)),
                       !.count = [q \in DOMAIN @ |-> IF q \in edges THEN @[q] + 1 ELSE @[q]]]

\* attach_request_metadata: new owners and claims of an immutable request.
AttachContribution(r, key, x) ==
    LET live == x.added \cap DOMAIN r.active
        linked == [x.r EXCEPT !.byDemand = LinkAll(@, x.added, key),
                              !.count[key] = @ + Cardinality(live),
                              !.cover[key] = @ \cup {d.coverage : d \in x.added},
                              !.assignReqs = LinkAll(@, x.assigns, key)]
        old == RequestAt(x.r, key)
        req == [old EXCEPT !.claims = @ \cup x.claims, !.demands = @ \cup x.added,
                           !.assigns = @ \cup x.assigns, !.prov = @ \cup x.prov]
    IN  [r |-> SetRequest(AddDiagnostics(linked, key[1], x.prov), key, req),
         updates |-> IF x.added = {} /\ x.claims = {} THEN {}
                     ELSE {[sub |-> key, filter |-> old.filter, claims |-> x.claims, demands |-> x.added]}]

AttachMetadata(r, key, cand) ==
    Given(AddContributions(r, key, Contributions(r, cand)), LAMBDA x : AttachContribution(r, key, x))

\* covering_request_key: the request with the very same filter, or one whose
\* sent claims and filter contain the candidate's.
CoveringKeys(r, session, cand) ==
    LET exact == <<session, cand.routing, cand.filter>>
        covers(key) == /\ key[1] = session /\ cand.claims # {}
                       /\ cand.claims \subseteq r.physClaims[key]
                       /\ RequestAt(r, key).routing = cand.routing
                       /\ PhysicalFilterCovers(RequestAt(r, key).filter, cand.filter)
    IN  IF exact \in DOMAIN r.exact THEN {r.exact[exact]}
        ELSE {k \in DOMAIN r.physClaims : covers(k)}

\* What a request physically carries from the moment it is planned, whatever
\* its owners do later.
IndexPhysical(r, req, own) ==
    [r EXCEPT !.physClaims = Put(@, req.sub, req.claims),
              !.physContrib = Put(@, req.sub, [d \in req.demands |-> At(own, d, NoContribution)])]

UnindexPhysical(r, key) ==
    [r EXCEPT !.physClaims = Drop(@, {key}), !.physContrib = Drop(@, {key})]

\* add_full_request_indexes: every index of one new request but its position.
IndexRequest(r, session, req) ==
    LET key == req.sub
        own == Contributions(r, req)
        indexed == [r EXCEPT !.byDemand = LinkAll(@, req.demands, key),
                             !.count = Put(@, key, Cardinality(req.demands \cap DOMAIN r.active)),
                             !.cover = Put(@, key, {d.coverage : d \in req.demands}),
                             !.assignReqs = LinkAll(@, req.assigns, key),
                             !.exact = Put(@, <<session, req.routing, req.filter>>, key)]
    IN  Given(AddContributions(IndexPhysical(indexed, req, own), key, own),
              LAMBDA x : AddDiagnostics(x.r, session, req.prov))

\* append_active_request: the admitted request goes to the end of its session.
AppendRequest(r, session, req) ==
    LET list == At(r.reqs, session, <<>>)
    IN  [IndexRequest(r, session, req) EXCEPT !.reqs = Put(@, session, Append(list, req)),
                                              !.pos = Put(@, req.sub, Len(list) + 1)]

\* remove_full_request_indexes: forget a request but its place in the plan.
UnindexRequest(r, session, req) ==
    LET key == req.sub
        x == FoldSet(LAMBDA d, acc : RemoveContribution(acc, key, d).r,
                     RemoveDiagnostics(r, session, req.prov), req.demands)
    IN  [UnindexPhysical(x, key) EXCEPT
            !.exact = Drop(@, {<<session, req.routing, req.filter>>}),
            !.cover = Drop(@, {key}), !.count = Drop(@, {key}),
            !.byDemand = UnlinkAll(@, req.demands, key),
            !.assignReqs = UnlinkAll(@, req.assigns, key)]

\* admission_incomplete: an exact demand still lacks relay work or coverage.
AdmissionIncomplete(r, d) ==
    d \notin DOMAIN r.byDemand \/ d \in r.limited \/ d \in DOMAIN r.uncovered

\* The candidate requests of a cohort, as a sequence of [session, req].
CandidatesOf(c) ==
    [compiled |-> c,
     reqs |-> FoldLeft(LAMBDA acc, ss : acc \o [i \in DOMAIN c.reqs[ss] |->
                            [session |-> ss, req |-> c.reqs[ss][i]]], <<>>,
                       SetToSortSeq(DOMAIN c.reqs, <))]

Candidate(mint, pending, facts, budget) ==
    Given(CompileDemand(mint, <<>>, pending, facts,
                        [budget EXCEPT !.cap = 1000, !.subs = [x \in DOMAIN @ |-> None]]), CandidatesOf)

\* What a relay's advertised number of subscriptions leaves for new ones.
Room(r, s, allowed) == Max({allowed - Len(At(r.reqs, s, <<>>)), 0})

\* apply_residual_budget: what the relay cap and the subscription budgets leave
\* of the candidate beside the requests already running.
ResidualBudget(r, cand, budget) ==
    LET sessions == {c.session : c \in cand}
        of(s) == {c.req : c \in {x \in cand : x.session = s}}
        new == {s \in sessions : s \notin DOMAIN r.reqs}
        room == Max({budget.cap - Cardinality(DOMAIN r.reqs), 0})
        primary(s) == Cardinality(UNION {q.assigns : q \in of(s)})
        secondary(s) == MapThenSumSet(
                            LAMBDA q : Max({Cardinality(q.claims), Cardinality(q.prov), 1}), of(s))
        open == (sessions \ new) \cup Keep(new, room, primary, secondary)
        kept(s) == IF budget.subs[s] = None THEN of(s) ELSE WithinBudget(of(s), Room(r, s, budget.subs[s]), {})
    IN  [admitted |-> [s \in {x \in open : kept(x) # {}} |-> BySub(kept(s))],
         totals |-> [s \in open |-> Cardinality(of(s))],
         refused |-> UNION {{[session |-> s, req |-> q, kind |-> "RelayCap"] : q \in of(s)} : s \in sessions \ open}
            \cup UNION {{[session |-> s, req |-> q, kind |-> "SubscriptionBudget"] : q \in of(s) \ kept(s)}
                            : s \in open}]

\* Attach every candidate a running request already serves.
AttachCandidate(acc, x) == [r |-> x.r, left |-> acc.left, updates |-> acc.updates \cup x.updates]

AttachCohort(r, cands) ==
    Sequel(LAMBDA acc, c :
                LET keys == CoveringKeys(acc.r, c.session, c.req)
                IN  IF keys = {} THEN [acc EXCEPT !.left = @ \cup {c}]
                    ELSE AttachCandidate(acc, AttachMetadata(acc.r, CHOOSE k \in keys : TRUE, c.req)),
           [r |-> r, left |-> {}, updates |-> {}], cands)

\* Drop the owners a session already serves, then the ownerless candidates.
PruneServed(r, left) ==
    LET served(d, s) == \E k \in At(r.byDemand, d, {}) : k[1] = s
        prune(c) == LET ds == {d \in c.req.demands : ~served(d, c.session)}
                    IN  [c EXCEPT !.req.demands = ds,
                                  !.req.assigns = {x \in @ : x[1] \in ds}]
    IN  {c \in {prune(x) : x \in left} : c.req.demands # {}}

\* The subscription shortfalls once a residual budget has been applied.
GrowShortfalls(r, res) ==
    LET refusedAt(s) == Cardinality({x \in res.refused : x.session = s /\ x.kind = "SubscriptionBudget"})
    IN  [s \in DOMAIN r.shortfalls \cup {x \in DOMAIN res.totals : refusedAt(x) > 0} |->
            IF s \notin DOMAIN res.totals THEN r.shortfalls[s]
            ELSE IF s \in DOMAIN r.shortfalls
            THEN [planned |-> r.shortfalls[s].planned + res.totals[s],
                  refused |-> r.shortfalls[s].refused + refusedAt(s)]
            ELSE [planned |-> Len(At(r.reqs, s, <<>>)) + res.totals[s], refused |-> refusedAt(s)]]

\* Every pending demand's shortfall is restated from what it now achieves.
Restate(r, pending, uncovered) ==
    LET achieved(d, a) == Cardinality({k[1] : k \in At(r.assignReqs, <<d, a>>, {})})
        fact(d, a) == ReduceOutboxShortfall(At(At(uncovered, d, <<>>), a, None), achieved(d, a),
                                            a \in At(r.refusedAssigns, d, {}))
        restated(atom) == [a \in {x \in OutboxAuthors(atom) : fact(DemandKey(atom), x) # None} |->
                                fact(DemandKey(atom), a)]
    IN  Stages(LAMBDA a, acc : ReplaceUncovered(acc, DemandKey(a), restated(a)), r, pending)

\* The residual of a candidate cohort joins the plan or is refused.
AdmitResidual(attached, pending, uncovered, res) ==
    LET before == attached.r
        affected == DOMAIN res.admitted \cup {x.session : x \in res.refused}
        appended == Stages(LAMBDA s, acc : Sequel(LAMBDA a, q : AppendRequest(a, s, q), acc, res.admitted[s]),
                           before, DOMAIN res.admitted)
        recorded == Stages(LAMBDA x, acc : RecordRefused(acc, x.session, x.req, x.kind),
                           [appended EXCEPT !.shortfalls = GrowShortfalls(before, res)], res.refused)
        settled == Stages(LAMBDA s, acc : SettleRefusedSession(acc, s), recorded, affected)
        shown == Stages(LAMBDA s, acc : RefreshRefusal(acc, s, RefusedClass(before, s)), settled, affected)
    IN  [r |-> Given(shown, LAMBDA r : Restate(r, pending, uncovered)), updates |-> attached.updates,
         open |-> UNION {{[sub |-> q.sub, filter |-> q.filter] : q \in ToSet(res.admitted[s])}
                            : s \in DOMAIN res.admitted}]

AdmitAttached(attached, pending, uncovered, budget) ==
    Given(ResidualBudget(attached.r, PruneServed(attached.r, attached.left), budget),
          LAMBDA res : AdmitResidual(attached, pending, uncovered, res))

AdmitCandidate(r, pending, cand, budget) ==
    Given(AttachCohort([r EXCEPT !.mint = cand.compiled.mint], cand.reqs),
          LAMBDA attached : AdmitAttached(attached, pending, cand.compiled.uncovered, budget))

\* admit: one already-routed cohort joins the running plan.
Admit(r0, cohort, facts, budget) ==
    LET pending == {a \in cohort : DemandKey(a) \notin DOMAIN r0.active
                                     \/ AdmissionIncomplete(r0, DemandKey(a))}
        active == Stages(LAMBDA a, acc : IF DemandKey(a) \in DOMAIN acc.active THEN acc ELSE Activate(acc, a),
                         r0, cohort)
        cleared == Stages(LAMBDA a, acc : RemoveRefusals(acc, DemandKey(a)), active, pending)
    IN  IF pending = {} THEN [r |-> active, open |-> {}, updates |-> {}]
        ELSE Given([r |-> cleared, cand |-> Candidate(r0.mint, pending, facts, budget)],
                   LAMBDA x : AdmitCandidate(x.r, pending, x.cand, budget))

\* reactivate_covered_atom: an original owner of a request returns to it
\* without compiling anything; None when no request still contains it.
ReactivateCoveredAtom(r, atom) ==
    LET d == DemandKey(atom)
        fits(k) == /\ d \in DOMAIN r.physContrib[k]
                   /\ RequestAt(r, k).routing = atom.routing
                   /\ PhysicalFilterCovers(RequestAt(r, k).filter, atom.filter)
        keys == {k \in DOMAIN r.physContrib : fits(k)}
        key == CHOOSE k \in keys : TRUE
        c == r.physContrib[key][d]
    IN  IF keys = {} THEN None
        ELSE AttachMetadata(r, key, [sub |-> key, filter |-> atom.filter, routing |-> atom.routing,
                                     prov |-> c.prov, claims |-> c.claims, demands |-> {d},
                                     assigns |-> c.assigns])

\* request_claims: what the next send of a request may prove.
RequestClaims(r, key) == RequestAt(r, key).claims \cup r.physClaims[key]

DemandRequests(r, d) == At(r.byDemand, d, {}) \cup {k \in DOMAIN r.physContrib : d \in DOMAIN r.physContrib[k]}

\* preview_admission: what admission would give a cohort, without giving it.
\* reqs are the requests that would serve it, with the claims they would earn.
PreviewRow(key, f, ds, cs) == [sub |-> key, filter |-> f, demands |-> ds, claims |-> cs]

PreviewRows(r, cohort, covered, res) ==
    LET known == UNION {{PreviewRow(k, RequestAt(r, k).filter, {DemandKey(a)},
                                    CoverageClaims(a) \cap RequestClaims(r, k)) :
                            k \in DemandRequests(r, DemandKey(a))} : a \in cohort}
        owner(c) == CHOOSE k \in CoveringKeys(r, c.session, c.req) : TRUE
    IN  [reqs |-> known
            \cup {PreviewRow(owner(c), RequestAt(r, owner(c)).filter, c.req.demands, c.req.claims) : c \in covered}
            \cup UNION {{PreviewRow(q.sub, q.filter, q.demands, q.claims) : q \in ToSet(res.admitted[s])}
                            : s \in DOMAIN res.admitted},
         limited |-> UNION {x.req.demands : x \in res.refused}]

PreviewCandidates(r, cohort, budget, cand) ==
    LET covered == {c \in cand : CoveringKeys(r, c.session, c.req) # {}}
        prune(c) == LET ds == {d \in c.req.demands : \A k \in DemandRequests(r, d) : k[1] # c.session}
                    IN  [c EXCEPT !.req.demands = ds, !.req.assigns = {x \in @ : x[1] \in ds},
                                  !.req.claims = @ \cap UNION {CoverageClaims(a) :
                                        a \in {y \in cohort : DemandKey(y) \in ds}}]
        left == {c \in {prune(x) : x \in cand \ covered} : c.req.demands # {}}
    IN  PreviewRows(r, cohort, covered, ResidualBudget(r, left, budget))

PreviewAdmission(r, cohort, facts, budget) ==
    LET pending == {a \in cohort : AdmissionIncomplete(r, DemandKey(a))}
    IN  PreviewCandidates(r, cohort, budget, ToSet(Candidate(r.mint, pending, facts, budget).reqs))

-----------------------------------------------------------------------------
(* Withdrawal *)

\* swap_remove a request from its session, and repair the position that moved.
SwapRemove(r, key) ==
    LET s == key[1]
        list == r.reqs[s]
        at == r.pos[key]
        n == Len(list)
        rest == SubSeq(IF at = n THEN list ELSE [list EXCEPT ![at] = list[n]], 1, n - 1)
        pos == Drop(r.pos, {key})
    IN  [r EXCEPT !.reqs = IF rest = <<>> THEN Drop(@, {s}) ELSE Put(@, s, rest),
                  !.pos = IF at = n THEN pos ELSE Put(pos, list[n].sub, at)]

\* One edge of a closing demand: the request loses an owner, or its last one.
DetachContribution(acc, key, d, x, old) ==
    LET kept == [old EXCEPT !.demands = @ \ {d}, !.claims = @ \ x.claims,
                            !.assigns = @ \ x.assigns, !.prov = @ \ x.prov]
        gone == CopiesIn(<<key, d.coverage>>, x.r.coverCount) = 0
        pruned == [x.r EXCEPT !.byDemand = Unlink(@, d, key),
                              !.cover[key] = IF gone THEN @ \ {d.coverage} ELSE @,
                              !.assignReqs = UnlinkAll(@, x.assigns, key)]
    IN  [acc EXCEPT !.r = SetRequest(RemoveDiagnostics(pruned, key[1], x.prov), key, kept),
                    !.removals = @ \cup {[sub |-> key, filter |-> old.filter,
                                          claims |-> x.claims, demands |-> {d}]}]

DetachOwner(acc, key, d) ==
    LET r == [acc.r EXCEPT !.count[key] = @ - 1]
    IN  IF r.count[key] = 0 THEN [acc EXCEPT !.r = r, !.closing = @ \cup {key}]
        ELSE DetachContribution(acc, key, d, RemoveContribution(r, key, d), RequestAt(r, key))

\* One request fewer is planned on a session that runs short.
Unplanned(r, s) == IF s \in DOMAIN r.shortfalls THEN [r EXCEPT !.shortfalls[s].planned = Max({@ - 1, 0})] ELSE r

\* A wrong close: the session it empties is not looked at again.
CloseUnsettled(r, key) == Unplanned(UnindexRequest(SwapRemove(r, key), key[1], RequestAt(r, key)), key[1])

\* Close one request that lost its last active owner.
CloseRequest(r, key) ==
    RefreshRefusal(
        SettleRefusedSession(
            Unplanned(UnindexRequest(SwapRemove(r, key), key[1], RequestAt(r, key)), key[1]),
            key[1]),
        key[1], RefusedClass(r, key[1]))

\* withdraw: exact closes of logical demand.
WithdrawFrom(acc, r, d) ==
    [Stages(LAMBDA key, a : DetachOwner(a, key, d), [acc EXCEPT !.r = r], At(r.byDemand, d, {}))
        EXCEPT !.r = RemoveRefusals(@, d)]

CloseAll(end) ==
    [r |-> Stages(LAMBDA key, r : CloseRequest(r, key), end.r, end.closing),
     close |-> end.closing, removals |-> end.removals]

Withdraw(r0, atoms) ==
    LET step(atom, acc) ==
            LET d == DemandKey(atom)
                live == acc.r.active[d]
            IN  IF d \notin DOMAIN acc.r.active THEN acc
                ELSE WithdrawFrom(acc, ReplaceUncovered([acc.r EXCEPT !.active = Drop(@, {d}),
                                                                      !.authors = RemoveAll(@, OutboxAuthors(live))],
                                                        d, <<>>), d)
    IN  Given(Stages(step, [r |-> r0, closing |-> {}, removals |-> {}], atoms), CloseAll)

-----------------------------------------------------------------------------
(* Recompilation of the whole demand *)

\* reconcile_active_demands
ReconcileActive(r, demand) ==
    LET next == [d \in {DemandKey(a) : a \in demand} |-> CHOOSE a \in demand : DemandKey(a) = d]
        gone == DOMAIN r.active \ DOMAIN next
        come == DOMAIN next \ DOMAIN r.active
        edges(ds, q) == Cardinality({d \in ds : q \in At(r.byDemand, d, {})})
    IN  [r EXCEPT !.active = next,
                  !.authors = FoldSet(LAMBDA d, b : AddAll(b, OutboxAuthors(next[d])),
                                FoldSet(LAMBDA d, b : RemoveAll(b, OutboxAuthors(r.active[d])), @, gone), come),
                  !.count = [q \in DOMAIN @ |-> @[q] - edges(gone, q) + edges(come, q)]]

\* add_full_request_metadata_indexes: what a kept request gained.
AddMetadata(r, key, demands, assigns, prov) ==
    AddDiagnostics([r EXCEPT !.byDemand = LinkAll(@, demands, key),
                             !.count[key] = @ + Cardinality(demands \cap DOMAIN r.active),
                             !.cover[key] = @ \cup {d.coverage : d \in demands},
                             !.assignReqs = LinkAll(@, assigns, key)], key[1], prov)

\* A request the new plan keeps byte for byte: it keeps the metadata it was
\* sent with and only gains owners, claims, assignments and provenance.
RetainRequest(acc, next) ==
    LET old == RequestAt(acc.r, next.sub)
        claims == next.claims \ old.claims
        demands == next.demands \ old.demands
        prov == next.prov \ old.prov
        r == AddMetadata(acc.r, next.sub, demands, next.assigns \ old.assigns, prov)
    IN  [r |-> SetRequest(AddContributions(r, next.sub, Contributions(r, next)).r, next.sub,
                 [old EXCEPT !.claims = @ \cup claims, !.demands = @ \cup demands,
                             !.assigns = @ \cup next.assigns, !.prov = @ \cup prov]),
         updates |-> acc.updates \cup
            (IF claims = {} /\ demands = {} THEN {}
             ELSE {[sub |-> next.sub, filter |-> next.filter, claims |-> claims, demands |-> demands]})]

\* rebuild_refusal_indexes: nothing of the old refusals survives.
RebuildRefusals(r, c) ==
    LET empty == [r EXCEPT !.refusals = <<>>, !.refusedReqs = <<>>, !.refusedCount = EmptyBag,
                           !.refusedAssigns = <<>>]
        capped == FoldSet(LAMBDA x, acc : IndexRefusal(acc, x[2], x[1], [kind |-> "RelayCap", request |-> None]),
                          RefuseAssigns(empty, c.capAssigns), c.capRefused)
    IN  FoldSet(LAMBDA x, acc :
                    FoldSet(LAMBDA d, a : IndexRefusal(a, d, x.session,
                                [kind |-> "SubscriptionBudget", request |-> x.req.sub]),
                            [RefuseAssigns(acc, x.req.assigns) EXCEPT
                                !.refusedReqs = Put(@, x.req.sub, Cardinality(x.req.demands))],
                            x.req.demands),
                capped, c.budgetRefused)

\* diff_plans: close the tokens that are gone, send those new or refiltered.
DiffPlans(prev, next) ==
    [open |-> {[sub |-> q.sub, filter |-> q.filter] : q \in {x \in next :
                    \A o \in prev : o.sub = x.sub => o.filter # x.filter}},
     close |-> {q.sub : q \in prev} \ {q.sub : q \in next}]

\* compile: the plan of the whole demand replaces the running one.  The kept
\* requests carry their retained metadata into the new order.
InstallPlan(r, retained, kept, c) ==
    LET reqs == [s \in DOMAIN c.reqs |-> [i \in DOMAIN c.reqs[s] |->
                    IF c.reqs[s][i] \in kept THEN RequestAt(retained, c.reqs[s][i].sub) ELSE c.reqs[s][i]]]
        budgeted == Cardinality({s \in c.refusedSessions : s \in DOMAIN c.shortfalls})
    IN  [r EXCEPT
            !.reqs = reqs, !.mint = c.mint, !.limited = c.limited, !.refusedSessions = c.refusedSessions,
            !.shortfalls = c.shortfalls, !.uncovered = c.uncovered, !.uncoveredAuthors = UncoveredOf(c.uncovered),
            !.pos = [k \in UNION {{q.sub : q \in ToSet(c.reqs[s])} : s \in DOMAIN c.reqs} |->
                        CHOOSE i \in DOMAIN c.reqs[k[1]] : c.reqs[k[1]][i].sub = k],
            !.capRefused = Cardinality(c.refusedSessions) - budgeted, !.budgetRefused = budgeted]

ReplacePlan(r0, c, next, kept, retained) ==
    LET retired == {q \in PlanRequests(r0) : q.sub \notin {x.sub : x \in kept}}
        pruned == Stages(LAMBDA q, r : UnindexRequest(r, q.sub[1], q), retained.r, retired)
        indexed == Stages(LAMBDA q, r : IndexRequest(r, q.sub[1], q), pruned, next \ kept)
        delta == DiffPlans(PlanRequests(r0), next)
    IN  [r |-> Given(indexed, LAMBDA r : RebuildRefusals(InstallPlan(r, retained.r, kept, c), c)), updates |-> retained.updates,
         replaced |-> c.replaced, open |-> delta.open, close |-> delta.close]

RetainPlan(r0, demand, c) ==
    LET next == UNION {ToSet(c.reqs[s]) : s \in DOMAIN c.reqs}
        same(q) == /\ q.sub \in DOMAIN r0.pos
                   /\ RequestAt(r0, q.sub).routing = q.routing /\ RequestAt(r0, q.sub).filter = q.filter
        kept == {q \in next : same(q)}
    IN  Given(Stages(LAMBDA q, acc : RetainRequest(acc, q), [r |-> ReconcileActive(r0, demand), updates |-> {}], kept),
              LAMBDA retained : ReplacePlan(r0, c, next, kept, retained))

Compile(r0, demand, facts, budget) ==
    Given(CompileDemand(r0.mint, r0.reqs, demand, facts, budget), LAMBDA c : RetainPlan(r0, demand, c))

=============================================================================
