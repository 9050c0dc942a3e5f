------------------------------ MODULE WirePlan ------------------------------
(***************************************************************************)
(* The engine's read planning: who owns which demand on the wire           *)
(* (nmp-engine core/wire_ownership.rs) and the router that turns live      *)
(* demand into requests (module Router).                                   *)
(*                                                                         *)
(* A handle owns a set of atoms.  Two atoms that differ only in routing    *)
(* evidence are one logical demand, owned twice and carrying the union of  *)
(* the evidence.  The first owner of a demand reactivates a retained       *)
(* request or marks the demand pending; pending demand is admitted as one  *)
(* cohort by a later flush; the last owner's departure withdraws it; a     *)
(* change of routing facts, of the budget or of a resolved query           *)
(* recompiles everything.                                                  *)
(***************************************************************************)
EXTENDS Router

CONSTANTS Handle,           \* handle identities, each used at most once
          AtomsOf,          \* the atoms a handle resolves to when it opens
          Reresolved,       \* the atoms its derived query may resolve to later
          FactChoices,      \* the routing facts the directory may hold
          BudgetChoices,    \* the budgets the advertised limits may give
          MaxMint           \* bound on minted subscription tokens

VARIABLES router,           \* the nmp-router Router
          owned,            \* WireOwnership
          open,             \* [open handle -> the atoms it resolves to]
          spent,            \* handles that were opened before
          facts, budget,    \* what the next compilation reads
          sent,             \* [subscription the wire holds open -> its filter]
          closed,           \* subscriptions the wire closed
          rejoined          \* demands that came back to retained requests, not admitted

planVars == <<router, owned, open, spent, facts, budget, sent, closed, rejoined>>

EmptyWire ==
    [atoms |-> <<>>, demandRefs |-> EmptyBag, coverRefs |-> EmptyBag, owners |-> <<>>,
     evidence |-> EmptyBag, byAtom |-> <<>>, byCover |-> <<>>, byDemand |-> <<>>,
     pending |-> <<>>]

-----------------------------------------------------------------------------
(* Owner counting: the two doors *)

EvidenceOf(w, d) == {x[2] : x \in {y \in BagToSet(w.evidence) : y[1] = d}}

\* WireOwnership::retain
RetainOwner(w, atom) ==
    LET d == DemandKey(atom)
        x == [w EXCEPT !.evidence = AddAll(@, {<<d, e>> : e \in atom.evidence})]
        old == At(w.owners, d, [atom |-> atom, count |-> 0])
        effective == [old.atom EXCEPT !.evidence = EvidenceOf(x, d)]
    IN  [w |-> [x EXCEPT !.owners = Put(@, d, [atom |-> effective, count |-> old.count + 1])],
         atom |-> effective, first |-> old.count = 0,
         grew |-> atom.evidence \ EvidenceOf(w, d) # {}]

\* WireOwnership::release; atom is the survivor's effective atom, final the
\* atom of a demand that lost its last owner, both None when nobody owned it.
ReleaseOwner(w, atom) ==
    LET d == DemandKey(atom)
        x == [w EXCEPT !.evidence = RemoveAll(@, {<<d, e>> : e \in atom.evidence})]
        left == [w.owners[d].atom EXCEPT !.evidence = EvidenceOf(x, d)]
        orphan == [x EXCEPT !.owners = Drop(@, {d}), !.pending = Drop(@, {d}),
                            !.evidence = RemoveAll(@, {<<d, e>> : e \in EvidenceOf(x, d)})]
    IN  IF d \notin DOMAIN w.owners THEN [w |-> w, atom |-> None, final |-> None]
        ELSE IF w.owners[d].count = 1 THEN [w |-> orphan, atom |-> None, final |-> w.owners[d].atom]
        ELSE [w |-> [x EXCEPT !.owners[d] = [atom |-> left, count |-> @.count - 1]],
              atom |-> left, final |-> None]

-----------------------------------------------------------------------------
(* Per-handle indexes *)

IndexHandle(w, h, atoms) ==
    LET demands == FoldSet(LAMBDA a, b : BagAdd(b, <<h, DemandKey(a)>>), w.demandRefs, atoms)
        claims == FoldSet(LAMBDA a, b : AddAll(b, {<<h, c>> : c \in CoverageClaims(a)}), w.coverRefs, atoms)
    IN  [w EXCEPT !.atoms = Put(@, h, atoms), !.demandRefs = demands, !.coverRefs = claims,
                  !.byAtom = LinkAll(@, atoms, h),
                  !.byDemand = LinkAll(@, {DemandKey(a) : a \in atoms}, h),
                  !.byCover = LinkAll(@, UNION {CoverageClaims(a) : a \in atoms}, h)]

RefsOf(bag, h) == {x \in BagToSet(bag) : x[1] = h}

UnindexHandle(w, h) ==
    LET atoms == At(w.atoms, h, {})
        forget(bag) == Restrict(bag, DOMAIN bag \ RefsOf(bag, h))
    IN  [w EXCEPT !.atoms = Drop(@, {h}), !.demandRefs = forget(@), !.coverRefs = forget(@),
                  !.byAtom = UnlinkAll(@, atoms, h),
                  !.byDemand = UnlinkAll(@, {x[2] : x \in RefsOf(w.demandRefs, h)}, h),
                  !.byCover = UnlinkAll(@, {x[2] : x \in RefsOf(w.coverRefs, h)}, h)]

-----------------------------------------------------------------------------
(* The engine's transitions, on a plane: the router, the ownership and     *)
(* what the wire is told.                                                  *)

Plane == [r |-> router, w |-> owned, updates |-> {}, removals |-> {}, opens |-> {}, closes |-> {},
          replaced |-> {}, rejoined |-> rejoined]

\* retain_wire_atom_owner_with_effects: the first owner of a demand goes back
\* to a request that still carries it, and otherwise waits for admission.
FirstOwner(p, d, x, r, back) ==
    IF back # None
    THEN [p EXCEPT !.r = back.r, !.w = [x.w EXCEPT !.pending = Drop(@, {d})],
                   !.updates = @ \cup back.updates, !.rejoined = @ \cup {d}]
    ELSE IF AdmissionIncomplete(r, d) THEN [p EXCEPT !.r = r, !.w = [x.w EXCEPT !.pending = Put(@, d, x.atom)]]
    ELSE [p EXCEPT !.r = r, !.w = x.w, !.rejoined = @ \cup {d}]

RetainAs(p, d, x, r) ==
    IF x.first THEN FirstOwner(p, d, x, r, ReactivateCoveredAtom(r, x.atom))
    ELSE [p EXCEPT !.r = r,
                   !.w = IF (x.grew /\ AdmissionIncomplete(r, d)) \/ d \in DOMAIN x.w.pending
                         THEN [x.w EXCEPT !.pending = Put(@, d, x.atom)] ELSE x.w]

RetainOwned(p, d, x) == RetainAs(p, d, x, Activate(p.r, x.atom))

RetainAtom(p, atom) == RetainOwned(p, DemandKey(atom), RetainOwner(p.w, atom))

\* release_wire_atom_owner; a demand left without owner joins the closing set.
ReleaseAs(acc, d, x) ==
    LET kept == [acc.p EXCEPT !.r = Activate(@, x.atom),
                              !.w = IF d \in DOMAIN x.w.pending
                                    THEN [x.w EXCEPT !.pending = Put(@, d, x.atom)] ELSE x.w]
    IN  IF x.final # None THEN [p |-> [acc.p EXCEPT !.w = x.w], closing |-> acc.closing \cup {x.final}]
        ELSE IF x.atom # None THEN [acc EXCEPT !.p = kept]
        ELSE acc

ReleaseAtom(acc, atom) == ReleaseAs(acc, DemandKey(atom), ReleaseOwner(acc.p.w, atom))

\* attach_wire_handle: index the whole handle, then retain each atom.
AttachHandle(p, h, atoms) ==
    Stages(LAMBDA a, q : RetainAtom(q, a), [p EXCEPT !.w = IndexHandle(@, h, atoms)], atoms)

\* detach_wire_handle
DetachHandle(p, h) ==
    Stages(LAMBDA a, acc : ReleaseAtom(acc, a),
           [p |-> [p EXCEPT !.w = UnindexHandle(@, h)], closing |-> {}], At(p.w.atoms, h, {}))

\* withdraw_wire_demand
WithdrawWire(p, x) == [p EXCEPT !.r = x.r, !.removals = @ \cup x.removals, !.closes = @ \cup x.close]

WithdrawDemand(p, atoms) == WithdrawWire(p, Withdraw(p.r, atoms))

\* refresh_pending_wire_atoms
RefreshPending(p) ==
    [p EXCEPT !.w.pending = [d \in {x \in DOMAIN p.w.owners : AdmissionIncomplete(p.r, x)} |->
                                p.w.owners[d].atom]]

\* rebuild_wire_ownership: reset wholesale, replay every handle.
RebuildOwnership(handles) ==
    Stages(LAMBDA h, w : Stages(LAMBDA a, v : RetainOwner(v, a).w, IndexHandle(w, h, handles[h]), handles[h]),
           EmptyWire, DOMAIN handles)

\* recompile
RecompileTo(p, w, c) ==
    RefreshPending([p EXCEPT !.r = c.r, !.w = w, !.updates = @ \cup c.updates,
                             !.opens = @ \cup c.open, !.closes = @ \cup c.close, !.replaced = c.replaced,
                             !.rejoined = {}])

RecompileOwned(p, w, fs, bs) ==
    Given(Compile(p.r, {o.atom : o \in Range(w.owners)}, fs, bs), LAMBDA c : RecompileTo(p, w, c))

Recompile(p, handles, fs, bs) == Given(RebuildOwnership(handles), LAMBDA w : RecompileOwned(p, w, fs, bs))

\* flush_wire_admission; only demand the budget still refuses stays pending.
FlushTo(p, x) ==
    [p EXCEPT !.r = x.r, !.updates = @ \cup x.updates, !.opens = @ \cup x.open,
              !.rejoined = @ \ DOMAIN p.w.pending,
              !.w.pending = Restrict(@, {d \in DOMAIN @ : d \in x.r.limited})]

FlushAdmission(p, fs, bs) == Given(Admit(p.r, Range(p.w.pending), fs, bs), LAMBDA x : FlushTo(p, x))

-----------------------------------------------------------------------------
(* The state machine *)

\* A freshly minted token per open request, closed tokens never reused.
ApplyWire(p) ==
    /\ router' = p.r
    /\ owned' = p.w
    /\ sent' = Drop([k \in {o.sub : o \in p.opens} |-> (CHOOSE o \in p.opens : o.sub = k).filter] @@ sent, p.closes)
    /\ closed' = closed \cup p.closes
    /\ rejoined' = p.rejoined \cap DOMAIN p.w.owners

PlanInit ==
    /\ router = EmptyRouter
    /\ owned = EmptyWire
    /\ open = <<>>
    /\ spent = {}
    /\ facts \in FactChoices
    /\ budget \in BudgetChoices
    /\ sent = <<>>
    /\ closed = {}
    /\ rejoined = {}

\* open_observation, the wire half: the handle's live atoms gain an owner.
OpenPlane(h, atoms) == AttachHandle(Plane, h, atoms)

OpenWith(h, atoms, p) ==
    /\ h \notin spent
    /\ ApplyWire(p)
    /\ open' = Put(open, h, atoms)
    /\ spent' = spent \cup {h}
    /\ UNCHANGED <<facts, budget>>

Open(h) == OpenWith(h, AtomsOf[h], OpenPlane(h, AtomsOf[h]))

\* on_unsubscribe: what the handle leaves ownerless is withdrawn.
UnsubscribeFrom(x) == WithdrawDemand(x.p, x.closing)

UnsubscribePlane(h) == Given(DetachHandle(Plane, h), UnsubscribeFrom)

UnsubscribeWith(h, p) ==
    /\ h \in DOMAIN open
    /\ ApplyWire(p)
    /\ open' = Drop(open, {h})
    /\ UNCHANGED <<spent, facts, budget>>

Unsubscribe(h) == UnsubscribeWith(h, UnsubscribePlane(h))

\* The admission timer.
FlushPlane == FlushAdmission(Plane, facts, budget)

MayFlush == owned.pending # <<>> /\ router.mint < MaxMint

FlushWith(p) ==
    /\ MayFlush
    /\ ApplyWire(p)
    /\ UNCHANGED <<open, spent, facts, budget>>

FlushPending == FlushWith(FlushPlane)

RecompileWith(handles, fs, bs, p) ==
    /\ router.mint < MaxMint
    /\ ApplyWire(p)
    /\ open' = handles
    /\ facts' = fs
    /\ budget' = bs
    /\ UNCHANGED spent

RecompilePlane(handles, fs, bs) == Recompile(Plane, handles, fs, bs)

\* New author routes or operator relays: the directory moved.
LearnFacts(fs) == fs # facts /\ RecompileWith(open, fs, budget, RecompilePlane(open, fs, budget))

\* on_relay_information_resolved, when the planning limits moved.
LearnLimits(bs) == bs # budget /\ RecompileWith(open, facts, bs, RecompilePlane(open, facts, bs))

\* A committed event moved a derived query's atoms.
Moved(h) == [open EXCEPT ![h] = Reresolved[h]]

Reresolve(h) ==
    /\ h \in DOMAIN open
    /\ open[h] # Reresolved[h]
    /\ RecompileWith(Moved(h), facts, budget, RecompilePlane(Moved(h), facts, budget))

PlanNext ==
    \/ \E h \in Handle : Open(h) \/ Unsubscribe(h) \/ Reresolve(h)
    \/ FlushPending
    \/ \E fs \in FactChoices : LearnFacts(fs)
    \/ \E bs \in BudgetChoices : LearnLimits(bs)

PlanSpec == PlanInit /\ [][PlanNext]_planVars

-----------------------------------------------------------------------------
(* Properties *)

Planned == PlanRequests(router)

\* The requests of the running plan that own a demand.
Owning(d) == {q \in Planned : d \in q.demands}

EdgesOf(field(_)) == [x \in UNION {field(q) : q \in Planned} |-> {q.sub : q \in {y \in Planned : x \in field(y)}}]

BagSum(S, f(_)) == FoldSet(LAMBDA x, b : f(x) (+) b, EmptyBag, S)

\* Every index, reference count and diagnostic the router maintains step by
\* step equals what the running plan and the live demand define: owner edges,
\* positions, exact filters, assignments, active-owner counts, route-lane and
\* author counts, uncovered authors, refusals and both refused-session
\* counters, whatever order admissions, withdrawals, reactivations and
\* recompilations came in.
PlanIndexed ==
    LET r == router
        live(q) == Cardinality(q.demands \cap DOMAIN r.active)
        refusedAt(s) == {d \in DOMAIN r.refusals : s \in DOMAIN r.refusals[d]}
        denied == UNION {DOMAIN r.refusals[d] : d \in DOMAIN r.refusals}
    IN  /\ DOMAIN r.pos = {q.sub : q \in Planned}
        /\ \A k \in DOMAIN r.pos : RequestAt(r, k).sub = k /\ k \notin closed
        /\ r.byDemand = EdgesOf(LAMBDA q : q.demands)
        /\ r.assignReqs = EdgesOf(LAMBDA q : q.assigns)
        /\ r.exact = [x \in {<<q.sub[1], q.routing, q.filter>> : q \in Planned} |->
                        (CHOOSE q \in Planned : x = <<q.sub[1], q.routing, q.filter>>).sub]
        /\ \A q \in Planned : r.count[q.sub] = live(q) /\ live(q) > 0
        /\ \A q \in Planned : {d.coverage : d \in q.demands \cap DOMAIN r.active} \subseteq r.cover[q.sub]
        /\ DOMAIN r.contrib = DOMAIN r.pos
        /\ r.lanes = BagSum(Planned, LAMBDA q : LaneFacts(q.sub[1], q.prov))
        /\ r.diagAuthors = BagSum(Planned, LAMBDA q : AuthorFacts(q.sub[1], q.prov))
        /\ r.authors = BagSum(DOMAIN r.active, LAMBDA d : SetToBag(OutboxAuthors(r.active[d])))
        /\ r.uncoveredAuthors = UncoveredOf(r.uncovered)
        /\ r.limited = DOMAIN r.refusals
        /\ \A s \in denied : CopiesIn(s, r.refusedCount) = Cardinality(refusedAt(s))
        /\ BagToSet(r.refusedCount) = denied
        /\ r.refusedSessions = denied \ DOMAIN r.reqs
        /\ r.capRefused = Cardinality({s \in r.refusedSessions : RefusedClass(r, s) = "RelayCap"})
        /\ r.budgetRefused = Cardinality({s \in r.refusedSessions : RefusedClass(r, s) = "SubscriptionBudget"})
        /\ \A s \in DOMAIN r.shortfalls :
              /\ r.shortfalls[s].refused = Cardinality({k \in DOMAIN r.refusedReqs : k[1] = s})
              /\ r.shortfalls[s].planned = Len(At(r.reqs, s, <<>>)) + r.shortfalls[s].refused

\* The ownership the engine keeps is exactly that of its open handles, and the
\* router's live demand is exactly the owned demand with its evidence union.
OwnersExact ==
    /\ owned = [RebuildOwnership(open) EXCEPT !.pending = owned.pending, !.owners = owned.owners]
    /\ [d \in DOMAIN owned.owners |-> owned.owners[d].atom] = router.active
    /\ \A d \in DOMAIN owned.owners :
          owned.owners[d] = RebuildOwnership(open).owners[d]
    /\ DOMAIN owned.pending \subseteq DOMAIN owned.owners

Missing(d, session) == /\ \A q \in Owning(d) : q.sub[1] # session
                       /\ session \notin DOMAIN At(router.refusals, d, <<>>)

\* The sessions that read an author for a demand, and those the solver counts.
Reading(d, author) == {q.sub[1] : q \in {x \in Owning(d) : author \in AuthorsOf(x.filter) \/ x.filter.authors = None}}

Assigned(d, author) == {k[1] : k \in At(router.assignReqs, <<d, author>>, {})}

\* A demand is read at every relay it names, and at K relays for every author
\* it follows, or a refusal or an uncovered fact says how far it got.
Accounted(d) ==
    LET atom == owned.owners[d].atom
        short == At(router.uncovered, d, <<>>)
    IN  /\ atom.routing # Auto => \A s \in atom.routing : ~Missing(d, s)
        /\ \A x \in OutboxAuthors(atom) : Cardinality(Reading(d, x)) >= K \/ x \in DOMAIN short
        /\ \A x \in DOMAIN short : short[x].achieved = Cardinality(Assigned(d, x))

\* Shortfall is never silent: owned demand that is not waiting for admission is
\* on every session it needs, or the plan carries the fact that it is not.
\* Demand that came back to requests it once owned is left out; ReadOrPending
\* is about it.
NothingSilent == \A d \in DOMAIN owned.owners \ (DOMAIN owned.pending \cup rejoined) : Accounted(d)

\* "Active exact demand not yet covered on every required physical session" is
\* pending (WireOwnership::pending_atoms): at every relay it names, owned
\* demand is selected by an open request, refused, or waiting for admission.
ReadOrPending ==
    \A d \in DOMAIN owned.owners \ DOMAIN owned.pending :
        LET atom == owned.owners[d].atom
            read(s) == \E q \in ToSet(At(router.reqs, s, <<>>)) : PhysicalFilterCovers(q.filter, atom.filter)
        IN  atom.routing # Auto /\ atom.filter.limit = None =>
                \A s \in atom.routing : read(s) \/ s \in DOMAIN At(router.refusals, d, <<>>)

\* The wire holds open exactly the requests of the plan, each under the filter
\* it was opened with; every session and every relay stays within the budget
\* the plan was last compiled for.
WireIsPlan ==
    /\ sent = [k \in DOMAIN router.pos |-> RequestAt(router, k).filter]
    /\ Cardinality(DOMAIN router.reqs) =< budget.cap
    /\ \A s \in DOMAIN router.reqs : budget.subs[s] # None => Len(router.reqs[s]) =< budget.subs[s]

\* An event of every kind and author the atoms name.
Events ==
    LET filters == {a.filter : a \in UNION (Range(AtomsOf) \cup Range(Reresolved))}
    IN  [kind : UNION {f.kinds : f \in filters}, author : UNION {AuthorsOf(f) : f \in filters}, tag : {0}, at : {0}]

\* A coverage claim a request carries, and whose completion it may record, is
\* earned: an unlimited request selects every event the claim is about.
ClaimsEarned ==
    \A q \in Planned : q.filter.limit = None =>
        \A c \in RequestClaims(router, q.sub), ev \in Events :
            Matches(c.filter, ev) => Matches(q.filter, ev)

\* What shadow_plan_for predicts is what opening and admitting gives: the same
\* sessions serve the same demand, and the same demand is limited.
PreviewMatches(atoms, opened, real, preview) ==
    \A d \in {DemandKey(a) : a \in atoms} \ opened.rejoined :
        /\ {q.sub[1] : q \in {x \in preview.reqs : d \in x.demands}}
              = {k[1] : k \in At(real.r.byDemand, d, {})}
        /\ d \in preview.limited <=> d \in real.r.limited

PreviewOpened(atoms, opened) ==
    \A real \in {FlushAdmission(opened, facts, budget)}, preview \in {PreviewAdmission(router, atoms, facts, budget)} :
        PreviewMatches(atoms, opened, real, preview)

PreviewHonest ==
    \A h \in Handle \ spent : owned.pending = <<>> =>
        \A opened \in {OpenPlane(h, AtomsOf[h])} : PreviewOpened(AtomsOf[h], opened)

\* A closed token is never opened again: a relay that still answers a closed
\* subscription cannot be misread (SubId::allocate mints every token once).
TokensSpent == DOMAIN sent \cap closed = {}

\* An open subscription never changes its filter.
TokensFresh == [][\A k \in DOMAIN sent \cap DOMAIN sent' : sent'[k] = sent[k]]_planVars

\* The plan's indexes, the ownership of the open handles and the wire agree.
PlanExact == PlanIndexed /\ OwnersExact /\ WireIsPlan

\* Nobody is misled about what is read: shortfall is reported, and a preview
\* shows what opening would do.
ShortfallTold == NothingSilent /\ PreviewHonest

\* Completions are attributed to what was asked: claims are earned by the
\* filter they ride on, and a token stands for one filter, once.
ClaimsSound == [](ClaimsEarned /\ TokensSpent) /\ TokensFresh

=============================================================================
