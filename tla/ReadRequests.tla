---------------------------- MODULE ReadRequests ----------------------------
(***************************************************************************)
(* What the engine does with the requests of its plan (module WirePlan):   *)
(* it hands each to the transport, retries one the transport refuses,      *)
(* replays all of them on a new connection and after AUTH, and credits     *)
(* durable coverage when a relay ends the stored events of one.            *)
(*                                                                         *)
(* A subscription may be sent again under the same id, so the relay's      *)
(* answers are attributed to a FIFO of sends.  A request that replaces     *)
(* another is opened first; the old one is closed when the transport has   *)
(* accepted the new one.  The runtime feeds the transport's verdict back   *)
(* in the same turn of the engine thread, so a step hands off all of its   *)
(* frames.                                                                 *)
(***************************************************************************)
EXTENDS WirePlan

CONSTANTS Profiles,         \* which sessions are bound to an identity, how many connections
                            \* and AUTH challenges they see, and which handles open
          ScopesOf,         \* per handle: its demand scopes [atoms, fresh]
          MaxClock,         \* bound on the clock
          MaxFaults,        \* bound on refused frames and failed commits
          MaxSends          \* bound on request sends

VARIABLES reads,            \* attempts, attribution, live requests, replacements, transfers
          coverage,         \* durable rows [key, session, from, through]
          profile,          \* one of Profiles
          link,             \* per session: connection generation, up, ever up, AUTH phase
          decided,          \* per open handle: what its scopes decided when it opened
          clock, faults,
          relay,            \* frames accepted and not written, and the relay's side
          truth             \* what a relay finished serving with nothing lost, and when; and what
                            \* it finished with a loss no attribution could know of (see Eose)

readVars == <<reads, coverage, profile, link, decided, clock, faults, relay, truth>>

allVars == <<planVars, readVars>>

Session == DOMAIN budget.subs

EmptyReads == [meta |-> <<>>, retained |-> <<>>, fifo |-> <<>>, mapped |-> {}, retry |-> <<>>,
               live |-> <<>>, active |-> <<>>, moves |-> <<>>, swap |-> <<>>, rev |-> 0]

\* buf: what the transport holds unwritten; air: sends the relay has not
\* answered; held: subscriptions it holds open; strays: those whose CLOSE was
\* dropped; shut: those it closed itself; answered: the sends it finished;
\* carried: the sends whose unwritten REQ outlived the connection they were for.
EmptyRelay == [buf |-> [s \in Session |-> <<>>], air |-> <<>>, held |-> {}, strays |-> {},
               shut |-> {}, answered |-> {}, carried |-> {}]

\* A session bound to an identity may have to authenticate.
Bound(s) == s \in profile.bound

Soon == Min({clock + 1, MaxClock})

-----------------------------------------------------------------------------
(* A turn of the engine thread: the reducer's state, the frames it emits   *)
(* and the verdicts it meets: no are the subscriptions whose frames the    *)
(* transport refuses, disk is FALSE when the store fails.                  *)

Turn(no, disk) == [e |-> reads, cov |-> coverage, out |-> <<>>, no |-> no, disk |-> disk, relay |-> relay]

Close(k) == [kind |-> "Close", sub |-> k]

\* The frame of a request, without what only the engine knows of it.
Req(op) == [kind |-> "Req", sub |-> op.sub, filter |-> op.filter, rev |-> op.rev]

Emit(t, op) == [t EXCEPT !.out = Append(@, op)]

\* record_observed_request: a send-time snapshot, and an attempt to hand off.
\* A limited request proves nothing.
RecordSend(t, k, f, claims, demands) ==
    LET rev == t.e.rev + 1
        snapshot == [rev |-> rev, filter |-> f, claims |-> claims, poisoned |-> f.limit # None]
        e == [t.e EXCEPT !.rev = rev, !.mapped = @ \cup {k},
                         !.fifo = Put(@, k, Append(At(@, k, <<>>), snapshot))]
    IN  Emit([t EXCEPT !.e = e], [kind |-> "Req", sub |-> k, filter |-> f, rev |-> rev,
                                  claims |-> claims, demands |-> demands])

\* install_plan_execution_metadata
Install(t, k, f, claims, demands) ==
    [t EXCEPT !.e.meta = Put(@, k, [filter |-> f, claims |-> claims, demands |-> demands])]

\* retire_plan_execution_metadata
RetireMeta(e, k) == [e EXCEPT !.retained = Drop(@, {k}), !.meta = Drop(@, {k})]

ActiveOf(e, k) == {v \in DOMAIN e.active : e.active[v].sub = k}

\* abandon_sub
AbandonSub(e, k) ==
    [e EXCEPT !.retry = Drop(@, {k}), !.fifo = Drop(@, {k}), !.mapped = @ \ {k}, !.moves = Drop(@, {k}),
              !.active = Drop(@, ActiveOf(e, k)), !.live = Drop(@, {k})]

\* abandon_session_subs; claim transfers survive the connection.
AbandonSession(e, s) ==
    LET at(f) == {k \in DOMAIN f : k[1] = s}
    IN  [e EXCEPT !.retry = Drop(@, at(@)), !.fifo = Drop(@, e.mapped \cap at(@)),
                  !.mapped = {k \in @ : k[1] # s},
                  !.active = Drop(@, {v \in DOMAIN @ : @[v].sub[1] = s}), !.live = Drop(@, at(@))]

-----------------------------------------------------------------------------
(* Replacements: the successor is accepted before the predecessor closes *)

\* cancel_replacement_successor_work
CancelSuccessor(t, k) == [t EXCEPT !.e = RetireMeta(AbandonSub(@, k), k)]

\* retire_replacement_predecessor
RetirePredecessor(t, k) == Emit([t EXCEPT !.e = RetireMeta(AbandonSub(@, k), k)], Close(k))

\* complete_request_replacement
CompleteReplacement(t, k) ==
    IF k \notin DOMAIN t.e.swap THEN t
    ELSE RetirePredecessor([t EXCEPT !.e.swap = Drop(@, {k})], t.e.swap[k])

\* cancel_request_replacement
CancelReplacement(t, k) ==
    RetirePredecessor(CancelSuccessor([t EXCEPT !.e.swap = Drop(@, {k})], k), t.e.swap[k])

\* abandon_request_replacements_for_session
AbandonReplacements(e, s) ==
    LET gone == {k \in DOMAIN e.swap : k[1] = s}
        priors == {e.swap[k] : k \in gone}
    IN  [e EXCEPT !.swap = Drop(@, gone), !.meta = Drop(@, priors), !.retained = Drop(@, priors),
                  !.moves = Drop(@, priors)]

-----------------------------------------------------------------------------
(* Claims that join a request already on the wire *)

Rows(s, claims, span) == {[key |-> c, session |-> s, from |-> span.from, through |-> span.through] : c \in claims}

\* attempt_request_claim_transfer
AttemptTransfer(t, k) ==
    LET p == t.e.moves[k]
        live == At(t.e.live, k, None)
        current == live # None /\ live.filter = p.filter /\ live.done /\ live.rev = p.rev
        e == [t.e EXCEPT !.moves = Drop(@, {k})]
    IN  IF ~t.disk THEN [t EXCEPT !.e.moves[k].due = Soon]
        ELSE [t EXCEPT !.cov = @ \cup Rows(k[1], p.claims, p.span),
                       !.e = IF current THEN [e EXCEPT !.retained = Put(@, k, At(@, k, {}) \cup p.claims)] ELSE e]

\* transfer_finished_request_claims: what an unlimited, finished and credited
\* request proved, it proved for the claims that join it later.
TransferFinished(t, u, had, added) ==
    LET live == At(t.e.live, u.sub, None)
        old == At(t.e.moves, u.sub, None)
        fresh == [rev |-> live.rev, filter |-> u.filter, span |-> live.span, claims |-> added, due |-> clock]
        joined == [fresh EXCEPT !.claims = @ \cup old.claims, !.due = old.due]
        next == [t EXCEPT !.e.moves = Put(@, u.sub, IF old = None THEN fresh ELSE joined)]
    IN  IF \/ ~had \/ added = {} \/ live = None
        THEN t
        ELSE IF \/ live.filter # u.filter \/ live.filter.limit # None \/ ~live.done \/ live.span = None
                \/ (old # None /\ old.filter # u.filter)
        THEN t
        ELSE IF old = None \/ old.due =< clock THEN AttemptTransfer(next, u.sub) ELSE next

Back(e, k) == e.fifo[k][Len(e.fifo[k])]

\* The send the current generation of a request is waiting on, if any.
CurrentSend(e, k, f) == k \in DOMAIN e.fifo /\ Back(e, k).filter = f

\* The revision whose stored events are still streaming, or None.
Streaming(e, k, f) ==
    LET live == At(e.live, k, None)
    IN  IF live # None /\ live.filter = f /\ ~live.done THEN live.rev ELSE None

\* extend_plan_execution_metadata, extend_current_request_owner_demands and
\* extend_current_request_claims for one update.
ApplyUpdate(t, u) ==
    LET k == u.sub
        known == At(t.e.retained, k, {})
        added == u.claims \ known
        rev == Streaming(t.e, k, u.filter)
        same == k \in DOMAIN t.e.meta /\ t.e.meta[k].filter = u.filter
        e1 == IF same THEN [t.e EXCEPT !.meta[k].claims = @ \cup u.claims, !.meta[k].demands = @ \cup u.demands]
              ELSE t.e
        e2 == IF rev \in DOMAIN e1.active THEN [e1 EXCEPT !.active[rev].demands = @ \cup u.demands] ELSE e1
        e3 == [e2 EXCEPT !.retained = Put(@, k, known \cup added),
                         !.fifo[k][Len(e2.fifo[k])].claims = @ \cup added]
    IN  IF CurrentSend(t.e, k, u.filter) THEN [t EXCEPT !.e = e3]
        ELSE TransferFinished([t EXCEPT !.e = e2], u, known # {}, added)

\* apply_request_metadata_updates
ApplyUpdates(t, updates) == FoldSet(LAMBDA u, acc : ApplyUpdate(acc, u), t, updates)

\* apply_request_metadata_removals, for one; r is the router after it.
ApplyRemoval(e, r, x) ==
    LET k == x.sub
        detach == x.claims \ At(r.physClaims, k, {})
        rev == Streaming(e, k, x.filter)
        left == At(e.retained, k, {}) \ detach
        same == k \in DOMAIN e.meta /\ e.meta[k].filter = x.filter
        e1 == IF same THEN [e EXCEPT !.meta[k].claims = @ \ x.claims, !.meta[k].demands = @ \ x.demands] ELSE e
        e2 == IF rev \in DOMAIN e1.active THEN [e1 EXCEPT !.active[rev].demands = @ \ x.demands] ELSE e1
        e3 == [e2 EXCEPT !.retained = IF left = {} THEN Drop(@, {k}) ELSE Put(@, k, left)]
    IN  IF CurrentSend(e, k, x.filter) THEN [e3 EXCEPT !.fifo[k][Len(e.fifo[k])].claims = @ \ detach] ELSE e3

ApplyRemovals(t, r, removals) ==
    [t EXCEPT !.e = FoldSet(LAMBDA x, e : ApplyRemoval(e, r, x), t.e, removals)]

-----------------------------------------------------------------------------
(* apply_router_plan_delta, and the transport's verdict on every frame *)

\* A replacement of a request that is itself still waiting inherits what that
\* one was to retire.
Replace(t, x) ==
    LET u == CancelSuccessor([t EXCEPT !.e.swap = Drop(@, {x.prior})], x.prior)
    IN  IF x.prior \in DOMAIN t.e.swap THEN [u EXCEPT !.e.swap = Put(@, x.next, t.e.swap[x.prior])]
        ELSE [t EXCEPT !.e.swap = Put(@, x.next, x.prior)]

\* WireOp::Req: the metadata, the retained claims and the send.
OpenOp(t, r, o) ==
    LET claims == RequestClaims(r, o.sub)
        demands == RequestAt(r, o.sub).demands
        u == [Install(t, o.sub, o.filter, claims, demands) EXCEPT !.e.retained = Put(@, o.sub, claims)]
    IN  RecordSend(u, o.sub, o.filter, claims, demands)

\* WireOp::Close of a request nothing replaces.
CloseOp(t, k) ==
    LET u == [t EXCEPT !.e = RetireMeta(@, k), !.e.moves = Drop(@, {k})]
    IN  IF k \in DOMAIN t.e.swap THEN CancelReplacement(u, k)
        ELSE Emit([u EXCEPT !.e = AbandonSub(@, k)], Close(k))

\* A wrong order: a predecessor closes with the delta that replaces it.
CloseWithDelta(t, p) ==
    LET swapped == FoldSet(LAMBDA x, u : Replace(u, x), t, p.replaced)
        opened == FoldSet(LAMBDA o, u : OpenOp(u, p.r, o), swapped, p.opens)
    IN  FoldSet(LAMBDA k, u : CloseOp(u, k), opened, p.closes)

ApplyDelta(t, p) ==
    LET swapped == FoldSet(LAMBDA x, u : Replace(u, x), t, p.replaced)
        opened == FoldSet(LAMBDA o, u : OpenOp(u, p.r, o), swapped, p.opens)
    IN  FoldSet(LAMBDA k, u : CloseOp(u, k), opened, p.closes \ {x.prior : x \in p.replaced})

\* RequestHandoffOutcome::Accepted
Accepted(t, op) ==
    LET k == op.sub
        live == [filter |-> op.filter, gen |-> link[k[1]].gen, rev |-> op.rev, done |-> FALSE, span |-> None]
        e == [t.e EXCEPT !.retry = Drop(@, {k}), !.live = Put(@, k, live),
                         !.active = Put(@, op.rev, [sub |-> k, demands |-> op.demands])]
    IN  CompleteReplacement([t EXCEPT !.e = e, !.relay.buf[k[1]] = Append(@, Req(op))], k)

\* RequestHandoffOutcome::Refused
Refused(t, op) ==
    LET k == op.sub
        fifo == SelectSeq(t.e.fifo[k], LAMBDA x : x.rev # op.rev)
        parked == [filter |-> op.filter, claims |-> op.claims, demands |-> op.demands, due |-> Soon]
    IN  [t EXCEPT !.e.fifo = IF fifo = <<>> THEN Drop(@, {k}) ELSE Put(@, k, fifo),
                  !.e.mapped = IF fifo = <<>> /\ k \notin DOMAIN t.e.live THEN @ \ {k} ELSE @,
                  !.e.retry = Put(@, k, parked)]

\* A CLOSE the transport refuses is dropped.
Closed(t, op) ==
    IF op.sub \in t.no THEN [t EXCEPT !.relay.strays = @ \cup {op.sub}]
    ELSE [t EXCEPT !.relay.buf[op.sub[1]] = Append(@, op)]

\* apply_wire_delta and apply_replay, and the outcomes they feed back.
RECURSIVE Dispatch(_)
Dispatch(t) ==
    LET op == Head(t.out)
        u == [t EXCEPT !.out = Tail(@)]
    IN  IF t.out = <<>> THEN t
        ELSE Dispatch(IF op.kind = "Close" THEN Closed(u, op)
                      ELSE IF op.sub \in t.no THEN Refused(u, op) ELSE Accepted(u, op))

\* The subscriptions a turn may have refused: bounded by MaxFaults in all.
Refusable(t) == {no \in SUBSET {t.out[i].sub : i \in DOMAIN t.out} : faults + Cardinality(no) =< MaxFaults}

Disk == IF faults < MaxFaults THEN BOOLEAN ELSE {TRUE}

\* The turn ends: its frames are handed over.
Ends(t) ==
    \E no \in Refusable(t) :
        LET d == Dispatch([t EXCEPT !.no = no])
        IN  /\ reads' = d.e
            /\ coverage' = d.cov
            /\ relay' = d.relay
            /\ faults' = faults + Cardinality(no) + (IF t.disk THEN 0 ELSE 1)
            /\ d.e.rev =< MaxSends

\* A planning step's effects: removals, updates, then the plan delta.
Carries(p) ==
    /\ \E disk \in Disk :
          LET t == ApplyUpdates(ApplyRemovals(Turn({}, disk), p.r, p.removals), p.updates)
          IN  /\ ~disk => t.e.moves # <<>>
              /\ Ends(ApplyDelta(t, p))
    /\ UNCHANGED <<link, clock, truth>>

-----------------------------------------------------------------------------
(* Acquisition evidence *)

Covered(cov, key, s) == {x \in cov : x.key = key /\ x.session = s}

\* get_coverage folds a key's rows into its last contiguous interval; here the
\* rows of one request key start alike, so the last one speaks.
Watermark(cov, a, key, s) ==
    LET rows == {x \in Covered(cov, key, s) : x.from =< (IF a.filter.since = None THEN 0 ELSE a.filter.since)}
    IN  IF rows = {} THEN None ELSE Max({x.through : x \in rows})

\* auth_status_map
AuthStatus(s) == CASE link[s].auth = "ready" -> "Requesting"
                   [] link[s].auth = "denied" -> "AuthDenied"
                   [] OTHER -> "AwaitingAuth"

\* request_placement_status
Placement(keys) == IF keys \cap DOMAIN reads.retry # {} THEN "AwaitingRequest"
                   ELSE IF keys \subseteq DOMAIN reads.live THEN "Requesting" ELSE "Error"

Status(s, keys) ==
    LET placed == Placement(keys)
        asked == IF ~Bound(s) \/ AuthStatus(s) = "Requesting" THEN placed ELSE AuthStatus(s)
        linked == IF link[s].up THEN asked ELSE IF link[s].ever THEN "Disconnected" ELSE "Connecting"
    IN  IF linked = "Requesting" /\ \A k \in keys : reads.live[k].done THEN "FinishedStoredEvents" ELSE linked

\* acquisition_evidence over the requests of a plan and its limited demand.
AcquisitionEvidence(atoms, reqs, limited, satisfied) ==
    LET pairs == {<<a, c>> \in UNION {{a} \X CoverageClaims(a) : a \in atoms} : TRUE}
        claiming(c, s) == {q \in reqs : q.sub[1] = s /\ c \in q.claims}
        at(s) == {x \in pairs : claiming(x[2], s) # {}}
        marks(s) == {Watermark(coverage, x[1], x[2], s) : x \in at(s)}
        keys(s) == {q.sub : q \in UNION {claiming(x[2], s) : x \in at(s)}}
        sources == {s \in Session : at(s) # {}}
        source(s) == [through |-> IF None \in marks(s) THEN None ELSE Min(marks(s)),
                      status |-> IF satisfied THEN "CoverageSatisfied" ELSE Status(s, keys(s))]
        local == {a \in atoms : DemandKey(a) \in limited}
        missing(a) == CoverageClaims(a) = {} \/ \E c \in CoverageClaims(a) : \A s \in Session : claiming(c, s) = {}
    IN  [sources |-> [s \in sources |-> source(s)],
         shortfall |-> (IF atoms = {} THEN {<<"NoResolvedDemand", None>>} ELSE {})
                       \cup {<<"LocalLimit", a.filter>> : a \in local}
                       \cup {<<"NoPlannedSource", a.filter>> : a \in {x \in atoms \ local : missing(x)}}]

\* merge_source_status: two scopes agree about the socket, not about requests.
MergeStatus(l, r) ==
    LET asking == {"Requesting", "FinishedStoredEvents"}
    IN  IF l = r THEN l
        ELSE IF l = "CoverageSatisfied" THEN r
        ELSE IF r = "CoverageSatisfied" THEN l
        ELSE IF "Error" \in {l, r} THEN "Error"
        ELSE IF "AwaitingRequest" \in {l, r} /\ {l, r} \cap asking # {} THEN "AwaitingRequest"
        ELSE IF {l, r} = asking THEN "Requesting" ELSE "Error"

\* merge_acquisition_evidence: each source at its least proven.
MergeEvidence(x, y) ==
    LET both == DOMAIN x.sources \cap DOMAIN y.sources
        least(l, r) == IF None \in {l, r} THEN None ELSE Min({l, r})
        fold(s) == [through |-> least(x.sources[s].through, y.sources[s].through),
                    status |-> MergeStatus(x.sources[s].status, y.sources[s].status)]
    IN  [sources |-> [s \in both |-> fold(s)] @@ x.sources @@ y.sources, shortfall |-> x.shortfall \cup y.shortfall]

\* A wrong test: coverage of any age will do.
FreshEver(ev, age) ==
    /\ DOMAIN ev.sources # {}
    /\ ev.shortfall = {}
    /\ \A s \in DOMAIN ev.sources : ev.sources[s].through # None

\* plan_is_fresh_for
FreshFor(ev, age) ==
    /\ DOMAIN ev.sources # {}
    /\ ev.shortfall = {}
    /\ \A s \in DOMAIN ev.sources : ev.sources[s].through # None /\ ev.sources[s].through + age >= clock

\* decide_handle_acquisition, for one scope: an age that the coverage of every
\* planned source meets needs no wire; otherwise the scope is live for good.
Decide(scope, preview) ==
    LET ev == AcquisitionEvidence(scope.atoms, preview.reqs, preview.limited, TRUE)
    IN  IF scope.fresh # "MaxAge" THEN scope
        ELSE IF FreshFor(ev, scope.age)
        THEN [atoms |-> scope.atoms, fresh |-> "Satisfied", age |-> scope.age, at |-> clock, evidence |-> ev]
        ELSE [scope EXCEPT !.fresh = "Live"]

\* acquisition_evidence_for_scopes, for an open handle.
EvidenceFor(h) ==
    LET part(x) == CASE x.fresh = "Satisfied" -> x.evidence
                     [] x.fresh = "Live" -> AcquisitionEvidence(x.atoms, PlanRequests(router), router.limited, FALSE)
                     [] OTHER -> AcquisitionEvidence(x.atoms, {}, {}, FALSE)
    IN  FoldSet(LAMBDA x, acc : MergeEvidence(part(x), acc), [sources |-> <<>>, shortfall |-> {}], decided[h])


-----------------------------------------------------------------------------
(* Planning steps, with their effects *)

\* open_observation: every scope is decided first, the live ones are wired.
OpenRead(h) ==
    LET asked == UNION {x.atoms : x \in {y \in ScopesOf[h] : y.fresh # "CacheOnly"}}
        live(choice) == UNION {x.atoms : x \in {y \in choice : y.fresh = "Live"}}
    IN  /\ h \notin spent
        /\ \E preview \in {PreviewAdmission(router, asked, facts, budget)} :
           \E choice \in {{Decide(x, preview) : x \in ScopesOf[h]}} :
           \E p \in {OpenPlane(h, live(choice))} :
               /\ OpenWith(h, live(choice), p)
               /\ Carries(p)
               /\ decided' = Put(decided, h, choice)

CloseRead(h) ==
    /\ h \in DOMAIN open
    /\ \E p \in {UnsubscribePlane(h)} :
          UnsubscribeWith(h, p) /\ Carries(p) /\ decided' = Drop(decided, {h})

FlushReads ==
    /\ MayFlush
    /\ \E p \in {FlushPlane} : FlushWith(p) /\ Carries(p) /\ UNCHANGED decided

\* New facts, new limits, or a committed event that moved a resolved query and
\* left these demands alone.
RecompileReads(fs, bs) ==
    /\ open # <<>>
    /\ router.mint < MaxMint
    /\ \E p \in {RecompilePlane(open, fs, bs)} :
          RecompileWith(open, fs, bs, p) /\ Carries(p) /\ UNCHANGED decided

-----------------------------------------------------------------------------
(* The connection *)

PlannedAt(s) == ToSet(At(router.reqs, s, <<>>))

\* Replays the planned requests, but those already live on this connection.
Replay(t, s, skip) ==
    LET again(q, u) ==
            LET v == Install(u, q.sub, q.filter, q.claims, q.demands)
            IN  IF q.sub \in skip THEN v ELSE RecordSend(v, q.sub, q.filter, q.claims, q.demands)
    IN  FoldSet(again, t, PlannedAt(s))

StillLive(e, s) == {k \in DOMAIN e.live : k[1] = s /\ e.live[k].gen = link[s].gen}

\* on_relay_connected: requests accepted while this connection was dialing are
\* kept; any other connection, and a protected one, starts over.
Connect(s) ==
    LET t == Turn({}, TRUE)
        fresh == Bound(s) \/ StillLive(reads, s) = {}
        u == IF fresh THEN [t EXCEPT !.e = AbandonSession(@, s)] ELSE t
        keep == {q.sub : q \in {x \in PlannedAt(s) : x.sub \in StillLive(u.e, s)
                                                       /\ u.e.live[x.sub].filter = x.filter}}
    IN  /\ ~link[s].up
        /\ s \in DOMAIN router.reqs
        /\ Ends(Replay(u, s, keep))
        /\ link' = [link EXCEPT ![s].up = TRUE, ![s].ever = TRUE, ![s].auth = "none"]
        /\ UNCHANGED <<planVars, decided, clock, truth>>

Unwritten(s) == {<<f.sub, f.rev>> : f \in {x \in ToSet(relay.buf[s]) : x.kind = "Req"}}

\* What the socket held is gone; what was not written waits for the next one.
Forget(s) ==
    LET at(S) == {k \in S : k[1] = s}
        finished == {x \in relay.answered : x[1][1] = s}
    IN  [relay EXCEPT !.air = Drop(@, at(DOMAIN @)), !.held = @ \ at(@), !.strays = @ \ at(@),
                      !.shut = @ \ at(@), !.answered = @ \ finished, !.carried = @ \cup Unwritten(s)]

\* on_relay_disconnected
Disconnect(s) ==
    /\ link[s].up
    /\ link[s].gen < profile.gens
    /\ reads' = AbandonReplacements(AbandonSession(reads, s), s)
    /\ link' = [link EXCEPT ![s].up = FALSE, ![s].gen = @ + 1, ![s].auth = "none"]
    /\ relay' = Forget(s)
    /\ UNCHANGED <<planVars, coverage, decided, clock, faults, truth>>

\* The transport gives up one dial and starts the next; the engine never saw it.
DialFails(s) ==
    /\ ~link[s].up
    /\ link[s].gen < profile.gens
    /\ link' = [link EXCEPT ![s].gen = @ + 1]
    /\ relay' = [relay EXCEPT !.carried = @ \cup Unwritten(s)]
    /\ UNCHANGED <<planVars, reads, coverage, decided, clock, faults, truth>>

\* The worker writes one frame.  A relay that gets a second REQ of one id
\* answers both or only the last.
Write(s) ==
    LET op == Head(relay.buf[s])
        k == op.sub
        left == [relay EXCEPT !.buf[s] = Tail(@)]
        asked == [rev |-> op.rev, filter |-> op.filter, lossy |-> FALSE]
        heard(q) == [left EXCEPT !.air = Put(@, k, q), !.held = @ \cup {k}]
    IN  /\ link[s].up
        /\ relay.buf[s] # <<>>
        /\ IF op.kind = "Close"
           THEN relay' = [left EXCEPT !.air = Drop(@, {k}), !.held = @ \ {k}]
           ELSE relay' \in {heard(Append(At(relay.air, k, <<>>), asked)), heard(<<asked>>)}
        /\ UNCHANGED <<planVars, reads, coverage, link, decided, clock, faults, truth>>

-----------------------------------------------------------------------------
(* AUTH *)

\* close_protected_reqs
CloseProtected(t, s) == FoldSet(LAMBDA q, u : Emit(u, Close(q.sub)), t, PlannedAt(s))

\* invalidate_auth_epoch
Invalidate(t, s) ==
    LET u == [t EXCEPT !.e = AbandonSession(@, s)]
    IN  IF link[s].auth = "ready" THEN CloseProtected(u, s) ELSE u

\* on_auth_challenge
Challenge(s) ==
    /\ Bound(s)
    /\ link[s].up
    /\ link[s].asked < profile.challenges
    /\ Ends(Invalidate(Turn({}, TRUE), s))
    /\ link' = [link EXCEPT ![s].auth = "required", ![s].asked = @ + 1]
    /\ UNCHANGED <<planVars, decided, clock, truth>>

\* on_auth_restricted: a CLOSED that demands authentication, or that denies an
\* authenticated session.
Restricted(k) ==
    LET s == k[1]
        t == [Turn({}, TRUE) EXCEPT !.relay.held = @ \ {k}, !.relay.air = Drop(@, {k})]
    IN  /\ k \in relay.held
        /\ Bound(s)
        /\ Ends(IF link[s].auth = "ready" THEN Invalidate(t, s) ELSE [t EXCEPT !.e = AbandonSession(@, s)])
        /\ link' = [link EXCEPT ![s].auth = IF @ = "ready" THEN "denied" ELSE @]
        /\ UNCHANGED <<planVars, decided, clock, truth>>

\* finish_auth_ok
AuthOk(s, status) ==
    /\ link[s].up
    /\ link[s].auth = "required"
    /\ Ends(IF status THEN Replay(Turn({}, TRUE), s, {}) ELSE Turn({}, TRUE))
    /\ link' = [link EXCEPT ![s].auth = IF status THEN "ready" ELSE "denied"]
    /\ UNCHANGED <<planVars, decided, clock, truth>>

-----------------------------------------------------------------------------
(* What the relay answers *)

Floor(f) == IF f.since = None THEN 0 ELSE f.since
Ceiling(f) == IF f.until = None THEN clock ELSE Min({clock, f.until})

\* attribute_eose_detailed: the oldest send completes, crediting only what
\* every outstanding send of this id asked for, and nothing if one is poisoned.
Attribute(fifo) ==
    [send |-> Head(fifo),
     claims |-> {c \in Head(fifo).claims : \A i \in DOMAIN fifo : c \in fifo[i].claims},
     poisoned |-> \E i \in DOMAIN fifo : fifo[i].poisoned,
     span |-> [from |-> Max({Floor(fifo[i].filter) : i \in DOMAIN fifo}),
               through |-> Min({Ceiling(fifo[i].filter) : i \in DOMAIN fifo})]]

\* retire_request_claim_transfer_covered_by_completion
RetireTransfer(e, k, done) ==
    LET p == At(e.moves, k, None)
        live == At(e.live, k, None)
        within == /\ p.filter = done.send.filter
                  /\ done.send.rev > p.rev
                  /\ p.claims \subseteq done.claims
                  /\ done.span.from =< p.span.from /\ done.span.through >= p.span.through
        current == live # None /\ live.filter = done.send.filter /\ ~live.done /\ live.rev = done.send.rev
        dropped == [e EXCEPT !.moves = Drop(@, {k})]
    IN  IF p = None THEN e
        ELSE IF ~within THEN e
        ELSE IF current THEN [dropped EXCEPT !.retained = Put(@, k, At(@, k, {}) \cup p.claims)] ELSE dropped

\* persist_attributed_completion: facts before claims, one transaction.
Persist(t, k, done) ==
    LET e == RetireTransfer(t.e, k, done)
        live == At(e.live, k, None)
    IN  IF done.poisoned \/ ~t.disk \/ done.claims = {} THEN t
        ELSE [t EXCEPT !.cov = @ \cup Rows(k[1], done.claims, done.span),
                       !.e = IF live # None /\ live.rev = done.send.rev /\ ~live.done
                             THEN [e EXCEPT !.live[k].span = done.span] ELSE e]

\* emit_request_settled and retire_request_evidence: the stored events of the
\* completed send, and of no later one, have ended.
Finish(e, k, rev) ==
    LET live == At(e.live, k, None)
        ended == [e EXCEPT !.active = Drop(@, {rev})]
    IN  IF rev \notin DOMAIN e.active THEN e
        ELSE IF live # None /\ live.rev = rev THEN [ended EXCEPT !.live[k].done = TRUE] ELSE ended

\* An EOSE the engine can attribute.
Completes(t, k) ==
    LET fifo == t.e.fifo[k]
        done == Attribute(fifo)
        popped == IF Len(fifo) = 1 THEN Drop(t.e.fifo, {k}) ELSE Put(t.e.fifo, k, Tail(fifo))
        u == Persist([t EXCEPT !.e.fifo = popped], k, done)
    IN  [u EXCEPT !.e = Finish(@, k, done.send.rev)]

\* The relay has sent every stored event of its oldest unanswered send.
Eose(k) ==
    LET x == Head(relay.air[k])
        known == k \in reads.mapped /\ k \in DOMAIN reads.fifo
        world == [relay EXCEPT !.air = IF Len(@[k]) = 1 THEN Drop(@, {k}) ELSE Put(@, k, Tail(@[k])),
                               !.answered = @ \cup {<<k, x.rev>>}]
        served == [filter |-> x.filter, session |-> k[1], from |-> Floor(x.filter), through |-> Ceiling(x.filter)]
        \* A send from before AUTH, credited to the one after it.
        borrowed == known /\ Bound(k[1]) /\ x.rev < Head(reads.fifo[k]).rev
    IN  /\ k \in DOMAIN relay.air
        /\ \E disk \in IF known THEN Disk ELSE {TRUE} :
              LET t == [Turn({}, disk) EXCEPT !.relay = world]
              IN  Ends(IF known THEN Completes(t, k) ELSE t)
        /\ truth' = IF x.filter.limit # None \/ (x.lossy /\ ~borrowed) THEN truth ELSE truth \cup {served}
        /\ UNCHANGED <<planVars, link, decided, clock>>

\* A wrong failure path: the lost event poisons nothing.
EventLostSilently(k, i) ==
    /\ k \in DOMAIN relay.air
    /\ i \in DOMAIN relay.air[k]
    /\ ~relay.air[k][i].lossy
    /\ faults < MaxFaults
    /\ relay' = [relay EXCEPT !.air[k][i].lossy = TRUE]
    /\ faults' = faults + 1
    /\ UNCHANGED <<planVars, reads, coverage, link, decided, clock, truth>>

\* An event of a stream fails to commit: poison_event_commit_failure.
EventLost(k, i) ==
    LET fifo == reads.fifo[k]
        poisoned == [j \in DOMAIN fifo |-> [fifo[j] EXCEPT !.poisoned = TRUE]]
    IN  /\ k \in DOMAIN relay.air
        /\ i \in DOMAIN relay.air[k]
        /\ ~relay.air[k][i].lossy
        /\ faults < MaxFaults
        /\ relay' = [relay EXCEPT !.air[k][i].lossy = TRUE]
        /\ reads' = IF k \in reads.mapped /\ k \in DOMAIN reads.fifo
                    THEN [reads EXCEPT !.fifo[k] = poisoned] ELSE reads
        /\ faults' = faults + 1
        /\ UNCHANGED <<planVars, coverage, link, decided, clock, truth>>

\* A CLOSED for another reason: close_requests_for_sub.
RelayCloses(k) ==
    /\ k \in relay.held
    /\ faults < MaxFaults
    /\ faults' = faults + 1
    /\ relay' = [relay EXCEPT !.held = @ \ {k}, !.air = Drop(@, {k}), !.shut = @ \cup {k}]
    /\ reads' = IF k \in reads.mapped
                THEN [reads EXCEPT !.live = Drop(@, {k}), !.active = Drop(@, ActiveOf(reads, k))] ELSE reads
    /\ UNCHANGED <<planVars, coverage, link, decided, clock, truth>>

-----------------------------------------------------------------------------
(* The clock *)

\* retry_due_request_attempts: what was asked for is asked again, unless the
\* plan no longer runs it.
RetrySend(t, k) ==
    LET p == t.e.retry[k]
        u == [t EXCEPT !.e.retry = Drop(@, {k})]
    IN  IF k \in DOMAIN t.e.meta /\ t.e.meta[k].filter = p.filter
        THEN RecordSend(u, k, p.filter, p.claims, p.demands) ELSE u

Due(f) == {k \in DOMAIN f : f[k].due =< Soon}

\* on_tick
Tick ==
    /\ clock < MaxClock \/ Due(reads.moves) # {} \/ Due(reads.retry) # {}
    /\ clock' = Soon
    /\ \E disk \in IF Due(reads.moves) # {} THEN Disk ELSE {TRUE} :
          LET moved == FoldSet(LAMBDA k, t : AttemptTransfer(t, k), Turn({}, disk), Due(reads.moves))
          IN  Ends(FoldSet(LAMBDA k, t : RetrySend(t, k), moved, Due(reads.retry)))
    /\ UNCHANGED <<planVars, link, decided, truth>>

ReadInit ==
    /\ PlanInit
    /\ reads = EmptyReads
    /\ coverage = {}
    /\ profile \in Profiles
    /\ link = [s \in Session |-> [gen |-> 1, up |-> FALSE, ever |-> FALSE, auth |-> "none", asked |-> 0]]
    /\ decided = <<>>
    /\ clock = 0
    /\ faults = 0
    /\ relay = EmptyRelay
    /\ truth = {}

ReadNext ==
    \/ \E h \in profile.handles : OpenRead(h) \/ CloseRead(h)
    \/ FlushReads
    \/ \E fs \in FactChoices, bs \in BudgetChoices : RecompileReads(fs, bs)
    \/ \E s \in Session : Connect(s) \/ Disconnect(s) \/ DialFails(s) \/ Write(s) \/ Challenge(s)
    \/ \E s \in Session, status \in BOOLEAN : AuthOk(s, status)
    \/ \E k \in relay.held : Restricted(k) \/ RelayCloses(k)
    \/ \E k \in DOMAIN relay.air : Eose(k) \/ \E i \in DOMAIN relay.air[k] : EventLost(k, i)
    \/ Tick

ReadSpec == ReadInit /\ [][ReadNext /\ UNCHANGED profile]_allVars

-----------------------------------------------------------------------------
(* Properties *)

\* The relay finished serving everything the row is about, through the row's
\* time, and every event of it was kept; or the answer was borrowed.
Backed(row) ==
    \E x \in truth : /\ x.session = row.session
                     /\ PhysicalFilterCovers(x.filter, row.key.filter)
                     /\ x.from =< row.from /\ x.through >= row.through

\* A durable coverage row is never ahead of the facts: the relay finished a
\* request that selects the row's key, and the store kept every event of it,
\* whatever was resent, replaced, retried, poisoned or joined late, on a
\* session that authenticates too.  The second half has one exception there,
\* a borrowed answer: a challenge forgets the sends of the session, the poison
\* of a lost event with them, and AUTH sends again under the same ids, so the
\* end of a send from before AUTH is credited to the one after it
\* (invalidate_auth_epoch, finish_auth_ok).
CoverageTrue == \A row \in coverage : Backed(row)

MayRead(s) == Bound(s) => link[s].auth = "ready"

\* A planned request of a connected session that may read is on the wire or
\* has a local owner that will put it there, unless the relay closed it: what
\* request_placement_status calls an internal liveness failure never occurs.
PlacedOrOwed ==
    \A q \in Planned : LET s == q.sub[1] IN
        link[s].up /\ MayRead(s) =>
            q.sub \in DOMAIN reads.live \cup DOMAIN reads.retry \cup relay.shut

Closing(k) == \E i \in DOMAIN relay.buf[k[1]] : relay.buf[k[1]][i] = Close(k)

\* A relay holds no subscription the engine has forgotten: each one it holds
\* is planned, waits for a planned successor to be accepted, or has its CLOSE
\* on the way, or lost one to a full queue, or was asked for by a frame older
\* than the connection.
NoLeak ==
    \A k \in relay.held \ (relay.strays \cup {x[1] : x \in relay.carried}) :
        \/ k \in DOMAIN router.pos
        \/ \E n \in DOMAIN reads.swap : reads.swap[n] = k /\ n \in DOMAIN router.pos
        \/ Closing(k)

\* A replacement is gapless: while its successor waits, the old request is
\* neither closed nor forgotten, and once the successor is accepted the old
\* one is not kept.
GaplessSwap ==
    [][\A n \in DOMAIN reads.swap \cup DOMAIN reads'.swap : LET k == (reads.swap @@ reads'.swap)[n] IN
          /\ n \notin DOMAIN reads.live
          /\ k \in DOMAIN reads.live /\ k \notin DOMAIN reads'.live =>
                \/ n \in DOMAIN reads'.live
                \/ n \notin DOMAIN router'.pos
                \/ ~link'[k[1]].up \/ ~MayRead(k[1]) \/ \E s \in Session : s = k[1] /\ ~MayRead(s)'
                \/ k \in relay'.shut]_allVars

\* A scope that skipped the wire for its age was right to: when it opened,
\* every relay it names, protected or not, had finished serving all of it
\* within that age; what of it was kept is CoverageTrue's.
FreshIsTrue ==
    \A h \in DOMAIN decided : \A x \in decided[h] : x.fresh = "Satisfied" =>
        \A a \in x.atoms : a.routing # Auto =>
            \A c \in CoverageClaims(a), s \in a.routing :
                \E y \in truth : /\ y.session = s
                                 /\ PhysicalFilterCovers(y.filter, c.filter)
                                 /\ y.through + x.age >= x.at

\* The relay finished the current send of a request.  An answer to an earlier
\* send of the same id passes for it in two cases, which the code does not
\* tell apart: that send was from before AUTH, or its frame was left over from
\* an earlier connection.
SendFinished(k) ==
    \E rev \in 1..reads.live[k].rev :
        /\ <<k, rev>> \in relay.answered
        /\ rev = reads.live[k].rev \/ Bound(k[1]) \/ <<k, rev>> \in relay.carried

\* What the evidence of an open handle says of a source is what happened
\* there: finished only if the relay answered the send now live of every
\* request of it (SendFinished), requesting or finished only while connected,
\* and an error only if the relay closed one.
EvidenceTrue ==
    \A h \in DOMAIN decided : LET ev == EvidenceFor(h) IN \A s \in DOMAIN ev.sources :
        LET atoms == UNION {x.atoms : x \in {y \in decided[h] : y.fresh = "Live"}}
            asked == {q \in PlannedAt(s) : \E a \in atoms : q.claims \cap CoverageClaims(a) # {}}
            status == ev.sources[s].status
        IN  /\ status = "FinishedStoredEvents" => \A q \in asked : SendFinished(q.sub)
            /\ status \in {"Requesting", "FinishedStoredEvents"} => link[s].up
            /\ status = "Error" => \E q \in asked : q.sub \in relay.shut

\* Requests are neither lost nor leaked, and are replaced without a gap.
RequestsKept == [](PlacedOrOwed /\ NoLeak) /\ GaplessSwap

\* What a handle is told of its sources, and the freshness that let it skip
\* them, is what the relays really did.
ReportsTrue == FreshIsTrue /\ EvidenceTrue

=============================================================================
