---------------------------- MODULE SemanticEdit ----------------------------
(***************************************************************************)
(* Edits of one replaceable event (a follow list, a profile) that NMP      *)
(* keeps as operations and replays: nmp-store semantic_edit.rs and         *)
(* redb_store/semantic_edit_ops.rs hold the resource, its operations and   *)
(* its current materialization; nmp-engine core/write/                     *)
(* replaceable_operation.rs accepts an edit, replaceable_succession.rs     *)
(* replays every open edit over a newer event a relay returns, and the two *)
(* coordinate_coverage.rs ask a relay for its value before anything is     *)
(* sent to it.                                                             *)
(*                                                                         *)
(* There is one coordinate.  An event is its content, how often each mark  *)
(* was applied, and its created_at; so the id is the event itself.  An     *)
(* edit applies the mark of its intent, and the materializer adds the      *)
(* marks of all operations to the base.  A handler is a function from the  *)
(* whole core (store tables and engine memory) to the core, since the      *)
(* reducer runs one message at a time; its last part, in every turn, is    *)
(* the scheduling pass of the lanes.  A lane is cut down to the states     *)
(* that matter here; WriteLifecycle has the others.  All routing is        *)
(* explicit, and no deletion of the coordinate is in the store.            *)
(***************************************************************************)
EXTENDS Integers, Sequences, FiniteSets, FiniteSetsExt, Functions

CONSTANTS
    Intent,       \* intent ids, 1..n: at most n edits are made
    Foreign,      \* events other clients write to the coordinate
    Mark,         \* what can be applied: the intents and the foreign marks
    Place,        \* relays
    Holdings,     \* what the relays may hold at the start: [Place -> event]
    Routing,      \* the explicit routings an edit may have
    Instant,      \* clock readings; a Tick sets whatever it is given
    Unreadable,   \* foreign events the materializer refuses
    MaxFaults     \* crashes, disconnects and failed commits

VARIABLES
    core,         \* the store and the engine
    held,         \* what each relay stores for the coordinate
    owed,         \* what a relay has still to return on an open request
    wire,         \* events on their way to each relay
    oks,          \* events whose OK is on its way back
    told,         \* the newest event each relay has returned
    faults

editVars == <<core, held, owed, wire, oks, told, faults>>

----------------------------------------------------------------------------
(* Events.                                                                 *)

Blank == [edits |-> [m \in Mark |-> 0], at |-> 0]

IdBelow(a, b) == \E m \in Mark : /\ a.edits[m] < b.edits[m]
                                 /\ \A k \in Mark : k < m => a.edits[k] = b.edits[k]

\* The order of replaceable events: newest first, then the lowest id.
Beats(a, b) == a.at > b.at \/ (a.at = b.at /\ IdBelow(a, b))

\* The registered materializer, external: every operation applied once to the
\* base, which is Blank for materialize_default.
Materialized(base, ops) ==
    [m \in Mark |-> base.edits[m] + Cardinality({k \in DOMAIN ops : ops[k] = m})]

----------------------------------------------------------------------------
(* The store.                                                              *)

\* No SEMANTIC_RESOURCES row.
Closed0 == [on |-> FALSE, rev |-> 0, base |-> Blank, ops |-> <<>>, at |-> <<>>,
            gen |-> [mid |-> 0, ev |-> Blank, members |-> {}]]

NoRow == [ev |-> Blank, owners |-> {}, signed |-> FALSE, seen |-> {}]

Idle == [live |-> FALSE, ev |-> Blank, fence |-> <<0, 0, 0>>, signed |-> FALSE, asking |-> FALSE,
         turn |-> 0, known |-> FALSE, durable |-> {}, complete |-> FALSE, lanes |-> {}]

Core0 ==
    [res |-> Closed0, highWater |-> 0, row |-> NoRow, next |-> 1,
     journal |-> [i \in Intent |-> [mid |-> 0, signed |-> FALSE]],
     receipt |-> [i \in Intent |-> [state |-> "none", mid |-> 0, signed |-> FALSE]],
     routing |-> [i \in Intent |-> {}], routes |-> [i \in Intent |-> {}],
     lanes |-> {}, tries |-> {}, refused |-> {},
     up |-> TRUE, pend |-> [i \in Intent |-> Idle], signing |-> {},
     conn |-> {}, asked |-> {}, req |-> [r \in Place |-> "none"], witness |-> [r \in Place |-> FALSE]]

Fence(res) == <<res.rev, Len(res.ops), res.gen.mid>>

\* validate_exact_timestamp: the only created_at the store takes.
ExactTime(times, base, prior) ==
    Max({0} \cup Range(times) \cup (IF base # Blank THEN {base.at + 1} ELSE {})
            \cup (IF prior.members # {} THEN {prior.ev.at + 1} ELSE {}))

\* install_successor_delivery_lanes: every lane of the old members goes, and the
\* lowest member gets one waiting lane for each relay any member was routed to.
SuccessorLanes(c, prior, gen) ==
    LET owner == Min(gen.members)
        where == UNION {c.routes[i] : i \in gen.members}
    IN  [c EXCEPT !.lanes = {l \in @ : l.own \notin prior.members}
                               \cup {[own |-> owner, at |-> r, ev |-> gen.ev, state |-> "waiting"] : r \in where},
                  !.routes[owner] = @ \cup where]

\* apply_plan on the rows: the canonical row is the generation, owned by all its
\* members and unsigned, whatever stood there before.
InstallRow(c, gen) ==
    [c EXCEPT !.highWater = gen.mid,
              !.row = [ev |-> gen.ev, owners |-> gen.members, signed |-> FALSE, seen |-> {}]]

\* apply_plan on the journal: every member's intent and receipt name the
\* generation, unsigned; each keeps its own routing.
RenameMembers(c, gen) ==
    [c EXCEPT !.journal = [i \in Intent |-> IF i \in gen.members THEN [mid |-> gen.mid, signed |-> FALSE] ELSE @[i]],
              !.receipt = [i \in Intent |-> IF i \in gen.members
                                            THEN [state |-> "contributing", mid |-> gen.mid, signed |-> FALSE]
                                            ELSE @[i]]]

\* apply_plan, and the lanes of the generation it replaces.
ApplyPlan(c, next) ==
    LET applied == RenameMembers(InstallRow([c EXCEPT !.res = next], next.gen), next.gen)
    IN  IF c.res.on THEN SuccessorLanes(applied, c.res.gen, next.gen) ELSE applied

\* apply_plan's winner check: the row is the generation being replaced, or the
\* new base itself.
WinnerFits(c, base) ==
    IF c.res.on
    THEN \/ c.row.ev = c.res.gen.ev /\ c.row.owners = c.res.gen.members
         \/ base # Blank /\ c.row.ev = base
    ELSE base = Blank \/ c.row.ev = base

NextGen(c, ops, base, at) ==
    [mid |-> c.highWater + 1, members |-> Range(ops),
     ev |-> [edits |-> Materialized(base, ops), at |-> at]]

----------------------------------------------------------------------------
(* The gate of a lane and the scheduling pass.                             *)

Owner(c) == Min(c.res.gen.members)

\* coordinate_coverage, read off the request that asks for the coordinate.
Coverage(c, r) == CASE c.witness[r] -> "Witnessed"
                    [] ~c.witness[r] /\ c.req[r] = "done" -> "ProvenAbsent"
                    [] ~c.witness[r] /\ c.req[r] = "open" -> "InFlight"
                    [] OTHER -> "Uncovered"

\* Mutant: a relay that has not been asked counts as one that cannot answer.
MaySendUnasked(c, i, r) == Coverage(c, r) # "InFlight"

\* coordinate_is_current_for_lane: known, or asked and unanswerable.
MaySend(c, i, r) == \/ Coverage(c, r) \in {"Witnessed", "ProvenAbsent"}
                    \/ Coverage(c, r) = "Uncovered" /\ <<i, r>> \in c.asked

MustAsk(c, i, r) == Coverage(c, r) = "Uncovered" /\ <<i, r>> \notin c.asked

\* release_coordinate_coverage: the observation is closed and its evidence dies.
Release(c, keys) ==
    LET freed == {k[2] : k \in keys \cap c.asked}
    IN  [c EXCEPT !.asked = @ \ keys,
                  !.req = [r \in Place |-> IF r \in freed THEN "none" ELSE @[r]],
                  !.witness = [r \in Place |-> IF r \in freed THEN FALSE ELSE @[r]]]

\* schedule_ready, for the lanes the owner's projection knows.
Scheduled(c) ==
    IF ~c.up \/ ~c.res.on \/ ~c.pend[Owner(c)].live \/ ~c.pend[Owner(c)].known THEN c
    ELSE LET i == Owner(c)
             ready == {r \in c.conn \cap c.pend[i].lanes :
                          \E l \in c.lanes : l.own = i /\ l.at = r /\ l.state = "waiting"}
             go    == {r \in ready : MaySend(c, i, r)}
             asks  == {r \in ready \ go : MustAsk(c, i, r)}
             freed == Release(c, {<<i, r>> : r \in go})
         IN  [freed EXCEPT
                !.lanes = {IF l.own = i /\ l.at \in go /\ l.state = "waiting" THEN [l EXCEPT !.state = "sent"] ELSE l
                             : l \in @},
                !.tries = @ \cup {[own |-> i, ev |-> c.pend[i].ev] : r \in go},
                !.asked = @ \cup {<<i, r>> : r \in asks},
                !.req = [r \in Place |-> IF r \in asks THEN "open" ELSE @[r]]]

----------------------------------------------------------------------------
(* Closing a cohort.                                                       *)

\* try_close_semantic_cohort: the owner's routes are complete and the lanes it
\* knows of terminal.
DeliveryDone(c) ==
    LET p == c.pend[Owner(c)]
    IN  /\ p.live /\ p.complete /\ p.lanes # {}
        /\ \A l \in c.lanes : l.own = Owner(c) /\ l.at \in p.lanes => l.state = "done"

\* close_cohort reads the store again: every lane of a member is the owner's, of
\* this generation and terminal, and every member is signed; all settle or none.
CanSettle(c) ==
    LET gen == c.res.gen
        own == {l \in c.lanes : l.own \in gen.members}
    IN  /\ \A l \in own : l.own = Owner(c) /\ l.ev = gen.ev /\ l.state = "done"
        /\ \A m \in gen.members : c.routes[m] # {} => m = Owner(c)
        /\ own # {} /\ c.routes[Owner(c)] # {}
        /\ \A m \in gen.members : c.journal[m] = [mid |-> gen.mid, signed |-> TRUE]

\* close_cohort also leaves the closed lanes and routes behind as evidence; no
\* later generation has these members, so they are dropped here.
Settle(c) ==
    IF ~c.res.on \/ ~DeliveryDone(c) \/ ~CanSettle(c) THEN c
    ELSE LET gen == c.res.gen
             freed == Release(c, {k \in c.asked : k[1] \in gen.members})
         IN  [freed EXCEPT
                !.res = Closed0,
                !.receipt = [i \in Intent |-> IF i \in gen.members
                                              THEN [state |-> "settled", mid |-> gen.mid, signed |-> TRUE] ELSE @[i]],
                !.journal = [i \in Intent |-> IF i \in gen.members THEN [mid |-> 0, signed |-> FALSE] ELSE @[i]],
                !.lanes = {l \in @ : l.own \notin gen.members},
                !.pend = [i \in Intent |-> IF i \in gen.members THEN Idle ELSE @[i]]]

----------------------------------------------------------------------------
(* Accepting an edit.                                                      *)

\* canonical_replaceable_source: the stored value, if some relay carried it.
CanonicalSource(c) == IF c.row.seen # {} THEN c.row.ev ELSE Blank

\* replaceable_materialization_input: the base every operation replays onto.
\* An existing start names the stored row, a default start nothing.
EditBase(c, start) == CASE c.res.on -> c.res.base
                        [] ~c.res.on /\ start = "existing" -> c.row.ev
                        [] OTHER -> CanonicalSource(c)

\* plan_accept, through validate_source_event: the evidence and the source
\* event handed over with it (the canonical row, while none is retained) must
\* agree, and a pending row is no source.
SourceValid(c) == c.res.on => c.res.base # Blank \/ CanonicalSource(c) = Blank

\* complete_replaceable_materialization on the pending writes: every member
\* starts over, and the lowest is asked to be signed.
ParkAccepted(c, i) ==
    LET gen == c.res.gen
        owner == Min(gen.members)
        fresh(m) == [Idle EXCEPT !.live = TRUE, !.ev = gen.ev, !.fence = Fence(c.res),
                                 !.turn = (IF c.pend[m].live THEN c.pend[m].turn + 1 ELSE 0)
                                             + (IF m = owner THEN 1 ELSE 0),
                                 !.asking = (m = owner)]
        pend == [m \in Intent |-> IF m \in gen.members THEN fresh(m) ELSE c.pend[m]]
    IN  [c EXCEPT !.pend = pend,
                  !.signing = @ \cup {[own |-> owner, turn |-> pend[owner].turn, ev |-> gen.ev]}]

\* plan_accept: the operation is appended, the evidence kept or started, and all
\* operations replayed over the base.
PlanAccept(c, base, now) ==
    LET ops   == Append(c.res.ops, c.next)
        times == Append(c.res.at, now)
    IN  [on |-> TRUE, base |-> base, ops |-> ops, at |-> times,
         rev |-> CASE c.res.on -> c.res.rev [] ~c.res.on /\ base # Blank -> 1 [] OTHER -> 0,
         gen |-> NextGen(c, ops, base, ExactTime(times, base, c.res.gen))]

\* complete_replaceable_materialization with accept in the store; the materializer
\* runs inside the turn, so the fence that is read again cannot have moved.
AcceptEdit(c, start, relays, now) ==
    LET base == EditBase(c, start)
        d    == [c EXCEPT !.next = @ + 1, !.routing[c.next] = relays]
    IN  IF ~SourceValid(c) \/ ~WinnerFits(c, base)
        THEN [c EXCEPT !.refused = @ \cup {[start |-> start, source |-> SourceValid(c)]}]
        ELSE ParkAccepted(ApplyPlan(d, PlanAccept(c, base, now)), c.next)

----------------------------------------------------------------------------
(* A relay returns an event of the coordinate.                             *)

\* ingest_ordinary_relay_observations: the replaceable rule of the store, and
\* the request that carried the event has witnessed the coordinate.
OrdinaryIngest(c, r, e) ==
    [c EXCEPT !.row = IF e = @.ev THEN [@ EXCEPT !.seen = @ \cup {r}]
                      ELSE IF Beats(e, @.ev) THEN [ev |-> e, owners |-> {}, signed |-> TRUE, seen |-> {r}]
                      ELSE @,
              !.witness[r] = @ \/ c.req[r] # "none"]

\* Mutant: the operations replayed over the generation that already has them.
RebasedOverGeneration(c, e) ==
    [c.res EXCEPT !.rev = @ + 1, !.base = e,
                  !.gen = [NextGen(c, c.res.ops, e, ExactTime(c.res.at, e, c.res.gen))
                             EXCEPT !.ev.edits = [m \in Mark |-> @[m] + c.res.gen.ev.edits[m]]]]

\* install_source on a newer source: every open operation is replayed over it.
Rebased(c, e) ==
    [c.res EXCEPT !.rev = @ + 1, !.base = e,
                  !.gen = NextGen(c, c.res.ops, e, ExactTime(c.res.at, e, c.res.gen))]

\* install_materialized_replaceable_successor on the pending writes: routes stay,
\* the signature does not, and the answer to an older request no longer counts.
ParkSuccessor(c) ==
    LET gen == c.res.gen
        owner == Min(gen.members)
        pend == [m \in Intent |->
                   IF m \in gen.members
                   THEN [c.pend[m] EXCEPT !.ev = gen.ev, !.fence = Fence(c.res), !.signed = FALSE,
                                          !.asking = (m = owner), !.turn = @ + 1, !.known = FALSE, !.lanes = {}]
                   ELSE c.pend[m]]
    IN  [c EXCEPT !.pend = pend,
                  !.signing = @ \cup {[own |-> owner, turn |-> pend[owner].turn, ev |-> gen.ev]}]

Advances(c, e) == c.res.base = Blank \/ Beats(e, c.res.base)

\* install_semantic_source_successor, then ordinary ingest when it declines: the
\* current generation coming back is ordinary, an earlier attempt of a member
\* is consumed, a source the materializer refuses is dropped.
IngestReturned(c, r, e) ==
    CASE ~c.res.on \/ c.res.gen.ev = e -> OrdinaryIngest(c, r, e)
      [] c.res.on /\ c.res.gen.ev # e /\ \E t \in c.tries : t.own \in c.res.gen.members /\ t.ev = e -> c
      [] OTHER -> IF e \in Unreadable THEN c
                  ELSE IF Advances(c, e) /\ WinnerFits(c, e) THEN ParkSuccessor(ApplyPlan(c, Rebased(c, e)))
                  ELSE OrdinaryIngest(c, r, e)

----------------------------------------------------------------------------
(* Signing, routes and lanes.                                              *)

\* promote: the whole fence must still be current and the row unsigned.
Promotes(c, i) == /\ c.res.on /\ c.pend[i].fence = Fence(c.res)
                  /\ c.row.ev = c.pend[i].ev /\ c.row.owners = c.res.gen.members /\ ~c.row.signed
                  /\ \A m \in c.res.gen.members : c.journal[m] = [mid |-> c.res.gen.mid, signed |-> FALSE]

Promoted(c) ==
    LET mine == c.res.gen.members
    IN  [c EXCEPT !.row.signed = TRUE,
                  !.journal = [m \in Intent |-> IF m \in mine THEN [@[m] EXCEPT !.signed = TRUE] ELSE @[m]],
                  !.receipt = [m \in Intent |-> IF m \in mine THEN [@[m] EXCEPT !.signed = TRUE] ELSE @[m]],
                  !.pend = [m \in Intent |-> IF m \in mine
                                             THEN [@[m] EXCEPT !.signed = TRUE, !.known = TRUE, !.asking = FALSE]
                                             ELSE @[m]]]

LanesAt(c, i) == {l.at : l \in {x \in c.lanes : x.own = i}}

\* apply_route_answer with the routes of every member: a new route is committed
\* and its lane bootstrapped; what cannot be committed stays open.
ApplyRoutes(c, i, commits) ==
    LET reply == UNION {c.routing[m] : m \in c.res.gen.members}
        new    == reply \ c.pend[i].durable
        opened == {[own |-> i, at |-> r, ev |-> c.pend[i].ev, state |-> "waiting"]
                     : r \in (c.routes[i] \cup reply) \ LanesAt(c, i)}
        routed == [c EXCEPT !.routes[i] = @ \cup reply, !.lanes = @ \cup opened]
    IN  IF new = {} THEN [c EXCEPT !.pend[i].complete = TRUE]
        ELSE IF ~commits THEN [c EXCEPT !.pend[i].complete = FALSE]
        ELSE [routed EXCEPT !.pend[i].complete = TRUE, !.pend[i].durable = @ \cup reply,
                            !.pend[i].lanes = LanesAt(routed, i)]

\* Mutant: the lanes are left to the route answer, which has nothing new.
ReacquireNothing(c, i) == c

\* reacquire_semantic_successor_lanes: a rebased generation has its routes
\* already, and its lanes are in the store.
Reacquire(c, i) == IF c.pend[i].lanes = {} /\ c.pend[i].durable # {}
                   THEN [c EXCEPT !.pend[i].lanes = LanesAt(c, i)] ELSE c

\* on_signed for the delivery owner.
Signed(c, i, commits) == Reacquire(ApplyRoutes(Promoted(c), i, commits), i)

----------------------------------------------------------------------------
(* Restart.                                                                *)

\* reconcile_recovered_semantic_sources: the generation is gone from the store
\* and a relay's event stands in its place, so it is replayed over that event.
\* A refusal or a lost fence ends recovery with nothing rebuilt.
Reconcilable(c) == c.res.on /\ c.row.ev # c.res.gen.ev /\ c.row.seen # {}

Reconciles(c) == c.row.ev \notin Unreadable /\ Advances(c, c.row.ev) /\ WinnerFits(c, c.row.ev)

\* recover_on_boot: pending writes from the journal, the routes of the owner,
\* and its lanes if all of them name the current generation.
Recovered(c) ==
    LET gen == c.res.gen
        i   == Min(gen.members)
        signed(m) == c.journal[m].signed
        one(m) == [Idle EXCEPT !.live = TRUE, !.ev = gen.ev, !.fence = Fence(c.res),
                               !.signed = signed(m), !.known = signed(m),
                               !.durable = IF m = i THEN c.routes[i] ELSE {},
                               !.lanes = IF m = i /\ signed(i) /\ \A l \in c.lanes : l.own = i => l.ev = gen.ev
                                         THEN LanesAt(c, i) ELSE {},
                               !.asking = (m = i /\ ~signed(i)), !.turn = IF m = i /\ ~signed(i) THEN 1 ELSE 0]
    IN  [c EXCEPT !.up = TRUE,
                  !.lanes = {IF l.state = "sent" THEN [l EXCEPT !.state = "waiting"] ELSE l : l \in @},
                  !.pend = [m \in Intent |->
                              IF c.res.on /\ m \in gen.members /\ c.journal[m].mid = gen.mid THEN one(m) ELSE Idle],
                  !.signing = IF c.res.on /\ ~signed(i) THEN {[own |-> i, turn |-> 1, ev |-> gen.ev]} ELSE {}]

Booted(c) ==
    CASE Reconcilable(c) /\ Reconciles(c)  -> Recovered(ApplyPlan(c, Rebased(c, c.row.ev)))
      [] Reconcilable(c) /\ ~Reconciles(c) -> [c EXCEPT !.up = TRUE]
      [] OTHER -> Recovered(c)

----------------------------------------------------------------------------
(* Actions.                                                                *)

\* What the scheduling pass of a turn puts on the wire.
Outgoing(c, d, r) == {l.ev : l \in {x \in d.lanes : x.at = r /\ x.state = "sent"} \ c.lanes}

\* A turn of the engine: the handler's core, then the scheduling pass; a new
\* request makes the relay owe what it holds, a released one nothing.
Turn(c) ==
    LET d == Scheduled(c)
    IN  /\ core' = d
        /\ wire' = [r \in Place |-> wire[r] \cup Outgoing(core, d, r)]
        /\ owed' = [r \in Place |->
                      CASE d.req[r] = "none" -> {}
                        [] d.req[r] = "open" /\ core.req[r] = "none" -> {held[r]} \ {Blank}
                        [] OTHER -> owed[r]]

Edit(start, relays, now) ==
    /\ core.up /\ core.next \in Intent
    /\ start = "existing" => core.row.ev # Blank
    /\ Turn(AcceptEdit(core, start, relays, now))
    /\ UNCHANGED <<held, oks, told, faults>>

\* on_signer_completed: an answer to an older request changes nothing.
SignerAnswers(q, commits) ==
    /\ core.up /\ q \in core.signing
    /\ LET c == [core EXCEPT !.signing = @ \ {q}]
           p == c.pend[q.own]
       IN  Turn(IF ~p.live \/ ~p.asking \/ p.turn # q.turn THEN c
                ELSE IF p.known \/ ~Promotes(c, q.own) THEN [c EXCEPT !.pend[q.own].asking = FALSE]
                ELSE Signed(c, q.own, commits))
    /\ commits \/ faults < MaxFaults
    /\ faults' = IF commits THEN faults ELSE faults + 1
    /\ UNCHANGED <<held, oks, told>>

\* The relay answers the open request, or forwards what it has just taken.
RelayReturns(r, e) ==
    /\ core.up /\ r \in core.conn /\ e \in owed[r]
    /\ LET c == IngestReturned(core, r, e)
           d == Scheduled(c)
       IN  /\ core' = d
           /\ wire' = [x \in Place |-> wire[x] \cup Outgoing(core, d, x)]
           /\ owed' = [x \in Place |-> CASE d.req[x] = "none" -> {}
                                         [] d.req[x] = "open" /\ core.req[x] = "none" -> {held[x]} \ {Blank}
                                         [] OTHER -> owed[x] \ (IF x = r THEN {e} ELSE {})]
    /\ told' = [told EXCEPT ![r] = IF Beats(e, @) THEN e ELSE @]
    /\ UNCHANGED <<held, oks, faults>>

\* EOSE; a request poisoned by a failed commit finishes without coverage.
Finishes(r, clean) ==
    /\ core.up /\ r \in core.conn /\ core.req[r] = "open" /\ owed[r] = {}
    /\ Turn([core EXCEPT !.req[r] = IF clean THEN "done" ELSE "poisoned"])
    /\ clean \/ faults < MaxFaults
    /\ faults' = IF clean THEN faults ELSE faults + 1
    /\ UNCHANGED <<held, oks, told>>

\* The relay stores a published event by the same order, forwards it to an open
\* request and owes an OK.  External.
RelayTakes(r, e) ==
    /\ e \in wire[r]
    /\ wire' = [wire EXCEPT ![r] = @ \ {e}]
    /\ oks' = [oks EXCEPT ![r] = @ \cup {e}]
    /\ held' = [held EXCEPT ![r] = IF Beats(e, @) THEN e ELSE @]
    /\ owed' = [owed EXCEPT ![r] = IF core.req[r] # "none" THEN @ \cup {e} ELSE @]
    /\ UNCHANGED <<core, told, faults>>

\* Another client writes to a relay.  External.
ForeignWrites(r, e) ==
    /\ e \in Foreign /\ Beats(e, held[r])
    /\ held' = [held EXCEPT ![r] = e]
    /\ owed' = [owed EXCEPT ![r] = IF core.req[r] # "none" THEN @ \cup {e} ELSE @]
    /\ UNCHANGED <<core, wire, oks, told, faults>>

\* The OK ends the lane it was sent for, and may end the cohort; the OK of a
\* replaced generation finds no lane.
AckOk(r, e) ==
    /\ core.up /\ e \in oks[r]
    /\ oks' = [oks EXCEPT ![r] = @ \ {e}]
    /\ Turn(Settle([core EXCEPT !.lanes = {IF l.at = r /\ l.ev = e /\ l.state = "sent"
                                            THEN [l EXCEPT !.state = "done"] ELSE l : l \in @}]))
    /\ UNCHANGED <<held, told, faults>>

Connect(r) ==
    /\ core.up /\ r \notin core.conn
    /\ Turn([core EXCEPT !.conn = @ \cup {r}])
    /\ UNCHANGED <<held, oks, told, faults>>

\* Losing a relay gives up its gate, and what was sent may be sent again.
Disconnect(r) ==
    /\ core.up /\ r \in core.conn /\ faults < MaxFaults /\ faults' = faults + 1
    /\ LET freed == Release(core, {k \in core.asked : k[2] = r})
       IN  core' = [freed EXCEPT !.conn = @ \ {r},
                                 !.lanes = {IF l.at = r /\ l.state = "sent"
                                            THEN [l EXCEPT !.state = "waiting"] ELSE l : l \in @}]
    /\ owed' = [owed EXCEPT ![r] = {}]
    /\ wire' = [wire EXCEPT ![r] = {}]
    /\ oks' = [oks EXCEPT ![r] = {}]
    /\ UNCHANGED <<held, told>>

\* The process dies between turns; memory, sockets and the signer's requests go.
Crash ==
    /\ core.up /\ faults < MaxFaults /\ faults' = faults + 1
    /\ core' = [core EXCEPT !.up = FALSE, !.pend = [i \in Intent |-> Idle], !.signing = {}, !.conn = {},
                            !.asked = {}, !.req = [r \in Place |-> "none"], !.witness = [r \in Place |-> FALSE]]
    /\ owed' = [r \in Place |-> {}]
    /\ wire' = [r \in Place |-> {}]
    /\ oks' = [r \in Place |-> {}]
    /\ UNCHANGED <<held, told>>

\* The process dies inside on_signed, after the promotion or after the routes.
CrashSigning(q, routed) ==
    /\ core.up /\ q \in core.signing /\ faults < MaxFaults /\ faults' = faults + 1
    /\ core.pend[q.own].live /\ core.pend[q.own].asking /\ core.pend[q.own].turn = q.turn
    /\ Promotes(core, q.own)
    /\ LET c == IF routed THEN ApplyRoutes(Promoted(core), q.own, TRUE) ELSE Promoted(core)
       IN  core' = [c EXCEPT !.up = FALSE, !.pend = [i \in Intent |-> Idle], !.signing = {}, !.conn = {},
                             !.asked = {}, !.req = [r \in Place |-> "none"], !.witness = [r \in Place |-> FALSE]]
    /\ owed' = [r \in Place |-> {}]
    /\ wire' = [r \in Place |-> {}]
    /\ oks' = [r \in Place |-> {}]
    /\ UNCHANGED <<held, told>>

\* Another writer of the same store leaves a relay's event while the engine is
\* down.  External: the case reconcile_recovered_semantic_sources is there for.
InsertWhileClosed(r, e) ==
    /\ ~core.up /\ e \in Foreign \ Unreadable /\ e = held[r] /\ Beats(e, core.row.ev)
    /\ core' = [core EXCEPT !.row = [ev |-> e, owners |-> {}, signed |-> TRUE, seen |-> {r}]]
    /\ told' = [told EXCEPT ![r] = IF Beats(e, @) THEN e ELSE @]
    /\ UNCHANGED <<held, owed, wire, oks, faults>>

Boot == /\ ~core.up
        /\ core' = Booted(core)
        /\ UNCHANGED <<held, owed, wire, oks, told, faults>>

\* rewrite_open_routes and the close that follows it.
MustReroute == /\ core.up /\ core.res.on
               /\ LET p == core.pend[Owner(core)] IN p.live /\ p.known /\ ~p.complete

Reroute ==
    /\ MustReroute
    /\ Turn(Settle(ApplyRoutes(core, Owner(core), TRUE)))
    /\ UNCHANGED <<held, oks, told, faults>>

EditInit ==
    /\ core = Core0
    /\ held \in Holdings
    /\ owed = [r \in Place |-> {}]
    /\ wire = [r \in Place |-> {}]
    /\ oks = [r \in Place |-> {}]
    /\ told = [r \in Place |-> Blank]
    /\ faults = 0

EditNext ==
    \/ \E start \in {"default", "existing"}, relays \in Routing, now \in Instant : Edit(start, relays, now)
    \/ \E q \in core.signing, b \in BOOLEAN : SignerAnswers(q, b) \/ CrashSigning(q, b)
    \/ \E r \in Place : \/ \E e \in owed[r] : RelayReturns(r, e)
                        \/ \E b \in BOOLEAN : Finishes(r, b)
                        \/ \E e \in wire[r] : RelayTakes(r, e)
                        \/ \E e \in oks[r] : AckOk(r, e)
                        \/ \E e \in Foreign : ForeignWrites(r, e) \/ InsertWhileClosed(r, e)
                        \/ Connect(r) \/ Disconnect(r)
    \/ Crash \/ Boot \/ Reroute

\* The signer, the relays and the engine's own passes do run: weak fairness of
\* each, with the condition that enables it written out.  Edits, foreign writes
\* and faults are under no obligation.
EditFairness ==
    /\ []<>(~core.up \/ core.signing = {}) \/ []<><<\E q \in core.signing : SignerAnswers(q, TRUE)>>_editVars
    /\ \A r \in Place :
          /\ []<>(~core.up \/ owed[r] = {}) \/ []<><<\E e \in owed[r] : RelayReturns(r, e)>>_editVars
          /\ []<>(~core.up \/ core.req[r] # "open" \/ owed[r] # {}) \/ []<><<Finishes(r, TRUE)>>_editVars
          /\ []<>(wire[r] = {}) \/ []<><<\E e \in wire[r] : RelayTakes(r, e)>>_editVars
          /\ []<>(~core.up \/ oks[r] = {}) \/ []<><<\E e \in oks[r] : AckOk(r, e)>>_editVars
          /\ []<>(~core.up \/ ~core.res.on \/ r \in core.conn) \/ []<><<Connect(r)>>_editVars
    /\ []<>core.up \/ []<><<Boot>>_editVars
    /\ []<>~MustReroute \/ []<><<Reroute>>_editVars

EditSpec == EditInit /\ [][EditNext]_editVars /\ EditFairness

----------------------------------------------------------------------------
(* Properties.                                                             *)

\* However edits, replays, signatures and restarts interleave, the current
\* materialization is the base with every open operation applied exactly once,
\* its members are the open operations, and the canonical row, the journals, the
\* receipts, the pending writes and the delivery lanes all name that one
\* generation (semantic_edit.rs, semantic_edit_ops.rs apply_plan).  An edit that
\* asserts nothing about the prior state is refused for what the address holds
\* never ("nothing it said can be stale", apply_plan), but is refused when it
\* joins a cohort that started from nothing and whose own event a relay has
\* carried back since (validate_source_event).
CohortExact ==
    /\ \A refusal \in core.refused : refusal.start = "default" => ~refusal.source
    /\ core.res.on =>
        LET gen == core.res.gen
        IN  /\ gen.members = Range(core.res.ops) /\ gen.mid = core.highWater
            /\ gen.ev.edits = Materialized(core.res.base, core.res.ops)
            /\ core.up => core.row.ev = gen.ev /\ core.row.owners = gen.members
            /\ \A m \in gen.members :
                  /\ core.journal[m].mid = gen.mid
                  /\ core.receipt[m] = [state |-> "contributing", mid |-> gen.mid, signed |-> core.journal[m].signed]
                  /\ core.up => /\ core.pend[m].live /\ core.pend[m].ev = gen.ev
                                /\ core.pend[m].known => core.journal[m].signed
            /\ \A l \in core.lanes : l.own = Min(gen.members) /\ l.ev = gen.ev

\* What is sent to a relay is built on the newest event that relay has returned,
\* unless what it returned is an earlier materialization of the same edits; only
\* a poisoned answer lets a send through without that (coordinate_is_current_for_lane).
NoEditOverwritten ==
    [][\A l \in core'.lanes \ core.lanes :
          l.state = "sent" /\ core.req[l.at] # "poisoned" /\ core'.req[l.at] # "poisoned" =>
             LET seen == told'[l.at]
             IN  \/ seen \in {Blank, core'.res.base}
                 \/ Beats(core'.res.base, seen)
                 \/ \E t \in core'.tries : t.own \in core'.res.gen.members /\ t.ev = seen]_editVars

\* Every accepted edit is settled in the end (try_close_semantic_cohort), however
\* often a newer event made its cohort start over: a contributing receipt only
\* ever becomes a settled one, and again and again none is contributing.
EditsSettle == []<>(\A i \in Intent : core.receipt[i].state # "contributing")
=============================================================================
