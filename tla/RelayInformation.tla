-------------------------- MODULE RelayInformation --------------------------
(***************************************************************************)
(* The NIP-11 service (nmp-nip11/src/service.rs): callers of one-shot      *)
(* relay-information reads share a bounded cache of last good documents    *)
(* and one fetch per relay.  A step is one critical section of the state   *)
(* mutex, or one thing done outside it: taking a fetch permit, publishing  *)
(* a completion, dropping a caller's receiver.                             *)
(***************************************************************************)
EXTENDS Naturals, FiniteSets, FiniteSetsExt, Sequences, SequencesExt, Functions, TLC

CONSTANTS Host,         \* relays
          Asker,        \* callers, each asks once or never
          Readings,     \* what the callers may ask for: caller -> <<relay, policy>>
          Impatient,    \* callers that may be dropped while they wait
          Credentialed, \* relays whose URL carries userinfo
          FetchSlots,   \* MAX_ACTIVE_FETCHES
          CacheSlots,   \* cache_capacity
          LastSecond,   \* bound on the clock
          Absent          \* no value

VARIABLES
    info,    \* the mutex-guarded state: open, entries, next_flight, and the cached
             \* relays by last_access
    slots,   \* the semaphore: open, free permits, FIFO of waiting callers
    fetch,   \* generation -> fetch task
    asker,   \* caller -> where its future is
    second   \* now_secs

infoVars == <<info, slots, fetch, asker, second>>

Entry0 == [cached |-> Absent, flight |-> Absent]
ServiceClosed == [kind |-> "ServiceClosed"]

\* State::Open with no entry; a caller that has not asked.
InfoInit ==
    /\ info = [open |-> TRUE, entries |-> <<>>, order |-> <<>>, next |-> 1]
    /\ slots = [open |-> TRUE, free |-> FetchSlots, queue |-> <<>>]
    /\ fetch = <<>>
    /\ \E w \in Readings :
          asker = [c \in Asker |-> [at |-> "idle", relay |-> w[c][1], policy |-> w[c][2], gen |-> 0, permit |-> FALSE,
                                    answer |-> Absent]]
    /\ second = 0

-----------------------------------------------------------------------------
(* The caller's future: get_async *)

\* get_async is first polled.
AskInformation(c) ==
    /\ asker[c].at = "idle" /\ asker[c].relay # Absent
    /\ asker' = [asker EXCEPT ![c].at = "register"]
    /\ UNCHANGED <<info, slots, fetch, second>>

\* A returned permit goes to the caller that waits longest.
Released(s) ==
    IF s.queue = <<>> THEN [s EXCEPT !.free = @ + 1] ELSE [s EXCEPT !.queue = Tail(@)]

Grants(s) == IF s.queue = <<>> THEN {} ELSE {Head(s.queue)}

\* Callers the next release wakes with a permit.
Granted(as, woken) == [c \in Asker |-> IF c \in woken THEN [as[c] EXCEPT !.at = "register", !.permit = TRUE] ELSE as[c]]

\* acquire_owned: a permit, a place in the queue, or the closed semaphore.
AcquirePermit(c) ==
    /\ asker[c].at = "admit"
    /\ \/ /\ ~slots.open
          /\ asker' = [asker EXCEPT ![c] = [@ EXCEPT !.at = "answered", !.answer = ServiceClosed]]
          /\ UNCHANGED slots
       \/ /\ slots.open /\ slots.free > 0
          /\ asker' = Granted(asker, {c})
          /\ slots' = [slots EXCEPT !.free = @ - 1]
       \/ /\ slots.open /\ slots.free = 0
          /\ asker' = [asker EXCEPT ![c].at = "queued"]
          /\ slots' = [slots EXCEPT !.queue = Append(@, c)]
    /\ UNCHANGED <<info, fetch, second>>

\* last_access of one relay becomes the latest; only cached relays are ordered
\* by it, and a relay is touched again when its document is cached.
Touch(order, r) == IF Contains(order, r) THEN Append(Remove(order, r), r) ELSE order

IsFresh(cached) == cached # Absent /\ second < cached.until

\* A permit the caller holds when it turns out not to need it is dropped.
DropPermit(c, as) ==
    IF asker[c].permit
    THEN /\ slots' = Released(slots)
         /\ asker' = Granted([as EXCEPT ![c].permit = FALSE], Grants(slots))
    ELSE /\ asker' = as
         /\ UNCHANGED slots

\* register: one critical section.
Register(c) ==
    LET r == asker[c].relay
        entry == IF r \in DOMAIN info.entries THEN info.entries[r] ELSE Entry0
        touched == [info EXCEPT !.entries = (r :> entry) @@ @, !.order = Touch(@, r)]
        said(answer) == [asker EXCEPT ![c] = [@ EXCEPT !.at = "answered", !.answer = answer]]
        joins(g) == [asker EXCEPT ![c] = [@ EXCEPT !.at = "wait", !.gen = g]]
        cached == asker[c].policy = "UseCache" /\ IsFresh(entry.cached)
    IN  /\ asker[c].at = "register"
        /\ \/ /\ ~info.open
              /\ DropPermit(c, said(ServiceClosed))
              /\ UNCHANGED <<info, fetch>>
           \/ /\ info.open /\ cached
              /\ info' = touched
              /\ DropPermit(c, said([kind |-> "Document", of |-> entry.cached.of]))
              /\ UNCHANGED fetch
           \/ /\ info.open /\ ~cached /\ entry.flight # Absent
              /\ info' = touched
              /\ DropPermit(c, joins(entry.flight))
              /\ UNCHANGED fetch
           \/ /\ info.open /\ ~cached /\ entry.flight = Absent /\ ~asker[c].permit
              /\ info' = touched
              /\ asker' = [asker EXCEPT ![c].at = "admit"]
              /\ UNCHANGED <<slots, fetch>>
           \/ /\ info.open /\ ~cached /\ entry.flight = Absent /\ asker[c].permit
              /\ info' = [touched EXCEPT !.entries[r].flight = info.next, !.next = @ + 1]
              /\ fetch' = (info.next :> [relay |-> r, at |-> "spawned", cached |-> Absent, cancelled |-> FALSE, result |-> Absent]) @@ fetch
              /\ asker' = [joins(info.next) EXCEPT ![c].permit = FALSE]
              /\ UNCHANGED slots
        /\ UNCHANGED second

\* The caller's future is dropped: in the queue it only leaves it, an armed
\* FlightWait first drops its receiver.
DropAsker(c) ==
    /\ c \in Impatient
    /\ \/ /\ asker[c].at = "queued"
          /\ asker' = [asker EXCEPT ![c].at = "gone"]
          /\ slots' = [slots EXCEPT !.queue = Remove(@, c)]
       \/ /\ asker[c].at = "wait"
          /\ asker' = [asker EXCEPT ![c].at = "dropping"]
          /\ UNCHANGED slots
    /\ UNCHANGED <<info, fetch, second>>

Receivers(g) == {c \in Asker : asker[c].at = "wait" /\ asker[c].gen = g}

\* FlightWait::wait: the receivers of a completion take its value; a value is
\* published once, and the one who has it never cancels.
Complete(as, flights, value) ==
    [c \in Asker |-> IF as[c].at = "wait" /\ as[c].gen \in flights THEN [as[c] EXCEPT !.at = "answered", !.gen = 0, !.answer = value] ELSE as[c]]

\* Drop of a Flight: its permit returns, and a receiver left behind would see
\* the sender gone.
EndFlight(g, as) ==
    /\ slots' = Released(slots)
    /\ asker' = Granted(Complete(as, {g}, ServiceClosed), Grants(slots))

\* CancelSignal::cancel
Cancelled(flights) == [g \in DOMAIN fetch |-> IF g \in flights THEN [fetch[g] EXCEPT !.cancelled = TRUE] ELSE fetch[g]]

\* A wrong cancellation: the flight ends although others still wait for it.
CancelAnyFlight(c) ==
    LET r == asker[c].relay
        g == asker[c].gen
        gone == [asker EXCEPT ![c] = [@ EXCEPT !.at = "gone", !.gen = 0]]
        left == [info.entries[r] EXCEPT !.flight = Absent]
    IN  /\ asker[c].at = "dropping"
        /\ IF info.open /\ r \in DOMAIN info.entries /\ info.entries[r].flight = g
           THEN /\ info' = [info EXCEPT !.entries = IF left.cached = Absent THEN Restrict(@, DOMAIN @ \ {r}) ELSE (r :> left) @@ @]
                /\ fetch' = Cancelled({g})
                /\ EndFlight(g, gone)
           ELSE asker' = gone /\ UNCHANGED <<info, slots, fetch>>
        /\ UNCHANGED second

\* cancel_unobserved_flight: the last receiver of this very flight cancels it.
CancelUnobservedFlight(c) ==
    LET r == asker[c].relay
        g == asker[c].gen
        gone == [asker EXCEPT ![c] = [@ EXCEPT !.at = "gone", !.gen = 0]]
        left == [info.entries[r] EXCEPT !.flight = Absent]
    IN  /\ asker[c].at = "dropping"
        /\ IF info.open /\ r \in DOMAIN info.entries /\ info.entries[r].flight = g /\ Receivers(g) = {}
           THEN /\ info' = [info EXCEPT !.entries = IF left.cached = Absent THEN Restrict(@, DOMAIN @ \ {r}) ELSE (r :> left) @@ @]
                /\ fetch' = Cancelled({g})
                /\ EndFlight(g, gone)
           ELSE asker' = gone /\ UNCHANGED <<info, slots, fetch>>
        /\ UNCHANGED second

-----------------------------------------------------------------------------
(* The fetch task: worker *)

Flying(g) == /\ info.open
             /\ fetch[g].relay \in DOMAIN info.entries
             /\ info.entries[fetch[g].relay].flight = g

\* The task returns.
TaskEnds(g) == fetch' = Restrict(fetch, DOMAIN fetch \ {g})

\* worker reads the last good document for its validators, or finds its
\* flight gone and returns.
StartFetch(g) ==
    /\ fetch[g].at = "spawned"
    /\ IF Flying(g)
       THEN fetch' = [fetch EXCEPT ![g] = [@ EXCEPT !.at = "fetching", !.cached = info.entries[fetch[g].relay].cached]]
       ELSE TaskEnds(g)
    /\ UNCHANGED <<info, slots, asker, second>>

\* What fetch_http can come to: a body, 304, or an error (a refused status, a
\* redirect, a body that is too large, the deadline).
Answers(r) == IF r \in Credentialed THEN {[kind |-> "CredentialedRelayUrl"]}
              ELSE {[kind |-> "Body", age |-> n] : n \in {0, 1}} \cup {[kind |-> "NotModified"], [kind |-> "Http"]}

\* finish_fetch: a document is known by the relay it came from.
FinishFetch(g, a) ==
    LET cached == fetch[g].cached
    IN  CASE a.kind = "Body" -> [kind |-> "Document", of |-> fetch[g].relay, until |-> second + a.age]
          [] a.kind = "NotModified" /\ cached # Absent -> [kind |-> "Document", of |-> cached.of, until |-> second + 1]
          [] a.kind = "NotModified" /\ cached = Absent -> [kind |-> "Http"]
          [] OTHER -> a

Cached(es) == {r \in DOMAIN es : es[r].cached # Absent}

FirstOf(S) == LET by == SelectSeq(info.order, LAMBDA v : v \in S) IN SubSeq(by, 1, Min({1, Len(by)}))

\* The idle cached entry that was read longest ago.
Victims(es, r) ==
    LET idle == {v \in Cached(es) \ {r} : es[v].flight = Absent}
    IN  ToSet(FirstOf(idle))

\* complete, the Ok arm: retain the document if it finds a place.
Retain(es, r, doc) ==
    LET full == es[r].cached = Absent /\ Cardinality(Cached(es)) >= CacheSlots
        gone == IF full THEN Victims(es, r) ELSE {}
        kept == [es[r] EXCEPT !.cached = [of |-> doc.of, until |-> doc.until]]
    IN  IF full /\ gone = {} THEN es ELSE (r :> kept) @@ Restrict(es, DOMAIN es \ gone)

\* complete, the Err arm: a last good document is served stale from now on.
MarkStale(es, r) == [es EXCEPT ![r].cached.until = 0]

CompleteFlight(g, result) ==
    LET r == fetch[g].relay
        landed == [info.entries EXCEPT ![r].flight = Absent]
        stale == result.kind = "Http" /\ landed[r].cached # Absent
        after == IF result.kind = "Document" THEN Retain(landed, r, result)
                 ELSE IF stale THEN MarkStale(landed, r) ELSE landed
        delivered == IF result.kind = "Document" THEN [kind |-> "Document", of |-> result.of]
                     ELSE IF stale THEN [kind |-> "Document", of |-> landed[r].cached.of] ELSE result
        live == {x \in DOMAIN after : after[x].cached # Absent \/ after[x].flight # Absent}
        order == IF result.kind = "Document" THEN Append(Remove(info.order, r), r) ELSE info.order
    IN  /\ info' = [info EXCEPT !.entries = Restrict(after, live), !.order = SelectSeq(order, LAMBDA x : x \in Cached(after))]
        /\ fetch' = [fetch EXCEPT ![g] = [@ EXCEPT !.at = "publish", !.result = delivered]]

\* The fetch ends and complete takes the lock; a late completion of a flight
\* that is not there any more is ignored.
CompleteFetch(g) ==
    /\ fetch[g].at = "fetching"
    /\ \E a \in Answers(fetch[g].relay) \cup (IF fetch[g].cancelled THEN {ServiceClosed} ELSE {}) :
          IF Flying(g) THEN CompleteFlight(g, FinishFetch(g, a))
          ELSE TaskEnds(g) /\ UNCHANGED info
    /\ UNCHANGED <<slots, asker, second>>

\* send_replace, then the flight drops and frees its permit.
PublishCompletion(g) ==
    /\ fetch[g].at = "publish"
    /\ EndFlight(g, Complete(asker, {g}, fetch[g].result))
    /\ TaskEnds(g)
    /\ UNCHANGED <<info, second>>

-----------------------------------------------------------------------------
(* Teardown and time *)

\* A wrong closing: nobody wakes the callers that wait for a permit.
CloseSlotsSilently ==
    /\ slots.open
    /\ slots' = [slots EXCEPT !.open = FALSE, !.queue = <<>>]
    /\ UNCHANGED <<info, fetch, asker, second>>

\* close first closes the semaphore: every queued caller wakes refused.
CloseSlots ==
    /\ slots.open
    /\ slots' = [slots EXCEPT !.open = FALSE, !.queue = <<>>]
    /\ asker' = [c \in Asker |-> IF asker[c].at = "queued" THEN [asker[c] EXCEPT !.at = "answered", !.answer = ServiceClosed] ELSE asker[c]]
    /\ UNCHANGED <<info, fetch, second>>

\* then it takes the entries, cancels their flights and answers their callers.
CloseService ==
    LET flights == {info.entries[r].flight : r \in DOMAIN info.entries} \ {Absent}
    IN  /\ ~slots.open /\ info.open
        /\ info' = [info EXCEPT !.open = FALSE, !.entries = <<>>, !.order = <<>>]
        /\ fetch' = Cancelled(flights)
        /\ asker' = Complete(asker, flights, ServiceClosed)
        /\ slots' = [slots EXCEPT !.free = @ + Cardinality(flights)]
        /\ UNCHANGED second

\* cached: a read of the last good value counts as an access.
ReadCached(r) ==
    /\ info.open /\ r \in DOMAIN info.entries
    /\ info' = [info EXCEPT !.order = Touch(@, r)]
    /\ UNCHANGED <<slots, fetch, asker, second>>

SecondPasses ==
    /\ second < LastSecond
    /\ second' = second + 1
    /\ UNCHANGED <<info, slots, fetch, asker>>

AskerStep(c) == AcquirePermit(c) \/ Register(c) \/ CancelUnobservedFlight(c)
FetchStep(g) == StartFetch(g) \/ CompleteFetch(g) \/ PublishCompletion(g)

InfoNext ==
    \/ \E c \in Asker : AskerStep(c) \/ DropAsker(c) \/ AskInformation(c)
    \/ \E g \in DOMAIN fetch : FetchStep(g)
    \/ \E r \in Host : ReadCached(r)
    \/ CloseSlots \/ CloseService \/ SecondPasses

\* Futures are polled when woken, the runtime runs its tasks and every fetch
\* meets its deadline; close, once begun, finishes.
InfoFairness ==
    /\ \A c \in Asker : WF_infoVars(AskerStep(c))
    /\ \A g \in 1 .. Cardinality(Asker) : WF_infoVars(g \in DOMAIN fetch /\ FetchStep(g))
    /\ WF_infoVars(CloseService)

InfoSpec == InfoInit /\ [][InfoNext]_infoVars /\ InfoFairness

-----------------------------------------------------------------------------
(* Properties *)

\* Every caller that keeps waiting is answered: no cancellation, eviction,
\* failed fetch or closing leaves a caller of get_async waiting for ever.  A
\* caller asks once, so it is enough that again and again nobody waits.
EveryAskerAnswered == []<>(\A c \in Asker : asker[c].at \in {"idle", "answered", "gone"})

\* A caller hears ServiceClosed only when the service was closed: the caller
\* that leaves a shared flight never takes it from the callers that stay.  A
\* document it gets is one of the relay it asked for.
AnswersTrue ==
    \A c \in Asker : asker[c].answer # Absent =>
        /\ asker[c].answer = ServiceClosed => ~slots.open
        /\ asker[c].answer.kind = "Document" => asker[c].answer.of = asker[c].relay

\* Every fetch permit is free, with a caller, or with a flight.
PermitsConserved ==
    LET flying == {r \in DOMAIN info.entries : info.entries[r].flight # Absent}
        publishing == {g \in DOMAIN fetch : fetch[g].at = "publish"}
        holding == {c \in Asker : asker[c].permit}
    IN  slots.free + Cardinality(flying) + Cardinality(publishing) + Cardinality(holding) = FetchSlots

\* A last good document is lost only to a completion that needs its place while
\* nobody refreshes it: a failed or cancelled refresh leaves it, and the cache
\* never holds more than its capacity.
LastGoodKept ==
    [][\A r \in Cached(info.entries) :
          \/ r \in Cached(info'.entries) /\ Cardinality(Cached(info'.entries)) =< CacheSlots
          \/ ~info'.open
          \/ info.entries[r].flight = Absent /\ Cached(info'.entries) \ Cached(info.entries) # {}]_infoVars

\* Callers are answered truthfully, permits are conserved, and no failed or
\* cancelled refresh loses the last good document (RelayInformationService).
InformationHonest == [](AnswersTrue /\ PermitsConserved) /\ LastGoodKept

=============================================================================
