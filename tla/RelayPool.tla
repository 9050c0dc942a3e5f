------------------------------ MODULE RelayPool ------------------------------
(***************************************************************************)
(* nmp-transport's relay pool, with the part of nmp-runtime that owns it.  *)
(*                                                                         *)
(* The pool keeps one slot per relay session and one worker thread per     *)
(* live slot.  A worker dials, serves its socket, and dials again: each    *)
(* connection is a generation, the pair of the worker's id and the number  *)
(* of the attempt.  Commands reach a worker through a bounded channel,     *)
(* what it observes comes back through one bounded event channel that a    *)
(* translator thread reads in batches, and a closed worker's thread is     *)
(* joined by a reaper thread.  The engine thread opens and closes sessions,*)
(* hands off frames, and is told what happened through its inbox.          *)
(*                                                                         *)
(* A step of an action holds the pool's lock, or is local to one thread.   *)
(***************************************************************************)
EXTENDS Naturals, Sequences, FiniteSets, SequencesExt

CONSTANTS
    Sessions,       \* relay sessions (RelaySessionKey)
    Protected,      \* those that authenticate, whose first read is gated
    Public(_),      \* the unauthenticated session of a session's relay
    KeyBefore(_, _),\* the order of the session keys
    Durables,       \* correlations of durable EVENT frames
    Ephemerals,     \* operations of exact-generation frames (AUTH events)
    Requests,       \* ordinary REQ and CLOSE frames
    MaxRelays,      \* PoolConfig::max_relays
    MaxWorker,      \* the largest worker id
    MaxAttempt,     \* the largest attempt a worker dials
    MaxHeard,       \* frames a generation is given to read
    CommandCap,     \* PoolConfig::command_queue_capacity
    EventCap,       \* capacity of the event channel
    BatchCap,       \* PoolConfig::max_verify_batch
    InboxCap        \* what the sink, the bridge and the inbox hold

ASSUME PoolAssumption ==
    /\ Protected \subseteq Sessions
    /\ \A s \in Sessions : Public(s) \in Sessions \ Protected
    /\ MaxRelays \in Nat \ {0}
    /\ MaxWorker \in Nat \ {0}
    /\ MaxAttempt \in Nat
    /\ MaxHeard \in Nat
    /\ CommandCap \in Nat \ {0}
    /\ EventCap \in Nat \ {0}
    /\ BatchCap \in Nat \ {0}
    /\ InboxCap \in Nat \ {0}

VARIABLES
    slot,       \* PoolInner.slots by session: worker, generation, health
    wk,         \* the worker threads
    next,       \* next_worker_id
    retiring,   \* retiring_worker_ids
    orphaned,   \* orphaned_workers
    retireQ,    \* the reaper's channel
    reaping,    \* the worker the reaper is joining
    down,       \* PoolInner.shutdown
    evq,        \* the event channel
    batch,      \* the translator's batch and which of it was planned current
    poisoned,   \* the translator found a current frame it had not planned
    sink,       \* facts the bridge has not forwarded yet
    inbox,      \* facts in the engine thread's inbox
    reads,      \* relay_worker_requirements(): sessions of the read plan
    writes,     \* ... and those of live write lanes
    link,       \* slot_to_relay: the last generation the engine took, by session
    connected,  \* connected_relays
    probe,      \* auth_probe_sessions: the generation to release, by session
    auth,       \* auth_sessions: generation, phase and AUTH event, by session
    opened,     \* the generations the engine has released
    answers,    \* the result of each handoff, as the engine has it
    addressed,  \* the generation each frame was submitted to
    wire,       \* frames a socket accepted, with the generation
    flushed,    \* those a socket flushed
    denied      \* sessions refused for good and not demanded since

pool == <<slot, wk, next, retiring, orphaned, retireQ>>
threads == <<reaping, down, evq, batch, poisoned>>
demand == <<reads, writes>>
view == <<demand, link, connected, probe, auth, opened>>
handoff == <<answers, addressed>>
sockets == <<wire, flushed>>
vars == <<pool, threads, sink, inbox, view, handoff, sockets, denied>>

required == reads \cup writes

Workers == 1 .. MaxWorker
Gens == Workers \X (0 .. MaxAttempt + 1)
None == <<0, 0>>
Handoffs == Durables \cup Ephemerals
Frames == Handoffs \cup Requests
Results == {"NotHandedOff", "Ambiguous", "Written", "Unavailable", "Accepted"}

-----------------------------------------------------------------------------
(* The pool's state as one record, for the calls that chain several steps. *)

Pool == [slot |-> slot, wk |-> wk, next |-> next, retiring |-> retiring,
         orphaned |-> orphaned, retireQ |-> retireQ]

Becomes(p) ==
    /\ slot' = p.slot
    /\ wk' = p.wk
    /\ next' = p.next
    /\ retiring' = p.retiring
    /\ orphaned' = p.orphaned
    /\ retireQ' = p.retireQ

Empty == [worker |-> 0, gen |-> None, state |-> "Disconnected"]

Fresh(s) ==
    [session |-> s, pc |-> "dial", attempt |-> 0, cmds |-> <<>>,
     pending |-> <<>>, queued |-> <<>>, exact |-> <<>>, accepted |-> <<>>,
     gate |-> FALSE, released |-> FALSE, heard |-> 0,
     stop |-> FALSE, farewell |-> FALSE]

Unborn == [Fresh(CHOOSE s \in Sessions : TRUE) EXCEPT !.pc = "unborn"]

Over(r) == r.pc \in {"ended", "hungup"}
Generation(w) == <<w, wk[w].attempt>>

LiveIn(p) == {s \in Sessions : p.slot[s].worker # 0}

Room(p) ==
    /\ Cardinality(LiveIn(p)) < MaxRelays
    /\ Cardinality(LiveIn(p)) + Cardinality(p.retiring) < 2 * MaxRelays

ReapOrphans(p) ==
    LET done == {w \in p.orphaned : Over(p.wk[w])}
    IN  [p EXCEPT !.orphaned = @ \ done, !.retiring = @ \ done]

Spawn(p, s) ==
    [p EXCEPT !.slot[s] = [worker |-> p.next, gen |-> <<p.next, 0>>,
                           state |-> "Connecting"],
              !.wk[p.next] = Fresh(s),
              !.next = @ + 1]

\* try_ensure_session: a live session is left as it is; a new worker needs a
\* place under both ceilings, and an id.
Ensure(p, s) ==
    LET q == ReapOrphans(p)
    IN  IF down \/ q.slot[s].worker # 0 \/ ~ Room(q) \/ q.next > MaxWorker
        THEN q
        ELSE Spawn(q, s)

\* try_send of a command: refused when the bounded channel is full.
Push(p, w, c) ==
    IF Len(p.wk[w].cmds) < CommandCap
    THEN [p EXCEPT !.wk[w].cmds = Append(@, c)]
    ELSE p


HandToReaper(p, w) ==
    IF Len(p.retireQ) < MaxRelays
    THEN [p EXCEPT !.retireQ = Append(@, w)]
    ELSE [p EXCEPT !.orphaned = @ \cup {w}]

\* retire_worker_with_frames: the flag first, then the nudge that a full
\* channel may drop, then the reaper, or the orphans when its channel is full.
Retire(p, s, frames) ==
    LET w == p.slot[s].worker
        stopped == [p EXCEPT !.slot[s].worker = 0,
                             !.slot[s].state = "Disconnected",
                             !.wk[w].stop = TRUE,
                             !.wk[w].farewell = frames,
                             !.retiring = @ \cup {w}]
    IN  HandToReaper(Push(stopped, w, [kind |-> "Shutdown"]), w)

Closed(p, s) ==
    [kind |-> "Disconnected", session |-> s, gen |-> p.slot[s].gen,
     reason |-> "Closed"]

-----------------------------------------------------------------------------
(* The worker thread.  A worker that has something to report waits for room  *)
(* in the event channel: a step that reports is taken when there is some.   *)

\* The resolution of a frame that no socket was given, and of one that a
\* socket accepted and did not flush.
Unwritten(h) ==
    [kind |-> "Handoff", id |-> h,
     result |-> IF h \in Durables THEN "NotHandedOff" ELSE "Unavailable"]

Unflushed(h) ==
    [kind |-> "Handoff", id |-> h,
     result |-> IF h \in Durables THEN "Ambiguous" ELSE "Unavailable"]

Confirmed(h) ==
    [kind |-> "Handoff", id |-> h,
     result |-> IF h \in Durables THEN "Written" ELSE "Accepted"]

Each(Op(_), hs) == [i \in 1 .. Len(hs) |-> Op(hs[i])]

\* resolve_queued_durables_on_shutdown
ForgetChannel(cmds) == <<>>

ChannelRemainder(cmds) ==
    LET held == SelectSeq(cmds, LAMBDA c : c.kind \in {"Durable", "Ephemeral"})
    IN  [i \in 1 .. Len(held) |-> Unwritten(held[i].id)]

\* resolve_generation_end
GenerationEnd(r) ==
    Each(Unwritten, r.queued) \o Each(Unflushed, r.accepted)
        \o Each(Unwritten, r.exact)

Event(k, w) ==
    [kind |-> k, session |-> wk[w].session, gen |-> Generation(w)]

Failed(w, permanent) ==
    [kind |-> "Failed", session |-> wk[w].session, gen |-> Generation(w),
     permanent |-> permanent]

Outside == <<slot, next, retiring, orphaned, retireQ, reaping, down, batch,
             poisoned, sink, inbox, view, handoff, denied>>

\* A step of worker w: its state becomes r and it reports events.
Steps(w, r, events) ==
    /\ events # <<>> => Len(evq) < EventCap
    /\ evq' = evq \o events
    /\ wk' = [wk EXCEPT ![w] = r]
    /\ UNCHANGED Outside

Local == UNCHANGED sockets

\* The thread returns, without a socket ("ended") or closing it ("hungup").
Return(r, pc) ==
    [Fresh(r.session) EXCEPT !.pc = pc, !.stop = r.stop, !.farewell = r.farewell]

\* A retired worker that has no socket settles its channel and returns.
Quit(w) ==
    /\ wk[w].pc \in {"dial", "wait", "dead"}
    /\ wk[w].stop
    /\ Steps(w, Return(wk[w], "ended"), ChannelRemainder(wk[w].cmds))
    /\ Local

\* The head of the loop, at the start or when the reconnect delay has passed.
\* The dial itself blocks, and a retirement may come in the meantime.
Dial(w) ==
    /\ wk[w].pc \in {"dial", "wait"}
    /\ ~ wk[w].stop
    /\ wk[w].attempt <= MaxAttempt
    /\ Steps(w, [wk[w] EXCEPT !.pc = "dialing"], <<>>)
    /\ Local

\* The handshake succeeds: a new generation, its outbound gate closed when
\* the session is protected.
Opens(w) ==
    /\ wk[w].pc = "dialing"
    /\ LET gated == wk[w].session \in Protected
       IN  Steps(w, [wk[w] EXCEPT !.pc = "check", !.gate = gated, !.released = ~ gated],
                 <<Event("Connected", w)>>)
    /\ Local

DialFails(w) ==
    /\ wk[w].pc = "dialing"
    /\ Steps(w, [wk[w] EXCEPT !.pc = "wait", !.attempt = @ + 1], <<Failed(w, FALSE)>>)
    /\ Local

\* 401 or 403: the worker never dials again.
DialDenied(w) ==
    /\ wk[w].pc = "dialing"
    /\ Steps(w, [wk[w] EXCEPT !.pc = "dead"], <<Failed(w, TRUE)>>)
    /\ Local

\* A command received without a socket: an ordinary frame waits for the next
\* connection, a correlated one is resolved, a release is dropped.
Take(w) ==
    /\ wk[w].pc \in {"wait", "dead"}
    /\ wk[w].cmds # <<>>
    /\ LET c == Head(wk[w].cmds)
           r == [wk[w] EXCEPT !.cmds = Tail(@)]
       IN  \/ /\ c.kind = "Send"
              /\ Steps(w, IF r.pc = "wait" THEN [r EXCEPT !.pending = Append(@, c.id)]
                                           ELSE r, <<>>)
           \/ c.kind \in {"Durable", "Ephemeral"} /\ Steps(w, r, <<Unwritten(c.id)>>)
           \/ c.kind = "Release" /\ Steps(w, r, <<>>)
           \/ c.kind = "Shutdown" /\ Steps(w, Return(r, "ended"), <<>>)
    /\ Local

\* The connection ends and the thread returns: everything the generation
\* still owns is resolved, after what is left in the channel.
HangUp(w, r, remainder) ==
    Steps(w, Return(r, "hungup"), remainder \o GenerationEnd(r))

\* The head of the connected loop: a retired worker writes and flushes its
\* terminal frames and settles its channel before it closes the socket.
Check(w) ==
    /\ wk[w].pc = "check"
    /\ IF wk[w].stop
       THEN HangUp(w, [wk[w] EXCEPT !.farewell = FALSE], ChannelRemainder(wk[w].cmds))
       ELSE Steps(w, [wk[w] EXCEPT !.pc = "drain"], <<>>)
    /\ Local

\* drain_commands, one command at a time.  A correlated frame is queued only
\* for the generation it names; a release opens only its own generation.
AnyGeneration(c, w) == TRUE
Mine(c, w) == c.gen = Generation(w)

Drain(w) ==
    /\ wk[w].pc = "drain"
    /\ wk[w].cmds # <<>>
    /\ LET c == Head(wk[w].cmds)
           r == [wk[w] EXCEPT !.cmds = Tail(@)]
       IN  \/ c.kind = "Send" /\ Steps(w, [r EXCEPT !.pending = Append(@, c.id)], <<>>)
           \/ /\ c.kind = "Release"
              /\ Steps(w, [r EXCEPT !.released = @ \/ Mine(c, w)], <<>>)
           \/ /\ c.kind = "Durable" /\ Mine(c, w)
              /\ Steps(w, [r EXCEPT !.queued = Append(@, c.id)], <<>>)
           \/ /\ c.kind = "Ephemeral" /\ Mine(c, w)
              /\ Steps(w, [r EXCEPT !.exact = Append(@, c.id)], <<>>)
           \/ /\ c.kind \in {"Durable", "Ephemeral"} /\ ~ Mine(c, w)
              /\ Steps(w, r, <<Unwritten(c.id)>>)
           \/ c.kind = "Shutdown" /\ HangUp(w, r, <<>>)
    /\ Local

\* An empty channel: its sender is gone when the worker was retired.
Drained(w) ==
    /\ wk[w].pc = "drain"
    /\ wk[w].cmds = <<>>
    /\ IF wk[w].stop THEN HangUp(w, wk[w], <<>>)
                     ELSE Steps(w, [wk[w] EXCEPT !.pc = "turn"], <<>>)
    /\ Local

\* The socket is gone: the generation's frames are resolved, the failure is
\* reported, and the worker waits before its next attempt.
Lose(w, r, events) ==
    Steps(w, [Fresh(r.session) EXCEPT
                 !.pc = "wait", !.attempt = r.attempt + 1, !.cmds = r.cmds,
                 !.pending = r.pending, !.stop = r.stop, !.farewell = r.farewell],
          events \o GenerationEnd(r) \o <<Failed(w, FALSE)>>)

\* What one turn reads.
Reads(w) == {<<>>} \cup IF wk[w].heard < MaxHeard THEN {<<Event("Frame", w)>>} ELSE {}

\* A protected generation reads before it writes: the wait is interrupted by
\* a command, or the window passes with nothing read, or what was read is
\* passed on before the edge that says so, which is then reported twice.
Listen(w) ==
    /\ wk[w].pc = "turn"
    /\ wk[w].gate
    /\ LET edge == Event("InitialReadCompleted", w)
           open == [wk[w] EXCEPT !.pc = "check", !.gate = FALSE]
       IN  \/ Steps(w, [wk[w] EXCEPT !.pc = "check"], <<>>)
           \/ Steps(w, open, <<edge>>)
           \/ \E f \in Reads(w) \ {<<>>} :
                Steps(w, [open EXCEPT !.heard = @ + 1], f \o <<edge, edge>>)
           \/ Lose(w, wk[w], <<>>)
    /\ Local

\* What the socket is offered, in order: ordinary frames, durable frames,
\* exact frames; only the last before the gate is open.
OfferAll(r) == r.pending \o r.queued \o r.exact

Offered(r) ==
    IF r.released THEN r.pending \o r.queued \o r.exact ELSE r.exact

Keep(hs, gone) == SelectSeq(hs, LAMBDA h : h \notin gone)

\* flush_generation_writes, the keepalive ping and the reads of one turn of
\* the loop.  The socket accepts a prefix of what it is offered.  A flush
\* that succeeds, of the batch or of a ping, confirms all that was accepted.
\* A write that breaks the socket takes its ordinary frame with it.
Serve(w) ==
    /\ wk[w].pc = "turn"
    /\ ~ wk[w].gate
    /\ \E n \in 0 .. Len(Offered(wk[w])), flush \in BOOLEAN, f \in Reads(w) :
        LET gone == Range(SubSeq(Offered(wk[w]), 1, n))
            taken == SelectSeq(SubSeq(Offered(wk[w]), 1, n),
                               LAMBDA h : h \in Handoffs)
            waiting == wk[w].accepted \o taken
            settled == IF flush THEN Each(Confirmed, waiting) ELSE <<>>
            r == [wk[w] EXCEPT !.pending = Keep(@, gone), !.queued = Keep(@, gone),
                               !.exact = Keep(@, gone),
                               !.accepted = IF flush THEN <<>> ELSE waiting]
        IN  /\ \/ Steps(w, [r EXCEPT !.pc = "check", !.heard = @ + Len(f)],
                        settled \o f)
               \/ Lose(w, [r EXCEPT !.pending = IF @ = <<>> THEN @ ELSE Tail(@)],
                       settled \o f)
            /\ wire' = wire \cup (gone \X {Generation(w)})
            /\ flushed' = IF flush
                          THEN flushed \cup (Range(waiting) \X {Generation(w)})
                          ELSE flushed

Worker(w) ==
    \/ Quit(w) \/ Dial(w) \/ Opens(w) \/ DialFails(w) \/ DialDenied(w) \/ Take(w)
    \/ Check(w) \/ Drain(w) \/ Drained(w) \/ Listen(w) \/ Serve(w)

-----------------------------------------------------------------------------
(* The reaper and translator threads.                                      *)

\* The reaper joins one thread at a time and reports each join.
ReaperTakes ==
    /\ reaping = 0
    /\ retireQ # <<>>
    /\ reaping' = Head(retireQ)
    /\ retireQ' = Tail(retireQ)
    /\ UNCHANGED <<slot, wk, next, retiring, orphaned, down, evq, batch, poisoned,
                   sink, inbox, view, handoff, sockets, denied>>

ReaperJoins ==
    /\ reaping # 0
    /\ Over(wk[reaping])
    /\ Len(evq) < EventCap
    /\ evq' = Append(evq, [kind |-> "Retired", worker |-> reaping])
    /\ reaping' = 0
    /\ UNCHANGED <<pool, down, batch, poisoned, sink, inbox, view, handoff,
                   sockets, denied>>

\* planned_currentness: the generations the batch's own Connected events will
\* have installed by the time each frame is reached.
Planned(events) ==
    LET start == [gens |-> [s \in Sessions |-> IF slot[s].worker # 0 THEN slot[s].gen
                                               ELSE None],
                  plan |-> <<>>]
        Newer(g, h) == g # None /\ g[1] = h[1] /\ h[2] >= g[2]
        Step(a, e) ==
            CASE e.kind = "Connected" /\ Newer(a.gens[e.session], e.gen) ->
                     [gens |-> [a.gens EXCEPT ![e.session] = e.gen],
                      plan |-> Append(a.plan, TRUE)]
              [] e.kind \in {"Frame", "InitialReadCompleted"} ->
                     [a EXCEPT !.plan = Append(@, a.gens[e.session] = e.gen)]
              [] OTHER -> [a EXCEPT !.plan = Append(@, TRUE)]
    IN  FoldLeft(Step, start, events).plan

\* The first half of a turn of translator_loop: a batch is taken and planned
\* under the lock; its signatures are verified without it.  The turn before
\* has been delivered, so the sink had room.
TakeBatch ==
    /\ batch.events = <<>>
    /\ evq # <<>>
    /\ sink = <<>>
    /\ LET n == IF Len(evq) < BatchCap THEN Len(evq) ELSE BatchCap
           events == SubSeq(evq, 1, n)
       IN  /\ batch' = [events |-> events, plan |-> Planned(events)]
           /\ evq' = SubSeq(evq, n + 1, Len(evq))
    /\ UNCHANGED <<pool, reaping, down, poisoned, sink, inbox, view, handoff,
                   sockets, denied>>

\* frame_is_current, and the same test in apply_worker_event_with_verdict.
Current(p, e) == p.slot[e.session].worker # 0 /\ p.slot[e.session].gen = e.gen

SameWorker(p, e) ==
    p.slot[e.session].worker # 0 /\ p.slot[e.session].gen[1] = e.gen[1]

\* apply_worker_event_with_verdict: what an event does to the slots and what
\* the sink is told.  A handoff's result is passed on whatever became of the
\* slot; a permanent failure retires the worker.
Applied(a, e) ==
    LET p == a.pool
        Tell(f) == [a EXCEPT !.facts = Append(@, f)]
    IN  CASE e.kind = "Handoff" -> Tell(e)
          [] e.kind = "Retired" ->
                 IF e.worker \in p.retiring
                 THEN [Tell([kind |-> "WorkerRetired"]) EXCEPT
                          !.pool.retiring = @ \ {e.worker}]
                 ELSE a
          [] e.kind = "Connected" ->
                 IF SameWorker(p, e) /\ e.gen[2] >= p.slot[e.session].gen[2]
                 THEN [Tell(e) EXCEPT !.pool.slot[e.session].gen = e.gen,
                                      !.pool.slot[e.session].state = "Connected"]
                 ELSE a
          [] e.kind \in {"Frame", "InitialReadCompleted"} ->
                 IF Current(p, e) THEN Tell(e) ELSE a
          [] e.kind = "Failed" ->
                 LET gone(reason) == [kind |-> "Disconnected", session |-> e.session,
                                      gen |-> e.gen, reason |-> reason]
                 IN  IF ~ SameWorker(p, e) THEN a
                     ELSE IF e.permanent
                     THEN [Tell(gone("PermanentlyFailed")) EXCEPT
                              !.pool = Retire(@, e.session, FALSE),
                              !.denied = @ \cup {e.session}]
                     ELSE LET b == IF p.slot[e.session].state = "Connected"
                                   THEN Tell(gone("Error")) ELSE a
                          IN  [b EXCEPT !.pool.slot[e.session].state = "Connecting"]

\* The second half: the batch is applied in order under the lock and its facts
\* are delivered after it is released, or dropped when the engine is stopping.
\* A frame that is current now must have been planned so.
ApplyBatch ==
    /\ batch.events # <<>>
    /\ LET start == [pool |-> Pool, facts |-> <<>>, denied |-> denied, ok |-> TRUE]
           Step(a, i) ==
               LET e == batch.events[i]
               IN  [Applied(a, e) EXCEPT
                       !.ok = @ /\ (e.kind = "Frame" /\ Current(a.pool, e)
                                        => batch.plan[i])]
           end == FoldLeft(Step, start, [i \in 1 .. Len(batch.events) |-> i])
       IN  /\ Becomes(end.pool)
           /\ denied' = end.denied
           /\ poisoned' = (poisoned \/ ~ end.ok)
           /\ sink' = IF down THEN sink ELSE sink \o end.facts
    /\ batch' = [events |-> <<>>, plan |-> <<>>]
    /\ UNCHANGED <<reaping, down, evq, inbox, view, handoff, sockets>>

-----------------------------------------------------------------------------
(* The engine thread, and the bridge that feeds its inbox.                 *)

Bridge ==
    /\ sink # <<>>
    /\ Len(inbox) < InboxCap
    /\ inbox' = Append(inbox, Head(sink))
    /\ sink' = Tail(sink)
    /\ UNCHANGED <<pool, threads, view, handoff, sockets, denied>>

\* ensure_write_effect_session: a protected session that finds the pool at
\* capacity takes the place of its relay's public session.
EnsureWrite(p, s) ==
    LET q == Ensure(p, s)
        u == Public(s)
    IN  IF /\ s \in Protected
           /\ ~ down
           /\ q.slot[s].worker = 0
           /\ ~ Room(q)
           /\ q.slot[u].worker # 0
        THEN [pool |-> Ensure(Retire(q, u, FALSE), s), facts |-> <<Closed(q, u)>>]
        ELSE [pool |-> q, facts |-> <<>>]

EnsureFor(p, s) == IF s \in writes THEN EnsureWrite(p, s)
                   ELSE [pool |-> Ensure(p, s), facts |-> <<>>]

\* The reducer comes to need a session for a plan (EnsureReadRelay), or plans
\* another request of it while it is not connected.  (While there are worker
\* ids left to try it with.)
RequireRead(s) ==
    /\ ~ down
    /\ next <= MaxWorker
    /\ s \notin reads \cap connected
    /\ reads' = reads \cup {s}
    /\ denied' = denied \ {s}
    /\ Becomes(Ensure(Pool, s))
    /\ UNCHANGED <<threads, sink, inbox, writes, link, connected, probe, auth, opened,
                   handoff, sockets>>

\* A write comes to need it, or the scheduler finds a lane of it that is due
\* while it is not connected (EnsureWriteRelay).
RequireWrite(s) ==
    /\ ~ down
    /\ next <= MaxWorker
    /\ s \notin writes \cap connected
    /\ writes' = writes \cup {s}
    /\ denied' = denied \ {s}
    /\ LET r == EnsureWrite(Pool, s)
       IN  Becomes(r.pool) /\ inbox' = inbox \o r.facts
    /\ UNCHANGED <<threads, sink, reads, link, connected, probe, auth, opened,
                   handoff, sockets>>

\* dispatch_core_effects: a session that is no longer needed is closed, its
\* CLOSE frames handed to the worker with the retirement, and the engine
\* tells itself so.
Unrequire(s) ==
    /\ ~ down
    /\ \/ s \in reads /\ reads' = reads \ {s} /\ UNCHANGED writes
       \/ s \in writes /\ writes' = writes \ {s} /\ UNCHANGED reads
    /\ IF s \notin reads' \cup writes' /\ slot[s].worker # 0
       THEN Becomes(Retire(Pool, s, TRUE)) /\ inbox' = Append(inbox, Closed(Pool, s))
       ELSE UNCHANGED <<pool, inbox>>
    /\ UNCHANGED <<threads, sink, link, connected, probe, auth, opened, handoff,
                   sockets, denied>>

\* command_tx_for and connected_command_tx_for, for the handle the engine holds.
Reachable(s, g) ==
    /\ slot[s].worker # 0
    /\ slot[s].gen = g
    /\ slot[s].state # "Disconnected"

\* A frame for generation g is queued, or resolved at once: the engine then
\* sends itself the result.
Submit(p, h, s, g, open, kind) ==
    LET w == p.slot[s].worker
    IN  /\ addressed' = [addressed EXCEPT ![h] = g]
        /\ IF open /\ Len(p.wk[w].cmds) < CommandCap
           THEN /\ Becomes(Push(p, w, [kind |-> kind, id |-> h, gen |-> g]))
                /\ UNCHANGED inbox
           ELSE Becomes(p) /\ inbox' = Append(inbox, Unwritten(h))
        /\ UNCHANGED <<threads, sink, answers, sockets>>

\* Effect::PublishEvent: the frame goes to whatever generation the pool holds
\* for the session, which is opened when it is not.
SendDurable(h, s) ==
    /\ ~ down
    /\ addressed[h] = None
    /\ s \in connected \cap writes
    /\ LET p == Ensure(Pool, s)
           live == p.slot[s].worker # 0
       IN  Submit(p, h, s, IF live THEN p.slot[s].gen ELSE link[s], live, "Durable")
    /\ denied' = denied \ {s}
    /\ UNCHANGED view

\* AuthEffect::Send, the answer to a challenge: only to the connected
\* generation that was challenged.
SendEphemeral(h, s) ==
    /\ ~ down
    /\ addressed[h] = None
    /\ auth[s].phase = "asked" /\ auth[s].gen = link[s]
    /\ auth' = [auth EXCEPT ![s].phase = "sent", ![s].event = h]
    /\ Submit(Pool, h, s, link[s],
              Reachable(s, link[s]) /\ slot[s].state = "Connected", "Ephemeral")
    /\ UNCHANGED <<demand, link, connected, probe, opened, denied>>

\* A REQ goes to the session's worker whatever its generation, and may be
\* buffered while it dials.
SendRequest(q, s) ==
    /\ ~ down
    /\ addressed[q] = None
    /\ s \in reads
    /\ slot[s].worker # 0
    /\ addressed' = [addressed EXCEPT ![q] = slot[s].gen]
    /\ Becomes(Push(Pool, slot[s].worker, [kind |-> "Send", id |-> q]))
    /\ UNCHANGED <<threads, sink, inbox, view, answers, sockets, denied>>

LaterWorker(g, h) == g[1] >= h[1]

Later(g, h) == g[1] > h[1] \/ (g[1] = h[1] /\ g[2] > h[2])

NoAuth == [gen |-> None, phase |-> "none", event |-> "none"]

\* Effect::ReleaseInitialRead, for the generation the pool still holds; a full
\* command channel refuses it like any other command.
Release(p, s, g) ==
    IF Reachable(s, g) THEN Push(p, slot[s].worker, [kind |-> "Release", gen |-> g]) ELSE p

\* on_relay_connected: an older generation is ignored; a protected one is not
\* authenticated, and waits to be released once.
OnConnected(f) ==
    /\ IF Later(link[f.session], f.gen)
       THEN UNCHANGED view
       ELSE /\ link' = [link EXCEPT ![f.session] = f.gen]
            /\ connected' = connected \cup {f.session}
            /\ probe' = IF f.session \in Protected /\ link[f.session] # f.gen
                        THEN [probe EXCEPT ![f.session] = f.gen] ELSE probe
            /\ auth' = [auth EXCEPT ![f.session] = NoAuth]
            /\ UNCHANGED <<demand, opened>>
    /\ UNCHANGED <<pool, answers>>
    /\ inbox' = Tail(inbox)

\* on_relay_disconnected: only the exact generation the engine holds.  After
\* a transient failure the session is ensured again while it is required.
OnDisconnected(f) ==
    /\ IF link[f.session] # f.gen
       THEN UNCHANGED <<view, pool>> /\ inbox' = Tail(inbox)
       ELSE /\ connected' = connected \ {f.session}
            /\ probe' = [probe EXCEPT ![f.session] = None]
            /\ auth' = [auth EXCEPT ![f.session] = NoAuth]
            /\ UNCHANGED <<link, demand, opened>>
            /\ IF f.reason = "Error" /\ f.session \in required
               THEN LET r == EnsureFor(Pool, f.session)
                    IN  Becomes(r.pool) /\ inbox' = Tail(inbox) \o r.facts
               ELSE UNCHANGED pool /\ inbox' = Tail(inbox)
    /\ UNCHANGED answers

\* on_auth_probe_released: the gate of the generation that was connected, when
\* its AUTH is done or the relay has not asked for one.
OnInitialRead(f) ==
    /\ IF link[f.session] = f.gen
          /\ (auth[f.session].phase = "ready" \/ probe[f.session] = f.gen)
       THEN /\ probe' = IF auth[f.session].phase = "ready" THEN probe
                        ELSE [probe EXCEPT ![f.session] = None]
            /\ opened' = opened \cup {f.gen}
            /\ Becomes(Release(Pool, f.session, f.gen))
       ELSE UNCHANGED <<pool, probe, opened>>
    /\ inbox' = Tail(inbox)
    /\ UNCHANGED <<demand, link, connected, auth, answers>>

\* finish_auth_ok of an accepted AUTH event: the one transition to ready, which
\* releases the generation.
FinishAuth(s) ==
    /\ auth' = [auth EXCEPT ![s].phase = "ready"]
    /\ opened' = opened \cup {auth[s].gen}
    /\ Becomes(Release(Pool, s, auth[s].gen))

AuthMoves(s, a) ==
    /\ auth' = [auth EXCEPT ![s] = a]
    /\ UNCHANGED <<pool, opened>>

\* A frame of the generation the engine holds may be about AUTH: a challenge
\* (on_auth_challenge), a request or an EVENT refused for want of it
\* (on_auth_restricted, RelayAckClass::WaitingAuth), or the relay's OK to the
\* AUTH event (on_auth_ok), which waits when the pool has not yet reported
\* that event accepted.
OnFrame(f) ==
    LET s == f.session
        a == auth[s]
        bound == s \in Protected /\ link[s] = f.gen
    IN  /\ \/ UNCHANGED <<pool, probe, auth, opened>>
           \/ /\ bound
              /\ probe' = [probe EXCEPT ![s] = None]
              /\ \/ AuthMoves(s, [gen |-> f.gen, phase |-> "asked", event |-> "none"])
                 \/ AuthMoves(s, CASE a.phase = "none" -> [a EXCEPT !.gen = f.gen, !.phase = "demanded"]
                                   [] a.phase = "ready" -> [a EXCEPT !.phase = "closed"]
                                   [] OTHER -> a)
           \/ /\ bound /\ a.phase \in {"sent", "awaiting"}
              /\ <<a.event, f.gen>> \in wire
              /\ UNCHANGED probe
              /\ \/ a.phase = "awaiting" /\ FinishAuth(s)
                 \/ a.phase = "sent" /\ AuthMoves(s, [a EXCEPT !.phase = "early"])
                 \/ AuthMoves(s, [a EXCEPT !.phase = "closed"])
        /\ inbox' = Tail(inbox)
        /\ UNCHANGED <<demand, link, connected, answers>>

\* retry_required_relay_workers: every required session without a worker,
\* those that have writes first, each kind in the order of the keys.
RetryRequired(p) ==
    FoldLeft(Ensure, p, SetToSortSeq(writes, KeyBefore)
                            \o SetToSortSeq(required \ writes, KeyBefore))

OnWorkerRetired ==
    /\ Becomes(RetryRequired(Pool))
    /\ inbox' = Tail(inbox)
    /\ UNCHANGED <<view, answers>>

\* EngineMsg::EventHandoff, and AuthSendOutcome for the AUTH event that its
\* session still waits for.
OnHandoff(f) ==
    /\ answers' = [answers EXCEPT ![f.id] = f.result]
    /\ inbox' = Tail(inbox)
    /\ UNCHANGED <<demand, link, connected, probe>>
    /\ LET sent == {s \in Sessions : auth[s].event = f.id /\ auth[s].phase \in {"sent", "early"}}
       IN  \/ sent = {} /\ UNCHANGED <<pool, auth, opened>>
           \/ \E s \in sent :
                \/ f.result = "Accepted" /\ auth[s].phase = "early" /\ FinishAuth(s)
                \/ /\ f.result = "Accepted" /\ auth[s].phase = "sent"
                   /\ AuthMoves(s, [auth[s] EXCEPT !.phase = "awaiting"])
                \/ f.result = "Unavailable" /\ AuthMoves(s, [auth[s] EXCEPT !.phase = "closed"])

Handle ==
    /\ ~ down
    /\ inbox # <<>>
    /\ LET f == Head(inbox)
       IN  \/ f.kind = "Connected" /\ OnConnected(f)
           \/ f.kind = "Disconnected" /\ OnDisconnected(f)
           \/ f.kind = "InitialReadCompleted" /\ OnInitialRead(f)
           \/ f.kind = "WorkerRetired" /\ OnWorkerRetired
           \/ f.kind = "Handoff" /\ OnHandoff(f)
           \/ f.kind = "Frame" /\ OnFrame(f)
    /\ UNCHANGED <<threads, sink, addressed, sockets, denied>>

\* The engine thread ends: the sink discards from now on, every worker is
\* retired, and their threads are joined.
Shutdown ==
    /\ ~ down
    /\ down' = TRUE
    /\ Becomes(FoldLeft(LAMBDA p, s : Retire(p, s, FALSE), Pool,
                        SetToSeq(LiveIn(Pool))))
    /\ sink' = <<>>
    /\ inbox' = <<>>
    /\ UNCHANGED <<reaping, evq, batch, poisoned, view, handoff, sockets, denied>>

Init ==
    /\ slot = [s \in Sessions |-> Empty]
    /\ wk = [w \in Workers |-> Unborn]
    /\ next = 1
    /\ retiring = {}
    /\ orphaned = {}
    /\ retireQ = <<>>
    /\ reaping = 0
    /\ down = FALSE
    /\ evq = <<>>
    /\ batch = [events |-> <<>>, plan |-> <<>>]
    /\ poisoned = FALSE
    /\ sink = <<>>
    /\ inbox = <<>>
    /\ reads = {}
    /\ writes = {}
    /\ link = [s \in Sessions |-> None]
    /\ connected = {}
    /\ probe = [s \in Sessions |-> None]
    /\ auth = [s \in Sessions |-> NoAuth]
    /\ opened = {}
    /\ answers = [h \in Handoffs |-> "None"]
    /\ addressed = [f \in Frames |-> None]
    /\ wire = {}
    /\ flushed = {}
    /\ denied = {}

Engine ==
    \/ Handle
    \/ Shutdown
    \/ \E s \in Sessions :
        \/ RequireRead(s)
        \/ RequireWrite(s)
        \/ Unrequire(s)
        \/ \E h \in Durables : SendDurable(h, s)
        \/ \E h \in Ephemerals : SendEphemeral(h, s)
        \/ \E q \in Requests : SendRequest(q, s)

Next ==
    \/ \E w \in Workers : Worker(w)
    \/ ReaperTakes \/ ReaperJoins
    \/ TakeBatch \/ ApplyBatch
    \/ Bridge
    \/ Engine

Spec == Init /\ [][Next]_vars

-----------------------------------------------------------------------------
(* Properties.                                                             *)

\* Every variable holds a value of its kind and every queue keeps its bound.
TypeOK ==
    /\ slot \in [Sessions -> [worker : 0 .. MaxWorker, gen : Gens \cup {None},
                              state : {"Connecting", "Connected", "Disconnected"}]]
    /\ next \in 1 .. MaxWorker + 1
    /\ retiring \subseteq Workers
    /\ orphaned \subseteq retiring
    /\ retireQ \in Seq(Workers) /\ Len(retireQ) <= MaxRelays
    /\ \A w \in Workers : /\ Len(wk[w].cmds) <= CommandCap
                          /\ wk[w].attempt \in 0 .. MaxAttempt + 1
    /\ required \subseteq Sessions /\ connected \subseteq Sessions
    /\ denied \subseteq Sessions
    /\ link \in [Sessions -> Gens \cup {None}]
    /\ probe \in [Sessions -> Gens \cup {None}]
    /\ opened \subseteq Gens
    /\ answers \in [Handoffs -> Results \cup {"None"}]

Answering(seq, h) == Len(SelectSeq(seq, LAMBDA e : e.kind = "Handoff" /\ e.id = h))

\* The places a worker, or the way from it to the engine, can hold a handoff.
Holds(w, h) ==
    LET r == wk[w]
        In(hs) == Len(SelectSeq(hs, LAMBDA x : x = h))
    IN  Len(SelectSeq(r.cmds, LAMBDA c : /\ c.kind \in {"Durable", "Ephemeral"}
                                         /\ c.id = h))
        + In(r.queued) + In(r.exact) + In(r.accepted)

Underway(h) ==
    Answering(evq, h) + Answering(batch.events, h) + Answering(sink, h)
        + Answering(inbox, h)
        + FoldFunction(+, 0, [w \in Workers |-> Holds(w, h)])

\* Pool::send_durable's contract: a frame the pool queued is resolved exactly
\* once.  It is in one place, a channel, a worker or on its way back, until
\* the engine has its answer, across reconnects, retirements with a full
\* command channel, permanent failures and reopened slots.
HandoffConserved ==
    ~ down => \A h \in Handoffs :
        Underway(h) + (IF answers[h] # "None" THEN 1 ELSE 0)
            = (IF addressed[h] # None THEN 1 ELSE 0)

\* HandoffResult tells the truth: NotHandedOff was given to no socket, so it
\* may be submitted again; Written and Accepted were flushed by a socket of
\* the very generation they were addressed to.
HandoffHonest ==
    \A h \in Handoffs :
        /\ answers[h] = "NotHandedOff" => \A g \in Gens : <<h, g>> \notin wire
        /\ answers[h] \in {"Written", "Accepted"} => <<h, addressed[h]>> \in flushed

\* A durable or exact frame never crosses into another connection: the only
\* socket that may accept it is the generation it was submitted to.
NeverCrosses ==
    \A h \in Handoffs, g \in Gens : <<h, g>> \in wire => g = addressed[h]

Running == {w \in Workers : wk[w].pc # "unborn" /\ ~ Over(wk[w])}

\* max_relays and max_relay_threads: threads that run, the retired ones that
\* have not ended included, stay under twice the relay limit, and none runs
\* that the pool does not count.
ThreadBudget ==
    /\ Cardinality(LiveIn(Pool)) <= MaxRelays
    /\ Cardinality(LiveIn(Pool)) + Cardinality(retiring) <= 2 * MaxRelays
    /\ ~ down => \A w \in Running :
           w \in retiring \/ \E s \in Sessions : slot[s].worker = w

\* A frame or an initial-read edge reaches the engine only after the Connected
\* of its own generation and before that of another one: what is on the way
\* never mixes two connections of a session.
FramesFollowConnect ==
    LET way == inbox \o sink
        Before(i) == {j \in 1 .. i - 1 : /\ way[j].kind = "Connected"
                                         /\ way[j].session = way[i].session}
        Holding(i) == IF Before(i) = {} THEN link[way[i].session]
                      ELSE way[CHOOSE j \in Before(i) : \A k \in Before(i) : k <= j].gen
    IN  \A i \in 1 .. Len(way) :
            way[i].kind \in {"Frame", "InitialReadCompleted"} =>
                Holding(i) = way[i].gen

\* The translator verifies signatures without the lock, while slots close and
\* reopen.  A frame that is current when its verdict is used was planned, so
\* `expect("current verified frame has an index")` cannot fail.
TranslatorSafe == ~ poisoned

\* A protected generation writes neither ordinary nor durable frames before
\* the engine has released exactly it: after its InitialReadCompleted when the
\* relay asked for nothing, after the OK to its AUTH event otherwise.
GateHeld ==
    \A f \in Durables \cup Requests, g \in Gens :
        (<<f, g>> \in wire /\ wk[g[1]].session \in Protected) => g \in opened

\* And it is released (#1889: a socket gated forever is a deadlock with a relay
\* that challenges only what it is asked): once nothing is on the way, a
\* protected generation that is past its first read has been released, unless
\* the relay asked for AUTH on it and has not accepted one.
GateOpens ==
    \A s \in Protected : LET w == slot[s].worker IN
        (/\ ~ down /\ w # 0
         /\ evq = <<>> /\ batch.events = <<>> /\ sink = <<>> /\ inbox = <<>>
         /\ wk[w].pc \in {"check", "drain", "turn"} /\ ~ wk[w].gate)
        => \/ Generation(w) \in opened
           \/ auth[s].gen = Generation(w) /\ auth[s].phase # "ready"

\* The edge that frees a place is never lost: a required session without a
\* worker finds every place taken by live sessions, or a retirement that will
\* be reported is still under way, even while orphaned threads, which report
\* nothing, fill the budget.
NoLostRetry ==
    \A s \in required :
        (~ down /\ slot[s].worker = 0 /\ next <= MaxWorker) =>
            \/ Cardinality(LiveIn(Pool)) = MaxRelays
            \/ retiring \ orphaned # {}
            \/ \E i \in 1 .. Len(inbox \o sink) : (inbox \o sink)[i].kind = "WorkerRetired"

\* What the engine believes of a connection converges: once nothing is on the
\* way, a slot that is Connected is connected for the engine, at the slot's
\* generation, however closings and reopenings overtook each other.
\* A protected one that the engine has heard of in full is released, too.
LinkConverges ==
    /\ (~ down /\ sink = <<>> /\ inbox = <<>>) =>
           \A s \in Sessions : slot[s].state = "Connected" =>
               s \in connected /\ link[s] = slot[s].gen
    /\ GateOpens

\* A worker that closes its socket has written its terminal frames ("must be
\* written and flushed before a connected worker retires", WorkerHandle), with
\* one exception: a retirement that reaches it after the check at the head of
\* its loop and before the drain of its commands (drain_commands answers
\* Shutdown) closes the socket without them.
FarewellMissedInDrain ==
    \A w \in Workers :
        (wk[w].pc # "hungup" /\ wk'[w].pc = "hungup" /\ wk'[w].farewell) => wk[w].pc = "drain"

\* A relay that refused for good is dialled again only by a new demand
\* (on_relay_disconnected: recovery "is simply never AUTOMATIC"), with one
\* exception: retry_required_relay_workers asks for every required session
\* whenever some worker was joined, the refused one's own included.
DeniedRedialledOnRetirement ==
    \A s \in Sessions :
        (s \in denied \cap denied' /\ slot[s].worker = 0 /\ slot'[s].worker # 0) =>
            inbox # <<>> /\ Head(inbox).kind = "WorkerRetired"

\* Handoffs are resolved exactly once, and truthfully (Pool::send_durable).
HandoffsResolved == HandoffConserved /\ HandoffHonest

\* The connections of a session never mix: not in what the translator verifies
\* and the engine hears, and not before the gate of a protected generation is
\* released.
ConnectionsApart == FramesFollowConnect /\ TranslatorSafe /\ GateHeld


=============================================================================
