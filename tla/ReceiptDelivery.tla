--------------------------- MODULE ReceiptDelivery ---------------------------
(***************************************************************************)
(* How the facts of one accepted write reach the app: the bounded fact     *)
(* mailboxes (nmp-runtime/src/fifo_channel.rs), the registry of live       *)
(* deliveries and the collector of a write's result (receipt_stream.rs),   *)
(* and the finite replay of the durable receipt in pages                   *)
(* (nmp-engine/src/core/write/receipt_queue.rs).                           *)
(*                                                                         *)
(* A caller is either the owner of the stream `publish` returned, who      *)
(* reads it as slowly as it likes and may drop it, or a thread inside      *)
(* `receipt_result`, who pages through the replay and then waits for the   *)
(* outcome.  The engine thread takes the callers' commands in order and,   *)
(* between them, everything else that moves the write.                     *)
(*                                                                         *)
(* What moves the write is modelled in WriteLifecycle; here it is reduced  *)
(* to what a receipt records and says: per destination the attempts, each  *)
(* with a handoff, a transient cause and a verdict, and the current lane.  *)
(***************************************************************************)
EXTENDS Integers, Sequences, FiniteSets, SequencesExt

CONSTANTS
    Dest,           \* the destinations of the write, in replay order
    Streams,        \* callers that own a stream returned by `publish`
    Collectors,     \* callers inside `receipt_result`
    Capacity,       \* FACT_CHANNEL_CAPACITY, and the replay page limit
    MaxTries,       \* max_publish_attempts
    MaxRevision     \* a lane is interrupted (refused, parked) below this revision

ASSUME DeliveryBounds ==
    /\ Dest \in Seq(Range(Dest)) /\ IsInjective(Dest)
    /\ Capacity \in Nat \ {0} /\ MaxTries \in Nat \ {0} /\ MaxRevision \in Nat
    /\ Streams \cap Collectors = {}

VARIABLES
    write,          \* the durable receipt and whether the core still holds it pending
    box,            \* per caller, its current mailbox
    caller,         \* per caller, where its call stands
    answer,         \* per caller, how its call ended, or the outcome it has read
    cursor,         \* per caller, the continuation it holds or asks with
    view,           \* per caller, the last fact it has read of every destination
    registered,     \* by_receipt: the <<caller, token>> whose sender is held
    inbox,          \* commands to the engine thread, oldest first
    up              \* the engine thread runs

deliveryVars == <<write, box, caller, answer, cursor, view, registered, inbox, up>>

Callers == Streams \cup Collectors
Addressed == Range(Dest)
None == "none"

\* A fact: what it is about, what it says, and of which attempt.
Fact(about, says, n) == [about |-> about, says |-> says, n |-> n]
Signing(says) == Fact("signing", says, 0)
Destinations(says) == Fact("destinations", says, 0)
Outcome(says) == Fact("outcome", says, 0)
Silence == Fact("nothing", "nothing", 0)

\* WriteFact::supersedes: two facts about the same subject.
Supersedes(fact, queued) == fact.about = queued.about

-----------------------------------------------------------------------------
\* The mailbox.

EmptyBox == [items |-> <<>>, state |-> "open"]

\* FifoSender::send: at the bound, evict what the value supersedes, or lag.
Send(b, fact) ==
    LET kept == SelectSeq(b.items, LAMBDA queued : ~Supersedes(fact, queued))
    IN  IF b.state # "open" THEN b
        ELSE IF Len(b.items) < Capacity
             THEN [b EXCEPT !.items = Append(@, fact)]
        ELSE IF Len(kept) < Len(b.items)
             THEN [b EXCEPT !.items = Append(kept, fact)]
        ELSE [b EXCEPT !.state = "lagged"]

SendAll(b, facts) == FoldLeft(Send, b, facts)

\* Drop for FifoSender.
ProducerGone(b) ==
    [items |-> b.items, state |-> IF b.state = "open" THEN "gone" ELSE b.state]

\* FifoReceiver::close, and Drop for FifoReceiver.
ClosedBox == [items |-> <<>>, state |-> "cancelled"]

-----------------------------------------------------------------------------
\* The receipt and its replay.

UntriedLane == [state |-> "none", revision |-> 0]
NoTries == [r \in Addressed |-> <<>>]

NoWrite == [accepted |-> FALSE, signed |-> FALSE, pending |-> FALSE,
            removed |-> FALSE, end |-> None,
            lane |-> [r \in Addressed |-> UntriedLane], tries |-> NoTries]

\* ReceiptReplayCursor::new.  A caller that holds no continuation asks from
\* here; a continuation has something delivered and is never equal to it.
NewCursor == [status |-> None, signer |-> FALSE, destinations |-> FALSE,
              attempts |-> [r \in Addressed |-> 0],
              lanes |-> [r \in Addressed |-> 0]]

\* ReceiptReplayFactKey, with an attempt's (ordinal, phase) as one number.
Key(kind, relay, mark) == [kind |-> kind, relay |-> relay, mark |-> mark]
AttemptKey(r, n, phase) == Key("attempt", r, 3 * n + phase)

\* ReceiptReplayCursor::contains.
Delivered(from, entry) ==
    CASE entry.key.kind = "status" -> from.status = entry.fact.says
      [] entry.key.kind = "signer" -> from.signer
      [] entry.key.kind = "destinations" -> from.destinations
      [] entry.key.kind = "attempt" ->
            from.attempts[entry.key.relay] >= entry.key.mark
      [] entry.key.kind = "lane" ->
            from.lanes[entry.key.relay] >= entry.key.mark

\* ReceiptReplayCursor::advance.
AdvanceCursor(from, entry) ==
    CASE entry.key.kind = "status" -> [from EXCEPT !.status = entry.fact.says]
      [] entry.key.kind = "signer" -> [from EXCEPT !.signer = TRUE]
      [] entry.key.kind = "destinations" ->
            [from EXCEPT !.destinations = TRUE]
      [] entry.key.kind = "attempt" ->
            [from EXCEPT !.attempts[entry.key.relay] = entry.key.mark]
      [] entry.key.kind = "lane" ->
            [from EXCEPT !.lanes[entry.key.relay] = entry.key.mark]

Entry(key, fact) == [key |-> key, fact |-> fact]
When(condition, entries) == IF condition THEN entries ELSE <<>>

\* The replay of attempt n at destination r: handoff, transient, verdict.
AttemptFacts(r, n, try) ==
       When(try.handoff = "refused",
            <<Entry(AttemptKey(r, n, 0), Fact(r, "not connected", 0))>>)
    \o When(try.handoff = "written",
            <<Entry(AttemptKey(r, n, 0), Fact(r, "sent", n))>>)
    \o When(try.transient = "auth",
            <<Entry(AttemptKey(r, n, 1), Fact(r, "needs auth", 0))>>)
    \o When(try.transient = "retry",
            <<Entry(AttemptKey(r, n, 1), Fact(r, "backing off", n))>>)
    \o When(try.verdict # "started",
            <<Entry(AttemptKey(r, n, 2), Fact(r, try.verdict, 0))>>)

\* The replay of a destination's lane, where the last attempt does not
\* already say it.
LaneFacts(w, r) ==
    LET lane == w.lane[r]
        last == IF w.tries[r] = <<>> THEN [handoff |-> None, transient |-> None]
                ELSE Last(w.tries[r])
        key  == Key("lane", r, lane.revision)
    IN     When(lane.state = "waiting" /\ last.handoff # "refused",
                <<Entry(key, Fact(r, "not connected", 0))>>)
        \o When(lane.state = "auth" /\ last.transient # "auth",
                <<Entry(key, Fact(r, "needs auth", 0))>>)
        \o When(lane.state = "denied", <<Entry(key, Fact(r, "auth failed", 0))>>)

\* Everything reattach_receipt_page replays of the write, in its order: the
\* outcome, if there is one, comes last.
Replay(w) ==
    LET tried(r) == FlattenSeq([n \in 1..Len(w.tries[r]) |->
                                    AttemptFacts(r, n, w.tries[r][n])])
        over == ~w.pending
    IN     When(w.signed /\ ~over,
                <<Entry(Key("status", None, 0), Signing("signed"))>>)
        \o When(~w.signed /\ ~over,
                <<Entry(Key("signer", None, 0), Signing("awaiting")),
                  Entry(Key("destinations", None, 0), Destinations("unknown"))>>)
        \o FlattenSeq([k \in 1..Len(Dest) |-> tried(Dest[k])])
        \o FlattenSeq([k \in 1..Len(Dest) |-> LaneFacts(w, Dest[k])])
        \o When(over, <<Entry(Key("status", None, 0), Outcome(w.end))>>)

\* reattach_receipt_page over a readable receipt: the facts of one page, the
\* cursor after it, and whether another call must follow.
Page(w, from, limit) ==
    LET replay == Replay(w)
        unseen == SelectSeq(replay, LAMBDA e : ~Delivered(from, e))
        page   == SubSeq(unseen, 1, IF Len(unseen) < limit THEN Len(unseen) ELSE limit)
        end    == FoldLeft(AdvanceCursor, from, page)
    IN  [facts |-> [k \in 1..Len(page) |-> page[k].fact],
         end |-> end,
         more |-> \/ \E e \in Range(replay) : ~Delivered(end, e)
                  \/ Len(page) = limit]

-----------------------------------------------------------------------------
\* The registry.

Held(c) == <<c, caller[c].token>> \in registered

\* The engine moves the write to w and dispatches the facts: deliver sends
\* each to every registered sender and drops the ones refused, then
\* finish_batch drops what is left when the receipt is no longer live.
DispatchTo(holders, w, facts) ==
    LET sent(c) == IF <<c, caller[c].token>> \in holders
                   THEN SendAll(box[c], facts) ELSE box[c]
        open    == {h \in holders : h[2] = caller[h[1]].token /\ sent(h[1]).state = "open"}
    IN  /\ write' = w
        /\ registered' = IF ~w.pending THEN {} ELSE IF facts = <<>> THEN holders ELSE open
        /\ box' = [c \in Callers |->
                      IF <<c, caller[c].token>> \in open /\ ~w.pending
                      THEN ProducerGone(sent(c)) ELSE sent(c)]

Dispatch(w, facts) == DispatchTo(registered, w, facts)

\* deliver_receipt_replay_page: fill the mailbox, and join live delivery only
\* when every fact was accepted, nothing is left to replay and the receipt
\* is live; otherwise the sender is dropped.
DeliverPage(c, page) ==
    LET b == SendAll(box[c], page.facts)
        joins == b.state = "open" /\ ~page.more /\ write.pending
    IN  /\ box' = [box EXCEPT ![c] = IF joins THEN b ELSE ProducerGone(b)]
        /\ registered' = IF joins THEN registered \cup {<<c, caller[c].token>>}
                         ELSE registered

\* Variant: a receipt that cannot be read gets no answer.
ReplyAttachedOnly(c, outcome, next) ==
    /\ caller' = IF outcome = "unavailable" THEN caller
                 ELSE [caller EXCEPT ![c] = [@ EXCEPT !.phase = "answered", !.reply = outcome]]
    /\ cursor' = [cursor EXCEPT ![c] = next]
    /\ UNCHANGED <<answer, view>>

Reply(c, outcome, next) ==
    /\ caller' = [caller EXCEPT ![c] = [@ EXCEPT !.phase = "answered", !.reply = outcome]]
    /\ cursor' = [cursor EXCEPT ![c] = next]
    /\ UNCHANGED <<answer, view>>

-----------------------------------------------------------------------------
\* The engine thread: the callers' commands.

Command(op, c, token) == [op |-> op, who |-> c, token |-> token]

NextCommand(op) == up /\ inbox # <<>> /\ Head(inbox).op = op

\* Cmd::PublishTracked of a new write: accepted into custody, or recorded as
\* refused at the acceptance door.  The delivery is registered first, the
\* caller answered next, the facts dispatched last.
AcceptPublish ==
    LET c == Head(inbox).who
        holders == registered \cup {<<c, caller[c].token>>}
    IN  /\ NextCommand("publish")
        /\ ~write.accepted
        /\ Reply(c, "attached", NewCursor)
        /\ \/ DispatchTo(holders,
                 [write EXCEPT !.accepted = TRUE, !.pending = TRUE],
                 <<Signing("in flight")>>)
           \/ DispatchTo(holders,
                 [write EXCEPT !.accepted = TRUE, !.end = "refused"],
                 <<Outcome("refused")>>)
        /\ inbox' = Tail(inbox)
        /\ UNCHANGED up

\* Cmd::PublishTracked with the correlation of an accepted write: the whole
\* replay is sent at once, whatever the capacity.
RepeatPublish ==
    LET c == Head(inbox).who
        all == Len(Replay(write)) + 1
    IN  /\ NextCommand("publish")
        /\ write.accepted
        /\ Reply(c, "attached", NewCursor)
        /\ DeliverPage(c, Page(write, NewCursor, all))
        /\ inbox' = Tail(inbox)
        /\ UNCHANGED <<write, up>>

\* Cmd::ReattachReceipt.
Reattach ==
    LET c == Head(inbox).who
        page == Page(write, cursor[c], Capacity)
    IN  /\ NextCommand("reattach")
        /\ ~write.removed
        /\ Reply(c, "attached", IF page.more THEN page.end ELSE NewCursor)
        /\ DeliverPage(c, page)
        /\ inbox' = Tail(inbox)
        /\ UNCHANGED <<write, up>>

\* Cmd::ReattachReceipt of a receipt that is gone, or cannot be read.
ReattachUnavailable ==
    LET c == Head(inbox).who
    IN  /\ NextCommand("reattach")
        /\ Reply(c, "unavailable", NewCursor)
        /\ box' = [box EXCEPT ![c] = ProducerGone(@)]
        /\ inbox' = Tail(inbox)
        /\ UNCHANGED <<write, registered, up>>

\* detach, of whatever delivery the caller has by now.
DetachByCaller ==
    /\ NextCommand("detach")
    /\ registered' = {h \in registered : h[1] # Head(inbox).who}
    /\ box' = [c \in Callers |-> IF c = Head(inbox).who /\ Held(c)
                                 THEN ProducerGone(box[c]) ELSE box[c]]
    /\ inbox' = Tail(inbox)
    /\ UNCHANGED <<write, caller, answer, cursor, view, up>>

\* Cmd::DetachReceiptDelivery, from the close hook of a dropped mailbox.
Detach ==
    /\ NextCommand("detach")
    /\ registered' = registered \ {<<Head(inbox).who, Head(inbox).token>>}
    /\ inbox' = Tail(inbox)
    /\ UNCHANGED <<write, box, caller, answer, cursor, view, up>>

\* Cmd::RemovePublishQueueEntry of a write that has ended, and forget.
RemoveWrite ==
    /\ up /\ write.end # None /\ ~write.removed
    /\ write' = [write EXCEPT !.removed = TRUE]
    /\ registered' = {}
    /\ box' = [c \in Callers |-> IF Held(c) THEN ProducerGone(box[c]) ELSE box[c]]
    /\ UNCHANGED <<caller, answer, cursor, view, inbox, up>>

\* The engine thread ends: the registry goes, and with it every sender; a
\* caller waiting for a reply gets none.
Shutdown ==
    /\ up /\ up' = FALSE
    /\ registered' = {} /\ inbox' = <<>>
    /\ box' = [c \in Callers |-> IF Held(c) \/ caller[c].phase = "asking"
                                 THEN ProducerGone(box[c]) ELSE box[c]]
    /\ caller' = [c \in Callers |->
                     IF caller[c].phase = "asking"
                     THEN [caller[c] EXCEPT !.phase = "done"] ELSE caller[c]]
    /\ answer' = [c \in Callers |->
                     IF caller[c].phase = "asking" THEN "down" ELSE answer[c]]
    /\ UNCHANGED <<write, cursor, view>>

-----------------------------------------------------------------------------
\* The engine thread: what moves the write.

SetLane(w, r, state) ==
    [w EXCEPT !.lane[r] = [state |-> state, revision |-> @.revision + 1]]

Ended(w, r) == w.lane[r].state \in {"over", "denied"}

\* close_if_all_lanes_terminal: the outcome follows the last verdict in the
\* same batch.
CloseIfAllTerminal(w, facts) ==
    IF \A r \in Addressed : Ended(w, r)
    THEN [w |-> [w EXCEPT !.pending = FALSE, !.end = "settled"],
          facts |-> Append(facts, Outcome("settled"))]
    ELSE [w |-> w, facts |-> facts]

\* The last attempt of a lane, none of whose fields is set before the first.
NoTry == [handoff |-> None, transient |-> None, verdict |-> "started"]
LastTry(w, r) == IF w.tries[r] = <<>> THEN NoTry ELSE Last(w.tries[r])

\* The last attempt's row, written over.
SetTry(w, r, try) == [w EXCEPT !.tries[r][Len(w.tries[r])] = try]

\* A verdict on the last attempt ends the lane.
Verdict(w, r, verdict) ==
    CloseIfAllTerminal(
        SetLane(SetTry(w, r, [LastTry(w, r) EXCEPT !.verdict = verdict]), r, "over"),
        <<Fact(r, verdict, 0)>>)

Just(w, facts) == [w |-> w, facts |-> facts]

\* A step a relay may force on a lane any number of times, up to the bound.
Interrupted(w, r, step) == IF w.lane[r].revision < MaxRevision THEN {step} ELSE {}

\* start_lane_attempt: the attempt's row is durable before any byte moves.
Begin(w, r) ==
    Just(SetLane([w EXCEPT !.tries[r] = Append(@, NoTry)], r, "handing"), <<>>)

\* on_event_handoff: the transport has written the event, cannot tell, or has
\* no session for it.  An ambiguous handoff is no fact about the write.
HandedOff(w, r) ==
    LET mark(handoff) == SetTry(w, r, [LastTry(w, r) EXCEPT !.handoff = handoff])
    IN  {Just(SetLane(mark("written"), r, "sent"), <<Fact(r, "sent", Len(w.tries[r]))>>),
         Just(SetLane(mark("ambiguous"), r, "sent"), <<>>)}
        \cup Interrupted(w, r,
                 Just(SetLane(mark("refused"), r, "waiting"), <<Fact(r, "not connected", 0)>>))

\* The relay asks for AUTH: an attempt under way is suspended with the cause,
\* any other lane parks with no attempt of its own.
Parked(w, r) ==
    LET suspended == IF w.lane[r].state \in {"handing", "sent"}
                     THEN SetTry(w, r, [LastTry(w, r) EXCEPT !.transient = "auth"])
                     ELSE w
    IN  Interrupted(w, r, Just(SetLane(suspended, r, "auth"), <<Fact(r, "needs auth", 0)>>))

\* retry_or_give_up.
RetryOrGiveUp(w, r) ==
    LET n == Len(w.tries[r])
    IN  IF n >= MaxTries THEN Verdict(w, r, "gave up")
        ELSE Just(SetLane(SetTry(w, r, [LastTry(w, r) EXCEPT !.transient = "retry"]), r, "backoff"),
                  <<Fact(r, "backing off", n)>>)

\* apply_relay_wake of a lane that waits for a connection: a lane whose last
\* attempt was to be retried says so again.
Connected(w, r) ==
    Just(SetLane(w, r, "ready"),
         When(LastTry(w, r).transient = "retry",
              <<Fact(r, "backing off", Len(w.tries[r]))>>))

\* A lane parked for AUTH wakes on success, falls back when the connection is
\* lost, or is denied.
WakeParked(w, r) ==
    {Just(SetLane(w, r, "ready"), <<>>),
     Just(SetLane(w, r, "waiting"), <<Fact(r, "not connected", 0)>>),
     CloseIfAllTerminal(SetLane(w, r, "denied"), <<Fact(r, "auth failed", 0)>>)}

\* What may happen next at destination r of write w, and the facts it emits.
\* An eligible lane whose session is lost says so and stays eligible
\* ("offline"): the loss is not durable.
LaneSteps(w, r) ==
    LET lane == w.lane[r].state
    IN  CASE lane = "waiting" -> {Connected(w, r)} \cup Parked(w, r)
          [] lane = "ready" ->
                {Begin(w, r),
                 Just([w EXCEPT !.lane[r].state = "offline"],
                      <<Fact(r, "not connected", 0)>>)} \cup Parked(w, r)
          [] lane = "offline" -> {Begin(w, r)} \cup Parked(w, r)
          [] lane = "handing" -> HandedOff(w, r) \cup Parked(w, r)
          [] lane = "sent" ->
                {Verdict(w, r, "published"), Verdict(w, r, "rejected"),
                 RetryOrGiveUp(w, r)} \cup Parked(w, r)
          [] lane = "backoff" -> {Just(SetLane(w, r, "ready"), <<>>)} \cup Parked(w, r)
          [] lane = "auth" -> WakeParked(w, r)
          [] OTHER -> {}

LaneStep ==
    /\ up /\ write.pending /\ write.signed
    /\ \E r \in Addressed : \E next \in LaneSteps(write, r) : Dispatch(next.w, next.facts)
    /\ UNCHANGED <<caller, answer, cursor, view, inbox, up>>

\* on_signed and the routing that follows it: lanes are opened for every
\* destination, or there is none and the write is over.
Sign ==
    LET opened == [write EXCEPT !.signed = TRUE,
                      !.lane = [r \in Addressed |-> [state |-> "waiting", revision |-> 1]]]
    IN  /\ up /\ write.pending /\ ~write.signed
        /\ \/ Dispatch(opened,
                 <<Signing("signed"), Destinations("known")>>
                 \o [k \in 1..Len(Dest) |-> Fact(Dest[k], "not connected", 0)])
           \/ Dispatch([write EXCEPT !.signed = TRUE, !.pending = FALSE,
                                     !.end = "no destination"],
                 <<Signing("signed"), Destinations("nowhere"), Outcome("no destination")>>)
        /\ UNCHANGED <<caller, answer, cursor, view, inbox, up>>

\* cancel_write before the signature.
Cancel ==
    /\ up /\ write.pending /\ ~write.signed
    /\ Dispatch([write EXCEPT !.pending = FALSE, !.end = "cancelled"],
                <<Outcome("cancelled")>>)
    /\ UNCHANGED <<caller, answer, cursor, view, inbox, up>>

-----------------------------------------------------------------------------
\* The callers.

Nothing == [r \in Addressed |-> Silence]

Ask(c, op, from) ==
    LET token == caller[c].token + 1
    IN  IF up
        THEN /\ caller' = [caller EXCEPT ![c] =
                    [phase |-> "asking", token |-> token, reply |-> None,
                     again |-> caller[c].phase = "reading"]]
             /\ cursor' = [cursor EXCEPT ![c] = from]
             /\ view' = [view EXCEPT ![c] = IF from = NewCursor THEN Nothing ELSE @]
             /\ box' = [box EXCEPT ![c] = EmptyBox]
             /\ inbox' = Append(inbox, Command(op, c, token))
             /\ UNCHANGED answer
        ELSE /\ caller' = [caller EXCEPT ![c].phase = "done"]
             /\ answer' = [answer EXCEPT ![c] = "down"]
             /\ box' = [box EXCEPT ![c] = ClosedBox]
             /\ UNCHANGED <<cursor, view, inbox>>

\* Handle::publish.
Publish(c) ==
    /\ caller[c].phase = "idle" /\ c \in Streams /\ ~write.removed
    /\ Ask(c, "publish", NewCursor)
    /\ UNCHANGED <<write, registered, up>>

\* Handle::receipt_result of the accepted write.
AskResult(c) ==
    /\ caller[c].phase = "idle" /\ c \in Collectors /\ write.accepted
    /\ Ask(c, "reattach", NewCursor)
    /\ UNCHANGED <<write, registered, up>>

\* A mailbox is dropped: its close hook tells the engine.
Hang(c, token) ==
    IF up THEN Append(inbox, Command("detach", c, token)) ELSE inbox

Leave(c, result) ==
    /\ caller' = [caller EXCEPT ![c].phase = "done"]
    /\ answer' = [answer EXCEPT ![c] = result]
    /\ box' = [box EXCEPT ![c] = ClosedBox]
    /\ inbox' = Hang(c, caller[c].token)
    /\ UNCHANGED <<cursor, view>>

\* The reply to a reattachment is in: the mailbox it filled replaces the one
\* read before.
TakeReply(c) ==
    /\ caller[c].phase = "answered"
    /\ \/ /\ caller[c].reply = "attached"
          /\ caller' = [caller EXCEPT ![c].phase = "reading"]
          /\ inbox' = IF caller[c].again THEN Hang(c, caller[c].token - 1) ELSE inbox
          /\ UNCHANGED <<box, answer, cursor, view>>
       \/ caller[c].reply = "unavailable" /\ Leave(c, "unavailable")
    /\ UNCHANGED <<write, registered, up>>

\* ReceiptResult::from_facts keeps the last state said of every relay.
Note(said, fact) ==
    IF fact.about \in Addressed THEN [said EXCEPT ![fact.about] = fact] ELSE said

Popped(b) == [items |-> Tail(b.items), state |-> b.state]

\* recv: the next fact.  A collector returns at the outcome.
Read(c) ==
    LET fact == Head(box[c].items)
        over == fact.about = "outcome"
    IN  /\ caller[c].phase = "reading" /\ box[c].items # <<>>
        /\ view' = [view EXCEPT ![c] = Note(@, fact)]
        /\ answer' = [answer EXCEPT ![c] = IF over THEN fact.says ELSE @]
        /\ IF over /\ c \in Collectors
           THEN /\ caller' = [caller EXCEPT ![c].phase = "done"]
                /\ box' = [box EXCEPT ![c] = ClosedBox]
                /\ inbox' = Hang(c, caller[c].token)
           ELSE /\ box' = [box EXCEPT ![c] = Popped(@)]
                /\ UNCHANGED <<caller, inbox>>
        /\ UNCHANGED <<write, cursor, registered, up>>

\* collect_receipt_result at the end of a mailbox: Closed goes on to the next
\* page or fails, Lagged starts over from the durable receipt.
AtEnd(c) ==
    /\ caller[c].phase = "reading" /\ box[c].items = <<>>
    /\ c \in Collectors
    /\ \/ box[c].state = "gone" /\ cursor[c] # NewCursor
          /\ Ask(c, "reattach", cursor[c])
       \/ box[c].state = "gone" /\ cursor[c] = NewCursor /\ Leave(c, "closed")
       \/ box[c].state = "lagged" /\ Ask(c, "reattach", NewCursor)
    /\ UNCHANGED <<write, registered, up>>

\* The owner of a stream drops it, read to its end or not.
DropStream(c) ==
    /\ c \in Streams /\ caller[c].phase = "reading"
    /\ Leave(c, answer[c])
    /\ UNCHANGED <<write, registered, up>>

-----------------------------------------------------------------------------
DeliveryInit ==
    /\ write = NoWrite
    /\ box = [c \in Callers |-> ClosedBox]
    /\ caller = [c \in Callers |-> [phase |-> "idle", token |-> 0, again |-> FALSE,
                    reply |-> None]]
    /\ answer = [c \in Callers |-> None]
    /\ cursor = [c \in Callers |-> NewCursor]
    /\ view = [c \in Callers |-> Nothing]
    /\ registered = {}
    /\ inbox = <<>>
    /\ up = TRUE

TakeCommand ==
    AcceptPublish \/ RepeatPublish \/ Reattach \/ ReattachUnavailable \/ Detach

EngineStep == LaneStep \/ Sign

CallerStep(c) == TakeReply(c) \/ Read(c) \/ AtEnd(c)

DeliveryNext ==
    \/ TakeCommand
    \/ EngineStep \/ Cancel \/ RemoveWrite \/ Shutdown
    \/ \E c \in Callers : Publish(c) \/ AskResult(c) \/ CallerStep(c) \/ DropStream(c)

\* The engine thread serves its inbox and the write's own events, and a
\* collector's thread runs whenever its mailbox lets it.  Weak fairness of
\* each, with the guard written out.
MayRun(c) ==
    \/ caller[c].phase = "answered"
    \/ caller[c].phase = "reading" /\ (box[c].items # <<>> \/ box[c].state # "open")

DeliveryFairness ==
    /\ []<>(~up \/ inbox = <<>>) \/ []<><<TakeCommand>>_deliveryVars
    /\ []<>(~up \/ ~write.pending) \/ []<><<EngineStep>>_deliveryVars
    /\ \A c \in Collectors :
          []<>(~MayRun(c)) \/ []<><<CallerStep(c)>>_deliveryVars

DeliverySpec == DeliveryInit /\ [][DeliveryNext]_deliveryVars /\ DeliveryFairness

-----------------------------------------------------------------------------
\* What the lane of r says at this moment, when it says anything.
LaneSays(r) ==
    LET lane == write.lane[r].state
        n == Len(write.tries[r])
    IN  CASE lane = "waiting" -> Fact(r, "not connected", 0)
          [] lane = "sent" /\ LastTry(write, r).handoff = "written" -> Fact(r, "sent", n)
          [] lane = "backoff" -> Fact(r, "backing off", n)
          [] lane = "auth" -> Fact(r, "needs auth", 0)
          [] lane = "denied" -> Fact(r, "auth failed", 0)
          [] lane = "over" -> Fact(r, Last(write.tries[r]).verdict, 0)
          [] OTHER -> Silence

Reached(c) == FoldLeft(Note, view[c], box[c].items)

\* A lane is in the wait its last attempt already recorded, and the caller has
\* paged across: a lane that left that wait and came back has its own fact
\* dropped from the replay, because the attempt says the same, and the
\* attempt's fact is behind the cursor.
SaidBefore(c, r) ==
    /\ caller[c].again
    /\ \/ write.lane[r].state = "waiting" /\ LastTry(write, r).handoff = "refused"
       \/ write.lane[r].state = "auth" /\ LastTry(write, r).transient = "auth"

\* Whoever is attached to live delivery holds the truth: what it has read,
\* brought up to date with what waits in its mailbox, is what every lane of
\* the write now says; pages replayed while the write moved, facts evicted
\* at the bound and registrations made late lose nothing.  The code does not
\* give this to a caller that pages across a lane's return to the wait its
\* last attempt recorded (SaidBefore): it may hold the other of the two waits.
AttachedIsCurrent ==
    \A c \in Callers : \A r \in Addressed :
        Held(c) /\ caller[c].phase \in {"answered", "reading"} /\ LaneSays(r) # Silence
            => \/ Reached(c)[r] = LaneSays(r)
               \/ /\ SaidBefore(c, r)
                  /\ Reached(c)[r].says \in {"not connected", "needs auth"}

\* receipt_result returns the write's own outcome with the last state of every
\* destination, and reports ClosedWithoutOutcome only of an engine that is
\* going down.
ResultExact ==
    \A c \in Collectors : caller[c].phase = "done" =>
        \/ answer[c] \in {"unavailable", "down"}
        \/ answer[c] = "closed" /\ ~up
        \/ /\ answer[c] = write.end /\ write.end # None
           /\ \A r \in Addressed : LaneSays(r) # Silence => view[c][r] = LaneSays(r)

\* Nobody waits on a mailbox no one can write to: while a caller's mailbox is
\* open, the registry holds its sender, the receipt is live and the engine
\* runs, so a close hook that reports an earlier mailbox late never takes the
\* delivery that replaced it.
NeverStranded ==
    \A c \in Callers :
        caller[c].phase \in {"answered", "reading"} /\ box[c].state = "open"
            => Held(c) /\ write.pending /\ up

\* receipt_result returns, however the write, its pages and the mailbox bound
\* interleave.
ResultArrives ==
    \A c \in Collectors : caller[c].phase = "asking" ~> caller[c].phase = "done"

\* What delivery owes at every moment: an attached caller holds the truth, a
\* returned result is exact, and nobody waits where no fact can come from.
DeliveryExact == AttachedIsCurrent /\ ResultExact /\ NeverStranded

=============================================================================
