------------------------ MODULE ReceiptDeliveryProofs ------------------------
(***************************************************************************)
(* No caller of ReceiptDelivery is ever stranded on an open mailbox, for   *)
(* any destinations, callers, capacity and attempt cap.                    *)
(***************************************************************************)
EXTENDS ReceiptDelivery, TLAPS

Phases == {"idle", "asking", "answered", "reading", "done"}
Ops == {"publish", "reattach", "detach"}
Commands == [op : Ops, who : Callers, token : Int]
Standings == [Callers -> [phase : Phases, token : Int, again : BOOLEAN,
                          reply : {None, "attached", "unavailable"}]]

\* What the proof needs of the shapes: mailboxes, views and cursors are
\* functions of the callers, a call's standing is a record and the inbox a
\* sequence of commands.
Shapes ==
    /\ DOMAIN box = Callers
    /\ caller \in Standings
    /\ inbox \in Seq(Commands)
    /\ up \in BOOLEAN

\* A registry that holds anything belongs to a running engine and a live
\* receipt.
HeldIsLive == registered # {} => up /\ write.pending

\* A queued request belongs to the caller that waits for it, and it is that
\* caller's only one.
AskedOnce ==
    /\ \A k \in 1..Len(inbox) : inbox[k].op # "detach"
          => caller[inbox[k].who].phase = "asking"
    /\ \A j, k \in 1..Len(inbox) :
          inbox[j].op # "detach" /\ inbox[k].op # "detach" /\ inbox[j].who = inbox[k].who
             => j = k

\* A queued close hook names a mailbox its caller has already replaced, or
\* the caller is done.
HooksAreStale ==
    \A k \in 1..Len(inbox) : inbox[k].op = "detach"
        => \/ inbox[k].token < caller[inbox[k].who].token
           \/ caller[inbox[k].who].phase = "done"

DInv == Shapes /\ HeldIsLive /\ AskedOnce /\ HooksAreStale /\ NeverStranded

-----------------------------------------------------------------------------
\* A dropped sender leaves no mailbox open.
LEMMA GoneIsNotOpen ==
    ASSUME NEW b
    PROVE  ProducerGone(b).state # "open"
BY DEF ProducerGone

\* Taking the oldest command keeps the others and their order.
LEMMA TailOfInbox ==
    ASSUME Shapes, inbox # <<>>
    PROVE  /\ Tail(inbox) \in Seq(Commands)
           /\ Len(Tail(inbox)) = Len(inbox) - 1
           /\ \A k \in 1..Len(Tail(inbox)) : Tail(inbox)[k] = inbox[k + 1]
           /\ Len(inbox) \in Nat \ {0}
           /\ Head(inbox) = inbox[1] /\ Head(inbox) \in Commands
BY DEF Shapes

\* Initially nothing is registered and every mailbox is closed.
LEMMA InitDInv ==
    ASSUME DeliveryInit
    PROVE  DInv
BY DEF DeliveryInit, DInv, Shapes, HeldIsLive, AskedOnce, HooksAreStale,
       NeverStranded, ClosedBox, Phases, None, Commands, Standings

\* deliver and finish_batch: a mailbox still open afterwards is one whose
\* sender was held and stays held, of a receipt that is still live.
LEMMA DispatchKeeps ==
    ASSUME NEW holders, NEW w, NEW facts, Shapes, DispatchTo(holders, w, facts)
    PROVE  /\ DOMAIN box' = Callers
           /\ registered' # {} => write'.pending
           /\ registered' \subseteq holders
           /\ \A c \in Callers :
                 /\ box[c].state = "open" => <<c, caller[c].token>> \in holders
                 /\ box'[c].state = "open"
                 => <<c, caller[c].token>> \in registered' /\ write'.pending
<1> DEFINE sent(c) == IF <<c, caller[c].token>> \in holders
                      THEN SendAll(box[c], facts) ELSE box[c]
           open == {h \in holders : h[2] = caller[h[1]].token /\ sent(h[1]).state = "open"}
<1>1. /\ write' = w
      /\ registered' = IF ~w.pending THEN {} ELSE IF facts = <<>> THEN holders ELSE open
      /\ box' = [c \in Callers |-> IF <<c, caller[c].token>> \in open /\ ~w.pending
                                   THEN ProducerGone(sent(c)) ELSE sent(c)]
  BY DEF DispatchTo
<1>2. ASSUME NEW c \in Callers, box'[c].state = "open",
             box[c].state = "open" => <<c, caller[c].token>> \in holders
      PROVE  <<c, caller[c].token>> \in registered' /\ write'.pending
  <2>1. <<c, caller[c].token>> \in holders /\ sent(c).state = "open"
    BY <1>1, <1>2, GoneIsNotOpen
  <2>2. <<c, caller[c].token>> \in open
    BY <2>1
  <2>3. w.pending
    BY <1>1, <1>2, <2>2, GoneIsNotOpen
  <2> QED BY <1>1, <2>1, <2>2, <2>3
<1>3. open \subseteq holders
  OBVIOUS
<1> HIDE DEF open, sent
<1> QED BY <1>1, <1>2, <1>3

\* The oldest command leaves the inbox, and no other caller's standing and no
\* mailbox of the others changes: what was true of the queued commands stays.
LEMMA TakenCommand ==
    ASSUME DInv, inbox # <<>>, inbox' = Tail(inbox),
           caller' \in Standings,
           \/ caller' = caller
           \/ /\ Head(inbox).op # "detach"
              /\ \A c \in Callers : caller'[c].token = caller[c].token
              /\ \A c \in Callers : c # Head(inbox).who => caller'[c] = caller[c]
    PROVE  AskedOnce' /\ HooksAreStale' /\ inbox' \in Seq(Commands)
<1> USE TailOfInbox DEF DInv, Standings
<1>1. \A k \in 1..Len(inbox') : k + 1 \in 1..Len(inbox) /\ inbox'[k] = inbox[k + 1]
                                 /\ inbox[k + 1] \in Commands
  BY DEF Shapes
<1>2. ASSUME NEW k \in 1..Len(inbox'), inbox'[k].op # "detach"
      PROVE  caller'[inbox'[k].who].phase = "asking"
  <2>1. caller[inbox[k + 1].who].phase = "asking"
    BY <1>1, <1>2 DEF AskedOnce
  <2>2. Head(inbox).op # "detach" => inbox[k + 1].who # inbox[1].who
    BY <1>1, <1>2 DEF AskedOnce
  <2> QED BY <1>1, <2>1, <2>2 DEF Commands
<1>3. \A j, k \in 1..Len(inbox') :
          inbox'[j].op # "detach" /\ inbox'[k].op # "detach"
          /\ inbox'[j].who = inbox'[k].who => j = k
  <2> SUFFICES ASSUME NEW j \in 1..Len(inbox'), NEW k \in 1..Len(inbox'),
                      inbox'[j].op # "detach", inbox'[k].op # "detach",
                      inbox'[j].who = inbox'[k].who
               PROVE  j = k
    OBVIOUS
  <2>1. j + 1 = k + 1
    BY <1>1 DEF AskedOnce
  <2> QED BY <2>1
<1>4. ASSUME NEW k \in 1..Len(inbox'), inbox'[k].op = "detach"
      PROVE  \/ inbox'[k].token < caller'[inbox'[k].who].token
             \/ caller'[inbox'[k].who].phase = "done"
  <2>1. \/ inbox[k + 1].token < caller[inbox[k + 1].who].token
        \/ caller[inbox[k + 1].who].phase = "done"
    BY <1>1, <1>4 DEF HooksAreStale
  <2>2. Head(inbox).op # "detach" => caller[Head(inbox).who].phase = "asking"
    BY <1>1 DEF AskedOnce
  <2> QED BY <1>1, <2>1, <2>2 DEF Commands
<1> QED BY <1>1, <1>2, <1>3, <1>4 DEF AskedOnce, HooksAreStale

\* A caller that waits for no reply moves on, with or without hanging up one
\* of its mailboxes: the hook is stale, or the caller done.
LEMMA HungUp ==
    ASSUME DInv, NEW c \in Callers, NEW token \in Int,
           inbox' = Hang(c, token) \/ inbox' = inbox,
           caller' \in Standings,
           \A d \in Callers : d # c => caller'[d] = caller[d],
           caller[c].phase # "asking",
           caller[c].phase = "done" => caller'[c].phase = "done",
           caller'[c].token = caller[c].token,
           token < caller'[c].token \/ caller'[c].phase = "done"
    PROVE  AskedOnce' /\ HooksAreStale' /\ inbox' \in Seq(Commands)
<1> USE DEF DInv, Standings
<1> DEFINE cmd == Command("detach", c, token)
<1>1. inbox \in Seq(Commands) /\ Len(inbox) \in Nat
  BY DEF Shapes
<1>2. cmd \in Commands /\ cmd.op = "detach" /\ cmd.who = c /\ cmd.token = token
  BY DEF Command, Commands, Ops
<1>3. inbox' = inbox \/ inbox' = Append(inbox, cmd)
  BY DEF Hang
<1> HIDE DEF cmd
<1>4. \A k \in 1..Len(inbox) : inbox[k] \in Commands
  BY <1>1
<1>5. \A k \in 1..Len(inbox') :
         \/ k \in 1..Len(inbox) /\ inbox'[k] = inbox[k]
         \/ k = Len(inbox) + 1 /\ inbox'[k] = cmd
  BY <1>1, <1>2, <1>3
<1>6. inbox' \in Seq(Commands)
  BY <1>1, <1>2, <1>3
<1>7. AskedOnce'
  <2>1. ASSUME NEW k \in 1..Len(inbox'), inbox'[k].op # "detach"
        PROVE  k \in 1..Len(inbox) /\ inbox'[k] = inbox[k]
    BY <1>2, <1>5, <2>1
  <2>2. ASSUME NEW k \in 1..Len(inbox'), inbox'[k].op # "detach"
        PROVE  caller'[inbox'[k].who].phase = "asking"
    <3>1. k \in 1..Len(inbox) /\ inbox'[k] = inbox[k]
      BY <2>1, <2>2
    <3>2. caller[inbox[k].who].phase = "asking"
      BY <2>2, <3>1 DEF AskedOnce
    <3> QED BY <3>1, <3>2, <1>4 DEF Commands
  <2>3. \A j, k \in 1..Len(inbox') :
          inbox'[j].op # "detach" /\ inbox'[k].op # "detach"
          /\ inbox'[j].who = inbox'[k].who => j = k
    BY <2>1 DEF AskedOnce
  <2> QED BY <2>2, <2>3 DEF AskedOnce
<1>8. HooksAreStale'
  <2> SUFFICES ASSUME NEW k \in 1..Len(inbox'), inbox'[k].op = "detach"
               PROVE  \/ inbox'[k].token < caller'[inbox'[k].who].token
                      \/ caller'[inbox'[k].who].phase = "done"
    BY DEF HooksAreStale
  <2>1. CASE k \in 1..Len(inbox) /\ inbox'[k] = inbox[k]
    <3>1. \/ inbox[k].token < caller[inbox[k].who].token
          \/ caller[inbox[k].who].phase = "done"
      BY <2>1 DEF HooksAreStale
    <3> QED BY <2>1, <3>1, <1>4 DEF Commands
  <2>2. CASE inbox'[k] = cmd
    BY <2>2, <1>2
  <2> QED BY <2>1, <2>2, <1>5
<1> QED BY <1>6, <1>7, <1>8

\* A caller that waits for no reply asks: its mailbox is a new one, with a
\* token no queued hook names.
LEMMA Asked ==
    ASSUME DInv, NEW c \in Callers, NEW op \in Ops \ {"detach"}, NEW from,
           caller[c].phase \in {"idle", "reading"}, Ask(c, op, from)
    PROVE  /\ caller' \in Standings
           /\ \A d \in Callers : d # c => caller'[d] = caller[d] /\ box'[d] = box[d]
           /\ caller'[c].phase \in {"asking", "done"}
           /\ DOMAIN box' = Callers
           /\ AskedOnce' /\ HooksAreStale' /\ inbox' \in Seq(Commands)
<1> USE DEF DInv, Standings
<1> DEFINE cmd == Command(op, c, caller[c].token + 1)
<1>1. inbox \in Seq(Commands) /\ Len(inbox) \in Nat
      /\ \A k \in 1..Len(inbox) : inbox[k] \in Commands
  BY DEF Shapes
<1>2. /\ caller' \in Standings
      /\ \A d \in Callers : d # c => caller'[d] = caller[d] /\ box'[d] = box[d]
      /\ caller'[c].phase \in {"asking", "done"}
      /\ DOMAIN box' = Callers
  <2>1. /\ \A d \in Callers : d # c => box'[d] = box[d]
        /\ DOMAIN box' = Callers
    BY DEF Ask, Shapes
  <2>2. CASE up
    <3> DEFINE again == caller[c].phase = "reading"
               asked == [phase |-> "asking", token |-> caller[c].token + 1,
                         reply |-> None, again |-> again]
    <3>1. caller' = [caller EXCEPT ![c] = asked]
      BY <2>2 DEF Ask
    <3>2. again \in BOOLEAN
      OBVIOUS
    <3>3. caller[c].token + 1 \in Int
      BY DEF Shapes
    <3> HIDE DEF again
    <3>4. asked \in [phase : Phases, token : Int, again : BOOLEAN,
                     reply : {None, "attached", "unavailable"}]
          /\ asked.phase = "asking"
      BY <3>2, <3>3 DEF Phases
    <3> HIDE DEF asked
    <3> QED BY <2>1, <3>1, <3>4 DEF Shapes
  <2>3. CASE ~up
    <3>1. caller' = [caller EXCEPT ![c].phase = "done"]
      BY <2>3 DEF Ask
    <3> QED BY <2>1, <3>1 DEF Shapes, Phases
  <2> QED BY <2>2, <2>3 DEF Shapes
<1>3. CASE up
  <2>1. /\ inbox' = Append(inbox, cmd)
        /\ caller'[c].phase = "asking" /\ caller'[c].token = caller[c].token + 1
    BY <1>3 DEF Ask, Shapes
  <2>2. cmd \in Commands /\ cmd.op = op /\ cmd.who = c /\ op # "detach"
    BY DEF Command, Commands, Ops, Shapes
  <2> HIDE DEF cmd
  <2>3. inbox' \in Seq(Commands)
        /\ \A k \in 1..Len(inbox') :
              \/ k \in 1..Len(inbox) /\ inbox'[k] = inbox[k]
              \/ k = Len(inbox) + 1 /\ inbox'[k] = cmd
    BY <1>1, <2>1, <2>2
  <2>4. \A k \in 1..Len(inbox) : inbox[k].op # "detach" => inbox[k].who # c
    BY <1>1 DEF AskedOnce
  <2>5. AskedOnce'
    <3>1. ASSUME NEW k \in 1..Len(inbox'), inbox'[k].op # "detach"
          PROVE  caller'[inbox'[k].who].phase = "asking"
      <4>1. CASE k \in 1..Len(inbox) /\ inbox'[k] = inbox[k]
        <5>1. inbox[k] \in Commands /\ inbox[k].op # "detach"
          BY <1>1, <3>1, <4>1
        <5>2. caller[inbox[k].who].phase = "asking" /\ inbox[k].who # c
          BY <2>4, <4>1, <5>1 DEF AskedOnce
        <5>3. caller'[inbox[k].who] = caller[inbox[k].who]
          BY <1>2, <5>1, <5>2 DEF Commands
        <5> QED BY <4>1, <5>2, <5>3
      <4>2. CASE inbox'[k] = cmd
        BY <2>1, <2>2, <4>2
      <4> QED BY <4>1, <4>2, <2>3
    <3>2. ASSUME NEW j \in 1..Len(inbox'), NEW k \in 1..Len(inbox'),
                 inbox'[j].op # "detach", inbox'[k].op # "detach",
                 inbox'[j].who = inbox'[k].who
          PROVE  j = k
      BY <2>2, <2>3, <2>4, <3>2 DEF AskedOnce
    <3> QED BY <3>1, <3>2 DEF AskedOnce
  <2>6. HooksAreStale'
    <3> SUFFICES ASSUME NEW k \in 1..Len(inbox'), inbox'[k].op = "detach"
                 PROVE  \/ inbox'[k].token < caller'[inbox'[k].who].token
                        \/ caller'[inbox'[k].who].phase = "done"
      BY DEF HooksAreStale
    <3>1. k \in 1..Len(inbox) /\ inbox'[k] = inbox[k] /\ inbox[k] \in Commands
      BY <1>1, <2>2, <2>3
    <3>2. \/ inbox[k].token < caller[inbox[k].who].token
          \/ caller[inbox[k].who].phase = "done"
      BY <3>1 DEF HooksAreStale
    <3>3. CASE inbox[k].who = c
      <4>1. inbox[k].token < caller[c].token /\ inbox[k].token \in Int
            /\ caller[c].token \in Int
        BY <3>1, <3>2, <3>3 DEF Commands, Shapes
      <4> QED BY <2>1, <3>1, <3>3, <4>1
    <3>4. CASE inbox[k].who # c
      BY <1>2, <3>1, <3>2, <3>4 DEF Commands
    <3> QED BY <3>3, <3>4
  <2> QED BY <1>2, <2>3, <2>5, <2>6
<1>4. CASE ~up
  <2>1. inbox' = inbox /\ caller'[c].phase = "done"
    BY <1>4 DEF Ask, Shapes
  <2>2. \A k \in 1..Len(inbox) : inbox[k].op # "detach" => inbox[k].who # c
    BY <1>1 DEF AskedOnce
  <2>3. AskedOnce'
    BY <1>1, <1>2, <2>1, <2>2 DEF AskedOnce, Commands
  <2>4. HooksAreStale'
    BY <1>1, <1>2, <2>1 DEF HooksAreStale, Commands
  <2> QED BY <1>1, <1>2, <2>1, <2>3, <2>4
<1> QED BY <1>3, <1>4 DEF Shapes

\* Every step of the engine thread keeps the invariant.
LEMMA EngineKeeps ==
    ASSUME DInv,
           TakeCommand \/ EngineStep \/ Cancel \/ RemoveWrite \/ Shutdown
    PROVE  DInv'
<1> USE DEF DInv
<1>1. ASSUME NEW w, NEW facts, up, Dispatch(w, facts),
             UNCHANGED <<caller, answer, cursor, view, inbox, up>>
      PROVE  DInv'
  <2>1. \A c \in Callers : caller[c].phase \in {"answered", "reading"}
            /\ box[c].state = "open" => <<c, caller[c].token>> \in registered
    BY DEF NeverStranded, Held
  <2>2. /\ DOMAIN box' = Callers
        /\ registered' # {} => write'.pending
        /\ \A c \in Callers :
              /\ box[c].state = "open" => <<c, caller[c].token>> \in registered
              /\ box'[c].state = "open"
              => <<c, caller[c].token>> \in registered' /\ write'.pending
    BY <1>1, DispatchKeeps DEF Dispatch
  <2>3. Shapes' /\ AskedOnce' /\ HooksAreStale'
    BY <1>1, <2>2 DEF Shapes, AskedOnce, HooksAreStale
  <2>4. HeldIsLive'
    BY <1>1, <2>2 DEF HeldIsLive
  <2>5. NeverStranded'
    BY <1>1, <2>1, <2>2 DEF NeverStranded, Held
  <2> QED BY <2>3, <2>4, <2>5
<1>2. ASSUME NEW c \in Callers, NEW outcome \in {"attached", "unavailable"}, NEW next,
             inbox # <<>>, c = Head(inbox).who, Head(inbox).op # "detach",
             Reply(c, outcome, next), inbox' = Tail(inbox)
      PROVE  /\ caller' \in Standings
             /\ \A d \in Callers : caller'[d].token = caller[d].token
             /\ \A d \in Callers : d # c => caller'[d] = caller[d]
             /\ AskedOnce' /\ HooksAreStale' /\ inbox' \in Seq(Commands)
  <2>1. /\ caller' \in Standings
        /\ \A d \in Callers : caller'[d].token = caller[d].token
        /\ \A d \in Callers : d # c => caller'[d] = caller[d]
    <3> DEFINE new == [caller[c] EXCEPT !.phase = "answered", !.reply = outcome]
    <3>1. caller' = [caller EXCEPT ![c] = new]
      BY <1>2 DEF Reply
    <3>2. caller[c] \in [phase : Phases, token : Int, again : BOOLEAN,
                         reply : {None, "attached", "unavailable"}]
      BY <1>2 DEF Shapes, Standings
    <3>3. new \in [phase : Phases, token : Int, again : BOOLEAN,
                   reply : {None, "attached", "unavailable"}]
          /\ new.token = caller[c].token
      BY <1>2, <3>2 DEF Phases
    <3> HIDE DEF new
    <3> QED BY <3>1, <3>3 DEF Shapes, Standings
  <2> QED BY <1>2, <2>1, TakenCommand
<1>3. CASE AcceptPublish
  <2> DEFINE c == Head(inbox).who
             holders == registered \cup {<<c, caller[c].token>>}
  <2>1. /\ inbox # <<>> /\ Head(inbox).op # "detach" /\ up /\ up' = up
        /\ Reply(c, "attached", NewCursor) /\ inbox' = Tail(inbox)
    BY <1>3 DEF AcceptPublish, NextCommand
  <2>2. c \in Callers
    BY <2>1, TailOfInbox DEF Commands
  <2>3. PICK w, facts : DispatchTo(holders, w, facts)
    BY <1>3 DEF AcceptPublish
  <2> HIDE DEF c
  <2>4. /\ caller' \in Standings
        /\ \A d \in Callers : caller'[d].token = caller[d].token
        /\ \A d \in Callers : d # c => caller'[d] = caller[d]
        /\ AskedOnce' /\ HooksAreStale' /\ inbox' \in Seq(Commands)
    BY <1>2, <2>1, <2>2 DEF c
  <2>5. /\ DOMAIN box' = Callers
        /\ registered' # {} => write'.pending
        /\ \A d \in Callers :
              /\ box[d].state = "open" => <<d, caller[d].token>> \in holders
              /\ box'[d].state = "open"
              => <<d, caller[d].token>> \in registered' /\ write'.pending
    BY <2>3, DispatchKeeps
  <2>6. \A d \in Callers : caller'[d].phase \in {"answered", "reading"}
            /\ box[d].state = "open" => <<d, caller[d].token>> \in holders
    BY <2>2, <2>4 DEF NeverStranded, Held
  <2>7. NeverStranded'
    BY <2>1, <2>4, <2>5, <2>6 DEF NeverStranded, Held
  <2> QED BY <2>1, <2>4, <2>5, <2>7 DEF Shapes, HeldIsLive
<1>4. ASSUME NEW c \in Callers, NEW page, NEW next, up, UNCHANGED <<write, up>>,
             inbox # <<>>, c = Head(inbox).who, Head(inbox).op # "detach",
             Reply(c, "attached", next), inbox' = Tail(inbox), DeliverPage(c, page)
      PROVE  DInv'
  <2>1. /\ caller' \in Standings
        /\ \A d \in Callers : caller'[d].token = caller[d].token
        /\ \A d \in Callers : d # c => caller'[d] = caller[d]
        /\ AskedOnce' /\ HooksAreStale' /\ inbox' \in Seq(Commands)
    BY <1>2, <1>4
  <2>2. /\ DOMAIN box' = Callers
        /\ \A d \in Callers : d # c => box'[d] = box[d]
        /\ registered \subseteq registered'
        /\ registered' # registered => write.pending
        /\ box'[c].state = "open" => <<c, caller[c].token>> \in registered' /\ write.pending
    <3> DEFINE b == SendAll(box[c], page.facts)
               joins == b.state = "open" /\ ~page.more /\ write.pending
    <3>1. /\ box' = [box EXCEPT ![c] = IF joins THEN b ELSE ProducerGone(b)]
          /\ registered' = IF joins THEN registered \cup {<<c, caller[c].token>>}
                           ELSE registered
      BY <1>4 DEF DeliverPage
    <3>2. ~joins => box'[c].state # "open"
      BY <3>1, GoneIsNotOpen DEF Shapes
    <3> HIDE DEF b
    <3> QED BY <3>1, <3>2 DEF Shapes
  <2>3. NeverStranded'
    <3> SUFFICES ASSUME NEW d \in Callers, caller'[d].phase \in {"answered", "reading"},
                        box'[d].state = "open"
                 PROVE  <<d, caller'[d].token>> \in registered' /\ write'.pending /\ up'
      BY DEF NeverStranded, Held
    <3>1. caller'[d].token = caller[d].token
      BY <2>1
    <3>2. CASE d = c
      BY <1>4, <2>2, <3>1, <3>2
    <3>3. CASE d # c
      BY <1>4, <2>1, <2>2, <3>1, <3>3 DEF NeverStranded, Held
    <3> QED BY <3>2, <3>3
  <2>4. HeldIsLive'
    BY <1>4, <2>2 DEF HeldIsLive
  <2> QED BY <1>4, <2>1, <2>2, <2>3, <2>4 DEF Shapes
<1>5. CASE RepeatPublish
  <2>1. Head(inbox).who \in Callers
    BY <1>5, TailOfInbox DEF RepeatPublish, NextCommand, Commands
  <2> QED BY <1>4, <1>5, <2>1 DEF RepeatPublish, NextCommand
<1>6. CASE Reattach
  <2>1. Head(inbox).who \in Callers
    BY <1>6, TailOfInbox DEF Reattach, NextCommand, Commands
  <2> QED BY <1>4, <1>6, <2>1 DEF Reattach, NextCommand
<1>7. CASE ReattachUnavailable
  <2> DEFINE c == Head(inbox).who
  <2>1. /\ inbox # <<>> /\ Head(inbox).op # "detach" /\ up
        /\ Reply(c, "unavailable", NewCursor) /\ inbox' = Tail(inbox)
        /\ box' = [box EXCEPT ![c] = ProducerGone(@)]
        /\ UNCHANGED <<write, registered, up>>
    BY <1>7 DEF ReattachUnavailable, NextCommand
  <2>2. c \in Callers
    BY <2>1, TailOfInbox DEF Commands
  <2> HIDE DEF c
  <2>3. /\ caller' \in Standings
        /\ \A d \in Callers : caller'[d].token = caller[d].token
        /\ \A d \in Callers : d # c => caller'[d] = caller[d]
        /\ AskedOnce' /\ HooksAreStale' /\ inbox' \in Seq(Commands)
    BY <1>2, <2>1, <2>2 DEF c
  <2>4. /\ DOMAIN box' = Callers /\ box'[c].state # "open"
        /\ \A d \in Callers : d # c => box'[d] = box[d]
    BY <2>1, <2>2, GoneIsNotOpen DEF Shapes
  <2>5. NeverStranded'
    BY <2>1, <2>2, <2>3, <2>4 DEF NeverStranded, Held
  <2> QED BY <2>1, <2>3, <2>4, <2>5 DEF Shapes, HeldIsLive
<1>8. CASE Detach
  <2>1. /\ inbox # <<>> /\ Head(inbox).op = "detach" /\ inbox' = Tail(inbox)
        /\ registered' = registered \ {<<Head(inbox).who, Head(inbox).token>>}
        /\ UNCHANGED <<write, box, caller, answer, cursor, view, up>>
    BY <1>8 DEF Detach, NextCommand
  <2>2. AskedOnce' /\ HooksAreStale' /\ inbox' \in Seq(Commands)
    BY <2>1, TakenCommand DEF Shapes
  <2>3. /\ 1 \in 1..Len(inbox) /\ Head(inbox) = inbox[1] /\ Head(inbox) \in Commands
    BY <2>1, TailOfInbox
  <2>4. /\ Head(inbox).who \in Callers /\ Head(inbox).token \in Int
        /\ \/ Head(inbox).token < caller[Head(inbox).who].token
           \/ caller[Head(inbox).who].phase = "done"
    BY <2>1, <2>3 DEF HooksAreStale, Commands
  <2>5. ASSUME NEW c \in Callers, caller[c].phase \in {"answered", "reading"}, Held(c)
        PROVE  Held(c)'
    <3>1. <<c, caller[c].token>> # <<Head(inbox).who, Head(inbox).token>>
      BY <2>4, <2>5 DEF Shapes, Standings
    <3> QED BY <2>1, <2>5, <3>1 DEF Held
  <2>6. NeverStranded'
    BY <2>1, <2>5 DEF NeverStranded, Held
  <2> QED BY <2>1, <2>2, <2>6 DEF Shapes, HeldIsLive
<1>9. CASE EngineStep \/ Cancel
  BY <1>1, <1>9 DEF EngineStep, LaneStep, Sign, Cancel
<1>10. CASE RemoveWrite
  <2>1. /\ registered' = {}
        /\ box' = [c \in Callers |-> IF Held(c) THEN ProducerGone(box[c]) ELSE box[c]]
        /\ UNCHANGED <<caller, inbox, up>>
    BY <1>10 DEF RemoveWrite
  <2>2. \A c \in Callers : box'[c].state = "open" => ~Held(c) /\ box'[c] = box[c]
    BY <2>1, GoneIsNotOpen
  <2>3. NeverStranded'
    BY <2>1, <2>2 DEF NeverStranded
  <2>4. AskedOnce' /\ HooksAreStale'
    BY <2>1 DEF AskedOnce, HooksAreStale
  <2> QED BY <2>1, <2>3, <2>4 DEF Shapes, HeldIsLive
<1>11. CASE Shutdown
  <2>1. /\ registered' = {} /\ inbox' = <<>> /\ up' = FALSE
        /\ box' = [c \in Callers |-> IF Held(c) \/ caller[c].phase = "asking"
                                     THEN ProducerGone(box[c]) ELSE box[c]]
        /\ caller' = [c \in Callers |->
                         IF caller[c].phase = "asking"
                         THEN [caller[c] EXCEPT !.phase = "done"] ELSE caller[c]]
    BY <1>11 DEF Shutdown
  <2>2. \A c \in Callers : box'[c].state = "open" => ~Held(c) /\ box'[c] = box[c]
    BY <2>1, GoneIsNotOpen
  <2>3. \A c \in Callers :
            /\ caller'[c] \in [phase : Phases, token : Int, again : BOOLEAN,
                               reply : {None, "attached", "unavailable"}]
            /\ caller'[c].phase \in {"answered", "reading"} => caller[c].phase = caller'[c].phase
    BY <2>1 DEF Shapes, Standings, Phases
  <2>4. caller' \in Standings
    BY <2>1, <2>3 DEF Standings
  <2>5. NeverStranded'
    BY <2>2, <2>3 DEF NeverStranded
  <2>6. AskedOnce' /\ HooksAreStale' /\ inbox' \in Seq(Commands)
    BY <2>1 DEF AskedOnce, HooksAreStale
  <2> QED BY <2>1, <2>4, <2>5, <2>6 DEF Shapes, HeldIsLive
<1> QED BY <1>3, <1>5, <1>6, <1>7, <1>8, <1>9, <1>10, <1>11 DEF TakeCommand

\* Every step of a caller keeps the invariant.
LEMMA CallerKeeps ==
    ASSUME DInv, NEW c \in Callers,
           Publish(c) \/ AskResult(c) \/ CallerStep(c) \/ DropStream(c)
    PROVE  DInv'
<1> USE DEF DInv
<1>1. ASSUME NEW op \in Ops \ {"detach"}, NEW from, caller[c].phase \in {"idle", "reading"},
             Ask(c, op, from), UNCHANGED <<write, registered, up>>
      PROVE  DInv'
  <2>1. /\ caller' \in Standings
        /\ \A d \in Callers : d # c => caller'[d] = caller[d] /\ box'[d] = box[d]
        /\ caller'[c].phase \in {"asking", "done"}
        /\ DOMAIN box' = Callers
        /\ AskedOnce' /\ HooksAreStale' /\ inbox' \in Seq(Commands)
    BY <1>1, Asked
  <2>2. NeverStranded'
    BY <1>1, <2>1 DEF NeverStranded, Held
  <2> QED BY <1>1, <2>1, <2>2 DEF Shapes, HeldIsLive
<1>2. ASSUME NEW result, caller[c].phase \in {"answered", "reading"},
             Leave(c, result), UNCHANGED <<write, registered, up>>
      PROVE  DInv'
  <2>1. /\ caller' \in Standings
        /\ \A d \in Callers : d # c => caller'[d] = caller[d]
        /\ caller'[c].phase = "done" /\ caller'[c].token = caller[c].token
        /\ caller[c].token \in Int
    BY <1>2 DEF Leave, Shapes, Standings, Phases
  <2>2. /\ DOMAIN box' = Callers
        /\ \A d \in Callers : d # c => box'[d] = box[d]
    BY <1>2 DEF Leave, Shapes
  <2>3. AskedOnce' /\ HooksAreStale' /\ inbox' \in Seq(Commands)
    BY <1>2, <2>1, HungUp DEF Leave
  <2>4. NeverStranded'
    BY <1>2, <2>1, <2>2 DEF NeverStranded, Held
  <2> QED BY <1>2, <2>1, <2>2, <2>3, <2>4 DEF Shapes, HeldIsLive
<1>3. CASE Publish(c)
  BY <1>1, <1>3 DEF Publish, Ops
<1>4. CASE AskResult(c)
  BY <1>1, <1>4 DEF AskResult, Ops
<1>5. CASE DropStream(c)
  BY <1>2, <1>5 DEF DropStream
<1>6. CASE AtEnd(c)
  BY <1>1, <1>2, <1>6 DEF AtEnd, Ops
<1>7. CASE TakeReply(c)
  <2>1. CASE caller[c].reply = "unavailable" /\ Leave(c, "unavailable")
    BY <1>2, <1>7, <2>1 DEF TakeReply
  <2>2. CASE /\ caller' = [caller EXCEPT ![c].phase = "reading"]
             /\ inbox' = IF caller[c].again THEN Hang(c, caller[c].token - 1) ELSE inbox
             /\ UNCHANGED <<box, answer, cursor, view>>
    <3>1. /\ caller[c].phase = "answered" /\ UNCHANGED <<write, registered, up>>
      BY <1>7 DEF TakeReply
    <3>2. /\ caller' \in Standings
          /\ \A d \in Callers : d # c => caller'[d] = caller[d]
          /\ caller'[c].phase = "reading" /\ caller'[c].token = caller[c].token
          /\ caller[c].token \in Int
      BY <2>2 DEF Shapes, Standings, Phases
    <3>3. caller[c].token - 1 \in Int /\ caller[c].token - 1 < caller'[c].token
      BY <3>2
    <3>4. AskedOnce' /\ HooksAreStale' /\ inbox' \in Seq(Commands)
      BY <2>2, <3>1, <3>2, <3>3, HungUp
    <3>5. NeverStranded'
      BY <2>2, <3>1, <3>2 DEF NeverStranded, Held
    <3> QED BY <2>2, <3>1, <3>2, <3>4, <3>5 DEF Shapes, HeldIsLive
  <2> QED BY <1>7, <2>1, <2>2 DEF TakeReply
<1>8. CASE Read(c)
  <2>1. caller[c].phase = "reading" /\ UNCHANGED <<write, registered, up>>
    BY <1>8 DEF Read
  <2>2. CASE /\ caller' = [caller EXCEPT ![c].phase = "done"]
             /\ box' = [box EXCEPT ![c] = ClosedBox]
             /\ inbox' = Hang(c, caller[c].token)
    <3>1. /\ caller' \in Standings
          /\ \A d \in Callers : d # c => caller'[d] = caller[d]
          /\ caller'[c].phase = "done" /\ caller'[c].token = caller[c].token
          /\ caller[c].token \in Int
      BY <2>2 DEF Shapes, Standings, Phases
    <3>2. /\ DOMAIN box' = Callers
          /\ \A d \in Callers : d # c => box'[d] = box[d]
      BY <2>2 DEF Shapes
    <3>3. AskedOnce' /\ HooksAreStale' /\ inbox' \in Seq(Commands)
      BY <2>1, <2>2, <3>1, HungUp
    <3>4. NeverStranded'
      BY <2>1, <3>1, <3>2 DEF NeverStranded, Held
    <3> QED BY <2>1, <3>1, <3>2, <3>3, <3>4 DEF Shapes, HeldIsLive
  <2>3. CASE box' = [box EXCEPT ![c] = Popped(@)] /\ UNCHANGED <<caller, inbox>>
    <3>1. DOMAIN box' = Callers /\ \A d \in Callers : box'[d].state = box[d].state
      BY <2>3 DEF Popped, Shapes
    <3>2. NeverStranded'
      BY <2>1, <2>3, <3>1 DEF NeverStranded, Held
    <3>3. AskedOnce' /\ HooksAreStale'
      BY <2>3 DEF AskedOnce, HooksAreStale
    <3> QED BY <2>1, <2>3, <3>1, <3>2, <3>3 DEF Shapes, HeldIsLive
  <2> QED BY <1>8, <2>2, <2>3 DEF Read
<1> QED BY <1>3, <1>4, <1>5, <1>6, <1>7, <1>8 DEF CallerStep

\* A caller of `publish`, `reattach_receipt` or `receipt_result` is never
\* left waiting on a mailbox no one can write to: an open mailbox has its
\* sender in the registry of a running engine, for a receipt that is live,
\* and a late DetachReceiptDelivery only ever takes a mailbox already
\* replaced or dropped.
THEOREM NobodyStranded == DeliverySpec => []NeverStranded
<1>1. DeliveryInit => DInv
  BY InitDInv
<1>2. DInv /\ [DeliveryNext]_deliveryVars => DInv'
  <2> SUFFICES ASSUME DInv, [DeliveryNext]_deliveryVars PROVE DInv'
    OBVIOUS
  <2>1. CASE TakeCommand \/ EngineStep \/ Cancel \/ RemoveWrite \/ Shutdown
    BY <2>1, EngineKeeps
  <2>2. CASE \E c \in Callers : Publish(c) \/ AskResult(c) \/ CallerStep(c) \/ DropStream(c)
    BY <2>2, CallerKeeps
  <2>3. CASE UNCHANGED deliveryVars
    BY <2>3 DEF deliveryVars, DInv, Shapes, HeldIsLive, AskedOnce, HooksAreStale,
                NeverStranded, Held
  <2> QED BY <2>1, <2>2, <2>3 DEF DeliveryNext
<1>3. DInv => NeverStranded
  BY DEF DInv
<1> QED BY <1>1, <1>2, <1>3, PTL DEF DeliverySpec
=============================================================================
