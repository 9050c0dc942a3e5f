------------------------------ MODULE Adapters ------------------------------
(***************************************************************************)
(* The work the runtime hands to foreign code and must get back:           *)
(*                                                                         *)
(*  - AUTH policy and AUTH signature tasks, one at a time per relay        *)
(*    session (nmp-runtime/src/auth.rs), driven by the core's AUTH state   *)
(*    machine (nmp-engine/src/core/auth_transport.rs);                     *)
(*  - sign-only operations and their completion threads                    *)
(*    (nmp-runtime/src/sign_event.rs);                                     *)
(*  - the signature a durable write waits for (Effect::RequestSign and the *)
(*    pending_writes of nmp-runtime/src/identity_sessions.rs);             *)
(*  - the capability and account registries these read, and the shutdown   *)
(*    drain of the engine loop and EngineThread::join that end them        *)
(*    (nmp-runtime/src/lib.rs, engine_thread.rs).                          *)
(*                                                                         *)
(* The engine thread, the adapter runtime's tasks, one completion thread   *)
(* per sign-only operation, the adapters and the callers interleave        *)
(* freely; the inbox is the only way back to the engine thread.  A command *)
(* whose sender blocks on the reply is modelled as the engine step that    *)
(* handles it: its place in the queue is wherever the engine takes it.     *)
(*                                                                         *)
(* There is one AUTH session (for SessionKey) and one durable write; both  *)
(* are independent of other sessions and writes in this code.  `left`      *)
(* bounds what the environment may still do.                               *)
(***************************************************************************)
EXTENDS SignerDoor, Sequences, FiniteSets

CONSTANTS Key,             \* public keys
          SessionKey,      \* the key the relay session authenticates as
          NoKey,           \* no current account
          Operation,       \* sign-only operations callers may start
          MaxToken,        \* bound on AUTH operation tokens
          MaxGeneration,   \* bound on sign generations of the write
          MaxInstance,     \* the last capability instance number
          MaxCapabilities, \* max_auth_capabilities
          Scope            \* what the environment may do: the values of quota

ASSUME AdapterConstants ==
    /\ SessionKey \in Key /\ NoKey \notin Key
    /\ MaxToken \in Nat /\ MaxInstance \in Nat /\ MaxCapabilities \in Nat

VARIABLES loop,      \* engine_loop: "running", "draining" (shutting_down), "exited"
          inbox,     \* Sender<Cmd> / cmd_rx
          caps,      \* SignerRegistry, AuthPolicyRegistry, accounts, the instance counter
          authn,     \* the core's AuthSessionState of the session
          sched,     \* AuthTaskRegistry: the active and the pending token (0: none)
          task,      \* the spawned AUTH tasks, by token
          oper,        \* the sign-only operations
          live,      \* ActiveSignEvents.live
          sign,      \* the write's signing state and its pending_writes entries
          quota

adapterVars == <<loop, inbox, caps, authn, sched, task, oper, live, sign, quota>>

Tokens == 1..MaxToken
Generations == 1..MaxGeneration

----------------------------------------------------------------------------
Resting == NewDoor(FALSE)

NoTask == [cap |-> "policy", inst |-> 0, epoch |-> 0, term |-> "Open", armed |-> FALSE,
           pc |-> "none", out |-> "none", door |-> Resting]
NoOp == [pc |-> "none", term |-> "Open", res |-> "none", given |-> "none", called |-> 0,
         caller |-> "held", joined |-> FALSE, door |-> Resting]
NoWait == [pc |-> "none", door |-> Resting]

AdapterInit ==
    /\ loop = "running"
    /\ inbox = <<>>
    /\ quota \in Scope
    /\ caps = [policy |-> [k \in Key |-> IF quota.policy /\ k = SessionKey THEN 1 ELSE 0],
               signer |-> [k \in Key |-> IF quota.signer /\ k = SessionKey THEN 2 ELSE 0],
               account |-> [k \in Key |-> IF quota.signer /\ k = SessionKey THEN "local" ELSE "absent"],
               current |-> IF quota.signer THEN SessionKey ELSE NoKey,
               next |-> 3]
    /\ authn = [phase |-> "none", epoch |-> 0, token |-> 0, policy |-> 0, signer |-> 0,
                minted |-> 0]
    /\ sched = [active |-> 0, pending |-> 0]
    /\ task = [t \in Tokens |-> NoTask]
    /\ oper = [o \in Operation |-> NoOp]
    /\ live = {}
    /\ sign = [phase |-> "none", inflight |-> FALSE, generation |-> 0, tracked |-> {},
               wait |-> [g \in Generations |-> NoWait]]

LoopRuns == loop = "running"
SpendQuota(what) == quota[what] > 0 /\ quota' = [quota EXCEPT ![what] = @ - 1]
Change(kind, k) == kind \in quota.kinds /\ k \in quota.keys /\ SpendQuota("changes")

\* A send on the inbox: lost, and ignored, once the engine thread is gone.
Post(m) == inbox' = IF loop = "exited" THEN inbox ELSE Append(inbox, m)

----------------------------------------------------------------------------
(* AUTH: the core's session state and the runtime's task registry.  Effects *)
(* of one core.handle are dispatched within the step that produced them, so *)
(* both are threaded through one record S.                                  *)

Now == [authn |-> authn, sched |-> sched, task |-> task, out |-> <<>>]

Install(S) ==
    /\ authn' = S.authn
    /\ sched' = S.sched
    /\ task' = S.task

\* AuthTaskTerminal::cancel: one compare-and-set; an armed canceller ends the wait.
CancelTask(r) ==
    IF r.term # "Open" THEN r
    ELSE [r EXCEPT !.term = "Cancelled", !.armed = FALSE,
                   !.door = IF r.armed THEN CancelDoor(@) ELSE @]

CancelActive(S) ==
    IF S.sched.active = 0 THEN S ELSE [S EXCEPT !.task[S.sched.active] = CancelTask(@)]

ForgetPending(S) ==
    IF S.sched.pending = 0 THEN S
    ELSE [S EXCEPT !.task[S.sched.pending] = [NoTask EXCEPT !.pc = "gone"],
                   !.sched.pending = 0]

\* cancel_epoch and cancel_capability cancel the active task and forget the
\* pending one where they match.
CancelWhere(S, Matches(_)) ==
    LET stopped == IF S.sched.active # 0 /\ Matches(S.task[S.sched.active])
                   THEN CancelActive(S) ELSE S
    IN  IF S.sched.pending # 0 /\ Matches(S.task[S.sched.pending])
        THEN ForgetPending(stopped) ELSE stopped

CancelEpoch(S, e) == CancelWhere(S, LAMBDA r : r.epoch = e)
CancelCapability(S, cap, inst) == CancelWhere(S, LAMBDA r : r.cap = cap /\ r.inst = inst)

\* launch_auth_task
Launch(S, t) == [S EXCEPT !.sched.active = t, !.task[t].pc = "spawned"]

\* AuthTaskRegistry::schedule: a busy session cancels its task and keeps only
\* the newest replacement.
ScheduleTask(S, t) ==
    IF S.sched.active = 0 THEN Launch(S, t)
    ELSE [ForgetPending(CancelActive(S)) EXCEPT !.sched.pending = t, !.task[t].pc = "queued"]

\* on_auth_capability_bound
Bind(a, t, cap, inst) ==
    CASE a.phase = "policy" /\ cap = "policy" /\ a.token = t /\ a.policy = 0 ->
           [a EXCEPT !.policy = inst]
      [] a.phase = "signature" /\ cap = "signer" /\ a.token = t /\ a.signer = 0 ->
           [a EXCEPT !.signer = inst]
      [] OTHER -> a

\* dispatch of RequestPolicy and RequestSignature, start_auth_task: the
\* capability registered now is captured, bound to the core's session and run.
Request(S, t, cap) ==
    LET inst == caps[cap][SessionKey] IN
    IF inst = 0 THEN [S EXCEPT !.out = Append(@, [kind |-> "missing", of |-> t])]
    ELSE ScheduleTask([S EXCEPT !.authn = Bind(@, t, cap, inst),
                            !.task[t] = [NoTask EXCEPT !.cap = cap, !.inst = inst,
                                                       !.epoch = S.authn.epoch]], t)

\* invalidate_auth_epoch: the old epoch's task is cancelled.
InvalidateEpoch(S, phase) ==
    LET cancelled == IF S.authn.phase = "none" THEN S ELSE CancelEpoch(S, S.authn.epoch)
    IN  [cancelled EXCEPT !.authn.phase = phase, !.authn.token = 0]

KeepCapability(S, cap, inst) == S

\* on_auth_capability_invalidated
InvalidateCapability(S, cap, inst) ==
    IF S.authn.phase # "none" /\ S.authn[cap] = inst
    THEN InvalidateEpoch(S, "error") ELSE S

\* on_auth_challenge
Challenge ==
    /\ LoopRuns
    /\ authn.minted < MaxToken
    /\ SpendQuota("challenges")
    /\ LET t == authn.minted + 1
           fresh == [phase |-> "policy", epoch |-> authn.epoch + 1, token |-> t,
                     policy |-> 0, signer |-> 0, minted |-> t]
           S == Request([InvalidateEpoch(Now, "none") EXCEPT !.authn = fresh], t, "policy")
       IN  Install(S) /\ inbox' = inbox \o S.out
    /\ UNCHANGED <<loop, caps, oper, live, sign>>

\* on_relay_disconnected, its AUTH part
LoseSession ==
    /\ LoopRuns
    /\ authn.phase # "none"
    /\ SpendQuota("drops")
    /\ Install(InvalidateEpoch(Now, "none"))
    /\ UNCHANGED <<loop, inbox, caps, oper, live, sign>>

\* on_auth_policy_completed and on_auth_signer_completed: an answer counts
\* only for the awaited token, from the bound instance (or from nobody, when
\* no capability was there to bind).
Expected(a, t, inst, out) ==
    /\ a.phase \in {"policy", "signature"}
    /\ a.token = t
    /\ LET bound == IF a.phase = "policy" THEN a.policy ELSE a.signer
       IN  inst = bound /\ (inst = 0 => out = "error")

Answered(S, t, inst, out) ==
    CASE ~Expected(S.authn, t, inst, out) -> S
      [] out = "no" -> [S EXCEPT !.authn.phase = "denied"]
      [] out = "error" -> [S EXCEPT !.authn.phase = "error"]
      [] S.authn.phase = "signature" -> [S EXCEPT !.authn.phase = "sent"]
      [] S.authn.minted = MaxToken -> [S EXCEPT !.authn.phase = "error"]
      [] OTHER -> LET next == S.authn.minted + 1 IN
                  Request([S EXCEPT !.authn.phase = "signature", !.authn.token = next,
                                    !.authn.minted = next], next, "signer")

----------------------------------------------------------------------------
(* The spawned AUTH task (launch_auth_task's async block), step by step.    *)

TaskStep(t, from) == task[t].pc = from /\ UNCHANGED <<loop, caps, authn, sched, oper, live, sign>>

\* The task looks at its terminal before it calls foreign code.
StartTask(t) ==
    /\ TaskStep(t, "spawned")
    /\ task' = [task EXCEPT ![t].pc = IF task[t].term = "Open" THEN "calling" ELSE "ending"]
    /\ UNCHANGED <<inbox, quota>>

\* is_open() after the wait: a cancelled task has no outcome.
Verdict(r, answer) ==
    IF r.term # "Open" \/ (answer = "cancelled" /\ r.cap = "policy") THEN "none"
    ELSE IF answer \in {"yes", "no"} THEN answer ELSE "error"

\* evaluate() or sign() returns its answer at once.
AnswerAtOnce(t, answer) ==
    /\ TaskStep(t, "calling")
    /\ task' = [task EXCEPT ![t].pc = "ending", ![t].out = Verdict(task[t], answer)]
    /\ UNCHANGED <<inbox, quota>>

\* evaluate() or sign() panics: CatchUnwind turns it into an error outcome.
PanicInCall(t) ==
    /\ TaskStep(t, "calling")
    /\ task' = [task EXCEPT ![t].pc = "ending", ![t].out = "error"]
    /\ UNCHANGED <<inbox, quota>>

ArmLate(r) == [r EXCEPT !.armed = TRUE]

\* AuthTaskTerminal::arm: a terminal that was cancelled meanwhile fires the
\* canceller at once instead of keeping it.
Arm(r) ==
    IF r.term = "Cancelled" THEN [r EXCEPT !.door = CancelDoor(@)] ELSE [r EXCEPT !.armed = TRUE]

\* evaluate() or sign() returns a pending operation.
AnswerLater(t) ==
    /\ TaskStep(t, "calling")
    /\ LET r == [task[t] EXCEPT !.pc = "parked",
                               !.door = [NewDoor(task[t].cap = "policy") EXCEPT !.woken = TRUE]]
       IN  task' = [task EXCEPT ![t] = Arm(r)]
    /\ UNCHANGED <<inbox, quota>>

\* The runtime polls the woken task.
PollTask(t) ==
    /\ TaskStep(t, "parked")
    /\ task[t].door.woken
    /\ task' = [task EXCEPT ![t] =
          IF Terminal(@.door) = "open" THEN [@ EXCEPT !.door = ParkDoor(@)]
          ELSE [@ EXCEPT !.pc = "ending", !.out = Verdict(task[t], Terminal(task[t].door)),
                         !.door = Consume(@)]]
    /\ UNCHANGED <<inbox, quota>>

\* complete(): the outcome is reported only by the task that claims the terminal.
ClaimTask(t) ==
    /\ TaskStep(t, "ending")
    /\ task' = [task EXCEPT ![t] =
          IF @.out # "none" /\ @.term = "Open"
          THEN [@ EXCEPT !.term = "Completed", !.pc = "claimed"] ELSE [@ EXCEPT !.pc = "releasing"]]
    /\ UNCHANGED <<inbox, quota>>

ReportTask(t) ==
    /\ TaskStep(t, "claimed")
    /\ task' = [task EXCEPT ![t].pc = "releasing"]
    /\ Post([kind |-> "completed", of |-> t, inst |-> task[t].inst, out |-> task[t].out])
    /\ UNCHANGED quota

\* AuthReleaseGuard::drop
ReleaseTask(t) ==
    /\ TaskStep(t, "releasing")
    /\ task' = [task EXCEPT ![t] = [NoTask EXCEPT !.pc = "gone"]]
    /\ Post([kind |-> "released", of |-> t])
    /\ UNCHANGED quota

\* finish: only the active task's completion reaches the core.
TaskCompleted(m) ==
    LET S == IF sched.active = m.of THEN Answered(Now, m.of, m.inst, m.out) ELSE Now
    IN  Install(S) /\ inbox' = Tail(inbox) \o S.out

\* released, and the launch of the replacement that waited for it.
TaskReleased(t) ==
    LET freed == [Now EXCEPT !.sched = [active |-> 0, pending |-> 0]] IN
    /\ Install(CASE sched.active # t -> Now
                 [] sched.pending = 0 -> freed
                 [] OTHER -> Launch(freed, sched.pending))
    /\ inbox' = Tail(inbox)

----------------------------------------------------------------------------
(* The capability and account registries.                                   *)

Held == Cardinality({k \in Key : caps.policy[k] # 0}) + Cardinality({k \in Key : caps.signer[k] # 0})

\* Room for one more capability: a replacement always has, and an instance is left.
MayAdd(cap, k) == (caps[cap][k] # 0 \/ Held < MaxCapabilities) /\ caps.next <= MaxInstance

\* The registries and the session's accounts.
RegisterPolicy(c, k) == [c EXCEPT !.policy[k] = c.next, !.next = @ + 1]
RegisterSigner(c, k) == [c EXCEPT !.signer[k] = c.next, !.next = @ + 1]
DropPolicy(c, k) == [c EXCEPT !.policy[k] = 0]
DropSigner(c, k) == [c EXCEPT !.signer[k] = 0]
NoteAccount(c, k) == [c EXCEPT !.account[k] = "local"]
MakeCurrent(c, k, current) == [c EXCEPT !.current = IF current THEN k ELSE @]

\* on_signer_attached for the write, and Effect::RequestSign: with a signer
\* for the key the next generation is requested.  `mode` is how the signer
\* takes it: an answer at once, or "later" (awaited by a task, and tracked).
Asks(w, k) == k = SessionKey /\ w.phase = "open" /\ ~w.inflight /\ w.generation < MaxGeneration

RequestSign(w, has, mode) ==
    LET g == w.generation + 1 IN
    [w EXCEPT !.generation = g,
              !.inflight = has,
              !.tracked = IF has /\ mode = "later" THEN @ \union {g} ELSE @,
              !.wait[g] = IF has /\ mode = "later"
                          THEN [pc |-> "parked", door |-> [NewDoor(FALSE) EXCEPT !.woken = TRUE]]
                          ELSE @]

SignReply(w, has, mode) ==
    IF has /\ mode # "later"
    THEN <<[kind |-> "signed", of |-> w.generation + 1, answer |-> mode]>> ELSE <<>>

Attach(k, has, mode) ==
    IF Asks(sign, k)
    THEN sign' = RequestSign(sign, has, mode) /\ inbox' = inbox \o SignReply(sign, has, mode)
    ELSE UNCHANGED <<sign, inbox>>

Modes == {"later"} \union quota.answers

\* Retire the instance a change replaced or removed: its AUTH tasks stop and
\* the core's session that used it falls back.
Retire(S, cap, k, inst) ==
    IF inst = 0 \/ k # SessionKey THEN S
    ELSE InvalidateCapability(CancelCapability(S, cap, inst), cap, inst)

\* Cmd::AddAuthPolicy
AddAuthPolicy(k) ==
    /\ LoopRuns /\ MayAdd("policy", k) /\ Change("policy", k)
    /\ caps' = RegisterPolicy(caps, k)
    /\ Install(Retire(Now, "policy", k, caps.policy[k]))
    /\ UNCHANGED <<loop, inbox, oper, live, sign>>

\* Cmd::RemoveAuthPolicy with the current registration
RemoveAuthPolicy(k) ==
    /\ LoopRuns /\ caps.policy[k] # 0 /\ Change("policy", k)
    /\ caps' = DropPolicy(caps, k)
    /\ Install(Retire(Now, "policy", k, caps.policy[k]))
    /\ UNCHANGED <<loop, inbox, oper, live, sign>>

\* Cmd::AddSigner
AddSigner(k, mode) ==
    /\ LoopRuns /\ MayAdd("signer", k) /\ Change("signer", k)
    /\ caps' = RegisterSigner(caps, k)
    /\ Install(Retire(Now, "signer", k, caps.signer[k]))
    /\ Attach(k, TRUE, mode)
    /\ UNCHANGED <<loop, oper, live>>

\* Cmd::AddPrivateKeyAccount: the key becomes an account too.
AddPrivateKeyAccount(k, current, mode) ==
    /\ LoopRuns /\ MayAdd("signer", k) /\ Change("signer", k)
    /\ caps' = MakeCurrent(NoteAccount(RegisterSigner(caps, k), k), k, current)
    /\ Install(Retire(Now, "signer", k, caps.signer[k]))
    /\ Attach(k, TRUE, mode)
    /\ UNCHANGED <<loop, oper, live>>

\* Cmd::RemoveSigner with the current registration: the account stays.
RemoveSigner(k) ==
    /\ LoopRuns /\ caps.signer[k] # 0 /\ Change("signer", k)
    /\ caps' = DropSigner(caps, k)
    /\ Install(Retire(Now, "signer", k, caps.signer[k]))
    /\ UNCHANGED <<loop, inbox, oper, live, sign>>

\* Cmd::AddPublicKeyAccount: an account that is already there keeps its provider.
AddPublicKeyAccount(k, current) ==
    /\ LoopRuns /\ Change("account", k)
    /\ caps' = MakeCurrent([caps EXCEPT !.account[k] = IF @ = "absent" THEN "public" ELSE @],
                            k, current)
    /\ UNCHANGED <<loop, inbox, authn, sched, task, oper, live, sign>>

\* Cmd::MakeCurrentAccount
MakeCurrentAccount(k) ==
    /\ LoopRuns /\ caps.account[k] # "absent" /\ Change("account", k)
    /\ caps' = MakeCurrent(caps, k, TRUE)
    /\ UNCHANGED <<loop, inbox, authn, sched, task, oper, live, sign>>

\* Cmd::RemoveSessionAccount
RemoveSessionAccount(k) ==
    /\ LoopRuns /\ Change("account", k)
    /\ caps' = [DropSigner(caps, k) EXCEPT !.account[k] = "absent",
                                          !.current = IF @ = k THEN NoKey ELSE @]
    /\ Install(Retire(Now, "signer", k, caps.signer[k]))
    /\ UNCHANGED <<loop, inbox, oper, live, sign>>

\* Cmd::ClearSession
ClearSession ==
    /\ LoopRuns /\ Change("account", SessionKey)
    /\ caps' = [caps EXCEPT !.account = [k \in Key |-> "absent"],
                            !.signer = [k \in Key |-> 0], !.current = NoKey]
    /\ Install(Retire(Now, "signer", SessionKey, caps.signer[SessionKey]))
    /\ UNCHANGED <<loop, inbox, oper, live, sign>>

----------------------------------------------------------------------------
(* Sign-only operations.                                                    *)

OpStep(o, from) == oper[o].pc = from /\ UNCHANGED <<loop, caps, authn, sched, task, sign>>

\* spawn_completion: a fresh thread for the foreign closure, or, when the OS
\* has none left, a dropped closure and a report that the operation is over.
Dispatch(r, ok) == [r EXCEPT !.pc = IF ok THEN "thread" ELSE "lost"]

MaySpawn(ok) == IF ok THEN UNCHANGED quota ELSE SpendQuota("faults")

\* ActiveSignEvents::admit, past its refusals: the current account has a
\* signer, which answers at once or later.
Admit(o, mode, ok) ==
    /\ LoopRuns
    /\ OpStep(o, "none")
    /\ quota.ops > 0
    /\ caps.current # NoKey /\ caps.signer[caps.current] # 0
    /\ live' = live \union {o}
    /\ IF mode = "later"
       THEN /\ ok
            /\ oper' = [oper EXCEPT ![o] = [NoOp EXCEPT !.pc = "waiting", !.door.woken = TRUE]]
            /\ UNCHANGED inbox
       ELSE /\ oper' = [oper EXCEPT ![o] = Dispatch([NoOp EXCEPT !.res = mode], ok)]
            /\ inbox' = IF ok THEN inbox ELSE Append(inbox, [kind |-> "finished", of |-> o])
    /\ ok \/ quota.faults > 0
    /\ quota' = [quota EXCEPT !.ops = @ - 1, !.faults = IF ok THEN @ ELSE @ - 1]

\* The awaiting task is polled; at an end it drops its CompletionDispatch,
\* which spawns the completion with what the signer said.
PollOp(o, ok) ==
    /\ OpStep(o, "waiting")
    /\ oper[o].door.woken
    /\ UNCHANGED live
    /\ IF Terminal(oper[o].door) = "open"
       THEN ok /\ oper' = [oper EXCEPT ![o].door = ParkDoor(@)] /\ UNCHANGED <<inbox, quota>>
       ELSE /\ oper' = [oper EXCEPT ![o] = Dispatch([@ EXCEPT !.res = Terminal(oper[o].door),
                                                       !.door = Consume(@)], ok)]
            /\ IF ok THEN UNCHANGED inbox ELSE Post([kind |-> "finished", of |-> o])
            /\ MaySpawn(ok)

\* EngineThread::join drops the adapter runtime after the engine thread has
\* exited: a task still waiting is dropped, and with it its dispatch guard.
DropWaitingOp(o) ==
    /\ OpStep(o, "waiting")
    /\ loop = "exited"
    /\ oper' = [oper EXCEPT ![o] = Dispatch([@ EXCEPT !.door = DropPending(@)], TRUE)]
    /\ UNCHANGED <<inbox, live, quota>>

DeliverUnclaimed(r) ==
    [r EXCEPT !.given = CASE r.res = "none" -> "cancelled" [] r.res = "yes" -> "signed"
                          [] OTHER -> "failed"]

\* The completion thread: a signer result is delivered only by a thread that
\* claims the terminal; otherwise the caller is told Cancelled.
Deliver(r) ==
    LET won == r.res # "none" /\ r.term = "Open" IN
    [r EXCEPT !.term = IF won THEN "Resolved" ELSE @,
              !.given = CASE ~won -> "cancelled" [] r.res = "yes" -> "signed" [] OTHER -> "failed"]

RunCompletion(o) ==
    /\ OpStep(o, "thread")
    /\ oper' = [oper EXCEPT ![o] = [Deliver(@) EXCEPT !.pc = "calling", !.called = @ + 1]]
    /\ UNCHANGED <<inbox, live, quota>>

\* The foreign completion calls EngineThread::join (which only one caller
\* can: it consumes the thread handle) and blocks there until the engine exits.
JoinFromCompletion(o) ==
    /\ OpStep(o, "calling")
    /\ \A p \in Operation : ~oper[p].joined
    /\ oper' = [oper EXCEPT ![o].pc = "joining", ![o].joined = TRUE]
    /\ Post([kind |-> "exempt", of |-> o])
    /\ UNCHANGED <<live, quota>>

\* The completion returns or panics; FinishedGuard reports either way.
EndCompletion(o) ==
    /\ \/ OpStep(o, "calling")
       \/ OpStep(o, "joining") /\ loop = "exited"
    /\ oper' = [oper EXCEPT ![o].pc = "done", ![o].door = Resting, ![o].res = "none"]
    /\ Post([kind |-> "finished", of |-> o])
    /\ UNCHANGED <<live, quota>>

\* SignEventCancel::cancel (also the drop of an unread SignEventOperation):
\* the compare-and-set first ...
CancelOp(o) ==
    /\ oper[o].pc # "none" /\ oper[o].caller = "held" /\ oper[o].term = "Open"
    /\ oper' = [oper EXCEPT ![o].term = "Cancelled", ![o].caller = "claimed"]
    /\ UNCHANGED <<loop, inbox, caps, authn, sched, task, live, sign, quota>>

\* ... then the winner ends the signer's wait and tells the engine.
SignalCancel(o) ==
    /\ oper[o].caller = "claimed"
    /\ oper' = [oper EXCEPT ![o].caller = "told", ![o].door = CancelDoor(@)]
    /\ Post([kind |-> "cancel", of |-> o])
    /\ UNCHANGED <<loop, caps, authn, sched, task, live, sign, quota>>

\* SignEventTerminal::cancel by the engine thread
CancelTerminal(r) ==
    IF r.term = "Open" THEN [r EXCEPT !.term = "Cancelled", !.door = CancelDoor(@)] ELSE r

\* cancel(id): the operation leaves the drain and its terminal is claimed.
CancelLive(o) ==
    /\ live' = live \ {o}
    /\ oper' = IF o \in live THEN [oper EXCEPT ![o] = CancelTerminal(@)] ELSE oper

\* finish and exempt_from_shutdown_drain
ForgetLive(o) == live' = live \ {o} /\ UNCHANGED oper

----------------------------------------------------------------------------
(* The signature of the durable write.                                      *)

WriteStep == UNCHANGED <<loop, caps, authn, sched, task, oper, live>>

\* A write of the key is accepted (on_publish), or boot recovered it: the
\* signature is requested.
AcceptWrite(mode) ==
    /\ LoopRuns /\ sign.phase = "none" /\ SpendQuota("writes") /\ WriteStep
    /\ LET has == caps.signer[SessionKey] # 0
           open == [sign EXCEPT !.phase = "open"]
       IN  sign' = RequestSign(open, has, mode) /\ inbox' = inbox \o SignReply(open, has, mode)

\* install_semantic_source_successor: the write is materialized again over a
\* newer source while a signature of the old bytes may still be in flight.
RebaseWrite(mode) ==
    /\ LoopRuns /\ sign.phase = "open" /\ sign.generation < MaxGeneration
    /\ SpendQuota("writes") /\ WriteStep
    /\ LET has == caps.signer[SessionKey] # 0
       IN  sign' = RequestSign(sign, has, mode) /\ inbox' = inbox \o SignReply(sign, has, mode)

\* cancel_pending_write: every generation still awaited is cancelled.
CancelPending(w) ==
    [w EXCEPT !.tracked = {},
              !.wait = [g \in Generations |->
                          IF g \in w.tracked THEN [@[g] EXCEPT !.door = CancelDoor(@)] ELSE @[g]]]

\* Cmd::CancelSigning that the core grants
CancelSigning ==
    /\ LoopRuns /\ sign.phase = "open" /\ SpendQuota("writes") /\ WriteStep
    /\ sign' = [CancelPending(sign) EXCEPT !.phase = "closed", !.inflight = FALSE]
    /\ UNCHANGED inbox

\* The task that awaits the signer.
PollWrite(g) ==
    /\ sign.wait[g].pc = "parked" /\ sign.wait[g].door.woken
    /\ WriteStep /\ UNCHANGED quota
    /\ LET d == sign.wait[g].door IN
       IF Terminal(d) = "open"
       THEN sign' = [sign EXCEPT !.wait[g].door = ParkDoor(@)] /\ UNCHANGED inbox
       ELSE /\ sign' = [sign EXCEPT !.wait[g] = [NoWait EXCEPT !.pc = "gone"]]
            /\ Post([kind |-> "signed", of |-> g, answer |-> Terminal(d)])

DropWaitingWrite(g) ==
    /\ loop = "exited" /\ sign.wait[g].pc = "parked"
    /\ sign' = [sign EXCEPT !.wait[g] = [NoWait EXCEPT !.pc = "gone"]]
    /\ WriteStep /\ UNCHANGED <<inbox, quota>>

\* finish_pending_write, then on_signer_completed: only the current, in-flight
\* generation counts.  A signature or a terminal refusal settles signing (and
\* its receipt cancels whatever else is awaited); any other error leaves the
\* write waiting and looks for a signer that is available again.
Signed(g, answer) ==
    LET w == [sign EXCEPT !.tracked = @ \ {g}]
        expected == w.phase = "open" /\ w.inflight /\ w.generation = g
    IN  IF ~expected THEN sign' = w /\ inbox' = Tail(inbox)
        ELSE IF answer \in {"yes", "no"}
        THEN sign' = [CancelPending(w) EXCEPT !.phase = "closed", !.inflight = FALSE]
             /\ inbox' = Tail(inbox)
        ELSE /\ sign' = [w EXCEPT !.inflight = FALSE]
             /\ inbox' = IF caps.signer[SessionKey] # 0
                         THEN Append(Tail(inbox), [kind |-> "attached", of |-> SessionKey])
                         ELSE Tail(inbox)

----------------------------------------------------------------------------
(* The adapters: whoever holds the sending half of an awaited door.         *)

AdapterMoves(Can(_), Turned(_)) ==
    /\ UNCHANGED <<loop, inbox, caps, authn, sched, live, quota>>
    /\ \/ \E t \in Tokens :
             /\ task[t].pc = "parked" /\ Can(task[t].door)
             /\ task' = [task EXCEPT ![t].door = Turned(@)]
             /\ UNCHANGED <<oper, sign>>
       \/ \E o \in Operation :
             /\ oper[o].pc = "waiting" /\ Can(oper[o].door)
             /\ oper' = [oper EXCEPT ![o].door = Turned(@)]
             /\ UNCHANGED <<task, sign>>
       \/ \E g \in Generations :
             /\ sign.wait[g].pc = "parked" /\ Can(sign.wait[g].door)
             /\ sign' = [sign EXCEPT !.wait[g].door = Turned(@)]
             /\ UNCHANGED <<task, oper>>

Serving(d) == d.senders > 0 /\ Unspent(d)
Holding(d) == d.senders > 0
Closing(d) == d.closing

AdapterAnswers(answer) == AdapterMoves(Serving, LAMBDA d : ResolveDoor(d, answer))
AdapterLeaves == AdapterMoves(Holding, ReleaseSender)
AdapterLeft == AdapterMoves(Closing, LastSenderWakes)

----------------------------------------------------------------------------
(* The engine loop and its shutdown drain.                                  *)

\* foreign_work_drained
Drained(s, l) == s.active = 0 /\ s.pending = 0 /\ l = {}

\* One command taken while the engine runs.
TakeCommand ==
    /\ LoopRuns
    /\ inbox # <<>>
    /\ UNCHANGED <<loop, caps, quota>>
    /\ LET m == Head(inbox)
           quiet == UNCHANGED <<authn, sched, task>>
       IN  CASE m.kind = "completed" -> TaskCompleted(m) /\ UNCHANGED <<oper, live, sign>>
             [] m.kind = "missing" ->
                  /\ Install(Answered(Now, m.of, 0, "error"))
                  /\ inbox' = Tail(inbox)
                  /\ UNCHANGED <<oper, live, sign>>
             [] m.kind = "released" -> TaskReleased(m.of) /\ UNCHANGED <<oper, live, sign>>
             [] m.kind = "cancel" -> CancelLive(m.of) /\ inbox' = Tail(inbox) /\ quiet /\ UNCHANGED sign
             [] m.kind \in {"finished", "exempt"} ->
                  ForgetLive(m.of) /\ inbox' = Tail(inbox) /\ quiet /\ UNCHANGED sign
             [] m.kind = "signed" -> Signed(m.of, m.answer) /\ quiet /\ UNCHANGED <<oper, live>>
             [] OTHER ->
                  LET has == caps.signer[SessionKey] # 0 IN
                  /\ quiet /\ UNCHANGED <<oper, live>>
                  /\ IF Asks(sign, SessionKey)
                     THEN \E mode \in Modes :
                            /\ sign' = RequestSign(sign, has, mode)
                            /\ inbox' = Tail(inbox) \o SignReply(sign, has, mode)
                     ELSE inbox' = Tail(inbox) /\ UNCHANGED sign

\* Cmd::Shutdown: every AUTH task, awaited signature and sign-only operation
\* is cancelled; the loop goes on only to hear that foreign code has ended.
Shutdown ==
    /\ LoopRuns
    /\ quota.shutdown
    /\ LET S == ForgetPending(CancelActive(Now)) IN
       /\ Install(S)
       /\ loop' = IF Drained(S.sched, live) THEN "exited" ELSE "draining"
    /\ oper' = [o \in Operation |-> IF o \in live THEN CancelTerminal(oper[o]) ELSE oper[o]]
    /\ sign' = CancelPending(sign)
    /\ inbox' = IF loop' = "exited" THEN <<>> ELSE inbox
    /\ UNCHANGED <<caps, live, quota>>

\* A caller's cancel or a finished completion: both take the operation out of
\* the drain.
DrainOp(o) == CancelLive(o)

\* One command taken while draining; the loop ends when nothing is left, and
\* whatever is still queued goes unread.
DrainCommand ==
    /\ loop = "draining"
    /\ inbox # <<>>
    /\ LET m == Head(inbox) IN
       /\ IF m.kind = "released" /\ sched.active = m.of
          THEN sched' = [active |-> 0, pending |-> 0] ELSE UNCHANGED sched
       /\ CASE m.kind \in {"cancel", "finished"} -> DrainOp(m.of)
            [] m.kind = "exempt" -> ForgetLive(m.of)
            [] OTHER -> UNCHANGED <<oper, live>>
    /\ loop' = IF Drained(sched', live') THEN "exited" ELSE "draining"
    /\ inbox' = IF loop' = "exited" THEN <<>> ELSE Tail(inbox)
    /\ UNCHANGED <<caps, authn, task, sign, quota>>

----------------------------------------------------------------------------
TaskNext(t) ==
    \/ StartTask(t) \/ PanicInCall(t) \/ AnswerLater(t) \/ PollTask(t)
    \/ ClaimTask(t) \/ ReportTask(t) \/ ReleaseTask(t)
    \/ \E answer \in quota.answers : AnswerAtOnce(t, answer)

OpNext(o) ==
    \/ RunCompletion(o) \/ JoinFromCompletion(o) \/ EndCompletion(o) \/ DropWaitingOp(o)
    \/ CancelOp(o) \/ SignalCancel(o)
    \/ \E ok \in BOOLEAN : PollOp(o, ok) \/ \E mode \in Modes : Admit(o, mode, ok)

ChangeNext(k) ==
    \/ AddAuthPolicy(k) \/ RemoveAuthPolicy(k) \/ RemoveSigner(k)
    \/ MakeCurrentAccount(k) \/ RemoveSessionAccount(k)
    \/ \E current \in BOOLEAN :
         \/ AddPublicKeyAccount(k, current)
         \/ \E mode \in Modes : AddPrivateKeyAccount(k, current, mode)
    \/ \E mode \in Modes : AddSigner(k, mode)

WriteNext ==
    \/ CancelSigning
    \/ \E mode \in Modes : AcceptWrite(mode) \/ RebaseWrite(mode)
    \/ \E g \in Generations : PollWrite(g) \/ DropWaitingWrite(g)

AdapterNext ==
    \/ Challenge \/ LoseSession \/ ClearSession
    \/ TakeCommand \/ Shutdown \/ DrainCommand
    \/ AdapterLeaves \/ AdapterLeft \/ \E answer \in quota.answers : AdapterAnswers(answer)
    \/ \E t \in Tokens : TaskNext(t)
    \/ \E o \in Operation : OpNext(o)
    \/ \E k \in Key : ChangeNext(k)
    \/ WriteNext

\* Fairness.  The engine thread takes what is in its inbox; the adapter
\* runtime polls woken tasks; completion threads run; a caller inside cancel()
\* and a sender inside its drop finish; foreign calls (evaluate, sign, the
\* completion) return.  Adapters owe nothing: they may never answer.
\* Each is weak fairness, written with its enabling condition.
TaskReady(t) ==
    task[t].pc \in {"spawned", "calling", "ending", "claimed", "releasing"}
      \/ (task[t].pc = "parked" /\ task[t].door.woken)
ThreadReady(o) ==
    \/ oper[o].pc \in {"thread", "calling"}
    \/ oper[o].pc = "joining" /\ loop = "exited"
WaitReady(o) == oper[o].pc = "waiting" /\ (oper[o].door.woken \/ loop = "exited")

AdapterFairness ==
    /\ ([]<>(inbox = <<>> \/ loop = "exited")) \/ []<><<TakeCommand \/ DrainCommand>>_adapterVars
    /\ \A t \in Tokens : ([]<>~TaskReady(t)) \/ []<><<TaskNext(t)>>_adapterVars
    /\ \A o \in Operation :
         /\ ([]<>~ThreadReady(o)) \/ []<><<RunCompletion(o) \/ EndCompletion(o) \/ JoinFromCompletion(o)>>_adapterVars
         /\ ([]<>~WaitReady(o)) \/ []<><<DropWaitingOp(o) \/ \E ok \in BOOLEAN : PollOp(o, ok)>>_adapterVars
         /\ ([]<>(oper[o].caller # "claimed")) \/ []<><<SignalCancel(o)>>_adapterVars
    /\ ([]<>(\A t \in Tokens : ~task[t].door.closing)) \/ []<><<AdapterLeft>>_adapterVars

AdapterSpec == AdapterInit /\ [][AdapterNext]_adapterVars /\ AdapterFairness

----------------------------------------------------------------------------
(* Properties.                                                              *)

\* The messages of one kind that name n are in the inbox.
Queued(kind, n) == \E i \in 1..Len(inbox) : inbox[i].kind = kind /\ inbox[i].of = n

\* Foreign work is accounted for exactly.  At most one AUTH task per session
\* is between its launch and its release (launch_auth_task's serialization),
\* and the registry names it.  A sign-only completion is called at most once,
\* and gets a signature only if it claimed the terminal before any cancel.
\* The core believes a signature is in flight exactly as long as one is
\* awaited or on its way (so a write can neither be stuck unsigned nor be
\* asked for twice), and pending_writes holds no canceller of an ended wait.
\* No adapter's cancel hook runs twice, or after its answer was consumed.
ForeignExact ==
    /\ \A t \in Tokens : task[t].pc \notin {"none", "queued", "gone"} => sched.active = t
    /\ \A o \in Operation :
         /\ oper[o].called <= 1
         /\ oper[o].given = "signed" => oper[o].term = "Resolved"
         /\ DoorHonest(oper[o].door, oper[o].res \in {"yes", "no"})
    /\ \A t \in Tokens : DoorHonest(task[t].door, task[t].out \in {"yes", "no"})
    /\ LoopRuns =>
         /\ sign.inflight => \/ sign.wait[sign.generation].pc = "parked"
                            \/ Queued("signed", sign.generation)
         /\ \A g \in sign.tracked : sign.wait[g].pc = "parked" \/ Queued("signed", g)

\* When the engine thread has exited (foreign_work_drained), no AUTH task is
\* left, and no sign-only completion is still to run or running, with two
\* exceptions.  One is meant: the operation whose completion is inside join().
\* The other is not what is_drained says ("No operation of this lifecycle can
\* still run foreign code"): an operation whose caller cancelled it has left
\* `live` with the caller's message (cancel), before its completion thread ran,
\* so shutdown does not wait for that completion.
QuietAtExit ==
    loop = "exited" =>
        /\ \A t \in Tokens : task[t].pc \in {"none", "gone"}
        /\ \A o \in Operation : \/ oper[o].pc \in {"none", "done", "lost"}
                                \/ oper[o].caller = "told"
                                \/ oper[o].joined

\* The core never moves on the word of a capability that was replaced or
\* removed: an allowed policy or a usable signature comes from the instance
\* registered at that moment, even if the old one had already answered.
VerdictCurrent ==
    [][/\ (authn.phase = "policy" /\ authn'.phase = "signature"
              => authn.policy # 0 /\ caps.policy[SessionKey] = authn.policy)
       /\ (authn.phase = "signature" /\ authn'.phase = "sent"
              => authn.signer # 0 /\ caps.signer[SessionKey] = authn.signer)]_adapterVars

\* The core waits for AUTH token t, and what it waits for is the adapter.
Awaits(t) == authn.phase \in {"policy", "signature"} /\ authn.token = t
AdapterOwes(t) == task[t].pc = "parked" /\ Terminal(task[t].door) = "open"

\* Everything ends, whether or not adapters ever answer, as long as the foreign
\* calls themselves return (AdapterFairness: a completion that blocks for good
\* keeps shutdown open, by design).  A shutdown that began completes
\* (a completion may be inside join() itself); a cancelled or abandoned
\* sign-only operation reaches its caller; and an AUTH session that waits
\* forever waits for an adapter that holds its request, never for the
\* runtime's own hand-over between tasks.
ForeignEnds ==
    /\ (loop = "draining") ~> (loop = "exited")
    /\ \A o \in Operation :
         (oper[o].pc # "none" /\ (oper[o].caller = "told" \/ loop = "exited"))
           ~> (oper[o].called = 1 \/ oper[o].pc = "lost")
    /\ \A t \in Tokens : []<>(~Awaits(t) \/ AdapterOwes(t) \/ ~LoopRuns)

\* Foreign work is accounted for while the engine runs, and over when it exits,
\* the completions of cancelled operations excepted (see QuietAtExit).
ForeignSound == ForeignExact /\ QuietAtExit

=============================================================================
