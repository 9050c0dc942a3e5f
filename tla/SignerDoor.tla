----------------------------- MODULE SignerDoor -----------------------------
(***************************************************************************)
(* The one-shot completion slot between an adapter (a remote signer, an    *)
(* app's AUTH policy) and the engine task that awaits its answer:          *)
(* nmp-signer/src/op.rs (Door, PendingSignerSender, Canceller,             *)
(* PendingSignerOp) and its twin for AUTH policies in                      *)
(* nmp-runtime/src/auth.rs (PolicyDoor, PendingAuthPolicyOp).              *)
(*                                                                         *)
(* A door is a record: the lifecycle, the stored answer ("none" once       *)
(* taken), the number of live senders, whether a consumer's waker is       *)
(* parked and whether it was fired, how often the adapter's cancel hook    *)
(* ran, and whether the consumer is finished.  The two doors differ in     *)
(* three places, all decided by d.keeps: the policy door keeps an answer   *)
(* that was stored before a cancellation, and its consumer's drop spares   *)
(* the hook when an answer was already stored.                             *)
(***************************************************************************)
EXTENDS Naturals

NewDoor(keeps) ==
    [life |-> "Open", answer |-> "none", senders |-> 1, waker |-> FALSE,
     woken |-> FALSE, closing |-> FALSE, hook |-> 0, finished |-> FALSE, keeps |-> keeps]

\* take_waker(), then wake() once the lock is released.
WakeDoor(d) == [d EXCEPT !.waker = FALSE, !.woken = @ \/ d.waker]

Unspent(d) == d.life \in {"Open", "CancelledUnresolved", "GoneUnresolved"}

\* PendingSignerSender::resolve: the first claim of an open door is stored and
\* wakes the consumer; a claim that lost to a cancellation is only recorded.
ResolveDoor(d, answer) ==
    CASE d.life = "Open" -> WakeDoor([d EXCEPT !.life = "Resolved", !.answer = answer])
      [] d.life = "CancelledUnresolved" -> [d EXCEPT !.life = "CancelledResolved"]
      [] d.life = "GoneUnresolved" -> [d EXCEPT !.life = "GoneResolved"]
      [] OTHER -> d

\* PendingSignerSender::drop, in its two steps: the count falls outside the
\* lock; the last sender then takes the lock and wakes an unanswered consumer.
ReleaseSender(d) == [d EXCEPT !.senders = @ - 1, !.closing = d.senders = 1]
LastSenderWakes(d) == LET closed == [d EXCEPT !.closing = FALSE] IN
                      IF Unspent(d) THEN WakeDoor(closed) ELSE closed

\* Canceller::cancel discards a stored answer; PolicyCanceller::cancel keeps it.
CancelLife(d) ==
    CASE d.life = "Open" -> [d EXCEPT !.life = "CancelledUnresolved"]
      [] d.life = "Resolved" -> [d EXCEPT !.life = "CancelledResolved"]
      [] OTHER -> d
CancelSigner(d) == WakeDoor([CancelLife(d) EXCEPT !.answer = "none"])
CancelPolicy(d) == WakeDoor(CancelLife(d))
CancelDoor(d) == IF d.keeps THEN CancelPolicy(d) ELSE CancelSigner(d)

ReceiverGone(d) ==
    [d EXCEPT !.life = IF Unspent(d) THEN "GoneUnresolved" ELSE "GoneResolved",
              !.answer = "none"]

\* take_terminal: what the consumer would be told, or "open".  An answer that
\* was already taken reads as a disconnection.
SignerTerminal(d) ==
    CASE d.life = "Resolved" -> IF d.answer = "none" THEN "disconnected" ELSE d.answer
      [] d.life \in {"CancelledUnresolved", "CancelledResolved"} -> "cancelled"
      [] d.life = "Open" /\ d.senders > 0 -> "open"
      [] OTHER -> "disconnected"
PolicyTerminal(d) ==
    IF d.life = "CancelledResolved" /\ d.answer # "none" THEN d.answer ELSE SignerTerminal(d)
Terminal(d) == IF d.keeps THEN PolicyTerminal(d) ELSE SignerTerminal(d)

\* The mutable borrow of take_terminal empties the slot.
TakeTerminal(d) == [d EXCEPT !.answer = "none"]

\* finish: the hook runs at most once, and only for a cancellation.
Finish(d, cancels) ==
    [d EXCEPT !.finished = TRUE, !.hook = IF ~d.finished /\ cancels THEN @ + 1 ELSE @]

\* PendingSignerOp::drop and PendingAuthPolicyOp::drop: the sender must learn
\* that nobody listens, and an adapter still at work is told to stop.
DropSignerOp(d) == Finish(ReceiverGone(d), TRUE)
DropPolicyOp(d) ==
    CASE d.finished -> d
      [] ~d.finished /\ d.answer # "none" -> Finish(ReceiverGone(d), FALSE)
      [] OTHER -> ReceiverGone(Finish(d, TRUE))
DropPending(d) == IF d.keeps THEN DropPolicyOp(d) ELSE DropSignerOp(d)

\* poll_recv that finds an end: the answer is taken, the consumer finished and
\* (the future is consumed) dropped.
Consume(d) ==
    DropPending(Finish(TakeTerminal([d EXCEPT !.waker = FALSE]), Terminal(d) = "cancelled"))

\* poll_recv that finds none: the waker is parked under the lock.
ParkDoor(d) == [d EXCEPT !.waker = TRUE, !.woken = FALSE]

\* A door's cancel hook runs at most once, and never for a consumer that got
\* an answer (`got`).
DoorHonest(d, got) ==
    /\ d.hook <= 1
    /\ got => d.hook = 0
=============================================================================
