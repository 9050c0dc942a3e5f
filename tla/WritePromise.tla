---------------------------- MODULE WritePromise ----------------------------
(***************************************************************************)
(* What an application is promised about its writes, free of stores,       *)
(* sessions, retries and restarts: the vocabulary of WriteFact and         *)
(* WriteOutcome in nmp-engine's publish queue.                             *)
(*                                                                         *)
(* A write is accepted, signed and addressed to relays.  Each relay it is  *)
(* addressed to reaches one verdict, for good, and the write settles when  *)
(* the set of relays is closed and each has its verdict.  A write that is  *)
(* said not to have been sent was not sent and never will be.              *)
(***************************************************************************)
CONSTANTS Intents, Relays

VARIABLES
    status,     \* where each write stands
    dest,       \* the relays each write is addressed to
    verdict,    \* how each of them ended
    sent        \* the writes whose bytes left, by relay

vars == <<status, dest, verdict, sent>>

Statuses == {"None", "Accepted", "Signed", "Settled", "NotSent", "Superseded"}
Verdicts == {"Answered", "GaveUp", "AuthDenied"}
Pairs == Intents \X Relays

Init ==
    /\ status = [i \in Intents |-> "None"]
    /\ dest = [i \in Intents |-> {}]
    /\ verdict = [p \in Pairs |-> "None"]
    /\ sent = {}

Reached(i) == \E r \in Relays : <<i, r>> \in sent
Live(i) == status[i] \in {"Accepted", "Signed"}

\* A write is accepted and retires the live writes of R.  The receipt of a
\* retired write may claim it was not sent only if it was not.
Accept(i, R) ==
    /\ status[i] = "None"
    /\ \A j \in R : Live(j)
    /\ \E end \in [R -> {"NotSent", "Superseded"}] :
        /\ \A j \in R : Reached(j) => end[j] = "Superseded"
        /\ status' = [j \in Intents |-> IF j = i THEN "Accepted"
                                        ELSE IF j \in R THEN end[j]
                                        ELSE status[j]]
    /\ dest' = [j \in Intents |-> IF j \in R THEN {} ELSE dest[j]]
    /\ verdict' = [p \in Pairs |-> IF p[1] \in R THEN "None" ELSE verdict[p]]
    /\ UNCHANGED sent

Sign(i) ==
    /\ status[i] = "Accepted"
    /\ status' = [status EXCEPT ![i] = "Signed"]
    /\ UNCHANGED <<dest, verdict, sent>>

\* The signer refused, the application cancelled, or there is nowhere to go.
Retract(i) ==
    /\ \/ status[i] = "Accepted"
       \/ status[i] = "Signed" /\ dest[i] = {}
    /\ status' = [status EXCEPT ![i] = "NotSent"]
    /\ UNCHANGED <<dest, verdict, sent>>

Address(i, R) ==
    /\ status[i] = "Signed"
    /\ dest' = [dest EXCEPT ![i] = @ \cup R]
    /\ UNCHANGED <<status, verdict, sent>>

\* The bytes leave.  A write that ended while an attempt was under way may
\* still go out; one that was called not sent may not.
Send(i, r) ==
    /\ status[i] \in {"Signed", "Settled", "Superseded"}
    /\ status[i] # "Superseded" => r \in dest[i]
    /\ sent' = sent \cup {<<i, r>>}
    /\ UNCHANGED <<status, dest, verdict>>

\* Only a relay that was reached can answer.
Decide(i, r, v) ==
    /\ status[i] = "Signed"
    /\ r \in dest[i]
    /\ verdict[<<i, r>>] = "None"
    /\ v = "Answered" => <<i, r>> \in sent
    /\ verdict' = [verdict EXCEPT ![<<i, r>>] = v]
    /\ UNCHANGED <<status, dest, sent>>

Settle(i) ==
    /\ status[i] = "Signed"
    /\ dest[i] # {}
    /\ \A r \in dest[i] : verdict[<<i, r>>] # "None"
    /\ status' = [status EXCEPT ![i] = "Settled"]
    /\ UNCHANGED <<dest, verdict, sent>>

Next ==
    \E i \in Intents :
        \/ \E R \in SUBSET (Intents \ {i}) : Accept(i, R)
        \/ Sign(i)
        \/ Retract(i)
        \/ \E R \in SUBSET Relays : Address(i, R)
        \/ \E r \in Relays : Send(i, r)
        \/ \E r \in Relays, v \in Verdicts : Decide(i, r, v)
        \/ Settle(i)

Spec == Init /\ [][Next]_vars

-----------------------------------------------------------------------------
\* Every variable holds a value of its kind.
TypeOK ==
    /\ status \in [Intents -> Statuses]
    /\ dest \in [Intents -> SUBSET Relays]
    /\ verdict \in [Pairs -> Verdicts \cup {"None"}]
    /\ sent \subseteq Pairs

\* A write reported as not sent (cancelled, refused by its signer, superseded
\* with proof, or without a destination) reached no relay.
NotSentIsTrue == \A i \in Intents : status[i] = "NotSent" => ~ Reached(i)

\* WriteOutcome::Settled: the destination set is closed and every relay in it
\* has its verdict; a relay that answered was sent the event.
SettledIsDecided ==
    /\ \A i \in Intents : status[i] = "Settled" =>
           dest[i] # {} /\ \A r \in dest[i] : verdict[<<i, r>>] # "None"
    /\ \A p \in Pairs : verdict[p] = "Answered" => p \in sent

\* RelayState::is_terminal: a verdict is the last fact about its relay; only
\* the retirement of the whole write takes it away.
VerdictIsFinal ==
    [][\A p \in Pairs : verdict[p] # "None" =>
        \/ verdict'[p] = verdict[p]
        \/ status'[p[1]] \in {"NotSent", "Superseded"}]_vars

\* Exactly one outcome ends a write: a write that has ended never moves again.
OutcomeIsFinal ==
    [][\A i \in Intents : status[i] \in {"Settled", "NotSent", "Superseded"} =>
        status'[i] = status[i]]_vars
=============================================================================
