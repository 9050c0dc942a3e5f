------------------------- MODULE WritePromiseProofs -------------------------
(***************************************************************************)
(* The promises of WritePromise, for any number of writes and relays.      *)
(*                                                                         *)
(* NotSentIsTrue is not inductive: a write may be retracted while it is    *)
(* signed but addressed to nobody, so the bytes of a signed write must be  *)
(* known to have gone only where it is addressed, and those of a write not *)
(* signed yet nowhere.                                                     *)
(***************************************************************************)
EXTENDS WritePromise, TLAPS

\* The bytes of a write go only where it has been addressed.
SentAsAddressed ==
    \A i \in Intents :
        /\ status[i] \in {"None", "Accepted"} => ~ Reached(i)
        /\ status[i] \in {"Signed", "Settled"} =>
               \A r \in Relays : <<i, r>> \in sent => r \in dest[i]

\* The inductive invariant.
PromiseInv == TypeOK /\ NotSentIsTrue /\ SettledIsDecided /\ SentAsAddressed

-----------------------------------------------------------------------------
\* Initially nothing was accepted and nothing sent.
LEMMA InitPromise == Init => PromiseInv
BY DEF Init, PromiseInv, TypeOK, NotSentIsTrue, SettledIsDecided,
       SentAsAddressed, Reached, Statuses, Verdicts, Pairs

\* Each step of the promise preserves the invariant.
LEMMA StepPromise == PromiseInv /\ [Next]_vars => PromiseInv'
<1> SUFFICES ASSUME PromiseInv, [Next]_vars PROVE PromiseInv'
    OBVIOUS
<1> USE DEF PromiseInv, TypeOK, NotSentIsTrue, SettledIsDecided,
            SentAsAddressed, Reached, Pairs
<1>1. ASSUME NEW i \in Intents, NEW R \in SUBSET (Intents \ {i}), Accept(i, R)
      PROVE  PromiseInv'
  <2>1. PICK end \in [R -> {"NotSent", "Superseded"}] :
            /\ \A j \in R : Reached(j) => end[j] = "Superseded"
            /\ status' = [j \in Intents |-> IF j = i THEN "Accepted"
                                            ELSE IF j \in R THEN end[j]
                                            ELSE status[j]]
        BY <1>1 DEF Accept
  <2>2. /\ status[i] = "None"
        /\ dest' = [j \in Intents |-> IF j \in R THEN {} ELSE dest[j]]
        /\ verdict' = [p \in Pairs |-> IF p[1] \in R THEN "None" ELSE verdict[p]]
        /\ sent' = sent
        BY <1>1 DEF Accept
  <2>3. TypeOK'
        BY <2>1, <2>2 DEF Statuses
  <2>4. NotSentIsTrue'
        BY <2>1, <2>2
  <2>5. SettledIsDecided'
        BY <2>1, <2>2
  <2>6. SentAsAddressed'
        BY <2>1, <2>2
  <2> QED BY <2>3, <2>4, <2>5, <2>6
<1>2. ASSUME NEW i \in Intents, Sign(i) PROVE PromiseInv'
      BY <1>2 DEF Sign, Statuses
<1>3. ASSUME NEW i \in Intents, Retract(i) PROVE PromiseInv'
      BY <1>3 DEF Retract, Statuses
<1>4. ASSUME NEW i \in Intents, NEW R \in SUBSET Relays, Address(i, R)
      PROVE  PromiseInv'
      BY <1>4 DEF Address
<1>5. ASSUME NEW i \in Intents, NEW r \in Relays, Send(i, r)
      PROVE  PromiseInv'
  <2>1. /\ <<i, r>> \in Pairs
        /\ sent' = sent \cup {<<i, r>>}
        /\ UNCHANGED <<status, dest, verdict>>
        /\ status[i] \in {"Signed", "Settled", "Superseded"}
        /\ status[i] # "Superseded" => r \in dest[i]
        BY <1>5 DEF Send
  <2>2. TypeOK' /\ SettledIsDecided'
        BY <2>1
  <2>3. ASSUME NEW j \in Intents, j # i PROVE Reached(j)' <=> Reached(j)
        BY <2>1, <2>3
  <2>4. NotSentIsTrue'
        BY <2>1, <2>3
  <2>5. SentAsAddressed'
        BY <2>1, <2>3
  <2> QED BY <2>2, <2>4, <2>5
<1>6. ASSUME NEW i \in Intents, NEW r \in Relays, NEW v \in Verdicts,
             Decide(i, r, v)
      PROVE  PromiseInv'
      BY <1>6 DEF Decide, Verdicts
<1>7. ASSUME NEW i \in Intents, Settle(i) PROVE PromiseInv'
      BY <1>7 DEF Settle, Statuses
<1>8. CASE UNCHANGED vars
      BY <1>8 DEF vars
<1> QED BY <1>1, <1>2, <1>3, <1>4, <1>5, <1>6, <1>7, <1>8 DEF Next

\* The inductive invariant holds of every behaviour.
THEOREM PromiseHolds == Spec => []PromiseInv
BY InitPromise, StepPromise, PTL DEF Spec

\* A write said not to have been sent was not sent, whatever the number of
\* writes that supersede one another.
THEOREM NotSentHolds == Spec => []NotSentIsTrue
<1>1. PromiseInv => NotSentIsTrue
      BY DEF PromiseInv
<1> QED BY <1>1, PromiseHolds, PTL

\* A settled write has the verdict of every relay it was addressed to.
THEOREM SettledHolds == Spec => []SettledIsDecided
<1>1. PromiseInv => SettledIsDecided
      BY DEF PromiseInv
<1> QED BY <1>1, PromiseHolds, PTL

\* A relay's verdict is final until the whole write is retired.
THEOREM VerdictHolds == Spec => VerdictIsFinal
<1>1. PromiseInv /\ [Next]_vars =>
          [\A p \in Pairs : verdict[p] # "None" =>
              \/ verdict'[p] = verdict[p]
              \/ status'[p[1]] \in {"NotSent", "Superseded"}]_vars
  <2> SUFFICES ASSUME PromiseInv, Next, NEW p \in Pairs, verdict[p] # "None"
               PROVE  \/ verdict'[p] = verdict[p]
                      \/ status'[p[1]] \in {"NotSent", "Superseded"}
      OBVIOUS
  <2>0. p[1] \in Intents /\ p[2] \in Relays /\ p = <<p[1], p[2]>>
        BY DEF Pairs
  <2>1. ASSUME NEW i \in Intents, NEW R \in SUBSET (Intents \ {i}), Accept(i, R)
        PROVE  \/ verdict'[p] = verdict[p]
               \/ status'[p[1]] \in {"NotSent", "Superseded"}
    <3>1. PICK end \in [R -> {"NotSent", "Superseded"}] :
              status' = [j \in Intents |-> IF j = i THEN "Accepted"
                                           ELSE IF j \in R THEN end[j]
                                           ELSE status[j]]
          BY <2>1 DEF Accept
    <3>2. verdict' = [q \in Pairs |-> IF q[1] \in R THEN "None" ELSE verdict[q]]
          BY <2>1 DEF Accept
    <3> QED BY <3>1, <3>2, <2>0
  <2>2. ASSUME NEW i \in Intents, NEW r \in Relays, NEW v \in Verdicts,
               Decide(i, r, v)
        PROVE  verdict'[p] = verdict[p]
        BY <2>2, <2>0 DEF Decide, PromiseInv, TypeOK, Pairs
  <2>3. ASSUME NEW i \in Intents,
               \/ Sign(i) \/ Retract(i) \/ Settle(i)
               \/ \E R \in SUBSET Relays : Address(i, R)
               \/ \E r \in Relays : Send(i, r)
        PROVE  verdict'[p] = verdict[p]
        BY <2>3 DEF Sign, Retract, Settle, Address, Send
  <2> QED BY <2>1, <2>2, <2>3 DEF Next
<1> QED BY <1>1, PromiseHolds, PTL DEF Spec, VerdictIsFinal

\* A write that has ended stays as it ended: no second outcome follows.
THEOREM OutcomeHolds == Spec => OutcomeIsFinal
<1>1. PromiseInv /\ [Next]_vars =>
          [\A i \in Intents : status[i] \in {"Settled", "NotSent", "Superseded"} =>
              status'[i] = status[i]]_vars
  <2> SUFFICES ASSUME PromiseInv, Next, NEW j \in Intents,
                      status[j] \in {"Settled", "NotSent", "Superseded"}
               PROVE  status'[j] = status[j]
      OBVIOUS
  <2>1. ASSUME NEW i \in Intents, NEW R \in SUBSET (Intents \ {i}), Accept(i, R)
        PROVE  status'[j] = status[j]
        BY <2>1 DEF Accept, Live
  <2>2. ASSUME NEW i \in Intents, Sign(i) \/ Retract(i) \/ Settle(i)
        PROVE  status'[j] = status[j]
        BY <2>2 DEF Sign, Retract, Settle, PromiseInv, TypeOK
  <2>3. ASSUME NEW i \in Intents,
               \/ \E R \in SUBSET Relays : Address(i, R)
               \/ \E r \in Relays : Send(i, r)
               \/ \E r \in Relays, v \in Verdicts : Decide(i, r, v)
        PROVE  status'[j] = status[j]
        BY <2>3 DEF Address, Send, Decide
  <2> QED BY <2>1, <2>2, <2>3 DEF Next
<1> QED BY <1>1, PromiseHolds, PTL DEF Spec, OutcomeIsFinal
=============================================================================
