-------------------------- MODULE MCWriteLifecycle --------------------------
(***************************************************************************)
(* Instances of WriteLifecycle for TLC.                                    *)
(***************************************************************************)
EXTENDS WriteLifecycle

CONSTANTS r1, r2, alice, bob

\* One write of one author whose second relay is learned late.
LateEarly == [i \in Intents |-> {r1}]
LatePlan == [i \in Intents |-> {r1, r2}]

\* Writes that contend for one relay.
OneRelay == [i \in Intents |-> {r1}]

\* A signed payload for a relay, and a write that has nowhere to go.
NowhereEarly == [i \in Intents |-> IF i = 1 THEN {r1} ELSE {}]

OneAuthor == [i \in Intents |-> alice]
TwoAuthors == [i \in Intents |-> IF i = 1 THEN alice ELSE bob]
NoRetires == [i \in Intents |-> {}]
SecondRetiresFirst == [i \in Intents |-> IF i = 2 THEN {1} ELSE {}]

AliceSession == {<<r1, alice>>}

\* How often a process crashes, a commit fails, a connection drops, the transport
\* refuses an attempt and an AUTH exchange goes astray.
Misfortunes(crash, fault, drop, refuse, auth) ==
    [crash |-> crash, fault |-> fault, drop |-> drop, refuse |-> refuse, auth |-> auth]

App(explicit, presigned, early, plan, retires, budget) ==
    [explicit |-> explicit, presigned |-> presigned, early |-> early, plan |-> plan,
     retires |-> retires, budget |-> budget]

Late(budget) == {App({}, {}, LateEarly, LatePlan, NoRetires, budget)}

CalmApps == Late(Misfortunes(2, 0, 1, 0, 0))
LostApps == Late(Misfortunes(2, 2, 1, 0, 0))
AuthApps == {App({1, 2}, {1, 2}, OneRelay, OneRelay, NoRetires, Misfortunes(0, 0, 1, 0, 1))}

\* Two writes of which one has nowhere to go, while a commit fails; and two of
\* which the second supersedes the first.
FaultApps ==
    {App({}, {1}, NowhereEarly, NowhereEarly, NoRetires, Misfortunes(1, 1, 1, 0, 0)),
     App({1, 2}, {}, OneRelay, OneRelay, SecondRetiresFirst, Misfortunes(1, 0, 1, 1, 0))}
=============================================================================
