------------------------------ MODULE MCViews -------------------------------
(***************************************************************************)
(* Two parts of reading, one per behaviour: `part` says which moves while  *)
(* the other rests in its first state.                                     *)
(*   "plan"   three relays, two authors, five atoms: two explicit reads of *)
(*            one relay that coalesce only when compiled together, a       *)
(*            limited read, and two overlapping author reads, over         *)
(*            shifting facts and budgets;                                  *)
(*   "views"  live queries over follow and mute lists, notes, an expiring  *)
(*            note and a deletion.                                         *)
(***************************************************************************)
EXTENDS WirePlan, LiveQuery

CONSTANTS A, B, h1, h2, h3, o1, o2

VARIABLE part

Filter(kinds, authors, limit) ==
    [kinds |-> kinds, authors |-> authors, tag |-> None, since |-> None, until |-> None, limit |-> limit]

Atom(routing, filter, evidence) == [routing |-> routing, filter |-> filter, evidence |-> evidence]

Notes == Atom({1, 2}, Filter({1}, None, None), {})
Likes == Atom({1, 2}, Filter({2}, None, None), {})
Peek == Atom({1}, Filter({1}, None, 5), {})
FollowA == Atom(Auto, Filter({1}, {A}, None), {})
HintA == Atom(Auto, Filter({1}, {A}, None), {[relay |-> 3, lane |-> "Hint"]})
FollowAB == Atom(Auto, Filter({1}, {A, B}, None), {})

MCHandle == {h1, h2, h3}

MCAtomsOf == h1 :> {Notes, HintA} @@ h2 :> {Likes, FollowA} @@ h3 :> {Notes, FollowAB, Peek}

MCReresolved == h1 :> {Notes, HintA} @@ h2 :> {Likes, FollowAB} @@ h3 :> {Notes, FollowAB, Peek}

Facts(ra, rb, relays) == [routes |-> (A :> ra @@ B :> rb), app |-> relays, fallback |-> {3}]

MCFacts == {Facts({1}, {2, 3}, {}), Facts({1, 2}, {}, {2})}

Subs(n) == [s \in 1..3 |-> IF s = 1 THEN n ELSE None]

MCBudgets == {[cap |-> 3, subs |-> Subs(None)], [cap |-> 3, subs |-> Subs(1)], [cap |-> 1, subs |-> Subs(2)]}

MCBody ==
    LET event(kind, author, at, order, tags, address, targets) ==
            [kind |-> kind, author |-> author, at |-> at, order |-> order,
             tags |-> tags, address |-> address, targets |-> targets]
    IN  [follow1 |-> event(3, "ann", 1, 1, [p |-> ("bob" :> Nil)], "ann3", {}),
         follow2 |-> event(3, "ann", 2, 2,
                        [p |-> ("bob" :> Nil) @@ ("cat" :> "r2")], "ann3", {}),
         mute    |-> event(10000, "ann", 1, 3, [p |-> ("bob" :> Nil)], "annM", {}),
         bob1    |-> event(1, "bob", 1, 4, <<>>, Nil, {}),
         bob2    |-> event(1, "bob", 2, 5, <<>>, Nil, {}),
         cat1    |-> event(1, "cat", 2, 6, <<>>, Nil, {}),
         retract |-> event(5, "bob", 3, 7, [e |-> ("bob2" :> Nil)], Nil, {"bob2"})]

Select(kinds, fields, limit, relays) ==
    [type |-> "filter", kinds |-> kinds, fields |-> fields, limit |-> limit,
     relays |-> relays]
Listed(kind, strict, relays) ==
    [type |-> "derived", project |-> "p", strict |-> strict, live |-> TRUE,
     inner |-> Select({kind}, <<<<"authors", [type |-> "reactive"]>>>>, Nil, relays)]
Follows == Listed(3, FALSE, {})
Mutes == Listed(10000, TRUE, {"r1"})

MCSelection ==
    [feed   |-> Select({1}, <<<<"authors", Follows>>>>, Nil, {}),
     quiet  |-> Select({1}, <<<<"authors", [type |-> "setop", op |-> "diff",
                                 operands |-> <<Follows, Mutes>>]>>>>, Nil, {}),
     latest |-> Select({1}, <<<<"authors",
                    [type |-> "literal", values |-> {"bob"}]>>>>, 1, {}),
     bobs   |-> Select({1}, <<<<"authors",
                    [type |-> "literal", values |-> {"bob"}]>>>>, Nil, {}),
     notes  |-> Select({1}, <<>>, Nil, {})]

Ask(root) == [root |-> root, strict |-> FALSE, live |-> TRUE]
Single(root) == [branches |-> <<Ask(root)>>, limit |-> Nil]
Both == [branches |-> <<Ask("quiet"), Ask("notes")>>, limit |-> 2]

\* Two observers share a graph that follows two lists and the account.
GraphScene ==
    [asks |-> (o1 :> {Single("feed"), Both}) @@ (o2 :> {Single("quiet"), Single("feed")}),
     batches |-> {<< <<"follow1", "r1">> >>, << <<"follow2", "r1">> >>,
                  << <<"mute", "r1">> >>, << <<"mute", "r2">> >>},
     local |-> {"follow2"}, expiring |-> {}, accounts |-> {"ann", Nil},
     faulty |-> FALSE, breaks |-> FALSE]

\* One observer's rows follow the graph.
FeedScene ==
    [asks |-> (o1 :> {Single("feed"), Both}) @@ (o2 :> {}),
     batches |-> {<< <<"follow1", "r1">>, <<"cat1", "r1">> >>, << <<"bob1", "r1">> >>,
                  << <<"bob2", "r1">>, <<"bob1", "r2">> >>, << <<"mute", "r2">> >>},
     local |-> {"follow2"}, expiring |-> {"cat1"}, accounts |-> {"ann"},
     faulty |-> FALSE, breaks |-> FALSE]

\* Rows come, grow, expire and are deleted under bounded and unbounded reads
\* that may fail.
RowScene ==
    [asks |-> (o1 :> {Single("latest"), Single("notes")}) @@ (o2 :> {}),
     batches |-> {<< <<"bob1", "r1">> >>, << <<"bob2", "r1">>, <<"cat1", "r1">> >>,
                  << <<"bob2", "r2">> >>, << <<"retract", "r1">> >>},
     local |-> {"bob1"}, expiring |-> {"bob1"}, accounts |-> {"ann"},
     faulty |-> TRUE, breaks |-> FALSE]

\* The store fails in the middle of a recompute pass.
BreakScene ==
    [asks |-> (o1 :> {Single("quiet")}) @@ (o2 :> {Single("bobs")}),
     batches |-> {<< <<"follow1", "r1">>, <<"bob1", "r1">> >>,
                  << <<"mute", "r1">>, <<"bob2", "r1">> >>},
     local |-> {}, expiring |-> {}, accounts |-> {"ann", Nil},
     faulty |-> FALSE, breaks |-> TRUE]

MCScene == {GraphScene, FeedScene, RowScene, BreakScene}

\* What is not read is told (ShortfallTold), wherever the plan moves.
PlanTold == part = "plan" => ShortfallTold

MCInit ==
    /\ part \in {"plan", "views"}
    /\ PlanInit /\ LiveInit
    /\ part = "plan" => scene = GraphScene /\ account = "ann"
    /\ part = "views" => facts = Facts({1}, {2, 3}, {}) /\ budget.cap = 3 /\ budget.subs[1] = None

MCNext ==
    /\ UNCHANGED part
    /\ \/ part = "plan" /\ PlanNext /\ UNCHANGED liveVars
       \/ part = "views" /\ LiveNext /\ UNCHANGED planVars

MCSpec == MCInit /\ [][MCNext]_<<part, planVars, liveVars>>
=============================================================================
