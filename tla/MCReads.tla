------------------------------ MODULE MCReads -------------------------------
(***************************************************************************)
(* Two readers of relays and store, one per behaviour: `part` says which   *)
(* moves while the other rests in its first state.                         *)
(*   "requests"  a relay that is public in two profiles and authenticates  *)
(*               in the others, two reads that coalesce when recompiled    *)
(*               together, one that repeats a read within an age;          *)
(*   "window"    history windows over four posts, two of them equally old: *)
(*               one of two rows under inserts, removals and replacements, *)
(*               one growing under inserts and removals, one whose query   *)
(*               changes shape, a pinned one, one of two branches, and one *)
(*               that grows three times.                                   *)
(***************************************************************************)
EXTENDS ReadRequests, HistoryWindow

CONSTANTS h1, h2, h3, A, B

VARIABLE part

Filter(kinds, limit) ==
    [kinds |-> kinds, authors |-> None, tag |-> None, since |-> None, until |-> None, limit |-> limit]

Atom(relays, filter) == [routing |-> relays, filter |-> filter, evidence |-> {}]

Notes == Atom({1}, Filter({1}, None))
Likes == Atom({1}, Filter({2}, None))

Scope(atoms, fresh, age) == [atoms |-> atoms, fresh |-> fresh, age |-> age]

MCHandle == {h1, h2, h3}

MCScopesOf == h1 :> {Scope({Notes}, "Live", 0)} @@ h2 :> {Scope({Likes}, "Live", 0)}
              @@ h3 :> {Scope({Notes}, "MaxAge", 0), Scope({Likes}, "CacheOnly", 0)}

NoAtoms == [h \in Handle |-> {}]

Facts(app) == [routes |-> <<>>, app |-> app, fallback |-> {}]

OneFact == {Facts({})}

Profile(bound, gens, challenges, handles) ==
    [bound |-> bound, gens |-> gens, challenges |-> challenges, handles |-> handles]

Steady == Profile({}, 1, 0, Handle)
Flaky == Profile({}, 2, 0, {h1, h2})
Gated == Profile({1}, 2, 1, {h1})
Joined == Profile({1}, 1, 1, {h1, h3})

MCProfiles == {Steady, Flaky, Gated, Joined}

MCBudgets == {[cap |-> 2, subs |-> [s \in {1} |-> None]]}

MCPost == 1..4
MCStamp == <<3, 2, 2, 1>>
MCRank == [p \in MCPost |-> p]
NewRow(p) == IF p = 2 THEN [seen |-> {}, local |-> "Pending"]
             ELSE IF p = 3 THEN [seen |-> {B}, local |-> Nil]
             ELSE [seen |-> {A}, local |-> Nil]
UpTo(n) == {S \in SUBSET MCPost : Cardinality(S) <= n}
Change(ins, rem, grew, upd) ==
    [ins |-> [p \in ins |-> NewRow(p)], rem |-> rem, grew |-> [p \in grew |-> {B}], upd |-> upd]
Inserts == {Change({p}, {}, {}, {}) : p \in MCPost}
Removes == {Change({}, r, {}, {}) : r \in {{1}, {2}, {4}, {2, 3}}}
Replaces == {Change({i}, {r}, {}, {}) : i, r \in MCPost}
Sightings == {Change(i, {}, {g}, {}) : i \in UpTo(1), g \in {1, 4}}
Promotes == {Change({}, {}, {}, {2})}
Around(shapes, pins, page, max, commits, requests, told) ==
    [page |-> page, max |-> max, shapes |-> shapes, pins |-> pins,
     commits |-> commits, requests |-> requests, facts |-> told]
MCAsk == {Around({<<{MCPost}>>}, <<Nil>>, 2, 2, Inserts \cup Removes \cup Replaces, {}, {0}),
          Around({<<{MCPost}>>}, <<Nil>>, 1, 2, Inserts \cup Removes, {2}, {0}),
          Around({<<{MCPost}>>, <<{{1, 3}, {2, 3}}>>, <<{}>>}, <<Nil>>, 2, 2,
                 Inserts \cup Promotes \cup Sightings, {}, {0, 1}),
          Around({<<{MCPost}>>}, <<{B}>>, 1, 2, Inserts \cup Sightings \cup Promotes, {2}, {0}),
          Around({<<{{1, 2}}, {{2, 3, 4}}>>}, <<Nil, {B}>>, 1, 3, Inserts, {2, 3}, {0}),
          Around({<<{MCPost}>>}, <<Nil>>, 1, 4, Inserts, {2, 3, 4}, {0})}

Still == CHOOSE a \in Ask : TRUE

MCInit ==
    /\ part \in {"requests", "window"}
    /\ ReadInit /\ WinInit
    /\ part = "requests" => ask = Still
    /\ part = "window" => profile = Steady

MCNext ==
    /\ UNCHANGED <<part, profile>>
    /\ \/ part = "requests" /\ ReadNext /\ UNCHANGED winVars
       \/ part = "window" /\ WinNext /\ UNCHANGED allVars

MCSpec == MCInit /\ [][MCNext]_<<part, allVars, winVars>>
=============================================================================
