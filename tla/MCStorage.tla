----------------------------- MODULE MCStorage ------------------------------
(***************************************************************************)
(* Two levels of the store, one per behaviour: `part` says which moves     *)
(* while the other rests in its first state.                               *)
(*   "events"   Alice's profile in three versions (1 and 2 equally old), of*)
(*              which the second expires, as does a note of hers; her      *)
(*              deletion of the profile and the note, and a deletion by    *)
(*              Bob that has no authority over either;                     *)
(*   "covered"  the same with coverage recorded, and two writes;           *)
(*   "full"     packed postings worn down from a run of five events;       *)
(*   "fresh"    packed postings grown from nothing;                        *)
(*   "relays"   the interning of relays, with two events.                  *)
(***************************************************************************)
EXTENDS EventStore, PackedPostings, TLC

CONSTANTS r1, alice, bob, profile, q1,
          x1, x2, x3, x4, x5, Alice, Bob, Note, Like, Red, Blue, Home, relay1, relay2,
          MaxRelayKey   \* bound: relay keys ever allocated

VARIABLE part

Author == [x \in Events \cup Addrs |-> IF x = 6 THEN bob ELSE alice]
Address == [e \in Events |-> IF e <= 3 THEN profile ELSE NoAddr]
Created == [e \in Events |-> IF e \in {3, 4} THEN 1 ELSE 0]
Expires == [e \in Events |-> IF e \in {2, 4} THEN 1 ELSE Never]
DeletedIds == [d \in Deletions |-> {4}]
DeletedAddrs == [d \in Deletions |-> {profile}]
Apart == {[from |-> 0, through |-> 0], [from |-> 1, through |-> 2],
          [from |-> 2, through |-> 2]}

MCAttr ==
    [e \in Event |->
        CASE e = x1 -> [author |-> Alice, kind |-> Note, tags |-> {Red}, at |-> 2, rank |-> 1]
          [] e = x2 -> [author |-> Alice, kind |-> Like, tags |-> {Red, Blue, Home}, at |-> 2, rank |-> 2]
          [] e = x3 -> [author |-> Bob, kind |-> Note, tags |-> {Blue, Home}, at |-> 1, rank |-> 3]
          [] e = x4 -> [author |-> Bob, kind |-> Like, tags |-> {}, at |-> 2, rank |-> 4]
          [] OTHER -> [author |-> Alice, kind |-> Note, tags |-> {}, at |-> 3, rank |-> 5]]

MCLetter == Red :> 1 @@ Blue :> 1 @@ Home :> 2

Every == [ids |-> {}, authors |-> {}, tags |-> {}, kinds |-> {}, since |-> 0,
          until |-> 9, pinned |-> {}, before |-> Nowhere, limit |-> 0, hidden |-> {}]

Place(e) == [at |-> MCAttr[e].at, rank |-> MCAttr[e].rank]

MCQueries ==
    {Every,
     [Every EXCEPT !.limit = 2, !.hidden = {x2}],
     [Every EXCEPT !.before = Place(x1), !.limit = 1],
     [Every EXCEPT !.tags = {Red, Blue, Home}],
     [Every EXCEPT !.tags = {Red, Blue}, !.before = Place(x1), !.pinned = {relay1}],
     [Every EXCEPT !.authors = {Alice, Bob}, !.kinds = {Note}, !.until = 2],
     [Every EXCEPT !.authors = {Alice}, !.since = 2, !.until = 2, !.limit = 1],
     [Every EXCEPT !.kinds = {Like}, !.pinned = {relay1}, !.limit = 1],
     [Every EXCEPT !.ids = {x1, x3}, !.before = Place(x2)]}

MCStored == {<<>>, <<{x1, x2, x3, x4, x5}>>}

\* What a transaction of the packed store may hold in each part.
InScope(t) ==
    t.open =>
        /\ txn.open => t.D # txn.D
        /\ part # "relays" =>
              t.D.relays = NoTable /\ \A k \in DOMAIN t.D.rows : t.D.rows[k].local
        /\ part = "fresh" => DOMAIN t.D.ids \subseteq {x1, x2, x3} /\ t.D.nextKey <= 6
        /\ part = "relays" => /\ DOMAIN t.D.ids \subseteq {x1, x2} /\ t.D.nextKey <= 3
                               /\ t.D.nextRelay <= MaxRelayKey

MCInit ==
    /\ part \in {"events", "covered", "full", "fresh", "relays"}
    /\ Init /\ PackedInit
    /\ part = "full" <=> disk # EmptyDb

MCNext ==
    /\ UNCHANGED part
    /\ \/ /\ part \in {"events", "covered"} /\ Next /\ UNCHANGED packedVars
          /\ IF part = "events" THEN UNCHANGED proven ELSE nextIntent' <= 3
       \/ part \notin {"events", "covered"} /\ PackedNext /\ InScope(txn') /\ UNCHANGED vars

MCSpec == MCInit /\ [][MCNext]_<<part, vars, packedVars>>
=============================================================================
