----------------------------- MODULE MCRelayPool -----------------------------
(***************************************************************************)
(* Instances of RelayPool: one relay with a public and a protected session *)
(* that share the pool's one place.  The scenarios bound what the engine   *)
(* asks for and what the network does, each to one part of the behaviour;  *)
(* the first state picks one of them.                                      *)
(***************************************************************************)
EXTENDS RelayPool

CONSTANTS pub, user, dur, eph, req

VARIABLE scenario

MCPublic(s) == pub
MCKeyBefore(a, b) == a = pub /\ b = user

\* Sessions that are demanded for reads and for writes, those of them that are
\* also given up, frames submitted, worker ids that demand may use, failures
\* per worker, frames read, and what else may happen.
Scenario(forReads, forWrites, closing, frames, ids, failures, heard, events) ==
    [reads |-> forReads, writes |-> forWrites, closing |-> closing, frames |-> frames,
     ids |-> ids, failures |-> failures, heard |-> heard, events |-> events]

Scenarios ==
    {\* reconnects of one worker, with every kind of frame behind the gate
     Scenario({user}, {user}, {}, {dur, req}, 1, 2, 0, {}),
     Scenario({}, {user}, {}, {dur}, 1, 2, 1, {}),
     \* AUTH: a challenge, its answer, the OK, and what they release
     Scenario({}, {user}, {}, {dur, eph}, 1, 0, 2, {}),
     Scenario({user}, {}, {}, {eph}, 1, 1, 2, {}),
     Scenario({user}, {}, {user}, {eph}, 1, 0, 2, {}),
     \* a worker retired at any point of its connections
     Scenario({}, {pub}, {pub}, {dur}, 1, 2, 0, {}),
     Scenario({pub}, {}, {pub}, {req}, 1, 2, 0, {"stop"}),
     Scenario({}, {user}, {user}, {dur}, 1, 2, 0, {}),
     \* a slot closed and reopened, with frames and gates of the old worker
     Scenario({}, {pub}, {pub}, {dur}, 2, 0, 0, {}),
     Scenario({pub}, {}, {pub}, {}, 2, 0, 1, {}),
     Scenario({user}, {}, {user}, {}, 2, 0, 0, {}),
     \* refusals for good, and the end of the pool
     Scenario({}, {pub}, {pub}, {dur}, 1, 0, 0, {"stop", "deny"}),
     Scenario({pub}, {}, {pub}, {}, 2, 0, 0, {"deny"}),
     \* retired threads that use up the budget without ever connecting
     Scenario({pub}, {}, {pub}, {}, 3, 1, 0, {"unreachable"}),
     \* two sessions that share the one place
     Scenario({pub}, {user}, {pub}, {}, 2, 0, 0, {}),
     Scenario({pub}, {user}, {pub, user}, {}, 2, 1, 0, {"unreachable"}),
     Scenario({user}, {pub}, {pub, user}, {}, 2, 1, 0, {"unreachable"})}

Within ==
    /\ reads' \subseteq scenario.reads
    /\ writes' \subseteq scenario.writes
    /\ required \ (reads' \cup writes') \subseteq scenario.closing
    /\ (reads' \subseteq reads /\ writes' \subseteq writes) \/ next <= scenario.ids
    /\ down' => "stop" \in scenario.events
    /\ \A f \in Frames : addressed'[f] # None => f \in scenario.frames
    /\ \A w \in Workers : /\ wk'[w].attempt <= scenario.failures
                          /\ wk'[w].heard <= scenario.heard
                          /\ wk'[w].pc = "check" => "unreachable" \notin scenario.events
                          /\ wk'[w].pc = "dead" => "deny" \in scenario.events

MCInit == Init /\ scenario \in Scenarios
MCNext == Next /\ Within /\ UNCHANGED scenario

MCSpec == MCInit /\ [][MCNext]_<<vars, scenario>>
=============================================================================
