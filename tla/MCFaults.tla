------------------------------ MODULE MCFaults ------------------------------
(***************************************************************************)
(* Two parts of the engine under faults, one per behaviour: `part` says    *)
(* which moves while the other rests in its first state.                   *)
(*   "writes"    the write plane of WriteLifecycle while commits fail, or  *)
(*               while one write supersedes another;                       *)
(*   "adapters"  the code the application supplies.  One relay session's   *)
(*               key and another account's key; a scope says how many      *)
(*               challenges, lost sessions, registry changes, sign-only    *)
(*               operations, writes and failed thread spawns a behaviour   *)
(*               holds, so that the parts meet two at a time: AUTH with    *)
(*               capability changes, two sign-only operations with         *)
(*               reentrant joins, the write with a changing signer.        *)
(***************************************************************************)
EXTENDS MCWriteLifecycle, Adapters

CONSTANTS A, B

VARIABLE part

MCScope ==
    LET none == [challenges |-> 0, drops |-> 0, changes |-> 0, ops |-> 0, writes |-> 0,
                 faults |-> 0, shutdown |-> TRUE, policy |-> TRUE, signer |-> TRUE,
                 kinds |-> {}, keys |-> {A}, answers |-> {"yes"}]
        auth == [none EXCEPT !.challenges = 2, !.changes = 1, !.kinds = {"policy", "signer"}]
        lone == [none EXCEPT !.challenges = 1, !.drops = 1, !.answers = {"yes", "no"}]
        ops == [none EXCEPT !.ops = 2]
        spawn == [none EXCEPT !.ops = 1, !.faults = 1]
        both == [none EXCEPT !.challenges = 1, !.ops = 1, !.shutdown = FALSE]
        write == [none EXCEPT !.writes = 2, !.changes = 1, !.kinds = {"signer"}]
        accounts == [none EXCEPT !.changes = 3, !.kinds = {"policy", "signer", "account"},
                                 !.keys = {A, B}, !.policy = FALSE, !.signer = FALSE,
                                 !.shutdown = FALSE]
    IN  {auth, lone, ops, spawn, both, write, accounts}

MCInit ==
    /\ part \in {"writes", "adapters"}
    /\ Init /\ AdapterInit
    /\ part = "writes" => quota = CHOOSE q \in Scope : TRUE
    /\ part = "adapters" => app = CHOOSE a \in Apps : TRUE

MCNext ==
    /\ UNCHANGED <<part, app>>
    /\ \/ part = "writes" /\ Next /\ UNCHANGED adapterVars
       \/ part = "adapters" /\ AdapterNext /\ UNCHANGED vars

MCSpec == MCInit /\ [][MCNext]_<<part, app, vars, adapterVars>> /\ AdapterFairness
=============================================================================
