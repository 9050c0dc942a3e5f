---------------------------- MODULE MCDelivery ------------------------------
(***************************************************************************)
(* Three services that owe their callers an answer, one per behaviour:     *)
(* `part` says which moves while the others rest in their first state.     *)
(*   "pages"      a collector that pages through the receipt of a write to *)
(*                two relays; once the second has published it, the first  *)
(*                may do anything but ask for AUTH;                        *)
(*   "parked"     the same, and the first asks for AUTH, again and again;  *)
(*   "streams"    an owner that reads its stream while the collector asks, *)
(*                the relays one after the other;                          *)
(*   "repeat"     two owners that publish the same write;                  *)
(*   "edits"      two edits of one list, two relays and a foreign version; *)
(*   "documents"  the relay-information service: a cached and a refreshing *)
(*                caller of one relay with a third caller of another, or   *)
(*                two callers of a relay with credentials.                 *)
(***************************************************************************)
EXTENDS ReceiptDelivery, SemanticEdit, RelayInformation

CONSTANTS r1, r2, app1, app2, wait1, A, B, h1, h2, h3

VARIABLE part

MCDest == <<r1, r2>>

MCIntent == 1..2
MCMark == 1..4
MCPlace == {A, B}
MCForeign == {[edits |-> [m \in MCMark |-> IF m = 3 THEN 1 ELSE 0], at |-> 2]}
MCHoldings == {[r \in MCPlace |-> Blank]}
MCRouting == {{A}, {B}}
MCInstant == {1}
NoForeign == {}

Tries(w, r) == Range(w.tries[r])

\* Destination r is reached and published at the first attempt.
Straight(w, r) ==
    /\ w.lane[r].state \notin {"backoff", "auth", "offline"}
    /\ \A try \in Tries(w, r) : /\ try.handoff \in {None, "written"}
                                /\ try.verdict \in {"started", "published"}

\* Destination r asks for AUTH, again and again, and for nothing else.
OnlyParks(w, r) ==
    /\ w.lane[r].state \notin {"backoff", "offline"}
    /\ \A try \in Tries(w, r) : /\ try.handoff \in {None, "written"}
                                /\ try.verdict \in {"started", "published"}

\* Destination r may do anything but ask for AUTH.
NeverParks(w, r) == w.lane[r].state # "auth"

Fits ==
    /\ Straight(write', r2)
    /\ part = "pages" => NeverParks(write', r1)
    /\ part = "parked" => OnlyParks(write', r1)
    /\ part \in {"pages", "parked"} =>
          /\ view'[app1] = Nothing /\ (caller'[app1].phase = "reading" => ~write'.signed)
          /\ write'.lane[r1].revision > 1 => write'.lane[r2].state = "over"
    /\ part \in {"streams", "repeat"} => Straight(write', r1)
    /\ part = "streams" => (write'.lane[r2].revision > 1 => write'.lane[r1].state = "over")
    /\ part # "repeat" => caller'[app2].phase = "idle"
    /\ part = "repeat" => caller'[wait1].phase = "idle"

MCReadings ==
    {<< <<h1, "UseCache">>, <<h1, "Refresh">>, <<h2, "UseCache">> >>,
     << <<h3, "UseCache">>, <<h3, "UseCache">>, <<Absent, Absent>> >>}

MCInit ==
    /\ part \in {"pages", "parked", "streams", "repeat", "edits", "documents"}
    /\ DeliveryInit /\ EditInit /\ InfoInit
    /\ part # "documents" => asker[1].relay = h1

MCNext ==
    /\ UNCHANGED part
    /\ \/ /\ part \in {"pages", "parked", "streams", "repeat"}
          /\ DeliveryNext /\ Fits /\ UNCHANGED <<editVars, infoVars>>
       \/ part = "edits" /\ EditNext /\ UNCHANGED <<deliveryVars, infoVars>>
       \/ part = "documents" /\ InfoNext /\ UNCHANGED <<deliveryVars, editVars>>

MCSpec ==
    /\ MCInit /\ [][MCNext]_<<part, deliveryVars, editVars, infoVars>>
    /\ DeliveryFairness /\ EditFairness /\ InfoFairness
=============================================================================
