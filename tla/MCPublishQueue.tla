--------------------------- MODULE MCPublishQueue ---------------------------
(* The store doors under any client, on one or two intents and relays. *)
EXTENDS PublishQueue

CONSTANTS r1
=============================================================================
