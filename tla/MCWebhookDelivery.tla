-------------------------- MODULE MCWebhookDelivery --------------------------
(* Two requests that publish events of different types, for two              *)
(* registrations that may be of either type: both may be for the same event. *)
EXTENDS WebhookDelivery, TLC

CONSTANTS r1, r2

MCRequests == {r1, r2}
MCTopic == r1 :> "ticket.created" @@ r2 :> "ticket.status_changed"
=============================================================================
