-------------------------- MODULE MCWebhookDelivery --------------------------
(* Small instances of WebhookDelivery for TLC; the numbers are in the .cfg files. *)
EXTENDS WebhookDelivery, TLC
=============================================================================
