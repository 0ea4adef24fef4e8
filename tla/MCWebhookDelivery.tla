------------------------- MODULE MCWebhookDelivery -------------------------
EXTENDS WebhookDelivery
(* One endpoint that takes completed stages only; its outbox holds two      *)
(* deliveries of one run or one of each run.                                *)
MCWants == [e \in {1} |-> {"stage"}]
=============================================================================
