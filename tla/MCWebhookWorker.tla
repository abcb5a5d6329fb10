-------------------------- MODULE MCWebhookWorker --------------------------
(* WebhookWorker on small instances: each cfg says what may go wrong.      *)
EXTENDS WebhookWorker, TLC

MCDelivery == Event \X {"crm"}
Interchangeable == Permutations(Process)
=============================================================================
