--------------------------- MODULE MCWebhookPipeline -------------------------
(* Instances of the webhook pipeline for TLC. *)
EXTENDS WebhookPipeline, TLC

CONSTANTS e1, n1, n2, w1, w2

(* One event that is delivered twice. *)
Redelivered == [n \in Entry |-> e1]

(* A capture, and the events that fail or are ignored. *)
AnyKind == [e \in Event |-> {"CAPTURED", "wrongAmount", "unknownPayment"}]

Captured == [e \in Event |-> {"CAPTURED"}]
==============================================================================
