------------------------- MODULE MCWebhookDelivery -------------------------
(* Small instances of WebhookDelivery for TLC. *)
EXTENDS WebhookDelivery

CONSTANTS e1, e2, e3

\* e1 has a URL of its own, e2 the global one, e3 is of a disabled type.
ThreeEvents == {e1, e2, e3}
TwoEnabled  == {e1, e2}
OneUrl      == {e1, e3}
AllFaults   == Faults
=============================================================================
