------------------------- MODULE MCWebhookDispatch -------------------------
(* Small instances for model checking WebhookDispatch. *)
EXTENDS WebhookDispatch

CONSTANTS p, q, t, u   \* requests

TwoPushes   == {p, q}
TwoTriggers == {t, u}
NoPush      == {}
NoTrigger   == {}
NoOperator  == {}
AllOperators == {"register", "delete"}
Registering  == {"register"}
============================================================================
