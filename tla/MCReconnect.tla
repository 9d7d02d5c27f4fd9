---------------------------- MODULE MCReconnect ----------------------------
(* Subscribers for the model-checking runs of Reconnect.                    *)
EXTENDS Reconnect

CONSTANTS a, b

TwoSubscribers == {a, b}
=============================================================================
