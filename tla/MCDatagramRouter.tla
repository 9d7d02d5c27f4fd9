--------------------------- MODULE MCDatagramRouter ---------------------------
(* Streams and shards for the model-checking runs of DatagramRouter.        *)
EXTENDS DatagramRouter

CONSTANTS a, b

TwoStreams == {a, b}
OneStream == {a}
SameShard == [s \in Streams |-> 1]
=============================================================================
