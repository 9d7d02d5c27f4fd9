---------------------------- MODULE MCRecvStreams ----------------------------
(* Constants and sinks for the model-checking runs of RecvStreams.          *)
EXTENDS RecvStreams

NoSinks == {}
ReliableSink == {"reliable"}
BothSinks == {"reliable", "unreliable"}
=============================================================================
