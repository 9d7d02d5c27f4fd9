---------------------------- MODULE MCManiTransfer ----------------------------
(* Sinks and peers for the model-checking runs of ManiTransfer.             *)
EXTENDS ManiTransfer

NoSinks == {}
UnreliableSink == {"unreliable"}
BothSinks == {"reliable", "unreliable"}
NoPeers == {}
SenderPeer == {"sender"}
ReceiverPeer == {"receiver"}
BothPeers == {"sender", "receiver"}
=============================================================================
