------------------------- MODULE MCRemoteConnection -------------------------
(* RemoteConnection on two descriptors; nothing else is bounded.            *)
EXTENDS RemoteConnection
=============================================================================
