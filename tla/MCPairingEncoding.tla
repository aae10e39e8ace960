-------------------------- MODULE MCPairingEncoding --------------------------
(* Instance of PairingEncoding for TLC: the name in the code has 12 letters. *)
EXTENDS PairingEncoding
=============================================================================
