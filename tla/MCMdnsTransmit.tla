--------------------------- MODULE MCMdnsTransmit ---------------------------
(* Small instances of MdnsTransmit.  Liveness is checked, so no symmetry.   *)
EXTENDS MdnsTransmit
=============================================================================
