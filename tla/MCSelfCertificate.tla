-------------------------- MODULE MCSelfCertificate --------------------------
(* Instance of SelfCertificate for TLC.                                     *)
EXTENDS SelfCertificate
=============================================================================
