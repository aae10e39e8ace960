---------------------------- MODULE MCMdnsNaming ----------------------------
(* Three devices                                                             *)
EXTENDS MdnsNaming

Addresses == 1..3
=============================================================================
