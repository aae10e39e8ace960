---------------------------- MODULE MCMdnsService ----------------------------
(* One search that a caller waits for or a notifier is told of, two packets  *)
(* (one may replace the other at the head of the list), and two calls of     *)
(* mdns_init, so that what the first leaves meets the second.                *)
EXTENDS MdnsService
=============================================================================
