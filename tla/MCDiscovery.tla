----------------------------- MODULE MCDiscovery -----------------------------
(* Instance of Discovery for TLC: names and addresses are interchangeable.  *)
EXTENDS Discovery, TLC

Interchangeable == Permutations(Host) \cup Permutations(Ip)
=============================================================================
