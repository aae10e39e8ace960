---------------------------- MODULE MCMdnsSearch ----------------------------
(* Instance of MdnsSearch for TLC: addresses are interchangeable.           *)
EXTENDS MdnsSearch, TLC

Interchangeable == Permutations(Search)
=============================================================================
