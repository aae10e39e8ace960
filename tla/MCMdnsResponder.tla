-------------------------- MODULE MCMdnsResponder --------------------------
(* Services and names are interchangeable.                                   *)
EXTENDS MdnsResponder

Symmetric == Permutations(Srv) \cup Permutations(Instance) \cup Permutations(Type)
=============================================================================
