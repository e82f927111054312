-------------------------- MODULE MCEtcdRegistry --------------------------
(* Instances of EtcdRegistry for TLC.                                       *)
EXTENDS EtcdRegistry, TLC

CONSTANTS a, b, id1, id2, d1, d2

\* Every instance has an ID of its own.
UniqueIds == (a :> id1) @@ (b :> id2)

OneInstance == a :> id1

Symmetry == Permutations(Lease) \cup Permutations(Keeper) \cup Permutations(Caller)
============================================================================
