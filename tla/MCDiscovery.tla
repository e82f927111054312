---------------------------- MODULE MCDiscovery ----------------------------
(* Instances of Discovery for TLC. *)
EXTENDS Discovery, TLC

CONSTANTS k1, k2, c1, c2

Watched == [cacheEnabled |-> TRUE, enableWatch |-> TRUE]

Bare == [cacheEnabled |-> FALSE, enableWatch |-> FALSE]

OneConfig == {Watched}

SomeConfigs == {Watched, Bare}

Symmetry == Permutations({k1, k2}) \cup Permutations({c1, c2})
============================================================================
