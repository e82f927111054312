--------------------------- MODULE MCLoadBalancers ---------------------------
EXTENDS LoadBalancers

CONSTANTS i1, i2, i3

MCOrder == <<i1, i2, i3>>

\* One weight to count as 1, and two that differ.
MCWeight == [i \in {i1, i2, i3} |-> CASE i = i1 -> 2 [] i = i2 -> 0 [] i = i3 -> 3]
=============================================================================
