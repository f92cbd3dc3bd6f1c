---------------------------- MODULE MCBoilerhouse ----------------------------
(* Instances of Boilerhouse for TLC. *)
EXTENDS Boilerhouse, TLC

\* Pods and handlers are interchangeable, and so are tenants.
Symmetry == Permutations(Pods) \cup Permutations(Tenants) \cup Permutations(Clients)

\* Bounds: the cache trails in at most one Pod at a time, one tenant works.
OnePodTrails == Cardinality({p \in Pods : seenPod[p] # pod[p]}) <= 1
OneWorks     == Cardinality({t \in Tenants : work[t] > 0}) <= 1
=============================================================================
