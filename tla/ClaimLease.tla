------------------------------ MODULE ClaimLease ------------------------------
(***************************************************************************)
(* The life of a claim as its users see it: who has asked for an instance, *)
(* who holds one, who has given it back.  Pods, caches, finalizers and the *)
(* passes of the reconciler are not visible.  Boilerhouse implements this; *)
(* the trigger gateway (EventPipeline) relies on it.                       *)
(***************************************************************************)
CONSTANT Tenants

VARIABLE lease      \* the claim of each tenant

Lease  == [phase: {"absent", "waiting", "Active", "Released", "ReleaseFailed", "Error"},
           deleting: BOOLEAN]
Nobody == [phase |-> "absent", deleting |-> FALSE]
Asked  == [phase |-> "waiting", deleting |-> FALSE]

LeaseInit == lease = [t \in Tenants |-> Nobody]

\* The reconciler moves the claim from phase `from` to phase `to`, unless it is
\* being deleted.
Move(t, from, to) ==
    /\ lease[t] = [phase |-> from, deleting |-> FALSE]
    /\ lease' = [lease EXCEPT ![t].phase = to]

Ask(t) ==
    /\ lease[t] = Nobody
    /\ lease' = [lease EXCEPT ![t] = Asked]

Grant(t)    == Move(t, "waiting", "Active")
Refuse(t)   == Move(t, "waiting", "Error")
TryAgain(t) == Move(t, "Error", "waiting")
Release(t)  == \E phase \in {"Released", "ReleaseFailed"} : Move(t, "Active", phase)

\* Somebody deletes the claim, in whatever phase it is.
GiveBack(t) ==
    /\ lease[t].phase # "absent"
    /\ lease' = [lease EXCEPT ![t].deleting = TRUE]

\* It is gone once the reconciler has taken its finalizer off.
Gone(t) ==
    /\ lease[t].deleting
    /\ lease' = [lease EXCEPT ![t] = Nobody]

\* A claim without a finalizer goes at once: one the reconciler has not seen
\* yet, or a Released one a handler has stripped of it.
GiveBackAtOnce(t) ==
    /\ lease[t].phase \in {"waiting", "Released"}
    /\ lease' = [lease EXCEPT ![t] = Nobody]

LeaseNext == \E t \in Tenants :
    Ask(t) \/ Grant(t) \/ Refuse(t) \/ TryAgain(t) \/ Release(t)
    \/ GiveBack(t) \/ Gone(t) \/ GiveBackAtOnce(t)

LeaseSpec == LeaseInit /\ [][LeaseNext]_lease
===============================================================================
