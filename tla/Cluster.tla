------------------------------- MODULE Cluster -------------------------------
(***************************************************************************)
(* The state Boilerhouse keeps in Kubernetes for ONE workload: claims,     *)
(* Pods, claim-token Secrets, the snapshots volume, the workload and its   *)
(* pool; what the API server, the kubelet, the garbage collector and the   *)
(* controllers' informer cache do to that state.                           *)
(*                                                                         *)
(* Abstractions.  A claim's name is a function of its tenant, so claims    *)
(* are indexed by tenant.  An object that does not exist has phase         *)
(* "absent".  The resourceVersion test of an Update is "the object is      *)
(* still what was read": every field the code looks at is in the record.   *)
(* A Pod has an IP from the moment it runs.  The content of an overlay is  *)
(* the set of units of work a tenant has done in it.                       *)
(***************************************************************************)
EXTENDS Integers, FiniteSets

CONSTANTS
    Tenants,
    Pods,           \* Pod names; a name is taken afresh for every new Pod
    NoTenant, NoPod,
    IdleAction,     \* workload.spec.idle.action
    HasOverlay,     \* workload.spec.filesystem.overlayDirs is not empty
    LaggingCache,   \* which of {"claims", "pods"} the informer cache may trail in
    Environment     \* what the surroundings may do, a subset of Happenings

Happenings == {"crash", "execFails", "idle", "lateWork", "podDeleted", "podFails",
               "poolDeleted", "workloadChanges", "workloadDeleted"}

CONSTANT MaxWork    \* bound: units of work a tenant does in a behaviour

ASSUME ClusterAssumption ==
    /\ NoTenant \notin Tenants
    /\ NoPod \notin Pods
    /\ IdleAction \in {"hibernate", "destroy"}
    /\ HasOverlay \in BOOLEAN
    /\ LaggingCache \subseteq {"claims", "pods"}
    /\ Environment \subseteq Happenings
    /\ MaxWork \in Nat

VARIABLES
    claim,          \* the BoilerhouseClaim objects
    seenClaim,      \* the informer's copy of them
    pod,            \* the Pod objects
    seenPod,        \* the informer's copy of them
    overlay,        \* content of the overlay directories of each Pod
    snapshot,       \* the archive kept for each tenant on the snapshots volume
    token,          \* the claim's API-token Secret
    work,           \* units of work each tenant has done
    wl,             \* status.phase of the workload, or "absent"
    pool,           \* the BoilerhousePool: "up", "deleting" or "gone"
    w,              \* what the claim reconciler is doing: see ClaimController
    client,         \* what the API's request handlers are doing: see ClaimAPI
    filler          \* what the pool reconciler is doing: see PoolController

claimVars == <<claim, seenClaim>>
podVars   == <<pod, seenPod, overlay>>
clusterVars == <<claimVars, podVars, snapshot, token, work, wl, pool>>
besidesWorker == <<client, filler>>
processVars == <<w, besidesWorker>>
vars        == <<clusterVars, processVars>>

-----------------------------------------------------------------------------
ClaimPhases == {"absent", "", "Pending", "Active", "Released", "ReleaseFailed", "Error"}
Sources     == {"", "existing", "cold", "pool", "pool+data"}

ClaimObject == [phase: ClaimPhases, finalizer: BOOLEAN, deleting: BOOLEAN,
                instanceId: Pods \cup {NoPod}, source: Sources]
NoClaim  == [phase |-> "absent", finalizer |-> FALSE, deleting |-> FALSE,
             instanceId |-> NoPod, source |-> ""]
NewClaim == [NoClaim EXCEPT !.phase = ""]

PodObject == [phase: {"absent", "Pending", "Running", "Failed"}, terminating: BOOLEAN,
              tenant: Tenants \cup {NoTenant},
              poolStatus: {"none", "warming", "ready", "acquired"}]
AbsentPod == [phase |-> "absent", terminating |-> FALSE,
              tenant |-> NoTenant, poolStatus |-> "none"]

Units       == Tenants \X (1..MaxWork)
Archive     == [stored: BOOLEAN, data: SUBSET Units]
NoArchive   == [stored |-> FALSE, data |-> {}]
ArchiveOf(p) == [stored |-> TRUE, data |-> overlay[p]]

ClusterTypeOK ==
    /\ claim \in [Tenants -> ClaimObject]
    /\ seenClaim \in [Tenants -> ClaimObject]
    /\ pod \in [Pods -> PodObject]
    /\ seenPod \in [Pods -> PodObject]
    /\ overlay \in [Pods -> SUBSET Units]
    /\ snapshot \in [Tenants -> Archive]
    /\ token \in [Tenants -> {"none", "live", "orphan"}]
    /\ work \in [Tenants -> 0..MaxWork]
    /\ wl \in {"ready", "error", "absent"}
    /\ pool \in {"up", "deleting", "gone"}

ClusterInit ==
    /\ claim = [t \in Tenants |-> NoClaim]
    /\ seenClaim = claim
    /\ pod = [p \in Pods |-> AbsentPod]
    /\ seenPod = pod
    /\ overlay = [p \in Pods |-> {}]
    /\ snapshot = [t \in Tenants |-> NoArchive]
    /\ token = [t \in Tenants |-> "none"]
    /\ work = [t \in Tenants |-> 0]
    /\ wl = "ready"
    /\ pool = "up"

-----------------------------------------------------------------------------
(* Writes to the API server. *)

\* An object marked for deletion goes when its last finalizer goes.
Settled(obj) == IF obj.deleting /\ ~obj.finalizer THEN NoClaim ELSE obj

\* The token Secret is owned by the claim: when the claim goes, its Secret is
\* left to the garbage collector.
StoreClaim(t, obj) ==
    /\ claim' = [claim EXCEPT ![t] = Settled(obj)]
    /\ seenClaim' = IF "claims" \in LaggingCache THEN seenClaim ELSE claim'
    /\ token' = [token EXCEPT ![t] =
                    IF Settled(obj).phase = "absent" /\ @ = "live" THEN "orphan" ELSE @]

\* A Delete carries no precondition: it acts on whatever has the name.
DeleteClaim(t) == StoreClaim(t, [claim[t] EXCEPT !.deleting = TRUE])

StorePod(p, obj) ==
    /\ pod' = [pod EXCEPT ![p] = obj]
    /\ seenPod' = IF "pods" \in LaggingCache THEN seenPod ELSE pod'
    /\ UNCHANGED overlay

\* Deleting a Pod starts its grace period; one that has ended goes at once.
AfterDelete(obj) ==
    IF obj.phase \in {"absent", "Failed"} THEN AbsentPod
                                          ELSE [obj EXCEPT !.terminating = TRUE]

DeletePods(S) ==
    /\ pod' = [p \in Pods |-> IF p \in S THEN AfterDelete(pod[p]) ELSE pod[p]]
    /\ seenPod' = IF "pods" \in LaggingCache THEN seenPod ELSE pod'
    /\ overlay' = [p \in Pods |-> IF pod'[p].phase = "absent" THEN {} ELSE overlay[p]]

PresentPods(view) == {p \in Pods : view[p].phase # "absent"}

\* A new Pod's name has a random suffix: nothing mentions it yet.
FreshPods == {p \in Pods :
    /\ pod[p].phase = "absent" /\ seenPod[p].phase = "absent"
    /\ \A t \in Tenants : p \notin {claim[t].instanceId, seenClaim[t].instanceId}
    /\ p \notin {w.pod, w.c.instanceId}
    /\ \A k \in DOMAIN client : p # client[k].c.instanceId
    /\ \A r \in filler.todo : p # r[1]}

-----------------------------------------------------------------------------
(* The kubelet, the garbage collector and the informer. *)

PodRuns(p) ==
    /\ pod[p].phase = "Pending"
    /\ ~pod[p].terminating
    /\ StorePod(p, [pod[p] EXCEPT !.phase = "Running"])
    /\ UNCHANGED <<claimVars, snapshot, token, work, wl, pool, processVars>>

\* The Pods have RestartPolicy Never: a container that ends, ends the Pod.
PodFails(p) ==
    /\ "podFails" \in Environment
    /\ pod[p].phase \in {"Pending", "Running"}
    /\ StorePod(p, [pod[p] EXCEPT !.phase = "Failed"])
    /\ UNCHANGED <<claimVars, snapshot, token, work, wl, pool, processVars>>

PodGone(p) ==
    /\ pod[p].terminating
    /\ pod' = [pod EXCEPT ![p] = AbsentPod]
    /\ seenPod' = IF "pods" \in LaggingCache THEN seenPod ELSE pod'
    /\ overlay' = [overlay EXCEPT ![p] = {}]
    /\ UNCHANGED <<claimVars, snapshot, token, work, wl, pool, processVars>>

CollectToken(t) ==
    /\ token[t] = "orphan"
    /\ token' = [token EXCEPT ![t] = "none"]
    /\ UNCHANGED <<claimVars, podVars, snapshot, work, wl, pool, processVars>>

ObserveClaim(t) ==
    /\ seenClaim[t] # claim[t]
    /\ seenClaim' = [seenClaim EXCEPT ![t] = claim[t]]
    /\ UNCHANGED <<claim, podVars, snapshot, token, work, wl, pool, processVars>>

ObservePod(p) ==
    /\ seenPod[p] # pod[p]
    /\ seenPod' = [seenPod EXCEPT ![p] = pod[p]]
    /\ UNCHANGED <<claimVars, pod, overlay, snapshot, token, work, wl, pool, processVars>>

-----------------------------------------------------------------------------
(* What the workload controller does to the workload and its Pods, one     *)
(* effect per action; its own reconcile loop is not part of this module.   *)

WorkloadChanges ==
    /\ "workloadChanges" \in Environment
    /\ wl \in {"ready", "error"}
    /\ wl' = IF wl = "ready" THEN "error" ELSE "ready"
    /\ UNCHANGED <<claimVars, podVars, snapshot, token, work, pool, processVars>>

WorkloadDeleted ==
    /\ "workloadDeleted" \in Environment
    /\ wl # "absent"
    /\ wl' = "absent"
    /\ DeletePods(PresentPods(seenPod))
    /\ UNCHANGED <<claimVars, snapshot, token, work, pool, processVars>>
=============================================================================
