----------------------------- MODULE Boilerhouse -----------------------------
(***************************************************************************)
(* The claim reconciler, the pool reconciler, the REST API, the cluster    *)
(* and the tenants together, and what they promise.                        *)
(***************************************************************************)
EXTENDS ClaimController, ClaimAPI, PoolController

\* A tenant's agent writes into the overlay of the Pod its claim points at.
\* Without "lateWork" it is quiet while the worker has extracted the overlay
\* and not yet deleted the Pod.
TenantWork(t, p) ==
    /\ claim[t].phase = "Active"
    /\ claim[t].instanceId = p
    /\ pod[p].phase = "Running"
    /\ work[t] < MaxWork
    /\ "lateWork" \in Environment \/ ~(w.pc = "drop" /\ w.pod = p)
    /\ work' = [work EXCEPT ![t] = @ + 1]
    /\ overlay' = [overlay EXCEPT ![p] = @ \cup {<<t, work[t] + 1>>}]
    /\ UNCHANGED <<claimVars, pod, seenPod, snapshot, token, wl, pool, processVars>>

Init == ClusterInit /\ WorkerInit /\ ClientInit /\ FillerInit

ClaimReconciler ==
    \/ \E t \in Tenants : Reconcile(t)
    \/ AddFinalizer \/ MarkPending \/ SetClaimError
    \/ \E p \in Pods : UseTenantPod(p) \/ AwaitTenantPod(p) \/ DeleteTerminalPod(p)
    \/ \E p \in Pods : ClaimFromPool(p) \/ CreateTenantPod(p)
    \/ InjectSnapshot \/ InjectFails \/ SkipSnapshot
    \/ ColdBoot \/ StashSource \/ ActivateClaim
    \/ MarkPodLost \/ StayActive \/ IdleTimeout
    \/ ReleaseWithoutPod \/ MarkReleaseFailed \/ DropPod \/ RevokeToken
    \/ \E p \in Pods : ExtractSnapshot(p) \/ ExtractFails(p) \/ SkipExtract(p)
    \/ MarkReleased \/ RemoveFinalizer
    \/ GiveUp

PoolReconciler ==
    \/ ReconcilePool \/ ReconcileDeletedPool \/ RemovePoolFinalizer \/ PoolGivesUp
    \/ \E p \in Pods : MarkPoolPodReady(p) \/ CreatePoolPod(p) \/ DeletePoolPod(p)

API ==
    \/ \E k \in Clients, t \in Tenants : CreateClaim(k, t) \/ AcquireReleased(k, t)
    \/ \E k \in Clients : StripFinalizer(k) \/ DeleteReleased(k) \/ RecreateClaim(k)
    \/ \E t \in Tenants : ReleaseInstance(t)
    \/ \E p \in Pods : DestroyInstance(p)
    \/ DeletePool

Surroundings ==
    \/ \E p \in Pods : PodRuns(p) \/ PodFails(p) \/ PodGone(p) \/ ObservePod(p)
    \/ \E t \in Tenants : ObserveClaim(t) \/ CollectToken(t)
    \/ \E t \in Tenants, p \in Pods : TenantWork(t, p)
    \/ WorkloadChanges \/ WorkloadDeleted

Next == ClaimReconciler \/ PoolReconciler \/ API \/ Surroundings

Spec == Init /\ [][Next]_vars

-----------------------------------------------------------------------------
(* Safety *)

TypeOK == ClusterTypeOK /\ WorkerTypeOK /\ ClientTypeOK /\ FillerTypeOK

LivePod(p) == pod[p].phase # "absent" /\ ~pod[p].terminating

\* A tenant's data is only ever in a Pod labelled with that tenant and in that
\* tenant's archive (claim_pods.go relabels, injects and extracts by tenant).
TenantIsolation ==
    /\ \A p \in Pods : \A u \in overlay[p] : u[1] = pod[p].tenant
    /\ \A t \in Tenants : \A u \in snapshot[t].data : u[1] = t

\* A claim never names a Pod that belongs to somebody else, whatever the cache
\* showed when the claim was activated (claimFromPool's guarded relabel).
ClaimsOwnPod ==
    \A t \in Tenants : LET p == claim[t].instanceId IN
        p # NoPod /\ pod[p].phase # "absent" => pod[p].tenant = t

\* Two tenants, or two claims one after the other, never share a Pod: once a
\* Pod is a tenant's it stays so until it is gone.
PodStaysWithTenant ==
    [][\A p \in Pods : pod[p].tenant # NoTenant
           => pod'[p].tenant = pod[p].tenant \/ pod'[p].phase = "absent"]_vars

\* The reconciler never gives a tenant a second Pod (handleNewClaim waits for
\* the Pod it finds "rather than creating another").
OnePodPerTenant ==
    \A p, q \in Pods : pod[p].tenant # NoTenant /\ pod[p].tenant = pod[q].tenant => p = q

\* No Pod outlives its claim: once a claim is Released or gone every Pod of the
\* tenant has been told to go (releaseClaim and handleDeletion delete the Pod
\* before the phase or the finalizer changes).
NoOrphanPods ==
    \A t \in Tenants : claim[t].phase \in {"absent", "Released"}
        => \A p \in Pods : pod[p].tenant = t => ~LivePod(p)

\* The reconciler lets a deleted claim go only when every Pod of its tenant has
\* been told to go, however old the claim is that its pass works on
\* (handleDeletion takes the finalizer off last).
DeletionTakesThePod ==
    [][\A t \in Tenants :
        w' # w /\ claim[t].phase # "absent" /\ claim'[t].phase = "absent"
            => \A p \in Pods : pod[p].tenant = t => ~LivePod(p)]_vars

\* The claim reconciler never deletes a running Pod it has to hibernate unless
\* the archive holds everything in the Pod's overlay (releaseClaim and
\* handleDeletion extract first and keep the Pod when extraction fails).
SavedBeforeDrop ==
    [][\A p \in Pods :
        /\ IdleAction = "hibernate" /\ HasOverlay
        /\ w' # w /\ pod[p].phase = "Running" /\ LivePod(p) /\ ~LivePod(p)'
        => overlay[p] \subseteq snapshot[pod[p].tenant].data]_vars

\* The pool does not grow beyond its size (Reconcile fills the gap between
\* spec.size and the warming and ready Pods it lists).
PoolWithinSize == Cardinality(PoolPods(pod)) <= PoolSize

-----------------------------------------------------------------------------
(* What comments and guides say of the program and its code does not do:   *)
(* see the violation runs.                                                 *)

Activates(t) == claim[t].phase # "Active" /\ claim'[t].phase = "Active"

\* A claim whose extraction failed still has its Pod, data and all, until
\* somebody deletes the claim (markReleaseFailed: the Pod "stays alive").
FailedReleaseKeepsPod ==
    \A t \in Tenants : claim[t].phase = "ReleaseFailed" /\ ~claim[t].deleting
        => claim[t].instanceId # NoPod /\ LivePod(claim[t].instanceId)

\* A tenant with an archive gets a cold-booted Pod with the archive in it
\* (coldBoot: "it will be injected once the Pod is running").
ColdBootRestores ==
    [][\A t \in Tenants : Activates(t) /\ claim'[t].source = "cold"
           => snapshot[t].data \subseteq overlay[claim'[t].instanceId]]_vars

\* A Released claim has no API token left (releaseClaim revokes it "so a future
\* resume gets a fresh token").
ReleasedHasNoToken ==
    \A t \in Tenants : claim[t].phase = "Released" => token[t] = "none"

\* Deleting the pool leaves claimed Pods alone (deletePoolPods).
DrainSparesClaimedPods ==
    [][filler.pc = "drain" /\ filler' # filler
           => \A p \in Pods : pod[p].tenant # NoTenant => pod'[p] = pod[p]]_vars

-----------------------------------------------------------------------------
(* Refinement *)

\* What the claims look like to those who use them.
LeaseOf(c) ==
    [phase |-> IF c.phase \in {"", "Pending"} THEN "waiting" ELSE c.phase,
     deleting |-> c.deleting]

Users == INSTANCE ClaimLease WITH lease <- [t \in Tenants |-> LeaseOf(claim[t])]

\* Whatever the caches, handlers and crashes do, a claim goes through the phases
\* its users rely on: nobody holds an instance without having asked, an instance
\* given back is never handed out again, and a claim on its way out stays on it
\* (every status write of the reconciler carries the resourceVersion it read).
ClaimFollowsLease == Users!LeaseSpec

-----------------------------------------------------------------------------
(* Liveness *)

\* The worker takes its next step, the work queue serves every claim (its own
\* writes, requeues and the cache's resync put it back), the pool reconciler
\* requeues itself every 10 s, the kubelet starts and stops Pods.  Nothing is
\* assumed of tenants, of API requests or of what may go wrong.
WorkerStep == ClaimReconciler /\ w.pc # "idle" /\ w' # w

Fairness ==
    /\ WF_vars(WorkerStep)
    /\ \A t \in Tenants : SF_vars(Reconcile(t))
    /\ WF_vars(PoolReconciler /\ ~PoolGivesUp)
    /\ \A p \in Pods : WF_vars(PodRuns(p)) /\ WF_vars(PodGone(p)) /\ WF_vars(ObservePod(p))
    /\ \A t \in Tenants : WF_vars(ObserveClaim(t))

FairSpec == Spec /\ Fairness

\* A claim that is waiting becomes Active, or is refused, or is given up by its
\* owner (handleNewClaim is retried until it ends).
WaitingClaimsSettle ==
    \A t \in Tenants : claim[t].phase \in {"", "Pending"}
        ~> claim[t].phase \in {"Active", "Error", "absent"} \/ claim[t].deleting

\* A claim that is deleted goes away (handleDeletion is retried until the
\* finalizer is off).
DeletedClaimsGo ==
    \A t \in Tenants : claim[t].deleting ~> claim[t].phase = "absent"
=============================================================================
