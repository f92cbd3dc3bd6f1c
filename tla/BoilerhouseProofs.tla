-------------------------- MODULE BoilerhouseProofs --------------------------
(***************************************************************************)
(* What Boilerhouse promises for every value of its constants: any number  *)
(* of tenants, Pods and request handlers, any pool, and whatever the       *)
(* surroundings do.                                                        *)
(***************************************************************************)
EXTENDS Boilerhouse, FiniteSetTheorems, TLAPS

-----------------------------------------------------------------------------
(* Types *)

\* Storing a claim keeps the types of what it touches.
LEMMA StoreClaimType ==
    ASSUME TypeOK, NEW t \in Tenants, NEW obj \in ClaimObject, StoreClaim(t, obj)
    PROVE  /\ claim' \in [Tenants -> ClaimObject]
           /\ seenClaim' \in [Tenants -> ClaimObject]
           /\ token' \in [Tenants -> {"none", "live", "orphan"}]
<1>1. Settled(obj) \in ClaimObject
  BY DEF Settled, NoClaim, ClaimObject, ClaimPhases, Sources
<1>2. QED
  BY <1>1 DEF TypeOK, ClusterTypeOK, StoreClaim

\* So does storing a Pod.
LEMMA StorePodType ==
    ASSUME TypeOK, NEW p \in Pods, NEW obj \in PodObject, StorePod(p, obj)
    PROVE  /\ pod' \in [Pods -> PodObject]
           /\ seenPod' \in [Pods -> PodObject]
           /\ overlay' \in [Pods -> SUBSET Units]
BY DEF TypeOK, ClusterTypeOK, StorePod

\* A Pod keeps the type of a Pod when a field of it is written.
LEMMA EditPodType ==
    ASSUME NEW obj \in PodObject
    PROVE  /\ \A phase \in {"Running", "Failed"} : [obj EXCEPT !.phase = phase] \in PodObject
           /\ [obj EXCEPT !.poolStatus = "ready"] \in PodObject
           /\ \A t \in Tenants :
                 [obj EXCEPT !.tenant = t, !.poolStatus = "acquired"] \in PodObject
BY DEF PodObject

\* Deleting a Pod leaves a Pod or no Pod.
LEMMA AfterDeleteType == \A obj \in PodObject : AfterDelete(obj) \in PodObject
<1>1. AbsentPod \in PodObject
  BY DEF AbsentPod, PodObject
<1>2. \A obj \in PodObject : [obj EXCEPT !.terminating = TRUE] \in PodObject
  BY DEF PodObject
<1>3. QED
  BY <1>1, <1>2 DEF AfterDelete

\* So deleting Pods keeps the types of what it touches.
LEMMA DeletePodsType ==
    ASSUME TypeOK, NEW STATE S, DeletePods(S)
    PROVE  /\ pod' \in [Pods -> PodObject]
           /\ seenPod' \in [Pods -> PodObject]
           /\ overlay' \in [Pods -> SUBSET Units]
<1>1. \A p \in Pods : AfterDelete(pod[p]) \in PodObject
  BY AfterDeleteType DEF TypeOK, ClusterTypeOK
<1>2. QED
  BY <1>1 DEF TypeOK, ClusterTypeOK, DeletePods

\* The cluster keeps its types when Pods are deleted and nothing else happens.
LEMMA OnlyDeletePodsType ==
    ASSUME TypeOK, NEW STATE S, DeletePods(S),
           UNCHANGED <<claimVars, snapshot, token, work, wl, pool>>
    PROVE  ClusterTypeOK'
<1>1. /\ pod' \in [Pods -> PodObject]
      /\ seenPod' \in [Pods -> PodObject]
      /\ overlay' \in [Pods -> SUBSET Units]
  BY DeletePodsType
<1>2. QED
  BY <1>1 DEF claimVars, TypeOK, ClusterTypeOK

\* The conditional update of the claim that the worker has read.
LEMMA UpdateClaimType ==
    ASSUME TypeOK, w.t \in Tenants, NEW obj \in ClaimObject, UpdateClaim(obj)
    PROVE  /\ claim' \in [Tenants -> ClaimObject]
           /\ seenClaim' \in [Tenants -> ClaimObject]
           /\ token' \in [Tenants -> {"none", "live", "orphan"}]
           /\ WorkerTypeOK'
<1>1. WorkerTypeOK'
  BY DEF UpdateClaim, WorkerTypeOK, Worker, Idle, Steps, NoClaim, ClaimObject, ClaimPhases, Sources
<1>2. CASE claim[w.t] = w.c
  BY <1>1, <1>2, StoreClaimType DEF UpdateClaim
<1>3. CASE claim[w.t] # w.c
  BY <1>1, <1>3 DEF UpdateClaim, claimVars, TypeOK, ClusterTypeOK
<1>4. QED
  BY <1>2, <1>3

\* Each write the worker makes to its claim keeps the types.
LEMMA WriteClaimType ==
    ASSUME TypeOK, w.t \in Tenants, NEW obj \in ClaimObject, UpdateClaim(obj),
           UNCHANGED <<podVars, snapshot, work, wl, pool, besidesWorker>>
    PROVE  TypeOK'
<1>1. ClusterTypeOK'
  BY UpdateClaimType DEF TypeOK, ClusterTypeOK, podVars
<1>2. WorkerTypeOK' /\ ClientTypeOK' /\ FillerTypeOK'
  BY UpdateClaimType DEF TypeOK, ClientTypeOK, FillerTypeOK, besidesWorker
<1>3. QED
  BY <1>1, <1>2 DEF TypeOK

\* The worker keeps the types when it writes its claim.
LEMMA WorkerWritesType ==
    ASSUME TypeOK,
           \/ AddFinalizer \/ MarkPending \/ SetClaimError \/ StashSource
           \/ ActivateClaim \/ MarkPodLost \/ MarkReleaseFailed
           \/ MarkReleased \/ RemoveFinalizer
    PROVE  TypeOK'
<1>1. w.c \in ClaimObject /\ (w.pc # "idle" => w.t \in Tenants)
  BY DEF TypeOK, WorkerTypeOK, Worker
<1>2. CASE AddFinalizer
  <2>1. [w.c EXCEPT !.finalizer = TRUE] \in ClaimObject
    BY <1>1 DEF ClaimObject, ClaimPhases
  <2>2. QED
    BY <1>1, <1>2, <2>1, WriteClaimType DEF AddFinalizer
<1>3. CASE MarkPending
  <2>1. [w.c EXCEPT !.phase = "Pending"] \in ClaimObject
    BY <1>1 DEF ClaimObject, ClaimPhases
  <2>2. QED
    BY <1>1, <1>3, <2>1, WriteClaimType DEF MarkPending
<1>4. CASE SetClaimError
  <2>1. [w.c EXCEPT !.phase = "Error"] \in ClaimObject
    BY <1>1 DEF ClaimObject, ClaimPhases
  <2>2. QED
    BY <1>1, <1>4, <2>1, WriteClaimType DEF IsPending, SetClaimError
<1>5. CASE MarkPodLost
  <2>1. [w.c EXCEPT !.phase = "Released"] \in ClaimObject
    BY <1>1 DEF ClaimObject, ClaimPhases
  <2>2. QED
    BY <1>1, <1>5, <2>1, WriteClaimType DEF MarkPodLost
<1>6. CASE MarkReleaseFailed
  <2>1. [w.c EXCEPT !.phase = "ReleaseFailed"] \in ClaimObject
    BY <1>1 DEF ClaimObject, ClaimPhases
  <2>2. QED
    BY <1>1, <1>6, <2>1, WriteClaimType DEF MarkReleaseFailed
<1>7. CASE MarkReleased
  <2>1. [w.c EXCEPT !.phase = "Released"] \in ClaimObject
    BY <1>1 DEF ClaimObject, ClaimPhases
  <2>2. QED
    BY <1>1, <1>7, <2>1, WriteClaimType DEF MarkReleased
<1>8. CASE RemoveFinalizer
  <2>1. [w.c EXCEPT !.finalizer = FALSE] \in ClaimObject
    BY <1>1 DEF ClaimObject, ClaimPhases
  <2>2. QED
    BY <1>1, <1>8, <2>1, WriteClaimType DEF RemoveFinalizer
<1>9. CASE StashSource
  <2>1. w.pod \in Pods /\ w.source \in Sources
    BY <1>9 DEF StashSource, TypeOK, WorkerTypeOK, Worker
  <2>2. [w.c EXCEPT !.instanceId = w.pod, !.source = "cold"] \in ClaimObject
    BY <1>1, <2>1 DEF ClaimObject, ClaimPhases, Sources
  <2>3. QED
    BY <1>1, <1>9, <2>2, WriteClaimType DEF StashSource
<1>10. CASE ActivateClaim
  <2>1. w.pod \in Pods /\ w.source \in Sources
    BY <1>10 DEF ActivateClaim, TypeOK, WorkerTypeOK, Worker
  <2>2. [w.c EXCEPT !.phase = "Active", !.instanceId = w.pod, !.source = Provenance] \in ClaimObject
    BY <1>1, <2>1 DEF Provenance, ClaimObject, ClaimPhases, Sources
  <2>3. QED
    BY <1>1, <1>10, <2>2, WriteClaimType DEF ActivateClaim
<1>11. QED
  BY <1>2, <1>3, <1>4, <1>5, <1>6, <1>7, <1>8, <1>9, <1>10

\* A step of the worker that leaves the cluster alone keeps the types.
LEMMA MoveType ==
    ASSUME TypeOK, UNCHANGED <<clusterVars, besidesWorker>>, WorkerTypeOK'
    PROVE  TypeOK'
BY DEF TypeOK, ClusterTypeOK, ClientTypeOK, FillerTypeOK, clusterVars, claimVars, podVars,
       besidesWorker

\* The idle worker has the worker's type.
LEMMA IdleType == w' = Idle => WorkerTypeOK'
<1>1. NoClaim \in ClaimObject
  BY DEF NoClaim, ClaimObject, ClaimPhases, Sources
<1>2. Idle \in Worker
  BY <1>1 DEF Idle, Worker, Steps, Sources
<1>3. Idle.pc = "idle"
  BY DEF Idle
<1>4. QED
  BY <1>2, <1>3 DEF WorkerTypeOK

\* The worker keeps the types when it decides and when it reads.
LEMMA WorkerMovesType ==
    ASSUME TypeOK,
           \/ \E t \in Tenants : Reconcile(t)
           \/ \E p \in Pods : UseTenantPod(p) \/ AwaitTenantPod(p)
           \/ SkipSnapshot \/ StayActive \/ IdleTimeout \/ ReleaseWithoutPod \/ GiveUp
    PROVE  TypeOK'

<1>1. ASSUME NEW t \in Tenants, Reconcile(t) PROVE TypeOK'
  <2>1. seenClaim[t] \in ClaimObject
    BY DEF TypeOK, ClusterTypeOK
  <2>2. Route(seenClaim[t]) \in {"new", "active", "release"}
    BY <1>1 DEF Reconcile, Route
  <2>3. WorkerTypeOK'
    BY <1>1, <2>1, <2>2 DEF Reconcile, WorkerTypeOK, Worker, Steps, Idle, Sources
  <2>4. QED
    BY <1>1, <2>3, MoveType DEF Reconcile
<1>2. ASSUME NEW p \in Pods, UseTenantPod(p) PROVE TypeOK'
  <2>1. WorkerTypeOK'
    BY <1>2 DEF UseTenantPod, FoundTenantPod, IsPending, TypeOK, WorkerTypeOK, Worker, Steps, Sources
  <2>2. QED
    BY <1>2, <2>1, MoveType DEF UseTenantPod
<1>3. ASSUME NEW p \in Pods, AwaitTenantPod(p) PROVE TypeOK'
  BY <1>3, IdleType, MoveType DEF AwaitTenantPod
<1>4. CASE SkipSnapshot
  <2>1. WorkerTypeOK'
    BY <1>4 DEF SkipSnapshot, TypeOK, WorkerTypeOK, Worker, Steps, Sources
  <2>2. QED
    BY <1>4, <2>1, MoveType DEF SkipSnapshot
<1>5. CASE IdleTimeout
  <2>1. WorkerTypeOK'
    BY <1>5 DEF IdleTimeout, TypeOK, WorkerTypeOK, Worker, Steps, Sources
  <2>2. QED
    BY <1>5, <2>1, MoveType DEF IdleTimeout
<1>6. CASE ReleaseWithoutPod
  <2>1. WorkerTypeOK'
    BY <1>6 DEF ReleaseWithoutPod, TypeOK, WorkerTypeOK, Worker, Steps, Sources
  <2>2. QED
    BY <1>6, <2>1, MoveType DEF ReleaseWithoutPod
<1>7. CASE StayActive
  BY <1>7, IdleType, MoveType DEF StayActive
<1>8. CASE GiveUp
  BY <1>8, IdleType, MoveType DEF GiveUp
<1>9. QED
  BY <1>1, <1>2, <1>3, <1>4, <1>5, <1>6, <1>7, <1>8

\* The worker keeps the types when it writes Pods, archives and tokens.
LEMMA WorkerActsType ==
    ASSUME TypeOK,
           \/ \E p \in Pods : DeleteTerminalPod(p) \/ ClaimFromPool(p) \/ CreateTenantPod(p)
           \/ \E p \in Pods : ExtractSnapshot(p) \/ ExtractFails(p) \/ SkipExtract(p)
           \/ InjectSnapshot \/ InjectFails \/ ColdBoot \/ DropPod \/ RevokeToken
    PROVE  TypeOK'
<1>1. ClientTypeOK' /\ FillerTypeOK'
  BY DEF TypeOK, ClientTypeOK, FillerTypeOK, besidesWorker, DeleteTerminalPod, ClaimFromPool, CreateTenantPod, InjectSnapshot, InjectFails,
         ExtractSnapshot, ExtractFails, SkipExtract, ColdBoot, DropPod, RevokeToken
<1>2. ASSUME NEW p \in Pods, DeleteTerminalPod(p) PROVE TypeOK'
  <2>1. WorkerTypeOK'
    <3>1. w' = [w EXCEPT !.pc = "acquire"] /\ w.pc = "new" /\ w \in Worker /\ w.t \in Tenants
      BY <1>2 DEF DeleteTerminalPod, FoundTenantPod, IsPending, TypeOK, WorkerTypeOK
    <3>2. QED
      BY <3>1 DEF WorkerTypeOK, Worker, Steps
  <2>2. ClusterTypeOK'
    BY <1>2, OnlyDeletePodsType DEF DeleteTerminalPod
  <2>3. QED
    BY <1>1, <2>1, <2>2 DEF TypeOK
<1>3. ASSUME NEW p \in Pods, ClaimFromPool(p) PROVE TypeOK'
  <2>1. w.t \in Tenants /\ pod[p] \in PodObject
    BY <1>3 DEF ClaimFromPool, Acquiring, IsPending, TypeOK, ClusterTypeOK, WorkerTypeOK
  <2>2. [pod[p] EXCEPT !.tenant = w.t, !.poolStatus = "acquired"] \in PodObject
    BY <2>1, EditPodType
  <2>3. WorkerTypeOK'
    <3>1. w' = Idle \/ w' = [w EXCEPT !.pc = "inject", !.pod = p]
      BY <1>3 DEF ClaimFromPool
    <3>2. ASSUME w' = [w EXCEPT !.pc = "inject", !.pod = p] PROVE WorkerTypeOK'
      <4>1. w \in Worker
        BY DEF TypeOK, WorkerTypeOK
      <4>2. QED
        BY <2>1, <3>2, <4>1 DEF WorkerTypeOK, Worker, Steps
    <3>3. QED
      BY <3>1, <3>2, IdleType
  <2>4. ClusterTypeOK'
    BY <1>3, <2>2, StorePodType DEF ClaimFromPool, TypeOK, ClusterTypeOK, claimVars, podVars
  <2>5. QED
    BY <1>1, <2>3, <2>4 DEF TypeOK
<1>4. ASSUME NEW p \in Pods, CreateTenantPod(p) PROVE TypeOK'
  <2>1. w.t \in Tenants
    BY <1>4 DEF CreateTenantPod, TypeOK, WorkerTypeOK
  <2>2. [AbsentPod EXCEPT !.phase = "Pending", !.tenant = w.t] \in PodObject
    BY <2>1 DEF PodObject, AbsentPod
  <2>3. WorkerTypeOK'
    BY <1>4, <2>1 DEF CreateTenantPod, TypeOK, WorkerTypeOK, Worker, Steps, Sources
  <2>4. ClusterTypeOK'
    BY <1>4, <2>2, StorePodType DEF CreateTenantPod, TypeOK, ClusterTypeOK, claimVars
  <2>5. QED
    BY <1>1, <2>3, <2>4 DEF TypeOK
<1>5. ASSUME NEW p \in Pods PROVE ArchiveOf(p) \in Archive /\ NoArchive \in Archive
  BY DEF ArchiveOf, NoArchive, Archive, TypeOK, ClusterTypeOK
<1>6. ASSUME NEW p \in Pods, ExtractSnapshot(p) PROVE TypeOK'
  <2>1. WorkerTypeOK'
    BY <1>6 DEF ExtractSnapshot, Releasing, TypeOK, WorkerTypeOK, Worker, Steps, Sources
  <2>2. ClusterTypeOK'
    BY <1>6, <1>5 DEF ExtractSnapshot, claimVars, podVars, TypeOK, ClusterTypeOK
  <2>3. QED
    BY <1>1, <2>1, <2>2 DEF TypeOK
<1>7. ASSUME NEW p \in Pods, ExtractFails(p) PROVE TypeOK'
  <2>1. WorkerTypeOK'
    BY <1>7, IdleType DEF ExtractFails, Releasing, TypeOK, WorkerTypeOK, Worker, Steps, Sources
  <2>2. ClusterTypeOK'
    BY <1>7, <1>5 DEF ExtractFails, claimVars, podVars, TypeOK, ClusterTypeOK
  <2>3. QED
    BY <1>1, <2>1, <2>2 DEF TypeOK
<1>8. ASSUME NEW p \in Pods, SkipExtract(p) PROVE TypeOK'
  <2>1. WorkerTypeOK'
    BY <1>8 DEF SkipExtract, Releasing, TypeOK, WorkerTypeOK, Worker, Steps, Sources
  <2>2. ClusterTypeOK'
    BY <1>8, <1>5 DEF SkipExtract, claimVars, podVars, TypeOK, ClusterTypeOK
  <2>3. QED
    BY <1>1, <2>1, <2>2 DEF TypeOK
<1>9. CASE InjectSnapshot
  <2>1. WorkerTypeOK'
    BY <1>9 DEF InjectSnapshot, TypeOK, WorkerTypeOK, Worker, Steps, Sources
  <2>2. w.pod \in Pods /\ w.t \in Tenants
    BY <1>9 DEF InjectSnapshot, TypeOK, WorkerTypeOK
  <2>3. snapshot[w.t].data \subseteq Units
    BY <2>2 DEF TypeOK, ClusterTypeOK, Archive
  <2>4. ClusterTypeOK'
    BY <1>9, <2>2, <2>3 DEF InjectSnapshot, TypeOK, ClusterTypeOK, claimVars
  <2>5. QED
    BY <1>1, <2>1, <2>4 DEF TypeOK
<1>10. CASE ColdBoot
  <2>1. WorkerTypeOK'
    BY <1>10 DEF ColdBoot, Acquiring, IsPending, TypeOK, WorkerTypeOK, Worker, Steps, Sources
  <2>2. ClusterTypeOK'
    BY <1>10 DEF ColdBoot, claimVars, podVars, TypeOK, ClusterTypeOK
  <2>3. QED
    BY <1>1, <2>1, <2>2 DEF TypeOK
<1>11. CASE DropPod
  <2>1. WorkerTypeOK'
    BY <1>11 DEF DropPod, TypeOK, WorkerTypeOK, Worker, Steps, Sources
  <2>2. ClusterTypeOK'
    BY <1>11, OnlyDeletePodsType DEF DropPod
  <2>3. QED
    BY <1>1, <2>1, <2>2 DEF TypeOK
<1>12. CASE RevokeToken
  <2>1. WorkerTypeOK'
    BY <1>12 DEF RevokeToken, TypeOK, WorkerTypeOK, Worker, Steps, Sources
  <2>2. ClusterTypeOK'
    BY <1>12 DEF RevokeToken, claimVars, podVars, TypeOK, ClusterTypeOK
  <2>3. QED
    BY <1>1, <2>1, <2>2 DEF TypeOK
<1>13. CASE InjectFails
  <2>1. WorkerTypeOK'
    BY <1>13 DEF InjectFails, TypeOK, WorkerTypeOK, Worker, Steps, Sources
  <2>2. PICK part \in SUBSET snapshot[w.t].data :
            overlay' = [overlay EXCEPT ![w.pod] = @ \cup part]
    BY <1>13 DEF InjectFails
  <2>3. w.pod \in Pods /\ w.t \in Tenants
    BY <1>13 DEF InjectFails, TypeOK, WorkerTypeOK
  <2>4. part \subseteq Units
    BY <2>3 DEF TypeOK, ClusterTypeOK, Archive
  <2>5. ClusterTypeOK'
    BY <1>13, <2>2, <2>3, <2>4 DEF InjectFails, TypeOK, ClusterTypeOK, claimVars
  <2>6. QED
    BY <1>1, <2>1, <2>5 DEF TypeOK
<1>14. QED
  BY <1>2, <1>3, <1>4, <1>6, <1>7, <1>8, <1>9, <1>10, <1>11, <1>12, <1>13

\* The API keeps the types.
LEMMA APIType ==
    ASSUME TypeOK, API
    PROVE  TypeOK'
<1>1. NoClaim \in ClaimObject /\ NewClaim \in ClaimObject
  BY DEF NoClaim, NewClaim, ClaimObject, ClaimPhases, Sources
<1>2. ASSUME NEW t \in Tenants, DeleteClaim(t) \/ StoreClaim(t, NewClaim)
      PROVE  /\ claim' \in [Tenants -> ClaimObject]
             /\ seenClaim' \in [Tenants -> ClaimObject]
             /\ token' \in [Tenants -> {"none", "live", "orphan"}]
  <2>1. \A c \in ClaimObject : [c EXCEPT !.deleting = TRUE] \in ClaimObject
    BY DEF ClaimObject
  <2>2. [claim[t] EXCEPT !.deleting = TRUE] \in ClaimObject
    BY <2>1 DEF TypeOK, ClusterTypeOK
  <2>3. QED
    BY <1>1, <1>2, <2>2, StoreClaimType DEF DeleteClaim
<1>3. WorkerTypeOK' /\ FillerTypeOK'
  BY DEF API, TypeOK, WorkerTypeOK, FillerTypeOK, besidesWorker, CreateClaim, AcquireReleased, StripFinalizer, DeleteReleased,
         RecreateClaim, ReleaseInstance, DestroyInstance, DeletePool, processVars
<1>4. NoRequest \in Client
  BY <1>1 DEF NoRequest, Client
<1>5. ASSUME NEW k \in Clients 
      PROVE  /\ client[k] \in Client
             /\ client[k].pc # "idle" => client[k].t \in Tenants /\ client[k].c \in ClaimObject
  BY DEF TypeOK, ClientTypeOK, Client
<1>6. ASSUME NEW k \in Clients, Done(k) PROVE ClientTypeOK'
  BY <1>4, <1>5, <1>6 DEF Done, ClientTypeOK, TypeOK, NoRequest
<1>7. ASSUME NEW k \in Clients, NEW t \in Tenants, CreateClaim(k, t) PROVE TypeOK'
  BY <1>2, <1>3, <1>7 DEF CreateClaim, podVars, processVars, besidesWorker, TypeOK, ClusterTypeOK, ClientTypeOK
<1>8. ASSUME NEW k \in Clients, NEW t \in Tenants, AcquireReleased(k, t) PROVE TypeOK'
  <2>1. [pc |-> IF claim[t].finalizer THEN "strip" ELSE "delete", t |-> t, c |-> claim[t]] \in Client
    BY DEF Client, TypeOK, ClusterTypeOK
  <2>2. ClientTypeOK'
    BY <1>8, <2>1 DEF AcquireReleased, TypeOK, ClientTypeOK
  <2>3. QED
    BY <1>3, <1>8, <2>2 DEF AcquireReleased, clusterVars, claimVars, podVars, TypeOK, ClusterTypeOK
<1>9. ASSUME NEW k \in Clients, StripFinalizer(k) PROVE TypeOK'
  <2>1. client[k].t \in Tenants /\ client[k].c \in ClaimObject
    BY <1>5, <1>9 DEF StripFinalizer
  <2>2. [client[k].c EXCEPT !.finalizer = FALSE] \in ClaimObject
    BY <2>1 DEF ClaimObject
  <2>3. ClientTypeOK'
    <3>1. CASE Done(k)
      BY <1>6, <3>1
    <3>2. CASE client' = [client EXCEPT ![k].pc = "delete"]
      BY <1>5, <2>1, <3>2 DEF TypeOK, ClientTypeOK, Client
    <3>3. QED
      BY <1>9, <3>1, <3>2 DEF StripFinalizer
  <2>4. ClusterTypeOK'
    BY <1>9, <2>1, <2>2, StoreClaimType DEF StripFinalizer, claimVars, podVars, TypeOK, ClusterTypeOK
  <2>5. QED
    BY <1>3, <2>3, <2>4 DEF TypeOK
<1>10. ASSUME NEW k \in Clients, DeleteReleased(k) PROVE TypeOK'
  <2>1. client[k].t \in Tenants
    BY <1>5, <1>10 DEF DeleteReleased
  <2>2. ClientTypeOK'
    BY <1>5, <1>10, <2>1 DEF DeleteReleased, TypeOK, ClientTypeOK, Client
  <2>3. ClusterTypeOK'
    BY <1>2, <1>10, <2>1 DEF DeleteReleased, claimVars, podVars, TypeOK, ClusterTypeOK
  <2>4. QED
    BY <1>3, <2>2, <2>3 DEF TypeOK
<1>11. ASSUME NEW k \in Clients, RecreateClaim(k) PROVE TypeOK'
  <2>1. client[k].t \in Tenants
    BY <1>5, <1>11 DEF RecreateClaim
  <2>2. ClientTypeOK'
    BY <1>6, <1>11 DEF RecreateClaim
  <2>3. ClusterTypeOK'
    BY <1>2, <1>11, <2>1 DEF RecreateClaim, claimVars, podVars, TypeOK, ClusterTypeOK
  <2>4. QED
    BY <1>3, <2>2, <2>3 DEF TypeOK
<1>12. ASSUME NEW t \in Tenants, ReleaseInstance(t) PROVE TypeOK'
  BY <1>2, <1>3, <1>12 DEF ReleaseInstance, podVars, processVars, besidesWorker, TypeOK, ClusterTypeOK, ClientTypeOK
<1>13. ASSUME NEW p \in Pods, DestroyInstance(p) PROVE TypeOK'
  BY <1>3, <1>13, DeletePodsType
     DEF DestroyInstance, claimVars, processVars, besidesWorker, TypeOK, ClusterTypeOK, ClientTypeOK
<1>14. CASE DeletePool
  BY <1>3, <1>14 DEF DeletePool, claimVars, podVars, processVars, besidesWorker, TypeOK, ClusterTypeOK, ClientTypeOK
<1>15. QED
  BY <1>7, <1>8, <1>9, <1>10, <1>11, <1>12, <1>13, <1>14 DEF API

\* The surroundings do not touch the processes.
LEMMA ProcessesType ==
    ASSUME TypeOK, UNCHANGED processVars, ClusterTypeOK'
    PROVE  TypeOK'
BY DEF processVars, besidesWorker, TypeOK, WorkerTypeOK, ClientTypeOK, FillerTypeOK

\* What is read of the Pods, and the passes made of it, have the pass's type.
LEMMA PassType ==
    ASSUME TypeOK
    PROVE  /\ NoPass \in Pass
           /\ \A S \in SUBSET Pods : AsRead(S) \in SUBSET (Pods \X PodObject)
           /\ \A pass \in Pass : Left(pass) \in Pass
<1>1. NoPass \in Pass
  BY DEF NoPass, Pass
<1>2. \A S \in SUBSET Pods : AsRead(S) \in SUBSET (Pods \X PodObject)
  BY DEF AsRead, TypeOK, ClusterTypeOK
<1>3. QED
  BY <1>1, <1>2 DEF Left

\* The number of Pods to create is a natural number: it is the smaller of two
\* positive differences.
LEMMA MissingType == Missing \in Nat
<1>1. /\ Cardinality(PoolPods(seenPod)) \in Nat
      /\ Cardinality(WarmPods \ NowReady) \in Nat
  <2>1. IsFiniteSet(PoolPods(seenPod)) /\ IsFiniteSet(WarmPods \ NowReady)
    BY PoolAssumption, FS_Subset DEF PoolAssumption, PoolPods, WarmPods, PresentPods
  <2>2. QED
    BY <2>1, FS_CardinalityType
<1>2. QED
  BY <1>1, PoolAssumption DEF PoolAssumption, Missing

\* The pool reconciler keeps the types.
LEMMA PoolType ==
    ASSUME TypeOK, PoolReconciler
    PROVE  TypeOK'
<1>0. filler \in Pass /\ NoPass \in Pass
  BY PassType DEF TypeOK, FillerTypeOK
<1>1. WorkerTypeOK' /\ ClientTypeOK'
  BY DEF TypeOK, WorkerTypeOK, ClientTypeOK, PoolReconciler, ReconcilePool, ReconcileDeletedPool,
         RemovePoolFinalizer, PoolGivesUp, MarkPoolPodReady, CreatePoolPod, DeletePoolPod
<1>2. ASSUME NEW r \in filler.todo
      PROVE  [filler EXCEPT !.todo = @ \ {r}] \in Pass
  BY <1>0 DEF Pass
<1>3. ASSUME NEW p \in Pods, CreatePoolPod(p) PROVE TypeOK'
  <2>1. [AbsentPod EXCEPT !.phase = "Pending", !.poolStatus = "warming"] \in PodObject
    BY DEF AbsentPod, PodObject
  <2>2. ClusterTypeOK'
    BY <1>3, <2>1, StorePodType DEF CreatePoolPod, claimVars, TypeOK, ClusterTypeOK
  <2>3. [filler EXCEPT !.create = @ - 1] \in Pass
    BY <1>0, <1>3 DEF CreatePoolPod, Pass
  <2>4. FillerTypeOK'
    BY <1>3, <2>3, PassType DEF CreatePoolPod, FillerTypeOK
  <2>5. QED
    BY <1>1, <2>2, <2>4 DEF TypeOK
<1>4. ASSUME NEW p \in Pods, MarkPoolPodReady(p) PROVE TypeOK'
  <2>0. pod[p] \in PodObject
    BY DEF TypeOK, ClusterTypeOK
  <2>1. [pod[p] EXCEPT !.poolStatus = "ready"] \in PodObject
    BY <2>0, EditPodType
  <2>2. ClusterTypeOK'
    BY <1>4, <2>1, StorePodType DEF MarkPoolPodReady, claimVars, podVars, TypeOK, ClusterTypeOK
  <2>3. FillerTypeOK'
    BY <1>0, <1>2, <1>4, PassType DEF MarkPoolPodReady, FillerTypeOK
  <2>4. QED
    BY <1>1, <2>2, <2>3 DEF TypeOK
<1>5. ASSUME NEW p \in Pods, DeletePoolPod(p) PROVE TypeOK'
  <2>1. ClusterTypeOK'
    BY <1>5, OnlyDeletePodsType DEF DeletePoolPod
  <2>2. FillerTypeOK'
    BY <1>2, <1>5 DEF DeletePoolPod, FillerTypeOK
  <2>3. QED
    BY <1>1, <2>1, <2>2 DEF TypeOK
<1>6. CASE ReconcilePool
  <2>1. NowReady \in SUBSET Pods
    BY DEF NowReady, WarmPods, PresentPods
  <2>2. FillerTypeOK'
    BY <1>6, <2>1, PassType, MissingType DEF ReconcilePool, FillerTypeOK, Pass
  <2>3. QED
    BY <1>1, <1>6, <2>2 DEF ReconcilePool, clusterVars, claimVars, podVars, TypeOK, ClusterTypeOK
<1>7. CASE ReconcileDeletedPool
  <2>1. LabelledPods \in SUBSET Pods
    BY DEF LabelledPods, PresentPods
  <2>2. FillerTypeOK'
    BY <1>7, <2>1, PassType DEF ReconcileDeletedPool, FillerTypeOK, Pass
  <2>3. QED
    BY <1>1, <1>7, <2>2 DEF ReconcileDeletedPool, clusterVars, claimVars, podVars, TypeOK, ClusterTypeOK
<1>8. CASE RemovePoolFinalizer
  BY <1>0, <1>1, <1>8 DEF RemovePoolFinalizer, claimVars, podVars, TypeOK, ClusterTypeOK, FillerTypeOK
<1>9. CASE PoolGivesUp
  BY <1>0, <1>1, <1>9 DEF PoolGivesUp, clusterVars, claimVars, podVars, TypeOK, ClusterTypeOK, FillerTypeOK
<1>10. QED
  BY <1>3, <1>4, <1>5, <1>6, <1>7, <1>8, <1>9 DEF PoolReconciler

\* Kubernetes, the tenants and the workload controller keep the types.
LEMMA SurroundingsType ==
    ASSUME TypeOK, Surroundings
    PROVE  TypeOK'
<1>1. UNCHANGED processVars
  BY DEF Surroundings, PodRuns, PodFails, PodGone, ObservePod, ObserveClaim, CollectToken,
         TenantWork, WorkloadChanges, WorkloadDeleted
<1>2. ASSUME NEW p \in Pods, PodRuns(p) PROVE ClusterTypeOK'
  <2>0. pod[p] \in PodObject
    BY DEF TypeOK, ClusterTypeOK
  <2>1. [pod[p] EXCEPT !.phase = "Running"] \in PodObject
    BY <2>0, EditPodType
  <2>2. QED
    BY <1>2, <2>1, StorePodType DEF PodRuns, claimVars, TypeOK, ClusterTypeOK
<1>3. ASSUME NEW p \in Pods, PodFails(p) PROVE ClusterTypeOK'
  <2>0. pod[p] \in PodObject
    BY DEF TypeOK, ClusterTypeOK
  <2>1. [pod[p] EXCEPT !.phase = "Failed"] \in PodObject
    BY <2>0, EditPodType
  <2>2. QED
    BY <1>3, <2>1, StorePodType DEF PodFails, claimVars, TypeOK, ClusterTypeOK
<1>4. ASSUME NEW p \in Pods, PodGone(p) PROVE ClusterTypeOK'
  <2>1. AbsentPod \in PodObject
    BY DEF AbsentPod, PodObject
  <2>2. QED
    BY <1>4, <2>1 DEF PodGone, claimVars, TypeOK, ClusterTypeOK
<1>5. ASSUME NEW p \in Pods, ObservePod(p) PROVE ClusterTypeOK'
  BY <1>5 DEF ObservePod, claimVars, TypeOK, ClusterTypeOK
<1>6. ASSUME NEW t \in Tenants, ObserveClaim(t) PROVE ClusterTypeOK'
  BY <1>6 DEF ObserveClaim, podVars, TypeOK, ClusterTypeOK
<1>7. ASSUME NEW t \in Tenants, CollectToken(t) PROVE ClusterTypeOK'
  BY <1>7 DEF CollectToken, claimVars, podVars, TypeOK, ClusterTypeOK
<1>8. ASSUME NEW t \in Tenants, NEW p \in Pods, TenantWork(t, p) PROVE ClusterTypeOK'
  <2>1. MaxWork \in Nat /\ work[t] \in 0..MaxWork /\ work[t] < MaxWork
    BY <1>8, ClusterAssumption DEF ClusterAssumption, TenantWork, TypeOK, ClusterTypeOK
  <2>2. work[t] + 1 \in 1..MaxWork /\ work[t] + 1 \in 0..MaxWork
    BY <2>1
  <2>3. <<t, work[t] + 1>> \in Units
    BY <2>2 DEF Units
  <2>4. QED
    BY <1>8, <2>2, <2>3 DEF TenantWork, claimVars, TypeOK, ClusterTypeOK
<1>9. ASSUME WorkloadChanges PROVE ClusterTypeOK'
  BY <1>9 DEF WorkloadChanges, claimVars, podVars, TypeOK, ClusterTypeOK
<1>10. ASSUME WorkloadDeleted PROVE ClusterTypeOK'
  BY <1>10, DeletePodsType DEF WorkloadDeleted, claimVars, TypeOK, ClusterTypeOK
<1>11. QED
  BY <1>1, <1>2, <1>3, <1>4, <1>5, <1>6, <1>7, <1>8, <1>9, <1>10, ProcessesType DEF Surroundings

\* The system starts in states of the right type.
LEMMA InitType == Init => TypeOK
<1>1. NoClaim \in ClaimObject /\ AbsentPod \in PodObject /\ NoArchive \in Archive
  <2>1. NoClaim \in ClaimObject
    BY DEF NoClaim, ClaimObject, ClaimPhases, Sources
  <2>2. AbsentPod \in PodObject
    BY DEF AbsentPod, PodObject
  <2>3. NoArchive \in Archive
    BY DEF NoArchive, Archive
  <2>4. QED
    BY <2>1, <2>2, <2>3
<1>2. Init => ClusterTypeOK
  <2>1. 0 \in 0..MaxWork
    BY ClusterAssumption DEF ClusterAssumption
  <2>2. QED
    BY <1>1, <2>1 DEF Init, ClusterInit, ClusterTypeOK
<1>3. Init => WorkerTypeOK
  <2>1. Idle \in Worker /\ Idle.pc = "idle"
    BY <1>1 DEF Idle, Worker, Steps, Sources
  <2>2. QED
    BY <2>1 DEF Init, WorkerInit, WorkerTypeOK
<1>4. Init => ClientTypeOK
  <2>1. NoRequest \in Client /\ NoRequest.pc = "idle"
    BY <1>1 DEF NoRequest, Client
  <2>2. QED
    BY <2>1 DEF Init, ClientInit, ClientTypeOK
<1>5. Init => FillerTypeOK
  BY DEF Init, FillerInit, FillerTypeOK, NoPass, Pass
<1>6. QED
  BY <1>2, <1>3, <1>4, <1>5 DEF TypeOK

\* Every step keeps the types.
LEMMA NextType == TypeOK /\ [Next]_vars => TypeOK'
<1>1. ASSUME TypeOK, ClaimReconciler PROVE TypeOK'
  BY <1>1, WorkerWritesType, WorkerMovesType, WorkerActsType DEF ClaimReconciler
<1>2. ASSUME TypeOK, UNCHANGED vars PROVE TypeOK'
  BY <1>2, ProcessesType DEF vars, clusterVars, claimVars, podVars, TypeOK, ClusterTypeOK
<1>3. QED
  BY <1>1, <1>2, APIType, PoolType, SurroundingsType DEF Next

\* Every state of the system has the types the API server's schemas and the
\* two processes' local state give it.
THEOREM TypeCorrect == Spec => []TypeOK
BY InitType, NextType, PTL DEF Spec

-----------------------------------------------------------------------------
(* Isolation.  A tenant's data stays in the tenant's Pods and archive       *)
(* because nobody acts on a Pod of another tenant, and nobody does because  *)
(* whatever names a Pod on behalf of a tenant (a claim, the worker, the     *)
(* cache) names one that has that tenant's label or is gone.                *)

BoundTo(t, p) == p \in Pods => pod[p].phase = "absent" \/ pod[p].tenant = t

BlankWhenAbsent == \A p \in Pods :
    pod[p].phase = "absent" => pod[p] = AbsentPod /\ overlay[p] = {}

PoolPodsAreNobodys == \A p \in Pods :
    pod[p].poolStatus \in {"warming", "ready"} => pod[p].tenant = NoTenant

CacheNamesOwner == \A p \in Pods :
    seenPod[p].phase # "absent" /\ seenPod[p].tenant \in Tenants
        => BoundTo(seenPod[p].tenant, p)

OverlaysByTenant == \A p \in Pods : \A u \in overlay[p] : u[1] = pod[p].tenant
ArchivesByTenant == \A t \in Tenants : \A u \in snapshot[t].data : u[1] = t

PodsInv  == BlankWhenAbsent /\ PoolPodsAreNobodys /\ CacheNamesOwner /\ OverlaysByTenant
ClaimsInv == \A t \in Tenants : BoundTo(t, claim[t].instanceId)
WorkerInv == w.pc \in {"inject", "activate"} => BoundTo(w.t, w.pod)

\* What the pool reconciler means to mark as ready it has read from the pool.
FillerInv == filler.pc = "fill" => \A r \in filler.todo :
    r[2].phase # "absent" /\ r[2].poolStatus = "warming"

IsolationInv ==
    TypeOK /\ PodsInv /\ ClaimsInv /\ WorkerInv /\ FillerInv /\ ArchivesByTenant

-----------------------------------------------------------------------------
(* What a step may do to one Pod. *)

SameData(p) == overlay'[p] = overlay[p] /\ seenPod'[p] \in {seenPod[p], pod'[p]}

\* It stays the tenant's or nobody's, or it goes.
KeptOrGone(p) ==
    /\ seenPod'[p] \in {seenPod[p], pod'[p]}
    /\ \/ pod'[p] = AbsentPod /\ overlay'[p] = {}
       \/ pod'[p] = pod[p] /\ overlay'[p] = overlay[p]
       \/ /\ pod[p].phase # "absent" /\ pod'[p].phase # "absent"
          /\ pod'[p].tenant = pod[p].tenant /\ overlay'[p] = overlay[p]
          /\ pod'[p].poolStatus \in {"warming", "ready"}
                => pod[p].poolStatus \in {"warming", "ready"}

\* It is created under a name that nothing mentions.
Created(p) ==
    /\ p \in FreshPods
    /\ SameData(p)
    /\ pod'[p].phase = "Pending"
    /\ pod'[p].poolStatus \in {"warming", "ready"} => pod'[p].tenant = NoTenant

\* It leaves the pool, seen as it is.
HandedOut(p) ==
    /\ SameData(p)
    /\ pod[p].phase # "absent" /\ pod'[p].phase # "absent"
    /\ seenPod[p] = pod[p]
    /\ pod[p].poolStatus = "ready" /\ pod'[p].poolStatus = "acquired"

PodEffect(p) == KeptOrGone(p) \/ Created(p) \/ HandedOut(p)

\* What names a tenant's Pod still does after the step, but for names that
\* nothing mentions.
StillBound == \A t \in Tenants : \A p \in Pods \ FreshPods : BoundTo(t, p) => BoundTo(t, p)'

\* A Pod of the pool is blank: nobody's data is in it.
LEMMA NobodysPodIsEmpty ==
    ASSUME IsolationInv, NEW p \in Pods, pod[p].tenant = NoTenant
    PROVE  overlay[p] = {}
<1>1. \A u \in overlay[p] : u \in Units /\ u[1] = NoTenant
  BY DEF IsolationInv, PodsInv, OverlaysByTenant, TypeOK, ClusterTypeOK
<1>2. \A u \in Units : u[1] \in Tenants
  BY DEF Units
<1>3. QED
  BY <1>1, <1>2, ClusterAssumption DEF ClusterAssumption

\* A step of these effects on every Pod keeps the invariant of the Pods.
LEMMA EffectsKeepPodsInv ==
    ASSUME IsolationInv, \A p \in Pods : PodEffect(p)
    PROVE  PodsInv' /\ StillBound
<1>0. /\ BlankWhenAbsent /\ PoolPodsAreNobodys /\ CacheNamesOwner /\ OverlaysByTenant
      /\ AbsentPod.phase = "absent" /\ AbsentPod.tenant = NoTenant
      /\ AbsentPod.poolStatus = "none" /\ NoTenant \notin Tenants
  BY ClusterAssumption DEF IsolationInv, PodsInv, AbsentPod, ClusterAssumption
<1>1. ASSUME NEW p \in Pods, Created(p) PROVE pod[p] = AbsentPod /\ overlay[p] = {} /\ seenPod[p].phase = "absent"
  BY <1>0, <1>1 DEF Created, FreshPods, BlankWhenAbsent
<1>2. ASSUME NEW p \in Pods, HandedOut(p) PROVE pod[p].tenant = NoTenant /\ overlay[p] = {}
  BY <1>0, <1>2, NobodysPodIsEmpty DEF HandedOut, PoolPodsAreNobodys
<1>3. ASSUME NEW p \in Pods PROVE pod'[p].phase = "absent" => pod'[p] = AbsentPod /\ overlay'[p] = {}
  BY <1>0, <1>1, <1>2 DEF PodEffect, KeptOrGone, Created, HandedOut, BlankWhenAbsent
<1>4. ASSUME NEW p \in Pods, pod'[p].poolStatus \in {"warming", "ready"} PROVE pod'[p].tenant = NoTenant
  BY <1>0, <1>1, <1>2, <1>4 DEF PodEffect, KeptOrGone, Created, HandedOut, PoolPodsAreNobodys
<1>5. ASSUME NEW p \in Pods, seenPod'[p].phase # "absent", seenPod'[p].tenant \in Tenants
      PROVE  pod'[p].phase = "absent" \/ pod'[p].tenant = seenPod'[p].tenant
  <2>1. CASE KeptOrGone(p)
    BY <1>0, <1>5, <2>1 DEF KeptOrGone, CacheNamesOwner, BoundTo
  <2>2. CASE Created(p)
    BY <1>0, <1>1, <1>5, <2>2 DEF Created, SameData
  <2>3. CASE HandedOut(p)
    BY <1>0, <1>2, <1>5, <2>3 DEF HandedOut, SameData
  <2>4. QED
    BY <2>1, <2>2, <2>3 DEF PodEffect
<1>6. ASSUME NEW p \in Pods, NEW u \in overlay'[p] PROVE u[1] = pod'[p].tenant
  <2>1. KeptOrGone(p)
    BY <1>1, <1>2, <1>6 DEF PodEffect, Created, HandedOut, SameData
  <2>2. QED
    BY <1>0, <1>6, <2>1 DEF KeptOrGone, OverlaysByTenant
<1>7. PodsInv'
  BY <1>3, <1>4, <1>5, <1>6
     DEF PodsInv, BlankWhenAbsent, PoolPodsAreNobodys, CacheNamesOwner, OverlaysByTenant, BoundTo
<1>8. ASSUME NEW t \in Tenants, NEW p \in Pods, p \notin FreshPods,
             pod[p].phase = "absent" \/ pod[p].tenant = t
      PROVE  pod'[p].phase = "absent" \/ pod'[p].tenant = t
  <2>1. ~Created(p) /\ ~HandedOut(p)
    BY <1>0, <1>2, <1>8 DEF Created, HandedOut
  <2>2. QED
    BY <1>0, <1>8, <2>1 DEF PodEffect, KeptOrGone
<1>9. QED
  BY <1>7, <1>8 DEF StillBound, BoundTo

(* The effects of the steps that do not touch the Pods, delete some, or store one. *)

\* A step that leaves the Pods alone keeps each with its tenant.
LEMMA UntouchedPods ==
    ASSUME UNCHANGED podVars
    PROVE  \A p \in Pods : PodEffect(p)
BY DEF podVars, PodEffect, KeptOrGone

\* Deleting Pods keeps each with its tenant or lets it go.
LEMMA DeletedPods ==
    ASSUME IsolationInv, NEW STATE S, DeletePods(S)
    PROVE  \A p \in Pods : PodEffect(p)
<1>1. /\ pod \in [Pods -> PodObject] /\ BlankWhenAbsent
      /\ pod' = [p \in Pods |-> IF p \in S THEN AfterDelete(pod[p]) ELSE pod[p]]
      /\ seenPod' = seenPod \/ seenPod' = pod'
      /\ overlay' = [p \in Pods |-> IF pod'[p].phase = "absent" THEN {} ELSE overlay[p]]
  BY DEF IsolationInv, PodsInv, TypeOK, ClusterTypeOK, DeletePods
<1>2. ASSUME NEW p \in Pods PROVE KeptOrGone(p)
  <2>1. CASE p \notin S
    BY <1>1, <2>1 DEF KeptOrGone, BlankWhenAbsent
  <2>2. CASE p \in S /\ pod[p].phase \in {"absent", "Failed"}
    BY <1>1, <2>2 DEF KeptOrGone, AfterDelete, AbsentPod
  <2>3. CASE p \in S /\ pod[p].phase \notin {"absent", "Failed"}
    <3>1. pod'[p] = [pod[p] EXCEPT !.terminating = TRUE]
      BY <1>1, <2>3 DEF AfterDelete
    <3>2. /\ pod'[p].phase = pod[p].phase /\ pod'[p].tenant = pod[p].tenant
          /\ pod'[p].poolStatus = pod[p].poolStatus
      BY <1>1, <3>1 DEF PodObject
    <3>3. QED
      BY <1>1, <2>3, <3>2 DEF KeptOrGone
  <2>4. QED
    BY <2>1, <2>2, <2>3
<1>3. QED
  BY <1>2 DEF PodEffect

\* Storing one Pod leaves the others alone.
LEMMA StoredPod ==
    ASSUME IsolationInv, NEW q \in Pods, NEW obj \in PodObject, StorePod(q, obj)
    PROVE  /\ pod'[q] = obj /\ SameData(q)
           /\ \A p \in Pods \ {q} : PodEffect(p)
BY DEF IsolationInv, TypeOK, ClusterTypeOK, StorePod, SameData, PodEffect, KeptOrGone


\* A step other than the two that write into an overlay has these effects only.
LEMMA StepEffects ==
    ASSUME IsolationInv, Next,
           ~InjectSnapshot, ~InjectFails, \A t \in Tenants, p \in Pods : ~TenantWork(t, p)
    PROVE  \A p \in Pods : PodEffect(p)
<1>0. TypeOK
  BY DEF IsolationInv
<1>1. CASE UNCHANGED podVars
  BY <1>1, UntouchedPods
<1>2. ASSUME NEW q \in Pods, DeleteTerminalPod(q) \/ DestroyInstance(q) PROVE \A p \in Pods : PodEffect(p)
  BY <1>2, DeletedPods DEF DeleteTerminalPod, DestroyInstance
<1>3. ASSUME NEW q \in Pods, ClaimFromPool(q) PROVE \A p \in Pods : PodEffect(p)
  <2>1. CASE pod[q] = seenPod[q]
    <3>1. w.t \in Tenants /\ pod[q] \in PodObject
      BY <1>0, <1>3 DEF ClaimFromPool, Acquiring, IsPending, TypeOK, WorkerTypeOK, ClusterTypeOK
    <3>2. DEFINE obj == [pod[q] EXCEPT !.tenant = w.t, !.poolStatus = "acquired"]
    <3>3. obj \in PodObject /\ obj.phase = pod[q].phase /\ obj.poolStatus = "acquired"
      BY <3>1 DEF PodObject
    <3>4. StorePod(q, obj)
      BY <1>3, <2>1 DEF ClaimFromPool
    <3>5. pod'[q] = obj /\ SameData(q) /\ \A p \in Pods \ {q} : PodEffect(p)
      BY <3>3, <3>4, StoredPod
    <3>6. pod[q].phase # "absent" /\ pod[q].poolStatus = "ready"
      BY <1>3, <2>1 DEF ClaimFromPool, ReadyPoolPods, PresentPods
    <3>7. HandedOut(q)
      BY <2>1, <3>3, <3>5, <3>6 DEF HandedOut
    <3>8. QED
      BY <3>5, <3>7 DEF PodEffect
  <2>2. CASE pod[q] # seenPod[q]
    BY <1>3, <2>2, UntouchedPods DEF ClaimFromPool
  <2>3. QED
    BY <2>1, <2>2
<1>4. ASSUME NEW q \in Pods, NEW obj \in PodObject, q \in FreshPods, StorePod(q, obj),
             obj.phase = "Pending",
             obj.poolStatus \in {"warming", "ready"} => obj.tenant = NoTenant
      PROVE  \A p \in Pods : PodEffect(p)
  BY <1>4, StoredPod DEF PodEffect, Created
<1>5. ASSUME NEW q \in Pods, CreateTenantPod(q) PROVE \A p \in Pods : PodEffect(p)
  <2>1. w.t \in Tenants
    BY <1>0, <1>5 DEF CreateTenantPod, TypeOK, WorkerTypeOK
  <2>2. DEFINE obj == [AbsentPod EXCEPT !.phase = "Pending", !.tenant = w.t]
  <2>3. obj \in PodObject /\ obj.phase = "Pending" /\ obj.poolStatus = "none"
    BY <2>1 DEF PodObject, AbsentPod
  <2>4. QED
    BY <1>4, <1>5, <2>3 DEF CreateTenantPod
<1>6. ASSUME NEW q \in Pods, CreatePoolPod(q) PROVE \A p \in Pods : PodEffect(p)
  <2>1. DEFINE obj == [AbsentPod EXCEPT !.phase = "Pending", !.poolStatus = "warming"]
  <2>2. obj \in PodObject /\ obj.phase = "Pending" /\ obj.tenant = NoTenant
    BY DEF PodObject, AbsentPod
  <2>3. QED
    BY <1>4, <1>6, <2>2 DEF CreatePoolPod
<1>7. ASSUME NEW q \in Pods, NEW obj \in PodObject, StorePod(q, obj),
             pod[q].phase # "absent", obj.phase # "absent", obj.tenant = pod[q].tenant,
             obj.poolStatus \in {"warming", "ready"} => pod[q].poolStatus \in {"warming", "ready"}
      PROVE  \A p \in Pods : PodEffect(p)
  BY <1>7, StoredPod DEF PodEffect, KeptOrGone, SameData
<1>8. ASSUME NEW q \in Pods, MarkPoolPodReady(q) PROVE \A p \in Pods : PodEffect(p)
  <2>1. DEFINE obj == [pod[q] EXCEPT !.poolStatus = "ready"]
  <2>2. PICK r \in filler.todo :
            IF pod[q] = r[2] THEN StorePod(q, obj) ELSE UNCHANGED podVars
    BY <1>8 DEF MarkPoolPodReady
  <2>3. CASE pod[q] = r[2]
    <3>1. /\ pod[q] \in PodObject
          /\ pod[q].phase # "absent" /\ pod[q].poolStatus = "warming"
      BY <1>0, <1>8, <2>2, <2>3 DEF MarkPoolPodReady, IsolationInv, FillerInv, TypeOK, ClusterTypeOK
    <3>2. obj \in PodObject /\ obj.phase # "absent" /\ obj.tenant = pod[q].tenant
      BY <3>1 DEF PodObject
    <3>3. QED
      BY <1>7, <2>2, <2>3, <3>1, <3>2
  <2>4. CASE pod[q] # r[2]
    BY <1>1, <2>2, <2>4
  <2>5. QED
    BY <2>3, <2>4
<1>9. ASSUME NEW q \in Pods, PodRuns(q) PROVE \A p \in Pods : PodEffect(p)
  <2>1. DEFINE obj == [pod[q] EXCEPT !.phase = "Running"]
  <2>2. pod[q] \in PodObject /\ pod[q].phase # "absent"
    BY <1>0, <1>9 DEF TypeOK, ClusterTypeOK, PodRuns
  <2>3. /\ obj \in PodObject /\ obj.phase # "absent" /\ obj.tenant = pod[q].tenant
        /\ obj.poolStatus \in {"warming", "ready"} => pod[q].poolStatus \in {"warming", "ready"}
    BY <1>9, <2>2 DEF PodObject, PodRuns
  <2>4. QED
    BY <1>7, <1>9, <2>2, <2>3 DEF PodRuns
<1>10. ASSUME NEW q \in Pods, PodFails(q) PROVE \A p \in Pods : PodEffect(p)
  <2>1. DEFINE obj == [pod[q] EXCEPT !.phase = "Failed"]
  <2>2. pod[q] \in PodObject /\ pod[q].phase # "absent"
    BY <1>0, <1>10 DEF TypeOK, ClusterTypeOK, PodFails
  <2>3. /\ obj \in PodObject /\ obj.phase # "absent" /\ obj.tenant = pod[q].tenant
        /\ obj.poolStatus \in {"warming", "ready"} => pod[q].poolStatus \in {"warming", "ready"}
    BY <1>10, <2>2 DEF PodObject, PodFails
  <2>4. QED
    BY <1>7, <1>10, <2>2, <2>3 DEF PodFails
<1>11. ASSUME NEW q \in Pods, PodGone(q) PROVE \A p \in Pods : PodEffect(p)
  BY <1>0, <1>11 DEF PodGone, PodEffect, KeptOrGone, TypeOK, ClusterTypeOK
<1>12. ASSUME NEW q \in Pods, ObservePod(q) PROVE \A p \in Pods : PodEffect(p)
  BY <1>0, <1>12 DEF ObservePod, PodEffect, KeptOrGone, TypeOK, ClusterTypeOK
<1>13. CASE DropPod
  BY <1>13, DeletedPods DEF DropPod
<1>14. ASSUME NEW q \in Pods, DeletePoolPod(q) PROVE \A p \in Pods : PodEffect(p)
  BY <1>14, DeletedPods DEF DeletePoolPod
<1>15. CASE WorkloadDeleted
  BY <1>15, DeletedPods DEF WorkloadDeleted
<1>16. CASE \/ \E t \in Tenants : Reconcile(t) \/ ObserveClaim(t) \/ CollectToken(t) \/ ReleaseInstance(t)
            \/ \E p \in Pods : UseTenantPod(p) \/ AwaitTenantPod(p)
            \/ \E p \in Pods : ExtractSnapshot(p) \/ ExtractFails(p) \/ SkipExtract(p)
  BY <1>1, <1>16 DEF Reconcile, ObserveClaim, CollectToken, ReleaseInstance, UseTenantPod,
     AwaitTenantPod, ExtractSnapshot, ExtractFails, SkipExtract, clusterVars
<1>17. CASE \/ AddFinalizer \/ MarkPending \/ SetClaimError \/ SkipSnapshot \/ ColdBoot \/ StashSource
            \/ ActivateClaim \/ MarkPodLost \/ StayActive \/ IdleTimeout \/ ReleaseWithoutPod
            \/ MarkReleaseFailed \/ RevokeToken \/ MarkReleased \/ RemoveFinalizer \/ GiveUp \/ DeletePool \/ WorkloadChanges
  BY <1>1, <1>17 DEF AddFinalizer, MarkPending, SetClaimError, SkipSnapshot, ColdBoot, StashSource,
     ActivateClaim, MarkPodLost, StayActive, IdleTimeout, ReleaseWithoutPod, MarkReleaseFailed,
     RevokeToken, MarkReleased, RemoveFinalizer, GiveUp, DeletePool, WorkloadChanges, clusterVars
<1>18. CASE ClaimReconciler
  BY <1>2, <1>3, <1>5, <1>13, <1>16, <1>17, <1>18 DEF ClaimReconciler
<1>19. CASE PoolReconciler
  <2>1. CASE ReconcilePool \/ ReconcileDeletedPool \/ RemovePoolFinalizer \/ PoolGivesUp
    BY <1>1, <2>1 DEF ReconcilePool, ReconcileDeletedPool, RemovePoolFinalizer, PoolGivesUp, clusterVars
  <2>2. QED
    BY <1>6, <1>8, <1>14, <1>19, <2>1 DEF PoolReconciler
<1>20. CASE API
  <2>1. CASE \E p \in Pods : DestroyInstance(p)
    BY <1>2, <2>1
  <2>2. CASE \/ \E k \in Clients, t \in Tenants : CreateClaim(k, t) \/ AcquireReleased(k, t)
             \/ \E k \in Clients : StripFinalizer(k) \/ DeleteReleased(k) \/ RecreateClaim(k)
    BY <1>1, <2>2 DEF CreateClaim, AcquireReleased, StripFinalizer, DeleteReleased, RecreateClaim,
       clusterVars
  <2>3. CASE DeletePool \/ \E t \in Tenants : ReleaseInstance(t)
    BY <1>16, <1>17, <2>3
  <2>4. QED
    BY <1>20, <2>1, <2>2, <2>3 DEF API
<1>21. CASE Surroundings
  BY <1>9, <1>10, <1>11, <1>12, <1>15, <1>16, <1>17, <1>21 DEF Surroundings
<1>22. QED
  BY <1>18, <1>19, <1>20, <1>21 DEF Next


-----------------------------------------------------------------------------
\* Writing into an overlay moves no Pod.
LEMMA OverlayWritesKeepPods ==
    ASSUME IsolationInv,
           \/ InjectSnapshot \/ InjectFails
           \/ \E t \in Tenants, p \in Pods : TenantWork(t, p)
    PROVE  PodsInv' /\ StillBound
<1>0. TypeOK /\ PodsInv
  BY DEF IsolationInv
<1>1. UNCHANGED <<pod, seenPod>>
  BY DEF InjectSnapshot, InjectFails, TenantWork
<1>2. StillBound
  BY <1>1 DEF StillBound, BoundTo
<1>3. CASE InjectSnapshot \/ InjectFails
  <2>1. w.pod \in Pods /\ w.t \in Tenants /\ pod[w.pod].phase = "Running" /\ w.pc = "inject"
    BY <1>0, <1>3 DEF InjectSnapshot, InjectFails, TypeOK, WorkerTypeOK
  <2>2. pod[w.pod].tenant = w.t
    BY <2>1 DEF IsolationInv, WorkerInv, BoundTo
  <2>3. PICK part \in SUBSET snapshot[w.t].data :
            overlay' = [overlay EXCEPT ![w.pod] = @ \cup part]
    BY <1>3 DEF InjectSnapshot, InjectFails
  <2>4. \A u \in part : u[1] = w.t
    BY <2>1, <2>3 DEF IsolationInv, ArchivesByTenant
  <2>5. overlay \in [Pods -> SUBSET Units]
    BY <1>0 DEF TypeOK, ClusterTypeOK
  <2>6. QED
    BY <1>0, <1>1, <1>2, <2>1, <2>2, <2>3, <2>4, <2>5
       DEF PodsInv, BlankWhenAbsent, PoolPodsAreNobodys, CacheNamesOwner, OverlaysByTenant, BoundTo
<1>4. ASSUME NEW t \in Tenants, NEW p \in Pods, TenantWork(t, p) PROVE PodsInv'
  <2>1. pod[p].phase = "Running" /\ pod[p].tenant = t
    BY <1>4 DEF TenantWork, IsolationInv, ClaimsInv, BoundTo
  <2>2. overlay' = [overlay EXCEPT ![p] = @ \cup {<<t, work[t] + 1>>}]
    BY <1>4 DEF TenantWork
  <2>3. overlay \in [Pods -> SUBSET Units]
    BY <1>0 DEF TypeOK, ClusterTypeOK
  <2>4. QED
    BY <1>0, <1>1, <2>1, <2>2, <2>3
       DEF PodsInv, BlankWhenAbsent, PoolPodsAreNobodys, CacheNamesOwner, OverlaysByTenant, BoundTo
<1>5. QED
  BY <1>2, <1>3, <1>4

\* So every step keeps the invariant of the Pods.
LEMMA StepKeepsPods ==
    ASSUME IsolationInv, Next
    PROVE  PodsInv' /\ StillBound
BY StepEffects, EffectsKeepPodsInv, OverlayWritesKeepPods

\* The Pod a claim names after a step was named by it before, or is the worker's.
ClaimEffect(t) ==
    \/ claim'[t].instanceId \in {claim[t].instanceId, NoPod}
    \/ w.pc = "activate" /\ t = w.t /\ claim'[t].instanceId = w.pod

\* A claim that is stored names the Pod it was stored with, or goes.
LEMMA StoredClaim ==
    ASSUME TypeOK, NEW t \in Tenants, NEW obj, StoreClaim(t, obj)
    PROVE  /\ claim'[t].instanceId \in {obj.instanceId, NoPod}
           /\ \A s \in Tenants \ {t} : claim'[s] = claim[s]
<1>1. Settled(obj).instanceId \in {obj.instanceId, NoPod}
  BY DEF Settled, NoClaim
<1>2. QED
  BY <1>1 DEF StoreClaim, TypeOK, ClusterTypeOK

\* Nothing but the activation of a claim makes it name a Pod.
LEMMA StepKeepsClaimedPods ==
    ASSUME IsolationInv, Next
    PROVE  \A t \in Tenants : ClaimEffect(t)
<1>0. /\ TypeOK
      /\ w.c \in ClaimObject /\ (w.pc # "idle" => w.t \in Tenants)
      /\ \A k \in Clients : client[k].c \in ClaimObject
      /\ \A k \in Clients : client[k].pc # "idle" => client[k].t \in Tenants
      /\ \A t \in Tenants : claim[t] \in ClaimObject
  BY DEF IsolationInv, TypeOK, ClusterTypeOK, WorkerTypeOK, Worker, ClientTypeOK, Client
<1>1. CASE UNCHANGED claim
  BY <1>1 DEF ClaimEffect
<1>2. ASSUME NEW t \in Tenants, NEW obj \in ClaimObject, StoreClaim(t, obj),
             obj.instanceId \in {claim[t].instanceId, NoPod}
      PROVE  \A s \in Tenants : ClaimEffect(s)
  BY <1>0, <1>2, StoredClaim DEF ClaimEffect
<1>3. ASSUME w.t \in Tenants, NEW obj \in ClaimObject, UpdateClaim(obj),
             \/ obj.instanceId = w.c.instanceId
             \/ w.pc = "activate" /\ obj.instanceId = w.pod
      PROVE  \A s \in Tenants : ClaimEffect(s)
  <2>1. CASE claim[w.t] = w.c
    BY <1>0, <1>3, <2>1, StoredClaim DEF UpdateClaim, ClaimEffect
  <2>2. CASE claim[w.t] # w.c
    BY <1>1, <1>3, <2>2 DEF UpdateClaim, claimVars
  <2>3. QED
    BY <2>1, <2>2
<1>4. CASE AddFinalizer
  <2>1. DEFINE obj == [w.c EXCEPT !.finalizer = TRUE]
  <2>2. obj \in ClaimObject /\ obj.instanceId = w.c.instanceId
    BY <1>0 DEF ClaimObject, ClaimPhases
  <2>3. QED
    BY <1>0, <1>3, <1>4, <2>2 DEF AddFinalizer
<1>5. CASE MarkPending
  <2>1. DEFINE obj == [w.c EXCEPT !.phase = "Pending"]
  <2>2. obj \in ClaimObject /\ obj.instanceId = w.c.instanceId
    BY <1>0 DEF ClaimObject, ClaimPhases
  <2>3. QED
    BY <1>0, <1>3, <1>5, <2>2 DEF MarkPending
<1>6. CASE SetClaimError
  <2>1. DEFINE obj == [w.c EXCEPT !.phase = "Error"]
  <2>2. obj \in ClaimObject /\ obj.instanceId = w.c.instanceId
    BY <1>0 DEF ClaimObject, ClaimPhases
  <2>3. QED
    BY <1>0, <1>3, <1>6, <2>2 DEF IsPending, SetClaimError
<1>7. CASE MarkPodLost
  <2>1. DEFINE obj == [w.c EXCEPT !.phase = "Released"]
  <2>2. obj \in ClaimObject /\ obj.instanceId = w.c.instanceId
    BY <1>0 DEF ClaimObject, ClaimPhases
  <2>3. QED
    BY <1>0, <1>3, <1>7, <2>2 DEF MarkPodLost
<1>8. CASE MarkReleaseFailed
  <2>1. DEFINE obj == [w.c EXCEPT !.phase = "ReleaseFailed"]
  <2>2. obj \in ClaimObject /\ obj.instanceId = w.c.instanceId
    BY <1>0 DEF ClaimObject, ClaimPhases
  <2>3. QED
    BY <1>0, <1>3, <1>8, <2>2 DEF MarkReleaseFailed
<1>9. CASE MarkReleased
  <2>1. DEFINE obj == [w.c EXCEPT !.phase = "Released"]
  <2>2. obj \in ClaimObject /\ obj.instanceId = w.c.instanceId
    BY <1>0 DEF ClaimObject, ClaimPhases
  <2>3. QED
    BY <1>0, <1>3, <1>9, <2>2 DEF MarkReleased
<1>10. CASE RemoveFinalizer
  <2>1. DEFINE obj == [w.c EXCEPT !.finalizer = FALSE]
  <2>2. obj \in ClaimObject /\ obj.instanceId = w.c.instanceId
    BY <1>0 DEF ClaimObject, ClaimPhases
  <2>3. QED
    BY <1>0, <1>3, <1>10, <2>2 DEF RemoveFinalizer
<1>11. CASE StashSource
  <2>1. w.pc = "activate" /\ w.pod \in Pods /\ w.source \in Sources
    BY <1>0, <1>11 DEF StashSource, TypeOK, WorkerTypeOK, Worker
  <2>2. DEFINE obj == [w.c EXCEPT !.instanceId = w.pod, !.source = "cold"]
  <2>3. obj \in ClaimObject /\ obj.instanceId = w.pod
    BY <1>0, <2>1 DEF ClaimObject, ClaimPhases, Sources
  <2>4. QED
    BY <1>0, <1>3, <1>11, <2>1, <2>3 DEF StashSource
<1>12. CASE ActivateClaim
  <2>1. w.pc = "activate" /\ w.pod \in Pods /\ w.source \in Sources
    BY <1>0, <1>12 DEF ActivateClaim, TypeOK, WorkerTypeOK, Worker
  <2>2. DEFINE obj == [w.c EXCEPT !.phase = "Active", !.instanceId = w.pod, !.source = Provenance]
  <2>3. obj \in ClaimObject /\ obj.instanceId = w.pod
    <3>1. Provenance \in Sources
      BY <1>0, <2>1 DEF Provenance, ClaimObject
    <3>2. QED
      BY <1>0, <2>1, <3>1 DEF ClaimObject, ClaimPhases
  <2>4. QED
    BY <1>0, <1>3, <1>12, <2>1, <2>3 DEF ActivateClaim
<1>13. ASSUME NEW t \in Tenants, DeleteClaim(t) \/ StoreClaim(t, NewClaim)
      PROVE  \A s \in Tenants : ClaimEffect(s)
  <2>1. DEFINE obj == [claim[t] EXCEPT !.deleting = TRUE]
  <2>2. obj \in ClaimObject /\ obj.instanceId = claim[t].instanceId
    BY <1>0 DEF ClaimObject
  <2>3. NewClaim \in ClaimObject /\ NewClaim.instanceId = NoPod
    BY DEF NewClaim, NoClaim, ClaimObject, ClaimPhases, Sources
  <2>4. QED
    BY <1>2, <1>13, <2>2, <2>3 DEF DeleteClaim
<1>14. ASSUME NEW k \in Clients, StripFinalizer(k) PROVE \A s \in Tenants : ClaimEffect(s)
  <2>1. DEFINE obj == [client[k].c EXCEPT !.finalizer = FALSE]
  <2>2. client[k].t \in Tenants /\ obj \in ClaimObject /\ obj.instanceId = client[k].c.instanceId
    BY <1>0, <1>14 DEF ClaimObject, StripFinalizer
  <2>3. CASE claim[client[k].t] = client[k].c
    BY <1>2, <1>14, <2>2, <2>3 DEF StripFinalizer
  <2>4. CASE claim[client[k].t] # client[k].c
    BY <1>1, <1>14, <2>4 DEF StripFinalizer, claimVars
  <2>5. QED
    BY <2>3, <2>4
<1>15. ASSUME NEW k \in Clients, DeleteReleased(k) \/ RecreateClaim(k)
      PROVE  \A s \in Tenants : ClaimEffect(s)
  BY <1>0, <1>1, <1>13, <1>15 DEF DeleteReleased, RecreateClaim, claimVars
<1>16. CASE \/ \E k \in Clients, t \in Tenants : CreateClaim(k, t)
            \/ \E t \in Tenants : ReleaseInstance(t)
  BY <1>13, <1>16 DEF CreateClaim, ReleaseInstance
<1>17. CASE API
  <2>1. CASE \/ \E k \in Clients, t \in Tenants : AcquireReleased(k, t)
             \/ \E p \in Pods : DestroyInstance(p)
             \/ DeletePool
    BY <1>1, <2>1 DEF AcquireReleased, DestroyInstance, DeletePool, clusterVars, claimVars
  <2>2. QED
    BY <1>14, <1>15, <1>16, <1>17, <2>1 DEF API
<1>18. CASE PoolReconciler \/ Surroundings
  BY <1>1, <1>18 DEF PoolReconciler, CreatePoolPod, MarkPoolPodReady, DeletePoolPod, ReconcilePool, ReconcileDeletedPool,
     RemovePoolFinalizer, PoolGivesUp, clusterVars,
     Surroundings, PodRuns, PodFails, PodGone, ObservePod, ObserveClaim, CollectToken, TenantWork,
     WorkloadChanges, WorkloadDeleted, claimVars
<1>19. CASE ClaimReconciler
  <2>1. CASE \/ \E t \in Tenants : Reconcile(t)
             \/ \E p \in Pods : UseTenantPod(p) \/ AwaitTenantPod(p) \/ DeleteTerminalPod(p)
             \/ \E p \in Pods : ClaimFromPool(p) \/ CreateTenantPod(p)
             \/ \E p \in Pods : ExtractSnapshot(p) \/ ExtractFails(p) \/ SkipExtract(p)
    BY <1>1, <2>1 DEF Reconcile, UseTenantPod, AwaitTenantPod, DeleteTerminalPod, ClaimFromPool,
       CreateTenantPod, ExtractSnapshot, ExtractFails, SkipExtract, clusterVars, claimVars
  <2>2. CASE \/ InjectSnapshot \/ InjectFails \/ SkipSnapshot \/ ColdBoot \/ StayActive \/ IdleTimeout
             \/ ReleaseWithoutPod \/ DropPod \/ RevokeToken \/ GiveUp
    BY <1>1, <2>2 DEF InjectSnapshot, InjectFails, SkipSnapshot, ColdBoot, StayActive, IdleTimeout,
       ReleaseWithoutPod, DropPod, RevokeToken, GiveUp, clusterVars, claimVars
  <2>3. QED
    BY <1>4, <1>5, <1>6, <1>7, <1>8, <1>9, <1>10, <1>11, <1>12, <1>19, <2>1, <2>2
       DEF ClaimReconciler
<1>20. QED
  BY <1>17, <1>18, <1>19 DEF Next


\* The claims still name Pods of their own after a step.
LEMMA StepKeepsClaimsInv ==
    ASSUME IsolationInv, Next
    PROVE  ClaimsInv'
<1>1. StillBound /\ \A t \in Tenants : ClaimEffect(t)
  BY StepKeepsPods, StepKeepsClaimedPods
<1>2. \A t \in Tenants : claim[t].instanceId \notin FreshPods
  BY DEF FreshPods
<1>3. w.pod \notin FreshPods /\ NoPod \notin Pods
  BY ClusterAssumption DEF FreshPods, ClusterAssumption
<1>4. ASSUME NEW t \in Tenants PROVE BoundTo(t, claim[t].instanceId)
  BY DEF IsolationInv, ClaimsInv
<1>5. ASSUME NEW t \in Tenants, claim'[t].instanceId \in Pods
      PROVE  pod'[claim'[t].instanceId].phase = "absent" \/ pod'[claim'[t].instanceId].tenant = t
  <2>1. CASE claim'[t].instanceId = claim[t].instanceId
    BY <1>1, <1>2, <1>4, <1>5, <2>1 DEF StillBound, BoundTo
  <2>2. CASE w.pc = "activate" /\ t = w.t /\ claim'[t].instanceId = w.pod
    <3>1. BoundTo(t, w.pod)
      BY <2>2 DEF IsolationInv, WorkerInv
    <3>2. QED
      BY <1>1, <1>3, <1>5, <2>2, <3>1 DEF StillBound, BoundTo
  <2>3. QED
    BY <1>1, <1>3, <1>5, <2>1, <2>2 DEF ClaimEffect
<1>6. QED
  BY <1>5 DEF ClaimsInv, BoundTo

\* The worker still works on a Pod of its tenant after a step.
LEMMA StepKeepsWorkerInv ==
    ASSUME IsolationInv, Next
    PROVE  WorkerInv'
<1>0. TypeOK /\ StillBound /\ CacheNamesOwner
  BY StepKeepsPods DEF IsolationInv, PodsInv
<1>1. ASSUME w'.pc \in {"inject", "activate"} => w.pc \in {"inject", "activate"},
             w'.t = w.t, w'.pod = w.pod
      PROVE  WorkerInv'
  <2>1. SUFFICES ASSUME w'.pc \in {"inject", "activate"} PROVE BoundTo(w.t, w.pod)'
    BY <1>1 DEF WorkerInv, BoundTo
  <2>2. w.pod \in Pods /\ w.pod \notin FreshPods /\ w.t \in Tenants
    BY <1>0, <1>1, <2>1 DEF TypeOK, WorkerTypeOK, FreshPods
  <2>3. BoundTo(w.t, w.pod)
    BY <1>1, <2>1 DEF IsolationInv, WorkerInv
  <2>4. pod'[w.pod].phase = "absent" \/ pod'[w.pod].tenant = w.t
    BY <1>0, <2>2, <2>3 DEF StillBound, BoundTo
  <2>5. QED
    BY <1>1, <2>4 DEF BoundTo
<1>2. CASE UNCHANGED w
  BY <1>1, <1>2
<1>3. CASE w'.pc \notin {"inject", "activate"}
  BY <1>3 DEF WorkerInv
<1>4. CASE w' = Idle
  <2>1. Idle.pc = "idle"
    BY DEF Idle
  <2>2. QED
    BY <1>3, <1>4, <2>1
<1>5. ASSUME NEW p \in Pods, UseTenantPod(p) PROVE WorkerInv'
  <2>1. BoundTo(w.t, p) /\ p \notin FreshPods /\ w.t \in Tenants
    BY <1>0, <1>5 DEF UseTenantPod, FoundTenantPod, IsPending, TenantPods, PresentPods, FreshPods,
       CacheNamesOwner, TypeOK, WorkerTypeOK
  <2>2. w'.pod = p /\ w'.t = w.t
    BY <1>0, <1>5 DEF UseTenantPod, TypeOK, WorkerTypeOK, Worker
  <2>3. QED
    BY <1>0, <2>1, <2>2 DEF StillBound, WorkerInv, BoundTo
<1>6. ASSUME NEW p \in Pods, ClaimFromPool(p) PROVE WorkerInv'
  <2>1. CASE pod[p] = seenPod[p]
    <3>1. pod[p] \in PodObject
      BY <1>0 DEF TypeOK, ClusterTypeOK
    <3>2. pod'[p].tenant = w.t
      <4>1. DEFINE obj == [pod[p] EXCEPT !.tenant = w.t, !.poolStatus = "acquired"]
      <4>2. pod'[p] = obj
        BY <1>0, <1>6, <2>1 DEF ClaimFromPool, StorePod, TypeOK, ClusterTypeOK
      <4>3. obj.tenant = w.t
        BY <3>1 DEF PodObject
      <4>4. QED
        BY <4>2, <4>3
    <3>3. w'.pod = p /\ w'.t = w.t
      BY <1>0, <1>6, <2>1 DEF ClaimFromPool, TypeOK, WorkerTypeOK, Worker
    <3>4. QED
      BY <3>2, <3>3 DEF WorkerInv, BoundTo
  <2>2. CASE pod[p] # seenPod[p]
    BY <1>6, <1>4, <2>2 DEF ClaimFromPool
  <2>3. QED
    BY <2>1, <2>2
<1>7. ASSUME NEW p \in Pods, CreateTenantPod(p) PROVE WorkerInv'
  <2>1. pod'[p].tenant = w.t
    BY <1>0, <1>7 DEF CreateTenantPod, StorePod, AbsentPod, TypeOK, ClusterTypeOK
  <2>2. w'.pod = p /\ w'.t = w.t
    BY <1>0, <1>7 DEF CreateTenantPod, TypeOK, WorkerTypeOK, Worker
  <2>3. QED
    BY <2>1, <2>2 DEF WorkerInv, BoundTo
<1>8. CASE InjectSnapshot \/ InjectFails \/ SkipSnapshot
  <2>1. w'.t = w.t /\ w'.pod = w.pod /\ w.pc = "inject"
    BY <1>0, <1>8 DEF InjectSnapshot, InjectFails, SkipSnapshot, TypeOK, WorkerTypeOK, Worker
  <2>2. QED
    BY <1>1, <2>1
<1>9. CASE \/ AddFinalizer \/ MarkPending \/ SetClaimError \/ StashSource \/ ActivateClaim
           \/ MarkPodLost \/ StayActive \/ MarkReleaseFailed \/ MarkReleased \/ RemoveFinalizer
           \/ GiveUp \/ \E p \in Pods : AwaitTenantPod(p)
  BY <1>4, <1>9 DEF AddFinalizer, MarkPending, SetClaimError, StashSource, ActivateClaim,
     MarkPodLost, StayActive, MarkReleaseFailed, MarkReleased, RemoveFinalizer, GiveUp,
     AwaitTenantPod, UpdateClaim
<1>10. CASE \/ ColdBoot \/ IdleTimeout \/ ReleaseWithoutPod \/ DropPod \/ RevokeToken
            \/ \E p \in Pods : DeleteTerminalPod(p)
            \/ \E p \in Pods : ExtractSnapshot(p) \/ SkipExtract(p)
  <2>1. w'.pc \in {"create", "release", "revoke", "finish", "acquire", "drop"}
    BY <1>0, <1>10 DEF ColdBoot, IdleTimeout, ReleaseWithoutPod, DropPod, RevokeToken,
       DeleteTerminalPod, ExtractSnapshot, SkipExtract, TypeOK, WorkerTypeOK, Worker
  <2>2. QED
    BY <1>3, <2>1
<1>11. ASSUME NEW t \in Tenants, Reconcile(t) PROVE WorkerInv'
  <2>1. w'.pc \in {"new", "active", "release"}
    BY <1>11 DEF Reconcile, Route, Idle
  <2>2. QED
    BY <1>3, <2>1
<1>12. ASSUME NEW p \in Pods, ExtractFails(p) PROVE WorkerInv'
  <2>1. w'.pc \in {"idle", "fail"}
    BY <1>0, <1>12 DEF ExtractFails, Idle, TypeOK, WorkerTypeOK, Worker
  <2>2. QED
    BY <1>3, <2>1
<1>13. CASE ClaimReconciler
  BY <1>5, <1>6, <1>7, <1>8, <1>9, <1>10, <1>11, <1>12, <1>13 DEF ClaimReconciler
<1>14. CASE API \/ PoolReconciler \/ Surroundings
  BY <1>2, <1>14 DEF API, PoolReconciler, Surroundings, CreateClaim, AcquireReleased,
     StripFinalizer, DeleteReleased, RecreateClaim, ReleaseInstance, DestroyInstance, DeletePool,
     CreatePoolPod, MarkPoolPodReady, DeletePoolPod, ReconcilePool, ReconcileDeletedPool,
     RemovePoolFinalizer, PoolGivesUp, PodRuns, PodFails, PodGone, ObservePod,
     ObserveClaim, CollectToken, TenantWork, WorkloadChanges, WorkloadDeleted, processVars
<1>15. QED
  BY <1>13, <1>14 DEF Next

\* What the pool reconciler is about to mark it has still read from the pool.
LEMMA StepKeepsFillerInv ==
    ASSUME IsolationInv, Next
    PROVE  FillerInv'
<1>0. TypeOK /\ FillerInv /\ filler \in Pass
  BY DEF IsolationInv, TypeOK, FillerTypeOK
<1>1. CASE UNCHANGED filler
  BY <1>0, <1>1 DEF FillerInv
<1>2. NoPass.pc = "idle"
  BY DEF NoPass
<1>3. CASE filler'.pc # "fill"
  BY <1>3 DEF FillerInv
<1>4. ASSUME NEW pass \in Pass, filler' = Left(pass), pass.pc = filler.pc, pass.todo \subseteq filler.todo
      PROVE  FillerInv'
  BY <1>0, <1>2, <1>4 DEF Left, FillerInv
<1>5. ASSUME NEW p \in Pods, MarkPoolPodReady(p) PROVE FillerInv'
  <2>1. PICK r \in filler.todo :
            filler' \in {Left([filler EXCEPT !.todo = @ \ {r}]), NoPass}
    BY <1>5 DEF MarkPoolPodReady
  <2>2. DEFINE pass == [filler EXCEPT !.todo = @ \ {r}]
  <2>3. pass \in Pass /\ pass.pc = filler.pc /\ pass.todo \subseteq filler.todo
    BY <1>0 DEF Pass
  <2>4. CASE filler' = Left(pass)
    BY <1>4, <2>3, <2>4
  <2>5. CASE filler' = NoPass
    BY <1>2, <1>3, <2>5
  <2>6. QED
    BY <2>1, <2>4, <2>5
<1>6. ASSUME NEW p \in Pods, CreatePoolPod(p) PROVE FillerInv'
  <2>1. DEFINE pass == [filler EXCEPT !.create = @ - 1]
  <2>2. pass \in Pass /\ pass.pc = filler.pc /\ pass.todo \subseteq filler.todo
    BY <1>0, <1>6 DEF Pass, CreatePoolPod
  <2>3. QED
    BY <1>4, <1>6, <2>2 DEF CreatePoolPod
<1>7. ASSUME NEW p \in Pods, DeletePoolPod(p) PROVE FillerInv'
  <2>1. filler'.pc = "drain"
    BY <1>0, <1>7 DEF DeletePoolPod, Pass
  <2>2. QED
    BY <1>3, <2>1
<1>8. CASE ReconcilePool
  <2>1. filler'.todo = AsRead(NowReady)
    BY <1>8 DEF ReconcilePool
  <2>2. \A r \in AsRead(NowReady) : r[2].phase # "absent" /\ r[2].poolStatus = "warming"
    BY DEF AsRead, NowReady, WarmPods, PresentPods
  <2>3. QED
    BY <2>1, <2>2 DEF FillerInv
<1>9. CASE ReconcileDeletedPool \/ RemovePoolFinalizer \/ PoolGivesUp
  BY <1>2, <1>3, <1>9 DEF ReconcileDeletedPool, RemovePoolFinalizer, PoolGivesUp
<1>10. CASE PoolReconciler
  BY <1>5, <1>6, <1>7, <1>8, <1>9, <1>10 DEF PoolReconciler
<1>11. CASE ClaimReconciler
  BY <1>1, <1>11 DEF ClaimReconciler, Reconcile, AddFinalizer, MarkPending, SetClaimError,
     UseTenantPod, AwaitTenantPod, DeleteTerminalPod, ClaimFromPool, CreateTenantPod,
     InjectSnapshot, InjectFails, SkipSnapshot, ColdBoot, StashSource, ActivateClaim, MarkPodLost, StayActive,
     IdleTimeout, ReleaseWithoutPod, MarkReleaseFailed, DropPod, RevokeToken, MarkReleased,
     RemoveFinalizer, GiveUp, ExtractSnapshot, ExtractFails, SkipExtract, besidesWorker
<1>12. CASE API \/ Surroundings
  BY <1>1, <1>12 DEF API, Surroundings, CreateClaim, AcquireReleased, StripFinalizer,
     DeleteReleased, RecreateClaim, ReleaseInstance, DestroyInstance, DeletePool, PodRuns,
     PodFails, PodGone, ObservePod, ObserveClaim, CollectToken, TenantWork, WorkloadChanges,
     WorkloadDeleted, processVars, besidesWorker
<1>13. QED
  BY <1>10, <1>11, <1>12 DEF Next

\* An archive is still made of its tenant's data after a step.
LEMMA StepKeepsArchives ==
    ASSUME IsolationInv, Next
    PROVE  ArchivesByTenant'
<1>0. TypeOK /\ PodsInv /\ ArchivesByTenant
  BY DEF IsolationInv
<1>1. CASE UNCHANGED snapshot
  BY <1>0, <1>1 DEF ArchivesByTenant
<1>2. ASSUME NEW p \in Pods, Releasing(p), pod[p].phase = "Running",
             snapshot' = [snapshot EXCEPT ![w.t] = ArchiveOf(p)]
      PROVE  ArchivesByTenant'
  <2>1. w.t \in Tenants /\ pod[p].tenant = w.t
    BY <1>0, <1>2 DEF Releasing, TenantPods, PresentPods, PodsInv, CacheNamesOwner, BoundTo,
       TypeOK, WorkerTypeOK
  <2>2. \A u \in ArchiveOf(p).data : u[1] = w.t
    BY <1>0, <2>1 DEF ArchiveOf, PodsInv, OverlaysByTenant
  <2>3. QED
    BY <1>0, <1>2, <2>1, <2>2 DEF ArchivesByTenant, TypeOK, ClusterTypeOK
<1>3. CASE snapshot' = [snapshot EXCEPT ![w.t] = NoArchive]
  BY <1>0, <1>3 DEF NoArchive, ArchivesByTenant, TypeOK, ClusterTypeOK
<1>4. ASSUME NEW p \in Pods, ExtractSnapshot(p) \/ ExtractFails(p) \/ SkipExtract(p)
      PROVE  ArchivesByTenant'
  BY <1>1, <1>2, <1>3, <1>4 DEF ExtractSnapshot, ExtractFails, SkipExtract
<1>5. CASE \A p \in Pods : ~(ExtractSnapshot(p) \/ ExtractFails(p) \/ SkipExtract(p))
  <2>1. CASE ClaimReconciler
    BY <1>1, <1>5, <2>1 DEF ClaimReconciler, Reconcile, AddFinalizer, MarkPending, SetClaimError,
       UseTenantPod, AwaitTenantPod, DeleteTerminalPod, ClaimFromPool, CreateTenantPod,
       InjectSnapshot, InjectFails, SkipSnapshot, ColdBoot, StashSource, ActivateClaim, MarkPodLost, StayActive,
       IdleTimeout, ReleaseWithoutPod, MarkReleaseFailed, DropPod, RevokeToken, MarkReleased,
       RemoveFinalizer, GiveUp, clusterVars
  <2>2. CASE API \/ PoolReconciler \/ Surroundings
    BY <1>1, <2>2 DEF API, PoolReconciler, Surroundings, CreateClaim, AcquireReleased,
       StripFinalizer, DeleteReleased, RecreateClaim, ReleaseInstance, DestroyInstance, DeletePool,
       CreatePoolPod, MarkPoolPodReady, DeletePoolPod, ReconcilePool, ReconcileDeletedPool,
     RemovePoolFinalizer, PoolGivesUp, PodRuns, PodFails, PodGone, ObservePod,
       ObserveClaim, CollectToken, TenantWork, WorkloadChanges, WorkloadDeleted, clusterVars
  <2>3. QED
    BY <2>1, <2>2 DEF Next
<1>6. QED
  BY <1>4, <1>5

\* The invariant holds at the start and is kept by every step.
LEMMA IsolationInvInit == Init => IsolationInv
<1>1. ASSUME Init PROVE IsolationInv
  <2>1. /\ TypeOK
        /\ claim = [t \in Tenants |-> NoClaim] /\ pod = [p \in Pods |-> AbsentPod] /\ seenPod = pod
        /\ overlay = [p \in Pods |-> {}] /\ snapshot = [t \in Tenants |-> NoArchive] /\ w = Idle
    BY <1>1, InitType DEF Init, ClusterInit, WorkerInit
  <2>2. PodsInv
    BY <2>1 DEF PodsInv, BlankWhenAbsent, PoolPodsAreNobodys, CacheNamesOwner, OverlaysByTenant,
       AbsentPod
  <2>3. ClaimsInv /\ ArchivesByTenant
    BY <2>1 DEF ClaimsInv, BoundTo, AbsentPod, ArchivesByTenant, NoArchive
  <2>4. WorkerInv
    BY <2>1 DEF WorkerInv, Idle
  <2>5. FillerInv
    BY <1>1 DEF Init, FillerInit, FillerInv, NoPass
  <2>6. QED
    BY <2>1, <2>2, <2>3, <2>4, <2>5 DEF IsolationInv
<1>2. QED
  BY <1>1

\* The invariant is inductive.
LEMMA IsolationInvStep == IsolationInv /\ [Next]_vars => IsolationInv'
<1>1. ASSUME IsolationInv, Next PROVE IsolationInv'
  <2>1. TypeOK'
    BY <1>1, NextType DEF IsolationInv
  <2>2. QED
    BY <1>1, <2>1, StepKeepsPods, StepKeepsClaimsInv, StepKeepsWorkerInv, StepKeepsFillerInv,
     StepKeepsArchives
       DEF IsolationInv
<1>2. ASSUME IsolationInv, UNCHANGED vars PROVE IsolationInv'
  <2>1. UNCHANGED <<claim, seenClaim, pod, seenPod, overlay, snapshot, token, work, wl, pool, w, filler>>
    BY <1>2 DEF vars, clusterVars, claimVars, podVars, processVars, besidesWorker
  <2>2. TypeOK'
    BY <1>2, NextType DEF IsolationInv
  <2>3. QED
    BY <1>2, <2>1, <2>2 DEF IsolationInv, PodsInv, BlankWhenAbsent, PoolPodsAreNobodys,
       CacheNamesOwner, OverlaysByTenant, ClaimsInv, WorkerInv, FillerInv, ArchivesByTenant,
       BoundTo
<1>3. QED
  BY <1>1, <1>2

\* So it always holds.
LEMMA IsolationInvHolds == Spec => []IsolationInv
BY IsolationInvInit, IsolationInvStep, PTL DEF Spec

\* A tenant's data is only ever in the Pods and in the archive of that tenant
\* (claim_pods.go, claim_release.go), however far the cache trails.
THEOREM TenantsIsolated == Spec => []TenantIsolation
<1>1. IsolationInv => TenantIsolation
  BY DEF IsolationInv, PodsInv, OverlaysByTenant, ArchivesByTenant, TenantIsolation
<1>2. QED
  BY <1>1, IsolationInvHolds, PTL

\* A claim never names a Pod of another tenant (activateClaim).
THEOREM ClaimsOwnTheirPods == Spec => []ClaimsOwnPod
<1>1. IsolationInv => ClaimsOwnPod
  <2>1. ASSUME IsolationInv, NEW t \in Tenants, claim[t].instanceId # NoPod
        PROVE  claim[t].instanceId \in Pods
    BY <2>1 DEF IsolationInv, TypeOK, ClusterTypeOK, ClaimObject
  <2>2. QED
    BY <2>1 DEF IsolationInv, ClaimsInv, BoundTo, ClaimsOwnPod
<1>2. QED
  BY <1>1, IsolationInvHolds, PTL

\* A Pod once given to a tenant is that tenant's until it is gone
\* (claimFromPool's guarded relabel is the only one there is).
THEOREM PodsStayWithTenant == Spec => PodStaysWithTenant
<1>1. ASSUME IsolationInv, [Next]_vars, NEW p \in Pods, pod[p].tenant # NoTenant
      PROVE  pod'[p].tenant = pod[p].tenant \/ pod'[p].phase = "absent"
  <2>1. pod[p].tenant \in Tenants /\ pod[p].phase # "absent"
    BY <1>1 DEF IsolationInv, PodsInv, BlankWhenAbsent, AbsentPod, TypeOK, ClusterTypeOK, PodObject
  <2>2. CASE Next
    <3>1. StillBound /\ p \notin FreshPods
      BY <1>1, <2>1, <2>2, StepKeepsPods DEF FreshPods
    <3>2. QED
      BY <2>1, <3>1 DEF StillBound, BoundTo
  <2>3. CASE UNCHANGED vars
    BY <2>3 DEF vars, clusterVars, podVars
  <2>4. QED
    BY <1>1, <2>2, <2>3
<1>2. IsolationInv /\ [Next]_vars
        => [\A p \in Pods : pod[p].tenant # NoTenant
              => pod'[p].tenant = pod[p].tenant \/ pod'[p].phase = "absent"]_vars
  BY <1>1
<1>3. QED
  BY <1>2, IsolationInvHolds, PTL DEF Spec, PodStaysWithTenant
=============================================================================
