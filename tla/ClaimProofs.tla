----------------------------- MODULE ClaimProofs -----------------------------
(***************************************************************************)
(* The life of a claim: what each step may make of it, that what the       *)
(* worker has read fits what it does with it, and that the claim follows   *)
(* the lease its users rely on, whatever the caches, the handlers and the  *)
(* surroundings do.                                                        *)
(***************************************************************************)
EXTENDS BoilerhouseProofs

-----------------------------------------------------------------------------
(* What may become of a claim. *)

\* A claim that the reconciler has begun to work on, or that is on its way out,
\* has its finalizer.
WellFormed(c) ==
    /\ c.phase \notin {"absent", "", "Released"} => c.finalizer
    /\ c.deleting => c.finalizer
    /\ c.phase = "absent" => c = NoClaim

ClaimsWellFormed ==
    /\ \A t \in Tenants : WellFormed(claim[t]) /\ WellFormed(seenClaim[t])
    /\ WellFormed(w.c)
    /\ \A k \in Clients : client[k].pc = "strip" => client[k].c.phase = "Released"

Acquires == {"new", "acquire", "create", "inject", "activate"}
Releases == {"release", "drop", "revoke", "finish"}

\* What the worker has read fits what it is doing.
WorkerRead ==
    /\ w.pc \in Acquires => ~w.c.deleting /\ w.c.phase \in {"", "Pending", "Error"}
    /\ w.pc \in Acquires \ {"new"} => w.c.phase = "Pending"
    /\ w.pc \in {"active", "fail"} => ~w.c.deleting /\ w.c.phase = "Active"
    /\ w.pc \in Releases => w.c.deleting \/ w.c.phase = "Active"

LifeInv == TypeOK /\ ClaimsWellFormed /\ WorkerRead

\* The worker moves the claim it has read on, or leaves it in its phase, and its
\* pass ends.
Promoted(c, n) ==
    /\ c = w.c /\ ~c.deleting /\ ~n.deleting /\ n.finalizer /\ w' = Idle
    /\ \/ w.pc \in Acquires /\ n.phase = c.phase
       \/ w.pc = "new" /\ n.phase = "Pending"
       \/ w.pc = "new" /\ c.phase = "Pending" /\ n.phase = "Error"
       \/ w.pc = "activate" /\ w.source # "cold" /\ n.phase = "Active" /\ n.instanceId = w.pod
       \/ w.pc = "finish" /\ n.phase = "Released"
       \/ w.pc = "active" /\ PodIsLost /\ n.phase = "Released"
       \/ w.pc = "fail" /\ n.phase = "ReleaseFailed"

\* What a step may make of the claim of a tenant.
ClaimChange(t, c, n) ==
    \/ n = c
    \/ c.phase = "absent" /\ n = NewClaim
    \/ c.phase \in {"", "Released"} /\ n = NoClaim
    \/ c = w.c /\ t = w.t /\ w.pc = "finish" /\ c.deleting /\ n = NoClaim /\ w' = Idle
    \/ c.phase # "absent" /\ c.finalizer /\ n = [c EXCEPT !.deleting = TRUE]
    \/ c.phase = "Released" /\ ~c.deleting /\ n = [c EXCEPT !.finalizer = FALSE]
    \/ t = w.t /\ Promoted(c, n)

\* The cache learns of what the step wrote, or not; one that does not trail does.
CacheFollows ==
    /\ \A s \in Tenants : seenClaim'[s] \in {seenClaim[s], claim'[s]}
    /\ "claims" \notin LaggingCache /\ seenClaim = claim => seenClaim' = claim'

\* A step changes one claim at most.
OneClaimChanges ==
    /\ CacheFollows
    /\ \E t \in Tenants :
        /\ claim' = [claim EXCEPT ![t] = claim'[t]]
        /\ ClaimChange(t, claim[t], claim'[t])

ClaimsStay == CacheFollows /\ claim' = claim

\* Storing a claim changes that one.
LEMMA StoreChanges ==
    ASSUME TypeOK, NEW t \in Tenants, NEW obj \in ClaimObject, StoreClaim(t, obj),
           ClaimChange(t, claim[t], Settled(obj))
    PROVE  OneClaimChanges
<1>1. claim' = [claim EXCEPT ![t] = Settled(obj)] /\ claim'[t] = Settled(obj)
  BY DEF StoreClaim, TypeOK, ClusterTypeOK
<1>2. CacheFollows
  BY DEF StoreClaim, CacheFollows
<1>3. QED
  BY <1>1, <1>2 DEF OneClaimChanges

\* A conditional update changes the claim that was read, or none.
LEMMA UpdateChanges ==
    ASSUME TypeOK, w.t \in Tenants, NEW obj \in ClaimObject, UpdateClaim(obj),
           ClaimChange(w.t, w.c, Settled(obj))
    PROVE  OneClaimChanges \/ ClaimsStay
<1>1. CASE claim[w.t] = w.c
  BY <1>1, StoreChanges DEF UpdateClaim
<1>2. CASE claim[w.t] # w.c
  BY <1>2 DEF UpdateClaim, claimVars, ClaimsStay, CacheFollows
<1>3. QED
  BY <1>1, <1>2

\* Edits of a claim, field by field: the other fields stay.
LEMMA EditFlags ==
    ASSUME NEW c \in ClaimObject, NEW n
    PROVE  /\ n = [c EXCEPT !.finalizer = TRUE] =>
                /\ n \in ClaimObject /\ n.phase = c.phase /\ n.finalizer
                /\ n.deleting = c.deleting /\ n.instanceId = c.instanceId
           /\ n = [c EXCEPT !.finalizer = FALSE] =>
                /\ n \in ClaimObject /\ n.phase = c.phase /\ ~n.finalizer
                /\ n.deleting = c.deleting /\ n.instanceId = c.instanceId
           /\ n = [c EXCEPT !.deleting = TRUE] =>
                /\ n \in ClaimObject /\ n.phase = c.phase /\ n.finalizer = c.finalizer
                /\ n.deleting /\ n.instanceId = c.instanceId
BY DEF ClaimObject

\* An edit of the phase.
LEMMA EditPhase ==
    ASSUME NEW c \in ClaimObject, NEW n,
           NEW phase \in {"Pending", "Error", "Released", "ReleaseFailed"},
           n = [c EXCEPT !.phase = phase]
    PROVE  /\ n \in ClaimObject /\ n.phase = phase /\ n.finalizer = c.finalizer
           /\ n.deleting = c.deleting /\ n.instanceId = c.instanceId
BY DEF ClaimObject, ClaimPhases

\* The same for one of these edits.
LEMMA EditDeleting ==
    ASSUME NEW c \in ClaimObject, NEW n, n = [c EXCEPT !.deleting = TRUE]
    PROVE  n.phase = c.phase /\ n.finalizer = c.finalizer
BY EditFlags

\* The same for another.
LEMMA EditFinalizer ==
    ASSUME NEW c \in ClaimObject, NEW n, n = [c EXCEPT !.finalizer = FALSE]
    PROVE  n.phase = c.phase /\ n.deleting = c.deleting
BY EditFlags

\* An edit of what the claim says of its Pod.
LEMMA EditInstance ==
    ASSUME NEW c \in ClaimObject, NEW n, NEW id \in Pods, NEW src \in Sources,
           n = [c EXCEPT !.instanceId = id, !.source = src]
    PROVE  /\ n \in ClaimObject /\ n.phase = c.phase /\ n.finalizer = c.finalizer
           /\ n.deleting = c.deleting /\ n.instanceId = id
BY DEF ClaimObject

\* The worker's steps that write its claim.
WorkerWrites ==
    \/ AddFinalizer \/ MarkPending \/ SetClaimError \/ StashSource
    \/ ActivateClaim \/ MarkPodLost \/ MarkReleaseFailed
    \/ MarkReleased \/ RemoveFinalizer

\* What the worker has read when it writes its claim.
LEMMA WorkerReads ==
    ASSUME LifeInv, WorkerWrites
    PROVE  /\ TypeOK /\ WorkerRead /\ WellFormed(w.c)
           /\ w.c \in ClaimObject /\ w.t \in Tenants
<1>1. w.pc # "idle"
  BY DEF WorkerWrites, AddFinalizer, MarkPending, SetClaimError, IsPending, StashSource,
     ActivateClaim, MarkPodLost, MarkReleaseFailed, MarkReleased, RemoveFinalizer
<1>2. QED
  BY <1>1 DEF LifeInv, ClaimsWellFormed, TypeOK, WorkerTypeOK, Worker

\* The worker's writes move its claim on, all but the last.
LEMMA WorkerPromotes ==
    ASSUME LifeInv, WorkerWrites, ~RemoveFinalizer
    PROVE  \E obj \in ClaimObject : UpdateClaim(obj) /\ Promoted(w.c, obj)
<1>0. /\ TypeOK /\ WorkerRead /\ WellFormed(w.c)
      /\ w.c \in ClaimObject /\ w.t \in Tenants
  BY WorkerReads
<1>1. CASE AddFinalizer
  <2>1. PICK obj : obj = [w.c EXCEPT !.finalizer = TRUE]
    OBVIOUS
  <2>2. UpdateClaim(obj) /\ w.pc = "new" /\ w' = Idle
    BY <1>1, <2>1 DEF AddFinalizer, UpdateClaim
  <2>3. obj \in ClaimObject /\ obj.phase = w.c.phase /\ obj.finalizer /\ obj.deleting = w.c.deleting
    BY <1>0, <2>1, EditFlags
  <2>4. QED
    BY <1>0, <2>2, <2>3 DEF Promoted, WorkerRead, Acquires
<1>2. CASE MarkPending \/ SetClaimError
  <2>1. PICK phase \in {"Pending", "Error"} :
            /\ UpdateClaim([w.c EXCEPT !.phase = phase]) /\ w.pc = "new" /\ w.c.finalizer
            /\ phase = "Error" => w.c.phase = "Pending"
    BY <1>2 DEF MarkPending, SetClaimError, IsPending
  <2>2. PICK obj : obj = [w.c EXCEPT !.phase = phase]
    OBVIOUS
  <2>3. UpdateClaim(obj) /\ w' = Idle
    BY <2>1, <2>2 DEF UpdateClaim
  <2>4. obj \in ClaimObject /\ obj.phase = phase /\ obj.finalizer /\ obj.deleting = w.c.deleting
    BY <1>0, <2>1, <2>2, EditPhase
  <2>5. QED
    BY <1>0, <2>1, <2>3, <2>4 DEF Promoted, WorkerRead, Acquires
<1>3. CASE StashSource
  <2>1. PICK obj : obj = [w.c EXCEPT !.instanceId = w.pod, !.source = "cold"]
    OBVIOUS
  <2>2. UpdateClaim(obj) /\ w.pc = "activate" /\ w' = Idle /\ w.pod \in Pods
    BY <1>0, <1>3, <2>1 DEF StashSource, UpdateClaim, TypeOK, WorkerTypeOK
  <2>3. obj \in ClaimObject /\ obj.phase = w.c.phase /\ obj.finalizer = w.c.finalizer /\ obj.deleting = w.c.deleting
    <3>1. "cold" \in Sources /\ w.c \in ClaimObject
      BY <1>0 DEF Sources
    <3>2. QED
      BY <2>1, <2>2, <3>1, EditInstance, Zenon
  <2>4. QED
    BY <1>0, <2>2, <2>3 DEF Promoted, WorkerRead, Acquires, WellFormed
<1>4. CASE ActivateClaim
  <2>1. PICK src \in Sources : src = Provenance
    BY <1>0 DEF Provenance, TypeOK, WorkerTypeOK, Worker, ClaimObject
  <2>2. PICK obj : obj = [w.c EXCEPT !.phase = "Active", !.instanceId = w.pod, !.source = src]
    OBVIOUS
  <2>3. UpdateClaim(obj) /\ w.pc = "activate" /\ w.source # "cold" /\ w' = Idle /\ w.pod \in Pods
    BY <1>0, <1>4, <2>1, <2>2 DEF ActivateClaim, UpdateClaim, TypeOK, WorkerTypeOK
  <2>4. /\ obj \in ClaimObject /\ obj.phase = "Active" /\ obj.finalizer = w.c.finalizer
        /\ obj.deleting = w.c.deleting /\ obj.instanceId = w.pod
    BY <1>0, <2>2, <2>3 DEF ClaimObject, ClaimPhases
  <2>5. QED
    BY <1>0, <2>3, <2>4 DEF Promoted, WorkerRead, Acquires, WellFormed
<1>5. CASE MarkPodLost \/ MarkReleaseFailed \/ MarkReleased
  <2>1. PICK phase \in {"Released", "ReleaseFailed"} :
            /\ UpdateClaim([w.c EXCEPT !.phase = phase]) /\ ~w.c.deleting /\ w.c.phase = "Active"
            /\ \/ w.pc = "active" /\ PodIsLost /\ phase = "Released"
               \/ w.pc = "fail" /\ phase = "ReleaseFailed"
               \/ w.pc = "finish" /\ phase = "Released"
    BY <1>0, <1>5 DEF MarkPodLost, MarkReleaseFailed, MarkReleased, WorkerRead, Releases
  <2>2. PICK obj : obj = [w.c EXCEPT !.phase = phase]
    OBVIOUS
  <2>3. UpdateClaim(obj) /\ w' = Idle
    BY <2>1, <2>2 DEF UpdateClaim
  <2>4. obj \in ClaimObject /\ obj.phase = phase /\ obj.finalizer = w.c.finalizer /\ obj.deleting = w.c.deleting
    BY <1>0, <2>1, <2>2, EditPhase
  <2>5. QED
    BY <1>0, <2>1, <2>3, <2>4 DEF Promoted, WellFormed
<1>6. QED
  BY <1>1, <1>2, <1>3, <1>4, <1>5 DEF WorkerWrites

\* What the worker's writes make of its claim.
LEMMA WorkerChanges ==
    ASSUME LifeInv, WorkerWrites
    PROVE  OneClaimChanges \/ ClaimsStay
<1>0. TypeOK /\ w.c \in ClaimObject /\ w.t \in Tenants
  BY WorkerReads
<1>1. CASE ~RemoveFinalizer
  <2>1. PICK obj \in ClaimObject : UpdateClaim(obj) /\ Promoted(w.c, obj)
    BY <1>1, WorkerPromotes
  <2>2. Settled(obj) = obj
    BY <2>1 DEF Settled, Promoted
  <2>3. QED
    BY <1>0, <2>1, <2>2, UpdateChanges DEF ClaimChange
<1>2. CASE RemoveFinalizer
  <2>1. PICK obj : obj = [w.c EXCEPT !.finalizer = FALSE]
    OBVIOUS
  <2>2. UpdateClaim(obj) /\ w.pc = "finish" /\ w.c.deleting /\ w' = Idle
    BY <1>2, <2>1 DEF RemoveFinalizer, UpdateClaim
  <2>3. obj \in ClaimObject /\ ~obj.finalizer /\ obj.deleting = w.c.deleting
    BY <1>0, <2>1, EditFlags
  <2>4. Settled(obj) = NoClaim
    BY <2>2, <2>3 DEF Settled
  <2>5. QED
    BY <1>0, <2>2, <2>3, <2>4, UpdateChanges DEF ClaimChange
<1>3. QED
  BY <1>1, <1>2

\* What the API's handlers make of a claim.
LEMMA APIChanges ==
    ASSUME LifeInv, API
    PROVE  OneClaimChanges \/ ClaimsStay
<1>0. /\ TypeOK
      /\ \A t \in Tenants : claim[t] \in ClaimObject /\ WellFormed(claim[t])
      /\ \A k \in Clients : client[k].c \in ClaimObject
      /\ \A k \in Clients : client[k].pc # "idle" => client[k].t \in Tenants
      /\ \A k \in Clients : client[k].pc = "strip" => client[k].c.phase = "Released"
  BY DEF LifeInv, ClaimsWellFormed, TypeOK, ClusterTypeOK, ClientTypeOK, Client
<1>1. CASE UNCHANGED claimVars
  BY <1>1 DEF claimVars, ClaimsStay, CacheFollows
<1>2. ASSUME NEW t \in Tenants, claim[t].phase = "absent", StoreClaim(t, NewClaim)
      PROVE  OneClaimChanges
  <2>1. NewClaim \in ClaimObject /\ Settled(NewClaim) = NewClaim
    BY DEF NewClaim, NoClaim, ClaimObject, ClaimPhases, Sources, Settled
  <2>2. QED
    BY <1>0, <1>2, <2>1, StoreChanges DEF ClaimChange
<1>3. ASSUME NEW t \in Tenants, claim[t].phase # "absent", DeleteClaim(t)
      PROVE  OneClaimChanges
  <2>1. PICK obj : obj = [claim[t] EXCEPT !.deleting = TRUE]
    OBVIOUS
  <2>2. StoreClaim(t, obj)
    BY <1>3, <2>1 DEF DeleteClaim
  <2>3. /\ obj \in ClaimObject /\ obj.finalizer = claim[t].finalizer /\ obj.deleting
    BY <1>0, <2>1, EditFlags
  <2>4. CASE claim[t].finalizer
    BY <1>0, <1>3, <2>1, <2>2, <2>3, <2>4, StoreChanges DEF ClaimChange, Settled
  <2>5. CASE ~claim[t].finalizer
    <3>1. claim[t].phase \in {"", "Released"}
      BY <1>0, <1>3, <2>5 DEF WellFormed, ClaimObject, ClaimPhases
    <3>2. QED
      BY <1>0, <2>2, <2>3, <2>5, <3>1, StoreChanges DEF ClaimChange, Settled
  <2>6. QED
    BY <2>4, <2>5
<1>4. ASSUME NEW k \in Clients, StripFinalizer(k)
      PROVE  OneClaimChanges \/ ClaimsStay
  <2>1. PICK t \in Tenants : t = client[k].t
    BY <1>0, <1>4 DEF StripFinalizer
  <2>2. CASE claim[t] # client[k].c
    BY <1>1, <1>4, <2>1, <2>2 DEF StripFinalizer, claimVars
  <2>3. CASE claim[t] = client[k].c
    <3>1. PICK obj : obj = [claim[t] EXCEPT !.finalizer = FALSE]
      OBVIOUS
    <3>2. StoreClaim(t, obj) /\ claim[t].phase = "Released"
      BY <1>0, <1>4, <2>1, <2>3, <3>1 DEF StripFinalizer
    <3>3. obj \in ClaimObject /\ ~obj.finalizer /\ obj.deleting = claim[t].deleting
      BY <1>0, <3>1, EditFlags
    <3>4. Settled(obj) = IF claim[t].deleting THEN NoClaim ELSE obj
      BY <3>3 DEF Settled
    <3>5. QED
      BY <1>0, <3>1, <3>2, <3>3, <3>4, StoreChanges DEF ClaimChange
  <2>4. QED
    BY <2>2, <2>3
<1>5. ASSUME NEW k \in Clients, DeleteReleased(k)
      PROVE  OneClaimChanges \/ ClaimsStay
  BY <1>0, <1>1, <1>3, <1>5 DEF DeleteReleased, claimVars
<1>6. ASSUME NEW k \in Clients, RecreateClaim(k)
      PROVE  OneClaimChanges \/ ClaimsStay
  BY <1>0, <1>1, <1>2, <1>6 DEF RecreateClaim, claimVars
<1>7. ASSUME NEW k \in Clients, NEW t \in Tenants, CreateClaim(k, t) \/ AcquireReleased(k, t)
      PROVE  OneClaimChanges \/ ClaimsStay
  BY <1>1, <1>2, <1>7 DEF CreateClaim, AcquireReleased, clusterVars
<1>8. ASSUME NEW t \in Tenants, ReleaseInstance(t)
      PROVE  OneClaimChanges \/ ClaimsStay
  BY <1>3, <1>8 DEF ReleaseInstance
<1>9. CASE DeletePool \/ \E p \in Pods : DestroyInstance(p)
  BY <1>1, <1>9 DEF DeletePool, DestroyInstance
<1>10. QED
  BY <1>4, <1>5, <1>6, <1>7, <1>8, <1>9 DEF API

\* Every step changes one claim, in one of these ways, or none.
LEMMA ClaimStep ==
    ASSUME LifeInv, Next
    PROVE  OneClaimChanges \/ ClaimsStay
<1>1. CASE UNCHANGED claimVars
  BY <1>1 DEF claimVars, ClaimsStay, CacheFollows
<1>2. CASE WorkerWrites
  BY <1>2, WorkerChanges
<1>3. CASE ClaimReconciler /\ ~WorkerWrites
  BY <1>1, <1>3 DEF WorkerWrites, ClaimReconciler, Reconcile, UseTenantPod, AwaitTenantPod,
     DeleteTerminalPod, ClaimFromPool, CreateTenantPod, InjectSnapshot, InjectFails, SkipSnapshot,
     ColdBoot, StayActive, IdleTimeout, ReleaseWithoutPod, DropPod, RevokeToken, GiveUp,
     ExtractSnapshot, ExtractFails, SkipExtract, clusterVars
<1>4. CASE PoolReconciler
  BY <1>1, <1>4 DEF PoolReconciler, CreatePoolPod, MarkPoolPodReady, DeletePoolPod, ReconcilePool,
     ReconcileDeletedPool, RemovePoolFinalizer, PoolGivesUp, clusterVars
<1>5. ASSUME NEW t \in Tenants, ObserveClaim(t) PROVE ClaimsStay
  <2>1. claim' = claim /\ seenClaim' = [seenClaim EXCEPT ![t] = claim[t]] /\ seenClaim # claim
    BY <1>5 DEF ObserveClaim
  <2>2. \A s \in Tenants : seenClaim'[s] \in {seenClaim[s], claim[s]}
    BY <2>1 DEF LifeInv, TypeOK, ClusterTypeOK
  <2>3. QED
    BY <2>1, <2>2 DEF ClaimsStay, CacheFollows
<1>6. CASE Surroundings
  BY <1>1, <1>5, <1>6 DEF Surroundings, PodRuns, PodFails, PodGone, ObservePod, CollectToken,
     TenantWork, WorkloadChanges, WorkloadDeleted
<1>7. QED
  BY <1>2, <1>3, <1>4, <1>6, APIChanges DEF Next

\* A claim that the worker lets go is the one it works on, at the end of its pass.
LEMMA FinalizerGoesLast ==
    ASSUME LifeInv, Next, w' # w, NEW t \in Tenants,
           claim[t].phase # "absent", claim'[t].phase = "absent"
    PROVE  t = w.t /\ w.pc = "finish"
<1>1. ClaimReconciler
  BY DEF Next, API, PoolReconciler, Surroundings, CreateClaim, AcquireReleased,
     StripFinalizer, DeleteReleased, RecreateClaim, ReleaseInstance, DestroyInstance, DeletePool,
     CreatePoolPod, MarkPoolPodReady, DeletePoolPod, ReconcilePool, ReconcileDeletedPool,
     RemovePoolFinalizer, PoolGivesUp, PodRuns, PodFails, PodGone, ObservePod,
     ObserveClaim, CollectToken, TenantWork, WorkloadChanges, WorkloadDeleted, processVars
<1>2. WorkerWrites
  BY <1>1 DEF WorkerWrites, ClaimReconciler, Reconcile, UseTenantPod, AwaitTenantPod,
     DeleteTerminalPod, ClaimFromPool, CreateTenantPod, InjectSnapshot, InjectFails, SkipSnapshot,
     ColdBoot, StayActive, IdleTimeout, ReleaseWithoutPod, DropPod, RevokeToken, GiveUp,
     ExtractSnapshot, ExtractFails, SkipExtract, clusterVars, claimVars
<1>3. TypeOK /\ WorkerRead /\ w.t \in Tenants
  BY <1>2, WorkerReads
<1>4. ASSUME NEW obj, UpdateClaim(obj)
      PROVE  t = w.t /\ claim[t] = w.c /\ Settled(obj).phase = "absent"
  <2>1. claim' = [claim EXCEPT ![w.t] = Settled(obj)] /\ claim[w.t] = w.c
    BY <1>4 DEF UpdateClaim, StoreClaim, claimVars
  <2>2. QED
    BY <1>3, <2>1 DEF TypeOK, ClusterTypeOK
<1>5. CASE RemoveFinalizer
  BY <1>4, <1>5 DEF RemoveFinalizer
<1>6. CASE ~RemoveFinalizer
  <2>1. PICK obj \in ClaimObject : UpdateClaim(obj) /\ Promoted(w.c, obj)
    BY <1>2, <1>6, WorkerPromotes
  <2>2. Settled(obj) = obj /\ w.c.phase # "absent"
    BY <1>4, <2>1 DEF Settled, Promoted
  <2>3. obj.phase # "absent"
    BY <2>1, <2>2 DEF Promoted
  <2>4. QED
    BY <1>4, <2>1, <2>2, <2>3
<1>7. QED
  BY <1>5, <1>6

-----------------------------------------------------------------------------
(* What the worker has read fits what it does, and goes on to fit it. *)

\* A claim changes into a well-formed one.
LEMMA ChangeKeepsForm ==
    ASSUME LifeInv, NEW t \in Tenants, NEW n, ClaimChange(t, claim[t], n)
    PROVE  WellFormed(n)
<1>0. claim[t] \in ClaimObject /\ WellFormed(claim[t])
  BY DEF LifeInv, ClaimsWellFormed, TypeOK, ClusterTypeOK
<1>1. WellFormed(NoClaim) /\ WellFormed(NewClaim)
  BY DEF WellFormed, NewClaim, NoClaim
<1>2. CASE claim[t].phase # "absent" /\ claim[t].finalizer /\ n = [claim[t] EXCEPT !.deleting = TRUE]
  <2>1. n.phase = claim[t].phase /\ n.finalizer = claim[t].finalizer
    BY <1>0, <1>2, EditDeleting
  <2>2. n.phase # "absent" /\ n.finalizer = TRUE
    BY <1>0, <1>2, <2>1 DEF ClaimObject
  <2>3. QED
    BY <2>2 DEF WellFormed
<1>3. CASE claim[t].phase = "Released" /\ ~claim[t].deleting /\ n = [claim[t] EXCEPT !.finalizer = FALSE]
  <2>1. n.phase = "Released" /\ n.deleting = claim[t].deleting
    BY <1>0, <1>3, EditFinalizer
  <2>2. QED
    BY <1>3, <2>1 DEF WellFormed
<1>4. CASE Promoted(claim[t], n)
  BY <1>4 DEF Promoted, LifeInv, WorkerRead, Acquires, WellFormed
<1>5. QED
  BY <1>0, <1>1, <1>2, <1>3, <1>4 DEF ClaimChange

\* Where the worker may go on to from one step to the next with what it has read.
Onwards(from, to) ==
    \/ from = "new" /\ w.c.phase = "Pending" /\ to \in {"acquire", "create", "inject", "activate"}
    \/ from = "acquire" /\ to \in {"create", "inject"}
    \/ from \in {"create", "inject"} /\ to = "activate"
    \/ from = "active" /\ to = "release"
    \/ from = "release" /\ to \in {"drop", "revoke"}
    \/ from = "release" /\ ~w.c.deleting /\ to = "fail"
    \/ from = "drop" /\ to = "revoke"
    \/ from = "revoke" /\ to = "finish"

\* What a step does to the worker: it stays, ends its pass, begins one with what
\* the cache has, or goes on.
WorkerMove ==
    \/ w' = w
    \/ w' = Idle
    \/ \E t \in Tenants :
          /\ w.pc = "idle" /\ Route(seenClaim[t]) # "idle"
          /\ w' = [Idle EXCEPT !.pc = Route(seenClaim[t]), !.t = t, !.c = seenClaim[t]]
    \/ w'.t = w.t /\ w'.c = w.c /\ Onwards(w.pc, w'.pc)

\* Every step does one of these to the worker.
LEMMA WorkerMoves ==
    ASSUME TypeOK, Next
    PROVE  WorkerMove
<1>0. w \in Worker
  BY DEF TypeOK, WorkerTypeOK
<1>1. CASE WorkerWrites \/ StayActive \/ GiveUp \/ \E p \in Pods : AwaitTenantPod(p)
  BY <1>1 DEF WorkerWrites, AddFinalizer, MarkPending, SetClaimError, StashSource,
     ActivateClaim, MarkPodLost, MarkReleaseFailed, MarkReleased, RemoveFinalizer, UpdateClaim,
     StayActive, GiveUp, AwaitTenantPod, WorkerMove
<1>2. CASE \E t \in Tenants : Reconcile(t)
  BY <1>2 DEF Reconcile, WorkerMove
<1>3. ASSUME NEW p \in Pods, UseTenantPod(p) \/ DeleteTerminalPod(p) \/ ClaimFromPool(p) \/ CreateTenantPod(p)
      PROVE  WorkerMove
  BY <1>0, <1>3 DEF UseTenantPod, DeleteTerminalPod, ClaimFromPool, CreateTenantPod, FoundTenantPod,
     Acquiring, IsPending, WorkerMove, Onwards, Worker
<1>4. CASE InjectSnapshot \/ InjectFails \/ SkipSnapshot \/ ColdBoot \/ IdleTimeout
           \/ ReleaseWithoutPod \/ DropPod \/ RevokeToken
  BY <1>0, <1>4 DEF InjectSnapshot, InjectFails, SkipSnapshot, ColdBoot, IdleTimeout,
     ReleaseWithoutPod, DropPod, RevokeToken, Acquiring, IsPending, WorkerMove, Onwards, Worker
<1>5. ASSUME NEW p \in Pods, ExtractSnapshot(p) \/ ExtractFails(p) \/ SkipExtract(p)
      PROVE  WorkerMove
  BY <1>0, <1>5 DEF ExtractSnapshot, ExtractFails, SkipExtract, Releasing, WorkerMove, Onwards, Worker
<1>6. CASE ClaimReconciler
  BY <1>1, <1>2, <1>3, <1>4, <1>5, <1>6 DEF ClaimReconciler, WorkerWrites
<1>7. CASE API \/ PoolReconciler \/ Surroundings
  BY <1>7 DEF API, PoolReconciler, Surroundings, CreateClaim, AcquireReleased,
     StripFinalizer, DeleteReleased, RecreateClaim, ReleaseInstance, DestroyInstance, DeletePool,
     CreatePoolPod, MarkPoolPodReady, DeletePoolPod, ReconcilePool, ReconcileDeletedPool,
     RemovePoolFinalizer, PoolGivesUp, PodRuns, PodFails, PodGone, ObservePod,
     ObserveClaim, CollectToken, TenantWork, WorkloadChanges, WorkloadDeleted, processVars, WorkerMove
<1>8. QED
  BY <1>6, <1>7 DEF Next

\* What the worker reads and where that leads.
LEMMA StartedPass ==
    ASSUME TypeOK, NEW t \in Tenants, Route(seenClaim[t]) # "idle",
           w' = [Idle EXCEPT !.pc = Route(seenClaim[t]), !.t = t, !.c = seenClaim[t]]
    PROVE  /\ w'.t = t /\ w'.c = seenClaim[t]
           /\ \/ w'.pc = "release" /\ seenClaim[t].deleting
              \/ w'.pc = "active" /\ ~seenClaim[t].deleting /\ seenClaim[t].phase = "Active"
              \/ w'.pc = "new" /\ ~seenClaim[t].deleting /\ seenClaim[t].phase \in {"", "Pending", "Error"}
<1>1. seenClaim[t] \in ClaimObject
  BY DEF TypeOK, ClusterTypeOK
<1>2. w'.t = t /\ w'.c = seenClaim[t] /\ w'.pc = Route(seenClaim[t])
  BY DEF Idle
<1>3. QED
  BY <1>1, <1>2 DEF Route, ClaimObject, ClaimPhases

\* A step keeps what the worker has read fitting.
LEMMA StepKeepsWorkerRead ==
    ASSUME LifeInv, Next
    PROVE  WorkerRead'
<1>0. TypeOK /\ WorkerRead /\ WorkerMove
  BY WorkerMoves DEF LifeInv
<1>1. CASE w' = w
  BY <1>0, <1>1 DEF WorkerRead
<1>2. CASE w' = Idle
  BY <1>2 DEF WorkerRead, Idle, Acquires, Releases
<1>3. ASSUME NEW t \in Tenants, Route(seenClaim[t]) # "idle",
             w' = [Idle EXCEPT !.pc = Route(seenClaim[t]), !.t = t, !.c = seenClaim[t]]
      PROVE  WorkerRead'
  BY <1>0, <1>3, StartedPass DEF WorkerRead, Acquires, Releases
<1>4. CASE w'.t = w.t /\ w'.c = w.c /\ Onwards(w.pc, w'.pc)
  BY <1>0, <1>4 DEF WorkerRead, Onwards, Acquires, Releases
<1>5. QED
  BY <1>0, <1>1, <1>2, <1>3, <1>4 DEF WorkerMove

\* A step keeps the claims, and the copies of them, well-formed.
LEMMA StepKeepsForm ==
    ASSUME LifeInv, Next
    PROVE  ClaimsWellFormed'
<1>0. /\ TypeOK /\ TypeOK' /\ ClaimsWellFormed /\ WorkerMove
      /\ OneClaimChanges \/ ClaimsStay
  BY ClaimStep, WorkerMoves, NextType DEF LifeInv
<1>1. ASSUME NEW s \in Tenants PROVE WellFormed(claim'[s])
  <2>1. CASE claim'[s] = claim[s]
    BY <1>0, <2>1 DEF ClaimsWellFormed
  <2>2. CASE claim'[s] # claim[s]
    <3>1. PICK t \in Tenants : claim' = [claim EXCEPT ![t] = claim'[t]] /\ ClaimChange(t, claim[t], claim'[t])
      BY <1>0, <2>2 DEF OneClaimChanges, ClaimsStay
    <3>2. s = t
      BY <1>0, <2>2, <3>1 DEF TypeOK, ClusterTypeOK
    <3>3. QED
      BY <3>1, <3>2, ChangeKeepsForm
  <2>3. QED
    BY <2>1, <2>2
<1>2. ASSUME NEW s \in Tenants PROVE WellFormed(seenClaim'[s])
  <2>1. seenClaim'[s] \in {seenClaim[s], claim'[s]}
    BY <1>0 DEF OneClaimChanges, ClaimsStay, CacheFollows
  <2>2. QED
    BY <1>0, <1>1, <2>1 DEF ClaimsWellFormed
<1>3. WellFormed(w'.c)
  <2>1. WellFormed(Idle.c)
    BY DEF Idle, NoClaim, WellFormed
  <2>2. w'.c \in {w.c, Idle.c} \/ \E t \in Tenants : w'.c = seenClaim[t]
    BY <1>0, StartedPass DEF WorkerMove
  <2>3. QED
    BY <1>0, <2>1, <2>2 DEF ClaimsWellFormed
<1>4. ASSUME NEW k \in Clients, client'[k].pc = "strip"
      PROVE  client'[k].c.phase = "Released"
  <2>0. client \in [Clients -> Client]
    BY <1>0 DEF TypeOK, ClientTypeOK
  <2>1. CASE client' = client
    BY <1>0, <1>4, <2>1 DEF ClaimsWellFormed
  <2>2. ASSUME NEW j \in Clients, Done(j) PROVE client'[k].c.phase = "Released"
    BY <1>0, <1>4, <2>0, <2>2 DEF Done, NoRequest, ClaimsWellFormed
  <2>3. ASSUME NEW j \in Clients, NEW t \in Tenants, AcquireReleased(j, t)
        PROVE  client'[k].c.phase = "Released"
    BY <1>0, <1>4, <2>0, <2>3 DEF AcquireReleased, ClaimsWellFormed
  <2>4. ASSUME NEW j \in Clients, NEW pc \in {"delete", "create"},
               client' = [client EXCEPT ![j].pc = pc]
        PROVE  client'[k].c.phase = "Released"
    BY <1>0, <1>4, <2>0, <2>4 DEF ClaimsWellFormed, Client
  <2>5. CASE API
    BY <2>1, <2>2, <2>3, <2>4, <2>5 DEF API, CreateClaim, StripFinalizer, DeleteReleased,
       RecreateClaim, ReleaseInstance, DestroyInstance, DeletePool, processVars, besidesWorker
  <2>6. CASE ClaimReconciler
    BY <2>1, <2>6 DEF ClaimReconciler, Reconcile, AddFinalizer, MarkPending, SetClaimError,
       UseTenantPod, AwaitTenantPod, DeleteTerminalPod, ClaimFromPool, CreateTenantPod,
       InjectSnapshot, InjectFails, SkipSnapshot, ColdBoot, StashSource, ActivateClaim, MarkPodLost,
       StayActive, IdleTimeout, ReleaseWithoutPod, MarkReleaseFailed, DropPod, RevokeToken,
       MarkReleased, RemoveFinalizer, GiveUp, ExtractSnapshot, ExtractFails, SkipExtract, besidesWorker
  <2>7. CASE PoolReconciler \/ Surroundings
    BY <2>1, <2>7 DEF PoolReconciler, Surroundings, CreatePoolPod, MarkPoolPodReady, DeletePoolPod,
       ReconcilePool, ReconcileDeletedPool, RemovePoolFinalizer, PoolGivesUp, PodRuns, PodFails,
       PodGone, ObservePod, ObserveClaim, CollectToken, TenantWork, WorkloadChanges,
       WorkloadDeleted, processVars, besidesWorker
  <2>8. QED
    BY <2>5, <2>6, <2>7 DEF Next
<1>5. QED
  BY <1>1, <1>2, <1>3, <1>4 DEF ClaimsWellFormed

\* The invariant of the claims' lives holds at first,
LEMMA LifeInvInit == Init => LifeInv
<1>1. ASSUME Init PROVE LifeInv
  <2>1. /\ TypeOK /\ claim = [t \in Tenants |-> NoClaim] /\ seenClaim = claim /\ w = Idle
        /\ client = [k \in Clients |-> NoRequest]
    BY <1>1, InitType DEF Init, ClusterInit, WorkerInit, ClientInit
  <2>2. WellFormed(NoClaim) /\ Idle.c = NoClaim /\ NoRequest.pc = "idle"
    BY DEF WellFormed, NoClaim, Idle, NoRequest
  <2>3. ClaimsWellFormed
    BY <2>1, <2>2 DEF ClaimsWellFormed
  <2>4. WorkerRead
    BY <2>1 DEF WorkerRead, Idle, Acquires, Releases
  <2>5. QED
    BY <2>1, <2>3, <2>4 DEF LifeInv
<1>2. QED
  BY <1>1

\* is kept by every step,
LEMMA LifeInvStep == LifeInv /\ [Next]_vars => LifeInv'
<1>1. ASSUME LifeInv, Next PROVE LifeInv'
  BY <1>1, NextType, StepKeepsForm, StepKeepsWorkerRead DEF LifeInv
<1>2. ASSUME LifeInv, UNCHANGED vars PROVE LifeInv'
  <2>1. UNCHANGED <<claim, seenClaim, w, client>> /\ TypeOK'
    BY <1>2, NextType DEF LifeInv, vars, clusterVars, claimVars, processVars, besidesWorker
  <2>2. QED
    BY <1>2, <2>1 DEF LifeInv, ClaimsWellFormed, WorkerRead
<1>3. QED
  BY <1>1, <1>2

\* and so holds throughout.
LEMMA LifeInvHolds == Spec => []LifeInv
BY LifeInvInit, LifeInvStep, PTL DEF Spec

-----------------------------------------------------------------------------
(* The lease. *)

Leases == [t \in Tenants |-> LeaseOf(claim[t])]

Visible(phase) == IF phase \in {"", "Pending"} THEN "waiting" ELSE phase

\* The lease of a claim, with names for its fields.
LEMMA LeaseFields ==
    ASSUME NEW c, NEW f, NEW d, f = Visible(c.phase), d = c.deleting
    PROVE  LeaseOf(c) = [phase |-> f, deleting |-> d]
BY DEF LeaseOf, Visible

\* A step that edits one claim edits one lease.
LEMMA OneLeaseChanges ==
    ASSUME TypeOK, NEW t \in Tenants, claim' = [claim EXCEPT ![t] = claim'[t]]
    PROVE  /\ Leases[t] = LeaseOf(claim[t])
           /\ Leases' = [Leases EXCEPT ![t] = LeaseOf(claim'[t])]
BY DEF Leases, TypeOK, ClusterTypeOK

\* Editing one field of a lease.
LEMMA PhaseEdited ==
    ASSUME NEW o, NEW f, NEW d, NEW phase, o = [phase |-> f, deleting |-> d]
    PROVE  [o EXCEPT !.phase = phase] = [phase |-> phase, deleting |-> d] /\ o.phase = f /\ o.deleting = d
OBVIOUS

\* And the other.
LEMMA DeletingEdited ==
    ASSUME NEW o, NEW f, NEW d, NEW deleting, o = [phase |-> f, deleting |-> d]
    PROVE  [o EXCEPT !.deleting = deleting] = [phase |-> f, deleting |-> deleting]
OBVIOUS

\* Each change of a claim is a step of its lease, or none.
LEMMA LeaseStep ==
    ASSUME LifeInv, TypeOK', NEW t \in Tenants, claim' = [claim EXCEPT ![t] = claim'[t]],
           ClaimChange(t, claim[t], claim'[t])
    PROVE  Users!LeaseNext \/ Leases' = Leases
<1> DEFINE c == claim[t]
           n == claim'[t]
<1>0. /\ TypeOK /\ WellFormed(c) /\ WorkerRead
      /\ c \in ClaimObject /\ n \in ClaimObject
      /\ Leases[t] = LeaseOf(c)
      /\ Leases' = [Leases EXCEPT ![t] = LeaseOf(n)]
  BY OneLeaseChanges DEF LifeInv, ClaimsWellFormed, TypeOK, ClusterTypeOK
<1>1. CASE LeaseOf(n) = LeaseOf(c)
  <2>1. Leases' = [Leases EXCEPT ![t] = Leases[t]]
    BY <1>0, <1>1
  <2>2. QED
    BY <2>1 DEF Leases
<1>2. LeaseOf(NoClaim) = Users!Nobody /\ LeaseOf(NewClaim) = Users!Asked
  BY DEF LeaseOf, NoClaim, NewClaim, Users!Nobody, Users!Asked
<1>3. CASE c.phase = "absent" /\ n = NewClaim
  <2>1. Users!Ask(t)
    BY <1>0, <1>2, <1>3 DEF WellFormed, Users!Ask, Leases
  <2>2. QED
    BY <2>1 DEF Users!LeaseNext
<1>4. PICK from, d : /\ from = Visible(c.phase) /\ d = c.deleting
                     /\ LeaseOf(c) = [phase |-> from, deleting |-> d]
                     /\ LeaseOf(c).phase = from /\ LeaseOf(c).deleting = d
  <2>1. PICK from, d : from = Visible(c.phase) /\ d = c.deleting
    OBVIOUS
  <2>2. LeaseOf(c) = [phase |-> from, deleting |-> d]
    BY <2>1, LeaseFields
  <2>3. LeaseOf(c).phase = from /\ LeaseOf(c).deleting = d
    BY <2>2
  <2>4. QED
    BY <2>1, <2>2, <2>3
<1>5. CASE c.phase \in {"", "Released"} /\ n = NoClaim
  <2>1. LeaseOf(c).phase \in {"waiting", "Released"}
    BY <1>4, <1>5 DEF Visible
  <2>2. Users!GiveBackAtOnce(t)
    BY <1>0, <1>2, <1>5, <2>1 DEF Users!GiveBackAtOnce, Leases
  <2>3. QED
    BY <2>2 DEF Users!LeaseNext
<1>6. CASE c.deleting /\ n = NoClaim
  <2>1. Users!Gone(t)
    BY <1>0, <1>2, <1>4, <1>6 DEF Users!Gone, Leases
  <2>2. QED
    BY <2>1 DEF Users!LeaseNext
<1>7. CASE c.phase # "absent" /\ n = [c EXCEPT !.deleting = TRUE]
  <2>1. PICK b : b = TRUE
    OBVIOUS
  <2>2. n.phase = c.phase /\ n.deleting = b
    BY <1>0, <1>7, <2>1, EditFlags DEF ClaimObject
  <2>3. LeaseOf(n) = [phase |-> from, deleting |-> b]
    BY <1>4, <2>2, LeaseFields
  <2>4. LeaseOf(n) = [LeaseOf(c) EXCEPT !.deleting = b]
    BY <1>4, <2>3, DeletingEdited
  <2>5. LeaseOf(c).phase # "absent"
    BY <1>4, <1>7 DEF Visible
  <2>6. Users!GiveBack(t)
    BY <1>0, <2>1, <2>4, <2>5 DEF Users!GiveBack, Leases
  <2>7. QED
    BY <2>6 DEF Users!LeaseNext
<1>8. CASE n.phase = c.phase /\ n.deleting = c.deleting
  <2>1. LeaseOf(n) = [phase |-> from, deleting |-> d]
    BY <1>4, <1>8, LeaseFields
  <2>2. QED
    BY <1>1, <1>4, <2>1
<1>9. CASE Promoted(c, n)
  <2>1. PICK to : to = Visible(n.phase)
    OBVIOUS
  <2>2. c = w.c /\ d = FALSE /\ n.deleting = d
    BY <1>0, <1>4, <1>9 DEF Promoted, ClaimObject
  <2>3. LeaseOf(n) = [phase |-> to, deleting |-> d]
    BY <2>1, <2>2, LeaseFields
  <2>4. LeaseOf(n) = [LeaseOf(c) EXCEPT !.phase = to]
    BY <1>4, <2>3, PhaseEdited
  <2>5. Users!Move(t, from, to)
    BY <1>0, <1>4, <2>2, <2>4 DEF Users!Move, Leases
  <2>6. \/ from = to
        \/ from = "Error" /\ to = "waiting"
        \/ from = "waiting" /\ to \in {"Error", "Active"}
        \/ from = "Active" /\ to \in {"Released", "ReleaseFailed"}
    BY <1>0, <1>4, <1>9, <2>1, <2>2 DEF Promoted, WorkerRead, Acquires, Releases, Visible
  <2>7. \/ LeaseOf(n) = LeaseOf(c)
        \/ Users!TryAgain(t) \/ Users!Refuse(t) \/ Users!Grant(t) \/ Users!Release(t)
    BY <1>4, <2>3, <2>5, <2>6 DEF Users!TryAgain, Users!Refuse, Users!Grant, Users!Release
  <2>8. QED
    BY <1>1, <2>7 DEF Users!LeaseNext
<1>10. CASE n = [c EXCEPT !.finalizer = FALSE]
  BY <1>0, <1>8, <1>10, EditFlags
<1>11. QED
  BY <1>0, <1>1, <1>3, <1>5, <1>6, <1>7, <1>9, <1>10 DEF ClaimChange

\* Whatever the caches, handlers and crashes do, a claim goes through the phases
\* that those who use it rely on (claim_controller.go, routes_tenant.go).
THEOREM ClaimsFollowLeases == Spec => ClaimFollowsLease
<1>1. Init => Users!LeaseInit
  <2>1. LeaseOf(NoClaim) = Users!Nobody
    BY DEF LeaseOf, NoClaim, Users!Nobody
  <2>2. QED
    BY <2>1 DEF Init, ClusterInit, Users!LeaseInit
<1>2. LifeInv /\ TypeOK' /\ [Next]_vars => [Users!LeaseNext]_([t \in Tenants |-> LeaseOf(claim[t])])
  <2>1. ASSUME LifeInv, TypeOK', Next PROVE Users!LeaseNext \/ Leases' = Leases
    <3>1. CASE ClaimsStay
      BY <3>1 DEF ClaimsStay, Leases
    <3>2. CASE OneClaimChanges
      BY <2>1, <3>2, LeaseStep DEF OneClaimChanges
    <3>3. QED
      BY <2>1, <3>1, <3>2, ClaimStep
  <2>2. ASSUME UNCHANGED vars PROVE Leases' = Leases
    BY <2>2 DEF vars, clusterVars, claimVars, Leases
  <2>3. QED
    BY <2>1, <2>2 DEF Leases
<1>3. QED
  BY <1>1, <1>2, LifeInvHolds, TypeCorrect, PTL DEF Spec, ClaimFollowsLease, Users!LeaseSpec

=============================================================================
