------------------------------ MODULE PodProofs ------------------------------
(***************************************************************************)
(* The Pods of a tenant when the cache of Pods is current: there is one at *)
(* most, it does not outlive its claim (when the cache of claims is        *)
(* current too), and the pool keeps to its size.  That a Pod is saved      *)
(* before it is dropped holds however far the caches trail.                *)
(***************************************************************************)
EXTENDS ClaimProofs

-----------------------------------------------------------------------------
(* What a step does to the Pods. *)

InPool(p) == pod[p].phase # "absent" /\ pod[p].poolStatus \in {"warming", "ready"}

\* A Pod that has ended, or was never there.
Ended(obj) == obj.phase \in {"Failed", "absent"}

\* A Pod's label, its life and its place in the pool end; none of them begins.
Fades(p) ==
    /\ Ended(pod[p]) => Ended(pod'[p])
    /\ pod'[p].tenant \in {pod[p].tenant, NoTenant}
    /\ LivePod(p)' => LivePod(p) /\ pod'[p].tenant = pod[p].tenant
    /\ InPool(p)' => InPool(p)
    /\ pod'[p].poolStatus = "ready"
          => \/ pod[p].poolStatus = "ready"
             \/ filler.pc = "fill" /\ \E r \in filler.todo : r[1] = p

\* Deleting Pods begins nothing.
LEMMA DeletedPodsFade ==
    ASSUME IsolationInv, NEW STATE S, DeletePods(S), NEW p \in Pods
    PROVE  Fades(p)
<1>1. pod'[p] = IF p \in S THEN AfterDelete(pod[p]) ELSE pod[p]
  BY DEF DeletePods
<1>2. pod[p] \in PodObject
  BY DEF IsolationInv, TypeOK, ClusterTypeOK
<1>3. CASE pod'[p] = AbsentPod
  BY <1>3 DEF Fades, Ended, AbsentPod, LivePod, InPool
<1>4. CASE pod'[p] = pod[p]
  BY <1>4 DEF Fades, Ended, LivePod, InPool
<1>5. CASE pod'[p] = [pod[p] EXCEPT !.terminating = TRUE]
  BY <1>2, <1>5 DEF Fades, Ended, LivePod, InPool, PodObject
<1>6. QED
  BY <1>1, <1>3, <1>4, <1>5 DEF AfterDelete

\* Nor does storing a Pod that has the label and the life it had.
LEMMA StoredPodFades ==
    ASSUME IsolationInv, NEW q \in Pods, NEW obj \in PodObject, StorePod(q, obj),
           pod[q].phase # "absent", Ended(pod[q]) => Ended(obj), obj.tenant = pod[q].tenant,
           obj.terminating = pod[q].terminating,
           \/ obj.poolStatus = pod[q].poolStatus
           \/ /\ obj.poolStatus = "ready" /\ InPool(q)
              /\ filler.pc = "fill" /\ \E r \in filler.todo : r[1] = q,
           NEW p \in Pods
    PROVE  Fades(p)
<1>1. pod' = [pod EXCEPT ![q] = obj] /\ pod \in [Pods -> PodObject]
  BY DEF StorePod, IsolationInv, TypeOK, ClusterTypeOK
<1>2. QED
  BY <1>1 DEF Fades, Ended, LivePod, InPool

\* The three steps that give a Pod a label or a life.
Begins(q) ==
    \/ ClaimFromPool(q) /\ pod[q] = seenPod[q]
    \/ CreateTenantPod(q)
    \/ CreatePoolPod(q)

\* No other step does.
LEMMA PodsFade ==
    ASSUME IsolationInv, Next, \A q \in Pods : ~Begins(q)
    PROVE  \A p \in Pods : Fades(p)
<1>0. TypeOK /\ FillerInv /\ BlankWhenAbsent
  BY DEF IsolationInv, PodsInv
<1>1. CASE UNCHANGED pod
  BY <1>1 DEF Fades, Ended, LivePod, InPool
<1>2. ASSUME NEW q \in Pods, DeleteTerminalPod(q) \/ DestroyInstance(q) \/ DeletePoolPod(q)
      PROVE  \A p \in Pods : Fades(p)
  BY <1>2, DeletedPodsFade DEF DeleteTerminalPod, DestroyInstance, DeletePoolPod
<1>3. CASE DropPod \/ WorkloadDeleted
  BY <1>3, DeletedPodsFade DEF DropPod, WorkloadDeleted
<1>4. ASSUME NEW q \in Pods, PodRuns(q) \/ PodFails(q)
      PROVE  \A p \in Pods : Fades(p)
  <2>1. PICK phase \in {"Running", "Failed"} : StorePod(q, [pod[q] EXCEPT !.phase = phase])
    BY <1>4 DEF PodRuns, PodFails
  <2>2. PICK obj : obj = [pod[q] EXCEPT !.phase = phase]
    OBVIOUS
  <2>3. pod[q] \in PodObject /\ pod[q].phase # "absent" /\ ~Ended(pod[q])
    BY <1>0, <1>4 DEF TypeOK, ClusterTypeOK, PodRuns, PodFails, Ended
  <2>4. /\ obj \in PodObject /\ obj.tenant = pod[q].tenant
        /\ obj.terminating = pod[q].terminating /\ obj.poolStatus = pod[q].poolStatus
    BY <2>2, <2>3 DEF PodObject
  <2>5. QED
    BY <2>1, <2>2, <2>3, <2>4, StoredPodFades
<1>5. ASSUME NEW q \in Pods, MarkPoolPodReady(q)
      PROVE  \A p \in Pods : Fades(p)
  <2>1. PICK r \in filler.todo :
            /\ r[1] = q
            /\ IF pod[q] = r[2] THEN StorePod(q, [pod[q] EXCEPT !.poolStatus = "ready"])
                                ELSE UNCHANGED podVars
    BY <1>5 DEF MarkPoolPodReady
  <2>2. CASE pod[q] # r[2]
    BY <1>1, <2>1, <2>2 DEF podVars
  <2>3. CASE pod[q] = r[2]
    <3>1. PICK obj : obj = [pod[q] EXCEPT !.poolStatus = "ready"]
      OBVIOUS
    <3>2. filler.pc = "fill" /\ pod[q] \in PodObject /\ InPool(q)
      BY <1>0, <1>5, <2>1, <2>3 DEF MarkPoolPodReady, FillerInv, TypeOK, ClusterTypeOK, InPool
    <3>3. /\ obj \in PodObject /\ obj.tenant = pod[q].tenant
          /\ obj.terminating = pod[q].terminating /\ obj.poolStatus = "ready"
          /\ Ended(pod[q]) => Ended(obj)
      BY <3>1, <3>2 DEF PodObject, Ended
    <3>4. QED
      BY <2>1, <2>3, <3>1, <3>2, <3>3, StoredPodFades DEF InPool
  <2>4. QED
    BY <2>2, <2>3
<1>6. ASSUME NEW q \in Pods, PodGone(q)
      PROVE  \A p \in Pods : Fades(p)
  BY <1>0, <1>6 DEF PodGone, Fades, Ended, LivePod, InPool, AbsentPod, TypeOK, ClusterTypeOK
<1>7. ASSUME NEW q \in Pods, ClaimFromPool(q)
      PROVE  \A p \in Pods : Fades(p)
  BY <1>1, <1>7 DEF ClaimFromPool, Begins, podVars
<1>8. CASE \/ \E t \in Tenants : Reconcile(t)
           \/ \E p \in Pods : UseTenantPod(p) \/ AwaitTenantPod(p)
           \/ \E p \in Pods : ExtractSnapshot(p) \/ ExtractFails(p) \/ SkipExtract(p)
           \/ WorkerWrites \/ InjectSnapshot \/ InjectFails \/ SkipSnapshot \/ ColdBoot
           \/ StayActive \/ IdleTimeout \/ ReleaseWithoutPod \/ RevokeToken \/ GiveUp
  BY <1>1, <1>8 DEF WorkerWrites, Reconcile, AddFinalizer, MarkPending, SetClaimError, UseTenantPod,
     AwaitTenantPod, ExtractSnapshot, ExtractFails, SkipExtract, InjectSnapshot, InjectFails,
     SkipSnapshot, ColdBoot, StashSource, ActivateClaim, MarkPodLost, StayActive, IdleTimeout,
     ReleaseWithoutPod, MarkReleaseFailed, RevokeToken, MarkReleased, RemoveFinalizer, GiveUp,
     clusterVars, podVars
<1>9. CASE ClaimReconciler
  BY <1>2, <1>3, <1>7, <1>8, <1>9 DEF ClaimReconciler, WorkerWrites, Begins
<1>10. CASE PoolReconciler
  BY <1>1, <1>2, <1>5, <1>10 DEF PoolReconciler, ReconcilePool, ReconcileDeletedPool,
     RemovePoolFinalizer, PoolGivesUp, Begins, clusterVars, podVars
<1>11. CASE API
  BY <1>1, <1>2, <1>11 DEF API, CreateClaim, AcquireReleased, StripFinalizer, DeleteReleased,
     RecreateClaim, ReleaseInstance, DeletePool, clusterVars, podVars
<1>12. CASE Surroundings
  BY <1>1, <1>3, <1>4, <1>6, <1>12 DEF Surroundings, ObservePod, ObserveClaim, CollectToken,
     TenantWork, WorkloadChanges, podVars
<1>13. QED
  BY <1>9, <1>10, <1>11, <1>12 DEF Next

\* What the three that do make of the Pod; the others stay as they are.
LEMMA PodBegins ==
    ASSUME IsolationInv, NEW q \in Pods, Begins(q)
    PROVE  /\ \A p \in Pods \ {q} : pod'[p] = pod[p]
           /\ overlay' = overlay
           /\ \/ /\ ClaimFromPool(q) /\ pod[q] = seenPod[q]
                 /\ LivePod(q)' => LivePod(q)
                 /\ pod'[q].phase = pod[q].phase
                 /\ pod[q].poolStatus = "ready"
                 /\ w.t \in Tenants /\ pod'[q].tenant = w.t /\ pod'[q].poolStatus = "acquired"
                 /\ w'.pc = "inject" /\ w'.t = w.t /\ w'.c = w.c /\ w'.pod = q
              \/ /\ CreateTenantPod(q) /\ seenPod[q].phase = "absent"
                 /\ w.t \in Tenants /\ pod'[q].tenant = w.t /\ pod'[q].poolStatus = "none"
                 /\ w'.pc = "activate" /\ w'.t = w.t /\ w'.c = w.c /\ w'.pod = q /\ w'.source = "cold"
              \/ /\ CreatePoolPod(q) /\ seenPod[q].phase = "absent" /\ w' = w
                 /\ pod'[q].tenant = NoTenant /\ pod'[q].poolStatus = "warming"
<1>0. /\ TypeOK /\ pod \in [Pods -> PodObject] /\ w \in Worker
      /\ w.pc # "idle" => w.t \in Tenants
  BY DEF IsolationInv, TypeOK, ClusterTypeOK, WorkerTypeOK
<1>1. CASE ClaimFromPool(q) /\ pod[q] = seenPod[q]
  <2>1. PICK obj : obj = [pod[q] EXCEPT !.tenant = w.t, !.poolStatus = "acquired"]
    OBVIOUS
  <2>2. pod' = [pod EXCEPT ![q] = obj] /\ overlay' = overlay /\ w.t \in Tenants
    BY <1>0, <1>1, <2>1 DEF ClaimFromPool, StorePod, Acquiring, IsPending
  <2>3. /\ obj.phase = pod[q].phase /\ obj.terminating = pod[q].terminating
        /\ obj.tenant = w.t /\ obj.poolStatus = "acquired"
    BY <1>0, <2>1, <2>2 DEF PodObject
  <2>4. w'.pc = "inject" /\ w'.t = w.t /\ w'.c = w.c /\ w'.pod = q
    BY <1>0, <1>1 DEF ClaimFromPool, Worker
  <2>5. pod[q].poolStatus = "ready"
    BY <1>1 DEF ClaimFromPool, ReadyPoolPods
  <2>6. QED
    BY <1>0, <1>1, <2>2, <2>3, <2>4, <2>5 DEF LivePod
<1>2. CASE CreateTenantPod(q)
  <2>1. pod' = [pod EXCEPT ![q] = [AbsentPod EXCEPT !.phase = "Pending", !.tenant = w.t]]
        /\ overlay' = overlay /\ w.t \in Tenants
    BY <1>0, <1>2 DEF CreateTenantPod, StorePod
  <2>2. w'.pc = "activate" /\ w'.t = w.t /\ w'.c = w.c /\ w'.pod = q /\ w'.source = "cold"
    BY <1>0, <1>2 DEF CreateTenantPod, Worker
  <2>3. QED
    BY <1>0, <1>2, <2>1, <2>2 DEF AbsentPod, CreateTenantPod, FreshPods
<1>3. CASE CreatePoolPod(q)
  <2>1. pod' = [pod EXCEPT ![q] = [AbsentPod EXCEPT !.phase = "Pending", !.poolStatus = "warming"]]
        /\ overlay' = overlay /\ w' = w
    BY <1>0, <1>3 DEF CreatePoolPod, StorePod
  <2>2. QED
    BY <1>0, <1>3, <2>1 DEF AbsentPod, CreatePoolPod, FreshPods
<1>4. QED
  BY <1>1, <1>2, <1>3 DEF Begins

\* A cache that does not trail keeps up.
LEMMA PodCacheKeepsUp ==
    ASSUME TypeOK, Next, "pods" \notin LaggingCache, seenPod = pod
    PROVE  seenPod' = pod'
<1>1. CASE UNCHANGED <<pod, seenPod>>
  BY <1>1
<1>2. ASSUME NEW q \in Pods, DeleteTerminalPod(q) \/ DestroyInstance(q) \/ DeletePoolPod(q)
      PROVE  seenPod' = pod'
  BY <1>2 DEF DeleteTerminalPod, DestroyInstance, DeletePoolPod, DeletePods
<1>3. CASE DropPod \/ WorkloadDeleted
  BY <1>3 DEF DropPod, WorkloadDeleted, DeletePods
<1>4. ASSUME NEW q \in Pods, \/ PodRuns(q) \/ PodFails(q) \/ PodGone(q) \/ MarkPoolPodReady(q)
                             \/ CreateTenantPod(q) \/ CreatePoolPod(q) \/ ClaimFromPool(q)
      PROVE  seenPod' = pod'
  BY <1>1, <1>4 DEF PodRuns, PodFails, PodGone, MarkPoolPodReady, CreateTenantPod, CreatePoolPod,
     ClaimFromPool, StorePod, podVars
<1>5. ASSUME NEW q \in Pods, ObservePod(q)
      PROVE  seenPod' = pod'
  BY <1>5 DEF ObservePod, TypeOK, ClusterTypeOK
<1>6. CASE ClaimReconciler
  BY <1>1, <1>2, <1>3, <1>4, <1>6 DEF ClaimReconciler, Reconcile, AddFinalizer, MarkPending, SetClaimError, UseTenantPod,
     AwaitTenantPod, ExtractSnapshot, ExtractFails, SkipExtract, InjectSnapshot, InjectFails,
     SkipSnapshot, ColdBoot, StashSource, ActivateClaim, MarkPodLost, StayActive, IdleTimeout,
     ReleaseWithoutPod, MarkReleaseFailed, RevokeToken, MarkReleased, RemoveFinalizer, GiveUp,
     clusterVars, podVars
<1>7. CASE PoolReconciler
  BY <1>1, <1>2, <1>4, <1>7 DEF PoolReconciler, ReconcilePool, ReconcileDeletedPool,
     RemovePoolFinalizer, PoolGivesUp, clusterVars, podVars
<1>8. CASE API
  BY <1>1, <1>2, <1>8 DEF API, CreateClaim, AcquireReleased, StripFinalizer, DeleteReleased,
     RecreateClaim, ReleaseInstance, DeletePool, clusterVars, podVars
<1>9. CASE Surroundings
  BY <1>1, <1>3, <1>4, <1>5, <1>9 DEF Surroundings, ObserveClaim, CollectToken,
     TenantWork, WorkloadChanges, podVars
<1>10. QED
  BY <1>6, <1>7, <1>8, <1>9 DEF Next

\* The steps that take the worker on to another step of its pass.
LEMMA WhoMoves ==
    ASSUME TypeOK, Next, w' # w, w'.pc # "idle"
    PROVE  \/ \E t \in Tenants : Reconcile(t)
           \/ \E p \in Pods : UseTenantPod(p) \/ DeleteTerminalPod(p) \/ ClaimFromPool(p) \/ CreateTenantPod(p)
           \/ \E p \in Pods : ExtractSnapshot(p) \/ ExtractFails(p) \/ SkipExtract(p)
           \/ InjectSnapshot \/ InjectFails \/ SkipSnapshot \/ ColdBoot
           \/ IdleTimeout \/ ReleaseWithoutPod \/ DropPod \/ RevokeToken
<1>1. ClaimReconciler
  BY DEF Next, API, PoolReconciler, Surroundings, CreateClaim, AcquireReleased,
     StripFinalizer, DeleteReleased, RecreateClaim, ReleaseInstance, DestroyInstance, DeletePool,
     CreatePoolPod, MarkPoolPodReady, DeletePoolPod, ReconcilePool, ReconcileDeletedPool,
     RemovePoolFinalizer, PoolGivesUp, PodRuns, PodFails, PodGone, ObservePod,
     ObserveClaim, CollectToken, TenantWork, WorkloadChanges, WorkloadDeleted, processVars
<1>2. Idle.pc = "idle"
  BY DEF Idle
<1>3. ~WorkerWrites /\ ~StayActive /\ ~GiveUp /\ \A p \in Pods : ~AwaitTenantPod(p)
  BY <1>2 DEF WorkerWrites, AddFinalizer, MarkPending, SetClaimError, StashSource,
     ActivateClaim, MarkPodLost, MarkReleaseFailed, MarkReleased, RemoveFinalizer, UpdateClaim,
     StayActive, GiveUp, AwaitTenantPod
<1>4. QED
  BY <1>1, <1>3 DEF ClaimReconciler, WorkerWrites

\* Where each of them leads.
LEMMA WhereTo ==
    ASSUME TypeOK
    PROVE  /\ \A t \in Tenants : Reconcile(t) => w'.pc \in {"new", "active", "release"}
           /\ \A p \in Pods : /\ UseTenantPod(p) => w'.pc = "activate" /\ w'.pod = p
                              /\ DeleteTerminalPod(p) => w'.pc = "acquire"
                              /\ ClaimFromPool(p) => w'.pc \in {"inject", "idle"}
                              /\ CreateTenantPod(p) => w'.pc = "activate" /\ w'.source = "cold"
                              /\ ExtractSnapshot(p) => w'.pc = "drop" /\ w'.pod = p /\ w'.t = w.t
                              /\ ExtractFails(p) => w'.pc \in {"fail", "idle"}
                              /\ SkipExtract(p) => w'.pc = "drop" /\ w'.pod = p /\ w'.t = w.t
           /\ InjectSnapshot \/ InjectFails \/ SkipSnapshot
                 => w'.pc = "activate" /\ w.pc = "inject" /\ w'.pod = w.pod
           /\ ColdBoot => w'.pc = "create"
           /\ IdleTimeout => w'.pc = "release"
           /\ ReleaseWithoutPod \/ DropPod => w'.pc = "revoke"
           /\ RevokeToken => w'.pc = "finish"
<1>0. w \in Worker /\ Idle.pc = "idle"
  BY DEF TypeOK, WorkerTypeOK, Idle
<1>1. \A t \in Tenants : Reconcile(t) => w'.pc \in {"new", "active", "release"}
  BY DEF Reconcile, Route, Idle
<1>2. ASSUME NEW p \in Pods
      PROVE  /\ UseTenantPod(p) => w'.pc = "activate" /\ w'.pod = p
             /\ DeleteTerminalPod(p) => w'.pc = "acquire"
             /\ ClaimFromPool(p) => w'.pc \in {"inject", "idle"}
             /\ CreateTenantPod(p) => w'.pc = "activate" /\ w'.source = "cold"
  BY <1>0 DEF UseTenantPod, DeleteTerminalPod, ClaimFromPool, CreateTenantPod, Worker
<1>3. ASSUME NEW p \in Pods
      PROVE  /\ ExtractSnapshot(p) => w'.pc = "drop" /\ w'.pod = p /\ w'.t = w.t
             /\ ExtractFails(p) => w'.pc \in {"fail", "idle"}
             /\ SkipExtract(p) => w'.pc = "drop" /\ w'.pod = p /\ w'.t = w.t
  BY <1>0 DEF ExtractSnapshot, ExtractFails, SkipExtract, Worker
<1>4. InjectSnapshot \/ InjectFails \/ SkipSnapshot
          => w'.pc = "activate" /\ w.pc = "inject" /\ w'.pod = w.pod
  BY <1>0 DEF InjectSnapshot, InjectFails, SkipSnapshot, Worker
<1>5. /\ ColdBoot => w'.pc = "create"
      /\ IdleTimeout => w'.pc = "release"
      /\ ReleaseWithoutPod \/ DropPod => w'.pc = "revoke"
      /\ RevokeToken => w'.pc = "finish"
  BY <1>0 DEF ColdBoot, IdleTimeout, ReleaseWithoutPod, DropPod, RevokeToken, Worker
<1>6. QED
  BY <1>1, <1>2, <1>3, <1>4, <1>5

-----------------------------------------------------------------------------
(* A tenant has one Pod. *)

\* Only the Pods of S have the label of t: now, and after the step.
OnlyPods(t, S) == \A p \in Pods : pod[p].tenant = t => p \in S
OnlyThen(t, S) == \A p \in Pods : pod'[p].tenant = t => p \in S

\* A worker about to give a tenant a Pod knows of none; one that works on a Pod
\* of the tenant knows of no other.
WorkerKnows ==
    /\ w.pc \in {"acquire", "create"} => OnlyPods(w.t, {})
    /\ w.pc \in {"inject", "activate", "drop"} => OnlyPods(w.t, {w.pod})

\* The cache shows the Pods as they are.
OnePodInv == seenPod = pod /\ OnePodPerTenant /\ WorkerKnows

\* Fading Pods keep what is said of them.
LEMMA FadingKeepsOnly ==
    ASSUME NEW t \in Tenants, NEW S, OnlyPods(t, S), \A p \in Pods : Fades(p)
    PROVE  OnlyThen(t, S)
BY ClusterAssumption DEF ClusterAssumption, OnlyPods, OnlyThen, Fades

\* Where that leaves the worker.
LEMMA KnowsThen ==
    ASSUME \/ w'.pc \notin {"acquire", "create", "inject", "activate", "drop"}
           \/ w'.t = w.t /\ w'.pc \in {"acquire", "create"} /\ OnlyThen(w.t, {})
           \/ w'.t = w.t /\ w'.pc \in {"inject", "activate", "drop"} /\ OnlyThen(w.t, {w'.pod})
    PROVE  WorkerKnows'
BY DEF WorkerKnows, OnlyPods, OnlyThen

\* A worker that is to create a Pod sees none of the tenant.
LEMMA NoPodWhenAcquiring ==
    ASSUME IsolationInv, OnePodInv, Acquiring
    PROVE  w.t \in Tenants /\ OnlyPods(w.t, {})
<1>1. w.t \in Tenants
  BY DEF Acquiring, IsPending, IsolationInv, TypeOK, WorkerTypeOK
<1>2. CASE w.pc = "acquire"
  BY <1>1, <1>2 DEF OnePodInv, WorkerKnows
<1>3. CASE TenantPods(w.t) = {}
  BY <1>1, <1>3, ClusterAssumption DEF ClusterAssumption, OnePodInv, OnlyPods, TenantPods,
     PresentPods, IsolationInv, PodsInv, BlankWhenAbsent, AbsentPod
<1>4. QED
  BY <1>1, <1>2, <1>3 DEF Acquiring

\* The Pod that the worker finds is the only one.
LEMMA FoundPodIsOnly ==
    ASSUME OnePodInv, NEW p \in TenantPods(w.t), w.t \in Tenants
    PROVE  OnlyPods(w.t, {p})
BY ClusterAssumption DEF ClusterAssumption, OnePodInv, OnePodPerTenant, OnlyPods, TenantPods, PresentPods

\* A step that labels no Pod.
LEMMA FadingKeepsOnePod ==
    ASSUME IsolationInv, OnePodInv, Next, \A p \in Pods : Fades(p), \A q \in Pods : ~Begins(q)
    PROVE  OnePodPerTenant' /\ WorkerKnows'
<1>0. /\ TypeOK /\ OnePodPerTenant /\ seenPod = pod /\ WorkerKnows
      /\ w \in Worker /\ (w.pc # "idle" => w.t \in Tenants)
  BY DEF IsolationInv, OnePodInv, TypeOK, WorkerTypeOK
<1>1. OnePodPerTenant'
  BY <1>0 DEF OnePodPerTenant, Fades
<1>2. CASE w' = w
  <2>1. ASSUME w.pc \in {"acquire", "create"} PROVE OnlyThen(w.t, {})
    <3>1. w.t \in Tenants /\ OnlyPods(w.t, {})
      BY <1>0, <2>1 DEF WorkerKnows
    <3>2. QED
      BY <3>1, FadingKeepsOnly
  <2>2. ASSUME w.pc \in {"inject", "activate", "drop"} PROVE OnlyThen(w.t, {w.pod})
    <3>1. w.t \in Tenants /\ OnlyPods(w.t, {w.pod})
      BY <1>0, <2>2 DEF WorkerKnows
    <3>2. QED
      BY <3>1, FadingKeepsOnly
  <2>3. QED
    BY <1>1, <1>2, <2>1, <2>2, KnowsThen
<1>3. CASE w' = Idle
  <2>1. w'.pc = "idle"
    BY <1>3 DEF Idle
  <2>2. QED
    BY <1>1, <2>1, KnowsThen
<1>4. ASSUME NEW p \in Pods, UseTenantPod(p) \/ ExtractSnapshot(p) \/ SkipExtract(p)
      PROVE  WorkerKnows'
  <2>1. /\ p \in TenantPods(w.t) /\ w.t \in Tenants
        /\ w'.t = w.t /\ w'.pod = p /\ w'.pc \in {"activate", "drop"}
    BY <1>0, <1>4 DEF UseTenantPod, ExtractSnapshot, SkipExtract, FoundTenantPod, IsPending, Releasing, Worker
  <2>2. OnlyThen(w.t, {p})
    BY <2>1, FoundPodIsOnly, FadingKeepsOnly
  <2>3. QED
    BY <2>1, <2>2, KnowsThen
<1>5. ASSUME NEW p \in Pods, DeleteTerminalPod(p)
      PROVE  WorkerKnows'
  <2>1. p \in TenantPods(w.t) /\ w.t \in Tenants /\ w'.t = w.t /\ w'.pc = "acquire" /\ pod[p].phase = "Failed"
    BY <1>0, <1>5 DEF DeleteTerminalPod, FoundTenantPod, IsPending, Worker
  <2>2. pod'[p].tenant = NoTenant
    BY <1>0, <1>5, <2>1 DEF DeleteTerminalPod, DeletePods, AfterDelete, AbsentPod, TypeOK, ClusterTypeOK
  <2>3. OnlyThen(w.t, {p})
    BY <2>1, FoundPodIsOnly, FadingKeepsOnly
  <2>4. OnlyThen(w.t, {})
    BY <2>1, <2>2, <2>3, ClusterAssumption DEF ClusterAssumption, OnlyThen
  <2>5. QED
    BY <2>1, <2>4, KnowsThen
<1>6. CASE ColdBoot
  <2>1. w'.t = w.t /\ w'.pc = "create" /\ w.t \in Tenants /\ OnlyPods(w.t, {})
    BY <1>0, <1>6, NoPodWhenAcquiring DEF ColdBoot, Worker
  <2>2. OnlyThen(w.t, {})
    BY <2>1, FadingKeepsOnly
  <2>3. QED
    BY <1>1, <2>1, <2>2, KnowsThen
<1>7. CASE InjectSnapshot \/ InjectFails \/ SkipSnapshot
  <2>1. w'.t = w.t /\ w'.pc = "activate" /\ w.pc = "inject" /\ w'.pod = w.pod /\ w.t \in Tenants
    BY <1>0, <1>7 DEF InjectSnapshot, InjectFails, SkipSnapshot, Worker
  <2>2. OnlyPods(w.t, {w.pod})
    BY <1>0, <2>1 DEF WorkerKnows
  <2>3. OnlyThen(w.t, {w.pod})
    BY <2>1, <2>2, FadingKeepsOnly
  <2>4. QED
    BY <1>1, <2>1, <2>3, KnowsThen
<1>8. CASE w'.pc \in {"acquire", "create", "inject", "activate", "drop"} /\ w' # w
  <2>1. \/ InjectSnapshot \/ InjectFails \/ SkipSnapshot \/ ColdBoot
        \/ \E p \in Pods : \/ UseTenantPod(p) \/ ExtractSnapshot(p) \/ SkipExtract(p)
                           \/ DeleteTerminalPod(p)
    <3>1. ~DropPod /\ \A p \in Pods : ~ClaimFromPool(p) /\ ~CreateTenantPod(p)
      BY <1>0, <1>8, WhereTo DEF Begins, ClaimFromPool, Idle
    <3>2. QED
      BY <1>0, <1>8, <3>1, WhoMoves, WhereTo, Zenon
  <2>2. WorkerKnows'
    BY <1>4, <1>5, <1>6, <1>7, <2>1
  <2>3. QED
    BY <1>1, <2>2
<1>9. QED
  BY <1>1, <1>2, <1>8, KnowsThen

\* A step that labels one.
LEMMA BeginningKeepsOnePod ==
    ASSUME IsolationInv, OnePodInv, NEW q \in Pods, Begins(q)
    PROVE  OnePodPerTenant' /\ WorkerKnows'
<1>0. /\ \A p \in Pods \ {q} : pod'[p] = pod[p]
      /\ OnePodPerTenant /\ WorkerKnows
      /\ w.pc # "idle" => w.t \in Tenants
      /\ NoTenant \notin Tenants
  BY PodBegins, ClusterAssumption DEF ClusterAssumption, OnePodInv, IsolationInv, TypeOK, WorkerTypeOK
<1>1. CASE /\ w.t \in Tenants /\ pod'[q].tenant = w.t
           /\ w'.pc \in {"inject", "activate"} /\ w'.t = w.t /\ w'.pod = q /\ OnlyPods(w.t, {})
  <2>1. OnlyThen(w.t, {q})
    BY <1>0, <1>1 DEF OnlyPods, OnlyThen
  <2>2. OnePodPerTenant'
    BY <1>0, <1>1 DEF OnlyPods, OnePodPerTenant
  <2>3. QED
    BY <1>1, <2>1, <2>2, KnowsThen
<1>2. CASE w' = w /\ pod'[q].tenant = NoTenant
  <2>1. OnePodPerTenant'
    BY <1>0, <1>2 DEF OnePodPerTenant
  <2>2. ASSUME NEW S, OnlyPods(w.t, S), w.pc # "idle" PROVE OnlyThen(w.t, S)
    BY <1>0, <1>2, <2>2 DEF OnlyPods, OnlyThen
  <2>3. QED
    BY <1>0, <1>2, <2>1, <2>2, KnowsThen DEF WorkerKnows
<1>3. ASSUME Acquiring \/ w.pc = "create" PROVE OnlyPods(w.t, {})
  BY <1>0, <1>3, NoPodWhenAcquiring DEF WorkerKnows
<1>4. \/ /\ w.t \in Tenants /\ pod'[q].tenant = w.t
         /\ w'.pc \in {"inject", "activate"} /\ w'.t = w.t /\ w'.pod = q
         /\ Acquiring \/ w.pc = "create"
      \/ w' = w /\ pod'[q].tenant = NoTenant
  BY PodBegins DEF ClaimFromPool, CreateTenantPod
<1>5. QED
  BY <1>1, <1>2, <1>3, <1>4

\* Every step keeps a tenant at one Pod, and the worker informed.
LEMMA OnePodInvStep ==
    ASSUME IsolationInv, OnePodInv, "pods" \notin LaggingCache, [Next]_vars
    PROVE  OnePodInv'
<1>1. CASE UNCHANGED vars
  BY <1>1 DEF vars, clusterVars, podVars, processVars, OnePodInv, OnePodPerTenant, WorkerKnows, OnlyPods
<1>2. CASE Next
  <2>1. seenPod' = pod'
    BY <1>2, PodCacheKeepsUp DEF IsolationInv, OnePodInv
  <2>2. CASE \E q \in Pods : Begins(q)
    BY <2>1, <2>2, BeginningKeepsOnePod DEF OnePodInv
  <2>3. CASE \A q \in Pods : ~Begins(q)
    BY <1>2, <2>1, <2>3, PodsFade, FadingKeepsOnePod DEF OnePodInv
  <2>4. QED
    BY <2>2, <2>3
<1>3. QED
  BY <1>1, <1>2

\* There is no Pod at first.
LEMMA OnePodInvInit == Init => OnePodInv
<1>1. AbsentPod.tenant = NoTenant /\ Idle.pc = "idle"
  BY DEF AbsentPod, Idle
<1>2. QED
  BY <1>1 DEF Init, ClusterInit, WorkerInit, OnePodInv, OnePodPerTenant, WorkerKnows

\* A tenant never has two Pods if the cache of Pods is current (handleNewClaim
\* looks for a Pod of the tenant before it makes one).
THEOREM OnePodEach == "pods" \notin LaggingCache => (Spec => []OnePodPerTenant)
<1>1. SUFFICES ASSUME "pods" \notin LaggingCache PROVE Spec => []OnePodPerTenant
  OBVIOUS
<1>2. IsolationInv /\ OnePodInv /\ [Next]_vars => OnePodInv'
  BY <1>1, OnePodInvStep
<1>3. OnePodInv => OnePodPerTenant
  BY DEF OnePodInv
<1>4. QED
  BY <1>2, <1>3, OnePodInvInit, IsolationInvHolds, PTL DEF Spec

-----------------------------------------------------------------------------
(* The pool keeps to its size. *)

\* What the pass has still to create is counted with what there is.
ToCreate == IF filler.pc = "fill" THEN filler.create ELSE 0

PoolInv == Cardinality(PoolPods(pod)) + ToCreate <= PoolSize

\* The pool is a finite set, and one that has not grown has not more Pods.
LEMMA PoolCount ==
    /\ PoolPods(pod) = {p \in Pods : InPool(p)}
    /\ IsFiniteSet(PoolPods(pod)) /\ Cardinality(PoolPods(pod)) \in Nat
<1>1. PoolPods(pod) = {p \in Pods : InPool(p)}
  BY DEF PoolPods, PresentPods, InPool
<1>2. IsFiniteSet(PoolPods(pod))
  BY <1>1, PoolAssumption, FS_Subset DEF PoolAssumption
<1>3. QED
  BY <1>1, <1>2, FS_CardinalityType

\* The same after the step.
LEMMA PoolCountThen ==
    /\ PoolPods(pod)' = {p \in Pods : InPool(p)'}
    /\ Cardinality(PoolPods(pod)') \in Nat
    /\ \A S : IsFiniteSet(S) /\ PoolPods(pod)' \subseteq S
                  => Cardinality(PoolPods(pod)') <= Cardinality(S)
<1>1. PoolPods(pod)' = {p \in Pods : InPool(p)'}
  BY DEF PoolPods, PresentPods, InPool
<1>2. IsFiniteSet(PoolPods(pod)')
  BY <1>1, PoolAssumption, FS_Subset DEF PoolAssumption
<1>3. QED
  BY <1>1, <1>2, FS_CardinalityType, FS_Subset

\* The pool reconciler's pass from one step to the next.
LEMMA FillerMoves ==
    ASSUME TypeOK, Next
    PROVE  \/ ToCreate' <= ToCreate /\ \A q \in Pods : ~CreatePoolPod(q)
           \/ ReconcilePool
           \/ \E q \in Pods : CreatePoolPod(q) /\ ToCreate' = ToCreate - 1
<1>0. /\ filler \in Pass /\ filler.create \in Nat /\ ToCreate \in Nat
      /\ NoPass.pc = "idle"
  BY DEF TypeOK, FillerTypeOK, Pass, ToCreate, NoPass
<1>1. CASE filler' = filler
  <2>1. ASSUME NEW q \in Pods, CreatePoolPod(q) PROVE FALSE
    <3>1. PICK pass : pass = [filler EXCEPT !.create = @ - 1]
      OBVIOUS
    <3>2. pass.create = filler.create - 1 /\ pass.pc = filler.pc
      BY <1>0, <3>1 DEF Pass
    <3>3. filler' \in {pass, NoPass} /\ filler.pc = "fill"
      BY <2>1, <3>1 DEF CreatePoolPod, Left
    <3>4. QED
      BY <1>0, <1>1, <3>2, <3>3
  <2>2. QED
    BY <1>0, <1>1, <2>1 DEF ToCreate
<1>2. CASE filler'.pc # "fill" /\ \A q \in Pods : ~CreatePoolPod(q)
  BY <1>0, <1>2 DEF ToCreate
<1>3. ASSUME NEW q \in Pods, CreatePoolPod(q) PROVE ToCreate' = ToCreate - 1
  <2>1. PICK pass : pass = [filler EXCEPT !.create = @ - 1]
    OBVIOUS
  <2>2. pass.create = filler.create - 1 /\ pass.pc = "fill" /\ pass.todo = {} /\ filler.pc = "fill"
    BY <1>0, <1>3, <2>1 DEF Pass, CreatePoolPod
  <2>3. filler' = Left(pass)
    BY <1>3, <2>1 DEF CreatePoolPod
  <2>4. CASE pass.create = 0
    BY <1>0, <2>2, <2>3, <2>4 DEF Left, ToCreate
  <2>5. CASE pass.create # 0
    BY <1>0, <2>2, <2>3, <2>5 DEF Left, ToCreate
  <2>6. QED
    BY <2>4, <2>5
<1>4. ASSUME NEW q \in Pods, MarkPoolPodReady(q), \A p \in Pods : ~CreatePoolPod(p)
      PROVE  ToCreate' <= ToCreate
  <2>1. PICK r \in filler.todo :
            filler' \in {Left([filler EXCEPT !.todo = @ \ {r}]), NoPass}
    BY <1>4 DEF MarkPoolPodReady
  <2>2. PICK pass : pass = [filler EXCEPT !.todo = @ \ {r}]
    OBVIOUS
  <2>3. pass.create = filler.create /\ pass.pc = filler.pc
    BY <1>0, <2>2 DEF Pass
  <2>4. filler' \in {pass, NoPass}
    BY <2>1, <2>2 DEF Left
  <2>5. QED
    BY <1>0, <2>3, <2>4 DEF ToCreate
<1>5. CASE \/ \E q \in Pods : DeletePoolPod(q)
           \/ ReconcileDeletedPool \/ RemovePoolFinalizer \/ PoolGivesUp
  <2>1. ASSUME NEW q \in Pods, DeletePoolPod(q) PROVE filler'.pc # "fill"
    BY <1>0, <2>1 DEF DeletePoolPod, Pass
  <2>2. ASSUME ReconcileDeletedPool \/ RemovePoolFinalizer \/ PoolGivesUp PROVE filler'.pc # "fill"
    BY <1>0, <2>2 DEF ReconcileDeletedPool, RemovePoolFinalizer, PoolGivesUp
  <2>3. QED
    BY <1>2, <1>3, <1>5, <2>1, <2>2
<1>6. CASE PoolReconciler
  BY <1>3, <1>4, <1>5, <1>6 DEF PoolReconciler
<1>7. CASE ~PoolReconciler
  <2>1. filler' = filler
    BY <1>7 DEF Next, ClaimReconciler, Reconcile, AddFinalizer, MarkPending, SetClaimError,
       UseTenantPod, AwaitTenantPod, DeleteTerminalPod, ClaimFromPool, CreateTenantPod,
       InjectSnapshot, InjectFails, SkipSnapshot, ColdBoot, StashSource, ActivateClaim, MarkPodLost,
       StayActive, IdleTimeout, ReleaseWithoutPod, MarkReleaseFailed, DropPod, RevokeToken,
       MarkReleased, RemoveFinalizer, GiveUp, ExtractSnapshot, ExtractFails, SkipExtract,
       API, Surroundings, CreateClaim, AcquireReleased, StripFinalizer,
       DeleteReleased, RecreateClaim, ReleaseInstance, DestroyInstance, DeletePool, PodRuns,
       PodFails, PodGone, ObservePod, ObserveClaim, CollectToken, TenantWork, WorkloadChanges,
       WorkloadDeleted, processVars, besidesWorker
  <2>2. QED
    BY <1>1, <2>1
<1>8. QED
  BY <1>6, <1>7

\* Every step keeps the pool and what is to come within its size.
LEMMA PoolInvStep ==
    ASSUME IsolationInv, OnePodInv, PoolInv, [Next]_vars
    PROVE  PoolInv'
<1>0. /\ TypeOK /\ TypeOK' /\ seenPod = pod
      /\ ToCreate \in Nat /\ ToCreate' \in Nat /\ PoolSize \in Nat
      /\ Cardinality(PoolPods(pod)) \in Nat /\ Cardinality(PoolPods(pod)') \in Nat
      /\ IsFiniteSet(PoolPods(pod))
  BY NextType, PoolCount, PoolCountThen, PoolAssumption
     DEF PoolAssumption, IsolationInv, OnePodInv, TypeOK, FillerTypeOK, Pass, ToCreate
<1>1. CASE UNCHANGED vars
  BY <1>1 DEF vars, clusterVars, podVars, processVars, besidesWorker, PoolInv, ToCreate, PoolPods, PresentPods
<1>2. CASE Next
  <2>1. ASSUME \A q \in Pods : ~CreatePoolPod(q)
        PROVE  Cardinality(PoolPods(pod)') <= Cardinality(PoolPods(pod))
    <3>1. ASSUME NEW p \in Pods PROVE InPool(p)' => InPool(p)
      <4>1. CASE \E q \in Pods : Begins(q)
        BY <2>1, <4>1, PodBegins DEF InPool
      <4>2. CASE \A q \in Pods : ~Begins(q)
        BY <1>2, <4>2, PodsFade DEF Fades
      <4>3. QED
        BY <4>1, <4>2
    <3>2. PoolPods(pod)' \subseteq PoolPods(pod)
      BY <3>1, PoolCount, PoolCountThen
    <3>3. QED
      BY <1>0, <3>2, PoolCountThen
  <2>2. ASSUME NEW q \in Pods, CreatePoolPod(q)
        PROVE  Cardinality(PoolPods(pod)') <= Cardinality(PoolPods(pod)) + 1
    <3>1. \A p \in Pods \ {q} : pod'[p] = pod[p]
      BY <2>2, PodBegins DEF Begins
    <3>2. PoolPods(pod)' \subseteq PoolPods(pod) \cup {q}
      BY <3>1, PoolCount, PoolCountThen DEF InPool
    <3>3. /\ IsFiniteSet(PoolPods(pod) \cup {q})
          /\ Cardinality(PoolPods(pod) \cup {q}) \in {Cardinality(PoolPods(pod)), Cardinality(PoolPods(pod)) + 1}
      BY <1>0, FS_AddElement
    <3>4. Cardinality(PoolPods(pod)') <= Cardinality(PoolPods(pod) \cup {q})
      BY <3>2, <3>3, PoolCountThen
    <3>5. QED
      BY <1>0, <3>3, <3>4
  <2>3. CASE ReconcilePool
    <3>1. UNCHANGED pod /\ filler' = [pc |-> "fill", todo |-> AsRead(NowReady), create |-> Missing]
      BY <2>3 DEF ReconcilePool, clusterVars, podVars
    <3>2. ToCreate' = Missing /\ PoolPods(pod)' = PoolPods(pod)
      BY <3>1 DEF ToCreate, PoolPods, PresentPods
    <3>3. Missing \in Nat /\ (Missing = 0 \/ Missing <= PoolSize - Cardinality(PoolPods(pod)))
      <4>1. Cardinality(WarmPods \ NowReady) \in Nat
        <5>1. WarmPods \ NowReady \subseteq Pods
          BY DEF WarmPods, PresentPods
        <5>2. QED
          BY <5>1, PoolAssumption, FS_Subset, FS_CardinalityType DEF PoolAssumption
      <4>2. QED
        BY <1>0, <4>1, MissingType, PoolAssumption DEF PoolAssumption, Missing
    <3>4. QED
      BY <1>0, <3>2, <3>3 DEF PoolInv
  <2>4. CASE ToCreate' <= ToCreate /\ \A q \in Pods : ~CreatePoolPod(q)
    BY <1>0, <2>1, <2>4 DEF PoolInv
  <2>5. CASE \E q \in Pods : CreatePoolPod(q) /\ ToCreate' = ToCreate - 1
    BY <1>0, <2>2, <2>5 DEF PoolInv
  <2>6. QED
    BY <1>0, <1>2, <2>3, <2>4, <2>5, FillerMoves
<1>3. QED
  BY <1>1, <1>2

\* The pool is empty at first.
LEMMA PoolInvInit == Init => PoolInv
<1>1. ASSUME Init PROVE PoolInv
  <2>1. PoolPods(pod) = {} /\ ToCreate = 0
    BY <1>1 DEF Init, ClusterInit, FillerInit, PoolPods, PresentPods, AbsentPod, ToCreate, NoPass
  <2>2. QED
    BY <2>1, FS_EmptySet, PoolAssumption DEF PoolAssumption, PoolInv
<1>2. QED
  BY <1>1

\* The pool never has more Pods than its size if the cache of Pods is current
\* (PoolReconciler.Reconcile counts what it lists before it creates).
THEOREM PoolKeepsSize == "pods" \notin LaggingCache => (Spec => []PoolWithinSize)
<1>1. SUFFICES ASSUME "pods" \notin LaggingCache PROVE Spec => []PoolWithinSize
  OBVIOUS
<1>2. IsolationInv /\ OnePodInv /\ [Next]_vars => OnePodInv'
  BY <1>1, OnePodInvStep
<1>3. IsolationInv /\ OnePodInv /\ PoolInv /\ [Next]_vars => PoolInv'
  BY PoolInvStep
<1>4. IsolationInv /\ PoolInv => PoolWithinSize
  <2>1. ASSUME IsolationInv, PoolInv PROVE PoolWithinSize
    <3>1. ToCreate \in Nat
      BY <2>1 DEF IsolationInv, TypeOK, FillerTypeOK, Pass, ToCreate
    <3>2. QED
      BY <2>1, <3>1, PoolCount, PoolAssumption DEF PoolAssumption, PoolInv, PoolWithinSize
  <2>2. QED
    BY <2>1
<1>5. QED
  BY <1>2, <1>3, <1>4, OnePodInvInit, PoolInvInit, IsolationInvHolds, PTL DEF Spec

-----------------------------------------------------------------------------
(* No Pod outlives its claim. *)

NoLivePod(t) == \A p \in Pods : pod[p].tenant = t => ~LivePod(p)
NoLiveThen(t) == \A p \in Pods : pod'[p].tenant = t => ~LivePod(p)'

\* A claim that waits to be taken up, or has been given back, has no live Pod; an
\* Active one has its own and no other.
ClaimsHavePods == \A t \in Tenants :
    /\ claim[t].phase \in {"absent", "", "Released"} => NoLivePod(t)
    /\ claim[t].phase = "Active" => OnlyPods(t, {claim[t].instanceId})

\* The claim that the worker gives a Pod is still Pending, and past the deletion
\* of its Pod a tenant has none alive.
WorkerFollowsClaim ==
    /\ w.pc \in Acquires /\ w.c.phase = "Pending" => claim[w.t].phase = "Pending"
    /\ w.pc \in {"revoke", "finish"} => NoLivePod(w.t)

OrphanInv == seenClaim = claim /\ ClaimsHavePods /\ WorkerFollowsClaim

\* A Pending claim stays so unless the worker ends its pass over it.
LEMMA PendingStays ==
    ASSUME LifeInv, Next, NEW s \in Tenants, claim[s].phase = "Pending"
    PROVE  claim'[s].phase = "Pending" \/ w' = Idle
<1>1. CASE claim'[s] = claim[s]
  BY <1>1
<1>2. CASE claim'[s] # claim[s]
  <2>1. PICK t \in Tenants : claim' = [claim EXCEPT ![t] = claim'[t]] /\ ClaimChange(t, claim[t], claim'[t])
    BY <1>2, ClaimStep DEF OneClaimChanges, ClaimsStay
  <2>2. s = t /\ claim[s] \in ClaimObject
    BY <1>2, <2>1 DEF LifeInv, TypeOK, ClusterTypeOK
  <2>3. CASE claim'[s] = [claim[s] EXCEPT !.deleting = TRUE]
    BY <2>2, <2>3, EditFlags
  <2>4. QED
    BY <1>2, <2>1, <2>2, <2>3 DEF ClaimChange, Promoted
<1>3. QED
  BY <1>1, <1>2

\* A tenant without live Pods gets one from the worker only, and while its claim
\* is Pending.
LEMMA LabelsGiven ==
    ASSUME IsolationInv, LifeInv, WorkerFollowsClaim, Next, NEW t \in Tenants
    PROVE  \/ /\ NoLivePod(t) => NoLiveThen(t)
              /\ \A S : OnlyPods(t, S) => OnlyThen(t, S)
           \/ /\ t = w.t /\ claim[t].phase = "Pending" /\ claim' = claim
              /\ w'.pc \in {"inject", "activate"}
<1>0. NoTenant \notin Tenants
  BY ClusterAssumption DEF ClusterAssumption
<1>1. CASE \A q \in Pods : ~Begins(q)
  BY <1>0, <1>1, PodsFade DEF Fades, NoLivePod, NoLiveThen, OnlyPods, OnlyThen
<1>2. ASSUME NEW q \in Pods, Begins(q), pod'[q].tenant # t
      PROVE  /\ NoLivePod(t) => NoLiveThen(t)
             /\ \A S : OnlyPods(t, S) => OnlyThen(t, S)
  BY <1>2, PodBegins DEF NoLivePod, NoLiveThen, OnlyPods, OnlyThen, LivePod
<1>3. ASSUME NEW q \in Pods, Begins(q), pod'[q].tenant = t
      PROVE  /\ t = w.t /\ claim[t].phase = "Pending" /\ claim' = claim
             /\ w'.pc \in {"inject", "activate"}
  <2>1. ClaimFromPool(q) \/ CreateTenantPod(q)
    BY <1>0, <1>3, PodBegins
  <2>2. w.pc \in Acquires /\ (w.pc = "new" => w.c.phase = "Pending") /\ claim' = claim
    BY <2>1 DEF ClaimFromPool, CreateTenantPod, Acquiring, IsPending, Acquires, claimVars
  <2>3. w.c.phase = "Pending"
    BY <2>2 DEF LifeInv, WorkerRead
  <2>4. t = w.t /\ w'.pc \in {"inject", "activate"}
    BY <1>0, <1>3, PodBegins
  <2>5. QED
    BY <2>2, <2>3, <2>4 DEF WorkerFollowsClaim
<1>4. QED
  BY <1>1, <1>2, <1>3

\* What becomes of the phase of a claim that changes.
LEMMA PhaseChanges ==
    ASSUME LifeInv, Next, NEW s \in Tenants, claim'[s] # claim[s]
    PROVE  \/ claim'[s].phase = claim[s].phase /\ claim'[s].instanceId = claim[s].instanceId
           \/ claim'[s].phase \in {"absent", ""} /\ claim[s].phase \in {"absent", "", "Released"}
           \/ claim'[s].phase = "absent" /\ s = w.t /\ w.pc = "finish"
           \/ s = w.t /\ Promoted(claim[s], claim'[s])
<1>1. PICK t \in Tenants : claim' = [claim EXCEPT ![t] = claim'[t]] /\ ClaimChange(t, claim[t], claim'[t])
  BY ClaimStep DEF OneClaimChanges, ClaimsStay
<1>2. s = t /\ claim[s] \in ClaimObject
  BY <1>1 DEF LifeInv, TypeOK, ClusterTypeOK
<1>3. NoClaim.phase = "absent" /\ NewClaim.phase = ""
  BY DEF NoClaim, NewClaim
<1>4. CASE claim'[s] = [claim[s] EXCEPT !.deleting = TRUE]
  <2>1. claim'[s].phase = claim[s].phase /\ claim'[s].instanceId = claim[s].instanceId
    BY <1>2, <1>4, EditFlags
  <2>2. QED
    BY <2>1
<1>5. CASE claim'[s] = [claim[s] EXCEPT !.finalizer = FALSE]
  <2>1. claim'[s].phase = claim[s].phase /\ claim'[s].instanceId = claim[s].instanceId
    BY <1>2, <1>5, EditFlags
  <2>2. QED
    BY <2>1
<1>6. QED
  BY <1>1, <1>2, <1>3, <1>4, <1>5 DEF ClaimChange

\* A step leaves live Pods only where the claim allows them.
LEMMA StepKeepsClaimsHavePods ==
    ASSUME IsolationInv, LifeInv, OnePodInv, OrphanInv, Next
    PROVE  ClaimsHavePods'
<1>0. /\ WorkerRead /\ ClaimsHavePods /\ WorkerFollowsClaim /\ seenPod = pod
      /\ WorkerKnows
  BY DEF LifeInv, OnePodInv, OrphanInv
<1>1. SUFFICES ASSUME NEW s \in Tenants
      PROVE  /\ claim'[s].phase \in {"absent", "", "Released"} => NoLiveThen(s)
             /\ claim'[s].phase = "Active" => OnlyThen(s, {claim'[s].instanceId})
  BY DEF ClaimsHavePods, NoLivePod, NoLiveThen, OnlyPods, OnlyThen
<1>2. CASE claim[s].phase = "Pending" /\ claim' = claim
  BY <1>2
<1>3. CASE /\ NoLivePod(s) => NoLiveThen(s)
           /\ \A S : OnlyPods(s, S) => OnlyThen(s, S)
  <2>1. CASE claim'[s].phase = claim[s].phase /\ claim'[s].instanceId = claim[s].instanceId
    BY <1>0, <1>3, <2>1 DEF ClaimsHavePods
  <2>2. CASE claim'[s].phase \in {"absent", ""} /\ claim[s].phase \in {"absent", "", "Released"}
    BY <1>0, <1>3, <2>2 DEF ClaimsHavePods
  <2>3. CASE claim'[s].phase = "absent" /\ s = w.t /\ w.pc = "finish"
    BY <1>0, <1>3, <2>3 DEF WorkerFollowsClaim
  <2>4. CASE s = w.t /\ Promoted(claim[s], claim'[s])
    <3>1. CASE claim'[s].phase = claim[s].phase /\ w.pc \in Acquires
      BY <1>0, <1>3, <2>4, <3>1 DEF Promoted, WorkerRead, ClaimsHavePods
    <3>2. CASE claim'[s].phase \in {"Pending", "Error", "ReleaseFailed"}
      BY <3>2
    <3>3. CASE w.pc = "activate" /\ claim'[s].phase = "Active" /\ claim'[s].instanceId = w.pod
      BY <1>0, <1>3, <2>4, <3>3 DEF WorkerKnows
    <3>4. CASE w.pc = "finish" /\ claim'[s].phase = "Released"
      BY <1>0, <1>3, <2>4, <3>4 DEF WorkerFollowsClaim
    <3>5. CASE w.pc = "active" /\ PodIsLost /\ claim'[s].phase = "Released"
      <4>1. claim[s] = w.c /\ claim[s].phase = "Active"
        BY <1>0, <2>4, <3>5 DEF Promoted, WorkerRead
      <4>2. OnlyPods(s, {w.c.instanceId}) /\ w.c.instanceId \notin PresentPods(pod)
        BY <1>0, <3>5, <4>1 DEF ClaimsHavePods, PodIsLost
      <4>3. NoLivePod(s)
        BY <4>2 DEF OnlyPods, NoLivePod, PresentPods, LivePod
      <4>4. QED
        BY <1>3, <3>5, <4>3
    <3>6. QED
      BY <2>4, <3>1, <3>2, <3>3, <3>4, <3>5 DEF Promoted
  <2>5. QED
    BY <2>1, <2>2, <2>3, <2>4, PhaseChanges
<1>4. QED
  BY <1>0, <1>2, <1>3, LabelsGiven

\* Past the deletion of its Pod a tenant has none alive.
PastDeletion == w.pc \in {"revoke", "finish"} => NoLivePod(w.t)

\* A step that leaves the worker elsewhere than with a Pod it has just labelled
\* labels none for a tenant.
LEMMA NoLabelGiven ==
    ASSUME IsolationInv, Next, w'.pc \notin {"inject", "activate"}, NEW t \in Tenants
    PROVE  /\ NoLivePod(t) => NoLiveThen(t)
           /\ \A S : OnlyPods(t, S) => OnlyThen(t, S)
<1>0. NoTenant \notin Tenants
  BY ClusterAssumption DEF ClusterAssumption
<1>1. CASE \A q \in Pods : ~Begins(q)
  BY <1>0, <1>1, PodsFade DEF Fades, NoLivePod, NoLiveThen, OnlyPods, OnlyThen
<1>2. ASSUME NEW q \in Pods, Begins(q)
      PROVE  /\ NoLivePod(t) => NoLiveThen(t)
             /\ \A S : OnlyPods(t, S) => OnlyThen(t, S)
  <2>1. pod'[q].tenant # t /\ \A p \in Pods \ {q} : pod'[p] = pod[p]
    BY <1>0, <1>2, PodBegins
  <2>2. QED
    BY <2>1 DEF NoLivePod, NoLiveThen, OnlyPods, OnlyThen, LivePod
<1>3. QED
  BY <1>1, <1>2

\* A step keeps it so, whatever the claims are by then.
LEMMA StepKeepsPastDeletion ==
    ASSUME IsolationInv, OnePodInv, PastDeletion, Next, w'.pc \in {"revoke", "finish"}
    PROVE  w'.t = w.t /\ NoLiveThen(w.t)
<1>i. Idle.pc = "idle"
  BY DEF Idle
<1>0. /\ TypeOK /\ WorkerKnows /\ WorkerMove /\ seenPod = pod
      /\ w.pc # "idle" => w.t \in Tenants
      /\ w.pc = "drop" => w.pod \in Pods
  BY WorkerMoves DEF IsolationInv, OnePodInv, TypeOK, WorkerTypeOK
<1>1. ASSUME w.t \in Tenants, NoLivePod(w.t) PROVE NoLiveThen(w.t)
  BY <1>1, NoLabelGiven
<1>2. CASE w'.t = w.t /\ w.pc \in {"revoke", "finish"}
  BY <1>0, <1>1, <1>2 DEF PastDeletion
<1>3. CASE w'.t = w.t /\ w'.pc = "revoke" /\ w' # w
  <2>1. CASE ReleaseWithoutPod
    <3>1. w.t \in Tenants /\ TenantPods(w.t) = {}
      BY <1>0, <2>1 DEF ReleaseWithoutPod
    <3>2. NoLivePod(w.t)
      BY <1>0, <3>1 DEF TenantPods, PresentPods, NoLivePod, LivePod
    <3>3. QED
      BY <1>1, <1>3, <3>1, <3>2
  <2>2. CASE DropPod
    <3>1. w.t \in Tenants /\ w.pod \in Pods /\ OnlyPods(w.t, {w.pod})
      BY <1>0, <2>2 DEF DropPod, WorkerKnows
    <3>2. OnlyThen(w.t, {w.pod})
      BY <3>1, NoLabelGiven
    <3>3. pod'[w.pod].phase = "absent" \/ pod'[w.pod].terminating
      <4>1. pod[w.pod] \in PodObject /\ pod'[w.pod] = AfterDelete(pod[w.pod])
        BY <1>0, <2>2, <3>1 DEF DropPod, DeletePods, TypeOK, ClusterTypeOK
      <4>2. QED
        BY <4>1 DEF AfterDelete, AbsentPod, PodObject
    <3>4. NoLiveThen(w.t)
      <4>1. SUFFICES ASSUME NEW q \in Pods, pod'[q].tenant = w.t PROVE ~LivePod(q)'
        BY DEF NoLiveThen
      <4>2. CASE q = w.pod
        BY <3>3, <4>2 DEF LivePod
      <4>3. QED
        BY <3>2, <4>1, <4>2 DEF OnlyThen
    <3>5. QED
      BY <1>3, <3>4
  <2>3. QED
    BY <1>0, <1>3, <2>1, <2>2, WhoMoves, WhereTo
<1>4. w' # Idle
  BY <1>i
<1>5. QED
  BY <1>0, <1>2, <1>3, <1>4, StartedPass DEF WorkerMove, Onwards

\* A worker past the deletion of its Pod leaves its tenant none alive.
LEMMA StepKeepsWorkerFollows ==
    ASSUME IsolationInv, LifeInv, OnePodInv, OrphanInv, Next
    PROVE  WorkerFollowsClaim'
<1>i. Idle.pc = "idle"
  BY DEF Idle
<1>0. /\ TypeOK /\ WorkerFollowsClaim /\ WorkerMove /\ seenClaim = claim
      /\ w.pc # "idle" => w.t \in Tenants
  BY WorkerMoves DEF LifeInv, OrphanInv, TypeOK, WorkerTypeOK
<1>1. ASSUME w'.pc \in Acquires, w'.c.phase = "Pending" PROVE claim'[w'.t].phase = "Pending"
  <2>1. w' # Idle
    BY <1>i, <1>1 DEF Acquires
  <2>2. CASE w'.t = w.t /\ w'.c = w.c /\ w.pc \in Acquires
    <3>1. w.t \in Tenants /\ claim[w.t].phase = "Pending"
      BY <1>0, <1>1, <2>2 DEF WorkerFollowsClaim, Acquires
    <3>2. QED
      BY <2>1, <2>2, <3>1, PendingStays
  <2>3. ASSUME NEW t \in Tenants, w'.t = t, w'.c = claim[t] PROVE claim'[w'.t].phase = "Pending"
    BY <1>1, <2>1, <2>3, PendingStays
  <2>4. QED
    BY <1>0, <1>1, <2>1, <2>2, <2>3, StartedPass DEF WorkerMove, Onwards, Acquires
<1>2. ASSUME w'.pc \in {"revoke", "finish"} PROVE w'.t = w.t /\ NoLiveThen(w.t)
  BY <1>0, <1>2, StepKeepsPastDeletion DEF PastDeletion, WorkerFollowsClaim
<1>3. QED
  BY <1>1, <1>2 DEF WorkerFollowsClaim, NoLivePod, NoLiveThen

\* There is neither claim nor Pod at first.
LEMMA OrphanInvInit == Init => OrphanInv
<1>1. ASSUME Init PROVE OrphanInv
  <2>1. NoClaim.phase = "absent" /\ AbsentPod.phase = "absent" /\ Idle.pc = "idle"
    BY DEF NoClaim, AbsentPod, Idle
  <2>2. /\ claim = [t \in Tenants |-> NoClaim] /\ seenClaim = claim
        /\ pod = [p \in Pods |-> AbsentPod] /\ w = Idle
    BY <1>1 DEF Init, ClusterInit, WorkerInit
  <2>3. ClaimsHavePods
    BY <2>1, <2>2 DEF ClaimsHavePods, NoLivePod, LivePod
  <2>4. WorkerFollowsClaim
    BY <2>1, <2>2 DEF WorkerFollowsClaim, Acquires
  <2>5. QED
    BY <2>2, <2>3, <2>4 DEF OrphanInv
<1>2. QED
  BY <1>1

\* Every step keeps Pods and claims together.
LEMMA OrphanInvStep ==
    ASSUME IsolationInv, LifeInv, OnePodInv, OrphanInv, LaggingCache = {}, [Next]_vars
    PROVE  OrphanInv'
<1>1. CASE UNCHANGED vars
  BY <1>1 DEF vars, clusterVars, claimVars, podVars, processVars, OrphanInv, ClaimsHavePods,
     WorkerFollowsClaim, NoLivePod, OnlyPods, LivePod
<1>2. CASE Next
  <2>1. seenClaim' = claim'
    BY <1>2, ClaimStep DEF OneClaimChanges, ClaimsStay, CacheFollows, OrphanInv
  <2>2. QED
    BY <1>2, <2>1, StepKeepsClaimsHavePods, StepKeepsWorkerFollows DEF OrphanInv
<1>3. QED
  BY <1>1, <1>2

\* When the caches are current no Pod outlives its claim: none is left alive
\* once the claim is Released or gone (releaseClaim and handleDeletion delete the
\* Pod before they write the phase or take the finalizer off).
THEOREM NoOrphans == LaggingCache = {} => (Spec => []NoOrphanPods)
<1>1. SUFFICES ASSUME LaggingCache = {} PROVE Spec => []NoOrphanPods
  OBVIOUS
<1>2. IsolationInv /\ OnePodInv /\ [Next]_vars => OnePodInv'
  BY <1>1, OnePodInvStep
<1>3. IsolationInv /\ LifeInv /\ OnePodInv /\ OrphanInv /\ [Next]_vars => OrphanInv'
  BY <1>1, OrphanInvStep
<1>4. OrphanInv => NoOrphanPods
  BY DEF OrphanInv, ClaimsHavePods, NoLivePod, NoOrphanPods
<1>5. QED
  BY <1>2, <1>3, <1>4, OnePodInvInit, OrphanInvInit, IsolationInvHolds, LifeInvHolds, PTL DEF Spec

\* A worker that lets a claim go has told the tenant's Pods to go.
LEMMA DeletionStep ==
    ASSUME LifeInv, PastDeletion, [Next]_vars
    PROVE  \A t \in Tenants :
               w' # w /\ claim[t].phase # "absent" /\ claim'[t].phase = "absent"
                   => \A p \in Pods : pod[p].tenant = t => ~LivePod(p)
<1>1. SUFFICES ASSUME NEW t \in Tenants, w' # w, claim[t].phase # "absent", claim'[t].phase = "absent"
      PROVE  NoLivePod(t)
  BY DEF NoLivePod
<1>2. Next
  BY <1>1 DEF vars, processVars
<1>3. t = w.t /\ w.pc = "finish"
  BY <1>1, <1>2, FinalizerGoesLast
<1>4. QED
  BY <1>3 DEF PastDeletion

\* However far the cache of claims trails, the reconciler lets a deleted claim go
\* only once every Pod of its tenant has been told to go (handleDeletion).
THEOREM DeletionsTakePods == "pods" \notin LaggingCache => (Spec => DeletionTakesThePod)
<1>1. SUFFICES ASSUME "pods" \notin LaggingCache PROVE Spec => DeletionTakesThePod
  OBVIOUS
<1>2. Init => PastDeletion
  <2>1. Idle.pc = "idle"
    BY DEF Idle
  <2>2. QED
    BY <2>1 DEF Init, WorkerInit, PastDeletion
<1>3. IsolationInv /\ OnePodInv /\ [Next]_vars => OnePodInv'
  BY <1>1, OnePodInvStep
<1>4. IsolationInv /\ OnePodInv /\ PastDeletion /\ [Next]_vars => PastDeletion'
  <2>1. CASE UNCHANGED vars
    BY <2>1 DEF vars, clusterVars, podVars, processVars, PastDeletion, NoLivePod, LivePod
  <2>2. CASE Next
    BY <2>2, StepKeepsPastDeletion DEF PastDeletion, NoLivePod, NoLiveThen
  <2>3. QED
    BY <2>1, <2>2
<1>5. LifeInv /\ PastDeletion /\ [Next]_vars
          => [\A t \in Tenants :
                w' # w /\ claim[t].phase # "absent" /\ claim'[t].phase = "absent"
                    => \A p \in Pods : pod[p].tenant = t => ~LivePod(p)]_vars
  BY DeletionStep
<1>6. QED
  BY <1>2, <1>3, <1>4, <1>5, OnePodInvInit, IsolationInvHolds, LifeInvHolds, PTL
     DEF Spec, DeletionTakesThePod

-----------------------------------------------------------------------------
(* A Pod is saved before it is dropped. *)

Hibernates == IdleAction = "hibernate" /\ HasOverlay

\* The Pod that the worker is about to delete is saved.
SavedWhenDropping ==
    w.pc = "drop" /\ Hibernates /\ LivePod(w.pod)
        => pod[w.pod].tenant = w.t /\ overlay[w.pod] \subseteq snapshot[w.t].data

\* Nobody is about to put data into the Pod, and none is in it.
Blank(p) ==
    /\ overlay[p] = {}
    /\ pod[p].poolStatus # "ready"
    /\ \A t \in Tenants : claim[t].phase = "Active" => claim[t].instanceId # p
    /\ w.pc = "inject" \/ (w.pc = "activate" /\ w.source # "cold") => w.pod # p
    /\ filler.pc = "fill" => \A r \in filler.todo : r[1] # p

\* A Pod that the cache does not show yet is blank.  Once the workload is gone,
\* and the Pods the cache showed with it, a Pod that is alive was not among them,
\* or a pass begun before has just made it.  This is why the worker, which does
\* not save the Pods of a workload it cannot read, loses nothing.
Hidden(p) == wl = "absent" \/ seenPod[p].phase = "absent"
BlankWhenHidden == \A p \in Pods : LivePod(p) /\ Hidden(p) => Blank(p)

\* A Pod that the cache shows as ended has ended.
EndedForGood == \A p \in Pods : seenPod[p].phase = "Failed" => Ended(pod[p])

SavedInv == SavedWhenDropping /\ BlankWhenHidden /\ EndedForGood

\* Who puts data into a Pod.
LEMMA OverlayGrows ==
    ASSUME IsolationInv, Next, NEW p \in Pods
    PROVE  \/ overlay'[p] \subseteq overlay[p]
           \/ w.pc = "inject" /\ w.pod = p
           \/ \E t \in Tenants : TenantWork(t, p)
<1>0. overlay \in [Pods -> SUBSET Units]
  BY DEF IsolationInv, TypeOK, ClusterTypeOK
<1>1. CASE InjectSnapshot \/ InjectFails
  <2>1. PICK part : w.pc = "inject" /\ overlay' = [overlay EXCEPT ![w.pod] = @ \cup part]
    BY <1>1 DEF InjectSnapshot, InjectFails
  <2>2. QED
    BY <1>0, <2>1
<1>2. ASSUME NEW t \in Tenants, NEW q \in Pods, TenantWork(t, q), q # p
      PROVE  overlay'[p] \subseteq overlay[p]
  BY <1>0, <1>2 DEF TenantWork
<1>3. CASE ~InjectSnapshot /\ ~InjectFails /\ \A t \in Tenants, q \in Pods : ~TenantWork(t, q)
  BY <1>3, StepEffects DEF PodEffect, KeptOrGone, Created, HandedOut, SameData
<1>4. QED
  BY <1>1, <1>2, <1>3

\* What the pool reconciler means to mark it has read in this pass.
LEMMA TodoShrinks ==
    ASSUME TypeOK, Next, filler'.pc = "fill"
    PROVE  \/ ReconcilePool
           \/ filler.pc = "fill" /\ filler'.todo \subseteq filler.todo
<1>0. filler \in Pass /\ NoPass.pc = "idle"
  BY DEF TypeOK, FillerTypeOK, NoPass
<1>1. CASE filler' = filler
  BY <1>1
<1>2. ASSUME NEW p \in Pods, CreatePoolPod(p)
      PROVE  filler.pc = "fill" /\ filler'.todo \subseteq filler.todo
  <2>1. PICK pass : pass = [filler EXCEPT !.create = @ - 1]
    OBVIOUS
  <2>2. pass.todo = filler.todo /\ filler'\in {pass, NoPass} /\ filler.pc = "fill"
    BY <1>0, <1>2, <2>1 DEF CreatePoolPod, Left, Pass
  <2>3. QED
    BY <1>0, <2>2
<1>3. ASSUME NEW p \in Pods, MarkPoolPodReady(p)
      PROVE  filler.pc = "fill" /\ filler'.todo \subseteq filler.todo
  <2>1. PICK r \in filler.todo :
            filler' \in {Left([filler EXCEPT !.todo = @ \ {r}]), NoPass}
    BY <1>3 DEF MarkPoolPodReady
  <2>2. PICK pass : pass = [filler EXCEPT !.todo = @ \ {r}]
    OBVIOUS
  <2>3. pass.todo \subseteq filler.todo /\ filler' \in {pass, NoPass} /\ filler.pc = "fill"
    BY <1>0, <1>3, <2>1, <2>2 DEF MarkPoolPodReady, Left, Pass
  <2>4. QED
    BY <1>0, <2>3
<1>4. ~ReconcileDeletedPool /\ ~RemovePoolFinalizer /\ ~PoolGivesUp /\ \A p \in Pods : ~DeletePoolPod(p)
  BY <1>0 DEF ReconcileDeletedPool, RemovePoolFinalizer, PoolGivesUp, DeletePoolPod, Pass
<1>5. CASE PoolReconciler
  BY <1>2, <1>3, <1>4, <1>5 DEF PoolReconciler
<1>6. CASE ~PoolReconciler
  <2>1. filler' = filler
    BY <1>6, Zenon DEF Next, ClaimReconciler, Reconcile, AddFinalizer, MarkPending, SetClaimError,
       UseTenantPod, AwaitTenantPod, DeleteTerminalPod, ClaimFromPool, CreateTenantPod,
       InjectSnapshot, InjectFails, SkipSnapshot, ColdBoot, StashSource, ActivateClaim, MarkPodLost,
       StayActive, IdleTimeout, ReleaseWithoutPod, MarkReleaseFailed, DropPod, RevokeToken,
       MarkReleased, RemoveFinalizer, GiveUp, ExtractSnapshot, ExtractFails, SkipExtract,
       API, Surroundings, CreateClaim, AcquireReleased, StripFinalizer,
       DeleteReleased, RecreateClaim, ReleaseInstance, DestroyInstance, DeletePool, PodRuns,
       PodFails, PodGone, ObservePod, ObserveClaim, CollectToken, TenantWork, WorkloadChanges,
       WorkloadDeleted, processVars, besidesWorker
  <2>2. QED
    BY <1>1, <2>1
<1>7. QED
  BY <1>5, <1>6

\* What the cache shows of a Pod after a step.
LEMMA CacheMoves ==
    ASSUME IsolationInv, Next, NEW p \in Pods
    PROVE  seenPod'[p] \in {seenPod[p], pod'[p]}
<1>1. CASE InjectSnapshot \/ InjectFails \/ \E t \in Tenants, q \in Pods : TenantWork(t, q)
  BY <1>1 DEF InjectSnapshot, InjectFails, TenantWork
<1>2. CASE ~InjectSnapshot /\ ~InjectFails /\ \A t \in Tenants, q \in Pods : ~TenantWork(t, q)
  BY <1>2, StepEffects DEF PodEffect, KeptOrGone, Created, HandedOut, SameData
<1>3. QED
  BY <1>1, <1>2

\* Names of Pods do not come back while the cache shows the Pod that had them.
LEMMA StepKeepsEnded ==
    ASSUME IsolationInv, EndedForGood, Next
    PROVE  EndedForGood'
<1>1. ASSUME NEW p \in Pods, seenPod'[p].phase = "Failed" PROVE Ended(pod'[p])
  <2>1. CASE seenPod'[p] = pod'[p]
    BY <1>1, <2>1 DEF Ended
  <2>2. CASE seenPod'[p] = seenPod[p]
    <3>1. Ended(pod[p]) /\ seenPod[p].phase # "absent"
      BY <1>1, <2>2 DEF EndedForGood
    <3>2. CASE \E q \in Pods : Begins(q)
      BY <3>1, <3>2, PodBegins DEF Ended
    <3>3. CASE \A q \in Pods : ~Begins(q)
      BY <3>1, <3>3, PodsFade DEF Fades
    <3>4. QED
      BY <3>2, <3>3
  <2>3. QED
    BY <2>1, <2>2, CacheMoves
<1>2. QED
  BY <1>1 DEF EndedForGood

\* Who writes the archives.
LEMMA WhoArchives ==
    ASSUME Next, snapshot' # snapshot
    PROVE  w.pc = "release"
<1>1. \E p \in Pods : ExtractSnapshot(p) \/ ExtractFails(p) \/ SkipExtract(p)
  BY Zenon DEF Next, ClaimReconciler, Reconcile, AddFinalizer, MarkPending, SetClaimError,
     UseTenantPod, AwaitTenantPod, DeleteTerminalPod, ClaimFromPool, CreateTenantPod,
     InjectSnapshot, InjectFails, SkipSnapshot, ColdBoot, StashSource, ActivateClaim, MarkPodLost,
     StayActive, IdleTimeout, ReleaseWithoutPod, MarkReleaseFailed, DropPod, RevokeToken,
     MarkReleased, RemoveFinalizer, GiveUp, API, PoolReconciler, Surroundings, CreateClaim,
     AcquireReleased, StripFinalizer, DeleteReleased, RecreateClaim, ReleaseInstance,
     DestroyInstance, DeletePool, CreatePoolPod, MarkPoolPodReady, DeletePoolPod, ReconcilePool,
     ReconcileDeletedPool, RemovePoolFinalizer, PoolGivesUp, PodRuns, PodFails, PodGone, ObservePod,
     ObserveClaim, CollectToken, TenantWork, WorkloadChanges, WorkloadDeleted, clusterVars
<1>2. QED
  BY <1>1 DEF ExtractSnapshot, ExtractFails, SkipExtract, Releasing

\* A Pod that is there stays blank as long as it is hidden.
LEMMA BlankStays ==
    ASSUME IsolationInv, LifeInv, Next, NEW p \in Pods, Hidden(p), Blank(p), \A q \in Pods : Begins(q) => q # p
    PROVE  Blank(p)'
<1>0. /\ TypeOK /\ WorkerRead /\ Idle.pc = "idle"
      /\ \A t \in Tenants : claim[t].phase = "Active" => claim[t].instanceId # p
      /\ \A q \in Pods : UseTenantPod(q) => q # p
      /\ ReconcilePool => \A r \in filler'.todo : r[1] # p
  <2>1. /\ TypeOK /\ WorkerRead /\ Idle.pc = "idle"
        /\ \A t \in Tenants : claim[t].phase = "Active" => claim[t].instanceId # p
    BY DEF LifeInv, Blank, Idle
  <2>2. \A q \in Pods : UseTenantPod(q) => q # p
    BY DEF UseTenantPod, FoundTenantPod, TenantPods, PresentPods, Hidden
  <2>3. ReconcilePool => \A r \in filler'.todo : r[1] # p
    BY DEF ReconcilePool, AsRead, NowReady, PresentPods, Hidden
  <2>4. QED
    BY <2>1, <2>2, <2>3
<1>1. overlay'[p] = {}
  <2>1. \A t \in Tenants : ~TenantWork(t, p)
    BY <1>0 DEF TenantWork
  <2>2. QED
    BY <2>1, OverlayGrows DEF Blank
<1>2. pod'[p].poolStatus # "ready"
  <2>1. CASE \E q \in Pods : Begins(q)
    BY <2>1, PodBegins DEF Blank
  <2>2. CASE \A q \in Pods : ~Begins(q)
    BY <2>2, PodsFade DEF Fades, Blank
  <2>3. QED
    BY <2>1, <2>2
<1>3. ASSUME NEW t \in Tenants, claim'[t].phase = "Active", claim'[t].instanceId = p PROVE FALSE
  <2>1. claim'[t] # claim[t]
    BY <1>0, <1>3
  <2>2. t = w.t /\ Promoted(claim[t], claim'[t])
    BY <1>0, <1>3, <2>1, PhaseChanges
  <2>3. QED
    BY <1>0, <1>3, <2>2 DEF Promoted, WorkerRead, Acquires, Blank
<1>4. ASSUME w'.pc = "inject" \/ (w'.pc = "activate" /\ w'.source # "cold"), w'.pod = p
      PROVE  FALSE
  <2>1. w' # w
    BY <1>4 DEF Blank
  <2>2. CASE \E q \in Pods : Begins(q)
    BY <1>4, <2>1, <2>2, PodBegins
  <2>3. CASE \A q \in Pods : ~Begins(q)
    <3>1. ASSUME NEW q \in Pods, ClaimFromPool(q) PROVE w'.pc = "idle"
      BY <1>0, <2>3, <3>1 DEF Begins, ClaimFromPool
    <3>2. \A q \in Pods : ~CreateTenantPod(q)
      BY <2>3 DEF Begins
    <3>3. w.pc = "inject" /\ w'.pod = w.pod
      BY <1>0, <1>4, <2>1, <3>1, <3>2, WhoMoves, WhereTo
    <3>4. QED
      BY <1>4, <3>3 DEF Blank
  <2>4. QED
    BY <2>2, <2>3
<1>5. ASSUME filler'.pc = "fill", NEW r \in filler'.todo PROVE r[1] # p
  BY <1>0, <1>5, TodoShrinks DEF Blank
<1>6. QED
  BY <1>1, <1>2, <1>3, <1>4, <1>5 DEF Blank

\* A Pod that is made is blank.
LEMMA NewPodIsBlank ==
    ASSUME IsolationInv, Next, NEW p \in Pods, CreateTenantPod(p) \/ CreatePoolPod(p)
    PROVE  Blank(p)'
<1>0. /\ TypeOK /\ BlankWhenAbsent
      /\ overlay' = overlay /\ claim' = claim
  BY DEF IsolationInv, PodsInv, CreateTenantPod, CreatePoolPod, StorePod, claimVars
<1>1. /\ pod[p].phase = "absent" /\ w.pod # p
      /\ \A t \in Tenants : claim[t].instanceId # p
      /\ \A r \in filler.todo : r[1] # p
  BY DEF CreateTenantPod, CreatePoolPod, FreshPods
<1>2. overlay'[p] = {}
  BY <1>0, <1>1 DEF BlankWhenAbsent
<1>3. pod'[p].poolStatus # "ready"
  BY PodBegins, Zenon DEF Begins, ClaimFromPool, ReadyPoolPods, PresentPods, IsolationInv, PodsInv, BlankWhenAbsent, AbsentPod
<1>4. w'.pc = "inject" \/ (w'.pc = "activate" /\ w'.source # "cold") => w'.pod # p
  <2>1. CASE CreateTenantPod(p)
    BY <1>0, <2>1, WhereTo
  <2>2. CASE CreatePoolPod(p)
    BY <1>1, <2>2 DEF CreatePoolPod
  <2>3. QED
    BY <2>1, <2>2
<1>5. ASSUME filler'.pc = "fill", NEW r \in filler'.todo PROVE r[1] # p
  <2>1. ~ReconcilePool
    <3>1. \E obj : obj.phase = "Pending" /\ StorePod(p, obj)
      BY DEF CreateTenantPod, CreatePoolPod, AbsentPod
    <3>2. pod'[p].phase = "Pending"
      BY <1>0, <3>1 DEF StorePod, TypeOK, ClusterTypeOK
    <3>3. QED
      BY <1>1, <3>2, Zenon DEF ReconcilePool, clusterVars, podVars
  <2>2. QED
    BY <1>0, <1>1, <1>5, <2>1, TodoShrinks
<1>6. QED
  BY <1>0, <1>1, <1>2, <1>3, <1>4, <1>5 DEF Blank

\* When the workload goes the Pods that the cache shows go with it.
LEMMA DeletedWorkloadLeaves ==
    ASSUME IsolationInv, WorkloadDeleted, NEW p \in Pods, LivePod(p)'
    PROVE  LivePod(p) /\ seenPod[p].phase = "absent"
<1>1. /\ pod[p] \in PodObject
      /\ pod'[p] = IF seenPod[p].phase # "absent" THEN AfterDelete(pod[p]) ELSE pod[p]
  BY DEF IsolationInv, TypeOK, ClusterTypeOK, WorkloadDeleted, DeletePods, PresentPods
<1>2. CASE pod'[p] = [pod[p] EXCEPT !.terminating = TRUE]
  BY <1>1, <1>2 DEF PodObject, LivePod
<1>3. CASE pod'[p] = AbsentPod
  BY <1>3 DEF AbsentPod, LivePod
<1>4. QED
  BY <1>1, <1>2, <1>3 DEF AfterDelete, LivePod

\* A step leaves no Pod with data alive that is hidden.
LEMMA StepKeepsBlank ==
    ASSUME IsolationInv, LifeInv, SavedInv, Next
    PROVE  BlankWhenHidden'
<1>0. TypeOK /\ BlankWhenHidden
  BY DEF IsolationInv, SavedInv
<1>1. ASSUME NEW p \in Pods, LivePod(p)', Hidden(p)' PROVE Blank(p)'
  <2>1. CASE CreateTenantPod(p) \/ CreatePoolPod(p)
    BY <2>1, NewPodIsBlank
  <2>2. CASE ~CreateTenantPod(p) /\ ~CreatePoolPod(p)
    <3>1. LivePod(p)
      <4>1. CASE \E q \in Pods : Begins(q)
        BY <1>1, <2>2, <4>1, PodBegins DEF Begins, LivePod
      <4>2. CASE \A q \in Pods : ~Begins(q)
        BY <1>1, <4>2, PodsFade DEF Fades
      <4>3. QED
        BY <4>1, <4>2
    <3>2. Hidden(p)
      <4>1. CASE WorkloadDeleted
        BY <1>1, <4>1, DeletedWorkloadLeaves DEF Hidden
      <4>2. CASE ~WorkloadDeleted
        <5>1. wl' = "absent" => wl = "absent"
          BY <4>2, Zenon DEF Next, ClaimReconciler, Reconcile, AddFinalizer, MarkPending, SetClaimError,
             UseTenantPod, AwaitTenantPod, DeleteTerminalPod, ClaimFromPool, CreateTenantPod,
             InjectSnapshot, InjectFails, SkipSnapshot, ColdBoot, StashSource, ActivateClaim,
             MarkPodLost, StayActive, IdleTimeout, ReleaseWithoutPod, MarkReleaseFailed, DropPod,
             RevokeToken, MarkReleased, RemoveFinalizer, GiveUp, ExtractSnapshot, ExtractFails,
             SkipExtract, API, PoolReconciler, Surroundings, CreateClaim, AcquireReleased,
             StripFinalizer, DeleteReleased, RecreateClaim, ReleaseInstance, DestroyInstance,
             DeletePool, CreatePoolPod, MarkPoolPodReady, DeletePoolPod, ReconcilePool,
             ReconcileDeletedPool, RemovePoolFinalizer, PoolGivesUp, PodRuns, PodFails, PodGone,
             ObservePod, ObserveClaim, CollectToken, TenantWork, WorkloadChanges, clusterVars
        <5>2. seenPod'[p].phase = "absent" => seenPod[p].phase = "absent"
          BY <1>1, CacheMoves DEF LivePod
        <5>3. QED
          BY <1>1, <5>1, <5>2 DEF Hidden
      <4>3. QED
        BY <4>1, <4>2
    <3>3. Blank(p) /\ ~Begins(p)
      BY <1>0, <2>2, <3>1, <3>2, PodBegins DEF BlankWhenHidden, Blank, Begins
    <3>4. QED
      BY <3>2, <3>3, BlankStays
  <2>3. QED
    BY <2>1, <2>2
<1>2. QED
  BY <1>1 DEF BlankWhenHidden

\* A step leaves the Pod that is about to be deleted saved.
LEMMA StepKeepsSaved ==
    ASSUME IsolationInv, LifeInv, SavedInv, "lateWork" \notin Environment, Next
    PROVE  SavedWhenDropping'
<1>0. /\ TypeOK /\ CacheNamesOwner /\ BlankWhenHidden /\ SavedWhenDropping
      /\ w.pc # "idle" => w.t \in Tenants
  BY DEF IsolationInv, PodsInv, SavedInv, TypeOK, WorkerTypeOK
<1>1. SUFFICES ASSUME w'.pc = "drop", Hibernates, NEW p \in Pods, w'.pod = p, LivePod(p)'
      PROVE  pod'[p].tenant = w'.t /\ overlay'[p] \subseteq snapshot'[w'.t].data
  <2>1. w'.pc = "drop" => w'.pod \in Pods
    BY <1>0, NextType DEF TypeOK, WorkerTypeOK
  <2>2. QED
    BY <2>1 DEF SavedWhenDropping, LivePod
<1>2. CASE w' = w
  <2>1. \A q \in Pods : Begins(q) => q # p
    BY <1>1, <1>2 DEF Begins, ClaimFromPool, Acquiring, IsPending, CreateTenantPod, CreatePoolPod, FreshPods
  <2>2. LivePod(p) /\ pod'[p].tenant = pod[p].tenant
    <3>1. CASE \E q \in Pods : Begins(q)
      BY <1>1, <2>1, <3>1, PodBegins DEF LivePod
    <3>2. CASE \A q \in Pods : ~Begins(q)
      BY <1>1, <3>2, PodsFade DEF Fades
    <3>3. QED
      BY <3>1, <3>2
  <2>3. overlay'[p] \subseteq overlay[p]
    BY <1>1, <1>2, OverlayGrows DEF IsolationInv, TenantWork
  <2>4. snapshot' = snapshot
    BY <1>1, <1>2, WhoArchives
  <2>5. QED
    BY <1>0, <1>1, <1>2, <2>2, <2>3, <2>4 DEF SavedWhenDropping
<1>3. CASE ExtractSnapshot(p)
  <2>1. /\ w'.t = w.t /\ w.t \in Tenants /\ p \in TenantPods(w.t)
        /\ UNCHANGED <<pod, overlay>> /\ snapshot' = [snapshot EXCEPT ![w.t] = ArchiveOf(p)]
    BY <1>0, <1>3, WhereTo DEF ExtractSnapshot, Releasing, podVars
  <2>2. pod[p].tenant = w.t
    BY <1>0, <1>1, <2>1 DEF TenantPods, PresentPods, CacheNamesOwner, BoundTo, LivePod
  <2>3. QED
    BY <1>0, <2>1, <2>2 DEF ArchiveOf, TypeOK, ClusterTypeOK
<1>4. CASE SkipExtract(p)
  <2>1. /\ w'.t = w.t /\ w.t \in Tenants /\ p \in TenantPods(w.t)
        /\ UNCHANGED <<pod, overlay>> /\ ~MustExtract
    BY <1>0, <1>4, WhereTo DEF SkipExtract, Releasing, podVars
  <2>2. wl = "absent"
    BY <1>1, <2>1 DEF MustExtract, Action, Hibernates
  <2>3. overlay[p] = {}
    BY <1>0, <1>1, <2>1, <2>2 DEF BlankWhenHidden, Hidden, Blank, LivePod
  <2>4. pod[p].tenant = w.t
    BY <1>0, <1>1, <2>1 DEF TenantPods, PresentPods, CacheNamesOwner, BoundTo, LivePod
  <2>5. QED
    BY <1>0, <2>1, <2>3, <2>4
<1>5. CASE w' # w
  <2>1. \E q \in Pods : (ExtractSnapshot(q) \/ SkipExtract(q)) /\ w'.pod = q
    BY <1>0, <1>1, <1>5, WhoMoves, WhereTo
  <2>2. QED
    BY <1>1, <1>3, <1>4, <2>1
<1>6. QED
  BY <1>2, <1>5

\* So every step keeps them all,
LEMMA SavedInvStep ==
    ASSUME IsolationInv, LifeInv, SavedInv, "lateWork" \notin Environment, [Next]_vars
    PROVE  SavedInv'
<1>1. CASE UNCHANGED vars
  BY <1>1 DEF vars, clusterVars, claimVars, podVars, processVars, besidesWorker, SavedInv,
     SavedWhenDropping, BlankWhenHidden, Hidden, EndedForGood, Blank, LivePod
<1>2. CASE Next
  BY <1>2, StepKeepsBlank, StepKeepsSaved, StepKeepsEnded DEF SavedInv
<1>3. QED
  BY <1>1, <1>2

\* which hold at first.
LEMMA SavedInvInit == Init => SavedInv
<1>1. Idle.pc = "idle" /\ AbsentPod.phase = "absent"
  BY DEF Idle, AbsentPod
<1>2. QED
  BY <1>1 DEF Init, ClusterInit, WorkerInit, SavedInv, SavedWhenDropping, BlankWhenHidden, LivePod,
     EndedForGood, Ended

\* A step of the worker that ends a running Pod is the Pod's deletion at the end
\* of a pass.
LEMMA OnlyDropEnds ==
    ASSUME IsolationInv, EndedForGood, Next, w' # w,
           NEW p \in Pods, pod[p].phase = "Running", LivePod(p), ~LivePod(p)'
    PROVE  DropPod /\ w.pod = p
<1>0. /\ TypeOK /\ pod[p] \in PodObject /\ pod'[p] # pod[p]
      /\ Idle.pc = "idle"
  BY DEF IsolationInv, TypeOK, ClusterTypeOK, LivePod, Idle
<1>1. ASSUME NEW q \in Pods, DeleteTerminalPod(q) PROVE FALSE
  <2>1. p # q
    BY <1>1 DEF DeleteTerminalPod, FoundTenantPod, EndedForGood, Ended
  <2>2. QED
    BY <1>0, <1>1, <2>1 DEF DeleteTerminalPod, DeletePods
<1>2. ASSUME NEW q \in Pods, ClaimFromPool(q) PROVE FALSE
  <2>1. pod'[q] = [pod[q] EXCEPT !.tenant = w.t, !.poolStatus = "acquired"] /\ p = q
    BY <1>0, <1>2 DEF ClaimFromPool, StorePod, podVars, TypeOK, ClusterTypeOK
  <2>2. PICK obj : obj = [pod[q] EXCEPT !.tenant = w.t, !.poolStatus = "acquired"]
    OBVIOUS
  <2>3. obj.phase = pod[q].phase /\ obj.terminating = pod[q].terminating
    BY <1>0, <2>1, <2>2 DEF PodObject
  <2>4. QED
    BY <2>1, <2>2, <2>3 DEF LivePod
<1>3. ASSUME NEW q \in Pods, CreateTenantPod(q) PROVE FALSE
  BY <1>0, <1>3 DEF CreateTenantPod, StorePod, FreshPods, TypeOK, ClusterTypeOK
<1>4. ASSUME DropPod PROVE w.pod = p
  BY <1>0, <1>4 DEF DropPod, DeletePods
<1>5. ClaimReconciler
  BY DEF Next, API, PoolReconciler, Surroundings, CreateClaim, AcquireReleased,
     StripFinalizer, DeleteReleased, RecreateClaim, ReleaseInstance, DestroyInstance, DeletePool,
     CreatePoolPod, MarkPoolPodReady, DeletePoolPod, ReconcilePool, ReconcileDeletedPool,
     RemovePoolFinalizer, PoolGivesUp, PodRuns, PodFails, PodGone, ObservePod,
     ObserveClaim, CollectToken, TenantWork, WorkloadChanges, WorkloadDeleted, processVars
<1>6. CASE UNCHANGED pod
  BY <1>0, <1>6
<1>7. CASE ~UNCHANGED pod
  BY <1>1, <1>2, <1>3, <1>4, <1>5, <1>7 DEF ClaimReconciler, Reconcile, AddFinalizer, MarkPending,
     SetClaimError, UseTenantPod, AwaitTenantPod, ExtractSnapshot, ExtractFails, SkipExtract,
     InjectSnapshot, InjectFails, SkipSnapshot, ColdBoot, StashSource, ActivateClaim, MarkPodLost,
     StayActive, IdleTimeout, ReleaseWithoutPod, MarkReleaseFailed, RevokeToken, MarkReleased,
     RemoveFinalizer, GiveUp, clusterVars, podVars
<1>8. QED
  BY <1>6, <1>7

\* When a tenant's agent is quiet between the extraction and the deletion of its
\* Pod, the reconciler deletes no running Pod that it has to hibernate before the
\* archive holds what is in it, however far the caches trail (releaseClaim,
\* handleDeletion).
THEOREM PodsAreSaved == "lateWork" \notin Environment => (Spec => SavedBeforeDrop)
<1>1. SUFFICES ASSUME "lateWork" \notin Environment
      PROVE  Spec => SavedBeforeDrop
  OBVIOUS
<1>2. IsolationInv /\ LifeInv /\ SavedInv /\ [Next]_vars => SavedInv'
  BY <1>1, SavedInvStep
<1>3. IsolationInv /\ SavedInv /\ [Next]_vars =>
        [\A p \in Pods :
            /\ IdleAction = "hibernate" /\ HasOverlay
            /\ w' # w /\ pod[p].phase = "Running" /\ LivePod(p) /\ ~LivePod(p)'
            => overlay[p] \subseteq snapshot[pod[p].tenant].data]_vars
  <2>1. ASSUME IsolationInv, SavedInv, Next, Hibernates, NEW p \in Pods,
               w' # w, pod[p].phase = "Running", LivePod(p), ~LivePod(p)'
        PROVE  overlay[p] \subseteq snapshot[pod[p].tenant].data
    BY <2>1, OnlyDropEnds DEF SavedInv, SavedWhenDropping, DropPod
  <2>2. QED
    BY <2>1 DEF Hibernates
<1>4. QED
  BY <1>2, <1>3, SavedInvInit, IsolationInvHolds, LifeInvHolds, PTL
     DEF Spec, SavedBeforeDrop
=============================================================================
