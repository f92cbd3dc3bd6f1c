--------------------------- MODULE PoolController ---------------------------
(***************************************************************************)
(* The pool reconciler.  A pass lists the pool's Pods once, from the       *)
(* cache, and then makes one write after another: it marks warm Pods that  *)
(* run as ready and creates what is missing, or, when the pool is being    *)
(* deleted, deletes its Pods and lets the pool go.  Claims may take Pods   *)
(* from the pool between any two of these writes.                          *)
(***************************************************************************)
EXTENDS Cluster

CONSTANTS PoolSize,     \* pool.spec.size
          MaxFill       \* pool.spec.maxFillConcurrency

\* There are finitely many Pods, and with them names for them, at a time.
ASSUME PoolAssumption == PoolSize \in Nat /\ MaxFill \in Nat /\ IsFiniteSet(Pods)

\* The pass: the Pods left to write, as they were read, and how many to create.
Pass == [pc: {"idle", "fill", "drain"}, todo: SUBSET (Pods \X PodObject), create: Nat]
NoPass == [pc |-> "idle", todo |-> {}, create |-> 0]

FillerTypeOK == filler \in Pass

FillerInit == filler = NoPass

Left(pass) == IF pass.todo = {} /\ pass.create = 0 THEN NoPass ELSE pass
AsRead(S)  == {<<p, seenPod[p]>> : p \in S}

-----------------------------------------------------------------------------
PoolPods(view) == {p \in PresentPods(view) : view[p].poolStatus \in {"warming", "ready"}}
WarmPods       == {p \in PresentPods(seenPod) : seenPod[p].poolStatus = "warming"}
NowReady       == {p \in WarmPods : seenPod[p].phase = "Running"}

\* Mutant: the gap is computed from the ready Pods alone.
MissingFromReady ==
    LET gap  == PoolSize - Cardinality(PoolPods(seenPod) \ WarmPods)
        room == MaxFill - Cardinality(WarmPods \ NowReady)
    IN  IF gap > 0 /\ room > 0 THEN IF gap < room THEN gap ELSE room ELSE 0

\* How many Pods to create: what is missing, within the fill concurrency.
Missing ==
    LET gap  == PoolSize - Cardinality(PoolPods(seenPod))
        room == MaxFill - Cardinality(WarmPods \ NowReady)
    IN  IF gap > 0 /\ room > 0 THEN IF gap < room THEN gap ELSE room ELSE 0

\* A pass goes on to the Pods only for a live pool of a ready workload; one
\* that has nothing to write is left out.
ReconcilePool ==
    /\ filler.pc = "idle"
    /\ pool = "up"
    /\ wl = "ready"
    /\ NowReady # {} \/ Missing > 0
    /\ filler' = [pc |-> "fill", todo |-> AsRead(NowReady), create |-> Missing]
    /\ UNCHANGED <<clusterVars, w, client>>

\* The Update is refused if the Pod has changed since it was read, which ends
\* the pass.
MarkPoolPodReady(p) ==
    /\ filler.pc = "fill"
    /\ \E r \in filler.todo :
        /\ r[1] = p
        /\ IF pod[p] = r[2]
             THEN /\ StorePod(p, [pod[p] EXCEPT !.poolStatus = "ready"])
                  /\ filler' = Left([filler EXCEPT !.todo = @ \ {r}])
             ELSE UNCHANGED podVars /\ filler' = NoPass
    /\ UNCHANGED <<claimVars, snapshot, token, work, wl, pool, w, client>>

CreatePoolPod(p) ==
    /\ filler.pc = "fill"
    /\ filler.todo = {}
    /\ filler.create > 0
    /\ p \in FreshPods
    /\ StorePod(p, [AbsentPod EXCEPT !.phase = "Pending", !.poolStatus = "warming"])
    /\ filler' = Left([filler EXCEPT !.create = @ - 1])
    /\ UNCHANGED <<claimVars, snapshot, token, work, wl, pool, w, client>>

-----------------------------------------------------------------------------
DeletePool ==
    /\ "poolDeleted" \in Environment
    /\ pool = "up"
    /\ pool' = "deleting"
    /\ UNCHANGED <<claimVars, podVars, snapshot, token, work, wl, processVars>>

\* deletePoolPods takes every Pod that has a pool-status label.
LabelledPods == {p \in PresentPods(seenPod) : seenPod[p].poolStatus # "none"}

ReconcileDeletedPool ==
    /\ filler.pc = "idle"
    /\ pool = "deleting"
    /\ filler' = [pc |-> "drain", todo |-> AsRead(LabelledPods), create |-> 0]
    /\ UNCHANGED <<clusterVars, w, client>>

DeletePoolPod(p) ==
    /\ filler.pc = "drain"
    /\ \E r \in filler.todo :
        /\ r[1] = p
        /\ DeletePods({p})
        /\ filler' = [filler EXCEPT !.todo = @ \ {r}]
    /\ UNCHANGED <<claimVars, snapshot, token, work, wl, pool, w, client>>

\* The finalizer comes off when the Pods have been deleted.
RemovePoolFinalizer ==
    /\ filler.pc = "drain"
    /\ filler.todo = {}
    /\ pool' = "gone"
    /\ filler' = NoPass
    /\ UNCHANGED <<claimVars, podVars, snapshot, token, work, wl, w, client>>

\* The operator restarts, or a write fails and Reconcile returns the error.
PoolGivesUp ==
    /\ "crash" \in Environment
    /\ filler.pc # "idle"
    /\ filler' = NoPass
    /\ UNCHANGED <<clusterVars, w, client>>
=============================================================================
