--------------------------- MODULE ClaimController ---------------------------
(***************************************************************************)
(* The claim reconciler of the operator.  One worker reconciles one claim  *)
(* at a time; a pass is a sequence of steps, each of which ends with at    *)
(* most one write to the API server or one exec in a Pod, and everybody    *)
(* else may act between two steps.                                         *)
(***************************************************************************)
EXTENDS Cluster

\* The worker w: where it is, the tenant, the claim it read, the Pod it works on
\* and the source it will report.
Steps == {"idle", "new", "acquire", "create", "inject", "activate", "active",
          "release", "fail", "drop", "revoke", "finish"}

Worker == [pc: Steps, t: Tenants \cup {NoTenant}, c: ClaimObject,
           pod: Pods \cup {NoPod}, source: Sources]
Idle == [pc |-> "idle", t |-> NoTenant, c |-> NoClaim, pod |-> NoPod, source |-> ""]

WorkerTypeOK ==
    /\ w \in Worker
    /\ w.pc # "idle" => w.t \in Tenants
    /\ w.pc \in {"inject", "activate", "drop"} => w.pod \in Pods

WorkerInit == w = Idle

-----------------------------------------------------------------------------
(* What the reconciler reads, all of it from the cache. *)

TenantPods(t) == {p \in PresentPods(seenPod) : seenPod[p].tenant = t}
ReadyPoolPods == {p \in PresentPods(seenPod) : seenPod[p].poolStatus = "ready"}

\* Mutant: the status is patched into whatever the claim is by now.
UpdateClaimUnguarded(obj) ==
    /\ IF claim[w.t].phase = "absent" THEN UNCHANGED <<claimVars, token>>
                                      ELSE StoreClaim(w.t, [obj EXCEPT !.deleting = claim[w.t].deleting])
    /\ w' = Idle

\* Update and Status().Update: refused if the claim is not what was read.  No
\* handler writes its claim twice, so the pass ends here either way.
UpdateClaim(obj) ==
    /\ IF claim[w.t] = w.c THEN StoreClaim(w.t, obj)
                           ELSE UNCHANGED <<claimVars, token>>
    /\ w' = Idle

\* Mutant: the phases are looked at before the deletion mark.
RoutePhaseFirst(c) ==
    CASE c.phase = "Active" -> "active"
      [] c.phase \in {"absent", "Released", "ReleaseFailed"} -> "idle"
      [] c.phase \in {"", "Pending", "Error"} /\ c.deleting ->
            IF c.finalizer THEN "release" ELSE "idle"
      [] OTHER -> "new"

\* Mutant: only the phases that are spelt out are handled.
RouteKnownPhases(c) ==
    CASE c.deleting -> IF c.finalizer THEN "release" ELSE "idle"
      [] ~c.deleting /\ c.phase = "Active" -> "active"
      [] ~c.deleting /\ c.phase = "Pending" -> "new"
      [] OTHER -> "idle"

Route(c) ==
    CASE c.deleting -> IF c.finalizer THEN "release" ELSE "idle"
      [] ~c.deleting /\ c.phase = "Active" -> "active"
      [] ~c.deleting /\ c.phase \in {"absent", "Released", "ReleaseFailed"} -> "idle"
      [] OTHER -> "new"

Reconcile(t) ==
    /\ w.pc = "idle"
    /\ Route(seenClaim[t]) # "idle"
    /\ w' = [Idle EXCEPT !.pc = Route(seenClaim[t]), !.t = t, !.c = seenClaim[t]]
    /\ UNCHANGED <<clusterVars, besidesWorker>>

-----------------------------------------------------------------------------
(* handleNewClaim *)

AddFinalizer ==
    /\ w.pc = "new"
    /\ ~w.c.finalizer
    /\ UpdateClaim([w.c EXCEPT !.finalizer = TRUE])
    /\ UNCHANGED <<podVars, snapshot, work, wl, pool, besidesWorker>>

MarkPending ==
    /\ w.pc = "new"
    /\ w.c.finalizer
    /\ w.c.phase # "Pending"
    /\ UpdateClaim([w.c EXCEPT !.phase = "Pending"])
    /\ UNCHANGED <<podVars, snapshot, work, wl, pool, besidesWorker>>

IsPending == w.pc = "new" /\ w.c.finalizer /\ w.c.phase = "Pending"

SetClaimError ==
    /\ IsPending
    /\ wl # "ready"
    /\ UpdateClaim([w.c EXCEPT !.phase = "Error"])
    /\ UNCHANGED <<podVars, snapshot, work, wl, pool, besidesWorker>>

FoundTenantPod(p, phase) ==
    /\ IsPending
    /\ wl = "ready"
    /\ p \in TenantPods(w.t)
    /\ seenPod[p].phase = phase

UseTenantPod(p) ==
    /\ FoundTenantPod(p, "Running")
    /\ w' = [w EXCEPT !.pc = "activate", !.pod = p, !.source = "existing"]
    /\ UNCHANGED <<clusterVars, besidesWorker>>

AwaitTenantPod(p) ==
    /\ FoundTenantPod(p, "Pending")
    /\ w' = Idle
    /\ UNCHANGED <<clusterVars, besidesWorker>>

DeleteTerminalPod(p) ==
    /\ FoundTenantPod(p, "Failed")
    /\ DeletePods({p})
    /\ w' = [w EXCEPT !.pc = "acquire"]
    /\ UNCHANGED <<claimVars, snapshot, token, work, wl, pool, besidesWorker>>

\* Mutant: a Pod that is not running yet is not waited for.
AcquiringBesidesPending ==
    \/ w.pc = "acquire"
    \/ IsPending /\ wl = "ready" /\ \A p \in TenantPods(w.t) : seenPod[p].phase # "Running"

Acquiring ==
    \/ w.pc = "acquire"
    \/ IsPending /\ wl = "ready" /\ TenantPods(w.t) = {}

\* Mutant: the relabel does not look at the Pod's resourceVersion.
ClaimFromPoolUnguarded(p) ==
    /\ Acquiring
    /\ p \in ReadyPoolPods
    /\ IF pod[p].phase # "absent"
         THEN /\ StorePod(p, [pod[p] EXCEPT !.tenant = w.t, !.poolStatus = "acquired"])
              /\ w' = [w EXCEPT !.pc = "inject", !.pod = p]
         ELSE UNCHANGED podVars /\ w' = Idle
    /\ UNCHANGED <<claimVars, snapshot, token, work, wl, pool, besidesWorker>>

\* Relabel a ready pool Pod.  The Update is refused if the Pod has changed
\* since it was read.
ClaimFromPool(p) ==
    /\ Acquiring
    /\ p \in ReadyPoolPods
    /\ IF pod[p] = seenPod[p]
         THEN /\ StorePod(p, [pod[p] EXCEPT !.tenant = w.t, !.poolStatus = "acquired"])
              /\ w' = [w EXCEPT !.pc = "inject", !.pod = p]
         ELSE UNCHANGED podVars /\ w' = Idle
    /\ UNCHANGED <<claimVars, snapshot, token, work, wl, pool, besidesWorker>>

InjectSnapshot ==
    /\ w.pc = "inject"
    /\ snapshot[w.t].stored
    /\ pod[w.pod].phase = "Running"
    /\ overlay' = [overlay EXCEPT ![w.pod] = @ \cup snapshot[w.t].data]
    /\ w' = [w EXCEPT !.pc = "activate", !.source = "pool+data"]
    /\ UNCHANGED <<claimVars, pod, seenPod, snapshot, token, work, wl, pool, besidesWorker>>

\* Looking for an archive, or injecting it, failed, perhaps half-way: the error
\* is logged and the claim goes on with what it has.
InjectFails ==
    /\ w.pc = "inject"
    /\ snapshot[w.t].stored
    /\ pod[w.pod].phase = "Running"
    /\ "execFails" \in Environment
    /\ \E part \in SUBSET snapshot[w.t].data :
        overlay' = [overlay EXCEPT ![w.pod] = @ \cup part]
    /\ w' = [w EXCEPT !.pc = "activate", !.source = "pool"]
    /\ UNCHANGED <<claimVars, pod, seenPod, snapshot, token, work, wl, pool, besidesWorker>>

\* There is nothing to inject, or no running container to inject it into.
SkipSnapshot ==
    /\ w.pc = "inject"
    /\ ~snapshot[w.t].stored \/ pod[w.pod].phase # "Running"
    /\ w' = [w EXCEPT !.pc = "activate", !.source = "pool"]
    /\ UNCHANGED <<clusterVars, besidesWorker>>

\* ensureClaimToken keeps a Secret it finds under the claim's name.
ColdBoot ==
    /\ Acquiring
    /\ ReadyPoolPods = {}
    /\ token' = [token EXCEPT ![w.t] = IF @ # "none" THEN @
                    ELSE IF claim[w.t].phase = "absent" THEN "orphan" ELSE "live"]
    /\ w' = [w EXCEPT !.pc = "create"]
    /\ UNCHANGED <<claimVars, podVars, snapshot, work, wl, pool, besidesWorker>>

CreateTenantPod(p) ==
    /\ w.pc = "create"
    /\ p \in FreshPods
    /\ StorePod(p, [AbsentPod EXCEPT !.phase = "Pending", !.tenant = w.t])
    /\ w' = [w EXCEPT !.pc = "activate", !.pod = p, !.source = "cold"]
    /\ UNCHANGED <<claimVars, snapshot, token, work, wl, pool, besidesWorker>>

\* activateClaim: a Pod that was only just created has no IP, so its name and
\* source are stored and the claim stays Pending.  "existing" does not replace
\* a source stored before.
StashSource ==
    /\ w.pc = "activate"
    /\ w.source = "cold"
    /\ UpdateClaim([w.c EXCEPT !.instanceId = w.pod, !.source = "cold"])
    /\ UNCHANGED <<podVars, snapshot, work, wl, pool, besidesWorker>>

Provenance ==
    IF w.source = "existing" /\ w.c.source # "" THEN w.c.source ELSE w.source

ActivateClaim ==
    /\ w.pc = "activate"
    /\ w.source # "cold"
    /\ UpdateClaim([w.c EXCEPT !.phase = "Active", !.instanceId = w.pod,
                               !.source = Provenance])
    /\ UNCHANGED <<podVars, snapshot, work, wl, pool, besidesWorker>>

-----------------------------------------------------------------------------
(* handleActive *)

PodIsLost == w.c.instanceId # NoPod /\ w.c.instanceId \notin PresentPods(seenPod)

MarkPodLost ==
    /\ w.pc = "active"
    /\ PodIsLost
    /\ UpdateClaim([w.c EXCEPT !.phase = "Released"])
    /\ UNCHANGED <<podVars, snapshot, work, wl, pool, besidesWorker>>

StayActive ==
    /\ w.pc = "active"
    /\ ~PodIsLost
    /\ w' = Idle
    /\ UNCHANGED <<clusterVars, besidesWorker>>

IdleTimeout ==
    /\ w.pc = "active"
    /\ ~PodIsLost
    /\ "idle" \in Environment
    /\ wl # "absent"
    /\ w' = [w EXCEPT !.pc = "release"]
    /\ UNCHANGED <<clusterVars, besidesWorker>>

-----------------------------------------------------------------------------
(* releaseClaim and handleDeletion: they differ in where the idle action    *)
(* comes from, in what a failed extraction does and in how the pass ends.   *)

\* A deletion pass that cannot read the workload takes the default action.
Action == IF w.c.deleting /\ wl = "absent" THEN "hibernate" ELSE IdleAction

\* A workload that cannot be read has no overlay directories.
MustExtract == Action = "hibernate" /\ wl # "absent" /\ HasOverlay

Releasing(p) == w.pc = "release" /\ p \in TenantPods(w.t)

\* Mutant: the missing Pod is deleted too.
ReleaseMissingPod ==
    /\ w.pc = "release"
    /\ TenantPods(w.t) = {}
    /\ w' = [w EXCEPT !.pc = "drop"]
    /\ UNCHANGED <<clusterVars, besidesWorker>>

ReleaseWithoutPod ==
    /\ w.pc = "release"
    /\ TenantPods(w.t) = {}
    /\ w' = [w EXCEPT !.pc = "revoke"]
    /\ UNCHANGED <<clusterVars, besidesWorker>>

ExtractSnapshot(p) ==
    /\ Releasing(p)
    /\ MustExtract
    /\ pod[p].phase = "Running"
    /\ snapshot' = [snapshot EXCEPT ![w.t] = ArchiveOf(p)]
    /\ w' = [w EXCEPT !.pc = "drop", !.pod = p]
    /\ UNCHANGED <<claimVars, podVars, token, work, wl, pool, besidesWorker>>

\* Mutant: the Pod is deleted all the same.
ExtractFailsDrops(p) ==
    /\ Releasing(p)
    /\ MustExtract
    /\ \/ pod[p].phase # "Running"
       \/ "execFails" \in Environment
    /\ w' = [w EXCEPT !.pc = "drop", !.pod = p]
    /\ UNCHANGED <<claimVars, podVars, snapshot, token, work, wl, pool, besidesWorker>>

\* All attempts failed; one of them may have stored the archive all the same.
\* A deletion pass ends here, with the finalizer held.
ExtractFails(p) ==
    /\ Releasing(p)
    /\ MustExtract
    /\ \/ pod[p].phase # "Running" /\ UNCHANGED snapshot
       \/ /\ pod[p].phase = "Running"
          /\ "execFails" \in Environment
          /\ snapshot' \in {snapshot, [snapshot EXCEPT ![w.t] = ArchiveOf(p)]}
    /\ w' = IF w.c.deleting THEN Idle ELSE [w EXCEPT !.pc = "fail"]
    /\ UNCHANGED <<claimVars, podVars, token, work, wl, pool, besidesWorker>>

\* Nothing to extract; for "destroy" the stored archive is removed, and an
\* error in that is only logged.
SkipExtract(p) ==
    /\ Releasing(p)
    /\ ~MustExtract
    /\ \/ Action = "destroy" /\ snapshot' = [snapshot EXCEPT ![w.t] = NoArchive]
       \/ /\ Action = "hibernate" \/ "execFails" \in Environment
          /\ UNCHANGED snapshot
    /\ w' = [w EXCEPT !.pc = "drop", !.pod = p]
    /\ UNCHANGED <<claimVars, podVars, token, work, wl, pool, besidesWorker>>

MarkReleaseFailed ==
    /\ w.pc = "fail"
    /\ UpdateClaim([w.c EXCEPT !.phase = "ReleaseFailed"])
    /\ UNCHANGED <<podVars, snapshot, work, wl, pool, besidesWorker>>

\* Mutant: an error of the Delete is only logged.
DropPodLogsError ==
    /\ w.pc = "drop"
    /\ UNCHANGED podVars \/ DeletePods({w.pod})
    /\ w' = [w EXCEPT !.pc = "revoke"]
    /\ UNCHANGED <<claimVars, snapshot, token, work, wl, pool, besidesWorker>>

DropPod ==
    /\ w.pc = "drop"
    /\ DeletePods({w.pod})
    /\ w' = [w EXCEPT !.pc = "revoke"]
    /\ UNCHANGED <<claimVars, snapshot, token, work, wl, pool, besidesWorker>>

RevokeToken ==
    /\ w.pc = "revoke"
    /\ token' = [token EXCEPT ![w.t] = "none"]
    /\ w' = [w EXCEPT !.pc = "finish"]
    /\ UNCHANGED <<claimVars, podVars, snapshot, work, wl, pool, besidesWorker>>

MarkReleased ==
    /\ w.pc = "finish"
    /\ ~w.c.deleting
    /\ UpdateClaim([w.c EXCEPT !.phase = "Released"])
    /\ UNCHANGED <<podVars, snapshot, work, wl, pool, besidesWorker>>

RemoveFinalizer ==
    /\ w.pc = "finish"
    /\ w.c.deleting
    /\ UpdateClaim([w.c EXCEPT !.finalizer = FALSE])
    /\ UNCHANGED <<podVars, snapshot, work, wl, pool, besidesWorker>>

-----------------------------------------------------------------------------
\* The operator restarts, or a call fails and Reconcile returns the error: in
\* both cases the pass is lost and the claim is reconciled again.
GiveUp ==
    /\ "crash" \in Environment
    /\ w.pc # "idle"
    /\ w' = Idle
    /\ UNCHANGED <<clusterVars, besidesWorker>>
=============================================================================
