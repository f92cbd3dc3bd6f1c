------------------------------ MODULE ClaimAPI ------------------------------
(***************************************************************************)
(* The REST API's tenant routes.  The claim route runs acquireClaim, which *)
(* revives a Released claim in four calls to the API server: read it,      *)
(* strip its finalizer, delete it, create it anew.  The release route      *)
(* deletes the claim, the destroy route deletes a Pod.  The API reads the  *)
(* API server itself, not a cache.                                         *)
(***************************************************************************)
EXTENDS Cluster

CONSTANT Clients    \* request handlers, each serving one request at a time

Client == [pc: {"idle", "strip", "delete", "create"},
           t: Tenants \cup {NoTenant}, c: ClaimObject]
NoRequest == [pc |-> "idle", t |-> NoTenant, c |-> NoClaim]

ClientTypeOK ==
    /\ client \in [Clients -> Client]
    /\ \A k \in Clients : client[k].pc # "idle" => client[k].t \in Tenants

ClientInit == client = [k \in Clients |-> NoRequest]

Done(k) == client' = [client EXCEPT ![k] = NoRequest]

\* No claim, or one that is neither Released nor Active: the handler goes on
\* to Create, which fails if there is a claim.
CreateClaim(k, t) ==
    /\ client[k].pc = "idle"
    /\ claim[t].phase = "absent"
    /\ StoreClaim(t, NewClaim)
    /\ UNCHANGED <<podVars, snapshot, work, wl, pool, processVars>>

AcquireReleased(k, t) ==
    /\ client[k].pc = "idle"
    /\ claim[t].phase = "Released"
    /\ client' = [client EXCEPT ![k] =
                    [pc |-> IF claim[t].finalizer THEN "strip" ELSE "delete",
                     t |-> t, c |-> claim[t]]]
    /\ UNCHANGED <<clusterVars, w, filler>>

\* Mutant: the finalizer is patched away whatever has become of the claim.
StripFinalizerUnguarded(k) ==
    /\ client[k].pc = "strip"
    /\ IF claim[client[k].t].phase # "absent"
         THEN /\ StoreClaim(client[k].t, [claim[client[k].t] EXCEPT !.finalizer = FALSE])
              /\ client' = [client EXCEPT ![k].pc = "delete"]
         ELSE UNCHANGED <<claimVars, token>> /\ Done(k)
    /\ UNCHANGED <<podVars, snapshot, work, wl, pool, w, filler>>

\* Update is refused if the claim has changed since it was read.
StripFinalizer(k) ==
    /\ client[k].pc = "strip"
    /\ IF claim[client[k].t] = client[k].c
         THEN /\ StoreClaim(client[k].t, [client[k].c EXCEPT !.finalizer = FALSE])
              /\ client' = [client EXCEPT ![k].pc = "delete"]
         ELSE UNCHANGED <<claimVars, token>> /\ Done(k)
    /\ UNCHANGED <<podVars, snapshot, work, wl, pool, w, filler>>

DeleteReleased(k) ==
    /\ client[k].pc = "delete"
    /\ IF claim[client[k].t].phase = "absent"
         THEN UNCHANGED <<claimVars, token>>
         ELSE DeleteClaim(client[k].t)
    /\ client' = [client EXCEPT ![k].pc = "create"]
    /\ UNCHANGED <<podVars, snapshot, work, wl, pool, w, filler>>

RecreateClaim(k) ==
    /\ client[k].pc = "create"
    /\ IF claim[client[k].t].phase = "absent"
         THEN StoreClaim(client[k].t, NewClaim)
         ELSE UNCHANGED <<claimVars, token>>
    /\ Done(k)
    /\ UNCHANGED <<podVars, snapshot, work, wl, pool, w, filler>>

\* POST /tenants/{id}/release, or kubectl delete of the claim.
ReleaseInstance(t) ==
    /\ claim[t].phase # "absent"
    /\ ~claim[t].deleting
    /\ DeleteClaim(t)
    /\ UNCHANGED <<podVars, snapshot, work, wl, pool, processVars>>

\* POST /instances/{id}/destroy; a kubectl delete or a node drain does the same.
DestroyInstance(p) ==
    /\ "podDeleted" \in Environment
    /\ pod[p].phase # "absent"
    /\ DeletePods({p})
    /\ UNCHANGED <<claimVars, snapshot, token, work, wl, pool, processVars>>
=============================================================================
