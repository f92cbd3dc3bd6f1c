---------------------------- MODULE EventPipeline ----------------------------
(***************************************************************************)
(* What the trigger gateway does with an event: find out the tenant, ask   *)
(* the guards, see to it that the tenant has an Active claim, hand the     *)
(* event to the driver and return its answer.  An adapter calls this once  *)
(* per event and waits for the result.                                     *)
(*                                                                         *)
(* Abstractions.  One workload, so a claim is a tenant's lease.  An event  *)
(* is what tenant.from finds in its payload: a tenant, or NoTenant when    *)
(* the field is missing or no string.  Answers are "ok" or "failed"; a     *)
(* call to the API server may fail at any time.                            *)
(***************************************************************************)
EXTENDS ClaimLease, Naturals, Sequences

CONSTANTS
    Handlers,       \* calls of the pipeline that may be under way at a time
    NoTenant,
    StaticTenant,   \* trigger.spec.tenant.static, or NoTenant
    Guards,         \* trigger.spec.guards: a sequence of kinds
    Allowed,        \* the tenants the allowlist guard lets through
    Driver          \* trigger.spec.driver

ASSUME PipelineAssumption ==
    /\ NoTenant \notin Tenants
    /\ StaticTenant \in Tenants \cup {NoTenant}
    /\ Guards \in Seq({"allowlist", "api", "misconfigured"})
    /\ Driver \in {"default", "openclaw", "claude-code", "pi", "misconfigured"}

VARIABLE handler    \* the calls

UnderWay == {"guards", "get", "delete", "gone", "create", "await", "send", "talk"}
Answered == {"ok", "failed"}

\* guard: the guard that is asked next; cancelled: the context is.
HandlerState == [pc: UnderWay \cup Answered \cup {"idle"}, tenant: Tenants \cup {NoTenant},
                 guard: 1..Len(Guards) + 1, cancelled: BOOLEAN]
NoEvent == [pc |-> "idle", tenant |-> NoTenant, guard |-> 1, cancelled |-> FALSE]

HandlerTypeOK ==
    /\ handler \in [Handlers -> HandlerState]
    /\ \A h \in Handlers : handler[h].pc \in UnderWay => handler[h].tenant \in Tenants

HandlersInit == handler = [h \in Handlers |-> NoEvent]

At(h, pc)  == handler[h].pc = pc
GoTo(h, pc) == handler' = [handler EXCEPT ![h].pc = pc]
Claim(h)   == lease[handler[h].tenant]

\* A step that takes the context, which may have been cancelled.
Alive(h) == ~handler[h].cancelled

-----------------------------------------------------------------------------
(* Tenant and guards. *)

ResolveTenantId(found) == IF StaticTenant # NoTenant THEN StaticTenant ELSE found

\* The adapter calls the handler for an event in whose payload `found` was found.
CallHandler(h, found) ==
    /\ handler[h] = NoEvent
    /\ handler' = [handler EXCEPT ![h] =
           [NoEvent EXCEPT !.pc = IF ResolveTenantId(found) = NoTenant THEN "failed" ELSE "guards",
                           !.tenant = ResolveTenantId(found)]]
    /\ UNCHANGED lease

\* It takes the answer.
TakeAnswer(h) ==
    /\ handler[h].pc \in Answered
    /\ handler' = [handler EXCEPT ![h] = NoEvent]
    /\ UNCHANGED lease

\* It is stopped.
CancelContext(h) ==
    /\ handler[h].pc \in UnderWay
    /\ Alive(h)
    /\ handler' = [handler EXCEPT ![h].cancelled = TRUE]
    /\ UNCHANGED lease

AllowlistPasses(h) ==
    /\ Guards[handler[h].guard] = "allowlist"
    /\ handler[h].tenant \in Allowed

\* An API guard that says no, cannot be reached in time or makes no sense denies.
ApiGuardPasses(h) == Guards[handler[h].guard] = "api" /\ Alive(h)

GuardPasses(h) ==
    /\ At(h, "guards")
    /\ handler[h].guard <= Len(Guards)
    /\ AllowlistPasses(h) \/ ApiGuardPasses(h)
    /\ handler' = [handler EXCEPT ![h].guard = @ + 1]
    /\ UNCHANGED lease

GuardDenies(h) ==
    /\ At(h, "guards")
    /\ handler[h].guard <= Len(Guards)
    /\ ~AllowlistPasses(h)
    /\ GoTo(h, "failed")
    /\ UNCHANGED lease

GuardsPassed(h) ==
    /\ At(h, "guards")
    /\ handler[h].guard > Len(Guards)
    /\ GoTo(h, "get")
    /\ UNCHANGED lease

-----------------------------------------------------------------------------
(* ensureClaim *)

GetClaim(h) ==
    /\ At(h, "get")
    /\ Alive(h)
    /\ GoTo(h, CASE Claim(h).phase = "Active" -> "send"
                 [] Claim(h).phase \in {"Released", "Error"} -> "delete"
                 [] Claim(h).phase = "absent" -> "create"
                 [] Claim(h).phase \in {"waiting", "ReleaseFailed"} -> "await")
    /\ UNCHANGED lease

\* The Delete has no precondition: it takes whatever has the name by now.
DeleteClaim(h) ==
    /\ At(h, "delete")
    /\ Alive(h)
    /\ IF Claim(h).phase = "absent" THEN UNCHANGED lease
       ELSE GiveBack(handler[h].tenant) \/ GiveBackAtOnce(handler[h].tenant)
    /\ GoTo(h, "gone")

ClaimIsGone(h) ==
    /\ At(h, "gone")
    /\ Alive(h)
    /\ Claim(h).phase = "absent"
    /\ GoTo(h, "create")
    /\ UNCHANGED lease

\* A claim that exists by now is as good as one just created.
CreateClaim(h) ==
    /\ At(h, "create")
    /\ Alive(h)
    /\ IF Claim(h).phase = "absent" THEN Ask(handler[h].tenant) ELSE UNCHANGED lease
    /\ GoTo(h, "await")

ClaimIsActive(h) ==
    /\ At(h, "await")
    /\ Alive(h)
    /\ Claim(h).phase = "Active"
    /\ GoTo(h, "send")
    /\ UNCHANGED lease

ClaimErrored(h) ==
    /\ At(h, "await")
    /\ Alive(h)
    /\ Claim(h).phase = "Error"
    /\ GoTo(h, "failed")
    /\ UNCHANGED lease

\* A call to the API server fails; with a cancelled context every one does.
CallFails(h) ==
    /\ handler[h].pc \in {"get", "delete", "create"}
    /\ GoTo(h, "failed")
    /\ UNCHANGED lease

\* Mutant: the wait for the claim to go has no deadline.
StopWaitingForActive(h) ==
    /\ At(h, "await") \/ (At(h, "gone") /\ ~Alive(h))
    /\ GoTo(h, "failed")
    /\ UNCHANGED lease

\* waitForClaimDeleted gives up after 30 s, waitForClaim after 120 s, either of
\* them when the context is cancelled.
StopWaiting(h) ==
    /\ handler[h].pc \in {"gone", "await"}
    /\ GoTo(h, "failed")
    /\ UNCHANGED lease

-----------------------------------------------------------------------------
(* Driver.Send *)

\* claude-code and pi talk over a WebSocket: once it stands they no longer look
\* at the context, but have a deadline of 300 s.
OverWebSocket == Driver \in {"claude-code", "pi"}

Dial(h) ==
    /\ At(h, "send")
    /\ OverWebSocket
    /\ Alive(h)
    /\ GoTo(h, "talk")
    /\ UNCHANGED lease

InstanceAnswers(h) ==
    /\ \/ At(h, "talk")
       \/ At(h, "send") /\ Driver \in {"default", "openclaw"} /\ Alive(h)
    /\ \E pc \in Answered : GoTo(h, pc)
    /\ UNCHANGED lease

\* The call was cancelled, could not be made, or the driver is misconfigured.
SendFails(h) ==
    /\ At(h, "send")
    /\ ~Alive(h) \/ OverWebSocket \/ Driver = "misconfigured"
    /\ GoTo(h, "failed")
    /\ UNCHANGED lease

DriverTimesOut(h) ==
    /\ At(h, "talk")
    /\ GoTo(h, "failed")
    /\ UNCHANGED lease

-----------------------------------------------------------------------------
\* What the event's progress needs of nobody else: calls return, deadlines expire.
OwnStep(h) ==
    \/ GuardPasses(h) \/ GuardDenies(h) \/ GuardsPassed(h)
    \/ GetClaim(h) \/ DeleteClaim(h) \/ ClaimIsGone(h) \/ CreateClaim(h)
    \/ ClaimIsActive(h) \/ ClaimErrored(h) \/ CallFails(h) \/ StopWaiting(h)
    \/ Dial(h) \/ SendFails(h) \/ DriverTimesOut(h)

\* The gateway restarts.
GatewayRestarts ==
    /\ handler' = [h \in Handlers |-> NoEvent]
    /\ UNCHANGED lease

\* Everything the claim's reconciler and other users do to the claim.
OthersActOnClaim == LeaseNext /\ UNCHANGED handler

PipelineNext ==
    \/ \E h \in Handlers :
        \/ OwnStep(h) \/ InstanceAnswers(h) \/ TakeAnswer(h) \/ CancelContext(h)
        \/ \E found \in Tenants \cup {NoTenant} : CallHandler(h, found)
    \/ GatewayRestarts \/ OthersActOnClaim

pipelineVars == <<lease, handler>>

\* An instance need not answer, a claim need not become Active.
PipelineFairness == \A h \in Handlers : WF_pipelineVars(OwnStep(h))

PipelineSpec ==
    LeaseInit /\ HandlersInit /\ [][PipelineNext]_pipelineVars /\ PipelineFairness

PipelineTypeOK == HandlerTypeOK /\ lease \in [Tenants -> Lease]

Calls == INSTANCE EventCalls WITH
    call <- [h \in Handlers |-> CASE handler[h].pc \in UnderWay -> "busy"
                                  [] handler[h].pc \in Answered -> "answered"
                                  [] handler[h].pc = "idle"      -> "idle"]

\* Every event is answered, in whatever state the claim is and whatever becomes
\* of it, of the guard's service, of the instance or of the context: ensureClaim,
\* the guards and the WebSocket drivers all have their deadlines.
EventsAreAnswered == Calls!CallsSpec

\* A claim that ensureClaim deletes is in "a terminal non-Active state" at that
\* moment.
DeletesOnlyTerminalClaims ==
    [][\A h \in Handlers :
        At(h, "delete") /\ handler'[h].pc = "gone"
            => Claim(h).phase \in {"Released", "Error", "absent"}]_pipelineVars
=============================================================================
