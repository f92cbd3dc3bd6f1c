------------------------------ MODULE PartsProofs ------------------------------
(***************************************************************************)
(* The trigger reconciler implements TriggerLife, for any set of specs;    *)
(* the event pipeline implements what EventCalls says of its steps, for    *)
(* any tenants, handlers, guards and driver; and of the components side by *)
(* side, as MCParts checks them, every variable has its type.              *)
(***************************************************************************)
EXTENDS MCParts, SnapshotProofs, ServerProofs, WorkloadProofs, TLAPS

-----------------------------------------------------------------------------
(* The trigger reconciler. *)

\* A pass that has come to look up the workload has found the spec it read
\* valid, and it never goes on with a trigger that did not exist.
PassInv ==
    /\ pass.pc \in {"validate", "lookup", "store"} => pass.obj.exists
    /\ pass.pc = "lookup" => Valid(pass.obj.spec)
    /\ pass.pc = "store" /\ pass.phase = "Active" => Valid(pass.obj.spec)

TriggerInv == TriggerTypeOK /\ PassInv

\* The initial values and the writes have their types.
LEMMA NoTriggerType == NoTrigger \in TriggerObject /\ NoPass \in Pass
BY TriggerAssumption DEF NoTrigger, NoPass, TriggerObject, Pass

\* So has what the API server makes of an object.
LEMMA StoredType ==
    ASSUME NEW obj \in TriggerObject
    PROVE  Stored(obj) \in TriggerObject
BY NoTriggerType DEF Stored

\* The types, and what a pass knows, are preserved by every step.
LEMMA TriggerInvStep == TriggerInv /\ [TriggerNext]_triggerVars => TriggerInv'
<1> SUFFICES ASSUME TriggerInv, [TriggerNext]_triggerVars
             PROVE  TriggerInv'
  OBVIOUS
<1> USE NoTriggerType DEF TriggerInv, PassInv, TriggerTypeOK
<1>1. CASE Users
  <2>1. UNCHANGED pass /\ workload' \in BOOLEAN
    BY <1>1 DEF Users, CreateTrigger, EditTrigger, DeleteTrigger, WorkloadComesOrGoes
  <2>2. ASSUME NEW spec \in Specs, CreateTrigger(spec) PROVE trigger' \in TriggerObject
    <3>1. [NoTrigger EXCEPT !.exists = TRUE, !.spec = spec] \in TriggerObject
      BY DEF TriggerObject
    <3> QED BY <2>2, <3>1, StoredType DEF CreateTrigger
  <2>3. ASSUME NEW spec \in Specs, EditTrigger(spec) PROVE trigger' \in TriggerObject
    <3>1. [trigger EXCEPT !.spec = spec] \in TriggerObject
      BY DEF TriggerObject
    <3> QED BY <2>3, <3>1, StoredType DEF EditTrigger
  <2>4. CASE DeleteTrigger
    <3>1. [trigger EXCEPT !.deleting = TRUE] \in TriggerObject
      BY DEF TriggerObject
    <3> QED BY <2>1, <2>4, <3>1, StoredType DEF DeleteTrigger
  <2>5. CASE WorkloadComesOrGoes
    BY <2>1, <2>5 DEF WorkloadComesOrGoes
  <2> QED BY <1>1, <2>1, <2>2, <2>3, <2>4, <2>5 DEF Users
<1>2. CASE Fetch
  BY <1>2 DEF Fetch, Pass, NoPass
<1>3. CASE AddTriggerFinalizer
  <2>1. [trigger EXCEPT !.finalizer = TRUE] \in TriggerObject
    BY DEF TriggerObject
  <2>2. Stored([trigger EXCEPT !.finalizer = TRUE]) \in TriggerObject
    BY <2>1, StoredType
  <2> QED BY <1>3, <2>2 DEF AddTriggerFinalizer, Pass, NoPass
<1>4. CASE Refetch
  BY <1>4 DEF Refetch, Pass, NoPass
<1>5. CASE RemoveTriggerFinalizer
  <2>1. [trigger EXCEPT !.finalizer = FALSE] \in TriggerObject
    BY DEF TriggerObject
  <2>2. Stored([trigger EXCEPT !.finalizer = FALSE]) \in TriggerObject
    BY <2>1, StoredType
  <2> QED BY <1>5, <2>2 DEF RemoveTriggerFinalizer, NoPass
<1>6. CASE Validate
  BY <1>6 DEF Validate, Pass
<1>7. CASE LookUpWorkload
  BY <1>7 DEF LookUpWorkload, Pass
<1>8. CASE SetStatus
  BY <1>8 DEF SetStatus, Pass, TriggerObject, NoPass
<1>9. CASE PassLost
  BY <1>9 DEF PassLost, NoPass
<1>10. CASE UNCHANGED triggerVars
  BY <1>10 DEF triggerVars
<1> QED
  BY <1>1, <1>2, <1>3, <1>4, <1>5, <1>6, <1>7, <1>8, <1>9, <1>10 DEF TriggerNext, ReconcileTrigger

\* TriggerInv holds throughout.
LEMMA TriggerInvHolds == TriggerSpec => []TriggerInv
<1>1. TriggerInit => TriggerInv
  <2> SUFFICES ASSUME TriggerInit PROVE TriggerInv
    OBVIOUS
  <2>1. trigger \in TriggerObject /\ pass \in Pass /\ workload \in BOOLEAN
    BY NoTriggerType DEF TriggerInit
  <2>2. pass.pc = "idle"
    BY DEF TriggerInit, NoPass
  <2> QED BY <2>1, <2>2 DEF TriggerInv, TriggerTypeOK, PassInv
<1> QED BY <1>1, TriggerInvStep, PTL DEF TriggerSpec

-----------------------------------------------------------------------------
\* What the gateway sees of the trigger.
Seen == IF trigger.exists THEN [spec |-> trigger.spec, active |-> trigger.phase = "Active"]
                          ELSE [spec |-> "none", active |-> FALSE]

\* Records with a truth value in them: the provers follow when it has a name.
LEMMA SpecEdited ==
    ASSUME NEW o, NEW s, NEW a, NEW spec, o = [spec |-> s, active |-> a]
    PROVE  [o EXCEPT !.spec = spec] = [spec |-> spec, active |-> a]
OBVIOUS

\* The same for the other field.
LEMMA ActivityEdited ==
    ASSUME NEW o, NEW s, NEW a, NEW active, o = [spec |-> s, active |-> a]
    PROVE  [o EXCEPT !.active = active] = [spec |-> s, active |-> active] /\ o.spec = s
OBVIOUS

\* A write of the reconciler that changes neither existence, spec nor phase, or
\* lets the trigger go.
LEMMA StoredIsSeen ==
    ASSUME TriggerInv, NEW obj \in TriggerObject, trigger' = Stored(obj),
           obj.exists = trigger.exists, obj.spec = trigger.spec, obj.phase = trigger.phase
    PROVE  Gateway!Remove \/ UNCHANGED Seen
BY NoTriggerType DEF Stored, Gateway!Remove, Gateway!Nothing, Seen, NoTrigger, TriggerInv, TriggerTypeOK

\* Every step is a step of TriggerLife, or none.
LEMMA TriggerStepFollows ==
    TriggerInv /\ [TriggerNext]_triggerVars => [Gateway!LifeNext]_Seen
<1> SUFFICES ASSUME TriggerInv, [TriggerNext]_triggerVars
             PROVE  Gateway!LifeNext \/ UNCHANGED Seen
  OBVIOUS
<1> USE DEF TriggerInv, TriggerTypeOK
<1>1. ASSUME NEW spec \in Specs, CreateTrigger(spec) PROVE Gateway!Write(spec)
  <2>1. trigger' = [NoTrigger EXCEPT !.exists = TRUE, !.spec = spec]
    BY <1>1 DEF CreateTrigger, Stored, NoTrigger
  <2>2. trigger'.exists /\ trigger'.spec = spec /\ trigger'.phase = ""
    BY <2>1 DEF NoTrigger
  <2> DEFINE active == FALSE
  <2>3. Seen = [spec |-> "none", active |-> active] /\ Seen' = [spec |-> spec, active |-> active]
    BY <1>1, <2>2 DEF CreateTrigger, Seen
  <2> HIDE DEF active
  <2>4. Seen' = [Seen EXCEPT !.spec = spec]
    BY <2>3, SpecEdited
  <2> QED BY <2>4 DEF Gateway!Write, Seen
<1>2. ASSUME NEW spec \in Specs, EditTrigger(spec) PROVE Gateway!Write(spec) \/ Gateway!Remove
  <2> DEFINE edited == [trigger EXCEPT !.spec = spec]
             active == trigger.phase = "Active"
  <2>1. edited \in TriggerObject /\ edited.exists /\ edited.spec = spec
        /\ edited.phase = trigger.phase /\ trigger' = Stored(edited)
    BY <1>2 DEF EditTrigger, TriggerObject
  <2>2. CASE trigger' = edited
    <3>1. Seen = [spec |-> trigger.spec, active |-> active] /\ Seen' = [spec |-> spec, active |-> active]
      BY <1>2, <2>1, <2>2 DEF EditTrigger, Seen
    <3> HIDE DEF active
    <3>2. Seen' = [Seen EXCEPT !.spec = spec]
      BY <3>1, SpecEdited
    <3> QED BY <3>2 DEF Gateway!Write, Seen
  <2>3. CASE trigger' = NoTrigger
    BY <2>3 DEF Gateway!Remove, Gateway!Nothing, NoTrigger
  <2> QED BY <2>1, <2>2, <2>3 DEF Stored
<1>3. CASE DeleteTrigger
  <2>1. [trigger EXCEPT !.deleting = TRUE] \in TriggerObject
    BY DEF TriggerObject
  <2> QED BY <1>3, <2>1, StoredIsSeen DEF DeleteTrigger, Gateway!LifeNext, TriggerObject
<1>4. CASE WorkloadComesOrGoes \/ Fetch \/ Refetch \/ Validate \/ LookUpWorkload \/ PassLost
            \/ UNCHANGED triggerVars
  BY <1>4 DEF WorkloadComesOrGoes, Fetch, Refetch, Validate, LookUpWorkload, PassLost, triggerVars, Seen
<1>5. CASE AddTriggerFinalizer
  <2>1. [trigger EXCEPT !.finalizer = TRUE] \in TriggerObject
    BY DEF TriggerObject
  <2> QED BY <1>5, <2>1, StoredIsSeen DEF AddTriggerFinalizer, Gateway!LifeNext, TriggerObject, Seen
<1>6. CASE RemoveTriggerFinalizer
  <2>1. [trigger EXCEPT !.finalizer = FALSE] \in TriggerObject
    BY DEF TriggerObject
  <2> QED BY <1>6, <2>1, StoredIsSeen DEF RemoveTriggerFinalizer, Gateway!LifeNext, TriggerObject, Seen
<1>7. CASE SetStatus
  <2>1. CASE trigger # pass.obj
    BY <1>7, <2>1 DEF SetStatus, Seen
  <2>2. CASE trigger = pass.obj
    <3> DEFINE was == trigger.phase = "Active"
    <3>1. trigger.exists /\ trigger.spec \in Specs /\ pass.phase \in {"", "Active", "Error"}
      BY <1>7, <2>2 DEF SetStatus, PassInv, TriggerObject, Pass
    <3>2. trigger'.exists /\ trigger'.spec = trigger.spec /\ trigger'.phase = pass.phase
      BY <1>7, <2>2, <3>1 DEF SetStatus, TriggerObject
    <3>3. Seen = [spec |-> trigger.spec, active |-> was]
      BY <3>1 DEF Seen
    <3> HIDE DEF was
    <3>4. CASE pass.phase = "Active"
      <4>1. Valid(trigger.spec)
        BY <1>7, <2>2, <3>4 DEF SetStatus, PassInv
      <4> DEFINE is == TRUE
      <4>2. Seen' = [spec |-> trigger.spec, active |-> is]
        BY <3>2, <3>4 DEF Seen
      <4> HIDE DEF is
      <4>3. Seen' = [Seen EXCEPT !.active = is] /\ Seen.spec = trigger.spec
        BY <3>3, <4>2, ActivityEdited
      <4>4. Seen.spec # "none" /\ Gateway!Valid(Seen.spec)
        BY <3>1, <4>1, <4>3, TriggerAssumption DEF Gateway!Valid, Valid
      <4>5. Gateway!Approve
        BY <4>3, <4>4 DEF Gateway!Approve, Seen, is
      <4> QED BY <4>5 DEF Gateway!LifeNext
    <3>5. CASE pass.phase # "Active"
      <4> DEFINE is == FALSE
      <4>1. Seen' = [spec |-> trigger.spec, active |-> is]
        BY <3>2, <3>5 DEF Seen
      <4> HIDE DEF is
      <4>2. Seen' = [Seen EXCEPT !.active = is] /\ Seen.spec = trigger.spec
        BY <3>3, <4>1, ActivityEdited
      <4>3. Seen.spec # "none"
        BY <3>1, <4>2, TriggerAssumption
      <4>4. Gateway!Reject
        BY <4>2, <4>3 DEF Gateway!Reject, Seen, is
      <4> QED BY <4>4 DEF Gateway!LifeNext
    <3> QED BY <3>4, <3>5
  <2> QED BY <2>1, <2>2
<1> QED
  BY <1>1, <1>2, <1>3, <1>4, <1>5, <1>6, <1>7
  DEF TriggerNext, Users, ReconcileTrigger, Gateway!LifeNext

\* What the gateway sees of a trigger follows TriggerLife: it becomes Active only
\* with a spec that was found valid (setStatus stores under the resourceVersion
\* it has read).
THEOREM TriggersFollowLife == TriggerSpec => TriggerFollowsLife
<1>1. TriggerInit => Gateway!LifeInit
  <2> SUFFICES ASSUME TriggerInit PROVE Gateway!LifeInit
    OBVIOUS
  <2>1. ~trigger.exists
    BY DEF TriggerInit, NoTrigger
  <2> QED BY <2>1 DEF Gateway!LifeInit, Gateway!Nothing
<1>2. TriggerInv /\ [TriggerNext]_triggerVars => [Gateway!LifeNext]_Seen
  BY TriggerStepFollows
<1> QED
  BY <1>1, <1>2, TriggerInvHolds, PTL DEF TriggerSpec, TriggerFollowsLife, Gateway!LifeSpec, Seen

-----------------------------------------------------------------------------
(* The event pipeline: types, and every step is a step of a call. *)

\* What an adapter sees of the calls.
CallOf(s) == CASE s.pc \in UnderWay -> "busy"
               [] s.pc \in Answered -> "answered"
               [] s.pc = "idle"     -> "idle"
Calling == [h \in Handlers |-> CallOf(handler[h])]

\* The states of a call exclude each other.
LEMMA CallStates ==
    /\ UnderWay \cap Answered = {} /\ "idle" \notin UnderWay \cup Answered
    /\ NoEvent.pc = "idle" /\ NoEvent \in HandlerState
<1>1. UnderWay \cap Answered = {} /\ "idle" \notin UnderWay \cup Answered
  BY DEF UnderWay, Answered
<1>2. PICK no \in BOOLEAN : no = FALSE
  OBVIOUS
<1>3. NoEvent = [pc |-> "idle", tenant |-> NoTenant, guard |-> 1, cancelled |-> no]
  BY <1>2 DEF NoEvent
<1>4. 1 \in 1..Len(Guards) + 1
  <2>1. Len(Guards) \in Nat
    BY PipelineAssumption DEF PipelineAssumption
  <2>2. QED
    BY <2>1
<1>5. QED
  BY <1>1, <1>2, <1>3, <1>4 DEF HandlerState

\* One call by one: what the adapter sees.
LEMMA CallOfIs ==
    ASSUME NEW s
    PROVE  /\ s.pc \in UnderWay => CallOf(s) = "busy"
           /\ s.pc \in Answered => CallOf(s) = "answered"
           /\ s.pc = "idle" => CallOf(s) = "idle"
BY CallStates DEF CallOf

\* An event that is under way goes on, or is answered.
LEMMA EventMoves ==
    ASSUME HandlerTypeOK, NEW h \in Handlers, handler[h].pc \in UnderWay,
           NEW s \in HandlerState, s.pc \in UnderWay \cup Answered,
           s.pc \in UnderWay => s.tenant \in Tenants,
           handler' = [handler EXCEPT ![h] = s]
    PROVE  HandlerTypeOK' /\ (Calls!CallsNext \/ Calling' = Calling)
<1>1. /\ handler' \in [Handlers -> HandlerState] /\ handler'[h] = s
      /\ \A k \in Handlers : k # h => handler'[k] = handler[k]
  BY DEF HandlerTypeOK
<1>2. HandlerTypeOK'
  BY <1>1 DEF HandlerTypeOK
<1>3. Calling = [k \in Handlers |-> CallOf(handler[k])] /\ Calling[h] = "busy"
  BY CallOfIs DEF Calling
<1>4. CASE s.pc \in UnderWay
  <2>1. CallOf(handler'[h]) = "busy"
    BY <1>1, <1>4, CallOfIs
  <2>2. \A k \in Handlers : Calling'[k] = Calling[k]
    BY <1>1, <1>3, <2>1 DEF Calling
  <2>3. Calling' = Calling
    BY <2>2 DEF Calling
  <2>4. QED
    BY <1>2, <2>3
<1>5. CASE s.pc \in Answered
  <2>1. Calling' = [Calling EXCEPT ![h] = "answered"]
    <3>1. CallOf(handler'[h]) = "answered"
      BY <1>1, <1>5, CallOfIs
    <3>2. \A k \in Handlers : Calling'[k] = IF k = h THEN "answered" ELSE Calling[k]
      BY <1>1, <1>3, <3>1 DEF Calling
    <3>3. QED
      BY <3>2 DEF Calling
  <2>2. Calls!Answer(h)
    BY <1>3, <2>1 DEF Calls!Answer, Calling, CallOf
  <2>3. QED
    BY <1>2, <2>2 DEF Calls!CallsNext
<1>6. QED
  BY <1>4, <1>5

\* It goes on at another place, or at another guard, or without its context.
LEMMA EventEdited ==
    ASSUME NEW s \in HandlerState, NEW pc \in UnderWay \cup Answered,
           NEW g \in 1..Len(Guards) + 1, NEW c \in BOOLEAN
    PROVE  /\ [s EXCEPT !.pc = pc] \in HandlerState
           /\ [s EXCEPT !.pc = pc].pc = pc /\ [s EXCEPT !.pc = pc].tenant = s.tenant
           /\ [s EXCEPT !.guard = g] \in HandlerState
           /\ [s EXCEPT !.guard = g].pc = s.pc /\ [s EXCEPT !.guard = g].tenant = s.tenant
           /\ [s EXCEPT !.cancelled = c] \in HandlerState
           /\ [s EXCEPT !.cancelled = c].pc = s.pc /\ [s EXCEPT !.cancelled = c].tenant = s.tenant
BY DEF HandlerState

\* A step to another place.
LEMMA EventGoesTo ==
    ASSUME HandlerTypeOK, NEW h \in Handlers, handler[h].pc \in UnderWay,
           NEW pc \in UnderWay \cup Answered, GoTo(h, pc)
    PROVE  HandlerTypeOK' /\ (Calls!CallsNext \/ Calling' = Calling)
<1>1. handler[h] \in HandlerState /\ handler[h].tenant \in Tenants
  BY DEF HandlerTypeOK
<1>2. PICK s : s = [handler[h] EXCEPT !.pc = pc]
  OBVIOUS
<1>3. s \in HandlerState /\ s.pc = pc /\ s.tenant \in Tenants
  BY <1>1, <1>2 DEF HandlerState
<1>4. handler' = [handler EXCEPT ![h] = s]
  BY <1>2 DEF GoTo
<1>5. QED
  BY <1>3, <1>4, EventMoves

\* Every step of an event under way, whatever it is waiting for.
LEMMA OwnStepMoves ==
    ASSUME PipelineTypeOK, NEW h \in Handlers, OwnStep(h) \/ InstanceAnswers(h) \/ CancelContext(h)
    PROVE  HandlerTypeOK' /\ (Calls!CallsNext \/ Calling' = Calling)
<1>1. handler[h].pc \in UnderWay
  BY DEF OwnStep, GuardPasses, GuardDenies, GuardsPassed, GetClaim, DeleteClaim, ClaimIsGone,
         CreateClaim, ClaimIsActive, ClaimErrored, CallFails, StopWaiting, Dial, SendFails,
         DriverTimesOut, InstanceAnswers, CancelContext, At, UnderWay
<1>2. HandlerTypeOK /\ handler[h] \in HandlerState /\ handler[h].tenant \in Tenants
  BY <1>1 DEF PipelineTypeOK, HandlerTypeOK
<1>3. CASE GuardPasses(h)
  <2>1. PICK g \in 1..Len(Guards) + 1 : g = handler[h].guard + 1
    <3>1. Len(Guards) \in Nat
      BY PipelineAssumption DEF PipelineAssumption
    <3>2. handler[h].guard \in 1..Len(Guards) + 1 /\ handler[h].guard <= Len(Guards)
      BY <1>2, <1>3 DEF GuardPasses, HandlerState
    <3>3. QED
      BY <3>1, <3>2
  <2>2. PICK s : s = [handler[h] EXCEPT !.guard = g]
    OBVIOUS
  <2>3. s \in HandlerState /\ s.pc = handler[h].pc /\ s.tenant \in Tenants
    BY <1>2, <2>2 DEF HandlerState
  <2>4. handler' = [handler EXCEPT ![h] = s]
    BY <1>3, <2>1, <2>2 DEF GuardPasses
  <2>5. QED
    BY <1>1, <1>2, <2>3, <2>4, EventMoves
<1>4. CASE CancelContext(h)
  <2>1. PICK c \in BOOLEAN : c = TRUE
    OBVIOUS
  <2>2. PICK s : s = [handler[h] EXCEPT !.cancelled = c]
    OBVIOUS
  <2>3. s \in HandlerState /\ s.pc = handler[h].pc /\ s.tenant \in Tenants
    BY <1>2, <2>2 DEF HandlerState
  <2>4. handler' = [handler EXCEPT ![h] = s]
    BY <1>4, <2>1, <2>2 DEF CancelContext
  <2>5. QED
    BY <1>1, <1>2, <2>3, <2>4, EventMoves
<1>5. CASE ~GuardPasses(h) /\ ~CancelContext(h)
  <2>1. \E pc \in UnderWay \cup Answered : GoTo(h, pc)
    <3>1. CASE GetClaim(h)
      <4>1. (CASE Claim(h).phase = "Active" -> "send"
               [] Claim(h).phase \in {"Released", "Error"} -> "delete"
               [] Claim(h).phase = "absent" -> "create"
               [] Claim(h).phase \in {"waiting", "ReleaseFailed"} -> "await") \in UnderWay
        <5>1. Claim(h).phase \in {"absent", "waiting", "Active", "Released", "ReleaseFailed", "Error"}
          BY <1>2 DEF PipelineTypeOK, Claim, Lease
        <5>2. QED
          BY <5>1 DEF UnderWay
      <4>2. QED
        BY <3>1, <4>1 DEF GetClaim
    <3>2. CASE ~GetClaim(h)
      BY <1>5, <3>2
      DEF OwnStep, GuardDenies, GuardsPassed, DeleteClaim, ClaimIsGone, CreateClaim, ClaimIsActive,
          ClaimErrored, CallFails, StopWaiting, Dial, SendFails, DriverTimesOut, InstanceAnswers,
          UnderWay, Answered
    <3>3. QED
      BY <3>1, <3>2
  <2>2. QED
    BY <1>1, <1>2, <2>1, EventGoesTo
<1>6. QED
  BY <1>3, <1>4, <1>5

\* What the reconciler and the users of a claim do keeps it a claim.
LEMMA LeaseStepType == lease \in [Tenants -> Lease] /\ LeaseNext => lease' \in [Tenants -> Lease]
<1> SUFFICES ASSUME lease \in [Tenants -> Lease], LeaseNext PROVE lease' \in [Tenants -> Lease]
  OBVIOUS
<1>1. PICK t \in Tenants :
        \/ Ask(t) \/ Grant(t) \/ Refuse(t) \/ TryAgain(t) \/ Release(t)
        \/ GiveBack(t) \/ Gone(t) \/ GiveBackAtOnce(t)
  BY DEF LeaseNext
<1>2. Nobody \in Lease /\ Asked \in Lease
  BY DEF Nobody, Asked, Lease
<1>3. CASE Ask(t) \/ Gone(t) \/ GiveBackAtOnce(t)
  BY <1>2, <1>3 DEF Ask, Gone, GiveBackAtOnce
<1>4. CASE GiveBack(t)
  <2>1. PICK yes \in BOOLEAN : yes = TRUE
    OBVIOUS
  <2>2. [lease[t] EXCEPT !.deleting = yes] \in Lease
    BY DEF Lease
  <2>3. QED
    BY <1>4, <2>1, <2>2 DEF GiveBack
<1>5. CASE Grant(t) \/ Refuse(t) \/ TryAgain(t) \/ Release(t)
  <2>1. PICK phase \in {"Active", "Error", "waiting", "Released", "ReleaseFailed"} :
          lease' = [lease EXCEPT ![t].phase = phase]
    BY <1>5 DEF Grant, Refuse, TryAgain, Release, Move
  <2>2. [lease[t] EXCEPT !.phase = phase] \in Lease
    BY DEF Lease
  <2>3. QED
    BY <2>1, <2>2
<1>6. QED
  BY <1>1, <1>3, <1>4, <1>5

\* The calls have their types from the beginning, and every step is one of calls.
LEMMA PipelineStep ==
    PipelineTypeOK /\ [PipelineNext]_pipelineVars
        => PipelineTypeOK' /\ (Calls!CallsNext \/ Calling' = Calling)
<1> SUFFICES ASSUME PipelineTypeOK, [PipelineNext]_pipelineVars
             PROVE  PipelineTypeOK' /\ (Calls!CallsNext \/ Calling' = Calling)
  OBVIOUS
<1>0. HandlerTypeOK /\ lease \in [Tenants -> Lease]
  BY DEF PipelineTypeOK
<1>1. ASSUME NEW h \in Handlers, OwnStep(h) \/ InstanceAnswers(h) \/ CancelContext(h)
      PROVE  PipelineTypeOK' /\ (Calls!CallsNext \/ Calling' = Calling)
  <2>1. lease' \in [Tenants -> Lease]
    <3>1. UNCHANGED lease \/ LeaseNext
      <4>1. CASE DeleteClaim(h)
        <5>1. handler[h].tenant \in Tenants
          BY <1>0, <4>1 DEF DeleteClaim, At, HandlerTypeOK, UnderWay
        <5>2. QED
          BY <4>1, <5>1 DEF DeleteClaim, LeaseNext
      <4>2. CASE CreateClaim(h)
        <5>1. handler[h].tenant \in Tenants
          BY <1>0, <4>2 DEF CreateClaim, At, HandlerTypeOK, UnderWay
        <5>2. QED
          BY <4>2, <5>1 DEF CreateClaim, LeaseNext
      <4>3. CASE ~DeleteClaim(h) /\ ~CreateClaim(h)
        BY <1>1, <4>3
        DEF OwnStep, GuardPasses, GuardDenies, GuardsPassed, GetClaim, ClaimIsGone, ClaimIsActive,
            ClaimErrored, CallFails, StopWaiting, Dial, SendFails, DriverTimesOut, InstanceAnswers,
            CancelContext
      <4>4. QED
        BY <4>1, <4>2, <4>3
    <3>2. QED
      BY <1>0, <3>1, LeaseStepType
  <2>2. QED
    BY <1>1, <2>1, OwnStepMoves DEF PipelineTypeOK
<1>2. ASSUME NEW h \in Handlers, TakeAnswer(h)
      PROVE  PipelineTypeOK' /\ (Calls!CallsNext \/ Calling' = Calling)
  <2>1. handler' = [handler EXCEPT ![h] = NoEvent] /\ handler[h].pc \in Answered /\ UNCHANGED lease
    BY <1>2 DEF TakeAnswer
  <2>2. PipelineTypeOK'
    BY <1>0, <2>1, CallStates DEF PipelineTypeOK, HandlerTypeOK
  <2>3. Calling[h] = "answered" /\ CallOf(NoEvent) = "idle"
    BY <2>1, CallOfIs, CallStates DEF Calling
  <2>4. Calling' = [Calling EXCEPT ![h] = "idle"]
    BY <1>0, <2>1, <2>3 DEF Calling, HandlerTypeOK
  <2>5. Calls!Collect(h)
    BY <2>3, <2>4 DEF Calls!Collect, Calling, CallOf
  <2>6. QED
    BY <2>2, <2>5 DEF Calls!CallsNext
<1>3. ASSUME NEW h \in Handlers, NEW found \in Tenants \cup {NoTenant}, CallHandler(h, found)
      PROVE  PipelineTypeOK' /\ (Calls!CallsNext \/ Calling' = Calling)
  <2>1. PICK id \in Tenants \cup {NoTenant} : id = ResolveTenantId(found)
    BY PipelineAssumption DEF PipelineAssumption, ResolveTenantId
  <2>2. PICK pc \in {"failed", "guards"} : pc = IF id = NoTenant THEN "failed" ELSE "guards"
    OBVIOUS
  <2>3. PICK s : s = [NoEvent EXCEPT !.pc = pc, !.tenant = id]
    OBVIOUS
  <2>4. s \in HandlerState /\ s.pc = pc /\ s.tenant = id
    <3>1. pc \in UnderWay \cup Answered \cup {"idle"}
      BY <2>2 DEF UnderWay, Answered
    <3>2. QED
      BY <2>1, <2>3, <3>1, CallStates DEF HandlerState
  <2>5. /\ handler' = [handler EXCEPT ![h] = s] /\ handler[h] = NoEvent /\ UNCHANGED lease
    BY <1>3, <2>1, <2>2, <2>3 DEF CallHandler
  <2>6. pc \in UnderWay => id \in Tenants
    BY <2>1, <2>2 DEF UnderWay
  <2>7. PipelineTypeOK'
    BY <1>0, <2>4, <2>5, <2>6 DEF PipelineTypeOK, HandlerTypeOK
  <2>8. Calling[h] = "idle" /\ CallOf(s) \in {"busy", "answered"}
    <3>1. s.pc \in UnderWay \/ s.pc \in Answered
      BY <2>2, <2>4 DEF UnderWay, Answered
    <3>2. QED
      BY <2>5, <3>1, CallOfIs, CallStates DEF Calling
  <2>9. Calling' = [Calling EXCEPT ![h] = CallOf(s)]
    BY <1>0, <2>5 DEF Calling, HandlerTypeOK
  <2>10. Calls!Begin(h)
    BY <2>8, <2>9 DEF Calls!Begin, Calling, CallOf
  <2>11. QED
    BY <2>7, <2>10 DEF Calls!CallsNext
<1>4. CASE GatewayRestarts
  <2>1. PipelineTypeOK'
    BY <1>0, <1>4, CallStates DEF GatewayRestarts, PipelineTypeOK, HandlerTypeOK
  <2>2. CallOf(NoEvent) = "idle"
    BY CallOfIs, CallStates
  <2>3. Calling' = [h \in Handlers |-> "idle"]
    BY <1>4, <2>2 DEF GatewayRestarts, Calling
  <2>4. Calls!Abandon
    BY <2>3 DEF Calls!Abandon, Calling, CallOf
  <2>5. QED
    BY <2>1, <2>4 DEF Calls!CallsNext
<1>5. CASE OthersActOnClaim \/ UNCHANGED pipelineVars
  <2>1. UNCHANGED handler /\ lease' \in [Tenants -> Lease]
    BY <1>0, <1>5, LeaseStepType DEF OthersActOnClaim, pipelineVars
  <2>2. QED
    BY <1>0, <2>1 DEF PipelineTypeOK, HandlerTypeOK, Calling
<1>6. QED
  BY <1>1, <1>2, <1>3, <1>4, <1>5 DEF PipelineNext

\* So they begin.
LEMMA PipelineBegins == LeaseInit /\ HandlersInit => PipelineTypeOK /\ Calls!CallsInit
<1> SUFFICES ASSUME LeaseInit, HandlersInit PROVE PipelineTypeOK /\ Calls!CallsInit
  OBVIOUS
<1>1. Nobody \in Lease
  BY DEF Nobody, Lease
<1>2. PipelineTypeOK
  BY <1>1, CallStates DEF LeaseInit, HandlersInit, PipelineTypeOK, HandlerTypeOK
<1>3. CallOf(NoEvent) = "idle"
  BY CallOfIs, CallStates
<1>4. Calls!CallsInit
  BY <1>3 DEF HandlersInit, Calls!CallsInit, CallOf
<1>5. QED
  BY <1>2, <1>4

\* The calls of the pipeline have their types: in particular an event under way
\* has a tenant, and the next guard is one there is (buildHandler, runGuards).
THEOREM PipelineTypeCorrect == PipelineSpec => []PipelineTypeOK
<1>1. PipelineTypeOK /\ [PipelineNext]_pipelineVars => PipelineTypeOK'
  BY PipelineStep
<1>2. QED
  BY <1>1, PipelineBegins, PTL DEF PipelineSpec

\* The safety part of EventsAreAnswered: whatever happens to claim, guard,
\* instance and context, a call of the handler is answered once and not before
\* it was made (buildHandler, ensureClaim and the drivers).
THEOREM EventsAreCalls == PipelineSpec => Calls!CallsInit /\ [][Calls!CallsNext]_Calling
<1>1. PipelineTypeOK /\ [PipelineNext]_pipelineVars => [Calls!CallsNext]_Calling
  BY PipelineStep
<1>2. QED
  BY <1>1, PipelineTypeCorrect, PipelineBegins, PTL DEF PipelineSpec

-----------------------------------------------------------------------------
(* The components side by side. *)

\* What the components' specifications say of a behaviour of all of them.
LEMMA PartsAreComponents ==
    PartsSpec => /\ SnapshotSpec /\ TokenSpec /\ WatchSpec /\ WorkloadSpec /\ TriggerSpec
                 /\ PipelineSpec
<1>1. PartsInit => /\ SnapshotInit /\ TokenInit /\ WatchersInit /\ WorkloadInit /\ TriggerInit
                   /\ LeaseInit /\ HandlersInit
  BY DEF PartsInit
<1>2. [PartsNext]_partsVars =>
        /\ [SnapshotNext]_snapshotVars /\ [TokenNext]_tokenVars /\ [WatchNext]_watchVars
        /\ [WorkloadNext]_workloadVars /\ [TriggerNext]_triggerVars /\ [PipelineNext]_pipelineVars
  BY DEF PartsNext, partsVars
<1>3. QED
  BY <1>1, <1>2, PTL
  DEF PartsSpec, PartsFairness, SnapshotSpec, TokenSpec, WatchSpec, WorkloadSpec, TriggerSpec,
      PipelineSpec

\* The variables of every component that stands alone have their types, for any
\* number of archives, tokens, requests, changes, specs, tenants and handlers.
THEOREM PartsTypeCorrect == PartsSpec => []PartsTypeOK
<1>1. SnapshotSpec => []SnapshotTypeOK
  <2>1. SnapInv => SnapshotTypeOK
    BY DEF SnapInv
  <2>2. QED
    BY <2>1, SnapInvInit, SnapInvStep, PTL DEF SnapshotSpec
<1>2. TokenSpec => []TokenTypeOK
  <2>1. TokenInv => TokenTypeOK
    BY DEF TokenInv
  <2>2. QED
    BY <2>1, TokenInvInit, TokenInvStep, PTL DEF TokenSpec
<1>3. WatchSpec => []WatchersTypeOK
  <2>1. WatchInv => WatchersTypeOK
    BY DEF WatchInv, WatchTypes
  <2>2. QED
    BY <2>1, WatchInvInit, WatchInvStep, PTL DEF WatchSpec
<1>4. WorkloadSpec => []WorkloadTypeOK
  <2>1. WorkloadInv => WorkloadTypeOK
    BY DEF WorkloadInv
  <2>2. QED
    BY <2>1, WorkloadInvInit, WorkloadInvStep, PTL DEF WorkloadSpec
<1>5. TriggerSpec => []TriggerTypeOK
  <2>1. TriggerInv => TriggerTypeOK
    BY DEF TriggerInv
  <2>2. QED
    BY <2>1, TriggerInvHolds, PTL
<1>6. QED
  BY <1>1, <1>2, <1>3, <1>4, <1>5, PipelineTypeCorrect, PartsAreComponents, PTL DEF PartsTypeOK
=============================================================================
