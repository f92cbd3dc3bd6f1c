-------------------------- MODULE TriggerController --------------------------
(***************************************************************************)
(* The trigger reconciler of the operator, and what users do to a trigger  *)
(* through the API.  A pass reads the trigger, puts its finalizer on,      *)
(* looks at the spec and at the workload it names, and stores a phase; the *)
(* trigger may be changed, deleted and made anew in between.               *)
(*                                                                         *)
(* Abstractions.  One trigger name.  A spec is its kind: an adapter type,  *)
(* or a way to be wrong.  The resourceVersion test of an Update is "the    *)
(* trigger is still what was read".  Reading a cache that trails behind is *)
(* reading early and going on late.                                        *)
(***************************************************************************)
CONSTANT Specs      \* the specs users write

ASSUME TriggerAssumption == Specs # {} /\ "none" \notin Specs

\* validateTriggerSpec
Valid(spec) == spec # "invalid"

VARIABLES
    trigger,        \* the BoilerhouseTrigger object
    workload,       \* the workload it names exists
    pass            \* what the reconciler is doing

triggerVars == <<trigger, workload, pass>>

TriggerObject == [exists: BOOLEAN, spec: Specs, phase: {"", "Active", "Error"},
                  finalizer: BOOLEAN, deleting: BOOLEAN]

Pass == [pc: {"idle", "finalize", "refetch", "validate", "lookup", "store", "unfinalize"},
         obj: TriggerObject, phase: {"", "Active", "Error"}]

TriggerTypeOK ==
    /\ trigger \in TriggerObject
    /\ workload \in BOOLEAN
    /\ pass \in Pass

NoTrigger == [exists |-> FALSE, spec |-> CHOOSE s \in Specs : TRUE, phase |-> "",
              finalizer |-> FALSE, deleting |-> FALSE]
NoPass == [pc |-> "idle", obj |-> NoTrigger, phase |-> ""]

TriggerInit == trigger = NoTrigger /\ workload = FALSE /\ pass = NoPass

\* An object marked for deletion goes when its last finalizer goes.
Stored(obj) == IF obj.deleting /\ ~obj.finalizer THEN NoTrigger ELSE obj

-----------------------------------------------------------------------------
(* createTrigger and deleteTrigger, kubectl apply, and the workload's owner. *)

CreateTrigger(spec) ==
    /\ ~trigger.exists
    /\ trigger' = Stored([NoTrigger EXCEPT !.exists = TRUE, !.spec = spec])
    /\ UNCHANGED <<workload, pass>>

EditTrigger(spec) ==
    /\ trigger.exists
    /\ spec # trigger.spec
    /\ trigger' = Stored([trigger EXCEPT !.spec = spec])
    /\ UNCHANGED <<workload, pass>>

DeleteTrigger ==
    /\ trigger.exists
    /\ ~trigger.deleting
    /\ trigger' = Stored([trigger EXCEPT !.deleting = TRUE])
    /\ UNCHANGED <<workload, pass>>

WorkloadComesOrGoes ==
    /\ workload' = ~workload
    /\ UNCHANGED <<trigger, pass>>

-----------------------------------------------------------------------------
(* Reconcile *)

Fetch ==
    /\ pass.pc = "idle"
    /\ trigger.exists
    /\ trigger.deleting => trigger.finalizer
    /\ pass' = [NoPass EXCEPT !.obj = trigger,
                !.pc = IF trigger.deleting THEN "unfinalize"
                       ELSE IF ~trigger.finalizer THEN "finalize" ELSE "validate"]
    /\ UNCHANGED <<trigger, workload>>

\* Update is refused if the trigger has changed since it was read; a refused
\* one ends the pass, which is repeated.
RemoveTriggerFinalizer ==
    /\ pass.pc = "unfinalize"
    /\ trigger' = IF trigger = pass.obj THEN Stored([trigger EXCEPT !.finalizer = FALSE])
                                        ELSE trigger
    /\ pass' = NoPass
    /\ UNCHANGED workload

AddTriggerFinalizer ==
    /\ pass.pc = "finalize"
    /\ IF trigger = pass.obj
         THEN /\ trigger' = Stored([trigger EXCEPT !.finalizer = TRUE])
              /\ pass' = [pass EXCEPT !.pc = "refetch"]
         ELSE /\ pass' = NoPass
              /\ UNCHANGED trigger
    /\ UNCHANGED workload

\* A trigger that has been deleted by now is gone on with all the same.
Refetch ==
    /\ pass.pc = "refetch"
    /\ pass' = IF trigger.exists THEN [NoPass EXCEPT !.pc = "validate", !.obj = trigger]
                                 ELSE NoPass
    /\ UNCHANGED <<trigger, workload>>

Validate ==
    /\ pass.pc = "validate"
    /\ pass' = IF Valid(pass.obj.spec) THEN [pass EXCEPT !.pc = "lookup"]
                                       ELSE [pass EXCEPT !.pc = "store", !.phase = "Error"]
    /\ UNCHANGED <<trigger, workload>>

LookUpWorkload ==
    /\ pass.pc = "lookup"
    /\ pass' = [pass EXCEPT !.pc = "store", !.phase = IF workload THEN "Active" ELSE "Error"]
    /\ UNCHANGED <<trigger, workload>>

\* Mutant: the phase is patched into whatever the trigger is by now.
SetStatusUnguarded ==
    /\ pass.pc = "store"
    /\ trigger' = IF trigger.exists THEN [trigger EXCEPT !.phase = pass.phase] ELSE trigger
    /\ pass' = NoPass
    /\ UNCHANGED workload

SetStatus ==
    /\ pass.pc = "store"
    /\ trigger' = IF trigger = pass.obj THEN [trigger EXCEPT !.phase = pass.phase] ELSE trigger
    /\ pass' = NoPass
    /\ UNCHANGED workload

\* The operator restarts, or a call fails.
PassLost ==
    /\ pass.pc # "idle"
    /\ pass' = NoPass
    /\ UNCHANGED <<trigger, workload>>

-----------------------------------------------------------------------------
Users ==
    \/ \E spec \in Specs : CreateTrigger(spec) \/ EditTrigger(spec)
    \/ DeleteTrigger \/ WorkloadComesOrGoes

ReconcileTrigger ==
    \/ Fetch \/ AddTriggerFinalizer \/ Refetch \/ RemoveTriggerFinalizer
    \/ Validate \/ LookUpWorkload \/ SetStatus

TriggerNext == Users \/ ReconcileTrigger \/ PassLost

TriggerSpec == TriggerInit /\ [][TriggerNext]_triggerVars

Gateway == INSTANCE TriggerLife WITH
    offered <- IF trigger.exists
                 THEN [spec |-> trigger.spec, active |-> trigger.phase = "Active"]
                 ELSE [spec |-> "none", active |-> FALSE]

\* What the gateway sees of a trigger: it becomes Active only with a spec that
\* was found valid, however it is edited, deleted and made anew while a pass is
\* on its way (setStatus stores the phase under the resourceVersion it has read).
TriggerFollowsLife == Gateway!LifeSpec
=============================================================================
