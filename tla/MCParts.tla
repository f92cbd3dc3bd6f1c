------------------------------- MODULE MCParts -------------------------------
(***************************************************************************)
(* The components that can be checked on their own, side by side: a        *)
(* behaviour is one of one of them, so that their states add up.           *)
(***************************************************************************)
EXTENDS SnapshotStore, TokenStore, Watchers, WorkloadController, TriggerController, EventPipeline

VARIABLE part       \* the component at work

Parts == {"snapshots", "tokens", "watchers", "workload", "trigger", "events"}

\* A reference, two Dockerfiles under one version, and a spec that is refused.
TwoDockerfiles == {[image |-> i, version |-> 1] : i \in {"ref", "A", "B", "invalid"}}
AllowlistThenApi == <<"allowlist", "api">>

PartsInit ==
    /\ part \in Parts
    /\ SnapshotInit /\ TokenInit /\ WatchersInit /\ WorkloadInit /\ TriggerInit
    /\ LeaseInit /\ HandlersInit

PartsNext ==
    /\ UNCHANGED part
    /\ \/ /\ part = "snapshots" /\ SnapshotNext
          /\ UNCHANGED <<tokenVars, watchVars, workloadVars, triggerVars, pipelineVars>>
       \/ /\ part = "tokens" /\ TokenNext
          /\ UNCHANGED <<snapshotVars, watchVars, workloadVars, triggerVars, pipelineVars>>
       \/ /\ part = "watchers" /\ WatchNext
          /\ UNCHANGED <<snapshotVars, tokenVars, workloadVars, triggerVars, pipelineVars>>
       \/ /\ part = "workload" /\ WorkloadNext
          /\ UNCHANGED <<snapshotVars, tokenVars, watchVars, triggerVars, pipelineVars>>
       \/ /\ part = "trigger" /\ TriggerNext
          /\ UNCHANGED <<snapshotVars, tokenVars, watchVars, workloadVars, pipelineVars>>
       \/ /\ part = "events" /\ PipelineNext
          /\ UNCHANGED <<snapshotVars, tokenVars, watchVars, workloadVars, triggerVars>>

partsVars == <<part, snapshotVars, tokenVars, watchVars, workloadVars, triggerVars, pipelineVars>>

\* Of a component that is not at work no fair action is ever enabled.
PartsFairness == TokenFairness /\ WF_watchVars(Handler) /\ PipelineFairness

PartsSpec == PartsInit /\ [][PartsNext]_partsVars /\ PartsFairness

\* Every component's variables have their types.
PartsTypeOK ==
    /\ SnapshotTypeOK /\ TokenTypeOK /\ WatchersTypeOK /\ WorkloadTypeOK /\ TriggerTypeOK
    /\ PipelineTypeOK
===============================================================================
