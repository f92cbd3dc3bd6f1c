-------------------------- MODULE WorkloadController --------------------------
(***************************************************************************)
(* The workload reconciler: finalizer, validation, image build, phase.  A  *)
(* pass reads the workload from a cache that trails behind and stores what *)
(* it found out under the resourceVersion it has read; building takes      *)
(* minutes, in which the workload may be edited, deleted and made anew.    *)
(*                                                                         *)
(* Abstractions.  One workload name.  A spec is a record of what kind of   *)
(* image it has and of its version; the tag of a built image is the        *)
(* version.  What the builder leaves under a tag is the spec it was built  *)
(* from.  The Pods of the workload are a flag: there are some.             *)
(***************************************************************************)
EXTENDS Naturals

CONSTANTS
    WorkloadSpecs,  \* the specs users write
    MaxRevision     \* bound: resourceVersions

\* An image by reference is built nowhere; a Dockerfile "A" or "B" is; a spec
\* that names both or none, or no resources, is invalid.
SpecKinds == {"ref", "A", "B", "invalid"}

ASSUME WorkloadAssumption ==
    /\ WorkloadSpecs \subseteq [image: SpecKinds, version: Nat]
    /\ WorkloadSpecs # {}
    /\ MaxRevision \in Nat

Invalid(spec)    == spec.image = "invalid"
Dockerfile(spec) == spec.image \in {"A", "B"}
Versions         == {spec.version : spec \in WorkloadSpecs}

WorkloadPhases == {"", "Creating", "Ready", "Error"}

VARIABLES
    wl,             \* the BoilerhouseWorkload object
    wlCache,        \* the operator's copy
    wlPods,         \* there are Pods of the workload
    image,          \* what is under each tag
    build           \* the reconciler's pass

workloadVars == <<wl, wlCache, wlPods, image, build>>

\* generation counts the edits of the spec, revision every write.
WorkloadObject ==
    [exists: BOOLEAN, spec: WorkloadSpecs, generation: 0..MaxRevision, revision: 0..MaxRevision,
     phase: WorkloadPhases, observed: 0..MaxRevision, finalizer: BOOLEAN, deleting: BOOLEAN]

NoWorkload ==
    [exists |-> FALSE, spec |-> CHOOSE s \in WorkloadSpecs : TRUE, generation |-> 0, revision |-> 0,
     phase |-> "", observed |-> 0, finalizer |-> FALSE, deleting |-> FALSE]

\* obj: the object the pass has read.
BuildPass == [pc: {"idle", "cleanup", "unfinalize", "finalize", "check", "build", "store"},
              obj: WorkloadObject, phase: WorkloadPhases]
NoBuild   == [pc |-> "idle", obj |-> NoWorkload, phase |-> ""]

WorkloadTypeOK ==
    /\ wl \in WorkloadObject /\ wlCache \in WorkloadObject
    /\ wlPods \in BOOLEAN
    /\ image \in [Versions -> SpecKinds \cup {"none"}]
    /\ build \in BuildPass

WorkloadInit ==
    /\ wl = NoWorkload /\ wlCache = NoWorkload
    /\ wlPods = FALSE
    /\ image = [v \in Versions |-> "none"]
    /\ build = NoBuild

\* A write to the API server; an object marked for deletion goes with its
\* finalizer.
Put(obj) ==
    /\ wl.revision < MaxRevision
    /\ wl' = IF obj.deleting /\ ~obj.finalizer
               THEN [NoWorkload EXCEPT !.revision = wl.revision + 1]
               ELSE [obj EXCEPT !.revision = wl.revision + 1]

-----------------------------------------------------------------------------
(* Users, Pods and the cache. *)

ApplyWorkload(spec) ==
    /\ ~wl.exists \/ spec # wl.spec
    /\ Put(IF wl.exists THEN [wl EXCEPT !.spec = spec, !.generation = @ + 1]
           ELSE [NoWorkload EXCEPT !.exists = TRUE, !.spec = spec, !.generation = 1])
    /\ UNCHANGED <<wlCache, wlPods, image, build>>

DeleteWorkload ==
    /\ wl.exists /\ ~wl.deleting
    /\ Put([wl EXCEPT !.deleting = TRUE])
    /\ UNCHANGED <<wlCache, wlPods, image, build>>

\* Pods are made for workloads that are Ready and go for all sorts of reasons.
PodsComeOrGo ==
    /\ wlPods \/ (wl.exists /\ wl.phase = "Ready")
    /\ wlPods' = ~wlPods
    /\ UNCHANGED <<wl, wlCache, image, build>>

ObserveWorkload ==
    /\ wlCache # wl
    /\ wlCache' = wl
    /\ UNCHANGED <<wl, wlPods, image, build>>

-----------------------------------------------------------------------------
(* Reconcile *)

Settled(obj) == obj.phase = "Ready" /\ obj.observed = obj.generation

StartBuildPass ==
    /\ build.pc = "idle"
    /\ wlCache.exists
    /\ wlCache.deleting => wlCache.finalizer
    /\ wlCache.deleting \/ ~wlCache.finalizer \/ ~Settled(wlCache)
    /\ build' = [NoBuild EXCEPT !.obj = wlCache,
                 !.pc = IF wlCache.deleting THEN "cleanup"
                        ELSE IF ~wlCache.finalizer THEN "finalize" ELSE "check"]
    /\ UNCHANGED <<wl, wlCache, wlPods, image>>

\* deleteOwnedPods
DeleteOwnedPods ==
    /\ build.pc = "cleanup"
    /\ wlPods' = FALSE
    /\ build' = [build EXCEPT !.pc = "unfinalize"]
    /\ UNCHANGED <<wl, wlCache, image>>

\* Mutant: the status is patched into whatever the workload is by now.
PutPassUnguarded(obj) ==
    IF wl.exists
      THEN Put([wl EXCEPT !.phase = obj.phase, !.observed = wl.generation,
                          !.finalizer = obj.finalizer])
      ELSE UNCHANGED wl

\* Update and Status().Update are refused if the workload has changed since it
\* was read.  An update that changes nothing is no write.
PutPass(obj) ==
    IF wl.revision = obj.revision /\ wl # obj THEN Put(obj) ELSE UNCHANGED wl

\* The pass ends with the write, whether it was refused or not.
StoreAndEnd(obj) ==
    /\ PutPass(obj)
    /\ build' = NoBuild
    /\ UNCHANGED <<wlCache, wlPods, image>>

RemoveWorkloadFinalizer ==
    /\ build.pc = "unfinalize"
    /\ StoreAndEnd([build.obj EXCEPT !.finalizer = FALSE])

AddWorkloadFinalizer ==
    /\ build.pc = "finalize"
    /\ StoreAndEnd([build.obj EXCEPT !.finalizer = TRUE])

Finding(phase) == build' = [build EXCEPT !.pc = "store", !.phase = phase]

\* A spec with a Dockerfile is marked Creating in one pass and built in the next.
CheckWorkload ==
    /\ build.pc = "check"
    /\ LET obj == build.obj
       IN  CASE Invalid(obj.spec)     -> Finding("Error")
             [] Dockerfile(obj.spec)  -> IF obj.phase = "Creating"
                                           THEN build' = [build EXCEPT !.pc = "build"]
                                           ELSE Finding("Creating")
             [] obj.spec.image = "ref" -> Finding("Ready")
    /\ UNCHANGED <<wl, wlCache, wlPods, image>>

BuildImage ==
    /\ build.pc = "build"
    /\ image' = [image EXCEPT ![build.obj.spec.version] = build.obj.spec.image]
    /\ Finding("Ready")
    /\ UNCHANGED <<wl, wlCache, wlPods>>

BuildImageFails ==
    /\ build.pc = "build"
    /\ Finding("Error")
    /\ UNCHANGED <<wl, wlCache, wlPods, image>>

StorePhase ==
    /\ build.pc = "store"
    /\ StoreAndEnd([build.obj EXCEPT !.phase = build.phase, !.observed = build.obj.generation])

\* The operator restarts, or a call fails.
BuildPassLost ==
    /\ build.pc # "idle"
    /\ build' = NoBuild
    /\ UNCHANGED <<wl, wlCache, wlPods, image>>

-----------------------------------------------------------------------------
ReconcileWorkload ==
    \/ StartBuildPass \/ DeleteOwnedPods \/ RemoveWorkloadFinalizer \/ AddWorkloadFinalizer
    \/ CheckWorkload \/ BuildImage \/ BuildImageFails \/ StorePhase

WorkloadNext ==
    \/ ReconcileWorkload \/ BuildPassLost \/ ObserveWorkload
    \/ DeleteWorkload \/ PodsComeOrGo
    \/ \E spec \in WorkloadSpecs : ApplyWorkload(spec)

WorkloadSpec == WorkloadInit /\ [][WorkloadNext]_workloadVars

-----------------------------------------------------------------------------
\* A workload that is Ready for its present generation is valid, and what is
\* under its tag was built from its Dockerfile: a build that was overtaken by an
\* edit loses the race for the status.
ReadyIsBuilt ==
    wl.exists /\ Settled(wl) =>
        /\ ~Invalid(wl.spec)
        /\ Dockerfile(wl.spec) => image[wl.spec.version] = wl.spec.image
===============================================================================
