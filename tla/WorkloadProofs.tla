---------------------------- MODULE WorkloadProofs ----------------------------
(***************************************************************************)
(* A workload that is Ready is built, for any set of specs and however the *)
(* cache trails behind: what a pass has read may be overtaken, but then it *)
(* is refused, and what it builds under a tag meanwhile is not the tag of  *)
(* a workload that is Ready for another spec.                              *)
(***************************************************************************)
EXTENDS WorkloadController, TLAPS

-----------------------------------------------------------------------------
(* Objects and writes. *)

\* A status is never ahead of its spec, nor a spec of the count of writes.
Kept(obj) == obj.observed <= obj.generation /\ obj.generation <= obj.revision

\* What two copies of the workload have in common if the second is the newer
\* one: equal revisions mean equal objects.
Trails(old, new) == old.revision <= new.revision /\ (old.revision = new.revision => old = new)

ReadyOnes(obj) == obj.exists /\ Settled(obj)

\* The blank workload is one.
LEMMA Blank ==
    /\ NoWorkload \in WorkloadObject /\ Kept(NoWorkload)
    /\ ~NoWorkload.exists
    /\ NoWorkload.revision = 0 /\ NoWorkload.observed = 0 /\ NoWorkload.generation = 0
<1>1. PICK s \in WorkloadSpecs : s = CHOOSE some \in WorkloadSpecs : TRUE
  BY WorkloadAssumption DEF WorkloadAssumption
<1>2. PICK no \in BOOLEAN : no = FALSE
  OBVIOUS
<1>3. NoWorkload = [exists |-> no, spec |-> s, generation |-> 0, revision |-> 0,
                    phase |-> "", observed |-> 0, finalizer |-> no, deleting |-> no]
  BY <1>1, <1>2 DEF NoWorkload
<1>4. NoWorkload.revision = 0 /\ NoWorkload.observed = 0 /\ NoWorkload.generation = 0
  BY <1>3
<1>5. NoWorkload \in WorkloadObject
  <2>1. 0 \in 0..MaxRevision /\ "" \in WorkloadPhases
    BY WorkloadAssumption DEF WorkloadAssumption, WorkloadPhases
  <2>2. QED
    BY <1>1, <1>2, <1>3, <2>1 DEF WorkloadObject
<1>6. Kept(NoWorkload)
  BY <1>4 DEF Kept
<1>7. ~NoWorkload.exists
  BY <1>2, <1>3
<1>8. QED
  BY <1>4, <1>5, <1>6, <1>7

\* A write numbers what it stores; only a Ready object is Ready once stored.
LEMMA PutResult ==
    ASSUME wl \in WorkloadObject, NEW obj \in WorkloadObject, Put(obj),
           obj.observed <= obj.generation, obj.generation <= wl.revision + 1
    PROVE  /\ wl' \in WorkloadObject /\ Kept(wl') /\ wl'.revision = wl.revision + 1
           /\ ReadyOnes(wl') => ReadyOnes(obj) /\ wl'.spec = obj.spec
<1>1. wl.revision \in 0..MaxRevision /\ wl.revision + 1 \in 0..MaxRevision
  BY WorkloadAssumption DEF WorkloadAssumption, WorkloadObject, Put
<1>2. CASE obj.deleting /\ ~obj.finalizer
  <2>1. PICK n : n = [NoWorkload EXCEPT !.revision = wl.revision + 1]
    OBVIOUS
  <2>2. /\ n \in WorkloadObject /\ n.revision = wl.revision + 1 /\ n.exists = NoWorkload.exists
        /\ n.observed = 0 /\ n.generation = 0
    BY <1>1, <2>1, Blank DEF WorkloadObject
  <2>3. wl' = n
    BY <1>2, <2>1 DEF Put
  <2>4. Kept(wl') /\ ~wl'.exists
    BY <1>1, <2>2, <2>3, Blank DEF Kept
  <2>5. QED
    BY <2>2, <2>3, <2>4 DEF ReadyOnes
<1>3. CASE ~(obj.deleting /\ ~obj.finalizer)
  <2>1. PICK n : n = [obj EXCEPT !.revision = wl.revision + 1]
    OBVIOUS
  <2>2. /\ n \in WorkloadObject /\ n.revision = wl.revision + 1 /\ n.exists = obj.exists
        /\ n.spec = obj.spec /\ n.phase = obj.phase
        /\ n.observed = obj.observed /\ n.generation = obj.generation
    BY <1>1, <2>1 DEF WorkloadObject
  <2>3. wl' = n
    BY <1>3, <2>1 DEF Put
  <2>4. QED
    BY <1>1, <2>2, <2>3 DEF Kept, ReadyOnes, Settled
<1>4. QED
  BY <1>2, <1>3

-----------------------------------------------------------------------------
(* The invariant. *)

CopiesTrail ==
    /\ Kept(wl) /\ Kept(wlCache) /\ Kept(build.obj)
    /\ Trails(wlCache, wl)
    /\ build.pc # "idle" => Trails(build.obj, wlCache)

\* A workload becomes Ready by a pass that has read it, so whoever reads the
\* cache from then on reads the spec it is Ready for.
ReadyIsKnown ==
    ReadyOnes(wl) => /\ wlCache.spec = wl.spec
                     /\ build.pc # "idle" => build.obj.spec = wl.spec

\* A pass about to report Ready has found the spec good and has built it.
FindingIsTrue ==
    /\ build.pc = "build" => Dockerfile(build.obj.spec)
    /\ build.pc = "store" /\ build.phase = "Ready" =>
         /\ ~Invalid(build.obj.spec)
         /\ Dockerfile(build.obj.spec) => image[build.obj.spec.version] = build.obj.spec.image

WorkloadInv == WorkloadTypeOK /\ CopiesTrail /\ ReadyIsKnown /\ FindingIsTrue /\ ReadyIsBuilt

\* The invariant is true of the beginning.
LEMMA WorkloadInvInit == WorkloadInit => WorkloadInv
<1>1. ASSUME WorkloadInit PROVE WorkloadInv
  <2>1. wl = NoWorkload /\ wlCache = NoWorkload /\ build = NoBuild
    BY <1>1 DEF WorkloadInit
  <2>2. NoBuild.pc = "idle" /\ NoBuild.obj = NoWorkload /\ NoBuild \in BuildPass
    BY Blank DEF NoBuild, BuildPass, WorkloadPhases
  <2>3. WorkloadTypeOK
    BY <1>1, <2>1, <2>2, Blank DEF WorkloadInit, WorkloadTypeOK
  <2>4. CopiesTrail
    BY <2>1, <2>2, Blank DEF CopiesTrail, Trails
  <2>5. QED
    BY <2>1, <2>2, <2>3, <2>4, Blank DEF WorkloadInv, ReadyIsKnown, ReadyOnes, FindingIsTrue, ReadyIsBuilt
<1>2. QED
  BY <1>1

\* A write that makes no workload Ready which was not, and leaves the rest alone
\* or ends the pass.
LEMMA WriteKeeps ==
    ASSUME WorkloadInv, NEW obj \in WorkloadObject, Put(obj),
           obj.observed <= obj.generation, obj.generation <= wl.revision + 1,
           ReadyOnes(obj) => ReadyOnes(wl) /\ obj.spec = wl.spec,
           build' \in {build, NoBuild}, UNCHANGED <<wlCache, wlPods, image>>
    PROVE  WorkloadInv'
<1>0. /\ WorkloadTypeOK /\ NoBuild.pc = "idle" /\ NoBuild.obj = NoWorkload
      /\ NoBuild \in BuildPass
  BY Blank DEF WorkloadInv, NoBuild, BuildPass, WorkloadPhases
<1>1. /\ wl' \in WorkloadObject /\ Kept(wl') /\ wl'.revision = wl.revision + 1
      /\ ReadyOnes(wl') => ReadyOnes(wl) /\ wl'.spec = wl.spec
  BY <1>0, PutResult DEF WorkloadTypeOK
<1>2. WorkloadTypeOK'
  BY <1>0, <1>1 DEF WorkloadTypeOK
<1>3. CopiesTrail'
  <2>1. wl.revision \in Nat /\ wlCache.revision \in Nat
    BY <1>0 DEF WorkloadTypeOK, WorkloadObject
  <2>2. Trails(wlCache, wl)'
    BY <1>1, <2>1 DEF WorkloadInv, CopiesTrail, Trails
  <2>3. QED
    BY <1>0, <1>1, <2>2, Blank DEF WorkloadInv, CopiesTrail
<1>4. ReadyIsKnown'
  BY <1>0, <1>1 DEF WorkloadInv, ReadyIsKnown
<1>5. FindingIsTrue' /\ ReadyIsBuilt'
  BY <1>0, <1>1 DEF WorkloadInv, FindingIsTrue, ReadyIsBuilt, ReadyOnes
<1>6. QED
  BY <1>2, <1>3, <1>4, <1>5 DEF WorkloadInv

\* A step of the pass that goes on with what it has read.
LEMMA PassGoesOn ==
    ASSUME WorkloadInv, build' \in BuildPass, build.pc # "idle",
           build' = NoBuild \/ build'.obj = build.obj,
           FindingIsTrue', UNCHANGED <<wl, wlCache, image>>, wlPods' \in BOOLEAN
    PROVE  WorkloadInv'
<1>1. NoBuild.pc = "idle" /\ NoBuild.obj = NoWorkload
  BY DEF NoBuild
<1>2. QED
  BY <1>1, Blank DEF WorkloadInv, WorkloadTypeOK, CopiesTrail, Trails, ReadyIsKnown, ReadyOnes, ReadyIsBuilt

-----------------------------------------------------------------------------
(* The steps of others. *)

\* What WorkloadTypeOK says of an object, field by field.
LEMMA Fields ==
    ASSUME NEW obj \in WorkloadObject
    PROVE  /\ obj.exists \in BOOLEAN /\ obj.spec \in WorkloadSpecs
           /\ obj.generation \in Nat /\ obj.revision \in Nat /\ obj.observed \in Nat
           /\ obj.revision <= MaxRevision
           /\ obj.phase \in WorkloadPhases
           /\ obj.finalizer \in BOOLEAN /\ obj.deleting \in BOOLEAN
BY WorkloadAssumption DEF WorkloadAssumption, WorkloadObject

\* A new or an edited workload is not Ready for its generation.
LEMMA ApplyKeeps ==
    ASSUME WorkloadInv, NEW spec \in WorkloadSpecs, ApplyWorkload(spec)
    PROVE  WorkloadInv'
<1>0. wl \in WorkloadObject /\ Kept(wl) /\ wl.revision < MaxRevision
  BY DEF WorkloadInv, WorkloadTypeOK, CopiesTrail, ApplyWorkload, Put
<1>1. CASE wl.exists
  <2>1. PICK obj : obj = [wl EXCEPT !.spec = spec, !.generation = @ + 1]
    OBVIOUS
  <2>2. /\ obj.generation = wl.generation + 1 /\ obj.observed = wl.observed
    BY <1>0, <2>1 DEF WorkloadObject
  <2>3. wl.generation + 1 \in 0..MaxRevision
    BY <1>0, Fields, WorkloadAssumption DEF Kept, WorkloadAssumption
  <2>4. obj \in WorkloadObject
    BY <1>0, <2>1, <2>3 DEF WorkloadObject
  <2>5. /\ obj.observed <= obj.generation /\ obj.observed # obj.generation
        /\ obj.generation <= wl.revision + 1
    BY <1>0, <2>2, Fields DEF Kept
  <2>6. ~ReadyOnes(obj)
    BY <2>5 DEF ReadyOnes, Settled
  <2>7. Put(obj) /\ build' = build /\ UNCHANGED <<wlCache, wlPods, image>>
    BY <1>1, <2>1 DEF ApplyWorkload
  <2>8. QED
    BY <2>4, <2>5, <2>6, <2>7, WriteKeeps
<1>2. CASE ~wl.exists
  <2>1. PICK obj : obj = [NoWorkload EXCEPT !.exists = TRUE, !.spec = spec, !.generation = 1]
    OBVIOUS
  <2>2. PICK yes \in BOOLEAN : yes = TRUE
    OBVIOUS
  <2>3. obj = [NoWorkload EXCEPT !.exists = yes, !.spec = spec, !.generation = 1]
    BY <2>1, <2>2
  <2>4. 1 \in 0..MaxRevision
    BY <1>0, Fields, WorkloadAssumption DEF WorkloadAssumption
  <2>5. obj \in WorkloadObject
    BY <2>3, <2>4, Blank DEF WorkloadObject
  <2>6. obj.generation = 1 /\ obj.observed = 0
    BY <2>3, Blank DEF WorkloadObject
  <2>7. /\ obj.observed <= obj.generation /\ obj.observed # obj.generation
        /\ obj.generation <= wl.revision + 1
    BY <1>0, <2>6, Fields
  <2>8. ~ReadyOnes(obj)
    BY <2>7 DEF ReadyOnes, Settled
  <2>9. Put(obj) /\ build' = build /\ UNCHANGED <<wlCache, wlPods, image>>
    BY <1>2, <2>1 DEF ApplyWorkload
  <2>10. QED
    BY <2>5, <2>7, <2>8, <2>9, WriteKeeps
<1>3. QED
  BY <1>1, <1>2

\* Marking a workload for deletion leaves its phase and its spec alone.
LEMMA DeleteKeeps == WorkloadInv /\ DeleteWorkload => WorkloadInv'
<1> SUFFICES ASSUME WorkloadInv, DeleteWorkload PROVE WorkloadInv'
  OBVIOUS
<1>0. wl \in WorkloadObject /\ Kept(wl) /\ wl.revision < MaxRevision
  BY DEF WorkloadInv, WorkloadTypeOK, CopiesTrail, DeleteWorkload, Put
<1>1. PICK yes \in BOOLEAN : yes = TRUE
  OBVIOUS
<1>2. PICK obj : obj = [wl EXCEPT !.deleting = yes]
  OBVIOUS
<1>3. /\ obj \in WorkloadObject
      /\ obj.generation = wl.generation /\ obj.observed = wl.observed
      /\ obj.phase = wl.phase /\ obj.spec = wl.spec /\ obj.exists = wl.exists
  BY <1>0, <1>2 DEF WorkloadObject
<1>4. obj.observed <= obj.generation /\ obj.generation <= wl.revision + 1
  BY <1>0, <1>3, Fields DEF Kept
<1>5. ReadyOnes(obj) => ReadyOnes(wl) /\ obj.spec = wl.spec
  BY <1>3 DEF ReadyOnes, Settled
<1>6. Put(obj) /\ build' = build /\ UNCHANGED <<wlCache, wlPods, image>>
  BY <1>1, <1>2 DEF DeleteWorkload
<1>7. QED
  BY <1>3, <1>4, <1>5, <1>6, WriteKeeps

\* The cache catches up; who reads it from now on reads the workload as it is.
LEMMA ObserveKeeps == WorkloadInv /\ ObserveWorkload => WorkloadInv'
<1> SUFFICES ASSUME WorkloadInv, ObserveWorkload PROVE WorkloadInv'
  OBVIOUS
<1>0. /\ WorkloadTypeOK /\ wlCache' = wl /\ UNCHANGED <<wl, wlPods, image, build>>
  BY DEF WorkloadInv, ObserveWorkload
<1>1. wl.revision \in Nat /\ wlCache.revision \in Nat /\ build.obj.revision \in Nat
  BY <1>0, Fields DEF WorkloadTypeOK, BuildPass
<1>2. WorkloadTypeOK'
  BY <1>0 DEF WorkloadTypeOK
<1>3. CopiesTrail'
  <2>1. Trails(wlCache, wl)'
    BY <1>0, <1>1 DEF Trails
  <2>2. build.pc # "idle" => Trails(build.obj, wl)
    BY <1>1 DEF WorkloadInv, CopiesTrail, Trails
  <2>3. QED
    BY <1>0, <2>1, <2>2 DEF WorkloadInv, CopiesTrail
<1>4. QED
  BY <1>0, <1>2, <1>3 DEF WorkloadInv, ReadyIsKnown, FindingIsTrue, ReadyIsBuilt

-----------------------------------------------------------------------------
(* The steps of the reconciler. *)

\* A pass reads the cache.
LEMMA StartKeeps == WorkloadInv /\ StartBuildPass => WorkloadInv'
<1> SUFFICES ASSUME WorkloadInv, StartBuildPass PROVE WorkloadInv'
  OBVIOUS
<1>0. WorkloadTypeOK /\ UNCHANGED <<wl, wlCache, wlPods, image>>
  BY DEF WorkloadInv, StartBuildPass
<1>1. PICK pc \in {"cleanup", "finalize", "check"} : build' = [NoBuild EXCEPT !.obj = wlCache, !.pc = pc]
  BY DEF StartBuildPass
<1>2. build'.pc = pc /\ build'.obj = wlCache /\ build'.phase = ""
  BY <1>1 DEF NoBuild
<1>3. build' \in BuildPass
  BY <1>0, <1>1 DEF NoBuild, BuildPass, WorkloadTypeOK, WorkloadPhases
<1>4. wlCache.revision \in Nat
  BY <1>0, Fields DEF WorkloadTypeOK
<1>5. CopiesTrail'
  <2>1. Trails(wlCache, wlCache)
    BY <1>4 DEF Trails
  <2>2. Trails(build.obj, wlCache)'
    BY <1>0, <1>2, <2>1
  <2>3. Trails(wlCache, wl)' /\ Kept(wl)' /\ Kept(wlCache)' /\ Kept(build.obj)'
    BY <1>0, <1>2 DEF WorkloadInv, CopiesTrail
  <2>4. QED
    BY <2>2, <2>3 DEF CopiesTrail
<1>6. QED
  BY <1>0, <1>2, <1>3, <1>5 DEF WorkloadInv, WorkloadTypeOK, ReadyIsKnown, FindingIsTrue, ReadyIsBuilt

\* A pass that ends without a write leaves everything as it is.
LEMMA EndKeeps ==
    ASSUME WorkloadInv, build.pc # "idle", build' = NoBuild, UNCHANGED <<wl, wlCache, wlPods, image>>
    PROVE  WorkloadInv'
<1>1. NoBuild.pc = "idle"
  BY DEF NoBuild
<1>2. NoBuild \in BuildPass
  BY Blank DEF NoBuild, BuildPass, WorkloadPhases
<1>3. FindingIsTrue'
  BY <1>1 DEF FindingIsTrue
<1>4. wlPods' \in BOOLEAN
  BY DEF WorkloadInv, WorkloadTypeOK
<1>5. QED
  BY <1>2, <1>3, <1>4, PassGoesOn

\* A write that is not refused writes over what the pass has read.
LEMMA PassReadsPresent ==
    ASSUME WorkloadInv, build.pc # "idle", NEW obj, obj.revision = build.obj.revision,
           PutPass(obj), wl' # wl
    PROVE  wl = build.obj /\ wlCache = build.obj /\ Put(obj)
<1>1. wl.revision = build.obj.revision /\ Put(obj)
  BY DEF PutPass
<1>2. wl.revision \in Nat /\ wlCache.revision \in Nat /\ build.obj.revision \in Nat
  BY Fields DEF WorkloadInv, WorkloadTypeOK, BuildPass
<1>3. Trails(build.obj, wlCache) /\ Trails(wlCache, wl)
  BY DEF WorkloadInv, CopiesTrail
<1>4. build.obj.revision = wlCache.revision /\ wlCache.revision = wl.revision
  BY <1>1, <1>2, <1>3 DEF Trails
<1>5. QED
  BY <1>1, <1>3, <1>4 DEF Trails

\* Adding and removing the finalizer leaves the phase and the spec alone.
LEMMA FinalizerKeeps ==
    ASSUME WorkloadInv, build.pc # "idle", NEW on \in BOOLEAN,
           StoreAndEnd([build.obj EXCEPT !.finalizer = on])
    PROVE  WorkloadInv'
<1>0. build.obj \in WorkloadObject /\ Kept(build.obj)
  BY DEF WorkloadInv, WorkloadTypeOK, BuildPass, CopiesTrail
<1>1. PICK obj : obj = [build.obj EXCEPT !.finalizer = on]
  OBVIOUS
<1>2. /\ obj \in WorkloadObject /\ obj.revision = build.obj.revision
      /\ obj.generation = build.obj.generation /\ obj.observed = build.obj.observed
      /\ obj.phase = build.obj.phase /\ obj.spec = build.obj.spec /\ obj.exists = build.obj.exists
  BY <1>0, <1>1 DEF WorkloadObject
<1>3. PutPass(obj) /\ build' = NoBuild /\ UNCHANGED <<wlCache, wlPods, image>>
  BY <1>1 DEF StoreAndEnd
<1>4. CASE wl' = wl
  BY <1>3, <1>4, EndKeeps
<1>5. CASE wl' # wl
  <2>1. wl = build.obj /\ Put(obj)
    BY <1>2, <1>3, <1>5, PassReadsPresent
  <2>2. obj.observed <= obj.generation /\ obj.generation <= wl.revision + 1
    BY <1>0, <1>2, <2>1, Fields DEF Kept
  <2>3. ReadyOnes(obj) => ReadyOnes(wl) /\ obj.spec = wl.spec
    BY <1>2, <2>1 DEF ReadyOnes, Settled
  <2>4. QED
    BY <1>2, <1>3, <2>1, <2>2, <2>3, WriteKeeps
<1>6. QED
  BY <1>4, <1>5

\* The phase is stored only over the object it was found for, so a workload that
\* becomes Ready is the one that was built.
LEMMA StorePhaseKeeps == WorkloadInv /\ StorePhase => WorkloadInv'
<1> SUFFICES ASSUME WorkloadInv, StorePhase PROVE WorkloadInv'
  OBVIOUS
<1>0. /\ build.pc = "store" /\ build.pc # "idle" /\ WorkloadTypeOK
      /\ build.obj \in WorkloadObject /\ Kept(build.obj) /\ build.phase \in WorkloadPhases
  BY DEF WorkloadInv, WorkloadTypeOK, BuildPass, CopiesTrail, StorePhase
<1>1. PICK obj : obj = [build.obj EXCEPT !.phase = build.phase, !.observed = build.obj.generation]
  OBVIOUS
<1>2. build.obj.generation \in 0..MaxRevision
  BY <1>0 DEF WorkloadObject
<1>3. /\ obj \in WorkloadObject /\ obj.revision = build.obj.revision
      /\ obj.generation = build.obj.generation /\ obj.observed = build.obj.generation
      /\ obj.phase = build.phase /\ obj.spec = build.obj.spec
  BY <1>0, <1>1, <1>2 DEF WorkloadObject
<1>4. PutPass(obj) /\ build' = NoBuild /\ UNCHANGED <<wlCache, wlPods, image>>
  BY <1>1 DEF StoreAndEnd, StorePhase
<1>5. CASE wl' = wl
  BY <1>0, <1>4, <1>5, EndKeeps
<1>6. CASE wl' # wl
  <2>1. wl = build.obj /\ wlCache = build.obj /\ Put(obj)
    BY <1>0, <1>3, <1>4, <1>6, PassReadsPresent
  <2>2. obj.observed <= obj.generation /\ obj.generation <= wl.revision + 1
    BY <1>0, <1>3, <2>1, Fields DEF Kept
  <2>3. /\ wl' \in WorkloadObject /\ Kept(wl') /\ wl'.revision = wl.revision + 1
        /\ ReadyOnes(wl') => ReadyOnes(obj) /\ wl'.spec = obj.spec
    BY <1>0, <1>3, <2>1, <2>2, PutResult DEF WorkloadTypeOK
  <2>4. /\ NoBuild.pc = "idle" /\ NoBuild.obj = NoWorkload /\ NoBuild \in BuildPass
    BY Blank DEF NoBuild, BuildPass, WorkloadPhases
  <2>5. WorkloadTypeOK'
    BY <1>0, <1>4, <2>3, <2>4 DEF WorkloadTypeOK
  <2>6. wl.revision \in Nat
    BY <1>0, Fields DEF WorkloadTypeOK
  <2>7. Trails(wlCache, wl)'
    BY <1>4, <2>1, <2>3, <2>6 DEF Trails
  <2>8. CopiesTrail'
    BY <1>4, <2>3, <2>4, <2>7, Blank DEF WorkloadInv, CopiesTrail
  <2>9. ReadyIsKnown' /\ FindingIsTrue'
    BY <1>3, <1>4, <2>1, <2>3, <2>4 DEF ReadyIsKnown, FindingIsTrue
  <2>10. ReadyOnes(wl') => build.phase = "Ready" /\ wl'.spec = build.obj.spec
    BY <1>3, <2>3 DEF ReadyOnes, Settled
  <2>11. ReadyIsBuilt'
    BY <1>0, <1>4, <2>10 DEF WorkloadInv, FindingIsTrue, ReadyIsBuilt, ReadyOnes
  <2>12. QED
    BY <2>5, <2>8, <2>9, <2>11 DEF WorkloadInv
<1>7. QED
  BY <1>5, <1>6

\* What a pass has come to in its object, but for the image it may have built.
LEMMA FindingShape ==
    ASSUME WorkloadTypeOK, NEW phase \in WorkloadPhases, Finding(phase)
    PROVE  /\ build' \in BuildPass /\ build'.pc = "store"
           /\ build'.obj = build.obj /\ build'.phase = phase
<1>1. PICK b : b = [build EXCEPT !.pc = "store", !.phase = phase]
  OBVIOUS
<1>2. b \in BuildPass /\ b.pc = "store" /\ b.obj = build.obj /\ b.phase = phase
  BY <1>1 DEF WorkloadTypeOK, BuildPass
<1>3. QED
  BY <1>1, <1>2 DEF Finding

\* A reference is Ready at once, a Dockerfile once it has been built.
LEMMA CheckKeeps == WorkloadInv /\ CheckWorkload => WorkloadInv'
<1> SUFFICES ASSUME WorkloadInv, CheckWorkload PROVE WorkloadInv'
  OBVIOUS
<1>0. /\ WorkloadTypeOK /\ build.pc = "check" /\ build.pc # "idle"
      /\ UNCHANGED <<wl, wlCache, wlPods, image>> /\ wlPods' \in BOOLEAN
  BY DEF WorkloadInv, WorkloadTypeOK, CheckWorkload
<1>1. build.obj.spec.image \in SpecKinds
  BY <1>0, WorkloadAssumption DEF WorkloadTypeOK, BuildPass, WorkloadObject, WorkloadAssumption
<1>2. CASE Invalid(build.obj.spec)
  <2>1. Finding("Error")
    BY <1>2, <1>0, <1>1 DEF CheckWorkload, Invalid, Dockerfile
  <2>2. /\ build' \in BuildPass /\ build'.pc = "store"
        /\ build'.obj = build.obj /\ build'.phase = "Error"
    BY <1>0, <2>1, FindingShape DEF WorkloadPhases
  <2>3. QED
    BY <1>0, <2>2, PassGoesOn DEF FindingIsTrue
<1>3. CASE Dockerfile(build.obj.spec)
  <2>1. CASE build.obj.phase = "Creating"
    <3>1. build' = [build EXCEPT !.pc = "build"]
      BY <1>0, <1>3, <2>1 DEF CheckWorkload, Invalid, Dockerfile
    <3>2. build' \in BuildPass /\ build'.pc = "build" /\ build'.obj = build.obj
      BY <1>0, <3>1 DEF WorkloadTypeOK, BuildPass
    <3>3. QED
      BY <1>0, <1>3, <3>2, PassGoesOn DEF FindingIsTrue
  <2>2. CASE build.obj.phase # "Creating"
    <3>1. Finding("Creating")
      BY <1>0, <1>3, <2>2 DEF CheckWorkload, Invalid, Dockerfile
    <3>2. /\ build' \in BuildPass /\ build'.pc = "store"
          /\ build'.obj = build.obj /\ build'.phase = "Creating"
      BY <1>0, <3>1, FindingShape DEF WorkloadPhases
    <3>3. QED
      BY <1>0, <3>2, PassGoesOn DEF FindingIsTrue
  <2>3. QED
    BY <2>1, <2>2
<1>4. CASE build.obj.spec.image = "ref"
  <2>1. Finding("Ready") /\ ~Invalid(build.obj.spec) /\ ~Dockerfile(build.obj.spec)
    BY <1>4, <1>0 DEF CheckWorkload, Invalid, Dockerfile
  <2>2. /\ build' \in BuildPass /\ build'.pc = "store"
        /\ build'.obj = build.obj /\ build'.phase = "Ready"
    BY <1>0, <2>1, FindingShape DEF WorkloadPhases
  <2>3. QED
    BY <1>0, <2>1, <2>2, PassGoesOn DEF FindingIsTrue
<1>5. QED
  BY <1>1, <1>2, <1>3, <1>4 DEF Invalid, Dockerfile, SpecKinds

\* A build for an older spec does not take the tag of a workload that is Ready:
\* by then the pass has read the spec it is Ready for.
LEMMA BuildKeeps == WorkloadInv /\ BuildImage => WorkloadInv'
<1> SUFFICES ASSUME WorkloadInv, BuildImage PROVE WorkloadInv'
  OBVIOUS
<1>0. /\ WorkloadTypeOK /\ build.pc = "build" /\ build.pc # "idle"
      /\ UNCHANGED <<wl, wlCache, wlPods>> /\ Finding("Ready")
      /\ image' = [image EXCEPT ![build.obj.spec.version] = build.obj.spec.image]
  BY DEF WorkloadInv, BuildImage
<1>1. /\ build' \in BuildPass /\ build'.pc = "store"
      /\ build'.obj = build.obj /\ build'.phase = "Ready"
  BY <1>0, FindingShape DEF WorkloadPhases
<1>2. build.obj.spec \in WorkloadSpecs /\ build.obj.spec.version \in Versions
  BY <1>0 DEF WorkloadTypeOK, BuildPass, WorkloadObject, Versions
<1>3. build.obj.spec.image \in SpecKinds
  BY <1>2, WorkloadAssumption DEF WorkloadAssumption
<1>4. image' \in [Versions -> SpecKinds \cup {"none"}]
  BY <1>0, <1>2, <1>3 DEF WorkloadTypeOK
<1>5. image'[build.obj.spec.version] = build.obj.spec.image
  BY <1>0, <1>2 DEF WorkloadTypeOK
<1>6. WorkloadTypeOK'
  BY <1>0, <1>1, <1>4 DEF WorkloadTypeOK
<1>7. CopiesTrail' /\ ReadyIsKnown'
  BY <1>0, <1>1 DEF WorkloadInv, CopiesTrail, ReadyIsKnown, Trails, ReadyOnes
<1>8. FindingIsTrue'
  BY <1>0, <1>1, <1>5 DEF WorkloadInv, FindingIsTrue, Invalid, Dockerfile
<1>9. ReadyIsBuilt'
  <2>1. ReadyOnes(wl) => wl.spec = build.obj.spec
    BY <1>0 DEF WorkloadInv, ReadyIsKnown
  <2>2. QED
    BY <1>0, <1>5, <2>1 DEF WorkloadInv, ReadyIsBuilt, ReadyOnes
<1>10. QED
  BY <1>6, <1>7, <1>8, <1>9 DEF WorkloadInv

\* The rest of the pass, and the Pods.
LEMMA OtherStepsKeep ==
    WorkloadInv /\ (DeleteOwnedPods \/ BuildImageFails \/ PodsComeOrGo) => WorkloadInv'
<1> SUFFICES ASSUME WorkloadInv PROVE DeleteOwnedPods \/ BuildImageFails \/ PodsComeOrGo => WorkloadInv'
  OBVIOUS
<1>0. WorkloadTypeOK
  BY DEF WorkloadInv
<1>1. ASSUME DeleteOwnedPods PROVE WorkloadInv'
  <2>1. /\ build.pc # "idle" /\ UNCHANGED <<wl, wlCache, image>> /\ wlPods' \in BOOLEAN
        /\ build' = [build EXCEPT !.pc = "unfinalize"]
    BY <1>1 DEF DeleteOwnedPods
  <2>2. build' \in BuildPass /\ build'.pc = "unfinalize" /\ build'.obj = build.obj
    BY <1>0, <2>1 DEF WorkloadTypeOK, BuildPass
  <2>3. QED
    BY <2>1, <2>2, PassGoesOn DEF FindingIsTrue
<1>2. ASSUME BuildImageFails PROVE WorkloadInv'
  <2>1. /\ build.pc # "idle" /\ UNCHANGED <<wl, wlCache, wlPods, image>> /\ wlPods' \in BOOLEAN
        /\ Finding("Error")
    BY <1>0, <1>2 DEF BuildImageFails, WorkloadTypeOK
  <2>2. /\ build' \in BuildPass /\ build'.pc = "store"
        /\ build'.obj = build.obj /\ build'.phase = "Error"
    BY <1>0, <2>1, FindingShape DEF WorkloadPhases
  <2>3. QED
    BY <2>1, <2>2, PassGoesOn DEF FindingIsTrue
<1>3. ASSUME PodsComeOrGo PROVE WorkloadInv'
  BY <1>3 DEF PodsComeOrGo, WorkloadInv, WorkloadTypeOK, CopiesTrail, Trails, ReadyIsKnown, ReadyOnes,
     FindingIsTrue, ReadyIsBuilt
<1>4. QED
  BY <1>1, <1>2, <1>3

-----------------------------------------------------------------------------
\* Every step keeps the invariant.
LEMMA WorkloadInvStep == WorkloadInv /\ [WorkloadNext]_workloadVars => WorkloadInv'
<1> SUFFICES ASSUME WorkloadInv, [WorkloadNext]_workloadVars PROVE WorkloadInv'
  OBVIOUS
<1>1. CASE RemoveWorkloadFinalizer
  BY <1>1, FinalizerKeeps DEF RemoveWorkloadFinalizer
<1>2. CASE AddWorkloadFinalizer
  BY <1>2, FinalizerKeeps DEF AddWorkloadFinalizer
<1>3. CASE BuildPassLost
  BY <1>3, EndKeeps DEF BuildPassLost
<1>4. CASE \E spec \in WorkloadSpecs : ApplyWorkload(spec)
  BY <1>4, ApplyKeeps
<1>5. CASE DeleteWorkload \/ ObserveWorkload
  BY <1>5, DeleteKeeps, ObserveKeeps
<1>6. CASE StartBuildPass \/ CheckWorkload \/ BuildImage \/ StorePhase
  BY <1>6, StartKeeps, CheckKeeps, BuildKeeps, StorePhaseKeeps
<1>7. CASE DeleteOwnedPods \/ BuildImageFails \/ PodsComeOrGo
  BY <1>7, OtherStepsKeep
<1>8. CASE UNCHANGED workloadVars
  BY <1>8 DEF workloadVars, WorkloadInv, WorkloadTypeOK, CopiesTrail, Trails, ReadyIsKnown, ReadyOnes,
     FindingIsTrue, ReadyIsBuilt
<1>9. QED
  BY <1>1, <1>2, <1>3, <1>4, <1>5, <1>6, <1>7, <1>8 DEF WorkloadNext, ReconcileWorkload

\* A workload that is Ready for its present generation is valid and its image is
\* the one built from its Dockerfile, whatever is edited, deleted or made anew
\* while Reconcile builds (workload_controller.go).
THEOREM ReadyWorkloadsAreBuilt == WorkloadSpec => []ReadyIsBuilt
<1>1. WorkloadInv => ReadyIsBuilt
  BY DEF WorkloadInv
<1>2. QED
  BY <1>1, WorkloadInvInit, WorkloadInvStep, PTL DEF WorkloadSpec
===============================================================================
