---------------------------- MODULE SnapshotProofs ----------------------------
(***************************************************************************)
(* The snapshot store implements the register of SnapshotRegister, for any *)
(* number of archives and whatever goes wrong.  What is behind it:         *)
(*   - nothing is on the volume or in a file that no shell was started     *)
(*     for, so a new archive is a new value;                               *)
(*   - a shell that has met no other has, at each of its steps, left its   *)
(*     archive and checksum where the next step looks for them;            *)
(*   - what a read compares the archive with is, at any time, a value the  *)
(*     register could have had when the read began.                        *)
(***************************************************************************)
EXTENDS SnapshotStore, TLAPS

-----------------------------------------------------------------------------
(* The invariant. *)

Begun == {n \in Archives : script[n] # "none"}

\* Whatever is anywhere was put there by the shell of a store.
OnlyStored ==
    /\ call.op = "exec" => call.n = extracted /\ call.n \in Archives \ Begun
    /\ call.op = "store" => call.n \in Begun
    /\ \A n \in Begun : n <= extracted
    /\ volume.sum \in Begun \cup {None} /\ volume.sumTmp \in Begun \cup {None}
    /\ \A f \in Archives : file[f] \in Begun \cup {Empty, Garbage}

\* Where a store that has met no other has come to.
AloneAt(n) ==
    /\ Live \subseteq {n}
    /\ script[n] = "cat" =>
         out[n] = volume.archiveTmp /\ out[n] \in Archives /\ file[out[n]] = Empty
    /\ script[n] \in {"sum", "mvArchive"} =>
         volume.archiveTmp \in Archives /\ file[volume.archiveTmp] = n
    /\ script[n] \in {"mvArchive", "mvSum"} => volume.sumTmp = n
    /\ script[n] \in {"mvSum", "done"} => volume.archive \in Archives /\ file[volume.archive] = n
    /\ script[n] = "done" => volume.sum = n

AloneInv ==
    \A n \in Archives : call.op = "store" /\ call.alone /\ call.n = n => AloneAt(n)

Reading == call.op \in {"read", "sum", "tar"}

\* While it reads the store may change only if a shell was at work all along,
\* and then the read may deliver whatever that leaves.
MayBeRead ==
    \/ Traces \subseteq mayRead
    \/ /\ Live = {}
       /\ Readable \in mayRead \cup {None}
       /\ call.op = "sum" => call.got = Content(volume.archive)

ReadInv ==
    /\ ~Reading => mayRead = {}
    /\ Reading => MayBeRead
    /\ call.op = "tar" => call.got \in mayRead

SnapInv == SnapshotTypeOK /\ OnlyStored /\ AloneInv /\ ReadInv

AsRegister == Register!registerVars

-----------------------------------------------------------------------------
(* Basic facts. *)

\* Archives are numbers; no archive, an empty one and garbage are none of them.
LEMMA ArchiveNumbers ==
    /\ MaxStores \in Nat /\ Archives \subseteq Nat
    /\ None \notin Archives /\ Empty \notin Archives /\ Garbage \notin Archives
    /\ None = Empty /\ Garbage # Empty
BY StoreAssumption DEF StoreAssumption, Archives, None, Empty, Garbage

\* The call when there is none.
LEMMA NoCallIs ==
    /\ NoCall \in Call /\ NoCall.op = "idle"
<1>1. PICK no \in BOOLEAN : no = FALSE
  OBVIOUS
<1>2. NoCall = [op |-> "idle", n |-> None, got |-> Empty, alone |-> no]
  BY <1>1 DEF NoCall
<1>3. NoCall.op = "idle"
  BY <1>2
<1>4. NoCall \in Call
  BY <1>1, <1>2 DEF Call, Operations
<1>5. QED
  BY <1>3, <1>4

\* What the types say of the call, and of the content of a name.
LEMMA CallFields ==
    ASSUME SnapshotTypeOK
    PROVE  /\ call \in Call /\ call.op \in Operations
           /\ call.n \in Archives \cup {None} /\ call.got \in Archives \cup {Garbage, Empty}
           /\ call.alone \in BOOLEAN
           /\ extracted \in Nat /\ extracted <= MaxStores
BY ArchiveNumbers DEF SnapshotTypeOK, Call

\* What the types say of the volume.
LEMMA VolumeFields ==
    ASSUME SnapshotTypeOK
    PROVE  /\ volume.archive \in Archives \cup {None} /\ volume.archiveTmp \in Archives \cup {None}
           /\ volume.sum \in Archives \cup {None} /\ volume.sumTmp \in Archives \cup {None}
BY DEF SnapshotTypeOK

\* What can be read is left somewhere.
LEMMA ReadableIs ==
    ASSUME SnapshotTypeOK
    PROVE  /\ Readable \in Archives \cup {None}
           /\ Readable # None => Readable \in Traces
<1>1. volume.sum \in Archives \cup {None}
  BY VolumeFields
<1>2. Readable \in {volume.sum, None}
  BY DEF Readable
<1>3. volume.sum \in Archives => volume.sum \in Traces
  BY DEF Traces
<1>4. QED
  BY <1>1, <1>2, <1>3

\* The invariant is true of the beginning, which is the register's.
LEMMA SnapInvInit == SnapshotInit => SnapInv /\ Register!RegisterInit
<1> SUFFICES ASSUME SnapshotInit PROVE SnapInv /\ Register!RegisterInit
  OBVIOUS
<1>1. /\ volume = [archive |-> None, archiveTmp |-> None, sum |-> None, sumTmp |-> None]
      /\ file = [n \in Archives |-> Empty] /\ out = [n \in Archives |-> None]
      /\ script = [n \in Archives |-> "none"] /\ helper = "absent" /\ extracted = 0
      /\ result = [stored |-> None, injected |-> None] /\ mayRead = {} /\ call = NoCall
  BY DEF SnapshotInit
<1>2. SnapshotTypeOK
  BY <1>1, ArchiveNumbers, NoCallIs DEF SnapshotTypeOK
<1>3. Begun = {} /\ Live = {}
  BY <1>1 DEF Begun, Live, AtWork
<1>4. call.op = "idle" /\ ~Reading /\ call.op # "store"
  BY <1>1, NoCallIs DEF Reading
<1>5. OnlyStored
  <2>1. volume.sum = None /\ volume.sumTmp = None
    BY <1>1
  <2>2. \A f \in Archives : file[f] = Empty
    BY <1>1
  <2>3. QED
    BY <1>3, <1>4, <2>1, <2>2 DEF OnlyStored
<1>6. AloneInv /\ ReadInv
  BY <1>1, <1>4 DEF AloneInv, ReadInv
<1>7. Readable = None /\ Traces = {}
  BY <1>1, <1>3, ArchiveNumbers DEF Readable, Traces, Content
<1>8. result.stored = None /\ result.injected = None
  BY <1>1
<1>9. Register!RegisterInit
  BY <1>1, <1>3, <1>4, <1>7, <1>8 DEF Register!RegisterInit
<1>10. QED
  BY <1>2, <1>5, <1>6, <1>9 DEF SnapInv

-----------------------------------------------------------------------------
(* The steps of the shells. *)

\* A step of the shells or of what kills them moves the register on.
LEMMA StorageStep ==
    ASSUME SnapInv, SnapshotTypeOK', OnlyStored', AloneInv',
           UNCHANGED <<extracted, result, mayRead>>,
           call' = call \/ (call.op \in {"rmArchive", "rmSum"} /\ call' = NoCall),
           Live # {} \/ UNCHANGED <<volume, file, script>>,
           Live' \subseteq Live, Traces' \subseteq Traces
    PROVE  SnapInv' /\ (Register!RegisterNext \/ UNCHANGED AsRegister)
<1>0. SnapshotTypeOK /\ ReadInv
  BY DEF SnapInv
<1>1. /\ (call'.op = "store") = (call.op = "store") /\ (Reading' <=> Reading)
      /\ call.op = "store" => call' = call
      /\ Reading => call' = call
      /\ call'.op = "tar" => call' = call
  BY NoCallIs DEF Reading
<1>2. CASE Live # {}
  <2>1. ReadInv'
    <3>1. Reading => Traces \subseteq mayRead
      BY <1>0, <1>2 DEF ReadInv, MayBeRead
    <3>2. QED
      BY <1>0, <1>1, <3>1 DEF ReadInv, MayBeRead
  <2>2. Readable' \in Traces \cup {None}
    <3>1. volume'.sum \in Archives \cup {None}
      BY DEF SnapshotTypeOK
    <3>2. volume'.sum \in Archives => volume'.sum \in Traces'
      BY DEF Traces
    <3>3. Readable' \in {volume'.sum, None}
      BY DEF Readable
    <3>4. QED
      BY <3>1, <3>2, <3>3
  <2>3. Register!Progress
    BY <1>1, <1>2, <2>2 DEF Register!Progress
  <2>4. QED
    BY <2>1, <2>3 DEF SnapInv, Register!RegisterNext
<1>3. CASE UNCHANGED <<volume, file, script>>
  <2>1. Readable' = Readable /\ Traces' = Traces /\ Live' = Live
    BY <1>3 DEF Readable, Traces, Content, Live
  <2>2. ReadInv'
    BY <1>0, <1>1, <1>3, <2>1 DEF ReadInv, MayBeRead, Content
  <2>3. UNCHANGED AsRegister
    BY <1>1, <2>1 DEF AsRegister, Register!registerVars
  <2>4. QED
    BY <2>2, <2>3 DEF SnapInv
<1>4. QED
  BY <1>2, <1>3

\* A shell at work goes one step further, or ends.
LEMMA ScriptMoves ==
    ASSUME SnapshotTypeOK, NEW n \in Archives, script[n] \in AtWork,
           NEW s \in AtWork \cup {"done", "failed"}, script' = [script EXCEPT ![n] = s]
    PROVE  /\ script' \in [Archives -> AtWork \cup {"none", "done", "failed"}]
           /\ script'[n] = s /\ \A m \in Archives : m # n => script'[m] = script[m]
           /\ n \in Live /\ n \in Begun /\ Begun' = Begun
           /\ Live' \subseteq Live
<1>1. /\ script' \in [Archives -> AtWork \cup {"none", "done", "failed"}]
      /\ script'[n] = s /\ \A m \in Archives : m # n => script'[m] = script[m]
  BY DEF SnapshotTypeOK
<1>2. s # "none" /\ script[n] # "none"
  BY DEF AtWork
<1>3. \A m \in Archives : m \in Begun' <=> m \in Begun
  BY <1>1, <1>2 DEF Begun
<1>4. Begun' = Begun
  BY <1>3 DEF Begun
<1>5. Live' \subseteq Live /\ n \in Live /\ n \in Begun
  BY <1>1, <1>2 DEF Live, Begun
<1>6. QED
  BY <1>1, <1>4, <1>5

\* While a store that has met no other waits, the shell at work is its own.
LEMMA AloneIsMe ==
    ASSUME SnapInv, call.op = "store", call.alone, NEW n \in Live
    PROVE  n = call.n /\ Live \subseteq {n} /\ AloneAt(n)
<1>1. call.n \in Archives
  BY DEF SnapInv, OnlyStored, Begun
<1>2. AloneAt(call.n)
  BY <1>1 DEF SnapInv, AloneInv
<1>3. n = call.n
  BY <1>2 DEF AloneAt
<1>4. QED
  BY <1>2, <1>3 DEF AloneAt

\* The helper dies: every shell with it.
LEMMA HelperDiesStep == SnapInv /\ HelperDies => SnapInv' /\ (Register!RegisterNext \/ UNCHANGED AsRegister)
<1> SUFFICES ASSUME SnapInv, HelperDies PROVE SnapInv' /\ (Register!RegisterNext \/ UNCHANGED AsRegister)
  OBVIOUS
<1>0. /\ SnapshotTypeOK /\ OnlyStored /\ AloneInv
      /\ helper' \in {"running", "failed"}
      /\ script' = [n \in Archives |-> IF n \in Live THEN "failed" ELSE script[n]]
      /\ call' = call \/ (call.op \in {"rmArchive", "rmSum"} /\ call' = NoCall)
      /\ UNCHANGED <<volume, file, out, extracted, result, mayRead>>
  BY DEF SnapInv, HelperDies
<1>1. \A n \in Archives : /\ n \in Live => script'[n] = "failed" /\ script[n] # "none"
                          /\ n \notin Live => script'[n] = script[n]
  BY <1>0 DEF Live, AtWork
<1>2. script' \in [Archives -> AtWork \cup {"none", "done", "failed"}]
  BY <1>0 DEF SnapshotTypeOK
<1>3. SnapshotTypeOK'
  BY <1>0, <1>2, NoCallIs DEF SnapshotTypeOK
<1>4. Begun' = Begun /\ Live' = {}
  BY <1>1 DEF Begun, Live, AtWork
<1>5. Live = {} => script' = script
  BY <1>0, <1>1, <1>2 DEF SnapshotTypeOK
<1>6. Traces' \subseteq Traces
  BY <1>0, <1>4 DEF Traces, Content
<1>7. call'.op \in {"exec", "store"} => call' = call
  BY <1>0, NoCallIs
<1>8. OnlyStored'
  BY <1>0, <1>4, <1>7 DEF OnlyStored
<1>9. AloneInv'
  <2>1. ASSUME NEW n \in Archives, call'.op = "store", call'.alone, call'.n = n
        PROVE  AloneAt(n)'
    <3>1. call.op = "store" /\ call.alone /\ call.n = n
      BY <1>0, <1>7, <2>1
    <3>2. AloneAt(n)
      BY <1>0, <3>1 DEF AloneInv
    <3>3. script'[n] = "failed" \/ (script'[n] = script[n] /\ script[n] \notin AtWork)
      BY <1>1 DEF Live
    <3>4. QED
      BY <1>0, <1>4, <3>2, <3>3 DEF AloneAt, AtWork
  <2>2. QED
    BY <2>1 DEF AloneInv
<1>10. QED
  BY <1>0, <1>3, <1>4, <1>5, <1>6, <1>8, <1>9, StorageStep

\* A store that has met no other is where it should be after each of its steps.
LEMMA AloneMoves ==
    ASSUME SnapInv, NEW n \in Live, call' = call,
           call.op = "store" /\ call.alone /\ call.n = n /\ AloneAt(n) => AloneAt(n)'
    PROVE  AloneInv'
<1>1. ASSUME NEW m \in Archives, call'.op = "store", call'.alone, call'.n = m PROVE AloneAt(m)'
  <2>1. call.op = "store" /\ call.alone /\ call.n = m
    BY <1>1
  <2>2. n = call.n /\ AloneAt(n)
    BY <2>1, AloneIsMe
  <2>3. n = m
    BY <2>1, <2>2
  <2>4. QED
    BY <2>1, <2>2, <2>3
<1>2. QED
  BY <1>1 DEF AloneInv

\* The contents of the archive and of the one in the making.
ArchiveIs == Content(volume.archive)
TmpIs     == Content(volume.archiveTmp)

\* Where a content comes from when the volume and the files change.
LEMMA TracesOf ==
    ASSUME SnapshotTypeOK, Live' \subseteq Live,
           volume'.sum \in Archives => volume'.sum \in Traces,
           volume'.sumTmp \in Archives => volume'.sumTmp \in Traces,
           ArchiveIs' \in Archives => ArchiveIs' \in Traces,
           TmpIs' \in Archives => TmpIs' \in Traces
    PROVE  Traces' \subseteq Traces
<1>1. ASSUME NEW t \in Traces' PROVE t \in Traces
  <2>1. t \in Archives
    BY DEF Traces
  <2>2. \/ t \in Live' \/ t = volume'.sum \/ t = volume'.sumTmp
        \/ t = ArchiveIs' \/ t = TmpIs'
    BY DEF Traces, ArchiveIs, TmpIs
  <2>3. t \in Live' => t \in Traces
    BY <2>1 DEF Traces
  <2>4. QED
    BY <2>1, <2>2, <2>3
<1>2. QED
  BY <1>1

\* `cat` opens the temporary file: its content goes.
LEMMA OpenTmpStep ==
    ASSUME SnapInv, NEW n \in Archives, OpenTmp(n)
    PROVE  SnapInv' /\ (Register!RegisterNext \/ UNCHANGED AsRegister)
<1>0. /\ SnapshotTypeOK /\ OnlyStored /\ script[n] \in AtWork
      /\ script' = [script EXCEPT ![n] = "cat"] /\ "cat" \in AtWork
      /\ UNCHANGED <<helper, call, extracted, result, mayRead>>
  BY DEF SnapInv, OpenTmp, AtWork
<1>1. PICK f \in Archives :
        /\ out' = [out EXCEPT ![n] = f] /\ volume' = [volume EXCEPT !.archiveTmp = f]
        /\ file' = [file EXCEPT ![f] = Empty]
  <2>1. (IF volume.archiveTmp = None THEN n ELSE volume.archiveTmp) \in Archives
    BY <1>0, VolumeFields
  <2>2. QED
    BY <2>1 DEF OpenTmp
<1>2. /\ script' \in [Archives -> AtWork \cup {"none", "done", "failed"}]
      /\ script'[n] = "cat" /\ n \in Live /\ n \in Begun /\ Begun' = Begun /\ Live' \subseteq Live
  BY <1>0, ScriptMoves
<1>3. /\ volume'.archive = volume.archive /\ volume'.archiveTmp = f
      /\ volume'.sum = volume.sum /\ volume'.sumTmp = volume.sumTmp
      /\ file'[f] = Empty /\ \A g \in Archives : g # f => file'[g] = file[g]
      /\ out'[n] = f
  BY <1>0, <1>1 DEF SnapshotTypeOK
<1>4. SnapshotTypeOK'
  BY <1>0, <1>1, <1>2 DEF SnapshotTypeOK
<1>5. OnlyStored'
  BY <1>0, <1>2, <1>3 DEF OnlyStored
<1>6. AloneInv'
  <2>1. AloneAt(n) => AloneAt(n)'
    BY <1>1, <1>2, <1>3 DEF AloneAt
  <2>2. QED
    BY <1>0, <1>2, <2>1, AloneMoves
<1>7. Traces' \subseteq Traces
  <2>1. ArchiveIs' = ArchiveIs \/ ArchiveIs' = Empty
    BY <1>0, <1>3, VolumeFields DEF ArchiveIs, Content
  <2>2. TmpIs' = Empty
    BY <1>3, ArchiveNumbers DEF TmpIs, Content
  <2>3. QED
    BY <1>0, <1>2, <1>3, <2>1, <2>2, ArchiveNumbers, TracesOf DEF Traces, ArchiveIs
<1>8. QED
  BY <1>0, <1>2, <1>4, <1>5, <1>6, <1>7, StorageStep

\* `cat` is through: what it writes is its own archive, if not garbage.
LEMMA CatStep ==
    ASSUME SnapInv, NEW n \in Archives, CatWhole(n) \/ CatCut(n)
    PROVE  SnapInv' /\ (Register!RegisterNext \/ UNCHANGED AsRegister)
<1>0. /\ SnapshotTypeOK /\ OnlyStored /\ script[n] \in AtWork /\ script[n] = "cat"
      /\ script' = [script EXCEPT ![n] = "sum"] /\ "sum" \in AtWork
      /\ UNCHANGED <<volume, out, helper, call, extracted, result, mayRead>>
  BY DEF SnapInv, CatWhole, CatCut, AtWork
<1>1. /\ script' \in [Archives -> AtWork \cup {"none", "done", "failed"}]
      /\ script'[n] = "sum" /\ n \in Live /\ n \in Begun /\ Begun' = Begun /\ Live' \subseteq Live
  BY <1>0, ScriptMoves
<1>2. PICK c : /\ file' = [file EXCEPT ![out[n]] = c]
               /\ c \in {n, Garbage, file[out[n]]}
               /\ AloneAt(n) /\ call.op = "store" /\ call.n = n => c = n
  <2>1. CASE CatCut(n)
    BY <2>1 DEF CatCut
  <2>2. CASE CatWhole(n)
    <3>1. PICK c \in {n} \cup IF Shared(n) \/ file[out[n]] # Empty THEN {Garbage} ELSE {} :
            file' = [file EXCEPT ![out[n]] = c]
      BY <2>2 DEF CatWhole
    <3>2. AloneAt(n) => ~Shared(n) /\ file[out[n]] = Empty
      BY <1>0 DEF AloneAt, Shared, Live, AtWork
    <3>3. c \in {n, Garbage}
      BY <3>1
    <3>4. AloneAt(n) => c = n
      BY <3>1, <3>2
    <3>5. QED
      BY <3>1, <3>3, <3>4
  <2>3. QED
    BY <2>1, <2>2
<1>3. \A g \in Archives : file'[g] = file[g] \/ file'[g] = n \/ file'[g] = Garbage
  BY <1>0, <1>2 DEF SnapshotTypeOK
<1>4. SnapshotTypeOK'
  <2>1. file' \in [Archives -> Archives \cup {Garbage, Empty}]
    BY <1>0, <1>2, <1>3 DEF SnapshotTypeOK
  <2>2. QED
    BY <1>0, <1>1, <2>1 DEF SnapshotTypeOK
<1>5. OnlyStored'
  BY <1>0, <1>1, <1>3 DEF OnlyStored
<1>6. AloneInv'
  <2>1. ASSUME call.op = "store", call.n = n, AloneAt(n) PROVE AloneAt(n)'
    <3>1. c = n /\ out[n] \in Archives /\ out[n] = volume.archiveTmp
      BY <1>0, <1>2, <2>1 DEF AloneAt
    <3>2. file'[volume.archiveTmp] = n
      BY <1>0, <1>2, <3>1 DEF SnapshotTypeOK
    <3>3. QED
      BY <1>0, <1>1, <2>1, <3>1, <3>2 DEF AloneAt
  <2>2. QED
    BY <1>0, <1>1, <2>1, AloneMoves
<1>7. Traces' \subseteq Traces
  <2>1. ArchiveIs' \in {ArchiveIs, n, Garbage} /\ TmpIs' \in {TmpIs, n, Garbage}
    BY <1>0, <1>3, VolumeFields DEF ArchiveIs, TmpIs, Content
  <2>2. n \in Traces
    BY <1>1 DEF Traces
  <2>3. QED
    BY <1>0, <1>1, <2>1, <2>2, ArchiveNumbers, TracesOf DEF Traces, ArchiveIs, TmpIs
<1>8. QED
  BY <1>0, <1>1, <1>4, <1>5, <1>6, <1>7, StorageStep

\* The checksum of the archive goes to its temporary file.
LEMMA PrintSumStep ==
    ASSUME SnapInv, NEW n \in Archives, PrintSum(n)
    PROVE  SnapInv' /\ (Register!RegisterNext \/ UNCHANGED AsRegister)
<1>0. /\ SnapshotTypeOK /\ OnlyStored /\ script[n] \in AtWork /\ script[n] = "sum"
      /\ script' = [script EXCEPT ![n] = "mvArchive"] /\ "mvArchive" \in AtWork
      /\ volume' = [volume EXCEPT !.sumTmp = n]
      /\ UNCHANGED <<file, out, helper, call, extracted, result, mayRead>>
  BY DEF SnapInv, PrintSum, AtWork
<1>1. /\ script' \in [Archives -> AtWork \cup {"none", "done", "failed"}]
      /\ script'[n] = "mvArchive" /\ n \in Live /\ n \in Begun /\ Begun' = Begun
      /\ Live' \subseteq Live
  BY <1>0, ScriptMoves
<1>2. /\ volume'.archive = volume.archive /\ volume'.archiveTmp = volume.archiveTmp
      /\ volume'.sum = volume.sum /\ volume'.sumTmp = n
  BY <1>0 DEF SnapshotTypeOK
<1>3. SnapshotTypeOK'
  BY <1>0, <1>1 DEF SnapshotTypeOK
<1>4. OnlyStored'
  BY <1>0, <1>1, <1>2 DEF OnlyStored
<1>5. AloneInv'
  <2>1. AloneAt(n) => AloneAt(n)'
    BY <1>0, <1>1, <1>2 DEF AloneAt
  <2>2. QED
    BY <1>0, <1>1, <2>1, AloneMoves
<1>6. Traces' \subseteq Traces
  <2>1. ArchiveIs' = ArchiveIs /\ TmpIs' = TmpIs /\ n \in Traces
    BY <1>0, <1>1, <1>2 DEF ArchiveIs, TmpIs, Content, Traces
  <2>2. QED
    BY <1>0, <1>1, <1>2, <2>1, TracesOf DEF Traces, ArchiveIs, TmpIs
<1>7. QED
  BY <1>0, <1>1, <1>3, <1>4, <1>5, <1>6, StorageStep

\* The archive takes its name.
LEMMA MoveArchiveStep ==
    ASSUME SnapInv, NEW n \in Archives, MoveArchive(n)
    PROVE  SnapInv' /\ (Register!RegisterNext \/ UNCHANGED AsRegister)
<1>0. /\ SnapshotTypeOK /\ OnlyStored /\ script[n] \in AtWork /\ script[n] = "mvArchive"
      /\ UNCHANGED <<file, out, helper, call, extracted, result, mayRead>>
  BY DEF SnapInv, MoveArchive, AtWork
<1>1. PICK s \in {"failed", "mvSum"} :
        /\ script' = [script EXCEPT ![n] = s]
        /\ s = "failed" => volume' = volume
        /\ s = "mvSum" => /\ volume.archiveTmp # None
                          /\ volume' = [volume EXCEPT !.archive = volume.archiveTmp, !.archiveTmp = None]
  BY DEF MoveArchive
<1>2. s \in AtWork \cup {"done", "failed"}
  BY DEF AtWork
<1>3. /\ script' \in [Archives -> AtWork \cup {"none", "done", "failed"}]
      /\ script'[n] = s /\ n \in Live /\ n \in Begun /\ Begun' = Begun /\ Live' \subseteq Live
  BY <1>0, <1>1, <1>2, ScriptMoves
<1>4. /\ s = "mvSum" => volume'.archive = volume.archiveTmp /\ volume'.archiveTmp = None
      /\ volume'.sum = volume.sum /\ volume'.sumTmp = volume.sumTmp
  BY <1>0, <1>1 DEF SnapshotTypeOK
<1>5. SnapshotTypeOK'
  <2>1. volume' \in [archive: Archives \cup {None}, archiveTmp: Archives \cup {None},
                     sum: Archives \cup {None}, sumTmp: Archives \cup {None}]
    BY <1>0, <1>1 DEF SnapshotTypeOK
  <2>2. QED
    BY <1>0, <1>3, <2>1 DEF SnapshotTypeOK
<1>6. OnlyStored'
  BY <1>0, <1>3, <1>4 DEF OnlyStored
<1>7. AloneInv'
  <2>1. AloneAt(n) => AloneAt(n)'
    <3>1. CASE s = "failed"
      BY <1>0, <1>3, <3>1 DEF AloneAt
    <3>2. CASE s = "mvSum"
      BY <1>0, <1>3, <1>4, <3>2 DEF AloneAt
    <3>3. QED
      BY <3>1, <3>2
  <2>2. QED
    BY <1>0, <1>3, <2>1, AloneMoves
<1>8. Traces' \subseteq Traces
  <2>1. \/ ArchiveIs' = ArchiveIs /\ TmpIs' = TmpIs
        \/ ArchiveIs' = TmpIs /\ TmpIs' = Empty
    <3>1. CASE s = "failed"
      BY <1>0, <1>1, <3>1 DEF ArchiveIs, TmpIs, Content
    <3>2. CASE s = "mvSum"
      BY <1>0, <1>4, <3>2 DEF ArchiveIs, TmpIs, Content
    <3>3. QED
      BY <3>1, <3>2
  <2>2. QED
    BY <1>0, <1>3, <1>4, <2>1, ArchiveNumbers, TracesOf DEF Traces, ArchiveIs, TmpIs
<1>9. QED
  BY <1>0, <1>3, <1>5, <1>6, <1>7, <1>8, StorageStep

\* The checksum takes its name: from now on the archive can be read.
LEMMA MoveSumStep ==
    ASSUME SnapInv, NEW n \in Archives, MoveSum(n)
    PROVE  SnapInv' /\ (Register!RegisterNext \/ UNCHANGED AsRegister)
<1>0. /\ SnapshotTypeOK /\ OnlyStored /\ script[n] \in AtWork /\ script[n] = "mvSum"
      /\ UNCHANGED <<file, out, helper, call, extracted, result, mayRead>>
  BY DEF SnapInv, MoveSum, AtWork
<1>1. PICK s \in {"failed", "done"} :
        /\ script' = [script EXCEPT ![n] = s]
        /\ s = "failed" => volume' = volume
        /\ s = "done" => volume' = [volume EXCEPT !.sum = volume.sumTmp, !.sumTmp = None]
  BY DEF MoveSum
<1>2. /\ script' \in [Archives -> AtWork \cup {"none", "done", "failed"}]
      /\ script'[n] = s /\ n \in Live /\ n \in Begun /\ Begun' = Begun /\ Live' \subseteq Live
  BY <1>0, <1>1, ScriptMoves
<1>3. /\ volume'.archive = volume.archive /\ volume'.archiveTmp = volume.archiveTmp
      /\ s = "failed" => volume'.sum = volume.sum /\ volume'.sumTmp = volume.sumTmp
      /\ s = "done" => volume'.sum = volume.sumTmp /\ volume'.sumTmp = None
  BY <1>0, <1>1 DEF SnapshotTypeOK
<1>4. SnapshotTypeOK'
  <2>1. volume' \in [archive: Archives \cup {None}, archiveTmp: Archives \cup {None},
                     sum: Archives \cup {None}, sumTmp: Archives \cup {None}]
    BY <1>0, <1>1 DEF SnapshotTypeOK
  <2>2. QED
    BY <1>0, <1>2, <2>1 DEF SnapshotTypeOK
<1>5. OnlyStored'
  BY <1>0, <1>1, <1>2, <1>3 DEF OnlyStored
<1>6. AloneInv'
  <2>1. AloneAt(n) => AloneAt(n)'
    <3>1. CASE s = "failed"
      BY <1>0, <1>2, <3>1 DEF AloneAt
    <3>2. CASE s = "done"
      BY <1>0, <1>2, <1>3, <3>2 DEF AloneAt
    <3>3. QED
      BY <1>1, <3>1, <3>2
  <2>2. QED
    BY <1>0, <1>2, <2>1, AloneMoves
<1>7. Traces' \subseteq Traces
  <2>1. ArchiveIs' = ArchiveIs /\ TmpIs' = TmpIs
    BY <1>0, <1>3 DEF ArchiveIs, TmpIs, Content
  <2>2. /\ volume'.sum \in {volume.sum, volume.sumTmp}
        /\ volume'.sumTmp \in {volume.sumTmp, None}
    BY <1>1, <1>3
  <2>3. QED
    BY <1>0, <1>2, <2>1, <2>2, ArchiveNumbers, TracesOf DEF Traces, ArchiveIs, TmpIs
<1>8. QED
  BY <1>0, <1>2, <1>4, <1>5, <1>6, <1>7, StorageStep

-----------------------------------------------------------------------------
(* The steps of the operator. *)

\* A step of the operator leaves the volume and the shells alone.
LEMMA SameStorage ==
    ASSUME UNCHANGED <<volume, file, out, script>>
    PROVE  /\ Readable' = Readable /\ Traces' = Traces /\ Live' = Live /\ Begun' = Begun
           /\ \A n \in Archives : AloneAt(n)' <=> AloneAt(n)
<1>1. Readable' = Readable /\ Traces' = Traces /\ Live' = Live /\ Begun' = Begun
  BY DEF Readable, Traces, Live, Begun, Content
<1>2. \A n \in Archives : AloneAt(n)' <=> AloneAt(n)
  BY <1>1 DEF AloneAt
<1>3. QED
  BY <1>1, <1>2

\* The helper Pod is looked for before each exec.
LEMMA EnsureHelperKeepsType ==
    ASSUME SnapshotTypeOK, EnsureHelper
    PROVE  helper' \in {"absent", "pending", "running", "failed"}
BY DEF SnapshotTypeOK, EnsureHelper

\* The call ends, with or without a result.
LEMMA CallEnds ==
    ASSUME SnapInv, call' = NoCall, UNCHANGED <<volume, file, out, script, extracted>>,
           helper' \in {"absent", "pending", "running", "failed"}, mayRead' = {},
           result' \in [stored: Archives \cup {None}, injected: Archives \cup {None}]
    PROVE  SnapInv'
<1>1. SnapshotTypeOK'
  BY NoCallIs DEF SnapInv, SnapshotTypeOK
<1>2. Begun' = Begun
  BY SameStorage
<1>3. OnlyStored'
  BY <1>2, NoCallIs DEF SnapInv, OnlyStored
<1>4. AloneInv' /\ ReadInv'
  BY NoCallIs DEF AloneInv, ReadInv, Reading
<1>5. QED
  BY <1>1, <1>3, <1>4 DEF SnapInv

\* A call goes on, and the register sees nothing of it.
LEMMA CallGoesOn ==
    ASSUME SnapInv, call' \in Call, UNCHANGED <<volume, file, out, script, result>>,
           extracted' \in 0..MaxStores, helper' \in {"absent", "pending", "running", "failed"},
           mayRead' = mayRead, call.op # "store", call'.op # "store",
           OnlyStored', ReadInv'
    PROVE  SnapInv' /\ UNCHANGED AsRegister
<1>1. SnapshotTypeOK'
  BY DEF SnapInv, SnapshotTypeOK
<1>2. AloneInv'
  BY DEF AloneInv
<1>3. UNCHANGED AsRegister
  BY SameStorage DEF AsRegister, Register!registerVars
<1>4. QED
  BY <1>1, <1>2, <1>3 DEF SnapInv

\* A call that goes to an operation with nothing in hand.
LEMMA CallAt ==
    ASSUME NEW op \in Operations, NEW n \in Archives \cup {None}
    PROVE  /\ [NoCall EXCEPT !.op = op, !.n = n] \in Call
           /\ [NoCall EXCEPT !.op = op, !.n = n].op = op /\ [NoCall EXCEPT !.op = op, !.n = n].n = n
           /\ [NoCall EXCEPT !.op = op] \in Call /\ [NoCall EXCEPT !.op = op].op = op
BY NoCallIs DEF Call

\* An overlay is extracted.
LEMMA ExtractStep ==
    SnapInv /\ ExtractAndStore => SnapInv' /\ (Register!RegisterNext \/ UNCHANGED AsRegister)
<1> SUFFICES ASSUME SnapInv, ExtractAndStore PROVE SnapInv' /\ UNCHANGED AsRegister
  OBVIOUS
<1>0. /\ SnapshotTypeOK /\ OnlyStored /\ ReadInv /\ call.op = "idle" /\ extracted < MaxStores
      /\ extracted' = extracted + 1 /\ UNCHANGED <<volume, file, out, script, result, mayRead>>
      /\ call' = [NoCall EXCEPT !.op = "exec", !.n = extracted + 1] /\ EnsureHelper
  BY DEF SnapInv, ExtractAndStore, storageVars
<1>1. extracted \in Nat /\ extracted + 1 \in 0..MaxStores /\ extracted + 1 \in Archives
  BY <1>0, CallFields, ArchiveNumbers DEF Archives
<1>2. call' \in Call /\ call'.op = "exec" /\ call'.n = extracted + 1
  <2>1. PICK n \in Archives : n = extracted + 1
    BY <1>1
  <2>2. "exec" \in Operations
    BY DEF Operations
  <2>3. call' = [NoCall EXCEPT !.op = "exec", !.n = n]
    BY <1>0, <2>1
  <2>4. call' \in Call /\ call'.op = "exec" /\ call'.n = n
    BY <2>2, <2>3, CallAt
  <2>5. QED
    BY <2>1, <2>4
<1>3. Begun' = Begun
  BY <1>0 DEF Begun
<1>4. extracted + 1 \notin Begun
  <2>1. extracted + 1 \in Begun => extracted + 1 <= extracted
    BY <1>0 DEF OnlyStored
  <2>2. QED
    BY <1>1, <2>1
<1>5. OnlyStored'
  <2>1. \A n \in Begun : n <= extracted + 1
    BY <1>0, <1>1, ArchiveNumbers DEF OnlyStored, Begun
  <2>2. QED
    BY <1>0, <1>1, <1>2, <1>3, <1>4, <2>1 DEF OnlyStored
<1>6. ReadInv'
  BY <1>0, <1>2 DEF ReadInv, Reading
<1>7. QED
  BY <1>0, <1>1, <1>2, <1>5, <1>6, EnsureHelperKeepsType, CallGoesOn

\* The shell is started, as a write of the register; or there is no helper.
LEMMA ExecStep ==
    SnapInv /\ ExecScript => SnapInv' /\ (Register!RegisterNext \/ UNCHANGED AsRegister)
<1> SUFFICES ASSUME SnapInv, ExecScript PROVE SnapInv' /\ (Register!RegisterNext \/ UNCHANGED AsRegister)
  OBVIOUS
<1>0. /\ SnapshotTypeOK /\ OnlyStored /\ ReadInv /\ call.op = "exec" /\ mayRead = {}
      /\ UNCHANGED <<volume, file, out, helper, extracted, result, mayRead>>
      /\ call.n \in Archives /\ call.n \notin Begun /\ call.n = extracted
  BY DEF SnapInv, ExecScript, OnlyStored, ReadInv, Reading
<1>1. CASE helper # "running"
  <2>1. call' = NoCall /\ script' = script
    BY <1>1 DEF ExecScript, Ends
  <2>2. SnapInv'
    BY <1>0, <2>1, CallEnds DEF SnapshotTypeOK
  <2>3. UNCHANGED AsRegister
    BY <1>0, <2>1, SameStorage, NoCallIs DEF AsRegister, Register!registerVars
  <2>4. QED
    BY <2>2, <2>3
<1>2. CASE helper = "running"
  <2>1. PICK n \in Archives : n = call.n
    BY <1>0
  <2>2. PICK alone \in BOOLEAN : alone = (Live = {})
    OBVIOUS
  <2>3. script' = [script EXCEPT ![n] = "open"] /\ call' = [call EXCEPT !.op = "store", !.alone = alone]
    BY <1>2, <2>1, <2>2 DEF ExecScript
  <2>4. call' \in Call /\ call'.op = "store" /\ call'.n = n /\ call'.alone = alone
    BY <1>0, <2>1, <2>3, CallFields DEF Call, Operations
  <2>5. /\ script' \in [Archives -> AtWork \cup {"none", "done", "failed"}]
        /\ script'[n] = "open" /\ \A m \in Archives : m # n => script'[m] = script[m]
    BY <1>0, <2>3 DEF SnapshotTypeOK, AtWork
  <2>6. Begun' = Begun \cup {n} /\ Live' = Live \cup {n}
    <3>1. \A m \in Archives : m \in Begun' <=> m \in Begun \/ m = n
      BY <2>5 DEF Begun
    <3>2. \A m \in Archives : m \in Live' <=> m \in Live \/ m = n
      BY <2>5 DEF Live, AtWork
    <3>3. Begun' = Begun \cup {n}
      BY <3>1 DEF Begun
    <3>4. Live' = Live \cup {n}
      BY <3>2 DEF Live
    <3>5. QED
      BY <3>3, <3>4
  <2>7. SnapshotTypeOK'
    BY <1>0, <2>4, <2>5 DEF SnapshotTypeOK
  <2>8. OnlyStored'
    <3>1. extracted \in Nat /\ n <= extracted
      BY <1>0, <2>1, CallFields
    <3>2. \A m \in Begun' : m <= extracted
      BY <1>0, <2>6, <3>1 DEF OnlyStored
    <3>3. QED
      BY <1>0, <2>4, <2>6, <3>2 DEF OnlyStored
  <2>9. AloneInv'
    <3>1. ASSUME NEW m \in Archives, call'.op = "store", call'.alone, call'.n = m PROVE AloneAt(m)'
      <4>1. m = n /\ Live' = {n}
        BY <2>2, <2>4, <2>6, <3>1
      <4>2. QED
        BY <2>5, <4>1 DEF AloneAt
    <3>2. QED
      BY <3>1 DEF AloneInv
  <2>10. ReadInv'
    BY <1>0, <2>4 DEF ReadInv, Reading
  <2>11. Readable' = Readable
    BY <1>0 DEF Readable, Content
  <2>12. n \notin Traces /\ n \notin Live /\ Traces' = Traces \cup {n}
    <3>1. n \notin Live
      BY <1>0, <2>1 DEF Begun, Live, AtWork
    <3>2. /\ volume.sum # n /\ volume.sumTmp # n /\ \A f \in Archives : file[f] # n
      BY <1>0, <2>1, ArchiveNumbers DEF OnlyStored
    <3>3. ArchiveIs # n /\ TmpIs # n
      BY <1>0, <3>2, VolumeFields, ArchiveNumbers DEF ArchiveIs, TmpIs, Content
    <3>4. n \notin Traces
      BY <3>1, <3>2, <3>3 DEF Traces, ArchiveIs, TmpIs
    <3>5. ArchiveIs' = ArchiveIs /\ TmpIs' = TmpIs
      BY <1>0 DEF ArchiveIs, TmpIs, Content
    <3>6. Traces' = Traces \cup {n}
      BY <1>0, <2>6, <3>5 DEF Traces, ArchiveIs, TmpIs
    <3>7. QED
      BY <3>1, <3>4, <3>6
  <2>13. Register!BeginWrite(n)
    BY <1>0, <2>2, <2>4, <2>6, <2>11, <2>12 DEF Register!BeginWrite
  <2>14. QED
    BY <2>7, <2>8, <2>9, <2>10, <2>13 DEF SnapInv, Register!RegisterNext
<1>3. QED
  BY <1>1, <1>2

\* The helper Pod starts: nobody sees it.
LEMMA HelperStartsStep == SnapInv /\ HelperStarts => SnapInv' /\ UNCHANGED AsRegister
<1> SUFFICES ASSUME SnapInv, HelperStarts PROVE SnapInv' /\ UNCHANGED AsRegister
  OBVIOUS
<1>0. /\ SnapshotTypeOK /\ OnlyStored /\ AloneInv /\ ReadInv /\ helper' = "running"
      /\ UNCHANGED <<volume, file, out, script, call, extracted, result, mayRead>>
  BY DEF SnapInv, HelperStarts, storageVars
<1>1. SnapshotTypeOK'
  BY <1>0 DEF SnapshotTypeOK
<1>2. /\ Readable' = Readable /\ Traces' = Traces /\ Live' = Live /\ Begun' = Begun
      /\ \A n \in Archives : AloneAt(n)' <=> AloneAt(n)
  BY <1>0, SameStorage
<1>3. OnlyStored'
  BY <1>0, <1>2 DEF OnlyStored
<1>4. AloneInv'
  BY <1>0, <1>2 DEF AloneInv
<1>5. ReadInv'
  BY <1>0, <1>2 DEF ReadInv, Reading, MayBeRead, Content
<1>6. UNCHANGED AsRegister
  BY <1>0, <1>2 DEF AsRegister, Register!registerVars
<1>7. QED
  BY <1>1, <1>3, <1>4, <1>5, <1>6 DEF SnapInv

\* A call other than a store ends with nothing delivered.
LEMMA OthersEnd ==
    ASSUME SnapInv, call.op # "store", call' = NoCall, mayRead' = {},
           UNCHANGED <<volume, file, out, script, extracted, result>>,
           helper' \in {"absent", "pending", "running", "failed"}
    PROVE  SnapInv' /\ Register!RegisterNext
<1>1. SnapInv'
  BY CallEnds DEF SnapInv, SnapshotTypeOK
<1>2. Register!EndRead
  BY SameStorage, NoCallIs DEF Register!EndRead
<1>3. QED
  BY <1>1, <1>2 DEF Register!RegisterNext

\* A store ends without success, or nobody waits for it any longer.
LEMMA StoreEnds ==
    ASSUME SnapInv, call.op = "store", call' = NoCall, mayRead' = {},
           UNCHANGED <<volume, file, out, script, helper, extracted, result>>
    PROVE  SnapInv' /\ Register!RegisterNext
<1>1. SnapInv' /\ mayRead = {}
  BY CallEnds DEF SnapInv, SnapshotTypeOK, ReadInv, Reading
<1>2. call.n # None
  BY ArchiveNumbers DEF SnapInv, OnlyStored, Begun
<1>3. Register!BreakOff
  BY <1>1, <1>2, SameStorage, NoCallIs DEF Register!BreakOff
<1>4. QED
  BY <1>1, <1>3 DEF Register!RegisterNext

\* A store succeeds: one that has met no other has left its archive readable.
LEMMA StoreSucceedsStep == SnapInv /\ StoreSucceeds => SnapInv' /\ Register!RegisterNext
<1> SUFFICES ASSUME SnapInv, StoreSucceeds PROVE SnapInv' /\ Register!RegisterNext
  OBVIOUS
<1>0. /\ SnapshotTypeOK /\ OnlyStored /\ AloneInv /\ call.op = "store" /\ script[call.n] = "done"
      /\ call' = NoCall /\ result' = [result EXCEPT !.stored = call.n] /\ mayRead = {}
      /\ UNCHANGED <<volume, file, out, script, helper, extracted, mayRead>>
  BY DEF SnapInv, StoreSucceeds, Ends, storageVars, ReadInv, Reading
<1>1. call.n \in Archives /\ call.n # None /\ call.n \notin Live
  BY <1>0, ArchiveNumbers DEF OnlyStored, Begun, Live, AtWork
<1>2. /\ result' \in [stored: Archives \cup {None}, injected: Archives \cup {None}]
      /\ result'.stored = call.n /\ result'.injected = result.injected
  BY <1>0, <1>1 DEF SnapshotTypeOK
<1>3. SnapInv'
  BY <1>0, <1>2, CallEnds DEF SnapshotTypeOK
<1>4. call.alone => Readable = call.n
  <2>1. call.alone => AloneAt(call.n)
    BY <1>0, <1>1 DEF AloneInv
  <2>2. AloneAt(call.n) => volume.sum = call.n /\ volume.archive \in Archives /\ file[volume.archive] = call.n
    BY <1>0 DEF AloneAt
  <2>3. QED
    BY <2>1, <2>2, ArchiveNumbers DEF Readable, Content
<1>5. Register!Acknowledge
  BY <1>0, <1>1, <1>2, <1>4, SameStorage, NoCallIs DEF Register!Acknowledge
<1>6. QED
  BY <1>3, <1>5 DEF Register!RegisterNext

\* A store fails.
LEMMA StoreFailsStep == SnapInv /\ StoreFails => SnapInv' /\ Register!RegisterNext
<1> SUFFICES ASSUME SnapInv, StoreFails PROVE SnapInv' /\ Register!RegisterNext
  OBVIOUS
<1>1. /\ call.op = "store" /\ call' = NoCall /\ mayRead' = mayRead
      /\ UNCHANGED <<volume, file, out, script, helper, extracted, result>>
  BY DEF StoreFails, Ends, storageVars
<1>2. mayRead' = {}
  BY <1>1 DEF SnapInv, ReadInv, Reading
<1>3. QED
  BY <1>1, <1>2, StoreEnds

\* The operator goes away.
LEMMA BrokenOffStep == SnapInv /\ BrokenOff => SnapInv' /\ Register!RegisterNext
<1> SUFFICES ASSUME SnapInv, BrokenOff PROVE SnapInv' /\ Register!RegisterNext
  OBVIOUS
<1>1. /\ call' = NoCall /\ mayRead' = {}
      /\ UNCHANGED <<volume, file, out, script, helper, extracted, result>>
      /\ helper' \in {"absent", "pending", "running", "failed"}
  BY DEF BrokenOff, Ends, storageVars, SnapInv, SnapshotTypeOK
<1>2. QED
  BY <1>1, StoreEnds, OthersEnd

-----------------------------------------------------------------------------
(* Reading. *)

\* HasSnapshot begins a read of the register, or finds nothing to read.
LEMMA HasSnapshotStep == SnapInv /\ HasSnapshot => SnapInv' /\ Register!RegisterNext
<1> SUFFICES ASSUME SnapInv, HasSnapshot PROVE SnapInv' /\ Register!RegisterNext
  OBVIOUS
<1>0. /\ SnapshotTypeOK /\ OnlyStored /\ call.op = "idle" /\ EnsureHelper
      /\ UNCHANGED <<volume, file, out, script, extracted, result>>
      /\ call' = IF helper = "running" /\ volume.archive # None
                   THEN [NoCall EXCEPT !.op = "read"] ELSE NoCall
      /\ mayRead' = IF call'.op = "read"
                      THEN ({Readable} \cup IF Live # {} THEN Traces ELSE {}) \ {None}
                      ELSE {}
  BY DEF SnapInv, HasSnapshot, storageVars
<1>1. helper' \in {"absent", "pending", "running", "failed"}
  BY <1>0, EnsureHelperKeepsType
<1>2. CASE ~(helper = "running" /\ volume.archive # None)
  <2>1. call' = NoCall /\ mayRead' = {}
    BY <1>0, <1>2, NoCallIs
  <2>2. QED
    BY <1>0, <1>1, <2>1, OthersEnd
<1>3. CASE helper = "running" /\ volume.archive # None
  <2>1. call' = [NoCall EXCEPT !.op = "read"]
    BY <1>0, <1>3
  <2>2. "read" \in Operations
    BY DEF Operations
  <2>3. call' \in Call /\ call'.op = "read"
    BY <2>1, <2>2, CallAt
  <2>4. mayRead' = ({Readable} \cup IF Live # {} THEN Traces ELSE {}) \ {None}
    BY <1>0, <2>3
  <2>5. Readable \in Archives \cup {None} /\ Traces \subseteq Archives /\ None \notin Traces
    BY <1>0, ReadableIs, ArchiveNumbers DEF Traces
  <2>6. SnapshotTypeOK'
    <3>1. mayRead' \in SUBSET Archives
      BY <2>4, <2>5
    <3>2. QED
      BY <1>0, <1>1, <2>3, <3>1 DEF SnapshotTypeOK
  <2>7. Readable' = Readable /\ Traces' = Traces /\ Live' = Live /\ Begun' = Begun
    BY <1>0, SameStorage
  <2>8. OnlyStored'
    BY <1>0, <2>3, <2>7 DEF OnlyStored
  <2>9. AloneInv'
    BY <2>3 DEF AloneInv
  <2>10. ReadInv'
    <3>1. CASE Live # {}
      <4>1. Traces \subseteq mayRead'
        BY <2>4, <2>5, <3>1
      <4>2. QED
        BY <2>3, <2>7, <4>1 DEF ReadInv, Reading, MayBeRead
    <3>2. CASE Live = {}
      <4>1. Readable \in mayRead' \cup {None}
        BY <2>4, <3>2
      <4>2. QED
        BY <2>3, <2>7, <3>2, <4>1 DEF ReadInv, Reading, MayBeRead
    <3>3. QED
      BY <3>1, <3>2
  <2>11. Register!BeginRead
    BY <1>0, <2>3, <2>4, <2>7 DEF Register!BeginRead
  <2>12. QED
    BY <2>6, <2>8, <2>9, <2>10, <2>11 DEF SnapInv, Register!RegisterNext
<1>4. QED
  BY <1>2, <1>3

\* The archive is read: what comes is what the checksum must then agree with.
LEMMA ReadArchiveStep ==
    SnapInv /\ ReadArchive => SnapInv' /\ (Register!RegisterNext \/ UNCHANGED AsRegister)
<1> SUFFICES ASSUME SnapInv, ReadArchive PROVE SnapInv' /\ (Register!RegisterNext \/ UNCHANGED AsRegister)
  OBVIOUS
<1>0. /\ SnapshotTypeOK /\ OnlyStored /\ ReadInv /\ call.op = "read" /\ EnsureHelper
  BY DEF SnapInv, ReadArchive
<1>1. helper' \in {"absent", "pending", "running", "failed"}
  BY <1>0, EnsureHelperKeepsType
<1>2. CASE ReadFails
  <2>1. /\ call' = NoCall /\ mayRead' = {}
        /\ UNCHANGED <<volume, file, out, script, extracted, result>>
    BY <1>2 DEF ReadFails, Ends, storageVars
  <2>2. QED
    BY <1>0, <1>1, <2>1, OthersEnd
<1>3. CASE ~ReadFails
  <2>1. /\ Content(volume.archive) # Empty
        /\ UNCHANGED <<volume, file, out, script, extracted, result, mayRead>>
    BY <1>3 DEF ReadArchive, storageVars
  <2>2. PICK c \in {file[volume.archive]} \cup
               IF \E n \in Archives : script[n] = "cat" /\ out[n] = volume.archive
                 THEN {Garbage} ELSE {} : call' = [call EXCEPT !.op = "sum", !.got = c]
    BY <1>3 DEF ReadArchive
  <2>3. volume.archive \in Archives /\ Content(volume.archive) = file[volume.archive]
    BY <1>0, <2>1, VolumeFields DEF Content
  <2>4. c \in Archives \cup {Garbage, Empty}
    BY <1>0, <2>2, <2>3 DEF SnapshotTypeOK
  <2>5. call' \in Call /\ call'.op = "sum" /\ call'.got = c
    BY <1>0, <2>2, <2>4, CallFields DEF Call, Operations
  <2>6. Live = {} => c = Content(volume.archive)
    BY <2>2, <2>3 DEF Live, AtWork
  <2>7. Readable' = Readable /\ Traces' = Traces /\ Live' = Live /\ Begun' = Begun
    BY <2>1, SameStorage
  <2>8. OnlyStored'
    BY <1>0, <2>1, <2>5, <2>7 DEF OnlyStored
  <2>9. ReadInv'
    <3>1. MayBeRead
      BY <1>0 DEF ReadInv, Reading
    <3>2. Content(volume.archive)' = Content(volume.archive)
      BY <2>1 DEF Content
    <3>3. MayBeRead'
      BY <2>1, <2>5, <2>6, <2>7, <3>1, <3>2 DEF MayBeRead
    <3>4. QED
      BY <2>5, <3>3 DEF ReadInv, Reading
  <2>10. extracted' \in 0..MaxStores
    BY <1>0, <2>1 DEF SnapshotTypeOK
  <2>11. QED
    BY <1>0, <1>1, <2>1, <2>5, <2>8, <2>9, <2>10, CallGoesOn
<1>4. QED
  BY <1>2, <1>3

\* The checksum is read: an archive that agrees with it may be delivered.
LEMMA ReadSumStep ==
    SnapInv /\ ReadSum => SnapInv' /\ (Register!RegisterNext \/ UNCHANGED AsRegister)
<1> SUFFICES ASSUME SnapInv, ReadSum PROVE SnapInv' /\ (Register!RegisterNext \/ UNCHANGED AsRegister)
  OBVIOUS
<1>0. /\ SnapshotTypeOK /\ OnlyStored /\ ReadInv /\ call.op = "sum" /\ EnsureHelper
  BY DEF SnapInv, ReadSum
<1>1. helper' \in {"absent", "pending", "running", "failed"}
  BY <1>0, EnsureHelperKeepsType
<1>2. CASE ~(helper = "running" /\ Verifies(call.got, volume.sum))
  <2>1. /\ call' = NoCall /\ mayRead' = {}
        /\ UNCHANGED <<volume, file, out, script, extracted, result>>
    BY <1>2 DEF ReadSum, ReadFails, Ends, storageVars
  <2>2. QED
    BY <1>0, <1>1, <2>1, OthersEnd
<1>3. CASE helper = "running" /\ Verifies(call.got, volume.sum)
  <2>1. /\ call' = [call EXCEPT !.op = "tar"]
        /\ UNCHANGED <<volume, file, out, script, extracted, result, mayRead>>
    BY <1>3 DEF ReadSum, storageVars
  <2>2. call.got = volume.sum /\ volume.sum # None
    BY <1>3 DEF Verifies
  <2>3. call' \in Call /\ call'.op = "tar" /\ call'.got = call.got
    BY <1>0, <2>1, CallFields DEF Call, Operations
  <2>4. Readable' = Readable /\ Traces' = Traces /\ Live' = Live /\ Begun' = Begun
    BY <2>1, SameStorage
  <2>5. OnlyStored'
    BY <1>0, <2>1, <2>3, <2>4 DEF OnlyStored
  <2>6. MayBeRead
    BY <1>0 DEF ReadInv, Reading
  <2>7. call.got \in mayRead
    <3>1. volume.sum \in Traces
      BY <1>0, <2>2, VolumeFields DEF Traces
    <3>2. CASE Traces \subseteq mayRead
      BY <2>2, <3>1, <3>2
    <3>3. CASE Readable \in mayRead \cup {None} /\ call.got = Content(volume.archive)
      BY <2>2, <3>3 DEF Readable
    <3>4. QED
      BY <1>0, <2>6, <3>2, <3>3 DEF MayBeRead
  <2>8. ReadInv'
    <3>1. MayBeRead'
      BY <2>1, <2>3, <2>4, <2>6 DEF MayBeRead
    <3>2. QED
      BY <2>1, <2>3, <2>7, <3>1 DEF ReadInv, Reading
  <2>9. extracted' \in 0..MaxStores
    BY <1>0, <2>1 DEF SnapshotTypeOK
  <2>10. QED
    BY <1>0, <1>1, <2>1, <2>3, <2>5, <2>8, <2>9, CallGoesOn
<1>4. QED
  BY <1>2, <1>3

\* The archive goes into the Pod.
LEMMA InjectStep == SnapInv /\ InjectArchive => SnapInv' /\ Register!RegisterNext
<1> SUFFICES ASSUME SnapInv, InjectArchive PROVE SnapInv' /\ Register!RegisterNext
  OBVIOUS
<1>0. /\ SnapshotTypeOK /\ call.op = "tar" /\ call.got \in mayRead
      /\ result' = [result EXCEPT !.injected = call.got] /\ call' = NoCall /\ mayRead' = {}
      /\ UNCHANGED <<volume, file, out, script, helper, extracted>>
  BY DEF SnapInv, InjectArchive, Ends, storageVars, ReadInv
<1>1. call.got \in Archives
  BY <1>0 DEF SnapshotTypeOK
<1>2. /\ result' \in [stored: Archives \cup {None}, injected: Archives \cup {None}]
      /\ result'.injected = call.got /\ result'.stored = result.stored
  BY <1>0, <1>1 DEF SnapshotTypeOK
<1>3. SnapInv'
  BY <1>0, <1>2, CallEnds DEF SnapshotTypeOK
<1>4. Register!Deliver
  BY <1>0, <1>2, SameStorage, NoCallIs DEF Register!Deliver
<1>5. QED
  BY <1>3, <1>4 DEF Register!RegisterNext

-----------------------------------------------------------------------------
(* Deleting. *)

\* DeleteSnapshot begins, if there is a helper.
LEMMA DeleteStep ==
    SnapInv /\ DeleteSnapshot => SnapInv' /\ (Register!RegisterNext \/ UNCHANGED AsRegister)
<1> SUFFICES ASSUME SnapInv, DeleteSnapshot PROVE SnapInv' /\ (Register!RegisterNext \/ UNCHANGED AsRegister)
  OBVIOUS
<1>0. /\ SnapshotTypeOK /\ OnlyStored /\ ReadInv /\ call.op = "idle" /\ EnsureHelper
      /\ call' = IF helper = "running" THEN [NoCall EXCEPT !.op = "rmArchive"] ELSE NoCall
      /\ UNCHANGED <<volume, file, out, script, extracted, result, mayRead>>
  BY DEF SnapInv, DeleteSnapshot, storageVars
<1>1. helper' \in {"absent", "pending", "running", "failed"}
  BY <1>0, EnsureHelperKeepsType
<1>2. mayRead = {}
  BY <1>0 DEF ReadInv, Reading
<1>3. CASE helper # "running"
  <2>1. call' = NoCall /\ mayRead' = {}
    BY <1>0, <1>2, <1>3
  <2>2. QED
    BY <1>0, <1>1, <2>1, OthersEnd
<1>4. CASE helper = "running"
  <2>1. call' = [NoCall EXCEPT !.op = "rmArchive"] /\ "rmArchive" \in Operations
    BY <1>0, <1>4 DEF Operations
  <2>2. call' \in Call /\ call'.op = "rmArchive"
    BY <2>1, CallAt
  <2>3. Begun' = Begun
    BY <1>0 DEF Begun
  <2>4. OnlyStored'
    BY <1>0, <2>2, <2>3 DEF OnlyStored
  <2>5. ReadInv'
    BY <1>0, <1>2, <2>2 DEF ReadInv, Reading
  <2>6. extracted' \in 0..MaxStores
    BY <1>0 DEF SnapshotTypeOK
  <2>7. QED
    BY <1>0, <1>1, <2>2, <2>4, <2>5, <2>6, CallGoesOn
<1>5. QED
  BY <1>3, <1>4

\* Either file is removed: what is left cannot be read, and nothing new is left.
LEMMA RemoveStep ==
    SnapInv /\ (RemoveArchive \/ RemoveSum) => SnapInv' /\ Register!RegisterNext
<1> SUFFICES ASSUME SnapInv, RemoveArchive \/ RemoveSum PROVE SnapInv' /\ Register!RegisterNext
  OBVIOUS
<1>0. /\ SnapshotTypeOK /\ OnlyStored /\ ReadInv /\ call.op \in {"rmArchive", "rmSum"}
      /\ UNCHANGED <<file, out, script, helper, extracted, result, mayRead>>
  BY DEF SnapInv, RemoveArchive, RemoveSum
<1>1. mayRead = {} /\ call.op # "store"
  BY <1>0 DEF ReadInv, Reading
<1>2. call' \in Call /\ call'.op \in {"rmSum", "idle"}
  <2>1. CASE RemoveArchive
    BY <1>0, <2>1, CallFields DEF RemoveArchive, Call, Operations
  <2>2. CASE RemoveSum
    BY <2>2, NoCallIs DEF RemoveSum, Ends
  <2>3. QED
    BY <2>1, <2>2
<1>3. /\ volume' \in [archive: Archives \cup {None}, archiveTmp: Archives \cup {None},
                      sum: Archives \cup {None}, sumTmp: Archives \cup {None}]
      /\ volume'.archiveTmp = volume.archiveTmp /\ volume'.sumTmp = volume.sumTmp
      /\ \/ volume'.archive = None /\ volume'.sum = volume.sum
         \/ volume'.archive = volume.archive /\ volume'.sum = None
  BY <1>0 DEF RemoveArchive, RemoveSum, SnapshotTypeOK
<1>4. SnapshotTypeOK'
  BY <1>0, <1>2, <1>3 DEF SnapshotTypeOK
<1>5. Begun' = Begun /\ Live' = Live
  BY <1>0 DEF Begun, Live
<1>6. OnlyStored'
  BY <1>0, <1>2, <1>3, <1>5 DEF OnlyStored
<1>7. AloneInv' /\ ReadInv'
  BY <1>0, <1>1, <1>2 DEF AloneInv, ReadInv, Reading
<1>8. ArchiveIs' \in {ArchiveIs, Empty} /\ TmpIs' = TmpIs
  BY <1>0, <1>3 DEF ArchiveIs, TmpIs, Content
<1>9. Traces' \subseteq Traces
  BY <1>0, <1>3, <1>5, <1>8, ArchiveNumbers, TracesOf DEF Traces, ArchiveIs, TmpIs
<1>10. Readable' = None
  BY <1>3, ArchiveNumbers DEF Readable, Content
<1>11. Register!Clear
  BY <1>0, <1>1, <1>2, <1>5, <1>9, <1>10 DEF Register!Clear
<1>12. QED
  BY <1>4, <1>6, <1>7, <1>11 DEF SnapInv, Register!RegisterNext

-----------------------------------------------------------------------------
(* The refinement. *)

\* Every step of the store is a step of the register, or none, and the invariant
\* stays true.
LEMMA SnapInvStep ==
    SnapInv /\ [SnapshotNext]_snapshotVars => SnapInv' /\ (Register!RegisterNext \/ UNCHANGED AsRegister)
<1> SUFFICES ASSUME SnapInv, [SnapshotNext]_snapshotVars
             PROVE  SnapInv' /\ (Register!RegisterNext \/ UNCHANGED AsRegister)
  OBVIOUS
<1>1. CASE HelperStarts \/ HelperDies
  BY <1>1, HelperStartsStep, HelperDiesStep
<1>2. CASE \E n \in Archives : Shell(n)
  BY <1>2, OpenTmpStep, CatStep, PrintSumStep, MoveArchiveStep, MoveSumStep DEF Shell
<1>3. CASE ExtractAndStore \/ ExecScript \/ StoreSucceeds \/ StoreFails \/ BrokenOff
  BY <1>3, ExtractStep, ExecStep, StoreSucceedsStep, StoreFailsStep, BrokenOffStep
<1>4. CASE HasSnapshot \/ ReadArchive \/ ReadSum \/ InjectArchive
  BY <1>4, HasSnapshotStep, ReadArchiveStep, ReadSumStep, InjectStep
<1>5. CASE DeleteSnapshot \/ RemoveArchive \/ RemoveSum
  BY <1>5, DeleteStep, RemoveStep
<1>6. CASE UNCHANGED snapshotVars
  <2>1. UNCHANGED <<volume, file, out, script, helper, call, extracted, result, mayRead>>
    BY <1>6 DEF snapshotVars, storageVars
  <2>2. UNCHANGED AsRegister /\ SnapInv'
    BY <2>1 DEF AsRegister, Register!registerVars, SnapInv, SnapshotTypeOK, OnlyStored, AloneInv, AloneAt,
                ReadInv, Reading, MayBeRead, Readable, Traces, Live, Begun, Content
  <2>3. QED
    BY <2>2
<1>7. QED
  BY <1>1, <1>2, <1>3, <1>4, <1>5, <1>6 DEF SnapshotNext

\* For any number of stores, and whatever becomes of operator, helper and
\* connection, what is injected is a whole archive, stored before and never one
\* that was superseded (writeToSnapshotsPVC, verifyArchive and InjectSnapshot).
THEOREM SnapshotsAreARegister == SnapshotSpec => StoreIsRegister
<1>1. SnapshotInit => SnapInv /\ Register!RegisterInit
  BY SnapInvInit
<1>2. SnapInv /\ [SnapshotNext]_snapshotVars => SnapInv' /\ [Register!RegisterNext]_AsRegister
  BY SnapInvStep
<1>3. QED
  BY <1>1, <1>2, PTL DEF SnapshotSpec, StoreIsRegister, Register!RegisterSpec, AsRegister
=============================================================================
