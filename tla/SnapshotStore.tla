---------------------------- MODULE SnapshotStore ----------------------------
(***************************************************************************)
(* The SnapshotManager of the operator, for one tenant and workload: an    *)
(* archive and its checksum on a volume that only a helper Pod mounts.     *)
(* Everything is done by kubectl exec in that Pod.  The shell that stores  *)
(* an archive runs on its own: when the operator, or its connection, goes  *)
(* away in the middle, `cat` sees the end of its input and the script goes *)
(* on with what it has.                                                    *)
(*                                                                         *)
(* Abstractions.  The n-th extraction yields archive n, whose checksum is  *)
(* n.  A file's content is the archive it holds whole, Empty, or Garbage:  *)
(* anything else, whose checksum is nobody's.  A file that `cat` creates   *)
(* is called after the store that created it.                              *)
(***************************************************************************)
EXTENDS Integers

CONSTANTS
    MaxStores,      \* bound: archives extracted in a behaviour
    StoreFaults     \* what may go wrong: a subset of {"brokenOff", "helperDies"}

ASSUME StoreAssumption == MaxStores \in Nat /\ StoreFaults \subseteq {"brokenOff", "helperDies"}

Archives == 1..MaxStores
None     == 0       \* no file, no archive
Empty    == 0       \* the content of a file nothing was written to
Garbage  == -1

VARIABLES
    volume,     \* the directory: archive and checksum, and the .tmp of either
    file,       \* the content of each file an archive is written to
    out,        \* the file each store's `cat` writes to
    script,     \* where the shell of each store is
    helper,     \* the helper Pod
    call,       \* what the operator is in the middle of
    extracted,  \* archives extracted so far
    result,     \* the archives stored last and streamed into a Pod last
    mayRead     \* history: what the injection in progress may deliver

storageVars  == <<volume, file, out, script>>
snapshotVars == <<storageVars, helper, call, extracted, result, mayRead>>

Operations == {"idle", "exec", "store", "read", "sum", "tar", "rmArchive", "rmSum"}
Call   == [op: Operations, n: Archives \cup {None}, got: Archives \cup {Garbage, Empty},
           alone: BOOLEAN]
NoCall == [op |-> "idle", n |-> None, got |-> Empty, alone |-> FALSE]

AtWork == {"open", "cat", "sum", "mvArchive", "mvSum"}

SnapshotTypeOK ==
    /\ volume \in [archive: Archives \cup {None}, archiveTmp: Archives \cup {None},
                   sum: Archives \cup {None}, sumTmp: Archives \cup {None}]
    /\ file \in [Archives -> Archives \cup {Garbage, Empty}]
    /\ out \in [Archives -> Archives \cup {None}]
    /\ script \in [Archives -> AtWork \cup {"none", "done", "failed"}]
    /\ helper \in {"absent", "pending", "running", "failed"}
    /\ call \in Call
    /\ extracted \in 0..MaxStores
    /\ result \in [stored: Archives \cup {None}, injected: Archives \cup {None}]
    /\ mayRead \in SUBSET Archives

SnapshotInit ==
    /\ volume = [archive |-> None, archiveTmp |-> None, sum |-> None, sumTmp |-> None]
    /\ file = [n \in Archives |-> Empty]
    /\ out = [n \in Archives |-> None]
    /\ script = [n \in Archives |-> "none"]
    /\ helper = "absent"
    /\ call = NoCall
    /\ extracted = 0
    /\ result = [stored |-> None, injected |-> None]
    /\ mayRead = {}

Live == {n \in Archives : script[n] \in AtWork}

\* The content of the archive under either name.
Content(name) == IF name = None THEN Empty ELSE file[name]

\* What can be read: an archive whose checksum lies next to it.
Readable == IF volume.sum = Content(volume.archive) THEN volume.sum ELSE None

\* Archives of which anything is left on the volume or in a shell.
Traces == (Live \cup {volume.sum, volume.sumTmp, Content(volume.archive),
                      Content(volume.archiveTmp)}) \cap Archives

-----------------------------------------------------------------------------
(* The helper Pod. *)

\* ensureHelperPod: wait for one that starts, replace one that has ended.  The
\* Create may find the Pod it has just deleted, which goes a moment later.
EnsureHelper ==
    helper' \in CASE helper \in {"running", "pending"} -> {helper}
                  [] helper = "absent" -> {"pending"}
                  [] helper = "failed" -> {"pending", "absent"}

HelperStarts ==
    /\ helper = "pending"
    /\ helper' = "running"
    /\ UNCHANGED <<storageVars, call, extracted, result, mayRead>>

\* The Pod is evicted, or its container restarts: every process in it is killed.
HelperDies ==
    /\ "helperDies" \in StoreFaults
    /\ helper = "running"
    /\ helper' \in {"running", "failed"}
    /\ script' = [n \in Archives |-> IF n \in Live THEN "failed" ELSE script[n]]
    /\ call' = IF call.op \in {"rmArchive", "rmSum"} THEN NoCall ELSE call
    /\ UNCHANGED <<volume, file, out, extracted, result, mayRead>>

-----------------------------------------------------------------------------
(* ExtractAndStore and the shell script of writeToSnapshotsPVC. *)

Ends == call' = NoCall

\* The overlay was extracted, the helper Pod looked for.
ExtractAndStore ==
    /\ call.op = "idle"
    /\ extracted < MaxStores
    /\ extracted' = extracted + 1
    /\ EnsureHelper
    /\ call' = [NoCall EXCEPT !.op = "exec", !.n = extracted + 1]
    /\ UNCHANGED <<storageVars, result, mayRead>>

ExecScript ==
    /\ call.op = "exec"
    /\ IF helper = "running"
         THEN /\ script' = [script EXCEPT ![call.n] = "open"]
              /\ call' = [call EXCEPT !.op = "store", !.alone = (Live = {})]
         ELSE UNCHANGED script /\ Ends
    /\ UNCHANGED <<volume, file, out, helper, extracted, result, mayRead>>

\* `cat > path.tmp` truncates the file if there is one.
OpenTmp(n) ==
    /\ script[n] = "open"
    /\ LET f == IF volume.archiveTmp = None THEN n ELSE volume.archiveTmp IN
        /\ out' = [out EXCEPT ![n] = f]
        /\ volume' = [volume EXCEPT !.archiveTmp = f]
        /\ file' = [file EXCEPT ![f] = Empty]
    /\ script' = [script EXCEPT ![n] = "cat"]
    /\ UNCHANGED <<helper, call, extracted, result, mayRead>>

\* Another store's `cat` writes to the same file.
Shared(n) == \E m \in Archives \ {n} : script[m] = "cat" /\ out[m] = out[n]

CatWhole(n) ==
    /\ script[n] = "cat"
    /\ \E c \in {n} \cup IF Shared(n) \/ file[out[n]] # Empty THEN {Garbage} ELSE {} :
        file' = [file EXCEPT ![out[n]] = c]
    /\ script' = [script EXCEPT ![n] = "sum"]
    /\ UNCHANGED <<volume, out, helper, call, extracted, result, mayRead>>

\* The operator has gone: what has arrived by then, if anything, is taken for
\* the whole.
CatCut(n) ==
    /\ script[n] = "cat"
    /\ ~(call.op = "store" /\ call.n = n)
    /\ \E c \in {file[out[n]], Garbage} : file' = [file EXCEPT ![out[n]] = c]
    /\ script' = [script EXCEPT ![n] = "sum"]
    /\ UNCHANGED <<volume, out, helper, call, extracted, result, mayRead>>

\* The checksum, computed by the operator, is an argument of the script.
PrintSum(n) ==
    /\ script[n] = "sum"
    /\ volume' = [volume EXCEPT !.sumTmp = n]
    /\ script' = [script EXCEPT ![n] = "mvArchive"]
    /\ UNCHANGED <<file, out, helper, call, extracted, result, mayRead>>

\* `mv` fails, and with it the script, when another store has moved the file.
MoveArchive(n) ==
    /\ script[n] = "mvArchive"
    /\ IF volume.archiveTmp = None
         THEN /\ script' = [script EXCEPT ![n] = "failed"]
              /\ UNCHANGED volume
         ELSE /\ volume' = [volume EXCEPT !.archive = volume.archiveTmp, !.archiveTmp = None]
              /\ script' = [script EXCEPT ![n] = "mvSum"]
    /\ UNCHANGED <<file, out, helper, call, extracted, result, mayRead>>

MoveSum(n) ==
    /\ script[n] = "mvSum"
    /\ IF volume.sumTmp = None
         THEN /\ script' = [script EXCEPT ![n] = "failed"]
              /\ UNCHANGED volume
         ELSE /\ volume' = [volume EXCEPT !.sum = volume.sumTmp, !.sumTmp = None]
              /\ script' = [script EXCEPT ![n] = "done"]
    /\ UNCHANGED <<file, out, helper, call, extracted, result, mayRead>>

\* Mutant: the exit status of the script is lost.
StoreSucceedsAnyway ==
    /\ call.op = "store"
    /\ script[call.n] \in {"done", "failed"}
    /\ Ends
    /\ result' = [result EXCEPT !.stored = call.n]
    /\ UNCHANGED <<storageVars, helper, extracted, mayRead>>

\* ExtractAndStore returns nil.
StoreSucceeds ==
    /\ call.op = "store"
    /\ script[call.n] = "done"
    /\ Ends
    /\ result' = [result EXCEPT !.stored = call.n]
    /\ UNCHANGED <<storageVars, helper, extracted, mayRead>>

StoreFails ==
    /\ call.op = "store"
    /\ script[call.n] = "failed"
    /\ Ends
    /\ UNCHANGED <<storageVars, helper, extracted, result, mayRead>>

\* The operator dies, its context is cancelled or its connection is lost.
BrokenOff ==
    /\ "brokenOff" \in StoreFaults
    /\ call.op \notin {"idle", "rmSum"}
    /\ Ends
    /\ mayRead' = {}
    /\ UNCHANGED <<storageVars, helper, extracted, result>>

-----------------------------------------------------------------------------
(* HasSnapshot and InjectSnapshot. *)

\* HasSnapshot looks for the archive only.
HasSnapshot ==
    /\ call.op = "idle"
    /\ EnsureHelper
    /\ call' = IF helper = "running" /\ volume.archive # None
                 THEN [NoCall EXCEPT !.op = "read"] ELSE NoCall
    /\ mayRead' = IF call'.op = "read"
                    THEN ({Readable} \cup IF Live # {} THEN Traces ELSE {}) \ {None}
                    ELSE {}
    /\ UNCHANGED <<storageVars, extracted, result>>

ReadFails ==
    /\ Ends
    /\ mayRead' = {}
    /\ UNCHANGED <<storageVars, extracted, result>>

\* An archive of no bytes is not looked at any further, and no error either.
ReadArchive ==
    /\ call.op = "read"
    /\ EnsureHelper
    /\ IF helper # "running" \/ Content(volume.archive) = Empty
         THEN ReadFails
         ELSE /\ \E c \in {file[volume.archive]} \cup
                    IF \E n \in Archives : script[n] = "cat" /\ out[n] = volume.archive
                      THEN {Garbage} ELSE {} :
                   call' = [call EXCEPT !.op = "sum", !.got = c]
              /\ UNCHANGED <<storageVars, extracted, result, mayRead>>

\* Mutant: an archive without a checksum passes.
VerifiesOrUnsigned(archive, sum) == sum = None \/ archive = sum

\* verifyArchive
Verifies(archive, sum) == sum # None /\ archive = sum

ReadSum ==
    /\ call.op = "sum"
    /\ EnsureHelper
    /\ IF helper = "running" /\ Verifies(call.got, volume.sum)
         THEN /\ call' = [call EXCEPT !.op = "tar"]
              /\ UNCHANGED <<storageVars, extracted, result, mayRead>>
         ELSE ReadFails

InjectArchive ==
    /\ call.op = "tar"
    /\ result' = [result EXCEPT !.injected = call.got]
    /\ Ends
    /\ mayRead' = {}
    /\ UNCHANGED <<storageVars, helper, extracted>>

-----------------------------------------------------------------------------
(* DeleteSnapshot: `rm -f archive checksum`; an error is not reported. *)

DeleteSnapshot ==
    /\ call.op = "idle"
    /\ EnsureHelper
    /\ call' = IF helper = "running" THEN [NoCall EXCEPT !.op = "rmArchive"] ELSE NoCall
    /\ UNCHANGED <<storageVars, extracted, result, mayRead>>

RemoveArchive ==
    /\ call.op = "rmArchive"
    /\ volume' = [volume EXCEPT !.archive = None]
    /\ call' = [call EXCEPT !.op = "rmSum"]
    /\ UNCHANGED <<file, out, script, helper, extracted, result, mayRead>>

RemoveSum ==
    /\ call.op = "rmSum"
    /\ volume' = [volume EXCEPT !.sum = None]
    /\ Ends
    /\ UNCHANGED <<file, out, script, helper, extracted, result, mayRead>>

-----------------------------------------------------------------------------
Shell(n) ==
    \/ OpenTmp(n) \/ CatWhole(n) \/ CatCut(n) \/ PrintSum(n) \/ MoveArchive(n) \/ MoveSum(n)

SnapshotNext ==
    \/ HelperStarts \/ HelperDies
    \/ \E n \in Archives : Shell(n)
    \/ ExtractAndStore \/ ExecScript \/ StoreSucceeds \/ StoreFails \/ BrokenOff
    \/ HasSnapshot \/ ReadArchive \/ ReadSum \/ InjectArchive
    \/ DeleteSnapshot \/ RemoveArchive \/ RemoveSum

SnapshotSpec == SnapshotInit /\ [][SnapshotNext]_snapshotVars

Register == INSTANCE SnapshotRegister WITH
    Archives  <- Archives,
    Nothing   <- None,
    value     <- Readable,
    afloat    <- Traces,
    live      <- Live,
    write     <- IF call.op = "store" THEN call.n ELSE None,
    sole      <- call.op = "store" /\ call.alone,
    reading   <- mayRead,
    acknowledged <- result.stored,
    delivered <- result.injected

\* The store is a register that never delivers anything but a whole archive,
\* whatever becomes of operator, helper and connection (writeToSnapshotsPVC and
\* InjectSnapshot).
StoreIsRegister == Register!RegisterSpec

\* "A partial stream therefore never replaces a previously-good snapshot": what
\* is moved over an archive that can be read is an archive received whole.
PartialStreamReplacesNothing ==
    [][Readable # None /\ volume'.archive \notin {volume.archive, None}
           => file[volume'.archive] \in Archives]_snapshotVars
=============================================================================
