----------------------------- MODULE StrykerRun -----------------------------
(***************************************************************************)
(* One run of StrykerJS from start to end (stryker.ts and the executors    *)
(* 1-prepare, 2-mutant-instrumenter and 3-dry-run), seen from the user's   *)
(* files: the sandbox or, with inPlace, the backup and overwriting of the  *)
(* originals, the file operations that go on when one of them fails, the   *)
(* disposal in the order of the injectors, and an exit at any moment.      *)
(* A file operation takes effect as a whole or not at all.                 *)
(***************************************************************************)
EXTENDS Naturals, FiniteSets

CONSTANT Files

VARIABLES
  options,    \* inPlace, cleanTempDir ("never", "onSuccess", "always")
  changed,    \* the files that were mutated or preprocessed: ProjectFile.hasChanges
  phase,      \* the executor that is busy, or the value that is being disposed
  failed,     \* an executor rejected
  io,         \* per file: the operation in flight, "done", "failed" or "dropped"
  disk,       \* per file: what is in the user's directory
  stored,     \* the files that are in the sandbox, or have a backup
  tempDir,    \* the temporary directory exists
  remove,     \* TemporaryDirectory.removeDuringDisposal
  listening,  \* UnexpectedExitHandler listens, the sandbox has registered its handler
  fsOpen      \* FileSystem accepts operations

runVars == <<options, changed, phase, failed, io, disk, stored, tempDir, remove, listening, fsOpen>>

Executors == {"prepare", "instrument", "sandbox", "dryRun", "mutationTest"}
Disposals == {"disposeRunners", "disposeSandbox", "disposeExitHandler", "disposeFileSystem", "disposeTempDir"}
Over      == {"ended", "exited"}

TypeOK ==
  /\ options \in [inPlace : BOOLEAN, cleanTempDir : {"never", "onSuccess", "always"}]
  /\ changed \subseteq Files /\ stored \subseteq Files
  /\ phase \in Executors \cup Disposals \cup Over
  /\ io \in [Files -> {"none", "backup", "write", "copy", "done", "failed", "dropped"}]
  /\ disk \in [Files -> {"original", "mutated"}]
  /\ {failed, tempDir, remove, listening, fsOpen} \subseteq BOOLEAN

Init ==
  /\ options \in [inPlace : BOOLEAN, cleanTempDir : {"never", "onSuccess", "always"}]
  /\ changed \in SUBSET Files
  /\ phase = "prepare" /\ failed = FALSE
  /\ io = [f \in Files |-> "none"] /\ disk = [f \in Files |-> "original"] /\ stored = {}
  /\ tempDir = FALSE /\ remove = (options.cleanTempDir # "never")
  /\ listening = FALSE /\ fsOpen = TRUE

Stop(stopped) ==
  /\ phase' = "disposeRunners" /\ failed' = stopped
  /\ remove' = (remove /\ (stopped => options.cleanTempDir = "always"))

files  == <<io, disk, stored>>
config == <<options, changed>>
--------------------------------------------------------------------------------
(* The executors.  A failure before there is a temporary directory leaves   *)
(* the finally block with nothing but the file system to dispose.           *)
Prepare ==
  /\ phase = "prepare"
  /\ \/ phase' = "instrument" /\ tempDir' = TRUE /\ UNCHANGED <<failed, remove>>
     \/ Stop(TRUE) /\ UNCHANGED tempDir
  /\ UNCHANGED <<config, files, listening, fsOpen>>

\* Mutant of Instrument: the sandbox does not register with the exit handler.
InstrumentUnheard ==
  /\ phase = "instrument"
  /\ \/ /\ phase' = "sandbox" /\ UNCHANGED listening
        /\ io' = [f \in Files |-> IF ~options.inPlace THEN "copy"
                                  ELSE IF f \in changed THEN "backup" ELSE "done"]
        /\ UNCHANGED <<failed, remove>>
     \/ Stop(TRUE) /\ UNCHANGED <<listening, io>>
  /\ UNCHANGED <<config, disk, stored, tempDir, fsOpen>>

(* Instrumenting, preprocessing and the checkers; then the sandbox starts   *)
(* all file operations at once.                                             *)
Instrument ==
  /\ phase = "instrument"
  /\ \/ /\ phase' = "sandbox" /\ listening' = TRUE
        /\ io' = [f \in Files |-> IF ~options.inPlace THEN "copy"
                                  ELSE IF f \in changed THEN "backup" ELSE "done"]
        /\ UNCHANGED <<failed, remove>>
     \/ Stop(TRUE) /\ UNCHANGED <<listening, io>>
  /\ UNCHANGED <<config, disk, stored, tempDir, fsOpen>>

(* fillSandbox is done; the build command and the symlinks follow.          *)
SandboxFilled ==
  /\ phase = "sandbox" /\ \A f \in Files : io[f] = "done"
  /\ \/ phase' = "dryRun" /\ UNCHANGED <<failed, remove>>
     \/ Stop(TRUE)
  /\ UNCHANGED <<config, files, tempDir, listening, fsOpen>>

(* Only a complete dry run without failed tests, and with tests unless      *)
(* allowEmpty is set, goes on.                                              *)
DryRun ==
  /\ phase = "dryRun"
  /\ \E status \in {"complete", "error", "timeout"}, someFailed, someTests, allowEmpty \in BOOLEAN :
       IF status = "complete" /\ ~someFailed /\ (someTests \/ allowEmpty)
       THEN phase' = "mutationTest" /\ UNCHANGED <<failed, remove>>
       ELSE Stop(TRUE)
  /\ UNCHANGED <<config, files, tempDir, listening, fsOpen>>

MutationTest ==
  /\ phase = "mutationTest"
  /\ \E stopped \in BOOLEAN : Stop(stopped)
  /\ UNCHANGED <<config, files, tempDir, listening, fsOpen>>
--------------------------------------------------------------------------------
(* File operations; they go on whatever the executors do.  One that would   *)
(* start after FileSystem.dispose() is dropped; a copy or a backup makes    *)
(* its directory first, again when it was deleted in the meantime.          *)
Alive == phase # "exited"

BackupEnds(f) ==
  /\ Alive /\ io[f] = "backup"
  /\ stored' = stored \cup {f}
  /\ io' = [io EXCEPT ![f] = IF fsOpen THEN "write" ELSE "dropped"]
  /\ tempDir' = TRUE
  /\ UNCHANGED <<config, phase, failed, disk, remove, listening, fsOpen>>

WriteEnds(f) ==
  /\ Alive /\ io[f] = "write"
  /\ disk' = [disk EXCEPT ![f] = "mutated"]
  /\ io' = [io EXCEPT ![f] = "done"]
  /\ UNCHANGED <<config, phase, failed, stored, tempDir, remove, listening, fsOpen>>

CopyEnds(f) ==
  /\ Alive /\ io[f] = "copy"
  /\ stored' = stored \cup {f}
  /\ io' = [io EXCEPT ![f] = "done"]
  /\ tempDir' = TRUE
  /\ UNCHANGED <<config, phase, failed, disk, remove, listening, fsOpen>>

\* Mutant of OperationFails: the failure is swallowed, nothing rejects.
OperationFailsSilently(f) ==
  /\ Alive /\ io[f] \in {"backup", "write", "copy"}
  /\ io' = [io EXCEPT ![f] = "failed"]
  /\ UNCHANGED <<config, phase, failed, disk, stored, tempDir, remove, listening, fsOpen>>

(* The first failure rejects Promise.all and with it sandbox.init().        *)
OperationFails(f) ==
  /\ Alive /\ io[f] \in {"backup", "write", "copy"}
  /\ io' = [io EXCEPT ![f] = "failed"]
  /\ IF phase = "sandbox" THEN Stop(TRUE) ELSE UNCHANGED <<phase, failed, remove>>
  /\ UNCHANGED <<config, disk, stored, tempDir, listening, fsOpen>>
--------------------------------------------------------------------------------
(* Disposal: children first, so the test runners, then the sandbox, which   *)
(* moves the backups back, the exit handler, the file system and the        *)
(* temporary directory.                                                     *)
Restore ==
  IF options.inPlace
  THEN disk' = [f \in Files |-> IF f \in stored THEN "original" ELSE disk[f]] /\ stored' = {}
  ELSE UNCHANGED <<disk, stored>>

RunnersDisposed ==
  /\ phase = "disposeRunners" /\ phase' = "disposeSandbox"
  /\ UNCHANGED <<config, failed, files, tempDir, remove, listening, fsOpen>>

DisposeSandbox ==
  /\ phase = "disposeSandbox" /\ phase' = "disposeExitHandler"
  /\ Restore
  /\ UNCHANGED <<config, failed, io, tempDir, remove, listening, fsOpen>>

DisposeExitHandler ==
  /\ phase = "disposeExitHandler" /\ phase' = "disposeFileSystem"
  /\ listening' = FALSE
  /\ UNCHANGED <<config, failed, files, tempDir, remove, fsOpen>>

DisposeFileSystem ==
  /\ phase = "disposeFileSystem" /\ phase' = "disposeTempDir"
  /\ fsOpen' = FALSE
  /\ UNCHANGED <<config, failed, files, tempDir, remove, listening>>

DisposeTempDir ==
  /\ phase = "disposeTempDir" /\ phase' = "ended"
  /\ IF remove THEN tempDir' = FALSE /\ stored' = {} ELSE UNCHANGED <<tempDir, stored>>
  /\ UNCHANGED <<config, failed, io, disk, remove, listening, fsOpen>>

(* A signal, or process.exit: handleExit recovers the originals at once.    *)
Exit ==
  /\ phase \notin Over /\ phase' = "exited"
  /\ IF listening THEN Restore ELSE UNCHANGED <<disk, stored>>
  /\ UNCHANGED <<config, failed, io, tempDir, remove, listening, fsOpen>>

Next ==
  \/ Prepare \/ Instrument \/ SandboxFilled \/ DryRun \/ MutationTest
  \/ \E f \in Files : BackupEnds(f) \/ WriteEnds(f) \/ CopyEnds(f) \/ OperationFails(f)
  \/ RunnersDisposed \/ DisposeSandbox \/ DisposeExitHandler \/ DisposeFileSystem \/ DisposeTempDir
  \/ Exit

(* Every operation and every executor ends.                                 *)
Fairness ==
  /\ WF_runVars(Prepare) /\ WF_runVars(Instrument) /\ WF_runVars(SandboxFilled)
  /\ WF_runVars(DryRun) /\ WF_runVars(MutationTest)
  /\ \A f \in Files : WF_runVars(BackupEnds(f)) /\ WF_runVars(WriteEnds(f)) /\ WF_runVars(CopyEnds(f))
  /\ WF_runVars(RunnersDisposed) /\ WF_runVars(DisposeSandbox) /\ WF_runVars(DisposeExitHandler)
  /\ WF_runVars(DisposeFileSystem) /\ WF_runVars(DisposeTempDir)

Spec == Init /\ [][Next]_runVars /\ Fairness
--------------------------------------------------------------------------------
SomeFailed == \E f \in Files : io[f] = "failed"

(***************************************************************************)
(* With inPlace the original of every file is on disk or in the backup, at *)
(* every moment.                                                           *)
(***************************************************************************)
OriginalNeverLost ==
  \A f \in Files : disk[f] = "original" \/ (options.inPlace /\ f \in stored)

(***************************************************************************)
(* As long as no file operation fails the originals are never lost, and    *)
(* they are back in place when the run is over, however it ended.          *)
(***************************************************************************)
OriginalsSurvive ==
  ~SomeFailed =>
    OriginalNeverLost /\ (phase \in Over => \A f \in Files : disk[f] = "original")

(***************************************************************************)
(* Tests only run on a complete sandbox: every file is there with its      *)
(* mutants, and a file that was overwritten has its backup.                *)
(***************************************************************************)
TestsSeeTheirFiles ==
  phase \in {"dryRun", "mutationTest"} =>
    IF options.inPlace
    THEN \A f \in changed : disk[f] = "mutated" /\ f \in stored
    ELSE stored = Files

(***************************************************************************)
(* The temporary directory goes after a good run and stays for inspection  *)
(* after a bad one, as cleanTempDir says, unless a file operation failed   *)
(* while others were busy.                                                 *)
(***************************************************************************)
TempDirPolicy ==
  phase = "ended" /\ tempDir /\ ~SomeFailed =>
    options.cleanTempDir = "never" \/ (options.cleanTempDir = "onSuccess" /\ failed)

(***************************************************************************)
(* Every run comes to an end and disposes what it created.                 *)
(***************************************************************************)
RunEnds == <>(phase \in Over)
--------------------------------------------------------------------------------
(***************************************************************************)
(* The inductive invariant: what each phase finds on the disk.             *)
(***************************************************************************)
Untouched ==
  stored = {} /\ \A f \in Files : io[f] = "none" /\ disk[f] = "original"

Filled(f) ==
  /\ io[f] = "done"
  /\ IF options.inPlace /\ f \in changed
     THEN disk[f] = "mutated" /\ f \in stored
     ELSE disk[f] = "original" /\ (~options.inPlace => f \in stored)

Filling(f) ==
  \/ Filled(f)
  \/ disk[f] = "original" /\ IF options.inPlace
                             THEN f \in changed /\ (io[f] = "backup" \/ (io[f] = "write" /\ f \in stored))
                             ELSE io[f] = "copy"

FilesInv ==
  /\ phase \in {"prepare", "instrument"} => Untouched /\ fsOpen
  /\ phase = "sandbox" => listening /\ fsOpen /\ \A f \in Files : Filling(f)
  /\ phase \in {"dryRun", "mutationTest"} => listening /\ \A f \in Files : Filled(f)
  /\ phase \in {"disposeRunners", "disposeSandbox"} /\ ~SomeFailed =>
       Untouched \/ (listening /\ \A f \in Files : Filled(f))
  /\ phase \in Disposals \cup {"ended"} /\ ~SomeFailed => \A f \in Files : io[f] \in {"none", "done"}
  /\ phase \in {"disposeExitHandler", "disposeFileSystem", "disposeTempDir"} \cup Over /\ ~SomeFailed =>
       \A f \in Files : disk[f] = "original"

TempDirInv ==
  /\ phase \in Executors => remove = (options.cleanTempDir # "never")
  /\ phase \in Disposals \cup {"ended"} =>
       remove = (options.cleanTempDir # "never" /\ (failed => options.cleanTempDir = "always"))
  /\ phase = "ended" /\ ~SomeFailed => ~(remove /\ tempDir)

RunInv == TypeOK /\ FilesInv /\ TempDirInv
================================================================================
