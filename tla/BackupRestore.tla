---------------------------- MODULE BackupRestore ----------------------------
(***************************************************************************)
(* Backup and restore of a runtime database (runtime/backup.py).  A backup  *)
(* is a file and a manifest beside it, written one after the other; a       *)
(* restore compares the two, copies the file to a staged one and moves that *)
(* over its destination.                                                    *)
(*                                                                          *)
(* The runtime databases are in WAL mode, and a copy of one is too: a copy  *)
(* that overwrites a backup commits to the log beside the file, and reaches *)
(* the file itself when the log is moved into it, by the last connection    *)
(* that closes.  Size and hash are those of the file alone; whoever opens   *)
(* it with SQLite sees the log as well.  The first copy, of an empty file,  *)
(* is written to the file itself and undone at the next opening if it was   *)
(* cut short.  A content is the number of the version it is a copy of.      *)
(***************************************************************************)
EXTENDS Integers

CONSTANTS
  Operator,        \* processes that back up and restore
  MaxVersion,      \* bound: versions of the source
  MaxBackups       \* bound: backups that are begun

ASSUME BackupAssumption == MaxVersion \in Nat \ {0}

VARIABLES
  source,          \* the version of the live database
  file,            \* the backup: is it there, the bytes of the file, what its log commits (0: nothing)
  manifest,        \* whether it is none, torn or whole, and the bytes it is of
  target,          \* the destination: the version last put there (0: none), and its log
  doing,           \* what each operator is doing
  restored,        \* history: of each finished restore, what it reported and what it staged
  backups

backupVars == <<source, file, manifest, target, doing, restored, backups>>

Rest == [op |-> "none"]
Garbled == -1      \* bytes of no version: some pages of one, some of another

\* Operators that may have the backup open with SQLite, and those that write it.
Opening(p) == doing[p].op \in {"copy", "close", "check", "test", "stage"}
Others(p) == \E q \in Operator \ {p} : Opening(q)
Copying == \E p \in Operator : doing[p].op = "copy"

\* What an opening finds: the log, if it commits anything, over the file.
View(f) == IF f.wal # 0 THEN f.wal ELSE IF f.main = Garbled THEN 0 ELSE f.main

\* All of the log, or some or none of its pages, are moved into the file.
Moved(f) == IF f.wal = 0 THEN f ELSE [f EXCEPT !.main = f.wal, !.wal = 0]
Moving(f) == {f, Moved(f)} \cup (IF f.wal = 0 THEN {} ELSE {[f EXCEPT !.main = Garbled]})

\* What may be left when p closes the backup; alone, it moves all of the log.
AfterClose(p) == IF Others(p) THEN Moving(file) ELSE {Moved(file)}

\* What reading the bytes of the file may give p while others move pages into it.
Bytes(p) == {file.main} \cup (IF file.wal # 0 /\ Others(p) THEN {Garbled} ELSE {})

BackupInit ==
  /\ source = 1 /\ file = [there |-> FALSE, main |-> 0, wal |-> 0]
  /\ manifest = [state |-> "none", of |-> 0]
  /\ target = [from |-> 0, log |-> "none"]
  /\ doing = [p \in Operator |-> Rest] /\ restored = {} /\ backups = 0

\* the runtime goes on
WriteSource ==
  /\ source < MaxVersion /\ source' = source + 1
  /\ UNCHANGED <<file, manifest, target, doing, restored, backups>>

Now(p, work) == doing' = [doing EXCEPT ![p] = work]

-----------------------------------------------------------------------------
\* create_backup up to the connections, which create the file
BeginBackup(p, overwrite) ==
  /\ doing[p] = Rest /\ backups < MaxBackups
  /\ overwrite \/ (~file.there /\ manifest.state = "none")
  /\ file' = [file EXCEPT !.there = TRUE]
  /\ Now(p, [op |-> "open"]) /\ backups' = backups + 1
  /\ UNCHANGED <<source, manifest, target, restored>>

\* the copy locks its target, waiting for another to end, and then reads the source
StartCopy(p) ==
  /\ doing[p].op = "open" /\ ~Copying
  /\ file' = IF View(file) = 0 THEN [file EXCEPT !.main = Garbled] ELSE file
  /\ Now(p, [op |-> "copy", of |-> source])
  /\ UNCHANGED <<source, manifest, target, restored, backups>>

\* the commit; a long log is moved at once
FinishCopy(p) ==
  /\ doing[p].op = "copy"
  /\ LET copy == doing[p].of IN
       IF View(file) = 0 THEN file' = [file EXCEPT !.main = copy]
       ELSE file' \in Moving([file EXCEPT !.wal = copy])
  /\ doing' = [q \in Operator |->
                 IF q = p THEN [op |-> "close"]
                 ELSE IF doing[q].op \in {"test", "stage"} THEN [doing[q] EXCEPT !.altered = TRUE]
                 ELSE doing[q]]
  /\ UNCHANGED <<source, manifest, target, restored, backups>>

CloseCopy(p) ==
  /\ doing[p].op = "close"
  /\ file' \in AfterClose(p) /\ Now(p, [op |-> "check"])
  /\ UNCHANGED <<source, manifest, target, restored, backups>>

\* the integrity check opens and closes the file, whatever it is by now
CheckBackup(p) ==
  /\ doing[p].op = "check"
  /\ file' \in AfterClose(p) /\ Now(p, [op |-> "hash"])
  /\ UNCHANGED <<source, manifest, target, restored, backups>>

HashFile(p) ==
  /\ doing[p].op = "hash"
  /\ \E bytes \in Bytes(p) : Now(p, [op |-> "describe", of |-> bytes])
  /\ UNCHANGED <<source, file, manifest, target, restored, backups>>

WriteManifest(p) ==
  /\ doing[p].op = "describe"
  /\ manifest' = [state |-> "whole", of |-> doing[p].of] /\ Now(p, Rest)
  /\ UNCHANGED <<source, file, target, restored, backups>>

-----------------------------------------------------------------------------
\* restore_backup up to the manifest it read; a torn one raises
BeginRestore(p, overwrite) ==
  /\ doing[p] = Rest /\ file.there /\ manifest.state = "whole"
  /\ overwrite \/ target.from = 0
  /\ Now(p, [op |-> "verify", told |-> manifest.of])
  /\ UNCHANGED <<source, file, manifest, target, restored, backups>>

\* Mutant: the file is not compared with the manifest.
AnyBytes(bytes, told) == TRUE

\* Size and hash of the file are those of the manifest.
Matches(bytes, told) == bytes = told

VerifyBackup(p) ==
  /\ doing[p].op = "verify"
  /\ \E bytes \in Bytes(p) :
       Now(p, IF Matches(bytes, doing[p].told)
              THEN [op |-> "test", told |-> doing[p].told, altered |-> file.wal # 0]
              ELSE Rest)
  /\ UNCHANGED <<source, file, manifest, target, restored, backups>>

\* the integrity check, which rolls the log forward
TestBackup(p) ==
  /\ doing[p].op = "test"
  /\ file' \in AfterClose(p) /\ Now(p, [doing[p] EXCEPT !.op = "stage"])
  /\ UNCHANGED <<source, manifest, target, restored, backups>>

\* the staged copy of what SQLite finds
StageBackup(p) ==
  /\ doing[p].op = "stage"
  /\ file' \in AfterClose(p)
  /\ Now(p, [op |-> "replace", told |-> doing[p].told, staged |-> View(file),
             altered |-> doing[p].altered])
  /\ UNCHANGED <<source, manifest, target, restored, backups>>

\* os.replace, which replaces the file at the destination and leaves a log that is
\* there, and the manifest returned to the caller
ReplaceTarget(p) ==
  /\ doing[p].op = "replace"
  /\ target' = [from |-> doing[p].staged,
                log |-> IF target.log = "none" THEN "none" ELSE "foreign"]
  /\ restored' = restored \cup
       {[told |-> doing[p].told, staged |-> doing[p].staged, altered |-> doing[p].altered]}
  /\ Now(p, Rest)
  /\ UNCHANGED <<source, file, manifest, backups>>

-----------------------------------------------------------------------------
\* any step may raise (a locked file), or the process end: the backup may be left
\* with its log, a first copy cut short, a manifest that was being written torn
Stop(p) ==
  /\ doing[p] # Rest /\ Now(p, Rest)
  /\ IF ~Opening(p) THEN UNCHANGED file
     ELSE IF View(file) = 0 THEN \E m \in {0, Garbled} : file' = [file EXCEPT !.main = m]
     ELSE file' \in Moving(file)
  /\ IF doing[p].op = "describe" THEN manifest' \in {manifest, [manifest EXCEPT !.state = "torn"]} ELSE UNCHANGED manifest
  /\ UNCHANGED <<source, target, restored, backups>>

\* A runtime opens the destination, replays the log that is there, and ends: in
\* order, which moves the log, or not, which leaves one of its own.  No restore
\* replaces a destination that is in use.
RunAtTarget(dies) ==
  /\ target.from # 0
  /\ target' = [from |-> IF target.log = "foreign" THEN Garbled ELSE target.from,
                log |-> IF dies THEN "own" ELSE "none"]
  /\ UNCHANGED <<source, file, manifest, doing, restored, backups>>

BackupNext ==
  \/ WriteSource
  \/ \E p \in Operator, overwrite \in BOOLEAN : BeginBackup(p, overwrite) \/ BeginRestore(p, overwrite)
  \/ \E p \in Operator :
       \/ StartCopy(p) \/ FinishCopy(p) \/ CloseCopy(p) \/ CheckBackup(p)
       \/ HashFile(p) \/ WriteManifest(p)
       \/ VerifyBackup(p) \/ TestBackup(p) \/ StageBackup(p) \/ ReplaceTarget(p)
       \/ Stop(p)
  \/ \E dies \in BOOLEAN : RunAtTarget(dies)

BackupSpec == BackupInit /\ [][BackupNext]_backupVars

-----------------------------------------------------------------------------
\* Contents are versions the source has had, or mixtures of them; the destination
\* is described by what was put there.
BackupTypeOK ==
  /\ source \in 1..MaxVersion
  /\ file \in [there : BOOLEAN, main : Garbled..source, wal : 0..source]
  /\ ~file.there => file.main = 0 /\ file.wal = 0
  /\ manifest \in [state : {"none", "torn", "whole"}, of : Garbled..source]
  /\ target \in [from : Garbled..source, log : {"none", "own", "foreign"}]

\* A restore stages what the manifest it returns is about, a version the source once
\* had, whatever crashed between a backup and its manifest and however backups
\* overwrite one another, with two exceptions: the backup is overwritten between
\* the comparison and the staged copy, or it had a log at the comparison, which
\* hash and size do not cover (restore_backup).
RestoreTellsWhatItRestored ==
  \A r \in restored : r.staged > 0 /\ (r.told = r.staged \/ r.altered)
=============================================================================
