------------------------------ MODULE StoreProofs ---------------------------
(***************************************************************************)
(* Theorems about the stores, each by itself, for any number of processes   *)
(* that use them and wherever these stop; and about delivery as a whole,    *)
(* the stores beside the pods.                                              *)
(***************************************************************************)
EXTENDS Delivery, PodProofs, SequenceTheorems, FiniteSetTheorems, TLAPS

-----------------------------------------------------------------------------
\* Backup and restore: what a restore has read goes stale as it goes; the argument
\* follows what each step still knows of the file.

Past == Garbled..source
BackupFile == [there : BOOLEAN, main : Past, wal : 0..source]

BackupJob ==
  [op : {"none", "open", "close", "check", "hash"}] \cup [op : {"copy"}, of : 1..source]
    \cup [op : {"describe"}, of : Past] \cup [op : {"verify"}, told : Past]
    \cup [op : {"test", "stage"}, told : Past, altered : BOOLEAN]
    \cup [op : {"replace"}, told : Past, staged : 1..source, altered : BOOLEAN]

\* a whole manifest is never that of an empty file
ManifestSound == manifest.state = "whole" => View(file) > 0

\* what an operator may rely on, at each step, of the file it has seen
Knows(w) ==
  /\ w.op # "none" => file.there
  /\ w.op \in {"close", "check", "hash", "describe", "verify", "test", "stage"} => View(file) > 0
  /\ w.op \in {"test", "stage"} => w.altered \/ (file.wal = 0 /\ file.main = w.told)
  /\ w.op = "replace" => w.altered \/ w.staged = w.told

BackupIInv ==
  /\ BackupTypeOK /\ ManifestSound
  /\ doing \in [Operator -> BackupJob]
  /\ \A p \in Operator : Knows(doing[p])
  /\ RestoreTellsWhatItRestored

LEMMA BackupInitSound == BackupInit => BackupIInv
BY BackupAssumption DEF BackupInit, BackupIInv, BackupTypeOK, ManifestSound, Knows, Rest,
   BackupJob, Garbled, View, RestoreTellsWhatItRestored

-----------------------------------------------------------------------------
\* What the closing of the backup does not change: what an opening finds, and, when
\* there is no log, the file.
SameBackup(f, g) ==
  /\ g.there = f.there /\ View(g) = View(f)
  /\ f.wal = 0 /\ View(f) > 0 => g.wal = 0 /\ g.main = f.main

\* Moving pages of the log into the file loses nothing.
LEMMA MovingKeepsBackup ==
  ASSUME NEW f \in BackupFile, NEW g \in Moving(f), source \in Nat
  PROVE  /\ g \in BackupFile /\ SameBackup(f, g)
         /\ f.wal = 0 => g = f
<1>1. CASE g = f
  BY <1>1 DEF SameBackup
<1>2. CASE g = Moved(f) /\ f.wal # 0
  <2>1. g = [f EXCEPT !.main = f.wal, !.wal = 0]
    BY <1>2 DEF Moved
  <2>2. f.wal \in Past /\ 0 \in 0..source
    BY DEF BackupFile, Past, Garbled
  <2>3. f \in [there : BOOLEAN, main : Past, wal : 0..source]
    BY DEF BackupFile
  <2>4. g \in [there : BOOLEAN, main : Past, wal : 0..source]
    BY <2>1, <2>2, <2>3
  <2>5. g \in BackupFile /\ g.there = f.there /\ g.main = f.wal /\ g.wal = 0
    BY <2>1, <2>3, <2>4 DEF BackupFile
  <2>6. f.wal # Garbled
    BY DEF BackupFile, Garbled
  <2> QED BY <1>2, <2>5, <2>6 DEF SameBackup, View
<1>3. CASE g = [f EXCEPT !.main = Garbled] /\ f.wal # 0
  <2>1. g \in BackupFile /\ g.there = f.there /\ g.wal = f.wal
    BY <1>3 DEF BackupFile, Past, Garbled
  <2> QED BY <1>3, <2>1 DEF SameBackup, View
<1> QED BY <1>1, <1>2, <1>3 DEF Moving, Moved

LEMMA ClosingMoves ==
  ASSUME NEW p \in Operator, NEW g \in AfterClose(p)
  PROVE  g \in Moving(file)
BY DEF AfterClose, Moving

\* A closing keeps what an opening finds, so it is safe whatever comes next.
LEMMA ClosingKeepsBackup ==
  ASSUME BackupIInv, NEW p \in Operator, file' \in AfterClose(p) \cup Moving(file), file.there
  PROVE  /\ file' \in BackupFile /\ SameBackup(file, file')
         /\ file' \in [there : BOOLEAN, main : Garbled..source, wal : 0..source]
<1>1. file \in BackupFile /\ source \in Nat
  BY DEF BackupIInv, BackupTypeOK, BackupFile, Past
<1>2. file' \in Moving(file)
  BY ClosingMoves
<1> QED BY <1>1, <1>2, MovingKeepsBackup DEF BackupFile, Past

\* What the others know survives a step of one operator that keeps the backup.
LEMMA OthersKnow ==
  ASSUME BackupIInv, NEW p \in Operator, NEW w \in BackupJob, Now(p, w), source' = source,
         SameBackup(file, file') \/ file' = file, BackupTypeOK',
         ManifestSound', RestoreTellsWhatItRestored', Knows(w)'
  PROVE  BackupIInv'
<1>1. BackupJob' = BackupJob
  BY DEF BackupJob, Past
<1>2. doing' \in [Operator -> BackupJob']
  BY <1>1 DEF Now, BackupIInv
<1>3. ASSUME NEW q \in Operator PROVE Knows(doing[q])'
  <2>1. CASE q = p
    BY <2>1 DEF Now, BackupIInv, Knows
  <2>2. CASE q # p
    <3>1. doing'[q] = doing[q] /\ Knows(doing[q])
      BY <2>2 DEF Now, BackupIInv
    <3> QED BY <3>1 DEF Knows, SameBackup
  <2> QED BY <2>1, <2>2
<1> QED BY <1>2, <1>3 DEF BackupIInv

\* A step that only turns from one work to the next.
LEMMA TurningSound ==
  ASSUME BackupIInv, NEW p \in Operator, NEW w \in BackupJob, Now(p, w),
         UNCHANGED <<source, file, manifest, target, restored>>, Knows(w)
  PROVE  BackupIInv'
<1>1. BackupTypeOK' /\ ManifestSound' /\ RestoreTellsWhatItRestored' /\ Knows(w)'
  BY DEF BackupIInv, BackupTypeOK, ManifestSound, RestoreTellsWhatItRestored, Knows
<1> QED BY <1>1, OthersKnow

\* A step that closes the backup.
LEMMA ClosingSound ==
  ASSUME BackupIInv, NEW p \in Operator, NEW w \in BackupJob, Now(p, w),
         file' \in AfterClose(p) \cup Moving(file), file.there,
         UNCHANGED <<source, manifest, target, restored>>, Knows(w)
  PROVE  BackupIInv'
<1>1. SameBackup(file, file') /\ file' \in [there : BOOLEAN, main : Garbled..source, wal : 0..source]
  BY ClosingKeepsBackup
<1>2. BackupTypeOK' /\ ManifestSound' /\ RestoreTellsWhatItRestored' /\ Knows(w)'
  BY <1>1 DEF BackupIInv, BackupTypeOK, ManifestSound, RestoreTellsWhatItRestored, Knows, SameBackup
<1> QED BY <1>1, <1>2, OthersKnow

-----------------------------------------------------------------------------
\* The runtime writes: what is known of the file stays known.
LEMMA WriteSourceSound == BackupIInv /\ WriteSource => BackupIInv'
<1> SUFFICES ASSUME BackupIInv, WriteSource PROVE BackupIInv'
  OBVIOUS
<1>1. source \in Nat /\ source' = source + 1 /\ source < MaxVersion
      /\ UNCHANGED <<file, manifest, target, doing, restored>>
  BY DEF WriteSource, BackupIInv, BackupTypeOK
<1>2. BackupTypeOK'
  BY <1>1, BackupAssumption DEF BackupIInv, BackupTypeOK, Garbled
<1>3. Past \subseteq Past' /\ 1..source \subseteq 1..source'
  BY <1>1 DEF Past, Garbled
<1>4. BackupJob \subseteq BackupJob'
  BY <1>3 DEF BackupJob
<1>5. doing' \in [Operator -> BackupJob']
  BY <1>1, <1>4 DEF BackupIInv
<1>6. ManifestSound' /\ RestoreTellsWhatItRestored' /\ \A p \in Operator : Knows(doing[p])'
  BY <1>1 DEF BackupIInv, ManifestSound, RestoreTellsWhatItRestored, Knows
<1> QED BY <1>2, <1>5, <1>6 DEF BackupIInv

LEMMA BeginBackupSound ==
  ASSUME BackupIInv, NEW p \in Operator, NEW overwrite \in BOOLEAN, BeginBackup(p, overwrite)
  PROVE  BackupIInv'
<1> DEFINE w == [op |-> "open"]
<1>1. w \in BackupJob /\ Now(p, w) /\ UNCHANGED <<source, manifest, target, restored>>
  BY DEF BeginBackup, BackupJob
<1>2. /\ file' = [file EXCEPT !.there = TRUE]
      /\ file \in [there : BOOLEAN, main : Garbled..source, wal : 0..source]
  BY DEF BeginBackup, BackupIInv, BackupTypeOK
<1>3. View(file') = View(file) /\ file'.there /\ file'.wal = file.wal /\ file'.main = file.main
  BY <1>2 DEF View
<1>4. BackupTypeOK' /\ ManifestSound' /\ RestoreTellsWhatItRestored'
  BY <1>1, <1>2, <1>3 DEF BackupIInv, BackupTypeOK, ManifestSound, RestoreTellsWhatItRestored
<1>5. BackupJob' = BackupJob
  BY <1>1 DEF BackupJob, Past
<1>6. doing' \in [Operator -> BackupJob']
  BY <1>1, <1>5 DEF Now, BackupIInv
<1>7. ASSUME NEW q \in Operator PROVE Knows(doing[q])'
  BY <1>1, <1>3 DEF Now, BackupIInv, Knows
<1> QED BY <1>4, <1>6, <1>7 DEF BackupIInv

\* A first copy is written over nothing that anybody relies on.
LEMMA StartCopySound ==
  ASSUME BackupIInv, NEW p \in Operator, StartCopy(p)
  PROVE  BackupIInv'
<1> DEFINE w == [op |-> "copy", of |-> source]
<1>1. source \in 1..MaxVersion /\ doing[p].op = "open" /\ Knows(doing[p]) /\ file.there
  BY DEF BackupIInv, BackupTypeOK, StartCopy, Knows
<1>2. w \in BackupJob /\ Now(p, w) /\ UNCHANGED <<source, manifest, target, restored>>
  BY <1>1, BackupAssumption DEF StartCopy, BackupJob
<1>3. Knows(w)
  BY <1>1 DEF Knows
<1>4. CASE View(file) # 0
  BY <1>2, <1>3, <1>4, TurningSound DEF StartCopy
<1>5. CASE View(file) = 0
  <2>1. /\ file' = [file EXCEPT !.main = Garbled]
        /\ file \in [there : BOOLEAN, main : Garbled..source, wal : 0..source]
    BY <1>5 DEF StartCopy, BackupIInv, BackupTypeOK
  <2>2. file' \in [there : BOOLEAN, main : Garbled..source, wal : 0..source]
    BY <1>1, <2>1 DEF Garbled
  <2>3. file'.there = file.there /\ View(file') = 0
    BY <1>1, <1>5, <2>1 DEF View, Garbled
  <2>4. SameBackup(file, file')
    BY <1>5, <2>3 DEF SameBackup
  <2>5. BackupTypeOK' /\ ManifestSound' /\ RestoreTellsWhatItRestored' /\ Knows(w)'
    BY <1>1, <1>2, <1>5, <2>2, <2>3
    DEF BackupIInv, BackupTypeOK, ManifestSound, RestoreTellsWhatItRestored, Knows
  <2> QED BY <1>2, <2>4, <2>5, OthersKnow
<1> QED BY <1>4, <1>5

\* A copy that ends marks the restores it overtakes; whatever of its log is moved,
\* an opening finds the copy.
LEMMA FinishCopySound ==
  ASSUME BackupIInv, NEW p \in Operator, FinishCopy(p)
  PROVE  BackupIInv'
<1> DEFINE copy == doing[p].of
           long == [file EXCEPT !.wal = copy]
<1>1. /\ copy \in 1..source /\ source \in Nat /\ file.there /\ file \in BackupFile
      /\ UNCHANGED <<source, manifest, target, restored>>
  BY DEF FinishCopy, BackupIInv, BackupTypeOK, BackupJob, BackupFile, Past, Knows
<1>2. file' \in BackupFile /\ View(file') = copy /\ file'.there
  <2>1. CASE View(file) = 0
    <3>1. file' = [file EXCEPT !.main = copy] /\ file.wal = 0
      BY <1>1, <2>1 DEF FinishCopy, View, BackupFile
    <3> QED BY <1>1, <3>1 DEF View, BackupFile, Past, Garbled
  <2>2. CASE View(file) # 0
    <3>1. file' \in Moving(long) /\ long \in BackupFile /\ View(long) = copy /\ long.there
      BY <1>1, <2>2 DEF FinishCopy, View, BackupFile
    <3> QED BY <1>1, <3>1, MovingKeepsBackup DEF SameBackup
  <2> QED BY <2>1, <2>2
<1>3. BackupTypeOK' /\ ManifestSound' /\ RestoreTellsWhatItRestored'
  BY <1>1, <1>2 DEF BackupIInv, BackupTypeOK, ManifestSound, RestoreTellsWhatItRestored, BackupFile, Past
<1>4. ASSUME NEW q \in Operator
      PROVE  doing'[q] \in BackupJob /\ Knows(doing[q])'
  <2>1. CASE q = p
    <3>1. doing'[q] = [op |-> "close"]
      BY <2>1 DEF FinishCopy
    <3> QED BY <1>1, <1>2, <3>1 DEF BackupJob, Knows
  <2>2. CASE q # p /\ doing[q].op \in {"test", "stage"}
    <3>1. doing[q] \in [op : {"test", "stage"}, told : Past, altered : BOOLEAN]
      BY <2>2 DEF BackupIInv, BackupJob
    <3>2. doing'[q] = [doing[q] EXCEPT !.altered = TRUE]
      BY <2>2 DEF FinishCopy
    <3>3. doing'[q] \in [op : {"test", "stage"}, told : Past, altered : BOOLEAN] /\ doing'[q].altered
      BY <3>1, <3>2
    <3> QED BY <1>1, <1>2, <3>3 DEF BackupJob, Knows
  <2>3. CASE q # p /\ doing[q].op \notin {"test", "stage"}
    <3>1. doing'[q] = doing[q] /\ doing[q] \in BackupJob /\ Knows(doing[q])
      BY <2>3 DEF FinishCopy, BackupIInv
    <3> QED BY <1>1, <1>2, <2>3, <3>1 DEF Knows
  <2> QED BY <2>1, <2>2, <2>3
<1>5. BackupJob' = BackupJob
  BY <1>1 DEF BackupJob, Past
<1>6. doing' \in [Operator -> BackupJob']
  BY <1>4, <1>5 DEF FinishCopy
<1> QED BY <1>3, <1>4, <1>6 DEF BackupIInv

LEMMA ClosingStepsSound ==
  ASSUME BackupIInv, NEW p \in Operator, CloseCopy(p) \/ CheckBackup(p) \/ TestBackup(p)
  PROVE  BackupIInv'
<1>1. doing[p] \in BackupJob /\ Knows(doing[p]) /\ file.there
  BY DEF BackupIInv, CloseCopy, CheckBackup, TestBackup, Knows
<1>2. CASE CloseCopy(p)
  <2>1. [op |-> "check"] \in BackupJob /\ Knows([op |-> "check"])
    BY <1>1, <1>2 DEF CloseCopy, BackupJob, Knows
  <2> QED BY <1>1, <1>2, <2>1, ClosingSound DEF CloseCopy
<1>3. CASE CheckBackup(p)
  <2>1. [op |-> "hash"] \in BackupJob /\ Knows([op |-> "hash"])
    BY <1>1, <1>3 DEF CheckBackup, BackupJob, Knows
  <2> QED BY <1>1, <1>3, <2>1, ClosingSound DEF CheckBackup
<1>4. CASE TestBackup(p)
  <2> DEFINE w == [doing[p] EXCEPT !.op = "stage"]
  <2>1. doing[p] \in [op : {"test", "stage"}, told : Past, altered : BOOLEAN]
    BY <1>1, <1>4 DEF TestBackup, BackupJob
  <2>2. /\ w \in [op : {"test", "stage"}, told : Past, altered : BOOLEAN]
        /\ w.op = "stage" /\ w.told = doing[p].told /\ w.altered = doing[p].altered
    BY <2>1
  <2>3. w \in BackupJob /\ Knows(w)
    BY <1>1, <1>4, <2>2 DEF TestBackup, BackupJob, Knows
  <2> QED BY <1>1, <1>4, <2>3, ClosingSound DEF TestBackup
<1> QED BY <1>2, <1>3, <1>4

\* What is read of a file that has no log is the file.
LEMMA BytesArePast ==
  ASSUME BackupIInv, NEW p \in Operator, NEW bytes \in Bytes(p)
  PROVE  bytes \in Past /\ (file.wal = 0 => bytes = file.main)
BY DEF BackupIInv, BackupTypeOK, Bytes, Past, Garbled, View

LEMMA HashFileSound ==
  ASSUME BackupIInv, NEW p \in Operator, HashFile(p)
  PROVE  BackupIInv'
<1>1. View(file) > 0 /\ file.there /\ doing[p].op = "hash"
  BY DEF BackupIInv, Knows, HashFile
<1>2. PICK bytes \in Bytes(p) : Now(p, [op |-> "describe", of |-> bytes])
  BY DEF HashFile
<1>3. bytes \in Past
  BY <1>1, <1>2, BytesArePast
<1>4. [op |-> "describe", of |-> bytes] \in BackupJob
  BY <1>3 DEF BackupJob
<1>5. Knows([op |-> "describe", of |-> bytes])
  BY <1>1 DEF Knows
<1> QED BY <1>2, <1>4, <1>5, TurningSound DEF HashFile

LEMMA WriteManifestSound ==
  ASSUME BackupIInv, NEW p \in Operator, WriteManifest(p)
  PROVE  BackupIInv'
<1>1. doing[p] \in [op : {"describe"}, of : Past] /\ View(file) > 0
  BY DEF BackupIInv, BackupJob, Knows, WriteManifest
<1>2. BackupTypeOK' /\ ManifestSound' /\ RestoreTellsWhatItRestored'
  BY <1>1 DEF BackupIInv, BackupTypeOK, ManifestSound, RestoreTellsWhatItRestored, WriteManifest, Past
<1>3. Rest \in BackupJob /\ Knows(Rest)'
  BY DEF Rest, BackupJob, Knows
<1> QED BY <1>2, <1>3, OthersKnow DEF WriteManifest

LEMMA BeginRestoreSound ==
  ASSUME BackupIInv, NEW p \in Operator, NEW overwrite \in BOOLEAN, BeginRestore(p, overwrite)
  PROVE  BackupIInv'
<1> DEFINE w == [op |-> "verify", told |-> manifest.of]
<1>1. w \in BackupJob /\ Knows(w)
  BY DEF BackupIInv, BackupTypeOK, BackupJob, Past, Knows, ManifestSound, BeginRestore
<1> QED BY <1>1, TurningSound DEF BeginRestore

\* The comparison ties the file, when it has no log, to what the manifest told.
LEMMA VerifyBackupSound ==
  ASSUME BackupIInv, NEW p \in Operator, VerifyBackup(p)
  PROVE  BackupIInv'
<1> DEFINE w == [op |-> "test", told |-> doing[p].told, altered |-> file.wal # 0]
<1>1. doing[p] \in [op : {"verify"}, told : Past] /\ View(file) > 0 /\ file.there
  BY DEF BackupIInv, BackupJob, Knows, VerifyBackup
<1>2. PICK bytes \in Bytes(p) : Now(p, IF Matches(bytes, doing[p].told) THEN w ELSE Rest)
  BY DEF VerifyBackup
<1>3. Rest \in BackupJob /\ Knows(Rest)
  BY DEF Rest, BackupJob, Knows
<1>4. w \in BackupJob
  BY <1>1 DEF BackupJob
<1>5. bytes = doing[p].told => Knows(w)
  BY <1>1, <1>2, BytesArePast DEF Knows
<1> QED BY <1>2, <1>3, <1>4, <1>5, TurningSound DEF VerifyBackup, Matches

\* The staged copy takes over what is known of the file.
LEMMA StageBackupSound ==
  ASSUME BackupIInv, NEW p \in Operator, StageBackup(p)
  PROVE  BackupIInv'
<1> DEFINE w == [op |-> "replace", told |-> doing[p].told, staged |-> View(file),
                 altered |-> doing[p].altered]
<1>1. /\ doing[p] \in [op : {"test", "stage"}, told : Past, altered : BOOLEAN]
      /\ View(file) > 0 /\ file.there
      /\ doing[p].altered \/ (file.wal = 0 /\ file.main = doing[p].told)
  BY DEF BackupIInv, BackupJob, Knows, StageBackup
<1>2. View(file) \in 1..source
  BY <1>1 DEF BackupIInv, BackupTypeOK, View, Garbled
<1>3. View(file) = file.main \/ file.wal # 0
  BY <1>1 DEF View
<1>4. w \in BackupJob /\ Knows(w)
  BY <1>1, <1>2, <1>3 DEF BackupJob, Knows
<1> QED BY <1>1, <1>4, ClosingSound DEF StageBackup

LEMMA ReplaceTargetSound ==
  ASSUME BackupIInv, NEW p \in Operator, ReplaceTarget(p)
  PROVE  BackupIInv'
<1>1. /\ doing[p] \in [op : {"replace"}, told : Past, staged : 1..source, altered : BOOLEAN]
      /\ doing[p].altered \/ doing[p].staged = doing[p].told
      /\ source \in Nat
  BY DEF BackupIInv, BackupTypeOK, BackupJob, Knows, ReplaceTarget
<1>2. doing[p].staged \in Garbled..source /\ doing[p].staged > 0
  BY <1>1 DEF Garbled
<1>3. BackupTypeOK'
  BY <1>2 DEF BackupIInv, BackupTypeOK, ReplaceTarget
<1>4. RestoreTellsWhatItRestored'
  BY <1>1, <1>2 DEF BackupIInv, RestoreTellsWhatItRestored, ReplaceTarget
<1>5. ManifestSound' /\ Rest \in BackupJob /\ Knows(Rest)'
  BY DEF BackupIInv, ManifestSound, ReplaceTarget, Rest, BackupJob, Knows
<1> QED BY <1>3, <1>4, <1>5, OthersKnow DEF ReplaceTarget

\* An operator that stops leaves a log, a first copy cut short or a torn manifest.
LEMMA StopSound ==
  ASSUME BackupIInv, NEW p \in Operator, Stop(p)
  PROVE  BackupIInv'
<1>1. /\ manifest' \in {manifest, [manifest EXCEPT !.state = "torn"]}
      /\ Now(p, Rest) /\ UNCHANGED <<source, target, restored>>
  BY DEF Stop
<1>2. file.there /\ file \in BackupFile /\ source \in Nat
  BY DEF BackupIInv, BackupTypeOK, BackupFile, Past, Knows, Stop, Rest, BackupJob
<1>3. file' \in BackupFile /\ (SameBackup(file, file') \/ file' = file)
  <2>1. CASE ~Opening(p)
    BY <1>2, <2>1 DEF Stop
  <2>2. CASE Opening(p) /\ View(file) = 0
    <3>1. PICK m \in {0, Garbled} : file' = [file EXCEPT !.main = m]
      BY <2>2 DEF Stop
    <3>2. file.wal = 0
      BY <1>2, <2>2 DEF View, BackupFile
    <3>3. m \in Past /\ file \in [there : BOOLEAN, main : Past, wal : 0..source]
      BY <1>2 DEF BackupFile, Past, Garbled
    <3>4. file' \in BackupFile
      BY <3>1, <3>3 DEF BackupFile
    <3>5. file'.there = file.there /\ file'.wal = 0 /\ file'.main = m
      BY <3>1, <3>2, <3>3
    <3>6. View(file') = 0
      BY <3>5 DEF View
    <3> QED BY <2>2, <3>4, <3>5, <3>6 DEF SameBackup
  <2>3. CASE Opening(p) /\ View(file) # 0
    BY <1>2, <2>3, MovingKeepsBackup DEF Stop
  <2> QED BY <2>1, <2>2, <2>3
<1>4. View(file') = View(file) /\ file'.there
  BY <1>2, <1>3 DEF SameBackup
<1>5. BackupTypeOK'
  BY <1>1, <1>3, <1>4 DEF BackupIInv, BackupTypeOK, BackupFile, Past
<1>6. ManifestSound' /\ RestoreTellsWhatItRestored'
  BY <1>1, <1>4 DEF BackupIInv, BackupTypeOK, ManifestSound, RestoreTellsWhatItRestored
<1>7. Rest \in BackupJob /\ Knows(Rest)'
  BY DEF Rest, BackupJob, Knows
<1> QED BY <1>1, <1>3, <1>5, <1>6, <1>7, OthersKnow

LEMMA RunAtTargetSound ==
  ASSUME BackupIInv, NEW dies \in BOOLEAN, RunAtTarget(dies)
  PROVE  BackupIInv'
<1>1. UNCHANGED <<source, file, manifest, doing, restored>>
  BY DEF RunAtTarget
<1>2. BackupTypeOK'
  BY <1>1 DEF BackupIInv, BackupTypeOK, RunAtTarget, Garbled
<1>3. BackupJob' = BackupJob
  BY <1>1 DEF BackupJob, Past
<1> QED BY <1>1, <1>2, <1>3 DEF BackupIInv, ManifestSound, RestoreTellsWhatItRestored, Knows

LEMMA BackupNextSound == BackupIInv /\ [BackupNext]_backupVars => BackupIInv'
<1> SUFFICES ASSUME BackupIInv, [BackupNext]_backupVars PROVE BackupIInv'
  OBVIOUS
<1>1. CASE UNCHANGED backupVars
  BY <1>1 DEF backupVars, BackupIInv, BackupTypeOK, ManifestSound, Knows, BackupJob, Past,
     RestoreTellsWhatItRestored
<1>2. CASE WriteSource
  BY <1>2, WriteSourceSound
<1>3. CASE \E p \in Operator, overwrite \in BOOLEAN : BeginBackup(p, overwrite) \/ BeginRestore(p, overwrite)
  BY <1>3, BeginBackupSound, BeginRestoreSound
<1>4. ASSUME NEW p \in Operator,
             \/ StartCopy(p) \/ FinishCopy(p) \/ CloseCopy(p) \/ CheckBackup(p)
             \/ HashFile(p) \/ WriteManifest(p)
      PROVE  BackupIInv'
  BY <1>4, StartCopySound, FinishCopySound, ClosingStepsSound, HashFileSound, WriteManifestSound
<1>5. ASSUME NEW p \in Operator,
             VerifyBackup(p) \/ TestBackup(p) \/ StageBackup(p) \/ ReplaceTarget(p) \/ Stop(p)
      PROVE  BackupIInv'
  BY <1>5, VerifyBackupSound, ClosingStepsSound, StageBackupSound, ReplaceTargetSound, StopSound
<1>6. CASE \E dies \in BOOLEAN : RunAtTarget(dies)
  BY <1>6, RunAtTargetSound
<1> QED BY <1>1, <1>2, <1>3, <1>4, <1>5, <1>6 DEF BackupNext

LEMMA BackupInductive == BackupSpec => []BackupIInv
BY BackupInitSound, BackupNextSound, PTL DEF BackupSpec

-----------------------------------------------------------------------------
\* Whatever backups overwrite one another and wherever an operator stops, a
\* restore stages the version its manifest is about, unless the backup had a log
\* when it was compared, which hash and size do not cover, or a copy committed to it
\* between the comparison and the staged copy (restore_backup).
THEOREM RestoreIsTrue == BackupSpec => []RestoreTellsWhatItRestored
<1>1. BackupIInv => RestoreTellsWhatItRestored
  BY DEF BackupIInv
<1> QED BY BackupInductive, <1>1, PTL

\* Backups, restores, crashes and runtimes that go on: the bytes of the file, what
\* its log commits and what the manifest tells are of versions the source has had,
\* or mixtures of such; and so is what is put at the destination.
THEOREM BackupIsTyped == BackupSpec => []BackupTypeOK
<1>1. BackupIInv => BackupTypeOK
  BY DEF BackupIInv
<1> QED BY BackupInductive, <1>1, PTL

-----------------------------------------------------------------------------
\* Audit archives: a payload fits the ledger it was taken from, the ledger only
\* grows, and payloads are copied whole.

Payload == [count : Nat, cutoff : Int, seen : Nat]

Fits(payload) ==
  /\ payload.seen <= Len(ledger)
  /\ \A i \in 1..payload.seen : ledger[i] <= payload.cutoff <=> i <= payload.count

ArchiveJob == {Done} \cup [stage : {"file", "manifest"}, payload : Payload]

ArchiveIInv ==
  /\ clock \in Int /\ ledger \in Seq(Int)
  /\ archiving \in [Archiver -> ArchiveJob]
  /\ archive.state = "whole" => archive.payload \in Payload /\ Fits(archive.payload)
  /\ described.state = "whole" => described.payload \in Payload
  /\ \A a \in Archiver : archiving[a] # Done => Fits(archiving[a].payload)

LEMMA ArchiveInitIInv == ArchiveInit => ArchiveIInv
BY DEF ArchiveInit, ArchiveIInv, ArchiveJob, Absent, Done

\* What fits a ledger fits it after an event is appended.
LEMMA LedgerGrows ==
  ASSUME ArchiveIInv, NEW payload \in Payload, Fits(payload), AppendAudit
  PROVE  Fits(payload)'
<1>1. ledger' = Append(ledger, clock) /\ ledger \in Seq(Int) /\ clock \in Int
  BY DEF AppendAudit, ArchiveIInv
<1>2. Len(ledger') = Len(ledger) + 1 /\ \A i \in 1..Len(ledger) : ledger'[i] = ledger[i]
  BY <1>1
<1>3. Len(ledger) \in Nat /\ payload.seen \in Nat
  BY <1>1 DEF Payload
<1>. QED BY <1>2, <1>3 DEF Fits

LEMMA SetClockKeeps ==
  ASSUME ArchiveIInv, NEW t \in 1..MaxTime, SetClock(t)
  PROVE  ArchiveIInv'
BY ArchiveAssumption DEF ArchiveIInv, SetClock, Fits, ArchiveJob

LEMMA AppendAuditKeeps ==
  ASSUME ArchiveIInv, AppendAudit
  PROVE  ArchiveIInv'
<1>1. ledger' \in Seq(Int) /\ UNCHANGED <<clock, archive, described, archiving>>
  BY DEF ArchiveIInv, AppendAudit
<1>2. ASSUME archive'.state = "whole" PROVE Fits(archive.payload)' /\ archive'.payload \in Payload
  BY <1>1, <1>2, LedgerGrows DEF ArchiveIInv, Fits
<1>3. ASSUME NEW a \in Archiver, archiving'[a] # Done PROVE Fits(archiving[a].payload)'
  <2>1. archiving[a].payload \in Payload /\ Fits(archiving[a].payload)
    BY <1>1, <1>3 DEF ArchiveIInv, ArchiveJob
  <2>2. archiving'[a].payload = archiving[a].payload
    BY <1>1
  <2>. QED BY <2>1, <2>2, LedgerGrows DEF Fits
<1>. QED BY <1>1, <1>2, <1>3 DEF ArchiveIInv, Fits

\* What create_archive takes from the ledger is all of it up to the cutoff.
LEMMA BeginArchiveKeeps ==
  ASSUME ArchiveIInv, NEW a \in Archiver, NEW overwrite \in BOOLEAN, BeginArchive(a, overwrite)
  PROVE  ArchiveIInv'
<1>. DEFINE cutoff == clock - RetainFor
<1>1. PICK n \in 1..Len(ledger) :
        /\ Eligible(n, cutoff) /\ TailIsNewer(n, cutoff)
        /\ archiving' = [archiving EXCEPT ![a] =
                           [stage |-> "file", payload |-> [count |-> n, cutoff |-> cutoff, seen |-> Len(ledger)]]]
  BY DEF BeginArchive
<1>. DEFINE payload == [count |-> n, cutoff |-> cutoff, seen |-> Len(ledger)]
<1>2. ledger \in Seq(Int) /\ clock \in Int /\ cutoff \in Int /\ Len(ledger) \in Nat /\ n \in Nat
  BY <1>1, ArchiveAssumption DEF ArchiveIInv
<1>3. payload \in Payload
  BY <1>2 DEF Payload
<1>4. Fits(payload)
  <2>1. ASSUME NEW i \in 1..Len(ledger) PROVE ledger[i] <= cutoff <=> i <= n
    <3>1. CASE i <= n
      BY <3>1, <1>1, <1>2 DEF Eligible
    <3>2. CASE i > n
      <4>1. i \in n + 1..Len(ledger)
        BY <3>2, <1>2
      <4>2. ledger[i] > cutoff /\ ledger[i] \in Int
        BY <4>1, <1>1, <1>2 DEF TailIsNewer
      <4>. QED BY <4>2, <3>2, <1>2
    <3>. QED BY <3>1, <3>2, <1>2
  <2>2. payload.seen = Len(ledger) /\ payload.cutoff = cutoff /\ payload.count = n
    OBVIOUS
  <2>. QED BY <2>1, <2>2, <1>2 DEF Fits
<1>. HIDE DEF payload, cutoff
<1>5. UNCHANGED <<clock, ledger, archive, described>>
  BY DEF BeginArchive
<1>6. archiving' = [archiving EXCEPT ![a] = [stage |-> "file", payload |-> payload]]
  BY <1>1 DEF payload
<1>7. archiving' \in [Archiver -> ArchiveJob]
  BY <1>3, <1>6 DEF ArchiveIInv, ArchiveJob
<1>8. \A b \in Archiver : archiving'[b] # Done => Fits(archiving'[b].payload)
  BY <1>4, <1>6 DEF ArchiveIInv
<1>. QED BY <1>5, <1>7, <1>8 DEF ArchiveIInv, Fits

LEMMA WriteArchiveKeeps ==
  ASSUME ArchiveIInv, NEW a \in Archiver, WriteArchive(a)
  PROVE  ArchiveIInv'
<1>1. archiving[a] \in [stage : {"file", "manifest"}, payload : Payload] /\ archiving[a] # Done
  BY DEF ArchiveIInv, WriteArchive, ArchiveJob, Done
<1>2. archiving' = [archiving EXCEPT ![a].stage = "manifest"] /\ UNCHANGED <<clock, ledger, described>>
  BY DEF WriteArchive
<1>3. archive' = [state |-> "whole", payload |-> archiving[a].payload]
  BY DEF WriteArchive
<1>4. archiving' \in [Archiver -> ArchiveJob]
  BY <1>1, <1>2 DEF ArchiveIInv, ArchiveJob
<1>5. \A b \in Archiver : archiving'[b] # Done => Fits(archiving'[b].payload)
  BY <1>1, <1>2 DEF ArchiveIInv
<1>6. archive'.payload \in Payload /\ Fits(archive'.payload)
  BY <1>1, <1>3 DEF ArchiveIInv
<1>. QED BY <1>2, <1>4, <1>5, <1>6 DEF ArchiveIInv, Fits

LEMMA WriteDescriptionKeeps ==
  ASSUME ArchiveIInv, NEW a \in Archiver, WriteDescription(a)
  PROVE  ArchiveIInv'
<1>1. archiving[a] \in [stage : {"file", "manifest"}, payload : Payload]
  BY DEF ArchiveIInv, WriteDescription, ArchiveJob, Done
<1>2. archiving' = [archiving EXCEPT ![a] = Done] /\ UNCHANGED <<clock, ledger, archive>>
      /\ described' = [state |-> "whole", payload |-> archiving[a].payload]
  BY DEF WriteDescription
<1>3. archiving' \in [Archiver -> ArchiveJob] /\ \A b \in Archiver : archiving'[b] # Done => Fits(archiving'[b].payload)
  BY <1>2 DEF ArchiveIInv, ArchiveJob
<1>4. described'.payload \in Payload
  BY <1>1, <1>2
<1>. QED BY <1>2, <1>3, <1>4 DEF ArchiveIInv, Fits

LEMMA CrashArchiverKeeps ==
  ASSUME ArchiveIInv, NEW a \in Archiver, CrashArchiver(a)
  PROVE  ArchiveIInv'
<1>1. archiving' = [archiving EXCEPT ![a] = Done] /\ UNCHANGED <<clock, ledger>>
  BY DEF CrashArchiver
<1>2. archiving' \in [Archiver -> ArchiveJob] /\ \A b \in Archiver : archiving'[b] # Done => Fits(archiving'[b].payload)
  BY <1>1 DEF ArchiveIInv, ArchiveJob
<1>3. archive' = archive \/ archive'.state = "torn"
  BY DEF CrashArchiver
<1>4. described' = described \/ described'.state = "torn"
  BY DEF CrashArchiver
<1>. QED BY <1>1, <1>2, <1>3, <1>4 DEF ArchiveIInv, Fits

LEMMA ArchiveNextKeeps ==
  ASSUME ArchiveIInv, [ArchiveNext]_archiveVars
  PROVE  ArchiveIInv'
<1>1. CASE UNCHANGED archiveVars
  BY <1>1 DEF ArchiveIInv, archiveVars, Fits
<1>2. CASE ArchiveNext
  BY <1>2, SetClockKeeps, AppendAuditKeeps, BeginArchiveKeeps, WriteArchiveKeeps,
     WriteDescriptionKeeps, CrashArchiverKeeps DEF ArchiveNext
<1>. QED BY <1>1, <1>2

\* The hash ties the manifest's cutoff and count to those of the file.
LEMMA VerifiedIsThePast ==
  ASSUME ArchiveIInv
  PROVE  ArchiveIsThePast
<1>1. SUFFICES ASSUME Verifies
      PROVE  \A i \in 1..archive.payload.seen :
               ledger[i] <= described.payload.cutoff <=> i <= described.payload.count
  BY DEF ArchiveIsThePast
<1>2. archive.payload \in Payload /\ Fits(archive.payload) /\ described.payload \in Payload
  BY <1>1 DEF ArchiveIInv, Verifies
<1>3. [archive.payload EXCEPT !.seen = 0] = [described.payload EXCEPT !.seen = 0]
  BY <1>1 DEF Verifies
<1>4. \A p \in Payload : [p EXCEPT !.seen = 0].cutoff = p.cutoff /\ [p EXCEPT !.seen = 0].count = p.count
  BY DEF Payload
<1>5. archive.payload.cutoff = described.payload.cutoff /\ archive.payload.count = described.payload.count
  BY <1>2, <1>3, <1>4
<1>. QED BY <1>2, <1>5 DEF Fits

\* Audit retention: an archive that verifies holds what was at or before its cutoff,
\* whatever archivers overwrite, crash in or do to the clock.
THEOREM VerifiedArchiveIsThePast == ArchiveSpec => []ArchiveIsThePast
BY ArchiveInitIInv, ArchiveNextKeeps, VerifiedIsThePast, PTL DEF ArchiveSpec

\* Audit retention: the ledger holds times the clock has shown, and a file is
\* whole, torn or absent, whenever archivers stop.
THEOREM ArchiveIsTyped == ArchiveSpec => []ArchiveTypeOK
<1>1. ArchiveInit => ArchiveTypeOK
  BY ArchiveAssumption DEF ArchiveInit, ArchiveTypeOK, Absent
<1>2. ArchiveTypeOK /\ [ArchiveNext]_archiveVars => ArchiveTypeOK'
  <2> SUFFICES ASSUME ArchiveTypeOK, [ArchiveNext]_archiveVars PROVE ArchiveTypeOK'
    OBVIOUS
  <2>1. CASE UNCHANGED archiveVars
    BY <2>1 DEF archiveVars, ArchiveTypeOK
  <2>2. ASSUME NEW t \in 1..MaxTime, SetClock(t) PROVE ArchiveTypeOK'
    BY <2>2 DEF SetClock, ArchiveTypeOK
  <2>3. CASE AppendAudit
    <3>1. ledger' \in Seq(1..MaxTime)
      BY <2>3, AppendProperties DEF AppendAudit, ArchiveTypeOK
    <3> QED BY <2>3, <3>1 DEF AppendAudit, ArchiveTypeOK
  <2>4. ASSUME NEW a \in Archiver, NEW overwrite \in BOOLEAN, BeginArchive(a, overwrite)
        PROVE  ArchiveTypeOK'
    BY <2>4 DEF BeginArchive, ArchiveTypeOK
  <2>5. ASSUME NEW a \in Archiver, WriteArchive(a) \/ WriteDescription(a) \/ CrashArchiver(a)
        PROVE  ArchiveTypeOK'
    BY <2>5 DEF WriteArchive, WriteDescription, CrashArchiver, ArchiveTypeOK
  <2> QED BY <2>1, <2>2, <2>3, <2>4, <2>5 DEF ArchiveNext
<1> QED BY <1>1, <1>2, PTL DEF ArchiveSpec

-----------------------------------------------------------------------------
\* Organizational memory: while nothing is inserted behind the back of a writer,
\* what it read of the log, the status first and then the head, is still so.

Outcome == [memory : Memory, kind : {"PROMOTED", "SUPERSEDED", "DEPRECATED"},
            to : Memory \cup {l.mission : l \in Lesson}]
Hash == {h \in Seq(Outcome) : h # <<>>}

MemoryTypes ==
  /\ log \in Seq(Hash)
  /\ job \in [Writer -> {Idle} \cup [stage : {"checked"}, event : Outcome]
                               \cup [stage : {"headed"}, hash : Hash]]
  /\ alone \in BOOLEAN

\* A writer on its way is about to give its memory the first final event, and
\* after it has read the head, right behind that head.
ReadIsCurrent ==
  \A w \in Writer :
    /\ job[w].stage = "checked" => FinalEvents(job[w].event.memory) = {}
    /\ job[w].stage = "headed" =>
         Front(job[w].hash) = HeadOf(log) /\ FinalEvents(EventOf(job[w].hash).memory) = {}

FinalOnce == \A m : \A i, j \in FinalEvents(m) : i = j

MemoryIInv == MemoryTypes /\ (alone => ReadIsCurrent /\ VerifyAuditChain /\ FinalOnce)

LEMMA MemoryInitIInv == MemoryInit => MemoryIInv
<1> SUFFICES ASSUME MemoryInit PROVE MemoryIInv
  OBVIOUS
<1>1. log = <<>> /\ DOMAIN log = {} /\ log \in Seq(Hash)
  BY DEF MemoryInit
<1>2. QED
  BY <1>1 DEF MemoryInit, MemoryIInv, MemoryTypes, ReadIsCurrent, VerifyAuditChain, FinalOnce,
     FinalEvents, Idle

\* The head of a log, and what is before and what is last in an extended hash.
LEMMA Heads ==
  ASSUME NEW S, NEW l \in Seq(S)
  PROVE  /\ l # <<>> => HeadOf(l) = l[Len(l)]
         /\ \A i \in 1..Len(l) : HeadOf(SubSeq(l, 1, i - 1)) = IF i = 1 THEN <<>> ELSE l[i - 1]
         /\ \A e \in S : Front(Append(l, e)) = l /\ EventOf(Append(l, e)) = e
<1>1. l # <<>> => HeadOf(l) = l[Len(l)]
  BY DEF HeadOf, Last
<1>2. ASSUME NEW i \in 1..Len(l)
      PROVE  HeadOf(SubSeq(l, 1, i - 1)) = IF i = 1 THEN <<>> ELSE l[i - 1]
  <2>1. CASE i = 1
    BY <2>1 DEF HeadOf
  <2>2. CASE i # 1
    <3>. DEFINE f == SubSeq(l, 1, i - 1)
    <3>1. i - 1 \in 1..Len(l) /\ Len(f) = i - 1 /\ f[i - 1] = l[i - 1]
      BY <2>2
    <3>. HIDE DEF f
    <3>2. f # <<>>
      BY <2>2, <3>1
    <3>3. HeadOf(f) = l[i - 1]
      BY <3>1, <3>2 DEF HeadOf, Last
    <3>4. QED
      BY <2>2, <3>3 DEF f
  <2>3. QED
    BY <2>1, <2>2
<1>3. ASSUME NEW e \in S PROVE Front(Append(l, e)) = l /\ EventOf(Append(l, e)) = e
  BY DEF Front, EventOf, Last
<1>4. QED
  BY <1>1, <1>2, <1>3

\* One event more at the end of the log.
LEMMA LogGrows ==
  ASSUME log \in Seq(Hash), NEW hash \in Hash, log' = Append(log, hash)
  PROVE  /\ log' \in Seq(Hash)
         /\ Front(hash) = HeadOf(log) /\ VerifyAuditChain => VerifyAuditChain'
         /\ \A m : FinalEvents(m)' =
              IF EventOf(hash).memory = m /\ Final(EventOf(hash).kind)
              THEN FinalEvents(m) \cup {Len(log) + 1} ELSE FinalEvents(m)
         /\ \A m : Len(log) + 1 \notin FinalEvents(m)
<1>1. /\ log' \in Seq(Hash) /\ Len(log') = Len(log) + 1 /\ Len(log) \in Nat
      /\ DOMAIN log = 1..Len(log) /\ DOMAIN log' = 1..(Len(log) + 1)
      /\ \A i \in 1..Len(log) : log'[i] = log[i]
      /\ log'[Len(log) + 1] = hash
  BY AppendProperties, LenProperties
<1>2. ASSUME Front(hash) = HeadOf(log), VerifyAuditChain PROVE VerifyAuditChain'
  <2>1. SUFFICES ASSUME NEW i \in 1..(Len(log) + 1)
        PROVE  Front(log'[i]) = HeadOf(SubSeq(log', 1, i - 1))
    BY <1>1 DEF VerifyAuditChain
  <2>2. HeadOf(SubSeq(log', 1, i - 1)) = IF i = 1 THEN <<>> ELSE log'[i - 1]
    BY <1>1, Heads
  <2>3. CASE i = Len(log) + 1
    <3>1. i = 1 => log = <<>> /\ HeadOf(log) = <<>>
      BY <1>1, <2>3 DEF HeadOf
    <3>2. i # 1 => log # <<>> /\ HeadOf(log) = log[Len(log)] /\ log'[i - 1] = log[Len(log)]
      <4>1. i # 1 => i - 1 = Len(log) /\ Len(log) \in 1..Len(log)
        BY <1>1, <2>3
      <4>2. i # 1 => log # <<>>
        BY <4>1
      <4>3. log # <<>> => HeadOf(log) = log[Len(log)]
        BY Heads
      <4>4. QED
        BY <1>1, <4>1, <4>2, <4>3
    <3>3. QED
      BY <1>1, <1>2, <2>2, <2>3, <3>1, <3>2
  <2>4. CASE i # Len(log) + 1
    <3>1. i \in 1..Len(log) /\ (i # 1 => i - 1 \in 1..Len(log))
      BY <1>1, <2>4
    <3>2. Front(log[i]) = HeadOf(SubSeq(log, 1, i - 1))
      BY <1>1, <1>2, <3>1 DEF VerifyAuditChain
    <3>3. HeadOf(SubSeq(log, 1, i - 1)) = IF i = 1 THEN <<>> ELSE log[i - 1]
      BY <3>1, Heads
    <3>4. QED
      BY <1>1, <2>2, <3>1, <3>2, <3>3
  <2>5. QED
    BY <2>3, <2>4
<1>3. ASSUME NEW m
      PROVE  FinalEvents(m)' =
              IF EventOf(hash).memory = m /\ Final(EventOf(hash).kind)
              THEN FinalEvents(m) \cup {Len(log) + 1} ELSE FinalEvents(m)
  <2>1. \A i \in 1..(Len(log) + 1) : i \in 1..Len(log) \/ i = Len(log) + 1
    BY <1>1
  <2>2. Len(log) + 1 \notin 1..Len(log) /\ 1..Len(log) \subseteq 1..(Len(log) + 1)
    BY <1>1
  <2>3. QED
    BY <1>1, <2>1, <2>2 DEF FinalEvents
<1>4. \A m : Len(log) + 1 \notin FinalEvents(m)
  BY <1>1 DEF FinalEvents
<1>5. QED
  BY <1>1, <1>2, <1>3, <1>4

LEMMA HeadIsSequence ==
  ASSUME MemoryTypes
  PROVE  HeadOf(log) \in Seq(Outcome) /\ log \in Seq(Hash)
<1>1. log \in Seq(Hash)
  BY DEF MemoryTypes
<1>2. CASE log = <<>>
  BY <1>1, <1>2 DEF HeadOf
<1>3. CASE log # <<>>
  <2>1. HeadOf(log) = log[Len(log)] /\ log[Len(log)] \in Hash
    BY <1>1, <1>3, Heads
  <2>2. QED
    BY <1>1, <2>1 DEF Hash
<1>4. QED
  BY <1>2, <1>3

LEMMA HashGrows ==
  ASSUME NEW h \in Seq(Outcome), NEW e \in Outcome
  PROVE  Append(h, e) \in Hash /\ Front(Append(h, e)) = h /\ EventOf(Append(h, e)) = e
<1>1. Append(h, e) \in Seq(Outcome) /\ Append(h, e) # <<>>
  BY AppendProperties
<1>2. QED
  BY <1>1, Heads DEF Hash

LEMMA PromoteKeeps ==
  ASSUME MemoryIInv, NEW m \in Memory, NEW lesson \in Lesson, NEW observed,
         Promote(m, lesson, observed)
  PROVE  MemoryIInv'
<1>. DEFINE event == [memory |-> m, kind |-> "PROMOTED", to |-> lesson.mission]
            hash == Append(HeadOf(log), event)
<1>1. /\ log' = Append(log, hash) /\ job' = job
      /\ alone' = (alone /\ \A w \in Writer : job[w] = Idle)
  BY DEF Promote
<1>2. event \in Outcome
  BY DEF Outcome
<1>3. HeadOf(log) \in Seq(Outcome) /\ log \in Seq(Hash)
  BY HeadIsSequence DEF MemoryIInv
<1>4. hash \in Hash /\ Front(hash) = HeadOf(log) /\ EventOf(hash) = event
  BY <1>2, <1>3, HashGrows
<1>. HIDE DEF hash
<1>5. ~Final(EventOf(hash).kind)
  BY <1>4 DEF Final
<1>6. \A n : FinalEvents(n)' = FinalEvents(n)
  BY <1>1, <1>3, <1>4, <1>5, LogGrows
<1>7. MemoryTypes'
  <2>1. alone' \in BOOLEAN
    BY <1>1, Zenon
  <2>2. log' \in Seq(Hash)
    BY <1>1, <1>3, <1>4, LogGrows
  <2>3. QED
    BY <1>1, <2>1, <2>2 DEF MemoryIInv, MemoryTypes
<1>8. ASSUME alone' PROVE ReadIsCurrent' /\ VerifyAuditChain' /\ FinalOnce'
  <2>1. alone /\ \A w \in Writer : job[w] = Idle
    BY <1>1, <1>8
  <2>2. ReadIsCurrent'
    BY <1>1, <2>1 DEF ReadIsCurrent, Idle
  <2>3. VerifyAuditChain'
    BY <1>1, <1>3, <1>4, <2>1, LogGrows DEF MemoryIInv
  <2>4. FinalOnce'
    BY <1>6, <2>1 DEF MemoryIInv, FinalOnce
  <2>5. QED
    BY <2>2, <2>3, <2>4
<1>9. QED
  BY <1>7, <1>8 DEF MemoryIInv

\* While nobody raced, a memory with status ACTIVE has no final event.
LEMMA ActiveHasNone ==
  ASSUME MemoryTypes, FinalOnce, NEW m, Status(m) = "ACTIVE"
  PROVE  FinalEvents(m) = {}
<1>1. SUFFICES ASSUME NEW i \in FinalEvents(m) PROVE FALSE
  OBVIOUS
<1>2. FinalEvents(m) = {i}
  BY DEF FinalOnce
<1>3. (CHOOSE k \in FinalEvents(m) : \A j \in FinalEvents(m) : j <= k) \in FinalEvents(m)
  <2>1. i \in Nat /\ i <= i
    <3>1. DOMAIN log = 1..Len(log) /\ Len(log) \in Nat
      BY LenProperties DEF MemoryTypes
    <3>2. QED
      BY <3>1 DEF FinalEvents
  <2>2. QED
    BY <1>2, <2>1
<1>4. Status(m) = EventOf(log[i]).kind
  BY <1>2, <1>3 DEF Status
<1>5. QED
  BY <1>4 DEF FinalEvents, Final

LEMMA CheckStatusKeeps ==
  ASSUME MemoryIInv, NEW w \in Writer, NEW m \in Memory, NEW to \in Memory,
         NEW kind \in {"SUPERSEDED", "DEPRECATED"}, CheckStatus(w, m, kind, to)
  PROVE  MemoryIInv'
<1>. DEFINE event == [memory |-> m, kind |-> kind, to |-> to]
            check == [stage |-> "checked", event |-> event]
<1>1. /\ job' = [job EXCEPT ![w] = check] /\ UNCHANGED <<log, alone>> /\ Status(m) = "ACTIVE"
  BY DEF CheckStatus, IsActive
<1>2. event \in Outcome /\ event.memory = m
  BY DEF Outcome
<1>3. check \in [stage : {"checked"}, event : Outcome] /\ check.event.memory = m /\ check.stage = "checked"
  BY <1>2
<1>. HIDE DEF check
<1>4. MemoryTypes'
  BY <1>1, <1>3 DEF MemoryIInv, MemoryTypes
<1>5. ASSUME alone' PROVE ReadIsCurrent' /\ VerifyAuditChain' /\ FinalOnce'
  <2>1. ReadIsCurrent /\ VerifyAuditChain /\ FinalOnce
    BY <1>1, <1>5 DEF MemoryIInv
  <2>2. FinalEvents(m) = {}
    BY <1>1, <2>1, ActiveHasNone DEF MemoryIInv
  <2>3. \A n : FinalEvents(n)' = FinalEvents(n)
    BY <1>1 DEF FinalEvents
  <2>4. job'[w] = check /\ \A v \in Writer \ {w} : job'[v] = job[v]
    BY <1>1 DEF MemoryIInv, MemoryTypes
  <2>5. ReadIsCurrent'
    BY <1>1, <1>3, <2>1, <2>2, <2>3, <2>4 DEF ReadIsCurrent
  <2>6. VerifyAuditChain' /\ FinalOnce'
    BY <1>1, <2>1, <2>3 DEF VerifyAuditChain, FinalOnce
  <2>7. QED
    BY <2>5, <2>6
<1>6. QED
  BY <1>4, <1>5 DEF MemoryIInv

LEMMA ReadHeadKeeps ==
  ASSUME MemoryIInv, NEW w \in Writer, ReadHead(w)
  PROVE  MemoryIInv'
<1>. DEFINE event == job[w].event
            hash == Append(HeadOf(log), event)
            headed == [stage |-> "headed", hash |-> hash]
<1>1. /\ job' = [job EXCEPT ![w] = headed] /\ UNCHANGED <<log, alone>> /\ job[w].stage = "checked"
  <2>1. w \in DOMAIN job
    BY DEF MemoryIInv, MemoryTypes
  <2>2. QED
    BY <2>1 DEF ReadHead
<1>2. event \in Outcome
  BY <1>1 DEF MemoryIInv, MemoryTypes, Idle
<1>3. HeadOf(log) \in Seq(Outcome)
  BY HeadIsSequence DEF MemoryIInv
<1>. HIDE DEF event
<1>4. hash \in Hash /\ Front(hash) = HeadOf(log) /\ EventOf(hash) = event
  BY <1>2, <1>3, HashGrows
<1>. HIDE DEF hash
<1>5. headed \in [stage : {"headed"}, hash : Hash] /\ headed.hash = hash /\ headed.stage = "headed"
  BY <1>4
<1>. HIDE DEF headed
<1>6. MemoryTypes'
  BY <1>1, <1>5 DEF MemoryIInv, MemoryTypes
<1>7. ASSUME alone' PROVE ReadIsCurrent' /\ VerifyAuditChain' /\ FinalOnce'
  <2>1. ReadIsCurrent /\ VerifyAuditChain /\ FinalOnce
    BY <1>1, <1>7 DEF MemoryIInv
  <2>2. FinalEvents(event.memory) = {}
    BY <1>1, <2>1 DEF ReadIsCurrent, event
  <2>3. \A n : FinalEvents(n)' = FinalEvents(n)
    BY <1>1 DEF FinalEvents
  <2>4. job'[w] = headed /\ \A v \in Writer \ {w} : job'[v] = job[v]
    BY <1>1 DEF MemoryIInv, MemoryTypes
  <2>5. ReadIsCurrent'
    BY <1>1, <1>4, <1>5, <2>1, <2>2, <2>3, <2>4 DEF ReadIsCurrent
  <2>6. VerifyAuditChain' /\ FinalOnce'
    BY <1>1, <2>1, <2>3 DEF VerifyAuditChain, FinalOnce
  <2>7. QED
    BY <2>5, <2>6
<1>8. QED
  BY <1>6, <1>7 DEF MemoryIInv

\* A writer that is done, or dead, leaves what the others have read.
LEMMA RetireKeeps ==
  ASSUME MemoryIInv, NEW w \in Writer, job' = [job EXCEPT ![w] = Idle], UNCHANGED <<log, alone>>
  PROVE  MemoryIInv'
<1>1. MemoryTypes'
  BY DEF MemoryIInv, MemoryTypes
<1>2. job'[w] = Idle /\ \A v \in Writer \ {w} : job'[v] = job[v]
  BY DEF MemoryIInv, MemoryTypes
<1>3. \A n : FinalEvents(n)' = FinalEvents(n)
  BY DEF FinalEvents
<1>4. ASSUME alone' PROVE ReadIsCurrent' /\ VerifyAuditChain' /\ FinalOnce'
  <2>1. ReadIsCurrent'
    BY <1>2, <1>3, <1>4 DEF MemoryIInv, ReadIsCurrent, Idle
  <2>2. VerifyAuditChain' /\ FinalOnce'
    BY <1>3, <1>4 DEF MemoryIInv, VerifyAuditChain, FinalOnce
  <2>3. QED
    BY <2>1, <2>2
<1>5. QED
  BY <1>1, <1>4 DEF MemoryIInv

LEMMA InsertEventKeeps ==
  ASSUME MemoryIInv, NEW w \in Writer, InsertEvent(w)
  PROVE  MemoryIInv'
<1>. DEFINE hash == job[w].hash
<1>1. job' = [job EXCEPT ![w] = Idle] /\ job[w].stage = "headed"
  BY DEF InsertEvent
<1>2. CASE ~IsNew(hash)
  BY <1>1, <1>2, RetireKeeps DEF InsertEvent
<1>3. CASE IsNew(hash)
  <2>1. /\ log' = Append(log, hash)
        /\ alone' = (alone /\ \A v \in Writer \ {w} : job[v] = Idle)
    BY <1>3 DEF InsertEvent
  <2>2. hash \in Hash /\ log \in Seq(Hash)
    BY <1>1 DEF MemoryIInv, MemoryTypes, Idle
  <2>3. MemoryTypes'
    <3>1. alone' \in BOOLEAN
      BY <2>1, Zenon
    <3>. HIDE DEF hash
    <3>2. log' \in Seq(Hash)
      BY <2>1, <2>2, LogGrows
    <3>3. QED
      BY <1>1, <3>1, <3>2 DEF MemoryIInv, MemoryTypes
  <2>4. ASSUME alone' PROVE ReadIsCurrent' /\ VerifyAuditChain' /\ FinalOnce'
    <3>1. /\ alone /\ \A v \in Writer \ {w} : job[v] = Idle
          /\ ReadIsCurrent /\ VerifyAuditChain /\ FinalOnce
      BY <2>1, <2>4 DEF MemoryIInv
    <3>2. \A v \in Writer : job'[v] = Idle
      BY <1>1, <3>1 DEF MemoryIInv, MemoryTypes
    <3>3. ReadIsCurrent'
      BY <3>2 DEF ReadIsCurrent, Idle
    <3>4. Front(hash) = HeadOf(log) /\ FinalEvents(EventOf(hash).memory) = {}
      BY <1>1, <3>1 DEF ReadIsCurrent
    <3>. HIDE DEF hash
    <3>5. VerifyAuditChain'
      BY <2>1, <2>2, <3>1, <3>4, LogGrows
    <3>6. FinalOnce'
      <4>1. SUFFICES ASSUME NEW m, NEW i \in FinalEvents(m)', NEW j \in FinalEvents(m)' PROVE i = j
        BY DEF FinalOnce
      <4>2. FinalEvents(m)' = IF EventOf(hash).memory = m /\ Final(EventOf(hash).kind)
                              THEN FinalEvents(m) \cup {Len(log) + 1} ELSE FinalEvents(m)
        BY <2>1, <2>2, LogGrows
      <4>3. QED
        BY <3>1, <3>4, <4>1, <4>2 DEF FinalOnce
    <3>7. QED
      BY <3>3, <3>5, <3>6
  <2>5. QED
    BY <2>3, <2>4 DEF MemoryIInv
<1>4. QED
  BY <1>2, <1>3

LEMMA MemoryNextKeeps ==
  ASSUME MemoryIInv, [MemoryNext]_memory
  PROVE  MemoryIInv'
<1>1. CASE UNCHANGED memory
  BY <1>1 DEF memory, MemoryIInv, MemoryTypes, ReadIsCurrent, VerifyAuditChain, FinalOnce, FinalEvents
<1>2. ASSUME NEW w \in Writer, CrashWriter(w) PROVE MemoryIInv'
  BY <1>2, RetireKeeps DEF CrashWriter
<1>3. QED
  BY <1>1, <1>2, PromoteKeeps, CheckStatusKeeps, ReadHeadKeeps, InsertEventKeeps
     DEF MemoryNext, PromoteReviewed

\* Organizational memory: as long as no two insertions overlap, the hash chain
\* verifies and each memory ends once, for any number of writers, lessons and
\* events and wherever the writers crash (_append_event, supersede, deprecate).
THEOREM RacesAloneBreakTheLog == MemorySpec => []OnlyRacesBreakTheLog
<1>1. MemoryIInv => OnlyRacesBreakTheLog
  <2>1. SUFFICES ASSUME FinalOnce, NEW m PROVE Cardinality(FinalEvents(m)) <= 1
    BY DEF MemoryIInv, OnlyRacesBreakTheLog
  <2>2. CASE FinalEvents(m) = {}
    BY <2>2, FS_EmptySet
  <2>3. CASE FinalEvents(m) # {}
    <3>1. PICK i \in FinalEvents(m) : FinalEvents(m) = {i}
      BY <2>1, <2>3 DEF FinalOnce
    <3>2. QED
      BY <3>1, FS_Singleton
  <2>4. QED
    BY <2>2, <2>3
<1>2. QED
  BY MemoryInitIInv, MemoryNextKeeps, <1>1, PTL DEF MemorySpec

\* Whatever a writer is about to write of was stored when it looked, and nothing is
\* ever removed.
Stored(m) == m \in DOMAIN entries

EntriesFit == DOMAIN entries \subseteq Memory /\ \A m \in DOMAIN entries : entries[m] \in Lesson

LogFits == \A i \in DOMAIN log : Stored(EventOf(log[i]).memory)

JobFits(w) ==
  /\ job[w].stage = "checked" => Stored(job[w].event.memory)
  /\ job[w].stage = "headed" => Stored(EventOf(job[w].hash).memory)

MemoryFits == EntriesFit /\ LogFits /\ \A w \in Writer : JobFits(w)

LEMMA EventFits ==
  ASSUME MemoryTypes, LogFits, NEW hash \in Hash, log' = Append(log, hash),
         DOMAIN entries \subseteq DOMAIN entries', EventOf(hash).memory \in DOMAIN entries'
  PROVE  LogFits'
<1>1. /\ DOMAIN log = 1..Len(log) /\ DOMAIN log' = 1..(Len(log) + 1) /\ Len(log) \in Nat
      /\ \A i \in 1..Len(log) : log'[i] = log[i]
      /\ log'[Len(log) + 1] = hash
  BY AppendProperties, LenProperties DEF MemoryTypes
<1>2. ASSUME NEW i \in DOMAIN log' PROVE EventOf(log'[i]).memory \in DOMAIN entries'
  <2>1. CASE i = Len(log) + 1
    BY <1>1, <2>1
  <2>2. CASE i # Len(log) + 1
    <3>1. i \in DOMAIN log /\ log'[i] = log[i]
      BY <1>1, <2>2
    <3> QED BY <3>1 DEF LogFits, Stored
  <2> QED BY <2>1, <2>2
<1> QED BY <1>2 DEF LogFits, Stored

LEMMA PromoteFits ==
  ASSUME MemoryIInv, MemoryFits, NEW m \in Memory, NEW lesson \in Lesson, NEW observed,
         Promote(m, lesson, observed)
  PROVE  MemoryFits'
<1> DEFINE event == [memory |-> m, kind |-> "PROMOTED", to |-> lesson.mission]
           hash == Append(HeadOf(log), event)
<1>1. /\ entries' = [n \in DOMAIN entries \cup {m} |-> IF n = m THEN lesson ELSE entries[n]]
      /\ log' = Append(log, hash) /\ job' = job
  BY DEF Promote
<1>2. DOMAIN entries' = DOMAIN entries \cup {m}
  BY <1>1
<1>3. EntriesFit'
  BY <1>1, <1>2 DEF MemoryFits, EntriesFit
<1>4. event \in Outcome /\ event.memory = m
  BY DEF Outcome
<1>5. HeadOf(log) \in Seq(Outcome)
  BY HeadIsSequence DEF MemoryIInv
<1>6. hash \in Hash /\ EventOf(hash) = event
  BY <1>4, <1>5, HashGrows
<1> HIDE DEF hash, event
<1>7. LogFits'
  BY <1>1, <1>2, <1>4, <1>6, EventFits DEF MemoryIInv, MemoryFits
<1>8. ASSUME NEW w \in Writer PROVE JobFits(w)'
  BY <1>1, <1>2 DEF MemoryFits, JobFits, Stored
<1> QED BY <1>3, <1>7, <1>8 DEF MemoryFits

\* A step of one writer that leaves log and entries alone.
LEMMA WorkFits ==
  ASSUME MemoryIInv, MemoryFits, NEW w \in Writer, NEW work,
         job' = [job EXCEPT ![w] = work], UNCHANGED <<entries, log>>,
         work.stage = "checked" => Stored(work.event.memory),
         work.stage = "headed" => Stored(EventOf(work.hash).memory)
  PROVE  MemoryFits'
<1>1. \A v \in Writer : job'[v] = IF v = w THEN work ELSE job[v]
  BY DEF MemoryIInv, MemoryTypes
<1>2. EntriesFit' /\ LogFits'
  BY DEF MemoryFits, EntriesFit, LogFits, Stored
<1>3. ASSUME NEW v \in Writer PROVE JobFits(v)'
  BY <1>1 DEF MemoryFits, JobFits, Stored
<1> QED BY <1>2, <1>3 DEF MemoryFits

LEMMA MemoryNextFits ==
  ASSUME MemoryIInv, MemoryFits, [MemoryNext]_memory
  PROVE  MemoryFits'
<1>1. CASE UNCHANGED memory
  BY <1>1 DEF memory, MemoryFits, EntriesFit, LogFits, JobFits, Stored
<1>2. ASSUME NEW w \in Writer, NEW m \in Memory, NEW to \in Memory,
             NEW kind \in {"SUPERSEDED", "DEPRECATED"}, CheckStatus(w, m, kind, to)
      PROVE  MemoryFits'
  <2> DEFINE check == [stage |-> "checked", event |-> [memory |-> m, kind |-> kind, to |-> to]]
  <2>1. Stored(m) /\ job' = [job EXCEPT ![w] = check] /\ UNCHANGED <<entries, log>>
    BY <1>2 DEF CheckStatus, IsActive, Stored
  <2>2. check.stage = "checked" /\ check.event.memory = m
    OBVIOUS
  <2> HIDE DEF check
  <2> QED BY <2>1, <2>2, WorkFits
<1>3. ASSUME NEW w \in Writer, ReadHead(w) PROVE MemoryFits'
  <2> DEFINE hash == Append(HeadOf(log), job[w].event)
             head == [stage |-> "headed", hash |-> hash]
  <2>1. w \in DOMAIN job
    BY DEF MemoryIInv, MemoryTypes
  <2>2. job' = [job EXCEPT ![w] = head] /\ UNCHANGED <<entries, log>> /\ job[w].stage = "checked"
    BY <1>3, <2>1 DEF ReadHead
  <2>3. job[w].event \in Outcome /\ Stored(job[w].event.memory)
    BY <2>2 DEF MemoryIInv, MemoryTypes, Idle, MemoryFits, JobFits
  <2>4. HeadOf(log) \in Seq(Outcome)
    BY HeadIsSequence DEF MemoryIInv
  <2>5. EventOf(hash) = job[w].event
    BY <2>3, <2>4, HashGrows
  <2> HIDE DEF hash
  <2>6. head.stage = "headed" /\ head.hash = hash
    OBVIOUS
  <2> HIDE DEF head
  <2> QED BY <2>2, <2>3, <2>5, <2>6, WorkFits
<1>4. ASSUME NEW w \in Writer, InsertEvent(w) PROVE MemoryFits'
  <2>1. job' = [job EXCEPT ![w] = Idle] /\ job[w].stage = "headed" /\ entries' = entries
    BY <1>4 DEF InsertEvent
  <2>2. CASE ~IsNew(job[w].hash)
    BY <1>4, <2>1, <2>2, WorkFits DEF InsertEvent, Idle
  <2>3. CASE IsNew(job[w].hash)
    <3>1. log' = Append(log, job[w].hash)
      BY <1>4, <2>3 DEF InsertEvent
    <3>2. job[w].hash \in Hash /\ Stored(EventOf(job[w].hash).memory)
      BY <2>1 DEF MemoryIInv, MemoryTypes, Idle, MemoryFits, JobFits
    <3>3. LogFits'
      BY <2>1, <3>1, <3>2, EventFits DEF MemoryIInv, MemoryFits, Stored
    <3>4. \A v \in Writer : job'[v] = IF v = w THEN Idle ELSE job[v]
      BY <2>1 DEF MemoryIInv, MemoryTypes
    <3>5. \A v \in Writer : JobFits(v)'
      BY <2>1, <3>4 DEF MemoryFits, JobFits, Stored, Idle
    <3> QED BY <2>1, <3>3, <3>5 DEF MemoryFits, EntriesFit
  <2> QED BY <2>2, <2>3
<1>5. ASSUME NEW w \in Writer, CrashWriter(w) PROVE MemoryFits'
  BY <1>5, WorkFits DEF CrashWriter, Idle
<1> QED BY <1>1, <1>2, <1>3, <1>4, <1>5, PromoteFits DEF MemoryNext, PromoteReviewed

\* Organizational memory: every event of the log is about a memory that is stored,
\* though the status is read, the event composed and inserted in three steps.
THEOREM MemoryIsTyped == MemorySpec => []MemoryTypeOK
<1>1. MemoryInit => MemoryFits
  BY DEF MemoryInit, Empty, Idle, MemoryFits, EntriesFit, LogFits, JobFits
<1>2. MemoryIInv /\ MemoryFits /\ [MemoryNext]_memory => MemoryIInv' /\ MemoryFits'
  BY MemoryNextKeeps, MemoryNextFits
<1>3. MemoryIInv /\ MemoryFits => MemoryTypeOK
  BY DEF MemoryIInv, MemoryTypes, Idle, MemoryFits, EntriesFit, LogFits, Stored, MemoryTypeOK
<1> QED BY MemoryInitIInv, <1>1, <1>2, <1>3, PTL DEF MemorySpec

-----------------------------------------------------------------------------
\* Delivery: whatever the pods and the stores do side by side, the state of each is
\* what its own code lets it be.
THEOREM DeliveryIsTyped == DeliverySpec => []DeliveryTypeOK
BY DesignIsTyped, PodIsTyped, AssuranceIsTyped, MemoryIsTyped, BackupIsTyped, ArchiveIsTyped, PTL
   DEF DeliverySpec, DeliveryTypeOK
=============================================================================
