----------------------------- MODULE AuditArchive ----------------------------
(***************************************************************************)
(* Audit retention: the prefix of the ledger up to a cutoff is archived in  *)
(* a file, and a manifest with the hash of the file is written after it.    *)
(* Events carry the time of a clock that may be set back.  The ledger only  *)
(* grows, so an archive is the number of events in it, with its cutoff.     *)
(***************************************************************************)
EXTENDS Integers, Sequences

CONSTANTS
  Archiver,        \* processes that archive
  MaxTime,         \* bound: the clock
  MaxLedger,       \* bound: events
  RetainFor        \* archive_after_days

ASSUME ArchiveAssumption == MaxTime \in Nat \ {0} /\ RetainFor \in Nat

VARIABLES
  clock,
  ledger,          \* created_at of each event
  archive,         \* the archive file: state, count, cutoff; and how many events there were
  described,       \* the manifest: state, and what it describes
  archiving        \* what each archiver is doing

archiveVars == <<clock, ledger, archive, described, archiving>>

Absent == [state |-> "none"]
Done == [stage |-> "idle"]

ArchiveInit ==
  /\ clock = 1 /\ ledger = <<>> /\ archive = Absent /\ described = Absent
  /\ archiving = [a \in Archiver |-> Done]

SetClock(t) ==
  /\ t # clock /\ clock' = t /\ UNCHANGED <<ledger, archive, described, archiving>>

AppendAudit ==
  /\ Len(ledger) < MaxLedger /\ ledger' = Append(ledger, clock)
  /\ UNCHANGED <<clock, archive, described, archiving>>

-----------------------------------------------------------------------------
\* the n leading events are at or before the cutoff, the next one is not
Eligible(n, cutoff) ==
  /\ \A i \in 1..n : ledger[i] <= cutoff
  /\ n < Len(ledger) => ledger[n + 1] > cutoff

\* Mutant: what comes after the prefix is not looked at.
AnyTail(n, cutoff) == TRUE

\* no later event is older than the cutoff (non_monotonic_audit_timestamps)
TailIsNewer(n, cutoff) == \A i \in n + 1..Len(ledger) : ledger[i] > cutoff

\* create_archive up to the payload it encoded
BeginArchive(a, overwrite) ==
  LET cutoff == clock - RetainFor IN
  /\ archiving[a] = Done
  /\ overwrite \/ (archive = Absent /\ described = Absent)
  /\ \E n \in 1..Len(ledger) :
       /\ Eligible(n, cutoff) /\ TailIsNewer(n, cutoff)
       /\ archiving' = [archiving EXCEPT ![a] =
                          [stage |-> "file", payload |-> [count |-> n, cutoff |-> cutoff, seen |-> Len(ledger)]]]
  /\ UNCHANGED <<clock, ledger, archive, described>>

WriteArchive(a) ==
  /\ archiving[a].stage = "file"
  /\ archive' = [state |-> "whole", payload |-> archiving[a].payload]
  /\ archiving' = [archiving EXCEPT ![a].stage = "manifest"]
  /\ UNCHANGED <<clock, ledger, described>>

WriteDescription(a) ==
  /\ archiving[a].stage = "manifest"
  /\ described' = [state |-> "whole", payload |-> archiving[a].payload]
  /\ archiving' = [archiving EXCEPT ![a] = Done]
  /\ UNCHANGED <<clock, ledger, archive>>

\* the process ends before or while it writes a file
CrashArchiver(a) ==
  /\ archiving[a] # Done
  /\ archiving' = [archiving EXCEPT ![a] = Done]
  /\ \/ UNCHANGED <<archive, described>>
     \/ archiving[a].stage = "file" /\ archive' = [state |-> "torn"] /\ UNCHANGED described
     \/ archiving[a].stage = "manifest" /\ described' = [state |-> "torn"] /\ UNCHANGED archive
  /\ UNCHANGED <<clock, ledger>>

ArchiveNext ==
  \/ \E t \in 1..MaxTime : SetClock(t)
  \/ AppendAudit
  \/ \E a \in Archiver, overwrite \in BOOLEAN : BeginArchive(a, overwrite)
  \/ \E a \in Archiver : WriteArchive(a) \/ WriteDescription(a) \/ CrashArchiver(a)

ArchiveSpec == ArchiveInit /\ [][ArchiveNext]_archiveVars

-----------------------------------------------------------------------------
\* The clock and the ledger are bounded, and files whole, torn or absent.
ArchiveTypeOK ==
  /\ clock \in 1..MaxTime /\ ledger \in Seq(1..MaxTime)
  /\ {archive.state, described.state} \subseteq {"none", "torn", "whole"}

\* verify_archive: the hash, and with it cutoff, count and sequence numbers
Verifies ==
  /\ archive.state = "whole" /\ described.state = "whole"
  /\ [archive.payload EXCEPT !.seen = 0] = [described.payload EXCEPT !.seen = 0]

\* An archive that verifies is the past and nothing but it: of the events there
\* were when it was made, those at or before the cutoff its manifest names, though
\* the clock is set back, archivers overwrite each other and crash between the
\* file and its manifest.
ArchiveIsThePast ==
  Verifies =>
    \A i \in 1..archive.payload.seen :
      ledger[i] <= described.payload.cutoff <=> i <= described.payload.count
=============================================================================
