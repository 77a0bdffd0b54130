----------------------------- MODULE MemoryStore -----------------------------
(***************************************************************************)
(* Organizational memory.  A lesson is promoted in one transaction          *)
(* that takes the write lock before it reads the head of the hash chain; a  *)
(* memory is superseded or deprecated in three steps of its own connection, *)
(* its status read, then the head, then the event inserted.  A hash is what *)
(* it binds: the sequence of events from GENESIS on, the last one included. *)
(***************************************************************************)
EXTENDS Naturals, Sequences, FiniteSets, SequencesExt

CONSTANTS
  Memory,          \* memory ids
  Writer,          \* connections to the store
  Lesson,          \* entries: proposer, source hash, trust, needs (evidence) and mission
  Verdict,         \* records: reviewer, approved, verified (evidence)
  MaxEvents        \* bound: events in the log

ASSUME MemoryAssumption == Memory # {} /\ MaxEvents \in Nat

VARIABLES
  entries,         \* memory_entries: memory ids with their lesson
  log,             \* memory_events, by seq: the hash of each event
  job,             \* what each writer is doing
  alone            \* history: nothing was inserted while another writer was busy

memory == <<entries, log, job, alone>>

Idle == [stage |-> "idle"]
Empty == [m \in {} |-> <<>>]

\* _last_hash
HeadOf(l) == IF l = <<>> THEN <<>> ELSE Last(l)

EventOf(hash) == Last(hash)
Final(kind) == kind \in {"SUPERSEDED", "DEPRECATED"}
FinalEvents(m) == {i \in DOMAIN log : EventOf(log[i]).memory = m /\ Final(EventOf(log[i]).kind)}

\* _status: the last final event decides
Status(m) ==
  IF FinalEvents(m) = {} THEN "ACTIVE"
  ELSE EventOf(log[CHOOSE i \in FinalEvents(m) : \A j \in FinalEvents(m) : j <= i]).kind

-----------------------------------------------------------------------------
\* MemoryPromotionGate.promote makes an entry of the candidate
MayPromote(lesson, verdict) ==
  /\ verdict.reviewer # lesson.proposer /\ verdict.approved
  /\ lesson.trust # "UNTRUSTED_EXTERNAL"
  /\ lesson.needs \subseteq verdict.verified

MemoryInit ==
  /\ entries = Empty /\ log = <<>>
  /\ job = [w \in Writer |-> Idle]
  /\ alone = TRUE

\* event_hash is UNIQUE: an insertion that repeats one is rolled back
IsNew(hash) == \A i \in DOMAIN log : log[i] # hash

\* the store's promote: the source hash observed, entry and event. It takes any
\* entry and never asks whether a gate has passed it.
Promote(m, lesson, observed) ==
  LET hash == Append(HeadOf(log), [memory |-> m, kind |-> "PROMOTED", to |-> lesson.mission]) IN
  /\ observed = lesson.source
  /\ m \notin DOMAIN entries /\ IsNew(hash) /\ Len(log) < MaxEvents
  /\ entries' = [n \in DOMAIN entries \cup {m} |-> IF n = m THEN lesson ELSE entries[n]]
  /\ log' = Append(log, hash)
  /\ alone' = (alone /\ \A w \in Writer : job[w] = Idle)
  /\ UNCHANGED job

\* a caller that goes through the gate first
PromoteReviewed(m, lesson, verdict, observed) ==
  MayPromote(lesson, verdict) /\ Promote(m, lesson, observed)

\* Mutant: whatever is in the store may be superseded or deprecated.
IsStored(m) == m \in DOMAIN entries

IsActive(m) == m \in DOMAIN entries /\ Status(m) = "ACTIVE"

\* supersede and deprecate up to the status they read
CheckStatus(w, m, kind, to) ==
  /\ job[w] = Idle /\ IsActive(m)
  /\ IF kind = "SUPERSEDED" THEN to \in DOMAIN entries \ {m} ELSE kind = "DEPRECATED" /\ to = m
  /\ job' = [job EXCEPT ![w] = [stage |-> "checked", event |-> [memory |-> m, kind |-> kind, to |-> to]]]
  /\ UNCHANGED <<entries, log, alone>>

\* _append_event reads the head before any transaction is open
ReadHead(w) ==
  /\ job[w].stage = "checked"
  /\ job' = [job EXCEPT ![w] = [stage |-> "headed", hash |-> Append(HeadOf(log), @.event)]]
  /\ UNCHANGED <<entries, log, alone>>

\* the insertion, which begins and commits the transaction
InsertEvent(w) ==
  LET hash == job[w].hash IN
  /\ job[w].stage = "headed" /\ Len(log) < MaxEvents
  /\ job' = [job EXCEPT ![w] = Idle]
  /\ IF ~IsNew(hash) THEN UNCHANGED <<log, alone>>
     ELSE /\ log' = Append(log, hash)
          /\ alone' = (alone /\ \A v \in Writer \ {w} : job[v] = Idle)
  /\ UNCHANGED entries

\* the process ends between two steps
CrashWriter(w) ==
  /\ job[w] # Idle
  /\ job' = [job EXCEPT ![w] = Idle]
  /\ UNCHANGED <<entries, log, alone>>

MemoryNext ==
  \/ \E m \in Memory, lesson \in Lesson, observed \in {l.source : l \in Lesson} :
        \/ Promote(m, lesson, observed)
        \/ \E verdict \in Verdict : PromoteReviewed(m, lesson, verdict, observed)
  \/ \E w \in Writer, m, to \in Memory, kind \in {"SUPERSEDED", "DEPRECATED"} :
        CheckStatus(w, m, kind, to)
  \/ \E w \in Writer : ReadHead(w) \/ InsertEvent(w) \/ CrashWriter(w)

MemorySpec == MemoryInit /\ [][MemoryNext]_memory

-----------------------------------------------------------------------------
\* verify_audit_chain
VerifyAuditChain ==
  \A i \in DOMAIN log : Front(log[i]) = HeadOf(SubSeq(log, 1, i - 1))

\* Every event is about a stored memory, and what a writer is about to insert too.
MemoryTypeOK ==
  /\ DOMAIN entries \subseteq Memory /\ \A m \in DOMAIN entries : entries[m] \in Lesson
  /\ \A i \in DOMAIN log : EventOf(log[i]).memory \in DOMAIN entries
  /\ \A w \in Writer : job[w].stage \in {"idle", "checked", "headed"}

\* As long as nothing was inserted while another writer was on its way, the audit
\* chain verifies and a memory gets one final event at most, whichever writers
\* crash and whatever is promoted in between: only a race makes honest writers
\* break the log (_append_event reads the head, supersede and deprecate the
\* status, outside the transaction that inserts).
OnlyRacesBreakTheLog ==
  alone =>
    /\ VerifyAuditChain
    /\ \A m \in DOMAIN entries : Cardinality(FinalEvents(m)) <= 1
=============================================================================
