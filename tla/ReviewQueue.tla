----------------------------- MODULE ReviewQueue -----------------------------
(***************************************************************************)
(* The trust review of price anomalies: the detector over the sources of a *)
(* listing, the queue of review cases, and the reviewers who work on it    *)
(* while new sources arrive.                                               *)
(***************************************************************************)
EXTENDS Inventory

CONSTANTS
  Reviewer,      \* callers of start_review, resolve and resolve_current
  Detector       \* detector_id

\* "NONE" is the reviewer of a case that nobody has taken up: a null, not a name.
ASSUME QueueAssumption == Detector # "NONE"

VARIABLES
  cases,         \* review_cases, by finding
  audit,         \* review_events of each case
  finding,       \* what a detection has found and not yet queued
  work,          \* what a reviewer's call has checked and not yet written
  raced          \* history: cases two calls were under way on at one time

queue == <<cases, audit, finding, work, raced>>

Lowest(S) == CHOOSE x \in S : \A y \in S : x <= y
Highest(S) == CHOOSE x \in S : \A y \in S : y <= x

Origin(i) == <<sources[i].publisher, sources[i].ref>>

\* the latest version per publisher and source_ref; the first inserted of equals
Latest(l) ==
  {i \in SourcesOf(l) :
     \A j \in SourcesOf(l) \ {i} : Origin(j) = Origin(i) =>
        \/ sources[j].verified < sources[i].verified
        \/ sources[j].verified = sources[i].verified /\ i < j}

\* the relative gap of the prices of a group is at least so many percent
GapAtLeast(l, percent) ==
  LET prices == {sources[i].price : i \in Latest(l)}
      low == Lowest(prices)
  IN  low <= 0 \/ 100 * (Highest(prices) - low) >= percent * low

Severity(l) ==
  CASE Cardinality(Latest(l)) < 2 -> "NONE"
    [] OTHER -> CASE GapAtLeast(l, 100) -> "CRITICAL"
                  [] GapAtLeast(l, 50)  -> "HIGH"
                  [] GapAtLeast(l, 20)  -> "MEDIUM"
                  [] OTHER              -> "NONE"

\* Mutant: a finding is known by the publishers it compares.
PublishersOnly(l) == {sources[i].publisher : i \in Latest(l)}

\* what the evidence fingerprint and the finding id are made of
Evidence(l) == {VersionOf(sources[i]) : i \in Latest(l)}

Found(l) == [listing |-> l, evidence |-> Evidence(l), severity |-> Severity(l)]

Current(f) == Severity(f.listing) # "NONE" /\ Evidence(f.listing) = f.evidence

NoWork == [kind |-> "idle"]
NoFinding == [severity |-> "NONE"]

QueueInit ==
  /\ cases = [f \in {} |-> NoWork] /\ audit = [f \in {} |-> <<>>]
  /\ finding = NoFinding /\ work = [r \in Reviewer |-> NoWork] /\ raced = {}

Event(actor, from, to) == [actor |-> actor, from |-> from, to |-> to]

-----------------------------------------------------------------------------
\* detect_and_queue: the detector reads the inventory, and the case is queued
\* later, unless there is one for the same evidence
Detect(l) ==
  /\ finding = NoFinding /\ Severity(l) # "NONE"
  /\ finding' = Found(l)
  /\ UNCHANGED <<cases, audit, work, raced>>

Queue ==
  /\ finding # NoFinding
  /\ finding' = NoFinding
  /\ IF finding \in DOMAIN cases THEN UNCHANGED <<cases, audit>>
     ELSE LET known == DOMAIN cases \cup {finding} IN
       /\ cases' = [f \in known |-> IF f = finding THEN [status |-> "OPEN", reviewer |-> "NONE"]
                                    ELSE cases[f]]
       /\ audit' = [f \in known |-> IF f = finding THEN <<Event(Detector, "NONE", "OPEN")>>
                                    ELSE audit[f]]
  /\ UNCHANGED <<work, raced>>

Undertake(r, job) ==
  /\ work[r] = NoWork
  /\ work' = [work EXCEPT ![r] = job]
  /\ raced' = IF \E s \in Reviewer \ {r} : work[s] # NoWork /\ work[s].case = job.case
              THEN raced \cup {job.case} ELSE raced
  /\ UNCHANGED <<cases, audit, finding>>

\* start_review up to its transaction
BeginReview(r, f) ==
  /\ cases[f].status = "OPEN"
  /\ f.severity \in {"HIGH", "CRITICAL"} => r # Detector
  /\ Undertake(r, [kind |-> "start", case |-> f, to |-> "IN_REVIEW"])

\* Mutant: any reviewer decides a case under review.
MayResolveForAnother(r, f) == cases[f].status = "IN_REVIEW"

\* resolve: the reviewer who started the review, and nobody else, decides it
MayResolve(r, f) == cases[f] = [status |-> "IN_REVIEW", reviewer |-> r]

\* resolve up to its transaction: the store knows nothing of the evidence
BeginResolve(r, f, to) ==
  /\ MayResolve(r, f)
  /\ Undertake(r, [kind |-> "resolve", case |-> f, to |-> to])

\* resolve_current likewise: the evidence is detected again, then the store's
\* resolve checks the case. They read different databases that share no writer,
\* so nothing is lost in taking the two reads as one.
BeginResolveCurrent(r, f, to) == Current(f) /\ BeginResolve(r, f, to)

\* either transaction: the status goes over whatever stands there now
CommitReview(r) ==
  LET job == work[r] IN
  /\ job # NoWork /\ Len(audit[job.case]) < MaxEvents
  /\ cases' = [cases EXCEPT ![job.case].status = job.to,
                            ![job.case].reviewer = IF job.kind = "start" THEN r ELSE @]
  /\ audit' = [audit EXCEPT ![job.case] =
                 Append(@, Event(r, IF job.kind = "start" THEN "OPEN" ELSE "IN_REVIEW", job.to))]
  /\ work' = [work EXCEPT ![r] = NoWork]
  /\ UNCHANGED <<finding, raced>>

QueueNext ==
  \/ \E l \in Listing : Detect(l)
  \/ Queue
  \/ \E r \in Reviewer, f \in DOMAIN cases : BeginReview(r, f)
  \/ \E r \in Reviewer, f \in DOMAIN cases, to \in {"RESOLVED", "DISMISSED"} :
        BeginResolve(r, f, to) \/ BeginResolveCurrent(r, f, to)
  \/ \E r \in Reviewer : CommitReview(r)

\* over an inventory to which anything may happen between two steps
QueueSpec ==
  /\ InventoryInit /\ QueueInit
  /\ [][ \/ InventoryNext /\ UNCHANGED queue
         \/ QueueNext /\ UNCHANGED inventory ]_<<inventory, queue>>

-----------------------------------------------------------------------------
\* A finding whose evidence has changed is never current again, so the
\* StaleFindingError of resolve_current is final (the fingerprint is over source versions, which are
\* only added, and a later one displaces an earlier one for good).
StaleStaysStale ==
  [][\A f \in DOMAIN cases : ~Current(f) => ~Current(f)']_<<sources, cases>>

\* While no two calls work on one case at a time its events are a path OPEN, IN_REVIEW,
\* decided, of a reviewer who decides what that reviewer started and who, when the
\* stake is high, is not the detector; and its row is where the path ends.
\* (start_review and resolve check a row they read before their transaction.)
CaseIsAPath ==
  \A f \in DOMAIN cases \ raced :
    LET log == audit[f] IN
    /\ Len(log) \in 1..3 /\ log[Len(log)].to = cases[f].status
    /\ \A i \in 1..Len(log) :
         /\ log[i].from = IF i = 1 THEN "NONE" ELSE log[i - 1].to
         /\ log[i].to \in <<{"OPEN"}, {"IN_REVIEW"}, {"RESOLVED", "DISMISSED"}>>[i]
         /\ i > 1 => log[i].actor = cases[f].reviewer
    /\ f.severity \in {"HIGH", "CRITICAL"} => cases[f].reviewer # Detector
=============================================================================
