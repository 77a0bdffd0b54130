--------------------------- MODULE AssuranceReview ---------------------------
(***************************************************************************)
(* The assurance pod and the release gate.  Engineering integrates a        *)
(* subject, and a new one whenever it corrects something; the coordinator   *)
(* has three roles review the subject it was handed, the validator decides, *)
(* and the lifecycle records the cycle, demands remediation and lets a      *)
(* release through.  A subject is an integration manifest together with the *)
(* evidence it was integrated from; the manifest's fingerprint is all that  *)
(* the lifecycle remembers of it.                                           *)
(***************************************************************************)
EXTENDS Naturals, Sequences, FiniteSets

CONSTANTS
  Subject,         \* records of print, the fingerprint, and evidence
  Criterion,       \* acceptance criteria of the design
  Implementers,    \* sets of implementation_agent_ids a review may be run with
  MaxAttempts,     \* max_attempts
  MaxReviews       \* bound: runs of the coordinator

ASSUME AssuranceAssumption == MaxAttempts \in Nat \ {0} /\ MaxReviews \in Nat

VARIABLES
  subject,         \* what engineering has integrated last
  review,          \* the coordinator's run: the subject it was handed, the reports
  verdict,         \* the decision of the last run with its subject, until it is recorded
  cycle,           \* the caller's assurance cycle record
  released,        \* history: subjects that assert_release_ready let through
  reviewed,        \* history: of each completed run the subject and what was found
  filed,           \* the catalog's latest reports and decision, by the run that filed them
  reviews

assurance == <<subject, review, verdict, cycle, released, reviewed, filed, reviews>>

Roles == <<"A09-SECURITY", "A10-QA", "A12-RED-TEAM">>
None == [kind |-> "none"]

\* AssuranceReport, as far as a decision depends on it: whether a finding blocks,
\* and which criteria it covers
Report == [blocking : BOOLEAN, covers : SUBSET Criterion]
ReportIsValid(role, report) == role # "A10-QA" => report.covers = {}

\* decide: a finding blocks, or a criterion that the report of A10 does not cover
Blocks(reports) ==
  \/ \E i \in DOMAIN reports : reports[i].blocking
  \/ ~ Criterion \subseteq UNION {reports[i].covers : i \in DOMAIN reports}

-----------------------------------------------------------------------------
AssuranceInit ==
  /\ subject \in Subject
  /\ review = None /\ verdict = None /\ cycle = None
  /\ released = {} /\ reviewed = {} /\ reviews = 0
  /\ filed = [reports |-> [i \in DOMAIN Roles |-> 0], decision |-> 0]

\* engineering integrates a corrected subject, at any time
Correct(s) ==
  /\ s # subject /\ subject' = s
  /\ UNCHANGED <<review, verdict, cycle, released, reviewed, filed, reviews>>

\* AssurancePodCoordinator.run, up to the first role
BeginReview(implementers) ==
  /\ review = None /\ verdict = None /\ reviews < MaxReviews
  /\ review' = [kind |-> "review", subject |-> subject, reports |-> <<>>, implementers |-> implementers]
  /\ reviews' = reviews + 1
  /\ UNCHANGED <<subject, verdict, cycle, released, reviewed, filed>>

\* the next role reports, and its report is filed
ReportNext(report) ==
  LET next == Len(review.reports) + 1 IN
  /\ review # None /\ Len(review.reports) < 3
  /\ ReportIsValid(Roles[next], report)
  /\ review' = [review EXCEPT !.reports = Append(@, report)]
  /\ filed' = [filed EXCEPT !.reports[next] = reviews]
  /\ UNCHANGED <<subject, verdict, cycle, released, reviewed, reviews>>

\* a missing worker, an invalid report, a worker that raises, a crash: what is
\* filed stays filed
ReviewFails ==
  /\ review # None /\ review' = None
  /\ UNCHANGED <<subject, verdict, cycle, released, reviewed, filed, reviews>>

\* no role is among the implementation agents
Independent(implementers) == \A i \in DOMAIN Roles : Roles[i] \notin implementers

\* AssuranceValidator.decide
Decide ==
  /\ review # None /\ Len(review.reports) = 3
  /\ review' = None
  /\ IF ~Independent(review.implementers) THEN UNCHANGED <<verdict, reviewed, filed>>
     ELSE /\ filed' = [filed EXCEPT !.decision = reviews]
          /\ verdict' = [kind |-> "verdict", subject |-> review.subject,
                         status |-> IF Blocks(review.reports) THEN "CHANGES_REQUIRED" ELSE "PASS"]
          /\ reviewed' = reviewed \cup {[subject |-> review.subject, reports |-> review.reports,
                                         implementers |-> review.implementers]}
  /\ UNCHANGED <<subject, cycle, released, reviews>>

Cycle(v, attempt) ==
  [kind |-> "cycle", attempt |-> attempt, print |-> v.subject.print, status |-> v.status]

\* lifecycle.record, with the subject the decision is about; a fresh review may
\* be recorded at any time
Record ==
  /\ verdict # None
  /\ cycle' = Cycle(verdict, 1) /\ verdict' = None
  /\ UNCHANGED <<subject, review, released, reviewed, filed, reviews>>

\* re_review raises unless the last cycle blocked, the budget lasts and the
\* subject has changed
MayReReview(previous, v) ==
  /\ previous.status = "CHANGES_REQUIRED" /\ previous.attempt < MaxAttempts
  /\ v.subject.print # previous.print

\* lifecycle.re_review; the previous record comes back stale and is dropped
ReReview ==
  /\ verdict # None /\ cycle # None
  /\ cycle' = IF MayReReview(cycle, verdict) THEN Cycle(verdict, cycle.attempt + 1) ELSE cycle
  /\ verdict' = None
  /\ UNCHANGED <<subject, review, released, reviewed, filed, reviews>>

\* Mutant: the subject is not compared with the one reviewed.
PassSuffices(c, s) == c # None /\ c.status = "PASS"

\* assert_release_ready
ReleaseReady(c, s) == c # None /\ c.status = "PASS" /\ c.print = s.print

Release ==
  /\ ReleaseReady(cycle, subject)
  /\ released' = released \cup {subject}
  /\ UNCHANGED <<subject, review, verdict, cycle, reviewed, filed, reviews>>

AssuranceNext ==
  \/ \E s \in Subject : Correct(s)
  \/ \E implementers \in Implementers : BeginReview(implementers)
  \/ \E report \in Report : ReportNext(report)
  \/ ReviewFails
  \/ Decide
  \/ Record
  \/ ReReview
  \/ Release

AssuranceSpec == AssuranceInit /\ [][AssuranceNext]_assurance

-----------------------------------------------------------------------------
\* Subjects and cycles are well typed, and a cycle's attempt within the budget.
AssuranceTypeOK ==
  /\ subject \in Subject /\ released \subseteq Subject
  /\ cycle = None \/ cycle \in [kind : {"cycle"}, attempt : 1..MaxAttempts,
                                print : {s.print : s \in Subject}, status : {"PASS", "CHANGES_REQUIRED"}]
  /\ reviews \in 0..MaxReviews

\* what a run found that must not be released
Clean(r) ==
  /\ \A i \in 1..3 : ~r.reports[i].blocking
  /\ Criterion = UNION {r.reports[i].covers : i \in 1..3}
  /\ \A i \in DOMAIN Roles : Roles[i] \notin r.implementers

\* Whatever is released has the fingerprint of a subject that three roles, none of
\* them an implementer, reviewed without a blocking finding and with every
\* criterion covered, however corrections, reviews and releases interleave
\* (assert_release_ready against run, decide, record and re_review).
ReleaseIsReviewed ==
  \A s \in released : \E r \in reviewed : r.subject.print = s.print /\ Clean(r)

\* A release rests on the evidence that was reviewed: when the implementation
\* evidence changes, the earlier assurance no longer lets it through
\* (integration_fingerprint and assert_release_ready).
ReleasedEvidenceWasReviewed ==
  \A s \in released : \E r \in reviewed : r.subject = s
=============================================================================
