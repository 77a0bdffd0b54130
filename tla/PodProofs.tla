------------------------------- MODULE PodProofs ----------------------------
(***************************************************************************)
(* Theorems about the pods, each by itself: for any products, coverages and *)
(* rounds of the design pod, for any packages, plans and evidence of the    *)
(* engineering pod, and for any subjects, criteria, budgets and numbers of  *)
(* reviews of the assurance pod.                                            *)
(***************************************************************************)
EXTENDS DesignPod, EngineeringPod, AssuranceReview,
        FiniteSetTheorems, WellFoundedInduction, TLAPS

-----------------------------------------------------------------------------
\* The design pod: while a run is open, both designs are for the product at hand.

MadeForProduct ==
  bundle.state = "open" => architecture.for = product /\ ux.for = product

DesignIInv == MadeForProduct /\ BundleIsCoherent

LEMMA DesignInitIInv == DesignInit => DesignIInv
BY DEF DesignInit, DesignIInv, MadeForProduct, BundleIsCoherent, Fresh

LEMMA ReturnKeeps ==
  ASSUME DesignIInv, Return
  PROVE  DesignIInv'
BY DEF DesignIInv, MadeForProduct, BundleIsCoherent, Return, IsBuildReady, ProductFindings, Uncovered

LEMMA GiveUpKeeps ==
  ASSUME DesignIInv, GiveUp
  PROVE  DesignIInv'
BY DEF DesignIInv, MadeForProduct, BundleIsCoherent, GiveUp

\* Whoever is asked to revise, what comes back is for the product that comes back.
LEMMA RevisedFits ==
  ASSUME architecture.for = product, ux.for = product, NEW p, NEW a, NEW u
  PROVE  Revised(p, a, u)[2].for = Revised(p, a, u)[1] /\ Revised(p, a, u)[3].for = Revised(p, a, u)[1]
<1>1. CASE ProductFindings(product)
  BY <1>1 DEF Revised, Redesigned, Fresh
<1>2. CASE ~ProductFindings(product)
  BY <1>2 DEF Revised, Fresh
<1>. QED BY <1>1, <1>2

LEMMA ReviseKeeps ==
  ASSUME DesignIInv, NEW p, NEW a, NEW u, NEW reworded, Revise(p, a, u, reworded)
  PROVE  DesignIInv'
<1>. DEFINE r == Revised(p, a, u)
<1>1. r[2].for = r[1] /\ r[3].for = r[1]
  BY RevisedFits DEF DesignIInv, MadeForProduct, Revise
<1>2. CASE SameBundle(r) /\ ~reworded
  BY <1>2 DEF DesignIInv, MadeForProduct, BundleIsCoherent, Revise
<1>3. CASE ~(SameBundle(r) /\ ~reworded)
  <2>1. product' = r[1] /\ architecture' = r[2] /\ ux' = r[3] /\ UNCHANGED bundle
    BY <1>3 DEF Revise
  <2>. HIDE DEF r
  <2>. QED BY <2>1, <1>1 DEF DesignIInv, MadeForProduct, BundleIsCoherent
<1>. QED BY <1>2, <1>3

LEMMA DesignNextKeeps ==
  ASSUME DesignIInv, [DesignNext]_design
  PROVE  DesignIInv'
<1>1. CASE UNCHANGED design
  BY <1>1 DEF DesignIInv, MadeForProduct, BundleIsCoherent, design
<1>2. CASE DesignNext
  BY <1>2, ReturnKeeps, GiveUpKeeps, ReviseKeeps DEF DesignNext
<1>. QED BY <1>1, <1>2

\* The design pod: no bundle holds a design made for a superseded product, and every
\* MUST requirement has a criterion and a design in it.
THEOREM ReturnedBundleIsCoherent == DesignSpec => []BundleIsCoherent
<1>1. DesignIInv => BundleIsCoherent
  BY DEF DesignIInv
<1>. QED BY DesignInitIInv, DesignNextKeeps, <1>1, PTL DEF DesignSpec

LEMMA RevisedIsTyped ==
  ASSUME DesignTypeOK, NEW p \in Product, NEW a \in Coverage, NEW u \in Coverage
  PROVE  /\ Revised(p, a, u)[1] \in Product \cup {NoDesign}
         /\ Revised(p, a, u)[2].covers \in Coverage /\ Revised(p, a, u)[3].covers \in Coverage
<1>1. CASE ProductFindings(product)
  BY <1>1 DEF Revised, Redesigned, Fresh
<1>2. CASE ~ProductFindings(product)
  BY <1>2 DEF Revised, Fresh, DesignTypeOK
<1>. QED BY <1>1, <1>2

\* The design pod: whoever revises what, the outputs stay outputs, and the rounds
\* within max_revision_rounds.
THEOREM DesignIsTyped == DesignSpec => []DesignTypeOK
<1>1. DesignInit => DesignTypeOK
  BY DesignAssumption DEF DesignInit, DesignTypeOK, Fresh
<1>2. DesignTypeOK /\ [DesignNext]_design => DesignTypeOK'
  <2>. SUFFICES ASSUME DesignTypeOK, [DesignNext]_design PROVE DesignTypeOK'
    OBVIOUS
  <2>1. CASE UNCHANGED design \/ Return \/ GiveUp
    BY <2>1 DEF DesignTypeOK, design, Return, GiveUp
  <2>2. ASSUME NEW p \in Product, NEW a \in Coverage, NEW u \in Coverage, NEW reworded \in BOOLEAN,
               Revise(p, a, u, reworded)
        PROVE  DesignTypeOK'
    <3>. DEFINE r == Revised(p, a, u)
    <3>1. CASE UNCHANGED <<product, architecture, ux, revision>> /\ bundle' = [state |-> "failed"]
      BY <3>1 DEF DesignTypeOK
    <3>2. CASE /\ product' = r[1] /\ architecture' = r[2] /\ ux' = r[3]
               /\ revision' = revision + 1 /\ UNCHANGED bundle
      <4>1. revision < MaxRevisionRounds
        BY <2>2 DEF Revise
      <4>2. r[1] \in Product \cup {NoDesign} /\ r[2].covers \in Coverage /\ r[3].covers \in Coverage
        BY RevisedIsTyped
      <4>. HIDE DEF r
      <4>. QED BY <3>2, <4>1, <4>2, DesignAssumption DEF DesignTypeOK
    <3>. QED BY <2>2, <3>1, <3>2 DEF Revise
  <2>. QED BY <2>1, <2>2 DEF DesignNext
<1>. QED BY <1>1, <1>2, PTL DEF DesignSpec

-----------------------------------------------------------------------------
\* The assurance pod: the review is followed through the three places it is
\* carried in, the reports at hand, the verdict and the cycle record, each of which
\* has a completed review behind it that was clean if the status is PASS.

ReviewFits ==
  review = None \/
    review \in [kind : {"review"}, subject : Subject, reports : Seq(Report), implementers : Implementers]

Behind(r, print, status) == r.subject.print = print /\ (status = "PASS" => Clean(r))

VerdictFits == verdict = None \/ \E r \in reviewed : Behind(r, verdict.subject.print, verdict.status)
CycleFits == cycle = None \/ \E r \in reviewed : Behind(r, cycle.print, cycle.status)

ReviewIInv == subject \in Subject /\ ReviewFits /\ VerdictFits /\ CycleFits /\ ReleaseIsReviewed

LEMMA ReviewInitIInv == AssuranceInit => ReviewIInv
BY DEF AssuranceInit, ReviewIInv, ReviewFits, VerdictFits, CycleFits, ReleaseIsReviewed

\* Completed reviews are never forgotten, so a step that leaves verdict, cycle or
\* release alone keeps what stands behind them.
LEMMA ReviewsRemain ==
  ASSUME ReviewIInv, reviewed \subseteq reviewed'
  PROVE  /\ UNCHANGED verdict => VerdictFits'
         /\ UNCHANGED cycle => CycleFits'
         /\ UNCHANGED released => ReleaseIsReviewed'
BY DEF ReviewIInv, VerdictFits, CycleFits, ReleaseIsReviewed, Behind, Clean

LEMMA CorrectKeeps ==
  ASSUME ReviewIInv, NEW s \in Subject, Correct(s)
  PROVE  ReviewIInv'
BY ReviewsRemain DEF ReviewIInv, Correct, ReviewFits

LEMMA BeginReviewKeeps ==
  ASSUME ReviewIInv, NEW implementers \in Implementers, BeginReview(implementers)
  PROVE  ReviewIInv'
<1>1. ReviewFits'
  <2>1. <<>> \in Seq(Report)
    OBVIOUS
  <2>. QED BY <2>1 DEF ReviewIInv, BeginReview, ReviewFits
<1>. QED BY <1>1, ReviewsRemain DEF ReviewIInv, BeginReview

LEMMA ReportNextKeeps ==
  ASSUME ReviewIInv, NEW report \in Report, ReportNext(report)
  PROVE  ReviewIInv'
<1>1. ReviewFits'
  <2>1. Append(review.reports, report) \in Seq(Report)
    BY DEF ReviewIInv, ReportNext, ReviewFits
  <2>2. review' = [review EXCEPT !.reports = Append(@, report)]
    BY DEF ReportNext
  <2>. QED BY <2>1, <2>2 DEF ReviewIInv, ReportNext, ReviewFits
<1>. QED BY <1>1, ReviewsRemain DEF ReviewIInv, ReportNext

LEMMA ReviewFailsKeeps ==
  ASSUME ReviewIInv, ReviewFails
  PROVE  ReviewIInv'
BY ReviewsRemain DEF ReviewIInv, ReviewFails, ReviewFits

\* A decision that does not block is that of a clean review.
LEMMA PassIsClean ==
  ASSUME NEW reports \in Seq(Report), Len(reports) = 3, ~Blocks(reports),
         NEW implementers, Independent(implementers), NEW s
  PROVE  Clean([subject |-> s, reports |-> reports, implementers |-> implementers])
<1>1. DOMAIN reports = 1..3
  OBVIOUS
<1>2. \A i \in 1..3 : reports[i].covers \subseteq Criterion
  <2>1. \A i \in 1..3 : reports[i] \in Report
    BY <1>1
  <2>2. \A report \in Report : report.covers \subseteq Criterion
    BY DEF Report
  <2>. QED BY <2>1, <2>2
<1>3. UNION {reports[i].covers : i \in DOMAIN reports} = UNION {reports[i].covers : i \in 1..3}
  BY <1>1
<1>4. Criterion \subseteq UNION {reports[i].covers : i \in 1..3}
  BY <1>3 DEF Blocks
<1>5. UNION {reports[i].covers : i \in 1..3} \subseteq Criterion
  BY <1>2
<1>6. \A i \in 1..3 : ~reports[i].blocking
  BY <1>1 DEF Blocks
<1>. QED BY <1>4, <1>5, <1>6 DEF Clean, Independent

LEMMA DecideKeeps ==
  ASSUME ReviewIInv, Decide
  PROVE  ReviewIInv'
<1>1. review \in [kind : {"review"}, subject : Subject, reports : Seq(Report), implementers : Implementers]
      /\ Len(review.reports) = 3
  BY DEF ReviewIInv, Decide, ReviewFits
<1>2. ReviewFits' /\ reviewed \subseteq reviewed'
  BY DEF Decide, ReviewFits
<1>3. VerdictFits'
  <2>1. CASE ~Independent(review.implementers)
    BY <2>1, <1>2, ReviewsRemain DEF Decide
  <2>2. CASE Independent(review.implementers)
    <3>. DEFINE r == [subject |-> review.subject, reports |-> review.reports,
                      implementers |-> review.implementers]
    <3>1. r \in reviewed' /\ r.subject = review.subject
      BY <2>2 DEF Decide
    <3>2. verdict' = [kind |-> "verdict", subject |-> review.subject,
                      status |-> IF Blocks(review.reports) THEN "CHANGES_REQUIRED" ELSE "PASS"]
      BY <2>2 DEF Decide
    <3>3. verdict'.status = "PASS" => Clean(r)
      BY <3>2, <2>2, <1>1, PassIsClean
    <3>4. Behind(r, verdict'.subject.print, verdict'.status)
      BY <3>1, <3>2, <3>3 DEF Behind
    <3>5. \E q \in reviewed' : Behind(q, verdict'.subject.print, verdict'.status)
      BY <3>1, <3>4
    <3>. QED BY <3>5 DEF VerdictFits, Behind, Clean
  <2>. QED BY <2>1, <2>2
<1>. QED BY <1>2, <1>3, ReviewsRemain DEF ReviewIInv, Decide

\* record and a successful re_review turn the verdict into the cycle.
LEMMA VerdictBecomesCycle ==
  ASSUME ReviewIInv, verdict # None, NEW attempt, cycle' = Cycle(verdict, attempt), UNCHANGED reviewed
  PROVE  CycleFits'
<1>1. PICK r \in reviewed : Behind(r, verdict.subject.print, verdict.status)
  BY DEF ReviewIInv, VerdictFits
<1>2. cycle'.print = verdict.subject.print /\ cycle'.status = verdict.status
  BY DEF Cycle
<1>3. r \in reviewed' /\ Behind(r, cycle'.print, cycle'.status)
  BY <1>1, <1>2
<1>. QED BY <1>3 DEF CycleFits, Behind, Clean

LEMMA RecordKeeps ==
  ASSUME ReviewIInv, Record
  PROVE  ReviewIInv'
<1>1. CycleFits'
  BY VerdictBecomesCycle DEF Record
<1>2. VerdictFits' /\ ReviewFits' /\ subject' \in Subject
  BY DEF ReviewIInv, Record, VerdictFits, ReviewFits
<1>. QED BY <1>1, <1>2, ReviewsRemain DEF ReviewIInv, Record

LEMMA ReReviewKeeps ==
  ASSUME ReviewIInv, ReReview
  PROVE  ReviewIInv'
<1>1. CycleFits'
  <2>1. CASE MayReReview(cycle, verdict)
    BY <2>1, VerdictBecomesCycle DEF ReReview
  <2>2. CASE ~MayReReview(cycle, verdict)
    BY <2>2, ReviewsRemain DEF ReReview
  <2>. QED BY <2>1, <2>2
<1>2. VerdictFits' /\ ReviewFits' /\ subject' \in Subject
  BY DEF ReviewIInv, ReReview, VerdictFits, ReviewFits
<1>. QED BY <1>1, <1>2, ReviewsRemain DEF ReviewIInv, ReReview

LEMMA ReleaseKeeps ==
  ASSUME ReviewIInv, Release
  PROVE  ReviewIInv'
<1>1. \E r \in reviewed : r.subject.print = subject.print /\ Clean(r)
  <2>1. PICK r \in reviewed : Behind(r, cycle.print, cycle.status)
    BY DEF ReviewIInv, Release, ReleaseReady, CycleFits
  <2>. QED BY <2>1 DEF Release, ReleaseReady, Behind
<1>2. ReleaseIsReviewed'
  BY <1>1 DEF ReviewIInv, Release, ReleaseIsReviewed, Clean
<1>. QED BY <1>2, ReviewsRemain DEF ReviewIInv, Release, ReviewFits

LEMMA AssuranceNextKeeps ==
  ASSUME ReviewIInv, [AssuranceNext]_assurance
  PROVE  ReviewIInv'
<1>1. CASE UNCHANGED assurance
  BY <1>1, ReviewsRemain DEF ReviewIInv, assurance, ReviewFits
<1>2. CASE AssuranceNext
  BY <1>2, CorrectKeeps, BeginReviewKeeps, ReportNextKeeps, ReviewFailsKeeps, DecideKeeps,
     RecordKeeps, ReReviewKeeps, ReleaseKeeps DEF AssuranceNext
<1>. QED BY <1>1, <1>2

\* The release gate: whatever assert_release_ready lets through has the fingerprint
\* of a subject that three independent roles found clean and fully covered.
THEOREM ReleaseRestsOnReview == AssuranceSpec => []ReleaseIsReviewed
<1>1. ReviewIInv => ReleaseIsReviewed
  BY DEF ReviewIInv
<1>. QED BY ReviewInitIInv, AssuranceNextKeeps, <1>1, PTL DEF AssuranceSpec

\* A run holds the subject it was handed, and a decision that of its run.
Handed ==
  /\ review = None \/ review.subject \in Subject
  /\ verdict = None \/ (verdict.subject \in Subject /\ verdict.status \in {"PASS", "CHANGES_REQUIRED"})

LEMMA CycleIsTyped ==
  ASSUME AssuranceTypeOK, Handed, verdict # None, NEW n \in 1..MaxAttempts
  PROVE  Cycle(verdict, n) \in [kind : {"cycle"}, attempt : 1..MaxAttempts,
                                print : {s.print : s \in Subject}, status : {"PASS", "CHANGES_REQUIRED"}]
BY DEF Cycle, Handed

\* The release gate: reviews, corrections and remediation, in whatever order, keep
\* a cycle about a subject there was, and within the attempts it may take.
THEOREM AssuranceIsTyped == AssuranceSpec => []AssuranceTypeOK
<1>1. AssuranceInit => AssuranceTypeOK /\ Handed
  BY AssuranceAssumption DEF AssuranceInit, AssuranceTypeOK, Handed
<1>2. AssuranceTypeOK /\ Handed /\ [AssuranceNext]_assurance => AssuranceTypeOK' /\ Handed'
  <2>. SUFFICES ASSUME AssuranceTypeOK, Handed, [AssuranceNext]_assurance
                PROVE  AssuranceTypeOK' /\ Handed'
    OBVIOUS
  <2>1. CASE UNCHANGED assurance
    BY <2>1 DEF assurance, AssuranceTypeOK, Handed
  <2>2. ASSUME NEW s \in Subject, Correct(s) PROVE AssuranceTypeOK' /\ Handed'
    BY <2>2 DEF Correct, AssuranceTypeOK, Handed
  <2>3. ASSUME NEW implementers \in Implementers, BeginReview(implementers)
        PROVE  AssuranceTypeOK' /\ Handed'
    BY <2>3, AssuranceAssumption DEF BeginReview, AssuranceTypeOK, Handed
  <2>4. ASSUME NEW report \in Report, ReportNext(report) PROVE AssuranceTypeOK' /\ Handed'
    <3>1. review'.subject = review.subject /\ review # None
      BY <2>4 DEF ReportNext
    <3>2. UNCHANGED <<subject, verdict, cycle, released, reviews>>
      BY <2>4 DEF ReportNext
    <3>. QED BY <3>1, <3>2 DEF AssuranceTypeOK, Handed
  <2>5. CASE ReviewFails \/ Release
    BY <2>5 DEF ReviewFails, Release, AssuranceTypeOK, Handed
  <2>6. CASE Decide
    BY <2>6 DEF Decide, AssuranceTypeOK, Handed
  <2>7. CASE Record
    <3>1. 1 \in 1..MaxAttempts
      BY AssuranceAssumption
    <3>. QED BY <2>7, <3>1, CycleIsTyped DEF Record, AssuranceTypeOK, Handed
  <2>8. CASE ReReview
    <3>1. CASE MayReReview(cycle, verdict)
      <4>1. cycle.attempt \in 1..MaxAttempts /\ cycle.attempt < MaxAttempts
        BY <2>8, <3>1 DEF ReReview, MayReReview, AssuranceTypeOK
      <4>2. cycle.attempt + 1 \in 1..MaxAttempts
        BY <4>1, AssuranceAssumption
      <4>. QED BY <2>8, <3>1, <4>2, CycleIsTyped DEF ReReview, AssuranceTypeOK, Handed
    <3>2. CASE ~MayReReview(cycle, verdict)
      BY <2>8, <3>2 DEF ReReview, AssuranceTypeOK, Handed
    <3>. QED BY <3>1, <3>2
  <2>. QED BY <2>1, <2>2, <2>3, <2>4, <2>5, <2>6, <2>7, <2>8 DEF AssuranceNext
<1>. QED BY <1>1, <1>2, PTL DEF AssuranceSpec

-----------------------------------------------------------------------------
(* Numbers and functions on them.                                          *)

LEMMA HasLeast ==
  ASSUME NEW T \in SUBSET Nat, T # {}
  PROVE  \E n \in T : \A m \in T : n <= m
<1>1. PICK n \in T : \A m \in T : <<m, n>> \notin OpToRel(<, Nat)
  BY NatLessThanWellFounded, WFMin
<1>2. \A m \in T : ~(m < n)
  BY <1>1 DEF OpToRel
<1>3. QED
  BY <1>2

\* A step function can be iterated: every number has an approximation that goes as
\* far, and any two agree as far as both go.
LEMMA Iteration ==
  ASSUME NEW D, NEW F \in [D -> D], NEW b \in D
  PROVE  \E g \in [Nat -> D] : g[0] = b /\ \A n \in Nat : g[n + 1] = F[g[n]]
<1> DEFINE Upto(n) == {g \in [0..n -> D] : g[0] = b /\ \A i \in 1..n : g[i] = F[g[i - 1]]}
<1>1. \A n \in Nat : Upto(n) # {}
  <2> DEFINE Bad == {n \in Nat : Upto(n) = {}}
  <2> SUFFICES ASSUME Bad # {} PROVE FALSE
    OBVIOUS
  <2>1. PICK n \in Bad : \A m \in Bad : n <= m
    <3> HIDE DEF Upto
    <3>1. QED
      BY HasLeast
  <2>2. n \in Nat /\ Upto(n) = {}
    OBVIOUS
  <2>3. CASE n = 0
    <3>1. [i \in 0..0 |-> b] \in Upto(0)
      OBVIOUS
    <3>2. QED
      BY <2>2, <2>3, <3>1
  <2>4. CASE n # 0
    <3>1. n - 1 \in Nat /\ n - 1 \notin Bad
      <4>1. n - 1 \in Nat /\ ~(n <= n - 1)
        BY <2>2, <2>4
      <4> HIDE DEF Bad
      <4>2. QED
        BY <2>1, <4>1
    <3>2. PICK h \in Upto(n - 1) : TRUE
      BY <3>1
    <3> DEFINE k == [i \in 0..n |-> IF i = n THEN F[h[n - 1]] ELSE h[i]]
    <3>3. h \in [0..n - 1 -> D] /\ h[0] = b /\ \A i \in 1..n - 1 : h[i] = F[h[i - 1]]
      OBVIOUS
    <3>4. k \in [0..n -> D]
      <4>1. h[n - 1] \in D
        BY <3>1, <3>3
      <4>2. \A i \in 0..n : i # n => i \in 0..n - 1
        BY <2>2
      <4>3. QED
        BY <3>3, <4>1, <4>2
    <3>5. k[0] = b
      BY <2>2, <2>4, <3>3
    <3>6. ASSUME NEW i \in 1..n PROVE k[i] = F[k[i - 1]]
      <4>1. i - 1 \in 0..n /\ i - 1 # n /\ i \in 0..n
        BY <2>2
      <4>2. k[i - 1] = h[i - 1]
        BY <4>1
      <4>3. CASE i = n
        BY <4>2, <4>3, <4>1
      <4>4. CASE i # n
        <5>1. i \in 1..n - 1
          BY <2>2, <4>4
        <5>2. QED
          BY <3>3, <4>1, <4>2, <4>4, <5>1
      <4>5. QED
        BY <4>3, <4>4
    <3> HIDE DEF k
    <3>7. k \in Upto(n)
      BY <3>4, <3>5, <3>6
    <3>8. QED
      BY <2>2, <3>7
  <2>5. QED
    BY <2>3, <2>4
<1>2. ASSUME NEW m \in Nat, NEW n \in Nat, NEW g \in Upto(m), NEW h \in Upto(n)
      PROVE  \A i \in Nat : i <= m /\ i <= n => g[i] = h[i]
  <2> DEFINE Bad == {i \in Nat : i <= m /\ i <= n /\ g[i] # h[i]}
  <2> SUFFICES ASSUME Bad # {} PROVE FALSE
    OBVIOUS
  <2>1. PICK i \in Bad : \A j \in Bad : i <= j
    <3> HIDE DEF Upto
    <3>1. QED
      BY HasLeast
  <2>2. i \in Nat /\ i <= m /\ i <= n /\ g[i] # h[i]
    OBVIOUS
  <2>3. i # 0
    BY <2>2
  <2>4. i - 1 \in Nat /\ i - 1 \notin Bad /\ i \in 1..m /\ i \in 1..n
    BY <2>1, <2>2, <2>3
  <2>5. g[i - 1] = h[i - 1]
    BY <2>2, <2>4
  <2>6. g[i] = F[g[i - 1]] /\ h[i] = F[h[i - 1]]
    BY <2>4
  <2>7. QED
    BY <2>2, <2>5, <2>6
<1> DEFINE A == [n \in Nat |-> CHOOSE g : g \in Upto(n)]
           G == [n \in Nat |-> A[n][n]]
<1>3. \A n \in Nat : A[n] \in Upto(n)
  <2> HIDE DEF Upto
  <2>1. QED
    BY <1>1
<1> HIDE DEF A
<1>4. G \in [Nat -> D]
  BY <1>3
<1>5. G[0] = b
  BY <1>3
<1>6. ASSUME NEW n \in Nat PROVE G[n + 1] = F[G[n]]
  <2>1. n + 1 \in Nat /\ n + 1 \in 1..n + 1 /\ (n + 1) - 1 = n
    OBVIOUS
  <2>2. A[n + 1] \in Upto(n + 1) /\ A[n] \in Upto(n)
    BY <1>3, <2>1
  <2>3. A[n + 1][n + 1] = F[A[n + 1][n]]
    BY <2>1, <2>2
  <2>4. A[n + 1][n] = A[n][n]
    <3> HIDE DEF Upto
    <3>1. QED
      BY <1>2, <2>1, <2>2
  <2>5. QED
    BY <2>1, <2>3, <2>4
<1>7. QED
  BY <1>4, <1>5, <1>6

\* A finite set of numbers can be put in order: the rank of a number is how many
\* there are up to it.
LEMMA CanBeSorted ==
  ASSUME NEW S \in SUBSET Nat, IsFiniteSet(S)
  PROVE  \E s \in [1..Cardinality(S) -> S] :
           \A i, j \in 1..Cardinality(S) : i < j => s[i] < s[j]
<1> DEFINE N == Cardinality(S)
           Below(x) == {y \in S : y <= x}
           rank == [x \in S |-> Cardinality(Below(x))]
<1>1. N \in Nat /\ IsFiniteSet(1..N) /\ Cardinality(1..N) = N
  <2>1. N \in Nat
    BY FS_CardinalityType
  <2>2. QED
    BY <2>1, FS_Interval
<1>2. ASSUME NEW x \in S
      PROVE  IsFiniteSet(Below(x)) /\ Cardinality(Below(x)) \in 1..N
  <2>1. Below(x) \in SUBSET S /\ x \in Below(x)
    OBVIOUS
  <2>2. IsFiniteSet(Below(x)) /\ Cardinality(Below(x)) <= N
    BY <2>1, FS_Subset
  <2>3. Cardinality(Below(x)) \in Nat /\ Cardinality(Below(x)) # 0
    BY <2>1, <2>2, FS_CardinalityType, FS_EmptySet
  <2>4. QED
    BY <1>1, <2>2, <2>3
<1>3. ASSUME NEW x \in S, NEW y \in S, x < y PROVE rank[x] < rank[y]
  <2>1. Below(x) \in SUBSET Below(y) /\ y \in Below(y) /\ y \notin Below(x)
    <3>1. x \in Nat /\ y \in Nat /\ \A z \in S : z \in Nat
      OBVIOUS
    <3>2. y <= y /\ ~(y <= x) /\ \A z \in S : z <= x => z <= y
      BY <1>3, <3>1
    <3>3. QED
      BY <3>2
  <2>2. Cardinality(Below(x)) <= Cardinality(Below(y)) /\ Cardinality(Below(x)) # Cardinality(Below(y))
    BY <1>2, <2>1, FS_Subset
  <2>3. QED
    BY <1>2, <2>2
<1>4. rank \in [S -> 1..N]
  BY <1>2
<1> HIDE DEF rank
<1>5. rank \in Injection(S, 1..N)
  <2>1. ASSUME NEW x \in S, NEW y \in S, rank[x] = rank[y] PROVE x = y
    <3>1. rank[x] \in Nat /\ rank[y] \in Nat /\ x \in Nat /\ y \in Nat
      BY <1>4
    <3>2. ~(x < y) /\ ~(y < x)
      BY <1>3, <2>1, <3>1
    <3>3. QED
      BY <3>1, <3>2
  <2>2. QED
    BY <1>4, <2>1 DEF Injection, IsInjective
<1>6. \A i \in 1..N : \E x \in S : rank[x] = i
  <2>1. rank \in Surjection(S, 1..N)
    BY <1>1, <1>5, FS_Injection
  <2>2. QED
    BY <2>1 DEF Surjection
<1> DEFINE s == [i \in 1..N |-> CHOOSE x \in S : rank[x] = i]
<1>7. \A i \in 1..N : s[i] \in S /\ rank[s[i]] = i
  BY <1>6
<1>8. s \in [1..N -> S]
  BY <1>7
<1> HIDE DEF s
<1>9. ASSUME NEW i \in 1..N, NEW j \in 1..N, i < j PROVE s[i] < s[j]
  <2>1. s[i] \in Nat /\ s[j] \in Nat /\ s[i] # s[j] /\ i \in Nat /\ j \in Nat
    <3>1. s[i] \in S /\ s[j] \in S /\ rank[s[i]] = i /\ rank[s[j]] = j
      BY <1>7
    <3>2. i \in Nat /\ j \in Nat /\ i # j
      BY <1>1, <1>9
    <3>3. QED
      BY <3>1, <3>2
  <2>2. ~(s[j] < s[i])
    <3>1. SUFFICES ASSUME s[j] < s[i] PROVE FALSE
      OBVIOUS
    <3>2. rank[s[j]] < rank[s[i]]
      BY <1>3, <1>7, <3>1
    <3>3. QED
      BY <1>7, <1>9, <2>1, <3>2
  <2>3. QED
    BY <2>1, <2>2
<1>10. QED
  BY <1>8, <1>9

\* Sorting by name loses nothing and repeats nothing.
LEMMA NameOrderKeeps ==
  ASSUME NEW S \in SUBSET Nat, IsFiniteSet(S)
  PROVE  LET s == InNameOrder(S) IN
         /\ s \in Seq(S) /\ Len(s) = Cardinality(S)
         /\ \A i, j \in 1..Len(s) : s[i] = s[j] => i = j
         /\ \A x \in S : \E i \in 1..Len(s) : s[i] = x
<1> DEFINE N == Cardinality(S)
           s == InNameOrder(S)
           Sorted(f) == \A i, j \in DOMAIN f : i < j => f[i] < f[j]
<1>1. N \in Nat /\ IsFiniteSet(1..N) /\ Cardinality(1..N) = N
  <2>1. N \in Nat
    BY FS_CardinalityType
  <2>2. QED
    BY <2>1, FS_Interval
<1>2. \E f \in [1..N -> S] : Sorted(f)
  <2>1. PICK f \in [1..N -> S] : \A i, j \in 1..N : i < j => f[i] < f[j]
    BY CanBeSorted
  <2>2. Sorted(f)
    BY <2>1
  <2>3. QED
    BY <2>2
<1>3. s = CHOOSE f \in [1..N -> S] : Sorted(f)
  BY DEF InNameOrder
<1>4. s \in [1..N -> S] /\ Sorted(s)
  <2> HIDE DEF Sorted, s, N
  <2>1. QED
    BY <1>2, <1>3
<1> HIDE DEF s, N
<1>5. s \in Seq(S) /\ Len(s) = N /\ DOMAIN s = 1..N
  BY <1>1, <1>4
<1>6. ASSUME NEW i \in 1..N, NEW j \in 1..N, s[i] = s[j] PROVE i = j
  <2>1. s[i] \in Nat /\ s[j] \in Nat
    BY <1>4
  <2>2. ~(i < j) /\ ~(j < i)
    BY <1>4, <1>5, <1>6, <2>1
  <2>3. QED
    BY <1>1, <2>2
<1>7. s \in Injection(1..N, S)
  BY <1>4, <1>6 DEF Injection, IsInjective
<1>8. s \in Surjection(1..N, S)
  BY <1>1, <1>7, FS_Injection DEF N
<1>9. \A x \in S : \E i \in 1..N : s[i] = x
  BY <1>8 DEF Surjection
<1>10. QED
  BY <1>5, <1>6, <1>9 DEF s, N

-----------------------------------------------------------------------------
(* The execution order of a plan, layer after layer.                       *)

Layered(d, s) == s \o InNameOrder(Ready(d, ToSet(s)))

Emitted(d) ==
  CHOOSE e : e = [n \in Nat |-> IF n = 0 THEN <<>> ELSE Layered(d, e[n - 1])]

\* What is emitted is of the plan, without repetition and behind all it depends on.
OrderedSoFar(d, s) ==
  /\ s \in Seq(DOMAIN d)
  /\ \A i, j \in 1..Len(s) : s[i] = s[j] => i = j
  /\ \A i \in 1..Len(s) : d[s[i]].deps \subseteq {s[j] : j \in 1..i - 1}

\* The next layer of a sequence of packages.
LEMMA LayerIsNew ==
  ASSUME NEW d, DOMAIN d \in SUBSET Nat, IsFiniteSet(DOMAIN d), NEW done
  PROVE  LET l == InNameOrder(Ready(d, done)) IN
         /\ l \in Seq(DOMAIN d)
         /\ \A i, j \in 1..Len(l) : l[i] = l[j] => i = j
         /\ \A i \in 1..Len(l) : l[i] \in DOMAIN d /\ l[i] \notin done /\ d[l[i]].deps \subseteq done
         /\ \A p \in Ready(d, done) : \E i \in 1..Len(l) : l[i] = p
<1> DEFINE R == Ready(d, done)
           l == InNameOrder(R)
<1>1. R \in SUBSET (DOMAIN d) /\ \A p \in R : p \notin done /\ d[p].deps \subseteq done
  BY DEF Ready
<1>2. R \in SUBSET Nat /\ IsFiniteSet(R)
  BY <1>1, FS_Subset
<1> HIDE DEF R
<1>3. /\ l \in Seq(R)
      /\ \A i, j \in 1..Len(l) : l[i] = l[j] => i = j
      /\ \A x \in R : \E i \in 1..Len(l) : l[i] = x
  BY <1>2, NameOrderKeeps
<1> HIDE DEF l
<1>4. \A i \in 1..Len(l) : l[i] \in R
  BY <1>3
<1>5. l \in Seq(DOMAIN d)
  BY <1>1, <1>3
<1>6. QED
  BY <1>1, <1>3, <1>4, <1>5 DEF R, l

LEMMA LayeredIsOfPlan ==
  ASSUME NEW d, DOMAIN d \in SUBSET Nat, IsFiniteSet(DOMAIN d), NEW s \in Seq(DOMAIN d)
  PROVE  Layered(d, s) \in Seq(DOMAIN d)
BY LayerIsNew DEF Layered

LEMMA EmittedSteps ==
  ASSUME NEW d, DOMAIN d \in SUBSET Nat, IsFiniteSet(DOMAIN d)
  PROVE  /\ ExecutionOrder(d) = Emitted(d)[Cardinality(DOMAIN d)]
         /\ Emitted(d)[0] = <<>>
         /\ \A n \in Nat : Emitted(d)[n + 1] = Layered(d, Emitted(d)[n])
<1> DEFINE D == Seq(DOMAIN d)
           F == [s \in D |-> Layered(d, s)]
           e == Emitted(d)
           Fits(f) == f = [n \in Nat |-> IF n = 0 THEN <<>> ELSE Layered(d, f[n - 1])]
<1>1. ExecutionOrder(d) = e[Cardinality(DOMAIN d)]
  BY DEF ExecutionOrder, Emitted, Layered
<1>2. F \in [D -> D] /\ <<>> \in D
  BY LayeredIsOfPlan
<1>3. PICK g \in [Nat -> D] : g[0] = <<>> /\ \A n \in Nat : g[n + 1] = F[g[n]]
  <2> HIDE DEF F, D
  <2>1. QED
    BY <1>2, Iteration, SMTT(60)
<1>4. Fits(g)
  <2> DEFINE h == [n \in Nat |-> IF n = 0 THEN <<>> ELSE Layered(d, g[n - 1])]
  <2>1. ASSUME NEW n \in Nat PROVE g[n] = h[n]
    <3>1. CASE n = 0
      BY <1>3, <3>1
    <3>2. CASE n # 0
      <4>1. n - 1 \in Nat /\ (n - 1) + 1 = n
        BY <3>2
      <4>2. g[n] = F[g[n - 1]]
        BY <1>3, <4>1
      <4>3. QED
        BY <3>2, <4>1, <4>2
    <3>3. QED
      BY <3>1, <3>2
  <2>2. DOMAIN g = Nat /\ DOMAIN h = Nat /\ h = [n \in DOMAIN h |-> h[n]] /\ g = [n \in DOMAIN g |-> g[n]]
    OBVIOUS
  <2> HIDE DEF h
  <2>3. g = h
    BY <2>1, <2>2
  <2>4. QED
    BY <2>3 DEF h
<1>5. e = CHOOSE f : Fits(f)
  BY DEF Emitted
<1>6. Fits(e)
  <2> HIDE DEF Fits, e
  <2>1. QED
    BY <1>4, <1>5
<1> HIDE DEF e
<1>7. e[0] = <<>>
  BY <1>6
<1>8. ASSUME NEW n \in Nat PROVE e[n + 1] = Layered(d, e[n])
  <2>1. n + 1 \in Nat /\ n + 1 # 0 /\ (n + 1) - 1 = n
    OBVIOUS
  <2>2. QED
    BY <1>6, <2>1
<1>9. QED
  BY <1>1, <1>7, <1>8 DEF e

LEMMA LayeredStaysOrdered ==
  ASSUME NEW d, DOMAIN d \in SUBSET Nat, IsFiniteSet(DOMAIN d), NEW s, OrderedSoFar(d, s)
  PROVE  /\ OrderedSoFar(d, Layered(d, s))
         /\ ToSet(Layered(d, s)) = ToSet(s) \cup Ready(d, ToSet(s))
<1> DEFINE done == ToSet(s)
           l == InNameOrder(Ready(d, done))
           t == s \o l
<1>1. /\ s \in Seq(DOMAIN d) /\ Len(s) \in Nat
      /\ \A i, j \in 1..Len(s) : s[i] = s[j] => i = j
      /\ \A i \in 1..Len(s) : d[s[i]].deps \subseteq {s[j] : j \in 1..i - 1}
  BY DEF OrderedSoFar
<1>2. done = {s[i] : i \in 1..Len(s)}
  BY <1>1 DEF ToSet
<1> HIDE DEF done
<1>3. /\ l \in Seq(DOMAIN d)
      /\ \A i, j \in 1..Len(l) : l[i] = l[j] => i = j
      /\ \A i \in 1..Len(l) : l[i] \in DOMAIN d /\ l[i] \notin done /\ d[l[i]].deps \subseteq done
      /\ \A p \in Ready(d, done) : \E i \in 1..Len(l) : l[i] = p
  BY LayerIsNew
<1>4. \A i \in 1..Len(l) : l[i] \in Ready(d, done)
  BY <1>3 DEF Ready
<1> HIDE DEF l
<1>5. /\ t \in Seq(DOMAIN d) /\ Len(t) = Len(s) + Len(l) /\ Len(l) \in Nat
      /\ \A i \in 1..Len(s) : t[i] = s[i]
      /\ \A i \in 1..Len(l) : t[Len(s) + i] = l[i]
  BY <1>1, <1>3
<1> HIDE DEF t
<1>6. \A i \in 1..Len(t) : i \in 1..Len(s) \/ \E k \in 1..Len(l) : i = Len(s) + k
  <2>1. ASSUME NEW i \in 1..Len(t), i \notin 1..Len(s) PROVE \E k \in 1..Len(l) : i = Len(s) + k
    <3>1. i - Len(s) \in 1..Len(l) /\ i = Len(s) + (i - Len(s))
      BY <1>1, <1>5, <2>1
    <3>2. QED
      BY <3>1
  <2>2. QED
    BY <2>1
<1>7. ToSet(t) = done \cup Ready(d, done)
  <2>1. ToSet(t) = {t[i] : i \in 1..Len(t)}
    <3>1. DOMAIN t = 1..Len(t)
      BY <1>5
    <3>2. QED
      BY <3>1 DEF ToSet
  <2>2. ASSUME NEW i \in 1..Len(t) PROVE t[i] \in done \cup Ready(d, done)
    BY <1>2, <1>4, <1>5, <1>6
  <2>3. ASSUME NEW p \in done PROVE p \in ToSet(t)
    <3>1. PICK i \in 1..Len(s) : p = s[i]
      BY <1>2
    <3>2. i \in 1..Len(t)
      BY <1>1, <1>5
    <3>3. QED
      BY <1>5, <2>1, <3>1, <3>2
  <2>4. ASSUME NEW p \in Ready(d, done) PROVE p \in ToSet(t)
    <3>1. PICK i \in 1..Len(l) : p = l[i]
      BY <1>3
    <3>2. Len(s) + i \in 1..Len(t)
      BY <1>1, <1>5
    <3>3. QED
      BY <1>5, <2>1, <3>1, <3>2
  <2>5. QED
    BY <2>1, <2>2, <2>3, <2>4
<1>8. ASSUME NEW i \in 1..Len(t), NEW j \in 1..Len(t), t[i] = t[j] PROVE i = j
  <2>1. CASE i \in 1..Len(s) /\ j \in 1..Len(s)
    BY <1>1, <1>5, <1>8, <2>1
  <2>2. CASE i \notin 1..Len(s) /\ j \notin 1..Len(s)
    <3>1. PICK k \in 1..Len(l), m \in 1..Len(l) : i = Len(s) + k /\ j = Len(s) + m
      BY <1>6, <2>2
    <3>2. l[k] = l[m]
      BY <1>5, <1>8, <3>1
    <3>3. QED
      BY <1>3, <3>1, <3>2
  <2>3. ASSUME NEW a \in 1..Len(s), NEW b \in 1..Len(t), b \notin 1..Len(s) PROVE t[a] # t[b]
    <3>1. PICK k \in 1..Len(l) : b = Len(s) + k
      BY <1>6, <2>3
    <3>2. t[a] \in done /\ t[b] \notin done
      BY <1>2, <1>3, <1>5, <3>1
    <3>3. QED
      BY <3>2
  <2>4. QED
    BY <1>8, <2>1, <2>2, <2>3
<1>9. ASSUME NEW i \in 1..Len(t) PROVE d[t[i]].deps \subseteq {t[j] : j \in 1..i - 1}
  <2>1. CASE i \in 1..Len(s)
    <3>1. \A j \in 1..i - 1 : j \in 1..Len(s) /\ t[j] = s[j]
      BY <1>1, <1>5, <2>1
    <3>2. {t[j] : j \in 1..i - 1} = {s[j] : j \in 1..i - 1}
      BY <3>1
    <3>3. QED
      BY <1>1, <1>5, <2>1, <3>2
  <2>2. CASE i \notin 1..Len(s)
    <3>1. PICK k \in 1..Len(l) : i = Len(s) + k
      BY <1>6, <2>2
    <3>2. d[t[i]].deps \subseteq done
      BY <1>3, <1>5, <3>1
    <3>3. \A j \in 1..Len(s) : j \in 1..i - 1 /\ t[j] = s[j]
      BY <1>1, <1>5, <3>1
    <3>4. QED
      BY <1>2, <3>2, <3>3
  <2>3. QED
    BY <2>1, <2>2
<1>10. OrderedSoFar(d, t)
  BY <1>5, <1>8, <1>9 DEF OrderedSoFar
<1>11. QED
  BY <1>7, <1>10 DEF Layered, t, l, done

\* However many layers are emitted.
LEMMA EmittedIsOrdered ==
  ASSUME NEW d, DOMAIN d \in SUBSET Nat, IsFiniteSet(DOMAIN d)
  PROVE  \A n \in Nat : OrderedSoFar(d, Emitted(d)[n])
<1> DEFINE e == Emitted(d)
           Bad == {n \in Nat : ~OrderedSoFar(d, e[n])}
<1> SUFFICES ASSUME Bad # {} PROVE FALSE
  OBVIOUS
<1>1. PICK n \in Bad : \A m \in Bad : n <= m
  BY HasLeast
<1>2. e[0] = <<>> /\ \A m \in Nat : e[m + 1] = Layered(d, e[m])
  BY EmittedSteps
<1> HIDE DEF e
<1>3. OrderedSoFar(d, <<>>)
  BY DEF OrderedSoFar
<1>4. n \in Nat /\ n # 0 /\ ~OrderedSoFar(d, e[n])
  BY <1>2, <1>3
<1>5. n - 1 \in Nat /\ (n - 1) + 1 = n /\ ~(n <= n - 1)
  BY <1>4
<1>6. OrderedSoFar(d, e[n - 1])
  BY <1>1, <1>5
<1>7. e[n] = Layered(d, e[n - 1])
  BY <1>2, <1>5
<1>8. QED
  BY <1>4, <1>6, <1>7, LayeredStaysOrdered

-----------------------------------------------------------------------------
(* What a package depends on, directly or not.                             *)

Within(d, p) ==
  CHOOSE w : w = [n \in Nat |-> IF n = 0 THEN Deps(d, p)
                                ELSE w[n - 1] \cup UNION {Deps(d, q) : q \in w[n - 1]}]

\* No package names one that is not in the plan.
Closed(d) == \A p \in DOMAIN d : d[p].deps \subseteq DOMAIN d

LEMMA WithinSteps ==
  ASSUME NEW d, Closed(d), NEW p
  PROVE  /\ Upstream(d, p) = Within(d, p)[Cardinality(DOMAIN d)]
         /\ Within(d, p)[0] = Deps(d, p)
         /\ \A n \in Nat : Within(d, p)[n + 1] =
              Within(d, p)[n] \cup UNION {Deps(d, q) : q \in Within(d, p)[n]}
<1> DEFINE D == SUBSET (DOMAIN d)
           More(w) == w \cup UNION {Deps(d, q) : q \in w}
           F == [w \in D |-> More(w)]
           e == Within(d, p)
           Fits(f) == f = [n \in Nat |-> IF n = 0 THEN Deps(d, p) ELSE More(f[n - 1])]
<1>1. Upstream(d, p) = e[Cardinality(DOMAIN d)]
  BY DEF Upstream, Within
<1>2. \A q : Deps(d, q) \subseteq DOMAIN d
  BY DEF Deps, Closed
<1>3. F \in [D -> D] /\ Deps(d, p) \in D
  <2>1. \A w \in D : More(w) \in D
    BY <1>2
  <2>2. QED
    BY <1>2, <2>1
<1>4. PICK g \in [Nat -> D] : g[0] = Deps(d, p) /\ \A n \in Nat : g[n + 1] = F[g[n]]
  <2> DEFINE b == Deps(d, p)
  <2>1. F \in [D -> D] /\ b \in D
    BY <1>3
  <2> HIDE DEF F, D, b
  <2>2. \E g \in [Nat -> D] : g[0] = b /\ \A n \in Nat : g[n + 1] = F[g[n]]
    BY <2>1, Iteration, SMTT(60)
  <2>3. QED
    BY <2>2 DEF b
<1> HIDE DEF More
<1>5. Fits(g)
  <2> DEFINE h == [n \in Nat |-> IF n = 0 THEN Deps(d, p) ELSE More(g[n - 1])]
  <2>1. ASSUME NEW n \in Nat PROVE g[n] = h[n]
    <3>1. CASE n = 0
      BY <1>4, <3>1
    <3>2. CASE n # 0
      <4>1. n - 1 \in Nat /\ (n - 1) + 1 = n
        BY <3>2
      <4>2. g[n] = F[g[n - 1]] /\ g[n - 1] \in D
        BY <1>4, <4>1
      <4>3. QED
        BY <3>2, <4>1, <4>2
    <3>3. QED
      BY <3>1, <3>2
  <2>2. DOMAIN g = Nat /\ DOMAIN h = Nat /\ h = [n \in DOMAIN h |-> h[n]] /\ g = [n \in DOMAIN g |-> g[n]]
    OBVIOUS
  <2> HIDE DEF h
  <2>3. g = h
    BY <2>1, <2>2
  <2>4. QED
    BY <2>3 DEF h
<1>6. e = CHOOSE f : Fits(f)
  BY DEF Within, More
<1>7. Fits(e)
  <2> HIDE DEF Fits, e
  <2>1. QED
    BY <1>5, <1>6
<1> HIDE DEF e
<1>8. e[0] = Deps(d, p)
  BY <1>7
<1>9. ASSUME NEW n \in Nat PROVE e[n + 1] = More(e[n])
  <2>1. n + 1 \in Nat /\ n + 1 # 0 /\ (n + 1) - 1 = n
    OBVIOUS
  <2>2. QED
    BY <1>7, <2>1
<1>10. QED
  BY <1>1, <1>8, <1>9 DEF e, More

\* Farther is never less.
LEMMA WithinGrows ==
  ASSUME NEW d, Closed(d), NEW p, NEW n \in Nat
  PROVE  \A m \in Nat : n <= m => Within(d, p)[n] \subseteq Within(d, p)[m]
<1> DEFINE e == Within(d, p)
           Bad == {m \in Nat : n <= m /\ ~(e[n] \subseteq e[m])}
<1> SUFFICES ASSUME Bad # {} PROVE FALSE
  OBVIOUS
<1>1. PICK m \in Bad : \A k \in Bad : m <= k
  BY HasLeast
<1>2. m \in Nat /\ n <= m /\ ~(e[n] \subseteq e[m]) /\ m # n
  OBVIOUS
<1>3. m - 1 \in Nat /\ (m - 1) + 1 = m /\ n <= m - 1 /\ ~(m <= m - 1)
  BY <1>2
<1>4. e[n] \subseteq e[m - 1]
  BY <1>1, <1>3
<1>5. e[m - 1] \subseteq e[(m - 1) + 1]
  BY <1>3, WithinSteps
<1>6. QED
  BY <1>2, <1>3, <1>4, <1>5

\* In an order that puts each package behind its dependencies it is behind all
\* that is upstream of it.
LEMMA UpstreamIsBefore ==
  ASSUME NEW d, Closed(d), IsFiniteSet(DOMAIN d), NEW s, OrderedSoFar(d, s), NEW i \in 1..Len(s)
  PROVE  Upstream(d, s[i]) \subseteq {s[j] : j \in 1..i - 1}
<1> DEFINE e == Within(d, s[i])
           before == {s[j] : j \in 1..i - 1}
           Bad == {n \in Nat : ~(e[n] \subseteq before)}
<1>1. /\ e[0] = Deps(d, s[i]) /\ Upstream(d, s[i]) = e[Cardinality(DOMAIN d)]
      /\ \A n \in Nat : e[n + 1] = e[n] \cup UNION {Deps(d, q) : q \in e[n]}
  <2> DEFINE p == s[i]
  <2> HIDE DEF p
  <2>1. /\ Within(d, p)[0] = Deps(d, p) /\ Upstream(d, p) = Within(d, p)[Cardinality(DOMAIN d)]
        /\ \A n \in Nat : Within(d, p)[n + 1] =
             Within(d, p)[n] \cup UNION {Deps(d, q) : q \in Within(d, p)[n]}
    BY WithinSteps
  <2>2. QED
    BY <2>1 DEF p
<1>2. /\ s \in Seq(DOMAIN d) /\ Len(s) \in Nat
      /\ \A j \in 1..Len(s) : d[s[j]].deps \subseteq {s[k] : k \in 1..j - 1}
  BY DEF OrderedSoFar
<1>3. \A j \in 1..Len(s) : Deps(d, s[j]) = d[s[j]].deps
  BY <1>2 DEF Deps
<1>4. ASSUME NEW q \in before PROVE Deps(d, q) \subseteq before
  <2>1. PICK j \in 1..i - 1 : q = s[j]
    OBVIOUS
  <2>2. j \in 1..Len(s) /\ \A k \in 1..j - 1 : k \in 1..i - 1
    BY <1>2
  <2>3. QED
    BY <1>2, <1>3, <2>1, <2>2
<1> HIDE DEF e
<1>5. Bad = {}
  <2> SUFFICES ASSUME Bad # {} PROVE FALSE
    OBVIOUS
  <2>1. PICK n \in Bad : \A m \in Bad : n <= m
    <3> HIDE DEF before
    <3>1. QED
      BY HasLeast
  <2>2. n \in Nat /\ ~(e[n] \subseteq before)
    OBVIOUS
  <2>3. n # 0
    BY <1>1, <1>2, <1>3, <2>2
  <2>4. n - 1 \in Nat /\ (n - 1) + 1 = n /\ ~(n <= n - 1)
    BY <2>2, <2>3
  <2>5. e[n - 1] \subseteq before
    BY <2>1, <2>4
  <2>6. e[n] = e[n - 1] \cup UNION {Deps(d, q) : q \in e[n - 1]}
    BY <1>1, <2>4
  <2> HIDE DEF before
  <2>7. QED
    BY <1>4, <2>2, <2>5, <2>6
<1>6. Cardinality(DOMAIN d) \in Nat
  BY FS_CardinalityType
<1>7. QED
  BY <1>1, <1>5, <1>6

\* Without a cycle something is always ready: else a path of dependencies would
\* never end, and would come back to a package within as many steps as there are.
LEMMA AcyclicHasReady ==
  ASSUME NEW d, IsFiniteSet(DOMAIN d), Closed(d), ~HasCycle(d), NEW done,
         DOMAIN d \ done # {}
  PROVE  Ready(d, done) # {}
<1> SUFFICES ASSUME Ready(d, done) = {} PROVE FALSE
  OBVIOUS
<1> DEFINE R == DOMAIN d \ done
           N == Cardinality(DOMAIN d)
           next == [q \in R |-> CHOOSE r \in R : r \in d[q].deps]
<1>1. \A q \in R : \E r \in R : r \in d[q].deps
  BY DEF Ready, Closed
<1>2. next \in [R -> R] /\ \A q \in R : next[q] \in d[q].deps
  BY <1>1
<1>3. PICK b \in R : TRUE
  OBVIOUS
<1>4. PICK g \in [Nat -> R] : g[0] = b /\ \A n \in Nat : g[n + 1] = next[g[n]]
  <2> HIDE DEF R, next
  <2>1. QED
    BY <1>2, Iteration
<1> HIDE DEF next
<1>5. \A n \in Nat : g[n] \in DOMAIN d /\ g[n + 1] \in Deps(d, g[n])
  BY <1>2, <1>4 DEF Deps
<1>6. N \in Nat
  BY FS_CardinalityType
<1>7. PICK a \in 0..N, z \in 0..N : a < z /\ g[a] = g[z]
  <2> DEFINE f == [i \in 0..N |-> g[i]]
  <2>1. f \in [0..N -> R]
    BY <1>4, <1>6
  <2>2. IsFiniteSet(0..N) /\ Cardinality(0..N) = N + 1
    BY <1>6, FS_Interval
  <2>3. IsFiniteSet(R) /\ Cardinality(R) <= N /\ Cardinality(R) \in Nat
    BY FS_Subset, FS_CardinalityType
  <2>4. Cardinality(R) < Cardinality(0..N)
    BY <1>6, <2>2, <2>3
  <2>5. PICK x \in 0..N, y \in 0..N : x # y /\ f[x] = f[y]
    <3> DEFINE I == 0..N
    <3>1. f \in [I -> R] /\ IsFiniteSet(I) /\ IsFiniteSet(R) /\ Cardinality(R) < Cardinality(I)
      BY <2>1, <2>2, <2>3, <2>4
    <3> HIDE DEF R, f, I
    <3>2. \E x, y \in I : x # y /\ f[x] = f[y]
      BY <3>1, FS_PigeonHole
    <3>3. QED
      BY <3>2 DEF I
  <2> HIDE DEF N, R
  <2>6. g[x] = g[y] /\ (x < y \/ y < x)
    BY <1>6, <2>5
  <2>7. QED
    BY <2>6
<1> DEFINE e == Within(d, g[a])
           Bad == {k \in Nat : g[a + k + 1] \notin e[k]}
<1>8. /\ e[0] = Deps(d, g[a]) /\ Upstream(d, g[a]) = e[N]
      /\ \A n \in Nat : e[n + 1] = e[n] \cup UNION {Deps(d, q) : q \in e[n]}
  BY WithinSteps
<1>9. a \in Nat /\ z \in Nat /\ z <= N
  BY <1>6, <1>7
<1>10. \A n \in Nat : n <= N => e[n] \subseteq e[N]
  BY <1>6, WithinGrows
<1> HIDE DEF e, R, N
<1>11. Bad = {}
  <2> SUFFICES ASSUME Bad # {} PROVE FALSE
    OBVIOUS
  <2>1. PICK k \in Bad : \A m \in Bad : k <= m
    BY HasLeast
  <2>2. k \in Nat /\ g[a + k + 1] \notin e[k]
    OBVIOUS
  <2>3. k # 0
    BY <1>5, <1>8, <1>9, <2>2
  <2>4. k - 1 \in Nat /\ (k - 1) + 1 = k /\ ~(k <= k - 1) /\ a + (k - 1) + 1 = a + k /\ a + k \in Nat
    BY <1>9, <2>2, <2>3
  <2>5. k - 1 \notin Bad
    <3> HIDE DEF Bad
    <3>1. QED
      BY <2>1, <2>4
  <2>6. g[a + k] \in e[k - 1]
    BY <2>4, <2>5
  <2>7. g[a + k + 1] \in Deps(d, g[a + k])
    BY <1>5, <2>4
  <2>8. e[k] = e[k - 1] \cup UNION {Deps(d, q) : q \in e[k - 1]}
    BY <1>8, <2>4
  <2>9. QED
    BY <2>2, <2>6, <2>7, <2>8
<1>12. z - a - 1 \in Nat /\ a + (z - a - 1) + 1 = z /\ z - a - 1 <= N
  BY <1>6, <1>7, <1>9
<1>13. g[z] \in e[z - a - 1]
  <2>1. z - a - 1 \notin Bad
    BY <1>11
  <2>2. QED
    BY <1>12, <2>1
<1>14. g[a] \in Upstream(d, g[a])
  BY <1>7, <1>8, <1>10, <1>12, <1>13
<1>15. QED
  BY <1>5, <1>9, <1>14 DEF HasCycle

\* The order of a plan without a cycle has all of it.
LEMMA OrderIsComplete ==
  ASSUME NEW d, DOMAIN d \in SUBSET Nat, IsFiniteSet(DOMAIN d), Closed(d), ~HasCycle(d)
  PROVE  LET s == ExecutionOrder(d) IN
         /\ OrderedSoFar(d, s)
         /\ ToSet(s) = DOMAIN d
         /\ Len(s) = Cardinality(DOMAIN d)
<1> DEFINE P == DOMAIN d
           N == Cardinality(P)
           e == Emitted(d)
           Bad == {n \in Nat : n <= N /\ ~(n <= Cardinality(ToSet(e[n])))}
<1>1. N \in Nat
  BY FS_CardinalityType
<1>2. /\ ExecutionOrder(d) = e[N] /\ e[0] = <<>>
      /\ \A n \in Nat : e[n + 1] = Layered(d, e[n])
  BY EmittedSteps
<1>3. \A n \in Nat : OrderedSoFar(d, e[n])
  BY EmittedIsOrdered
<1> HIDE DEF e
<1>4. \A n \in Nat : /\ ToSet(e[n]) \in SUBSET P /\ IsFiniteSet(ToSet(e[n]))
                     /\ Cardinality(ToSet(e[n])) \in Nat /\ Cardinality(ToSet(e[n])) <= N
  <2> SUFFICES ASSUME NEW n \in Nat
               PROVE  /\ ToSet(e[n]) \in SUBSET P /\ IsFiniteSet(ToSet(e[n]))
                      /\ Cardinality(ToSet(e[n])) \in Nat /\ Cardinality(ToSet(e[n])) <= N
    OBVIOUS
  <2>1. e[n] \in Seq(P)
    BY <1>3 DEF OrderedSoFar
  <2>2. ToSet(e[n]) \in SUBSET P
    BY <2>1 DEF ToSet
  <2>3. QED
    BY <2>2, FS_Subset, FS_CardinalityType
<1>5. Bad = {}
  <2> SUFFICES ASSUME Bad # {} PROVE FALSE
    OBVIOUS
  <2>1. PICK n \in Bad : \A m \in Bad : n <= m
    <3> HIDE DEF N
    <3>1. QED
      BY HasLeast
  <2>2. n \in Nat /\ n <= N /\ ~(n <= Cardinality(ToSet(e[n])))
    OBVIOUS
  <2>3. n # 0
    BY <1>4, <2>2
  <2>4. n - 1 \in Nat /\ (n - 1) + 1 = n /\ ~(n <= n - 1) /\ n - 1 <= N
    BY <1>1, <2>2, <2>3
  <2> DEFINE T == ToSet(e[n - 1])
  <2>5. n - 1 <= Cardinality(T)
    <3>1. n - 1 \notin Bad
      <4> HIDE DEF Bad
      <4>1. QED
        BY <2>1, <2>4
    <3>2. QED
      BY <2>4, <3>1
  <2>6. ToSet(e[n]) = T \cup Ready(d, T)
    <3>1. e[n] = Layered(d, e[n - 1])
      BY <1>2, <2>4
    <3>2. QED
      BY <1>3, <2>4, <3>1, LayeredStaysOrdered
  <2>7. T \in SUBSET P /\ IsFiniteSet(T) /\ Cardinality(T) \in Nat
    BY <1>4, <2>4
  <2>8. ToSet(e[n]) \in SUBSET P /\ IsFiniteSet(ToSet(e[n])) /\ Cardinality(ToSet(e[n])) \in Nat
    BY <1>4, <2>2
  <2> HIDE DEF T
  <2>9. CASE T = P
    <3>1. Cardinality(T) <= Cardinality(ToSet(e[n]))
      BY <2>6, <2>8, FS_Subset
    <3>2. QED
      BY <1>1, <2>2, <2>7, <2>8, <2>9, <3>1
  <2>10. CASE T # P
    <3>1. PICK p \in Ready(d, T) : TRUE
      BY <2>7, <2>10, AcyclicHasReady
    <3>2. p \notin T
      BY <3>1 DEF Ready
    <3>3. IsFiniteSet(T \cup {p}) /\ Cardinality(T \cup {p}) = Cardinality(T) + 1
      BY <2>7, <3>2, FS_AddElement
    <3>4. T \cup {p} \in SUBSET ToSet(e[n])
      BY <2>6, <3>1
    <3>5. Cardinality(T \cup {p}) <= Cardinality(ToSet(e[n]))
      BY <2>8, <3>4, FS_Subset
    <3>6. QED
      BY <2>2, <2>4, <2>5, <2>7, <2>8, <3>3, <3>5
  <2>11. QED
    BY <2>9, <2>10
<1> DEFINE s == e[N]
<1>6. OrderedSoFar(d, s)
  BY <1>1, <1>3
<1>7. ToSet(s) = P
  <2>1. N <= Cardinality(ToSet(s))
    <3>1. N \notin Bad
      BY <1>5
    <3>2. QED
      BY <1>1, <3>1
  <2>2. ToSet(s) \in SUBSET P /\ Cardinality(ToSet(s)) = N
    <3>1. /\ ToSet(s) \in SUBSET P /\ Cardinality(ToSet(s)) \in Nat
          /\ Cardinality(ToSet(s)) <= N
      BY <1>1, <1>4
    <3>2. QED
      BY <1>1, <2>1, <3>1
  <2>3. QED
    BY <2>2, FS_Subset
<1> HIDE DEF s
<1>8. Len(s) = N
  <2>1. s \in Seq(P) /\ Len(s) \in Nat /\ DOMAIN s = 1..Len(s) /\ s \in [1..Len(s) -> P]
    BY <1>6 DEF OrderedSoFar
  <2>2. s \in Injection(1..Len(s), P)
    BY <1>6, <2>1 DEF OrderedSoFar, Injection, IsInjective
  <2>3. s \in Surjection(1..Len(s), P)
    BY <1>7, <2>1 DEF Surjection, ToSet
  <2>4. IsFiniteSet(1..Len(s)) /\ Cardinality(1..Len(s)) = Len(s)
    <3>1. \A k \in Nat : IsFiniteSet(1..k) /\ Cardinality(1..k) = k
      BY FS_Interval
    <3>2. QED
      BY <2>1, <3>1
  <2>5. QED
    BY <2>2, <2>3, <2>4, FS_Injection
<1>9. QED
  BY <1>2, <1>6, <1>7, <1>8 DEF s

-----------------------------------------------------------------------------
(* The engineering pod: what is behind, at hand and ahead.                 *)

\* The first k packages of the order have evidence, the others are to do.
Placed(d, t, e, k) ==
  LET s == ExecutionOrder(d) IN
  /\ k \in 0..Len(s)
  /\ t \in Seq(DOMAIN d) /\ Len(t) = Len(s) - k
  /\ \A i \in 1..Len(t) : t[i] = s[k + i]
  /\ DOMAIN e = {s[i] : i \in 1..k}

\* Evidence is accepted when it fits, and filed as it is.
Filed(d, e, c) ==
  \A p \in DOMAIN e : EvidenceFits(d[p], e[p]) /\ p \in DOMAIN c /\ c[p] = e[p]

\* No two packages of the order changed the same file.
Owned(d, e) ==
  \A i, j \in DOMAIN ExecutionOrder(d) : i < j =>
    e[ExecutionOrder(d)[i]].paths \cap e[ExecutionOrder(d)[j]].paths = {}

PodIInv ==
  /\ DOMAIN plan \subseteq Package
  /\ stage \in {"idle", "plan", "package", "stopped", "done"}
  /\ round \in 0..(IF stage = "plan" THEN MaxPlanRounds ELSE MaxWorkRounds)
  /\ DOMAIN catalog = {"evidence", "manifest"}
  /\ draft # <<>> => stage = "package" /\ todo # <<>>
  /\ stage # "package" => todo = <<>>
  /\ stage = "plan" => DOMAIN evidence = {}
  /\ stage \in {"package", "done"} =>
       PlanIsSound(plan) /\ Filed(plan, evidence, catalog.evidence)
  /\ stage = "package" => \E k \in Nat : Placed(plan, todo, evidence, k)
  /\ stage = "done" => /\ DOMAIN evidence = DOMAIN plan /\ Owned(plan, evidence)
                       /\ catalog.manifest = <<Manifest(ExecutionOrder(plan), evidence)>>

\* What the validator lets through can be executed from end to end.
LEMMA SoundPlanIsOrdered ==
  ASSUME NEW d, DOMAIN d \subseteq Package, PlanIsSound(d)
  PROVE  /\ OrderedSoFar(d, ExecutionOrder(d)) /\ Closed(d)
         /\ IsFiniteSet(DOMAIN d)
         /\ ToSet(ExecutionOrder(d)) = DOMAIN d
         /\ Len(ExecutionOrder(d)) = Cardinality(DOMAIN d)
<1>1. DOMAIN d \in SUBSET Nat /\ IsFiniteSet(DOMAIN d)
  BY PodAssumption, FS_Subset
<1>2. Closed(d) /\ ~HasCycle(d)
  BY DEF PlanIsSound, PackageIsValid, Closed
<1>3. QED
  BY <1>1, <1>2, OrderIsComplete

LEMMA PodInitIInv == PodInit => PodIInv
BY PodAssumption DEF PodInit, PodIInv, Nothing

LEMMA RaiseKeeps ==
  ASSUME PodIInv, NEW reason \in {"stopped"}, Raise(reason)
  PROVE  PodIInv'
BY PodAssumption DEF Raise, PodIInv, Nothing

LEMMA PlanningKeeps ==
  ASSUME PodIInv, (\E d \in Draft : DraftPlan(d)) \/ RevisePlan
  PROVE  PodIInv'
<1>1. ASSUME NEW d \in Draft, DraftPlan(d) PROVE PodIInv'
  BY <1>1, PodAssumption DEF DraftPlan, PodIInv, Nothing
<1>2. CASE RevisePlan
  <2>1. PICK d \in Draft, reworded \in BOOLEAN :
          IF d = plan /\ ~reworded THEN Raise("stopped")
          ELSE /\ plan' = d /\ round' = round + 1
               /\ UNCHANGED <<stage, todo, draft, evidence, catalog, runs>>
    BY <1>2 DEF RevisePlan
  <2>2. CASE Raise("stopped")
    BY <2>2, RaiseKeeps
  <2>3. CASE /\ plan' = d /\ round' = round + 1
             /\ UNCHANGED <<stage, todo, draft, evidence, catalog, runs>>
    <3>1. stage = "plan" /\ round < MaxPlanRounds
      BY <1>2 DEF RevisePlan, MayRevise
    <3>2. DOMAIN d \subseteq Package /\ MaxPlanRounds \in Nat
      BY PodAssumption
    <3>3. round' \in 0..MaxPlanRounds
      BY <2>3, <3>1, <3>2 DEF PodIInv
    <3>4. QED
      BY <2>3, <3>1, <3>2, <3>3 DEF PodIInv
  <2>4. QED
    BY <2>1, <2>2, <2>3
<1>3. QED
  BY <1>1, <1>2

\* An accepted plan never deadlocks.
LEMMA AcceptPlanKeeps ==
  ASSUME PodIInv, AcceptPlan
  PROVE  PodIInv'
<1> DEFINE s == ExecutionOrder(plan)
<1>1. PlanIsSound(plan) /\ DOMAIN plan \subseteq Package /\ DOMAIN evidence = {}
  BY DEF AcceptPlan, PodIInv
<1>2. /\ OrderedSoFar(plan, s) /\ Len(s) = Cardinality(DOMAIN plan)
  BY <1>1, SoundPlanIsOrdered
<1>3. Len(s) \in Nat /\ s \in Seq(DOMAIN plan)
  BY <1>2 DEF OrderedSoFar
<1>4. /\ stage' = "package" /\ todo' = s /\ round' = 0
      /\ UNCHANGED <<plan, draft, evidence, catalog, runs>>
  <2>1. ~(Len(s) < Cardinality(DOMAIN plan))
    BY <1>2, <1>3
  <2>2. QED
    BY <2>1 DEF AcceptPlan
<1>5. draft = <<>>
  BY DEF AcceptPlan, PodIInv
<1>6. Placed(plan, s, evidence, 0)
  <2> HIDE DEF s
  <2>1. 0 \in 0..Len(s) /\ Len(s) = Len(s) - 0 /\ \A i \in 1..Len(s) : s[i] = s[0 + i]
    BY <1>3
  <2>2. {s[i] : i \in 1..0} = {}
    OBVIOUS
  <2>3. QED
    BY <1>1, <1>3, <2>1, <2>2 DEF Placed, s
<1>7. Filed(plan, evidence, catalog.evidence)
  BY <1>1 DEF Filed
<1>8. \E k \in Nat : Placed(plan', todo', evidence', k)
  BY <1>4, <1>6
<1> HIDE DEF s
<1>9. QED
  BY <1>1, <1>4, <1>5, <1>7, <1>8, PodAssumption DEF PodIInv

LEMMA ImplementKeeps ==
  ASSUME PodIInv, Implement
  PROVE  PodIInv'
BY PodAssumption DEF Implement, PodIInv

LEMMA ReviseEvidenceKeeps ==
  ASSUME PodIInv, ReviseEvidence
  PROVE  PodIInv'
<1>1. PICK e \in Work(Head(todo)), reworded \in BOOLEAN :
        IF <<e>> = draft /\ ~reworded THEN Raise("stopped")
        ELSE /\ draft' = <<e>> /\ round' = round + 1
             /\ UNCHANGED <<stage, plan, todo, evidence, catalog, runs>>
  BY DEF ReviseEvidence
<1>2. CASE Raise("stopped")
  BY <1>2, RaiseKeeps
<1>3. CASE /\ draft' = <<e>> /\ round' = round + 1
           /\ UNCHANGED <<stage, plan, todo, evidence, catalog, runs>>
  <2>1. stage = "package" /\ todo # <<>> /\ round < MaxWorkRounds
    BY DEF ReviseEvidence, MayRevise, PodIInv
  <2>2. round' \in 0..MaxWorkRounds
    BY <1>3, <2>1, PodAssumption DEF PodIInv
  <2>3. QED
    BY <1>3, <2>1, <2>2 DEF PodIInv
<1>4. QED
  BY <1>1, <1>2, <1>3

\* The package at hand goes behind, with the evidence that fits.
LEMMA AcceptEvidenceKeeps ==
  ASSUME PodIInv, AcceptEvidence
  PROVE  PodIInv'
<1> DEFINE p == Head(todo)
           s == ExecutionOrder(plan)
<1>1. /\ stage = "package" /\ draft # <<>> /\ todo # <<>> /\ EvidenceFits(plan[p], draft[1])
      /\ PlanIsSound(plan) /\ Filed(plan, evidence, catalog.evidence)
  BY DEF AcceptEvidence, PodIInv
<1>2. PICK k \in Nat : Placed(plan, todo, evidence, k)
  BY <1>1 DEF PodIInv
<1>3. /\ k \in 0..Len(s) /\ todo \in Seq(DOMAIN plan) /\ Len(todo) = Len(s) - k
      /\ \A i \in 1..Len(todo) : todo[i] = s[k + i]
      /\ DOMAIN evidence = {s[i] : i \in 1..k}
  BY <1>2 DEF Placed
<1>4. Len(s) \in Nat
  <2>1. OrderedSoFar(plan, s)
    BY <1>1, SoundPlanIsOrdered DEF PodIInv
  <2>2. QED
    BY <2>1 DEF OrderedSoFar
<1> HIDE DEF s
<1>5. Len(todo) >= 1 /\ p = todo[1] /\ p = s[k + 1]
  BY <1>1, <1>3
<1>6. /\ evidence' = [q \in DOMAIN evidence \cup {p} |-> IF q = p THEN draft[1] ELSE evidence[q]]
      /\ catalog' = [catalog EXCEPT !.evidence =
           [q \in DOMAIN catalog.evidence \cup {p} |->
              IF q = p THEN draft[1] ELSE catalog.evidence[q]]]
      /\ todo' = Tail(todo) /\ draft' = <<>> /\ round' = 0
      /\ UNCHANGED <<stage, plan, runs>>
  BY DEF AcceptEvidence
<1> HIDE DEF p
<1>7. /\ DOMAIN catalog' = {"evidence", "manifest"}
      /\ catalog'.evidence = [q \in DOMAIN catalog.evidence \cup {p} |->
                                IF q = p THEN draft[1] ELSE catalog.evidence[q]]
  BY <1>6 DEF PodIInv
<1>8. Placed(plan, todo', evidence', k + 1)
  <2>1. k + 1 \in 0..Len(s)
    BY <1>3, <1>4, <1>5
  <2>2. todo' \in Seq(DOMAIN plan) /\ Len(todo') = Len(s) - (k + 1)
    BY <1>1, <1>3, <1>4, <1>6
  <2>3. ASSUME NEW i \in 1..Len(todo') PROVE todo'[i] = s[(k + 1) + i]
    <3>1. i + 1 \in 1..Len(todo) /\ (k + 1) + i = k + (i + 1)
      BY <1>3, <1>4, <2>2
    <3>2. todo'[i] = todo[i + 1]
      BY <1>1, <1>3, <1>6, <2>2
    <3>3. QED
      BY <1>3, <3>1, <3>2
  <2>4. DOMAIN evidence' = {s[i] : i \in 1..k + 1}
    <3>1. \A i \in 1..k + 1 : i \in 1..k \/ i = k + 1
      OBVIOUS
    <3>2. \A i \in 1..k : i \in 1..k + 1
      OBVIOUS
    <3>3. DOMAIN evidence' = {s[i] : i \in 1..k} \cup {s[k + 1]} /\ k + 1 \in 1..k + 1
      BY <1>3, <1>5, <1>6
    <3>4. QED
      BY <3>1, <3>2, <3>3
  <2>5. QED
    BY <2>1, <2>2, <2>3, <2>4 DEF Placed, s
<1>9. Filed(plan, evidence', catalog'.evidence)
  <2>1. ASSUME NEW q \in DOMAIN evidence'
        PROVE  /\ EvidenceFits(plan[q], evidence'[q])
               /\ q \in DOMAIN catalog'.evidence /\ catalog'.evidence[q] = evidence'[q]
    <3>1. CASE q = p
      BY <1>1, <1>6, <1>7, <3>1 DEF p
    <3>2. CASE q # p
      <4>1. q \in DOMAIN evidence /\ evidence'[q] = evidence[q]
        BY <1>6, <3>2
      <4>2. /\ EvidenceFits(plan[q], evidence[q])
            /\ q \in DOMAIN catalog.evidence /\ catalog.evidence[q] = evidence[q]
        BY <1>1, <4>1 DEF Filed
      <4>3. QED
        BY <1>7, <3>2, <4>1, <4>2
    <3>3. QED
      BY <3>1, <3>2
  <2>2. QED
    BY <2>1 DEF Filed
<1>10. \E n \in Nat : Placed(plan', todo', evidence', n)
  <2>1. k + 1 \in Nat /\ plan' = plan
    BY <1>6
  <2>2. QED
    BY <1>8, <2>1
<1>11. /\ stage' = "package" /\ plan' = plan /\ round' = 0 /\ draft' = <<>>
       /\ DOMAIN catalog' = {"evidence", "manifest"}
       /\ PlanIsSound(plan') /\ Filed(plan', evidence', catalog'.evidence)
       /\ DOMAIN plan' \subseteq Package
  <2>1. stage' = "package" /\ plan' = plan /\ round' = 0 /\ draft' = <<>>
    BY <1>1, <1>6
  <2>2. DOMAIN plan \subseteq Package
    BY DEF PodIInv
  <2>3. QED
    BY <1>1, <1>7, <1>9, <2>1, <2>2
<1>12. QED
  BY <1>10, <1>11, PodAssumption DEF PodIInv

LEMMA IntegrateKeeps ==
  ASSUME PodIInv, Integrate
  PROVE  PodIInv'
<1> DEFINE s == ExecutionOrder(plan)
<1>1. stage = "package" /\ todo = <<>> /\ draft = <<>>
  BY DEF Integrate, PodIInv
<1>2. CASE ~Integrates(s, evidence)
  BY <1>2, RaiseKeeps DEF Integrate
<1>3. CASE Integrates(s, evidence)
  <2>1. /\ stage' = "done" /\ catalog' = [catalog EXCEPT !.manifest = <<Manifest(s, evidence)>>]
        /\ UNCHANGED <<plan, round, todo, draft, evidence, runs>>
    BY <1>3 DEF Integrate
  <2>2. /\ PlanIsSound(plan) /\ Filed(plan, evidence, catalog.evidence)
        /\ DOMAIN plan \subseteq Package
    BY <1>1 DEF PodIInv
  <2>3. PICK k \in Nat : Placed(plan, todo, evidence, k)
    BY <1>1 DEF PodIInv
  <2>4. OrderedSoFar(plan, s) /\ ToSet(s) = DOMAIN plan
    BY <2>2, SoundPlanIsOrdered
  <2>5. DOMAIN evidence = DOMAIN plan
    <3>1. Len(s) \in Nat /\ DOMAIN s = 1..Len(s)
      BY <2>4 DEF OrderedSoFar
    <3>2. /\ k \in 0..Len(s) /\ Len(todo) = Len(s) - k
          /\ DOMAIN evidence = {s[i] : i \in 1..k}
      BY <2>3 DEF Placed
    <3>3. k = Len(s)
      <4>1. Len(todo) = 0
        BY <1>1
      <4>2. \A m, n \in Nat : 0 = m - n => n = m
        OBVIOUS
      <4> HIDE DEF s
      <4>3. QED
        BY <3>1, <3>2, <4>1, <4>2, Zenon
    <3> HIDE DEF s
    <3>4. QED
      BY <2>4, <3>1, <3>2, <3>3 DEF ToSet
  <2>6. Owned(plan, evidence)
    <3>1. ASSUME NEW i \in DOMAIN s, NEW j \in DOMAIN s, i < j
          PROVE  evidence[s[i]].paths \cap evidence[s[j]].paths = {}
      <4> DEFINE e == evidence[s[i]]
                 f == evidence[s[j]]
      <4>1. {e.paths \cap f.paths, e.artifacts \cap f.artifacts, e.ids \cap f.ids} = {{}}
        <5> HIDE DEF s
        <5>1. QED
          BY <1>3, <3>1, Zenon DEF Integrates
      <4>2. \A a, b, c : {a, b, c} = {{}} => a = {}
        OBVIOUS
      <4> HIDE DEF e, f
      <4>3. e.paths \cap f.paths = {}
        BY <4>1, <4>2
      <4>4. QED
        BY <4>3 DEF e, f
    <3>2. QED
      BY <3>1 DEF Owned
  <2>7. /\ DOMAIN catalog' = {"evidence", "manifest"} /\ catalog'.evidence = catalog.evidence
        /\ catalog'.manifest = <<Manifest(s, evidence)>>
    BY <2>1 DEF PodIInv
  <2>8. catalog'.manifest = <<Manifest(ExecutionOrder(plan'), evidence')>>
    BY <2>1, <2>7 DEF Manifest
  <2> HIDE DEF s
  <2>9. QED
    BY <1>1, <2>1, <2>2, <2>5, <2>6, <2>7, <2>8 DEF PodIInv
<1>4. QED
  BY <1>2, <1>3

LEMMA PodNextKeeps == PodIInv /\ [PodNext]_pod => PodIInv'
<1> SUFFICES ASSUME PodIInv, [PodNext]_pod PROVE PodIInv'
  OBVIOUS
<1>1. CASE UNCHANGED pod
  BY <1>1 DEF pod, PodIInv
<1>2. CASE (\E d \in Draft : DraftPlan(d)) \/ RevisePlan
  BY <1>2, PlanningKeeps
<1>3. CASE AcceptPlan
  BY <1>3, AcceptPlanKeeps
<1>4. CASE Exhausted \/ WorkerFails
  BY <1>4, RaiseKeeps DEF Exhausted, WorkerFails
<1>5. CASE Implement
  BY <1>5, ImplementKeeps
<1>6. CASE AcceptEvidence
  BY <1>6, AcceptEvidenceKeeps
<1>7. CASE ReviseEvidence
  BY <1>7, ReviseEvidenceKeeps
<1>8. CASE Integrate
  BY <1>8, IntegrateKeeps
<1>9. QED
  BY <1>1, <1>2, <1>3, <1>4, <1>5, <1>6, <1>7, <1>8 DEF PodNext

LEMMA PodInductive == PodSpec => []PodIInv
BY PodInitIInv, PodNextKeeps, PTL DEF PodSpec

\* A plan that passed the validator's search for cycles can be executed to its
\* end: _execution_order never finds nothing ready, and has every package behind
\* all that it depends on, directly or not. For any packages and dependencies.
THEOREM SoundPlansExecute == PodSpec => []AcceptedPlansExecute
<1>1. PodIInv => AcceptedPlansExecute
  <2> SUFFICES ASSUME PodIInv PROVE AcceptedPlansExecute
    OBVIOUS
  <2> DEFINE s == ExecutionOrder(plan)
  <2>1. stage # "deadlock"
    BY DEF PodIInv
  <2>2. ASSUME stage = "package", NEW p \in ToSet(todo), NEW u \in ToSet(todo),
               u \in Upstream(plan, p)
        PROVE  \E i \in DOMAIN todo : u = todo[i] /\ \A k \in 1..i : todo[k] # p
    <3>1. OrderedSoFar(plan, s) /\ Closed(plan) /\ IsFiniteSet(DOMAIN plan)
      BY <2>2, SoundPlanIsOrdered DEF PodIInv
    <3>2. PICK k \in Nat : Placed(plan, todo, evidence, k)
      BY <2>2 DEF PodIInv
    <3>3. /\ todo \in Seq(DOMAIN plan) /\ k \in 0..Len(s) /\ Len(todo) = Len(s) - k
          /\ \A i \in 1..Len(todo) : todo[i] = s[k + i]
      BY <3>2 DEF Placed
    <3>4. Len(s) \in Nat /\ \A i, j \in 1..Len(s) : s[i] = s[j] => i = j
      BY <3>1 DEF OrderedSoFar
    <3>5. DOMAIN todo = 1..Len(todo)
      BY <3>3
    <3>6. PICK a \in 1..Len(todo), i \in 1..Len(todo) : p = todo[a] /\ u = todo[i]
      BY <2>2, <3>5 DEF ToSet
    <3> HIDE DEF s
    <3>7. \A j \in 1..Len(todo) : k + j \in 1..Len(s)
      BY <3>3, <3>4
    <3>8. u \in {s[j] : j \in 1..(k + a) - 1}
      <4>1. OrderedSoFar(plan, s) /\ k + a \in 1..Len(s) /\ p = s[k + a]
        BY <3>1, <3>3, <3>6, <3>7
      <4>2. QED
        BY <2>2, <3>1, <4>1, UpstreamIsBefore
    <3>9. PICK j \in 1..(k + a) - 1 : u = s[j]
      BY <3>8
    <3>10. j \in 1..Len(s) /\ k + i \in 1..Len(s) /\ u = s[k + i]
      BY <3>3, <3>4, <3>6, <3>7
    <3>11. j = k + i
      BY <3>4, <3>9, <3>10
    <3>12. i < a
      BY <3>3, <3>11
    <3>13. ASSUME NEW m \in 1..i, todo[m] = p PROVE FALSE
      <4>1. m \in 1..Len(todo) /\ m < a
        BY <3>3, <3>12
      <4>2. s[k + m] = s[k + a] /\ k + m \in 1..Len(s) /\ k + a \in 1..Len(s)
        BY <3>3, <3>6, <3>7, <3>13, <4>1
      <4>3. k + m = k + a
        BY <3>4, <4>2
      <4>4. QED
        BY <4>1, <4>3
    <3>14. QED
      BY <3>5, <3>6, <3>13
  <2>3. ASSUME stage = "package", NEW p \in ToSet(todo)
        PROVE  Upstream(plan, p) \cap ToSet(todo) \subseteq
                 {todo[i] : i \in {j \in DOMAIN todo : \A k \in 1..j : todo[k] # p}}
    BY <2>2, <2>3
  <2>4. QED
    BY <2>1, <2>3 DEF AcceptedPlansExecute
<1>2. QED
  BY <1>1, PodInductive, PTL

\* The manifest of a finished run rests on evidence of that run: every MUST
\* requirement on a package whose verifications passed, every file on the one
\* package that changed it within its scopes; the catalog has that evidence,
\* whatever earlier runs left there.
THEOREM FinishedRunIsBacked == PodSpec => []ManifestIsBacked
<1>1. PodIInv => ManifestIsBacked
  <2> SUFFICES ASSUME PodIInv, stage = "done" PROVE ManifestIsBacked
    BY DEF ManifestIsBacked
  <2> DEFINE s == ExecutionOrder(plan)
             m == catalog.manifest[1]
  <2>1. /\ PlanIsSound(plan) /\ Filed(plan, evidence, catalog.evidence)
        /\ DOMAIN evidence = DOMAIN plan /\ Owned(plan, evidence)
        /\ m = Manifest(s, evidence)
    BY DEF PodIInv
  <2>2. OrderedSoFar(plan, s) /\ ToSet(s) = DOMAIN plan
    BY <2>1, SoundPlanIsOrdered DEF PodIInv
  <2>3. Len(s) \in Nat /\ DOMAIN s = 1..Len(s)
    BY <2>2 DEF OrderedSoFar
  <2>4. m.order = s /\ m.paths = UNION {evidence[p].paths : p \in DOMAIN plan}
    BY <2>1, <2>2 DEF Manifest
  <2>5. \A p \in DOMAIN plan : /\ evidence[p].verified /\ catalog.evidence[p] = evidence[p]
                               /\ \A f \in evidence[p].paths :
                                    \E scope \in plan[p].scopes : <<f, scope>> \in Inside
    BY <2>1 DEF Filed, EvidenceFits
  <2>6. ASSUME NEW r \in Must
        PROVE  \E p \in DOMAIN evidence : r \in plan[p].requirements /\ evidence[p].verified
    BY <2>1, <2>5 DEF PlanIsSound
  <2>7. ASSUME NEW p \in DOMAIN plan, NEW q \in DOMAIN plan, p # q
        PROVE  evidence[p].paths \cap evidence[q].paths = {}
    <3>1. PICK i \in 1..Len(s), j \in 1..Len(s) : p = s[i] /\ q = s[j]
      BY <2>2, <2>3 DEF ToSet
    <3>2. i < j \/ j < i
      BY <2>3, <2>7, <3>1
    <3>3. QED
      BY <2>1, <2>3, <3>1, <3>2 DEF Owned
  <2> HIDE DEF s, m
  <2>8. ASSUME NEW f \in m.paths
        PROVE  \E p \in ToSet(m.order) :
                 /\ f \in catalog.evidence[p].paths
                 /\ \E scope \in plan[p].scopes : <<f, scope>> \in Inside
                 /\ \A q \in ToSet(m.order) \ {p} : f \notin catalog.evidence[q].paths
    <3>1. PICK p \in DOMAIN plan : f \in evidence[p].paths
      BY <2>4
    <3>2. \A q \in DOMAIN plan \ {p} : f \notin evidence[q].paths
      BY <2>7, <3>1
    <3>3. ToSet(m.order) = DOMAIN plan
      BY <2>2, <2>4
    <3>4. QED
      BY <2>5, <3>1, <3>2, <3>3
  <2>9. QED
    BY <2>6, <2>8 DEF ManifestIsBacked, m
<1>2. QED
  BY <1>1, PodInductive, PTL

\* Whatever is drafted, revised or abandoned, the rounds stay within their limits
\* and evidence is only accepted for packages that are behind.
THEOREM PodIsTyped == PodSpec => []PodTypeOK
<1>1. PodIInv => PodTypeOK
  <2> SUFFICES ASSUME PodIInv PROVE PodTypeOK
    OBVIOUS
  <2> DEFINE s == ExecutionOrder(plan)
  <2>1. ASSUME stage = "package"
        PROVE  ToSet(todo) \subseteq DOMAIN plan /\ DOMAIN evidence \cap ToSet(todo) = {}
    <3>1. PICK k \in Nat : Placed(plan, todo, evidence, k)
      BY <2>1 DEF PodIInv
    <3>2. /\ todo \in Seq(DOMAIN plan) /\ k \in 0..Len(s) /\ Len(todo) = Len(s) - k
          /\ \A i \in 1..Len(todo) : todo[i] = s[k + i]
          /\ DOMAIN evidence = {s[i] : i \in 1..k}
      BY <3>1 DEF Placed
    <3>3. OrderedSoFar(plan, s)
      BY <2>1, SoundPlanIsOrdered DEF PodIInv
    <3>4. Len(s) \in Nat /\ \A i, j \in 1..Len(s) : s[i] = s[j] => i = j
      BY <3>3 DEF OrderedSoFar
    <3>5. DOMAIN todo = 1..Len(todo) /\ Len(todo) \in Nat
      BY <3>2
    <3> HIDE DEF s
    <3>6. ASSUME NEW i \in 1..k, NEW j \in 1..Len(todo) PROVE s[i] # todo[j]
      <4>1. i \in 1..Len(s) /\ k + j \in 1..Len(s) /\ i # k + j
        BY <3>2, <3>4
      <4>2. QED
        BY <3>2, <3>4, <4>1
    <3>7. ToSet(todo) = {todo[j] : j \in 1..Len(todo)}
      BY <3>5 DEF ToSet
    <3>8. QED
      BY <3>2, <3>6, <3>7
  <2>2. ASSUME stage # "package" PROVE ToSet(todo) = {}
    BY <2>2 DEF PodIInv, ToSet
  <2>3. QED
    BY <2>1, <2>2 DEF PodIInv, PodTypeOK
<1>2. QED
  BY <1>1, PodInductive, PTL
=============================================================================
