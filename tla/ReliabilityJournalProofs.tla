---------------------- MODULE ReliabilityJournalProofs ----------------------
(***************************************************************************)
(* Theorems about the reliability journal, for any number of controllers   *)
(* and crashes, any retry budget and any failure threshold.                *)
(***************************************************************************)
EXTENDS ReliabilityJournal, SequenceTheorems, FiniteSetTheorems, TLAPS

-----------------------------------------------------------------------------
(* What the decision engine returns.                                       *)

\* A retry follows the attempt it was decided for.
LEMMA RetryOrStopDecides ==
  ASSUME NEW n \in Nat \ {0}
  PROVE  RetryOrStop(n) \in Decision /\ RetryFollows(RetryOrStop(n), n)
BY BudgetAssumption DEF RetryOrStop, Decide, Decision, RetryFollows

\* A reconciliation that has an answer completes, stops, or retries.
LEMMA ReconciliationDecides ==
  ASSUME NEW e \in EffectClass, NEW n \in Nat \ {0}, NEW r \in Result
  PROVE  LET d == AfterUnknown(e, [attempt |-> n, result |-> r])
         IN  d \in Decision /\ RetryFollows(d, n)
BY RetryOrStopDecides
   DEF AfterUnknown, AfterReconciliation, Decide, Decision, RetryFollows, EffectClass,
       Result, NoResult

\* After an ambiguous external write nothing is retried without an answer.
LEMMA AttemptDecides ==
  ASSUME NEW e \in EffectClass, NEW a \in Attempt
  PROVE  /\ DecisionAfter(e, a) \in Decision
         /\ RetryFollows(DecisionAfter(e, a), a.attempt)
         /\ e = "EXTERNAL_WRITE" /\ DecisionAfter(e, a).action = "RETRY" => Answered(a)
<1> DEFINE d == DecisionAfter(e, a)
<1>1. a.attempt \in Nat \ {0} /\ a.outcome \in Outcome /\ a.result \in Result \cup {NoResult}
  BY DEF Attempt
<1>2. RetryOrStop(a.attempt) \in Decision /\ RetryFollows(RetryOrStop(a.attempt), a.attempt)
  BY <1>1, RetryOrStopDecides
<1>3. CASE a.outcome = "SUCCESS"
  BY <1>3 DEF DecisionAfter, Decide, Decision, RetryFollows
<1>4. CASE a.outcome = "TERMINAL_FAILURE"
  BY <1>4 DEF DecisionAfter, Decide, Decision, RetryFollows
<1>5. CASE a.outcome = "RETRYABLE_FAILURE"
  BY <1>2, <1>5 DEF DecisionAfter, Answered
<1>6. CASE a.outcome = "UNKNOWN"
  <2>1. d = AfterUnknown(e, a)
    BY <1>6 DEF DecisionAfter
  <2>2. CASE e = "EXTERNAL_WRITE"
    <3>1. d = AfterReconciliation(a.attempt, a.result)
      BY <2>1, <2>2 DEF AfterUnknown
    <3>2. CASE a.result = NoResult
      BY <3>1, <3>2 DEF AfterReconciliation, Decide, Decision, RetryFollows, NoResult
    <3>3. CASE a.result # NoResult
      BY <1>1, <1>2, <3>1, <3>3
         DEF AfterReconciliation, Decide, Decision, RetryFollows, Result, NoResult, Answered
    <3>4. QED
      BY <3>2, <3>3
  <2>3. CASE e # "EXTERNAL_WRITE"
    BY <1>2, <2>1, <2>3 DEF AfterUnknown, EffectClass, Decide, Decision, RetryFollows
  <2>4. QED
    BY <2>2, <2>3
<1>7. QED
  BY <1>1, <1>3, <1>4, <1>5, <1>6 DEF Outcome

\* The breaker only ever turns a retry into a stop.
LEMMA BreakerOnlyStops ==
  ASSUME NEW d \in Decision, NEW k
  PROVE  /\ BreakerLimited(d, k) \in Decision
         /\ BreakerLimited(d, k).action = "RETRY" => BreakerLimited(d, k) = d
BY DEF BreakerLimited, Decide, Decision

LEMMA NextCircuitIsCircuit ==
  ASSUME NEW k \in Circuit, NEW outcome \in Outcome
  PROVE  NextCircuit(k, outcome) \in Circuit
BY BudgetAssumption DEF NextCircuit, ClosedCircuit, Circuit

LEMMA StatusAfterDecision ==
  ASSUME NEW d \in Decision
  PROVE  StatusFor(d) \in {"RETRY_READY", "RECONCILE_REQUIRED"} \cup Terminal
BY DEF StatusFor, Decision, Terminal

-----------------------------------------------------------------------------
(* One step of one controller.                                             *)

\* A step that only changes what controller c is in the middle of, and perhaps
\* a counter, keeps the invariant when the new business fits the journal.
LEMMA JobStep ==
  ASSUME IInv, NEW c \in Controller, NEW j \in JobOf, JobFits(j),
         job' = [job EXCEPT ![c] = j], UNCHANGED <<deployment, journal>>,
         metrics' \in [Metric -> Nat], crashes' \in Nat
  PROVE  IInv'
<1> USE DEF deployment, journal
<1>1. TypeOK'
  BY DEF IInv, TypeOK
<1>2. AttemptsAreSequential' /\ DecidedOnceStarted' /\ DecisionFits' /\ ObedientNoBlindRetry'
  BY DEF IInv, AttemptsAreSequential, DecidedOnceStarted, DecisionFits, Backed,
         ObedientNoBlindRetry, NoBlindRetry
<1>3. ASSUME NEW d \in Controller PROVE JobFits(job[d])'
  <2>1. job'[d] = IF d = c THEN j ELSE job[d]
    BY DEF IInv, TypeOK
  <2>2. JobFits(job'[d])
    BY <2>1 DEF IInv
  <2>3. QED
    BY <2>2 DEF JobFits, Backed
<1>4. QED
  BY <1>1, <1>2, <1>3 DEF IInv

\* An idle controller and one that only reads or counts fit anything.
LEMMA IdleFits == Idle \in JobOf /\ JobFits(Idle)
BY DEF Idle, JobOf, JobFits, HoldsAttempt

LEMMA UndertakePreserves ==
  ASSUME IInv, NEW c \in Controller, NEW n \in 1..MaxAttempts + 1, Undertake(c, n)
  PROVE  IInv'
<1> DEFINE j == [kind |-> "acting", attempt |-> n]
<1>1. j \in JobOf
  BY DEF JobOf
<1>2. ASSUME obedient PROVE n <= latest + 1 /\ (effect = "EXTERNAL_WRITE" => Backed(n))
  <2>1. n \in ResumedAttempts
    BY <1>2 DEF Undertake
  <2>2. CASE status = "READY"
    BY <2>1, <2>2, BudgetAssumption DEF ResumedAttempts, Backed, IInv, TypeOK
  <2>3. CASE status # "READY"
    <3>1. Len(decision) = 1 /\ decision[1].action = "RETRY" /\ n = decision[1].next
      BY <2>1, <2>3 DEF ResumedAttempts, IInv, DecidedOnceStarted
    <3>2. QED
      BY <3>1 DEF IInv, DecisionFits
  <2>4. QED
    BY <2>2, <2>3
<1>3. JobFits(j)
  BY <1>2 DEF JobFits, HoldsAttempt, NumberOf
<1>4. QED
  BY <1>1, <1>3, JobStep DEF Undertake, IInv, TypeOK

LEMMA BeginAttemptPreserves ==
  ASSUME IInv, NEW c \in Controller, NEW outcome \in Outcome,
         NEW result \in Result \cup {NoResult}, BeginAttempt(c, outcome, result)
  PROVE  IInv'
<1> DEFINE a == [attempt |-> job[c].attempt, outcome |-> outcome, result |-> result]
           next == NextCircuit(circuit, outcome)
           d == BreakerLimited(DecisionAfter(effect, a), next)
           j == [kind |-> "attempt", attempt |-> a, circuit |-> next, decision |-> d]
<1>1. job[c] \in JobOf /\ job[c].kind = "acting"
  BY DEF BeginAttempt, IInv, TypeOK
<1>2. job[c].attempt \in 1..MaxAttempts + 1
  BY <1>1 DEF JobOf, Idle
<1>3. a \in Attempt
  BY <1>2, BudgetAssumption DEF Attempt, BeginAttempt
<1>4. effect \in EffectClass /\ circuit \in Circuit
  BY DEF IInv, TypeOK
<1>5. next \in Circuit
  BY <1>4, NextCircuitIsCircuit
<1>6. /\ DecisionAfter(effect, a) \in Decision
      /\ RetryFollows(DecisionAfter(effect, a), a.attempt)
      /\ effect = "EXTERNAL_WRITE" /\ DecisionAfter(effect, a).action = "RETRY" => Answered(a)
  BY <1>3, <1>4, AttemptDecides
<1>7. d \in Decision /\ (d.action = "RETRY" => d = DecisionAfter(effect, a))
  BY <1>6, BreakerOnlyStops
<1>8. j \in JobOf
  BY <1>3, <1>5, <1>7 DEF JobOf
<1>9. JobFits(job[c])
  BY DEF IInv
<1>10. JobFits(j)
  <2>1. a.attempt <= MaxAttempts /\ circuit.state # "OPEN"
    BY DEF BeginAttempt
  <2>2. RetryFollows(d, a.attempt)
    BY <1>6, <1>7 DEF RetryFollows
  <2>3. effect = "EXTERNAL_WRITE" /\ d.action = "RETRY" => Answered(a)
    BY <1>6, <1>7
  <2>4. obedient => /\ a.attempt <= latest + 1
                    /\ effect = "EXTERNAL_WRITE" => Backed(a.attempt)
    BY <1>1, <1>9 DEF JobFits, HoldsAttempt, NumberOf
  <2>5. QED
    BY <2>1, <2>2, <2>3, <2>4 DEF JobFits, HoldsAttempt, NumberOf
<1>11. job' = [job EXCEPT ![c] = j] /\ UNCHANGED <<deployment, journal, metrics, crashes>>
  BY DEF BeginAttempt
<1>12. QED
  BY <1>8, <1>10, <1>11, JobStep DEF IInv, TypeOK

LEMMA BeginReconcilePreserves ==
  ASSUME IInv, NEW c \in Controller, BeginReconcile(c)
  PROVE  IInv'
<1> DEFINE j == [kind |-> "reading"]
<1>1. j \in JobOf
  BY DEF JobOf
<1>2. JobFits(j)
  BY DEF BeginReconcile, JobFits, HoldsAttempt, IInv, DecidedOnceStarted
<1>3. QED
  BY <1>1, <1>2, JobStep DEF BeginReconcile, IInv, TypeOK

LEMMA ReconsiderPreserves ==
  ASSUME IInv, NEW c \in Controller, NEW result \in Result, Reconsider(c, result)
  PROVE  IInv'
<1> DEFINE d == AfterUnknown(effect, [attempt |-> latest, result |-> result])
           j == [kind |-> "reconcile", attempt |-> latest, decision |-> d]
<1>1. latest \in Nat \ {0} /\ effect \in EffectClass
  BY DEF Reconsider, IInv, TypeOK, JobFits
<1>2. d \in Decision /\ RetryFollows(d, latest)
  BY <1>1, ReconciliationDecides
<1>3. j \in JobOf
  BY <1>1, <1>2 DEF JobOf
<1>4. JobFits(j)
  BY <1>1, <1>2 DEF JobFits, HoldsAttempt
<1>5. QED
  BY <1>3, <1>4, JobStep DEF Reconsider, IInv, TypeOK

LEMMA BeginProbePreserves ==
  ASSUME IInv, NEW c \in Controller, BeginProbe(c)
  PROVE  IInv'
<1> DEFINE j == [kind |-> "probe", circuit |-> [circuit EXCEPT !.state = "HALF_OPEN"]]
<1>1. [circuit EXCEPT !.state = "HALF_OPEN"] \in Circuit
  BY DEF IInv, TypeOK, Circuit
<1>2. j \in JobOf
  BY <1>1 DEF JobOf
<1>3. JobFits(j)
  <2>1. circuit \in Circuit
    BY DEF IInv, TypeOK
  <2>2. QED
    BY <2>1 DEF JobFits, HoldsAttempt, Circuit
<1>4. QED
  BY <1>2, <1>3, JobStep DEF BeginProbe, IInv, TypeOK

\* A sequence of two or more names has a rest.
LEMMA TailOfLonger ==
  ASSUME NEW S, NEW s \in Seq(S), Len(s) >= 1, Len(s) # 1
  PROVE  Tail(s) \in Seq(S) /\ Len(Tail(s)) >= 1
<1>1. s # <<>> /\ Len(s) \in Nat
  BY EmptySeq
<1>2. Tail(s) \in Seq(S) /\ Len(Tail(s)) = Len(s) - 1
  BY <1>1, HeadTailProperties
<1>3. QED
  BY <1>1, <1>2

LEMMA CountPreserves ==
  ASSUME IInv, NEW c \in Controller, Count(c)
  PROVE  IInv'
<1> DEFINE j == IF Len(job[c].left) = 1 THEN Idle ELSE [job[c] EXCEPT !.left = Tail(@)]
<1>1. job[c] \in JobOf /\ job[c].kind = "counting"
  BY DEF Count, IInv, TypeOK
<1>2. job[c] \in [kind : {"counting"}, left : {names \in Seq(Metric) : Len(names) >= 1}]
  BY <1>1 DEF JobOf, Idle
<1>3. metrics' \in [Metric -> Nat]
  <2>1. Head(job[c].left) \in Metric
    BY <1>2
  <2>2. QED
    BY <2>1 DEF Count, IInv, TypeOK
<1>4. j \in JobOf /\ JobFits(j)
  <2>1. CASE Len(job[c].left) = 1
    BY <2>1, IdleFits
  <2>2. CASE Len(job[c].left) # 1
    <3>1. Tail(job[c].left) \in {names \in Seq(Metric) : Len(names) >= 1}
      <4>1. job[c].left \in Seq(Metric) /\ Len(job[c].left) >= 1
        BY <1>2
      <4>2. QED
        BY <2>2, <4>1, TailOfLonger
    <3>2. j = [kind |-> "counting", left |-> Tail(job[c].left)]
      BY <1>2, <2>2
    <3>3. QED
      BY <3>1, <3>2 DEF JobOf, JobFits, HoldsAttempt
  <2>3. QED
    BY <2>1, <2>2
<1>5. QED
  BY <1>3, <1>4, JobStep DEF Count, IInv, TypeOK

\* A controller that raises, is refused or dies forgets what it was doing.
LEMMA GivingUpPreserves ==
  ASSUME IInv, NEW c \in Controller,
         AttemptRaises(c) \/ AttemptRejected(c) \/ NothingAmbiguous(c)
           \/ ReconcileRejected(c) \/ Crash(c)
  PROVE  IInv'
<1>1. /\ job' = [job EXCEPT ![c] = Idle] /\ UNCHANGED <<deployment, journal, metrics>>
      /\ crashes' \in Nat
  BY DEF AttemptRaises, AttemptRejected, NothingAmbiguous, ReconcileRejected, Crash, IInv, TypeOK
<1>2. QED
  BY <1>1, IdleFits, JobStep DEF IInv, TypeOK

-----------------------------------------------------------------------------
(* The commits.                                                            *)

LEMMA CommitProbePreserves ==
  ASSUME IInv, NEW c \in Controller, CommitProbe(c)
  PROVE  IInv'
<1> USE DEF deployment
<1>1. job[c] \in JobOf /\ job[c].kind = "probe" /\ JobFits(job[c])
  BY DEF CommitProbe, IInv, TypeOK
<1>2. circuit' \in Circuit /\ circuit'.state = "HALF_OPEN"
  BY <1>1 DEF CommitProbe, JobOf, Idle, JobFits
<1>3. TypeOK'
  BY <1>2, IdleFits DEF CommitProbe, IInv, TypeOK
<1>4. AttemptsAreSequential' /\ DecidedOnceStarted' /\ DecisionFits' /\ ObedientNoBlindRetry'
  BY DEF CommitProbe, IInv, AttemptsAreSequential, DecidedOnceStarted, DecisionFits, Backed,
         ObedientNoBlindRetry, NoBlindRetry
<1>5. ASSUME NEW d \in Controller PROVE JobFits(job[d])'
  <2>1. job'[d] = IF d = c THEN Idle ELSE job[d]
    BY DEF CommitProbe, IInv, TypeOK
  <2>2. JobFits(job'[d])
    BY <2>1, IdleFits DEF IInv
  <2>3. QED
    BY <1>2, <2>2 DEF CommitProbe, JobFits, Backed
<1>6. QED
  BY <1>3, <1>4, <1>5 DEF IInv

LEMMA CommitReconcilePreserves ==
  ASSUME IInv, NEW c \in Controller, CommitReconcile(c)
  PROVE  IInv'
<1> USE DEF deployment
<1> DEFINE j == job[c]
           done == [kind |-> "counting", left |-> <<"reconciliation_total">>]
<1>1. j \in JobOf /\ j.kind = "reconcile" /\ JobFits(j)
  BY DEF CommitReconcile, IInv, TypeOK
<1>2. j.attempt \in 1..latest /\ j.decision \in Decision /\ RetryFollows(j.decision, j.attempt)
  BY <1>1 DEF JobOf, Idle, JobFits, IInv, TypeOK
<1>3. done \in JobOf /\ JobFits(done)
  BY DEF JobOf, JobFits, HoldsAttempt, Metric
<1>4. /\ decision' = <<j.decision>> /\ status' = StatusFor(j.decision)
      /\ settled' = settled \cup {j.attempt} /\ job' = [job EXCEPT ![c] = done]
      /\ UNCHANGED <<deployment, latest, attempts, circuit, metrics, crashes>>
  BY DEF CommitReconcile
<1>5. status' \in {"RETRY_READY", "RECONCILE_REQUIRED"} \cup Terminal
  BY <1>2, <1>4, StatusAfterDecision
<1>6. TypeOK'
  <2>1. decision' \in Seq(Decision)
    BY <1>2, <1>4
  <2>2. settled' \subseteq 1..latest'
    BY <1>2, <1>4 DEF IInv, TypeOK
  <2>3. QED
    BY <1>3, <1>4, <1>5, <2>1, <2>2 DEF IInv, TypeOK
<1>7. AttemptsAreSequential' /\ ObedientNoBlindRetry'
  BY <1>4 DEF IInv, AttemptsAreSequential, ObedientNoBlindRetry, NoBlindRetry
<1>8. DecidedOnceStarted'
  <2>1. latest' >= 1 /\ Len(decision') = 1
    BY <1>2, <1>4 DEF IInv, TypeOK
  <2>2. QED
    BY <1>5, <2>1 DEF DecidedOnceStarted, Terminal
<1>9. DecisionFits'
  <2>1. j.attempt \in Nat /\ latest \in Nat /\ j.attempt <= latest
    BY <1>2 DEF IInv, TypeOK
  <2>2. j.attempt \in settled' /\ latest' = latest /\ decision' = <<j.decision>>
    BY <1>4
  <2>3. ASSUME NEW i \in 1..Len(decision'), decision'[i].action = "RETRY"
        PROVE  decision'[i].next = j.attempt + 1
    BY <1>2, <2>2, <2>3 DEF RetryFollows
  <2>4. QED
    BY <2>1, <2>2, <2>3 DEF DecisionFits, Backed
<1>10. ASSUME NEW d \in Controller PROVE JobFits(job[d])'
  <2>1. job'[d] = IF d = c THEN done ELSE job[d]
    BY <1>4 DEF IInv, TypeOK
  <2>2. JobFits(job'[d])
    BY <1>3, <2>1 DEF IInv
  <2>3. QED
    BY <1>4, <2>2 DEF JobFits, Backed
<1>11. QED
  BY <1>6, <1>7, <1>8, <1>9, <1>10 DEF IInv

\* The journal grows by an attempt that was backed; the others' business, which
\* may have been begun before it, still fits.
LEMMA CommitAttemptPreserves ==
  ASSUME IInv, NEW c \in Controller, CommitAttempt(c)
  PROVE  IInv'
<1> USE DEF deployment
<1> DEFINE j == job[c]
           entry == [outcome |-> j.attempt.outcome, result |-> j.attempt.result]
           counting == [kind |-> "counting", left |-> Counters(j.attempt.outcome)]
<1>1. j \in JobOf /\ j.kind = "attempt" /\ JobFits(j)
  BY DEF CommitAttempt, IInv, TypeOK
<1>2. j.attempt \in Attempt /\ j.circuit \in Circuit /\ j.decision \in Decision
  BY <1>1 DEF JobOf, Idle
<1>3. /\ j.attempt.attempt = latest + 1 /\ j.attempt.attempt <= MaxAttempts
      /\ RetryFollows(j.decision, latest + 1)
  BY <1>1 DEF CommitAttempt, AttemptFits, JobFits
<1>4. entry \in Entry
  BY <1>2 DEF Attempt, Entry
<1>5. /\ attempts' = Append(attempts, entry) /\ decision' = <<j.decision>>
      /\ circuit' = j.circuit /\ status' = StatusFor(j.decision) /\ latest' = latest + 1
      /\ settled' = IF Answered(j.attempt) THEN settled \cup {latest'} ELSE settled
      /\ job' = [job EXCEPT ![c] = counting]
      /\ UNCHANGED <<deployment, metrics, crashes>>
  BY <1>3 DEF CommitAttempt
<1>6. latest \in Nat /\ attempts \in Seq(Entry) /\ Len(attempts) = latest
  BY DEF IInv, TypeOK, AttemptsAreSequential
<1>7. /\ attempts' \in Seq(Entry) /\ Len(attempts') = latest + 1
      /\ \A i \in 1..latest : attempts'[i] = attempts[i]
      /\ attempts'[latest + 1] = entry
  BY <1>4, <1>5, <1>6, AppendProperties
<1>8. status' \in {"RETRY_READY", "RECONCILE_REQUIRED"} \cup Terminal
  BY <1>2, <1>5, StatusAfterDecision
<1>9. counting \in JobOf
  <2>1. Counters(j.attempt.outcome) \in Seq(Metric) /\ Len(Counters(j.attempt.outcome)) >= 1
    <3>1. /\ <<"attempt_total">> \in Seq(Metric) /\ Len(<<"attempt_total">>) = 1
          /\ <<"attempt_total", "attempt_failure_total">> \in Seq(Metric)
          /\ Len(<<"attempt_total", "attempt_failure_total">>) = 2
      BY DEF Metric
    <3>2. QED
      BY <3>1 DEF Counters
  <2>2. QED
    BY <2>1 DEF JobOf
<1>10. settled \subseteq settled' /\ settled' \subseteq 1..latest'
  BY <1>5, <1>6 DEF IInv, TypeOK
<1>11. TypeOK'
  <2>1. decision' \in Seq(Decision)
    BY <1>2, <1>5
  <2>2. QED
    BY <1>2, <1>5, <1>6, <1>7, <1>8, <1>9, <1>10, <2>1 DEF IInv, TypeOK
<1>12. AttemptsAreSequential'
  BY <1>3, <1>5, <1>6, <1>7 DEF AttemptsAreSequential
<1>13. DecidedOnceStarted'
  <2>1. latest' >= 1 /\ Len(decision') = 1
    BY <1>2, <1>5, <1>6
  <2>2. QED
    BY <1>8, <2>1 DEF DecidedOnceStarted, Terminal
<1>14. \A n \in Nat : Backed(n) => Backed(n)'
  BY <1>5, <1>6, <1>7, <1>10 DEF Backed
<1>15. DecisionFits'
  <2>1. ASSUME j.decision.action = "RETRY", effect = "EXTERNAL_WRITE"
        PROVE  \A n \in Nat : n = latest + 2 => Backed(n)'
    <3>1. Answered(j.attempt) /\ latest + 1 \in settled'
      BY <1>1, <1>5, <2>1 DEF JobFits
    <3>2. QED
      BY <3>1, <1>5, <1>6 DEF Backed
  <2>2. j.decision.action = "RETRY" => j.decision.next = latest + 2
    BY <1>3, <1>6 DEF RetryFollows
  <2>3. Len(decision') = 1 /\ decision'[1] = j.decision
    BY <1>5
  <2>4. QED
    BY <1>5, <1>6, <2>1, <2>2, <2>3 DEF DecisionFits
<1>16. ObedientNoBlindRetry'
  <2>1. ASSUME obedient, effect = "EXTERNAL_WRITE", NEW i \in 1..latest,
               attempts'[i].outcome = "UNKNOWN"
        PROVE  i \in settled'
    <3>1. attempts[i].outcome = "UNKNOWN"
      BY <1>7, <2>1
    <3>2. CASE i < latest
      BY <1>6, <1>10, <2>1, <3>1, <3>2 DEF IInv, ObedientNoBlindRetry, NoBlindRetry
    <3>3. CASE i = latest
      <4>1. Backed(latest + 1)
        BY <1>1, <1>3, <2>1 DEF JobFits, HoldsAttempt, NumberOf
      <4>2. QED
        BY <1>6, <1>10, <3>1, <3>3, <4>1 DEF Backed
    <3>4. QED
      BY <1>6, <3>2, <3>3
  <2>2. QED
    BY <1>5, <1>6, <2>1 DEF ObedientNoBlindRetry, NoBlindRetry
<1>17. ASSUME NEW d \in Controller PROVE JobFits(job[d])'
  <2>1. job'[d] = IF d = c THEN counting ELSE job[d]
    BY <1>5 DEF IInv, TypeOK
  <2>2. CASE d = c
    BY <1>9, <2>1, <2>2 DEF JobFits, HoldsAttempt
  <2>3. CASE d # c
    <3>1. job'[d] = job[d] /\ job[d] \in JobOf /\ JobFits(job[d])
      BY <2>1, <2>3 DEF IInv, TypeOK
    <3>2. HoldsAttempt(job[d]) => NumberOf(job[d]) \in Nat
      BY <3>1 DEF HoldsAttempt, NumberOf, JobOf, Idle, Attempt
    <3>3. job[d].kind = "reconcile" => job[d].attempt \in Nat
      BY <3>1 DEF JobOf, Idle
    <3>4. obedient /\ HoldsAttempt(job[d]) =>
            /\ NumberOf(job[d]) <= latest' + 1 /\ NumberOf(job[d]) # latest' + 1
            /\ effect = "EXTERNAL_WRITE" => Backed(NumberOf(job[d]))'
      BY <1>5, <1>6, <1>14, <3>1, <3>2 DEF JobFits
    <3>5. QED
      BY <1>5, <1>6, <3>1, <3>3, <3>4 DEF JobFits, HoldsAttempt, NumberOf
  <2>4. QED
    BY <2>2, <2>3
<1>18. QED
  BY <1>11, <1>12, <1>13, <1>15, <1>16, <1>17 DEF IInv

-----------------------------------------------------------------------------
LEMMA InitInductive == Init => IInv
<1> SUFFICES ASSUME Init PROVE IInv
  OBVIOUS
<1>1. ClosedCircuit \in Circuit
  BY BudgetAssumption DEF ClosedCircuit, Circuit
<1>2. TypeOK
  <2>1. /\ <<>> \in Seq(Decision) /\ <<>> \in Seq(Entry)
        /\ job \in [Controller -> JobOf] /\ metrics \in [Metric -> Nat]
    BY IdleFits DEF Init
  <2>2. QED
    BY <1>1, <2>1, ObedienceAssumption DEF Init, TypeOK
<1>3. QED
  BY <1>2, BudgetAssumption
     DEF Init, IInv, AttemptsAreSequential, DecidedOnceStarted, DecisionFits, Idle,
         ObedientNoBlindRetry, NoBlindRetry, JobFits, HoldsAttempt

\* Every step of the system keeps the invariant.
LEMMA NextInductive == IInv /\ [Next]_vars => IInv'
<1> SUFFICES ASSUME IInv, [Next]_vars PROVE IInv'
  OBVIOUS
<1>1. CASE UNCHANGED vars
  BY <1>1 DEF vars, deployment, journal, IInv, TypeOK, AttemptsAreSequential,
              DecidedOnceStarted, DecisionFits, ObedientNoBlindRetry, NoBlindRetry,
              JobFits, Backed
<1>2. ASSUME NEW c \in Controller, Drive(c) \/ BeginProbe(c) \/ Crash(c) PROVE IInv'
  <2>1. ASSUME NEW n \in 1..MaxAttempts + 1, Undertake(c, n) PROVE IInv'
    BY <2>1, UndertakePreserves
  <2>2. ASSUME NEW outcome \in Outcome, NEW result \in Result \cup {NoResult},
               BeginAttempt(c, outcome, result)
        PROVE  IInv'
    BY <2>2, BeginAttemptPreserves
  <2>3. ASSUME NEW result \in Result, Reconsider(c, result) PROVE IInv'
    BY <2>3, ReconsiderPreserves
  <2>4. CASE CommitAttempt(c)
    BY <2>4, CommitAttemptPreserves
  <2>5. CASE Count(c)
    BY <2>5, CountPreserves
  <2>6. CASE BeginReconcile(c)
    BY <2>6, BeginReconcilePreserves
  <2>7. CASE CommitReconcile(c)
    BY <2>7, CommitReconcilePreserves
  <2>8. CASE BeginProbe(c)
    BY <2>8, BeginProbePreserves
  <2>9. CASE CommitProbe(c)
    BY <2>9, CommitProbePreserves
  <2>10. CASE AttemptRaises(c) \/ AttemptRejected(c) \/ NothingAmbiguous(c)
                \/ ReconcileRejected(c) \/ Crash(c)
    BY <2>10, GivingUpPreserves
  <2>11. QED
    BY <1>2, <2>1, <2>2, <2>3, <2>4, <2>5, <2>6, <2>7, <2>8, <2>9, <2>10 DEF Drive
<1>3. QED
  BY <1>1, <1>2 DEF Next

LEMMA Inductive == Spec => []IInv
BY InitInductive, NextInductive, PTL DEF Spec

-----------------------------------------------------------------------------
\* Every state of the journal and its controllers is well typed.
THEOREM TypeCorrect == Spec => []TypeOK
<1>1. IInv => TypeOK
  BY DEF IInv
<1>2. QED
  BY <1>1, Inductive, PTL

\* append_attempt_and_decision numbers attempts without a gap and within the
\* budget, however many controllers race with whatever numbers.
THEOREM NumberingIsSequential == Spec => []AttemptsAreSequential
<1>1. IInv => AttemptsAreSequential
  BY DEF IInv
<1>2. QED
  BY <1>1, Inductive, PTL

\* If the callers follow resume_action, no external write is repeated before its
\* unknown outcome was reconciled: not with any number of controllers, and not
\* although reconcile checks less than it read.
THEOREM NoBlindRetryWhenObeyed == Spec => []ObedientNoBlindRetry
<1>1. IInv => ObedientNoBlindRetry
  BY DEF IInv
<1>2. QED
  BY <1>1, Inductive, PTL

\* Only the two commits write the operation's row, and both refuse one that is
\* completed or stopped.
THEOREM TerminalStaysTerminal == Spec => TerminalIsFinal
<1>1. ASSUME [Next]_vars, status \in Terminal
      PROVE  UNCHANGED <<status, latest, decision, attempts>>
  <2>1. ASSUME NEW c \in Controller, Drive(c) \/ BeginProbe(c) \/ Crash(c)
        PROVE  UNCHANGED <<status, latest, decision, attempts>>
    BY <1>1, <2>1
       DEF Drive, Undertake, BeginAttempt, AttemptRaises, CommitAttempt, AttemptFits,
           AttemptRejected, Count, BeginReconcile, Reconsider, NothingAmbiguous,
           CommitReconcile, ReconcileRejected, BeginProbe, CommitProbe, Crash,
           journal, Terminal
  <2>2. QED
    BY <1>1, <2>1 DEF Next, vars, journal
<1>2. QED
  BY <1>1, PTL DEF Spec, TerminalIsFinal

\* With callers who follow resume_action no attempt is committed while the
\* breaker is OPEN, although record_attempt checks it in an earlier transaction.
THEOREM OpenBreakerRejects == Spec => ObedientOpenRejectsAttempts
<1>1. ASSUME IInv, [Next]_vars, obedient, latest' # latest
      PROVE  circuit.state # "OPEN"
  <2>1. ASSUME NEW c \in Controller, CommitAttempt(c) PROVE circuit.state # "OPEN"
    <3>1. JobFits(job[c]) /\ job[c].kind = "attempt" /\ job[c].attempt.attempt = latest + 1
      BY <1>1, <2>1 DEF IInv, CommitAttempt, AttemptFits
    <3>2. QED
      BY <1>1, <3>1 DEF JobFits, HoldsAttempt, NumberOf
  <2>2. ASSUME NEW c \in Controller, Drive(c) \/ BeginProbe(c) \/ Crash(c)
        PROVE  CommitAttempt(c)
    BY <1>1, <2>2
       DEF Drive, Undertake, BeginAttempt, AttemptRaises, AttemptRejected, Count,
           BeginReconcile, Reconsider, NothingAmbiguous, CommitReconcile,
           ReconcileRejected, BeginProbe, CommitProbe, Crash, journal
  <2>3. QED
    BY <1>1, <2>1, <2>2 DEF Next, vars, journal
<1>2. QED
  BY <1>1, Inductive, PTL DEF Spec, ObedientOpenRejectsAttempts

-----------------------------------------------------------------------------
(* One controller at a time: the status and the attempt that reconcile has  *)
(* read are still those it commits to.                                      *)

AwaitsInJob(j) ==
  /\ j.kind = "attempt" /\ effect = "EXTERNAL_WRITE" /\ ~Answered(j.attempt)
       => j.decision.action = "RECONCILE"
  /\ j.kind = "reading" => status = "RECONCILE_REQUIRED"
  /\ j.kind = "reconcile" => status = "RECONCILE_REQUIRED" /\ j.attempt = latest

Awaiting == JournalAwaitsTheTruth /\ \A c \in Controller : AwaitsInJob(job[c])

\* The engine asks for a reconciliation of every ambiguous external write, and
\* the breaker does not take that back.
LEMMA AmbiguousIsReconciled ==
  ASSUME NEW a \in Attempt, a.outcome = "UNKNOWN", a.result = NoResult, NEW k
  PROVE  BreakerLimited(DecisionAfter("EXTERNAL_WRITE", a), k).action = "RECONCILE"
BY DEF BreakerLimited, DecisionAfter, AfterUnknown, AfterReconciliation, Decide, NoResult

\* A step that leaves the rows alone and gives a controller something that fits.
LEMMA AwaitingJobStep ==
  ASSUME IInv, Awaiting, NEW c \in Controller, NEW j, AwaitsInJob(j),
         job' = [job EXCEPT ![c] = j], UNCHANGED <<deployment, journal>>
  PROVE  Awaiting'
<1>1. UNCHANGED <<effect, status, latest, decision, settled>>
  BY DEF deployment, journal
<1>2. JournalAwaitsTheTruth'
  BY <1>1 DEF Awaiting, JournalAwaitsTheTruth
<1>3. ASSUME NEW d \in Controller PROVE AwaitsInJob(job[d])'
  <2>1. job'[d] = IF d = c THEN j ELSE job[d]
    BY DEF IInv, TypeOK
  <2>2. QED
    BY <1>1, <2>1 DEF Awaiting, AwaitsInJob, Answered
<1>4. QED
  BY <1>2, <1>3 DEF Awaiting

LEMMA AwaitingBegin ==
  ASSUME IInv, Awaiting, NEW c \in Controller, NEW outcome \in Outcome,
         NEW result \in Result \cup {NoResult}, BeginAttempt(c, outcome, result)
  PROVE  Awaiting'
<1> DEFINE a == [attempt |-> job[c].attempt, outcome |-> outcome, result |-> result]
           next == NextCircuit(circuit, outcome)
           j == [kind |-> "attempt", attempt |-> a, circuit |-> next,
                 decision |-> BreakerLimited(DecisionAfter(effect, a), next)]
<1>1. a \in Attempt
  <2>1. job[c] \in JobOf /\ job[c].kind = "acting"
    BY DEF IInv, TypeOK, BeginAttempt
  <2>2. job[c].attempt \in Nat \ {0}
    BY <2>1 DEF JobOf, Idle
  <2>3. QED
    BY <2>2 DEF Attempt, BeginAttempt
<1>2. ASSUME effect = "EXTERNAL_WRITE", ~Answered(a) PROVE j.decision.action = "RECONCILE"
  BY <1>1, <1>2, AmbiguousIsReconciled DEF Answered
<1>3. AwaitsInJob(j)
  BY <1>2 DEF AwaitsInJob
<1>4. QED
  BY <1>3, AwaitingJobStep DEF BeginAttempt

LEMMA AwaitingCommit ==
  ASSUME IInv, Awaiting, NEW c \in Controller, \A d \in Controller : d = c, CommitAttempt(c)
  PROVE  Awaiting'
<1> DEFINE j == job[c]
<1>1. j.kind = "attempt" /\ j.attempt.attempt = latest + 1 /\ latest \in Nat
  BY DEF CommitAttempt, AttemptFits, IInv, TypeOK
<1>2. /\ decision' = <<j.decision>> /\ status' = StatusFor(j.decision)
      /\ latest' = latest + 1
      /\ settled' = IF Answered(j.attempt) THEN settled \cup {latest'} ELSE settled
      /\ UNCHANGED effect
  BY <1>1 DEF CommitAttempt, deployment
<1>3. j \in JobOf /\ JobFits(j) /\ AwaitsInJob(j)
  BY DEF IInv, TypeOK, Awaiting
<1>4. j.decision \in Decision
  BY <1>1, <1>3 DEF JobOf, Idle
<1>5. ASSUME effect = "EXTERNAL_WRITE", latest' \notin settled' PROVE status' = "RECONCILE_REQUIRED"
  <2>1. ~Answered(j.attempt)
    BY <1>2, <1>5
  <2>2. j.decision.action = "RECONCILE"
    BY <1>1, <1>3, <1>5, <2>1 DEF AwaitsInJob
  <2>3. QED
    BY <1>2, <2>2 DEF StatusFor
<1>6. ASSUME status' = "RETRY_READY" PROVE decision'[1].next = latest' + 1
  <2>1. j.decision.action = "RETRY"
    BY <1>2, <1>4, <1>6 DEF StatusFor, Decision
  <2>2. j.decision.next = latest + 2
    BY <1>1, <1>3, <2>1 DEF JobFits, RetryFollows
  <2>3. QED
    BY <1>1, <1>2, <2>2
<1>7. JournalAwaitsTheTruth'
  BY <1>2, <1>5, <1>6 DEF JournalAwaitsTheTruth
<1>8. \A d \in Controller : job'[d].kind = "counting"
  BY DEF CommitAttempt, IInv, TypeOK
<1>9. QED
  BY <1>7, <1>8 DEF Awaiting, AwaitsInJob

LEMMA AwaitingReconcile ==
  ASSUME IInv, Awaiting, NEW c \in Controller, \A d \in Controller : d = c, CommitReconcile(c)
  PROVE  Awaiting'
<1> DEFINE j == job[c]
<1>1. /\ j.kind = "reconcile"
      /\ decision' = <<j.decision>> /\ status' = StatusFor(j.decision)
      /\ settled' = settled \cup {j.attempt}
      /\ UNCHANGED <<effect, latest>>
  BY DEF CommitReconcile, deployment
<1>2. j \in JobOf /\ JobFits(j) /\ AwaitsInJob(j)
  BY DEF IInv, TypeOK, Awaiting
<1>3. j.decision \in Decision /\ j.attempt = latest
  BY <1>1, <1>2 DEF JobOf, Idle, AwaitsInJob
<1>4. ASSUME status' = "RETRY_READY" PROVE decision'[1].next = latest' + 1
  <2>1. j.decision.action = "RETRY"
    BY <1>1, <1>3, <1>4 DEF StatusFor, Decision
  <2>2. QED
    BY <1>1, <1>2, <1>3, <2>1 DEF JobFits, RetryFollows
<1>5. JournalAwaitsTheTruth'
  BY <1>1, <1>3, <1>4 DEF JournalAwaitsTheTruth
<1>6. \A d \in Controller : job'[d].kind = "counting"
  BY DEF CommitReconcile, IInv, TypeOK
<1>7. QED
  BY <1>5, <1>6 DEF Awaiting, AwaitsInJob

LEMMA AwaitingProbe ==
  ASSUME IInv, Awaiting, NEW c \in Controller, CommitProbe(c)
  PROVE  Awaiting'
<1>1. UNCHANGED <<effect, status, latest, decision, settled>>
  BY DEF CommitProbe, deployment
<1>2. ASSUME NEW d \in Controller PROVE job'[d] = job[d] \/ job'[d] = Idle
  BY DEF CommitProbe, IInv, TypeOK
<1>3. QED
  BY <1>1, <1>2 DEF Awaiting, AwaitsInJob, JournalAwaitsTheTruth, Answered, Idle

LEMMA AwaitingOthers ==
  ASSUME IInv, Awaiting, NEW c \in Controller,
         \/ \E n \in 1..MaxAttempts + 1 : Undertake(c, n)
         \/ AttemptRaises(c) \/ AttemptRejected(c) \/ Count(c) \/ BeginReconcile(c)
         \/ \E result \in Result : Reconsider(c, result)
         \/ NothingAmbiguous(c) \/ ReconcileRejected(c) \/ BeginProbe(c) \/ Crash(c)
  PROVE  Awaiting'
<1>1. CASE \E n \in 1..MaxAttempts + 1 : Undertake(c, n)
  BY <1>1, AwaitingJobStep DEF Undertake, AwaitsInJob
<1>2. CASE AttemptRaises(c) \/ AttemptRejected(c) \/ NothingAmbiguous(c) \/ ReconcileRejected(c) \/ Crash(c)
  <2>1. AwaitsInJob(Idle)
    BY DEF AwaitsInJob, Idle
  <2>2. QED
    BY <1>2, <2>1, AwaitingJobStep
       DEF AttemptRaises, AttemptRejected, NothingAmbiguous, ReconcileRejected, Crash
<1>3. CASE Count(c)
  <2>1. PICK j : j \in {Idle, [job[c] EXCEPT !.left = Tail(@)]} /\ job' = [job EXCEPT ![c] = j]
                   /\ UNCHANGED <<deployment, journal>>
    BY <1>3 DEF Count
  <2>2. job[c] \in [kind : {"counting"}, left : {names \in Seq(Metric) : Len(names) >= 1}]
    BY <1>3 DEF Count, IInv, TypeOK, JobOf, Idle
  <2>3. AwaitsInJob(j)
    BY <2>1, <2>2 DEF AwaitsInJob, Idle
  <2>4. QED
    BY <2>1, <2>3, AwaitingJobStep
<1>4. CASE BeginReconcile(c)
  BY <1>4, AwaitingJobStep DEF BeginReconcile, AwaitsInJob
<1>5. ASSUME NEW result \in Result, Reconsider(c, result) PROVE Awaiting'
  <2> DEFINE j == [kind |-> "reconcile", attempt |-> latest,
                   decision |-> AfterUnknown(effect, [attempt |-> latest, result |-> result])]
  <2>1. status = "RECONCILE_REQUIRED"
    BY <1>5 DEF Awaiting, AwaitsInJob, Reconsider
  <2>2. AwaitsInJob(j)
    BY <2>1 DEF AwaitsInJob
  <2>3. QED
    BY <1>5, <2>2, AwaitingJobStep DEF Reconsider
<1>6. CASE BeginProbe(c)
  BY <1>6, AwaitingJobStep DEF BeginProbe, AwaitsInJob
<1>7. QED
  BY <1>1, <1>2, <1>3, <1>4, <1>5, <1>6

\* With one controller at a time an ambiguous external write keeps the operation
\* waiting until it is reconciled, and a retry names the attempt the journal
\* will accept: what reconcile read outside its transaction is still so.
THEOREM TruthIsAwaited ==
  ASSUME \A c, d \in Controller : c = d
  PROVE  Spec => []JournalAwaitsTheTruth
<1>1. Init => Awaiting
  BY DEF Init, Awaiting, AwaitsInJob, JournalAwaitsTheTruth, Idle
<1>2. IInv /\ Awaiting /\ [Next]_vars => Awaiting'
  <2> SUFFICES ASSUME IInv, Awaiting, [Next]_vars PROVE Awaiting'
    OBVIOUS
  <2>1. CASE UNCHANGED vars
    BY <2>1 DEF vars, deployment, journal, Awaiting, AwaitsInJob, JournalAwaitsTheTruth, Answered
  <2>2. ASSUME NEW c \in Controller, Drive(c) \/ BeginProbe(c) \/ Crash(c) PROVE Awaiting'
    <3>1. \A d \in Controller : d = c
      OBVIOUS
    <3>2. ASSUME NEW outcome \in Outcome, NEW result \in Result \cup {NoResult},
                 BeginAttempt(c, outcome, result)
          PROVE  Awaiting'
      BY <3>2, AwaitingBegin
    <3>3. CASE CommitAttempt(c)
      BY <3>1, <3>3, AwaitingCommit
    <3>4. CASE CommitReconcile(c)
      BY <3>1, <3>4, AwaitingReconcile
    <3>5. CASE CommitProbe(c)
      BY <3>5, AwaitingProbe
    <3>6. QED
      BY <2>2, <3>2, <3>3, <3>4, <3>5, AwaitingOthers DEF Drive
  <2>3. QED
    BY <2>1, <2>2 DEF Next
<1>3. Awaiting => JournalAwaitsTheTruth
  BY DEF Awaiting
<1>4. QED
  BY <1>1, <1>2, <1>3, Inductive, PTL DEF Spec

-----------------------------------------------------------------------------
(* One controller at a time: the breaker's count.                          *)

\* The last n entries of s are no successes, and the one before them is.
Trails(s, n) ==
  /\ n \in 0..Len(s)
  /\ \A i \in Len(s) - n + 1 .. Len(s) : s[i].outcome # "SUCCESS"
  /\ n < Len(s) => s[Len(s) - n].outcome = "SUCCESS"

\* There is at most one such n.
LEMMA TrailIsUnique ==
  ASSUME NEW s, Len(s) \in Nat, NEW m, NEW n, Trails(s, m), Trails(s, n)
  PROVE  m = n
<1>1. ASSUME NEW k, NEW l, Trails(s, k), Trails(s, l) PROVE ~(k < l)
  <2> SUFFICES ASSUME k < l PROVE FALSE
    OBVIOUS
  <2>1. k \in 0..Len(s) /\ l \in 0..Len(s)
    BY <1>1 DEF Trails
  <2>2. Len(s) - k \in Len(s) - l + 1 .. Len(s) /\ k < Len(s)
    BY <2>1
  <2>3. QED
    BY <1>1, <2>2 DEF Trails
<1>2. ~(m < n) /\ ~(n < m)
  BY <1>1
<1>3. m \in 0..Len(s) /\ n \in 0..Len(s)
  BY DEF Trails
<1>4. QED
  BY <1>2, <1>3

\* A success ends the trail, anything else prolongs it.
LEMMA TrailGrows ==
  ASSUME NEW s \in Seq(Entry), NEW e \in Entry, NEW n, Trails(s, n)
  PROVE  Trails(Append(s, e), IF e.outcome = "SUCCESS" THEN 0 ELSE n + 1)
<1> DEFINE t == Append(s, e)
<1>1. /\ Len(s) \in Nat /\ Len(t) = Len(s) + 1
      /\ \A i \in 1..Len(s) : t[i] = s[i]
      /\ t[Len(s) + 1] = e
  OBVIOUS
<1>2. n \in 0..Len(s)
  BY DEF Trails
<1> HIDE DEF t
<1>3. CASE e.outcome = "SUCCESS"
  <2>1. Trails(t, 0)
    BY <1>1, <1>3 DEF Trails
  <2>2. QED
    BY <1>3, <2>1 DEF t
<1>4. CASE e.outcome # "SUCCESS"
  <2>1. n + 1 \in 0..Len(t) /\ Len(t) - (n + 1) = Len(s) - n
    BY <1>1, <1>2
  <2>2. ASSUME NEW i \in Len(s) - n + 1 .. Len(s) + 1 PROVE t[i].outcome # "SUCCESS"
    <3>1. CASE i = Len(s) + 1
      BY <1>1, <1>4, <3>1
    <3>2. CASE i # Len(s) + 1
      <4>1. i \in Len(s) - n + 1 .. Len(s) /\ i \in 1..Len(s)
        BY <1>1, <1>2, <3>2
      <4>2. QED
        BY <1>1, <4>1 DEF Trails
    <3>3. QED
      BY <3>1, <3>2
  <2>3. ASSUME n < Len(s) PROVE t[Len(s) - n].outcome = "SUCCESS"
    <3>1. Len(s) - n \in 1..Len(s)
      BY <1>1, <1>2, <2>3
    <3>2. QED
      BY <1>1, <2>3, <3>1 DEF Trails
  <2>4. Trails(t, n + 1)
    BY <1>1, <1>2, <2>1, <2>2, <2>3 DEF Trails
  <2>5. QED
    BY <1>4, <2>4 DEF t
<1>5. QED
  BY <1>3, <1>4

\* A controller's pending circuit is what the row becomes if it commits now.
CircuitInJob(j) ==
  /\ j.kind = "attempt" => j.circuit = NextCircuit(circuit, j.attempt.outcome)
  /\ j.kind = "probe" => /\ circuit.state = "OPEN"
                         /\ j.circuit = [circuit EXCEPT !.state = "HALF_OPEN"]

ClosedBelowThreshold(k) == k.state = "CLOSED" <=> k.failures < Threshold

Breaking ==
  /\ Trails(attempts, circuit.failures)
  /\ ClosedBelowThreshold(circuit)
  /\ \A c \in Controller : CircuitInJob(job[c])

LEMMA BreakingMeansFollows == IInv /\ Breaking => CircuitFollowsJournal
<1> SUFFICES ASSUME IInv, Breaking PROVE CircuitFollowsJournal
  OBVIOUS
<1>1. Len(attempts) \in Nat
  BY DEF IInv, TypeOK
<1> DEFINE Fits(n) ==
      /\ \A i \in Len(attempts) - n + 1 .. Len(attempts) : attempts[i].outcome # "SUCCESS"
      /\ n < Len(attempts) => attempts[Len(attempts) - n].outcome = "SUCCESS"
<1>2. circuit.failures \in 0..Len(attempts) /\ Fits(circuit.failures)
  BY DEF Breaking, Trails
<1>3. \A n \in 0..Len(attempts) : Fits(n) => n = circuit.failures
  BY <1>1, TrailIsUnique DEF Breaking, Trails
<1>4. TrailingFailures = CHOOSE n \in 0..Len(attempts) : Fits(n)
  BY DEF TrailingFailures
<1> HIDE DEF Fits
<1>5. TrailingFailures = circuit.failures
  BY <1>2, <1>3, <1>4
<1>6. QED
  BY <1>5 DEF Breaking, ClosedBelowThreshold, CircuitFollowsJournal

\* The breaker opens exactly when the count reaches the threshold.
LEMMA NextCircuitCounts ==
  ASSUME NEW k \in Circuit, NEW outcome \in Outcome
  PROVE  LET next == NextCircuit(k, outcome) IN
         /\ next.failures = IF outcome = "SUCCESS" THEN 0 ELSE k.failures + 1
         /\ ClosedBelowThreshold(next)
BY BudgetAssumption DEF NextCircuit, ClosedCircuit, Circuit, ClosedBelowThreshold

\* A step that leaves the journal alone.
LEMMA BreakingJobStep ==
  ASSUME IInv, Breaking, NEW c \in Controller, NEW j, CircuitInJob(j),
         job' = [job EXCEPT ![c] = j], UNCHANGED journal
  PROVE  Breaking'
<1>1. UNCHANGED <<attempts, circuit>>
  BY DEF journal
<1>2. ASSUME NEW d \in Controller PROVE CircuitInJob(job[d])'
  <2>1. job'[d] = IF d = c THEN j ELSE job[d]
    BY DEF IInv, TypeOK
  <2>2. QED
    BY <1>1, <2>1 DEF Breaking, CircuitInJob
<1>3. QED
  BY <1>1, <1>2 DEF Breaking

LEMMA BreakingCommit ==
  ASSUME IInv, Breaking, NEW c \in Controller, \A d \in Controller : d = c, CommitAttempt(c)
  PROVE  Breaking'
<1> DEFINE j == job[c]
           entry == [outcome |-> j.attempt.outcome, result |-> j.attempt.result]
<1>1. j \in JobOf /\ j.kind = "attempt" /\ CircuitInJob(j)
  BY DEF CommitAttempt, IInv, TypeOK, Breaking
<1>2. j.attempt \in Attempt
  BY <1>1 DEF JobOf, Idle
<1>3. entry \in Entry /\ attempts \in Seq(Entry) /\ circuit \in Circuit /\ entry.outcome \in Outcome
  BY <1>2 DEF Attempt, Entry, IInv, TypeOK
<1>4. attempts' = Append(attempts, entry) /\ circuit' = NextCircuit(circuit, entry.outcome)
  BY <1>1 DEF CommitAttempt, CircuitInJob
<1>5. \A d \in Controller : job'[d].kind = "counting"
  BY DEF CommitAttempt, IInv, TypeOK
<1> HIDE DEF entry
<1>6. Trails(attempts', IF entry.outcome = "SUCCESS" THEN 0 ELSE circuit.failures + 1)
  BY <1>3, <1>4, TrailGrows DEF Breaking
<1>7. /\ circuit'.failures = IF entry.outcome = "SUCCESS" THEN 0 ELSE circuit.failures + 1
      /\ ClosedBelowThreshold(circuit')
  BY <1>3, <1>4, NextCircuitCounts
<1>8. QED
  BY <1>5, <1>6, <1>7 DEF Breaking, CircuitInJob, ClosedBelowThreshold, Trails

LEMMA BreakingProbe ==
  ASSUME IInv, Breaking, NEW c \in Controller, \A d \in Controller : d = c, CommitProbe(c)
  PROVE  Breaking'
<1>1. /\ circuit.state = "OPEN" /\ circuit' = [circuit EXCEPT !.state = "HALF_OPEN"]
      /\ UNCHANGED attempts
  BY DEF CommitProbe, Breaking, CircuitInJob
<1>2. circuit'.state = "HALF_OPEN" /\ circuit'.failures = circuit.failures
  BY <1>1 DEF IInv, TypeOK, Circuit
<1>3. \A d \in Controller : job'[d] = Idle
  BY DEF CommitProbe, IInv, TypeOK
<1>4. QED
  BY <1>1, <1>2, <1>3 DEF Breaking, CircuitInJob, ClosedBelowThreshold, Trails, Idle

LEMMA BreakingOthers ==
  ASSUME IInv, Breaking, NEW c \in Controller,
         \/ \E n \in 1..MaxAttempts + 1 : Undertake(c, n)
         \/ \E outcome \in Outcome, result \in Result \cup {NoResult} :
              BeginAttempt(c, outcome, result)
         \/ AttemptRaises(c) \/ AttemptRejected(c) \/ Count(c) \/ BeginReconcile(c)
         \/ \E result \in Result : Reconsider(c, result)
         \/ NothingAmbiguous(c) \/ ReconcileRejected(c) \/ BeginProbe(c) \/ Crash(c)
  PROVE  Breaking'
<1>1. CASE \E n \in 1..MaxAttempts + 1 : Undertake(c, n)
  BY <1>1, BreakingJobStep DEF Undertake, CircuitInJob
<1>2. CASE \E outcome \in Outcome, result \in Result \cup {NoResult} :
             BeginAttempt(c, outcome, result)
  BY <1>2, BreakingJobStep DEF BeginAttempt, CircuitInJob
<1>3. CASE AttemptRaises(c) \/ AttemptRejected(c) \/ NothingAmbiguous(c) \/ ReconcileRejected(c) \/ Crash(c)
  <2>1. CircuitInJob(Idle)
    BY DEF CircuitInJob, Idle
  <2>2. QED
    BY <1>3, <2>1, BreakingJobStep
       DEF AttemptRaises, AttemptRejected, NothingAmbiguous, ReconcileRejected, Crash
<1>4. CASE Count(c)
  <2>1. PICK j : j \in {Idle, [job[c] EXCEPT !.left = Tail(@)]} /\ job' = [job EXCEPT ![c] = j]
                   /\ UNCHANGED journal
    BY <1>4 DEF Count
  <2>2. job[c] \in [kind : {"counting"}, left : {names \in Seq(Metric) : Len(names) >= 1}]
    BY <1>4 DEF Count, IInv, TypeOK, JobOf, Idle
  <2>3. CircuitInJob(j)
    BY <2>1, <2>2 DEF CircuitInJob, Idle
  <2>4. QED
    BY <2>1, <2>3, BreakingJobStep
<1>5. CASE BeginReconcile(c)
  BY <1>5, BreakingJobStep DEF BeginReconcile, CircuitInJob
<1>6. CASE \E result \in Result : Reconsider(c, result)
  BY <1>6, BreakingJobStep DEF Reconsider, CircuitInJob
<1>7. CASE BeginProbe(c)
  BY <1>7, BreakingJobStep DEF BeginProbe, CircuitInJob
<1>8. QED
  BY <1>1, <1>2, <1>3, <1>4, <1>5, <1>6, <1>7

\* With one controller at a time the breaker's count is the number of attempts in
\* the journal since the last success, and it is CLOSED exactly below the
\* threshold: the circuit that record_attempt and open_probe computed from a read
\* of their own is still the next one when they write it.
THEOREM BreakerCountsTheJournal ==
  ASSUME \A c, d \in Controller : c = d
  PROVE  Spec => []CircuitFollowsJournal
<1>1. Init => Breaking
  <2> SUFFICES ASSUME Init PROVE Breaking
    OBVIOUS
  <2>1. attempts = <<>> /\ circuit.state = "CLOSED" /\ circuit.failures = 0
    BY DEF Init, ClosedCircuit
  <2>2. Trails(attempts, 0)
    BY <2>1 DEF Trails
  <2>3. \A c \in Controller : job[c] = Idle
    BY DEF Init
  <2>4. QED
    BY <2>1, <2>2, <2>3, BudgetAssumption DEF Breaking, CircuitInJob, ClosedBelowThreshold, Idle
<1>2. IInv /\ Breaking /\ [Next]_vars => Breaking'
  <2> SUFFICES ASSUME IInv, Breaking, [Next]_vars PROVE Breaking'
    OBVIOUS
  <2>1. CASE UNCHANGED vars
    BY <2>1 DEF vars, journal, Breaking, CircuitInJob, ClosedBelowThreshold, Trails
  <2>2. ASSUME NEW c \in Controller, Drive(c) \/ BeginProbe(c) \/ Crash(c) PROVE Breaking'
    <3>1. \A d \in Controller : d = c
      OBVIOUS
    <3>2. CASE CommitAttempt(c)
      BY <3>1, <3>2, BreakingCommit
    <3>3. CASE CommitReconcile(c)
      <4>1. UNCHANGED <<attempts, circuit>> /\ \A d \in Controller : job'[d].kind = "counting"
        BY <3>1, <3>3 DEF CommitReconcile, IInv, TypeOK
      <4>2. QED
        BY <4>1 DEF Breaking, CircuitInJob, ClosedBelowThreshold, Trails
    <3>4. CASE CommitProbe(c)
      BY <3>1, <3>4, BreakingProbe
    <3>5. QED
      BY <2>2, <3>2, <3>3, <3>4, BreakingOthers DEF Drive
  <2>3. QED
    BY <2>1, <2>2 DEF Next
<1>3. QED
  BY <1>1, <1>2, BreakingMeansFollows, Inductive, PTL DEF Spec

-----------------------------------------------------------------------------
(* Any number of controllers: the metrics and what is still to be counted.  *)

\* Counter m is among those that a controller with business j will write.
Owes(j, m) == j.kind = "counting" /\ \E i \in 1..Len(j.left) : j.left[i] = m

Owing(m) == {c \in Controller : Owes(job[c], m)}
Weight(j, m) == IF Owes(j, m) THEN 1 ELSE 0

\* What is left of the counters of one commit.
Queued == { <<"attempt_total">>, <<"attempt_total", "attempt_failure_total">>,
            <<"attempt_failure_total">>, <<"reconciliation_total">> }

QueueFits(j) == j.kind = "counting" => j.left \in Queued

\* What is counted and what is still owed make up what is due, and no less unless
\* a controller has died.
Balanced(owing, counted, due, crashed) ==
  /\ IsFiniteSet(owing)
  /\ counted + Cardinality(owing) <= due
  /\ crashed = 0 => counted + Cardinality(owing) = due

Failed == {i \in 1..latest : attempts[i].outcome # "SUCCESS"}

TalliedAs(m, due) == Balanced(Owing(m), metrics[m], due, crashes)

Tallied ==
  /\ \A c \in Controller : QueueFits(job[c])
  /\ TalliedAs("attempt_total", latest)
  /\ TalliedAs("attempt_failure_total", Cardinality(Failed))

LEMMA TalliedMeansFollows == IInv /\ Tallied => MetricsFollowJournal
<1> SUFFICES ASSUME IInv, Tallied PROVE MetricsFollowJournal
  OBVIOUS
<1>1. ASSUME NEW m \in Metric
      PROVE  /\ IsFiniteSet(Owing(m)) => Cardinality(Owing(m)) \in Nat
             /\ (\A c \in Controller : job[c] = Idle) => Cardinality(Owing(m)) = 0
  <2>1. (\A c \in Controller : job[c] = Idle) => Owing(m) = {}
    BY DEF Owing, Owes, Idle
  <2>2. QED
    BY <2>1, FS_CardinalityType, FS_EmptySet
<1>2. "attempt_total" \in Metric /\ "attempt_failure_total" \in Metric
  BY DEF Metric
<1>3. metrics["attempt_total"] \in Nat /\ metrics["attempt_failure_total"] \in Nat /\ latest \in Nat
  BY <1>2 DEF IInv, TypeOK
<1>4. IsFiniteSet(Failed) /\ Cardinality(Failed) \in Nat
  <2>1. IsFiniteSet(1..latest) /\ Failed \in SUBSET (1..latest)
    BY <1>3, FS_Interval DEF Failed
  <2>2. QED
    BY <2>1, FS_Subset, FS_CardinalityType
<1> HIDE DEF Owing, Failed
<1>5. /\ metrics["attempt_total"] <= latest
      /\ metrics["attempt_failure_total"] <= Cardinality(Failed)
  BY <1>1, <1>2, <1>3, <1>4 DEF Tallied, TalliedAs, Balanced
<1>6. ASSUME crashes = 0, \A c \in Controller : job[c] = Idle
      PROVE  /\ metrics["attempt_total"] = latest
             /\ metrics["attempt_failure_total"] = Cardinality(Failed)
  BY <1>1, <1>2, <1>3, <1>6 DEF Tallied, TalliedAs, Balanced
<1>7. QED
  BY <1>5, <1>6 DEF MetricsFollowJournal, Failed

\* When controller c turns to business j, only c comes to owe or ceases to.
LEMMA OwingMoves ==
  ASSUME IInv, NEW c \in Controller, NEW j, job' = [job EXCEPT ![c] = j],
         NEW m, IsFiniteSet(Owing(m))
  PROVE  /\ IsFiniteSet(Owing(m)')
         /\ Cardinality(Owing(m)') = Cardinality(Owing(m)) + Weight(j, m) - Weight(job[c], m)
<1>1. \A d \in Controller : job'[d] = IF d = c THEN j ELSE job[d]
  BY DEF IInv, TypeOK
<1>2. c \in Owing(m) <=> Owes(job[c], m)
  BY DEF Owing
<1>3. Owing(m)' = IF Owes(j, m) THEN Owing(m) \cup {c} ELSE Owing(m) \ {c}
  <2>1. ASSUME NEW d \in Controller
        PROVE  d \in Owing(m)' <=> IF d = c THEN Owes(j, m) ELSE d \in Owing(m)
    BY <1>1 DEF Owing, Owes
  <2>2. Owing(m) \subseteq Controller /\ Owing(m)' \subseteq Controller
    BY DEF Owing
  <2>3. QED
    BY <2>1, <2>2
<1>4. Cardinality(Owing(m)) \in Nat
  BY FS_CardinalityType
<1> HIDE DEF Owing
<1>5. CASE Owes(j, m)
  BY <1>2, <1>3, <1>4, <1>5, FS_AddElement DEF Weight
<1>6. CASE ~Owes(j, m)
  BY <1>2, <1>3, <1>4, <1>6, FS_RemoveElement DEF Weight
<1>7. QED
  BY <1>5, <1>6

\* The account of one counter over one step of one controller.
LEMMA AccountMoves ==
  ASSUME IInv, NEW c \in Controller, NEW j, job' = [job EXCEPT ![c] = j],
         NEW m \in Metric, NEW due \in Nat, NEW dueNext \in Nat,
         Balanced(Owing(m), metrics[m], due, crashes),
         metrics'[m] \in Nat, crashes' \in Nat, crashes' = 0 => crashes = 0,
         metrics'[m] + Weight(j, m) + due <= metrics[m] + Weight(job[c], m) + dueNext,
         crashes' = 0 =>
           metrics'[m] + Weight(j, m) + due = metrics[m] + Weight(job[c], m) + dueNext
  PROVE  Balanced(Owing(m)', metrics'[m], dueNext, crashes')
<1> DEFINE owed == Cardinality(Owing(m))
           owedNext == Cardinality(Owing(m)')
<1>1. IsFiniteSet(Owing(m)) /\ owed \in Nat
  BY FS_CardinalityType DEF Balanced
<1>2. IsFiniteSet(Owing(m)') /\ owedNext = owed + Weight(j, m) - Weight(job[c], m)
  BY <1>1, OwingMoves
<1>3. /\ metrics[m] + owed <= due
      /\ crashes = 0 => metrics[m] + owed = due
  BY DEF Balanced
<1>4. metrics[m] \in Nat /\ Weight(j, m) \in {0, 1} /\ Weight(job[c], m) \in {0, 1}
  BY DEF IInv, TypeOK, Weight
<1> HIDE DEF owed, owedNext
<1>5. /\ metrics'[m] + owedNext <= dueNext
      /\ crashes' = 0 => metrics'[m] + owedNext = dueNext
  BY <1>1, <1>2, <1>3, <1>4
<1>6. QED
  BY <1>2, <1>5 DEF Balanced, owedNext

LEMMA FailedIsFinite == IInv => Cardinality(Failed) \in Nat
<1> SUFFICES ASSUME IInv PROVE Cardinality(Failed) \in Nat
  OBVIOUS
<1>1. IsFiniteSet(1..latest) /\ Failed \in SUBSET (1..latest)
  BY FS_Interval DEF Failed, IInv, TypeOK
<1>2. QED
  BY <1>1, FS_Subset, FS_CardinalityType

\* A step that leaves the journal alone and takes on no counters.
LEMMA TalliedJobStep ==
  ASSUME IInv, Tallied, NEW c \in Controller, NEW j, j.kind # "counting",
         job' = [job EXCEPT ![c] = j], UNCHANGED <<latest, attempts, metrics>>,
         crashes' \in Nat,
         (crashes' = crashes /\ job[c].kind # "counting") \/ crashes' # 0
  PROVE  Tallied'
<1>1. \A d \in Controller : QueueFits(job'[d])
  BY DEF IInv, TypeOK, Tallied, QueueFits
<1>2. ASSUME NEW m \in Metric, NEW due \in Nat, Balanced(Owing(m), metrics[m], due, crashes)
      PROVE  Balanced(Owing(m)', metrics'[m], due, crashes')
  <2>1. Weight(j, m) = 0 /\ Weight(job[c], m) \in {0, 1} /\ metrics[m] \in Nat
    BY DEF Weight, Owes, IInv, TypeOK
  <2>2. crashes' = 0 => crashes = 0 /\ Weight(job[c], m) = 0
    BY DEF Weight, Owes
  <2>3. metrics'[m] + Weight(j, m) + due <= metrics[m] + Weight(job[c], m) + due
    BY <2>1
  <2>4. QED
    BY <1>2, <2>1, <2>2, <2>3, AccountMoves
<1>3. "attempt_total" \in Metric /\ "attempt_failure_total" \in Metric
  BY DEF Metric
<1>4. latest \in Nat /\ Cardinality(Failed) \in Nat /\ Failed' = Failed /\ latest' = latest
  BY FailedIsFinite DEF IInv, TypeOK, Failed
<1>5. QED
  BY <1>1, <1>2, <1>3, <1>4 DEF Tallied, TalliedAs, QueueFits

\* A commit makes an attempt due, and owes to count it.
LEMMA TalliedCommit ==
  ASSUME IInv, Tallied, NEW c \in Controller, CommitAttempt(c)
  PROVE  Tallied'
<1> DEFINE j == job[c]
           outcome == j.attempt.outcome
           entry == [outcome |-> outcome, result |-> j.attempt.result]
           counting == [kind |-> "counting", left |-> Counters(outcome)]
<1>1. j \in JobOf /\ j.kind = "attempt"
  BY DEF CommitAttempt, IInv, TypeOK
<1>2. j.attempt \in Attempt
  BY <1>1 DEF JobOf, Idle
<1>3. entry \in Entry
  BY <1>2 DEF Attempt, Entry
<1>4. /\ attempts' = Append(attempts, entry) /\ latest' = latest + 1
      /\ job' = [job EXCEPT ![c] = counting] /\ UNCHANGED <<metrics, crashes>>
  BY DEF CommitAttempt, AttemptFits
<1>5. latest \in Nat /\ attempts \in Seq(Entry) /\ Len(attempts) = latest
  BY DEF IInv, TypeOK, AttemptsAreSequential
<1>6. /\ \A i \in 1..latest : attempts'[i] = attempts[i]
      /\ attempts'[latest + 1].outcome = outcome
  BY <1>3, <1>4, <1>5
<1>7. /\ metrics["attempt_total"] \in Nat /\ metrics["attempt_failure_total"] \in Nat
      /\ crashes \in Nat
  BY DEF IInv, TypeOK, Metric
<1>8. /\ Weight(j, "attempt_total") = 0 /\ Weight(j, "attempt_failure_total") = 0
      /\ Weight(counting, "attempt_total") = 1
      /\ Weight(counting, "attempt_failure_total") = IF outcome = "SUCCESS" THEN 0 ELSE 1
  <2>1. Weight(j, "attempt_total") = 0 /\ Weight(j, "attempt_failure_total") = 0
    BY <1>1 DEF Weight, Owes
  <2>2. CASE outcome = "SUCCESS"
    <3>1. counting.kind = "counting" /\ counting.left = <<"attempt_total">>
      BY <2>2 DEF Counters
    <3>2. Owes(counting, "attempt_total") /\ ~Owes(counting, "attempt_failure_total")
      BY <3>1 DEF Owes
    <3>3. QED
      BY <2>1, <2>2, <3>2 DEF Weight
  <2>3. CASE outcome # "SUCCESS"
    <3>1. /\ counting.kind = "counting"
          /\ counting.left = <<"attempt_total", "attempt_failure_total">>
      BY <2>3 DEF Counters
    <3>2. Owes(counting, "attempt_total") /\ Owes(counting, "attempt_failure_total")
      BY <3>1 DEF Owes
    <3>3. QED
      BY <2>1, <2>3, <3>2 DEF Weight
  <2>4. QED
    BY <2>2, <2>3
<1>9. \A d \in Controller : QueueFits(job'[d])
  <2>1. QueueFits(counting)
    BY DEF QueueFits, Queued, Counters
  <2>2. QED
    BY <1>4, <2>1 DEF IInv, TypeOK, Tallied
<1>10. Cardinality(Failed') = Cardinality(Failed) + IF outcome = "SUCCESS" THEN 0 ELSE 1
  <2>1. Failed' = IF outcome = "SUCCESS" THEN Failed ELSE Failed \cup {latest + 1}
    BY <1>4, <1>5, <1>6 DEF Failed
  <2>2. latest + 1 \notin Failed
    BY <1>5 DEF Failed
  <2>3. IsFiniteSet(Failed) /\ Cardinality(Failed) \in Nat
    <3>1. IsFiniteSet(1..latest) /\ Failed \in SUBSET (1..latest)
      BY <1>5, FS_Interval DEF Failed
    <3>2. QED
      BY <3>1, FS_Subset, FS_CardinalityType
  <2>4. QED
    BY <2>1, <2>2, <2>3, FS_AddElement
<1>11. Cardinality(Failed) \in Nat
  BY FailedIsFinite
<1> HIDE DEF counting, outcome
<1>12. Balanced(Owing("attempt_total")', metrics'["attempt_total"], latest', crashes')
  <2>1. latest + 1 \in Nat /\ "attempt_total" \in Metric
    BY <1>5 DEF Metric
  <2>2. Balanced(Owing("attempt_total"), metrics["attempt_total"], latest, crashes)
    BY DEF Tallied, TalliedAs
  <2>3. metrics["attempt_total"] + 1 + latest = metrics["attempt_total"] + 0 + (latest + 1)
    BY <1>5, <1>7
  <2>4. metrics["attempt_total"] + 1 + latest <= metrics["attempt_total"] + 0 + (latest + 1)
    BY <1>5, <1>7
  <2>5. /\ metrics'["attempt_total"] = metrics["attempt_total"] /\ crashes' = crashes
        /\ latest' = latest + 1
    BY <1>4
  <2>6. Balanced(Owing("attempt_total")', metrics'["attempt_total"], latest + 1, crashes')
    BY <1>4, <1>5, <1>7, <1>8, <2>1, <2>2, <2>3, <2>4, <2>5, AccountMoves
  <2>7. QED
    BY <2>5, <2>6
<1>13. Balanced(Owing("attempt_failure_total")', metrics'["attempt_failure_total"],
                Cardinality(Failed'), crashes')
  <2>1. Cardinality(Failed') \in Nat /\ "attempt_failure_total" \in Metric
    BY <1>10, <1>11 DEF Metric
  <2>2. Balanced(Owing("attempt_failure_total"), metrics["attempt_failure_total"],
                 Cardinality(Failed), crashes)
    BY DEF Tallied, TalliedAs
  <2> DEFINE more == IF outcome = "SUCCESS" THEN 0 ELSE 1
             failed == Cardinality(Failed)
             failedNext == Cardinality(Failed')
             total == metrics["attempt_failure_total"]
  <2>3. more \in {0, 1} /\ failedNext = failed + more /\ failed \in Nat /\ failedNext \in Nat
    BY <1>10, <1>11
  <2>4. Weight(counting, "attempt_failure_total") = more
    BY <1>8
  <2>5. metrics'["attempt_failure_total"] = total /\ total \in Nat /\ crashes' = crashes
    BY <1>4, <1>7
  <2> HIDE DEF more, failed, failedNext
  <2>6. total + more + failed = total + 0 + failedNext
    BY <2>3, <2>5
  <2>7. total + more + failed <= total + 0 + failedNext
    BY <2>3, <2>5
  <2>8. Balanced(Owing("attempt_failure_total")', metrics'["attempt_failure_total"],
                 failedNext, crashes')
    BY <1>4, <1>7, <1>8, <2>1, <2>2, <2>3, <2>4, <2>5, <2>6, <2>7, AccountMoves DEF failed
  <2>9. QED
    BY <2>8 DEF failedNext
<1>14. QED
  BY <1>9, <1>12, <1>13 DEF Tallied, TalliedAs, QueueFits

LEMMA TalliedReconcile ==
  ASSUME IInv, Tallied, NEW c \in Controller, CommitReconcile(c)
  PROVE  Tallied'
<1> DEFINE j == [kind |-> "counting", left |-> <<"reconciliation_total">>]
<1>1. /\ job[c].kind = "reconcile" /\ job' = [job EXCEPT ![c] = j]
      /\ UNCHANGED <<latest, attempts, metrics, crashes>>
  BY DEF CommitReconcile
<1>2. ASSUME NEW m \in {"attempt_total", "attempt_failure_total"}
      PROVE  Weight(j, m) = 0 /\ Weight(job[c], m) = 0
  BY <1>1 DEF Weight, Owes
<1>3. QueueFits(j)
  BY DEF QueueFits, Queued
<1> HIDE DEF j
<1>4. \A d \in Controller : QueueFits(job'[d])
  BY <1>1, <1>3 DEF IInv, TypeOK, Tallied
<1>5. ASSUME NEW m \in {"attempt_total", "attempt_failure_total"}, NEW due \in Nat,
             Balanced(Owing(m), metrics[m], due, crashes)
      PROVE  Balanced(Owing(m)', metrics'[m], due, crashes')
  <2>1. m \in Metric
    BY DEF Metric
  <2>2. metrics[m] \in Nat /\ crashes \in Nat
    BY <2>1 DEF IInv, TypeOK
  <2>3. metrics[m] + 0 + due <= metrics[m] + 0 + due /\ metrics'[m] = metrics[m]
    BY <1>1, <2>2
  <2>4. QED
    BY <1>1, <1>2, <1>5, <2>1, <2>2, <2>3, AccountMoves
<1>6. latest \in Nat /\ Cardinality(Failed) \in Nat /\ Failed' = Failed /\ latest' = latest
  BY <1>1, FailedIsFinite DEF IInv, TypeOK, Failed
<1>7. QED
  BY <1>4, <1>5, <1>6 DEF Tallied, TalliedAs, QueueFits

\* Writing a counter is one owed less and one counted more.
LEMMA TalliedCount ==
  ASSUME IInv, Tallied, NEW c \in Controller, Count(c)
  PROVE  Tallied'
<1> DEFINE left == job[c].left
           j == IF Len(left) = 1 THEN Idle ELSE [job[c] EXCEPT !.left = Tail(@)]
<1>1. /\ job[c].kind = "counting"
      /\ job[c] \in [kind : {"counting"}, left : {names \in Seq(Metric) : Len(names) >= 1}]
      /\ left \in Queued
  BY DEF Count, IInv, TypeOK, JobOf, Idle, Tallied, QueueFits
<1>2. /\ metrics' = [metrics EXCEPT ![Head(left)] = @ + 1]
      /\ job' = [job EXCEPT ![c] = j] /\ UNCHANGED <<latest, attempts, crashes>>
  BY DEF Count, journal
<1>3. Head(left) \in Metric
  BY <1>1
<1>4. /\ QueueFits(j)
      /\ \A m \in Metric : Weight(job[c], m) = Weight(j, m) + IF m = Head(left) THEN 1 ELSE 0
  <2>1. CASE left = <<"attempt_total", "attempt_failure_total">>
    <3>1. Len(left) = 2 /\ Head(left) = "attempt_total" /\ Tail(left) = <<"attempt_failure_total">>
      BY <2>1
    <3>2. j.kind = "counting" /\ j.left = <<"attempt_failure_total">>
      <4>1. j = [job[c] EXCEPT !.left = Tail(left)]
        BY <3>1
      <4>2. QED
        BY <1>1, <3>1, <4>1
    <3> HIDE DEF j, left
    <3>3. QueueFits(j)
      BY <3>2 DEF QueueFits, Queued
    <3>4. ASSUME NEW m \in Metric
          PROVE  /\ Owes(job[c], m) <=> m \in {"attempt_total", "attempt_failure_total"}
                 /\ Owes(j, m) <=> m = "attempt_failure_total"
      <4>1. Owes(job[c], m) <=> m \in {"attempt_total", "attempt_failure_total"}
        BY <1>1, <2>1, <3>1 DEF Owes, left
      <4>2. Owes(j, m) <=> m = "attempt_failure_total"
        BY <3>2 DEF Owes
      <4>3. QED
        BY <4>1, <4>2
    <3>5. QED
      BY <3>1, <3>3, <3>4 DEF Weight
  <2>2. CASE left # <<"attempt_total", "attempt_failure_total">>
    <3>1. PICK name \in Metric : left = <<name>>
      BY <1>1, <2>2 DEF Queued, Metric
    <3>2. j = Idle /\ Head(left) = name /\ Len(left) = 1
      BY <3>1
    <3>3. \A m \in Metric : (Owes(job[c], m) <=> m = name) /\ ~Owes(j, m)
      BY <1>1, <3>1, <3>2 DEF Owes, Idle
    <3>4. QED
      BY <3>2, <3>3 DEF Weight, QueueFits, Idle
  <2>3. QED
    BY <2>1, <2>2
<1> HIDE DEF j, left
<1>5. \A d \in Controller : QueueFits(job'[d])
  BY <1>2, <1>4 DEF IInv, TypeOK, Tallied
<1>6. ASSUME NEW m \in Metric, NEW due \in Nat, Balanced(Owing(m), metrics[m], due, crashes)
      PROVE  Balanced(Owing(m)', metrics'[m], due, crashes')
  <2>1. metrics[m] \in Nat /\ crashes \in Nat
    BY DEF IInv, TypeOK
  <2>2. metrics'[m] = metrics[m] + IF m = Head(left) THEN 1 ELSE 0
    BY <1>2, <1>3, <2>1 DEF IInv, TypeOK
  <2>3. Weight(j, m) \in {0, 1}
    BY DEF Weight
  <2>4. metrics'[m] \in Nat
    BY <2>1, <2>2
  <2>5. metrics'[m] + Weight(j, m) + due = metrics[m] + Weight(job[c], m) + due
    BY <1>4, <2>1, <2>2, <2>3
  <2>6. metrics'[m] + Weight(j, m) + due <= metrics[m] + Weight(job[c], m) + due
    BY <1>4, <2>1, <2>2, <2>3
  <2>7. QED
    BY <1>2, <1>6, <2>1, <2>4, <2>5, <2>6, AccountMoves
<1>7. "attempt_total" \in Metric /\ "attempt_failure_total" \in Metric
  BY DEF Metric
<1>8. latest \in Nat /\ Cardinality(Failed) \in Nat /\ Failed' = Failed /\ latest' = latest
  BY <1>2, FailedIsFinite DEF IInv, TypeOK, Failed
<1>9. QED
  BY <1>5, <1>6, <1>7, <1>8 DEF Tallied, TalliedAs, QueueFits

LEMMA TalliedOthers ==
  ASSUME IInv, Tallied, NEW c \in Controller,
         \/ \E n \in 1..MaxAttempts + 1 : Undertake(c, n)
         \/ \E outcome \in Outcome, result \in Result \cup {NoResult} :
              BeginAttempt(c, outcome, result)
         \/ AttemptRaises(c) \/ AttemptRejected(c) \/ BeginReconcile(c)
         \/ \E result \in Result : Reconsider(c, result)
         \/ NothingAmbiguous(c) \/ ReconcileRejected(c) \/ BeginProbe(c) \/ CommitProbe(c)
  PROVE  Tallied'
<1>1. crashes \in Nat /\ Idle.kind # "counting"
  BY DEF IInv, TypeOK, Idle
<1>2. CASE \E n \in 1..MaxAttempts + 1 : Undertake(c, n)
  BY <1>1, <1>2, TalliedJobStep DEF Undertake, journal
<1>3. CASE \E outcome \in Outcome, result \in Result \cup {NoResult} :
             BeginAttempt(c, outcome, result)
  BY <1>1, <1>3, TalliedJobStep DEF BeginAttempt, journal
<1>4. CASE AttemptRaises(c) \/ AttemptRejected(c) \/ NothingAmbiguous(c) \/ ReconcileRejected(c)
             \/ CommitProbe(c)
  BY <1>1, <1>4, TalliedJobStep
     DEF AttemptRaises, AttemptRejected, NothingAmbiguous, ReconcileRejected, CommitProbe, journal
<1>5. CASE BeginReconcile(c) \/ BeginProbe(c)
  BY <1>1, <1>5, TalliedJobStep DEF BeginReconcile, BeginProbe, journal
<1>6. CASE \E result \in Result : Reconsider(c, result)
  BY <1>1, <1>6, TalliedJobStep DEF Reconsider, journal
<1>7. QED
  BY <1>2, <1>3, <1>4, <1>5, <1>6

\* However many controllers commit and count in whatever order, and wherever one
\* dies between a commit and its counters, the metrics never run ahead of the
\* journal, and agree with it when nobody has died and nobody is busy.
THEOREM MetricsTellTheJournal == Spec => []MetricsFollowJournal
<1>1. Init => Tallied
  <2> SUFFICES ASSUME Init PROVE Tallied
    OBVIOUS
  <2>1. \A m \in Metric : Owing(m) = {} /\ metrics[m] = 0
    BY DEF Init, Owing, Owes, Idle
  <2>2. latest = 0 /\ Failed = {} /\ crashes = 0
    BY DEF Init, Failed
  <2>3. "attempt_total" \in Metric /\ "attempt_failure_total" \in Metric
    BY DEF Metric
  <2>4. \A c \in Controller : QueueFits(job[c])
    BY DEF Init, QueueFits, Idle
  <2> HIDE DEF Failed, Owing
  <2>5. QED
    BY <2>1, <2>2, <2>3, <2>4, FS_EmptySet DEF Tallied, TalliedAs, Balanced
<1>2. IInv /\ Tallied /\ [Next]_vars => Tallied'
  <2> SUFFICES ASSUME IInv, Tallied, [Next]_vars PROVE Tallied'
    OBVIOUS
  <2>1. CASE UNCHANGED vars
    BY <2>1 DEF vars, journal, Tallied, TalliedAs, Balanced, QueueFits, Owing, Owes, Failed
  <2>2. ASSUME NEW c \in Controller, Drive(c) \/ BeginProbe(c) \/ Crash(c) PROVE Tallied'
    <3>1. CASE CommitAttempt(c)
      BY <3>1, TalliedCommit
    <3>2. CASE CommitReconcile(c)
      BY <3>2, TalliedReconcile
    <3>3. CASE Count(c)
      BY <3>3, TalliedCount
    <3>4. CASE Crash(c)
      <4>1. crashes' \in Nat /\ crashes' # 0 /\ Idle.kind # "counting"
        BY <3>4 DEF Crash, IInv, TypeOK, Idle
      <4>2. QED
        BY <3>4, <4>1, TalliedJobStep DEF Crash, journal
    <3>5. QED
      BY <2>2, <3>1, <3>2, <3>3, <3>4, TalliedOthers DEF Drive
  <2>3. QED
    BY <2>1, <2>2 DEF Next
<1>3. QED
  BY <1>1, <1>2, TalliedMeansFollows, Inductive, PTL DEF Spec

-----------------------------------------------------------------------------
(* The rows tell the life of an operation, whoever races.                   *)

\* Decision d is one that the outcome and the answer of attempt a allow.
Allows(a, d) ==
  /\ d.action = "COMPLETE" <=> Life!Succeeded(a)
  /\ d.action = "RECONCILE" <=> Life!Unanswered(a)
  /\ d.action = "RETRY" => Life!Repeatable(a) /\ a.attempt < MaxAttempts

\* What a busy controller is going to write; only an external write is ever
\* reconciled, and to something else than a further reconciliation.
Considered(j) ==
  /\ j.kind = "attempt" => Allows(j.attempt, j.decision)
  /\ j.kind = "reading" => effect = "EXTERNAL_WRITE"
  /\ j.kind = "reconcile" => effect = "EXTERNAL_WRITE" /\ j.decision.action # "RECONCILE"

Considerate ==
  /\ status = "RECONCILE_REQUIRED" => effect = "EXTERNAL_WRITE"
  /\ \A c \in Controller : Considered(job[c])

\* The engine's decision is one the attempt allows, and so is what the breaker
\* makes of it.
LEMMA EngineAllows ==
  ASSUME effect \in EffectClass, NEW a \in Attempt, NEW k
  PROVE  Allows(a, BreakerLimited(DecisionAfter(effect, a), k))
<1> DEFINE d == DecisionAfter(effect, a)
<1> USE DEF Life!Succeeded, Life!Unanswered, Life!Repeatable, Allows, Decide
<1>1. /\ a.attempt \in Nat \ {0} /\ a.outcome \in Outcome /\ a.result \in Result \cup {NoResult}
      /\ MaxAttempts \in Nat
  BY BudgetAssumption DEF Attempt
<1>2. /\ RetryOrStop(a.attempt).action \in {"RETRY", "STOP"}
      /\ RetryOrStop(a.attempt).action = "RETRY" => a.attempt < MaxAttempts
  BY <1>1 DEF RetryOrStop
<1>3. Allows(a, d)
  <2>1. CASE a.outcome # "UNKNOWN"
    BY <1>1, <1>2, <2>1 DEF DecisionAfter, Outcome
  <2>2. CASE a.outcome = "UNKNOWN"
    <3>1. d = AfterUnknown(effect, a)
      BY <2>2 DEF DecisionAfter
    <3>2. CASE effect = "EXTERNAL_WRITE"
      <4>1. d = AfterReconciliation(a.attempt, a.result)
        BY <3>1, <3>2 DEF AfterUnknown
      <4>2. QED
        BY <1>1, <1>2, <2>2, <3>2, <4>1 DEF AfterReconciliation, Result, NoResult
    <3>3. CASE effect # "EXTERNAL_WRITE"
      BY <1>1, <1>2, <2>2, <3>1, <3>3 DEF AfterUnknown, EffectClass
    <3>4. QED
      BY <3>2, <3>3
  <2>3. QED
    BY <2>1, <2>2
<1>4. QED
  BY <1>3 DEF BreakerLimited

\* An answer completes the write, stops it or lets it be retried.
LEMMA AnswerIsFinal ==
  ASSUME NEW n \in Nat \ {0}, NEW r \in Result
  PROVE  AfterUnknown("EXTERNAL_WRITE", [attempt |-> n, result |-> r]).action # "RECONCILE"
BY DEF AfterUnknown, AfterReconciliation, RetryOrStop, Decide, Result, NoResult

\* A step that leaves the operation's row alone.
LEMMA ConsiderateJobStep ==
  ASSUME IInv, Considerate, NEW c \in Controller, NEW j, Considered(j),
         job' = [job EXCEPT ![c] = j], UNCHANGED <<effect, status>>
  PROVE  Considerate'
<1>1. ASSUME NEW d \in Controller PROVE Considered(job[d])'
  <2>1. job'[d] = IF d = c THEN j ELSE job[d]
    BY DEF IInv, TypeOK
  <2>2. Considered(job'[d])
    BY <2>1 DEF Considerate
  <2>3. QED
    BY <2>2 DEF Considered, Allows, Life!Succeeded, Life!Unanswered, Life!Repeatable
<1>2. QED
  BY <1>1 DEF Considerate

\* The steps that begin something, or end it without writing the row.
LEMMA ConsiderateOthers ==
  ASSUME IInv, Considerate, NEW c \in Controller,
         \/ \E n \in 1..MaxAttempts + 1 : Undertake(c, n)
         \/ \E outcome \in Outcome, result \in Result \cup {NoResult} :
              BeginAttempt(c, outcome, result)
         \/ AttemptRaises(c) \/ AttemptRejected(c) \/ Count(c) \/ BeginReconcile(c)
         \/ \E result \in Result : Reconsider(c, result)
         \/ NothingAmbiguous(c) \/ ReconcileRejected(c) \/ BeginProbe(c) \/ CommitProbe(c) \/ Crash(c)
  PROVE  Considerate' /\ UNCHANGED <<effect, status, attempts>>
<1> USE DEF deployment, journal
<1>1. CASE \E n \in 1..MaxAttempts + 1 : Undertake(c, n)
  BY <1>1, ConsiderateJobStep DEF Undertake, Considered
<1>2. ASSUME NEW outcome \in Outcome, NEW result \in Result \cup {NoResult},
             BeginAttempt(c, outcome, result)
      PROVE  Considerate' /\ UNCHANGED <<effect, status, attempts>>
  <2> DEFINE a == [attempt |-> job[c].attempt, outcome |-> outcome, result |-> result]
             next == NextCircuit(circuit, outcome)
             d == BreakerLimited(DecisionAfter(effect, a), next)
             j == [kind |-> "attempt", attempt |-> a, circuit |-> next, decision |-> d]
  <2>1. a \in Attempt
    <3>1. job[c] \in JobOf /\ job[c].kind = "acting"
      BY <1>2 DEF IInv, TypeOK, BeginAttempt
    <3>2. job[c].attempt \in Nat \ {0}
      BY <3>1 DEF JobOf, Idle
    <3>3. QED
      BY <1>2, <3>2 DEF Attempt, BeginAttempt
  <2>2. Allows(a, d)
    BY <2>1, EngineAllows DEF IInv, TypeOK
  <2>3. Considered(j)
    BY <2>2 DEF Considered
  <2>4. job' = [job EXCEPT ![c] = j] /\ UNCHANGED <<effect, status, attempts>>
    BY <1>2 DEF BeginAttempt
  <2>5. QED
    BY <2>3, <2>4, ConsiderateJobStep
<1>3. CASE AttemptRaises(c) \/ AttemptRejected(c) \/ NothingAmbiguous(c) \/ ReconcileRejected(c)
             \/ CommitProbe(c) \/ Crash(c)
  <2>1. Considered(Idle)
    BY DEF Considered, Idle
  <2>2. QED
    BY <1>3, <2>1, ConsiderateJobStep
       DEF AttemptRaises, AttemptRejected, NothingAmbiguous, ReconcileRejected, CommitProbe, Crash
<1>4. CASE Count(c)
  <2>1. PICK j : j \in {Idle, [job[c] EXCEPT !.left = Tail(@)]} /\ job' = [job EXCEPT ![c] = j]
                   /\ UNCHANGED <<effect, status, attempts>>
    BY <1>4 DEF Count
  <2>2. job[c] \in [kind : {"counting"}, left : {names \in Seq(Metric) : Len(names) >= 1}]
    BY <1>4 DEF Count, IInv, TypeOK, JobOf, Idle
  <2>3. Considered(j)
    BY <2>1, <2>2 DEF Considered, Idle
  <2>4. QED
    BY <2>1, <2>3, ConsiderateJobStep
<1>5. CASE BeginReconcile(c)
  <2>1. effect = "EXTERNAL_WRITE"
    BY <1>5 DEF BeginReconcile, Considerate
  <2>2. QED
    BY <1>5, <2>1, ConsiderateJobStep DEF BeginReconcile, Considered
<1>6. ASSUME NEW result \in Result, Reconsider(c, result)
      PROVE  Considerate' /\ UNCHANGED <<effect, status, attempts>>
  <2> DEFINE d == AfterUnknown(effect, [attempt |-> latest, result |-> result])
             j == [kind |-> "reconcile", attempt |-> latest, decision |-> d]
  <2>1. effect = "EXTERNAL_WRITE"
    BY <1>6 DEF Reconsider, Considerate, Considered
  <2>2. latest \in Nat \ {0}
    BY <1>6 DEF Reconsider, IInv, TypeOK, JobFits
  <2>3. d.action # "RECONCILE"
    BY <2>1, <2>2, AnswerIsFinal
  <2>4. Considered(j)
    BY <2>1, <2>3 DEF Considered
  <2>5. job' = [job EXCEPT ![c] = j] /\ UNCHANGED <<effect, status, attempts>>
    BY <1>6 DEF Reconsider
  <2>6. QED
    BY <2>4, <2>5, ConsiderateJobStep
<1>7. CASE BeginProbe(c)
  BY <1>7, ConsiderateJobStep DEF BeginProbe, Considered
<1>8. QED
  BY <1>1, <1>2, <1>3, <1>4, <1>5, <1>6, <1>7

\* The commit of an attempt is an attempt of the operation's life.
LEMMA CommitIsAttempt ==
  ASSUME IInv, Considerate, NEW c \in Controller, CommitAttempt(c)
  PROVE  Considerate' /\ Life!Attempt
<1> DEFINE j == job[c]
           entry == [outcome |-> j.attempt.outcome, result |-> j.attempt.result]
           counting == [kind |-> "counting", left |-> Counters(j.attempt.outcome)]
<1>1. j.kind = "attempt" /\ j \in JobOf /\ JobFits(j) /\ Considered(j)
  BY DEF CommitAttempt, IInv, TypeOK, Considerate
<1>2. j.attempt \in Attempt /\ j.decision \in Decision
  BY <1>1 DEF JobOf, Idle
<1>3. /\ status \notin Terminal /\ j.attempt.attempt = latest + 1 /\ latest + 1 <= MaxAttempts
      /\ attempts' = Append(attempts, entry) /\ status' = StatusFor(j.decision)
      /\ job' = [job EXCEPT ![c] = counting] /\ UNCHANGED effect
  BY <1>1 DEF CommitAttempt, AttemptFits, JobFits, deployment
<1>4. latest \in Nat /\ Len(attempts) = latest /\ attempts \in Seq(Entry) /\ MaxAttempts \in Nat
  BY BudgetAssumption DEF IInv, TypeOK, AttemptsAreSequential
<1>5. entry \in Life!Entry /\ entry \in Entry
  BY <1>2 DEF Attempt, Entry, Life!Entry, Outcome, Result, NoResult
<1>6. Allows(j.attempt, j.decision)
  BY <1>1 DEF Considered
<1>7. /\ Life!Succeeded(entry) <=> Life!Succeeded(j.attempt)
      /\ Life!Unanswered(entry) <=> Life!Unanswered(j.attempt)
      /\ Life!Repeatable(entry) <=> Life!Repeatable(j.attempt)
  BY DEF Life!Succeeded, Life!Unanswered, Life!Repeatable
<1>8. Len(attempts') = latest + 1
  BY <1>3, <1>4, <1>5
<1>9. /\ status' \in {"COMPLETED", "STOPPED", "RETRY_READY", "RECONCILE_REQUIRED"}
      /\ status' = "COMPLETED" <=> j.decision.action = "COMPLETE"
      /\ status' = "RECONCILE_REQUIRED" <=> j.decision.action = "RECONCILE"
      /\ status' = "RETRY_READY" <=> j.decision.action = "RETRY"
  BY <1>2, <1>3 DEF StatusFor, Decision
<1> HIDE DEF j, entry, counting
<1>10. Life!Attempt
  <2>1. /\ status' = "COMPLETED" <=> Life!Succeeded(entry)
        /\ status' = "RECONCILE_REQUIRED" <=> Life!Unanswered(entry)
        /\ status' = "RETRY_READY" => Life!Repeatable(entry) /\ Len(attempts') < MaxAttempts
    BY <1>3, <1>6, <1>7, <1>8, <1>9 DEF Allows
  <2>2. Len(attempts) < MaxAttempts
    BY <1>3, <1>4
  <2>3. QED
    BY <1>3, <1>5, <1>9, <2>1, <2>2 DEF Life!Attempt, Terminal
<1>11. status' = "RECONCILE_REQUIRED" => effect' = "EXTERNAL_WRITE"
  BY <1>3, <1>6, <1>9 DEF Allows, Life!Unanswered
<1>12. ASSUME NEW d \in Controller PROVE Considered(job[d])'
  <2>1. job'[d] = IF d = c THEN counting ELSE job[d]
    BY <1>3 DEF IInv, TypeOK
  <2>2. Considered(job'[d])
    BY <2>1 DEF Considerate, Considered, counting
  <2>3. QED
    BY <1>3, <2>2 DEF Considered, Allows, Life!Succeeded, Life!Unanswered, Life!Repeatable
<1>13. QED
  BY <1>10, <1>11, <1>12 DEF Considerate

\* The commit of a reconciliation, however old what it read, is one of its life.
LEMMA CommitIsReconciliation ==
  ASSUME IInv, Considerate, NEW c \in Controller, CommitReconcile(c)
  PROVE  Considerate' /\ Life!Reconcile
<1> DEFINE j == job[c]
           counting == [kind |-> "counting", left |-> <<"reconciliation_total">>]
<1>1. j.kind = "reconcile" /\ j \in JobOf /\ Considered(j)
  BY DEF CommitReconcile, IInv, TypeOK, Considerate
<1>2. /\ j.decision \in Decision /\ j.decision.action # "RECONCILE"
      /\ effect = "EXTERNAL_WRITE"
  BY <1>1 DEF JobOf, Idle, Considered
<1>3. /\ status = "RECONCILE_REQUIRED" /\ status' = StatusFor(j.decision)
      /\ job' = [job EXCEPT ![c] = counting] /\ UNCHANGED <<effect, attempts>>
  BY DEF CommitReconcile, deployment
<1>4. status' \in {"COMPLETED", "STOPPED", "RETRY_READY"}
  BY <1>2, <1>3 DEF StatusFor, Decision
<1>5. Life!Reconcile
  BY <1>2, <1>3, <1>4 DEF Life!Reconcile
<1>6. ASSUME NEW d \in Controller PROVE Considered(job[d])'
  <2>1. job'[d] = IF d = c THEN counting ELSE job[d]
    BY <1>3 DEF IInv, TypeOK
  <2>2. Considered(job'[d])
    BY <2>1 DEF Considerate, Considered
  <2>3. QED
    BY <1>3, <2>2 DEF Considered, Allows, Life!Succeeded, Life!Unanswered, Life!Repeatable
<1>7. QED
  BY <1>4, <1>5, <1>6 DEF Considerate

\* Whoever reads only the operation's row and its attempts sees one life of it:
\* attempts within the budget, each status one the latest attempt allows, and
\* nothing after completion or stop. Any number of controllers may race between
\* reading and writing, and crash.
THEOREM JournalTellsALife == Spec => LifeSpec
<1>1. Init => Life!Init /\ Considerate
  BY DEF Init, Life!Init, EffectClass, Considerate, Considered, Idle
<1>2. IInv /\ Considerate /\ [Next]_vars => Considerate' /\ [Life!Next]_(Life!life)
  <2> SUFFICES ASSUME IInv, Considerate, [Next]_vars
               PROVE  Considerate' /\ [Life!Next]_(Life!life)
    OBVIOUS
  <2>1. CASE UNCHANGED vars
    BY <2>1 DEF vars, deployment, journal, Considerate, Considered, Allows, Life!Succeeded,
       Life!Unanswered, Life!Repeatable, Life!life
  <2>2. ASSUME NEW c \in Controller, Drive(c) \/ BeginProbe(c) \/ Crash(c)
        PROVE  Considerate' /\ [Life!Next]_(Life!life)
    <3>1. CASE CommitAttempt(c)
      BY <3>1, CommitIsAttempt DEF Life!Next
    <3>2. CASE CommitReconcile(c)
      BY <3>2, CommitIsReconciliation DEF Life!Next
    <3>3. CASE ~CommitAttempt(c) /\ ~CommitReconcile(c)
      BY <2>2, <3>3, ConsiderateOthers DEF Drive, Life!life
    <3>4. QED
      BY <3>1, <3>2, <3>3
  <2>3. QED
    BY <2>1, <2>2 DEF Next
<1>3. QED
  BY <1>1, <1>2, Inductive, PTL DEF Spec, LifeSpec, Life!Spec
=============================================================================
