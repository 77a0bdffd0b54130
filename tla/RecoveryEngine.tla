--------------------------- MODULE RecoveryEngine ---------------------------
(***************************************************************************)
(* The pure decisions of the reliability component: what to do after an    *)
(* attempt, and what the circuit breaker becomes (reliability/engine.py,   *)
(* reliability/contracts.py).  Reasons and error codes are left out.       *)
(***************************************************************************)
EXTENDS Integers

CONSTANTS
  MaxAttempts,   (* OperationSpec.max_attempts               *)
  Threshold      (* CircuitBreakerState.failure_threshold    *)

ASSUME BudgetAssumption == MaxAttempts \in Nat \ {0} /\ Threshold \in Nat \ {0}

EffectClass == { "READ_ONLY", "LOCAL_WRITE", "EXTERNAL_WRITE" }
Outcome     == { "SUCCESS", "RETRYABLE_FAILURE", "TERMINAL_FAILURE", "UNKNOWN" }
Result      == { "APPLIED", "NOT_APPLIED", "UNKNOWN" }
NoResult    == "NONE"

\* AttemptRecord.validate: only an UNKNOWN outcome carries a reconciliation result.
Attempt ==
  { a \in [ attempt : Nat \ {0}, outcome : Outcome, result : Result \cup {NoResult} ] :
      a.outcome # "UNKNOWN" => a.result = NoResult }

\* RecoveryDecision: only RETRY names a next attempt, and never the first one.
Decision ==
  { d \in [ action : {"COMPLETE", "RETRY", "RECONCILE", "STOP"}, next : Nat ] :
      IF d.action = "RETRY" THEN d.next >= 2 ELSE d.next = 0 }

\* CircuitBreakerState.validate
Circuit ==
  { c \in [ state : {"CLOSED", "OPEN", "HALF_OPEN"}, failures : Nat ] :
      c.state = "OPEN" => c.failures >= Threshold }

ClosedCircuit == [state |-> "CLOSED", failures |-> 0]

Decide(action) == [action |-> action, next |-> 0]

\* A mutant: the budget allows one attempt too many.
RetryOnceMore(attempt) ==
  IF attempt > MaxAttempts THEN Decide("STOP")
  ELSE [action |-> "RETRY", next |-> attempt + 1]

RetryOrStop(attempt) ==
  IF attempt >= MaxAttempts THEN Decide("STOP")
  ELSE [action |-> "RETRY", next |-> attempt + 1]

\* A mutant: no answer is taken for a failure.
NoAnswerIsFailure(attempt, result) ==
  CASE result \in {NoResult, "NOT_APPLIED"} -> RetryOrStop(attempt)
    [] result = "APPLIED"                   -> Decide("COMPLETE")
    [] result = "UNKNOWN"                   -> Decide("STOP")

\* An ambiguous external write is reconciled; the answer decides.
AfterReconciliation(attempt, result) ==
  CASE result = NoResult      -> Decide("RECONCILE")
    [] result = "APPLIED"     -> Decide("COMPLETE")
    [] result = "NOT_APPLIED" -> RetryOrStop(attempt)
    [] result = "UNKNOWN"     -> Decide("STOP")

AfterUnknown(effect, a) ==
  CASE effect = "EXTERNAL_WRITE" -> AfterReconciliation(a.attempt, a.result)
    [] effect = "READ_ONLY"      -> RetryOrStop(a.attempt)
    [] effect = "LOCAL_WRITE"    -> Decide("STOP")

\* decide, for an attempt within the budget under a circuit that is not OPEN
\* (both are checked by the caller's guards).
DecisionAfter(effect, a) ==
  CASE a.outcome = "SUCCESS"           -> Decide("COMPLETE")
    [] a.outcome = "TERMINAL_FAILURE"  -> Decide("STOP")
    [] a.outcome = "RETRYABLE_FAILURE" -> RetryOrStop(a.attempt)
    [] a.outcome = "UNKNOWN"           -> AfterUnknown(effect, a)

\* A mutant: the breaker opens one failure before the threshold.
OpensEarly(circuit, outcome) ==
  LET failures == circuit.failures + 1 IN
  IF outcome = "SUCCESS" THEN ClosedCircuit
  ELSE [ state |-> IF failures + 1 >= Threshold THEN "OPEN" ELSE "CLOSED",
         failures |-> failures ]

\* A mutant: an unknown outcome is not counted as a failure.
UnknownIsNoFailure(circuit, outcome) ==
  LET failures == circuit.failures + 1 IN
  IF outcome \in {"SUCCESS", "UNKNOWN"} THEN ClosedCircuit
  ELSE [ state |-> IF failures >= Threshold THEN "OPEN" ELSE "CLOSED",
         failures |-> failures ]

NextCircuit(circuit, outcome) ==
  LET failures == circuit.failures + 1 IN
  IF outcome = "SUCCESS" THEN ClosedCircuit
  ELSE [ state |-> IF failures >= Threshold THEN "OPEN" ELSE "CLOSED",
         failures |-> failures ]

\* record_attempt: a retry that the breaker has just forbidden becomes a stop.
BreakerLimited(decision, circuit) ==
  IF circuit.state = "OPEN" /\ decision.action = "RETRY" THEN Decide("STOP") ELSE decision

StatusFor(decision) ==
  CASE decision.action = "COMPLETE"  -> "COMPLETED"
    [] decision.action = "RETRY"     -> "RETRY_READY"
    [] decision.action = "RECONCILE" -> "RECONCILE_REQUIRED"
    [] decision.action = "STOP"      -> "STOPPED"
=============================================================================
