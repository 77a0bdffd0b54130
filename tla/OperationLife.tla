----------------------------- MODULE OperationLife ----------------------------
(***************************************************************************)
(* What the reliability journal promises of an operation to whoever reads   *)
(* its row: the attempts are recorded one by one within the budget, the     *)
(* status tells what the latest of them allows, and what is completed or    *)
(* stopped stays so.  There are no controllers, no breaker and no crash     *)
(* here, and no gap between reading and writing.                            *)
(***************************************************************************)
EXTENDS Naturals, Sequences

CONSTANTS MaxAttempts

VARIABLES
  effect,          \* the operation's effect class, fixed
  status,          \* of the operation
  attempts         \* outcome and reconciliation result of each attempt

life == <<effect, status, attempts>>

Init ==
  /\ effect \in {"READ_ONLY", "LOCAL_WRITE", "EXTERNAL_WRITE"}
  /\ status = "READY" /\ attempts = <<>>

Entry == [outcome : {"SUCCESS", "RETRYABLE_FAILURE", "TERMINAL_FAILURE", "UNKNOWN"},
          result : {"APPLIED", "NOT_APPLIED", "UNKNOWN", "NONE"}]

\* an ambiguous write succeeded if somebody found it applied
Succeeded(e) ==
  e.outcome = "SUCCESS" \/ (effect = "EXTERNAL_WRITE" /\ e.outcome = "UNKNOWN" /\ e.result = "APPLIED")

\* a write may be carried out again only if it is known not to be applied
Repeatable(e) ==
  \/ e.outcome = "RETRYABLE_FAILURE" \/ (e.outcome = "UNKNOWN" /\ effect = "READ_ONLY")
  \/ effect = "EXTERNAL_WRITE" /\ e.outcome = "UNKNOWN" /\ e.result = "NOT_APPLIED"

Unanswered(e) == effect = "EXTERNAL_WRITE" /\ e.outcome = "UNKNOWN" /\ e.result = "NONE"

Attempt ==
  /\ status \notin {"COMPLETED", "STOPPED"} /\ Len(attempts) < MaxAttempts
  /\ \E e \in Entry :
       /\ attempts' = Append(attempts, e)
       /\ status' \in {"COMPLETED", "STOPPED", "RETRY_READY", "RECONCILE_REQUIRED"}
       /\ status' = "COMPLETED" <=> Succeeded(e)
       /\ status' = "RECONCILE_REQUIRED" <=> Unanswered(e)
       /\ status' = "RETRY_READY" => Repeatable(e) /\ Len(attempts') < MaxAttempts
  /\ UNCHANGED effect

\* an answer is found for an external write
Reconcile ==
  /\ status = "RECONCILE_REQUIRED" /\ effect = "EXTERNAL_WRITE"
  /\ status' \in {"COMPLETED", "STOPPED", "RETRY_READY"}
  /\ UNCHANGED <<effect, attempts>>

Next == Attempt \/ Reconcile

Spec == Init /\ [][Next]_life
=============================================================================
