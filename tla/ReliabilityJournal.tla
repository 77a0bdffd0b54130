------------------------- MODULE ReliabilityJournal -------------------------
(***************************************************************************)
(* One operation in the durable reliability journal and the controllers    *)
(* that serve it (reliability/store.py, reliability/controller.py).        *)
(*                                                                         *)
(* Every controller method reads the store in transactions of their own,   *)
(* decides, and writes in one more transaction that re-checks part of what *)
(* was read: that gap is modelled, so each method is a begin step and a    *)
(* commit step.  Rows are keyed by operation, so one operation suffices.   *)
(*                                                                         *)
(* The callers of the controllers are outside the repository.  An obedient *)
(* crew carries out an attempt only when resume_action says so, with the   *)
(* number it names; any other crew records whatever attempt it likes.      *)
(***************************************************************************)
EXTENDS RecoveryEngine, Sequences, FiniteSets

CONSTANTS
  Controller,   (* the controllers deployed on one database               *)
  Obedience,    (* subset of BOOLEAN: do the callers follow resume_action *)
  MaxCrashes    (* bound on crashes in a behaviour                        *)

ASSUME ObedienceAssumption == Obedience \subseteq BOOLEAN

VARIABLES
  obedient,          (* do the callers follow resume_action: fixed             *)
  effect,            (* OperationSpec.effect_class, fixed by register          *)
  status, latest,    (* the row of the operation                               *)
  decision,          (* the latest DECISION event, <<>> before the first       *)
  attempts,          (* the ATTEMPT events: [outcome, result] in order         *)
  circuit,           (* the row of the circuit                                 *)
  settled,           (* history: attempts that were reconciled                 *)
  metrics,           (* durable counters, written after the commits            *)
  job,               (* per controller: what it is in the middle of            *)
  crashes

journal == <<status, latest, decision, attempts, circuit, settled>>
deployment == <<obedient, effect>>
vars == <<deployment, journal, metrics, job, crashes>>

Idle == [kind |-> "idle"]
Terminal == {"COMPLETED", "STOPPED"}
Metric == {"attempt_total", "attempt_failure_total", "reconciliation_total"}

\* register: the operation row and its closed circuit, in one transaction.
Init ==
  /\ obedient \in Obedience /\ effect \in EffectClass
  /\ status = "READY" /\ latest = 0 /\ decision = <<>> /\ attempts = <<>>
  /\ circuit = ClosedCircuit /\ settled = {}
  /\ metrics = [m \in Metric |-> 0]
  /\ job = [c \in Controller |-> Idle]
  /\ crashes = 0

\* resume_action: the attempt it tells the caller to carry out next, if any.
ResumedAttempts ==
  IF status = "READY" THEN {1}
  ELSE IF decision[1].action = "RETRY" THEN {decision[1].next} ELSE {}

\* The caller carries out attempt n; it has not told the controller yet.
Undertake(c, n) ==
  /\ job[c] = Idle
  /\ obedient => n \in ResumedAttempts
  /\ ~obedient => n <= latest + 2
  /\ job' = [job EXCEPT ![c] = [kind |-> "acting", attempt |-> n]]
  /\ UNCHANGED <<deployment, journal, metrics, crashes>>

-----------------------------------------------------------------------------
(* record_attempt: load_circuit, decide; then append_attempt_and_decision. *)

BeginAttempt(c, outcome, result) ==
  LET a == [attempt |-> job[c].attempt, outcome |-> outcome, result |-> result]
      next == NextCircuit(circuit, outcome)
  IN /\ job[c].kind = "acting"
     /\ outcome # "UNKNOWN" => result = NoResult
     /\ circuit.state # "OPEN"
     /\ a.attempt <= MaxAttempts
     /\ job' = [job EXCEPT ![c] =
                  [ kind |-> "attempt", attempt |-> a, circuit |-> next,
                    decision |-> BreakerLimited(DecisionAfter(effect, a), next) ]]
     /\ UNCHANGED <<deployment, journal, metrics, crashes>>

\* The circuit is OPEN, or the engine finds the attempt beyond the budget: the
\* call raises before anything is written.
AttemptRaises(c) ==
  /\ job[c].kind = "acting"
  /\ circuit.state = "OPEN" \/ job[c].attempt > MaxAttempts
  /\ job' = [job EXCEPT ![c] = Idle]
  /\ UNCHANGED <<deployment, journal, metrics, crashes>>

\* Mutants: an attempt beyond the next one, an attempt recorded twice, a status
\* that is not checked.
AttemptMayRepeat(a) == status \notin Terminal /\ a.attempt <= latest + 1
AttemptIsNext(a) == a.attempt = latest + 1

\* The checks inside the transaction.
AttemptFits(a) == status \notin Terminal /\ a.attempt = latest + 1

Answered(a) == a.outcome # "UNKNOWN" \/ a.result # NoResult

\* The metrics that follow the commit; a mutant misses the unknown outcomes.
CountersOfDefinite(outcome) ==
  IF outcome \in {"SUCCESS", "UNKNOWN"} THEN <<"attempt_total">>
  ELSE <<"attempt_total", "attempt_failure_total">>
Counters(outcome) ==
  IF outcome = "SUCCESS" THEN <<"attempt_total">>
  ELSE <<"attempt_total", "attempt_failure_total">>

CommitAttempt(c) ==
  LET j == job[c] IN
  /\ j.kind = "attempt"
  /\ AttemptFits(j.attempt)
  /\ attempts' = Append(attempts, [outcome |-> j.attempt.outcome, result |-> j.attempt.result])
  /\ decision' = <<j.decision>>
  /\ circuit' = j.circuit
  /\ status' = StatusFor(j.decision)
  /\ latest' = j.attempt.attempt
  /\ settled' = IF Answered(j.attempt) THEN settled \cup {latest'} ELSE settled
  /\ job' = [job EXCEPT ![c] = [kind |-> "counting", left |-> Counters(j.attempt.outcome)]]
  /\ UNCHANGED <<deployment, metrics, crashes>>

AttemptRejected(c) ==
  /\ job[c].kind = "attempt"
  /\ ~AttemptFits(job[c].attempt)
  /\ job' = [job EXCEPT ![c] = Idle]
  /\ UNCHANGED <<deployment, journal, metrics, crashes>>

\* append_metric: every counter is a transaction of its own.
Count(c) ==
  LET j == job[c] IN
  /\ j.kind = "counting"
  /\ metrics' = [metrics EXCEPT ![Head(j.left)] = @ + 1]
  /\ job' = [job EXCEPT ![c] =
       IF Len(j.left) = 1 THEN Idle ELSE [j EXCEPT !.left = Tail(@)]]
  /\ UNCHANGED <<deployment, journal, crashes>>

-----------------------------------------------------------------------------
(* reconcile: the status is read, then the latest attempt, and the caller's *)
(* result is turned into a decision without looking at the circuit; then   *)
(* append_reconciliation_and_decision checks the status once more.         *)

BeginReconcile(c) ==
  /\ job[c] = Idle
  /\ status = "RECONCILE_REQUIRED"
  /\ job' = [job EXCEPT ![c] = [kind |-> "reading"]]
  /\ UNCHANGED <<deployment, journal, metrics, crashes>>

Reconsider(c, result) ==
  /\ job[c].kind = "reading"
  /\ attempts[latest].outcome = "UNKNOWN"
  /\ job' = [job EXCEPT ![c] =
       [ kind |-> "reconcile", attempt |-> latest,
         decision |-> AfterUnknown(effect, [attempt |-> latest, result |-> result]) ]]
  /\ UNCHANGED <<deployment, journal, metrics, crashes>>

\* Another controller has recorded a definite outcome since.
NothingAmbiguous(c) ==
  /\ job[c].kind = "reading"
  /\ attempts[latest].outcome # "UNKNOWN"
  /\ job' = [job EXCEPT ![c] = Idle]
  /\ UNCHANGED <<deployment, journal, metrics, crashes>>

CommitReconcile(c) ==
  LET j == job[c] IN
  /\ j.kind = "reconcile"
  /\ status = "RECONCILE_REQUIRED"
  /\ decision' = <<j.decision>>
  /\ status' = StatusFor(j.decision)
  /\ settled' = settled \cup {j.attempt}
  /\ job' = [job EXCEPT ![c] = [kind |-> "counting", left |-> <<"reconciliation_total">>]]
  /\ UNCHANGED <<deployment, latest, attempts, circuit, metrics, crashes>>

ReconcileRejected(c) ==
  /\ job[c].kind = "reconcile"
  /\ status # "RECONCILE_REQUIRED"
  /\ job' = [job EXCEPT ![c] = Idle]
  /\ UNCHANGED <<deployment, journal, metrics, crashes>>

-----------------------------------------------------------------------------
(* open_probe: load_circuit, half_open; then save_circuit overwrites the   *)
(* row whatever it holds by now.                                           *)

BeginProbe(c) ==
  /\ job[c] = Idle
  /\ circuit.state = "OPEN"
  /\ job' = [job EXCEPT ![c] =
       [kind |-> "probe", circuit |-> [circuit EXCEPT !.state = "HALF_OPEN"]]]
  /\ UNCHANGED <<deployment, journal, metrics, crashes>>

CommitProbe(c) ==
  /\ job[c].kind = "probe"
  /\ circuit' = job[c].circuit
  /\ job' = [job EXCEPT ![c] = Idle]
  /\ UNCHANGED <<deployment, status, latest, decision, attempts, settled, metrics, crashes>>

\* A controller process dies; whoever takes over starts from the journal.
Crash(c) ==
  /\ crashes < MaxCrashes /\ job[c] # Idle
  /\ crashes' = crashes + 1
  /\ job' = [job EXCEPT ![c] = Idle]
  /\ UNCHANGED <<deployment, journal, metrics>>

-----------------------------------------------------------------------------
\* What a controller and its caller do by themselves; opening a probe is an
\* operator's explicit step.
Drive(c) ==
  \/ \E n \in 1..MaxAttempts + 1 : Undertake(c, n)
  \/ \E outcome \in Outcome, result \in Result \cup {NoResult} : BeginAttempt(c, outcome, result)
  \/ AttemptRaises(c)
  \/ CommitAttempt(c)
  \/ AttemptRejected(c)
  \/ Count(c)
  \/ BeginReconcile(c)
  \/ \E result \in Result : Reconsider(c, result)
  \/ NothingAmbiguous(c)
  \/ CommitReconcile(c)
  \/ ReconcileRejected(c)
  \/ CommitProbe(c)

Next == \E c \in Controller : Drive(c) \/ BeginProbe(c) \/ Crash(c)

Spec == Init /\ [][Next]_vars /\ \A c \in Controller : WF_vars(Drive(c))

-----------------------------------------------------------------------------
Entry == { e \in [ outcome : Outcome, result : Result \cup {NoResult} ] :
             e.outcome # "UNKNOWN" => e.result = NoResult }

JobOf == {Idle}
  \cup [ kind : {"acting"}, attempt : 1..MaxAttempts + 1 ]
  \cup [ kind : {"attempt"}, attempt : Attempt, circuit : Circuit, decision : Decision ]
  \cup [ kind : {"reading"} ]
  \cup [ kind : {"reconcile"}, attempt : Nat \ {0}, decision : Decision ]
  \cup [ kind : {"probe"}, circuit : Circuit ]
  \cup [ kind : {"counting"}, left : {names \in Seq(Metric) : Len(names) >= 1} ]

TypeOK ==
  /\ obedient \in BOOLEAN /\ effect \in EffectClass
  /\ status \in {"READY", "RETRY_READY", "RECONCILE_REQUIRED"} \cup Terminal
  /\ latest \in Nat
  /\ decision \in Seq(Decision)
  /\ attempts \in Seq(Entry)
  /\ circuit \in Circuit
  /\ settled \subseteq 1..latest
  /\ metrics \in [Metric -> Nat]
  /\ job \in [Controller -> JobOf]
  /\ crashes \in Nat

\* The journal numbers attempts 1, 2, ... without a gap and never past the
\* budget, however many controllers race with whatever attempt numbers.
AttemptsAreSequential == latest = Len(attempts) /\ latest <= MaxAttempts

\* A completed or stopped operation keeps its outcome: no late attempt, no
\* late reconciliation gets in, from anybody.
TerminalIsFinal ==
  [][(status \in Terminal) => UNCHANGED <<status, latest, decision, attempts>>]_vars

\* An external write whose outcome is unknown is not attempted again before
\* that attempt was reconciled.
NoBlindRetry ==
  effect = "EXTERNAL_WRITE" =>
    \A i \in 1..latest - 1 : attempts[i].outcome = "UNKNOWN" => i \in settled

\* While the latest attempt is ambiguous and nobody has reconciled it, the
\* operation waits for a reconciliation, and a retry names the attempt the
\* journal will accept.
JournalAwaitsTheTruth ==
  /\ effect = "EXTERNAL_WRITE" /\ latest > 0 /\ latest \notin settled
       => status = "RECONCILE_REQUIRED"
  /\ status = "RETRY_READY" => decision[1].next = latest + 1

\* The number of failures since the last success.
TrailingFailures ==
  CHOOSE n \in 0..Len(attempts) :
    /\ \A i \in Len(attempts) - n + 1 .. Len(attempts) : attempts[i].outcome # "SUCCESS"
    /\ n < Len(attempts) => attempts[Len(attempts) - n].outcome = "SUCCESS"

\* The breaker counts what the journal shows, and is CLOSED exactly below the
\* threshold.
CircuitFollowsJournal ==
  /\ circuit.failures = TrailingFailures
  /\ circuit.state = "CLOSED" <=> circuit.failures < Threshold

\* No attempt is recorded under a breaker that is OPEN by then.
OpenRejectsAttempts == [][(latest' # latest) => circuit.state # "OPEN"]_vars

\* The counters never run ahead of the journal, and agree with it whenever no
\* controller has died and none is busy.
MetricsFollowJournal ==
  LET failures == Cardinality({i \in 1..latest : attempts[i].outcome # "SUCCESS"}) IN
  /\ metrics["attempt_total"] <= latest
  /\ metrics["attempt_failure_total"] <= failures
  /\ (crashes = 0 /\ \A c \in Controller : job[c] = Idle) =>
       metrics["attempt_total"] = latest /\ metrics["attempt_failure_total"] = failures

\* The finite retry budget ends every operation that is driven by callers who
\* obey: it is completed or stopped, or an OPEN breaker waits for a probe.
Settles == obedient => <>[](status \in Terminal \/ circuit.state = "OPEN")

\* With callers who obey, NoBlindRetry and OpenRejectsAttempts hold however many
\* controllers race and crash.
ObedientNoBlindRetry == obedient => NoBlindRetry
ObedientOpenRejectsAttempts ==
  [][(obedient /\ latest' # latest) => circuit.state # "OPEN"]_vars

\* The reader's view of the operation's row: whatever controllers race and die
\* between deciding and writing, a status follows from the attempt it was written
\* with or from a reconciliation, and is given up for nothing else (store.py,
\* append_attempt_and_decision, append_reconciliation_and_decision).  Attempts are
\* recorded one by one within the budget, and what ended stays as it ended.
Life == INSTANCE OperationLife
LifeSpec == Life!Spec

-----------------------------------------------------------------------------
(* The inductive strengthening of the safety properties above.             *)

\* READY is the state before the first attempt; afterwards there is a decision.
DecidedOnceStarted == IF status = "READY" THEN latest = 0
                                         ELSE latest >= 1 /\ Len(decision) = 1

\* Attempt n would be no blind retry.
Backed(n) ==
  n >= 2 => /\ n - 1 <= latest
            /\ attempts[n - 1].outcome = "UNKNOWN" => n - 1 \in settled

\* A retry that is decided on follows an attempt in the journal, and is backed.
DecisionFits ==
  \A i \in 1..Len(decision) : decision[i].action = "RETRY" =>
    /\ decision[i].next <= latest + 1
    /\ effect = "EXTERNAL_WRITE" => Backed(decision[i].next)

\* The attempt number a busy controller is about to record.
HoldsAttempt(j) == j.kind \in {"acting", "attempt"}
NumberOf(j) == IF j.kind = "acting" THEN j.attempt ELSE j.attempt.attempt

RetryFollows(d, n) == d.action = "RETRY" => d.next = n + 1

\* What a controller is in the middle of is within the budget and would leave a
\* fitting decision; obedient callers never run ahead of the journal, and an
\* attempt that still fits it was begun under the breaker of the moment.
JobFits(j) ==
  /\ j.kind = "attempt" =>
       /\ j.attempt.attempt <= MaxAttempts
       /\ RetryFollows(j.decision, j.attempt.attempt)
       /\ effect = "EXTERNAL_WRITE" /\ j.decision.action = "RETRY" => Answered(j.attempt)
  /\ j.kind = "reading" => latest >= 1
  /\ j.kind = "reconcile" => j.attempt <= latest /\ RetryFollows(j.decision, j.attempt)
  /\ j.kind = "probe" => j.circuit.state = "HALF_OPEN"
  /\ obedient /\ HoldsAttempt(j) =>
       /\ NumberOf(j) <= latest + 1
       /\ effect = "EXTERNAL_WRITE" => Backed(NumberOf(j))
       /\ j.kind = "attempt" /\ NumberOf(j) = latest + 1 => circuit.state # "OPEN"

IInv ==
  /\ TypeOK
  /\ AttemptsAreSequential
  /\ DecidedOnceStarted
  /\ DecisionFits
  /\ ObedientNoBlindRetry
  /\ \A c \in Controller : JobFits(job[c])
=============================================================================
