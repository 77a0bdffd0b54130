----------------------- MODULE IncidentResponseProofs -----------------------
(***************************************************************************)
(* Theorems about one incident, for any number of responders, evidence,    *)
(* actions, proposals and missions, and a log of any length.               *)
(***************************************************************************)
EXTENDS IncidentResponse, SequenceTheorems, TLAPS

\* What appending an event does to the log: one event more, the others kept.
LEMMA LogGrows ==
  ASSUME log \in Seq(Event), NEW type, NEW about, AppendEvent(type, about),
         [type |-> type, about |-> about] \in Event
  PROVE  /\ log' \in Seq(Event)
         /\ Len(log) \in Nat
         /\ DOMAIN log = 1 .. Len(log) /\ DOMAIN log' = 1 .. Len(log) + 1
         /\ \A i \in DOMAIN log : log'[i] = log[i]
         /\ log'[Len(log) + 1] = [type |-> type, about |-> about]
<1>1. log' = Append(log, [type |-> type, about |-> about])
  BY DEF AppendEvent
<1>2. QED
  BY <1>1, AppendProperties, LenProperties

\* A verification that was earned stays earned.
LEMMA EarnedStaysEarned ==
  ASSUME DOMAIN log = 1 .. Len(log), Len(log) \in Nat,
         \A i \in DOMAIN log : log'[i] = log[i],
         NEW k \in DOMAIN log, EarnedVerification(k)
  PROVE  EarnedVerification(k)'
<1>1. PICK j \in 1 .. k - 1 : log[j] = [type |-> "EVIDENCE", about |-> log[k].about]
  BY DEF EarnedVerification
<1>2. PICK h \in 1 .. k - 1 : log[h] = [type |-> "STATUS", about |-> "RECOVERING"]
  BY DEF EarnedVerification
<1>3. j \in DOMAIN log /\ h \in DOMAIN log
  OBVIOUS
<1>4. log'[k] = log[k] /\ log'[j] = log[j] /\ log'[h] = log[h]
  BY <1>3
<1>5. QED
  BY <1>1, <1>2, <1>4 DEF EarnedVerification

\* Closed incidents stay well explained by a log that grows by an event that
\* closes nothing.
LEMMA ClosureStaysEarned ==
  ASSUME DOMAIN log = 1 .. Len(log), Len(log) \in Nat,
         DOMAIN log' = 1 .. Len(log) + 1,
         \A i \in DOMAIN log : log'[i] = log[i],
         ClosureIsEarned,
         log'[Len(log) + 1] = [type |-> "STATUS", about |-> "CLOSED"]
           => \E k \in DOMAIN log : EarnedVerification(k)
  PROVE  ClosureIsEarned'
<1> SUFFICES ASSUME NEW i \in DOMAIN log',
                    log'[i] = [type |-> "STATUS", about |-> "CLOSED"]
             PROVE  \E k \in 1 .. i - 1 : EarnedVerification(k)'
  BY DEF ClosureIsEarned
<1>1. PICK k \in DOMAIN log : k \in 1 .. i - 1 /\ EarnedVerification(k)
  <2>1. CASE i \in DOMAIN log
    <3>1. PICK k \in 1 .. i - 1 : EarnedVerification(k)
      BY <2>1 DEF ClosureIsEarned
    <3>2. QED
      BY <2>1, <3>1
  <2>2. CASE i = Len(log) + 1
    BY <2>2
  <2>3. QED
    BY <2>1, <2>2
<1>2. EarnedVerification(k)'
  BY <1>1, EarnedStaysEarned
<1>3. QED
  BY <1>1, <1>2

\* Rows that stay as they are stay announced in a log that grows.
LEMMA RowsStayLogged ==
  ASSUME DOMAIN log = 1 .. Len(log), Len(log) \in Nat,
         DOMAIN log' = 1 .. Len(log) + 1,
         \A i \in DOMAIN log : log'[i] = log[i],
         RowsAreLogged
  PROVE  /\ \A e \in evidence : \E i \in DOMAIN log' : log'[i] = [type |-> "EVIDENCE", about |-> e]
         /\ \A a \in ActionId : actions[a].status # "ABSENT" =>
              \E i \in DOMAIN log' : log'[i].type = "PLANNED" /\ log'[i].about = a
         /\ status \in {"RECOVERING", "MONITORING"} =>
              \E i \in DOMAIN log' : log'[i] = [type |-> "STATUS", about |-> "RECOVERING"]
         /\ verified => \E i \in DOMAIN log' : EarnedVerification(i)'
<1>1. DOMAIN log \subseteq DOMAIN log'
  OBVIOUS
<1>2. \A e \in evidence : \E i \in DOMAIN log' : log'[i] = [type |-> "EVIDENCE", about |-> e]
  BY <1>1 DEF RowsAreLogged
<1>3. \A a \in ActionId : actions[a].status # "ABSENT" =>
        \E i \in DOMAIN log' : log'[i].type = "PLANNED" /\ log'[i].about = a
  BY <1>1 DEF RowsAreLogged
<1>4. status \in {"RECOVERING", "MONITORING"} =>
        \E i \in DOMAIN log' : log'[i] = [type |-> "STATUS", about |-> "RECOVERING"]
  BY <1>1 DEF RowsAreLogged
<1>5. ASSUME verified PROVE \E i \in DOMAIN log' : EarnedVerification(i)'
  <2>1. PICK k \in DOMAIN log : EarnedVerification(k)
    BY <1>5 DEF RowsAreLogged
  <2>2. EarnedVerification(k)'
    BY <2>1, EarnedStaysEarned
  <2>3. QED
    BY <1>1, <2>2
<1>6. QED
  BY <1>2, <1>3, <1>4, <1>5

\* An event that executes nothing leaves every action as often executed as it was.
LEMMA NoExecutionAdded ==
  ASSUME DOMAIN log = 1 .. Len(log), Len(log) \in Nat,
         DOMAIN log' = 1 .. Len(log) + 1,
         \A i \in DOMAIN log : log'[i] = log[i],
         ActionsRunOnce, log \in Seq(Event),
         \A a \in ActionId : actions[a].status = "EXECUTED" => actions'[a].status = "EXECUTED",
         log'[Len(log) + 1].type # "EXECUTED"
  PROVE  ActionsRunOnce'
<1> SUFFICES ASSUME NEW i \in DOMAIN log', log'[i].type = "EXECUTED"
             PROVE  /\ actions'[log'[i].about].status = "EXECUTED"
                    /\ \A j \in DOMAIN log' :
                         log'[j].type = "EXECUTED" /\ log'[j].about = log'[i].about => i = j
                    /\ \E k \in 1 .. i - 1 :
                         log'[k].type = "PLANNED" /\ log'[k].about = log'[i].about
  BY DEF ActionsRunOnce, Executed
<1>1. i \in DOMAIN log /\ log'[i] = log[i] /\ log[i].type = "EXECUTED"
  OBVIOUS
<1>2. log[i] \in Event
  BY <1>1, ElementOfSeq
<1>3. log[i].about \in ActionId
  BY <1>1, <1>2 DEF Event
<1>4. actions'[log'[i].about].status = "EXECUTED"
  BY <1>1, <1>3 DEF ActionsRunOnce, Executed
<1>5. \A j \in DOMAIN log' :
        log'[j].type = "EXECUTED" /\ log'[j].about = log'[i].about => i = j
  BY <1>1 DEF ActionsRunOnce
<1>6. \E k \in 1 .. i - 1 : log'[k].type = "PLANNED" /\ log'[k].about = log'[i].about
  <2>1. PICK k \in 1 .. i - 1 : log[k].type = "PLANNED" /\ log[k].about = log[i].about
    BY <1>1 DEF ActionsRunOnce
  <2>2. k \in DOMAIN log
    BY <1>1
  <2>3. QED
    BY <1>1, <2>1, <2>2
<1>7. QED
  BY <1>4, <1>5, <1>6

-----------------------------------------------------------------------------
(* The invariant *)

\* With the lock free nobody is executing anything.
LEMMA FreeLockHasNoHolder ==
  ASSUME LockFree, UNCHANGED executing
  PROVE  HolderMayExecute'
BY DEF LockFree, HolderMayExecute

\* An approval that has been given stands, whatever the catalog does.
LEMMA ApprovalsStand ==
  ASSUME TypeOK,
         \/ \E p \in Proposal, m \in Mission : ProposeAction(p, m)
         \/ \E p \in Proposal, approved \in BOOLEAN : DecideAction(p, approved)
  PROVE  /\ approvals' \in [Proposal -> Approval]
         /\ \A q \in Proposal : IsApproved(q) => IsApproved(q)'
         /\ UNCHANGED <<incident, executing>>
<1>1. ASSUME NEW p \in Proposal, NEW m \in Mission, ProposeAction(p, m)
      PROVE  /\ approvals' \in [Proposal -> Approval]
             /\ \A q \in Proposal : IsApproved(q) => IsApproved(q)'
             /\ UNCHANGED <<incident, executing>>
  BY <1>1 DEF ProposeAction, TypeOK, Approval, IsApproved
<1>2. ASSUME NEW p \in Proposal, NEW approved \in BOOLEAN, DecideAction(p, approved)
      PROVE  /\ approvals' \in [Proposal -> Approval]
             /\ \A q \in Proposal : IsApproved(q) => IsApproved(q)'
             /\ UNCHANGED <<incident, executing>>
  BY <1>2 DEF DecideAction, Undecided, TypeOK, Approval, IsApproved
<1>3. QED
  BY <1>1, <1>2

\* Initially there is no incident and nothing to explain.
LEMMA InitInv == Init => IInv
<1> SUFFICES ASSUME Init PROVE IInv
  OBVIOUS
<1>1. log \in Seq(Event) /\ DOMAIN log = {}
  BY EmptySeq DEF Init
<1>2. TypeOK
  BY <1>1, HomeAssumption DEF Init, TypeOK, NoAction, NoApproval, Plan, Approval
<1>3. ProtectedActionsAreApproved
  BY DEF Init, ProtectedActionsAreApproved, Executed, NoAction
<1>4. ActionsRunOnce /\ ClosureIsEarned
  BY <1>1 DEF ActionsRunOnce, ClosureIsEarned
<1>5. HolderMayExecute /\ RowsAreLogged
  BY DEF Init, HolderMayExecute, RowsAreLogged, NoAction
<1>6. QED
  BY <1>2, <1>3, <1>4, <1>5 DEF IInv

\* declare, and every transition of the incident.
LEMMA StatusStep ==
  ASSUME IInv, Declare \/ \E new \in Status : Transition(new)
  PROVE  IInv'
<1>1. PICK new \in Status : /\ status' = new /\ AppendEvent("STATUS", new) /\ LockFree
                            /\ UNCHANGED <<verified, evidence, actions, approvals, executing>>
                            /\ new = "CLOSED" => verified
                            /\ new = "MONITORING" => status = "RECOVERING"
  BY DEF Declare, Transition, Status, AllowedTransitions, ClosureIsBlocked
<1>2. [type |-> "STATUS", about |-> new] \in Event
  BY DEF Event
<1>3. /\ log' \in Seq(Event) /\ Len(log) \in Nat
      /\ DOMAIN log = 1 .. Len(log) /\ DOMAIN log' = 1 .. Len(log) + 1
      /\ \A i \in DOMAIN log : log'[i] = log[i]
      /\ log'[Len(log) + 1] = [type |-> "STATUS", about |-> new]
  BY <1>1, <1>2, LogGrows DEF IInv, TypeOK
<1>4. TypeOK'
  BY <1>1, <1>3 DEF IInv, TypeOK
<1>5. ProtectedActionsAreApproved'
  BY <1>1 DEF IInv, ProtectedActionsAreApproved, Executed, IsApproved
<1>6. ActionsRunOnce'
  BY <1>1, <1>3, NoExecutionAdded DEF IInv, TypeOK
<1>7. ClosureIsEarned'
  <2>1. new = "CLOSED" => \E k \in DOMAIN log : EarnedVerification(k)
    BY <1>1 DEF IInv, RowsAreLogged
  <2>2. QED
    BY <1>3, <2>1, ClosureStaysEarned DEF IInv
<1>8. HolderMayExecute'
  BY <1>1, FreeLockHasNoHolder
<1>9. RowsAreLogged'
  <2>1. status' \in {"RECOVERING", "MONITORING"} =>
          \E i \in DOMAIN log' : log'[i] = [type |-> "STATUS", about |-> "RECOVERING"]
    BY <1>1, <1>3, RowsStayLogged DEF IInv
  <2>2. QED
    BY <1>1, <1>3, <2>1, RowsStayLogged DEF IInv, RowsAreLogged
<1>10. QED
  BY <1>4, <1>5, <1>6, <1>7, <1>8, <1>9 DEF IInv

\* record_evidence adds a row and the event that announces it.
LEMMA EvidenceStep ==
  ASSUME IInv, NEW e \in Evidence, RecordEvidence(e)
  PROVE  IInv'
<1>1. [type |-> "EVIDENCE", about |-> e] \in Event
  BY DEF Event
<1>2. /\ log' \in Seq(Event) /\ Len(log) \in Nat
      /\ DOMAIN log = 1 .. Len(log) /\ DOMAIN log' = 1 .. Len(log) + 1
      /\ \A i \in DOMAIN log : log'[i] = log[i]
      /\ log'[Len(log) + 1] = [type |-> "EVIDENCE", about |-> e]
  BY <1>1, LogGrows DEF IInv, TypeOK, RecordEvidence
<1>3. TypeOK'
  BY <1>2 DEF IInv, TypeOK, RecordEvidence
<1>4. ProtectedActionsAreApproved'
  BY DEF IInv, ProtectedActionsAreApproved, Executed, IsApproved, RecordEvidence
<1>5. ActionsRunOnce'
  BY <1>2, NoExecutionAdded DEF IInv, TypeOK, RecordEvidence
<1>6. ClosureIsEarned'
  BY <1>2, ClosureStaysEarned DEF IInv
<1>7. HolderMayExecute'
  BY FreeLockHasNoHolder DEF RecordEvidence
<1>8. RowsAreLogged'
  <2>1. \A f \in evidence' : \E i \in DOMAIN log' : log'[i] = [type |-> "EVIDENCE", about |-> f]
    BY <1>2, RowsStayLogged DEF IInv, RecordEvidence
  <2>2. QED
    BY <1>2, <2>1, RowsStayLogged DEF IInv, RowsAreLogged, RecordEvidence
<1>9. QED
  BY <1>3, <1>4, <1>5, <1>6, <1>7, <1>8 DEF IInv

\* verify_recovery finds its evidence and the start of recovery in the log.
LEMMA VerificationStep ==
  ASSUME IInv, NEW e \in Evidence, VerifyRecovery(e)
  PROVE  IInv'
<1>1. [type |-> "VERIFIED", about |-> e] \in Event
  BY DEF Event
<1>2. /\ log' \in Seq(Event) /\ Len(log) \in Nat
      /\ DOMAIN log = 1 .. Len(log) /\ DOMAIN log' = 1 .. Len(log) + 1
      /\ \A i \in DOMAIN log : log'[i] = log[i]
      /\ log'[Len(log) + 1] = [type |-> "VERIFIED", about |-> e]
  BY <1>1, LogGrows DEF IInv, TypeOK, VerifyRecovery
<1>3. TypeOK'
  BY <1>2 DEF IInv, TypeOK, VerifyRecovery
<1>4. ProtectedActionsAreApproved'
  BY DEF IInv, ProtectedActionsAreApproved, Executed, IsApproved, VerifyRecovery
<1>5. ActionsRunOnce'
  BY <1>2, NoExecutionAdded DEF IInv, TypeOK, VerifyRecovery
<1>6. ClosureIsEarned'
  BY <1>2, ClosureStaysEarned DEF IInv
<1>7. HolderMayExecute'
  BY FreeLockHasNoHolder DEF VerifyRecovery
<1>8. RowsAreLogged'
  <2>1. PICK j \in DOMAIN log : log[j] = [type |-> "EVIDENCE", about |-> e]
    BY DEF IInv, RowsAreLogged, VerifyRecovery
  <2>2. PICK h \in DOMAIN log : log[h] = [type |-> "STATUS", about |-> "RECOVERING"]
    BY DEF IInv, RowsAreLogged, VerifyRecovery
  <2>3. PICK k \in DOMAIN log' : k = Len(log) + 1
    BY <1>2
  <2>4. j \in 1 .. k - 1 /\ h \in 1 .. k - 1
    BY <1>2, <2>3
  <2>5. EarnedVerification(k)'
    BY <1>2, <2>1, <2>2, <2>3, <2>4 DEF EarnedVerification
  <2>6. QED
    BY <1>2, <2>5, RowsStayLogged DEF IInv, RowsAreLogged, VerifyRecovery
<1>9. QED
  BY <1>3, <1>4, <1>5, <1>6, <1>7, <1>8 DEF IInv

\* plan_action adds a row nobody has executed.
LEMMA PlanStep ==
  ASSUME IInv, NEW a \in ActionId, NEW protected \in BOOLEAN,
         NEW p \in Proposal \cup {NoProposal}, PlanAction(a, protected, p)
  PROVE  IInv'
<1>1. [type |-> "PLANNED", about |-> a] \in Event
  BY DEF Event
<1>2. /\ log' \in Seq(Event) /\ Len(log) \in Nat
      /\ DOMAIN log = 1 .. Len(log) /\ DOMAIN log' = 1 .. Len(log) + 1
      /\ \A i \in DOMAIN log : log'[i] = log[i]
      /\ log'[Len(log) + 1] = [type |-> "PLANNED", about |-> a]
  BY <1>1, LogGrows DEF IInv, TypeOK, PlanAction
<1>3. /\ actions' = [actions EXCEPT ![a] =
           [protected |-> protected, proposal |-> p, status |-> "PLANNED"]]
      /\ actions \in [ActionId -> Plan] /\ actions[a].status = "ABSENT"
      /\ [protected |-> protected, proposal |-> p, status |-> "PLANNED"] \in Plan
  BY DEF IInv, TypeOK, PlanAction, Plan
<1>4. \A b \in ActionId \ {a} : actions'[b] = actions[b]
  BY <1>3
<1>5. actions'[a] = [protected |-> protected, proposal |-> p, status |-> "PLANNED"]
  BY <1>3
<1>6. TypeOK'
  BY <1>2, <1>3, <1>4, <1>5 DEF IInv, TypeOK, PlanAction, PlanIsComplete
<1>7. ProtectedActionsAreApproved'
  BY <1>4, <1>5 DEF IInv, ProtectedActionsAreApproved, Executed, IsApproved, PlanAction
<1>8. ActionsRunOnce'
  <2>1. \A b \in ActionId : actions[b].status = "EXECUTED" => actions'[b].status = "EXECUTED"
    BY <1>3, <1>4
  <2>2. QED
    BY <1>2, <2>1, NoExecutionAdded DEF IInv, TypeOK
<1>9. ClosureIsEarned'
  BY <1>2, ClosureStaysEarned DEF IInv
<1>10. HolderMayExecute'
  BY FreeLockHasNoHolder DEF PlanAction
<1>11. RowsAreLogged'
  <2>1. ASSUME NEW b \in ActionId, actions'[b].status # "ABSENT"
        PROVE  \E i \in DOMAIN log' : log'[i].type = "PLANNED" /\ log'[i].about = b
    <3>1. CASE b = a
      <4>1. PICK k \in DOMAIN log' : k = Len(log) + 1
        BY <1>2
      <4>2. QED
        BY <1>2, <3>1, <4>1
    <3>2. CASE b # a
      BY <1>2, <1>4, <2>1, <3>2, RowsStayLogged DEF IInv
    <3>3. QED
      BY <3>1, <3>2
  <2>2. QED
    BY <1>2, <2>1, RowsStayLogged DEF IInv, RowsAreLogged, PlanAction
<1>12. QED
  BY <1>6, <1>7, <1>8, <1>9, <1>10, <1>11 DEF IInv

\* A step that leaves the incident and its approvals alone.
LEMMA LockStep ==
  ASSUME IInv, executing' \in [Responder -> SUBSET ActionId], HolderMayExecute',
         UNCHANGED <<incident, approvals>>
  PROVE  IInv'
<1>1. UNCHANGED <<status, verified, evidence, actions, log, approvals>>
  BY DEF incident
<1>2. TypeOK'
  BY <1>1 DEF IInv, TypeOK
<1>3. ProtectedActionsAreApproved'
  BY <1>1 DEF IInv, ProtectedActionsAreApproved, Executed, IsApproved
<1>4. ActionsRunOnce' /\ ClosureIsEarned'
  BY <1>1 DEF IInv, ActionsRunOnce, ClosureIsEarned, Executed, EarnedVerification
<1>5. RowsAreLogged'
  BY <1>1 DEF IInv, RowsAreLogged, EarnedVerification
<1>6. QED
  BY <1>2, <1>3, <1>4, <1>5 DEF IInv

\* mark_action_executed takes the lock that nobody holds.
LEMMA BeginStep ==
  ASSUME IInv, NEW r \in Responder, NEW a \in ActionId, BeginExecution(r, a)
  PROVE  IInv'
<1>1. executing \in [Responder -> SUBSET ActionId]
  BY DEF IInv, TypeOK
<1>2. executing' = [executing EXCEPT ![r] = {a}]
  BY DEF BeginExecution
<1>3. \A s \in Responder : executing'[s] = IF s = r THEN {a} ELSE {}
  BY <1>1, <1>2 DEF BeginExecution, LockFree
<1>4. HolderMayExecute'
  BY <1>3 DEF HolderMayExecute, BeginExecution, incident, IsApproved
<1>5. QED
  BY <1>1, <1>2, <1>4, LockStep DEF BeginExecution

\* A rollback leaves the incident as it was.
LEMMA CrashStep ==
  ASSUME IInv, NEW r \in Responder, Crash(r)
  PROVE  IInv'
<1>1. executing \in [Responder -> SUBSET ActionId]
  BY DEF IInv, TypeOK
<1>2. executing' = [executing EXCEPT ![r] = {}]
  BY DEF Crash
<1>3. \A s \in Responder : executing'[s] \subseteq executing[s]
  BY <1>1, <1>2
<1>4. HolderMayExecute'
  BY <1>3 DEF IInv, HolderMayExecute, Crash, incident, IsApproved
<1>5. QED
  BY <1>1, <1>2, <1>4, LockStep DEF Crash

\* The catalog never takes back what a holder of the lock has read.
LEMMA CatalogStep ==
  ASSUME IInv,
         \/ \E p \in Proposal, m \in Mission : ProposeAction(p, m)
         \/ \E p \in Proposal, approved \in BOOLEAN : DecideAction(p, approved)
  PROVE  IInv'
<1>1. /\ approvals' \in [Proposal -> Approval]
      /\ \A q \in Proposal : IsApproved(q) => IsApproved(q)'
      /\ UNCHANGED <<incident, executing>>
  BY ApprovalsStand DEF IInv
<1>2. UNCHANGED <<status, verified, evidence, actions, log, executing>>
  BY <1>1 DEF incident
<1>3. \A a \in ActionId : IsApproved(actions[a].proposal) => IsApproved(actions[a].proposal)'
  <2>1. SUFFICES ASSUME NEW a \in ActionId, IsApproved(actions[a].proposal)
                 PROVE  IsApproved(actions[a].proposal)'
    OBVIOUS
  <2>2. PICK q \in Proposal : q = actions[a].proposal
    BY <2>1 DEF IsApproved
  <2>3. IsApproved(q)'
    BY <1>1, <2>1, <2>2
  <2>4. QED
    BY <1>2, <2>2, <2>3 DEF IsApproved
<1>4. TypeOK'
  BY <1>1, <1>2 DEF IInv, TypeOK
<1>5. ProtectedActionsAreApproved'
  BY <1>2, <1>3 DEF IInv, ProtectedActionsAreApproved, Executed
<1>6. ActionsRunOnce' /\ ClosureIsEarned'
  BY <1>2 DEF IInv, ActionsRunOnce, ClosureIsEarned, Executed, EarnedVerification
<1>7. RowsAreLogged'
  BY <1>2 DEF IInv, RowsAreLogged, EarnedVerification
<1>8. HolderMayExecute'
  BY <1>2, <1>3 DEF IInv, HolderMayExecute
<1>9. QED
  BY <1>4, <1>5, <1>6, <1>7, <1>8 DEF IInv

\* mark_action_executed commits for an action that no earlier event executed.
LEMMA CommitStep ==
  ASSUME IInv, NEW r \in Responder, NEW a \in ActionId, CommitExecution(r, a)
  PROVE  IInv'
<1>1. /\ actions \in [ActionId -> Plan] /\ log \in Seq(Event)
      /\ executing \in [Responder -> SUBSET ActionId]
  BY DEF IInv, TypeOK
<1>2. /\ actions[a].status = "PLANNED"
      /\ actions[a].protected => IsApproved(actions[a].proposal)
      /\ \A s \in Responder, b \in ActionId : b \in executing[s] => s = r /\ b = a
  BY DEF IInv, HolderMayExecute, CommitExecution
<1>3. [type |-> "EXECUTED", about |-> a] \in Event
  BY DEF Event
<1>4. /\ log' \in Seq(Event) /\ Len(log) \in Nat
      /\ DOMAIN log = 1 .. Len(log) /\ DOMAIN log' = 1 .. Len(log) + 1
      /\ \A i \in DOMAIN log : log'[i] = log[i]
      /\ log'[Len(log) + 1] = [type |-> "EXECUTED", about |-> a]
  BY <1>1, <1>3, LogGrows DEF CommitExecution
<1>5. actions' = [actions EXCEPT ![a] = [actions[a] EXCEPT !.status = "EXECUTED"]]
  BY DEF CommitExecution
<1>6. /\ actions' \in [ActionId -> Plan] /\ actions'[a].status = "EXECUTED"
      /\ actions'[a].protected = actions[a].protected
      /\ actions'[a].proposal = actions[a].proposal
      /\ \A b \in ActionId \ {a} : actions'[b] = actions[b]
  BY <1>1, <1>5 DEF Plan
<1>7. TypeOK'
  <2>1. \A b \in ActionId : actions'[b].protected => actions'[b].proposal # NoProposal
    BY <1>6 DEF IInv, TypeOK
  <2>2. QED
    BY <1>1, <1>4, <1>6, <2>1 DEF IInv, TypeOK, CommitExecution
<1>8. ProtectedActionsAreApproved'
  BY <1>2, <1>6 DEF IInv, ProtectedActionsAreApproved, Executed, IsApproved, CommitExecution
<1>9. ActionsRunOnce'
  <2> SUFFICES ASSUME NEW i \in DOMAIN log', log'[i].type = "EXECUTED"
               PROVE  /\ actions'[log'[i].about].status = "EXECUTED"
                      /\ \A j \in DOMAIN log' :
                           log'[j].type = "EXECUTED" /\ log'[j].about = log'[i].about => i = j
                      /\ \E k \in 1 .. i - 1 :
                           log'[k].type = "PLANNED" /\ log'[k].about = log'[i].about
    BY DEF ActionsRunOnce, Executed
  <2>1. \A j \in DOMAIN log : log[j].type = "EXECUTED" =>
          log[j].about \in ActionId \ {a} /\ actions[log[j].about].status = "EXECUTED"
    <3>1. \A j \in DOMAIN log : log[j] \in Event
      BY <1>1, <1>4, ElementOfSeq
    <3>2. \A j \in DOMAIN log : log[j].type = "EXECUTED" => log[j].about \in ActionId
      BY <3>1 DEF Event
    <3>3. QED
      BY <1>2, <3>2 DEF IInv, ActionsRunOnce, Executed
  <2>2. CASE i \in DOMAIN log
    <3>1. log'[i] = log[i]
      BY <1>4, <2>2
    <3>2. actions'[log'[i].about].status = "EXECUTED"
      BY <1>6, <2>1, <2>2, <3>1
    <3>3. \A j \in DOMAIN log' :
            log'[j].type = "EXECUTED" /\ log'[j].about = log'[i].about => i = j
      BY <1>4, <2>1, <2>2, <3>1 DEF IInv, ActionsRunOnce
    <3>4. PICK k \in 1 .. i - 1 : log[k].type = "PLANNED" /\ log[k].about = log[i].about
      BY <2>2, <3>1 DEF IInv, ActionsRunOnce
    <3>5. k \in DOMAIN log
      BY <1>4, <2>2
    <3>6. QED
      BY <1>4, <3>1, <3>2, <3>3, <3>4, <3>5
  <2>3. CASE i = Len(log) + 1
    <3>1. log'[i].about = a
      BY <1>4, <2>3
    <3>2. \A j \in DOMAIN log' :
            log'[j].type = "EXECUTED" /\ log'[j].about = log'[i].about => i = j
      BY <1>4, <2>1, <2>3, <3>1
    <3>3. PICK k \in DOMAIN log : log[k].type = "PLANNED" /\ log[k].about = a
      BY <1>2 DEF IInv, RowsAreLogged
    <3>4. k \in 1 .. i - 1
      BY <1>4, <2>3
    <3>5. QED
      BY <1>4, <1>6, <3>1, <3>2, <3>3, <3>4
  <2>4. QED
    BY <1>4, <2>2, <2>3
<1>10. ClosureIsEarned'
  BY <1>4, ClosureStaysEarned DEF IInv
<1>11. HolderMayExecute'
  <2>1. executing' = [executing EXCEPT ![r] = {}]
    BY DEF CommitExecution
  <2>2. \A s \in Responder, b \in ActionId : b \notin executing'[s]
    BY <1>1, <1>2, <2>1
  <2>3. QED
    BY <2>2 DEF HolderMayExecute
<1>12. RowsAreLogged'
  <2>1. \A b \in ActionId : actions'[b].status # "ABSENT" => actions[b].status # "ABSENT"
    BY <1>2, <1>6
  <2>2. QED
    BY <1>4, <2>1, RowsStayLogged DEF IInv, RowsAreLogged, CommitExecution
<1>13. QED
  BY <1>7, <1>8, <1>9, <1>10, <1>11, <1>12 DEF IInv

\* Every step keeps the invariant.
LEMMA StepInv == IInv /\ [Next]_vars => IInv'
<1> SUFFICES ASSUME IInv, [Next]_vars PROVE IInv'
  OBVIOUS
<1>1. CASE Declare \/ \E new \in Status : Transition(new)
  BY <1>1, StatusStep
<1>2. ASSUME NEW e \in Evidence, RecordEvidence(e) \/ VerifyRecovery(e) PROVE IInv'
  BY <1>2, EvidenceStep, VerificationStep
<1>3. ASSUME NEW a \in ActionId, NEW protected \in BOOLEAN,
             NEW p \in Proposal \cup {NoProposal}, PlanAction(a, protected, p)
      PROVE  IInv'
  BY <1>3, PlanStep
<1>4. ASSUME NEW r \in Responder, NEW a \in ActionId,
             BeginExecution(r, a) \/ CommitExecution(r, a)
      PROVE  IInv'
  BY <1>4, BeginStep, CommitStep
<1>5. ASSUME NEW r \in Responder, Crash(r) PROVE IInv'
  BY <1>5, CrashStep
<1>6. CASE \/ \E p \in Proposal, m \in Mission : ProposeAction(p, m)
           \/ \E p \in Proposal, approved \in BOOLEAN : DecideAction(p, approved)
  BY <1>6, CatalogStep
<1>7. CASE UNCHANGED vars
  <2>1. executing' \in [Responder -> SUBSET ActionId] /\ HolderMayExecute'
    BY <1>7 DEF IInv, TypeOK, HolderMayExecute, IsApproved, vars, incident
  <2>2. QED
    BY <1>7, <2>1, LockStep DEF vars
<1>8. QED
  BY <1>1, <1>2, <1>3, <1>4, <1>5, <1>6, <1>7 DEF Next

\* The invariant holds in every behaviour.
LEMMA Invariance == Spec => []IInv
BY InitInv, StepInv, PTL DEF Spec

-----------------------------------------------------------------------------

\* Every state of the incident store and the catalog is well typed, and every
\* protected action names a proposal.
THEOREM TypeCorrect == Spec => []TypeOK
<1>1. IInv => TypeOK
  BY DEF IInv
<1>2. QED
  BY <1>1, Invariance, PTL

\* No protected action is executed without an approval that stands, however
\* decisions and executions interleave.
THEOREM ExecutionIsApproved == Spec => []ProtectedActionsAreApproved
<1>1. IInv => ProtectedActionsAreApproved
  BY DEF IInv
<1>2. QED
  BY <1>1, Invariance, PTL

\* Racing and crashing responders execute an action at most once, and only
\* after it was planned.
THEOREM ExecutionIsUnique == Spec => []ActionsRunOnce
<1>1. IInv => ActionsRunOnce
  BY DEF IInv
<1>2. QED
  BY <1>1, Invariance, PTL

\* Every closure in the log is preceded by a verified recovery and its evidence.
THEOREM ClosureRestsOnRecovery == Spec => []ClosureIsEarned
<1>1. IInv => ClosureIsEarned
  BY DEF IInv
<1>2. QED
  BY <1>1, Invariance, PTL

-----------------------------------------------------------------------------
(* The log alone *)

Logged(event) == \E i \in DOMAIN log : log[i] = event
SomeVerified == \E i \in DOMAIN log : log[i].type = "VERIFIED"
StatusIsLatest(s) ==
  \E i \in DOMAIN log : /\ log[i] = [type |-> "STATUS", about |-> s]
                        /\ \A j \in i + 1 .. Len(log) : log[j].type # "STATUS"

\* What a log that grows by an event tells: that event, and what it told before.
LEMMA LogTells ==
  ASSUME log \in Seq(Event), NEW type, NEW about, AppendEvent(type, about),
         [type |-> type, about |-> about] \in Event
  PROVE  /\ \A event : Logged(event)' <=> Logged(event) \/ event = [type |-> type, about |-> about]
         /\ SomeVerified' <=> SomeVerified \/ type = "VERIFIED"
         /\ type = "STATUS" => StatusIsLatest(about)'
         /\ type # "STATUS" => \A s : StatusIsLatest(s) => StatusIsLatest(s)'
<1>1. /\ log' \in Seq(Event) /\ Len(log) \in Nat
      /\ DOMAIN log = 1 .. Len(log) /\ DOMAIN log' = 1 .. Len(log) + 1
      /\ \A i \in DOMAIN log : log'[i] = log[i]
      /\ log'[Len(log) + 1] = [type |-> type, about |-> about]
  BY LogGrows
<1>2. Len(log') = Len(log) + 1
  BY AppendProperties DEF AppendEvent
<1>3. Len(log) + 1 \in DOMAIN log'
  BY <1>1
<1>4. \A event : Logged(event)' <=> Logged(event) \/ event = [type |-> type, about |-> about]
  BY <1>1, <1>3 DEF Logged
<1>5. SomeVerified' <=> SomeVerified \/ type = "VERIFIED"
  BY <1>1, <1>3 DEF SomeVerified
<1>6. type = "STATUS" => StatusIsLatest(about)'
  BY <1>1, <1>2, <1>3 DEF StatusIsLatest
<1>7. ASSUME type # "STATUS", NEW s, StatusIsLatest(s) PROVE StatusIsLatest(s)'
  <2>1. PICK i \in DOMAIN log : /\ log[i] = [type |-> "STATUS", about |-> s]
                                /\ \A j \in i + 1 .. Len(log) : log[j].type # "STATUS"
    BY <1>7 DEF StatusIsLatest
  <2>2. i \in DOMAIN log' /\ log'[i] = [type |-> "STATUS", about |-> s]
    BY <1>1, <2>1
  <2>3. ASSUME NEW j \in i + 1 .. Len(log') PROVE log'[j].type # "STATUS"
    <3>1. CASE j = Len(log) + 1
      BY <1>1, <1>7, <3>1
    <3>2. CASE j # Len(log) + 1
      BY <1>1, <1>2, <2>1, <3>2
    <3>3. QED
      BY <3>1, <3>2
  <2>4. QED
    BY <2>2, <2>3 DEF StatusIsLatest
<1>8. QED
  BY <1>4, <1>5, <1>6, <1>7

\* LogExplainsRows in these words.
Explained ==
  /\ evidence = {e \in Evidence : Logged([type |-> "EVIDENCE", about |-> e])}
  /\ verified <=> SomeVerified
  /\ \A a \in ActionId : /\ actions[a].status # "ABSENT" <=> Logged([type |-> "PLANNED", about |-> a])
                         /\ Executed(a) <=> Logged([type |-> "EXECUTED", about |-> a])
  /\ status # "ABSENT" => StatusIsLatest(status)

LEMMA ExplainedIsProperty == Explained <=> LogExplainsRows
BY DEF Explained, LogExplainsRows, Logged, SomeVerified, StatusIsLatest

LEMMA StatusExplained ==
  ASSUME IInv, Explained, Declare \/ \E new \in Status : Transition(new)
  PROVE  Explained'
<1>1. PICK new \in Status : /\ status' = new /\ AppendEvent("STATUS", new)
                            /\ UNCHANGED <<verified, evidence, actions>>
  BY DEF Declare, Transition, Status
<1>2. /\ \A event : Logged(event)' <=> Logged(event) \/ event = [type |-> "STATUS", about |-> new]
      /\ SomeVerified' <=> SomeVerified
      /\ StatusIsLatest(new)'
  BY <1>1, LogTells DEF IInv, TypeOK, Event
<1>3. \A x : /\ Logged([type |-> "EVIDENCE", about |-> x])' <=> Logged([type |-> "EVIDENCE", about |-> x])
             /\ Logged([type |-> "PLANNED", about |-> x])' <=> Logged([type |-> "PLANNED", about |-> x])
             /\ Logged([type |-> "EXECUTED", about |-> x])' <=> Logged([type |-> "EXECUTED", about |-> x])
  BY <1>2
<1>4. QED
  BY <1>1, <1>2, <1>3 DEF Explained, Executed

LEMMA EvidenceExplained ==
  ASSUME IInv, Explained, NEW e \in Evidence, RecordEvidence(e)
  PROVE  Explained'
<1>1. /\ \A event : Logged(event)' <=> Logged(event) \/ event = [type |-> "EVIDENCE", about |-> e]
      /\ SomeVerified' <=> SomeVerified
      /\ \A s : StatusIsLatest(s) => StatusIsLatest(s)'
  BY LogTells DEF RecordEvidence, IInv, TypeOK, Event
<1>2. \A x : /\ Logged([type |-> "EVIDENCE", about |-> x])'
                  <=> Logged([type |-> "EVIDENCE", about |-> x]) \/ x = e
             /\ Logged([type |-> "PLANNED", about |-> x])' <=> Logged([type |-> "PLANNED", about |-> x])
             /\ Logged([type |-> "EXECUTED", about |-> x])' <=> Logged([type |-> "EXECUTED", about |-> x])
  BY <1>1
<1>3. evidence' = {x \in Evidence : Logged([type |-> "EVIDENCE", about |-> x])'}
  BY <1>2 DEF Explained, RecordEvidence
<1>4. QED
  BY <1>1, <1>2, <1>3 DEF Explained, Executed, RecordEvidence

LEMMA VerificationExplained ==
  ASSUME IInv, Explained, NEW e \in Evidence, VerifyRecovery(e)
  PROVE  Explained'
<1>1. /\ \A event : Logged(event)' <=> Logged(event) \/ event = [type |-> "VERIFIED", about |-> e]
      /\ SomeVerified'
      /\ \A s : StatusIsLatest(s) => StatusIsLatest(s)'
  BY LogTells DEF VerifyRecovery, IInv, TypeOK, Event
<1>2. \A x : /\ Logged([type |-> "EVIDENCE", about |-> x])' <=> Logged([type |-> "EVIDENCE", about |-> x])
             /\ Logged([type |-> "PLANNED", about |-> x])' <=> Logged([type |-> "PLANNED", about |-> x])
             /\ Logged([type |-> "EXECUTED", about |-> x])' <=> Logged([type |-> "EXECUTED", about |-> x])
  BY <1>1
<1>3. QED
  BY <1>1, <1>2 DEF Explained, Executed, VerifyRecovery

LEMMA PlanExplained ==
  ASSUME IInv, Explained, NEW a \in ActionId, NEW protected \in BOOLEAN,
         NEW p \in Proposal \cup {NoProposal}, PlanAction(a, protected, p)
  PROVE  Explained'
<1>1. /\ \A event : Logged(event)' <=> Logged(event) \/ event = [type |-> "PLANNED", about |-> a]
      /\ SomeVerified' <=> SomeVerified
      /\ \A s : StatusIsLatest(s) => StatusIsLatest(s)'
  BY LogTells DEF PlanAction, IInv, TypeOK, Event
<1>2. \A x : /\ Logged([type |-> "EVIDENCE", about |-> x])' <=> Logged([type |-> "EVIDENCE", about |-> x])
             /\ Logged([type |-> "PLANNED", about |-> x])'
                  <=> Logged([type |-> "PLANNED", about |-> x]) \/ x = a
             /\ Logged([type |-> "EXECUTED", about |-> x])' <=> Logged([type |-> "EXECUTED", about |-> x])
  BY <1>1
<1>3. /\ actions'[a].status = "PLANNED" /\ actions[a].status = "ABSENT"
      /\ \A b \in ActionId \ {a} : actions'[b] = actions[b]
  BY DEF PlanAction, IInv, TypeOK
<1>4. \A b \in ActionId :
        /\ actions'[b].status # "ABSENT" <=> Logged([type |-> "PLANNED", about |-> b])'
        /\ Executed(b)' <=> Logged([type |-> "EXECUTED", about |-> b])'
  BY <1>2, <1>3 DEF Explained, Executed
<1>5. QED
  BY <1>1, <1>2, <1>4 DEF Explained, PlanAction

LEMMA CommitExplained ==
  ASSUME IInv, Explained, NEW r \in Responder, NEW a \in ActionId, CommitExecution(r, a)
  PROVE  Explained'
<1>1. /\ \A event : Logged(event)' <=> Logged(event) \/ event = [type |-> "EXECUTED", about |-> a]
      /\ SomeVerified' <=> SomeVerified
      /\ \A s : StatusIsLatest(s) => StatusIsLatest(s)'
  BY LogTells DEF CommitExecution, IInv, TypeOK, Event
<1>2. \A x : /\ Logged([type |-> "EVIDENCE", about |-> x])' <=> Logged([type |-> "EVIDENCE", about |-> x])
             /\ Logged([type |-> "PLANNED", about |-> x])' <=> Logged([type |-> "PLANNED", about |-> x])
             /\ Logged([type |-> "EXECUTED", about |-> x])'
                  <=> Logged([type |-> "EXECUTED", about |-> x]) \/ x = a
  BY <1>1
<1>3. actions[a] \in Plan /\ actions[a].status = "PLANNED"
  BY DEF IInv, TypeOK, HolderMayExecute, CommitExecution
<1>4. actions' = [actions EXCEPT ![a] = [actions[a] EXCEPT !.status = "EXECUTED"]]
  BY DEF CommitExecution
<1>5. actions'[a].status = "EXECUTED" /\ \A b \in ActionId \ {a} : actions'[b] = actions[b]
  BY <1>3, <1>4 DEF IInv, TypeOK, Plan
<1>6. \A b \in ActionId :
        /\ actions'[b].status # "ABSENT" <=> Logged([type |-> "PLANNED", about |-> b])'
        /\ Executed(b)' <=> Logged([type |-> "EXECUTED", about |-> b])'
  BY <1>2, <1>3, <1>5 DEF Explained, Executed
<1>7. QED
  BY <1>1, <1>2, <1>6 DEF Explained, CommitExecution

\* The rows of an incident can be told from its log, whatever races and crashes:
\* each mutation and its event are one transaction (class IncidentResponseStore).
THEOREM LogTellsTheRows == Spec => []LogExplainsRows
<1>1. Init => Explained
  <2> SUFFICES ASSUME Init PROVE Explained
    OBVIOUS
  <2>1. DOMAIN log = {}
    BY EmptySeq DEF Init
  <2>2. QED
    BY <2>1 DEF Init, Explained, Logged, SomeVerified, Executed, NoAction
<1>2. IInv /\ Explained /\ [Next]_vars => Explained'
  <2> SUFFICES ASSUME IInv, Explained, [Next]_vars PROVE Explained'
    OBVIOUS
  <2>1. CASE UNCHANGED incident
    BY <2>1 DEF incident, Explained, Logged, SomeVerified, StatusIsLatest, Executed
  <2>2. CASE Declare \/ \E new \in Status : Transition(new)
    BY <2>2, StatusExplained
  <2>3. ASSUME NEW e \in Evidence, RecordEvidence(e) \/ VerifyRecovery(e) PROVE Explained'
    BY <2>3, EvidenceExplained, VerificationExplained
  <2>4. ASSUME NEW a \in ActionId, NEW protected \in BOOLEAN,
               NEW p \in Proposal \cup {NoProposal}, PlanAction(a, protected, p)
        PROVE  Explained'
    BY <2>4, PlanExplained
  <2>5. ASSUME NEW r \in Responder, NEW a \in ActionId, CommitExecution(r, a)
        PROVE  Explained'
    BY <2>5, CommitExplained
  <2>6. \/ \E r \in Responder, a \in ActionId : BeginExecution(r, a)
        \/ \E r \in Responder : Crash(r)
        \/ \E p \in Proposal, m \in Mission : ProposeAction(p, m)
        \/ \E p \in Proposal, approved \in BOOLEAN : DecideAction(p, approved)
        \/ UNCHANGED vars
        => UNCHANGED incident
    BY DEF BeginExecution, Crash, ProposeAction, DecideAction, vars
  <2>7. QED
    BY <2>1, <2>2, <2>3, <2>4, <2>5, <2>6 DEF Next
<1>3. QED
  BY <1>1, <1>2, Invariance, ExplainedIsProperty, PTL DEF Spec

-----------------------------------------------------------------------------
(* What the store promises of its actions *)

Waiting == [a \in Planned |-> NeedsOf(actions[a])]
Standing == {p \in Proposal : IsApproved(p)}
Executions == {<<i, log[i].about>> : i \in {j \in DOMAIN log : log[j].type = "EXECUTED"}}

\* An event adds an execution when it is one, and takes none back.
LEMMA ExecutionsGrow ==
  ASSUME log \in Seq(Event), NEW type, NEW about, AppendEvent(type, about),
         [type |-> type, about |-> about] \in Event
  PROVE  /\ type # "EXECUTED" => Executions' = Executions
         /\ type = "EXECUTED" => Executions' = Executions \cup {<<Len(log) + 1, about>>}
<1>1. /\ Len(log) \in Nat
      /\ DOMAIN log = 1 .. Len(log) /\ DOMAIN log' = 1 .. Len(log) + 1
      /\ \A i \in DOMAIN log : log'[i] = log[i]
      /\ log'[Len(log) + 1] = [type |-> type, about |-> about]
  BY LogGrows
<1> DEFINE executed == {j \in DOMAIN log : log[j].type = "EXECUTED"}
           executedNext == {j \in DOMAIN log' : log'[j].type = "EXECUTED"}
<1>2. executedNext = IF type = "EXECUTED" THEN executed \cup {Len(log) + 1} ELSE executed
  BY <1>1
<1>3. \A i \in executed : log'[i].about = log[i].about
  BY <1>1
<1>4. Executions = {<<i, log[i].about>> : i \in executed}
      /\ Executions' = {<<i, log'[i].about>> : i \in executedNext}
  BY DEF Executions
<1>5. log'[Len(log) + 1].about = about
  BY <1>1
<1> HIDE DEF executed, executedNext
<1>6. QED
  BY <1>2, <1>3, <1>4, <1>5

\* The steps that neither plan, approve nor execute an action are none to the
\* promise.
LEMMA OthersPromiseNothing ==
  ASSUME IInv,
         \/ Declare \/ \E new \in Status : Transition(new)
         \/ \E e \in Evidence : RecordEvidence(e) \/ VerifyRecovery(e)
         \/ \E r \in Responder, a \in ActionId : BeginExecution(r, a)
         \/ \E r \in Responder : Crash(r)
         \/ UNCHANGED vars
  PROVE  UNCHANGED <<Waiting, Standing, Executions>>
<1>1. log \in Seq(Event)
  BY DEF IInv, TypeOK
<1>2. UNCHANGED <<actions, approvals>>
  BY DEF Declare, Transition, RecordEvidence, VerifyRecovery, BeginExecution, Crash, vars, incident
<1>3. UNCHANGED <<Waiting, Standing>>
  BY <1>2 DEF Waiting, Standing, Planned, NeedsOf, IsApproved
<1>4. CASE UNCHANGED log
  BY <1>3, <1>4 DEF Executions
<1>5. CASE Declare
  <2>1. AppendEvent("STATUS", "DECLARED") /\ [type |-> "STATUS", about |-> "DECLARED"] \in Event
    BY <1>5 DEF Declare, Event, Status
  <2>2. QED
    BY <1>1, <1>3, <2>1, ExecutionsGrow
<1>6. ASSUME NEW new \in Status, Transition(new) PROVE UNCHANGED Executions
  <2>1. AppendEvent("STATUS", new) /\ [type |-> "STATUS", about |-> new] \in Event
    BY <1>6 DEF Transition, Event
  <2>2. QED
    BY <1>1, <2>1, ExecutionsGrow
<1>7. ASSUME NEW e \in Evidence, RecordEvidence(e) PROVE UNCHANGED Executions
  <2>1. AppendEvent("EVIDENCE", e) /\ [type |-> "EVIDENCE", about |-> e] \in Event
    BY <1>7 DEF RecordEvidence, Event
  <2>2. QED
    BY <1>1, <2>1, ExecutionsGrow
<1>8. ASSUME NEW e \in Evidence, VerifyRecovery(e) PROVE UNCHANGED Executions
  <2>1. AppendEvent("VERIFIED", e) /\ [type |-> "VERIFIED", about |-> e] \in Event
    BY <1>8 DEF VerifyRecovery, Event
  <2>2. QED
    BY <1>1, <2>1, ExecutionsGrow
<1>9. QED
  BY <1>3, <1>4, <1>5, <1>6, <1>7, <1>8 DEF BeginExecution, Crash, vars, incident

\* The promise in these words.
LEMMA PromiseUnchanged ==
  UNCHANGED <<Waiting, Standing, Executions>> => UNCHANGED (Authorized!promise)
BY DEF Waiting, Standing, Executions, Authorized!promise

\* plan_action fixes what the action waits for.
LEMMA PlanIsPromised ==
  ASSUME IInv, NEW a \in ActionId, NEW protected \in BOOLEAN,
         NEW p \in Proposal \cup {NoProposal}, PlanAction(a, protected, p)
  PROVE  Authorized!Plan(a)
<1>1. actions \in [ActionId -> Plan] /\ log \in Seq(Event)
  BY DEF IInv, TypeOK
<1>2. /\ actions[a].status = "ABSENT" /\ (protected => p # NoProposal)
      /\ actions' = [actions EXCEPT ![a] =
                       [protected |-> protected, proposal |-> p, status |-> "PLANNED"]]
      /\ AppendEvent("PLANNED", a) /\ UNCHANGED approvals
  BY DEF PlanAction, PlanIsComplete
<1>3. a \notin Planned /\ Planned' = Planned \cup {a}
  BY <1>1, <1>2 DEF Planned
<1>4. \A b \in Planned : actions'[b] = actions[b]
  BY <1>1, <1>2 DEF Planned
<1>5. NeedsOf(actions'[a]) \in {{}} \cup {{q} : q \in Proposal}
  BY <1>1, <1>2 DEF NeedsOf
<1>6. Executions' = Executions
  <2>1. [type |-> "PLANNED", about |-> a] \in Event
    BY DEF Event
  <2>2. QED
    BY <1>1, <1>2, <2>1, ExecutionsGrow
<1>7. Standing' = Standing
  BY <1>2 DEF Standing, IsApproved
<1>8. /\ DOMAIN Waiting = Planned /\ DOMAIN Waiting' = Planned \cup {a}
      /\ Waiting'[a] \in {{}} \cup {{q} : q \in Proposal}
      /\ \A b \in Planned : Waiting'[b] = Waiting[b]
  BY <1>3, <1>4, <1>5 DEF Waiting
<1>9. /\ a \notin DOMAIN Waiting
      /\ DOMAIN Waiting' = DOMAIN Waiting \cup {a} /\ Waiting'[a] \in {{}} \cup {{q} : q \in Proposal}
      /\ \A b \in DOMAIN Waiting : Waiting'[b] = Waiting[b]
      /\ UNCHANGED <<Standing, Executions>>
  BY <1>3, <1>6, <1>7, <1>8
<1>10. QED
  BY <1>9 DEF Authorized!Plan, Authorized!Needs, Waiting, Standing, Executions

\* An approval for this mission is promised when it is given, and no other
\* answer of the catalog matters.
LEMMA ApprovalIsPromised ==
  ASSUME IInv, NEW p \in Proposal,
         \/ \E m \in Mission : ProposeAction(p, m)
         \/ \E approved \in BOOLEAN : DecideAction(p, approved)
  PROVE  Authorized!Approve(p) \/ UNCHANGED (Authorized!promise)
<1>1. approvals \in [Proposal -> Approval]
  BY DEF IInv, TypeOK
<1>2. UNCHANGED <<Waiting, Executions>>
  <2>1. UNCHANGED <<actions, log>>
    BY DEF ProposeAction, DecideAction, incident
  <2>2. QED
    BY <2>1 DEF Waiting, Executions, Planned, NeedsOf
<1>3. p \notin Standing /\ \A q \in Proposal \ {p} : approvals'[q] = approvals[q]
  BY <1>1 DEF ProposeAction, DecideAction, Undecided, Standing, IsApproved
<1>4. Standing' = IF IsApproved(p)' THEN Standing \cup {p} ELSE Standing
  BY <1>3 DEF Standing, IsApproved
<1>5. CASE IsApproved(p)'
  <2>1. Standing' = Standing \cup {p}
    BY <1>4, <1>5
  <2>2. QED
    BY <1>2, <1>3, <2>1 DEF Authorized!Approve, Waiting, Standing, Executions
<1>6. CASE ~IsApproved(p)'
  BY <1>2, <1>4, <1>6, PromiseUnchanged
<1>7. QED
  BY <1>5, <1>6

\* The commit of an execution is one at a moment when its approval stands.
LEMMA ExecutionIsPromised ==
  ASSUME IInv, NEW r \in Responder, NEW a \in ActionId, CommitExecution(r, a)
  PROVE  Authorized!Execute(a)
<1>1. /\ actions \in [ActionId -> Plan] /\ log \in Seq(Event)
      /\ executing \in [Responder -> SUBSET ActionId]
  BY DEF IInv, TypeOK
<1>2. /\ actions[a].status = "PLANNED"
      /\ actions[a].protected => IsApproved(actions[a].proposal)
  BY DEF IInv, HolderMayExecute, CommitExecution
<1>3. /\ actions' = [actions EXCEPT ![a] = [actions[a] EXCEPT !.status = "EXECUTED"]]
      /\ AppendEvent("EXECUTED", a) /\ UNCHANGED approvals
  BY DEF CommitExecution
<1>4. a \in Planned /\ NeedsOf(actions[a]) \subseteq Standing
  BY <1>1, <1>2 DEF Planned, NeedsOf, Standing, IsApproved
<1>5. UNCHANGED <<Waiting, Standing>>
  <2>1. actions'[a].status = "EXECUTED" /\ NeedsOf(actions'[a]) = NeedsOf(actions[a])
    BY <1>1, <1>3 DEF Plan, NeedsOf
  <2>2. \A b \in ActionId \ {a} : actions'[b] = actions[b]
    BY <1>1, <1>3
  <2>3. Planned' = Planned
    BY <1>2, <2>1, <2>2 DEF Planned
  <2>4. \A b \in Planned : NeedsOf(actions'[b]) = NeedsOf(actions[b])
    BY <2>1, <2>2 DEF Planned
  <2>5. Standing' = Standing
    BY <1>3 DEF Standing, IsApproved
  <2>6. Waiting' = Waiting
    BY <2>3, <2>4 DEF Waiting
  <2>7. QED
    BY <2>5, <2>6
<1>6. \A x \in Executions : x[2] # a
  BY <1>2 DEF Executions, IInv, ActionsRunOnce, Executed
<1>7. Executions' = Executions \cup {<<Len(log) + 1, a>>}
  <2>1. [type |-> "EXECUTED", about |-> a] \in Event
    BY DEF Event
  <2>2. QED
    BY <1>1, <1>3, <2>1, ExecutionsGrow
<1>8. \E x \in Executions' : x[2] = a /\ Executions' = Executions \cup {x}
  <2>1. <<Len(log) + 1, a>> \in Executions' /\ <<Len(log) + 1, a>>[2] = a
    BY <1>7
  <2>2. QED
    BY <1>7, <2>1
<1>9. /\ a \in DOMAIN Waiting /\ Waiting[a] \subseteq Standing
  BY <1>4 DEF Waiting
<1>10. QED
  BY <1>5, <1>6, <1>8, <1>9 DEF Authorized!Execute, Waiting, Standing, Executions

\* Incident response is one with authorized actions: an action is executed once at
\* most, in one step at a moment when its approval stands, although any number of
\* responders race and crash, and the catalog that holds the approvals is changed
\* while an execution is under way.
THEOREM ResponseIsAuthorized == Spec => AuthorizedSpec
<1>1. Init => Authorized!Init
  <2> SUFFICES ASSUME Init PROVE Authorized!Init
    OBVIOUS
  <2>1. Planned = {} /\ DOMAIN log = {} /\ \A p \in Proposal : ~IsApproved(p)
    BY EmptySeq DEF Init, Planned, NoAction, IsApproved, NoApproval
  <2>2. [a \in Planned |-> NeedsOf(actions[a])] = [a \in {} |-> {}]
    BY <2>1
  <2>3. QED
    BY <2>1, <2>2 DEF Authorized!Init
<1>2. IInv /\ [Next]_vars => [Authorized!Next]_(Authorized!promise)
  <2> SUFFICES ASSUME IInv, [Next]_vars PROVE [Authorized!Next]_(Authorized!promise)
    OBVIOUS
  <2>1. ASSUME NEW a \in ActionId, NEW protected \in BOOLEAN,
               NEW p \in Proposal \cup {NoProposal}, PlanAction(a, protected, p)
        PROVE  Authorized!Next
    BY <2>1, PlanIsPromised DEF Authorized!Next
  <2>2. ASSUME NEW r \in Responder, NEW a \in ActionId, CommitExecution(r, a)
        PROVE  Authorized!Next
    BY <2>2, ExecutionIsPromised DEF Authorized!Next
  <2>3. ASSUME NEW p \in Proposal,
               \/ \E m \in Mission : ProposeAction(p, m)
               \/ \E approved \in BOOLEAN : DecideAction(p, approved)
        PROVE  [Authorized!Next]_(Authorized!promise)
    BY <2>3, ApprovalIsPromised DEF Authorized!Next
  <2>4. QED
    BY <2>1, <2>2, <2>3, OthersPromiseNothing, PromiseUnchanged DEF Next
<1>3. QED
  BY <1>1, <1>2, Invariance, PTL DEF Spec, AuthorizedSpec, Authorized!Spec
=============================================================================
