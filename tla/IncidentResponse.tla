-------------------------- MODULE IncidentResponse --------------------------
(***************************************************************************)
(* One incident: its row, evidence, actions and event log                  *)
(* (runtime/incidents.py), and the human approvals its protected actions   *)
(* rest on (runtime/catalog.py).                                           *)
(*                                                                         *)
(* Every store method is one BEGIN IMMEDIATE transaction, so methods on    *)
(* the incident exclude each other and each is one action.  The exception  *)
(* is mark_action_executed: while it holds the incident's write lock it    *)
(* asks the catalog on another connection, whose proposals and decisions   *)
(* go on meanwhile.  Calls that raise change nothing and are left out; so  *)
(* are calls under a foreign mission id, which always raise.  Rows are     *)
(* keyed by incident, so one incident is enough; approvals belong to any   *)
(* mission.  Everything is on disk: a crash only rolls a transaction back. *)
(***************************************************************************)
EXTENDS Naturals, Sequences

CONSTANTS
  Responder,    (* processes that serve the incident                      *)
  Evidence,     (* evidence ids                                           *)
  ActionId,     (* ids of incident actions                                *)
  Proposal,     (* ids of approval proposals                              *)
  Mission,      (* missions proposals are made for                        *)
  Home,         (* the incident's mission                                 *)
  NoProposal,   (* proposal_id=None                                       *)
  MaxEvents     (* bound on the event log                                 *)

ASSUME HomeAssumption == Home \in Mission /\ NoProposal \notin Proposal
ASSUME MaxEventsAssumption == MaxEvents \in Nat

VARIABLES
  status,       (* incidents.status, ABSENT before declare                *)
  verified,     (* incidents.recovery_verified                            *)
  evidence,     (* ids of the rows of incident_evidence                   *)
  actions,      (* rows of incident_actions, NoAction where there is none *)
  log,          (* incident_events in order                               *)
  approvals,    (* the catalog's approvals, NoApproval where none         *)
  executing     (* per responder: the actions it is in the middle of      *)

incident == <<status, verified, evidence, actions, log>>
vars == <<incident, approvals, executing>>

Status == {"DECLARED", "TRIAGED", "CONTAINING", "CONTAINED",
           "RECOVERING", "MONITORING", "CLOSED"}

\* ALLOWED_TRANSITIONS
AllowedTransitions ==
  [DECLARED   |-> {"TRIAGED"},    TRIAGED    |-> {"CONTAINING"},
   CONTAINING |-> {"CONTAINED"},  CONTAINED  |-> {"RECOVERING"},
   RECOVERING |-> {"MONITORING"}, MONITORING |-> {"CLOSED", "RECOVERING"},
   CLOSED     |-> {}]

Plan == [protected : BOOLEAN, proposal : Proposal \cup {NoProposal},
         status : {"ABSENT", "PLANNED", "EXECUTED"}]
Approval == [mission : Mission, status : {"ABSENT", "PENDING", "APPROVED", "DENIED"}]

\* No row in the table.
NoAction == [protected |-> FALSE, proposal |-> NoProposal, status |-> "ABSENT"]
NoApproval == [mission |-> Home, status |-> "ABSENT"]

Event == [type : {"STATUS"}, about : Status]
           \cup [type : {"EVIDENCE", "VERIFIED"}, about : Evidence]
           \cup [type : {"PLANNED", "EXECUTED"}, about : ActionId]

Init ==
  /\ status = "ABSENT" /\ verified = FALSE /\ evidence = {}
  /\ actions = [a \in ActionId |-> NoAction] /\ log = <<>>
  /\ approvals = [p \in Proposal |-> NoApproval]
  /\ executing = [r \in Responder |-> {}]

-----------------------------------------------------------------------------
(* The incident store *)

\* Mutant: the rows are read before the transaction takes the write lock.
LockIgnored == TRUE

\* Otherwise a responder that begins waits for the write lock.
LockFree == \A r \in Responder : executing[r] = {}

\* Mutant: executions are not logged.
AppendUnlessExecuted(type, about) ==
  /\ Len(log) < MaxEvents
  /\ log' = IF type = "EXECUTED" THEN log
            ELSE Append(log, [type |-> type, about |-> about])

\* _append_event: the next sequence number, in the transaction of its cause.
AppendEvent(type, about) ==
  /\ Len(log) < MaxEvents
  /\ log' = Append(log, [type |-> type, about |-> about])

Declare ==
  /\ LockFree /\ status = "ABSENT"
  /\ status' = "DECLARED"
  /\ AppendEvent("STATUS", "DECLARED")
  /\ UNCHANGED <<verified, evidence, actions, approvals, executing>>

\* Mutant: closing does not look at recovery_verified.
ClosureNeedsEvidenceOnly == evidence = {}

\* Why transition would refuse to close.
ClosureIsBlocked == ~verified \/ evidence = {}

Transition(new) ==
  /\ LockFree /\ status \in Status
  /\ new \in AllowedTransitions[status]
  /\ new = "CLOSED" => ~ClosureIsBlocked
  /\ status' = new
  /\ AppendEvent("STATUS", new)
  /\ UNCHANGED <<verified, evidence, actions, approvals, executing>>

\* record_evidence looks at no status; the primary key refuses a known id.
RecordEvidence(e) ==
  /\ LockFree /\ status \in Status
  /\ e \notin evidence
  /\ evidence' = evidence \cup {e}
  /\ AppendEvent("EVIDENCE", e)
  /\ UNCHANGED <<status, verified, actions, approvals, executing>>

\* Mutant: a protected action may be planned without a proposal.
PlanNeedsNoProposal(protected, p) == TRUE

\* plan_action: the proposal need not exist yet, let alone be decided.
PlanIsComplete(protected, p) == protected => p # NoProposal

PlanAction(a, protected, p) ==
  /\ PlanIsComplete(protected, p)
  /\ LockFree /\ status \in Status
  /\ actions[a].status = "ABSENT"
  /\ actions' = [actions EXCEPT ![a] =
       [protected |-> protected, proposal |-> p, status |-> "PLANNED"]]
  /\ AppendEvent("PLANNED", a)
  /\ UNCHANGED <<status, verified, evidence, approvals, executing>>

\* The catalog's answer for this incident's mission is APPROVED.
IsApproved(p) ==
  /\ p \in Proposal
  /\ approvals[p].mission = Home /\ approvals[p].status = "APPROVED"

\* mark_action_executed up to its UPDATE: the lock, the row, the approval.
BeginExecution(r, a) ==
  /\ LockFree /\ status \in Status
  /\ actions[a].status = "PLANNED"
  /\ actions[a].protected => IsApproved(actions[a].proposal)
  /\ executing' = [executing EXCEPT ![r] = {a}]
  /\ UNCHANGED <<incident, approvals>>

\* The rest of mark_action_executed and its commit.
CommitExecution(r, a) ==
  /\ a \in executing[r]
  /\ actions' = [actions EXCEPT ![a] = [@ EXCEPT !.status = "EXECUTED"]]
  /\ AppendEvent("EXECUTED", a)
  /\ executing' = [executing EXCEPT ![r] = {}]
  /\ UNCHANGED <<status, verified, evidence, approvals>>

\* The responder dies: SQLite rolls the transaction back and frees the lock.
Crash(r) ==
  /\ executing[r] # {}
  /\ executing' = [executing EXCEPT ![r] = {}]
  /\ UNCHANGED <<incident, approvals>>

VerifyRecovery(e) ==
  /\ LockFree /\ status \in {"RECOVERING", "MONITORING"}
  /\ e \in evidence
  /\ verified' = TRUE
  /\ AppendEvent("VERIFIED", e)
  /\ UNCHANGED <<status, evidence, actions, approvals, executing>>

(* The catalog *)

ProposeAction(p, m) ==
  /\ approvals[p].status = "ABSENT"
  /\ approvals' = [approvals EXCEPT ![p] = [mission |-> m, status |-> "PENDING"]]
  /\ UNCHANGED <<incident, executing>>

\* Mutant: a decision may be revised.
KnownProposal(p) == approvals[p].status # "ABSENT"

Undecided(p) == approvals[p].status = "PENDING"

DecideAction(p, approved) ==
  /\ Undecided(p)
  /\ approvals' = [approvals EXCEPT ![p] =
       [@ EXCEPT !.status = IF approved THEN "APPROVED" ELSE "DENIED"]]
  /\ UNCHANGED <<incident, executing>>

Next ==
  \/ Declare
  \/ \E new \in Status : Transition(new)
  \/ \E e \in Evidence : RecordEvidence(e) \/ VerifyRecovery(e)
  \/ \E a \in ActionId, protected \in BOOLEAN, p \in Proposal \cup {NoProposal} :
       PlanAction(a, protected, p)
  \/ \E r \in Responder, a \in ActionId : BeginExecution(r, a) \/ CommitExecution(r, a)
  \/ \E r \in Responder : Crash(r)
  \/ \E p \in Proposal, m \in Mission : ProposeAction(p, m)
  \/ \E p \in Proposal, approved \in BOOLEAN : DecideAction(p, approved)

Spec == Init /\ [][Next]_vars

-----------------------------------------------------------------------------
(* Correctness *)

\* Every row is well formed; a protected action names a proposal, and a
\* responder is inside one transaction at a time.
TypeOK ==
  /\ status \in Status \cup {"ABSENT"} /\ verified \in BOOLEAN
  /\ evidence \subseteq Evidence
  /\ actions \in [ActionId -> Plan]
  /\ \A a \in ActionId : actions[a].protected => actions[a].proposal # NoProposal
  /\ log \in Seq(Event)
  /\ approvals \in [Proposal -> Approval]
  /\ executing \in [Responder -> SUBSET ActionId]

Executed(a) == actions[a].status = "EXECUTED"

\* A protected action that was executed rests on a proposal that a human has
\* approved for this mission, and that approval stands: it was read while the
\* catalog was free to change (runtime/incidents.py mark_action_executed).
ProtectedActionsAreApproved ==
  \A a \in ActionId :
    Executed(a) /\ actions[a].protected => IsApproved(actions[a].proposal)

\* No action is executed twice, whatever responders race or crash, and none
\* before it was planned: the log has one EXECUTED event for an action, exactly
\* when its row says so, after the one PLANNED event (mark_action_executed).
ActionsRunOnce ==
  \A i \in DOMAIN log : log[i].type = "EXECUTED" =>
    /\ Executed(log[i].about)
    /\ \A j \in DOMAIN log : log[j].type = "EXECUTED" /\ log[j].about = log[i].about => i = j
    /\ \E k \in 1 .. i - 1 : log[k].type = "PLANNED" /\ log[k].about = log[i].about

\* The k-th event verifies a recovery that had begun, against evidence recorded
\* before it.
EarnedVerification(k) ==
  /\ log[k].type = "VERIFIED"
  /\ \E j \in 1 .. k - 1 : log[j] = [type |-> "EVIDENCE", about |-> log[k].about]
  /\ \E h \in 1 .. k - 1 : log[h] = [type |-> "STATUS", about |-> "RECOVERING"]

\* Whoever reads the log sees how a closure was earned: recovery began, evidence
\* was recorded, then recovery was verified against that evidence, then the
\* incident was closed (transition, verify_recovery).
ClosureIsEarned ==
  \A i \in DOMAIN log : log[i] = [type |-> "STATUS", about |-> "CLOSED"] =>
    \E k \in 1 .. i - 1 : EarnedVerification(k)

\* The rows can be told from the log alone: the store pairs every mutation with
\* its event in one transaction (class IncidentResponseStore).
LogExplainsRows ==
  /\ evidence = {e \in Evidence : \E i \in DOMAIN log : log[i] = [type |-> "EVIDENCE", about |-> e]}
  /\ verified <=> \E i \in DOMAIN log : log[i].type = "VERIFIED"
  /\ \A a \in ActionId :
       /\ actions[a].status # "ABSENT" <=> \E i \in DOMAIN log : log[i] = [type |-> "PLANNED", about |-> a]
       /\ Executed(a) <=> \E i \in DOMAIN log : log[i] = [type |-> "EXECUTED", about |-> a]
  /\ status # "ABSENT" =>
       \E i \in DOMAIN log :
         /\ log[i] = [type |-> "STATUS", about |-> status]
         /\ \A j \in i + 1 .. Len(log) : log[j].type # "STATUS"

\* The promise that responders rely on: an execution is one step at a moment when
\* its approval stands, although the approval is read on another connection than
\* the execution is committed on, and comes once, after the action was planned
\* (mark_action_executed, catalog.py).
Planned == {a \in ActionId : actions[a].status # "ABSENT"}
NeedsOf(plan) == IF plan.protected THEN {plan.proposal} ELSE {}

Authorized == INSTANCE AuthorizedActions WITH
  needs <- [a \in Planned |-> NeedsOf(actions[a])],
  approved <- {p \in Proposal : IsApproved(p)},
  executions <- {<<i, log[i].about>> : i \in {j \in DOMAIN log : log[j].type = "EXECUTED"}}
AuthorizedSpec == Authorized!Spec

-----------------------------------------------------------------------------
(* What the safety properties rest on *)

\* Whoever holds the lock holds it alone, for an action that may be executed.
HolderMayExecute ==
  \A r \in Responder, a \in ActionId : a \in executing[r] =>
    /\ status \in Status
    /\ actions[a].status = "PLANNED"
    /\ actions[a].protected => IsApproved(actions[a].proposal)
    /\ \A s \in Responder, b \in ActionId : b \in executing[s] => s = r /\ b = a

\* Every row was announced in the log before anything can refer to it.
RowsAreLogged ==
  /\ \A e \in evidence : \E i \in DOMAIN log : log[i] = [type |-> "EVIDENCE", about |-> e]
  /\ \A a \in ActionId : actions[a].status # "ABSENT" =>
       \E i \in DOMAIN log : log[i].type = "PLANNED" /\ log[i].about = a
  /\ status \in {"RECOVERING", "MONITORING"} =>
       \E i \in DOMAIN log : log[i] = [type |-> "STATUS", about |-> "RECOVERING"]
  /\ verified => \E i \in DOMAIN log : EarnedVerification(i)

IInv ==
  /\ TypeOK
  /\ ProtectedActionsAreApproved
  /\ ActionsRunOnce
  /\ ClosureIsEarned
  /\ HolderMayExecute
  /\ RowsAreLogged
=============================================================================
