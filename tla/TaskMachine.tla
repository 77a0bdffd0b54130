----------------------------- MODULE TaskMachine -----------------------------
(***************************************************************************)
(* The task state machine of the control plane as pure operators           *)
(* (control_plane/state.py) and the effect of one accepted transition on   *)
(* the runtime record of a task (control_plane/runner.py, transition).     *)
(*                                                                         *)
(* A tuple of ids in the code is a set here: the code only asks whether a  *)
(* tuple is empty, whether two of them intersect, and replaces one by      *)
(* another.  An approval id is a Boolean: was one supplied.                *)
(***************************************************************************)
CONSTANTS
  Actor,       (* workers, reviewers and the control plane itself *)
  Evidence,    (* evidence ids                                    *)
  Objection    (* blocking objection ids                          *)

TaskState ==
  { "BACKLOG", "READY", "IN_PROGRESS", "BLOCKED", "READY_FOR_VERIFICATION",
    "REVIEW", "CHANGES_REQUESTED", "VERIFIED", "DONE", "FAILED", "CANCELLED",
    "STALE", "AWAITING_HUMAN_APPROVAL" }

\* The edges of the table _ALLOWED.
Allowed ==
  ({"BACKLOG"} \X {"READY", "CANCELLED"})
  \cup ({"READY"} \X {"IN_PROGRESS", "BLOCKED", "CANCELLED", "STALE"})
  \cup ({"IN_PROGRESS"} \X {"BLOCKED", "READY_FOR_VERIFICATION", "FAILED",
                            "CANCELLED", "AWAITING_HUMAN_APPROVAL", "STALE"})
  \cup ({"BLOCKED"} \X {"READY", "IN_PROGRESS", "CANCELLED", "FAILED", "STALE"})
  \cup ({"READY_FOR_VERIFICATION"} \X {"REVIEW", "CHANGES_REQUESTED", "FAILED", "STALE"})
  \cup ({"REVIEW"} \X {"VERIFIED", "CHANGES_REQUESTED", "FAILED", "STALE"})
  \cup ({"CHANGES_REQUESTED"} \X {"IN_PROGRESS", "CANCELLED", "STALE"})
  \cup ({"VERIFIED"} \X {"DONE", "STALE"})
  \cup ({"DONE"} \X {"STALE"})
  \cup ({"FAILED", "STALE"} \X {"READY", "CANCELLED"})
  \cup ({"AWAITING_HUMAN_APPROVAL"} \X {"IN_PROGRESS", "CANCELLED", "FAILED", "STALE"})

\* The arguments of one call of MissionRunner.transition.
Request ==
  [ target     : TaskState,
    actor      : Actor,
    evidence   : SUBSET Evidence,
    reviewers  : SUBSET Actor,
    objections : SUBSET Objection,
    approval   : BOOLEAN ]

TaskRecord ==
  [ state      : TaskState,
    evidence   : SUBSET Evidence,
    reviewers  : SUBSET Actor,
    workers    : SUBSET Actor,
    objections : SUBSET Objection ]

NewTask ==
  [ state |-> "BACKLOG", evidence |-> {}, reviewers |-> {}, workers |-> {},
    objections |-> {} ]

\* A mutant: the tuple of workers is rebuilt from the present actor alone.
LatestWorkerOnly(record, req) ==
  IF req.target = "IN_PROGRESS" THEN {req.actor} ELSE record.workers

\* Whoever starts a task becomes one of its workers, and stays one.
WorkersAfter(record, req) ==
  IF req.target = "IN_PROGRESS" THEN record.workers \cup {req.actor}
                                ELSE record.workers

\* A mutant: an empty list of reviewers passes the independence test.
ReviewMayBeAbsent(record, req) ==
  /\ req.evidence # {}
  /\ req.reviewers \cap WorkersAfter(record, req) = {}
  /\ req.objections = {}

ReviewIsIndependent(record, req) ==
  /\ req.evidence # {}
  /\ req.reviewers # {}
  /\ req.reviewers \cap WorkersAfter(record, req) = {}
  /\ req.objections = {}

\* validate_transition: the call does not raise.
Accepts(record, req) ==
  /\ <<record.state, req.target>> \in Allowed
  /\ req.target = "REVIEW" => req.evidence # {}
  /\ req.target = "VERIFIED" => ReviewIsIndependent(record, req)
  /\ (record.state = "AWAITING_HUMAN_APPROVAL" /\ req.target = "IN_PROGRESS")
       => req.approval

\* A mutant: the evidence ids are appended as one element.
NestedEvidence(record, req) ==
  [ state      |-> req.target,
    evidence   |-> IF req.evidence # {} THEN record.evidence \cup {req.evidence}
                                        ELSE record.evidence,
    reviewers  |-> IF req.reviewers # {} THEN req.reviewers ELSE record.reviewers,
    workers    |-> WorkersAfter(record, req),
    objections |-> req.objections ]

\* The mutation of the record after the ledger accepted the event.
Applied(record, req) ==
  [ state      |-> req.target,
    evidence   |-> IF req.evidence # {} THEN req.evidence ELSE record.evidence,
    reviewers  |-> IF req.reviewers # {} THEN req.reviewers ELSE record.reviewers,
    workers    |-> WorkersAfter(record, req),
    objections |-> req.objections ]

\* The request release_ready_tasks makes for each task it releases.
ReleaseRequest(controlPlane) ==
  [ target |-> "READY", actor |-> controlPlane, evidence |-> {},
    reviewers |-> {}, objections |-> {}, approval |-> FALSE ]
=============================================================================
