--------------------------- MODULE MCMissionRunner ---------------------------
(***************************************************************************)
(* Two tasks, the second depending on the first; one worker who may also   *)
(* be named as a reviewer, one independent reviewer, the control plane.    *)
(***************************************************************************)
EXTENDS MissionRunner, TLC

CONSTANTS t1, t2, ann, bob, cp, e1, o1

MCTask == {t1, t2}
MCDeps == (t1 :> {}) @@ (t2 :> {t1})
MCActor == {ann, bob, cp}

Call(target, actor, evidence, reviewers, objections, approval) ==
  [ target |-> target, actor |-> actor, evidence |-> evidence,
    reviewers |-> reviewers, objections |-> objections, approval |-> approval ]

\* Only IN_PROGRESS looks at the actor and the approval; evidence, reviewers
\* and objections are offered, or held back, where a review looks at them and
\* on the way to DONE, where nothing does.
MCRequests ==
  { Call("IN_PROGRESS", a, {}, {}, {}, ok) : a \in {ann, bob}, ok \in BOOLEAN }
  \cup { Call("REVIEW", bob, ev, {}, ob, FALSE) : ev \in SUBSET {e1}, ob \in SUBSET {o1} }
  \cup { Call("VERIFIED", bob, ev, rs, ob, FALSE) :
           ev \in SUBSET {e1}, rs \in SUBSET {ann, bob}, ob \in SUBSET {o1} }
  \cup { Call("DONE", cp, {}, rs, {}, FALSE) : rs \in {{}, {ann}} }
  \cup { Call(s, ann, {}, {}, {}, FALSE) :
           s \in TaskState \ {"BACKLOG", "IN_PROGRESS", "REVIEW", "VERIFIED", "DONE"} }
=============================================================================
