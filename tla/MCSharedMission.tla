--------------------------- MODULE MCSharedMission ---------------------------
(***************************************************************************)
(* Two runners and one task.  Evidence and reviewers are supplied where    *)
(* they are required; the two workers race for the task.                   *)
(***************************************************************************)
EXTENDS SharedMission

CONSTANTS ann, bob, e1, r1, r2, x

Call(target, actor, evidence, reviewers) ==
  [ target |-> target, actor |-> actor, evidence |-> evidence, reviewers |-> reviewers,
    objections |-> {}, approval |-> FALSE ]

MCRequests ==
  { Call("IN_PROGRESS", a, {}, {}) : a \in {ann, bob} }
  \cup { Call("REVIEW", bob, {e1}, {}), Call("VERIFIED", bob, {e1}, {bob}) }
  \cup { Call(s, ann, {}, {}) :
           s \in {"READY", "READY_FOR_VERIFICATION", "DONE", "FAILED", "STALE"} }
=============================================================================
