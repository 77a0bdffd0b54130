---------------------------- MODULE EngineeringPod ----------------------------
(***************************************************************************)
(* The engineering pod: a plan that its planner drafts and revises until    *)
(* the validator finds nothing, the packages of the plan executed in order  *)
(* of their dependencies, the evidence of each revised until it fits, and   *)
(* one integration manifest over all of it.  What planner and workers come  *)
(* up with is not the pod's doing: any draft and any evidence of the        *)
(* instance.  All findings of the two validators block.                     *)
(***************************************************************************)
EXTENDS Naturals, Sequences, FiniteSets, SequencesExt

CONSTANTS
  Package,         \* package ids, in the order of their names
  Scope,           \* write scopes
  Path,            \* files
  Inside,          \* pairs of a path or a scope and a scope that contains it
  Requirement,     \* requirements of the design bundle
  Must,            \* those of priority MUST
  Draft,           \* the plans a planner may come up with
  Work(_),         \* the evidence a worker may come up with for a package
  MaxPlanRounds,   \* max_plan_revision_rounds
  MaxWorkRounds,   \* max_implementation_revision_rounds
  MaxRuns          \* bound: runs of the pod for the mission

ASSUME PodAssumption ==
  /\ Package \subseteq Nat /\ IsFiniteSet(Package)
  /\ \A d \in Draft : DOMAIN d \subseteq Package
  /\ MaxPlanRounds \in Nat /\ MaxWorkRounds \in Nat /\ MaxRuns \in Nat

VARIABLES
  stage,           \* where the run stands
  plan,            \* the packages, by id
  round,           \* revisions so far, of the plan or of a package's evidence
  todo,            \* packages still to execute, in order
  draft,           \* the evidence under review, in a sequence of at most one
  evidence,        \* accepted evidence of this run, by package
  catalog,         \* latest artifacts: evidence of each package, and the manifest
  runs

pod == <<stage, plan, round, todo, draft, evidence, catalog, runs>>

Nothing == [p \in {} |-> {}]

-----------------------------------------------------------------------------
\* names that are no package have no dependencies
Deps(d, q) == IF q \in DOMAIN d THEN d[q].deps ELSE {}

\* the packages that must come before p, directly or not
Upstream(d, p) ==
  LET within[n \in Nat] == IF n = 0 THEN Deps(d, p)
                           ELSE within[n - 1] \cup UNION {Deps(d, q) : q \in within[n - 1]}
  IN  within[Cardinality(DOMAIN d)]

\* _ordered
Ordered(d, before, after) == before \in Upstream(d, after)

\* Mutant: a cycle is two packages that depend on each other.
MutualDependency(d) == \E p, q \in DOMAIN d : q \in d[p].deps /\ p \in d[q].deps

\* _has_cycle
HasCycle(d) == \E p \in DOMAIN d : p \in Upstream(d, p)

\* _scopes_overlap
ScopesOverlap(left, right) ==
  \E s \in left.scopes, t \in right.scopes : <<s, t>> \in Inside \/ <<t, s>> \in Inside

\* ImplementationWorkPackage.validate, and the references validate looks up
PackageIsValid(d, p) ==
  /\ d[p].requirements # {} /\ d[p].scopes # {} /\ d[p].expected # {} /\ p \notin d[p].deps
  /\ d[p].requirements \subseteq Requirement
  /\ d[p].deps \subseteq DOMAIN d

\* EngineeringPlanValidator.validate finds nothing
PlanIsSound(d) ==
  /\ \A p \in DOMAIN d : PackageIsValid(d, p)
  /\ ~HasCycle(d)
  /\ Must \subseteq UNION {d[p].requirements : p \in DOMAIN d}
  /\ \A p, q \in DOMAIN d :
       (p < q /\ ScopesOverlap(d[p], d[q])) => Ordered(d, p, q) \/ Ordered(d, q, p)

\* sorted by name
InNameOrder(S) == CHOOSE s \in [1..Cardinality(S) -> S] : \A i, j \in DOMAIN s : i < j => s[i] < s[j]

\* what is left and waits for nothing that is left
Ready(d, done) == {p \in DOMAIN d \ done : d[p].deps \subseteq done}

\* _execution_order: all that are ready, by name, then all that are ready now.
\* It is shorter than the plan when nothing is ready (engineering_dependency_deadlock).
ExecutionOrder(d) ==
  LET emitted[n \in Nat] ==
        IF n = 0 THEN <<>>
        ELSE emitted[n - 1] \o InNameOrder(Ready(d, ToSet(emitted[n - 1])))
  IN  emitted[Cardinality(DOMAIN d)]

\* Mutant: what a package writes is not compared with its scopes.
EvidenceIsVerified(package, e) ==
  e.paths # {} /\ e.verified /\ package.expected \subseteq e.artifacts

\* validate_evidence finds nothing: only files within the scopes, every expected
\* artifact, every verification passed
EvidenceFits(package, e) ==
  /\ e.paths # {} /\ e.verified /\ package.expected \subseteq e.artifacts
  /\ \A f \in e.paths : \E s \in package.scopes : <<f, s>> \in Inside

\* EngineeringIntegrationValidator.integrate: one owner of each file, artifact
\* and verification, dependencies first
Integrates(order, found) ==
  /\ \A i, j \in DOMAIN order : i < j =>
       LET e == found[order[i]] f == found[order[j]] IN
       /\ {e.paths \cap f.paths, e.artifacts \cap f.artifacts, e.ids \cap f.ids} = {{}}
       /\ order[j] \notin plan[order[i]].deps

Manifest(order, found) ==
  [order |-> order,
   paths |-> UNION {found[p].paths : p \in ToSet(order)},
   artifacts |-> UNION {found[p].artifacts \X {p} : p \in ToSet(order)},
   ids |-> UNION {found[p].ids : p \in ToSet(order)}]

-----------------------------------------------------------------------------
PodInit ==
  /\ stage = "idle" /\ plan = Nothing /\ round = 0 /\ todo = <<>> /\ draft = <<>>
  /\ evidence = Nothing /\ runs = 0
  /\ catalog = [evidence |-> Nothing, manifest |-> <<>>]

\* whatever raises ends the run; what the catalog has, it keeps
Raise(reason) ==
  /\ stage' = reason /\ plan' = Nothing /\ evidence' = Nothing
  /\ round' = 0 /\ todo' = <<>> /\ draft' = <<>>
  /\ UNCHANGED <<catalog, runs>>

DraftPlan(d) ==
  /\ stage \notin {"plan", "package"} /\ runs < MaxRuns
  /\ stage' = "plan" /\ plan' = d /\ round' = 0 /\ todo' = <<>> /\ draft' = <<>>
  /\ evidence' = Nothing /\ runs' = runs + 1 /\ UNCHANGED catalog

AcceptPlan ==
  /\ stage = "plan" /\ PlanIsSound(plan)
  /\ IF Len(ExecutionOrder(plan)) < Cardinality(DOMAIN plan) THEN Raise("deadlock")
     ELSE /\ stage' = "package" /\ todo' = ExecutionOrder(plan) /\ round' = 0
          /\ UNCHANGED <<plan, draft, evidence, catalog, runs>>

\* Mutant: off by one.
MayReviseOnceMore(limit) == round <= limit

\* the rounds of the loop are not used up
MayRevise(limit) == round < limit

\* a revision that changes nothing, its wording included, is no progress
RevisePlan ==
  /\ stage = "plan" /\ MayRevise(MaxPlanRounds) /\ ~PlanIsSound(plan)
  /\ \E d \in Draft, reworded \in BOOLEAN :
       IF d = plan /\ ~reworded THEN Raise("stopped")
       ELSE /\ plan' = d /\ round' = round + 1
            /\ UNCHANGED <<stage, todo, draft, evidence, catalog, runs>>

Exhausted ==
  /\ \/ stage = "plan" /\ ~MayRevise(MaxPlanRounds) /\ ~PlanIsSound(plan)
     \/ /\ stage = "package" /\ draft # <<>> /\ ~MayRevise(MaxWorkRounds)
        /\ ~EvidenceFits(plan[Head(todo)], draft[1])
  /\ Raise("stopped")

\* a missing worker, one that cannot revise, an exception of its own, a crash
WorkerFails == stage \in {"plan", "package"} /\ Raise("stopped")

Implement ==
  /\ stage = "package" /\ todo # <<>> /\ draft = <<>>
  /\ \E e \in Work(Head(todo)) : draft' = <<e>>
  /\ round' = 0
  /\ UNCHANGED <<stage, plan, todo, evidence, catalog, runs>>

AcceptEvidence ==
  /\ stage = "package" /\ draft # <<>> /\ EvidenceFits(plan[Head(todo)], draft[1])
  /\ evidence' = [p \in DOMAIN evidence \cup {Head(todo)} |->
                    IF p = Head(todo) THEN draft[1] ELSE evidence[p]]
  /\ catalog' = [catalog EXCEPT !.evidence =
                   [p \in DOMAIN @ \cup {Head(todo)} |-> IF p = Head(todo) THEN draft[1] ELSE @[p]]]
  /\ todo' = Tail(todo) /\ draft' = <<>> /\ round' = 0
  /\ UNCHANGED <<stage, plan, runs>>

ReviseEvidence ==
  /\ stage = "package" /\ draft # <<>> /\ MayRevise(MaxWorkRounds)
  /\ ~EvidenceFits(plan[Head(todo)], draft[1])
  /\ \E e \in Work(Head(todo)), reworded \in BOOLEAN :
       IF <<e>> = draft /\ ~reworded THEN Raise("stopped")
       ELSE /\ draft' = <<e>> /\ round' = round + 1
            /\ UNCHANGED <<stage, plan, todo, evidence, catalog, runs>>

Integrate ==
  LET order == ExecutionOrder(plan) IN
  /\ stage = "package" /\ todo = <<>>
  /\ IF ~Integrates(order, evidence) THEN Raise("stopped")
     ELSE /\ stage' = "done" /\ catalog' = [catalog EXCEPT !.manifest = <<Manifest(order, evidence)>>]
          /\ UNCHANGED <<plan, round, todo, draft, evidence, runs>>

PodNext ==
  \/ \E d \in Draft : DraftPlan(d)
  \/ AcceptPlan
  \/ RevisePlan
  \/ Exhausted
  \/ WorkerFails
  \/ Implement
  \/ AcceptEvidence
  \/ ReviseEvidence
  \/ Integrate

PodSpec == PodInit /\ [][PodNext]_pod

-----------------------------------------------------------------------------
\* A package is executed only while a plan is, its rounds are bounded, and what is
\* accepted is the work of packages that are behind.
PodTypeOK ==
  /\ DOMAIN plan \subseteq Package /\ ToSet(todo) \subseteq DOMAIN plan
  /\ round \in 0..(IF stage = "plan" THEN MaxPlanRounds ELSE MaxWorkRounds)
  /\ draft # <<>> => todo # <<>>
  /\ DOMAIN evidence \cap ToSet(todo) = {}

\* A plan the validator accepts can be executed: the order never deadlocks, and
\* has every package behind all that it depends on, directly or not. (validate
\* searches for cycles depth first, _execution_order takes layer after layer.)
AcceptedPlansExecute ==
  /\ stage # "deadlock"
  /\ stage = "package" =>
       \A p \in ToSet(todo) : Upstream(plan, p) \cap ToSet(todo) \subseteq
                              {todo[i] : i \in {j \in DOMAIN todo : \A k \in 1..j : todo[k] # p}}

\* The manifest of a finished run is backed: each MUST requirement by verified
\* evidence of a package that owns it, each file by one package of the run whose
\* scopes contain it, and the evidence in the catalog is this run's, earlier runs
\* that stopped half way notwithstanding.
ManifestIsBacked ==
  stage = "done" =>
    LET m == catalog.manifest[1] IN
    /\ \A r \in Must : \E p \in DOMAIN evidence : r \in plan[p].requirements /\ evidence[p].verified
    /\ \A f \in m.paths :
         \E p \in ToSet(m.order) : /\ f \in catalog.evidence[p].paths
                                   /\ \E s \in plan[p].scopes : <<f, s>> \in Inside
                                   /\ \A q \in ToSet(m.order) \ {p} : f \notin catalog.evidence[q].paths
=============================================================================
