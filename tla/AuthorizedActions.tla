-------------------------- MODULE AuthorizedActions --------------------------
(***************************************************************************)
(* What incident response promises of its actions, whoever serves it: an    *)
(* action is planned once with the authorization it needs, and executed     *)
(* once at most, in one step at a moment when that authorization is given.  *)
(* There are no locks, no second connection and no crashes here.            *)
(***************************************************************************)
CONSTANTS ActionId, Proposal

VARIABLES
  needs,           \* of each planned action, the proposals it waits for
  approved,        \* the proposals a human has approved for the mission
  executions       \* of each execution its place in the audit log, and the action

promise == <<needs, approved, executions>>

Needs == {{}} \cup {{p} : p \in Proposal}

Init == needs = [a \in {} |-> {}] /\ approved = {} /\ executions = {}

Plan(a) ==
  /\ a \notin DOMAIN needs
  /\ DOMAIN needs' = DOMAIN needs \cup {a} /\ needs'[a] \in Needs
  /\ \A b \in DOMAIN needs : needs'[b] = needs[b]
  /\ UNCHANGED <<approved, executions>>

\* an approval is never withdrawn
Approve(p) ==
  /\ p \notin approved /\ approved' = approved \cup {p}
  /\ UNCHANGED <<needs, executions>>

Execute(a) ==
  /\ a \in DOMAIN needs /\ needs[a] \subseteq approved
  /\ \A x \in executions : x[2] # a
  /\ \E x \in executions' : x[2] = a /\ executions' = executions \cup {x}
  /\ UNCHANGED <<needs, approved>>

Next ==
  \/ \E a \in ActionId : Plan(a) \/ Execute(a)
  \/ \E p \in Proposal : Approve(p)

Spec == Init /\ [][Next]_promise
=============================================================================
