---------------------------- MODULE MissionTable ----------------------------
(***************************************************************************)
(* What the mission store promises to its callers: one table of task       *)
(* records that only moves by transitions acceptable in the table itself.  *)
(* No ledger, no memory, no crash: a crash of the runner, a replay, or an  *)
(* append that fails is not visible here.                                  *)
(***************************************************************************)
EXTENDS TaskMachine

CONSTANTS
  Task,
  Requests,       (* the calls the environment makes              *)
  ControlPlane    (* the actor that releases tasks                *)

VARIABLE table

Init == table = [t \in Task |-> NewTask]

Step(t, req) ==
  /\ Accepts(table[t], req)
  /\ table' = [table EXCEPT ![t] = Applied(@, req)]

Next == \E t \in Task, req \in Requests \cup {ReleaseRequest(ControlPlane)} : Step(t, req)

Spec == Init /\ [][Next]_table
=============================================================================
