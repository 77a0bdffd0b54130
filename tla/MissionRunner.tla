---------------------------- MODULE MissionRunner ----------------------------
(***************************************************************************)
(* One mission: the SQLite audit ledger that is its durable truth and the  *)
(* one runner process that serves it (control_plane/runner.py,             *)
(* control_plane/graph.py, runtime/sqlite_store.py).                       *)
(*                                                                         *)
(* The ledger is kept as what its readers can tell about it:               *)
(*   committed   the task table a replay of the mission's events yields,   *)
(*   replayable  whether that replay gets to the end, or raises at an      *)
(*               event the state machine refuses,                          *)
(*   worked      for each task, the actors of its IN_PROGRESS events.      *)
(* Replay is deterministic and restore_runner is the ledger's only reader, *)
(* so nothing the runner does depends on more than the first two; worked   *)
(* is a history the properties compare the runtime records with.           *)
(***************************************************************************)
EXTENDS TaskMachine, Integers

CONSTANTS
  Task,
  Deps,           (* Deps[t]: the tasks that task t depends on             *)
  Requests,       (* the calls of transition the environment makes         *)
  ControlPlane    (* the actor of release_ready_tasks                      *)

\* validate_graph: no unknown dependency and no cycle, self dependency included.
ValidGraph(deps) ==
  /\ deps \in [Task -> SUBSET Task]
  /\ ~ \E cycle \in SUBSET Task :
         cycle # {} /\ \A t \in cycle : deps[t] \cap cycle # {}

ASSUME RequestsAssumption == Requests \subseteq Request /\ ControlPlane \in Actor
ASSUME DepsAssumption == ValidGraph(Deps)

VARIABLES
  committed, replayable, worked,   (* durable: the ledger                    *)
  live,                            (* is the runner process up               *)
  mem,                             (* runner.tasks                           *)
  call,                            (* <<>>, or the task and request whose    *)
                                   (* event is appended but not yet applied  *)
  releasing                        (* what release_ready_tasks has left      *)

ledger == <<committed, replayable, worked>>
vars == <<committed, replayable, worked, live, mem, call, releasing>>

Fresh == [t \in Task |-> NewTask]
AnyRequest == Requests \cup {ReleaseRequest(ControlPlane)}

\* A mutant: a verified dependency is taken for a finished one.
ReadyOnVerified(tasks) ==
  { t \in Task : /\ tasks[t].state = "BACKLOG"
                 /\ \A d \in Deps[t] : tasks[d].state \in {"VERIFIED", "DONE"} }

\* ready_tasks, over the states the runner has in memory.
ReadyTasks(tasks) ==
  { t \in Task : /\ tasks[t].state = "BACKLOG"
                 /\ \A d \in Deps[t] : tasks[d].state = "DONE" }

Init ==
  /\ committed = Fresh /\ replayable = TRUE /\ worked = [t \in Task |-> {}]
  /\ live = TRUE /\ mem = Fresh /\ call = <<>> /\ releasing = {}

-----------------------------------------------------------------------------
(* The ledger append: the event becomes durable as it is.  Only a replay,  *)
(* which makes every transition of the ledger once more, judges it.        *)
ReplayAccepts(t, req) == Accepts(committed[t], req)

Append(t, req) ==
  /\ committed' = [committed EXCEPT ![t] = Applied(@, req)]
  /\ replayable' = (replayable /\ ReplayAccepts(t, req))
  /\ worked' = IF req.target = "IN_PROGRESS"
                 THEN [worked EXCEPT ![t] = @ \cup {req.actor}]
                 ELSE worked

\* A mutant: a second call is validated before the first one is applied.
TransitionUnapplied(t, req) ==
  /\ live /\ releasing = {}
  /\ Accepts(mem[t], req)
  /\ Append(t, req)
  /\ call' = <<t, req>>
  /\ UNCHANGED <<live, mem, releasing>>

\* transition up to the return of ledger.append.
Transition(t, req) ==
  /\ live /\ call = <<>> /\ releasing = {}
  /\ Accepts(mem[t], req)
  /\ Append(t, req)
  /\ call' = <<t, req>>
  /\ UNCHANGED <<live, mem, releasing>>

\* A mutant: the record does not take over the new worker.
ApplyWithoutWorkers ==
  /\ live /\ call # <<>>
  /\ mem' = [mem EXCEPT ![call[1]] = [Applied(@, call[2]) EXCEPT !.workers = mem[call[1]].workers]]
  /\ call' = <<>>
  /\ releasing' = releasing \ {call[1]}
  /\ UNCHANGED <<ledger, live>>

\* transition after ledger.append returned: the in-memory record follows.
Apply ==
  /\ live /\ call # <<>>
  /\ mem' = [mem EXCEPT ![call[1]] = Applied(@, call[2])]
  /\ call' = <<>>
  /\ releasing' = releasing \ {call[1]}
  /\ UNCHANGED <<ledger, live>>

\* release_ready_tasks computes the list once, then makes one transition each.
Release ==
  /\ live /\ call = <<>> /\ releasing = {}
  /\ releasing' = ReadyTasks(mem)
  /\ UNCHANGED <<ledger, live, mem, call>>

ReleaseOne(t) ==
  /\ live /\ call = <<>> /\ t \in releasing
  /\ Accepts(mem[t], ReleaseRequest(ControlPlane))
  /\ Append(t, ReleaseRequest(ControlPlane))
  /\ call' = <<t, ReleaseRequest(ControlPlane)>>
  /\ UNCHANGED <<live, mem, releasing>>

\* An append that raises (the database is locked, the disk is full) leaves the
\* loop with some tasks released; a single transition just has no effect.
ReleaseFails ==
  /\ live /\ call = <<>> /\ releasing # {}
  /\ releasing' = {}
  /\ UNCHANGED <<ledger, live, mem, call>>

Crash ==
  /\ live
  /\ live' = FALSE /\ mem' = Fresh /\ call' = <<>> /\ releasing' = {}
  /\ UNCHANGED ledger

\* A mutant: the graph is restored and the events are not replayed.
RestoreGraphOnly ==
  /\ ~live /\ replayable
  /\ live' = TRUE /\ mem' = Fresh
  /\ UNCHANGED <<ledger, call, releasing>>

\* restore_runner: replay the ledger into a fresh runner, or raise.
Restore ==
  /\ ~live /\ replayable
  /\ live' = TRUE /\ mem' = committed
  /\ UNCHANGED <<ledger, call, releasing>>

Next ==
  \/ \E t \in Task, req \in Requests : Transition(t, req)
  \/ Apply
  \/ Release
  \/ \E t \in Task : ReleaseOne(t)
  \/ ReleaseFails
  \/ Crash
  \/ Restore

Spec == Init /\ [][Next]_vars

-----------------------------------------------------------------------------
TypeOK ==
  /\ committed \in [Task -> TaskRecord]
  /\ replayable \in BOOLEAN
  /\ worked \in [Task -> SUBSET Actor]
  /\ live \in BOOLEAN
  /\ mem \in [Task -> TaskRecord]
  /\ call \in {<<>>} \cup (Task \X AnyRequest)
  /\ releasing \in SUBSET Task

\* After a restart the runner has exactly the table it lost, and while it runs
\* its memory differs from the ledger by the one event it is about to apply:
\* "canonical task state is committed only after the audit append succeeds".
MemoryFollowsLedger ==
  live => committed = IF call = <<>> THEN mem
                      ELSE [mem EXCEPT ![call[1]] = Applied(@, call[2])]

\* Whatever was appended, and wherever the runner crashed, restore_runner
\* gets through the ledger instead of raising.
AlwaysRestorable == replayable

\* A verified task carries evidence and at least one reviewer, no blocking
\* objection came with the verdict, and no reviewer ever worked on the task:
\* not before a crash, nor in an earlier round of rework.
IndependentReview ==
  \A t \in Task : committed[t].state = "VERIFIED" =>
    /\ committed[t].evidence # {}
    /\ committed[t].objections = {}
    /\ committed[t].reviewers # {}
    /\ committed[t].reviewers \cap worked[t] = {}

\* What release_ready_tasks still has to release is in the backlog (or just
\* left it) and every dependency is DONE in the ledger, although the list was
\* computed before the first of its appends.
ReleaseRestsOnDoneDependencies ==
  \A t \in releasing :
    /\ committed[t].state = IF call = <<>> \/ call[1] # t THEN "BACKLOG" ELSE "READY"
    /\ \A d \in Deps[t] : committed[d].state = "DONE"

\* assert_all_done passes only when the ledger itself ends with every task
\* DONE, and each of them has evidence and a reviewer on record.
AssertAllDone == live /\ call = <<>> /\ \A t \in Task : mem[t].state = "DONE"

CompletionIsBacked ==
  AssertAllDone => \A t \in Task : /\ committed[t].state = "DONE"
                                   /\ committed[t].evidence # {}
                                   /\ committed[t].reviewers # {}

\* The workers on a task's record are those the ledger shows starting it.
WorkersAreRecorded == \A t \in Task : committed[t].workers = worked[t]

\* The inductive strengthening: typing, the agreement of memory and ledger, and
\* the agreement of recorded and actual workers that independence rests on.
IInv ==
  /\ TypeOK
  /\ ~live => call = <<>> /\ releasing = {}
  /\ MemoryFollowsLedger
  /\ AlwaysRestorable
  /\ WorkersAreRecorded
  /\ IndependentReview
  /\ ReleaseRestsOnDoneDependencies

\* The mission store's promise: crashes, replays and half-done releases are
\* invisible in the table of task records.
Table == INSTANCE MissionTable WITH table <- committed
TableSpec == Table!Spec

\* Governance says a blocking objection is resolved with new evidence or a
\* change, never erased: a task on whose record one stands is not verified on
\* the evidence it was objected to.
ObjectionsAreResolved ==
  [][\A t \in Task :
       committed[t].objections # {} /\ committed'[t].evidence = committed[t].evidence
         => committed'[t].state # "VERIFIED"]_vars
=============================================================================
