------------------------- MODULE MissionRunnerProofs -------------------------
(***************************************************************************)
(* Theorems about one mission and its runner, for every set of tasks,      *)
(* actors, evidence, objections, every dependency graph and every set of   *)
(* calls the environment may make.                                         *)
(***************************************************************************)
EXTENDS MissionRunner, TLAPS

\* Every call the runner handles, the control plane's releases included, is a
\* request of the state machine.
LEMMA AnyRequestIsRequest == AnyRequest \subseteq Request
<1>1. ReleaseRequest(ControlPlane) \in Request
  BY RequestsAssumption DEF ReleaseRequest, Request, TaskState
<1>2. QED
  BY <1>1, RequestsAssumption DEF AnyRequest

\* A transition takes a task record to a task record.
LEMMA AppliedIsRecord ==
  ASSUME NEW record \in TaskRecord, NEW req \in Request
  PROVE  Applied(record, req) \in TaskRecord
<1>1. WorkersAfter(record, req) \in SUBSET Actor
  BY DEF WorkersAfter, TaskRecord, Request
<1>2. QED
  BY <1>1 DEF Applied, TaskRecord, Request

\* The one step every action that writes the ledger has in common: an event
\* that the in-memory record accepts is appended while memory and ledger agree.
LEMMA AppendPreserves ==
  ASSUME IInv, live, call = <<>>, NEW t \in Task, NEW req \in AnyRequest,
         Accepts(mem[t], req), Append(t, req), call' = <<t, req>>,
         UNCHANGED <<live, mem, releasing>>,
         releasing = {} \/ (t \in releasing /\ req = ReleaseRequest(ControlPlane))
  PROVE  IInv'
<1>1. req \in Request
  BY AnyRequestIsRequest
<1>2. committed = mem /\ Accepts(committed[t], req)
  BY DEF IInv, MemoryFollowsLedger
<1>3. committed' = [committed EXCEPT ![t] = Applied(committed[t], req)]
  BY DEF Append, ReplayAccepts
<1>4. committed \in [Task -> TaskRecord] /\ committed[t] \in TaskRecord
  BY DEF IInv, TypeOK
<1>5. Applied(committed[t], req) \in TaskRecord
  BY <1>1, <1>4, AppliedIsRecord
<1>6. worked \in [Task -> SUBSET Actor] /\ req.actor \in Actor
  BY <1>1 DEF IInv, TypeOK, Request
<1>7. worked' \in [Task -> SUBSET Actor]
  BY <1>6 DEF Append, ReplayAccepts
<1>8. TypeOK'
  BY <1>2, <1>3, <1>4, <1>5, <1>7 DEF IInv, TypeOK, Append, ReplayAccepts
<1>9. MemoryFollowsLedger'
  BY <1>2, <1>3 DEF MemoryFollowsLedger
<1>10. AlwaysRestorable'
  BY <1>2 DEF IInv, AlwaysRestorable, Append, ReplayAccepts
<1>11. WorkersAreRecorded'
  <2>1. ASSUME NEW u \in Task PROVE committed'[u].workers = worked'[u]
    <3>1. committed[u].workers = worked[u]
      BY DEF IInv, WorkersAreRecorded
    <3>2. CASE u # t
      BY <3>1, <3>2, <1>3, <1>4, <1>6 DEF Append, ReplayAccepts
    <3>3. CASE u = t
      <4>1. committed'[t].workers = WorkersAfter(committed[t], req)
        BY <1>3, <1>4 DEF Applied
      <4>2. worked'[t] = IF req.target = "IN_PROGRESS" THEN worked[t] \cup {req.actor}
                                                      ELSE worked[t]
        BY <1>6 DEF Append, ReplayAccepts
      <4>3. QED
        BY <3>1, <3>3, <4>1, <4>2 DEF WorkersAfter
    <3>4. QED
      BY <3>2, <3>3
  <2>2. QED
    BY <2>1 DEF WorkersAreRecorded
<1>12. IndependentReview'
  <2>1. ASSUME NEW u \in Task, committed'[u].state = "VERIFIED"
        PROVE  /\ committed'[u].evidence # {}
               /\ committed'[u].objections = {}
               /\ committed'[u].reviewers # {}
               /\ committed'[u].reviewers \cap worked'[u] = {}
    <3>1. CASE u # t
      <4>1. committed'[u] = committed[u] /\ worked'[u] = worked[u]
        BY <3>1, <1>3, <1>4, <1>6 DEF Append, ReplayAccepts
      <4>2. QED
        BY <2>1, <4>1 DEF IInv, IndependentReview
    <3>2. CASE u = t
      <4>1. committed'[t] = Applied(committed[t], req)
        BY <1>3, <1>4
      <4>2. req.target = "VERIFIED"
        BY <2>1, <3>2, <4>1 DEF Applied
      <4>3. ReviewIsIndependent(committed[t], req)
        BY <4>2, <1>2 DEF Accepts
      <4>4. worked'[t] = worked[t] /\ WorkersAfter(committed[t], req) = worked[t]
        BY <4>2 DEF Append, ReplayAccepts, WorkersAfter, IInv, WorkersAreRecorded
      <4>5. QED
        BY <3>2, <4>1, <4>3, <4>4 DEF Applied, ReviewIsIndependent
    <3>3. QED
      BY <3>1, <3>2
  <2>2. QED
    BY <2>1 DEF IndependentReview
<1>13. ReleaseRestsOnDoneDependencies'
  <2>1. CASE releasing = {}
    BY <2>1 DEF ReleaseRestsOnDoneDependencies
  <2>2. CASE t \in releasing /\ req = ReleaseRequest(ControlPlane)
    <3>1. ASSUME NEW u \in releasing
          PROVE  /\ committed'[u].state = IF u = t THEN "READY" ELSE "BACKLOG"
                 /\ \A d \in Deps[u] : committed'[d].state = "DONE"
      <4>1. u \in Task /\ Deps[u] \subseteq Task
        BY DepsAssumption DEF IInv, TypeOK, ValidGraph
      <4>2. committed[u].state = "BACKLOG" /\ committed[t].state = "BACKLOG"
        BY <2>2 DEF IInv, ReleaseRestsOnDoneDependencies
      <4>3. \A d \in Deps[u] : d # t /\ committed[d].state = "DONE"
        BY <4>2 DEF IInv, ReleaseRestsOnDoneDependencies
      <4>4. committed'[t].state = "READY"
        BY <2>2, <1>3, <1>4 DEF Applied, ReleaseRequest
      <4>5. QED
        BY <4>1, <4>2, <4>3, <4>4, <1>3, <1>4
    <3>2. QED
      BY <3>1 DEF ReleaseRestsOnDoneDependencies
  <2>3. QED
    BY <2>1, <2>2
<1>14. (~live => call = <<>> /\ releasing = {})'
  OBVIOUS
<1>15. QED
  BY <1>8, <1>9, <1>10, <1>11, <1>12, <1>13, <1>14 DEF IInv

-----------------------------------------------------------------------------
LEMMA InitInductive == Init => IInv
<1>1. NewTask \in TaskRecord
  BY DEF NewTask, TaskRecord, TaskState
<1>2. Init => TypeOK
  BY <1>1 DEF Init, TypeOK, Fresh
<1>3. QED
  BY <1>2 DEF Init, IInv, Fresh, NewTask, MemoryFollowsLedger, AlwaysRestorable,
     WorkersAreRecorded, IndependentReview, ReleaseRestsOnDoneDependencies

LEMMA TransitionInductive ==
  ASSUME IInv, NEW t \in Task, NEW req \in Requests, Transition(t, req)
  PROVE  IInv'
BY AppendPreserves DEF Transition, AnyRequest

LEMMA ReleaseOneInductive ==
  ASSUME IInv, NEW t \in Task, ReleaseOne(t)
  PROVE  IInv'
BY AppendPreserves DEF ReleaseOne, AnyRequest

LEMMA ApplyInductive == IInv /\ Apply => IInv'
<1> SUFFICES ASSUME IInv, Apply PROVE IInv'
  OBVIOUS
<1>1. /\ call \in Task \X AnyRequest
      /\ call[1] \in Task /\ call[2] \in Request
      /\ committed \in [Task -> TaskRecord] /\ mem \in [Task -> TaskRecord]
  BY AnyRequestIsRequest DEF IInv, TypeOK, Apply
<1>2. mem' = committed /\ UNCHANGED committed
  BY DEF IInv, MemoryFollowsLedger, Apply, ledger
<1>3. TypeOK'
  BY <1>1, <1>2 DEF IInv, TypeOK, Apply, ledger
<1>4. MemoryFollowsLedger'
  BY <1>2 DEF MemoryFollowsLedger, Apply
<1>5. ReleaseRestsOnDoneDependencies'
  <2>1. ASSUME NEW u \in releasing'
        PROVE  /\ committed[u].state = "BACKLOG"
               /\ \A d \in Deps[u] : committed[d].state = "DONE"
    BY DEF Apply, IInv, ReleaseRestsOnDoneDependencies
  <2>2. QED
    BY <2>1, <1>2 DEF ReleaseRestsOnDoneDependencies, Apply
<1>6. QED
  BY <1>3, <1>4, <1>5 DEF IInv, Apply, ledger, AlwaysRestorable, WorkersAreRecorded,
     IndependentReview

LEMMA ReleaseInductive == IInv /\ Release => IInv'
<1> SUFFICES ASSUME IInv, Release PROVE IInv'
  OBVIOUS
<1>1. committed = mem
  BY DEF IInv, MemoryFollowsLedger, Release
<1>2. ReleaseRestsOnDoneDependencies'
  BY <1>1 DEF Release, ReadyTasks, ReleaseRestsOnDoneDependencies, ledger
<1>3. QED
  BY <1>2 DEF IInv, TypeOK, Release, ReadyTasks, ledger, MemoryFollowsLedger,
     AlwaysRestorable, WorkersAreRecorded, IndependentReview

LEMMA ReleaseFailsInductive == IInv /\ ReleaseFails => IInv'
BY DEF IInv, TypeOK, ReleaseFails, ledger, MemoryFollowsLedger, AlwaysRestorable,
   WorkersAreRecorded, IndependentReview, ReleaseRestsOnDoneDependencies

LEMMA CrashInductive == IInv /\ Crash => IInv'
<1> SUFFICES ASSUME IInv, Crash PROVE IInv'
  OBVIOUS
<1>1. Fresh \in [Task -> TaskRecord]
  BY DEF Fresh, NewTask, TaskRecord, TaskState
<1>2. QED
  BY <1>1 DEF IInv, TypeOK, Crash, ledger, MemoryFollowsLedger, AlwaysRestorable,
     WorkersAreRecorded, IndependentReview, ReleaseRestsOnDoneDependencies

LEMMA RestoreInductive == IInv /\ Restore => IInv'
BY DEF IInv, TypeOK, Restore, ledger, MemoryFollowsLedger, AlwaysRestorable,
   WorkersAreRecorded, IndependentReview, ReleaseRestsOnDoneDependencies

LEMMA NextInductive == IInv /\ [Next]_vars => IInv'
<1> SUFFICES ASSUME IInv, [Next]_vars PROVE IInv'
  OBVIOUS
<1>1. CASE UNCHANGED vars
  BY <1>1 DEF IInv, TypeOK, vars, MemoryFollowsLedger, AlwaysRestorable,
     WorkersAreRecorded, IndependentReview, ReleaseRestsOnDoneDependencies
<1>2. QED
  BY <1>1, TransitionInductive, ReleaseOneInductive, ApplyInductive, ReleaseInductive,
     ReleaseFailsInductive, CrashInductive, RestoreInductive DEF Next

-----------------------------------------------------------------------------
\* The variables hold values of their types in every reachable state: records
\* built by transition from any legal call are task records.
THEOREM TypeCorrect == Spec => []TypeOK
<1>1. IInv => TypeOK
  BY DEF IInv
<1>2. QED
  BY <1>1, InitInductive, NextInductive, PTL DEF Spec

\* Crash the runner anywhere, between the append and the in-memory update too:
\* the restarted runner has the table the old one had committed (runner.py,
\* transition; sqlite_store.py, restore_runner).
THEOREM RestartLosesNothing == Spec => []MemoryFollowsLedger
<1>1. IInv => MemoryFollowsLedger
  BY DEF IInv
<1>2. QED
  BY <1>1, InitInductive, NextInductive, PTL DEF Spec

\* However the runner crashed, restore_runner never raises on what is in the
\* ledger (runner.py, replay).
THEOREM ReplayNeverRaises == Spec => []AlwaysRestorable
<1>1. IInv => AlwaysRestorable
  BY DEF IInv
<1>2. QED
  BY <1>1, InitInductive, NextInductive, PTL DEF Spec

\* A task comes to DONE from VERIFIED only and keeps what it was verified with
\* or a replacement of it.
DoneIsBacked ==
  \A t \in Task : committed[t].state = "DONE" => /\ committed[t].evidence # {}
                                               /\ committed[t].reviewers # {}

LEMMA AppendKeepsDoneBacked ==
  ASSUME IInv, DoneIsBacked, call = <<>>, live, NEW t \in Task, NEW req \in AnyRequest,
         Accepts(mem[t], req), Append(t, req)
  PROVE  DoneIsBacked'
<1>1. Accepts(committed[t], req)
  BY DEF IInv, MemoryFollowsLedger
<1>2. committed' = [committed EXCEPT ![t] = Applied(committed[t], req)]
  BY DEF Append, ReplayAccepts
<1>3. committed \in [Task -> TaskRecord]
  BY DEF IInv, TypeOK
<1> SUFFICES ASSUME NEW u \in Task, committed'[u].state = "DONE"
             PROVE  committed'[u].evidence # {} /\ committed'[u].reviewers # {}
  BY DEF DoneIsBacked
<1>4. CASE u # t
  BY <1>2, <1>3, <1>4 DEF DoneIsBacked
<1>5. CASE u = t
  <2>1. committed'[t] = Applied(committed[t], req)
    BY <1>2, <1>3
  <2>2. req.target = "DONE"
    BY <1>5, <2>1 DEF Applied
  <2>3. committed[t].state = "VERIFIED"
    BY <1>1, <2>2 DEF Accepts, Allowed
  <2>4. committed[t].evidence # {} /\ committed[t].reviewers # {}
    BY <2>3 DEF IInv, IndependentReview
  <2>5. QED
    BY <1>5, <2>1, <2>4 DEF Applied
<1>6. QED
  BY <1>4, <1>5

\* assert_all_done passes only on a mission whose every task has evidence and a
\* reviewer on record, whatever the calls that brought it there (runner.py,
\* assert_all_done and transition; state.py, validate_transition).
THEOREM CompletionRestsOnReview == Spec => []CompletionIsBacked
<1>1. Init => DoneIsBacked
  BY DEF Init, DoneIsBacked, Fresh, NewTask
<1>2. IInv /\ DoneIsBacked /\ [Next]_vars => DoneIsBacked'
  <2> SUFFICES ASSUME IInv, DoneIsBacked, [Next]_vars PROVE DoneIsBacked'
    OBVIOUS
  <2>1. ASSUME NEW t \in Task, NEW req \in Requests, Transition(t, req) PROVE DoneIsBacked'
    BY <2>1, AppendKeepsDoneBacked DEF Transition, AnyRequest
  <2>2. ASSUME NEW t \in Task, ReleaseOne(t) PROVE DoneIsBacked'
    BY <2>2, AppendKeepsDoneBacked DEF ReleaseOne, AnyRequest
  <2>3. Apply \/ Release \/ ReleaseFails \/ Crash \/ Restore \/ UNCHANGED vars
          => UNCHANGED committed
    BY DEF Apply, Release, ReleaseFails, Crash, Restore, ledger, vars
  <2>4. UNCHANGED committed => DoneIsBacked'
    BY DEF DoneIsBacked
  <2>5. QED
    BY <2>1, <2>2, <2>3, <2>4 DEF Next
<1>3. IInv /\ DoneIsBacked => CompletionIsBacked
  BY DEF IInv, MemoryFollowsLedger, DoneIsBacked, CompletionIsBacked, AssertAllDone
<1>4. QED
  BY <1>1, <1>2, <1>3, InitInductive, NextInductive, PTL DEF Spec

\* A verified task was reviewed by somebody who never worked on it, whatever
\* rework and restarts lie between (runner.py, transition; state.py,
\* validate_transition).
THEOREM ReviewersAreIndependent == Spec => []IndependentReview
<1>1. IInv => IndependentReview
  BY DEF IInv
<1>2. QED
  BY <1>1, InitInductive, NextInductive, PTL DEF Spec

\* A release loop never releases a task ahead of its dependencies, for every
\* acyclic graph (runner.py, release_ready_tasks; graph.py, ready_tasks).
THEOREM ReleaseFollowsTheGraph == Spec => []ReleaseRestsOnDoneDependencies
<1>1. IInv => ReleaseRestsOnDoneDependencies
  BY DEF IInv
<1>2. QED
  BY <1>1, InitInductive, NextInductive, PTL DEF Spec

\* The runner with its ledger, crashes and replays implements the plain task
\* table: seen through the ledger each step is one legal transition or nothing.
THEOREM RunnerImplementsTable == Spec => TableSpec
<1>1. Init => Table!Init
  BY DEF Init, Table!Init, Fresh, NewTask, Table!NewTask
<1>2. IInv /\ [Next]_vars => [Table!Next]_committed
  <2> SUFFICES ASSUME IInv, [Next]_vars PROVE [Table!Next]_committed
    OBVIOUS
  <2>1. ASSUME NEW t \in Task, NEW req \in AnyRequest, live, call = <<>>,
               Accepts(mem[t], req), Append(t, req)
        PROVE  Table!Next
    <3>1. Accepts(committed[t], req)
      BY <2>1 DEF IInv, MemoryFollowsLedger
    <3>2. Table!Accepts(committed[t], req) /\ Table!Applied(committed[t], req) = Applied(committed[t], req)
      BY <3>1 DEF Accepts, ReviewIsIndependent, WorkersAfter, Applied, Allowed,
         Table!Accepts, Table!ReviewIsIndependent, Table!WorkersAfter, Table!Applied,
         Table!Allowed
    <3>3. Table!Step(t, req)
      BY <3>2, <2>1 DEF Table!Step, Append, ReplayAccepts
    <3>4. req \in Requests \cup {Table!ReleaseRequest(ControlPlane)}
      BY DEF AnyRequest, ReleaseRequest, Table!ReleaseRequest
    <3>5. QED
      BY <3>3, <3>4 DEF Table!Next
  <2>2. ASSUME NEW t \in Task, NEW req \in Requests, Transition(t, req)
        PROVE  Table!Next
    BY <2>1, <2>2 DEF Transition, AnyRequest
  <2>3. ASSUME NEW t \in Task, ReleaseOne(t)
        PROVE  Table!Next
    BY <2>1, <2>3 DEF ReleaseOne, AnyRequest
  <2>4. Apply \/ Release \/ ReleaseFails \/ Crash \/ Restore \/ UNCHANGED vars
          => UNCHANGED committed
    BY DEF Apply, Release, ReleaseFails, Crash, Restore, ledger, vars
  <2>5. QED
    BY <2>2, <2>3, <2>4 DEF Next
<1>3. QED
  BY <1>1, <1>2, InitInductive, NextInductive, PTL DEF Spec, TableSpec, Table!Spec
=============================================================================
