------------------------- MODULE SharedMissionProofs -------------------------
(***************************************************************************)
(* Theorems about several runners of one mission, for any number of        *)
(* runners, tasks, calls and supplied ids.                                 *)
(***************************************************************************)
EXTENDS SharedMission, FiniteSetTheorems, TLAPS

\* A transition takes a task record to a task record.
LEMMA AppliedIsRecord ==
  ASSUME NEW record \in TaskRecord, NEW req \in Request
  PROVE  Applied(record, req) \in TaskRecord
<1>1. WorkersAfter(record, req) \in SUBSET Actor
  BY DEF WorkersAfter, TaskRecord, Request
<1>2. QED
  BY <1>1 DEF Applied, TaskRecord, Request

LEMMA InitInductive == Init => IInv
<1> SUFFICES ASSUME Init PROVE IInv
  OBVIOUS
<1>1. Fresh \in [Task -> TaskRecord]
  BY DEF Fresh, NewTask, TaskRecord, TaskState
<1>2. IsFiniteSet(ids)
  BY FS_EmptySet DEF Init
<1>3. QED
  BY <1>1, <1>2 DEF Init, IInv, TypeOK

\* One more event: the count grows by one.
LEMMA NewIdIsCounted ==
  ASSUME NEW S, IsFiniteSet(S), NEW id, id \notin S
  PROVE  /\ IsFiniteSet(S \cup {id})
         /\ Cardinality(S) \in Nat
         /\ Cardinality(S \cup {id}) = Cardinality(S) + 1
BY FS_AddElement, FS_CardinalityType

\* A call that was counted before an append has fallen behind by it.
LEMMA CountFallsBehind ==
  ASSUME IInv, NEW q \in Runner, plan[q] # <<>>, ~plan[q].supplied,
         Cardinality(ids') = Cardinality(ids) + 1
  PROVE  plan[q].id \in 1..CountedId' /\ plan[q].id # CountedId'
<1>1. plan[q].id \in 1..CountedId /\ Cardinality(ids) \in Nat
  BY FS_CardinalityType DEF IInv, CountIsFresh
<1>2. QED
  BY <1>1 DEF CountedId

LEMMA AppendPreserves ==
  ASSUME IInv, NEW r \in Runner, Append(r)
  PROVE  IInv'
<1> DEFINE t == plan[r].task
           req == plan[r].req
<1>1. t \in Task /\ req \in Request /\ plan[r].id \in Nat \cup Supplied
  BY RunnerRequests DEF Append, MayAppend, IInv, TypeOK, PendingCall
<1>2. committed[t] \in TaskRecord /\ mem[r] \in [Task -> TaskRecord] /\ mem[r][t] \in TaskRecord
  BY <1>1 DEF IInv, TypeOK
<1>3. Applied(committed[t], req) \in TaskRecord /\ Applied(mem[r][t], req) \in TaskRecord
  BY <1>1, <1>2, AppliedIsRecord
<1>4. committed' \in [Task -> TaskRecord]
  BY <1>3 DEF Append, IInv, TypeOK
<1>5. mem' \in [Runner -> [Task -> TaskRecord]]
  BY <1>2, <1>3 DEF Append, IInv, TypeOK
<1>6. ids' \in SUBSET (Nat \cup Supplied)
  BY <1>1 DEF Append, IdsAfter, IInv, TypeOK
<1>7. plan' \in [Runner -> {<<>>} \cup PendingCall] /\ stale' \in [Runner -> BOOLEAN]
      /\ replayable' \in BOOLEAN /\ live' = live
  BY DEF Append, IInv, TypeOK
<1>8. TypeOK'
  BY <1>4, <1>5, <1>6, <1>7 DEF IInv, TypeOK
<1>9. IsFiniteSet(ids') /\ Cardinality(ids') = Cardinality(ids) + 1
  BY NewIdIsCounted DEF Append, MayAppend, IdsAfter, IInv
<1>10. ASSUME NEW q \in Runner, plan'[q] # <<>>
       PROVE  PlanIsAccepted(q)' /\ CountIsFresh(q)'
  <2>1. q # r /\ plan'[q] = plan[q] /\ mem'[q] = mem[q] /\ live' = live
    BY <1>10 DEF Append, IInv, TypeOK
  <2>2. PlanIsAccepted(q)'
    BY <1>10, <2>1 DEF IInv, PlanIsAccepted
  <2>3. CountIsFresh(q)'
    BY <1>9, <1>10, <2>1, CountFallsBehind DEF CountIsFresh
  <2>4. QED
    BY <2>2, <2>3
<1>11. QED
  BY <1>8, <1>9, <1>10 DEF IInv

LEMMA ElsewherePreserves ==
  ASSUME IInv, NEW id, AppendElsewhere(id)
  PROVE  IInv'
<1>1. IsFiniteSet(ids') /\ Cardinality(ids) \in Nat /\ Cardinality(ids') = Cardinality(ids) + 1
  BY NewIdIsCounted DEF AppendElsewhere, IInv
<1>2. TypeOK'
  BY <1>1 DEF AppendElsewhere, CountedId, IInv, TypeOK
<1>3. ASSUME NEW q \in Runner, plan'[q] # <<>>
      PROVE  PlanIsAccepted(q)' /\ CountIsFresh(q)'
  <2>1. plan' = plan /\ mem' = mem /\ live' = live
    BY DEF AppendElsewhere
  <2>2. PlanIsAccepted(q)'
    BY <1>3, <2>1 DEF IInv, PlanIsAccepted
  <2>3. CountIsFresh(q)'
    BY <1>1, <1>3, <2>1, CountFallsBehind DEF CountIsFresh
  <2>4. QED
    BY <2>2, <2>3
<1>4. QED
  BY <1>1, <1>2, <1>3 DEF IInv

LEMMA PreparePreserves ==
  ASSUME IInv, NEW r \in Runner, NEW t \in Task, NEW req \in Requests,
         NEW id, NEW supplied \in BOOLEAN, Prepare(r, t, req, id, supplied)
  PROVE  IInv'
<1>1. Cardinality(ids) \in Nat
  BY FS_CardinalityType DEF IInv
<1> DEFINE call == [task |-> t, req |-> req, id |-> id, supplied |-> supplied]
<1>2. call \in PendingCall
  BY <1>1 DEF Prepare, CountedId, PendingCall
<1>3. plan' = [plan EXCEPT ![r] = call] /\ stale' = [stale EXCEPT ![r] = mem[r] # committed]
      /\ UNCHANGED <<committed, replayable, ids, live, mem>>
  BY DEF Prepare, ledger
<1>4. TypeOK'
  <2>1. plan' \in [Runner -> {<<>>} \cup PendingCall]
    BY <1>2, <1>3 DEF IInv, TypeOK
  <2>2. stale' \in [Runner -> BOOLEAN]
    BY <1>3 DEF IInv, TypeOK
  <2>3. QED
    BY <1>3, <2>1, <2>2 DEF IInv, TypeOK
<1>5. ASSUME NEW q \in Runner, plan'[q] # <<>>
      PROVE  PlanIsAccepted(q)' /\ CountIsFresh(q)'
  <2>1. CASE q = r
    <3>1. plan'[q] = call /\ (stale'[q] <=> mem[q] # committed)
      BY <1>3, <2>1 DEF IInv, TypeOK
    <3>2. PlanIsAccepted(q)'
      BY <1>3, <2>1, <3>1 DEF Prepare, PlanIsAccepted
    <3>3. CountIsFresh(q)'
      BY <1>1, <1>3, <2>1, <3>1 DEF Prepare, CountIsFresh, CountedId
    <3>4. QED
      BY <3>2, <3>3
  <2>2. CASE q # r
    <3>1. plan'[q] = plan[q] /\ stale'[q] = stale[q]
      BY <1>3, <2>2 DEF IInv, TypeOK
    <3>2. PlanIsAccepted(q)'
      BY <1>3, <1>5, <3>1 DEF IInv, PlanIsAccepted
    <3>3. CountIsFresh(q)'
      BY <1>3, <1>5, <3>1 DEF IInv, CountIsFresh, CountedId
    <3>4. QED
      BY <3>2, <3>3
  <2>3. QED
    BY <2>1, <2>2
<1>6. QED
  BY <1>3, <1>4, <1>5 DEF IInv

\* A runner that starts, is refused or dies has no call under way.
LEMMA OthersPreserve ==
  ASSUME IInv, NEW r \in Runner, Restore(r) \/ Refuse(r) \/ Crash(r)
  PROVE  IInv'
<1>1. Fresh \in [Task -> TaskRecord] /\ committed \in [Task -> TaskRecord]
  BY DEF Fresh, NewTask, TaskRecord, TaskState, IInv, TypeOK
<1>2. UNCHANGED <<committed, replayable, ids>>
  BY DEF Restore, Refuse, Crash, ledger
<1>3. mem' \in [Runner -> [Task -> TaskRecord]]
  BY <1>1 DEF Restore, Refuse, Crash, IInv, TypeOK
<1>4. plan' \in [Runner -> {<<>>} \cup PendingCall]
  BY DEF Restore, Refuse, Crash, IInv, TypeOK
<1>5. live' \in [Runner -> BOOLEAN] /\ stale' \in [Runner -> BOOLEAN]
  BY DEF Restore, Refuse, Crash, IInv, TypeOK
<1>6. TypeOK'
  BY <1>2, <1>3, <1>4, <1>5 DEF IInv, TypeOK
<1>7. plan[r] # <<>> => live[r]
  BY DEF IInv, PlanIsAccepted
<1>8. ASSUME NEW q \in Runner, plan'[q] # <<>>
      PROVE  PlanIsAccepted(q)' /\ CountIsFresh(q)'
  <2>1. /\ q # r /\ plan'[q] = plan[q] /\ mem'[q] = mem[q] /\ live'[q] = live[q]
        /\ stale'[q] = stale[q]
    BY <1>7, <1>8 DEF Restore, Refuse, Crash, IInv, TypeOK
  <2>2. PlanIsAccepted(q)'
    BY <1>8, <2>1 DEF IInv, PlanIsAccepted
  <2>3. CountIsFresh(q)'
    BY <1>2, <1>8, <2>1 DEF IInv, CountIsFresh, CountedId
  <2>4. QED
    BY <2>2, <2>3
<1>9. QED
  BY <1>2, <1>6, <1>8 DEF IInv

LEMMA NextInductive == IInv /\ [Next]_vars => IInv'
<1> SUFFICES ASSUME IInv, [Next]_vars PROVE IInv'
  OBVIOUS
<1>1. CASE UNCHANGED vars
  BY <1>1 DEF vars, IInv, TypeOK, PlanIsAccepted, CountIsFresh, CountedId
<1>2. ASSUME NEW r \in Runner, Append(r) PROVE IInv'
  BY <1>2, AppendPreserves
<1>3. ASSUME NEW r \in Runner, NEW t \in Task, NEW req \in Requests, NEW id,
             NEW supplied \in BOOLEAN, Prepare(r, t, req, id, supplied)
      PROVE  IInv'
  BY <1>3, PreparePreserves
<1>4. ASSUME NEW r \in Runner, Restore(r) \/ Refuse(r) \/ Crash(r) PROVE IInv'
  BY <1>4, OthersPreserve
<1>5. ASSUME NEW id, AppendElsewhere(id) PROVE IInv'
  BY <1>5, ElsewherePreserves
<1>6. QED
  BY <1>1, <1>2, <1>3, <1>4, <1>5 DEF Next

LEMMA Inductive == Spec => []IInv
BY InitInductive, NextInductive, PTL DEF Spec

\* A counted id that is still free in a ledger numbered by its count is the next.
LEMMA FreeIdIsNext ==
  ASSUME IInv, Numbered, NEW r \in Runner,
         plan[r] # <<>>, ~plan[r].supplied, plan[r].id \notin ids
  PROVE  plan[r].id = CountedId
<1>1. plan[r].id \in 1..CountedId /\ Cardinality(ids) \in Nat
  BY FS_CardinalityType DEF IInv, CountIsFresh
<1>2. plan[r].id \notin 1..Cardinality(ids)
  BY DEF Numbered
<1>3. QED
  BY <1>1, <1>2 DEF CountedId

LEMMA FreeIdIsCurrent == IInv => FreeIdMeansCurrent
<1> SUFFICES ASSUME IInv, Numbered, replayable, NEW r \in Runner, plan[r] # <<>>,
                    ~stale[r], ~plan[r].supplied, plan[r].id \notin ids
             PROVE  mem[r] = committed
  BY DEF FreeIdMeansCurrent
<1>1. QED
  BY FreeIdIsNext DEF IInv, CountIsFresh

-----------------------------------------------------------------------------
\* The ledger holds task records and the runners' plans are legal calls, whichever
\* runners race, crash and are restored.
THEOREM TypeCorrect == Spec => []TypeOK
<1>1. IInv => TypeOK
  BY DEF IInv
<1>2. QED
  BY <1>1, Inductive, PTL

\* As long as the ids in the ledger are its count, a runner that was not out of
\* date and has counted an id that is still free is validated against the table
\* its event will be replayed on (runner.py transition, sqlite_store.py append).
THEOREM FreeIdsAreCurrent == Spec => []FreeIdMeansCurrent
BY FreeIdIsCurrent, Inductive, PTL

\* As long as the ids in the ledger are its count, the duplicate-id check in
\* SQLiteAuditLedger.append turns every race between runners that count into a
\* refusal: an event no replay accepts comes from a runner that was out of date
\* when its call was validated, or from a call with an id of its own.
THEOREM RacingAppendsAreRefused == Spec => RacesAreRefused
<1>1. ASSUME IInv, [Next]_vars, replayable, ~replayable', Numbered
      PROVE  \E r \in Runner : /\ plan[r] # <<>> /\ plan'[r] = <<>>
                               /\ stale[r] \/ plan[r].supplied
  <2>1. PICK r \in Runner : Append(r)
    BY <1>1 DEF Next, vars, Restore, Prepare, Refuse, Crash, AppendElsewhere, ledger
  <2>2. plan[r] # <<>> /\ plan[r].id \notin ids /\ plan'[r] = <<>>
    BY <1>1, <2>1 DEF Append, MayAppend, IInv, TypeOK
  <2>3. ~ Accepts(committed[plan[r].task], plan[r].req)
    BY <1>1, <2>1 DEF Append
  <2>4. Accepts(mem[r][plan[r].task], plan[r].req)
    BY <1>1, <2>2 DEF IInv, PlanIsAccepted
  <2>5. mem[r] # committed
    BY <2>3, <2>4
  <2>6. stale[r] \/ plan[r].supplied
    BY <1>1, <2>2, <2>5, FreeIdIsCurrent DEF FreeIdMeansCurrent
  <2>7. QED
    BY <2>2, <2>6
<1>2. QED
  BY <1>1, Inductive, PTL DEF Spec, RacesAreRefused
=============================================================================
