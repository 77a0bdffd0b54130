---------------------------- MODULE SharedMission ----------------------------
(***************************************************************************)
(* Several runner processes restored from one SQLite mission: what happens *)
(* when a deployment starts a second runner while the first still lives    *)
(* (runtime/sqlite_store.py restore_runner, append;                        *)
(* control_plane/runner.py transition).                                    *)
(*                                                                         *)
(* transition validates against the memory of its own process and appends  *)
(* in a transaction that refuses an event id already taken.  The id is the *)
(* one its caller supplied or, without one, EVT-<n+1>, n being the number  *)
(* of events in the ledger, those of other missions included.  An id of    *)
(* that form is a number here, any other a model value.  A memory changes  *)
(* by its own process only, so validating and counting are one step.       *)
(***************************************************************************)
EXTENDS TaskMachine, Naturals, FiniteSets

CONSTANTS
  Runner, Task, Requests,
  Supplied,      (* event ids that callers choose; some may be numbers       *)
  MaxEvents      (* bound: events in the ledger, all missions taken together *)

ASSUME RunnerRequests == Requests \subseteq Request

VARIABLES
  committed, replayable,   (* the ledger, as in MissionRunner                *)
  ids,                     (* the event ids in it                            *)
  live, mem,               (* per process: is it up, and runner.tasks        *)
  plan,                    (* <<>>, or the validated call about to append    *)
  stale                    (* history: was the memory behind the ledger when *)
                           (* that call was validated                        *)

ledger == <<committed, replayable, ids>>
vars == <<committed, replayable, ids, live, mem, plan, stale>>

Fresh == [t \in Task |-> NewTask]

\* The number in the id of a call that supplies none.
CountedId == Cardinality(ids) + 1

Init ==
  /\ committed = Fresh /\ replayable = TRUE /\ ids = {}
  /\ live = [r \in Runner |-> FALSE]
  /\ mem = [r \in Runner |-> Fresh]
  /\ plan = [r \in Runner |-> <<>>]
  /\ stale = [r \in Runner |-> FALSE]

\* restore_runner; right after create_runner it replays an empty ledger.
Restore(r) ==
  /\ ~live[r] /\ replayable
  /\ live' = [live EXCEPT ![r] = TRUE]
  /\ mem' = [mem EXCEPT ![r] = committed]
  /\ UNCHANGED <<ledger, plan, stale>>

\* transition up to the append, under an id the caller supplied or a counted one.
Prepare(r, t, req, id, supplied) ==
  /\ live[r] /\ plan[r] = <<>>
  /\ Accepts(mem[r][t], req)
  /\ IF supplied THEN id \in Supplied ELSE id = CountedId
  /\ plan' = [plan EXCEPT ![r] =
                [task |-> t, req |-> req, id |-> id, supplied |-> supplied]]
  /\ stale' = [stale EXCEPT ![r] = mem[r] # committed]
  /\ UNCHANGED <<ledger, live, mem>>

\* A mutant: the append does not look for the event id.
AppendUnchecked(r) == plan[r] # <<>>

\* A mutant: the row of the event is written without its id.
IdNotWritten(r) == ids

\* The id is free, so BEGIN IMMEDIATE ... COMMIT goes through.
MayAppend(r) == plan[r] # <<>> /\ plan[r].id \notin ids

\* The append takes the id.
IdsAfter(r) == ids \cup {plan[r].id}

\* A replay stops at the first event it refuses: committed is what it yields
\* up to there.
Append(r) ==
  LET t == plan[r].task
      req == plan[r].req
  IN /\ MayAppend(r) /\ Cardinality(ids) < MaxEvents
     /\ replayable' = (replayable /\ Accepts(committed[t], req))
     /\ committed' = IF replayable' THEN [committed EXCEPT ![t] = Applied(@, req)]
                                    ELSE committed
     /\ ids' = IdsAfter(r)
     /\ mem' = [mem EXCEPT ![r][t] = Applied(@, req)]
     /\ plan' = [plan EXCEPT ![r] = <<>>]
     /\ stale' = [stale EXCEPT ![r] = FALSE]
     /\ UNCHANGED live

\* The runner of another mission appends to the same ledger.
AppendElsewhere(id) ==
  /\ id \in {CountedId} \cup Supplied
  /\ id \notin ids /\ Cardinality(ids) < MaxEvents
  /\ ids' = ids \cup {id}
  /\ UNCHANGED <<committed, replayable, live, mem, plan, stale>>

\* "duplicate event id": the transaction rolls back, the memory stays.
Refuse(r) ==
  /\ plan[r] # <<>> /\ plan[r].id \in ids
  /\ plan' = [plan EXCEPT ![r] = <<>>]
  /\ stale' = [stale EXCEPT ![r] = FALSE]
  /\ UNCHANGED <<ledger, live, mem>>

Crash(r) ==
  /\ live[r]
  /\ live' = [live EXCEPT ![r] = FALSE]
  /\ mem' = [mem EXCEPT ![r] = Fresh]
  /\ plan' = [plan EXCEPT ![r] = <<>>]
  /\ stale' = [stale EXCEPT ![r] = FALSE]
  /\ UNCHANGED ledger

Next ==
  \/ \E r \in Runner :
       \/ Restore(r)
       \/ \E t \in Task, req \in Requests :
            \/ Prepare(r, t, req, CountedId, FALSE)
            \/ \E id \in Supplied : Prepare(r, t, req, id, TRUE)
       \/ Append(r)
       \/ Refuse(r)
       \/ Crash(r)
  \/ \E id \in {CountedId} \cup Supplied : AppendElsewhere(id)

Spec == Init /\ [][Next]_vars

-----------------------------------------------------------------------------
PendingCall ==
  [task : Task, req : Requests, id : Nat \cup Supplied, supplied : BOOLEAN]

TypeOK ==
  /\ committed \in [Task -> TaskRecord]
  /\ replayable \in BOOLEAN
  /\ ids \in SUBSET (Nat \cup Supplied)
  /\ live \in [Runner -> BOOLEAN]
  /\ mem \in [Runner -> [Task -> TaskRecord]]
  /\ plan \in [Runner -> {<<>>} \cup PendingCall]
  /\ stale \in [Runner -> BOOLEAN]

\* The ids in the ledger are its count: no caller has supplied another.
Numbered == ids = 1..Cardinality(ids)

\* As long as the ids are the count, a counted id doubles as a version check: of
\* two runners that race between counting and appending, one is refused.  The
\* ledger is only ever spoilt by a runner whose memory was out of date before it
\* validated, or by one whose caller supplied the id: such an id stays free
\* however much is appended meanwhile, and checks nothing.
RacesAreRefused ==
  [][ replayable /\ ~replayable' /\ Numbered =>
        \E r \in Runner : /\ plan[r] # <<>> /\ plan'[r] = <<>>
                          /\ stale[r] \/ plan[r].supplied ]_vars

\* As long as the ids are the count, a runner that was not out of date when it
\* validated, and has counted an id that is still free, is validated against the
\* very table its event will be replayed on.
FreeIdMeansCurrent ==
  Numbered /\ replayable =>
    \A r \in Runner :
      /\ plan[r] # <<>> /\ ~stale[r]
      /\ ~plan[r].supplied /\ plan[r].id \notin ids
      => mem[r] = committed

\* The inductive strengthening: a call that is about to append was accepted by
\* the memory its process still has; a counted id is at most one ahead of the
\* ledger, and as long as it is, nothing was appended since it was counted.
PlanIsAccepted(r) == live[r] /\ Accepts(mem[r][plan[r].task], plan[r].req)
CountIsFresh(r) ==
  ~plan[r].supplied =>
    /\ plan[r].id \in 1..CountedId
    /\ plan[r].id = CountedId /\ ~stale[r] /\ replayable => mem[r] = committed

IInv ==
  /\ TypeOK /\ IsFiniteSet(ids)
  /\ \A r \in Runner : plan[r] # <<>> => PlanIsAccepted(r) /\ CountIsFresh(r)

\* A mission can be restored after any restart: the ledger replays.
MissionSurvivesRestart == replayable
=============================================================================
