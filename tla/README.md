# A TLA+ model of the AI factory

The repository is a Python implementation of a "software factory": missions made of tasks that
workers carry out and reviewers verify, with a durable audit ledger, a reliability layer for
operations with side effects, and a number of stores and workflows around them. This directory
holds TLA+ modules for the parts that keep state and make promises about it, TLC configurations
that check those promises on small instances, and TLAPS proofs of the most important ones.

Everything is synchronous Python over SQLite. Concurrency comes from several processes (or several
runner and controller objects) on one database; atomicity from SQLite transactions; failures from a
process dying between two transactions, an append that raises, and callers who call in any order.

## Inventory

| component | state | operations | interacts with | hard behaviour |
|---|---|---|---|---|
| task state machine (`control_plane/state.py`, `runner.py`) | one record per task: state, evidence, reviewers, workers, objections | `transition`, `release_ready_tasks`, `assert_all_done`, `replay` | ledger, graph | crash between append and apply; rework with changing workers; half-done releases |
| dependency graph (`graph.py`) | none | `validate_graph`, `ready_tasks` | runner | a list computed before several appends |
| ledger and mission store (`ledger.py`, `runtime/sqlite_store.py`) | hash-chained events; missions and their graphs | `append`, `events`, `create_runner`, `restore_runner` | runner | two runners with memories of their own; event ids counted or supplied; replay of what was appended |
| decision engine (`reliability/engine.py`) | none | `decide`, `next_circuit_state`, `half_open` | journal | budget, breaker and reconciliation meet at one boundary |
| operation journal (`reliability/store.py`, `controller.py`) | operation row, circuit row, events, metrics, deadlines, compensations | `register`, `record_attempt`, `reconcile`, `open_probe`, `resume_action`, `record_deadline`, `record_compensation` | engine, callers | decisions on rows read in earlier transactions; crash before the metrics |
| mission recovery (`reliability/recovery.py`) | none | `recover`, release preview | journal | reads of two moments |
| incidents (`runtime/incidents.py`) | incident row, evidence, actions, hash-chained events | `declare`, `transition`, `record_evidence`, `plan_action`, `mark_action_executed`, `verify_recovery` | catalog | responders who race for one action; an approval read on another connection; relapses |
| catalog (`runtime/catalog.py`) | approvals, agents, artifacts, budgets | `propose_action`, `decide_action`, register, add artifact, set and consume budget | incidents, missions | decisions racing their readers; a limit lowered below its use |
| backup (`runtime/backup.py`) | a database copy, its manifest, a staged copy | `create_backup`, `restore_backup` | runtime database | two files written and read one after the other by several processes; a copy cut short; write-ahead logs beside the files |
| audit retention (`runtime/audit_retention.py`) | an archive and its manifest | `create_archive`, `verify_archive` | ledger | a growing ledger, a clock that is set back, a crash between two files |
| design pod (`design_pod/`) | product, architecture, flows, in memory | `run` with validation and bounded revision | workers, validator | designs drawn from a product that was revised since |
| engineering pod (`engineering_pod/`) | plan, evidence, manifest; artifacts in the catalog | plan, revise, execute, integrate | planner, workers, validator, catalog | a cyclic plan; a run that fails half way and is repeated |
| assurance pod (`assurance_pod/`) | reports, decision, cycle record | `run`, `record`, `re_review`, `assert_release_ready` | engineering, catalog | the subject changes between review and release; a worker that fails |
| memory (`memory/`) | entries and a hash chain of events | `promote`, `supersede`, `deprecate`, `recall`, `verify_audit_chain` | - | status and head of the chain read before the transaction |
| interoperability gateway | external calls | submit, reconcile | journal | unknown outcomes, kept by the journal |
| evaluations, qualification, research pod, SLO, readiness, supply chain, secrets, intake, policy, tracing | append-only tables or none | validate, evaluate | - | none that keeps state |
| real estate inventory (`missions/real_estate/inventory.py`) | sources, canonical listings, lifecycle events, trust | `add_source`, `transition`, `expire_stale` | search, alerts, review | a transition decided on a row read in an earlier transaction |
| search and ranking (`search.py`, `ranking.py`) | none | `search` with cursors | inventory, alerts | a page is read while the order changes |
| saved searches and alerts (`alerts.py`) | saved searches, matches, outbox | `save`, `evaluate` | search | an edit between reading a search and storing its baseline |
| review queue and anomalies (`review_queue.py`, `anomalies.py`) | cases and their events | `detect_and_queue`, `start_review`, `resolve`, `resolve_current` | inventory | racing reviewers; evidence that goes stale |
| schema migrations of the four stores | tables and a version row | `apply_migrations` | - | two processes, a crash between two statements |
| geo, localization, cards, presentation, discovery | none | pure functions | inventory | none |

What makes each stateful component correct is listed, with the line where it bites, under `hazards`
in `PROJECT.json`.

## Modules

    TaskMachine            the transition table, its guards, the effect of a transition (operators)
      MissionTable         the mission store's promise: one table, legal transitions
      MissionRunner        ledger + one runner process with crashes; implements MissionTable
        MissionRunnerProofs    theorems
        MCMissionRunner        instance for TLC
      SharedMission        several runner processes on one mission
        SharedMissionProofs    theorems
        MCSharedMission        instance for TLC
    RecoveryEngine         decisions and breaker (operators)
      OperationLife        what a reader of the operation's row is promised
      ReliabilityJournal   one operation's rows and the controllers on them; implements OperationLife
        ReliabilityJournalProofs  theorems
        MCReliabilityJournal   instances for TLC
    AuthorizedActions      what is promised of an incident's actions
    IncidentResponse       one incident, its responders, and the catalog's approvals; implements
                           AuthorizedActions
      IncidentResponseProofs   theorems
      MCIncidentResponse     instance for TLC
    Inventory              sources, canonical listings, their life cycle and their writers
      InventoryProofs        theorems
      ListingSearch        hard filters, ranking, cursors and pages (operators)
        AlertPromise       what a saved search promises its owner
        SavedSearches      a saved search, its editors and evaluators; implements AlertPromise
      ReviewQueue          anomalies, their cases and the reviewers
    SchemaMigration        two processes that open a store
      MarketProofs           theorems of the last three
      MCMarket             the modules above, as scenes of one instance for TLC
    DesignPod              product, architecture and flows with bounded revisions
    EngineeringPod         plan, packages, evidence, manifest and the catalog
    AssuranceReview        reviews, decision, cycle and release
      PodProofs              theorems of the three pods, each by itself
    MemoryStore            entries, event chain and writers
    BackupRestore          a database, its backup and the operators
    AuditArchive           the ledger's archive and the archivers
    Delivery               the six modules above side by side
      StoreProofs            theorems of the three stores, and of delivery as a whole
      MCDelivery             the six as scenes of one instance for TLC

### TaskMachine, MissionTable, MissionRunner

`Allowed` is the table `_ALLOWED`, `Accepts` is `validate_transition` with the context that
`transition` builds, `Applied` is the mutation of the runtime record. Id tuples are sets: the code
only tests them for emptiness and intersection and replaces one by another. An approval id is a
Boolean.

`MissionRunner` keeps the SQLite ledger as what a reader can tell about it: `committed` is the task
table that a replay yields, `replayable` whether the replay raises, `worked` the actors of the
IN_PROGRESS events (a history, only properties read it). `restore_runner` is the ledger's only
reader, and it is deterministic, so nothing the runner does depends on more. The runner's memory is
`mem`; `call` is the event between `ledger.append` and the assignments after it; `releasing` is what
the loop of `release_ready_tasks` has left. `Transition`, `Apply`, `Release`, `ReleaseOne` and
`ReleaseFails` are the code's steps in the code's order; `Crash` loses everything but the ledger, and
`Restore` is `restore_runner`. A crash can hit between any two steps.

`MissionTable` has one variable and one action: a step of one task that the table itself accepts.
`TableSpec` (`MissionTable` with `table <- committed`) says that appends validated against the
memory are legal in the ledger, whatever crashed in between.

### SharedMission

The same ledger with several runner processes. `Prepare` is `transition` up to the choice of the
event id, `Append` the transaction, `Refuse` its "duplicate event id". The id is the one the caller
supplied or, without one, `EVT-<n+1>` with n the ledger's length, events of other missions included. An
id of that form is the number n+1 in the model; `Supplied` is what callers choose, numbers among them,
and `AppendElsewhere` an append for another mission. `ids` is the set of ids in the ledger, so that
"taken" is `plan[r].id \in ids` and nothing else. `stale` is a history: was the memory behind the ledger
when the call was validated.

A counted id doubles as a version check, but only as long as the ids in the ledger are its count
(`Numbered`): once a caller has supplied another one, or two, counting may yield an id that stays free
while the ledger grows. Both properties therefore say "as long as the ids are the count" and except
calls whose id was supplied; the observations say what happens beyond that.

### RecoveryEngine, ReliabilityJournal

`RecoveryEngine` translates the decision engine case by case. `ReliabilityJournal` holds one
operation: its rows (`status`, `latest`, `circuit`), its events (`attempts`, the latest `decision`),
its metrics. Rows are keyed by operation id and no method touches two, so one operation is enough.
A controller method reads in transactions of their own and commits in a later one that checks part
of what was read again, so each is a begin step and a commit step (`BeginAttempt`/`CommitAttempt`,
`BeginReconcile`/`Reconsider`/`CommitReconcile`, `BeginProbe`/`CommitProbe`), and each metric is one
more step (`Count`). `Crash` forgets what a controller was doing.

The callers are not in the repository. `Undertake` is a caller that performs an attempt: an obedient
one takes the number from `resume_action` (possibly long before it reports, so numbers can be old);
any other takes any number up to two past the latest. Obedience is fixed for a behaviour and both
kinds are checked.

`OperationLife` is the journal as a reader of the operation sees it: three variables, two actions, no
controller and no breaker. An attempt gives the status that its outcome and its answer allow, and a
retry only what may be repeated; `Reconcile` leads from RECONCILE_REQUIRED to an answer. `LifeSpec` is
this specification over the journal's own `effect`, `status` and `attempts`. The status after a reconciliation may
be any of three, since with two controllers the answer to one attempt may be committed to the next
(see observations), and RETRY_READY then does not even promise that the budget has room; the attempt
itself does, because `record_attempt` looks again.

### IncidentResponse

One incident's rows (`status`, `verified`, `evidence`, `actions`), its events (`log`, without hashes,
actors and payloads other than the id or status they are about) and the catalog's `approvals`. All
store methods open with BEGIN IMMEDIATE, so each is one action that is enabled while the lock is
free. Only `mark_action_executed` is two steps: it reads the approval through the catalog, on a
connection of its own, while its incident transaction is open, so the catalog's `ProposeAction` and
`DecideAction` may come between `BeginExecution` and `CommitExecution`, and a `Crash` may roll the
transaction back. `executing` is who holds the lock and for which action. What the code does not
check the model does not either: evidence and actions are accepted in any status, the proposal of an
action may be made after the action was planned or belong to another mission.

`AuthorizedActions` has no lock, no second connection and no crash: an action is planned with the
proposals it needs (`needs`), proposals are approved for good (`approved`), and an execution is one step
at a moment when everything the action needs is approved. `executions` is read off the EXECUTED events
of the log, each with its place, so that a second execution would show even if its row did not.

### Inventory, ListingSearch, SavedSearches, ReviewQueue, SchemaMigration

`Inventory` keeps the source records in order of insertion, the canonical row of each group of
duplicates, its lifecycle events and the publishers' trust. `AddSource` is `add_source` with all it
writes: the version, the membership, the projection (`Projected`) and the first event. `transition`
reads the row in one transaction and writes in another, so it is `BeginTransition` and
`CommitTransition`; `expire_stale` reads its list once (`BeginSweep`) and then transitions one listing
after another (`SweepOne`). `overlapped` is a history: the listings two writers were moving at once.

`ListingSearch` is `RealEstateSearchService.search` as operators: candidates, filters on state and
price, the score (freshness, trust), the order, the cursor that names the last key, and a page. A page
is one read. Area and text filters and explanations are left out: they would be further conjuncts of
`Hits`.

`SavedSearches` is one row with its matches and outbox. `BeginSave`/`CommitSave` are `save`, which
reads the row in no transaction. `StartEvaluation`, one `FetchPage` per page, `CheckPrimed` and
`CommitBaseline` or `CommitMatches` are `evaluate`: every line of it may meet another inventory. The
histories `baseline`, `already` and `baselined` remember what the first baseline of each version
recorded and which listings had matched all the while it was read. `Apart` says whether the callers
keep saves and evaluations apart; the code does not, and `alert_storm` shows what that means.
`AlertPromise` is the owner's view: a version is baselined once, at a stroke, and what is alerted later
was neither in the baseline nor alerted before. It has no pages, no editors and no inventory, so that
`AlertsSpec` says that none of these show through.

`ReviewQueue` takes of the anomalies the change of price and the disagreement of publishers. A finding
is its evidence with its severity; `Current` is the second detection in `resolve_current`. Detection
and queueing are two steps, and so are the check and the transaction of `start_review` and `resolve`.
`BeginResolve` is the store's `resolve`, which anyone may call and which does not look at the evidence;
`BeginResolveCurrent` is `resolve_current`, which does and then calls it. `raced` is the history of
cases that two calls worked on at once.

`SchemaMigration` is `apply_migrations` of any of the four stores, one CREATE at a time: Python's
`executescript` commits each statement, so the surrounding `with` protects the version row only.

### DesignPod, EngineeringPod, AssuranceReview

The workers are not the pods' doing, so every product, design, plan and evidence of the instance may
come back from them, also a worse one after a revision. `DesignPod` has traceability as sets of
requirement ids, and `for` in a design remembers the product it was drawn from. `EngineeringPod` keeps
the validator's checks (dependencies, cycles, overlapping scopes, coverage), the order of execution,
each package's revisions, the artifacts filed in the catalog along the way and the final manifest; a
run may fail anywhere and another may follow. `AssuranceReview` follows one release: the subject that
engineering integrates and corrects, the coordinator's run over three roles, the decision, the cycle
record the caller holds, and the gate. A subject is a fingerprint and the evidence behind it, because
`integration_fingerprint` is all that the later steps compare.

### MemoryStore, BackupRestore, AuditArchive

`MemoryStore` has the event chain as a sequence of hashes, a hash being the sequence of all events
before it, so that a forked chain shows. `Promote` is the store's `promote`, which takes any entry and
appends inside its transaction; `PromoteReviewed` is a caller that goes through `MemoryPromotionGate`
first, which the store does not ask for. `supersede` and `deprecate` read status and head before their
transaction begins (`CheckStatus`, `ReadHead`, `InsertEvent`). `alone` is the history: nothing was
inserted while another writer was on its way.

`BackupRestore` numbers the versions of a database; a content is the number of the version it is a copy
of, or `Garbled`. The runtime's databases are in WAL mode (`sqlite_store.py:43`, `catalog.py:39`,
`incidents.py:84`, `reliability/store.py:53`), and since the backup API copies the header with the rest,
so is a backup. A `file` is therefore its bytes (`main`) and what its log commits (`wal`): a copy that
overwrites a backup commits to the log (`FinishCopy`) and the bytes follow when the log is moved into
the file, by the last connection that closes (`AfterClose`), in parts when a process dies over it
(`Moving`). Hash and size are those of the bytes (`Bytes`); SQLite finds the log over them (`View`), and
so do the integrity check and the staged copy. The very first copy goes into an empty file that is not
in WAL mode yet; when it is cut short, the next opening undoes it. Every step of `create_backup` and
`restore_backup` that reads or writes a file is an action, and `Stop` may end any of them. How SQLite
treats its files is external to the repository; it is modelled from SQLite's documentation and was
observed with SQLite 3.40.

`altered` marks a restore whose backup had a log at the comparison, or was overwritten between the
comparison and the staged copy. `target` is the destination: the version that was put there, and whether
a log lies beside it. `ReplaceTarget` is `os.replace`, which leaves such a log in place. `RunAtTarget` is a
runtime that opens the destination between two restores and ends in order or dies, which leaves its log;
no restore replaces a destination that a runtime has open.

`AuditArchive` has the ledger as time stamps in order of their numbers, a clock that may be set back,
and the two files of an archive. `Verifies` is `verify_archive`.

The pods and these stores share no state: each is called by itself. `MCDelivery` and `MCMarket`
therefore run them as scenes, chosen in the initial state; in `MCMarket` the desks read one inventory.
`Delivery` is their conjunction, any step of one beside any step of another, which is what the theorem
about all of them is stated for; TLC takes them one at a time, as nothing is shared.

## Runs

| run | instance | shows |
|---|---|---|
| `mission_runner` | 2 tasks, one depending on the other; two people and the control plane; one evidence id, one objection | 6 invariants and `TableSpec`; about 168,000 states |
| `mission_objections` | the same | violation: see findings |
| `shared_mission` | 2 runners, 1 task, two workers; ids counted, or supplied as the number 2 or as `x`; 6 events of all missions | `RacesAreRefused`, `FreeIdMeansCurrent`; about 2.8 million states |
| `shared_replay` | the same, all ids counted | violation: see findings |
| `reliability_solo` | 1 controller, 3 effect classes, budget 3, threshold 2, 1 crash | invariants and the liveness property `Settles`; about 29,000 states |
| `reliability_race` | 2 controllers, otherwise the same | no blind retry, no attempt under an open breaker, and `LifeSpec`, which has the numbering, the budget and the finality in it; about 3.8 million states |
| `incidents` | 2 responders, 1 action, 2 evidence ids, 2 proposals, 2 missions, 11 events | approvals, earned closures, rows explained by the log, and `AuthorizedSpec`, which has single execution after planning in it; about 3.8 million states |
| `market` | 2 groups of listings with 2 publishers, pages of 1; one editor and one evaluator, 2 versions; 2 writers; 2 reviewers; 2 openers | 7 invariants, an action property and `AlertsSpec`; about 730,000 states |
| `alert_storm` | the same, saves and evaluations not kept apart | violation: see findings |
| `delivery` | 3 packages with up to 3 dependencies; 2 subjects with one fingerprint and one with another; 2 memories and 2 writers; 2 operators; 2 archivers | 8 invariants; about 3.2 million states |
| `assurance_evidence` | the assurance scene | violation: see findings |
| `blind_retry` | 1 controller, callers who do not obey | violation: see findings |

Bounds. Two tasks are enough for a dependency and for a release list with a task left over; three
people (worker, reviewer, control plane) are enough for a reviewer who worked on the task in an
earlier round. The state machine is finite, so nothing is cut off in `mission_runner`: it is explored
completely, with any number of crashes and restarts. In `shared_mission` the ledger ends with six events
(`MaxEvents`): a task needs five to be VERIFIED and six to be DONE, and every race, refusal and gap
in the ids that the properties are about comes with fewer. The supplied 2 is a counted id ahead of its time or already taken,
the supplied `x` is never counted; one of each is enough for the ids to leave the count in either way. In the
journal a budget of three attempts lies above a threshold of two, so that the breaker opens before,
at and after the budget ends, and a reconciliation can be late by one attempt; `MaxCrashes` bounds
crashes. An incident needs nine events to be closed with its recovery verified; `MaxEvents` leaves room
for an action to be planned and executed on the way, or for two events more of any other kind. A page of
one and two listings that match already make an evaluation read several pages while prices move; two
versions are one edit; one editor and one evaluator leave out the races of two (see observations).
Three lifecycle events are a creation, a transition and one racing it. Three packages are the fewest with
a cycle that is not mutual and with overlapping scopes left after one is ordered; one round of revision
allows it to help and to be used up; two runs let a run meet the artifacts of another. Three reviews are a
first one, one after a correction and one more that may fail. Five memory events are two promotions, the
race for one entry and one event after it. Three backups overwrite each other around a restore, one of
them left with its log; three times and events put the cutoff before, in and after the ledger.
In `reliability_race` the controllers, in `incidents` responders, evidence and proposals are symmetric. `CHECK_DEADLOCK` is off in the journal,
where a completed operation rightly has no next step, in `incidents`, where the log comes to its bound,
in `shared_mission`, where it does too and where the system can
come to the very halt that `shared_replay` shows, and in `market` and `delivery`, where runs end,
bounds are reached, and a store whose migration was cut short cannot be opened again.

Fairness. Only `reliability_solo` uses it. `Drive(c)` is weakly fair: a controller method that was
called runs to its end, since it is straight-line code over local transactions, and the caller asks
`resume_action` and follows it. Opening a probe and crashing are not fair. `Settles` therefore ends in
"or the breaker is OPEN": an operator has to open a probe explicitly.

## Findings

1. `mission_objections` (`control_plane/runner.py:99`). A call's objections replace those on record,
   and only the call's own are checked, so a task reviewed with a blocking objection is VERIFIED by
   the next call with the same evidence and an empty list. The contracts document asks for "zero
   unresolved blocking objections", the governance document for a resolution.
2. `shared_replay` (`control_plane/runner.py:73`, `runtime/sqlite_store.py`). The counted event id
   protects two runners that race, and `RacesAreRefused` proves its worth; it does not protect against a
   runner that slept: it validates against its old memory, takes a fresh id, and appends an event on
   which every later `restore_runner` raises.
3. `blind_retry` (`reliability/store.py:160`). `record_attempt` takes attempt 2 of an external write
   while attempt 1 is UNKNOWN and unreconciled. With callers who follow `resume_action` it does not
   happen, with any number of controllers (`ObedientNoBlindRetry`).
4. `alert_storm` (`missions/real_estate/alerts.py:216`). An evaluation reads the search, finds what it
   matches and primes the row by its id. When the query is edited in between, the new version is primed
   with the old version's matches, and the next evaluation reports listings that matched the new query
   before anybody looked: the storm that a baseline is there to prevent.
5. `assurance_evidence` (`assurance_pod/lifecycle.py:13`). The fingerprint leaves out the evidence
   manifests; a subject with other evidence under the same ids, paths and artifacts is released on the
   old PASS. The phase's completion report says that such a change asks for a fresh review.

Observations, without a run of their own.

Market: two evaluators that race for one version's baseline can lose an alert, since the second adds its
matches to a baseline that is there (`NoLostAlert` is for one evaluator). Two transitions, or a
transition and a sweep, of one listing may leave events that are no path (`LifecycleIsAPath` excepts
them), and two reviewers one case decided twice. A stale case can never be resolved through `resolve_current`,
so whoever keeps to it has the listing flagged for good; the store's own `resolve` is public and does not
look at the evidence. A process that dies in a migration leaves tables without a version, and every later
`apply_migrations` raises on the first CREATE; `RecordedIsComplete` says that at least no version is
recorded over it. `discovery.py:111` mixes two reads of the inventory.

Delivery: a decision of the assurance pod does not say what it is about, so `record` trusts its caller to
pass the integration that was reviewed, as the model assumes; `record` with attempt 1 starts the
remediation budget again. A review that fails half way leaves its reports beside the decision of an
earlier one in the catalog. The coordinator compares only mission ids of design and integration. The
integration's owner lookup compares paths as they are spelled, while scopes are normalised; artifact
ids lower-case package ids, so two that differ in case collide. Two memory writers that read the same
head leave a chain that no longer verifies, or a SUPERSEDED after a DEPRECATED
(`OnlyRacesBreakTheLog` is for writers that do not overlap). The store's `promote` takes any entry; that
a gate has passed it is left to the caller.

Backups: a backup that is overwritten between a restore's comparison and its staged copy is restored
under the old manifest. So is one that was overwritten by a process that died between the commit of the
copy and the close that moves the log into the file: the old bytes, which the old manifest still
matches, lie beside a log with the new content, and `restore_backup` opens the file with SQLite, which
rolls the log forward. "A sidecar manifest binds the backup to an exact SHA-256 and size", the class
says (`backup.py:37`), but both are of the file without its log; `altered` is true of just these
restores. `os.replace` (`backup.py:171`) replaces the destination's file and not a log that a runtime
which died has left beside it: the next opening replays that log over the restored database, though the
class promises to be "atomically replacing the destination". In the model the destination is then
`Garbled`.

Control plane, reliability, incidents: a supplied event id checks nothing but itself. Two runners, both
up to date, that race under ids of their callers' choice both append, and the ledger may not replay
afterwards; a supplied id of the counted form that is ahead of the count makes a later call without one
fail as a duplicate until something else is appended. With two controllers a reconciliation that was begun for
one ambiguous attempt can be committed to the next (`JournalAwaitsTheTruth` is checked for one
controller only), and a probe can overwrite a newer circuit. A DONE transition may replace the
reviewers that made the task VERIFIED. AWAITING_HUMAN_APPROVAL can be left through FAILED or STALE.
An incident that relapses from MONITORING to RECOVERING keeps `recovery_verified`, so it can be closed
on the verification of its first recovery; `ClosureIsEarned` states what is ensured. One approved
proposal may stand behind several actions, whatever their types and targets, which are not compared.

## Proofs

`MissionRunnerProofs` assumes what the modules name: the environment's calls are requests of the
state machine (`RequestsAssumption`) and the graph passed `validate_graph` (`DepsAssumption`). Its
inductive invariant `IInv` joins the run's invariants with two facts they rest on:
`WorkersAreRecorded` (the recorded workers are those of the ledger; independence is judged against
the record, but stated about the ledger) and that nothing is in progress while the runner is down.
The key lemma is `AppendPreserves`: an event that the memory accepts while memory and ledger agree is
legal in the ledger. The release list needs the graph: a task whose dependencies are all DONE is not
one of the tasks still in the backlog, so releasing one cannot disturb another. `ReplayNeverRaises`
(`AlwaysRestorable`) comes from the same invariant; `CompletionRestsOnReview` (`CompletionIsBacked`) adds
`DoneIsBacked`: a task reaches DONE only from VERIFIED, and what it carries there stays with it.

`SharedMissionProofs` proves `TypeOK`, `RacesAreRefused` and `FreeIdMeansCurrent` for any number of
runners, tasks and supplied ids and a ledger of any length. Its invariant has the ids finite, so that
they can be counted, and says of a call under way that the memory its process still has accepted it
(`PlanIsAccepted`) and, when the id was counted, that it is at most one ahead of the ledger and that as
long as it is, nothing was appended since (`CountIsFresh`). While the ids are the count, a counted id
that is free is exactly one ahead. So a refused replay convicts the runner of an old memory, or its
caller of an id of their own.

`ReliabilityJournalProofs` proves, for any number of controllers, any budget and threshold,
`AttemptsAreSequential` and `TerminalIsFinal` (which no run lists: `LifeSpec` has their
content as far as `status` and `attempts` tell it), `ObedientNoBlindRetry` and `ObedientOpenRejectsAttempts`.
It assumes a positive budget and threshold (`BudgetAssumption`, which the contracts enforce). The
first group of lemmas says what the decision engine returns: a retry names the attempt after the one
it was decided for, and after an ambiguous external write there is none without an answer. The
invariant carries this through the gap between decision and commit: `JobFits` says of every
controller that what it is in the middle of would leave a fitting decision, `DecisionFits` that every
retry in the journal is backed (the attempt before it is not unknown, or was reconciled), and obedient
callers only ever hold backed numbers. `Backed` survives every commit because the journal only grows;
that is why the stale reconciliation noted above misleads the journal but never causes a blind retry.
`TruthIsAwaited` (`JournalAwaitsTheTruth`) is stated for one controller, as the run is: with two the
stale reconciliation breaks it. What reconcile read is then still the latest when it commits (`AwaitsInJob`).

`IncidentResponseProofs` proves `ProtectedActionsAreApproved`, `ActionsRunOnce` (in a run it is implied by
`AuthorizedSpec` and `LogExplainsRows`) and `ClosureIsEarned` for any number of responders, actions,
proposals and missions and a log of any length (`HomeAssumption`: the incident's mission is one of the missions, no proposal is called None). The
invariant adds `HolderMayExecute` (whoever is inside `mark_action_executed` is alone there, for an
action that is PLANNED and approved: a decision made meanwhile cannot touch an approval that has been
read, since decisions are final) and `RowsAreLogged` (evidence, plans, the start of recovery and the
verification were announced in the log before anything can refer to them). A few lemmas say what an
append leaves alone; after them every action is a short case. `LogTellsTheRows` shows
`LogExplainsRows` from what each appended event adds to what the log tells (`StatusIsLatest`, `Explained`).

`BreakerCountsTheJournal` (`CircuitFollowsJournal`) is of one controller too: `Trails` says that the
breaker's count is the number of attempts since the last success, which only one number can be, and
`CircuitInJob` that the circuit a controller has computed is still the next one when it writes it, which
a second controller would undo (see hazards: `open_probe`). `MetricsTellTheJournal`
(`MetricsFollowJournal`) needs no such hypothesis. `Tallied` is its balance: what is counted, and the
controllers that still owe a count, make up what is due in the journal, and no more once someone died.

`InventoryProofs` proves `InventoryTypeOK`, `ActiveIsFreshest` and `LifecycleIsAPath` for any listings,
submissions, writers and bounds (`InventoryAssumption`: sets of the instance are what `add_source` takes,
times are numbers). A new source displaces the shown one exactly when it is verified later, so the rows
follow the sources without an induction over them. For the path, `MovesFit` says that what a writer has
read of a listing is still its row, and that it is alone, unless another came between.

`MarketProofs` rests on those lemmas, because evaluations and detections read an inventory that goes on.
`BaselinesAreQuiet` (`QuietBaseline`) is proved from `Apart` (saves are kept apart from evaluations, as
the run has it; without it the code violates the property, see findings). `Swept` is the argument over
pages: what has matched since the evaluation began is found, or comes after the cursor. That the cursor
order is total and that a page sweeps what follows the cursor are lemmas about `ListingSearch`
(`SearchAssumption`: finitely many listings, ordered as numbers are, and pages that are not empty).
`AlertsAreNotLost` (`NoLostAlert`) assumes one evaluator as well: of two that both find the row
unprimed, the second records a baseline that swallows what came between (see observations).
`MarketIsTyped` (`MarketTypeOK`) comes from the same invariant. `CasesFollowTheirPath` (`CaseIsAPath`)
has what `start_review` and `resolve` have checked still true when they write, unless two calls met
(`WorkFits`; `QueueAssumption`: the detector has a name). `StalenessIsFinal` (`StaleStaysStale`, an
action property) has every finding show the evidence of an earlier moment (`FindingsArePast`): versions
differ, a source that was displaced as the latest of its origin stays so, and evidence that was left
never comes back. `VersionMeansComplete` (`RecordedIsComplete`): whatever is behind an opener in its
script has been made, by itself or by another.

`PodProofs` proves `ReleaseIsReviewed` for any subjects, criteria, implementers and attempts. The
invariant follows the decision: a PASS under way, or on record, has in the history a completed, clean
review of a subject with its fingerprint, and the gate compares that fingerprint. `BundleIsCoherent`:
until a bundle is returned both designs are for the product at hand, because a product that is revised
takes its designs with it; a validator without findings gives the traceability.

`SoundPlansExecute` (`AcceptedPlansExecute`) is about two algorithms, for any finite set of packages
(`PodAssumption`: package ids are ordered as numbers are, drafts plan such packages, limits are not
negative, as the coordinator's constructor demands). `EngineeringPod` computes with recursive functions,
and there is no induction over data, so the lemmas argue by a least counterexample (`HasLeast`, from the
well-foundedness of the numbers): that the functions exist (`Iteration`), that a set can be sorted
(`CanBeSorted`), that each layer keeps the order (`LayeredStaysOrdered`), that without a cycle something
is ready as long as something is left (`AcyclicHasReady`, by the pigeonhole principle on a descending
walk), and that as many layers as packages are enough (`OrderIsComplete`). `FinishedRunIsBacked`
(`ManifestIsBacked`) and `PodIsTyped` (`PodTypeOK`) use them: the packages of the order are divided into
those with evidence, filed in the catalog as it is, and those to do (`Placed`, `Filed`).

`StoreProofs` proves `RestoreTellsWhatItRestored` for any number of operators and backups. Its
invariant says, per step, what an operator still knows of the file (`Knows`): once a copy has been
finished SQLite finds a version in the file, whatever closes and crashes move of its log; and after a
comparison that found no log, file and manifest stay one unless a copy has finished since, and whoever
finishes one marks the restores it overtakes.

It proves `ArchiveIsThePast` for a ledger and clock of any size
(`ArchiveAssumption`): whatever payload is under way or on file selects the ledger up to its cutoff, and
what is appended later cannot change that. Which archiver wrote which of the two files does not matter,
since only equal payloads verify. `RacesAloneBreakTheLog` (`OnlyRacesBreakTheLog`): a memory writer that
is alone inserts right behind the head it read, and its memory has no final event yet (`ReadIsCurrent`).

Every module of delivery is typed for any sizes (`DesignIsTyped`, `PodIsTyped`, `AssuranceIsTyped`,
`MemoryIsTyped`, `BackupIsTyped`, `ArchiveIsTyped`), and `DeliveryIsTyped` (`DeliveryTypeOK`) joins them.
Two of these are more than types. `MemoryTypeOK` has every event of the log about a stored memory,
though a writer looks, composes and inserts in three steps: `MemoryFits` follows what it carries.
`BackupTypeOK` has a backup's log of a version the source has had by then, and the bytes of its file, its
manifest and the destination of one or of a mixture: `BackupJob` says so of what each operator carries
from one file to the next, and a restore carries a version. The destination is a mixture only after a
leftover log (see observations). Assumed are bounds as the code has them: at
least one attempt and no negative rounds (`AssuranceAssumption` and `DesignAssumption`, which the
constructors in `lifecycle.py` and `coordinator.py` enforce); the bounds of the models themselves leave
room for one version and one moment.

Four refinements are proved for every size, beside being checked. `RunnerImplementsTable` is told above.
`ResponseIsAuthorized` (`AuthorizedSpec`): the commit of an execution is the abstract step, and
`HolderMayExecute` says why it may be taken there, though the approval was read earlier: the holder of
the lock is alone, its action still planned, and the approval it needs stands. `ActionsRunOnce` gives the
abstract guard that an action has no execution yet, and `ExecutionsGrow` that an event adds one
execution or none. All other steps plan, approve or leave what is promised alone.
`JournalTellsALife` (`LifeSpec`): a step of the journal is an attempt, a reconciliation or a stutter.
What a controller holds between its decision and its commit is a decision that its attempt allows
(`Considerate`), whichever others committed meanwhile, as the transaction takes it only for the next
number and an open status. `EngineAllows` says so of what the decision engine and the breaker return,
`AnswerIsFinal` that no answer asks for another one.
`SearchesKeepTheirPromise` (`AlertsSpec`) assumes `Apart` and uses the invariant of `BaselinesAreQuiet`.
Whatever is in the baseline or alerted is among the matches (`SeenIsMatched`), so a listing that
`mark_matches` finds new is new to the owner as well.

Not provable here and left to TLC: `Settles`, a liveness property under fairness. Everything else that a
passing run checks is a theorem.
The hypotheses of one controller, one evaluator and `Apart` are those of the runs that check the same
properties; the violation runs show what the code does without them, or the observations tell it.

## Plan

1. (done) the mission runner, the shared mission, the reliability journal, incidents with approvals.
2. (done) the market: inventory, search, saved searches, review queue, migrations.
3. (done) delivery: the pods, memory, backup, retention.
4. (done) proofs of the market, of the engineering pod's execution order and manifest, of organizational
   memory, and of the journal's breaker and metrics.
5. (done) abstract specifications of incidents, saved searches and the journal, with the proofs that the
   modules here implement them; the types of delivery.
6. Left open: two controllers on one circuit (`open_probe` against a commit), and two evaluators of one
   saved search, each with the property that the code does keep then; the content of deadlines and
   compensations, once something in the repository reads them.

## Not modelled

Hash chains as such, outside `MemoryStore` (no tampering is modelled, and a chain that is appended to
in one transaction cannot fork). The content of payloads, traces, rendering, text and area filters,
secrets and supply-chain checks, research verification, evaluations: pure functions or I/O without a
protocol. Deadlines, compensation, agents and budgets: single upserts or counters in one transaction
that nothing else modelled here reads. The gateway: it checks one request and one response at a time
and keeps its state in the reliability journal. Workspaces on disk. The example application and the
tests are not part of the system.
