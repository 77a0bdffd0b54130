---------------------------- MODULE SavedSearches ----------------------------
(***************************************************************************)
(* One saved search, the people who edit it and the evaluators that turn   *)
(* newly qualifying listings into alerts, over an inventory that changes   *)
(* between the pages an evaluator reads.                                   *)
(***************************************************************************)
EXTENDS ListingSearch

CONSTANTS
  Editor,        \* callers of save
  Evaluator,     \* callers of evaluate
  Apart,         \* whether its callers keep saves and evaluations apart
  MaxVersion     \* bound: versions of the query

ASSUME SearchesAssumption == MaxVersion \in Nat

VARIABLES
  row,           \* saved_searches; version 0 while there is none
  matches,       \* alert_matches, pairs of version and listing
  outbox,        \* alert_outbox, likewise
  edit,          \* what an editor has read and what it will save
  eval,          \* an evaluator's call
  baseline,      \* history: what the first baseline of a version recorded
  already,       \* history: what that evaluation found matching all along
  baselined      \* history: versions that have a baseline

desk == <<row, matches, outbox, edit, eval, baseline, already, baselined>>
store == <<row, matches, outbox>>
history == <<baseline, already, baselined>>

Version == 1..MaxVersion
NoRow == [version |-> 0, query |-> <<>>, enabled |-> FALSE, primed |-> FALSE]
Idle == [step |-> "idle"]

SearchesInit ==
  /\ row = NoRow /\ matches = {} /\ outbox = {}
  /\ edit = [d \in Editor |-> Idle] /\ eval = [e \in Evaluator |-> Idle]
  /\ baseline = {} /\ already = {} /\ baselined = {}

-----------------------------------------------------------------------------
\* save, which reads the row in no transaction
BeginSave(d, q, enabled) ==
  /\ edit[d] = Idle /\ (Apart => \A e \in Evaluator : eval[e] = Idle)
  /\ edit' = [edit EXCEPT ![d] = [step |-> "save", read |-> row, query |-> q, enabled |-> enabled]]
  /\ UNCHANGED <<store, history, eval>>

\* Mutant: a changed query keeps the baseline of the one before.
SavedRowStillPrimed(read, q, enabled) ==
  LET changed == read.version = 0 \/ read.query # q
  IN  [version |-> IF changed THEN read.version + 1 ELSE read.version, query |-> q,
       enabled |-> enabled, primed |-> read.primed]

\* Mutant: every save loses the baseline.
SavedRowUnprimed(read, q, enabled) ==
  LET changed == read.version = 0 \/ read.query # q
  IN  [version |-> IF changed THEN read.version + 1 ELSE read.version, query |-> q,
       enabled |-> enabled, primed |-> FALSE]

\* the row save writes: a changed query is a new version and loses its baseline
SavedRow(read, q, enabled) ==
  LET changed == read.version = 0 \/ read.query # q
  IN  [version |-> IF changed THEN read.version + 1 ELSE read.version, query |-> q,
       enabled |-> enabled, primed |-> ~changed /\ read.primed]

CommitSave(d) ==
  LET new == SavedRow(edit[d].read, edit[d].query, edit[d].enabled) IN
  /\ edit[d] # Idle /\ new.version <= MaxVersion
  /\ row' = new
  /\ edit' = [edit EXCEPT ![d] = Idle]
  /\ UNCHANGED <<matches, outbox, eval, history>>

\* evaluate: the search as it stands, unless it is disabled
StartEvaluation(e) ==
  /\ eval[e] = Idle /\ row.enabled /\ (Apart => \A d \in Editor : edit[d] = Idle)
  /\ eval' = [eval EXCEPT ![e] =
                [step |-> "search", query |-> row.query, version |-> row.version, now |-> clock,
                 cursor |-> <<>>, found |-> {}, keys |-> [l \in Hits(row.query, clock) |-> Key(l, clock)]]]
  /\ UNCHANGED <<store, history, edit>>

\* the listings that matched at the start of an evaluation and at every page of it
\* since, in the same place of the order
Steady(v) ==
  {l \in DOMAIN v.keys \cap Hits(v.query, v.now) : Key(l, v.now) = v.keys[l]}

\* one search of _all_matching_ids
FetchPage(e) ==
  LET v == eval[e]
      next == NextCursor(v.query, v.now, v.cursor)
  IN
  /\ v.step = "search"
  /\ eval' = [eval EXCEPT ![e].found = @ \cup Page(v.query, v.now, v.cursor),
                          ![e].keys = [l \in Steady(v) |-> v.keys[l]],
                          ![e].cursor = next,
                          ![e].step = IF next = <<>> THEN "check" ELSE "search"]
  /\ UNCHANGED <<store, history, edit>>

\* is_primed, on the row of that moment
CheckPrimed(e) ==
  /\ eval[e].step = "check"
  /\ eval' = [eval EXCEPT ![e].step = IF row.primed THEN "mark" ELSE "baseline"]
  /\ UNCHANGED <<store, history, edit>>

Pairs(v, found) == {v} \X found

\* establish_baseline: the row is primed whatever version it has come to
CommitBaseline(e) ==
  LET v == eval[e] IN
  /\ v.step = "baseline"
  /\ matches' = matches \cup Pairs(v.version, v.found)
  /\ row' = [row EXCEPT !.primed = TRUE]
  /\ eval' = [eval EXCEPT ![e] = Idle]
  /\ IF v.version \in baselined THEN UNCHANGED history
     ELSE /\ baselined' = baselined \cup {v.version}
          /\ baseline' = baseline \cup Pairs(v.version, v.found)
          /\ already' = already \cup Pairs(v.version, DOMAIN v.keys)
  /\ UNCHANGED <<outbox, edit>>

\* mark_matches: is_primed again, then an alert for each listing not seen before.
\* Nothing in the transaction reads the row, so the two are one step.
CommitMatches(e) ==
  LET v == eval[e]
      new == Pairs(v.version, v.found) \ matches
  IN
  /\ v.step = "mark"
  /\ \/ ~row.primed /\ UNCHANGED <<matches, outbox>>
     \/ /\ row.primed
        /\ matches' = matches \cup new /\ outbox' = outbox \cup new
  /\ eval' = [eval EXCEPT ![e] = Idle]
  /\ UNCHANGED <<row, history, edit>>

SearchesNext ==
  \/ \E d \in Editor, q \in Query, enabled \in BOOLEAN : BeginSave(d, q, enabled)
  \/ \E d \in Editor : CommitSave(d)
  \/ \E e \in Evaluator : StartEvaluation(e)
  \/ \E e \in Evaluator : FetchPage(e)
  \/ \E e \in Evaluator : CheckPrimed(e)
  \/ \E e \in Evaluator : CommitBaseline(e)
  \/ \E e \in Evaluator : CommitMatches(e)

\* over an inventory to which anything may happen between two steps
SearchesSpec ==
  /\ InventoryInit /\ SearchesInit
  /\ [][ \/ InventoryNext /\ UNCHANGED desk
         \/ SearchesNext /\ UNCHANGED inventory ]_<<inventory, desk>>

-----------------------------------------------------------------------------
\* The rows of the inventory and of the desk are well typed.
MarketTypeOK ==
  /\ InventoryTypeOK
  /\ row = NoRow \/ row \in [version : Version, query : Query, enabled : BOOLEAN, primed : BOOLEAN]
  /\ {matches, outbox, baseline, already} \subseteq SUBSET (Version \X Listing)
  /\ baselined \subseteq Version

\* No alert storm: an alert is for a version that has its baseline, and not for a
\* listing that matched all the while the baseline was read, however the pages
\* and the inventory interleaved. It needs saves and evaluations kept apart:
\* establish_baseline primes whatever version the row has come to.
QuietBaseline ==
  \A a \in outbox : a[1] \in baselined /\ a \notin already

\* No lost alert: what a version has seen was there at its first baseline or has
\* been alerted, saves that change only the name or `enabled` notwithstanding
\* (establish_baseline, mark_matches). It is checked with one evaluator and with
\* saves and evaluations kept apart, as QuietBaseline is: of two evaluators that
\* both find a version unprimed, the later one records without an alert what the
\* first baseline had not seen.
NoLostAlert ==
  \A m \in matches : m \in baseline \/ m \in outbox

\* The owner's view: a version is given its baseline once and as a whole, and no
\* listing of it is alerted twice or after it was in the baseline, whatever pages,
\* edits and evaluations do in between (establish_baseline, mark_matches). It needs
\* saves and evaluations kept apart, as QuietBaseline does.
Promise == INSTANCE AlertPromise
AlertsSpec == Promise!Spec
=============================================================================
