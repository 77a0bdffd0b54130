--------------------------- MODULE SchemaMigration ---------------------------
(***************************************************************************)
(* Opening one of the stores of the real estate mission: apply_migrations   *)
(* of the inventory, the saved searches, the review queue and the geo       *)
(* index.  executescript commits each CREATE by itself, so the transaction  *)
(* around it protects nothing but the version row that comes last.          *)
(***************************************************************************)
EXTENDS Naturals, Sequences

CONSTANTS Opener       \* processes that open the store, again and again

VARIABLES
  script,        \* the objects that version 1 of this store creates, in order
  made,          \* the objects of the script that are in the database
  version,       \* the applied versions
  opening        \* position of an opener in the script; 0 outside of it

schema == <<script, made, version, opening>>

InventoryScript ==
  <<"source_records", "idx_source_fingerprint", "canonical_listings", "duplicate_membership",
    "lifecycle_events", "publisher_trust">>
AlertScript ==
  <<"saved_searches", "idx_saved_search_owner", "alert_matches", "alert_outbox",
    "idx_alert_outbox_status">>
ReviewScript == <<"review_cases", "idx_review_status", "review_events", "idx_review_event_case">>
GeoScript == <<"geo_points", "idx_geo_latitude", "idx_geo_longitude">>

Objects == {script[i] : i \in DOMAIN script}

SchemaInit ==
  /\ script \in {InventoryScript, AlertScript, ReviewScript, GeoScript}
  /\ made = {} /\ version = {} /\ opening = [o \in Opener |-> 0]

\* the applied versions are read; with version 1 among them there is nothing to do
Open(o) ==
  /\ opening[o] = 0 /\ 1 \notin version
  /\ opening' = [opening EXCEPT ![o] = 1]
  /\ UNCHANGED <<script, made, version>>

\* one CREATE, committed; of an object that is there it raises
Create(o) ==
  LET object == script[opening[o]] IN
  /\ opening[o] \in DOMAIN script
  /\ IF object \in made
     THEN made' = made /\ opening' = [opening EXCEPT ![o] = 0]
     ELSE made' = made \cup {object} /\ opening' = [opening EXCEPT ![o] = @ + 1]
  /\ UNCHANGED <<script, version>>

\* Mutant: the version goes in ahead of the script's last object.
BeforeTheLast(o) == opening[o] = Len(script)

\* the script is behind this opener
ScriptDone(o) == opening[o] = Len(script) + 1

RecordVersion(o) ==
  /\ ScriptDone(o)
  /\ version' = version \cup {1}
  /\ opening' = [opening EXCEPT ![o] = 0]
  /\ UNCHANGED <<script, made>>

CrashOpening(o) ==
  /\ opening[o] # 0
  /\ opening' = [opening EXCEPT ![o] = 0]
  /\ UNCHANGED <<script, made, version>>

SchemaNext ==
  \E o \in Opener : Open(o) \/ Create(o) \/ RecordVersion(o) \/ CrashOpening(o)

SchemaSpec == SchemaInit /\ [][SchemaNext]_schema

-----------------------------------------------------------------------------
\* Whoever finds the version recorded finds all of its objects, although openers
\* race through a script whose statements commit one by one, and die in it.
RecordedIsComplete == 1 \in version => made = Objects

\* The migration is idempotent after a restart: with nobody in the middle of it the
\* store is either new or finished, so that the next opener does not run into
\* an object that exists (apply_migrations of the four stores).
Reopenable == (\A o \in Opener : opening[o] = 0) => version = {1} \/ made = {}
=============================================================================
