------------------------------ MODULE Inventory ------------------------------
(***************************************************************************)
(* The canonical listing inventory: what publishers submit, the canonical  *)
(* listing a group of duplicates is projected on, its lifecycle, and the   *)
(* processes that move it.                                                 *)
(***************************************************************************)
EXTENDS Integers, Sequences, FiniteSets

CONSTANTS
  Listing,       \* duplicate fingerprints; a canonical id is derived from one
  Submission,    \* the candidates publishers may submit
  Writer,        \* processes that call transition or expire_stale
  Target,        \* the states writers ask for
  TrustScore,    \* publisher trust, in units of its weight in the ranking
  MaxAge,        \* FreshnessPolicy.max_age_days
  MaxTime,       \* bound: the clock
  MaxEvents      \* bound: lifecycle events of a listing

VARIABLES
  sources,       \* source_records with their membership, in order of insertion
  canonical,     \* canonical_listings
  lifecycle,     \* lifecycle_events of each listing
  trust,         \* publisher_trust
  call,          \* what a writer has read and not yet written
  clock,
  overlapped     \* history: listings two writers were moving at one time

inventory == <<sources, canonical, lifecycle, trust, call, clock, overlapped>>
records == <<sources, canonical, lifecycle, trust>>

ListingState ==
  {"DRAFT", "ACTIVE", "UNDER_OFFER", "SOLD", "RENTED", "WITHDRAWN", "EXPIRED"}

\* Mutant: every rights basis is good enough.
AnyRights == {"OWNER_SUBMITTED", "PARTNER_FEED", "LICENSED_DATA", "UNAUTHORIZED_SCRAPE"}

\* _ALLOWED_RIGHTS
AllowedRights == {"OWNER_SUBMITTED", "PARTNER_FEED", "LICENSED_DATA"}

\* _ALLOWED_TRANSITIONS
Onward(state) ==
  CASE state = "DRAFT"       -> {"ACTIVE", "WITHDRAWN"}
    [] state = "ACTIVE"      -> {"UNDER_OFFER", "SOLD", "RENTED", "WITHDRAWN", "EXPIRED"}
    [] state = "UNDER_OFFER" -> {"ACTIVE", "SOLD", "RENTED", "WITHDRAWN", "EXPIRED"}
    [] state = "EXPIRED"     -> {"ACTIVE", "WITHDRAWN"}
    [] OTHER                 -> {}

\* Candidates are dated and in one of the states; a group is known by its listing.
ASSUME InventoryAssumption ==
  /\ \A c \in Submission : c.listing \in Listing /\ c.verified \in Int /\ c.state \in ListingState
  /\ MaxTime \in Nat

Publisher == {c.publisher : c \in Submission}
Absent == [state |-> "ABSENT"]
Present(l) == canonical[l].state # "ABSENT"

\* freshness_score > 0; the score itself, in days
Freshness(c, t) ==
  LET age == IF t > c.verified THEN t - c.verified ELSE 0
  IN  IF age >= MaxAge THEN 0 ELSE MaxAge - age

\* _source_version_id: neither the rights nor what the fingerprint is made of
VersionOf(c) == <<c.ref, c.publisher, c.verified, c.state, c.price>>

SourcesOf(l) == {i \in DOMAIN sources : sources[i].listing = l}

\* Mutant: the source that was fed last wins.
LatestFed(row, c) == [row EXCEPT !.active = c]

\* Mutant: a newer source brings its own state along.
ProjectedWithState(row, c) ==
  IF c.verified > row.active.verified THEN [state |-> c.state, active |-> c] ELSE row

\* add_source on a known group: a source that was verified later takes the
\* listing's fields over, never its state
Projected(row, c) ==
  IF c.verified > row.active.verified THEN [row EXCEPT !.active = c] ELSE row

-----------------------------------------------------------------------------
InventoryInit ==
  /\ sources = <<>> /\ lifecycle = [l \in Listing |-> <<>>]
  /\ canonical = [l \in Listing |-> Absent]
  /\ trust = [p \in Publisher |-> 0]
  /\ call = [w \in Writer |-> [kind |-> "idle"]]
  /\ clock = 0 /\ overlapped = {}

\* add_source
AddSource(c) ==
  LET l == c.listing IN
  /\ c.rights \in AllowedRights
  /\ \A i \in DOMAIN sources : VersionOf(sources[i]) # VersionOf(c)
  /\ sources' = Append(sources, c)
  /\ \/ /\ ~Present(l)
        /\ canonical' = [canonical EXCEPT ![l] = [state |-> c.state, active |-> c]]
        /\ lifecycle' = [lifecycle EXCEPT ![l] = <<<<"NONE", c.state>>>>]
     \/ /\ Present(l)
        /\ canonical' = [canonical EXCEPT ![l] = Projected(@, c)]
        /\ UNCHANGED lifecycle
  /\ UNCHANGED <<trust, call, clock, overlapped>>

\* record_publisher_trust
RecordTrust(p, score) ==
  /\ trust' = [trust EXCEPT ![p] = score]
  /\ UNCHANGED <<sources, canonical, lifecycle, call, clock, overlapped>>

\* what a writer is left with once a listing of its sweep is dealt with
Rest(left) ==
  IF left = {} THEN [kind |-> "idle"] ELSE [kind |-> "sweep", left |-> left]

Moving(w, l) == call[w].kind = "move" /\ call[w].listing = l

\* transition up to its own transaction, with the rest of a sweep if there is one
Prepare(w, l, to, left) ==
  /\ Len(lifecycle[l]) < MaxEvents
  /\ call' = [call EXCEPT ![w] = [kind |-> "move", listing |-> l,
                                  from |-> canonical[l].state, to |-> to, left |-> left]]
  /\ overlapped' = IF \E v \in Writer \ {w} : Moving(v, l)
                   THEN overlapped \cup {l} ELSE overlapped

BeginTransition(w, l, to) ==
  /\ call[w].kind = "idle"
  /\ to \in Onward(canonical[l].state)
  /\ Prepare(w, l, to, {})
  /\ UNCHANGED <<records, clock>>

\* the transaction: the state goes over whatever stands there now
CommitTransition(w) ==
  LET m == call[w] IN
  /\ m.kind = "move" /\ Len(lifecycle[m.listing]) < MaxEvents
  /\ canonical' = [canonical EXCEPT ![m.listing].state = m.to]
  /\ lifecycle' = [lifecycle EXCEPT ![m.listing] = Append(@, <<m.from, m.to>>)]
  /\ call' = [call EXCEPT ![w] = Rest(m.left)]
  /\ UNCHANGED <<sources, trust, clock, overlapped>>

\* expire_stale: which listings are stale is decided on the rows read first
BeginSweep(w) ==
  LET stale == {l \in Listing : /\ canonical[l].state \in {"ACTIVE", "UNDER_OFFER"}
                                /\ Freshness(canonical[l].active, clock) = 0}
  IN
  /\ call[w].kind = "idle" /\ stale # {}
  /\ call' = [call EXCEPT ![w] = [kind |-> "sweep", left |-> stale]]
  /\ UNCHANGED <<records, clock, overlapped>>

\* its transition of one listing, which is already expired, or can be, or raises
SweepOne(w, l) ==
  /\ call[w].kind = "sweep" /\ l \in call[w].left
  /\ LET left == call[w].left \ {l}
         state == canonical[l].state
     IN  \/ /\ "EXPIRED" \in Onward(state)
            /\ Prepare(w, l, "EXPIRED", left)
         \/ /\ state = "EXPIRED"
            /\ call' = [call EXCEPT ![w] = Rest(left)]
            /\ UNCHANGED overlapped
         \/ /\ state \notin {"ACTIVE", "UNDER_OFFER", "EXPIRED"}
            /\ call' = [call EXCEPT ![w] = [kind |-> "idle"]]
            /\ UNCHANGED overlapped
  /\ UNCHANGED <<records, clock>>

Tick ==
  /\ clock < MaxTime /\ clock' = clock + 1
  /\ UNCHANGED <<records, call, overlapped>>

Endorse == \E p \in Publisher, score \in TrustScore : RecordTrust(p, score)

Move ==
  \/ \E w \in Writer, l \in Listing, to \in Target : BeginTransition(w, l, to)
  \/ \E w \in Writer : CommitTransition(w)
  \/ \E w \in Writer : BeginSweep(w)
  \/ \E w \in Writer, l \in Listing : SweepOne(w, l)

InventoryNext == (\E c \in Submission : AddSource(c)) \/ Endorse \/ Tick \/ Move

InventorySpec == InventoryInit /\ [][InventoryNext]_inventory

-----------------------------------------------------------------------------
\* The rows of the inventory hold what the schema and the enumerations allow, and
\* no scraped candidate is among the sources (ensure_ingestion_is_authorized).
InventoryTypeOK ==
  /\ sources \in Seq({c \in Submission : c.rights # "UNAUTHORIZED_SCRAPE"})
  /\ \A l \in Listing :
       canonical[l] = Absent \/ canonical[l] \in [state : ListingState, active : Submission]
  /\ \A l \in Listing : \A i \in DOMAIN lifecycle[l] :
       lifecycle[l][i] \in (ListingState \cup {"NONE"}) \X ListingState
  /\ trust \in [Publisher -> TrustScore \cup {0}]
  /\ DOMAIN call = Writer /\ clock \in 0..MaxTime /\ overlapped \subseteq Listing

\* A listing is there exactly when a source of its group is, and shows a source
\* of the group that no other was verified later than, in whatever order the
\* feeds delivered them (add_source compares last_verified_at before it replaces
\* the active version).
ActiveIsFreshest ==
  \A l \in Listing :
    /\ Present(l) <=> SourcesOf(l) # {}
    /\ Present(l) => /\ \E i \in SourcesOf(l) : sources[i] = canonical[l].active
                     /\ \A i \in SourcesOf(l) : sources[i].verified <= canonical[l].active.verified

\* While no two writers move one listing at a time its events are one legal path
\* from its creation to the state on its row, sweeps, refusals and new sources
\* between them notwithstanding (transition checks a state it read before its
\* transaction and writes without looking again).
LifecycleIsAPath ==
  \A l \in Listing : (Present(l) /\ l \notin overlapped) =>
    LET log == lifecycle[l] IN
    /\ log # <<>> /\ log[1][1] = "NONE"
    /\ log[Len(log)][2] = canonical[l].state
    /\ \A i \in 2..Len(log) : log[i][1] = log[i - 1][2] /\ log[i][2] \in Onward(log[i][1])
=============================================================================
