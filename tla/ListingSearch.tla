---------------------------- MODULE ListingSearch ----------------------------
(***************************************************************************)
(* The deterministic search over the inventory: what a query matches, in   *)
(* which order, and what one page of it holds.                             *)
(***************************************************************************)
EXTENDS Inventory

CONSTANTS
  Query,         \* records of states and highest price
  PageSize       \* 100 in _all_matching_ids; smaller, so that pages meet changes

\* Listings are numbered in the order of their names, which ends every tie.
ASSUME SearchAssumption ==
  /\ Listing \subseteq Int /\ IsFiniteSet(Listing)
  /\ MaxAge \in Int /\ TrustScore \subseteq Int /\ PageSize \in Nat \ {0}

\* inventory.query: state and price
Candidates(q) ==
  {l \in Listing : canonical[l].state \in q.states /\ canonical[l].active.price <= q.maxPrice}

\* the candidates that rank_listing finds eligible
Hits(q, t) ==
  {l \in Candidates(q) : canonical[l].state \in {"ACTIVE", "UNDER_OFFER"}
                           /\ Freshness(canonical[l].active, t) > 0}

\* rank_listing: 25 parts freshness, 20 parts publisher trust; relevance and
\* completeness are the same for every listing of an instance
Score(c, t) == 25 * Freshness(c, t) + 20 * MaxAge * trust[c.publisher]

\* _sort_key
Key(l, t) ==
  LET c == canonical[l].active IN <<-Score(c, t), -c.verified, l>>

Precedes(a, b) ==
  \E i \in 1..3 : a[i] < b[i] /\ \A j \in 1..(i - 1) : a[j] = b[j]

\* what is left of the results strictly after the cursor
Remaining(q, t, cursor) ==
  {l \in Hits(q, t) : cursor = <<>> \/ Precedes(cursor, Key(l, t))}

Page(q, t, cursor) ==
  LET left == Remaining(q, t, cursor)
  IN  {l \in left : Cardinality({m \in left : Precedes(Key(m, t), Key(l, t))}) < PageSize}

\* the key of the page's last result when there is more, or no cursor
NextCursor(q, t, cursor) ==
  LET page == Page(q, t, cursor)
      last == CHOOSE l \in page : \A m \in page \ {l} : Precedes(Key(m, t), Key(l, t))
  IN  IF Cardinality(Remaining(q, t, cursor)) > PageSize THEN Key(last, t) ELSE <<>>
=============================================================================
