------------------------------- MODULE MCMarket -------------------------------
(***************************************************************************)
(* The market: one inventory, watched by a saved search, by the reviewers   *)
(* of anomalies, or by nobody but the writers who move its listings. The    *)
(* desks only read the inventory and share nothing else, so each is run     *)
(* with the changes it can tell apart: a search with feeds, trust and time, *)
(* a review with feeds, the writers with feeds and time. A fourth scene is  *)
(* the opening of one of the stores, before there is anything in it.        *)
(***************************************************************************)
EXTENDS SavedSearches, ReviewQueue, SchemaMigration

CONSTANTS Scene        \* the desks an instance watches

VARIABLE scene

vars == <<inventory, desk, queue, schema, scene>>

MCListing == {1, 2}

Offer(listing, publisher, verified, price) ==
  [listing |-> listing, publisher |-> publisher, ref |-> publisher, rights |-> "PARTNER_FEED",
   verified |-> verified, state |-> "ACTIVE", price |-> price]

\* two groups; the first has two publishers, who disagree, and both of them twice;
\* a scraped candidate that must not get in
MCSubmission ==
  {Offer(1, "home", 0, 4), Offer(1, "home", 1, 6), Offer(1, "home", 1, 8), Offer(1, "away", 0, 8),
   Offer(1, "away", 1, 4), Offer(2, "away", 1, 4),
   [Offer(2, "home", 1, 4) EXCEPT !.rights = "UNAUTHORIZED_SCRAPE"]}

\* what is fed to a scene: the changes of price for the review, the rest for the others
Fed ==
  [review |-> {c \in MCSubmission : c.listing = 1},
   alerts |-> {Offer(1, "home", 0, 4), Offer(1, "home", 1, 6), Offer(2, "away", 1, 4)},
   lifecycle |-> MCSubmission \ {Offer(1, "home", 1, 8), Offer(1, "away", 1, 4)}]

MCQuery == {[states |-> {"ACTIVE", "UNDER_OFFER"}, maxPrice |-> p] : p \in {5, 9}}

Init ==
  /\ scene \in Scene
  /\ InventoryInit /\ SearchesInit /\ QueueInit
  /\ IF scene = "opening" THEN SchemaInit
     ELSE script = <<>> /\ made = {} /\ version = {} /\ opening = [o \in Opener |-> 0]

Feed == \E c \in Fed[scene] : AddSource(c)

Next ==
  /\ UNCHANGED scene
  /\ \/ scene # "opening" /\ Feed /\ UNCHANGED <<desk, queue, schema>>
     \/ scene \in {"alerts", "lifecycle"} /\ Tick /\ UNCHANGED <<desk, queue, schema>>
     \/ scene = "alerts" /\ Endorse /\ UNCHANGED <<desk, queue, schema>>
     \/ scene = "alerts" /\ SearchesNext /\ UNCHANGED <<inventory, queue, schema>>
     \/ scene = "review" /\ QueueNext /\ UNCHANGED <<inventory, desk, schema>>
     \/ scene = "lifecycle" /\ Move /\ UNCHANGED <<desk, queue, schema>>
     \/ scene = "opening" /\ SchemaNext /\ UNCHANGED <<inventory, desk, queue>>

Spec == Init /\ [][Next]_vars
=============================================================================
