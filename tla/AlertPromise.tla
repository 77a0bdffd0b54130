----------------------------- MODULE AlertPromise -----------------------------
(***************************************************************************)
(* What a saved search promises to its owner: each version of it is given   *)
(* one baseline, whole and at once, and from then on a listing that is not  *)
(* in it is alerted once at most.  There are no pages, no edits under way   *)
(* and no inventory here.                                                   *)
(***************************************************************************)
CONSTANTS Listing, Version

VARIABLES
  baselined,       \* versions that have a baseline
  baseline,        \* pairs of a version and a listing in its baseline
  outbox           \* alerts, likewise

promise == <<baselined, baseline, outbox>>

Init == baselined = {} /\ baseline = {} /\ outbox = {}

Baseline(v) ==
  /\ v \notin baselined /\ baselined' = baselined \cup {v}
  /\ \E found \in SUBSET Listing : baseline' = baseline \cup ({v} \X found)
  /\ UNCHANGED outbox

Alert(v) ==
  /\ v \in baselined
  /\ \E new \in SUBSET Listing :
       /\ ({v} \X new) \cap (baseline \cup outbox) = {}
       /\ outbox' = outbox \cup ({v} \X new)
  /\ UNCHANGED <<baselined, baseline>>

Next == \E v \in Version : Baseline(v) \/ Alert(v)

Spec == Init /\ [][Next]_promise
=============================================================================
