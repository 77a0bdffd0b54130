------------------------ MODULE MCReliabilityJournal ------------------------
(***************************************************************************)
(* One controller (Solo) or two that race (Pair), callers who obey         *)
(* resume_action or do not, the three effect classes, a budget of three    *)
(* attempts, a breaker that opens at the second failure and one crash.     *)
(***************************************************************************)
EXTENDS ReliabilityJournal, TLC

CONSTANTS c1, c2

Solo == {c1}
Pair == {c1, c2}

\* The controllers are interchangeable.
Symmetry == Permutations(Pair)
=============================================================================
