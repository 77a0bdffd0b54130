------------------------- MODULE MCIncidentResponse -------------------------
(***************************************************************************)
(* Two responders who race for one action, two evidence ids, two proposals *)
(* made for either of two missions, and a log with room for the shortest   *)
(* path to a closure (nine events) and two events more.                    *)
(***************************************************************************)
EXTENDS IncidentResponse, TLC

CONSTANTS r1, r2, e1, e2, p1, p2

MCResponder == {r1, r2}
MCEvidence == {e1, e2}
MCProposal == {p1, p2}

\* Responders, evidence and proposals are interchangeable.
Symmetry == Permutations(MCResponder) \cup Permutations(MCEvidence) \cup Permutations(MCProposal)
=============================================================================
