----------------------------- MODULE MCPlanning -----------------------------
(* Planning for TLC: bounds on its versions and on what runs together.      *)
EXTENDS Planning

CONSTANT MaxReqs   \* bound: requirement versions

FewVersions == Len(reqs) <= MaxReqs

\* Bound: while the planning request runs, there is one other handler.
FirstOrMore ==
    At(First, "over") \/ Cardinality({r \in Requests : ~At(r, "idle")}) <= 1
=============================================================================
