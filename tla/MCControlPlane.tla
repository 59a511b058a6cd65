--------------------------- MODULE MCControlPlane ---------------------------
(***************************************************************************)
(* ControlPlane for TLC: callers are arbitrary, so the instance is kept    *)
(* small by bounding how many slots are in use at once.                    *)
(***************************************************************************)
EXTENDS ControlPlane

CONSTANT MaxUsed   \* bound: slots, over all attempts, with a row or an Artifact

Used == {s \in Attempts \X Slots : row[s[1]][s[2]] # "none" \/ art[s[1]][s[2]] # "none"}

FewSlots == Cardinality(Used) <= MaxUsed

\* Bound: only the first plan waits for approval, whose two commands shift the
\* version and nothing else.
FirstPlanApproval == taskState = "awaiting_approval" => planCount = 1 /\ attemptState[1] = "none"

\* Bound: either slots are in use, or the plan is revised.
SlotsOrPlans == Used = {} \/ planCount = 1
=============================================================================
