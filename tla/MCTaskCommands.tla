--------------------------- MODULE MCTaskCommands ---------------------------
(* Small instances of TaskCommands.                                        *)
EXTENDS TaskCommands, TLC

CONSTANT GatedVersion   \* bound: version of a task whose plans need approvals

\* Requests, keys and gate keys are interchangeable within their set.
Symmetry == Permutations(Requests) \cup Permutations(Keys) \cup Permutations(GateKeys)

\* Bound: on a task whose plans need approvals, clients only approve and revise.
GatedOrRun ==
    required = {} \/
        /\ hasDriver /\ version <= GatedVersion
        /\ \A r \in Requests : req[r].pc # "idle" => Kind(r) = "approve"

\* Bound: on late versions one revision was made, and no client cancels.
LateVersions ==
    version >= MaxVersion =>
        plan <= 2 /\ \A r \in Requests : req[r].pc # "idle" => Kind(r) # "cancel"
=============================================================================
