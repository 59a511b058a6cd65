------------------------- MODULE MCExecutionEngine --------------------------
(***************************************************************************)
(* ExecutionEngine for TLC: the waves of the steps as a definition.        *)
(***************************************************************************)
EXTENDS ExecutionEngine

\* All steps in one wave, and every step in a wave of its own.
OneWave  == [s \in Steps |-> 1]
InSeries == [s \in Steps |-> s]

\* Bound: the plan needs no approval, whose two commands only shift the version.
NoApproval == taskState # "awaiting_approval"

\* Bound: nothing is claimed after a cancellation, so nothing is continued either.
NotCancelled == taskState # "cancelled"
=============================================================================
