---------------------------- MODULE MCInputGates ----------------------------
(* Small instances of InputGates.  Requests and keys are not made           *)
(* interchangeable: EveryRequestEnds is temporal.                           *)
EXTENDS InputGates
=============================================================================
