-------------------------- MODULE MCZeroPublication --------------------------
(* Small instances of ZeroPublication.  Workers are not made                *)
(* interchangeable: EveryRunEnds is temporal.                               *)
EXTENDS ZeroPublication
=============================================================================
