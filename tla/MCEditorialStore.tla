-------------------------- MODULE MCEditorialStore --------------------------
(* Small instances of EditorialStore.  Runs are not made interchangeable:   *)
(* NothingAfterSwitch is temporal.                                          *)
EXTENDS EditorialStore
=============================================================================
