------------------------ MODULE MCVisualPublication ------------------------
(* Small instances of VisualPublication: its constants are bounds enough.   *)
EXTENDS VisualPublication
=============================================================================
