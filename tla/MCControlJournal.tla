-------------------------- MODULE MCControlJournal --------------------------
(* Two controls, so that a lost or repeated save shows; a short sequence   *)
(* number, so that it wraps while both sectors are in use.                 *)
EXTENDS ControlJournal

CONSTANTS c1, c2

TwoControls == {c1, c2}
=============================================================================
