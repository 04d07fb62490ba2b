---------------------------- MODULE MCTestMailbox ----------------------------
(* The control block of one board and one probe. *)
EXTENDS TestMailbox
=============================================================================
