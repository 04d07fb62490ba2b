---------------------------- MODULE MCImageChain ----------------------------
(***************************************************************************)
(* Two adjacent slots, each of two vector alignment units.                 *)
(***************************************************************************)
EXTENDS ImageChain

TwoSlots == [s \in Slot |-> IF s = "A" THEN 4 ELSE 12]
=============================================================================
