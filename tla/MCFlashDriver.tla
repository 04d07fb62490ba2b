--------------------------- MODULE MCFlashDriver ---------------------------
(***************************************************************************)
(* Flash 4..31 near the top of an address space of 34 with words of four   *)
(* bytes: the boot loader, two slots of two words each, the control        *)
(* sectors, and a reserved rest.                                           *)
(***************************************************************************)
EXTENDS FlashDriver

AtBase == [address |-> 4, size |-> 4]
AtA == [address |-> 8, size |-> 8]
AtB == [address |-> 16, size |-> 8]
AtControl == [address |-> 24, size |-> 6]
=============================================================================
