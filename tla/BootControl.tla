---------------------------- MODULE BootControl ----------------------------
(***************************************************************************)
(* The boot control block of iap_core.c and the five ways the library      *)
(* rewrites it.  Everything here is a pure function of a control value;    *)
(* the modules that load and save it are IapCore and IapDevice.            *)
(*                                                                         *)
(* Two fields of iap_boot_control_t are left out.  magic and version only  *)
(* separate a control block from erased or foreign flash, which IapCore    *)
(* writes NoControl.  image_crc32 and image_size are filled in by          *)
(* iap_mark_pending and read by no code.                                   *)
(***************************************************************************)
EXTENDS Integers

CONSTANT MaxAttempts    \* ctx->max_boot_attempts, copied into every control

ASSUME MaxAttemptsAssumption == MaxAttempts \in Nat \ {0}

Slot == {"A", "B"}
NoSlot == "NONE"

OtherSlot(s) == IF s = "A" THEN "B" ELSE "A"

Control == [active    : Slot,
            pending   : Slot \cup {NoSlot},
            attempts  : Nat,
            confirmed : SUBSET Slot]

(***************************************************************************)
(* What iap_boot_control_load and every iap_boot_control_save insist on.   *)
(***************************************************************************)
ControlIsValid(c) ==
  /\ c \in Control
  /\ c.attempts <= MaxAttempts
  /\ c.active \in c.confirmed
  /\ c.pending = NoSlot => c.attempts = 0
  /\ c.pending # NoSlot => c.pending # c.active /\ c.pending \notin c.confirmed

DefaultControl(s) ==
  [active |-> s, pending |-> NoSlot, attempts |-> 0, confirmed |-> {s}]

WithAttempt(c) == [c EXCEPT !.attempts = @ + 1]

WithPending(c, s) ==
  [c EXCEPT !.pending = s, !.attempts = 0, !.confirmed = @ \ {s}]

\* Mutation: the slot given up stays confirmed.
WithConfirmedAdded(c, s) ==
  [c EXCEPT !.active = s, !.pending = NoSlot, !.attempts = 0, !.confirmed = @ \cup {s}]

WithConfirmed(c, s) ==
  [c EXCEPT !.active = s, !.pending = NoSlot, !.attempts = 0, !.confirmed = {s}]

WithoutPending(c) ==
  [c EXCEPT !.pending = NoSlot, !.attempts = 0,
            !.confirmed = @ \ {OtherSlot(c.active)}]
=============================================================================
