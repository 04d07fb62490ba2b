------------------------ MODULE IapDeviceRefinement ------------------------
(***************************************************************************)
(* IapDevice implements ABUpdate.  An empty control area already means     *)
(* what the boot loader will write into it: fall back to slot A, no trial. *)
(***************************************************************************)
EXTENDS IapDevice

Meaning == IF stored = NoControl THEN DefaultControl("A") ELSE stored

AB == INSTANCE ABUpdate WITH
  fallback  <- Meaning.active,
  trial     <- Meaning.pending,
  tries     <- Meaning.attempts,
  charged   <- pc = "jump" /\ current = stored.pending,
  executing <- IF pc \in AppPc \cup {"hung"} THEN current ELSE NoSlot,
  sound     <- {s \in Slot : Verifies(s)}

\* Every behaviour of the device, with its lost saves, injected failures,
\* resets and cuts, is a behaviour of the abstract A/B update: in particular
\* no launch of a trial without a charge, no promotion without a running
\* sound trial, no trial of the fallback slot.
ImplementsABUpdate == AB!ABSpec
=============================================================================
