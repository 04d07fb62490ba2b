------------------------------ MODULE IapCore ------------------------------
(***************************************************************************)
(* iap_core.c over the storage port: each library call is a relation       *)
(* between the flash before the call, the flash after it and the status it *)
(* returns.  A caller conjoins the relation with what it does with that    *)
(* status, so the boot loader and the application share one translation of *)
(* the library.                                                            *)
(*                                                                         *)
(* `stored' is what the storage port returns for the control address: the  *)
(* newest committed control, or NoControl.  A save is atomic here (old or  *)
(* new, never a mixture).  `slot' says for each slot which complete image  *)
(* it holds; NoImage stands for every content iap_verify_image rejects.    *)
(***************************************************************************)
EXTENDS BootControl

CONSTANTS
  Images,      \* complete images: valid header and matching CRC
  NoImage,     \* erased, torn, damaged or foreign slot content
  NoControl,   \* no valid record at the control address
  MaxFaults    \* bound on storage errors and damaged slots

ASSUME NoImageAssumption == NoImage \notin Images
ASSUME NoControlAssumption == NoControl \notin Control
ASSUME MaxFaultsAssumption == MaxFaults \in Nat

VARIABLES
  stored,      \* newest committed boot control
  slot,        \* content of the two image slots
  armed,       \* write_failures_remaining > 0: the next control write fails
  faults       \* storage errors and damaged slots so far

coreVars == <<stored, slot, armed, faults>>

Failure == {"INVALID_ARG", "STORAGE", "VERIFY", "BOOT_CONTROL", "NO_VALID_IMAGE"}
Status == {"OK"} \cup Failure

(***************************************************************************)
(* Bad luck of the flash.  A read error leaves no trace.                   *)
(***************************************************************************)
Fault == faults < MaxFaults /\ faults' = faults + 1

ReadFault == Fault /\ UNCHANGED <<stored, slot, armed>>

\* iap_verify_image returns IAP_OK: header and CRC of the slot are good.
Verifies(s) == slot[s] \in Images

(***************************************************************************)
(* iap_boot_control_save.  A storage error is ambiguous: the commit word   *)
(* may have been programmed before the driver gave up, so the new control  *)
(* may or may not be the stored one.  The injected failure of              *)
(* stm32_iap_storage_fail_next_write returns before the flash is touched.  *)
(***************************************************************************)
SaveControl(c, st) ==
  /\ UNCHANGED slot
  /\ \/ /\ ~ControlIsValid(c)
        /\ st = "INVALID_ARG"
        /\ UNCHANGED <<stored, armed, faults>>
     \/ /\ ControlIsValid(c) /\ armed
        /\ st = "STORAGE"
        /\ armed' = FALSE
        /\ UNCHANGED <<stored, faults>>
     \/ /\ ControlIsValid(c) /\ ~armed
        /\ st = "OK"
        /\ stored' = c
        /\ UNCHANGED <<armed, faults>>
     \/ /\ ControlIsValid(c) /\ ~armed
        /\ st = "STORAGE"
        /\ Fault
        /\ stored' \in {stored, c}
        /\ UNCHANGED armed

\* Mutations: the image is not verified before it is marked or confirmed.
MarkPendingUnverified(c, s, st) ==
  \/ s = c.active /\ st = "INVALID_ARG" /\ UNCHANGED coreVars
  \/ s # c.active /\ SaveControl(WithPending(c, s), st)

ConfirmUnverified(c, s, st) ==
  \/ s \notin {c.active, c.pending} /\ st = "INVALID_ARG" /\ UNCHANGED coreVars
  \/ s \in {c.active, c.pending} /\ SaveControl(WithConfirmed(c, s), st)

(***************************************************************************)
(* iap_mark_pending, iap_confirm_current_image and iap_rollback: refuse,   *)
(* verify, build the updated control, save it.  c is the caller's copy.    *)
(***************************************************************************)
MarkPending(c, s, st) ==
  \/ s = c.active /\ st = "INVALID_ARG" /\ UNCHANGED coreVars
  \/ s # c.active /\ st = "STORAGE" /\ ReadFault
  \/ s # c.active /\ ~Verifies(s) /\ st = "VERIFY" /\ UNCHANGED coreVars
  \/ s # c.active /\ Verifies(s) /\ SaveControl(WithPending(c, s), st)

ConfirmCurrentImage(c, s, st) ==
  \/ s \notin {c.active, c.pending} /\ st = "INVALID_ARG" /\ UNCHANGED coreVars
  \/ s \in {c.active, c.pending} /\ st = "STORAGE" /\ ReadFault
  \/ s \in {c.active, c.pending} /\ ~Verifies(s) /\ st = "VERIFY" /\ UNCHANGED coreVars
  \/ s \in {c.active, c.pending} /\ Verifies(s) /\ SaveControl(WithConfirmed(c, s), st)

Rollback(c, st) == SaveControl(WithoutPending(c), st)

\* Mutation: too many sectors are erased and the other slot goes with them.
EraseOverruns(s, protected, st) ==
  /\ UNCHANGED <<stored, armed, faults>>
  /\ st = "OK"
  /\ slot' = [t \in Slot |-> NoImage]

(***************************************************************************)
(* iap_write_candidate_image after its checks of the image in RAM: erase   *)
(* the slot, then program it and read it back.  The driver refuses the     *)
(* slot it protects.  An interrupted or failed erase or program leaves     *)
(* content that does not verify, or (a late error) the intended content.   *)
(***************************************************************************)
EraseSlot(s, protected, st) ==
  /\ UNCHANGED <<stored, armed>>
  /\ \/ s = protected /\ st = "INVALID_ARG" /\ UNCHANGED <<slot, faults>>
     \/ /\ s # protected /\ st = "OK"
        /\ slot' = [slot EXCEPT ![s] = NoImage]
        /\ UNCHANGED faults
     \/ /\ s # protected /\ st = "STORAGE"
        /\ Fault
        /\ slot' \in {slot, [slot EXCEPT ![s] = NoImage]}

ProgramSlot(s, protected, img, st) ==
  /\ UNCHANGED <<stored, armed>>
  /\ \/ s = protected /\ st = "INVALID_ARG" /\ UNCHANGED <<slot, faults>>
     \/ /\ s # protected
        /\ st = IF img \in Images THEN "OK" ELSE "VERIFY"
        /\ slot' = [slot EXCEPT ![s] = img]
        /\ UNCHANGED faults
     \/ /\ s # protected /\ st = "STORAGE"
        /\ Fault
        /\ \E content \in {NoImage, img} : slot' = [slot EXCEPT ![s] = content]
=============================================================================
