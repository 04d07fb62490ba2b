---------------------------- MODULE ControlStore ----------------------------
(***************************************************************************)
(* What the library expects of the control address (IapCore!SaveControl):  *)
(* one register.  A save that returns IAP_OK has replaced the value, one   *)
(* that fails or is cut short has either replaced it or left it alone, and *)
(* nothing else ever changes it.                                           *)
(***************************************************************************)
CONSTANTS Controls, NoControl

VARIABLES
  value,     \* what a load returns
  saving,    \* the control being saved, or NoControl
  result     \* how the last save ended; NONE while it runs or if it was cut

storeVars == <<value, saving, result>>

StoreInit == value = NoControl /\ saving = NoControl /\ result = "NONE"

BeginSave ==
  /\ saving = NoControl
  /\ saving' \in Controls /\ result' = "NONE"
  /\ UNCHANGED value

\* Even when the save then reports an error, or nobody learns how it ended.
SaveReplaces ==
  /\ saving # NoControl
  /\ value' = saving
  /\ saving' = NoControl /\ result' \in {"OK", "STORAGE", "NONE"}

SaveLeavesAlone ==
  /\ saving # NoControl
  /\ saving' = NoControl /\ result' \in {"STORAGE", "NONE"}
  /\ UNCHANGED value

StoreNext == BeginSave \/ SaveReplaces \/ SaveLeavesAlone

StoreSpec == StoreInit /\ [][StoreNext]_storeVars
=============================================================================
