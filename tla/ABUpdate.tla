------------------------------ MODULE ABUpdate ------------------------------
(***************************************************************************)
(* What the A/B framework promises, without flash, RAM copies, commands or *)
(* storage errors: two slots, one of them the fallback, at most one trial  *)
(* with a counted number of tries, and at most one slot executing.         *)
(* IapDevice implements this (IapDeviceRefinement).                        *)
(***************************************************************************)
EXTENDS BootControl

VARIABLES
  fallback,   \* the slot a device without a trial runs
  trial,      \* the slot under trial, or NoSlot
  tries,      \* tries charged to the trial
  charged,    \* the next launch of the trial is paid for
  executing,  \* the slot that runs, or NoSlot while the device boots
  sound       \* slots that hold a complete image

abVars == <<fallback, trial, tries, charged, executing, sound>>

ABInit ==
  /\ fallback = "A" /\ trial = NoSlot /\ tries = 0 /\ charged = FALSE
  /\ executing = NoSlot
  /\ sound \in SUBSET Slot /\ "A" \in sound

Booting == executing = NoSlot

\* A step of the running image may end in a reset.
MayReset == executing' \in {executing, NoSlot}

-----------------------------------------------------------------------------
\* A charge that was not seen to succeed buys no launch.
Charge ==
  /\ Booting /\ trial \in sound /\ tries < MaxAttempts
  /\ tries' = tries + 1 /\ charged' \in BOOLEAN
  /\ UNCHANGED <<fallback, trial, executing, sound>>

LaunchTrial ==
  /\ Booting /\ charged /\ trial \in sound
  /\ executing' = trial /\ charged' = FALSE
  /\ UNCHANGED <<fallback, trial, tries, sound>>

\* The boot loader gives a trial up only when it is damaged or out of tries.
Abandon ==
  /\ Booting /\ ~charged /\ trial # NoSlot
  /\ trial \notin sound \/ tries = MaxAttempts
  /\ trial' = NoSlot /\ tries' = 0
  /\ UNCHANGED <<fallback, charged, executing, sound>>

LaunchFallback ==
  /\ Booting /\ trial = NoSlot /\ fallback \in sound
  /\ executing' = fallback
  /\ UNCHANGED <<fallback, trial, tries, charged, sound>>

\* Only the running image stages a trial, and never of the fallback slot.
Stage ==
  /\ ~Booting
  /\ \E s \in sound \ {fallback} : trial' = s /\ tries' = 0
  /\ MayReset
  /\ UNCHANGED <<fallback, charged, sound>>

\* A trial becomes the fallback only while it runs and is sound.
Promote ==
  /\ ~Booting /\ executing = trial /\ trial \in sound
  /\ fallback' = trial /\ trial' = NoSlot /\ tries' = 0
  /\ MayReset
  /\ UNCHANGED <<charged, sound>>

\* The running fallback may withdraw a trial it staged.
Withdraw ==
  /\ ~Booting /\ executing = fallback /\ trial # NoSlot
  /\ trial' = NoSlot /\ tries' = 0
  /\ MayReset
  /\ UNCHANGED <<fallback, charged, sound>>

\* The running image rewrites the other slot.
Rewrite ==
  /\ ~Booting
  /\ \E s \in Slot \ {executing} : sound' \in {sound \ {s}, sound \cup {s}}
  /\ MayReset
  /\ UNCHANGED <<fallback, trial, tries, charged>>

Decay ==
  /\ ~charged
  /\ \E s \in sound : sound' = sound \ {s}
  /\ UNCHANGED <<fallback, trial, tries, charged, executing>>

Reset ==
  /\ executing' = NoSlot /\ charged' = FALSE
  /\ UNCHANGED <<fallback, trial, tries, sound>>

ABNext ==
  \/ Charge \/ LaunchTrial \/ Abandon \/ LaunchFallback
  \/ Stage \/ Promote \/ Withdraw \/ Rewrite \/ Decay \/ Reset

ABSpec == ABInit /\ [][ABNext]_abVars
=============================================================================
