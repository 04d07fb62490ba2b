----------------------------- MODULE IapDevice -----------------------------
(***************************************************************************)
(* The whole device: the boot loader (iap_bootloader.c and the STM32F407   *)
(* platform), the test application of either slot (test_app_main.c), the   *)
(* debugger that writes its commands into retained RAM, the watchdog, and  *)
(* power.  Flash is IapCore's.                                             *)
(*                                                                         *)
(* One step is the code between two flash changes: host writes, resets and *)
(* power cuts fall between any two steps.  pc names where the processor is:*)
(*                                                                         *)
(*   load      iap_bootloader_run before iap_boot_control_load             *)
(*   select    in iap_select_boot_slot, the control loaded                 *)
(*   jump      a slot selected, before jump_to_slot                        *)
(*   recovery  enter_recovery: feeds the watchdog for ever                 *)
(*   app       the application's main loop, between two commands           *)
(*   program   install_slot_b: slot B erased, not yet programmed           *)
(*   mark      install_slot_b: slot B verified, not yet marked pending     *)
(*   probe     test_storage_read_failure: pending marked, not rolled back  *)
(*   hung      an image was entered that never feeds the watchdog          *)
(***************************************************************************)
EXTENDS IapCore

CONSTANTS
  Launchable,  \* images whose vector table jump_to_slot_callback accepts
  Responsive,  \* images that run the test application
  MaxCuts      \* bound on power cuts and external resets

ASSUME LaunchableAssumption == Responsive \subseteq Launchable /\ Launchable \subseteq Images
ASSUME MaxCutsAssumption == MaxCuts \in Nat

VARIABLES
  pc,          \* where the processor is (above)
  current,     \* the slot being entered or run
  control,     \* the RAM copy of the boot control held across a step
  reason,      \* the status enter_recovery was called with
  feeding,     \* feed_watchdog of the application's main loop
  command,     \* g_stm32_iap_test_control.command
  staging,     \* the image in staging RAM (argument0 is its size)
  cuts,        \* power cuts and external resets so far
  trials       \* auxiliary: launches of the pending image since it was marked

cpu == <<pc, current, control, reason, feeding>>
mailbox == <<command, staging>>
vars == <<coreVars, cpu, mailbox, cuts, trials>>

BootPc == {"load", "select", "jump"}
AppPc == {"app", "program", "mark", "probe"}
Pc == BootPc \cup AppPc \cup {"recovery", "hung"}

Command == {"NONE", "INSTALL_B", "HOLD", "CONFIRM", "FAIL", "CLEAR", "READ_TEST",
            "WRITE_TEST", "ACTIVATE", "NONPENDING"}

TypeOK ==
  /\ stored \in Control \cup {NoControl}
  /\ slot \in [Slot -> Images \cup {NoImage}]
  /\ armed \in BOOLEAN /\ feeding \in BOOLEAN
  /\ faults \in 0..MaxFaults /\ cuts \in 0..MaxCuts
  /\ pc \in Pc
  /\ current \in IF pc \in AppPc \cup {"jump", "hung"} THEN Slot ELSE {NoSlot}
  /\ control \in IF pc \in {"select", "jump", "probe"} THEN Control ELSE {NoControl}
  /\ reason \in IF pc = "recovery" THEN Failure ELSE {"OK"}
  /\ command \in Command
  /\ staging \in Images \cup {NoImage}
  /\ trials \in Nat

(***************************************************************************)
(* A board as the bring-up guide leaves it: the boot loader and a working  *)
(* image A, whatever slot B holds, and an erased control area.             *)
(***************************************************************************)
Init ==
  /\ stored = NoControl
  /\ slot \in [Slot -> Images \cup {NoImage}]
  /\ slot["A"] \in Responsive
  /\ armed = FALSE /\ faults = 0
  /\ pc = "load" /\ current = NoSlot /\ control = NoControl /\ reason = "OK"
  /\ feeding = TRUE
  /\ command = "NONE" /\ staging = NoImage
  /\ cuts = 0 /\ trials = 0

(***************************************************************************)
(* Where a step leaves the processor.                                      *)
(***************************************************************************)
Restart ==
  /\ pc' = "load" /\ current' = NoSlot /\ control' = NoControl
  /\ reason' = "OK" /\ feeding' = TRUE

Recover(st) ==
  /\ pc' = "recovery" /\ current' = NoSlot /\ control' = NoControl
  /\ reason' = st /\ feeding' = TRUE

Selected(s, c) ==
  /\ pc' = "jump" /\ current' = s /\ control' = c
  /\ UNCHANGED <<reason, feeding>>

Enter(where) ==
  /\ pc' = where /\ control' = NoControl
  /\ UNCHANGED <<current, reason, feeding>>

Cut == cuts < MaxCuts /\ cuts' = cuts + 1

\* A handler's last writes, after the last call that changes the flash.
Answer(cmd) == Enter("app") /\ command' = cmd /\ UNCHANGED <<staging, cuts>>

\* The same, unless a reset lands first: the command word then survives in
\* retained RAM and the next application runs the handler again.  A reset
\* disarms the driver; where the failure is still armed the flash is as it was,
\* and a reset before the handler shows the same.
AnswerUnlessReset(cmd) ==
  \/ Answer(cmd)
  \/ Cut /\ Restart /\ armed' = FALSE /\ UNCHANGED mailbox

\* A handler that ends by posting the next application's command and
\* resetting the system; a reset may also land before the post.
PostAndReset(cmd) ==
  /\ Restart /\ UNCHANGED staging
  /\ \/ command' = cmd /\ UNCHANGED cuts
     \/ Cut /\ UNCHANGED command

\* A save that made a fresh control starts its trial from nothing.
CountFromSave == trials' = IF stored' = stored THEN trials ELSE 0

-----------------------------------------------------------------------------
(***************************************************************************)
(* Boot loader: iap_bootloader_run with iap_select_boot_slot, called with  *)
(* IAP_SLOT_A as the default active slot.                                  *)
(***************************************************************************)
BootLoad ==
  /\ pc = "load" /\ stored # NoControl
  /\ pc' = "select" /\ control' = stored
  /\ UNCHANGED <<coreVars, current, reason, feeding, mailbox, cuts, trials>>

BootDefault ==
  /\ pc = "load" /\ stored = NoControl
  /\ LET c == DefaultControl("A") IN
       \/ /\ SaveControl(c, "OK")
          /\ pc' = "select" /\ control' = c
          /\ UNCHANGED <<current, reason, feeding>>
       \/ \E st \in Failure : SaveControl(c, st) /\ Recover(st)
  /\ UNCHANGED <<mailbox, cuts, trials>>

\* Mutations: the attempt is not saved; a failed save is overlooked; a trial
\* out of attempts is tried again instead of rolled back.
BootTrialUncharged ==
  /\ pc = "select" /\ control.pending # NoSlot
  /\ Verifies(control.pending) /\ control.attempts < MaxAttempts
  /\ Selected(control.pending, control)
  /\ UNCHANGED <<coreVars, mailbox, cuts, trials>>

BootTrialIgnoresSave ==
  /\ pc = "select" /\ control.pending # NoSlot
  /\ Verifies(control.pending) /\ control.attempts < MaxAttempts
  /\ \E st \in Status : SaveControl(WithAttempt(control), st)
  /\ Selected(control.pending, WithAttempt(control))
  /\ UNCHANGED <<mailbox, cuts, trials>>

BootTrialUnbounded ==
  /\ pc = "select" /\ control.pending # NoSlot
  /\ Verifies(control.pending)
  /\ LET c == WithAttempt(control) IN
       \/ SaveControl(c, "OK") /\ Selected(c.pending, c)
       \/ \E st \in Failure : SaveControl(c, st) /\ Recover(st)
  /\ UNCHANGED <<mailbox, cuts, trials>>

\* The attempt is charged in flash before the trial image is entered.
BootTrial ==
  /\ pc = "select" /\ control.pending # NoSlot
  /\ Verifies(control.pending) /\ control.attempts < MaxAttempts
  /\ LET c == WithAttempt(control) IN
       \/ SaveControl(c, "OK") /\ Selected(c.pending, c)
       \/ \E st \in Failure : SaveControl(c, st) /\ Recover(st)
  /\ UNCHANGED <<mailbox, cuts, trials>>

\* Mutations: the slot rolled back from is still entered; a trial that does
\* not verify is reported as having no image at all.
BootRollbackEntersTrial ==
  /\ pc = "select" /\ control.pending # NoSlot
  /\ ~Verifies(control.pending) \/ control.attempts >= MaxAttempts
  /\ Rollback(control, "OK")
  /\ Selected(control.pending, WithoutPending(control))
  /\ CountFromSave
  /\ UNCHANGED <<mailbox, cuts>>

BootRollbackGivesUp ==
  /\ pc = "select" /\ control.pending # NoSlot
  /\ ~Verifies(control.pending) \/ control.attempts >= MaxAttempts
  /\ Recover("NO_VALID_IMAGE")
  /\ UNCHANGED <<coreVars, mailbox, cuts, trials>>

BootRollback ==
  /\ pc = "select" /\ control.pending # NoSlot
  /\ ~Verifies(control.pending) \/ control.attempts >= MaxAttempts
  /\ \/ /\ Rollback(control, "OK")
        /\ control' = WithoutPending(control)
        /\ UNCHANGED <<pc, current, reason, feeding>>
     \/ \E st \in Failure : Rollback(control, st) /\ Recover(st)
  /\ CountFromSave
  /\ UNCHANGED <<mailbox, cuts>>

\* Mutation: after a rollback the active slot is entered unchecked.
BootActiveUnchecked ==
  /\ pc = "select" /\ control.pending = NoSlot
  /\ Selected(control.active, control)
  /\ UNCHANGED <<coreVars, mailbox, cuts, trials>>

BootActive ==
  /\ pc = "select" /\ control.pending = NoSlot
  /\ \/ Verifies(control.active) /\ Selected(control.active, control)
     \/ ~Verifies(control.active) /\ Recover("NO_VALID_IMAGE")
  /\ UNCHANGED <<coreVars, mailbox, cuts, trials>>

\* Mutations: a failed load falls through to the slot selection; a read error
\* is taken for a bad image.
BootReadFaultIgnored ==
  /\ pc \in BootPc
  /\ ReadFault
  /\ pc' = "select"
  /\ UNCHANGED <<current, control, reason, feeding, mailbox, cuts, trials>>

BootReadFaultRollsBack ==
  /\ pc = "select" /\ control.pending # NoSlot
  /\ Fault
  /\ stored' = WithoutPending(control) /\ control' = stored'
  /\ UNCHANGED <<slot, armed, pc, current, reason, feeding, mailbox, cuts, trials>>

\* Any read of the control, of a slot or of the selected header may fail.
BootReadFault ==
  /\ pc \in BootPc
  /\ ReadFault /\ Recover("STORAGE")
  /\ UNCHANGED <<mailbox, cuts, trials>>

(***************************************************************************)
(* iap_get_image_boot_address, watchdog_start and jump_to_slot_callback: a *)
(* vector table that fails its check sends the boot loader to recovery.    *)
(***************************************************************************)
BootJump ==
  /\ pc = "jump"
  /\ \/ /\ slot[current] \in Launchable
        /\ Enter(IF slot[current] \in Responsive THEN "app" ELSE "hung")
        /\ trials' = IF current = control.pending THEN trials + 1 ELSE trials
     \/ slot[current] \notin Launchable /\ Recover("VERIFY") /\ UNCHANGED trials
  /\ UNCHANGED <<coreVars, mailbox, cuts>>

BootStep ==
  BootLoad \/ BootDefault \/ BootTrial \/ BootRollback \/ BootActive \/ BootJump

-----------------------------------------------------------------------------
(***************************************************************************)
(* The test application's main loop: the handler of the posted command.    *)
(* Each handler loads the control afresh; while the application runs the   *)
(* stored control is valid, so only a read error can fail that load.       *)
(***************************************************************************)
Ready(cmd) == pc = "app" /\ command = cmd

\* The state most test commands insist on: this slot active, nothing pending.
Settled == stored.active = current /\ stored.pending = NoSlot

LoadFault ==
  /\ pc = "app"
  /\ command \in {"HOLD", "CONFIRM", "READ_TEST", "WRITE_TEST", "ACTIVATE", "NONPENDING"}
  /\ ReadFault /\ Answer("NONE")
  /\ UNCHANGED trials

RefuseUnsettled ==
  /\ pc = "app" /\ command \in {"READ_TEST", "WRITE_TEST", "ACTIVATE", "NONPENDING"}
  /\ ~Settled
  /\ Answer("NONE")
  /\ UNCHANGED <<coreVars, trials>>

\* install_slot_b and the checks iap_write_candidate_image makes in RAM.
InstallReject ==
  /\ Ready("INSTALL_B")
  /\ current # "A" \/ staging \notin Images
  /\ Answer("NONE")
  /\ UNCHANGED <<coreVars, trials>>

InstallErase ==
  /\ Ready("INSTALL_B")
  /\ current = "A" /\ staging \in Images
  /\ \/ EraseSlot("B", current, "OK") /\ Enter("program") /\ UNCHANGED <<mailbox, cuts>>
     \/ \E st \in Failure : EraseSlot("B", current, st) /\ AnswerUnlessReset("NONE")
  /\ UNCHANGED trials

InstallProgram ==
  /\ pc = "program"
  /\ \/ ProgramSlot("B", current, staging, "OK") /\ Enter("mark")
          /\ UNCHANGED <<mailbox, cuts>>
     \/ \E st \in Failure :
          ProgramSlot("B", current, staging, st) /\ AnswerUnlessReset("NONE")
  /\ UNCHANGED trials

InstallMark ==
  /\ pc = "mark"
  /\ \/ ReadFault /\ Answer("NONE")
     \/ MarkPending(stored, "B", "OK") /\ PostAndReset("HOLD")
     \/ \E st \in Failure : MarkPending(stored, "B", st) /\ AnswerUnlessReset("NONE")
  /\ CountFromSave

Confirm ==
  /\ Ready("CONFIRM")
  /\ \E st \in Status : ConfirmCurrentImage(stored, current, st)
  /\ AnswerUnlessReset("NONE")
  /\ CountFromSave

\* handle_failure_command: only slot A reports the rollback it sees.
FailRolledBack ==
  /\ Ready("FAIL")
  /\ current = "A" /\ stored.pending = NoSlot
  /\ feeding' = TRUE /\ command' = "NONE"
  /\ UNCHANGED <<coreVars, pc, current, control, reason, staging, cuts, trials>>

FailStarve ==
  /\ Ready("FAIL")
  /\ \/ (current # "A" \/ stored.pending # NoSlot) /\ UNCHANGED coreVars
     \/ current = "A" /\ ReadFault
  /\ feeding' = FALSE
  /\ UNCHANGED <<pc, current, control, reason, mailbox, cuts, trials>>

\* report_pending_state; a trial that is still pending keeps its command.
HoldRolledBack ==
  /\ Ready("HOLD") /\ Settled
  /\ Answer("NONE")
  /\ UNCHANGED <<coreVars, trials>>

ActivateOther ==
  /\ Ready("ACTIVATE") /\ Settled
  /\ \/ MarkPending(stored, OtherSlot(current), "OK") /\ PostAndReset("CONFIRM")
     \/ \E st \in Failure :
          MarkPending(stored, OtherSlot(current), st) /\ AnswerUnlessReset("NONE")
  /\ CountFromSave

(***************************************************************************)
(* test_storage_read_failure: mark the other slot, see that selecting with *)
(* one injected read error keeps the mark, then roll back.                 *)
(***************************************************************************)
ReadTestMark ==
  /\ Ready("READ_TEST") /\ Settled
  /\ \/ /\ MarkPending(stored, OtherSlot(current), "OK")
        /\ pc' = "probe" /\ control' = stored'
        /\ UNCHANGED <<current, reason, feeding, mailbox, cuts>>
     \/ \E st \in Failure :
          MarkPending(stored, OtherSlot(current), st) /\ AnswerUnlessReset("NONE")
  /\ CountFromSave

ReadTestRollback ==
  /\ pc = "probe"
  /\ \E st \in Status : Rollback(control, st)
  /\ AnswerUnlessReset("NONE")
  /\ CountFromSave

(***************************************************************************)
(* test_control_write_failure arms one control-write failure and marks the *)
(* other slot.  If that slot does not verify, or a read error intervenes,  *)
(* no write happens and the failure stays armed for a later command.       *)
(***************************************************************************)
WriteTest ==
  /\ Ready("WRITE_TEST") /\ Settled
  /\ \/ armed' = ~Verifies(OtherSlot(current)) /\ UNCHANGED faults
     \/ Fault /\ armed' \in {TRUE, ~Verifies(OtherSlot(current))}
  /\ Answer("NONE")
  /\ UNCHANGED <<stored, slot, trials>>

\* test_non_pending_confirm is refused by the library; CLEAR does nothing.
NothingToDo ==
  /\ Ready("CLEAR") \/ (Ready("NONPENDING") /\ Settled)
  /\ Answer("NONE")
  /\ UNCHANGED <<coreVars, trials>>

AppStep ==
  \/ RefuseUnsettled \/ InstallReject \/ InstallErase \/ InstallProgram \/ InstallMark
  \/ Confirm \/ FailRolledBack \/ FailStarve \/ HoldRolledBack \/ ActivateOther
  \/ ReadTestMark \/ ReadTestRollback \/ WriteTest \/ NothingToDo

-----------------------------------------------------------------------------
(***************************************************************************)
(* The environment.                                                        *)
(***************************************************************************)

\* The debugger writes the block at any moment, whatever the device is at.
\* A staging area rewritten while it is being programmed is NoImage.
HostPost(cmd) ==
  /\ command' = cmd
  /\ staging' \in IF cmd = "INSTALL_B" THEN Images \cup {NoImage} ELSE {staging}
  /\ UNCHANGED <<coreVars, cpu, cuts, trials>>

\* Every boot re-initialises the driver, and with it the armed failure.
Reset == Restart /\ armed' = FALSE /\ UNCHANGED <<stored, slot, faults, trials>>

\* The watchdog, started by the boot loader before the jump, is starved.
WatchdogReset ==
  /\ pc = "hung" \/ (pc \in AppPc /\ ~feeding)
  /\ Reset /\ UNCHANGED <<mailbox, cuts>>

\* The reset pin, or the watchdog during a flash operation: RAM is retained.
WarmReset == Cut /\ Reset /\ UNCHANGED mailbox

PowerCut == Cut /\ Reset /\ command' = "NONE" /\ staging' = NoImage

\* A slot loses its content.  Damage between verifying a slot and entering it
\* is not told apart from damage just after it was entered.
CorruptSlot(s) ==
  /\ pc # "jump" /\ Fault
  /\ Verifies(s)
  /\ slot' = [slot EXCEPT ![s] = NoImage]
  /\ UNCHANGED <<stored, armed, cpu, mailbox, cuts, trials>>

Environment ==
  \/ \E cmd \in Command : HostPost(cmd)
  \/ WarmReset \/ PowerCut
  \/ \E s \in Slot : CorruptSlot(s)

Next == BootStep \/ BootReadFault \/ AppStep \/ LoadFault \/ WatchdogReset \/ Environment

Spec == Init /\ [][Next]_vars

(***************************************************************************)
(* The processor runs, and a watchdog that is not fed expires.  Nothing is *)
(* assumed of the host, of power or of the flash.                          *)
(***************************************************************************)
FairSpec ==
  Spec /\ WF_vars(BootStep) /\ WF_vars(AppStep) /\ WF_vars(WatchdogReset)

-----------------------------------------------------------------------------
(***************************************************************************)
(* Properties.                                                             *)
(***************************************************************************)
TrialPending == stored # NoControl /\ stored.pending # NoSlot

FallbackVerifies == stored # NoControl /\ Verifies(stored.active)

\* The RAM copy a step still relies on is the control that is stored: the
\* library updates its caller's copy only after the save succeeded, and a
\* save of unknown outcome is never followed by a step that trusts the copy
\* (iap_core.c:313-319, 373-375, 429-431).
CopyCoherent == pc \in {"select", "jump", "probe"} => control = stored

\* Whatever was saved, refused, retried or cut short, the stored control is
\* one iap_boot_control_load accepts, and exactly the active slot is
\* confirmed: no history leaves a trial marked as confirmed.
StoredSound ==
  stored # NoControl => ControlIsValid(stored) /\ stored.confirmed = {stored.active}

\* A trial image is entered at most as often as attempts were charged in
\* flash, so never more than max_boot_attempts times, whichever saves failed
\* and wherever the power was cut; an image about to be entered has an
\* attempt of its own, and a trial that runs has been counted
\* (iap_core.c:311-321).
TrialBudget ==
  /\ TrialPending => trials <= stored.attempts /\ stored.attempts <= MaxAttempts
  /\ pc = "jump" /\ TrialPending => current = stored.pending /\ trials < stored.attempts
  /\ pc \in AppPc \cup {"hung"} /\ TrialPending /\ current = stored.pending => trials > 0

\* The running slot is always one the stored control knows, so the
\* application can confirm itself; no handler, retry or ambiguous save makes
\* the control forget the slot that is executing.  Between two of its flash
\* changes a handler still runs in the slot its guard saw.
RunningIsKnown ==
  /\ current # NoSlot => stored # NoControl /\ current \in {stored.active, stored.pending}
  /\ pc \in {"program", "mark"} => current = "A"
  /\ pc = "probe" => current = stored.active

\* The boot loader enters only a slot whose whole image it verified in this
\* boot, after whatever rollback came first.
EntersVerified == pc = "jump" => Verifies(current)

\* Recovery with NO_VALID_IMAGE is a last resort: the trial is gone from
\* flash and the active slot does not verify.
LastResort ==
  reason = "NO_VALID_IMAGE" => ~TrialPending /\ ~FallbackVerifies

\* A transient storage error never costs a trial: the boot loader gives up a
\* pending image only if it does not verify or has used its attempts.
TransientFaultKeepsTrial ==
  [][(pc \in BootPc /\ TrialPending /\ ~TrialPending')
     => (~Verifies(stored.pending) \/ stored.attempts = MaxAttempts)]_vars

\* The active slot changes only to the pending image that is itself running,
\* that was entered through a charged attempt, and that verifies now.
PromotesOnlyTrialed ==
  [][(stored # NoControl /\ stored'.active # stored.active) =>
       /\ stored'.active = stored.pending /\ current = stored.pending
       /\ trials > 0 /\ Verifies(stored.pending)]_vars

\* A bootable fallback, once there, is lost to damaged flash or to a trial
\* that installs over it; no other step, retry, promotion or reset loses it.
FallbackKept ==
  [][(FallbackVerifies /\ ~FallbackVerifies')
     => (faults' # faults \/ (Ready("INSTALL_B") /\ current = stored.pending))]_vars

\* There is always a bootable image to fall back to: the design goal of
\* docs/ab-iap-mvp-design.md:9.  Checked with flash that never fails.
BootableFallback == stored # NoControl => Verifies(stored.active)

\* A pending image that never answers is given up, and the device ends up
\* running the fallback, whenever resets and cuts stop: the watchdog, the
\* charged attempts and the rollback work together without the host.
DeadTrial == TrialPending /\ slot[stored.pending] \notin Responsive

FallbackRuns == ~TrialPending /\ pc \in AppPc /\ current = stored.active

DeadTrialEnds == DeadTrial ~> FallbackRuns
=============================================================================
