------------------------ MODULE IapRefinementProofs ------------------------
(***************************************************************************)
(* Every step of the device is a step of the abstract A/B update or        *)
(* changes nothing it sees, for every set of images, every attempt limit   *)
(* and any number of faults, cuts and resets.                              *)
(***************************************************************************)
EXTENDS IapDeviceProofs, IapDeviceRefinement

\* The abstract state, named as the mapping computes it.
Executing == IF pc \in AppPc \cup {"hung"} THEN current ELSE NoSlot
Charged == pc = "jump" /\ current = stored.pending
SoundSlots == {s \in Slot : Verifies(s)}

AbstractStep == [AB!ABNext]_(AB!abVars)

-----------------------------------------------------------------------------
(***************************************************************************)
(* One lemma per kind of step: what the concrete step has to show.         *)
(***************************************************************************)

\* Nothing the abstract update sees changes, except that the device may reset.
LEMMA Quiet ==
  ASSUME Meaning' = Meaning, SoundSlots' = SoundSlots,
         \/ Executing' = Executing /\ Charged' = Charged
         \/ Executing' = NoSlot /\ Charged' = FALSE
  PROVE  AbstractStep
<1>1. CASE Executing' = Executing /\ Charged' = Charged
  BY <1>1 DEF AbstractStep, AB!abVars, Executing, Charged, SoundSlots
<1>2. CASE Executing' = NoSlot /\ Charged' = FALSE
  <2>1. AB!Reset
    BY <1>2 DEF AB!Reset, AB!NoSlot, NoSlot, Executing, Charged, SoundSlots
  <2> QED
    BY <2>1 DEF AbstractStep, AB!ABNext
<1> QED
  BY <1>1, <1>2

\* While a slot runs it is the executing one, and no launch is paid for.
LEMMA RunningMaps ==
  ASSUME IInv, pc \in AppPc
  PROVE  /\ Executing = current /\ current \in Slot /\ Executing # NoSlot
         /\ Charged = FALSE
         /\ Meaning = stored /\ Sound(stored) /\ stored # NoControl
BY InvFacts DEF Executing, Charged, Meaning, AppPc, Slot, NoSlot

\* A handler leaves the running slot running or the device in reset.
HandlerLeaves ==
  \/ pc' \in AppPc /\ current' = current
  \/ pc' = "load" /\ current' = NoSlot

\* So the abstract slot keeps executing or the device boots.
LEMMA HandlerMaps ==
  ASSUME IInv, pc \in AppPc, HandlerLeaves
  PROVE  Executing' \in {Executing, NoSlot} /\ Charged' = FALSE
BY RunningMaps DEF HandlerLeaves, Executing, Charged, AppPc, NoSlot

\* A handler that changes neither the control nor a slot.
LEMMA HandlerQuiet ==
  ASSUME IInv, pc \in AppPc, HandlerLeaves, stored' = stored, slot' = slot
  PROVE  AbstractStep
<1>1. Meaning' = Meaning /\ SoundSlots' = SoundSlots
  BY DEF Meaning, SoundSlots, Verifies
<1> QED
  BY <1>1, HandlerMaps, RunningMaps, Quiet

\* Marking is Stage, or nothing happened.
LEMMA MarkMaps ==
  ASSUME IInv, pc \in AppPc, HandlerLeaves, NEW s \in Slot, NEW st,
         MarkPending(stored, s, st)
  PROVE  AbstractStep
<1>1. FlashTypeOK /\ Sound(stored) /\ stored # NoControl /\ stored.active \in Slot
  BY InvFacts, RunningMaps
<1>2. slot' = slot
  BY <1>1, MarkOutcome
<1>3. CASE stored' = stored
  BY <1>2, <1>3, HandlerQuiet
<1>4. CASE stored' = WithPending(stored, s) /\ s # stored.active /\ Verifies(s)
  <2>1. /\ stored'.active = stored.active /\ stored'.pending = s /\ stored'.attempts = 0
        /\ stored' # NoControl
    BY <1>1, <1>4, PendingSound, SoundIsStored
  <2>2. AB!Stage
    BY <1>1, <1>2, <1>4, <2>1, HandlerMaps, RunningMaps
    DEF AB!Stage, AB!Booting, AB!MayReset, AB!NoSlot, NoSlot, Meaning, Executing, Charged,
        Verifies
  <2> QED
    BY <2>2 DEF AbstractStep, AB!ABNext
<1> QED
  BY <1>1, <1>3, <1>4, MarkOutcome

\* Confirming is Promote if the trial runs, Withdraw if the fallback runs
\* beside a trial, and otherwise changes nothing.
LEMMA ConfirmMaps ==
  ASSUME IInv, pc \in AppPc, HandlerLeaves, NEW st,
         ConfirmCurrentImage(stored, current, st)
  PROVE  AbstractStep
<1>1. /\ FlashTypeOK /\ Sound(stored) /\ stored # NoControl /\ stored.active \in Slot
      /\ current \in Slot
  BY InvFacts, RunningMaps
<1>2. slot' = slot
  BY <1>1, ConfirmOutcome
<1>3. CASE stored' = stored
  BY <1>2, <1>3, HandlerQuiet
<1>4. CASE /\ stored' = WithConfirmed(stored, current)
           /\ current \in {stored.active, stored.pending} /\ Verifies(current)
  <2>1. /\ stored'.active = current /\ stored'.pending = NoSlot /\ stored'.attempts = 0
        /\ stored' # NoControl
    <3>1. Sound(stored') /\ stored'.active = current /\ stored'.pending = NoSlot
      BY <1>1, <1>4, ConfirmedSound
    <3> QED
      BY <3>1, SoundIsStored DEF ControlIsValid
  <2>2. CASE current = stored.pending
    <3>1. AB!Promote
      BY <1>1, <1>2, <1>4, <2>1, <2>2, HandlerMaps, RunningMaps
      DEF AB!Promote, AB!Booting, AB!MayReset, AB!NoSlot, NoSlot, Meaning, Executing, Charged,
          Verifies
    <3> QED
      BY <3>1 DEF AbstractStep, AB!ABNext
  <2>3. CASE current = stored.active /\ stored.pending # NoSlot
    <3>1. AB!Withdraw
      BY <1>1, <1>2, <1>4, <2>1, <2>3, HandlerMaps, RunningMaps
      DEF AB!Withdraw, AB!Booting, AB!MayReset, AB!NoSlot, NoSlot, Meaning, Executing, Charged,
          Verifies
    <3> QED
      BY <3>1 DEF AbstractStep, AB!ABNext
  <2>4. CASE current = stored.active /\ stored.pending = NoSlot
    <3>1. stored \in Control /\ stored.attempts = 0 /\ stored.confirmed = {stored.active}
      BY <1>1, <2>4 DEF Sound, ControlIsValid
    <3>2. WithConfirmed(stored, current) = stored
      BY <2>4, <3>1 DEF WithConfirmed, Control
    <3> QED
      BY <1>2, <1>4, <3>2, HandlerQuiet
  <2> QED
    BY <1>4, <2>2, <2>3, <2>4
<1> QED
  BY <1>1, <1>3, <1>4, ConfirmOutcome

\* The rollback of test_storage_read_failure is Withdraw.
LEMMA RollbackMaps ==
  ASSUME IInv, pc = "probe", HandlerLeaves, NEW st, Rollback(control, st)
  PROVE  AbstractStep
<1>1. /\ FlashTypeOK /\ Sound(stored) /\ stored # NoControl /\ stored.active \in Slot
      /\ pc \in AppPc /\ control = stored /\ current = stored.active
  BY InvFacts, RunningMaps DEF AppPc, IInv, RunningIsKnown
<1>2. /\ Sound(WithoutPending(stored)) /\ WithoutPending(stored).active = stored.active
      /\ WithoutPending(stored).pending = NoSlot
  BY <1>1, WithoutSound
<1>3. slot' = slot /\ stored' \in {stored, WithoutPending(stored)}
  BY <1>1, <1>2, SaveOutcome DEF Rollback
<1>4. CASE stored' = stored
  BY <1>1, <1>3, <1>4, HandlerQuiet
<1>5. CASE stored' = WithoutPending(stored) /\ stored.pending # NoSlot
  <2>1. /\ stored'.active = stored.active /\ stored'.pending = NoSlot /\ stored'.attempts = 0
        /\ stored' # NoControl
    BY <1>2, <1>5, SoundIsStored DEF ControlIsValid
  <2>2. AB!Withdraw
    BY <1>1, <1>3, <1>5, <2>1, HandlerMaps, RunningMaps
    DEF AB!Withdraw, AB!Booting, AB!MayReset, AB!NoSlot, NoSlot, Meaning, Executing, Charged,
        Verifies
  <2> QED
    BY <2>2 DEF AbstractStep, AB!ABNext
<1>6. CASE stored' = WithoutPending(stored) /\ stored.pending = NoSlot
  <2>1. stored.attempts = 0 /\ WithoutPending(stored).attempts = 0
    BY <1>1, <1>2, <1>6 DEF Sound, ControlIsValid
  <2>2. stored'.active = stored.active /\ stored'.pending = stored.pending
        /\ stored'.attempts = stored.attempts /\ stored' # NoControl
    BY <1>2, <1>6, <2>1, SoundIsStored
  <2>3. CASE Executing' = Executing
    BY <1>1, <1>3, <2>2, <2>3, HandlerMaps, RunningMaps
    DEF AbstractStep, AB!abVars, Meaning, Executing, Charged, Verifies
  <2>4. CASE Executing' = NoSlot
    <3>1. AB!Reset
      BY <1>1, <1>3, <2>2, <2>4, HandlerMaps, RunningMaps
      DEF AB!Reset, AB!NoSlot, NoSlot, Meaning, Executing, Charged, Verifies
    <3> QED
      BY <3>1 DEF AbstractStep, AB!ABNext
  <2> QED
    BY <1>1, <2>3, <2>4, HandlerMaps
<1> QED
  BY <1>3, <1>4, <1>5, <1>6

\* What a handler ends with is one of the two ways it can leave.
LEMMA EndLeaves ==
  ASSUME IInv, pc \in AppPc, NEW cmd,
         Answer(cmd) \/ AnswerUnlessReset(cmd) \/ PostAndReset(cmd)
  PROVE  HandlerLeaves
BY InvFacts, HandlerEnd DEF HandlerLeaves, AppPc

-----------------------------------------------------------------------------
(***************************************************************************)
(* The boot loader.                                                        *)
(***************************************************************************)

\* A boot without its own launch is booting, and pays for none while selecting.
LEMMA SelectMaps ==
  ASSUME IInv, pc = "select"
  PROVE  /\ Executing = NoSlot /\ Charged = FALSE
         /\ control = stored /\ stored # NoControl /\ Sound(stored) /\ Meaning = stored
         /\ stored.active \in Slot /\ stored.attempts \in Nat /\ FlashTypeOK
BY InvFacts DEF Executing, Charged, Meaning, AppPc, Sound, ControlIsValid, Control

\* Recovery neither runs a slot nor pays for a launch.
LEMMA RecoverMaps ==
  ASSUME NEW st, Recover(st)
  PROVE  Executing' = NoSlot /\ Charged' = FALSE
BY DEF Recover, Executing, Charged, AppPc

\* An empty control area means the control the boot loader writes into it.
LEMMA BootDefaultMaps ==
  ASSUME IInv, BootDefault
  PROVE  AbstractStep
<1> DEFINE c == DefaultControl("A")
<1> HIDE DEF c
<1>1. Sound(c) /\ c # NoControl
  BY DefaultSound, SoundIsStored DEF c, Slot
<1>2. FlashTypeOK /\ stored = NoControl /\ Meaning = c
  BY InvFacts DEF BootDefault, Meaning, c
<1>3. PICK st : /\ SaveControl(c, st)
                /\ \/ st = "OK" /\ pc' = "select"
                   \/ Recover(st)
  BY DEF BootDefault, c
<1>4. stored' \in {NoControl, c} /\ slot' = slot
  BY <1>1, <1>2, <1>3, SaveOutcome
<1>5. Meaning' = Meaning /\ SoundSlots' = SoundSlots
  BY <1>1, <1>2, <1>4 DEF Meaning, SoundSlots, Verifies, c
<1>6. Executing' = NoSlot /\ Charged' = FALSE
  BY <1>3, RecoverMaps DEF Executing, Charged, AppPc
<1> QED
  BY <1>5, <1>6, Quiet

\* Charging is Charge; a failed save that reached the flash charges too, but
\* the launch it would pay for does not follow.
LEMMA BootTrialMaps ==
  ASSUME IInv, BootTrial
  PROVE  AbstractStep
<1> DEFINE c == WithAttempt(stored)
<1> HIDE DEF c
<1>1. /\ pc = "select" /\ control = stored /\ stored # NoControl /\ Sound(stored)
      /\ stored.pending # NoSlot /\ stored.pending \in Slot /\ Verifies(stored.pending)
      /\ stored.attempts < MaxAttempts /\ FlashTypeOK
      /\ Executing = NoSlot /\ Charged = FALSE /\ Meaning = stored
  BY InvFacts, SelectMaps DEF BootTrial, Sound, ControlIsValid, Control
<1>2. /\ Sound(c) /\ c.active = stored.active /\ c.pending = stored.pending
      /\ c.attempts = stored.attempts + 1 /\ c # NoControl
  BY <1>1, AttemptSound, SoundIsStored DEF c
<1>3. PICK st : /\ SaveControl(c, st)
                /\ \/ st = "OK" /\ Selected(c.pending, c)
                   \/ Recover(st)
  BY <1>1 DEF BootTrial, c
<1>4. /\ stored' \in {stored, c} /\ slot' = slot /\ SoundSlots' = SoundSlots
      /\ st = "OK" => stored' = c
  BY <1>1, <1>2, <1>3, SaveOutcome DEF SoundSlots, Verifies
<1>5. Executing' = NoSlot /\ Charged' \in BOOLEAN
  BY <1>3, RecoverMaps DEF Selected, Executing, Charged, AppPc
<1>6. CASE stored' = c
  <2>1. AB!Charge
    BY <1>1, <1>2, <1>4, <1>5, <1>6
    DEF AB!Charge, AB!Booting, AB!NoSlot, NoSlot, Meaning, Executing, Charged, SoundSlots
  <2> QED
    BY <2>1 DEF AbstractStep, AB!ABNext
<1>7. CASE stored' = stored /\ stored' # c
  <2>1. Meaning' = Meaning /\ Charged' = FALSE
    BY <1>3, <1>4, <1>7, RecoverMaps DEF Meaning
  <2> QED
    BY <1>4, <1>5, <2>1, Quiet
<1> QED
  BY <1>4, <1>6, <1>7

\* Rolling back in the boot loader is Abandon.
LEMMA BootRollbackMaps ==
  ASSUME IInv, BootRollback
  PROVE  AbstractStep
<1>1. /\ pc = "select" /\ control = stored /\ stored # NoControl /\ Sound(stored)
      /\ stored.pending # NoSlot
      /\ ~Verifies(stored.pending) \/ stored.attempts = MaxAttempts
      /\ FlashTypeOK /\ Executing = NoSlot /\ Charged = FALSE /\ Meaning = stored
  BY SelectMaps, MaxAttemptsAssumption DEF BootRollback, Sound, ControlIsValid
<1>2. /\ Sound(WithoutPending(stored)) /\ WithoutPending(stored).active = stored.active
      /\ WithoutPending(stored).pending = NoSlot /\ WithoutPending(stored) # NoControl
      /\ WithoutPending(stored).attempts = 0
  BY <1>1, WithoutSound, SoundIsStored DEF ControlIsValid
<1>3. PICK st : /\ SaveControl(WithoutPending(stored), st)
                /\ \/ pc' = "select"
                   \/ Recover(st)
  BY <1>1 DEF BootRollback, Rollback
<1>4. /\ stored' \in {stored, WithoutPending(stored)} /\ slot' = slot
      /\ SoundSlots' = SoundSlots
  BY <1>1, <1>2, <1>3, SaveOutcome DEF SoundSlots, Verifies
<1>5. Executing' = NoSlot /\ Charged' = FALSE
  BY <1>3, RecoverMaps DEF Executing, Charged, AppPc
<1>6. CASE stored' = WithoutPending(stored)
  <2>1. AB!Abandon
    BY <1>1, <1>2, <1>4, <1>5, <1>6
    DEF AB!Abandon, AB!Booting, AB!NoSlot, NoSlot, Meaning, Executing, Charged, SoundSlots
  <2> QED
    BY <2>1 DEF AbstractStep, AB!ABNext
<1>7. CASE stored' = stored
  BY <1>4, <1>5, <1>7, Quiet DEF Meaning
<1> QED
  BY <1>4, <1>6, <1>7

\* The jump is LaunchTrial or LaunchFallback; a refused vector table, a reset.
LEMMA BootJumpMaps ==
  ASSUME IInv, BootJump
  PROVE  AbstractStep
<1>1. /\ pc = "jump" /\ control = stored /\ stored # NoControl /\ Sound(stored)
      /\ stored.active \in Slot /\ current \in Slot /\ Verifies(current)
      /\ current \in {stored.active, stored.pending}
      /\ stored.pending # NoSlot => current = stored.pending
      /\ stored' = stored /\ slot' = slot
  BY InvFacts DEF BootJump, IInv, RunningIsKnown, EntersVerified, TrialBudget, TrialPending,
                  Slot, NoSlot, coreVars
<1>2. Meaning = stored /\ Meaning' = stored /\ SoundSlots' = SoundSlots /\ Executing = NoSlot
  BY <1>1 DEF Meaning, SoundSlots, Verifies, Executing, AppPc
<1>3. CASE \E st : Recover(st)
  BY <1>2, <1>3, RecoverMaps, Quiet
<1>4. CASE Enter(IF slot[current] \in Responsive THEN "app" ELSE "hung")
  <2>1. Executing' = current /\ Charged' = FALSE
    BY <1>4 DEF Enter, Executing, Charged, AppPc
  <2>2. CASE current = stored.pending
    <3>1. AB!LaunchTrial
      BY <1>1, <1>2, <2>1, <2>2
      DEF AB!LaunchTrial, AB!Booting, AB!NoSlot, NoSlot, Meaning, Executing, Charged, SoundSlots
    <3> QED
      BY <3>1 DEF AbstractStep, AB!ABNext
  <2>3. CASE current # stored.pending
    <3>1. current = stored.active /\ stored.pending = NoSlot /\ Charged = FALSE
      BY <1>1, <2>3 DEF Charged
    <3>2. AB!LaunchFallback
      BY <1>1, <1>2, <2>1, <3>1
      DEF AB!LaunchFallback, AB!Booting, AB!NoSlot, NoSlot, Meaning, Executing, Charged,
          SoundSlots
    <3> QED
      BY <3>2 DEF AbstractStep, AB!ABNext
  <2> QED
    BY <2>2, <2>3
<1> QED
  BY <1>3, <1>4 DEF BootJump

-----------------------------------------------------------------------------
(***************************************************************************)
(* Slot content: installs and damage.                                      *)
(***************************************************************************)

\* New content for slot B while A runs is Rewrite, whatever the content.
LEMMA RewriteMaps ==
  ASSUME IInv, pc \in AppPc, current = "A", HandlerLeaves, stored' = stored,
         NEW content, slot' = [slot EXCEPT !["B"] = content]
  PROVE  AbstractStep
<1>1. slot \in [Slot -> Images \cup {NoImage}]
  BY DEF IInv, BoardTypeOK
<1>2. SoundSlots' \in {SoundSlots \ {"B"}, SoundSlots \cup {"B"}}
  <2>1. \A s \in Slot : s # "B" => (Verifies(s)' <=> Verifies(s))
    BY <1>1 DEF Verifies
  <2>2. CASE content \in Images
    <3>1. Verifies("B")'
      BY <1>1, <2>2 DEF Verifies, Slot
    <3> QED
      BY <2>1, <3>1 DEF SoundSlots, Slot
  <2>3. CASE content \notin Images
    <3>1. ~Verifies("B")'
      BY <1>1, <2>3 DEF Verifies, Slot
    <3> QED
      BY <2>1, <3>1 DEF SoundSlots, Slot
  <2> QED
    BY <2>2, <2>3
<1>3. Meaning' = Meaning
  BY DEF Meaning
<1>4. AB!Rewrite
  BY <1>2, <1>3, HandlerMaps, RunningMaps
  DEF AB!Rewrite, AB!Booting, AB!MayReset, AB!Slot, AB!NoSlot, NoSlot, Slot, Executing,
      Charged, SoundSlots, Meaning
<1> QED
  BY <1>4 DEF AbstractStep, AB!ABNext

\* Damage is Decay; it never falls between a charge and its launch.
LEMMA CorruptMaps ==
  ASSUME IInv, NEW s \in Slot, CorruptSlot(s)
  PROVE  AbstractStep
<1>1. /\ slot \in [Slot -> Images \cup {NoImage}] /\ Verifies(s) /\ Charged = FALSE
      /\ slot' = [slot EXCEPT ![s] = NoImage]
      /\ Executing' = Executing /\ Charged' = FALSE /\ Meaning' = Meaning
  BY DEF IInv, BoardTypeOK, CorruptSlot, cpu, Charged, Executing, Meaning
<1>2. SoundSlots' = SoundSlots \ {s} /\ s \in SoundSlots
  BY <1>1, NoImageAssumption DEF SoundSlots, Verifies
<1>3. AB!Decay
  BY <1>1, <1>2 DEF AB!Decay, Executing, Charged, SoundSlots, Meaning
<1> QED
  BY <1>3 DEF AbstractStep, AB!ABNext

-----------------------------------------------------------------------------
(***************************************************************************)
(* All steps.                                                              *)
(***************************************************************************)

\* A reset leaves no slot executing and no launch paid for.
LEMMA ResetMaps ==
  ASSUME Reset
  PROVE  AbstractStep
<1>1. Meaning' = Meaning /\ SoundSlots' = SoundSlots /\ Executing' = NoSlot /\ Charged' = FALSE
  BY DEF Reset, Restart, Meaning, SoundSlots, Verifies, Executing, Charged, AppPc
<1> QED
  BY <1>1, Quiet

\* The boot loader's steps.
LEMMA BootMaps ==
  ASSUME IInv, BootStep \/ BootReadFault
  PROVE  AbstractStep
<1>1. CASE BootLoad
  <2>1. /\ Meaning' = Meaning /\ SoundSlots' = SoundSlots
        /\ Executing' = Executing /\ Charged' = Charged
    BY <1>1 DEF BootLoad, coreVars, Meaning, SoundSlots, Verifies, Executing, Charged, AppPc
  <2> QED
    BY <2>1, Quiet
<1>2. CASE BootActive
  <2>1. stored' = stored /\ slot' = slot /\ stored.pending = NoSlot /\ stored.active \in Slot
        /\ pc = "select" /\ control = stored
    BY <1>2, SelectMaps DEF BootActive, coreVars
  <2>2. Meaning' = Meaning /\ SoundSlots' = SoundSlots
    BY <2>1 DEF Meaning, SoundSlots, Verifies
  <2>3. Executing' = NoSlot /\ Charged' = FALSE
    BY <1>2, <2>1, RecoverMaps DEF BootActive, Selected, Executing, Charged, AppPc, Slot, NoSlot
  <2> QED
    BY <2>2, <2>3, Quiet
<1>3. CASE BootReadFault
  <2>1. Meaning' = Meaning /\ SoundSlots' = SoundSlots
    BY <1>3 DEF BootReadFault, ReadFault, Meaning, SoundSlots, Verifies
  <2> QED
    BY <1>3, <2>1, RecoverMaps, Quiet DEF BootReadFault
<1> QED
  BY <1>1, <1>2, <1>3, BootDefaultMaps, BootTrialMaps, BootRollbackMaps, BootJumpMaps
  DEF BootStep

\* The handlers that leave the control and the slots alone.
LEMMA IdleHandlersMap ==
  ASSUME IInv,
         \/ LoadFault \/ RefuseUnsettled \/ InstallReject \/ FailRolledBack \/ FailStarve
         \/ HoldRolledBack \/ WriteTest \/ NothingToDo
  PROVE  AbstractStep
<1>1. pc \in AppPc
  BY DEF AppPc, LoadFault, RefuseUnsettled, InstallReject, FailRolledBack, FailStarve,
         HoldRolledBack, WriteTest, NothingToDo, Ready
<1>2. stored' = stored /\ slot' = slot
  BY DEF LoadFault, RefuseUnsettled, InstallReject, FailRolledBack, FailStarve,
         HoldRolledBack, WriteTest, NothingToDo, ReadFault, coreVars
<1>3. HandlerLeaves
  <2>1. CASE FailRolledBack \/ FailStarve
    BY <1>1, <2>1 DEF FailRolledBack, FailStarve, HandlerLeaves
  <2>2. CASE Answer("NONE")
    BY <2>2 DEF Answer, Enter, HandlerLeaves, AppPc
  <2> QED
    BY <2>1, <2>2
    DEF LoadFault, RefuseUnsettled, InstallReject, HoldRolledBack, WriteTest, NothingToDo
<1> QED
  BY <1>1, <1>2, <1>3, HandlerQuiet

\* The handlers that install, mark, confirm or roll back.
LEMMA HandlersMap ==
  ASSUME IInv,
         \/ InstallErase \/ InstallProgram \/ InstallMark \/ Confirm \/ ActivateOther
         \/ ReadTestMark \/ ReadTestRollback
  PROVE  AbstractStep
<1> DEFINE Ends(cmd) == Answer(cmd) \/ AnswerUnlessReset(cmd) \/ PostAndReset(cmd)
<1>1. pc \in AppPc /\ current \in Slot
  BY InvFacts DEF AppPc, InstallErase, InstallProgram, InstallMark, Confirm, ActivateOther,
                  ReadTestMark, ReadTestRollback, Ready
<1>2. ASSUME NEW cmd \in Command, Ends(cmd)
      PROVE  HandlerLeaves
  BY <1>1, <1>2, EndLeaves
<1>3. {"NONE", "HOLD", "CONFIRM"} \subseteq Command /\ "B" \in Slot /\ OtherSlot(current) \in Slot
  BY DEF Command, Slot, OtherSlot
<1>4. CASE InstallErase
  <2>1. current = "A"
    BY <1>4 DEF InstallErase
  <2>2. HandlerLeaves
    <3>1. CASE Enter("program")
      BY <3>1 DEF Enter, HandlerLeaves, AppPc
    <3> QED
      BY <1>2, <1>3, <1>4, <3>1 DEF InstallErase
  <2>3. PICK st : EraseSlot("B", "A", st)
    BY <1>4, <2>1 DEF InstallErase
  <2>4. CASE slot' = slot
    BY <1>1, <2>2, <2>3, <2>4, HandlerQuiet DEF EraseSlot
  <2>5. CASE slot' = [slot EXCEPT !["B"] = NoImage]
    BY <1>1, <2>1, <2>2, <2>3, <2>5, RewriteMaps DEF EraseSlot
  <2> QED
    BY <2>3, <2>4, <2>5 DEF EraseSlot
<1>5. CASE InstallProgram
  <2>1. current = "A"
    BY <1>5 DEF InstallProgram, IInv, RunningIsKnown
  <2>2. HandlerLeaves
    <3>1. CASE Enter("mark")
      BY <3>1 DEF Enter, HandlerLeaves, AppPc
    <3> QED
      BY <1>2, <1>3, <1>5, <3>1 DEF InstallProgram
  <2>3. PICK st : ProgramSlot("B", "A", staging, st)
    BY <1>5, <2>1 DEF InstallProgram
  <2>4. stored' = stored /\ \E content : slot' = [slot EXCEPT !["B"] = content]
    BY <2>3 DEF ProgramSlot
  <2> QED
    BY <1>1, <2>1, <2>2, <2>4, RewriteMaps
<1>6. CASE InstallMark
  <2>1. HandlerLeaves
    BY <1>2, <1>3, <1>6 DEF InstallMark
  <2>2. CASE ReadFault
    BY <1>1, <2>1, <2>2, HandlerQuiet DEF ReadFault
  <2>3. CASE \E st : MarkPending(stored, "B", st)
    BY <1>1, <1>3, <2>1, <2>3, MarkMaps
  <2> QED
    BY <1>6, <2>2, <2>3 DEF InstallMark
<1>7. CASE Confirm
  <2>1. HandlerLeaves
    BY <1>2, <1>3, <1>7 DEF Confirm
  <2> QED
    BY <1>1, <1>7, <2>1, ConfirmMaps DEF Confirm
<1>8. CASE ActivateOther
  <2>1. HandlerLeaves
    BY <1>2, <1>3, <1>8 DEF ActivateOther
  <2>2. \E st : MarkPending(stored, OtherSlot(current), st)
    BY <1>8 DEF ActivateOther
  <2> QED
    BY <1>1, <1>3, <2>1, <2>2, MarkMaps
<1>9. CASE ReadTestMark
  <2>1. HandlerLeaves
    <3>1. CASE pc' = "probe" /\ current' = current
      BY <3>1 DEF HandlerLeaves, AppPc
    <3> QED
      BY <1>2, <1>3, <1>9, <3>1 DEF ReadTestMark
  <2>2. \E st : MarkPending(stored, OtherSlot(current), st)
    BY <1>9 DEF ReadTestMark
  <2> QED
    BY <1>1, <1>3, <2>1, <2>2, MarkMaps
<1>10. CASE ReadTestRollback
  <2>1. HandlerLeaves
    BY <1>2, <1>3, <1>10 DEF ReadTestRollback
  <2> QED
    BY <1>10, <2>1, RollbackMaps DEF ReadTestRollback
<1> QED
  BY <1>4, <1>5, <1>6, <1>7, <1>8, <1>9, <1>10

\* Every step of the device is an abstract step or invisible.
LEMMA NextMaps ==
  ASSUME IInv, [Next]_vars
  PROVE  AbstractStep
<1>1. CASE AppStep \/ LoadFault
  BY <1>1, IdleHandlersMap, HandlersMap DEF AppStep
<1>2. CASE WatchdogReset
  BY <1>2, ResetMaps DEF WatchdogReset
<1>3. CASE Environment
  <2>1. CASE \E cmd \in Command : HostPost(cmd)
    <3>1. /\ Meaning' = Meaning /\ SoundSlots' = SoundSlots
          /\ Executing' = Executing /\ Charged' = Charged
      BY <2>1 DEF HostPost, coreVars, cpu, Meaning, SoundSlots, Verifies, Executing, Charged
    <3> QED
      BY <3>1, Quiet
  <2> QED
    BY <1>3, <2>1, ResetMaps, CorruptMaps DEF Environment, WarmReset, PowerCut
<1>4. CASE UNCHANGED vars
  <2>1. /\ Meaning' = Meaning /\ SoundSlots' = SoundSlots
        /\ Executing' = Executing /\ Charged' = Charged
    BY <1>4 DEF vars, coreVars, cpu, Meaning, SoundSlots, Verifies, Executing, Charged
  <2> QED
    BY <2>1, Quiet
<1> QED
  BY <1>1, <1>2, <1>3, <1>4, BootMaps DEF Next

\* A board as the bring-up guide leaves it is the abstract initial state.
LEMMA InitMaps ==
  ASSUME Init
  PROVE  AB!ABInit
<1>1. stored = NoControl /\ pc = "load" /\ Verifies("A")
  BY LaunchableAssumption DEF Init, Verifies
<1>2. Meaning.active = "A" /\ Meaning.pending = NoSlot /\ Meaning.attempts = 0
  BY <1>1 DEF Meaning, DefaultControl
<1> QED
  BY <1>1, <1>2 DEF AB!ABInit, AB!Slot, AB!NoSlot, Slot, NoSlot, AppPc

\* The device, with its lost saves, injected failures, retried commands, resets
\* and cuts, implements the abstract A/B update.
THEOREM DeviceImplementsABUpdate == Spec => ImplementsABUpdate
<1>1. Init => AB!ABInit
  BY InitMaps
<1>2. IInv /\ [Next]_vars => [AB!ABNext]_(AB!abVars)
  BY NextMaps DEF AbstractStep
<1> QED
  BY <1>1, <1>2, Invariance, PTL DEF Spec, ImplementsABUpdate, AB!ABSpec
=============================================================================
