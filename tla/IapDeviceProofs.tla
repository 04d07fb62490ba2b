-------------------------- MODULE IapDeviceProofs --------------------------
(***************************************************************************)
(* The safety invariants of IapDevice, for every set of images, every      *)
(* max_boot_attempts and every number of faults and cuts.                  *)
(***************************************************************************)
EXTENDS IapDevice, TLAPS

\* A control that load accepts and whose only confirmed slot is the active one.
Sound(c) == ControlIsValid(c) /\ c.confirmed = {c.active}

\* TypeOK, but for the command, which no step depends on to keep the rest: the
\* invariant then also serves hosts that post other commands.
BoardTypeOK ==
  /\ stored \in Control \cup {NoControl}
  /\ slot \in [Slot -> Images \cup {NoImage}]
  /\ armed \in BOOLEAN /\ feeding \in BOOLEAN
  /\ faults \in 0..MaxFaults /\ cuts \in 0..MaxCuts
  /\ pc \in Pc
  /\ current \in IF pc \in AppPc \cup {"jump", "hung"} THEN Slot ELSE {NoSlot}
  /\ control \in IF pc \in {"select", "jump", "probe"} THEN Control ELSE {NoControl}
  /\ reason \in IF pc = "recovery" THEN Failure ELSE {"OK"}
  /\ staging \in Images \cup {NoImage}
  /\ trials \in Nat

IInv ==
  /\ BoardTypeOK
  /\ CopyCoherent
  /\ StoredSound
  /\ TrialBudget
  /\ RunningIsKnown
  /\ EntersVerified
  /\ LastResort

-----------------------------------------------------------------------------
(***************************************************************************)
(* The five updates keep a sound control sound.                            *)
(***************************************************************************)

\* The default control of iap_default_boot_control is one load accepts.
LEMMA DefaultSound ==
  ASSUME NEW s \in Slot
  PROVE  /\ Sound(DefaultControl(s))
         /\ DefaultControl(s).active = s
         /\ DefaultControl(s).pending = NoSlot
BY MaxAttemptsAssumption DEF Sound, ControlIsValid, Control, DefaultControl, Slot, NoSlot

\* Charging an attempt that is left keeps the slots and counts one more.
LEMMA AttemptSound ==
  ASSUME NEW c, Sound(c), c.pending # NoSlot, c.attempts < MaxAttempts
  PROVE  /\ Sound(WithAttempt(c))
         /\ WithAttempt(c).active = c.active
         /\ WithAttempt(c).pending = c.pending
         /\ WithAttempt(c).attempts = c.attempts + 1
BY MaxAttemptsAssumption DEF Sound, ControlIsValid, Control, WithAttempt, Slot, NoSlot

\* Marking any slot but the active one starts a fresh trial of it.
LEMMA PendingSound ==
  ASSUME NEW c, Sound(c), NEW s \in Slot, s # c.active
  PROVE  /\ Sound(WithPending(c, s))
         /\ WithPending(c, s).active = c.active
         /\ WithPending(c, s).pending = s
         /\ WithPending(c, s).attempts = 0
<1>c. c \in Control
  BY DEF Sound, ControlIsValid
<1>1. c.confirmed \ {s} = {c.active}
  BY DEF Sound
<1>2. /\ WithPending(c, s) \in Control
      /\ WithPending(c, s).active = c.active /\ WithPending(c, s).pending = s
      /\ WithPending(c, s).attempts = 0
      /\ WithPending(c, s).confirmed = c.confirmed \ {s}
  BY <1>c DEF WithPending, Control
<1>3. c.active \in Slot
  BY DEF Sound, ControlIsValid, Control
<1> QED
  BY <1>1, <1>2, <1>3, MaxAttemptsAssumption
  DEF Sound, ControlIsValid, Slot, NoSlot

\* Confirming makes the slot active and ends the trial.
LEMMA ConfirmedSound ==
  ASSUME NEW c, Sound(c), NEW s \in Slot
  PROVE  /\ Sound(WithConfirmed(c, s))
         /\ WithConfirmed(c, s).active = s
         /\ WithConfirmed(c, s).pending = NoSlot
<1>c. c \in Control
  BY DEF Sound, ControlIsValid
<1>1. /\ WithConfirmed(c, s) \in Control
      /\ WithConfirmed(c, s).active = s /\ WithConfirmed(c, s).pending = NoSlot
      /\ WithConfirmed(c, s).attempts = 0
      /\ WithConfirmed(c, s).confirmed = {s}
  BY <1>c DEF WithConfirmed, Control
<1> QED
  BY <1>1, MaxAttemptsAssumption DEF Sound, ControlIsValid

\* Rolling back keeps the active slot and ends the trial.
LEMMA WithoutSound ==
  ASSUME NEW c, Sound(c)
  PROVE  /\ Sound(WithoutPending(c))
         /\ WithoutPending(c).active = c.active
         /\ WithoutPending(c).pending = NoSlot
<1>c. c \in Control
  BY DEF Sound, ControlIsValid
<1>1. c.active \in Slot
  BY <1>c DEF Control
<1>2. c.confirmed \ {OtherSlot(c.active)} = {c.active}
  BY <1>1 DEF Sound, OtherSlot, Slot
<1>3. /\ WithoutPending(c) \in Control
      /\ WithoutPending(c).active = c.active /\ WithoutPending(c).pending = NoSlot
      /\ WithoutPending(c).attempts = 0
      /\ WithoutPending(c).confirmed = c.confirmed \ {OtherSlot(c.active)}
  BY <1>c DEF WithoutPending, Control
<1> QED
  BY <1>1, <1>2, <1>3, MaxAttemptsAssumption DEF Sound, ControlIsValid

-----------------------------------------------------------------------------
(***************************************************************************)
(* What a library call may leave behind.                                   *)
(***************************************************************************)

FlashTypeOK ==
  /\ slot \in [Slot -> Images \cup {NoImage}]
  /\ armed \in BOOLEAN /\ faults \in 0..MaxFaults

\* A save of a sound control succeeds, or fails with a storage error; then
\* the old or the new control is stored.
LEMMA SaveOutcome ==
  ASSUME NEW c, NEW st, Sound(c), FlashTypeOK, SaveControl(c, st)
  PROVE  /\ slot' = slot /\ FlashTypeOK'
         /\ stored' \in {stored, c}
         /\ st = "OK" => stored' = c
         /\ st \in {"OK", "STORAGE"}
<1>1. ControlIsValid(c)
  BY DEF Sound
<1>2. CASE armed
  BY <1>1, <1>2 DEF SaveControl, FlashTypeOK
<1>3. CASE ~armed /\ Fault /\ st = "STORAGE" /\ stored' \in {stored, c} /\ UNCHANGED <<armed, slot>>
  BY <1>3, MaxFaultsAssumption DEF FlashTypeOK, Fault
<1>4. CASE ~armed /\ st = "OK" /\ stored' = c /\ UNCHANGED <<armed, faults, slot>>
  BY <1>4 DEF FlashTypeOK
<1> QED
  BY <1>1, <1>2, <1>3, <1>4 DEF SaveControl

\* Marking either leaves the stored control or starts a verified trial.
LEMMA MarkOutcome ==
  ASSUME NEW s \in Slot, NEW st, Sound(stored), FlashTypeOK, MarkPending(stored, s, st)
  PROVE  /\ slot' = slot /\ FlashTypeOK'
         /\ \/ stored' = stored
            \/ stored' = WithPending(stored, s) /\ s # stored.active /\ Verifies(s)
         /\ st = "OK" => stored' = WithPending(stored, s) /\ s # stored.active
<1>1. CASE UNCHANGED coreVars /\ st # "OK"
  BY <1>1 DEF coreVars, FlashTypeOK
<1>2. CASE ReadFault /\ st = "STORAGE"
  BY <1>2, MaxFaultsAssumption DEF ReadFault, Fault, FlashTypeOK
<1>3. CASE s # stored.active /\ Verifies(s) /\ SaveControl(WithPending(stored, s), st)
  BY <1>3, PendingSound, SaveOutcome
<1> QED
  BY <1>1, <1>2, <1>3 DEF MarkPending

\* Confirming either leaves the stored control or promotes a verified slot
\* that is active or pending.
LEMMA ConfirmOutcome ==
  ASSUME NEW s \in Slot, NEW st, Sound(stored), FlashTypeOK,
         ConfirmCurrentImage(stored, s, st)
  PROVE  /\ slot' = slot /\ FlashTypeOK'
         /\ \/ stored' = stored
            \/ /\ stored' = WithConfirmed(stored, s)
               /\ s \in {stored.active, stored.pending} /\ Verifies(s)
<1>1. CASE UNCHANGED coreVars
  BY <1>1 DEF coreVars, FlashTypeOK
<1>2. CASE ReadFault
  BY <1>2, MaxFaultsAssumption DEF ReadFault, Fault, FlashTypeOK
<1>3. CASE /\ s \in {stored.active, stored.pending} /\ Verifies(s)
           /\ SaveControl(WithConfirmed(stored, s), st)
  BY <1>3, ConfirmedSound, SaveOutcome
<1> QED
  BY <1>1, <1>2, <1>3 DEF ConfirmCurrentImage

-----------------------------------------------------------------------------
(***************************************************************************)
(* The invariant as the steps use it, and what a handler has to establish  *)
(* to keep it.                                                             *)
(***************************************************************************)

CpuTypeOK ==
  /\ pc \in Pc /\ feeding \in BOOLEAN /\ cuts \in 0..MaxCuts
  /\ current \in IF pc \in AppPc \cup {"jump", "hung"} THEN Slot ELSE {NoSlot}
  /\ control \in IF pc \in {"select", "jump", "probe"} THEN Control ELSE {NoControl}
  /\ reason \in IF pc = "recovery" THEN Failure ELSE {"OK"}
  /\ staging \in Images \cup {NoImage}

\* While the boot loader or a handler holds a copy, and while a slot runs, a
\* sound control is stored.
LEMMA InvFacts ==
  ASSUME IInv
  PROVE  /\ FlashTypeOK /\ CpuTypeOK /\ trials \in Nat
         /\ stored # NoControl => Sound(stored) /\ stored.active \in Slot
         /\ pc \in {"select", "jump", "probe"} =>
              control = stored /\ stored # NoControl
         /\ pc \in AppPc \cup {"jump", "hung"} =>
              stored # NoControl /\ current \in Slot
<1>1. FlashTypeOK /\ CpuTypeOK /\ trials \in Nat
  BY DEF IInv, BoardTypeOK, FlashTypeOK, CpuTypeOK
<1>2. stored # NoControl => Sound(stored) /\ stored.active \in Slot
  BY DEF IInv, StoredSound, Sound, ControlIsValid, Control
<1>3. pc \in {"select", "jump", "probe"} => control = stored /\ stored # NoControl
  BY <1>1, NoControlAssumption DEF IInv, CopyCoherent, CpuTypeOK
<1>4. pc \in AppPc \cup {"jump", "hung"} => stored # NoControl /\ current \in Slot
  BY <1>1 DEF IInv, RunningIsKnown, CpuTypeOK, Slot, NoSlot
<1> QED
  BY <1>1, <1>2, <1>3, <1>4

\* The stored control is never replaced by nothing, and stays typed.
LEMMA SoundIsStored ==
  ASSUME NEW c, Sound(c)
  PROVE  c \in Control /\ c # NoControl /\ ControlIsValid(c) /\ c.confirmed = {c.active}
BY NoControlAssumption DEF Sound, ControlIsValid

\* How a handler that has called the library leaves the processor.
LEMMA HandlerEnd ==
  ASSUME CpuTypeOK, pc \in AppPc, NEW cmd,
         Answer(cmd) \/ AnswerUnlessReset(cmd) \/ PostAndReset(cmd)
  PROVE  /\ CpuTypeOK'
         /\ \/ pc' = "app" /\ current' = current
            \/ pc' = "load" /\ current' = NoSlot
<1>1. CASE Answer(cmd)
  BY <1>1 DEF CpuTypeOK, Answer, Enter, AppPc, Pc, BootPc
<1>2. CASE Restart /\ Cut /\ UNCHANGED mailbox
  BY <1>2, MaxCutsAssumption DEF CpuTypeOK, Restart, Cut, mailbox, AppPc, Pc, BootPc
<1>3. CASE PostAndReset(cmd)
  BY <1>3, MaxCutsAssumption DEF CpuTypeOK, PostAndReset, Restart, Cut, AppPc, Pc, BootPc
<1> QED
  BY <1>1, <1>2, <1>3 DEF AnswerUnlessReset

\* What a step of the application owes the flash: a sound control that knows
\* the running slot, and a count of trials that fits it.
TrialKept ==
  /\ FlashTypeOK' /\ trials' \in Nat /\ Sound(stored')
  /\ current \in {stored'.active, stored'.pending}
  /\ stored'.pending # NoSlot => trials' <= stored'.attempts
  /\ stored'.pending # NoSlot /\ current = stored'.pending => trials' > 0

\* A handler that pays it keeps the invariant.
LEMMA HandlerKeeps ==
  ASSUME IInv, TrialKept, CpuTypeOK',
         \/ pc' = "app" /\ current' = current
         \/ pc' = "load" /\ current' = NoSlot
  PROVE  IInv'
<1> USE DEF TrialKept
<1>1. /\ stored' \in Control /\ stored' # NoControl
      /\ ControlIsValid(stored') /\ stored'.confirmed = {stored'.active}
  BY SoundIsStored
<1>2. BoardTypeOK'
  BY <1>1 DEF BoardTypeOK, FlashTypeOK, CpuTypeOK
<1>3. CopyCoherent' /\ EntersVerified'
  BY DEF CopyCoherent, EntersVerified
<1>4. StoredSound'
  BY <1>1 DEF StoredSound
<1>5. TrialBudget'
  BY <1>1 DEF TrialBudget, TrialPending, ControlIsValid, AppPc
<1>6. RunningIsKnown'
  BY <1>1 DEF RunningIsKnown
<1>7. LastResort'
  BY DEF LastResort, CpuTypeOK
<1> QED
  BY <1>2, <1>3, <1>4, <1>5, <1>6, <1>7 DEF IInv

\* A handler that saves nothing leaves the trial as it was.
LEMMA NothingSaved ==
  ASSUME IInv, pc \in AppPc, stored' = stored, trials' = trials, FlashTypeOK'
  PROVE  TrialKept
BY InvFacts DEF TrialKept, IInv, TrialBudget, TrialPending, RunningIsKnown, AppPc, Slot, NoSlot

\* A handler that marks a slot it does not run from starts a fresh trial.
LEMMA MarkSaved ==
  ASSUME IInv, pc \in AppPc, NEW s \in Slot, s # current, NEW st,
         MarkPending(stored, s, st), CountFromSave
  PROVE  TrialKept
<1>1. /\ FlashTypeOK /\ Sound(stored) /\ stored.active \in Slot /\ current \in Slot
      /\ current \in {stored.active, stored.pending} /\ trials \in Nat
  BY InvFacts DEF IInv, RunningIsKnown, Slot, NoSlot
<1>2. FlashTypeOK'
  BY <1>1, MarkOutcome
<1>3. CASE stored' = stored
  BY <1>2, <1>3, NothingSaved DEF CountFromSave
<1>4. CASE stored' # stored
  <2>1. stored' = WithPending(stored, s) /\ s # stored.active
    BY <1>1, <1>4, MarkOutcome
  <2>2. Sound(stored') /\ stored'.active = stored.active /\ stored'.pending = s
        /\ stored'.attempts = 0
    BY <1>1, <2>1, PendingSound
  <2>3. current = stored.active
    BY <1>1, <2>1 DEF Slot
  <2> QED
    BY <1>1, <1>2, <1>4, <2>2, <2>3 DEF TrialKept, CountFromSave
<1> QED
  BY <1>3, <1>4

\* Confirming the running slot ends the trial with that slot active.
LEMMA ConfirmSaved ==
  ASSUME IInv, pc \in AppPc, NEW st, ConfirmCurrentImage(stored, current, st), CountFromSave
  PROVE  TrialKept
<1>1. FlashTypeOK /\ Sound(stored) /\ current \in Slot /\ trials \in Nat
  BY InvFacts
<1>2. FlashTypeOK'
  BY <1>1, ConfirmOutcome
<1>3. CASE stored' = stored
  BY <1>2, <1>3, NothingSaved DEF CountFromSave
<1>4. CASE stored' # stored
  <2>1. stored' = WithConfirmed(stored, current)
    BY <1>1, <1>4, ConfirmOutcome
  <2>2. Sound(stored') /\ stored'.active = current /\ stored'.pending = NoSlot
    BY <1>1, <2>1, ConfirmedSound
  <2> QED
    BY <1>1, <1>2, <1>4, <2>2 DEF TrialKept, CountFromSave
<1> QED
  BY <1>3, <1>4

\* Rolling back from the active slot ends the trial.
LEMMA RollbackSaved ==
  ASSUME IInv, pc = "probe", NEW st, Rollback(control, st), CountFromSave
  PROVE  TrialKept
<1>1. /\ FlashTypeOK /\ Sound(stored) /\ trials \in Nat /\ pc \in AppPc
      /\ control = stored /\ current = stored.active
  BY InvFacts DEF AppPc, IInv, RunningIsKnown
<1>2. SaveControl(WithoutPending(stored), st)
  BY <1>1 DEF Rollback
<1>3. /\ Sound(WithoutPending(stored)) /\ WithoutPending(stored).active = stored.active
      /\ WithoutPending(stored).pending = NoSlot
  BY <1>1, WithoutSound
<1>4. FlashTypeOK' /\ stored' \in {stored, WithoutPending(stored)}
  BY <1>1, <1>2, <1>3, SaveOutcome
<1>5. CASE stored' = stored
  BY <1>1, <1>4, <1>5, NothingSaved DEF CountFromSave
<1>6. CASE stored' # stored
  BY <1>1, <1>3, <1>4, <1>6 DEF TrialKept, CountFromSave
<1> QED
  BY <1>5, <1>6

-----------------------------------------------------------------------------
(***************************************************************************)
(* The steps of the boot loader.                                           *)
(***************************************************************************)

\* Recovery holds no copy and no slot: only the flash matters.
LEMMA RecoverKeeps ==
  ASSUME IInv, NEW st \in Failure, st # "NO_VALID_IMAGE", Recover(st),
         FlashTypeOK', UNCHANGED <<mailbox, cuts, trials>>,
         TrialPending' => trials <= stored'.attempts,
         stored' = NoControl \/ Sound(stored')
  PROVE  IInv'
<1>1. CpuTypeOK' /\ trials' \in Nat
  BY InvFacts DEF CpuTypeOK, Recover, mailbox, Pc, AppPc, BootPc
<1>2. BoardTypeOK'
  BY <1>1, SoundIsStored DEF BoardTypeOK, FlashTypeOK, CpuTypeOK
<1>3. StoredSound'
  BY SoundIsStored DEF StoredSound
<1>4. TrialBudget'
  BY SoundIsStored DEF TrialBudget, TrialPending, ControlIsValid, Recover, AppPc
<1>5. CopyCoherent' /\ RunningIsKnown' /\ EntersVerified' /\ LastResort'
  BY DEF CopyCoherent, RunningIsKnown, EntersVerified, LastResort, Recover
<1> QED
  BY <1>2, <1>3, <1>4, <1>5 DEF IInv

\* Loading makes the copy the later steps rely on.
LEMMA BootLoadKeeps ==
  ASSUME IInv, BootLoad
  PROVE  IInv'
<1>1. BoardTypeOK'
  BY DEF IInv, BoardTypeOK, BootLoad, coreVars, mailbox, Pc, AppPc, BootPc
<1>2. StoredSound'
  BY DEF IInv, StoredSound, BootLoad, coreVars
<1>3. TrialBudget'
  BY DEF IInv, TrialBudget, TrialPending, BootLoad, coreVars, AppPc
<1>4. CopyCoherent' /\ RunningIsKnown' /\ EntersVerified' /\ LastResort'
  BY DEF IInv, BoardTypeOK, CopyCoherent, RunningIsKnown, EntersVerified, LastResort,
         BootLoad, coreVars, AppPc
<1> QED
  BY <1>1, <1>2, <1>3, <1>4 DEF IInv

\* An empty control area becomes the default control, or recovery.
LEMMA BootDefaultKeeps ==
  ASSUME IInv, BootDefault
  PROVE  IInv'
<1> DEFINE c == DefaultControl("A")
<1> HIDE DEF c
<1>1. Sound(c) /\ c \in Control /\ c # NoControl /\ c.pending = NoSlot
  BY DefaultSound, SoundIsStored DEF c, Slot
<1>2. FlashTypeOK /\ CpuTypeOK /\ trials \in Nat
  BY InvFacts
<1>3. CASE /\ SaveControl(c, "OK") /\ pc' = "select" /\ control' = c
           /\ UNCHANGED <<current, reason, feeding, mailbox, cuts, trials>>
  <2>1. stored' = c /\ FlashTypeOK' /\ slot' = slot
    BY <1>1, <1>2, <1>3, SaveOutcome
  <2>2. BoardTypeOK'
    BY <1>1, <1>2, <1>3, <2>1
    DEF BootDefault, BoardTypeOK, FlashTypeOK, CpuTypeOK, mailbox, Pc, AppPc, BootPc
  <2>3. StoredSound' /\ CopyCoherent'
    BY <1>1, <1>3, <2>1 DEF StoredSound, CopyCoherent, Sound
  <2>4. TrialBudget'
    BY <1>1, <1>3, <2>1 DEF TrialBudget, TrialPending, AppPc
  <2>5. RunningIsKnown' /\ EntersVerified' /\ LastResort'
    BY <1>2, <1>3
    DEF BootDefault, RunningIsKnown, EntersVerified, LastResort, CpuTypeOK, AppPc
  <2> QED
    BY <2>2, <2>3, <2>4, <2>5 DEF IInv
<1>4. ASSUME NEW st \in Failure, SaveControl(c, st), Recover(st),
             UNCHANGED <<mailbox, cuts, trials>>
      PROVE  IInv'
  <2>1. st = "STORAGE" /\ stored' \in {stored, c} /\ FlashTypeOK'
    BY <1>1, <1>2, <1>4, SaveOutcome DEF Failure
  <2>2. stored = NoControl
    BY DEF BootDefault
  <2> QED
    BY <1>1, <1>4, <2>1, <2>2, RecoverKeeps DEF TrialPending
<1> QED
  BY <1>3, <1>4 DEF BootDefault, c

\* The charge of an attempt is what pays for the launch that follows.
LEMMA BootTrialKeeps ==
  ASSUME IInv, BootTrial
  PROVE  IInv'
<1> DEFINE c == WithAttempt(control)
<1> HIDE DEF c
<1>1. /\ pc = "select" /\ control = stored /\ stored # NoControl /\ Sound(stored)
      /\ stored.pending # NoSlot /\ Verifies(stored.pending)
      /\ stored.attempts < MaxAttempts
      /\ FlashTypeOK /\ CpuTypeOK /\ trials \in Nat
  BY InvFacts DEF BootTrial
<1>2. /\ Sound(c) /\ c.active = stored.active /\ c.pending = stored.pending
      /\ c.attempts = stored.attempts + 1
  BY <1>1, AttemptSound DEF c
<1>3. c \in Control /\ c # NoControl /\ ControlIsValid(c) /\ c.confirmed = {c.active}
  BY <1>2, SoundIsStored
<1>4. trials <= stored.attempts /\ stored.attempts \in Nat /\ stored.pending \in Slot
  BY <1>1 DEF IInv, TrialBudget, TrialPending, Sound, ControlIsValid, Control
<1>5. CASE SaveControl(c, "OK") /\ Selected(c.pending, c) /\ UNCHANGED <<mailbox, cuts, trials>>
  <2>1. stored' = c /\ slot' = slot /\ FlashTypeOK'
    BY <1>1, <1>2, <1>5, SaveOutcome
  <2>2. CpuTypeOK'
    BY <1>1, <1>2, <1>3, <1>4, <1>5 DEF CpuTypeOK, Selected, mailbox, Pc, AppPc, BootPc
  <2>3. BoardTypeOK'
    BY <1>1, <1>3, <1>5, <2>1, <2>2 DEF BoardTypeOK, FlashTypeOK, CpuTypeOK
  <2>4. StoredSound' /\ CopyCoherent'
    BY <1>3, <1>5, <2>1 DEF StoredSound, CopyCoherent, Selected
  <2>5. TrialBudget'
    BY <1>1, <1>2, <1>3, <1>4, <1>5, <2>1
    DEF TrialBudget, TrialPending, Selected, ControlIsValid, AppPc
  <2>6. RunningIsKnown'
    BY <1>3, <1>5, <2>1 DEF RunningIsKnown, Selected
  <2>7. EntersVerified'
    BY <1>1, <1>2, <1>5, <2>1 DEF EntersVerified, Verifies, Selected
  <2>8. LastResort'
    BY <1>1, <1>5 DEF LastResort, Selected, CpuTypeOK
  <2> QED
    BY <2>3, <2>4, <2>5, <2>6, <2>7, <2>8 DEF IInv
<1>6. ASSUME NEW st \in Failure, SaveControl(c, st), Recover(st),
             UNCHANGED <<mailbox, cuts, trials>>
      PROVE  IInv'
  <2>1. st = "STORAGE" /\ stored' \in {stored, c} /\ FlashTypeOK'
    BY <1>1, <1>2, <1>6, SaveOutcome DEF Failure
  <2>2. Sound(stored') /\ trials <= stored'.attempts
    BY <1>1, <1>2, <1>4, <2>1
  <2> QED
    BY <1>6, <2>1, <2>2, RecoverKeeps
<1> QED
  BY <1>5, <1>6 DEF BootTrial, c

\* Rolling back ends the trial and leaves the active slot to be selected.
LEMMA BootRollbackKeeps ==
  ASSUME IInv, BootRollback
  PROVE  IInv'
<1> DEFINE c == WithoutPending(control)
<1> HIDE DEF c
<1>1. /\ pc = "select" /\ control = stored /\ stored # NoControl /\ Sound(stored)
      /\ FlashTypeOK /\ CpuTypeOK /\ trials \in Nat
  BY InvFacts DEF BootRollback
<1>2. Sound(c) /\ c.active = stored.active /\ c.pending = NoSlot
  BY <1>1, WithoutSound DEF c
<1>3. c \in Control /\ c # NoControl /\ ControlIsValid(c) /\ c.confirmed = {c.active}
  BY <1>2, SoundIsStored
<1>4. trials' \in Nat /\ (stored' = stored => trials' = trials)
  BY <1>1 DEF BootRollback, CountFromSave
<1>5. CASE /\ SaveControl(c, "OK") /\ control' = c
           /\ UNCHANGED <<pc, current, reason, feeding, mailbox, cuts>>
  <2>1. stored' = c /\ slot' = slot /\ FlashTypeOK'
    BY <1>1, <1>2, <1>5, SaveOutcome
  <2>2. BoardTypeOK'
    BY <1>1, <1>3, <1>4, <1>5, <2>1
    DEF BoardTypeOK, FlashTypeOK, CpuTypeOK, mailbox, Pc, AppPc, BootPc
  <2>3. StoredSound' /\ CopyCoherent' /\ TrialBudget'
    BY <1>1, <1>2, <1>3, <1>5, <2>1
    DEF StoredSound, CopyCoherent, TrialBudget, TrialPending, AppPc
  <2>4. RunningIsKnown' /\ EntersVerified' /\ LastResort'
    BY <1>1, <1>5 DEF RunningIsKnown, EntersVerified, LastResort, CpuTypeOK, AppPc
  <2> QED
    BY <2>2, <2>3, <2>4 DEF IInv
<1>6. ASSUME NEW st \in Failure, SaveControl(c, st), Recover(st),
             UNCHANGED <<mailbox, cuts>>
      PROVE  IInv'
  <2>1. st = "STORAGE" /\ stored' \in {stored, c} /\ FlashTypeOK' /\ slot' = slot
    BY <1>1, <1>2, <1>6, SaveOutcome DEF Failure
  <2>2. Sound(stored')
    BY <1>1, <1>2, <2>1
  <2>3. TrialPending' => trials' <= stored'.attempts
    BY <1>1, <1>2, <1>4, <2>1 DEF IInv, TrialBudget, TrialPending
  <2>4. BoardTypeOK'
    BY <1>1, <1>4, <1>6, <2>1, <2>2, SoundIsStored
    DEF BoardTypeOK, FlashTypeOK, CpuTypeOK, Recover, mailbox, Pc, AppPc, BootPc
  <2>5. StoredSound' /\ TrialBudget'
    BY <1>6, <2>2, <2>3, SoundIsStored
    DEF StoredSound, TrialBudget, TrialPending, ControlIsValid, Recover, AppPc
  <2>6. CopyCoherent' /\ RunningIsKnown' /\ EntersVerified' /\ LastResort'
    BY <1>6, <2>1 DEF CopyCoherent, RunningIsKnown, EntersVerified, LastResort, Recover
  <2> QED
    BY <2>4, <2>5, <2>6 DEF IInv
<1> QED
  BY <1>5, <1>6 DEF BootRollback, Rollback, c

\* The active slot is entered only if it verifies; else nothing is left.
LEMMA BootActiveKeeps ==
  ASSUME IInv, BootActive
  PROVE  IInv'
<1>1. /\ pc = "select" /\ control = stored /\ stored # NoControl
      /\ stored.pending = NoSlot /\ stored.active \in Slot /\ control \in Control
      /\ FlashTypeOK /\ CpuTypeOK /\ trials \in Nat
  BY InvFacts DEF BootActive, CpuTypeOK
<1>2. StoredSound'
  BY DEF IInv, StoredSound, BootActive, coreVars
<1>3. CASE Verifies(control.active) /\ Selected(control.active, control)
  <2>1. BoardTypeOK'
    BY <1>1, <1>3
    DEF IInv, BoardTypeOK, BootActive, Selected, coreVars, mailbox, Pc, AppPc, BootPc
  <2>2. CopyCoherent' /\ TrialBudget' /\ RunningIsKnown' /\ EntersVerified' /\ LastResort'
    BY <1>1, <1>3
    DEF BootActive, Selected, coreVars, CopyCoherent, TrialBudget, TrialPending,
        RunningIsKnown, EntersVerified, Verifies, LastResort, CpuTypeOK, AppPc
  <2> QED
    BY <1>2, <2>1, <2>2 DEF IInv
<1>4. CASE ~Verifies(control.active) /\ Recover("NO_VALID_IMAGE")
  <2>1. BoardTypeOK'
    BY <1>1, <1>4
    DEF IInv, BoardTypeOK, BootActive, Recover, Failure, coreVars, mailbox, Pc, AppPc, BootPc
  <2>2. CopyCoherent' /\ TrialBudget' /\ RunningIsKnown' /\ EntersVerified' /\ LastResort'
    BY <1>1, <1>4
    DEF BootActive, Recover, coreVars, CopyCoherent, TrialBudget, TrialPending,
        RunningIsKnown, EntersVerified, Verifies, LastResort, FallbackVerifies, AppPc
  <2> QED
    BY <1>2, <2>1, <2>2 DEF IInv
<1> QED
  BY <1>3, <1>4 DEF BootActive

\* A read error changes nothing in flash.
LEMMA BootReadFaultKeeps ==
  ASSUME IInv, BootReadFault
  PROVE  IInv'
<1>1. FlashTypeOK'
  BY InvFacts, MaxFaultsAssumption DEF BootReadFault, ReadFault, Fault, FlashTypeOK
<1>2. stored' = NoControl \/ Sound(stored')
  BY InvFacts DEF BootReadFault, ReadFault
<1>3. TrialPending' => trials <= stored'.attempts
  BY DEF IInv, TrialBudget, TrialPending, BootReadFault, ReadFault
<1> QED
  BY <1>1, <1>2, <1>3, RecoverKeeps DEF BootReadFault, Failure

\* Entering a trial uses the attempt that was charged for it.
LEMMA BootJumpKeeps ==
  ASSUME IInv, BootJump
  PROVE  IInv'
<1>1. /\ pc = "jump" /\ control = stored /\ stored # NoControl /\ Sound(stored)
      /\ current \in Slot /\ FlashTypeOK /\ CpuTypeOK /\ trials \in Nat
  BY InvFacts DEF BootJump
<1>2. /\ TrialPending => current = stored.pending /\ trials < stored.attempts
      /\ current \in {stored.active, stored.pending}
  BY <1>1 DEF IInv, TrialBudget, RunningIsKnown, Slot, NoSlot
<1>3. StoredSound' /\ stored.attempts \in Nat /\ stored.attempts <= MaxAttempts
  BY <1>1 DEF BootJump, coreVars, IInv, StoredSound, Sound, ControlIsValid, Control
<1>4. CASE slot[current] \notin Launchable /\ Recover("VERIFY") /\ UNCHANGED trials
  <2>1. FlashTypeOK' /\ Sound(stored') /\ UNCHANGED <<mailbox, cuts, trials>>
    BY <1>1, <1>4 DEF BootJump, coreVars, FlashTypeOK
  <2>2. TrialPending' => trials <= stored'.attempts
    BY DEF IInv, TrialBudget, TrialPending, BootJump, coreVars
  <2> QED
    BY <1>4, <2>1, <2>2, RecoverKeeps DEF Failure
<1>5. ASSUME NEW where \in {"app", "hung"}, Enter(where),
             trials' = IF current = control.pending THEN trials + 1 ELSE trials
      PROVE  IInv'
  <2>1. BoardTypeOK'
    BY <1>1, <1>5
    DEF IInv, BoardTypeOK, BootJump, Enter, coreVars, mailbox, Pc, AppPc, BootPc
  <2>2. TrialBudget'
    BY <1>1, <1>2, <1>3, <1>5
    DEF BootJump, Enter, coreVars, TrialBudget, TrialPending, AppPc
  <2>3. CopyCoherent' /\ RunningIsKnown' /\ EntersVerified' /\ LastResort'
    BY <1>1, <1>2, <1>5
    DEF BootJump, Enter, coreVars, CopyCoherent, RunningIsKnown, EntersVerified,
        LastResort, CpuTypeOK
  <2> QED
    BY <1>3, <2>1, <2>2, <2>3 DEF IInv
<1> QED
  BY <1>4, <1>5 DEF BootJump

-----------------------------------------------------------------------------
(***************************************************************************)
(* The steps of the application.                                           *)
(***************************************************************************)

\* Handlers that only read answer and leave the flash and the trial alone.
LEMMA ReadOnlyKeeps ==
  ASSUME IInv, pc \in AppPc, Answer("NONE"), stored' = stored, trials' = trials, FlashTypeOK'
  PROVE  IInv'
BY InvFacts, NothingSaved, HandlerEnd, HandlerKeeps DEF Command

\* Erasing and programming change the slot the application does not run from;
\* the next step of install_slot_b still runs in slot A.
LEMMA InstallKeeps ==
  ASSUME IInv, pc \in AppPc, current = "A", NEW where \in {"program", "mark"}, Enter(where),
         stored' = stored, FlashTypeOK', UNCHANGED <<mailbox, cuts, trials>>
  PROVE  IInv'
<1>1. BoardTypeOK' /\ CpuTypeOK'
  BY InvFacts
  DEF IInv, BoardTypeOK, CpuTypeOK, FlashTypeOK, Enter, mailbox, Pc, AppPc, BootPc
<1>2. TrialKept
  BY NothingSaved
<1>3. StoredSound' /\ TrialBudget'
  BY <1>2, SoundIsStored
  DEF TrialKept, StoredSound, TrialBudget, TrialPending, ControlIsValid, Enter, AppPc
<1>4. CopyCoherent' /\ RunningIsKnown' /\ EntersVerified' /\ LastResort'
  BY <1>1, <1>2, SoundIsStored
  DEF TrialKept, CopyCoherent, RunningIsKnown, EntersVerified, LastResort, CpuTypeOK, Enter
<1> QED
  BY <1>1, <1>3, <1>4 DEF IInv

\* Erasing and programming keep the flash typed and the control as it is.
LEMMA CandidateOutcome ==
  ASSUME FlashTypeOK, NEW st, staging \in Images \cup {NoImage},
         EraseSlot("B", current, st) \/ ProgramSlot("B", current, staging, st)
  PROVE  FlashTypeOK' /\ stored' = stored
BY MaxFaultsAssumption DEF EraseSlot, ProgramSlot, FlashTypeOK, Fault

\* Every step of the application preserves the invariant.
LEMMA AppStepKeeps ==
  ASSUME IInv, AppStep
  PROVE  IInv'
<1> USE DEF Ready
<1>a. pc \in AppPc
  BY DEF AppStep, RefuseUnsettled, InstallReject, InstallErase, InstallProgram, InstallMark,
         Confirm, FailRolledBack, FailStarve, HoldRolledBack, ActivateOther, ReadTestMark,
         ReadTestRollback, WriteTest, NothingToDo, AppPc
<1>b. /\ FlashTypeOK /\ CpuTypeOK /\ stored # NoControl /\ current \in Slot
      /\ staging \in Images \cup {NoImage}
  BY <1>a, InvFacts DEF CpuTypeOK
<1>c. {"NONE", "HOLD", "CONFIRM"} \subseteq Command
  BY DEF Command
<1>d. OtherSlot(current) \in Slot /\ OtherSlot(current) # current
  BY <1>b DEF OtherSlot, Slot
<1>1. CASE RefuseUnsettled \/ InstallReject \/ HoldRolledBack \/ NothingToDo
  BY <1>a, <1>b, <1>1, ReadOnlyKeeps
  DEF RefuseUnsettled, InstallReject, HoldRolledBack, NothingToDo, coreVars, FlashTypeOK
<1>2. CASE WriteTest
  <2>1. FlashTypeOK'
    <3>1. armed' \in BOOLEAN
      BY <1>2, Zenon DEF WriteTest
    <3>2. faults' \in 0..MaxFaults
      <4>1. UNCHANGED faults \/ Fault
        BY <1>2, Zenon DEF WriteTest
      <4> QED
        BY <1>b, <4>1, MaxFaultsAssumption DEF Fault, FlashTypeOK
    <3> QED
      BY <1>b, <1>2, <3>1, <3>2 DEF WriteTest, FlashTypeOK
  <2> QED
    BY <1>a, <1>2, <2>1, ReadOnlyKeeps DEF WriteTest
<1>3. CASE InstallErase
  <2>1. FlashTypeOK' /\ stored' = stored /\ trials' = trials
    BY <1>b, <1>3, CandidateOutcome DEF InstallErase
  <2>2. CASE Enter("program") /\ UNCHANGED <<mailbox, cuts>>
    BY <1>a, <1>3, <2>1, <2>2, InstallKeeps DEF InstallErase
  <2>3. CASE AnswerUnlessReset("NONE")
    BY <1>a, <1>b, <1>c, <2>1, <2>3, NothingSaved, HandlerEnd, HandlerKeeps
  <2> QED
    BY <1>3, <2>2, <2>3 DEF InstallErase
<1>4. CASE InstallProgram
  <2>1. FlashTypeOK' /\ stored' = stored /\ trials' = trials
    BY <1>b, <1>4, CandidateOutcome DEF InstallProgram
  <2>2. CASE Enter("mark") /\ UNCHANGED <<mailbox, cuts>>
    BY <1>a, <1>4, <2>1, <2>2, InstallKeeps DEF InstallProgram, IInv, RunningIsKnown
  <2>3. CASE AnswerUnlessReset("NONE")
    BY <1>a, <1>b, <1>c, <2>1, <2>3, NothingSaved, HandlerEnd, HandlerKeeps
  <2> QED
    BY <1>4, <2>2, <2>3 DEF InstallProgram
<1>5. CASE InstallMark
  <2>1. current = "A" /\ "B" # current /\ "B" \in Slot
    BY <1>5 DEF InstallMark, IInv, RunningIsKnown, Slot
  <2>2. CASE ReadFault /\ Answer("NONE")
    <3>1. FlashTypeOK' /\ stored' = stored /\ trials' = trials
      BY <1>b, <1>5, <2>2, MaxFaultsAssumption
      DEF InstallMark, CountFromSave, ReadFault, Fault, FlashTypeOK
    <3> QED
      BY <1>a, <2>2, <3>1, ReadOnlyKeeps
  <2>3. CASE MarkPending(stored, "B", "OK") /\ PostAndReset("HOLD")
    BY <1>a, <1>b, <1>c, <1>5, <2>1, <2>3, MarkSaved, HandlerEnd, HandlerKeeps
    DEF InstallMark
  <2>4. ASSUME NEW st \in Failure, MarkPending(stored, "B", st), AnswerUnlessReset("NONE")
        PROVE  IInv'
    BY <1>a, <1>b, <1>c, <1>5, <2>1, <2>4, MarkSaved, HandlerEnd, HandlerKeeps
    DEF InstallMark
  <2> QED
    BY <1>5, <2>2, <2>3, <2>4 DEF InstallMark
<1>6. CASE Confirm
  BY <1>a, <1>b, <1>c, <1>6, ConfirmSaved, HandlerEnd, HandlerKeeps DEF Confirm
<1>7. CASE FailRolledBack
  <2>1. CpuTypeOK' /\ FlashTypeOK' /\ stored' = stored /\ trials' = trials
    BY <1>b, <1>7
    DEF FailRolledBack, coreVars, CpuTypeOK, FlashTypeOK, Command
  <2> QED
    BY <1>a, <1>7, <2>1, NothingSaved, HandlerKeeps DEF FailRolledBack
<1>8. CASE FailStarve
  <2>1. CpuTypeOK'
    BY <1>b, <1>8 DEF FailStarve, CpuTypeOK, mailbox
  <2>2. FlashTypeOK' /\ stored' = stored /\ trials' = trials
    BY <1>b, <1>8, MaxFaultsAssumption DEF FailStarve, coreVars, ReadFault, Fault, FlashTypeOK
  <2> QED
    BY <1>a, <1>8, <2>1, <2>2, NothingSaved, HandlerKeeps DEF FailStarve
<1>9. CASE ActivateOther
  <2>1. ASSUME NEW st, MarkPending(stored, OtherSlot(current), st),
               AnswerUnlessReset("NONE") \/ PostAndReset("CONFIRM")
        PROVE  IInv'
    BY <1>a, <1>b, <1>c, <1>d, <1>9, <2>1, MarkSaved, HandlerEnd, HandlerKeeps
    DEF ActivateOther
  <2> QED
    BY <1>9, <2>1 DEF ActivateOther
<1>10. CASE ReadTestMark
  <2>1. ASSUME NEW st, MarkPending(stored, OtherSlot(current), st), AnswerUnlessReset("NONE")
        PROVE  IInv'
    BY <1>a, <1>b, <1>c, <1>d, <1>10, <2>1, MarkSaved, HandlerEnd, HandlerKeeps
    DEF ReadTestMark
  <2>2. CASE /\ MarkPending(stored, OtherSlot(current), "OK")
             /\ pc' = "probe" /\ control' = stored'
             /\ UNCHANGED <<current, reason, feeding, mailbox, cuts>>
    <3>1. TrialKept
      BY <1>a, <1>d, <1>10, <2>2, MarkSaved DEF ReadTestMark
    <3>2. /\ stored' \in Control /\ stored' # NoControl
          /\ ControlIsValid(stored') /\ stored'.confirmed = {stored'.active}
      BY <3>1, SoundIsStored DEF TrialKept
    <3>3. stored'.active = current
      <4>1. Sound(stored) /\ stored.active = current
        BY <1>b, <1>10, InvFacts DEF ReadTestMark, Settled
      <4> QED
        BY <1>b, <1>d, <2>2, <4>1, MarkOutcome, PendingSound
    <3>4. BoardTypeOK'
      BY <1>b, <2>2, <3>1, <3>2, <1>10
      DEF ReadTestMark, TrialKept, BoardTypeOK, FlashTypeOK, CpuTypeOK, mailbox, Pc, AppPc, BootPc
    <3>5. StoredSound' /\ CopyCoherent' /\ TrialBudget'
      BY <2>2, <3>1, <3>2
      DEF TrialKept, StoredSound, CopyCoherent, TrialBudget, TrialPending, ControlIsValid, AppPc
    <3>6. RunningIsKnown' /\ EntersVerified' /\ LastResort'
      BY <1>b, <1>10, <2>2, <3>1, <3>2, <3>3
      DEF ReadTestMark, TrialKept, RunningIsKnown, EntersVerified, LastResort, CpuTypeOK
    <3> QED
      BY <3>4, <3>5, <3>6 DEF IInv
  <2> QED
    BY <1>10, <2>1, <2>2 DEF ReadTestMark
<1>11. CASE ReadTestRollback
  BY <1>a, <1>b, <1>c, <1>11, RollbackSaved, HandlerEnd, HandlerKeeps DEF ReadTestRollback
<1> QED
  BY <1>1, <1>2, <1>3, <1>4, <1>5, <1>6, <1>7, <1>8, <1>9, <1>10, <1>11 DEF AppStep

-----------------------------------------------------------------------------
(***************************************************************************)
(* The environment, and the theorems.                                      *)
(***************************************************************************)

\* A reset forgets everything but the flash.
LEMMA ResetKeeps ==
  ASSUME IInv, Reset, CpuTypeOK'
  PROVE  IInv'
<1>1. BoardTypeOK'
  BY DEF IInv, BoardTypeOK, CpuTypeOK, Reset
<1>2. StoredSound' /\ TrialBudget'
  BY DEF IInv, StoredSound, TrialBudget, TrialPending, Reset, Restart, AppPc
<1>3. CopyCoherent' /\ RunningIsKnown' /\ EntersVerified' /\ LastResort'
  BY DEF CopyCoherent, RunningIsKnown, EntersVerified, LastResort, Reset, Restart
<1> QED
  BY <1>1, <1>2, <1>3 DEF IInv

\* Resets, cuts, host writes and damaged slots preserve the invariant.
LEMMA EnvironmentKeeps ==
  ASSUME IInv, Environment \/ WatchdogReset
  PROVE  IInv'
<1>1. CASE WatchdogReset \/ WarmReset \/ PowerCut
  <2>1. CpuTypeOK'
    <3>1. cuts' \in 0..MaxCuts
      BY <1>1, InvFacts, MaxCutsAssumption
      DEF WatchdogReset, WarmReset, PowerCut, Cut, CpuTypeOK
    <3>2. staging' \in Images \cup {NoImage}
      BY <1>1, InvFacts
      DEF WatchdogReset, WarmReset, PowerCut, mailbox, CpuTypeOK, Command
    <3>3. Restart
      BY <1>1 DEF WatchdogReset, WarmReset, PowerCut, Reset
    <3> QED
      BY <3>1, <3>2, <3>3 DEF Restart, CpuTypeOK, Pc, AppPc, BootPc
  <2> QED
    BY <1>1, <2>1, ResetKeeps DEF WatchdogReset, WarmReset, PowerCut
<1>2. ASSUME NEW cmd \in Command, HostPost(cmd)
      PROVE  IInv'
  <2>1. BoardTypeOK'
    BY <1>2 DEF IInv, BoardTypeOK, HostPost, coreVars, cpu
  <2> QED
    BY <1>2, <2>1
    DEF IInv, HostPost, coreVars, cpu, CopyCoherent, StoredSound, TrialBudget, TrialPending,
        RunningIsKnown, EntersVerified, Verifies, LastResort, FallbackVerifies
<1>3. ASSUME NEW s \in Slot, CorruptSlot(s)
      PROVE  IInv'
  <2>1. BoardTypeOK'
    BY <1>3, MaxFaultsAssumption DEF IInv, BoardTypeOK, CorruptSlot, Fault, cpu, mailbox
  <2>2. slot \in [Slot -> Images \cup {NoImage}]
    BY DEF IInv, BoardTypeOK
  <2>3. LastResort'
    <3>1. stored # NoControl => stored.active \in Slot
      BY InvFacts
    <3> QED
      BY <1>3, <2>2, <3>1, NoImageAssumption
      DEF IInv, CorruptSlot, cpu, LastResort, FallbackVerifies, Verifies, TrialPending
  <2> QED
    BY <1>3, <2>1, <2>3
    DEF IInv, CorruptSlot, cpu, CopyCoherent, StoredSound, TrialBudget, TrialPending,
        RunningIsKnown, EntersVerified
<1> QED
  BY <1>1, <1>2, <1>3 DEF Environment

\* The board as it is shipped satisfies the invariant.
LEMMA InitKeeps ==
  ASSUME Init
  PROVE  IInv
<1>1. BoardTypeOK
  <2>1. FlashTypeOK /\ cuts \in 0..MaxCuts /\ trials \in Nat
    <3>1. faults = 0 /\ cuts = 0 /\ trials = 0
      BY DEF Init
    <3>2. armed \in BOOLEAN /\ slot \in [Slot -> Images \cup {NoImage}]
      BY Zenon DEF Init
    <3> QED
      BY <3>1, <3>2, MaxFaultsAssumption, MaxCutsAssumption DEF FlashTypeOK
  <2>2. /\ pc \in Pc /\ feeding \in BOOLEAN
        /\ pc \notin AppPc \cup {"jump", "hung", "select", "probe", "recovery"}
    BY DEF Init, Pc, BootPc, AppPc, Command
  <2> QED
    <3>1. /\ stored \in Control \cup {NoControl} /\ control \in {NoControl}
          /\ current \in {NoSlot} /\ reason \in {"OK"}
          /\ staging \in Images \cup {NoImage}
      BY DEF Init
    <3> QED
      BY <2>1, <2>2, <3>1 DEF BoardTypeOK, FlashTypeOK
<1> QED
  BY <1>1 DEF Init, IInv, CopyCoherent, StoredSound, TrialBudget, TrialPending,
    RunningIsKnown, EntersVerified, LastResort

\* Every step, of the boot loader, of the application or of the environment,
\* preserves it.
LEMMA NextKeeps ==
  ASSUME IInv, [Next]_vars
  PROVE  IInv'
<1>1. CASE BootStep
  BY <1>1, BootLoadKeeps, BootDefaultKeeps, BootTrialKeeps, BootRollbackKeeps,
     BootActiveKeeps, BootJumpKeeps DEF BootStep
<1>2. CASE BootReadFault
  BY <1>2, BootReadFaultKeeps
<1>3. CASE AppStep
  BY <1>3, AppStepKeeps
<1>4. CASE LoadFault
  <2>1. FlashTypeOK' /\ stored' = stored /\ trials' = trials /\ pc \in AppPc
    BY <1>4, InvFacts, MaxFaultsAssumption
    DEF LoadFault, ReadFault, Fault, FlashTypeOK, AppPc
  <2> QED
    BY <1>4, <2>1, ReadOnlyKeeps DEF LoadFault
<1>5. CASE WatchdogReset \/ Environment
  BY <1>5, EnvironmentKeeps
<1>6. CASE UNCHANGED vars
  BY <1>6
  DEF vars, coreVars, cpu, mailbox, IInv, BoardTypeOK, CopyCoherent, StoredSound, TrialBudget,
      TrialPending, RunningIsKnown, EntersVerified, Verifies, LastResort, FallbackVerifies
<1> QED
  BY <1>1, <1>2, <1>3, <1>4, <1>5, <1>6 DEF Next

\* So it always holds.
THEOREM Invariance == Spec => []IInv
BY InitKeeps, NextKeeps, PTL DEF Spec

\* A command word that is replaced is cleared or replaced by another command.
LEMMA CommandKept ==
  ASSUME [Next]_vars
  PROVE  command' \in Command \cup {command}
<1>1. {"NONE", "HOLD", "CONFIRM"} \subseteq Command
  BY DEF Command
<1>2. ASSUME NEW cmd \in Command, Answer(cmd) \/ AnswerUnlessReset(cmd) \/ PostAndReset(cmd)
      PROVE  command' \in Command \cup {command}
  BY <1>2 DEF Answer, AnswerUnlessReset, PostAndReset, mailbox
<1>3. CASE BootStep \/ BootReadFault \/ WatchdogReset \/ UNCHANGED vars
  BY <1>3
  DEF BootStep, BootLoad, BootDefault, BootTrial, BootRollback, BootActive, BootJump,
      BootReadFault, WatchdogReset, mailbox, vars
<1>4. CASE AppStep
  BY <1>1, <1>2, <1>4
  DEF AppStep, RefuseUnsettled, InstallReject, InstallErase, InstallProgram, InstallMark,
      Confirm, FailRolledBack, FailStarve, HoldRolledBack, ActivateOther, ReadTestMark,
      ReadTestRollback, WriteTest, NothingToDo, mailbox
<1>5. CASE LoadFault
  BY <1>1, <1>2, <1>5 DEF LoadFault
<1>6. CASE Environment
  BY <1>1, <1>6 DEF Environment, HostPost, WarmReset, PowerCut, CorruptSlot, mailbox
<1> QED
  BY <1>3, <1>4, <1>5, <1>6 DEF Next

\* Type correctness, with which of the RAM variables mean something where.
THEOREM TypeCorrectness == Spec => []TypeOK
<1>1. Init => command \in Command
  BY DEF Init, Command
<1>2. command \in Command /\ [Next]_vars => (command \in Command)'
  BY CommandKept
<1>3. IInv /\ command \in Command => TypeOK
  BY DEF IInv, BoardTypeOK, TypeOK
<1> QED
  BY <1>1, <1>2, <1>3, Invariance, PTL DEF Spec

\* A RAM copy of the control that is still to be used is the stored control,
\* whichever saves failed and wherever a reset struck.
THEOREM CopyAlwaysCoherent == Spec => []CopyCoherent
BY Invariance, PTL DEF IInv

\* The stored control is always one the library accepts, with exactly the
\* active slot confirmed, whichever saves failed or were cut short.
THEOREM StoredAlwaysSound == Spec => []StoredSound
BY Invariance, PTL DEF IInv

\* No image on trial is ever entered more than max_boot_attempts times.
THEOREM TrialsBounded == Spec => []TrialBudget
BY Invariance, PTL DEF IInv

\* The boot loader enters only images it verified in the same boot.
THEOREM OnlyVerifiedEntered == Spec => []EntersVerified
BY Invariance, PTL DEF IInv

\* The running slot never drops out of the stored control.
THEOREM RunningAlwaysKnown == Spec => []RunningIsKnown
BY Invariance, PTL DEF IInv

\* Recovery for want of an image is entered, and stayed in, only without one.
THEOREM RecoveryIsLastResort == Spec => []LastResort
BY Invariance, PTL DEF IInv

-----------------------------------------------------------------------------
(***************************************************************************)
(* Promotion: which steps can change the active slot at all.               *)
(***************************************************************************)

\* Only a confirmation of the running slot, verified in that call, changes
\* the active slot; every other save keeps it.
LEMMA ActiveChanges ==
  ASSUME IInv, Next, stored # NoControl
  PROVE  \/ stored'.active = stored.active
         \/ /\ pc \in AppPc /\ stored'.active = current
            /\ current \in {stored.active, stored.pending} /\ Verifies(current)
<1> USE DEF Ready
<1>1. FlashTypeOK /\ Sound(stored)
  BY InvFacts
<1>2. CASE BootTrial
  <2>1. control = stored /\ stored.pending # NoSlot /\ stored.attempts < MaxAttempts
    BY <1>2, InvFacts DEF BootTrial
  <2>2. Sound(WithAttempt(stored)) /\ WithAttempt(stored).active = stored.active
    BY <1>1, <2>1, AttemptSound
  <2>3. \E st \in Status : SaveControl(WithAttempt(stored), st)
    BY <1>2, <2>1 DEF BootTrial, Status
  <2> QED
    BY <1>1, <2>2, <2>3, SaveOutcome
<1>3. CASE BootRollback \/ ReadTestRollback
  <2>1. control = stored
    BY <1>3, InvFacts DEF BootRollback, ReadTestRollback
  <2>2. Sound(WithoutPending(stored)) /\ WithoutPending(stored).active = stored.active
    BY <1>1, WithoutSound
  <2>3. \E st \in Status : SaveControl(WithoutPending(stored), st)
    BY <1>3, <2>1 DEF BootRollback, ReadTestRollback, Rollback, Status
  <2> QED
    BY <1>1, <2>2, <2>3, SaveOutcome
<1>4. CASE InstallMark \/ ActivateOther \/ ReadTestMark
  <2>1. CASE ReadFault
    BY <2>1 DEF ReadFault
  <2>2. ASSUME NEW s \in Slot, NEW st \in Status, MarkPending(stored, s, st)
        PROVE  stored'.active = stored.active
    BY <1>1, <2>2, MarkOutcome, PendingSound
  <2>3. "B" \in Slot /\ OtherSlot(current) \in Slot
    BY DEF Slot, OtherSlot
  <2> QED
    BY <1>4, <2>1, <2>2, <2>3 DEF InstallMark, ActivateOther, ReadTestMark, Status
<1>5. CASE Confirm
  <2>1. current \in Slot /\ pc \in AppPc
    BY <1>5, InvFacts DEF Confirm, AppPc
  <2>2. PICK st \in Status : ConfirmCurrentImage(stored, current, st)
    BY <1>5 DEF Confirm
  <2> QED
    BY <1>1, <2>1, <2>2, ConfirmOutcome, ConfirmedSound
<1>6. CASE \/ BootLoad \/ BootActive \/ BootJump \/ BootReadFault \/ LoadFault
           \/ RefuseUnsettled \/ InstallReject \/ HoldRolledBack \/ NothingToDo \/ WriteTest
           \/ FailRolledBack \/ FailStarve \/ InstallErase \/ InstallProgram
           \/ WatchdogReset \/ Environment
  BY <1>6
  DEF BootLoad, BootActive, BootJump, BootReadFault, LoadFault, ReadFault, RefuseUnsettled,
      InstallReject, HoldRolledBack, NothingToDo, WriteTest, FailRolledBack, FailStarve,
      InstallErase, InstallProgram, EraseSlot, ProgramSlot, WatchdogReset, Environment,
      HostPost, WarmReset, PowerCut, CorruptSlot, Reset, coreVars
<1>7. CASE BootDefault
  BY <1>7 DEF BootDefault
<1> QED
  BY <1>2, <1>3, <1>4, <1>5, <1>6, <1>7 DEF Next, BootStep, AppStep

\* The active slot changes only to the trial that is itself running, that was
\* launched on a charged attempt, and whose image verifies.
THEOREM OnlyTrialedPromoted == Spec => PromotesOnlyTrialed
<1>1. IInv /\ [Next]_vars =>
        [(stored # NoControl /\ stored'.active # stored.active) =>
           /\ stored'.active = stored.pending /\ current = stored.pending
           /\ trials > 0 /\ Verifies(stored.pending)]_vars
  <2> SUFFICES ASSUME IInv, Next, stored # NoControl, stored'.active # stored.active
               PROVE  /\ stored'.active = stored.pending /\ current = stored.pending
                      /\ trials > 0 /\ Verifies(stored.pending)
    BY DEF vars
  <2>1. /\ pc \in AppPc /\ stored'.active = current /\ current = stored.pending
        /\ Verifies(current)
    BY ActiveChanges
  <2>2. TrialPending
    BY <2>1, InvFacts DEF TrialPending, Slot, NoSlot
  <2> QED
    BY <2>1, <2>2 DEF IInv, TrialBudget
<1> QED
  BY <1>1, Invariance, PTL DEF Spec, PromotesOnlyTrialed

-----------------------------------------------------------------------------
(***************************************************************************)
(* What a boot may cost a trial.                                           *)
(***************************************************************************)

\* A boot that gives a trial up found its image bad or its attempts used up;
\* no storage error, in any of the boot's reads and saves, does it.
THEOREM TrialSurvivesFaults == Spec => TransientFaultKeepsTrial
<1>1. IInv /\ [Next]_vars =>
        [(pc \in BootPc /\ TrialPending /\ ~TrialPending')
           => (~Verifies(stored.pending) \/ stored.attempts = MaxAttempts)]_vars
  <2> SUFFICES ASSUME IInv, Next, pc \in BootPc, TrialPending, ~TrialPending'
               PROVE  ~Verifies(stored.pending) \/ stored.attempts = MaxAttempts
    BY DEF vars
  <2>1. FlashTypeOK /\ Sound(stored) /\ stored.pending # NoSlot /\ stored # NoControl
    BY InvFacts DEF TrialPending
  <2>2. stored' # stored
    BY DEF TrialPending
  <2>3. ~AppStep /\ ~LoadFault /\ ~WatchdogReset /\ ~Environment /\ ~BootReadFault
    <3>1. pc \notin AppPc
      BY DEF BootPc, AppPc
    <3>2. ~AppStep /\ ~LoadFault
      BY <3>1 DEF AppPc, AppStep, Ready, LoadFault, RefuseUnsettled, InstallReject, InstallErase,
         InstallProgram, InstallMark, Confirm, FailRolledBack, FailStarve, HoldRolledBack,
         ActivateOther, ReadTestMark, ReadTestRollback, WriteTest, NothingToDo
    <3> QED
      BY <2>2, <3>2 DEF WatchdogReset, Environment, HostPost, WarmReset, PowerCut,
         CorruptSlot, Reset, BootReadFault, ReadFault, coreVars
  <2>4. CASE BootTrial
    <3>1. control = stored /\ stored.attempts < MaxAttempts
      BY <2>4, InvFacts DEF BootTrial
    <3>2. Sound(WithAttempt(stored)) /\ WithAttempt(stored).pending = stored.pending
      BY <2>1, <3>1, AttemptSound
    <3>3. \E st \in Status : SaveControl(WithAttempt(stored), st)
      BY <2>4, <3>1 DEF BootTrial, Status
    <3>4. stored' = WithAttempt(stored)
      BY <2>1, <2>2, <3>2, <3>3, SaveOutcome
    <3>5. WithAttempt(stored) # NoControl
      BY <3>2, NoControlAssumption DEF Sound, ControlIsValid
    <3> QED
      BY <2>1, <3>2, <3>4, <3>5 DEF TrialPending
  <2>5. CASE BootRollback
    <3>1. control = stored
      BY <2>5, InvFacts DEF BootRollback
    <3>2. stored.attempts \in Nat /\ stored.attempts <= MaxAttempts
      BY <2>1 DEF Sound, ControlIsValid, Control
    <3> QED
      BY <2>5, <3>1, <3>2, MaxAttemptsAssumption DEF BootRollback
  <2>6. CASE BootLoad \/ BootDefault \/ BootActive \/ BootJump
    BY <2>1, <2>2, <2>6 DEF BootLoad, BootDefault, BootActive, BootJump, coreVars
  <2> QED
    BY <2>3, <2>4, <2>5, <2>6 DEF Next, BootStep
<1> QED
  BY <1>1, Invariance, PTL DEF Spec, TransientFaultKeepsTrial

-----------------------------------------------------------------------------
(***************************************************************************)
(* What can cost the fallback.  Programming slot B over a fallback would   *)
(* lose it too, but by then the erase before it has: this is the one fact  *)
(* IInv lacks.                                                             *)
(***************************************************************************)
ErasedFirst == pc = "program" => ~Verifies("B")

\* Only a completed erase leads to programming, and only the programming step
\* itself gives slot B new content.
LEMMA ErasedFirstKept ==
  ASSUME IInv, ErasedFirst, [Next]_vars
  PROVE  ErasedFirst'
<1> SUFFICES ASSUME pc' = "program"
             PROVE  ~Verifies("B")'
  BY DEF ErasedFirst
<1>1. slot \in [Slot -> Images \cup {NoImage}] /\ "B" \in Slot
  BY DEF IInv, BoardTypeOK, Slot
<1>2. CASE InstallErase
  <2>1. EraseSlot("B", "A", "OK")
    BY <1>2 DEF InstallErase, AnswerUnlessReset, Answer, Enter, Restart
  <2>2. slot' = [slot EXCEPT !["B"] = NoImage]
    BY <2>1 DEF EraseSlot
  <2> QED
    BY <1>1, <2>2, NoImageAssumption DEF Verifies
<1>3. CASE pc = "program" /\ (UNCHANGED slot \/ \E s \in Slot : CorruptSlot(s))
  BY <1>1, <1>3, NoImageAssumption DEF ErasedFirst, Verifies, CorruptSlot
<1>4. CASE Next /\ ~InstallErase
  <2>1. ~BootStep /\ ~BootReadFault /\ ~LoadFault /\ ~WatchdogReset
    BY DEF BootStep, BootLoad, BootDefault, BootTrial, BootRollback, BootActive, BootJump,
           BootReadFault, LoadFault, WatchdogReset, Selected, Recover, Enter, Answer, Restart,
           Reset
  <2>2. ~AppStep
    BY <1>4
    DEF AppStep, Ready, RefuseUnsettled, InstallReject, InstallProgram, InstallMark, Confirm,
        FailRolledBack, FailStarve, HoldRolledBack, ActivateOther, ReadTestMark,
        ReadTestRollback, WriteTest, NothingToDo, Enter, Answer, AnswerUnlessReset,
        PostAndReset, Restart
  <2> QED
    BY <1>3, <1>4, <2>1, <2>2
    DEF Next, Environment, HostPost, WarmReset, PowerCut, CorruptSlot, Reset, Restart, cpu, coreVars
<1> QED
  BY <1>2, <1>3, <1>4 DEF vars, coreVars, cpu

\* So slot B holds no complete image whenever install_slot_b programs it.
LEMMA AlwaysErasedFirst == Spec => []ErasedFirst
<1>1. Init => ErasedFirst
  BY DEF Init, ErasedFirst
<1>2. IInv /\ ErasedFirst /\ [Next]_vars => ErasedFirst'
  BY ErasedFirstKept
<1> QED
  BY <1>1, <1>2, Invariance, PTL DEF Spec

\* Only installs and damage change what a slot holds.
LEMMA SlotChanges ==
  ASSUME IInv, Next, ~InstallErase, ~InstallProgram, ~(\E s \in Slot : CorruptSlot(s))
  PROVE  slot' = slot
<1> USE DEF SaveControl, ReadFault, coreVars
<1>1. CASE BootStep \/ BootReadFault \/ LoadFault
  BY <1>1 DEF BootStep, BootLoad, BootDefault, BootTrial, BootRollback, BootActive, BootJump,
              BootReadFault, LoadFault, Rollback
<1>2. CASE AppStep
  BY <1>2
  DEF AppStep, RefuseUnsettled, InstallReject, InstallMark, Confirm, FailRolledBack,
      FailStarve, HoldRolledBack, ActivateOther, ReadTestMark, ReadTestRollback, WriteTest,
      NothingToDo, MarkPending, ConfirmCurrentImage, Rollback
<1>3. CASE WatchdogReset \/ Environment
  BY <1>3 DEF WatchdogReset, Environment, HostPost, WarmReset, PowerCut, Reset
<1> QED
  BY <1>1, <1>2, <1>3 DEF Next

\* A save stores a valid control or leaves the old one, so no step loses the
\* control altogether.
LEMMA StoredStays ==
  ASSUME Next, stored # NoControl
  PROVE  stored' # NoControl
<1>1. ASSUME NEW c, NEW st, SaveControl(c, st)
      PROVE  stored' # NoControl
  BY <1>1, NoControlAssumption DEF SaveControl, ControlIsValid
<1>2. CASE BootStep \/ BootReadFault \/ LoadFault
  BY <1>1, <1>2
  DEF BootStep, BootLoad, BootDefault, BootTrial, BootRollback, BootActive, BootJump,
      BootReadFault, LoadFault, ReadFault, Rollback, coreVars
<1>3. CASE AppStep
  BY <1>1, <1>3
  DEF AppStep, RefuseUnsettled, InstallReject, InstallErase, InstallProgram, InstallMark,
      Confirm, FailRolledBack, FailStarve, HoldRolledBack, ActivateOther, ReadTestMark,
      ReadTestRollback, WriteTest, NothingToDo, MarkPending, ConfirmCurrentImage, Rollback,
      EraseSlot, ProgramSlot, ReadFault, coreVars
<1>4. CASE WatchdogReset \/ Environment
  BY <1>4
  DEF WatchdogReset, Environment, HostPost, WarmReset, PowerCut, CorruptSlot, Reset, coreVars
<1> QED
  BY <1>2, <1>3, <1>4 DEF Next

\* A step with healthy flash that costs the fallback is the erase of a trial
\* that installs over it.
LEMMA FallbackStep ==
  ASSUME IInv, Next, InstallProgram /\ slot' # slot => ~Verifies("B"),
         FallbackVerifies, ~FallbackVerifies', faults' = faults
  PROVE  Ready("INSTALL_B") /\ current = stored.pending
<1>1. /\ FlashTypeOK /\ stored # NoControl /\ stored' # NoControl
      /\ stored.active \in Slot /\ Verifies(stored.active)
  BY InvFacts, StoredStays DEF FallbackVerifies
<1>2. ~Fault
  BY <1>1 DEF Fault, FlashTypeOK
<1>3. slot' # slot
  <2> SUFFICES ASSUME slot' = slot PROVE FALSE
    OBVIOUS
  <2>1. Verifies(stored'.active)
    BY <1>1, ActiveChanges
  <2> QED
    BY <1>1, <2>1 DEF FallbackVerifies, Verifies
<1>4. CASE InstallErase
  <2>1. current = "A" /\ Ready("INSTALL_B") /\ stored' = stored
    BY <1>4 DEF InstallErase, EraseSlot
  <2>2. slot' = [slot EXCEPT !["B"] = NoImage]
    BY <1>2, <1>3, <1>4, <2>1 DEF InstallErase, EraseSlot
  <2>3. stored.active = "B"
    BY <1>1, <2>1, <2>2 DEF FallbackVerifies, Verifies, FlashTypeOK, Slot
  <2>4. current \in {stored.active, stored.pending}
    BY <1>1, <2>1 DEF IInv, RunningIsKnown, NoSlot
  <2> QED
    BY <2>1, <2>3, <2>4
<1>5. CASE InstallProgram
  <2>1. pc = "program" /\ current = "A" /\ stored' = stored /\ ~Verifies("B")
    BY <1>3, <1>5 DEF InstallProgram, ProgramSlot, IInv, RunningIsKnown
  <2>2. \E content : slot' = [slot EXCEPT !["B"] = content]
    BY <1>2, <1>5, <2>1 DEF InstallProgram, ProgramSlot
  <2> QED
    BY <1>1, <2>1, <2>2 DEF FallbackVerifies, Verifies, FlashTypeOK, Slot
<1>6. ~(\E s \in Slot : CorruptSlot(s))
  BY <1>2 DEF CorruptSlot
<1> QED
  BY <1>3, <1>4, <1>5, <1>6, SlotChanges

\* A bootable fallback is lost only with damaged flash, or to a trial that
\* installs over it: no save, promotion, rollback, retry or reset loses it.
THEOREM FallbackAlwaysKept == Spec => FallbackKept
<1>1. IInv /\ ErasedFirst /\ [Next]_vars =>
        [(FallbackVerifies /\ ~FallbackVerifies')
           => (faults' # faults \/ (Ready("INSTALL_B") /\ current = stored.pending))]_vars
  <2> SUFFICES ASSUME IInv, ErasedFirst, Next, FallbackVerifies, ~FallbackVerifies',
                      faults' = faults
               PROVE  Ready("INSTALL_B") /\ current = stored.pending
    BY DEF vars
  <2>1. InstallProgram => ~Verifies("B")
    BY DEF ErasedFirst, InstallProgram
  <2> QED
    BY <2>1, FallbackStep
<1> QED
  BY <1>1, Invariance, AlwaysErasedFirst, PTL DEF Spec, FallbackKept
=============================================================================
