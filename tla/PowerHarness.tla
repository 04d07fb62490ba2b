---------------------------- MODULE PowerHarness ----------------------------
(***************************************************************************)
(* The power-cut harness of the test application on top of IapDevice: the  *)
(* commands POWER_INSTALL, POWER_CONFIRM and POWER_PAUSE_ON_BOOT stop the  *)
(* device at a named phase of an update, feeding the watchdog, until the   *)
(* tester cuts the power.                                                  *)
(*                                                                         *)
(* The phases inside the flash driver are reached through flags of         *)
(* stm32_iap_storage_t that a handler sets and the driver consumes when it *)
(* gets there.  Whatever erases, programs or saves next consumes them,     *)
(* also the handlers of the other commands.                                *)
(***************************************************************************)
EXTENDS IapDeviceRefinement

VARIABLES
  flags,     \* the pause flags of the driver
  job,       \* phase of the run_power_install in progress, or "NONE"
  stop,      \* where stm32_iap_power_cut_pause loops and what it reports
  leftover   \* auxiliary: a command that armed a pause ended with an error

benchVars == <<flags, job, stop, leftover>>
harnessVars == <<vars, benchVars>>

\* PAYLOAD stands for the three percentages.
InstallPhase == {"ERASE", "HEADER", "PAYLOAD", "BEFORE_PENDING", "PENDING_CONTROL", "FIRST_BOOT"}
Phase == InstallPhase \cup {"CONFIRM_CONTROL"}

\* In the erase of slot B, in its programming, between programming and mark,
\* inside the body of a control record, before the commit word of a record
\* that marks, confirms or rolls back, in the main loop of a slot.
Place == {"erase", "program", "candidate", "body", "pending", "confirm", "rollback"} \cup Slot

PowerCommand == {"POWER_INSTALL", "POWER_CONFIRM", "POWER_PAUSE"}

\* bytes: how much a program may write: 8 bytes, or some part of the payload
Clear == [erase |-> FALSE, bytes |-> "NONE", commit |-> FALSE, phase |-> "NONE"]
NoStop == [phase |-> "NONE", place |-> "NONE"]

Running == stop = NoStop

\* IapDevice's variables keep their types under the host's new commands too:
\* the host may replace such a command by an old one in any state.
HarnessTypeOK ==
  /\ TypeOK \/ command \in PowerCommand
  /\ flags \in [erase : BOOLEAN, bytes : {"NONE", "HEADER", "PAYLOAD"},
                commit : BOOLEAN, phase : Phase \cup {"NONE"}]
  /\ job \in IF pc \in {"program", "mark"} THEN InstallPhase \cup {"NONE"} ELSE {"NONE"}
  /\ stop \in [phase : Phase, place : Place] \cup {NoStop}
  /\ stop # NoStop => pc \in AppPc
  /\ leftover \in BOOLEAN
  /\ flags = Clear <=> flags.phase = "NONE"

HarnessInit ==
  /\ Init
  /\ flags = Clear /\ job = "NONE" /\ stop = NoStop /\ leftover = FALSE

-----------------------------------------------------------------------------
(***************************************************************************)
(* The driver.                                                             *)
(***************************************************************************)

\* Mutation: a boot leaves the flags of the driver alone.
KeptFlags == flags

\* stm32_iap_storage_init
ResetFlags == Clear

\* What a step leaves on the bench: the flags f, the install j in progress, and
\* whether it ended in an error.  A reset, in the step or after it, leaves a
\* fresh driver.
Bench(f, j, failed) ==
  /\ stop' = NoStop
  /\ \/ /\ pc' = "load"
        /\ flags' = ResetFlags /\ job' = "NONE" /\ leftover' = FALSE
     \/ /\ pc' # "load"
        /\ flags' = f /\ job' = j /\ leftover' = (leftover \/ failed)

\* stm32_iap_power_cut_pause: a loop only a reset ends, which also resets what
\* is left of the flags.
Stop(phase, place) ==
  /\ stop' = [phase |-> phase, place |-> place]
  /\ flags' = Clear
  /\ UNCHANGED <<stored, armed, faults, current, control, reason, feeding, mailbox, cuts,
                 trials, leftover>>

\* stm32_iap_storage_pause_after_first_erase, _pause_during_program: each sets
\* its own flag and the phase they share.
PauseAfterErase(f, p) == [f EXCEPT !.erase = TRUE, !.phase = p]
PauseDuringProgram(f, bytes, p) == [f EXCEPT !.bytes = bytes, !.phase = p]
PauseBeforeCommit(f, p) == [f EXCEPT !.commit = TRUE, !.phase = p]

\* Mutation: the sector erased is the other slot's too.
StopInEraseOverruns(f) ==
  /\ f.erase
  /\ slot' = [t \in Slot |-> NoImage]
  /\ Stop(f.phase, "erase")
  /\ UNCHANGED <<pc, job>>

\* flash_erase with the erase flag: the first sector, which holds the header,
\* is erased.
StopInErase(f) ==
  /\ f.erase
  /\ slot' = [slot EXCEPT !["B"] = NoImage]
  /\ Stop(f.phase, "erase")
  /\ UNCHANGED <<pc, job>>

\* program_words of a slot: eight bytes always come; a part of a payload comes
\* if it is this payload's, and may come if it is an earlier one's.  The last
\* word of the image may be the one that completes it.
ProgramPauses(f) == f.bytes = "HEADER" \/ job = "PAYLOAD"

ProgramFailsEarly(f) ==
  /\ faults' # faults
  /\ f.bytes = "HEADER" => slot'["B"] = NoImage

StopInProgram(f) ==
  /\ f.bytes # "NONE"
  /\ \E content \in {NoImage} \cup (IF f.bytes = "PAYLOAD" THEN {staging} ELSE {}) :
       slot' = [slot EXCEPT !["B"] = content]
  /\ Stop(f.phase, "program")
  /\ UNCHANGED <<pc, job>>

\* append_control_record: program_words of the record's body, where a part of
\* a payload may be more than the body has, then the pause before the commit.
\* The record is not valid, so the stored control is the old one.
SavePauses(f) == f.commit \/ f.bytes = "HEADER"

StopInSave(f, kind) ==
  /\ ~armed
  /\ \/ f.bytes # "NONE" /\ Stop(f.phase, "body")
     \/ f.commit /\ f.bytes # "HEADER" /\ Stop(f.phase, kind)
  /\ UNCHANGED <<slot, pc, job>>

-----------------------------------------------------------------------------
(***************************************************************************)
(* The other commands, with whatever flags are set.                        *)
(***************************************************************************)

\* The handler's next step saves a control of this kind.
Saves(kind) ==
  \/ /\ kind = "pending"
     /\ \/ pc = "mark" /\ stored.active # "B" /\ Verifies("B")
        \/ Ready("ACTIVATE") /\ Settled /\ Verifies(OtherSlot(current))
        \/ Ready("READ_TEST") /\ Settled /\ Verifies(OtherSlot(current))
  \/ kind = "confirm" /\ Ready("CONFIRM") /\ Verifies(current)
  \/ kind = "rollback" /\ pc = "probe"

SavesAny == \E kind \in {"pending", "confirm", "rollback"} : Saves(kind)

\* A step of IapDevice gets past a flag that is set only by failing earlier.
NotPaused ==
  /\ Ready("INSTALL_B") /\ flags.erase => pc' # "program"
  /\ pc = "program" /\ ProgramPauses(flags) => ProgramFailsEarly(flags)
  /\ SavesAny /\ ~armed /\ SavePauses(flags) => faults' # faults /\ stored' = stored

OrdinaryStep ==
  /\ Running /\ job = "NONE"
  /\ AppStep /\ NotPaused
  /\ Bench(flags, "NONE", FALSE)

OrdinaryStop ==
  /\ Running /\ job = "NONE"
  /\ \/ Ready("INSTALL_B") /\ current = "A" /\ staging \in Images /\ StopInErase(flags)
     \/ pc = "program" /\ StopInProgram(flags)
     \/ \E kind \in {"pending", "confirm", "rollback"} :
          Saves(kind) /\ StopInSave(flags, kind)

-----------------------------------------------------------------------------
(***************************************************************************)
(* run_power_install                                                       *)
(***************************************************************************)

\* configure_power_install_pause
Armed(p) ==
  CASE p = "ERASE" -> PauseAfterErase(flags, p)
    [] p \in {"HEADER", "PAYLOAD"} -> PauseDuringProgram(flags, p, p)
    [] OTHER -> flags

\* A bad size or phase arms nothing.  The candidate is checked only after the
\* pause was armed; of a header that makes no sense, no byte may be armed.
PowerInstallReject ==
  /\ Running /\ Ready("POWER_INSTALL")
  /\ Answer("NONE")
  /\ \/ Bench(flags, "NONE", FALSE)
     \/ /\ current = "A" /\ staging \notin Images
        /\ \E p \in InstallPhase : \E f \in {Armed(p)} \cup (IF p = "PAYLOAD" THEN {flags} ELSE {}) :
             Bench(f, "NONE", TRUE)
  /\ UNCHANGED <<coreVars, trials>>

PowerInstallErase ==
  /\ Running /\ Ready("POWER_INSTALL")
  /\ current = "A" /\ staging \in Images
  /\ \E p \in InstallPhase :
       \/ StopInErase(Armed(p))
       \/ /\ ~Armed(p).erase
          /\ EraseSlot("B", current, "OK") /\ Enter("program")
          /\ UNCHANGED <<mailbox, cuts, trials>>
          /\ Bench(Armed(p), p, FALSE)
       \/ /\ \E st \in Failure : EraseSlot("B", current, st) /\ AnswerUnlessReset("NONE")
          /\ UNCHANGED trials
          /\ Bench(Armed(p), "NONE", TRUE)

\* Mutation: nothing stops an install between programming and mark.
PowerInstallProgramUnstopped ==
  /\ Running /\ pc = "program" /\ job # "NONE"
  /\ \/ StopInProgram(flags)
     \/ /\ ~ProgramPauses(flags)
        /\ ProgramSlot("B", current, staging, "OK")
        /\ Enter("mark") /\ UNCHANGED <<mailbox, cuts, trials>>
        /\ Bench(flags, job, FALSE)
     \/ /\ \E st \in Failure :
             ProgramSlot("B", current, staging, st) /\ AnswerUnlessReset("NONE")
        /\ ProgramPauses(flags) => ProgramFailsEarly(flags)
        /\ UNCHANGED trials
        /\ Bench(flags, "NONE", TRUE)

PowerInstallProgram ==
  /\ Running /\ pc = "program" /\ job # "NONE"
  /\ \/ StopInProgram(flags)
     \/ /\ ~ProgramPauses(flags) /\ job # "BEFORE_PENDING"
        /\ ProgramSlot("B", current, staging, "OK")
        /\ Enter("mark") /\ UNCHANGED <<mailbox, cuts, trials>>
        /\ Bench(flags, job, FALSE)
     \/ /\ ~ProgramPauses(flags) /\ job = "BEFORE_PENDING"
        /\ staging \in Images /\ slot' = [slot EXCEPT !["B"] = staging]
        /\ pc' = "mark" /\ UNCHANGED job
        /\ Stop(job, "candidate")
     \/ /\ \E st \in Failure :
             ProgramSlot("B", current, staging, st) /\ AnswerUnlessReset("NONE")
        /\ ProgramPauses(flags) => ProgramFailsEarly(flags)
        /\ UNCHANGED trials
        /\ Bench(flags, "NONE", TRUE)

\* The pause before the commit is armed between the load and the mark.
PowerInstallMark ==
  /\ Running /\ pc = "mark" /\ job # "NONE"
  /\ LET f == IF job = "PENDING_CONTROL" THEN PauseBeforeCommit(flags, job) ELSE flags
         next == IF job = "FIRST_BOOT" THEN "POWER_PAUSE" ELSE "HOLD"
     IN \/ Saves("pending") /\ StopInSave(f, "pending")
        \/ /\ ~SavePauses(f)
           /\ MarkPending(stored, "B", "OK") /\ PostAndReset(next)
           /\ CountFromSave
           /\ Bench(f, "NONE", FALSE)
        \/ /\ \E st \in Failure : MarkPending(stored, "B", st) /\ AnswerUnlessReset("NONE")
           /\ SavePauses(f) => stored' = stored
           /\ CountFromSave
           /\ Bench(f, "NONE", TRUE)
        \/ /\ ReadFault /\ Answer("NONE") /\ UNCHANGED trials
           /\ Bench(flags, "NONE", TRUE)

-----------------------------------------------------------------------------
(***************************************************************************)
(* run_power_confirm, which never gets past the save, and POWER_PAUSE.     *)
(***************************************************************************)
PowerConfirm ==
  /\ Running /\ Ready("POWER_CONFIRM")
  /\ LET p == "CONFIRM_CONTROL"
         f == PauseBeforeCommit(flags, p)
     IN \/ /\ stored.pending = current /\ Verifies(current)
           /\ StopInSave(f, "confirm")
        \/ /\ stored.pending = current
           /\ \E st \in Failure : ConfirmCurrentImage(stored, current, st)
           /\ stored' = stored
           /\ AnswerUnlessReset("NONE") /\ UNCHANGED trials
           /\ Bench(f, "NONE", TRUE)
        \/ /\ stored.pending # current /\ UNCHANGED coreVars
           /\ Answer("NONE") /\ UNCHANGED trials
           /\ Bench(flags, "NONE", FALSE)
        \/ /\ ReadFault
           /\ Answer("NONE") /\ UNCHANGED trials
           /\ Bench(flags, "NONE", FALSE)

PowerPause ==
  /\ Running /\ Ready("POWER_PAUSE")
  /\ Stop("FIRST_BOOT", current)
  /\ UNCHANGED <<slot, pc, job>>

PowerStep ==
  \/ PowerInstallReject \/ PowerInstallErase \/ PowerInstallProgram \/ PowerInstallMark
  \/ PowerConfirm \/ PowerPause

-----------------------------------------------------------------------------
BenchBoot == BootStep /\ UNCHANGED benchVars

BenchFault ==
  /\ Running
  /\ BootReadFault \/ LoadFault
  /\ UNCHANGED benchVars

\* A stopped device is fed, whatever the application had decided.
BenchWatchdog == Running /\ WatchdogReset /\ Bench(Clear, "NONE", FALSE)

BenchPost ==
  /\ \/ \E cmd \in Command : HostPost(cmd)
     \/ /\ command' \in PowerCommand
        /\ staging' \in IF command' = "POWER_INSTALL" THEN Images \cup {NoImage} ELSE {staging}
        /\ UNCHANGED <<coreVars, cpu, cuts, trials>>
  /\ UNCHANGED benchVars

BenchReset == (WarmReset \/ PowerCut) /\ Bench(Clear, "NONE", FALSE)

BenchDecay == (\E s \in Slot : CorruptSlot(s)) /\ UNCHANGED benchVars

\* The tester reads power-cut-armed and cuts the supply.  The guide has this
\* cut for every stop, so it is not one of the cuts that MaxCuts bounds.
TesterCut ==
  /\ ~Running
  /\ Reset /\ command' = "NONE" /\ staging' = NoImage /\ UNCHANGED cuts
  /\ Bench(Clear, "NONE", FALSE)

HarnessNext ==
  \/ BenchBoot \/ OrdinaryStep \/ OrdinaryStop \/ PowerStep
  \/ BenchFault \/ BenchWatchdog \/ BenchPost \/ BenchReset \/ BenchDecay \/ TesterCut

HarnessSpec == HarnessInit /\ [][HarnessNext]_harnessVars

(***************************************************************************)
(* As in IapDevice, and the tester carries out the cut that the stop is    *)
(* for.                                                                    *)
(***************************************************************************)
FairHarnessSpec ==
  /\ HarnessSpec
  /\ WF_harnessVars(BenchBoot) /\ WF_harnessVars(BenchWatchdog)
  /\ WF_harnessVars(OrdinaryStep \/ OrdinaryStop \/ PowerStep)
  /\ WF_harnessVars(TesterCut)

-----------------------------------------------------------------------------
(***************************************************************************)
(* Properties.                                                             *)
(***************************************************************************)
\* examples/stm32f407/README.md: the table of phases and where they stop.
Told(phase) ==
  CASE phase = "ERASE" -> "erase"
    [] phase \in {"HEADER", "PAYLOAD"} -> "program"
    [] phase = "BEFORE_PENDING" -> "candidate"
    [] phase = "PENDING_CONTROL" -> "pending"
    [] phase = "CONFIRM_CONTROL" -> "confirm"

\* The phase a stopped device reports is the place it has stopped at.  The
\* main loop's stop is left out: the host may post its command at any time.
PauseMatches ==
  stop.phase \notin {"NONE", "FIRST_BOOT"} => stop.place = Told(stop.phase)

\* As long as every POWER_ command since the last reset got past the step it
\* was armed for, the table is right: nothing but an error after the arming
\* mixes up the flags, and what it leaves behind ends with the next reset.
StopsWhereTold == ~leftover => PauseMatches

\* An install that is told to stop never marks its image pending, not even
\* after an error or under flags an earlier command left behind.
StoppedInstallNeverMarks ==
  [][job \notin {"NONE", "FIRST_BOOT"} => stored' = stored]_harnessVars

\* The bench loses a bootable fallback only as the device does without it: to
\* damaged flash, or to a trial that installs over it; no stop and no cut does.
BenchKeepsFallback ==
  [][(FallbackVerifies /\ ~FallbackVerifies')
     => \/ faults' # faults
        \/ (Ready("INSTALL_B") \/ Ready("POWER_INSTALL")) /\ current = stored.pending]_harnessVars

\* Every stop is survived: once the tester cuts the power, an application runs
\* again, if the fallback was one that answers.  The flash does not fail.
FallbackAnswers == stored # NoControl /\ slot[stored.active] \in Responsive

StopRecovers == (~Running /\ FallbackAnswers) ~> (Running /\ pc \in AppPc)
=============================================================================
