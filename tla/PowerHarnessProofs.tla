------------------------- MODULE PowerHarnessProofs -------------------------
(***************************************************************************)
(* For any images, faults and cuts: a stop is where its phase says, an     *)
(* install that is told to stop never marks, no stop costs the fallback,   *)
(* and the device under the bench still implements the abstract update.    *)
(* The first two need to know which flags a handler can still find set     *)
(* when it gets to a step, which is BenchInv; the others that whatever the *)
(* bench adds keeps the invariant IInv of the device.                      *)
(***************************************************************************)
EXTENDS PowerHarness, IapRefinementProofs

FlagsTypeOK ==
  flags \in [erase : BOOLEAN, bytes : {"NONE", "HEADER", "PAYLOAD"},
             commit : BOOLEAN, phase : Phase \cup {"NONE"}]

\* The install that has reached the program step was not told to stop before;
\* one told to stop inside it still has its flag, or its phase is its flag.
JobFits ==
  /\ job # "NONE" => pc \in {"program", "mark"} /\ job \in InstallPhase
  /\ pc = "program" /\ Running => job # "ERASE" /\ (job = "HEADER" => flags.bytes = "HEADER")
  /\ pc = "mark" /\ Running => job \in {"NONE", "PENDING_CONTROL", "FIRST_BOOT"}

\* Where no armed pause was left behind, the only flags set are those of the
\* install in progress, in the step they are for.
FlagsFit ==
  ~leftover =>
    \/ flags = Clear
    \/ /\ pc = "program" /\ job \in {"HEADER", "PAYLOAD"}
       /\ flags = PauseDuringProgram(Clear, job, job)

BenchInv ==
  /\ FlagsTypeOK /\ leftover \in BOOLEAN
  /\ ~Running => pc \in AppPc
  /\ JobFits /\ FlagsFit /\ StopsWhereTold

\* The driver's own setters keep the flags' types.
LEMMA PausesTyped ==
  ASSUME FlagsTypeOK, NEW p \in Phase
  PROVE  LET F == [erase : BOOLEAN, bytes : {"NONE", "HEADER", "PAYLOAD"},
                   commit : BOOLEAN, phase : Phase \cup {"NONE"}]
         IN /\ PauseAfterErase(flags, p) \in F
            /\ \A bytes \in {"HEADER", "PAYLOAD"} : PauseDuringProgram(flags, bytes, p) \in F
            /\ PauseBeforeCommit(flags, p) \in F
            /\ Clear \in F
BY DEF FlagsTypeOK, PauseAfterErase, PauseDuringProgram, PauseBeforeCommit, Clear

\* What they set, and what they leave.
LEMMA PausesSet ==
  ASSUME FlagsTypeOK, NEW p
  PROVE  /\ PauseAfterErase(flags, p).erase = TRUE /\ PauseAfterErase(flags, p).phase = p
         /\ \A bytes : /\ PauseDuringProgram(flags, bytes, p).bytes = bytes
                        /\ PauseDuringProgram(flags, bytes, p).erase = flags.erase
BY DEF FlagsTypeOK, PauseAfterErase, PauseDuringProgram

\* A step that only goes on: outside an install, or with the flags it left.
LEMMA BenchEnds ==
  ASSUME BenchInv, NEW f, NEW j, NEW failed \in BOOLEAN, Bench(f, j, failed),
         f \in [erase : BOOLEAN, bytes : {"NONE", "HEADER", "PAYLOAD"},
                commit : BOOLEAN, phase : Phase \cup {"NONE"}],
         pc' # "load" => /\ j # "NONE" => pc' \in {"program", "mark"} /\ j \in InstallPhase
                         /\ pc' = "program" => j # "ERASE" /\ (j = "HEADER" => f.bytes = "HEADER")
                         /\ pc' = "mark" => j \in {"NONE", "PENDING_CONTROL", "FIRST_BOOT"},
         ~leftover /\ ~failed /\ pc' # "load" =>
           \/ f = Clear
           \/ /\ pc' = "program" /\ j \in {"HEADER", "PAYLOAD"}
              /\ f = PauseDuringProgram(Clear, j, j)
  PROVE  BenchInv'
<1>1. stop' = NoStop /\ Running'
  BY DEF Bench, Running
<1>2. StopsWhereTold'
  BY <1>1 DEF StopsWhereTold, PauseMatches, NoStop
<1>3. CASE pc' = "load"
  <2>1. flags' = Clear /\ job' = "NONE" /\ leftover' = FALSE
    BY <1>3 DEF Bench, ResetFlags
  <2>2. FlagsTypeOK'
    BY <2>1 DEF FlagsTypeOK, Clear
  <2> QED
    BY <1>1, <1>2, <1>3, <2>1, <2>2 DEF BenchInv, JobFits, FlagsFit
<1>4. CASE pc' # "load"
  <2>1. flags' = f /\ job' = j /\ leftover' = (leftover \/ failed)
    BY <1>4 DEF Bench
  <2>2. FlagsTypeOK' /\ leftover' \in BOOLEAN
    BY <2>1 DEF FlagsTypeOK, BenchInv
  <2>3. JobFits'
    BY <1>4, <2>1 DEF JobFits
  <2>4. FlagsFit'
    BY <1>4, <2>1 DEF FlagsFit
  <2> QED
    BY <1>1, <1>2, <2>2, <2>3, <2>4 DEF BenchInv
<1> QED
  BY <1>3, <1>4

\* A stop that is where it should be, if no pause was left behind.
LEMMA StopHolds ==
  ASSUME BenchInv, NEW phase, NEW place, Stop(phase, place), pc' \in AppPc,
         phase # "NONE" \/ place # "NONE",
         job' # "NONE" => pc' \in {"program", "mark"} /\ job' \in InstallPhase,
         ~leftover => phase = "FIRST_BOOT" \/ place = Told(phase)
  PROVE  BenchInv'
<1>1. stop' = [phase |-> phase, place |-> place] /\ flags' = Clear /\ leftover' = leftover
  BY DEF Stop
<1>2. stop'.phase = phase /\ stop'.place = place /\ ~Running'
  BY <1>1 DEF Running, NoStop
<1>3. FlagsTypeOK'
  BY <1>1 DEF FlagsTypeOK, Clear
<1>4. JobFits' /\ FlagsFit'
  BY <1>1, <1>2 DEF JobFits, FlagsFit
<1>5. StopsWhereTold'
  BY <1>1, <1>2 DEF StopsWhereTold, PauseMatches
<1> QED
  BY <1>1, <1>3, <1>4, <1>5 DEF BenchInv

-----------------------------------------------------------------------------
\* The other handlers find a flag set only after an error.
LEMMA OrdinaryKeeps ==
  ASSUME BenchInv, OrdinaryStep \/ OrdinaryStop
  PROVE  BenchInv'
<1>1. CASE OrdinaryStep
  <2>1. Running /\ job = "NONE" /\ Bench(flags, "NONE", FALSE)
    BY <1>1 DEF OrdinaryStep
  <2>2. ~leftover => flags = Clear
    BY <2>1 DEF BenchInv, FlagsFit
  <2> QED
    BY <2>1, <2>2, BenchEnds DEF BenchInv, FlagsTypeOK
<1>2. CASE OrdinaryStop
  <2>1. Running /\ job = "NONE" /\ (~leftover => flags = Clear)
    BY <1>2 DEF OrdinaryStop, BenchInv, FlagsFit
  <2>2. PICK place \in Place :
          /\ Stop(flags.phase, place) /\ pc' = pc /\ job' = job /\ pc \in AppPc
          /\ flags.erase \/ flags.bytes # "NONE" \/ flags.commit
    <3>1. CASE Ready("INSTALL_B") /\ StopInErase(flags)
      BY <3>1 DEF StopInErase, Ready, AppPc, Place
    <3>2. CASE pc = "program" /\ StopInProgram(flags)
      BY <3>2 DEF StopInProgram, AppPc, Place
    <3>3. ASSUME NEW kind \in {"pending", "confirm", "rollback"},
                 Saves(kind), StopInSave(flags, kind)
          PROVE  \E place \in Place :
                   /\ Stop(flags.phase, place) /\ pc' = pc /\ job' = job /\ pc \in AppPc
                   /\ flags.erase \/ flags.bytes # "NONE" \/ flags.commit
      <4>1. pc \in AppPc
        BY <3>3 DEF Saves, Ready, AppPc
      <4> QED
        BY <3>3, <4>1 DEF StopInSave, Place
    <3> QED
      BY <1>2, <3>1, <3>2, <3>3 DEF OrdinaryStop
  <2>3. leftover
    BY <2>1, <2>2 DEF Clear
  <2> QED
    BY <2>1, <2>2, <2>3, StopHolds DEF Place, Slot
<1> QED
  BY <1>1, <1>2

\* run_power_install refuses, or erases slot B.
LEMMA InstallBegins ==
  ASSUME BenchInv, PowerInstallReject \/ PowerInstallErase
  PROVE  BenchInv'
<1> DEFINE F == [erase : BOOLEAN, bytes : {"NONE", "HEADER", "PAYLOAD"},
                 commit : BOOLEAN, phase : Phase \cup {"NONE"}]
<1>1. /\ pc = "app" /\ Running /\ job = "NONE" /\ flags \in F
      /\ ~leftover => flags = Clear
  BY DEF PowerInstallReject, PowerInstallErase, Ready, BenchInv, JobFits, FlagsFit, FlagsTypeOK
<1>2. ASSUME NEW p \in InstallPhase
      PROVE  /\ Armed(p) \in F
             /\ p = "ERASE" => Armed(p).erase
             /\ p = "HEADER" => Armed(p).bytes = "HEADER"
             /\ ~leftover /\ Armed(p).erase => p = "ERASE" /\ Armed(p).phase = "ERASE"
             /\ ~leftover /\ p \notin {"ERASE", "HEADER", "PAYLOAD"} => Armed(p) = Clear
             /\ p \in {"HEADER", "PAYLOAD"} => Armed(p) = PauseDuringProgram(flags, p, p)
  <2>1. p \in Phase
    BY DEF Phase
  <2>2. CASE p = "ERASE"
    <3>1. Armed(p) = PauseAfterErase(flags, p)
      BY <2>2 DEF Armed
    <3>2. PauseAfterErase(flags, p) \in F
      BY <2>1, PausesTyped DEF BenchInv
    <3>3. PauseAfterErase(flags, p).erase = TRUE /\ PauseAfterErase(flags, p).phase = p
      BY PausesSet DEF BenchInv
    <3> QED
      BY <1>1, <2>2, <3>1, <3>2, <3>3
  <2>3. CASE p \in {"HEADER", "PAYLOAD"}
    <3>1. Armed(p) = PauseDuringProgram(flags, p, p)
      BY <2>3 DEF Armed
    <3>2. PauseDuringProgram(flags, p, p) \in F
      BY <2>1, <2>3, PausesTyped DEF BenchInv
    <3>3. /\ PauseDuringProgram(flags, p, p).bytes = p
          /\ PauseDuringProgram(flags, p, p).erase = flags.erase
      BY PausesSet DEF BenchInv
    <3>4. ~leftover => ~flags.erase
      BY <1>1 DEF Clear
    <3> QED
      BY <1>1, <2>3, <3>1, <3>2, <3>3, <3>4
  <2>4. CASE p \notin {"ERASE", "HEADER", "PAYLOAD"}
    <3>1. Armed(p) = flags
      BY <2>4 DEF Armed
    <3>2. ~leftover => ~flags.erase
      BY <1>1 DEF Clear
    <3> QED
      BY <1>1, <2>4, <3>1, <3>2
  <2> QED
    BY <2>2, <2>3, <2>4
<1>3. CASE PowerInstallReject
  <2>1. pc' = "app"
    BY <1>3 DEF PowerInstallReject, Answer, Enter
  <2>2. \/ Bench(flags, "NONE", FALSE)
        \/ \E p \in InstallPhase : \E f \in {Armed(p), flags} : Bench(f, "NONE", TRUE)
    BY <1>3 DEF PowerInstallReject
  <2> QED
    BY <1>1, <1>2, <2>1, <2>2, BenchEnds
<1>4. CASE PowerInstallErase
  <2>1. PICK p \in InstallPhase :
          \/ StopInErase(Armed(p))
          \/ ~Armed(p).erase /\ Enter("program") /\ Bench(Armed(p), p, FALSE)
          \/ AnswerUnlessReset("NONE") /\ Bench(Armed(p), "NONE", TRUE)
    BY <1>4 DEF PowerInstallErase
  <2>2. CASE StopInErase(Armed(p))
    <3>1. Armed(p).erase /\ Stop(Armed(p).phase, "erase") /\ pc' = pc /\ job' = job
      BY <2>2 DEF StopInErase
    <3>2. ~leftover => Told(Armed(p).phase) = "erase"
      BY <1>2, <3>1 DEF Told
    <3> QED
      BY <1>1, <3>1, <3>2, StopHolds DEF AppPc
  <2>3. CASE ~Armed(p).erase /\ Enter("program") /\ Bench(Armed(p), p, FALSE)
    <3>1. pc' = "program"
      BY <2>3 DEF Enter
    <3>2. p # "ERASE" /\ (p = "HEADER" => Armed(p).bytes = "HEADER") /\ Armed(p) \in F
      BY <1>2, <2>3
    <3>3. ~leftover => \/ Armed(p) = Clear
                       \/ /\ p \in {"HEADER", "PAYLOAD"}
                          /\ Armed(p) = PauseDuringProgram(Clear, p, p)
      BY <1>1, <1>2, <3>2
    <3> QED
      BY <2>3, <3>1, <3>2, <3>3, BenchEnds
  <2>4. CASE AnswerUnlessReset("NONE") /\ Bench(Armed(p), "NONE", TRUE)
    <3>1. pc' \in {"app", "load"}
      BY <2>4 DEF AnswerUnlessReset, Answer, Enter, Restart
    <3>2. Armed(p) \in F
      BY <1>2
    <3> QED
      BY <2>4, <3>1, <3>2, BenchEnds
  <2> QED
    BY <2>1, <2>2, <2>3, <2>4
<1> QED
  BY <1>3, <1>4

\* It programs slot B, and may stop inside or behind that.
LEMMA InstallPrograms ==
  ASSUME BenchInv, PowerInstallProgram
  PROVE  BenchInv'
<1>1. /\ pc = "program" /\ Running /\ job \in InstallPhase /\ job # "ERASE"
      /\ job = "HEADER" => flags.bytes = "HEADER"
      /\ FlagsTypeOK
  BY DEF PowerInstallProgram, BenchInv, JobFits
<1>2. CASE StopInProgram(flags)
  <2>1. flags.bytes # "NONE" /\ Stop(flags.phase, "program") /\ pc' = pc /\ job' = job
    BY <1>2 DEF StopInProgram
  <2>2. ~leftover => Told(flags.phase) = "program"
    <3> SUFFICES ASSUME ~leftover PROVE flags.phase \in {"HEADER", "PAYLOAD"}
      BY DEF Told
    <3>1. job \in {"HEADER", "PAYLOAD"} /\ flags = PauseDuringProgram(Clear, job, job)
      BY <2>1 DEF BenchInv, FlagsFit, Clear
    <3> QED
      BY <3>1 DEF PauseDuringProgram, Clear
  <2> QED
    BY <1>1, <2>1, <2>2, StopHolds DEF AppPc
<1>3. CASE /\ ~ProgramPauses(flags) /\ job # "BEFORE_PENDING"
           /\ Enter("mark") /\ Bench(flags, job, FALSE)
  <2>1. pc' = "mark" /\ job \in {"PENDING_CONTROL", "FIRST_BOOT"}
    BY <1>1, <1>3 DEF Enter, ProgramPauses, InstallPhase
  <2>2. ~leftover => flags = Clear
    BY <2>1 DEF BenchInv, FlagsFit
  <2> QED
    BY <1>1, <1>3, <2>1, <2>2, BenchEnds DEF FlagsTypeOK
<1>4. CASE job = "BEFORE_PENDING" /\ pc' = "mark" /\ job' = job /\ Stop(job, "candidate")
  BY <1>1, <1>4, StopHolds DEF AppPc, Told
<1>5. CASE AnswerUnlessReset("NONE") /\ Bench(flags, "NONE", TRUE)
  <2>1. pc' \in {"app", "load"}
    BY <1>5 DEF AnswerUnlessReset, Answer, Enter, Restart
  <2> QED
    BY <1>1, <1>5, <2>1, BenchEnds DEF FlagsTypeOK
<1> QED
  BY <1>2, <1>3, <1>4, <1>5 DEF PowerInstallProgram

\* It marks slot B, with the pause before the commit armed for PENDING_CONTROL.
LEMMA InstallMarks ==
  ASSUME BenchInv, PowerInstallMark
  PROVE  BenchInv' /\ (job # "FIRST_BOOT" => stored' = stored)
<1> DEFINE f == IF job = "PENDING_CONTROL" THEN PauseBeforeCommit(flags, job) ELSE flags
<1>1. /\ pc = "mark" /\ Running /\ job \in {"PENDING_CONTROL", "FIRST_BOOT"}
      /\ FlagsTypeOK /\ (~leftover => flags = Clear)
  BY DEF PowerInstallMark, BenchInv, JobFits, FlagsFit
<1>2. /\ f \in [erase : BOOLEAN, bytes : {"NONE", "HEADER", "PAYLOAD"},
                commit : BOOLEAN, phase : Phase \cup {"NONE"}]
      /\ job = "PENDING_CONTROL" => f.commit /\ f.phase = job
      /\ ~leftover => f.bytes = "NONE"
      /\ ~leftover /\ job # "PENDING_CONTROL" => ~f.commit
  <2>1. CASE job = "PENDING_CONTROL"
    <3>1. f = PauseBeforeCommit(flags, job) /\ job \in Phase
      BY <2>1 DEF Phase, InstallPhase
    <3> QED
      BY <1>1, <2>1, <3>1, PausesTyped DEF PauseBeforeCommit, FlagsTypeOK, Clear
  <2>2. CASE job # "PENDING_CONTROL"
    BY <1>1, <2>2 DEF FlagsTypeOK, Clear
  <2> QED
    BY <2>1, <2>2
<1>3. CASE StopInSave(f, "pending")
  <2>1. PICK place \in {"body", "pending"} :
          /\ Stop(f.phase, place) /\ pc' = pc /\ job' = job
          /\ place = "body" => f.bytes # "NONE"
          /\ place = "pending" => f.commit
    BY <1>3 DEF StopInSave
  <2>2. ~leftover => Told(f.phase) = place
    BY <1>1, <1>2, <2>1 DEF Told
  <2>3. stored' = stored
    BY <2>1 DEF Stop
  <2>4. job \in InstallPhase
    BY <1>1 DEF InstallPhase
  <2> QED
    BY <1>1, <2>1, <2>2, <2>3, <2>4, StopHolds DEF AppPc
<1>4. CASE ~SavePauses(f) /\ Restart /\ Bench(f, "NONE", FALSE)
  <2>1. pc' = "load" /\ job = "FIRST_BOOT"
    BY <1>1, <1>2, <1>4 DEF Restart, SavePauses
  <2> QED
    BY <1>2, <1>4, <2>1, BenchEnds
<1>5. CASE /\ AnswerUnlessReset("NONE") /\ Bench(f, "NONE", TRUE)
           /\ SavePauses(f) => stored' = stored
  <2>1. pc' \in {"app", "load"}
    BY <1>5 DEF AnswerUnlessReset, Answer, Enter, Restart
  <2>2. job # "FIRST_BOOT" => stored' = stored
    BY <1>1, <1>2, <1>5 DEF SavePauses
  <2> QED
    BY <1>2, <1>5, <2>1, <2>2, BenchEnds
<1>6. CASE ReadFault /\ Answer("NONE") /\ Bench(flags, "NONE", TRUE)
  <2>1. pc' = "app" /\ stored' = stored
    BY <1>6 DEF Answer, Enter, ReadFault
  <2> QED
    BY <1>1, <1>6, <2>1, BenchEnds DEF FlagsTypeOK
<1> QED
  BY <1>3, <1>4, <1>5, <1>6 DEF PowerInstallMark, PostAndReset

\* The confirm that never gets past its save, and the stop in the main loop.
LEMMA ConfirmStops ==
  ASSUME BenchInv, PowerConfirm \/ PowerPause
  PROVE  BenchInv'
<1> DEFINE f == PauseBeforeCommit(flags, "CONFIRM_CONTROL")
<1>1. /\ pc = "app" /\ Running /\ job = "NONE" /\ FlagsTypeOK
      /\ ~leftover => flags = Clear
  BY DEF PowerConfirm, PowerPause, Ready, BenchInv, JobFits, FlagsFit
<1>2. /\ f \in [erase : BOOLEAN, bytes : {"NONE", "HEADER", "PAYLOAD"},
                commit : BOOLEAN, phase : Phase \cup {"NONE"}]
      /\ f.phase = "CONFIRM_CONTROL" /\ (~leftover => f.bytes = "NONE")
  <2>1. "CONFIRM_CONTROL" \in Phase
    BY DEF Phase
  <2> QED
    BY <1>1, <2>1, PausesTyped DEF PauseBeforeCommit, FlagsTypeOK, Clear
<1>3. CASE PowerPause
  BY <1>1, <1>3, StopHolds DEF PowerPause, AppPc
<1>4. CASE StopInSave(f, "confirm")
  <2>1. PICK place \in {"body", "confirm"} :
          /\ Stop(f.phase, place) /\ pc' = pc /\ job' = job
          /\ place = "body" => f.bytes # "NONE"
    BY <1>4 DEF StopInSave
  <2>2. ~leftover => Told(f.phase) = place
    BY <1>2, <2>1 DEF Told
  <2> QED
    BY <1>1, <2>1, <2>2, StopHolds DEF AppPc
<1>5. CASE AnswerUnlessReset("NONE") /\ Bench(f, "NONE", TRUE)
  <2>1. pc' \in {"app", "load"}
    BY <1>5 DEF AnswerUnlessReset, Answer, Enter, Restart
  <2> QED
    BY <1>2, <1>5, <2>1, BenchEnds
<1>6. CASE Answer("NONE") /\ Bench(flags, "NONE", FALSE)
  <2>1. pc' = "app"
    BY <1>6 DEF Answer, Enter
  <2> QED
    BY <1>1, <1>6, <2>1, BenchEnds DEF FlagsTypeOK
<1> QED
  BY <1>3, <1>4, <1>5, <1>6 DEF PowerConfirm

\* The boot loader, the faults, the host and the resets.
LEMMA SurroundingsKeep ==
  ASSUME BenchInv,
         BenchBoot \/ BenchFault \/ BenchWatchdog \/ BenchPost \/ BenchReset \/ BenchDecay
           \/ TesterCut
  PROVE  BenchInv'
<1>1. FlagsTypeOK /\ (Running \/ pc \in AppPc)
  BY DEF BenchInv
<1>2. CASE BenchBoot
  <2>1. pc \in {"load", "select", "jump"} /\ pc' \notin {"program", "mark"}
        /\ UNCHANGED benchVars
    BY <1>2 DEF BenchBoot, BootStep, BootLoad, BootDefault, BootTrial, BootRollback, BootActive,
                BootJump, Selected, Recover, Enter
  <2>2. Running /\ job = "NONE" /\ (~leftover => flags = Clear)
    BY <1>1, <2>1 DEF AppPc, BenchInv, JobFits, FlagsFit
  <2> QED
    BY <2>1, <2>2 DEF benchVars, BenchInv, FlagsTypeOK, Running, JobFits, FlagsFit, StopsWhereTold,
                      PauseMatches
<1>3. CASE BenchFault
  <2>1. Running /\ pc \in {"load", "select", "jump", "app"} /\ pc' \in {"recovery", "app"}
        /\ UNCHANGED benchVars
    BY <1>3 DEF BenchFault, BootReadFault, LoadFault, Recover, Answer, Enter, BootPc
  <2>2. job = "NONE" /\ (~leftover => flags = Clear)
    BY <2>1 DEF BenchInv, JobFits, FlagsFit
  <2> QED
    BY <2>1, <2>2 DEF benchVars, BenchInv, FlagsTypeOK, Running, JobFits, FlagsFit, StopsWhereTold,
                      PauseMatches
<1>4. CASE BenchWatchdog \/ BenchReset \/ TesterCut
  <2>1. pc' = "load" /\ Bench(Clear, "NONE", FALSE)
    BY <1>4 DEF BenchWatchdog, BenchReset, TesterCut, WatchdogReset, WarmReset, PowerCut, Reset,
                Restart
  <2>2. Clear \in [erase : BOOLEAN, bytes : {"NONE", "HEADER", "PAYLOAD"},
                   commit : BOOLEAN, phase : Phase \cup {"NONE"}]
    BY DEF Clear
  <2> QED
    BY <2>1, <2>2, BenchEnds
<1>5. CASE BenchPost \/ BenchDecay
  <2>1. pc' = pc /\ UNCHANGED benchVars
    BY <1>5 DEF BenchPost, BenchDecay, HostPost, CorruptSlot, cpu
  <2> QED
    BY <2>1 DEF benchVars, BenchInv, FlagsTypeOK, Running, JobFits, FlagsFit, StopsWhereTold,
                PauseMatches
<1> QED
  BY <1>2, <1>3, <1>4, <1>5

-----------------------------------------------------------------------------
\* The invariant is inductive.
THEOREM BenchInvariance == HarnessSpec => []BenchInv
<1>1. HarnessInit => BenchInv
  <2> SUFFICES ASSUME HarnessInit PROVE BenchInv
    OBVIOUS
  <2>1. flags = Clear /\ job = "NONE" /\ stop = NoStop /\ leftover = FALSE /\ pc = "load"
    BY DEF HarnessInit, Init
  <2>2. FlagsTypeOK
    BY <2>1 DEF FlagsTypeOK, Clear
  <2>3. JobFits /\ FlagsFit /\ Running
    BY <2>1 DEF JobFits, FlagsFit, Running
  <2>4. StopsWhereTold
    BY <2>1 DEF StopsWhereTold, PauseMatches, NoStop
  <2> QED
    BY <2>1, <2>2, <2>3, <2>4 DEF BenchInv
<1>2. BenchInv /\ [HarnessNext]_harnessVars => BenchInv'
  <2> SUFFICES ASSUME BenchInv, [HarnessNext]_harnessVars PROVE BenchInv'
    OBVIOUS
  <2>1. CASE HarnessNext
    BY <2>1, OrdinaryKeeps, InstallBegins, InstallPrograms, InstallMarks, ConfirmStops,
       SurroundingsKeep DEF HarnessNext, PowerStep
  <2>2. CASE UNCHANGED harnessVars
    BY <2>2 DEF harnessVars, vars, cpu, benchVars, BenchInv, FlagsTypeOK, Running, JobFits,
                FlagsFit, StopsWhereTold, PauseMatches
  <2> QED
    BY <2>1, <2>2
<1> QED
  BY <1>1, <1>2, PTL DEF HarnessSpec

\* Without an error after the arming, the phase a stop reports is where it stops.
THEOREM AlwaysStopsWhereTold == HarnessSpec => []StopsWhereTold
BY BenchInvariance, PTL DEF BenchInv

\* An install told to stop changes no control, whatever flags it finds set.
THEOREM StopsBeforeMark == HarnessSpec => StoppedInstallNeverMarks
<1>1. BenchInv /\ [HarnessNext]_harnessVars =>
        [job \notin {"NONE", "FIRST_BOOT"} => stored' = stored]_harnessVars
  <2> SUFFICES ASSUME BenchInv, HarnessNext, job \notin {"NONE", "FIRST_BOOT"}
               PROVE  stored' = stored
    OBVIOUS
  <2>1. pc \in {"program", "mark"}
    BY DEF BenchInv, JobFits
  <2>2. CASE PowerInstallMark
    BY <2>2, InstallMarks
  <2>3. CASE PowerInstallProgram
    <3>1. ASSUME NEW st, ProgramSlot("B", current, staging, st) PROVE stored' = stored
      BY <3>1 DEF ProgramSlot
    <3> QED
      BY <2>3, <3>1 DEF PowerInstallProgram, StopInProgram, Stop
  <2>4. CASE BenchWatchdog \/ BenchPost \/ BenchReset \/ BenchDecay \/ TesterCut
    BY <2>4 DEF BenchWatchdog, BenchPost, BenchReset, BenchDecay, TesterCut, WatchdogReset,
                HostPost, WarmReset, PowerCut, CorruptSlot, Reset, coreVars
  <2>5. ~(BenchBoot \/ BenchFault \/ OrdinaryStep \/ OrdinaryStop
            \/ PowerInstallReject \/ PowerInstallErase \/ PowerConfirm \/ PowerPause)
    BY <2>1 DEF BenchBoot, BootStep, BootLoad, BootDefault, BootTrial, BootRollback, BootActive,
                BootJump, BenchFault, BootReadFault, BootPc, LoadFault, OrdinaryStep,
                OrdinaryStop, PowerInstallReject, PowerInstallErase, PowerConfirm, PowerPause,
                Ready
  <2> QED
    BY <2>2, <2>3, <2>4, <2>5 DEF HarnessNext, PowerStep
<1> QED
  BY <1>1, BenchInvariance, PTL DEF HarnessSpec, StoppedInstallNeverMarks

-----------------------------------------------------------------------------
(***************************************************************************)
(* The device under the bench: IapDevice's invariant, from which the       *)
(* refinement of the abstract update follows for the bench too.            *)
(***************************************************************************)

\* A step that may touch slot B: the erase of an install, or the programming
\* after it.
TouchesB ==
  /\ current = "A" /\ Running
  /\ Ready("INSTALL_B") \/ Ready("POWER_INSTALL") \/ pc = "program"

\* A stop: at most slot B has new content, and then slot A is running.
Paused ==
  /\ pc \in AppPc /\ ~Running'
  /\ pc' = pc \/ (pc = "program" /\ pc' = "mark")
  /\ UNCHANGED <<stored, armed, faults, current, control, reason, feeding, mailbox, cuts, trials>>
  /\ \/ slot' = slot
     \/ /\ TouchesB
        /\ \E content \in Images \cup {NoImage} : slot' = [slot EXCEPT !["B"] = content]

\* Commands of the bench, posted like the others.
PostsPower ==
  /\ command' \in PowerCommand /\ staging' \in Images \cup {NoImage}
  /\ UNCHANGED <<coreVars, cpu, cuts, trials>>

\* A cut the tester makes; it is not counted in MaxCuts.
CutByTester == Reset /\ staging' = NoImage /\ UNCHANGED cuts

\* Whatever stops the device, in a handler of its own or in another.
LEMMA StopsPause ==
  ASSUME IInv, Running, NEW f,
         \/ /\ Ready("INSTALL_B") \/ Ready("POWER_INSTALL")
            /\ current = "A" /\ StopInErase(f)
         \/ pc = "program" /\ StopInProgram(f)
         \/ pc \in AppPc /\ \E kind \in Place : StopInSave(f, kind)
         \/ PowerPause
  PROVE  Paused
<1>1. staging \in Images \cup {NoImage}
  BY DEF IInv, BoardTypeOK
<1>2. ASSUME NEW phase, NEW place \in Place, Stop(phase, place)
      PROVE  ~Running'
  <2>1. stop'.place = place /\ place # "NONE"
    BY <1>2 DEF Stop, Place, Slot
  <2> QED
    BY <2>1 DEF Running, NoStop
<1>3. CASE /\ Ready("INSTALL_B") \/ Ready("POWER_INSTALL")
           /\ current = "A" /\ StopInErase(f)
  <2>1. ~Running'
    BY <1>2, <1>3 DEF StopInErase, Place
  <2> QED
    BY <1>3, <2>1 DEF StopInErase, Stop, Paused, TouchesB, Ready, AppPc
<1>4. CASE pc = "program" /\ StopInProgram(f)
  <2>1. current = "A" /\ ~Running'
    BY <1>2, <1>4 DEF StopInProgram, Place, IInv, RunningIsKnown
  <2> QED
    BY <1>1, <1>4, <2>1 DEF StopInProgram, Stop, Paused, TouchesB, AppPc
<1>5. CASE pc \in AppPc /\ \E kind \in Place : StopInSave(f, kind)
  <2>1. ~Running'
    BY <1>2, <1>5 DEF StopInSave, Place
  <2> QED
    BY <1>5, <2>1 DEF StopInSave, Stop, Paused
<1>6. CASE PowerPause
  <2>1. current \in Slot /\ Slot \subseteq Place
    BY <1>6, InvFacts DEF PowerPause, Ready, AppPc, Place
  <2>2. ~Running'
    BY <1>2, <1>6, <2>1 DEF PowerPause
  <2> QED
    BY <1>6, <2>2 DEF PowerPause, Ready, Stop, Paused, AppPc
<1> QED
  BY <1>3, <1>4, <1>5, <1>6

\* Every step of the bench is one of the device, a stop, one of the handlers
\* of run_power_install and run_power_confirm, a post or the tester's cut.
LEMMA BenchSteps ==
  ASSUME IInv, HarnessNext
  PROVE  \/ Next /\ (InstallProgram /\ slot' # slot => Running)
         \/ Paused \/ PostsPower \/ CutByTester
         \/ PowerInstallReject \/ PowerInstallErase \/ PowerInstallProgram
         \/ PowerInstallMark \/ PowerConfirm
<1>1. staging \in Images \cup {NoImage}
  BY DEF IInv, BoardTypeOK
<1>2. CASE OrdinaryStep
  BY <1>2 DEF OrdinaryStep, Next
<1>3. CASE BenchBoot \/ BenchFault \/ BenchWatchdog \/ BenchReset \/ BenchDecay
  <2>1. Next
    BY <1>3 DEF BenchBoot, BenchFault, BenchWatchdog, BenchReset, BenchDecay, Next, Environment
  <2>2. InstallProgram => slot' = slot \/ Running
    <3>1. CASE BenchBoot
      BY <3>1 DEF BenchBoot, BootStep, BootLoad, BootDefault, BootTrial, BootRollback, BootActive,
                  BootJump, InstallProgram
    <3>2. CASE BenchDecay
      BY <3>2 DEF BenchDecay, CorruptSlot, cpu, InstallProgram, Enter, AnswerUnlessReset, Answer,
                  Restart
    <3>3. CASE BenchReset
      BY <3>3 DEF BenchReset, WarmReset, PowerCut, Reset
    <3> QED
      BY <1>3, <3>1, <3>2, <3>3 DEF BenchFault, BenchWatchdog
  <2> QED
    BY <2>1, <2>2
<1>4. CASE BenchPost
  <2>1. CASE \E cmd \in Command : HostPost(cmd)
    BY <2>1 DEF Next, Environment, HostPost, coreVars
  <2> QED
    BY <1>1, <1>4, <2>1 DEF BenchPost, PostsPower
<1>5. CASE TesterCut
  BY <1>5 DEF TesterCut, CutByTester
<1>6. CASE OrdinaryStop
  <2>1. ASSUME NEW kind, Saves(kind) PROVE pc \in AppPc
    BY <2>1 DEF Saves, Ready, AppPc
  <2> QED
    BY <1>6, <2>1, StopsPause DEF OrdinaryStop, Place
<1>7. CASE PowerPause
  BY <1>7, StopsPause DEF PowerPause
<1> QED
  BY <1>2, <1>3, <1>4, <1>5, <1>6, <1>7 DEF HarnessNext, PowerStep

\* A stop keeps the invariant.
LEMMA PausedKeeps ==
  ASSUME IInv, Paused
  PROVE  IInv'
<1>1. /\ FlashTypeOK /\ CpuTypeOK /\ stored # NoControl /\ current \in Slot
      /\ pc \in AppPc /\ pc' \in AppPc
  BY InvFacts DEF Paused, AppPc
<1>2. slot' \in [Slot -> Images \cup {NoImage}]
  BY <1>1 DEF Paused, FlashTypeOK
<1>3. BoardTypeOK'
  BY <1>1, <1>2 DEF IInv, BoardTypeOK, Paused, mailbox, AppPc, Pc, BootPc
<1>4. StoredSound' /\ CopyCoherent' /\ EntersVerified' /\ LastResort'
  BY <1>1, <1>3
  DEF IInv, Paused, StoredSound, CopyCoherent, EntersVerified, LastResort, BoardTypeOK, AppPc
<1>5. TrialBudget' /\ RunningIsKnown'
  BY <1>1 DEF IInv, Paused, TrialBudget, TrialPending, RunningIsKnown, AppPc
<1> QED
  BY <1>3, <1>4, <1>5 DEF IInv

\* A post and the tester's cut do too.
LEMMA SurroundingsKeepDevice ==
  ASSUME IInv, PostsPower \/ CutByTester
  PROVE  IInv'
<1>1. CASE PostsPower
  <2>1. BoardTypeOK'
    BY <1>1 DEF IInv, BoardTypeOK, PostsPower, coreVars, cpu
  <2> QED
    BY <1>1, <2>1
    DEF IInv, PostsPower, coreVars, cpu, CopyCoherent, StoredSound, TrialBudget, TrialPending,
        RunningIsKnown, EntersVerified, Verifies, LastResort, FallbackVerifies
<1>2. CASE CutByTester
  <2>1. CpuTypeOK'
    BY <1>2, InvFacts DEF CutByTester, Reset, Restart, CpuTypeOK, Pc, AppPc, BootPc
  <2> QED
    BY <1>2, <2>1, ResetKeeps DEF CutByTester
<1> QED
  BY <1>1, <1>2

\* A handler of the bench that ends as the others do.
LEMMA PowerEnds ==
  ASSUME IInv, pc \in AppPc, TrialKept, NEW cmd,
         Answer(cmd) \/ AnswerUnlessReset(cmd) \/ PostAndReset(cmd)
  PROVE  IInv' /\ HandlerLeaves
BY InvFacts, HandlerEnd, HandlerKeeps DEF HandlerLeaves, AppPc

\* run_power_install's erase, without the bench around it.
LEMMA InstallErases ==
  ASSUME IInv, PowerInstallErase
  PROVE  /\ Ready("POWER_INSTALL") /\ current = "A" /\ Running
         /\ \/ Paused
            \/ /\ trials' = trials
               /\ \E st : /\ EraseSlot("B", "A", st)
                          /\ \/ st = "OK" /\ Enter("program") /\ UNCHANGED <<mailbox, cuts>>
                             \/ st # "OK" /\ AnswerUnlessReset("NONE")
<1>1. Ready("POWER_INSTALL") /\ current = "A" /\ Running
  BY DEF PowerInstallErase
<1>2. CASE \E f : StopInErase(f)
  BY <1>1, <1>2, StopsPause
<1>3. CASE ~\E f : StopInErase(f)
  BY <1>1, <1>3 DEF PowerInstallErase, Failure
<1> QED
  BY <1>1, <1>2, <1>3

\* Its programming step likewise.
LEMMA InstallWrites ==
  ASSUME IInv, PowerInstallProgram
  PROVE  /\ pc = "program" /\ current = "A" /\ Running
         /\ \/ Paused
            \/ /\ trials' = trials
               /\ \E st : /\ ProgramSlot("B", "A", staging, st)
                          /\ \/ Enter("mark") /\ UNCHANGED <<mailbox, cuts>>
                             \/ AnswerUnlessReset("NONE")
<1>1. pc = "program" /\ current = "A" /\ Running
  BY DEF PowerInstallProgram, IInv, RunningIsKnown
<1>2. CASE StopInProgram(flags)
  BY <1>1, <1>2, StopsPause
<1>3. ASSUME NEW phase, Stop(phase, "candidate") PROVE ~Running'
  <2>1. stop'.place = "candidate"
    BY <1>3 DEF Stop
  <2> QED
    BY <2>1 DEF Running, NoStop
<1>4. CASE ~StopInProgram(flags)
  BY <1>1, <1>3, <1>4 DEF PowerInstallProgram, Stop, Paused, TouchesB, AppPc
<1> QED
  BY <1>1, <1>2, <1>4

\* Its mark, which marks the slot the application does not run from.
LEMMA InstallMarksSlotB ==
  ASSUME IInv, PowerInstallMark
  PROVE  /\ pc = "mark" /\ current = "A"
         /\ \/ Paused
            \/ ReadFault /\ Answer("NONE") /\ UNCHANGED trials
            \/ /\ CountFromSave
               /\ \E st, cmd : /\ MarkPending(stored, "B", st)
                               /\ PostAndReset(cmd) \/ AnswerUnlessReset(cmd)
<1> DEFINE f == IF job = "PENDING_CONTROL" THEN PauseBeforeCommit(flags, job) ELSE flags
<1>1. pc = "mark" /\ current = "A" /\ Running
  BY DEF PowerInstallMark, IInv, RunningIsKnown
<1>2. CASE StopInSave(f, "pending")
  <2> HIDE DEF f
  <2> QED
    BY <1>1, <1>2, StopsPause DEF AppPc, Place
<1>3. CASE ~StopInSave(f, "pending")
  BY <1>1, <1>3 DEF PowerInstallMark
<1> QED
  BY <1>1, <1>2, <1>3

\* run_power_confirm stops, fails without a trace, or has nothing to confirm.
LEMMA ConfirmEffect ==
  ASSUME IInv, PowerConfirm
  PROVE  \/ Paused
         \/ /\ pc = "app" /\ stored' = stored /\ slot' = slot /\ FlashTypeOK' /\ trials' = trials
            /\ Answer("NONE") \/ AnswerUnlessReset("NONE")
<1> DEFINE f == PauseBeforeCommit(flags, "CONFIRM_CONTROL")
<1>1. /\ pc = "app" /\ Running /\ FlashTypeOK /\ Sound(stored) /\ current \in Slot
  BY InvFacts DEF PowerConfirm, Ready, AppPc
<1>2. CASE StopInSave(f, "confirm")
  <2> HIDE DEF f
  <2> QED
    BY <1>1, <1>2, StopsPause DEF AppPc, Place
<1>3. CASE \E st : /\ ConfirmCurrentImage(stored, current, st) /\ stored' = stored
                   /\ AnswerUnlessReset("NONE") /\ UNCHANGED trials
  BY <1>1, <1>3, ConfirmOutcome
<1>4. CASE (UNCHANGED coreVars \/ ReadFault) /\ Answer("NONE") /\ UNCHANGED trials
  BY <1>1, <1>4, MaxFaultsAssumption DEF coreVars, ReadFault, Fault, FlashTypeOK
<1> QED
  BY <1>1, <1>2, <1>3, <1>4 DEF PowerConfirm

\* The handlers of the bench keep the invariant and are steps of the abstract
\* update: a stop or an error is invisible or a Rewrite, the mark is Stage.
LEMMA PowerHandlersKeep ==
  ASSUME IInv,
         \/ PowerInstallReject \/ PowerInstallErase \/ PowerInstallProgram
         \/ PowerInstallMark \/ PowerConfirm \/ Paused
  PROVE  IInv' /\ AbstractStep
<1>1. FlashTypeOK /\ staging \in Images \cup {NoImage}
  BY InvFacts DEF IInv, BoardTypeOK
<1>2. CASE Paused
  <2>1. IInv'
    BY <1>2, PausedKeeps
  <2>2. pc \in AppPc /\ HandlerLeaves /\ stored' = stored
    BY <1>2 DEF Paused, HandlerLeaves, AppPc
  <2> QED
    BY <1>2, <2>1, <2>2, HandlerQuiet, RewriteMaps DEF Paused, TouchesB
<1>3. ASSUME pc \in AppPc, stored' = stored, slot' = slot, FlashTypeOK', trials' = trials,
             Answer("NONE") \/ AnswerUnlessReset("NONE")
      PROVE  IInv' /\ AbstractStep
  BY <1>3, NothingSaved, PowerEnds, HandlerQuiet
<1>4. CASE PowerInstallReject
  BY <1>1, <1>3, <1>4 DEF PowerInstallReject, Ready, AppPc, coreVars, FlashTypeOK
<1>5. CASE PowerConfirm
  BY <1>2, <1>3, <1>5, ConfirmEffect DEF AppPc
<1>6. ASSUME pc \in AppPc, current = "A", trials' = trials, NEW st, NEW where \in {"program", "mark"},
             EraseSlot("B", "A", st) \/ ProgramSlot("B", "A", staging, st),
             \/ Enter(where) /\ UNCHANGED <<mailbox, cuts>>
             \/ AnswerUnlessReset("NONE")
      PROVE  IInv' /\ AbstractStep
  <2>1. FlashTypeOK' /\ stored' = stored
    BY <1>1, <1>6, CandidateOutcome
  <2>2. TrialKept
    BY <1>6, <2>1, NothingSaved
  <2>3. IInv' /\ HandlerLeaves
    <3>1. CASE Enter(where) /\ UNCHANGED <<mailbox, cuts>>
      BY <1>6, <2>1, <3>1, InstallKeeps DEF HandlerLeaves, Enter, AppPc
    <3>2. CASE AnswerUnlessReset("NONE")
      BY <1>6, <2>2, <3>2, PowerEnds
    <3> QED
      BY <1>6, <3>1, <3>2
  <2>4. slot' = slot \/ \E content : slot' = [slot EXCEPT !["B"] = content]
    BY <1>6 DEF EraseSlot, ProgramSlot
  <2> QED
    BY <1>6, <2>1, <2>3, <2>4, HandlerQuiet, RewriteMaps
<1>7. CASE PowerInstallErase
  <2>1. pc \in AppPc
    BY <1>7, InstallErases DEF Ready, AppPc
  <2> QED
    BY <1>2, <1>6, <1>7, <2>1, InstallErases
<1>8. CASE PowerInstallProgram
  <2>1. pc \in AppPc
    BY <1>8, InstallWrites DEF AppPc
  <2> QED
    BY <1>2, <1>6, <1>8, <2>1, InstallWrites
<1>9. CASE PowerInstallMark
  <2>1. pc \in AppPc /\ current = "A" /\ "B" \in Slot /\ "B" # current
    BY <1>9, InstallMarksSlotB DEF AppPc, Slot
  <2>2. CASE ReadFault /\ Answer("NONE") /\ UNCHANGED trials
    BY <1>1, <1>3, <2>1, <2>2, MaxFaultsAssumption DEF ReadFault, Fault, FlashTypeOK
  <2>3. ASSUME CountFromSave, NEW st, NEW cmd, MarkPending(stored, "B", st),
               PostAndReset(cmd) \/ AnswerUnlessReset(cmd)
        PROVE  IInv' /\ AbstractStep
    <3>1. IInv' /\ HandlerLeaves
      BY <2>1, <2>3, MarkSaved, PowerEnds
    <3> QED
      BY <2>1, <2>3, <3>1, MarkMaps
  <2> QED
    BY <1>2, <1>9, <2>2, <2>3, InstallMarksSlotB
<1> QED
  BY <1>2, <1>4, <1>5, <1>7, <1>8, <1>9

\* So every step does, and what the bench adds to the device's own steps
\* changes nothing the abstract update sees but by its rules.
LEMMA BenchStepMaps ==
  ASSUME IInv, [HarnessNext]_harnessVars
  PROVE  IInv' /\ AbstractStep
<1>1. CASE [Next]_vars
  BY <1>1, NextMaps, NextKeeps
<1>2. CASE PostsPower
  <2>1. /\ Meaning' = Meaning /\ SoundSlots' = SoundSlots
        /\ Executing' = Executing /\ Charged' = Charged
    BY <1>2 DEF PostsPower, coreVars, cpu, Meaning, SoundSlots, Verifies, Executing, Charged
  <2>2. AbstractStep
    BY <2>1, Quiet
  <2> QED
    BY <1>2, <2>2, SurroundingsKeepDevice
<1>3. CASE CutByTester
  <2>1. AbstractStep
    BY <1>3, ResetMaps DEF CutByTester
  <2> QED
    BY <1>3, <2>1, SurroundingsKeepDevice
<1> QED
  BY <1>1, <1>2, <1>3, BenchSteps, PowerHandlersKeep DEF harnessVars

\* The invariant of the device holds on the bench.
THEOREM DeviceInvariance == HarnessSpec => []IInv
<1>1. HarnessInit => IInv
  BY InitKeeps DEF HarnessInit
<1>2. IInv /\ [HarnessNext]_harnessVars => IInv'
  BY BenchStepMaps
<1> QED
  BY <1>1, <1>2, PTL DEF HarnessSpec

\* The device under the bench, with its stops, its left-over flags and the
\* tester's cuts, implements the abstract A/B update.
THEOREM BenchImplementsABUpdate == HarnessSpec => ImplementsABUpdate
<1>1. HarnessInit => AB!ABInit
  BY InitMaps DEF HarnessInit
<1>2. IInv /\ [HarnessNext]_harnessVars => [AB!ABNext]_(AB!abVars)
  BY BenchStepMaps DEF AbstractStep
<1> QED
  BY <1>1, <1>2, DeviceInvariance, PTL DEF HarnessSpec, ImplementsABUpdate, AB!ABSpec

-----------------------------------------------------------------------------
(***************************************************************************)
(* The fallback on the bench.  A stop inside the programming may leave a   *)
(* complete image behind, but then nothing programs before the next reset. *)
(***************************************************************************)
BenchErasedFirst == Running => ErasedFirst

\* An erase that succeeded is behind every programming step still to come.
LEMMA BenchErasedFirstKept ==
  ASSUME IInv, BenchErasedFirst, [HarnessNext]_harnessVars
  PROVE  BenchErasedFirst'
<1> SUFFICES ASSUME HarnessNext, Running', pc' = "program"
             PROVE  ~Verifies("B")'
  BY DEF BenchErasedFirst, ErasedFirst, harnessVars, vars, coreVars, cpu, benchVars, Running,
         Verifies
<1>1. slot \in [Slot -> Images \cup {NoImage}] /\ "B" \in Slot
  BY DEF IInv, BoardTypeOK, Slot
<1>2. Running
  <2>1. ~BenchReset /\ ~TesterCut
    BY DEF BenchReset, TesterCut, WarmReset, PowerCut, Reset, Restart
  <2>2. CASE BenchBoot \/ BenchPost \/ BenchDecay
    BY <2>2 DEF BenchBoot, BenchPost, BenchDecay, benchVars, Running
  <2> QED
    BY <2>1, <2>2
    DEF HarnessNext, OrdinaryStep, OrdinaryStop, PowerStep, BenchFault, BenchWatchdog,
        PowerInstallReject, PowerInstallErase, PowerInstallProgram, PowerInstallMark,
        PowerConfirm, PowerPause
<1>3. ErasedFirst
  BY <1>2 DEF BenchErasedFirst
<1>4. CASE Next
  <2>1. ErasedFirst'
    BY <1>3, <1>4, ErasedFirstKept
  <2> QED
    BY <2>1 DEF ErasedFirst
<1>5. CASE PostsPower
  BY <1>3, <1>5 DEF PostsPower, coreVars, cpu, ErasedFirst, Verifies
<1>6. CASE PowerInstallErase
  <2>1. EraseSlot("B", "A", "OK")
    BY <1>6, InstallErases DEF Paused, AnswerUnlessReset, Answer, Enter, Restart
  <2>2. slot' = [slot EXCEPT !["B"] = NoImage]
    BY <2>1 DEF EraseSlot
  <2> QED
    BY <1>1, <2>2, NoImageAssumption DEF Verifies
<1>7. ~CutByTester /\ ~PowerInstallReject
  BY DEF CutByTester, Reset, Restart, PowerInstallReject, Answer, Enter
<1>8. CASE PowerInstallProgram
  BY <1>8, InstallWrites DEF Paused, AnswerUnlessReset, Answer, Enter, Restart
<1>9. CASE PowerInstallMark
  BY <1>9, InstallMarksSlotB DEF Paused, PostAndReset, AnswerUnlessReset, Answer, Enter, Restart
<1>10. CASE PowerConfirm
  BY <1>10, ConfirmEffect DEF Paused, AnswerUnlessReset, Answer, Enter, Restart
<1>11. ~Paused
  BY DEF Paused
<1> QED
  BY <1>4, <1>5, <1>6, <1>7, <1>8, <1>9, <1>10, <1>11, BenchSteps

\* A fallback the bench loses with healthy flash is lost to an install over it.
LEMMA BenchFallbackStep ==
  ASSUME IInv, BenchErasedFirst, HarnessNext,
         FallbackVerifies, ~FallbackVerifies', faults' = faults
  PROVE  (Ready("INSTALL_B") \/ Ready("POWER_INSTALL")) /\ current = stored.pending
<1>1. FlashTypeOK /\ stored # NoControl /\ Sound(stored) /\ stored.active \in Slot
  BY InvFacts DEF FallbackVerifies
<1>2. CASE Next /\ (InstallProgram /\ slot' # slot => Running)
  <2>1. InstallProgram /\ slot' # slot => ~Verifies("B")
    BY <1>2 DEF BenchErasedFirst, ErasedFirst, InstallProgram
  <2> QED
    BY <1>2, <2>1, FallbackStep
<1>3. CASE slot' = slot /\ stored' # NoControl /\ stored'.active = stored.active
  BY <1>3 DEF FallbackVerifies, Verifies
<1>4. CASE /\ TouchesB /\ stored' = stored
           /\ \E content \in Images \cup {NoImage} : slot' = [slot EXCEPT !["B"] = content]
  <2>1. stored.active = "B"
    BY <1>1, <1>4 DEF FallbackVerifies, Verifies, FlashTypeOK, Slot
  <2>2. pc # "program"
    BY <1>4, <2>1 DEF TouchesB, BenchErasedFirst, ErasedFirst, FallbackVerifies
  <2>3. current \in {stored.active, stored.pending} /\ current = "A"
    BY <1>1, <1>4 DEF TouchesB, IInv, RunningIsKnown, Slot, NoSlot
  <2> QED
    BY <1>4, <2>1, <2>2, <2>3 DEF TouchesB
<1>5. CASE Paused
  BY <1>1, <1>3, <1>4, <1>5 DEF Paused
<1>6. CASE PostsPower \/ CutByTester \/ PowerInstallReject
  BY <1>1, <1>3, <1>6 DEF PostsPower, CutByTester, Reset, PowerInstallReject, coreVars
<1>7. CASE PowerInstallErase
  <2>1. TouchesB
    BY <1>7, InstallErases DEF TouchesB
  <2>2. CASE \E st : EraseSlot("B", "A", st)
    BY <1>1, <1>3, <1>4, <2>1, <2>2 DEF EraseSlot
  <2> QED
    BY <1>5, <1>7, <2>2, InstallErases
<1>8. CASE PowerInstallProgram
  <2>1. TouchesB /\ staging \in Images \cup {NoImage}
    BY <1>8, InstallWrites DEF TouchesB, IInv, BoardTypeOK
  <2>2. CASE \E st : ProgramSlot("B", "A", staging, st)
    BY <1>4, <2>1, <2>2 DEF ProgramSlot
  <2> QED
    BY <1>5, <1>8, <2>2, InstallWrites
<1>9. CASE PowerInstallMark
  <2>1. CASE ReadFault
    BY <1>1, <1>3, <2>1 DEF ReadFault
  <2>2. ASSUME NEW st, MarkPending(stored, "B", st)
        PROVE  slot' = slot /\ stored' # NoControl /\ stored'.active = stored.active
    BY <1>1, <2>2, MarkOutcome, PendingSound, SoundIsStored DEF Slot
  <2> QED
    BY <1>3, <1>5, <1>9, <2>1, <2>2, InstallMarksSlotB
<1>10. CASE PowerConfirm
  BY <1>1, <1>3, <1>5, <1>10, ConfirmEffect
<1> QED
  BY <1>2, <1>5, <1>6, <1>7, <1>8, <1>9, <1>10, BenchSteps

\* No stop and no cut costs the bench its fallback.
THEOREM BenchFallbackKept == HarnessSpec => BenchKeepsFallback
<1>1. HarnessInit => BenchErasedFirst
  BY DEF HarnessInit, Init, BenchErasedFirst, ErasedFirst
<1>2. IInv /\ BenchErasedFirst /\ [HarnessNext]_harnessVars => BenchErasedFirst'
  BY BenchErasedFirstKept
<1>3. IInv /\ BenchErasedFirst /\ [HarnessNext]_harnessVars =>
        [(FallbackVerifies /\ ~FallbackVerifies')
           => \/ faults' # faults
              \/ (Ready("INSTALL_B") \/ Ready("POWER_INSTALL")) /\ current = stored.pending]_harnessVars
  BY BenchFallbackStep
<1> QED
  BY <1>1, <1>2, <1>3, DeviceInvariance, PTL DEF HarnessSpec, BenchKeepsFallback

-----------------------------------------------------------------------------
(***************************************************************************)
(* Types on the bench.                                                     *)
(***************************************************************************)

\* A set of flags names a phase exactly if one of them is set.
Named(f) ==
  /\ f \in [erase : BOOLEAN, bytes : {"NONE", "HEADER", "PAYLOAD"},
            commit : BOOLEAN, phase : Phase \cup {"NONE"}]
  /\ f = Clear <=> f.phase = "NONE"

StopTyped == stop \in [phase : Phase, place : Place] \cup {NoStop}

\* The setters name the phase they are given.
LEMMA SettersName ==
  ASSUME Named(flags), NEW p \in Phase
  PROVE  /\ Named(PauseAfterErase(flags, p)) /\ Named(PauseBeforeCommit(flags, p))
         /\ \A bytes \in {"HEADER", "PAYLOAD"} : Named(PauseDuringProgram(flags, bytes, p))
         /\ Named(Clear) /\ p # "NONE"
<1>1. p # "NONE" /\ Clear.phase = "NONE"
  BY DEF Phase, InstallPhase, Clear
<1>2. FlagsTypeOK
  BY DEF Named, FlagsTypeOK
<1>3. /\ PauseAfterErase(flags, p).phase = p /\ PauseBeforeCommit(flags, p).phase = p
      /\ \A bytes : PauseDuringProgram(flags, bytes, p).phase = p
  BY <1>2 DEF FlagsTypeOK, PauseAfterErase, PauseBeforeCommit, PauseDuringProgram
<1> QED
  BY <1>1, <1>2, <1>3, PausesTyped DEF Named

\* So does configure_power_install_pause.
LEMMA ArmedNames ==
  ASSUME Named(flags), NEW p \in InstallPhase
  PROVE  Named(Armed(p))
<1>1. p \in Phase
  BY DEF Phase
<1> QED
  BY <1>1, SettersName DEF Armed

\* A step that goes on leaves flags that name their phase.
LEMMA BenchNames ==
  ASSUME NEW f, Named(f), NEW j, NEW failed, Bench(f, j, failed)
  PROVE  Named(flags') /\ StopTyped'
<1>1. Named(Clear)
  BY DEF Named, Clear
<1>2. flags' \in {f, Clear} /\ stop' = NoStop
  BY DEF Bench, ResetFlags
<1> QED
  BY <1>1, <1>2 DEF StopTyped

\* A stop reports the phase named by the flag that stopped it.
LEMMA StopNames ==
  ASSUME NEW phase \in Phase, NEW place \in Place, Stop(phase, place)
  PROVE  Named(flags') /\ StopTyped'
BY DEF Stop, StopTyped, Named, Clear

\* Which the places inside the driver do.
LEMMA DriverNames ==
  ASSUME NEW f, Named(f), NEW kind \in Place,
         StopInErase(f) \/ StopInProgram(f) \/ StopInSave(f, kind)
  PROVE  Named(flags') /\ StopTyped'
<1>1. f # Clear
  BY DEF StopInErase, StopInProgram, StopInSave, Clear
<1>2. f.phase \in Phase
  BY <1>1 DEF Named
<1>3. {"erase", "program", "body"} \subseteq Place
  BY DEF Place
<1> QED
  BY <1>2, <1>3, StopNames DEF StopInErase, StopInProgram, StopInSave

\* Every step keeps the flags named and the stop typed.
LEMMA NamesKept ==
  ASSUME IInv, BenchInv, Named(flags), StopTyped, [HarnessNext]_harnessVars
  PROVE  Named(flags') /\ StopTyped'
<1> USE SettersName, BenchNames, DriverNames
<1>1. {"pending", "confirm", "rollback", "candidate"} \subseteq Place /\ "CONFIRM_CONTROL" \in Phase
      /\ {"FIRST_BOOT", "BEFORE_PENDING", "PENDING_CONTROL"} \subseteq Phase
  BY DEF Place, Phase, InstallPhase
<1>2. CASE UNCHANGED benchVars
  BY <1>2 DEF benchVars, StopTyped
<1>3. CASE OrdinaryStep
  BY <1>3 DEF OrdinaryStep
<1>4. CASE OrdinaryStop
  BY <1>1, <1>4 DEF OrdinaryStop
<1>5. CASE BenchWatchdog \/ BenchReset \/ TesterCut
  BY <1>1, <1>5 DEF BenchWatchdog, BenchReset, TesterCut
<1>6. CASE PowerInstallReject
  BY <1>6, ArmedNames DEF PowerInstallReject
<1>7. CASE PowerInstallErase
  BY <1>1, <1>7, ArmedNames DEF PowerInstallErase
<1>8. CASE PowerInstallProgram
  BY <1>1, <1>8, StopNames DEF PowerInstallProgram
<1>9. CASE PowerInstallMark
  <2> DEFINE f == IF job = "PENDING_CONTROL" THEN PauseBeforeCommit(flags, job) ELSE flags
  <2>1. Named(f)
    BY <1>1
  <2> HIDE DEF f
  <2>2. \/ StopInSave(f, "pending")
        \/ \E failed : Bench(f, "NONE", failed) \/ Bench(flags, "NONE", failed)
    BY <1>9 DEF PowerInstallMark, f
  <2> QED
    BY <1>1, <2>1, <2>2
<1>10. CASE PowerConfirm
  BY <1>1, <1>10 DEF PowerConfirm
<1>11. CASE PowerPause
  <2>1. current \in Place
    BY <1>11, InvFacts DEF PowerPause, Ready, AppPc, Place
  <2> QED
    BY <1>1, <1>11, <2>1, StopNames DEF PowerPause
<1> QED
  BY <1>2, <1>3, <1>4, <1>5, <1>6, <1>7, <1>8, <1>9, <1>10, <1>11
  DEF HarnessNext, PowerStep, BenchBoot, BenchFault, BenchPost, BenchDecay, harnessVars

\* The command word is always one of the host's.
LEMMA BenchCommandKept ==
  ASSUME IInv, command \in Command \cup PowerCommand, [HarnessNext]_harnessVars
  PROVE  command' \in Command \cup PowerCommand
<1>1. {"NONE", "HOLD", "POWER_PAUSE"} \subseteq Command \cup PowerCommand
  BY DEF Command, PowerCommand
<1>2. ASSUME NEW cmd \in Command \cup PowerCommand,
             Answer(cmd) \/ AnswerUnlessReset(cmd) \/ PostAndReset(cmd)
      PROVE  command' \in Command \cup PowerCommand
  BY <1>2 DEF Answer, AnswerUnlessReset, PostAndReset, mailbox
<1>3. CASE [Next]_vars
  BY <1>3, CommandKept
<1>4. CASE UNCHANGED mailbox
  BY <1>4 DEF mailbox
<1>5. CASE TesterCut
  BY <1>1, <1>5 DEF TesterCut
<1>6. CASE OrdinaryStop \/ PowerPause
  BY <1>6
  DEF OrdinaryStop, StopInErase, StopInProgram, StopInSave, PowerPause, Stop, mailbox
<1>7. CASE PowerInstallReject
  BY <1>1, <1>2, <1>7 DEF PowerInstallReject
<1>8. CASE PowerInstallErase
  BY <1>1, <1>2, <1>8 DEF PowerInstallErase, StopInErase, Stop, mailbox
<1>9. CASE PowerInstallProgram
  BY <1>1, <1>2, <1>9 DEF PowerInstallProgram, StopInProgram, Stop, mailbox
<1>10. CASE PowerInstallMark
  BY <1>1, <1>2, <1>10 DEF PowerInstallMark, StopInSave, Stop, mailbox
<1>11. CASE PowerConfirm
  BY <1>1, <1>2, <1>11 DEF PowerConfirm, StopInSave, Stop, mailbox
<1>12. CASE BenchBoot \/ OrdinaryStep \/ BenchFault \/ BenchWatchdog \/ BenchReset \/ BenchDecay
  BY <1>3, <1>12 DEF BenchBoot, OrdinaryStep, BenchFault, BenchWatchdog, BenchReset, BenchDecay,
                     Next, Environment
<1>13. CASE BenchPost
  BY <1>13 DEF BenchPost, HostPost
<1> QED
  BY <1>3, <1>5, <1>6, <1>7, <1>8, <1>9, <1>10, <1>11, <1>12, <1>13
  DEF HarnessNext, PowerStep, harnessVars

\* The bench keeps its types, and IapDevice's wherever the command is one of
\* the old ones.
THEOREM BenchTypeCorrectness == HarnessSpec => []HarnessTypeOK
<1> DEFINE Typed == Named(flags) /\ StopTyped /\ command \in Command \cup PowerCommand
<1>1. HarnessInit => Typed
  BY DEF HarnessInit, Init, Named, Clear, StopTyped, Command
<1>2. IInv /\ BenchInv /\ Typed /\ [HarnessNext]_harnessVars => Typed'
  BY NamesKept, BenchCommandKept
<1>3. IInv /\ BenchInv /\ Typed => HarnessTypeOK
  <2> SUFFICES ASSUME IInv, BenchInv, Typed PROVE HarnessTypeOK
    OBVIOUS
  <2>1. TypeOK \/ command \in PowerCommand
    BY DEF IInv, BoardTypeOK, TypeOK
  <2>2. job \in IF pc \in {"program", "mark"} THEN InstallPhase \cup {"NONE"} ELSE {"NONE"}
    BY DEF BenchInv, JobFits
  <2>3. stop # NoStop => pc \in AppPc
    BY DEF BenchInv, Running
  <2> QED
    BY <2>1, <2>2, <2>3 DEF HarnessTypeOK, Named, StopTyped, BenchInv
<1> QED
  BY <1>1, <1>2, <1>3, DeviceInvariance, BenchInvariance, PTL DEF HarnessSpec
=============================================================================
