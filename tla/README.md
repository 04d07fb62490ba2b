# Verification of the A/B in-application-programming framework

This directory holds TLA+ models of the embedded A/B update framework in this
repository: the C library in `src/` and `include/iap/`, its STM32F407 port in
`examples/stm32f407/`, and the two host tools in `tools/`. TLC checks them on
small boards and the TLA+ proof system (TLAPS) proves the main safety properties
for every board. Paths below are relative to the repository root.

## 1. The system

| Part | Code | State it keeps | Operations |
|---|---|---|---|
| Update library | `src/iap_core.c`, `include/iap/iap.h` | none of its own; works on a boot control handed in by its caller and on a storage port | init, load/save control, verify image, select boot slot, mark pending, confirm, roll back, write candidate |
| Boot loader | `src/iap_bootloader.c`, `bootloader_main.c` | the boot control in RAM during one boot | load or create the control, select, start the watchdog, jump or enter recovery |
| Platform | `stm32_iap_platform.c` | watchdog, cycle counter | vector check and jump, recovery loop, power-cut pause, system reset, watchdog feed, tick |
| Control journal | `stm32_iap_storage.c` (59-298) | two flash sectors of 64-byte records | find the newest record, append, switch and erase sectors |
| Slot flash | `stm32_iap_storage.c` (25-56, 300-490) | the two image slots, the protected slot, armed failures and pauses | read, write, erase, arm |
| Test application | `test_app_main.c` | current slot, `feed_watchdog` | one handler per command |
| Test mailbox | `stm32_iap_test_protocol.*`, `tools/iap_test_control.py` | a block in RAM that survives resets | the debug probe downloads commands, the handlers answer |
| Memory storage | `src/iap_memory_storage.c` | a byte array | read, write, erase with a bounds test |
| Image packer | `tools/pack_image.py` | none | check a binary and prepend a header to it |

How they meet: the boot loader and the application never run together. They
share flash (the control record, the slots) and retained RAM (the mailbox, the
staging area). The library reaches flash only through the storage port; a write
to the control address becomes an appended journal record, any other write
goes to a slot. The debug probe writes the mailbox whenever it likes. The watchdog
is started just before the jump and can only be stopped by a reset. The packer,
the library and the jump agree on where an image lies only through the numbers in
its header.

What is hard here is not a single function but the sequences: saves whose
outcome is unknown because the commit word may have been programmed before the
error; resets between a save and the command word that says it was done, so
that another image runs the same command again; attempts that must be in flash
before the image they pay for runs; torn records and half-erased sectors; pause
flags that outlive the command that armed them; a mailbox that two parties
write word by word; sums of 32-bit addresses; and a trial that must end without
anybody's help. `PROJECT.json` lists each hazard with its line and the properties
aimed at it.

What makes each component correct:

- library and boot loader: only verified images are entered; a trial is bounded
  and charged in advance; only a running, tried image is promoted; a transient
  error costs nothing; the RAM copy and flash agree when the copy is used;
- its arithmetic: `iap_init` tells sound layouts from the others, no access
  leaves its slot, a verdict covers the whole payload;
- journal: a save is atomic whatever interrupts it, and never runs out of room;
- slot flash: the boot loader and the running slot are never touched, and
  nothing the library needs is refused;
- packer, install and jump: what was packed for a slot runs there and only there;
- application: no command, repeated or cut short, breaks the above or loses the
  fallback image; a power-cut test stops where it says;
- mailbox: a command runs with its own arguments, once posted it is answered, once
  answered it is not run again (with the exceptions section 2 names), and noise is never taken for a command;
- whole device: a dead trial ends and the fallback runs.

## 2. The modules

| Module | Models | Depends on |
|---|---|---|
| `BootControl` | the control block, its validity test, the five rewrites of it | |
| `IapCore` | the library calls as relations between flash before, flash after and status | `BootControl` |
| `IapDevice` | boot loader, application, host, watchdog, resets, power, flash damage; the properties | `IapCore` |
| `ABUpdate` | abstract specification: fallback, trial, tries, executing slot | `BootControl` |
| `IapDeviceRefinement` | the mapping from `IapDevice` to `ABUpdate` | both |
| `PowerHarness` | the `POWER_*` commands and the driver's pause flags on top of the device | `IapDeviceRefinement` |
| `ControlJournal` | the two-sector record journal, one step per flash operation | |
| `ControlStore` | abstract specification: one register | |
| `FlashDriver` | the guards of the STM32F407 storage port, and `TEST_BOUNDARIES` | |
| `ImageLayout` | ranges, headers, packer checks and vector checks as pure functions | |
| `ImageCheck` | `iap_init`, `iap_verify_image`, `iap_write_candidate_image` over the memory port, one step per port call | `ImageLayout` |
| `ImageChain` | an image from `pack_image.py` through the install to the jump | `ImageLayout` |
| `TestMailbox` | the control block word by word between probe, boot loader and application | |
| `IapDeviceProofs`, `IapRefinementProofs`, `PowerHarnessProofs`, `ControlJournalProofs`, `FlashDriverProofs`, `ImageCheckProofs`, `ImageChainProofs`, `TestMailboxProofs` | TLAPS proofs | the module they are named after |
| `MC...` | small instances for TLC | |

### IapDevice

`pc` says where the processor is, and one step is the code between two flash
changes. Boot loader: `load`, `select`, `jump`, `recovery`. Application: `app`
is the main loop; `program` and `mark` are inside `install_slot_b`, `probe` is
inside `test_storage_read_failure`. `hung` is an image that was entered and never
feeds the watchdog. Reads are not steps of their own, because while the
processor runs nobody else changes flash other than the damage the model injects.

| Code | Variable |
|---|---|
| newest valid journal record | `stored` |
| slot contents | `slot`: a complete image or `NoImage` (anything `iap_verify_image` rejects) |
| `write_failures_remaining` | `armed` |
| local `iap_boot_control_t` kept across a flash change | `control` |
| the slot being jumped to, or linked as `current_slot` | `current` |
| `feed_watchdog` | `feeding` |
| `g_stm32_iap_test_control.command`, staging RAM with `argument0` | `command`, `staging` |

Actions follow the code: `BootLoad`, `BootDefault` (`iap_bootloader_run`),
`BootTrial`, `BootRollback`, `BootActive` (the three ways through
`iap_select_boot_slot`), `BootJump` (`jump_to_slot_callback`), `BootReadFault`
(any read error of a boot); `Install*`, `Confirm`, `Fail*`, `HoldRolledBack`,
`ActivateOther`, `ReadTest*`, `WriteTest`, `NothingToDo` (the command
handlers), with `RefuseUnsettled` and `LoadFault` for the checks several of them
share. The environment posts commands (`HostPost`), resets, cuts the power
and damages slots.

A save (`SaveControl`) returns OK with the new control stored, or STORAGE with
the old or the new one stored, or is refused; a reset may follow any save before
the handler's next write of the command word (`AnswerUnlessReset`,
`PostAndReset`). Power loss clears the mailbox and the staging area, a warm reset keeps
them. `trials` is an auxiliary variable that counts launches of the pending image.

`Launchable` abstracts the vector check for the slot the image is in: an
image linked for the wrong slot is a complete image that is not launchable
(`ImageChain` looks into it). `Responsive` images run the test application; the
other launchable ones hang.

Left out of the control block: `magic` and `version` (a block without them is
`NoControl`) and `image_crc32`/`image_size`, which no code reads back. Damage
to a slot between its verification and the jump is not told apart from damage
just after the jump.

### PowerHarness

A `POWER_*` command arms pause flags of the driver (`flags`: after the erase,
after so many programmed bytes, before the commit word, and the phase to
report), and the driver consumes one when it gets there, whichever command it
is then working for. So all ordinary steps of the device are run through
`OrdinaryStep` and `OrdinaryStop`, which say what each does to the flags, and a
stop is a state (`stop`: the phase reported and the place it is at) that feeds the
watchdog until `TesterCut`. `job` is the phase of the install in progress.
`leftover` is an auxiliary variable: some command ended with an error after it
had armed a pause. A reset clears all of it, for the storage object is set up anew.

### ControlJournal

A record is `Erased`, `Torn` (not erased, not valid) or a record with sequence
number and control. A save chooses its place, erases the other sector if the
current one is full, programs the body, then the commit word. An error or power
cut in any of these leaves any mixture of erased, torn and old records (erase) or
nothing, a torn or the complete record (program). `Load` is the scan of
`scan_control_sector`, which stops at the first erased record of a sector.
Sequence numbers wrap at `SeqMod` with the signed comparison of
`sequence_is_newer`.

`ControlJournal` implements `ControlStore`, and `IapCore!SaveControl` is
`ControlStore` seen from the caller: this is what justifies the atomic save in
`IapDevice`.

### FlashDriver

One step is one call of the port, with any operation, any address and any size of
the address space. `changed` is the set of flash bytes it may have changed: all
of a prefix of a write, one or both sectors of an erase, any of the journal for a
control write. Sums are taken without wrap-around because the driver takes them in
64 bits (`range_is_within`). `step` runs through the six calls of
`test_boundary_guards`, made by the application in the protected slot.

### ImageLayout, ImageCheck, ImageChain

`ImageLayout` holds the tests that the three programs make, with `uint32_t` sums
taken modulo `Word` where the code takes them so. `ImageCheck` runs the library: any two
slots, control address and memory size are handed to `iap_init`; then a slot
with any header is verified or a candidate is written and verified, one port call per
step, the payload in chunks of `ChunkBytes`. A CRC is not computed: `good` is
the set of bytes that are as they were when the header's CRC was taken, and the
CRC over a payload matches when it covers only such bytes and all of them.
`ImageChain` takes a file that the packer built (or any other file with any
header) through the install into either slot to the jump.

### TestMailbox

A word of the block is abstracted to the post it belongs to: post `p` is the
`p`-th block the host downloads. The probe writes in address order (`Layout`), so
the command comes last; the application reads command and arguments in steps of
their own. Each handler is the set of ways it can end (`Handler`): the words it writes,
in order, and where the device goes. A stop (`Stops`) may end any handler that
saves, for the flag of an earlier command may still be set. What a handler does to the
slots is `IapDevice`'s subject. `stm32_iap_test_control_init` is the list of words it
writes, so that a reset can fall between two of them. A power cut leaves noise in the
block, though not both stamps.

Of the boot control, the pending mark and the attempts are kept (`pending`, `attempts`):
the handlers ask for the mark and set it (`Marks`, also in a save that reported an
error), and `Boot` chooses as `iap_select_boot_slot` does: a pending slot is tried
while it has attempts left (`TriesSlot`) or given up (`RollsBack`), otherwise the slot
stays. So a command that a restart leaves in the block may be read by the other slot. A
boot ends in the main loop of the application (`poll`), in an image that hangs (`hung`,
until the watchdog fires) or in recovery, which feeds the watchdog for ever: storage
failed, no slot verifies, or the jump refused the vector table. The reports of a boot
are cut down to two, each of status and detail, which say that it is the boot that
speaks; a refused vector table makes one more of the same kind. That `iap_init` refuses
the constant geometry is left out.

Three auxiliary variables tell what the block forgets: `lost`, the last post that
the device cleared before its main loop saw it; `answered`, the post whose answer was
written last, which every boot overwrites in the block; and `again`, an answered post
whose handler the button ended.

The host follows the guide (`examples/stm32f407/README.md:89-125`): it posts when the
command word is clear, or when the slot reports that it is held for a confirmation or a
failure (`Idle`). The device does not promise that the command word is clear before the
status is set: on success it clears the command first (`test_app_main.c:89-90`), on
error last, so "quiet" means that the device polls.

A post over a held slot can be lost in two ways, both in `report_pending_state`, which
clears the word for the `HOLD_PENDING` it read, while the host still reads "held": its
load failed (`118-121`), or somebody pressed the button and the trial is over
(`124-128`). In the first the error report is also written between the words of the
post, so status and detail may be of different posts. `PostNeverOverwritten` says that
these are the only two, and `QuietMeansAnswered` that in every other case the quiet
block answers the last post. A press of the button between an answer and the clearing of
its command (`test_app_main.c:21-22`), or at a stop, leaves the answered command in its
word, and the loop takes it once more; `NeverHandledAgain` says that no other way leads
there. `PostAnswered` makes no promise while no application comes to run: the boot
loader stays in recovery, as in `device_brick`, or the image that is not on trial hangs.

### The mutations

Definitions commented `Mutation:` are plausible bugs (a save that is
not checked, a missing verification, an unsigned comparison). No specification
uses them; `PROJECT.json` pairs each with the property that it breaks.

## 3. The runs

| Run | Checks | Result |
|---|---|---|
| `device_safety` | seven invariants and three action properties of `IapDevice`, and that it implements `ABUpdate` | 48,320 states, holds |
| `device_liveness` | a dead trial ends with the fallback running | 12,450 states, holds |
| `journal` | three invariants, and `ControlJournal` implements `ControlStore` | 11,108 states, holds |
| `flash_driver` | four invariants of the storage port | 74,748 states, holds |
| `image_check` | four invariants of the library's checks | 756,010 states, holds |
| `image_chain` | four invariants of packer, install and jump | 4,669,752 states, holds |
| `harness_safety` | the power-cut bench: one invariant, two action properties, and it implements `ABUpdate` | 257,374 states, holds |
| `harness_liveness` | every stop is survived | 65,091 states, holds |
| `mailbox` | four invariants, one action property, every post is answered | 389,779 states, holds |
| `device_fallback` | "there is always a bootable fallback" | violated, see 5 |
| `device_brick` | a dead trial ends, with a vector table that is refused | violated, see 5 |
| `harness_mismatch` | a stop is where its phase says | violated, see 5 |

The properties by run:

- `device_safety`: `TypeOK`, `CopyCoherent` (the RAM copy in use is the stored
  control), `StoredSound` (the stored control is valid and only the active slot is
  confirmed), `TrialBudget` (launches never exceed charged attempts),
  `RunningIsKnown`, `EntersVerified`, `LastResort`; `TransientFaultKeepsTrial`,
  `PromotesOnlyTrialed`, `FallbackKept`; `ImplementsABUpdate`.
- `device_liveness`: `DeadTrialEnds`.
- `journal`: `ScanFindsNewest`, `ErasesOnlyOld`, `ProgramsErasedOnly`,
  `ImplementsStore`.
- `flash_driver`: `ProtectedUntouched`, `ChangesOnlyNamed`, `ServesLibrary`
  (what the library asks for is never refused), `BoundaryTestPasses`.
- `image_check`: `InitDecides` (`iap_init` accepts exactly the sound layouts),
  `StaysInSlot`, `VerdictCoversPayload`, `CandidateVerifies`
  (what passed in RAM passes in flash).
- `image_chain`: `PackedFileInstalls`, `AlignedFileRuns`, `RunsOnlyInItsSlot`,
  `EntersInsideSlot`.
- `harness_safety`: `StopsWhereTold` (unless a command failed
  after arming, a stop is where its phase says), `StoppedInstallNeverMarks`,
  `BenchKeepsFallback`, `ImplementsABUpdate`; `harness_liveness`: `StopRecovers`.
- `mailbox`: `ArgumentsMatch`, `NothingUnposted`, `QuietMeansAnswered`,
  `NeverHandledAgain` (a command that was answered, before a restart or since, is out of
  its word before the main loop looks again, unless the button cut its handler short),
  `PostNeverOverwritten` (but in the two ways above), `PostAnswered` (every post, also
  after earlier resets and cuts, is answered unless one comes meanwhile or no
  application comes to run).

Where a module has been proved type correct as part of a proof, its `TypeOK` is not
checked by a run as well.

Bounds, all enforced in guards or by the constants:

- `MaxAttempts = 2` (3 on the board): the smallest limit with a charged attempt
  that is neither the first nor exhausting; the behaviour depends only on the
  comparison with the limit.
- `MaxFaults = 1`, `MaxCuts = 1` for safety: one storage error or damaged slot and
  one power cut or external reset, in any order and at any step. Watchdog and
  system resets, and on the bench the tester's cuts, are not bounded. The proofs
  have no such bound.
- Images: one that answers, one that hangs, one whose vector table is refused. On
  the bench the safety run has the first only, the liveness run the first two: the
  bench adds nothing to what the others do.
- `MaxFaults = 0`, `MaxCuts = 2` for `device_liveness`: a storage error in the boot
  loader ends in recovery for good, by design, so the promise is made for working
  flash; two cuts may strike at any step, and spend attempts on trials.
  `harness_liveness` has no cut but the tester's, which may come any number of times.
- Journal: `N = 2` records per sector (2048 on the board) gives full sectors,
  a first and a last record, and erases after every second save; `SeqMod = 8` is
  the tightest wrap the assumption `2 * N <= SeqMod \div 2` allows, so numbers wrap
  while both sectors hold records. Errors and cuts are not bounded at all.
- Flash driver: 34 addresses and words of four bytes, a boot loader, two slots of two
  words, the journal, a reserved rest, with calls of every address and size. The flash
  ends two bytes below the top, so that a 32-bit sum would wrap.
- Image check: 11 addresses with header and chunks of two bytes; every pair of
  regions and every control address, memories of 7 and of 10 bytes, slots and
  payloads with one full, one partial and several chunks. `HeaderBytes` and
  `WordBytes` keep the board's divisibility (a header is whole words).
- Image chain: two adjacent slots of two vector alignments each, every header,
  every payload length, every vector table.
- Mailbox: two posts, one press of the reset button, one power cut and two attempts:
  a post may come over one that is held while the device still answers that, a press may
  end a trial or a handler between its answer and its clearing, a reset may fall into the
  initialisation that a cut made necessary, and a trial that hangs uses up its attempts.
  Watchdog and system resets are not bounded.

Deadlock is checked in the device, bench, journal and flash driver runs. It is off
in `image_check` and `image_chain`, where a verdict or an entered image is the end of
the way, and in `mailbox`, where the host may have posted all it wants and
a device that is stopped or in recovery waits for somebody to reset it.

Fairness:

- `IapDevice!FairSpec`: weak fairness of `BootStep`, of `AppStep` and of
  `WatchdogReset`. The processor is single-threaded and executes the boot loader
  and then the handler of the posted command without waiting for anybody, so an
  enabled step is taken; the watchdog runs from its own oscillator and cannot be
  stopped once started. Nothing is assumed of the host, of power or of flash.
- `PowerHarness!FairHarnessSpec`: the same steps on the bench, and `TesterCut`:
  the guide's procedure (`examples/stm32f407/README.md`) is to cut the power at
  the stop, and the stop exists for nothing else.
- `TestMailbox!FairSpec`: the device's steps, the watchdog, and `HostWord`: a
  download that has begun comes to its end. No host has to post.

## 4. What is proved

All proofs hold for every value of the constants that meets the named assumptions:
any images, attempt limit and number of faults, cuts, resets and posts; any sector
size; any flash layout of the shape `stm32_iap_config.h` has; any word, header,
chunk and alignment size.

**Device** (`IapDeviceProofs`). The seven invariants and three action properties of
`device_safety`. Assumptions: `MaxAttempts` a positive natural number, `NoImage`
not an image, `NoControl` not a control, responsive images launchable and
launchable images complete, `MaxFaults` and `MaxCuts` natural. The inductive
invariant `IInv` is the conjunction of `BoardTypeOK` (`TypeOK` without the command
word, so that it also holds under a host that posts other commands),
`CopyCoherent` and the five others; they are proved together because they need each
other. `TrialBudget`
needs `CopyCoherent`, because the boot loader charges the attempt in its RAM copy;
`RunningIsKnown` needs the types (where `current` is set) and `TrialBudget`'s
second part (what is about to be entered); `StoredSound` needs `CopyCoherent` to
know that the copy `iap_rollback` starts from was valid; `LastResort` needs that
recovery changes nothing. The proof has one lemma for each action of the boot
loader and for each group of handlers with the same shape, above facts about the
five rewrites of a control, the outcomes of a save, and `HandlerKeeps`, which says
what a handler owes the invariant after its last save. `FallbackAlwaysKept`
needs one fact more: slot B does not verify while it waits to be programmed.

**Refinement** (`IapRefinementProofs`). `DeviceImplementsABUpdate`: from `IInv`,
each device step is a step of `ABUpdate` or a stutter under the mapping of
`IapDeviceRefinement`. A reset may follow any save inside a handler, so the
abstract step is either the change or nothing, together with the end of the
executing slot.

**Journal** (`ControlJournalProofs`). `JInv`: some record `L` leads. Every other
record is older, by at most one number per position it lies behind `L` going round
the two sectors, the records of `L`'s own sector lie before it, and the save in
progress aims at the place behind `L` (`Aimed`). With `2 * N <= SeqMod \div 2` no
two records are half the number range apart, so the signed comparison orders them
(`NewerFacts`), and the scan finds `L` (`LatestLeads`). The scan is a recursive
function over the positions; that it exists and what it computes is shown by
induction over a range, which the prover can do when the induction is stated for a
set (`RangeInduction`, from the least element of a set of naturals). From `JInv`
follow `ScanAlwaysFindsNewest`, `NewestNeverErased`, `OnlyErasedProgrammed`, and
`JournalImplementsStore`: only the commit word changes what is stored.

**Flash driver** (`FlashDriverProofs`). The four invariants of the run, from
`ConfigAssumption` (the order and alignment of the regions in
`stm32_iap_config.h`). `DriverInv` says of the last call what it may have
changed and returned, which is `CallSound` for every call.

**Image check** (`ImageCheckProofs`). The four invariants of the run. `CheckInv`
says where the loop of `iap_verify_image` is: what has been seen is the part of
the payload before `offset`, and what remains ends where the payload ends.
`InitAlwaysDecides` is arithmetic: sums that stay below the word do not wrap, so
the library's overlap test on disjoint or overlapping ranges is exact
(`OverlapDecides`).

**Image chain** (`ImageChainProofs`). The four invariants of the run, for slots that
are whole multiples of the vector alignment. `AlignedAlwaysRuns` rests on facts about
multiples (`MultiplesApart`, `SumOfMultiples`).

**Bench** (`PowerHarnessProofs`). All four properties of `harness_safety`, and
`BenchTypeCorrectness`, the types of the bench.
`AlwaysStopsWhereTold` and `StopsBeforeMark` only need to know which flags a handler
can still find set: `BenchInv` says that unless an armed pause was left behind, the
flags set are those of the install in progress, in the step they are for. The others
need the device's `IInv`, which the bench keeps (`DeviceInvariance`): by `BenchSteps`
every step of it is a step of the device, a stop (`Paused`: at most slot B changes,
while A runs), one of the handlers of its own, a post or the tester's cut. With the
lemmas of the device's refinement each of these is a step of `ABUpdate` or a stutter:
`BenchImplementsABUpdate`. For `BenchFallbackKept` the fact that slot B does not
verify before it is programmed is needed again, here only while the device is not
stopped: a stop inside the programming may leave a complete image.

**Mailbox** (`TestMailboxProofs`). All five safety properties of the run.
`MailInv` has the two cases of the block: while it is not valid, the device is
about to wipe it or what is left of the wipe is a suffix of the word list (so the
command is clear before the stamps are set), and nobody posts; while it is valid, a
command with arguments in its word was posted, no download is under way, and its
arguments are its own. `ArgumentsAlwaysMatch` and `OnlyPostedTaken` follow.
`PostInv`, inductive beside it, is about what a handler has left to write. Every
end of a handler is of one of a few kinds (`HandlerKinds`): it only says something,
holds the slot on trial, answers and clears its command, in one order or the other, or
leaves the next command and resets. At most one command word is left, over the handler's
own command or, in `HOLD_PENDING` only, over a post that came meanwhile (`CommandPutOK`):
there the word is the last one written, after the error report (`ClearsLast`), or the
first, when the trial is found to be over, which needs a press of the button
(`ClearsFirst`, `BootOK`). The host posts over nothing, or over a command whose status
is "held", which only a slot on trial reports or a reset has left there (`PostingOK`),
and a handler that goes on to say "held" writes no command (`HeldPutOK`); posts are taken
in order, so what stands over the command at hand is newer (`OrderOK`). Hence
`NoPostOverwritten`. What status and detail say when everything is written (`Final`)
does not change as words are written, unless the last post is one that `Loses`, which
gives `QuietAlwaysAnswered`.
`OnceInv`, inductive beside both, relates the command in its word to the post answered
last: it waits for a restart or has not been answered (`Fresh`), or the button ended its
handler (`Unanswered`); or it is the command at hand, and then the handler answers no
other and has its clearing still to write (`AnswerPutOK`), or another command to hold
before it resets (`BootAnswerOK`). A press of the button in that window is what `again`
remembers. When the loop looks, nothing is at hand: `CommandsHandledOnce`.
`HOLD_PENDING` and `FAIL` are excepted because they are meant to stay until a restart.

Only model-checked: all liveness (`DeadTrialEnds`, `StopRecovers`, `PostAnswered`;
outside the prover). Every safety property of the passing runs is proved.

## 5. Where code and documents disagree

1. `device_fallback`. `install_slot_b` (`test_app_main.c:36`) checks that slot
   A runs, not that A is active and nothing is pending, as other handlers do
   (`235-239`). If A runs as the unconfirmed trial of active B, an install
   erases B, the only confirmed image. `docs/ab-iap-mvp-design.md:9` promises
   that a bootable image to fall back to is always kept. `FallbackKept` shows
   that this is the only step, other than damaged flash, that loses the
   fallback.
2. `device_brick`. A pending image with a correct CRC whose vector table is
   refused (`stm32_iap_platform.c:116`) ends in a recovery loop that feeds the
   watchdog. No reset follows, so attempts are not used up and the trial is not
   rolled back, contrary to `docs/ab-iap-mvp-design.md:266`. `image_chain` shows
   two ways to such an image: a file packed for the other slot, and a header
   that is not a multiple of the vector alignment.
3. `harness_mismatch`. `run_power_install` (`test_app_main.c:404`) arms the pause
   flags before the library checks the candidate, and its error path leaves them
   armed. The next save of any command then stops in the journal, while the block
   reports the phase `header`, of which `examples/stm32f407/README.md:138` says
   that 8 bytes of the image header were written. `StopsWhereTold` shows that an
   error after the arming is the only way to it.

## 6. What is not modelled

- The bits of a CRC: a payload matches its CRC when it is the one it was
  computed over. Null pointers and arguments that no caller passes.
- Time. `HAL_GetTick` divides a 32-bit cycle counter, which wraps; a flash wait
  of the vendor driver that falls on the wrap may give up at once. That driver is
  not in the repository; what reaches the code here is a storage error, and
  `IapDevice` and `ControlJournal` let one happen in any flash operation. The wait
  for the watchdog registers at start is a plain loop.
- The words of the mailbox that are written only for the reader (boot count,
  last slot, last boot address, reset cause) and the output of the host tool.
- The register sequence of the jump; start-up code, linker script, C library
  stubs, HAL configuration: they keep no update state.
- The host tests: read as evidence of what the library promises.

## 7. Plan

Everything the first plan named is built: the device and its refinement, the
journal, the image check and the packer, the flash driver, the bench and the mailbox.

What could follow: the words of the mailbox written only for the reader.
