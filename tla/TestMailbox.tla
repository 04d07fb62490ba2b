----------------------------- MODULE TestMailbox -----------------------------
(***************************************************************************)
(* The test control block in RAM, word by word: the host's debug probe     *)
(* downloads it in address order while the application polls it, takes a   *)
(* command, reads its arguments and reports.  The block outlives a reset   *)
(* and is noise after a power cut.                                         *)
(*                                                                         *)
(* What a word says is abstracted to the post it belongs to: post p is the *)
(* p-th block the host downloads.  The words the device only writes for    *)
(* the reader (boot_count, last_slot, ...) are left out.                   *)
(***************************************************************************)
EXTENDS Naturals, Sequences

CONSTANTS
  MaxAttempts,  \* STM32_IAP_MAX_BOOT_ATTEMPTS
  MaxPosts,     \* bound: blocks the host downloads
  MaxResets,    \* bound: presses of the reset button
  MaxCuts       \* bound: power cuts

ASSUME MailboxAssumption ==
  /\ {MaxAttempts, MaxPosts} \subseteq Nat \ {0}
  /\ {MaxResets, MaxCuts} \subseteq Nat

VARIABLES
  block,            \* g_stm32_iap_test_control
  pc,               \* what the device does
  run,              \* the command word the main loop read
  arguments,        \* the argument words its handler read
  todo,             \* words the device writes next, in order
  then,             \* where the device goes after them, and whether it feeds
  feeding,          \* feed_watchdog
  pending, attempts,  \* pending_slot, seen from the slot below; boot_attempts
  inA,              \* the slot that runs, or ran last, is A
  hostAt, hostCmd,  \* word the probe writes next (0: none), command it posts
  posts, resets, cuts,
  lost,             \* history: the last post cleared before main saw it
  answered,         \* history: the post whose answer was written last
  again             \* history: an answered post whose handler the button ended

slots == <<pending, attempts, inA>>
device == <<pc, run, arguments, todo, then, feeding, slots>>
host == <<hostAt, hostCmd, posts>>
history == <<lost, answered, again>>
vars == <<block, device, host, history, resets, cuts>>

Post == 1 .. MaxPosts
Pending == {"NONE", "CURRENT", "OTHER"}

\* Where nothing more happens until a reset: the stop of a power-cut test, an
\* image that was entered and hangs, the boot loader's recovery.
Resting == {"stopped", "hung", "recovery"}

\* CHECK stands for CLEAR_STATUS and the TEST_ commands, OTHER for any value
\* the main loop does not know.
Command == {"INSTALL", "HOLD", "CONFIRM", "FAIL", "CHECK", "ACTIVATE",
            "POWER_INSTALL", "POWER_CONFIRM", "POWER_PAUSE", "OTHER"}

\* Statuses that answer a command; "busy" only says that it was taken.
Answer == {"done", "error", "held", "failing", "armed"}

None == <<"NONE", 0>>
\* What a power cut leaves in a word: no message, no post.
Noise == "NOISE"
NoisePost == MaxPosts + 1

Arguments == [INSTALL |-> {"argument0"}, POWER_INSTALL |-> {"argument0", "argument1"}]
ArgumentsOf(c) == IF c \in DOMAIN Arguments THEN Arguments[c] ELSE {}

Message == (Answer \cup {"zero", "busy", "boot", Noise}) \X (0 .. MaxPosts)
Block ==
  [magic : BOOLEAN, version : BOOLEAN,
   argument0 : 0 .. NoisePost, argument1 : 0 .. NoisePost,
   status : Message, detail : Message,
   command : (Command \cup {"NONE", Noise}) \X (0 .. MaxPosts)]

\* The variables keep their types; the device is in a handler only with a
\* command taken, and has words to write only when it writes.
TypeOK ==
  /\ block \in Block
  /\ pc \in {"boot", "poll", "fetch", "work", "put"} \cup Resting
  /\ run \in (Command \cup {Noise}) \X (0 .. MaxPosts) \/ (run = None /\ pc \notin {"fetch", "work"})
  /\ \A a \in DOMAIN arguments : arguments[a] \in 0 .. NoisePost
  /\ pc = "work" => DOMAIN arguments = ArgumentsOf(run[1])
  /\ todo # <<>> => pc = "put"
  /\ then.at \in {"poll", "boot"} \cup Resting /\ then.feed \in BOOLEAN
  /\ {feeding, inA} \subseteq BOOLEAN
  /\ pending \in Pending /\ attempts \in 0 .. MaxAttempts
  /\ hostAt \in 0 .. 7 /\ hostCmd \in Command
  /\ {posts, lost, answered, again} \subseteq 0 .. MaxPosts
  /\ resets \in 0 .. MaxResets /\ cuts \in 0 .. MaxCuts

-----------------------------------------------------------------------------
(***************************************************************************)
(* The block.                                                              *)
(***************************************************************************)

\* Mutation: the layout of protocol version 1, the command before its arguments.
CommandFirst == <<"magic", "version", "command", "argument0", "argument1", "status", "detail">>

\* stm32_iap_test_control_t
Layout == <<"magic", "version", "argument0", "argument1", "status", "detail", "command">>

\* make_control: statuses zero, the command in the last word
Posted(word) ==
  CASE word \in {"magic", "version"} -> TRUE
    [] word \in {"argument0", "argument1"} -> posts
    [] word \in {"status", "detail"} -> <<"zero", posts>>
    [] word = "command" -> <<hostCmd, posts>>

Put(word, value) == <<[word |-> word, value |-> value]>>

\* Mutation: the status is set, its detail is not.
SayStatus(what) == Put("status", <<what, run[2]>>)

\* stm32_iap_test_set_status, on behalf of the command being handled
Say(what) == Put("status", <<what, run[2]>>) \o Put("detail", <<what, run[2]>>)
SayBoot == Put("status", <<"boot", 0>>) \o Put("detail", <<"boot", 0>>)

SetCommand(c) == Put("command", <<c, run[2]>>)
ClearCommand == Put("command", None)

\* Mutation: a block that is not valid is stamped and kept.
StampOnly(b) ==
  IF b.magic /\ b.version THEN <<>> ELSE Put("magic", TRUE) \o Put("version", TRUE)

\* stm32_iap_test_control_init: the words it writes, memset from the lowest
\* address up
ControlInit(b) ==
  IF b.magic /\ b.version
    THEN <<>>
    ELSE Put("magic", FALSE) \o Put("version", FALSE)
           \o Put("argument0", 0) \o Put("argument1", 0)
           \o Put("status", <<"zero", 0>>) \o Put("detail", <<"zero", 0>>) \o Put("command", None)
           \o Put("magic", TRUE) \o Put("version", TRUE)

-----------------------------------------------------------------------------
(***************************************************************************)
(* How a handler may end: the words it writes, in order, and where it goes.*)
(***************************************************************************)

Ends(writes, at) == [writes |-> writes, at |-> at, feed |-> feeding]

\* Mutation: the error is reported and the command left.
ReportErrorOnly == Ends(Say("error"), "poll")

\* report_error: the command is cleared last
ReportError == Ends(Say("error") \o ClearCommand, "poll")

\* Mutations: the command is cleared and nothing reported; it is cleared again
\* after the status.
SuccessUnreported == Ends(ClearCommand, "poll")
SuccessClearsTwice == Ends(ClearCommand \o Say("done") \o ClearCommand, "poll")

\* The successful ends of confirm, the checks and the roll-back reports: the
\* command is cleared first.
Success == Ends(ClearCommand \o Say("done"), "poll")

\* stm32_iap_power_cut_pause, at a flag that this command or an earlier one armed
Stops == Ends(Say("armed"), "stopped")

\* An error after the host was told that the handler works.
ErrorWhileBusy == Ends(Say("busy") \o Say("error") \o ClearCommand, "poll")

\* Only slot A installs, only a slot without a trial activates the other, only a
\* slot on trial can be confirmed with a stop.
Refuses ==
  \/ run[1] \in {"INSTALL", "POWER_INSTALL"} /\ ~inA
  \/ run[1] = "ACTIVATE" /\ pending # "NONE"
  \/ run[1] = "POWER_CONFIRM" /\ pending # "CURRENT"

\* install_slot_b
Installs ==
  {ReportError,
   ErrorWhileBusy,
   Ends(Say("busy") \o Say("armed"), "stopped"),
   Ends(Say("busy") \o Say("done") \o SetCommand("HOLD"), "boot")}

\* run_power_install; a phase may stop it on the way
PowerInstalls ==
  {ReportError,
   ErrorWhileBusy,
   Ends(Say("busy") \o Say("armed"), "stopped"),
   Ends(Say("busy") \o SetCommand("HOLD"), "boot"),
   Ends(Say("busy") \o SetCommand("POWER_PAUSE"), "boot")}

\* report_pending_state; the load may fail
Holds ==
  {ReportError, IF pending = "NONE" THEN Success ELSE Ends(Say("held"), "poll")}

\* handle_failure_command; a load that fails does not count as rolled back
Fails ==
  {[Ends(Say("failing"), "poll") EXCEPT !.feed = FALSE]}
    \cup (IF inA /\ pending = "NONE" THEN {[Success EXCEPT !.feed = TRUE]} ELSE {})

Handler ==
  IF Refuses THEN {ReportError} ELSE
  CASE run[1] = "INSTALL" -> Installs
    [] run[1] = "POWER_INSTALL" -> PowerInstalls
    [] run[1] = "HOLD" -> Holds
    [] run[1] = "FAIL" -> Fails
    [] run[1] \in {"CONFIRM", "CHECK"} -> {ReportError, Success, Stops}
    [] run[1] = "ACTIVATE" ->
         {ReportError, Stops, Ends(SetCommand("CONFIRM") \o Say("busy"), "boot")}
    [] run[1] = "POWER_CONFIRM" -> {ReportError, Stops}
    [] run[1] = "POWER_PAUSE" -> {Stops}
    [] OTHER -> {ReportError}

-----------------------------------------------------------------------------
(***************************************************************************)
(* The device.                                                             *)
(***************************************************************************)

Restart ==
  /\ pc' = "boot" /\ todo' = <<>> /\ run' = None /\ arguments' = <<>> /\ feeding' = TRUE
  /\ then' = [at |-> "poll", feed |-> TRUE]
  /\ UNCHANGED <<slots, lost, answered>>

\* iap_select_boot_slot: the pending slot is tried while it has attempts left
TriesSlot ==
  /\ pending # "NONE" /\ attempts < MaxAttempts
  /\ attempts' = attempts + 1
  /\ pending' = "CURRENT"
  /\ inA' = IF pending = "OTHER" THEN ~inA ELSE inA

\* iap_rollback, when it has none or does not verify: the slot before runs
RollsBack ==
  /\ pending # "NONE"
  /\ pending' = "NONE" /\ attempts' = 0
  /\ inA' = IF pending = "CURRENT" THEN ~inA ELSE inA

\* The boot loader checks the block and reports, selects a slot, and reports
\* again: that it jumps, and the application that it runs, or that it stays in
\* recovery.  It stays there when storage fails, no slot verifies or the vector
\* table is refused.  The image it enters may hang.  That iap_init refuses the
\* geometry, which is constant, is left out.
Boot ==
  /\ pc = "boot"
  /\ pc' = "put"
  /\ todo' = ControlInit(block) \o SayBoot \o SayBoot
  /\ \E at \in {"poll", "hung", "recovery"} :
       /\ then' = [at |-> at, feed |-> TRUE]
       /\ \/ TriesSlot
          \/ RollsBack
          \/ (pending = "NONE" \/ at = "recovery") /\ UNCHANGED slots
  /\ UNCHANGED <<block, run, arguments, feeding, host, history, resets, cuts>>

\* main: the command word is read once
Poll ==
  /\ pc = "poll"
  /\ block.command # None
  /\ pc' = "fetch" /\ run' = block.command /\ arguments' = <<>>
  /\ UNCHANGED <<block, todo, then, feeding, slots, host, history, resets, cuts>>

\* install_slot_b, run_power_install: the arguments are read one by one
FetchArgument ==
  /\ pc = "fetch"
  /\ LET left == ArgumentsOf(run[1]) \ DOMAIN arguments
         next == IF "argument0" \in left THEN "argument0" ELSE "argument1"
     IN /\ left # {}
        /\ arguments' = [a \in DOMAIN arguments \cup {next} |->
                           IF a = next THEN block[a] ELSE arguments[a]]
  /\ UNCHANGED <<block, pc, run, todo, then, feeding, slots, host, history, resets, cuts>>

Fetched ==
  /\ pc = "fetch"
  /\ DOMAIN arguments = ArgumentsOf(run[1])
  /\ pc' = "work"
  /\ UNCHANGED <<block, run, arguments, todo, then, feeding, slots, host, history, resets, cuts>>

\* What the handler's library calls have done to the pending mark; a save that
\* reported an error may have been made (IapCore!SaveControl), one that stopped was
\* not, and no handler can mark the active slot.
Marks(end) ==
  \/ /\ \/ end.at = "boot" /\ pending # "CURRENT"
        \/ /\ pending = "NONE" /\ ~Refuses
           /\ \/ run[1] \in {"INSTALL", "POWER_INSTALL"} /\ end = ErrorWhileBusy
              \/ run[1] \in {"ACTIVATE", "CHECK"} /\ end = ReportError
     /\ pending' = "OTHER" /\ attempts' = 0
  \/ /\ run[1] = "CONFIRM" /\ end \in {Success, ReportError}
     /\ pending' = "NONE" /\ attempts' = 0
  \/ /\ end.at # "boot" /\ ~(run[1] = "CONFIRM" /\ end = Success)
     /\ UNCHANGED <<pending, attempts>>

\* The handler runs; what it does to the slots is IapDevice's business.
Work ==
  /\ pc = "work"
  /\ \E end \in Handler :
       /\ todo' = end.writes
       /\ then' = [at |-> end.at, feed |-> end.feed]
       /\ Marks(end)
  /\ pc' = "put"
  /\ UNCHANGED <<block, run, arguments, feeding, inA, host, history, resets, cuts>>

\* The store is blind: a command that is not the one being handled is gone.
PutWord ==
  /\ pc = "put" /\ todo # <<>>
  /\ block' = [block EXCEPT ![Head(todo).word] = Head(todo).value]
  /\ todo' = Tail(todo)
  /\ lost' = IF Head(todo).word = "command" /\ block.version /\ block.command \notin {None, run}
               THEN block.command[2]
               ELSE lost
  /\ answered' = IF Head(todo).word = "status" /\ Head(todo).value[1] \in Answer
                   THEN Head(todo).value[2]
                   ELSE answered
  /\ UNCHANGED <<pc, run, arguments, then, feeding, slots, host, again, resets, cuts>>

\* The main loop goes on, or the device rests: stm32_iap_power_cut_pause and the
\* recovery loop feed the watchdog for ever.
HandlerReturns ==
  /\ pc = "put" /\ todo = <<>> /\ then.at # "boot"
  /\ pc' = then.at /\ feeding' = then.feed /\ arguments' = <<>>
  /\ run' = IF then.at = "stopped" THEN run ELSE None
  /\ again' = IF then.at = "poll" /\ run # None THEN 0 ELSE again
  /\ UNCHANGED <<block, todo, then, slots, host, lost, answered, resets, cuts>>

\* stm32_iap_system_reset after the other slot was marked
HandlerResets ==
  /\ pc = "put" /\ todo = <<>> /\ then.at = "boot"
  /\ Restart
  /\ UNCHANGED <<block, host, again, resets, cuts>>

\* The boot loader starts it before the jump.
Watchdog ==
  /\ ~feeding \/ pc = "hung"
  /\ Restart
  /\ UNCHANGED <<block, host, again, resets, cuts>>

ResetButton ==
  /\ resets < MaxResets
  /\ resets' = resets + 1
  /\ Restart
  /\ again' = IF run # None /\ answered = run[2] THEN run[2] ELSE again
  /\ UNCHANGED <<block, host, cuts>>

\* RAM is noise afterwards, but for what it happens to keep; it does not
\* happen to keep or to form both stamps.  The probe loses its target.
PowerCut ==
  /\ cuts < MaxCuts
  /\ cuts' = cuts + 1
  /\ Restart
  /\ hostAt' = 0
  /\ \E magic, version \in BOOLEAN, kept \in BOOLEAN :
       /\ ~(magic /\ version)
       /\ block' = [magic |-> magic, version |-> version,
                    argument0 |-> NoisePost, argument1 |-> NoisePost,
                    status |-> <<Noise, 0>>, detail |-> <<Noise, 0>>,
                    command |-> IF kept THEN block.command ELSE <<Noise, 0>>]
  /\ UNCHANGED <<hostCmd, posts, again, resets>>

-----------------------------------------------------------------------------
(***************************************************************************)
(* The host.                                                               *)
(***************************************************************************)

\* The guide posts when the last command is through, or the slot reports that
\* it is held for a confirmation or a failure; at a stop it cuts the power.
Idle ==
  /\ block.magic /\ block.version
  /\ \/ block.command = None
     \/ block.command[1] = "HOLD" /\ block.status[1] = "held"

BeginPost ==
  /\ hostAt = 0 /\ posts < MaxPosts
  /\ Idle
  /\ hostAt' = 1 /\ posts' = posts + 1
  /\ hostCmd' \in Command
  /\ UNCHANGED <<block, device, history, resets, cuts>>

\* The probe downloads the next word of the block.
HostWord ==
  /\ hostAt # 0
  /\ block' = [block EXCEPT ![Layout[hostAt]] = Posted(Layout[hostAt])]
  /\ hostAt' = IF hostAt = Len(Layout) THEN 0 ELSE hostAt + 1
  /\ UNCHANGED <<device, hostCmd, posts, history, resets, cuts>>

-----------------------------------------------------------------------------
Init ==
  /\ block = [magic |-> FALSE, version |-> FALSE, argument0 |-> NoisePost, argument1 |-> NoisePost,
              status |-> <<Noise, 0>>, detail |-> <<Noise, 0>>, command |-> <<Noise, 0>>]
  /\ pc = "boot" /\ run = None /\ arguments = <<>> /\ todo = <<>>
  /\ then = [at |-> "poll", feed |-> TRUE]
  /\ feeding = TRUE /\ pending = "NONE" /\ attempts = 0 /\ inA = TRUE
  /\ hostAt = 0 /\ hostCmd = "CHECK" /\ posts = 0 /\ resets = 0 /\ cuts = 0
  /\ lost = 0 /\ answered = 0 /\ again = 0

DeviceStep ==
  Boot \/ Poll \/ FetchArgument \/ Fetched \/ Work \/ PutWord \/ HandlerReturns \/ HandlerResets

Next == DeviceStep \/ Watchdog \/ ResetButton \/ PowerCut \/ BeginPost \/ HostWord

Spec == Init /\ [][Next]_vars

\* The processor runs, a watchdog that is not fed fires, and a download that
\* has begun comes to its end.
FairSpec == Spec /\ WF_vars(DeviceStep) /\ WF_vars(Watchdog) /\ WF_vars(HostWord)

-----------------------------------------------------------------------------
(***************************************************************************)
(* Properties.                                                             *)
(***************************************************************************)

\* A handler works on the arguments of the post its command came with, though
\* command and arguments are written and read word by word
\* (test_app_main.c:34, 394-395; the command is the last word of the block).
ArgumentsMatch ==
  pc = "work" => \A a \in DOMAIN arguments : arguments[a] = run[2]

\* The device never takes a command that nobody posted: what a power cut left
\* in the command word is cleared before the main loop looks
\* (stm32_iap_test_control_init).
NothingUnposted == run[1] # Noise /\ (run # None => run[2] \in Post)

\* When the device polls an empty command word and the probe is still, status
\* and detail belong together and to the last post, or to the boot since; unless
\* the last post is one of those that PostNeverOverwritten admits to be lost
\* (test_app_main.c:19-23, 89-90, 118-128).
QuietMeansAnswered ==
  pc = "poll" /\ block.command = None /\ hostAt = 0
    => \/ lost = posts
       \/ /\ block.status = block.detail
          /\ \/ block.status[1] = "boot"
             \/ block.status[1] \in Answer /\ block.status[2] = posts

\* A step of the device replaces only the command it is handling, but in one
\* handler.  The host may post over HOLD_PENDING, and report_pending_state clears
\* the word, for the command it read before, in two cases: its load failed
\* (test_app_main.c:118-121), or the trial is over, which needs a press of the
\* button after the host read that the slot is held (124-128).
PostNeverOverwritten ==
  [][PutWord /\ block'.command # block.command
       => \/ block.command = run \/ ~block.version
          \/ /\ run[1] = "HOLD"
             /\ todo = ClearCommand \/ (pending = "NONE" /\ resets > 0)]_vars

\* main polls a level, not an edge: a command that was answered, be it before a
\* restart, must be out of the word before the loop looks again, or an install
\* would erase the slot a second time.  Only the commands that wait for a restart
\* stay; and a press of the button between the answer and the clearing, or at a
\* stop, lets the handler it cut short run once more (test_app_main.c:19-23, 66,
\* 104-110, 131).
NeverHandledAgain ==
  pc = "poll" /\ block.command[1] \notin {"NONE", "HOLD", "FAIL"}
    => block.command[2] # answered \/ block.command[2] = again

\* Every post of a host that follows the guide is answered, whatever happened
\* before it, also when the slot that a command marks turns out to hang: once the
\* command word is posted, a status that answers this post is reported.  Unless
\* the host itself goes on to its next post (it may, over a command that is held),
\* the post is lost as above, somebody resets the board or cuts its power
\* meanwhile, or no application comes to run: the boot loader stays in recovery,
\* or the image that is not on trial hangs.
PostAnswered ==
  \A p \in Post, n \in 0 .. MaxResets + MaxCuts :
    (/\ block.magic /\ block.version /\ hostAt = 0
     /\ posts = p /\ block.command[1] \in Command /\ block.command[2] = p
     /\ resets + cuts = n)
      ~> \/ answered = p \/ posts > p \/ lost = p \/ resets + cuts > n
         \/ pc = "recovery" \/ (pc = "hung" /\ pending = "NONE")
=============================================================================
