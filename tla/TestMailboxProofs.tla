------------------------- MODULE TestMailboxProofs -------------------------
(***************************************************************************)
(* For any number of posts, presses of the reset button and power cuts:    *)
(* the application works on the arguments its command came with and takes  *)
(* only commands that were posted.  It replaces none but its own and a     *)
(* quiet block says what became of the last one, but for a post that came  *)
(* over a held slot whose trial the button ended or whose load failed.  It *)
(* takes none again that it has answered, but for one that waits for a     *)
(* restart or whose handler the button ended.                              *)
(***************************************************************************)
EXTENDS TestMailbox, Integers, SequenceTheorems, TLAPS

CommandWord == (Command \cup {"NONE", Noise}) \X (0 .. MaxPosts)
Stamp == [word : {"magic", "version"}, value : BOOLEAN]
ArgumentPut == [word : {"argument0", "argument1"}, value : 0 .. NoisePost]
SayPut == [word : {"status", "detail"}, value : Message]
CommandPut == [word : {"command"}, value : CommandWord]
Word == Stamp \cup ArgumentPut \cup SayPut \cup CommandPut

\* Words a handler writes: none is a stamp or an argument, and no command it
\* posts takes arguments.
HandlerPut ==
  SayPut \cup
    [word : {"command"}, value : {None} \cup ({"HOLD", "CONFIRM", "POWER_PAUSE"} \X Post)]

\* Words the wipe of an invalid block writes up to the command word.
WipePut ==
  [word : {"magic", "version"}, value : {FALSE}] \cup [word : {"argument0", "argument1"}, value : {0}]
    \cup [word : {"status", "detail"}, value : {<<"zero", 0>>}]

\* The report that boot loader and application are running.
BootPut(word) == [word |-> word, value |-> <<"boot", 0>>]

Valid == block.magic /\ block.version

\* What is left to write of a block that is being initialised: some of the wipe,
\* the command word, the two stamps, two reports.
InitTodo(t) ==
  /\ t \in Seq(Word) /\ Len(t) \in 5..13
  /\ \A i \in 1..Len(t) :
       /\ i < Len(t) - 6 => t[i] \in WipePut
       /\ i = Len(t) - 11 => t[i] = [word |-> "version", value |-> FALSE]
       /\ i = Len(t) - 6 => t[i] = [word |-> "command", value |-> None]
       /\ i = Len(t) - 5 => t[i] = [word |-> "magic", value |-> TRUE]
       /\ i = Len(t) - 4 => t[i] = [word |-> "version", value |-> TRUE]
       /\ i \in {Len(t) - 3, Len(t) - 1} => t[i] = BootPut("status")
       /\ i \in {Len(t) - 2, Len(t)} => t[i] = BootPut("detail")

\* Both reports of a boot are left to write.
BootTodo(t) ==
  /\ Len(t) = 4
  /\ t[1] = BootPut("status") /\ t[2] = BootPut("detail")
  /\ t[3] = BootPut("status") /\ t[4] = BootPut("detail")

Taken == run[1] \in Command /\ run[2] \in Post

DeviceOK ==
  /\ pc \in {"boot", "poll", "fetch", "work", "put"} \cup Resting
  /\ then.at \in {"poll", "boot"} \cup Resting /\ then.feed \in BOOLEAN
  /\ {feeding, inA} \subseteq BOOLEAN /\ pending \in Pending /\ attempts \in 0 .. MaxAttempts
  /\ run = None \/ (run \in Command \X Post)
  /\ pc \in {"fetch", "work"} => run # None
  /\ pc \in {"boot", "poll", "hung", "recovery"} => run = None
  /\ pc = "put" /\ then.at \in {"hung", "recovery"} => run = None

HostOK ==
  /\ hostAt \in 0 .. 7 /\ hostCmd \in Command /\ {posts, lost, answered, again} \subseteq 0 .. MaxPosts
  /\ resets \in 0 .. MaxResets /\ cuts \in 0 .. MaxCuts

\* An invalid block is about to be wiped, or being wiped, and nobody posts.
WipeOK ==
  ~Valid =>
    /\ hostAt = 0
    /\ \/ pc = "boot"
       \/ /\ pc = "put" /\ InitTodo(todo) /\ then.at # "boot" /\ run = None
          /\ Len(todo) < 12 => ~block.version
          /\ Len(todo) < 7 => block.command = None
          /\ Len(todo) < 6 => block.magic

\* A command in a valid block was posted, and its arguments with it.
BlockOK ==
  Valid =>
    /\ block.command = None \/ block.command \in Command \X Post
    /\ block.command[1] \in DOMAIN Arguments =>
         /\ hostAt = 0
         /\ \A a \in ArgumentsOf(block.command[1]) : block[a] = block.command[2]
    /\ hostAt # 0 => posts \in Post
    /\ hostAt > 3 => block.argument0 = posts
    /\ hostAt > 4 => block.argument1 = posts
    /\ pc = "put" => todo \in Seq(HandlerPut)

\* What was read of the arguments came with the command; a command whose
\* arguments are being read is still in its word.
FetchOK ==
  /\ \A a \in DOMAIN arguments : arguments[a] = run[2]
  /\ pc \in {"fetch", "work"} => DOMAIN arguments \subseteq ArgumentsOf(run[1])
  /\ pc = "fetch" /\ run[1] \in DOMAIN Arguments => block.command = run
  /\ pc = "work" => DOMAIN arguments = ArgumentsOf(run[1])

MailInv ==
  /\ block \in Block /\ DeviceOK /\ HostOK
  /\ pc # "put" => todo = <<>>
  /\ WipeOK /\ BlockOK /\ FetchOK

-----------------------------------------------------------------------------
(***************************************************************************)
(* The constants, the words and the sequences of them.                     *)
(***************************************************************************)

\* What the bounds say.
LEMMA PostFacts ==
  /\ MaxAttempts \in Nat /\ MaxAttempts >= 1 /\ MaxResets \in Nat /\ MaxCuts \in Nat
  /\ MaxPosts \in Nat /\ MaxPosts >= 1 /\ Post \subseteq 0 .. MaxPosts /\ Post \subseteq Nat
  /\ NoisePost \in Nat /\ 0 .. MaxPosts \subseteq 0 .. NoisePost /\ 0 \in 0 .. NoisePost
  /\ 0 \notin Post
BY MailboxAssumption DEF Post, NoisePost

\* Only two commands take arguments, and those the words argument0 and argument1.
LEMMA ArgumentFacts ==
  /\ DOMAIN Arguments = {"INSTALL", "POWER_INSTALL"}
  /\ \A c : ArgumentsOf(c) = IF c = "INSTALL" THEN {"argument0"}
                             ELSE IF c = "POWER_INSTALL" THEN {"argument0", "argument1"} ELSE {}
BY DEF Arguments, ArgumentsOf

\* The words written, by kind.
LEMMA PutFacts ==
  /\ HandlerPut \subseteq Word /\ WipePut \subseteq Word /\ SayPut \subseteq HandlerPut
  /\ \A m \in Message : \A w \in {"status", "detail"} : [word |-> w, value |-> m] \in SayPut
  /\ [word |-> "command", value |-> None] \in HandlerPut
  /\ None \in CommandWord
<1>1. None \in CommandWord
  BY PostFacts DEF None, CommandWord
<1>2. {"HOLD", "CONFIRM", "POWER_PAUSE"} \X Post \subseteq CommandWord
  BY PostFacts DEF CommandWord, Command
<1>3. [word : {"command"}, value : {None} \cup ({"HOLD", "CONFIRM", "POWER_PAUSE"} \X Post)]
        \subseteq CommandPut
  BY <1>1, <1>2 DEF CommandPut
<1>4. WipePut \subseteq Word
  <2>1. <<"zero", 0>> \in Message
    BY PostFacts DEF Message
  <2> QED
    BY <2>1, PostFacts DEF WipePut, Word, Stamp, ArgumentPut, SayPut
<1> QED
  BY <1>1, <1>3, <1>4 DEF HandlerPut, Word, SayPut

\* The words of a boot's report.
LEMMA BootTyped == BootPut("status") \in SayPut /\ BootPut("detail") \in SayPut
<1>1. <<"boot", 0>> \in Message
  BY PostFacts DEF Message
<1> QED
  BY <1>1, PutFacts DEF BootPut

\* What one written word changes.
LEMMA WordPut ==
  ASSUME block \in Block, NEW w, w \in Word, block' = [block EXCEPT ![w.word] = w.value]
  PROVE  /\ block' \in Block
         /\ w \notin Stamp => block'.magic = block.magic /\ block'.version = block.version
         /\ w \notin ArgumentPut =>
              block'.argument0 = block.argument0 /\ block'.argument1 = block.argument1
         /\ w \notin CommandPut => block'.command = block.command
         /\ w \in CommandPut => block'.command = w.value
         /\ w.word = "magic" => block'.magic = w.value /\ block'.version = block.version
         /\ w.word = "version" => block'.version = w.value /\ block'.magic = block.magic
<1>1. CASE w \in Stamp
  BY <1>1 DEF Block, Stamp, ArgumentPut, CommandPut
<1>2. CASE w \in ArgumentPut
  BY <1>2 DEF Block, Stamp, ArgumentPut, CommandPut
<1>3. CASE w \in SayPut
  BY <1>3 DEF Block, Stamp, ArgumentPut, CommandPut, SayPut
<1>4. CASE w \in CommandPut
  BY <1>4 DEF Block, Stamp, ArgumentPut, CommandPut, CommandWord
<1> QED
  BY <1>1, <1>2, <1>3, <1>4 DEF Word

\* A sequence of one word.
LEMMA Single ==
  ASSUME NEW S, NEW e \in S
  PROVE  <<e>> \in Seq(S) /\ Len(<<e>>) = 1 /\ <<e>>[1] = e
OBVIOUS

\* A sequence is one of its elements.
LEMMA SeqOf ==
  ASSUME NEW S, NEW T, NEW s \in Seq(S), \A i \in 1..Len(s) : s[i] \in T
  PROVE  s \in Seq(T)
OBVIOUS

\* t is s with the elements of r behind it.
Joins(t, s, r, S) ==
  /\ t \in Seq(S) /\ Len(t) = Len(s) + Len(r)
  /\ \A i \in 1..Len(s) : t[i] = s[i]
  /\ \A i \in 1..Len(r) : t[Len(s) + i] = r[i]

\* The two sequences joined by \o.
LEMMA Concatenation ==
  ASSUME NEW S, NEW s \in Seq(S), NEW r \in Seq(S)
  PROVE  Joins(s \o r, s, r, S)
<1>1. s \o r \in Seq(S)
  BY ConcatProperties, Zenon
<1>2. Len(s \o r) = Len(s) + Len(r)
  BY ConcatProperties, Zenon
<1>3. \A i \in 1..(Len(s) + Len(r)) : (s \o r)[i] = IF i <= Len(s) THEN s[i] ELSE r[i - Len(s)]
  BY ConcatProperties, SMT
<1> QED
  BY <1>1, <1>2, <1>3 DEF Joins

\* Two words in a row.
LEMMA Pair ==
  ASSUME NEW S, NEW s \in Seq(S), NEW r \in Seq(S), Len(s) = 1, Len(r) = 1,
         NEW t, Joins(t, s, r, S)
  PROVE  t \in Seq(S) /\ Len(t) = 2 /\ t[1] = s[1] /\ t[2] = r[1]
BY DEF Joins

\* Writing status and detail.
LEMMA SayTyped ==
  ASSUME NEW m \in Message
  PROVE  LET t == Put("status", m) \o Put("detail", m)
         IN /\ t \in Seq(SayPut) /\ Len(t) = 2
            /\ t[1] = [word |-> "status", value |-> m] /\ t[2] = [word |-> "detail", value |-> m]
<1> DEFINE e == [word |-> "status", value |-> m]
           f == [word |-> "detail", value |-> m]
           t == <<e>> \o <<f>>
<1>1. e \in SayPut /\ f \in SayPut
  BY PutFacts
<1>2. t = Put("status", m) \o Put("detail", m)
  BY DEF Put
<1> HIDE DEF e, f
<1>3. /\ <<e>> \in Seq(SayPut) /\ Len(<<e>>) = 1 /\ <<e>>[1] = e
      /\ <<f>> \in Seq(SayPut) /\ Len(<<f>>) = 1 /\ <<f>>[1] = f
  BY <1>1, Single
<1>4. Joins(t, <<e>>, <<f>>, SayPut)
  BY <1>3, Concatenation
<1> HIDE DEF t
<1>5. t \in Seq(SayPut) /\ Len(t) = 2 /\ t[1] = <<e>>[1] /\ t[2] = <<f>>[1]
  BY <1>3, <1>4, Pair, Zenon
<1> QED
  BY <1>2, <1>3, <1>5 DEF e, f

\* An invalid block is written in the order InitTodo says.
LEMMA WipeBegins ==
  ASSUME block \in Block, ~Valid
  PROVE  /\ InitTodo(ControlInit(block) \o SayBoot \o SayBoot)
         /\ Len(ControlInit(block) \o SayBoot \o SayBoot) = 13
<1> DEFINE e1 == [word |-> "magic", value |-> FALSE]
           e2 == [word |-> "version", value |-> FALSE]
           e3 == [word |-> "argument0", value |-> 0]
           e4 == [word |-> "argument1", value |-> 0]
           e5 == [word |-> "status", value |-> <<"zero", 0>>]
           e6 == [word |-> "detail", value |-> <<"zero", 0>>]
           e7 == [word |-> "command", value |-> None]
           e8 == [word |-> "magic", value |-> TRUE]
           e9 == [word |-> "version", value |-> TRUE]
           wipe == <<e1>> \o <<e2>> \o <<e3>> \o <<e4>> \o <<e5>> \o <<e6>>
<1>1. ControlInit(block) = wipe \o <<e7>> \o <<e8>> \o <<e9>>
  BY DEF ControlInit, Put, Valid
<1>2. e1 \in WipePut /\ e2 \in WipePut /\ e3 \in WipePut /\ e4 \in WipePut /\ e5 \in WipePut
      /\ e6 \in WipePut
  <2>1. <<"zero", 0>> \in Message
    BY PostFacts DEF Message
  <2> QED
    BY <2>1, PutFacts DEF WipePut, SayPut
<1>3. e7 \in Word /\ e8 \in Word /\ e9 \in Word
  BY PutFacts DEF Word, Stamp
<1> HIDE DEF e1, e2, e3, e4, e5, e6, e7, e8, e9
<1>4. wipe \in Seq(WipePut) /\ Len(wipe) = 6
  BY <1>2
<1>a. wipe[2] = e2
  BY <1>2
<1> HIDE DEF wipe
<1>5. /\ wipe \in Seq(Word) /\ <<e7>> \in Seq(Word) /\ <<e8>> \in Seq(Word) /\ <<e9>> \in Seq(Word)
      /\ Len(<<e7>>) = 1 /\ Len(<<e8>>) = 1 /\ Len(<<e9>>) = 1
      /\ <<e7>>[1] = e7 /\ <<e8>>[1] = e8 /\ <<e9>>[1] = e9
      /\ \A i \in 1..6 : wipe[i] \in WipePut
  <2>1. wipe \in Seq(Word)
    BY <1>4, PutFacts, SeqMonotonic
  <2> QED
    BY <1>3, <1>4, <2>1, Single, ElementOfSeq
<1> DEFINE c7 == wipe \o <<e7>>
           c8 == c7 \o <<e8>>
           c9 == c8 \o <<e9>>
           b1 == c9 \o SayBoot
           b2 == b1 \o SayBoot
<1>6. c9 = ControlInit(block) /\ b2 = ControlInit(block) \o SayBoot \o SayBoot
  BY <1>1
<1>7. Joins(c7, wipe, <<e7>>, Word)
  BY <1>5, Concatenation
<1>8. c7 \in Seq(Word)
  BY <1>7 DEF Joins
<1>9. Joins(c8, c7, <<e8>>, Word)
  BY <1>5, <1>8, Concatenation
<1>10. c8 \in Seq(Word)
  BY <1>9 DEF Joins
<1>11. Joins(c9, c8, <<e9>>, Word)
  BY <1>5, <1>10, Concatenation
<1>12. c9 \in Seq(Word)
  BY <1>11 DEF Joins
<1>13. /\ SayBoot \in Seq(Word) /\ Len(SayBoot) = 2
       /\ SayBoot[1] = BootPut("status") /\ SayBoot[2] = BootPut("detail")
  <2>1. <<"boot", 0>> \in Message
    BY PostFacts DEF Message
  <2>2. /\ SayBoot \in Seq(SayPut) /\ Len(SayBoot) = 2
        /\ SayBoot[1] = BootPut("status") /\ SayBoot[2] = BootPut("detail")
    BY <2>1, SayTyped DEF SayBoot, BootPut
  <2>3. SayPut \subseteq Word
    BY DEF Word
  <2> QED
    BY <2>2, <2>3, SeqMonotonic, ElementOfSeq
<1>14. Joins(b1, c9, SayBoot, Word)
  BY <1>12, <1>13, Concatenation
<1>15. b1 \in Seq(Word)
  BY <1>14 DEF Joins
<1>16. Joins(b2, b1, SayBoot, Word)
  BY <1>13, <1>15, Concatenation
<1> HIDE DEF c7, c8, c9, b1, b2
<1>17. Len(c7) = 7 /\ (\A i \in 1..6 : c7[i] \in WipePut) /\ c7[7] = e7 /\ c7[2] = e2
  BY <1>a, <1>4, <1>5, <1>7 DEF Joins
<1>18. Len(c8) = 8 /\ (\A i \in 1..7 : c8[i] = c7[i]) /\ c8[8] = e8
  BY <1>5, <1>9, <1>17 DEF Joins
<1>19. Len(c9) = 9 /\ (\A i \in 1..8 : c9[i] = c8[i]) /\ c9[9] = e9
  BY <1>5, <1>11, <1>18 DEF Joins
<1>20. /\ Len(b1) = 11 /\ (\A i \in 1..9 : b1[i] = c9[i])
       /\ b1[10] = BootPut("status") /\ b1[11] = BootPut("detail")
  BY <1>13, <1>14, <1>19 DEF Joins
<1>21. /\ b2 \in Seq(Word) /\ Len(b2) = 13 /\ (\A i \in 1..11 : b2[i] = b1[i])
       /\ b2[12] = BootPut("status") /\ b2[13] = BootPut("detail")
  BY <1>13, <1>16, <1>20 DEF Joins
<1>22. /\ \A i \in 1..6 : b2[i] \in WipePut
       /\ b2[2] = e2 /\ b2[7] = e7 /\ b2[8] = e8 /\ b2[9] = e9
       /\ b2[10] = BootPut("status") /\ b2[11] = BootPut("detail")
  BY <1>17, <1>18, <1>19, <1>20, <1>21
<1>23. InitTodo(b2)
  <2>1. ASSUME NEW i \in 1..13
        PROVE  \/ i < 7 /\ b2[i] \in WipePut
               \/ i = 7 /\ b2[i] = e7
               \/ i = 8 /\ b2[i] = e8
               \/ i = 9 /\ b2[i] = e9
               \/ i \in {10, 12} /\ b2[i] = BootPut("status")
               \/ i \in {11, 13} /\ b2[i] = BootPut("detail")
    <3>1. i < 7 \/ i \in {7, 8, 9, 10, 11, 12, 13}
      OBVIOUS
    <3> QED
      BY <1>21, <1>22, <3>1
  <2> QED
    BY <1>21, <1>22, <2>1 DEF InitTodo, e2, e7, e8, e9
<1> QED
  BY <1>6, <1>21, <1>23

\* A wipe that is not at its end goes on.
LEMMA Shorter ==
  ASSUME NEW L \in 5..13, L > 5
  PROVE  L - 1 \in 5..13
OBVIOUS

\* What is left of it after the next word.
LEMMA WipeGoesOn ==
  ASSUME NEW t, t \in Seq(Word), NEW L \in 5..13, L = Len(t), InitTodo(t),
         NEW w, w = Head(t), NEW u, u = Tail(t)
  PROVE  /\ w \in Word /\ t # <<>> /\ L \in 5..13
         /\ L > 7 => w \in WipePut
         /\ L = 12 => w = [word |-> "version", value |-> FALSE]
         /\ L = 7 => w = [word |-> "command", value |-> None]
         /\ L = 6 => w = [word |-> "magic", value |-> TRUE]
         /\ L = 5 => w = [word |-> "version", value |-> TRUE]
         /\ L > 5 => InitTodo(u) /\ Len(u) = L - 1
         /\ L = 5 => u \in Seq(HandlerPut) /\ BootTodo(u)
<1>1. t \in Seq(Word) /\ L \in 5..13 /\ t # <<>>
  <2>1. t = <<>> => Len(t) = 0
    OBVIOUS
  <2>2. L # 0
    OBVIOUS
  <2> QED
    BY <2>1, <2>2, Zenon
<1>2. w = t[1] /\ u \in Seq(Word) /\ Len(u) = L - 1 /\ \A i \in 1..(L - 1) : u[i] = t[i + 1]
  BY <1>1, HeadTailProperties
<1>3. \A i \in 1..L :
        /\ i < L - 6 => t[i] \in WipePut
        /\ i = L - 11 => t[i] = [word |-> "version", value |-> FALSE]
        /\ i = L - 6 => t[i] = [word |-> "command", value |-> None]
        /\ i = L - 5 => t[i] = [word |-> "magic", value |-> TRUE]
        /\ i = L - 4 => t[i] = [word |-> "version", value |-> TRUE]
        /\ i \in {L - 3, L - 1} => t[i] = BootPut("status")
        /\ i \in {L - 2, L} => t[i] = BootPut("detail")
  BY DEF InitTodo
<1>4. w \in Word
  BY <1>1, <1>2, ElementOfSeq
<1>5. /\ L > 7 => w \in WipePut
      /\ L = 12 => w = [word |-> "version", value |-> FALSE]
      /\ L = 7 => w = [word |-> "command", value |-> None]
      /\ L = 6 => w = [word |-> "magic", value |-> TRUE]
      /\ L = 5 => w = [word |-> "version", value |-> TRUE]
  <2>1. 1 \in 1..L
    BY <1>1
  <2>2. /\ 1 < L - 6 => w \in WipePut
        /\ 1 = L - 11 => w = [word |-> "version", value |-> FALSE]
        /\ 1 = L - 6 => w = [word |-> "command", value |-> None]
        /\ 1 = L - 5 => w = [word |-> "magic", value |-> TRUE]
        /\ 1 = L - 4 => w = [word |-> "version", value |-> TRUE]
    BY <1>2, <1>3, <2>1
  <2>3. /\ L > 7 => 1 < L - 6
        /\ L = 12 => 1 = L - 11
        /\ L = 7 => 1 = L - 6
        /\ L = 6 => 1 = L - 5
        /\ L = 5 => 1 = L - 4
    BY <1>1
  <2> QED
    BY <2>2, <2>3
<1>6. \A i \in 1..(L - 1) :
        /\ i < L - 7 => u[i] \in WipePut
        /\ i = L - 12 => u[i] = [word |-> "version", value |-> FALSE]
        /\ i = L - 7 => u[i] = [word |-> "command", value |-> None]
        /\ i = L - 6 => u[i] = [word |-> "magic", value |-> TRUE]
        /\ i = L - 5 => u[i] = [word |-> "version", value |-> TRUE]
        /\ i \in {L - 4, L - 2} => u[i] = BootPut("status")
        /\ i \in {L - 3, L - 1} => u[i] = BootPut("detail")
  <2> SUFFICES ASSUME NEW i \in 1..(L - 1)
               PROVE  /\ i < L - 7 => u[i] \in WipePut
                      /\ i = L - 12 => u[i] = [word |-> "version", value |-> FALSE]
                      /\ i = L - 7 => u[i] = [word |-> "command", value |-> None]
                      /\ i = L - 6 => u[i] = [word |-> "magic", value |-> TRUE]
                      /\ i = L - 5 => u[i] = [word |-> "version", value |-> TRUE]
                      /\ i \in {L - 4, L - 2} => u[i] = BootPut("status")
                      /\ i \in {L - 3, L - 1} => u[i] = BootPut("detail")
    OBVIOUS
  <2>1. u[i] = t[i + 1] /\ i + 1 \in 1..L /\ i \in Int /\ L \in Int
    BY <1>1, <1>2
  <2> QED
    BY <1>3, <2>1
<1>7. L > 5 => InitTodo(u)
  <2>1. ASSUME NEW K, K = L - 1, L > 5
        PROVE  /\ K \in 5..13
               /\ \A i \in 1..K :
                    /\ i < K - 6 => u[i] \in WipePut
                    /\ i = K - 11 => u[i] = [word |-> "version", value |-> FALSE]
                    /\ i = K - 6 => u[i] = [word |-> "command", value |-> None]
                    /\ i = K - 5 => u[i] = [word |-> "magic", value |-> TRUE]
                    /\ i = K - 4 => u[i] = [word |-> "version", value |-> TRUE]
                    /\ i \in {K - 3, K - 1} => u[i] = BootPut("status")
                    /\ i \in {K - 2, K} => u[i] = BootPut("detail")
    <3>1. K \in 5..13
      BY <2>1, Shorter, Zenon
    <3>2. K - 6 = L - 7 /\ K - 11 = L - 12 /\ K - 5 = L - 6 /\ K - 4 = L - 5
          /\ K - 3 = L - 4 /\ K - 2 = L - 3 /\ K - 1 = L - 2 /\ K = L - 1
      BY <2>1
    <3> QED
      BY <1>6, <2>1, <3>1, <3>2
  <2> QED
    BY <1>2, <2>1 DEF InitTodo
<1>8. L = 5 => u \in Seq(HandlerPut) /\ BootTodo(u)
  <2> SUFFICES ASSUME L = 5 PROVE u \in Seq(HandlerPut) /\ BootTodo(u)
    OBVIOUS
  <2>1. BootTodo(u)
    <3>1. 1 \in 1..(L - 1) /\ 2 \in 1..(L - 1) /\ 3 \in 1..(L - 1) /\ 4 \in 1..(L - 1)
      OBVIOUS
    <3>2. /\ 1 = L - 4 /\ 3 = L - 2 /\ 2 = L - 3 /\ 4 = L - 1
      OBVIOUS
    <3>3. u[1] = BootPut("status") /\ u[2] = BootPut("detail")
      BY <1>6, <3>1, <3>2
    <3>4. u[3] = BootPut("status") /\ u[4] = BootPut("detail")
      BY <1>6, <3>1, <3>2
    <3>5. Len(u) = 4
      BY <1>2
    <3> QED
      BY <3>3, <3>4, <3>5, Zenon DEF BootTodo
  <2>2. BootPut("status") \in HandlerPut /\ BootPut("detail") \in HandlerPut
    BY BootTyped, PutFacts
  <2>3. \A i \in 1..Len(u) : u[i] \in HandlerPut
    <3>1. \A i \in 1..4 : i = 1 \/ i = 2 \/ i = 3 \/ i = 4
      OBVIOUS
    <3> QED
      BY <2>1, <2>2, <3>1 DEF BootTodo
  <2> QED
    BY <1>2, <2>1, <2>3, SeqOf
<1> QED
  BY <1>1, <1>2, <1>4, <1>5, <1>7, <1>8

\* What a handler says is about the command it handles.
OwnPut == {w \in HandlerPut : w.word = "status" => w.value[2] = run[2]}

\* A handler writes status, detail and command, and goes on, stops or resets.
LEMMA HandlerWrites ==
  ASSUME run \in Command \X Post, feeding \in BOOLEAN, NEW end \in Handler
  PROVE  /\ end.writes \in Seq(HandlerPut) /\ end.writes \in Seq(OwnPut)
         /\ end.at \in {"poll", "boot", "stopped"} /\ end.feed \in BOOLEAN
<1> DEFINE H == Seq(OwnPut)
<1>1. \A s, t \in H : s \o t \in H
  BY ConcatProperties
<1>2. \A what \in Answer \cup {"busy"} : Say(what) \in H
  <2> SUFFICES ASSUME NEW what \in Answer \cup {"busy"} PROVE Say(what) \in H
    OBVIOUS
  <2> DEFINE m == <<what, run[2]>>
             e == [word |-> "status", value |-> m]
             f == [word |-> "detail", value |-> m]
  <2>1. m \in Message
    BY PostFacts DEF Message
  <2>2. Say(what) \in Seq(SayPut) /\ Len(Say(what)) = 2 /\ Say(what)[1] = e /\ Say(what)[2] = f
    BY <2>1, SayTyped DEF Say
  <2>3. e \in OwnPut /\ f \in OwnPut
    BY <2>1, PutFacts DEF OwnPut
  <2> HIDE DEF e, f
  <2>4. \A i \in 1..Len(Say(what)) : Say(what)[i] \in OwnPut
    BY <2>2, <2>3
  <2> QED
    BY <2>2, <2>4, SeqOf
<1>3. ClearCommand \in H
  BY PutFacts, Single DEF ClearCommand, Put, OwnPut
<1>4. \A c \in {"HOLD", "CONFIRM", "POWER_PAUSE"} : SetCommand(c) \in H
  <2> SUFFICES ASSUME NEW c \in {"HOLD", "CONFIRM", "POWER_PAUSE"} PROVE SetCommand(c) \in H
    OBVIOUS
  <2>1. [word |-> "command", value |-> <<c, run[2]>>] \in OwnPut
    BY DEF HandlerPut, OwnPut
  <2> QED
    BY <2>1, Single DEF SetCommand, Put
<1> DEFINE Good(e) == e.writes \in H /\ e.at \in {"poll", "boot", "stopped"} /\ e.feed \in BOOLEAN
<1>5. \A writes \in H : \A at \in {"poll", "boot", "stopped"} : Good(Ends(writes, at))
  BY DEF Ends
<1>6. /\ Say("busy") \in H /\ Say("error") \in H /\ Say("done") \in H /\ Say("held") \in H
      /\ Say("failing") \in H /\ Say("armed") \in H
  BY <1>2 DEF Answer
<1>7. Good(ReportError) /\ Good(Success)
  BY <1>1, <1>3, <1>5, <1>6 DEF ReportError, Success
<1>8. Good(Ends(Say("busy") \o Say("error") \o ClearCommand, "poll"))
  BY <1>1, <1>3, <1>5, <1>6
<1>9. \A e \in Installs : Good(e)
  <2>1. /\ Good(Ends(Say("busy") \o Say("done") \o SetCommand("HOLD"), "boot"))
        /\ Good(Ends(Say("busy") \o Say("armed"), "stopped"))
    BY <1>1, <1>4, <1>5, <1>6
  <2> HIDE DEF Good
  <2> QED
    BY <1>7, <1>8, <2>1 DEF Installs, ErrorWhileBusy
<1>10. \A e \in PowerInstalls : Good(e)
  <2>1. /\ Good(Ends(Say("busy") \o Say("armed"), "stopped"))
        /\ Good(Ends(Say("busy") \o SetCommand("HOLD"), "boot"))
        /\ Good(Ends(Say("busy") \o SetCommand("POWER_PAUSE"), "boot"))
    BY <1>1, <1>4, <1>5, <1>6
  <2> HIDE DEF Good
  <2> QED
    BY <1>7, <1>8, <2>1 DEF PowerInstalls, ErrorWhileBusy
<1>11. \A e \in Holds : Good(e)
  <2>1. Good(Ends(Say("held"), "poll"))
    BY <1>5, <1>6
  <2> HIDE DEF Good
  <2> QED
    BY <1>7, <2>1 DEF Holds
<1>12. \A e \in Fails : Good(e)
  <2>1. Success = [writes |-> ClearCommand \o Say("done"), at |-> "poll", feed |-> feeding]
    BY DEF Success, Ends
  <2>2. Good([Success EXCEPT !.feed = TRUE])
    BY <1>7, <2>1
  <2>3. Good([Ends(Say("failing"), "poll") EXCEPT !.feed = FALSE])
    BY <1>6 DEF Ends
  <2> HIDE DEF Good
  <2> QED
    BY <2>2, <2>3 DEF Fails
<1>13. /\ Good(Ends(SetCommand("CONFIRM") \o Say("busy"), "boot"))
       /\ Good(Stops)
  BY <1>1, <1>4, <1>5, <1>6 DEF Stops
<1> HIDE DEF Good
<1>14. \/ end \in Installs \cup PowerInstalls \cup Holds \cup Fails
       \/ end \in {ReportError, Success, Ends(SetCommand("CONFIRM") \o Say("busy"), "boot"),
                   Stops}
  BY DEF Handler
<1>15. Good(end)
  BY <1>7, <1>9, <1>10, <1>11, <1>12, <1>13, <1>14
<1>16. \A t \in H : t \in Seq(HandlerPut)
  BY SeqMonotonic DEF OwnPut
<1> QED
  BY <1>15, <1>16 DEF Good

-----------------------------------------------------------------------------
(***************************************************************************)
(* The invariant is inductive.                                             *)
(***************************************************************************)

\* A restarted device, with the block as it is and nobody posting if it is invalid.
LEMMA RestartKeeps ==
  ASSUME MailInv, Restart, block' = block, hostAt' = hostAt, posts' = posts, HostOK'
  PROVE  MailInv'
<1>1. DeviceOK'
  BY DEF MailInv, DeviceOK, Restart, slots, Resting
<1>2. WipeOK'
  BY DEF MailInv, WipeOK, Valid, Restart
<1>3. BlockOK'
  BY DEF MailInv, BlockOK, Valid, Restart
<1>4. FetchOK'
  BY DEF FetchOK, Restart
<1> QED
  BY <1>1, <1>2, <1>3, <1>4 DEF MailInv, Restart

\* The boot loader and the application check the block.
LEMMA BootKeeps ==
  ASSUME MailInv, Boot
  PROVE  MailInv'
<1>1. /\ pc = "boot" /\ pc' = "put" /\ run = None /\ todo' = ControlInit(block) \o SayBoot \o SayBoot
      /\ then'.at \in {"poll", "hung", "recovery"} /\ then'.feed = TRUE
      /\ TriesSlot \/ RollsBack \/ UNCHANGED slots
      /\ UNCHANGED <<block, run, arguments, feeding, hostAt, hostCmd, posts, lost, answered, again,
                     resets, cuts>>
  BY DEF Boot, host, history, MailInv, DeviceOK
<1>a. pending' \in Pending /\ inA' \in BOOLEAN /\ attempts' \in 0 .. MaxAttempts
  <2>a. inA \in BOOLEAN /\ attempts \in 0 .. MaxAttempts
    BY DEF MailInv, DeviceOK
  <2>1. CASE TriesSlot
    <3>1. attempts' \in 0 .. MaxAttempts
      BY <2>a, <2>1, PostFacts DEF TriesSlot
    <3>2. pending' \in Pending /\ inA' \in BOOLEAN
      BY <2>a, <2>1, Zenon DEF TriesSlot, Pending
    <3> QED
      BY <3>1, <3>2
  <2>2. CASE RollsBack
    <3>1. attempts' \in 0 .. MaxAttempts
      BY <2>2, PostFacts DEF RollsBack
    <3>2. pending' \in Pending /\ inA' \in BOOLEAN
      BY <2>a, <2>2, Zenon DEF RollsBack, Pending
    <3> QED
      BY <3>1, <3>2
  <2>3. CASE UNCHANGED slots
    BY <2>3 DEF slots, MailInv, DeviceOK
  <2> QED
    BY <1>1, <2>1, <2>2, <2>3
<1>2. DeviceOK' /\ HostOK'
  BY <1>1, <1>a DEF MailInv, DeviceOK, HostOK, Resting
<1>3. FetchOK'
  BY <1>1 DEF MailInv, FetchOK
<1>4. CASE Valid
  <2>1. SayBoot \in Seq(HandlerPut)
    <3>1. <<"boot", 0>> \in Message
      BY PostFacts DEF Message
    <3> QED
      BY <3>1, SayTyped, PutFacts, SeqMonotonic DEF SayBoot
  <2>2. ControlInit(block) = <<>>
    BY <1>4 DEF ControlInit, Valid
  <2>3. <<>> \o SayBoot = SayBoot
    BY <2>1, ConcatEmptySeq
  <2>4. todo' \in Seq(HandlerPut)
    BY <1>1, <2>1, <2>2, <2>3, ConcatProperties
  <2>5. WipeOK' /\ BlockOK'
    BY <1>1, <1>4, <2>4 DEF MailInv, WipeOK, BlockOK, Valid
  <2> QED
    BY <1>1, <1>2, <1>3, <2>5 DEF MailInv
<1>5. CASE ~Valid
  <2>1. InitTodo(todo') /\ Len(todo') = 13
    BY <1>1, <1>5, WipeBegins DEF MailInv
  <2>2. hostAt = 0
    BY <1>5 DEF MailInv, WipeOK
  <2>3. ~(Len(todo') < 12) /\ ~(Len(todo') < 7) /\ ~(Len(todo') < 6)
    BY <2>1
  <2>4. InitTodo(todo)'
    BY <2>1 DEF InitTodo
  <2>5. WipeOK'
    BY <1>1, <2>2, <2>3, <2>4 DEF WipeOK
  <2>6. BlockOK'
    BY <1>1, <1>5 DEF BlockOK, Valid
  <2> QED
    BY <1>1, <1>2, <1>3, <2>5, <2>6 DEF MailInv
<1> QED
  BY <1>4, <1>5

\* The main loop takes a command.
LEMMA PollKeeps ==
  ASSUME MailInv, Poll
  PROVE  MailInv'
<1>1. /\ pc = "poll" /\ pc' = "fetch" /\ run' = block.command /\ arguments' = <<>>
      /\ block.command # None
      /\ UNCHANGED <<block, todo, then, feeding, pending, attempts, inA, hostAt, hostCmd, posts,
                     lost, answered, again, resets, cuts>>
  BY DEF Poll, host, history, slots
<1>2. Valid /\ block.command \in Command \X Post
  BY <1>1 DEF MailInv, WipeOK, BlockOK
<1>3. DeviceOK' /\ HostOK'
  BY <1>1, <1>2 DEF MailInv, DeviceOK, HostOK
<1>4. FetchOK'
  <2>1. DOMAIN arguments' = {}
    BY <1>1
  <2> QED
    BY <1>1, <2>1 DEF FetchOK
<1>5. WipeOK' /\ BlockOK'
  BY <1>1, <1>2 DEF MailInv, WipeOK, BlockOK, Valid
<1> QED
  BY <1>1, <1>3, <1>4, <1>5 DEF MailInv

\* Its arguments are read while the command is still in its word.
LEMMA FetchKeeps ==
  ASSUME MailInv, FetchArgument \/ Fetched
  PROVE  MailInv'
<1>1. /\ pc = "fetch" /\ pc' \in {"fetch", "work"}
      /\ UNCHANGED <<block, run, todo, then, feeding, pending, attempts, inA, hostAt, hostCmd, posts,
                     lost, answered, again, resets, cuts>>
  BY DEF FetchArgument, Fetched, host, history, slots
<1>2. Valid
  BY <1>1 DEF MailInv, WipeOK
<1>3. DeviceOK' /\ HostOK' /\ WipeOK' /\ BlockOK'
  BY <1>1, <1>2 DEF MailInv, DeviceOK, HostOK, WipeOK, BlockOK, Valid
<1>4. CASE FetchArgument
  <2> DEFINE left == ArgumentsOf(run[1]) \ DOMAIN arguments
             next == IF "argument0" \in left THEN "argument0" ELSE "argument1"
  <2>1. /\ left # {} /\ pc' = pc
        /\ arguments' = [a \in DOMAIN arguments \cup {next} |->
                           IF a = next THEN block[a] ELSE arguments[a]]
    BY <1>4 DEF FetchArgument
  <2>2. next \in left /\ run[1] \in DOMAIN Arguments
    BY <2>1, ArgumentFacts
  <2>3. block.command = run
    BY <1>1, <2>2 DEF MailInv, FetchOK
  <2>4. block[next] = run[2]
    BY <1>2, <2>2, <2>3 DEF MailInv, BlockOK
  <2>5. DOMAIN arguments \subseteq ArgumentsOf(run[1])
        /\ \A a \in DOMAIN arguments : arguments[a] = run[2]
    BY <1>1 DEF MailInv, FetchOK
  <2> HIDE DEF next
  <2>6. DOMAIN arguments' = DOMAIN arguments \cup {next}
        /\ \A a \in DOMAIN arguments \cup {next} :
             arguments'[a] = IF a = next THEN block[a] ELSE arguments[a]
    BY <2>1
  <2>7. FetchOK'
    BY <1>1, <2>1, <2>2, <2>3, <2>4, <2>5, <2>6 DEF FetchOK
  <2> QED
    BY <1>1, <1>3, <2>7 DEF MailInv
<1>5. CASE Fetched
  <2>1. DOMAIN arguments = ArgumentsOf(run[1]) /\ pc' = "work" /\ arguments' = arguments
    BY <1>5 DEF Fetched
  <2>2. FetchOK'
    BY <1>1, <2>1 DEF MailInv, FetchOK
  <2> QED
    BY <1>1, <1>3, <2>2 DEF MailInv
<1> QED
  BY <1>4, <1>5

\* The handler runs.
LEMMA WorkKeeps ==
  ASSUME MailInv, Work
  PROVE  MailInv'
<1>1. /\ pc = "work" /\ pc' = "put" /\ pending' \in Pending /\ attempts' \in 0 .. MaxAttempts
      /\ UNCHANGED <<block, run, arguments, feeding, inA, hostAt, hostCmd, posts, lost, answered, again,
                     resets, cuts>>
  BY MailboxAssumption DEF Work, Marks, Pending, host, history, MailInv, DeviceOK
<1>2. Valid /\ run \in Command \X Post /\ feeding \in BOOLEAN
  BY <1>1 DEF MailInv, WipeOK, DeviceOK
<1>3. PICK end \in Handler : todo' = end.writes /\ then' = [at |-> end.at, feed |-> end.feed]
  BY DEF Work
<1>4. /\ todo' \in Seq(HandlerPut)
      /\ then'.at \in {"poll", "boot", "stopped"} /\ then'.feed \in BOOLEAN
  BY <1>2, <1>3, HandlerWrites
<1>5. DeviceOK' /\ HostOK' /\ WipeOK' /\ BlockOK' /\ FetchOK'
  BY <1>1, <1>2, <1>4
  DEF MailInv, DeviceOK, HostOK, WipeOK, BlockOK, FetchOK, Valid, Resting
<1> QED
  BY <1>1, <1>5 DEF MailInv

\* What WipeGoesOn says of the words t left to write.
WipeStep(t, L, w, u) ==
  /\ w \in Word /\ t # <<>> /\ L \in 5..13
  /\ L > 7 => w \in WipePut
  /\ L = 12 => w = [word |-> "version", value |-> FALSE]
  /\ L = 7 => w = [word |-> "command", value |-> None]
  /\ L = 6 => w = [word |-> "magic", value |-> TRUE]
  /\ L = 5 => w = [word |-> "version", value |-> TRUE]
  /\ L > 5 => InitTodo(u) /\ Len(u) = L - 1
  /\ L = 5 => u \in Seq(HandlerPut) /\ BootTodo(u)

\* WipeGoesOn, for one sequence.
LEMMA WipeSteps ==
  ASSUME NEW t, InitTodo(t)
  PROVE  WipeStep(t, Len(t), Head(t), Tail(t))
<1>1. t \in Seq(Word) /\ Len(t) \in 5..13
  BY DEF InitTodo
<1> DEFINE L == Len(t)
           w == Head(t)
           u == Tail(t)
<1>2. WipeStep(t, L, w, u)
  <2>1. L \in 5..13 /\ L = Len(t) /\ w = Head(t) /\ u = Tail(t)
    BY <1>1
  <2> HIDE DEF L, w, u
  <2> QED
    BY <1>1, <2>1, WipeGoesOn DEF WipeStep
<1> QED
  BY <1>2

\* What the number of words left to write can be.
LEMMA LengthFacts ==
  ASSUME NEW L \in 5..13
  PROVE  /\ L > 7 \/ L = 7 \/ L = 6 \/ L = 5
         /\ L # 12 => (L - 1 < 12 => L < 12)
OBVIOUS

\* The next word is written.
LEMMA PutKeeps ==
  ASSUME MailInv, PutWord
  PROVE  MailInv'
<1> DEFINE w == Head(todo)
<1>1. /\ pc = "put" /\ pc' = "put" /\ todo # <<>> /\ todo' = Tail(todo)
      /\ block' = [block EXCEPT ![w.word] = w.value]
      /\ UNCHANGED <<run, arguments, then, feeding, pending, attempts, inA, hostAt, hostCmd, posts, again,
                     resets, cuts>>
      /\ \/ lost' = lost
         \/ w.word = "command" /\ block.version /\ block.command \notin {None, run}
            /\ lost' = block.command[2]
      /\ \/ answered' = answered
         \/ w.word = "status" /\ answered' = w.value[2]
  BY DEF PutWord, host, slots
<1>a. w \in Word
  <2>1. CASE Valid
    BY <1>1, <2>1, PutFacts, HeadTailProperties DEF MailInv, BlockOK
  <2>2. CASE ~Valid
    BY <1>1, <2>2, HeadTailProperties DEF MailInv, WipeOK, InitTodo
  <2> QED
    BY <2>1, <2>2
<1>2. DeviceOK' /\ HostOK' /\ FetchOK'
  <2>1. block.command[2] \in 0 .. MaxPosts
    BY DEF MailInv, Block
  <2>2. w.word = "status" => w.value[2] \in 0 .. MaxPosts
    BY <1>a DEF Word, Stamp, ArgumentPut, SayPut, CommandPut, Message
  <2>3. lost' \in 0 .. MaxPosts /\ answered' \in 0 .. MaxPosts
    BY <1>1, <2>1, <2>2 DEF MailInv, HostOK
  <2> QED
    BY <1>1, <2>3 DEF MailInv, DeviceOK, HostOK, FetchOK
<1>3. CASE Valid
  <2>1. todo \in Seq(HandlerPut)
    BY <1>1, <1>3 DEF MailInv, BlockOK
  <2>2. w \in HandlerPut /\ Tail(todo) \in Seq(HandlerPut)
    BY <1>1, <2>1, HeadTailProperties
  <2> HIDE DEF w
  <2>3. w \in Word /\ w \notin Stamp /\ w \notin ArgumentPut
        /\ (w \in CommandPut => w.value \in {None} \cup ({"HOLD", "CONFIRM", "POWER_PAUSE"} \X Post))
    BY <2>2, PutFacts DEF HandlerPut, Stamp, ArgumentPut, CommandPut, SayPut
  <2>4. /\ block' \in Block /\ block'.magic = block.magic /\ block'.version = block.version
        /\ block'.argument0 = block.argument0 /\ block'.argument1 = block.argument1
        /\ w \notin CommandPut => block'.command = block.command
        /\ w \in CommandPut => block'.command = w.value
    BY <1>1, <2>3, WordPut DEF MailInv
  <2>5. Valid'
    BY <1>3, <2>4 DEF Valid
  <2>6. BlockOK'
    <3>1. \/ block'.command = block.command
          \/ block'.command \in {None} \cup ({"HOLD", "CONFIRM", "POWER_PAUSE"} \X Post)
      BY <2>3, <2>4
    <3>2. block'.command = None \/ block'.command \in Command \X Post
      BY <1>3, <3>1 DEF MailInv, BlockOK, Command
    <3>3. block'.command[1] \in DOMAIN Arguments => block'.command = block.command
      BY <3>1, ArgumentFacts DEF None
    <3>4. block'.command[1] \in DOMAIN Arguments =>
            /\ hostAt' = 0
            /\ \A a \in ArgumentsOf(block'.command[1]) : block'[a] = block'.command[2]
      <4> SUFFICES ASSUME block'.command[1] \in DOMAIN Arguments,
                          NEW a \in ArgumentsOf(block'.command[1])
                   PROVE  hostAt' = 0 /\ block'[a] = block'.command[2]
        BY <1>1, <1>3, <3>3 DEF MailInv, BlockOK
      <4>1. block'.command = block.command /\ a \in {"argument0", "argument1"}
        BY <3>3, ArgumentFacts
      <4>2. hostAt = 0 /\ block[a] = block.command[2]
        BY <1>3, <4>1 DEF MailInv, BlockOK
      <4> QED
        BY <1>1, <2>4, <4>1, <4>2
    <3>5. todo' \in Seq(HandlerPut)
      BY <1>1, <2>2
    <3> QED
      BY <1>1, <1>3, <2>4, <3>2, <3>4, <3>5 DEF MailInv, BlockOK
  <2> QED
    BY <1>1, <1>2, <2>4, <2>5, <2>6 DEF MailInv, WipeOK
<1>4. CASE ~Valid
  <2>1. /\ hostAt = 0 /\ InitTodo(todo) /\ then.at # "boot" /\ run = None
        /\ Len(todo) < 12 => ~block.version
        /\ Len(todo) < 7 => block.command = None
        /\ Len(todo) < 6 => block.magic
    BY <1>1, <1>4 DEF MailInv, WipeOK
  <2> DEFINE L == Len(todo)
             u == Tail(todo)
  <2>2. todo \in Seq(Word) /\ L \in 5..13
    BY <2>1 DEF InitTodo
  <2>a. L = Len(todo) /\ u = Tail(todo) /\ w = Head(todo)
    OBVIOUS
  <2> HIDE DEF w, L, u
  <2>3. /\ w \in Word
        /\ L > 7 => w \in WipePut
        /\ L = 12 => w = [word |-> "version", value |-> FALSE]
        /\ L = 7 => w = [word |-> "command", value |-> None]
        /\ L = 6 => w = [word |-> "magic", value |-> TRUE]
        /\ L = 5 => w = [word |-> "version", value |-> TRUE]
        /\ L > 5 => InitTodo(u) /\ Len(u) = L - 1
        /\ L = 5 => u \in Seq(HandlerPut)
    <3>1. WipeStep(todo, L, w, u)
      BY <2>1, <2>a, WipeSteps, Zenon
    <3> QED
      BY <3>1 DEF WipeStep
  <2>4. /\ block' \in Block
        /\ w \notin Stamp => block'.magic = block.magic /\ block'.version = block.version
        /\ w \notin CommandPut => block'.command = block.command
        /\ w \in CommandPut => block'.command = w.value
        /\ w.word = "magic" => block'.magic = w.value /\ block'.version = block.version
        /\ w.word = "version" => block'.version = w.value /\ block'.magic = block.magic
    BY <1>1, <2>3, WordPut DEF MailInv
  <2>5. CASE L > 7
    <3>1. ~Valid'
      <4>1. w \in Stamp => w.value = FALSE /\ w.word \in {"magic", "version"}
        BY <2>3, <2>5 DEF WipePut, Stamp, SayPut
      <4> QED
        BY <1>4, <2>4, <4>1 DEF Valid
    <3>2. L - 1 < 12 => ~block'.version
      <4>1. CASE L = 12
        BY <2>3, <2>4, <4>1
      <4>2. CASE L # 12
        <5>1. L - 1 < 12 => ~block.version
          BY <2>1, <2>2, <2>a, <4>2, LengthFacts, Zenon
        <5>2. w \in Stamp => w.value = FALSE /\ w.word \in {"magic", "version"}
          BY <2>3, <2>5 DEF WipePut, Stamp, SayPut
        <5> QED
          BY <2>4, <5>1, <5>2
      <4> QED
        BY <4>1, <4>2
    <3>3. InitTodo(u) /\ Len(u) = L - 1 /\ ~(L - 1 < 7) /\ ~(L - 1 < 6)
      BY <2>2, <2>3, <2>5
    <3>4. WipeOK'
      BY <1>1, <2>1, <3>2, <3>3 DEF WipeOK, u, InitTodo
    <3>5. BlockOK'
      BY <3>1 DEF BlockOK
    <3> QED
      BY <1>1, <1>2, <2>4, <3>4, <3>5 DEF MailInv
  <2>6. CASE L = 7
    <3>1. w \in CommandPut /\ w \notin Stamp
      BY <2>3, <2>6, PutFacts DEF CommandPut, Stamp
    <3>2. block'.command = None /\ ~block'.version /\ ~Valid'
      BY <2>1, <2>3, <2>4, <2>6, <3>1 DEF L, Valid
    <3>3. InitTodo(u) /\ Len(u) = 6 /\ 6 < 12 /\ ~(6 < 6) /\ u = todo'
      BY <1>1, <2>a, <2>3, <2>6
    <3>4. WipeOK'
      BY <1>1, <2>1, <3>2, <3>3, Zenon DEF WipeOK, InitTodo
    <3>5. BlockOK'
      BY <3>2 DEF BlockOK
    <3> QED
      BY <1>1, <1>2, <2>4, <3>4, <3>5 DEF MailInv
  <2>7. CASE L = 6
    <3>1. w.word = "magic" /\ w.value = TRUE /\ w \notin CommandPut
      BY <2>3, <2>7 DEF CommandPut
    <3>2. block'.command = None /\ ~block'.version /\ block'.magic /\ ~Valid'
      BY <2>1, <2>4, <2>7, <3>1 DEF L, Valid
    <3>3. InitTodo(u) /\ Len(u) = 5
      BY <2>3, <2>7
    <3>4. WipeOK'
      BY <1>1, <2>1, <3>2, <3>3 DEF WipeOK, u, InitTodo
    <3>5. BlockOK'
      BY <3>2 DEF BlockOK
    <3> QED
      BY <1>1, <1>2, <2>4, <3>4, <3>5 DEF MailInv
  <2>8. CASE L = 5
    <3>1. w.word = "version" /\ w.value = TRUE /\ w \notin CommandPut
      BY <2>3, <2>8 DEF CommandPut
    <3>2. block'.command = None /\ Valid'
      BY <2>1, <2>4, <2>8, <3>1 DEF L, Valid
    <3>3. block'.command[1] \notin DOMAIN Arguments
      BY <3>2, ArgumentFacts DEF None
    <3>4. BlockOK'
      BY <1>1, <2>1, <2>3, <2>8, <3>2, <3>3 DEF BlockOK, u
    <3> QED
      BY <1>1, <1>2, <2>4, <3>2, <3>4 DEF MailInv, WipeOK
  <2>9. L > 7 \/ L = 7 \/ L = 6 \/ L = 5
    BY <2>2, LengthFacts, Zenon
  <2> QED
    BY <2>5, <2>6, <2>7, <2>8, <2>9
<1> QED
  BY <1>3, <1>4

\* A device that is restarted, or goes on after its last word, leaves the block alone.
LEMMA DeviceStepsKeep ==
  ASSUME MailInv, HandlerReturns \/ HandlerResets \/ Watchdog \/ ResetButton
  PROVE  MailInv'
<1>1. /\ block' = block /\ hostAt' = hostAt /\ hostCmd' = hostCmd /\ posts' = posts
      /\ lost' = lost /\ answered' = answered /\ cuts' = cuts /\ resets' \in 0 .. MaxResets
      /\ again' \in {again, 0} \/ (run # None /\ again' = run[2])
  BY PostFacts
  DEF HandlerReturns, HandlerResets, Watchdog, ResetButton, Restart, host, history, MailInv, HostOK
<1>a. again' \in 0 .. MaxPosts
  <2>1. again \in 0 .. MaxPosts /\ 0 \in 0 .. MaxPosts
    BY PostFacts DEF MailInv, HostOK
  <2>2. run # None => run[2] \in 0 .. MaxPosts
    BY PostFacts DEF MailInv, DeviceOK
  <2> QED
    BY <1>1, <2>1, <2>2
<1>2. HostOK'
  BY <1>1, <1>a DEF MailInv, HostOK
<1>3. CASE HandlerResets \/ Watchdog \/ ResetButton
  <2>1. Restart
    BY <1>3 DEF HandlerResets, Watchdog, ResetButton
  <2> QED
    BY <1>1, <1>2, <2>1, RestartKeeps
<1>4. CASE HandlerReturns
  <2>1. /\ pc = "put" /\ todo = <<>> /\ then.at # "boot"
        /\ pc' = then.at /\ feeding' = then.feed /\ arguments' = <<>>
        /\ run' = IF then.at = "stopped" THEN run ELSE None
        /\ UNCHANGED <<todo, then, pending, attempts, inA>>
    BY <1>4 DEF HandlerReturns, slots
  <2>2. pc' \in {"poll"} \cup Resting
    BY <2>1 DEF MailInv, DeviceOK
  <2>3. DeviceOK'
    BY <2>1, <2>2 DEF MailInv, DeviceOK, Resting
  <2>4. Valid
    <3>1. ~InitTodo(todo)
      <4>1. Len(todo) = 0
        BY <2>1
      <4>2. Len(todo) \notin 5..13
        BY <4>1
      <4> QED
        BY <4>2 DEF InitTodo
    <3> QED
      BY <2>1, <3>1 DEF MailInv, WipeOK
  <2>5. WipeOK' /\ BlockOK'
    BY <1>1, <2>2, <2>4 DEF MailInv, WipeOK, BlockOK, Valid, Resting
  <2>6. FetchOK'
    BY <2>1, <2>2 DEF FetchOK, Resting
  <2> QED
    BY <1>1, <1>2, <2>1, <2>3, <2>5, <2>6 DEF MailInv
<1> QED
  BY <1>3, <1>4

\* A power cut leaves an invalid block.
LEMMA CutKeeps ==
  ASSUME MailInv, PowerCut
  PROVE  MailInv'
<1>1. /\ Restart /\ hostAt' = 0 /\ cuts' \in 0 .. MaxCuts
      /\ UNCHANGED <<pending, attempts, inA, hostCmd, posts, lost, answered, again, resets>>
  <2>1. cuts' \in 0 .. MaxCuts
    BY MailboxAssumption DEF PowerCut, MailInv, HostOK
  <2> QED
    BY <2>1 DEF PowerCut, Restart, slots
<1>2. PICK magic \in BOOLEAN, version \in BOOLEAN, kept \in BOOLEAN :
        /\ ~(magic /\ version)
        /\ block' = [magic |-> magic, version |-> version,
                     argument0 |-> NoisePost, argument1 |-> NoisePost,
                     status |-> <<Noise, 0>>, detail |-> <<Noise, 0>>,
                     command |-> IF kept THEN block.command ELSE <<Noise, 0>>]
  BY DEF PowerCut
<1>3. NoisePost \in 0 .. NoisePost /\ <<Noise, 0>> \in Message /\ <<Noise, 0>> \in CommandWord
  BY PostFacts DEF Message, CommandWord
<1>4. block' \in Block /\ ~Valid'
  BY <1>2, <1>3 DEF MailInv, Block, Valid, CommandWord
<1>5. DeviceOK' /\ HostOK'
  BY <1>1 DEF MailInv, DeviceOK, HostOK, Restart, Resting
<1>6. WipeOK' /\ BlockOK' /\ FetchOK'
  BY <1>1, <1>4 DEF WipeOK, BlockOK, FetchOK, Restart
<1> QED
  BY <1>1, <1>4, <1>5, <1>6 DEF MailInv, Restart

\* A post begins where no command with arguments waits.
LEMMA BeginPostKeeps ==
  ASSUME MailInv, BeginPost
  PROVE  MailInv'
<1>1. /\ Idle /\ hostAt' = 1 /\ hostCmd' \in Command /\ posts' = posts + 1 /\ posts < MaxPosts
      /\ UNCHANGED <<block, pc, run, arguments, todo, then, feeding, pending, attempts, inA,
                     lost, answered, again, resets, cuts>>
  BY DEF BeginPost, device, slots, history
<1>2. Valid /\ block.command[1] \notin DOMAIN Arguments
  BY <1>1, ArgumentFacts DEF Idle, Valid, None
<1>3. posts' \in Post /\ posts' \in 0 .. MaxPosts
  BY <1>1, PostFacts DEF MailInv, HostOK, Post
<1>4. DeviceOK' /\ HostOK'
  BY <1>1, <1>3 DEF MailInv, DeviceOK, HostOK
<1>5. WipeOK' /\ BlockOK'
  BY <1>1, <1>2, <1>3 DEF MailInv, WipeOK, BlockOK, Valid
<1>6. FetchOK'
  BY <1>1 DEF MailInv, FetchOK
<1> QED
  BY <1>1, <1>4, <1>5, <1>6 DEF MailInv

\* The word the probe writes at each place of the download.
LEMMA DownloadFacts ==
  ASSUME NEW n \in 1 .. 7
  PROVE  /\ n # 7 => Layout[n] # "command"
         /\ n = 7 => Layout[n] = "command"
         /\ n = 3 => Layout[n] = "argument0"
         /\ n = 4 => Layout[n] = "argument1"
         /\ n \in {1, 2} => Layout[n] \in {"magic", "version"}
         /\ n \in {5, 6} => Layout[n] \in {"status", "detail"}
         /\ Len(Layout) = 7
BY DEF Layout

\* The probe writes a word of its post; the command comes last.
LEMMA HostWordKeeps ==
  ASSUME MailInv, HostWord
  PROVE  MailInv'
<1> DEFINE word == Layout[hostAt]
<1>1. /\ hostAt # 0 /\ block' = [block EXCEPT ![word] = Posted(word)]
      /\ hostAt' = IF hostAt = Len(Layout) THEN 0 ELSE hostAt + 1
      /\ UNCHANGED <<pc, run, arguments, todo, then, feeding, pending, attempts, inA, hostCmd, posts,
                     lost, answered, again, resets, cuts>>
  BY DEF HostWord, device, slots, history
<1>2. hostAt \in 1 .. 7 /\ Valid /\ posts \in Post /\ hostCmd \in Command
  BY <1>1 DEF MailInv, HostOK, WipeOK, BlockOK
<1>3. /\ hostAt # 7 => word # "command"
      /\ hostAt = 7 => word = "command"
      /\ hostAt = 3 => word = "argument0"
      /\ hostAt = 4 => word = "argument1"
      /\ hostAt \in {1, 2} => word \in {"magic", "version"}
      /\ hostAt \in {5, 6} => word \in {"status", "detail"}
      /\ Len(Layout) = 7
  BY <1>2, DownloadFacts, Zenon
<1>4. hostAt' \in 0 .. 7 /\ (hostAt = 7 => hostAt' = 0) /\ (hostAt # 7 => hostAt' = hostAt + 1)
  BY <1>1, <1>2, <1>3
<1> HIDE DEF word
<1>5. /\ word \in {"magic", "version"} => Posted(word) = TRUE
      /\ word \in {"argument0", "argument1"} => Posted(word) = posts
      /\ word \in {"status", "detail"} => Posted(word) = <<"zero", posts>>
      /\ word = "command" => Posted(word) = <<hostCmd, posts>>
  BY DEF Posted
<1>6. /\ posts \in 0 .. NoisePost /\ posts \in 0 .. MaxPosts
      /\ <<"zero", posts>> \in Message /\ <<hostCmd, posts>> \in CommandWord
  BY <1>2, PostFacts DEF Message, CommandWord
<1>7. block.command[1] \notin DOMAIN Arguments
  BY <1>1, <1>2 DEF MailInv, BlockOK
<1>8. /\ block' \in Block /\ block'.magic /\ block'.version
      /\ word # "command" => block'.command = block.command
      /\ word = "command" => block'.command = <<hostCmd, posts>>
      /\ word # "argument0" => block'.argument0 = block.argument0
      /\ word = "argument0" => block'.argument0 = posts
      /\ word # "argument1" => block'.argument1 = block.argument1
      /\ word = "argument1" => block'.argument1 = posts
  <2>1. word \in {"magic", "version", "argument0", "argument1", "status", "detail", "command"}
    BY <1>2, <1>3
  <2>2. CASE word \in {"magic", "version"}
    BY <1>1, <1>2, <1>5, <2>2 DEF MailInv, Block, Valid
  <2>3. CASE word \in {"argument0", "argument1"}
    BY <1>1, <1>2, <1>5, <1>6, <2>3 DEF MailInv, Block, Valid
  <2>4. CASE word \in {"status", "detail"}
    BY <1>1, <1>2, <1>5, <1>6, <2>4 DEF MailInv, Block, Valid
  <2>5. CASE word = "command"
    BY <1>1, <1>2, <1>5, <1>6, <2>5 DEF MailInv, Block, Valid, CommandWord
  <2> QED
    BY <2>1, <2>2, <2>3, <2>4, <2>5
<1>9. DeviceOK' /\ HostOK'
  BY <1>1, <1>4 DEF MailInv, DeviceOK, HostOK
<1>10. FetchOK'
  <2>1. ~(pc = "fetch" /\ run[1] \in DOMAIN Arguments)
    BY <1>7 DEF MailInv, FetchOK
  <2> QED
    BY <1>1, <2>1 DEF MailInv, FetchOK
<1>11. BlockOK'
  <2>1. block'.command = None \/ block'.command \in Command \X Post
    <3>1. block.command = None \/ block.command \in Command \X Post
      BY <1>2 DEF MailInv, BlockOK
    <3>2. <<hostCmd, posts>> \in Command \X Post
      BY <1>2
    <3> QED
      BY <1>8, <3>1, <3>2
  <2>2. block'.command[1] \in DOMAIN Arguments =>
          /\ hostAt' = 0
          /\ \A a \in ArgumentsOf(block'.command[1]) : block'[a] = block'.command[2]
    <3>1. CASE word # "command"
      BY <1>7, <1>8, <3>1
    <3>2. CASE word = "command"
      <4>1. hostAt' = 0 /\ block'.argument0 = posts /\ block'.argument1 = posts
            /\ block'.command = <<hostCmd, posts>>
        BY <1>2, <1>3, <1>4, <1>8, <3>2 DEF MailInv, BlockOK
      <4> QED
        BY <4>1, ArgumentFacts
    <3> QED
      BY <3>1, <3>2
  <2>3. hostAt' > 3 => block'.argument0 = posts
    BY <1>2, <1>3, <1>4, <1>8 DEF MailInv, BlockOK
  <2>4. hostAt' > 4 => block'.argument1 = posts
    BY <1>2, <1>3, <1>4, <1>8 DEF MailInv, BlockOK
  <2> QED
    BY <1>1, <1>2, <2>1, <2>2, <2>3, <2>4 DEF MailInv, BlockOK
<1> QED
  BY <1>1, <1>8, <1>9, <1>10, <1>11 DEF MailInv, WipeOK, Valid

-----------------------------------------------------------------------------
(***************************************************************************)
(* The theorems.                                                           *)
(***************************************************************************)

\* After power-on the block is noise, and not valid.
LEMMA MailInit ==
  ASSUME Init
  PROVE  MailInv
<1>1. NoisePost \in 0 .. NoisePost /\ <<Noise, 0>> \in Message /\ <<Noise, 0>> \in CommandWord
  BY PostFacts DEF Message, CommandWord
<1>2. block \in Block /\ ~Valid
  BY <1>1 DEF Init, Block, Valid, CommandWord
<1>3. DeviceOK /\ HostOK
  <2>1. DeviceOK
    BY MailboxAssumption DEF Init, DeviceOK, Pending
  <2>2. 0 \in 0 .. MaxPosts /\ 0 \in 0 .. MaxResets /\ 0 \in 0 .. MaxCuts /\ 0 \in 0 .. 7
    BY MailboxAssumption
  <2>3. HostOK
    BY <2>2 DEF Init, HostOK, Command
  <2> QED
    BY <2>1, <2>3
<1>4. WipeOK /\ BlockOK /\ FetchOK
  BY <1>2 DEF Init, WipeOK, BlockOK, FetchOK
<1> QED
  BY <1>2, <1>3, <1>4 DEF Init, MailInv

\* The invariant of device, block and download holds always
\* (stm32_iap_test_control_init, main's command loop).
THEOREM MailInvariance == Spec => []MailInv
<1>1. Init => MailInv
  BY MailInit
<1>2. MailInv /\ [Next]_vars => MailInv'
  <2> SUFFICES ASSUME MailInv, [Next]_vars PROVE MailInv'
    OBVIOUS
  <2>1. CASE Boot
    BY <2>1, BootKeeps
  <2>2. CASE Poll
    BY <2>2, PollKeeps
  <2>3. CASE FetchArgument \/ Fetched
    BY <2>3, FetchKeeps
  <2>4. CASE Work
    BY <2>4, WorkKeeps
  <2>5. CASE PutWord
    BY <2>5, PutKeeps
  <2>6. CASE HandlerReturns \/ HandlerResets \/ Watchdog \/ ResetButton
    BY <2>6, DeviceStepsKeep
  <2>7. CASE PowerCut
    BY <2>7, CutKeeps
  <2>8. CASE BeginPost
    BY <2>8, BeginPostKeeps
  <2>9. CASE HostWord
    BY <2>9, HostWordKeeps
  <2>10. CASE UNCHANGED vars
    BY <2>10
    DEF vars, device, slots, host, history, MailInv, DeviceOK, HostOK, WipeOK, BlockOK, FetchOK, Valid
  <2> QED
    BY <2>1, <2>2, <2>3, <2>4, <2>5, <2>6, <2>7, <2>8, <2>9, <2>10 DEF Next, DeviceStep
<1> QED
  BY <1>1, <1>2, PTL DEF Spec

\* The types of block, device and host; a handler has read the arguments its
\* command takes, and only then (install_slot_b, run_power_install).
THEOREM MailTypeCorrectness == Spec => []TypeOK
<1>1. MailInv => TypeOK
  <2> SUFFICES ASSUME MailInv PROVE TypeOK
    OBVIOUS
  <2>1. run = None \/ (run \in (Command \cup {Noise}) \X (0 .. MaxPosts) /\ run[2] \in 0 .. NoisePost)
    BY PostFacts DEF MailInv, DeviceOK
  <2>2. \A a \in DOMAIN arguments : arguments[a] \in 0 .. NoisePost
    BY <2>1, PostFacts DEF MailInv, FetchOK, None
  <2> QED
    BY <2>1, <2>2 DEF MailInv, DeviceOK, HostOK, FetchOK, TypeOK
<1> QED
  BY <1>1, MailInvariance, PTL

\* A handler works on the arguments of the post its command came with
\* (install_slot_b, run_power_install; the layout of stm32_iap_test_control_t).
THEOREM ArgumentsAlwaysMatch == Spec => []ArgumentsMatch
<1>1. MailInv => ArgumentsMatch
  BY DEF MailInv, FetchOK, ArgumentsMatch
<1> QED
  BY <1>1, MailInvariance, PTL

\* The device takes only commands that were posted
\* (stm32_iap_test_control_init wipes what a power cut left).
THEOREM OnlyPostedTaken == Spec => []NothingUnposted
<1>1. MailInv => NothingUnposted
  BY DEF MailInv, DeviceOK, NothingUnposted, None, Noise, Command
<1> QED
  BY <1>1, MailInvariance, PTL

-----------------------------------------------------------------------------
(***************************************************************************)
(* Posts and answers: the invariant beside MailInv.                        *)
(***************************************************************************)

\* The last of the words t that goes to this place.
LastOf(t, word, v) ==
  \E i \in 1..Len(t) :
    /\ t[i] = [word |-> word, value |-> v]
    /\ \A j \in 1..Len(t) : j > i => t[j].word # word

NoneOf(t, word) == \A i \in 1..Len(t) : t[i].word # word

\* What a word says when everything is written.
Final(word, v) == LastOf(todo, word, v) \/ (block[word] = v /\ NoneOf(todo, word))

\* What a quiet block may say.
Reports == {<<"boot", 0>>} \cup (Answer \X {posts})

\* A slot reports that it is held on trial, and the report may be left over
\* from a trial that a press of the button ended.
MayBeHeld == pending # "NONE" \/ resets > 0

\* The command being handled is in its word, unless the host went on to its next
\* post over one that is held.
TakenOK == Valid /\ pc \in {"fetch", "work"} =>
  block.command = run \/ (run[1] = "HOLD" /\ MayBeHeld /\ block.command # None)

\* The block may look as if its slot were held.
HeldNow ==
  \/ block.status[1] = "held" /\ (block.command[1] = "HOLD" \/ hostAt > 5)
  \/ hostAt # 0 /\ block.command[1] = "HOLD"

\* The boot loader, which may end the trial, finds no such block; nor does the
\* next one, which follows an image that hangs.
BootOK ==
  Valid /\ HeldNow /\ (pc \in {"boot", "hung", "recovery"} \/ (pc = "put" /\ run = None))
    => resets > 0

\* A device that waits for the watchdog keeps the command FAIL, until slot A
\* finds that the load which failed now shows no trial.
Dying == Valid /\ block.command[1] = "FAIL"
Clearing == Valid /\ pc = "put" /\ run[1] = "FAIL" /\ then.feed /\ pending = "NONE"

FeedOK ==
  /\ ~feeding =>
       \/ Clearing
       \/ /\ Dying /\ pc \in {"poll", "fetch", "work", "put"}
          /\ pc \in {"fetch", "work"} => run[1] = "FAIL"
          /\ pc = "put" => ~then.feed
  /\ pc = "put" /\ ~then.feed => Dying /\ then.at = "poll" /\ NoneOf(todo, "command")

\* The host posts over no command, or over one that is held.
PostingOK == Valid =>
  /\ hostAt # 0 => block.command = None \/ (block.command[1] = "HOLD" /\ MayBeHeld)
  /\ block.status[1] = "held" /\ (block.command[1] = "HOLD" \/ hostAt > 5) => MayBeHeld
  /\ hostAt = 0 /\ block.command # None => block.command[2] = posts

\* The command HOLD is cleared before its report is written, or after it when
\* the report is of an error.
ClearsFirst(i) ==
  /\ i = 1 /\ todo[i].value = None
  /\ \E x \in Answer : LastOf(todo, "status", <<x, run[2]>>) /\ LastOf(todo, "detail", <<x, run[2]>>)

ClearsLast(i) == i = Len(todo) /\ todo[i].value = None

\* A handler has one command word left to write at most, over its own command
\* or, when its load fails or it finds a trial over, over a post that came
\* meanwhile; before it holds a command it has said something else than "held".
CommandPutOK == \A i \in 1..Len(todo) : todo[i].word = "command" =>
  /\ run # None /\ block.command # None
  /\ run[1] = "HOLD" => ClearsLast(i) \/ (pending = "NONE" /\ ClearsFirst(i))
  /\ block.command = run \/ (run[1] = "HOLD" /\ (ClearsLast(i) \/ resets > 0))
  /\ \A j \in 1..Len(todo) : todo[j].word = "command" => j = i
  /\ todo[i].value = None \/ todo[i].value[2] = run[2]
  /\ todo[i].value[1] = "HOLD" =>
       block.status[1] # "held" \/ \E j \in 1..Len(todo) : j < i /\ todo[j].word = "status"
  /\ then.at = "boot" <=> todo[i].value # None

\* A handler that resets leaves a command.
ResetOK == then.at = "boot" =>
  hostAt = 0 /\ block.command # None /\ (block.command[1] = "HOLD" => block.status[1] # "held")

HeldPutOK == \A i \in 1..Len(todo) : todo[i].word = "status" /\ todo[i].value[1] = "held" =>
  run # None /\ pending # "NONE" /\ then.at # "boot" /\ NoneOf(todo, "command")

\* A post was cleared unseen, or is about to be.
Loses == lost = posts \/ block.command \notin {None, run}

\* A handler that clears the last post answers it, or has not seen it.
ReportOK ==
  hostAt = 0 /\ (block.command = None
                   \/ \E i \in 1..Len(todo) : todo[i].word = "command" /\ todo[i].value = None)
    => Loses \/ \E v \in Reports : Final("status", v) /\ Final("detail", v)

TodoOK == pc = "put" /\ Valid => CommandPutOK /\ ResetOK /\ HeldPutOK /\ ReportOK

GoesOn == pc = "put" /\ then.at # "boot"

\* Posts are taken in order: the one being handled is older than one that is on
\* its way or has come over it.
OrderOK ==
  /\ run # None => run[2] <= posts
  /\ Valid =>
       /\ hostAt # 0 /\ block.command # None => block.command[2] < posts
       /\ run # None /\ (pc \in {"fetch", "work"} \/ GoesOn) =>
            (hostAt # 0 \/ block.command \notin {None, run} => run[2] < posts)

PostInv ==
  TakenOK /\ FeedOK /\ PostingOK /\ BootOK /\ OrderOK /\ TodoOK /\ QuietMeansAnswered

\* The command in its word waits for a restart or has not been answered; or the
\* button cut its handler short.
Fresh == block.command[1] \in {"NONE", "HOLD", "FAIL"} \/ block.command[2] # answered
Unanswered == Fresh \/ block.command[2] = again

Answers(i) == todo[i].word = "status" /\ todo[i].value[1] \in Answer

\* A handler that goes on to poll or stop answers its own command only, and
\* clears it, unless that waits for a restart.
AnswerPutOK ==
  /\ \A i \in 1..Len(todo) : Answers(i) => run # None /\ todo[i].value[2] = run[2]
  /\ run # None /\ block.command # run => Fresh
  /\ run # None /\ block.command = run /\ run[1] \notin {"HOLD", "FAIL"} /\ then.at = "poll" =>
       \E i \in 1..Len(todo) : todo[i].word = "command" /\ todo[i].value = None

\* One that resets answers its own command before it holds it; what waits for a
\* restart does not come here.
HoldsAfter(n) ==
  \E i \in 1..Len(todo) : i > n /\ todo[i].word = "command" /\ todo[i].value[1] = "HOLD"
BootAnswerOK ==
  /\ run[1] \notin {"HOLD", "FAIL"} /\ (Unanswered \/ HoldsAfter(0))
  /\ \A i \in 1..Len(todo) : Answers(i) => todo[i].value[2] = run[2] /\ HoldsAfter(i)

\* Posts are answered in order, and what waits in the command word is the
\* command at hand or not answered.
OnceInv ==
  /\ answered <= posts
  /\ Valid =>
       /\ hostAt # 0 => answered < posts
       /\ pc \in {"fetch", "work"} => Unanswered /\ (block.command # run => Fresh)
       /\ block.command = run \/ Unanswered
       /\ GoesOn => AnswerPutOK
       /\ pc = "put" /\ then.at = "boot" => BootAnswerOK

-----------------------------------------------------------------------------
(***************************************************************************)
(* What a handler writes.                                                  *)
(***************************************************************************)

\* The sequence that \o builds.
LEMMA Joined ==
  ASSUME NEW S, NEW s \in Seq(S), NEW r \in Seq(S), NEW t \in Seq(S), Len(t) = Len(s) + Len(r),
         \A i \in 1..Len(s) : t[i] = s[i], \A i \in 1..Len(r) : t[Len(s) + i] = r[i]
  PROVE  s \o r = t
<1>1. s \o r \in Seq(S) /\ Len(s \o r) = Len(s) + Len(r)
  BY ConcatProperties, Zenon
<1>2. \A i \in 1..(Len(s) + Len(r)) : (s \o r)[i] = IF i <= Len(s) THEN s[i] ELSE r[i - Len(s)]
  BY ConcatProperties, SMT
<1>3. ASSUME NEW i \in 1..Len(t) PROVE (s \o r)[i] = t[i]
  <2>1. CASE i <= Len(s)
    BY <1>2, <2>1
  <2>2. CASE i > Len(s)
    <3>1. i - Len(s) \in 1..Len(r) /\ i = Len(s) + (i - Len(s))
      BY <2>2
    <3> QED BY <1>2, <2>2, <3>1
  <2> QED BY <2>1, <2>2
<1> QED
  BY <1>1, <1>3, SeqEqual

\* Two words.
LEMMA OneOne ==
  ASSUME NEW S, NEW a \in S, NEW b \in S
  PROVE  <<a>> \o <<b>> = <<a, b>>
<1> DEFINE s == <<a>>
           r == <<b>>
           t == <<a, b>>
<1>1. /\ s \in Seq(S) /\ r \in Seq(S) /\ t \in Seq(S)
      /\ Len(s) = 1 /\ Len(r) = 1 /\ Len(t) = 2
      /\ t[1] = s[1]
      /\ t[2] = r[1]
  OBVIOUS
<1> HIDE DEF s, r, t
<1>2. /\ Len(t) = Len(s) + Len(r)
      /\ \A i \in 1..Len(s) : t[i] = s[i]
      /\ \A i \in 1..Len(r) : t[Len(s) + i] = r[i]
  BY <1>1
<1>3. s \o r = t
  BY <1>1, <1>2, Joined
<1> QED
  BY <1>3 DEF s, r, t

\* A report and one more word.
LEMMA TwoOne ==
  ASSUME NEW S, NEW a \in S, NEW b \in S, NEW c \in S
  PROVE  <<a, b>> \o <<c>> = <<a, b, c>>
<1> DEFINE s == <<a, b>>
           r == <<c>>
           t == <<a, b, c>>
<1>1. /\ s \in Seq(S) /\ r \in Seq(S) /\ t \in Seq(S)
      /\ Len(s) = 2 /\ Len(r) = 1 /\ Len(t) = 3
      /\ t[1] = s[1] /\ t[2] = s[2]
      /\ t[3] = r[1]
  OBVIOUS
<1> HIDE DEF s, r, t
<1>2. /\ Len(t) = Len(s) + Len(r)
      /\ \A i \in 1..Len(s) : t[i] = s[i]
      /\ \A i \in 1..Len(r) : t[Len(s) + i] = r[i]
  BY <1>1
<1>3. s \o r = t
  BY <1>1, <1>2, Joined
<1> QED
  BY <1>3 DEF s, r, t

\* A word and a report.
LEMMA OneTwo ==
  ASSUME NEW S, NEW a \in S, NEW b \in S, NEW c \in S
  PROVE  <<a>> \o <<b, c>> = <<a, b, c>>
<1> DEFINE s == <<a>>
           r == <<b, c>>
           t == <<a, b, c>>
<1>1. /\ s \in Seq(S) /\ r \in Seq(S) /\ t \in Seq(S)
      /\ Len(s) = 1 /\ Len(r) = 2 /\ Len(t) = 3
      /\ t[1] = s[1]
      /\ t[2] = r[1] /\ t[3] = r[2]
  OBVIOUS
<1> HIDE DEF s, r, t
<1>2. /\ Len(t) = Len(s) + Len(r)
      /\ \A i \in 1..Len(s) : t[i] = s[i]
      /\ \A i \in 1..Len(r) : t[Len(s) + i] = r[i]
  BY <1>1
<1>3. s \o r = t
  BY <1>1, <1>2, Joined
<1> QED
  BY <1>3 DEF s, r, t

\* Two reports.
LEMMA TwoTwo ==
  ASSUME NEW S, NEW a \in S, NEW b \in S, NEW c \in S, NEW d \in S
  PROVE  <<a, b>> \o <<c, d>> = <<a, b, c, d>>
<1> DEFINE s == <<a, b>>
           r == <<c, d>>
           t == <<a, b, c, d>>
<1>1. /\ s \in Seq(S) /\ r \in Seq(S) /\ t \in Seq(S)
      /\ Len(s) = 2 /\ Len(r) = 2 /\ Len(t) = 4
      /\ t[1] = s[1] /\ t[2] = s[2]
      /\ t[3] = r[1] /\ t[4] = r[2]
  OBVIOUS
<1> HIDE DEF s, r, t
<1>2. /\ Len(t) = Len(s) + Len(r)
      /\ \A i \in 1..Len(s) : t[i] = s[i]
      /\ \A i \in 1..Len(r) : t[Len(s) + i] = r[i]
  BY <1>1
<1>3. s \o r = t
  BY <1>1, <1>2, Joined
<1> QED
  BY <1>3 DEF s, r, t

\* Two reports and one more word.
LEMMA FourOne ==
  ASSUME NEW S, NEW a \in S, NEW b \in S, NEW c \in S, NEW d \in S, NEW e \in S
  PROVE  <<a, b, c, d>> \o <<e>> = <<a, b, c, d, e>>
<1> DEFINE s == <<a, b, c, d>>
           r == <<e>>
           t == <<a, b, c, d, e>>
<1>1. /\ s \in Seq(S) /\ r \in Seq(S) /\ t \in Seq(S)
      /\ Len(s) = 4 /\ Len(r) = 1 /\ Len(t) = 5
      /\ t[1] = s[1] /\ t[2] = s[2] /\ t[3] = s[3] /\ t[4] = s[4]
      /\ t[5] = r[1]
  OBVIOUS
<1> HIDE DEF s, r, t
<1>2. /\ Len(t) = Len(s) + Len(r)
      /\ \A i \in 1..Len(s) : t[i] = s[i]
      /\ \A i \in 1..Len(r) : t[Len(s) + i] = r[i]
  BY <1>1
<1>3. s \o r = t
  BY <1>1, <1>2, Joined
<1> QED
  BY <1>3 DEF s, r, t

\* The words a handler writes, by what they are for: it says something and the
\* command stays, it holds the slot on trial, it answers and clears the command,
\* or it leaves the next command and resets.
Says(end) ==
  /\ \A i \in 1..Len(end.writes) :
       /\ end.writes[i].word # "command"
       /\ end.writes[i].word = "status" => end.writes[i].value[1] # "held"
  /\ end.at # "boot"
  /\ IF run[1] = "FAIL" THEN ~end.feed /\ end.at = "poll"
     ELSE end.feed = feeding /\ end.at = "stopped"

HoldsSlot(end) ==
  /\ run[1] = "HOLD" /\ pending # "NONE" /\ end.at = "poll" /\ end.feed = feeding
  /\ NoneOf(end.writes, "command")

\* The one command word among the words t is the i-th.
CommandAt(t, i, v) ==
  /\ i \in 1..Len(t) /\ t[i] = [word |-> "command", value |-> v]
  /\ \A j \in 1..Len(t) : j # i => t[j].word \in {"status", "detail"}
  /\ \A j \in 1..Len(t) : t[j].word = "status" => t[j].value[1] # "held"

Clears(end) ==
  /\ \E i \in 1..Len(end.writes) : CommandAt(end.writes, i, None)
  /\ \E x \in Answer : /\ LastOf(end.writes, "status", <<x, run[2]>>)
                       /\ LastOf(end.writes, "detail", <<x, run[2]>>)
  /\ end.at = "poll"
  /\ run[1] = "HOLD" => \/ CommandAt(end.writes, Len(end.writes), None)
                        \/ pending = "NONE" /\ CommandAt(end.writes, 1, None)
  /\ IF run[1] = "FAIL" THEN end.feed /\ pending = "NONE" ELSE end.feed = feeding

\* The words t leave the command c, and say something before they hold it.
Leaves(t, c) ==
  \E i \in 1..Len(t) :
    /\ CommandAt(t, i, <<c, run[2]>>)
    /\ c = "HOLD" => \E j \in 1..Len(t) : j < i /\ t[j].word = "status"
    /\ \A j \in 1..Len(t) : t[j].word = "status" /\ t[j].value[1] \in Answer => c = "HOLD" /\ j < i

LeavesCommand(end) ==
  /\ \E c \in {"HOLD", "CONFIRM", "POWER_PAUSE"} : Leaves(end.writes, c)
  /\ end.at = "boot" /\ end.feed = feeding
  /\ run[1] \in {"INSTALL", "POWER_INSTALL", "ACTIVATE"}

\* The sequences of words the handlers write.
LEMMA Written ==
  ASSUME run \in Command \X Post
  PROVE  LET S(x) == [word |-> "status", value |-> <<x, run[2]>>]
             D(x) == [word |-> "detail", value |-> <<x, run[2]>>]
             C(v) == [word |-> "command", value |-> v]
         IN \A x, y \in Answer \cup {"busy"} :
              /\ Say(x) = <<S(x), D(x)>>
              /\ Say(x) \o Say(y) = <<S(x), D(x), S(y), D(y)>>
              /\ Say(x) \o ClearCommand = <<S(x), D(x), C(None)>>
              /\ ClearCommand \o Say(x) = <<C(None), S(x), D(x)>>
              /\ Say(x) \o Say(y) \o ClearCommand = <<S(x), D(x), S(y), D(y), C(None)>>
              /\ \A c \in {"HOLD", "CONFIRM", "POWER_PAUSE"} :
                   LET n == C(<<c, run[2]>>)
                   IN /\ Say(x) \o SetCommand(c) = <<S(x), D(x), n>>
                      /\ SetCommand(c) \o Say(x) = <<n, S(x), D(x)>>
                      /\ Say(x) \o Say(y) \o SetCommand(c) = <<S(x), D(x), S(y), D(y), n>>
<1> DEFINE S(x) == [word |-> "status", value |-> <<x, run[2]>>]
           D(x) == [word |-> "detail", value |-> <<x, run[2]>>]
           C(v) == [word |-> "command", value |-> v]
           W == Answer \cup {"busy"}
           Q == {"HOLD", "CONFIRM", "POWER_PAUSE"}
           H == {S(x) : x \in W} \cup {D(x) : x \in W} \cup {C(None)} \cup {C(<<c, run[2]>>) : c \in Q}
<1>1. (\A x \in W : S(x) \in H /\ D(x) \in H) /\ C(None) \in H /\ \A c \in Q : C(<<c, run[2]>>) \in H
  OBVIOUS
<1>2. /\ \A x \in W : Say(x) = <<S(x)>> \o <<D(x)>>
      /\ ClearCommand = <<C(None)>> /\ \A c \in Q : SetCommand(c) = <<C(<<c, run[2]>>)>>
  BY DEF Say, ClearCommand, SetCommand, Put
<1> HIDE DEF S, D, C, W, Q, H
<1>3. \A x \in W : Say(x) = <<S(x), D(x)>>
  BY <1>1, <1>2, OneOne
<1>4. \A x, y \in W : Say(x) \o Say(y) = <<S(x), D(x), S(y), D(y)>>
  <2> SUFFICES ASSUME NEW x \in W, NEW y \in W
               PROVE  Say(x) \o Say(y) = <<S(x), D(x), S(y), D(y)>>
    OBVIOUS
  <2>1. S(x) \in H /\ D(x) \in H /\ S(y) \in H /\ D(y) \in H
    BY <1>1
  <2>2. <<S(x), D(x)>> \o <<S(y), D(y)>> = <<S(x), D(x), S(y), D(y)>>
    BY <2>1, TwoTwo
  <2>3. Say(x) = <<S(x), D(x)>> /\ Say(y) = <<S(y), D(y)>>
    BY <1>3
  <2> QED
    BY <2>2, <2>3, Zenon
<1>5. \A x \in W : \A n \in H : Say(x) \o <<n>> = <<S(x), D(x), n>>
  BY <1>1, <1>3, TwoOne
<1>6. \A x \in W : \A n \in H : <<n>> \o Say(x) = <<n, S(x), D(x)>>
  BY <1>1, <1>3, OneTwo
<1>7. \A x, y \in W : \A n \in H : Say(x) \o Say(y) \o <<n>> = <<S(x), D(x), S(y), D(y), n>>
  <2> SUFFICES ASSUME NEW x \in W, NEW y \in W, NEW n \in H
               PROVE  Say(x) \o Say(y) \o <<n>> = <<S(x), D(x), S(y), D(y), n>>
    OBVIOUS
  <2>1. S(x) \in H /\ D(x) \in H /\ S(y) \in H /\ D(y) \in H
    BY <1>1
  <2>2. <<S(x), D(x), S(y), D(y)>> \o <<n>> = <<S(x), D(x), S(y), D(y), n>>
    BY <2>1, FourOne
  <2>3. Say(x) \o Say(y) = <<S(x), D(x), S(y), D(y)>>
    BY <1>4
  <2> QED
    BY <2>2, <2>3, Zenon
<1>8. \A x, y \in W :
        /\ Say(x) = <<S(x), D(x)>>
        /\ Say(x) \o Say(y) = <<S(x), D(x), S(y), D(y)>>
        /\ Say(x) \o ClearCommand = <<S(x), D(x), C(None)>>
        /\ ClearCommand \o Say(x) = <<C(None), S(x), D(x)>>
        /\ Say(x) \o Say(y) \o ClearCommand = <<S(x), D(x), S(y), D(y), C(None)>>
        /\ \A c \in Q :
             /\ Say(x) \o SetCommand(c) = <<S(x), D(x), C(<<c, run[2]>>)>>
             /\ SetCommand(c) \o Say(x) = <<C(<<c, run[2]>>), S(x), D(x)>>
             /\ Say(x) \o Say(y) \o SetCommand(c) = <<S(x), D(x), S(y), D(y), C(<<c, run[2]>>)>>
  <2>1. ClearCommand = <<C(None)>> /\ C(None) \in H
    BY <1>1, <1>2
  <2>2. \A c \in Q : SetCommand(c) = <<C(<<c, run[2]>>)>> /\ C(<<c, run[2]>>) \in H
    BY <1>1, <1>2, Zenon
  <2> QED
    BY <1>3, <1>4, <1>5, <1>6, <1>7, <2>1, <2>2, Zenon
<1> QED
  BY <1>8 DEF S, D, C, W, Q

\* Reports, one or two, in a row.
LEMMA Reported ==
  ASSUME NEW x \in Answer \cup {"busy"}, NEW y \in Answer \cup {"busy"}, run \in Command \X Post,
         NEW t, t = Say(x) \/ t = Say(x) \o Say(y)
  PROVE  /\ NoneOf(t, "command")
         /\ x # "held" /\ y # "held" =>
              \A i \in 1..Len(t) : t[i].word = "status" => t[i].value[1] # "held"
<1>1. CASE t = Say(x)
  <2>1. t = <<[word |-> "status", value |-> <<x, run[2]>>], [word |-> "detail", value |-> <<x, run[2]>>]>>
    BY <1>1, Written
  <2>2. \A i \in 1..Len(t) : i \in {1, 2}
    BY <2>1
  <2> QED
    BY <2>1, <2>2 DEF NoneOf
<1>2. CASE t = Say(x) \o Say(y)
  <2>1. t = <<[word |-> "status", value |-> <<x, run[2]>>], [word |-> "detail", value |-> <<x, run[2]>>],
              [word |-> "status", value |-> <<y, run[2]>>], [word |-> "detail", value |-> <<y, run[2]>>]>>
    BY <1>2, Written
  <2>2. \A i \in 1..Len(t) : i \in {1, 2, 3, 4}
    BY <2>1
  <2> QED
    BY <2>1, <2>2 DEF NoneOf
<1> QED
  BY <1>1, <1>2

\* All that the words t say is x.
OnlySays(t, x) == \A j \in 1..Len(t) : t[j].word = "status" => t[j].value = <<x, run[2]>>

\* A report and a command word, in either order.
LEMMA ReportedOnce ==
  ASSUME NEW x \in (Answer \cup {"busy"}) \ {"held"}, run \in Command \X Post, NEW v, NEW t
  PROVE  LET S == [word |-> "status", value |-> <<x, run[2]>>]
             D == [word |-> "detail", value |-> <<x, run[2]>>]
             C == [word |-> "command", value |-> v]
         IN /\ t = <<S, D, C>> => CommandAt(t, 3, v) /\ 1 \in 1..Len(t) /\ t[1].word = "status"
            /\ t = <<C, S, D>> => CommandAt(t, 1, v)
            /\ t = <<S, D, C>> \/ t = <<C, S, D>> =>
                 /\ LastOf(t, "status", <<x, run[2]>>) /\ LastOf(t, "detail", <<x, run[2]>>)
                 /\ Len(t) = 3
                 /\ OnlySays(t, x)
<1> DEFINE S == [word |-> "status", value |-> <<x, run[2]>>]
           D == [word |-> "detail", value |-> <<x, run[2]>>]
           C == [word |-> "command", value |-> v]
<1>1. ASSUME t = <<S, D, C>>
      PROVE  /\ CommandAt(t, 3, v) /\ 1 \in 1..Len(t) /\ t[1].word = "status"
             /\ LastOf(t, "status", <<x, run[2]>>) /\ LastOf(t, "detail", <<x, run[2]>>)
             /\ Len(t) = 3
             /\ OnlySays(t, x)
  <2>1. Len(t) = 3 /\ t[1] = S /\ t[2] = D /\ t[3] = C
    BY <1>1
  <2>2. \A i \in 1..3 : i = 1 \/ i = 2 \/ i = 3
    OBVIOUS
  <2>3. CommandAt(t, 3, v) /\ 1 \in 1..Len(t) /\ t[1].word = "status"
    BY <2>1, <2>2 DEF CommandAt
  <2>4. LastOf(t, "status", <<x, run[2]>>)
    BY <2>1, <2>2 DEF LastOf
  <2>5. LastOf(t, "detail", <<x, run[2]>>)
    BY <2>1, <2>2 DEF LastOf
  <2>6. OnlySays(t, x)
    BY <2>1, <2>2 DEF OnlySays
  <2> QED
    BY <2>1, <2>3, <2>4, <2>5, <2>6
<1>2. ASSUME t = <<C, S, D>>
      PROVE  /\ CommandAt(t, 1, v)
             /\ LastOf(t, "status", <<x, run[2]>>) /\ LastOf(t, "detail", <<x, run[2]>>)
             /\ Len(t) = 3
             /\ OnlySays(t, x)
  <2>1. Len(t) = 3 /\ t[1] = C /\ t[2] = S /\ t[3] = D
    BY <1>2
  <2>2. \A i \in 1..3 : i = 1 \/ i = 2 \/ i = 3
    OBVIOUS
  <2>3. CommandAt(t, 1, v)
    BY <2>1, <2>2 DEF CommandAt
  <2>4. LastOf(t, "status", <<x, run[2]>>)
    BY <2>1, <2>2 DEF LastOf
  <2>5. LastOf(t, "detail", <<x, run[2]>>)
    BY <2>1, <2>2 DEF LastOf
  <2>6. OnlySays(t, x)
    BY <2>1, <2>2 DEF OnlySays
  <2> QED
    BY <2>1, <2>3, <2>4, <2>5, <2>6
<1> HIDE DEF S, D, C
<1>3. /\ t = <<S, D, C>> => CommandAt(t, 3, v) /\ 1 \in 1..Len(t) /\ t[1].word = "status"
      /\ t = <<C, S, D>> => CommandAt(t, 1, v)
      /\ t = <<S, D, C>> \/ t = <<C, S, D>> =>
           /\ LastOf(t, "status", <<x, run[2]>>) /\ LastOf(t, "detail", <<x, run[2]>>)
           /\ Len(t) = 3
           /\ OnlySays(t, x)
  BY <1>1, <1>2
<1> QED
  BY <1>3 DEF S, D, C

\* Two reports and a command word.
LEMMA ReportedTwice ==
  ASSUME NEW x \in (Answer \cup {"busy"}) \ {"held"}, NEW y \in (Answer \cup {"busy"}) \ {"held"},
         run \in Command \X Post, NEW v, NEW t,
         t = <<[word |-> "status", value |-> <<x, run[2]>>], [word |-> "detail", value |-> <<x, run[2]>>],
               [word |-> "status", value |-> <<y, run[2]>>], [word |-> "detail", value |-> <<y, run[2]>>],
               [word |-> "command", value |-> v]>>
  PROVE  /\ CommandAt(t, 5, v) /\ 1 \in 1..Len(t) /\ t[1].word = "status" /\ Len(t) = 5
         /\ LastOf(t, "status", <<y, run[2]>>) /\ LastOf(t, "detail", <<y, run[2]>>)
<1>1. /\ Len(t) = 5
      /\ t[1] = [word |-> "status", value |-> <<x, run[2]>>]
      /\ t[2] = [word |-> "detail", value |-> <<x, run[2]>>]
      /\ t[3] = [word |-> "status", value |-> <<y, run[2]>>]
      /\ t[4] = [word |-> "detail", value |-> <<y, run[2]>>]
      /\ t[5] = [word |-> "command", value |-> v]
  OBVIOUS
<1>2. \A i \in 1..5 : i = 1 \/ i = 2 \/ i = 3 \/ i = 4 \/ i = 5
  OBVIOUS
<1>3. CommandAt(t, 5, v) /\ 1 \in 1..Len(t) /\ t[1].word = "status"
  BY <1>1, <1>2 DEF CommandAt
<1>4. LastOf(t, "status", <<y, run[2]>>)
  BY <1>1, <1>2 DEF LastOf
<1>5. LastOf(t, "detail", <<y, run[2]>>)
  BY <1>1, <1>2 DEF LastOf
<1> QED
  BY <1>1, <1>3, <1>4, <1>5

\* Every end of a handler is of one of the four kinds.
LEMMA HandlerKinds ==
  ASSUME run \in Command \X Post, NEW end \in Handler
  PROVE  Says(end) \/ HoldsSlot(end) \/ Clears(end) \/ LeavesCommand(end)
<1> DEFINE W == (Answer \cup {"busy"}) \ {"held"}
           Q == {"HOLD", "CONFIRM", "POWER_PAUSE"}
<1>1. {"done", "error", "failing", "armed", "busy"} \subseteq W /\ {"done", "error"} \subseteq Answer
      /\ W \subseteq Answer \cup {"busy"} /\ "held" \in Answer /\ "busy" \notin Answer
  BY DEF Answer
<1> HIDE DEF W
<1>2. \A x, y \in W : \A t : t = Say(x) \/ t = Say(x) \o Say(y) =>
        \A i \in 1..Len(t) : /\ t[i].word # "command"
                             /\ t[i].word = "status" => t[i].value[1] # "held"
  BY Reported DEF W, NoneOf
<1>3. \A x \in W : \A t : t = Say(x) \o ClearCommand \/ t = ClearCommand \o Say(x) =>
        /\ \E i \in 1..Len(t) : CommandAt(t, i, None)
        /\ t = ClearCommand \o Say(x) => CommandAt(t, 1, None)
        /\ t = Say(x) \o ClearCommand => CommandAt(t, Len(t), None)
        /\ LastOf(t, "status", <<x, run[2]>>) /\ LastOf(t, "detail", <<x, run[2]>>)
  <2> SUFFICES ASSUME NEW x \in W, NEW t, t = Say(x) \o ClearCommand \/ t = ClearCommand \o Say(x)
               PROVE  /\ \E i \in 1..Len(t) : CommandAt(t, i, None)
                      /\ t = ClearCommand \o Say(x) => CommandAt(t, 1, None)
                      /\ t = Say(x) \o ClearCommand => CommandAt(t, Len(t), None)
                      /\ LastOf(t, "status", <<x, run[2]>>) /\ LastOf(t, "detail", <<x, run[2]>>)
    OBVIOUS
  <2> DEFINE S == [word |-> "status", value |-> <<x, run[2]>>]
             D == [word |-> "detail", value |-> <<x, run[2]>>]
             C == [word |-> "command", value |-> None]
  <2>1. /\ t = <<S, D, C>> \/ t = <<C, S, D>>
        /\ t = ClearCommand \o Say(x) => t = <<C, S, D>>
        /\ t = Say(x) \o ClearCommand => t = <<S, D, C>>
    BY <1>1, Written
  <2>2. /\ t = <<S, D, C>> => CommandAt(t, 3, None) /\ Len(t) = 3
        /\ t = <<C, S, D>> => CommandAt(t, 1, None)
        /\ t = <<S, D, C>> \/ t = <<C, S, D>> =>
             LastOf(t, "status", <<x, run[2]>>) /\ LastOf(t, "detail", <<x, run[2]>>)
    BY ReportedOnce DEF W
  <2> HIDE DEF S, D, C
  <2> QED
    BY <2>1, <2>2 DEF CommandAt
<1>4. \A x, y \in W : \A t : t = Say(x) \o Say(y) \o ClearCommand =>
        /\ \E i \in 1..Len(t) : CommandAt(t, i, None)
        /\ LastOf(t, "status", <<y, run[2]>>) /\ LastOf(t, "detail", <<y, run[2]>>)
  <2> SUFFICES ASSUME NEW x \in W, NEW y \in W, NEW t, t = Say(x) \o Say(y) \o ClearCommand
               PROVE  /\ \E i \in 1..Len(t) : CommandAt(t, i, None)
                      /\ LastOf(t, "status", <<y, run[2]>>) /\ LastOf(t, "detail", <<y, run[2]>>)
    OBVIOUS
  <2>1. t = <<[word |-> "status", value |-> <<x, run[2]>>], [word |-> "detail", value |-> <<x, run[2]>>],
              [word |-> "status", value |-> <<y, run[2]>>], [word |-> "detail", value |-> <<y, run[2]>>],
              [word |-> "command", value |-> None]>>
    BY <1>1, Written
  <2>2. CommandAt(t, 5, None) /\ LastOf(t, "status", <<y, run[2]>>) /\ LastOf(t, "detail", <<y, run[2]>>)
    BY <2>1, ReportedTwice DEF W
  <2> QED
    BY <2>2 DEF CommandAt
<1>5. ASSUME NEW x \in W, NEW y \in W, x \notin Answer, NEW c \in Q, NEW t,
             \/ t = Say(x) \o SetCommand(c)
             \/ t = Say(x) \o Say(y) \o SetCommand(c) /\ c = "HOLD"
             \/ t = SetCommand(c) \o Say(x) /\ c # "HOLD"
      PROVE  Leaves(t, c)
  <2> DEFINE S == [word |-> "status", value |-> <<x, run[2]>>]
             D == [word |-> "detail", value |-> <<x, run[2]>>]
             E == [word |-> "status", value |-> <<y, run[2]>>]
             F == [word |-> "detail", value |-> <<y, run[2]>>]
             C == [word |-> "command", value |-> <<c, run[2]>>]
  <2>1. \/ t = <<S, D, C>>
        \/ t = <<C, S, D>> /\ c # "HOLD"
        \/ t = <<S, D, E, F, C>> /\ c = "HOLD"
    <3>1. x \in Answer \cup {"busy"} /\ y \in Answer \cup {"busy"}
      BY <1>1, <1>5
    <3>2. Say(x) \o SetCommand(c) = <<S, D, C>> /\ SetCommand(c) \o Say(x) = <<C, S, D>>
      BY <3>1, Written
    <3>3. Say(x) \o Say(y) \o SetCommand(c) = <<S, D, E, F, C>>
      BY <3>1, Written
    <3> QED
      BY <1>5, <3>2, <3>3
  <2>2. /\ t = <<S, D, C>> =>
             CommandAt(t, 3, <<c, run[2]>>) /\ 1 \in 1..Len(t) /\ t[1].word = "status"
        /\ t = <<C, S, D>> => CommandAt(t, 1, <<c, run[2]>>)
        /\ t = <<S, D, C>> \/ t = <<C, S, D>> => OnlySays(t, x)
    BY <1>5, ReportedOnce DEF W
  <2>3. t = <<S, D, E, F, C>> =>
          CommandAt(t, 5, <<c, run[2]>>) /\ 1 \in 1..Len(t) /\ t[1].word = "status" /\ Len(t) = 5
    <3>1. x \in (Answer \cup {"busy"}) \ {"held"} /\ y \in (Answer \cup {"busy"}) \ {"held"}
      BY <1>5 DEF W
    <3> QED
      BY <3>1, ReportedTwice
  <2> HIDE DEF S, D, C, E, F
  <2>4. 1 < 3 /\ 1 < 5
    OBVIOUS
  <2>5. CASE t = <<S, D, C>>
    BY <1>5, <2>2, <2>4, <2>5 DEF CommandAt, Leaves, OnlySays
  <2>6. CASE t = <<C, S, D>> /\ c # "HOLD"
    BY <1>5, <2>2, <2>4, <2>6 DEF CommandAt, Leaves, OnlySays
  <2>7. CASE t = <<S, D, E, F, C>> /\ c = "HOLD"
    <3>1. CommandAt(t, 5, <<c, run[2]>>) /\ 1 \in 1..Len(t) /\ t[1].word = "status" /\ Len(t) = 5
      BY <2>3, <2>7
    <3>2. \A j \in 1..5 : j = 5 \/ j < 5
      OBVIOUS
    <3>3. \A j \in 1..Len(t) : t[j].word = "status" => j < 5
      BY <3>1, <3>2 DEF CommandAt
    <3> QED
      BY <2>4, <2>7, <3>1, <3>3 DEF CommandAt, Leaves
  <2> QED
    BY <2>1, <2>5, <2>6, <2>7
<1>6. CASE end = ReportError /\ run[1] # "FAIL"
  <2>1. end.writes = Say("error") \o ClearCommand /\ end.at = "poll" /\ end.feed = feeding
    BY <1>6 DEF ReportError, Ends
  <2>2. Clears(end)
    BY <1>1, <1>3, <1>6, <2>1 DEF Clears
  <2> QED
    BY <2>2
<1>7. CASE end = Success /\ run[1] # "FAIL" /\ ~(run[1] = "HOLD" /\ pending # "NONE")
  <2>1. end.writes = ClearCommand \o Say("done") /\ end.at = "poll" /\ end.feed = feeding
    BY <1>7 DEF Success, Ends
  <2>2. Clears(end)
    BY <1>1, <1>3, <1>7, <2>1 DEF Clears
  <2> QED
    BY <2>2
<1>8. CASE end = Ends(Say("busy") \o Say("error") \o ClearCommand, "poll") /\ run[1] \notin {"HOLD", "FAIL"}
  <2>1. end.writes = Say("busy") \o Say("error") \o ClearCommand /\ end.at = "poll" /\ end.feed = feeding
    BY <1>8 DEF Ends
  <2>2. Clears(end)
    BY <1>1, <1>4, <1>8, <2>1 DEF Clears
  <2> QED
    BY <2>2
<1>9. ASSUME NEW x \in W, NEW y \in W, run[1] # "FAIL",
             \/ end = Ends(Say(x), "stopped") \/ end = Ends(Say(x) \o Say(y), "stopped")
      PROVE  Says(end)
  <2>1. end.writes \in {Say(x), Say(x) \o Say(y)} /\ end.at = "stopped" /\ end.feed = feeding
    BY <1>9 DEF Ends
  <2> QED
    BY <1>2, <1>9, <2>1 DEF Says
<1>10. ASSUME NEW x \in W, NEW y \in W, x \notin Answer, NEW c \in Q,
              run[1] \in {"INSTALL", "POWER_INSTALL", "ACTIVATE"},
              \/ end = Ends(Say(x) \o SetCommand(c), "boot")
              \/ end = Ends(Say(x) \o Say(y) \o SetCommand(c), "boot") /\ c = "HOLD"
              \/ end = Ends(SetCommand(c) \o Say(x), "boot") /\ c # "HOLD"
       PROVE  LeavesCommand(end)
  <2> DEFINE t == end.writes
  <2>1. /\ \/ t = Say(x) \o SetCommand(c)
           \/ t = Say(x) \o Say(y) \o SetCommand(c) /\ c = "HOLD"
           \/ t = SetCommand(c) \o Say(x) /\ c # "HOLD"
        /\ end.at = "boot" /\ end.feed = feeding
    BY <1>10 DEF Ends
  <2> HIDE DEF t
  <2>2. Leaves(t, c)
    BY <1>5, <1>10, <2>1
  <2> QED
    BY <1>10, <2>1, <2>2 DEF LeavesCommand, t
<1>11. CASE run[1] = "INSTALL"
  <2>1. end \in Installs
    BY <1>11 DEF Handler, Installs
  <2> QED
    BY <1>1, <1>6, <1>8, <1>9, <1>10, <1>11, <2>1 DEF Installs, ErrorWhileBusy
<1>12. CASE run[1] = "POWER_INSTALL"
  <2>1. end \in PowerInstalls
    BY <1>12 DEF Handler, PowerInstalls
  <2> QED
    BY <1>1, <1>6, <1>8, <1>9, <1>10, <1>12, <2>1 DEF PowerInstalls, ErrorWhileBusy
<1>13. CASE run[1] = "HOLD"
  <2>1. end \in Holds
    BY <1>13 DEF Handler, Refuses
  <2>2. CASE pending # "NONE"
    <3>1. end = Ends(Say("held"), "poll") \/ end = ReportError
      BY <2>1, <2>2 DEF Holds
    <3> SUFFICES ASSUME end = Ends(Say("held"), "poll") PROVE HoldsSlot(end)
      BY <1>6, <1>13, <3>1
    <3>2. end.writes = Say("held") /\ end.at = "poll" /\ end.feed = feeding
      BY DEF Ends
    <3>3. NoneOf(end.writes, "command")
      BY <1>1, <3>2, Reported
    <3> QED
      BY <1>13, <2>2, <3>2, <3>3 DEF HoldsSlot
  <2>3. CASE pending = "NONE"
    BY <1>6, <1>7, <1>13, <2>1, <2>3 DEF Holds
  <2> QED
    BY <2>2, <2>3
<1>14. CASE run[1] = "FAIL"
  <2>1. end \in Fails
    BY <1>14 DEF Handler, Refuses
  <2>2. CASE end = [Success EXCEPT !.feed = TRUE] /\ pending = "NONE"
    <3>1. Success = [writes |-> ClearCommand \o Say("done"), at |-> "poll", feed |-> feeding]
      BY DEF Success, Ends
    <3>2. end.writes = ClearCommand \o Say("done") /\ end.at = "poll" /\ end.feed = TRUE
      BY <2>2, <3>1
    <3>3. Clears(end)
      BY <1>1, <1>3, <1>14, <2>2, <3>2 DEF Clears
    <3> QED
      BY <3>3
  <2>3. CASE end = [Ends(Say("failing"), "poll") EXCEPT !.feed = FALSE]
    <3>1. end.writes = Say("failing") /\ end.at = "poll" /\ end.feed = FALSE
      BY <2>3 DEF Ends
    <3>2. Says(end)
      BY <1>1, <1>2, <1>14, <3>1 DEF Says
    <3> QED
      BY <3>2
  <2> QED
    BY <2>1, <2>2, <2>3 DEF Fails
<1>15. CASE run[1] \in {"CONFIRM", "CHECK"}
  <2>1. end \in {ReportError, Success, Stops}
    BY <1>15 DEF Handler, Refuses
  <2> QED
    BY <1>1, <1>6, <1>7, <1>9, <1>15, <2>1 DEF Stops
<1>16. CASE run[1] = "ACTIVATE"
  <2>1. end \in {ReportError, Stops, Ends(SetCommand("CONFIRM") \o Say("busy"), "boot")}
    BY <1>16 DEF Handler, Refuses
  <2> QED
    BY <1>1, <1>6, <1>9, <1>10, <1>16, <2>1 DEF Stops
<1>17. CASE run[1] = "POWER_CONFIRM"
  <2>1. end \in {ReportError, Stops}
    BY <1>17 DEF Handler, Refuses
  <2> QED
    BY <1>1, <1>6, <1>9, <1>17, <2>1 DEF Stops
<1>18. CASE run[1] = "POWER_PAUSE"
  <2>1. end = Stops
    BY <1>18 DEF Handler, Refuses
  <2> QED
    BY <1>1, <1>9, <1>18, <2>1 DEF Stops
<1>19. CASE run[1] = "OTHER"
  <2>1. end = ReportError
    BY <1>19 DEF Handler, Refuses
  <2> QED
    BY <1>6, <1>19, <2>1
<1> QED
  BY <1>11, <1>12, <1>13, <1>14, <1>15, <1>16, <1>17, <1>18, <1>19 DEF Command

-----------------------------------------------------------------------------
(***************************************************************************)
(* The invariant of posts and answers is inductive beside MailInv.         *)
(***************************************************************************)

\* A device with nothing left to write has a valid block.
LEMMA EmptyIsValid ==
  ASSUME MailInv, pc = "put", todo = <<>>
  PROVE  Valid
<1>1. Len(todo) = 0
  OBVIOUS
<1>2. Len(todo) \notin 5..13
  BY <1>1
<1> QED
  BY <1>2 DEF InitTodo, MailInv, WipeOK

\* A command that looks held is held, or the button was pressed; then a post may
\* lie over it.
LEMMA PostingKept ==
  ASSUME PostingOK, block' = block, hostAt' = hostAt, posts' = posts, Valid /\ HeldNow => resets' > 0
  PROVE  PostingOK'
BY DEF PostingOK, HeldNow, Valid, MayBeHeld

\* A restarted device.
LEMMA RestartPosts ==
  ASSUME MailInv, PostInv, Restart, block' = block, hostAt' = hostAt, posts' = posts,
         Valid /\ HeldNow => resets' > 0
  PROVE  PostInv'
<1>1. PostingOK' /\ BootOK'
  BY PostingKept DEF PostInv, BootOK, HeldNow, Valid
<1>2. TakenOK' /\ FeedOK' /\ TodoOK' /\ QuietMeansAnswered'
  BY DEF TakenOK, FeedOK, TodoOK, QuietMeansAnswered, Restart
<1>3. OrderOK'
  BY DEF PostInv, OrderOK, Restart, GoesOn, Valid
<1> QED
  BY <1>1, <1>2, <1>3 DEF PostInv

\* A device that restarts, whoever restarts it.
LEMMA RestartsPost ==
  ASSUME MailInv, PostInv, HandlerResets \/ Watchdog \/ ResetButton
  PROVE  PostInv'
<1>1. Restart /\ block' = block /\ hostAt' = hostAt /\ posts' = posts
  BY DEF HandlerResets, Watchdog, ResetButton, host
<1>2. CASE HandlerResets
  <2>1. pc = "put" /\ then.at = "boot" /\ resets' = resets
    BY <1>2 DEF HandlerResets
  <2>2. Valid => ~HeldNow
    BY <2>1 DEF PostInv, TodoOK, ResetOK, HeldNow
  <2> QED
    BY <1>1, <2>2, RestartPosts
<1>3. CASE Watchdog
  <2>1. resets' = resets /\ (~feeding \/ pc = "hung")
    BY <1>3 DEF Watchdog
  <2>2. Valid /\ HeldNow => MayBeHeld
    BY DEF PostInv, PostingOK, HeldNow, None
  <2>3. Dying => hostAt = 0 /\ ~HeldNow
    BY DEF Dying, PostInv, PostingOK, None, HeldNow
  <2>4. Valid /\ HeldNow => resets' > 0
    BY <2>1, <2>2, <2>3 DEF PostInv, FeedOK, BootOK, Clearing, MayBeHeld
  <2> QED
    BY <1>1, <2>4, RestartPosts
<1>4. CASE ResetButton
  <2>1. resets' > 0
    BY <1>4, PostFacts DEF ResetButton, MailInv, HostOK
  <2> QED
    BY <1>1, <2>1, RestartPosts
<1> QED
  BY <1>2, <1>3, <1>4

\* Two reports that the device runs, and nothing else, are left to write.
LEMMA BootPosts ==
  ASSUME BootTodo(todo'), then'.at # "boot"
  PROVE  CommandPutOK' /\ ResetOK' /\ HeldPutOK' /\ ReportOK' /\ NoneOf(todo', "command")
<1> DEFINE t == todo'
<1>1. /\ Len(t) = 4
      /\ \A i \in 1..4 : i = 1 \/ i = 2 \/ i = 3 \/ i = 4
      /\ t[1] = BootPut("status") /\ t[2] = BootPut("detail")
      /\ t[3] = BootPut("status") /\ t[4] = BootPut("detail")
  BY DEF BootTodo
<1> HIDE DEF t
<1>2. \A i \in 1..Len(t) : t[i].word \in {"status", "detail"} /\ t[i].value[1] = "boot"
  BY <1>1 DEF BootPut
<1>3. NoneOf(t, "command")
  BY <1>2 DEF NoneOf
<1>4. LastOf(t, "status", <<"boot", 0>>)
  BY <1>1 DEF LastOf, BootPut
<1>5. LastOf(t, "detail", <<"boot", 0>>)
  BY <1>1 DEF LastOf, BootPut
<1>6. CommandPutOK' /\ HeldPutOK'
  BY <1>2 DEF CommandPutOK, HeldPutOK, t
<1>7. ResetOK'
  BY DEF ResetOK
<1>8. ReportOK'
  <2>1. Final("status", <<"boot", 0>>)' /\ Final("detail", <<"boot", 0>>)'
    BY <1>4, <1>5 DEF Final, t
  <2>2. <<"boot", 0>> \in Reports'
    BY DEF Reports
  <2> QED
    BY <2>1, <2>2 DEF ReportOK
<1> QED
  BY <1>3, <1>6, <1>7, <1>8 DEF t

\* Boot loader and application report.
LEMMA BootKeepsPosts ==
  ASSUME MailInv, PostInv, Boot
  PROVE  PostInv'
<1>1. /\ pc = "boot" /\ pc' = "put" /\ todo' = ControlInit(block) \o SayBoot \o SayBoot
      /\ then'.at # "boot" /\ then'.feed = TRUE /\ feeding' /\ run = None
      /\ UNCHANGED <<block, run, hostAt, posts, resets>>
  BY DEF Boot, host, PostInv, FeedOK, Clearing, MailInv, DeviceOK
<1>2. TakenOK' /\ FeedOK' /\ PostingOK' /\ BootOK' /\ OrderOK' /\ QuietMeansAnswered'
  <2>1. Valid /\ HeldNow => resets' > 0
    BY <1>1 DEF PostInv, BootOK
  <2>2. PostingOK'
    BY <1>1, <2>1, PostingKept DEF PostInv
  <2>3. BootOK'
    BY <1>1, <2>1 DEF BootOK, HeldNow, Valid
  <2> QED
    BY <1>1, <2>2, <2>3 DEF PostInv, TakenOK, FeedOK, OrderOK, QuietMeansAnswered, Valid
<1>3. CASE Valid
  <2>1. ControlInit(block) = <<>>
    BY <1>3 DEF ControlInit, Valid
  <2>2. BootPut("status") \in SayPut /\ BootPut("detail") \in SayPut
    BY BootTyped
  <2>3. SayBoot = <<BootPut("status"), BootPut("detail")>>
    BY <2>2, OneOne DEF SayBoot, Put, BootPut
  <2>4. SayBoot \in Seq(SayPut)
    BY <2>2, <2>3
  <2>5. <<>> \o SayBoot = SayBoot
    BY <2>4, ConcatEmptySeq
  <2>6. todo' = <<BootPut("status"), BootPut("detail"), BootPut("status"), BootPut("detail")>>
    BY <1>1, <2>1, <2>2, <2>3, <2>5, TwoTwo
  <2>7. BootTodo(todo')
    BY <2>6 DEF BootTodo
  <2>8. TodoOK'
    BY <1>1, <2>7, BootPosts DEF TodoOK
  <2> QED
    BY <1>2, <2>8 DEF PostInv
<1>4. CASE ~Valid
  BY <1>1, <1>2, <1>4 DEF PostInv, TodoOK, Valid
<1> QED
  BY <1>3, <1>4

\* The main loop takes a command.
LEMMA PollKeepsPosts ==
  ASSUME MailInv, PostInv, Poll
  PROVE  PostInv'
<1>1. /\ pc = "poll" /\ pc' = "fetch" /\ run' = block.command
      /\ block.command # None
      /\ UNCHANGED <<block, then, feeding, pending, inA, hostAt, posts, lost, resets>>
  BY DEF Poll, host, slots, history
<1>2. TakenOK' /\ TodoOK' /\ QuietMeansAnswered' /\ PostingOK' /\ BootOK'
  BY <1>1 DEF PostInv, TakenOK, TodoOK, QuietMeansAnswered, PostingOK, BootOK, Valid, MayBeHeld
<1>3. FeedOK'
  BY <1>1 DEF PostInv, FeedOK, Dying, Clearing, Valid
<1>4. OrderOK'
  <2>1. Valid
    BY <1>1 DEF MailInv, WipeOK
  <2>2. block.command[2] <= posts /\ (hostAt # 0 => block.command[2] < posts)
    <3>1. block.command[2] \in Nat /\ posts \in Nat
      <4>1. block.command[2] \in Post
        BY <1>1, <2>1 DEF MailInv, BlockOK
      <4>2. posts \in Nat
        BY DEF MailInv, HostOK
      <4>3. block.command[2] \in Nat
        BY <4>1, PostFacts
      <4> QED
        BY <4>2, <4>3
    <3>2. IF hostAt = 0 THEN block.command[2] = posts ELSE block.command[2] < posts
      BY <1>1, <2>1 DEF PostInv, PostingOK, OrderOK
    <3> QED
      BY <3>1, <3>2
  <2> QED
    BY <1>1, <2>2 DEF OrderOK, GoesOn
<1> QED
  BY <1>2, <1>3, <1>4 DEF PostInv

\* Its arguments are read.
LEMMA FetchKeepsPosts ==
  ASSUME MailInv, PostInv, FetchArgument \/ Fetched
  PROVE  PostInv'
<1>1. /\ pc = "fetch" /\ pc' \in {"fetch", "work"}
      /\ UNCHANGED <<block, run, then, feeding, pending, inA, hostAt, posts, lost, resets>>
  BY DEF FetchArgument, Fetched, host, slots, history
<1>2. TakenOK' /\ TodoOK' /\ QuietMeansAnswered' /\ PostingOK' /\ BootOK' /\ OrderOK'
  BY <1>1
  DEF PostInv, TakenOK, TodoOK, QuietMeansAnswered, PostingOK, BootOK, OrderOK, GoesOn, Valid, MayBeHeld
<1>3. FeedOK'
  BY <1>1 DEF PostInv, FeedOK, Dying, Clearing, Valid
<1> QED
  BY <1>2, <1>3 DEF PostInv

\* A handler that returns has written what it had to say.
LEMMA ReturnKeepsPosts ==
  ASSUME MailInv, PostInv, HandlerReturns
  PROVE  PostInv'
<1>1. /\ pc = "put" /\ todo = <<>> /\ then.at # "boot"
      /\ pc' = then.at /\ feeding' = then.feed /\ run' \in {run, None}
      /\ UNCHANGED <<block, pending, inA, hostAt, posts, lost, resets>>
  BY DEF HandlerReturns, host, slots
<1>2. pc' \in {"poll", "stopped", "hung", "recovery"} /\ (pc' \in {"hung", "recovery"} => run = None)
  BY <1>1 DEF MailInv, DeviceOK, Resting
<1>3. Valid
  BY <1>1, EmptyIsValid
<1>4. TakenOK' /\ TodoOK' /\ PostingOK' /\ BootOK' /\ OrderOK'
  BY <1>1, <1>2
  DEF PostInv, TakenOK, TodoOK, PostingOK, BootOK, HeldNow, OrderOK, GoesOn, Valid, MayBeHeld
<1>5. FeedOK'
  BY <1>1, <1>2 DEF PostInv, FeedOK, Dying, Valid
<1>6. QuietMeansAnswered'
  <2> SUFFICES ASSUME block.command = None, hostAt = 0, lost # posts
               PROVE  /\ block.status = block.detail
                      /\ \/ block.status[1] = "boot"
                         \/ block.status[1] \in Answer /\ block.status[2] = posts
    BY <1>1 DEF QuietMeansAnswered
  <2>1. PICK v \in Reports : Final("status", v) /\ Final("detail", v)
    BY <1>1, <1>3 DEF PostInv, TodoOK, ReportOK, Loses
  <2>2. Len(todo) = 0
    BY <1>1
  <2>3. block["status"] = v /\ block["detail"] = v
    BY <2>1, <2>2 DEF Final, LastOf
  <2> QED
    BY <2>1, <2>3 DEF Reports
<1> QED
  BY <1>4, <1>5, <1>6 DEF PostInv

\* A power cut leaves an invalid block and a device that starts.
LEMMA CutKeepsPosts ==
  ASSUME MailInv, PostInv, PowerCut
  PROVE  PostInv'
<1>1. Restart /\ ~Valid'
  BY DEF PowerCut, Valid
<1> QED
  BY <1>1
  DEF PostInv, TakenOK, FeedOK, PostingOK, BootOK, OrderOK, TodoOK, QuietMeansAnswered, Restart

\* The host begins a post.
LEMMA BeginPostKeepsPosts ==
  ASSUME MailInv, PostInv, BeginPost
  PROVE  PostInv'
<1>1. /\ Idle /\ hostAt = 0 /\ hostAt' = 1 /\ posts' = posts + 1 /\ posts \in Nat
      /\ UNCHANGED <<block, pc, run, todo, then, feeding, pending, inA, lost, resets>>
  BY PostFacts DEF BeginPost, device, slots, history, MailInv, HostOK
<1>2. block.command = None \/ (block.command[1] = "HOLD" /\ block.status[1] = "held")
  BY <1>1 DEF Idle
<1>3. TakenOK' /\ FeedOK' /\ QuietMeansAnswered'
  BY <1>1 DEF PostInv, TakenOK, FeedOK, QuietMeansAnswered, Dying, Clearing, Valid, MayBeHeld
<1>6. BootOK'
  BY <1>1, <1>2 DEF PostInv, BootOK, HeldNow, Valid, None
<1>7. OrderOK'
  <2>1. run # None => run[2] \in Nat /\ run[2] <= posts
    <3>1. run # None => run[2] \in Post
      BY DEF MailInv, DeviceOK
    <3> QED
      BY <3>1, PostFacts DEF PostInv, OrderOK
  <2>2. block.command # None => block.command[2] = posts
    BY <1>1 DEF Idle, Valid, PostInv, PostingOK
  <2> QED
    BY <1>1, <2>1, <2>2 DEF OrderOK
<1>4. PostingOK'
  BY <1>1, <1>2 DEF PostInv, PostingOK, Valid, MayBeHeld
<1>5. TodoOK'
  <2> SUFFICES ASSUME pc = "put", Valid PROVE CommandPutOK' /\ ResetOK' /\ HeldPutOK' /\ ReportOK'
    BY <1>1 DEF TodoOK, Valid
  <2>1. CommandPutOK /\ ResetOK /\ HeldPutOK
    BY DEF PostInv, TodoOK
  <2>2. CommandPutOK' /\ HeldPutOK'
    BY <1>1, <2>1 DEF CommandPutOK, ClearsFirst, ClearsLast, HeldPutOK, NoneOf
  <2>3. ResetOK'
    BY <1>1, <1>2, <2>1 DEF ResetOK
  <2>4. ReportOK'
    BY <1>1 DEF ReportOK
  <2> QED
    BY <2>2, <2>3, <2>4
<1> QED
  BY <1>3, <1>4, <1>5, <1>6, <1>7 DEF PostInv

\* The probe writes a word of its post.
LEMMA HostWordKeepsPosts ==
  ASSUME MailInv, PostInv, HostWord
  PROVE  PostInv'
<1> DEFINE word == Layout[hostAt]
<1>1. /\ hostAt # 0 /\ block' = [block EXCEPT ![word] = Posted(word)]
      /\ hostAt' = IF hostAt = Len(Layout) THEN 0 ELSE hostAt + 1
      /\ UNCHANGED <<pc, run, todo, then, feeding, pending, inA, hostCmd, posts, lost, resets>>
  BY DEF HostWord, device, slots, history
<1>2. hostAt \in 1 .. 7 /\ Valid /\ block \in Block
  BY <1>1 DEF MailInv, HostOK, WipeOK
<1>3. /\ hostAt # 7 => word # "command"
      /\ hostAt = 7 => word = "command"
      /\ hostAt = 5 => word = "status"
      /\ Len(Layout) = 7
      /\ word \in {"magic", "version", "argument0", "argument1", "status", "detail", "command"}
  BY <1>2 DEF Layout
<1>4. hostAt' \in 0 .. 7 /\ (hostAt = 7 => hostAt' = 0) /\ (hostAt # 7 => hostAt' = hostAt + 1)
  BY <1>1, <1>2, <1>3
<1> HIDE DEF word
<1>5. /\ word \in {"status", "detail"} => Posted(word) = <<"zero", posts>>
      /\ word = "command" => Posted(word) = <<hostCmd, posts>>
  BY DEF Posted
<1>6. \A x \in {"magic", "version", "argument0", "argument1", "status", "detail", "command"} :
        block'[x] = IF x = word THEN Posted(word) ELSE block[x]
  BY <1>1, <1>2 DEF Block
<1>7. /\ block'.command = IF hostAt = 7 THEN <<hostCmd, posts>> ELSE block.command
      /\ hostAt = 5 => block'.status[1] = "zero"
      /\ block'.status = block.status \/ block'.status[1] = "zero"
  BY <1>2, <1>3, <1>5, <1>6
<1>8. <<hostCmd, posts>> # None
  BY DEF MailInv, HostOK, None, Command
<1>9. block.command = None \/ (block.command[1] = "HOLD" /\ MayBeHeld)
  BY <1>1, <1>2 DEF PostInv, PostingOK
<1>16. MayBeHeld' = MayBeHeld
  BY <1>1 DEF MayBeHeld
<1>10. TakenOK'
  <2> SUFFICES ASSUME pc \in {"fetch", "work"}
               PROVE  block'.command = run \/ (run[1] = "HOLD" /\ MayBeHeld /\ block'.command # None)
    BY <1>1, <1>16 DEF TakenOK
  <2>1. block.command = run \/ (run[1] = "HOLD" /\ MayBeHeld /\ block.command # None)
    BY <1>2 DEF PostInv, TakenOK
  <2>2. run # None
    BY DEF MailInv, DeviceOK
  <2> QED
    BY <1>7, <1>8, <1>9, <2>1, <2>2
<1>17. Valid'
  BY HostWordKeeps, <1>2, <1>3, <1>6, Zenon DEF Valid, Posted
<1>11. (feeding \/ Clearing) /\ (pc = "put" => then.feed)
  <2>1. ~Dying
    BY <1>9 DEF Dying, None
  <2> QED
    BY <2>1 DEF PostInv, FeedOK
<1>12. FeedOK'
  BY <1>1, <1>11, <1>17 DEF FeedOK, Clearing
<1>18. HeldNow' => HeldNow
  <2>1. CASE block'.status[1] = "held" /\ (block'.command[1] = "HOLD" \/ hostAt' > 5)
    <3>1. block.status[1] = "held" /\ hostAt # 5
      BY <1>7, <2>1
    <3>2. block.command[1] = "HOLD" \/ hostAt > 5
      BY <1>2, <1>4, <1>7, <2>1, <3>1
    <3> QED
      BY <3>1, <3>2 DEF HeldNow
  <2>2. CASE hostAt' # 0 /\ block'.command[1] = "HOLD"
    BY <1>1, <1>2, <1>4, <1>7, <2>2 DEF HeldNow
  <2> QED
    BY <2>1, <2>2 DEF HeldNow
<1>19. BootOK'
  BY <1>1, <1>2, <1>18 DEF PostInv, BootOK
<1>20. OrderOK'
  BY <1>1, <1>2, <1>4, <1>7 DEF PostInv, OrderOK, GoesOn
<1>13. PostingOK'
  <2>1. hostAt' # 0 => block'.command = None \/ (block'.command[1] = "HOLD" /\ MayBeHeld)
    BY <1>2, <1>4, <1>7, <1>9
  <2>2. block'.status[1] = "held" /\ (block'.command[1] = "HOLD" \/ hostAt' > 5) => MayBeHeld
    <3> SUFFICES ASSUME block'.status[1] = "held", block'.command[1] = "HOLD" \/ hostAt' > 5
                 PROVE  MayBeHeld
      OBVIOUS
    <3>1. block.status[1] = "held" /\ hostAt # 5
      BY <1>7
    <3>2. block.command[1] = "HOLD" \/ hostAt > 5
      BY <1>2, <1>4, <1>7, <3>1
    <3> QED
      BY <1>2, <3>1, <3>2 DEF PostInv, PostingOK
  <2>3. hostAt' = 0 /\ block'.command # None => block'.command[2] = posts
    BY <1>2, <1>4, <1>7
  <2> QED
    BY <1>1, <1>16, <2>1, <2>2, <2>3 DEF PostingOK
<1>14. QuietMeansAnswered'
  BY <1>2, <1>4, <1>7, <1>8 DEF QuietMeansAnswered
<1>15. TodoOK'
  <2> SUFFICES ASSUME pc = "put" PROVE CommandPutOK' /\ ResetOK' /\ HeldPutOK' /\ ReportOK'
    BY <1>1 DEF TodoOK
  <2>1. CommandPutOK /\ ResetOK /\ HeldPutOK
    BY <1>2 DEF PostInv, TodoOK
  <2>2. ASSUME NEW i \in 1..Len(todo), todo[i].word = "command"
        PROVE  /\ run # None /\ run[1] = "HOLD" /\ todo[i].value = None
               /\ ClearsLast(i) \/ (pending = "NONE" /\ ClearsFirst(i) /\ resets > 0)
    <3>1. /\ run # None /\ block.command # None
          /\ block.command = run \/ run[1] = "HOLD"
          /\ run[1] = "HOLD" => ClearsLast(i) \/ (pending = "NONE" /\ ClearsFirst(i))
      BY <2>1, <2>2 DEF CommandPutOK
    <3>2. run[1] = "HOLD"
      BY <1>9, <3>1
    <3> QED
      BY <1>9, <3>1, <3>2 DEF MayBeHeld, ClearsFirst, ClearsLast
  <2>3. CommandPutOK' /\ HeldPutOK'
    <3>1. HeldPutOK'
      BY <1>1, <2>1 DEF HeldPutOK, NoneOf
    <3>2. block.command # None => block'.command # None
      BY <1>7, <1>8
    <3>3. \A i : (ClearsFirst(i)' <=> ClearsFirst(i)) /\ (ClearsLast(i)' <=> ClearsLast(i))
      BY <1>1 DEF ClearsFirst, ClearsLast
    <3>4. ASSUME NEW i \in 1..Len(todo), todo[i].word = "command"
          PROVE  /\ todo[i].value[1] # "HOLD" /\ block.command # None
                 /\ \A j \in 1..Len(todo) : todo[j].word = "command" => j = i
                 /\ todo[i].value = None \/ todo[i].value[2] = run[2]
                 /\ then.at = "boot" <=> todo[i].value # None
      BY <2>1, <2>2, <3>4 DEF CommandPutOK, None
    <3>5. CommandPutOK'
      BY <1>1, <2>2, <3>2, <3>3, <3>4 DEF CommandPutOK
    <3> QED
      BY <3>1, <3>5
  <2>4. ResetOK'
    BY <1>1, <2>1 DEF ResetOK
  <2>5. ReportOK'
    <3> SUFFICES ASSUME hostAt' = 0, NEW i \in 1..Len(todo), todo[i].word = "command"
                 PROVE  Loses'
      BY <1>1, <1>2, <1>4, <1>7, <1>8 DEF ReportOK
    <3>1. run # None /\ then.at # "boot"
      BY <1>1, <2>1, <2>2 DEF ResetOK
    <3>2. run[2] < posts
      BY <1>1, <1>2, <3>1 DEF PostInv, OrderOK, GoesOn
    <3>3. run[2] # posts
      BY <3>1, <3>2, PostFacts DEF MailInv, DeviceOK, HostOK
    <3>4. block'.command = <<hostCmd, posts>>
      BY <1>2, <1>4, <1>7
    <3>5. block'.command # run
      BY <3>3, <3>4
    <3> QED
      BY <1>1, <1>8, <3>4, <3>5 DEF Loses
  <2> QED
    BY <2>3, <2>4, <2>5
<1> QED
  BY <1>10, <1>12, <1>13, <1>14, <1>15, <1>19, <1>20 DEF PostInv

\* What the next word changes in a valid block.
LEMMA NextWord ==
  ASSUME MailInv, Valid, PutWord
  PROVE  /\ \A x \in {"status", "detail", "command"} :
              block'[x] = IF Head(todo).word = x THEN Head(todo).value ELSE block[x]
         /\ Valid' /\ todo[1] = Head(todo) /\ Len(todo) \in Nat /\ Len(todo) >= 1
         /\ Len(todo') = Len(todo) - 1 /\ \A i \in 1..Len(todo') : todo'[i] = todo[i + 1]
<1>1. /\ pc = "put" /\ todo # <<>> /\ todo' = Tail(todo)
      /\ block' = [block EXCEPT ![Head(todo).word] = Head(todo).value]
  BY DEF PutWord
<1>2. todo \in Seq(HandlerPut) /\ block \in Block
  BY <1>1 DEF MailInv, BlockOK
<1>3. /\ Head(todo) \in HandlerPut /\ Head(todo) = todo[1] /\ Len(todo) \in Nat /\ Len(todo) >= 1
      /\ Len(todo') = Len(todo) - 1 /\ \A i \in 1..Len(todo') : todo'[i] = todo[i + 1]
  BY <1>1, <1>2, HeadTailProperties
<1> DEFINE w == Head(todo)
<1> HIDE DEF w
<1>4. w.word \in {"status", "detail", "command"} /\ w \in HandlerPut /\ w = Head(todo)
  BY <1>3 DEF w, HandlerPut, SayPut
<1>5. \A x \in {"magic", "version", "status", "detail", "command"} :
        block'[x] = IF w.word = x THEN w.value ELSE block[x]
  BY <1>1, <1>2, <1>4 DEF Block
<1>6. Valid'
  BY <1>4, <1>5 DEF Valid
<1> QED
  BY <1>3, <1>4, <1>5, <1>6

\* What a word says in the end does not change as words are written.
LEMMA FinalKept ==
  ASSUME MailInv, Valid, PutWord, NEW word \in {"status", "detail"}, NEW v, Final(word, v)
  PROVE  Final(word, v)'
<1> DEFINE t == todo
           u == todo'
           L == Len(todo)
<1>1. /\ block'[word] = IF t[1].word = word THEN t[1].value ELSE block[word]
      /\ L \in Nat /\ L >= 1 /\ Len(u) = L - 1 /\ \A i \in 1..(L - 1) : u[i] = t[i + 1]
  BY NextWord
<1>2. CASE LastOf(t, word, v)
  <2>1. PICK i \in 1..L : /\ t[i] = [word |-> word, value |-> v]
                          /\ \A j \in 1..L : j > i => t[j].word # word
    BY <1>2 DEF LastOf
  <2>2. CASE i = 1
    <3>1. block'[word] = v
      BY <1>1, <2>1, <2>2
    <3>2. ASSUME NEW j \in 1..(L - 1) PROVE u[j].word # word
      <4>1. j + 1 \in 1..L /\ j + 1 > i
        BY <1>1, <2>2
      <4> QED
        BY <1>1, <2>1, <4>1
    <3> QED
      BY <1>1, <3>1, <3>2 DEF Final, NoneOf
  <2>3. CASE i # 1
    <3>1. i - 1 \in 1..(L - 1) /\ (i - 1) + 1 = i
      BY <1>1, <2>1, <2>3
    <3>2. u[i - 1] = [word |-> word, value |-> v]
      BY <1>1, <2>1, <3>1
    <3>3. ASSUME NEW j \in 1..(L - 1), j > i - 1 PROVE u[j].word # word
      <4>1. j + 1 \in 1..L /\ j + 1 > i
        BY <1>1, <3>3
      <4> QED
        BY <1>1, <2>1, <4>1
    <3>4. LastOf(u, word, v)
      BY <1>1, <3>1, <3>2, <3>3 DEF LastOf
    <3> QED
      BY <3>4 DEF Final
  <2> QED
    BY <2>2, <2>3
<1>3. CASE block[word] = v /\ NoneOf(t, word)
  <2>1. 1 \in 1..L /\ block'[word] = v
    BY <1>1, <1>3 DEF NoneOf
  <2>2. ASSUME NEW j \in 1..(L - 1) PROVE u[j].word # word
    <3>1. j + 1 \in 1..L
      BY <1>1
    <3> QED
      BY <1>1, <1>3, <3>1 DEF NoneOf
  <2> QED
    BY <1>1, <2>1, <2>2 DEF Final, NoneOf
<1> QED
  BY <1>2, <1>3 DEF Final

\* The next word of a handler or a boot, in a valid block.
LEMMA WordKeepsPosts ==
  ASSUME MailInv, PostInv, Valid, PutWord
  PROVE  /\ PostInv'
         /\ block'.command # block.command =>
              \/ block.command = run
              \/ run[1] = "HOLD" /\ (todo = ClearCommand \/ (pending = "NONE" /\ resets > 0))
<1> DEFINE t == todo
           u == todo'
           L == Len(todo)
           w == todo[1]
<1>1. /\ \A x \in {"status", "detail", "command"} :
           block'[x] = IF w.word = x THEN w.value ELSE block[x]
      /\ Valid' /\ L \in Nat /\ L >= 1 /\ 1 \in 1..L
      /\ Len(u) = L - 1 /\ \A i \in 1..(L - 1) : u[i] = t[i + 1]
  BY NextWord
<1>2. /\ pc = "put" /\ pc' = "put"
      /\ UNCHANGED <<run, then, feeding, pending, inA, hostAt, posts, resets>>
      /\ MayBeHeld' = MayBeHeld
      /\ lost' = IF w.word = "command" /\ block.command \notin {None, run}
                   THEN block.command[2] ELSE lost
  BY NextWord DEF PutWord, Valid, MayBeHeld, slots, host
<1>3. CommandPutOK /\ ResetOK /\ HeldPutOK /\ ReportOK /\ PostingOK /\ FeedOK /\ BootOK /\ OrderOK
  BY <1>2 DEF PostInv, TodoOK
<1>4. \A i \in 1..(L - 1) : i + 1 \in 1..L /\ i + 1 # 1
  BY <1>1
<1>5. /\ block'.status = IF w.word = "status" THEN w.value ELSE block.status
      /\ block'.command = IF w.word = "command" THEN w.value ELSE block.command
  BY <1>1
<1> HIDE DEF w
<1>6. ASSUME w.word = "command"
      PROVE  /\ run # None /\ block.command # None
             /\ run[1] = "HOLD" => w.value = None /\ (L = 1 \/ pending = "NONE")
             /\ block.command = run \/ (run[1] = "HOLD" /\ (L = 1 \/ resets > 0))
             /\ \A j \in 1..L : t[j].word = "command" => j = 1
             /\ w.value = None \/ w.value[2] = run[2]
             /\ w.value[1] = "HOLD" => block.status[1] # "held"
             /\ then.at = "boot" <=> w.value # None
  <2>1. ~ \E j \in 1..L : j < 1
    BY <1>1
  <2>2. ClearsFirst(1) \/ ClearsLast(1) => w.value = None
    BY DEF ClearsFirst, ClearsLast, w
  <2>3. ClearsLast(1) => L = 1
    BY DEF ClearsLast
  <2>4. /\ run # None /\ block.command # None
        /\ run[1] = "HOLD" => ClearsLast(1) \/ (pending = "NONE" /\ ClearsFirst(1))
        /\ block.command = run \/ (run[1] = "HOLD" /\ (ClearsLast(1) \/ resets > 0))
        /\ \A j \in 1..L : t[j].word = "command" => j = 1
        /\ w.value = None \/ w.value[2] = run[2]
        /\ w.value[1] = "HOLD" => block.status[1] # "held"
        /\ then.at = "boot" <=> w.value # None
    BY <1>1, <1>3, <1>6, <2>1 DEF CommandPutOK, w
  <2> QED
    BY <2>2, <2>3, <2>4
<1>7. w.word = "status" /\ w.value[1] = "held" =>
        run # None /\ pending # "NONE" /\ then.at # "boot" /\ NoneOf(t, "command")
  BY <1>1, <1>3 DEF HeldPutOK, w
<1>8. CommandPutOK'
  <2> SUFFICES ASSUME NEW i \in 1..(L - 1), u[i].word = "command"
               PROVE  /\ run # None /\ block'.command # None
                      /\ run[1] = "HOLD" => ClearsLast(i)'
                      /\ block'.command = run \/ (run[1] = "HOLD" /\ (ClearsLast(i)' \/ resets > 0))
                      /\ \A j \in 1..(L - 1) : u[j].word = "command" => j = i
                      /\ u[i].value = None \/ u[i].value[2] = run[2]
                      /\ u[i].value[1] = "HOLD" =>
                           \/ block'.status[1] # "held"
                           \/ \E j \in 1..(L - 1) : j < i /\ u[j].word = "status"
                      /\ then.at = "boot" <=> u[i].value # None
    BY <1>1, <1>2 DEF CommandPutOK
  <2>1. u[i] = t[i + 1] /\ i + 1 \in 1..L /\ i + 1 # 1
    BY <1>1, <1>4
  <2>9. ~ClearsFirst(i + 1)
    BY <2>1 DEF ClearsFirst
  <2>2. /\ run # None /\ block.command # None
        /\ run[1] = "HOLD" => ClearsLast(i + 1)
        /\ block.command = run \/ (run[1] = "HOLD" /\ (ClearsLast(i + 1) \/ resets > 0))
        /\ \A j \in 1..L : t[j].word = "command" => j = i + 1
        /\ u[i].value = None \/ u[i].value[2] = run[2]
        /\ u[i].value[1] = "HOLD" =>
             block.status[1] # "held" \/ \E j \in 1..L : j < i + 1 /\ t[j].word = "status"
        /\ then.at = "boot" <=> u[i].value # None
    BY <1>3, <2>1, <2>9 DEF CommandPutOK
  <2>10. ClearsLast(i + 1) => ClearsLast(i)'
    BY <1>1, <2>1 DEF ClearsLast
  <2>3. w.word # "command"
    BY <1>1, <2>1, <2>2 DEF w
  <2>4. block'.command = block.command
    BY <1>5, <2>3
  <2>5. ASSUME NEW j \in 1..(L - 1), u[j].word = "command" PROVE j = i
    <3>1. j + 1 = i + 1
      BY <1>1, <1>4, <2>2, <2>5
    <3> QED
      BY <3>1
  <2>6. w.word = "status" => w.value[1] # "held"
    BY <1>7, <2>1 DEF NoneOf
  <2>7. ASSUME NEW j \in 1..L, j < i + 1, t[j].word = "status", w.word # "status"
        PROVE  \E k \in 1..(L - 1) : k < i /\ u[k].word = "status"
    <3>1. j # 1
      BY <2>7 DEF w
    <3>2. j - 1 \in 1..(L - 1) /\ j - 1 < i /\ (j - 1) + 1 = j
      BY <1>1, <2>7, <3>1
    <3>3. u[j - 1].word = "status"
      BY <1>1, <2>7, <3>2
    <3> QED
      BY <3>2, <3>3
  <2>8. u[i].value[1] = "HOLD" =>
          \/ block'.status[1] # "held"
          \/ \E j \in 1..(L - 1) : j < i /\ u[j].word = "status"
    BY <1>5, <2>2, <2>6, <2>7
  <2> QED
    BY <2>2, <2>4, <2>5, <2>8, <2>10
<1>9. ResetOK'
  <2> SUFFICES ASSUME then.at = "boot"
               PROVE  /\ hostAt = 0 /\ block'.command # None
                      /\ block'.command[1] = "HOLD" => block'.status[1] # "held"
    BY <1>2 DEF ResetOK
  <2>1. hostAt = 0 /\ block.command # None /\ (block.command[1] = "HOLD" => block.status[1] # "held")
    BY <1>3 DEF ResetOK
  <2> QED
    BY <1>5, <1>6, <1>7, <2>1
<1>10. HeldPutOK'
  <2> SUFFICES ASSUME NEW i \in 1..(L - 1), u[i].word = "status", u[i].value[1] = "held"
               PROVE  /\ run # None /\ pending # "NONE" /\ then.at # "boot"
                      /\ \A j \in 1..(L - 1) : u[j].word # "command"
    BY <1>1, <1>2 DEF HeldPutOK, NoneOf
  <2>1. run # None /\ pending # "NONE" /\ then.at # "boot" /\ NoneOf(t, "command")
    BY <1>1, <1>3, <1>4 DEF HeldPutOK
  <2> QED
    BY <1>1, <1>4, <2>1 DEF NoneOf
<1>11. ReportOK'
  <2> SUFFICES ASSUME hostAt = 0,
                      \/ block'.command = None
                      \/ \E i \in 1..(L - 1) : u[i].word = "command" /\ u[i].value = None
               PROVE  Loses' \/ \E v \in Reports' : Final("status", v)' /\ Final("detail", v)'
    BY <1>1, <1>2 DEF ReportOK
  <2>1. \/ block.command = None
        \/ \E i \in 1..L : t[i].word = "command" /\ t[i].value = None
    <3>1. CASE block'.command = None
      BY <1>1, <1>5, <3>1 DEF w
    <3>2. CASE \E i \in 1..(L - 1) : u[i].word = "command" /\ u[i].value = None
      BY <1>1, <1>4, <3>2
    <3> QED
      BY <3>1, <3>2
  <2>2. Loses \/ \E v \in Reports : Final("status", v) /\ Final("detail", v)
    BY <1>3, <2>1 DEF ReportOK
  <2>3. CASE Loses
    <3>1. block.command # None => block.command[2] = posts
      BY <1>3 DEF PostingOK
    <3> QED
      BY <1>2, <1>5, <2>3, <3>1 DEF Loses
  <2>4. ASSUME NEW v \in Reports, Final("status", v), Final("detail", v)
        PROVE  v \in Reports' /\ Final("status", v)' /\ Final("detail", v)'
    <3>1. Final("status", v)' /\ Final("detail", v)'
      BY <2>4, FinalKept
    <3>2. Reports' = Reports
      BY <1>2 DEF Reports
    <3> QED
      BY <3>1, <3>2
  <2> QED
    BY <2>2, <2>3, <2>4
<1>12. PostingOK'
  <2>1. hostAt # 0 => block'.command = None \/ (block'.command[1] = "HOLD" /\ MayBeHeld)
    <3>1. hostAt # 0 => then.at # "boot"
      BY <1>3 DEF ResetOK
    <3> QED
      BY <1>3, <1>5, <1>6, <3>1 DEF PostingOK
  <2>2. block'.status[1] = "held" /\ (block'.command[1] = "HOLD" \/ hostAt > 5) => MayBeHeld
    BY <1>3, <1>5, <1>6, <1>7 DEF PostingOK, MayBeHeld, None
  <2>3. hostAt = 0 /\ block'.command # None => block'.command[2] = posts
    <3> SUFFICES ASSUME hostAt = 0, block'.command # None, w.word = "command"
                 PROVE  w.value[2] = posts
      BY <1>3, <1>5 DEF PostingOK
    <3>1. block.command = run /\ w.value[2] = run[2]
      BY <1>5, <1>6
    <3> QED
      BY <1>3, <1>6, <3>1 DEF PostingOK
  <2> QED
    BY <1>2, <2>1, <2>2, <2>3 DEF PostingOK
<1>13. FeedOK'
  <2>1. ~then.feed => Dying' /\ then.at = "poll" /\ NoneOf(u, "command")
    <3> SUFFICES ASSUME ~then.feed PROVE Dying' /\ then.at = "poll" /\ NoneOf(u, "command")
      OBVIOUS
    <3>1. Dying /\ then.at = "poll" /\ NoneOf(t, "command")
      BY <1>2, <1>3 DEF FeedOK
    <3>2. NoneOf(u, "command")
      BY <1>1, <1>4, <3>1 DEF NoneOf
    <3>3. w.word # "command"
      BY <1>1, <3>1 DEF NoneOf, w
    <3>4. Dying'
      BY <1>1, <1>2, <1>5, <3>1, <3>3 DEF Dying
    <3> QED
      BY <3>1, <3>2, <3>4
  <2>2. ~feeding => Clearing \/ ~then.feed
    BY <1>2, <1>3 DEF FeedOK
  <2>3. Clearing => Clearing'
    BY <1>1, <1>2 DEF Clearing
  <2> QED
    BY <1>2, <2>1, <2>2, <2>3 DEF FeedOK
<1>14. TakenOK' /\ QuietMeansAnswered' /\ TodoOK'
  BY <1>2, <1>8, <1>9, <1>10, <1>11 DEF TakenOK, QuietMeansAnswered, TodoOK, MayBeHeld
<1>16. BootOK'
  <2> SUFFICES ASSUME HeldNow', run = None PROVE resets > 0
    BY <1>2 DEF BootOK
  <2>1. block'.command = block.command /\ (block'.status[1] = "held" => block.status[1] = "held")
    BY <1>5, <1>6, <1>7
  <2>2. HeldNow
    BY <1>2, <2>1 DEF HeldNow
  <2> QED
    BY <1>2, <1>3, <2>2 DEF BootOK
<1>17. OrderOK'
  <2>1. w.word = "command" /\ w.value # None => then.at = "boot" /\ hostAt = 0
    BY <1>3, <1>6 DEF ResetOK
  <2>2. block'.command # None /\ (hostAt # 0 \/ then.at # "boot") => block'.command = block.command
    BY <1>5, <2>1
  <2> QED
    BY <1>2, <1>3, <2>2 DEF OrderOK, GoesOn
<1>15. block'.command # block.command =>
         \/ block.command = run
         \/ run[1] = "HOLD" /\ (todo = ClearCommand \/ (pending = "NONE" /\ resets > 0))
  <2> SUFFICES ASSUME w.word = "command", block.command # run, L = 1, w.value = None
               PROVE  todo = ClearCommand
    BY <1>5, <1>6
  <2>1. todo \in Seq(HandlerPut)
    BY <1>2 DEF MailInv, BlockOK
  <2>2. w \in HandlerPut
    BY <1>1, <2>1, ElementOfSeq DEF w
  <2>3. w = [word |-> "command", value |-> None]
    BY <2>2 DEF HandlerPut, SayPut
  <2>4. todo = <<w>>
    BY <2>1, <2>2 DEF w
  <2> QED
    BY <2>3, <2>4 DEF ClearCommand, Put
<1> QED
  BY <1>12, <1>13, <1>14, <1>15, <1>16, <1>17 DEF PostInv

\* The wipe that makes the block valid has only the reports of the boot left.
LEMMA WipeEnds ==
  ASSUME MailInv, ~Valid, PutWord, Valid'
  PROVE  Len(todo) = 5 /\ BootTodo(todo')
<1> DEFINE w == Head(todo)
           L == Len(todo)
<1>1. /\ pc = "put" /\ pc' = "put" /\ todo' = Tail(todo)
      /\ block' = [block EXCEPT ![w.word] = w.value]
      /\ UNCHANGED <<run, then, feeding, pending, inA, hostAt, posts>>
  BY DEF PutWord, slots, host
<1>2. /\ hostAt = 0 /\ InitTodo(todo) /\ then.at # "boot"
      /\ L < 12 => ~block.version
      /\ L < 7 => block.command = None
  BY <1>1 DEF MailInv, WipeOK
<1>3. WipeStep(todo, L, w, todo')
  BY <1>1, <1>2, WipeSteps
<1> HIDE DEF w, L
<1>4. /\ w \in Word /\ L \in 5..13
      /\ L > 7 => w \in WipePut
      /\ L = 5 => w.word = "version"
      /\ L > 5 => InitTodo(todo')
      /\ L = 5 => BootTodo(todo')
  BY <1>3 DEF WipeStep
<1>5. L = 5
  <2> SUFFICES ASSUME L > 5 PROVE FALSE
    BY <1>4
  <2>1. MailInv'
    BY PutKeeps
  <2>2. todo' \in Seq(HandlerPut)
    BY <1>1, <2>1 DEF MailInv, BlockOK
  <2> DEFINE u == todo'
             k == Len(u) - 4
  <2>3. k \in 1..Len(u) /\ u[k] = [word |-> "version", value |-> TRUE]
    <3>1. InitTodo(u)
      BY <1>4
    <3>2. Len(u) \in 5..13
      BY <3>1 DEF InitTodo
    <3>3. \A n \in 5..13 : n - 4 \in 1..n
      OBVIOUS
    <3>4. k \in 1..Len(u) /\ k = Len(u) - 4
      BY <3>2, <3>3, Zenon
    <3> HIDE DEF k, u
    <3> QED
      BY <3>1, <3>4 DEF InitTodo
  <2> HIDE DEF u, k
  <2>4. u[k] \in HandlerPut
    BY <2>2, <2>3, ElementOfSeq DEF u
  <2> QED
    BY <2>3, <2>4 DEF HandlerPut, SayPut
<1> QED
  BY <1>4, <1>5 DEF L

\* The next word of the wipe.
LEMMA WipeKeepsPosts ==
  ASSUME MailInv, PostInv, ~Valid, PutWord
  PROVE  PostInv' /\ (block'.command # block.command => ~block.version)
<1> DEFINE w == Head(todo)
           L == Len(todo)
<1>1. /\ pc = "put" /\ pc' = "put" /\ todo' = Tail(todo)
      /\ block' = [block EXCEPT ![w.word] = w.value]
      /\ UNCHANGED <<run, then, feeding, pending, inA, hostAt, posts, resets>>
  BY DEF PutWord, slots, host
<1>2. /\ hostAt = 0 /\ InitTodo(todo) /\ then.at # "boot" /\ run = None
      /\ L < 12 => ~block.version
      /\ L < 7 => block.command = None
  BY <1>1 DEF MailInv, WipeOK
<1>3. WipeStep(todo, L, w, todo')
  BY <1>1, <1>2, WipeSteps
<1> HIDE DEF w, L
<1>4. /\ w \in Word /\ L \in 5..13
      /\ L > 7 => w \in WipePut
      /\ L = 5 => w.word = "version"
      /\ L > 5 => InitTodo(todo')
      /\ L = 5 => BootTodo(todo')
  BY <1>3 DEF WipeStep
<1>5. w \notin CommandPut => block'.command = block.command
  BY <1>1, <1>4, WordPut DEF MailInv
<1>6. block'.command # block.command => ~block.version
  <2>1. L > 7 => w \notin CommandPut
    BY <1>4 DEF WipePut, CommandPut
  <2>2. L > 7 \/ L < 12
    BY <1>4
  <2> QED
    BY <1>2, <1>5, <2>1, <2>2
<1>7. Valid' => L = 5
  BY WipeEnds DEF L
<1>8. feeding /\ then.feed
  BY <1>1 DEF PostInv, FeedOK, Dying, Clearing
<1>9. FeedOK' /\ TakenOK' /\ QuietMeansAnswered'
  BY <1>1, <1>8 DEF FeedOK, TakenOK, QuietMeansAnswered
<1>10. CASE ~Valid'
  BY <1>1, <1>2, <1>6, <1>9, <1>10 DEF PostInv, PostingOK, BootOK, OrderOK, TodoOK
<1>11. CASE L = 5
  <2>1. block'.command = None
    BY <1>2, <1>4, <1>5, <1>11 DEF CommandPut
  <2>2. PostingOK' /\ BootOK' /\ OrderOK'
    BY <1>1, <1>2, <2>1 DEF PostingOK, BootOK, OrderOK, HeldNow, None
  <2>3. TodoOK'
    BY <1>1, <1>2, <1>4, <1>11, BootPosts DEF TodoOK
  <2> QED
    BY <1>6, <1>9, <2>2, <2>3 DEF PostInv
<1> QED
  BY <1>7, <1>10, <1>11

\* The handler runs.
LEMMA WorkKeepsPosts ==
  ASSUME MailInv, PostInv, Work
  PROVE  PostInv'
<1>1. /\ pc = "work" /\ pc' = "put"
      /\ UNCHANGED <<block, run, feeding, inA, hostAt, posts, lost, resets>>
  BY DEF Work, host, history
<1>2. Valid /\ run \in Command \X Post /\ run # None /\ feeding \in BOOLEAN
  BY <1>1 DEF MailInv, WipeOK, DeviceOK
<1>3. PICK end \in Handler :
        todo' = end.writes /\ then' = [at |-> end.at, feed |-> end.feed] /\ Marks(end)
  BY DEF Work
<1>4. Says(end) \/ HoldsSlot(end) \/ Clears(end) \/ LeavesCommand(end)
  BY <1>2, HandlerKinds
<1> DEFINE t == end.writes
<1>5. todo' = t /\ then'.at = end.at /\ then'.feed = end.feed
  BY <1>3
<1> HIDE DEF t
<1>4a. \/ pending' = pending
       \/ pending' = "OTHER" /\ run[1] \notin {"HOLD", "FAIL"}
       \/ pending' = "NONE" /\ run[1] = "CONFIRM"
  <2>1. end.at = "boot" => run[1] \notin {"HOLD", "FAIL"}
    BY <1>4 DEF Says, HoldsSlot, Clears, LeavesCommand
  <2> QED
    BY <1>3, <2>1 DEF Marks
<1>6. \/ block.command = run
      \/ run[1] = "HOLD" /\ MayBeHeld /\ block.command # None /\ pending' = pending
  BY <1>1, <1>2, <1>4a DEF PostInv, TakenOK
<1>7. block.command # None
  BY <1>2, <1>6
<1>8. PostingOK'
  <2>1. CASE pending' = pending \/ pending' = "OTHER"
    BY <1>1, <1>2, <2>1 DEF PostInv, PostingOK, Valid, MayBeHeld
  <2>2. CASE run[1] = "CONFIRM"
    <3>1. block.command[1] = "CONFIRM"
      BY <1>6, <2>2
    <3>2. hostAt = 0
      BY <1>2, <1>7, <3>1 DEF PostInv, PostingOK, MayBeHeld
    <3> QED
      BY <1>1, <3>1, <3>2 DEF PostInv, PostingOK, Valid, MayBeHeld
  <2> QED
    BY <1>4a, <2>1, <2>2
<1>9. run[1] = "FAIL" => block.command = run /\ pending' = pending
  BY <1>6, <1>4a
<1>10. ~feeding => run[1] = "FAIL"
  BY <1>1 DEF PostInv, FeedOK, Clearing
<1>11. FeedOK'
  <2>1. CASE Says(end)
    <3>1. /\ \A i \in 1..Len(t) : t[i].word # "command"
          /\ IF run[1] = "FAIL" THEN ~end.feed /\ end.at = "poll" ELSE end.feed = feeding
      BY <2>1 DEF Says, t
    <3>2. run[1] = "FAIL" => Dying'
      BY <1>1, <1>2, <1>9 DEF Dying, Valid
    <3> QED
      BY <1>1, <1>5, <1>10, <3>1, <3>2 DEF FeedOK, NoneOf
  <2>2. CASE HoldsSlot(end) \/ LeavesCommand(end)
    <3>1. run[1] # "FAIL" /\ end.feed = feeding
      BY <2>2 DEF HoldsSlot, LeavesCommand
    <3> QED
      BY <1>1, <1>5, <1>10, <3>1 DEF FeedOK
  <2>3. CASE Clears(end)
    <3>1. IF run[1] = "FAIL" THEN end.feed /\ pending = "NONE" ELSE end.feed = feeding
      BY <2>3 DEF Clears
    <3>2. run[1] = "FAIL" => Clearing'
      BY <1>1, <1>2, <1>5, <1>9, <3>1 DEF Clearing, Valid
    <3> QED
      BY <1>1, <1>5, <1>10, <3>1, <3>2 DEF FeedOK
  <2> QED
    BY <1>4, <2>1, <2>2, <2>3
<1>12. TakenOK' /\ QuietMeansAnswered' /\ BootOK'
  BY <1>1, <1>2 DEF TakenOK, QuietMeansAnswered, BootOK
<1>14. OrderOK'
  BY <1>1, <1>2 DEF PostInv, OrderOK, Valid
<1>13. TodoOK'
  <2> SUFFICES CommandPutOK' /\ ResetOK' /\ HeldPutOK' /\ ReportOK'
    BY DEF TodoOK
  <2>1. CASE Says(end)
    <3>1. /\ \A i \in 1..Len(t) : /\ t[i].word # "command"
                                  /\ t[i].word = "status" => t[i].value[1] # "held"
          /\ end.at # "boot"
      BY <2>1 DEF Says, t
    <3> QED
      BY <1>1, <1>5, <1>7, <3>1 DEF CommandPutOK, ResetOK, HeldPutOK, ReportOK
  <2>2. CASE HoldsSlot(end)
    <3>1. (\A i \in 1..Len(t) : t[i].word # "command") /\ end.at = "poll" /\ pending # "NONE" /\ pending' # "NONE"
      BY <1>4a, <2>2 DEF HoldsSlot, NoneOf, t
    <3> QED
      BY <1>1, <1>2, <1>5, <1>7, <3>1 DEF CommandPutOK, ResetOK, HeldPutOK, ReportOK, NoneOf
  <2>3. ASSUME NEW k \in 1..Len(t), NEW v, CommandAt(t, k, v), v = None \/ v[2] = run[2],
               block.command = run \/ (run[1] = "HOLD" /\ (ClearsLast(k)' \/ resets > 0)),
               v[1] = "HOLD" => \E j \in 1..Len(t) : j < k /\ t[j].word = "status",
               end.at = "boot" <=> v # None,
               run[1] = "HOLD" => ClearsLast(k)' \/ (pending = "NONE" /\ ClearsFirst(k)')
        PROVE  CommandPutOK' /\ HeldPutOK'
    <3>1. /\ t[k].value = v
          /\ \A j \in 1..Len(t) : t[j].word = "command" => j = k
          /\ \A j \in 1..Len(t) : t[j].word = "status" => t[j].value[1] # "held"
      BY <2>3 DEF CommandAt
    <3>2. run[1] = "HOLD" => ClearsLast(k)' \/ (pending' = "NONE" /\ ClearsFirst(k)')
      BY <1>4a, <2>3
    <3>3. HeldPutOK'
      BY <1>5, <3>1 DEF HeldPutOK
    <3>4. CommandPutOK'
      BY <1>1, <1>2, <1>5, <1>7, <2>3, <3>1, <3>2 DEF CommandPutOK
    <3> QED
      BY <3>3, <3>4
  <2>4. CASE Clears(end)
    <3>1. /\ end.at = "poll"
          /\ run[1] = "HOLD" => \/ CommandAt(t, Len(t), None)
                                \/ pending = "NONE" /\ CommandAt(t, 1, None)
          /\ \E k \in 1..Len(t) : CommandAt(t, k, None)
      BY <2>4 DEF Clears, t
    <3>5. PICK x \in Answer : LastOf(t, "status", <<x, run[2]>>) /\ LastOf(t, "detail", <<x, run[2]>>)
      BY <2>4 DEF Clears, t
    <3>2. CommandPutOK' /\ HeldPutOK'
      <4>1. \A k : CommandAt(t, k, None) => k \in 1..Len(t)
        BY DEF CommandAt
      <4>2. PICK k \in 1..Len(t) :
              /\ CommandAt(t, k, None)
              /\ run[1] = "HOLD" => k = Len(t) \/ (pending = "NONE" /\ k = 1)
        BY <3>1, <4>1
      <4>3. k = Len(t) => ClearsLast(k)'
        BY <1>5, <4>2 DEF ClearsLast, CommandAt
      <4>4. k = 1 => ClearsFirst(k)'
        BY <1>1, <1>5, <3>5, <4>2 DEF ClearsFirst, CommandAt
      <4>5. run[1] = "HOLD" => ClearsLast(k)' \/ (pending = "NONE" /\ ClearsFirst(k)')
        BY <4>2, <4>3, <4>4
      <4>6. block.command = run \/ (run[1] = "HOLD" /\ (ClearsLast(k)' \/ resets > 0))
        BY <1>6, <4>5 DEF MayBeHeld
      <4> QED
        BY <2>3, <3>1, <4>2, <4>5, <4>6 DEF None
    <3>3. ResetOK'
      BY <1>5, <3>1 DEF ResetOK
    <3>4. ReportOK'
      <4> SUFFICES ASSUME hostAt = 0, ~Loses'
                   PROVE  \E v \in Reports' : Final("status", v)' /\ Final("detail", v)'
        BY <1>1 DEF ReportOK
      <4>1. run[2] = posts
        BY <1>1, <1>2, <1>7 DEF PostInv, PostingOK, Loses
      <4>2. PICK v : v = <<x, run[2]>>
        OBVIOUS
      <4>3. v \in Reports'
        BY <1>1, <4>1, <4>2 DEF Reports
      <4>4. Final("status", v)' /\ Final("detail", v)'
        BY <1>5, <3>5, <4>2 DEF Final
      <4> QED
        BY <4>3, <4>4
    <3> QED
      BY <3>2, <3>3, <3>4
  <2>5. CASE LeavesCommand(end)
    <3>1. end.at = "boot" /\ run[1] \in {"INSTALL", "POWER_INSTALL", "ACTIVATE"} /\ block.command = run
      BY <1>6, <2>5 DEF LeavesCommand
    <3>2. PICK c \in {"HOLD", "CONFIRM", "POWER_PAUSE"} : Leaves(t, c)
      BY <2>5 DEF LeavesCommand, t
    <3>9. PICK k \in 1..Len(t) :
            /\ CommandAt(t, k, <<c, run[2]>>)
            /\ c = "HOLD" => \E j \in 1..Len(t) : j < k /\ t[j].word = "status"
      BY <3>2 DEF Leaves
    <3> DEFINE v == <<c, run[2]>>
    <3>3. v # None /\ v[1] = c /\ v[2] = run[2]
      BY DEF None
    <3> HIDE DEF v
    <3>4. CommandAt(t, k, v)
      BY <3>9 DEF v
    <3>5. CommandPutOK' /\ HeldPutOK'
      BY <2>3, <3>1, <3>3, <3>4, <3>9
    <3>6. hostAt = 0
      BY <1>2, <1>7, <3>1 DEF PostInv, PostingOK
    <3>7. ResetOK'
      BY <1>1, <1>7, <3>1, <3>6 DEF ResetOK
    <3>8. ReportOK'
      <4>1. \A i \in 1..Len(t) : t[i].word = "command" => t[i].value # None
        BY <3>3, <3>4 DEF CommandAt
      <4> QED
        BY <1>1, <1>5, <1>7, <4>1 DEF ReportOK
    <3> QED
      BY <3>5, <3>7, <3>8
  <2> QED
    BY <1>4, <2>1, <2>2, <2>4, <2>5
<1> QED
  BY <1>8, <1>11, <1>12, <1>13, <1>14 DEF PostInv

\* After power-on the block is not valid.
LEMMA PostInit ==
  ASSUME Init
  PROVE  PostInv
<1>1. ~Valid /\ pc = "boot" /\ feeding /\ run = None
  BY DEF Init, Valid
<1> QED
  BY <1>1
  DEF PostInv, TakenOK, FeedOK, PostingOK, BootOK, OrderOK, TodoOK, QuietMeansAnswered

-----------------------------------------------------------------------------
(***************************************************************************)
(* What follows from it.                                                   *)
(***************************************************************************)

\* The invariant of posts and answers holds always (main's command loop and its
\* handlers, the order in which they report and write the command word).
THEOREM PostInvariance == Spec => []PostInv
<1>1. Init => PostInv
  BY PostInit
<1>2. MailInv /\ PostInv /\ [Next]_vars => PostInv'
  <2> SUFFICES ASSUME MailInv, PostInv, [Next]_vars PROVE PostInv'
    OBVIOUS
  <2>1. CASE Boot
    BY <2>1, BootKeepsPosts
  <2>2. CASE Poll
    BY <2>2, PollKeepsPosts
  <2>3. CASE FetchArgument \/ Fetched
    BY <2>3, FetchKeepsPosts
  <2>4. CASE Work
    BY <2>4, WorkKeepsPosts
  <2>5. CASE PutWord
    BY <2>5, WordKeepsPosts, WipeKeepsPosts
  <2>6. CASE HandlerReturns
    BY <2>6, ReturnKeepsPosts
  <2>7. CASE HandlerResets \/ Watchdog \/ ResetButton
    BY <2>7, RestartsPost
  <2>8. CASE PowerCut
    BY <2>8, CutKeepsPosts
  <2>9. CASE BeginPost
    BY <2>9, BeginPostKeepsPosts
  <2>10. CASE HostWord
    BY <2>10, HostWordKeepsPosts
  <2>11. CASE UNCHANGED vars
    <3>1. /\ UNCHANGED <<block, pc, run, todo, then, feeding, pending, inA, hostAt, posts, lost, resets>>
          /\ Valid' = Valid
      BY <2>11 DEF vars, device, slots, host, history, Valid
    <3>2. TakenOK' /\ FeedOK' /\ PostingOK' /\ QuietMeansAnswered'
      BY <3>1
      DEF PostInv, TakenOK, FeedOK, PostingOK, QuietMeansAnswered, Dying, Clearing, NoneOf, MayBeHeld
    <3>7. BootOK' /\ OrderOK'
      BY <3>1 DEF PostInv, BootOK, HeldNow, OrderOK, GoesOn
    <3>3. (CommandPutOK /\ ResetOK /\ HeldPutOK) => (CommandPutOK /\ ResetOK /\ HeldPutOK)'
      BY <3>1 DEF CommandPutOK, ClearsFirst, ClearsLast, ResetOK, HeldPutOK, NoneOf
    <3>4. \A word, v : Final(word, v)' <=> Final(word, v)
      BY <3>1 DEF Final
    <3>5. ReportOK => ReportOK'
      BY <3>1, <3>4 DEF ReportOK, Reports, Loses
    <3>6. TodoOK'
      BY <3>1, <3>3, <3>5 DEF PostInv, TodoOK
    <3> QED
      BY <3>2, <3>6, <3>7 DEF PostInv
  <2> QED
    BY <2>1, <2>2, <2>3, <2>4, <2>5, <2>6, <2>7, <2>8, <2>9, <2>10, <2>11 DEF Next, DeviceStep
<1> QED
  BY <1>1, <1>2, MailInvariance, PTL DEF Spec

\* A quiet block says what became of the last post, unless that is one of those
\* which NoPostOverwritten admits to be lost: status and detail belong together
\* and to it, or to the boot since (test_app_main.c:19-23, 89-90, 118-128).
THEOREM QuietAlwaysAnswered == Spec => []QuietMeansAnswered
<1>1. PostInv => QuietMeansAnswered
  BY DEF PostInv
<1> QED
  BY <1>1, PostInvariance, PTL

\* A step of the device replaces only the command it is handling, but when it
\* handles HOLD_PENDING: a post that came over it is cleared after the report that
\* the load failed (test_app_main.c:118-121), or before the report that the trial
\* is over, and then the button was pressed (124-128).  The handlers write the
\* command word once.
THEOREM NoPostOverwritten == Spec => PostNeverOverwritten
<1>1. MailInv /\ PostInv /\ [Next]_vars
        => [PutWord /\ block'.command # block.command
              => \/ block.command = run \/ ~block.version
                 \/ run[1] = "HOLD" /\ (todo = ClearCommand \/ (pending = "NONE" /\ resets > 0))]_vars
  <2> SUFFICES ASSUME MailInv, PostInv, PutWord, block'.command # block.command
               PROVE  \/ block.command = run \/ ~block.version
                      \/ run[1] = "HOLD" /\ (todo = ClearCommand \/ (pending = "NONE" /\ resets > 0))
    OBVIOUS
  <2> QED
    BY WordKeepsPosts, WipeKeepsPosts
<1> QED
  BY <1>1, MailInvariance, PostInvariance, PTL DEF Spec, PostNeverOverwritten

-----------------------------------------------------------------------------
(***************************************************************************)
(* The invariant of answers given once is inductive beside the other two.  *)
(***************************************************************************)

\* Posts are numbers.
LEMMA PostNumbers ==
  ASSUME MailInv
  PROVE  posts \in Nat /\ answered \in Nat /\ (run # None => run[2] \in Nat)
<1>1. posts \in Nat /\ answered \in Nat
  BY DEF MailInv, HostOK
<1>2. run # None => run[2] \in Post
  BY DEF MailInv, DeviceOK
<1> QED
  BY <1>1, <1>2, PostFacts

\* A watchdog that fires finds a command that waits for a restart, or a block
\* whose command no handler has answered.
LEMMA DogAnswers ==
  ASSUME MailInv, PostInv, OnceInv, Valid, ~feeding \/ pc = "hung"
  PROVE  Unanswered
<1>1. CASE Dying
  BY <1>1 DEF Dying, Unanswered, Fresh
<1>2. CASE Clearing
  <2>1. block.command = run => Unanswered
    BY <1>2 DEF Clearing, Unanswered, Fresh
  <2> QED
    BY <2>1 DEF OnceInv
<1>3. CASE pc = "hung"
  <2>1. block.command = None => Unanswered
    BY DEF None, Unanswered, Fresh
  <2> QED
    BY <1>3, <2>1 DEF OnceInv, MailInv, DeviceOK
<1> QED
  BY <1>1, <1>2, <1>3 DEF PostInv, FeedOK

\* A handler that resets has nothing left to write, its hold included.
LEMMA ResetAnswers ==
  ASSUME OnceInv, Valid, HandlerResets
  PROVE  Unanswered
<1>1. Len(todo) = 0 /\ BootAnswerOK
  BY DEF HandlerResets, OnceInv
<1>2. ~HoldsAfter(0)
  BY <1>1 DEF HoldsAfter
<1> QED
  BY <1>1, <1>2 DEF BootAnswerOK

\* A restarted device has no command in hand, and notes an answered one whose
\* handler the button ended.
LEMMA RestartAnswers ==
  ASSUME MailInv, PostInv, OnceInv, HandlerResets \/ Watchdog \/ ResetButton \/ PowerCut
  PROVE  OnceInv'
<1>1. Restart /\ posts' = posts /\ answered' = answered
  BY DEF HandlerResets, Watchdog, ResetButton, PowerCut, Restart, host
<1>2. CASE PowerCut
  <2>1. ~Valid'
    BY <1>2 DEF PowerCut, Valid
  <2> QED
    BY <1>1, <2>1 DEF OnceInv
<1>3. CASE HandlerResets \/ Watchdog \/ ResetButton
  <2>1. block' = block /\ hostAt' = hostAt /\ Valid' = Valid
    BY <1>3 DEF HandlerResets, Watchdog, ResetButton, host, Valid
  <2>2. Fresh' = Fresh
    BY <1>1, <2>1 DEF Fresh
  <2>3. ASSUME Valid PROVE Unanswered'
    <3>1. CASE ResetButton
      <4>1. again' = IF run # None /\ answered = run[2] THEN run[2] ELSE again
        BY <3>1 DEF ResetButton
      <4>2. CASE block.command = run
        BY <1>1, <2>1, <4>1, <4>2 DEF Unanswered, Fresh, None
      <4>3. CASE Unanswered
        BY <1>1, <2>1, <4>1, <4>3 DEF Unanswered, Fresh
      <4> QED
        BY <2>3, <4>2, <4>3 DEF OnceInv
    <3>2. CASE HandlerResets \/ Watchdog
      <4>1. again' = again
        BY <3>2 DEF HandlerResets, Watchdog
      <4>2. Unanswered
        BY <2>3, <3>2, DogAnswers, ResetAnswers DEF Watchdog
      <4> QED
        BY <2>1, <2>2, <4>1, <4>2 DEF Unanswered
    <3> QED
      BY <1>3, <3>1, <3>2
  <2> QED
    BY <1>1, <2>1, <2>3 DEF OnceInv, Restart, GoesOn
<1> QED
  BY <1>2, <1>3

\* A boot answers nothing.
LEMMA BootAnswers ==
  ASSUME BootTodo(todo'), run' = None
  PROVE  AnswerPutOK'
<1> DEFINE t == todo'
<1>1. /\ Len(t) = 4
      /\ t[1] = BootPut("status") /\ t[2] = BootPut("detail")
      /\ t[3] = BootPut("status") /\ t[4] = BootPut("detail")
      /\ \A i \in 1..4 : i = 1 \/ i = 2 \/ i = 3 \/ i = 4
  BY DEF BootTodo
<1> HIDE DEF t
<1>2. \A i \in 1..Len(t) : t[i].value[1] \notin Answer
  BY <1>1 DEF BootPut, Answer
<1> QED
  BY <1>2 DEF AnswerPutOK, Answers, t

\* Boot loader and application report.
LEMMA BootKeepsAnswers ==
  ASSUME MailInv, OnceInv, Boot
  PROVE  OnceInv'
<1>1. /\ pc = "boot" /\ pc' = "put" /\ todo' = ControlInit(block) \o SayBoot \o SayBoot
      /\ then'.at # "boot" /\ run = None
      /\ UNCHANGED <<block, run, hostAt, posts, answered, again>>
  BY DEF Boot, host, history, MailInv, DeviceOK
<1>2. ASSUME Valid PROVE BootTodo(todo')
  <2>1. ControlInit(block) = <<>>
    BY <1>2 DEF ControlInit, Valid
  <2>2. BootPut("status") \in SayPut /\ BootPut("detail") \in SayPut
    BY BootTyped
  <2>3. SayBoot = <<BootPut("status"), BootPut("detail")>>
    BY <2>2, OneOne DEF SayBoot, Put, BootPut
  <2>4. <<>> \o SayBoot = SayBoot
    BY <2>2, <2>3, ConcatEmptySeq
  <2>5. todo' = <<BootPut("status"), BootPut("detail"), BootPut("status"), BootPut("detail")>>
    BY <1>1, <2>1, <2>2, <2>3, <2>4, TwoTwo
  <2> QED
    BY <2>5 DEF BootTodo
<1>3. Valid => AnswerPutOK'
  BY <1>1, <1>2, BootAnswers
<1>4. Unanswered' = Unanswered /\ Valid' = Valid
  BY <1>1 DEF Unanswered, Fresh, Valid
<1> QED
  BY <1>1, <1>3, <1>4 DEF OnceInv

\* The main loop takes a command and reads its arguments.
LEMMA PollKeepsAnswers ==
  ASSUME MailInv, OnceInv, Poll \/ FetchArgument \/ Fetched
  PROVE  OnceInv'
<1>1. /\ UNCHANGED <<block, hostAt, posts, answered, again>>
      /\ pc' \in {"fetch", "work"}
  BY DEF Poll, FetchArgument, Fetched, host, history
<1>2. Unanswered' = Unanswered /\ Fresh' = Fresh /\ Valid' = Valid
  BY <1>1 DEF Unanswered, Fresh, Valid
<1>3. CASE Poll
  <2>1. run = None /\ block.command # None /\ run' = block.command
    BY <1>3 DEF Poll, MailInv, DeviceOK
  <2>2. Valid => Unanswered
    BY <2>1 DEF OnceInv
  <2> QED
    BY <1>1, <1>2, <2>1, <2>2 DEF OnceInv, GoesOn
<1>4. CASE FetchArgument \/ Fetched
  <2>1. pc = "fetch" /\ run' = run
    BY <1>4 DEF FetchArgument, Fetched
  <2> QED
    BY <1>1, <1>2, <2>1 DEF OnceInv, GoesOn
<1> QED
  BY <1>3, <1>4

\* The handler runs.
LEMMA WorkKeepsAnswers ==
  ASSUME MailInv, OnceInv, Work
  PROVE  OnceInv'
<1>1. pc = "work" /\ pc' = "put" /\ UNCHANGED <<block, run, hostAt, posts, answered, again>>
  BY DEF Work, host, history
<1>2. Valid /\ run \in Command \X Post /\ run # None /\ feeding \in BOOLEAN
  BY <1>1 DEF MailInv, WipeOK, DeviceOK
<1>3. PICK end \in Handler : todo' = end.writes /\ then' = [at |-> end.at, feed |-> end.feed]
  BY DEF Work
<1>4. Says(end) \/ HoldsSlot(end) \/ Clears(end) \/ LeavesCommand(end)
  BY <1>2, HandlerKinds
<1> DEFINE t == end.writes
<1>5. t \in Seq(OwnPut)
  BY <1>2, HandlerWrites
<1>9. todo' = t /\ then'.at = end.at
  BY <1>3
<1> HIDE DEF t
<1>6. \A i \in 1..Len(t) : t[i].word = "status" => t[i].value[2] = run[2]
  BY <1>5, ElementOfSeq DEF OwnPut
<1>7. /\ Unanswered' = Unanswered /\ Fresh' = Fresh /\ Valid' = Valid
      /\ Unanswered /\ (block.command # run => Fresh)
  BY <1>1, <1>2 DEF OnceInv, Unanswered, Fresh, Valid
<1>8. ASSUME end.at = "poll", run[1] \notin {"HOLD", "FAIL"}
      PROVE  \E i \in 1..Len(t) : t[i].word = "command" /\ t[i].value = None
  <2>1. Clears(end)
    BY <1>4, <1>8 DEF Says, HoldsSlot, LeavesCommand
  <2> QED
    BY <2>1 DEF Clears, CommandAt, t
<1>10. AnswerPutOK'
  BY <1>1, <1>2, <1>6, <1>7, <1>8, <1>9 DEF AnswerPutOK, Answers
<1>11. ASSUME end.at = "boot" PROVE BootAnswerOK'
  <2>1. LeavesCommand(end)
    BY <1>4, <1>11 DEF Says, HoldsSlot, Clears
  <2>2. PICK c \in {"HOLD", "CONFIRM", "POWER_PAUSE"} : Leaves(t, c)
    BY <2>1 DEF LeavesCommand, t
  <2>3. PICK k \in 1..Len(t) :
          /\ t[k] = [word |-> "command", value |-> <<c, run[2]>>]
          /\ \A j \in 1..Len(t) : t[j].word = "status" /\ t[j].value[1] \in Answer => c = "HOLD" /\ j < k
    BY <2>2 DEF Leaves, CommandAt
  <2>4. ASSUME NEW j \in 1..Len(t), t[j].word = "status", t[j].value[1] \in Answer
        PROVE  HoldsAfter(j)'
    BY <1>9, <2>3, <2>4 DEF HoldsAfter
  <2>5. run[1] \notin {"HOLD", "FAIL"}
    BY <2>1 DEF LeavesCommand
  <2> QED
    BY <1>1, <1>6, <1>7, <1>9, <2>4, <2>5 DEF BootAnswerOK, Answers
<1> QED
  BY <1>1, <1>2, <1>7, <1>9, <1>10, <1>11 DEF OnceInv

\* The command word that comes next clears the command, or is left by a handler
\* that resets, over its own command.
LEMMA CommandWordNext ==
  ASSUME PostInv, Valid, PutWord, todo[1].word = "command", Len(todo) \in Nat, Len(todo) >= 1
  PROVE  /\ run # None /\ block.command # None
         /\ \/ todo[1].value = None /\ then.at # "boot"
            \/ /\ then.at = "boot" /\ todo[1].value[2] = run[2] /\ todo[1].value # None
               /\ run[1] # "HOLD" => block.command = run
         /\ \A j \in 1..Len(todo) : todo[j].word = "command" => j = 1
<1>1. CommandPutOK
  BY DEF PostInv, TodoOK, PutWord
<1> QED
  BY <1>1 DEF CommandPutOK

\* A handler that resets answers before it holds the slot: its own command is
\* still in its word.
LEMMA HoldsOwn ==
  ASSUME PostInv, Valid, pc = "put", NEW n, HoldsAfter(n), run[1] # "HOLD"
  PROVE  run # None /\ block.command = run
BY DEF PostInv, TodoOK, CommandPutOK, HoldsAfter

\* The next word of a handler or a boot, in a valid block.
LEMMA WordKeepsAnswers ==
  ASSUME MailInv, PostInv, OnceInv, Valid, PutWord
  PROVE  OnceInv'
<1> DEFINE t == todo
           u == todo'
           L == Len(todo)
           w == todo[1]
<1>1. /\ \A x \in {"status", "detail", "command"} :
           block'[x] = IF w.word = x THEN w.value ELSE block[x]
      /\ Valid' /\ L \in Nat /\ L >= 1 /\ 1 \in 1..L
      /\ Len(u) = L - 1 /\ \A i \in 1..(L - 1) : u[i] = t[i + 1]
  BY NextWord
<1>2. /\ pc = "put" /\ pc' = "put" /\ UNCHANGED <<run, then, hostAt, posts, again>>
      /\ answered' = IF Answers(1) THEN w.value[2] ELSE answered
  BY NextWord DEF PutWord, host, Answers
<1>3. ResetOK /\ PostingOK /\ OrderOK
  BY <1>2 DEF PostInv, TodoOK
<1>4. block'.command = IF w.word = "command" THEN w.value ELSE block.command
  BY <1>1
<1>5. \A i \in 1..(L - 1) : i + 1 \in 1..L
  BY <1>1
<1>6. posts \in Nat /\ answered \in Nat /\ (run # None => run[2] \in Nat)
  BY PostNumbers
<1>7. \A i \in 1..(L - 1) : Answers(i)' => Answers(i + 1) /\ i + 1 \in 1..L
  BY <1>1, <1>5 DEF Answers
<1>8. ASSUME NEW n \in Nat, HoldsAfter(n + 1) PROVE HoldsAfter(n)'
  <2>1. PICK k \in 1..L : k > n + 1 /\ t[k].word = "command" /\ t[k].value[1] = "HOLD"
    BY <1>8 DEF HoldsAfter
  <2>2. k - 1 \in 1..(L - 1) /\ (k - 1) + 1 = k /\ k - 1 > n
    BY <1>1, <2>1
  <2>3. u[k - 1] = t[k]
    BY <1>1, <2>2
  <2> QED
    BY <1>1, <2>1, <2>2, <2>3 DEF HoldsAfter
<1>9. HoldsAfter(0) /\ w.word # "command" => HoldsAfter(0 + 1)
  <2> SUFFICES ASSUME HoldsAfter(0), w.word # "command" PROVE HoldsAfter(0 + 1)
    OBVIOUS
  <2>1. PICK k \in 1..L : t[k].word = "command" /\ t[k].value[1] = "HOLD"
    BY DEF HoldsAfter
  <2>2. k > 0 + 1
    BY <1>1, <2>1
  <2> QED
    BY <2>1, <2>2 DEF HoldsAfter
<1> HIDE DEF w
<1>10. w.word = "command" =>
         /\ run # None /\ block.command # None
         /\ \/ w.value = None /\ then.at # "boot"
            \/ /\ then.at = "boot" /\ w.value[2] = run[2] /\ w.value # None
               /\ run[1] # "HOLD" => block.command = run
         /\ \A j \in 1..L : t[j].word = "command" => j = 1
  BY <1>1, CommandWordNext DEF w
<1>11. CASE then.at = "boot"
  <2>1. hostAt = 0 /\ BootAnswerOK /\ run[1] \notin {"HOLD", "FAIL"}
    BY <1>2, <1>3, <1>11 DEF ResetOK, OnceInv, BootAnswerOK
  <2>2. \A i \in 1..(L - 1) : Answers(i)' => u[i].value[2] = run[2] /\ HoldsAfter(i)'
    BY <1>1, <1>7, <1>8, <2>1 DEF BootAnswerOK
  <2>3. CASE Answers(1)
    <3>1. w.value[2] = run[2] /\ HoldsAfter(1) /\ w.word = "status"
      BY <1>1, <2>1, <2>3 DEF BootAnswerOK, Answers, w
    <3>2. run # None /\ block.command = run
      BY <1>2, <2>1, <3>1, HoldsOwn
    <3>3. block'.command = run'
      BY <1>2, <1>4, <3>1, <3>2
    <3>4. HoldsAfter(0)'
      BY <1>8, <3>1
    <3>5. answered' <= posts'
      BY <1>2, <1>3, <2>3, <3>1, <3>2 DEF OrderOK
    <3> QED
      BY <1>1, <1>2, <1>11, <2>1, <2>2, <3>3, <3>4, <3>5 DEF OnceInv, GoesOn, BootAnswerOK
  <2>4. CASE ~Answers(1) /\ w.word = "command"
    <3>1. run # None /\ w.value[2] = run[2] /\ block.command = run /\ block'.command = w.value
      BY <1>4, <1>10, <1>11, <2>1, <2>4
    <3>2. HoldsAfter(0) => w.value[1] = "HOLD"
      BY <1>10, <2>4 DEF HoldsAfter, w
    <3>3. Unanswered => run[1] = "NONE" \/ run[2] # answered \/ run[2] = again
      BY <2>1, <3>1 DEF Unanswered, Fresh
    <3>4. run[1] # "NONE"
      BY <3>1 DEF MailInv, DeviceOK, Command
    <3>5. Unanswered'
      BY <1>2, <2>1, <2>4, <3>1, <3>2, <3>3, <3>4 DEF Unanswered, Fresh, BootAnswerOK
    <3> QED
      BY <1>1, <1>2, <1>11, <2>1, <2>2, <2>4, <3>5 DEF OnceInv, GoesOn, BootAnswerOK
  <2>5. CASE ~Answers(1) /\ w.word # "command"
    <3>1. Unanswered' = Unanswered /\ block'.command = block.command
      BY <1>2, <1>4, <2>5 DEF Unanswered, Fresh
    <3>2. Unanswered' \/ HoldsAfter(0)'
      BY <1>8, <1>9, <2>1, <2>5, <3>1 DEF BootAnswerOK
    <3> QED
      BY <1>1, <1>2, <1>11, <2>1, <2>2, <2>5, <3>1, <3>2 DEF OnceInv, GoesOn, BootAnswerOK
  <2> QED
    BY <2>3, <2>4, <2>5
<1>12. CASE then.at # "boot"
  <2>1. AnswerPutOK
    BY <1>2, <1>12 DEF OnceInv, GoesOn
  <2>2. w.word = "command" => block'.command = None /\ run # None
    BY <1>4, <1>10, <1>12
  <2>3. Answers(1) => run # None /\ w.value[2] = run[2] /\ w.word = "status"
    BY <1>1, <2>1 DEF AnswerPutOK, Answers, w
  <2>4. answered' <= posts /\ (hostAt # 0 => answered' < posts)
    BY <1>2, <1>3, <1>12, <2>3 DEF OnceInv, OrderOK, GoesOn
  <2>5. ASSUME ~Answers(1), w.word # "command" PROVE Unanswered' = Unanswered /\ Fresh' = Fresh
    BY <1>2, <1>4, <2>5 DEF Unanswered, Fresh
  <2>6. w.word = "command" => Fresh'
    BY <2>2 DEF Fresh, None
  <2>7. ASSUME Answers(1), block.command # run PROVE Fresh'
    <3>1. run # None /\ answered' = run[2] /\ block'.command = block.command
      BY <1>2, <1>4, <2>3, <2>7
    <3>2. CASE block.command = None \/ block.command[1] = "HOLD"
      BY <3>1, <3>2 DEF Fresh, None
    <3>3. CASE block.command # None /\ block.command[1] # "HOLD"
      <4>1. hostAt = 0 /\ block.command[2] = posts
        BY <1>3, <3>3 DEF PostingOK
      <4>2. run[2] < posts
        BY <1>2, <1>3, <1>12, <2>7, <3>1, <3>3 DEF OrderOK, GoesOn
      <4>3. run[2] # posts
        BY <1>6, <3>1, <4>2
      <4> QED
        BY <3>1, <4>1, <4>3 DEF Fresh
    <3> QED
      BY <3>2, <3>3
  <2>8. run # None /\ block'.command # run => Fresh'
    BY <1>4, <2>1, <2>3, <2>5, <2>6, <2>7 DEF AnswerPutOK
  <2>9. block'.command = run \/ Unanswered'
    <3>1. Fresh' => Unanswered'
      BY DEF Unanswered
    <3>2. run = None => ~Answers(1) /\ w.word # "command"
      BY <2>2, <2>3
    <3> QED
      BY <1>4, <2>5, <2>8, <3>1, <3>2 DEF OnceInv
  <2>10. ASSUME run # None, block'.command = run, run[1] \notin {"HOLD", "FAIL"}, then.at = "poll"
         PROVE  \E i \in 1..(L - 1) : u[i].word = "command" /\ u[i].value = None
    <3>1. w.word # "command"
      BY <2>2, <2>10
    <3>2. PICK i \in 1..L : t[i].word = "command" /\ t[i].value = None
      BY <1>4, <2>1, <2>10, <3>1 DEF AnswerPutOK
    <3>3. i - 1 \in 1..(L - 1) /\ (i - 1) + 1 = i
      BY <1>1, <3>1, <3>2 DEF w
    <3>4. u[i - 1] = t[i]
      BY <1>1, <3>3
    <3> QED
      BY <3>2, <3>3, <3>4
  <2>11. \A i \in 1..(L - 1) : Answers(i)' => run # None /\ u[i].value[2] = run[2]
    BY <1>1, <1>7, <2>1 DEF AnswerPutOK
  <2>12. AnswerPutOK'
    BY <1>1, <1>2, <2>8, <2>10, <2>11 DEF AnswerPutOK
  <2> QED
    BY <1>1, <1>2, <1>12, <2>4, <2>9, <2>12 DEF OnceInv, GoesOn
<1> QED
  BY <1>11, <1>12

\* The next word of the wipe.
LEMMA WipeKeepsAnswers ==
  ASSUME MailInv, PostInv, OnceInv, ~Valid, PutWord
  PROVE  OnceInv'
<1>1. /\ pc = "put" /\ pc' = "put" /\ todo' = Tail(todo)
      /\ UNCHANGED <<run, then, hostAt, posts>>
      /\ answered' = IF Head(todo).word = "status" /\ Head(todo).value[1] \in Answer
                       THEN Head(todo).value[2] ELSE answered
  BY DEF PutWord, host
<1>2. hostAt = 0 /\ run = None /\ InitTodo(todo) /\ then.at # "boot"
  BY <1>1 DEF MailInv, WipeOK
<1>3. answered' = answered
  <2> DEFINE w == Head(todo)
             L == Len(todo)
  <2>1. WipeStep(todo, L, w, todo')
    BY <1>1, <1>2, WipeSteps
  <2> HIDE DEF w, L
  <2>2. L > 7 \/ L = 7 \/ L = 6 \/ L = 5
    BY <2>1 DEF WipeStep
  <2>3. w.word = "status" => w \in WipePut
    BY <2>1, <2>2 DEF WipeStep
  <2>4. w.word = "status" => w.value = <<"zero", 0>>
    BY <2>3 DEF WipePut
  <2>5. "zero" \notin Answer
    BY DEF Answer
  <2> QED
    BY <1>1, <2>4, <2>5 DEF w
<1>4. CASE ~Valid'
  BY <1>1, <1>3, <1>4 DEF OnceInv
<1>5. CASE Valid'
  <2>1. BootTodo(todo') /\ Len(todo) = 5
    BY <1>5, WipeEnds
  <2>2. AnswerPutOK'
    BY <1>1, <1>2, <2>1, BootAnswers
  <2>3. block.command = None /\ block' = [block EXCEPT ![Head(todo).word] = Head(todo).value]
    BY <1>1, <2>1 DEF PutWord, MailInv, WipeOK
  <2>4. Head(todo).word = "version"
    BY <1>2, <2>1, WipeSteps DEF WipeStep
  <2>5. block'.command = None
    BY <2>3, <2>4 DEF MailInv, Block
  <2> QED
    BY <1>1, <1>2, <1>3, <2>2, <2>5 DEF OnceInv
<1> QED
  BY <1>4, <1>5

\* A handler that returns has written what it had to say.
LEMMA ReturnKeepsAnswers ==
  ASSUME MailInv, OnceInv, HandlerReturns
  PROVE  OnceInv'
<1>1. /\ pc = "put" /\ todo = <<>> /\ then.at # "boot" /\ pc' = then.at
      /\ UNCHANGED <<block, hostAt, posts, answered>>
      /\ run' = IF then.at = "stopped" THEN run ELSE None
      /\ again' = IF then.at = "poll" /\ run # None THEN 0 ELSE again
  BY DEF HandlerReturns, host
<1>2. Valid
  BY <1>1, EmptyIsValid
<1>3. AnswerPutOK /\ Len(todo) = 0
  BY <1>1, <1>2 DEF OnceInv, GoesOn
<1>4. pc' \in {"poll", "stopped", "hung", "recovery"} /\ (pc' \in {"hung", "recovery"} => run = None)
  BY <1>1 DEF MailInv, DeviceOK, Resting
<1>5. Fresh' = Fresh /\ Valid' = Valid
  BY <1>1 DEF Fresh, Valid
<1>6. block'.command = run' \/ Unanswered'
  <2>1. block.command = None => Fresh
    BY DEF Fresh, None
  <2>2. CASE then.at = "poll" /\ run # None
    <3>1. ~ \E i \in 1..Len(todo) : TRUE
      BY <1>3
    <3>2. block.command # run => Fresh
      BY <1>3, <2>2 DEF AnswerPutOK
    <3>3. block.command = run => run[1] \in {"HOLD", "FAIL"}
      BY <1>3, <2>2, <3>1 DEF AnswerPutOK
    <3>4. Fresh
      BY <3>2, <3>3 DEF Fresh
    <3> QED
      BY <1>5, <3>4 DEF Unanswered
  <2>3. CASE then.at = "stopped" \/ run = None
    <3>1. again' = again /\ run' = run
      BY <1>1, <2>3
    <3>2. Unanswered' = Unanswered
      BY <1>1, <1>5, <3>1 DEF Unanswered
    <3> QED
      BY <1>1, <1>2, <3>1, <3>2 DEF OnceInv
  <2> QED
    BY <1>1, <1>4, <2>2, <2>3
<1> QED
  BY <1>1, <1>2, <1>4, <1>5, <1>6 DEF OnceInv, GoesOn

\* The host begins a post: what went before is older.
LEMMA BeginPostKeepsAnswers ==
  ASSUME MailInv, OnceInv, BeginPost
  PROVE  OnceInv'
<1>1. /\ hostAt = 0 /\ hostAt' = 1 /\ posts' = posts + 1
      /\ UNCHANGED <<block, pc, run, todo, then, answered, again>>
  BY DEF BeginPost, device, history
<1>2. answered < posts' /\ answered <= posts'
  BY <1>1, PostNumbers DEF OnceInv
<1>3. /\ Unanswered' = Unanswered /\ Fresh' = Fresh /\ Valid' = Valid /\ GoesOn' = GoesOn
  BY <1>1 DEF Unanswered, Fresh, Valid, GoesOn
<1>4. (AnswerPutOK => AnswerPutOK') /\ (BootAnswerOK => BootAnswerOK')
  BY <1>1, <1>3 DEF AnswerPutOK, BootAnswerOK, Answers, HoldsAfter
<1> QED
  BY <1>1, <1>2, <1>3, <1>4 DEF OnceInv

\* The probe writes a word of its post; no answer to a new command has been given.
LEMMA HostWordKeepsAnswers ==
  ASSUME MailInv, PostInv, OnceInv, HostWord
  PROVE  OnceInv'
<1> DEFINE word == Layout[hostAt]
<1>1. /\ hostAt # 0 /\ block' = [block EXCEPT ![word] = Posted(word)]
      /\ hostAt' = IF hostAt = Len(Layout) THEN 0 ELSE hostAt + 1
      /\ UNCHANGED <<pc, run, todo, then, hostCmd, posts, answered, again>>
  BY DEF HostWord, device, history
<1>2. hostAt \in 1 .. 7 /\ Valid /\ block \in Block
  BY <1>1 DEF MailInv, HostOK, WipeOK
<1>3. /\ hostAt # 7 => word # "command"
      /\ hostAt = 7 => word = "command"
      /\ word \in {"magic", "version", "argument0", "argument1", "status", "detail", "command"}
  BY <1>2 DEF Layout
<1> HIDE DEF word
<1>4. word = "command" => Posted(word) = <<hostCmd, posts>>
  BY DEF Posted
<1>5. block'.command = IF hostAt = 7 THEN <<hostCmd, posts>> ELSE block.command
  BY <1>1, <1>2, <1>3, <1>4 DEF Block
<1>6. answered <= posts /\ answered < posts /\ answered # posts
  BY <1>1, <1>2, PostNumbers DEF OnceInv
<1>7. hostAt = 7 => Fresh'
  BY <1>1, <1>5, <1>6 DEF Fresh
<1>8. hostAt # 7 => Fresh' = Fresh /\ Unanswered' = Unanswered
  BY <1>1, <1>5 DEF Fresh, Unanswered
<1>9. Fresh' => Unanswered'
  BY DEF Unanswered
<1>10. pc \in {"fetch", "work"} => Unanswered' /\ (block'.command # run => Fresh')
  BY <1>2, <1>5, <1>7, <1>8, <1>9 DEF OnceInv
<1>11. block'.command = run \/ Unanswered'
  BY <1>2, <1>5, <1>7, <1>8, <1>9 DEF OnceInv
<1>12. ASSUME GoesOn PROVE AnswerPutOK'
  <2>1. AnswerPutOK
    BY <1>2, <1>12 DEF OnceInv
  <2>2. run # None /\ hostAt = 7 => block'.command # run
    <3> SUFFICES ASSUME run # None, hostAt = 7 PROVE posts # run[2]
      BY <1>5
    <3>1. run[2] < posts
      BY <1>1, <1>2, <1>12 DEF PostInv, OrderOK
    <3> QED
      BY <3>1, PostNumbers
  <2>3. run # None /\ block'.command # run => Fresh'
    BY <1>5, <1>7, <1>8, <2>1 DEF AnswerPutOK
  <2>4. run # None /\ block'.command = run => block.command = run
    BY <1>5, <2>2
  <2> QED
    BY <1>1, <2>1, <2>3, <2>4 DEF AnswerPutOK, Answers
<1>13. ~(pc = "put" /\ then.at = "boot")
  BY <1>1, <1>2 DEF PostInv, TodoOK, ResetOK
<1>14. GoesOn' = GoesOn
  BY <1>1 DEF GoesOn
<1> QED
  BY <1>1, <1>6, <1>10, <1>11, <1>12, <1>13, <1>14 DEF OnceInv

\* The invariant of answers given once holds always (main's command loop, the
\* handlers and the download they race with).
THEOREM OnceInvariance == Spec => []OnceInv
<1>1. Init => OnceInv
  BY PostFacts DEF Init, OnceInv, Valid
<1>2. MailInv /\ PostInv /\ OnceInv /\ [Next]_vars => OnceInv'
  <2> SUFFICES ASSUME MailInv, PostInv, OnceInv, [Next]_vars PROVE OnceInv'
    OBVIOUS
  <2>1. CASE Boot
    BY <2>1, BootKeepsAnswers
  <2>2. CASE Poll \/ FetchArgument \/ Fetched
    BY <2>2, PollKeepsAnswers
  <2>3. CASE Work
    BY <2>3, WorkKeepsAnswers
  <2>4. CASE PutWord
    BY <2>4, WordKeepsAnswers, WipeKeepsAnswers
  <2>5. CASE HandlerReturns
    BY <2>5, ReturnKeepsAnswers
  <2>6. CASE HandlerResets \/ Watchdog \/ ResetButton \/ PowerCut
    BY <2>6, RestartAnswers
  <2>7. CASE BeginPost
    BY <2>7, BeginPostKeepsAnswers
  <2>8. CASE HostWord
    BY <2>8, HostWordKeepsAnswers
  <2>9. CASE UNCHANGED vars
    <3>1. UNCHANGED <<block, pc, run, todo, then, hostAt, posts, answered, again>>
      BY <2>9 DEF vars, device, host, history
    <3>2. Unanswered' = Unanswered /\ Fresh' = Fresh /\ Valid' = Valid /\ GoesOn' = GoesOn
      BY <3>1 DEF Unanswered, Fresh, Valid, GoesOn
    <3>3. (AnswerPutOK => AnswerPutOK') /\ (BootAnswerOK => BootAnswerOK')
      BY <3>1, <3>2 DEF AnswerPutOK, BootAnswerOK, Answers, HoldsAfter
    <3> QED
      BY <3>1, <3>2, <3>3 DEF OnceInv
  <2> QED
    BY <2>1, <2>2, <2>3, <2>4, <2>5, <2>6, <2>7, <2>8, <2>9 DEF Next, DeviceStep
<1> QED
  BY <1>1, <1>2, MailInvariance, PostInvariance, PTL DEF Spec

\* A command whose answer was written, be it before a restart, is out of its word
\* when the loop looks again, but for those that wait for a restart; one whose
\* handler a press of the button ended between answer and clearing, or at a stop,
\* is handled once more (test_app_main.c:19-23, 66, 104-110, 131).
THEOREM CommandsHandledOnce == Spec => []NeverHandledAgain
<1>1. MailInv /\ OnceInv => NeverHandledAgain
  <2> SUFFICES ASSUME MailInv, OnceInv, pc = "poll", block.command[1] \notin {"NONE", "HOLD", "FAIL"}
               PROVE  block.command[2] # answered \/ block.command[2] = again
    BY DEF NeverHandledAgain
  <2>1. Valid /\ run = None
    BY DEF MailInv, WipeOK, DeviceOK
  <2>2. block.command # run
    BY <2>1 DEF None
  <2> QED
    BY <2>1, <2>2 DEF OnceInv, Unanswered, Fresh
<1> QED
  BY <1>1, MailInvariance, OnceInvariance, PTL
=============================================================================
