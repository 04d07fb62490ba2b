--------------------------- MODULE ControlJournal ---------------------------
(***************************************************************************)
(* The control area of stm32_iap_storage.c: two flash sectors of records,  *)
(* appended until a sector is full and then continued in the other one,    *)
(* which is erased first.  A load returns the record with the newest       *)
(* sequence number.  A save is the four-step program below, and power can  *)
(* go, or the flash controller can report an error, in any of its steps.   *)
(*                                                                         *)
(* Positions 1..N are the records of sector A (flash sector 9) in the      *)
(* order of their addresses, N+1..2N those of sector B.                    *)
(***************************************************************************)
EXTENDS Integers

CONSTANTS
  Controls,    \* boot controls that are saved
  NoControl,   \* no valid record: flash_read fills the buffer with 0xFF
  Erased,      \* every word of the record is 0xFFFFFFFF
  Torn,        \* neither erased nor valid: magic, CRC or commit is missing
  N,           \* records per sector (2048 on the STM32F407)
  SeqMod       \* sequence numbers wrap at this value (2^32)

ASSUME NAssumption == N \in Nat \ {0}
\* The signed comparison needs all records of both sectors within half the
\* range of the numbers.
ASSUME SeqModAssumption == SeqMod \in Nat /\ SeqMod % 2 = 0 /\ 2 * N <= SeqMod \div 2
ASSUME CellAssumption ==
  Erased # Torn /\ {Erased, Torn} \cap [seq : 0..(SeqMod - 1), control : Controls] = {}
ASSUME NoControlAssumption == NoControl \notin Controls

VARIABLES
  cell,        \* the records of both sectors
  pc,          \* the save in progress: idle, erase, body or commit
  saving,      \* the control it saves, or NoControl
  target,      \* the position it writes, 0 if none
  seq,         \* the sequence number it writes
  verdict      \* how the last save ended

vars == <<cell, pc, saving, target, seq, verdict>>

Position == 1..(2 * N)
Seq == 0..(SeqMod - 1)
Record == [seq : Seq, control : Controls]

SectorOf(p) == IF p <= N THEN 1..N ELSE (N + 1)..(2 * N)
OtherSectorOf(p) == Position \ SectorOf(p)
FirstOf(sector) == CHOOSE p \in sector : \A q \in sector : p <= q

IsRecord(p) == cell[p] # Erased /\ cell[p] # Torn

\* Mutation: sequence numbers compared as unsigned numbers.
SequenceIsGreater(a, b) == a > b

\* (int32_t)(a - b) > 0
SequenceIsNewer(a, b) == (a - b) % SeqMod \in 1..(SeqMod \div 2 - 1)

(***************************************************************************)
(* scan_control_sector over both sectors: a sector's scan stops at its     *)
(* first erased record, and the best record so far yields only to a newer  *)
(* one.  0 is a NULL latest.record.  ScannedToTorn is a mutation: a torn   *)
(* record ends the scan.                                                   *)
(***************************************************************************)
ScannedToTorn(p) == \A q \in SectorOf(p) : q <= p => cell[q] \notin {Erased, Torn}

Scanned(p) == \A q \in SectorOf(p) : q <= p => cell[q] # Erased

ScanUpTo[p \in 0..(2 * N)] ==
  IF p = 0 THEN 0
  ELSE LET best == ScanUpTo[p - 1] IN
       IF /\ Scanned(p) /\ IsRecord(p)
          /\ best = 0 \/ SequenceIsNewer(cell[p].seq, cell[best].seq)
       THEN p ELSE best

Latest == ScanUpTo[2 * N]

\* flash_read of the control address
Load == IF Latest = 0 THEN NoControl ELSE cell[Latest].control

\* find_free_record_address; 0 when the sector has no erased record.
FreeIn(sector) ==
  LET free == {p \in sector : cell[p] = Erased} IN
  IF free = {} THEN 0 ELSE FirstOf(free)

TypeOK ==
  /\ cell \in [Position -> Record \cup {Erased, Torn}]
  /\ pc \in {"idle", "erase", "body", "commit"}
  /\ saving \in IF pc = "idle" THEN {NoControl} ELSE Controls
  /\ target \in IF pc = "idle" THEN {0} ELSE Position
  /\ seq \in Seq
  /\ verdict \in {"NONE", "OK", "STORAGE"}

Init ==
  /\ cell = [p \in Position |-> Erased]
  /\ pc = "idle" /\ saving = NoControl /\ target = 0 /\ seq = 0
  /\ verdict = "NONE"

-----------------------------------------------------------------------------
(***************************************************************************)
(* append_control_record.                                                  *)
(***************************************************************************)

\* Mutations: a full sector goes unnoticed; the sector of the latest record is
\* the one erased.
BeginAppendUnchecked(c) ==
  /\ pc = "idle"
  /\ saving' = c
  /\ seq' = IF Latest = 0 THEN 0 ELSE (cell[Latest].seq + 1) % SeqMod
  /\ target' = FreeIn(IF Latest = 0 THEN 1..N ELSE SectorOf(Latest))
  /\ pc' = "body" /\ verdict' = "NONE"
  /\ UNCHANGED cell

BeginAppendInPlace(c) ==
  /\ pc = "idle"
  /\ saving' = c
  /\ seq' = IF Latest = 0 THEN 0 ELSE (cell[Latest].seq + 1) % SeqMod
  /\ LET home == IF Latest = 0 THEN 1..N ELSE SectorOf(Latest)
     IN \/ /\ FreeIn(home) # 0
           /\ target' = FreeIn(home) /\ pc' = "body"
        \/ /\ FreeIn(home) = 0
           /\ target' = FirstOf(home) /\ pc' = "erase"
  /\ verdict' = "NONE"
  /\ UNCHANGED cell

\* Choose the place: the first free record of the latest record's sector; if
\* it has none, the other sector after an erase.  Without any record, sector A.
BeginAppend(c) ==
  /\ pc = "idle"
  /\ saving' = c
  /\ seq' = IF Latest = 0 THEN 0 ELSE (cell[Latest].seq + 1) % SeqMod
  /\ LET home == IF Latest = 0 THEN 1..N ELSE SectorOf(Latest)
         next == IF Latest = 0 THEN 1..N ELSE OtherSectorOf(Latest)
     IN \/ /\ FreeIn(home) # 0
           /\ target' = FreeIn(home) /\ pc' = "body"
        \/ /\ FreeIn(home) = 0
           /\ target' = FirstOf(next) /\ pc' = "erase"
  /\ verdict' = "NONE"
  /\ UNCHANGED cell

(***************************************************************************)
(* What an interrupted or failed step leaves in flash.  An erase may have  *)
(* reached any of the sector's records and left others as they were; a     *)
(* program may have reached no word, some, or all of them.                 *)
(***************************************************************************)
HalfErased ==
  \E erased, torn \in SUBSET SectorOf(target) :
    cell' = [p \in Position |-> IF p \in erased THEN Erased
                               ELSE IF p \in torn THEN Torn ELSE cell[p]]

\* Mutation: the status of the erase is ignored.
EraseUnchecked ==
  /\ pc = "erase"
  /\ HalfErased
  /\ pc' = "body"
  /\ UNCHANGED <<saving, target, seq, verdict>>

EraseSector ==
  /\ pc = "erase"
  /\ cell' = [p \in Position |-> IF p \in SectorOf(target) THEN Erased ELSE cell[p]]
  /\ pc' = "body"
  /\ UNCHANGED <<saving, target, seq, verdict>>

Return(v) ==
  /\ pc' = "idle" /\ saving' = NoControl /\ target' = 0 /\ verdict' = v
  /\ UNCHANGED seq

\* Everything but the commit word; flash that is not erased reads back wrong.
ProgramBody ==
  /\ pc = "body"
  /\ cell' = [cell EXCEPT ![target] = Torn]
  /\ \/ /\ cell[target] = Erased
        /\ pc' = "commit"
        /\ UNCHANGED <<saving, target, seq, verdict>>
     \/ cell[target] # Erased /\ Return("STORAGE")

\* The commit word makes the record valid.
ProgramCommit ==
  /\ pc = "commit"
  /\ cell' = [cell EXCEPT ![target] = [seq |-> seq, control |-> saving]]
  /\ Return("OK")

HalfProgrammed(complete) ==
  \E content \in {cell[target], Torn, complete} : cell' = [cell EXCEPT ![target] = content]

HalfDone ==
  \/ pc = "erase" /\ HalfErased
  \/ pc = "body" /\ HalfProgrammed(Torn)
  \/ pc = "commit" /\ HalfProgrammed([seq |-> seq, control |-> saving])

\* HAL_FLASHEx_Erase or HAL_FLASH_Program reports an error.
FlashError == HalfDone /\ Return("STORAGE")

\* Power goes, or a reset cuts the step short; RAM is gone.
PowerCut == HalfDone /\ Return("NONE")

Next ==
  \/ \E c \in Controls : BeginAppend(c)
  \/ EraseSector \/ ProgramBody \/ ProgramCommit
  \/ FlashError \/ PowerCut

Spec == Init /\ [][Next]_vars

-----------------------------------------------------------------------------
(***************************************************************************)
(* Properties.                                                             *)
(***************************************************************************)
Records == {p \in Position : IsRecord(p)}

\* Torn records, half-erased sectors and wrapped numbers included, the scan
\* finds the one record that is newer than every other record in flash, even
\* those the scan does not reach.
ScanFindsNewest ==
  Records # {} =>
    /\ Latest \in Records
    /\ \A p \in Records \ {Latest} : SequenceIsNewer(cell[Latest].seq, cell[p].seq)

\* The sector about to be erased never holds the latest record, so a power
\* cut during the erase cannot lose the control (stm32_iap_storage.c:253-265).
ErasesOnlyOld == pc = "erase" => Latest \notin SectorOf(target)

\* Whatever earlier cuts and errors left behind, a save programs only a record
\* that reads erased: it fails only if the flash reports an error in that very
\* save, and it never runs out of room.
ProgramsErasedOnly == pc = "body" => cell[target] = Erased

\* The journal is the register the library expects: a load returns the old
\* control until the commit word is programmed and the new one from then on,
\* through full sectors, erases, errors, cuts and wrapped sequence numbers.
Store == INSTANCE ControlStore WITH value <- Load, result <- verdict

ImplementsStore == Store!StoreSpec
=============================================================================
