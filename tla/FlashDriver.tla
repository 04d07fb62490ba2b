---------------------------- MODULE FlashDriver ----------------------------
(***************************************************************************)
(* The storage port of the STM32F407 example (stm32_iap_storage.c) seen    *)
(* from its callers: which calls it performs, which it refuses, and which  *)
(* bytes of flash a call may change.  Any caller may ask for any address   *)
(* and size; the application also makes the calls of test_boundary_guards. *)
(*                                                                         *)
(* What a control write does inside the journal is ControlJournal's        *)
(* subject; here it may change any of it or nothing.                       *)
(***************************************************************************)
EXTENDS Integers

CONSTANTS
  Word,          \* 2^32: addresses and sizes are uint32_t
  WordBytes,     \* sizeof(uint32_t)
  ControlBytes,  \* sizeof(iap_boot_control_t)
  FlashBase, FlashEnd,
  Bootloader,    \* region of the boot loader
  SlotA, SlotB,  \* regions of the slots
  ControlA,      \* STM32_IAP_CONTROL_A_ADDRESS
  ControlArea    \* region of both control sectors

UInt == 0..(Word - 1)
Region == [address : UInt, size : UInt]
Bytes(r) == r.address..(r.address + r.size - 1)

Slot == {"A", "B"}
Of(s) == IF s = "A" THEN SlotA ELSE SlotB
Other(s) == IF s = "A" THEN "B" ELSE "A"

\* stm32_iap_config.h
ASSUME ConfigAssumption ==
  /\ Word \in Nat \ {0} /\ WordBytes \in Nat /\ ControlBytes \in Nat
  /\ 2 < WordBytes /\ WordBytes < ControlBytes
  /\ {SlotA, SlotB, Bootloader, ControlArea} \subseteq Region
  /\ FlashBase \in Nat /\ FlashEnd \in UInt
  /\ SlotA.size = SlotB.size /\ SlotA.size > WordBytes
  /\ \A r \in {SlotA, SlotB, Bootloader, ControlArea} :
       FlashBase <= r.address /\ r.address + r.size <= FlashEnd
  /\ Bootloader.address + Bootloader.size <= SlotA.address
  /\ SlotA.address + SlotA.size <= SlotB.address
  /\ SlotB.address + SlotB.size <= ControlArea.address
  /\ ControlA = ControlArea.address
  /\ SlotA.address % WordBytes = 0 /\ SlotB.address % WordBytes = 0
  /\ Bootloader.size > 0

VARIABLES
  protected,     \* storage->protected_slot
  failRead, failWrite,  \* the armed failures of the tests
  step,          \* the next call of test_boundary_guards; 0 no test,
                 \* 7 it passed, 8 it reported an error
  call,          \* the last call: operation and region
  changed,       \* the bytes of flash it may have changed
  result         \* what it returned

vars == <<protected, failRead, failWrite, step, call, changed, result>>

Operation == {"none", "read", "write", "erase"}
NoCall == [op |-> "none", r |-> [address |-> 0, size |-> 0]]

TypeOK ==
  /\ protected \in Slot \cup {"NONE"}
  /\ failRead \in BOOLEAN /\ failWrite \in BOOLEAN
  /\ step \in 0..8
  /\ call \in [op : Operation, r : Region]
  /\ changed \subseteq FlashBase..(FlashEnd - 1)
  /\ result \in {"NONE", "OK", "INVALID_ARG", "STORAGE"}

\* The boot loader protects no slot, an application the one it runs in.
Init ==
  /\ protected \in Slot \cup {"NONE"}
  /\ failRead = FALSE /\ failWrite = FALSE
  /\ step = 0
  /\ call = NoCall
  /\ changed = {} /\ result = "NONE"

-----------------------------------------------------------------------------
\* Mutations: the end of the range is computed in 32 bits; the last byte of a
\* region is left out.
RangeIsWithin32(r, region) ==
  r.size > 0 /\ r.address >= region.address
  /\ (r.address + r.size) % Word <= (region.address + region.size) % Word

RangeIsInside(r, region) ==
  r.size > 0 /\ r.address >= region.address
  /\ r.address + r.size < region.address + region.size

RangeIsWithin(r, region) ==
  r.size > 0 /\ r.address >= region.address
  /\ r.address + r.size <= region.address + region.size

\* range_is_slot: the slots the range lies in, at most one.
SlotOf(r) == {s \in Slot : RangeIsWithin(r, Of(s))}

Returns(st) == result' = st

ReadPerformed(r) ==
  \/ r.address = ControlA /\ r.size = ControlBytes
  \/ RangeIsWithin(r, [address |-> FlashBase, size |-> FlashEnd - FlashBase])

Read(r) ==
  /\ changed' = {} /\ UNCHANGED failWrite
  /\ \/ r.size = 0 /\ Returns("INVALID_ARG") /\ UNCHANGED failRead
     \/ r.size > 0 /\ failRead /\ failRead' = FALSE /\ Returns("STORAGE")
     \/ /\ r.size > 0 /\ ~failRead /\ UNCHANGED failRead
        /\ Returns(IF ReadPerformed(r) THEN "OK" ELSE "INVALID_ARG")

IsControlWrite(r) == r.address = ControlA /\ r.size = ControlBytes

\* Mutation: unaligned words are taken.
WriteAllowedUnaligned(r) == SlotOf(r) # {} /\ protected \notin SlotOf(r)

WriteAllowed(r) ==
  r.address % WordBytes = 0 /\ SlotOf(r) # {} /\ protected \notin SlotOf(r)

\* program_words stops at the first word that fails.
Write(r) ==
  /\ UNCHANGED failRead
  /\ \/ /\ IsControlWrite(r)
        /\ \/ /\ failWrite /\ failWrite' = FALSE
              /\ changed' = {} /\ Returns("STORAGE")
           \/ /\ ~failWrite /\ UNCHANGED failWrite
              /\ changed' \in {{}, Bytes(ControlArea)}
              /\ result' \in {"OK", "STORAGE"}
     \/ /\ ~IsControlWrite(r) /\ WriteAllowed(r)
        /\ \E n \in 0..r.size :
             /\ changed' = r.address..(r.address + n - 1)
             /\ result' \in IF n = r.size THEN {"OK", "STORAGE"} ELSE {"STORAGE"}
        /\ UNCHANGED failWrite
     \/ /\ ~IsControlWrite(r) /\ ~WriteAllowed(r)
        /\ changed' = {} /\ Returns("INVALID_ARG") /\ UNCHANGED failWrite

\* Mutation: any range of a slot will do, though whole sectors are erased.
EraseAllowedAnySize(r) == SlotOf(r) # {} /\ protected \notin SlotOf(r)

EraseAllowed(r) ==
  r.size = SlotA.size /\ SlotOf(r) # {} /\ protected \notin SlotOf(r)

\* The two sectors of the slot, whatever the address; a failing erase may
\* leave any of them changed.
Erase(r) ==
  /\ UNCHANGED <<failRead, failWrite>>
  /\ \/ /\ EraseAllowed(r)
        /\ \E s \in SlotOf(r) :
             \/ changed' = Bytes(Of(s)) /\ result' \in {"OK", "STORAGE"}
             \/ /\ changed' \in {{}, Of(s).address..(Of(s).address + Of(s).size \div 2 - 1)}
                /\ Returns("STORAGE")
     \/ ~EraseAllowed(r) /\ changed' = {} /\ Returns("INVALID_ARG")

Do(op, r) ==
  /\ call' = [op |-> op, r |-> r]
  /\ \/ op = "read" /\ Read(r)
     \/ op = "write" /\ Write(r)
     \/ op = "erase" /\ Erase(r)

AnyCall ==
  /\ step = 0 /\ call = NoCall
  /\ \E op \in Operation, r \in Region : Do(op, r)
  /\ UNCHANGED <<protected, step>>

\* The caller goes on; what its last call did is forgotten.
Returned ==
  /\ step = 0 /\ call # NoCall
  /\ call' = NoCall /\ changed' = {} /\ result' = "NONE"
  /\ UNCHANGED <<protected, failRead, failWrite, step>>

\* stm32_iap_storage_fail_next_read and _write
ArmFailure ==
  /\ step = 0
  /\ \/ failRead' = TRUE /\ UNCHANGED failWrite
     \/ failWrite' = TRUE /\ UNCHANGED failRead
  /\ UNCHANGED <<protected, step, call, changed, result>>

-----------------------------------------------------------------------------
(***************************************************************************)
(* test_boundary_guards of the application running in the protected slot.  *)
(* The application arms a read failure only right before a read.           *)
(***************************************************************************)
Here == Of(protected)
There == Of(Other(protected))
At(a) == [address |-> a, size |-> WordBytes]

BoundaryCall(n) ==
  CASE n = 1 -> [op |-> "erase", r |-> Here]
    [] n = 2 -> [op |-> "write", r |-> At(Here.address)]
    [] n = 3 -> [op |-> "write", r |-> At(FlashBase)]
    [] n = 4 -> [op |-> "write", r |-> At(There.address + 1)]
    [] n = 5 -> [op |-> "erase", r |-> [address |-> There.address + WordBytes,
                                       size |-> There.size]]
    [] n = 6 -> [op |-> "read", r |-> At(FlashEnd - 2)]

BeginBoundaryTest ==
  /\ step = 0 /\ protected \in Slot /\ ~failRead
  /\ step' = 1
  /\ UNCHANGED <<protected, failRead, failWrite, call, changed, result>>

BoundaryStep ==
  /\ step \in 1..6
  /\ Do(BoundaryCall(step).op, BoundaryCall(step).r)
  /\ step' = IF result' = "INVALID_ARG" THEN step + 1 ELSE 8
  /\ UNCHANGED protected

EndBoundaryTest ==
  /\ step \in {7, 8}
  /\ step' = 0
  /\ UNCHANGED <<protected, failRead, failWrite, call, changed, result>>

Next == AnyCall \/ Returned \/ ArmFailure \/ BeginBoundaryTest \/ BoundaryStep \/ EndBoundaryTest

Spec == Init /\ [][Next]_vars

-----------------------------------------------------------------------------
(***************************************************************************)
(* Properties.                                                             *)
(***************************************************************************)
\* No call, of whatever address and size, failed or not, changes a byte of
\* the boot loader or of the slot that is running (stm32_iap_storage.c:358,
\* 375).
ProtectedUntouched ==
  /\ changed \cap Bytes(Bootloader) = {}
  /\ protected \in Slot => changed \cap Bytes(Of(protected)) = {}

\* A call changes only bytes it names, although an erase goes by sector and
\* the control address stands for the whole journal.
ChangesOnlyNamed ==
  changed \subseteq Bytes(call.r) \cup (IF call.op = "write" /\ IsControlWrite(call.r)
                                       THEN Bytes(ControlArea) ELSE {})

\* What iap_core.c asks of the slot that is not protected is never refused:
\* erasing the slot, writing from its start, reading anywhere in it, and the
\* control in either direction.
LibraryAsks(op, r) ==
  \/ op \in {"read", "write"} /\ IsControlWrite(r)
  \/ \E s \in Slot \ {protected} :
       \/ op = "erase" /\ r = Of(s)
       \/ op = "write" /\ r.address = Of(s).address /\ r.size \in 1..Of(s).size
       \/ op = "read" /\ r.size > 0 /\ Bytes(r) \subseteq Bytes(Of(s))

ServesLibrary == LibraryAsks(call.op, call.r) => result # "INVALID_ARG"

\* The boundary test never damages flash and never reports an error: each of
\* its six calls is refused for its argument (test_app_main.c:302-345).
BoundaryTestPasses == step # 8
=============================================================================
