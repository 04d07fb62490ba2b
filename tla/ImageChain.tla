----------------------------- MODULE ImageChain -----------------------------
(***************************************************************************)
(* The way of an image from the linker to the processor: pack_image.py     *)
(* builds the file, iap_write_candidate_image checks it for a slot, and at *)
(* the next boot iap_get_image_boot_address and jump_to_slot_callback find *)
(* its vector table and decide whether to enter it.  They agree on where   *)
(* an image lies only through the numbers in its header; ImageLayout has   *)
(* the test that each of them makes.                                       *)
(*                                                                         *)
(* Storage never fails here and the flash keeps what was written: losing   *)
(* it is ImageCheck's and IapDevice's subject.                             *)
(***************************************************************************)
EXTENDS ImageLayout

CONSTANTS
  SlotAddress,   \* STM32_IAP_SLOT_A_ADDRESS, STM32_IAP_SLOT_B_ADDRESS
  SlotSize       \* STM32_IAP_SLOT_SIZE

Slot == {"A", "B"}

slots == [s \in Slot |-> [address |-> SlotAddress[s], size |-> SlotSize]]

\* stm32_iap_config.h: whole sectors, side by side, below the end of memory.
ASSUME SlotAssumption ==
  /\ SlotAddress \in [Slot -> UInt] /\ SlotSize \in UInt
  /\ SlotSize > VectorAlign /\ SlotSize % VectorAlign = 0
  /\ \A s \in Slot : SlotAddress[s] % VectorAlign = 0 /\ SlotAddress[s] + SlotSize < Word
  /\ Bytes(slots["A"]) \cap Bytes(slots["B"]) = {}

ASSUME AlignAssumption == VectorAlign >= HeaderBytes /\ VectorAlign >= 2 * WordBytes

VARIABLES
  pc,        \* build, unpacked; file; installed, refused; running, recovery
  header,    \* the image header of the file
  vectors,   \* the first two words of its payload
  size,      \* the size of the file
  packedFor, \* the slot it was packed for, "none" if pack_image.py did not build it
  dest       \* the slot it is installed in

vars == <<pc, header, vectors, size, packedFor, dest>>

TypeOK ==
  /\ pc \in {"build", "unpacked", "file", "installed", "refused", "running", "recovery"}
  /\ header \in Header /\ vectors \in Vectors /\ size \in UInt
  /\ packedFor \in Slot \cup {"none"} /\ dest \in Slot

Init ==
  /\ pc = "build"
  /\ header = PackedHeader(0, 0)
  /\ vectors = [stackInRam |-> FALSE, thumb |-> FALSE, reset |-> 0]
  /\ size = 0 /\ packedFor = "none" /\ dest = "A"

-----------------------------------------------------------------------------
\* build_image, for a payload of any length linked anywhere
Pack ==
  /\ pc = "build"
  /\ \E target \in Slot, headerSize, length \in UInt, v \in Vectors :
       \/ /\ PackerAccepts(slots[target], headerSize, length, v)
          /\ header' = PackedHeader(headerSize, length) /\ vectors' = v
          /\ size' = headerSize + length
          /\ packedFor' = target /\ pc' = "file"
       \/ /\ ~PackerAccepts(slots[target], headerSize, length, v)
          /\ pc' = "unpacked" /\ UNCHANGED <<header, vectors, size, packedFor>>
  /\ UNCHANGED dest

\* A file of another origin, its payload intact.
OtherFile ==
  /\ pc = "build"
  /\ header' \in Header /\ vectors' \in Vectors /\ size' \in UInt
  /\ pc' = "file"
  /\ UNCHANGED <<packedFor, dest>>

\* The whole file is offered for either slot.
Install ==
  /\ pc = "file"
  /\ dest' \in Slot
  /\ pc' = IF CandidateIsValid(slots[dest'], header, size, TRUE)
           THEN "installed" ELSE "refused"
  /\ UNCHANGED <<header, vectors, size, packedFor>>

\* iap_get_image_boot_address and jump_to_slot_callback
Boot ==
  /\ pc = "installed"
  /\ pc' = IF /\ ImageHeaderIsValid(slots[dest], header)
              /\ JumpAccepts(slots[dest], BootAddress(slots[dest], header), vectors)
           THEN "running" ELSE "recovery"
  /\ UNCHANGED <<header, vectors, size, packedFor, dest>>

Next == Pack \/ OtherFile \/ Install \/ Boot

Spec == Init /\ [][Next]_vars

-----------------------------------------------------------------------------
(***************************************************************************)
(* Properties.                                                             *)
(***************************************************************************)
\* What pack_image.py builds for a slot, the library installs there: the two
\* agree on where the header ends and on what still fits (pack_image.py:50-53,
\* iap_core.c:33-45, 446-455).
PackedFileInstalls == packedFor = dest => pc # "refused"

\* If its header is also a multiple of the vector alignment, which
\* pack_image.py does not ask for, the boot loader enters it.
AlignedFileRuns ==
  packedFor = dest /\ header.size % VectorAlign = 0 => pc # "recovery"

\* The library installs a file in whichever slot it is told to, also in one it
\* was not linked for.  The jump is the only check that knows the difference,
\* and it never lets such an image run (stm32_iap_platform.c:37-47).
RunsOnlyInItsSlot == pc = "running" /\ packedFor # "none" => packedFor = dest

\* Whatever the origin of an image that is entered, its vector table lies in
\* the slot, behind the header, and its reset handler in the slot.
EntersInsideSlot ==
  pc = "running" =>
    /\ BootAddress(slots[dest], header) >= slots[dest].address + HeaderBytes
    /\ \A i \in 0..(2 * WordBytes - 1) :
         BootAddress(slots[dest], header) + i \in Bytes(slots[dest])
    /\ vectors.reset \in Bytes(slots[dest])
=============================================================================
