---------------------------- MODULE ImageLayout ----------------------------
(***************************************************************************)
(* The address arithmetic of the framework, as pure functions: ranges and  *)
(* headers as iap_core.c checks them, the bounds of the RAM storage port,  *)
(* the image pack_image.py builds, and the vector table the boot loader    *)
(* accepts.  Sums of uint32_t values are taken modulo Word, where the code *)
(* takes them so.                                                          *)
(***************************************************************************)
EXTENDS Integers

CONSTANTS
  Word,          \* 2^32: addresses and sizes are uint32_t
  WordBytes,     \* sizeof(uint32_t)
  HeaderBytes,   \* sizeof(iap_image_header_t)
  ControlBytes,  \* sizeof(iap_boot_control_t)
  VectorAlign    \* STM32_IAP_IMAGE_HEADER_SIZE

ASSUME LayoutAssumption ==
  /\ Word \in Nat /\ HeaderBytes \in Nat \ {0} /\ ControlBytes \in Nat \ {0}
  /\ WordBytes \in Nat \ {0} /\ VectorAlign \in Nat \ {0}
  /\ HeaderBytes < Word /\ ControlBytes < Word

UInt == 0..(Word - 1)

Region == [address : UInt, size : UInt]
Header == [known : BOOLEAN, size : UInt, image : UInt]   \* known: magic and version

\* The bytes of a region, without wrap-around.
Bytes(r) == r.address..(r.address + r.size - 1)

-----------------------------------------------------------------------------
(***************************************************************************)
(* iap_core.c                                                              *)
(***************************************************************************)

\* Mutation: the sum may wrap around unnoticed.
RangeIsNonEmpty(r) == r.size > 0

RangeIsValid(r) == r.size > 0 /\ r.size <= (Word - 1) - r.address

RangesOverlap(r, q) ==
  LET end(x) == (x.address + x.size) % Word
  IN  r.address < end(q) /\ q.address < end(r)

\* iap_init, for a storage port without null functions
InitAccepts(a, b, controlAddress) ==
  LET control == [address |-> controlAddress, size |-> ControlBytes] IN
  /\ a.size > HeaderBytes /\ b.size > HeaderBytes
  /\ RangeIsValid(a) /\ RangeIsValid(b) /\ RangeIsValid(control)
  /\ ~RangesOverlap(a, b) /\ ~RangesOverlap(a, control) /\ ~RangesOverlap(b, control)

\* Mutation: the payload is compared with the slot, not with what the header
\* leaves of it.
PayloadFitsSlot(desc, h) ==
  /\ h.known
  /\ desc.size > HeaderBytes
  /\ h.size >= HeaderBytes /\ h.size % WordBytes = 0 /\ h.size < desc.size
  /\ h.image > 0 /\ h.image <= desc.size

ImageHeaderIsValid(desc, h) ==
  /\ h.known
  /\ desc.size > HeaderBytes
  /\ h.size >= HeaderBytes /\ h.size % WordBytes = 0 /\ h.size < desc.size
  /\ h.image > 0 /\ h.image <= desc.size - h.size

\* Mutation: the size the host gives is not compared with the header's.
CandidateSizeUnchecked(desc, h, size, crcMatches) ==
  /\ size >= HeaderBytes /\ size <= desc.size
  /\ ImageHeaderIsValid(desc, h)
  /\ crcMatches

\* iap_write_candidate_image before it touches the flash.  The checksum is
\* taken of the payload in RAM.
CandidateIsValid(desc, h, size, crcMatches) ==
  /\ size >= HeaderBytes /\ size <= desc.size
  /\ ImageHeaderIsValid(desc, h)
  /\ size = (h.size + h.image) % Word
  /\ crcMatches

\* Mutation: the payload is taken to follow the header's fields, not the room
\* the header announces.
BootAfterFields(desc, h) == (desc.address + HeaderBytes) % Word

\* iap_get_image_boot_address of a valid header
BootAddress(desc, h) == (desc.address + h.size) % Word

-----------------------------------------------------------------------------
(***************************************************************************)
(* iap_memory_storage.c: one test for read, write and erase.               *)
(***************************************************************************)

MemoryAccepts(memorySize, r) ==
  r.address <= memorySize /\ r.size <= memorySize - r.address

-----------------------------------------------------------------------------
(***************************************************************************)
(* A vector table: an initial stack pointer, in RAM or not, and a reset    *)
(* handler, Thumb (odd) or not, at an address.                             *)
(***************************************************************************)
Vectors == [stackInRam : BOOLEAN, thumb : BOOLEAN, reset : UInt]

\* Mutations: the handler is only compared with the end of the slot; the
\* vector table may lie anywhere.
JumpBelowEnd(desc, bootAddress, v) ==
  /\ bootAddress % VectorAlign = 0
  /\ v.stackInRam /\ v.thumb
  /\ v.reset < (desc.address + desc.size) % Word

JumpUnaligned(desc, bootAddress, v) ==
  /\ v.stackInRam /\ v.thumb
  /\ v.reset >= (desc.address + VectorAlign) % Word
  /\ v.reset < (desc.address + desc.size) % Word

\* jump_to_slot_callback; the slot has the platform's address and size.
JumpAccepts(desc, bootAddress, v) ==
  /\ bootAddress % VectorAlign = 0
  /\ v.stackInRam /\ v.thumb
  /\ v.reset >= (desc.address + VectorAlign) % Word
  /\ v.reset < (desc.address + desc.size) % Word

(***************************************************************************)
(* pack_image.py: build_image with validate_vector_table.  Python integers *)
(* do not wrap; a field beyond 32 bits makes struct.pack fail.             *)
(***************************************************************************)
\* Mutation: the header's room is forgotten.
PackerFitsPayload(target, headerSize, length, v) ==
  /\ headerSize >= HeaderBytes /\ headerSize % WordBytes = 0
  /\ length <= target.size
  /\ headerSize < Word /\ length < Word
  /\ length >= 2 * WordBytes
  /\ v.stackInRam /\ v.thumb
  /\ target.address + headerSize <= v.reset
  /\ v.reset < target.address + headerSize + length

PackerAccepts(target, headerSize, length, v) ==
  /\ headerSize >= HeaderBytes /\ headerSize % WordBytes = 0
  /\ headerSize + length <= target.size
  /\ headerSize < Word /\ length < Word
  /\ length >= 2 * WordBytes
  /\ v.stackInRam /\ v.thumb
  /\ target.address + headerSize <= v.reset
  /\ v.reset < target.address + headerSize + length

PackedHeader(headerSize, length) == [known |-> TRUE, size |-> headerSize, image |-> length]
=============================================================================
