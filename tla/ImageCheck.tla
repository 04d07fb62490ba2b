----------------------------- MODULE ImageCheck -----------------------------
(***************************************************************************)
(* iap_init, iap_verify_image and iap_write_candidate_image of iap_core.c  *)
(* over the storage port of iap_memory_storage.c, byte by byte.  The slot  *)
(* descriptors, the control address and the memory are whatever a caller   *)
(* hands in; the slots hold whatever they hold.                            *)
(*                                                                         *)
(* One step is one call of the storage port.  What a slot holds is a       *)
(* header and the set of its bytes that are those the header's CRC-32 was  *)
(* computed over; the CRC over a payload matches when all of its bytes are *)
(* among them.                                                             *)
(***************************************************************************)
EXTENDS ImageLayout

CONSTANTS
  ChunkBytes,    \* sizeof(buffer) in iap_verify_image: 64
  MemorySizes    \* sizes of the memory behind the port

ASSUME ChunkAssumption == ChunkBytes \in Nat \ {0}
ASSUME MemoryAssumption == MemorySizes \subseteq UInt

Slot == {"A", "B"}
NoAccess == [address |-> 0, size |-> 0]
NoHeader == [known |-> FALSE, size |-> 0, image |-> 0]

VARIABLES
  slots,       \* ctx->slots
  controlAddress,
  memorySize,  \* storage->size
  pc,          \* init, ready, refused; erase, write, header, loop; done
  where,       \* the slot that is verified or written
  header,      \* the image header read from the slot, or the candidate's
  size,        \* the candidate's size, 0 when a slot is only verified
  good,        \* offsets in the slot whose bytes the header's CRC was taken of
  remaining, offset,   \* locals of iap_verify_image
  seen,        \* offsets whose bytes have gone into the CRC
  access,      \* the bytes the port touched last
  result       \* what the library returned

context == <<slots, controlAddress, memorySize>>
vars == <<context, pc, where, header, size, good, remaining, offset, seen, access, result>>

Results == {"NONE", "OK", "INVALID_ARG", "STORAGE", "VERIFY"}

TypeOK ==
  /\ slots \in [Slot -> Region] /\ controlAddress \in UInt /\ memorySize \in UInt
  /\ pc \in {"init", "ready", "refused", "erase", "write", "header", "loop", "done"}
  /\ where \in Slot
  /\ header \in Header /\ size \in UInt
  /\ good \subseteq UInt
  /\ remaining \in UInt /\ offset \in UInt /\ seen \subseteq UInt
  /\ access \in Region
  /\ result \in Results

Init ==
  /\ slots \in [Slot -> Region] /\ controlAddress \in UInt /\ memorySize \in MemorySizes
  /\ pc = "init" /\ where = "A" /\ header = NoHeader /\ size = 0 /\ good = {}
  /\ remaining = 0 /\ offset = 0 /\ seen = {} /\ access = NoAccess /\ result = "NONE"

-----------------------------------------------------------------------------
InitContext ==
  /\ pc = "init"
  /\ \/ InitAccepts(slots["A"], slots["B"], controlAddress) /\ pc' = "ready"
     \/ ~InitAccepts(slots["A"], slots["B"], controlAddress) /\ pc' = "refused"
  /\ UNCHANGED <<context, where, header, size, good, remaining, offset, seen, access, result>>

\* The library returns.
Return(st) ==
  /\ pc' = "done" /\ result' = st
  /\ UNCHANGED <<where, header, size, good, remaining, offset, seen>>

\* A call of the storage port does what is asked.
Performs(r) == MemoryAccepts(memorySize, r) /\ access' = r

\* It refuses what its memory does not hold, or reports a flash error, as the
\* STM32F407 port does.
PortFails(r) ==
  \/ ~MemoryAccepts(memorySize, r) /\ Return("INVALID_ARG") /\ access' = access
  \/ Return("STORAGE") /\ access' = access

BeginVerify ==
  /\ pc = "ready"
  /\ where' \in Slot
  /\ pc' = "header"
  /\ UNCHANGED <<context, header, size, good, remaining, offset, seen, access, result>>

\* The candidate in RAM: any header, any size, intact or not.  A refused one
\* leaves the flash alone.
BeginInstall ==
  /\ pc = "ready"
  /\ where' \in Slot
  /\ \E h \in Header, n \in UInt, intact \in BOOLEAN :
       \/ /\ CandidateIsValid(slots[where'], h, n, intact)
          /\ header' = h /\ size' = n /\ pc' = "erase" /\ UNCHANGED result
       \/ /\ ~CandidateIsValid(slots[where'], h, n, intact)
          /\ pc' = "done" /\ UNCHANGED <<header, size>>
          /\ result' = IF n < HeaderBytes \/ n > slots[where'].size
                       THEN "INVALID_ARG" ELSE "VERIFY"
  /\ UNCHANGED <<context, good, remaining, offset, seen, access>>

Erase ==
  /\ pc = "erase"
  /\ LET r == slots[where] IN
       \/ /\ Performs(r) /\ pc' = "write"
          /\ UNCHANGED <<where, header, size, good, remaining, offset, seen, result>>
       \/ PortFails(r)
  /\ UNCHANGED context

Write ==
  /\ pc = "write"
  /\ LET r == [address |-> slots[where].address, size |-> size] IN
       \/ /\ Performs(r) /\ pc' = "header" /\ good' = 0..(size - 1)
          /\ UNCHANGED <<where, header, size, remaining, offset, seen, result>>
       \/ PortFails(r)
  /\ UNCHANGED context

\* A slot that was not just written holds any header, and a payload that is
\* intact or has a damaged byte.
Content ==
  IF size # 0 THEN header' = header /\ good' = good
  ELSE /\ header' \in Header
       /\ \E bad \in UInt : good' = UInt \ {bad}

\* iap_read_header and iap_image_header_is_valid
ReadHeader ==
  /\ pc = "header"
  /\ LET r == [address |-> slots[where].address, size |-> HeaderBytes] IN
       \/ /\ Performs(r) /\ Content
          /\ ImageHeaderIsValid(slots[where], header')
          /\ remaining' = header'.image /\ offset' = header'.size
          /\ pc' = "loop"
          /\ UNCHANGED <<where, size, seen, result>>
       \/ /\ Performs(r)
          /\ \E h \in IF size # 0 THEN {header} ELSE Header :
               ~ImageHeaderIsValid(slots[where], h)
          /\ Return("VERIFY")
       \/ PortFails(r)
  /\ UNCHANGED context

\* Mutation: always a whole buffer is read.
WholeBuffer == ChunkBytes

Chunk == IF remaining > ChunkBytes THEN ChunkBytes ELSE remaining

ReadChunk ==
  /\ pc = "loop" /\ remaining > 0
  /\ LET r == [address |-> (slots[where].address + offset) % Word, size |-> Chunk] IN
       \/ /\ Performs(r)
          /\ seen' = seen \cup offset..(offset + Chunk - 1)
          /\ remaining' = remaining - Chunk /\ offset' = (offset + Chunk) % Word
          /\ UNCHANGED <<pc, where, header, size, good, result>>
       \/ PortFails(r)
  /\ UNCHANGED context

\* Mutation: a payload shorter than the buffer is not read at all.
CompareEarly ==
  /\ pc = "loop" /\ remaining < ChunkBytes
  /\ Return(IF seen \subseteq good THEN "OK" ELSE "VERIFY")
  /\ UNCHANGED <<context, access>>

Compare ==
  /\ pc = "loop" /\ remaining = 0
  /\ Return(IF seen \subseteq good THEN "OK" ELSE "VERIFY")
  /\ UNCHANGED <<context, access>>

Next ==
  \/ InitContext \/ BeginVerify \/ BeginInstall \/ Erase \/ Write
  \/ ReadHeader \/ ReadChunk \/ Compare

Spec == Init /\ [][Next]_vars

-----------------------------------------------------------------------------
(***************************************************************************)
(* Properties.                                                             *)
(***************************************************************************)
ControlRegion == [address |-> controlAddress, size |-> ControlBytes]

\* Three regions of the address space that share no byte, none of them
\* reaching the last address, and slots with room for more than a header.
LayoutSound ==
  /\ \A s \in Slot : slots[s].size > HeaderBytes
  /\ \A r \in {slots["A"], slots["B"], ControlRegion} : r.address + r.size < Word
  /\ Bytes(slots["A"]) \cap Bytes(slots["B"]) = {}
  /\ \A s \in Slot : Bytes(slots[s]) \cap Bytes(ControlRegion) = {}

\* iap_init accepts exactly the sound layouts, although it adds addresses and
\* sizes as uint32_t (iap_core.c:27, 141-159).
InitDecides ==
  /\ pc \notin {"init", "refused"} => LayoutSound
  /\ pc = "refused" => ~LayoutSound

\* Whatever header a slot holds, the library reads, writes and erases only
\* bytes of the slot it was asked about: never the other slot or the control.
StaysInSlot == access.size > 0 => Bytes(access) \subseteq Bytes(slots[where])

\* The verdict is about the payload, the whole payload and nothing else:
\* every byte the header announces has gone into the CRC once the loop ends.
PayloadOf(h) == h.size..(h.size + h.image - 1)

VerdictCoversPayload ==
  /\ result = "OK" => PayloadOf(header) \subseteq good
  /\ pc = "loop" /\ remaining = 0 => seen = PayloadOf(header)

\* An image that passed the checks in RAM passes them again in flash, unless
\* the port fails.
CandidateVerifies == size > 0 => result # "VERIFY"
=============================================================================
