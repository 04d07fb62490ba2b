-------------------------- MODULE ImageCheckProofs --------------------------
(***************************************************************************)
(* The image check for every word size, header size, buffer size, layout   *)
(* and header.                                                             *)
(***************************************************************************)
EXTENDS ImageCheck, TLAPS

-----------------------------------------------------------------------------
(***************************************************************************)
(* Arithmetic.                                                             *)
(***************************************************************************)

\* A sum that stays below the word size does not wrap.
LEMMA NoWrap ==
  ASSUME NEW x \in Nat, x < Word
  PROVE  x % Word = x
BY LayoutAssumption, Z3

\* A range below the word size consists of uint32_t values.
LEMMA RangeInUInt ==
  ASSUME NEW x \in Nat, NEW y \in Nat, y <= Word
  PROVE  x..(y - 1) \subseteq UInt
BY LayoutAssumption DEF UInt

\* Two non-empty ranges share no byte exactly when one ends before the other
\* begins.
LEMMA DisjointRanges ==
  ASSUME NEW a \in Nat, NEW s \in Nat, s > 0, NEW b \in Nat, NEW t \in Nat, t > 0
  PROVE  (a..(a + s - 1)) \cap (b..(b + t - 1)) = {} <=> a + s <= b \/ b + t <= a
<1>1. a + s <= b \/ b + t <= a => (a..(a + s - 1)) \cap (b..(b + t - 1)) = {}
  OBVIOUS
<1>2. CASE a <= b
  <2>1. (b \in a..(a + s - 1) /\ b \in b..(b + t - 1)) \/ a + s <= b
    BY <1>2
  <2> QED
    BY <1>1, <2>1
<1>3. CASE b <= a
  <2>1. (a \in a..(a + s - 1) /\ a \in b..(b + t - 1)) \/ b + t <= a
    BY <1>3
  <2> QED
    BY <1>1, <2>1
<1> QED
  BY <1>2, <1>3

\* Of two ranges that do not reach the last address, the library's overlap
\* test says whether they share a byte.
LEMMA OverlapDecides ==
  ASSUME NEW r \in Region, NEW q \in Region, r.size > 0, q.size > 0,
         r.address + r.size < Word, q.address + q.size < Word
  PROVE  RangesOverlap(r, q) <=> Bytes(r) \cap Bytes(q) # {}
<1>1. /\ r.address \in Nat /\ r.size \in Nat /\ q.address \in Nat /\ q.size \in Nat
  BY LayoutAssumption DEF Region, UInt
<1>2. /\ (r.address + r.size) % Word = r.address + r.size
      /\ (q.address + q.size) % Word = q.address + q.size
  BY <1>1, NoWrap
<1>3. Bytes(r) \cap Bytes(q) = {} <=>
        r.address + r.size <= q.address \/ q.address + q.size <= r.address
  BY <1>1, DisjointRanges DEF Bytes
<1> QED
  BY <1>1, <1>2, <1>3 DEF RangesOverlap

\* The range test is the absence of wrap-around, one address short of the top.
LEMMA RangeDecides ==
  ASSUME NEW r \in Region
  PROVE  RangeIsValid(r) <=> r.size > 0 /\ r.address + r.size < Word
BY LayoutAssumption DEF RangeIsValid, Region, UInt

\* iap_init accepts a layout exactly when it is sound.
LEMMA InitAcceptsSound ==
  ASSUME slots \in [Slot -> Region], controlAddress \in UInt
  PROVE  InitAccepts(slots["A"], slots["B"], controlAddress) <=> LayoutSound
<1> DEFINE a == slots["A"]
           b == slots["B"]
           c == ControlRegion
<1>1. a \in Region /\ b \in Region /\ c \in Region /\ c.size > 0
      /\ c = [address |-> controlAddress, size |-> ControlBytes]
  BY LayoutAssumption DEF Slot, Region, UInt, ControlRegion
<1>2. HeaderBytes \in Nat /\ \A r \in Region : r.size \in Nat
  BY LayoutAssumption DEF Region, UInt
<1>3. \A r \in {a, b, c} : RangeIsValid(r) <=> r.size > 0 /\ r.address + r.size < Word
  BY <1>1, RangeDecides
<1> DEFINE Roomy == a.size > HeaderBytes /\ b.size > HeaderBytes
           Fits == \A r \in {a, b, c} : r.address + r.size < Word
           Apart == /\ Bytes(a) \cap Bytes(b) = {} /\ Bytes(a) \cap Bytes(c) = {}
                    /\ Bytes(b) \cap Bytes(c) = {}
<1>4. LayoutSound <=> Roomy /\ Fits /\ Apart
  BY DEF LayoutSound, Slot
<1> HIDE DEF c
<1>5. Roomy => a.size > 0 /\ b.size > 0
  BY <1>1, <1>2
<1>6. ASSUME Roomy, Fits
      PROVE  ~RangesOverlap(a, b) /\ ~RangesOverlap(a, c) /\ ~RangesOverlap(b, c) <=> Apart
  <2>1. RangesOverlap(a, b) <=> Bytes(a) \cap Bytes(b) # {}
    BY <1>1, <1>5, <1>6, OverlapDecides
  <2>2. RangesOverlap(a, c) <=> Bytes(a) \cap Bytes(c) # {}
    BY <1>1, <1>5, <1>6, OverlapDecides
  <2>3. RangesOverlap(b, c) <=> Bytes(b) \cap Bytes(c) # {}
    BY <1>1, <1>5, <1>6, OverlapDecides
  <2> QED
    BY <2>1, <2>2, <2>3
<1>7. InitAccepts(a, b, controlAddress) <=>
        /\ Roomy
        /\ RangeIsValid(a) /\ RangeIsValid(b) /\ RangeIsValid(c)
        /\ ~RangesOverlap(a, b) /\ ~RangesOverlap(a, c) /\ ~RangesOverlap(b, c)
  BY <1>1 DEF InitAccepts
<1>8. Roomy => ((RangeIsValid(a) /\ RangeIsValid(b) /\ RangeIsValid(c)) <=> Fits)
  BY <1>1, <1>3, <1>5
<1> QED
  BY <1>4, <1>6, <1>7, <1>8

\* A valid header announces a payload inside its slot; in a sound layout no
\* address of it wraps.
LEMMA PayloadInside ==
  ASSUME NEW desc \in Region, NEW h \in Header, ImageHeaderIsValid(desc, h),
         desc.address + desc.size < Word
  PROVE  /\ h.size \in Nat /\ h.image \in Nat \ {0} /\ HeaderBytes <= h.size
         /\ h.size + h.image <= desc.size /\ h.size + h.image < Word
         /\ (h.size + h.image) % Word = h.size + h.image
<1>1. /\ h.size \in Nat /\ h.image \in Nat \ {0} /\ HeaderBytes <= h.size
      /\ h.size + h.image <= desc.size /\ h.size + h.image < Word
  BY LayoutAssumption DEF ImageHeaderIsValid, Header, Region, UInt
<1> QED
  BY <1>1, NoWrap

-----------------------------------------------------------------------------
(***************************************************************************)
(* The invariant.                                                          *)
(***************************************************************************)
Waiting == pc \in {"init", "ready", "refused"} =>
             size = 0 /\ access = NoAccess /\ result = "NONE"

Underway == pc # "done" => result = "NONE"

Installing ==
  size > 0 =>
    /\ pc \notin {"init", "ready", "refused"}
    /\ ImageHeaderIsValid(slots[where], header)
    /\ size = header.size + header.image
    /\ pc \in {"header", "loop"} => good = 0..(size - 1)

Looping ==
  pc = "loop" =>
    /\ ImageHeaderIsValid(slots[where], header)
    /\ offset >= header.size /\ offset + remaining = header.size + header.image
    /\ seen = header.size..(offset - 1)

\* Nothing has gone into the CRC before the loop.
Fresh == pc \notin {"loop", "done"} => seen = {}

CheckInv ==
  /\ TypeOK /\ InitDecides /\ Waiting /\ Underway /\ Installing /\ Looping /\ Fresh
  /\ StaysInSlot /\ VerdictCoversPayload /\ CandidateVerifies

\* In a sound context a slot is a region that does not wrap.
LEMMA SlotFacts ==
  ASSUME CheckInv, pc \notin {"init", "refused"}, NEW s \in Slot
  PROVE  /\ slots[s] \in Region /\ slots[s].address \in Nat /\ slots[s].size \in Nat
         /\ slots[s].size > HeaderBytes /\ slots[s].address + slots[s].size < Word
BY LayoutAssumption DEF CheckInv, TypeOK, InitDecides, LayoutSound, Slot, Region, UInt

\* An access of a region inside a slot is an access inside the slot.
LEMMA AccessKept ==
  ASSUME NEW desc \in Region, NEW r \in Region, Performs(r),
         r.address >= desc.address, r.address + r.size <= desc.address + desc.size
  PROVE  /\ access' \in Region
         /\ access'.size > 0 => Bytes(access') \subseteq Bytes(desc)
<1>1. access' = r
  BY DEF Performs
<1>2. r.address \in Nat /\ r.size \in Nat /\ desc.address \in Nat /\ desc.size \in Nat
  BY LayoutAssumption DEF Region, UInt
<1> QED
  BY <1>1, <1>2 DEF Bytes

\* Returning a verdict that fits what was read keeps the invariant.
LEMMA ReturnKeeps ==
  ASSUME CheckInv, pc \notin {"init", "ready", "refused"}, NEW st \in Results, Return(st),
         UNCHANGED context, access' \in Region,
         access'.size > 0 => Bytes(access') \subseteq Bytes(slots[where]),
         st = "OK" => PayloadOf(header) \subseteq good,
         size > 0 => st # "VERIFY"
  PROVE  CheckInv'
<1>1. /\ UNCHANGED <<where, header, size, good, remaining, offset, seen>>
      /\ UNCHANGED <<slots, controlAddress, memorySize>>
      /\ pc' = "done" /\ result' = st
  BY DEF Return, context
<1>2. TypeOK'
  BY <1>1 DEF CheckInv, TypeOK
<1>3. InitDecides' /\ Waiting' /\ Underway' /\ Installing' /\ Looping' /\ Fresh'
  BY <1>1 DEF CheckInv, InitDecides, LayoutSound, ControlRegion, Waiting, Underway, Installing,
              Looping, Fresh
<1>4. StaysInSlot' /\ VerdictCoversPayload' /\ CandidateVerifies'
  BY <1>1 DEF StaysInSlot, VerdictCoversPayload, CandidateVerifies, PayloadOf
<1> QED
  BY <1>2, <1>3, <1>4 DEF CheckInv

\* A refusal or a failure of the port leaves the last access as it was.
LEMMA PortFailsKeeps ==
  ASSUME CheckInv, pc \notin {"init", "ready", "refused"}, NEW r, PortFails(r), UNCHANGED context
  PROVE  CheckInv'
<1>1. /\ access' = access /\ access \in Region
      /\ access.size > 0 => Bytes(access) \subseteq Bytes(slots[where])
  BY DEF PortFails, CheckInv, TypeOK, StaysInSlot
<1>2. CASE Return("INVALID_ARG")
  BY <1>1, <1>2, ReturnKeeps DEF Results
<1>3. CASE Return("STORAGE")
  BY <1>1, <1>3, ReturnKeeps DEF Results
<1> QED
  BY <1>2, <1>3 DEF PortFails

-----------------------------------------------------------------------------
\* iap_init, and the two calls that begin.
LEMMA BeginKeeps ==
  ASSUME CheckInv, InitContext \/ BeginVerify \/ BeginInstall
  PROVE  CheckInv'
<1> USE DEF CheckInv, InitDecides, LayoutSound, ControlRegion, Waiting, Underway, Installing,
            Looping, Fresh, StaysInSlot, VerdictCoversPayload, CandidateVerifies,
            PayloadOf, context
<1>0. NoAccess.size = 0
  BY DEF NoAccess
<1>1. CASE InitContext
  <2>1. InitAccepts(slots["A"], slots["B"], controlAddress) <=> LayoutSound
    BY InitAcceptsSound DEF TypeOK
  <2>2. TypeOK'
    BY <1>1 DEF InitContext, TypeOK
  <2> QED
    BY <1>0, <1>1, <2>1, <2>2 DEF InitContext
<1>2. CASE BeginVerify
  <2>1. TypeOK'
    BY <1>2 DEF BeginVerify, TypeOK
  <2> QED
    BY <1>0, <1>2, <2>1 DEF BeginVerify
<1>3. CASE BeginInstall
  <2>1. PICK h \in Header, n \in UInt, intact \in BOOLEAN :
          \/ /\ CandidateIsValid(slots[where'], h, n, intact)
             /\ header' = h /\ size' = n /\ pc' = "erase" /\ UNCHANGED result
          \/ /\ ~CandidateIsValid(slots[where'], h, n, intact)
             /\ pc' = "done" /\ UNCHANGED <<header, size>>
             /\ result' \in {"INVALID_ARG", "VERIFY"}
    BY <1>3 DEF BeginInstall
  <2>2. /\ pc = "ready" /\ where' \in Slot
        /\ UNCHANGED <<slots, controlAddress, memorySize, good, remaining, offset, seen, access>>
    BY <1>3 DEF BeginInstall
  <2>3. CASE /\ CandidateIsValid(slots[where'], h, n, intact)
             /\ header' = h /\ size' = n /\ pc' = "erase" /\ UNCHANGED result
    <3>1. ImageHeaderIsValid(slots[where'], h) /\ n = (h.size + h.image) % Word
      BY <2>3 DEF CandidateIsValid
    <3>2. n = h.size + h.image
      BY <2>2, <3>1, SlotFacts, PayloadInside
    <3>3. TypeOK'
      BY <2>2, <2>3 DEF TypeOK
    <3> QED
      BY <1>0, <2>2, <2>3, <3>1, <3>2, <3>3
  <2>4. CASE /\ pc' = "done" /\ UNCHANGED <<header, size>>
             /\ result' \in {"INVALID_ARG", "VERIFY"}
    <3>1. TypeOK'
      BY <2>2, <2>4 DEF TypeOK, Results
    <3> QED
      BY <1>0, <2>2, <2>4, <3>1
  <2> QED
    BY <2>1, <2>3, <2>4
<1> QED
  BY <1>1, <1>2, <1>3

\* The erase and the write of an accepted candidate.
LEMMA InstallKeeps ==
  ASSUME CheckInv, Erase \/ Write
  PROVE  CheckInv'
<1>1. pc \in {"erase", "write"} /\ where \in Slot /\ header \in Header /\ size \in Nat
  BY LayoutAssumption DEF Erase, Write, CheckInv, TypeOK, UInt
<1>2. /\ slots[where] \in Region /\ slots[where].address \in Nat /\ slots[where].size \in Nat
      /\ slots[where].size > HeaderBytes /\ slots[where].address + slots[where].size < Word
  BY <1>1, SlotFacts
<1>3. size > 0 => /\ size = header.size + header.image /\ size <= slots[where].size
                  /\ ImageHeaderIsValid(slots[where], header)
  BY <1>1, <1>2, PayloadInside DEF CheckInv, Installing
<1>4. CASE Erase /\ Performs(slots[where])
           /\ pc' = "write"
           /\ UNCHANGED <<context, where, header, size, good, remaining, offset, seen, result>>
  <2>1. /\ access' \in Region
        /\ access'.size > 0 => Bytes(access') \subseteq Bytes(slots[where])
    BY <1>1, <1>2, <1>4, AccessKept
  <2> QED
    BY <1>1, <1>3, <1>4, <2>1
    DEF CheckInv, TypeOK, InitDecides, LayoutSound, ControlRegion, Waiting, Underway, Installing,
        Looping, Fresh, StaysInSlot, VerdictCoversPayload, CandidateVerifies, PayloadOf,
        context
<1>5. CASE Write
  <2> DEFINE r == [address |-> slots[where].address, size |-> size]
  <2>1. CASE Performs(r) /\ pc' = "header" /\ good' = 0..(size - 1)
             /\ UNCHANGED <<context, where, header, size, remaining, offset, seen, result>>
    <3>1. size <= slots[where].size /\ size < Word
      BY <1>1, <1>2, <1>3, LayoutAssumption
    <3>2. r \in Region /\ r.address = slots[where].address /\ r.size = size
      BY <1>1, <1>2, <3>1, LayoutAssumption DEF Region, UInt
    <3> HIDE DEF r
    <3>3. /\ access' \in Region
          /\ access'.size > 0 => Bytes(access') \subseteq Bytes(slots[where])
      <4>1. /\ r.address >= slots[where].address
            /\ r.address + r.size <= slots[where].address + slots[where].size
        BY <1>1, <1>2, <3>1, <3>2
      <4>2. Performs(r)
        BY <2>1
      <4> QED
        BY <1>1, <1>2, <3>2, <4>1, <4>2, AccessKept
    <3>4. good' \subseteq UInt
      <4>1. good' = 0..(size - 1) /\ 0 \in Nat /\ size \in Nat /\ size <= Word
        BY <1>1, <2>1, <3>1, LayoutAssumption
      <4> QED
        BY <4>1, RangeInUInt, Zenon
    <3> QED
      BY <1>1, <1>3, <1>5, <2>1, <3>3, <3>4
      DEF Write, CheckInv, TypeOK, InitDecides, LayoutSound, ControlRegion, Waiting, Underway,
          Installing, Looping, Fresh, StaysInSlot, VerdictCoversPayload,
          CandidateVerifies, PayloadOf, context
  <2> QED
    BY <1>1, <1>5, <2>1, PortFailsKeeps DEF Write
<1> QED
  BY <1>1, <1>4, <1>5, PortFailsKeeps DEF Erase

\* Reading the header, and starting the loop over its payload.
LEMMA ReadHeaderKeeps ==
  ASSUME CheckInv, ReadHeader
  PROVE  CheckInv'
<1> DEFINE r == [address |-> slots[where].address, size |-> HeaderBytes]
<1>1. pc = "header" /\ where \in Slot /\ header \in Header /\ size \in Nat
      /\ UNCHANGED context
  BY LayoutAssumption DEF ReadHeader, CheckInv, TypeOK, UInt
<1>2. /\ slots[where] \in Region /\ slots[where].address \in Nat /\ slots[where].size \in Nat
      /\ slots[where].size > HeaderBytes /\ slots[where].address + slots[where].size < Word
  BY <1>1, SlotFacts
<1>3. r \in Region /\ r.address = slots[where].address /\ r.size = HeaderBytes
  BY <1>2, LayoutAssumption DEF Region, UInt
<1>r. ReadHeader => \/ PortFails(r)
                    \/ /\ Performs(r) /\ Return("VERIFY")
                       /\ size # 0 => ~ImageHeaderIsValid(slots[where], header)
                    \/ /\ Performs(r) /\ Content
                       /\ ImageHeaderIsValid(slots[where], header')
                       /\ remaining' = header'.image /\ offset' = header'.size
                       /\ pc' = "loop"
                       /\ UNCHANGED <<where, size, seen, result>>
  BY DEF ReadHeader
<1> HIDE DEF r
<1>4. Performs(r) =>
        /\ access' \in Region
        /\ access'.size > 0 => Bytes(access') \subseteq Bytes(slots[where])
  <2>1. /\ r.address >= slots[where].address
        /\ r.address + r.size <= slots[where].address + slots[where].size
    BY <1>2, <1>3, LayoutAssumption
  <2> QED
    BY <1>1, <1>2, <1>3, <2>1, AccessKept
<1>5. CASE /\ Performs(r) /\ Content
           /\ ImageHeaderIsValid(slots[where], header')
           /\ remaining' = header'.image /\ offset' = header'.size
           /\ pc' = "loop"
           /\ UNCHANGED <<where, size, seen, result>>
  <2>1. header' \in Header /\ good' \subseteq UInt
        /\ (size > 0 => header' = header /\ good' = good)
    <3>1. CASE size = 0
      BY <1>5, <3>1 DEF Content
    <3>2. CASE size # 0
      <4>1. header' = header /\ good' = good
        BY <1>5, <3>2 DEF Content
      <4> QED
        BY <1>1, <4>1 DEF CheckInv, TypeOK
    <3> QED
      BY <3>1, <3>2, <1>1
  <2>2. /\ header'.size \in Nat /\ header'.image \in Nat \ {0} /\ header'.size < Word
        /\ header'.image < Word
    BY <1>2, <1>5, <2>1, PayloadInside, LayoutAssumption DEF Header, UInt
  <2>3. seen = {}
    BY <1>1 DEF CheckInv, Fresh
  <2>4. seen' = header'.size..(offset' - 1)
    BY <1>5, <2>2, <2>3
  <2>5. TypeOK'
    <3>1. remaining' \in UInt /\ offset' \in UInt
      BY <1>5, <2>2, LayoutAssumption DEF UInt
    <3> QED
      BY <1>1, <1>4, <1>5, <2>1, <3>1 DEF CheckInv, TypeOK, context
  <2>6. /\ InitDecides' /\ Waiting' /\ Underway' /\ Installing' /\ Looping' /\ Fresh'
    BY <1>1, <1>5, <2>1, <2>2, <2>4
    DEF CheckInv, InitDecides, LayoutSound, ControlRegion, Waiting, Underway, Installing,
        Looping, Fresh, context
  <2>7. /\ StaysInSlot' /\ VerdictCoversPayload' /\ CandidateVerifies'
    BY <1>1, <1>4, <1>5, <2>2
    DEF CheckInv, Underway, StaysInSlot, VerdictCoversPayload,
        CandidateVerifies, PayloadOf, context
  <2> QED
    BY <2>5, <2>6, <2>7 DEF CheckInv
<1>6. CASE /\ Performs(r) /\ Return("VERIFY")
           /\ size # 0 => ~ImageHeaderIsValid(slots[where], header)
  <2>1. size = 0
    BY <1>1, <1>6 DEF CheckInv, Installing
  <2> QED
    BY <1>1, <1>4, <1>6, <2>1, ReturnKeeps DEF Results
<1> QED
  BY <1>1, <1>5, <1>6, <1>r, PortFailsKeeps

\* One turn of the loop.
LEMMA ReadChunkKeeps ==
  ASSUME CheckInv, ReadChunk
  PROVE  CheckInv'
<1> DEFINE r == [address |-> (slots[where].address + offset) % Word, size |-> Chunk]
<1>1. /\ pc = "loop" /\ remaining > 0 /\ where \in Slot /\ header \in Header /\ size \in Nat
      /\ UNCHANGED context
      /\ remaining \in Nat /\ offset \in Nat
  BY LayoutAssumption DEF ReadChunk, CheckInv, TypeOK, UInt
<1>2. /\ slots[where] \in Region /\ slots[where].address \in Nat /\ slots[where].size \in Nat
      /\ slots[where].size > HeaderBytes /\ slots[where].address + slots[where].size < Word
  BY <1>1, SlotFacts
<1>3. /\ header.size \in Nat /\ header.image \in Nat
      /\ header.size + header.image <= slots[where].size
      /\ header.size + header.image < Word
  BY <1>1, <1>2, PayloadInside DEF CheckInv, Looping
<1>4. /\ offset >= header.size /\ offset + remaining = header.size + header.image
      /\ seen = header.size..(offset - 1) /\ ImageHeaderIsValid(slots[where], header)
  BY <1>1 DEF CheckInv, Looping
<1>5. Chunk \in Nat /\ Chunk > 0 /\ Chunk <= remaining
  BY <1>1, ChunkAssumption DEF Chunk
<1>9. slots[where].address + offset \in Nat /\ slots[where].address + offset < Word
  <2>1. offset <= slots[where].size
    BY <1>1, <1>2, <1>3, <1>4
  <2> QED
    BY <1>1, <1>2, <2>1, LayoutAssumption
<1>6. (slots[where].address + offset) % Word = slots[where].address + offset
  BY <1>9, NoWrap
<1>7. r \in Region /\ r.address = slots[where].address + offset /\ r.size = Chunk
  <2>1. slots[where].address + offset \in UInt /\ Chunk \in UInt
    <3>1. Chunk < Word
      BY <1>1, <1>3, <1>4, <1>5, LayoutAssumption
    <3> QED
      BY <1>5, <1>9, <3>1, LayoutAssumption DEF UInt
  <2> QED
    BY <1>6, <2>1 DEF Region
<1>r. ReadChunk => \/ PortFails(r)
                   \/ /\ Performs(r)
                      /\ seen' = seen \cup offset..(offset + Chunk - 1)
                      /\ remaining' = remaining - Chunk /\ offset' = (offset + Chunk) % Word
                      /\ UNCHANGED <<pc, where, header, size, good, result>>
  BY DEF ReadChunk
<1> HIDE DEF r
<1>8. CASE /\ Performs(r)
           /\ seen' = seen \cup offset..(offset + Chunk - 1)
           /\ remaining' = remaining - Chunk /\ offset' = (offset + Chunk) % Word
           /\ UNCHANGED <<pc, where, header, size, good, result>>
  <2>1. /\ access' \in Region
        /\ access'.size > 0 => Bytes(access') \subseteq Bytes(slots[where])
    <3>1. /\ r.address >= slots[where].address
          /\ r.address + r.size <= slots[where].address + slots[where].size
      BY <1>1, <1>2, <1>3, <1>4, <1>5, <1>7
    <3> QED
      BY <1>1, <1>2, <1>7, <1>8, <3>1, AccessKept
  <2>2. offset + Chunk \in Nat /\ offset + Chunk < Word
    BY <1>1, <1>3, <1>4, <1>5, LayoutAssumption
  <2>3. offset' = offset + Chunk
    BY <1>8, <2>2, NoWrap
  <2>4. seen' = header.size..(offset' - 1)
    BY <1>1, <1>3, <1>4, <1>5, <1>8, <2>3
  <2>5. remaining' \in UInt /\ offset' \in UInt /\ seen' \subseteq UInt
    <3>1. remaining - Chunk \in UInt /\ offset + Chunk \in UInt
      <4>1. remaining - Chunk \in Nat /\ remaining - Chunk < Word
        BY <1>1, <1>3, <1>4, <1>5, LayoutAssumption
      <4> QED
        BY <2>2, <4>1, LayoutAssumption DEF UInt
    <3>2. header.size \in Nat /\ offset' \in Nat /\ offset' <= Word
      BY <1>3, <2>2, <2>3, LayoutAssumption
    <3>3. header.size..(offset' - 1) \subseteq UInt
      BY <3>2, RangeInUInt
    <3> QED
      BY <1>8, <2>3, <2>4, <3>1, <3>3
  <2>6. /\ offset' >= header.size /\ offset' + remaining' = header.size + header.image
        /\ remaining' = 0 => seen' = PayloadOf(header)
    BY <1>1, <1>3, <1>4, <1>5, <1>8, <2>3, <2>4 DEF PayloadOf
  <2>7. TypeOK'
    BY <1>1, <1>8, <2>1, <2>5 DEF CheckInv, TypeOK, context
  <2>8. /\ InitDecides' /\ Waiting' /\ Underway' /\ Installing' /\ Looping' /\ Fresh'
    BY <1>1, <1>4, <1>8, <2>4, <2>6
    DEF CheckInv, InitDecides, LayoutSound, ControlRegion, Waiting, Underway, Installing,
        Looping, Fresh, context
  <2>9. /\ StaysInSlot' /\ VerdictCoversPayload' /\ CandidateVerifies'
    BY <1>1, <1>8, <2>1, <2>6
    DEF CheckInv, StaysInSlot, VerdictCoversPayload, CandidateVerifies,
        PayloadOf, context
  <2> QED
    BY <2>7, <2>8, <2>9 DEF CheckInv
<1> QED
  BY <1>1, <1>8, <1>r, PortFailsKeeps

\* The comparison: by then the whole payload has been seen.
LEMMA CompareKeeps ==
  ASSUME CheckInv, Compare
  PROVE  CheckInv'
<1>1. /\ pc = "loop" /\ remaining = 0 /\ UNCHANGED context /\ access' = access
      /\ where \in Slot /\ header \in Header /\ seen = PayloadOf(header)
  BY DEF Compare, CheckInv, TypeOK, VerdictCoversPayload
<1>2. /\ header.size \in Nat /\ header.image \in Nat
  BY <1>1, SlotFacts, PayloadInside DEF CheckInv, Looping
<1>3. size > 0 => seen \subseteq good
  BY <1>1, <1>2 DEF CheckInv, Installing, PayloadOf
<1>4. Return(IF seen \subseteq good THEN "OK" ELSE "VERIFY")
  BY DEF Compare
<1>5. /\ access' \in Region
      /\ access'.size > 0 => Bytes(access') \subseteq Bytes(slots[where])
  BY <1>1 DEF CheckInv, TypeOK, StaysInSlot
<1>6. CASE seen \subseteq good
  BY <1>1, <1>4, <1>5, <1>6, ReturnKeeps DEF Results
<1>7. CASE ~(seen \subseteq good)
  <2>1. size \in Nat /\ ~(size > 0)
    BY <1>3, <1>7, LayoutAssumption DEF CheckInv, TypeOK, UInt
  <2> QED
    BY <1>1, <1>4, <1>5, <1>7, <2>1, ReturnKeeps DEF Results
<1> QED
  BY <1>6, <1>7

-----------------------------------------------------------------------------
\* Before anything is called, and after every call of the port.
THEOREM CheckInvariance == Spec => []CheckInv
<1>1. Init => CheckInv
  <2> SUFFICES ASSUME Init PROVE CheckInv
    OBVIOUS
  <2>1. NoHeader \in Header /\ NoAccess \in Region /\ NoAccess.size = 0
    BY LayoutAssumption DEF NoHeader, NoAccess, Header, Region, UInt
  <2>2. TypeOK
    BY <2>1, LayoutAssumption, MemoryAssumption DEF Init, TypeOK, Slot, Results, UInt
  <2> QED
    BY <2>1, <2>2
    DEF Init, CheckInv, InitDecides, Waiting, Underway, Installing, Looping, Fresh, StaysInSlot,
        VerdictCoversPayload, CandidateVerifies
<1>2. CheckInv /\ [Next]_vars => CheckInv'
  <2> SUFFICES ASSUME CheckInv, [Next]_vars PROVE CheckInv'
    OBVIOUS
  <2>1. CASE UNCHANGED vars
    BY <2>1
    DEF vars, context, CheckInv, TypeOK, InitDecides, LayoutSound, ControlRegion, Waiting,
        Underway, Installing, Looping, Fresh, StaysInSlot,
        VerdictCoversPayload, CandidateVerifies, PayloadOf
  <2> QED
    BY <2>1, BeginKeeps, InstallKeeps, ReadHeaderKeeps, ReadChunkKeeps, CompareKeeps DEF Next
<1> QED
  BY <1>1, <1>2, PTL DEF Spec

\* iap_init accepts exactly the layouts without overlap or wrap-around.
THEOREM InitAlwaysDecides == Spec => []InitDecides
BY CheckInvariance, PTL DEF CheckInv

\* No access of the library leaves the slot it is about, whatever the header.
THEOREM AccessStaysInSlot == Spec => []StaysInSlot
BY CheckInvariance, PTL DEF CheckInv

\* An image that verifies is intact over its whole payload.
THEOREM VerdictIsAboutPayload == Spec => []VerdictCoversPayload
BY CheckInvariance, PTL DEF CheckInv

\* What the checks in RAM accept, the checks in flash accept.
THEOREM AcceptedCandidateVerifies == Spec => []CandidateVerifies
BY CheckInvariance, PTL DEF CheckInv
=============================================================================
