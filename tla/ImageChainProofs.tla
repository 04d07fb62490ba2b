-------------------------- MODULE ImageChainProofs --------------------------
(***************************************************************************)
(* The way of an image to the processor, for every word size, header size, *)
(* alignment and slot layout that meets the assumptions.                   *)
(***************************************************************************)
EXTENDS ImageChain, TLAPS

\* Two multiples of a are at least a apart.
LEMMA MultiplesApart ==
  ASSUME NEW a \in Nat \ {0}, NEW x \in Nat, NEW y \in Nat, x % a = 0, y % a = 0, x < y
  PROVE  x + a <= y
<1> DEFINE p == x \div a
           q == y \div a
<1>1. p \in Nat /\ q \in Nat /\ x = a * p /\ y = a * q
  BY Z3
<1> HIDE DEF p, q
<1>2. p < q
  BY <1>1, Z3
<1>3. q >= p + 1
  BY <1>1, <1>2
<1>4. a * q >= a * (p + 1)
  BY <1>1, <1>3, Z3
<1>5. a * (p + 1) = a * p + a
  BY <1>1, Z3
<1> QED
  BY <1>1, <1>4, <1>5, Z3

\* The sum of two multiples of a is one.
LEMMA SumOfMultiples ==
  ASSUME NEW a \in Nat \ {0}, NEW x \in Nat, NEW y \in Nat, x % a = 0, y % a = 0
  PROVE  (x + y) % a = 0
<1> DEFINE p == x \div a
           q == y \div a
<1>1. p \in Nat /\ q \in Nat /\ x = a * p /\ y = a * q
  BY Z3
<1> HIDE DEF p, q
<1>2. x + y = a * (p + q)
  BY <1>1, Z3
<1>3. \A k \in Nat : (a * k) % a = 0
  BY Z3
<1> QED
  BY <1>1, <1>2, <1>3

\* A slot as a region of numbers.
LEMMA SlotFacts ==
  ASSUME NEW s \in Slot
  PROVE  /\ slots[s] \in Region
         /\ slots[s].address = SlotAddress[s] /\ slots[s].size = SlotSize
         /\ SlotAddress[s] \in Nat /\ SlotSize \in Nat
         /\ SlotAddress[s] + SlotSize < Word /\ (SlotAddress[s] + SlotSize) % Word = SlotAddress[s] + SlotSize
         /\ SlotSize > VectorAlign /\ SlotSize > HeaderBytes
<1>1. SlotAddress[s] \in UInt /\ SlotSize \in UInt /\ SlotAddress[s] + SlotSize < Word
  BY SlotAssumption
<1>2. SlotAddress[s] \in Nat /\ SlotSize \in Nat
  BY <1>1, LayoutAssumption DEF UInt
<1>3. (SlotAddress[s] + SlotSize) % Word = SlotAddress[s] + SlotSize
  <2> DEFINE e == SlotAddress[s] + SlotSize
  <2>1. e \in Nat /\ e < Word /\ Word \in Nat
    BY <1>1, <1>2, LayoutAssumption
  <2> HIDE DEF e
  <2>2. e % Word = e
    BY <2>1, Z3
  <2> QED
    BY <2>2 DEF e
<1>4. SlotSize > VectorAlign /\ SlotSize > HeaderBytes
  BY <1>2, SlotAssumption, AlignAssumption, LayoutAssumption
<1> QED
  BY <1>1, <1>2, <1>3, <1>4 DEF slots, Region

\* No address is in both slots.
LEMMA OneSlot ==
  ASSUME NEW s \in Slot, NEW t \in Slot, NEW x \in Nat,
         SlotAddress[s] <= x, x < SlotAddress[s] + SlotSize,
         SlotAddress[t] <= x, x < SlotAddress[t] + SlotSize
  PROVE  s = t
<1>1. \A u \in Slot : SlotAddress[u] <= x /\ x < SlotAddress[u] + SlotSize => x \in Bytes(slots[u])
  BY SlotFacts DEF Bytes
<1>2. x \in Bytes(slots[s]) /\ x \in Bytes(slots[t])
  BY <1>1
<1> QED
  BY <1>2, SlotAssumption DEF Slot

-----------------------------------------------------------------------------
(***************************************************************************)
(* The invariant.                                                          *)
(***************************************************************************)
\* A packed file is what pack_image.py accepted.
Packed ==
  packedFor # "none" =>
    /\ pc # "build"
    /\ PackerAccepts(slots[packedFor], header.size, header.image, vectors)
    /\ header.known /\ size = header.size + header.image

\* What is past the library's check passes the boot loader's header check.
Installed ==
  pc \in {"installed", "running", "recovery"} => ImageHeaderIsValid(slots[dest], header)

Entered ==
  pc = "running" => JumpAccepts(slots[dest], BootAddress(slots[dest], header), vectors)

Refused ==
  pc = "recovery" => ~JumpAccepts(slots[dest], BootAddress(slots[dest], header), vectors)

Offered == pc = "refused" => ~CandidateIsValid(slots[dest], header, size, TRUE)

ChainInv == TypeOK /\ Packed /\ Installed /\ Entered /\ Refused /\ Offered

\* Every step keeps it.
LEMMA ChainKept == ChainInv /\ [Next]_vars => ChainInv'
<1> SUFFICES ASSUME ChainInv, [Next]_vars PROVE ChainInv'
  OBVIOUS
<1> USE DEF ChainInv, Packed, Installed, Entered, Refused, Offered
<1>1. CASE Pack
  <2>1. PICK target \in Slot, headerSize \in UInt, length \in UInt, v \in Vectors :
          \/ /\ PackerAccepts(slots[target], headerSize, length, v)
             /\ header' = PackedHeader(headerSize, length) /\ vectors' = v
             /\ size' = headerSize + length
             /\ packedFor' = target /\ pc' = "file"
          \/ pc' = "unpacked" /\ UNCHANGED <<header, vectors, size, packedFor>>
    BY <1>1 DEF Pack
  <2>2. pc = "build" /\ dest' = dest
    BY <1>1 DEF Pack
  <2>3. CASE /\ PackerAccepts(slots[target], headerSize, length, v)
             /\ header' = PackedHeader(headerSize, length) /\ vectors' = v
             /\ size' = headerSize + length
             /\ packedFor' = target /\ pc' = "file"
    <3>1. headerSize + length \in UInt
      <4>1. headerSize \in Nat /\ length \in Nat /\ headerSize + length <= SlotSize
        BY <2>3, SlotFacts, LayoutAssumption DEF PackerAccepts, UInt
      <4>2. SlotSize \in 0..(Word - 1)
        BY SlotAssumption DEF UInt
      <4> QED
        BY <4>1, <4>2, LayoutAssumption DEF UInt
    <3>2. /\ header' \in Header /\ header'.known /\ header'.size = headerSize
          /\ header'.image = length
      BY <2>3 DEF PackedHeader, Header
    <3>3. TypeOK'
      BY <2>2, <2>3, <3>1, <3>2 DEF TypeOK
    <3> QED
      BY <2>3, <3>2, <3>3
  <2>4. CASE pc' = "unpacked" /\ UNCHANGED <<header, vectors, size, packedFor>>
    BY <2>2, <2>4 DEF TypeOK
  <2> QED
    BY <2>1, <2>3, <2>4
<1>2. CASE OtherFile
  BY <1>2 DEF OtherFile, TypeOK
<1>3. CASE Install
  <2>1. /\ pc = "file" /\ dest' \in Slot /\ pc' \in {"installed", "refused"}
        /\ UNCHANGED <<header, vectors, size, packedFor>>
        /\ pc' = "installed" => CandidateIsValid(slots[dest'], header, size, TRUE)
        /\ pc' = "refused" => ~CandidateIsValid(slots[dest'], header, size, TRUE)
    BY <1>3 DEF Install
  <2>2. TypeOK'
    BY <2>1 DEF TypeOK
  <2>3. CandidateIsValid(slots[dest'], header, size, TRUE) => ImageHeaderIsValid(slots[dest'], header)
    BY DEF CandidateIsValid
  <2> QED
    BY <2>1, <2>2, <2>3
<1>4. CASE Boot
  <2>1. /\ pc = "installed" /\ pc' \in {"running", "recovery"}
        /\ UNCHANGED <<header, vectors, size, packedFor, dest>>
        /\ pc' = "running" => JumpAccepts(slots[dest], BootAddress(slots[dest], header), vectors)
        /\ pc' = "recovery" => ~JumpAccepts(slots[dest], BootAddress(slots[dest], header), vectors)
    BY <1>4 DEF Boot
  <2>2. TypeOK'
    BY <2>1 DEF TypeOK
  <2> QED
    BY <2>1, <2>2
<1>5. CASE UNCHANGED vars
  BY <1>5 DEF vars, TypeOK
<1> QED
  BY <1>1, <1>2, <1>3, <1>4, <1>5 DEF Next

\* From the packer's input to the processor.
THEOREM ChainInvariance == Spec => []ChainInv
<1>1. Init => ChainInv
  <2> SUFFICES ASSUME Init PROVE ChainInv
    OBVIOUS
  <2>1. 0 \in UInt
    BY LayoutAssumption DEF UInt
  <2>2. TypeOK
    BY <2>1 DEF Init, TypeOK, PackedHeader, Header, Vectors, Slot
  <2> QED
    BY <2>2 DEF Init, ChainInv, Packed, Installed, Entered, Refused, Offered
<1> QED
  BY <1>1, ChainKept, PTL DEF Spec

\* The numbers of a file that was packed for the slot it is installed in.
LEMMA PackedFacts ==
  ASSUME ChainInv, packedFor # "none"
  PROVE  /\ packedFor \in Slot
         /\ header.known /\ header.size \in Nat /\ header.image \in Nat \ {0}
         /\ header.size >= HeaderBytes /\ header.size % WordBytes = 0
         /\ header.size + header.image <= SlotSize
         /\ size = header.size + header.image /\ size < Word
         /\ vectors.stackInRam /\ vectors.thumb /\ vectors.reset \in Nat
         /\ SlotAddress[packedFor] + header.size <= vectors.reset
         /\ vectors.reset < SlotAddress[packedFor] + header.size + header.image
<1>1. packedFor \in Slot /\ header \in Header /\ vectors \in Vectors /\ size \in UInt
  BY DEF ChainInv, TypeOK
<1>2. /\ PackerAccepts(slots[packedFor], header.size, header.image, vectors)
      /\ header.known /\ size = header.size + header.image
  BY DEF ChainInv, Packed
<1>3. /\ slots[packedFor].address = SlotAddress[packedFor] /\ slots[packedFor].size = SlotSize
  BY <1>1, SlotFacts
<1>4. /\ header.size \in Nat /\ header.image \in Nat /\ vectors.reset \in Nat /\ size < Word
  BY <1>1, LayoutAssumption DEF Header, Vectors, UInt
<1>5. header.image # 0
  BY <1>2, <1>4, LayoutAssumption DEF PackerAccepts
<1> QED
  BY <1>1, <1>2, <1>3, <1>4, <1>5 DEF PackerAccepts

\* The reset handler of an image that runs is in the slot it runs in.
LEMMA ResetInSlot ==
  ASSUME ChainInv, pc = "running"
  PROVE  SlotAddress[dest] <= vectors.reset /\ vectors.reset < SlotAddress[dest] + SlotSize
<1>1. dest \in Slot /\ vectors.reset \in Nat
  BY LayoutAssumption DEF ChainInv, TypeOK, Vectors, UInt
<1>2. /\ slots[dest].address = SlotAddress[dest] /\ slots[dest].size = SlotSize
      /\ SlotAddress[dest] \in Nat /\ SlotSize \in Nat /\ SlotSize > VectorAlign
      /\ SlotAddress[dest] + SlotSize < Word
      /\ (SlotAddress[dest] + SlotSize) % Word = SlotAddress[dest] + SlotSize
  BY <1>1, SlotFacts
<1>3. (SlotAddress[dest] + VectorAlign) % Word = SlotAddress[dest] + VectorAlign
  <2> DEFINE x == SlotAddress[dest] + VectorAlign
  <2>1. x \in Nat /\ x < Word
    BY <1>2, LayoutAssumption
  <2> HIDE DEF x
  <2>2. x % Word = x
    BY <2>1, LayoutAssumption, Z3
  <2> QED
    BY <2>2 DEF x
<1>4. /\ vectors.reset >= SlotAddress[dest] + VectorAlign
      /\ vectors.reset < SlotAddress[dest] + SlotSize
  BY <1>2, <1>3 DEF ChainInv, Entered, JumpAccepts
<1> QED
  BY <1>1, <1>2, <1>4, LayoutAssumption

\* The library installs what pack_image.py built for the slot.
THEOREM PackedAlwaysInstalls == Spec => []PackedFileInstalls
<1>1. ChainInv => PackedFileInstalls
  <2> SUFFICES ASSUME ChainInv, packedFor = dest, pc = "refused" PROVE FALSE
    BY DEF PackedFileInstalls
  <2>1. packedFor # "none"
    BY DEF ChainInv, TypeOK, Slot
  <2>2. /\ slots[dest].size = SlotSize /\ SlotSize \in Nat /\ SlotSize > HeaderBytes
    BY <2>1, PackedFacts, SlotFacts
  <2>3. size % Word = size
    BY <2>1, PackedFacts, LayoutAssumption, Z3
  <2>4. HeaderBytes \in Nat
    BY LayoutAssumption
  <2>5. ImageHeaderIsValid(slots[dest], header)
    BY <2>1, <2>2, <2>4, PackedFacts DEF ImageHeaderIsValid
  <2>6. CandidateIsValid(slots[dest], header, size, TRUE)
    BY <2>1, <2>2, <2>3, <2>4, <2>5, PackedFacts DEF CandidateIsValid
  <2> QED
    BY <2>6 DEF ChainInv, Offered
<1> QED
  BY <1>1, ChainInvariance, PTL

\* An image packed for the slot with an aligned header is entered.
THEOREM AlignedAlwaysRuns == Spec => []AlignedFileRuns
<1>1. ChainInv => AlignedFileRuns
  <2> SUFFICES ASSUME ChainInv, packedFor = dest, header.size % VectorAlign = 0, pc = "recovery"
               PROVE  FALSE
    BY DEF AlignedFileRuns
  <2> DEFINE b == SlotAddress[dest] + header.size
             l == SlotAddress[dest] + VectorAlign
  <2>1. packedFor # "none"
    BY DEF ChainInv, TypeOK, Slot
  <2>2. /\ dest \in Slot
        /\ slots[dest].address = SlotAddress[dest] /\ slots[dest].size = SlotSize
        /\ SlotAddress[dest] \in Nat /\ SlotSize \in Nat /\ SlotSize > VectorAlign
        /\ SlotAddress[dest] + SlotSize < Word
        /\ (SlotAddress[dest] + SlotSize) % Word = SlotAddress[dest] + SlotSize
    BY <2>1, PackedFacts, SlotFacts
  <2>3. /\ header.size \in Nat /\ header.image \in Nat \ {0} /\ header.size >= HeaderBytes
        /\ header.size + header.image <= SlotSize
        /\ vectors.stackInRam /\ vectors.thumb /\ vectors.reset \in Nat
        /\ b <= vectors.reset
        /\ vectors.reset < SlotAddress[dest] + header.size + header.image
    BY <2>1, PackedFacts
  <2>4. b \in Nat /\ b < Word /\ l \in Nat /\ l < Word
    BY <2>2, <2>3, LayoutAssumption
  <2>5. b % VectorAlign = 0
    BY <2>2, <2>3, SlotAssumption, LayoutAssumption, SumOfMultiples
  <2>6. header.size >= VectorAlign
    <3>1. 0 % VectorAlign = 0 /\ 0 < header.size
      BY <2>3, LayoutAssumption
    <3> QED
      BY <2>3, <3>1, LayoutAssumption, MultiplesApart
  <2>7. l <= vectors.reset
    BY <2>2, <2>3, <2>6, LayoutAssumption
  <2>8. BootAddress(slots[dest], header) = b % Word
    BY <2>2 DEF BootAddress
  <2> HIDE DEF b
  <2>9. BootAddress(slots[dest], header) = b
    BY <2>4, <2>8, LayoutAssumption, Z3
  <2>10. (slots[dest].address + VectorAlign) % Word = l % Word
    BY <2>2
  <2> HIDE DEF l
  <2>11. l % Word = l
    BY <2>4, LayoutAssumption, Z3
  <2>12. vectors.reset < (slots[dest].address + slots[dest].size) % Word
    BY <2>2, <2>3
  <2>13. JumpAccepts(slots[dest], BootAddress(slots[dest], header), vectors)
    BY <2>3, <2>5, <2>7, <2>9, <2>10, <2>11, <2>12 DEF JumpAccepts
  <2> QED
    BY <2>13 DEF ChainInv, Refused
<1> QED
  BY <1>1, ChainInvariance, PTL

\* An image never runs in a slot it was not linked for.
THEOREM RunsWhereItWasLinked == Spec => []RunsOnlyInItsSlot
<1>1. ChainInv => RunsOnlyInItsSlot
  <2> SUFFICES ASSUME ChainInv, pc = "running", packedFor # "none" PROVE packedFor = dest
    BY DEF RunsOnlyInItsSlot
  <2>1. dest \in Slot /\ packedFor \in Slot /\ vectors.reset \in Nat
    BY PackedFacts DEF ChainInv, TypeOK
  <2>2. SlotAddress[packedFor] <= vectors.reset /\ vectors.reset < SlotAddress[packedFor] + SlotSize
    BY <2>1, PackedFacts, SlotFacts
  <2>3. SlotAddress[dest] <= vectors.reset /\ vectors.reset < SlotAddress[dest] + SlotSize
    BY <2>1, ResetInSlot
  <2> QED
    BY <2>1, <2>2, <2>3, OneSlot
<1> QED
  BY <1>1, ChainInvariance, PTL

\* Whatever is entered has its vector table and its reset handler in the slot.
THEOREM EntryAlwaysInside == Spec => []EntersInsideSlot
<1>1. ChainInv => EntersInsideSlot
  <2> SUFFICES ASSUME ChainInv, pc = "running" PROVE
        /\ BootAddress(slots[dest], header) >= slots[dest].address + HeaderBytes
        /\ \A i \in 0..(2 * WordBytes - 1) :
             BootAddress(slots[dest], header) + i \in Bytes(slots[dest])
        /\ vectors.reset \in Bytes(slots[dest])
    BY DEF EntersInsideSlot
  <2> DEFINE b == SlotAddress[dest] + header.size
             e == SlotAddress[dest] + SlotSize
  <2>1. dest \in Slot /\ header \in Header /\ vectors.reset \in Nat
    BY LayoutAssumption DEF ChainInv, TypeOK, Vectors, UInt
  <2>2. /\ slots[dest].address = SlotAddress[dest] /\ slots[dest].size = SlotSize
        /\ SlotAddress[dest] \in Nat /\ SlotSize \in Nat /\ e < Word
    BY <2>1, SlotFacts
  <2>3. header.size \in Nat /\ header.size >= HeaderBytes /\ header.size < SlotSize
    BY <2>1, <2>2, LayoutAssumption DEF ChainInv, Installed, ImageHeaderIsValid, Header, UInt
  <2>4. b \in Nat /\ e \in Nat /\ b < e /\ b < Word /\ b >= SlotAddress[dest] + HeaderBytes
    BY <2>2, <2>3, LayoutAssumption
  <2>5. BootAddress(slots[dest], header) = b % Word
    BY <2>2 DEF BootAddress
  <2> HIDE DEF b
  <2>6. BootAddress(slots[dest], header) = b
    BY <2>4, <2>5, LayoutAssumption, Z3
  <2>7. b % VectorAlign = 0
    BY <2>6 DEF ChainInv, Entered, JumpAccepts
  <2>8. e % VectorAlign = 0
    BY <2>1, <2>2, SlotAssumption, LayoutAssumption, SumOfMultiples
  <2> HIDE DEF e
  <2>9. b + VectorAlign <= e
    BY <2>4, <2>7, <2>8, LayoutAssumption, MultiplesApart
  <2>10. Bytes(slots[dest]) = SlotAddress[dest]..(e - 1)
    BY <2>2 DEF Bytes, e
  <2>11. \A i \in 0..(2 * WordBytes - 1) : b + i \in SlotAddress[dest]..(e - 1)
    <3> SUFFICES ASSUME NEW i \in 0..(2 * WordBytes - 1)
                 PROVE  b + i \in SlotAddress[dest]..(e - 1)
      OBVIOUS
    <3>1. i \in Nat /\ i < VectorAlign /\ VectorAlign \in Nat /\ HeaderBytes \in Nat
      BY LayoutAssumption, AlignAssumption
    <3> QED
      BY <2>2, <2>4, <2>9, <3>1
  <2>12. vectors.reset \in SlotAddress[dest]..(e - 1)
    BY <2>1, <2>2, <2>4, ResetInSlot DEF e
  <2> QED
    BY <2>2, <2>4, <2>6, <2>10, <2>11, <2>12
<1> QED
  BY <1>1, ChainInvariance, PTL
=============================================================================
