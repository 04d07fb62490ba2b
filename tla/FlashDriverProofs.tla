------------------------- MODULE FlashDriverProofs -------------------------
(***************************************************************************)
(* The guards of the STM32F407 storage port, for every flash layout of the *)
(* kind stm32_iap_config.h describes, and every call.                      *)
(***************************************************************************)
EXTENDS FlashDriver, TLAPS

\* The numbers of the layout.
LEMMA Layout ==
  /\ Word \in Nat \ {0} /\ WordBytes \in Nat /\ WordBytes > 2
  /\ ControlBytes \in Nat /\ ControlBytes > WordBytes
  /\ FlashBase \in Nat /\ FlashEnd \in Nat /\ FlashEnd < Word
  /\ Bootloader.address \in Nat /\ Bootloader.size \in Nat /\ Bootloader.size > 0
  /\ SlotA.address \in Nat /\ SlotA.size \in Nat /\ SlotA.size > WordBytes
  /\ SlotB.address \in Nat /\ SlotB.size = SlotA.size
  /\ ControlArea.address \in Nat /\ ControlArea.size \in Nat /\ ControlA = ControlArea.address
  /\ FlashBase <= Bootloader.address /\ Bootloader.address + Bootloader.size <= SlotA.address
  /\ FlashBase <= SlotA.address
  /\ SlotA.address + SlotA.size <= SlotB.address
  /\ SlotB.address + SlotB.size <= ControlArea.address
  /\ ControlArea.address + ControlArea.size <= FlashEnd
BY ConfigAssumption DEF Region, UInt

\* A slot, the boot loader below it, the other slot and the control beside it.
LEMMA SlotBounds ==
  ASSUME NEW s \in Slot
  PROVE  /\ Of(s) \in Region /\ Of(s).address \in Nat /\ Of(s).size = SlotA.size
         /\ FlashBase <= Of(s).address /\ Of(s).address + SlotA.size <= FlashEnd
         /\ Bytes(Of(s)) \subseteq FlashBase..(FlashEnd - 1)
         /\ Bytes(Of(s)) \cap Bytes(Bootloader) = {}
         /\ Bytes(Of(s)) \cap Bytes(ControlArea) = {}
         /\ \A t \in Slot : t # s => Bytes(Of(s)) \cap Bytes(Of(t)) = {}
<1>1. CASE s = "A"
  BY <1>1, Layout, ConfigAssumption DEF Of, Slot, Bytes
<1>2. CASE s = "B"
  BY <1>2, Layout, ConfigAssumption DEF Of, Slot, Bytes
<1> QED
  BY <1>1, <1>2 DEF Slot

\* The journal shares no byte with the boot loader.
LEMMA ControlBounds ==
  /\ Bytes(ControlArea) \subseteq FlashBase..(FlashEnd - 1)
  /\ Bytes(ControlArea) \cap Bytes(Bootloader) = {}
BY Layout DEF Bytes

\* A range that range_is_slot accepts consists of bytes of the slot.
LEMMA InSlot ==
  ASSUME NEW r \in Region, NEW s \in SlotOf(r)
  PROVE  /\ s \in Slot /\ r.size > 0 /\ r.address \in Nat /\ r.size \in Nat
         /\ r.address >= Of(s).address /\ r.address + r.size <= Of(s).address + Of(s).size
         /\ Bytes(r) \subseteq Bytes(Of(s))
<1>1. /\ s \in Slot /\ r.size > 0 /\ r.address >= Of(s).address
      /\ r.address + r.size <= Of(s).address + Of(s).size
  BY DEF SlotOf, RangeIsWithin
<1>2. r.address \in Nat /\ r.size \in Nat /\ Of(s).address \in Nat /\ Of(s).size \in Nat
  BY <1>1, SlotBounds, Layout DEF Region, UInt
<1> QED
  BY <1>1, <1>2 DEF Bytes

-----------------------------------------------------------------------------
(***************************************************************************)
(* The invariant.                                                          *)
(***************************************************************************)
Testing == step \in 1..6 => protected \in Slot /\ ~failRead

DriverInv ==
  /\ TypeOK /\ ProtectedUntouched /\ ChangesOnlyNamed /\ ServesLibrary
  /\ Testing /\ BoundaryTestPasses

\* What a call may do.
CallSound ==
  /\ call' \in [op : Operation, r : Region]
  /\ changed' \subseteq FlashBase..(FlashEnd - 1)
  /\ result' \in {"NONE", "OK", "INVALID_ARG", "STORAGE"}
  /\ failRead' \in BOOLEAN /\ failWrite' \in BOOLEAN
  /\ changed' \cap Bytes(Bootloader) = {}
  /\ protected \in Slot => changed' \cap Bytes(Of(protected)) = {}
  /\ changed' \subseteq Bytes(call'.r) \cup (IF call'.op = "write" /\ IsControlWrite(call'.r)
                                             THEN Bytes(ControlArea) ELSE {})
  /\ LibraryAsks(call'.op, call'.r) => result' # "INVALID_ARG"
  /\ ~failRead => ~failRead'

\* Bytes of a slot that is not the protected one.
LEMMA SlotChange ==
  ASSUME NEW s \in Slot, protected # s, NEW c, c \subseteq Bytes(Of(s))
  PROVE  /\ c \subseteq FlashBase..(FlashEnd - 1)
         /\ c \cap Bytes(Bootloader) = {}
         /\ protected \in Slot => c \cap Bytes(Of(protected)) = {}
BY SlotBounds

\* A read changes nothing and refuses nothing the library asks for.
LEMMA ReadSound ==
  ASSUME TypeOK, NEW r \in Region, Read(r), call' = [op |-> "read", r |-> r]
  PROVE  CallSound
<1>1. /\ call'.op = "read" /\ call'.r = r /\ call' \in [op : Operation, r : Region]
      /\ changed' = {}
  BY DEF Operation, Read
<1>2. /\ result' \in {"OK", "INVALID_ARG", "STORAGE"}
      /\ failRead' \in BOOLEAN /\ failWrite' \in BOOLEAN /\ (~failRead => ~failRead')
  <2>1. \/ result' = "INVALID_ARG" /\ failRead' = failRead
        \/ failRead' = FALSE /\ result' = "STORAGE"
        \/ result' = "OK" /\ failRead' = failRead
    BY DEF Read, Returns
  <2>2. failWrite' = failWrite
    BY DEF Read
  <2>3. failRead \in BOOLEAN /\ failWrite \in BOOLEAN
    BY DEF TypeOK
  <2>4. failRead' \in BOOLEAN /\ failWrite' \in BOOLEAN
    BY <2>1, <2>2, <2>3, Zenon
  <2>5. ~failRead => ~failRead'
    BY <2>1, Zenon
  <2>6. result' \in {"OK", "INVALID_ARG", "STORAGE"}
    BY <2>1, Zenon
  <2> QED
    BY <2>4, <2>5, <2>6, Zenon
<1>3. ASSUME LibraryAsks("read", r)
      PROVE  result' # "INVALID_ARG"
  <2>1. r.address \in Nat /\ r.size \in Nat
    BY Layout DEF Region, UInt
  <2>2. r.size > 0 /\ ReadPerformed(r)
    <3>1. CASE IsControlWrite(r)
      BY <3>1, Layout DEF IsControlWrite, ReadPerformed
    <3>2. CASE \E s \in Slot : r.size > 0 /\ Bytes(r) \subseteq Bytes(Of(s))
      <4>1. PICK s \in Slot : r.size > 0 /\ Bytes(r) \subseteq Bytes(Of(s))
        BY <3>2
      <4>2. r.address \in Bytes(r) /\ r.address + r.size - 1 \in Bytes(r)
        BY <2>1, <4>1 DEF Bytes
      <4>3. /\ r.address \in FlashBase..(FlashEnd - 1)
            /\ r.address + r.size - 1 \in FlashBase..(FlashEnd - 1)
        BY <4>1, <4>2, SlotBounds
      <4> QED
        BY <2>1, <4>1, <4>3, Layout DEF ReadPerformed, RangeIsWithin
    <3> QED
      BY <1>3, <3>1, <3>2 DEF LibraryAsks
  <2> QED
    BY <2>2 DEF Read, Returns
<1> QED
  BY <1>1, <1>2, <1>3 DEF CallSound

\* A write stays in the slot it names, or in the journal.
LEMMA WriteSound ==
  ASSUME TypeOK, NEW r \in Region, Write(r), call' = [op |-> "write", r |-> r]
  PROVE  CallSound
<1>1. call'.op = "write" /\ call'.r = r /\ call' \in [op : Operation, r : Region]
  BY DEF Operation
<1>2. r.address \in Nat /\ r.size \in Nat
  BY Layout DEF Region, UInt
<1>3. failRead' \in BOOLEAN /\ failWrite' \in BOOLEAN /\ (~failRead => ~failRead')
  BY DEF Write, TypeOK
<1>4. CASE IsControlWrite(r)
  <2>1. changed' \in {{}, Bytes(ControlArea)} /\ result' \in {"OK", "STORAGE"}
    BY <1>4 DEF Write, Returns
  <2>2. protected \in Slot => Bytes(ControlArea) \cap Bytes(Of(protected)) = {}
    BY SlotBounds
  <2>3. /\ changed' \subseteq FlashBase..(FlashEnd - 1)
        /\ changed' \cap Bytes(Bootloader) = {}
        /\ protected \in Slot => changed' \cap Bytes(Of(protected)) = {}
    BY <2>1, <2>2, ControlBounds
  <2>4. changed' \subseteq Bytes(ControlArea)
    BY <2>1
  <2> QED
    BY <1>1, <1>3, <1>4, <2>1, <2>3, <2>4 DEF CallSound
<1>5. CASE ~IsControlWrite(r) /\ WriteAllowed(r)
  <2>1. PICK n \in 0..r.size : /\ changed' = r.address..(r.address + n - 1)
                               /\ result' \in {"OK", "STORAGE"}
    BY <1>5 DEF Write
  <2>2. changed' \subseteq Bytes(r)
    BY <1>2, <2>1 DEF Bytes
  <2>3. PICK s \in SlotOf(r) : protected # s
    BY <1>5 DEF WriteAllowed
  <2>4. s \in Slot /\ changed' \subseteq Bytes(Of(s))
    BY <2>2, <2>3, InSlot
  <2>5. /\ changed' \subseteq FlashBase..(FlashEnd - 1)
        /\ changed' \cap Bytes(Bootloader) = {}
        /\ protected \in Slot => changed' \cap Bytes(Of(protected)) = {}
    BY <2>3, <2>4, SlotChange
  <2> QED
    BY <1>1, <1>3, <2>1, <2>2, <2>5 DEF CallSound
<1>6. CASE ~IsControlWrite(r) /\ ~WriteAllowed(r)
  <2>1. changed' = {} /\ result' = "INVALID_ARG"
    BY <1>6 DEF Write, Returns
  <2>2. ~LibraryAsks("write", r)
    <3> SUFFICES ASSUME NEW s \in Slot \ {protected}, r.address = Of(s).address,
                        r.size \in 1..Of(s).size
                 PROVE  FALSE
      BY <1>6 DEF LibraryAsks
    <3>1. r.address % WordBytes = 0
      BY ConfigAssumption DEF Of, Slot
    <3>2. \A t \in SlotOf(r) : t = s
      <4> SUFFICES ASSUME NEW t \in SlotOf(r), t # s PROVE FALSE
        OBVIOUS
      <4>1. Bytes(Of(s)) \cap Bytes(Of(t)) = {} /\ Bytes(r) \subseteq Bytes(Of(t))
        BY InSlot, SlotBounds
      <4>2. r.address \in Bytes(r) /\ r.address \in Bytes(Of(s))
        BY <1>2, SlotBounds, Layout DEF Bytes
      <4> QED
        BY <4>1, <4>2
    <3>3. s \in SlotOf(r)
      BY <1>2, SlotBounds, Layout DEF SlotOf, RangeIsWithin
    <3> QED
      BY <1>6, <3>1, <3>2, <3>3 DEF WriteAllowed
  <2> QED
    BY <1>1, <1>3, <2>1, <2>2 DEF CallSound
<1> QED
  BY <1>4, <1>5, <1>6

\* An erase clears the sectors of the one slot it names in full.
LEMMA EraseSound ==
  ASSUME TypeOK, NEW r \in Region, Erase(r), call' = [op |-> "erase", r |-> r]
  PROVE  CallSound
<1>1. call'.op = "erase" /\ call'.r = r /\ call' \in [op : Operation, r : Region]
  BY DEF Operation
<1>2. r.address \in Nat /\ r.size \in Nat
  BY Layout DEF Region, UInt
<1>3. failRead' \in BOOLEAN /\ failWrite' \in BOOLEAN /\ (~failRead => ~failRead')
  <2>1. failRead' = failRead /\ failWrite' = failWrite
    BY DEF Erase
  <2> QED
    BY <2>1, Zenon DEF TypeOK
<1>4. CASE EraseAllowed(r)
  <2>1. PICK s \in SlotOf(r) :
          \/ changed' = Bytes(Of(s)) /\ result' \in {"OK", "STORAGE"}
          \/ /\ changed' \in {{}, Of(s).address..(Of(s).address + Of(s).size \div 2 - 1)}
             /\ result' = "STORAGE"
    BY <1>4 DEF Erase, Returns
  <2>2. /\ s \in Slot /\ protected # s /\ r.size = SlotA.size /\ Of(s).size = SlotA.size
        /\ Of(s).address \in Nat
    BY <1>4, InSlot, SlotBounds DEF EraseAllowed
  <2>3. r.address = Of(s).address
    BY <1>2, <2>2, InSlot, Layout
  <2>4. Bytes(r) = Bytes(Of(s))
    BY <2>2, <2>3 DEF Bytes
  <2>5. Of(s).address..(Of(s).address + Of(s).size \div 2 - 1) \subseteq Bytes(Of(s))
    BY <2>2, Layout DEF Bytes
  <2>6. changed' \subseteq Bytes(Of(s)) /\ result' \in {"OK", "STORAGE"}
    BY <2>1, <2>5
  <2>7. /\ changed' \subseteq FlashBase..(FlashEnd - 1)
        /\ changed' \cap Bytes(Bootloader) = {}
        /\ protected \in Slot => changed' \cap Bytes(Of(protected)) = {}
    BY <2>2, <2>6, SlotChange
  <2> QED
    BY <1>1, <1>3, <2>4, <2>6, <2>7 DEF CallSound
<1>5. CASE ~EraseAllowed(r)
  <2>1. changed' = {} /\ result' = "INVALID_ARG"
    BY <1>5 DEF Erase, Returns
  <2>2. ~LibraryAsks("erase", r)
    <3> SUFFICES ASSUME NEW s \in Slot \ {protected}, r = Of(s) PROVE FALSE
      BY DEF LibraryAsks
    <3>1. s \in SlotOf(r) /\ r.size = SlotA.size
      BY SlotBounds, Layout DEF SlotOf, RangeIsWithin
    <3>2. \A t \in SlotOf(r) : t = s
      <4> SUFFICES ASSUME NEW t \in SlotOf(r), t # s PROVE FALSE
        OBVIOUS
      <4>1. Bytes(Of(s)) \cap Bytes(Of(t)) = {} /\ Bytes(r) \subseteq Bytes(Of(t))
        BY InSlot, SlotBounds
      <4>2. r.address \in Bytes(r)
        BY <1>2, <3>1, Layout DEF Bytes
      <4> QED
        BY <4>1, <4>2
    <3> QED
      BY <1>5, <3>1, <3>2 DEF EraseAllowed
  <2> QED
    BY <1>1, <1>3, <2>1, <2>2 DEF CallSound
<1> QED
  BY <1>4, <1>5

\* Any call at all.
LEMMA DoSound ==
  ASSUME TypeOK, NEW op, NEW r \in Region, Do(op, r)
  PROVE  CallSound
<1>1. CASE op = "read" /\ Read(r)
  BY <1>1, ReadSound DEF Do
<1>2. CASE op = "write" /\ Write(r)
  BY <1>2, WriteSound DEF Do
<1>3. CASE op = "erase" /\ Erase(r)
  BY <1>3, EraseSound DEF Do
<1> QED
  BY <1>1, <1>2, <1>3 DEF Do

-----------------------------------------------------------------------------
\* The address after an aligned one is not aligned.
LEMMA OffMultiple ==
  ASSUME NEW a \in Nat, a > 2, NEW x \in Nat, x % a = 0
  PROVE  (x + 1) % a # 0
<1> DEFINE p == x \div a
<1>1. p \in Nat /\ x = a * p
  BY Z3
<1> HIDE DEF p
<1>2. \A k \in Nat : (a * k + 1) % a = 1
  BY Z3
<1>3. (a * p + 1) % a = 1
  BY <1>1, <1>2
<1> QED
  BY <1>1, <1>3

\* Each call of the boundary test is refused.
LEMMA BoundaryRefused ==
  ASSUME TypeOK, Testing, step \in 1..6, Do(BoundaryCall(step).op, BoundaryCall(step).r)
  PROVE  BoundaryCall(step).r \in Region /\ result' = "INVALID_ARG"
<1> DEFINE r == BoundaryCall(step).r
<1>1. protected \in Slot /\ failRead = FALSE /\ Other(protected) \in Slot /\ Other(protected) # protected
  BY DEF Testing, TypeOK, Slot, Other
<1>2. /\ Here \in Region /\ There \in Region
      /\ Here.address \in Nat /\ Here.size = SlotA.size
      /\ There.address \in Nat /\ There.size = SlotA.size
      /\ FlashBase <= Here.address /\ Here.address + SlotA.size <= ControlA
      /\ FlashBase <= There.address /\ There.address + SlotA.size <= ControlA
      /\ FlashBase < Here.address /\ FlashBase < There.address
      /\ There.address % WordBytes = 0
      /\ Here.address + SlotA.size <= There.address \/ There.address + SlotA.size <= Here.address
  BY <1>1, Layout, ConfigAssumption DEF Here, There, Of, Other, Slot
<1>3. \A q \in Region, s \in Slot :
        s \in SlotOf(q) <=> /\ q.size > 0 /\ q.address >= Of(s).address
                           /\ q.address + q.size <= Of(s).address + Of(s).size
  BY DEF SlotOf, RangeIsWithin
<1>4. Slot = {protected, Other(protected)} /\ SlotOf(r) \subseteq Slot
  BY <1>1 DEF Slot, Other, SlotOf
<1>5. Of(protected) = Here /\ Of(Other(protected)) = There
  BY DEF Here, There
<1>6. CASE step = 1
  <2>1. BoundaryCall(step) = [op |-> "erase", r |-> Here]
    BY <1>6 DEF BoundaryCall
  <2>2. r = Here /\ protected \in SlotOf(r)
    BY <1>1, <1>2, <1>3, <1>5, <2>1, Layout
  <2> QED
    BY <1>2, <2>1, <2>2 DEF Do, Erase, EraseAllowed, Returns
<1>7. CASE step \in {2, 3, 4}
  <2> DEFINE a == CASE step = 2 -> Here.address [] step = 3 -> FlashBase
                    [] step = 4 -> There.address + 1
  <2>1. BoundaryCall(step) = [op |-> "write", r |-> At(a)]
    BY <1>7 DEF BoundaryCall
  <2>2. a \in Nat /\ a < Word
    BY <1>2, <1>7, Layout
  <2>v. /\ step = 2 => a = Here.address
        /\ step = 3 => a = FlashBase
        /\ step = 4 => a = There.address + 1
    BY <1>7
  <2> HIDE DEF a
  <2>3. At(a) \in Region /\ At(a).address = a /\ At(a).size = WordBytes
    BY <2>2, Layout DEF At, Region, UInt
  <2>4. ~IsControlWrite(At(a))
    BY <2>3, Layout DEF IsControlWrite
  <2>5. ~WriteAllowed(At(a))
    <3>1. CASE step = 2
      <4>1. a = Here.address
        BY <2>v, <3>1
      <4>2. protected \in SlotOf(At(a))
        BY <1>1, <1>2, <1>3, <1>5, <2>3, <4>1, Layout
      <4> QED
        BY <4>2 DEF WriteAllowed
    <3>2. CASE step = 3
      <4>1. a = FlashBase
        BY <2>v, <3>2
      <4>2. SlotOf(At(a)) = {}
        <5>1. \A s \in Slot : Of(s).address > FlashBase
          BY <1>2, <1>4, <1>5
        <5> QED
          BY <2>3, <4>1, <5>1, SlotBounds, Layout DEF SlotOf, RangeIsWithin
      <4> QED
        BY <4>2 DEF WriteAllowed
    <3>3. CASE step = 4
      <4>1. a = There.address + 1
        BY <2>v, <3>3
      <4>2. a % WordBytes # 0
        BY <1>2, <4>1, Layout, OffMultiple
      <4> QED
        BY <2>3, <4>2 DEF WriteAllowed
    <3> QED
      BY <1>7, <3>1, <3>2, <3>3
  <2> QED
    BY <2>1, <2>3, <2>4, <2>5 DEF Do, Write, Returns
<1>8. CASE step = 5
  <2> DEFINE q == [address |-> There.address + WordBytes, size |-> There.size]
  <2>1. BoundaryCall(step) = [op |-> "erase", r |-> q]
    BY <1>8 DEF BoundaryCall
  <2>2. There.address + WordBytes \in UInt /\ There.size \in UInt
    BY <1>2, Layout DEF UInt
  <2>3. q \in Region /\ q.address = There.address + WordBytes /\ q.size = There.size
    BY <2>2 DEF Region
  <2> HIDE DEF q
  <2>4. protected \notin SlotOf(q) /\ Other(protected) \notin SlotOf(q)
    BY <1>1, <1>2, <1>3, <1>5, <2>3, Layout
  <2>5. SlotOf(q) = {}
    BY <1>4, <2>4 DEF SlotOf
  <2> QED
    BY <2>1, <2>3, <2>5 DEF Do, Erase, EraseAllowed, Returns
<1>9. CASE step = 6
  <2> DEFINE q == At(FlashEnd - 2)
  <2>1. BoundaryCall(step) = [op |-> "read", r |-> q]
    BY <1>9 DEF BoundaryCall
  <2>2. FlashEnd - 2 \in UInt /\ WordBytes \in UInt
    BY <1>2, Layout DEF UInt
  <2>3. q \in Region /\ q.address = FlashEnd - 2 /\ q.size = WordBytes
    BY <2>2 DEF Region, At
  <2> HIDE DEF q
  <2>4. ~ReadPerformed(q)
    BY <2>3, Layout DEF ReadPerformed, RangeIsWithin
  <2>5. q.size > 0
    BY <2>3, Layout
  <2> QED
    BY <1>1, <2>1, <2>3, <2>4, <2>5 DEF Do, Read, Returns
<1> QED
  BY <1>6, <1>7, <1>8, <1>9

\* Every step keeps the invariant.
LEMMA DriverKept == DriverInv /\ [Next]_vars => DriverInv'
<1> SUFFICES ASSUME DriverInv, [Next]_vars PROVE DriverInv'
  OBVIOUS
<1> USE DEF DriverInv
<1>1. ASSUME CallSound, UNCHANGED protected, step' \in 0..8, step' # 8,
             step' \in 1..6 => protected \in Slot /\ ~failRead'
      PROVE  DriverInv'
  <2>1. TypeOK'
    BY <1>1 DEF TypeOK, CallSound
  <2>2. ProtectedUntouched' /\ ChangesOnlyNamed' /\ BoundaryTestPasses' /\ Testing'
    BY <1>1 DEF CallSound, ProtectedUntouched, ChangesOnlyNamed, IsControlWrite, BoundaryTestPasses, Testing
  <2>3. ServesLibrary'
    BY <1>1 DEF CallSound, ServesLibrary, LibraryAsks, IsControlWrite
  <2> QED
    BY <2>1, <2>2, <2>3
<1>2. CASE AnyCall
  <2>1. PICK op \in Operation, r \in Region : Do(op, r)
    BY <1>2 DEF AnyCall
  <2>2. step' = 0 /\ UNCHANGED protected
    BY <1>2 DEF AnyCall
  <2> QED
    BY <1>1, <2>1, <2>2, DoSound
<1>3. CASE BoundaryStep
  <2>1. BoundaryCall(step).r \in Region /\ result' = "INVALID_ARG" /\ step \in 1..6
        /\ UNCHANGED protected /\ step' = step + 1
    BY <1>3, BoundaryRefused DEF BoundaryStep
  <2>2. CallSound
    BY <1>3, <2>1, DoSound DEF BoundaryStep
  <2>3. protected \in Slot /\ ~failRead'
    BY <2>1, <2>2 DEF Testing, CallSound
  <2> QED
    BY <1>1, <2>1, <2>2, <2>3
<1>4. CASE Returned \/ ArmFailure \/ BeginBoundaryTest \/ EndBoundaryTest \/ UNCHANGED vars
  <2>1. UNCHANGED protected
        /\ \/ UNCHANGED <<call, changed, result>>
           \/ call' = NoCall /\ changed' = {} /\ result' = "NONE"
    BY <1>4 DEF Returned, ArmFailure, BeginBoundaryTest, EndBoundaryTest, vars
  <2>2. NoCall \in [op : Operation, r : Region] /\ NoCall.op = "none"
    BY Layout DEF NoCall, Operation, Region, UInt
  <2>3. failRead' \in BOOLEAN /\ failWrite' \in BOOLEAN
    BY <1>4, Zenon
    DEF Returned, ArmFailure, BeginBoundaryTest, EndBoundaryTest, vars, TypeOK
  <2>4. step' \in 0..8 /\ step' # 8 /\ (step' \in 1..6 => protected \in Slot /\ ~failRead')
    <3>1. CASE step' = 0
      BY <3>1
    <3>2. CASE BeginBoundaryTest
      BY <3>2 DEF BeginBoundaryTest
    <3>3. CASE UNCHANGED vars
      BY <3>3 DEF vars, TypeOK, Testing, BoundaryTestPasses
    <3> QED
      BY <1>4, <3>1, <3>2, <3>3 DEF Returned, ArmFailure, EndBoundaryTest
  <2>5. TypeOK'
    BY <2>1, <2>2, <2>3, <2>4 DEF TypeOK
  <2>6. ProtectedUntouched' /\ ChangesOnlyNamed' /\ BoundaryTestPasses' /\ Testing'
    BY <2>1, <2>2, <2>4
    DEF ProtectedUntouched, ChangesOnlyNamed, IsControlWrite, BoundaryTestPasses, Testing
  <2>7. ServesLibrary'
    BY <2>1, <2>2 DEF ServesLibrary, LibraryAsks, IsControlWrite
  <2> QED
    BY <2>5, <2>6, <2>7
<1> QED
  BY <1>2, <1>3, <1>4 DEF Next

\* Whatever is asked of the driver, in whatever order.
THEOREM DriverInvariance == Spec => []DriverInv
<1>1. Init => DriverInv
  <2> SUFFICES ASSUME Init PROVE DriverInv
    OBVIOUS
  <2>1. NoCall \in [op : Operation, r : Region] /\ NoCall.op = "none"
    BY Layout DEF NoCall, Operation, Region, UInt
  <2>2. TypeOK
    <3>1. failRead \in BOOLEAN /\ failWrite \in BOOLEAN
      BY Zenon DEF Init
    <3>2. changed = {} /\ step = 0 /\ call = NoCall /\ result = "NONE"
          /\ protected \in Slot \cup {"NONE"}
      BY DEF Init
    <3> QED
      BY <2>1, <3>1, <3>2 DEF TypeOK
  <2>3. ServesLibrary
    BY DEF Init, ServesLibrary
  <2> QED
    BY <2>2, <2>3
    DEF Init, DriverInv, ProtectedUntouched, ChangesOnlyNamed, Testing, BoundaryTestPasses
<1> QED
  BY <1>1, DriverKept, PTL DEF Spec

\* The boot loader and the running slot are never changed.
THEOREM ProtectedNeverTouched == Spec => []ProtectedUntouched
BY DriverInvariance, PTL DEF DriverInv

\* No call changes bytes beside those it names.
THEOREM ChangesAreNamed == Spec => []ChangesOnlyNamed
BY DriverInvariance, PTL DEF DriverInv

\* The driver performs all that the library asks of an unprotected slot.
THEOREM LibraryIsServed == Spec => []ServesLibrary
BY DriverInvariance, PTL DEF DriverInv

\* The application's boundary test never fails.
THEOREM BoundaryTestAlwaysPasses == Spec => []BoundaryTestPasses
BY DriverInvariance, PTL DEF DriverInv
=============================================================================
