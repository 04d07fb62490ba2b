SPECIFICATION Spec
CONSTANTS
  Word = 34
  WordBytes = 4
  ControlBytes = 5
  FlashBase = 4
  FlashEnd = 32
  Bootloader <- AtBase
  SlotA <- AtA
  SlotB <- AtB
  ControlA = 24
  ControlArea <- AtControl
INVARIANTS
  ProtectedUntouched
  ChangesOnlyNamed
  ServesLibrary
  BoundaryTestPasses
