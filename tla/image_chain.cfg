SPECIFICATION Spec
CONSTANTS
  Word = 21
  WordBytes = 2
  HeaderBytes = 2
  ControlBytes = 1
  VectorAlign = 4
  SlotSize = 8
  SlotAddress <- TwoSlots
INVARIANTS
  PackedFileInstalls
  AlignedFileRuns
  RunsOnlyInItsSlot
  EntersInsideSlot
\* An image that runs, or is refused, is the end of its way.
CHECK_DEADLOCK FALSE
