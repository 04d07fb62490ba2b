\* Every layout and every header of an eleven-address machine, with a memory that
\* may be too small for the layout.
CONSTANTS
  Word = 11
  WordBytes = 2
  HeaderBytes = 2
  ControlBytes = 1
  VectorAlign = 2
  ChunkBytes = 2
  MemorySizes <- SmallAndWhole
SPECIFICATION Spec
INVARIANTS
  InitDecides
  StaysInSlot
  VerdictCoversPayload
  CandidateVerifies
CHECK_DEADLOCK FALSE
