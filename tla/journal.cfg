\* Two records per sector and eight sequence numbers: the tightest wrap allowed.
CONSTANTS
  c1 = c1
  c2 = c2
  Controls <- TwoControls
  NoControl = NoControl
  Erased = Erased
  Torn = Torn
  N = 2
  SeqMod = 8
SPECIFICATION Spec
INVARIANTS
  ScanFindsNewest
  ErasesOnlyOld
  ProgramsErasedOnly
PROPERTIES
  ImplementsStore
