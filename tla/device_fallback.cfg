\* No fault, no cut: a trial is told to install over its fallback.
CONSTANTS
  MaxAttempts = 1
  MaxFaults = 0
  MaxCuts = 0
  good = good
  dead = dead
  brick = brick
  NoImage = NoImage
  NoControl = NoControl
  Images <- Good
  Launchable <- Good
  Responsive <- Good
SPECIFICATION Spec
INVARIANTS
  BootableFallback
