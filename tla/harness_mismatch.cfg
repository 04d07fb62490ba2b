\* No fault, no cut: a refused install leaves its pause behind.
CONSTANTS
  MaxAttempts = 1
  MaxFaults = 0
  MaxCuts = 0
  good = good
  dead = dead
  NoImage = NoImage
  NoControl = NoControl
  Images <- Good
  Launchable <- Good
  Responsive <- Good
SPECIFICATION HarnessSpec
INVARIANTS
  PauseMatches
