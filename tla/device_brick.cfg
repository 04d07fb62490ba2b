\* No fault, no cut: a trial whose vector table is refused.
CONSTANTS
  MaxAttempts = 1
  MaxFaults = 0
  MaxCuts = 0
  good = good
  dead = dead
  brick = brick
  NoImage = NoImage
  NoControl = NoControl
  Images <- GoodBrick
  Launchable <- Good
  Responsive <- Good
SPECIFICATION FairSpec
PROPERTIES
  DeadTrialEnds
