\* Flash that never fails, two cuts; every image may be entered.
CONSTANTS
  MaxAttempts = 2
  MaxFaults = 0
  MaxCuts = 2
  good = good
  dead = dead
  brick = brick
  NoImage = NoImage
  NoControl = NoControl
  Images <- GoodDead
  Launchable <- GoodDead
  Responsive <- Good
SPECIFICATION FairSpec
PROPERTIES
  DeadTrialEnds
