\* Flash that never fails, and no cut but the tester's.
CONSTANTS
  MaxAttempts = 2
  MaxFaults = 0
  MaxCuts = 0
  good = good
  dead = dead
  NoImage = NoImage
  NoControl = NoControl
  Images <- GoodDead
  Launchable <- GoodDead
  Responsive <- Good
SPECIFICATION FairHarnessSpec
PROPERTIES
  StopRecovers
