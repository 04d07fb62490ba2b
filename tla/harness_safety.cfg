\* One storage error and one cut beside the tester's.
CONSTANTS
  MaxAttempts = 2
  MaxFaults = 1
  MaxCuts = 1
  good = good
  dead = dead
  NoImage = NoImage
  NoControl = NoControl
  Images <- Good
  Launchable <- Good
  Responsive <- Good
SPECIFICATION HarnessSpec
INVARIANTS
  StopsWhereTold
PROPERTIES
  StoppedInstallNeverMarks
  BenchKeepsFallback
  ImplementsABUpdate
