\* One storage error and one cut anywhere around installs, trials and rollbacks.
CONSTANTS
  MaxAttempts = 2
  MaxFaults = 1
  MaxCuts = 1
  good = good
  dead = dead
  brick = brick
  NoImage = NoImage
  NoControl = NoControl
  Images <- AllThree
  Launchable <- GoodDead
  Responsive <- Good
SPECIFICATION Spec
INVARIANTS
  TypeOK
  CopyCoherent
  StoredSound
  TrialBudget
  RunningIsKnown
  EntersVerified
  LastResort
PROPERTIES
  TransientFaultKeepsTrial
  PromotesOnlyTrialed
  FallbackKept
  ImplementsABUpdate
