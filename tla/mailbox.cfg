\* Two posts, one press of the reset button, one power cut, two attempts.  The
\* host may stop posting, and a device may rest until somebody resets it.
CONSTANTS
  MaxAttempts = 2
  MaxPosts = 2
  MaxResets = 1
  MaxCuts = 1
SPECIFICATION FairSpec
CHECK_DEADLOCK FALSE
INVARIANTS
  ArgumentsMatch
  NothingUnposted
  QuietMeansAnswered
  NeverHandledAgain
PROPERTIES
  PostNeverOverwritten
  PostAnswered
