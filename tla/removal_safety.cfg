SPECIFICATION FairSpec
CONSTANTS
  MaxTime = 5
  NumVolumes = 1
  MaxKept = 1
  LateTimes = FALSE
  LaterWins = FALSE
  Beside = {"remove"}
  MaxCommands = 3
  MaxMishaps = 3
CHECK_DEADLOCK FALSE
INVARIANT KeptSetsWhole
PROPERTY NoHalfSets
INVARIANT ChainsUnbroken
INVARIANT ActiveSignaturesKept
PROPERTY CleanupLeavesNothing
