SPECIFICATION FairSpec
CONSTANTS
  NumPaths = 2
  MaxVersion = 2
  VolSize = 1
  MaxTime = 3
  MaxVol = 3
  MaxCrashes = 2
  MaxEdits = 2
  Commands <- UserCommands
  CrashAt <- SafeSteps
  LaterWins = TRUE
  EditPartial = FALSE
INVARIANT LaterRunsGoOn
PROPERTY ImplementsArchive
PROPERTY OldSignaturesUsed
PROPERTY PartialResolved
