SPECIFICATION FairSpec
CONSTANTS
  NumVolumes = 3
  NumRetries = 2
  Modes <- MCModes
  MaxErrors = 2
  MaxSignals = 1
CHECK_DEADLOCK FALSE
INVARIANT ManifestAfterVolumes
INVARIANT RestartKeepsWhole
PROPERTY RunEnds
