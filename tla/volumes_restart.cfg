SPECIFICATION FairSpec
CONSTANTS
  NumPaths = 2
  MaxBlocks = 3
  MaxVol = 3
  MaxCrashes = 2
  MaxEdits = 1
CHECK_DEADLOCK FALSE
INVARIANT RestoresUnchanged
INVARIANT TextMeansManifest
PROPERTY Completed
