SPECIFICATION Spec
CONSTANTS
  NumPaths = 2
  MaxVersion = 2
  VolSize = 1
  MaxTime = 3
  MaxVol = 3
  MaxCrashes = 3
  MaxEdits = 1
  Commands <- AllCommands
  CrashAt <- AllSteps
  LaterWins = FALSE
  EditPartial = TRUE
INVARIANT TypeOK
INVARIANT ManifestSound
INVARIANT FullRestoresSource
INVARIANT CacheAgrees
INVARIANT SignaturesWhole
PROPERTY CompleteStays
