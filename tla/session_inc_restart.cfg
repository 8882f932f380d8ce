SPECIFICATION Spec
CONSTANTS
  NumPaths = 3
  MaxVersion = 2
  VolSize = 1
  MaxTime = 3
  MaxVol = 4
  MaxCrashes = 1
  MaxEdits = 2
  Commands <- UserCommands
  CrashAt <- BeforeManifestIsSent
  LaterWins = TRUE
  EditPartial = FALSE
INVARIANT RestoresSource
