SPECIFICATION FairSpec
CHECK_DEADLOCK FALSE
CONSTANTS
  NumFiles = 2
  Size = 2
  PipeSize = 1
  Others = {1, 2}
  MaxFailures = 1
  SigchldIgnored = FALSE
INVARIANTS
  ClosedWhole
PROPERTY
  AllClose
