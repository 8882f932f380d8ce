SPECIFICATION FairSpec
CHECK_DEADLOCK FALSE
CONSTANTS
  MaxLength = 6
  BlockSize = 2
  SigRead = 1
  MaxGrowth = 2
  MaxErrors = 1
INVARIANTS
  BlocksWhole
  SignatureMatches
PROPERTY
  StreamEnds
