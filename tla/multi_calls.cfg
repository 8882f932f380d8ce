SPECIFICATION FairSpec
CONSTANTS
  NumStores = 3
  Files = {f1, f2}
  Configs <- MCConfigs
  PrefixOf <- MCPrefixOf
  NumRetries = 2
  Failing = {1, 2, 3}
  MaxVersion = 2
  MaxErrors = 3
  MaxRuns = 2
CHECK_DEADLOCK FALSE
INVARIANT ReadsLastWritten
INVARIANT MirrorsAgree
PROPERTY DeletedEverywhere
PROPERTY CallEnds
