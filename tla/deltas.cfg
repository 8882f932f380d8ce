SPECIFICATION Spec
CONSTANTS
  Indices <- MCIndices
  FirstTrees <- MCTrees
  NumData = 2
  MaxSets = 3
  MaxEdits = 2
  MaxFaults = 1
CHECK_DEADLOCK FALSE
INVARIANTS
  RestoresSource
  SubtreeRestored
  PatchAgrees
