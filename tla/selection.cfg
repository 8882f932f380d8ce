SPECIFICATION Spec
CHECK_DEADLOCK FALSE
CONSTANTS
  Names <- MCNames
  Trees <- MCTrees
  Options <- MCOptions
  MaxOptions = 3
  Fickle <- MCFickle
  MaxVanish = 1
INVARIANTS
  InOrder
  SelectedExactly
  FirstMatchDecides
