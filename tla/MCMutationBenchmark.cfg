CONSTANTS
  Datasets <- SmallDatasets
  ChangeSets <- SmallChanges
  Specs <- MCSpecs
  Scenarios <- MCScenarios
  Draws <- MCDraws
SPECIFICATION BenchSpec
INVARIANTS
  ChangesExact
  ChecksumOfVisible
  NeighborsExact
  MergeExact
  GeneratedExact
  RebuiltAgrees
PROPERTIES
  Ended
CHECK_DEADLOCK FALSE
