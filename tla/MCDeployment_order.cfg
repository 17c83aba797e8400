SPECIFICATION Spec
CONSTANTS
  Resource <- AllResources
  Graph <- AllGraph
  Behind <- AllBehind
  Slices <- AllSlices
  Unordered <- KnownUnordered
  Unwatched <- KnownUnwatched
  MaxEdits = 0
  MaxFaults = 0
  MaxSlice = 30
INVARIANTS MissesOnlyUnordered
