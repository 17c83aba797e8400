SPECIFICATION Spec
CONSTANTS
  Resource <- AllResources
  Graph <- AllGraph
  Behind <- AllBehind
  Slices <- ServiceSlices
  Unordered <- KnownUnordered
  Unwatched <- KnownUnwatched
  MaxEdits = 1
  MaxFaults = 1
  MaxSlice = 8
INVARIANTS TypeOK FreshAfterUp
