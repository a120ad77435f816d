CONSTANTS
  Keys <- MCKeys
  Hashes <- MCHashes
  Values = {"a", "b"}
  Capacities = {0, 1, 5}
  upperTol = 3
  lowerTol = 1
  initCapacity = 2
SPECIFICATION Spec
INVARIANTS
  TypeOK
  LoadBounded
PROPERTIES
  ResizesAreNotUndone
  ImplementsMapStore
