CONSTANTS
  s1 = s1
  s2 = s2
  v1 = v1
  v2 = v2
  Stacks = {s1, s2}
  Tables = {"locals"}
  Values = {v1, v2}
  initCapacity = 2
  TableSize = 2
  ObjectSizes = {2}
  Garbage = Garbage
  Object = Object
  MemoryEnd = 11
  MaxSize = 3
SYMMETRY Interchangeable
VIEW ReadableView
SPECIFICATION Spec
CHECK_DEADLOCK FALSE
INVARIANTS
  TypeOK
  BlocksDisjoint
  ObjectsIntact
PROPERTIES
  ResizeLeavesRoom
  ImplementsStackStore
