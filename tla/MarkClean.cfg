CONSTANTS
  CellNum = 7
  AlignSize = 8
  Requests <- MCRequests
  Addresses = {a1, a2, a3}
  Blank = Blank
  FreshFlags <- MCFreshFlags
  CopyOrders = {"ascending", "descending"}
SPECIFICATION FairSpec
INVARIANTS
  TypeOK
  CellsDisjoint
  ChunkAccountedFor
PROPERTIES
  ImplementsObjectStore
  MallocEnds
