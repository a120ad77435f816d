CONSTANTS
  CellNum = 9
  AlignSize = 8
  Requests <- MCRequests
  Addresses = {a1, a2, a3, a4}
  Blank = Blank
  FreshFlags <- GarbageFlags
  CopyOrders = {"ascending", "descending"}
SPECIFICATION Spec
INVARIANTS
  TypeOK
  CellsDisjoint
  ChunkAccountedFor
  FullyMerged
  TransferFits
VIEW PlacesView
SYMMETRY AddressSymmetry
