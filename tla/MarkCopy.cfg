CONSTANTS
  CellNum = 11
  AlignSize = 8
  Requests <- MCRequests
  Addresses = {a1, a2, a3, a4, a5}
  Blank = Blank
  FreshFlags <- MCFreshFlags
  CopyOrders = {"ascending", "descending"}
SPECIFICATION Spec
INVARIANTS
  TypeOK
  CellsDisjoint
  HalfAccountedFor
  ContentsIntact
  SurvivorsFit
PROPERTIES
  ExitsOnlyOnRejection
  ImplementsObjectStore
SYMMETRY AddressSymmetry
VIEW LiveDataView
