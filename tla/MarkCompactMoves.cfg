CONSTANTS
  CellNum = 13
  AlignSize = 8
  Requests <- MCRequests
  Addresses = {a1, a2, a3, a4, a5, a6}
  Blank = Blank
  FreshFlags <- ZeroedFlags
  CopyOrders = {"ascending"}
SPECIFICATION Spec
PROPERTIES
  ImplementsObjectStore
  CompactedAtReturn
VIEW LiveDataView
SYMMETRY AddressSymmetry
