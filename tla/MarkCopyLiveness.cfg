CONSTANTS
  CellNum = 10
  AlignSize = 8
  Requests <- MCRequests
  Addresses = {a1, a2}
  Blank = Blank
  FreshFlags <- MCFreshFlags
  CopyOrders = {"ascending", "descending"}
SPECIFICATION FairSpec
PROPERTIES
  FittingRequestServed
  CollectionEnds
