SPECIFICATION FairSpec
CONSTANTS
  p1 = p1
  p2 = p2
  p3 = p3
  Proc = {p1, p2, p3}
  None = None
  NUM = 8
  U16 = 16
INVARIANTS
  EachRequestInOnePlace
  ReturnsAfterTransfer
PROPERTIES
  TransferEnds
VIEW View
