SPECIFICATION FairSpec
CONSTANTS
  p1 = p1
  p2 = p2
  p3 = p3
  b1 = b1
  b2 = b2
  b3 = b3
  Proc = {p1, p2, p3}
  Block = {b1, b2}
  Value = {0, 1}
  Zero = 0
  MAXOPBLOCKS = 4
  LOGSIZE = 8
  NLOG = 8
  OPBLOCKS = 2
INVARIANTS
  PinnedWhileLogged
PROPERTIES
  CrashAtomic
  WriteAhead
  CallsFinish
