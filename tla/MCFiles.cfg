SPECIFICATION MCSpec
CONSTANTS
  BSIZE = 2
  NDIRECT = 1
  FSSIZE = 18
  BPB = 12
  IPB = 4
  NINODES = 4
  nlog = 1
  Proc = {1, 2}
  File = {1, 2}
  None = None
  MAXOPBLOCKS = 6
  UINT = 16
  Mem <- MCMem
  Contents <- MCContents
  Opens <- MCOpens
  Reads <- MCReads
  Writes <- MCWrites
  MaxCalls = 3
INVARIANTS BlocksPartitioned NoHoles TransactionFits
PROPERTIES FilesAreBytes
CHECK_DEADLOCK FALSE
