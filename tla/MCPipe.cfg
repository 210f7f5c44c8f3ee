SPECIFICATION FairSpec
CONSTANTS
  r1 = r1
  w1 = w1
  w2 = w2
  Readers = {r1}
  Writers = {w1, w2}
  None = None
  PIPESIZE = 2
  UINT = 4
  Lengths = {3}
  MaxSent = 5
INVARIANTS
  NoStrandedSleeper
  NotFreedInUse
PROPERTIES
  IsFifo
  CallsReturn
CHECK_DEADLOCK FALSE
