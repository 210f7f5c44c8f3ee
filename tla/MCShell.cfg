SPECIFICATION MCSpec
CONSTANTS
  MAXARGS = 3
  MaxTokens = 5
  Sessions <- MCSessions
  p1 = p1
  p2 = p2
  q1 = q1
  r1 = r1
  c1 = c1
  c2 = c2
  k1 = k1
  k2 = k2
  k3 = k3
  Proc = {p1, p2, q1, r1}
  Buf = {c1, c2}
  Block = {k1, k2, k3}
  None = None
  Value = {0, 1}
  MaxPinned = 1
  Outer <- MCOuter
  Reads <- MCReads
INVARIANTS FilesExact ParsesGrammar RefcntExact ReadsLatest
PROPERTIES PromptReturns BufferGranted
CHECK_DEADLOCK FALSE
