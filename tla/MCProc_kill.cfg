SPECIFICATION Spec
CONSTANTS
  s1 = s1
  s2 = s2
  s3 = s3
  s4 = s4
  c1 = c1
  c2 = c2
  Slot = {s1, s2, s3}
  initproc = s1
  CPU = {c1, c2}
  None = None
  KillPids = {0, 2}
  MaxPid = 4
INVARIANTS
  KilledByName
