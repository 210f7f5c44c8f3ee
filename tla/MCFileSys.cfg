SPECIFICATION MCSpec
CONSTANTS
  Proc = {1, 2}
  Initproc = 1
  Name = {"a", "b"}
  i1 = i1
  i2 = i2
  i3 = i3
  Inum = {i1, i2, i3}
  Root = i1
  None = None
  NINODE = 3
  NFILE = 1
  NOFILE = 1
  Calls <- MCCalls
  Slot = {p1, p2, p3}
  InitSlot = p1
  NPAGES = 21
  PGSIZE = 2
  UINT = 64
  Incs <- MCIncs
  Images <- MCImages
SYMMETRY Symmetry
VIEW View
INVARIANTS RefExact CacheCoherent NlinkCovers NoPanic NoCircularWait PagesConserved ImageMapped
CHECK_DEADLOCK FALSE
