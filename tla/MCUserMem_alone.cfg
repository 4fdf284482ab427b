SPECIFICATION FairSpec
CONSTANTS
  Page = {1, 2, 3, 4, 5, 6, 7, 8}
  NoPage = 0
  Proc = {p1}
  InitProc = p1
  PT = {t1, t2}
  NoPT = NoPT
  NPages = 3
  PGSIZE = 2
  PtBase = 1
  PtSpan = 2
  Val = {"x"}
  Deltas <- Unaligned
  Segments <- TextOnly
  Calls <- AloneCalls
ACTION_CONSTRAINT LeastPage
INVARIANTS NoOrphanTable MappedWithinSize
PROPERTIES KernelReturns
