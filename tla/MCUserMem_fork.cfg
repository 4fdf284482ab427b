SPECIFICATION FairSpec
CONSTANTS
  Page = {1, 2, 3, 4, 5, 6, 7, 8, 9}
  NoPage = 0
  Proc = {p1, p2}
  InitProc = p1
  PT = {t1, t2}
  NoPT = NoPT
  NPages = 1
  PGSIZE = 2
  PtBase = 2
  PtSpan = 1
  Val = {"x"}
  Deltas <- GrowShrink
  Segments <- NoSegments
  Calls <- ForkCalls
ACTION_CONSTRAINT LeastPage
 
PROPERTIES UsesAllocator
