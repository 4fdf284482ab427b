SPECIFICATION Spec
CONSTANTS
  Page = {1, 2, 3, 4, 5, 6, 7, 8, 9, 10, 11, 12}
  NoPage = 0
  Proc = {p1, p2}
  InitProc = p1
  PT = {t1, t2, t3}
  NoPT = NoPT
  NPages = 3
  PGSIZE = 1
  PtBase = 1
  PtSpan = 1
  Val = {"x"}
  Deltas <- GrowOnly
  Segments <- NoSegments
  Calls <- GrowExecCalls
ACTION_CONSTRAINT ReducedInitFirst
INVARIANTS NoKernelPanic
PROPERTIES ForkIsolation
