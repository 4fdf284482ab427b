SPECIFICATION Spec
CONSTANTS
  Proc = {p1, p2}
  NoProc = NoProc
  NBLOCK = 5
  NINODES = 4
  BSIZE = 4
  NDIRECT = 1
  NINDIRECT = 2
  NFILE = 2
  NOFILE = 2
  NINODE = 4
  WriteMax = 4
  FileName = "f"
  MaxCalls = 3
  MaxCrashes = 1
  Call <- Calls
SYMMETRY Symmetry
INVARIANTS RefsExact  NoLockCycle BlocksExact NamesSafe NoPanic
