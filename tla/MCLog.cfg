SPECIFICATION FreshSpec
CONSTANTS
  Block = {b1, b2, b3}
  Value = {0, 1}
  NoBuf = NoBuf
  Thread = {t1, t2, t3}
  LOGBLOCKS = 6
  MAXOPBLOCKS = 3
  OpBlocks = 2
  MaxOps = 1
  MaxCrashes = 2
INVARIANTS CommitAlone 
PROPERTIES CrashAtomic CallsFinish
