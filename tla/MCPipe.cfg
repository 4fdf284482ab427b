SPECIFICATION FairSpec
CONSTANTS
  Writer = {w1, w2}
  Reader = {r1}
  NoProc = NoProc
  Val = {0, 1}
  PIPESIZE = 2
  CounterMod = 4
  MaxN = 2
CONSTRAINT OneKilled
INVARIANTS NoLostWakeup FreedUnused
PROPERTIES IsFifo CloseReleases
