SPECIFICATION FairSpec
CONSTANTS
  Cpu = {0, 1}
  NPROC = 2
  Calls <- CallsLive
  KillPids = {}
  Pauses = {1}
  TickMod = 2
  MaxPid = 2
PROPERTIES WaitReturns RunnableRuns PauseReturns
