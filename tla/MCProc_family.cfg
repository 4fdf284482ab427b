SPECIFICATION Spec
CONSTANTS
  Cpu = {1, 2}
  NPROC = 3
  Calls <- CallsFamily
  KillPids = {3}
  Pauses = {}
  TickMod = 1
  MaxPid = 3
INVARIANTS SwitchSafe SleepersMustWait ParentsAlive
