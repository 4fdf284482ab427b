SPECIFICATION Spec
CONSTANTS
  Char = {"a"}
  NL = "NL"
  EOF = "EOF"
  ERASE = "ERASE"
  KILL = "KILL"
  Reader = {r1}
  Writer = {w1}
  Printer = {c1}
  ReadSizes = {2}
  INPUT_BUF_SIZE = 2
  IdxMod = 4
  StartIdx = 3
  Chunk = 2
  MaxEvents = 5
CHECK_DEADLOCK FALSE
INVARIANTS NoLostWakeup NoTxOverrun
PROPERTIES IsLineDiscipline WritesEnd
