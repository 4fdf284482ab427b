SPECIFICATION Spec
CONSTANTS
  Proc = {p1, p2, p3}
  NoProc = NoProc
  Block = {v, w, x, y, z}
  NoBlock = NoBlock
  NBUF = 4
  NUM = 8
  MaxCalls = 3
  Uses = {"write", "log", "install"}
  MaxPins = 1
SYMMETRY Symmetry
INVARIANTS HolderSeesLatest DescsExact WakeupsNotLost 
