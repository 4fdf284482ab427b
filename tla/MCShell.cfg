SPECIFICATION Spec
CONSTANTS
  MAXARGS = 3
  NPROC = 7
  NOFILE = 5
  NPIPE = 2
  Lines <- MCLines
  ParsedOnly <- MCParsedOnly
  BadTexts <- MCBadTexts
  Filters <- MCFilters
  MaxLines = 2
CHECK_DEADLOCK FALSE
INVARIANTS ParsesLine Wired
PROPERTY CommandEnds
