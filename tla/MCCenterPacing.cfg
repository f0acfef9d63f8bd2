CONSTANTS
  MAX_RANK = 32
  MIN_RANK = 4
  ManualUnit = 1
  IndexUnit = 1
  Str = {1, 2, 4}
  Dom <- MCDom
  Trim <- MCTrim
  LinkType <- PacingLinks
  Blocks <- NoBlocks
  Long = {FALSE}
  ManualFile = {1}
  MaxPerDomain = 2
  TimeStep = 31
  MaxTime = 63
  MaxWire = 2
  MaxInput = 4
  MaxDump = 0
  MaxCrash = 0
SPECIFICATION Spec
PROPERTIES ManualPacing
CHECK_DEADLOCK FALSE
