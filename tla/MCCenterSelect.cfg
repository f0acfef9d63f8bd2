CONSTANTS
  MAX_RANK = 32
  MIN_RANK = 4
  ManualUnit = 1
  IndexUnit = 1
  Str = {1, 2, 4}
  Dom <- MCDom
  Trim <- MCTrim
  LinkType <- SelectLinks
  Blocks <- MCBlocks
  Long = {FALSE}
  ManualFile = {2}
  MaxPerDomain = 2
  TimeStep = 31
  MaxTime = 32
  MaxWire = 1
  MaxInput = 3
  MaxDump = 0
  MaxCrash = 0
SPECIFICATION FairSpec
INVARIANTS ManualStays
PROPERTIES NormalOnce ManualPacingInOrder NewIsSelected
CHECK_DEADLOCK FALSE
