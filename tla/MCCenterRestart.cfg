CONSTANTS
  MAX_RANK = 32
  MIN_RANK = 8
  ManualUnit = 4
  IndexUnit = 1
  Str = {1, 2, 3}
  Dom <- RDom
  Trim <- MCTrim
  LinkType <- RLinks
  Blocks <- NoBlocks
  Long = {TRUE}
  ManualFile = {1}
  MaxPerDomain = 1
  TimeStep = 31
  MaxTime = 32
  MaxWire = 1
  MaxInput = 3
  MaxDump = 2
  MaxCrash = 1
SPECIFICATION Spec
INVARIANTS GivenUpOnlyAfterFailures TypeOK DumpCovers FinishedDumpAccepted
PROPERTIES RestartLoads
CHECK_DEADLOCK FALSE
