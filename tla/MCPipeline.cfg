CONSTANTS
  URL = {"u"}
  PageLen = {1, 5}
  MAX_HTML_LEN = 4
  Slack = 2
  LogLen = {2}
  UINT = 16
  Compressible = 4
  FetchThr = {1}
  ProduceThr = {1}
  DomainTypes = {"ZONGHE", "NEWS"}
  MaxDispatch = 3
  MaxDeath = 1
SPECIFICATION FairSpec
INVARIANTS TypeOK SkippedWasSaved
PROPERTY Answered
CHECK_DEADLOCK FALSE
