CONSTANTS
  URL = {"u"}
  PageLen = {1}
  MAX_HTML_LEN = 4
  Slack = 2
  LogLen = {2}
  UINT = 16
  Compressible = 4
  FetchThr = {1}
  ProduceThr = {1}
  DomainTypes = {"ZONGHE", "BBS", "NEWS"}
  MaxDispatch = 1
  MaxDeath = 0
SPECIFICATION Spec
INVARIANT DictGiven
CHECK_DEADLOCK FALSE
