CONSTANTS
  Thread = {t1, t2}
  h1 = h1
  h2 = h2
  Host = {h1, h2}
  MAX_IP_NUM = 2
  Known <- MCKnown
  Day = 0
  MaxTime = 1
  NULL = NULL
  Freed = Freed
  Wild = Wild
  Responses <- MCResponses
  followRedirects = 1
  DefaultLen = 2
  MaxBody = 2
  MaxFetch = 1
SPECIFICATION FairSpec
INVARIANTS AddressFresh NothingLeaks BodyFits
PROPERTIES FetchEnds
CHECK_DEADLOCK FALSE
