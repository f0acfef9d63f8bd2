CONSTANTS
  URL = {u1, u2, u3}
  LongURL = {u3}
  RecvThr = {r1, r2}
  SendThr = {s1, s2}
  MaxListNum = 0
  DictCap = 1
  MaxInput = 3
  MaxCrash = 1
SPECIFICATION FairSpec
INVARIANTS TypeOK ListBounded AtMostOnce Accounted
PROPERTIES SettledStays LedgerSpec AllLeave
