CONSTANTS
  Key = {k1, k2}
  Rec = {v1, v2}
  None = None
  Writer = {w1, w2}
  Reader = {r1, r2}
  CenterReader = r1
  MaxBdbNum = 2
  ModOf <- MCModOf
  SyncEvery = 2
  MaxInsert = 3
  MaxCrash = 1
SPECIFICATION Spec
INVARIANTS TypeOK UnsyncedBounded StopKeepsAll SearchOwn
PROPERTIES SyncedForever StopCompletes
CHECK_DEADLOCK FALSE
