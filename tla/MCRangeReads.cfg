SPECIFICATION Spec
CONSTANTS
  t1 = t1
  t2 = t2
  all = all
  some = some
  Tx = {t1, t2}
  Client = {c1}
  MaxBlock = 2
  U64Max = 4
  Count = {0, 1, 2, 4}
  Number = {1, 3, 4}
  Filter = {all, some}
  Wanted <- MCWanted
  Collection <- MCCollection
INVARIANTS
  FeesOfBlocksAsked
  LatestFees
  NoLogMissed
  LogsWithinBounds
