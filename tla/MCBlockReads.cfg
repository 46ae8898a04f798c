SPECIFICATION Spec
CONSTANTS
  Tx = {t1, t2}
  Client = {c1}
  MaxBlock = 2
  Collection <- MCCollections
  Op <- MCOps
  Hash <- MCHash
  Withdrawn <- MCWithdrawn
SYMMETRY Symmetry
INVARIANTS
  TypeOK
  LatestFound
  HeaderAndTxsAgree
PROPERTIES
  StoredBlockIsWhole
  MonotonicBlock
  MonotonicHead
