SPECIFICATION Spec
CONSTANTS
  t1 = t1
  t2 = t2
  eoa = eoa
  ca = ca
  odd = odd
  Tx = {t1, t2}
  Account <- MCAccount
  Class <- MCClass
  Bumps <- MCBumps
  Hash <- MCHash
  Client = {c1}
  MaxBlock = 3
  Collection <- MCCollection
PROPERTIES
  SealedBlockByNumber
