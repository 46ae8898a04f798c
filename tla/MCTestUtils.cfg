SPECIFICATION MCSpec
CONSTANTS
  t1 = t1
  t2 = t2
  Test = {t1, t2}
  Doc <- MCDoc
  MaxOps = 2
  MaxPolls = 2
  kakarot1 = kakarot1
  kakarot2 = kakarot2
  account1 = account1
  eoa1 = eoa1
  proxy1 = proxy1
  precompiles1 = precompiles1
  a = a
  b = b
  c = c
  zero = zero
  Artifact <- MCArtifact
  Stem <- MCStem
  Hash <- MCHash
  Evm = {a, b, c}
  Zero = zero
  Alloc <- MCAlloc
  Coinbase = c
  Base = 2
  File <- MCFile
  MaxHead = 3
INVARIANTS
  MockDocuments
  NonceIsNext
  ConfirmedIsSealed
  SendersFound
  AccountsRegistered
  FundsSurvive
  ImportFaithful
  InBodyOrder
PROPERTIES
  WatchEnds
  ImportEnds
