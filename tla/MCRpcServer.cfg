SPECIFICATION Spec
CONSTANTS
  token = token
  broken = broken
  none = none
  Defect = {"rust_log", "felt", "rpc_url", "mongo", "deployer", "connections", "address"}
  Client = {c1}
  Token = {token, broken, none}
  Broken = {broken}
  NoCode = {none}
  List <- MCList
  MaxBalance = 1
INVARIANTS
  TokensInOrder
PROPERTIES
  GoodEnvironmentServes
  EveryCallEnds
