SPECIFICATION Spec
CONSTANTS
  r1 = r1
  r2 = r2
  r3 = r3
  r4 = r4
  a1 = a1
  a2 = a2
  a3 = a3
  Request = {r1, r2, r3, r4}
  Signer <- MCSigner
  Genesis = {a3}
  NoOne = NoOne
  MayLose = TRUE
  MaxRestarts = 1
INVARIANTS
  TypeOK
  NeverAhead
  InStep
  DeployBeforeSubmit
  EachMissWastesOne
PROPERTIES
  ImplementsSequencer
  EveryRequestEnds
