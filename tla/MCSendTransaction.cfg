SPECIFICATION Spec
CONSTANTS
  r1 = r1
  Request = {r1}
  Half = 8
  U64Max = 7
  WordMax = 11
  FeeMax = 9
  GasMax = 4
  ChainIds = {1, 3, 9}
  VOffset = 1
  Signature <- MCSignature
INVARIANTS
  MaxFeeCovered
  FeesLeft
  SignatureKept
