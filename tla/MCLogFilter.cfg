SPECIFICATION FilterSpec
CONSTANTS
  a = a
  b = b
  Topic = {a, b}
  MaxPositions = 3
INVARIANTS
  PlainFilterExact
