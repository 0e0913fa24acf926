CONSTANTS
  P = 2
  NB = 2
  BlockSize = 1
  Calls = 1
  Absent = Absent
  ZeroToken = ZeroToken
  BlockBytes = {1}
  IntMax = 7
SPECIFICATION Spec
INVARIANTS EveryBlockDelivered
