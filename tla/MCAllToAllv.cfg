CONSTANTS
  P = 2
  NB = 2
  BlockSize = 1
  Calls = 2
  Absent = Absent
  ZeroToken = ZeroToken
  BlockBytes = {1, 3}
  IntMax = 7
SPECIFICATION FairSpec
INVARIANTS OffsetsAgree KeysMatchValues SavingsExact
PROPERTIES EveryCallReturns
