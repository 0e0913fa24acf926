CONSTANTS
  P = 2
  NB = 2
  Calls = 2
  Absent = Absent
  ZeroBlock = ZeroBlock
SPECIFICATION FairSpec
INVARIANTS TypeOK IInv SyncInv NobodyLeftBehind DevicesAgree AttendsOnlyActive NoBlockTwice
PROPERTIES ImplementsGlobalAttention EveryCallReturns
