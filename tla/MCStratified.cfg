CONSTANTS
  P = 2
  NB = 3
  Calls = 2
  Absent = Absent
SPECIFICATION FairSpec
INVARIANTS TypeOK TightestFit SameBranch
PROPERTIES ImplementsGlobalAttention EveryCallReturns
