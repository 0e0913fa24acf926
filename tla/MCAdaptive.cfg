CONSTANTS
  Threads = {t1, t2}
  Requests <- AllCalls
  Plans <- AllPlans
  MaxCalls = 2
  Untouched = Untouched
  Raised = Raised
  Zeros = Zeros
  t1 = t1
  t2 = t2
SPECIFICATION Spec
INVARIANTS IInv SafeCallersAreServed EntriesFitTheirKeys
CHECK_DEADLOCK FALSE
