SPECIFICATION Spec
CONSTANTS
  Loops = {"inner", "outer", "twin"}
  Layout <- Nested
  Programs <- SharedOrNested
CHECK_DEADLOCK FALSE
INVARIANT StillVerifies
