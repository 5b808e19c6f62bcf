SPECIFICATION Spec
CONSTANTS
  Run = {r1, r2}
  r1 = r1
  r2 = r2
  Old = Old
  None = None
  Faulty = {"set", "purge", "delete", "relocate"}
  Apart = TRUE
  MaxUpheavals = 1
INVARIANT DeletionLeavesNothing
PROPERTY StopSettles
CHECK_DEADLOCK FALSE
