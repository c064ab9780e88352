SPECIFICATION Spec
CHECK_DEADLOCK FALSE
CONSTANTS
  Threads = {t1, t2}
  Sizes = {1, 2}
  SaveFails = FALSE
  MaxCalls = 2
  MaxDestroyed = 0
INVARIANTS OwnImages
