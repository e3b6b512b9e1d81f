SPECIFICATION Spec
CONSTANTS
  Orders = {k1}
  Handlers = {h1}
  Unlocked = {"sweep"}
  Faults = FALSE
  MaxObjs = 1
  MaxCrash = 0
INVARIANTS
  CleanMeansStored
CHECK_DEADLOCK FALSE
