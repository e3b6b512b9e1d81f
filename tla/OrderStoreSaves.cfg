SPECIFICATION AllSpec
CONSTANTS
  k3 = k3
  h3 = h3
  Orders = {k1, k2}
  Handlers = {h1, h2}
  Unlocked = {}
  Faults = TRUE
  MaxObjs = 2
  MaxCrash = 1
INVARIANTS
  StoreAgrees
  SubmittedIsStored
  SentIsMapped
  SharedOnlyClosed
PROPERTIES
  ClosedRowStays
SYMMETRY AllPerms
CHECK_DEADLOCK FALSE
