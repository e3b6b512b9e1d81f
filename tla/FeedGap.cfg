SPECIFICATION FairSpec
CONSTANTS
  Start = 5
  Stop = 9
  Tfs = {1, 2}
  Later = {}
  SaveWorkers = 1
  Handlers = 1
  FailAt = {}
  MaxFail = 0
  MaxDrop = 1
INVARIANTS
  NoneMissing
CHECK_DEADLOCK FALSE
