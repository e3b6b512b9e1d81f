SPECIFICATION Spec
CONSTANTS
  Orders = {o1}
  Stops = {}
  Amount = 2
  MaxEdits = 0
  QueueCap = 2
  InOrder = TRUE
  Duplicates = FALSE
  Errors = FALSE
  Expires = FALSE
INVARIANTS
  ExitIsFull
CHECK_DEADLOCK FALSE
