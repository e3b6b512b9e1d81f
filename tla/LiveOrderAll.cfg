SPECIFICATION AllSpec
CONSTANTS
  Orders = {o1}
  Stops = {o1}
  Amount = 3
  MaxEdits = 1
  QueueCap = 2
  InOrder = FALSE
  Duplicates = TRUE
  Errors = FALSE
  Expires = FALSE
INVARIANTS
  TypeOK
  IInv
  SavedWhenFree
  FillsInv
  MovedStopsAreClosed
  DoublesSettle
PROPERTIES
  FullExitIsFinal
  EnteredNeverShrinks
  DoublesExitCompletes
CHECK_DEADLOCK FALSE
