\* Five periods, of which the first two are only looked back on; two policies.
SPECIFICATION Spec
CONSTANTS
  Start = 0
  End = 5
  RunPeriod = 1
  ReviewPeriod = 2
  Modes = {"bt"}
  Pickers = 2
  Keys = {"a", "b"}
  Results = {5, 20}
  MaxStops = 1
INVARIANT
  NoFuture
CHECK_DEADLOCK FALSE
