SPECIFICATION DeskSpec
INVARIANTS
  DeskTypeOK
  ExitsAddUp
  RelayCatchesUp
  LimitsKept
  
  ComparesSound
  EntryStopsSound
PROPERTIES
  EnterStopsSound
  RotationSound
  RestartSound
CHECK_DEADLOCK FALSE
