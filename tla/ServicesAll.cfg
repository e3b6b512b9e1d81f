SPECIFICATION AllSpec
PROPERTIES
  LockSound
  HookSound
  BatchSound
  TasksSound
  TriggerSound
CHECK_DEADLOCK FALSE
