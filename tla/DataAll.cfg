SPECIFICATION DataSpec
INVARIANTS
  StoreKnowsItsBars
  PipeSound
PROPERTIES
  StoreRepairs
  EnvStreams
  FilesSound
CHECK_DEADLOCK FALSE
