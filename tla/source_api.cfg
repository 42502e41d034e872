SPECIFICATION Spec
CONSTANTS
  ChunkSize = 2
  RingSize = 3
  Cue = 2
  NoBlock = TRUE
  WaitModes = {"ASYNC", "TIMED"}
  Kinds = {"good", "bad", "short"}
  Localities = {"local", "remote"}
  FileLen = 1
  MaxFill = 2
  MaxOpens = 2
  MaxDown = 3
INVARIANTS
  TypeOK
  EveryFillAccountedFor
  ChunkOwned
  ValidBufferIsCurrent
  RepeatedOnlyAfterFailedPut
  NothingStranded
PROPERTIES OrderlyStation PutBackOnlyWhenRead
