SPECIFICATION MortalLoopSpec
CONSTANTS
  ChunkSize = 2
  RingSize = 3
  Cue = 2
  NoBlock = FALSE
  WaitModes = {"SLEEP"}
  Kinds = {"good"}
  Localities = {"local", "remote"}
  FileLen = 2
  MaxFill = 4
  MaxOpens = 1
  MaxDown = 5
CHECK_DEADLOCK FALSE
INVARIANT SuccessIsANewEvent
