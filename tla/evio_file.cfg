SPECIFICATION Spec
CONSTANTS
  EventSizes = {14, 40}
  DictSizes = {5}
  FirstSizes = {14}
  Targets = {20, 56}
  Buffers = {72}
  EventMaxima = {1}
  Splits = {46}
  EV_BLOCKSIZE_V4 = 48
  EV_BLOCKSIZE_MIN = 16
  EV_EVENTS_MAX_DEF = 2
  EV_SPLIT_SIZE = 60
  Foreign <- MCForeign
  MaxEvents = 3
  MaxOpens = 2
  MaxIoctls = 1
  MaxFiles = 3
INVARIANTS TypeOK ReadsBack RandomAccessAgrees SplitWithinLimit
PROPERTY OnlyGrows
CHECK_DEADLOCK FALSE
