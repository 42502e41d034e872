SPECIFICATION FairSpec
CONSTANTS
  e1 = e1
  e2 = e2
  e3 = e3
  e4 = e4
  sP = sP
  sX = sX
  sY = sY
  prod = prod
  atP = atP
  atX = atX
  atY = atY
  GC = GC
  None = None
  Positions <- ThePositions
  Events = {e1, e2, e3, e4}
  Watched = {e1}
  Configs <- AllRings
  Att <- TheAtt
  MaxNum = 2
  Modes = {"out", "in", "gc", "redist"}
INVARIANTS EachInOnePlace RoundRobinIsFair ListsAsAsked
PROPERTIES EqualCueLevels ComesBack
