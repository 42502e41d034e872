SPECIFICATION Spec
CONSTANTS
  e1 = e1
  e2 = e2
  e3 = e3
  g1 = g1
  s1 = s1
  s2 = s2
  SYS = SYS
  NULL = NULL
  EventOrder <- TheEvents
  High <- TheHigh
  Att <- TheAtt
  Producers <- TheProducers
  Consumers <- TheConsumers
  Stat <- TheStat
  Modes = {"out", "in", "gc", "redist"}
  MaxNum = 2
  MaxDeaths = 1
INVARIANTS TypeOK ListsIntact LostOnlyInHand MonitorWaitsForOneDeath
PROPERTIES RepairIsClean
VIEW LiveState
CHECK_DEADLOCK FALSE
