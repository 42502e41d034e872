SPECIFICATION Spec
CONSTANTS
  Events <- MCWideEvents
  Settings <- MCSettings
  Tags = {1}
  Nums = {0}
  BookTypes = {"uint32"}
  Names = {"a"}
  MaxEvents = 1
  MaxBanks = 1
  MaxLeafs = 1
CHECK_DEADLOCK FALSE
INVARIANT CopiesTheData
