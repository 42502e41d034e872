SPECIFICATION Spec
CONSTANTS
  Events <- MCEvents
  Settings <- MCSettings
  Tags = {1, 2}
  Nums = {0, 1}
  BookTypes = {"uint32"}
  Names = {"a"}
  MaxEvents = 2
  MaxBanks = 2
  MaxLeafs = 2
CHECK_DEADLOCK FALSE
INVARIANTS
  TypeOK
  InSync
  ParsedFaithfully
  AutoAddKeepsAll
  CrateIsEnclosingTag
  CallBackSeesAll
  NamesResolve
