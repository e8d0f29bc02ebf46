SPECIFICATION LiveSpec
CONSTANTS
  c1 = c1
  c2 = c2
  c3 = c3
  t1 = t1
  t2 = t2
  r = r
  Conns = {c1, c2, c3}
  ClientIds = {c1, c2, c3}
  Casts <- MCCasts
  TaskOf <- MCTaskOf
  ChangeOf <- MCChangeOf
  Fragile = {c3}
  Tasks = {t1, t2}
  NoOne = NoOne
  Sources = {}
  HighWater = 0
  Resources = {r}
  Docs <- MCDocs
  EmptyDoc = {}
  Patches = {"planner", "safety"}
  PatchResult <- MCPatchResult
  Invalid = {"raised"}
  Packages = {"planner", "safety"}
  ChangeIds = {"planner", "safety"}
  NoBase = NoBase
  NoId = NoId
CHECK_DEADLOCK FALSE
INVARIANTS
  NothingLeftBehind
  OneWins
PROPERTIES
  SubmitterReturns
  PackageReturns
