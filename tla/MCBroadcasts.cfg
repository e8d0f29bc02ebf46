SPECIFICATION BroadcastSpec
CONSTANTS
  c1 = c1
  c2 = c2
  c3 = c3
  t = t
  r = r
  Conns = {c1, c2, c3}
  Fragile = {c3}
  Tasks = {t}
  ClientIds = {"a", "b"}
  NoOne = "nobody"
  Sources = {"arm"}
  HighWater = 0
  Repertoires <- MCRepertoires
  Resources = {r}
  Docs <- MCDocs
  EmptyDoc = {}
  Patches <- MCPatches
  PatchResult <- MCPatchResult
  Invalid = {"raised"}
  Packages = {"P", "Q"}
  ChangeIds = {"c1", "c2", "c3"}
  NoBase = NoBase
  NoId = NoId
CHECK_DEADLOCK FALSE
PROPERTIES
  IsAnnouncementBoard
  HandlersRecover
  ReplayEnds
