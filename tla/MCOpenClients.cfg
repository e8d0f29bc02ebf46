SPECIFICATION Spec
CONSTANTS
  c1 = c1
  c2 = c2
  c3 = c3
  t1 = t1
  t2 = t2
  r = r
  Conns = {c1, c2, c3}
  Fragile = {c3}
  Tasks = {t1, t2}
  ClientIds = {"a", "b"}
  NoOne = "nobody"
  Sources = {"arm"}
  HighWater = 1
  Repertoires <- MCRepertoires
  Resources = {r}
  Docs <- MCDocs
  EmptyDoc = {}
  Patches <- MCPatches
  PatchResult <- MCPatchResult
  Invalid = {"raised"}
  Packages = {"P", "Q"}
  ChangeIds = {"c1", "c2", "c3"}
  NoBase = NoBase
  NoId = NoId
CHECK_DEADLOCK FALSE
INVARIANTS
  NoTaskMissed
  RegisteredIsServed
  ClaimsAgree
