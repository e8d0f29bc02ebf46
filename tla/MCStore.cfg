SPECIFICATION StoreSpec
CONSTANTS
  Resources = {r1, r2}
  Packages = {p1, p2}
  ChangeIds = {c1}
  NoBase = NoBase
  NoId = NoId
  Invalid <- Failed
  Docs <- MCDocs
  EmptyDoc <- MCEmptyDoc
  Patches <- MCPatches
  PatchResult <- MCPatchResult
  MaxRevision = 2
  Tokens <- MCTokens
  IntOf <- MCIntOf
  NotInt = NotInt
  Operations <- MCOperations
  Values <- MCValues
  Paths <- MCPaths
  Characters <- MCCharacters
  MaxSize = 5
  MaxToken = 4
SYMMETRY MCSymmetry
INVARIANTS
  StoreMatchesLog
  LogIsChain
  SwapsOnItsBase
  DecodeUndoesEncode
  TouchesOnlyItsPath
  ArraysShiftByOne
CHECK_DEADLOCK FALSE
