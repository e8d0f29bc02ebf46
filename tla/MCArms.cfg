SPECIFICATION ArmSpec
CONSTANTS
  t1 = t1
  t2 = t2
  r1 = r1
  r2 = r2
  r3 = r3
  Threads = {t1, t2}
  Robots = {r1, r2, r3}
  None = None
  Settings <- MCSettings
  FloatLimit = 1
  c1 = c1
  c2 = c2
  c3 = c3
  f1 = f1
  f2 = f2
  Conns = {c1, c2, c3}
  Reads = {f1, f2}
  NoRead = NoRead
INVARIANTS
  OneReadPerEnd
  TableIsTrue
PROPERTIES
  ClosedForGood
  LockIsReleased
  FrameMovesOn
