SPECIFICATION Spec
CONSTANTS
  t1 = t1
  t2 = t2
  r1 = r1
  r2 = r2
  r3 = r3
  r4 = r4
  Threads = {t1, t2}
  Robots = {r1, r2, r3, r4}
  None = None
  Settings <- ReadSettings
  FloatLimit = 1
INVARIANTS
  DisconnectedIsRetried
