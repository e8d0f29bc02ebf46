SPECIFICATION FeedsSpec
CONSTANTS
  c1 = c1
  c2 = c2
  c3 = c3
  x1 = x1
  x2 = x2
  a = a
  b = b
  Caps = {c1, c2, c3}
  Resetters = {x1, x2}
  Nothing = Nothing
  Pictures = {a, b}
  MayFail = TRUE
  Manual = TRUE
  Cameras = {"top", "depth"}
  Slots = 2
INVARIANTS
  OneCapture
  AbsenceIsExplained
PROPERTIES
  StuckIsReset
  LostIsRetried
  WorkerRestarts
  SlotsComeBack
CHECK_DEADLOCK FALSE
