SPECIFICATION Spec
CONSTANTS
  MaxFaults = 1
  Deltas <- MCDeltas
  MaxJoint = 2
  Misses <- MCMisses
  Probe <- MCProbe
  RestoreSteps = 4
  Rounds = 2
  ProbeDelta = 3
  Target = 2
  MaxDelta = 2
  MaxSteps = 2
  Tolerance <- MCTolerance
  Bridges = {b1}
  NoBridge = NoBridge
  Webs = {w1}
  MaxStep = 1
  Reach = 2
  MaxInFlight = 2
  LeaderAt <- MCLeaderAt
  LeaderMoves = 1
  Casts <- MixedCasts
PROPERTY
  OtherArmUnchanged
CHECK_DEADLOCK FALSE
