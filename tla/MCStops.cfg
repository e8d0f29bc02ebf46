SPECIFICATION StopsSpec
CONSTANTS
  Pids = {1, 2}
  NoPid = 0
  Batch = 1
  Corrections = 1
  Casts <- MCCasts
  MaxMessages = 3
  CommandsFail = TRUE
  StopsFail = TRUE
  LinkBreaks = TRUE
INVARIANTS
  StopIsObeyed
  OneOwner
  BackgroundIsReachable
  OneReader
  InOrder
  StopWaitsForOnePoll
PROPERTIES
  StoppedLoopsEnd
  StopIsForwarded
CHECK_DEADLOCK FALSE
