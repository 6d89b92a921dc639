CONSTANTS
  k1 = k1
  k2 = k2
  i1 = i1
  i2 = i2
  w1 = w1
  w2 = w2
  Keys = {k1}
  Ids = {i1}
  Callbacks = {w1, w2}
  None = None
  MaxRestarts = 2
  MaxDrops = 1
SPECIFICATION FairSpec
PROPERTIES
  TimedRequestsResolve
  AcceptedAnswersLand
CHECK_DEADLOCK FALSE
