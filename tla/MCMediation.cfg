CONSTANTS
  k1 = k1
  k2 = k2
  i1 = i1
  i2 = i2
  w1 = w1
  w2 = w2
  Keys = {k1, k2}
  Ids = {i1, i2}
  Callbacks = {w1}
  None = None
  MaxRestarts = 2
  MaxDrops = 0
SPECIFICATION Spec
SYMMETRY Symmetry
INVARIANTS
  TypeOK
  OneResolution
  HeardOnce
  MemoryIsFoldOfLog
  NoZombies
PROPERTIES
  ImplementsPromise
CHECK_DEADLOCK FALSE
