CONSTANTS
  Worker = {w1, w2}
  NoWorker = NoWorker
  Warm = 1
  LastBar = 3
  MaxCatchup = 2
  MaxAttempts = 3
  MaxUpsets = 1
SPECIFICATION CycleSpec
PROPERTIES
  DecisionsInOrder
CHECK_DEADLOCK FALSE
