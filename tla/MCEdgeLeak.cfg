CONSTANTS
  Session = {s1}
  Library <- MCOne
  Seeds = {}
  OosLen = 2
  ValLen = 2
  MinTrain = 2
  Embargo = 1
  Horizon = 0
  MaxWindows = 12
  MinWindows = 2
  MinNew = 3
  MaxTick = 12
  MaxRecords = 1
SPECIFICATION EdgeSpec
INVARIANT NothingLeaksBack
CHECK_DEADLOCK FALSE
