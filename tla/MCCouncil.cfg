SPECIFICATION CouncilSpec
CONSTANTS
  a1 = a1
  a2 = a2
  a3 = a3
  j = j
  k1 = k1
  k2 = k2
  Analyst <- MCAnalyst
  Judge = j
  Caller <- MCCaller
  Key <- MCKey
  Answer <- MCAnswer
  MaxTries = 2
  Concurrency = 2
  MaxRotations = 1
  MinSuccessful = 2
  Margin = 2
  Interval = 2
  MaxBar = 2
SYMMETRY Symmetric
CHECK_DEADLOCK FALSE
INVARIANTS
  BookedOnItsKey
PROPERTIES
  EntryBacked
