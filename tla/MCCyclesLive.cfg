CONSTANTS
  v1 = v1
  v2 = v2
  Version <- MCVersion
  Founders <- MCFounders
  Proc = {w1}
  Quota = 1
  MaxEpoch = 2
  MinObs = 1
  TopK = 1
  EliteSlots = 2
  MaxGen = 2
  MaxFaults = 2
  Worker = {w1}
  NoWorker = NoWorker
  Warm = 1
  LastBar = 3
  MaxCatchup = 2
  MaxAttempts = 3
  MaxUpsets = 2
SPECIFICATION FairCyclesSpec
INVARIANTS
  ExtinctionRecordedOnce
PROPERTIES
  DecisionsInOrder
  NeverBlocked
  CandidatesDecided
CHECK_DEADLOCK FALSE
