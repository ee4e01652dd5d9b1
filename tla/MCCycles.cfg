CONSTANTS
  v1 = v1
  v2 = v2
  Version <- MCVersion
  Founders <- MCFounders
  Proc = {w1, w2}
  Quota = 1
  MaxEpoch = 2
  MinObs = 1
  TopK = 1
  EliteSlots = 2
  MaxGen = 2
  MaxFaults = 1
  Worker = {w1, w2}
  NoWorker = NoWorker
  Warm = 1
  LastBar = 3
  MaxCatchup = 1
  MaxAttempts = 3
  MaxUpsets = 1
SPECIFICATION CyclesSpec
SYMMETRY Symmetry
INVARIANTS
  OosOncePerVersion
  LineageQuota
  OneChampionPerLineage
  OneSuccessor
  NoBarLeftBehind
CHECK_DEADLOCK FALSE
