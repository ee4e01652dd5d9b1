CONSTANTS
  v1 = v1
  v2 = v2
  Version <- MCVersion
  Founders <- MCFounders
  Proc = {p1}
  Quota = 1
  MaxEpoch = 2
  MinObs = 1
  TopK = 1
  EliteSlots = 2
  MaxGen = 2
  MaxFaults = 2
SPECIFICATION SafetySpec
INVARIANTS
  PipelineAgrees
