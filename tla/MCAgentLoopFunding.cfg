CONSTANTS
  MaxBar = 5
  Starting = 3
  Fee = 1
  Penalty = 1
  Move = 3
  Maintenance = 1
  Bankrupt = 0
  MinViable = 1
  ForceAfter = 2
  Settlements = {2, 3, 4, 5}
  Timings = {"next_open", "immediate"}
  Observed = FALSE
  ExitRejects = FALSE
  Transient = FALSE
  Rollbacks = {}
SPECIFICATION Spec
INVARIANTS
  AlwaysProtected
CHECK_DEADLOCK FALSE
