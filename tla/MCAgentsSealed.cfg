CONSTANTS
  MaxBar = 5
  Starting = 4
  Fee = 1
  Penalty = 1
  Move = 2
  Maintenance = 1
  Bankrupt = 1
  MinViable = 1
  ForceAfter = 2
  Settlements = {2, 3, 5}
  Timings = {"next_open", "immediate"}
  Observed = TRUE
  ExitRejects = TRUE
  Transient = TRUE
  Rollbacks = {"decide", "protect"}
  First = {a1, a2}
  Second = {b1}
  Interval = 2
  Horizons = {2, 3}
  Grid = 1
  Reader = {r1}
  MaxClock = 6
  MaxScores = 1
  Excursion = {0, 1}
  FinalBar = 3
  PostBars = 1
  Family = {f1}
  Regimen = {r_up, r_down}
  Unattributed = u
  MinEpisodes = 2
  Windows = {0, 2}
  MaxBars = 4
  MaxTrades = 3
  Capital = 4
  Pnl <- MCPnl
  Marks <- MCMarks
  SealedFrom = 2
  SealedTo = 3
  DayLength = 2
  Confident = 2
  FinalTick = 5
  Regimes = {"up", "down", "flat"}
  Share = 60
  Positive = 70
  MinTrades = 2
  MinDays = 1
  MinStageDays = 1
  MinObserved = 1
  Untagged = {1, 2}
SPECIFICATION AgentsSpec
INVARIANTS
  SealedUnseen
CHECK_DEADLOCK FALSE
