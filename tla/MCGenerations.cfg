CONSTANTS
  MaxBar = 5
  Starting = 3
  Fee = 1
  Penalty = 1
  Move = 1
  Maintenance = 0
  Bankrupt = 1
  MinViable = 1
  ForceAfter = 1
  Settlements = {3, 4, 5}
  Observed = FALSE
  ExitRejects = TRUE
  MaxFaults = 1
  Family = {"trend_following"}
  Period = {20, 28, 34}
  Leverage = {1}
  Legacy <- MCLegacy
  MaxAlive = 3
  MaxTries = 1
SPECIFICATION GenerationsSpec
INVARIANTS
  CleanRollover
  LeftoversGo
  CandidatesWhole
  SameTrades
PROPERTIES
  NeverRevived
CHECK_DEADLOCK FALSE
