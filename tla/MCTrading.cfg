CONSTANTS
  Price <- MCPrice
  Entry = 12
  Stops = {0, 6}
  Targets = {6}
  Trails = {0, 3}
  Activations = {0, 3}
  Balances = {9, 12}
  Rate <- MCRate
  Modes = {TRUE, FALSE}
  Quote = {2, 4, 7}
  Stop = 2
  Fee = 1
  Penalty = 1
  Start = 6
  Maintenance = 1
  MinOrder = 2
  MinViable = 1
  Regimes <- MCRegimes
  Settlements = {2, 4}
  LastBar = 7
  Session = {s1}
  Library <- MCLibrary
  Seeds <- MCSeeds
  OosLen = 1
  ValLen = 1
  MinTrain = 1
  Embargo = 0
  Horizon = 0
  MaxWindows = 3
  MinWindows = 1
  MinNew = 2
  MaxTick = 4
  MaxRecords = 3
  Dnas <- MCDnas
  Marks = {9, 12}
  Scenes <- MCScenes
  Books <- MCBooks
  Engines = {"next_open", "signal_close", "shadow"}
  Observing = TRUE
  Funds = 40
  Sizes = {50, 100}
  Drifts <- MCDrifts
  Slippage = 1
  LotSize = 2
  MinNotional = 30
  Limits <- MCLimits
  Scaling <- MCScaling
  SettleAfter = 2
  Rounds = 2
SPECIFICATION TradingSpec
INVARIANTS
  PathHonoured
  TradesAgree
  ShadowAgrees
  NotRepeated
  RiskAsSized
  AdmittedAlike
  CashIsFills
CHECK_DEADLOCK FALSE
