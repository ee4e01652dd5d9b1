CONSTANTS
  Worker = {w1, w2}
  NoWorker = NoWorker
  TTL = 2
  MaxTime = 6
  MaxBar = 3
  MaxNow = 7
  Warm = 1
  Interval = 2
  Grace = 2
  Tolerance = 1
  StaleFrames = 2
  StaleAfter = 5
  MaxCatchup = 1
  Websocket = TRUE
  MaxOmitted = 1
SPECIFICATION StoreSpec
SYMMETRY Symmetry
INVARIANTS
  TypeOK
  OneHolder
  LocalFenceSound
  ConfirmedWhole
  DecidedOnStored
PROPERTIES
  NoEntryThroughKnownGap
  TokensOrdered
  FencedWriterSpec
CHECK_DEADLOCK FALSE
