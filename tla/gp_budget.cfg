\* One host, two datasets, bodies that do and do not fit the ceilings, one kill.
SPECIFICATION Spec
CONSTANTS
  h1 = h1
  h2 = h2
  big = big
  mid = mid
  small = small
  b1 = b1
  b2 = b2
  b3 = b3
  Datasets = {big, small}
  Bodies = {b1, b2, b3}
  NoBody = NoBody
  SizeOf <- MCSizeOf
  CountOf <- MCCountOf
  MinRecords <- MCMinimum
  DropPercent = 20
  Floor = 1
  RetryInterval = 1
  Window = 2
  Budget = 3
  ResponseLimit = 2
  Cap <- MCCap
  MarginPercent = 50
  Stamps <- MCStamps
  Hosts = {h1}
  NoHost = NoHost
  SkewOf <- MCSkewOf
  MaxSkew = 0
  Upstream = 1
  MaxDelay = 0
  NoDataset = NoDataset
  Rank <- MCRank
  Legacy = {big}
  LegacyBody = b1
  LegacySize = 9
  Chunk = 1
  ErrorSizes = {1}
  MaxClock = 2
  MaxFaults = 1
  Faults = {"crash"}
  Warning = 1
  Critical = 2
INVARIANTS
  WireBudget
  OnlyMeasuredIsDeclined
  ExhaustionReported
  StaleIsReported
PROPERTIES
  LastKnownGood
  CapIsFinal
  FairTurn
