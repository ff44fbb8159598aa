\* A run killed while a body is streaming.
SPECIFICATION Spec
CONSTANTS
  h1 = h1
  h2 = h2
  big = big
  mid = mid
  small = small
  b1 = b1
  b2 = b2
  b3 = b3
  Datasets = {small}
  Bodies = {b2}
  NoBody = NoBody
  SizeOf <- MCSizeOf
  CountOf <- MCCountOf
  MinRecords <- MCMinimum
  DropPercent = 20
  Floor = 1
  RetryInterval = 1
  Window = 2
  Budget = 6
  ResponseLimit = 2
  Cap <- MCCap
  MarginPercent = 50
  Stamps <- MCStamps
  Hosts = {h1}
  NoHost = NoHost
  SkewOf <- MCSkewOf
  MaxSkew = 0
  Upstream = 1
  MaxDelay = 0
  NoDataset = NoDataset
  Rank <- MCRank
  Legacy = {}
  LegacyBody = b2
  LegacySize = 9
  Chunk = 1
  ErrorSizes = {2}
  MaxClock = 1
  MaxFaults = 1
  Faults = {"crash"}
INVARIANTS
  KilledRunAccounts
