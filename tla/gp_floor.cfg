\* Two hosts with different clocks, killed anywhere, one damaged state file.
SPECIFICATION Spec
CONSTANTS
  h1 = h1
  h2 = h2
  big = big
  mid = mid
  small = small
  b1 = b1
  b2 = b2
  b3 = b3
  Datasets = {small}
  Bodies = {b3}
  NoBody = NoBody
  SizeOf <- MCSizeOf
  CountOf <- MCCountOf
  MinRecords <- MCMinimum
  DropPercent = 20
  Floor = 4
  RetryInterval = 1
  Window = 12
  Budget = 100
  ResponseLimit = 50
  Cap <- MCNoCap
  MarginPercent = 5
  Stamps <- MCStamps
  Hosts = {h1, h2}
  NoHost = NoHost
  SkewOf <- MCSkewOf
  MaxSkew = 1
  Upstream = 2
  MaxDelay = 1
  NoDataset = NoDataset
  Rank <- MCRank
  Legacy = {small}
  LegacyBody = b3
  LegacySize = 9
  Chunk = 1
  ErrorSizes = {0}
  MaxClock = 6
  MaxFaults = 1
  Faults = {"crash", "state", "ledger"}
INVARIANTS
  TypeOK
  MutualExclusion
  PublishedInOrder
PROPERTIES
  PoliteFloor
