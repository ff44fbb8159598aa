\* A run killed while it repairs a converted dataset.
SPECIFICATION Spec
CONSTANTS
  r1 = r1
  r2 = r2
  b1 = b1
  b2 = b2
  b3 = b3
  Rules = {r1, r2}
  NoRule = NoRule
  Rank <- MCRank
  Bodies = {b1}
  NoBody = NoBody
  FirstBody = b1
  Selected <- MCSelected
  MinRecords <- MCMinimum
  DropPercent = 20
  Converted = {r1}
  MaxInstant = 2
  MaxFaults = 1
  Faults = {"crash"}
INVARIANTS
  RepairReachesStatus
