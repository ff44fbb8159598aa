\* Two rules, one of them converted, with every fault.
SPECIFICATION FairSpec
CONSTANTS
  r1 = r1
  r2 = r2
  b1 = b1
  b2 = b2
  b3 = b3
  Rules = {r1, r2}
  NoRule = NoRule
  Rank <- MCRank
  Bodies = {b1, b2, b3}
  NoBody = NoBody
  FirstBody = b1
  Selected <- MCSelected
  MinRecords <- MCMinimum
  DropPercent = 20
  Converted = {r1}
  MaxInstant = 4
  MaxFaults = 2
  Faults = {"crash", "derived", "source", "file"}
INVARIANTS
  TypeOK
  HonestAge
  QuietPassIsCurrent
PROPERTIES
  LayerIsKept
  CatchesUp
