\* Three catalogues, three trees kept, up to two faults, a clock that may step back.
SPECIFICATION FairSpec
CONSTANTS
  c1 = c1
  c2 = c2
  c3 = c3
  Contents = {c1, c2, c3}
  CountOf <- MCCountOf
  DropPercent = 20
  Digest <- MCDigest
  Keep = 3
  None = None
  MaxClock = 2
  MaxChanges = 3
  MaxFaults = 2
  Faults = {"crash", "disk", "clock"}
INVARIANTS
  TypeOK
  PublicIsWhole
  PreviousSurvives
PROPERTIES
  RetentionBounded
  SwitchKeepsRecords
  FollowsSources
  KeepsPromise
