\* Two and three versions of the sources, up to two faults.
SPECIFICATION FairSpec
CONSTANTS
  LastVersion <- MCLast
  Sound <- MCSound
  CountOf <- MCCountOf
  DropPercent = 20
  None = None
  Warning = 1
  Critical = 2
  MaxClock = 2
  MaxFaults = 2
  Faults = {"crash", "disk", "down", "lost"}
INVARIANTS
  TypeOK
  FreshIsCurrent
  ProvenanceIsHonest
  GreenMeansWorking
PROPERTIES
  FollowsUpstream
