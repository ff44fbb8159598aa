\* Three runs on days on which the window of twelve months passes a decay.
SPECIFICATION Spec
CONSTANTS
  SatcatBodies <- MCSatcat
  GcatBodies <- MCGcat
  Measured <- MCMeasured
  Days = {3, 4, 5}
  NumberOf <- MCNumberOf
  NoradOf <- MCNoradOf
  DateOf <- MCDateOf
  GcatDateOf <- MCGcatDateOf
  ObjectTypes <- MCObjectTypes
  OpsStatus <- MCOpsStatus
  DataStatus <- MCDataStatus
  OrbitCenters <- MCOrbitCenters
  OrbitClass <- MCOrbitClass
  Lifecycle <- MCLifecycle
  ConstellationOf <- MCConstellationOf
  Estimates <- MCEstimates
  Visor = 2
  Window = 3
  BucketSize = 1000
  JoinPercent = 40
  DropPercent = 40
  MaxRuns = 3
  None = None
INVARIANTS
  TypeOK
  ProvenanceIsTrue
  CountsAgree
  AgeingOnlyDrops
  EstimateFitsRecord
  ClientFindsRecord
  ManifestCountsHold
CHECK_DEADLOCK FALSE
