\* Runs that keep failing.
SPECIFICATION Spec
CONSTANTS
  LastVersion <- MCLast
  Sound <- MCSound
  CountOf <- MCCountOf
  DropPercent = 20
  None = None
  Warning = 1
  Critical = 2
  MaxClock = 3
  MaxFaults = 3
  Faults = {"crash", "disk", "down", "lost"}
INVARIANTS
  FailingEscalates
