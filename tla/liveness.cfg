\* One writer and the garbage collector under FairSpec, with one io active
\* slot so that the finish-cheapest loop runs, and resets and finishes that
\* may fail. The process may crash and reopen the device once, with zones
\* left partly written. No symmetry (it is unsound for liveness).
CONSTANTS
  NrIOZones <- MCNrIOZones
  NrZones <- MCNrZones
  Hints <- MCHints
  Writers = {w1}
  Collectors = {gc}
  Migrators = {}
  NoZone = NoZone
  ZoneSize = 2
  MaxCapacities = {2}
  MaxAppend = 1
  MaxResets = 1
  MaxOpenDev = 4
  MaxActiveDev = 3
  FinishThreshold = 0
  InitWp = {0}
  MinCapacities = {1}
  WriteErrors = FALSE
  DeviceErrors = TRUE
  MaxRestarts = 1
SPECIFICATION FairSpec
PROPERTY BusyEventuallyReleased
PROPERTY AllocationReturns
PROPERTY LeaseRefinement
INVARIANT ActiveTokenAccounting
INVARIANT ZoneLimits
