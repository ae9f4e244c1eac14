\* Two writers and the garbage collector; backend resets and finishes may
\* fail and zones may go offline, writes succeed.
CONSTANTS
  NrIOZones <- MCNrIOZones
  NrZones <- MCNrZones
  Hints <- MCHints
  Writers = {w1, w2}
  Collectors = {gc}
  Migrators = {}
  NoZone = NoZone
  ZoneSize = 2
  MaxCapacities = {2}
  MaxAppend = 1
  MaxResets = 1
  MaxOpenDev = 4
  MaxActiveDev = 4
  FinishThreshold = 0
  InitWp = {0}
  MinCapacities = {1}
  WriteErrors = FALSE
  DeviceErrors = TRUE
  MaxRestarts = 0
SPECIFICATION Spec
INVARIANT TypeOK
INVARIANT OpenTokenAccounting
INVARIANT ActiveTokenAccounting
INVARIANT BusyMeansHeld
INVARIANT AllocatedLifetimeMatches
SYMMETRY MCWriterSymmetry
