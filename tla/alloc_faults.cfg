\* Two writers and the garbage collector with every backend failure: writes
\* may fail part way, resets and finishes may fail, zones may go offline.
\* Non-WAL allocations finish every partly written zone (finish_threshold
\* 100), and zones may be partly written when the device is opened.
CONSTANTS
  NrIOZones <- MCNrIOZones
  NrZones <- MCNrZones
  Hints <- MCHints
  Writers = {w1, w2}
  Collectors = {gc}
  Migrators = {}
  NoZone = NoZone
  ZoneSize = 2
  MaxCapacities = {2}
  MaxAppend = 2
  MaxResets = 1
  MaxOpenDev = 4
  MaxActiveDev = 3
  FinishThreshold = 100
  InitWp = {0, 1}
  MinCapacities = {1}
  WriteErrors = TRUE
  DeviceErrors = TRUE
  MaxRestarts = 0
SPECIFICATION Spec
INVARIANT OpenTokenAccounting
INVARIANT ZoneLimits
INVARIANT BusyMeansHeld
SYMMETRY MCWriterSymmetry
