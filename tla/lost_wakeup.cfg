\* Four writers, WAL and non-WAL, and two open io tokens: a non-WAL
\* allocation may take only the first. Writes and the backend succeed.
CONSTANTS
  NrIOZones <- MCNrIOZones
  NrZones <- MCNrZones
  Hints <- MCHints
  Writers = {w1, w2, w3, w4}
  Collectors = {}
  Migrators = {}
  NoZone = NoZone
  ZoneSize = 2
  MaxCapacities = {2}
  MaxAppend = 1
  MaxResets = 1
  MaxOpenDev = 4
  MaxActiveDev = 4
  FinishThreshold = 0
  InitWp = {0}
  MinCapacities = {1}
  WriteErrors = FALSE
  DeviceErrors = FALSE
  MaxRestarts = 0
SPECIFICATION Spec
INVARIANT NoLostWakeup
SYMMETRY MCWriterSymmetry
