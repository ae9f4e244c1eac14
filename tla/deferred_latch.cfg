\* A write fails while the device is in use.
CONSTANTS
  NrIOZones <- MCNrIOZones
  NrZones <- MCNrZones
  Hints <- MCHints
  Writers = {w1}
  Collectors = {gc}
  Migrators = {}
  NoZone = NoZone
  ZoneSize = 2
  MaxCapacities = {2}
  MaxAppend = 1
  MaxResets = 1
  MaxOpenDev = 4
  MaxActiveDev = 4
  FinishThreshold = 0
  InitWp = {0}
  MinCapacities = {1}
  WriteErrors = TRUE
  DeviceErrors = FALSE
  MaxRestarts = 0
SPECIFICATION Spec
INVARIANT DeferredErrorLatched
