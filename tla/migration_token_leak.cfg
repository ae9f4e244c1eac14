\* One writer and one wear-leveling migrator.
CONSTANTS
  NrIOZones <- MCNrIOZones
  NrZones <- MCNrZones
  Hints <- MCHints
  Writers = {w1}
  Collectors = {gc}
  Migrators = {m1}
  NoZone = NoZone
  ZoneSize = 2
  MaxCapacities = {2}
  MaxAppend = 1
  MaxResets = 1
  MaxOpenDev = 4
  MaxActiveDev = 4
  FinishThreshold = 0
  InitWp = {0}
  MinCapacities = {1}
  WriteErrors = FALSE
  DeviceErrors = FALSE
  MaxRestarts = 0
SPECIFICATION Spec
INVARIANT TokensReturnedWhenIdle
