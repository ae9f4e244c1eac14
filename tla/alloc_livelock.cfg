\* One writer and the wear-leveling worker under FairSpec with one io active
\* slot: a migration target released while still empty keeps its active
\* token, and AllocateIOZone spins in FinishCheapestIOZone.
CONSTANTS
  NrIOZones <- MCNrIOZones
  NrZones <- MCNrZones
  Hints <- MCHints
  Writers = {w1}
  Collectors = {}
  Migrators = {m1}
  NoZone = NoZone
  ZoneSize = 2
  MaxCapacities = {2}
  MaxAppend = 1
  MaxResets = 1
  MaxOpenDev = 4
  MaxActiveDev = 3
  FinishThreshold = 0
  InitWp = {0}
  MinCapacities = {1}
  WriteErrors = FALSE
  DeviceErrors = FALSE
  MaxRestarts = 0
SPECIFICATION FairSpec
PROPERTY AllocationReturns
\* The open tokens leaked by migrations (migration_token_leak) can leave the
\* writer and the worker both waiting for one: the system really stops there.
CHECK_DEADLOCK FALSE
