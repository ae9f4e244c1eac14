\* One writer and two wear-leveling migrators that contend for the single
\* migration slot, through GetMigrateTargetZone and TakeMigrateZone, with one
\* io active slot so that targets and writes compete for it.
CONSTANTS
  NrIOZones <- MCNrIOZones
  NrZones <- MCNrZones
  Hints <- MCHints
  Writers = {w1}
  Collectors = {}
  Migrators = {m1, m2}
  NoZone = NoZone
  ZoneSize = 2
  MaxCapacities = {2}
  MaxAppend = 1
  MaxResets = 1
  MaxOpenDev = 4
  MaxActiveDev = 3
  FinishThreshold = 0
  InitWp = {0}
  MinCapacities = {1}
  WriteErrors = FALSE
  DeviceErrors = FALSE
  MaxRestarts = 0
SPECIFICATION Spec
INVARIANT MigrationExclusive
INVARIANT BusyMeansHeld
INVARIANT AllocatedLifetimeMatches
SYMMETRY MCMigratorSymmetry
