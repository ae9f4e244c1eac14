\* Every pair of zone states of two io zones of size 3 with max capacity 2
\* or 3 and up to two resets; every hint and min_capacity is checked in each.
CONSTANTS
  NrIOZones = 2
  ZoneSize = 3
  MaxCapacities = {2, 3}
  ZoneLifetimes <- MCZoneLifetimes
  MaxResets = 2
  Hints <- MCHints
  MinCapacities = {0, 2}
SPECIFICATION Spec
INVARIANT EmptyZoneChoiceMatchesSpec
INVARIANT LeastResetZoneMatchesSpec
INVARIANT MigrateTargetMatchesSpec
INVARIANT BestMatchIsBest
