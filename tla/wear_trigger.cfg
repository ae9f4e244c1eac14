\* Resets of two io zones and of meta zones; wl_trigger_count_ is not set in
\* src/, so every value up to the damping bound is admitted.
CONSTANTS
  IOZones <- MCIOZones
  NrZones = 32
  Bits = 16
  InitThreshold = 10
  InitTriggerCounts = {0, 1, 2}
  InitIOResetCounts = {0, 1}
  MaxTotalResets = 100
  MaxMetaResets = 3
SPECIFICATION Spec
PROPERTY WakeupsSpacedPastFloor
\* Every step is a reset; the model stops only at the MaxTotalResets bound.
CHECK_DEADLOCK FALSE
