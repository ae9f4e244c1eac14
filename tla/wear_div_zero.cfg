\* wl_trigger_count_ at 2 (the value the spec's increments reach after two
\* triggers); io resets only, with equal restored counts.
CONSTANTS
  IOZones <- MCIOZones
  NrZones = 32
  Bits = 16
  InitThreshold = 10
  InitTriggerCounts = {2}
  InitIOResetCounts = {0}
  MaxTotalResets = 70
  MaxMetaResets = 0
SPECIFICATION Spec
INVARIANT WearLevelingStaysEnabled
\* Every step is a reset; the model stops only at the MaxTotalResets bound.
CHECK_DEADLOCK FALSE
