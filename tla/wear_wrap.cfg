\* Meta zones are reset before the total passes the number of zones.
\* wl_trigger_count_ starts at 0.
CONSTANTS
  IOZones <- MCIOZones
  NrZones = 32
  Bits = 16
  InitThreshold = 10
  InitTriggerCounts = {0}
  InitIOResetCounts = {0}
  MaxTotalResets = 40
  MaxMetaResets = 3
SPECIFICATION Spec
PROPERTY WakeupsSpaced
\* Every step is a reset; the model stops only at the MaxTotalResets bound.
CHECK_DEADLOCK FALSE
