\* The three meta zones of META_ZONES, with the write pointers Open() may
\* find and no data, and resets that may fail or take a zone offline.
CONSTANTS
  NrMetaZones = 3
  DeviceErrors = TRUE
SPECIFICATION Spec
INVARIANT MetaBusyMeansHeld
