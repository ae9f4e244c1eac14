-------------------------- MODULE MC_ZoneAllocator --------------------------
(* Instances of ZoneAllocator for TLC: two io zones, device limits of    *)
(* four open and four active zones (two of each for io after the two       *)
(* reserved ones), and 32 zones on the device (ZENFS_MIN_ZONES).           *)
EXTENDS ZoneAllocator, TLC

MCNrIOZones == 2
MCNrZones == 32
MCHints == {WLTH_NOT_SET, WLTH_EXTREME}
MCWriterSymmetry == Permutations(Writers)
MCMigratorSymmetry == Permutations(Migrators)
=============================================================================
