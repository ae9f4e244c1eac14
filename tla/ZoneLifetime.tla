---------------------------- MODULE ZoneLifetime ----------------------------
(***************************************************************************)
(* The write lifetime hints and the lifetime distance GetLifeTimeDiff      *)
(* (src/fs/zbd_zenfs.cc lines 623-643), shared by the allocator and the   *)
(* zone-selection modules.                                                 *)
(***************************************************************************)
EXTENDS Integers

\* Env::WriteLifeTimeHint
WLTH_NOT_SET == 0
WLTH_NONE == 1
WLTH_SHORT == 2
WLTH_MEDIUM == 3
WLTH_LONG == 4
WLTH_EXTREME == 5
Lifetimes == WLTH_NOT_SET..WLTH_EXTREME

LIFETIME_DIFF_NOT_GOOD == 100
LIFETIME_DIFF_COULD_BE_WORSE == 50

GetLifeTimeDiff(zone_lifetime, file_lifetime) ==
  IF file_lifetime \in {WLTH_NOT_SET, WLTH_NONE}
  THEN IF file_lifetime = zone_lifetime THEN 0 ELSE LIFETIME_DIFF_NOT_GOOD
  ELSE IF zone_lifetime > file_lifetime THEN zone_lifetime - file_lifetime
  ELSE IF zone_lifetime = file_lifetime THEN LIFETIME_DIFF_COULD_BE_WORSE
  ELSE LIFETIME_DIFF_NOT_GOOD
=============================================================================
