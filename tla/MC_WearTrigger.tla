--------------------------- MODULE MC_WearTrigger ---------------------------
(* Instances of WearTrigger for TLC: two io zones on a device of 32 zones   *)
(* (ZENFS_MIN_ZONES), 16-bit counters and enough resets for three wakeups. *)
EXTENDS WearTrigger

MCIOZones == {1, 2}
=============================================================================
