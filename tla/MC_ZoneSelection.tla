--------------------------- MODULE MC_ZoneSelection ---------------------------
(* Two io zones of up to three blocks; the zone lifetimes give every      *)
(* lifetime distance for the hints checked: 0, a positive difference,     *)
(* COULD_BE_WORSE and NOT_GOOD.                                             *)
EXTENDS ZoneSelection

MCZoneLifetimes == {WLTH_NOT_SET, WLTH_SHORT, WLTH_EXTREME}
MCHints == {WLTH_NOT_SET, WLTH_SHORT, WLTH_MEDIUM, WLTH_EXTREME}
=============================================================================
