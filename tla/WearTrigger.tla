----------------------------- MODULE WearTrigger -----------------------------
(***************************************************************************)
(* The wear-leveling trigger at the end of Zone::Reset (src/fs/zbd_zenfs.cc *)
(* lines 110-131) and GetResetCountStdDev.                                 *)
(*                                                                         *)
(* Every successful reset, of an io zone or of a meta zone (AllocateMetaZone *)
(* calls the same Zone::Reset), increments the zone's reset_count_ and      *)
(* total_reset_count_, and then decides whether to wake the wear-leveling  *)
(* worker. io_zones_reset_count and reset_count_diff are uint32_t locals:   *)
(* their arithmetic is modulo 2^Bits. The reset_ratio_threshold_ is a real  *)
(* number that the damping divides by sigma / 1.5; only whether it is the  *)
(* configured value, another finite value or infinite is kept, and the     *)
(* rate test against a value other than the configured one may go either  *)
(* way.                                                                    *)
(***************************************************************************)
EXTENDS Integers, FiniteSets, Functions

CONSTANTS
  IOZones,          \* io zones (their reset counts drive the deviation)
  NrZones,          \* GetNrZones(): every zone of the device
  Bits,             \* width of the uint32_t locals
  InitThreshold,    \* reset_ratio_threshold_ as configured, percent
  InitTriggerCounts,\* values wl_trigger_count_ may have (not set in src/)
  InitIOResetCounts,\* reset counts restored by SetIOZonesResetCount
  MaxTotalResets,   \* bound on total_reset_count_
  MaxMetaResets     \* bound on the resets of meta zones

Word == 2^Bits
U32(x) == x % Word

ASSUME
  /\ IOZones # {}
  /\ NrZones \in Nat \ {0}
  /\ InitThreshold \in Nat
  /\ InitTriggerCounts \subseteq Nat
  /\ InitIOResetCounts \subseteq Nat
  /\ MaxTotalResets \in Nat /\ MaxMetaResets \in Nat

VARIABLES
  resetCount,  \* reset_count_ of each io zone
  metaResets,  \* GetMetaZoneResetCountNow(): the meta zones' reset counts
  total,       \* total_reset_count_
  check,       \* check_reset_count_
  wlTrigger,   \* wl_trigger_count_
  threshold,   \* reset_ratio_threshold_: "initial", "damped" or "inf"
  wakes,       \* history: WakeupWLWorker calls
  lastWakeIo   \* history: io_zones_reset_count at the last wakeup

vars == <<resetCount, metaResets, total, check, wlTrigger, threshold, wakes, lastWakeIo>>

-----------------------------------------------------------------------------
(* GetResetCountStdDev on reset counts rc: the mean is an integer division *)
(* (uint32_t / int), so sigma = 0 exactly when all counts are equal, and   *)
(* sigma > 1.5 when the sum of squares exceeds 2.25 * n.                    *)
MeanResetCount(rc) == SumFunction(rc) \div Cardinality(DOMAIN rc)
SquaredDeviation(rc) ==
  SumFunction([z \in DOMAIN rc |-> (rc[z] - MeanResetCount(rc)) ^ 2])

\* reset_ratio_threshold_ / (1 + (sigma - 1.5) / 1.5): the divisor is
\* sigma / 1.5, zero when sigma is 0 (a positive threshold becomes +inf),
\* one when sigma is 1.5.
Damped(rc) ==
  CASE threshold = "inf" -> "inf"
    [] SquaredDeviation(rc) = 0 -> "inf"
    [] 4 * SquaredDeviation(rc) = 9 * Cardinality(DOMAIN rc) -> threshold
    [] OTHER -> "damped"

\* The outcomes of 100 * reset_count_diff > io_zones_reset_count *
\* reset_ratio_threshold_ (the left side is uint32_t, the right a double).
RateExceeded(diff, io) ==
  CASE threshold = "initial" -> {U32(100 * diff) > io * InitThreshold}
    [] threshold = "damped" -> BOOLEAN
    [] threshold = "inf" -> {FALSE}

\* Mutation: the worker is woken on the rate test alone.
TriggerOutcomesRateOnly(diff, io) == RateExceeded(diff, io)

\* Lines 119-121: the rate test and reset_count_diff >= GetNrZones().
TriggerOutcomes(diff, io) == {e /\ diff >= NrZones : e \in RateExceeded(diff, io)}

\* The check count after the floor of line 115.
FlooredCheck == IF check < NrZones THEN NrZones ELSE check

\* Lines 113-131 after the increments, with the device-wide counts
\* totalNow and metaNow and the io reset counts rc.
Trigger(rc, totalNow, metaNow) ==
  LET io == U32(totalNow - metaNow)
      diff == U32(io - FlooredCheck)
  IN
  \/ /\ totalNow <= NrZones
     /\ UNCHANGED <<check, wlTrigger, threshold, wakes, lastWakeIo>>
  \/ /\ totalNow > NrZones
     /\ FALSE \in TriggerOutcomes(diff, io)
     /\ check' = FlooredCheck
     /\ UNCHANGED <<wlTrigger, threshold, wakes, lastWakeIo>>
  \/ /\ totalNow > NrZones
     /\ TRUE \in TriggerOutcomes(diff, io)
     /\ wlTrigger' = IF wlTrigger >= 2 THEN 0 ELSE wlTrigger
     /\ threshold' = IF wlTrigger >= 2 THEN Damped(rc) ELSE threshold
     /\ check' = io
     /\ wakes' = wakes + 1
     /\ lastWakeIo' = io

-----------------------------------------------------------------------------
\* Zone::Reset of io zone z after a successful backend reset.
ResetIOZone(z) ==
  LET rc == [resetCount EXCEPT ![z] = @ + 1] IN
  /\ total < MaxTotalResets
  /\ resetCount' = rc
  /\ total' = total + 1
  /\ Trigger(rc, total + 1, metaResets)
  /\ UNCHANGED metaResets

\* Zone::Reset of a meta zone (AllocateMetaZone resets a meta zone it reuses).
ResetMetaZone ==
  /\ total < MaxTotalResets /\ metaResets < MaxMetaResets
  /\ metaResets' = metaResets + 1
  /\ total' = total + 1
  /\ Trigger(resetCount, total + 1, metaResets + 1)
  /\ UNCHANGED resetCount

\* The constructor zeroes total_reset_count_ and check_reset_count_; the io
\* zones' counts may have been restored by SetIOZonesResetCount.
Init ==
  /\ resetCount \in [IOZones -> InitIOResetCounts]
  /\ metaResets = 0
  /\ total = 0
  /\ check = 0
  /\ wlTrigger \in InitTriggerCounts
  /\ threshold = "initial"
  /\ wakes = 0
  /\ lastWakeIo = 0

Next == (\E z \in IOZones : ResetIOZone(z)) \/ ResetMetaZone

Spec == Init /\ [][Next]_vars

-----------------------------------------------------------------------------
(* The spec's scenario S4: the worker is woken on crossings, not on every  *)
(* reset; two wakeups are at least NrZones io resets apart, since after a  *)
(* wakeup check_reset_count_ is the io reset count and the next one needs  *)
(* a reset_count_diff of NrZones.                                           *)
WakeupsSpaced ==
  [][wakes' > wakes /\ wakes > 0 => lastWakeIo' >= lastWakeIo + NrZones]_vars

(* What the code guarantees once the io resets have passed GetNrZones():  *)
(* a wakeup at that point follows the previous one by at least NrZones io  *)
(* resets, because check_reset_count_ then never exceeds the io count and  *)
(* the floor no longer applies.                                             *)
WakeupsSpacedPastFloor ==
  [][wakes' > wakes /\ wakes > 0 /\ lastWakeIo >= NrZones =>
       lastWakeIo' >= lastWakeIo + NrZones]_vars

(* The damping keeps reset_ratio_threshold_ finite, so the rate test can   *)
(* still pass and the worker can still be woken.                            *)
WearLevelingStaysEnabled == threshold # "inf"
=============================================================================
