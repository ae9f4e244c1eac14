---------------------------- MODULE ZoneSelection ----------------------------
(***************************************************************************)
(* The zone-selection scans of ZonedBlockDevice (src/fs/zbd_zenfs.cc) as   *)
(* operators on a snapshot of the io zones, each checked against the      *)
(* spec's declarative definition of the zone it should pick:              *)
(*   - GetBestOpenZoneMatch                (spec 4.D.2)                    *)
(*   - AllocateEmptyZone(file_lifetime)    (spec 4.D.3)                    *)
(*   - GetLeastResetCountZone              (spec 4.E, source zone)         *)
(*   - GetMigrateTargetZone's two scans    (spec 4.E, target zone)         *)
(* A scan visits io_zones in order; a zone whose busy flag is held by     *)
(* another thread fails Acquire() and is skipped (GetLeastResetCountZone  *)
(* reads without acquiring). The interleaving of scans with other threads *)
(* is modelled in ZoneAllocator; here the zones do not change during one  *)
(* scan, and the state is the snapshot the scans read.                    *)
(* GetLifetimeZeroZone (spec 4.E) is translated too; its code is the      *)
(* spec's definition word for word, so no property compares the two.      *)
(***************************************************************************)
EXTENDS Integers, SequencesExt, ZoneLifetime

CONSTANTS
  NrIOZones,      \* number of io zones; zone i is io_zones[i-1]
  ZoneSize,       \* zone size in blocks (a finished zone's wp)
  MaxCapacities,  \* writable capacities of the zones
  ZoneLifetimes,  \* lifetime hints the zones may carry
  MaxResets,      \* bound on a zone's reset count
  Hints,          \* file_lifetime arguments
  MinCapacities   \* min_capacity arguments

Idx == 1..NrIOZones
NoZone == 0

ASSUME
  /\ NrIOZones \in Nat \ {0}
  /\ MaxCapacities \subseteq 1..ZoneSize
  /\ ZoneLifetimes \subseteq Lifetimes /\ Hints \subseteq Lifetimes
  /\ MinCapacities \subseteq 0..ZoneSize

(* A zone as the scans read it. A zone is partly written or full          *)
(* (wp <= max capacity), finished (wp at the zone size, capacity 0) or    *)
(* offline (capacity 0, possibly at wp 0); its live data never exceeds    *)
(* what was written to it.                                                 *)
ZoneRec == [wp: 0..ZoneSize, capacity: 0..ZoneSize, maxCap: MaxCapacities,
            used: 0..ZoneSize, lifetime: ZoneLifetimes,
            resetCount: 0..MaxResets, busy: BOOLEAN]
WellFormed(r) ==
  /\ \/ r.wp <= r.maxCap /\ r.capacity \in {r.maxCap - r.wp, 0}
     \/ r.wp = ZoneSize /\ r.capacity = 0
  /\ r.used <= r.wp /\ r.used <= r.maxCap
ZoneStates == {r \in ZoneRec : WellFormed(r)}

VARIABLE zones   \* the io zones, indexed in io_zones order

-----------------------------------------------------------------------------
(* Zone::IsEmpty, IsFull, IsUsed, GetZoneReclaimableSpace; Acquire fails on *)
(* a zone another thread holds.                                           *)
IsEmpty(r) == r.wp = 0
IsFull(r) == r.capacity = 0
IsUsed(r) == r.used > 0
GetZoneReclaimableSpace(r) == IF IsFull(r) THEN r.maxCap - r.used ELSE r.wp - r.used
Acquirable(r) == ~r.busy

\* Mutation: min_capacity is not tested.
OpenCandidateAnyCapacity(r, minCap) == IsUsed(r) /\ ~IsFull(r)

\* GetBestOpenZoneMatch's candidate test (lines 941-942).
OpenCandidate(r, minCap) == IsUsed(r) /\ ~IsFull(r) /\ r.capacity >= minCap

\* GetBestOpenZoneMatch, lines 932-970: best_diff starts at NOT_GOOD and a
\* candidate replaces the held zone when its diff is <= best_diff.
RECURSIVE BestMatchScan(_, _, _, _, _, _)
BestMatchScan(zs, hint, minCap, i, bestDiff, held) ==
  IF i > NrIOZones THEN [zone |-> held, diff |-> bestDiff]
  ELSE LET r == zs[i]
           diff == GetLifeTimeDiff(r.lifetime, hint)
       IN IF Acquirable(r) /\ OpenCandidate(r, minCap) /\ diff <= bestDiff
          THEN BestMatchScan(zs, hint, minCap, i + 1, diff, i)
          ELSE BestMatchScan(zs, hint, minCap, i + 1, bestDiff, held)

GetBestOpenZoneMatch(zs, hint, minCap) ==
  BestMatchScan(zs, hint, minCap, 1, LIFETIME_DIFF_NOT_GOOD, NoZone)

\* Mutation: an equal reset count replaces the held empty zone.
EmptyBetterOrEqual(zs, hint, i, held) ==
  \/ held = NoZone
  \/ IF hint < WLTH_SHORT THEN zs[i].resetCount >= zs[held].resetCount
                          ELSE zs[i].resetCount <= zs[held].resetCount

\* AllocateEmptyZone(file_lifetime), lines 993-994 and 1018-1019: long-lived
\* data takes the most reset empty zone, short-lived data the least reset.
EmptyBetter(zs, hint, i, held) ==
  \/ held = NoZone
  \/ IF hint < WLTH_SHORT THEN zs[i].resetCount > zs[held].resetCount
                          ELSE zs[i].resetCount < zs[held].resetCount

\* The scans of AllocateEmptyZone(file_lifetime), lines 989-1050, with the
\* early break on a zone never reset (lines 1027-1029).
RECURSIVE EmptyScan(_, _, _, _)
EmptyScan(zs, hint, i, held) ==
  IF i > NrIOZones THEN held
  ELSE IF Acquirable(zs[i]) /\ IsEmpty(zs[i]) /\ EmptyBetter(zs, hint, i, held)
       THEN IF hint >= WLTH_SHORT /\ zs[i].resetCount = 0
            THEN i
            ELSE EmptyScan(zs, hint, i + 1, i)
       ELSE EmptyScan(zs, hint, i + 1, held)

AllocateEmptyZone(zs, hint) == EmptyScan(zs, hint, 1, NoZone)

\* GetLeastResetCountZone's uint64_t score, line 308.
LeastResetScore(r) == (r.resetCount * r.maxCap) \div GetZoneReclaimableSpace(r)

\* Mutation: a tie on the score keeps the first zone whatever its space.
LeastResetBetterNoTie(zs, i, held, heldScore) ==
  \/ held = NoZone
  \/ LeastResetScore(zs[i]) < heldScore

\* Lines 309-312: a lower score, or an equal one with more reclaimable space.
LeastResetBetter(zs, i, held, heldScore) ==
  \/ held = NoZone
  \/ LeastResetScore(zs[i]) < heldScore
  \/ /\ LeastResetScore(zs[i]) = heldScore
     /\ GetZoneReclaimableSpace(zs[i]) > GetZoneReclaimableSpace(zs[held])

\* Lines 300-307: the zones GetLeastResetCountZone scores.
LeastResetEligible(r) ==
  ~IsEmpty(r) /\ IsUsed(r) /\ r.lifetime = WLTH_EXTREME
  /\ GetZoneReclaimableSpace(r) # 0

\* GetLeastResetCountZone, lines 296-329 (plain loads, no Acquire).
RECURSIVE LeastResetScan(_, _, _, _)
LeastResetScan(zs, i, held, heldScore) ==
  IF i > NrIOZones THEN held
  ELSE IF LeastResetEligible(zs[i]) /\ LeastResetBetter(zs, i, held, heldScore)
       THEN LeastResetScan(zs, i + 1, i, LeastResetScore(zs[i]))
       ELSE LeastResetScan(zs, i + 1, held, heldScore)

GetLeastResetCountZone(zs) == LeastResetScan(zs, 1, NoZone, 0)

\* GetMigrateTargetZone's first scan, lines 657-690: the empty zone with the
\* most resets.
RECURSIVE MigrateEmptyScan(_, _, _)
MigrateEmptyScan(zs, i, held) ==
  IF i > NrIOZones THEN held
  ELSE IF /\ Acquirable(zs[i]) /\ IsEmpty(zs[i])
          /\ (held = NoZone \/ zs[i].resetCount > zs[held].resetCount)
       THEN MigrateEmptyScan(zs, i + 1, i)
       ELSE MigrateEmptyScan(zs, i + 1, held)

\* The second scan's uint64_t score, lines 706-707.
MigrateScore(r) == (r.resetCount * GetZoneReclaimableSpace(r)) \div r.maxCap

\* Mutation: the lifetime test is dropped from the second scan.
MigrateScoreEligibleAnyLifetime(r, hint) == TRUE

\* Line 717-718: only zones not NOT_GOOD for the file's lifetime qualify.
MigrateScoreEligible(r, hint) ==
  GetLifeTimeDiff(r.lifetime, hint) # LIFETIME_DIFF_NOT_GOOD

\* The second scan, lines 702-742: a higher score, or an equal score and
\* more resets, among the zones whose lifetime qualifies.
RECURSIVE MigrateScoreScan(_, _, _, _, _, _)
MigrateScoreScan(zs, hint, minCap, i, held, heldScore) ==
  IF i > NrIOZones THEN held
  ELSE LET r == zs[i] IN
       IF /\ Acquirable(r) /\ OpenCandidate(r, minCap)
          /\ \/ held = NoZone
             \/ MigrateScore(r) > heldScore
             \/ MigrateScore(r) = heldScore /\ r.resetCount > zs[held].resetCount
          /\ MigrateScoreEligible(r, hint)
       THEN MigrateScoreScan(zs, hint, minCap, i + 1, i, MigrateScore(r))
       ELSE MigrateScoreScan(zs, hint, minCap, i + 1, held, heldScore)

\* GetMigrateTargetZone, lines 645-753: the empty target is kept only if an
\* active token is available (lines 692-701); otherwise the second scan runs.
GetMigrateTargetZone(zs, hint, minCap, gotToken) ==
  LET empty == MigrateEmptyScan(zs, 1, NoZone) IN
  IF empty # NoZone /\ gotToken THEN empty
  ELSE MigrateScoreScan(zs, hint, minCap, 1, NoZone, 0)

\* Lines 333-334: a used zone that carries no lifetime hint.
LifetimeZero(r) == IsUsed(r) /\ r.lifetime = WLTH_NOT_SET

\* GetLifetimeZeroZone, lines 331-339: such zones, pushed in io_zones order.
GetLifetimeZeroZone(zs) == SelectSeq([i \in Idx |-> i], LAMBDA i : LifetimeZero(zs[i]))

-----------------------------------------------------------------------------
(* Between two scans another thread acquires or releases a zone (the      *)
(* initial states already hold every snapshot of the zones' other fields). *)
ZoneChanges ==
  \E i \in Idx : zones' = [zones EXCEPT ![i].busy = ~@]

Init == zones \in [Idx -> ZoneStates]
Next == ZoneChanges
Spec == Init /\ [][Next]_zones

-----------------------------------------------------------------------------
(* The spec's choices: the first zone, in io_zones order, among those that *)
(* are best by the stated criterion.                                       *)
FirstOf(S) == IF S = {} THEN NoZone ELSE Min(S)
ArgBest(S, Better(_, _)) == {i \in S : \A j \in S : ~Better(j, i)}

\* Spec 4.D.2's candidates and distances; NOT_GOOD is never selected.
SpecOpenCandidates(zs, hint, minCap) ==
  {i \in Idx : /\ ~zs[i].busy /\ zs[i].used > 0 /\ zs[i].capacity # 0
              /\ zs[i].capacity >= minCap
              /\ GetLifeTimeDiff(zs[i].lifetime, hint) < LIFETIME_DIFF_NOT_GOOD}

SpecEmptyZone(zs, hint) ==
  LET E == {i \in Idx : ~zs[i].busy /\ zs[i].wp = 0}
      rc(i) == zs[i].resetCount
  IN FirstOf(IF hint < WLTH_SHORT THEN ArgBest(E, LAMBDA j, i : rc(j) > rc(i))
                                  ELSE ArgBest(E, LAMBDA j, i : rc(j) < rc(i)))

\* The spec's reclaimable space: what was written (up to the writable
\* capacity) and is no longer live.
SpecReclaimable(r) == (IF r.capacity = 0 THEN r.maxCap ELSE r.wp) - r.used

SpecLeastResetZone(zs) ==
  LET C == {i \in Idx : zs[i].used > 0 /\ zs[i].lifetime = WLTH_EXTREME
                        /\ SpecReclaimable(zs[i]) > 0}
      score(i) == (zs[i].resetCount * zs[i].maxCap) \div SpecReclaimable(zs[i])
      recl(i) == SpecReclaimable(zs[i])
      lowest == ArgBest(C, LAMBDA j, i : score(j) < score(i))
  IN FirstOf(ArgBest(lowest, LAMBDA j, i : recl(j) > recl(i)))

SpecMigrateTarget(zs, hint, minCap, gotToken) ==
  LET E == {i \in Idx : ~zs[i].busy /\ zs[i].wp = 0}
      rc(i) == zs[i].resetCount
      C == {i \in Idx : /\ ~zs[i].busy /\ zs[i].used > 0 /\ zs[i].capacity # 0
                        /\ zs[i].capacity >= minCap
                        /\ GetLifeTimeDiff(zs[i].lifetime, hint) # LIFETIME_DIFF_NOT_GOOD}
      score(i) == (zs[i].resetCount * SpecReclaimable(zs[i])) \div zs[i].maxCap
      highest == ArgBest(C, LAMBDA j, i : score(j) > score(i))
  IN IF E # {} /\ gotToken
     THEN FirstOf(ArgBest(E, LAMBDA j, i : rc(j) > rc(i)))
     ELSE FirstOf(ArgBest(highest, LAMBDA j, i : rc(j) > rc(i)))

-----------------------------------------------------------------------------
(* Spec 4.D.2: GetBestOpenZoneMatch returns an open candidate of smallest  *)
(* lifetime diff whenever one with a usable diff exists (ties aside: the   *)
(* code keeps the last such zone, the spec the first), and reports         *)
(* NOT_GOOD otherwise.                                                     *)
BestMatchIsBest ==
  \A h \in Hints, mc \in MinCapacities :
    LET res == GetBestOpenZoneMatch(zones, h, mc)
        C == SpecOpenCandidates(zones, h, mc)
        diff(i) == GetLifeTimeDiff(zones[i].lifetime, h)
    IN IF C = {} THEN res.diff = LIFETIME_DIFF_NOT_GOOD
       ELSE /\ res.zone \in C
            /\ \A i \in C : diff(res.zone) <= diff(i)

(* Spec 4.D.3: AllocateEmptyZone(file_lifetime) returns the first empty    *)
(* zone with the most resets for long-lived data and with the fewest for  *)
(* short-lived data, the early break included.                             *)
EmptyZoneChoiceMatchesSpec ==
  \A h \in Hints : AllocateEmptyZone(zones, h) = SpecEmptyZone(zones, h)

(* Spec 4.E: GetLeastResetCountZone returns the used EXTREME zone with     *)
(* reclaimable space of lowest score, a tie going to more reclaimable     *)
(* space.                                                                   *)
LeastResetZoneMatchesSpec ==
  GetLeastResetCountZone(zones) = SpecLeastResetZone(zones)

(* Spec 4.E: GetMigrateTargetZone returns the most reset empty zone when   *)
(* it gets an active token for it, and otherwise the qualifying open zone *)
(* of highest score, a tie going to more resets.                           *)
MigrateTargetMatchesSpec ==
  \A h \in Hints, mc \in MinCapacities, t \in BOOLEAN :
    GetMigrateTargetZone(zones, h, mc, t) = SpecMigrateTarget(zones, h, mc, t)
=============================================================================
