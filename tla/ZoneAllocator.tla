---------------------------- MODULE ZoneAllocator ----------------------------
(***************************************************************************)
(* The I/O zone allocator of ZonedBlockDevice (src/fs/zbd_zenfs.cc).       *)
(*                                                                         *)
(* The io zones of the device, the open and active zone tokens, and the    *)
(* threads that share them:                                                *)
(*   - Writers call AllocateIOZone, then append to the zone they were      *)
(*     given and close it (the closing is done by the file layer, which is *)
(*     not in src/ and is modelled from the spec);                         *)
(*   - Collectors call ResetUnusedIOZones (the garbage collector);         *)
(*   - Migrators call GetMigrateTargetZone and ReleaseMigrateZone (the     *)
(*     wear-leveling worker).                                              *)
(* Every scan over io_zones takes one step per zone: a zone is acquired    *)
(* with its busy flag (a CAS, never a wait), examined and kept or          *)
(* released, so other threads run between two zones of one scan.           *)
(* Sizes are in blocks and write pointers are relative to the zone start.  *)
(***************************************************************************)
EXTENDS Integers, FiniteSets, ZoneLifetime

CONSTANTS
  NrIOZones,       \* number of io zones; zone i is io_zones[i-1]
  Writers,         \* threads calling AllocateIOZone
  Collectors,      \* threads calling ResetUnusedIOZones
  Migrators,       \* threads calling GetMigrateTargetZone
  NoZone,          \* nullptr
  ZoneSize,        \* zone size in blocks (Finish moves wp to it)
  MaxCapacities,   \* writable capacities a backend reset may report
  MaxAppend,       \* largest append, in blocks
  MaxResets,       \* bound: a zone is reset at most MaxResets times
  MaxOpenDev,      \* max open zones reported by the backend (0: no limit)
  MaxActiveDev,    \* max active zones reported by the backend (0: no limit)
  NrZones,         \* zones on the device, meta and reserved ones included
  FinishThreshold, \* finish_threshold_, percent
  Hints,           \* lifetime hints the callers pass
  InitWp,          \* write pointers the zones may have when the device is opened
  MinCapacities,   \* min_capacity values a migrator asks for
  WriteErrors,     \* may a backend write fail?
  DeviceErrors,    \* may a backend reset or finish fail, or a zone go offline?
  MaxRestarts      \* bound: the process crashes and reopens the device at most this often

Zones == 1..NrIOZones
Actors == Writers \cup Collectors \cup Migrators

\* Open(): one zone is reserved for metadata and one for migration.
ReservedZones == 2
MaxActiveIO == IF MaxActiveDev = 0 THEN NrZones ELSE MaxActiveDev - ReservedZones
MaxOpenIO == IF MaxOpenDev = 0 THEN NrZones ELSE MaxOpenDev - ReservedZones

ASSUME
  /\ NrIOZones \in Nat \ {0}
  /\ NoZone \notin Zones
  /\ Writers \cap (Collectors \cup Migrators) = {} /\ Collectors \cap Migrators = {}
  /\ MaxCapacities \subseteq 1..ZoneSize
  /\ MaxAppend \in 1..ZoneSize
  /\ MaxOpenDev \in {0} \cup (ReservedZones + 1)..NrZones
  /\ MaxActiveDev \in {0} \cup (ReservedZones + 1)..NrZones
  /\ FinishThreshold \in 0..100
  /\ Hints \subseteq Lifetimes
  /\ InitWp \subseteq 0..ZoneSize
  /\ MinCapacities \subseteq 0..ZoneSize
  /\ WriteErrors \in BOOLEAN /\ DeviceErrors \in BOOLEAN
  /\ MaxRestarts \in Nat
  \* Fewer resets than zones on the device: the wear-leveling trigger that
  \* Reset() evaluates needs total_reset_count_ > GetNrZones(), so it never
  \* fires here (it is modelled on its own in WearTrigger).
  /\ NrIOZones * MaxResets <= NrZones

VARIABLES
  wp,          \* wp_ - start_
  capacity,    \* capacity_
  maxCap,      \* max_capacity_
  used,        \* used_capacity_ (maintained by the file layer)
  lifetime,    \* lifetime_
  resetCount,  \* reset_count_
  busy,        \* busy_
  openTok,     \* open_io_zones_
  activeTok,   \* active_io_zones_
  deferred,    \* zone_deferred_status_
  migrating,   \* migrating_
  errReported, \* history: a failed write was reported to SetZoneDeferredStatus
  th,          \* per thread: program counter, scan index and local variables
  asleep,      \* threads blocked in a condition-variable wait
  restarts,    \* history: crashes followed by Open() so far
  migrateMtx   \* {m} while migrator m holds migrate_zone_mtx_, {} when free

zoneVars == <<wp, capacity, maxCap, used, lifetime, resetCount>>
vars == <<wp, capacity, maxCap, used, lifetime, resetCount, busy, openTok,
          activeTok, deferred, migrating, errReported, th, asleep, restarts,
          migrateMtx>>

(* The locals of a thread: pc, the index of the next zone of a scan, the   *)
(* zone it holds (allocated_zone, finish_victim, target_zone), the best    *)
(* lifetime diff or migration score so far, and the call's arguments.      *)
Idle == [pc |-> "idle", idx |-> 1, cand |-> NoZone,
         best |-> LIFETIME_DIFF_NOT_GOOD, hint |-> WLTH_NOT_SET, wal |-> FALSE,
         minCap |-> 0]

PCs == {"idle", "finish_thr", "wait_open", "best_match", "decide",
        "need_active", "fc_scan", "alloc_empty", "allocated", "holding",
        "gc_scan", "m_wait", "m_wait_open", "m_scan1", "m_scan2", "m_hold",
        "t_wait", "t_match", "t_hold"}

-----------------------------------------------------------------------------
(* Zone predicates, as in Zone::IsEmpty, IsFull, IsUsed.                   *)
IsEmpty(z) == wp[z] = 0
IsFull(z) == capacity[z] = 0
IsUsed(z) == used[z] > 0
\* A zone the device counts as active: written since its reset, not finished.
IsActiveZone(z) == ~IsEmpty(z) /\ ~IsFull(z)

GetZoneReclaimableSpace(z) ==
  IF IsFull(z) THEN maxCap[z] - used[z] ELSE wp[z] - used[z]

\* Mutation: the previous best is kept busy when a better zone is found.
HoldKeepsOld(old, new) == busy' = [z \in Zones |-> busy[z] \/ z = new]

\* Release the busy flag of old (if it is a zone) and keep that of new.
Hold(old, new) == busy' = [z \in Zones |-> (busy[z] \/ z = new) /\ z # old]
Release(z) == busy' = [busy EXCEPT ![z] = FALSE]

\* Zone::Finish after a successful backend finish.
Finish(z) ==
  /\ capacity' = [capacity EXCEPT ![z] = 0]
  /\ wp' = [wp EXCEPT ![z] = ZoneSize]
  /\ UNCHANGED <<maxCap, used, lifetime, resetCount>>

\* Zone::Reset after a successful backend reset: the zone is either offline
\* (capacity 0) or writable again with the capacity the backend reports.
Reset(z) ==
  /\ \/ /\ DeviceErrors
        /\ capacity' = [capacity EXCEPT ![z] = 0]
        /\ UNCHANGED maxCap
     \/ \E mc \in MaxCapacities :
          /\ maxCap' = [maxCap EXCEPT ![z] = mc]
          /\ capacity' = [capacity EXCEPT ![z] = mc]
  /\ wp' = [wp EXCEPT ![z] = 0]
  /\ lifetime' = [lifetime EXCEPT ![z] = WLTH_NOT_SET]
  /\ resetCount' = [resetCount EXCEPT ![z] = @ + 1]
  /\ UNCHANGED used

\* SetZoneDeferredStatus: the status is stored only if the stored one is not OK.
SetZoneDeferredStatus(s) == deferred' = IF deferred # "OK" THEN s ELSE deferred

\* WaitForOpenIOZoneToken: non-prioritized callers leave one token free.
AllocatorOpenLimit(prioritized) == IF prioritized THEN MaxOpenIO ELSE MaxOpenIO - 1

\* Mutation: GetActiveIOZoneTokenIfAvailable compares with <=.
ActiveTokenAvailableOffByOne == activeTok <= MaxActiveIO

\* GetActiveIOZoneTokenIfAvailable: a token is taken iff one is left.
ActiveTokenAvailable == activeTok < MaxActiveIO

(* The two condition variables. A thread in a wait is asleep, or awake     *)
(* and about to test its predicate under the mutex. notify_one wakes one   *)
(* sleeper, if there is one, chosen by the scheduler.                      *)
TokenWaiters == {a \in Actors : th[a].pc \in {"wait_open", "m_wait_open"}}
MigrateWaiters == {m \in Migrators : th[m].pc \in {"m_wait", "t_wait"}}

NotifyOne(waiters, k) ==
  \E woken \in SUBSET (asleep \cap waiters) :
    /\ Cardinality(woken) = IF k < Cardinality(asleep \cap waiters)
                            THEN k ELSE Cardinality(asleep \cap waiters)
    /\ asleep' = asleep \ woken

\* PutOpenIOZoneToken nOpen times and PutActiveIOZoneToken nActive times:
\* each decrements its counter and then calls zone_resources_.notify_one().
PutTokens(nOpen, nActive) ==
  /\ openTok' = openTok - nOpen
  /\ activeTok' = activeTok - nActive
  /\ NotifyOne(TokenWaiters, nOpen + nActive)

-----------------------------------------------------------------------------
(* Thread steps.                                                           *)
Goto(a, p) == th' = [th EXCEPT ![a].pc = p, ![a].idx = 1]
Advance(a) == th' = [th EXCEPT ![a].idx = @ + 1]
Return(a) == th' = [th EXCEPT ![a] = Idle]
ScanAt(a, p) == th[a].pc = p /\ th[a].idx <= NrIOZones
ScanDone(a, p) == th[a].pc = p /\ th[a].idx > NrIOZones

\* AllocateIOZone up to the token wait: a set deferred status is returned
\* (a call that changes nothing); a non-WAL call first runs
\* ApplyFinishThreshold, which returns at once when the threshold is 0.
AllocStart(w) ==
  /\ th[w].pc = "idle"
  /\ deferred = "OK"
  /\ \E h \in Hints, isWal \in BOOLEAN :
       th' = [th EXCEPT ![w] = [Idle EXCEPT
                !.hint = h, !.wal = isWal,
                !.pc = IF ~isWal /\ FinishThreshold # 0 THEN "finish_thr" ELSE "wait_open"]]
  /\ UNCHANGED <<zoneVars, busy, openTok, activeTok, deferred, migrating, errReported, restarts, migrateMtx, asleep>>

\* ApplyFinishThreshold, one zone.
WithinFinishThreshold(z) ==
  /\ ~(IsEmpty(z) \/ IsFull(z))
  /\ capacity[z] < (maxCap[z] * FinishThreshold) \div 100

FinishThresholdVisit(w) ==
  LET z == th[w].idx IN
  /\ ScanAt(w, "finish_thr")
  /\ \/ /\ busy[z] \/ ~WithinFinishThreshold(z)
        /\ Advance(w)
        /\ UNCHANGED <<zoneVars, activeTok, openTok, asleep>>
     \/ /\ ~busy[z] /\ WithinFinishThreshold(z)
        /\ Finish(z)
        /\ PutTokens(0, 1)
        /\ Advance(w)
     \/ /\ ~busy[z] /\ WithinFinishThreshold(z) /\ DeviceErrors
        /\ Return(w)
        /\ UNCHANGED <<zoneVars, activeTok, openTok, asleep>>
  /\ UNCHANGED <<busy, deferred, migrating, errReported, restarts, migrateMtx>>

FinishThresholdDone(w) ==
  /\ ScanDone(w, "finish_thr")
  /\ Goto(w, "wait_open")
  /\ UNCHANGED <<zoneVars, busy, openTok, activeTok, deferred, migrating, errReported, restarts, migrateMtx, asleep>>

\* WaitForOpenIOZoneToken(io_type == kWAL): an awake waiter whose predicate
\* holds takes the token; then GetBestOpenZoneMatch starts.
WaitOpenToken(w) ==
  /\ th[w].pc = "wait_open"
  /\ w \notin asleep
  /\ openTok < AllocatorOpenLimit(th[w].wal)
  /\ openTok' = openTok + 1
  /\ Goto(w, "best_match")
  /\ UNCHANGED <<zoneVars, busy, activeTok, deferred, migrating, errReported, restarts, migrateMtx, asleep>>

\* GetBestOpenZoneMatch, one zone: a zone with live data that is not full,
\* has min_capacity left and whose diff is not worse than the best so far
\* replaces the best (the previous best is released). AllocateIOZone
\* ("best_match") passes no min_capacity, that is 0; TakeMigrateZone
\* ("t_match") passes its own.
IsOpenCandidate(z, minCap) == used[z] > 0 /\ ~IsFull(z) /\ capacity[z] >= minCap

BestOpenZoneMatchVisit(w) ==
  LET z == th[w].idx
      diff == GetLifeTimeDiff(lifetime[z], th[w].hint)
      fits == IsOpenCandidate(z, th[w].minCap)
  IN
  /\ th[w].pc \in {"best_match", "t_match"}
  /\ ScanAt(w, th[w].pc)
  /\ \/ /\ busy[z] \/ ~fits \/ diff > th[w].best
        /\ Advance(w)
        /\ UNCHANGED busy
     \/ /\ ~busy[z] /\ fits /\ diff <= th[w].best
        /\ Hold(th[w].cand, z)
        /\ th' = [th EXCEPT ![w].cand = z, ![w].best = diff, ![w].idx = @ + 1]
  /\ UNCHANGED <<zoneVars, openTok, activeTok, deferred, migrating, errReported, restarts, migrateMtx, asleep>>

BestOpenZoneMatchDone(w) ==
  /\ ScanDone(w, "best_match")
  /\ Goto(w, "decide")
  /\ UNCHANGED <<zoneVars, busy, openTok, activeTok, deferred, migrating, errReported, restarts, migrateMtx, asleep>>

\* AllocateIOZone after the match (lines 1165-1186): a match better than
\* COULD_BE_WORSE is kept; otherwise an active token is tried, and the match
\* is kept only if no token was got and its diff is COULD_BE_WORSE. When a
\* token was got the loop `while (!got_token && ...)` is skipped.
\* Leaving the match with zone z held; the best diff is no longer needed.
EndMatch(w, z, p) ==
  th' = [th EXCEPT ![w].cand = z, ![w].pc = p, ![w].idx = 1,
                   ![w].best = LIFETIME_DIFF_NOT_GOOD]

\* Mutation: any match is kept when no active token is left.
KeepMatchWithoutTokenAnyDiff(w) == th[w].cand # NoZone

\* Without an active token a match is kept only if its diff is COULD_BE_WORSE.
KeepMatchWithoutToken(w) ==
  th[w].cand # NoZone /\ th[w].best = LIFETIME_DIFF_COULD_BE_WORSE

Decide(w) ==
  LET cand == th[w].cand
      best == th[w].best
  IN
  /\ th[w].pc = "decide"
  /\ \/ /\ best < LIFETIME_DIFF_COULD_BE_WORSE
        /\ EndMatch(w, th[w].cand, "allocated")
        /\ UNCHANGED <<busy, activeTok>>
     \/ /\ best >= LIFETIME_DIFF_COULD_BE_WORSE
        /\ ~ActiveTokenAvailable
        /\ KeepMatchWithoutToken(w)
        /\ EndMatch(w, th[w].cand, "allocated")
        /\ UNCHANGED <<busy, activeTok>>
     \/ /\ best >= LIFETIME_DIFF_COULD_BE_WORSE
        /\ ActiveTokenAvailable
        /\ activeTok' = activeTok + 1
        /\ Hold(cand, NoZone)
        /\ EndMatch(w, NoZone, "alloc_empty")
     \/ /\ best >= LIFETIME_DIFF_COULD_BE_WORSE
        /\ ~ActiveTokenAvailable
        /\ ~KeepMatchWithoutToken(w)
        /\ Hold(cand, NoZone)
        /\ EndMatch(w, NoZone, "need_active")
        /\ UNCHANGED activeTok
  /\ UNCHANGED <<zoneVars, openTok, deferred, migrating, errReported, restarts, migrateMtx, asleep>>

\* while (!got_token && !GetActiveIOZoneTokenIfAvailable()) FinishCheapestIOZone();
NeedActiveToken(w) ==
  /\ th[w].pc = "need_active"
  /\ \/ /\ ActiveTokenAvailable
        /\ activeTok' = activeTok + 1
        /\ Goto(w, "alloc_empty")
     \/ /\ ~ActiveTokenAvailable
        /\ Goto(w, "fc_scan")
        /\ UNCHANGED activeTok
  /\ UNCHANGED <<zoneVars, busy, openTok, deferred, migrating, errReported, restarts, migrateMtx, asleep>>

\* FinishCheapestIOZone, one zone: the non-empty, non-full zone with the
\* least capacity left is kept as the victim.
FinishCheapestVisit(w) ==
  LET z == th[w].idx
      victim == th[w].cand
      cheaper == IF victim = NoZone THEN TRUE ELSE capacity[victim] > capacity[z]
  IN
  /\ ScanAt(w, "fc_scan")
  /\ \/ /\ busy[z] \/ IsEmpty(z) \/ IsFull(z)
           \/ ~cheaper
        /\ Advance(w)
        /\ UNCHANGED busy
     \/ /\ ~busy[z] /\ ~IsEmpty(z) /\ ~IsFull(z)
        /\ cheaper
        /\ Hold(victim, z)
        /\ th' = [th EXCEPT ![w].cand = z, ![w].idx = @ + 1]
  /\ UNCHANGED <<zoneVars, openTok, activeTok, deferred, migrating, errReported, restarts, migrateMtx, asleep>>

\* Mutation: a failed finish returns without PutOpenIOZoneToken.
FinishCheapestDoneKeepsOpen(w) ==
  LET victim == th[w].cand IN
  /\ ScanDone(w, "fc_scan")
  /\ \/ /\ victim = NoZone
        /\ Goto(w, "need_active")
        /\ UNCHANGED <<zoneVars, busy, openTok, activeTok, asleep>>
     \/ /\ victim # NoZone
        /\ Finish(victim)
        /\ Release(victim)
        /\ PutTokens(0, 1)
        /\ th' = [th EXCEPT ![w].cand = NoZone, ![w].pc = "need_active", ![w].idx = 1]
     \/ /\ victim # NoZone /\ DeviceErrors
        /\ Release(victim)
        /\ Return(w)
        /\ UNCHANGED <<zoneVars, openTok, activeTok, asleep>>
  /\ UNCHANGED <<deferred, migrating, errReported, restarts, migrateMtx>>

\* Mutation: a failed finish returns without releasing the victim.
FinishCheapestDoneKeepsVictim(w) ==
  LET victim == th[w].cand IN
  /\ ScanDone(w, "fc_scan")
  /\ \/ /\ victim = NoZone
        /\ Goto(w, "need_active")
        /\ UNCHANGED <<zoneVars, busy, openTok, activeTok, asleep>>
     \/ /\ victim # NoZone
        /\ Finish(victim)
        /\ Release(victim)
        /\ PutTokens(0, 1)
        /\ th' = [th EXCEPT ![w].cand = NoZone, ![w].pc = "need_active", ![w].idx = 1]
     \/ /\ victim # NoZone /\ DeviceErrors
        /\ PutTokens(1, 0)
        /\ Return(w)
        /\ UNCHANGED <<zoneVars, busy>>
  /\ UNCHANGED <<deferred, migrating, errReported, restarts, migrateMtx>>

\* Mutation: a finished victim's active token is not put back.
FinishCheapestDoneKeepsActive(w) ==
  LET victim == th[w].cand IN
  /\ ScanDone(w, "fc_scan")
  /\ \/ /\ victim = NoZone
        /\ Goto(w, "need_active")
        /\ UNCHANGED <<zoneVars, busy, openTok, activeTok, asleep>>
     \/ /\ victim # NoZone
        /\ Finish(victim)
        /\ Release(victim)
        /\ th' = [th EXCEPT ![w].cand = NoZone, ![w].pc = "need_active", ![w].idx = 1]
        /\ UNCHANGED <<openTok, activeTok, asleep>>
     \/ /\ victim # NoZone /\ DeviceErrors
        /\ Release(victim)
        /\ PutTokens(1, 0)
        /\ Return(w)
        /\ UNCHANGED zoneVars
  /\ UNCHANGED <<deferred, migrating, errReported, restarts, migrateMtx>>

\* The end of FinishCheapestIOZone: nothing to finish returns OK; a finished
\* victim returns its active token; a failed finish makes AllocateIOZone put
\* back its open token and return the error.
FinishCheapestDone(w) ==
  LET victim == th[w].cand IN
  /\ ScanDone(w, "fc_scan")
  /\ \/ /\ victim = NoZone
        /\ Goto(w, "need_active")
        /\ UNCHANGED <<zoneVars, busy, openTok, activeTok, asleep>>
     \/ /\ victim # NoZone
        /\ Finish(victim)
        /\ Release(victim)
        /\ PutTokens(0, 1)
        /\ th' = [th EXCEPT ![w].cand = NoZone, ![w].pc = "need_active", ![w].idx = 1]
     \/ /\ victim # NoZone /\ DeviceErrors
        /\ Release(victim)
        /\ PutTokens(1, 0)
        /\ Return(w)
        /\ UNCHANGED zoneVars
  /\ UNCHANGED <<deferred, migrating, errReported, restarts, migrateMtx>>

\* AllocateEmptyZone(file_lifetime), one zone: long-lived data takes the
\* empty zone with the most resets, short-lived data the one with the
\* fewest, and stops at a zone never reset.
BetterEmptyZone(z, cand, hint) ==
  IF cand = NoZone THEN TRUE
  ELSE IF hint < WLTH_SHORT THEN resetCount[z] > resetCount[cand]
  ELSE resetCount[z] < resetCount[cand]

AllocateEmptyZoneVisit(w) ==
  LET z == th[w].idx
      cand == th[w].cand
      hint == th[w].hint
  IN
  /\ ScanAt(w, "alloc_empty")
  /\ \/ /\ busy[z] \/ ~IsEmpty(z) \/ ~BetterEmptyZone(z, cand, hint)
        /\ Advance(w)
        /\ UNCHANGED busy
     \/ /\ ~busy[z] /\ IsEmpty(z) /\ BetterEmptyZone(z, cand, hint)
        /\ Hold(cand, z)
        /\ th' = [th EXCEPT ![w].cand = z,
                    ![w].idx = IF hint >= WLTH_SHORT /\ resetCount[z] = 0
                               THEN NrIOZones + 1 ELSE @ + 1]
  /\ UNCHANGED <<zoneVars, openTok, activeTok, deferred, migrating, errReported, restarts, migrateMtx, asleep>>

\* Mutation: without an empty zone only the active token is put back.
AllocateEmptyZoneDoneKeepsOpen(w) ==
  LET z == th[w].cand IN
  /\ ScanDone(w, "alloc_empty")
  /\ \/ /\ z # NoZone
        /\ lifetime' = [lifetime EXCEPT ![z] = th[w].hint]
        /\ Goto(w, "allocated")
        /\ UNCHANGED <<wp, capacity, maxCap, used, resetCount, openTok, activeTok, asleep>>
     \/ /\ z = NoZone
        /\ PutTokens(0, 1)
        /\ Return(w)
        /\ UNCHANGED zoneVars
  /\ UNCHANGED <<busy, deferred, migrating, errReported, restarts, migrateMtx>>

\* The end of AllocateIOZone: a new zone takes the file's lifetime; without
\* one both tokens are put back and no zone is returned.
AllocateEmptyZoneDone(w) ==
  LET z == th[w].cand IN
  /\ ScanDone(w, "alloc_empty")
  /\ \/ /\ z # NoZone
        /\ lifetime' = [lifetime EXCEPT ![z] = th[w].hint]
        /\ Goto(w, "allocated")
        /\ UNCHANGED <<wp, capacity, maxCap, used, resetCount, openTok, activeTok, asleep>>
     \/ /\ z = NoZone
        /\ PutTokens(1, 1)
        /\ Return(w)
        /\ UNCHANGED zoneVars
  /\ UNCHANGED <<busy, deferred, migrating, errReported, restarts, migrateMtx>>

-----------------------------------------------------------------------------
(* The file layer with a zone from AllocateIOZone (not in src/, from the   *)
(* spec): it allocates a zone because it has data to append, so it appends *)
(* at least once ("allocated" until then); Zone::Append, the used capacity *)
(* it adds, and the close that releases the zone and returns the open      *)
(* token (and the active token of a full zone).                            *)
HoldingPCs == {"allocated", "holding"}

\* Zone::Append of size blocks, written in full.
Append(z, size) ==
  /\ size <= capacity[z]
  /\ wp' = [wp EXCEPT ![z] = @ + size]
  /\ capacity' = [capacity EXCEPT ![z] = @ - size]
  /\ used' = [used EXCEPT ![z] = @ + size]
  /\ UNCHANGED <<maxCap, lifetime, resetCount>>

WriterAppend(w) ==
  /\ th[w].pc \in HoldingPCs
  /\ \E size \in 1..MaxAppend : Append(th[w].cand, size)
  /\ Goto(w, "holding")
  /\ UNCHANGED <<busy, openTok, activeTok, deferred, migrating, errReported, restarts, migrateMtx, asleep>>

\* Zone::Append with more than the capacity left returns NoSpace.
WriterAppendNoSpace(w) ==
  /\ th[w].pc \in HoldingPCs
  /\ \E size \in 1..MaxAppend : capacity[th[w].cand] < size
  /\ Goto(w, "holding")
  /\ UNCHANGED <<zoneVars, busy, openTok, activeTok, deferred, migrating, errReported, restarts, migrateMtx, asleep>>

\* A backend write fails after done blocks of the append were written; the
\* file layer reports the error to SetZoneDeferredStatus.
WriterAppendFails(w) ==
  LET z == th[w].cand IN
  /\ th[w].pc \in HoldingPCs
  /\ WriteErrors
  /\ \E size \in 1..MaxAppend, done \in 0..MaxAppend - 1 :
       /\ done < size /\ size <= capacity[z]
       /\ wp' = [wp EXCEPT ![z] = @ + done]
       /\ capacity' = [capacity EXCEPT ![z] = @ - done]
  /\ SetZoneDeferredStatus("IOError")
  /\ errReported' = TRUE
  /\ Goto(w, "holding")
  /\ UNCHANGED <<maxCap, used, lifetime, resetCount, busy, openTok, activeTok, migrating, asleep,
                 restarts, migrateMtx>>

WriterClose(w) ==
  LET z == th[w].cand IN
  /\ th[w].pc = "holding"
  /\ Release(z)
  /\ PutTokens(1, IF IsFull(z) THEN 1 ELSE 0)
  /\ Return(w)
  /\ UNCHANGED <<zoneVars, deferred, migrating, errReported, restarts, migrateMtx>>

\* Files are deleted: the live data of a zone shrinks (not under busy).
DeleteData ==
  /\ \E z \in Zones :
       \E u \in 0..used[z] - 1 : used' = [used EXCEPT ![z] = u]
  /\ UNCHANGED <<wp, capacity, maxCap, lifetime, resetCount, busy, th, openTok,
                 activeTok, deferred, migrating, errReported, restarts, migrateMtx, asleep>>

-----------------------------------------------------------------------------
(* ResetUnusedIOZones, one zone per step: a written zone without live data *)
(* is reset and, if it was not full, returns its active token. A failed    *)
(* reset ends the call with the error.                                     *)
Resettable(z) == ~IsEmpty(z) /\ ~IsUsed(z) /\ resetCount[z] < MaxResets

\* Mutation: the active token is put back for full zones too.
ResetPutsActiveTokenAlways(z) == TRUE

\* `bool full = z->IsFull(); ... if (!full) PutActiveIOZoneToken();`
ResetPutsActiveToken(z) == ~IsFull(z)

CollectorStart(c) ==
  /\ th[c].pc = "idle"
  /\ Goto(c, "gc_scan")
  /\ UNCHANGED <<zoneVars, busy, openTok, activeTok, deferred, migrating, errReported, restarts, migrateMtx, asleep>>

\* Mutation: a zone is reset without being acquired.
ResetUnusedVisitIgnoresBusy(c) ==
  LET z == th[c].idx IN
  /\ ScanAt(c, "gc_scan")
  /\ \/ /\ busy[z] \/ ~Resettable(z)
        /\ Advance(c)
        /\ UNCHANGED <<zoneVars, activeTok, asleep>>
     \/ /\ Resettable(z)
        /\ Reset(z)
        /\ PutTokens(0, IF ResetPutsActiveToken(z) THEN 1 ELSE 0)
        /\ Advance(c)
     \/ /\ ~busy[z] /\ Resettable(z) /\ DeviceErrors
        /\ Return(c)
        /\ UNCHANGED <<zoneVars, activeTok, asleep>>
  /\ UNCHANGED <<busy, openTok, deferred, migrating, errReported, restarts, migrateMtx>>

ResetUnusedVisit(c) ==
  LET z == th[c].idx IN
  /\ ScanAt(c, "gc_scan")
  /\ \/ /\ busy[z] \/ ~Resettable(z)
        /\ Advance(c)
        /\ UNCHANGED <<zoneVars, activeTok, asleep>>
     \/ /\ ~busy[z] /\ Resettable(z)
        /\ Reset(z)
        /\ PutTokens(0, IF ResetPutsActiveToken(z) THEN 1 ELSE 0)
        /\ Advance(c)
     \/ /\ ~busy[z] /\ Resettable(z) /\ DeviceErrors
        /\ Return(c)
        /\ UNCHANGED <<zoneVars, activeTok, asleep>>
  /\ UNCHANGED <<busy, openTok, deferred, migrating, errReported, restarts, migrateMtx>>

ResetUnusedDone(c) ==
  /\ ScanDone(c, "gc_scan")
  /\ Return(c)
  /\ UNCHANGED <<zoneVars, busy, openTok, activeTok, deferred, migrating, errReported, restarts, migrateMtx, asleep>>

-----------------------------------------------------------------------------
(* GetMigrateTargetZone and ReleaseMigrateZone. The copying of extents in  *)
(* between is done by the wear-leveling worker (not in src/, from the      *)
(* spec) and is an append to the target.                                   *)

\* A call of GetMigrateTargetZone ("m_wait") or TakeMigrateZone ("t_wait")
\* with a lifetime hint and a min_capacity: it takes migrate_zone_mtx_ and
\* waits on migrate_resource_ until no migration is in flight. The lock
\* (lines 648 and 1104) is held until the call returns, except while the
\* caller sleeps on migrate_resource_.
MigrateStart(m) ==
  /\ th[m].pc = "idle"
  /\ migrateMtx = {}
  /\ migrateMtx' = {m}
  /\ \E op \in {"m_wait", "t_wait"}, h \in Hints, mc \in MinCapacities :
       th' = [th EXCEPT ![m] = [Idle EXCEPT !.hint = h, !.minCap = mc, !.pc = op]]
  /\ UNCHANGED <<zoneVars, busy, openTok, activeTok, deferred, migrating, errReported, restarts, asleep>>

\* Lines 649-651 and 1105-1107: an awake waiter that finds migrating_ clear
\* sets it; GetMigrateTargetZone goes on to its token wait, TakeMigrateZone
\* to GetBestOpenZoneMatch with its min_capacity. A woken waiter first
\* takes the lock back.
MigrateWaitDone(m) ==
  /\ th[m].pc \in {"m_wait", "t_wait"}
  /\ m \notin asleep
  /\ migrateMtx \subseteq {m}
  /\ migrateMtx' = {m}
  /\ ~migrating
  /\ migrating' = TRUE
  /\ Goto(m, IF th[m].pc = "m_wait" THEN "m_wait_open" ELSE "t_match")
  /\ UNCHANGED <<zoneVars, busy, openTok, activeTok, deferred, errReported, restarts, asleep>>

\* Lines 1109-1116: the match is the target; without one migrating_ is
\* cleared and the call returns, with no notify_one. The lock is released.
TakeMigrateZoneDone(m) ==
  /\ ScanDone(m, "t_match")
  /\ migrateMtx' = {}
  /\ \/ /\ th[m].cand # NoZone
        /\ EndMatch(m, th[m].cand, "t_hold")
        /\ UNCHANGED migrating
     \/ /\ th[m].cand = NoZone
        /\ migrating' = FALSE
        /\ Return(m)
  /\ UNCHANGED <<zoneVars, busy, openTok, activeTok, deferred, errReported, restarts, asleep>>

\* Line 657: WaitForOpenIOZoneToken(true).
MigrateWaitOpen(m) ==
  /\ th[m].pc = "m_wait_open"
  /\ m \notin asleep
  /\ openTok < AllocatorOpenLimit(TRUE)
  /\ openTok' = openTok + 1
  /\ Goto(m, "m_scan1")
  /\ UNCHANGED <<zoneVars, busy, activeTok, deferred, migrating, errReported, restarts, migrateMtx, asleep>>

\* Lines 658-691, one zone: the empty zone with the most resets.
MigrateEmptyVisit(m) ==
  LET z == th[m].idx
      cand == th[m].cand
      better == IF cand = NoZone THEN TRUE ELSE resetCount[z] > resetCount[cand]
  IN
  /\ ScanAt(m, "m_scan1")
  /\ \/ /\ busy[z] \/ ~IsEmpty(z) \/ ~better
        /\ Advance(m)
        /\ UNCHANGED busy
     \/ /\ ~busy[z] /\ IsEmpty(z) /\ better
        /\ Hold(cand, z)
        /\ th' = [th EXCEPT ![m].cand = z, ![m].idx = @ + 1]
  /\ UNCHANGED <<zoneVars, openTok, activeTok, deferred, migrating, errReported, restarts, migrateMtx, asleep>>

\* Lines 693-703: an empty target needs an active token; without one the
\* open token and the zone are given back. The second scan follows.
MigrateEmptyDone(m) ==
  LET z == th[m].cand IN
  /\ ScanDone(m, "m_scan1")
  /\ \/ /\ z # NoZone /\ ActiveTokenAvailable
        /\ activeTok' = activeTok + 1
        /\ lifetime' = [lifetime EXCEPT ![z] = th[m].hint]
        /\ Goto(m, "m_hold")
        /\ migrateMtx' = {}
        /\ UNCHANGED <<wp, capacity, maxCap, used, resetCount, busy, openTok, asleep>>
     \/ /\ z # NoZone /\ ~ActiveTokenAvailable
        /\ PutTokens(1, 0)
        /\ Release(z)
        /\ th' = [th EXCEPT ![m].cand = NoZone, ![m].best = 0, ![m].pc = "m_scan2", ![m].idx = 1]
        /\ UNCHANGED <<zoneVars, migrateMtx>>
     \/ /\ z = NoZone
        /\ th' = [th EXCEPT ![m].best = 0, ![m].pc = "m_scan2", ![m].idx = 1]
        /\ UNCHANGED <<zoneVars, busy, openTok, activeTok, asleep, migrateMtx>>
  /\ UNCHANGED <<deferred, migrating, errReported, restarts>>

\* Lines 705-743, one zone: among zones with live data, not full and with
\* min_capacity left, the one with the highest reset_count * reclaimable /
\* max_capacity (ties: more resets) whose lifetime diff is not NOT_GOOD.
MigrateScore(z) == (resetCount[z] * GetZoneReclaimableSpace(z)) \div maxCap[z]

\* Mutation: the lifetime of a partly written target is not checked.
MigrateTargetFitsAny(m, z) == TRUE

\* Only a zone whose lifetime diff is not NOT_GOOD may become the target.
MigrateTargetFits(m, z) ==
  GetLifeTimeDiff(lifetime[z], th[m].hint) # LIFETIME_DIFF_NOT_GOOD

MigrateOpenVisit(m) ==
  LET z == th[m].idx
      cand == th[m].cand
      eligible == used[z] > 0 /\ ~IsFull(z) /\ capacity[z] >= th[m].minCap
      better == IF cand = NoZone THEN TRUE
                ELSE \/ MigrateScore(z) > th[m].best
                     \/ MigrateScore(z) = th[m].best /\ resetCount[z] > resetCount[cand]
      fits == MigrateTargetFits(m, z)
  IN
  /\ ScanAt(m, "m_scan2")
  /\ \/ /\ busy[z] \/ ~eligible \/ ~better \/ ~fits
        /\ Advance(m)
        /\ UNCHANGED busy
     \/ /\ ~busy[z] /\ eligible /\ better /\ fits
        /\ Hold(cand, z)
        /\ th' = [th EXCEPT ![m].cand = z, ![m].best = MigrateScore(z), ![m].idx = @ + 1]
  /\ UNCHANGED <<zoneVars, openTok, activeTok, deferred, migrating, errReported, restarts, migrateMtx, asleep>>

\* Lines 745-752: no target clears migrating_ and returns NotFound. Either
\* way the call returns and the lock is released.
MigrateOpenDone(m) ==
  /\ ScanDone(m, "m_scan2")
  /\ migrateMtx' = {}
  /\ \/ /\ th[m].cand = NoZone
        /\ migrating' = FALSE
        /\ Return(m)
     \/ /\ th[m].cand # NoZone
        /\ Goto(m, "m_hold")
        /\ UNCHANGED migrating
  /\ UNCHANGED <<zoneVars, busy, openTok, activeTok, deferred, errReported, restarts, asleep>>

\* The worker copies live extents into the target.
MigrateAppend(m) ==
  /\ th[m].pc \in {"m_hold", "t_hold"}
  /\ \E size \in 1..MaxAppend : Append(th[m].cand, size)
  /\ UNCHANGED <<busy, th, openTok, activeTok, deferred, migrating, errReported, restarts, migrateMtx, asleep>>

\* Mutation: migrating_ is left set.
ReleaseMigrateZoneKeepsFlag(m) ==
  /\ th[m].pc \in {"m_hold", "t_hold"}
  /\ migrateMtx = {}
  /\ Release(th[m].cand)
  /\ Return(m)
  /\ NotifyOne(MigrateWaiters, 1)
  /\ UNCHANGED <<zoneVars, openTok, activeTok, deferred, migrating, errReported, restarts, migrateMtx>>

\* ReleaseMigrateZone: under migrate_zone_mtx_, clears migrating_ and
\* releases the target; then calls migrate_resource_.notify_one().
ReleaseMigrateZone(m) ==
  /\ th[m].pc \in {"m_hold", "t_hold"}
  /\ migrateMtx = {}
  /\ migrating' = FALSE
  /\ Release(th[m].cand)
  /\ Return(m)
  /\ NotifyOne(MigrateWaiters, 1)
  /\ UNCHANGED <<zoneVars, openTok, activeTok, deferred, errReported, restarts, migrateMtx>>

-----------------------------------------------------------------------------
(* Condition-variable waits. A waiter whose predicate is false under the   *)
(* mutex goes to sleep (zone_resources_.wait at line 812, with the limit   *)
(* of its caller: GetMigrateTargetZone is prioritized;                     *)
(* migrate_resource_.wait at lines 649 and 1105). A sleeper wakes on a     *)
(* notify_one or spuriously, and then tests its predicate again. A        *)
(* migrator sleeping on migrate_resource_ gives migrate_zone_mtx_ up and   *)
(* must take it back to test again (MigrateWaitDone); one sleeping on      *)
(* zone_resources_ at line 657 keeps holding migrate_zone_mtx_.            *)
\* The condition variable a waits on, and the predicate of its wait.
CvWaiters(a) == IF a \in TokenWaiters THEN TokenWaiters ELSE MigrateWaiters
WaitPredicate(a) ==
  IF a \in TokenWaiters
  THEN openTok < AllocatorOpenLimit(th[a].pc = "m_wait_open" \/ th[a].wal)
  ELSE ~migrating

CvSleep(a) ==
  /\ a \in TokenWaiters \cup MigrateWaiters
  /\ a \notin asleep
  /\ ~WaitPredicate(a)
  /\ asleep' = asleep \cup {a}
  /\ IF a \in MigrateWaiters
     THEN migrateMtx \subseteq {a} /\ migrateMtx' = {}
     ELSE UNCHANGED migrateMtx
  /\ UNCHANGED <<zoneVars, busy, th, openTok, activeTok, deferred, migrating, errReported, restarts>>

SpuriousWakeup(a) ==
  /\ a \in asleep
  /\ asleep' = asleep \ {a}
  /\ UNCHANGED <<zoneVars, busy, th, openTok, activeTok, deferred, migrating, errReported, restarts, migrateMtx>>

-----------------------------------------------------------------------------
(* A crash of the process and Open() on the same device (lines 469-497,   *)
(* and Zone::Zone, lines 52-66). The threads, busy flags, tokens, waiters, *)
(* migrating_ and the deferred status are gone. The backend keeps each    *)
(* zone's write pointer and max capacity, and Zone::Zone derives the same *)
(* capacity from them (0 unless the zone is writable). The zone is built  *)
(* with lifetime NOT_SET; active_io_zones_ counts the zones the device     *)
(* reports active, and open_io_zones_ starts at 0 because Open closes the *)
(* open ones. Outside src/, the file layer recovers at most the live data *)
(* it had, and SetIOZonesResetCount restores the reset counts. An offline *)
(* zone, which Open skips, stays in Zones: that only adds behaviours.      *)
\* Mutation: counting starts at 0, as the spec's Open sequence says.
OpenActiveCountZero == 0

\* Lines 469, 483-484: `if (zbd_be_->ZoneIsActive(zone_rep, i)) active_io_zones_++;`
OpenActiveCount == Cardinality({z \in Zones : IsActiveZone(z)})

Restart ==
  /\ restarts < MaxRestarts
  /\ restarts' = restarts + 1
  /\ lifetime' = [z \in Zones |-> WLTH_NOT_SET]
  /\ \E u \in [Zones -> 0..ZoneSize] :
       /\ \A z \in Zones : u[z] <= used[z]
       /\ used' = u
  /\ busy' = [z \in Zones |-> FALSE]
  /\ openTok' = 0
  /\ activeTok' = OpenActiveCount
  /\ deferred' = "OK"
  /\ migrating' = FALSE
  /\ errReported' = FALSE
  /\ th' = [a \in Actors |-> Idle]
  /\ asleep' = {}
  /\ migrateMtx' = {}
  /\ UNCHANGED <<wp, capacity, maxCap, resetCount>>

-----------------------------------------------------------------------------
(* Open() leaves the io zones as listed by the backend, with no busy flag, *)
(* open_io_zones_ = 0 (open zones are closed) and active_io_zones_ = the   *)
(* number of active zones. A zone is built with lifetime NOT_SET and no    *)
(* resets; the file layer then recovers its live data. The device is one   *)
(* that ZenFS itself left within its active limit.                         *)
Init ==
  /\ maxCap \in [Zones -> MaxCapacities]
  /\ wp \in [Zones -> InitWp]
  /\ \A z \in Zones : wp[z] <= maxCap[z]
  /\ capacity = [z \in Zones |-> maxCap[z] - wp[z]]
  /\ used \in [Zones -> 0..ZoneSize]
  /\ \A z \in Zones : used[z] <= wp[z]
  /\ lifetime = [z \in Zones |-> WLTH_NOT_SET]
  /\ resetCount = [z \in Zones |-> 0]
  /\ busy = [z \in Zones |-> FALSE]
  /\ openTok = 0
  /\ activeTok = OpenActiveCount
  /\ activeTok <= MaxActiveIO
  /\ deferred = "OK"
  /\ migrating = FALSE
  /\ errReported = FALSE
  /\ th = [a \in Actors |-> Idle]
  /\ asleep = {}
  /\ restarts = 0
  /\ migrateMtx = {}

Next ==
  \/ \E w \in Writers :
       \/ AllocStart(w) \/ FinishThresholdVisit(w) \/ FinishThresholdDone(w)
       \/ WaitOpenToken(w) \/ BestOpenZoneMatchVisit(w) \/ BestOpenZoneMatchDone(w)
       \/ Decide(w) \/ NeedActiveToken(w)
       \/ FinishCheapestVisit(w) \/ FinishCheapestDone(w)
       \/ AllocateEmptyZoneVisit(w) \/ AllocateEmptyZoneDone(w)
       \/ WriterAppend(w) \/ WriterAppendNoSpace(w) \/ WriterAppendFails(w)
       \/ WriterClose(w)
  \/ \E c \in Collectors :
       CollectorStart(c) \/ ResetUnusedVisit(c) \/ ResetUnusedDone(c)
  \/ \E m \in Migrators :
       \/ MigrateStart(m) \/ MigrateWaitDone(m) \/ MigrateWaitOpen(m)
       \/ MigrateEmptyVisit(m) \/ MigrateEmptyDone(m)
       \/ MigrateOpenVisit(m) \/ MigrateOpenDone(m)
       \/ BestOpenZoneMatchVisit(m) \/ TakeMigrateZoneDone(m)
       \/ MigrateAppend(m) \/ ReleaseMigrateZone(m)
  \/ \E a \in Actors : CvSleep(a) \/ SpuriousWakeup(a)
  \/ DeleteData
  \/ Restart

Spec == Init /\ [][Next]_vars

(* Fairness. A thread that is running code (a scan step, a decision, the   *)
(* finish-cheapest loop) is scheduled eventually: weak fairness per thread *)
(* step. The file layer writes to a zone it was given and eventually       *)
(* closes it, and the wear-leveling worker eventually releases its         *)
(* target. The two waits,                                                  *)
(* WaitForOpenIOZoneToken and the migrating_ wait, are condition-variable  *)
(* waits woken by notify_one, which promises no waiter a wakeup, so they   *)
(* get no fairness; neither do new calls (AllocStart, CollectorStart,      *)
(* MigrateStart), appends or deletions.                                    *)
WriterRuns(w) ==
  \/ FinishThresholdVisit(w) \/ FinishThresholdDone(w)
  \/ BestOpenZoneMatchVisit(w) \/ BestOpenZoneMatchDone(w)
  \/ Decide(w) \/ NeedActiveToken(w)
  \/ FinishCheapestVisit(w) \/ FinishCheapestDone(w)
  \/ AllocateEmptyZoneVisit(w) \/ AllocateEmptyZoneDone(w)
\* The first write to a zone just allocated (its pc is "allocated").
WriterFirstWrite(w) ==
  th[w].pc = "allocated"
  /\ (WriterAppend(w) \/ WriterAppendNoSpace(w) \/ WriterAppendFails(w))
CollectorRuns(c) == ResetUnusedVisit(c) \/ ResetUnusedDone(c)
MigratorRuns(m) ==
  \/ MigrateEmptyVisit(m) \/ MigrateEmptyDone(m)
  \/ MigrateOpenVisit(m) \/ MigrateOpenDone(m)
  \/ BestOpenZoneMatchVisit(m) \/ TakeMigrateZoneDone(m)

FairSpec ==
  /\ Spec
  /\ \A w \in Writers : WF_vars(WriterRuns(w)) /\ WF_vars(WriterFirstWrite(w))
                         /\ WF_vars(WriterClose(w))
  /\ \A c \in Collectors : WF_vars(CollectorRuns(c))
  /\ \A m \in Migrators : WF_vars(MigratorRuns(m)) /\ WF_vars(ReleaseMigrateZone(m))

-----------------------------------------------------------------------------
(* Properties.                                                             *)

TypeOK ==
  /\ wp \in [Zones -> 0..ZoneSize]
  /\ capacity \in [Zones -> 0..ZoneSize]
  /\ maxCap \in [Zones -> MaxCapacities]
  /\ used \in [Zones -> 0..ZoneSize]
  /\ lifetime \in [Zones -> Lifetimes]
  /\ resetCount \in [Zones -> 0..MaxResets]
  /\ busy \in [Zones -> BOOLEAN]
  /\ openTok \in 0..MaxOpenIO
  /\ activeTok \in 0..MaxActiveIO
  /\ deferred \in {"OK", "IOError"}
  /\ migrating \in BOOLEAN /\ errReported \in BOOLEAN
  /\ \A a \in Actors :
       /\ th[a].pc \in PCs
       /\ th[a].idx \in 1..NrIOZones + 1
       /\ th[a].cand \in Zones \cup {NoZone}
       /\ th[a].hint \in Lifetimes
  /\ asleep \subseteq Actors
  /\ restarts \in 0..MaxRestarts
  /\ migrateMtx \subseteq Migrators /\ Cardinality(migrateMtx) <= 1

\* A writer holds an open token from WaitForOpenIOZoneToken until it puts
\* it back on a failed or empty allocation, or until the file layer closes
\* the zone it was given.
HoldsOpenToken(w) ==
  th[w].pc \in {"best_match", "decide", "need_active", "fc_scan", "alloc_empty"} \cup HoldingPCs

\* A thread owes an active token that no active zone accounts for: taken
\* for an empty zone not yet found, or held with a zone that is empty or
\* full (a new zone not yet written, or one it has filled).
OwesActiveToken(a) ==
  \/ th[a].pc = "alloc_empty"
  \/ th[a].pc \in HoldingPCs \cup {"m_hold", "t_hold"} /\ ~IsActiveZone(th[a].cand)

(* open_io_zones_ counts exactly the writers between WaitForOpenIOZoneToken *)
(* and the return of their token (AllocateIOZone's error and empty paths,  *)
(* the file layer's close): no token is lost or returned twice. Stated for *)
(* runs without migrators.                                                 *)
OpenTokenAccounting ==
  openTok = Cardinality({w \in Writers : HoldsOpenToken(w)})

(* active_io_zones_ counts exactly the active zones plus the tokens threads *)
(* hold for zones not yet, or no longer, active: every finish, reset and   *)
(* close returns the token of a zone that stops being active, once.        *)
ActiveTokenAccounting ==
  activeTok = Cardinality({z \in Zones : IsActiveZone(z)})
                + Cardinality({a \in Actors : OwesActiveToken(a)})

(* The device limits hold: no more io zones are active than                *)
(* max_nr_active_io_zones_ and no more writers have a zone than            *)
(* max_nr_open_io_zones_.                                                  *)
ZoneLimits ==
  /\ Cardinality({z \in Zones : IsActiveZone(z)}) <= MaxActiveIO
  /\ Cardinality({w \in Writers : th[w].pc \in HoldingPCs}) <= MaxOpenIO

(* A zone's busy flag is set exactly when one thread holds it: every       *)
(* acquisition that a scan does not keep is released once, and no two      *)
(* threads hold one zone.                                                  *)
BusyMeansHeld ==
  /\ \A z \in Zones : busy[z] <=> \E a \in Actors : th[a].cand = z
  /\ \A a, b \in Actors : a # b /\ th[a].cand = th[b].cand => th[a].cand = NoZone

(* AllocateIOZone never hands out a zone whose lifetime is NOT_GOOD for the *)
(* file: a new zone takes the file's hint and an open zone is kept only    *)
(* with a diff below NOT_GOOD. The same holds of migration targets.        *)
AllocatedLifetimeMatches ==
  \A w \in Writers \cup Migrators :
    th[w].pc \in HoldingPCs \cup {"m_hold"} =>
      GetLifeTimeDiff(lifetime[th[w].cand], th[w].hint) # LIFETIME_DIFF_NOT_GOOD

(* Once a failed write has been reported to SetZoneDeferredStatus, the     *)
(* deferred status is an error, so every later AllocateIOZone fails fast.  *)
DeferredErrorLatched == errReported => deferred # "OK"

(* A zone returned by AllocateIOZone has room for data: an offline zone is *)
(* left unusable.                                                          *)
AllocatedZoneWritable ==
  [][\A w \in Writers :
       th[w].pc # "allocated" /\ th'[w].pc = "allocated" => capacity'[th'[w].cand] > 0]_vars

(* At most one migration is in flight: migrating_ is set exactly while one *)
(* migrator is between GetMigrateTargetZone and ReleaseMigrateZone (or its *)
(* NotFound return).                                                       *)
MigrationExclusive ==
  LET inFlight == {m \in Migrators : th[m].pc \notin {"idle", "m_wait", "t_wait"}} IN
  /\ migrating <=> inFlight # {}
  /\ Cardinality(inFlight) <= 1

(* When every thread is idle no open token is taken and every active token *)
(* belongs to an active zone.                                              *)
TokensReturnedWhenIdle ==
  (\A a \in Actors : th[a].pc = "idle") =>
    /\ openTok = 0
    /\ activeTok = Cardinality({z \in Zones : IsActiveZone(z)})

(* Every busy flag taken is released again: no path of AllocateIOZone,     *)
(* ResetUnusedIOZones or GetMigrateTargetZone keeps a zone it scanned,     *)
(* and a zone handed out comes back when its holder is done.               *)
BusyEventuallyReleased == \A z \in Zones : busy[z] ~> ~busy[z]

(* An AllocateIOZone that holds an open token returns: with a zone, or     *)
(* with none after it gave its tokens back. The loop                       *)
(* `while (!got_token && !GetActiveIOZoneTokenIfAvailable())               *)
(* FinishCheapestIOZone();` spins without waiting.                         *)
AllocationReturns ==
  \A w \in Writers : th[w].pc = "best_match" ~> th[w].pc \in HoldingPCs \cup {"idle"}
(* No lost wakeup: a thread asleep on zone_resources_ or migrate_resource_ *)
(* whose predicate has become true has a waiter of the same condition      *)
(* variable awake to test it. Every PutOpenIOZoneToken and                 *)
(* ReleaseMigrateZone calls notify_one, but notify_one may wake a waiter   *)
(* whose own predicate is still false, and the NotFound returns of         *)
(* GetMigrateTargetZone and TakeMigrateZone clear migrating_ without one.  *)
NoLostWakeup ==
  \A a \in asleep : WaitPredicate(a) => CvWaiters(a) \ asleep # {}
-----------------------------------------------------------------------------
(* The allocator implements the lease that the busy flag promises          *)
(* (ZoneLease): a thread holds the zone it keeps as allocated_zone,        *)
(* finish_victim or target_zone, and the state of a zone is what the       *)
(* backend sees of it.                                                     *)
Lease == INSTANCE ZoneLease WITH
  holders <- [z \in Zones |-> {a \in Actors : th[a].cand = z}],
  local <- th,
  zone <- [z \in Zones |-> <<wp[z], capacity[z], maxCap[z], lifetime[z], resetCount[z]>>],
  ZoneStates <- (0..ZoneSize) \X (0..ZoneSize) \X MaxCapacities \X Lifetimes \X (0..MaxResets)

(* Every step of every thread is a lease step: no scan, finish, reset,     *)
(* append or lifetime change touches a zone that another thread holds,     *)
(* and no thread keeps two zones or shares one.                            *)
LeaseRefinement == Lease!Spec
=============================================================================
