# TLA+ models of the ZenFS zone allocator

These modules model `src/fs/zbd_zenfs.cc`, the zoned-block-device layer of
ZenFS: the zones, the open/active zone tokens, the I/O zone allocator, the
garbage collector's reset of unused zones and the wear-leveling migration
target. `PROJECT.json` lists the components, the runs, the mutants, the map
from every definition to the source lines it models, the findings and the
hazards.

## The system

`ZonedBlockDevice` owns the meta zones and the io zones, which are fixed for
the lifetime of the device. Every `Zone` has:

- a write pointer `wp_`;
- the capacity left, `capacity_`, and the writable size `max_capacity_`;
- the live bytes `used_capacity_`, maintained by the file layer;
- a lifetime hint and a reset count;
- a `busy_` flag. It is taken by a compare-and-swap (`Acquire`) and never waited for.

A zone may be changed only by the thread holding its busy flag.

These threads share the zones:

- **Writers** (the file layer) call `AllocateIOZone(lifetime, io_type)`. It:
  1. fails fast on a deferred error;
  2. runs `ApplyFinishThreshold` for non-WAL writes;
  3. waits for an open-zone token (`WaitForOpenIOZoneToken`). Non-WAL callers leave one token free.
  4. scans for the best open zone by lifetime distance (`GetBestOpenZoneMatch`);
  5. keeps that zone, or takes an active token, finishing the cheapest zone until one is free (`FinishCheapestIOZone`);
  6. scans for an empty zone, chosen by reset count (`AllocateEmptyZone`).

  The writer then appends to the zone it holds and closes it. The close
  returns the open token, and also the active token if the zone is full.
- **The garbage collector** calls `ResetUnusedIOZones`. It resets every zone
  that was written and has no live data left. It returns the zone's active
  token if the zone was not full.
- **The wear-leveling worker** calls `GetMigrateTargetZone`. It waits for
  `migrating_` to clear, takes a prioritized open token, and looks first for
  the empty zone with the most resets, which needs an active token. Failing
  that, it takes the best-scoring partly written zone. The worker copies live
  extents into the target and calls `ReleaseMigrateZone`.
- **`TakeMigrateZone`** is the other way to get a migration target. It waits
  on the same `migrating_`, then takes the best open zone that
  `GetBestOpenZoneMatch` finds with a `min_capacity`. It takes no token and
  makes no lifetime check. Its target is also released by `ReleaseMigrateZone`.

Each scan visits the zones in order and acquires each one's busy flag in turn.
So any thread can run between two zones of another thread's scan. Tokens are
counters guarded by a mutex and the condition variable `zone_resources_`.
`migrating_` has its own mutex, `migrate_zone_mtx_`, and condition variable,
`migrate_resource_`. `GetMigrateTargetZone` and `TakeMigrateZone` hold that
mutex for the whole call (lines 648 and 1104), except while asleep on
`migrate_resource_`, so two migration scans never overlap, and
`ReleaseMigrateZone` takes it to clear `migrating_`. Both condition variables
are woken with `notify_one`.

## Modules

### `ZoneAllocator.tla`

The io zones, the tokens and the three kinds of thread. The constants are
`Writers`, `Collectors` and `Migrators`, plus the sizes and bounds listed
below.

**State.** One variable per field of the code:

| Variable | Code |
|---|---|
| `wp`, `capacity`, `maxCap`, `used`, `lifetime`, `resetCount`, `busy` | the fields of each `Zone` |
| `openTok`, `activeTok` | `open_io_zones_`, `active_io_zones_` |
| `deferred` | `zone_deferred_status_` |
| `migrating` | `migrating_` |
| `asleep` | the threads blocked in `zone_resources_.wait` or `migrate_resource_.wait` |
| `migrateMtx` | the migrator holding `migrate_zone_mtx_` (`{}` when it is free) |
| `th[a]` | one thread's program counter, its scan index and its locals: the zone it holds (`allocated_zone`, `finish_victim`, `target_zone`), the best diff or score, and its arguments |

`errReported` is a history variable. It records that a write error was
reported to `SetZoneDeferredStatus`.

**Actions.** One action per step of a handler:

- Each scan is a `...Visit` action, one zone per step, and a `...Done` action after the last zone.
- `Decide` is the branch of `AllocateIOZone` after the best-match scan.
- `NeedActiveToken` is its `while (!got_token && ...)` loop.
- Backend calls that can fail (reset, finish, write) have one disjunct per outcome:
  - success;
  - an offline zone at reset;
  - an error, under `DeviceErrors` or `WriteErrors`.
- `Reset` and `Finish` are the updates of `Zone::Reset` and `Zone::Finish`. `Append` is `Zone::Append`.
- **Condition variables.** A waiter whose predicate is false goes to sleep (`CvSleep`).
  - `PutTokens` is `PutOpenIOZoneToken` and `PutActiveIOZoneToken`: it decrements the counter and calls `NotifyOne`, which wakes one sleeper, if there is one, chosen by the scheduler.
  - `ReleaseMigrateZone` notifies `migrate_resource_` the same way.
  - A sleeper may also wake spuriously (`SpuriousWakeup`). An awake waiter tests its predicate again.
  - Each waiter has its own predicate (`WaitPredicate`). For the token wait it depends on the caller: `GetMigrateTargetZone` and WAL writes may take every token, other writes all but one.
- **`migrate_zone_mtx_`.** `MigrateStart` takes it; `CvSleep` on `migrate_resource_` gives it up and `MigrateWaitDone` takes it back; the steps that return (`MigrateEmptyDone` with a target, `MigrateOpenDone`, `TakeMigrateZoneDone`) release it. A migrator asleep on `zone_resources_` at line 657 keeps it. `ReleaseMigrateZone` needs it free and holds it only within its one step.
- **`TakeMigrateZone`.** It is `MigrateStart` with program counter `"t_wait"`, then `MigrateWaitDone` and `BestOpenZoneMatchVisit` with the caller's `min_capacity`, then `TakeMigrateZoneDone`.

The file layer and the extent copy of the wear-leveling worker are not in
`src/`. They are modelled from the spec:

- `WriterAppend`, `WriterAppendNoSpace` and `WriterAppendFails`;
- `WriterClose`;
- `DeleteData`, where used capacity shrinks as files are deleted;
- `MigrateAppend`.

A writer given a zone appends at least once before closing it (program
counter `"allocated"`), because it asked for the zone to write data.

`Init` is the state that `Open()` leaves:

- zones with any allowed write pointer and live data;
- no thread and no busy flag;
- `open_io_zones_ = 0`;
- `active_io_zones_` equal to the number of active zones, within the device's limit.

**Crash and restart.** `Restart` is a crash of the process followed by
`Open()` on the same device (lines 466-491, and `Zone::Zone`, lines 52-66).
It is bounded by `MaxRestarts` and counted in `restarts`.

- The device keeps each zone's `wp`, capacity and reset count. The model keeps `resetCount` as an abstraction: the code reloads it from the reset-count arrays.
- Each zone's `used` may drop to anything no greater than before: live data is recovered by the file layer, not by `Open`.
- Lifetimes become `NOT_SET`, busy flags clear, every thread is gone, the deferred status is `OK` and `migrating_` is false.
- `open_io_zones_` is 0, and `active_io_zones_` is the number of zones the device reports active (`OpenActiveCount`, lines 472-480).

An offline zone, which `Open` leaves out of `io_zones`, stays in `Zones`.
That only adds behaviours.

### `WearTrigger.tla`

This module models the tail of `Zone::Reset` (lines 110-131) and `GetResetCountStdDev`. It runs after a successful reset, whether of an io zone or of a meta zone, since `AllocateMetaZone` calls the same `Zone::Reset`.

**State:**

| Variable | Code |
|---|---|
| `resetCount` | the io zones' `reset_count_` |
| `metaResets` | `GetMetaZoneResetCountNow()` |
| `total` | `total_reset_count_` |
| `check` | `check_reset_count_` |
| `wlTrigger` | `wl_trigger_count_` |
| `threshold` | `reset_ratio_threshold_` |

Two history variables track the worker's wakeups:

- `wakes` counts the calls to `WakeupWLWorker`;
- `lastWakeIo` records the io reset count at the last wakeup.

**Actions.** `ResetIOZone(z)` and `ResetMetaZone` each apply the increments of `Zone::Reset` and then the trigger. The trigger has three disjuncts:

- the total count is at most `GetNrZones()`;
- no wakeup: the check count is floored;
- a wakeup, with a damping step every third time.

**Abstractions:**

- **Width.** `io_zones_reset_count` and `reset_count_diff` are `uint32_t`. They are computed `% 2^Bits` with `Bits` = 16, which keeps the wrap visible.
- **The mean.** The standard deviation uses the integer mean, so it is 0 exactly when all counts are equal.
- **The threshold.** It is a double. The model keeps only whether it is `"initial"`, `"damped"` (finite, another value) or `"inf"`. Against `"damped"` the rate test may go either way.

**Constants.** `wl_trigger_count_` is never initialised in `src/`, so `InitTriggerCounts` admits every value up to the damping bound.

### `ZoneLease.tla`

This is the abstract specification of what a busy flag promises (spec
section 3, rule 2, and section 9): an exclusive lease.

- `holders[z]` is the set of threads that hold zone `z`.
- `zone[z]` is the zone's state, any value.
- `local[a]` is thread `a`'s private state. It tells which thread took a step.

In a step of thread `a`:

- no other thread's private state changes;
- `a` takes only free zones and gives back only its own;
- at the end `a` holds at most one zone and no zone has two holders;
- a zone changes only if no other thread holds it, before and after the step.

`ZoneAllocator` instantiates it as `Lease`:

- `holders` is the set of threads whose `th[a].cand` is the zone;
- `local` is `th`;
- `zone` is the tuple of `wp`, `capacity`, `maxCap`, `lifetime` and `resetCount`.

`used` is left out because the file layer, not the zone's holder, changes it.
`ZoneLease` also has `Crash`, which ends every lease at once and may change
any zone. It is what `Restart` refines.
`LeaseRefinement`, which is `Lease!Spec`, is a property of `liveness`: a writer and the collector contend for the zones there, and the process may crash. Checking it in the two-writer runs tripled their time and took them past five minutes. Its
mutant lets `ResetUnusedIOZones` reset a zone without acquiring it.

### `ZoneLifetime.tla`

This module holds the lifetime hints and `GetLifeTimeDiff`, which `ZoneAllocator` and `ZoneSelection` share.

### `ZoneSelection.tla`

The selection scans are operators over a snapshot of the io zones:

| Operator | Code |
|---|---|
| `GetBestOpenZoneMatch` | `GetBestOpenZoneMatch` |
| `AllocateEmptyZone` | `AllocateEmptyZone(file_lifetime)` |
| `GetLeastResetCountZone` | `GetLeastResetCountZone` |
| `GetMigrateTargetZone` | the two scans of `GetMigrateTargetZone` |
| `GetLifetimeZeroZone` | `GetLifetimeZeroZone`, a `SelectSeq` over the zone indices (not checked: see below) |

`GetLifetimeZeroZone`'s code (lines 331-339) is the spec's definition word for word, so no property compares it with a reference; any such comparison would hold whatever the code did.

Each scan except `GetLifetimeZeroZone` is a `RECURSIVE` walk over `io_zones` in order. It keeps the code's comparisons, its early break and its skip of zones whose busy flag another thread holds. Each is checked against a declarative reference written from the spec's text (sections 4.D.2, 4.D.3 and 4.E): the first zone, in scan order, that is best by the stated criterion. The references share no helper with the code operators.

The state is the snapshot:

- `Init` enumerates every well-formed state of each zone: empty, partly written, full, finished or offline, with live data at most what was written.
- `ZoneChanges` is another thread acquiring or releasing one zone.

How these scans interleave with other threads is the business of `ZoneAllocator`.

### `IdleDetector.tla`

`JudgeQpsTrend` (lines 341-415, spec 4.F), which the wear-leveling worker
calls to decide whether the device is idle enough to migrate data now.

- **State.** The window maxima, the two idle thresholds and the fail and
  successive counts are the fields of the same names. `writeSeen` and
  `readSeen` are history variables: the largest rates sampled so far.
- **`JudgeQpsTrend`.** One action per call. Its inputs are the two sampled
  rate pairs, from small sets: `WriteQps` and `ReadQps`. In the code's order,
  it then:
  - updates the window maxima (`WindowMax`);
  - after five fails, raises each threshold half way to its window maximum
    and clears the window (`Raise`);
  - after five successes, puts back the literals 76 and 5000 if either
    threshold differs from them;
  - returns the verdict (`Verdict`).
- **The worker's counts.** The worker is not in `src/`, so `WorkerCounts`
  follows the spec: a fail verdict extends the run of fails and ends the run
  of successes, and the other way round. Only `count >= 5` is ever tested,
  so a count stops at 5.
- **Left out.** The `usleep` and `ClearNowQps` calls only set the
  sampling period.

`src/`'s constructor does not initialise these fields (they are declared in
`zbd_zenfs.h`), so `Init` follows the spec's configuration.

### `MetaZoneAllocator.tla`

`AllocateMetaZone` (lines 754-781, spec 4.D.5) over the meta zones that
`Open()` sets aside (lines 458-466: the first three sequential zones,
offline ones left out).

- **State.** Each meta zone has `wp`, `used`, `offline` and `busy`. The
  `wp` is only "at the start" or "past it", which is all `IsEmpty` tells
  apart. `pc` and `idx` are the call's place in its loop.
- **Actions.**
  - `MetaVisit` is one loop step, with one disjunct per path:
    - `Acquire` fails;
    - the zone is used and stays acquired;
    - the zone is empty and is returned;
    - the reset succeeds (possibly taking the zone offline) and the zone is returned;
    - the reset fails and `CheckRelease` releases the zone.
  - `MetaScanDone` is the `NoSpace` return.
- **The caller.** The metadata log is not in `src/`, and the spec puts it out
  of scope, so it is the most general caller. It appends to zones it holds
  (`LogWrite`), releases them (`LogRelease`), and any zone's data may become
  obsolete (`LogObsolete`). It calls `AllocateMetaZone` itself, so it takes no
  step during a call.
- **Left out.** The reset's wear-leveling trigger is `WearTrigger`'s
  `ResetMetaZone`.

### `MC_ZoneAllocator.tla`

Gives TLC its instances:

- two io zones;
- a device of 32 zones (`ZENFS_MIN_ZONES`);
- the lifetime hints `NOT_SET` and `EXTREME`. These give the lifetime distances 0, `COULD_BE_WORSE` and `NOT_GOOD`, but never a positive difference: that needs a zone hint above the file's, so a third hint. With `SHORT` added, `alloc_safety` alone took 4 min 22 s. Positive differences are covered by the `selection` run, whose hints are `NOT_SET`, `SHORT`, `MEDIUM` and `EXTREME`.
- symmetry over the writers and over the migrators. Threads of one kind run the same code, so this symmetry is sound.

## Runs

| Run | Expect | Threads | Question |
|---|---|---|---|
| `alloc_safety` | pass | 2 writers, 1 collector | Token and busy-flag accounting with reset failures and offline zones: `TypeOK`, `OpenTokenAccounting`, `ActiveTokenAccounting`, `BusyMeansHeld`, `AllocatedLifetimeMatches` |
| `alloc_faults` | pass | 2 writers, 1 collector | With finish threshold 100, finish failures, partial writes and one io active slot: `OpenTokenAccounting`, `BusyMeansHeld`, `ZoneLimits` |
| `migration` | pass | 1 writer, 2 migrators, each calling `GetMigrateTargetZone` or `TakeMigrateZone`, one io active slot | `MigrationExclusive`, `BusyMeansHeld`, `AllocatedLifetimeMatches` for `GetMigrateTargetZone` targets |
| `deferred_latch` | violation | 2 writers | `DeferredErrorLatched` |
| `lost_wakeup` | violation | 4 writers, WAL and non-WAL | `NoLostWakeup` |
| `migration_token_leak` | violation | 1 writer, 1 migrator | `TokensReturnedWhenIdle` |
| `liveness` | pass | 1 writer, 1 collector, `FairSpec`, one crash | `BusyEventuallyReleased`, `AllocationReturns`, with failing resets and finishes and one io active slot; across a crash and `Open()`: `LeaseRefinement`, `ActiveTokenAccounting`, `ZoneLimits` |
| `wear_trigger` | pass | resets of 2 io zones and 3 meta zones | `WakeupsSpacedPastFloor`: once the io resets pass `GetNrZones()`, two wakeups are at least `GetNrZones()` io resets apart |
| `meta_busy_leak` | violation | `AllocateMetaZone` and the metadata log over 3 meta zones | `MetaBusyMeansHeld` |
| `selection` | pass | every snapshot of 2 io zones | `BestMatchIsBest`, `EmptyZoneChoiceMatchesSpec`, `LeastResetZoneMatchesSpec`, `MigrateTargetMatchesSpec` (for every hint, `min_capacity` and token outcome) |
| `idle_detector` | pass | every sequence of `JudgeQpsTrend` calls on sampled rates | `ThresholdsWithinObserved`: each idle threshold stays between its configured and default values, or up to the largest rate observed |
| `wear_div_zero` | violation | io resets from `wl_trigger_count_` = 2 | `WearLevelingStaysEnabled` |

The passing runs between them fire every action and every disjunct of `Next`.

**Properties.**

- The accounting invariants are exact equalities between the counters and the
  threads or zones that account for them:
  - `OpenTokenAccounting` is stated for writers only, because migrations leak open tokens.
  - `ActiveTokenAccounting` is stated without write errors, because a failed first write leaks an active token.

  An equality catches a token lost or returned twice by any path, which a
  bound alone would not.
- `BusyMeansHeld` says each busy flag has exactly one holder.
- `ZoneLimits` bounds the active zones by the io active limit, and the writers holding a zone by the io open limit. With at most two writers and two io open tokens, only its first conjunct can fail in these runs.
- There is no property for the WAL reserve of line 808 (non-WAL callers stop one token short of the limit). A bound on the non-WAL holders would only restate that line. The reserve decides which waiter waits, and `notify_one` may wake either kind (`lost_wakeup`), so WAL writers are not protected from starvation either way.
- `AllocatedLifetimeMatches` says no zone handed out is `NOT_GOOD` for the hint it was handed out for.
- `BusyEventuallyReleased` and `AllocationReturns` are the liveness properties, checked under `FairSpec` (see Fairness). The first says every busy flag taken is released again. The second says an `AllocateIOZone` holding an open token returns, with a zone or without one.

Each property of a passing run has a mutant in `PROJECT.json`: a plausible bug
in the modelled code that TLC finds violates it.

## Findings

Each violation run shows a disagreement between the code and the spec:

1. **`deferred_latch`.** `SetZoneDeferredStatus` (line 1281) stores a status only if the stored one is already an error. So the first write error is never latched, and allocations go on after it.
2. **`lost_wakeup`: a WAL write blocks while a token is free.** All waiters for an open token share `zone_resources_`, but their predicates differ: `open_io_zones_ < max_nr_open_io_zones_` for WAL writes, `< max_nr_open_io_zones_ - 1` for others. `PutOpenIOZoneToken` wakes one waiter. TLC's trace, with two io open tokens:
   - two writers hold the two tokens;
   - a non-WAL writer and a WAL writer wait and sleep;
   - one holder closes its zone, and the notify wakes the non-WAL writer;
   - its predicate is still false, so it sleeps again.

   The WAL writer stays asleep while a token is free, until some other put. The same property is violated on `migrate_resource_`. A `TakeMigrateZone` that finds no zone clears `migrating_` without a notify (lines 1114-1115), as does `GetMigrateTargetZone`'s `NotFound` return (lines 746-748). It takes three callers, because `migrate_zone_mtx_` is held for the whole call: two callers sleep on `migrating_`, `ReleaseMigrateZone`'s notify wakes one, and that one returns `NotFound` with no notify, so the other sleeps on with no migration in flight. With `Migrators = {m1, m2, m3}` and no writers TLC finds this in 16 steps. With two migrators it finds none (18,321 states).
3. **`migration_token_leak`.** The open token taken by `GetMigrateTargetZone` is not put back by `ReleaseMigrateZone`, nor on `NotFound` after an empty first scan.
4. **`meta_busy_leak`: a meta zone stays busy for good.** `AllocateMetaZone` calls `Acquire()` on each meta zone. When the zone is used, it moves on without `CheckRelease` (lines 764-765). `Open()` builds every meta zone with `used_capacity_` 0 (`Zone::Zone`, line 61). TLC's trace is seven steps long:
   - the first `AllocateMetaZone` returns meta zone 1;
   - the log writes to it and releases it;
   - the next `AllocateMetaZone` acquires it, finds it used and moves on;
   - the zone is now busy with no holder.

   Once its data is obsolete, that zone can never be acquired, reset or returned again, and with three meta zones the log soon gets `NoSpace`. The spec says busy is released exactly once per successful acquisition (8.4). With `CheckRelease` on that path (the mutant `AcquireUsedReleases`), the property holds over all 3,456 states.
5. **`wear_div_zero`.** When all io zones have the same reset count:
   - sigma is exactly 0;
   - the damping divides the threshold by 0 and makes it infinite;
   - the rate test never passes again, so wear leveling stops for good.

   The spec considers only a negative sigma.
**`Open` recounts active zones, as it must.** The spec's open sequence
says counting starts at 0. After a crash, zones left partly written are
still active on the device, and the code counts them (lines 483-484). The
`liveness` run checks `ActiveTokenAccounting` and `ZoneLimits` across a
restart. Its mutant `OpenActiveCountZero`, the spec's version, breaks both:
a restart with one partly written zone starts at 0, and the next allocation
opens a second active zone past the single io active slot.

**Other differences.** The code shows these as well. No run states them, but the models make them visible:

- **An offline zone is handed out.** A zone that went offline at reset has capacity 0 and `wp` at the zone start, so it counts as empty, and `AllocateEmptyZone` hands it out (line 1017). `AllocatedZoneWritable` states the spec's rule. `offline_allocated.cfg` checks it, and TLC finds it violated in 23 states. It is not among the runs of `PROJECT.json`.
- **`AllocateMetaZone` returns an offline meta zone (`meta_offline.cfg`).** A meta zone that goes offline at its reset is returned as the new meta zone: its `used_capacity_` is 0. The spec (section 9) says allocation skips it. TLC finds `MetaZoneWritable` violated in three steps. This is not a run of `PROJECT.json`, because the run list is full.
- **A wakeup storm (`wear_wrap.cfg`).** Meta-zone resets count in `total_reset_count_` but not in the io count. Once the total passes `GetNrZones()` while the io count is below it:
   - the floor raises `check_reset_count_` above the io count;
   - the `uint32_t` difference wraps to a huge value, so the worker is woken;
   - the wakeup sets the check count back below the floor, so the next reset repeats this.

  From then on, every reset wakes the worker. TLC finds `WakeupsSpaced` (the spec's scenario S4) violated. The cfg gave its run slot to `meta_busy_leak`. `wear_trigger` still checks `WakeupsSpacedPastFloor`.
- **The allocator spins for ever after a migration (`alloc_livelock.cfg`).** `GetMigrateTargetZone` takes an active token for an empty target (line 694), but `ReleaseMigrateZone` never returns it. The target may be released while it is still empty, or after its copies filled it. Either way the zone is not active, yet nothing returns its token:
  - there is no close for a migration target;
  - `ResetUnusedIOZones` skips empty zones, and returns no token for a full one.

  With one io active slot, `active_io_zones_` then stays at the limit with no active zone left to finish, and a later `AllocateIOZone` loops in `FinishCheapestIOZone` for ever (line 1092). Under `FairSpec` with one writer and one migrator, TLC finds `AllocationReturns` violated. It has the same cause as `migration_token_leak`, so the cfg is kept outside the runs of `PROJECT.json`.
- **Five idle verdicts discard a configured threshold.** The reset test `(write != 76) || (read != 5000)` also holds for thresholds that were configured and never raised (spec section 9 notes the `||`). `ThresholdsWithinObserved` allows this, because a reset always lands on the defaults.
- **`TakeMigrateZone` may return a `NOT_GOOD` zone.** `GetBestOpenZoneMatch` accepts `diff <= best_diff` from `NOT_GOOD`, and `TakeMigrateZone` uses any match. So `AllocatedLifetimeMatches` is stated of `GetMigrateTargetZone`'s targets only.

- **A failed first write leaks its active token.** A new zone's active token is taken at allocation. If the first append fails having written nothing:
  - the zone stays empty;
  - the close keeps the token, because the zone is not full;
  - `ResetUnusedIOZones` skips empty zones.

  This is why `ActiveTokenAccounting` is checked only without write errors.
- **The damping branch is dead unless the count starts high.** `wl_trigger_count_` is reset but never incremented, and it is never initialised. The spec says it is incremented when the threshold is not damped.
- **`Zone::Finish` breaks the spec's bound on `wp`.** It sets `wp` to the zone size, beyond `start + max_capacity` on devices whose zone capacity is below the zone size.
- **Ties in `GetBestOpenZoneMatch` go to the last zone.** It accepts `diff <= best_diff`, so the last equally good zone wins, while the spec says the first. `BestMatchIsBest` therefore checks only that the zone returned is a best one.

## Bounds

Sizes are in blocks: zone size 2 and appends of
1 or 2 blocks. These bounds still reach the cases that matter:

- zones that are partly written, full, finished, offline and reset;
- the relaxed keep without a token;
- the finish-cheapest loop;
- the empty-zone choice by reset count.

Other bounds:

- **`MaxResets` = 1 per zone.** It bounds the reset counter in `ZoneAllocator`. The wear-leveling trigger needs more resets than the device has zones, so `WearTrigger` models it on its own, with 32 zones and up to 100 resets. That is enough for three consecutive triggers and for the floor to apply and then stop applying.
- **Device limits.** `max_open` and `max_active` are 4, which gives 2 io zones of each after the reserved ones. `alloc_faults`, `migration` and `liveness` use 3 active, which gives 1 io active zone: targets and writes then compete for it, and the finish-cheapest loop runs.

- **`MaxRestarts` = 1 in `liveness`, 0 elsewhere.** One crash reaches every state `Open` can start from: zones partly written, full, finished or reset, with threads anywhere in their handlers. `alloc_safety` with a restart took more than four minutes, so the restart is checked in `liveness`.
- **`lost_wakeup` has four writers.** A lost wakeup needs two holders of the two io open tokens and two waiters with different predicates. `migration` drops the collector to stay within five minutes with the sleeping waiters.

Runs of three io zones did not finish in five minutes.

- **`selection`.** Two io zones of size 3, with max capacity 2 or 3 and up to two resets each: 254,016 snapshots. Two zones are enough for every comparison a scan makes: ties, a better zone after a worse one, a busy zone skipped, and the early break. The capacities and counts make the integer scores differ and tie.

- **`idle_detector`.** The write samples are 0, 60 and 200 and the read samples 0, 3000 and 20000. These are below, between and above the default thresholds 76 and 5000. Every verdict branch happens, and so do repeated raises, resets to the defaults and a raise followed by a reset. The thresholds can only take values between a default and the largest sample, so the state space is finite without a call bound (9,962 states). Only the default configuration is run (`InitWriteThreshold` 76, `InitReadThreshold` 5000). A configured threshold of 0 is one nothing ever reaches idle from, and reads as a way to switch idleness off, so it is not checked.

## Fairness

`Spec` has no fairness, and the safety runs use it. `FairSpec` adds weak fairness for steps the code's threads really are guaranteed to take. The `liveness` run (and `alloc_livelock.cfg`) use it.

- **`WriterRuns`, `CollectorRuns` and `MigratorRuns`.** These are the steps of a thread that is running code: a scan step, a decision, or the finish-cheapest loop. The OS scheduler runs a runnable thread eventually.
- **`WriterFirstWrite` and `WriterClose`.** The file layer writes to the zone it asked for and eventually closes it.
- **`ReleaseMigrateZone`.** The wear-leveling worker eventually releases its target.

These get no fairness:

- **The two condition-variable waits.** `WaitForOpenIOZoneToken` and the `migrating_` wait are woken by `notify_one`, which promises no particular waiter a wakeup, and `lost_wakeup` shows a wakeup lost for good. Spurious wakeups are allowed but not promised, so `SpuriousWakeup` gets no fairness either.
- **New calls, further appends and deletions.** Nothing obliges them to happen.
- **`Restart`.** A crash is never obliged to happen.

A sleeping waiter moves only when a put or a release wakes it, or when it wakes spuriously. No property claims that a wait ends: `lost_wakeup` shows one that need not.

The liveness runs drop symmetry, which is unsound for liveness in TLC. They use one writer. With two, weak fairness admits a schedule in which one writer always holds the only active token when the spinning writer looks for it. The code has no backoff against that, but the race needs an adversarial scheduler. It is listed as a hazard, not checked as a property.

## Not modelled

- **`Open`'s argument and limit checks.** `max_nr_active_zones - reserved_zones` is unsigned arithmetic, and a device reporting 1 or 2 zones wraps it. The model assumes device limits above 2.
- **`Read`, `InvalidateCache`, statistics, logging, JSON and snapshots.** These are I/O or output only.
- **The zone backend.** It is outside `src/`. Its results are the nondeterministic outcomes of reset, finish and write.

## Plan

1. **`WearTrigger`.** Done (above).
2. **`ZoneSelection`.** Done (above).
3. **`IdleDetector`.** Done (above).
4. **`TakeMigrateZone` and the condition variables.** Done (above).
5. **The lease refinement.** Done (`ZoneLease`, above).
6. **The wear-leveling trigger under concurrent resets.** `Zone::Reset` reads and writes `check_reset_count_` without a lock, and both the collector and the metadata log reset zones. The model could split the trigger into a read step and a write step.
7. **`AllocateMetaZone`.** Done (`MetaZoneAllocator`). It is not composed with `WearTrigger`: the product of the two state spaces is too large for five minutes. `WearTrigger`'s `ResetMetaZone` stands for its reset.
8. **Crash and restart.** Done (`Restart`, above).
