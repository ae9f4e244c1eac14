-------------------------- MODULE MetaZoneAllocator --------------------------
(***************************************************************************)
(* ZonedBlockDevice::AllocateMetaZone (src/fs/zbd_zenfs.cc lines 754-781)  *)
(* and the parts of Zone it uses: Acquire, IsUsed, IsEmpty, Reset and      *)
(* CheckRelease (spec 4.D.5).                                              *)
(*                                                                         *)
(* The call scans meta_zones in order, one zone per step. Its caller, the  *)
(* metadata log, is not in src/ and the spec puts it out of scope, so it   *)
(* is the most general one: it writes to the meta zones it holds, releases *)
(* them, and the data in a zone may become obsolete at any time. The log   *)
(* calls AllocateMetaZone itself, so it takes no step during a call.       *)
(* A zone's wp is only "at the zone start" (0) or "past it" (1).           *)
(***************************************************************************)
EXTENDS Naturals

CONSTANTS
  NrMetaZones,   \* META_ZONES; meta zone i is meta_zones[i-1]
  DeviceErrors   \* whether the backend's reset may fail

ASSUME NrMetaZones \in Nat \ {0} /\ DeviceErrors \in BOOLEAN

MetaZones == 1..NrMetaZones
NoZone == 0

VARIABLES
  wp,        \* wp_ - start_ of each meta zone: 0 or past the start (1)
  used,      \* used_capacity_ > 0
  offline,   \* the device reported the zone offline at its last reset
  busy,      \* busy_
  pc,        \* "idle", or "scan" during an AllocateMetaZone call
  idx,       \* the meta zone the scan is at
  held       \* the meta zones AllocateMetaZone returned that the log holds

vars == <<wp, used, offline, busy, pc, idx, held>>

-----------------------------------------------------------------------------
\* Zone::IsUsed, IsEmpty; Zone::Acquire succeeds on a zone that is not busy.
IsUsed(z) == used[z]
IsEmpty(z) == wp[z] = 0
Acquirable(z) == ~busy[z]

\* The scan moves to the next meta zone.
Skip == /\ idx' = idx + 1
        /\ UNCHANGED <<wp, used, offline, held, pc>>

AllocateMetaZone ==
  /\ pc = "idle"
  /\ pc' = "scan"
  /\ idx' = 1
  /\ UNCHANGED <<wp, used, offline, busy, held>>

\* Mutation: a used zone's busy flag is released before moving on.
AcquireUsedReleases(z) == /\ busy' = [busy EXCEPT ![z] = FALSE] /\ Skip

\* Lines 763-764: Acquire succeeds on a used zone, and the loop moves on
\* without CheckRelease.
AcquireUsed(z) == /\ busy' = [busy EXCEPT ![z] = TRUE] /\ Skip

\* Lines 772-773: an empty zone, or one just reset, is returned busy.
ReturnZone(z) ==
  /\ held' = held \cup {z}
  /\ pc' = "idle"
  /\ UNCHANGED idx

\* One step of the loop at meta zone idx (lines 762-775).
MetaVisit ==
  /\ pc = "scan" /\ idx \in MetaZones
  /\ LET z == idx IN
     \/ /\ ~Acquirable(z)
        /\ busy' = busy /\ Skip
     \/ /\ Acquirable(z) /\ IsUsed(z)
        /\ AcquireUsed(z)
     \/ /\ Acquirable(z) /\ ~IsUsed(z) /\ IsEmpty(z)
        /\ busy' = [busy EXCEPT ![z] = TRUE]
        /\ ReturnZone(z)
        /\ UNCHANGED <<wp, used, offline>>
     \* Zone::Reset succeeds; the device may report the zone offline.
     \/ /\ Acquirable(z) /\ ~IsUsed(z) /\ ~IsEmpty(z)
        /\ \E off \in BOOLEAN :
             /\ wp' = [wp EXCEPT ![z] = 0]
             /\ offline' = [offline EXCEPT ![z] = off]
        /\ busy' = [busy EXCEPT ![z] = TRUE]
        /\ ReturnZone(z)
        /\ UNCHANGED used
     \* Lines 766-769: the reset fails; CheckRelease releases the zone it
     \* just acquired (and so cannot fail) and the loop continues.
     \/ /\ DeviceErrors
        /\ Acquirable(z) /\ ~IsUsed(z) /\ ~IsEmpty(z)
        /\ busy' = busy /\ Skip

\* Lines 776-779: no meta zone could be taken: NoSpace.
MetaScanDone ==
  /\ pc = "scan" /\ idx = NrMetaZones + 1
  /\ pc' = "idle"
  /\ UNCHANGED <<wp, used, offline, busy, idx, held>>

-----------------------------------------------------------------------------
(* The metadata log (not in src/; spec section 1 puts it out of scope).    *)

\* It appends to a meta zone it holds (Zone::Append; an offline zone has
\* capacity 0 and takes no data).
LogWrite(z) ==
  /\ pc = "idle" /\ z \in held /\ ~offline[z]
  /\ wp' = [wp EXCEPT ![z] = 1]
  /\ used' = [used EXCEPT ![z] = TRUE]
  /\ UNCHANGED <<offline, busy, pc, idx, held>>

\* It is done with a meta zone: Zone::CheckRelease clears busy.
LogRelease(z) ==
  /\ pc = "idle" /\ z \in held
  /\ busy' = [busy EXCEPT ![z] = FALSE]
  /\ held' = held \ {z}
  /\ UNCHANGED <<wp, used, offline, pc, idx>>

\* The data in a meta zone is superseded by a newer snapshot.
LogObsolete(z) ==
  /\ pc = "idle" /\ used[z]
  /\ used' = [used EXCEPT ![z] = FALSE]
  /\ UNCHANGED <<wp, offline, busy, pc, idx, held>>

\* Open() (lines 458-466) keeps the first META_ZONES sequential zones that
\* are not offline; Zone::Zone (lines 52-66) takes wp from the zone report,
\* sets used_capacity_ to 0 and busy_ to false.
Init ==
  /\ wp \in [MetaZones -> {0, 1}]
  /\ used = [z \in MetaZones |-> FALSE]
  /\ offline = [z \in MetaZones |-> FALSE]
  /\ busy = [z \in MetaZones |-> FALSE]
  /\ pc = "idle" /\ idx = NoZone /\ held = {}

Next ==
  \/ AllocateMetaZone \/ MetaVisit \/ MetaScanDone
  \/ \E z \in MetaZones : LogWrite(z) \/ LogRelease(z) \/ LogObsolete(z)

Spec == Init /\ [][Next]_vars

-----------------------------------------------------------------------------
TypeOK ==
  /\ wp \in [MetaZones -> {0, 1}] /\ used \in [MetaZones -> BOOLEAN]
  /\ offline \in [MetaZones -> BOOLEAN] /\ busy \in [MetaZones -> BOOLEAN]
  /\ pc \in {"idle", "scan"} /\ idx \in 0..NrMetaZones + 1
  /\ held \subseteq MetaZones

(* Spec 8.4 and 4.D.5: a meta zone's busy flag is set only while           *)
(* AllocateMetaZone is at it or while the log holds the zone the call      *)
(* returned; every acquisition the scan does not hand out is released, so  *)
(* a zone whose data becomes obsolete can be allocated again.              *)
MetaBusyMeansHeld ==
  \A z \in MetaZones : busy[z] => z \in held \/ (pc = "scan" /\ idx = z)

(* Spec section 9: allocation skips a meta zone that went offline; the     *)
(* log is never given a zone it cannot write to.                          *)
MetaZoneWritable == \A z \in held : ~offline[z]
=============================================================================
