------------------------------ MODULE ZoneLease ------------------------------
(***************************************************************************)
(* What a zone's busy flag promises, as the spec states it (section 3,     *)
(* rule 2, and section 9, "Busy flag"): a zone is an exclusive short-term  *)
(* lease. At most one thread holds a zone, a thread holds at most one zone *)
(* of a scan at a time, and a zone is changed (append, reset, finish,      *)
(* lifetime) only by the thread that holds it, or by a thread that takes   *)
(* a free zone and gives it back within one step.                          *)
(*                                                                         *)
(* The state of a zone is abstract: any value of ZoneStates. The live data *)
(* (used_capacity_) belongs to the file layer and is not part of it. Each  *)
(* thread's private state tells which thread took a step.                  *)
(***************************************************************************)
EXTENDS Naturals, FiniteSets

CONSTANTS
  Zones,      \* the io zones
  Actors,     \* the threads that acquire zones
  ZoneStates  \* the values a zone's state may take

VARIABLES
  holders,    \* holders[z]: the threads that hold z
  zone,       \* zone[z]: the state of z
  local       \* local[a]: the private state of thread a (any value)

vars == <<holders, zone, local>>

Init ==
  /\ holders = [z \in Zones |-> {}]
  /\ zone \in [Zones -> ZoneStates]

\* A zone that only a (or nobody) holds, before and after the step.
OnlyHeldBy(a, z) == holders[z] \subseteq {a} /\ holders'[z] \subseteq {a}

(* One step of thread a: it changes no other thread's private state, it    *)
(* takes free zones and gives back its own, ending with at most one, and   *)
(* changes only zones no other thread holds.                               *)
Step(a) ==
  /\ \A b \in Actors \ {a} : local'[b] = local[b]
  /\ \A z \in Zones : holders'[z] \ {a} = holders[z] \ {a}
  /\ \A z \in Zones : Cardinality(holders'[z]) <= 1
  /\ Cardinality({z \in Zones : a \in holders'[z]}) <= 1
  /\ \A z \in Zones : zone'[z] # zone[z] => OnlyHeldBy(a, z)
  /\ zone' \in [Zones -> ZoneStates]

(* A crash ends every lease at once. The zones keep whatever state the    *)
(* crash leaves them in, and each thread starts afresh.                    *)
Crash ==
  /\ holders' = [z \in Zones |-> {}]
  /\ zone' \in [Zones -> ZoneStates]

Next == (\E a \in Actors : Step(a)) \/ Crash

Spec == Init /\ [][Next]_vars
=============================================================================
