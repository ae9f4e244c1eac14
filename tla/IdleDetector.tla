---------------------------- MODULE IdleDetector ----------------------------
(***************************************************************************)
(* ZonedBlockDevice::JudgeQpsTrend (src/fs/zbd_zenfs.cc lines 341-415),    *)
(* which the wear-leveling worker calls to ask whether the device is idle  *)
(* enough to migrate data now (spec 4.F).                                  *)
(*                                                                         *)
(* One call samples the write and read rates twice, 100 ms apart (two      *)
(* ClearNowQps / usleep / GetNow...Qps rounds), keeps the per-window       *)
(* maxima, adapts the idle thresholds and returns a verdict. The samples   *)
(* are inputs from small sets. idle_qps_fail_count_ and                    *)
(* idle_qps_successive_count_ are advanced by the worker, which is not in  *)
(* src/: WorkerCounts follows the spec ("consecutive" fail and success      *)
(* verdicts). Only "count >= 5" is ever tested, so a count is kept up to 5. *)
(***************************************************************************)
EXTENDS Integers

CONSTANTS
  WriteQps,           \* write-rate samples GetNowWriteQps() may return
  ReadQps,            \* read-rate samples GetNowReadQps() may return
  InitWriteThreshold, \* idle_qps_write_threshold_ as configured
  InitReadThreshold   \* idle_qps_read_threshold_ as configured

ASSUME
  /\ WriteQps \subseteq Nat /\ ReadQps \subseteq Nat
  /\ InitWriteThreshold \in Nat /\ InitReadThreshold \in Nat

\* The literals of lines 385-388.
DefaultWriteThreshold == 76
DefaultReadThreshold == 5000
CountLimit == 5

VARIABLES
  windowWriteMax,   \* window_qps_write_max_
  windowReadMax,    \* window_qps_read_max_
  writeThreshold,   \* idle_qps_write_threshold_
  readThreshold,    \* idle_qps_read_threshold_
  failCount,        \* idle_qps_fail_count_
  successiveCount,  \* idle_qps_successive_count_
  verdict,          \* history: the last call's result, -1 before the first
  writeSeen,        \* history: the largest write sample so far
  readSeen          \* history: the largest read sample so far

vars == <<windowWriteMax, windowReadMax, writeThreshold, readThreshold,
          failCount, successiveCount, verdict, writeSeen, readSeen>>

NatMax(a, b) == IF a >= b THEN a ELSE b

-----------------------------------------------------------------------------
\* Lines 353-371: the window keeps the larger sample of the call.
WindowMax(m, s1, s2) == NatMax(m, NatMax(s1, s2))

\* Mutation: the threshold moves to the window maximum and the halving is lost.
RaiseNoHalving(thr, wmax) == IF wmax > thr THEN thr + wmax ELSE thr

\* Mutation: the threshold is averaged even with a smaller window maximum.
RaiseUnguarded(thr, wmax) == (thr + wmax) \div 2

\* Lines 374-379: a threshold below the window maximum moves half way to it.
Raise(thr, wmax) == IF wmax > thr THEN (thr + wmax) \div 2 ELSE thr

\* Lines 389-411: the verdict on samples w1, w2, r1, r2 and thresholds wt, rt.
Verdict(w1, w2, r1, r2, wt, rt) ==
  LET readsLow == r1 < rt /\ r2 < rt IN
  IF w1 < wt /\ w2 < wt
  THEN CASE readsLow -> 1
         [] r2 > r1 -> 0
         [] 100 * (r1 - r2) > rt * 5 -> 1
         [] OTHER -> 0
  ELSE CASE w2 > w1 -> 0
         [] readsLow /\ 100 * (w1 - w2) > wt * 5 -> 1
         [] OTHER -> 0

\* The worker, after the call (spec 4.F steps 4 and 5): a fail verdict
\* extends the run of fails and ends the run of successes, and conversely.
WorkerCounts(v, fc, sc) ==
  IF v = 1 THEN <<0, IF sc < CountLimit THEN sc + 1 ELSE sc>>
           ELSE <<IF fc < CountLimit THEN fc + 1 ELSE fc, 0>>

\* One JudgeQpsTrend call followed by the worker's count update.
JudgeQpsTrend ==
  \E w1, w2 \in WriteQps, r1, r2 \in ReadQps :
    LET wMax == WindowMax(windowWriteMax, w1, w2)
        rMax == WindowMax(windowReadMax, r1, r2)
        raise == failCount >= CountLimit
        \* lines 373-383
        wt1 == IF raise THEN Raise(writeThreshold, wMax) ELSE writeThreshold
        rt1 == IF raise THEN Raise(readThreshold, rMax) ELSE readThreshold
        fc1 == IF raise THEN 0 ELSE failCount
        \* lines 385-391
        reset == /\ wt1 # DefaultWriteThreshold \/ rt1 # DefaultReadThreshold
                 /\ successiveCount >= CountLimit
        wt == IF reset THEN DefaultWriteThreshold ELSE wt1
        rt == IF reset THEN DefaultReadThreshold ELSE rt1
        sc1 == IF reset THEN 0 ELSE successiveCount
        v == Verdict(w1, w2, r1, r2, wt, rt)
        counts == WorkerCounts(v, fc1, sc1)
    IN /\ windowWriteMax' = IF raise THEN 0 ELSE wMax
       /\ windowReadMax' = IF raise THEN 0 ELSE rMax
       /\ writeThreshold' = wt
       /\ readThreshold' = rt
       /\ failCount' = counts[1]
       /\ successiveCount' = counts[2]
       /\ verdict' = v
       /\ writeSeen' = NatMax(writeSeen, NatMax(w1, w2))
       /\ readSeen' = NatMax(readSeen, NatMax(r1, r2))

\* The constructor in src/ (lines 219-233) sets none of these fields; they
\* are declared in zbd_zenfs.h, not in src/. Following the spec (section 6):
\* empty windows, the configured thresholds, no verdict yet.
Init ==
  /\ windowWriteMax = 0 /\ windowReadMax = 0
  /\ writeThreshold = InitWriteThreshold /\ readThreshold = InitReadThreshold
  /\ failCount = 0 /\ successiveCount = 0
  /\ verdict = -1
  /\ writeSeen = 0 /\ readSeen = 0

Next == JudgeQpsTrend

Spec == Init /\ [][Next]_vars

-----------------------------------------------------------------------------
TypeOK ==
  /\ windowWriteMax \in Nat /\ windowReadMax \in Nat
  /\ writeThreshold \in Nat /\ readThreshold \in Nat
  /\ failCount \in 0..CountLimit /\ successiveCount \in 0..CountLimit
  /\ verdict \in {-1, 0, 1}

(* Spec 4.F steps 4 and 5: the adaptation only ever raises a threshold     *)
(* toward a rate actually observed, or puts it back to its default. So     *)
(* each threshold stays between the smaller and the larger of its          *)
(* configured and default values, or up to the largest sample seen.        *)
ThresholdsWithinObserved ==
  LET lo(i, d) == IF i <= d THEN i ELSE d
      hi(i, d, s) == NatMax(NatMax(i, d), s)
  IN /\ writeThreshold \in lo(InitWriteThreshold, DefaultWriteThreshold)
                           .. hi(InitWriteThreshold, DefaultWriteThreshold, writeSeen)
     /\ readThreshold \in lo(InitReadThreshold, DefaultReadThreshold)
                          .. hi(InitReadThreshold, DefaultReadThreshold, readSeen)

=============================================================================
