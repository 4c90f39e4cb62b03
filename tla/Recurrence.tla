----------------------------- MODULE Recurrence -----------------------------
(***************************************************************************)
(* Occurrence lists, as src/core/schedule/schedule.ts computes them.       *)
(*                                                                         *)
(* An instant is a natural number.  A rule is a record                     *)
(*   fires   : the instants the rule produces, the calendar search of      *)
(*             nextFireAfter() abstracted to its result;                   *)
(*   maxRuns : the quota of `endMode: 'afterCount'` (a large number stands *)
(*             for no quota);                                              *)
(*   catchUp : "fireOnce" or "skip".                                       *)
(* A list of occurrences is ascending in every place the code builds one,  *)
(* so it is the set of its members; the one list that is not (a forced     *)
(* resend put in front) is kept apart by the modules that need the order.  *)
(*                                                                         *)
(* Horizon is the 24 of `opts.count ?? 24`, LowWater the 8 of topUp().     *)
(***************************************************************************)
EXTENDS Integers, FiniteSets

CONSTANTS Horizon, LowWater

ASSUME HorizonAssumption ==
  /\ Horizon \in Nat \ {0}
  /\ LowWater \in Nat
  /\ LowWater <= Horizon

Rule == [fires : SUBSET Nat, maxRuns : Nat, catchUp : {"fireOnce", "skip"}]

Earliest(S) == CHOOSE t \in S : \A u \in S : t <= u
Latest(S)   == CHOOSE t \in S : \A u \in S : u <= t

\* `occurrences[0] ?? 0`
NextFire(S) == IF S = {} THEN 0 ELSE Earliest(S)

AtMost(a, b)  == IF a <= b THEN a ELSE b
AtLeast(a, b) == IF a >= b THEN a ELSE b

\* The k earliest members of S.
Soonest(S, k) == {t \in S : Cardinality({u \in S : u < t}) < k}

\* What repeated calls of nextFireAfter() find.
FiresAfter(rule, after) == {t \in rule.fires : t > after}

\* The next `count` fire times strictly after `after`; the quota is charged
\* with the runs done and with what this call produces, and with nothing else.
ComputeOccurrences(rule, after, runsSoFar, count) ==
  Soonest(FiresAfter(rule, after),
          AtMost(AtLeast(count, 1), AtLeast(rule.maxRuns - runsSoFar, 0)))

Missed(stored, now)      == {t \in stored : t <= now}
StillFuture(stored, now) == {t \in stored : t > now}

\* rearm().dueNow: the whole backlog collapsed into its last instant.
DueNow(rule, stored, now) ==
  IF rule.catchUp # "skip" /\ Missed(stored, now) # {}
    THEN {Latest(Missed(stored, now))}
    ELSE {}

\* rearm().upcoming: what is left of the stored list, filled up to Horizon.
Upcoming(rule, stored, runsSoFar, now) ==
  LET future == StillFuture(stored, now)
      kept   == Cardinality(future)
      seed   == IF future # {} THEN Latest(future) ELSE now
      owed   == Cardinality(DueNow(rule, stored, now))
  IN  IF kept >= Horizon
        THEN Soonest(future, Horizon)
        ELSE future \cup ComputeOccurrences(rule, seed, runsSoFar + owed, Horizon - kept)

\* Scheduler.topUp(): the list a finished run leaves behind, refilled only
\* when it has fewer than LowWater members.
TopUp(rule, remaining, runsSoFar, now) ==
  LET kept == Cardinality(remaining)
      seed == IF remaining # {} THEN Latest(remaining) ELSE now
  IN  IF kept >= LowWater
        THEN remaining
        ELSE remaining \cup ComputeOccurrences(rule, seed, runsSoFar, Horizon - kept)
=============================================================================
