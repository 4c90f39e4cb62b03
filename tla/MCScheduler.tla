---------------------------- MODULE MCScheduler -----------------------------
(***************************************************************************)
(* The instances of Scheduler that TLC checks, the properties that need a  *)
(* liveness formula, and what the repository's own words say of the        *)
(* scheduler where the code does something else.                           *)
(***************************************************************************)
EXTENDS SchedulerInvariant, TLC

All        == 1..MaxTime
Every      == [fires |-> All, maxRuns |-> 9, catchUp |-> "fireOnce"]
OnlyLast   == [fires |-> {MaxTime}, maxRuns |-> 9, catchUp |-> "fireOnce"]
EverySkip  == [fires |-> All, maxRuns |-> 9, catchUp |-> "skip"]
JustTwice  == [fires |-> All, maxRuns |-> 2, catchUp |-> "fireOnce"]

OneRule    == {Every}
TwoRules   == {Every, OnlyLast}
ThreeRules == {Every, OnlyLast, EverySkip}
SkipRule   == {EverySkip}
CountRule  == {JustTwice}
NoQuiet    == {}
QuietAtThree == {3}

\* A due occurrence of an enabled job does not stay owed for ever, unless a
\* write or read fails on the way: it is sent, given up or superseded by a later
\* one, and the renderer's row moves on.
DueIsServed ==
  \A j \in Jobs : \A t \in Instants :
    (t \in rend[j].occ /\ t <= now /\ rend[j].on)
      ~> (t \notin rend[j].occ \/ ~rend[j].on \/ faults > 0)

\* A ledger write or a secret read that fails holds up no job: every run that
\* starts ends, and the job is free to fire again.
RunsEnd ==
  \A j \in Jobs : (run[j] # Idle) ~> (run[j] = Idle)

-----------------------------------------------------------------------------
(* What the repository says, and the code does not do. *)

\* dispatchLedger.ts: an occurrence with positive proof of acceptance is never
\* sent again ("resending would produce a guaranteed duplicate").
ConfirmedStaysSent == [][\A k \in Keys : sent'[k] > sent[k] => k \notin confirmed]_vars

\* types.ts: catch-up policy "skip" drops missed runs, those the machine was
\* off or asleep for; an instant that is due just now was not missed.
SkipDropsOnlyMissed ==
  [][\A j \in Jobs : \A t \in mj[j].occ :
       (Tick /\ run'[j] = Idle /\ t \notin mj'[j].occ) => t < now]_vars

\* schedule.ts: `maxRuns` counts sends; a job ends when it has run that often.
RunsWithinQuota ==
  \A j \in Jobs : mj[j].here => mj[j].runs <= mj[j].rule.maxRuns

\* schedule.ts: quiet hours hold wherever an occurrence list is built, so no
\* armed future instant lies inside them.
QuietHoursHold ==
  \A j \in Jobs : StillFuture(mj[j].occ, now) \cap Quiet = {}
=============================================================================
