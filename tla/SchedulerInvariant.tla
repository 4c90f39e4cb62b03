------------------------- MODULE SchedulerInvariant --------------------------
(***************************************************************************)
(* The inductive invariant behind PickedOnce, ProvenNotResent and          *)
(* AttemptOnRecord: what ties the working set, the runs, the fired keys    *)
(* and the queues of the restart recovery to the ledger file.  Each part   *)
(* is about one job; LedgerInv holds while no write or read has failed.    *)
(* CopiesInv is the account behind CopiesBounded, TallyInv the one behind  *)
(* NeverOvercounts.                                                        *)
(***************************************************************************)
EXTENDS Scheduler

Of(S, j)  == {t \in Instants : <<j, t>> \in S}
Pending   == pendingResend \cup pendingRecovery
OnFile(j) == {t \in Instants : Present(ledger, <<j, t>>)}
PastClaim == RunStep \ {"claim"}

\* A process that has not started holds nothing.
DownIsEmpty ==
  phase # "up" => /\ mj = NoJobs /\ run = NoRuns
                  /\ fired = {} /\ Pending = {} /\ pendingDelete = {}

\* A run that still holds the working set's own object finds it there.
AttachedIsArmed == \A j \in Jobs : run[j].attached => mj[j].here

TypeInv == TypeOK /\ DownIsEmpty /\ AttachedIsArmed

\* Everything fired, on file or being run is due; what a run has left is not.
PastIsPast(j) ==
  /\ \A t \in Of(fired, j) \cup OnFile(j) : t <= now
  /\ run[j] # Idle => /\ Key(j) \in fired
                      /\ \A t \in Of(fired, j), u \in run[j].left : t < u

\* At most one entry of a job is on file, and something will remove it.
OneOnFile(j) ==
  /\ \A t, u \in OnFile(j) : t = u
  /\ phase = "up" =>
       \A t \in OnFile(j) : \/ <<j, t>> \in Pending \cup pendingDelete
                            \/ run[j].step \in PastClaim /\ run[j].at = t

\* Recovery of a job is over before the job is armed or run, and is of one
\* occurrence, which alone may have been marked as fired.
RecoveryFirst(j) ==
  /\ mj[j].here \/ run[j] # Idle => Of(Pending, j) = {}
  /\ \A t, u \in Of(Pending, j) : t = u
  /\ \A t \in Of(Pending, j) : Of(fired, j) \subseteq {t}
  /\ Of(pendingResend, j) # {} => Of(fired, j) = {}
  /\ run[j].step \in PastClaim => Of(pendingDelete, j) = {}

\* The working set lists no fired occurrence, but the one a run still holds.
FiredNotArmed(j) ==
  \A t \in Of(fired, j) \cap (mj[j].occ \cup mj[j].front) :
    run[j].step \in RunStep \ {"finish"} /\ run[j].at = t /\ run[j].attached

\* An accepted entry is of a fired occurrence.
AcceptedIsFired(j) ==
  phase = "up" =>
    \A t \in Instants : ledger[<<j, t>>].state = "accepted" => <<j, t>> \in fired

\* The entry of a run is as young as the occurrence.
EntryOfRun(j) ==
  (run[j].step \in PastClaim /\ now - run[j].at <= PruneAge) =>
    /\ Present(ledger, Key(j)) /\ ledger[Key(j)].claimedAt >= run[j].at
    /\ run[j].step \in {"smtp", "accepted"} => ledger[Key(j)].state = "sending"

LedgerInv ==
  faults = 0 =>
    \A j \in Jobs : /\ PastIsPast(j) /\ OneOnFile(j) /\ RecoveryFirst(j)
                    /\ FiredNotArmed(j) /\ AcceptedIsFired(j) /\ EntryOfRun(j)

-----------------------------------------------------------------------------
(* What one claim may send, and what a run may still send of it. *)

Budget == Copies * MaxAttempts

Left(r) == IF r.step \in {"complete", "finish"} THEN 0
           ELSE (r.copies - 1) * MaxAttempts
                + (IF r.step = "accepted" THEN 0 ELSE MaxAttempts - r.tries)

\* A life of the process pays for an occurrence when it fires it, and a run spends
\* no more than that.
CopiesInv ==
  faults = 0 =>
    /\ \A k \in Keys : /\ sent[k] <= Budget * crashes + Budget
                       /\ k \notin fired => sent[k] <= Budget * crashes
    /\ \A j \in Jobs : run[j] # Idle =>
         /\ run[j].copies >= 1 /\ run[j].tries < MaxAttempts
         /\ sent[Key(j)] + Left(run[j]) <= Budget * crashes + Budget

-----------------------------------------------------------------------------
(* What every copy of a job may count. *)

\* The occurrences of a list that were counted already: a recovery may count
\* them in this copy once more.
Closed(j, S) == {t \in S : completed[<<j, t>>] > 0}

Covers(j, copy) == copy.runs + Cardinality(Closed(j, copy.occ)) <= Cardinality(Counted(j))

\* The main process has not settled yet what an earlier life left of the job.
Unsettled(j) == phase # "up" \/ Of(Pending, j) # {}

\* No copy counts more than there was, what was counted is past, and a run's
\* list is of later instants.  Until the job is settled nothing is reported, and
\* of the renderer's list at most the first is not later than what was counted;
\* what is to be recovered is marked as fired.
TallyOf(j) ==
  /\ \A copy \in {disk[j], rend[j], mj[j]} : Covers(j, copy)
  /\ \A i \in DOMAIN reports[j] : Covers(j, reports[j][i])
  /\ \A t \in Closed(j, Instants) : t <= now
  /\ run[j] # Idle => /\ run[j].runs <= Cardinality(Counted(j))
                      /\ \A t \in Closed(j, Instants), u \in run[j].left : t < u
  /\ Of(pendingRecovery, j) \subseteq Of(fired, j)
  /\ Unsettled(j) => reports[j] = <<>>
  /\ Unsettled(j) /\ open /\ rend[j].on =>
       \A t \in Closed(j, Instants), u, w \in rend[j].occ : u < w => t < w

TallyInv == faults = 0 => \A j \in Jobs : TallyOf(j)
=============================================================================
