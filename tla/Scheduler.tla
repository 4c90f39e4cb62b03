----------------------------- MODULE Scheduler ------------------------------
(***************************************************************************)
(* The desktop scheduler of Aevistle: electron/scheduler.ts with the       *)
(* dispatch ledger beside it, and the renderer (src/state/AppState.tsx)    *)
(* that owns the jobs, hands them over with syncJobs, hears of finished    *)
(* runs through jobEvent and saves everything to state.json.               *)
(*                                                                         *)
(* Three copies of a job exist: state.json (disk), the renderer's (rend)   *)
(* and the main process' working set (mj).  A run holds on to the object   *)
(* tick() found; a later sync() replaces that object in the working set,   *)
(* which leaves the run with a detached copy.  A crash loses everything    *)
(* but state.json and the ledger file.                                     *)
(*                                                                         *)
(* Bounds (constants of the model, none of the code's): MaxTime on the     *)
(* clock, MaxCrashes, MaxFaults (ledger writes and secret reads that fail) *)
(* and MaxEdits (edits and pauses by the user).  The operators whose names *)
(* end in Bug are plausible faults of the definition below them: the       *)
(* properties are tried against them, and nothing else refers to them.     *)
(***************************************************************************)
EXTENDS Sequences, Recurrence, DispatchLedger

CONSTANTS
  Rules,        \* the recurrence rules the user gives a job
  Quiet,        \* the instants quiet hours move a send away from
  MaxAttempts,  \* retry.maxAttempts
  Copies,       \* burst.count, 1 without a burst
  MaxCrashes, MaxFaults, MaxEdits

ASSUME SchedulerAssumption ==
  /\ Rules \subseteq Rule
  /\ \A rule \in Rules : rule.fires \subseteq Instants
  /\ Quiet \subseteq Nat
  /\ MaxAttempts \in Nat \ {0}
  /\ Copies \in Nat \ {0}
  /\ {MaxCrashes, MaxFaults, MaxEdits} \subseteq Nat

VARIABLES
  now,              \* Date.now()
  phase,            \* the main process: "down", "booting" (ledger not read), "up"
  open,             \* has the renderer hydrated?
  disk,             \* state.json: the saved job of each id
  rend,             \* the renderer's job of each id
  dirty,            \* jobSignature changed since the last syncJobs
  reports,          \* jobEvents sent and not yet handled, per job
  mj,               \* Scheduler.jobs, the working set
  run,              \* the run in flight of each job; running = {j : run[j] # Idle}
  fired,            \* Scheduler.fired
  pendingResend,    \* Scheduler.pendingResend
  pendingRecovery,  \* Scheduler.pendingLedgerRecovery
  pendingDelete,    \* deletions queued by sync() and not yet written
  ledger,           \* the dispatch-ledger file
  sent,             \* how often the server took each occurrence
  confirmed,        \* occurrences whose acceptance once was on the ledger
  completed,        \* how often a run of each occurrence was counted
  crashes, faults, edits

clockVars  == <<now>>
lifeVars   == <<phase, open>>
rendVars   == <<rend, dirty, reports>>
mainVars   == <<mj, run, fired, pendingResend, pendingRecovery, pendingDelete>>
worldVars  == <<sent, confirmed, completed>>
boundVars  == <<crashes, faults, edits>>
vars == <<clockVars, lifeVars, disk, rendVars, mainVars, ledger, worldVars, boundVars>>

-----------------------------------------------------------------------------
(* The shapes of the state. *)

Job     == [on : BOOLEAN, rule : Rules, occ : SUBSET Instants, runs : Nat]
Report  == [occ : SUBSET Instants, runs : Nat]
NoRule  == [fires |-> {}, maxRuns |-> 0, catchUp |-> "fireOnce"]
Absent  == [here |-> FALSE, rule |-> NoRule, occ |-> {}, front |-> {}, runs |-> 0]
Armed   == [here : {TRUE}, rule : Rules, occ : SUBSET Instants,
            front : SUBSET Instants, runs : Nat]

RunStep == {"claim", "decide", "mark", "smtp", "accepted", "complete", "finish"}
Idle    == [step |-> "idle", at |-> 0, left |-> {}, rule |-> NoRule, runs |-> 0,
            attached |-> FALSE, tries |-> 0, copies |-> 0]
Running == [step : RunStep, at : Instants, left : SUBSET Instants, rule : Rules,
            runs : Nat, attached : BOOLEAN, tries : Nat, copies : Nat]

NoJobs    == [j \in Jobs |-> Absent]
NoRuns    == [j \in Jobs |-> Idle]
NoReports == [j \in Jobs |-> <<>>]

Key(j) == <<j, run[j].at>>

-----------------------------------------------------------------------------
(* What the renderer computes. *)

\* Quiet hours (shapeOccurrences): a quiet instant waits for the next one
\* that is not.  One with none in the model's horizon is left where it is.
Shape(S) ==
  LET Moved(t) == IF t \in Quiet /\ {u \in Instants \ Quiet : u > t} # {}
                    THEN Earliest({u \in Instants \ Quiet : u > t}) ELSE t
  IN  {Moved(t) : t \in S}

\* The list of a job saved, edited or switched back on.
FreshOccurrences(rule, runs) == Shape(ComputeOccurrences(rule, now, runs, Horizon))

\* The list of an enabled job at boot: what is owed first, unshaped.
BootOccurrences(job) ==
  DueNow(job.rule, job.occ, now) \cup Shape(Upcoming(job.rule, job.occ, job.runs, now))

-----------------------------------------------------------------------------
(* What sync() makes of the renderer's jobs. *)

Owed(j) == {t \in DueNow(rend[j].rule, rend[j].occ, now) : <<j, t>> \notin fired}

\* spliceForcedResends(): a recovered send goes back in front of the list.
Forced(j, list) == {t \in Instants : <<j, t>> \in pendingResend} \ list

RearmedTwiceBug(j) ==   \* what has been fired is owed again
  LET list == DueNow(rend[j].rule, rend[j].occ, now)
                \cup Upcoming(rend[j].rule, rend[j].occ, rend[j].runs, now)
  IN  IF rend[j].on
        THEN [here |-> TRUE, rule |-> rend[j].rule, occ |-> list,
              front |-> Forced(j, list), runs |-> rend[j].runs]
        ELSE Absent

RearmedUpcomingBug(j) ==   \* only the future is kept, as an earlier release did
  LET list == Upcoming(rend[j].rule, rend[j].occ, rend[j].runs, now)
  IN  IF rend[j].on
        THEN [here |-> TRUE, rule |-> rend[j].rule, occ |-> list,
              front |-> {}, runs |-> rend[j].runs]
        ELSE Absent

Rearmed(j) ==
  LET list == Owed(j) \cup Upcoming(rend[j].rule, rend[j].occ, rend[j].runs, now)
  IN  IF rend[j].on
        THEN [here |-> TRUE, rule |-> rend[j].rule, occ |-> list,
              front |-> Forced(j, list), runs |-> rend[j].runs]
        ELSE Absent

RecoveredAgainBug(j) ==   \* without looking at the renderer's list
  {t \in Instants : <<j, t>> \in pendingRecovery /\ rend[j].on}

\* completeAcceptedRecovery(): occurrences the ledger proves sent and the
\* renderer's own list still holds.
Recovered(j) ==
  {t \in Instants : <<j, t>> \in pendingRecovery /\ rend[j].on /\ t \in rend[j].occ}

\* The working copy after completeRun() for what was recovered.
Settled(j) ==
  LET m    == Rearmed(j)
      runs == m.runs + Cardinality(Recovered(j))
      left == (m.occ \cup m.front) \ Recovered(j)
  IN  IF Recovered(j) = {}
        THEN m
        ELSE [m EXCEPT !.runs = runs, !.occ = TopUp(m.rule, left, runs, now) \ m.front]

-----------------------------------------------------------------------------
(* The initial state: jobs just saved at time 0, nothing running. *)

Init ==
  /\ now = 0 /\ phase = "down" /\ open = FALSE
  /\ \E rule \in [Jobs -> Rules] :
       disk = [j \in Jobs |-> [on |-> TRUE, rule |-> rule[j], runs |-> 0,
                               occ |-> FreshOccurrences(rule[j], 0)]]
  /\ rend = disk /\ dirty = FALSE /\ reports = NoReports
  /\ mj = NoJobs /\ run = NoRuns
  /\ fired = {} /\ pendingResend = {} /\ pendingRecovery = {} /\ pendingDelete = {}
  /\ ledger = EmptyLedger
  /\ sent = [k \in Keys |-> 0] /\ confirmed = {} /\ completed = [k \in Keys |-> 0]
  /\ crashes = 0 /\ faults = 0 /\ edits = 0

-----------------------------------------------------------------------------
(* Time, and the life of the process. *)

Advance ==
  /\ now < MaxTime
  /\ now' = now + 1
  /\ UNCHANGED <<lifeVars, disk, rendVars, mainVars, ledger, worldVars, boundVars>>

\* app.whenReady(): the window is created, the ledger read is under way.
Launch ==
  /\ phase = "down"
  /\ phase' = "booting"
  /\ UNCHANGED <<clockVars, open, disk, rendVars, mainVars, ledger, worldVars, boundVars>>

RestoreUnfiredBug ==   \* a proven send is not protected from being fired
  /\ phase = "booting"
  /\ phase' = "up"
  /\ pendingResend' = ToResend(ledger)
  /\ pendingRecovery' = ToComplete(ledger)
  /\ UNCHANGED <<clockVars, open, disk, rendVars, mj, run, fired, pendingDelete, ledger,
                 worldVars, boundVars>>

\* restoreDispatchLedger(), then start().
Restore ==
  /\ phase = "booting"
  /\ phase' = "up"
  /\ pendingResend' = ToResend(ledger)
  /\ pendingRecovery' = ToComplete(ledger)
  /\ fired' = fired \cup ToComplete(ledger)
  /\ UNCHANGED <<clockVars, open, disk, rendVars, mj, run, pendingDelete, ledger,
                 worldVars, boundVars>>

\* The process dies: only state.json and the ledger file survive.
Crash ==
  /\ phase # "down" /\ crashes < MaxCrashes
  /\ phase' = "down" /\ open' = FALSE
  /\ rend' = disk /\ dirty' = FALSE /\ reports' = NoReports
  /\ mj' = NoJobs /\ run' = NoRuns
  /\ fired' = {} /\ pendingResend' = {} /\ pendingRecovery' = {} /\ pendingDelete' = {}
  /\ crashes' = crashes + 1
  /\ UNCHANGED <<clockVars, disk, ledger, worldVars, faults, edits>>

-----------------------------------------------------------------------------
(* The renderer. *)

\* The boot effect: state.json read, every enabled job re-armed.
Hydrate ==
  /\ phase # "down" /\ ~open
  /\ open' = TRUE /\ dirty' = TRUE
  /\ rend' = [j \in Jobs |-> IF disk[j].on
                               THEN [disk[j] EXCEPT !.occ = BootOccurrences(disk[j])]
                               ELSE disk[j]]
  /\ UNCHANGED <<clockVars, phase, disk, reports, mainVars, ledger, worldVars, boundVars>>

\* jobRan: applyRun() assigns what the run reported.  updatedAt stays, so the
\* job is handed over again only if its next instant has changed.
JobRan(j) ==
  /\ open /\ reports[j] # <<>>
  /\ rend' = [rend EXCEPT ![j].occ = Head(reports[j]).occ, ![j].runs = Head(reports[j]).runs]
  /\ reports' = [reports EXCEPT ![j] = Tail(@)]
  /\ dirty' = (dirty \/ NextFire(Head(reports[j]).occ) # NextFire(rend[j].occ))
  /\ UNCHANGED <<clockVars, lifeVars, disk, mainVars, ledger, worldVars, boundVars>>

\* scheduleDraft: a job saved again with a rule of the user's choice.
EditJob(j, rule) ==
  /\ open /\ edits < MaxEdits
  /\ rend' = [rend EXCEPT ![j].rule = rule, ![j].occ = FreshOccurrences(rule, rend[j].runs)]
  /\ dirty' = TRUE
  /\ edits' = edits + 1
  /\ UNCHANGED <<clockVars, lifeVars, disk, reports, mainVars, ledger, worldVars,
                 crashes, faults>>

\* toggleJob: pausing empties the list, resuming rebuilds it.
ToggleJob(j) ==
  /\ open /\ edits < MaxEdits
  /\ rend' = [rend EXCEPT ![j].on = ~@,
                          ![j].occ = IF rend[j].on THEN {}
                                     ELSE FreshOccurrences(rend[j].rule, rend[j].runs)]
  /\ dirty' = TRUE
  /\ edits' = edits + 1
  /\ UNCHANGED <<clockVars, lifeVars, disk, reports, mainVars, ledger, worldVars,
                 crashes, faults>>

\* The debounced save reaches the disk.
Save ==
  /\ open
  /\ disk' = rend
  /\ UNCHANGED <<clockVars, lifeVars, rendVars, mainVars, ledger, worldVars, boundVars>>

-----------------------------------------------------------------------------
(* The main process: sync() and tick(). *)

\* sync(): the working set is replaced, resends are forced back in and their
\* ledger entries dropped, proven sends have their bookkeeping completed.
Sync ==
  LET known     == {k \in Keys : rend[k[1]].on}
      landed    == pendingResend \cap known
      recovered == pendingRecovery \cap known
  IN  /\ open
      /\ phase = "up"
      /\ mj' = [j \in Jobs |-> Settled(j)]
      /\ reports' = [j \in Jobs |->
           IF Recovered(j) = {} THEN reports[j]
           ELSE Append(reports[j], [occ  |-> Settled(j).occ \cup Settled(j).front,
                                    runs |-> Settled(j).runs])]
      /\ run' = [j \in Jobs |-> IF run[j] = Idle THEN Idle
                                ELSE [run[j] EXCEPT !.attached = FALSE]]
      /\ pendingResend' = pendingResend \ landed
      /\ pendingRecovery' = pendingRecovery \ recovered
      /\ pendingDelete' = pendingDelete \cup landed \cup recovered
      /\ completed' = [k \in Keys |-> IF k[2] \in Recovered(k[1])
                                     THEN AtLeast(completed[k], 1) ELSE completed[k]]
      /\ dirty' = FALSE
      /\ UNCHANGED <<clockVars, lifeVars, disk, rend, fired, ledger, sent, confirmed,
                     boundVars>>

\* One of the deletions sync() queued is written, or fails to be.
WriteQueuedDelete(k) ==
  /\ k \in pendingDelete
  /\ pendingDelete' = pendingDelete \ {k}
  /\ \/ ledger' = DeleteLedgerEntry(ledger, k, now) /\ UNCHANGED faults
     \/ faults < MaxFaults /\ faults' = faults + 1 /\ UNCHANGED ledger
  /\ UNCHANGED <<clockVars, lifeVars, disk, rendVars, mj, run, fired, pendingResend,
                 pendingRecovery, worldVars, crashes, edits>>

Due(j)   == {t \in mj[j].occ \cup mj[j].front : t <= now}
Ready(j) == run[j] = Idle /\ mj[j].here /\ Due(j) # {}
Skips(j) == mj[j].rule.catchUp = "skip"
Fires(j) == Ready(j) /\ ~Skips(j)

\* due[due.length - 1]: the forced resends stand in front of the others.
FireAt(j) == IF {t \in mj[j].occ : t <= now} # {}
               THEN Latest({t \in mj[j].occ : t <= now})
               ELSE Earliest(Due(j))

\* tick(): every due job either drops its backlog or claims its last instant.
Tick ==
  /\ phase = "up"
  /\ \E j \in Jobs : Ready(j)
  /\ mj' = [j \in Jobs |->
       IF Ready(j) /\ Skips(j)
         THEN [mj[j] EXCEPT !.occ = StillFuture(mj[j].occ, now), !.front = {}]
         ELSE mj[j]]
  /\ run' = [j \in Jobs |->
       IF Fires(j)
         THEN [step |-> "claim", at |-> FireAt(j), left |-> StillFuture(mj[j].occ, now),
               rule |-> mj[j].rule, runs |-> mj[j].runs, attached |-> TRUE,
               tries |-> 0, copies |-> Copies]
         ELSE run[j]]
  /\ fired' = fired \cup {<<j, FireAt(j)>> : j \in {i \in Jobs : Fires(i)}}
  /\ UNCHANGED <<clockVars, lifeVars, disk, rendVars, pendingResend, pendingRecovery,
                 pendingDelete, ledger, worldVars, boundVars>>

-----------------------------------------------------------------------------
(* One run: claimThenRun(), run(), sendOnce(), completeRun().  Every ledger *)
(* write is awaited, and may fail without stopping the run.                 *)

Goto(j, step) == run' = [run EXCEPT ![j].step = step]

\* The ledger becomes `file`, or the write fails and it stays as it was.
BestEffort(file) ==
  \/ ledger' = file /\ UNCHANGED faults
  \/ faults < MaxFaults /\ faults' = faults + 1 /\ UNCHANGED ledger

ClaimOvertakesBug(j) ==   \* the write does not queue behind the deletions
  /\ run[j].step = "claim"
  /\ BestEffort(ClaimLedgerEntry(ledger, Key(j), now))
  /\ Goto(j, "decide")
  /\ UNCHANGED <<clockVars, lifeVars, disk, rendVars, mj, fired, pendingResend,
                 pendingRecovery, pendingDelete, worldVars, crashes, edits>>

ClaimThrowsBug(j) ==   \* a failed write rejects the whole run
  /\ run[j].step = "claim"
  /\ \A k \in pendingDelete : k[1] # j
  /\ BestEffort(ClaimLedgerEntry(ledger, Key(j), now))
  /\ Goto(j, IF faults' = faults THEN "decide" ELSE "rejected")
  /\ UNCHANGED <<clockVars, lifeVars, disk, rendVars, mj, fired, pendingResend,
                 pendingRecovery, pendingDelete, worldVars, crashes, edits>>

\* claimLedgerEntry(), behind the deletions already queued for the job.
Claim(j) ==
  /\ run[j].step = "claim"
  /\ \A k \in pendingDelete : k[1] # j
  /\ BestEffort(ClaimLedgerEntry(ledger, Key(j), now))
  /\ Goto(j, "decide")
  /\ UNCHANGED <<clockVars, lifeVars, disk, rendVars, mj, fired, pendingResend,
                 pendingRecovery, pendingDelete, worldVars, crashes, edits>>

\* The bookkeeping both endings of a run share: the run's own job object is
\* updated (the working set's, if they still are the same) and reported.
Conclude(j, runs) ==
  LET occ == TopUp(run[j].rule, run[j].left, runs, now)
  IN  /\ mj' = IF run[j].attached
                 THEN [mj EXCEPT ![j].occ = occ, ![j].front = {}, ![j].runs = runs]
                 ELSE mj
      /\ reports' = [reports EXCEPT ![j] = Append(@, [occ |-> occ, runs |-> runs])]

\* A condition says no: the occurrence is consumed and nothing is sent.
DecideSkip(j) ==
  /\ run[j].step = "decide"
  /\ Conclude(j, run[j].runs)
  /\ Goto(j, "finish")
  /\ UNCHANGED <<clockVars, lifeVars, disk, rend, dirty, fired, pendingResend,
                 pendingRecovery, pendingDelete, ledger, worldVars, boundVars>>

\* The conditions say yes; with the account gone the run fails at once.
DecideSend(j) ==
  /\ run[j].step = "decide"
  /\ \E step \in {"mark", "complete"} : Goto(j, step)
  /\ UNCHANGED <<clockVars, lifeVars, disk, rendVars, mj, fired, pendingResend,
                 pendingRecovery, pendingDelete, ledger, worldVars, boundVars>>

\* getSecret() rejects because secrets.json cannot be read: the run ends there,
\* with its entry on file and its occurrence still on the job's list.
SecretUnreadable(j) ==
  /\ run[j].step = "decide" /\ faults < MaxFaults
  /\ faults' = faults + 1
  /\ run' = [run EXCEPT ![j] = Idle]
  /\ UNCHANGED <<clockVars, lifeVars, disk, rendVars, mj, fired, pendingResend,
                 pendingRecovery, pendingDelete, ledger, worldVars, crashes, edits>>

\* markSending(), before every SMTP attempt.
MarkSending(j) ==
  /\ run[j].step = "mark"
  /\ BestEffort(MarkLedgerSending(ledger, Key(j), now))
  /\ Goto(j, "smtp")
  /\ UNCHANGED <<clockVars, lifeVars, disk, rendVars, mj, fired, pendingResend,
                 pendingRecovery, pendingDelete, worldVars, crashes, edits>>

NextCopyEndlessBug(j) ==   \* a burst that never runs out
  run' = [run EXCEPT ![j].step = "mark", ![j].copies = @ - 1, ![j].tries = 0]

\* After the last try of one copy: the next copy of a burst, or the end.
NextCopy(j) ==
  IF run[j].copies > 1
    THEN run' = [run EXCEPT ![j].step = "mark", ![j].copies = @ - 1, ![j].tries = 0]
    ELSE Goto(j, "complete")

\* sendMail() succeeds.
SmtpAccepts(j) ==
  /\ run[j].step = "smtp"
  /\ sent' = [sent EXCEPT ![Key(j)] = @ + 1]
  /\ Goto(j, "accepted")
  /\ UNCHANGED <<clockVars, lifeVars, disk, rendVars, mj, fired, pendingResend,
                 pendingRecovery, pendingDelete, ledger, confirmed, completed, boundVars>>

SmtpFailsOnceMoreBug(j) ==   \* one attempt more than retry.maxAttempts
  /\ run[j].step = "smtp"
  /\ \/ sent' = [sent EXCEPT ![Key(j)] = @ + 1]
     \/ UNCHANGED sent
  /\ \/ /\ run[j].tries < MaxAttempts
        /\ run' = [run EXCEPT ![j].step = "mark", ![j].tries = @ + 1]
     \/ NextCopy(j)
  /\ UNCHANGED <<clockVars, lifeVars, disk, rendVars, mj, fired, pendingResend,
                 pendingRecovery, pendingDelete, ledger, confirmed, completed, boundVars>>

\* sendMail() fails, whether or not the server took the message before the
\* connection went: a retryable failure is tried again, any other is final.
SmtpFails(j) ==
  /\ run[j].step = "smtp"
  /\ \/ sent' = [sent EXCEPT ![Key(j)] = @ + 1]
     \/ UNCHANGED sent
  /\ \/ /\ run[j].tries + 1 < MaxAttempts
        /\ run' = [run EXCEPT ![j].step = "mark", ![j].tries = @ + 1]
     \/ NextCopy(j)
  /\ UNCHANGED <<clockVars, lifeVars, disk, rendVars, mj, fired, pendingResend,
                 pendingRecovery, pendingDelete, ledger, confirmed, completed, boundVars>>

\* markAccepted().
MarkAccepted(j) ==
  /\ run[j].step = "accepted"
  /\ BestEffort(MarkLedgerAccepted(ledger, Key(j), now))
  /\ confirmed' = confirmed \cup {k \in {Key(j)} : ledger'[k].state = "accepted"}
  /\ NextCopy(j)
  /\ UNCHANGED <<clockVars, lifeVars, disk, rendVars, mj, fired, pendingResend,
                 pendingRecovery, pendingDelete, sent, completed, crashes, edits>>

\* completeRun(): the run counts, the rest of the list is re-armed.
CompleteRun(j) ==
  /\ run[j].step = "complete"
  /\ Conclude(j, run[j].runs + 1)
  /\ Goto(j, "finish")
  /\ completed' = [completed EXCEPT ![Key(j)] = @ + 1]
  /\ UNCHANGED <<clockVars, lifeVars, disk, rend, dirty, fired, pendingResend,
                 pendingRecovery, pendingDelete, ledger, sent, confirmed, boundVars>>

\* finishLedgerEntry(), then running.delete().
Finish(j) ==
  /\ run[j].step = "finish"
  /\ BestEffort(DeleteLedgerEntry(ledger, Key(j), now))
  /\ run' = [run EXCEPT ![j] = Idle]
  /\ UNCHANGED <<clockVars, lifeVars, disk, rendVars, mj, fired, pendingResend,
                 pendingRecovery, pendingDelete, worldVars, crashes, edits>>

-----------------------------------------------------------------------------
RunNext(j) ==
  \/ Claim(j) \/ DecideSkip(j) \/ DecideSend(j) \/ SecretUnreadable(j) \/ MarkSending(j)
  \/ SmtpAccepts(j) \/ SmtpFails(j) \/ MarkAccepted(j)
  \/ CompleteRun(j) \/ Finish(j)

Next ==
  \/ Advance \/ Launch \/ Restore \/ Crash
  \/ Hydrate \/ Save \/ Sync \/ Tick
  \/ \E j \in Jobs : JobRan(j) \/ ToggleJob(j) \/ \E rule \in Rules : EditJob(j, rule)
  \/ \E k \in Keys : WriteQueuedDelete(k)
  \/ \E j \in Jobs : RunNext(j)

Spec == Init /\ [][Next]_vars

\* Launches, the ledger read and boot effect complete; the arm effect runs
\* after a change; the 15 s timer ticks; queued writes and awaited steps end;
\* events are delivered.  Time, crashes, edits and saves promise nothing.
Fairness ==
  /\ WF_vars(Launch) /\ WF_vars(Restore) /\ WF_vars(Hydrate)
  /\ WF_vars(Sync /\ dirty) /\ WF_vars(Tick)
  /\ \A k \in Keys : WF_vars(WriteQueuedDelete(k))
  /\ \A j \in Jobs : WF_vars(RunNext(j)) /\ WF_vars(JobRan(j))

FairSpec == Spec /\ Fairness
-----------------------------------------------------------------------------
(* Properties. *)

\* Every variable keeps its shape.
TypeOK ==
  /\ now \in Nat /\ phase \in {"down", "booting", "up"} /\ {open, dirty} \subseteq BOOLEAN
  /\ disk \in [Jobs -> Job] /\ rend \in [Jobs -> Job]
  /\ reports \in [Jobs -> Seq(Report)]
  /\ mj \in [Jobs -> Armed \cup {Absent}]
  /\ run \in [Jobs -> Running \cup {Idle}]
  /\ \A s \in {fired, pendingResend, pendingRecovery, pendingDelete, confirmed} :
       s \subseteq Keys
  /\ ledger \in LedgerFile
  /\ {sent, completed} \subseteq [Keys -> Nat]
  /\ {crashes, faults, edits} \subseteq Nat

Claims(j) == run[j] = Idle /\ run'[j] # Idle

\* Between two starts of the process no occurrence is picked twice, however
\* syncs, edits, late reports and recoveries interleave with the runs.
\* A failed ledger write may cost this (an entry left behind is resent, and
\* completing another one then reaches back over it), and so does a secret that
\* cannot be read: the occurrence stays due, and tick() picks it again.
PickedOnce ==
  [][faults = 0 => \A j \in Jobs : Claims(j) => <<j, run'[j].at>> \notin fired]_vars

\* An occurrence whose acceptance is on the ledger is never picked to be sent.
ProvenNotResent ==
  [][faults = 0 =>
       \A j \in Jobs : Claims(j) => ledger[<<j, run'[j].at>>].state # "accepted"]_vars

\* While a run is past its claim, and as long as no write or read has failed and
\* the occurrence is not a day old, the file holds its entry: "sending" when
\* an SMTP attempt is in flight.
AttemptOnRecord ==
  \A j \in Jobs :
    (run[j].step \notin {"idle", "claim"} /\ faults = 0 /\ now - run[j].at <= PruneAge) =>
      /\ Present(ledger, Key(j))
      /\ run[j].step \in {"smtp", "accepted"} => ledger[Key(j)].state = "sending"

\* Without a failed write or read the server takes an occurrence at most as
\* often in one life of the process as one claim allows.
CopiesBounded ==
  faults = 0 => \A k \in Keys : sent[k] <= Copies * MaxAttempts * (1 + crashes)

\* The runs of a job that really ended, one by one.
Counted(j) == UNION {{t} \X (1..completed[<<j, t>>]) : t \in Instants}

\* The schedule row never counts more runs than really ended: a recovery of
\* what state.json already recorded, or a repeated report, does not count
\* (completeAcceptedRecovery() looks at the renderer's list; applyRun() is
\* absolute).  A failed write or read may cost this: the recovered run is then
\* listed again behind the entry left behind, and recovered once more.
NeverOvercounts ==
  faults = 0 => \A j \in Jobs : rend[j].runs <= Cardinality(Counted(j))
=============================================================================
