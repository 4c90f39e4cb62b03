-------------------------- MODULE AndroidScheduler --------------------------
(***************************************************************************)
(* Scheduled sending on Android: AevistleScheduler.java (alarms, what is   *)
(* owed), AlarmReceiver, BootReceiver and RetryJobReceiver, SendWorker (one *)
(* work per job), JobStore.java (preferences shared by all of them), and   *)
(* the web layer's half in AppState.tsx: handing the jobs over (syncJobs)  *)
(* and hearing of runs (drainRuns, job events).                            *)
(*                                                                         *)
(* Time counts the instants a job may be due at, 1..MaxTime.  A worker     *)
(* reads a key of JobStore, changes the copy and writes it back, in two    *)
(* steps; syncJobs, rearmAll and armNext are one step each.  apply()       *)
(* changes memory, the file follows; commit() writes the file.  A job that *)
(* is not enabled is not handed over, so the store does not have it.       *)
(* Left out: the 24 hours after which a ledger entry is pruned, runCount   *)
(* and status, message ids, notifications other than "Retry now".          *)
(*                                                                         *)
(* Bounds of the model: MaxTime, MaxOpens (of the app), MaxKills (deaths   *)
(* of the process, reboots), MaxLost (accepted mails whose answer is lost),*)
(* MaxEdits, MaxTaps ("Retry now").  The web layer's state counts as saved *)
(* when it changes, and the app is not left in the middle of a sync.       *)
(***************************************************************************)
EXTENDS Integers, FiniteSets

CONSTANTS
  Jobs, FireOnce,     \* all jobs, and those whose catch-up policy is 'fireOnce'
  Plans,              \* the sets of instants a recurrence can stand for
  MaxAttempts,        \* retry.maxAttempts
  MaxTime, MaxOpens, MaxKills, MaxLost, MaxEdits, MaxTaps

AndroidAssumption ==
  /\ FireOnce \subseteq Jobs /\ Plans \subseteq SUBSET (1..MaxTime) /\ Plans # {}
  /\ MaxAttempts \in Nat \ {0}
  /\ {MaxTime, MaxOpens, MaxKills, MaxLost, MaxEdits, MaxTaps} \subseteq Nat

VARIABLES
  now,
  prefs, disk,       \* JobStore in memory, and its file
  alarm,             \* per job: when AlarmManager wakes us, 0 for never
  work, seen,        \* per job: its unique work, and what this has read to change
  note,              \* jobs with a "Retry now" notification
  booting,           \* BOOT_COMPLETED is still to come
  app, web,          \* the web layer and its jobs, saved as they change
  owesSync, owesDrain,  \* effects to run: syncJobs, pullJobRuns
  hand,              \* per job: a report on its way to the web layer
  sent,              \* per job: mails per instant (up to 2)
  disturbed,         \* which of the things that may repeat a mail have happened
  opens, kills, lost, edits, taps

storeVars == <<prefs, disk>>
webVars   == <<app, web, owesSync, owesDrain>>
ghosts    == <<sent, disturbed>>
budgets   == <<opens, kills, lost, edits, taps>>
vars      == <<now, storeVars, alarm, work, seen, note, booting, webVars, hand, ghosts, budgets>>

Slots == 1..MaxTime
Time  == 0..MaxTime
Latest(S)   == IF S = {} THEN 0 ELSE CHOOSE t \in S : \A u \in S : u <= t
Earliest(S) == IF S = {} THEN 0 ELSE CHOOSE t \in S : \A u \in S : t <= u

Job    == [on : BOOLEAN, mine : BOOLEAN, account : BOOLEAN, plan : Plans,
           occurrences : SUBSET Slots, ranAt : Time]
Report == [occurrences : SUBSET Slots, ranAt : Time]
NoReport == [occurrences |-> {}, ranAt |-> 0]   \* ranAt = 0: there is none
Entries  == [Slots -> {"none", "claimed", "sending", "accepted"}]
Store  == [jobs : [Jobs -> Job], ledger : [Jobs -> Entries], runs : [Jobs -> Report]]

Steps == {"none", "enqueued", "claiming", "deciding", "marking", "sending", "accepting",
          "recording", "queueing", "arming", "ending"}
Outcomes == {"none", "ok", "retryable", "fatal", "skipped", "noAccount"}
Work   == [step : Steps, attempt : Nat, due : Time, pays : Time, outcome : Outcomes,
           ranAt : Time]   \* pays: the instant it was begun for
NoWork == [step |-> "none", attempt |-> 0, due |-> 0, pays |-> 0, outcome |-> "none", ranAt |-> 0]
Running(j) == work[j].step \notin {"none", "enqueued"}

Init ==
  /\ now = 0
  /\ web \in [Jobs -> {[on |-> TRUE, mine |-> TRUE, account |-> TRUE, plan |-> p,
                        occurrences |-> p, ranAt |-> 0] : p \in Plans}]
  /\ prefs = [jobs |-> web, ledger |-> [j \in Jobs |-> [o \in Slots |-> "none"]],
              runs |-> [j \in Jobs |-> NoReport]]
  /\ disk = prefs
  /\ alarm = [j \in Jobs |-> Earliest(web[j].occurrences)]
  /\ work = [j \in Jobs |-> NoWork] /\ seen = [j \in Jobs |-> {}] /\ note = {}
  /\ booting = FALSE /\ app = "shut" /\ owesSync = FALSE /\ owesDrain = FALSE
  /\ hand = [j \in Jobs |-> NoReport]
  /\ sent = [j \in Jobs |-> [o \in Time |-> 0]]
  /\ disturbed = {}
  /\ opens = 0 /\ kills = 0 /\ lost = 0 /\ edits = 0 /\ taps = 0

-----------------------------------------------------------------------------
(* JobStore and AevistleScheduler: what is owed. *)

Past(job, t) == {o \in job.occurrences : o <= t}

RecordedAllBug(job, t) == [job EXCEPT !.ranAt = t]   \* the instant stays listed

\* recordRun() and recordSkip(): every instant that has passed leaves the list.
Recorded(job, t) == [job EXCEPT !.occurrences = @ \ Past(job, t), !.ranAt = t]

ReportOf(job) == [occurrences |-> job.occurrences, ranAt |-> job.ranAt]

PaysCatchUpNeverBug(j) == FALSE

PaysCatchUp(j) == j \in FireOnce

\* nextOccurrence(): when to wake for a job, and what it changes on the way: an
\* instant that was accepted is only recorded, any other entry is dropped.
NextOccurrence(s, j, t) ==
  LET job     == s.jobs[j]
      owed    == Latest(Past(job, t))
      soonest == Earliest(job.occurrences \ Past(job, t))
      entry   == IF owed = 0 THEN "none" ELSE s.ledger[j][owed]
      as      == [job |-> job, run |-> s.runs[j], entries |-> s.ledger[j], wake |-> soonest]
      cleared == IF owed = 0 THEN as ELSE [as EXCEPT !.entries[owed] = "none"]
  IN  IF entry = "accepted"
        THEN [cleared EXCEPT !.job = Recorded(job, t), !.run = ReportOf(Recorded(job, t))]
      ELSE IF entry # "none" THEN [cleared EXCEPT !.wake = t]
      ELSE IF owed # 0 /\ PaysCatchUp(j) THEN [as EXCEPT !.wake = t]
      ELSE as

MayFire(job) == job.on /\ job.mine

\* rearmAll(): of every job in the store the alarm is cancelled and set anew.
Rearmed(s, t) ==
  LET n(j) == IF MayFire(s.jobs[j]) THEN NextOccurrence(s, j, t)
              ELSE [job |-> s.jobs[j], run |-> s.runs[j], entries |-> s.ledger[j],
                    wake |-> IF s.jobs[j].on THEN 0 ELSE alarm[j]]
  IN  [store |-> [jobs |-> [j \in Jobs |-> n(j).job], ledger |-> [j \in Jobs |-> n(j).entries],
                  runs |-> [j \in Jobs |-> n(j).run]],
       alarm |-> [j \in Jobs |-> n(j).wake]]

\* emitJobEvent(): what is newly reported also goes to an app that is open.
Told(newRuns) ==
  [j \in Jobs |-> IF app # "shut" /\ newRuns[j] # prefs.runs[j] /\ newRuns[j] # NoReport
                  THEN newRuns[j] ELSE hand[j]]

Rearms(s) ==
  LET r == Rearmed(s, now)
  IN  /\ prefs' = r.store /\ alarm' = r.alarm /\ hand' = Told(r.store.runs)

-----------------------------------------------------------------------------
(* Alarms and work.  WorkManager keeps one unique work per job. *)

\* enqueueUniqueWork(KEEP)
Enqueued(j) == IF work[j].step = "none" THEN [NoWork EXCEPT !.step = "enqueued"] ELSE work[j]

\* No alarm comes within five seconds of being set, so the worker that has set it
\* has ended by then.
AlarmFires(j) ==
  /\ alarm[j] # 0 /\ alarm[j] <= now /\ work[j].step # "ending"
  /\ alarm' = [alarm EXCEPT ![j] = 0]
  /\ work' = [work EXCEPT ![j] = Enqueued(j)]
  /\ UNCHANGED <<now, storeVars, seen, note, booting, webVars, hand, ghosts, budgets>>

\* The "Retry now" of a failure's notification.
RetryNow(j) ==
  /\ j \in note /\ taps < MaxTaps
  /\ taps' = taps + 1 /\ note' = note \ {j}
  /\ work' = [work EXCEPT ![j] = Enqueued(j)]
  /\ UNCHANGED <<now, storeVars, alarm, seen, booting, webVars, hand, ghosts,
                 opens, kills, lost, edits>>

BootReceived ==
  /\ booting /\ booting' = FALSE
  /\ Rearms(prefs)
  /\ UNCHANGED <<now, disk, work, seen, note, webVars, ghosts, budgets>>

To(j, step) == work' = [work EXCEPT ![j].step = step]

\* What a retry works on: the entry this job has in the ledger (the latest), or
\* else the instant that is due.
DueAgain(j) ==
  LET mine == {o \in Slots : prefs.ledger[j][o] # "none"}
  IN  IF mine # {} THEN Latest(mine) ELSE Latest(Past(prefs.jobs[j], now))

\* doWork() begins.  A job that is gone, paused or another device's is left alone.
Starts(j) ==
  LET first == work[j].attempt = 0
      due   == IF first THEN Latest(Past(prefs.jobs[j], now)) ELSE DueAgain(j)
      pays  == IF work[j].pays # 0 THEN work[j].pays
               ELSE IF due # 0 THEN due ELSE Latest({o \in prefs.jobs[j].plan : o <= now})
  IN  /\ work[j].step = "enqueued"
      /\ IF ~MayFire(prefs.jobs[j])
           THEN work' = [work EXCEPT ![j] = NoWork] /\ UNCHANGED seen
         ELSE IF first /\ due # 0
           THEN /\ work' = [work EXCEPT ![j].step = "claiming", ![j].due = due, ![j].pays = pays]
                /\ seen' = [seen EXCEPT ![j] = {prefs.ledger}]
         ELSE /\ work' = [work EXCEPT ![j].step = "deciding", ![j].due = due, ![j].pays = pays]
              /\ UNCHANGED seen
      /\ UNCHANGED <<now, storeVars, alarm, note, booting, webVars, hand, ghosts, budgets>>

\* A worker that is about to change a key of the store reads it first.
Reads(j) ==
  /\ work[j].step \in {"marking", "accepting", "recording", "queueing", "ending"}
  /\ seen[j] = {}
  /\ seen' = [seen EXCEPT ![j] = IF work[j].step = "recording" THEN {prefs.jobs}
                                 ELSE IF work[j].step = "queueing" THEN {prefs.runs}
                                 ELSE {prefs.ledger}]
  /\ UNCHANGED <<now, storeVars, alarm, work, note, booting, webVars, hand, ghosts, budgets>>

\* The ledger it read, with another state for the instant it pays.
Writes(ledger, j, state) ==
  prefs' = [prefs EXCEPT !.ledger = [ledger EXCEPT ![j][work[j].due] = state]]

HasEntry(ledger, j) == work[j].due # 0 /\ ledger[j][work[j].due] # "none"

Claims(j) ==
  /\ work[j].step = "claiming"
  /\ \E ledger \in seen[j] : Writes(ledger, j, "claimed")
  /\ seen' = [seen EXCEPT ![j] = {}] /\ To(j, "deciding")
  /\ UNCHANGED <<now, disk, alarm, note, booting, webVars, hand, ghosts, budgets>>

\* A send condition may call it off; without the account it has failed.
Decides(j) ==
  /\ work[j].step = "deciding"
  /\ \/ /\ work' = [work EXCEPT ![j].step = "recording", ![j].outcome = "skipped",
                                ![j].ranAt = now]
        /\ UNCHANGED disturbed
     \/ /\ ~prefs.jobs[j].account
        /\ disturbed' = disturbed \cup {"noAccount"}
        /\ work' = [work EXCEPT ![j].step = "recording", ![j].outcome = "noAccount",
                                ![j].ranAt = now]
     \/ prefs.jobs[j].account /\ To(j, "marking") /\ UNCHANGED disturbed
  /\ UNCHANGED <<now, storeVars, alarm, seen, note, booting, webVars, hand, sent,
                 budgets>>

\* The file matters no more when nothing is killed any more.
ToFile == disk' = IF kills < MaxKills THEN prefs' ELSE disk

\* markLedgerSending(), which commits -- if there is an entry.
MarksSending(j) ==
  /\ work[j].step = "marking"
  /\ \E ledger \in seen[j] : IF HasEntry(ledger, j) THEN Writes(ledger, j, "sending") /\ ToFile
                                           ELSE UNCHANGED storeVars
  /\ seen' = [seen EXCEPT ![j] = {}] /\ To(j, "sending")
  /\ UNCHANGED <<now, alarm, note, booting, webVars, hand, ghosts, budgets>>

Delivered(j) == sent' = [sent EXCEPT ![j][work[j].pays] = IF @ < 2 THEN @ + 1 ELSE @]

\* MailSender.send().  When the connection breaks the server may have the mail.
Sends(j) ==
  /\ work[j].step = "sending"
  /\ \/ /\ Delivered(j)
        /\ work' = [work EXCEPT ![j].step = "accepting", ![j].outcome = "ok"]
        /\ UNCHANGED lost
     \/ \E outcome \in {"retryable", "fatal"} :
          /\ work' = [work EXCEPT ![j].step = "recording", ![j].outcome = outcome,
                                  ![j].ranAt = now]
          /\ UNCHANGED <<sent, lost>>
     \/ /\ lost < MaxLost /\ lost' = lost + 1
        /\ Delivered(j)
        /\ work' = [work EXCEPT ![j].step = "recording", ![j].outcome = "retryable",
                                ![j].ranAt = now]
  /\ UNCHANGED <<now, storeVars, alarm, seen, note, booting, webVars, hand, disturbed,
                 opens, kills, edits, taps>>

MarksAccepted(j) ==
  /\ work[j].step = "accepting"
  /\ \E ledger \in seen[j] : IF HasEntry(ledger, j) THEN Writes(ledger, j, "accepted") ELSE UNCHANGED prefs
  /\ seen' = [seen EXCEPT ![j] = {}]
  /\ work' = [work EXCEPT ![j].step = "recording", ![j].ranAt = now]
  /\ UNCHANGED <<now, disk, alarm, note, booting, webVars, hand, ghosts, budgets>>

\* recordRun() or recordSkip(): the jobs it read are written back, with this one's
\* instants of the past gone.  Of a job that is not there nothing is reported.
Records(j) ==
  /\ work[j].step = "recording"
  /\ \E jobs \in seen[j] :
       /\ prefs' = [prefs EXCEPT !.jobs =
            [jobs EXCEPT ![j] = IF @.on THEN Recorded(@, work[j].ranAt) ELSE @]]
       /\ disturbed' = IF jobs = prefs.jobs THEN disturbed ELSE disturbed \cup {"clobbered"}
       /\ To(j, IF jobs[j].on THEN "queueing"
                ELSE IF work[j].outcome = "noAccount" THEN "ending" ELSE "arming")
  /\ seen' = [seen EXCEPT ![j] = {}]
  /\ UNCHANGED <<now, disk, alarm, note, booting, webVars, hand, sent, budgets>>

\* queueRun(): one report per job; an app that is open is told as well.  The report is built from
\* the list that recordRun() has just written, here from the one in the store: they differ only
\* if the list was written again between the two.
Queues(j) ==
  /\ work[j].step = "queueing"
  /\ \E queued \in seen[j] :
       LET runs == [queued EXCEPT ![j] = [ReportOf(prefs.jobs[j]) EXCEPT !.ranAt = work[j].ranAt]]
       IN  /\ prefs' = [prefs EXCEPT !.runs = runs]
           /\ hand' = IF app # "shut" /\ work[j].outcome # "noAccount"
                      THEN [hand EXCEPT ![j] = runs[j]] ELSE hand
  /\ seen' = [seen EXCEPT ![j] = {}]
  /\ To(j, IF work[j].outcome = "noAccount" THEN "ending" ELSE "arming")
  /\ UNCHANGED <<now, disk, alarm, note, booting, webVars, ghosts, budgets>>

Armed(j, wake) == IF wake # 0 THEN [alarm EXCEPT ![j] = wake] ELSE alarm

\* armNext(), from the job as the store has it now.
ArmsNext(j) ==
  /\ work[j].step = "arming"
  /\ IF prefs.jobs[j].on
       THEN LET n == NextOccurrence(prefs, j, now)
                new == [jobs |-> [prefs.jobs EXCEPT ![j] = n.job],
                        ledger |-> [prefs.ledger EXCEPT ![j] = n.entries],
                        runs |-> [prefs.runs EXCEPT ![j] = n.run]]
            IN  prefs' = new /\ hand' = Told(new.runs) /\ alarm' = Armed(j, n.wake)
       ELSE UNCHANGED <<prefs, hand, alarm>>
  /\ To(j, "ending")
  /\ UNCHANGED <<now, disk, seen, note, booting, webVars, ghosts, budgets>>

Retries(j) == work[j].outcome = "retryable" /\ work[j].attempt + 1 < MaxAttempts

\* doWork() returns.  Unless it is to be retried its ledger entry goes.
Ends(j) ==
  /\ work[j].step = "ending" /\ seen[j] # {}
  /\ IF Retries(j)
       THEN /\ work' = [work EXCEPT ![j] = [NoWork EXCEPT !.step = "enqueued",
                                   !.attempt = work[j].attempt + 1, !.pays = work[j].pays]]
            /\ UNCHANGED prefs
       ELSE /\ \E ledger \in seen[j] : IF HasEntry(ledger, j) THEN Writes(ledger, j, "none")
                                                     ELSE UNCHANGED prefs
            /\ work' = [work EXCEPT ![j] = NoWork]
  /\ note' = IF work[j].outcome \in {"retryable", "fatal"} /\ taps < MaxTaps
             THEN note \cup {j} ELSE note
  /\ seen' = [seen EXCEPT ![j] = {}]
  /\ UNCHANGED <<now, disk, alarm, booting, webVars, hand, ghosts, budgets>>

-----------------------------------------------------------------------------
(* The web layer. *)

\* Boot: of the missed instants the last one stays (unless the policy is 'skip'),
\* and the list is filled up again.
Refilled(j) ==
  LET job == web[j]
  IN  IF job.on
        THEN [job EXCEPT !.occurrences =
               (IF j \in FireOnce /\ Past(job, now) # {} THEN {Latest(Past(job, now))} ELSE {})
               \cup {o \in job.occurrences \cup job.plan : o > now}]
        ELSE job

Opens ==
  /\ app = "shut" /\ opens < MaxOpens /\ opens' = opens + 1
  /\ app' = "opening" /\ web' = [j \in Jobs |-> Refilled(j)]
  /\ owesSync' = TRUE /\ owesDrain' = FALSE
  /\ disturbed' = disturbed \cup {"opened"}
  /\ UNCHANGED <<now, storeVars, alarm, work, seen, note, booting, hand, sent,
                 kills, lost, edits, taps>>

\* syncJobs(): the store has the jobs as the web layer has them, and all alarms
\* are set anew.  The first of an opening goes before the first pullJobRuns().
Syncs ==
  /\ app # "shut" /\ owesSync
  /\ owesSync' = FALSE
  /\ app' = "open" /\ owesDrain' = (owesDrain \/ app = "opening")
  /\ Rearms([prefs EXCEPT !.jobs = web])
  /\ UNCHANGED <<now, disk, work, seen, note, booting, web, ghosts, budgets>>

Resumes ==   \* the app comes to the foreground
  /\ app = "open" /\ ~owesDrain /\ owesDrain' = TRUE
  /\ UNCHANGED <<now, storeVars, alarm, work, seen, note, booting, app, web, owesSync,
                 hand, ghosts, budgets>>

\* pullJobRuns(): the queue is cleared, and its reports go to the web layer.
Drains ==
  /\ app = "open" /\ owesDrain /\ owesDrain' = FALSE
  /\ prefs' = [prefs EXCEPT !.runs = [j \in Jobs |-> NoReport]]
  /\ hand' = [j \in Jobs |-> IF prefs.runs[j] # NoReport THEN prefs.runs[j] ELSE hand[j]]
  /\ UNCHANGED <<now, disk, alarm, work, seen, note, booting, app, web, owesSync,
                 ghosts, budgets>>

\* applyRun(): the report replaces what the job has.
Applied(job, run) == [job EXCEPT !.occurrences = run.occurrences, !.ranAt = run.ranAt]

\* Another first occurrence changes the signature, and the jobs are handed over again.
HearsRun(j) ==
  /\ app # "shut" /\ hand[j] # NoReport
  /\ web' = [web EXCEPT ![j] = Applied(web[j], hand[j])]
  /\ owesSync' = (owesSync \/ Earliest(web'[j].occurrences) # Earliest(web[j].occurrences))
  /\ hand' = [hand EXCEPT ![j] = NoReport]
  /\ UNCHANGED <<now, storeVars, alarm, work, seen, note, booting, app, owesDrain,
                 ghosts, budgets>>

\* The user switches a job, gives it to another device, loses or restores its
\* account, or gives it another recurrence.
Edits(j) ==
  /\ app = "open" /\ edits < MaxEdits /\ edits' = edits + 1
  /\ \/ web' = [web EXCEPT ![j].on = ~@,
                  ![j].occurrences = IF web[j].on THEN {} ELSE {o \in web[j].plan : o > now}]
     \/ web' = [web EXCEPT ![j].mine = ~@]
     \/ web' = [web EXCEPT ![j].account = ~@]
     \/ \E p \in Plans \ {web[j].plan} :
          web' = [web EXCEPT ![j].plan = p, ![j].occurrences = {o \in p : o > now}]
  /\ owesSync' = TRUE
  /\ UNCHANGED <<now, storeVars, alarm, work, seen, note, booting, app, owesDrain, hand,
                 ghosts, opens, kills, lost, taps>>

\* The app is left -- when it has handed over and heard everything, and while it
\* can be opened again.
Closes ==
  /\ app = "open" /\ opens < MaxOpens
  /\ ~owesSync /\ ~owesDrain /\ \A j \in Jobs : hand[j] = NoReport
  /\ app' = "shut"
  /\ UNCHANGED <<now, storeVars, alarm, work, seen, note, booting, web, owesSync, owesDrain,
                 hand, ghosts, budgets>>

-----------------------------------------------------------------------------
(* Time, the file, and the death of the process. *)

Ticks ==
  /\ now < MaxTime /\ now' = now + 1
  /\ UNCHANGED <<storeVars, alarm, work, seen, note, booting, webVars, hand, ghosts, budgets>>

Flushes ==
  /\ kills < MaxKills
  /\ disk # prefs /\ disk' = prefs
  /\ UNCHANGED <<now, prefs, alarm, work, seen, note, booting, webVars, hand, ghosts, budgets>>

\* Work that was running is run again, as one more attempt.
Killed(rebooted) ==
  /\ kills < MaxKills /\ kills' = kills + 1
  /\ prefs' = disk
  /\ work' = [j \in Jobs |-> IF Running(j) THEN [NoWork EXCEPT !.step = "enqueued",
                                    !.attempt = work[j].attempt + 1, !.pays = work[j].pays]
                             ELSE work[j]]
  /\ seen' = [j \in Jobs |-> {}] /\ hand' = [j \in Jobs |-> NoReport]
  /\ app' = "shut" /\ owesSync' = FALSE /\ owesDrain' = FALSE
  /\ alarm' = IF rebooted THEN [j \in Jobs |-> 0] ELSE alarm
  /\ note' = IF rebooted THEN {} ELSE note
  /\ booting' = (booting \/ rebooted)
  /\ disturbed' = disturbed \cup (IF \E j \in Jobs : work[j] # NoWork THEN {"interrupted"} ELSE {})
                            \cup (IF disk # prefs THEN {"unsaved"} ELSE {})
  /\ UNCHANGED <<now, disk, web, sent, opens, lost, edits, taps>>

-----------------------------------------------------------------------------
WorkStep(j) ==
  \/ Starts(j) \/ Reads(j) \/ Claims(j) \/ Decides(j) \/ MarksSending(j) \/ Sends(j)
  \/ MarksAccepted(j) \/ Records(j) \/ Queues(j) \/ ArmsNext(j) \/ Ends(j)

Next ==
  \/ \E j \in Jobs : AlarmFires(j) \/ RetryNow(j) \/ WorkStep(j) \/ HearsRun(j) \/ Edits(j)
  \/ BootReceived \/ Opens \/ Syncs \/ Resumes \/ Drains \/ Closes
  \/ Ticks \/ Flushes \/ \E rebooted \in BOOLEAN : Killed(rebooted)

Spec == Init /\ [][Next]_vars

-----------------------------------------------------------------------------
(* Properties. *)

TypeOK ==
  /\ now \in Time /\ prefs \in Store /\ disk \in Store
  /\ alarm \in [Jobs -> Time] /\ work \in [Jobs -> Work]
  /\ \A j \in Jobs : seen[j] \subseteq CASE work[j].step = "recording" -> [Jobs -> Job]
                                      [] work[j].step = "queueing" -> [Jobs -> Report]
                                      [] OTHER -> [Jobs -> Entries]
  /\ note \subseteq Jobs /\ {booting, owesSync, owesDrain} \subseteq BOOLEAN
  /\ app \in {"shut", "opening", "open"}
  /\ web \in [Jobs -> Job] /\ hand \in [Jobs -> Report]
  /\ sent \in [Jobs -> [Time -> 0..2]]
  /\ disturbed \subseteq {"opened", "clobbered", "interrupted", "unsaved", "noAccount"}
  /\ {opens, kills, lost, edits, taps} \subseteq Nat

\* ExistingWorkPolicy.KEEP and the ledger: however alarms and retries of several
\* jobs fall, and whatever reboots come between them, an instant is mailed once.
\* What may repeat it: the app opened (its list may be older than the run), the
\* process killed before work has ended or a write was made, a job list written back
\* by another worker, an answer lost, "Retry now".
SentOnce ==
  (disturbed = {} /\ lost = 0 /\ taps = 0) =>
    \A j \in Jobs, o \in Slots : sent[j][o] <= 1

Attended(j) ==
  (MayFire(prefs.jobs[j]) /\ \E o \in prefs.jobs[j].occurrences : o > now)
    => (alarm[j] # 0 \/ work[j] # NoWork \/ booting)

\* A job that may fire and has an instant ahead is armed, being worked on, or about
\* to be re-armed after a reboot -- also when KEEP has dropped an alarm because a
\* retry was pending.  Excepted are jobs written back by another worker, writes that
\* a killed process had not made, and a missing account (see KeepsFiring).
StaysArmed ==
  disturbed \cap {"clobbered", "unsaved", "noAccount"} = {} => \A j \in Jobs : Attended(j)

\* SendWorker.java: armNext() is shared so that no path "can be the one that
\* forgets, which is how a job stops firing altogether".
KeepsFiring ==
  disturbed \cap {"clobbered", "unsaved"} = {} => \A j \in Jobs : Attended(j)

\* AevistleScheduler.java, dueOccurrence(): the instant is claimed so that it is not
\* "paid twice", on time or as a catch-up.
PaidOnce == \A j \in Jobs, o \in Slots : sent[j][o] <= 1

\* AevistleScheduler.java: an accepted entry is proof, and is only ever recorded.
AcceptedIsFinal ==
  [][\A j \in Jobs, o \in Slots :
       (prefs.ledger[j][o] = "accepted" /\ kills' = kills) =>
         prefs'.ledger[j][o] \in {"accepted", "none"}]_vars

Taken(j) == hand[j] # NoReport /\ hand'[j] = NoReport

\* JobStore.java, drainRuns(): a crash leaves the reports "to be delivered again
\* rather than losing them" (and here every write has reached the file).
HandedOver ==
  [][\A j \in Jobs : (Taken(j) /\ disk = prefs) =>
       web'[j].ranAt = hand[j].ranAt \/ prefs'.runs[j] # NoReport]_vars

\* JobStore.java, drainRuns(): "Applying the same report twice is harmless".
TwiceIsHarmless ==
  [][\A j \in Jobs : (Taken(j) /\ hand[j].ranAt = web[j].ranAt /\ app' # "shut") =>
       web'[j] = web[j]]_vars

\* An instant that comes due is run, or a run of the same job ends after it, whatever
\* is killed on the way: it is never "dropped on the floor".  Only a process that dies
\* between its last write and the file may forget that it ran.
PaidInTheEnd ==
  \A j \in FireOnce, o \in Slots :
    (o \in prefs.jobs[j].occurrences /\ o <= now /\ MayFire(prefs.jobs[j]))
      ~> (prefs.jobs[j].ranAt >= o \/ ~MayFire(prefs.jobs[j]) \/ "unsaved" \in disturbed)

\* The web layer hears of every run, however long the app was shut (queueRun).
Reported ==
  \A j \in Jobs, t \in Slots : (prefs.runs[j].ranAt = t) ~> (web[j].ranAt >= t)
=============================================================================
