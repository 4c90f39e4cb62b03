------------------------------ MODULE UndoStack ------------------------------
(***************************************************************************)
(* The app-wide undo stack (src/state/hooks/useUndo.ts) over what it can   *)
(* put back while everything else goes on: the jobs, which a scheduler     *)
(* runs and reports on in the meantime, and the working calendar, which    *)
(* another device can replace.  The places that push are in                *)
(* WorkCalendarView.tsx, ScheduleView.tsx and AppState.tsx (deleteJob).    *)
(*                                                                         *)
(* A run is one step (its failures are the subject of Scheduler), jobs     *)
(* have no working-day policy and catch up once, and the app is closed     *)
(* only when it has heard of every run and saved.  The entries for         *)
(* contacts, templates and log rows are left out: nothing but the user     *)
(* changes those.                                                          *)
(*                                                                         *)
(* Bounds of the model: MaxTime, MaxEdits (by the user), MaxAdopts (of a   *)
(* calendar), MaxRestarts and Depth (the 20 entries of the stack).         *)
(***************************************************************************)
EXTENDS Recurrence, Sequences, SequencesExt

CONSTANTS Jobs, Rules, Days, Depth, MaxTime, MaxEdits, MaxAdopts, MaxRestarts

UndoStackAssumption ==
  /\ Rules \subseteq Rule /\ \A r \in Rules : r.fires \subseteq 1..MaxTime /\ r.catchUp = "fireOnce"
  /\ {MaxTime, MaxEdits, MaxAdopts, MaxRestarts} \subseteq Nat /\ Depth \in Nat \ {0}

VARIABLES
  now,
  jobs,      \* state.jobs, by id
  cal,       \* settings.workCalendar: its holidays
  stack,     \* undoRef: the inverses, newest first
  held,      \* the jobs a dialog or the compose screen took from the state
  saves,     \* the calls of scheduleDraft that wait: the edit, and the job it will write
  armed, fired, dirty,  \* the scheduler's copies and claims, and whether syncJobs is due
  reports,   \* runs the renderer has not heard of
  sent,      \* how often each occurrence was sent
  past,      \* per entry: the state before it, unless something else changed it since
  edits, adopts, restarts

sched  == <<armed, fired, reports, sent>>
bounds == <<edits, adopts, restarts>>
vars   == <<now, jobs, cal, stack, held, saves, sched, dirty, past, bounds>>

Gone    == [here |-> FALSE]
Job     == [here : {TRUE}, on : BOOLEAN, rule : Rules, occ : SUBSET (1..MaxTime), runs : 0..MaxTime]
Nothing == [undoable |-> FALSE, jobs |-> <<>>]
Some    == {S \in SUBSET Jobs : S # {}}

Init ==
  /\ now = 0 /\ cal \in SUBSET Days /\ stack = <<>> /\ past = <<>> /\ held = Nothing /\ saves = {}
  /\ \E rule \in Rules : jobs = [j \in Jobs |->
       [here |-> TRUE, on |-> TRUE, rule |-> rule, occ |-> ComputeOccurrences(rule, 0, 0, Horizon),
        runs |-> 0]]
  /\ armed = [j \in Jobs |-> Gone] /\ fired = {} /\ dirty = TRUE /\ reports = [j \in Jobs |-> <<>>]
  /\ sent = [k \in Jobs \X (1..MaxTime) |-> 0]
  /\ edits = 0 /\ adopts = 0 /\ restarts = 0

-----------------------------------------------------------------------------
(* The stack *)

Last20(list) == SubSeq(list, 1, AtMost(Len(list), Depth))

\* What an edit of `before` puts on the stack when it writes `after`.
BeforeBug(before, after) == after
Before(before, after) == before

\* `of` is the number of the edit, for `past` alone.
Entry(js, calendars) == [of |-> edits + 1, jobs |-> js, cal |-> calendars]
NoJobs == [j \in {} |-> Gone]

Unsure == [i \in DOMAIN past |-> {}]

\* pushUndo; an inverse taken from an older state leads back to no state there was.
Push(entry, current) ==
  /\ stack' = Last20(<<entry>> \o stack)
  /\ past' = Last20(IF current THEN <<{<<jobs, cal>>}>> \o past ELSE <<{}>> \o Unsure)

\* A change that is not on the stack: no entry below it leads back to a former state.
Disturb == stack' = stack /\ past' = Unsure

\* undo(): the actions of the newest entry, each an upsertJob or a patchSettings.
Undo ==
  /\ stack # <<>>
  /\ jobs' = [j \in DOMAIN jobs |->
                IF j \in DOMAIN Head(stack).jobs THEN Head(stack).jobs[j] ELSE jobs[j]]
  /\ cal' = IF Head(stack).cal = {} THEN cal ELSE CHOOSE c \in Head(stack).cal : TRUE
  /\ stack' = Tail(stack) /\ past' = Tail(past)
  /\ dirty' = (dirty \/ jobs' # jobs)
  /\ UNCHANGED <<now, held, saves, sched, bounds>>

-----------------------------------------------------------------------------
(* What the user does *)

Edits == edits < MaxEdits /\ edits' = edits + 1 /\ UNCHANGED <<adopts, restarts>>

\* moveJob, snooze, swapSeriesTemplate, the de-stagger: the jobs as the dialog found them; without
\* an undo entry, the job loaded into the compose screen to be edited.
Hold(S, undoable) ==
  /\ held = Nothing /\ (undoable \/ Cardinality(S) = 1) /\ \A j \in S : jobs[j].here
  /\ held' = [undoable |-> undoable, jobs |-> [j \in S |-> jobs[j]]]
  /\ UNCHANGED <<now, jobs, cal, stack, saves, sched, dirty, past, bounds>>

LetGo ==
  /\ held # Nothing /\ held' = Nothing
  /\ UNCHANGED <<now, jobs, cal, stack, saves, sched, dirty, past, bounds>>

\* pushUndo, and scheduleDraft for each of them, which waits for the copies of the attachments (a
\* batch awaits them one by one; here they may land in any order).
Confirm(rule) ==
  LET new == [j \in DOMAIN held.jobs |-> [held.jobs[j] EXCEPT !.rule = rule]]
  IN  /\ held # Nothing /\ held' = Nothing /\ Edits
      /\ IF held.undoable
           THEN Push(Entry(Before(held.jobs, new), {}),
                     held.jobs = [j \in DOMAIN held.jobs |-> jobs[j]])
           ELSE UNCHANGED <<stack, past>>
      /\ saves' = saves \cup {[of |-> edits', id |-> j, job |-> new[j]] : j \in DOMAIN new}
      /\ UNCHANGED <<now, jobs, cal, sched, dirty>>

\* scheduleDraft after its await: upsertJob, whatever became of the job meanwhile.  The entry that
\* was pushed for it, if it is still the newest, goes on leading back; nothing else does.
Saves(s) ==
  /\ saves' = saves \ {s}
  /\ jobs' = [jobs EXCEPT ![s.id] =
                [s.job EXCEPT !.occ = ComputeOccurrences(s.job.rule, now, s.job.runs, Horizon)]]
  /\ IF stack # <<>> /\ Head(stack).of = s.of THEN UNCHANGED <<stack, past>> ELSE Disturb
  /\ dirty' = TRUE
  /\ UNCHANGED <<now, cal, held, sched, bounds>>

\* deleteJob
DeleteJob(j) ==
  /\ held = Nothing /\ jobs[j].here /\ Edits
  /\ Push(Entry([i \in {j} |-> jobs[i]], {}), TRUE)
  /\ jobs' = [jobs EXCEPT ![j] = Gone] /\ dirty' = TRUE
  /\ UNCHANGED <<now, cal, held, saves, sched>>

\* toggleJob
ToggleJob(j) ==
  /\ held = Nothing /\ jobs[j].here /\ Edits /\ Disturb
  /\ jobs' = [jobs EXCEPT ![j].on = ~@,
        ![j].occ = IF jobs[j].on THEN {}
                   ELSE ComputeOccurrences(jobs[j].rule, now, jobs[j].runs, Horizon)]
  /\ dirty' = TRUE
  /\ UNCHANGED <<now, cal, held, saves, sched>>

\* A day marked or unmarked in the calendar: save().
ToggleDay(d) ==
  /\ held = Nothing /\ Edits
  /\ Push(Entry(NoJobs, {cal}), TRUE)
  /\ cal' = IF d \in cal THEN cal \ {d} ELSE cal \cup {d}
  /\ UNCHANGED <<now, jobs, held, saves, sched, dirty>>

\* applySyncResult: the calendar of another device.
Adopt(c) ==
  /\ adopts < MaxAdopts /\ adopts' = adopts + 1
  /\ c # cal /\ cal' = c /\ Disturb
  /\ UNCHANGED <<now, jobs, held, saves, sched, dirty, edits, restarts>>

-----------------------------------------------------------------------------
(* What goes on meanwhile *)

Advance ==
  /\ now < MaxTime /\ now' = now + 1
  /\ UNCHANGED <<jobs, cal, stack, held, saves, sched, dirty, past, bounds>>

Owed(j) == {t \in DueNow(jobs[j].rule, jobs[j].occ, now) : <<j, t>> \notin fired}

\* syncJobs: the enabled jobs, re-armed.
Sync ==
  /\ dirty /\ dirty' = FALSE
  /\ armed' = [j \in Jobs |->
       IF ~jobs[j].here THEN Gone
       ELSE IF ~jobs[j].on THEN Gone
       ELSE [jobs[j] EXCEPT !.occ =
               Owed(j) \cup Upcoming(jobs[j].rule, jobs[j].occ, jobs[j].runs, now)]]
  /\ UNCHANGED <<now, jobs, cal, stack, held, saves, fired, reports, sent, past, bounds>>

\* tick() and the run it starts: the latest of what is due, once.
Fire(j) ==
  LET due == Missed(armed[j].occ, now)
      run == [armed[j] EXCEPT !.runs = @ + 1,
                 !.occ = TopUp(armed[j].rule, StillFuture(armed[j].occ, now), armed[j].runs + 1, now)]
  IN  /\ armed[j].here /\ due # {}
      /\ fired' = fired \cup {<<j, Latest(due)>>}
      /\ sent' = [sent EXCEPT ![<<j, Latest(due)>>] = @ + 1]
      /\ armed' = [armed EXCEPT ![j] = run]
      /\ reports' = [reports EXCEPT ![j] = Append(@, [runs |-> run.runs, occ |-> run.occ])]
      /\ UNCHANGED <<now, jobs, cal, stack, held, saves, dirty, past, bounds>>

\* jobRan: nothing for a job that is gone.
JobRan(j) ==
  /\ reports[j] # <<>> /\ reports' = [reports EXCEPT ![j] = Tail(@)] /\ Disturb
  /\ jobs' = IF ~jobs[j].here THEN jobs
             ELSE [jobs EXCEPT ![j].runs = Head(reports[j]).runs, ![j].occ = Head(reports[j]).occ]
  /\ dirty' = (dirty \/ (jobs[j].here /\ NextFire(jobs'[j].occ) # NextFire(jobs[j].occ)))
  /\ UNCHANGED <<now, cal, held, saves, armed, fired, sent, bounds>>

\* The app is closed and started: the stack and the claims are gone, the jobs are re-armed.
Restart ==
  /\ restarts < MaxRestarts /\ restarts' = restarts + 1 /\ \A j \in Jobs : reports[j] = <<>>
  /\ stack' = <<>> /\ past' = <<>> /\ held' = Nothing /\ saves' = {}
  /\ fired' = {} /\ dirty' = TRUE
  /\ armed' = [j \in Jobs |-> Gone]
  /\ jobs' = [j \in Jobs |->
       IF jobs[j].here
         THEN [jobs[j] EXCEPT !.occ = IF jobs[j].on
                 THEN DueNow(jobs[j].rule, jobs[j].occ, now)
                        \cup Upcoming(jobs[j].rule, jobs[j].occ, jobs[j].runs, now)
                 ELSE jobs[j].occ]
         ELSE Gone]
  /\ UNCHANGED <<now, cal, reports, sent, edits, adopts>>

-----------------------------------------------------------------------------
Next ==
  \/ Undo \/ LetGo \/ Advance \/ Sync \/ Restart
  \/ \E S \in Some, undoable \in BOOLEAN : Hold(S, undoable)
  \/ \E rule \in Rules : Confirm(rule)
  \/ \E s \in saves : Saves(s)
  \/ \E j \in Jobs : DeleteJob(j) \/ ToggleJob(j) \/ Fire(j) \/ JobRan(j)
  \/ \E d \in Days : ToggleDay(d)
  \/ \E c \in SUBSET Days : Adopt(c)

Spec == Init /\ [][Next]_vars

-----------------------------------------------------------------------------
TypeOK ==
  /\ now \in 0..MaxTime /\ jobs \in [Jobs -> Job \cup {Gone}] /\ cal \in SUBSET Days
  /\ armed \in [Jobs -> Job \cup {Gone}] /\ fired \subseteq Jobs \X (1..MaxTime)
  /\ Len(stack) <= Depth /\ Len(past) = Len(stack)
  /\ \A e \in Range(stack) :
       /\ DOMAIN e.jobs \subseteq Jobs /\ \A j \in DOMAIN e.jobs : e.jobs[j] \in Job
       /\ e.cal \subseteq SUBSET Days
  /\ \A s \in saves : s.id \in Jobs /\ s.job \in Job

\* While the app runs no undo has an occurrence sent twice, however old the list it puts back: what
\* was fired is not owed again (the claims of Scheduler.sync()).
SentOnce == \A k \in DOMAIN sent : sent[k] <= 1

\* Undoing the last change leads back to the state before it, and undoing the one before that to the
\* state before both, in every mix of single and batched edits, deletions and calendar changes,
\* unless something that is not on the stack came between, or a
\* save that the entry was not pushed for landed after it.
UndoLeadsBack ==
  Undo /\ Head(past) # {} => <<jobs', cal'>> \in Head(past)

-----------------------------------------------------------------------------
(* What the code says of itself, and the runs show to be otherwise *)

\* "undoing a deleted contact does not also roll back the four unrelated things that happened while
\* the toast was still on screen": nor does undoing an edit unsend what was sent.
UndoSparesRuns ==
  [][Undo => \A j \in Jobs : jobs[j].here /\ jobs'[j].here => jobs'[j].runs >= jobs[j].runs]_vars

\* The same of the calendar: undoing the day that was marked changes that day, and leaves what
\* another device brought in.
UndoSparesDays ==
  [][Undo => Cardinality((cal \ cal') \cup (cal' \ cal)) <= 1]_vars

\* "an existing `runCount` (an `afterCount` end condition is measured against runs so far, not reset
\* to zero)": saving an edited job does not lower it.
EditKeepsRuns ==
  [][\A s \in saves : Saves(s) =>
       \A j \in Jobs : jobs[j].here /\ jobs'[j].here => jobs'[j].runs >= jobs[j].runs]_vars

\* "so the same instant cannot be paid twice": SentOnce, with the app closed and started again.
PaidOnce == SentOnce
=============================================================================
