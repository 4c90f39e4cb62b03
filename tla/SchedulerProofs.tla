-------------------------- MODULE SchedulerProofs ---------------------------
(***************************************************************************)
(* What holds of Scheduler for every set of jobs, every set of rules and   *)
(* every bound: its types; as long as no write or read has failed, that    *)
(* one life of the process never picks an occurrence twice, never picks    *)
(* one the ledger proves sent and keeps the entry of every run on file     *)
(* (the invariant LedgerInv, part by part); how often the server can have  *)
(* taken an occurrence at most (the account CopiesInv); and that no copy   *)
(* of a job counts more runs than ended (the tally TallyInv).              *)
(***************************************************************************)
EXTENDS SchedulerInvariant, FiniteSetTheorems, WellFoundedInduction, TLAPS

-----------------------------------------------------------------------------
(* Earliest and latest instants exist. *)

\* A non-empty set of naturals has a least member, which Earliest picks.
LEMMA EarliestIsLeast ==
  ASSUME NEW S, S \subseteq Nat, S # {}
  PROVE  /\ Earliest(S) \in S
         /\ \A u \in S : Earliest(S) <= u
<1>1. PICK x \in S : \A y \in S : ~(<<y, x>> \in OpToRel(<, Nat))
  BY WFMin, NatLessThanWellFounded
<1>2. \A y \in S : y < x => <<y, x>> \in OpToRel(<, Nat)
  BY DEF OpToRel
<1>3. \A y \in S : ~(y < x)
  BY <1>1, <1>2, Zenon
<1>4. \A y \in S : x <= y
  BY <1>3
<1> QED BY <1>4 DEF Earliest

\* A non-empty set of instants has a greatest member, which Latest picks.
LEMMA LatestIsGreatest ==
  ASSUME NEW S, S \subseteq Instants, S # {}
  PROVE  /\ Latest(S) \in S
         /\ \A u \in S : u <= Latest(S)
<1> DEFINE T == {MaxTime - t : t \in S}
<1>1. MaxTime \in Nat
  BY LedgerAssumption
<1>2. T \subseteq Nat
  <2> SUFFICES ASSUME NEW t \in S PROVE MaxTime - t \in Nat
    OBVIOUS
  <2> QED BY <1>1 DEF Instants
<1>3. PICK m \in T : \A u \in T : m <= u
  <2>1. T # {}
    OBVIOUS
  <2> QED BY <1>2, <2>1, EarliestIsLeast
<1>4. PICK t \in S : m = MaxTime - t
  BY <1>3
<1>5. \A u \in S : u <= t
  <2> TAKE u \in S
  <2>1. MaxTime - t <= MaxTime - u
    BY <1>3, <1>4
  <2> QED BY <2>1, <1>1 DEF Instants
<1> QED BY <1>5 DEF Latest

\* Sets of instants are finite.
LEMMA InstantsFinite ==
  ASSUME NEW S, S \subseteq Instants
  PROVE  IsFiniteSet(S) /\ Cardinality(S) \in Nat
<1>1. IsFiniteSet(Instants)
  BY FS_Interval, LedgerAssumption DEF Instants
<1> QED BY <1>1, FS_Subset, FS_CardinalityType

-----------------------------------------------------------------------------
(* Occurrence lists: what the recurrence operators return. *)

LEMMA ComputedAfter ==
  ASSUME NEW rule, NEW after, NEW runs, NEW count,
         NEW t \in ComputeOccurrences(rule, after, runs, count)
  PROVE  t \in rule.fires /\ t > after
BY DEF ComputeOccurrences, FiresAfter, Soonest

\* topUp() only adds instants later than its last one, or than now.
LEMMA TopUpLater ==
  ASSUME NEW rule, NEW left, NEW runs, NEW t \in TopUp(rule, left, runs, now)
  PROVE  \/ t \in left
         \/ /\ t \in rule.fires
            /\ t > IF left # {} THEN Latest(left) ELSE now
BY ComputedAfter DEF TopUp

\* rearm()'s list of what is to come has only future instants.
LEMMA UpcomingLater ==
  ASSUME NEW rule, rule.fires \subseteq Instants, NEW stored, stored \subseteq Instants,
         NEW runs, now \in Nat,
         NEW t \in Upcoming(rule, stored, runs, now)
  PROVE  t \in Instants /\ t > now
<1> DEFINE future == StillFuture(stored, now)
           seed   == IF future # {} THEN Latest(future) ELSE now
<1>1. future \subseteq Instants /\ \A u \in future : u > now
  BY DEF StillFuture
<1>2. seed >= now /\ seed \in Nat
  BY <1>1, LatestIsGreatest DEF Instants
<1>3. t \in future \/ (t \in rule.fires /\ t > seed)
  BY ComputedAfter DEF Upcoming, Soonest
<1> QED BY <1>1, <1>2, <1>3 DEF Instants

\* What rearm() owes is the last of the missed instants.
LEMMA DueNowIsLast ==
  ASSUME NEW rule, NEW stored, stored \subseteq Instants, NEW t \in DueNow(rule, stored, now)
  PROVE  /\ t \in stored /\ t <= now
         /\ \A u \in stored : u <= now => u <= t
<1>1. Missed(stored, now) \subseteq Instants /\ Missed(stored, now) # {}
  BY DEF DueNow, Missed
<1>2. t = Latest(Missed(stored, now))
  BY DEF DueNow
<1> QED BY <1>1, <1>2, LatestIsGreatest DEF Missed

-----------------------------------------------------------------------------
(* Types of the operators. *)

LEMMA RuleFires ==
  ASSUME NEW rule \in Rules
  PROVE  rule.fires \subseteq Instants /\ rule.maxRuns \in Nat
BY SchedulerAssumption DEF Rule

LEMMA NowType == TypeOK => now \in Nat
BY DEF TypeOK

LEMMA ShapeType ==
  ASSUME NEW S, S \subseteq Instants
  PROVE  Shape(S) \subseteq Instants
<1> SUFFICES ASSUME NEW t \in S
             PROVE  LET later == {u \in Instants \ Quiet : u > t}
                    IN  later # {} => Earliest(later) \in Instants
  BY DEF Shape
<1> DEFINE later == {u \in Instants \ Quiet : u > t}
<1>1. later \subseteq Nat /\ later \subseteq Instants
  BY DEF Instants
<1> QED BY <1>1, EarliestIsLeast

LEMMA ComputedType ==
  ASSUME NEW rule \in Rules, NEW after, NEW runs, NEW count
  PROVE  ComputeOccurrences(rule, after, runs, count) \subseteq Instants
BY ComputedAfter, RuleFires

LEMMA UpcomingType ==
  ASSUME NEW rule \in Rules, NEW stored, stored \subseteq Instants, NEW runs
  PROVE  Upcoming(rule, stored, runs, now) \subseteq Instants
BY ComputedType DEF Upcoming, StillFuture, Soonest

LEMMA DueNowType ==
  ASSUME NEW rule, NEW stored, stored \subseteq Instants
  PROVE  DueNow(rule, stored, now) \subseteq Instants
BY DueNowIsLast

LEMMA TopUpType ==
  ASSUME NEW rule \in Rules, NEW left, left \subseteq Instants, NEW runs
  PROVE  TopUp(rule, left, runs, now) \subseteq Instants
BY ComputedType DEF TopUp

LEMMA RendererListTypes ==
  ASSUME NEW job \in Job, NEW rule \in Rules, NEW runs
  PROVE  /\ FreshOccurrences(rule, runs) \subseteq Instants
         /\ BootOccurrences(job) \subseteq Instants
<1>1. FreshOccurrences(rule, runs) \subseteq Instants
  BY ComputedType, ShapeType DEF FreshOccurrences
<1>2. job.rule \in Rules /\ job.occ \subseteq Instants
  BY DEF Job
<1>3. BootOccurrences(job) \subseteq Instants
  BY <1>2, DueNowType, UpcomingType, ShapeType DEF BootOccurrences
<1> QED BY <1>1, <1>3

\* Every ledger operation returns a ledger file.
LEMMA LedgerTypes ==
  ASSUME TypeOK, NEW k \in Keys
  PROVE  /\ ClaimLedgerEntry(ledger, k, now) \in LedgerFile
         /\ MarkLedgerSending(ledger, k, now) \in LedgerFile
         /\ MarkLedgerAccepted(ledger, k, now) \in LedgerFile
         /\ DeleteLedgerEntry(ledger, k, now) \in LedgerFile
<1>1. ASSUME NEW e \in Entry \cup {NoEntry}
      PROVE  WriteEntry(ledger, k, e, now) \in LedgerFile
  BY <1>1 DEF WriteEntry, PruneLedger, LedgerFile, TypeOK
<1>2. ledger \in LedgerFile /\ now \in Nat
  BY DEF TypeOK
<1>3. ledger[k].attempts \in Nat
  BY <1>2 DEF LedgerFile, Entry, NoEntry
<1>4. [state |-> "claimed", claimedAt |-> now, attempts |-> ledger[k].attempts + 1] \in Entry
  BY <1>2, <1>3 DEF Entry, EntryState
<1>5. ASSUME Present(ledger, k), NEW s \in EntryState
      PROVE  [ledger[k] EXCEPT !.state = s] \in Entry
  BY <1>2, <1>5 DEF Present, LedgerFile, Entry
<1>6. {"sending", "accepted"} \subseteq EntryState
  BY DEF EntryState
<1>7. ASSUME NEW s \in EntryState
      PROVE  MarkLedger(ledger, k, s, now) \in LedgerFile
  BY <1>1, <1>2, <1>5 DEF MarkLedger
<1> QED
  BY <1>1, <1>2, <1>4, <1>6, <1>7
  DEF ClaimLedgerEntry, MarkLedgerSending, MarkLedgerAccepted, DeleteLedgerEntry

-----------------------------------------------------------------------------
(* Types of what sync() builds. *)

LEMMA RearmedType ==
  ASSUME TypeOK, NEW j \in Jobs
  PROVE  /\ rend[j].on => Rearmed(j) \in Armed
         /\ ~rend[j].on => Rearmed(j) = Absent
<1>1. rend[j] \in Job /\ rend[j].rule \in Rules /\ rend[j].occ \subseteq Instants
      /\ rend[j].runs \in Nat
  BY DEF TypeOK, Job
<1> DEFINE list == Owed(j) \cup Upcoming(rend[j].rule, rend[j].occ, rend[j].runs, now)
<1>2. list \subseteq Instants
  BY <1>1, DueNowType, UpcomingType DEF Owed
<1>3. Forced(j, list) \subseteq Instants
  BY DEF Forced
<1> HIDE DEF list
<1> QED BY <1>1, <1>2, <1>3 DEF Rearmed, Armed, list

LEMMA SettledType ==
  ASSUME TypeOK, NEW j \in Jobs
  PROVE  /\ Settled(j) \in Armed \cup {Absent}
         /\ Recovered(j) # {} => Settled(j) \in Armed
<1>1. CASE Recovered(j) = {}
  BY <1>1, RearmedType DEF Settled
<1>2. CASE Recovered(j) # {}
  <2>1. rend[j].on /\ Recovered(j) \subseteq Instants
    BY <1>2 DEF Recovered
  <2>2. Rearmed(j) \in Armed
    BY <2>1, RearmedType
  <2>3. Cardinality(Recovered(j)) \in Nat
    BY <2>1, InstantsFinite
  <2> DEFINE m    == Rearmed(j)
             runs == m.runs + Cardinality(Recovered(j))
             left == (m.occ \cup m.front) \ Recovered(j)
             list == TopUp(m.rule, left, runs, now) \ m.front
  <2>4. m.rule \in Rules /\ left \subseteq Instants /\ runs \in Nat
    BY <2>2, <2>3 DEF Armed
  <2>5. list \subseteq Instants
    BY <2>4, TopUpType
  <2>6. Settled(j) = [m EXCEPT !.runs = runs, !.occ = list]
    BY <1>2 DEF Settled
  <2> HIDE DEF m, runs, left, list
  <2>7. m \in Armed
    BY <2>2 DEF m
  <2> QED BY <2>4, <2>5, <2>6, <2>7 DEF Armed
<1> QED BY <1>1, <1>2

-----------------------------------------------------------------------------
(* Type correctness. *)

LEMMA IdleAndRunning ==
  ASSUME TypeOK, NEW j \in Jobs
  PROVE  /\ run[j] # Idle <=> run[j] \in Running
         /\ run[j] = Idle <=> run[j].step = "idle"
         /\ run[j] # Idle => Key(j) \in Keys
BY DEF TypeOK, Idle, Running, RunStep, Key, Keys

LEMMA ConcludeType ==
  ASSUME TypeInv, NEW j \in Jobs, run[j] # Idle, NEW runs \in Nat, Conclude(j, runs)
  PROVE  /\ mj' \in [Jobs -> Armed \cup {Absent}]
         /\ \A i \in Jobs : mj'[i].here = mj[i].here
         /\ reports' \in [Jobs -> Seq(Report)]
<1> DEFINE occ == TopUp(run[j].rule, run[j].left, runs, now)
<1>1. run[j] \in Running
  BY IdleAndRunning DEF TypeInv
<1>2. run[j].rule \in Rules /\ run[j].left \subseteq Instants
  BY <1>1 DEF Running
<1>3. occ \subseteq Instants
  BY <1>2, TopUpType
<1>4. /\ mj' = IF run[j].attached
                  THEN [mj EXCEPT ![j].occ = occ, ![j].front = {}, ![j].runs = runs]
                  ELSE mj
      /\ reports' = [reports EXCEPT ![j] = Append(@, [occ |-> occ, runs |-> runs])]
  BY DEF Conclude
<1> HIDE DEF occ
<1>5. mj \in [Jobs -> Armed \cup {Absent}] /\ reports \in [Jobs -> Seq(Report)]
  BY DEF TypeInv, TypeOK
<1>6. run[j].attached => mj[j] \in Armed
  BY <1>5 DEF TypeInv, AttachedIsArmed, Absent
<1>7. [occ |-> occ, runs |-> runs] \in Report
  BY <1>3 DEF Report
<1>8. reports' \in [Jobs -> Seq(Report)]
  BY <1>4, <1>5, <1>7
<1>9. /\ mj' \in [Jobs -> Armed \cup {Absent}]
      /\ \A i \in Jobs : mj'[i].here = mj[i].here
  BY <1>3, <1>4, <1>5, <1>6 DEF Armed
<1> QED BY <1>8, <1>9

LEMMA TypeInit == Init => TypeInv
<1> SUFFICES ASSUME Init PROVE TypeInv
  OBVIOUS
<1>1. PICK rule \in [Jobs -> Rules] :
        disk = [j \in Jobs |-> [on |-> TRUE, rule |-> rule[j], runs |-> 0,
                                occ |-> FreshOccurrences(rule[j], 0)]]
  BY DEF Init
<1>2. \A j \in Jobs : FreshOccurrences(rule[j], 0) \subseteq Instants
  BY ComputedType, ShapeType DEF FreshOccurrences
<1>3. disk \in [Jobs -> Job] /\ rend = disk
  BY <1>1, <1>2 DEF Job, Init
<1>4. reports \in [Jobs -> Seq(Report)] /\ mj \in [Jobs -> Armed \cup {Absent}]
      /\ run \in [Jobs -> Running \cup {Idle}]
  BY DEF Init, NoReports, NoJobs, NoRuns
<1>5. ledger \in LedgerFile /\ {sent, completed} \subseteq [Keys -> Nat]
  BY DEF Init, LedgerFile, EmptyLedger
<1>6. TypeOK
  <2>1. /\ now \in Nat /\ phase \in {"down", "booting", "up"}
        /\ {crashes, faults, edits} \subseteq Nat
    BY DEF Init
  <2>3. {open, dirty} \subseteq BOOLEAN
    BY Zenon DEF Init
  <2>2. \A s \in {fired, pendingResend, pendingRecovery, pendingDelete, confirmed} :
          s \subseteq Keys
    BY DEF Init
  <2> QED BY <1>3, <1>4, <1>5, <2>1, <2>2, <2>3 DEF TypeOK
<1>7. DownIsEmpty /\ AttachedIsArmed
  BY DEF Init, DownIsEmpty, AttachedIsArmed, NoJobs, NoRuns, Idle, Pending
<1> QED BY <1>6, <1>7 DEF TypeInv

\* Updates of a job's record.
LEMMA JobUpdates ==
  ASSUME NEW occ \in SUBSET Instants
  PROVE  /\ \A job \in Job : [job EXCEPT !.occ = occ] \in Job
         /\ \A f \in [Jobs -> Job], j \in Jobs :
              /\ [f EXCEPT ![j].on = ~@, ![j].occ = occ] \in [Jobs -> Job]
              /\ \A runs \in Nat :
                   [f EXCEPT ![j].occ = occ, ![j].runs = runs] \in [Jobs -> Job]
              /\ \A rule \in Rules :
                   [f EXCEPT ![j].rule = rule, ![j].occ = occ] \in [Jobs -> Job]
<1>1. ASSUME NEW job \in Job PROVE [job EXCEPT !.occ = occ] \in Job
  BY DEF Job
<1>2. ASSUME NEW f \in [Jobs -> Job], NEW j \in Jobs
      PROVE  [f EXCEPT ![j].on = ~@, ![j].occ = occ] \in [Jobs -> Job]
  BY DEF Job
<1>3. ASSUME NEW f \in [Jobs -> Job], NEW j \in Jobs, NEW runs \in Nat
      PROVE  [f EXCEPT ![j].occ = occ, ![j].runs = runs] \in [Jobs -> Job]
  BY DEF Job
<1>4. ASSUME NEW f \in [Jobs -> Job], NEW j \in Jobs, NEW rule \in Rules
      PROVE  [f EXCEPT ![j].rule = rule, ![j].occ = occ] \in [Jobs -> Job]
  BY DEF Job
<1> QED BY <1>1, <1>2, <1>3, <1>4

\* The steps that leave the main process alone.
LEMMA TypeRendererStep ==
  ASSUME TypeInv,
         \/ Advance \/ Launch \/ Hydrate \/ Save
         \/ \E j \in Jobs : JobRan(j) \/ ToggleJob(j) \/ \E rule \in Rules : EditJob(j, rule)
  PROVE  TypeInv'
<1>1. TypeOK /\ rend \in [Jobs -> Job] /\ disk \in [Jobs -> Job]
  BY DEF TypeInv, TypeOK
<1>2. ASSUME TypeOK', UNCHANGED <<phase, mainVars>>
      PROVE  TypeInv'
  BY <1>2 DEF TypeInv, DownIsEmpty, AttachedIsArmed, Pending, mainVars
<1>3. ASSUME Advance \/ Save PROVE TypeInv'
  <2>1. TypeOK'
    BY <1>1, <1>3 DEF Advance, Save, TypeOK, clockVars, lifeVars, rendVars, mainVars,
                      worldVars, boundVars
  <2> QED BY <1>2, <1>3, <2>1 DEF Advance, Save, lifeVars
<1>4. ASSUME Launch PROVE TypeInv'
  BY <1>4 DEF Launch, TypeInv, TypeOK, DownIsEmpty, AttachedIsArmed, Pending,
              clockVars, rendVars, mainVars, worldVars, boundVars
<1>5. ASSUME rend' \in [Jobs -> Job], reports' \in [Jobs -> Seq(Report)],
             {open', dirty'} \subseteq BOOLEAN, edits' \in Nat,
             UNCHANGED <<now, phase, disk, mainVars, ledger, worldVars, crashes, faults>>
      PROVE  TypeInv'
  <2>1. TypeOK'
    BY <1>1, <1>5 DEF TypeOK, mainVars, worldVars
  <2> QED BY <1>2, <1>5, <2>1
<1>6. ASSUME Hydrate PROVE TypeInv'
  <2>1. ASSUME NEW j \in Jobs PROVE [disk[j] EXCEPT !.occ = BootOccurrences(disk[j])] \in Job
    <3>1. disk[j] \in Job /\ disk[j].rule \in Rules
      BY <1>1 DEF Job
    <3>2. BootOccurrences(disk[j]) \in SUBSET Instants
      BY <3>1, RendererListTypes
    <3> QED BY <3>1, <3>2, JobUpdates
  <2>2. rend' \in [Jobs -> Job]
    BY <1>1, <1>6, <2>1 DEF Hydrate
  <2> QED
    BY <1>1, <1>5, <1>6, <2>2
    DEF Hydrate, TypeOK, clockVars, worldVars, boundVars, mainVars
<1>7. ASSUME NEW j \in Jobs, JobRan(j) PROVE TypeInv'
  <2>1. Head(reports[j]) \in Report /\ Tail(reports[j]) \in Seq(Report)
    BY <1>1, <1>7 DEF JobRan, TypeOK
  <2>2. Head(reports[j]).occ \in SUBSET Instants /\ Head(reports[j]).runs \in Nat
    BY <2>1 DEF Report
  <2>3. rend' \in [Jobs -> Job]
    BY <1>1, <1>7, <2>2, JobUpdates DEF JobRan
  <2>4. reports' \in [Jobs -> Seq(Report)]
    BY <1>1, <1>7, <2>1 DEF JobRan, TypeOK
  <2> QED
    BY <1>1, <1>5, <1>7, <2>3, <2>4
    DEF JobRan, TypeOK, clockVars, lifeVars, worldVars, boundVars, mainVars
<1>8. ASSUME NEW j \in Jobs, NEW rule \in Rules, EditJob(j, rule) PROVE TypeInv'
  <2>1. FreshOccurrences(rule, rend[j].runs) \in SUBSET Instants
    BY ComputedType, ShapeType DEF FreshOccurrences
  <2>2. rend' \in [Jobs -> Job]
    BY <1>1, <1>8, <2>1, JobUpdates DEF EditJob
  <2> QED
    BY <1>1, <1>5, <1>8, <2>2
    DEF EditJob, TypeOK, clockVars, lifeVars, worldVars, mainVars
<1>9. ASSUME NEW j \in Jobs, ToggleJob(j) PROVE TypeInv'
  <2>1. rend[j].rule \in Rules
    BY <1>1 DEF Job
  <2>2. FreshOccurrences(rend[j].rule, rend[j].runs) \in SUBSET Instants
    BY <2>1, ComputedType, ShapeType DEF FreshOccurrences
  <2> DEFINE occ == IF rend[j].on THEN {} ELSE FreshOccurrences(rend[j].rule, rend[j].runs)
  <2>3. occ \in SUBSET Instants
    BY <2>2
  <2>4. rend' = [rend EXCEPT ![j].on = ~@, ![j].occ = occ]
    BY <1>9 DEF ToggleJob
  <2> HIDE DEF occ
  <2>5. rend' \in [Jobs -> Job]
    BY <1>1, <2>3, <2>4, JobUpdates
  <2> QED
    BY <1>1, <1>5, <1>9, <2>5
    DEF ToggleJob, TypeOK, clockVars, lifeVars, worldVars, mainVars
<1> QED BY <1>3, <1>4, <1>6, <1>7, <1>8, <1>9

LEMMA HereIsArmed ==
  ASSUME TypeOK, NEW j \in Jobs, mj[j].here
  PROVE  mj[j] \in Armed
BY DEF TypeOK, Absent

\* tick() picks an instant that is due.
LEMMA FireAtIsDue ==
  ASSUME TypeOK, NEW j \in Jobs, Ready(j)
  PROVE  FireAt(j) \in Due(j) /\ FireAt(j) \in Instants /\ FireAt(j) <= now
<1>1. mj[j].occ \cup mj[j].front \subseteq Instants
  BY HereIsArmed DEF Ready, Armed
<1>2. Due(j) \subseteq Instants /\ Due(j) # {} /\ {t \in mj[j].occ : t <= now} \subseteq Due(j)
  BY <1>1 DEF Due, Ready
<1>3. FireAt(j) \in Due(j)
  <2>1. CASE {t \in mj[j].occ : t <= now} # {}
    BY <1>2, <2>1, LatestIsGreatest DEF FireAt
  <2>2. CASE {t \in mj[j].occ : t <= now} = {}
    <3>1. Due(j) \subseteq Nat
      BY <1>2 DEF Instants
    <3> QED BY <1>2, <2>2, <3>1, EarliestIsLeast DEF FireAt
  <2> QED BY <2>1, <2>2
<1> QED BY <1>2, <1>3 DEF Due

\* Updates of a run's record.
LEMMA RunUpdates ==
  ASSUME TypeOK, NEW j \in Jobs, run[j] # Idle
  PROVE  /\ \A s \in RunStep : [run EXCEPT ![j].step = s] \in [Jobs -> Running \cup {Idle}]
         /\ [run EXCEPT ![j] = Idle] \in [Jobs -> Running \cup {Idle}]
         /\ [run EXCEPT ![j].step = "mark", ![j].tries = @ + 1]
               \in [Jobs -> Running \cup {Idle}]
         /\ run[j].copies > 1 =>
              [run EXCEPT ![j].step = "mark", ![j].copies = @ - 1, ![j].tries = 0]
                \in [Jobs -> Running \cup {Idle}]
<1>1. run \in [Jobs -> Running \cup {Idle}] /\ run[j] \in Running /\ "mark" \in RunStep
  BY IdleAndRunning DEF TypeOK, RunStep
<1>2. ASSUME NEW s \in RunStep
      PROVE  [run EXCEPT ![j].step = s] \in [Jobs -> Running \cup {Idle}]
  BY <1>1 DEF Running
<1>3. [run EXCEPT ![j] = Idle] \in [Jobs -> Running \cup {Idle}]
  BY <1>1
<1>4. [run EXCEPT ![j].step = "mark", ![j].tries = @ + 1] \in [Jobs -> Running \cup {Idle}]
  <2>1. ASSUME NEW n \in Nat
        PROVE  [run EXCEPT ![j].step = "mark", ![j].tries = n] \in [Jobs -> Running \cup {Idle}]
    BY <1>1 DEF Running
  <2>2. run[j].tries + 1 \in Nat
    BY <1>1 DEF Running
  <2> QED BY <2>1, <2>2
<1>5. ASSUME run[j].copies > 1
      PROVE  [run EXCEPT ![j].step = "mark", ![j].copies = @ - 1, ![j].tries = 0]
               \in [Jobs -> Running \cup {Idle}]
  <2>1. ASSUME NEW n \in Nat
        PROVE  [run EXCEPT ![j].step = "mark", ![j].copies = n, ![j].tries = 0]
                 \in [Jobs -> Running \cup {Idle}]
    BY <1>1 DEF Running
  <2>2. run[j].copies - 1 \in Nat
    BY <1>1, <1>5 DEF Running
  <2> QED BY <2>1, <2>2
<1> QED BY <1>2, <1>3, <1>4, <1>5

\* The steps of start(), sync() and tick(), and the end of the process.
LEMMA TypeMainStep ==
  ASSUME TypeInv,
         \/ Restore \/ Crash \/ Sync \/ Tick
         \/ \E k \in Keys : WriteQueuedDelete(k)
  PROVE  TypeInv'
<1>1. TypeOK
  BY DEF TypeInv
<1>2. CASE Restore
  <2>1. TypeOK'
    BY <1>1, <1>2 DEF Restore, TypeOK, ToResend, ToComplete, clockVars, rendVars,
                      worldVars, boundVars
  <2> QED BY <1>2, <2>1 DEF Restore, TypeInv, DownIsEmpty, AttachedIsArmed
<1>3. CASE Crash
  <2>1. /\ mj' \in [Jobs -> Armed \cup {Absent}] /\ run' \in [Jobs -> Running \cup {Idle}]
        /\ reports' \in [Jobs -> Seq(Report)]
    BY <1>3 DEF Crash, NoJobs, NoRuns, NoReports
  <2>2. TypeOK'
    <3>1. UNCHANGED <<now, disk, ledger, sent, confirmed, completed, faults, edits>>
      BY <1>3 DEF Crash, clockVars, worldVars
    <3>2. /\ phase' = "down" /\ open' = FALSE /\ dirty' = FALSE
          /\ rend' = disk /\ crashes' = crashes + 1
          /\ {fired', pendingResend', pendingRecovery', pendingDelete'} = {{}}
      BY <1>3 DEF Crash
    <3>3. {open', dirty'} \subseteq BOOLEAN
      BY <3>2, Zenon
    <3>4. \A s \in {fired', pendingResend', pendingRecovery', pendingDelete', confirmed'} :
            s \subseteq Keys
      BY <1>1, <3>1, <3>2 DEF TypeOK
    <3> QED BY <1>1, <2>1, <3>1, <3>2, <3>3, <3>4 DEF TypeOK
  <2> QED
    BY <1>3, <2>2 DEF Crash, TypeInv, DownIsEmpty, AttachedIsArmed, Pending, NoRuns, Idle
<1>4. CASE Sync
  <2>1. mj' \in [Jobs -> Armed \cup {Absent}]
    BY <1>1, <1>4, SettledType DEF Sync
  <2>2. ASSUME NEW j \in Jobs, Recovered(j) # {}
        PROVE  [occ |-> Settled(j).occ \cup Settled(j).front, runs |-> Settled(j).runs] \in Report
    BY <1>1, <2>2, SettledType DEF Report, Armed
  <2>3. reports' \in [Jobs -> Seq(Report)]
    <3>1. ASSUME NEW j \in Jobs PROVE reports'[j] \in Seq(Report)
      <4>1. reports[j] \in Seq(Report)
        BY <1>1 DEF TypeOK
      <4> QED BY <1>4, <2>2, <4>1 DEF Sync
    <3> QED BY <1>4, <3>1 DEF Sync
  <2>4. ASSUME NEW j \in Jobs PROVE run'[j] \in Running \cup {Idle} /\ ~run'[j].attached
    <3>1. run'[j] = IF run[j] = Idle THEN Idle ELSE [run[j] EXCEPT !.attached = FALSE]
      BY <1>4 DEF Sync
    <3>2. run[j] \in Running \cup {Idle}
      BY <1>1 DEF TypeOK
    <3>3. run[j] \in Running => /\ [run[j] EXCEPT !.attached = FALSE] \in Running
                               /\ ~[run[j] EXCEPT !.attached = FALSE].attached
      BY DEF Running
    <3>4. ~Idle.attached
      BY DEF Idle
    <3> QED BY <3>1, <3>2, <3>3, <3>4
  <2>5. run' \in [Jobs -> Running \cup {Idle}]
    BY <1>4, <2>4 DEF Sync
  <2>6. completed' \in [Keys -> Nat]
    BY <1>1, <1>4 DEF Sync, TypeOK, AtLeast
  <2>7. \A s \in {fired', pendingResend', pendingRecovery', pendingDelete', confirmed'} :
          s \subseteq Keys
    BY <1>1, <1>4 DEF Sync, TypeOK
  <2>8. /\ UNCHANGED <<now, phase, open, disk, rend, ledger, sent, crashes, faults, edits>>
        /\ dirty' = FALSE
    BY <1>4 DEF Sync, clockVars, lifeVars, boundVars
  <2>9. TypeOK'
    BY <1>1, <2>1, <2>3, <2>5, <2>6, <2>7, <2>8 DEF TypeOK
  <2> QED
    BY <1>4, <2>4, <2>9 DEF Sync, TypeInv, DownIsEmpty, AttachedIsArmed, lifeVars
<1>5. CASE Tick
  <2>1. ASSUME NEW j \in Jobs
        PROVE  /\ mj'[j] \in Armed \cup {Absent} /\ run'[j] \in Running \cup {Idle}
               /\ run'[j].attached => mj'[j].here
    <3>1. CASE Fires(j)
      <4>1. FireAt(j) \in Instants /\ mj[j] \in Armed
        BY <1>1, <3>1, FireAtIsDue DEF Fires, Ready, TypeOK, Absent
      <4>2. mj'[j] = mj[j]
        BY <1>5, <3>1 DEF Tick, Fires
      <4>3. run'[j] = [step |-> "claim", at |-> FireAt(j),
                      left |-> StillFuture(mj[j].occ, now), rule |-> mj[j].rule,
                      runs |-> mj[j].runs, attached |-> TRUE, tries |-> 0, copies |-> Copies]
        BY <1>5, <3>1 DEF Tick
      <4>4. run'[j] \in Running
        <5>1. /\ StillFuture(mj[j].occ, now) \in SUBSET Instants
              /\ mj[j].rule \in Rules /\ mj[j].runs \in Nat
          BY <4>1 DEF Armed, StillFuture
        <5>2. "claim" \in RunStep /\ Copies \in Nat
          BY SchedulerAssumption DEF RunStep
        <5> QED BY <4>1, <4>3, <5>1, <5>2 DEF Running
      <4> QED BY <3>1, <4>1, <4>2, <4>4 DEF Fires, Ready
    <3>2. CASE ~Fires(j)
      <4>1. run'[j] = run[j] /\ run'[j] \in Running \cup {Idle}
        BY <1>1, <1>5, <3>2 DEF Tick, TypeOK
      <4>2. CASE Ready(j) /\ Skips(j)
        <5>1. mj'[j] = [mj[j] EXCEPT !.occ = StillFuture(mj[j].occ, now), !.front = {}]
          BY <1>5, <4>2 DEF Tick
        <5>2. mj[j] \in Armed
          BY <1>1, <4>2 DEF Ready, TypeOK, Absent
        <5>3. StillFuture(mj[j].occ, now) \in SUBSET Instants
          BY <5>2 DEF Armed, StillFuture
        <5>4. mj'[j] \in Armed /\ mj'[j].here = mj[j].here
          BY <5>1, <5>2, <5>3 DEF Armed
        <5> QED BY <4>1, <5>4 DEF TypeInv, AttachedIsArmed
      <4>3. CASE ~(Ready(j) /\ Skips(j))
        BY <1>1, <1>5, <4>1, <4>3 DEF Tick, TypeOK, TypeInv, AttachedIsArmed
      <4> QED BY <4>2, <4>3
    <3> QED BY <3>1, <3>2
  <2>2. mj' \in [Jobs -> Armed \cup {Absent}] /\ run' \in [Jobs -> Running \cup {Idle}]
    <3>1. mj' = [j \in Jobs |-> mj'[j]] /\ run' = [j \in Jobs |-> run'[j]]
      BY <1>5 DEF Tick
    <3> QED BY <2>1, <3>1
  <2>3. fired' \subseteq Keys
    <3>1. \A j \in Jobs : Fires(j) => <<j, FireAt(j)>> \in Keys
      BY <1>1, FireAtIsDue DEF Keys, Fires
    <3>2. fired' = fired \cup {<<j, FireAt(j)>> : j \in {i \in Jobs : Fires(i)}}
      BY <1>5 DEF Tick
    <3> QED BY <1>1, <3>1, <3>2 DEF TypeOK
  <2>4. TypeOK'
    BY <1>1, <1>5, <2>2, <2>3 DEF Tick, TypeOK, clockVars, lifeVars, rendVars,
                                  worldVars, boundVars
  <2>5. AttachedIsArmed'
    BY <2>1 DEF AttachedIsArmed
  <2>6. phase' = "up"
    BY <1>5 DEF Tick, lifeVars
  <2> QED BY <2>4, <2>5, <2>6 DEF TypeInv, DownIsEmpty
<1>6. ASSUME NEW k \in Keys, WriteQueuedDelete(k) PROVE TypeInv'
  <2>1. ledger' \in LedgerFile /\ faults' \in Nat /\ pendingDelete' \subseteq Keys
    BY <1>1, <1>6, LedgerTypes DEF WriteQueuedDelete, TypeOK
  <2>2. TypeOK'
    BY <1>1, <1>6, <2>1 DEF WriteQueuedDelete, TypeOK, clockVars, lifeVars, rendVars, worldVars
  <2> QED
    BY <1>6, <2>2
    DEF WriteQueuedDelete, TypeInv, DownIsEmpty, AttachedIsArmed, Pending, lifeVars
<1> QED BY <1>2, <1>3, <1>4, <1>5, <1>6

\* What every step of a run has in common.
LEMMA RunStepShape ==
  ASSUME TypeInv, NEW j \in Jobs, RunNext(j)
  PROVE  /\ run[j] # Idle /\ run[j] \in Running /\ phase = "up"
         /\ Key(j) \in Keys
         /\ UNCHANGED <<now, phase, open, disk, rend, dirty, fired, pendingResend,
                        pendingRecovery, pendingDelete, crashes, edits>>
<1>1. run[j].step \in RunStep
  BY DEF RunNext, Claim, DecideSkip, DecideSend, SecretUnreadable, MarkSending,
         SmtpAccepts, SmtpFails, MarkAccepted, CompleteRun, Finish, RunStep
<1>2. run[j] # Idle
  BY <1>1 DEF Idle, RunStep
<1>3. phase = "up"
  BY <1>2 DEF TypeInv, DownIsEmpty, NoRuns
<1>4. UNCHANGED <<now, phase, open, disk, rend, dirty, fired, pendingResend,
                  pendingRecovery, pendingDelete, crashes, edits>>
  BY DEF RunNext, Claim, DecideSkip, DecideSend, SecretUnreadable, MarkSending,
         SmtpAccepts, SmtpFails, MarkAccepted, CompleteRun, Finish, clockVars, lifeVars, rendVars, boundVars
<1> QED BY <1>2, <1>3, <1>4, IdleAndRunning DEF TypeInv

LEMMA NextCopyType ==
  ASSUME TypeInv, NEW j \in Jobs, run[j] # Idle, NextCopy(j)
  PROVE  run' \in [Jobs -> Running \cup {Idle}]
<1>1. TypeOK /\ "complete" \in RunStep
  BY DEF TypeInv, RunStep
<1>2. CASE run[j].copies > 1
  <2>1. [run EXCEPT ![j].step = "mark", ![j].copies = @ - 1, ![j].tries = 0]
          \in [Jobs -> Running \cup {Idle}]
    BY <1>1, <1>2, RunUpdates
  <2>2. run' = [run EXCEPT ![j].step = "mark", ![j].copies = @ - 1, ![j].tries = 0]
    BY <1>2 DEF NextCopy
  <2> QED BY <2>1, <2>2
<1>3. CASE ~(run[j].copies > 1)
  <2>1. run' = [run EXCEPT ![j].step = "complete"]
    BY <1>3 DEF NextCopy, Goto
  <2> QED BY <1>1, <2>1, RunUpdates
<1> QED BY <1>2, <1>3

\* A step of a run changes no other run, and of its own only the counters
\* and the place; the last one ends it.
LEMMA RunKeeps ==
  ASSUME TypeInv, NEW j \in Jobs, RunNext(j)
  PROVE  /\ \A i \in Jobs : i # j => run'[i] = run[i]
         /\ \/ (Finish(j) \/ SecretUnreadable(j)) /\ run'[j] = Idle
            \/ /\ run'[j].at = run[j].at /\ run'[j].left = run[j].left
               /\ run'[j].attached <=> run[j].attached
               /\ run'[j].step \in PastClaim
<1>1. run \in [Jobs -> Running \cup {Idle}] /\ run[j] \in Running
  BY RunStepShape DEF TypeInv, TypeOK
<1> DEFINE Kept == /\ \A i \in Jobs : i # j => run'[i] = run[i]
                   /\ run'[j].at = run[j].at /\ run'[j].left = run[j].left
                   /\ run'[j].attached <=> run[j].attached
                   /\ run'[j].step \in PastClaim
<1>2. ASSUME NEW s \in PastClaim, Goto(j, s) PROVE Kept
  BY <1>1, <1>2 DEF Goto, Running
<1>3. ASSUME run' = [run EXCEPT ![j].step = "mark", ![j].tries = @ + 1] PROVE Kept
  BY <1>1, <1>3 DEF Running, PastClaim, RunStep
<1>4. ASSUME run' = [run EXCEPT ![j].step = "mark", ![j].copies = @ - 1, ![j].tries = 0]
      PROVE  Kept
  BY <1>1, <1>4 DEF Running, PastClaim, RunStep
<1>5. {"decide", "mark", "smtp", "accepted", "complete", "finish"} \subseteq PastClaim
  BY DEF PastClaim, RunStep
<1>6. ASSUME NextCopy(j) PROVE Kept
  BY <1>2, <1>4, <1>5, <1>6 DEF NextCopy
<1> HIDE DEF Kept
<1>7. CASE Claim(j) \/ DecideSkip(j) \/ DecideSend(j) \/ MarkSending(j)
           \/ SmtpAccepts(j) \/ CompleteRun(j)
  <2>1. Kept
    BY <1>2, <1>5, <1>7
    DEF Claim, DecideSkip, DecideSend, MarkSending, SmtpAccepts, CompleteRun
  <2> QED BY <2>1 DEF Kept
<1>8. CASE SmtpFails(j) \/ MarkAccepted(j)
  <2>1. Kept
    BY <1>3, <1>6, <1>8 DEF SmtpFails, MarkAccepted
  <2> QED BY <2>1 DEF Kept
<1>9. CASE Finish(j) \/ SecretUnreadable(j)
  BY <1>1, <1>9 DEF Finish, SecretUnreadable
<1> QED BY <1>7, <1>8, <1>9 DEF RunNext

LEMMA TypeRunStep ==
  ASSUME TypeInv, NEW j \in Jobs, RunNext(j)
  PROVE  TypeInv'
<1> USE RunStepShape
<1>1. TypeOK /\ run[j] # Idle /\ Key(j) \in Keys /\ phase' = "up"
  BY DEF TypeInv
<1>2. ASSUME NEW file \in LedgerFile, BestEffort(file)
      PROVE  ledger' \in LedgerFile /\ faults' \in Nat
  BY <1>1, <1>2 DEF BestEffort, TypeOK
<1>3. run' \in [Jobs -> Running \cup {Idle}]
  <2>1. ASSUME NEW s \in RunStep, Goto(j, s) PROVE run' \in [Jobs -> Running \cup {Idle}]
    BY <1>1, <2>1, RunUpdates DEF Goto
  <2>2. {"decide", "mark", "smtp", "accepted", "complete", "finish"} \subseteq RunStep
    BY DEF RunStep
  <2>3. CASE Claim(j) \/ DecideSkip(j) \/ DecideSend(j) \/ MarkSending(j)
             \/ SmtpAccepts(j) \/ CompleteRun(j)
    BY <2>1, <2>2, <2>3
    DEF Claim, DecideSkip, DecideSend, MarkSending, SmtpAccepts, CompleteRun
  <2>4. CASE SmtpFails(j)
    BY <1>1, <2>4, RunUpdates, NextCopyType DEF SmtpFails
  <2>5. CASE MarkAccepted(j)
    BY <1>1, <2>5, NextCopyType DEF MarkAccepted
  <2>6. CASE Finish(j) \/ SecretUnreadable(j)
    <3>1. run' = [run EXCEPT ![j] = Idle]
      BY <2>6 DEF Finish, SecretUnreadable
    <3>2. run \in [Jobs -> Running \cup {Idle}]
      BY <1>1 DEF TypeOK
    <3> QED BY <3>1, <3>2
  <2> QED BY <2>3, <2>4, <2>5, <2>6 DEF RunNext
<1>4. ledger' \in LedgerFile /\ faults' \in Nat
  <2>1. CASE Claim(j) \/ MarkSending(j) \/ MarkAccepted(j) \/ Finish(j)
    BY <1>1, <1>2, <2>1, LedgerTypes DEF Claim, MarkSending, MarkAccepted, Finish
  <2>2. CASE DecideSkip(j) \/ DecideSend(j) \/ SmtpAccepts(j) \/ SmtpFails(j) \/ CompleteRun(j)
    BY <1>1, <2>2 DEF DecideSkip, DecideSend, SmtpAccepts, SmtpFails, CompleteRun,
                      boundVars, TypeOK
  <2>3. CASE SecretUnreadable(j)
    BY <1>1, <2>3 DEF SecretUnreadable, TypeOK
  <2> QED BY <2>1, <2>2, <2>3 DEF RunNext
<1>5. /\ mj' \in [Jobs -> Armed \cup {Absent}] /\ reports' \in [Jobs -> Seq(Report)]
      /\ \A i \in Jobs : mj'[i].here <=> mj[i].here
  <2>1. CASE DecideSkip(j)
    <3>1. run[j].runs \in Nat /\ Conclude(j, run[j].runs)
      BY <2>1 DEF DecideSkip, Running
    <3> QED BY <1>1, <3>1, ConcludeType
  <2>2. CASE CompleteRun(j)
    <3>1. run[j].runs + 1 \in Nat /\ Conclude(j, run[j].runs + 1)
      BY <2>2 DEF CompleteRun, Running
    <3> QED BY <1>1, <3>1, ConcludeType
  <2>3. CASE ~(DecideSkip(j) \/ CompleteRun(j))
    <3>1. mj' = mj /\ reports' = reports
      BY <2>3 DEF RunNext, Claim, DecideSend, SecretUnreadable, MarkSending, SmtpAccepts, SmtpFails,
                  MarkAccepted, Finish, rendVars
    <3> QED BY <1>1, <3>1 DEF TypeOK
  <2> QED BY <2>1, <2>2, <2>3
<1>6. /\ sent' \in [Keys -> Nat] /\ completed' \in [Keys -> Nat] /\ confirmed' \subseteq Keys
  <2>1. CASE SmtpAccepts(j) \/ SmtpFails(j) \/ CompleteRun(j)
    <3>1. sent \in [Keys -> Nat] /\ completed \in [Keys -> Nat] /\ confirmed \subseteq Keys
      BY <1>1 DEF TypeOK
    <3>2. /\ sent' = sent \/ sent' = [sent EXCEPT ![Key(j)] = @ + 1]
          /\ completed' = completed \/ completed' = [completed EXCEPT ![Key(j)] = @ + 1]
          /\ confirmed' = confirmed
      BY <2>1 DEF SmtpAccepts, SmtpFails, CompleteRun
    <3> QED BY <1>1, <3>1, <3>2
  <2>2. CASE MarkAccepted(j)
    BY <1>1, <2>2 DEF MarkAccepted, TypeOK
  <2>3. CASE Claim(j) \/ DecideSkip(j) \/ DecideSend(j) \/ SecretUnreadable(j)
             \/ MarkSending(j) \/ Finish(j)
    BY <1>1, <2>3 DEF Claim, DecideSkip, DecideSend, SecretUnreadable, MarkSending, Finish,
                      worldVars, TypeOK
  <2> QED BY <2>1, <2>2, <2>3 DEF RunNext
<1>7. TypeOK'
  BY <1>1, <1>3, <1>4, <1>5, <1>6 DEF TypeOK
<1>8. ASSUME NEW i \in Jobs, run'[i].attached PROVE mj[i].here
  <2>1. run'[i].attached => run[i].attached
    BY RunKeeps DEF Idle
  <2> QED BY <1>8, <2>1 DEF TypeInv, AttachedIsArmed
<1> QED BY <1>1, <1>5, <1>7, <1>8 DEF TypeInv, DownIsEmpty, AttachedIsArmed

LEMMA TypeStutter == TypeInv /\ UNCHANGED vars => TypeInv'
BY DEF TypeInv, TypeOK, DownIsEmpty, AttachedIsArmed, Pending, vars, clockVars, lifeVars,
       rendVars, mainVars, worldVars, boundVars

LEMMA TypeStep == TypeInv /\ [Next]_vars => TypeInv'
BY TypeRendererStep, TypeMainStep, TypeRunStep, TypeStutter DEF Next

\* The types, that a stopped process holds nothing, and that a run attached
\* to the working set finds its job there, in every reachable state.
THEOREM TypeInvariance == Spec => []TypeInv
BY TypeInit, TypeStep, PTL DEF Spec

\* Every variable keeps its shape, for all jobs, rules and bounds: in
\* particular the lists sync() and the runs rebuild stay lists of instants.
THEOREM TypeCorrect == Spec => []TypeOK
<1>1. TypeInv => TypeOK
  BY DEF TypeInv
<1> QED BY <1>1, TypeInvariance, PTL

-----------------------------------------------------------------------------
(* The invariant of one job, and with it the types. *)


JobInv(j) == /\ PastIsPast(j) /\ OneOnFile(j) /\ RecoveryFirst(j)
             /\ FiredNotArmed(j) /\ AcceptedIsFired(j) /\ EntryOfRun(j)

SafeInv == TypeInv /\ LedgerInv

-----------------------------------------------------------------------------
(* What the ledger operations do to one entry. *)

\* Only the written entry changes; any other is kept, or dropped for its age.
LEMMA WriteEntryEffect ==
  ASSUME ledger \in LedgerFile, now \in Nat, NEW k \in Keys,
         NEW e \in Entry \cup {NoEntry}, NEW i \in Keys
  PROVE  LET file == WriteEntry(ledger, k, e, now)
         IN  /\ i # k => file[i] \in {ledger[i], NoEntry}
             /\ i = k => file[i] \in {e, NoEntry}
             /\ (i # k /\ ledger[i].claimedAt + PruneAge >= now) => file[i] = ledger[i]
             /\ (i = k /\ e.claimedAt + PruneAge >= now) => file[i] = e
<1>1. PruneAge \in Nat /\ ledger[i].claimedAt \in Nat /\ e.claimedAt \in Nat
  BY LedgerAssumption DEF LedgerFile, Entry, NoEntry
<1>2. WriteEntry(ledger, k, e, now)[i] =
        LET f == [ledger EXCEPT ![k] = e]
        IN  IF f[i] # NoEntry /\ f[i].claimedAt < now - PruneAge THEN NoEntry ELSE f[i]
  BY DEF WriteEntry, PruneLedger, Present
<1>3. [ledger EXCEPT ![k] = e][i] = IF i = k THEN e ELSE ledger[i]
  BY DEF LedgerFile
<1> QED BY <1>1, <1>2, <1>3

\* The entry a claim writes.
LEMMA ClaimEffect ==
  ASSUME TypeOK, NEW k \in Keys, NEW i \in Keys
  PROVE  LET file == ClaimLedgerEntry(ledger, k, now)
         IN  /\ i # k => file[i] \in {ledger[i], NoEntry}
             /\ (i # k /\ ledger[i].claimedAt + PruneAge >= now) => file[i] = ledger[i]
             /\ file[k].state # "accepted"
             /\ Present(file, k) /\ file[k].claimedAt = now
<1> DEFINE e == [state |-> "claimed", claimedAt |-> now, attempts |-> ledger[k].attempts + 1]
<1>1. ledger \in LedgerFile /\ now \in Nat /\ PruneAge \in Nat
  BY LedgerAssumption DEF TypeOK
<1>2. e \in Entry /\ e # NoEntry /\ e.claimedAt = now /\ e.state = "claimed"
  <2>1. ledger[k].attempts \in Nat
    BY <1>1 DEF LedgerFile, Entry, NoEntry
  <2> QED BY <1>1, <2>1 DEF Entry, EntryState, NoEntry
<1>3. ClaimLedgerEntry(ledger, k, now) = WriteEntry(ledger, k, e, now)
  BY DEF ClaimLedgerEntry
<1> HIDE DEF e
<1>4. ClaimLedgerEntry(ledger, k, now)[k] = e
  BY <1>1, <1>2, <1>3, WriteEntryEffect
<1>5. /\ i # k => ClaimLedgerEntry(ledger, k, now)[i] \in {ledger[i], NoEntry}
      /\ (i # k /\ ledger[i].claimedAt + PruneAge >= now)
           => ClaimLedgerEntry(ledger, k, now)[i] = ledger[i]
  BY <1>1, <1>2, <1>3, WriteEntryEffect
<1> QED BY <1>2, <1>4, <1>5 DEF Present

\* A mark changes the state of an entry on file and nothing else.
LEMMA MarkEffect ==
  ASSUME TypeOK, NEW k \in Keys, NEW s \in EntryState, NEW i \in Keys
  PROVE  LET file == MarkLedger(ledger, k, s, now)
         IN  /\ i # k => file[i] \in {ledger[i], NoEntry}
             /\ (i # k /\ ledger[i].claimedAt + PruneAge >= now) => file[i] = ledger[i]
             /\ file[k] \in {NoEntry, [ledger[k] EXCEPT !.state = s]}
             /\ Present(file, k) => Present(ledger, k) /\ file[k].state = s
             /\ (Present(ledger, k) /\ ledger[k].claimedAt + PruneAge >= now) =>
                  /\ Present(file, k) /\ file[k].state = s
                  /\ file[k].claimedAt = ledger[k].claimedAt
<1> DEFINE e == [ledger[k] EXCEPT !.state = s]
<1>1. ledger \in LedgerFile /\ now \in Nat
  BY DEF TypeOK
<1>2. CASE ~Present(ledger, k)
  BY <1>1, <1>2 DEF MarkLedger, Present
<1>3. CASE Present(ledger, k)
  <2>1. e \in Entry /\ e.state = s /\ e.claimedAt = ledger[k].claimedAt /\ e # NoEntry
    BY <1>1, <1>3 DEF Present, LedgerFile, Entry, EntryState, NoEntry
  <2>2. MarkLedger(ledger, k, s, now) = WriteEntry(ledger, k, e, now)
    BY <1>3 DEF MarkLedger
  <2> HIDE DEF e
  <2>3. /\ MarkLedger(ledger, k, s, now)[k] \in {NoEntry, e}
        /\ e.claimedAt + PruneAge >= now => MarkLedger(ledger, k, s, now)[k] = e
    BY <1>1, <2>1, <2>2, WriteEntryEffect
  <2>4. /\ i # k => MarkLedger(ledger, k, s, now)[i] \in {ledger[i], NoEntry}
        /\ (i # k /\ ledger[i].claimedAt + PruneAge >= now)
             => MarkLedger(ledger, k, s, now)[i] = ledger[i]
    BY <1>1, <2>1, <2>2, WriteEntryEffect
  <2> QED BY <1>3, <2>1, <2>3, <2>4 DEF Present, e
<1> QED BY <1>2, <1>3

\* A deletion leaves no entry.
LEMMA DeleteEffect ==
  ASSUME TypeOK, NEW k \in Keys, NEW i \in Keys
  PROVE  LET file == DeleteLedgerEntry(ledger, k, now)
         IN  /\ i # k => file[i] \in {ledger[i], NoEntry}
             /\ (i # k /\ ledger[i].claimedAt + PruneAge >= now) => file[i] = ledger[i]
             /\ file[k] = NoEntry
<1>1. ledger \in LedgerFile /\ now \in Nat
  BY DEF TypeOK
<1>2. CASE ~Present(ledger, k)
  BY <1>1, <1>2 DEF DeleteLedgerEntry, Present
<1>3. CASE Present(ledger, k)
  <2>1. DeleteLedgerEntry(ledger, k, now) = WriteEntry(ledger, k, NoEntry, now)
    BY <1>3 DEF DeleteLedgerEntry
  <2> QED BY <1>1, <2>1, WriteEntryEffect
<1> QED BY <1>2, <1>3

-----------------------------------------------------------------------------
(* The parts of the invariant under each kind of step. *)

LEMMA SafeInit == Init => SafeInv
<1> SUFFICES ASSUME Init PROVE LedgerInv
  BY TypeInit DEF SafeInv
<1>1. /\ phase = "down" /\ fired = {} /\ Pending = {} /\ pendingDelete = {}
      /\ mj = NoJobs /\ run = NoRuns /\ ledger = EmptyLedger
      /\ pendingResend = {}
  BY DEF Init, Pending
<1>2. ASSUME NEW j \in Jobs
      PROVE  /\ run[j] = Idle /\ ~mj[j].here /\ OnFile(j) = {}
             /\ Of(fired, j) = {} /\ Of(Pending, j) = {} /\ Of(pendingResend, j) = {}
  BY <1>1 DEF NoRuns, NoJobs, Absent, OnFile, Present, EmptyLedger, Keys, Of
<1>3. ASSUME NEW j \in Jobs PROVE JobInv(j)
  <2>1. run[j].step = "idle" /\ phase # "up"
    BY <1>1, <1>2 DEF Idle
  <2> QED
    BY <1>2, <2>1 DEF JobInv, PastIsPast, OneOnFile, RecoveryFirst, FiredNotArmed,
                      AcceptedIsFired, EntryOfRun, PastClaim, RunStep
<1> QED BY <1>3 DEF LedgerInv, JobInv

\* Nothing the invariant speaks of changes but the clock, which only advances.
LEMMA SafeQuietStep ==
  ASSUME TypeInv, NEW j \in Jobs, JobInv(j),
         UNCHANGED <<mainVars, ledger>>, now' \in Nat, now' >= now,
         phase' = "up" <=> phase = "up"
  PROVE  JobInv(j)'
<1>1. /\ UNCHANGED <<mj, run, fired, pendingResend, pendingRecovery, pendingDelete, ledger>>
      /\ Pending' = Pending /\ OnFile(j)' = OnFile(j) /\ Key(j)' = Key(j)
  BY DEF mainVars, Pending, OnFile, Present, Key
<1>2. Of(fired, j)' = Of(fired, j) /\ Of(Pending, j)' = Of(Pending, j)
      /\ Of(pendingResend, j)' = Of(pendingResend, j)
      /\ Of(pendingDelete, j)' = Of(pendingDelete, j)
  BY <1>1 DEF Of
<1>3. PastIsPast(j)'
  <2>1. now \in Nat /\ Of(fired, j) \cup OnFile(j) \subseteq Nat
    BY DEF TypeInv, TypeOK, Of, OnFile, Instants
  <2> QED BY <1>1, <1>2, <2>1 DEF JobInv, PastIsPast
<1>4. OneOnFile(j)' /\ RecoveryFirst(j)' /\ FiredNotArmed(j)' /\ AcceptedIsFired(j)'
  BY <1>1, <1>2 DEF JobInv, OneOnFile, RecoveryFirst, FiredNotArmed, AcceptedIsFired
<1>5. EntryOfRun(j)'
  <2>1. run[j].step \in PastClaim => run[j].at \in Nat
    BY DEF TypeInv, TypeOK, Running, Idle, Instants
  <2> QED
    BY <1>1, <2>1, LedgerAssumption DEF JobInv, EntryOfRun, Present, TypeInv, TypeOK
<1> QED BY <1>3, <1>4, <1>5 DEF JobInv

LEMMA SafeRestore ==
  ASSUME TypeInv, NEW j \in Jobs, JobInv(j), Restore
  PROVE  JobInv(j)'
<1>1. /\ phase = "booting" /\ phase' = "up"
      /\ pendingResend' = ToResend(ledger) /\ pendingRecovery' = ToComplete(ledger)
      /\ fired' = fired \cup ToComplete(ledger)
      /\ UNCHANGED <<now, mj, run, pendingDelete, ledger>>
  BY DEF Restore, clockVars
<1>2. /\ mj = NoJobs /\ run = NoRuns /\ fired = {} /\ pendingDelete = {}
  BY <1>1 DEF TypeInv, DownIsEmpty
<1>3. run[j] = Idle /\ ~mj[j].here /\ mj[j].occ = {} /\ mj[j].front = {} /\ run[j].step = "idle"
  BY <1>2 DEF NoJobs, NoRuns, Absent, Idle
<1>4. /\ Of(Pending, j)' = OnFile(j)
      /\ Of(fired, j)' = {t \in OnFile(j) : ledger[<<j, t>>].state = "accepted"}
      /\ Of(pendingResend, j)' = {t \in OnFile(j) : ledger[<<j, t>>].state # "accepted"}
      /\ OnFile(j)' = OnFile(j)
  BY <1>1, <1>2 DEF Of, Pending, OnFile, ToResend, ToComplete, Keys, Present
<1>5. PastIsPast(j)' /\ RecoveryFirst(j)'
  <2>1. PastIsPast(j)'
    BY <1>1, <1>3, <1>4 DEF JobInv, PastIsPast
  <2>2. \A t, u \in OnFile(j) : t = u
    BY DEF JobInv, OneOnFile
  <2>3. ~mj'[j].here /\ run'[j] = Idle /\ run'[j].step \notin PastClaim
    BY <1>1, <1>3 DEF PastClaim, RunStep
  <2> HIDE DEF JobInv
  <2>4. RecoveryFirst(j)'
    BY <1>4, <2>2, <2>3 DEF RecoveryFirst
  <2> QED BY <2>1, <2>4
<1>6. OneOnFile(j)'
  <2>1. \A t \in OnFile(j) : <<j, t>> \in Pending'
    BY <1>4 DEF Of
  <2> QED BY <1>4, <2>1 DEF JobInv, OneOnFile
<1>7. FiredNotArmed(j)' /\ EntryOfRun(j)'
  BY <1>1, <1>3 DEF FiredNotArmed, EntryOfRun, PastClaim, RunStep
<1>8. AcceptedIsFired(j)'
  BY <1>1 DEF AcceptedIsFired, ToComplete, Present, Keys, NoEntry
<1> QED BY <1>5, <1>6, <1>7, <1>8 DEF JobInv

LEMMA SafeCrash ==
  ASSUME TypeInv, NEW j \in Jobs, JobInv(j), Crash
  PROVE  JobInv(j)'
<1>1. /\ phase' = "down" /\ mj' = NoJobs /\ run' = NoRuns /\ fired' = {}
      /\ pendingResend' = {} /\ Pending' = {} /\ pendingDelete' = {}
      /\ UNCHANGED <<now, ledger>>
  BY DEF Crash, Pending, clockVars
<1>2. /\ run'[j] = Idle /\ run'[j].step = "idle" /\ ~mj'[j].here
      /\ OnFile(j)' = OnFile(j) /\ Of(fired, j)' = {} /\ Of(Pending, j)' = {}
      /\ Of(pendingResend, j)' = {}
  BY <1>1 DEF NoJobs, NoRuns, Absent, Idle, OnFile, Present, Of
<1> QED
  BY <1>1, <1>2 DEF JobInv, PastIsPast, OneOnFile, RecoveryFirst, FiredNotArmed,
                    AcceptedIsFired, EntryOfRun, PastClaim, RunStep

-----------------------------------------------------------------------------
(* sync(): whatever the renderer hands over, nothing fired comes back. *)

\* Without a recovery the new list is what is owed and not fired, what lies in
\* the future, and the forced resends of a job that has fired nothing.
LEMMA RearmedUnfired ==
  ASSUME TypeInv, NEW j \in Jobs, JobInv(j), rend[j].on
  PROVE  Of(fired, j) \cap (Rearmed(j).occ \cup Rearmed(j).front) = {}
<1> DEFINE later == Upcoming(rend[j].rule, rend[j].occ, rend[j].runs, now)
           list  == Owed(j) \cup later
<1>1. Rearmed(j).occ = list /\ Rearmed(j).front = Forced(j, list)
  BY DEF Rearmed
<1>2. Of(fired, j) \cap Owed(j) = {}
  BY DEF Owed, Of
<1>3. rend[j].rule \in Rules /\ rend[j].occ \subseteq Instants /\ now \in Nat
  BY DEF TypeInv, TypeOK, Job
<1>4. \A t \in later : t \in Instants /\ t > now
  BY <1>3, UpcomingLater, RuleFires
<1>5. \A t \in Of(fired, j) : t <= now /\ t \in Nat
  BY DEF JobInv, PastIsPast, Of, Instants
<1>6. Of(fired, j) \cap later = {}
  BY <1>3, <1>4, <1>5 DEF Instants
<1>7. Of(fired, j) \cap Forced(j, list) = {}
  BY DEF Forced, JobInv, RecoveryFirst, Of
<1> QED BY <1>1, <1>2, <1>6, <1>7

\* After the completion of a recovered occurrence t, topUp() starts from the
\* last instant that is left: an owed one, later than t, or a future one.
LEMMA SettledUnfired ==
  ASSUME TypeInv, NEW j \in Jobs, JobInv(j)
  PROVE  Of(fired, j) \cap (Settled(j).occ \cup Settled(j).front) = {}
<1>1. CASE Recovered(j) = {} /\ rend[j].on
  BY <1>1, RearmedUnfired DEF Settled
<1>2. CASE Recovered(j) = {} /\ ~rend[j].on
  BY <1>2 DEF Settled, Rearmed, Absent
<1>3. CASE Recovered(j) # {}
  <2> DEFINE m    == Rearmed(j)
             runs == m.runs + Cardinality(Recovered(j))
             left == (m.occ \cup m.front) \ Recovered(j)
             list == TopUp(m.rule, left, runs, now)
  <2>1. PICK t \in Instants : <<j, t>> \in pendingRecovery /\ t \in rend[j].occ /\ rend[j].on
    BY <1>3 DEF Recovered
  <2>2. t \in Of(Pending, j)
    BY <2>1 DEF Of, Pending
  <2>3. Of(fired, j) \subseteq {t} /\ \A u \in Of(Pending, j) : u = t
    BY <2>2 DEF JobInv, RecoveryFirst
  <2>4. m \in Armed /\ left \subseteq Instants /\ now \in Nat /\ m.front = Forced(j, m.occ)
    BY <2>1, RearmedType DEF TypeInv, TypeOK, Armed, Rearmed
  <2>5. Settled(j).occ \cup Settled(j).front \subseteq list \cup m.front
    <3>1. Settled(j) = [m EXCEPT !.runs = runs, !.occ = list \ m.front]
      BY <1>3 DEF Settled
    <3> HIDE DEF m, runs, list
    <3> QED BY <2>4, <3>1 DEF Armed, m
  <2>6. CASE Of(fired, j) = {}
    BY <2>6
  <2>7. CASE t \in Of(fired, j)
    <3>1. t <= now /\ t \in Nat
      BY <2>7 DEF JobInv, PastIsPast, Instants
    <3>2. m.front = {}
      BY <2>3, <2>4, <2>7 DEF Forced, Of, Pending, JobInv, RecoveryFirst
    <3>3. t \in Recovered(j)
      BY <2>1 DEF Recovered
    <3>4. ASSUME left # {} PROVE t < Latest(left)
      <4>1. Latest(left) \in left /\ Latest(left) \in Nat /\ \A u \in left : u <= Latest(left)
        BY <2>4, <3>4, LatestIsGreatest DEF Instants
      <4>2. PICK u \in left : TRUE
        BY <3>4
      <4>3. u # t /\ u \in m.occ /\ u \in Nat
        BY <2>4, <3>2, <3>3, <4>2 DEF Instants
      <4>4. t < u
        <5>1. CASE u \in Owed(j)
          <6>1. u \in DueNow(rend[j].rule, rend[j].occ, now)
            BY <5>1 DEF Owed
          <6>2. t <= u
            <7>1. rend[j].occ \subseteq Instants
              BY DEF TypeInv, TypeOK, Job
            <7> QED BY <2>1, <3>1, <6>1, <7>1, DueNowIsLast
          <6> QED BY <3>1, <4>3, <6>2
        <5>2. CASE u \in Upcoming(rend[j].rule, rend[j].occ, rend[j].runs, now)
          <6>1. rend[j].rule \in Rules /\ rend[j].occ \subseteq Instants
            BY DEF TypeInv, TypeOK, Job
          <6>2. u > now
            BY <2>4, <5>2, <6>1, UpcomingLater, RuleFires
          <6> QED BY <2>4, <3>1, <4>3, <6>2
        <5> QED BY <2>1, <4>3, <5>1, <5>2 DEF Rearmed
      <4> QED BY <3>1, <4>1, <4>2, <4>3, <4>4
    <3>5. t \notin list
      <4>1. SUFFICES ASSUME t \in list PROVE FALSE
        OBVIOUS
      <4>2. \/ t \in left
            \/ t > IF left # {} THEN Latest(left) ELSE now
        BY <4>1, TopUpLater
      <4>3. t \notin left
        BY <3>3
      <4>4. left # {} => Latest(left) \in Nat
        BY <2>4, LatestIsGreatest DEF Instants
      <4> QED BY <2>4, <3>1, <3>4, <4>2, <4>3, <4>4
    <3> QED BY <2>3, <2>5, <3>2, <3>5
  <2> QED BY <2>3, <2>6, <2>7
<1> QED BY <1>1, <1>2, <1>3

LEMMA SafeSync ==
  ASSUME TypeInv, NEW j \in Jobs, JobInv(j), Sync
  PROVE  JobInv(j)'
<1> DEFINE gone == IF rend[j].on THEN Of(Pending, j) ELSE {}
<1>1. UNCHANGED <<now, phase, fired, ledger>> /\ phase = "up"
  BY DEF Sync, clockVars, lifeVars
<1>2. /\ mj'[j] = Settled(j)
      /\ run'[j] = IF run[j] = Idle THEN Idle ELSE [run[j] EXCEPT !.attached = FALSE]
  BY DEF Sync
<1>3. /\ run'[j] = Idle <=> run[j] = Idle
      /\ run'[j].step = run[j].step /\ run'[j].at = run[j].at
      /\ run'[j].left = run[j].left
  <2>1. CASE run[j] = Idle
    BY <1>2, <2>1
  <2>2. CASE run[j] # Idle
    <3>1. run[j] \in Running
      BY <2>2, IdleAndRunning DEF TypeInv
    <3>2. run'[j] = [run[j] EXCEPT !.attached = FALSE]
      BY <1>2, <2>2
    <3>3. /\ run'[j].step = run[j].step /\ run'[j].at = run[j].at
          /\ run'[j].left = run[j].left /\ run[j].step \in RunStep
      BY <3>1, <3>2 DEF Running
    <3> QED BY <2>2, <3>3 DEF Idle, RunStep
  <2> QED BY <2>1, <2>2
<1>4. /\ Of(Pending, j)' = Of(Pending, j) \ gone
      /\ Of(pendingResend, j)' = Of(pendingResend, j) \ gone
      /\ Of(pendingDelete, j)' = Of(pendingDelete, j) \cup gone
  <2> DEFINE known == {k \in Keys : rend[k[1]].on}
  <2>1. /\ pendingResend' = pendingResend \ (pendingResend \cap known)
        /\ pendingRecovery' = pendingRecovery \ (pendingRecovery \cap known)
        /\ pendingDelete' = pendingDelete \cup (pendingResend \cap known)
                                           \cup (pendingRecovery \cap known)
    BY DEF Sync
  <2>2. \A t \in Instants : <<j, t>> \in known <=> rend[j].on
    BY DEF Keys
  <2> HIDE DEF known
  <2> QED BY <2>1, <2>2 DEF Of, Pending
<1>5. Of(fired, j)' = Of(fired, j) /\ OnFile(j)' = OnFile(j)
  BY <1>1 DEF Of, OnFile, Present
<1>6. mj'[j].here => rend[j].on
  BY <1>2 DEF Settled, Rearmed, Absent, Recovered
<1>7. run[j] # Idle => Of(Pending, j) = {}
  BY DEF JobInv, RecoveryFirst
<1>8. PastIsPast(j)'
  BY <1>1, <1>3, <1>5 DEF JobInv, PastIsPast, Key
<1>9. OneOnFile(j)'
  <2>1. \A t \in OnFile(j) : \/ t \in Of(Pending, j) \/ t \in Of(pendingDelete, j)
                             \/ run[j].step \in PastClaim /\ run[j].at = t
    BY <1>1 DEF JobInv, OneOnFile, Of, OnFile
  <2>2. \A t \in OnFile(j) : \/ t \in Of(Pending, j)' \/ t \in Of(pendingDelete, j)'
                             \/ run'[j].step \in PastClaim /\ run'[j].at = t
    BY <1>3, <1>4, <2>1
  <2>3. \A t \in OnFile(j)' : \/ <<j, t>> \in Pending' \cup pendingDelete'
                              \/ run'[j].step \in PastClaim /\ run'[j].at = t
    BY <1>5, <2>2 DEF Of
  <2> QED BY <1>5, <2>3 DEF JobInv, OneOnFile
<1>10. RecoveryFirst(j)'
  <2>1. /\ \A t, u \in Of(Pending, j) : t = u
        /\ \A t \in Of(Pending, j) : Of(fired, j) \subseteq {t}
        /\ Of(pendingResend, j) # {} => Of(fired, j) = {}
        /\ run[j].step \in PastClaim => Of(pendingDelete, j) = {} /\ Of(Pending, j) = {}
    BY DEF JobInv, RecoveryFirst, PastClaim, RunStep, Idle
  <2>2. mj'[j].here => Of(Pending, j)' = {}
    BY <1>4, <1>6
  <2> HIDE DEF gone
  <2>3. gone \subseteq Of(Pending, j)
    BY DEF gone
  <2> QED BY <1>3, <1>4, <1>5, <1>7, <2>1, <2>2, <2>3 DEF RecoveryFirst
<1>11. FiredNotArmed(j)'
  BY <1>2, <1>5, SettledUnfired DEF FiredNotArmed
<1>12. AcceptedIsFired(j)' /\ EntryOfRun(j)'
  BY <1>1, <1>3 DEF JobInv, AcceptedIsFired, EntryOfRun, Key, Present
<1> QED BY <1>8, <1>9, <1>10, <1>11, <1>12 DEF JobInv

-----------------------------------------------------------------------------
(* tick() and the queued deletions. *)

\* What tick() is about to pick has not been picked before.
LEMMA PickIsFresh ==
  ASSUME TypeInv, NEW j \in Jobs, JobInv(j), Ready(j)
  PROVE  FireAt(j) \notin Of(fired, j)
<1>1. FireAt(j) \in mj[j].occ \cup mj[j].front
  BY FireAtIsDue DEF TypeInv, Due
<1> QED BY <1>1 DEF JobInv, FiredNotArmed, Ready, Idle, RunStep

LEMMA SafeTick ==
  ASSUME TypeInv, NEW j \in Jobs, JobInv(j), Tick
  PROVE  JobInv(j)'
<1>1. /\ UNCHANGED <<now, phase, ledger, pendingResend, pendingRecovery, pendingDelete>>
      /\ phase = "up"
  BY DEF Tick, clockVars, lifeVars
<1>2. /\ Of(Pending, j)' = Of(Pending, j) /\ Of(pendingResend, j)' = Of(pendingResend, j)
      /\ Of(pendingDelete, j)' = Of(pendingDelete, j) /\ OnFile(j)' = OnFile(j)
  BY <1>1 DEF Of, Pending, OnFile, Present
<1>3. fired' = fired \cup {<<i, FireAt(i)>> : i \in {h \in Jobs : Fires(h)}}
  BY DEF Tick
<1>4. now \in Nat
  BY DEF TypeInv, TypeOK
<1>5. CASE Fires(j)
  <2>1. Ready(j) /\ ~Skips(j) /\ run[j] = Idle /\ mj[j].here
    BY <1>5 DEF Fires, Ready
  <2>2. FireAt(j) \in Instants /\ FireAt(j) <= now
    BY <2>1, FireAtIsDue DEF TypeInv
  <2>3. mj'[j] = mj[j]
    BY <2>1 DEF Tick
  <2>4. /\ run'[j] # Idle /\ run'[j].step = "claim" /\ run'[j].at = FireAt(j)
        /\ run'[j].left = StillFuture(mj[j].occ, now) /\ run'[j].attached
    BY <1>5 DEF Tick, Idle
  <2>5. Of(fired, j)' = Of(fired, j) \cup {FireAt(j)}
    BY <1>3, <1>5, <2>2 DEF Of
  <2>6. Of(fired, j) \cap (mj[j].occ \cup mj[j].front) = {}
    BY <2>1 DEF JobInv, FiredNotArmed, Idle, RunStep
  <2>7. PastIsPast(j)'
    <3>1. \A t \in Of(fired, j)' \cup OnFile(j)' : t <= now
      BY <1>2, <2>2, <2>5 DEF JobInv, PastIsPast
    <3>2. Key(j)' \in fired'
      BY <1>3, <1>5, <2>4 DEF Key
    <3>3. Of(fired, j)' \subseteq Nat
      BY DEF Of, Instants
    <3>4. mj[j].occ \subseteq Instants
      BY <2>1, HereIsArmed DEF Armed, TypeInv
    <3>5. \A u \in run'[j].left : u > now /\ u \in Nat
      BY <2>4, <3>4 DEF StillFuture, Instants
    <3> QED BY <1>1, <1>4, <3>1, <3>2, <3>3, <3>5 DEF PastIsPast
  <2>8. OneOnFile(j)' /\ RecoveryFirst(j)'
    <3>1. run[j].step = "idle" /\ run'[j].step \notin PastClaim /\ Of(Pending, j) = {}
      BY <2>1, <2>4 DEF Idle, PastClaim, JobInv, RecoveryFirst
    <3>2. \A t \in OnFile(j) : t \in Of(Pending, j) \cup Of(pendingDelete, j)
      BY <1>1, <3>1 DEF JobInv, OneOnFile, PastClaim, RunStep, Of, OnFile
    <3>3. \A t \in OnFile(j)' : <<j, t>> \in Pending' \cup pendingDelete'
      BY <1>2, <3>1, <3>2 DEF Of
    <3>4. OneOnFile(j)'
      BY <1>2, <3>3 DEF JobInv, OneOnFile
    <3>5. Of(pendingResend, j) = {}
      BY <3>1 DEF Of, Pending
    <3> QED BY <1>2, <3>1, <3>4, <3>5 DEF RecoveryFirst
  <2>9. FiredNotArmed(j)'
    BY <2>3, <2>4, <2>5, <2>6 DEF FiredNotArmed, RunStep
  <2>10. AcceptedIsFired(j)' /\ EntryOfRun(j)'
    BY <1>1, <1>3, <2>4 DEF JobInv, AcceptedIsFired, EntryOfRun, PastClaim
  <2> QED BY <2>7, <2>8, <2>9, <2>10 DEF JobInv
<1>6. CASE ~Fires(j)
  <2>1. run'[j] = run[j] /\ Key(j)' = Key(j)
    BY <1>6 DEF Tick, Key
  <2>2. Of(fired, j)' = Of(fired, j)
    BY <1>3, <1>6 DEF Of
  <2>3. /\ mj'[j].here <=> mj[j].here
        /\ mj'[j].occ \cup mj'[j].front \subseteq mj[j].occ \cup mj[j].front
    <3>1. CASE Ready(j) /\ Skips(j)
      <4>1. mj'[j] = [mj[j] EXCEPT !.occ = StillFuture(mj[j].occ, now), !.front = {}]
        BY <3>1 DEF Tick
      <4>2. mj[j] \in Armed
        BY <3>1, HereIsArmed DEF Ready, TypeInv
      <4> QED BY <4>1, <4>2 DEF Armed, StillFuture
    <3>2. CASE ~(Ready(j) /\ Skips(j))
      BY <3>2 DEF Tick
    <3> QED BY <3>1, <3>2
  <2>4. PastIsPast(j)' /\ FiredNotArmed(j)'
    BY <1>1, <1>2, <1>3, <2>1, <2>2, <2>3 DEF JobInv, PastIsPast, FiredNotArmed
  <2>5. OneOnFile(j)'
    BY <1>1, <1>2, <2>1 DEF JobInv, OneOnFile, Pending
  <2>6. RecoveryFirst(j)'
    BY <1>2, <2>1, <2>2, <2>3 DEF JobInv, RecoveryFirst
  <2>7. AcceptedIsFired(j)' /\ EntryOfRun(j)'
    BY <1>1, <1>3, <2>1 DEF JobInv, AcceptedIsFired, EntryOfRun, Present
  <2> QED BY <2>4, <2>5, <2>6, <2>7 DEF JobInv
<1> QED BY <1>5, <1>6

LEMMA SafeDelete ==
  ASSUME TypeInv, NEW j \in Jobs, JobInv(j), NEW k \in Keys, WriteQueuedDelete(k),
         faults' = 0
  PROVE  JobInv(j)'
<1>1. /\ k \in pendingDelete /\ pendingDelete' = pendingDelete \ {k}
      /\ UNCHANGED <<now, phase, mj, run, fired, pendingResend, pendingRecovery>>
  BY DEF WriteQueuedDelete, clockVars, lifeVars
<1>2. ledger' = DeleteLedgerEntry(ledger, k, now)
  BY DEF WriteQueuedDelete, TypeInv, TypeOK
<1>3. phase = "up"
  BY <1>1 DEF TypeInv, DownIsEmpty
<1>4. ASSUME NEW t \in Instants
      PROVE  /\ ledger'[<<j, t>>] \in {ledger[<<j, t>>], NoEntry}
             /\ <<j, t>> = k => ledger'[<<j, t>>] = NoEntry
             /\ (<<j, t>> # k /\ ledger[<<j, t>>].claimedAt + PruneAge >= now)
                  => ledger'[<<j, t>>] = ledger[<<j, t>>]
  <2>1. <<j, t>> \in Keys
    BY DEF Keys
  <2> QED BY <1>2, <2>1, DeleteEffect DEF TypeInv
<1>5. /\ Of(Pending, j)' = Of(Pending, j) /\ Of(fired, j)' = Of(fired, j)
      /\ Of(pendingResend, j)' = Of(pendingResend, j)
      /\ Of(pendingDelete, j)' \subseteq Of(pendingDelete, j)
      /\ \A t \in OnFile(j)' : t \in OnFile(j) /\ <<j, t>> # k
  BY <1>1, <1>4 DEF Of, Pending, OnFile, Present
<1>6. PastIsPast(j)' /\ FiredNotArmed(j)' /\ RecoveryFirst(j)'
  BY <1>1, <1>5 DEF JobInv, PastIsPast, FiredNotArmed, RecoveryFirst, Key
<1>7. OneOnFile(j)'
  <2>1. \A t \in OnFile(j) : \/ <<j, t>> \in Pending \cup pendingDelete
                             \/ run[j].step \in PastClaim /\ run[j].at = t
    BY <1>3 DEF JobInv, OneOnFile
  <2>2. \A t \in OnFile(j)' : \/ <<j, t>> \in Pending' \cup pendingDelete'
                              \/ run'[j].step \in PastClaim /\ run'[j].at = t
    BY <1>1, <1>5, <2>1 DEF Pending
  <2> QED BY <1>5, <2>2 DEF JobInv, OneOnFile
<1>8. AcceptedIsFired(j)'
  BY <1>1, <1>3, <1>4 DEF JobInv, AcceptedIsFired, NoEntry
<1>9. EntryOfRun(j)'
  <2> SUFFICES ASSUME run[j].step \in PastClaim, now - run[j].at <= PruneAge
               PROVE  ledger'[Key(j)] = ledger[Key(j)]
    BY <1>1 DEF JobInv, EntryOfRun, Key, Present
  <2>1. run[j] # Idle /\ run[j] \in Running /\ run[j].at \in Instants
    BY IdleAndRunning DEF TypeInv, PastClaim, RunStep, Idle, Running
  <2>2. Key(j) # k
    BY <1>1, <2>1 DEF JobInv, RecoveryFirst, Of, Key
  <2>3. Key(j) \in Keys /\ ledger[Key(j)].claimedAt \in Nat /\ now \in Nat
    BY <2>1, IdleAndRunning DEF TypeInv, TypeOK, LedgerFile, Entry, NoEntry
  <2>4. ledger[Key(j)].claimedAt + PruneAge >= now
    BY <2>1, <2>3, LedgerAssumption DEF JobInv, EntryOfRun, Instants
  <2> QED BY <1>4, <2>1, <2>2, <2>4 DEF Key
<1> QED BY <1>6, <1>7, <1>8, <1>9 DEF JobInv

-----------------------------------------------------------------------------
(* The steps of a run. *)

\* As long as nothing has failed, nothing fails.
LEMMA NoFault ==
  ASSUME TypeInv, NEW j \in Jobs, faults' = 0
  PROVE  ~SecretUnreadable(j)
BY DEF SecretUnreadable, TypeInv, TypeOK

\* What a step of a run does to the file when no write fails.
LEMMA RunLedger ==
  ASSUME TypeInv, NEW j \in Jobs, RunNext(j), faults' = 0
  PROVE  /\ \A k \in Keys : k # Key(j) =>
              /\ ledger'[k] \in {ledger[k], NoEntry}
              /\ ledger[k].claimedAt + PruneAge >= now => ledger'[k] = ledger[k]
         /\ Claim(j) => /\ Present(ledger', Key(j)) /\ ledger'[Key(j)].claimedAt = now
                        /\ ledger'[Key(j)].state # "accepted"
         /\ ~Claim(j) => (Present(ledger', Key(j)) => Present(ledger, Key(j)))
         /\ Finish(j) => ~Present(ledger', Key(j))
         /\ (MarkSending(j) /\ Present(ledger, Key(j))
                /\ ledger[Key(j)].claimedAt + PruneAge >= now) =>
              /\ Present(ledger', Key(j)) /\ ledger'[Key(j)].state = "sending"
              /\ ledger'[Key(j)].claimedAt = ledger[Key(j)].claimedAt
         /\ (MarkAccepted(j) /\ Present(ledger, Key(j))
                /\ ledger[Key(j)].claimedAt + PruneAge >= now) =>
              /\ Present(ledger', Key(j))
              /\ ledger'[Key(j)].claimedAt = ledger[Key(j)].claimedAt
         /\ (DecideSkip(j) \/ DecideSend(j) \/ SmtpAccepts(j) \/ SmtpFails(j) \/ CompleteRun(j))
              => ledger' = ledger
<1> DEFINE Others == \A k \in Keys : k # Key(j) =>
                       /\ ledger'[k] \in {ledger[k], NoEntry}
                       /\ ledger[k].claimedAt + PruneAge >= now => ledger'[k] = ledger[k]
           quiet  == DecideSkip(j) \/ DecideSend(j) \/ SmtpAccepts(j) \/ SmtpFails(j)
                       \/ CompleteRun(j)
<1>1. TypeOK /\ Key(j) \in Keys /\ {"sending", "accepted"} \subseteq EntryState
  BY RunStepShape DEF TypeInv, EntryState
<1>2. ASSUME NEW file, BestEffort(file) PROVE ledger' = file
  BY <1>1, <1>2 DEF BestEffort, TypeOK
<1>3. CASE Claim(j)
  <2>1. ledger' = ClaimLedgerEntry(ledger, Key(j), now)
    BY <1>2, <1>3 DEF Claim
  <2>2. Others
    BY <1>1, <2>1, ClaimEffect
  <2>3. /\ Present(ledger', Key(j)) /\ ledger'[Key(j)].claimedAt = now
        /\ ledger'[Key(j)].state # "accepted"
    BY <1>1, <2>1, ClaimEffect
  <2>4. run[j].step = "claim"
    BY <1>3 DEF Claim
  <2>5. ~MarkSending(j) /\ ~MarkAccepted(j) /\ ~Finish(j) /\ ~quiet
    BY <2>4 DEF MarkSending, MarkAccepted, Finish, DecideSkip, DecideSend, SmtpAccepts,
                SmtpFails, CompleteRun
  <2> QED BY <1>3, <2>2, <2>3, <2>5
<1>4. CASE MarkSending(j)
  <2>1. ledger' = MarkLedger(ledger, Key(j), "sending", now)
    BY <1>2, <1>4 DEF MarkSending, MarkLedgerSending
  <2>2. Others
    BY <1>1, <2>1, MarkEffect
  <2>3. /\ Present(ledger', Key(j)) => Present(ledger, Key(j))
        /\ (Present(ledger, Key(j)) /\ ledger[Key(j)].claimedAt + PruneAge >= now) =>
             /\ Present(ledger', Key(j)) /\ ledger'[Key(j)].state = "sending"
             /\ ledger'[Key(j)].claimedAt = ledger[Key(j)].claimedAt
    BY <1>1, <2>1, MarkEffect
  <2>4. run[j].step = "mark"
    BY <1>4 DEF MarkSending
  <2>5. ~Claim(j) /\ ~MarkAccepted(j) /\ ~Finish(j) /\ ~quiet
    BY <2>4 DEF Claim, MarkAccepted, Finish, DecideSkip, DecideSend, SmtpAccepts,
                SmtpFails, CompleteRun
  <2> QED BY <2>2, <2>3, <2>5
<1>5. CASE MarkAccepted(j)
  <2>1. ledger' = MarkLedger(ledger, Key(j), "accepted", now)
    BY <1>2, <1>5 DEF MarkAccepted, MarkLedgerAccepted
  <2>2. Others
    BY <1>1, <2>1, MarkEffect
  <2>3. /\ Present(ledger', Key(j)) => Present(ledger, Key(j))
        /\ (Present(ledger, Key(j)) /\ ledger[Key(j)].claimedAt + PruneAge >= now) =>
             /\ Present(ledger', Key(j))
             /\ ledger'[Key(j)].claimedAt = ledger[Key(j)].claimedAt
    BY <1>1, <2>1, MarkEffect
  <2>4. run[j].step = "accepted"
    BY <1>5 DEF MarkAccepted
  <2>5. ~Claim(j) /\ ~MarkSending(j) /\ ~Finish(j) /\ ~quiet
    BY <2>4 DEF Claim, MarkSending, Finish, DecideSkip, DecideSend, SmtpAccepts,
                SmtpFails, CompleteRun
  <2> QED BY <2>2, <2>3, <2>5
<1>6. CASE Finish(j)
  <2>1. ledger' = DeleteLedgerEntry(ledger, Key(j), now)
    BY <1>2, <1>6 DEF Finish
  <2>2. Others
    BY <1>1, <2>1, DeleteEffect
  <2>3. ~Present(ledger', Key(j))
    BY <1>1, <2>1, DeleteEffect DEF Present
  <2>4. run[j].step = "finish"
    BY <1>6 DEF Finish
  <2>5. ~Claim(j) /\ ~MarkSending(j) /\ ~MarkAccepted(j) /\ ~quiet
    BY <2>4 DEF Claim, MarkSending, MarkAccepted, DecideSkip, DecideSend, SmtpAccepts,
                SmtpFails, CompleteRun
  <2> QED BY <2>2, <2>3, <2>5
<1>8. CASE SecretUnreadable(j)
  BY <1>1, <1>8 DEF SecretUnreadable, TypeOK
<1>7. CASE quiet
  <2>1. ledger' = ledger
    BY <1>7 DEF DecideSkip, DecideSend, SmtpAccepts, SmtpFails, CompleteRun
  <2>2. ~Claim(j) /\ ~MarkSending(j) /\ ~MarkAccepted(j) /\ ~Finish(j)
    BY <1>7 DEF Claim, MarkSending, MarkAccepted, Finish, DecideSkip, DecideSend, SmtpAccepts,
                SmtpFails, CompleteRun
  <2> QED BY <2>1, <2>2
<1> QED BY <1>3, <1>4, <1>5, <1>6, <1>7, <1>8 DEF RunNext

\* What a step of a run does to the working set: the two endings of a run
\* that still is attached rebuild the list, every other step leaves it alone.
LEMMA RunWorkingSet ==
  ASSUME TypeInv, NEW j \in Jobs, RunNext(j), NEW i \in Jobs
  PROVE  \/ mj'[i] = mj[i] /\ (i = j /\ run'[j].step = "finish" => ~run[j].attached)
         \/ /\ i = j /\ run[j].attached /\ run'[j].step = "finish"
            /\ mj'[j].here /\ mj[j].here /\ mj'[j].front = {}
            /\ \E runs : mj'[j].occ = TopUp(run[j].rule, run[j].left, runs, now)
<1>1. /\ mj \in [Jobs -> Armed \cup {Absent}] /\ run \in [Jobs -> Running \cup {Idle}]
      /\ run[j].attached => mj[j].here
  BY DEF TypeInv, TypeOK, AttachedIsArmed
<1>2. ASSUME NEW runs, Conclude(j, runs), Goto(j, "finish")
      PROVE  \/ mj'[i] = mj[i] /\ (i = j => ~run[j].attached)
             \/ /\ i = j /\ run[j].attached /\ run'[j].step = "finish"
                /\ mj'[j].here /\ mj[j].here /\ mj'[j].front = {}
                /\ mj'[j].occ = TopUp(run[j].rule, run[j].left, runs, now)
  <2> DEFINE occ == TopUp(run[j].rule, run[j].left, runs, now)
  <2>1. mj' = IF run[j].attached
                THEN [mj EXCEPT ![j].occ = occ, ![j].front = {}, ![j].runs = runs] ELSE mj
    BY <1>2 DEF Conclude
  <2>2. run'[j].step = "finish"
    BY <1>1, <1>2, RunStepShape DEF Goto, Running
  <2> HIDE DEF occ
  <2>3. CASE i = j /\ run[j].attached
    <3>1. mj[j] \in Armed
      BY <1>1, <2>3, HereIsArmed DEF TypeInv
    <3>2. mj'[j] = [mj[j] EXCEPT !.occ = occ, !.front = {}, !.runs = runs]
      BY <1>1, <2>1, <2>3
    <3>3. mj'[j].here /\ mj'[j].front = {} /\ mj'[j].occ = occ
      BY <1>1, <2>3, <3>1, <3>2 DEF Armed
    <3> QED BY <1>1, <2>2, <2>3, <3>3 DEF occ
  <2>4. CASE ~(i = j /\ run[j].attached)
    BY <1>1, <2>1, <2>4
  <2> QED BY <2>3, <2>4
<1>3. CASE DecideSkip(j) \/ CompleteRun(j)
  BY <1>2, <1>3 DEF DecideSkip, CompleteRun
<1>4. CASE ~(DecideSkip(j) \/ CompleteRun(j))
  <2>1. mj' = mj
    BY <1>4 DEF RunNext, Claim, DecideSend, SecretUnreadable, MarkSending, SmtpAccepts,
                SmtpFails, MarkAccepted, Finish
  <2>2. \A s \in {"decide", "mark", "smtp", "accepted", "complete"} :
          Goto(j, s) => run'[j].step # "finish"
    BY <1>1 DEF Goto, Running, Idle
  <2>3. NextCopy(j) => run'[j].step # "finish"
    BY <1>1, <2>2 DEF NextCopy, Running, Idle
  <2>4. CASE Claim(j) \/ DecideSend(j) \/ MarkSending(j) \/ SmtpAccepts(j)
    BY <2>1, <2>2, <2>4 DEF Claim, DecideSend, MarkSending, SmtpAccepts
  <2>5. CASE SmtpFails(j)
    BY <1>1, <2>1, <2>3, <2>5 DEF SmtpFails, Running, Idle
  <2>6. CASE MarkAccepted(j) \/ Finish(j) \/ SecretUnreadable(j)
    BY <1>1, <2>1, <2>3, <2>6 DEF MarkAccepted, Finish, SecretUnreadable, Idle
  <2> QED BY <1>4, <2>4, <2>5, <2>6 DEF RunNext
<1> QED BY <1>3, <1>4

\* A run of another job does not disturb this one.
LEMMA SafeOtherRun ==
  ASSUME TypeInv, NEW j \in Jobs, RunNext(j), faults' = 0,
         NEW i \in Jobs, i # j, JobInv(i)
  PROVE  JobInv(i)'
<1>1. /\ UNCHANGED <<now, phase, fired, pendingResend, pendingRecovery, pendingDelete>>
      /\ run'[i] = run[i] /\ mj'[i] = mj[i] /\ phase = "up"
      /\ Key(i)' = Key(i)
  <2>1. /\ UNCHANGED <<now, phase, fired, pendingResend, pendingRecovery, pendingDelete>>
        /\ phase = "up"
    BY RunStepShape
  <2>2. run'[i] = run[i]
    BY RunKeeps
  <2>3. mj'[i] = mj[i]
    BY RunWorkingSet
  <2> QED BY <2>1, <2>2, <2>3 DEF Key
<1>2. ASSUME NEW t \in Instants
      PROVE  /\ ledger'[<<i, t>>] \in {ledger[<<i, t>>], NoEntry}
             /\ ledger[<<i, t>>].claimedAt + PruneAge >= now
                  => ledger'[<<i, t>>] = ledger[<<i, t>>]
  <2>1. <<i, t>> \in Keys /\ <<i, t>> # Key(j)
    BY DEF Keys, Key
  <2> QED BY <2>1, RunLedger
<1>3. /\ Of(Pending, i)' = Of(Pending, i) /\ Of(fired, i)' = Of(fired, i)
      /\ Of(pendingResend, i)' = Of(pendingResend, i)
      /\ Of(pendingDelete, i)' = Of(pendingDelete, i)
      /\ \A t \in OnFile(i)' : t \in OnFile(i)
  BY <1>1, <1>2 DEF Of, Pending, OnFile, Present
<1>4. PastIsPast(i)' /\ FiredNotArmed(i)' /\ RecoveryFirst(i)'
  BY <1>1, <1>3 DEF JobInv, PastIsPast, FiredNotArmed, RecoveryFirst
<1>5. OneOnFile(i)'
  BY <1>1, <1>3 DEF JobInv, OneOnFile, Pending
<1>6. AcceptedIsFired(i)'
  BY <1>1, <1>2 DEF JobInv, AcceptedIsFired, NoEntry
<1>7. EntryOfRun(i)'
  <2> SUFFICES ASSUME run[i].step \in PastClaim, now - run[i].at <= PruneAge
               PROVE  ledger'[Key(i)] = ledger[Key(i)]
    BY <1>1 DEF JobInv, EntryOfRun, Present
  <2>1. run[i] # Idle /\ run[i] \in Running /\ run[i].at \in Instants
    BY IdleAndRunning DEF TypeInv, PastClaim, RunStep, Idle, Running
  <2>2. ledger[Key(i)].claimedAt \in Nat /\ now \in Nat
    BY <2>1, IdleAndRunning DEF TypeInv, TypeOK, LedgerFile, Entry, NoEntry
  <2>3. ledger[Key(i)].claimedAt + PruneAge >= now
    BY <2>1, <2>2, LedgerAssumption DEF JobInv, EntryOfRun, Instants
  <2> QED BY <1>2, <2>1, <2>3 DEF Key
<1> QED BY <1>4, <1>5, <1>6, <1>7 DEF JobInv

\* topUp() puts nothing back that was fired: it starts after what is left,
\* or after now.
LEMMA TopUpUnfired ==
  ASSUME TypeInv, NEW j \in Jobs, JobInv(j), run[j] # Idle, NEW runs
  PROVE  Of(fired, j) \cap TopUp(run[j].rule, run[j].left, runs, now) = {}
<1> SUFFICES ASSUME NEW t \in Of(fired, j), t \in TopUp(run[j].rule, run[j].left, runs, now)
             PROVE  FALSE
  OBVIOUS
<1>1. run[j].left \subseteq Instants /\ t \in Instants /\ now \in Nat
  BY IdleAndRunning DEF TypeInv, TypeOK, Running, Of
<1>2. t <= now /\ \A u \in run[j].left : t < u
  BY DEF JobInv, PastIsPast
<1>3. \/ t \in run[j].left
      \/ t > IF run[j].left # {} THEN Latest(run[j].left) ELSE now
  BY TopUpLater
<1>4. run[j].left # {} => Latest(run[j].left) \in run[j].left
  BY <1>1, LatestIsGreatest
<1> QED BY <1>1, <1>2, <1>3, <1>4 DEF Instants

\* The entry of a run stays on file until the run deletes it, and says
\* "sending" from before an SMTP attempt until after the answer.
LEMMA SafeOwnEntry ==
  ASSUME TypeInv, NEW j \in Jobs, RunNext(j), faults' = 0, JobInv(j)
  PROVE  EntryOfRun(j)'
<1>1. /\ now' = now /\ run[j] # Idle /\ Key(j) \in Keys
      /\ run[j].at \in Nat /\ run[j].step \in RunStep /\ now \in Nat /\ PruneAge \in Nat
      /\ ledger[Key(j)].claimedAt \in Nat /\ run[j].at <= now
  <2>1. run[j] # Idle /\ run[j] \in Running /\ Key(j) \in Keys /\ now' = now
    BY RunStepShape
  <2>2. run[j].at \in Nat /\ run[j].step \in RunStep /\ run[j].at \in Instants
    BY <2>1 DEF Running, Instants
  <2>3. now \in Nat /\ PruneAge \in Nat /\ ledger[Key(j)].claimedAt \in Nat
    BY <2>1, LedgerAssumption DEF TypeInv, TypeOK, LedgerFile, Entry, NoEntry
  <2>4. run[j].at <= now
    BY <2>1, <2>2 DEF JobInv, PastIsPast, Of, Key
  <2> QED BY <2>1, <2>2, <2>3, <2>4
<1> SUFFICES ASSUME run'[j].step \in PastClaim, now - run'[j].at <= PruneAge
             PROVE  /\ Present(ledger', Key(j)) /\ ledger'[Key(j)].claimedAt >= run[j].at
                    /\ Key(j)' = Key(j) /\ run'[j].at = run[j].at
                    /\ run'[j].step \in {"smtp", "accepted"}
                         => ledger'[Key(j)].state = "sending"
  BY <1>1 DEF EntryOfRun
<1>2. /\ ~Finish(j) /\ run'[j].at = run[j].at /\ Key(j)' = Key(j)
  <2>1. Idle.step \notin PastClaim
    BY DEF Idle, PastClaim, RunStep
  <2>2. Finish(j) => run'[j] = Idle
    BY DEF Finish, TypeInv, TypeOK
  <2>3. ~Finish(j)
    BY <2>1, <2>2
  <2>4. run'[j].at = run[j].at
    BY <2>3, NoFault, RunKeeps
  <2> QED BY <2>3, <2>4 DEF Key
<1>3. run[j].step \in PastClaim =>
        /\ Present(ledger, Key(j)) /\ ledger[Key(j)].claimedAt >= run[j].at
        /\ ledger[Key(j)].claimedAt + PruneAge >= now
        /\ run[j].step \in {"smtp", "accepted"} => ledger[Key(j)].state = "sending"
  BY <1>1, <1>2 DEF JobInv, EntryOfRun
<1>4. run \in [Jobs -> Running \cup {Idle}]
  BY DEF TypeInv, TypeOK
<1>5. /\ \A s \in RunStep : Goto(j, s) => run'[j].step = s
      /\ NextCopy(j) => run'[j].step \in {"mark", "complete"}
  BY <1>4 DEF Goto, NextCopy, Running, Idle, RunStep
<1>6. CASE Claim(j)
  <2>1. run'[j].step = "decide"
    BY <1>5, <1>6 DEF Claim, RunStep
  <2> QED BY <1>1, <1>2, <1>6, <2>1, RunLedger
<1>7. CASE MarkSending(j)
  <2>1. run[j].step \in PastClaim
    BY <1>7 DEF MarkSending, PastClaim, RunStep
  <2> QED BY <1>2, <1>3, <1>7, <2>1, RunLedger
<1>8. CASE MarkAccepted(j)
  <2>1. run[j].step \in PastClaim /\ run'[j].step \in {"mark", "complete"}
    BY <1>5, <1>8 DEF MarkAccepted, PastClaim, RunStep
  <2> QED BY <1>2, <1>3, <1>8, <2>1, RunLedger
<1>9. CASE SmtpAccepts(j)
  <2>1. run[j].step \in PastClaim /\ run[j].step = "smtp"
    BY <1>9 DEF SmtpAccepts, PastClaim, RunStep
  <2> QED BY <1>2, <1>3, <1>9, <2>1, RunLedger
<1>10. CASE DecideSkip(j) \/ DecideSend(j) \/ SmtpFails(j) \/ CompleteRun(j)
  <2>1. run[j].step \in PastClaim
    BY <1>10 DEF DecideSkip, DecideSend, SmtpFails, CompleteRun, PastClaim, RunStep
  <2>2. run' = [run EXCEPT ![j].step = "mark", ![j].tries = @ + 1]
          => run'[j].step = "mark"
    BY <1>4 DEF Running, Idle
  <2>3. run'[j].step \notin {"smtp", "accepted"}
    BY <1>5, <1>10, <2>2 DEF DecideSkip, DecideSend, SmtpFails, CompleteRun, RunStep
  <2> QED BY <1>2, <1>3, <1>10, <2>1, <2>3, RunLedger
<1> QED BY <1>2, <1>6, <1>7, <1>8, <1>9, <1>10, NoFault DEF RunNext

LEMMA SafeOwnRun ==
  ASSUME TypeInv, NEW j \in Jobs, RunNext(j), faults' = 0, JobInv(j)
  PROVE  JobInv(j)'
<1>1. /\ UNCHANGED <<now, phase, fired, pendingResend, pendingRecovery, pendingDelete>>
      /\ phase = "up" /\ run[j] # Idle /\ run[j] \in Running /\ Key(j) \in Keys
      /\ run[j].at \in Instants /\ run[j].step \in RunStep /\ now \in Nat
  BY RunStepShape DEF Running, TypeInv, TypeOK
<1>2. /\ Of(Pending, j)' = Of(Pending, j) /\ Of(fired, j)' = Of(fired, j)
      /\ Of(pendingResend, j)' = Of(pendingResend, j)
      /\ Of(pendingDelete, j)' = Of(pendingDelete, j)
  BY <1>1 DEF Of, Pending
<1>3. Of(Pending, j) = {} /\ Key(j) \in fired /\ run[j].at <= now
  BY <1>1 DEF JobInv, RecoveryFirst, PastIsPast, Of, Key
<1>4. Of(pendingDelete, j) = {}
  <2>1. CASE run[j].step = "claim"
    BY <2>1 DEF RunNext, Claim, DecideSkip, DecideSend, SecretUnreadable, MarkSending,
                SmtpAccepts, SmtpFails, MarkAccepted, CompleteRun, Finish, Of
  <2>2. CASE run[j].step # "claim"
    BY <1>1, <2>2 DEF JobInv, RecoveryFirst, PastClaim
  <2> QED BY <2>1, <2>2
<1>5. \/ Finish(j) /\ run'[j] = Idle
      \/ /\ run'[j].at = run[j].at /\ run'[j].left = run[j].left
         /\ run'[j].attached <=> run[j].attached
         /\ run'[j].step \in PastClaim /\ run'[j] # Idle /\ Key(j)' = Key(j)
  <2>1. run'[j].step \in PastClaim => run'[j] # Idle
    BY DEF PastClaim, RunStep, Idle
  <2> QED BY <2>1, NoFault, RunKeeps DEF Key
<1>6. ASSUME NEW t \in Instants, t # run[j].at
      PROVE  ledger'[<<j, t>>] \in {ledger[<<j, t>>], NoEntry}
  <2>1. <<j, t>> \in Keys /\ <<j, t>> # Key(j)
    BY <1>6 DEF Keys, Key
  <2> QED BY <2>1, RunLedger
<1>7. OnFile(j) \subseteq {run[j].at}
  BY <1>1, <1>3, <1>4 DEF JobInv, OneOnFile, Of, OnFile
<1>8. OnFile(j)' \subseteq {run[j].at}
  BY <1>6, <1>7 DEF OnFile, Present
<1>9. Finish(j) => OnFile(j)' = {}
  BY <1>8, RunLedger DEF OnFile, Key
<1>10. PastIsPast(j)'
  BY <1>1, <1>2, <1>3, <1>5, <1>8 DEF JobInv, PastIsPast
<1>11. OneOnFile(j)'
  BY <1>5, <1>8, <1>9 DEF OneOnFile
<1>12. RecoveryFirst(j)'
  <2>1. Of(pendingResend, j) = {}
    BY <1>3 DEF Of, Pending
  <2> QED BY <1>2, <1>3, <1>4, <2>1 DEF RecoveryFirst
<1>13. FiredNotArmed(j)'
  <2>1. CASE mj'[j] = mj[j] /\ (run'[j].step = "finish" => ~run[j].attached)
    <3>1. CASE Finish(j)
      BY <1>2, <2>1, <3>1 DEF JobInv, FiredNotArmed, Finish
    <3>2. CASE run'[j].step = "finish"
      BY <1>2, <2>1, <3>2 DEF JobInv, FiredNotArmed
    <3>3. CASE ~Finish(j) /\ run'[j].step # "finish"
      BY <1>2, <1>5, <2>1, <3>3 DEF JobInv, FiredNotArmed, PastClaim
    <3> QED BY <3>1, <3>2, <3>3
  <2>2. CASE /\ mj'[j].front = {}
             /\ \E runs : mj'[j].occ = TopUp(run[j].rule, run[j].left, runs, now)
    BY <1>1, <1>2, <2>2, TopUpUnfired DEF FiredNotArmed
  <2> QED BY <2>1, <2>2, RunWorkingSet
<1>14. AcceptedIsFired(j)'
  <2> SUFFICES ASSUME NEW t \in Instants, ledger'[<<j, t>>].state = "accepted"
               PROVE  <<j, t>> \in fired
    BY <1>1 DEF AcceptedIsFired
  <2>1. CASE t = run[j].at
    BY <1>3, <2>1 DEF Key
  <2>2. CASE t # run[j].at
    BY <1>1, <1>6, <2>2 DEF JobInv, AcceptedIsFired, NoEntry
  <2> QED BY <2>1, <2>2
<1> QED BY <1>10, <1>11, <1>12, <1>13, <1>14, SafeOwnEntry DEF JobInv

-----------------------------------------------------------------------------
(* The theorems. *)

\* No step forgets a failure.
LEMMA FaultsStay == TypeInv /\ [Next]_vars /\ faults' = 0 => faults = 0
<1> SUFFICES ASSUME TypeInv, [Next]_vars, faults' = 0 PROVE faults = 0
  OBVIOUS
<1>1. faults \in Nat
  BY DEF TypeInv, TypeOK
<1>2. faults' = faults \/ faults' = faults + 1
  BY DEF Next, Advance, Launch, Restore, Crash, Hydrate, Save, Sync, Tick, JobRan, ToggleJob,
         EditJob, WriteQueuedDelete, RunNext, Claim, DecideSkip, DecideSend,
         SecretUnreadable, MarkSending, SmtpAccepts, SmtpFails, MarkAccepted, CompleteRun,
         Finish, BestEffort, vars, boundVars
<1> QED BY <1>1, <1>2

\* Every step keeps the invariant: one case per kind of step.
LEMMA SafeStep == SafeInv /\ [Next]_vars => SafeInv'
<1> SUFFICES ASSUME SafeInv, [Next]_vars, faults' = 0, NEW j \in Jobs
             PROVE  JobInv(j)'
  BY TypeStep DEF SafeInv, LedgerInv, JobInv
<1>1. TypeInv /\ TypeInv'
  BY TypeStep DEF SafeInv
<1>2. faults = 0
  BY <1>1, FaultsStay
<1>3. \A i \in Jobs : JobInv(i)
  BY <1>2 DEF SafeInv, LedgerInv, JobInv
<1>4. now \in Nat /\ now' \in Nat
  BY <1>1 DEF TypeInv, TypeOK
<1>5. CASE \/ Advance \/ Launch \/ Hydrate \/ Save \/ UNCHANGED vars
           \/ \E i \in Jobs : JobRan(i) \/ ToggleJob(i) \/ \E rule \in Rules : EditJob(i, rule)
  <2>1. UNCHANGED <<mainVars, ledger>> /\ now' >= now /\ (phase' = "up" <=> phase = "up")
    <3>1. CASE Advance
      BY <1>4, <3>1 DEF Advance, lifeVars
    <3>2. CASE Launch
      BY <1>4, <3>2 DEF Launch, clockVars
    <3>3. CASE Hydrate \/ Save
      BY <1>4, <3>3 DEF Hydrate, Save, clockVars, lifeVars
    <3>4. CASE \E i \in Jobs : JobRan(i) \/ ToggleJob(i) \/ \E rule \in Rules : EditJob(i, rule)
      <4>1. UNCHANGED <<mainVars, ledger, now, phase>>
        BY <3>4 DEF JobRan, ToggleJob, EditJob, clockVars, lifeVars
      <4> QED BY <1>4, <4>1
    <3>5. CASE UNCHANGED vars
      BY <1>4, <3>5 DEF vars, clockVars, lifeVars
    <3> QED BY <1>5, <3>1, <3>2, <3>3, <3>4, <3>5
  <2> QED BY <1>1, <1>3, <1>4, <2>1, SafeQuietStep
<1>6. CASE Restore \/ Crash \/ Sync \/ Tick
  BY <1>1, <1>3, <1>6, SafeRestore, SafeCrash, SafeSync, SafeTick
<1>7. CASE \E k \in Keys : WriteQueuedDelete(k)
  BY <1>1, <1>3, <1>7, SafeDelete
<1>8. CASE \E i \in Jobs : RunNext(i)
  BY <1>1, <1>3, <1>8, SafeOwnRun, SafeOtherRun
<1> QED BY <1>5, <1>6, <1>7, <1>8 DEF Next

\* The inductive invariant holds in every reachable state: entries, fired keys,
\* queues of the restart recovery, runs and the working set agree job by job.
THEOREM SafeInvariance == Spec => []SafeInv
BY SafeInit, SafeStep, PTL DEF Spec

\* The parts of it that speak of the ledger, as the runs check them.
THEOREM LedgerInvHolds == Spec => []LedgerInv
<1>1. SafeInv => LedgerInv
  BY DEF SafeInv
<1> QED BY <1>1, SafeInvariance, PTL

\* While a run is past its claim its entry is on file, and says "sending"
\* when an SMTP attempt is in flight: what a crash would find.
THEOREM AttemptOnRecordHolds == Spec => []AttemptOnRecord
<1>1. SafeInv => AttemptOnRecord
  <2> SUFFICES ASSUME SafeInv, NEW j \in Jobs, run[j].step \notin {"idle", "claim"},
                      faults = 0, now - run[j].at <= PruneAge
               PROVE  /\ Present(ledger, Key(j))
                      /\ run[j].step \in {"smtp", "accepted"} => ledger[Key(j)].state = "sending"
    BY DEF AttemptOnRecord
  <2>1. run[j].step \in PastClaim
    BY DEF SafeInv, TypeInv, TypeOK, Running, Idle, PastClaim
  <2> QED BY <2>1 DEF SafeInv, LedgerInv, EntryOfRun
<1> QED BY <1>1, SafeInvariance, PTL

\* Only tick() starts a run, and of an instant it has not picked before.
LEMMA PickStep ==
  ASSUME SafeInv, [Next]_vars, faults = 0, NEW j \in Jobs, Claims(j)
  PROVE  /\ <<j, run'[j].at>> \notin fired
         /\ ledger[<<j, run'[j].at>>].state # "accepted"
<1>1. TypeInv /\ JobInv(j) /\ run[j] = Idle /\ run'[j] # Idle
  BY DEF SafeInv, LedgerInv, JobInv, Claims
<1>2. Tick
  <2>1. ASSUME NEW i \in Jobs, RunNext(i) PROVE FALSE
    BY <1>1, <2>1, RunStepShape, RunKeeps
  <2>2. ~Sync /\ ~Crash
    BY <1>1 DEF Sync, Crash, NoRuns
  <2>3. run' # run
    BY <1>1
  <2> QED
    BY <2>1, <2>2, <2>3
    DEF Next, Advance, Launch, Restore, Hydrate, Save, JobRan, ToggleJob, EditJob,
        WriteQueuedDelete, vars, mainVars
<1>3. Fires(j) /\ run'[j].at = FireAt(j) /\ phase = "up"
  BY <1>1, <1>2 DEF Tick
<1>4. FireAt(j) \in Instants /\ FireAt(j) \notin Of(fired, j)
  BY <1>1, <1>3, PickIsFresh, FireAtIsDue DEF Fires, TypeInv
<1> QED BY <1>1, <1>3, <1>4 DEF Of, JobInv, AcceptedIsFired

\* Between two starts of the process no occurrence is picked twice, however
\* syncs, edits, late reports and recoveries interleave with the runs.
THEOREM PickedOnceHolds == Spec => PickedOnce
<1>1. SafeInv /\ [Next]_vars =>
        [faults = 0 => \A j \in Jobs : Claims(j) => <<j, run'[j].at>> \notin fired]_vars
  BY PickStep
<1> QED BY <1>1, SafeInvariance, PTL DEF Spec, PickedOnce

\* tick() never starts a run of an occurrence whose acceptance is on file.
THEOREM ProvenNotResentHolds == Spec => ProvenNotResent
<1>1. SafeInv /\ [Next]_vars =>
        [faults = 0 =>
           \A j \in Jobs : Claims(j) => ledger[<<j, run'[j].at>>].state # "accepted"]_vars
  BY PickStep
<1> QED BY <1>1, SafeInvariance, PTL DEF Spec, ProvenNotResent

-----------------------------------------------------------------------------
(* The account of the copies: what a claim may send is paid once, when its  *)
(* occurrence is fired, and every attempt draws on it.                      *)

Paid(c)   == Budget * c
Spare(c)  == (c - 1) * MaxAttempts     \* attempts of the copies after this one

KeyInv(k) == /\ sent[k] <= Paid(crashes) + Budget
             /\ k \notin fired => sent[k] <= Paid(crashes)
RunInv(j) == run[j] # Idle =>
               /\ run[j].copies >= 1 /\ run[j].tries < MaxAttempts
               /\ sent[Key(j)] + Left(run[j]) <= Paid(crashes) + Budget

LEMMA CopiesParts ==
  CopiesInv <=> (faults = 0 => (\A k \in Keys : KeyInv(k)) /\ (\A j \in Jobs : RunInv(j)))
BY DEF CopiesInv, KeyInv, RunInv, Paid

LEMMA BudgetFacts ==
  /\ Budget \in Nat
  /\ \A c \in Nat : /\ Paid(c) \in Nat /\ Paid(c + 1) = Paid(c) + Budget
                     /\ Copies * MaxAttempts * (1 + c) = Paid(c) + Budget
<1>1. Copies \in Nat /\ MaxAttempts \in Nat
  BY SchedulerAssumption
<1>2. Budget \in Nat
  BY <1>1 DEF Budget
<1>3. \A b \in Nat, c \in Nat : b * c \in Nat /\ b * (c + 1) = b * c + b /\ c + 1 = 1 + c
  OBVIOUS
<1>4. \A c \in Nat : Paid(c) \in Nat /\ Paid(c + 1) = Paid(c) + Budget
  BY <1>2, <1>3 DEF Paid
<1>5. \A c \in Nat : Copies * MaxAttempts * (1 + c) = Paid(c + 1)
  BY <1>3 DEF Paid, Budget
<1> QED BY <1>2, <1>4, <1>5

LEMMA SpareFacts ==
  /\ MaxAttempts \in Nat /\ MaxAttempts >= 1
  /\ \A c \in Nat : c >= 1 => Spare(c) \in Nat
  /\ \A c \in Nat : c > 1 => Spare(c) = Spare(c - 1) + MaxAttempts
  /\ Spare(1) = 0 /\ Spare(Copies) + MaxAttempts = Budget
<1>1. Copies \in Nat /\ Copies >= 1 /\ MaxAttempts \in Nat /\ MaxAttempts >= 1
  BY SchedulerAssumption
<1>2. \A m, c \in Nat : /\ m * c \in Nat /\ m * c = c * m
                         /\ (c + 1) * m = c * m + m /\ 0 * m = 0
  OBVIOUS
<1>3. \A c \in Nat : c >= 1 => c - 1 \in Nat /\ (c - 1) + 1 = c
  OBVIOUS
<1>4. \A c \in Nat : c >= 1 => Spare(c) \in Nat /\ c * MaxAttempts = Spare(c) + MaxAttempts
  <2> SUFFICES ASSUME NEW c \in Nat, c >= 1
               PROVE  Spare(c) \in Nat /\ c * MaxAttempts = Spare(c) + MaxAttempts
    OBVIOUS
  <2>1. PICK d \in Nat : d = c - 1 /\ c = d + 1
    BY <1>3
  <2> QED BY <1>1, <1>2, <2>1 DEF Spare
<1>5. \A c \in Nat : c > 1 => Spare(c) = Spare(c - 1) + MaxAttempts
  <2> SUFFICES ASSUME NEW c \in Nat, c > 1 PROVE Spare(c) = Spare(c - 1) + MaxAttempts
    OBVIOUS
  <2>1. PICK d \in Nat : d = c - 1 /\ d >= 1
    OBVIOUS
  <2>2. Spare(c) = d * MaxAttempts /\ Spare(c - 1) = Spare(d)
    BY <2>1 DEF Spare
  <2> QED BY <1>4, <2>1, <2>2
<1>6. Spare(1) = 0
  BY <1>1, <1>2 DEF Spare
<1> QED BY <1>1, <1>4, <1>5, <1>6 DEF Budget

\* What is left to a run, by where it stands.
LEMMA LeftFacts ==
  ASSUME NEW r \in Running, r.copies >= 1, r.tries < MaxAttempts
  PROVE  /\ Left(r) \in Nat
         /\ r.step \in {"complete", "finish"} => Left(r) = 0
         /\ r.step = "accepted" => Left(r) = Spare(r.copies)
         /\ r.step \in {"claim", "decide", "mark", "smtp"} =>
              Left(r) = Spare(r.copies) + (MaxAttempts - r.tries)
<1>1. r.copies \in Nat /\ r.tries \in Nat /\ r.step \in RunStep
  BY DEF Running
<1>2. Spare(r.copies) \in Nat /\ MaxAttempts - r.tries \in Nat
  BY <1>1, SpareFacts
<1>3. Left(r) = IF r.step \in {"complete", "finish"} THEN 0
                ELSE Spare(r.copies) + (IF r.step = "accepted" THEN 0 ELSE MaxAttempts - r.tries)
  BY DEF Left, Spare
<1> HIDE DEF Left, Spare
<1> QED BY <1>1, <1>2, <1>3 DEF RunStep

\* After the last try of a copy a run has the copies that follow.
LEMMA NextCopyLeft ==
  ASSUME TypeInv, NEW j \in Jobs, run[j] \in Running, NextCopy(j),
         run[j].copies >= 1, run[j].tries < MaxAttempts
  PROVE  /\ run'[j].copies >= 1 /\ run'[j].tries < MaxAttempts /\ run'[j] \in Running
         /\ Left(run'[j]) = Spare(run[j].copies)
<1>1. run \in [Jobs -> Running \cup {Idle}] /\ run[j].copies \in Nat /\ run[j].tries \in Nat
  BY DEF TypeInv, TypeOK, Running
<1>2. CASE run[j].copies > 1
  <2> DEFINE r == [run[j] EXCEPT !.step = "mark", !.copies = @ - 1, !.tries = 0]
  <2>1. run'[j] = r
    BY <1>1, <1>2 DEF NextCopy
  <2>2. /\ r \in Running /\ r.step = "mark" /\ r.copies = run[j].copies - 1 /\ r.tries = 0
    <3>1. run[j].copies - 1 \in Nat /\ 0 \in Nat /\ "mark" \in RunStep
      BY <1>1, <1>2 DEF RunStep
    <3> QED BY <3>1 DEF Running
  <2> HIDE DEF r
  <2>3. r.copies >= 1 /\ r.tries < MaxAttempts
    BY <1>1, <1>2, <2>2, SpareFacts
  <2>4. Left(r) = Spare(run[j].copies - 1) + (MaxAttempts - 0)
    BY <2>2, <2>3, LeftFacts
  <2> QED BY <1>1, <1>2, <2>1, <2>2, <2>3, <2>4, SpareFacts
<1>3. CASE ~(run[j].copies > 1)
  <2> DEFINE r == [run[j] EXCEPT !.step = "complete"]
  <2>1. run'[j] = r
    BY <1>1, <1>3 DEF NextCopy, Goto
  <2>2. /\ r \in Running /\ r.step = "complete"
        /\ r.copies = run[j].copies /\ r.tries = run[j].tries
    BY <1>1 DEF Running, RunStep
  <2>3. run[j].copies = 1
    BY <1>1, <1>3
  <2> HIDE DEF r
  <2> QED BY <2>1, <2>2, <2>3, LeftFacts, SpareFacts
<1> QED BY <1>2, <1>3

\* A step of a run sends at most what it takes off what is left to the run.
LEMMA RunSpends ==
  ASSUME TypeInv, NEW j \in Jobs, RunNext(j), faults' = 0,
         run[j].copies >= 1, run[j].tries < MaxAttempts
  PROVE  /\ \A k \in Keys : k # Key(j) => sent'[k] = sent[k]
         /\ sent'[Key(j)] <= sent[Key(j)] + Left(run[j])
         /\ run'[j] # Idle =>
              /\ run'[j].copies >= 1 /\ run'[j].tries < MaxAttempts
              /\ sent'[Key(j)] + Left(run'[j]) <= sent[Key(j)] + Left(run[j])
<1>1. /\ run[j] \in Running /\ Key(j) \in Keys /\ run \in [Jobs -> Running \cup {Idle}]
      /\ sent \in [Keys -> Nat] /\ sent[Key(j)] \in Nat
      /\ run[j].copies \in Nat /\ run[j].tries \in Nat /\ MaxAttempts \in Nat
  BY RunStepShape, SpareFacts DEF TypeInv, TypeOK, Running
<1>2. Left(run[j]) \in Nat /\ Spare(run[j].copies) \in Nat
  BY <1>1, LeftFacts, SpareFacts
<1>3. ASSUME NEW s \in RunStep, Goto(j, s)
      PROVE  /\ run'[j] \in Running /\ run'[j].step = s
             /\ run'[j].copies = run[j].copies /\ run'[j].tries = run[j].tries
  BY <1>1, <1>3 DEF Goto, Running
<1>4. {"decide", "mark", "smtp", "accepted", "complete", "finish"} \subseteq RunStep
  BY DEF RunStep
<1>5. CASE Claim(j) \/ DecideSend(j) \/ MarkSending(j)
  <2>1. UNCHANGED sent /\ run[j].step \in {"claim", "decide", "mark", "smtp"}
    BY <1>5 DEF Claim, DecideSend, MarkSending, worldVars
  <2>2. PICK s \in {"decide", "mark", "smtp", "complete"} : Goto(j, s)
    BY <1>5 DEF Claim, DecideSend, MarkSending
  <2>3. /\ run'[j] \in Running /\ run'[j].step = s
        /\ run'[j].copies = run[j].copies /\ run'[j].tries = run[j].tries
    BY <1>3, <1>4, <2>2
  <2>4. Left(run'[j]) <= Left(run[j])
    <3>1. Left(run[j]) = Spare(run[j].copies) + (MaxAttempts - run[j].tries)
      BY <1>1, <2>1, LeftFacts
    <3>2. CASE s = "complete"
      BY <1>2, <2>3, <3>2, LeftFacts
    <3>3. CASE s # "complete"
      <4>1. Left(run'[j]) = Spare(run[j].copies) + (MaxAttempts - run[j].tries)
        BY <2>3, <3>3, LeftFacts
      <4> QED BY <1>1, <1>2, <3>1, <4>1
    <3> QED BY <3>2, <3>3
  <2>5. Left(run'[j]) \in Nat
    BY <2>3, LeftFacts
  <2> QED BY <1>1, <1>2, <2>1, <2>3, <2>4, <2>5
<1>6. CASE DecideSkip(j) \/ CompleteRun(j)
  <2>1. UNCHANGED sent /\ Goto(j, "finish")
    BY <1>6 DEF DecideSkip, CompleteRun, worldVars
  <2>2. Left(run'[j]) = 0 /\ run'[j].copies = run[j].copies /\ run'[j].tries = run[j].tries
    BY <1>3, <1>4, <2>1, LeftFacts
  <2> QED BY <1>1, <1>2, <2>1, <2>2
<1>7. CASE SmtpAccepts(j)
  <2>1. run[j].step = "smtp" /\ sent' = [sent EXCEPT ![Key(j)] = @ + 1] /\ Goto(j, "accepted")
    BY <1>7 DEF SmtpAccepts
  <2>2. /\ Left(run'[j]) = Spare(run[j].copies)
        /\ run'[j].copies = run[j].copies /\ run'[j].tries = run[j].tries
    BY <1>3, <1>4, <2>1, LeftFacts
  <2>3. Left(run[j]) = Spare(run[j].copies) + (MaxAttempts - run[j].tries)
    BY <1>1, <2>1, LeftFacts
  <2>4. sent'[Key(j)] = sent[Key(j)] + 1 /\ \A k \in Keys : k # Key(j) => sent'[k] = sent[k]
    BY <1>1, <2>1
  <2> QED BY <1>1, <1>2, <2>2, <2>3, <2>4
<1>8. CASE SmtpFails(j)
  <2>1. /\ run[j].step = "smtp"
        /\ \A k \in Keys : k # Key(j) => sent'[k] = sent[k]
        /\ sent'[Key(j)] \in Nat /\ sent'[Key(j)] <= sent[Key(j)] + 1
    BY <1>1, <1>8 DEF SmtpFails
  <2>2. Left(run[j]) = Spare(run[j].copies) + (MaxAttempts - run[j].tries)
    BY <1>1, <2>1, LeftFacts
  <2>3. CASE /\ run[j].tries + 1 < MaxAttempts
             /\ run' = [run EXCEPT ![j].step = "mark", ![j].tries = @ + 1]
    <3>1. /\ run'[j] \in Running /\ run'[j].step = "mark"
          /\ run'[j].copies = run[j].copies /\ run'[j].tries = run[j].tries + 1
      BY <1>1, <2>3 DEF Running, RunStep
    <3>2. Left(run'[j]) = Spare(run[j].copies) + (MaxAttempts - (run[j].tries + 1))
      BY <2>3, <3>1, LeftFacts
    <3> QED BY <1>1, <1>2, <2>1, <2>2, <2>3, <3>1, <3>2
  <2>4. CASE NextCopy(j)
    <3>1. /\ run'[j].copies >= 1 /\ run'[j].tries < MaxAttempts
          /\ Left(run'[j]) = Spare(run[j].copies)
      BY <1>1, <2>4, NextCopyLeft
    <3> QED BY <1>1, <1>2, <2>1, <2>2, <3>1
  <2> QED BY <1>8, <2>3, <2>4 DEF SmtpFails
<1>9. CASE MarkAccepted(j)
  <2>1. UNCHANGED sent /\ run[j].step = "accepted" /\ NextCopy(j)
    BY <1>9 DEF MarkAccepted
  <2>2. /\ run'[j].copies >= 1 /\ run'[j].tries < MaxAttempts
        /\ Left(run'[j]) = Spare(run[j].copies)
    BY <1>1, <2>1, NextCopyLeft
  <2>3. Left(run[j]) = Spare(run[j].copies)
    BY <1>1, <2>1, LeftFacts
  <2> QED BY <1>1, <1>2, <2>1, <2>2, <2>3
<1>10. CASE Finish(j)
  <2>1. UNCHANGED sent /\ run'[j] = Idle
    BY <1>1, <1>10 DEF Finish, worldVars
  <2> QED BY <1>1, <1>2, <2>1
<1> QED BY <1>5, <1>6, <1>7, <1>8, <1>9, <1>10, NoFault DEF RunNext

\* The account of one occurrence and of one run under a step of a run.
LEMMA CopiesRun ==
  ASSUME TypeInv, NEW i \in Jobs, RunNext(i), faults' = 0,
         \A j \in Jobs : JobInv(j) /\ RunInv(j), \A k \in Keys : KeyInv(k)
  PROVE  /\ \A k \in Keys : KeyInv(k)'
         /\ \A j \in Jobs : RunInv(j)'
<1> DEFINE paid == Paid(crashes)
           r    == run[i]
<1>1. /\ r # Idle /\ Key(i) \in Keys /\ Key(i) \in fired /\ r \in Running
      /\ UNCHANGED <<fired, crashes>> /\ paid \in Nat /\ Budget \in Nat
  BY RunStepShape, BudgetFacts DEF JobInv, PastIsPast, TypeInv, TypeOK
<1>2. /\ r.copies >= 1 /\ r.tries < MaxAttempts
      /\ sent[Key(i)] + Left(r) <= paid + Budget
  BY <1>1 DEF RunInv
<1>3. /\ \A k \in Keys : k # Key(i) => sent'[k] = sent[k]
      /\ sent'[Key(i)] <= sent[Key(i)] + Left(r)
      /\ run'[i] # Idle =>
           /\ run'[i].copies >= 1 /\ run'[i].tries < MaxAttempts
           /\ sent'[Key(i)] + Left(run'[i]) <= sent[Key(i)] + Left(r)
  BY <1>2, RunSpends
<1>4. Left(r) \in Nat /\ sent[Key(i)] \in Nat /\ sent'[Key(i)] \in Nat
  BY <1>1, <1>2, LeftFacts, TypeStep DEF TypeInv, TypeOK, Next
<1>5. Paid(crashes)' = paid
  BY <1>1 DEF Paid, Budget
<1>6. ASSUME NEW k \in Keys PROVE KeyInv(k)'
  <2>1. CASE k = Key(i)
    BY <1>1, <1>2, <1>3, <1>4, <1>5, <2>1, BudgetFacts DEF KeyInv
  <2>2. CASE k # Key(i)
    BY <1>1, <1>3, <1>5, <2>2 DEF KeyInv, Budget
  <2> QED BY <2>1, <2>2
<1>7. ASSUME NEW j \in Jobs PROVE RunInv(j)'
  <2>1. CASE j = i
    <3>1. run'[i] # Idle => Key(i)' = Key(i)
      BY RunKeeps DEF Key
    <3>2. ASSUME run'[i] # Idle PROVE sent'[Key(i)] + Left(run'[i]) <= paid + Budget
      <4>1. run'[i] \in Running
        BY <3>2, TypeStep DEF TypeInv, TypeOK, Next
      <4>2. Left(run'[i]) \in Nat
        BY <1>3, <3>2, <4>1, LeftFacts
      <4> QED BY <1>1, <1>2, <1>3, <1>4, <3>2, <4>2
    <3>3. Left(run[i])' = Left(run'[i])
      BY DEF Left
    <3> QED BY <1>3, <1>5, <2>1, <3>1, <3>2, <3>3 DEF RunInv, Budget
  <2>2. CASE j # i
    <3>1. run'[j] = run[j] /\ Key(j)' = Key(j) /\ Key(j) # Key(i)
      BY <2>2, RunKeeps DEF Key
    <3>2. run[j] # Idle => Key(j) \in Keys
      BY IdleAndRunning DEF TypeInv
    <3>3. Left(run[j])' = Left(run[j])
      BY <3>1 DEF Left
    <3> QED BY <1>3, <1>5, <3>1, <3>2, <3>3 DEF RunInv, Budget
  <2> QED BY <2>1, <2>2
<1> QED BY <1>6, <1>7

\* Where no run moves and nothing is forgotten the account stays as it is.
LEMMA CopiesQuiet ==
  ASSUME TypeInv, \A k \in Keys : KeyInv(k), \A j \in Jobs : RunInv(j),
         UNCHANGED <<sent, crashes>>, fired \subseteq fired',
         \A j \in Jobs : run'[j] # Idle =>
           /\ run[j] # Idle /\ run'[j].at = run[j].at /\ run'[j].step = run[j].step
           /\ run'[j].copies = run[j].copies /\ run'[j].tries = run[j].tries
  PROVE  /\ \A k \in Keys : KeyInv(k)'
         /\ \A j \in Jobs : RunInv(j)'
<1>1. Paid(crashes)' = Paid(crashes) /\ Budget' = Budget
  BY DEF Paid, Budget
<1>2. ASSUME NEW k \in Keys PROVE KeyInv(k)'
  BY <1>1 DEF KeyInv
<1>3. ASSUME NEW j \in Jobs PROVE RunInv(j)'
  <2> SUFFICES ASSUME run'[j] # Idle
               PROVE  /\ run'[j].copies >= 1 /\ run'[j].tries < MaxAttempts
                      /\ sent'[Key(j)'] + Left(run'[j]) <= Paid(crashes) + Budget
    BY <1>1 DEF RunInv, Left
  <2>1. Key(j)' = Key(j) /\ Left(run'[j]) = Left(run[j])
    BY DEF Key, Left
  <2> QED BY <2>1 DEF RunInv
<1> QED BY <1>2, <1>3

\* tick() pays for what it picks: until then a life of the process has sent none.
LEMMA CopiesTick ==
  ASSUME TypeInv, Tick, \A k \in Keys : KeyInv(k), \A j \in Jobs : JobInv(j) /\ RunInv(j)
  PROVE  /\ \A k \in Keys : KeyInv(k)'
         /\ \A j \in Jobs : RunInv(j)'
<1>1. UNCHANGED <<sent, crashes>> /\ fired \subseteq fired'
  BY DEF Tick, worldVars, boundVars
<1>2. Paid(crashes)' = Paid(crashes) /\ Budget' = Budget
  BY <1>1 DEF Paid, Budget
<1>3. ASSUME NEW k \in Keys PROVE KeyInv(k)'
  BY <1>1, <1>2 DEF KeyInv
<1>4. ASSUME NEW j \in Jobs PROVE RunInv(j)'
  <2>1. CASE Fires(j)
    <3> DEFINE k == <<j, FireAt(j)>>
               r == run'[j]
    <3>1. Ready(j) /\ FireAt(j) \in Instants /\ FireAt(j) \notin Of(fired, j)
      BY <2>1, FireAtIsDue, PickIsFresh DEF Fires, TypeInv
    <3>2. k \in Keys /\ k \notin fired
      BY <3>1 DEF Of, Keys
    <3>3. sent[k] <= Paid(crashes) /\ sent[k] \in Nat
      BY <3>2 DEF KeyInv, TypeInv, TypeOK
    <3>4. /\ r.step = "claim" /\ r.at = FireAt(j) /\ r.tries = 0 /\ r.copies = Copies
          /\ Key(j)' = k
      BY <2>1 DEF Tick, Key
    <3>5. r \in Running
      <4>1. r # Idle
        BY <3>4 DEF Idle
      <4> QED BY <4>1, TypeStep DEF TypeInv, TypeOK, Next
    <3>6. r.copies >= 1 /\ r.tries < MaxAttempts
      BY <3>4, SchedulerAssumption
    <3>7. Left(r) = Budget
      <4>1. Left(r) = Spare(Copies) + (MaxAttempts - 0)
        BY <3>4, <3>5, <3>6, LeftFacts
      <4> HIDE DEF r
      <4>2. Spare(Copies) \in Nat
        BY SchedulerAssumption, SpareFacts
      <4> QED BY <4>1, <4>2, SpareFacts
    <3>8. sent[k] + Left(r) <= Paid(crashes) + Budget
      <4>1. Paid(crashes) \in Nat /\ Budget \in Nat
        BY BudgetFacts DEF TypeInv, TypeOK
      <4> HIDE DEF r, k
      <4> QED BY <3>3, <3>7, <4>1
    <3>9. Left(run[j])' = Left(r)
      BY DEF Left
    <3> QED BY <1>1, <1>2, <3>4, <3>6, <3>8, <3>9 DEF RunInv
  <2>2. CASE ~Fires(j)
    <3>1. run'[j] = run[j] /\ Key(j)' = Key(j)
      BY <2>2 DEF Tick, Key
    <3>2. Left(run[j])' = Left(run[j])
      BY <3>1 DEF Left
    <3> QED BY <1>1, <1>2, <3>1, <3>2 DEF RunInv
  <2> QED BY <2>1, <2>2
<1> QED BY <1>3, <1>4

\* A crash forgets what was fired, and the next life may pay once more.
LEMMA CopiesCrash ==
  ASSUME TypeInv, Crash, \A k \in Keys : KeyInv(k)
  PROVE  /\ \A k \in Keys : KeyInv(k)'
         /\ \A j \in Jobs : RunInv(j)'
<1>1. UNCHANGED sent /\ crashes' = crashes + 1 /\ run' = NoRuns
  BY DEF Crash, worldVars
<1>2. crashes \in Nat /\ Budget \in Nat /\ Paid(crashes) \in Nat
  BY BudgetFacts DEF TypeInv, TypeOK
<1>3. Paid(crashes') = Paid(crashes) + Budget
  BY <1>1, <1>2, BudgetFacts
<1>4. ASSUME NEW k \in Keys PROVE KeyInv(k)'
  <2>1. sent[k] \in Nat /\ sent[k] <= Paid(crashes) + Budget
    BY DEF TypeInv, TypeOK, KeyInv
  <2>2. sent'[k] <= Paid(crashes') /\ sent'[k] <= Paid(crashes') + Budget
    BY <1>1, <1>2, <1>3, <2>1
  <2> QED BY <2>2 DEF KeyInv, Paid, Budget
<1> QED BY <1>1, <1>4 DEF RunInv, NoRuns

LEMMA CopiesInit == Init => CopiesInv
<1> SUFFICES ASSUME Init PROVE CopiesInv
  OBVIOUS
<1>1. run = NoRuns /\ sent = [k \in Keys |-> 0] /\ crashes = 0
  BY DEF Init
<1>2. Paid(crashes) \in Nat /\ Budget \in Nat
  BY <1>1, BudgetFacts
<1> QED BY <1>1, <1>2, CopiesParts DEF KeyInv, RunInv, NoRuns

LEMMA CopiesStep == SafeInv /\ CopiesInv /\ [Next]_vars => CopiesInv'
<1> SUFFICES ASSUME SafeInv, CopiesInv, [Next]_vars, faults' = 0
             PROVE  (\A k \in Keys : KeyInv(k)') /\ (\A j \in Jobs : RunInv(j)')
  BY DEF CopiesInv, KeyInv, RunInv, Paid
<1>1. faults = 0 /\ TypeInv
  BY FaultsStay DEF SafeInv
<1>2. /\ \A k \in Keys : KeyInv(k)
      /\ \A j \in Jobs : JobInv(j) /\ RunInv(j)
  BY <1>1, CopiesParts DEF SafeInv, LedgerInv, JobInv
<1>3. CASE \/ Advance \/ Launch \/ Hydrate \/ Save \/ UNCHANGED vars
           \/ \E j \in Jobs : JobRan(j) \/ ToggleJob(j) \/ \E rule \in Rules : EditJob(j, rule)
           \/ \E k \in Keys : WriteQueuedDelete(k)
  <2>1. UNCHANGED <<sent, crashes, run, fired>>
    BY <1>3 DEF Advance, Launch, Hydrate, Save, JobRan, ToggleJob, EditJob, WriteQueuedDelete,
                vars, mainVars, worldVars, boundVars
  <2> QED BY <1>1, <1>2, <2>1, CopiesQuiet
<1>4. CASE Restore
  <2>1. UNCHANGED <<sent, crashes, run>> /\ fired \subseteq fired'
    BY <1>4 DEF Restore, worldVars, boundVars
  <2> QED BY <1>1, <1>2, <2>1, CopiesQuiet
<1>5. CASE Sync
  <2>1. UNCHANGED <<sent, crashes, fired>>
    BY <1>5 DEF Sync, boundVars
  <2>2. ASSUME NEW j \in Jobs, run'[j] # Idle
        PROVE  /\ run[j] # Idle /\ run'[j].at = run[j].at /\ run'[j].step = run[j].step
               /\ run'[j].copies = run[j].copies /\ run'[j].tries = run[j].tries
    <3>1. run[j] # Idle /\ run'[j] = [run[j] EXCEPT !.attached = FALSE]
      BY <1>5, <2>2 DEF Sync
    <3>2. run[j] \in Running
      BY <1>1, <3>1, IdleAndRunning DEF TypeInv
    <3> QED BY <3>1, <3>2 DEF Running
  <2> QED BY <1>1, <1>2, <2>1, <2>2, CopiesQuiet
<1>6. CASE Tick
  BY <1>1, <1>2, <1>6, CopiesTick
<1>7. CASE Crash
  BY <1>1, <1>2, <1>7, CopiesCrash
<1>8. CASE \E i \in Jobs : RunNext(i)
  BY <1>1, <1>2, <1>8, CopiesRun
<1> QED BY <1>3, <1>4, <1>5, <1>6, <1>7, <1>8 DEF Next

\* The account of the copies holds in every reachable state.
THEOREM CopiesInvariance == Spec => []CopiesInv
BY SafeInvariance, CopiesInit, CopiesStep, PTL DEF Spec

\* Without a failed write or read the server takes an occurrence at most as
\* often as one claim allows, once for every life of the process.
THEOREM CopiesBoundedHolds == Spec => []CopiesBounded
<1>1. SafeInv /\ CopiesInv => CopiesBounded
  <2> SUFFICES ASSUME TypeInv, CopiesInv, faults = 0, NEW k \in Keys
               PROVE  sent[k] <= Copies * MaxAttempts * (1 + crashes)
    BY DEF SafeInv, CopiesBounded
  <2>1. sent[k] <= Paid(crashes) + Budget
    BY CopiesParts DEF KeyInv
  <2>2. crashes \in Nat
    BY DEF TypeInv, TypeOK
  <2> QED BY <2>1, <2>2, BudgetFacts
<1> QED BY <1>1, SafeInvariance, CopiesInvariance, PTL

-----------------------------------------------------------------------------
(* The tally of the runs: what a copy of a job counts and what it may yet   *)
(* count once more, against the runs that ended.  Of a table c of counts:   *)

ClosedIn(c, j, S)       == {t \in S : c[<<j, t>>] > 0}
CountedIn(c, j)         == UNION {{t} \X (1..c[<<j, t>>]) : t \in Instants}
CoversIn(c, j, runs, S) == runs + Cardinality(ClosedIn(c, j, S)) <= Cardinality(CountedIn(c, j))

LEMMA CountedFinite ==
  ASSUME NEW c \in [Keys -> Nat], NEW j \in Jobs
  PROVE  IsFiniteSet(CountedIn(c, j)) /\ Cardinality(CountedIn(c, j)) \in Nat
<1> DEFINE f == [t \in Instants |-> {t} \X (1..c[<<j, t>>])]
           T == {f[t] : t \in Instants}
<1>1. IsFiniteSet(Instants)
  BY InstantsFinite
<1>2. f \in Surjection(Instants, T)
  BY DEF Surjection
<1>3. IsFiniteSet(T)
  <2> HIDE DEF T, f
  <2> QED BY <1>1, <1>2, FS_Surjection
<1>4. ASSUME NEW t \in Instants PROVE IsFiniteSet(f[t])
  <2>1. c[<<j, t>>] \in Nat
    BY DEF Keys
  <2>2. IsFiniteSet({t})
    BY FS_Singleton
  <2>3. IsFiniteSet(1..c[<<j, t>>])
    BY <2>1, FS_Interval
  <2> QED BY <2>2, <2>3, FS_Product
<1>5. CountedIn(c, j) = UNION T
  BY DEF CountedIn
<1>6. \A S \in T : IsFiniteSet(S)
  BY <1>4
<1> HIDE DEF T
<1> QED BY <1>3, <1>5, <1>6, FS_UNION, FS_CardinalityType

LEMMA CountedMember ==
  ASSUME NEW c, NEW j, NEW p
  PROVE  p \in CountedIn(c, j) <=>
           \E t \in Instants : \E n \in 1..c[<<j, t>>] : p = <<t, n>>
<1>1. \A t, S : p \in {t} \X S <=> \E n \in S : p = <<t, n>>
  OBVIOUS
<1>2. p \in CountedIn(c, j) <=> \E t \in Instants : p \in {t} \X (1..c[<<j, t>>])
  BY DEF CountedIn
<1> QED BY <1>1, <1>2

LEMMA CountedMonotone ==
  ASSUME NEW c, NEW d, NEW j,
         \A t \in Instants : 1..c[<<j, t>>] \subseteq 1..d[<<j, t>>]
  PROVE  CountedIn(c, j) \subseteq CountedIn(d, j)
<1> SUFFICES ASSUME NEW p \in CountedIn(c, j) PROVE p \in CountedIn(d, j)
  OBVIOUS
<1>1. PICK t \in Instants : p \in {t} \X (1..c[<<j, t>>])
  BY DEF CountedIn
<1>2. p \in {t} \X (1..d[<<j, t>>])
  BY <1>1
<1> QED BY <1>2 DEF CountedIn

LEMMA ClosedFinite ==
  ASSUME NEW c, NEW j, NEW S \in SUBSET Instants
  PROVE  /\ ClosedIn(c, j, S) \subseteq Instants
         /\ IsFiniteSet(ClosedIn(c, j, S)) /\ Cardinality(ClosedIn(c, j, S)) \in Nat
<1>1. ClosedIn(c, j, S) \subseteq Instants
  BY DEF ClosedIn
<1> QED BY <1>1, InstantsFinite

\* A list with nothing closed but what another of a covered copy has.
LEMMA CoversLess ==
  ASSUME NEW c \in [Keys -> Nat], NEW j \in Jobs, NEW runs \in Nat,
         NEW S \in SUBSET Instants, NEW T \in SUBSET Instants,
         CoversIn(c, j, runs, T), ClosedIn(c, j, S) \subseteq T
  PROVE  CoversIn(c, j, runs, S)
<1>1. ClosedIn(c, j, S) \subseteq ClosedIn(c, j, T)
  BY DEF ClosedIn
<1>2. Cardinality(ClosedIn(c, j, S)) <= Cardinality(ClosedIn(c, j, T))
  BY <1>1, ClosedFinite, FS_Subset
<1> QED BY <1>2, ClosedFinite, CountedFinite DEF CoversIn

\* Where nothing is closed only the count matters.
LEMMA CoversOpen ==
  ASSUME NEW c \in [Keys -> Nat], NEW j \in Jobs, NEW runs \in Nat,
         NEW S \in SUBSET Instants, ClosedIn(c, j, S) = {},
         runs <= Cardinality(CountedIn(c, j))
  PROVE  CoversIn(c, j, runs, S)
BY FS_EmptySet, CountedFinite DEF CoversIn

LEMMA CoversCount ==
  ASSUME NEW c \in [Keys -> Nat], NEW j \in Jobs, NEW runs \in Nat,
         NEW S \in SUBSET Instants, CoversIn(c, j, runs, S)
  PROVE  /\ runs <= Cardinality(CountedIn(c, j))
         /\ ClosedIn(c, j, S) # {} => runs + 1 <= Cardinality(CountedIn(c, j))
<1>1. Cardinality(ClosedIn(c, j, S)) = 0 <=> ClosedIn(c, j, S) = {}
  BY ClosedFinite, FS_EmptySet
<1> QED BY <1>1, ClosedFinite, CountedFinite DEF CoversIn

\* The table d after one more run of the occurrence t has ended.
CountsOnce(c, d, j, t) ==
  /\ d[<<j, t>>] = c[<<j, t>>] + 1
  /\ \A u \in Instants : u # t => d[<<j, u>>] = c[<<j, u>>]

LEMMA CountedOnce ==
  ASSUME NEW c \in [Keys -> Nat], NEW d \in [Keys -> Nat], NEW j \in Jobs,
         NEW t \in Instants, CountsOnce(c, d, j, t)
  PROVE  Cardinality(CountedIn(d, j)) = Cardinality(CountedIn(c, j)) + 1
<1> DEFINE n == c[<<j, t>>]
           p == <<t, n + 1>>
<1>1. n \in Nat /\ d[<<j, t>>] = n + 1
  BY DEF Keys, CountsOnce
<1>2. p \notin CountedIn(c, j)
  <2>1. ASSUME NEW u \in Instants, NEW m \in 1..c[<<j, u>>], p = <<u, m>> PROVE FALSE
    BY <1>1, <2>1
  <2> QED BY <2>1, CountedMember
<1>3. CountedIn(d, j) = CountedIn(c, j) \cup {p}
  <2>1. ASSUME NEW u \in Instants, NEW m \in 1..d[<<j, u>>]
        PROVE  <<u, m>> = p \/ m \in 1..c[<<j, u>>]
    BY <1>1 DEF CountsOnce
  <2>2. \A u \in Instants : 1..c[<<j, u>>] \subseteq 1..d[<<j, u>>]
    BY <1>1 DEF CountsOnce, Keys
  <2>3. n + 1 \in 1..d[<<j, t>>]
    BY <1>1
  <2>4. ASSUME NEW q \in CountedIn(d, j) PROVE q \in CountedIn(c, j) \cup {p}
    <3>1. PICK u \in Instants : q \in {u} \X (1..d[<<j, u>>])
      BY DEF CountedIn
    <3>2. PICK m \in 1..d[<<j, u>>] : q = <<u, m>>
      BY <3>1
    <3>3. m \in 1..c[<<j, u>>] => q \in CountedIn(c, j)
      BY <3>2, CountedMember
    <3> QED BY <2>1, <3>2, <3>3
  <2>5. CountedIn(c, j) \subseteq CountedIn(d, j)
    BY <2>2, CountedMonotone
  <2>6. p \in CountedIn(d, j)
    BY <2>3, CountedMember
  <2> HIDE DEF p
  <2> QED BY <2>4, <2>5, <2>6
<1> HIDE DEF p
<1> QED BY <1>2, <1>3, CountedFinite, FS_AddElement

\* No covered copy is uncovered by one more run.
LEMMA CoversOnce ==
  ASSUME NEW c \in [Keys -> Nat], NEW d \in [Keys -> Nat], NEW j \in Jobs,
         NEW t \in Instants, CountsOnce(c, d, j, t),
         NEW runs \in Nat, NEW S \in SUBSET Instants, CoversIn(c, j, runs, S)
  PROVE  CoversIn(d, j, runs, S)
<1>1. ClosedIn(d, j, S) \subseteq ClosedIn(c, j, S) \cup {t}
  BY DEF ClosedIn, CountsOnce
<1>2. Cardinality(ClosedIn(d, j, S)) <= Cardinality(ClosedIn(c, j, S)) + 1
  <2>0. IsFiniteSet(ClosedIn(c, j, S)) /\ Cardinality(ClosedIn(c, j, S)) \in Nat
    BY ClosedFinite
  <2> DEFINE K == ClosedIn(c, j, S)
  <2>1. /\ IsFiniteSet(K \cup {t}) /\ Cardinality(K \cup {t}) \in Nat
        /\ Cardinality(K \cup {t}) <= Cardinality(K) + 1
    <3> HIDE DEF K
    <3>1. IsFiniteSet(K) /\ Cardinality(K) \in Nat
      BY <2>0 DEF K
    <3>2. Cardinality(K \cup {t}) = IF t \in K THEN Cardinality(K) ELSE Cardinality(K) + 1
      BY <3>1, FS_AddElement
    <3> QED BY <3>1, <3>2, FS_AddElement
  <2>2. Cardinality(ClosedIn(d, j, S)) <= Cardinality(ClosedIn(c, j, S) \cup {t})
    BY <1>1, <2>1, FS_Subset
  <2> QED BY <2>1, <2>2, ClosedFinite
<1> QED BY <1>2, CountedOnce, ClosedFinite, CountedFinite DEF CoversIn

\* A table that differs only in other jobs says the same of this one.
LEMMA CoversSame ==
  ASSUME NEW c \in [Keys -> Nat], NEW d \in [Keys -> Nat], NEW j \in Jobs,
         \A t \in Instants : d[<<j, t>>] = c[<<j, t>>]
  PROVE  /\ CountedIn(d, j) = CountedIn(c, j)
         /\ \A runs, S : S \subseteq Instants /\ CoversIn(c, j, runs, S) => CoversIn(d, j, runs, S)
<1>1. CountedIn(d, j) = CountedIn(c, j)
  <2>1. CountedIn(d, j) \subseteq CountedIn(c, j) /\ CountedIn(c, j) \subseteq CountedIn(d, j)
    BY CountedMonotone
  <2> QED BY <2>1
<1>2. \A S \in SUBSET Instants : ClosedIn(d, j, S) = ClosedIn(c, j, S)
  BY DEF ClosedIn
<1> QED BY <1>1, <1>2 DEF CoversIn

-----------------------------------------------------------------------------
(* The tally of one job, before and after a step. *)

\* The occurrences of a job that were counted.
Ended(j) == ClosedIn(completed, j, Instants)
Total(j)   == Cardinality(CountedIn(completed, j))

LEMMA TallyNow ==
  ASSUME TypeInv, NEW j \in Jobs, TallyOf(j)
  PROVE  /\ completed \in [Keys -> Nat] /\ now \in Nat /\ Total(j) \in Nat
         /\ CoversIn(completed, j, disk[j].runs, disk[j].occ)
         /\ CoversIn(completed, j, rend[j].runs, rend[j].occ)
         /\ CoversIn(completed, j, mj[j].runs, mj[j].occ)
         /\ \A i \in DOMAIN reports[j] :
              CoversIn(completed, j, reports[j][i].runs, reports[j][i].occ)
         /\ \A t \in Ended(j) : t <= now
         /\ run[j] # Idle => /\ run[j].runs <= Total(j)
                             /\ \A t \in Ended(j), u \in run[j].left : t < u
         /\ Of(pendingRecovery, j) \subseteq Of(fired, j)
         /\ Unsettled(j) => reports[j] = <<>>
         /\ Unsettled(j) /\ open /\ rend[j].on =>
              \A t \in Ended(j), u, w \in rend[j].occ : u < w => t < w
<1>1. completed \in [Keys -> Nat] /\ now \in Nat
  BY DEF TypeInv, TypeOK
<1>2. Total(j) \in Nat
  BY <1>1, CountedFinite DEF Total
<1> QED BY <1>1, <1>2
        DEF TallyOf, Covers, Closed, Counted, CoversIn, ClosedIn, CountedIn, Ended, Total

\* A copy of a job, and a report, has a count and a list of instants.
LEMMA CopyTypes ==
  ASSUME NEW x \in Job \cup Armed \cup {Absent} \cup Report
  PROVE  x.runs \in Nat /\ x.occ \in SUBSET Instants
<1>1. CASE x \in Job
  BY <1>1 DEF Job
<1>2. CASE x \in Armed
  BY <1>2 DEF Armed
<1>3. CASE x = Absent
  BY <1>3 DEF Absent
<1>4. CASE x \in Report
  BY <1>4 DEF Report
<1> QED BY <1>1, <1>2, <1>3, <1>4

LEMMA ReportTypes ==
  ASSUME NEW s \in Seq(Report), NEW i \in DOMAIN s
  PROVE  s[i].runs \in Nat /\ s[i].occ \in SUBSET Instants
<1>1. s[i] \in Report
  OBVIOUS
<1> QED BY <1>1, CopyTypes

LEMMA RunTypes ==
  ASSUME TypeInv, NEW j \in Jobs
  PROVE  run[j] # Idle => run[j].runs \in Nat /\ run[j].left \subseteq Instants
BY IdleAndRunning DEF Running, TypeInv

\* What there is to show after a step that counts no run of the job.
LEMMA TallySame ==
  ASSUME TypeInv, TypeInv', NEW j \in Jobs, TallyOf(j),
         \A t \in Instants : completed'[<<j, t>>] = completed[<<j, t>>],
         now' >= now, disk'[j] \in {disk[j], rend[j]},
         CoversIn(completed, j, rend'[j].runs, rend'[j].occ),
         CoversIn(completed, j, mj'[j].runs, mj'[j].occ),
         \A i \in DOMAIN reports'[j] :
           CoversIn(completed, j, reports'[j][i].runs, reports'[j][i].occ),
         run'[j] # Idle => /\ run'[j].runs <= Total(j)
                           /\ \A t \in Ended(j), u \in run'[j].left : t < u,
         Of(pendingRecovery', j) \subseteq Of(fired', j),
         Unsettled(j)' => reports'[j] = <<>>,
         Unsettled(j)' /\ open' /\ rend'[j].on =>
           \A t \in Ended(j), u, w \in rend'[j].occ : u < w => t < w
  PROVE  TallyOf(j)'
<1> DEFINE c == completed
           d == completed'
<1>1. c \in [Keys -> Nat] /\ d \in [Keys -> Nat] /\ now \in Nat /\ now' \in Nat
  BY DEF TypeInv, TypeOK
<1>2. /\ disk'[j] \in Job /\ rend'[j] \in Job /\ mj'[j] \in Armed \cup {Absent}
      /\ reports'[j] \in Seq(Report)
  BY DEF TypeInv, TypeOK
<1>3. /\ CountedIn(d, j) = CountedIn(c, j)
      /\ \A runs, S : S \subseteq Instants /\ CoversIn(c, j, runs, S) => CoversIn(d, j, runs, S)
  BY <1>1, CoversSame
<1>4. /\ CoversIn(d, j, rend'[j].runs, rend'[j].occ)
      /\ CoversIn(d, j, mj'[j].runs, mj'[j].occ)
  BY <1>2, <1>3, CopyTypes
<1>5. CoversIn(d, j, disk'[j].runs, disk'[j].occ)
  BY <1>2, <1>3, CopyTypes, TallyNow
<1>6. \A i \in DOMAIN reports'[j] : CoversIn(d, j, reports'[j][i].runs, reports'[j][i].occ)
  BY <1>2, <1>3, ReportTypes
<1>7. ClosedIn(d, j, Instants) = Ended(j)
  BY DEF ClosedIn, Ended
<1>8. \A t \in Ended(j) : t <= now'
  <2>1. Ended(j) \subseteq Nat
    BY DEF Ended, ClosedIn, Instants
  <2> QED BY <1>1, <2>1, TallyNow
<1> QED BY <1>3, <1>4, <1>5, <1>6, <1>7, <1>8
        DEF TallyOf, Covers, Closed, Counted, CoversIn, ClosedIn, CountedIn, Total

\* Nothing of the job moves but a run from one step to the next.
LEMMA TallyQuiet ==
  ASSUME TypeInv, TypeInv', NEW j \in Jobs, TallyOf(j),
         \A t \in Instants : completed'[<<j, t>>] = completed[<<j, t>>],
         now' >= now, UNCHANGED open, disk'[j] = disk[j], rend'[j] = rend[j],
         mj'[j] = mj[j], reports'[j] = reports[j],
         run'[j] # Idle => /\ run[j] # Idle
                           /\ run'[j].runs = run[j].runs /\ run'[j].left = run[j].left,
         Of(pendingRecovery', j) \subseteq Of(fired', j),
         Unsettled(j)' => Unsettled(j)
  PROVE  TallyOf(j)'
BY TallyNow, TallySame

LEMMA ShapeLater ==
  ASSUME NEW S \in SUBSET Instants, NEW n \in Nat, \A t \in S : t > n
  PROVE  \A t \in Shape(S) : t > n
<1> SUFFICES ASSUME NEW t \in S
             PROVE  LET later == {u \in Instants \ Quiet : u > t}
                    IN  later # {} => Earliest(later) > n
  BY DEF Shape
<1> DEFINE later == {u \in Instants \ Quiet : u > t}
<1> SUFFICES ASSUME later # {} PROVE Earliest(later) > n
  OBVIOUS
<1>1. later \subseteq Nat
  BY DEF Instants
<1>2. Earliest(later) \in later
  BY <1>1, EarliestIsLeast
<1> QED BY <1>1, <1>2 DEF Instants

\* A list made anew is of later instants.
LEMMA FreshLater ==
  ASSUME TypeInv, NEW rule \in Rules, NEW runs
  PROVE  \A t \in FreshOccurrences(rule, runs) : t > now
<1>1. now \in Nat
  BY DEF TypeInv, TypeOK
<1>2. ComputeOccurrences(rule, now, runs, Horizon) \in SUBSET Instants
  BY ComputedType
<1>3. \A t \in ComputeOccurrences(rule, now, runs, Horizon) : t > now
  BY ComputedAfter
<1> QED BY <1>1, <1>2, <1>3, ShapeLater DEF FreshOccurrences

\* The list of a job at boot: one owed instant of its own, and later ones.
LEMMA BootLater ==
  ASSUME TypeInv, NEW job \in Job
  PROVE  \A t \in BootOccurrences(job) :
           \/ t > now
           \/ t \in job.occ /\ t <= now /\ DueNow(job.rule, job.occ, now) = {t}
<1>1. now \in Nat /\ job.rule \in Rules /\ job.occ \subseteq Instants
  BY DEF TypeInv, TypeOK, Job
<1>2. Upcoming(job.rule, job.occ, job.runs, now) \in SUBSET Instants
  BY <1>1, UpcomingType
<1>3. \A t \in Upcoming(job.rule, job.occ, job.runs, now) : t > now
  BY <1>1, UpcomingLater, RuleFires
<1>4. \A t \in Shape(Upcoming(job.rule, job.occ, job.runs, now)) : t > now
  BY <1>1, <1>2, <1>3, ShapeLater
<1>5. \A t \in DueNow(job.rule, job.occ, now) :
        t \in job.occ /\ t <= now /\ DueNow(job.rule, job.occ, now) = {t}
  BY <1>1, DueNowIsLast DEF DueNow
<1> QED BY <1>4, <1>5 DEF BootOccurrences

\* Nothing later than now was counted.
LEMMA LaterIsOpen ==
  ASSUME TypeInv, NEW j \in Jobs, TallyOf(j), NEW S \in SUBSET Instants,
         \A t \in S : t > now
  PROVE  ClosedIn(completed, j, S) = {}
<1>1. ClosedIn(completed, j, S) \subseteq Ended(j) \cap S
  BY DEF ClosedIn, Ended
<1>2. now \in Nat /\ \A t \in Ended(j) : t <= now /\ t \in Nat
  BY TallyNow DEF Ended, ClosedIn, Instants
<1> QED BY <1>1, <1>2

\* The boot effect, edits and pauses make lists of later instants, and a report
\* counts what it says; a save writes a list the renderer holds.
LEMMA TallyRenderer ==
  ASSUME TypeInv, TypeInv', NEW j \in Jobs, TallyOf(j),
         \/ Hydrate \/ Save
         \/ \E i \in Jobs : JobRan(i) \/ ToggleJob(i) \/ \E rule \in Rules : EditJob(i, rule)
  PROVE  TallyOf(j)'
<1>1. /\ UNCHANGED <<now, phase, run, mj, fired, pendingResend, pendingRecovery, completed>>
      /\ disk'[j] \in {disk[j], rend[j]}
  BY DEF Hydrate, Save, JobRan, ToggleJob, EditJob, clockVars, lifeVars, mainVars, worldVars
<1>2. /\ Unsettled(j)' <=> Unsettled(j)
      /\ now' >= now
  BY <1>1 DEF Unsettled, Of, Pending, TypeInv, TypeOK
<1>3. /\ rend \in [Jobs -> Job] /\ rend[j] \in Job /\ disk[j] \in Job
      /\ rend[j].runs \in Nat /\ rend[j].occ \in SUBSET Instants
      /\ disk[j].runs \in Nat /\ disk[j].occ \in SUBSET Instants
      /\ reports \in [Jobs -> Seq(Report)] /\ reports[j] \in Seq(Report) /\ now \in Nat
      /\ completed \in [Keys -> Nat]
  BY CopyTypes DEF TypeInv, TypeOK
<1>4. ASSUME NEW S \in SUBSET Instants, \A t \in S : t > now
      PROVE  /\ CoversIn(completed, j, rend[j].runs, S)
             /\ \A t \in Ended(j), u, w \in S : u < w => t < w
  <2>1. CoversIn(completed, j, rend[j].runs, S)
    BY <1>3, <1>4, LaterIsOpen, CoversOpen, CoversCount, TallyNow
  <2>2. \A t \in Ended(j), w \in S : t < w
    <3>1. \A t \in Ended(j) : t <= now /\ t \in Nat
      BY TallyNow DEF Ended, ClosedIn, Instants
    <3> QED BY <1>3, <1>4, <3>1 DEF Instants
  <2> QED BY <2>1, <2>2
<1>5. CASE Hydrate
  <2>1. reports' = reports
    BY <1>5 DEF Hydrate
  <2>2. CASE disk[j].on
    <3> DEFINE boot == BootOccurrences(disk[j])
    <3>1. rend'[j].occ = boot /\ rend'[j].runs = disk[j].runs
      BY <1>3, <1>5, <2>2 DEF Hydrate, Job
    <3>2. boot \in SUBSET Instants
      BY <1>3, RendererListTypes DEF Job
    <3>3. \A t \in boot : \/ t > now
                          \/ /\ t \in disk[j].occ /\ t <= now
                             /\ DueNow(disk[j].rule, disk[j].occ, now) = {t}
      BY <1>3, BootLater
    <3>4. \A t \in Ended(j) : t <= now /\ t \in Nat
      BY TallyNow DEF Ended, ClosedIn, Instants
    <3> HIDE DEF boot
    <3>5. ClosedIn(completed, j, boot) \subseteq disk[j].occ
      <4>1. ClosedIn(completed, j, boot) \subseteq boot \cap Ended(j)
        BY <3>2 DEF ClosedIn, Ended
      <4> QED BY <1>3, <3>3, <3>4, <4>1
    <3>6. CoversIn(completed, j, rend'[j].runs, rend'[j].occ)
      BY <1>3, <3>1, <3>2, <3>5, CoversLess, TallyNow
    <3>7. \A t \in Ended(j), u, w \in boot : u < w => t < w
      <4> SUFFICES ASSUME NEW t \in Ended(j), NEW u \in boot, NEW w \in boot, u < w
                   PROVE  t < w
        OBVIOUS
      <4>1. u \in Nat /\ w \in Nat /\ t \in Nat /\ t <= now
        BY <3>2, <3>4 DEF Instants
      <4>2. ASSUME ~(w > now) PROVE FALSE
        <5>1. ~(u > now) /\ u # w
          BY <1>3, <4>1, <4>2
        <5>2. {u} = {w}
          BY <3>3, <4>2, <5>1
        <5> QED BY <5>1, <5>2
      <4> QED BY <1>3, <4>1, <4>2
    <3> QED BY <1>1, <1>2, <2>1, <3>1, <3>6, <3>7, TallyNow, TallySame
  <2>3. CASE ~disk[j].on
    <3>1. rend'[j] = disk[j]
      BY <1>5, <2>3 DEF Hydrate
    <3> QED BY <1>1, <1>2, <2>1, <2>3, <3>1, TallyNow, TallySame
  <2> QED BY <2>2, <2>3
<1>6. CASE Save
  <2>1. UNCHANGED <<open, rend, reports>>
    BY <1>6 DEF Save, lifeVars, rendVars
  <2> QED BY <1>1, <1>2, <2>1, TallyNow, TallySame
<1>7. ASSUME NEW i \in Jobs, ToggleJob(i) \/ \E rule \in Rules : EditJob(i, rule)
      PROVE  TallyOf(j)'
  <2>1. UNCHANGED <<open, reports>>
    BY <1>7 DEF ToggleJob, EditJob, lifeVars
  <2>2. CASE i # j
    <3>1. rend'[j] = rend[j]
      BY <1>3, <1>7, <2>2 DEF ToggleJob, EditJob
    <3> QED BY <1>1, <1>2, <2>1, <3>1, TallyNow, TallySame
  <2>3. CASE i = j
    <3>1. rend[j].rule \in Rules
      BY <1>3 DEF Job
    <3>2. /\ rend'[j].runs = rend[j].runs
          /\ \/ rend'[j].occ = {}
             \/ \E rule \in Rules : rend'[j].occ = FreshOccurrences(rule, rend[j].runs)
      <4>1. CASE ToggleJob(j)
        <5>1. rend'[j].occ = IF rend[j].on THEN {} ELSE FreshOccurrences(rend[j].rule, rend[j].runs)
          BY <1>3, <4>1 DEF ToggleJob, Job
        <5>2. rend'[j].runs = rend[j].runs
          BY <1>3, <4>1 DEF ToggleJob, Job
        <5> QED BY <3>1, <5>1, <5>2
      <4>2. ASSUME NEW rule \in Rules, EditJob(j, rule)
            PROVE  /\ rend'[j].occ = FreshOccurrences(rule, rend[j].runs)
                   /\ rend'[j].runs = rend[j].runs
        BY <1>3, <4>2 DEF EditJob, Job
      <4> QED BY <1>7, <2>3, <4>1, <4>2
    <3>3. rend'[j].occ \in SUBSET Instants /\ \A t \in rend'[j].occ : t > now
      BY <1>3, <3>2, RendererListTypes, FreshLater
    <3>4. /\ CoversIn(completed, j, rend[j].runs, rend'[j].occ)
          /\ \A t \in Ended(j), u, w \in rend'[j].occ : u < w => t < w
      BY <1>4, <3>3
    <3> QED BY <1>1, <1>2, <2>1, <3>2, <3>4, TallyNow, TallySame
  <2> QED BY <2>2, <2>3
<1>8. ASSUME NEW i \in Jobs, JobRan(i) PROVE TallyOf(j)'
  <2>1. UNCHANGED open
    BY <1>8 DEF JobRan, lifeVars
  <2>2. CASE i # j
    <3>1. rend'[j] = rend[j] /\ reports'[j] = reports[j]
      BY <1>3, <1>8, <2>2 DEF JobRan
    <3> QED BY <1>1, <1>2, <2>1, <3>1, TallyNow, TallySame
  <2>3. CASE i = j
    <3> DEFINE s == reports[j]
    <3>1. s # <<>> /\ s \in Seq(Report) /\ Head(s) = s[1] /\ 1 \in DOMAIN s
      BY <1>3, <1>8, <2>3 DEF JobRan
    <3>2. rend'[j].occ = s[1].occ /\ rend'[j].runs = s[1].runs
      BY <1>3, <1>8, <2>3, <3>1 DEF JobRan, Job
    <3>3. reports'[j] = Tail(s)
      BY <1>3, <1>8, <2>3 DEF JobRan
    <3>4. \A n \in DOMAIN Tail(s) : n + 1 \in DOMAIN s /\ Tail(s)[n] = s[n + 1]
      BY <3>1
    <3>5. CoversIn(completed, j, rend'[j].runs, rend'[j].occ)
      BY <3>1, <3>2, TallyNow
    <3>6. \A n \in DOMAIN reports'[j] :
            CoversIn(completed, j, reports'[j][n].runs, reports'[j][n].occ)
      BY <3>3, <3>4, TallyNow
    <3>7. ~Unsettled(j)
      BY <3>1, TallyNow
    <3> QED BY <1>1, <1>2, <3>5, <3>6, <3>7, TallyNow, TallySame
  <2> QED BY <2>2, <2>3
<1> QED BY <1>5, <1>6, <1>7, <1>8

\* A crash leaves what was saved.
LEMMA TallyCrash ==
  ASSUME TypeInv, TypeInv', NEW j \in Jobs, TallyOf(j), Crash
  PROVE  TallyOf(j)'
<1>1. /\ UNCHANGED <<now, disk, completed>> /\ rend' = disk /\ ~open' /\ reports'[j] = <<>>
      /\ mj'[j] = Absent /\ run'[j] = Idle /\ pendingRecovery' = {}
  BY DEF Crash, clockVars, worldVars, NoJobs, NoRuns, NoReports
<1>2. now \in Nat /\ completed \in [Keys -> Nat] /\ now' >= now
  BY <1>1 DEF TypeInv, TypeOK
<1>3. CoversIn(completed, j, mj'[j].runs, mj'[j].occ)
  <2>1. mj'[j].runs = 0 /\ mj'[j].occ = {}
    BY <1>1 DEF Absent
  <2>2. ClosedIn(completed, j, {}) = {} /\ 0 <= Cardinality(CountedIn(completed, j))
    BY <1>2, CountedFinite DEF ClosedIn
  <2> QED BY <1>2, <2>1, <2>2, CoversOpen
<1>4. Of(pendingRecovery', j) = {}
  BY <1>1 DEF Of
<1> QED BY <1>1, <1>2, <1>3, <1>4, TallyNow, TallySame

\* tick() drops a backlog or starts a run of what is listed later than now.
LEMMA TallyTick ==
  ASSUME TypeInv, TypeInv', NEW j \in Jobs, TallyOf(j), Tick
  PROVE  TallyOf(j)'
<1>1. /\ UNCHANGED <<now, phase, open, disk, rend, reports, completed,
                     pendingResend, pendingRecovery>>
      /\ fired \subseteq fired'
  BY DEF Tick, clockVars, lifeVars, rendVars, worldVars
<1>2. /\ now \in Nat /\ now' >= now /\ completed \in [Keys -> Nat]
      /\ mj[j] \in Armed \cup {Absent} /\ mj[j].runs \in Nat /\ mj[j].occ \in SUBSET Instants
  BY <1>1, CopyTypes DEF TypeInv, TypeOK
<1>3. (Unsettled(j)' <=> Unsettled(j)) /\ Of(pendingRecovery', j) \subseteq Of(fired', j)
  BY <1>1, TallyNow DEF Unsettled, Of, Pending
<1> DEFINE left == StillFuture(mj[j].occ, now)
<1>4. left \in SUBSET Instants /\ left \subseteq mj[j].occ /\ \A t \in left : t > now
  BY <1>2 DEF StillFuture
<1>5. CoversIn(completed, j, mj'[j].runs, mj'[j].occ)
  <2>1. mj'[j].runs = mj[j].runs /\ mj'[j].occ \in {mj[j].occ, left}
    <3>1. CASE Ready(j) /\ Skips(j)
      <4>1. mj[j] \in Armed
        BY <3>1, HereIsArmed DEF Ready, TypeInv
      <4>2. mj'[j] = [mj[j] EXCEPT !.occ = left, !.front = {}]
        BY <3>1 DEF Tick
      <4> QED BY <4>1, <4>2 DEF Armed
    <3>2. CASE ~(Ready(j) /\ Skips(j))
      BY <3>2 DEF Tick
    <3> QED BY <3>1, <3>2
  <2>2. CoversIn(completed, j, mj[j].runs, left)
    <3>1. ClosedIn(completed, j, left) \subseteq mj[j].occ
      BY <1>4 DEF ClosedIn
    <3> QED BY <1>2, <1>4, <3>1, CoversLess, TallyNow
  <2> QED BY <2>1, <2>2, TallyNow
<1>6. run'[j] # Idle => /\ run'[j].runs <= Total(j)
                        /\ \A t \in Ended(j), u \in run'[j].left : t < u
  <2>1. CASE Fires(j)
    <3>1. run'[j].runs = mj[j].runs /\ run'[j].left = left
      BY <2>1 DEF Tick
    <3>2. \A t \in Ended(j) : t <= now /\ t \in Nat
      BY TallyNow DEF Ended, ClosedIn, Instants
    <3>3. \A t \in Ended(j), u \in left : t < u
      BY <1>2, <1>4, <3>2 DEF Instants
    <3>4. mj[j].runs <= Total(j)
      BY <1>2, CoversCount, TallyNow DEF Total
    <3> QED BY <3>1, <3>3, <3>4
  <2>2. CASE ~Fires(j)
    <3>1. run'[j] = run[j]
      BY <2>2 DEF Tick
    <3> QED BY <3>1, TallyNow
  <2> QED BY <2>1, <2>2
<1> QED BY <1>1, <1>2, <1>3, <1>5, <1>6, TallyNow, TallySame

-----------------------------------------------------------------------------
(* The two steps that count. *)

\* What a run leaves on the list is later than everything counted.
LEMMA TopUpOpen ==
  ASSUME TypeInv, NEW j \in Jobs, TallyOf(j), JobInv(j), run[j] # Idle, NEW runs \in Nat
  PROVE  LET occ == TopUp(run[j].rule, run[j].left, runs, now)
         IN  /\ occ \in SUBSET Instants /\ occ \cap Ended(j) = {} /\ run[j].at \notin occ
<1> DEFINE left == run[j].left
           occ  == TopUp(run[j].rule, left, runs, now)
<1>1. /\ left \subseteq Instants /\ now \in Nat /\ run[j].rule \in Rules
      /\ run[j].at \in Instants
  BY IdleAndRunning DEF TypeInv, TypeOK, Running
<1>2. occ \in SUBSET Instants
  BY <1>1, TopUpType
<1>3. run[j].at \notin occ
  BY <1>1, TopUpUnfired DEF JobInv, PastIsPast, Key, Of
<1>4. ASSUME NEW t \in Ended(j), t \in occ PROVE FALSE
  <2>1. t \in Nat /\ t <= now /\ \A u \in left : t < u
    BY TallyNow DEF Ended, ClosedIn, Instants
  <2>2. \/ t \in left
        \/ t > IF left # {} THEN Latest(left) ELSE now
    BY <1>4, TopUpLater
  <2>3. left # {} => Latest(left) \in left
    BY <1>1, LatestIsGreatest
  <2> QED BY <1>1, <2>1, <2>2, <2>3 DEF Instants
<1> QED BY <1>2, <1>3, <1>4

\* After the completion of a recovered occurrence nothing on the list of the
\* working set was counted: an owed instant is later than all that was.
LEMMA SettledOpen ==
  ASSUME TypeInv, NEW j \in Jobs, TallyOf(j), JobInv(j), Sync, NEW t \in Recovered(j)
  PROVE  /\ t \in Instants /\ t <= now /\ t \in rend[j].occ
         /\ Recovered(j) = {t} /\ rend[j].on /\ Unsettled(j) /\ run[j] = Idle
         /\ Settled(j).runs = rend[j].runs + 1 /\ Settled(j).front = {}
         /\ Settled(j).occ \cap (Ended(j) \cup {t}) = {}
<1> DEFINE m    == Rearmed(j)
           left == m.occ
           list == TopUp(m.rule, left, rend[j].runs + 1, now)
<1>1. /\ t \in Instants /\ <<j, t>> \in pendingRecovery /\ rend[j].on /\ t \in rend[j].occ
  BY DEF Recovered
<1>2. t \in Of(Pending, j) /\ t \in Of(fired, j)
  BY <1>1, TallyNow DEF Of, Pending
<1>3. /\ \A u \in Of(Pending, j) : u = t
      /\ Of(pendingResend, j) = {} /\ run[j] = Idle /\ t <= now /\ t \in Nat
  <2>1. RecoveryFirst(j) /\ PastIsPast(j)
    BY DEF JobInv
  <2>2. \A u \in Of(Pending, j) : u = t
    BY <1>2, <2>1 DEF RecoveryFirst
  <2>3. Of(pendingResend, j) = {} /\ run[j] = Idle
    BY <1>2, <2>1 DEF RecoveryFirst
  <2>4. t <= now /\ t \in Nat
    BY <1>1, <1>2, <2>1 DEF PastIsPast, Instants
  <2> QED BY <2>2, <2>3, <2>4
<1>4. Recovered(j) = {t}
  BY <1>1, <1>3 DEF Recovered, Of, Pending
<1>5. Unsettled(j)
  BY <1>2 DEF Unsettled
<1>6. /\ m \in Armed /\ m.runs = rend[j].runs /\ m.occ \in SUBSET Instants
      /\ m.front = {} /\ t \notin m.occ
  <2>1. m \in Armed
    BY <1>1, RearmedType DEF TypeInv
  <2>2. m.runs = rend[j].runs /\ m.front = Forced(j, m.occ)
    BY <1>1 DEF Rearmed
  <2>3. Forced(j, m.occ) = {}
    BY <1>3 DEF Forced, Of
  <2>4. t \notin m.occ
    BY <1>1, <1>2, RearmedUnfired
  <2> QED BY <2>1, <2>2, <2>3, <2>4 DEF Armed
<1>7. /\ Settled(j).runs = rend[j].runs + 1 /\ Settled(j).front = {} /\ Settled(j).occ = list
  <2>1. Cardinality(Recovered(j)) = 1
    BY <1>4, FS_Singleton
  <2>2. (m.occ \cup m.front) \ Recovered(j) = left
    BY <1>4, <1>6
  <2>3. Settled(j) = [m EXCEPT !.runs = rend[j].runs + 1, !.occ = list \ m.front]
    BY <1>6, <2>1, <2>2 DEF Settled
  <2> HIDE DEF m, list
  <2> QED BY <1>6, <2>3 DEF Armed
<1>8. /\ now \in Nat /\ rend[j].rule \in Rules /\ rend[j].occ \subseteq Instants
      /\ \A u \in Ended(j) : u <= now /\ u \in Nat
  BY TallyNow DEF TypeInv, TypeOK, Job, Ended, ClosedIn, Instants
<1>9. \A w \in m.occ : \A u \in Ended(j) \cup {t} : u < w
  <2> SUFFICES ASSUME NEW w \in m.occ, NEW u \in Ended(j) \cup {t} PROVE u < w
    OBVIOUS
  <2>1. w \in Nat /\ u \in Nat /\ u <= now
    BY <1>3, <1>6, <1>8 DEF Instants
  <2>2. CASE w \in Upcoming(rend[j].rule, rend[j].occ, rend[j].runs, now)
    <3>1. w > now
      BY <1>8, <2>2, UpcomingLater, RuleFires
    <3> QED BY <1>8, <2>1, <3>1
  <2>3. CASE w \in Owed(j)
    <3>1. w \in DueNow(rend[j].rule, rend[j].occ, now)
      BY <2>3 DEF Owed
    <3>2. w \in rend[j].occ /\ t <= w
      BY <1>1, <1>3, <1>8, <3>1, DueNowIsLast
    <3>3. t < w
      BY <1>3, <1>6, <2>1, <3>2
    <3>4. \A v \in Ended(j) : v < w
      <4>1. open
        BY DEF Sync
      <4> QED BY <1>1, <1>5, <3>2, <3>3, <4>1, TallyNow
    <3> QED BY <3>3, <3>4
  <2> QED BY <1>1, <2>2, <2>3 DEF Rearmed
<1>10. \A u \in Ended(j) \cup {t} : u \notin list
  <2> SUFFICES ASSUME NEW u \in Ended(j) \cup {t}, u \in list PROVE FALSE
    OBVIOUS
  <2>1. \/ u \in left
        \/ u > IF left # {} THEN Latest(left) ELSE now
    BY TopUpLater
  <2>2. left # {} => Latest(left) \in left
    BY <1>6, LatestIsGreatest
  <2>3. u \in Nat /\ u <= now /\ \A w \in left : w \in Nat /\ u < w
    BY <1>3, <1>6, <1>8, <1>9 DEF Instants
  <2> HIDE DEF left
  <2> QED BY <1>8, <2>1, <2>2, <2>3
<1> QED BY <1>1, <1>3, <1>4, <1>5, <1>7, <1>10

\* What there is to show after a step that counts one more run of the job.
LEMMA TallyOnce ==
  ASSUME TypeInv, TypeInv', NEW j \in Jobs, TallyOf(j),
         NEW t \in Instants, CountsOnce(completed, completed', j, t),
         now' = now, t <= now, disk'[j] = disk[j], rend'[j] = rend[j],
         CoversIn(completed', j, mj'[j].runs, mj'[j].occ),
         \A i \in DOMAIN reports'[j] :
           CoversIn(completed', j, reports'[j][i].runs, reports'[j][i].occ),
         run'[j] # Idle => /\ run'[j].runs <= Total(j) + 1
                           /\ \A u \in Ended(j) \cup {t}, w \in run'[j].left : u < w,
         Of(pendingRecovery', j) \subseteq Of(fired', j),
         ~Unsettled(j)'
  PROVE  TallyOf(j)'
<1> DEFINE c == completed
           d == completed'
<1>1. /\ c \in [Keys -> Nat] /\ d \in [Keys -> Nat] /\ disk[j] \in Job /\ rend[j] \in Job
  BY DEF TypeInv, TypeOK
<1>2. Cardinality(CountedIn(d, j)) = Total(j) + 1
  BY <1>1, CountedOnce DEF Total
<1>3. /\ CoversIn(d, j, disk'[j].runs, disk'[j].occ)
      /\ CoversIn(d, j, rend'[j].runs, rend'[j].occ)
  BY <1>1, CopyTypes, CoversOnce, TallyNow
<1>4. ClosedIn(d, j, Instants) \subseteq Ended(j) \cup {t}
  BY DEF ClosedIn, Ended, CountsOnce
<1>5. \A u \in ClosedIn(d, j, Instants) : u <= now'
  BY <1>4, TallyNow
<1> QED BY <1>2, <1>3, <1>4, <1>5
        DEF TallyOf, Covers, Closed, Counted, CoversIn, ClosedIn, CountedIn, Total

LEMMA ReportAppended ==
  ASSUME NEW s \in Seq(Report), NEW r, NEW i \in DOMAIN Append(s, r)
  PROVE  \/ i \in DOMAIN s /\ Append(s, r)[i] = s[i]
         \/ Append(s, r)[i] = r
OBVIOUS

\* The end of a run, counted or not.
LEMMA TallyEnd ==
  ASSUME TypeInv, TypeInv', NEW j \in Jobs, TallyOf(j), JobInv(j),
         CompleteRun(j) \/ DecideSkip(j)
  PROVE  TallyOf(j)'
<1> DEFINE more == IF CompleteRun(j) THEN 1 ELSE 0
           runs == run[j].runs + more
           occ  == TopUp(run[j].rule, run[j].left, runs, now)
           t    == run[j].at
<1>1. /\ run[j] # Idle /\ run[j] \in Running /\ Key(j) \in Keys /\ phase = "up"
      /\ UNCHANGED <<now, phase, open, disk, rend, fired, pendingResend, pendingRecovery>>
  BY RunStepShape DEF RunNext
<1>2. /\ completed \in [Keys -> Nat] /\ completed' \in [Keys -> Nat] /\ now \in Nat
      /\ mj \in [Jobs -> Armed \cup {Absent}] /\ reports \in [Jobs -> Seq(Report)]
      /\ run \in [Jobs -> Running \cup {Idle}]
      /\ run[j].runs \in Nat /\ run[j].left \subseteq Instants /\ t \in Instants
  BY <1>1 DEF TypeInv, TypeOK, Running
<1>3. runs \in Nat
  BY <1>2
<1>4. occ \in SUBSET Instants /\ occ \cap Ended(j) = {} /\ t \notin occ
  BY <1>1, <1>3, TopUpOpen
<1>5. Conclude(j, runs) /\ Goto(j, "finish")
  BY <1>2 DEF CompleteRun, DecideSkip
<1> HIDE DEF occ, runs
<1>6. \/ mj'[j] = mj[j]
      \/ mj'[j].runs = runs /\ mj'[j].occ = occ
  <2>1. CASE run[j].attached
    <3>1. mj[j] \in Armed
      BY <2>1, HereIsArmed DEF TypeInv, AttachedIsArmed
    <3>2. mj' = [mj EXCEPT ![j].occ = occ, ![j].front = {}, ![j].runs = runs]
      BY <1>5, <2>1 DEF Conclude, occ
    <3> QED BY <1>2, <3>1, <3>2 DEF Armed
  <2>2. CASE ~run[j].attached
    BY <1>5, <2>2 DEF Conclude
  <2> QED BY <2>1, <2>2
<1>7. reports'[j] = Append(reports[j], [occ |-> occ, runs |-> runs])
  BY <1>2, <1>5 DEF Conclude, occ
<1>8. run'[j].runs = run[j].runs /\ run'[j].left = run[j].left
  BY <1>1, <1>2, <1>5 DEF Goto, Running
<1>9. ~Unsettled(j)' /\ Of(pendingRecovery', j) \subseteq Of(fired', j)
  BY <1>1, TallyNow DEF Unsettled, JobInv, RecoveryFirst, Of, Pending
<1>10. /\ run[j].runs <= Total(j) /\ Total(j) \in Nat
       /\ \A u \in Ended(j), w \in run[j].left : u < w
  BY <1>1, TallyNow
<1>11. mj[j].runs \in Nat /\ mj[j].occ \in SUBSET Instants
  BY <1>2, CopyTypes
<1>12. CASE CompleteRun(j)
  <2>1. completed' = [completed EXCEPT ![Key(j)] = @ + 1]
    BY <1>12 DEF CompleteRun
  <2>2. CountsOnce(completed, completed', j, t)
    BY <1>1, <1>2, <2>1 DEF CountsOnce, Key, Keys
  <2>3. Cardinality(CountedIn(completed', j)) = Total(j) + 1
    BY <1>2, <2>2, CountedOnce DEF Total
  <2>4. CoversIn(completed', j, runs, occ)
    <3>1. ClosedIn(completed', j, occ) = {}
      <4>1. ClosedIn(completed', j, occ) \subseteq (Ended(j) \cup {t}) \cap occ
        BY <1>4, <2>2 DEF ClosedIn, Ended, CountsOnce
      <4> QED BY <1>4, <4>1
    <3>2. runs <= Cardinality(CountedIn(completed', j))
      BY <1>2, <1>10, <1>12, <2>3 DEF runs
    <3> QED BY <1>2, <1>3, <1>4, <3>1, <3>2, CoversOpen
  <2>5. CoversIn(completed', j, mj'[j].runs, mj'[j].occ)
    BY <1>2, <1>6, <1>11, <2>2, <2>4, CoversOnce, TallyNow
  <2>6. \A i \in DOMAIN reports'[j] :
          CoversIn(completed', j, reports'[j][i].runs, reports'[j][i].occ)
    <3> SUFFICES ASSUME NEW i \in DOMAIN reports'[j]
                 PROVE  CoversIn(completed', j, reports'[j][i].runs, reports'[j][i].occ)
      OBVIOUS
    <3>1. \/ i \in DOMAIN reports[j] /\ reports'[j][i] = reports[j][i]
          \/ reports'[j][i] = [occ |-> occ, runs |-> runs]
      BY <1>2, <1>7, ReportAppended
    <3>2. CASE i \in DOMAIN reports[j] /\ reports'[j][i] = reports[j][i]
      BY <1>2, <2>2, <3>2, CoversOnce, ReportTypes, TallyNow
    <3> QED BY <2>4, <3>1, <3>2
  <2>7. t <= now /\ \A u \in Ended(j) \cup {t}, w \in run[j].left : u < w
    BY <1>1, <1>2, <1>10 DEF JobInv, PastIsPast, Key, Of
  <2>8. run'[j].runs <= Total(j) + 1
    BY <1>2, <1>8, <1>10
  <2>9. now' = now /\ disk'[j] = disk[j] /\ rend'[j] = rend[j] /\ t \in Instants
    BY <1>1, <1>2
  <2> HIDE DEF t
  <2> QED BY <1>8, <1>9, <2>2, <2>5, <2>6, <2>7, <2>8, <2>9, TallyOnce
<1>13. CASE ~CompleteRun(j)
  <2>1. completed' = completed
    BY <1>13 DEF DecideSkip, worldVars
  <2>2. CoversIn(completed, j, runs, occ)
    <3>1. ClosedIn(completed, j, occ) = {}
      BY <1>4 DEF ClosedIn, Ended
    <3>2. runs <= Cardinality(CountedIn(completed, j))
      BY <1>2, <1>10, <1>13 DEF runs, Total
    <3> QED BY <1>2, <1>3, <1>4, <3>1, <3>2, CoversOpen
  <2>3. CoversIn(completed, j, mj'[j].runs, mj'[j].occ)
    BY <1>6, <2>2, TallyNow
  <2>4. \A i \in DOMAIN reports'[j] :
          CoversIn(completed, j, reports'[j][i].runs, reports'[j][i].occ)
    <3> SUFFICES ASSUME NEW i \in DOMAIN reports'[j]
                 PROVE  CoversIn(completed, j, reports'[j][i].runs, reports'[j][i].occ)
      OBVIOUS
    <3>1. \/ i \in DOMAIN reports[j] /\ reports'[j][i] = reports[j][i]
          \/ reports'[j][i] = [occ |-> occ, runs |-> runs]
      BY <1>2, <1>7, ReportAppended
    <3> QED BY <2>2, <3>1, TallyNow
  <2>5. now' >= now
    BY <1>1, <1>2
  <2> QED BY <1>1, <1>8, <1>9, <1>10, <2>1, <2>3, <2>4, <2>5, TallyNow, TallySame
<1> QED BY <1>12, <1>13

\* A sync hands the working set the renderer's copy, and counts what the ledger
\* proves sent while the renderer's list still has it.
LEMMA TallySync ==
  ASSUME TypeInv, TypeInv', NEW j \in Jobs, TallyOf(j), JobInv(j), Sync
  PROVE  TallyOf(j)'
<1>1. /\ UNCHANGED <<now, phase, open, disk, rend, fired>> /\ phase = "up"
      /\ mj'[j] = Settled(j)
      /\ pendingResend' \subseteq pendingResend /\ pendingRecovery' \subseteq pendingRecovery
  BY DEF Sync, clockVars, lifeVars
<1>2. /\ now' >= now /\ completed \in [Keys -> Nat] /\ completed' \in [Keys -> Nat]
      /\ now \in Nat /\ rend[j] \in Job /\ disk[j] \in Job
      /\ rend[j].runs \in Nat /\ rend[j].occ \in SUBSET Instants
      /\ mj'[j] \in Armed \cup {Absent}
  BY <1>1, CopyTypes DEF TypeInv, TypeOK
<1>3. /\ Unsettled(j)' => Unsettled(j)
      /\ Of(pendingRecovery', j) \subseteq Of(fired', j)
  BY <1>1, TallyNow DEF Unsettled, Of, Pending
<1>4. \A t \in Instants : completed'[<<j, t>>] = IF t \in Recovered(j)
                                                 THEN AtLeast(completed[<<j, t>>], 1)
                                                 ELSE completed[<<j, t>>]
  BY DEF Sync, Keys
<1>5. reports'[j] = IF Recovered(j) = {} THEN reports[j]
                    ELSE Append(reports[j], [occ  |-> Settled(j).occ \cup Settled(j).front,
                                             runs |-> Settled(j).runs])
  BY DEF Sync
<1>6. run'[j] # Idle => /\ run[j] # Idle
                        /\ run'[j].runs = run[j].runs /\ run'[j].left = run[j].left
  <2> SUFFICES ASSUME run'[j] # Idle
               PROVE  /\ run[j] # Idle
                      /\ run'[j].runs = run[j].runs /\ run'[j].left = run[j].left
    OBVIOUS
  <2>1. run[j] # Idle /\ run'[j] = [run[j] EXCEPT !.attached = FALSE]
    BY DEF Sync
  <2>2. run[j] \in Running
    BY <2>1, IdleAndRunning DEF TypeInv
  <2> QED BY <2>1, <2>2 DEF Running
<1>7. CASE Recovered(j) = {}
  <2>1. \A t \in Instants : completed'[<<j, t>>] = completed[<<j, t>>]
    BY <1>4, <1>7
  <2>2. mj'[j] = Rearmed(j)
    BY <1>1, <1>7 DEF Settled
  <2>3. CoversIn(completed, j, mj'[j].runs, mj'[j].occ)
    <3>1. CASE rend[j].on
      <4> DEFINE occ == mj'[j].occ
      <4>1. mj'[j].runs = rend[j].runs
            /\ occ = Owed(j) \cup Upcoming(rend[j].rule, rend[j].occ, rend[j].runs, now)
        BY <2>2, <3>1 DEF Rearmed
      <4>2. occ \in SUBSET Instants
        BY <1>2, CopyTypes
      <4>3. \A t \in occ : t \in rend[j].occ \/ t > now
        <5>1. rend[j].rule \in Rules /\ rend[j].occ \subseteq Instants
          BY <1>2 DEF Job
        <5>2. \A t \in Owed(j) : t \in rend[j].occ
          BY <5>1, DueNowIsLast DEF Owed
        <5>3. \A t \in Upcoming(rend[j].rule, rend[j].occ, rend[j].runs, now) : t > now
          BY <1>2, <5>1, UpcomingLater, RuleFires
        <5> QED BY <4>1, <5>2, <5>3
      <4> HIDE DEF occ
      <4>4. ClosedIn(completed, j, occ) \subseteq rend[j].occ
        <5>1. ClosedIn(completed, j, occ) \subseteq occ \cap Ended(j)
          BY <4>2 DEF ClosedIn, Ended
        <5>2. \A t \in Ended(j) : t <= now /\ t \in Nat
          BY TallyNow DEF Ended, ClosedIn, Instants
        <5> QED BY <1>2, <4>3, <5>1, <5>2
      <4>5. CoversIn(completed, j, rend[j].runs, occ)
        BY <1>2, <4>2, <4>4, CoversLess, TallyNow
      <4> QED BY <4>1, <4>5 DEF occ
    <3>2. CASE ~rend[j].on
      <4>1. mj'[j].runs = 0 /\ mj'[j].occ = {}
        BY <2>2, <3>2 DEF Rearmed, Absent
      <4>2. ClosedIn(completed, j, {}) = {} /\ 0 <= Cardinality(CountedIn(completed, j))
        BY <1>2, CountedFinite DEF ClosedIn
      <4> QED BY <1>2, <4>1, <4>2, CoversOpen
    <3> QED BY <3>1, <3>2
  <2> QED BY <1>1, <1>2, <1>3, <1>5, <1>6, <1>7, <2>1, <2>3, TallyNow, TallySame
<1>8. ASSUME NEW t \in Recovered(j) PROVE TallyOf(j)'
  <2> DEFINE runs == Settled(j).runs
             occ  == Settled(j).occ
  <2>1. /\ t \in Instants /\ t <= now /\ t \in rend[j].occ
        /\ Recovered(j) = {t} /\ rend[j].on /\ Unsettled(j) /\ run[j] = Idle
        /\ runs = rend[j].runs + 1 /\ Settled(j).front = {}
        /\ occ \cap (Ended(j) \cup {t}) = {}
    BY SettledOpen
  <2>2. occ \in SUBSET Instants /\ runs \in Nat
    BY <1>1, <1>2, CopyTypes
  <2> HIDE DEF runs, occ
  <2>3. reports'[j] = <<[occ |-> occ, runs |-> runs]>>
    <3>1. reports[j] = <<>>
      BY <2>1, TallyNow
    <3>2. reports'[j] = Append(<<>>, [occ |-> occ, runs |-> runs])
      BY <1>5, <2>1, <3>1 DEF occ, runs
    <3> QED BY <3>2
  <2>4. ~Unsettled(j)'
    <3>1. pendingResend' = pendingResend \ {k \in Keys : rend[k[1]].on}
          /\ pendingRecovery' = pendingRecovery \ {k \in Keys : rend[k[1]].on}
      BY DEF Sync
    <3>2. \A u \in Instants : <<j, u>> \in {k \in Keys : rend[k[1]].on}
      BY <2>1 DEF Keys
    <3> QED BY <1>1, <3>1, <3>2 DEF Unsettled, Of, Pending
  <2>5. run'[j] = Idle
    BY <1>6, <2>1
  <2>6. CASE completed[<<j, t>>] = 0
    <3>1. CountsOnce(completed, completed', j, t)
      BY <1>4, <2>1, <2>6 DEF CountsOnce, AtLeast
    <3>2. Cardinality(CountedIn(completed', j)) = Total(j) + 1
      BY <1>2, <2>1, <3>1, CountedOnce DEF Total
    <3>3. ClosedIn(completed', j, occ) = {}
      <4>1. ClosedIn(completed', j, occ) \subseteq (Ended(j) \cup {t}) \cap occ
        BY <2>2, <3>1 DEF ClosedIn, Ended, CountsOnce
      <4> QED BY <2>1, <4>1
    <3>4. runs <= Cardinality(CountedIn(completed', j))
      <4>1. rend[j].runs <= Total(j) /\ Total(j) \in Nat
        BY <1>2, CoversCount, TallyNow DEF Total
      <4> QED BY <1>2, <2>1, <3>2, <4>1
    <3>5. CoversIn(completed', j, runs, occ)
      BY <1>2, <2>2, <3>3, <3>4, CoversOpen
    <3>6. mj'[j].runs = runs /\ mj'[j].occ = occ
      BY <1>1 DEF runs, occ
    <3>7. \A i \in DOMAIN reports'[j] :
            CoversIn(completed', j, reports'[j][i].runs, reports'[j][i].occ)
      BY <2>3, <3>5
    <3> QED BY <1>1, <1>3, <2>1, <2>4, <2>5, <3>1, <3>5, <3>6, <3>7, TallyOnce
  <2>7. CASE completed[<<j, t>>] # 0
    <3>0. completed[<<j, t>>] \in Nat /\ completed[<<j, t>>] > 0
      BY <1>2, <2>1, <2>7 DEF Keys
    <3>1. \A u \in Instants : completed'[<<j, u>>] = completed[<<j, u>>]
      BY <1>4, <2>1, <3>0 DEF AtLeast
    <3>2. t \in ClosedIn(completed, j, rend[j].occ)
      BY <2>1, <3>0 DEF ClosedIn
    <3>3. runs <= Cardinality(CountedIn(completed, j))
      BY <1>2, <2>1, <3>2, CoversCount, TallyNow
    <3>4. ClosedIn(completed, j, occ) = {}
      BY <2>1, <2>2 DEF ClosedIn, Ended
    <3>5. CoversIn(completed, j, runs, occ)
      BY <1>2, <2>2, <3>3, <3>4, CoversOpen
    <3>6. mj'[j].runs = runs /\ mj'[j].occ = occ
      BY <1>1 DEF runs, occ
    <3>7. \A i \in DOMAIN reports'[j] :
            CoversIn(completed, j, reports'[j][i].runs, reports'[j][i].occ)
      BY <2>3, <3>5
    <3> QED BY <1>1, <1>2, <1>3, <2>4, <2>5, <3>1, <3>5, <3>6, <3>7, TallyNow, TallySame
  <2> QED BY <2>6, <2>7
<1> QED BY <1>7, <1>8

\* A step of a run, of this job or of another.
LEMMA TallyRun ==
  ASSUME TypeInv, TypeInv', NEW j \in Jobs, TallyOf(j), JobInv(j), NEW i \in Jobs, RunNext(i)
  PROVE  TallyOf(j)'
<1>1. /\ UNCHANGED <<now, phase, open, disk, rend, fired, pendingResend, pendingRecovery>>
      /\ run[i] # Idle /\ Key(i) \in Keys
  BY RunStepShape
<1>2. now' >= now /\ (Unsettled(j)' <=> Unsettled(j))
  BY <1>1 DEF Unsettled, Of, Pending, TypeInv, TypeOK
<1>3. CASE i = j /\ (CompleteRun(i) \/ DecideSkip(i))
  BY <1>3, TallyEnd
<1>4. CASE i = j /\ ~(CompleteRun(i) \/ DecideSkip(i))
  <2>1. UNCHANGED <<mj, reports, completed>>
    BY <1>4 DEF RunNext, Claim, DecideSend, SecretUnreadable, MarkSending, SmtpAccepts,
                SmtpFails, MarkAccepted, Finish, rendVars, worldVars
  <2>2. run'[j] # Idle => /\ run[j] # Idle
                          /\ run'[j].runs = run[j].runs /\ run'[j].left = run[j].left
    <3>1. run[j] \in Running /\ run \in [Jobs -> Running \cup {Idle}]
      BY <1>4, RunStepShape DEF TypeInv, TypeOK
    <3>2. \A s : /\ [run EXCEPT ![j].step = s][j].runs = run[j].runs
                 /\ [run EXCEPT ![j].step = s][j].left = run[j].left
      BY <3>1 DEF Running
    <3>3. \A s, a, b : LET r == [run EXCEPT ![j].step = s, ![j].copies = a, ![j].tries = b]
                       IN  r[j].runs = run[j].runs /\ r[j].left = run[j].left
      BY <3>1 DEF Running
    <3>4. \A s, b : LET r == [run EXCEPT ![j].step = s, ![j].tries = b]
                    IN  r[j].runs = run[j].runs /\ r[j].left = run[j].left
      BY <3>1 DEF Running
    <3>5. NextCopy(j) => run'[j].runs = run[j].runs /\ run'[j].left = run[j].left
      BY <3>1, <3>2, <3>3 DEF NextCopy, Goto, Running
    <3>6. CASE Finish(j) \/ SecretUnreadable(j)
      BY <3>1, <3>6 DEF Finish, SecretUnreadable
    <3>7. CASE Claim(j) \/ DecideSend(j) \/ MarkSending(j) \/ SmtpAccepts(j)
      <4>1. \E s : run' = [run EXCEPT ![j].step = s]
        BY <3>7 DEF Claim, DecideSend, MarkSending, SmtpAccepts, Goto
      <4> QED BY <1>1, <1>4, <3>2, <4>1
    <3>8. CASE SmtpFails(j)
      BY <1>1, <1>4, <3>1, <3>5, <3>8 DEF SmtpFails, Running
    <3>9. CASE MarkAccepted(j)
      BY <1>1, <1>4, <3>5, <3>9 DEF MarkAccepted
    <3> QED BY <1>4, <3>6, <3>7, <3>8, <3>9 DEF RunNext
  <2> QED BY <1>1, <1>2, <2>1, <2>2, TallyNow, TallyQuiet
<1>5. CASE i # j
  <2>1. run'[j] = run[j]
    BY <1>5, RunKeeps
  <2>2. mj'[j] = mj[j]
    BY <1>5, RunWorkingSet
  <2>3. reports'[j] = reports[j]
    BY <1>5 DEF RunNext, Claim, DecideSkip, DecideSend, SecretUnreadable, MarkSending, SmtpAccepts,
                SmtpFails, MarkAccepted, CompleteRun, Finish, Conclude, rendVars, TypeInv, TypeOK
  <2>4. \A t \in Instants : completed'[<<j, t>>] = completed[<<j, t>>]
    <3>1. \/ completed' = completed
          \/ completed' = [completed EXCEPT ![Key(i)] = @ + 1]
      BY DEF RunNext, Claim, DecideSkip, DecideSend, SecretUnreadable, MarkSending, SmtpAccepts,
             SmtpFails, MarkAccepted, CompleteRun, Finish, worldVars
    <3>2. \A t \in Instants : <<j, t>> # Key(i) /\ <<j, t>> \in Keys
      BY <1>5 DEF Key, Keys
    <3> QED BY <3>1, <3>2 DEF TypeInv, TypeOK
  <2> QED BY <1>1, <1>2, <2>1, <2>2, <2>3, <2>4, TallyNow, TallyQuiet
<1> QED BY <1>3, <1>4, <1>5

LEMMA TallyInit == Init => TallyInv
<1> SUFFICES ASSUME Init, NEW j \in Jobs PROVE TallyOf(j)
  BY DEF TallyInv
<1>1. /\ disk[j].runs = 0 /\ rend = disk /\ ~open /\ reports[j] = <<>> /\ run[j] = Idle
      /\ mj[j] = Absent /\ pendingRecovery = {} /\ completed = [k \in Keys |-> 0]
  BY DEF Init, NoReports, NoRuns, NoJobs
<1>2. completed \in [Keys -> Nat] /\ \A t \in Instants : completed[<<j, t>>] = 0
  BY <1>1 DEF Keys
<1>3. TypeInv
  BY TypeInit
<1>4. disk[j].occ \in SUBSET Instants
  BY <1>3, CopyTypes DEF TypeInv, TypeOK
<1>5. ASSUME NEW S \in SUBSET Instants PROVE CoversIn(completed, j, 0, S)
  <2>1. ClosedIn(completed, j, S) = {}
    BY <1>2 DEF ClosedIn
  <2>2. 0 <= Cardinality(CountedIn(completed, j))
    BY <1>2, CountedFinite
  <2> QED BY <1>2, <2>1, <2>2, CoversOpen
<1>6. CoversIn(completed, j, disk[j].runs, disk[j].occ)
  BY <1>1, <1>4, <1>5
<1>7. CoversIn(completed, j, mj[j].runs, mj[j].occ)
  BY <1>1, <1>5 DEF Absent
<1>8. ClosedIn(completed, j, Instants) = {} /\ Of(pendingRecovery, j) = {}
  BY <1>1, <1>2 DEF ClosedIn, Of
<1> QED BY <1>1, <1>6, <1>7, <1>8
        DEF TallyOf, Covers, Closed, Counted, CoversIn, ClosedIn, CountedIn

\* Every step keeps the tally: one case per kind of step.
LEMMA TallyStep == SafeInv /\ TallyInv /\ [Next]_vars => TallyInv'
<1> SUFFICES ASSUME SafeInv, TallyInv, [Next]_vars, faults' = 0, NEW j \in Jobs
             PROVE  TallyOf(j)'
  BY DEF TallyInv
<1>1. TypeInv /\ TypeInv' /\ faults = 0
  BY TypeStep, FaultsStay DEF SafeInv
<1>2. TallyOf(j) /\ JobInv(j)
  BY <1>1 DEF TallyInv, SafeInv, LedgerInv, JobInv
<1>3. CASE Advance \/ Launch \/ UNCHANGED vars \/ \E k \in Keys : WriteQueuedDelete(k)
  <2>1. /\ UNCHANGED <<open, disk, rend, reports, mj, run, completed>>
        /\ UNCHANGED <<fired, pendingResend, pendingRecovery>>
        /\ now' >= now /\ (phase = "up" => phase' = "up")
    <3>1. now \in Nat
      BY <1>1 DEF TypeInv, TypeOK
    <3> QED BY <1>3, <3>1 DEF Advance, Launch, WriteQueuedDelete, vars, clockVars, lifeVars,
                              rendVars, mainVars, worldVars
  <2>2. Unsettled(j)' => Unsettled(j)
    BY <2>1 DEF Unsettled, Of, Pending
  <2> QED BY <1>1, <1>2, <2>1, <2>2, TallyNow, TallyQuiet
<1>4. CASE Restore
  <2>1. /\ UNCHANGED <<now, open, disk, rend, reports, mj, run, completed>>
        /\ phase = "booting" /\ pendingRecovery' \subseteq fired'
    BY <1>4 DEF Restore, clockVars, rendVars, worldVars
  <2>2. Unsettled(j) /\ Of(pendingRecovery', j) \subseteq Of(fired', j) /\ now' >= now
    BY <1>1, <2>1 DEF Unsettled, Of, TypeInv, TypeOK
  <2> QED BY <1>1, <1>2, <2>1, <2>2, TallyNow, TallyQuiet
<1>5. CASE \/ Hydrate \/ Save
           \/ \E i \in Jobs : JobRan(i) \/ ToggleJob(i) \/ \E rule \in Rules : EditJob(i, rule)
  BY <1>1, <1>2, <1>5, TallyRenderer
<1>6. CASE Crash \/ Sync \/ Tick
  BY <1>1, <1>2, <1>6, TallyCrash, TallySync, TallyTick
<1>7. CASE \E i \in Jobs : RunNext(i)
  BY <1>1, <1>2, <1>7, TallyRun
<1> QED BY <1>3, <1>4, <1>5, <1>6, <1>7 DEF Next

\* The tally holds in every reachable state.
THEOREM TallyInvariance == Spec => []TallyInv
BY SafeInvariance, TallyInit, TallyStep, PTL DEF Spec

\* As long as no write or read has failed, the renderer's row of a job never
\* counts more runs than really ended, through every crash, recovery, repeated
\* report, edit and save.
THEOREM NeverOvercountsHolds == Spec => []NeverOvercounts
<1>1. SafeInv /\ TallyInv => NeverOvercounts
  <2> SUFFICES ASSUME TypeInv, TallyInv, faults = 0, NEW j \in Jobs
               PROVE  rend[j].runs <= Cardinality(Counted(j))
    BY DEF SafeInv, NeverOvercounts
  <2>1. CoversIn(completed, j, rend[j].runs, rend[j].occ) /\ completed \in [Keys -> Nat]
    BY TallyNow DEF TallyInv
  <2>2. rend[j].runs \in Nat /\ rend[j].occ \in SUBSET Instants
    BY CopyTypes DEF TypeInv, TypeOK
  <2> QED BY <2>1, <2>2, CoversCount DEF CountedIn, Counted
<1> QED BY <1>1, SafeInvariance, TallyInvariance, PTL
=============================================================================
