----------------------------- MODULE DeviceSync -----------------------------
(***************************************************************************)
(* Ongoing synchronisation of two paired devices: src/core/sync/           *)
(* syncLoop.ts (asking, answering, the exchange itself), syncConflict.ts,  *)
(* pairedDevices.ts (the counters), and in src/state/AppState.tsx the      *)
(* wiring that applies an exchange and saves before it acknowledges.       *)
(*                                                                         *)
(* A job is the time of its last edit (its updatedAt), 0 when it is not    *)
(* there; edits have distinct times, so equal times mean equal content.    *)
(* Both clocks agree and tick with every edit.  The scope is the schedule  *)
(* without the calendar.  A message in transit is `live` while its sender  *)
(* still waits for the answer; a duplicate never is.                       *)
(*                                                                         *)
(* Bounds of the model, none of the code's: MaxClock edits, MaxSeq, and    *)
(* MaxMissed (requests lost, calls given up although an answer was possible), MaxCopies,  *)
(* MaxCrashes, MaxFaults (failing saves), MaxUndos (undone deletions and   *)
(* conflicts decided the other way).                                       *)
(***************************************************************************)
EXTENDS Integers, FiniteSets

CONSTANTS
  Devices, Askers,   \* both devices, and those that know the other's address
  Jobs,
  MaxClock, MaxSeq, MaxMissed, MaxCopies, MaxCrashes, MaxFaults, MaxUndos

SyncAssumption ==
  /\ IsFiniteSet(Devices) /\ Cardinality(Devices) = 2 /\ Askers \subseteq Devices
  /\ {MaxClock, MaxSeq, MaxMissed, MaxCopies, MaxCrashes, MaxFaults, MaxUndos} \subseteq Nat

VARIABLES
  clock,
  state,      \* per device: what state.json holds about jobs and this pairing
  disk,       \* per device: state.json
  ask,        \* per device: runDeviceCycle() in progress
  report,     \* per device: the outcome of its last cycle
  wire,       \* requests in transit
  exchanges,  \* respondToSyncRequest() calls in progress
  accepted,   \* per device: how often it accepted a request with this number
  undoStack,  \* per device and job: the version a deletion can be undone to
  meant,      \* per device and job: when the user last wanted it to be there
  rushed,     \* jobs the user changed on a device in mid-exchange
  missed, copies, crashes, faults, undos

stateVars == <<clock, state, disk, undoStack, meant, rushed>>
talkVars  == <<ask, report, wire, exchanges, accepted>>
budgets   == <<missed, copies, crashes, faults, undos>>
vars      == <<stateVars, talkVars, budgets>>

Peer(d) == CHOOSE p \in Devices : p # d
Time    == 0..MaxClock
Nobody  == [j \in Jobs |-> 0]
Later(s, t) == IF s >= t THEN s ELSE t

\* The jobs, deletedJobs and syncConflicts of the app state, and the row of the
\* peer in pairedDevices.
State == [jobs : [Jobs -> Time], deleted : [Jobs -> Time], losers : [Jobs -> Time],
          lastSynced : Time, outSeq : 0..MaxSeq + 1, accSeq : 0..MaxSeq + 1]

\* What a payload carries: jobs and tombstones changed since the last cycle.
Payload == [jobs : [Jobs -> Time], deleted : [Jobs -> Time]]
Patch   == [jobs : [Jobs -> Time], setsJobs : BOOLEAN, deleted : [Jobs -> Time],
            setsDeleted : BOOLEAN, losers : [Jobs -> Time]]
Nothing == [jobs |-> Nobody, deleted |-> Nobody]
NoPatch == [jobs |-> Nobody, setsJobs |-> FALSE, deleted |-> Nobody,
            setsDeleted |-> FALSE, losers |-> Nobody]

Request  == [from : Devices, live : BOOLEAN, seq : 1..MaxSeq + 1, changed : Payload]
Exchange == [at : Devices, live : BOOLEAN, seq : 1..MaxSeq + 1, patch : Patch,
             reply : Payload, replySeq : 1..MaxSeq + 1, step : {"merging", "saving"}]
Ask      == [step : {"sent", "answered", "merging"}, now : Time, since : Time,
             seq : 1..MaxSeq + 1, theirs : Payload, theirSeq : 0..MaxSeq + 1, patch : Patch]
NoAsk    == [step |-> "none", now |-> 0, since |-> 0, seq |-> 0,
             theirs |-> Nothing, theirSeq |-> 0, patch |-> NoPatch]

Fresh == [jobs |-> Nobody, deleted |-> Nobody, losers |-> Nobody,
          lastSynced |-> 0, outSeq |-> 0, accSeq |-> 0]

Init ==
  /\ clock = 0
  /\ state = [d \in Devices |-> Fresh] /\ disk = state
  /\ ask = [d \in Devices |-> NoAsk] /\ report = [d \in Devices |-> "none"]
  /\ wire = {} /\ exchanges = {}
  /\ accepted = [d \in Devices |-> [n \in 1..MaxSeq + 1 |-> 0]]
  /\ meant = [d \in Devices |-> Nobody] /\ undoStack = meant /\ rushed = {}
  /\ missed = 0 /\ copies = 0 /\ crashes = 0 /\ faults = 0 /\ undos = 0

-----------------------------------------------------------------------------
(* The exchange. *)

Since(stamps, since) == [j \in Jobs |-> IF stamps[j] > since THEN stamps[j] ELSE 0]

Changed(s, since) == [jobs |-> Since(s.jobs, since), deleted |-> Since(s.deleted, since)]

\* A record changed on both sides is a conflict, which the newer one wins; any
\* other record that arrives replaces the one that is here.
Winner(mine, theirs, since) ==
  IF theirs = 0 THEN mine
  ELSE IF mine > since /\ mine # theirs THEN Later(mine, theirs)
  ELSE theirs

SurvivesAnyBug(job, deletedAt) == deletedAt = 0   \* a tombstone is final

Survives(job, deletedAt) == job > deletedAt

\* The patch made from what a device has (s), knows of the last cycle, and hears.
Merged(s, since, theirs) ==
  LET deleted == [j \in Jobs |-> Later(s.deleted[j], theirs.deleted[j])]
      winners == [j \in Jobs |-> Winner(s.jobs[j], theirs.jobs[j], since)]
      jobs    == [j \in Jobs |-> IF Survives(winners[j], deleted[j]) THEN winners[j] ELSE 0]
      lost    == {j \in Jobs : /\ theirs.jobs[j] # 0 /\ s.jobs[j] > since
                               /\ s.jobs[j] # theirs.jobs[j]}
  IN  IF theirs = Nothing THEN NoPatch
      ELSE [jobs |-> jobs, setsJobs |-> theirs.jobs # Nobody \/ jobs # s.jobs,
            deleted |-> deleted, setsDeleted |-> theirs.deleted # Nobody,
            losers |-> [j \in Jobs |-> IF j \notin lost THEN 0
                          ELSE IF winners[j] = s.jobs[j] THEN theirs.jobs[j] ELSE s.jobs[j]]]

\* The reducer case applySyncResult: arrays are replaced whole, counters only climb.
Applied(s, patch, syncedAt, outSeq, accSeq) ==
  [jobs       |-> IF patch.setsJobs THEN patch.jobs ELSE s.jobs,
   deleted    |-> IF patch.setsDeleted THEN patch.deleted ELSE s.deleted,
   losers     |-> [j \in Jobs |-> IF patch.losers[j] # 0 THEN patch.losers[j] ELSE s.losers[j]],
   lastSynced |-> syncedAt,
   outSeq     |-> Later(s.outSeq, outSeq),
   accSeq     |-> Later(s.accSeq, accSeq)]

-----------------------------------------------------------------------------
(* Asking. *)

\* A poll, or "sync now": one cycle at a time.
AskBegins(d) ==
  /\ d \in Askers /\ ask[d] = NoAsk /\ state[d].outSeq < MaxSeq
  /\ LET s == state[d]
     IN  /\ ask' = [ask EXCEPT ![d] = [NoAsk EXCEPT !.step = "sent", !.now = clock,
                                         !.since = s.lastSynced, !.seq = s.outSeq + 1]]
         /\ wire' = wire \cup {[from |-> d, live |-> TRUE, seq |-> s.outSeq + 1,
                                changed |-> Changed(s, s.lastSynced)]}
  /\ UNCHANGED <<stateVars, report, exchanges, accepted, budgets>>

Forsaken(msgs, d) == {IF m.live /\ m.from = d THEN [m EXCEPT !.live = FALSE] ELSE m : m \in msgs}
Abandoned(d)      == {IF e.live /\ e.at = Peer(d) THEN [e EXCEPT !.live = FALSE] ELSE e :
                        e \in exchanges}
Answerable(d)     == \/ \E m \in wire : m.live /\ m.from = d
                     \/ \E e \in exchanges : e.live /\ e.at = Peer(d)

\* The call is given up: 15 seconds have passed, or the connection broke.
GivesUp(d) ==
  /\ ask[d].step = "sent"
  /\ Answerable(d) => missed < MaxMissed
  /\ missed' = IF Answerable(d) THEN missed + 1 ELSE missed
  /\ wire' = Forsaken(wire, d) /\ exchanges' = Abandoned(d)
  /\ ask' = [ask EXCEPT ![d] = NoAsk] /\ report' = [report EXCEPT ![d] = "failed"]
  /\ UNCHANGED <<stateVars, accepted, copies, crashes, faults, undos>>

\* The reply is opened; if its number is fresh, the exchange starts from the
\* state as it is now.
HearsReply(d) ==
  /\ ask[d].step = "answered"
  /\ IF ask[d].theirSeq > state[d].accSeq
       THEN /\ ask' = [ask EXCEPT ![d].step = "merging",
                                  ![d].patch = Merged(state[d], ask[d].since, ask[d].theirs)]
            /\ UNCHANGED report
       ELSE /\ ask' = [ask EXCEPT ![d] = NoAsk]
            /\ report' = [report EXCEPT ![d] = "failed"]
  /\ UNCHANGED <<stateVars, wire, exchanges, accepted, budgets>>

\* What an asker takes for the time of the cycle: when it read its changes.
SyncedAt(d) == ask[d].now

AskEnds(d) ==
  /\ ask[d].step = "merging"
  /\ state' = [state EXCEPT ![d] = Applied(state[d], ask[d].patch, SyncedAt(d),
                                           ask[d].seq, ask[d].theirSeq)]
  /\ ask' = [ask EXCEPT ![d] = NoAsk] /\ report' = [report EXCEPT ![d] = "synced"]
  /\ UNCHANGED <<clock, disk, undoStack, meant, rushed, wire, exchanges, accepted, budgets>>

-----------------------------------------------------------------------------
(* Answering. *)

\* The answer reaches a device that still waits for it.
Answers(d, live, reply, seq) ==
  ask' = IF live THEN [ask EXCEPT ![d].step = "answered", ![d].theirs = reply,
                                  ![d].theirSeq = seq]
                 ELSE ask

\* {ok: false}: the request could not be opened, or not be saved.
Refuses(d, live) ==
  /\ ask' = IF live THEN [ask EXCEPT ![d] = NoAsk] ELSE ask
  /\ report' = IF live THEN [report EXCEPT ![d] = "failed"] ELSE report

\* commitAcceptedSeq(), in the turn of the check.
Committed(s, seq) == [s EXCEPT !.accSeq = Later(@, seq)]

\* A request is opened.  One that is not fresh is refused.  The row of the peer is the one that
\* was found before the awaits (syncLoop.ts:787); here it is read with the rest, which is the
\* same unless another exchange of this pairing ended in between.
Accepts(m) ==
  LET d == Peer(m.from)
      s == state[d]
  IN  /\ wire' = wire \ {m}
      /\ IF m.seq > s.accSeq
           THEN /\ state' = [state EXCEPT ![d] = Committed(s, m.seq)]
                /\ exchanges' = exchanges \cup
                     {[at |-> d, live |-> m.live, seq |-> m.seq, step |-> "merging",
                       patch |-> Merged(s, s.lastSynced, m.changed),
                       reply |-> Changed(s, s.lastSynced), replySeq |-> s.outSeq + 1]}
                /\ accepted' = [accepted EXCEPT ![d][m.seq] = @ + 1]
                /\ UNCHANGED <<ask, report>>
           ELSE /\ Refuses(m.from, m.live)
                /\ UNCHANGED <<state, exchanges, accepted>>
      /\ UNCHANGED <<clock, disk, undoStack, meant, rushed, budgets>>

\* The exchange is computed; memory changes now, and is saved next.
Applies(e) ==
  /\ e.step = "merging"
  /\ state' = [state EXCEPT ![e.at] = Applied(state[e.at], e.patch, clock, e.replySeq, e.seq)]
  /\ exchanges' = (exchanges \ {e}) \cup {[e EXCEPT !.step = "saving"]}
  /\ UNCHANGED <<clock, disk, undoStack, meant, rushed, ask, report, wire, accepted, budgets>>

SavedNotBug(d) == disk   \* acknowledged before the write

SavedFile(d) == [disk EXCEPT ![d] = state[d]]

\* The state is on disk, and only then the reply goes out.
Acknowledges(e) ==
  /\ e.step = "saving"
  /\ disk' = SavedFile(e.at)
  /\ exchanges' = exchanges \ {e}
  /\ Answers(Peer(e.at), e.live, e.reply, e.replySeq)
  /\ UNCHANGED <<clock, state, undoStack, meant, rushed, report, wire, accepted, budgets>>

SaveFails(e) ==
  /\ e.step = "saving" /\ faults < MaxFaults
  /\ faults' = faults + 1
  /\ exchanges' = exchanges \ {e}
  /\ Refuses(Peer(e.at), e.live)
  /\ UNCHANGED <<stateVars, wire, accepted, missed, copies, crashes, undos>>

-----------------------------------------------------------------------------
(* The network, the users and the processes. *)

Drops(m) ==
  /\ m.live => missed < MaxMissed
  /\ missed' = IF m.live THEN missed + 1 ELSE missed
  /\ wire' = wire \ {m}
  /\ UNCHANGED <<stateVars, ask, report, exchanges, accepted, copies, crashes, faults, undos>>

Copies(m) ==
  /\ copies < MaxCopies
  /\ copies' = copies + 1
  /\ wire' = wire \cup {[m EXCEPT !.live = FALSE]}
  /\ UNCHANGED <<stateVars, ask, report, exchanges, accepted, missed, crashes, faults, undos>>

\* performExchange() is between its reading of the state and its patch.
Exchanging(d) == \/ ask[d].step = "merging"
                 \/ \E e \in exchanges : e.at = d /\ e.step = "merging"

MayEdit == clock < MaxClock

\* The user changes a job whenever they like; what is changed in mid-exchange is noted.
Changes(d, j) == rushed' = IF Exchanging(d) THEN rushed \cup {j} ELSE rushed

Edits(d, j) ==
  /\ MayEdit /\ Changes(d, j)
  /\ clock' = clock + 1
  /\ state' = [state EXCEPT ![d].jobs[j] = clock + 1]
  /\ meant' = [meant EXCEPT ![d][j] = clock + 1]
  /\ UNCHANGED <<disk, undoStack, talkVars, budgets>>

Deletes(d, j) ==
  /\ MayEdit /\ state[d].jobs[j] # 0 /\ Changes(d, j)
  /\ clock' = clock + 1
  /\ state' = [state EXCEPT ![d].jobs[j] = 0, ![d].deleted[j] = clock + 1]
  /\ undoStack' = [undoStack EXCEPT ![d][j] = state[d].jobs[j]]
  /\ UNCHANGED <<disk, meant, talkVars, budgets>>

\* The undo of a deletion puts the job back as it was, beside its tombstone.
Undeletes(d, j) ==
  /\ undos < MaxUndos /\ MayEdit /\ undoStack[d][j] # 0 /\ Changes(d, j)
  /\ undos' = undos + 1 /\ clock' = clock + 1
  /\ state' = [state EXCEPT ![d].jobs[j] = undoStack[d][j]]
  /\ undoStack' = [undoStack EXCEPT ![d][j] = 0]
  /\ meant' = [meant EXCEPT ![d][j] = clock + 1]
  /\ UNCHANGED <<disk, talkVars, missed, copies, crashes, faults>>

\* "Keep mine instead": the loser of a conflict replaces the winner.
KeepsLoser(d, j) ==
  /\ undos < MaxUndos /\ MayEdit /\ state[d].losers[j] # 0 /\ Changes(d, j)
  /\ undos' = undos + 1
  /\ state' = [state EXCEPT
       ![d].jobs[j] = IF @ = 0 THEN 0 ELSE state[d].losers[j], ![d].losers[j] = 0]
  /\ UNCHANGED <<clock, disk, undoStack, meant, talkVars, missed, copies, crashes, faults>>

Saves(d) ==
  /\ disk[d] # state[d]
  /\ disk' = [disk EXCEPT ![d] = state[d]]
  /\ UNCHANGED <<clock, state, undoStack, meant, rushed, talkVars, budgets>>

\* The process dies and starts again from its file.
Crashes(d) ==
  /\ crashes < MaxCrashes
  /\ crashes' = crashes + 1
  /\ state' = [state EXCEPT ![d] = disk[d]]
  /\ undoStack' = [undoStack EXCEPT ![d] = Nobody]
  /\ accepted' = [accepted EXCEPT ![d] = [n \in 1..MaxSeq + 1 |-> 0]]
  /\ ask' = [ask EXCEPT ![d] = NoAsk]
  /\ wire' = Forsaken(wire, d)
  /\ exchanges' = {e \in Abandoned(d) : e.at # d}
  /\ UNCHANGED <<clock, disk, meant, rushed, report, missed, copies, faults, undos>>

-----------------------------------------------------------------------------
Answering(d) == \E e \in exchanges : e.at = d /\ (Applies(e) \/ Acknowledges(e) \/ SaveFails(e))

Next ==
  \/ \E d \in Devices : \/ AskBegins(d) \/ GivesUp(d) \/ HearsReply(d)
                        \/ AskEnds(d) \/ Answering(d) \/ Saves(d) \/ Crashes(d)
  \/ \E m \in wire : Accepts(m) \/ Drops(m) \/ Copies(m)
  \/ \E d \in Devices, j \in Jobs :
       Edits(d, j) \/ Deletes(d, j) \/ Undeletes(d, j) \/ KeepsLoser(d, j)

Spec == Init /\ [][Next]_vars

-----------------------------------------------------------------------------
(* Properties. *)

TypeOK ==
  /\ clock \in Time
  /\ state \in [Devices -> State] /\ disk \in [Devices -> State]
  /\ ask \in [Devices -> Ask \cup {NoAsk}]
  /\ report \in [Devices -> {"none", "synced", "failed"}]
  /\ wire \subseteq Request /\ exchanges \subseteq Exchange
  /\ accepted \in [Devices -> [1..MaxSeq + 1 -> Nat]]
  /\ {undoStack, meant} \subseteq [Devices -> [Jobs -> Time]] /\ rushed \subseteq Jobs
  /\ {missed, copies, crashes, faults, undos} \subseteq Nat

\* In one life of its process a device accepts a request once, however many copies
\* of it arrive and however the two directions race (commitAcceptedSeq).
AcceptedOnce == \A d \in Devices, n \in 1..MaxSeq + 1 : accepted[d][n] <= 1

\* s has what was done to the job at t, or something later.
Knows(s, j, t) == s.jobs[j] >= t \/ s.deleted[j] >= t

\* What the only device that asks takes for told, the other has on its disk,
\* whatever is lost and whichever process dies ("Only ACK success once ..."), but
\* for a job that was changed in mid-exchange.
ToldIsKept ==
  \A d \in Askers, j \in Jobs \ rushed : Askers = {d} =>
    /\ 0 < state[d].jobs[j] /\ state[d].jobs[j] <= state[d].lastSynced =>
         Knows(disk[Peer(d)], j, state[d].jobs[j])
    /\ 0 < state[d].deleted[j] /\ state[d].deleted[j] <= state[d].lastSynced =>
         Knows(disk[Peer(d)], j, state[d].deleted[j])

\* Once a cycle has begun after the last change and succeeded, both devices have
\* the same jobs, also when answers were lost and saves failed before -- if no process
\* died, and but for the very jobs that were changed in mid-exchange: the patch
\* replaces all jobs, and no other job may suffer from it.
Agreed ==
  \A d \in Askers, j \in Jobs \ rushed :
    (/\ Askers = {d} /\ crashes = 0 /\ undos = 0
     /\ state[d].lastSynced = clock /\ report[d] = "synced") =>
      state[d].jobs[j] = state[Peer(d)].jobs[j]

\* syncLoop.ts: a cycle that is refused because the other direction's was accepted
\* first is "resolved automatically by the next poll".  When every device has had
\* a successful cycle since the last change, both have the same jobs.
ResolvedByNextPoll ==
  (\A d \in Askers : /\ state[d].lastSynced = clock /\ report[d] = "synced"
                     /\ ask[d] = NoAsk /\ exchanges = {})
    => \A d \in Devices : state[d].jobs = state[Peer(d)].jobs

\* syncLoop.ts: a job cancelled on either device must stay cancelled.  What the
\* user deletes on a device stays deleted there until somebody edits it again.
CancelledStaysCancelled ==
  [][\A d \in Devices, j \in Jobs :
       (state[d].deleted[j] > 0 /\ state[d].jobs[j] = 0 /\ state'[d].jobs[j] # 0) =>
          state'[d].jobs[j] > state[d].deleted[j]]_vars

\* What becomes of a job in a step is the user's wish: it goes only when it was
\* deleted after it was last wanted.
GoesByDeletion(d, j) ==
  (state[d].jobs[j] # 0 /\ state'[d].jobs[j] = 0) => state'[d].deleted[j] > meant[d][j]

\* An exchange removes a job only because somebody deleted it after the last edit
\* on this device, whichever conflicts were resolved before (applyExchange).  A job
\* the user adds in mid-exchange may be lost with the array the patch replaces
\* (AppState.tsx:1163); no other job goes with it.
RemovedByDeletion ==
  (crashes' = 0 /\ undos' = 0) =>
    \A d \in Devices : \A j \in DOMAIN state[d].jobs \ rushed' : GoesByDeletion(d, j)

\* AppState.tsx: the inverse of a deletion carries the job exactly as it was, so
\* that a deletion that was undone leaves nothing behind.
UndoneIsBack ==
  [][crashes' = 0 => \A d \in Devices, j \in Jobs : GoesByDeletion(d, j)]_vars

\* syncLoop.ts: a cycle that is rejected, because the exchange of the other direction was
\* accepted first, is "resolved automatically by the next poll".  When all cycles are over
\* and nothing was lost, some device can begin one whose numbers both sides take.
NextPollResolves ==
  (missed = 0 /\ copies = 0 /\ wire = {} /\ exchanges = {} /\ \A d \in Devices : ask[d] = NoAsk)
    => \E d \in Askers : /\ state[d].outSeq >= state[Peer(d)].accSeq
                         /\ state[Peer(d)].outSeq >= state[d].accSeq
=============================================================================
