------------------------------ MODULE MCDesktop ------------------------------
(***************************************************************************)
(* What TLC checks about the rest of the desktop program: the control API  *)
(* and its drop folder, undo over the scheduler's jobs, and the move of    *)
(* the data folder.  `part` says which of them moves, in which small       *)
(* setting, and the others rest where they began.  The settings of         *)
(* "switch", "single" and the folder are constants, which DesktopProofs    *)
(* leaves open.                                                            *)
(***************************************************************************)
EXTENDS Naturals

CONSTANTS
  r1, r2, j1, j2, day, None,
  Requests, Sends, Callers, MaxToggles, MaxExits, MaxFaults,  \* of "switch"
  Jobs, Rules, Days, Depth, MaxTime, MaxEdits, MaxAdopts, MaxRestarts, Horizon, LowWater, \* "single"
  MaxChanges, MaxMoves, MaxFailed                             \* of the folder

VARIABLES
  part,
  settings, calls, known, server, token, ports, endpoint, old, window,  \* ControlApi
  caller, file, work, run, ran, drain, audits, held, log, unlogged,
  toggles, exits, faults,
  now, jobs, cal, stack, taken, saves, armed, fired, dirty, reports, sent, past,   \* UndoStack
  edits, adopts, restarts,
  root, pointer, dir, saving, claiming, live, jobsAt, unsaved, armedAt, move,   \* DataFolder
  acked, disturbed, changes, moves, failed

api    == <<settings, calls, known, server, token, ports, endpoint, old, window,
            caller, file, work, run, ran, drain, audits, held, log, unlogged, toggles, exits, faults>>
undo   == <<now, jobs, cal, stack, taken, saves, armed, fired, dirty, reports, sent, past,
            edits, adopts, restarts>>
folder == <<root, pointer, dir, saving, claiming, live, jobsAt, unsaved, armedAt, move,
            acked, disturbed, changes, moves, failed>>
vars   == <<part, api, undo, folder>>

\* A file in the drop folder, processes that end and writes that fail.
Drop == INSTANCE ControlApi WITH
  Requests <- {r1}, Sends <- {}, Callers <- 1, MaxToggles <- 0, MaxExits <- 2, MaxFaults <- 2

\* Two requests over HTTP, of which one sends, and an entry that can not be written.
Audit == INSTANCE ControlApi WITH
  Requests <- {r1, r2}, Sends <- {r1}, Callers <- 1, MaxToggles <- 0, MaxExits <- 0, MaxFaults <- 1

\* The switches are changed under a request that sends.
Switch == INSTANCE ControlApi

\* The switches are changed and the process ends, under fairness.
Serve == INSTANCE ControlApi WITH
  Requests <- {r1}, Sends <- {r1}, Callers <- 1, MaxToggles <- 1, MaxExits <- 1, MaxFaults <- 1

EveryTo(n)    == [fires |-> 1..n, maxRuns |-> 9, catchUp |-> "fireOnce"]
OnlyLastOf(n) == [fires |-> {n}, maxRuns |-> 9, catchUp |-> "fireOnce"]

\* One job, a calendar and a stack of one entry.
Single == INSTANCE UndoStack WITH held <- taken
TwoRules == {EveryTo(2), OnlyLastOf(2)}

\* Batches of two jobs that are never due, and a stack of two entries.
Idle(n) == [fires |-> {}, maxRuns |-> n, catchUp |-> "fireOnce"]
Batch == INSTANCE UndoStack WITH
  Jobs <- {j1, j2}, Rules <- {Idle(1), Idle(2)}, Days <- {}, Depth <- 2, MaxTime <- 0,
  MaxEdits <- 2, MaxAdopts <- 0, MaxRestarts <- 1, Horizon <- 3, LowWater <- 2, held <- taken

\* The folder is moved there and back while files are written.
Folder == INSTANCE DataFolder WITH MaxFaults <- MaxFailed, dirty <- unsaved, faults <- failed

ASSUME DesktopAssumption ==
  /\ Drop!ControlAssumption /\ Audit!ControlAssumption /\ Switch!ControlAssumption
  /\ Serve!ControlAssumption /\ Single!UndoStackAssumption /\ Batch!UndoStackAssumption
  /\ Folder!FolderAssumption

-----------------------------------------------------------------------------

In(p) == part = p

ApiRests    == Serve!Init /\ settings.send /\ ~old
UndoRests   == Single!Init /\ cal = {} /\ \A j \in Jobs : jobs[j].rule = CHOOSE r \in Rules : TRUE
FolderRests == Folder!Init

ApiMoves(p)  == In(p) /\ UndoRests /\ FolderRests
UndoMoves(p) == In(p) /\ ApiRests /\ FolderRests

Init ==
  \/ ApiMoves("drop")    /\ Drop!Init
  \/ ApiMoves("audit")   /\ Audit!Init
  \/ ApiMoves("switch")  /\ Switch!Init
  \/ ApiMoves("serve")   /\ Serve!Init
  \/ UndoMoves("single") /\ Single!Init
  \/ UndoMoves("batch")  /\ Batch!Init
  \/ In("folder")        /\ ApiRests /\ UndoRests /\ Folder!Init

ApiNext ==
  \/ In("drop")   /\ Drop!Next
  \/ In("audit")  /\ Audit!Next
  \/ In("switch") /\ Switch!Next
  \/ In("serve")  /\ Serve!Next

UndoNext ==
  \/ In("single") /\ Single!Next
  \/ In("batch")  /\ Batch!Next

Next ==
  \/ ApiNext  /\ UNCHANGED <<part, undo, folder>>
  \/ UndoNext /\ UNCHANGED <<part, api, folder>>
  \/ In("folder") /\ Folder!Next /\ UNCHANGED <<part, api, undo>>

apiVars == Serve!vars

\* The app is started, timers fire and calls return; the window may stay busy for ever.
ApiFairness ==
  /\ WF_apiVars(In("serve") /\ Serve!Starts) /\ WF_apiVars(In("serve") /\ Serve!Tick)
  /\ WF_apiVars(In("serve") /\ Serve!EndsPass) /\ WF_apiVars(In("serve") /\ Serve!Main(r1))
  /\ WF_apiVars(In("serve") /\ (Serve!FallsBack(r1) \/ Serve!Queues(r1)))

Spec == Init /\ [][Next]_vars /\ ApiFairness

-----------------------------------------------------------------------------
(* Properties, each of their parts stated and explained in its own module *)

\* Every variable of the part that moves has its type; a file dropped in the folder
\* is carried out at most once, and a result that says so tells the truth, whatever
\* dies meanwhile; a caller over HTTP that has its answer is in the audit log; and
\* while the app runs no undo has an occurrence sent twice.
DesktopInv ==
  CASE In("drop")   -> Drop!TypeOK /\ Drop!DroppedRunsOnce /\ Drop!ResultIsTrue
    [] In("audit")  -> Audit!TypeOK /\ Audit!AnsweredIsAudited
    [] In("switch") -> Switch!TypeOK /\ Switch!DroppedRunsOnce
    [] In("serve")  -> Serve!TypeOK /\ Serve!DroppedRunsOnce /\ Serve!ResultIsTrue
    [] In("single") -> Single!TypeOK /\ (restarts = 0 => Single!SentOnce)
    [] In("batch")  -> Batch!TypeOK
    [] In("folder") -> Folder!TypeOK

\* The switches that the main process admits requests by are those of the window, once
\* every call has been handled.
KnownIsCurrent == In("switch") => Switch!KnownIsCurrent

\* A file in the drop folder is taken up and recorded, and a caller over HTTP gets an
\* answer, or the process ends meanwhile.
RequestsSettle == In("serve") => Serve!DroppedIsSettled /\ Serve!EveryoneAnswered

\* Undoing leads back to the state before the change, entry by entry, in every mix of
\* single and batched changes.
UndoLeadsBack == [][Single!UndoLeadsBack]_vars

\* What was acknowledged is in the old data folder or the new one during a move, and in
\* the one in use when it is over; a reminder then finds its attachments.
NothingLost == Folder!NothingLost /\ Folder!PathsFollow
=============================================================================
