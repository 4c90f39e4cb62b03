------------------------------ MODULE MCDevices ------------------------------
(***************************************************************************)
(* What TLC checks about several devices: the exchange that synchronises   *)
(* two of them, the handshake that pairs them, and the scheduler of the    *)
(* phone.  The phone's scheduler runs without the others, and an exchange  *)
(* begins when the pairing is over: `part` says which of them moves, in    *)
(* which small setting, and the others rest where they began.              *)
(***************************************************************************)
EXTENDS Naturals

CONSTANTS d1, d2, i, j, j1, j2, a, b

VARIABLES
  part,
  clock, state, disk, ask, report, wire, exchanges, accepted,                    \* DeviceSync
  undoStack, meant, rushed, missed, copies, crashes, faults, undos,
  session, calls, open, timers, over, req, posted, toUi, ui, saving, minted,     \* Pairing
  hostKey, hostRow, joinKey, joinRow, synced, answered, revoked,
  now, prefs, phoneDisk, alarm, work, seen, note, booting, app, web,  \* AndroidScheduler
  owesSync, owesDrain, hand, sent, disturbed, opens, kills, lost, edits, taps

sync  == <<clock, state, disk, ask, report, wire, exchanges, accepted, undoStack, meant, rushed,
           missed, copies, crashes, faults, undos>>
pair  == <<session, calls, open, timers, over, req, posted, toUi, ui, saving, minted,
           hostKey, hostRow, joinKey, joinRow, synced, answered, revoked>>
phone == <<now, prefs, phoneDisk, alarm, work, seen, note, booting, app, web,
           owesSync, owesDrain, hand, sent, disturbed, opens, kills, lost, edits, taps>>
vars  == <<part, sync, pair, phone>>

\* Two jobs changed on both devices, one of which asks.
Edit == INSTANCE DeviceSync WITH
  Devices <- {d1, d2}, Askers <- {d1}, Jobs <- {i, j}, MaxClock <- 2,
  MaxSeq <- 2, MaxMissed <- 0, MaxCopies <- 0, MaxCrashes <- 0, MaxFaults <- 0, MaxUndos <- 0

\* One job, whose deletion may be undone.
Undo == INSTANCE DeviceSync WITH
  Devices <- {d1, d2}, Askers <- {d1}, Jobs <- {j}, MaxClock <- 3,
  MaxSeq <- 2, MaxMissed <- 0, MaxCopies <- 0, MaxCrashes <- 0, MaxFaults <- 0, MaxUndos <- 1

\* A request or an answer is lost, and a write fails.
Loss == INSTANCE DeviceSync WITH
  Devices <- {d1, d2}, Askers <- {d1}, Jobs <- {j}, MaxClock <- 2,
  MaxSeq <- 2, MaxMissed <- 1, MaxCopies <- 0, MaxCrashes <- 0, MaxFaults <- 1, MaxUndos <- 0

\* A process dies, and a write fails.
Crash == INSTANCE DeviceSync WITH
  Devices <- {d1, d2}, Askers <- {d1}, Jobs <- {j}, MaxClock <- 2,
  MaxSeq <- 2, MaxMissed <- 0, MaxCopies <- 0, MaxCrashes <- 1, MaxFaults <- 1, MaxUndos <- 0

\* Both devices ask, and a request arrives twice.
Both == INSTANCE DeviceSync WITH
  Devices <- {d1, d2}, Askers <- {d1, d2}, Jobs <- {j}, MaxClock <- 0,
  MaxSeq <- 2, MaxMissed <- 1, MaxCopies <- 1, MaxCrashes <- 0, MaxFaults <- 0, MaxUndos <- 0

\* A user who presses before the code is drawn, and two pairings.
Hasty == INSTANCE Pairing WITH
  Joiners <- {j1}, Fast <- {}, MaxCodes <- 2, MaxPairs <- 2, MaxSeq <- 1, Patient <- FALSE

\* A user who waits for it, and two devices that join.
Calm == INSTANCE Pairing WITH
  Joiners <- {j1, j2}, Fast <- {}, MaxCodes <- 2, MaxPairs <- 1, MaxSeq <- 0, Patient <- TRUE

\* The same with one device and two pairings, under fairness.
Once == INSTANCE Pairing WITH
  Joiners <- {j1}, Fast <- {}, MaxCodes <- 2, MaxPairs <- 2, MaxSeq <- 0, Patient <- TRUE

\* A job of two instants, while the app stays shut: retries, a death, "Retry now".
Alone == INSTANCE AndroidScheduler WITH
  Jobs <- {a}, FireOnce <- {a}, Plans <- {{1, 2}}, MaxAttempts <- 2, MaxTime <- 2, MaxOpens <- 0,
  MaxKills <- 1, MaxLost <- 0, MaxEdits <- 0, MaxTaps <- 1, disk <- phoneDisk

\* Two jobs at one instant, of which one does not catch up.
Two == INSTANCE AndroidScheduler WITH
  Jobs <- {a, b}, FireOnce <- {a}, Plans <- {{1}}, MaxAttempts <- 1, MaxTime <- 1, MaxOpens <- 0,
  MaxKills <- 0, MaxLost <- 0, MaxEdits <- 0, MaxTaps <- 0, disk <- phoneDisk

\* The app is opened, and the job edited in it.
App == INSTANCE AndroidScheduler WITH
  Jobs <- {a}, FireOnce <- {a}, Plans <- {{}, {2}}, MaxAttempts <- 1, MaxTime <- 2, MaxOpens <- 1,
  MaxKills <- 0, MaxLost <- 0, MaxEdits <- 1, MaxTaps <- 0, disk <- phoneDisk

\* A death under fairness.
Pays == INSTANCE AndroidScheduler WITH
  Jobs <- {a}, FireOnce <- {a}, Plans <- {{1, 2}}, MaxAttempts <- 1, MaxTime <- 2, MaxOpens <- 0,
  MaxKills <- 1, MaxLost <- 0, MaxEdits <- 0, MaxTaps <- 0, disk <- phoneDisk

\* The app is opened under fairness.
Reports == INSTANCE AndroidScheduler WITH
  Jobs <- {a}, FireOnce <- {a}, Plans <- {{1}}, MaxAttempts <- 1, MaxTime <- 1, MaxOpens <- 1,
  MaxKills <- 0, MaxLost <- 0, MaxEdits <- 0, MaxTaps <- 0, disk <- phoneDisk

ASSUME DevicesAssumption ==
  /\ Edit!SyncAssumption /\ Undo!SyncAssumption /\ Loss!SyncAssumption
  /\ Crash!SyncAssumption /\ Both!SyncAssumption
  /\ Hasty!PairingAssumption /\ Calm!PairingAssumption /\ Once!PairingAssumption
  /\ Alone!AndroidAssumption /\ Two!AndroidAssumption /\ App!AndroidAssumption
  /\ Pays!AndroidAssumption /\ Reports!AndroidAssumption

-----------------------------------------------------------------------------

In(p) == part = p

SyncRests  == Both!Init
PairRests  == Calm!Init
PhoneRests == Reports!Init

SyncMoves(p)  == In(p) /\ PairRests /\ PhoneRests
PairMoves(p)  == In(p) /\ SyncRests /\ PhoneRests
PhoneMoves(p) == In(p) /\ SyncRests /\ PairRests

Init ==
  \/ SyncMoves("edit")     /\ Edit!Init
  \/ SyncMoves("undo")     /\ Undo!Init
  \/ SyncMoves("loss")     /\ Loss!Init
  \/ SyncMoves("crash")    /\ Crash!Init
  \/ SyncMoves("both")     /\ Both!Init
  \/ PairMoves("hasty")    /\ Hasty!Init
  \/ PairMoves("calm")     /\ Calm!Init
  \/ PairMoves("once")     /\ Once!Init
  \/ PhoneMoves("alone")   /\ Alone!Init
  \/ PhoneMoves("two")     /\ Two!Init
  \/ PhoneMoves("app")     /\ App!Init
  \/ PhoneMoves("pays")    /\ Pays!Init
  \/ PhoneMoves("reports") /\ Reports!Init

SyncNext ==
  \/ In("edit")  /\ Edit!Next
  \/ In("undo")  /\ Undo!Next
  \/ In("loss")  /\ Loss!Next
  \/ In("crash") /\ Crash!Next
  \/ In("both")  /\ Both!Next

PairNext ==
  \/ In("hasty") /\ Hasty!Next
  \/ In("calm")  /\ Calm!Next
  \/ In("once")  /\ Once!Next

PhoneNext ==
  \/ In("alone")   /\ Alone!Next
  \/ In("two")     /\ Two!Next
  \/ In("app")     /\ App!Next
  \/ In("pays")    /\ Pays!Next
  \/ In("reports") /\ Reports!Next

Next ==
  \/ SyncNext  /\ UNCHANGED <<part, pair, phone>>
  \/ PairNext  /\ UNCHANGED <<part, sync, phone>>
  \/ PhoneNext /\ UNCHANGED <<part, sync, pair>>

pairVars  == Once!vars
phoneVars == Pays!vars

\* Calls and requests run to their end, time passes and timers fire, and the panel
\* takes what it is sent.
PairFairness ==
  /\ \A c \in 1..2 : /\ WF_pairVars(In("once") /\ Once!Closed(c))
                     /\ WF_pairVars(In("once") /\ (Once!Listening(c) \/ Once!CannotListen(c)))
                     /\ WF_pairVars(In("once") /\ Once!Expires(c))
                     /\ WF_pairVars(In("once") /\ Once!OnExpire(c))
  /\ WF_pairVars(In("once") /\ Once!UiTakes)
  /\ WF_pairVars(In("once") /\ \E s \in saving : Once!Recorded(s))
  /\ WF_pairVars(In("once") /\ Once!Received(j1)) /\ WF_pairVars(In("once") /\ Once!Handled(j1))
  /\ WF_pairVars(In("once") /\ (Once!Joined(j1) \/ Once!ReplyLost(j1)))

\* Due alarms fire, work runs to its end, the boot is announced.
PaysFairness ==
  /\ WF_phoneVars(In("pays") /\ Pays!AlarmFires(a)) /\ WF_phoneVars(In("pays") /\ Pays!WorkStep(a))
  /\ WF_phoneVars(In("pays") /\ Pays!BootReceived)

\* The same, and the user opens the app and returns to it, and what an open app has
\* to do is done.
ReportsFairness ==
  /\ WF_phoneVars(In("reports") /\ Reports!AlarmFires(a))
  /\ WF_phoneVars(In("reports") /\ Reports!WorkStep(a))
  /\ WF_phoneVars(In("reports") /\ Reports!HearsRun(a))
  /\ WF_phoneVars(In("reports") /\ Reports!Opens) /\ WF_phoneVars(In("reports") /\ Reports!Syncs)
  /\ WF_phoneVars(In("reports") /\ Reports!Drains) /\ WF_phoneVars(In("reports") /\ Reports!Resumes)

Spec ==
  Init /\ [][Next]_vars /\ PairFairness /\ PaysFairness /\ ReportsFairness

-----------------------------------------------------------------------------
(* Properties, each of their parts stated and explained in its own module *)

\* Every variable of the part that moves has its type; a request is accepted once,
\* however many copies of it arrive; the code drawn for a patient user is the one
\* start() has armed, and the key kept for a pairing was derived over a code drawn
\* for that pairing.
DevicesInv ==
  CASE In("edit")  -> Edit!TypeOK
    [] In("undo")  -> Undo!TypeOK
    [] In("loss")  -> Loss!TypeOK
    [] In("crash") -> Crash!TypeOK
    [] In("both")  -> Both!TypeOK /\ Both!AcceptedOnce
    [] In("hasty") -> Hasty!TypeOK /\ Hasty!KeptForItsOwn
    [] In("calm")  -> Calm!TypeOK /\ Calm!KeptForItsOwn /\ Calm!DrawnIsLive
    [] In("alone") -> Alone!TypeOK
    [] In("two")   -> Two!TypeOK
    [] In("app")   -> App!TypeOK
    [] OTHER       -> TRUE

\* Until a process dies, a cycle that succeeded leaves both devices alike, whatever was
\* lost before; and what a device takes for told is on the other's disk even then.  The
\* very jobs that were changed in mid-exchange are excepted.
Agreed ==
  /\ (In("edit") => Edit!Agreed)
  /\ (In("loss") => Loss!Agreed /\ Loss!ToldIsKept)
  /\ (In("crash") => Crash!Agreed /\ Crash!ToldIsKept)

\* An exchange removes a job only because somebody deleted it later than it was
\* last edited on this device, or because it was itself changed in mid-exchange.
RemovedByDeletion == [][Edit!RemovedByDeletion]_vars

\* The phone mails an instant once, across retries, reboots and other jobs, and a
\* job with an instant ahead is armed, worked on, or re-armed after the boot.
PhonePaysOnce ==
  /\ (In("alone") => Alone!SentOnce /\ Alone!StaysArmed)
  /\ (In("two") => Two!SentOnce)
  /\ (In("app") => App!StaysArmed)

\* When all cycles are over and nothing was lost, some device can begin one that succeeds.
NextPollResolves == In("both") => Both!NextPollResolves

\* A pairing socket that listens is closed again, and a device that posts is
\* answered or refused.
PairingEnds == In("once") => Once!SocketCloses /\ Once!EveryoneAnswered

\* An instant that comes due on the phone is run, or a run of the same job ends
\* after it, and the web layer hears of every run.
PaidAndReported ==
  /\ (In("pays") => Pays!PaidInTheEnd)
  /\ (In("reports") => Reports!Reported)
=============================================================================
