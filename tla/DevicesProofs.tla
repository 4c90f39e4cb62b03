--------------------------- MODULE DevicesProofs ---------------------------
(***************************************************************************)
(* Proofs about what MCDevices composes: what DevicePartsProofs shows of   *)
(* two devices that synchronise, of the phone and of the pairing holds in  *)
(* the composition, where one part moves and the others rest.  In "both"   *)
(* nobody edits, so that there is nothing an exchange could remove; "once",*)
(* "pays" and "reports" are there for their liveness, which TLC checks.    *)
(***************************************************************************)
EXTENDS MCDevices, Integers, TLAPS

\* The proofs, for the devices of "edit", "undo", "loss", "crash" and "both", for the phones of
\* "alone", "two" and "app", and for the pairings of "hasty" and "calm".
Edited == INSTANCE DevicePartsProofs WITH
  Devices <- {d1, d2}, Askers <- {d1}, Jobs <- {i, j}, MaxClock <- 2,
  MaxSeq <- 2, MaxMissed <- 0, MaxCopies <- 0, MaxCrashes <- 0, MaxFaults <- 0, MaxUndos <- 0,
  Scheduled <- {a}, FireOnce <- {a}, Plans <- {{1, 2}}, MaxAttempts <- 2, MaxTime <- 2,
  MaxOpens <- 0, MaxKills <- 1, MaxLost <- 0, MaxEdits <- 0, MaxTaps <- 1,
  Joiners <- {j1}, Fast <- {}, MaxCodes <- 2, MaxPairs <- 2, MaxRounds <- 1, Patient <- FALSE

Undoing == INSTANCE DevicePartsProofs WITH
  Devices <- {d1, d2}, Askers <- {d1}, Jobs <- {j}, MaxClock <- 3,
  MaxSeq <- 2, MaxMissed <- 0, MaxCopies <- 0, MaxCrashes <- 0, MaxFaults <- 0, MaxUndos <- 1,
  Scheduled <- {a}, FireOnce <- {a}, Plans <- {{1, 2}}, MaxAttempts <- 2, MaxTime <- 2,
  MaxOpens <- 0, MaxKills <- 1, MaxLost <- 0, MaxEdits <- 0, MaxTaps <- 1,
  Joiners <- {j1}, Fast <- {}, MaxCodes <- 2, MaxPairs <- 2, MaxRounds <- 1, Patient <- FALSE

Losing == INSTANCE DevicePartsProofs WITH
  Devices <- {d1, d2}, Askers <- {d1}, Jobs <- {j}, MaxClock <- 2,
  MaxSeq <- 2, MaxMissed <- 1, MaxCopies <- 0, MaxCrashes <- 0, MaxFaults <- 1, MaxUndos <- 0,
  Scheduled <- {a, b}, FireOnce <- {a}, Plans <- {{1}}, MaxAttempts <- 1, MaxTime <- 1,
  MaxOpens <- 0, MaxKills <- 0, MaxLost <- 0, MaxEdits <- 0, MaxTaps <- 0,
  Joiners <- {j1, j2}, Fast <- {}, MaxCodes <- 2, MaxPairs <- 1, MaxRounds <- 0, Patient <- TRUE

Crashing == INSTANCE DevicePartsProofs WITH
  Devices <- {d1, d2}, Askers <- {d1}, Jobs <- {j}, MaxClock <- 2,
  MaxSeq <- 2, MaxMissed <- 0, MaxCopies <- 0, MaxCrashes <- 1, MaxFaults <- 1, MaxUndos <- 0,
  Scheduled <- {a, b}, FireOnce <- {a}, Plans <- {{1}}, MaxAttempts <- 1, MaxTime <- 1,
  MaxOpens <- 0, MaxKills <- 0, MaxLost <- 0, MaxEdits <- 0, MaxTaps <- 0,
  Joiners <- {j1, j2}, Fast <- {}, MaxCodes <- 2, MaxPairs <- 1, MaxRounds <- 0, Patient <- TRUE

Asking == INSTANCE DevicePartsProofs WITH
  Devices <- {d1, d2}, Askers <- {d1, d2}, Jobs <- {j}, MaxClock <- 0,
  MaxSeq <- 2, MaxMissed <- 1, MaxCopies <- 1, MaxCrashes <- 0, MaxFaults <- 0, MaxUndos <- 0,
  Scheduled <- {a}, FireOnce <- {a}, Plans <- {{}, {2}}, MaxAttempts <- 1, MaxTime <- 2,
  MaxOpens <- 1, MaxKills <- 0, MaxLost <- 0, MaxEdits <- 1, MaxTaps <- 0,
  Joiners <- {j1}, Fast <- {}, MaxCodes <- 2, MaxPairs <- 2, MaxRounds <- 0, Patient <- TRUE

-----------------------------------------------------------------------------
(* MCDevices has copies of DeviceSync, and DevicePartsProofs is about others: they are the *)
(* same, definition by definition. *)

LEMMA SameEdit == (Edit!Init <=> Edited!Init) /\ (Edit!Next <=> Edited!Next)
BY DEF Edit!stateVars, Edited!stateVars, Edit!talkVars, Edited!talkVars, Edit!budgets,
   Edited!budgets, Edit!Peer, Edited!Peer, Edit!Nobody, Edited!Nobody, Edit!Later, Edited!Later,
   Edit!Nothing, Edited!Nothing, Edit!NoPatch, Edited!NoPatch, Edit!NoAsk, Edited!NoAsk,
   Edit!Fresh, Edited!Fresh, Edit!Init, Edited!Init, Edit!Since, Edited!Since, Edit!Changed,
   Edited!Changed, Edit!Winner, Edited!Winner, Edit!Survives, Edited!Survives, Edit!Merged,
   Edited!Merged, Edit!Applied, Edited!Applied, Edit!AskBegins, Edited!AskBegins, Edit!Forsaken,
   Edited!Forsaken, Edit!Abandoned, Edited!Abandoned, Edit!Answerable, Edited!Answerable,
   Edit!GivesUp, Edited!GivesUp, Edit!HearsReply, Edited!HearsReply, Edit!SyncedAt,
   Edited!SyncedAt, Edit!AskEnds, Edited!AskEnds, Edit!Answers, Edited!Answers, Edit!Refuses,
   Edited!Refuses, Edit!Committed, Edited!Committed, Edit!Accepts, Edited!Accepts, Edit!Applies,
   Edited!Applies, Edit!SavedFile, Edited!SavedFile, Edit!Acknowledges, Edited!Acknowledges,
   Edit!SaveFails, Edited!SaveFails, Edit!Drops, Edited!Drops, Edit!Copies, Edited!Copies,
   Edit!Exchanging, Edited!Exchanging, Edit!Changes, Edited!Changes, Edit!MayEdit, Edited!MayEdit,
   Edit!Edits, Edited!Edits, Edit!Deletes, Edited!Deletes, Edit!Undeletes, Edited!Undeletes,
   Edit!KeepsLoser, Edited!KeepsLoser, Edit!Saves, Edited!Saves, Edit!Crashes, Edited!Crashes,
   Edit!Answering, Edited!Answering, Edit!Next, Edited!Next

LEMMA SameUndo == (Undo!Init <=> Undoing!Init) /\ (Undo!Next <=> Undoing!Next)
BY DEF Undo!stateVars, Undoing!stateVars, Undo!talkVars, Undoing!talkVars, Undo!budgets,
   Undoing!budgets, Undo!Peer, Undoing!Peer, Undo!Nobody, Undoing!Nobody, Undo!Later,
   Undoing!Later, Undo!Nothing, Undoing!Nothing, Undo!NoPatch, Undoing!NoPatch, Undo!NoAsk,
   Undoing!NoAsk, Undo!Fresh, Undoing!Fresh, Undo!Init, Undoing!Init, Undo!Since, Undoing!Since,
   Undo!Changed, Undoing!Changed, Undo!Winner, Undoing!Winner, Undo!Survives, Undoing!Survives,
   Undo!Merged, Undoing!Merged, Undo!Applied, Undoing!Applied, Undo!AskBegins, Undoing!AskBegins,
   Undo!Forsaken, Undoing!Forsaken, Undo!Abandoned, Undoing!Abandoned, Undo!Answerable,
   Undoing!Answerable, Undo!GivesUp, Undoing!GivesUp, Undo!HearsReply, Undoing!HearsReply,
   Undo!SyncedAt, Undoing!SyncedAt, Undo!AskEnds, Undoing!AskEnds, Undo!Answers, Undoing!Answers,
   Undo!Refuses, Undoing!Refuses, Undo!Committed, Undoing!Committed, Undo!Accepts,
   Undoing!Accepts, Undo!Applies, Undoing!Applies, Undo!SavedFile, Undoing!SavedFile,
   Undo!Acknowledges, Undoing!Acknowledges, Undo!SaveFails, Undoing!SaveFails, Undo!Drops,
   Undoing!Drops, Undo!Copies, Undoing!Copies, Undo!Exchanging, Undoing!Exchanging, Undo!Changes,
   Undoing!Changes, Undo!MayEdit, Undoing!MayEdit, Undo!Edits, Undoing!Edits, Undo!Deletes,
   Undoing!Deletes, Undo!Undeletes, Undoing!Undeletes, Undo!KeepsLoser, Undoing!KeepsLoser,
   Undo!Saves, Undoing!Saves, Undo!Crashes, Undoing!Crashes, Undo!Answering, Undoing!Answering,
   Undo!Next, Undoing!Next

LEMMA SameLoss == (Loss!Init <=> Losing!Init) /\ (Loss!Next <=> Losing!Next)
BY DEF Loss!stateVars, Losing!stateVars, Loss!talkVars, Losing!talkVars, Loss!budgets,
   Losing!budgets, Loss!Peer, Losing!Peer, Loss!Nobody, Losing!Nobody, Loss!Later, Losing!Later,
   Loss!Nothing, Losing!Nothing, Loss!NoPatch, Losing!NoPatch, Loss!NoAsk, Losing!NoAsk,
   Loss!Fresh, Losing!Fresh, Loss!Init, Losing!Init, Loss!Since, Losing!Since, Loss!Changed,
   Losing!Changed, Loss!Winner, Losing!Winner, Loss!Survives, Losing!Survives, Loss!Merged,
   Losing!Merged, Loss!Applied, Losing!Applied, Loss!AskBegins, Losing!AskBegins, Loss!Forsaken,
   Losing!Forsaken, Loss!Abandoned, Losing!Abandoned, Loss!Answerable, Losing!Answerable,
   Loss!GivesUp, Losing!GivesUp, Loss!HearsReply, Losing!HearsReply, Loss!SyncedAt,
   Losing!SyncedAt, Loss!AskEnds, Losing!AskEnds, Loss!Answers, Losing!Answers, Loss!Refuses,
   Losing!Refuses, Loss!Committed, Losing!Committed, Loss!Accepts, Losing!Accepts, Loss!Applies,
   Losing!Applies, Loss!SavedFile, Losing!SavedFile, Loss!Acknowledges, Losing!Acknowledges,
   Loss!SaveFails, Losing!SaveFails, Loss!Drops, Losing!Drops, Loss!Copies, Losing!Copies,
   Loss!Exchanging, Losing!Exchanging, Loss!Changes, Losing!Changes, Loss!MayEdit, Losing!MayEdit,
   Loss!Edits, Losing!Edits, Loss!Deletes, Losing!Deletes, Loss!Undeletes, Losing!Undeletes,
   Loss!KeepsLoser, Losing!KeepsLoser, Loss!Saves, Losing!Saves, Loss!Crashes, Losing!Crashes,
   Loss!Answering, Losing!Answering, Loss!Next, Losing!Next

LEMMA SameCrash == (Crash!Init <=> Crashing!Init) /\ (Crash!Next <=> Crashing!Next)
BY DEF Crash!stateVars, Crashing!stateVars, Crash!talkVars, Crashing!talkVars, Crash!budgets,
   Crashing!budgets, Crash!Peer, Crashing!Peer, Crash!Nobody, Crashing!Nobody, Crash!Later,
   Crashing!Later, Crash!Nothing, Crashing!Nothing, Crash!NoPatch, Crashing!NoPatch, Crash!NoAsk,
   Crashing!NoAsk, Crash!Fresh, Crashing!Fresh, Crash!Init, Crashing!Init, Crash!Since,
   Crashing!Since, Crash!Changed, Crashing!Changed, Crash!Winner, Crashing!Winner, Crash!Survives,
   Crashing!Survives, Crash!Merged, Crashing!Merged, Crash!Applied, Crashing!Applied,
   Crash!AskBegins, Crashing!AskBegins, Crash!Forsaken, Crashing!Forsaken, Crash!Abandoned,
   Crashing!Abandoned, Crash!Answerable, Crashing!Answerable, Crash!GivesUp, Crashing!GivesUp,
   Crash!HearsReply, Crashing!HearsReply, Crash!SyncedAt, Crashing!SyncedAt, Crash!AskEnds,
   Crashing!AskEnds, Crash!Answers, Crashing!Answers, Crash!Refuses, Crashing!Refuses,
   Crash!Committed, Crashing!Committed, Crash!Accepts, Crashing!Accepts, Crash!Applies,
   Crashing!Applies, Crash!SavedFile, Crashing!SavedFile, Crash!Acknowledges,
   Crashing!Acknowledges, Crash!SaveFails, Crashing!SaveFails, Crash!Drops, Crashing!Drops,
   Crash!Copies, Crashing!Copies, Crash!Exchanging, Crashing!Exchanging, Crash!Changes,
   Crashing!Changes, Crash!MayEdit, Crashing!MayEdit, Crash!Edits, Crashing!Edits, Crash!Deletes,
   Crashing!Deletes, Crash!Undeletes, Crashing!Undeletes, Crash!KeepsLoser, Crashing!KeepsLoser,
   Crash!Saves, Crashing!Saves, Crash!Crashes, Crashing!Crashes, Crash!Answering,
   Crashing!Answering, Crash!Next, Crashing!Next

LEMMA SameBoth == (Both!Init <=> Asking!Init) /\ (Both!Next <=> Asking!Next)
BY DEF Both!stateVars, Asking!stateVars, Both!talkVars, Asking!talkVars, Both!budgets,
   Asking!budgets, Both!Peer, Asking!Peer, Both!Nobody, Asking!Nobody, Both!Later, Asking!Later,
   Both!Nothing, Asking!Nothing, Both!NoPatch, Asking!NoPatch, Both!NoAsk, Asking!NoAsk,
   Both!Fresh, Asking!Fresh, Both!Init, Asking!Init, Both!Since, Asking!Since, Both!Changed,
   Asking!Changed, Both!Winner, Asking!Winner, Both!Survives, Asking!Survives, Both!Merged,
   Asking!Merged, Both!Applied, Asking!Applied, Both!AskBegins, Asking!AskBegins, Both!Forsaken,
   Asking!Forsaken, Both!Abandoned, Asking!Abandoned, Both!Answerable, Asking!Answerable,
   Both!GivesUp, Asking!GivesUp, Both!HearsReply, Asking!HearsReply, Both!SyncedAt,
   Asking!SyncedAt, Both!AskEnds, Asking!AskEnds, Both!Answers, Asking!Answers, Both!Refuses,
   Asking!Refuses, Both!Committed, Asking!Committed, Both!Accepts, Asking!Accepts, Both!Applies,
   Asking!Applies, Both!SavedFile, Asking!SavedFile, Both!Acknowledges, Asking!Acknowledges,
   Both!SaveFails, Asking!SaveFails, Both!Drops, Asking!Drops, Both!Copies, Asking!Copies,
   Both!Exchanging, Asking!Exchanging, Both!Changes, Asking!Changes, Both!MayEdit, Asking!MayEdit,
   Both!Edits, Asking!Edits, Both!Deletes, Asking!Deletes, Both!Undeletes, Asking!Undeletes,
   Both!KeepsLoser, Asking!KeepsLoser, Both!Saves, Asking!Saves, Both!Crashes, Asking!Crashes,
   Both!Answering, Asking!Answering, Both!Next, Asking!Next

LEMMA SameProperties ==
  /\ Edit!Agreed <=> Edited!Agreed
  /\ Loss!Agreed <=> Losing!Agreed
  /\ Loss!ToldIsKept <=> Losing!ToldIsKept
  /\ Crash!Agreed <=> Crashing!Agreed
  /\ Crash!ToldIsKept <=> Crashing!ToldIsKept
  /\ Edit!RemovedByDeletion <=> Edited!RemovedByDeletion
  /\ Edit!RemovedByDeletion <=> Undoing!RemovedByDeletion
  /\ Edit!RemovedByDeletion <=> Losing!RemovedByDeletion
  /\ Edit!RemovedByDeletion <=> Crashing!RemovedByDeletion
BY DEF Edit!Agreed, Edited!Agreed, Edit!Peer, Edited!Peer, Loss!Agreed, Losing!Agreed, Loss!Peer,
   Losing!Peer, Loss!ToldIsKept, Losing!ToldIsKept, Loss!Knows, Losing!Knows, Crash!Agreed,
   Crashing!Agreed, Crash!Peer, Crashing!Peer, Crash!ToldIsKept, Crashing!ToldIsKept, Crash!Knows,
   Crashing!Knows, Edit!RemovedByDeletion, Edited!RemovedByDeletion, Undoing!RemovedByDeletion,
   Losing!RemovedByDeletion, Crashing!RemovedByDeletion, Edit!GoesByDeletion,
   Edited!GoesByDeletion, Undoing!GoesByDeletion, Losing!GoesByDeletion, Crashing!GoesByDeletion

LEMMA SameVars ==
  /\ UNCHANGED sync => /\ UNCHANGED Edited!vars /\ UNCHANGED Undoing!vars
                       /\ UNCHANGED Losing!vars /\ UNCHANGED Crashing!vars
                       /\ UNCHANGED Asking!vars
  /\ UNCHANGED sync => UNCHANGED state
BY DEF sync, Edited!vars, Edited!stateVars, Edited!talkVars, Edited!budgets, Undoing!vars,
   Undoing!stateVars, Undoing!talkVars, Undoing!budgets, Losing!vars, Losing!stateVars,
   Losing!talkVars, Losing!budgets, Crashing!vars, Crashing!stateVars, Crashing!talkVars,
   Crashing!budgets, Asking!vars, Asking!stateVars, Asking!talkVars, Asking!budgets

LEMMA DevicesAssumed ==
  /\ Edited!SyncAssumption /\ Undoing!SyncAssumption /\ Losing!SyncAssumption
  /\ Crashing!SyncAssumption /\ Asking!SyncAssumption
  /\ Edited!OneAsker /\ Undoing!OneAsker /\ Losing!OneAsker /\ Crashing!OneAsker
<1>1. /\ Edit!SyncAssumption /\ Undo!SyncAssumption /\ Loss!SyncAssumption
      /\ Crash!SyncAssumption /\ Both!SyncAssumption
  BY DevicesAssumption
<1>2. Edited!SyncAssumption
  BY <1>1 DEF Edit!SyncAssumption, Edited!SyncAssumption, Edit!IsFiniteSet, Edited!IsFiniteSet,
     Edit!Cardinality, Edited!Cardinality
<1>3. Undoing!SyncAssumption
  BY <1>1 DEF Undo!SyncAssumption, Undoing!SyncAssumption, Undo!IsFiniteSet, Undoing!IsFiniteSet,
     Undo!Cardinality, Undoing!Cardinality
<1>4. Losing!SyncAssumption
  BY <1>1 DEF Loss!SyncAssumption, Losing!SyncAssumption, Loss!IsFiniteSet, Losing!IsFiniteSet,
     Loss!Cardinality, Losing!Cardinality
<1>5. Crashing!SyncAssumption
  BY <1>1 DEF Crash!SyncAssumption, Crashing!SyncAssumption, Crash!IsFiniteSet,
     Crashing!IsFiniteSet, Crash!Cardinality, Crashing!Cardinality
<1>6. Asking!SyncAssumption
  BY <1>1 DEF Both!SyncAssumption, Asking!SyncAssumption, Both!IsFiniteSet, Asking!IsFiniteSet,
     Both!Cardinality, Asking!Cardinality
<1>7. Edited!OneAsker /\ Undoing!OneAsker /\ Losing!OneAsker /\ Crashing!OneAsker
  BY DEF Edited!OneAsker, Undoing!OneAsker, Losing!OneAsker, Crashing!OneAsker
<1> QED BY <1>2, <1>3, <1>4, <1>5, <1>6, <1>7

-----------------------------------------------------------------------------
(* The composition *)

\* No deletion is undone in "loss" and "crash", and nobody edits in "both".
SyncSafe ==
  /\ part = "edit"  => Edited!SyncInv
  /\ part = "undo"  => Undoing!SyncInv
  /\ part = "loss"  => Losing!SyncInv /\ undos = 0
  /\ part = "crash" => Crashing!SyncInv /\ undos = 0
  /\ part = "both"  => Asking!Lived /\ Asking!Blank /\ clock = 0 /\ undos = 0

LEMMA SyncStarts == ASSUME Init PROVE SyncSafe
<1>1. CASE part = "edit" /\ Edit!Init
  BY <1>1, SameEdit, DevicesAssumed, Edited!InitSync DEF SyncSafe
<1>2. CASE part = "undo" /\ Undo!Init
  BY <1>2, SameUndo, DevicesAssumed, Undoing!InitSync DEF SyncSafe
<1>3. CASE part = "loss" /\ Loss!Init
  BY <1>3, SameLoss, DevicesAssumed, Losing!InitSync, Losing!InitBlank DEF SyncSafe
<1>4. CASE part = "crash" /\ Crash!Init
  BY <1>4, SameCrash, DevicesAssumed, Crashing!InitSync, Crashing!InitBlank DEF SyncSafe
<1>5. CASE part = "both" /\ Both!Init
  BY <1>5, SameBoth, DevicesAssumed, Asking!InitLived, Asking!InitBlank DEF SyncSafe
<1>6. CASE part \notin {"edit", "undo", "loss", "crash", "both"}
  BY <1>6 DEF SyncSafe
<1> QED
  BY <1>1, <1>2, <1>3, <1>4, <1>5, <1>6 DEF Init, SyncMoves, PairMoves, PhoneMoves, In

\* One of the five moves, or the devices rest.
LEMMA SyncStepIs ==
  ASSUME [Next]_vars
  PROVE  part' = part /\ (\/ UNCHANGED sync
                          \/ part = "edit" /\ Edited!Next
                          \/ part = "undo" /\ Undoing!Next
                          \/ part = "loss" /\ Losing!Next
                          \/ part = "crash" /\ Crashing!Next
                          \/ part = "both" /\ Asking!Next)
BY SameEdit, SameUndo, SameLoss, SameCrash, SameBoth DEF Next, SyncNext, In, vars

\* Nothing goes while it is unchanged, or where there is nothing.
LEMMA NothingGoes ==
  ASSUME \/ state' = state
         \/ \A d \in {d1, d2} : \A k \in DOMAIN state[d].jobs : state[d].jobs[k] = 0
  PROVE  Edit!RemovedByDeletion
BY DEF Edit!RemovedByDeletion, Edit!GoesByDeletion

LEMMA SyncStep ==
  ASSUME SyncSafe, [Next]_vars PROVE SyncSafe' /\ Edit!RemovedByDeletion
<1>1. CASE UNCHANGED <<sync, part>>
  <2>1. UNCHANGED <<state, clock, undos>>
    BY <1>1 DEF sync
  <2>2. part = "edit" => Edited!SyncInv'
    BY <1>1, SameVars, DevicesAssumed, Edited!StepSync DEF SyncSafe
  <2>3. part = "undo" => Undoing!SyncInv'
    BY <1>1, SameVars, DevicesAssumed, Undoing!StepSync DEF SyncSafe
  <2>4. part = "loss" => Losing!SyncInv'
    BY <1>1, SameVars, DevicesAssumed, Losing!StepSync DEF SyncSafe
  <2>5. part = "crash" => Crashing!SyncInv'
    BY <1>1, SameVars, DevicesAssumed, Crashing!StepSync DEF SyncSafe
  <2>6. part = "both" => Asking!Lived' /\ Asking!Blank'
    BY <1>1, <2>1, SameVars, DevicesAssumed, Asking!StepLived, Asking!StepBlank DEF SyncSafe
  <2> QED BY <1>1, <2>1, <2>2, <2>3, <2>4, <2>5, <2>6, NothingGoes DEF SyncSafe
<1>2. CASE part = "edit" /\ part' = part /\ Edited!Next
  <2>1. Edited!SyncInv /\ Edited!SyncInv'
    BY <1>2, DevicesAssumed, Edited!StepSync DEF SyncSafe
  <2>2. Edited!RemovedByDeletion
    BY <1>2, <2>1, DevicesAssumed, Edited!RemovedByStep
  <2> QED BY <1>2, <2>1, <2>2, SameProperties DEF SyncSafe
<1>3. CASE part = "undo" /\ part' = part /\ Undoing!Next
  <2>1. Undoing!SyncInv /\ Undoing!SyncInv'
    BY <1>3, DevicesAssumed, Undoing!StepSync DEF SyncSafe
  <2>2. Undoing!RemovedByDeletion
    BY <1>3, <2>1, DevicesAssumed, Undoing!RemovedByStep
  <2> QED BY <1>3, <2>1, <2>2, SameProperties DEF SyncSafe
<1>4. CASE part = "loss" /\ part' = part /\ Losing!Next
  <2>1. Losing!SyncInv /\ Losing!SyncInv' /\ Losing!Lived /\ Losing!Lived'
    BY <1>4, DevicesAssumed, Losing!StepSync DEF SyncSafe, Losing!SyncInv
  <2>2. Losing!RemovedByDeletion
    BY <1>4, <2>1, DevicesAssumed, Losing!RemovedByStep
  <2>3. undos' = 0
    BY <1>4, <2>1, DevicesAssumed, Losing!InBounds DEF SyncSafe
  <2> QED BY <1>4, <2>1, <2>2, <2>3, SameProperties DEF SyncSafe
<1>5. CASE part = "crash" /\ part' = part /\ Crashing!Next
  <2>1. Crashing!SyncInv /\ Crashing!SyncInv' /\ Crashing!Lived /\ Crashing!Lived'
    BY <1>5, DevicesAssumed, Crashing!StepSync DEF SyncSafe, Crashing!SyncInv
  <2>2. Crashing!RemovedByDeletion
    BY <1>5, <2>1, DevicesAssumed, Crashing!RemovedByStep
  <2>3. undos' = 0
    BY <1>5, <2>1, DevicesAssumed, Crashing!InBounds DEF SyncSafe
  <2> QED BY <1>5, <2>1, <2>2, <2>3, SameProperties DEF SyncSafe
<1>6. CASE part = "both" /\ part' = part /\ Asking!Next
  <2>1. Asking!Lived /\ Asking!Lived' /\ clock' = 0 /\ undos' = 0
    BY <1>6, DevicesAssumed, Asking!StepLived, Asking!InBounds DEF SyncSafe
  <2>2. Asking!Blank'
    BY <1>6, <2>1, DevicesAssumed, Asking!StepBlank DEF SyncSafe
  <2>3. \A d \in {d1, d2} : \A k \in DOMAIN state[d].jobs : state[d].jobs[k] = 0
    BY <1>6 DEF SyncSafe, Asking!Blank, Asking!HoldsNothing, Asking!Nobody
  <2> QED BY <1>6, <2>1, <2>2, <2>3, NothingGoes DEF SyncSafe
<1> QED BY <1>1, <1>2, <1>3, <1>4, <1>5, <1>6, SyncStepIs

LEMMA SyncIsSafe == Spec => []SyncSafe
<1>1. Init => SyncSafe
  BY SyncStarts
<1>2. SyncSafe /\ [Next]_vars => SyncSafe'
  BY SyncStep
<1> QED BY <1>1, <1>2, PTL DEF Spec

\* Once a cycle has begun after the last change and succeeded both devices have the same
\* jobs, but for the very jobs changed in mid-exchange, whatever was lost before, until a
\* process dies; and what the asker takes for told is on the other's disk even then
\* (syncLoop.ts, applyExchange and its acknowledgement).
THEOREM BothAgree == Spec => []Agreed
<1>1. SyncSafe => Agreed
  BY SameProperties, DevicesAssumed, Edited!AgreedByInv, Losing!AgreedByInv,
     Losing!ToldByInv, Crashing!AgreedByInv, Crashing!ToldByInv DEF SyncSafe, Agreed, In
<1> QED BY <1>1, SyncIsSafe, PTL

\* Until a process dies or a deletion is undone, an exchange removes a job only because
\* somebody deleted it later than it was last edited on this device, or because it was
\* itself changed in mid-exchange (syncLoop.ts, applyExchange), whatever else moves and
\* whatever the user changes meanwhile.
THEOREM OnlyDeletionsRemove == Spec => RemovedByDeletion
<1>1. SyncSafe /\ [Next]_vars => [Edit!RemovedByDeletion]_vars
  BY SyncStep
<1> QED BY <1>1, SyncIsSafe, PTL DEF Spec, RemovedByDeletion

-----------------------------------------------------------------------------
(* The copies of AndroidScheduler are the same, definition by definition, as well. *)

LEMMA SameAlone == (Alone!Init <=> Edited!Phone!Init) /\ (Alone!Next <=> Edited!Phone!Next)
<1>1. Alone!Init <=> Edited!Phone!Init
  BY DEF Alone!Slots, Edited!Phone!Slots, Alone!Time, Edited!Phone!Time, Alone!Earliest,
     Edited!Phone!Earliest, Alone!NoReport, Edited!Phone!NoReport, Alone!NoWork,
     Edited!Phone!NoWork, Alone!Init, Edited!Phone!Init
<1>2. ASSUME NEW x
      PROVE  /\ Alone!AlarmFires(x) <=> Edited!Phone!AlarmFires(x)
             /\ Alone!RetryNow(x) <=> Edited!Phone!RetryNow(x)
             /\ Alone!Starts(x) <=> Edited!Phone!Starts(x)
             /\ Alone!Reads(x) <=> Edited!Phone!Reads(x)
  BY DEF Alone!storeVars, Edited!Phone!storeVars, Alone!webVars, Edited!Phone!webVars,
     Alone!ghosts, Edited!Phone!ghosts, Alone!budgets, Edited!Phone!budgets, Alone!Slots,
     Edited!Phone!Slots, Alone!Latest, Edited!Phone!Latest, Alone!NoWork, Edited!Phone!NoWork,
     Alone!Past, Edited!Phone!Past, Alone!MayFire, Edited!Phone!MayFire, Alone!Enqueued,
     Edited!Phone!Enqueued, Alone!AlarmFires, Edited!Phone!AlarmFires, Alone!RetryNow,
     Edited!Phone!RetryNow, Alone!DueAgain, Edited!Phone!DueAgain, Alone!Starts,
     Edited!Phone!Starts, Alone!Reads, Edited!Phone!Reads
<1>3. ASSUME NEW x
      PROVE  /\ Alone!Claims(x) <=> Edited!Phone!Claims(x)
             /\ Alone!Decides(x) <=> Edited!Phone!Decides(x)
             /\ Alone!MarksSending(x) <=> Edited!Phone!MarksSending(x)
             /\ Alone!Sends(x) <=> Edited!Phone!Sends(x)
  BY DEF Alone!storeVars, Edited!Phone!storeVars, Alone!webVars, Edited!Phone!webVars,
     Alone!ghosts, Edited!Phone!ghosts, Alone!budgets, Edited!Phone!budgets, Alone!To,
     Edited!Phone!To, Alone!Writes, Edited!Phone!Writes, Alone!HasEntry, Edited!Phone!HasEntry,
     Alone!Claims, Edited!Phone!Claims, Alone!Decides, Edited!Phone!Decides, Alone!ToFile,
     Edited!Phone!ToFile, Alone!MarksSending, Edited!Phone!MarksSending, Alone!Delivered,
     Edited!Phone!Delivered, Alone!Sends, Edited!Phone!Sends
<1>4. ASSUME NEW x
      PROVE  /\ Alone!MarksAccepted(x) <=> Edited!Phone!MarksAccepted(x)
             /\ Alone!Records(x) <=> Edited!Phone!Records(x)
             /\ Alone!Queues(x) <=> Edited!Phone!Queues(x)
  BY DEF Alone!webVars, Edited!Phone!webVars, Alone!ghosts, Edited!Phone!ghosts, Alone!budgets,
     Edited!Phone!budgets, Alone!Past, Edited!Phone!Past, Alone!Recorded, Edited!Phone!Recorded,
     Alone!ReportOf, Edited!Phone!ReportOf, Alone!To, Edited!Phone!To, Alone!Writes,
     Edited!Phone!Writes, Alone!HasEntry, Edited!Phone!HasEntry, Alone!MarksAccepted,
     Edited!Phone!MarksAccepted, Alone!Records, Edited!Phone!Records, Alone!Queues,
     Edited!Phone!Queues
<1>5. ASSUME NEW x
      PROVE  /\ Alone!ArmsNext(x) <=> Edited!Phone!ArmsNext(x)
  BY DEF Alone!webVars, Edited!Phone!webVars, Alone!ghosts, Edited!Phone!ghosts, Alone!budgets,
     Edited!Phone!budgets, Alone!Latest, Edited!Phone!Latest, Alone!Earliest,
     Edited!Phone!Earliest, Alone!NoReport, Edited!Phone!NoReport, Alone!Past, Edited!Phone!Past,
     Alone!Recorded, Edited!Phone!Recorded, Alone!ReportOf, Edited!Phone!ReportOf,
     Alone!PaysCatchUp, Edited!Phone!PaysCatchUp, Alone!NextOccurrence,
     Edited!Phone!NextOccurrence, Alone!Told, Edited!Phone!Told, Alone!To, Edited!Phone!To,
     Alone!Armed, Edited!Phone!Armed, Alone!ArmsNext, Edited!Phone!ArmsNext
<1>6. ASSUME NEW x
      PROVE  /\ Alone!Ends(x) <=> Edited!Phone!Ends(x)
             /\ Alone!HearsRun(x) <=> Edited!Phone!HearsRun(x)
             /\ Alone!Edits(x) <=> Edited!Phone!Edits(x)
  BY DEF Alone!storeVars, Edited!Phone!storeVars, Alone!webVars, Edited!Phone!webVars,
     Alone!ghosts, Edited!Phone!ghosts, Alone!budgets, Edited!Phone!budgets, Alone!Earliest,
     Edited!Phone!Earliest, Alone!NoReport, Edited!Phone!NoReport, Alone!NoWork,
     Edited!Phone!NoWork, Alone!Writes, Edited!Phone!Writes, Alone!HasEntry,
     Edited!Phone!HasEntry, Alone!Retries, Edited!Phone!Retries, Alone!Ends, Edited!Phone!Ends,
     Alone!Applied, Edited!Phone!Applied, Alone!HearsRun, Edited!Phone!HearsRun, Alone!Edits,
     Edited!Phone!Edits
<1>7. /\ Alone!BootReceived <=> Edited!Phone!BootReceived
      /\ Alone!Syncs <=> Edited!Phone!Syncs
  BY DEF Alone!webVars, Edited!Phone!webVars, Alone!ghosts, Edited!Phone!ghosts, Alone!budgets,
     Edited!Phone!budgets, Alone!Latest, Edited!Phone!Latest, Alone!Earliest,
     Edited!Phone!Earliest, Alone!NoReport, Edited!Phone!NoReport, Alone!Past, Edited!Phone!Past,
     Alone!Recorded, Edited!Phone!Recorded, Alone!ReportOf, Edited!Phone!ReportOf,
     Alone!PaysCatchUp, Edited!Phone!PaysCatchUp, Alone!NextOccurrence,
     Edited!Phone!NextOccurrence, Alone!MayFire, Edited!Phone!MayFire, Alone!Rearmed,
     Edited!Phone!Rearmed, Alone!Told, Edited!Phone!Told, Alone!Rearms, Edited!Phone!Rearms,
     Alone!BootReceived, Edited!Phone!BootReceived, Alone!Syncs, Edited!Phone!Syncs
<1>8. /\ Alone!Opens <=> Edited!Phone!Opens
      /\ Alone!Resumes <=> Edited!Phone!Resumes
      /\ Alone!Drains <=> Edited!Phone!Drains
      /\ Alone!Closes <=> Edited!Phone!Closes
      /\ Alone!Ticks <=> Edited!Phone!Ticks
      /\ Alone!Flushes <=> Edited!Phone!Flushes
  BY DEF Alone!storeVars, Edited!Phone!storeVars, Alone!webVars, Edited!Phone!webVars,
     Alone!ghosts, Edited!Phone!ghosts, Alone!budgets, Edited!Phone!budgets, Alone!Latest,
     Edited!Phone!Latest, Alone!NoReport, Edited!Phone!NoReport, Alone!Past, Edited!Phone!Past,
     Alone!Refilled, Edited!Phone!Refilled, Alone!Opens, Edited!Phone!Opens, Alone!Resumes,
     Edited!Phone!Resumes, Alone!Drains, Edited!Phone!Drains, Alone!Closes, Edited!Phone!Closes,
     Alone!Ticks, Edited!Phone!Ticks, Alone!Flushes, Edited!Phone!Flushes
<1>9. ASSUME NEW rebooted PROVE Alone!Killed(rebooted) <=> Edited!Phone!Killed(rebooted)
  BY DEF Alone!NoReport, Edited!Phone!NoReport, Alone!NoWork, Edited!Phone!NoWork, Alone!Running,
     Edited!Phone!Running, Alone!Killed, Edited!Phone!Killed
<1> QED
  BY <1>1, <1>2, <1>3, <1>4, <1>5, <1>6, <1>7, <1>8, <1>9 DEF Alone!Next, Edited!Phone!Next,
     Alone!WorkStep, Edited!Phone!WorkStep

LEMMA SameTwo == (Two!Init <=> Losing!Phone!Init) /\ (Two!Next <=> Losing!Phone!Next)
<1>1. Two!Init <=> Losing!Phone!Init
  BY DEF Two!Slots, Losing!Phone!Slots, Two!Time, Losing!Phone!Time, Two!Earliest,
     Losing!Phone!Earliest, Two!NoReport, Losing!Phone!NoReport, Two!NoWork, Losing!Phone!NoWork,
     Two!Init, Losing!Phone!Init
<1>2. ASSUME NEW x
      PROVE  /\ Two!AlarmFires(x) <=> Losing!Phone!AlarmFires(x)
             /\ Two!RetryNow(x) <=> Losing!Phone!RetryNow(x)
             /\ Two!Starts(x) <=> Losing!Phone!Starts(x)
             /\ Two!Reads(x) <=> Losing!Phone!Reads(x)
  BY DEF Two!storeVars, Losing!Phone!storeVars, Two!webVars, Losing!Phone!webVars, Two!ghosts,
     Losing!Phone!ghosts, Two!budgets, Losing!Phone!budgets, Two!Slots, Losing!Phone!Slots,
     Two!Latest, Losing!Phone!Latest, Two!NoWork, Losing!Phone!NoWork, Two!Past,
     Losing!Phone!Past, Two!MayFire, Losing!Phone!MayFire, Two!Enqueued, Losing!Phone!Enqueued,
     Two!AlarmFires, Losing!Phone!AlarmFires, Two!RetryNow, Losing!Phone!RetryNow, Two!DueAgain,
     Losing!Phone!DueAgain, Two!Starts, Losing!Phone!Starts, Two!Reads, Losing!Phone!Reads
<1>3. ASSUME NEW x
      PROVE  /\ Two!Claims(x) <=> Losing!Phone!Claims(x)
             /\ Two!Decides(x) <=> Losing!Phone!Decides(x)
             /\ Two!MarksSending(x) <=> Losing!Phone!MarksSending(x)
             /\ Two!Sends(x) <=> Losing!Phone!Sends(x)
  BY DEF Two!storeVars, Losing!Phone!storeVars, Two!webVars, Losing!Phone!webVars, Two!ghosts,
     Losing!Phone!ghosts, Two!budgets, Losing!Phone!budgets, Two!To, Losing!Phone!To, Two!Writes,
     Losing!Phone!Writes, Two!HasEntry, Losing!Phone!HasEntry, Two!Claims, Losing!Phone!Claims,
     Two!Decides, Losing!Phone!Decides, Two!ToFile, Losing!Phone!ToFile, Two!MarksSending,
     Losing!Phone!MarksSending, Two!Delivered, Losing!Phone!Delivered, Two!Sends,
     Losing!Phone!Sends
<1>4. ASSUME NEW x
      PROVE  /\ Two!MarksAccepted(x) <=> Losing!Phone!MarksAccepted(x)
             /\ Two!Records(x) <=> Losing!Phone!Records(x)
             /\ Two!Queues(x) <=> Losing!Phone!Queues(x)
  BY DEF Two!webVars, Losing!Phone!webVars, Two!ghosts, Losing!Phone!ghosts, Two!budgets,
     Losing!Phone!budgets, Two!Past, Losing!Phone!Past, Two!Recorded, Losing!Phone!Recorded,
     Two!ReportOf, Losing!Phone!ReportOf, Two!To, Losing!Phone!To, Two!Writes,
     Losing!Phone!Writes, Two!HasEntry, Losing!Phone!HasEntry, Two!MarksAccepted,
     Losing!Phone!MarksAccepted, Two!Records, Losing!Phone!Records, Two!Queues,
     Losing!Phone!Queues
<1>5. ASSUME NEW x
      PROVE  /\ Two!ArmsNext(x) <=> Losing!Phone!ArmsNext(x)
  BY DEF Two!webVars, Losing!Phone!webVars, Two!ghosts, Losing!Phone!ghosts, Two!budgets,
     Losing!Phone!budgets, Two!Latest, Losing!Phone!Latest, Two!Earliest, Losing!Phone!Earliest,
     Two!NoReport, Losing!Phone!NoReport, Two!Past, Losing!Phone!Past, Two!Recorded,
     Losing!Phone!Recorded, Two!ReportOf, Losing!Phone!ReportOf, Two!PaysCatchUp,
     Losing!Phone!PaysCatchUp, Two!NextOccurrence, Losing!Phone!NextOccurrence, Two!Told,
     Losing!Phone!Told, Two!To, Losing!Phone!To, Two!Armed, Losing!Phone!Armed, Two!ArmsNext,
     Losing!Phone!ArmsNext
<1>6. ASSUME NEW x
      PROVE  /\ Two!Ends(x) <=> Losing!Phone!Ends(x)
             /\ Two!HearsRun(x) <=> Losing!Phone!HearsRun(x)
             /\ Two!Edits(x) <=> Losing!Phone!Edits(x)
  BY DEF Two!storeVars, Losing!Phone!storeVars, Two!webVars, Losing!Phone!webVars, Two!ghosts,
     Losing!Phone!ghosts, Two!budgets, Losing!Phone!budgets, Two!Earliest, Losing!Phone!Earliest,
     Two!NoReport, Losing!Phone!NoReport, Two!NoWork, Losing!Phone!NoWork, Two!Writes,
     Losing!Phone!Writes, Two!HasEntry, Losing!Phone!HasEntry, Two!Retries, Losing!Phone!Retries,
     Two!Ends, Losing!Phone!Ends, Two!Applied, Losing!Phone!Applied, Two!HearsRun,
     Losing!Phone!HearsRun, Two!Edits, Losing!Phone!Edits
<1>7. /\ Two!BootReceived <=> Losing!Phone!BootReceived
      /\ Two!Syncs <=> Losing!Phone!Syncs
  <2>1. ASSUME NEW s, NEW x, NEW t
        PROVE  Two!NextOccurrence(s, x, t) = Losing!Phone!NextOccurrence(s, x, t)
    BY DEF Two!Latest, Losing!Phone!Latest, Two!Earliest, Losing!Phone!Earliest, Two!Past,
       Losing!Phone!Past, Two!Recorded, Losing!Phone!Recorded, Two!ReportOf, Losing!Phone!ReportOf,
       Two!PaysCatchUp, Losing!Phone!PaysCatchUp, Two!NextOccurrence, Losing!Phone!NextOccurrence
  <2>2. ASSUME NEW s, NEW t PROVE Two!Rearmed(s, t) = Losing!Phone!Rearmed(s, t)
    BY <2>1 DEF Two!MayFire, Losing!Phone!MayFire, Two!Rearmed, Losing!Phone!Rearmed
  <2>3. ASSUME NEW s PROVE Two!Rearms(s) <=> Losing!Phone!Rearms(s)
    BY <2>2 DEF Two!Rearms, Losing!Phone!Rearms, Two!Told, Losing!Phone!Told, Two!NoReport,
       Losing!Phone!NoReport
  <2> QED
    BY <2>3 DEF Two!webVars, Losing!Phone!webVars, Two!ghosts, Losing!Phone!ghosts, Two!budgets,
       Losing!Phone!budgets, Two!BootReceived, Losing!Phone!BootReceived, Two!Syncs,
       Losing!Phone!Syncs
<1>8. /\ Two!Opens <=> Losing!Phone!Opens
      /\ Two!Resumes <=> Losing!Phone!Resumes
      /\ Two!Drains <=> Losing!Phone!Drains
      /\ Two!Closes <=> Losing!Phone!Closes
      /\ Two!Ticks <=> Losing!Phone!Ticks
      /\ Two!Flushes <=> Losing!Phone!Flushes
  BY DEF Two!storeVars, Losing!Phone!storeVars, Two!webVars, Losing!Phone!webVars, Two!ghosts,
     Losing!Phone!ghosts, Two!budgets, Losing!Phone!budgets, Two!Latest, Losing!Phone!Latest,
     Two!NoReport, Losing!Phone!NoReport, Two!Past, Losing!Phone!Past, Two!Refilled,
     Losing!Phone!Refilled, Two!Opens, Losing!Phone!Opens, Two!Resumes, Losing!Phone!Resumes,
     Two!Drains, Losing!Phone!Drains, Two!Closes, Losing!Phone!Closes, Two!Ticks,
     Losing!Phone!Ticks, Two!Flushes, Losing!Phone!Flushes
<1>9. ASSUME NEW rebooted PROVE Two!Killed(rebooted) <=> Losing!Phone!Killed(rebooted)
  BY DEF Two!NoReport, Losing!Phone!NoReport, Two!NoWork, Losing!Phone!NoWork, Two!Running,
     Losing!Phone!Running, Two!Killed, Losing!Phone!Killed
<1> QED
  BY <1>1, <1>2, <1>3, <1>4, <1>5, <1>6, <1>7, <1>8, <1>9 DEF Two!Next, Losing!Phone!Next,
     Two!WorkStep, Losing!Phone!WorkStep

LEMMA SameApp == (App!Init <=> Asking!Phone!Init) /\ (App!Next <=> Asking!Phone!Next)
<1>1. App!Init <=> Asking!Phone!Init
  BY DEF App!Slots, Asking!Phone!Slots, App!Time, Asking!Phone!Time, App!Earliest,
     Asking!Phone!Earliest, App!NoReport, Asking!Phone!NoReport, App!NoWork, Asking!Phone!NoWork,
     App!Init, Asking!Phone!Init
<1>2. ASSUME NEW x
      PROVE  /\ App!AlarmFires(x) <=> Asking!Phone!AlarmFires(x)
             /\ App!RetryNow(x) <=> Asking!Phone!RetryNow(x)
             /\ App!Starts(x) <=> Asking!Phone!Starts(x)
             /\ App!Reads(x) <=> Asking!Phone!Reads(x)
  BY DEF App!storeVars, Asking!Phone!storeVars, App!webVars, Asking!Phone!webVars, App!ghosts,
     Asking!Phone!ghosts, App!budgets, Asking!Phone!budgets, App!Slots, Asking!Phone!Slots,
     App!Latest, Asking!Phone!Latest, App!NoWork, Asking!Phone!NoWork, App!Past,
     Asking!Phone!Past, App!MayFire, Asking!Phone!MayFire, App!Enqueued, Asking!Phone!Enqueued,
     App!AlarmFires, Asking!Phone!AlarmFires, App!RetryNow, Asking!Phone!RetryNow, App!DueAgain,
     Asking!Phone!DueAgain, App!Starts, Asking!Phone!Starts, App!Reads, Asking!Phone!Reads
<1>3. ASSUME NEW x
      PROVE  /\ App!Claims(x) <=> Asking!Phone!Claims(x)
             /\ App!Decides(x) <=> Asking!Phone!Decides(x)
             /\ App!MarksSending(x) <=> Asking!Phone!MarksSending(x)
             /\ App!Sends(x) <=> Asking!Phone!Sends(x)
  BY DEF App!storeVars, Asking!Phone!storeVars, App!webVars, Asking!Phone!webVars, App!ghosts,
     Asking!Phone!ghosts, App!budgets, Asking!Phone!budgets, App!To, Asking!Phone!To, App!Writes,
     Asking!Phone!Writes, App!HasEntry, Asking!Phone!HasEntry, App!Claims, Asking!Phone!Claims,
     App!Decides, Asking!Phone!Decides, App!ToFile, Asking!Phone!ToFile, App!MarksSending,
     Asking!Phone!MarksSending, App!Delivered, Asking!Phone!Delivered, App!Sends,
     Asking!Phone!Sends
<1>4. ASSUME NEW x
      PROVE  /\ App!MarksAccepted(x) <=> Asking!Phone!MarksAccepted(x)
             /\ App!Records(x) <=> Asking!Phone!Records(x)
             /\ App!Queues(x) <=> Asking!Phone!Queues(x)
  BY DEF App!webVars, Asking!Phone!webVars, App!ghosts, Asking!Phone!ghosts, App!budgets,
     Asking!Phone!budgets, App!Past, Asking!Phone!Past, App!Recorded, Asking!Phone!Recorded,
     App!ReportOf, Asking!Phone!ReportOf, App!To, Asking!Phone!To, App!Writes,
     Asking!Phone!Writes, App!HasEntry, Asking!Phone!HasEntry, App!MarksAccepted,
     Asking!Phone!MarksAccepted, App!Records, Asking!Phone!Records, App!Queues,
     Asking!Phone!Queues
<1>5. ASSUME NEW x
      PROVE  /\ App!ArmsNext(x) <=> Asking!Phone!ArmsNext(x)
  BY DEF App!webVars, Asking!Phone!webVars, App!ghosts, Asking!Phone!ghosts, App!budgets,
     Asking!Phone!budgets, App!Latest, Asking!Phone!Latest, App!Earliest, Asking!Phone!Earliest,
     App!NoReport, Asking!Phone!NoReport, App!Past, Asking!Phone!Past, App!Recorded,
     Asking!Phone!Recorded, App!ReportOf, Asking!Phone!ReportOf, App!PaysCatchUp,
     Asking!Phone!PaysCatchUp, App!NextOccurrence, Asking!Phone!NextOccurrence, App!Told,
     Asking!Phone!Told, App!To, Asking!Phone!To, App!Armed, Asking!Phone!Armed, App!ArmsNext,
     Asking!Phone!ArmsNext
<1>6. ASSUME NEW x
      PROVE  /\ App!Ends(x) <=> Asking!Phone!Ends(x)
             /\ App!HearsRun(x) <=> Asking!Phone!HearsRun(x)
             /\ App!Edits(x) <=> Asking!Phone!Edits(x)
  BY DEF App!storeVars, Asking!Phone!storeVars, App!webVars, Asking!Phone!webVars, App!ghosts,
     Asking!Phone!ghosts, App!budgets, Asking!Phone!budgets, App!Earliest, Asking!Phone!Earliest,
     App!NoReport, Asking!Phone!NoReport, App!NoWork, Asking!Phone!NoWork, App!Writes,
     Asking!Phone!Writes, App!HasEntry, Asking!Phone!HasEntry, App!Retries, Asking!Phone!Retries,
     App!Ends, Asking!Phone!Ends, App!Applied, Asking!Phone!Applied, App!HearsRun,
     Asking!Phone!HearsRun, App!Edits, Asking!Phone!Edits
<1>7. /\ App!BootReceived <=> Asking!Phone!BootReceived
      /\ App!Syncs <=> Asking!Phone!Syncs
  BY DEF App!webVars, Asking!Phone!webVars, App!ghosts, Asking!Phone!ghosts, App!budgets,
     Asking!Phone!budgets, App!Latest, Asking!Phone!Latest, App!Earliest, Asking!Phone!Earliest,
     App!NoReport, Asking!Phone!NoReport, App!Past, Asking!Phone!Past, App!Recorded,
     Asking!Phone!Recorded, App!ReportOf, Asking!Phone!ReportOf, App!PaysCatchUp,
     Asking!Phone!PaysCatchUp, App!NextOccurrence, Asking!Phone!NextOccurrence, App!MayFire,
     Asking!Phone!MayFire, App!Rearmed, Asking!Phone!Rearmed, App!Told, Asking!Phone!Told,
     App!Rearms, Asking!Phone!Rearms, App!BootReceived, Asking!Phone!BootReceived, App!Syncs,
     Asking!Phone!Syncs
<1>8. /\ App!Opens <=> Asking!Phone!Opens
      /\ App!Resumes <=> Asking!Phone!Resumes
      /\ App!Drains <=> Asking!Phone!Drains
      /\ App!Closes <=> Asking!Phone!Closes
      /\ App!Ticks <=> Asking!Phone!Ticks
      /\ App!Flushes <=> Asking!Phone!Flushes
  BY DEF App!storeVars, Asking!Phone!storeVars, App!webVars, Asking!Phone!webVars, App!ghosts,
     Asking!Phone!ghosts, App!budgets, Asking!Phone!budgets, App!Latest, Asking!Phone!Latest,
     App!NoReport, Asking!Phone!NoReport, App!Past, Asking!Phone!Past, App!Refilled,
     Asking!Phone!Refilled, App!Opens, Asking!Phone!Opens, App!Resumes, Asking!Phone!Resumes,
     App!Drains, Asking!Phone!Drains, App!Closes, Asking!Phone!Closes, App!Ticks,
     Asking!Phone!Ticks, App!Flushes, Asking!Phone!Flushes
<1>9. ASSUME NEW rebooted PROVE App!Killed(rebooted) <=> Asking!Phone!Killed(rebooted)
  BY DEF App!NoReport, Asking!Phone!NoReport, App!NoWork, Asking!Phone!NoWork, App!Running,
     Asking!Phone!Running, App!Killed, Asking!Phone!Killed
<1> QED
  BY <1>1, <1>2, <1>3, <1>4, <1>5, <1>6, <1>7, <1>8, <1>9 DEF App!Next, Asking!Phone!Next,
     App!WorkStep, Asking!Phone!WorkStep

LEMMA SamePhoneProperties ==
  /\ Alone!SentOnce <=> Edited!Phone!SentOnce
  /\ Alone!StaysArmed <=> Edited!Phone!StaysArmed
  /\ Two!SentOnce <=> Losing!Phone!SentOnce
  /\ App!StaysArmed <=> Asking!Phone!StaysArmed
BY DEF Alone!Slots, Edited!Phone!Slots, Alone!NoWork, Edited!Phone!NoWork, Alone!MayFire,
   Edited!Phone!MayFire, Alone!SentOnce, Edited!Phone!SentOnce, Alone!Attended,
   Edited!Phone!Attended, Alone!StaysArmed, Edited!Phone!StaysArmed, Two!Slots,
   Losing!Phone!Slots, Two!SentOnce, Losing!Phone!SentOnce, App!NoWork, Asking!Phone!NoWork,
   App!MayFire, Asking!Phone!MayFire, App!Attended, Asking!Phone!Attended, App!StaysArmed,
   Asking!Phone!StaysArmed

LEMMA SamePhoneVars ==
  UNCHANGED phone =>
    /\ UNCHANGED Edited!Phone!vars /\ UNCHANGED Losing!Phone!vars /\ UNCHANGED Asking!Phone!vars
BY DEF phone, Edited!Phone!vars, Edited!Phone!storeVars, Edited!Phone!webVars,
   Edited!Phone!ghosts, Edited!Phone!budgets, Losing!Phone!vars, Losing!Phone!storeVars,
   Losing!Phone!webVars, Losing!Phone!ghosts, Losing!Phone!budgets, Asking!Phone!vars,
   Asking!Phone!storeVars, Asking!Phone!webVars, Asking!Phone!ghosts, Asking!Phone!budgets

LEMMA PhoneAssumed ==
  /\ Edited!Phone!AndroidAssumption
  /\ Losing!Phone!AndroidAssumption
  /\ Asking!Phone!AndroidAssumption
BY DevicesAssumption DEF Alone!AndroidAssumption, Two!AndroidAssumption, App!AndroidAssumption,
   Edited!Phone!AndroidAssumption, Losing!Phone!AndroidAssumption,
   Asking!Phone!AndroidAssumption

PhoneSafe ==
  /\ part = "alone" => Edited!PhoneInv
  /\ part = "two"   => Losing!PhoneInv
  /\ part = "app"   => Asking!PhoneInv

LEMMA PhoneStarts == ASSUME Init PROVE PhoneSafe
<1>1. CASE part = "alone" /\ Alone!Init
  BY <1>1, SameAlone, PhoneAssumed, Edited!InitPhone DEF PhoneSafe
<1>2. CASE part = "two" /\ Two!Init
  BY <1>2, SameTwo, PhoneAssumed, Losing!InitPhone DEF PhoneSafe
<1>3. CASE part = "app" /\ App!Init
  BY <1>3, SameApp, PhoneAssumed, Asking!InitPhone DEF PhoneSafe
<1>4. CASE part \notin {"alone", "two", "app"}
  BY <1>4 DEF PhoneSafe
<1> QED
  BY <1>1, <1>2, <1>3, <1>4 DEF Init, SyncMoves, PairMoves, PhoneMoves, In

LEMMA PhoneStep == ASSUME PhoneSafe, [Next]_vars PROVE PhoneSafe'
<1>1. /\ part' = part
      /\ part = "alone" => Edited!Phone!Next \/ UNCHANGED phone
      /\ part = "two" => Losing!Phone!Next \/ UNCHANGED phone
      /\ part = "app" => Asking!Phone!Next \/ UNCHANGED phone
  BY SameAlone, SameTwo, SameApp DEF Next, PhoneNext, In, vars
<1>2. part = "alone" => Edited!PhoneInv'
  BY <1>1, SamePhoneVars, PhoneAssumed, Edited!StepPhone DEF PhoneSafe
<1>3. part = "two" => Losing!PhoneInv'
  BY <1>1, SamePhoneVars, PhoneAssumed, Losing!StepPhone DEF PhoneSafe
<1>4. part = "app" => Asking!PhoneInv'
  BY <1>1, SamePhoneVars, PhoneAssumed, Asking!StepPhone DEF PhoneSafe
<1> QED BY <1>1, <1>2, <1>3, <1>4 DEF PhoneSafe

\* The phone mails an instant once, across retries, reboots and other jobs, and a job with an
\* instant ahead is armed, worked on, or re-armed after the boot (SendWorker.java and the
\* ledger; AevistleScheduler.java, armNext and rearmAll), whatever else moves.
THEOREM PhonePays == Spec => []PhonePaysOnce
<1>1. Init => PhoneSafe
  BY PhoneStarts
<1>2. PhoneSafe /\ [Next]_vars => PhoneSafe'
  BY PhoneStep
<1>3. PhoneSafe => PhonePaysOnce
  BY SamePhoneProperties, Edited!PhoneIsSafe, Losing!PhoneIsSafe, Asking!PhoneIsSafe
     DEF PhoneSafe, PhonePaysOnce, In
<1> QED BY <1>1, <1>2, <1>3, PTL DEF Spec

-----------------------------------------------------------------------------
(* And so are the copies of Pairing. *)

LEMMA SameHasty == (Hasty!Init <=> Edited!Pair!Init) /\ (Hasty!Next <=> Edited!Pair!Next)
<1>1. Hasty!Init <=> Edited!Pair!Init
  BY DEF Hasty!Codes, Edited!Pair!Codes, Hasty!Pairs, Edited!Pair!Pairs, Hasty!NoKey,
     Edited!Pair!NoKey, Hasty!NoRow, Edited!Pair!NoRow, Hasty!Idle, Edited!Pair!Idle, Hasty!Shut,
     Edited!Pair!Shut, Hasty!Init, Edited!Pair!Init
<1>2. ASSUME NEW x
      PROVE  /\ Hasty!Closed(x) <=> Edited!Pair!Closed(x)
             /\ Hasty!Listening(x) <=> Edited!Pair!Listening(x)
             /\ Hasty!CannotListen(x) <=> Edited!Pair!CannotListen(x)
             /\ Hasty!Expires(x) <=> Edited!Pair!Expires(x)
             /\ Hasty!OnExpire(x) <=> Edited!Pair!OnExpire(x)
  BY DEF Hasty!stores, Edited!Pair!stores, Hasty!panel, Edited!Pair!panel, Hasty!posts,
     Edited!Pair!posts, Hasty!NoKey, Edited!Pair!NoKey, Hasty!Serving, Edited!Pair!Serving,
     Hasty!Closed, Edited!Pair!Closed, Hasty!Listening, Edited!Pair!Listening, Hasty!CannotListen,
     Edited!Pair!CannotListen, Hasty!Expires, Edited!Pair!Expires, Hasty!Expired,
     Edited!Pair!Expired, Hasty!OnExpire, Edited!Pair!OnExpire
<1>3. /\ Hasty!OpenNewPairing <=> Edited!Pair!OpenNewPairing
      /\ Hasty!ShowCode <=> Edited!Pair!ShowCode
      /\ Hasty!RevokeCode <=> Edited!Pair!RevokeCode
  BY DEF Hasty!server, Edited!Pair!server, Hasty!stores, Edited!Pair!stores, Hasty!posts,
     Edited!Pair!posts, Hasty!Codes, Edited!Pair!Codes, Hasty!NoRow, Edited!Pair!NoRow,
     Hasty!Shut, Edited!Pair!Shut, Hasty!Stopped, Edited!Pair!Stopped, Hasty!CallStart,
     Edited!Pair!CallStart, Hasty!Settled, Edited!Pair!Settled, Hasty!MayPress,
     Edited!Pair!MayPress, Hasty!Over, Edited!Pair!Over, Hasty!StartHost, Edited!Pair!StartHost,
     Hasty!OpenNewPairing, Edited!Pair!OpenNewPairing, Hasty!ShowCode, Edited!Pair!ShowCode,
     Hasty!RevokeCode, Edited!Pair!RevokeCode
<1>4. /\ Hasty!ChangeAddress <=> Edited!Pair!ChangeAddress
      /\ Hasty!CloseHost <=> Edited!Pair!CloseHost
  BY DEF Hasty!stores, Edited!Pair!stores, Hasty!posts, Edited!Pair!posts, Hasty!Codes,
     Edited!Pair!Codes, Hasty!Stopped, Edited!Pair!Stopped, Hasty!Settled, Edited!Pair!Settled,
     Hasty!MayPress, Edited!Pair!MayPress, Hasty!ChangeAddress, Edited!Pair!ChangeAddress,
     Hasty!CloseHost, Edited!Pair!CloseHost
<1>5. ASSUME NEW x
      PROVE  /\ Hasty!Regenerate(x) <=> Edited!Pair!Regenerate(x)
             /\ Hasty!Recorded(x) <=> Edited!Pair!Recorded(x)
  BY DEF Hasty!server, Edited!Pair!server, Hasty!stores, Edited!Pair!stores, Hasty!posts,
     Edited!Pair!posts, Hasty!Codes, Edited!Pair!Codes, Hasty!NoRow, Edited!Pair!NoRow,
     Hasty!Fresh, Edited!Pair!Fresh, Hasty!Shut, Edited!Pair!Shut, Hasty!Stopped,
     Edited!Pair!Stopped, Hasty!CallStart, Edited!Pair!CallStart, Hasty!Settled,
     Edited!Pair!Settled, Hasty!MayPress, Edited!Pair!MayPress, Hasty!StartHost,
     Edited!Pair!StartHost, Hasty!Regenerate, Edited!Pair!Regenerate, Hasty!Recorded,
     Edited!Pair!Recorded
<1>6. Hasty!UiTakes <=> Edited!Pair!UiTakes
  BY DEF Hasty!server, Edited!Pair!server, Hasty!posts, Edited!Pair!posts, Hasty!PairOf,
     Edited!Pair!PairOf, Hasty!Connected, Edited!Pair!Connected, Hasty!UiTakes,
     Edited!Pair!UiTakes
<1>7. ASSUME NEW x
      PROVE  /\ Hasty!Received(x) <=> Edited!Pair!Received(x)
             /\ Hasty!Handled(x) <=> Edited!Pair!Handled(x)
             /\ Hasty!Joined(x) <=> Edited!Pair!Joined(x)
             /\ Hasty!ReplyLost(x) <=> Edited!Pair!ReplyLost(x)
  BY DEF Hasty!server, Edited!Pair!server, Hasty!stores, Edited!Pair!stores, Hasty!panel,
     Edited!Pair!panel, Hasty!NoKey, Edited!Pair!NoKey, Hasty!Fresh, Edited!Pair!Fresh,
     Hasty!Idle, Edited!Pair!Idle, Hasty!PairOf, Edited!Pair!PairOf, Hasty!Stopped,
     Edited!Pair!Stopped, Hasty!Expired, Edited!Pair!Expired, Hasty!Received,
     Edited!Pair!Received, Hasty!Handled, Edited!Pair!Handled, Hasty!Joined, Edited!Pair!Joined,
     Hasty!ReplyLost, Edited!Pair!ReplyLost
<1>8. ASSUME NEW x, NEW y
      PROVE  Hasty!Join(x, y) <=> Edited!Pair!Join(x, y)
  BY DEF Hasty!server, Edited!Pair!server, Hasty!stores, Edited!Pair!stores, Hasty!panel,
     Edited!Pair!panel, Hasty!Join, Edited!Pair!Join
<1>9. ASSUME NEW x, NEW y
      PROVE  /\ Hasty!JoinerAsks(x, y) <=> Edited!Pair!JoinerAsks(x, y)
             /\ Hasty!HostAsks(x, y) <=> Edited!Pair!HostAsks(x, y)
  BY DEF Hasty!server, Edited!Pair!server, Hasty!panel, Edited!Pair!panel, Hasty!posts,
     Edited!Pair!posts, Hasty!NoKey, Edited!Pair!NoKey, Hasty!NoRow, Edited!Pair!NoRow,
     Hasty!Shares, Edited!Pair!Shares, Hasty!JoinerAsks, Edited!Pair!JoinerAsks, Hasty!HostAsks,
     Edited!Pair!HostAsks
<1> QED
  BY <1>1, <1>2, <1>3, <1>4, <1>5, <1>6, <1>7, <1>8, <1>9 DEF Hasty!Next, Edited!Pair!Next,
     Hasty!Codes, Edited!Pair!Codes, Hasty!Pairs, Edited!Pair!Pairs

LEMMA SameCalm == (Calm!Init <=> Losing!Pair!Init) /\ (Calm!Next <=> Losing!Pair!Next)
<1>1. Calm!Init <=> Losing!Pair!Init
  BY DEF Calm!Codes, Losing!Pair!Codes, Calm!Pairs, Losing!Pair!Pairs, Calm!NoKey,
     Losing!Pair!NoKey, Calm!NoRow, Losing!Pair!NoRow, Calm!Idle, Losing!Pair!Idle, Calm!Shut,
     Losing!Pair!Shut, Calm!Init, Losing!Pair!Init
<1>2. ASSUME NEW x
      PROVE  /\ Calm!Closed(x) <=> Losing!Pair!Closed(x)
             /\ Calm!Listening(x) <=> Losing!Pair!Listening(x)
             /\ Calm!CannotListen(x) <=> Losing!Pair!CannotListen(x)
             /\ Calm!Expires(x) <=> Losing!Pair!Expires(x)
             /\ Calm!OnExpire(x) <=> Losing!Pair!OnExpire(x)
  BY DEF Calm!stores, Losing!Pair!stores, Calm!panel, Losing!Pair!panel, Calm!posts,
     Losing!Pair!posts, Calm!NoKey, Losing!Pair!NoKey, Calm!Serving, Losing!Pair!Serving,
     Calm!Closed, Losing!Pair!Closed, Calm!Listening, Losing!Pair!Listening, Calm!CannotListen,
     Losing!Pair!CannotListen, Calm!Expires, Losing!Pair!Expires, Calm!Expired,
     Losing!Pair!Expired, Calm!OnExpire, Losing!Pair!OnExpire
<1>3. /\ Calm!OpenNewPairing <=> Losing!Pair!OpenNewPairing
      /\ Calm!ShowCode <=> Losing!Pair!ShowCode
      /\ Calm!RevokeCode <=> Losing!Pair!RevokeCode
  BY DEF Calm!server, Losing!Pair!server, Calm!stores, Losing!Pair!stores, Calm!posts,
     Losing!Pair!posts, Calm!Codes, Losing!Pair!Codes, Calm!NoRow, Losing!Pair!NoRow, Calm!Shut,
     Losing!Pair!Shut, Calm!Stopped, Losing!Pair!Stopped, Calm!CallStart, Losing!Pair!CallStart,
     Calm!Settled, Losing!Pair!Settled, Calm!MayPress, Losing!Pair!MayPress, Calm!Over,
     Losing!Pair!Over, Calm!StartHost, Losing!Pair!StartHost, Calm!OpenNewPairing,
     Losing!Pair!OpenNewPairing, Calm!ShowCode, Losing!Pair!ShowCode, Calm!RevokeCode,
     Losing!Pair!RevokeCode
<1>4. /\ Calm!ChangeAddress <=> Losing!Pair!ChangeAddress
      /\ Calm!CloseHost <=> Losing!Pair!CloseHost
  BY DEF Calm!stores, Losing!Pair!stores, Calm!posts, Losing!Pair!posts, Calm!Codes,
     Losing!Pair!Codes, Calm!Stopped, Losing!Pair!Stopped, Calm!Settled, Losing!Pair!Settled,
     Calm!MayPress, Losing!Pair!MayPress, Calm!ChangeAddress, Losing!Pair!ChangeAddress,
     Calm!CloseHost, Losing!Pair!CloseHost
<1>5. ASSUME NEW x
      PROVE  /\ Calm!Regenerate(x) <=> Losing!Pair!Regenerate(x)
             /\ Calm!Recorded(x) <=> Losing!Pair!Recorded(x)
  BY DEF Calm!server, Losing!Pair!server, Calm!stores, Losing!Pair!stores, Calm!posts,
     Losing!Pair!posts, Calm!Codes, Losing!Pair!Codes, Calm!NoRow, Losing!Pair!NoRow, Calm!Fresh,
     Losing!Pair!Fresh, Calm!Shut, Losing!Pair!Shut, Calm!Stopped, Losing!Pair!Stopped,
     Calm!CallStart, Losing!Pair!CallStart, Calm!Settled, Losing!Pair!Settled, Calm!MayPress,
     Losing!Pair!MayPress, Calm!StartHost, Losing!Pair!StartHost, Calm!Regenerate,
     Losing!Pair!Regenerate, Calm!Recorded, Losing!Pair!Recorded
<1>6. Calm!UiTakes <=> Losing!Pair!UiTakes
  BY DEF Calm!server, Losing!Pair!server, Calm!posts, Losing!Pair!posts, Calm!PairOf,
     Losing!Pair!PairOf, Calm!Connected, Losing!Pair!Connected, Calm!UiTakes, Losing!Pair!UiTakes
<1>7. ASSUME NEW x
      PROVE  /\ Calm!Received(x) <=> Losing!Pair!Received(x)
             /\ Calm!Handled(x) <=> Losing!Pair!Handled(x)
             /\ Calm!Joined(x) <=> Losing!Pair!Joined(x)
             /\ Calm!ReplyLost(x) <=> Losing!Pair!ReplyLost(x)
  BY DEF Calm!server, Losing!Pair!server, Calm!stores, Losing!Pair!stores, Calm!panel,
     Losing!Pair!panel, Calm!NoKey, Losing!Pair!NoKey, Calm!Fresh, Losing!Pair!Fresh, Calm!Idle,
     Losing!Pair!Idle, Calm!PairOf, Losing!Pair!PairOf, Calm!Stopped, Losing!Pair!Stopped,
     Calm!Expired, Losing!Pair!Expired, Calm!Received, Losing!Pair!Received, Calm!Handled,
     Losing!Pair!Handled, Calm!Joined, Losing!Pair!Joined, Calm!ReplyLost, Losing!Pair!ReplyLost
<1>8. ASSUME NEW x, NEW y
      PROVE  Calm!Join(x, y) <=> Losing!Pair!Join(x, y)
  BY DEF Calm!server, Losing!Pair!server, Calm!stores, Losing!Pair!stores, Calm!panel,
     Losing!Pair!panel, Calm!Join, Losing!Pair!Join
<1>9. ASSUME NEW x, NEW y
      PROVE  /\ Calm!JoinerAsks(x, y) <=> Losing!Pair!JoinerAsks(x, y)
             /\ Calm!HostAsks(x, y) <=> Losing!Pair!HostAsks(x, y)
  BY DEF Calm!server, Losing!Pair!server, Calm!panel, Losing!Pair!panel, Calm!posts,
     Losing!Pair!posts, Calm!NoKey, Losing!Pair!NoKey, Calm!NoRow, Losing!Pair!NoRow, Calm!Shares,
     Losing!Pair!Shares, Calm!JoinerAsks, Losing!Pair!JoinerAsks, Calm!HostAsks,
     Losing!Pair!HostAsks
<1> QED
  BY <1>1, <1>2, <1>3, <1>4, <1>5, <1>6, <1>7, <1>8, <1>9 DEF Calm!Next, Losing!Pair!Next,
     Calm!Codes, Losing!Pair!Codes, Calm!Pairs, Losing!Pair!Pairs

LEMMA SamePairVars == UNCHANGED pair => UNCHANGED Edited!Pair!vars /\ UNCHANGED Losing!Pair!vars
BY DEF pair, Edited!Pair!vars, Edited!Pair!server, Edited!Pair!posts, Edited!Pair!panel,
   Edited!Pair!stores, Losing!Pair!vars, Losing!Pair!server, Losing!Pair!posts, Losing!Pair!panel,
   Losing!Pair!stores

LEMMA PairAssumed == Edited!Pair!PairingAssumption /\ Losing!Pair!PairingAssumption
BY DevicesAssumption DEF Hasty!PairingAssumption, Calm!PairingAssumption,
   Edited!Pair!PairingAssumption, Losing!Pair!PairingAssumption

PairSafe ==
  /\ part = "hasty" => Edited!PairInv
  /\ part = "calm"  => Losing!PairInv

LEMMA PairStarts == ASSUME Init PROVE PairSafe
<1>1. CASE part = "hasty" /\ Hasty!Init
  BY <1>1, SameHasty, PairAssumed, Edited!InitPair DEF PairSafe
<1>2. CASE part = "calm" /\ Calm!Init
  BY <1>2, SameCalm, PairAssumed, Losing!InitPair DEF PairSafe
<1>3. CASE part \notin {"hasty", "calm"}
  BY <1>3 DEF PairSafe
<1> QED
  BY <1>1, <1>2, <1>3 DEF Init, SyncMoves, PairMoves, PhoneMoves, In

LEMMA PairStep == ASSUME PairSafe, [Next]_vars PROVE PairSafe'
<1>1. /\ part' = part
      /\ part = "hasty" => Edited!Pair!Next \/ UNCHANGED pair
      /\ part = "calm" => Losing!Pair!Next \/ UNCHANGED pair
  BY SameHasty, SameCalm DEF Next, PairNext, In, vars
<1>2. part = "hasty" => Edited!PairInv'
  BY <1>1, SamePairVars, PairAssumed, Edited!StepPair DEF PairSafe
<1>3. part = "calm" => Losing!PairInv'
  BY <1>1, SamePairVars, PairAssumed, Losing!StepPair DEF PairSafe
<1> QED BY <1>1, <1>2, <1>3 DEF PairSafe

-----------------------------------------------------------------------------
(* Every part has its types *)

\* One of the thirteen parts moves; those that synchronise stay in their bounds.
PartSound ==
  /\ part \in {"edit", "undo", "loss", "crash", "both", "hasty", "calm", "once", "alone", "two",
              "app", "pays", "reports"}
  /\ part = "edit"  => Edited!SyncSound
  /\ part = "undo"  => Undoing!SyncSound
  /\ part = "loss"  => Losing!SyncSound
  /\ part = "crash" => Crashing!SyncSound
  /\ part = "both"  => Asking!SyncSound

LEMMA PartStarts == ASSUME Init PROVE PartSound
<1>1. part \in {"edit", "undo", "loss", "crash", "both", "hasty", "calm", "once", "alone", "two",
               "app", "pays", "reports"}
  BY DEF Init, SyncMoves, PairMoves, PhoneMoves, In
<1>2. CASE part = "edit" /\ Edit!Init
  BY <1>1, <1>2, SameEdit, DevicesAssumed, Edited!InitSound DEF PartSound
<1>3. CASE part = "undo" /\ Undo!Init
  BY <1>1, <1>3, SameUndo, DevicesAssumed, Undoing!InitSound DEF PartSound
<1>4. CASE part = "loss" /\ Loss!Init
  BY <1>1, <1>4, SameLoss, DevicesAssumed, Losing!InitSound DEF PartSound
<1>5. CASE part = "crash" /\ Crash!Init
  BY <1>1, <1>5, SameCrash, DevicesAssumed, Crashing!InitSound DEF PartSound
<1>6. CASE part = "both" /\ Both!Init
  BY <1>1, <1>6, SameBoth, DevicesAssumed, Asking!InitSound DEF PartSound
<1>7. CASE part \notin {"edit", "undo", "loss", "crash", "both"}
  BY <1>1, <1>7 DEF PartSound
<1> QED
  BY <1>2, <1>3, <1>4, <1>5, <1>6, <1>7 DEF Init, SyncMoves, PairMoves, PhoneMoves, In

LEMMA PartStep == ASSUME SyncSafe, PartSound, [Next]_vars PROVE PartSound'
<1>1. part = "edit" => Edited!SyncSound'
  BY SyncStepIs, SameVars, DevicesAssumed, Edited!StepSound DEF PartSound
<1>2. part = "undo" => Undoing!SyncSound'
  BY SyncStepIs, SameVars, DevicesAssumed, Undoing!StepSound DEF PartSound
<1>3. part = "loss" => Losing!SyncSound'
  BY SyncStepIs, SameVars, DevicesAssumed, Losing!StepSound DEF PartSound
<1>4. part = "crash" => Crashing!SyncSound'
  BY SyncStepIs, SameVars, DevicesAssumed, Crashing!StepSound DEF PartSound
<1>5. part = "both" => Asking!SyncSound'
  BY SyncStepIs, SameVars, DevicesAssumed, Asking!StepSound DEF PartSound
<1> QED BY <1>1, <1>2, <1>3, <1>4, <1>5, SyncStepIs DEF PartSound

LEMMA SameSyncTypes ==
  /\ Edit!TypeOK <=> Edited!TypeOK
  /\ Undo!TypeOK <=> Undoing!TypeOK
  /\ Loss!TypeOK <=> Losing!TypeOK
  /\ Crash!TypeOK <=> Crashing!TypeOK
  /\ Both!TypeOK <=> Asking!TypeOK
  /\ Both!AcceptedOnce <=> Asking!AcceptedOnce
BY DEF Edit!Time, Edited!Time, Edit!Nobody, Edited!Nobody, Edit!State, Edited!State, Edit!Payload,
   Edited!Payload, Edit!Patch, Edited!Patch, Edit!Nothing, Edited!Nothing, Edit!NoPatch,
   Edited!NoPatch, Edit!Request, Edited!Request, Edit!Exchange, Edited!Exchange, Edit!Ask,
   Edited!Ask, Edit!NoAsk, Edited!NoAsk, Edit!TypeOK, Edited!TypeOK, Undo!Time, Undoing!Time,
   Undo!Nobody, Undoing!Nobody, Undo!State, Undoing!State, Undo!Payload, Undoing!Payload,
   Undo!Patch, Undoing!Patch, Undo!Nothing, Undoing!Nothing, Undo!NoPatch, Undoing!NoPatch,
   Undo!Request, Undoing!Request, Undo!Exchange, Undoing!Exchange, Undo!Ask, Undoing!Ask,
   Undo!NoAsk, Undoing!NoAsk, Undo!TypeOK, Undoing!TypeOK, Loss!Time, Losing!Time, Loss!Nobody,
   Losing!Nobody, Loss!State, Losing!State, Loss!Payload, Losing!Payload, Loss!Patch,
   Losing!Patch, Loss!Nothing, Losing!Nothing, Loss!NoPatch, Losing!NoPatch, Loss!Request,
   Losing!Request, Loss!Exchange, Losing!Exchange, Loss!Ask, Losing!Ask, Loss!NoAsk, Losing!NoAsk,
   Loss!TypeOK, Losing!TypeOK, Crash!Time, Crashing!Time, Crash!Nobody, Crashing!Nobody,
   Crash!State, Crashing!State, Crash!Payload, Crashing!Payload, Crash!Patch, Crashing!Patch,
   Crash!Nothing, Crashing!Nothing, Crash!NoPatch, Crashing!NoPatch, Crash!Request,
   Crashing!Request, Crash!Exchange, Crashing!Exchange, Crash!Ask, Crashing!Ask, Crash!NoAsk,
   Crashing!NoAsk, Crash!TypeOK, Crashing!TypeOK, Both!Time, Asking!Time, Both!Nobody,
   Asking!Nobody, Both!State, Asking!State, Both!Payload, Asking!Payload, Both!Patch,
   Asking!Patch, Both!Nothing, Asking!Nothing, Both!NoPatch, Asking!NoPatch, Both!Request,
   Asking!Request, Both!Exchange, Asking!Exchange, Both!Ask, Asking!Ask, Both!NoAsk, Asking!NoAsk,
   Both!TypeOK, Asking!TypeOK, Both!AcceptedOnce, Asking!AcceptedOnce

LEMMA SamePhoneTypes ==
  /\ Alone!TypeOK <=> Edited!Phone!TypeOK
  /\ Two!TypeOK <=> Losing!Phone!TypeOK
  /\ App!TypeOK <=> Asking!Phone!TypeOK
BY DEF Alone!Slots, Edited!Phone!Slots, Alone!Time, Edited!Phone!Time, Alone!Job,
   Edited!Phone!Job, Alone!Report, Edited!Phone!Report, Alone!Entries, Edited!Phone!Entries,
   Alone!Store, Edited!Phone!Store, Alone!Steps, Edited!Phone!Steps, Alone!Outcomes,
   Edited!Phone!Outcomes, Alone!Work, Edited!Phone!Work, Alone!TypeOK, Edited!Phone!TypeOK,
   Two!Slots, Losing!Phone!Slots, Two!Time, Losing!Phone!Time, Two!Job, Losing!Phone!Job,
   Two!Report, Losing!Phone!Report, Two!Entries, Losing!Phone!Entries, Two!Store,
   Losing!Phone!Store, Two!Steps, Losing!Phone!Steps, Two!Outcomes, Losing!Phone!Outcomes,
   Two!Work, Losing!Phone!Work, Two!TypeOK, Losing!Phone!TypeOK, App!Slots, Asking!Phone!Slots,
   App!Time, Asking!Phone!Time, App!Job, Asking!Phone!Job, App!Report, Asking!Phone!Report,
   App!Entries, Asking!Phone!Entries, App!Store, Asking!Phone!Store, App!Steps,
   Asking!Phone!Steps, App!Outcomes, Asking!Phone!Outcomes, App!Work, Asking!Phone!Work,
   App!TypeOK, Asking!Phone!TypeOK

LEMMA SamePairProperties ==
  /\ Hasty!TypeOK <=> Edited!Pair!TypeOK
  /\ Hasty!KeptForItsOwn <=> Edited!Pair!KeptForItsOwn
  /\ Calm!TypeOK <=> Losing!Pair!TypeOK
  /\ Calm!KeptForItsOwn <=> Losing!Pair!KeptForItsOwn
  /\ Calm!DrawnIsLive <=> Losing!Pair!DrawnIsLive
BY DEF Hasty!Codes, Edited!Pair!Codes, Hasty!Pairs, Edited!Pair!Pairs, Hasty!Keys,
   Edited!Pair!Keys, Hasty!NoKey, Edited!Pair!NoKey, Hasty!NoRow, Edited!Pair!NoRow, Hasty!PairOf,
   Edited!Pair!PairOf, Hasty!Rows, Edited!Pair!Rows, Hasty!Events, Edited!Pair!Events,
   Hasty!TypeOK, Edited!Pair!TypeOK, Hasty!KeptForItsOwn, Edited!Pair!KeptForItsOwn, Calm!Codes,
   Losing!Pair!Codes, Calm!Pairs, Losing!Pair!Pairs, Calm!Keys, Losing!Pair!Keys, Calm!NoKey,
   Losing!Pair!NoKey, Calm!NoRow, Losing!Pair!NoRow, Calm!PairOf, Losing!Pair!PairOf, Calm!Over,
   Losing!Pair!Over, Calm!Drawn, Losing!Pair!Drawn, Calm!Rows, Losing!Pair!Rows, Calm!Events,
   Losing!Pair!Events, Calm!TypeOK, Losing!Pair!TypeOK, Calm!DrawnIsLive, Losing!Pair!DrawnIsLive,
   Calm!KeptForItsOwn, Losing!Pair!KeptForItsOwn

LEMMA PartsAreSound == ASSUME PartSound, PhoneSafe, PairSafe PROVE DevicesInv
<1>1. /\ part = "edit" => Edit!TypeOK
      /\ part = "undo" => Undo!TypeOK
      /\ part = "loss" => Loss!TypeOK
      /\ part = "crash" => Crash!TypeOK
      /\ part = "both" => Both!TypeOK
  BY SameSyncTypes, DevicesAssumed, Edited!BoundedTypeOK, Undoing!BoundedTypeOK,
     Losing!BoundedTypeOK, Crashing!BoundedTypeOK, Asking!BoundedTypeOK
     DEF PartSound, Edited!SyncSound, Undoing!SyncSound, Losing!SyncSound, Crashing!SyncSound,
     Asking!SyncSound
<1>2. part = "both" => Both!AcceptedOnce
  BY SameSyncTypes DEF PartSound, Asking!SyncSound, Asking!Lived, Asking!Counted,
     Asking!AcceptedOnce
<1>3. /\ part = "hasty" => Hasty!TypeOK /\ Hasty!KeptForItsOwn
      /\ part = "calm" => Calm!TypeOK /\ Calm!KeptForItsOwn /\ Calm!DrawnIsLive
  BY SamePairProperties, PairAssumed, Edited!PairHolds, Losing!PairHolds DEF PairSafe
<1>4. /\ part = "alone" => Alone!TypeOK
      /\ part = "two" => Two!TypeOK
      /\ part = "app" => App!TypeOK
  BY SamePhoneTypes, Edited!PhoneIsSafe, Losing!PhoneIsSafe, Asking!PhoneIsSafe DEF PhoneSafe
<1> QED BY <1>1, <1>2, <1>3, <1>4 DEF DevicesInv, PartSound, In

\* Whatever moves, every number, time, request, panel and alarm of it is one the code has a
\* place for; a request is accepted once, however many copies of it arrive (syncLoop.ts);
\* the key kept for a pairing was derived over a code drawn for it, and the code drawn for a
\* patient user is the one start() has armed (pairingServer.ts, DevicesCard.tsx).
THEOREM DevicesAreSound == Spec => []DevicesInv
<1>1. Init => PartSound /\ PhoneSafe /\ PairSafe
  BY PartStarts, PhoneStarts, PairStarts
<1>2. SyncSafe /\ PartSound /\ PhoneSafe /\ PairSafe /\ [Next]_vars
        => PartSound' /\ PhoneSafe' /\ PairSafe'
  BY PartStep, PhoneStep, PairStep
<1>3. PartSound /\ PhoneSafe /\ PairSafe => DevicesInv
  BY PartsAreSound
<1> QED BY <1>1, <1>2, <1>3, SyncIsSafe, PTL DEF Spec
=============================================================================
