------------------------------ MODULE MailProofs ------------------------------
(***************************************************************************)
(* Proofs about what MCMail composes: what MailPartsProofs shows of the    *)
(* compose screen, of the inbox, of the push watchers and of the grants    *)
(* holds in the composition, where one part moves and the others rest.     *)
(*                                                                         *)
(* Each part has an invariant of its own, which says nothing while another *)
(* part moves; the theorems at the end put the parts together.             *)
(***************************************************************************)
EXTENDS MCMail, Integers, Sequences, TLAPS

Inboxes == {"keeps", "overlap", "renumber", "news"}
Screens == {"press", "quit", "ends"}
Parts   == Inboxes \cup Screens \cup {"watch", "rotate", "share"}

-----------------------------------------------------------------------------
(* What moves, and what rests *)

\* The part that moves is where it begins, and so are the watchers and, where they rest, the
\* inbox and the compose screen.
LEMMA InitIs ==
  ASSUME Init
  PROVE  /\ part \in Parts /\ Watch!Init
         /\ part = "keeps" => Keeps!Init
         /\ part = "overlap" => Overlap!Init
         /\ part = "renumber" => Renumber!Init
         /\ part = "news" => News!Init
         /\ part \notin Inboxes => Brings!Init
         /\ part = "rotate" => Rotate!Init
         /\ part = "share" => Share!Init
         /\ part = "press" => Press!Init
         /\ part = "quit" => Quit!Init
         /\ part = "ends" => Ends!Init
         /\ part \notin Screens => Press!Init
BY DEF Init, InboxMoves, IdleMoves, OauthMoves, PageMoves, InboxRests, IdleRests, PageRests, In,
   Parts, Inboxes, Screens

\* One part moves, and it stays the same one.
LEMMA StepIs ==
  ASSUME [Next]_vars, part \in Parts
  PROVE  /\ part' = part
         /\ part = "keeps" => Keeps!Next \/ UNCHANGED <<inbox, acts, faults>>
         /\ part = "overlap" => Overlap!Next \/ UNCHANGED <<inbox, acts, faults>>
         /\ part = "renumber" => Renumber!Next \/ UNCHANGED <<inbox, acts, faults>>
         /\ part = "news" => News!Next \/ UNCHANGED <<inbox, acts, faults>>
         /\ part \notin Inboxes => UNCHANGED inbox
         /\ part = "watch" => Watch!Next \/ UNCHANGED <<idle, acts, faults>>
         /\ part # "watch" => UNCHANGED idle
         /\ part = "rotate" => Rotate!Next \/ UNCHANGED <<oauth, acts, faults>>
         /\ part = "share" => Share!Next \/ UNCHANGED <<oauth, acts, faults>>
         /\ part = "press" => Press!Next \/ UNCHANGED page
         /\ part = "quit" => Quit!Next \/ UNCHANGED page
         /\ part = "ends" => Ends!Next \/ UNCHANGED page
         /\ part \notin Screens => UNCHANGED page
<1>1. CASE InboxNext /\ UNCHANGED <<part, idle, oauth, page>>
  BY <1>1 DEF InboxNext, In, Parts, Inboxes, Screens
<1>2. CASE IdleNext /\ UNCHANGED <<part, inbox, oauth, page>>
  BY <1>2 DEF IdleNext, In, Parts, Inboxes, Screens
<1>3. CASE OauthNext /\ UNCHANGED <<part, inbox, idle, page>>
  BY <1>3 DEF OauthNext, In, Parts, Inboxes, Screens
<1>4. CASE PageNext /\ UNCHANGED <<part, inbox, idle, oauth, acts, faults>>
  BY <1>4 DEF PageNext, In, Parts, Inboxes, Screens
<1>5. CASE UNCHANGED vars
  BY <1>5 DEF vars
<1> QED BY <1>1, <1>2, <1>3, <1>4, <1>5 DEF Next

\* One of the ten parts moves.
LEMMA PartIs == Spec => [](part \in Parts)
<1>1. Init => part \in Parts
  BY InitIs
<1>2. part \in Parts /\ [Next]_vars => (part \in Parts)'
  BY StepIs
<1> QED BY <1>1, <1>2, PTL DEF Spec

\* What an inbox at rest still has, and a screen at rest.
BoxRests == mine.gone = {} /\ row.images = mine.images
FormRests ==
  /\ snaps = <<>> /\ sends = {}
  /\ \A v \in Press!Versions : done[v].handed + done[v].back <= done[v].pressed

LEMMA BoxIsQuiet ==
  Spec => [](part \notin Inboxes => Keeps!RemovedStays /\ Overlap!ImagesKept)
<1>1. Init => (part \notin Inboxes => BoxRests)
  <2>1. Brings!Init => BoxRests
    BY DEF BoxRests, Brings!Init
  <2> QED BY <2>1, InitIs
<1>2. part \in Parts /\ (part \notin Inboxes => BoxRests) /\ [Next]_vars
        => (part \notin Inboxes => BoxRests)'
  BY StepIs DEF BoxRests, inbox
<1>3. BoxRests => Keeps!RemovedStays /\ Overlap!ImagesKept
  BY DEF BoxRests, Keeps!RemovedStays, Overlap!ImagesKept
<1> QED BY <1>1, <1>2, <1>3, PartIs, PTL DEF Spec

LEMMA FormIsQuiet ==
  Spec => /\ [](part \notin Screens => Press!HandedOverOnce)
          /\ [][part \notin Screens => Press!RestoreIsUndoable /\ Press!FailedComesBack]_vars
<1>1. Init => (part \notin Screens => FormRests)
  BY InitIs DEF FormRests, Press!Init
<1>2. part \in Parts /\ (part \notin Screens => FormRests) /\ [Next]_vars
        => (part \notin Screens => FormRests)'
  BY StepIs DEF FormRests, page
<1>3. FormRests => Press!HandedOverOnce /\ Press!RestoreIsUndoable /\ Press!FailedComesBack
  BY DEF FormRests, Press!HandedOverOnce, Press!RestoreIsUndoable, Press!FailedComesBack
<1> QED BY <1>1, <1>2, <1>3, PartIs, PTL DEF Spec

-----------------------------------------------------------------------------
(* One sync at a time, the watchers, two presses of Send, and a grant that is rotated *)

\* What MailPartsProofs shows, for the first part of each kind.  That its copies of the components
\* are those of MCMail is shown definition by definition, here and below.
Page == INSTANCE MailPartsProofs WITH
  MaxQuits <- 0, mine <- wrote, choices <- mine,
  Mail <- {m1, m2}, Slots <- {s1}, Ruled <- {},
  Does <- {"mark", "bin", "settings", "restart"}, MaxActs <- 2, MaxFaults <- 0,
  Sockets <- Slots, WatchActs <- MaxActs, WatchFaults <- MaxFaults,
  Accounts <- {acc1}, Rotating <- {acc1}, Callers <- {t1, t2}, MaxTokens <- 3,
  GrantActs <- 1, GrantFaults <- 1

LEMMA WatchAssumed == Page!Watch!InboxIdleAssumption
BY MailAssumption DEF MailAssumption, Watch!InboxIdleAssumption, Page!Watch!InboxIdleAssumption,
   Watch!Keys, Page!Watch!Keys, Watch!Attempts, Page!Watch!Attempts, Watch!Steps, Page!Watch!Steps

\* The watchers of MCMail are those of the proofs.
LEMMA SameWatch ==
  /\ Watch!Init <=> Page!Watch!Init
  /\ Watch!Next <=> Page!Watch!Next
BY DEF Watch!Unborn, Page!Watch!Unborn, Watch!Init, Page!Watch!Init, Watch!Acts, Page!Watch!Acts,
   Watch!Faults, Page!Watch!Faults, Watch!To, Page!Watch!To, Watch!Attempt, Page!Watch!Attempt,
   Watch!Edit, Page!Watch!Edit, Watch!Switch, Page!Watch!Switch, Watch!ChangeHost,
   Page!Watch!ChangeHost, Watch!ChangeSecret, Page!Watch!ChangeSecret, Watch!Gather,
   Page!Watch!Gather, Watch!Key, Page!Watch!Key, Watch!Wants, Page!Watch!Wants, Watch!Stops,
   Page!Watch!Stops, Watch!Let, Page!Watch!Let, Watch!Stopping, Page!Watch!Stopping,
   Watch!Reconcile, Page!Watch!Reconcile, Watch!Quit, Page!Watch!Quit, Watch!Free,
   Page!Watch!Free, Watch!Schedule, Page!Watch!Schedule, Watch!Begins, Page!Watch!Begins,
   Watch!Reconnect, Page!Watch!Reconnect, Watch!At, Page!Watch!At, Watch!Stopped,
   Page!Watch!Stopped, Watch!Resolve, Page!Watch!Resolve, Watch!AccessToken,
   Page!Watch!AccessToken, Watch!Rung, Page!Watch!Rung, Watch!Connects, Page!Watch!Connects,
   Watch!Fails, Page!Watch!Fails, Watch!MailboxOpen, Page!Watch!MailboxOpen, Watch!Ignored,
   Page!Watch!Ignored, Watch!Drop, Page!Watch!Drop, Watch!Recycle, Page!Watch!Recycle,
   Watch!Connect, Page!Watch!Connect, Watch!Next, Page!Watch!Next, Watch!RemoveAt,
   Page!Watch!RemoveAt

LEMMA SameWatched ==
  /\ Watch!TypeOK <=> Page!Watch!TypeOK
  /\ Watch!OneAtATime <=> Page!Watch!OneAtATime
  /\ Watch!StoppedStartsNothing <=> Page!Watch!StoppedStartsNothing
BY DEF Watch!Steps, Page!Watch!Steps, Watch!Attempts, Page!Watch!Attempts, Watch!Unborn,
   Page!Watch!Unborn, Watch!Of, Page!Watch!Of, Watch!Trying, Page!Watch!Trying, Watch!TypeOK,
   Page!Watch!TypeOK, Watch!OneAtATime, Page!Watch!OneAtATime, Watch!StoppedStartsNothing,
   Page!Watch!StoppedStartsNothing, Watch!Cardinality, Page!Watch!Cardinality

WatchSafe == Page!IdleInv /\ (part = "watch" => acts \in 0..MaxActs /\ faults \in 0..MaxFaults)

LEMMA WatchIsSafe ==
  Spec => /\ [](part = "watch" => Watch!TypeOK /\ Watch!OneAtATime)
          /\ [][Watch!StoppedStartsNothing]_vars
<1>1. Init => WatchSafe
  <2>1. MaxActs \in Nat /\ MaxFaults \in Nat
    BY WatchAssumed DEF Page!Watch!InboxIdleAssumption
  <2>2. Watch!Init => acts = 0 /\ faults = 0
    BY DEF Watch!Init
  <2> QED BY <2>1, <2>2, InitIs, SameWatch, WatchAssumed, Page!InitIdle DEF WatchSafe
<1>2. part \in Parts /\ WatchSafe /\ [Next]_vars => WatchSafe' /\ Watch!StoppedStartsNothing
  <2> SUFFICES ASSUME part \in Parts, WatchSafe, [Next]_vars
               PROVE  WatchSafe' /\ Watch!StoppedStartsNothing
    OBVIOUS
  <2>1. CASE UNCHANGED idle /\ (part = "watch" => UNCHANGED <<acts, faults>>)
    BY <2>1, StepIs, Page!IdleRests, SameWatched DEF WatchSafe, idle
  <2>2. CASE part = "watch" /\ Watch!Next
    BY <2>2, StepIs, WatchAssumed, SameWatch, SameWatched, Page!StepIdle, Page!WatchCounts
       DEF WatchSafe
  <2> QED BY <2>1, <2>2, StepIs
<1>3. WatchSafe => (part = "watch" => Watch!TypeOK /\ Watch!OneAtATime)
  BY WatchAssumed, SameWatched, Page!IdleIsSafe DEF WatchSafe
<1> QED BY <1>1, <1>2, <1>3, PartIs, PTL DEF Spec

LEMMA SameKeeps == (Keeps!Init <=> Page!Box!Init) /\ (Keeps!Next <=> Page!Box!Next)
<1>1. Keeps!Init <=> Page!Box!Init
  BY DEF Keeps!Empty, Page!Box!Empty, Keeps!NoKeys, Page!Box!NoKeys, Keeps!Old, Page!Box!Old,
     Keeps!Init, Page!Box!Init
<1>2. ASSUME NEW s
      PROVE  /\ Keeps!Poll(s) <=> Page!Box!Poll(s)
             /\ Keeps!SyncInbox(s) <=> Page!Box!SyncInbox(s)
  BY DEF Keeps!ghosts, Page!Box!ghosts, Keeps!Only, Page!Box!Only, Keeps!Owed, Page!Box!Owed,
     Keeps!Retries, Page!Box!Retries, Keeps!Starts, Page!Box!Starts, Keeps!Free, Page!Box!Free,
     Keeps!Poll, Page!Box!Poll, Keeps!Fetched, Page!Box!Fetched, Keeps!SyncInbox,
     Page!Box!SyncInbox
<1>3. ASSUME NEW s
      PROVE  /\ Keeps!Land(s) <=> Page!Box!Land(s)
             /\ Keeps!Fail(s) <=> Page!Box!Fail(s)
  BY DEF Keeps!ghosts, Page!Box!ghosts, Keeps!Only, Page!Box!Only, Keeps!Over, Page!Box!Over,
     Keeps!NoKeys, Page!Box!NoKeys, Keeps!Old, Page!Box!Old, Keeps!Faults, Page!Box!Faults,
     Keeps!MergeSeenFlags, Page!Box!MergeSeenFlags, Keeps!MergeRemoved, Page!Box!MergeRemoved,
     Keeps!Preferences, Page!Box!Preferences, Keeps!CarryArchivedKeys, Page!Box!CarryArchivedKeys,
     Keeps!UpsertInboxAccount, Page!Box!UpsertInboxAccount, Keeps!Baseline, Page!Box!Baseline,
     Keeps!Arrivals, Page!Box!Arrivals, Keeps!AutoTagged, Page!Box!AutoTagged, Keeps!Announce,
     Page!Box!Announce, Keeps!Land, Page!Box!Land, Keeps!WithError, Page!Box!WithError,
     Keeps!Fail, Page!Box!Fail
<1>4. ASSUME NEW m
      PROVE  /\ Keeps!InboxEvent(m) <=> Page!Box!InboxEvent(m)
             /\ Keeps!Tag(m) <=> Page!Box!Tag(m)
             /\ Keeps!RemoveMessage(m) <=> Page!Box!RemoveMessage(m)
             /\ Keeps!RestoreMessage(m) <=> Page!Box!RestoreMessage(m)
             /\ Keeps!Archive(m) <=> Page!Box!Archive(m)
             /\ Keeps!Unarchive(m) <=> Page!Box!Unarchive(m)
             /\ Keeps!Arrive(m) <=> Page!Box!Arrive(m)
  BY DEF Keeps!ghosts, Page!Box!ghosts, Keeps!Only, Page!Box!Only, Keeps!Over, Page!Box!Over,
     Keeps!Put, Page!Box!Put, Keeps!Listed, Page!Box!Listed, Keeps!Acts, Page!Box!Acts,
     Keeps!AtHand, Page!Box!AtHand, Keeps!Arrive, Page!Box!Arrive, Keeps!Owed, Page!Box!Owed,
     Keeps!Retries, Page!Box!Retries, Keeps!Starts, Page!Box!Starts, Keeps!Free, Page!Box!Free,
     Keeps!InboxEvent, Page!Box!InboxEvent, Keeps!Tag, Page!Box!Tag, Keeps!RemoveMessage,
     Page!Box!RemoveMessage, Keeps!RestoreMessage, Page!Box!RestoreMessage, Keeps!Archived,
     Page!Box!Archived, Keeps!Archive, Page!Box!Archive, Keeps!Unarchive, Page!Box!Unarchive
<1>5. ASSUME NEW p
      PROVE  /\ Keeps!Confirmed(p) <=> Page!Box!Confirmed(p)
             /\ Keeps!Refused(p) <=> Page!Box!Refused(p)
  BY DEF Keeps!ghosts, Page!Box!ghosts, Keeps!Only, Page!Box!Only, Keeps!Faults, Page!Box!Faults,
     Keeps!SetServerSeenFlag, Page!Box!SetServerSeenFlag, Keeps!Confirmed, Page!Box!Confirmed,
     Keeps!Refused, Page!Box!Refused
<1>6. ASSUME NEW m, NEW seen
      PROVE  Keeps!MarkRead(m, seen) <=> Page!Box!MarkRead(m, seen)
  BY DEF Keeps!Over, Page!Box!Over, Keeps!Put, Page!Box!Put, Keeps!Listed, Page!Box!Listed,
     Keeps!Acts, Page!Box!Acts, Keeps!AtHand, Page!Box!AtHand, Keeps!MarkRead, Page!Box!MarkRead
<1>7. /\ Keeps!ClearRemoved <=> Page!Box!ClearRemoved
      /\ Keeps!ChooseImages <=> Page!Box!ChooseImages
      /\ Keeps!OpenForm <=> Page!Box!OpenForm
      /\ Keeps!Renumber <=> Page!Box!Renumber
      /\ Keeps!Restart <=> Page!Box!Restart
  BY DEF Keeps!ghosts, Page!Box!ghosts, Keeps!Empty, Page!Box!Empty, Keeps!Only, Page!Box!Only,
     Keeps!Over, Page!Box!Over, Keeps!NoKeys, Page!Box!NoKeys, Keeps!Acts, Page!Box!Acts,
     Keeps!AtHand, Page!Box!AtHand, Keeps!MergeSeenFlags, Page!Box!MergeSeenFlags,
     Keeps!MergeRemoved, Page!Box!MergeRemoved, Keeps!Preferences, Page!Box!Preferences,
     Keeps!CarryArchivedKeys, Page!Box!CarryArchivedKeys, Keeps!UpsertInboxAccount,
     Page!Box!UpsertInboxAccount, Keeps!Renumber, Page!Box!Renumber, Keeps!ClearRemoved,
     Page!Box!ClearRemoved, Keeps!ChooseImages, Page!Box!ChooseImages, Keeps!OpenForm,
     Page!Box!OpenForm, Keeps!Restart, Page!Box!Restart
<1>8. ASSUME NEW server
      PROVE  Keeps!SaveForm(server) <=> Page!Box!SaveForm(server)
  BY DEF Keeps!Only, Page!Box!Only, Keeps!Over, Page!Box!Over, Keeps!NoKeys, Page!Box!NoKeys,
     Keeps!Acts, Page!Box!Acts, Keeps!MergeSeenFlags, Page!Box!MergeSeenFlags, Keeps!MergeRemoved,
     Page!Box!MergeRemoved, Keeps!Preferences, Page!Box!Preferences, Keeps!CarryArchivedKeys,
     Page!Box!CarryArchivedKeys, Keeps!UpsertInboxAccount, Page!Box!UpsertInboxAccount,
     Keeps!Owed, Page!Box!Owed, Keeps!Retries, Page!Box!Retries, Keeps!Starts, Page!Box!Starts,
     Keeps!SaveForm, Page!Box!SaveForm
<1> QED
  BY <1>1, <1>2, <1>3, <1>4, <1>5, <1>6, <1>7, <1>8 DEF Keeps!Next, Page!Box!Next, Keeps!Sync,
     Page!Box!Sync, Keeps!Push, Page!Box!Push, Keeps!User, Page!Box!User

LEMMA SameKeepsProps ==
  /\ Keeps!TypeOK <=> Page!Box!TypeOK
  /\ Keeps!ReadStays <=> Page!Box!ReadStays
  /\ Keeps!RemovedStays <=> Page!Box!RemovedStays
  /\ Overlap!ImagesKept <=> Page!Box!ImagesKept
BY DEF Keeps!Listed, Page!Box!Listed, Keeps!Messages, Page!Box!Messages, Keeps!Rows,
   Page!Box!Rows, Keeps!TypeOK, Page!Box!TypeOK, Keeps!ReadStays, Page!Box!ReadStays,
   Keeps!RemovedStays, Page!Box!RemovedStays, Overlap!ImagesKept, Page!Box!ImagesKept

LEMMA KeepsAssumed == Page!Box!InboxAssumption /\ Page!Reads
BY MailAssumption DEF MailAssumption, Keeps!InboxAssumption, Page!Box!InboxAssumption, Page!Reads,
   Page!OneSync

KeepsSafe == part = "keeps" => Page!BoxInv /\ Page!ReadInv

LEMMA KeepsIsSafe ==
  Spec => [](part = "keeps" =>
               Keeps!TypeOK /\ Keeps!RemovedStays /\ Overlap!ImagesKept /\ Keeps!ReadStays)
<1>1. Init => KeepsSafe
  BY InitIs, SameKeeps, KeepsAssumed, Page!InitBox, Page!InitReads DEF KeepsSafe
<1>2. part \in Parts /\ KeepsSafe /\ [Next]_vars => KeepsSafe'
  <2> SUFFICES ASSUME part = "keeps", Page!BoxInv, Page!ReadInv, [Next]_vars
               PROVE  Page!BoxInv' /\ Page!ReadInv'
    BY StepIs DEF KeepsSafe
  <2>1. [Page!Box!Next]_(Page!Box!vars)
    BY StepIs, SameKeeps DEF Parts, Inboxes, inbox, Page!Box!vars, Page!Box!ghosts
  <2> QED
    BY <2>1, KeepsAssumed, Page!StepKeepsBox, Page!StepReads
<1>3. KeepsSafe => (part = "keeps" =>
               Keeps!TypeOK /\ Keeps!RemovedStays /\ Overlap!ImagesKept /\ Keeps!ReadStays)
  BY SameKeepsProps, Page!BoxIsSafe, Page!ReadsStay DEF KeepsSafe
<1> QED BY <1>1, <1>2, <1>3, PartIs, PTL DEF Spec

LEMMA SamePress == (Press!Init <=> Page!Init) /\ (Press!Next <=> Page!Next)
BY DEF Press!settings, Page!settings, Press!hist, Page!hist, Press!counts, Page!counts,
   Press!Versions, Page!Versions, Press!Init, Page!Init, Press!Put, Page!Put, Press!Captures,
   Page!Captures, Press!Recorded, Page!Recorded, Press!Snapshot, Page!Snapshot,
   Press!AutoSnapshot, Page!AutoSnapshot, Press!TimePasses, Page!TimePasses, Press!Preserved,
   Page!Preserved, Press!Restore, Page!Restore, Press!New, Page!New, Press!Type, Page!Type,
   Press!Load, Page!Load, Press!Count, Page!Count, Press!Presses, Page!Presses, Press!Call,
   Page!Call, Press!Starts, Page!Starts, Press!EarlySnapshot, Page!EarlySnapshot, Press!Press,
   Page!Press, Press!Confirm, Page!Confirm, Press!Deny, Page!Deny, Press!Elapses, Page!Elapses,
   Press!Expires, Page!Expires, Press!Cancel, Page!Cancel, Press!SendsLeaving, Page!SendsLeaving,
   Press!Leave, Page!Leave, Press!Return, Page!Return, Press!GivesBack, Page!GivesBack,
   Press!Ends, Page!Ends, Press!Arm, Page!Arm, Press!Armed, Page!Armed, Press!Quit, Page!Quit,
   Press!Next, Page!Next, Press!Min, Page!Min

LEMMA SamePressProps ==
  /\ Press!TypeOK <=> Page!TypeOK
  /\ Press!NeverDropped <=> Page!NeverDropped
  /\ Press!SentIsRecoverable <=> Page!SentIsRecoverable
  /\ Press!HandedOverOnce <=> Page!HandedOverOnce
  /\ Press!RestoreIsUndoable <=> Page!RestoreIsUndoable
  /\ Press!FailedComesBack <=> Page!FailedComesBack
BY DEF Press!Versions, Page!Versions, Press!TypeOK, Page!TypeOK, Press!NeverDropped,
   Page!NeverDropped, Press!SentIsRecoverable, Page!SentIsRecoverable, Press!settings,
   Page!settings, Press!counts, Page!counts, Press!Put, Page!Put, Press!Captures, Page!Captures,
   Press!Recorded, Page!Recorded, Press!Preserved, Page!Preserved, Press!Restore, Page!Restore,
   Press!HandedOverOnce, Page!HandedOverOnce, Press!RestoreIsUndoable, Page!RestoreIsUndoable,
   Press!Failed, Page!Failed, Press!FailedComesBack, Page!FailedComesBack, Page!Range,
   Press!Range, Page!Min, Press!Min, Page!BoundedSeq, Press!BoundedSeq, Page!SeqOf, Press!SeqOf

LEMMA PressAssumed == Page!ComposeAssumption
BY MailAssumption DEF MailAssumption, Press!ComposeAssumption, Page!ComposeAssumption

PressSafe ==
  part = "press" => Page!PressInv /\ Page!HistoryHasSent /\ Page!ScreenInv /\ quits = 0

LEMMA PressIsSafe ==
  Spec => /\ [](part = "press" =>
                  /\ Press!TypeOK /\ Press!HandedOverOnce
                  /\ Press!NeverDropped /\ Press!SentIsRecoverable)
          /\ [][part = "press" => Press!RestoreIsUndoable /\ Press!FailedComesBack]_vars
<1>1. Init => PressSafe
  BY InitIs, SamePress, PressAssumed, Page!InitPress, Page!InitHistory, Page!InitScreen DEF
     PressSafe, Press!Init
<1>2. part \in Parts /\ PressSafe /\ [Next]_vars
        => PressSafe' /\ (part = "press" => Press!FailedComesBack)
  <2> SUFFICES ASSUME part = "press", [Next]_vars, Page!PressInv, Page!HistoryHasSent,
                      Page!ScreenInv, quits = 0
               PROVE  /\ Page!PressInv' /\ Page!HistoryHasSent' /\ Page!ScreenInv' /\ quits' = 0
                      /\ Press!FailedComesBack
    BY StepIs DEF PressSafe
  <2>1. [Page!Next]_(Page!vars)
    BY StepIs, SamePress DEF Parts, Screens, page, Page!vars, Page!hist, Page!settings,
       Page!counts
  <2> QED
    BY <2>1, PressAssumed, SamePressProps, Page!StepKeeps, Page!HistoryStep, Page!ScreenStep,
       Page!FailureGivesBack, Page!StaysUp
<1>3. PressSafe =>
        (part = "press" =>
           Press!TypeOK /\ Press!HandedOverOnce /\ Press!NeverDropped /\ Press!SentIsRecoverable)
  BY PressAssumed, SamePressProps, Page!ScreenIsTyped, Page!PressIsExact, Page!HistoryHas DEF
     PressSafe
<1>4. PressSafe => (part = "press" => Press!RestoreIsUndoable)
  BY PressAssumed, SamePressProps, Page!RestoreKeeps DEF PressSafe
<1> QED BY <1>1, <1>2, <1>3, <1>4, PartIs, PTL DEF Spec

LEMMA SameRotate == (Rotate!Init <=> Page!Grant!Init) /\ (Rotate!Next <=> Page!Grant!Next)
<1>1. Rotate!Init <=> Page!Grant!Init
  BY DEF Rotate!Keys, Page!Grant!Keys, Rotate!Idle, Page!Grant!Idle, Rotate!Init, Page!Grant!Init
<1>2. ASSUME NEW t
      PROVE  /\ Rotate!ReadsSecrets(t) <=> Page!Grant!ReadsSecrets(t)
             /\ Rotate!FindsGrant(t) <=> Page!Grant!FindsGrant(t)
             /\ Rotate!Refused(t) <=> Page!Grant!Refused(t)
             /\ Rotate!Fails(t) <=> Page!Grant!Fails(t)
             /\ Rotate!Caches(t) <=> Page!Grant!Caches(t)
             /\ Rotate!SignedIn(t) <=> Page!Grant!SignedIn(t)
  BY DEF Rotate!provider, Page!Grant!provider, Rotate!memory, Page!Grant!memory, Rotate!ghosts,
     Page!Grant!ghosts, Rotate!Idle, Page!Grant!Idle, Rotate!Writing, Page!Grant!Writing,
     Rotate!Job, Page!Grant!Job, Rotate!Runs, Page!Grant!Runs, Rotate!Finishes,
     Page!Grant!Finishes, Rotate!ReadsSecrets, Page!Grant!ReadsSecrets, Rotate!Ended,
     Page!Grant!Ended, Rotate!HasGrant, Page!Grant!HasGrant, Rotate!FindsGrant,
     Page!Grant!FindsGrant, Rotate!Refused, Page!Grant!Refused, Rotate!Fails, Page!Grant!Fails,
     Rotate!Cleared, Page!Grant!Cleared, Rotate!Caches, Page!Grant!Caches, Rotate!KeepsNew,
     Page!Grant!KeepsNew, Rotate!SignedIn, Page!Grant!SignedIn
<1>3. ASSUME NEW t
      PROVE  /\ Rotate!WritesSecrets(t) <=> Page!Grant!WritesSecrets(t)
             /\ Rotate!Answers(t) <=> Page!Grant!Answers(t)
  BY DEF Rotate!provider, Page!Grant!provider, Rotate!memory, Page!Grant!memory, Rotate!Idle,
     Page!Grant!Idle, Rotate!Job, Page!Grant!Job, Rotate!Runs, Page!Grant!Runs, Rotate!To,
     Page!Grant!To, Rotate!Finishes, Page!Grant!Finishes, Rotate!Faults, Page!Grant!Faults,
     Rotate!Disturbed, Page!Grant!Disturbed, Rotate!Key, Page!Grant!Key, Rotate!Value,
     Page!Grant!Value, Rotate!AfterWrite, Page!Grant!AfterWrite, Rotate!Connecting,
     Page!Grant!Connecting, Rotate!WritesSecrets, Page!Grant!WritesSecrets, Rotate!KeepsNew,
     Page!Grant!KeepsNew, Rotate!Answers, Page!Grant!Answers
<1>4. ASSUME NEW t, NEW a
      PROVE  /\ Rotate!Asks(t, a) <=> Page!Grant!Asks(t, a)
             /\ Rotate!SetsPassword(t, a) <=> Page!Grant!SetsPassword(t, a)
             /\ Rotate!Consents(t, a) <=> Page!Grant!Consents(t, a)
             /\ Rotate!Forgets(t, a) <=> Page!Grant!Forgets(t, a)
  BY DEF Rotate!provider, Page!Grant!provider, Rotate!memory, Page!Grant!memory, Rotate!ghosts,
     Page!Grant!ghosts, Rotate!Idle, Page!Grant!Idle, Rotate!Job, Page!Grant!Job, Rotate!Begins,
     Page!Grant!Begins, Rotate!New, Page!Grant!New, Rotate!Acts, Page!Grant!Acts,
     Rotate!Disturbed, Page!Grant!Disturbed, Rotate!SetsPassword, Page!Grant!SetsPassword,
     Rotate!Asks, Page!Grant!Asks, Rotate!Consents, Page!Grant!Consents, Rotate!Forgets,
     Page!Grant!Forgets
<1>5. ASSUME NEW a
      PROVE  /\ Rotate!Expires(a) <=> Page!Grant!Expires(a)
             /\ Rotate!ServerRefuses(a) <=> Page!Grant!ServerRefuses(a)
             /\ Rotate!Lapses(a) <=> Page!Grant!Lapses(a)
             /\ Rotate!Withdraws(a) <=> Page!Grant!Withdraws(a)
  BY DEF Rotate!provider, Page!Grant!provider, Rotate!memory, Page!Grant!memory, Rotate!ghosts,
     Page!Grant!ghosts, Rotate!Acts, Page!Grant!Acts, Rotate!Faults, Page!Grant!Faults,
     Rotate!Disturbed, Page!Grant!Disturbed, Rotate!Expires, Page!Grant!Expires,
     Rotate!ServerRefuses, Page!Grant!ServerRefuses, Rotate!Lapses, Page!Grant!Lapses,
     Rotate!Withdraws, Page!Grant!Withdraws
<1>6. Rotate!Dies <=> Page!Grant!Dies
  BY DEF Rotate!provider, Page!Grant!provider, Rotate!Idle, Page!Grant!Idle, Rotate!Job,
     Page!Grant!Job, Rotate!Faults, Page!Grant!Faults, Rotate!Dies, Page!Grant!Dies
<1> QED
  BY <1>1, <1>2, <1>3, <1>4, <1>5, <1>6 DEF Rotate!Next, Page!Grant!Next, Rotate!TaskStep,
     Page!Grant!TaskStep

LEMMA SameRotateProps ==
  /\ Rotate!TypeOK <=> Page!Grant!TypeOK
  /\ Rotate!GrantSurvives <=> Page!Grant!GrantSurvives
  /\ Rotate!JoinsOnlyTheLiving <=> Page!Grant!JoinsOnlyTheLiving
BY DEF Rotate!Keys, Page!Grant!Keys, Rotate!Secrets, Page!Grant!Secrets, Rotate!Kinds,
   Page!Grant!Kinds, Rotate!Task, Page!Grant!Task, Rotate!Job, Page!Grant!Job, Rotate!Runs,
   Page!Grant!Runs, Rotate!TypeOK, Page!Grant!TypeOK, Rotate!Good, Page!Grant!Good,
   Rotate!GrantSurvives, Page!Grant!GrantSurvives, Rotate!JoinsOnlyTheLiving,
   Page!Grant!JoinsOnlyTheLiving

LEMMA RotateAssumed == Page!Grant!CredentialsAssumption
BY MailAssumption DEF MailAssumption, Rotate!CredentialsAssumption,
   Page!Grant!CredentialsAssumption

RotateSafe == part = "rotate" => Page!GrantInv /\ acts \in 0..1 /\ faults \in 0..1

LEMMA RotateIsSafe ==
  Spec => [](part = "rotate" => Rotate!TypeOK /\ Rotate!GrantSurvives /\ Rotate!JoinsOnlyTheLiving)
<1>1. Init => RotateSafe
  BY InitIs, SameRotate, RotateAssumed, Page!InitGrants, Page!GrantCounts DEF RotateSafe
<1>2. part \in Parts /\ RotateSafe /\ [Next]_vars => RotateSafe'
  <2> SUFFICES ASSUME part = "rotate", Page!GrantInv, acts \in 0..1, faults \in 0..1, [Next]_vars
               PROVE  Page!GrantInv' /\ acts' \in 0..1 /\ faults' \in 0..1
    BY StepIs DEF RotateSafe
  <2>1. [Page!Grant!Next]_(Page!Grant!vars)
    BY StepIs, SameRotate DEF Parts, oauth, Page!Grant!vars, Page!Grant!memory,
       Page!Grant!provider, Page!Grant!ghosts
  <2> QED BY <2>1, RotateAssumed, Page!StepGrants, Page!GrantCounts
<1>3. RotateSafe =>
        (part = "rotate" => Rotate!TypeOK /\ Rotate!GrantSurvives /\ Rotate!JoinsOnlyTheLiving)
  BY RotateAssumed, SameRotateProps, Page!GrantIsSafe DEF RotateSafe
<1> QED BY <1>1, <1>2, <1>3, PartIs, PTL DEF Spec

-----------------------------------------------------------------------------
(* Syncs that overlap, a screen that is left and a program that quits, and two accounts *)

QuitPage == INSTANCE MailPartsProofs WITH
  MaxPresses <- 1, MaxLeaves <- 1, MaxQuits <- 1, mine <- wrote, choices <- mine,
  Mail <- {m1}, Slots <- {s1, s2}, Ruled <- {},
  Does <- {"bin", "images", "empty"}, MaxActs <- 3, MaxFaults <- 1,
  Sockets <- Slots, WatchActs <- MaxActs, WatchFaults <- MaxFaults,
  Accounts <- {acc1, acc2}, Rotating <- {acc1}, Callers <- {t1, t2}, MaxTokens <- 2,
  GrantActs <- 1, GrantFaults <- 1

LEMMA SameOverlap == (Overlap!Init <=> QuitPage!Box!Init) /\ (Overlap!Next <=> QuitPage!Box!Next)
<1>1. Overlap!Init <=> QuitPage!Box!Init
  BY DEF Overlap!Empty, QuitPage!Box!Empty, Overlap!NoKeys, QuitPage!Box!NoKeys, Overlap!Old,
     QuitPage!Box!Old, Overlap!Init, QuitPage!Box!Init
<1>2. ASSUME NEW s
      PROVE  /\ Overlap!Poll(s) <=> QuitPage!Box!Poll(s)
             /\ Overlap!SyncInbox(s) <=> QuitPage!Box!SyncInbox(s)
  BY DEF Overlap!ghosts, QuitPage!Box!ghosts, Overlap!Only, QuitPage!Box!Only, Overlap!Owed,
     QuitPage!Box!Owed, Overlap!Retries, QuitPage!Box!Retries, Overlap!Starts,
     QuitPage!Box!Starts, Overlap!Free, QuitPage!Box!Free, Overlap!Poll, QuitPage!Box!Poll,
     Overlap!Fetched, QuitPage!Box!Fetched, Overlap!SyncInbox, QuitPage!Box!SyncInbox
<1>3. ASSUME NEW s
      PROVE  /\ Overlap!Land(s) <=> QuitPage!Box!Land(s)
             /\ Overlap!Fail(s) <=> QuitPage!Box!Fail(s)
  BY DEF Overlap!ghosts, QuitPage!Box!ghosts, Overlap!Only, QuitPage!Box!Only, Overlap!Over,
     QuitPage!Box!Over, Overlap!NoKeys, QuitPage!Box!NoKeys, Overlap!Old, QuitPage!Box!Old,
     Overlap!Faults, QuitPage!Box!Faults, Overlap!MergeSeenFlags, QuitPage!Box!MergeSeenFlags,
     Overlap!MergeRemoved, QuitPage!Box!MergeRemoved, Overlap!Preferences,
     QuitPage!Box!Preferences, Overlap!CarryArchivedKeys, QuitPage!Box!CarryArchivedKeys,
     Overlap!UpsertInboxAccount, QuitPage!Box!UpsertInboxAccount, Overlap!Baseline,
     QuitPage!Box!Baseline, Overlap!Arrivals, QuitPage!Box!Arrivals, Overlap!AutoTagged,
     QuitPage!Box!AutoTagged, Overlap!Announce, QuitPage!Box!Announce, Overlap!Land,
     QuitPage!Box!Land, Overlap!WithError, QuitPage!Box!WithError, Overlap!Fail, QuitPage!Box!Fail
<1>4. ASSUME NEW m
      PROVE  /\ Overlap!InboxEvent(m) <=> QuitPage!Box!InboxEvent(m)
             /\ Overlap!Tag(m) <=> QuitPage!Box!Tag(m)
             /\ Overlap!RemoveMessage(m) <=> QuitPage!Box!RemoveMessage(m)
             /\ Overlap!RestoreMessage(m) <=> QuitPage!Box!RestoreMessage(m)
             /\ Overlap!Archive(m) <=> QuitPage!Box!Archive(m)
             /\ Overlap!Unarchive(m) <=> QuitPage!Box!Unarchive(m)
             /\ Overlap!Arrive(m) <=> QuitPage!Box!Arrive(m)
  BY DEF Overlap!ghosts, QuitPage!Box!ghosts, Overlap!Only, QuitPage!Box!Only, Overlap!Over,
     QuitPage!Box!Over, Overlap!Put, QuitPage!Box!Put, Overlap!Listed, QuitPage!Box!Listed,
     Overlap!Acts, QuitPage!Box!Acts, Overlap!AtHand, QuitPage!Box!AtHand, Overlap!Arrive,
     QuitPage!Box!Arrive, Overlap!Owed, QuitPage!Box!Owed, Overlap!Retries, QuitPage!Box!Retries,
     Overlap!Starts, QuitPage!Box!Starts, Overlap!Free, QuitPage!Box!Free, Overlap!InboxEvent,
     QuitPage!Box!InboxEvent, Overlap!Tag, QuitPage!Box!Tag, Overlap!RemoveMessage,
     QuitPage!Box!RemoveMessage, Overlap!RestoreMessage, QuitPage!Box!RestoreMessage,
     Overlap!Archived, QuitPage!Box!Archived, Overlap!Archive, QuitPage!Box!Archive,
     Overlap!Unarchive, QuitPage!Box!Unarchive
<1>5. ASSUME NEW p
      PROVE  /\ Overlap!Confirmed(p) <=> QuitPage!Box!Confirmed(p)
             /\ Overlap!Refused(p) <=> QuitPage!Box!Refused(p)
  BY DEF Overlap!ghosts, QuitPage!Box!ghosts, Overlap!Only, QuitPage!Box!Only, Overlap!Faults,
     QuitPage!Box!Faults, Overlap!SetServerSeenFlag, QuitPage!Box!SetServerSeenFlag,
     Overlap!Confirmed, QuitPage!Box!Confirmed, Overlap!Refused, QuitPage!Box!Refused
<1>6. ASSUME NEW m, NEW seen
      PROVE  Overlap!MarkRead(m, seen) <=> QuitPage!Box!MarkRead(m, seen)
  BY DEF Overlap!Over, QuitPage!Box!Over, Overlap!Put, QuitPage!Box!Put, Overlap!Listed,
     QuitPage!Box!Listed, Overlap!Acts, QuitPage!Box!Acts, Overlap!AtHand, QuitPage!Box!AtHand,
     Overlap!MarkRead, QuitPage!Box!MarkRead
<1>7. /\ Overlap!ClearRemoved <=> QuitPage!Box!ClearRemoved
      /\ Overlap!ChooseImages <=> QuitPage!Box!ChooseImages
      /\ Overlap!OpenForm <=> QuitPage!Box!OpenForm
      /\ Overlap!Renumber <=> QuitPage!Box!Renumber
      /\ Overlap!Restart <=> QuitPage!Box!Restart
  BY DEF Overlap!ghosts, QuitPage!Box!ghosts, Overlap!Empty, QuitPage!Box!Empty, Overlap!Only,
     QuitPage!Box!Only, Overlap!Over, QuitPage!Box!Over, Overlap!NoKeys, QuitPage!Box!NoKeys,
     Overlap!Acts, QuitPage!Box!Acts, Overlap!AtHand, QuitPage!Box!AtHand, Overlap!MergeSeenFlags,
     QuitPage!Box!MergeSeenFlags, Overlap!MergeRemoved, QuitPage!Box!MergeRemoved,
     Overlap!Preferences, QuitPage!Box!Preferences, Overlap!CarryArchivedKeys,
     QuitPage!Box!CarryArchivedKeys, Overlap!UpsertInboxAccount, QuitPage!Box!UpsertInboxAccount,
     Overlap!Renumber, QuitPage!Box!Renumber, Overlap!ClearRemoved, QuitPage!Box!ClearRemoved,
     Overlap!ChooseImages, QuitPage!Box!ChooseImages, Overlap!OpenForm, QuitPage!Box!OpenForm,
     Overlap!Restart, QuitPage!Box!Restart
<1>8. ASSUME NEW server
      PROVE  Overlap!SaveForm(server) <=> QuitPage!Box!SaveForm(server)
  BY DEF Overlap!Only, QuitPage!Box!Only, Overlap!Over, QuitPage!Box!Over, Overlap!NoKeys,
     QuitPage!Box!NoKeys, Overlap!Acts, QuitPage!Box!Acts, Overlap!MergeSeenFlags,
     QuitPage!Box!MergeSeenFlags, Overlap!MergeRemoved, QuitPage!Box!MergeRemoved,
     Overlap!Preferences, QuitPage!Box!Preferences, Overlap!CarryArchivedKeys,
     QuitPage!Box!CarryArchivedKeys, Overlap!UpsertInboxAccount, QuitPage!Box!UpsertInboxAccount,
     Overlap!Owed, QuitPage!Box!Owed, Overlap!Retries, QuitPage!Box!Retries, Overlap!Starts,
     QuitPage!Box!Starts, Overlap!SaveForm, QuitPage!Box!SaveForm
<1> QED
  BY <1>1, <1>2, <1>3, <1>4, <1>5, <1>6, <1>7, <1>8 DEF Overlap!Next, QuitPage!Box!Next,
     Overlap!Sync, QuitPage!Box!Sync, Overlap!Push, QuitPage!Box!Push, Overlap!User,
     QuitPage!Box!User

LEMMA SameOverlapProps ==
  /\ Overlap!TypeOK <=> QuitPage!Box!TypeOK
  /\ Keeps!RemovedStays <=> QuitPage!Box!RemovedStays
  /\ Overlap!ImagesKept <=> QuitPage!Box!ImagesKept
BY DEF Overlap!Listed, QuitPage!Box!Listed, Overlap!Messages, QuitPage!Box!Messages, Overlap!Rows,
   QuitPage!Box!Rows, Overlap!TypeOK, QuitPage!Box!TypeOK, Keeps!Listed, Keeps!RemovedStays,
   QuitPage!Box!RemovedStays, Overlap!ImagesKept, QuitPage!Box!ImagesKept

LEMMA OverlapAssumed == QuitPage!Box!InboxAssumption
BY MailAssumption DEF MailAssumption, Overlap!InboxAssumption, QuitPage!Box!InboxAssumption

OverlapSafe == part = "overlap" => QuitPage!BoxInv

LEMMA OverlapIsSafe ==
  Spec => [](part = "overlap" =>
               Overlap!TypeOK /\ Keeps!RemovedStays /\ Overlap!ImagesKept)
<1>1. Init => OverlapSafe
  BY InitIs, SameOverlap, OverlapAssumed, QuitPage!InitBox DEF OverlapSafe
<1>2. part \in Parts /\ OverlapSafe /\ [Next]_vars => OverlapSafe'
  <2> SUFFICES ASSUME part = "overlap", QuitPage!BoxInv, [Next]_vars
               PROVE  QuitPage!BoxInv'
    BY StepIs DEF OverlapSafe
  <2>1. [QuitPage!Box!Next]_(QuitPage!Box!vars)
    BY StepIs, SameOverlap DEF Parts, Inboxes, inbox, QuitPage!Box!vars, QuitPage!Box!ghosts
  <2> QED
    BY <2>1, OverlapAssumed, QuitPage!StepKeepsBox
<1>3. OverlapSafe => (part = "overlap" =>
               Overlap!TypeOK /\ Keeps!RemovedStays /\ Overlap!ImagesKept)
  BY SameOverlapProps, QuitPage!BoxIsSafe DEF OverlapSafe
<1> QED BY <1>1, <1>2, <1>3, PartIs, PTL DEF Spec

LEMMA SameQuit == (Quit!Init <=> QuitPage!Init) /\ (Quit!Next <=> QuitPage!Next)
BY DEF Quit!settings, QuitPage!settings, Quit!hist, QuitPage!hist, Quit!counts, QuitPage!counts,
   Quit!Versions, QuitPage!Versions, Quit!Init, QuitPage!Init, Quit!Put, QuitPage!Put,
   Quit!Captures, QuitPage!Captures, Quit!Recorded, QuitPage!Recorded, Quit!Snapshot,
   QuitPage!Snapshot, Quit!AutoSnapshot, QuitPage!AutoSnapshot, Quit!TimePasses,
   QuitPage!TimePasses, Quit!Preserved, QuitPage!Preserved, Quit!Restore, QuitPage!Restore,
   Quit!New, QuitPage!New, Quit!Type, QuitPage!Type, Quit!Load, QuitPage!Load, Quit!Count,
   QuitPage!Count, Quit!Presses, QuitPage!Presses, Quit!Call, QuitPage!Call, Quit!Starts,
   QuitPage!Starts, Quit!EarlySnapshot, QuitPage!EarlySnapshot, Quit!Press, QuitPage!Press,
   Quit!Confirm, QuitPage!Confirm, Quit!Deny, QuitPage!Deny, Quit!Elapses, QuitPage!Elapses,
   Quit!Expires, QuitPage!Expires, Quit!Cancel, QuitPage!Cancel, Quit!SendsLeaving,
   QuitPage!SendsLeaving, Quit!Leave, QuitPage!Leave, Quit!Return, QuitPage!Return,
   Quit!GivesBack, QuitPage!GivesBack, Quit!Ends, QuitPage!Ends, Quit!Arm, QuitPage!Arm,
   Quit!Armed, QuitPage!Armed, Quit!Quit, QuitPage!Quit, Quit!Next, QuitPage!Next, Quit!Min,
   QuitPage!Min

LEMMA SameQuitProps ==
  /\ Quit!TypeOK <=> QuitPage!TypeOK
  /\ Press!HandedOverOnce <=> QuitPage!HandedOverOnce
  /\ Press!RestoreIsUndoable <=> QuitPage!RestoreIsUndoable
  /\ Press!FailedComesBack <=> QuitPage!FailedComesBack
BY DEF Quit!Versions, QuitPage!Versions, Quit!TypeOK, QuitPage!TypeOK, Press!settings,
   QuitPage!settings, Press!counts, QuitPage!counts, Press!Versions, Press!Put, QuitPage!Put,
   Press!Captures, QuitPage!Captures, Press!Recorded, QuitPage!Recorded, Press!Preserved,
   QuitPage!Preserved, Press!Restore, QuitPage!Restore, Press!HandedOverOnce,
   QuitPage!HandedOverOnce, Press!RestoreIsUndoable, QuitPage!RestoreIsUndoable, Press!Failed,
   QuitPage!Failed, Press!FailedComesBack, QuitPage!FailedComesBack, Press!Range, Quit!Range,
   QuitPage!Range, Press!Min, Quit!Min, QuitPage!Min, Press!BoundedSeq, Quit!BoundedSeq,
   QuitPage!BoundedSeq, Press!SeqOf, Quit!SeqOf, QuitPage!SeqOf

LEMMA QuitAssumed == QuitPage!ComposeAssumption
BY MailAssumption DEF MailAssumption, Quit!ComposeAssumption, QuitPage!ComposeAssumption

QuitSafe ==
  part = "quit" => QuitPage!PressInv /\ QuitPage!HistoryHasSent /\ QuitPage!ScreenInv

LEMMA QuitIsSafe ==
  Spec => /\ [](part = "quit" =>
                  Quit!TypeOK /\ Press!HandedOverOnce)
          /\ [][part = "quit" => Press!RestoreIsUndoable /\ Press!FailedComesBack]_vars
<1>1. Init => QuitSafe
  BY InitIs, SameQuit, QuitAssumed, QuitPage!InitPress, QuitPage!InitHistory, QuitPage!InitScreen
     DEF QuitSafe
<1>2. part \in Parts /\ QuitSafe /\ [Next]_vars
        => QuitSafe' /\ (part = "quit" => Press!FailedComesBack)
  <2> SUFFICES ASSUME part = "quit", [Next]_vars, QuitPage!PressInv, QuitPage!HistoryHasSent,
                      QuitPage!ScreenInv
               PROVE  /\ QuitPage!PressInv' /\ QuitPage!HistoryHasSent' /\ QuitPage!ScreenInv'
                      /\ Press!FailedComesBack
    BY StepIs DEF QuitSafe
  <2>1. [QuitPage!Next]_(QuitPage!vars)
    BY StepIs, SameQuit DEF Parts, Screens, page, QuitPage!vars, QuitPage!hist, QuitPage!settings,
       QuitPage!counts
  <2> QED
    BY <2>1, QuitAssumed, SameQuitProps, QuitPage!StepKeeps, QuitPage!HistoryStep,
       QuitPage!ScreenStep, QuitPage!FailureGivesBack
<1>3. QuitSafe =>
        (part = "quit" =>
           Quit!TypeOK /\ Press!HandedOverOnce)
  BY QuitAssumed, SameQuitProps, QuitPage!ScreenIsTyped, QuitPage!PressIsExact,
     QuitPage!HistoryHas DEF QuitSafe
<1>4. QuitSafe => (part = "quit" => Press!RestoreIsUndoable)
  BY QuitAssumed, SameQuitProps, QuitPage!RestoreKeeps DEF QuitSafe
<1> QED BY <1>1, <1>2, <1>3, <1>4, PartIs, PTL DEF Spec

LEMMA SameShare == (Share!Init <=> QuitPage!Grant!Init) /\ (Share!Next <=> QuitPage!Grant!Next)
<1>1. Share!Init <=> QuitPage!Grant!Init
  BY DEF Share!Keys, QuitPage!Grant!Keys, Share!Idle, QuitPage!Grant!Idle, Share!Init,
     QuitPage!Grant!Init
<1>2. ASSUME NEW t
      PROVE  /\ Share!ReadsSecrets(t) <=> QuitPage!Grant!ReadsSecrets(t)
             /\ Share!FindsGrant(t) <=> QuitPage!Grant!FindsGrant(t)
             /\ Share!Refused(t) <=> QuitPage!Grant!Refused(t)
             /\ Share!Fails(t) <=> QuitPage!Grant!Fails(t)
             /\ Share!Caches(t) <=> QuitPage!Grant!Caches(t)
             /\ Share!SignedIn(t) <=> QuitPage!Grant!SignedIn(t)
  BY DEF Share!provider, QuitPage!Grant!provider, Share!memory, QuitPage!Grant!memory,
     Share!ghosts, QuitPage!Grant!ghosts, Share!Idle, QuitPage!Grant!Idle, Share!Writing,
     QuitPage!Grant!Writing, Share!Job, QuitPage!Grant!Job, Share!Runs, QuitPage!Grant!Runs,
     Share!Finishes, QuitPage!Grant!Finishes, Share!ReadsSecrets, QuitPage!Grant!ReadsSecrets,
     Share!Ended, QuitPage!Grant!Ended, Share!HasGrant, QuitPage!Grant!HasGrant, Share!FindsGrant,
     QuitPage!Grant!FindsGrant, Share!Refused, QuitPage!Grant!Refused, Share!Fails,
     QuitPage!Grant!Fails, Share!Cleared, QuitPage!Grant!Cleared, Share!Caches,
     QuitPage!Grant!Caches, Share!KeepsNew, QuitPage!Grant!KeepsNew, Share!SignedIn,
     QuitPage!Grant!SignedIn
<1>3. ASSUME NEW t
      PROVE  /\ Share!WritesSecrets(t) <=> QuitPage!Grant!WritesSecrets(t)
             /\ Share!Answers(t) <=> QuitPage!Grant!Answers(t)
  BY DEF Share!provider, QuitPage!Grant!provider, Share!memory, QuitPage!Grant!memory, Share!Idle,
     QuitPage!Grant!Idle, Share!Job, QuitPage!Grant!Job, Share!Runs, QuitPage!Grant!Runs,
     Share!To, QuitPage!Grant!To, Share!Finishes, QuitPage!Grant!Finishes, Share!Faults,
     QuitPage!Grant!Faults, Share!Disturbed, QuitPage!Grant!Disturbed, Share!Key,
     QuitPage!Grant!Key, Share!Value, QuitPage!Grant!Value, Share!AfterWrite,
     QuitPage!Grant!AfterWrite, Share!Connecting, QuitPage!Grant!Connecting, Share!WritesSecrets,
     QuitPage!Grant!WritesSecrets, Share!KeepsNew, QuitPage!Grant!KeepsNew, Share!Answers,
     QuitPage!Grant!Answers
<1>4. ASSUME NEW t, NEW a
      PROVE  /\ Share!Asks(t, a) <=> QuitPage!Grant!Asks(t, a)
             /\ Share!SetsPassword(t, a) <=> QuitPage!Grant!SetsPassword(t, a)
             /\ Share!Consents(t, a) <=> QuitPage!Grant!Consents(t, a)
             /\ Share!Forgets(t, a) <=> QuitPage!Grant!Forgets(t, a)
  BY DEF Share!provider, QuitPage!Grant!provider, Share!memory, QuitPage!Grant!memory,
     Share!ghosts, QuitPage!Grant!ghosts, Share!Idle, QuitPage!Grant!Idle, Share!Job,
     QuitPage!Grant!Job, Share!Begins, QuitPage!Grant!Begins, Share!New, QuitPage!Grant!New,
     Share!Acts, QuitPage!Grant!Acts, Share!Disturbed, QuitPage!Grant!Disturbed,
     Share!SetsPassword, QuitPage!Grant!SetsPassword, Share!Asks, QuitPage!Grant!Asks,
     Share!Consents, QuitPage!Grant!Consents, Share!Forgets, QuitPage!Grant!Forgets
<1>5. ASSUME NEW a
      PROVE  /\ Share!Expires(a) <=> QuitPage!Grant!Expires(a)
             /\ Share!ServerRefuses(a) <=> QuitPage!Grant!ServerRefuses(a)
             /\ Share!Lapses(a) <=> QuitPage!Grant!Lapses(a)
             /\ Share!Withdraws(a) <=> QuitPage!Grant!Withdraws(a)
  BY DEF Share!provider, QuitPage!Grant!provider, Share!memory, QuitPage!Grant!memory,
     Share!ghosts, QuitPage!Grant!ghosts, Share!Acts, QuitPage!Grant!Acts, Share!Faults,
     QuitPage!Grant!Faults, Share!Disturbed, QuitPage!Grant!Disturbed, Share!Expires,
     QuitPage!Grant!Expires, Share!ServerRefuses, QuitPage!Grant!ServerRefuses, Share!Lapses,
     QuitPage!Grant!Lapses, Share!Withdraws, QuitPage!Grant!Withdraws
<1>6. Share!Dies <=> QuitPage!Grant!Dies
  BY DEF Share!provider, QuitPage!Grant!provider, Share!Idle, QuitPage!Grant!Idle, Share!Job,
     QuitPage!Grant!Job, Share!Faults, QuitPage!Grant!Faults, Share!Dies, QuitPage!Grant!Dies
<1> QED
  BY <1>1, <1>2, <1>3, <1>4, <1>5, <1>6 DEF Share!Next, QuitPage!Grant!Next, Share!TaskStep,
     QuitPage!Grant!TaskStep

LEMMA SameShareProps ==
  /\ Share!TypeOK <=> QuitPage!Grant!TypeOK
  /\ Share!GrantSurvives <=> QuitPage!Grant!GrantSurvives
BY DEF Share!Keys, QuitPage!Grant!Keys, Share!Secrets, QuitPage!Grant!Secrets, Share!Kinds,
   QuitPage!Grant!Kinds, Share!Task, QuitPage!Grant!Task, Share!Job, QuitPage!Grant!Job,
   Share!Runs, QuitPage!Grant!Runs, Share!TypeOK, QuitPage!Grant!TypeOK, Share!Good,
   QuitPage!Grant!Good, Share!GrantSurvives, QuitPage!Grant!GrantSurvives

LEMMA ShareAssumed == QuitPage!Grant!CredentialsAssumption
BY MailAssumption DEF MailAssumption, Share!CredentialsAssumption,
   QuitPage!Grant!CredentialsAssumption

ShareSafe == part = "share" => QuitPage!GrantInv /\ acts \in 0..1 /\ faults \in 0..1

LEMMA ShareIsSafe ==
  Spec => [](part = "share" => Share!TypeOK /\ Share!GrantSurvives)
<1>1. Init => ShareSafe
  BY InitIs, SameShare, ShareAssumed, QuitPage!InitGrants, QuitPage!GrantCounts DEF ShareSafe
<1>2. part \in Parts /\ ShareSafe /\ [Next]_vars => ShareSafe'
  <2> SUFFICES ASSUME part = "share", QuitPage!GrantInv, acts \in 0..1, faults \in 0..1, [Next]_vars
               PROVE  QuitPage!GrantInv' /\ acts' \in 0..1 /\ faults' \in 0..1
    BY StepIs DEF ShareSafe
  <2>1. [QuitPage!Grant!Next]_(QuitPage!Grant!vars)
    BY StepIs, SameShare DEF Parts, oauth, QuitPage!Grant!vars, QuitPage!Grant!memory,
       QuitPage!Grant!provider, QuitPage!Grant!ghosts
  <2> QED BY <2>1, ShareAssumed, QuitPage!StepGrants, QuitPage!GrantCounts
<1>3. ShareSafe =>
        (part = "share" => Share!TypeOK /\ Share!GrantSurvives)
  BY ShareAssumed, SameShareProps, QuitPage!GrantIsSafe DEF ShareSafe
<1> QED BY <1>1, <1>2, <1>3, PartIs, PTL DEF Spec

-----------------------------------------------------------------------------
(* A mailbox that is numbered anew, and one press under fairness too *)

EndsPage == INSTANCE MailPartsProofs WITH
  MaxPresses <- 1, MaxLeaves <- 1, MaxQuits <- 0, mine <- wrote, choices <- mine,
  Mail <- {m1}, Slots <- {s1, s2}, Ruled <- {},
  Does <- {"bin", "renumber", "empty", "archive"}, MaxActs <- 2, MaxFaults <- 1,
  Sockets <- Slots, WatchActs <- MaxActs, WatchFaults <- MaxFaults,
  Accounts <- {acc1}, Rotating <- {acc1}, Callers <- {t1, t2}, MaxTokens <- 3,
  GrantActs <- 1, GrantFaults <- 1

LEMMA SameRenumber == (Renumber!Init <=> EndsPage!Box!Init) /\ (Renumber!Next <=> EndsPage!Box!Next)
<1>1. Renumber!Init <=> EndsPage!Box!Init
  BY DEF Renumber!Empty, EndsPage!Box!Empty, Renumber!NoKeys, EndsPage!Box!NoKeys, Renumber!Old,
     EndsPage!Box!Old, Renumber!Init, EndsPage!Box!Init
<1>2. ASSUME NEW s
      PROVE  /\ Renumber!Poll(s) <=> EndsPage!Box!Poll(s)
             /\ Renumber!SyncInbox(s) <=> EndsPage!Box!SyncInbox(s)
  BY DEF Renumber!ghosts, EndsPage!Box!ghosts, Renumber!Only, EndsPage!Box!Only, Renumber!Owed,
     EndsPage!Box!Owed, Renumber!Retries, EndsPage!Box!Retries, Renumber!Starts,
     EndsPage!Box!Starts, Renumber!Free, EndsPage!Box!Free, Renumber!Poll, EndsPage!Box!Poll,
     Renumber!Fetched, EndsPage!Box!Fetched, Renumber!SyncInbox, EndsPage!Box!SyncInbox
<1>3. ASSUME NEW s
      PROVE  /\ Renumber!Land(s) <=> EndsPage!Box!Land(s)
             /\ Renumber!Fail(s) <=> EndsPage!Box!Fail(s)
  BY DEF Renumber!ghosts, EndsPage!Box!ghosts, Renumber!Only, EndsPage!Box!Only, Renumber!Over,
     EndsPage!Box!Over, Renumber!NoKeys, EndsPage!Box!NoKeys, Renumber!Old, EndsPage!Box!Old,
     Renumber!Faults, EndsPage!Box!Faults, Renumber!MergeSeenFlags, EndsPage!Box!MergeSeenFlags,
     Renumber!MergeRemoved, EndsPage!Box!MergeRemoved, Renumber!Preferences,
     EndsPage!Box!Preferences, Renumber!CarryArchivedKeys, EndsPage!Box!CarryArchivedKeys,
     Renumber!UpsertInboxAccount, EndsPage!Box!UpsertInboxAccount, Renumber!Baseline,
     EndsPage!Box!Baseline, Renumber!Arrivals, EndsPage!Box!Arrivals, Renumber!AutoTagged,
     EndsPage!Box!AutoTagged, Renumber!Announce, EndsPage!Box!Announce, Renumber!Land,
     EndsPage!Box!Land, Renumber!WithError, EndsPage!Box!WithError, Renumber!Fail,
     EndsPage!Box!Fail
<1>4. ASSUME NEW m
      PROVE  /\ Renumber!InboxEvent(m) <=> EndsPage!Box!InboxEvent(m)
             /\ Renumber!Tag(m) <=> EndsPage!Box!Tag(m)
             /\ Renumber!RemoveMessage(m) <=> EndsPage!Box!RemoveMessage(m)
             /\ Renumber!RestoreMessage(m) <=> EndsPage!Box!RestoreMessage(m)
             /\ Renumber!Archive(m) <=> EndsPage!Box!Archive(m)
             /\ Renumber!Unarchive(m) <=> EndsPage!Box!Unarchive(m)
             /\ Renumber!Arrive(m) <=> EndsPage!Box!Arrive(m)
  BY DEF Renumber!ghosts, EndsPage!Box!ghosts, Renumber!Only, EndsPage!Box!Only, Renumber!Over,
     EndsPage!Box!Over, Renumber!Put, EndsPage!Box!Put, Renumber!Listed, EndsPage!Box!Listed,
     Renumber!Acts, EndsPage!Box!Acts, Renumber!AtHand, EndsPage!Box!AtHand, Renumber!Arrive,
     EndsPage!Box!Arrive, Renumber!Owed, EndsPage!Box!Owed, Renumber!Retries,
     EndsPage!Box!Retries, Renumber!Starts, EndsPage!Box!Starts, Renumber!Free, EndsPage!Box!Free,
     Renumber!InboxEvent, EndsPage!Box!InboxEvent, Renumber!Tag, EndsPage!Box!Tag,
     Renumber!RemoveMessage, EndsPage!Box!RemoveMessage, Renumber!RestoreMessage,
     EndsPage!Box!RestoreMessage, Renumber!Archived, EndsPage!Box!Archived, Renumber!Archive,
     EndsPage!Box!Archive, Renumber!Unarchive, EndsPage!Box!Unarchive
<1>5. ASSUME NEW p
      PROVE  /\ Renumber!Confirmed(p) <=> EndsPage!Box!Confirmed(p)
             /\ Renumber!Refused(p) <=> EndsPage!Box!Refused(p)
  BY DEF Renumber!ghosts, EndsPage!Box!ghosts, Renumber!Only, EndsPage!Box!Only, Renumber!Faults,
     EndsPage!Box!Faults, Renumber!SetServerSeenFlag, EndsPage!Box!SetServerSeenFlag,
     Renumber!Confirmed, EndsPage!Box!Confirmed, Renumber!Refused, EndsPage!Box!Refused
<1>6. ASSUME NEW m, NEW seen
      PROVE  Renumber!MarkRead(m, seen) <=> EndsPage!Box!MarkRead(m, seen)
  BY DEF Renumber!Over, EndsPage!Box!Over, Renumber!Put, EndsPage!Box!Put, Renumber!Listed,
     EndsPage!Box!Listed, Renumber!Acts, EndsPage!Box!Acts, Renumber!AtHand, EndsPage!Box!AtHand,
     Renumber!MarkRead, EndsPage!Box!MarkRead
<1>7. /\ Renumber!ClearRemoved <=> EndsPage!Box!ClearRemoved
      /\ Renumber!ChooseImages <=> EndsPage!Box!ChooseImages
      /\ Renumber!OpenForm <=> EndsPage!Box!OpenForm
      /\ Renumber!Renumber <=> EndsPage!Box!Renumber
      /\ Renumber!Restart <=> EndsPage!Box!Restart
  BY DEF Renumber!ghosts, EndsPage!Box!ghosts, Renumber!Empty, EndsPage!Box!Empty, Renumber!Only,
     EndsPage!Box!Only, Renumber!Over, EndsPage!Box!Over, Renumber!NoKeys, EndsPage!Box!NoKeys,
     Renumber!Acts, EndsPage!Box!Acts, Renumber!AtHand, EndsPage!Box!AtHand,
     Renumber!MergeSeenFlags, EndsPage!Box!MergeSeenFlags, Renumber!MergeRemoved,
     EndsPage!Box!MergeRemoved, Renumber!Preferences, EndsPage!Box!Preferences,
     Renumber!CarryArchivedKeys, EndsPage!Box!CarryArchivedKeys, Renumber!UpsertInboxAccount,
     EndsPage!Box!UpsertInboxAccount, Renumber!Renumber, EndsPage!Box!Renumber,
     Renumber!ClearRemoved, EndsPage!Box!ClearRemoved, Renumber!ChooseImages,
     EndsPage!Box!ChooseImages, Renumber!OpenForm, EndsPage!Box!OpenForm, Renumber!Restart,
     EndsPage!Box!Restart
<1>8. ASSUME NEW server
      PROVE  Renumber!SaveForm(server) <=> EndsPage!Box!SaveForm(server)
  BY DEF Renumber!Only, EndsPage!Box!Only, Renumber!Over, EndsPage!Box!Over, Renumber!NoKeys,
     EndsPage!Box!NoKeys, Renumber!Acts, EndsPage!Box!Acts, Renumber!MergeSeenFlags,
     EndsPage!Box!MergeSeenFlags, Renumber!MergeRemoved, EndsPage!Box!MergeRemoved,
     Renumber!Preferences, EndsPage!Box!Preferences, Renumber!CarryArchivedKeys,
     EndsPage!Box!CarryArchivedKeys, Renumber!UpsertInboxAccount, EndsPage!Box!UpsertInboxAccount,
     Renumber!Owed, EndsPage!Box!Owed, Renumber!Retries, EndsPage!Box!Retries, Renumber!Starts,
     EndsPage!Box!Starts, Renumber!SaveForm, EndsPage!Box!SaveForm
<1> QED
  BY <1>1, <1>2, <1>3, <1>4, <1>5, <1>6, <1>7, <1>8 DEF Renumber!Next, EndsPage!Box!Next,
     Renumber!Sync, EndsPage!Box!Sync, Renumber!Push, EndsPage!Box!Push, Renumber!User,
     EndsPage!Box!User

LEMMA SameRenumberProps ==
  /\ Renumber!TypeOK <=> EndsPage!Box!TypeOK
  /\ Keeps!RemovedStays <=> EndsPage!Box!RemovedStays
  /\ Overlap!ImagesKept <=> EndsPage!Box!ImagesKept
BY DEF Renumber!Listed, EndsPage!Box!Listed, Renumber!Messages, EndsPage!Box!Messages,
   Renumber!Rows, EndsPage!Box!Rows, Renumber!TypeOK, EndsPage!Box!TypeOK, Keeps!Listed,
   Keeps!RemovedStays, EndsPage!Box!RemovedStays, Overlap!ImagesKept, EndsPage!Box!ImagesKept

LEMMA RenumberAssumed == EndsPage!Box!InboxAssumption
BY MailAssumption DEF MailAssumption, Renumber!InboxAssumption, EndsPage!Box!InboxAssumption

RenumberSafe == part = "renumber" => EndsPage!BoxInv

LEMMA RenumberIsSafe ==
  Spec => [](part = "renumber" =>
               Renumber!TypeOK /\ Keeps!RemovedStays /\ Overlap!ImagesKept)
<1>1. Init => RenumberSafe
  BY InitIs, SameRenumber, RenumberAssumed, EndsPage!InitBox DEF RenumberSafe
<1>2. part \in Parts /\ RenumberSafe /\ [Next]_vars => RenumberSafe'
  <2> SUFFICES ASSUME part = "renumber", EndsPage!BoxInv, [Next]_vars
               PROVE  EndsPage!BoxInv'
    BY StepIs DEF RenumberSafe
  <2>1. [EndsPage!Box!Next]_(EndsPage!Box!vars)
    BY StepIs, SameRenumber DEF Parts, Inboxes, inbox, EndsPage!Box!vars, EndsPage!Box!ghosts
  <2> QED
    BY <2>1, RenumberAssumed, EndsPage!StepKeepsBox
<1>3. RenumberSafe => (part = "renumber" =>
               Renumber!TypeOK /\ Keeps!RemovedStays /\ Overlap!ImagesKept)
  BY SameRenumberProps, EndsPage!BoxIsSafe DEF RenumberSafe
<1> QED BY <1>1, <1>2, <1>3, PartIs, PTL DEF Spec

LEMMA SameEnds == (Ends!Init <=> EndsPage!Init) /\ (Ends!Next <=> EndsPage!Next)
BY DEF Ends!settings, EndsPage!settings, Ends!hist, EndsPage!hist, Ends!counts, EndsPage!counts,
   Ends!Versions, EndsPage!Versions, Ends!Init, EndsPage!Init, Ends!Put, EndsPage!Put,
   Ends!Captures, EndsPage!Captures, Ends!Recorded, EndsPage!Recorded, Ends!Snapshot,
   EndsPage!Snapshot, Ends!AutoSnapshot, EndsPage!AutoSnapshot, Ends!TimePasses,
   EndsPage!TimePasses, Ends!Preserved, EndsPage!Preserved, Ends!Restore, EndsPage!Restore,
   Ends!New, EndsPage!New, Ends!Type, EndsPage!Type, Ends!Load, EndsPage!Load, Ends!Count,
   EndsPage!Count, Ends!Presses, EndsPage!Presses, Ends!Call, EndsPage!Call, Ends!Starts,
   EndsPage!Starts, Ends!EarlySnapshot, EndsPage!EarlySnapshot, Ends!Press, EndsPage!Press,
   Ends!Confirm, EndsPage!Confirm, Ends!Deny, EndsPage!Deny, Ends!Elapses, EndsPage!Elapses,
   Ends!Expires, EndsPage!Expires, Ends!Cancel, EndsPage!Cancel, Ends!SendsLeaving,
   EndsPage!SendsLeaving, Ends!Leave, EndsPage!Leave, Ends!Return, EndsPage!Return,
   Ends!GivesBack, EndsPage!GivesBack, Ends!Ends, EndsPage!Ends, Ends!Arm, EndsPage!Arm,
   Ends!Armed, EndsPage!Armed, Ends!Quit, EndsPage!Quit, Ends!Next, EndsPage!Next, Ends!Min,
   EndsPage!Min

LEMMA SameEndsProps ==
  /\ Ends!TypeOK <=> EndsPage!TypeOK
  /\ Ends!NeverDropped <=> EndsPage!NeverDropped
  /\ Ends!SentIsRecoverable <=> EndsPage!SentIsRecoverable
  /\ Press!HandedOverOnce <=> EndsPage!HandedOverOnce
  /\ Press!RestoreIsUndoable <=> EndsPage!RestoreIsUndoable
  /\ Press!FailedComesBack <=> EndsPage!FailedComesBack
BY DEF Ends!Versions, EndsPage!Versions, Ends!TypeOK, EndsPage!TypeOK, Ends!NeverDropped,
   EndsPage!NeverDropped, Ends!SentIsRecoverable, EndsPage!SentIsRecoverable, Press!settings,
   EndsPage!settings, Press!counts, EndsPage!counts, Press!Versions, Press!Put, EndsPage!Put,
   Press!Captures, EndsPage!Captures, Press!Recorded, EndsPage!Recorded, Press!Preserved,
   EndsPage!Preserved, Press!Restore, EndsPage!Restore, Press!HandedOverOnce,
   EndsPage!HandedOverOnce, Press!RestoreIsUndoable, EndsPage!RestoreIsUndoable, Press!Failed,
   EndsPage!Failed, Press!FailedComesBack, EndsPage!FailedComesBack, Ends!Range, EndsPage!Range,
   Press!Range, Ends!Min, EndsPage!Min, Press!Min, Ends!BoundedSeq, EndsPage!BoundedSeq,
   Press!BoundedSeq, Ends!SeqOf, EndsPage!SeqOf, Press!SeqOf

LEMMA EndsAssumed == EndsPage!ComposeAssumption
BY MailAssumption DEF MailAssumption, Ends!ComposeAssumption, EndsPage!ComposeAssumption

EndsSafe ==
  part = "ends" => EndsPage!PressInv /\ EndsPage!HistoryHasSent /\ EndsPage!ScreenInv /\ quits = 0

LEMMA EndsIsSafe ==
  Spec => /\ [](part = "ends" =>
                  /\ Ends!TypeOK /\ Press!HandedOverOnce
                  /\ Ends!NeverDropped /\ Ends!SentIsRecoverable)
          /\ [][part = "ends" => Press!RestoreIsUndoable /\ Press!FailedComesBack]_vars
<1>1. Init => EndsSafe
  BY InitIs, SameEnds, EndsAssumed, EndsPage!InitPress, EndsPage!InitHistory, EndsPage!InitScreen
     DEF EndsSafe, Ends!Init
<1>2. part \in Parts /\ EndsSafe /\ [Next]_vars
        => EndsSafe' /\ (part = "ends" => Press!FailedComesBack)
  <2> SUFFICES ASSUME part = "ends", [Next]_vars, EndsPage!PressInv, EndsPage!HistoryHasSent,
                      EndsPage!ScreenInv, quits = 0
               PROVE  /\ EndsPage!PressInv' /\ EndsPage!HistoryHasSent' /\ EndsPage!ScreenInv'
                      /\ quits' = 0
                      /\ Press!FailedComesBack
    BY StepIs DEF EndsSafe
  <2>1. [EndsPage!Next]_(EndsPage!vars)
    BY StepIs, SameEnds DEF Parts, Screens, page, EndsPage!vars, EndsPage!hist, EndsPage!settings,
       EndsPage!counts
  <2> QED
    BY <2>1, EndsAssumed, SameEndsProps, EndsPage!StepKeeps, EndsPage!HistoryStep,
       EndsPage!ScreenStep, EndsPage!FailureGivesBack, EndsPage!StaysUp
<1>3. EndsSafe =>
        (part = "ends" =>
           Ends!TypeOK /\ Press!HandedOverOnce /\ Ends!NeverDropped /\ Ends!SentIsRecoverable)
  BY EndsAssumed, SameEndsProps, EndsPage!ScreenIsTyped, EndsPage!PressIsExact,
     EndsPage!HistoryHas DEF EndsSafe
<1>4. EndsSafe => (part = "ends" => Press!RestoreIsUndoable)
  BY EndsAssumed, SameEndsProps, EndsPage!RestoreKeeps DEF EndsSafe
<1> QED BY <1>1, <1>2, <1>3, <1>4, PartIs, PTL DEF Spec

-----------------------------------------------------------------------------
(* What is announced *)

NewsPage == INSTANCE MailPartsProofs WITH
  MaxQuits <- 0, mine <- wrote, choices <- mine,
  Mail <- {m1, m2}, Slots <- {s1}, Ruled <- {m1},
  Does <- {"mark", "tag", "restart"}, MaxActs <- 2, MaxFaults <- 0,
  Sockets <- Slots, WatchActs <- MaxActs, WatchFaults <- MaxFaults,
  Accounts <- {acc1}, Rotating <- {acc1}, Callers <- {t1, t2}, MaxTokens <- 3,
  GrantActs <- 1, GrantFaults <- 1

LEMMA SameNews == (News!Init <=> NewsPage!Box!Init) /\ (News!Next <=> NewsPage!Box!Next)
<1>1. News!Init <=> NewsPage!Box!Init
  BY DEF News!Empty, NewsPage!Box!Empty, News!NoKeys, NewsPage!Box!NoKeys, News!Old,
     NewsPage!Box!Old, News!Init, NewsPage!Box!Init
<1>2. ASSUME NEW s
      PROVE  /\ News!Poll(s) <=> NewsPage!Box!Poll(s)
             /\ News!SyncInbox(s) <=> NewsPage!Box!SyncInbox(s)
  BY DEF News!ghosts, NewsPage!Box!ghosts, News!Only, NewsPage!Box!Only, News!Owed,
     NewsPage!Box!Owed, News!Retries, NewsPage!Box!Retries, News!Starts, NewsPage!Box!Starts,
     News!Free, NewsPage!Box!Free, News!Poll, NewsPage!Box!Poll, News!Fetched,
     NewsPage!Box!Fetched, News!SyncInbox, NewsPage!Box!SyncInbox
<1>3. ASSUME NEW s
      PROVE  /\ News!Land(s) <=> NewsPage!Box!Land(s)
             /\ News!Fail(s) <=> NewsPage!Box!Fail(s)
  BY DEF News!ghosts, NewsPage!Box!ghosts, News!Only, NewsPage!Box!Only, News!Over,
     NewsPage!Box!Over, News!NoKeys, NewsPage!Box!NoKeys, News!Old, NewsPage!Box!Old, News!Faults,
     NewsPage!Box!Faults, News!MergeSeenFlags, NewsPage!Box!MergeSeenFlags, News!MergeRemoved,
     NewsPage!Box!MergeRemoved, News!Preferences, NewsPage!Box!Preferences,
     News!CarryArchivedKeys, NewsPage!Box!CarryArchivedKeys, News!UpsertInboxAccount,
     NewsPage!Box!UpsertInboxAccount, News!Baseline, NewsPage!Box!Baseline, News!Arrivals,
     NewsPage!Box!Arrivals, News!AutoTagged, NewsPage!Box!AutoTagged, News!Announce,
     NewsPage!Box!Announce, News!Land, NewsPage!Box!Land, News!WithError, NewsPage!Box!WithError,
     News!Fail, NewsPage!Box!Fail
<1>4. ASSUME NEW m
      PROVE  /\ News!InboxEvent(m) <=> NewsPage!Box!InboxEvent(m)
             /\ News!Tag(m) <=> NewsPage!Box!Tag(m)
             /\ News!RemoveMessage(m) <=> NewsPage!Box!RemoveMessage(m)
             /\ News!RestoreMessage(m) <=> NewsPage!Box!RestoreMessage(m)
             /\ News!Archive(m) <=> NewsPage!Box!Archive(m)
             /\ News!Unarchive(m) <=> NewsPage!Box!Unarchive(m)
             /\ News!Arrive(m) <=> NewsPage!Box!Arrive(m)
  BY DEF News!ghosts, NewsPage!Box!ghosts, News!Only, NewsPage!Box!Only, News!Over,
     NewsPage!Box!Over, News!Put, NewsPage!Box!Put, News!Listed, NewsPage!Box!Listed, News!Acts,
     NewsPage!Box!Acts, News!AtHand, NewsPage!Box!AtHand, News!Arrive, NewsPage!Box!Arrive,
     News!Owed, NewsPage!Box!Owed, News!Retries, NewsPage!Box!Retries, News!Starts,
     NewsPage!Box!Starts, News!Free, NewsPage!Box!Free, News!InboxEvent, NewsPage!Box!InboxEvent,
     News!Tag, NewsPage!Box!Tag, News!RemoveMessage, NewsPage!Box!RemoveMessage,
     News!RestoreMessage, NewsPage!Box!RestoreMessage, News!Archived, NewsPage!Box!Archived,
     News!Archive, NewsPage!Box!Archive, News!Unarchive, NewsPage!Box!Unarchive
<1>5. ASSUME NEW p
      PROVE  /\ News!Confirmed(p) <=> NewsPage!Box!Confirmed(p)
             /\ News!Refused(p) <=> NewsPage!Box!Refused(p)
  BY DEF News!ghosts, NewsPage!Box!ghosts, News!Only, NewsPage!Box!Only, News!Faults,
     NewsPage!Box!Faults, News!SetServerSeenFlag, NewsPage!Box!SetServerSeenFlag, News!Confirmed,
     NewsPage!Box!Confirmed, News!Refused, NewsPage!Box!Refused
<1>6. ASSUME NEW m, NEW seen
      PROVE  News!MarkRead(m, seen) <=> NewsPage!Box!MarkRead(m, seen)
  BY DEF News!Over, NewsPage!Box!Over, News!Put, NewsPage!Box!Put, News!Listed,
     NewsPage!Box!Listed, News!Acts, NewsPage!Box!Acts, News!AtHand, NewsPage!Box!AtHand,
     News!MarkRead, NewsPage!Box!MarkRead
<1>7. /\ News!ClearRemoved <=> NewsPage!Box!ClearRemoved
      /\ News!ChooseImages <=> NewsPage!Box!ChooseImages
      /\ News!OpenForm <=> NewsPage!Box!OpenForm
      /\ News!Renumber <=> NewsPage!Box!Renumber
      /\ News!Restart <=> NewsPage!Box!Restart
  BY DEF News!ghosts, NewsPage!Box!ghosts, News!Empty, NewsPage!Box!Empty, News!Only,
     NewsPage!Box!Only, News!Over, NewsPage!Box!Over, News!NoKeys, NewsPage!Box!NoKeys, News!Acts,
     NewsPage!Box!Acts, News!AtHand, NewsPage!Box!AtHand, News!MergeSeenFlags,
     NewsPage!Box!MergeSeenFlags, News!MergeRemoved, NewsPage!Box!MergeRemoved, News!Preferences,
     NewsPage!Box!Preferences, News!CarryArchivedKeys, NewsPage!Box!CarryArchivedKeys,
     News!UpsertInboxAccount, NewsPage!Box!UpsertInboxAccount, News!Renumber,
     NewsPage!Box!Renumber, News!ClearRemoved, NewsPage!Box!ClearRemoved, News!ChooseImages,
     NewsPage!Box!ChooseImages, News!OpenForm, NewsPage!Box!OpenForm, News!Restart,
     NewsPage!Box!Restart
<1>8. ASSUME NEW server
      PROVE  News!SaveForm(server) <=> NewsPage!Box!SaveForm(server)
  BY DEF News!Only, NewsPage!Box!Only, News!Over, NewsPage!Box!Over, News!NoKeys,
     NewsPage!Box!NoKeys, News!Acts, NewsPage!Box!Acts, News!MergeSeenFlags,
     NewsPage!Box!MergeSeenFlags, News!MergeRemoved, NewsPage!Box!MergeRemoved, News!Preferences,
     NewsPage!Box!Preferences, News!CarryArchivedKeys, NewsPage!Box!CarryArchivedKeys,
     News!UpsertInboxAccount, NewsPage!Box!UpsertInboxAccount, News!Owed, NewsPage!Box!Owed,
     News!Retries, NewsPage!Box!Retries, News!Starts, NewsPage!Box!Starts, News!SaveForm,
     NewsPage!Box!SaveForm
<1> QED
  BY <1>1, <1>2, <1>3, <1>4, <1>5, <1>6, <1>7, <1>8 DEF News!Next, NewsPage!Box!Next, News!Sync,
     NewsPage!Box!Sync, News!Push, NewsPage!Box!Push, News!User, NewsPage!Box!User

LEMMA SameNewsProps ==
  /\ News!TypeOK <=> NewsPage!Box!TypeOK
  /\ News!ToldOnce <=> NewsPage!Box!ToldOnce
  /\ News!ToldAll <=> NewsPage!Box!ToldAll
  /\ Keeps!RemovedStays <=> NewsPage!Box!RemovedStays
  /\ Overlap!ImagesKept <=> NewsPage!Box!ImagesKept
BY DEF News!Listed, NewsPage!Box!Listed, News!Messages, NewsPage!Box!Messages, News!Rows,
   NewsPage!Box!Rows, News!TypeOK, NewsPage!Box!TypeOK, News!ToldOnce, NewsPage!Box!ToldOnce,
   News!ToldAll, NewsPage!Box!ToldAll, Keeps!Listed, Keeps!RemovedStays,
   NewsPage!Box!RemovedStays, Overlap!ImagesKept, NewsPage!Box!ImagesKept

LEMMA NewsAssumed == NewsPage!Box!InboxAssumption /\ NewsPage!Announces
BY MailAssumption DEF MailAssumption, News!InboxAssumption, NewsPage!Box!InboxAssumption,
   NewsPage!Announces, NewsPage!OneSync

NewsSafe == part = "news" => NewsPage!BoxInv /\ NewsPage!NewsInv

LEMMA NewsIsSafe ==
  Spec => [](part = "news" =>
               /\ News!TypeOK /\ Keeps!RemovedStays /\ Overlap!ImagesKept
               /\ News!ToldOnce /\ News!ToldAll)
<1>1. Init => NewsSafe
  BY InitIs, SameNews, NewsAssumed, NewsPage!InitBox, NewsPage!InitNews DEF NewsSafe
<1>2. part \in Parts /\ NewsSafe /\ [Next]_vars => NewsSafe'
  <2> SUFFICES ASSUME part = "news", NewsPage!BoxInv, NewsPage!NewsInv, [Next]_vars
               PROVE  NewsPage!BoxInv' /\ NewsPage!NewsInv'
    BY StepIs DEF NewsSafe
  <2>1. [NewsPage!Box!Next]_(NewsPage!Box!vars)
    BY StepIs, SameNews DEF Parts, Inboxes, inbox, NewsPage!Box!vars, NewsPage!Box!ghosts
  <2> QED
    BY <2>1, NewsAssumed, NewsPage!StepKeepsBox, NewsPage!StepNews
<1>3. NewsSafe => (part = "news" =>
               /\ News!TypeOK /\ Keeps!RemovedStays /\ Overlap!ImagesKept
               /\ News!ToldOnce /\ News!ToldAll)
  BY SameNewsProps, NewsPage!BoxIsSafe, NewsPage!NewsAreTold DEF NewsSafe
<1> QED BY <1>1, <1>2, <1>3, PartIs, PTL DEF Spec

-----------------------------------------------------------------------------
(* The composition *)

\* A watcher that was stopped waits for nothing and starts no attempt, whatever comes back to
\* it (imapIdle.ts, stop), and whatever else moves.
THEOREM StoppedStaysStopped == Spec => StoppedStartsNothing
BY WatchIsSafe, PTL DEF StoppedStartsNothing

\* No press of Send hands the message over twice, also across a quit; while the program
\* runs none is dropped, and until it is delivered its draft can be had again
\* (ComposeView.tsx, pendingSendRef, its timer and doSend's snapshot).
THEOREM SendsAreExact == Spec => []SendIsExact
<1>1. /\ part \in Parts
      /\ part = "press" => Press!HandedOverOnce /\ Press!NeverDropped /\ Press!SentIsRecoverable
      /\ part = "quit" => Press!HandedOverOnce
      /\ part = "ends" => Press!HandedOverOnce /\ Ends!NeverDropped /\ Ends!SentIsRecoverable
      /\ part \notin Screens => Press!HandedOverOnce
      => SendIsExact
  BY DEF SendIsExact, In, Screens
<1> QED BY <1>1, PartIs, PressIsSafe, QuitIsSafe, EndsIsSafe, FormIsQuiet, PTL

\* Restoring a version of the draft keeps the one it replaces, and a send that failed for
\* good while the screen was open is on the form again (restoreSnapshot, sendDraftNow).
THEOREM DraftsComeBack == Spec => DraftComesBack
<1> DEFINE back == Press!RestoreIsUndoable /\ Press!FailedComesBack
<1>1. /\ part = "press" => back
      /\ part = "quit" => back
      /\ part = "ends" => back
      /\ part \notin Screens => back
      => back
  BY DEF Screens
<1> QED BY <1>1, PressIsSafe, QuitIsSafe, EndsIsSafe, FormIsQuiet, PTL DEF DraftComesBack

\* What the user did to a mailbox survives every sync that began before it: removed mail
\* stays removed, the switch for remote images keeps its place, and where syncs do not
\* overlap read mail stays read (inboxRemoval.ts, mergeSeenFlags).
THEOREM ChoicesAreKept == Spec => []ChoicesStay
<1> DEFINE stays == Keeps!RemovedStays /\ Overlap!ImagesKept
<1>1. /\ part = "keeps" => stays /\ Keeps!ReadStays
      /\ part = "overlap" => stays
      /\ part = "renumber" => stays
      /\ part = "news" => stays
      /\ part \notin Inboxes => stays
      => ChoicesStay
  BY DEF ChoicesStay, In, Inboxes
<1> QED BY <1>1, KeepsIsSafe, OverlapIsSafe, RenumberIsSafe, NewsIsSafe, BoxIsQuiet, PTL

\* What arrives after the first sync is announced when it is listed, and once, restarts
\* included (seenInboxIds, restoredBaseline).
THEOREM AnnouncedIsOnce == Spec => []AnnouncedOnce
<1>1. (part = "news" => News!ToldOnce /\ News!ToldAll) => AnnouncedOnce
  BY DEF AnnouncedOnce, In
<1> QED BY <1>1, NewsIsSafe, PTL

\* The part that moves has its types; a watcher does one thing at a time; rotation leaves no
\* token that lapses in the file, also where two accounts share it, and no call joins a refresh
\* that has ended.
THEOREM MailIsSound == Spec => []MailInv
<1>1. /\ part \in Parts
      /\ part = "keeps" => Keeps!TypeOK
      /\ part = "overlap" => Overlap!TypeOK
      /\ part = "renumber" => Renumber!TypeOK
      /\ part = "news" => News!TypeOK
      /\ part = "watch" => Watch!TypeOK /\ Watch!OneAtATime
      /\ part = "rotate" => Rotate!TypeOK /\ Rotate!GrantSurvives /\ Rotate!JoinsOnlyTheLiving
      /\ part = "share" => Share!TypeOK /\ Share!GrantSurvives
      /\ part = "press" => Press!TypeOK
      /\ part = "quit" => Quit!TypeOK
      /\ part = "ends" => Ends!TypeOK
      => MailInv
  BY DEF MailInv, In, Parts, Inboxes, Screens
<1> QED
  BY <1>1, PartIs, KeepsIsSafe, OverlapIsSafe, RenumberIsSafe, NewsIsSafe, WatchIsSafe,
     RotateIsSafe, ShareIsSafe, PressIsSafe, QuitIsSafe, EndsIsSafe, PTL
===============================================================================
