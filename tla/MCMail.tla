------------------------------- MODULE MCMail -------------------------------
(***************************************************************************)
(* What TLC checks about mail: the inbox, the IDLE connections that wake   *)
(* it, the OAuth grants an account signs in with, and the compose screen.  *)
(* They meet only through calls that each module models as events of its   *)
(* own, so they are not multiplied with each other: `part` says which of   *)
(* them moves, in which small setting, and the others rest where they      *)
(* began.  The settings of "watch" and of "press" are constants, which     *)
(* MailProofs leaves open.                                                 *)
(***************************************************************************)
EXTENDS Naturals

CONSTANTS
  m1, m2, s1, s2, s3, w1, w2, acc1, acc2, t1, t2, None,
  Watchers, Slots, Rungs, MaxActs, MaxFaults,  \* of "watch"
  MaxVersions, MaxPresses, MaxLeaves, Cap      \* of "press"

VARIABLES
  part,
  srv, row, held, form, queue, pushes, syncs, busy, base, rang, mine, told,  \* Inbox
  account, calls, pool, watcher, slot, quit,                                 \* InboxIdle
  file, task, inFlight, cache, rejected, accepts, retired, issued,           \* Credentials
  stored, refused, forgotten, disturbed,
  draft, snaps, recent, keeps, undoable, mounted, asking, pending, sends,    \* Compose
  arming, sending, done, kept, wrote, over, versions, leaves, quits,
  acts, faults

inbox == <<srv, row, held, form, queue, pushes, syncs, busy, base, rang, mine, told>>
idle  == <<account, calls, pool, watcher, slot, quit>>
oauth == <<file, task, inFlight, cache, rejected, accepts, retired, issued,
           stored, refused, forgotten, disturbed>>
page == <<draft, snaps, recent, keeps, undoable, mounted, asking, pending, sends,
           arming, sending, done, kept, wrote, over, versions, leaves, quits>>
vars  == <<part, inbox, idle, oauth, page, acts, faults>>

\* One sync at a time, over two messages.
Keeps == INSTANCE Inbox WITH
  Mail <- {m1, m2}, Slots <- {s1}, Ruled <- {},
  Does <- {"mark", "bin", "settings", "restart"}, MaxActs <- 2, MaxFaults <- 0

\* A second sync begins while the first is still out.
Overlap == INSTANCE Inbox WITH
  Mail <- {m1}, Slots <- {s1, s2}, Ruled <- {},
  Does <- {"bin", "images", "empty"}, MaxActs <- 3, MaxFaults <- 1

\* The server gives its messages new numbers.
Renumber == INSTANCE Inbox WITH
  Mail <- {m1}, Slots <- {s1, s2}, Ruled <- {},
  Does <- {"bin", "renumber", "empty", "archive"}, MaxActs <- 2, MaxFaults <- 1

\* What is announced and tagged, restarts included.
News == INSTANCE Inbox WITH
  Mail <- {m1, m2}, Slots <- {s1}, Ruled <- {m1},
  Does <- {"mark", "tag", "restart"}, MaxActs <- 2, MaxFaults <- 0

\* What a sync under fairness brings.
Brings == INSTANCE Inbox WITH
  Mail <- {m1}, Slots <- {s1, s2}, Ruled <- {},
  Does <- {"mark", "settings", "bin"}, MaxActs <- 1, MaxFaults <- 1

\* Two watchers, of which the second replaces the first.
Watch == INSTANCE InboxIdle

\* The same under fairness.
Heal == INSTANCE InboxIdle WITH
  Watchers <- {w1, w2}, Slots <- {s1, s2, s3}, Rungs <- 2, MaxActs <- 1, MaxFaults <- 1

\* One account whose provider rotates its refresh tokens.
Rotate == INSTANCE Credentials WITH
  Accounts <- {acc1}, Rotating <- {acc1}, Tasks <- {t1, t2},
  MaxTokens <- 3, MaxActs <- 1, MaxFaults <- 1

\* The same under fairness, with one rotation.
Renew == INSTANCE Credentials WITH
  Accounts <- {acc1}, Rotating <- {acc1}, Tasks <- {t1, t2},
  MaxTokens <- 2, MaxActs <- 1, MaxFaults <- 1

\* Two accounts in one file, one of them of such a provider.
Share == INSTANCE Credentials WITH
  Accounts <- {acc1, acc2}, Rotating <- {acc1}, Tasks <- {t1, t2},
  MaxTokens <- 2, MaxActs <- 1, MaxFaults <- 1

\* Two presses of Send.
Press == INSTANCE Compose WITH
  MaxQuits <- 0, mine <- wrote

\* The screen is left, and the program quits, in the middle.
Quit == INSTANCE Compose WITH
  MaxPresses <- 1, MaxLeaves <- 1, MaxQuits <- 1, mine <- wrote

\* One press, and the screen is left; under fairness too.
Ends == INSTANCE Compose WITH
  MaxPresses <- 1, MaxLeaves <- 1, MaxQuits <- 0, mine <- wrote

ASSUME MailAssumption ==
  /\ Keeps!InboxAssumption /\ Overlap!InboxAssumption /\ News!InboxAssumption
  /\ Renumber!InboxAssumption /\ Renew!CredentialsAssumption
  /\ Brings!InboxAssumption /\ Watch!InboxIdleAssumption /\ Heal!InboxIdleAssumption
  /\ Rotate!CredentialsAssumption /\ Share!CredentialsAssumption
  /\ Press!ComposeAssumption /\ Quit!ComposeAssumption /\ Ends!ComposeAssumption

-----------------------------------------------------------------------------

In(p) == part = p

InboxRests == Brings!Init /\ srv.box = {} /\ ~row.synced
IdleRests  == Watch!Init /\ ~account.grant
OauthRests == Rotate!Init
PageRests  == Press!Init /\ keeps /\ undoable

InboxMoves(p) == In(p) /\ IdleRests /\ OauthRests /\ PageRests
IdleMoves(p)  == In(p) /\ InboxRests /\ OauthRests /\ PageRests
OauthMoves(p) == In(p) /\ InboxRests /\ IdleRests /\ PageRests
PageMoves(p)  == In(p) /\ InboxRests /\ IdleRests /\ OauthRests

Init ==
  \/ InboxMoves("keeps")   /\ Keeps!Init
  \/ InboxMoves("overlap") /\ Overlap!Init
  \/ InboxMoves("renumber") /\ Renumber!Init
  \/ InboxMoves("news")    /\ News!Init
  \/ IdleMoves("watch")    /\ Watch!Init
  \/ OauthMoves("rotate")  /\ Rotate!Init
  \/ OauthMoves("share")   /\ Share!Init
  \/ PageMoves("press")    /\ Press!Init
  \/ PageMoves("quit")     /\ Quit!Init
  \/ PageMoves("ends")     /\ Ends!Init

LiveInit ==
  \/ InboxMoves("brings")  /\ Brings!Init
  \/ IdleMoves("heal")     /\ Heal!Init
  \/ OauthMoves("renew")   /\ Renew!Init
  \/ PageMoves("ends")     /\ Ends!Init

InboxNext ==
  \/ In("keeps")   /\ Keeps!Next
  \/ In("overlap") /\ Overlap!Next
  \/ In("renumber") /\ Renumber!Next
  \/ In("news")    /\ News!Next
  \/ In("brings")  /\ Brings!Next

IdleNext ==
  \/ In("watch") /\ Watch!Next
  \/ In("heal")  /\ Heal!Next

OauthNext ==
  \/ In("rotate") /\ Rotate!Next
  \/ In("renew")  /\ Renew!Next
  \/ In("share")  /\ Share!Next

PageNext ==
  \/ In("press") /\ Press!Next
  \/ In("quit")  /\ Quit!Next
  \/ In("ends")  /\ Ends!Next

Next ==
  \/ InboxNext /\ UNCHANGED <<part, idle, oauth, page>>
  \/ IdleNext  /\ UNCHANGED <<part, inbox, oauth, page>>
  \/ OauthNext /\ UNCHANGED <<part, inbox, idle, page>>
  \/ PageNext  /\ UNCHANGED <<part, inbox, idle, oauth, acts, faults>>

Spec == Init /\ [][Next]_vars

inboxVars == Brings!vars
idleVars  == Heal!vars
oauthVars == Renew!vars
pageVars  == Ends!vars

\* The timer polls, what is sent is answered or fails, and what came back lands.
InboxFairness ==
  /\ WF_inboxVars(In("brings") /\ \E s \in {s1, s2} : Brings!Poll(s))
  /\ \A s \in {s1, s2} : /\ WF_inboxVars(In("brings") /\ Brings!SyncInbox(s))
                         /\ WF_inboxVars(In("brings") /\ Brings!Land(s))
  /\ WF_inboxVars(In("brings") /\ \E p \in pushes : Brings!Confirmed(p))

\* Calls are handled, timers fire, attempts come to an end and sockets that
\* are let go close.
IdleFairness ==
  /\ WF_idleVars(In("heal") /\ \E i \in DOMAIN calls : Heal!Gather(i) \/ Heal!Reconcile(i))
  /\ \A w \in {w1, w2} : WF_idleVars(In("heal") /\ Heal!Reconnect(w))
  /\ \A s \in {s1, s2, s3} :
       /\ WF_idleVars(In("heal") /\ Heal!Connect(s))
       /\ WF_idleVars(In("heal") /\ Heal!At(s, "leaving") /\ Heal!Drop(s))

\* Calls run to their end, and mail goes on being fetched and sent.
OauthFairness ==
  /\ \A t \in {t1, t2} : WF_oauthVars(In("renew") /\ Renew!TaskStep(t))
  /\ WF_oauthVars(In("renew") /\ \E t \in {t1, t2} : Renew!Asks(t, acc1))

\* The countdown runs to its end and the mail layer answers each call.
PageFairness ==
  /\ WF_pageVars(In("ends") /\ Ends!Expires)
  /\ \A v \in {1, 2} : WF_pageVars(In("ends") /\ \E s \in sends : s.of = v /\ Ends!Ends(s))

LiveSpec ==
  LiveInit /\ [][Next]_vars /\ InboxFairness /\ IdleFairness /\ OauthFairness /\ PageFairness

-----------------------------------------------------------------------------
(* Properties, each of their parts stated and explained in its own module *)

\* Every variable of the part that moves has its type; a watcher is connected, or
\* connects, or waits to; rotation leaves no token that lapses in the file, also
\* where two accounts share it; and no call joins a refresh that has ended.
MailInv ==
  CASE In("keeps")    -> Keeps!TypeOK
    [] In("overlap")  -> Overlap!TypeOK
    [] In("renumber") -> Renumber!TypeOK
    [] In("news")     -> News!TypeOK
    [] In("watch")    -> Watch!TypeOK /\ Watch!OneAtATime
    [] In("rotate")   -> Rotate!TypeOK /\ Rotate!GrantSurvives /\ Rotate!JoinsOnlyTheLiving
    [] In("share")    -> Share!TypeOK /\ Share!GrantSurvives
    [] In("press")    -> Press!TypeOK
    [] In("quit")     -> Quit!TypeOK
    [] In("ends")     -> Ends!TypeOK

\* What the user did to a mailbox survives every sync that began before it: removed
\* mail stays removed and the switch for remote images keeps its place, also where
\* syncs overlap; read mail stays read where they do not (inboxRemoval.ts,
\* mergeSeenFlags).
ChoicesStay ==
  /\ Keeps!RemovedStays /\ Overlap!ImagesKept
  /\ (In("keeps") => Keeps!ReadStays)

\* What arrives after the first sync is announced when it is listed, and once,
\* restarts included (seenInboxIds).
AnnouncedOnce == In("news") => News!ToldOnce /\ News!ToldAll

\* No press of Send hands the message over twice, also across a quit; while the
\* program runs a pressed message is handed over, taken back or on its way, and
\* until it is delivered its draft can be had again.
SendIsExact ==
  /\ Press!HandedOverOnce
  /\ (In("press") => Press!NeverDropped /\ Press!SentIsRecoverable)
  /\ (In("ends") => Ends!NeverDropped /\ Ends!SentIsRecoverable)

\* Restoring a version of the draft keeps the one it replaces, and a send that
\* failed for good while the screen was open is on the form again.
DraftComesBack == [][Press!RestoreIsUndoable /\ Press!FailedComesBack]_vars

\* A watcher that was stopped starts nothing, whatever still comes back to it.
StoppedStartsNothing == [][Watch!StoppedStartsNothing]_vars

\* Mail that arrived is listed in the end, or in the recycle bin.
ListedInTheEnd == In("brings") => Brings!ListedInTheEnd

\* An account with a password that wants push gets it back after every failure.
PushComesBack == In("heal") => Heal!PushComesBack

\* A grant that works does not stay marked as refused; a countdown ends, and so does
\* the call it makes, on whatever screen the user is.
SettlesInTheEnd ==
  /\ (In("renew") => Renew!RejectionHeals)
  /\ (In("ends") => Ends!PressEnds)
=============================================================================
