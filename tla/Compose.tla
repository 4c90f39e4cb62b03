------------------------------- MODULE Compose -------------------------------
(***************************************************************************)
(* The compose screen: the draft, its history and the window in which a    *)
(* send can be taken back.  From src/views/ComposeView.tsx,                *)
(* src/state/services/draftReducer.ts, src/core/sync/snapshots.ts and the  *)
(* places that load a draft (templates, replies, a repeated reminder).     *)
(*                                                                         *)
(* A draft is a version of what is written: every edit makes a new one, 0  *)
(* is the empty form.  `over` remembers the versions of the user that the  *)
(* program, and not the user, took off the form.                           *)
(*                                                                         *)
(* The card shown before a send (preflight) is left out: it comes before   *)
(* doSend.  So are mail merge, the fields of a reminder, and emptying the   *)
(* history by hand.                                                        *)
(*                                                                         *)
(* Bounds of the model: MaxVersions, MaxPresses (of Send), MaxLeaves (of   *)
(* the screen), MaxQuits, Cap (SNAPSHOT_CAP).                              *)
(***************************************************************************)
EXTENDS Integers, FiniteSets, Sequences, SequencesExt

CONSTANTS MaxVersions, MaxPresses, MaxLeaves, MaxQuits, Cap

ComposeAssumption ==
  {MaxVersions, MaxPresses, MaxLeaves, MaxQuits, Cap} \subseteq Nat /\ Cap > 0

VARIABLES
  draft,     \* state.draft
  snaps,     \* state.draftSnapshots, newest first
  recent,    \* the newest is younger than MIN_GAP_MS
  keeps, undoable,  \* the settings: a history of drafts, a window to take a send back
  mounted,   \* the compose screen is shown
  asking,    \* the bulk confirmation is open for this draft
  pending,   \* pendingSendRef: the draft of the countdown
  sends,     \* the calls of sendDraftNow under way
  arming,    \* the draft whose reminder is being saved
  sending,   \* the flag that disables the button
  done,      \* per version: pressed, handed to the mail layer, taken back
  kept,      \* sent, queued in the outbox or in a reminder
  mine, over, versions, leaves, quits

settings == <<keeps, undoable>>
hist     == <<snaps, recent>>
counts   == <<leaves, quits>>
vars     == <<draft, hist, settings, mounted, asking, pending, sends, arming, sending, done, kept,
              mine, over, versions, counts>>

Versions == 1..MaxVersions

Init ==
  /\ draft = 0 /\ snaps = <<>> /\ recent = FALSE /\ keeps \in BOOLEAN /\ undoable \in BOOLEAN
  /\ mounted = TRUE /\ asking = 0 /\ pending = 0 /\ sends = {} /\ arming = 0 /\ sending = FALSE
  /\ done = [v \in Versions |-> [pressed |-> 0, handed |-> 0, back |-> 0]]
  /\ kept = {} /\ mine = {} /\ over = {} /\ versions = 0 /\ leaves = 0 /\ quits = 0

\* The program puts d on the form; what it replaces is noted, and so is a form that is emptied.
Put(d) == draft' = d /\ over' = over \cup ((mine \cap {draft}) \ {d})

-----------------------------------------------------------------------------
(* The history *)

\* captureSnapshot(): empty and unchanged drafts are not recorded, nor auto ones too soon.
Captures(auto) ==
  /\ draft # 0 /\ (snaps # <<>> => Head(snaps) # draft) /\ ~(auto /\ snaps # <<>> /\ recent)

Recorded == SubSeq(<<draft>> \o snaps, 1, Min({Len(snaps) + 1, Cap}))

\* snapshotDraft
Snapshot(auto) ==
  IF keeps /\ Captures(auto) THEN snaps' = Recorded /\ recent' = TRUE ELSE UNCHANGED hist

AutoSnapshot ==
  /\ keeps /\ Captures(TRUE) /\ Snapshot(TRUE)
  /\ UNCHANGED <<draft, settings, mounted, asking, pending, sends, arming, sending, done, kept,
                 mine, over, versions, counts>>

TimePasses ==
  /\ recent /\ recent' = FALSE
  /\ UNCHANGED <<draft, snaps, settings, mounted, asking, pending, sends, arming, sending, done,
                 kept, mine, over, versions, counts>>

Preserved == IF Captures(FALSE) THEN Recorded ELSE snaps

\* restoreSnapshot: it records what it replaces, whatever the setting.
Restore(i) ==
  /\ mounted /\ asking = 0 /\ Put(snaps[i]) /\ snaps' = Preserved /\ recent' = (recent \/ snaps' # snaps)
  /\ UNCHANGED <<settings, mounted, asking, pending, sends, arming, sending, done, kept, mine,
                 versions, counts>>

-----------------------------------------------------------------------------
(* Writing *)

New == versions < MaxVersions /\ versions' = versions + 1

Type ==
  /\ mounted /\ asking = 0 /\ New /\ draft' = versions' /\ mine' = mine \cup {versions'}
  /\ UNCHANGED <<hist, settings, mounted, asking, pending, sends, arming, sending, done, kept,
                 over, counts>>

\* A template, a reply, a reminder to repeat, something shared: setDraft with what it brings.
Load ==
  /\ asking = 0 /\ New /\ Put(versions') /\ mounted' = TRUE
  /\ UNCHANGED <<hist, settings, asking, pending, sends, arming, sending, done, kept, mine, counts>>

-----------------------------------------------------------------------------
(* Sending *)

Count(v, what) == done' = [done EXCEPT ![v][what] = @ + 1]
Presses(v) == done[v].pressed < MaxPresses /\ Count(v, "pressed")

\* A call of sendDraftNow: for which draft and press, whether the form was cleared before it, whether
\* performSend waits for its answer, and whether the screen that made it is still shown.
Call(d, cleared) ==
  [of |-> d, nth |-> done[d].handed, cleared |-> cleared, form |-> TRUE, here |-> TRUE]

\* performSend, and startUndoWindow, which first lets a running countdown go.
Starts(d) ==
  \/ undoable /\ Put(0) /\ pending' = d
     /\ IF pending = 0 THEN UNCHANGED <<sends, done, sending>>
        ELSE sends' = sends \cup {Call(pending, TRUE)} /\ Count(pending, "handed") /\ sending' = TRUE
  \/ ~undoable /\ sends' = sends \cup {Call(d, FALSE)} /\ Count(d, "handed") /\ sending' = TRUE
     /\ UNCHANGED <<draft, over, pending>>

EarlySnapshot == Snapshot(FALSE)

\* doSend up to its confirmation; the button waits for a send in progress.
Press ==
  /\ mounted /\ asking = 0 /\ draft # 0 /\ ~sending /\ Presses(draft)
  /\ EarlySnapshot /\ asking' = draft
  /\ UNCHANGED <<draft, settings, mounted, pending, sends, arming, sending, kept, mine, over,
                 versions, counts>>

\* The rest of doSend, with the draft as it was: confirmed, or no confirmation was needed.
Confirm ==
  /\ asking # 0 /\ Starts(asking) /\ asking' = 0
  /\ UNCHANGED <<hist, settings, mounted, arming, kept, mine, versions, counts>>

Deny ==
  /\ asking # 0 /\ asking' = 0 /\ Count(asking, "back")
  /\ UNCHANGED <<draft, hist, settings, mounted, pending, sends, arming, sending, kept, mine, over,
                 versions, counts>>

Elapses == pending' = 0

\* The last tick of the countdown.
Expires ==
  /\ pending # 0 /\ Elapses /\ sending' = TRUE
  /\ sends' = sends \cup {Call(pending, TRUE)} /\ Count(pending, "handed")
  /\ UNCHANGED <<draft, hist, settings, mounted, asking, arming, kept, mine, over, versions, counts>>

\* cancelPendingSend
Cancel ==
  /\ pending # 0 /\ asking = 0 /\ Put(pending) /\ pending' = 0 /\ Count(pending, "back")
  /\ UNCHANGED <<hist, settings, mounted, asking, sends, arming, sending, kept, mine, versions,
                 counts>>

SendsLeavingBug == UNCHANGED <<sends, done>>
SendsLeaving ==
  LET left == {[s EXCEPT !.here = FALSE] : s \in sends} IN
  IF pending = 0 THEN sends' = left /\ UNCHANGED done
  ELSE /\ sends' = left \cup {[Call(pending, TRUE) EXCEPT !.form = FALSE, !.here = FALSE]}
       /\ Count(pending, "handed")

\* The cleanup of the screen: what is counting down is sent at once.
Leave ==
  /\ mounted /\ asking = 0 /\ leaves < MaxLeaves /\ leaves' = leaves + 1
  /\ mounted' = FALSE /\ pending' = 0 /\ SendsLeaving /\ sending' = FALSE
  /\ UNCHANGED <<draft, hist, settings, asking, arming, kept, mine, over, versions, quits>>

Return ==
  /\ ~mounted /\ mounted' = TRUE
  /\ UNCHANGED <<draft, hist, settings, asking, pending, sends, arming, sending, done, kept, mine,
                 over, versions, counts>>

GivesBackBug(s) == UNCHANGED <<draft, over>>
GivesBack(s) == IF s.cleared /\ s.form THEN Put(s.of) ELSE UNCHANGED <<draft, over>>

\* The answer of sendDraftNow: sent, queued, or failed for good.
Ends(s) ==
  /\ sends' = sends \ {s} /\ sending' = (sending /\ ~s.here)
  /\ \/ kept' = kept \cup {s.of} /\ (IF s.cleared THEN UNCHANGED <<draft, over>> ELSE Put(0))
     \/ UNCHANGED kept /\ GivesBack(s)
  /\ UNCHANGED <<hist, settings, mounted, asking, pending, arming, done, mine, versions, counts>>

\* confirmSchedule, and what follows once the reminder is saved.
Arm ==
  /\ mounted /\ asking = 0 /\ draft # 0 /\ arming = 0 /\ ~sending /\ arming' = draft
  /\ UNCHANGED <<draft, hist, settings, mounted, asking, pending, sends, sending, done, kept, mine,
                 over, versions, counts>>

Armed ==
  /\ arming # 0 /\ arming' = 0 /\ kept' = kept \cup {arming} /\ Put(0)
  /\ UNCHANGED <<hist, settings, mounted, asking, pending, sends, sending, done, mine, versions,
                 counts>>

\* The app ends and is started again: the state was saved, a send may have got through; a question
\* left open is answered with no.
Quit ==
  /\ quits < MaxQuits /\ quits' = quits + 1 /\ pending' = 0 /\ asking' = 0 /\ sends' = {}
  /\ arming' = 0 /\ sending' = FALSE /\ mounted' = TRUE /\ recent' = FALSE
  /\ \E got \in SUBSET {s.of : s \in sends} : kept' = kept \cup got
  /\ IF asking = 0 THEN UNCHANGED done ELSE Count(asking, "back")
  /\ UNCHANGED <<draft, snaps, settings, mine, over, versions, leaves>>

-----------------------------------------------------------------------------
Next ==
  \/ AutoSnapshot \/ TimePasses \/ Type \/ Load \/ Press \/ Confirm \/ Deny \/ Expires \/ Cancel
  \/ Leave \/ Return \/ Arm \/ Armed \/ Quit
  \/ \E i \in DOMAIN snaps : Restore(i)
  \/ \E s \in sends : Ends(s)

Spec == Init /\ [][Next]_vars

-----------------------------------------------------------------------------
TypeOK ==
  /\ {draft, asking, pending, arming} \subseteq 0..versions /\ versions \in 0..MaxVersions
  /\ snaps \in BoundedSeq(Versions, Cap) /\ {recent, keeps, undoable, mounted, sending} \subseteq BOOLEAN
  /\ \A s \in sends : s.of \in 1..versions /\ s.nth < done[s.of].handed /\ (s.here => s.form /\ mounted)
  /\ mine \cup over \cup kept \subseteq 1..versions
  /\ \A v \in Versions : done[v].pressed \in 0..MaxPresses

\* A press of Send is handed to the mail layer once, by the countdown, a second press, the screen
\* that closes or at once (each of them clears the timer of the others).
HandedOverOnce == \A v \in Versions : done[v].handed + done[v].back <= done[v].pressed

\* "A pressed Send that silently never happens is the one outcome this screen must never produce":
\* a press is handed over, taken back, or still on its way.
NeverDropped ==
  \A v \in Versions :
    done[v].pressed <= done[v].handed + done[v].back
                         + (IF pending = v THEN 1 ELSE 0) + (IF asking = v THEN 1 ELSE 0)

\* The history has what was sent, until it is on the form, on its way or delivered
\* (doSend's snapshot before the form is cleared).
SentIsRecoverable ==
  \A v \in Versions : keeps /\ done[v].pressed > 0 =>
    \/ Len(snaps) = Cap
    \/ v \in kept \cup {draft, pending} \cup {s.of : s \in sends} \cup Range(snaps)

\* Restoring a version keeps the one it replaces ("restore" is itself undoable).
RestoreIsUndoable ==
  \A i \in DOMAIN snaps : Restore(i) => draft \in {0, draft'} \cup Range(snaps')

Failed(s) ==
  /\ \A u \in sends' : u.of # s.of \/ u.nth # s.nth
  /\ s.cleared /\ s.of \notin kept /\ kept' = kept /\ quits' = quits

\* A send that failed for good while the screen was open is on the form again.
FailedComesBack ==
  \A s \in sends : s.form /\ Failed(s) => draft' = s.of

\* A countdown comes to an end of its own: its draft was handed over or taken back, and no call of
\* it is left without an answer, on whatever screen the user is by then.
PressEnds ==
  \A v \in Versions :
    pending = v ~> /\ done[v].handed + done[v].back = done[v].pressed
                   /\ \A s \in sends : s.of # v

-----------------------------------------------------------------------------
(* What the code and its texts say, and the runs show to be otherwise *)

Somewhere == kept \cup {draft, pending, asking, arming} \cup {s.of : s \in sends} \cup Range(snaps)

\* "Versions are kept automatically while you write, and before anything that would clear the form."
KeptBeforeClearing == keeps => over \subseteq Somewhere

\* "The form clears immediately ... so the countdown never races the next draft".
CancelSparesNext ==
  [][Cancel => draft \in {0, pending} \cup Range(snaps) \cup (Versions \ mine)]_vars

\* "A hard failure has to put the captured draft back".
HardFailureGivesBack ==
  [][\A s \in sends : Failed(s) => draft' = s.of]_vars
=============================================================================
