----------------------------- MODULE StateStore ------------------------------
(***************************************************************************)
(* How the application state reaches state.json: the renderer's debounced  *)
(* save with its retry and its flush (src/state/AppState.tsx), the one-slot *)
(* write queue of the main process (electron/store.ts) and the quit that   *)
(* waits for it (before-quit in electron/main.ts).                         *)
(*                                                                         *)
(* A document is its version: `live` counts the renderer's states.  One    *)
(* process life is modelled: version 0 is what the life before left on     *)
(* disk, the first edit is the hydration, later ones are the user's.       *)
(* writeAtomic() replaces the file or leaves it as it was.                 *)
(*                                                                         *)
(* Bounds of the model, none of the code's: MaxEdits, MaxHides (times the  *)
(* window is hidden) and MaxFaults (writes that fail).  Operators whose    *)
(* names end in Bug are plausible faults of the definition below them.     *)
(***************************************************************************)
EXTENDS Integers, Sequences

CONSTANTS
  MaxRounds,    \* MAX_QUIT_FLUSH_ROUNDS
  MaxEdits, MaxHides, MaxFaults

ASSUME StoreAssumption == {MaxRounds, MaxEdits, MaxHides, MaxFaults} \subseteq Nat

VARIABLES
  live,        \* liveRef: the version on screen
  timer,       \* is the debounce running?
  lastSaved,   \* lastSaved.current
  token,       \* saveToken.current
  retries,     \* failed saves waiting SAVE_RETRY_DELAY
  failing,     \* saveFailing, shown on the health strip
  requests,    \* saveState calls on their way to the main process
  answers,     \* settled saveState promises on their way back
  queued,      \* queuedWrite
  writing,     \* the write in flight
  loop,        \* writeLoop # null
  disk,        \* state.json
  phase,       \* "running", "flushing" (a deferred quit), "closing",
               \* "unloaded" (the window is gone), "exited", "killed"
  rounds,      \* quitFlushRounds
  handed,      \* the newest version the main process got before the windows closed
  hides, faults

rendererVars == <<live, timer, lastSaved, token, retries, failing>>
queueVars    == <<queued, writing, loop, disk>>
quitVars     == <<phase, rounds>>
boundVars    == <<hides, faults>>
vars == <<rendererVars, requests, answers, queueVars, quitVars, handed, boundVars>>

Call    == [kind : {"save", "retry", "flush"}, version : Nat, attempt : Nat]
Answer  == [call : Call, ok : BOOLEAN]
Write   == [version : Nat, waiters : SUBSET Call]
NoWrite == [version |-> 0, waiters |-> {}]

Open == phase \in {"running", "flushing"}   \* the window is there
Up   == phase \notin {"exited", "killed"}   \* the main process is there

Init ==
  /\ live = 0 /\ timer = FALSE /\ lastSaved = 0 /\ token = 0
  /\ retries = {} /\ failing = FALSE
  /\ requests = <<>> /\ answers = {}
  /\ queued = NoWrite /\ writing = NoWrite /\ loop = FALSE /\ disk = 0
  /\ phase = "running" /\ rounds = 0 /\ handed = 0
  /\ hides = 0 /\ faults = 0

-----------------------------------------------------------------------------
(* The renderer. *)

\* Any change of the state restarts the debounce.
Edit ==
  /\ Open /\ live < MaxEdits
  /\ live' = live + 1 /\ timer' = TRUE
  /\ UNCHANGED <<lastSaved, token, retries, failing, requests, answers, queueVars,
                 quitVars, handed, boundVars>>

\* A new attempt to save what is on screen.
SaveLive(kind) ==
  /\ token' = token + 1
  /\ requests' = Append(requests, [kind |-> kind, version |-> live, attempt |-> token + 1])

DebounceFires ==
  /\ Open /\ timer
  /\ timer' = FALSE
  /\ SaveLive("save")
  /\ UNCHANGED <<live, lastSaved, retries, failing, answers, queueVars, quitVars, handed,
                 boundVars>>

\* flush(), on visibilitychange and on pagehide.
Flush == IF lastSaved = live THEN UNCHANGED <<token, requests>> ELSE SaveLive("flush")

HideWindow ==
  /\ Open /\ hides < MaxHides
  /\ hides' = hides + 1
  /\ Flush
  /\ UNCHANGED <<live, timer, lastSaved, retries, failing, answers, queueVars, quitVars,
                 handed, faults>>

RetryAnywayBug(c) ==   \* a retry that does not ask whether it was superseded
  /\ Open /\ c \in retries
  /\ retries' = retries \ {c}
  /\ requests' = Append(requests, [c EXCEPT !.kind = "retry"])
  /\ UNCHANGED <<live, timer, lastSaved, token, failing, answers, queueVars, quitVars,
                 handed, boundVars>>

\* The retry of a failed save writes the version that failed, unless a newer
\* attempt has been made since.
Retry(c) ==
  /\ Open /\ c \in retries
  /\ retries' = retries \ {c}
  /\ requests' = IF c.attempt = token
                   THEN Append(requests, [c EXCEPT !.kind = "retry"]) ELSE requests
  /\ UNCHANGED <<live, timer, lastSaved, token, failing, answers, queueVars, quitVars,
                 handed, boundVars>>

HearSilentBug(a) ==   \* the second failure in a row is not shown
  /\ Open /\ a \in answers
  /\ answers' = answers \ {a}
  /\ IF a.ok
       THEN /\ lastSaved' = IF a.call.attempt = token THEN a.call.version ELSE lastSaved
            /\ failing' = (failing /\ a.call.attempt # token)
            /\ UNCHANGED retries
       ELSE /\ retries' = IF a.call.kind = "save" THEN retries \cup {a.call} ELSE retries
            /\ UNCHANGED <<lastSaved, failing>>
  /\ UNCHANGED <<live, timer, token, requests, queueVars, quitVars, handed, boundVars>>

\* A saveState promise settles in the renderer.
Hear(a) ==
  /\ Open /\ a \in answers
  /\ answers' = answers \ {a}
  /\ IF a.ok
       THEN /\ lastSaved' = IF a.call.attempt = token THEN a.call.version ELSE lastSaved
            /\ failing' = (failing /\ a.call.attempt # token)
            /\ UNCHANGED retries
       ELSE /\ retries' = IF a.call.kind = "save" THEN retries \cup {a.call} ELSE retries
            /\ failing' = (failing \/ a.call.kind # "save")
            /\ UNCHANGED lastSaved
  /\ UNCHANGED <<live, timer, token, requests, queueVars, quitVars, handed, boundVars>>

-----------------------------------------------------------------------------
(* The write queue of the main process. *)

\* enqueueStateWrite(): a waiting document is replaced and its callers kept; a
\* document that finds no loop starts one, which takes it at once.
EnqueueStateWrite(c) ==
  \/ /\ queued # NoWrite
     /\ queued' = [version |-> c.version, waiters |-> queued.waiters \cup {c}]
     /\ UNCHANGED <<writing, loop>>
  \/ /\ queued = NoWrite /\ loop
     /\ queued' = [version |-> c.version, waiters |-> {c}]
     /\ UNCHANGED <<writing, loop>>
  \/ /\ queued = NoWrite /\ ~loop
     /\ writing' = [version |-> c.version, waiters |-> {c}]
     /\ loop' = TRUE
     /\ UNCHANGED queued

\* The saveState handler: the document is encoded and queued in one turn.
SaveState ==
  /\ Up /\ requests # <<>>
  /\ EnqueueStateWrite(Head(requests))
  /\ requests' = Tail(requests)
  /\ handed' = IF Open THEN Head(requests).version ELSE handed
  /\ UNCHANGED <<rendererVars, answers, disk, quitVars, boundVars>>

NextWriteLoopLeftBug ==   \* the loop returns and leaves writeLoop set
  /\ writing' = queued
  /\ queued' = NoWrite
  /\ loop' = loop

\* Back in runWriteQueue(): take what has come in, or stand down, in one turn.
NextWrite ==
  /\ writing' = queued
  /\ queued' = NoWrite
  /\ loop' = (queued # NoWrite)

\* writeAtomic() ends, well or badly; everyone waiting on the slot hears it.
WriteEnds ==
  /\ Up /\ writing # NoWrite
  /\ \E ok \in BOOLEAN :
       /\ ok \/ faults < MaxFaults
       /\ disk' = IF ok THEN writing.version ELSE disk
       /\ faults' = IF ok THEN faults ELSE faults + 1
       /\ answers' = answers \cup {[call |-> c, ok |-> ok] : c \in writing.waiters}
  /\ NextWrite
  /\ UNCHANGED <<rendererVars, requests, quitVars, handed, hides>>

-----------------------------------------------------------------------------
(* Quitting. *)

QuitAtOnceBug ==   \* before-quit does not look at the queue
  /\ phase' = "closing"
  /\ UNCHANGED rounds

QuitForeverBug ==   \* before-quit does not count how often it put the quit off
  IF loop
    THEN rounds' = rounds + 1 /\ phase' = "flushing"
    ELSE phase' = "closing" /\ UNCHANGED rounds

\* before-quit: put off as long as a write is pending, at most MaxRounds times.
BeforeQuit ==
  IF loop /\ rounds < MaxRounds
    THEN rounds' = rounds + 1 /\ phase' = "flushing"
    ELSE phase' = "closing" /\ UNCHANGED rounds

\* The user quits, again perhaps while a first quit still waits.
Quit ==
  /\ Open
  /\ BeforeQuit
  /\ UNCHANGED <<rendererVars, requests, answers, queueVars, handed, boundVars>>

\* flushState() has seen the loop stand down, and app.quit() follows.
FlushDone ==
  /\ phase = "flushing" /\ ~loop
  /\ BeforeQuit
  /\ UNCHANGED <<rendererVars, requests, answers, queueVars, handed, boundVars>>

\* The windows close: pagehide runs the flush, and the renderer is gone.
PageHide ==
  /\ phase = "closing"
  /\ phase' = "unloaded"
  /\ Flush
  /\ UNCHANGED <<live, timer, lastSaved, retries, failing, answers, queueVars, rounds,
                 handed, boundVars>>

\* The process ends; nothing waits for it any more.
Exit ==
  /\ phase = "unloaded"
  /\ phase' = "exited"
  /\ UNCHANGED <<rendererVars, requests, answers, queueVars, rounds, handed, boundVars>>

\* The process is killed.
Kill ==
  /\ Up
  /\ phase' = "killed"
  /\ UNCHANGED <<rendererVars, requests, answers, queueVars, rounds, handed, boundVars>>

-----------------------------------------------------------------------------
Next ==
  \/ Edit \/ DebounceFires \/ HideWindow
  \/ \E c \in retries : Retry(c)
  \/ \E a \in answers : Hear(a)
  \/ SaveState \/ WriteEnds
  \/ Quit \/ FlushDone \/ PageHide \/ Exit \/ Kill

Spec == Init /\ [][Next]_vars

\* Timers fire, messages arrive, writes end, and a quit goes on.  Edits, hiding,
\* quitting and being killed promise nothing.
Fairness ==
  /\ WF_vars(DebounceFires) /\ WF_vars(\E c \in retries : Retry(c))
  /\ WF_vars(\E a \in answers : Hear(a))
  /\ WF_vars(SaveState) /\ WF_vars(WriteEnds)
  /\ WF_vars(FlushDone) /\ WF_vars(PageHide) /\ WF_vars(Exit)

FairSpec == Spec /\ Fairness

-----------------------------------------------------------------------------
(* Properties. *)

TypeOK ==
  /\ {live, lastSaved, token, disk, handed, hides, faults} \subseteq Nat
  /\ rounds \in 0..MaxRounds   \* quitting never becomes "quit waits forever"
  /\ {timer, failing, loop} \subseteq BOOLEAN
  /\ retries \subseteq Call /\ answers \subseteq Answer
  /\ requests \in Seq(Call)
  /\ {queued, writing} \subseteq Write
  /\ phase \in {"running", "flushing", "closing", "unloaded", "exited", "killed"}

\* What saving promises: the version the renderer believes saved, and with it
\* skips saving again, is on disk or older than what is there, and state.json
\* never goes back, whatever is coalesced, retried, flushed or lost.
Promise == INSTANCE DurableState WITH durable <- disk, confirmed <- lastSaved
KeepsItsPromise == Promise!Spec

\* Once the edits are over the newest version is on disk for good, or the
\* health strip says that saving fails, however retries and flushes interleave.
SavedOrSaid == <>[](disk = live \/ failing \/ phase # "running")

\* No save is left in the slot with nobody to write it.
SlotIsServed == (queued # NoWrite) ~> (queued = NoWrite \/ ~Up)

\* A quit that was not forced through keeps what the main process had been
\* handed before the windows closed.
QuitKeepsHanded == (phase = "exited" /\ rounds < MaxRounds /\ faults = 0) => disk >= handed

\* The inductive invariant behind both.  Documents queue up in order: what is on
\* disk, being written, waiting and on its way never gets older, ...
Slots   == {disk, writing.version, queued.version}
InOrder ==
  /\ queued # NoWrite => loop /\ writing.version <= queued.version
  /\ loop => writing # NoWrite /\ disk <= writing.version
  /\ ~loop => writing = NoWrite
  /\ \A i \in 1..Len(requests) :
       /\ requests[i].version <= live
       /\ \A d \in Slots : d <= requests[i].version
       /\ \A k \in 1..i : requests[k].version <= requests[i].version
  /\ lastSaved <= disk /\ \A d \in Slots : d <= live

\* ... a call waits on a document at least as new as its own, hears of success
\* only from one, and the last attempt is at least as new as all of them.
Waiting == queued.waiters \cup writing.waiters
Settled == {a.call : a \in answers}
Pending == {requests[i] : i \in 1..Len(requests)} \cup Waiting \cup Settled \cup retries
NotNewer(c) ==
  /\ \A d \in Slots : d <= c.version
  /\ \A i \in 1..Len(requests) : requests[i].version <= c.version
InTime ==
  /\ \A c \in queued.waiters : c.version <= queued.version
  /\ \A c \in writing.waiters : c.version <= writing.version
  /\ \A a \in answers : a.ok => a.call.version <= disk
  /\ \A c \in Pending :
       /\ c.version <= live /\ c.attempt <= token /\ (c.attempt = token => NotNewer(c))
       /\ \A d \in Pending : c.attempt = d.attempt => c.version = d.version

\* What has been handed over is the last document of the queue, or on disk.
HandedOver ==
  faults = 0 =>
    /\ queued # NoWrite => handed <= queued.version
    /\ queued = NoWrite /\ loop => handed <= writing.version
    /\ ~loop => handed <= disk
    /\ (phase \in {"closing", "unloaded", "exited"} /\ rounds < MaxRounds) => handed <= disk

StoreInv == InOrder /\ InTime /\ HandedOver

\* main.ts: "quitting waits for the disk", for the last edit before the quit.
QuitKeepsLastEdit ==
  (phase = "exited" /\ rounds < MaxRounds /\ faults = 0 /\ live > 1) => disk = live
=============================================================================
