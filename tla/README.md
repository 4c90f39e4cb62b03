# Aevistle in TLA+

Aevistle is a desktop and Android application that writes mail now and sends it
later: reminders with recurrence rules, an offline queue, an inbox, and a direct
synchronisation between the user's devices. Its documents and comments make
strong promises ("a reminder which quietly never arrives is the worst outcome a
scheduler can produce", "resending would produce a guaranteed duplicate for no
benefit", "quitting waits for the disk"), and the code that has to keep them is
a handful of cooperating event handlers with awaits in between. This directory
models that core, checks it with TLC on small instances, and proves its most
important properties with TLAPS for every value of the constants.

Sources are named from the root of the repository: `electron/...` is the main
process, `src/...` the renderer and the shared core.

## 1. Inventory

### Parts and how they interact

| part | source | state | operations | hard behaviour |
|---|---|---|---|---|
| desktop scheduler | `electron/scheduler.ts` | `jobs`, `running`, `fired`, `pendingResend`, `pendingLedgerRecovery` | `sync`, `tick`, `claimThenRun`/`run`, `sendOnce`, `completeRun`, restart recovery | runs overlap syncs; a crash between any two awaits; a lost SMTP reply |
| dispatch ledger | `electron/store.ts`, `src/core/ops/dispatchLedger.ts` | `dispatch-ledger.json`, a serial queue of writes | claim, mark sending, mark accepted, delete, prune, resolve on restart | what is on file decides between resending and dropping |
| recurrence engine | `src/core/schedule/schedule.ts` | none (pure) | `computeOccurrences`, `rearm`, `topUp` | quota and catch-up at the boundaries |
| renderer job state | `src/state/AppState.tsx`, `src/core/schedule/jobRun.ts` | the jobs the user sees | hydrate, edit, toggle, `syncJobs`, `jobRan`, save | late reports over newer edits |
| state store | `electron/store.ts`, `electron/main.ts` | `state.json`, one waiting slot, one write in flight | `saveState`, `flushState`, `before-quit` | coalescing, failures, quitting |
| renderer autosave | `src/state/AppState.tsx` | `lastSaved`, `saveToken`, debounce | debounced save, one retry, flush | an older success claiming a newer state |
| offline queue | `src/core/ops/outbox.ts`, `src/state/services/outboxReducer.ts`, `src/state/AppState.tsx` | `state.outbox`, `flushing` | queue, pass, backoff, take out, restart | the pass awaits while the queue changes |
| device sync | `src/core/sync/*.ts`, `electron/syncServer.ts`, `src/state/AppState.tsx` | pairings, two sequence numbers per pairing, `lastSyncedAt`, tombstones | ask, verify, merge, answer, apply, save, undo | lost, late and repeated messages; awaits between reading the state and patching it |
| pairing | `src/core/sync/pairing.ts`, `electron/pairingServer.ts`, `src/views/DevicesCard.tsx` | the session, its timer and socket, the panel | start, stop, expire, handle a request, draw, revoke, close, record | calls that overlap: everything is set after awaits |
| inbox | `src/state/AppState.tsx`, `electron/imap.ts`, `src/core/mail/*.ts` | the row of an account, tombstones, archive keys, queue of read marks, baseline of what was announced | poll, push, sync, land, mark, bin, restore, empty, tag, archive, renumber | a sync carries the row it began with and lands minutes later |
| IDLE | `electron/imapIdle.ts`, `electron/main.ts` | the watchers, their timers and clients | watch, connect, fail, drop, recycle, stop | stopping in the middle of connect() |
| secrets and OAuth | `electron/store.ts`, `electron/oauth.ts` | `secrets.json`, `cache`, `inFlight`, the rejected accounts | read-modify-write, refresh, rotate, consent, forget, invalidate | one file without a queue; refresh tokens that work once |
| compose | `src/views/ComposeView.tsx`, `src/state/services/draftReducer.ts` | the draft, its versions, the countdown, the sends under way | press, cancel, expire, leave, quit, restore | the form is cleared before the mail has left |
| undo | `src/state/hooks/useUndo.ts`, `src/state/AppState.tsx`, `src/views/ScheduleView.tsx`, `src/views/WorkCalendarView.tsx` | the stack of inverse actions | push, undo | jobs run and other devices write while an entry waits |
| control API | `electron/controlServer.ts`, `electron/main.ts`, `src/state/controlExecutor.ts`, `integrations/cli.mjs` | the server, its token, the endpoint file, the drop folder, the audit log | apply, post, queue, drain, claim, execute, time out, report, record | two doorways, a window that is not there, a process that ends |
| data folder | `electron/store.ts`, `src/state/hooks/useRelocateData.ts` | two folders, the pointer, attachment paths | copy, delete, switch, repair | saves and ledger writes meanwhile; a death in the middle |
| Android scheduler | `android/.../AevistleScheduler.java`, `SendWorker.java`, `AlarmReceiver.java`, `JobStore.java`, `src/state/AppState.tsx` | preferences, alarms, one work per job, the queue of reports, the web layer's list | alarm, boot, work, retry, arm, sync, drain, "Retry now" | several readers and writers of one preference; process death; an app that is shut |
| transport, updater, images | `electron/*.ts` | files | fetch, verify, parse | I/O |
| user interface, parsers, i18n | `src/...` | views | - | none that is ordered |

The renderer owns the jobs. It saves everything to `state.json` through
`saveState`, hands the jobs to the main process with `syncJobs`, and hears of
finished runs through `jobEvent` (`jobRan`), which it turns into new occurrence
lists with `applyRun()`. The main process keeps a working copy of the jobs,
sends what is due every 15 seconds, and records each attempt in the dispatch
ledger, so that the next process can tell "never tried" from "perhaps sent" from
"accepted". The offline queue lives in the renderer and is saved with
everything else. Two paired devices exchange jobs and calendars over the local
network, one of them asking; scripts reach the window through the main process;
on the phone the native code sends by itself and the web layer, which owns the
jobs there too, hears of it when it is opened.

### What makes each part correct

* Scheduler and ledger: an occurrence that is due is served; it is not picked
  twice in one life of the process; while an attempt may be under way the file
  says so; proven acceptance keeps it from being picked; nobody counts a run
  that did not happen; every run ends.
* Store: what the renderer believes saved is on disk; the file never goes back;
  no document is left waiting without a writer; a quit keeps what was handed over.
* Queue: a message is sent once unless something was lost; it settles visibly;
  nothing waits behind "sending" with nobody sending.

* Device sync: after a cycle that succeeded both devices have the same; a job goes
  only because somebody deleted it; what one device takes for told is on the
  other's disk; whatever is changed in mid-exchange, no other job suffers from it.
* Pairing: the code on the screen is the one that works, a key is kept for the
  pairing it was made for, and no socket stays open.
* Inbox: what the user did survives every sync that began before; what arrived
  is listed in the end, announced, and once.
* IDLE: one connection per account; none of a watcher that was stopped; it comes back.
* OAuth: rotation leaves no token that lapses in the file; a call joins no refresh
  that has ended; a grant that works is not shown as refused for ever.
* Compose: a press sends once and is never dropped while the program runs; nothing
  that was typed is gone after a failure or a restored version.
* Undo: it leads back, entry by entry, and has nothing sent twice.
* Control API: a dropped request runs at most once, its result tells the truth, who
  has an answer is in the log, requests are admitted by the switches the user sees, everyone
  is answered.
* Data folder: nothing acknowledged is lost by a move, and attachments are found after it.
* Android: an instant is mailed once; a job with an instant ahead is armed, worked on
  or re-armed after the boot; what is due is run and reported.

`PROJECT.json` lists the hazards at their lines, and which property looks after
each.

## 2. Modules

| module | role |
|---|---|
| `Recurrence` | the list arithmetic of `schedule.ts` as operators on sets of instants |
| `DispatchLedger` | the ledger file and its operations, from file to file |
| `Scheduler` | main process + renderer + crash, one action per handler or awaited step |
| `SchedulerInvariant` | the inductive invariant of the scheduler, as named parts |
| `MCScheduler` | rules and instances for TLC, liveness, and what the repository says |
| `SchedulerProofs` | types, `LedgerInv` and what follows from it, `CopiesBounded`, `NeverOvercounts` |
| `DurableState` | the abstract promise of saving: three numbers, three actions |
| `StateStore` | autosave, write queue and quit; implements `DurableState` |
| `Outbox` | the offline queue with compose screen, pass, user and restart |
| `OutboxProofs` | types, `SendingIsSent`, `TriesBounded` and `TakenOnce` |
| `DeviceSync` | two paired devices and the wire between them |
| `Pairing` | the desktop's listener, its panel, the joining devices |
| `AndroidScheduler` | the phone: alarms, works, preferences, reports, the web layer |
| `MCDevices` | settings of these three for TLC, fairness, the properties checked |
| `DevicePartsProofs` | two devices: what is told is kept, what succeeded agrees, what goes was deleted; the phone: an instant is mailed once, a job stays armed; pairing: a key is kept for its own, the code drawn is live |
| `DevicesProofs` | the same of the composition |
| `Inbox` | one account's mailbox, row and syncs, in the renderer and the main process |
| `InboxIdle` | the push watchers of an account |
| `Credentials` | `secrets.json` and the refresh of OAuth tokens |
| `Compose` | the compose screen: draft, versions, countdown, sends |
| `MailPartsProofs` | compose: a press sends once and is not dropped, sent, restored and failed drafts; IDLE: one thing at a time, nothing after a stop; inbox: removed, read and announced mail; grants: rotation and joined refreshes |
| `MCMail` | settings of these four for TLC, fairness, the properties checked |
| `MailProofs` | the same of the composition: every safety property of the run `Mail` |
| `ControlApi` | the control interface with its two doorways |
| `UndoStack` | the undo stack over jobs and calendar, with a scheduler of one-step runs |
| `DataFolder` | the move of the data folder |
| `MCDesktop` | settings of these three for TLC, fairness, the properties checked |
| `DesktopPartsProofs` | store: types, invariant, refinement, quit; control API: requests, audit log, switches; undo stack: it leads back, nothing is sent twice |
| `DesktopProofs` | the data folder, and every safety property of the run `Desktop` |

Operators whose names end in `Bug` are plausible faults of the definition that
follows them; the properties are tried against them and nothing else uses them.

### Scheduler

A job exists three times: in `state.json` (`disk`), in the renderer (`rend`) and
in the working set (`mj`). `Sync` is `sync()`: it replaces every job object, so
a run in flight keeps a *detached* copy (`attached` turns FALSE) and its
`completeRun()` no longer changes the working set. A run is a record that goes
through the steps of `claimThenRun()`/`run()`: claim, decide, mark, smtp,
accepted, complete, finish; each is one action and everything else may happen in
between. `fired`, `pendingResend` and `pendingRecovery` are the fields of the
class; `pendingDelete` holds the deletions that `sync()` queues without awaiting
them. The store writes the ledger in one global order; what matters here, that
a deletion queued by `sync()` is written before a later claim of the same job,
is the guard of `Claim`. The ghosts `sent`, `confirmed` and `completed` record what the
server took, what once was proven, and what was counted.

Abstractions: occurrence lists are sets (the code keeps them ascending) with the
forced resends, which stand in front, kept apart as `front`; backoff and jitter
are interleaving; saving is one atomic step (its steps are `StateStore`'s);
a graceful quit is a crash that may or may not have saved; the calendar search
of `nextFireAfter()` is the set of instants it finds; working-day shifts and
delivery windows are left out and quiet hours kept (`Shape`), as the one shaping
step that a property is about. `start()` follows the ledger read, and the model
lets `sync()` run only then. Not modelled: the device filter `isMyJob()`,
deleting a job and undoing it, pruning `fired` beyond 512 keys, several accepted
entries of one job recovered at once (the invariant shows that one job never
has two entries on file).

### StateStore

A document is its version. The renderer side has the debounce (`timer`), the
attempt counter `saveToken` (`token`), the retry after three seconds (`retries`)
and the two flushes. Every `saveState` call travels as a message (`requests`)
and its settlement travels back (`answers`), in any order. The main process has
the slot `queued`, the write in flight `writing` and `loop`, and replaces the
document but keeps the callers when a save finds the slot taken. A write
succeeds or leaves the file as it was. `Quit`, `FlushDone`, `PageHide` and
`Exit` are the stages of `before-quit`, with `MAX_QUIT_FLUSH_ROUNDS`. Closing a
window only hides it (the tray), so the renderer lives as long as the process.
Not modelled: the tray switched off (the window then closes while the quit may
still wait), moving the data folder while writes run, quarantine of unreadable
files.

### Outbox

A message is the number it got when Send was pressed. `ComposeSend`,
`ComposePart` and `ComposeEnds` are `sendDraftNow()` from the compose screen,
one transport call after the other; `StartFlush`, `FlushPart` and `FlushEnds`
are `flushOutbox()`, which keeps the items it found due *as it found them*
(`flush.found`). `FlushRejects` is a transport call that rejects instead of
returning a failure. The user takes items out (to edit or discard) at any time;
the network comes and goes; a restart puts "sending" back to "waiting". A
transport call succeeds, fails, or fails although the server took the message.
Backoff is a flag `ready` that time sets. Reducer and `liveRef` are taken as
immediate. One compose send at a time.

### DeviceSync

A device has memory (`state`) and a disk; an exchange is `AskBegins` to `AskEnds` on one side
and `Accepts`, `Answering` on the other, and `performExchange()` reads the state, awaits, and
patches it. `wire` holds the messages; they may be lost, late or repeated. The two counters of a
pairing are those of `syncLoop.ts`: the asking side stores its number only after success, the
answering side at once. Abstractions: clocks are equal, edit times are unique, the scope
is the schedule without the calendar, saving writes memory as of then, two devices only, the
pruning of tombstones after 90 days is left out. The user changes jobs at any time. What is changed
while `performExchange()` awaits is noted in `rushed`: the patch computed before replaces the array
whole (`AppState.tsx:1163`), so that this change may be lost, a job added then too, and the
properties except the very jobs in `rushed`, and no other. `Accepts` reads the row of the peer with
the rest of the state, while the code found it before its awaits (`syncLoop.ts:787`): the two
differ only if another exchange of the pairing ends in between.

### Pairing

`start()`, `stop()`, the expiry and the handler of a request are cut at their awaits; `calls` are
the calls of the panel under way, `toUi` the events on their way to it. A `Patient` user presses
only when the panel has drawn what it asked for. Not modelled: cryptography, the order in which
addresses are tried, revoking a paired device, a key that cannot be stored (a failing
`setSecret`), the phone as the host.

### AndroidScheduler

`prefs` is the preference file, `hand` what a reader took from it and has not yet written back; a
work goes through the steps of `SendWorker`. `web` is the list of the web layer when
the app is open. Ghosts: `sent`, and `disturbed` for occurrences whose record was overwritten by
a stale list or whose work was interrupted; `SentOnce` excepts these, because the code has no
protection there (the hazards say so). Two simplifications: a report is built from the list in
the store, where `recordRun()` uses the list it has just written (they differ if it is written
again between the two), and an alarm that fires at the last step of a work of its job, which has
armed the job and only returns, is delivered when the work has ended. Left out: pruning of the ledger after 24 hours, run counts
and status, how conditions are evaluated, notifications except "Retry now", the widget.

### Inbox

`row` is the account's row in the renderer, `srv` the mailbox, `held` the row a timer's closure
holds, `syncs` the syncs under way, each with the row it began with; `Land` is the reducer's
merge with its tombstones (`inboxRemoval.ts`), seen flags, preferences and baseline. Left out:
deleting or disabling the account, purging on the server, caps, the recency window, rules and
quiet hours of notifications, bodies.

### InboxIdle

An attempt occupies a slot from `connect()` until its socket closes, one step per await. A timer
may fire at any time, so backoff and the periodic recycling are interleaving.

### Credentials

`file` is `secrets.json`, read whole and written whole by tasks without a queue; a provider of
`Rotating` accounts retires a refresh token when it issues the next. `resolvePresetId()` is one
step with the read. Left out: the loopback listener, PKCE, encryption, the phone's
`OAuthTokens.java`.

### Compose

Drafts are version numbers; `sends` are the calls of `sendDraftNow()` under way. Left out: the
preflight card, merges, reminder fields, clearing the history by hand.

### ControlApi

A server is the number of the call that started it, which stands for its port and token.
`work` is where the main process is with a request, `run` where the window is, `file` the
request in the drop folder. A request is one that changes something. `Authorised` and `Admits`
are the two sides of the await for the body, with the token before and the switches after; an entry
of the audit log that cannot be read or written (`AuditFails`) is given up, and the caller
answered all the same (`unlogged`). Left out: what each
operation does, the other scopes, `/calendar.ics`, pruning, the cap of the log, a moved
folder, a port that is taken.

### UndoStack

Runs are one step (their failures belong to `Scheduler`); the list arithmetic is `Recurrence`'s.
`past` is the state each entry should lead back to, emptied when something that is not on the stack
changes it. `Confirm` pushes the entry and begins the save, which waits for the copies of the
attachments (`snapshotAttachments`); `Saves` is what `scheduleDraft()` does after it, by when the
job may have been changed, run, deleted or undone. The saves of a batch may land in any order,
where the code awaits one after the other. Undo of contacts, templates and log rows is left out:
only the user changes those.

### DataFolder

The state and the ledger, each in the old and the new folder, a pointer, and a move that copies,
deletes and switches with a failure possible at each step. `NothingLost` excepts files read or
written during the move: those are lost indeed (`electron/store.ts:238`).

### How the MC modules put them together

The three groups meet only through calls that each module has as events of its own (a push
event, a stored secret, a job list handed over), so multiplying their state spaces would check
nothing new. `MCMail`, `MCDevices` and `MCDesktop` instantiate each component several times, in
settings too small to miss what they are after, and a variable `part` says which setting a
behaviour is of; the others rest. One run therefore answers for a group, and the properties
name the setting they speak of. Fairness is stated in these modules, guarded by `part`.
The bounds of `watch`, `press`, `switch`, `single` and the folder are constants of `MCMail` and
`MCDesktop`, whose values the .cfg gives, so that the theorems hold for all of them.

## 3. Runs

| run | question | instance |
|---|---|---|
| `SchedulerCrash` | what do crashes do to a burst with retries? | 1 job, 2 instants, 2 attempts x 2 copies, 2 crashes, entries pruned after one instant |
| `SchedulerEdits` | what do edits and pauses do to a run? | 3 rules (both policies), 1 edit, 2 attempts, 1 crash |
| `SchedulerLive` | is what is due served, and does every run end? | 2 rules, 1 crash, 1 failing write or read, fairness |
| `StateStore` | does the store implement `DurableState`, settle, and survive a quit? | hydration and 1 edit, 1 hiding, 2 failing writes, 3 rounds (as in the code) |
| `Outbox` | is a message sent once? | 2 messages of up to 2 parts, queue of 2, 3 attempts; nothing lost |
| `OutboxLive` | does every queued message settle, within its tries? | 2 messages, queue of 1, 3 attempts, a crash, a lost reply, a rejected call, one switch of the setting, fairness |
| `Mail` | do the user's choices, announcements, presses and grants survive overlap, failures, restarts and quits? | `Keeps`, `Overlap`, `Renumber`, `News` of `Inbox` (1-2 messages, 1-2 syncs at once, 2-3 acts, up to 1 fault); `Watch` (2 watchers, 2 sockets); `Rotate`, `Share` (1-2 accounts, 2 calls, 2-3 tokens); `Press`, `Quit`, `Ends` (2 versions, 1-2 presses of each, a history of 1) |
| `MailLive` | does mail get listed, push come back, a press end? | `Brings`, `Heal`, `Renew`, `Ends`, with one act and one fault each, fairness |
| `Devices` | do two devices agree, whatever is changed meanwhile, is pairing exact and over in the end, does the phone mail once, stay armed, pay and report? | `Edit` (2 jobs, 2 edits at any time), `Undo` (1 job, 3 edits, an undone deletion or a conflict decided the other way), `Loss` (a lost message, a failed write), `Crash` (a crash, a failed write), `Both` (both ask, a lost message, a copy); `Hasty`, `Calm` (2 codes, 1-2 devices), `Once`; `Alone`, `Two`, `App` (1-2 jobs, 2 instants, a kill, an edit, a tap), `Pays`, `Reports`; fairness for `Once`, `Pays`, `Reports` |
| `Desktop` | is a request carried out once and answered, by the switches the user sees, does undo lead back, does a move lose nothing? | `Drop`, `Audit`, `Switch`, `Serve` (1-2 requests, 2 exits, 2 faults, an entry that cannot be written, a toggled switch); `Single` (1 job, 2 instants, 2 edits, another device), `Batch` (2 jobs that are never due, 2 edits, a restart, a stack of 2); `Folder` (1 change, 2 moves, a failure); fairness for `Serve` |
| `SaysConfirmed` | does proven acceptance outlive the run? (it does not) | 1 job, 1 crash |
| `NextPoll` | is a rejected cycle resolved by the next poll? (it is not) | `Both` of `MCDevices`: both devices ask; the property speaks of behaviours without a loss |

The bounds are small because the interesting cases are: two instants give a
backlog, a catch-up and an occurrence that comes due during a run; the third
element of a list is reached through `Horizon = 3`, `LowWater = 2`, so both the
refill and the top-up happen; two crashes give a recovery that is itself
interrupted; one edit is enough to detach a run and to change its rule under
it. `PruneAge = 1` lets entries age within the clock. In the store, two
failing writes give the retry that fails and the health strip; in the queue,
three attempts give a message two passes after the compose send, and a capacity
below the number of messages makes the oldest be dropped, also while
a pass is sending it. One job suffices for the scheduler's safety because all
its invariants are about one job and the proofs hold for any set of them.

In the groups, two syncs at once give the reply that lands late, one
renumbering gives the uid that means another message, and three tokens the rotation of
a rotation; one lost answer is enough to part the two counters of a pairing, one edit in
mid-exchange to lose it, a second job to see that nothing else is lost, and two codes to have
a call of the one overtake a call of the other; one kill between any two steps of a work reaches
every state its ledger can be found in; two exits end a process while it carries a
request out and its successor while it settles it; two edits on a stack of one or two
entries overflow it and undo across a run, or save after something else has come between; one
save that waits while a job runs is enough to write back a job as it was before the run.

Deadlock is checked except where the system stops: the store after it has
exited, and the groups, whose users have a bounded number of things to do.

### Disagreements between what is said and what is done

Two runs state a sentence of the repository and find it violated.

* `SaysConfirmed`: the ledger entry is deleted when `completeRun()` has changed memory, before
  `state.json` has the outcome, so after a crash in between an occurrence is sent again although
  its acceptance had been recorded.
* `NextPoll`: a cycle that is rejected because the other direction's was accepted first is said
  to be "resolved automatically by the next poll" (`syncLoop.ts:60-68`). A device keeps the number
  of its request only when the cycle succeeds, and its peer has kept it when it accepted the
  request; `NextPollResolves` says that with nothing under way some device can begin a cycle whose
  numbers both sides take, and TLC finds two polls that cross, without any loss, after which neither can.
  The numbers chase each other from then on: every accepted request raises the counter of the device
  that answers, whose reply is refused. A lost answer does the same, with one asker for good: the number
  it asks with has been accepted already. `Agreed` is therefore about cycles that succeed, and says
  nothing of how often they do.

The last part of each module states further sentences of the repository that the code does not
keep. TLC refuted each of them in a setting like those above; to see a counterexample add the
definition to the configuration (in a group, through the instance that shows it).

| module | definition | where | what the code does instead |
|---|---|---|---|
| `MCScheduler` | `SkipDropsOnlyMissed` | `electron/scheduler.ts:408` | with the policy "skip", `tick()` drops also the instant that has come due just now, so such a job never sends |
| `MCScheduler` | `RunsWithinQuota` | `src/core/schedule/schedule.ts:504` | "after N runs" is charged with the runs done but not with the instants already listed; refilled lists go beyond N |
| `MCScheduler` | `QuietHoursHold` | `electron/scheduler.ts:294` | lists extended by the main process do not know quiet hours |
| `StateStore` | `QuitKeepsLastEdit` | `electron/main.ts:3010` | an edit inside the debounce at the moment of quitting: nothing is pending when `before-quit` asks, and nobody waits for the flush of the closing window |
| `Outbox` | `TakenOutIsNotSent` | `src/state/AppState.tsx:3886` | a pass sends an item that was taken out of the queue while the pass was busy with the one before |
| `DeviceSync` | `ResolvedByNextPoll` | `src/state/AppState.tsx:3794` | the answering device sets `lastSyncedAt` before anybody has its reply; when the reply is refused its changes are in no later payload |
| `DeviceSync` | `CancelledStaysCancelled` | `src/state/AppState.tsx:1163` | a job deleted while `performExchange()` awaits is on the list again |
| `DeviceSync` | `UndoneIsBack` | `src/state/AppState.tsx:2542` | undoing a deletion leaves the tombstone, and the next exchange removes the job again |
| `AndroidScheduler` | `PaidOnce` | `AevistleScheduler.java:269` | an app opened before it drained a report hands its own list over, with the instant that was paid |
| `AndroidScheduler` | `KeepsFiring` | `SendWorker.java:156` | the path of a missing account does not call `armNext()` |
| `AndroidScheduler` | `AcceptedIsFinal` | `SendWorker.java:94` | a work that is run again after a death does not look at the state of its ledger entry and sends again |
| `AndroidScheduler` | `HandedOver` | `JobStore.java:642` | `drainRuns` clears the queue before the web layer has the result |
| `AndroidScheduler` | `TwiceIsHarmless` | `JobStore.java:640` | a report applied twice replaces the occurrences of a job edited in between |
| `Credentials` | `OneRefresh` | `electron/oauth.ts:183` | `invalidateOAuthToken()` forgets a refresh that is still under way, and a second one begins with the same token |
| `Credentials` | `SecretsKept` | `electron/store.ts:1036` | two read-modify-writes of `secrets.json` lose one change |
| `Credentials` | `ForgottenIsGone` | `electron/oauth.ts:201` | a refresh under way writes the grant of a forgotten account back |
| `Credentials` | `RejectedIsCurrent` | `electron/oauth.ts:358` | the refusal of an old grant marks an account that has a new one |
| `DataFolder` | `NoHalfMove` | `electron/store.ts:275` | the originals are removed before the pointer names the new folder |
| `DataFolder` | `StartsFresh` | `electron/store.ts:290` | "Leave it" writes the old state into the new folder with the next save |
| `DataFolder` | `AlwaysFinds` | `electron/store.ts:276` | between the deletion of the old files and the repair of the paths a reminder finds no attachment |
| `Pairing` | `DrawnIsLive` | `src/views/DevicesCard.tsx:515` | (with a hasty user) a code can be drawn while nothing listens |
| `Pairing` | `WorksOnce` | `electron/pairingServer.ts:176` | two requests under way are both answered, and the second overwrites the key of the first |
| `Pairing` | `RevokedIsDead` | `electron/pairingServer.ts:186` | a request whose handshake is awaited when the code is revoked is answered all the same |
| `Pairing` | `ClosedStops` | `electron/pairingServer.ts:100` | `start()` sets the server after its awaits; a `stop()` that came meanwhile stopped nothing |
| `Pairing` | `ExpiresOnTime` | `electron/pairingServer.ts:102` | the timer of an overwritten session ends its successor |
| `Pairing` | `SocketCloses` | `electron/pairingServer.ts:100` | (with a hasty user) a server that was overwritten is never closed |
| `Pairing` | `ConnectedIsPaired` | `src/views/DevicesCard.tsx:504` | the panel says it is paired before it has looked which pairing connected |
| `Pairing` | `RegeneratedSyncs` | `src/views/DevicesCard.tsx:467` | after regenerating, the joiner counts from zero and the host does not |
| `Pairing` | `ClocksDoNotMatter` | `src/core/sync/pairing.ts:263` | `joinPairing()` compares the host's expiry with the joiner's clock |
| `Inbox` | `SettingsKept` | `src/state/AppState.tsx:3123` | a timer's sync writes back the settings of the row its closure holds |
| `Inbox` | `TagsKept` | `electron/imap.ts:786` | and its tags |
| `Inbox` | `ArchiveKept` | `src/core/mail/inboxRemoval.ts:157` | and its archive keys |
| `Inbox` | `RestoredStays` | `src/state/AppState.tsx:942` | and its tombstones, so that a restored message is hidden again |
| `Inbox` | `EmptiedStays` | `src/state/AppState.tsx:1057` | emptying the bin forgets the tombstones, and the messages are listed again |
| `Inbox` | `PushIsAnswered` | `src/state/AppState.tsx:3106` | a message that arrives after the list was read is in no answer, and its push event was dropped |
| `Inbox` | `UnreadStays` | `src/state/AppState.tsx:769` | a sync that read the list before a mark as unread was confirmed marks the message read |
| `Inbox` | `ReadStays` | `src/state/AppState.tsx:967` | (with two syncs) the late landing of an older list takes a row out, and the next one lists it unread |
| `Inbox` | `HidesOnlyRemoved` | `src/core/mail/inboxRemoval.ts:27` | a tombstone hides the message that got its uid after a renumbering |
| `Inbox` | `FirstSyncPaintsNothing` | `src/state/AppState.tsx:2828` | `previous` is never undefined, so the first sync is tagged like any other |
| `Inbox` | `ToldOnce` | `src/core/mail/newMail.ts:163` | (with a removal and a restart) a message removed from the app is announced again |
| `InboxIdle` | `RecoversOnItsOwn` | `electron/imapIdle.ts:160` | `accessTokenForAccount()` throws outside any try and the reconnect is never scheduled |
| `InboxIdle` | `SocketsAreHeld` | `electron/imapIdle.ts:224` | a watcher stopped while `mailboxOpen()` is awaited keeps its connection |
| `InboxIdle` | `NoOldPassword` | `src/state/AppState.tsx:3513` | nothing calls `watchInbox` when a password changes |
| `InboxIdle` | `OffIsOff` | `electron/main.ts:2463` | two calls may reconcile in the order in which they did not come |
| `ControlApi` | `OneServer` | `electron/controlServer.ts:135` | a second `apply()` during `listen()` starts a second server |
| `ControlApi` | `MatchesSettings` | `electron/controlServer.ts:136` | switching off during `listen()` leaves the server to start |
| `ControlApi` | `FoundWhenRunning` | `electron/controlServer.ts:254` | `stop()` removes the endpoint file of the server started meanwhile |
| `ControlApi` | `ReportsWhereItIs` | `electron/main.ts:456` | `readEndpoint()` looks where `start()` does not write |
| `ControlApi` | `QueuedReachesWindow` | `electron/controlServer.ts:174` | the first pass over the drop folder runs before the page listens, and its requests fail |
| `ControlApi` | `ClaimsFinished` | `electron/controlServer.ts:490` | a file that is still being written is claimed |
| `ControlApi` | `FailedIsUndone` | `electron/main.ts:315` | a request answered as failed after 30 s is carried out all the same |
| `ControlApi` | `QueuedIsUnrun` | `integrations/cli.mjs:102` | a request whose answer was lost with the process is queued and carried out again |
| `ControlApi` | `AuditedFirst` | `electron/controlServer.ts:532` | the result file precedes the record |
| `Compose` | `NeverDropped` | `src/views/ComposeView.tsx:311` | (with a quit) a countdown does not survive the program |
| `Compose` | `KeptBeforeClearing` | `src/views/TemplatesView.tsx:43` | a template, a reply or a message taken back replaces the draft without a version of it |
| `Compose` | `CancelSparesNext` | `src/views/ComposeView.tsx:1024` | taking a send back puts its draft over the next message |
| `Compose` | `HardFailureGivesBack` | `src/views/ComposeView.tsx:316` | a send handed over by leaving the screen gives nothing back when it fails |
| `UndoStack` | `UndoSparesRuns` | `src/views/ScheduleView.tsx:391` | undoing an edit takes back the runs since |
| `UndoStack` | `UndoSparesDays` | `src/views/WorkCalendarView.tsx:299` | undoing a marked day takes back a calendar that arrived since |
| `UndoStack` | `EditKeepsRuns` | `src/views/ComposeView.tsx:1414` | saving an edited job takes back the runs since it was opened |
| `UndoStack` | `PaidOnce` | `src/state/AppState.tsx:2542` | (with a restart) undoing the deletion of a reminder that has run has it sent again |

Others were met while modelling and are kept as notes, not runs:

* The entry of a recovered resend is deleted (queued by `sync()`,
  `electron/scheduler.ts:325`) before the resend claims it, so the Message-Id and
  the attempt count start over, against `electron/store.ts:854-858`.
* A resend forced back into a "skip" job is dropped unsent by the next `tick()`,
  against `electron/scheduler.ts:130-133`.
* A `getSecret()` that rejects ends a run whose key is already in `fired`; after
  the next `sync()` the occurrence stays listed and is never sent
  (`electron/scheduler.ts:662`). `DueIsServed` therefore excepts faults.
* A `sendNow` that rejects leaves its item "sending" until the next start
  (`src/state/AppState.tsx:3890`, against the comment at 1754-1756).
  `SendingIsSent` and `Settles` except it.
* A merge that failed for one recipient is queued whole and goes to all of them
  again; `TakenOnce` is about messages that are not merges.

## 4. Fairness

Liveness is stated under weak fairness of what the program's own machinery
drives: `setInterval` ticks (`Tick`), effects after a change (`Sync` while
`dirty`), awaited promises that settle (each step of a run, each queued
deletion, each write), events that are delivered (`JobRan`, `Hear`, `SaveState`)
and timers that fire (`DebounceFires`, `Retry`, `Elapse`). Starting the process
again (`Launch`) is weakly fair too: "served in the end" speaks of a user who
starts the application again. Edits, quits, crashes, saves, failures and the clock
promise nothing. `StartFlush` is strongly fair, since the `online` event starts a
pass at the moment the network is back, however often it goes away, and the
network is assumed to come back (`Network` while offline).

In the groups: the poll timers of the inbox go on for ever; what is sent is answered, fails or
times out, and the answer is handled; `setTimeout`s fire; a socket that is let go closes; due
alarms fire, a work runs to its end and the boot is announced, which is what Android promises; a
user who reports are shown to opens the app and returns to it; the desktop program is started
again. The window may be busy with a request for ever (`Renders` is not fair): that everyone
is answered rests on the 30 s timer. Mail goes on being fetched and sent, so a token is asked for
again. Nothing the user may decide, no fault, and no network is fair.

## 5. What is proved

All theorems are about the specifications TLC checks. Those of the scheduler, the store and the
queue hold for every value of the constants that the named assumptions (`HorizonAssumption`,
`LedgerAssumption`, `SchedulerAssumption`, `StoreAssumption`, `OutboxAssumption`) allow, which only
say that bounds are naturals (some not zero) and that rules fire within the calendar. The
theorems about the groups' components have their assumption in their statement
(`InboxAssumption`, `InboxIdleAssumption`, `CredentialsAssumption`, `ComposeAssumption`,
`ControlAssumption`, `UndoStackAssumption`, `FolderAssumption`, `SyncAssumption`,
`AndroidAssumption`), since the MC modules, which extend none of them, assume it of each of their
instances. It says that bounds are naturals, that `None` is none of the values it stands beside,
that there are two devices, and that plans are sets of instants within the bound. Theorems about the compositions rest on the assumption of the MC
module (`MailAssumption`, `DesktopAssumption`, `DevicesAssumption`), which TLC evaluates.

**Scheduler.** `TypeCorrect` proves `Spec => []TypeOK`. The work is in the lists: a
rebuilt list must stay inside the calendar, which needs lemmas about what
`ComputeOccurrences`, `DueNow`, `Upcoming` and `TopUp` return.

`LedgerInvHolds` proves `Spec => []LedgerInv`. `AttemptOnRecord`, `PickedOnce` and
`ProvenNotResent` are not inductive: whether an occurrence may be picked depends on
`fired`, whose content depends on what `Restore` found on file, which depends on
where the previous process died. `LedgerInv` ties these together, per job, as
long as no write or read has failed:

* `PastIsPast` - what was fired, is on file, or is being run is due; what a run
  has left is later than all of it. (So a report never brings back an instant.)
* `OneOnFile` - at most one entry of a job is on file, and a run, a recovery or a
  queued deletion is responsible for it.
* `RecoveryFirst` - recovery of a job ends before the job is armed or run, and
  concerns one occurrence.
* `FiredNotArmed` - the working set lists a fired occurrence only while the run
  that still holds the same object is sending it.
* `AcceptedIsFired` - an accepted entry is of a fired occurrence.
* `EntryOfRun` - a run past its claim has its entry on file, "sending" during an
  attempt, unless the entry is older than the pruning age.

Two parts about types are proved with it: `DownIsEmpty` (a process that has not
started holds nothing) and `AttachedIsArmed`. The proof has one lemma per action
and one step per part the action can disturb; `AttemptOnRecordHolds`,
`PickedOnceHolds` and `ProvenNotResentHolds` follow.

`CopiesBoundedHolds`: the server takes at most `Copies * MaxAttempts` copies of an occurrence per
life of the process. A count of copies is not inductive, since a run that has sent may send
again. `CopiesInv` therefore counts, per occurrence, what was taken together with what the run
under way may still cause (`Left`: the copies of the attempt it is in and of those it has left),
and allows this one budget for each life; outside a run the lives that are over have paid for
all. That a run never starts where another of the same life has sent is `LedgerInv`.

`NeverOvercountsHolds`: the schedule row counts no more runs than ended, until a ledger write or
read fails. The renderer's count is one of several: `state.json`, the working set, the run under
way and the reports still to be heard have each their own, and a recovery may count an accepted
occurrence in whichever copy still lists it. `TallyInv` therefore counts in each copy its runs
together with the occurrences it lists that were counted already (`Covers`): one of these may be
counted in it once more. What was counted is past, what a run has left is later than it, and until
an earlier life is settled nothing is reported, and of the renderer's list at most the first instant
is not later than what was counted. With a fault it fails: TLC finds a secret that cannot be read,
which leaves the entry of a claim on file behind a run that was listed again, and the occurrence
recovered once more (2 crashes, 1 fault).

**Store.** `TypeCorrect`; `StoreKeepsItsPromise` proves that `StateStore` implements
`DurableState` under the mapping `durable <- disk`, `confirmed <- lastSaved`; and
`QuitKeepsHandedHolds`. They rest on `StoreInv`: documents queue up in order
(`InOrder`: disk, being written, waiting, on their way), a call waits on a document
at least as new as its own and hears of success only from one, and the last
attempt is the newest (`InTime`); what was handed over is the last document of
the queue, or on disk (`HandedOver`).

**Queue.** `TypeCorrect`, `SendingIsSentHolds` and `TriesBoundedHolds`. The types need
`PassInv` (a pass knows its items as they were when it found them due, each with
an attempt left). `TriesBounded` is not inductive, because tries are not stored
in the queue: `TriesInv` accounts for each by an attempt on record, a life of the
process, a rejected call, or the try under way, also for items a pass still has
to come to after the user has taken them out; `FreshInv` says that nothing is
known of a message before its compose send has ended. `TakenOnceHolds`: as long
as no process dies and no reply is lost, the server takes a message of one part once. A message
can be with the compose screen, in the queue and in a pass at the same time; `OnceInv` says of each
of them that what it knows of the message is so (`OneTaking`): it is sent on only while it has not
been taken, and a call reports failure only when it was not.

**The compositions.** A group's theorems hold of `Watch!Spec`, `Folder!Spec` and so on; that they
hold of the behaviours TLC explores (`ChoicesAreKept`, `AnnouncedIsOnce`, `StoppedStaysStopped`, `SendsAreExact`, `DraftsComeBack`,
`MailIsSound`, `BothAgree`, `OnlyDeletionsRemove`, `PhonePays`, `DevicesAreSound`, `NothingIsLost`,
`SwitchesAreCurrent`, `UndoingLeadsBack`, `DesktopIsSound`) needs that the part in
question moves as its component does or rests, for any other `part`. Where an MC module and a
module of proofs instantiate the same component each for itself, a lemma says that the two copies
are the same, definition by definition (`SamePress`, `SameEdit`, ...). These theorems are about
the properties of the runs as the .cfg files name them.

**Inbox.** `BoxInvHolds`: the types; what is listed and what is removed are apart (`Apart`); what the
user removed is in the bin or emptied for good (`BinInv`); and a sync that carries an older switch
for images cannot win over the newer one (`ImagesInv`). It holds whatever the user may do and
however many syncs overlap, and `RemovedStaysHolds` and `ImagesKeptHolds` follow. Two properties
hold for one sync at a time. `ReadStaysHolds` rests on `ReadInv`: a uid keeps its meaning
(`Numbers`), what was read is read wherever the row, the bin and the queue of marks have it
(`ReadMarks`), the dialog that will write its row back has it too (`FormRead`), and a list from the
server reaches what the app knows of (`ListsReach`), so that no landing takes a row out and lists it
unread again. `AnnouncedHolds` rests on `NewsInv`: what is listed was announced once, or was there
before the first sync (`ToldInv`); the next sync is compared with what is listed, also after a
restart (`BaseInv`); nothing is removed (`NothingRemoved`); and a list under way holds what is
listed (`NewsListed`).

**Grants.** `GrantSurvivesHolds` and `JoinsOnlyTheLivingHolds` rest on `GrantInv`: the types; no
token is ahead of what the provider has issued (`Issued`); a call joins no refresh that has ended;
and, as long as none of the things has happened that the code has no protection from (two writes
of the file at once, a refresh invalidated under way, a lost answer, a write that fails, a death),
a token that is to be stored is good and nobody else has it (`StoredIsNew`), and the one in the file
is good or a call holds its successor (`FileIsGood`).

**IDLE.** `StoppedStartsNothingHolds`: a watcher that was stopped starts no connection. That
it waits for nothing (`StoppedRests`) is not enough, because a connection is also started in
place of one that is recycled or drops. `IdleInv` therefore says of the watchers that live
whose socket their client is (`ClientsAreUp`), and that the one in the map lives (`PoolLives`);
whatever comes back to an attempt of a stopped watcher then finds that its client is another.
`OneAtATimeHolds`, for any watchers, sockets and rungs of the backoff, rests on two more parts: a
watcher makes one attempt, or waits to, or has a client (`OneThing`), and attempts are of watchers
that were made (`AreBorn`).

**Control API.** `ControlInvHolds`: a request is remembered by the script (`caller`), the
drop folder (`file`), the main process (`work`) and the window (`run`, `ran`). A process that
ends forgets two of the four. `Fits(r)` says which of their states may meet: one doorway at a
time (`OneDoorway`, `StageOfDoorway`), a file that waits is untouched (`WaitingIsUntouched`),
one that is being carried out has not been (`UnderWayIsUnrun`), and success is recorded only
of a request that was (`SuccessIsRun`). `DroppedRunsOnceHolds` and `ResultIsTrueHolds` follow.
`ServiceInv` adds three parts. `CallsInv`: servers, tokens and endpoint files are of calls that were
made. `AuditInv`: whose turn it is has read the whole log and nobody else has, and what was answered
is in it or could not be written, so that an entry that is given up takes no other with it
(`AnsweredIsAuditedHolds`). `SwitchesInv`: calls are handled in the order they were made in and the
last one has the switches of the window, so that when it is handled the main process has them
(`KnownIsCurrentHolds`, for any callers, changes, exits and failures).

**Undo stack.** `UndoingLeadsBack` rests on `LeadsBack`: the newest entry leads from the state there
is to the state before it, if that is known, and an older one from the state before the next. It says
nothing of an entry that something came between, and a save that lands late is such a thing for
every entry but its own, which needs `OwnInv`: an entry and a save of one edit are about the same
job, so that the entry puts back whatever the save writes. `SentOnceHolds`, while the app runs: what
was fired is not armed again and what was sent was fired in this life (`FiredIsClaimed`). After a
restart it fails (`PaidOnce`, section 3). Its types need that a job counts no run its list still has
to come to (`Paced`), also in entries on the stack and in saves that wait.

**Compose.** `PressInvHolds`: the *balance* of a version, its presses handed over, taken back,
counting down and asked about, never exceeds its presses and equals them until the program
quits. No handler that ends a countdown knows of the others, and the balance is what each of
them keeps. `HandedOverOnceHolds` and `NeverDroppedHolds` are its two halves.
The types of the screen need that nothing is ahead of what was written and that a call is for a
press that was handed over (`ScreenInv`). `RestoreIsUndoableHolds` rests on a lemma about the history (what is recorded has the draft in
front, whatever the cap), `FailedComesBackHolds` on the identity of calls. `SentIsRecoverableHolds`
rests on `HistoryHasSent`: a version that was ever pressed is in the history, if that is on and not
full, since a press records it before anything clears the form and nothing but the cap removes it.

**Data folder.** `FolderInvHolds`: `FilesKept` says which of the folders has a file with all that
was acknowledged, by the stage of the move and the files it has left; `WritesKept` that memory
and every write under way have it too, so that a write which began before a move and ends after
it takes nothing back; `JobsPoint` that the jobs name the folder in use, in memory and in the
file a restart would read. `NothingLostHolds`, `PathsFollowHolds` and `TypeCorrect` follow.

**Device sync.** The theorems suppose that one of the two devices asks and no deletion was undone;
`AcceptedOnceHolds` needs neither. The user may change jobs at any time: what is claimed is claimed of
each job that was not itself changed in mid-exchange (`rushed`). `SyncInv` has three
layers. `Lived` says that what was accepted in this life is below the counter (`Counted`). `Talk`
is about the conversation: the asker asks and the other answers (`OneSided`), a request is at most
one ahead of what the other has accepted, and an exchange under way has the last number
(`Numbers`), and the asker waits for one live message (`Lives`). `Knowledge` is about what the
devices know of each other about a set of jobs K, in memory and on disk, since either may be what
survives. It is stated of one job at a time: a job outside `rushed` never meets a patch that was
computed before it was changed, and what happens to one job depends on no other. What is
older than the asker's last cycle is on the other's disk (`Told`); what is older than the other's,
the asker has if their counters agree (`InStep`), which is what an outstanding answer is
recognised by; and for a request, an exchange and an answer under way (`Requested`, `Replied`,
`Heard`), that its receiver has what it leaves out and loses nothing by it. From this
`ToldIsKeptHolds`, across crashes and failed saves; `AgreedHolds`, until a process dies but whatever
was lost before (the asker has then all the other has, `Synced`, and two devices of which each has
what the other has are alike, `AlikeWhenBothHave`); and `RemovedByDeletionHolds`, from `Wished`: a
device has what its user last wanted, or a later deletion. In the composition `OnlyDeletionsRemove`
also covers the settings with one asker and other bounds, and the one in which both ask, where
nobody edits and there is nothing to remove (`Blank`).

**Phone.** `PhoneSendsOnce` and `PhoneStaysArmed` hold for any jobs, plans and bounds. The ledger
is not what an instant is mailed once by while nothing dies: two works that write it at once may
take back each other's entries, and the invariant does not mention it. `OnceInv` says of each job
that its list holds nothing that was mailed but what the run under way has yet to record
(`ListedIsUnpaid`), that an alarm is for an instant nobody has mailed and no work is paying, and that
only a run which is retried can be armed meanwhile (`AlarmIsUnpaid`, which is where `KEEP` may drop
an alarm), and that a work pays the newest instant that was begun, so that a retry never goes back
to an older one (`WorkFits`). It holds as long as none of the things has happened that `SentOnce`
excepts; the app stays shut then, and a phone that has to boot has neither works nor alarms.
`ArmedInv` adds to `StaysArmed` what is true at the end of a work: the path which reaches "ending"
with nothing armed is the one of the missing account, and that one is on record. Both are proved on
top of the types (`PhoneTypes`), which include that what a worker has read is a value of the key it
is about to write. `DevicePartsProofs` has all three parts, as an MC module has several; the phone
is there as the instance `Phone`, the pairing as `Pair`.

**Types of the devices.** `SyncTypesHold`: that the numbers two devices count never pass `MaxSeq`
is a property of the conversation. A side that answers takes the number of the request and gives
its own, so its counter rises with every request it accepts; it stays in bounds because a device
asks again only when nothing of its last request is left (`Waits`: for each device at most one
live request or one exchange that serves it, and only while it waits), and because the number of
an answer is at most that of its request (`Bounded`). This holds for any jobs and whichever device
asks.

**Pairing.** `PairInv` has three layers. `PairTypes` is the types and, for the numbers, that a row
has sealed at most as much as it accepted and asked (`HostFits`, `JoinFits`). `KeepInv` says that
whatever is remembered of a code - a session, a request under way, an event in the queue to the
panel, a kept key - is of a call of `start()` that is over, and which therefore keeps its pairing;
what the panel stores was checked against the pairing it is open for. `KeysAreKeptForTheirOwn` needs
no patience. `LiveInv` says what the queue to the panel can hold: nothing (`CaughtUp`), the news
of the session that runs (`Showing`), the end of one (`Ending`) or a failure (`Missed`), unless one
call of `start()` is under way and the panel shows no code (`Calling`). It fails for a hasty user,
and so does `DrawnIsLive` (section 3). `DevicesAreSound` joins the types of all eight settings
with these two and with `AcceptedOnce`: it is `DevicesInv` as a whole.

**Only model-checked:** liveness (`DueIsServed`, `RunsEnd`, `SavedOrSaid`, `SlotIsServed`, `Settles`,
`ListedInTheEnd`, `PushComesBack`, `SettlesInTheEnd`, `PairingEnds`, `PaidAndReported`,
`RequestsSettle`), which is beyond the prover. Every safety property of the passing runs is proved.

## 6. Plan

Done: scheduler with ledger and recurrence, store, offline queue, the ten components of the
groups, and proofs of every safety property the passing runs check. What would come next:

1. The device filter `isMyJob()` and the pruning of `fired` in `Scheduler`; three devices.
2. The notification ledger and the new-mail policy's rules.
3. The disagreements that are kept as definitions (section 3), as runs of their own.

### Not modelled

The updater (a download, a checksum and an installer, each a foreign process), images and
sanitizing (parsing and fetches), the transport's MIME building, the user interface, parsers
and i18n, which make up most of the source by lines: views, wording and pure functions on text,
with no order of steps to get wrong that a model would show. Working-day shifts and delivery
windows are date arithmetic inside one step. What is left out of a modelled component is listed
with it above.
