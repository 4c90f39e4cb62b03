------------------------------- MODULE Outbox --------------------------------
(***************************************************************************)
(* The offline queue: src/core/ops/outbox.ts (the rules), the reducer of   *)
(* src/state/services/outboxReducer.ts, and in src/state/AppState.tsx the  *)
(* sender (sendDraftNow), the pass over the queue (flushOutbox) and the    *)
(* boot that puts interrupted items back.                                  *)
(*                                                                         *)
(* A message is the number it got when Send was pressed; messages enter    *)
(* the queue in that order, so a queue is a function from numbers to items.*)
(* A mail merge is several parts, sent one after the other.  Backoff is    *)
(* "not ready yet", and time makes an item ready.                          *)
(*                                                                         *)
(* Bounds of the model, none of the code's: MaxItems messages, MaxParts    *)
(* parts, MaxCrashes, MaxLost (replies lost after the server took the      *)
(* message), MaxFaults (rejected sendNow calls), MaxToggles.  Operators    *)
(* whose names end in Bug are plausible faults of the definition below.    *)
(***************************************************************************)
EXTENDS Integers, Sequences, FiniteSets

CONSTANTS
  MaxAttempts,   \* MAX_ATTEMPTS
  Cap,           \* OUTBOX_CAP
  MaxItems, MaxParts, MaxCrashes, MaxLost, MaxFaults, MaxToggles

ASSUME OutboxAssumption ==
  /\ {MaxAttempts, Cap, MaxItems, MaxParts} \subseteq Nat \ {0}
  /\ {MaxCrashes, MaxLost, MaxFaults, MaxToggles} \subseteq Nat

VARIABLES
  outbox,    \* state.outbox
  disk,      \* the outbox in state.json
  compose,   \* the sendDraftNow() of the compose screen
  flush,     \* the pass in progress; flushing.current = (flush # NoFlush)
  enabled,   \* settings.offlineQueueEnabled
  online,    \* probablyOnline()
  composed,  \* the messages the user has sent: how many parts each has
  taken,     \* how often the server took each part
  tries,     \* how often flushOutbox() tried each message
  crashes, lost, faults, toggles

queueVars == <<outbox, disk>>
sendVars  == <<compose, flush>>
worldVars == <<enabled, online, toggles>>
countVars == <<composed, taken, tries, crashes, lost, faults>>
vars == <<queueVars, sendVars, worldVars, countVars>>

Ids     == 1..MaxItems
Parts   == 1..MaxParts
Item    == [parts : Parts, attempts : 0..MaxAttempts, ready : BOOLEAN,
            status : {"waiting", "sending", "failed"}]
NoItem  == [parts |-> 0, attempts |-> 0, ready |-> FALSE, status |-> "none"]
Queue   == [Ids -> Item \cup {NoItem}]
Verdict == {"ok", "retryable", "final"}

\* A sendDraftNow() on its way: parts left to send and the first failure.
Compose   == [id : Ids, parts : Parts, left : 0..MaxParts, verdict : Verdict, queue : BOOLEAN]
NoCompose == [id |-> 0, parts |-> 0, left |-> 0, verdict |-> "ok", queue |-> FALSE]

\* A pass: the items it found due, as it found them, and the one it is at.
Flush   == [due : SUBSET Ids, found : Queue, at : Ids, left : 0..MaxParts, verdict : Verdict]
NoFlush == [due |-> {}, found |-> [i \in Ids |-> NoItem], at |-> 0, left |-> 0,
            verdict |-> "ok"]

Listed(q)  == {i \in Ids : q[i] # NoItem}
Oldest(S)  == CHOOSE i \in S : \A k \in S : i <= k

Init ==
  /\ outbox = [i \in Ids |-> NoItem] /\ disk = outbox
  /\ compose = NoCompose /\ flush = NoFlush
  /\ enabled = TRUE /\ online = TRUE /\ toggles = 0
  /\ composed = <<>> /\ taken = [i \in Ids |-> [p \in Parts |-> 0]]
  /\ tries = [i \in Ids |-> 0]
  /\ crashes = 0 /\ lost = 0 /\ faults = 0

-----------------------------------------------------------------------------
(* The queue. *)

\* slice(-OUTBOX_CAP): the oldest item makes room.
Enqueue(q, i, item) ==
  LET full == [q EXCEPT ![i] = item]
  IN  IF Cardinality(Listed(full)) > Cap
        THEN [full EXCEPT ![Oldest(Listed(full))] = NoItem] ELSE full

PatchInsertsBug(q, i, item) == [q EXCEPT ![i] = item]   \* an item gone comes back

Patch(q, i, item) == IF q[i] = NoItem THEN q ELSE [q EXCEPT ![i] = item]

DueItems == {i \in Ids : outbox[i].status = "waiting" /\ outbox[i].ready
                         /\ outbox[i].attempts < MaxAttempts}

AfterAttemptForeverBug(item, verdict) ==   \* a retry that never gives up
  [item EXCEPT !.ready = FALSE,
               !.status = IF verdict = "final" THEN "failed" ELSE "waiting"]

\* The item after a failed attempt.
AfterAttempt(item, verdict) ==
  [item EXCEPT !.attempts = @ + 1, !.ready = FALSE,
               !.status = IF item.attempts + 1 >= MaxAttempts \/ verdict # "retryable"
                            THEN "failed" ELSE "waiting"]

-----------------------------------------------------------------------------
(* One call of the transport: it succeeds, or fails whether or not the      *)
(* server took the message.                                                 *)

SendPart(i, part, verdict) ==
  \/ /\ verdict = "ok"
     /\ taken' = [taken EXCEPT ![i][part] = @ + 1]
     /\ UNCHANGED lost
  \/ verdict # "ok" /\ UNCHANGED <<taken, lost>>
  \/ /\ verdict # "ok" /\ lost < MaxLost
     /\ taken' = [taken EXCEPT ![i][part] = @ + 1]
     /\ lost' = lost + 1

First(before, verdict) == IF before = "ok" THEN verdict ELSE before

-----------------------------------------------------------------------------
(* The compose screen. *)

\* sendDraftNow() starts; the setting is read now, not when the result is in.
ComposeSend ==
  /\ compose = NoCompose /\ Len(composed) < MaxItems
  /\ \E n \in Parts :
       /\ composed' = Append(composed, n)
       /\ compose' = [id |-> Len(composed) + 1, parts |-> n, left |-> n,
                      verdict |-> "ok", queue |-> enabled]
  /\ UNCHANGED <<queueVars, flush, worldVars, taken, tries, crashes, lost, faults>>

ComposePart ==
  /\ compose.left > 0
  /\ \E verdict \in Verdict :
       /\ SendPart(compose.id, compose.left, verdict)
       /\ compose' = [compose EXCEPT !.left = @ - 1, !.verdict = First(@, verdict)]
  /\ UNCHANGED <<queueVars, flush, worldVars, composed, tries, crashes, faults>>

\* Sent, queued, or handed back to the screen as failed.
ComposeEnds ==
  /\ compose # NoCompose /\ compose.left = 0
  /\ outbox' = IF compose.verdict = "retryable" /\ compose.queue
                 THEN Enqueue(outbox, compose.id,
                              [parts |-> compose.parts, attempts |-> 1, ready |-> FALSE,
                               status |-> "waiting"])
                 ELSE outbox
  /\ compose' = NoCompose
  /\ UNCHANGED <<disk, flush, worldVars, countVars>>

-----------------------------------------------------------------------------
(* The pass over the queue. *)

\* On to the next of the items found due, or the end of the pass.
Begin(q, due, found) ==
  IF due = {}
    THEN /\ flush' = NoFlush /\ outbox' = q /\ UNCHANGED tries
    ELSE LET i == Oldest(due)
         IN  /\ flush' = [due |-> due, found |-> found, at |-> i,
                          left |-> found[i].parts, verdict |-> "ok"]
             /\ outbox' = Patch(q, i, [q[i] EXCEPT !.status = "sending"])
             /\ tries' = [tries EXCEPT ![i] = @ + 1]

\* Every 20 seconds, when the network is back, when the window is shown.
StartFlush ==
  /\ flush = NoFlush /\ enabled /\ online /\ DueItems # {}
  /\ Begin(outbox, DueItems, outbox)
  /\ UNCHANGED <<disk, compose, worldVars, composed, taken, crashes, lost, faults>>

FlushPart ==
  /\ flush.left > 0
  /\ \E verdict \in Verdict :
       /\ SendPart(flush.at, flush.left, verdict)
       /\ flush' = [flush EXCEPT !.left = @ - 1, !.verdict = First(@, verdict)]
  /\ UNCHANGED <<queueVars, compose, worldVars, composed, tries, crashes, faults>>

FlushedKeepsBug ==   \* whatever the result was, the item waits for another attempt
  Patch(outbox, flush.at, AfterAttempt(flush.found[flush.at], "retryable"))

\* The queue once the attempt is over.
Flushed ==
  IF flush.verdict = "ok"
    THEN [outbox EXCEPT ![flush.at] = NoItem]
    ELSE Patch(outbox, flush.at, AfterAttempt(flush.found[flush.at], flush.verdict))

\* One item is done and the next one begins, in one turn.
FlushEnds ==
  /\ flush # NoFlush /\ flush.left = 0
  /\ Begin(Flushed, flush.due \ {flush.at}, flush.found)
  /\ UNCHANGED <<disk, compose, worldVars, composed, taken, crashes, lost, faults>>

\* sendNow() rejects (a secrets file that cannot be read): the pass is over.
FlushRejects ==
  /\ flush.left > 0 /\ faults < MaxFaults
  /\ faults' = faults + 1
  /\ flush' = NoFlush
  /\ UNCHANGED <<queueVars, compose, worldVars, composed, taken, tries, crashes, lost>>

-----------------------------------------------------------------------------
(* The world around it. *)

\* The backoff of an item has elapsed.
Elapse(i) ==
  /\ outbox[i].status = "waiting" /\ ~outbox[i].ready
  /\ outbox' = [outbox EXCEPT ![i].ready = TRUE]
  /\ UNCHANGED <<disk, sendVars, worldVars, countVars>>

\* The user takes an item out, to edit it or to discard it.
TakeOut(i) ==
  /\ i \in Listed(outbox)
  /\ outbox' = [outbox EXCEPT ![i] = NoItem]
  /\ UNCHANGED <<disk, sendVars, worldVars, countVars>>

ToggleQueue ==
  /\ toggles < MaxToggles
  /\ toggles' = toggles + 1 /\ enabled' = ~enabled
  /\ UNCHANGED <<queueVars, sendVars, online, countVars>>

Network ==
  /\ online' = ~online
  /\ UNCHANGED <<queueVars, sendVars, enabled, toggles, countVars>>

Save ==
  /\ disk' = outbox
  /\ UNCHANGED <<outbox, sendVars, worldVars, countVars>>

RecoveredAsIsBug == disk   \* interrupted items stay "sending"

\* What the boot makes of the saved queue.
Recovered ==
  [i \in Ids |-> IF disk[i].status = "sending"
                   THEN [disk[i] EXCEPT !.status = "waiting"] ELSE disk[i]]

\* The process dies and starts again.
Crash ==
  /\ crashes < MaxCrashes
  /\ crashes' = crashes + 1
  /\ outbox' = Recovered
  /\ compose' = NoCompose /\ flush' = NoFlush
  /\ UNCHANGED <<disk, worldVars, composed, taken, tries, lost, faults>>

-----------------------------------------------------------------------------
Next ==
  \/ ComposeSend \/ ComposePart \/ ComposeEnds
  \/ StartFlush \/ FlushPart \/ FlushEnds \/ FlushRejects
  \/ \E i \in Ids : Elapse(i) \/ TakeOut(i)
  \/ ToggleQueue \/ Network \/ Save \/ Crash

Spec == Init /\ [][Next]_vars

\* Time passes, calls return, and a pass starts again and again: the `online`
\* event starts one the moment the network is back, so one that keeps going
\* away and coming back does not prevent it.
Fairness ==
  /\ WF_vars(\E i \in Ids : Elapse(i))
  /\ SF_vars(StartFlush) /\ WF_vars(FlushPart) /\ WF_vars(FlushEnds)
  /\ WF_vars(Network /\ ~online)

FairSpec == Spec /\ Fairness

-----------------------------------------------------------------------------
(* Properties. *)

TypeOK ==
  /\ outbox \in Queue /\ disk \in Queue
  /\ compose \in Compose \cup {NoCompose} /\ flush \in Flush \cup {NoFlush}
  /\ {enabled, online} \subseteq BOOLEAN
  /\ composed \in Seq(Parts) /\ Len(composed) <= MaxItems
  /\ taken \in [Ids -> [Parts -> Nat]] /\ tries \in [Ids -> Nat]
  /\ {crashes, lost, faults, toggles} \subseteq Nat

\* An item that says "sending" is being sent: nothing waits for ever behind a
\* status that no pass looks at, unless a call was rejected.
SendingIsSent ==
  faults = 0 =>
    \A i \in Ids : outbox[i].status = "sending" => flush # NoFlush /\ flush.at = i

\* Without a crash or a lost reply the server takes a message once, however
\* compose, passes and the user's changes to the queue interleave.  (Not so a
\* merge: one that failed for one recipient goes to all of them again.)
TakenOnce ==
  (crashes = 0 /\ lost = 0) =>
    \A i \in DOMAIN composed : composed[i] = 1 => taken[i][1] <= 1

\* A message is not tried more often than the queue allows per process life.
TriesBounded == \A i \in Ids : tries[i] <= MaxAttempts * (1 + crashes) + faults

\* A queued message does not stay in the queue unsettled: it is sent, has
\* visibly failed, is taken out, or the queue is off.
Settles ==
  \A i \in Ids :
    (outbox[i] # NoItem) ~> \/ outbox[i] = NoItem \/ outbox[i].status = "failed"
                            \/ ~enabled \/ faults > 0

\* The inductive invariant behind TriesBounded.  A pass knows its items as they
\* were when it found them due, and is at one of them ...
PassInv ==
  flush # NoFlush =>
    /\ flush.at \in flush.due
    /\ \A i \in flush.due : flush.found[i] \in Item /\ flush.found[i].attempts < MaxAttempts

\* ... nothing is known of a message before its compose send has ended ...
FreshInv ==
  /\ compose.id <= Len(composed)
  /\ \A i \in Ids : (i > Len(composed) \/ compose.id = i) =>
       tries[i] = 0 /\ outbox[i] = NoItem /\ disk[i] = NoItem /\ i \notin flush.due

\* ... and each try is accounted for by an attempt on record, a life of the
\* process, a rejected call, or is the one under way.
Spent    == MaxAttempts * crashes + faults
Going(i) == IF flush.at = i THEN 1 ELSE 0
TriesInv ==
  \A i \in Ids :
    /\ tries[i] <= Spent + MaxAttempts
    /\ outbox[i] # NoItem => tries[i] <= Spent + outbox[i].attempts + Going(i)
    /\ i \in flush.due => tries[i] <= Spent + flush.found[i].attempts + Going(i)

\* The inductive invariant behind TakenOnce.  A call for a message of one part has
\* not been taken before its attempt, nor after one that failed.
Attempted(i, left, verdict) ==
  /\ left <= 1
  /\ left = 1 => verdict = "ok" /\ taken[i][1] = 0
  /\ verdict # "ok" => taken[i][1] = 0

\* Whoever may still send it -- the compose screen, the pass or the queue -- does so
\* only while the server has not taken it, and the pass is at the one that it has.
OneTaking(i) ==
  /\ taken[i][1] <= 1
  /\ compose.id = i => compose.parts = 1 /\ Attempted(i, compose.left, compose.verdict)
  /\ flush.at = i => Attempted(i, flush.left, flush.verdict)
  /\ i \in flush.due => flush.found[i].parts = 1 /\ (flush.at = i \/ taken[i][1] = 0)
  /\ outbox[i] # NoItem => outbox[i].parts = 1 /\ (flush.at = i \/ taken[i][1] = 0)

OnceInv ==
  /\ \A i \in Ids : i > Len(composed) => taken[i] = [p \in Parts |-> 0]
  /\ (crashes = 0 /\ lost = 0) =>
       \A i \in DOMAIN composed : composed[i] = 1 => OneTaking(i)

\* OutboxStrip.tsx: an item taken out to be edited is not sent meanwhile.
TakenOutIsNotSent ==
  [][\A i \in Ids : tries'[i] > tries[i] => outbox[i] # NoItem]_vars
=============================================================================
