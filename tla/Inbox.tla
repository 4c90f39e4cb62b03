-------------------------------- MODULE Inbox --------------------------------
(***************************************************************************)
(* One mailbox as the app keeps it: syncInboxAccount() and what it calls   *)
(* (src/state/AppState.tsx), the fetch behind it (runSync in               *)
(* electron/imap.ts), the read marks pushed to the server, the recycle bin *)
(* (core/mail/inboxRemoval.ts), tags, the archive and the announcement of  *)
(* new mail (core/mail/newMail.ts).                                        *)
(*                                                                         *)
(* A message is its uid.  A sync awaits its retries of read marks, then    *)
(* the server, and is given the account row of the closure it runs from:   *)
(* the timer and the push events hold the row of the render in which the   *)
(* host or the port changed last, the dialog the row it was opened with.   *)
(* The dialog is modal; every dispatch is written as one step.             *)
(*                                                                         *)
(* Left out: the account's deletion, disabling it, destroying messages on  *)
(* the server, the caps on the lists and the recency window (all mail is   *)
(* recent), notification rules and quiet hours, bodies.                    *)
(*                                                                         *)
(* Bounds of the model: Mail, Slots (syncs at one time), MaxActs (of the   *)
(* user, renumberings and restarts), MaxFaults, Does (the acts there are). *)
(***************************************************************************)
EXTENDS Integers, FiniteSets

CONSTANTS
  Mail, Slots, None,
  Ruled,      \* mail of senders a rule tags
  Does, MaxActs, MaxFaults

InboxAssumption ==
  /\ Ruled \subseteq Mail /\ {MaxActs, MaxFaults} \subseteq Nat
  /\ None \notin Slots \cup Mail /\ \A uids \in SUBSET Mail : uids # None

VARIABLES
  srv,      \* the server: the mail it has, the read ones, UIDVALIDITY
  row,      \* the account's row: settings, messages, bin, archive
  held,     \* the row the closures of the timer and the push events hold
  form,     \* the row the open account dialog began with
  queue,    \* pendingSeenPushes: per message the mark not confirmed yet
  pushes,   \* the marks on their way to the server
  syncs,    \* the syncs under way
  busy,     \* syncInFlight
  base,     \* seenInboxIds: what the last sync that landed brought
  rang,     \* mail whose push event the renderer has not seen
  mine,     \* what the user has done last, by kind
  told,     \* how often each message was announced
  acts, faults

ghosts == <<mine, told>>
vars   == <<srv, row, held, form, queue, pushes, syncs, busy, base, rang, ghosts, acts, faults>>

Empty      == [m \in {} |-> {}]
Only(f, S) == [m \in S \cap DOMAIN f |-> f[m]]
Over(f, g) == [m \in DOMAIN f \cup DOMAIN g |-> IF m \in DOMAIN f THEN f[m] ELSE g[m]]
Put(m, x, f) == Over([n \in {m} |-> x], f)
NoKeys     == {None}   \* an archive that was never used
Old        == 3        \* mail that was there before the first sync: not news

Init ==
  \E box \in SUBSET Mail, synced \in BOOLEAN,
     keys \in IF "archive" \in Does THEN {NoKeys, {}} ELSE {NoKeys} :
    /\ srv = [box |-> box, seen |-> {}, val |-> 1]
    /\ row = [set |-> 0, images |-> FALSE, removed |-> Empty, archived |-> keys,
              synced |-> synced, failed |-> FALSE, val |-> IF synced THEN 1 ELSE 0,
              msgs |-> IF synced THEN [m \in box |-> [seen |-> FALSE, tag |-> FALSE, val |-> 1]]
                                 ELSE Empty]
    /\ held = row /\ form = None /\ queue = Empty /\ pushes = {}
    /\ syncs = [s \in Slots |-> None] /\ busy = FALSE /\ base = None /\ rang = {}
    /\ mine = [set |-> 0, images |-> FALSE, gone |-> {}, emptied |-> {}, back |-> {},
               archived |-> {}, tagged |-> {}, read |-> {}, unread |-> {}, heard |-> {}]
    /\ told = [m \in Mail |-> IF synced /\ m \in box THEN Old ELSE 0] /\ acts = 0 /\ faults = 0

Listed == DOMAIN row.msgs
Acts(what)   == what \in Does /\ acts < MaxActs /\ acts' = acts + 1
AtHand(what) == form = None /\ Acts(what)   \* the dialog is modal
Faults == faults < MaxFaults /\ faults' = faults + 1

-----------------------------------------------------------------------------
(* The reducer *)

\* A mark the server has not confirmed wins; else a message read here stays read.
MergeSeenFlags(in) ==
  [m \in DOMAIN in |->
     LET read(msgs) == m \in DOMAIN msgs /\ msgs[m].seen /\ msgs[m].val = in[m].val
     IN  [in[m] EXCEPT !.seen = IF m \in DOMAIN queue /\ queue[m].val = in[m].val
                                THEN queue[m].seen ELSE @ \/ read(row.msgs)]]

MergeRemovedBug(in) == in
MergeRemoved(in) == Over(row.removed, in)

Preferences(in, sync) == IF sync THEN row.images ELSE in.images

CarryArchivedKeys(in) == IF in = NoKeys THEN row.archived ELSE in

UpsertInboxAccount(in, sync) ==
  LET removed == MergeRemoved(in.removed)
      merged  == IF sync THEN MergeSeenFlags(in.msgs) ELSE in.msgs
  IN  [in EXCEPT !.images = Preferences(in, sync), !.removed = removed,
                 !.archived = CarryArchivedKeys(in.archived),
                 !.msgs = Only(merged, Mail \ DOMAIN removed)]

-----------------------------------------------------------------------------
(* The server, and the marks on their way to it *)

Arrive(m) ==
  /\ m \notin srv.box
  /\ srv' = [srv EXCEPT !.box = @ \cup {m}] /\ rang' = rang \cup {m}
  /\ UNCHANGED <<row, held, form, queue, pushes, syncs, busy, base, ghosts, acts, faults>>

\* The folder is renumbered: its uids name other messages now.
Renumber ==
  /\ Acts("renumber") /\ srv.val = 1
  /\ srv' = [srv EXCEPT !.val = 2, !.seen = {}]
  /\ mine' = [mine EXCEPT !.gone = {}, !.emptied = {}, !.back = {}, !.archived = {},
                          !.tagged = {}, !.read = {}, !.unread = {}]
  /\ UNCHANGED <<row, held, form, queue, pushes, syncs, busy, base, rang, told, faults>>

SetServerSeenFlag(p) ==
  srv' = [srv EXCEPT !.seen = IF p.seen THEN @ \cup {p.mail} ELSE @ \ {p.mail}]

\* A mark is set and the answer arrives: the entry it was sent for, and no
\* newer one, leaves the queue.
Confirmed(p) ==
  /\ SetServerSeenFlag(p) /\ pushes' = pushes \ {p}
  /\ queue' = IF p.mail \in DOMAIN queue /\ queue[p.mail].entry = p.entry
              THEN Only(queue, Mail \ {p.mail}) ELSE queue
  /\ UNCHANGED <<row, held, form, syncs, busy, base, rang, ghosts, acts, faults>>

\* It is refused, or set and the answer lost: the entry stays.
Refused(p) ==
  /\ Faults /\ pushes' = pushes \ {p}
  /\ SetServerSeenFlag(p) \/ UNCHANGED srv
  /\ UNCHANGED <<row, held, form, queue, syncs, busy, base, rang, ghosts, acts>>

-----------------------------------------------------------------------------
(* A sync *)

\* flushPendingSeen(): what is still owed to the server goes first, but for
\* marks on a folder that was renumbered since.
Owed == {m \in DOMAIN queue : row.val \in {0, queue[m].val}}

Retries(s) == {[mail |-> m, seen |-> queue[m].seen, entry |-> queue[m].entry, by |-> s] : m \in Owed}

Starts(s, config) ==
  /\ syncs[s] = None /\ busy' = TRUE
  /\ syncs' = [syncs EXCEPT ![s] =
       [step |-> "flush", row |-> config, was |-> IF config.synced THEN DOMAIN config.msgs ELSE {None}]]
  /\ pushes' = pushes \cup Retries(s) /\ queue' = Only(queue, Owed)

\* From the timer, or Check now, which runs from the last render.
Free == ~busy

Poll(s) ==
  /\ Free /\ \E config \in {held, row} : Starts(s, config)
  /\ UNCHANGED <<srv, row, held, form, base, rang, ghosts, acts, faults>>

\* A push event: answered with a sync, or by the one that is running.
InboxEvent(m) ==
  /\ m \in rang /\ rang' = rang \ {m} /\ mine' = [mine EXCEPT !.heard = @ \cup {m}]
  /\ \/ busy /\ UNCHANGED <<syncs, busy, pushes, queue>>
     \/ Free /\ \E s \in Slots : Starts(s, held)
  /\ UNCHANGED <<srv, row, held, form, base, told, acts, faults>>

\* runSync(): the messages as the server has them, tags as config has them.
FetchedBug(config) ==
  [config EXCEPT !.val = srv.val, !.synced = TRUE, !.failed = FALSE,
     !.msgs = Only(@, srv.box)]

Fetched(config) ==
  [config EXCEPT !.val = srv.val, !.synced = TRUE, !.failed = FALSE,
     !.msgs = [m \in srv.box |->
       [seen |-> m \in srv.seen, val |-> srv.val,
        tag |-> config.val = srv.val /\ m \in DOMAIN config.msgs /\ config.msgs[m].tag]]]

SyncInbox(s) ==
  /\ syncs[s] # None /\ syncs[s].step = "flush" /\ \A p \in pushes : p.by # s
  /\ syncs' = [syncs EXCEPT ![s].step = "listed", ![s].row = Fetched(@)]
  /\ UNCHANGED <<srv, row, held, form, queue, pushes, busy, base, rang, ghosts, acts, faults>>

\* announceNewMail(): against what the last sync brought or, for the first
\* of the session, against the row this one was started with.
BaselineLateBug(s) == DOMAIN syncs[s].row.msgs

Baseline(s) == IF base = None THEN syncs[s].was ELSE base

Arrivals(s) ==
  IF Baseline(s) = {None} THEN {}
  ELSE {m \in DOMAIN syncs[s].row.msgs \ Baseline(s) : ~syncs[s].row.msgs[m].seen}

AutoTagged(s) == {m \in Ruled \cap DOMAIN syncs[s].row.msgs : ~syncs[s].row.msgs[m].tag} \ Baseline(s)

Announce(s) ==
  /\ base' = DOMAIN syncs[s].row.msgs
  /\ told' = [m \in Mail |->
       IF m \in Arrivals(s) THEN (IF told[m] < 2 THEN told[m] + 1 ELSE 2)
       ELSE IF m \in base' /\ Baseline(s) = {None} THEN Old ELSE told[m]]

Land(s) ==
  /\ syncs[s] # None /\ syncs[s].step = "listed"
  /\ row' = LET in == UpsertInboxAccount(syncs[s].row, TRUE)
            IN  [in EXCEPT !.msgs = [m \in DOMAIN @ |->
                   IF m \in AutoTagged(s) THEN [@[m] EXCEPT !.tag = TRUE] ELSE @[m]]]
  /\ Announce(s)
  /\ mine' = [mine EXCEPT !.tagged = @ \cup (AutoTagged(s) \cap DOMAIN row'.msgs),
                          !.read = @ \ (DOMAIN row'.removed \ DOMAIN row.removed)]
  /\ syncs' = [syncs EXCEPT ![s] = None] /\ busy' = FALSE
  /\ UNCHANGED <<srv, held, form, queue, pushes, rang, acts, faults>>

\* It fails: the error is all it writes.
WithError(s) == [row EXCEPT !.failed = TRUE]

Fail(s) ==
  /\ Faults /\ syncs[s] # None /\ \A p \in pushes : p.by # s
  /\ row' = UpsertInboxAccount(WithError(s), TRUE)
  /\ syncs' = [syncs EXCEPT ![s] = None] /\ busy' = FALSE
  /\ UNCHANGED <<srv, held, form, queue, pushes, base, rang, ghosts, acts>>

-----------------------------------------------------------------------------
(* The user *)

MarkRead(m, seen) ==
  /\ AtHand("mark") /\ m \in Listed
  /\ row' = [row EXCEPT !.msgs[m].seen = seen]
  /\ queue' = Put(m, [entry |-> acts', seen |-> seen, val |-> row.msgs[m].val], queue)
  /\ pushes' = pushes \cup {[mail |-> m, seen |-> seen, entry |-> acts', by |-> None]}
  /\ mine' = [mine EXCEPT !.read = IF seen THEN @ \cup {m} ELSE @ \ {m},
                          !.unread = IF seen THEN @ \ {m} ELSE @ \cup {m}]
  /\ UNCHANGED <<srv, held, form, syncs, busy, base, rang, told, faults>>

Tag(m) ==
  /\ AtHand("tag") /\ m \in Listed
  /\ row' = [row EXCEPT !.msgs[m].tag = TRUE] /\ mine' = [mine EXCEPT !.tagged = @ \cup {m}]
  /\ UNCHANGED <<srv, held, form, queue, pushes, syncs, busy, base, rang, told, faults>>

RemoveMessage(m) ==
  /\ AtHand("bin") /\ m \in Listed
  /\ row' = [row EXCEPT !.msgs = Only(@, Mail \ {m}), !.removed = Put(m, row.msgs[m], @)]
  /\ mine' = [mine EXCEPT !.gone = @ \cup {m}, !.emptied = @ \ {m}, !.back = @ \ {m}]
  /\ UNCHANGED <<srv, held, form, queue, pushes, syncs, busy, base, rang, told, faults>>

RestoreMessage(m) ==
  /\ AtHand("bin") /\ m \in DOMAIN row.removed
  /\ row' = [row EXCEPT !.removed = Only(@, Mail \ {m}), !.msgs = Put(m, row.removed[m], @)]
  /\ mine' = [mine EXCEPT !.gone = @ \ {m}, !.back = @ \cup {m}]
  /\ UNCHANGED <<srv, held, form, queue, pushes, syncs, busy, base, rang, told, faults>>

ClearRemoved ==
  /\ AtHand("empty") /\ row.removed # Empty /\ row' = [row EXCEPT !.removed = Empty]
  /\ mine' = [mine EXCEPT !.gone = {}, !.emptied = @ \cup mine.gone]
  /\ UNCHANGED <<srv, held, form, queue, pushes, syncs, busy, base, rang, told, faults>>

Archived == row.archived \ {None}

Archive(m) ==
  /\ AtHand("archive") /\ m \in Listed \ Archived
  /\ row' = [row EXCEPT !.archived = Archived \cup {m}]
  /\ mine' = [mine EXCEPT !.archived = @ \cup {m}]
  /\ UNCHANGED <<srv, held, form, queue, pushes, syncs, busy, base, rang, told, faults>>

Unarchive(m) ==
  /\ AtHand("archive") /\ m \in Archived
  /\ row' = [row EXCEPT !.archived = @ \ {m}] /\ mine' = [mine EXCEPT !.archived = @ \ {m}]
  /\ UNCHANGED <<srv, held, form, queue, pushes, syncs, busy, base, rang, told, faults>>

ChooseImages ==
  /\ AtHand("images")
  /\ row' = UpsertInboxAccount([row EXCEPT !.images = ~@], FALSE)
  /\ mine' = [mine EXCEPT !.images = ~@]
  /\ UNCHANGED <<srv, held, form, queue, pushes, syncs, busy, base, rang, told, faults>>

OpenForm ==
  /\ "settings" \in Does /\ form = None /\ acts < MaxActs /\ form' = row
  /\ UNCHANGED <<srv, row, held, queue, pushes, syncs, busy, base, rang, ghosts, acts, faults>>

\* saveInboxAccount(): the dialog's row is written and a sync started with
\* it, whether or not one is running.  A host or port that changed gives the
\* timer and the push events a new closure.
SaveForm(server) ==
  /\ Acts("settings") /\ form # None /\ form' = None
  /\ LET config == [form EXCEPT !.set = acts']
     IN  /\ row' = UpsertInboxAccount(config, FALSE)
         /\ \E s \in Slots : Starts(s, config)
  /\ mine' = [mine EXCEPT !.set = acts'] /\ held' = IF server THEN row' ELSE held
  /\ UNCHANGED <<srv, base, rang, told, faults>>

\* The app is closed and opened: only the row was saved.
Restart ==
  /\ Acts("restart")
  /\ held' = row /\ form' = None /\ queue' = Empty /\ syncs' = [s \in Slots |-> None]
  /\ busy' = FALSE /\ base' = None /\ rang' = {} /\ pushes' = {}
  /\ mine' = [mine EXCEPT !.heard = {}]
  /\ UNCHANGED <<srv, row, told, faults>>

Sync == \E s \in Slots : Poll(s) \/ SyncInbox(s) \/ Land(s) \/ Fail(s)
Push == (\E m \in Mail : InboxEvent(m)) \/ (\E p \in pushes : Confirmed(p) \/ Refused(p))
User ==
  \/ \E m \in Mail :
       \/ \E seen \in BOOLEAN : MarkRead(m, seen)
       \/ Tag(m) \/ RemoveMessage(m) \/ RestoreMessage(m) \/ Archive(m) \/ Unarchive(m)
  \/ ClearRemoved \/ ChooseImages \/ OpenForm \/ (\E server \in BOOLEAN : SaveForm(server))
Next == Sync \/ Push \/ User \/ Renumber \/ Restart \/ (\E m \in Mail : Arrive(m))

Spec == Init /\ [][Next]_vars

-----------------------------------------------------------------------------
(* Properties *)

Messages == UNION {[S -> [seen : BOOLEAN, tag : BOOLEAN, val : 1..2]] : S \in SUBSET Mail}
Rows == [set : 0..MaxActs, images : BOOLEAN, msgs : Messages, removed : Messages,
         archived : SUBSET (Mail \cup {None}), synced : BOOLEAN, failed : BOOLEAN, val : 0..2]

\* Every variable has its type, and what is in the recycle bin is not listed.
TypeOK ==
  /\ srv \in [box : SUBSET Mail, seen : SUBSET Mail, val : 1..2]
  /\ row \in Rows /\ held \in Rows /\ form \in Rows \cup {None}
  /\ DOMAIN queue \subseteq Mail /\ busy \in BOOLEAN /\ rang \subseteq Mail
  /\ Listed \cap DOMAIN row.removed = {}
  /\ \A p \in pushes : p.mail \in Mail /\ p.seen \in BOOLEAN /\ p.by \in Slots \cup {None}
  /\ \A s \in Slots : syncs[s] # None => syncs[s].row \in Rows
  /\ base = None \/ base \subseteq Mail
  /\ told \in [Mail -> 0..3] /\ acts \in 0..MaxActs /\ faults \in 0..MaxFaults

\* A message the user removed is not listed until it is restored, whatever
\* row a sync or the dialog writes back (the tombstones of inboxRemoval.ts).
RemovedStays == mine.gone \cap Listed = {}

\* A message the user read stays read, however late its mark reaches the
\* server and whatever a sync of before says (mergeSeenFlags), where it reads
\* them: a sync of before that puts a restored message in the bin again has
\* its old flag there, which `mine` no longer counts as read (RestoredStays).
ReadStays == \A m \in mine.read \cap Listed : row.msgs[m].seen

\* The switch for remote images keeps what the user chose while syncs that
\* began earlier land (the reducer's preferences).
ImagesKept == row.images = mine.images

\* No message is announced twice, restarts included (seenInboxIds and
\* restoredBaseline): where nothing is removed, the dialog is not used and
\* uids keep their meaning.
ToldOnce == \A m \in Mail : told[m] # 2

\* Nothing is listed unannounced that was not there at the first sync.
ToldAll == \A m \in Listed : told[m] # 0

\* Mail that arrived is listed in the end, or in the recycle bin.
ListedInTheEnd ==
  \A m \in Mail : m \in srv.box ~> (m \in Listed \cup DOMAIN row.removed)

\* "A sync result is authoritative about the mailbox and about nothing else"
\* (AppState.tsx:951-952): the settings the user saved stay.
SettingsKept == row.set = mine.set

\* An automatic tag "lives and persists exactly as a hand-set one does"
\* (AppState.tsx:2821-2822): a message that is tagged stays tagged.
TagsKept == \A m \in mine.tagged \cap Listed : row.msgs[m].tag

\* "a sync ... that carries no keys must inherit the prior list rather than
\* erase it" (inboxRemoval.ts:146-148): the archive is what the user made it.
ArchiveKept == Archived = mine.archived

\* "Take messages back out of the recycle bin and straight into the list"
\* (AppState.tsx:1038): what was restored is not in the bin again.
RestoredStays == mine.back \cap DOMAIN row.removed = {}

\* Emptying the recycle bin, "you just lose the one-click restore"
\* (en.ts:885): the messages do not come back to the list.
EmptiedStays == mine.emptied \cap Listed = {}

\* "starting a second one cannot produce fresher mail than the first is
\* already fetching" (AppState.tsx:3100-3101): with no sync under way and none
\* failed, mail the server announced is listed.
PushIsAnswered ==
  ((\A s \in Slots : syncs[s] = None) /\ ~row.failed)
    => mine.heard \subseteq Listed \cup DOMAIN row.removed

\* "Both directions ... a deliberate mark-as-unread" (AppState.tsx:709-711):
\* what the user marked unread is unread.
UnreadStays == \A m \in mine.unread \cap Listed : ~row.msgs[m].seen

\* The tombstone's key is the "identity of a message on a server"
\* (inboxRemoval.ts): it hides no message the user did not remove.
HidesOnlyRemoved ==
  row.val = srv.val => DOMAIN row.removed \subseteq mine.gone

\* "importing a decade of mailbox must not repaint it" (AppState.tsx:2824):
\* the first sync there ever is tags nothing.
FirstSyncPaintsNothing ==
  [][(~row.synced /\ row'.synced) => \A m \in DOMAIN row'.msgs : ~row'.msgs[m].tag]_vars
=============================================================================
