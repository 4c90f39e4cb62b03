------------------------------ MODULE ControlApi ------------------------------
(***************************************************************************)
(* The control interface: electron/controlServer.ts (the loopback server   *)
(* and the drop folder), its hooks and handlers in electron/main.ts, the   *)
(* audit log of electron/store.ts, the executor of the window              *)
(* (src/state/controlExecutor.ts and its effects in src/state/AppState.tsx)*)
(* and the caller integrations/cli.mjs.                                    *)
(*                                                                         *)
(* A request is one that changes something.  The calendar switch, which    *)
(* keeps the same server up, is one with the switch of the interface; an   *)
(* endpoint file is the port and the token it names; the number of the     *)
(* call that started a server stands for its port and its token.           *)
(*                                                                         *)
(* Bounds of the model: Requests (Sends of them send mail), Callers (parts *)
(* of the screen that apply a changed switch), MaxToggles, MaxExits,       *)
(* MaxFaults.                                                              *)
(***************************************************************************)
EXTENDS Integers, FiniteSets, Sequences

CONSTANTS Requests, Sends, Callers, None, MaxToggles, MaxExits, MaxFaults

ControlAssumption ==
  /\ Sends \subseteq Requests /\ None \notin Requests
  /\ Callers \in Nat \ {0} /\ {MaxToggles, MaxExits, MaxFaults} \subseteq Nat

VARIABLES
  settings,  \* the switches, as the window has them
  calls,     \* the calls of applyControl, by number
  known, server, token, ports,  \* controlSettings, the server's fields, the listening ports
  endpoint,  \* ~/.aevistle/endpoint.json
  old,       \* an older version's endpoint file is in the data folder
  window,    \* none, loading, early (it listens), up (it has its state)
  caller,    \* per request: what the script is doing, or how it ended
  file,      \* per request: its file in the drop folder
  work,      \* per request: where the main process is with it
  run,       \* per request: where the window is with it
  ran,       \* per request: how often it was carried out, by doorway
  drain,     \* a pass over the drop folder: its names, the one in hand
  audits, held, log,  \* the audit queue, the list as its job read it, the file
  unlogged,  \* the requests whose entry could not be written
  toggles, exits, faults

ui    == <<settings, window, run, ran, toggles>>
http  == <<calls, known, server, token, ports, endpoint, old>>
drop  == <<file, drain>>
audit == <<audits, held, log, unlogged>>
vars  == <<ui, http, drop, audit, caller, work, exits, faults>>

Off     == [on |-> FALSE, send |-> FALSE]
NoWork  == [via |-> "drop", at |-> "none", key |-> 0, port |-> 0, ok |-> FALSE]
NoDrain == [on |-> FALSE, names |-> {}, cur |-> None]
Up      == window # "none"

Init ==
  /\ settings \in [on : BOOLEAN, send : BOOLEAN] /\ (settings.send => settings.on)
  /\ calls = <<>> /\ known = Off /\ server = 0 /\ token = 0 /\ ports = {}
  /\ endpoint = None /\ old \in BOOLEAN /\ window = "none"
  /\ caller = [r \in Requests |-> "idle"]
  /\ file = [r \in Requests |-> [at |-> "none", whole |-> FALSE, result |-> "none"]]
  /\ work = [r \in Requests |-> NoWork] /\ run = [r \in Requests |-> "no"]
  /\ ran = [r \in Requests |-> [http |-> 0, drop |-> 0]]
  /\ drain = NoDrain /\ audits = <<>> /\ held = [r \in Requests |-> None] /\ log = {}
  /\ unlogged = {} /\ toggles = 0 /\ exits = 0 /\ faults = 0

Faults == faults < MaxFaults /\ faults' = faults + 1

-----------------------------------------------------------------------------
(* The switches, and the server that follows them *)

Call(s) == [on |-> s.on, send |-> s.send, at |-> "sent", stops |-> 0, file |-> None,
            told |-> FALSE]
Applied(s, n) == calls \o [i \in 1..n |-> Call(s)]

\* Turning the doorway off turns sending off with it.
NewSettings ==
  {[on |-> ~settings.on, send |-> FALSE]} \cup
  {s \in [on : {settings.on}, send : BOOLEAN] : s.on /\ s # settings}

Toggle ==
  /\ window = "up" /\ toggles < MaxToggles /\ toggles' = toggles + 1
  /\ settings' \in NewSettings /\ calls' = Applied(settings', Callers)
  /\ UNCHANGED <<known, server, token, ports, endpoint, old, window, run, ran, drop, audit,
                 caller, work, exits, faults>>

To(c, at) == calls' = [calls EXCEPT ![c].at = at]

\* What the main process keeps of a call.
KnownBug(c) ==
  IF calls[c].on = (server # 0) THEN known ELSE [on |-> calls[c].on, send |-> calls[c].send]
Known(c) == [on |-> calls[c].on, send |-> calls[c].send]

\* The handler of applyControl, and apply() up to its first await.
Handle(c) ==
  /\ calls[c].at = "sent" /\ \A d \in 1..(c - 1) : calls[d].at # "sent"
  /\ known' = Known(c)
  /\ \/ known'.on /\ server = 0 /\ token' = c /\ To(c, "listening")
        /\ UNCHANGED <<server, ports>>
     \/ ~known'.on /\ server # 0 /\ server' = 0 /\ token' = 0 /\ ports' = ports \ {server}
        /\ calls' = [calls EXCEPT ![c].at = "closing", ![c].stops = server]
     \/ known'.on = (server # 0) /\ To(c, "report") /\ UNCHANGED <<server, token, ports>>
  /\ UNCHANGED <<endpoint, old, ui, drop, audit, caller, work, exits, faults>>

\* start(), from the callback of listen().
Listens(c) ==
  /\ calls[c].at = "listening" /\ server' = c /\ ports' = ports \cup {c}
  /\ calls' = [calls EXCEPT ![c].at = "publishing", ![c].file = [port |-> c, token |-> token]]
  /\ UNCHANGED <<known, token, endpoint, old, ui, drop, audit, caller, work, exits, faults>>

Publishes(c) ==
  /\ calls[c].at = "publishing" /\ endpoint' = calls[c].file /\ old' = FALSE /\ To(c, "report")
  /\ UNCHANGED <<known, server, token, ports, ui, drop, audit, caller, work, exits, faults>>

\* stop(), from the callback of close(): the requests under way have been answered.
Closes(c) ==
  /\ calls[c].at = "closing" /\ To(c, "removing")
  /\ \A r \in Requests : caller[r] = "http" => work[r].port # calls[c].stops
  /\ UNCHANGED <<known, server, token, ports, endpoint, old, ui, drop, audit, caller, work,
                 exits, faults>>

Removes(c) ==
  /\ calls[c].at = "removing" /\ endpoint' = None /\ old' = FALSE /\ To(c, "report")
  /\ UNCHANGED <<known, server, token, ports, ui, drop, audit, caller, work, exits, faults>>

\* readEndpoint(): it reads the data folder.
Reports(c) ==
  /\ calls[c].at = "report" /\ calls' = [calls EXCEPT ![c].at = "done", ![c].told = old]
  /\ UNCHANGED <<known, server, token, ports, endpoint, old, ui, drop, audit, caller, work,
                 exits, faults>>

-----------------------------------------------------------------------------
(* The process and its window *)

Launch ==
  /\ ~Up /\ window' = "loading"
  /\ UNCHANGED <<settings, run, ran, toggles, http, drop, audit, caller, work, exits, faults>>

WindowListens ==
  /\ window = "loading" /\ window' = "early"
  /\ UNCHANGED <<settings, run, ran, toggles, http, drop, audit, caller, work, exits, faults>>

\* The stored state has arrived, and with it the effect that applies the switches.
WindowReady ==
  /\ window = "early" /\ window' = "up" /\ calls' = Applied(settings, 1)
  /\ UNCHANGED <<settings, run, ran, toggles, known, server, token, ports, endpoint, old, drop,
                 audit, caller, work, exits, faults>>

\* The process ends; dispose() has removed the endpoint file, or not yet.
Exit ==
  /\ Up /\ exits < MaxExits /\ exits' = exits + 1 /\ window' = "none"
  /\ calls' = [c \in DOMAIN calls |-> [calls[c] EXCEPT !.at = "done"]]
  /\ known' = Off /\ server' = 0 /\ token' = 0 /\ ports' = {} /\ endpoint' \in {endpoint, None}
  /\ work' = [r \in Requests |-> NoWork] /\ run' = [r \in Requests |-> "no"]
  /\ drain' = NoDrain /\ audits' = <<>> /\ held' = [r \in Requests |-> None]
  /\ caller' = [r \in Requests |-> IF caller[r] = "http" THEN "lost" ELSE caller[r]]
  /\ UNCHANGED <<settings, ran, toggles, old, file, log, unlogged, faults>>

-----------------------------------------------------------------------------
(* A request: the caller, the main process, the window *)

Ask(r, at) == work' = [work EXCEPT ![r].at = at]
Answer(r, ok) == work' = [work EXCEPT ![r].at = "answered", ![r].ok = ok]

\* tryHttp() finds a server.
Posts(r) ==
  /\ caller[r] = "idle" /\ endpoint # None /\ endpoint.port \in ports
  /\ caller' = [caller EXCEPT ![r] = "http"]
  /\ work' = [work EXCEPT ![r] = [via |-> "http", at |-> "arrived", key |-> endpoint.token,
                                  port |-> endpoint.port, ok |-> FALSE]]
  /\ UNCHANGED <<http, ui, drop, audit, exits, faults>>

\* It finds none, or its connection breaks: queue() begins to write the file.
FallsBack(r) ==
  /\ \/ caller[r] = "idle" /\ (endpoint # None => endpoint.port \notin ports)
     \/ caller[r] = "lost"
  /\ caller' = [caller EXCEPT ![r] = "writing"] /\ file' = [file EXCEPT ![r].at = "drop"]
  /\ UNCHANGED <<http, ui, drain, audit, work, exits, faults>>

Queues(r) ==
  /\ caller[r] = "writing" /\ caller' = [caller EXCEPT ![r] = "queued"]
  /\ file' = [file EXCEPT ![r].whole = TRUE]
  /\ UNCHANGED <<http, ui, drain, audit, work, exits, faults>>

\* The execute hook: what is sent before the page listens is dropped.
Execute(r) ==
  /\ Ask(r, "pending")
  /\ run' = [run EXCEPT ![r] = IF window \in {"early", "up"} THEN "sent" ELSE "no"]

Permitted(r) == r \in Sends => known.send

\* handle(): authorised(), and the body is awaited.
Authorised(r) ==
  /\ work[r].at = "arrived"
  /\ IF work[r].key = token /\ token # 0 THEN Ask(r, "authorised") ELSE Answer(r, FALSE)
  /\ UNCHANGED <<http, ui, drop, audit, caller, exits, faults>>

\* refuse(), with the switches as they are by then.
Admits(r) ==
  /\ work[r].at = "authorised"
  /\ IF known.on /\ Permitted(r) THEN Execute(r) ELSE Answer(r, FALSE) /\ UNCHANGED run
  /\ UNCHANGED <<http, settings, window, ran, toggles, drop, audit, caller, exits, faults>>

\* runDropped(): the switch of the interface does not gate the folder.
Reads(r) ==
  /\ work[r].at = "claimed"
  /\ IF file[r].whole /\ Permitted(r) THEN Execute(r) ELSE Answer(r, FALSE) /\ UNCHANGED run
  /\ UNCHANGED <<http, settings, window, ran, toggles, drop, audit, caller, exits, faults>>

\* The answer of the window, and what becomes of it when nobody waits for it any more.
Respond(r, ok) == IF work[r].at = "pending" THEN Answer(r, ok) ELSE UNCHANGED work

Accepts(r) == window = "up" /\ (r \in Sends => settings.send)

\* executeControl(): a window without its state has no account and no job.
Takes(r) ==
  /\ run[r] = "sent"
  /\ IF Accepts(r) THEN run' = [run EXCEPT ![r] = "running"] /\ UNCHANGED work
                   ELSE run' = [run EXCEPT ![r] = "no"] /\ Respond(r, FALSE)
  /\ UNCHANGED <<http, settings, window, ran, toggles, drop, audit, caller, exits, faults>>

Finishes(r) ==
  /\ run[r] = "running" /\ run' = [run EXCEPT ![r] = "no"]
  /\ \/ ran' = [ran EXCEPT ![r][work[r].via] = @ + 1] /\ Respond(r, TRUE) /\ UNCHANGED faults
     \/ Faults /\ Respond(r, FALSE) /\ UNCHANGED ran
  /\ UNCHANGED <<http, settings, window, toggles, drop, audit, caller, exits>>

\* The 30 s of the execute hook.
TimesOut(r) ==
  /\ work[r].at = "pending" /\ Answer(r, FALSE)
  /\ UNCHANGED <<http, ui, drop, audit, caller, exits, faults>>

Replies(r) ==
  /\ work[r].via = "http" /\ work[r].at = "audited" /\ Ask(r, "over")
  /\ caller' = [caller EXCEPT ![r] = IF work[r].ok THEN "done" ELSE "failed"]
  /\ UNCHANGED <<http, ui, drop, audit, exits, faults>>

-----------------------------------------------------------------------------
(* The drop folder *)

\* drainDrop(), one pass at a time.
Tick ==
  /\ Up /\ ~drain.on /\ \E r \in Requests : file[r].at = "drop"
  /\ drain' = [on |-> TRUE, names |-> {r \in Requests : file[r].at = "drop"}, cur |-> None]
  /\ UNCHANGED <<http, ui, file, audit, caller, work, exits, faults>>

Claimed(r) == [file EXCEPT ![r].at = "failed"]

\* The file goes to failed/ before anything else; a rename that fails leaves it for later.
Claims(r) ==
  /\ drain.on /\ drain.cur = None /\ r \in drain.names
  /\ \/ /\ file' = Claimed(r) /\ drain' = [drain EXCEPT !.names = @ \ {r}, !.cur = r]
        /\ work' = [work EXCEPT ![r] = [NoWork EXCEPT !.at = "claimed"]] /\ UNCHANGED faults
     \/ Faults /\ drain' = [drain EXCEPT !.names = @ \ {r}] /\ UNCHANGED <<file, work>>
  /\ UNCHANGED <<http, ui, audit, caller, exits>>

\* finish(): move first, report after.
Moves(r) ==
  /\ work[r].via = "drop" /\ work[r].at = "answered"
  /\ \/ ~work[r].ok /\ Ask(r, "moved") /\ UNCHANGED <<file, faults>>
     \/ /\ work[r].ok /\ file' = [file EXCEPT ![r].at = "done"] /\ Ask(r, "moved")
        /\ UNCHANGED faults
     \/ /\ work[r].ok /\ Faults
        /\ work' = [work EXCEPT ![r].at = "moved", ![r].ok = FALSE] /\ UNCHANGED file
  /\ UNCHANGED <<http, ui, drain, audit, caller, exits>>

Result(r) == IF work[r].ok THEN "ok" ELSE "failed"

WritesResult(r) ==
  /\ work[r].at = "moved" /\ Ask(r, "reported")
  /\ file' = [file EXCEPT ![r].result = Result(r)]
  /\ UNCHANGED <<http, ui, drain, audit, caller, exits, faults>>

GoesOnBug == drain.names = {} /\ faults = 0
GoesOn == drain.names = {}

EndsPass ==
  /\ drain.on /\ drain.cur = None /\ GoesOn /\ drain' = NoDrain
  /\ UNCHANGED <<http, ui, file, audit, caller, work, exits, faults>>

NextName(r) ==
  /\ drain.cur = r /\ work[r].at = "audited" /\ Ask(r, "over")
  /\ drain' = [drain EXCEPT !.cur = None]
  /\ UNCHANGED <<http, ui, file, audit, caller, exits, faults>>

-----------------------------------------------------------------------------
(* The audit log: one write at a time *)

Records(r) ==
  /\ work[r].at = IF work[r].via = "http" THEN "answered" ELSE "reported"
  /\ Ask(r, "auditing") /\ audits' = Append(audits, r)
  /\ UNCHANGED <<http, ui, drop, caller, held, log, unlogged, exits, faults>>

TurnBug(r) == \E i \in DOMAIN audits : audits[i] = r
Turn(r) == audits # <<>> /\ Head(audits) = r

AuditReads(r) ==
  /\ work[r].at = "auditing" /\ Turn(r) /\ held[r] = None /\ held' = [held EXCEPT ![r] = log]
  /\ UNCHANGED <<http, ui, drop, caller, work, audits, log, unlogged, exits, faults>>

AuditWrites(r) ==
  /\ work[r].at = "auditing" /\ held[r] # None /\ held' = [held EXCEPT ![r] = None]
  /\ log' = held[r] \cup {[of |-> r, via |-> work[r].via, granted |-> work[r].ok]}
  /\ audits' = Tail(audits) /\ Ask(r, "audited")
  /\ UNCHANGED <<unlogged, http, ui, drop, caller, exits, faults>>

\* The log can not be read or written: the entry is given up, and the caller answered all the same.
AuditFails(r) ==
  /\ work[r].at = "auditing" /\ Turn(r) /\ Faults /\ held' = [held EXCEPT ![r] = None]
  /\ unlogged' = unlogged \cup {r} /\ audits' = Tail(audits) /\ Ask(r, "audited")
  /\ UNCHANGED <<log, http, ui, drop, caller, exits>>

-----------------------------------------------------------------------------
Applies(c)  == Handle(c) \/ Listens(c) \/ Publishes(c) \/ Closes(c) \/ Removes(c) \/ Reports(c)
Audits(r)   == Records(r) \/ AuditReads(r) \/ AuditWrites(r) \/ AuditFails(r)
Main(r)     == Authorised(r) \/ Admits(r) \/ Reads(r) \/ TimesOut(r) \/ Replies(r) \/ Claims(r)
                 \/ Moves(r) \/ WritesResult(r) \/ NextName(r) \/ Audits(r)
Renders(r)  == Takes(r) \/ Finishes(r)
Script(r)   == Posts(r) \/ FallsBack(r) \/ Queues(r)
Starts      == Launch \/ WindowListens \/ WindowReady

Next ==
  \/ Toggle \/ Starts \/ Exit \/ Tick \/ EndsPass
  \/ \E c \in DOMAIN calls : Applies(c)
  \/ \E r \in Requests : Main(r) \/ Renders(r) \/ Script(r)

Spec == Init /\ [][Next]_vars

-----------------------------------------------------------------------------
TypeOK ==
  /\ settings \in [on : BOOLEAN, send : BOOLEAN] /\ known \in [on : BOOLEAN, send : BOOLEAN]
  /\ \A c \in DOMAIN calls : calls[c].at \in
       {"sent", "listening", "publishing", "closing", "removing", "report", "done"}
  /\ {server, token} \subseteq 0..Len(calls) /\ ports \subseteq DOMAIN calls
  /\ endpoint = None \/ {endpoint.port, endpoint.token} \subseteq 0..Len(calls)
  /\ window \in {"none", "loading", "early", "up"} /\ old \in BOOLEAN
  /\ caller \in [Requests -> {"idle", "http", "lost", "writing", "queued", "done", "failed"}]
  /\ file \in [Requests -> [at : {"none", "drop", "failed", "done"}, whole : BOOLEAN,
                            result : {"none", "ok", "failed"}]]
  /\ run \in [Requests -> {"no", "sent", "running"}]
  /\ \A r \in Requests : work[r].at \in {"none", "arrived", "authorised", "claimed", "pending", "answered",
                                         "moved", "reported", "auditing", "audited", "over"}
  /\ drain.names \subseteq Requests /\ drain.cur \in Requests \cup {None}

\* A file dropped in the folder is carried out at most once, whatever the process dies in the
\* middle of and whatever a rename does (electron/controlServer.ts, "if the app is killed
\* mid-request the file is in `failed/` rather than back in the queue").
DroppedRunsOnce == \A r \in Requests : ran[r].drop <= 1

\* What a result file says happened did: the request was carried out and its file is in done/
\* (finish(): "report what actually happened").
ResultIsTrue ==
  \A r \in Requests : file[r].result = "ok" => file[r].at = "done" /\ ran[r].drop = 1

\* A caller over HTTP that has its answer finds the request in the audit log, though others were
\* recorded meanwhile and the entries of others could not be written; only a request whose own
\* entry could not be written is answered without one (audit() is awaited before send();
\* enqueueAuditWrite; appendControlAudit "Never rejects into the caller's request handling").
AnsweredIsAudited ==
  \A r \in Requests : caller[r] \in {"done", "failed"} /\ r \notin unlogged =>
     [of |-> r, via |-> "http", granted |-> caller[r] = "done"] \in log

\* With every call of applyControl handled, the switches the main process admits requests by are
\* those of the window: however fast they were changed and whatever else called, stopping and
\* starting the server on the way, no older call has the last word and no exit leaves them behind.
KnownIsCurrent ==
  window = "up" /\ (\A c \in DOMAIN calls : calls[c].at # "sent") => known = settings

\* A file in the drop folder is taken up and recorded, or the process ends in the middle of it.
DroppedIsSettled ==
  \A r \in Requests :
    file[r].at = "drop" ~> (work[r].at = "over" \/ (file[r].at # "drop" /\ work[r].at = "none"))

\* A caller over HTTP gets an answer, or the process ends (the timer of the execute hook).
EveryoneAnswered == \A r \in Requests : caller[r] = "http" ~> caller[r] # "http"

-----------------------------------------------------------------------------
(* What the code and its documents say, and the runs show to be otherwise *)

Still == \A c \in DOMAIN calls : calls[c].at = "done"

\* apply(): "Safe to call repeatedly".
OneServer == Cardinality(ports) <= 1

\* applyControl(): "Start or stop the loopback server to match the settings just saved".
MatchesSettings == Still /\ window = "up" => (ports # {}) = settings.on

\* A server that runs is in the endpoint file, "so a caller does not have to be told the port".
FoundWhenRunning == Still /\ server # 0 => endpoint # None

\* applyControl() "Returns null when both are off", not when one is on.
ReportsWhereItIs ==
  [][\A c \in DOMAIN calls :
       calls[c].at = "report" /\ calls'[c].at = "done" /\ window' # "none" /\ calls[c].on
         => calls'[c].told]_vars

\* A request left in the folder while the app was closed is the case it exists for: when the app
\* starts and takes the file up, the request reaches the window.
QueuedReachesWindow ==
  [][\A r \in Requests : caller[r] = "queued" /\ work[r].at = "claimed" /\ work'[r].at = "pending"
       => run'[r] = "sent"]_vars

\* The rename that claims a file fails while "it is still being written".
ClaimsFinished ==
  [][\A r \in Requests : file[r].at = "drop" /\ file'[r].at = "failed" => file[r].whole]_vars

\* Exit code 1 is "refused or failed".
FailedIsUndone == \A r \in Requests : caller[r] = "failed" => ran[r].http = 0

\* The CLI queues what could not reach a running app.
QueuedIsUnrun == \A r \in Requests : caller[r] = "queued" => ran[r].http = 0

\* Every call site awaits audit(), "so the record is on disk before the caller answers".
AuditedFirst ==
  \A r \in Requests : file[r].result # "none" => \E e \in log : e.of = r /\ e.via = "drop"
=============================================================================
