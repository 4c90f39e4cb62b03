------------------------------- MODULE Pairing --------------------------------
(***************************************************************************)
(* Pairing over the LAN: the desktop's one-shot listener                   *)
(* (electron/pairingServer.ts), the panel that starts and stops it and     *)
(* records what it hands over (src/views/DevicesCard.tsx), the joining     *)
(* devices (joinPairing in src/core/sync/pairing.ts), and what the two     *)
(* records are then worth to the sync exchange.                            *)
(*                                                                         *)
(* A call of start() draws one code; the code's number stands for its      *)
(* token, its key pair and its socket, and <<code, joiner>> for the key    *)
(* both sides derive.  start(), stop() and the handler of a request yield  *)
(* at every await, so calls overlap; calls from the panel arrive at once,  *)
(* and what the main process says back waits in toUi, which is empty again *)
(* before the user's next press.  A joiner posts once to a code.  An exchange is one step here (DeviceSync takes it apart):   *)
(* it passes, or one side refuses the other's sequence number.             *)
(*                                                                         *)
(* Bounds of the model: MaxCodes, MaxPairs (ids minted), MaxSeq (exchanges *)
(* a joiner begins).  Patient: the user waits for a code to appear, and    *)
(* for a device seen connecting to end, before pressing anything else.     *)
(***************************************************************************)
EXTENDS Integers, Sequences, FiniteSets

CONSTANTS Joiners, Fast, MaxCodes, MaxPairs, MaxSeq, Patient

PairingAssumption ==
  /\ {MaxCodes, MaxPairs, MaxSeq} \subseteq Nat
  /\ Fast \subseteq Joiners      \* those whose clock is ahead of the host's
  /\ Patient \in BOOLEAN

VARIABLES
  session,   \* PairingServer.session (and .server, .expireTimer, set with it)
  calls,     \* per code: the start() call that draws it
  open,      \* the codes whose socket is listening
  timers,    \* the codes whose expiry timer is pending
  over,      \* the codes whose two minutes are over
  req,       \* per joiner: its POST and the handler that serves it
  posted,    \* the <<code, joiner>> that have been posted
  toUi,      \* pairing events and replies on their way to the panel
  ui,        \* the panel
  saving,    \* what waits for setSecret before it is recorded
  minted,    \* how many pair ids were minted
  hostKey, hostRow, joinKey, joinRow,   \* the two sides' secrets and records
  synced,    \* the keys under which an exchange has passed
  answered,  \* history: the <<code, joiner>> answered 200
  revoked    \* history: the codes taken back by the user

server == <<session, calls, open, timers, over>>
stores == <<hostKey, hostRow, joinKey, joinRow, synced>>
panel  == <<ui, saving, minted, revoked>>
posts  == <<req, posted, answered>>
vars   == <<server, posts, toUi, panel, stores>>

Codes == 1..MaxCodes
Pairs == 1..MaxPairs
Keys  == Codes \X Joiners
NoKey == <<0, 0>>
NoRow == [out |-> -1, acc |-> -1, addr |-> FALSE]
Fresh(addr) == [out |-> 0, acc |-> 0, addr |-> addr]
Idle  == [at |-> "idle", code |-> 0, sess |-> 0]
Shut  == [pair |-> 0, kind |-> "new", started |-> FALSE, payload |-> 0,
          status |-> "listening", revoked |-> FALSE, row |-> NoRow]
PairOf(c) == calls[c].pair

Init ==
  /\ session = 0 /\ open = {} /\ timers = {} /\ over = {}
  /\ calls = [c \in Codes |-> [at |-> "none", waits |-> 0, pair |-> 0]]
  /\ req = [j \in Joiners |-> Idle] /\ posted = {} /\ answered = {}
  /\ toUi = <<>> /\ ui = Shut /\ saving = {} /\ minted = 0 /\ revoked = {}
  /\ hostKey = [p \in Pairs |-> NoKey] /\ hostRow = [p \in Pairs |-> NoRow]
  /\ joinKey = [j \in Joiners |-> [p \in Pairs |-> NoKey]]
  /\ joinRow = [j \in Joiners |-> [p \in Pairs |-> NoRow]]
  /\ synced = {}

-------------------------------------------------------------------------------
(* PairingServer.                                                          *)

\* stop(): what it does before its await; the close then waits for the
\* requests the socket is serving
Stopped ==
  /\ session' = 0
  /\ timers' = timers \ {session}
  /\ open' = open \ {session}

Serving(c) == \E j \in Joiners : req[j].at = "reading" /\ req[j].code = c

\* start(), up to the end of its stop()
CallStart(p) ==
  \E c \in Codes :
    /\ calls[c].at = "none"
    /\ \A d \in 1..(c - 1) : calls[d].at # "none"
    /\ calls' = [calls EXCEPT ![c] = [at |-> "closing", waits |-> session, pair |-> p]]
    /\ Stopped
    /\ UNCHANGED over

Closed(c) ==
  /\ calls[c].at = "closing"
  /\ ~Serving(calls[c].waits)
  /\ calls' = [calls EXCEPT ![c].at = "building"]
  /\ UNCHANGED <<session, open, timers, over, posts, toUi, panel, stores>>

ListeningBug(c) ==
  /\ calls[c].at = "building"
  /\ calls' = [calls EXCEPT ![c].at = "up"]
  /\ session' = c
  /\ open' = open \cup {c}
  /\ toUi' = toUi \o <<[type |-> "listening", code |-> c, key |-> NoKey],
                       [type |-> "reply", code |-> c, key |-> NoKey]>>
  /\ UNCHANGED <<over, timers, posts, panel, stores>>

\* buildHostPayload and listen are done: the rest of start() is one step
Listening(c) ==
  /\ calls[c].at = "building"
  /\ calls' = [calls EXCEPT ![c].at = "up"]
  /\ session' = c
  /\ open' = open \cup {c}
  /\ timers' = timers \cup {c}
  /\ toUi' = toUi \o <<[type |-> "listening", code |-> c, key |-> NoKey],
                       [type |-> "reply", code |-> c, key |-> NoKey]>>
  /\ UNCHANGED <<over, posts, panel, stores>>

\* No network, or listen fails
CannotListen(c) ==
  /\ calls[c].at = "building"
  /\ calls' = [calls EXCEPT ![c].at = "failed"]
  /\ toUi' = Append(toUi, [type |-> "failed", code |-> c, key |-> NoKey])
  /\ UNCHANGED <<session, open, timers, over, posts, panel, stores>>

Expires(c) ==
  /\ calls[c].at = "up" /\ c \notin over
  /\ \A d \in 1..(c - 1) : calls[d].at = "up" => d \in over
  /\ over' = over \cup {c}
  /\ UNCHANGED <<session, calls, open, timers, posts, toUi, panel, stores>>

Expired == [type |-> "expired", code |-> session, key |-> NoKey]

\* onExpire(), fired by the timer of c
OnExpire(c) ==
  /\ c \in timers /\ c \in over
  /\ IF session = 0
       THEN timers' = timers \ {c} /\ UNCHANGED <<session, open, toUi>>
       ELSE /\ session' = 0 /\ open' = open \ {session}
            /\ timers' = timers \ {c, session}
            /\ toUi' = Append(toUi, Expired)
  /\ UNCHANGED <<calls, over, posts, panel, stores>>

\* handle(), up to the await of the body
Received(j) ==
  /\ req[j].at = "sent"
  /\ IF req[j].code \notin open \/ session = 0      \* no socket, or 410
       THEN /\ req' = [req EXCEPT ![j].at = "refused"]
            /\ UNCHANGED <<session, timers, open, toUi>>
     ELSE IF session \in over                       \* 410, and onExpire()
       THEN /\ req' = [req EXCEPT ![j].at = "refused"]
            /\ toUi' = Append(toUi, Expired)
            /\ Stopped
     ELSE /\ req' = [req EXCEPT ![j] = [at |-> "reading", code |-> @.code, sess |-> session]]
          /\ UNCHANGED <<session, timers, open, toUi>>
  /\ UNCHANGED <<calls, over, posted, answered, panel, stores>>

\* handle(), after the body and the handshake: 401, or 200 and stop()
Handled(j) ==
  LET s == req[j].sess IN
  /\ req[j].at = "reading"
  /\ IF req[j].code # s
       THEN /\ req' = [req EXCEPT ![j].at = "refused"]
            /\ UNCHANGED <<session, timers, open, toUi, answered>>
       ELSE /\ req' = [req EXCEPT ![j].at = "answered"]
            /\ answered' = answered \cup {<<s, j>>}
            /\ toUi' = Append(toUi, [type |-> "connected", code |-> s, key |-> <<s, j>>])
            /\ Stopped
  /\ UNCHANGED <<calls, over, posted, panel, stores>>

-------------------------------------------------------------------------------
(* The panel.                                                              *)

Settled ==   \* what a patient user waits for
  /\ saving = {}
  /\ \A c \in Codes : calls[c].at \notin {"closing", "building"}
  /\ \A j \in Joiners : req[j].at # "reading"
MayPress == toUi = <<>> /\ (Patient => Settled)

\* isExpired(): the panel's clock is the host's
Over == ui.status = "expired" \/ ui.payload \in over
\* PairingQr draws the code
Drawn == /\ ui.pair # 0 /\ ui.started /\ ~ui.revoked
         /\ ui.payload # 0 /\ ~Over /\ ui.status # "connected"

StartHost(panelWith) ==
  /\ CallStart(panelWith.pair)
  /\ ui' = [panelWith EXCEPT !.started = TRUE, !.payload = 0,
                             !.status = "listening", !.revoked = FALSE]

OpenNewPairing ==
  /\ MayPress /\ ui.pair = 0 /\ minted < MaxPairs
  /\ minted' = minted + 1
  /\ ui' = [Shut EXCEPT !.pair = minted']
  /\ UNCHANGED <<server, posts, toUi, saving, revoked, stores>>

\* "Regenerate" on the row of a device: the row is the one drawn now
Regenerate(p) ==
  /\ MayPress /\ ui.pair = 0 /\ hostRow[p] # NoRow
  /\ StartHost([Shut EXCEPT !.pair = p, !.kind = "regenerate", !.row = hostRow[p]])
  /\ UNCHANGED <<posts, toUi, saving, minted, revoked, stores>>

\* "Show the code", "Draw another" once it is revoked, over or failed
ShowCode ==
  /\ MayPress /\ ui.pair # 0
  /\ \/ ~ui.started
     \/ ui.revoked
     \/ ui.status # "connected" /\ (Over \/ ui.status = "error")
  /\ StartHost(ui)
  /\ UNCHANGED <<posts, toUi, saving, minted, revoked, stores>>

RevokeCode ==
  /\ MayPress
  /\ ui.pair # 0 /\ ui.started /\ ~ui.revoked
  /\ ui.payload # 0 /\ ui.status = "listening"
  /\ Stopped
  /\ ui' = [ui EXCEPT !.payload = 0, !.revoked = TRUE]
  /\ revoked' = revoked \cup {ui.payload}
  /\ UNCHANGED <<calls, over, posts, toUi, saving, minted, stores>>

ChangeAddress ==
  /\ MayPress
  /\ ui.pair # 0 /\ ui.kind = "new" /\ ui.started /\ ui.status # "connected"
  /\ Stopped
  /\ ui' = [ui EXCEPT !.started = FALSE, !.payload = 0, !.revoked = FALSE]
  /\ UNCHANGED <<calls, over, posts, toUi, saving, minted, revoked, stores>>

CloseHost ==
  /\ MayPress /\ ui.pair # 0
  /\ Stopped
  /\ ui' = [ui EXCEPT !.pair = 0, !.started = FALSE, !.revoked = FALSE]
  /\ UNCHANGED <<calls, over, posts, toUi, saving, minted, revoked, stores>>

\* connectedRef: the secret is set at once and the row recorded afterwards,
\* unless the pairing is not the one the panel is open for
ConnectedBug(e) ==
  /\ hostKey' = [hostKey EXCEPT ![ui.pair] = e.key]
  /\ saving' = saving \cup {[pair |-> ui.pair, kind |-> ui.kind, row |-> ui.row]}
Connected(e) ==
  IF PairOf(e.code) = ui.pair
    THEN /\ hostKey' = [hostKey EXCEPT ![ui.pair] = e.key]
         /\ saving' = saving \cup {[pair |-> ui.pair, kind |-> ui.kind, row |-> ui.row]}
    ELSE UNCHANGED <<hostKey, saving>>

\* The panel takes an event (only while it is open) or the end of a call
UiTakes ==
  /\ toUi # <<>>
  /\ toUi' = Tail(toUi)
  /\ LET e == Head(toUi) IN
     \/ /\ e.type = "listening" /\ ui.pair # 0
        /\ ui' = [ui EXCEPT !.payload = e.code, !.status = "listening"]
        /\ UNCHANGED <<hostKey, saving>>
     \/ /\ e.type = "expired" /\ ui.pair # 0
        /\ ui' = [ui EXCEPT !.status = "expired"]
        /\ UNCHANGED <<hostKey, saving>>
     \/ /\ e.type = "connected" /\ ui.pair # 0
        /\ ui' = [ui EXCEPT !.status = "connected"]
        /\ Connected(e)
     \/ /\ e.type = "reply"
        /\ ui' = [ui EXCEPT !.payload = e.code]
        /\ UNCHANGED <<hostKey, saving>>
     \/ /\ e.type = "failed"
        /\ ui' = [ui EXCEPT !.status = "error"]
        /\ UNCHANGED <<hostKey, saving>>
     \/ /\ e.type \in {"listening", "expired", "connected"} /\ ui.pair = 0
        /\ UNCHANGED <<ui, hostKey, saving>>
  /\ UNCHANGED <<server, posts, minted, revoked, hostRow, joinKey, joinRow, synced>>

\* setSecret is done: upsertPairedDevice, of a new row or of the row as it
\* was when Regenerate was pressed; that panel then closes
Recorded(s) ==
  /\ s \in saving /\ saving' = saving \ {s}
  /\ IF s.kind = "new"
       THEN /\ hostRow' = [hostRow EXCEPT ![s.pair] = Fresh(FALSE)]
            /\ UNCHANGED ui
       ELSE /\ hostRow' = [hostRow EXCEPT ![s.pair] = s.row]
            /\ ui' = [ui EXCEPT !.pair = 0]
  /\ UNCHANGED <<server, posts, toUi, minted, revoked, hostKey, joinKey, joinRow, synced>>

-------------------------------------------------------------------------------
(* The joining device.                                                     *)

\* It scans the code on the panel, or a picture of it, and posts; one whose
\* clock is ahead takes the code for expired and does not
Join(j, c) ==
  /\ req[j].at \in {"idle", "refused", "early"}
  /\ calls[c].at = "up" /\ <<c, j>> \notin posted
  /\ posted' = posted \cup {<<c, j>>}
  /\ req' = [req EXCEPT ![j] = [at |-> IF j \in Fast \/ c \in over THEN "early" ELSE "sent",
                                code |-> c, sess |-> 0]]
  /\ UNCHANGED <<server, answered, toUi, panel, stores>>

\* The reply arrives: the key is stored and a fresh row recorded
Joined(j) ==
  LET p == PairOf(req[j].sess) IN
  /\ req[j].at = "answered"
  /\ req' = [req EXCEPT ![j] = Idle]
  /\ joinKey' = [joinKey EXCEPT ![j][p] = <<req[j].sess, j>>]
  /\ joinRow' = [joinRow EXCEPT ![j][p] = Fresh(TRUE)]
  /\ UNCHANGED <<server, posted, answered, toUi, panel, hostKey, hostRow, synced>>

\* The reply is lost, or comes after the joiner gave up
ReplyLost(j) ==
  /\ req[j].at = "answered"
  /\ req' = [req EXCEPT ![j] = Idle]
  /\ UNCHANGED <<server, posted, answered, toUi, panel, stores>>

-------------------------------------------------------------------------------
(* The exchanges that follow.  Each row counts what it sealed (out) and    *)
(* the highest number it accepted (acc); the side that asks stores its     *)
(* number only when the reply is accepted too.                             *)

Shares(j, p) == hostKey[p] # NoKey /\ hostKey[p] = joinKey[j][p] /\ hostRow[p] # NoRow

JoinerAsks(j, p) ==
  LET h == hostRow[p]  r == joinRow[j][p] IN
  /\ Shares(j, p) /\ r.addr /\ r.out < MaxSeq
  /\ r.out + 1 > h.acc
  /\ hostRow' = [hostRow EXCEPT ![p] = [out |-> h.out + 1, acc |-> r.out + 1, addr |-> TRUE]]
  /\ IF h.out + 1 > r.acc
       THEN /\ joinRow' = [joinRow EXCEPT ![j][p].out = @ + 1, ![j][p].acc = h.out + 1]
            /\ synced' = synced \cup {joinKey[j][p]}
       ELSE UNCHANGED <<joinRow, synced>>
  /\ UNCHANGED <<server, posts, toUi, panel, hostKey, joinKey>>

HostAsks(j, p) ==
  LET h == hostRow[p]  r == joinRow[j][p] IN
  /\ Shares(j, p) /\ h.addr /\ h.out < 2 * MaxSeq
  /\ h.out + 1 > r.acc
  /\ joinRow' = [joinRow EXCEPT ![j][p].out = r.out + 1, ![j][p].acc = h.out + 1]
  /\ IF r.out + 1 > h.acc
       THEN /\ hostRow' = [hostRow EXCEPT ![p].out = @ + 1, ![p].acc = r.out + 1]
            /\ synced' = synced \cup {joinKey[j][p]}
       ELSE UNCHANGED <<hostRow, synced>>
  /\ UNCHANGED <<server, posts, toUi, panel, hostKey, joinKey>>

-------------------------------------------------------------------------------
Next ==
  \/ \E c \in Codes : \/ Closed(c) \/ Listening(c) \/ CannotListen(c)
                      \/ Expires(c) \/ OnExpire(c)
  \/ OpenNewPairing \/ ShowCode \/ RevokeCode \/ ChangeAddress \/ CloseHost
  \/ UiTakes
  \/ \E p \in Pairs : Regenerate(p)
  \/ \E s \in saving : Recorded(s)
  \/ \E j \in Joiners :
       \/ Received(j) \/ Handled(j) \/ Joined(j) \/ ReplyLost(j)
       \/ \E c \in Codes : Join(j, c)
       \/ \E p \in Pairs : JoinerAsks(j, p) \/ HostAsks(j, p)

Spec == Init /\ [][Next]_vars

-------------------------------------------------------------------------------
(* Properties.                                                             *)

Rows == {NoRow} \cup [out : 0..3 * MaxSeq, acc : 0..3 * MaxSeq, addr : BOOLEAN]
Events == [type : {"listening", "connected", "expired", "reply", "failed"},
           code : Codes, key : Keys \cup {NoKey}]

\* Every variable stays in its set: in particular no sequence number, panel
\* or request gets a value the code has no place for.
TypeOK ==
  /\ session \in 0..MaxCodes
  /\ open \subseteq Codes /\ timers \subseteq Codes /\ over \subseteq Codes
  /\ calls \in [Codes -> [at : {"none", "closing", "building", "up", "failed"},
                          waits : 0..MaxCodes, pair : 0..MaxPairs]]
  /\ req \in [Joiners -> [at : {"idle", "early", "sent", "reading", "answered", "refused"},
                          code : 0..MaxCodes, sess : 0..MaxCodes]]
  /\ {posted, answered, synced} \subseteq SUBSET Keys /\ revoked \subseteq Codes
  /\ ui \in [pair : 0..MaxPairs, kind : {"new", "regenerate"}, started : BOOLEAN,
             payload : 0..MaxCodes, revoked : BOOLEAN, row : Rows,
             status : {"listening", "connected", "expired", "error"}]
  /\ saving \subseteq [pair : Pairs, kind : {"new", "regenerate"}, row : Rows]
  /\ minted \in 0..MaxPairs /\ toUi \in Seq(Events)
  /\ hostKey \in [Pairs -> Keys \cup {NoKey}] /\ hostRow \in [Pairs -> Rows]
  /\ joinKey \in [Joiners -> [Pairs -> Keys \cup {NoKey}]]
  /\ joinRow \in [Joiners -> [Pairs -> Rows]]

\* "There is deliberately no arrangement in which the listener is down and a
\* scannable code is still drawn" (DevicesCard.tsx:91): once the panel has
\* taken what it was sent, the code it draws is the one start() armed.
DrawnIsLive == Drawn /\ toUi = <<>> => session = ui.payload /\ ui.payload \in open

\* The key kept for a pairing was derived over a code drawn for that pairing,
\* on either side: a device that connects late, to a code of a panel since
\* closed, is never recorded as another device.
KeptForItsOwn ==
  \A p \in Pairs :
    /\ hostKey[p] # NoKey => PairOf(hostKey[p][1]) = p /\ hostKey[p] \in answered
    /\ \A j \in Joiners : joinKey[j][p] # NoKey => PairOf(joinKey[j][p][1]) = p

\* "This one lives for a single ~2-minute pairing attempt, not the app's
\* whole run" (pairingServer.ts:4): a socket that listens is closed again.
SocketCloses == \A c \in Codes : c \in open ~> c \notin open

\* A joiner that posts is answered or refused.
EveryoneAnswered ==
  \A j \in Joiners : req[j].at \in {"sent", "reading"} ~> req[j].at \in {"answered", "refused"}

\* "This code works once. The moment one device connects, it stops working
\* for anyone else" (en.ts:1825; pairingServer.ts:12).
WorksOnce == \A c \in Codes : Cardinality({j \in Joiners : <<c, j>> \in answered}) <= 1

\* After "Revoke this code", "nothing on this machine will answer the token
\* baked into that QR" (DevicesCard.tsx:582).
RevokedIsDead ==
  [][\A c \in revoked, j \in Joiners : <<c, j>> \in answered' => <<c, j>> \in answered]_vars

\* "Closing runs the same teardown Cancel did, so the listener stops"
\* (DevicesCard.tsx:102): with the panel closed and nothing under way, no
\* socket listens.
ClosedStops ==
  ui.pair = 0 /\ toUi = <<>> /\ (\A c \in Codes : calls[c].at \notin {"closing", "building"})
    => open = {}

\* "A pairing session lives for two minutes" (pairing.ts:32): none is
\* declared expired before they are over.
ExpiresOnTime ==
  [][Len(toUi') > Len(toUi) /\ toUi'[Len(toUi')].type = "expired" => session \in over]_vars

\* "Paired.  The other device starts each sync from here on" (en.ts:1910),
\* shown with the status "connected": the device is then recorded.
ConnectedIsPaired ==
  ui.pair # 0 /\ ui.started /\ ui.status = "connected" /\ saving = {} => hostRow[ui.pair] # NoRow

\* Regenerating keeps the pairing ("same pairId, so sync history is
\* untouched", DevicesCard.tsx:76): two sides that hold the same key come to
\* exchange under it (unless the bounds on the numbers end it).
RegeneratedSyncs ==
  \A j \in Joiners, p \in Pairs :
    Shares(j, p) ~> \/ joinKey[j][p] \in synced \/ ~Shares(j, p)
                    \/ joinRow[j][p].out >= MaxSeq \/ hostRow[p].out >= 2 * MaxSeq

\* "The joiner never compares wall clocks" (pairing.ts:254): it takes no code
\* for expired that its host still serves.
ClocksDoNotMatter == \A j \in Joiners : req[j].at = "early" => req[j].code \in over
===============================================================================
