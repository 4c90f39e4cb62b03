------------------------------ MODULE InboxIdle ------------------------------
(***************************************************************************)
(* The push watchers: electron/imapIdle.ts, the handler of watchInbox in   *)
(* electron/main.ts and the effect of src/state/AppState.tsx that calls    *)
(* it, for one account.                                                    *)
(*                                                                         *)
(* A connection is the attempt that made it, in its slot until its socket  *)
(* is closed: connect() resolves the host, asks for an access token, walks *)
(* the ladder of endpoints and opens the mailbox, with an await at each.   *)
(* Timers fire at any time (the backoff is a delay).  The renderer calls   *)
(* when the account is switched on or off or its host changes; a password  *)
(* or a grant that changes is stored by the main process.                  *)
(*                                                                         *)
(* Bounds of the model: Watchers (made in all), Slots (attempts at one     *)
(* time), Rungs, MaxActs (of the user), MaxFaults (of the network and the  *)
(* mail provider).                                                         *)
(***************************************************************************)
EXTENDS Integers, FiniteSets, Sequences, SequencesExt

CONSTANTS Watchers, Slots, None, Rungs, MaxActs, MaxFaults

Steps == {"resolve", "token", "open", "mailbox", "up", "leaving"}
Keys  == [host : 0..1, secret : 0..2]
Attempts == [of : Watchers, step : Steps, rung : 1..Rungs]

InboxIdleAssumption ==
  /\ None \notin Watchers \cup Slots \cup Keys \cup Attempts /\ Rungs \in Nat \ {0}
  /\ {MaxActs, MaxFaults} \subseteq Nat

VARIABLES
  account,   \* on, host, and what secrets.json has: the password, a grant
  calls,     \* calls of watchInbox under way, in the order they were made
  pool,      \* watchers: the one in the map, or None
  watcher,   \* per watcher: its key, stopped, reconnectTimer and client
  slot,      \* the attempts to connect, and the connections
  quit,      \* before-quit has been handled
  acts, faults

vars == <<account, calls, pool, watcher, slot, quit, acts, faults>>

Unborn == [key |-> None, stopped |-> FALSE, timer |-> FALSE, client |-> None]

Init ==
  /\ \E grant \in BOOLEAN :
       account = [on |-> TRUE, host |-> 0, secret |-> IF grant THEN 0 ELSE 1, grant |-> grant]
  /\ calls = <<[on |-> TRUE, host |-> 0, secret |-> None]>>
  /\ pool = None /\ watcher = [w \in Watchers |-> Unborn]
  /\ slot = [s \in Slots |-> None] /\ quit = FALSE /\ acts = 0 /\ faults = 0

Acts   == ~quit /\ acts < MaxActs /\ acts' = acts + 1
Faults == faults < MaxFaults /\ faults' = faults + 1
Of(w)  == {s \in Slots : slot[s] # None /\ slot[s].of = w}
Trying(w) == {s \in Of(w) : slot[s].step \notin {"up", "leaving"}}
To(s, step) == slot' = [slot EXCEPT ![s].step = step]
Attempt(w) == [of |-> w, step |-> "resolve", rung |-> 1]

-----------------------------------------------------------------------------
(* The renderer, and the handler that gathers the secrets *)

\* What the effect's signature names has changed.
Edit(new) ==
  /\ Acts /\ new # account /\ account' = new
  /\ calls' = Append(calls, [on |-> new.on, host |-> new.host, secret |-> None])
  /\ UNCHANGED <<pool, watcher, slot, quit, faults>>

Switch     == Edit([account EXCEPT !.on = ~@])
ChangeHost == Edit([account EXCEPT !.host = 1])

\* setSecret(): the signature is as it was.
ChangeSecret ==
  /\ Acts /\ ~account.grant /\ account' = [account EXCEPT !.secret = 2]
  /\ UNCHANGED <<calls, pool, watcher, slot, quit, faults>>

Gather(i) ==
  /\ calls[i].secret = None /\ calls' = [calls EXCEPT ![i].secret = account.secret]
  /\ UNCHANGED <<account, pool, watcher, slot, quit, acts, faults>>

Key(call) == [host |-> call.host, secret |-> call.secret]
Wants(call) == call.on /\ (call.secret # 0 \/ account.grant)

\* stop(): the timers are cleared and the client is let go.
Stops(w) == [w EXCEPT !.stopped = TRUE, !.timer = FALSE, !.client = None]

Let(w) == [s \in Slots |-> IF w # None /\ watcher[w].client = s
                           THEN [slot[s] EXCEPT !.step = "leaving"] ELSE slot[s]]

Stopping(w) == IF w = None THEN watcher ELSE [watcher EXCEPT ![w] = Stops(@)]

\* watchInboxes(): a watcher whose key is wanted stays as it is.
Reconcile(i) ==
  LET call == calls[i]
      same == pool # None /\ Wants(call) /\ watcher[pool].key = Key(call)
  IN  /\ call.secret # None /\ calls' = RemoveAt(calls, i)
      /\ \/ same /\ UNCHANGED <<pool, watcher, slot>>
         \/ /\ ~same /\ ~Wants(call)
            /\ pool' = None /\ watcher' = Stopping(pool) /\ slot' = Let(pool)
         \/ /\ ~same /\ Wants(call)
            /\ \E w \in Watchers, s \in Slots :
                 /\ watcher[w] = Unborn /\ slot[s] = None /\ pool' = w
                 /\ watcher' = [Stopping(pool) EXCEPT ![w].key = Key(call)]
                 /\ slot' = [Let(pool) EXCEPT ![s] = Attempt(w)]
      /\ UNCHANGED <<account, quit, acts, faults>>

\* stopAllInboxWatchers(), from before-quit, which waits for saves after it.
Quit ==
  /\ ~quit /\ quit' = TRUE /\ pool' = None /\ watcher' = Stopping(pool) /\ slot' = Let(pool)
  /\ calls' = <<>> /\ UNCHANGED <<account, acts, faults>>

-----------------------------------------------------------------------------
(* connect() *)

Free(s) == slot' = [slot EXCEPT ![s] = None]

\* scheduleReconnect()
ScheduleAnywayBug(w) == watcher' = [watcher EXCEPT ![w].timer = TRUE]
ScheduleNotBug(w) == UNCHANGED watcher
Schedule(w) == watcher' = [watcher EXCEPT ![w].timer = @ \/ ~watcher[w].stopped]

Begins(w, s) == slot[s] = None /\ slot' = [slot EXCEPT ![s] = Attempt(w)]

Reconnect(w) ==
  /\ watcher[w].timer /\ watcher' = [watcher EXCEPT ![w].timer = FALSE]
  /\ ~watcher[w].stopped /\ \E s \in Slots : Begins(w, s)
  /\ UNCHANGED <<account, calls, pool, quit, acts, faults>>

At(s, step) == slot[s] # None /\ slot[s].step = step
Stopped(s)  == watcher[slot[s].of].stopped

Resolve(s) ==
  /\ At(s, "resolve")
  /\ \/ To(s, "token") /\ UNCHANGED <<watcher, faults>>
     \/ Faults /\ Free(s) /\ Schedule(slot[s].of)
  /\ UNCHANGED <<account, calls, pool, quit, acts>>

\* accessTokenForAccount(): null for a password; it throws when the grant
\* could not be used, and connect() ends there.
AccessToken(s) ==
  /\ At(s, "token")
  /\ \/ To(s, "open") /\ UNCHANGED <<watcher, faults>>
     \/ account.grant /\ Faults /\ Free(s) /\ UNCHANGED watcher
  /\ UNCHANGED <<account, calls, pool, quit, acts>>

\* The top of the loop: a watcher that was stopped gives up.
Rung(s) ==
  /\ At(s, "open") /\ Stopped(s) /\ Free(s)
  /\ UNCHANGED <<account, calls, pool, watcher, quit, acts, faults>>

\* client.connect(), and what follows it in the same turn.
Connects(s) ==
  /\ At(s, "open")
  /\ IF Stopped(s) THEN Free(s) ELSE To(s, "mailbox")
  /\ UNCHANGED <<account, calls, pool, watcher, quit, acts, faults>>

\* An endpoint fails: the next one, or a reconnect later, at once if the
\* server refused the token.
Fails(s) ==
  /\ Faults /\ (At(s, "open") \/ At(s, "mailbox"))
  /\ \/ /\ slot[s].rung < Rungs
        /\ slot' = [slot EXCEPT ![s].rung = @ + 1, ![s].step = "open"] /\ UNCHANGED watcher
     \/ (slot[s].rung = Rungs \/ account.grant) /\ Free(s) /\ Schedule(slot[s].of)
  /\ UNCHANGED <<account, calls, pool, quit, acts>>

MailboxOpen(s) ==
  /\ At(s, "mailbox") /\ To(s, "up")
  /\ watcher' = [watcher EXCEPT ![slot[s].of].client = s]
  /\ UNCHANGED <<account, calls, pool, quit, acts, faults>>

\* The socket of a connection closes, and drop() runs.
IgnoredBug(s) == Stopped(s)
Ignored(s) == Stopped(s) \/ watcher[slot[s].of].client # s

Drop(s) ==
  /\ \/ At(s, "leaving") /\ UNCHANGED faults
     \/ At(s, "up") /\ Faults
  /\ Free(s)
  /\ \/ Ignored(s) /\ UNCHANGED watcher
     \/ /\ ~Ignored(s)
        /\ watcher' = [watcher EXCEPT ![slot[s].of].client = None, ![slot[s].of].timer = TRUE]
  /\ UNCHANGED <<account, calls, pool, quit, acts>>

Recycle(s) ==
  /\ At(s, "up") /\ ~Ignored(s)
  /\ watcher' = [watcher EXCEPT ![slot[s].of].client = None]
  /\ \E t \in Slots : /\ slot[t] = None
                      /\ slot' = [slot EXCEPT ![s].step = "leaving", ![t] = Attempt(slot[s].of)]
  /\ UNCHANGED <<account, calls, pool, quit, acts, faults>>

Connect(s) == Resolve(s) \/ AccessToken(s) \/ Rung(s) \/ Connects(s) \/ MailboxOpen(s)

Next ==
  \/ Switch \/ ChangeHost \/ ChangeSecret \/ Quit
  \/ \E i \in DOMAIN calls : Gather(i) \/ Reconcile(i)
  \/ \E w \in Watchers : Reconnect(w)
  \/ \E s \in Slots : Connect(s) \/ Fails(s) \/ Drop(s) \/ Recycle(s)

Spec == Init /\ [][Next]_vars

-----------------------------------------------------------------------------
(* Properties *)

\* Every variable has its type.
TypeOK ==
  /\ account \in [on : BOOLEAN, host : 0..1, secret : 0..2, grant : BOOLEAN]
  /\ \A i \in DOMAIN calls : calls[i].secret \in (0..2) \cup {None}
  /\ pool \in Watchers \cup {None} /\ (pool # None => ~watcher[pool].stopped)
  /\ \A w \in Watchers :
       /\ watcher[w].timer \in BOOLEAN /\ watcher[w].client \in Slots \cup {None}
       /\ watcher[w] = Unborn => Of(w) = {}
  /\ \A s \in Slots : slot[s] \in Attempts \cup {None}
  /\ quit \in BOOLEAN /\ acts \in 0..MaxActs /\ faults \in 0..MaxFaults

\* A watcher does one thing at a time: it is connected, or connects, or waits
\* to.  A connection that is recycled closes while the next one is made, and
\* its drop() must not start a third (imapIdle.ts, `this.client !== client`).
OneAtATime ==
  \A w \in Watchers :
    Cardinality(Trying(w)) + (IF watcher[w].timer THEN 1 ELSE 0)
      + (IF watcher[w].client = None THEN 0 ELSE 1) <= 1

\* A watcher that was stopped waits for nothing and starts no attempt.
StoppedStartsNothing ==
  \A w \in DOMAIN watcher : watcher[w].stopped =>
    /\ ~watcher'[w].timer
    /\ \A s \in DOMAIN slot : (slot'[s] # None /\ slot'[s].of = w) => (slot[s] # None /\ slot[s].of = w)

\* An account with a password that wants push gets it and gets it back: a
\* connection that drops, a host that does not resolve and a server that
\* refuses cost a delay and no more.
PushComesBack ==
  [](pool # None /\ ~account.grant => <>(pool = None \/ watcher[pool].client # None))

\* "never recover on its own" (imapIdle.ts:272-273) is what letting go of a
\* refused token avoids: the watcher of any account that wants push gets it.
RecoversOnItsOwn ==
  [](pool # None => <>(pool = None \/ watcher[pool].client # None))

\* "Drop every connection" (imapIdle.ts:350): no connection is up that no
\* watcher holds.
SocketsAreHeld == \A s \in Slots : At(s, "up") => watcher[slot[s].of].client = s /\ ~Stopped(s)

\* "authenticated with the password that was just replaced" (imapIdle.ts:63)
\* is what the hash in the key avoids: with no call under way the watcher has
\* the password there is.
NoOldPassword == (calls = <<>> /\ pool # None) => watcher[pool].key.secret = account.secret

\* "Point the push watchers at the accounts that currently want one"
\* (main.ts:2450): with no call under way an account that is off has none.
OffIsOff == (calls = <<>> /\ ~account.on) => pool = None
=============================================================================
