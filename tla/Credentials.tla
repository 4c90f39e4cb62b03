----------------------------- MODULE Credentials -----------------------------
(***************************************************************************)
(* secrets.json (electron/store.ts) and the OAuth2 grants kept in it       *)
(* (electron/oauth.ts): access tokens minted from the stored refresh       *)
(* token, one refresh in flight per account, providers that rotate the     *)
(* refresh token, the consent, the disconnect, passwords saved meanwhile,  *)
(* and the credentials a mail server refuses.                              *)
(*                                                                         *)
(* A refresh token is a number, 0 is none.  setSecret() and deleteSecret() *)
(* read the file, change the copy and write it: two steps.  The provider   *)
(* accepts a set of tokens; one that was replaced is retired and lapses    *)
(* sooner or later.  resolvePresetId() is one step with the read of the    *)
(* grant.  A consent the user gives up changes nothing and is left out, as *)
(* are the listener, PKCE and encryption.                                  *)
(*                                                                         *)
(* Bounds of the model: Tasks (calls at one time), MaxTokens (refresh      *)
(* tokens per account), MaxActs (of the user), MaxFaults (answers lost,    *)
(* writes failing, sign-ins refused, deaths of the process).               *)
(***************************************************************************)
EXTENDS Integers, FiniteSets

CONSTANTS
  Accounts, Rotating,   \* Rotating: those whose provider replaces refresh tokens
  Tasks, None, MaxTokens, MaxActs, MaxFaults

CredentialsAssumption ==
  /\ Rotating \subseteq Accounts /\ None \notin Accounts \cup Tasks
  /\ MaxTokens \in Nat \ {0} /\ {MaxActs, MaxFaults} \subseteq Nat

VARIABLES
  file,       \* secrets.json
  task,       \* the calls under way
  inFlight,   \* per account: the refresh later callers join
  cache,      \* accounts with a token that has not expired
  rejected,   \* accounts whose grant the provider has refused
  accepts, retired, issued,   \* the provider's side
  stored,     \* per key: what the last call that ended has put there
  refused,    \* per account: the token that was refused last
  forgotten,  \* accounts disconnected and not connected since
  disturbed,  \* which of the things that may cost a grant have happened
  acts, faults

provider == <<accepts, retired, issued>>
memory   == <<inFlight, cache, rejected>>
ghosts   == <<stored, refused, forgotten, disturbed>>
vars     == <<file, task, memory, provider, ghosts, acts, faults>>

Keys    == Accounts \X {"grant", "provider", "password"}
Secrets == [Keys -> 0..(MaxTokens + MaxActs)]

Kinds == {"none", "refresh", "consent", "forget", "password"}
Task  == [kind : Kinds, account : Accounts \cup {None}, token : Nat,
          step : {"none", "finding", "asking", "refused", "broken", "consenting", "grant",
                  "provider", "password", "caching"}]
Idle  == [kind |-> "none", account |-> None, token |-> 0, step |-> "none"]
Writing == {"grant", "provider", "password"}   \* the key that is set or deleted

Init ==
  /\ file = [k \in Keys |-> IF k[2] = "password" THEN 0 ELSE 1]
  /\ task = [t \in Tasks |-> [job |-> Idle, read |-> {}]]
  /\ inFlight = [a \in Accounts |-> None] /\ cache = {} /\ rejected = {}
  /\ accepts = [a \in Accounts |-> {1}] /\ retired = [a \in Accounts |-> {}]
  /\ issued = [a \in Accounts |-> 1]
  /\ stored = file /\ refused = [a \in Accounts |-> 0]
  /\ forgotten = {} /\ disturbed = {} /\ acts = 0 /\ faults = 0

Job(t)  == task[t].job
Runs(t, kind) == Job(t).kind = kind
Begins(t, job) ==
  /\ Job(t) = Idle
  /\ task' = [task EXCEPT ![t].job = job]
To(t, step)    == task' = [task EXCEPT ![t].job.step = step]
Finishes(t)    == task' = [task EXCEPT ![t] = [job |-> Idle, read |-> {}]]
New(kind, a, step) == [kind |-> kind, account |-> a, token |-> 0, step |-> step]
Acts   == acts < MaxActs /\ acts' = acts + 1
Faults == faults < MaxFaults /\ faults' = faults + 1
Disturbed(what) == disturbed' = disturbed \cup {what}

-----------------------------------------------------------------------------
(* secrets.json *)

ReadsSecrets(t) ==
  /\ Job(t).step \in Writing /\ task[t].read = {}
  /\ task' = [task EXCEPT ![t].read = {file}]
  /\ UNCHANGED <<file, memory, provider, ghosts, acts, faults>>

Key(t)   == <<Job(t).account, Job(t).step>>
Value(t) == IF Runs(t, "forget") THEN 0 ELSE IF Job(t).step = "provider" THEN 1 ELSE Job(t).token

\* What comes after a key is written, or could not be.
AfterWrite(t, ok) ==
  IF Job(t).step = "password" THEN "none"
  ELSE IF Runs(t, "forget") THEN (IF Job(t).step = "grant" THEN "provider" ELSE "none")
  ELSE IF ~ok THEN "broken"
  ELSE IF Job(t).step = "grant" THEN "provider" ELSE "caching"

Connecting(a) == \E t \in Tasks : Runs(t, "consent") /\ Job(t).account = a

WritesSecrets(t) ==
  \E read \in task[t].read, ok \in BOOLEAN :
    LET same == Runs(t, "forget") /\ read[Key(t)] = 0   \* nothing to delete
    IN
    /\ IF ok THEN UNCHANGED faults ELSE ~same /\ Faults
    /\ file' = IF ok /\ ~same THEN [read EXCEPT ![Key(t)] = Value(t)] ELSE file
    /\ stored' = IF ok THEN [stored EXCEPT ![Key(t)] = Value(t)] ELSE stored
    /\ forgotten' = IF ok /\ Runs(t, "forget") /\ ~Connecting(Job(t).account)
                    THEN forgotten \cup {Job(t).account} ELSE forgotten
    /\ disturbed' = disturbed \cup (IF ok THEN {} ELSE {"not written"})
                              \cup (IF ok /\ ~same /\ read # file THEN {"overwritten"} ELSE {})
    /\ IF AfterWrite(t, ok) = "none" THEN Finishes(t)
       ELSE task' = [task EXCEPT ![t].job.step = AfterWrite(t, ok), ![t].read = {}]
    /\ UNCHANGED <<memory, provider, refused, acts>>

\* The settings save a password; the renderer writes several without waiting.
SetsPassword(t, a) ==
  /\ Acts
  /\ Begins(t, [New("password", a, "password") EXCEPT !.token = acts + 1])
  /\ UNCHANGED <<file, memory, provider, ghosts, faults>>

-----------------------------------------------------------------------------
(* accessTokenForAccount() *)

\* A token in the cache is used, a refresh in flight is joined: neither changes
\* anything.  Otherwise a refresh begins.
Asks(t, a) ==
  /\ a \notin cache /\ inFlight[a] = None
  /\ Begins(t, New("refresh", a, "finding"))
  /\ inFlight' = [inFlight EXCEPT ![a] = t]
  /\ UNCHANGED <<file, cache, rejected, provider, ghosts, acts, faults>>

\* .finally(() => inFlight.delete(accountId)), whichever refresh is entered there
Ended(t) == IF Runs(t, "refresh") THEN [inFlight EXCEPT ![Job(t).account] = None] ELSE inFlight

HasGrant(a) == file[<<a, "grant">>] # 0

\* The caller may know the provider; otherwise it is read.  Nothing stored: no token.
FindsGrant(t) ==
  LET a == Job(t).account
      grant == file[<<a, "grant">>]
  IN  /\ Job(t).step = "finding"
      /\ \/ HasGrant(a) /\ task' = [task EXCEPT ![t].job.step = "asking", ![t].job.token = grant]
            /\ UNCHANGED inFlight
         \/ (~HasGrant(a) \/ file[<<a, "provider">>] = 0) /\ Finishes(t) /\ inFlight' = Ended(t)
      /\ UNCHANGED <<file, cache, rejected, provider, ghosts, acts, faults>>

Refused(t) ==
  LET a == Job(t).account
  IN  /\ Job(t).step = "refused" /\ Finishes(t)
      /\ rejected' = rejected \cup {a} /\ cache' = cache \ {a}
      /\ refused' = [refused EXCEPT ![a] = Job(t).token]
      /\ inFlight' = Ended(t)
      /\ UNCHANGED <<file, provider, stored, forgotten, disturbed, acts, faults>>

\* The network, or secrets.json, has failed: the caller is told, no more.
Fails(t) ==
  /\ Job(t).step = "broken" /\ Finishes(t) /\ inFlight' = Ended(t)
  /\ UNCHANGED <<file, cache, rejected, provider, ghosts, acts, faults>>

ClearedNotBug(a) == rejected

Cleared(a) == rejected \ {a}

\* persistTokens() ends.
Caches(t) ==
  LET a == Job(t).account
  IN  /\ Job(t).step = "caching" /\ Finishes(t)
      /\ cache' = cache \cup {a} /\ rejected' = Cleared(a)
      /\ inFlight' = Ended(t)
      /\ UNCHANGED <<file, provider, ghosts, acts, faults>>

Expires(a) ==
  /\ a \in cache /\ cache' = cache \ {a}
  /\ UNCHANGED <<file, task, inFlight, rejected, provider, ghosts, acts, faults>>

\* noteOAuthAuthFailure(): a mail server has refused an access token.
ServerRefuses(a) ==
  /\ Faults
  /\ cache' = cache \ {a} /\ inFlight' = [inFlight EXCEPT ![a] = None]
  /\ IF inFlight[a] # None THEN Disturbed("raced") ELSE UNCHANGED disturbed
  /\ UNCHANGED <<file, task, rejected, provider, stored, refused, forgotten, acts>>

-----------------------------------------------------------------------------
(* The provider *)

\* Where a token response leads: a new refresh token is stored, none keeps the old.
KeepsNew(t, new) ==
  IF new # 0 THEN [task EXCEPT ![t].job.step = "grant", ![t].job.token = new]
             ELSE [task EXCEPT ![t].job.step = "caching"]

\* It refuses a token it does not know.  One it knows it may replace; the answer
\* may be lost on the way.
Answers(t) ==
  LET a   == Job(t).account
      old == Job(t).token
      new == issued[a] + 1
  IN  /\ Job(t).step = "asking"
      /\ \/ old \notin accepts[a] /\ To(t, "refused")
            /\ UNCHANGED <<provider, disturbed, faults>>
         \/ Faults /\ To(t, "broken") /\ UNCHANGED <<provider, disturbed>>
         \/ /\ old \in accepts[a] /\ (a \notin Rotating \/ issued[a] = MaxTokens)
            /\ task' = KeepsNew(t, 0) /\ UNCHANGED <<provider, disturbed, faults>>
         \/ /\ old \in accepts[a] /\ a \in Rotating /\ issued[a] < MaxTokens
            /\ issued' = [issued EXCEPT ![a] = new]
            /\ accepts' = [accepts EXCEPT ![a] = @ \cup {new}]
            /\ retired' = [retired EXCEPT ![a] = @ \cup {old}]
            /\ \/ task' = KeepsNew(t, new) /\ UNCHANGED <<disturbed, faults>>
               \/ Faults /\ To(t, "broken") /\ Disturbed("lost")
      /\ UNCHANGED <<file, memory, stored, refused, forgotten, acts>>

Lapses(a) ==
  /\ retired[a] \cap accepts[a] # {} /\ accepts' = [accepts EXCEPT ![a] = @ \ retired[a]]
  /\ UNCHANGED <<file, task, memory, retired, issued, ghosts, acts, faults>>

\* The user takes the grant back at the provider.
Withdraws(a) ==
  /\ Acts /\ accepts' = [accepts EXCEPT ![a] = {}] /\ Disturbed("withdrawn")
  /\ UNCHANGED <<file, task, memory, retired, issued, stored, refused, forgotten, faults>>

\* runConsent(): the user signs in, the code is exchanged, the grant is stored.
Consents(t, a) ==
  /\ Acts /\ issued[a] < MaxTokens
  /\ Begins(t, New("consent", a, "consenting"))
  /\ forgotten' = forgotten \ {a}
  /\ UNCHANGED <<file, memory, provider, stored, refused, disturbed, faults>>

SignedIn(t) ==
  LET a   == Job(t).account
      new == issued[a] + 1
  IN  /\ Job(t).step = "consenting"
      /\ \/ /\ issued[a] < MaxTokens
            /\ issued' = [issued EXCEPT ![a] = new]
            /\ accepts' = [accepts EXCEPT ![a] = @ \cup {new}]
            /\ task' = KeepsNew(t, new)
         \/ Finishes(t) /\ UNCHANGED <<issued, accepts>>   \* given up
      /\ UNCHANGED <<file, memory, retired, ghosts, acts, faults>>

\* forgetOAuthAccount(): the account is deleted or disconnected.
Forgets(t, a) ==
  /\ Acts
  /\ Begins(t, New("forget", a, "grant"))
  /\ cache' = cache \ {a} /\ rejected' = rejected \ {a}
  /\ inFlight' = [inFlight EXCEPT ![a] = None]
  /\ IF inFlight[a] # None THEN Disturbed("raced") ELSE UNCHANGED disturbed
  /\ UNCHANGED <<file, provider, stored, refused, forgotten, faults>>

Dies ==
  /\ Faults
  /\ task' = [t \in Tasks |-> [job |-> Idle, read |-> {}]]
  /\ inFlight' = [a \in Accounts |-> None] /\ cache' = {} /\ rejected' = {}
  /\ disturbed' = IF \E t \in Tasks : Job(t) # Idle THEN disturbed \cup {"died"} ELSE disturbed
  /\ UNCHANGED <<file, provider, stored, refused, forgotten, acts>>

-----------------------------------------------------------------------------
TaskStep(t) ==
  \/ ReadsSecrets(t) \/ WritesSecrets(t) \/ FindsGrant(t) \/ Refused(t) \/ Fails(t)
  \/ Caches(t) \/ Answers(t) \/ SignedIn(t)

Next ==
  \/ \E t \in Tasks : TaskStep(t)
  \/ \E t \in Tasks, a \in Accounts :
       Asks(t, a) \/ SetsPassword(t, a) \/ Consents(t, a) \/ Forgets(t, a)
  \/ \E a \in Accounts : Expires(a) \/ ServerRefuses(a) \/ Lapses(a) \/ Withdraws(a)
  \/ Dies

Spec == Init /\ [][Next]_vars

-----------------------------------------------------------------------------
(* Properties. *)

TypeOK ==
  /\ file \in Secrets /\ stored \in Secrets
  /\ \A t \in Tasks : /\ Job(t) \in Task /\ task[t].read \subseteq Secrets
                      /\ Job(t).step \in {"asking", "grant"} /\ ~Runs(t, "forget") => Job(t).token # 0
  /\ inFlight \in [Accounts -> Tasks \cup {None}]
  /\ {cache, rejected, forgotten} \subseteq SUBSET Accounts
  /\ accepts \in [Accounts -> SUBSET (1..MaxTokens)]
  /\ retired \in [Accounts -> SUBSET (1..MaxTokens)]
  /\ issued \in [Accounts -> 1..MaxTokens] /\ refused \in [Accounts -> 0..MaxTokens]
  /\ disturbed \subseteq {"not written", "overwritten", "raced", "lost", "withdrawn", "died"}
  /\ acts \in 0..MaxActs /\ faults \in 0..MaxFaults

Good(a) == file[<<a, "grant">>] \in accepts[a] \ retired[a]

\* persistTokens(): a provider that rotates never leaves the file with a token that
\* lapses, one that does not never erases it -- whatever refreshes, sign-ins and
\* disconnects of several accounts come together.  What may cost a grant: a write
\* that fails or is undone by another change of the file, an answer lost on the
\* way, a sign-in refused during a refresh, the user, or a death in the middle.
GrantSurvives ==
  disturbed = {} =>
    \A a \in Accounts :
      \/ file[<<a, "grant">>] = 0 \/ Good(a)
      \/ \E t \in Tasks : Job(t).account = a /\ Job(t).step = "grant"

\* No later call joins a refresh that has ended: it would be given the answer, or
\* the error, of then.
JoinsOnlyTheLiving ==
  \A a \in Accounts : inFlight[a] # None =>
    Runs(inFlight[a], "refresh") /\ Job(inFlight[a]).account = a

\* An account that may connect is not told to reconnect for good: when its grant (and
\* the provider it is of) stays in the file, the mark of a rejection goes.
RejectionHeals ==
  \A a \in Accounts :
    <>[](Good(a) /\ file[<<a, "provider">>] # 0) => []<>(a \notin rejected)

\* oauth.ts, inFlight: two sends do not "race to replace" a token, "invalidating
\* each other's brand new one".
OneRefresh ==
  \A t, u \in Tasks :
    (Job(t).step = "asking" /\ Job(u).step = "asking" /\ Job(t).account = Job(u).account) => t = u

\* store.ts, ledgerQueue: secrets need no queue since they are written "only from
\* user-triggered, non-concurrent calls".  What a call has stored is in the file.
SecretsKept == file = stored

\* oauth.ts, forgetOAuthAccount(): "Drop everything held for an account".
ForgottenIsGone == \A a \in forgotten : file[<<a, "grant">>] = 0

\* oauth.ts, rejected: the mark is "cleared the moment a new grant is stored", so
\* that it never speaks of an account that works.
RejectedIsCurrent ==
  \A a \in rejected : ~Good(a) \/ \E t \in Tasks : Job(t).account = a
=============================================================================
