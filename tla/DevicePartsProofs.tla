------------------------- MODULE DevicePartsProofs --------------------------
(***************************************************************************)
(* Proofs about the three parts of MCDevices: DeviceSync, AndroidScheduler *)
(* and Pairing, in this order.                                             *)
(*                                                                         *)
(* About DeviceSync, for any jobs and bounds, its types, and that a        *)
(* request is accepted once.  When one of the two devices asks: what the   *)
(* asker takes for told is on the other's disk, a successful cycle leaves  *)
(* both alike, and a job goes only because somebody deleted it -- for      *)
(* every job that was not itself changed on a device in mid-exchange.      *)
(*                                                                         *)
(* A device remembers only the time of its last cycle, and leaves out of   *)
(* the next whatever is older.  The invariant says what the other device   *)
(* then knows: what each payload under way leaves out, its receiver has.   *)
(*                                                                         *)
(* About AndroidScheduler, for any jobs, plans and bounds: its types, that *)
(* an instant is mailed once, and that a job with an instant ahead stays   *)
(* armed.  An alarm may be dropped because the job is being worked on, and *)
(* the work ends by arming the job again: the invariant says for what an   *)
(* alarm can be set at each step of the work.                              *)
(*                                                                         *)
(* About Pairing, for any joiners and bounds: its types, that a key is     *)
(* kept for the pairing its code was drawn for, and that the code a        *)
(* patient user sees is the one that is served.  The panel hears of the    *)
(* listener through a queue: the invariant says what the queue can hold    *)
(* in each state of the session.                                           *)
(***************************************************************************)
EXTENDS DeviceSync, Sequences, FiniteSetTheorems, WellFoundedInduction, TLAPS

-----------------------------------------------------------------------------
(* Types *)

Stamps    == [Jobs -> Nat]
States    == [jobs : Stamps, deleted : Stamps, losers : Stamps,
              lastSynced : Nat, outSeq : Nat, accSeq : Nat]
Payloads  == [jobs : Stamps, deleted : Stamps]
Patches   == [jobs : Stamps, setsJobs : BOOLEAN, deleted : Stamps,
              setsDeleted : BOOLEAN, losers : Stamps]
Requests  == [from : Devices, live : BOOLEAN, seq : Nat, changed : Payloads]
Exchanges == [at : Devices, live : BOOLEAN, seq : Nat, patch : Patches,
              reply : Payloads, replySeq : Nat, step : {"merging", "saving"}]
Asks      == [step : {"none", "sent", "answered", "merging"}, now : Nat, since : Nat,
              seq : Nat, theirs : Payloads, theirSeq : Nat, patch : Patches]

StateTypes ==
  /\ clock \in Nat /\ undos \in Nat /\ crashes \in Nat
  /\ state \in [Devices -> States] /\ disk \in [Devices -> States]
  /\ meant \in [Devices -> Stamps] /\ undoStack \in [Devices -> Stamps]
  /\ rushed \subseteq Jobs

TalkTypes ==
  /\ ask \in [Devices -> Asks]
  /\ report \in [Devices -> {"none", "synced", "failed"}]
  /\ wire \subseteq Requests /\ exchanges \subseteq Exchanges
  /\ accepted \in [Devices -> [1..MaxSeq + 1 -> Nat]]

SyncTypes == StateTypes /\ TalkTypes

\* What was accepted in this life of the process is below the counter.
Counted ==
  \A d \in Devices, n \in 1..MaxSeq + 1 :
    accepted[d][n] <= 1 /\ (accepted[d][n] # 0 => n <= state[d].accSeq)

-----------------------------------------------------------------------------
(* The devices *)

OneAsker == \E d \in Devices : Askers = {d}

Asker == CHOOSE d \in Devices : Askers = {d}
Other == Peer(Asker)

LEMMA TwoDevices ==
  ASSUME SyncAssumption, OneAsker
  PROVE  /\ Devices = {Asker, Other} /\ Asker # Other /\ Askers = {Asker}
         /\ Peer(Asker) = Other /\ Peer(Other) = Asker
<1>1. Asker \in Devices /\ Askers = {Asker}
  BY DEF OneAsker, Asker
<1>2. IsFiniteSet(Devices \ {Asker}) /\ Cardinality(Devices \ {Asker}) = 1
  BY <1>1, FS_RemoveElement DEF SyncAssumption
<1>3. PICK p : Devices \ {Asker} = {p}
  BY <1>2, FS_Singleton
<1>4. Devices = {Asker, p} /\ p # Asker
  BY <1>1, <1>3
<1>5. Other = p
  BY <1>4 DEF Other, Peer
<1>6. Peer(Other) = Asker
  BY <1>4, <1>5 DEF Peer
<1> QED BY <1>1, <1>4, <1>5, <1>6 DEF Other

-----------------------------------------------------------------------------
(* What the operators return *)

LEMMA ChangedType ==
  ASSUME NEW s, s.jobs \in Stamps, s.deleted \in Stamps, NEW u \in Nat
  PROVE  Changed(s, u) \in Payloads
BY DEF Changed, Since, Payloads, Stamps

LEMMA WinnerType ==
  ASSUME NEW m \in Nat, NEW t \in Nat, NEW u \in Nat PROVE Winner(m, t, u) \in Nat
BY DEF Winner, Later

LEMMA NoPatchType == Nothing \in Payloads /\ NoPatch \in Patches /\ NoAsk \in Asks
BY DEF Nothing, NoPatch, NoAsk, Nobody, Payloads, Patches, Asks, Stamps

LEMMA MergedType ==
  ASSUME NEW s \in States, NEW u \in Nat, NEW c \in Payloads
  PROVE  Merged(s, u, c) \in Patches
<1> DEFINE deleted == [j \in Jobs |-> Later(s.deleted[j], c.deleted[j])]
           winners == [j \in Jobs |-> Winner(s.jobs[j], c.jobs[j], u)]
           jobs    == [j \in Jobs |-> IF Survives(winners[j], deleted[j]) THEN winners[j] ELSE 0]
           lost    == {j \in Jobs : /\ c.jobs[j] # 0 /\ s.jobs[j] > u
                                    /\ s.jobs[j] # c.jobs[j]}
           losers  == [j \in Jobs |-> IF j \notin lost THEN 0
                        ELSE IF winners[j] = s.jobs[j] THEN c.jobs[j] ELSE s.jobs[j]]
<1>1. \A j \in Jobs : /\ s.jobs[j] \in Nat /\ c.jobs[j] \in Nat
                      /\ s.deleted[j] \in Nat /\ c.deleted[j] \in Nat
  BY DEF States, Payloads, Stamps
<1>2. deleted \in Stamps
  BY <1>1 DEF Stamps, Later
<1>3. winners \in Stamps
  BY <1>1, WinnerType DEF Stamps
<1>4. jobs \in Stamps
  <2> HIDE DEF winners, deleted
  <2> QED BY <1>3 DEF Stamps
<1>5. losers \in Stamps
  <2> HIDE DEF winners, deleted, lost
  <2> QED BY <1>1 DEF Stamps
<1>6. Merged(s, u, c) =
        IF c = Nothing THEN NoPatch
        ELSE [jobs |-> jobs, setsJobs |-> c.jobs # Nobody \/ jobs # s.jobs,
              deleted |-> deleted, setsDeleted |-> c.deleted # Nobody, losers |-> losers]
  BY DEF Merged
<1> HIDE DEF deleted, winners, jobs, lost, losers
<1> QED BY <1>2, <1>4, <1>5, <1>6, NoPatchType DEF Patches

LEMMA AppliedType ==
  ASSUME NEW s \in States, NEW p \in Patches, NEW at \in Nat, NEW o \in Nat, NEW a \in Nat
  PROVE  /\ Applied(s, p, at, o, a) \in States
         /\ Applied(s, p, at, o, a).lastSynced = at
         /\ Applied(s, p, at, o, a).outSeq = Later(s.outSeq, o)
         /\ Applied(s, p, at, o, a).accSeq = Later(s.accSeq, a)
         /\ s.accSeq <= Applied(s, p, at, o, a).accSeq
<1>1. (IF p.setsJobs THEN p.jobs ELSE s.jobs) \in Stamps
  BY DEF States, Patches
<1>2. (IF p.setsDeleted THEN p.deleted ELSE s.deleted) \in Stamps
  BY DEF States, Patches
<1>3. [j \in Jobs |-> IF p.losers[j] # 0 THEN p.losers[j] ELSE s.losers[j]] \in Stamps
  BY DEF States, Patches, Stamps
<1>4. Later(s.outSeq, o) \in Nat /\ Later(s.accSeq, a) \in Nat /\ s.accSeq <= Later(s.accSeq, a)
  BY DEF Later, States
<1> QED BY <1>1, <1>2, <1>3, <1>4 DEF Applied, States

LEMMA CommittedType ==
  ASSUME NEW s \in States, NEW n \in Nat
  PROVE  /\ Committed(s, n) \in States
         /\ Committed(s, n).jobs = s.jobs /\ Committed(s, n).deleted = s.deleted
         /\ Committed(s, n).lastSynced = s.lastSynced /\ Committed(s, n).outSeq = s.outSeq
         /\ Committed(s, n).accSeq = Later(s.accSeq, n)
         /\ s.accSeq <= Committed(s, n).accSeq /\ n <= Committed(s, n).accSeq
<1>1. Later(s.accSeq, n) \in Nat /\ s.accSeq <= Later(s.accSeq, n) /\ n <= Later(s.accSeq, n)
  BY DEF Later, States
<1> QED BY <1>1 DEF Committed, States

LEMMA PeerIsDevice ==
  ASSUME SyncAssumption, NEW d \in Devices PROVE Peer(d) \in Devices /\ Peer(d) # d
<1>1. IsFiniteSet(Devices \ {d}) /\ Cardinality(Devices \ {d}) = 1
  BY FS_RemoveElement DEF SyncAssumption
<1>2. PICK p : Devices \ {d} = {p}
  BY <1>1, FS_Singleton
<1> QED BY <1>2 DEF Peer

-----------------------------------------------------------------------------
(* The types, and the numbers that were accepted *)

Lived == SyncTypes /\ Counted

LEMMA InitLived == ASSUME SyncAssumption, Init PROVE Lived
<1>1. Nobody \in Stamps /\ Fresh \in States
  BY DEF Nobody, Fresh, Stamps, States
<1>2. StateTypes
  BY <1>1 DEF Init, StateTypes
<1>3. TalkTypes
  BY NoPatchType DEF Init, TalkTypes
<1>4. Counted
  BY DEF Init, Counted
<1> QED BY <1>2, <1>3, <1>4 DEF Lived, SyncTypes

\* Counted only looks at what was accepted and at the counters, which climb.
LEMMA StillCounted ==
  ASSUME Counted, SyncTypes, SyncTypes', accepted' = accepted,
         \A d \in Devices : state[d].accSeq <= state'[d].accSeq
  PROVE  Counted'
<1> SUFFICES ASSUME NEW d \in Devices, NEW n \in 1..MaxSeq + 1
             PROVE  accepted'[d][n] <= 1 /\ (accepted'[d][n] # 0 => n <= state'[d].accSeq)
  BY DEF Counted
<1>1. state[d].accSeq \in Nat /\ state'[d].accSeq \in Nat
  BY DEF SyncTypes, StateTypes, States
<1>2. accepted[d][n] <= 1 /\ (accepted[d][n] # 0 => n <= state[d].accSeq)
  BY DEF Counted
<1> QED BY <1>1, <1>2

LEMMA AskingLived ==
  ASSUME SyncAssumption, Lived, NEW d \in Devices,
         AskBegins(d) \/ GivesUp(d) \/ HearsReply(d) \/ AskEnds(d)
  PROVE  Lived'
<1> USE DEF Lived, SyncTypes
<1>1. /\ state[d] \in States /\ ask[d] \in Asks /\ ask[d].seq \in Nat /\ ask[d].now \in Nat
      /\ ask[d].since \in Nat /\ ask[d].theirSeq \in Nat /\ ask[d].theirs \in Payloads
      /\ ask[d].patch \in Patches
  BY DEF StateTypes, TalkTypes, Asks
<1>2. /\ state[d].lastSynced \in Nat /\ state[d].outSeq + 1 \in Nat
      /\ state[d].jobs \in Stamps /\ state[d].deleted \in Stamps
  BY <1>1 DEF States
<1>3. CASE AskBegins(d)
  <2>1. [from |-> d, live |-> TRUE, seq |-> state[d].outSeq + 1,
          changed |-> Changed(state[d], state[d].lastSynced)] \in Requests
    BY <1>2, ChangedType DEF Requests
  <2>2. [NoAsk EXCEPT !.step = "sent", !.now = clock, !.since = state[d].lastSynced,
                      !.seq = state[d].outSeq + 1] \in Asks
    BY <1>2, NoPatchType DEF Asks, StateTypes
  <2>3. TalkTypes'
    BY <1>3, <2>1, <2>2 DEF AskBegins, TalkTypes
  <2>4. StateTypes' /\ UNCHANGED <<state, accepted>>
    BY <1>3 DEF AskBegins, StateTypes, stateVars, budgets
  <2> QED BY <2>3, <2>4 DEF Counted
<1>4. CASE GivesUp(d)
  <2>1. Forsaken(wire, d) \subseteq Requests
    BY DEF Forsaken, TalkTypes, Requests
  <2>2. Abandoned(d) \subseteq Exchanges
    BY DEF Abandoned, TalkTypes, Exchanges
  <2>3. TalkTypes'
    BY <1>4, <2>1, <2>2, NoPatchType DEF GivesUp, TalkTypes
  <2>4. StateTypes' /\ UNCHANGED <<state, accepted>>
    BY <1>4 DEF GivesUp, StateTypes, stateVars
  <2> QED BY <2>3, <2>4 DEF Counted
<1>5. CASE HearsReply(d)
  <2>1. Merged(state[d], ask[d].since, ask[d].theirs) \in Patches
    BY <1>1, MergedType
  <2>2. [ask[d] EXCEPT !.step = "merging", !.patch = Merged(state[d], ask[d].since, ask[d].theirs)]
          \in Asks
    BY <1>1, <2>1 DEF Asks
  <2>3. ask' \in [Devices -> Asks]
    BY <1>5, <2>2, NoPatchType DEF HearsReply, TalkTypes
  <2>4. TalkTypes'
    BY <1>5, <2>3 DEF HearsReply, TalkTypes
  <2>5. StateTypes' /\ UNCHANGED <<state, accepted>>
    BY <1>5 DEF HearsReply, StateTypes, stateVars, budgets
  <2> QED BY <2>4, <2>5 DEF Counted
<1>6. CASE AskEnds(d)
  <2> DEFINE x == Applied(state[d], ask[d].patch, SyncedAt(d), ask[d].seq, ask[d].theirSeq)
  <2>1. x \in States /\ state[d].accSeq <= x.accSeq
    BY <1>1, AppliedType DEF SyncedAt
  <2>2. state' = [state EXCEPT ![d] = x]
    BY <1>6 DEF AskEnds
  <2> HIDE DEF x
  <2>3. StateTypes' /\ accepted' = accepted
    BY <1>6, <2>1, <2>2 DEF AskEnds, StateTypes, budgets
  <2>4. TalkTypes'
    BY <1>6, NoPatchType DEF AskEnds, TalkTypes
  <2>5. \A p \in Devices : state[p].accSeq <= state'[p].accSeq
    <3> SUFFICES ASSUME NEW p \in Devices PROVE state[p].accSeq <= state'[p].accSeq
      OBVIOUS
    <3>1. state[p].accSeq \in Nat
      BY DEF StateTypes, States
    <3> QED BY <2>1, <2>2, <3>1 DEF StateTypes
  <2> QED BY <2>3, <2>4, <2>5, StillCounted
<1> QED BY <1>3, <1>4, <1>5, <1>6

LEMMA AcceptsLived ==
  ASSUME SyncAssumption, Lived, NEW m \in wire, Accepts(m) PROVE Lived'
<1> USE DEF Lived, SyncTypes
<1> DEFINE d == Peer(m.from)
           s == state[d]
<1>1. /\ m \in Requests /\ m.from \in Devices /\ m.seq \in Nat /\ m.live \in BOOLEAN
      /\ m.changed \in Payloads
  BY DEF TalkTypes, Requests
<1>2. d \in Devices
  BY <1>1, PeerIsDevice
<1>3. /\ s \in States /\ s.lastSynced \in Nat /\ s.outSeq + 1 \in Nat /\ s.accSeq \in Nat
      /\ s.jobs \in Stamps /\ s.deleted \in Stamps
  BY <1>2 DEF StateTypes, States
<1> HIDE DEF d, s
<1>4. CASE m.seq > s.accSeq
  <2> DEFINE e == [at |-> d, live |-> m.live, seq |-> m.seq, step |-> "merging",
                   patch |-> Merged(s, s.lastSynced, m.changed),
                   reply |-> Changed(s, s.lastSynced), replySeq |-> s.outSeq + 1]
  <2>1. /\ state' = [state EXCEPT ![d] = Committed(s, m.seq)]
        /\ exchanges' = exchanges \cup {e}
        /\ accepted' = [accepted EXCEPT ![d][m.seq] = @ + 1]
        /\ wire' = wire \ {m} /\ UNCHANGED <<ask, report>>
    BY <1>4 DEF Accepts, d, s
  <2>2. Merged(s, s.lastSynced, m.changed) \in Patches /\ Changed(s, s.lastSynced) \in Payloads
    BY <1>1, <1>3, MergedType, ChangedType
  <2>3. e \in Exchanges
    BY <1>1, <1>2, <1>3, <2>2 DEF Exchanges
  <2> HIDE DEF e
  <2>4. Committed(s, m.seq) \in States /\ Committed(s, m.seq).accSeq \in Nat
        /\ s.accSeq <= Committed(s, m.seq).accSeq /\ m.seq <= Committed(s, m.seq).accSeq
    BY <1>1, <1>3, CommittedType DEF States
  <2>5. StateTypes'
    BY <2>1, <2>4 DEF Accepts, StateTypes, budgets
  <2>6. accepted' \in [Devices -> [1..MaxSeq + 1 -> Nat]]
    <3>1. accepted[d] \in [1..MaxSeq + 1 -> Nat]
      BY <1>2 DEF TalkTypes
    <3>2. [accepted[d] EXCEPT ![m.seq] = @ + 1] \in [1..MaxSeq + 1 -> Nat]
      <4>1. CASE m.seq \in 1..MaxSeq + 1
        <5>1. \A f \in [1..MaxSeq + 1 -> Nat], n \in 1..MaxSeq + 1 : f[n] + 1 \in Nat
          OBVIOUS
        <5>2. accepted[d][m.seq] + 1 \in Nat
          BY <3>1, <4>1, <5>1
        <5> QED BY <3>1, <5>2
      <4>2. CASE m.seq \notin 1..MaxSeq + 1
        <5>1. [accepted[d] EXCEPT ![m.seq] = @ + 1] = accepted[d]
          BY <3>1, <4>2
        <5> QED BY <3>1, <5>1
      <4> QED BY <4>1, <4>2
    <3> QED BY <2>1, <3>2 DEF TalkTypes
  <2>7. TalkTypes'
    BY <2>1, <2>3, <2>6 DEF TalkTypes
  <2>8. Counted'
    <3> SUFFICES ASSUME NEW p \in Devices, NEW n \in 1..MaxSeq + 1
                 PROVE  accepted'[p][n] <= 1 /\ (accepted'[p][n] # 0 => n <= state'[p].accSeq)
      BY DEF Counted
    <3>1. accepted[p][n] <= 1 /\ (accepted[p][n] # 0 => n <= state[p].accSeq)
          /\ accepted[p][n] \in Nat
      BY DEF Counted, TalkTypes
    <3>2. CASE p # d
      BY <2>1, <3>1, <3>2 DEF StateTypes, TalkTypes
    <3>3. CASE p = d
      <4>1. state'[p] = Committed(s, m.seq) /\ state[p] = s
        BY <1>2, <2>1, <3>3 DEF StateTypes, s
      <4>2. CASE n = m.seq
        <5>1. accepted[p][n] = 0
          BY <1>3, <1>4, <3>1, <4>1, <4>2
        <5>2. accepted'[p][n] = accepted[p][n] + 1
          BY <2>1, <3>3, <4>2 DEF TalkTypes
        <5> QED BY <5>1, <5>2, <4>1, <4>2, <2>4
      <4>3. CASE n # m.seq
        <5>1. accepted'[p][n] = accepted[p][n]
          BY <2>1, <3>3, <4>3 DEF TalkTypes
        <5> QED BY <5>1, <4>1, <3>1, <2>4, <1>3
      <4> QED BY <4>2, <4>3
    <3> QED BY <3>2, <3>3
  <2> QED BY <2>5, <2>7, <2>8
<1>5. CASE ~(m.seq > s.accSeq)
  <2>1. wire' = wire \ {m} /\ Refuses(m.from, m.live) /\ UNCHANGED <<state, exchanges, accepted>>
    BY <1>5 DEF Accepts, d, s
  <2>2. StateTypes'
    BY <2>1 DEF Accepts, StateTypes, budgets
  <2>3. TalkTypes'
    BY <2>1, <1>1, NoPatchType DEF TalkTypes, Refuses
  <2> QED BY <2>1, <2>2, <2>3 DEF Counted
<1> QED BY <1>4, <1>5

LEMMA AnsweringLived ==
  ASSUME SyncAssumption, Lived, NEW e \in exchanges, Applies(e) \/ Acknowledges(e) \/ SaveFails(e)
  PROVE  Lived'
<1> USE DEF Lived, SyncTypes
<1>1. /\ e \in Exchanges /\ e.at \in Devices /\ e.patch \in Patches /\ e.replySeq \in Nat
      /\ e.seq \in Nat /\ e.live \in BOOLEAN /\ e.reply \in Payloads
  BY DEF TalkTypes, Exchanges
<1>2. state[e.at] \in States /\ disk[e.at] \in States /\ Peer(e.at) \in Devices /\ clock \in Nat
  BY <1>1, PeerIsDevice DEF StateTypes
<1>3. CASE Applies(e)
  <2> DEFINE x == Applied(state[e.at], e.patch, clock, e.replySeq, e.seq)
  <2>1. x \in States /\ state[e.at].accSeq <= x.accSeq
    BY <1>1, <1>2, AppliedType
  <2>2. state' = [state EXCEPT ![e.at] = x]
    BY <1>3 DEF Applies
  <2> HIDE DEF x
  <2>3. [e EXCEPT !.step = "saving"] \in Exchanges
    BY <1>1 DEF Exchanges
  <2>4. StateTypes' /\ accepted' = accepted
    BY <1>3, <2>1, <2>2 DEF Applies, StateTypes, budgets
  <2>5. TalkTypes'
    BY <1>3, <2>3 DEF Applies, TalkTypes
  <2>6. \A p \in Devices : state[p].accSeq <= state'[p].accSeq
    <3> SUFFICES ASSUME NEW p \in Devices PROVE state[p].accSeq <= state'[p].accSeq
      OBVIOUS
    <3>1. state[p].accSeq \in Nat
      BY DEF StateTypes, States
    <3> QED BY <2>1, <2>2, <3>1 DEF StateTypes
  <2> QED BY <2>4, <2>5, <2>6, StillCounted
<1>4. CASE Acknowledges(e)
  <2>1. StateTypes' /\ UNCHANGED <<state, accepted>>
    BY <1>2, <1>4 DEF Acknowledges, StateTypes, SavedFile, budgets
  <2> DEFINE p == Peer(e.at)
  <2>2. p \in Devices
    BY <1>2
  <2>3. ask' = ask \/ ask' = [ask EXCEPT ![p].step = "answered", ![p].theirs = e.reply,
                                        ![p].theirSeq = e.replySeq]
    BY <1>4 DEF Acknowledges, Answers
  <2> HIDE DEF p
  <2>5. ask[p] \in Asks
    BY <2>2 DEF TalkTypes
  <2>6. [ask[p] EXCEPT !.step = "answered", !.theirs = e.reply, !.theirSeq = e.replySeq] \in Asks
    BY <1>1, <2>5 DEF Asks
  <2>7. ask' \in [Devices -> Asks]
    BY <2>2, <2>3, <2>6 DEF TalkTypes
  <2>4. TalkTypes'
    BY <1>4, <2>7 DEF Acknowledges, TalkTypes
  <2> QED BY <2>1, <2>4 DEF Counted
<1>5. CASE SaveFails(e)
  <2>1. StateTypes' /\ UNCHANGED <<state, accepted>>
    BY <1>5 DEF SaveFails, StateTypes, stateVars
  <2>2. TalkTypes'
    BY <1>2, <1>5, NoPatchType DEF SaveFails, Refuses, TalkTypes
  <2> QED BY <2>1, <2>2 DEF Counted
<1> QED BY <1>3, <1>4, <1>5

LEMMA NetworkLived ==
  ASSUME SyncAssumption, Lived, NEW m \in wire, Drops(m) \/ Copies(m) PROVE Lived'
<1> USE DEF Lived, SyncTypes
<1>1. [m EXCEPT !.live = FALSE] \in Requests
  BY DEF TalkTypes, Requests
<1>2. StateTypes' /\ TalkTypes'
  BY <1>1 DEF Drops, Copies, StateTypes, TalkTypes, stateVars
<1> QED BY <1>2 DEF Drops, Copies, Counted, stateVars

LEMMA UserLived ==
  ASSUME SyncAssumption, Lived, NEW d \in Devices, NEW j \in Jobs,
         Edits(d, j) \/ Deletes(d, j) \/ Undeletes(d, j) \/ KeepsLoser(d, j)
  PROVE  Lived'
<1> USE DEF Lived, SyncTypes
<1>1. /\ clock + 1 \in Nat /\ undos + 1 \in Nat /\ state[d].jobs[j] \in Nat
      /\ undoStack[d][j] \in Nat /\ state[d].losers[j] \in Nat
  BY DEF StateTypes, States, Stamps
<1>2. TalkTypes' /\ accepted' = accepted
  BY DEF Edits, Deletes, Undeletes, KeepsLoser, talkVars, TalkTypes
<1>3. \A n \in Nat : /\ [state EXCEPT ![d].jobs[j] = n] \in [Devices -> States]
                     /\ [state EXCEPT ![d].jobs[j] = n, ![d].losers[j] = 0] \in [Devices -> States]
                     /\ [state EXCEPT ![d].jobs[j] = 0, ![d].deleted[j] = n] \in [Devices -> States]
  <2> TAKE n \in Nat
  <2>1. state[d] \in States /\ state \in [Devices -> States]
    BY DEF StateTypes
  <2>2. /\ [state[d].jobs EXCEPT ![j] = n] \in Stamps
        /\ [state[d].jobs EXCEPT ![j] = 0] \in Stamps
        /\ [state[d].losers EXCEPT ![j] = 0] \in Stamps
        /\ [state[d].deleted EXCEPT ![j] = n] \in Stamps
    BY <2>1 DEF States, Stamps
  <2>3. /\ [state[d] EXCEPT !.jobs[j] = n] \in States
        /\ [state[d] EXCEPT !.jobs[j] = n, !.losers[j] = 0] \in States
        /\ [state[d] EXCEPT !.jobs[j] = 0, !.deleted[j] = n] \in States
    BY <2>1, <2>2 DEF States
  <2> QED BY <2>1, <2>3
<1>4. \E n \in Nat : \/ state' = [state EXCEPT ![d].jobs[j] = n]
                     \/ state' = [state EXCEPT ![d].jobs[j] = n, ![d].losers[j] = 0]
                     \/ state' = [state EXCEPT ![d].jobs[j] = 0, ![d].deleted[j] = n]
  <2>1. CASE Edits(d, j)
    BY <1>1, <2>1 DEF Edits
  <2>2. CASE Deletes(d, j)
    BY <1>1, <2>2 DEF Deletes
  <2>3. CASE Undeletes(d, j)
    BY <1>1, <2>3 DEF Undeletes
  <2>4. CASE KeepsLoser(d, j)
    <3>1. (IF state[d].jobs[j] = 0 THEN 0 ELSE state[d].losers[j]) \in Nat
      BY <1>1
    <3>2. state' = [state EXCEPT
            ![d].jobs[j] = IF state[d].jobs[j] = 0 THEN 0 ELSE state[d].losers[j],
            ![d].losers[j] = 0]
      BY <2>4 DEF KeepsLoser
    <3> QED BY <3>1, <3>2
  <2> QED BY <2>1, <2>2, <2>3, <2>4
<1>6. state' \in [Devices -> States] /\ \A p \in Devices : state[p].accSeq = state'[p].accSeq
  <2>1. PICK n \in Nat : \/ state' = [state EXCEPT ![d].jobs[j] = n]
                        \/ state' = [state EXCEPT ![d].jobs[j] = n, ![d].losers[j] = 0]
                        \/ state' = [state EXCEPT ![d].jobs[j] = 0, ![d].deleted[j] = n]
    BY <1>4
  <2>2. state' \in [Devices -> States]
    <3>1. CASE state' = [state EXCEPT ![d].jobs[j] = n]
      BY <1>3, <3>1
    <3>2. CASE state' = [state EXCEPT ![d].jobs[j] = n, ![d].losers[j] = 0]
      BY <1>3, <3>2
    <3>3. CASE state' = [state EXCEPT ![d].jobs[j] = 0, ![d].deleted[j] = n]
      BY <1>3, <3>3
    <3> QED BY <2>1, <3>1, <3>2, <3>3
  <2>3. \A p \in Devices : state[p].accSeq = state'[p].accSeq
    <3> TAKE p \in Devices
    <3>2. CASE state' = [state EXCEPT ![d].jobs[j] = n]
      BY <3>2 DEF StateTypes, States
    <3>3. CASE state' = [state EXCEPT ![d].jobs[j] = n, ![d].losers[j] = 0]
      BY <3>3 DEF StateTypes, States
    <3>4. CASE state' = [state EXCEPT ![d].jobs[j] = 0, ![d].deleted[j] = n]
      BY <3>4 DEF StateTypes, States
    <3> QED BY <2>1, <3>2, <3>3, <3>4
  <2> QED BY <2>2, <2>3
<1>7. StateTypes'
  <2>1. \A n \in Nat, f \in [Devices -> Stamps] : [f EXCEPT ![d][j] = n] \in [Devices -> Stamps]
    BY DEF Stamps
  <2>3. meant' \in [Devices -> Stamps]
    BY <1>1, <2>1 DEF Edits, Deletes, Undeletes, KeepsLoser, StateTypes
  <2>4. undoStack' \in [Devices -> Stamps]
    <3>1. \/ undoStack' = [undoStack EXCEPT ![d][j] = state[d].jobs[j]]
          \/ undoStack' = [undoStack EXCEPT ![d][j] = 0]
          \/ undoStack' = undoStack
      BY DEF Edits, Deletes, Undeletes, KeepsLoser
    <3> QED BY <1>1, <2>1, <3>1 DEF StateTypes
  <2>2. clock' \in Nat /\ undos' \in Nat /\ UNCHANGED <<disk, crashes>>
    BY <1>1 DEF Edits, Deletes, Undeletes, KeepsLoser, StateTypes, budgets
  <2>5. rushed' \subseteq Jobs
    BY DEF Edits, Deletes, Undeletes, KeepsLoser, Changes, StateTypes
  <2> QED BY <1>6, <2>2, <2>3, <2>4, <2>5 DEF StateTypes
<1>8. \A p \in Devices : state[p].accSeq <= state'[p].accSeq
  BY <1>6 DEF StateTypes, States
<1> QED BY <1>2, <1>7, <1>8, StillCounted

LEMMA ProcessLived ==
  ASSUME SyncAssumption, Lived, NEW d \in Devices, Saves(d) \/ Crashes(d) PROVE Lived'
<1> USE DEF Lived, SyncTypes
<1>1. CASE Saves(d)
  <2>1. StateTypes' /\ TalkTypes'
    BY <1>1 DEF Saves, StateTypes, TalkTypes, talkVars, budgets
  <2> QED BY <1>1, <2>1 DEF Saves, Counted, talkVars
<1>2. CASE Crashes(d)
  <2>1. Forsaken(wire, d) \subseteq Requests
    BY DEF Forsaken, TalkTypes, Requests
  <2>2. Abandoned(d) \subseteq Exchanges
    BY DEF Abandoned, TalkTypes, Exchanges
  <2>3. Nobody \in Stamps
    BY DEF Nobody, Stamps
  <2>4. StateTypes'
    BY <1>2, <2>3 DEF Crashes, StateTypes
  <2>5. TalkTypes'
    BY <1>2, <2>1, <2>2, NoPatchType DEF Crashes, TalkTypes
  <2>6. Counted'
    BY <1>2 DEF Crashes, Counted, StateTypes, TalkTypes
  <2> QED BY <2>4, <2>5, <2>6
<1> QED BY <1>1, <1>2

LEMMA StepLived == ASSUME SyncAssumption, Lived, [Next]_vars PROVE Lived'
<1>1. CASE UNCHANGED vars
  BY <1>1 DEF vars, stateVars, talkVars, budgets, Lived, SyncTypes, StateTypes, TalkTypes, Counted
<1>2. CASE Next
  BY <1>2, AskingLived, AcceptsLived, AnsweringLived, NetworkLived, UserLived,
     ProcessLived DEF Next, Answering
<1> QED BY <1>1, <1>2

\* In one life of its process a device accepts a request once, however many copies of it
\* arrive, in whichever order, and whichever devices ask (commitAcceptedSeq).
THEOREM AcceptedOnceHolds == ASSUME SyncAssumption PROVE Spec => []AcceptedOnce
<1>1. Init => Lived
  BY InitLived
<1>2. Lived /\ [Next]_vars => Lived'
  BY StepLived
<1>3. Lived => AcceptedOnce
  BY DEF Lived, Counted, AcceptedOnce
<1> QED BY <1>1, <1>2, <1>3, PTL DEF Spec

-----------------------------------------------------------------------------
(* Types, with the bounds: no time is later than the clock may get, and no number passes *)
(* the last one a device asks with.  An answer never carries a higher number than its *)
(* request, because a device counts no more messages than it has accepted. *)

Dated(f) == \A j \in Jobs : f[j] <= MaxClock

PayloadBounded(c) == Dated(c.jobs) /\ Dated(c.deleted)
PatchBounded(p)   == Dated(p.jobs) /\ Dated(p.deleted) /\ Dated(p.losers)
RowBounded(s)     == s.lastSynced <= MaxClock /\ s.outSeq <= s.accSeq /\ s.accSeq <= MaxSeq
StateBounded(s)   == PatchBounded(s) /\ RowBounded(s)
RequestBounded(m) == 0 < m.seq /\ m.seq <= MaxSeq /\ PayloadBounded(m.changed)
ExchangeBounded(e) == /\ 0 < e.replySeq /\ e.replySeq <= e.seq /\ e.seq <= MaxSeq
                   /\ PatchBounded(e.patch) /\ PayloadBounded(e.reply)

\* A cycle of a device whose row counts outSeq messages.
CycleBounded(a, outSeq) ==
  \/ a = NoAsk
  \/ /\ a.step # "none" /\ a.now <= MaxClock /\ a.since <= MaxClock
     /\ 0 < a.seq /\ a.seq <= MaxSeq /\ a.seq <= outSeq + 1
     /\ a.theirSeq <= MaxSeq /\ PayloadBounded(a.theirs) /\ PatchBounded(a.patch)
     /\ a.step = "merging" => a.seq <= a.theirSeq

DevicesBounded ==
  \A d \in Devices : /\ StateBounded(state[d]) /\ StateBounded(disk[d])
                     /\ Dated(undoStack[d]) /\ Dated(meant[d])
TalkBounded ==
  /\ \A d \in Devices : CycleBounded(ask[d], state[d].outSeq)
  /\ \A m \in wire : RequestBounded(m)
  /\ \A e \in exchanges : ExchangeBounded(e)

Bounded ==
  /\ clock <= MaxClock /\ {missed, copies, faults} \subseteq Nat
  /\ DevicesBounded /\ TalkBounded

LEMMA ClockBounds == ASSUME SyncAssumption PROVE MaxClock \in Nat /\ MaxSeq \in Nat
BY DEF SyncAssumption

LEMMA NothingBounded ==
  ASSUME SyncAssumption
  PROVE  /\ Dated(Nobody) /\ PayloadBounded(Nothing) /\ PatchBounded(NoPatch) /\ StateBounded(Fresh)
         /\ NoAsk.step = "none"
BY ClockBounds DEF Dated, Nobody, Nothing, NoPatch, Fresh, NoAsk, PayloadBounded,
   PatchBounded, RowBounded, StateBounded

LEMMA ChangedBounded ==
  ASSUME SyncAssumption, NEW s, s.jobs \in Stamps, s.deleted \in Stamps, Dated(s.jobs),
         Dated(s.deleted), NEW u \in Nat
  PROVE  PayloadBounded(Changed(s, u))
BY ClockBounds DEF PayloadBounded, Changed, Since, Dated, Stamps

LEMMA MergedBounded ==
  ASSUME SyncAssumption, NEW s \in States, NEW u \in Nat, NEW c \in Payloads,
         PatchBounded(s), PayloadBounded(c)
  PROVE  PatchBounded(Merged(s, u, c))
<1> DEFINE deleted == [j \in Jobs |-> Later(s.deleted[j], c.deleted[j])]
           winners == [j \in Jobs |-> Winner(s.jobs[j], c.jobs[j], u)]
           jobs    == [j \in Jobs |-> IF Survives(winners[j], deleted[j]) THEN winners[j] ELSE 0]
           lost    == {j \in Jobs : /\ c.jobs[j] # 0 /\ s.jobs[j] > u
                                    /\ s.jobs[j] # c.jobs[j]}
           losers  == [j \in Jobs |-> IF j \notin lost THEN 0
                        ELSE IF winners[j] = s.jobs[j] THEN c.jobs[j] ELSE s.jobs[j]]
<1>1. \A j \in Jobs : /\ s.jobs[j] \in Nat /\ c.jobs[j] \in Nat
                      /\ s.deleted[j] \in Nat /\ c.deleted[j] \in Nat
                      /\ s.jobs[j] <= MaxClock /\ c.jobs[j] <= MaxClock
                      /\ s.deleted[j] <= MaxClock /\ c.deleted[j] <= MaxClock
  BY DEF States, Payloads, Stamps, PatchBounded, PayloadBounded, Dated
<1>2. Dated(deleted)
  BY <1>1 DEF Dated, Later
<1>3. \A j \in Jobs : winners[j] <= MaxClock
  <2> SUFFICES ASSUME NEW j \in Jobs PROVE winners[j] <= MaxClock
    OBVIOUS
  <2>1. winners[j] \in {s.jobs[j], c.jobs[j]}
    BY DEF Winner, Later
  <2> HIDE DEF winners
  <2> QED BY <1>1, <2>1
<1>4. Dated(jobs)
  <2> HIDE DEF winners, deleted
  <2> QED BY <1>3, ClockBounds DEF Dated
<1>5. Dated(losers)
  <2> HIDE DEF winners, deleted, lost
  <2> QED BY <1>1, ClockBounds DEF Dated
<1>6. Merged(s, u, c) =
        IF c = Nothing THEN NoPatch
        ELSE [jobs |-> jobs, setsJobs |-> c.jobs # Nobody \/ jobs # s.jobs,
              deleted |-> deleted, setsDeleted |-> c.deleted # Nobody, losers |-> losers]
  BY DEF Merged
<1> HIDE DEF deleted, winners, jobs, lost, losers
<1> QED BY <1>2, <1>4, <1>5, <1>6, NothingBounded DEF PatchBounded

LEMMA AppliedBounded ==
  ASSUME SyncAssumption, NEW s \in States, NEW p \in Patches, NEW at \in Nat, NEW o \in Nat,
         NEW a \in Nat, StateBounded(s), PatchBounded(p), at <= MaxClock,
         o <= a \/ o <= s.accSeq, a <= MaxSeq
  PROVE  /\ StateBounded(Applied(s, p, at, o, a))
         /\ s.outSeq <= Applied(s, p, at, o, a).outSeq
<1>1. Dated(IF p.setsJobs THEN p.jobs ELSE s.jobs)
  BY DEF StateBounded, PatchBounded
<1>2. Dated(IF p.setsDeleted THEN p.deleted ELSE s.deleted)
  BY DEF StateBounded, PatchBounded
<1>3. Dated([j \in Jobs |-> IF p.losers[j] # 0 THEN p.losers[j] ELSE s.losers[j]])
  BY DEF StateBounded, PatchBounded, Dated
<1>4. /\ Later(s.outSeq, o) <= Later(s.accSeq, a) /\ Later(s.accSeq, a) <= MaxSeq
      /\ s.outSeq <= Later(s.outSeq, o)
  <2>1. s.outSeq \in Nat /\ s.accSeq \in Nat /\ s.outSeq <= s.accSeq /\ s.accSeq <= MaxSeq
    BY DEF States, StateBounded, RowBounded
  <2> QED BY <2>1, ClockBounds DEF Later
<1> QED BY <1>1, <1>2, <1>3, <1>4 DEF Applied, StateBounded, PatchBounded, RowBounded

LEMMA CommittedBounded ==
  ASSUME SyncAssumption, NEW s \in States, NEW n \in Nat, StateBounded(s), n <= MaxSeq
  PROVE  StateBounded(Committed(s, n)) /\ Committed(s, n).outSeq = s.outSeq
<1>1. s.outSeq <= Later(s.accSeq, n) /\ Later(s.accSeq, n) <= MaxSeq
  <2>1. s.outSeq \in Nat /\ s.accSeq \in Nat /\ s.outSeq <= s.accSeq /\ s.accSeq <= MaxSeq
    BY DEF States, StateBounded, RowBounded
  <2> QED BY <2>1, ClockBounds DEF Later
<1>2. Committed(s, n).losers = s.losers
  BY DEF Committed, States
<1> QED BY <1>1, <1>2, CommittedType DEF StateBounded, PatchBounded, RowBounded

\* A row that only climbs keeps what its cycle says of it.
LEMMA CycleClimbs ==
  ASSUME NEW a \in Asks, NEW n \in Nat, NEW m \in Nat, n <= m, CycleBounded(a, n)
  PROVE  CycleBounded(a, m)
<1>1. a.seq \in Nat
  BY DEF Asks
<1> QED BY <1>1 DEF CycleBounded

LEMMA InitBounded == ASSUME SyncAssumption, Init PROVE Bounded
BY NothingBounded, ClockBounds DEF Init, Bounded, DevicesBounded, TalkBounded, CycleBounded

LEMMA WhatBounded ==
  ASSUME SyncAssumption, Lived, Bounded, NEW d \in Devices
  PROVE  /\ state[d] \in States /\ disk[d] \in States /\ ask[d] \in Asks
         /\ StateBounded(state[d]) /\ StateBounded(disk[d]) /\ CycleBounded(ask[d], state[d].outSeq)
         /\ clock \in Nat /\ clock <= MaxClock
         /\ state[d].jobs \in Stamps /\ state[d].deleted \in Stamps /\ state[d].lastSynced \in Nat
         /\ state[d].outSeq \in Nat /\ state[d].accSeq \in Nat
BY DEF Lived, SyncTypes, StateTypes, TalkTypes, Bounded, DevicesBounded, TalkBounded, States

LEMMA SameBounded ==
  ASSUME Bounded, UNCHANGED <<clock, state, disk, undoStack, meant>>,
         {missed', copies', faults'} \subseteq Nat, TalkBounded'
  PROVE  Bounded'
BY DEF Bounded, DevicesBounded

LEMMA ForsakenBounded ==
  ASSUME SyncAssumption, Lived, Bounded, NEW d \in Devices
  PROVE  /\ \A m \in Forsaken(wire, d) : RequestBounded(m)
         /\ \A e \in Abandoned(d) : ExchangeBounded(e)
<1>1. ASSUME NEW m \in wire
      PROVE  RequestBounded([m EXCEPT !.live = FALSE]) /\ RequestBounded(m)
  BY DEF Lived, SyncTypes, TalkTypes, Requests, Bounded, TalkBounded, RequestBounded
<1>2. ASSUME NEW e \in exchanges
      PROVE  ExchangeBounded([e EXCEPT !.live = FALSE]) /\ ExchangeBounded(e)
  BY DEF Lived, SyncTypes, TalkTypes, Exchanges, Bounded, TalkBounded, ExchangeBounded
<1>3. ASSUME NEW m \in Forsaken(wire, d) PROVE RequestBounded(m)
  BY <1>1 DEF Forsaken
<1>4. ASSUME NEW e \in Abandoned(d) PROVE ExchangeBounded(e)
  BY <1>2 DEF Abandoned
<1> QED BY <1>3, <1>4

LEMMA AskingBounded ==
  ASSUME SyncAssumption, Lived, Bounded, NEW d \in Devices,
         AskBegins(d) \/ GivesUp(d) \/ HearsReply(d) \/ AskEnds(d)
  PROVE  Bounded'
<1> DEFINE s == state[d]
           a == ask[d]
<1>1. /\ s \in States /\ a \in Asks /\ StateBounded(s) /\ CycleBounded(a, s.outSeq)
      /\ clock \in Nat /\ clock <= MaxClock /\ MaxSeq \in Nat /\ MaxClock \in Nat
      /\ s.jobs \in Stamps /\ s.deleted \in Stamps /\ s.lastSynced \in Nat
      /\ s.outSeq \in Nat /\ s.accSeq \in Nat
      /\ ask \in [Devices -> Asks] /\ state \in [Devices -> States]
  BY WhatBounded, ClockBounds DEF Lived, SyncTypes, StateTypes, TalkTypes
<1>2. /\ {missed, copies, faults} \subseteq Nat /\ TalkBounded
      /\ \A p \in Devices : CycleBounded(ask[p], state[p].outSeq)
  BY DEF Bounded, TalkBounded
<1>3. CASE AskBegins(d)
  <2> DEFINE m == [from |-> d, live |-> TRUE, seq |-> s.outSeq + 1,
                   changed |-> Changed(s, s.lastSynced)]
             x == [NoAsk EXCEPT !.step = "sent", !.now = clock, !.since = s.lastSynced,
                                !.seq = s.outSeq + 1]
  <2>1. /\ ask' = [ask EXCEPT ![d] = x] /\ wire' = wire \cup {m} /\ s.outSeq < MaxSeq
        /\ UNCHANGED <<clock, state, disk, undoStack, meant, exchanges, missed, copies, faults>>
    BY <1>3 DEF AskBegins, stateVars, budgets
  <2>2. s.lastSynced <= MaxClock /\ Dated(s.jobs) /\ Dated(s.deleted)
    BY <1>1 DEF StateBounded, RowBounded, PatchBounded
  <2>3. PayloadBounded(Changed(s, s.lastSynced))
    BY <1>1, <2>2, ChangedBounded
  <2>4. RequestBounded(m)
    BY <1>1, <2>1, <2>3 DEF RequestBounded
  <2>5. CycleBounded(x, s.outSeq)
    BY <1>1, <2>1, <2>2, NothingBounded DEF CycleBounded, NoAsk
  <2> HIDE DEF m, x
  <2>6. \A p \in Devices : CycleBounded(ask'[p], state'[p].outSeq)
    BY <1>1, <1>2, <2>1, <2>5
  <2>7. TalkBounded'
    BY <1>2, <2>1, <2>4, <2>6 DEF TalkBounded
  <2> QED BY <1>2, <2>1, <2>7, SameBounded
<1>4. CASE GivesUp(d)
  <2>1. /\ ask' = [ask EXCEPT ![d] = NoAsk]
        /\ wire' = Forsaken(wire, d) /\ exchanges' = Abandoned(d)
        /\ UNCHANGED <<clock, state, disk, undoStack, meant, copies, faults>>
        /\ missed' \in {missed, missed + 1}
    BY <1>4 DEF GivesUp, stateVars
  <2>2. \A p \in Devices : CycleBounded(ask'[p], state'[p].outSeq)
    BY <1>1, <1>2, <2>1 DEF CycleBounded
  <2>3. TalkBounded'
    BY <2>1, <2>2, ForsakenBounded DEF TalkBounded
  <2>4. {missed', copies', faults'} \subseteq Nat
    BY <1>2, <2>1
  <2> QED BY <2>1, <2>3, <2>4, SameBounded
<1>5. CASE HearsReply(d)
  <2> DEFINE patch == Merged(s, a.since, a.theirs)
             x == [a EXCEPT !.step = "merging", !.patch = patch]
  <2>0. /\ a.step = "answered" /\ a # NoAsk
        /\ UNCHANGED <<clock, state, disk, undoStack, meant, wire, exchanges, missed, copies,
                       faults>>
    BY <1>5, NothingBounded DEF HearsReply, stateVars, budgets
  <2>1. /\ a.now <= MaxClock /\ a.since <= MaxClock
        /\ 0 < a.seq /\ a.seq <= MaxSeq /\ a.seq <= s.outSeq + 1
        /\ a.theirSeq <= MaxSeq /\ PayloadBounded(a.theirs)
        /\ a.seq \in Nat /\ a.theirSeq \in Nat /\ a.since \in Nat /\ a.theirs \in Payloads
    BY <1>1, <2>0 DEF CycleBounded, Asks
  <2>2. PatchBounded(patch)
    BY <1>1, <2>1, MergedBounded DEF StateBounded
  <2>3. CASE a.theirSeq > s.accSeq
    <3>1. ask' = [ask EXCEPT ![d] = x]
      BY <1>1, <1>5, <2>3 DEF HearsReply
    <3>2. a.seq <= a.theirSeq
      <4>1. s.outSeq <= s.accSeq
        BY <1>1 DEF StateBounded, RowBounded
      <4> QED BY <1>1, <2>1, <2>3, <4>1
    <3> HIDE DEF patch
    <3>3. /\ x.step = "merging" /\ x.patch = patch /\ x.now = a.now /\ x.since = a.since
          /\ x.seq = a.seq /\ x.theirSeq = a.theirSeq /\ x.theirs = a.theirs
      BY <1>1 DEF Asks
    <3> HIDE DEF x
    <3>4. CycleBounded(x, s.outSeq)
      BY <2>1, <2>2, <3>2, <3>3 DEF CycleBounded
    <3>5. \A p \in Devices : CycleBounded(ask'[p], state'[p].outSeq)
      BY <1>1, <1>2, <2>0, <3>1, <3>4
    <3>6. TalkBounded'
      BY <1>2, <2>0, <3>5 DEF TalkBounded
    <3> QED BY <1>2, <2>0, <3>6, SameBounded
  <2>4. CASE ~(a.theirSeq > s.accSeq)
    <3>1. ask' = [ask EXCEPT ![d] = NoAsk]
      BY <1>5, <2>4 DEF HearsReply
    <3>2. \A p \in Devices : CycleBounded(ask'[p], state'[p].outSeq)
      BY <1>1, <1>2, <2>0, <3>1 DEF CycleBounded
    <3>3. TalkBounded'
      BY <1>2, <2>0, <3>2 DEF TalkBounded
    <3> QED BY <1>2, <2>0, <3>3, SameBounded
  <2> QED BY <2>3, <2>4
<1>6. CASE AskEnds(d)
  <2> DEFINE x == Applied(s, a.patch, a.now, a.seq, a.theirSeq)
  <2>1. /\ state' = [state EXCEPT ![d] = x] /\ ask' = [ask EXCEPT ![d] = NoAsk]
        /\ a.step = "merging" /\ a # NoAsk
        /\ UNCHANGED <<clock, disk, undoStack, meant, wire, exchanges, missed, copies, faults>>
    BY <1>6, NothingBounded DEF AskEnds, SyncedAt, budgets
  <2>2. /\ a.now <= MaxClock /\ a.seq <= a.theirSeq /\ a.theirSeq <= MaxSeq /\ PatchBounded(a.patch)
        /\ a.patch \in Patches /\ a.now \in Nat /\ a.seq \in Nat /\ a.theirSeq \in Nat
    BY <1>1, <2>1 DEF CycleBounded, Asks
  <2>3. StateBounded(x)
    BY <1>1, <2>2, AppliedBounded
  <2> HIDE DEF x
  <2>4. DevicesBounded'
    BY <1>1, <2>1, <2>3 DEF Bounded, DevicesBounded
  <2>5. \A p \in Devices : CycleBounded(ask'[p], state'[p].outSeq)
    BY <1>1, <1>2, <2>1 DEF CycleBounded
  <2>6. TalkBounded'
    BY <1>2, <2>1, <2>5 DEF TalkBounded
  <2> QED BY <1>1, <1>2, <2>1, <2>4, <2>6 DEF Bounded
<1> QED BY <1>3, <1>4, <1>5, <1>6

-----------------------------------------------------------------------------
(* A device that waits has at most one request under way, or one exchange that will *)
(* answer it; a device that does not wait has neither. *)

Pending(d) == {m \in wire : m.live /\ m.from = d}
Working(d) == {e \in exchanges : e.live /\ e.at = Peer(d)}

WaitsFor(d) ==
  /\ (Pending(d) # {} \/ Working(d) # {}) => ask[d].step = "sent"
  /\ \A m, n \in Pending(d) : m = n
  /\ \A e, f \in Working(d) : e = f
  /\ Pending(d) = {} \/ Working(d) = {}

Waits == \A d \in Devices : WaitsFor(d)

LEMMA TwoPeers ==
  ASSUME SyncAssumption, NEW d \in Devices, NEW p \in Devices
  PROVE  Peer(Peer(d)) = d /\ (Peer(d) = Peer(p) => d = p)
<1>1. IsFiniteSet(Devices \ {d}) /\ Cardinality(Devices \ {d}) = 1
  BY FS_RemoveElement DEF SyncAssumption
<1>2. PICK q : Devices \ {d} = {q}
  BY <1>1, FS_Singleton
<1>3. Devices = {d, q} /\ d # q
  BY <1>2
<1>4. Peer(d) = q
  BY <1>3 DEF Peer
<1>5. Peer(q) = d
  BY <1>3 DEF Peer
<1> QED BY <1>3, <1>4, <1>5

\* What a device waits for may be lost.
LEMMA StillWaits ==
  ASSUME NEW d, WaitsFor(d), Pending(d)' \subseteq Pending(d), Working(d)' \subseteq Working(d),
         ask'[d].step = ask[d].step
  PROVE  WaitsFor(d)'
BY DEF WaitsFor

LEMMA NothingToWaitFor ==
  ASSUME NEW d, Pending(d)' = {}, Working(d)' = {} PROVE WaitsFor(d)'
BY DEF WaitsFor

LEMMA InitWaits == ASSUME Init PROVE Waits
BY DEF Init, Waits, WaitsFor, Pending, Working

LEMMA LeftWaits ==
  ASSUME SyncAssumption, NEW p \in Devices, NEW d \in Devices,
         wire \subseteq Requests, exchanges \subseteq Exchanges
  PROVE  /\ {m \in Forsaken(wire, p) : m.live /\ m.from = d} = IF d = p THEN {} ELSE Pending(d)
         /\ {e \in Abandoned(p) : e.live /\ e.at = Peer(d)} = IF d = p THEN {} ELSE Working(d)
<1>1. \A m \in wire : [m EXCEPT !.live = FALSE].live = FALSE
  BY DEF Requests
<1>2. \A e \in exchanges : [e EXCEPT !.live = FALSE].live = FALSE
  BY DEF Exchanges
<1>3. Peer(d) = Peer(p) => d = p
  BY TwoPeers
<1>4. {m \in Forsaken(wire, p) : m.live /\ m.from = d} = IF d = p THEN {} ELSE Pending(d)
  BY <1>1 DEF Forsaken, Pending
<1>5. {e \in Abandoned(p) : e.live /\ e.at = Peer(d)} = IF d = p THEN {} ELSE Working(d)
  <2>1. \A e \in Abandoned(p) :
          e.live => e \in exchanges /\ e.at # Peer(p)
    BY <1>2 DEF Abandoned
  <2>2. \A e \in exchanges : e.at # Peer(p) => e \in Abandoned(p)
    BY DEF Abandoned
  <2> QED BY <1>3, <2>1, <2>2 DEF Working
<1> QED BY <1>4, <1>5

LEMMA AskingWaits ==
  ASSUME SyncAssumption, Lived, Waits, NEW p \in Devices,
         AskBegins(p) \/ GivesUp(p) \/ HearsReply(p) \/ AskEnds(p)
  PROVE  Waits'
<1>1. /\ ask \in [Devices -> Asks] /\ wire \subseteq Requests /\ exchanges \subseteq Exchanges
      /\ WaitsFor(p)
  BY DEF Lived, SyncTypes, TalkTypes, Waits
<1> SUFFICES ASSUME NEW d \in Devices PROVE WaitsFor(d)'
  BY DEF Waits
<1>2. WaitsFor(d)
  BY DEF Waits
<1>3. CASE AskBegins(p)
  <2> DEFINE m == [from |-> p, live |-> TRUE, seq |-> state[p].outSeq + 1,
                   changed |-> Changed(state[p], state[p].lastSynced)]
  <2>1. wire' = wire \cup {m} /\ exchanges' = exchanges /\ m.from = p /\ m.live
    BY <1>3 DEF AskBegins
  <2>2. /\ \A q \in Devices : q # p => ask'[q] = ask[q]
        /\ ask'[p].step = "sent" /\ ask[p].step = "none"
    BY <1>1, <1>3 DEF AskBegins, NoAsk
  <2> HIDE DEF m
  <2>3. Working(d)' = Working(d)
    BY <2>1 DEF Working
  <2>4. CASE d = p
    <3>1. Pending(d) = {} /\ Working(d) = {}
      BY <1>2, <2>2, <2>4 DEF WaitsFor
    <3>2. Pending(d)' = {m}
      BY <2>1, <2>4, <3>1 DEF Pending
    <3> QED BY <2>2, <2>3, <2>4, <3>1, <3>2 DEF WaitsFor
  <2>5. CASE d # p
    <3>1. Pending(d)' = Pending(d)
      BY <2>1, <2>5 DEF Pending
    <3> QED BY <1>2, <2>2, <2>3, <2>5, <3>1, StillWaits
  <2> QED BY <2>4, <2>5
<1>4. CASE GivesUp(p)
  <2>1. wire' = Forsaken(wire, p) /\ exchanges' = Abandoned(p)
    BY <1>4 DEF GivesUp
  <2>2. d # p => ask'[d] = ask[d]
    BY <1>1, <1>4 DEF GivesUp
  <2>3. /\ Pending(d)' = IF d = p THEN {} ELSE Pending(d)
        /\ Working(d)' = IF d = p THEN {} ELSE Working(d)
    BY <1>1, <2>1, LeftWaits DEF Pending, Working
  <2> QED BY <1>2, <2>2, <2>3, StillWaits, NothingToWaitFor
<1>5. CASE HearsReply(p) \/ AskEnds(p)
  <2>1. UNCHANGED <<wire, exchanges>> /\ ask[p].step # "sent"
    BY <1>5 DEF HearsReply, AskEnds
  <2>2. d # p => ask'[d] = ask[d]
    BY <1>1, <1>5 DEF HearsReply, AskEnds
  <2>3. Pending(d)' = Pending(d) /\ Working(d)' = Working(d)
    BY <2>1 DEF Pending, Working
  <2>4. d = p => Pending(d) = {} /\ Working(d) = {}
    BY <1>2, <2>1 DEF WaitsFor
  <2> QED BY <1>2, <2>2, <2>3, <2>4, StillWaits, NothingToWaitFor
<1> QED BY <1>3, <1>4, <1>5

LEMMA AcceptsWaits ==
  ASSUME SyncAssumption, Lived, Waits, NEW m \in wire, Accepts(m) PROVE Waits'
<1> DEFINE p == m.from
           s == state[Peer(p)]
<1>1. /\ ask \in [Devices -> Asks] /\ p \in Devices /\ m.live \in BOOLEAN
      /\ wire' = wire \ {m}
  BY DEF Lived, SyncTypes, TalkTypes, Requests, Accepts
<1> SUFFICES ASSUME NEW d \in Devices PROVE WaitsFor(d)'
  BY DEF Waits
<1>2. WaitsFor(d) /\ (d # p => Peer(d) # Peer(p))
  BY <1>1, TwoPeers DEF Waits
<1>3. Pending(d)' \subseteq Pending(d)
  BY <1>1 DEF Pending
<1>4. m.live /\ d = p => m \in Pending(d) /\ Pending(d)' = {} /\ Working(d) = {}
                         /\ ask[d].step = "sent"
  <2> SUFFICES ASSUME m.live, d = p
               PROVE m \in Pending(d) /\ Pending(d)' = {} /\ Working(d) = {} /\ ask[d].step = "sent"
    OBVIOUS
  <2>1. m \in Pending(d)
    BY DEF Pending
  <2>2. Pending(d) = {m} /\ Working(d) = {} /\ ask[d].step = "sent"
    BY <1>2, <2>1 DEF WaitsFor
  <2> QED BY <1>1, <2>1, <2>2 DEF Pending
<1>5. CASE m.seq > s.accSeq
  <2> DEFINE e == [at |-> Peer(p), live |-> m.live, seq |-> m.seq, step |-> "merging",
                   patch |-> Merged(s, s.lastSynced, m.changed),
                   reply |-> Changed(s, s.lastSynced), replySeq |-> s.outSeq + 1]
  <2>1. exchanges' = exchanges \cup {e} /\ ask' = ask /\ e.at = Peer(p) /\ e.live = m.live
    BY <1>5 DEF Accepts
  <2> HIDE DEF e
  <2>2. CASE m.live /\ d = p
    <3>1. Working(d)' = {e}
      BY <1>4, <2>1, <2>2 DEF Working
    <3> QED BY <1>4, <2>1, <2>2, <3>1 DEF WaitsFor
  <2>3. CASE ~(m.live /\ d = p)
    <3>1. Working(d)' = Working(d)
      BY <1>2, <2>1, <2>3 DEF Working
    <3> QED BY <1>2, <1>3, <2>1, <3>1, StillWaits
  <2> QED BY <2>2, <2>3
<1>6. CASE ~(m.seq > s.accSeq)
  <2>1. Refuses(p, m.live) /\ exchanges' = exchanges
    BY <1>6 DEF Accepts
  <2>2. Working(d)' = Working(d)
    BY <2>1 DEF Working
  <2>3. CASE m.live /\ d = p
    BY <1>4, <2>2, <2>3, NothingToWaitFor
  <2>4. CASE ~(m.live /\ d = p)
    <3>1. ask'[d] = ask[d]
      BY <1>1, <2>1, <2>4 DEF Refuses
    <3> QED BY <1>2, <1>3, <2>2, <3>1, StillWaits
  <2> QED BY <2>3, <2>4
<1> QED BY <1>5, <1>6

LEMMA AnsweringWaits ==
  ASSUME SyncAssumption, Lived, Waits, NEW e \in exchanges,
         Applies(e) \/ Acknowledges(e) \/ SaveFails(e)
  PROVE  Waits'
<1> DEFINE p == Peer(e.at)
<1>1. /\ ask \in [Devices -> Asks] /\ e \in Exchanges /\ e.at \in Devices /\ e.live \in BOOLEAN
      /\ UNCHANGED wire
  BY DEF Lived, SyncTypes, TalkTypes, Exchanges, Applies, Acknowledges, SaveFails
<1> SUFFICES ASSUME NEW d \in Devices PROVE WaitsFor(d)'
  BY DEF Waits
<1>2. WaitsFor(d) /\ p \in Devices /\ e.at = Peer(p) /\ (d # p => Peer(d) # e.at)
  BY <1>1, TwoPeers, PeerIsDevice DEF Waits
<1>3. Pending(d)' = Pending(d)
  BY <1>1 DEF Pending
<1>4. e.live /\ d = p => /\ Working(d) = {e} /\ Pending(d) = {} /\ ask[d].step = "sent"
  <2> SUFFICES ASSUME e.live, d = p
               PROVE Working(d) = {e} /\ Pending(d) = {} /\ ask[d].step = "sent"
    OBVIOUS
  <2>1. e \in Working(d)
    BY <1>2 DEF Working
  <2> QED BY <1>2, <2>1 DEF WaitsFor
<1> HIDE DEF p
<1>5. CASE Applies(e)
  <2> DEFINE f == [e EXCEPT !.step = "saving"]
  <2>1. exchanges' = (exchanges \ {e}) \cup {f} /\ UNCHANGED ask
    BY <1>5 DEF Applies
  <2>2. f.at = e.at /\ f.live = e.live
    BY <1>1 DEF Exchanges
  <2> HIDE DEF f
  <2>3. CASE e.live /\ d = p
    <3>1. Working(d)' = {f}
      BY <1>2, <1>4, <2>1, <2>2, <2>3 DEF Working
    <3> QED BY <1>3, <1>4, <2>1, <2>3, <3>1 DEF WaitsFor
  <2>4. CASE ~(e.live /\ d = p)
    <3>1. Working(d)' \subseteq Working(d)
      BY <1>2, <2>1, <2>2, <2>4 DEF Working
    <3> QED BY <1>2, <1>3, <2>1, <3>1, StillWaits
  <2> QED BY <2>3, <2>4
<1>6. CASE Acknowledges(e) \/ SaveFails(e)
  <2>1. exchanges' = exchanges \ {e}
    BY <1>6 DEF Acknowledges, SaveFails
  <2>2. Working(d)' \subseteq Working(d)
    BY <2>1 DEF Working
  <2>3. CASE e.live /\ d = p
    <3>1. Working(d)' = {}
      BY <1>4, <2>1, <2>3 DEF Working
    <3> QED BY <1>3, <1>4, <2>3, <3>1, NothingToWaitFor
  <2>4. CASE ~(e.live /\ d = p)
    <3>1. ask'[d] = ask[d]
      BY <1>1, <1>6, <2>4 DEF Acknowledges, SaveFails, Answers, Refuses, p
    <3> QED BY <1>2, <1>3, <2>2, <3>1, StillWaits
  <2> QED BY <2>3, <2>4
<1> QED BY <1>5, <1>6

LEMMA StepWaits == ASSUME SyncAssumption, Lived, Waits, [Next]_vars PROVE Waits'
<1>1. CASE UNCHANGED vars
  BY <1>1 DEF vars, talkVars, Waits, WaitsFor, Pending, Working
<1>2. ASSUME NEW m \in wire, Drops(m) \/ Copies(m) PROVE Waits'
  <2>1. /\ wire' = wire \ {m} \/ wire' = wire \cup {[m EXCEPT !.live = FALSE]}
        /\ UNCHANGED <<exchanges, ask>>
    BY <1>2 DEF Drops, Copies
  <2>2. [m EXCEPT !.live = FALSE].live = FALSE
    BY DEF Lived, SyncTypes, TalkTypes, Requests
  <2> SUFFICES ASSUME NEW d \in Devices PROVE WaitsFor(d)'
    BY DEF Waits
  <2>3. Pending(d)' \subseteq Pending(d) /\ Working(d)' = Working(d)
    BY <2>1, <2>2 DEF Pending, Working
  <2> QED BY <2>1, <2>3, StillWaits DEF Waits
<1>3. ASSUME NEW d \in Devices, NEW j \in Jobs,
             Edits(d, j) \/ Deletes(d, j) \/ Undeletes(d, j) \/ KeepsLoser(d, j)
      PROVE  Waits'
  BY <1>3 DEF Edits, Deletes, Undeletes, KeepsLoser, talkVars, Waits, WaitsFor, Pending, Working
<1>4. ASSUME NEW d \in Devices, Saves(d) PROVE Waits'
  BY <1>4 DEF Saves, talkVars, Waits, WaitsFor, Pending, Working
<1>5. ASSUME NEW p \in Devices, Crashes(p) PROVE Waits'
  <2>1. /\ ask \in [Devices -> Asks] /\ wire \subseteq Requests /\ exchanges \subseteq Exchanges
    BY DEF Lived, SyncTypes, TalkTypes
  <2>2. /\ wire' = Forsaken(wire, p) /\ exchanges' \subseteq Abandoned(p)
        /\ ask' = [ask EXCEPT ![p] = NoAsk]
    BY <1>5 DEF Crashes
  <2> SUFFICES ASSUME NEW d \in Devices PROVE WaitsFor(d)'
    BY DEF Waits
  <2>3. /\ Pending(d)' = IF d = p THEN {} ELSE Pending(d)
        /\ Working(d)' \subseteq IF d = p THEN {} ELSE Working(d)
    <3>1. Pending(d)' = {m \in Forsaken(wire, p) : m.live /\ m.from = d}
      BY <2>2 DEF Pending
    <3>2. Working(d)' \subseteq {e \in Abandoned(p) : e.live /\ e.at = Peer(d)}
      BY <2>2 DEF Working
    <3> QED BY <2>1, <3>1, <3>2, LeftWaits
  <2>4. d # p => ask'[d] = ask[d]
    BY <2>1, <2>2
  <2> QED BY <2>3, <2>4, StillWaits, NothingToWaitFor DEF Waits
<1> QED BY <1>1, <1>2, <1>3, <1>4, <1>5, AskingWaits, AcceptsWaits, AnsweringWaits
        DEF Next, Answering

\* A request that was refused ends the cycle of the device that still waits for it.
LEMMA RefusedBounded ==
  ASSUME SyncAssumption, Lived, Bounded, NEW p \in Devices, NEW live \in BOOLEAN,
         Refuses(p, live),
         state' = state
  PROVE  \A q \in Devices : CycleBounded(ask'[q], state'[q].outSeq)
<1>1. ask \in [Devices -> Asks] /\ \A q \in Devices : CycleBounded(ask[q], state[q].outSeq)
  BY DEF Lived, SyncTypes, TalkTypes, Bounded, TalkBounded
<1>2. ask' = ask \/ ask' = [ask EXCEPT ![p] = NoAsk]
  BY DEF Refuses
<1> QED BY <1>1, <1>2 DEF CycleBounded

LEMMA AcceptsBounded ==
  ASSUME SyncAssumption, Lived, Bounded, NEW m \in wire, Accepts(m) PROVE Bounded'
<1> DEFINE d == Peer(m.from)
           s == state[d]
<1>1. /\ m \in Requests /\ m.from \in Devices /\ m.seq \in Nat /\ m.live \in BOOLEAN
      /\ m.changed \in Payloads /\ RequestBounded(m)
  BY DEF Lived, SyncTypes, TalkTypes, Requests, Bounded, TalkBounded
<1>2. d \in Devices
  BY <1>1, PeerIsDevice
<1>3. /\ s \in States /\ StateBounded(s) /\ s.jobs \in Stamps /\ s.deleted \in Stamps
      /\ s.lastSynced \in Nat /\ s.outSeq \in Nat /\ s.accSeq \in Nat /\ MaxSeq \in Nat
  BY <1>2, WhatBounded, ClockBounds
<1>4. /\ {missed, copies, faults} \subseteq Nat /\ clock <= MaxClock
      /\ TalkBounded /\ DevicesBounded
      /\ \A p \in Devices : CycleBounded(ask[p], state[p].outSeq)
      /\ ask \in [Devices -> Asks] /\ state \in [Devices -> States]
  BY DEF Bounded, TalkBounded, Lived, SyncTypes, StateTypes, TalkTypes
<1>5. wire' = wire \ {m} /\ UNCHANGED <<clock, disk, undoStack, meant, missed, copies, faults>>
  BY DEF Accepts, budgets
<1>6. CASE m.seq > s.accSeq
  <2> DEFINE e == [at |-> d, live |-> m.live, seq |-> m.seq, step |-> "merging",
                   patch |-> Merged(s, s.lastSynced, m.changed),
                   reply |-> Changed(s, s.lastSynced), replySeq |-> s.outSeq + 1]
             x == Committed(s, m.seq)
  <2>1. state' = [state EXCEPT ![d] = x] /\ exchanges' = exchanges \cup {e} /\ ask' = ask
    BY <1>6 DEF Accepts
  <2>2. Dated(s.jobs) /\ Dated(s.deleted) /\ PatchBounded(s) /\ s.outSeq <= s.accSeq
    BY <1>3 DEF StateBounded, RowBounded, PatchBounded
  <2>3. m.seq <= MaxSeq /\ PayloadBounded(m.changed)
    BY <1>1 DEF RequestBounded
  <2>4. PatchBounded(Merged(s, s.lastSynced, m.changed)) /\ PayloadBounded(Changed(s, s.lastSynced))
    BY <1>1, <1>3, <2>2, <2>3, MergedBounded, ChangedBounded
  <2>5. s.outSeq + 1 <= m.seq /\ 0 < s.outSeq + 1
    BY <1>1, <1>3, <1>6, <2>2
  <2>6. ExchangeBounded(e)
    BY <2>3, <2>4, <2>5 DEF ExchangeBounded
  <2>7. StateBounded(x) /\ x.outSeq = s.outSeq
    BY <1>1, <1>3, <2>3, CommittedBounded
  <2>8. state[d] = s
    OBVIOUS
  <2> HIDE DEF d, s, e, x
  <2>9. DevicesBounded'
    BY <1>2, <1>4, <1>5, <2>1, <2>7 DEF DevicesBounded
  <2>10. \A p \in Devices : CycleBounded(ask'[p], state'[p].outSeq)
    <3>1. \A p \in Devices : state'[p].outSeq = state[p].outSeq
      BY <1>2, <1>4, <2>1, <2>7, <2>8
    <3> QED BY <1>4, <2>1, <3>1
  <2>11. TalkBounded'
    BY <1>4, <1>5, <2>1, <2>6, <2>10 DEF TalkBounded
  <2> QED BY <1>4, <1>5, <2>9, <2>11 DEF Bounded
<1>7. CASE ~(m.seq > s.accSeq)
  <2>1. Refuses(m.from, m.live) /\ UNCHANGED <<state, exchanges>>
    BY <1>7 DEF Accepts
  <2>2. \A p \in Devices : CycleBounded(ask'[p], state'[p].outSeq)
    BY <1>1, <2>1, RefusedBounded
  <2>3. TalkBounded'
    BY <1>4, <1>5, <2>1, <2>2 DEF TalkBounded
  <2> QED BY <1>4, <1>5, <2>1, <2>3, SameBounded
<1> QED BY <1>6, <1>7

LEMMA AnsweringBounded ==
  ASSUME SyncAssumption, Lived, Waits, Bounded, NEW e \in exchanges,
         Applies(e) \/ Acknowledges(e) \/ SaveFails(e)
  PROVE  Bounded'
<1>1. /\ e \in Exchanges /\ e.at \in Devices /\ e.patch \in Patches /\ e.replySeq \in Nat
      /\ e.seq \in Nat /\ e.live \in BOOLEAN /\ e.reply \in Payloads /\ ExchangeBounded(e)
      /\ Peer(e.at) \in Devices
  BY PeerIsDevice DEF Lived, SyncTypes, TalkTypes, Exchanges, Bounded, TalkBounded
<1>2. /\ {missed, copies, faults} \subseteq Nat /\ clock <= MaxClock
      /\ TalkBounded /\ DevicesBounded
      /\ \A p \in Devices : CycleBounded(ask[p], state[p].outSeq)
      /\ ask \in [Devices -> Asks] /\ state \in [Devices -> States] /\ disk \in [Devices -> States]
      /\ MaxSeq \in Nat
  BY ClockBounds DEF Bounded, TalkBounded, Lived, SyncTypes, StateTypes, TalkTypes
<1>3. CASE Applies(e)
  <2> DEFINE s == state[e.at]
             x == Applied(s, e.patch, clock, e.replySeq, e.seq)
  <2>1. /\ state' = [state EXCEPT ![e.at] = x]
        /\ exchanges' = (exchanges \ {e}) \cup {[e EXCEPT !.step = "saving"]}
        /\ UNCHANGED <<clock, disk, undoStack, meant, ask, wire, missed, copies, faults>>
    BY <1>3 DEF Applies, budgets
  <2>2. s \in States /\ StateBounded(s) /\ clock \in Nat /\ s.outSeq \in Nat
    BY <1>1, WhatBounded
  <2>3. e.replySeq <= e.seq /\ e.seq <= MaxSeq /\ PatchBounded(e.patch)
    BY <1>1 DEF ExchangeBounded
  <2>4. StateBounded(x) /\ s.outSeq <= x.outSeq
    BY <1>1, <1>2, <2>2, <2>3, AppliedBounded
  <2>5. x \in States
    BY <1>1, <2>2, AppliedType
  <2>6. ExchangeBounded([e EXCEPT !.step = "saving"])
    BY <1>1 DEF Exchanges, ExchangeBounded
  <2>7. s = state[e.at]
    OBVIOUS
  <2> HIDE DEF s, x
  <2>8. DevicesBounded'
    BY <1>1, <1>2, <2>1, <2>4 DEF DevicesBounded
  <2>9. \A p \in Devices : CycleBounded(ask'[p], state'[p].outSeq)
    <3> SUFFICES ASSUME NEW p \in Devices PROVE CycleBounded(ask[p], state'[p].outSeq)
      BY <2>1
    <3>1. CASE p = e.at
      <4>1. state'[p] = x /\ x.outSeq \in Nat /\ ask[p] \in Asks /\ CycleBounded(ask[p], s.outSeq)
        BY <1>1, <1>2, <2>1, <2>5, <2>7, <3>1 DEF States
      <4> QED BY <2>2, <2>4, <4>1, CycleClimbs
    <3>2. CASE p # e.at
      BY <1>2, <2>1, <3>2
    <3> QED BY <3>1, <3>2
  <2>10. TalkBounded'
    BY <1>2, <2>1, <2>6, <2>9 DEF TalkBounded
  <2> QED BY <1>2, <2>1, <2>8, <2>10 DEF Bounded
<1>4. CASE Acknowledges(e)
  <2> DEFINE p == Peer(e.at)
             a == ask[p]
             x == [a EXCEPT !.step = "answered", !.theirs = e.reply, !.theirSeq = e.replySeq]
  <2>1. /\ disk' = [disk EXCEPT ![e.at] = state[e.at]] /\ exchanges' = exchanges \ {e}
        /\ UNCHANGED <<clock, state, undoStack, meant, wire, missed, copies, faults>>
        /\ ask' = IF e.live THEN [ask EXCEPT ![p].step = "answered", ![p].theirs = e.reply,
                                             ![p].theirSeq = e.replySeq] ELSE ask
    BY <1>4 DEF Acknowledges, Answers, SavedFile, budgets
  <2>2. DevicesBounded'
    BY <1>1, <1>2, <2>1 DEF DevicesBounded
  <2>3. \A q \in Devices : CycleBounded(ask'[q], state'[q].outSeq)
    <3>1. a \in Asks /\ p \in Devices /\ CycleBounded(a, state[p].outSeq)
      BY <1>1, <1>2
    <3>2. e.live => a.step = "sent"
      <4>1. e.at = Peer(p) /\ WaitsFor(p)
        BY <1>1, <3>1, TwoPeers DEF Waits
      <4>2. e.live => e \in Working(p)
        BY <4>1 DEF Working
      <4> QED BY <4>1, <4>2 DEF WaitsFor
    <3>3. /\ x.step = "answered" /\ x.theirs = e.reply /\ x.theirSeq = e.replySeq
          /\ x.now = a.now /\ x.since = a.since /\ x.seq = a.seq /\ x.patch = a.patch
      BY <3>1 DEF Asks
    <3>4. e.replySeq <= MaxSeq /\ PayloadBounded(e.reply)
      BY <1>1, <1>2 DEF ExchangeBounded
    <3>5. ask' = IF e.live THEN [ask EXCEPT ![p] = x] ELSE ask
      BY <1>2, <2>1, <3>1
    <3> HIDE DEF x
    <3>6. e.live => CycleBounded(x, state[p].outSeq)
      BY <3>1, <3>2, <3>3, <3>4, NothingBounded DEF CycleBounded
    <3> HIDE DEF a, p
    <3> QED BY <1>2, <2>1, <3>1, <3>5, <3>6
  <2>4. TalkBounded'
    BY <1>2, <2>1, <2>3 DEF TalkBounded
  <2> QED BY <1>2, <2>1, <2>2, <2>4 DEF Bounded
<1>5. CASE SaveFails(e)
  <2>1. /\ Refuses(Peer(e.at), e.live) /\ exchanges' = exchanges \ {e}
        /\ UNCHANGED <<clock, state, disk, undoStack, meant, wire, missed, copies>>
        /\ faults' = faults + 1
    BY <1>5 DEF SaveFails, stateVars
  <2>2. \A q \in Devices : CycleBounded(ask'[q], state'[q].outSeq)
    BY <1>1, <2>1, RefusedBounded
  <2>3. TalkBounded'
    BY <1>2, <2>1, <2>2 DEF TalkBounded
  <2>4. {missed', copies', faults'} \subseteq Nat
    BY <1>2, <2>1
  <2> QED BY <2>1, <2>3, <2>4, SameBounded
<1> QED BY <1>3, <1>4, <1>5

LEMMA NetworkBounded ==
  ASSUME SyncAssumption, Lived, Bounded, NEW m \in wire, Drops(m) \/ Copies(m) PROVE Bounded'
<1>1. RequestBounded([m EXCEPT !.live = FALSE])
  BY DEF Lived, SyncTypes, TalkTypes, Requests, Bounded, TalkBounded, RequestBounded
<1>2. /\ wire' = wire \ {m} \/ wire' = wire \cup {[m EXCEPT !.live = FALSE]}
      /\ UNCHANGED <<clock, state, disk, undoStack, meant, ask, exchanges, faults>>
      /\ missed' \in {missed, missed + 1} /\ copies' \in {copies, copies + 1}
  BY DEF Drops, Copies, stateVars
<1>3. TalkBounded'
  BY <1>1, <1>2 DEF Bounded, TalkBounded
<1>4. {missed', copies', faults'} \subseteq Nat
  BY <1>2 DEF Bounded
<1> QED BY <1>2, <1>3, <1>4, SameBounded

LEMMA UserBounded ==
  ASSUME SyncAssumption, Lived, Bounded, NEW d \in Devices, NEW j \in Jobs,
         Edits(d, j) \/ Deletes(d, j) \/ Undeletes(d, j) \/ KeepsLoser(d, j)
  PROVE  Bounded'
<1> DEFINE s == state[d]
<1>1. /\ clock \in Nat /\ clock <= MaxClock /\ MaxClock \in Nat /\ s \in States /\ StateBounded(s)
      /\ state \in [Devices -> States] /\ meant \in [Devices -> Stamps]
      /\ undoStack \in [Devices -> Stamps] /\ DevicesBounded /\ TalkBounded
      /\ {missed, copies, faults} \subseteq Nat
  BY WhatBounded, ClockBounds DEF Lived, SyncTypes, StateTypes, Bounded
<1>2. clock' \in {clock, clock + 1} /\ clock' <= MaxClock
  <2>1. clock' = clock \/ (clock' = clock + 1 /\ clock < MaxClock)
    BY DEF Edits, Deletes, Undeletes, KeepsLoser, MayEdit
  <2> QED BY <1>1, <2>1
<1>3. UNCHANGED <<disk, ask, wire, exchanges, missed, copies, faults>>
  BY DEF Edits, Deletes, Undeletes, KeepsLoser, talkVars, budgets
<1>4. /\ s.jobs \in Stamps /\ s.deleted \in Stamps /\ s.losers \in Stamps
      /\ s.jobs[j] <= MaxClock /\ s.losers[j] <= MaxClock /\ undoStack[d][j] <= MaxClock
      /\ Dated(s.jobs) /\ Dated(s.deleted) /\ Dated(s.losers) /\ RowBounded(s)
  BY <1>1 DEF States, StateBounded, PatchBounded, DevicesBounded, Dated
<1>5. ASSUME NEW f \in Stamps, Dated(f), NEW n, n <= MaxClock PROVE Dated([f EXCEPT ![j] = n])
  BY <1>5 DEF Dated, Stamps
<1>6. \E n : /\ n <= MaxClock
             /\ \/ state' = [state EXCEPT ![d].jobs[j] = n]
                \/ state' = [state EXCEPT ![d].jobs[j] = n, ![d].losers[j] = 0]
                \/ state' = [state EXCEPT ![d].jobs[j] = 0, ![d].deleted[j] = n]
  <2>1. CASE Edits(d, j)
    <3>1. clock + 1 <= MaxClock /\ state' = [state EXCEPT ![d].jobs[j] = clock + 1]
      BY <1>1, <2>1 DEF Edits, MayEdit
    <3> QED BY <3>1
  <2>2. CASE Deletes(d, j)
    <3>1. /\ clock + 1 <= MaxClock
          /\ state' = [state EXCEPT ![d].jobs[j] = 0, ![d].deleted[j] = clock + 1]
      BY <1>1, <2>2 DEF Deletes, MayEdit
    <3> QED BY <3>1
  <2>3. CASE Undeletes(d, j)
    BY <1>4, <2>3 DEF Undeletes
  <2>4. CASE KeepsLoser(d, j)
    <3> DEFINE n == IF s.jobs[j] = 0 THEN 0 ELSE s.losers[j]
    <3>1. n <= MaxClock
      BY <1>1, <1>4
    <3>2. state' = [state EXCEPT ![d].jobs[j] = n, ![d].losers[j] = 0]
      BY <2>4 DEF KeepsLoser
    <3> HIDE DEF n
    <3> QED BY <3>1, <3>2
  <2> QED BY <2>1, <2>2, <2>3, <2>4
<1>7. StateBounded(state'[d]) /\ state'[d].outSeq = s.outSeq
  <2>1. PICK n : /\ n <= MaxClock
                 /\ \/ state' = [state EXCEPT ![d].jobs[j] = n]
                    \/ state' = [state EXCEPT ![d].jobs[j] = n, ![d].losers[j] = 0]
                    \/ state' = [state EXCEPT ![d].jobs[j] = 0, ![d].deleted[j] = n]
    BY <1>6
  <2>2. /\ Dated([s.jobs EXCEPT ![j] = n]) /\ Dated([s.jobs EXCEPT ![j] = 0])
        /\ Dated([s.losers EXCEPT ![j] = 0]) /\ Dated([s.deleted EXCEPT ![j] = n])
    BY <1>1, <1>4, <1>5, <2>1
  <2>3. CASE state' = [state EXCEPT ![d].jobs[j] = n]
    <3>1. /\ state'[d].jobs = [s.jobs EXCEPT ![j] = n] /\ state'[d].deleted = s.deleted
          /\ state'[d].losers = s.losers /\ state'[d].lastSynced = s.lastSynced
          /\ state'[d].outSeq = s.outSeq /\ state'[d].accSeq = s.accSeq
      BY <1>1, <2>3 DEF States
    <3> QED BY <1>4, <2>2, <3>1 DEF StateBounded, PatchBounded, RowBounded
  <2>4. CASE state' = [state EXCEPT ![d].jobs[j] = n, ![d].losers[j] = 0]
    <3>1. /\ state'[d].jobs = [s.jobs EXCEPT ![j] = n] /\ state'[d].deleted = s.deleted
          /\ state'[d].losers = [s.losers EXCEPT ![j] = 0]
          /\ state'[d].lastSynced = s.lastSynced
          /\ state'[d].outSeq = s.outSeq /\ state'[d].accSeq = s.accSeq
      BY <1>1, <2>4 DEF States
    <3> QED BY <1>4, <2>2, <3>1 DEF StateBounded, PatchBounded, RowBounded
  <2>5. CASE state' = [state EXCEPT ![d].jobs[j] = 0, ![d].deleted[j] = n]
    <3>1. /\ state'[d].jobs = [s.jobs EXCEPT ![j] = 0]
          /\ state'[d].deleted = [s.deleted EXCEPT ![j] = n]
          /\ state'[d].losers = s.losers /\ state'[d].lastSynced = s.lastSynced
          /\ state'[d].outSeq = s.outSeq /\ state'[d].accSeq = s.accSeq
      BY <1>1, <2>5 DEF States
    <3> QED BY <1>4, <2>2, <3>1 DEF StateBounded, PatchBounded, RowBounded
  <2> QED BY <2>1, <2>3, <2>4, <2>5
<1>8. \A p \in Devices : p # d => state'[p] = state[p]
  BY <1>1 DEF Edits, Deletes, Undeletes, KeepsLoser
<1>9. \A p \in Devices : Dated(meant'[p])
  <2>1. \/ meant' = meant
        \/ meant' = [meant EXCEPT ![d][j] = clock + 1] /\ clock + 1 <= MaxClock
    BY <1>1 DEF Edits, Deletes, Undeletes, KeepsLoser, MayEdit
  <2>2. \A p \in Devices : meant[p] \in Stamps /\ Dated(meant[p])
    BY <1>1 DEF DevicesBounded
  <2>3. clock + 1 <= MaxClock => Dated([meant[d] EXCEPT ![j] = clock + 1])
    BY <1>5, <2>2
  <2> QED BY <1>1, <2>1, <2>2, <2>3
<1>10. \A p \in Devices : Dated(undoStack'[p])
  <2>1. \E n : /\ n <= MaxClock
               /\ undoStack' = undoStack \/ undoStack' = [undoStack EXCEPT ![d][j] = n]
    BY <1>1, <1>4 DEF Edits, Deletes, Undeletes, KeepsLoser
  <2>2. \A p \in Devices : undoStack[p] \in Stamps /\ Dated(undoStack[p])
    BY <1>1 DEF DevicesBounded
  <2> QED BY <1>1, <1>5, <2>1, <2>2
<1>11. DevicesBounded'
  BY <1>1, <1>3, <1>7, <1>8, <1>9, <1>10 DEF DevicesBounded
<1>12. \A p \in Devices : CycleBounded(ask'[p], state'[p].outSeq)
  BY <1>1, <1>3, <1>7, <1>8 DEF TalkBounded
<1>13. TalkBounded'
  BY <1>1, <1>3, <1>12 DEF TalkBounded
<1> QED BY <1>1, <1>2, <1>3, <1>11, <1>13 DEF Bounded

LEMMA ProcessBounded ==
  ASSUME SyncAssumption, Lived, Bounded, NEW d \in Devices, Saves(d) \/ Crashes(d) PROVE Bounded'
<1>1. /\ clock <= MaxClock /\ {missed, copies, faults} \subseteq Nat
      /\ DevicesBounded /\ TalkBounded
      /\ state \in [Devices -> States] /\ disk \in [Devices -> States]
      /\ ask \in [Devices -> Asks] /\ undoStack \in [Devices -> Stamps] /\ Dated(Nobody)
  BY NothingBounded DEF Bounded, Lived, SyncTypes, StateTypes, TalkTypes
<1>2. UNCHANGED <<clock, meant, missed, copies, faults>>
  BY DEF Saves, Crashes, budgets
<1>3. CASE Saves(d)
  <2>1. /\ disk' = [disk EXCEPT ![d] = state[d]]
        /\ UNCHANGED <<state, undoStack, ask, wire, exchanges>>
    BY <1>3 DEF Saves, talkVars
  <2>2. DevicesBounded' /\ TalkBounded'
    BY <1>1, <1>2, <2>1 DEF DevicesBounded, TalkBounded
  <2> QED BY <1>1, <1>2, <2>2 DEF Bounded
<1>4. CASE Crashes(d)
  <2>1. /\ state' = [state EXCEPT ![d] = disk[d]] /\ disk' = disk
        /\ undoStack' = [undoStack EXCEPT ![d] = Nobody]
        /\ ask' = [ask EXCEPT ![d] = NoAsk] /\ wire' = Forsaken(wire, d)
        /\ exchanges' \subseteq Abandoned(d)
    BY <1>4 DEF Crashes
  <2>2. DevicesBounded'
    BY <1>1, <1>2, <2>1 DEF DevicesBounded
  <2>3. \A p \in Devices : CycleBounded(ask'[p], state'[p].outSeq)
    BY <1>1, <2>1 DEF TalkBounded, CycleBounded
  <2>4. TalkBounded'
    BY <2>1, <2>3, ForsakenBounded DEF TalkBounded
  <2> QED BY <1>1, <1>2, <2>2, <2>4 DEF Bounded
<1> QED BY <1>3, <1>4

LEMMA StepBounded == ASSUME SyncAssumption, Lived, Waits, Bounded, [Next]_vars PROVE Bounded'
<1>1. CASE UNCHANGED vars
  BY <1>1 DEF vars, stateVars, talkVars, budgets, Bounded, DevicesBounded, TalkBounded
<1>2. CASE Next
  BY <1>2, AskingBounded, AcceptsBounded, AnsweringBounded, NetworkBounded, UserBounded,
     ProcessBounded DEF Next, Answering
<1> QED BY <1>1, <1>2

LEMMA BoundedTypeOK == ASSUME SyncAssumption, Lived, Bounded PROVE TypeOK
<1>1. /\ MaxClock \in Nat /\ MaxSeq \in Nat /\ clock \in Nat /\ clock <= MaxClock
      /\ crashes \in Nat /\ undos \in Nat /\ {missed, copies, faults} \subseteq Nat
      /\ state \in [Devices -> States] /\ disk \in [Devices -> States]
      /\ ask \in [Devices -> Asks] /\ wire \subseteq Requests /\ exchanges \subseteq Exchanges
      /\ undoStack \in [Devices -> Stamps] /\ meant \in [Devices -> Stamps]
      /\ DevicesBounded /\ TalkBounded
  BY ClockBounds DEF Lived, SyncTypes, StateTypes, TalkTypes, Bounded
<1>2. ASSUME NEW f \in Stamps, Dated(f) PROVE f \in [Jobs -> Time]
  BY <1>1, <1>2 DEF Stamps, Dated, Time
<1>3. ASSUME NEW s \in States, StateBounded(s) PROVE s \in State
  <2>1. /\ s.jobs \in [Jobs -> Time] /\ s.deleted \in [Jobs -> Time]
        /\ s.losers \in [Jobs -> Time]
    BY <1>2, <1>3 DEF States, StateBounded, PatchBounded
  <2>2. /\ s.lastSynced \in Time /\ s.outSeq \in 0..MaxSeq + 1 /\ s.accSeq \in 0..MaxSeq + 1
    BY <1>1, <1>3 DEF States, StateBounded, RowBounded, Time
  <2> QED BY <2>1, <2>2 DEF States, State
<1>4. ASSUME NEW c \in Payloads, PayloadBounded(c) PROVE c \in Payload
  <2>1. c.jobs \in [Jobs -> Time] /\ c.deleted \in [Jobs -> Time]
    BY <1>2, <1>4 DEF Payloads, PayloadBounded
  <2> QED BY <2>1 DEF Payloads, Payload
<1>5. ASSUME NEW p \in Patches, PatchBounded(p) PROVE p \in Patch
  <2>1. /\ p.jobs \in [Jobs -> Time] /\ p.deleted \in [Jobs -> Time]
        /\ p.losers \in [Jobs -> Time]
    BY <1>2, <1>5 DEF Patches, PatchBounded
  <2> QED BY <2>1 DEF Patches, Patch
<1>6. ASSUME NEW a \in Asks, NEW n, CycleBounded(a, n) PROVE a \in Ask \cup {NoAsk}
  <2> SUFFICES ASSUME a # NoAsk PROVE a \in Ask
    OBVIOUS
  <2>1. /\ a.step # "none" /\ a.now <= MaxClock /\ a.since <= MaxClock
        /\ 0 < a.seq /\ a.seq <= MaxSeq /\ a.theirSeq <= MaxSeq
        /\ PayloadBounded(a.theirs) /\ PatchBounded(a.patch)
    BY <1>6 DEF CycleBounded
  <2>2. a.theirs \in Payload /\ a.patch \in Patch
    BY <1>4, <1>5, <2>1 DEF Asks
  <2>3. /\ a.now \in Time /\ a.since \in Time
        /\ a.seq \in 1..MaxSeq + 1 /\ a.theirSeq \in 0..MaxSeq + 1
    BY <1>1, <2>1 DEF Asks, Time
  <2> QED BY <2>1, <2>2, <2>3 DEF Asks, Ask
<1>7. ASSUME NEW m \in wire PROVE m \in Request
  <2>1. m \in Requests /\ RequestBounded(m)
    BY <1>1 DEF TalkBounded
  <2>2. m.changed \in Payload /\ m.seq \in 1..MaxSeq + 1
    BY <1>1, <1>4, <2>1 DEF Requests, RequestBounded
  <2> QED BY <2>1, <2>2 DEF Requests, Request
<1>8. ASSUME NEW e \in exchanges PROVE e \in Exchange
  <2>1. e \in Exchanges /\ ExchangeBounded(e)
    BY <1>1 DEF TalkBounded
  <2>2. e.patch \in Patch /\ e.reply \in Payload
    BY <1>4, <1>5, <2>1 DEF Exchanges, ExchangeBounded
  <2>3. e.seq \in Nat /\ e.replySeq \in Nat
    BY <2>1 DEF Exchanges
  <2>4. e.seq \in 1..MaxSeq + 1 /\ e.replySeq \in 1..MaxSeq + 1
    BY <1>1, <2>1, <2>3 DEF ExchangeBounded
  <2> QED BY <2>1, <2>2, <2>4 DEF Exchanges, Exchange
<1>9. state \in [Devices -> State] /\ disk \in [Devices -> State]
  BY <1>1, <1>3 DEF DevicesBounded
<1>10. ask \in [Devices -> Ask \cup {NoAsk}]
  BY <1>1, <1>6 DEF TalkBounded
<1>11. {undoStack, meant} \subseteq [Devices -> [Jobs -> Time]]
  BY <1>1, <1>2 DEF DevicesBounded
<1> QED BY <1>1, <1>7, <1>8, <1>9, <1>10, <1>11 DEF TypeOK, Lived, SyncTypes, StateTypes,
     TalkTypes, Time

SyncSound == Lived /\ Waits /\ Bounded

LEMMA InitSound == ASSUME SyncAssumption, Init PROVE SyncSound
BY InitLived, InitWaits, InitBounded DEF SyncSound

LEMMA StepSound == ASSUME SyncAssumption, SyncSound, [Next]_vars PROVE SyncSound'
BY StepLived, StepWaits, StepBounded DEF SyncSound

\* No time a device keeps is later than the clock, and no number it counts passes the last
\* one a device asks with: an answer carries no higher number than its request, and only a
\* device that waits is answered.
THEOREM SyncTypesHold == ASSUME SyncAssumption PROVE Spec => []TypeOK
<1>1. Init => SyncSound
  BY InitSound
<1>2. SyncSound /\ [Next]_vars => SyncSound'
  BY StepSound
<1>3. SyncSound => TypeOK
  BY BoundedTypeOK DEF SyncSound
<1> QED BY <1>1, <1>2, <1>3, PTL DEF Spec

-----------------------------------------------------------------------------
(* The conversation, when one device asks *)

Mine  == ask[Asker]
Here  == state[Asker]
There == state[Other]

HereSaved  == disk[Asker]
ThereSaved == disk[Other]

\* Only the asker asks, and only the other answers.
OneSided ==
  /\ ask[Other].step = "none"
  /\ \A m \in wire : m.from = Asker
  /\ \A e \in exchanges : e.at = Other

\* The numbers: a request is never more than one ahead of what the other has accepted,
\* and one that is answered is ahead of what the asker has finished.
Numbers ==
  /\ HereSaved.outSeq <= Here.outSeq /\ Here.outSeq <= ThereSaved.accSeq
  /\ ThereSaved.accSeq <= There.accSeq
  /\ \A m \in wire : m.seq <= ThereSaved.accSeq + 1
  /\ \A e \in exchanges :
       /\ e.seq = There.accSeq /\ Here.outSeq < e.seq
       /\ \A m \in wire : m.seq <= e.seq
       /\ \A f \in exchanges : f = e
  /\ Mine.step = "sent" => Mine.seq = Here.outSeq + 1
  /\ Mine.step \in {"answered", "merging"} =>
       /\ Mine.seq <= ThereSaved.accSeq /\ Here.outSeq < Mine.seq
       /\ exchanges = {} /\ \A m \in wire : m.seq <= Mine.seq

\* The asker waits for one live request or exchange, with its own number.
Lives ==
  /\ \A m \in wire : m.live =>
       /\ Mine.step = "sent" /\ m.seq = Mine.seq
       /\ \A n \in wire : n.live => n = m
       /\ \A e \in exchanges : ~e.live
  /\ \A e \in exchanges : e.live => Mine.step = "sent" /\ e.seq = Mine.seq

Talk == OneSided /\ Numbers /\ Lives

LEMMA Values ==
  ASSUME SyncAssumption, OneAsker, Lived
  PROVE  /\ Here \in States /\ There \in States /\ HereSaved \in States /\ ThereSaved \in States
         /\ Mine \in Asks /\ ask[Other] \in Asks
         /\ \A m \in wire : m \in Requests
         /\ \A e \in exchanges : e \in Exchanges
BY TwoDevices DEF Lived, SyncTypes, StateTypes, TalkTypes, Here, There, HereSaved, ThereSaved, Mine

LEMMA Counters ==
  ASSUME SyncAssumption, OneAsker, Lived
  PROVE  /\ Here.outSeq \in Nat /\ There.accSeq \in Nat
         /\ HereSaved.outSeq \in Nat /\ ThereSaved.accSeq \in Nat /\ Mine.seq \in Nat
         /\ \A m \in wire : m.seq \in Nat
         /\ \A e \in exchanges : e.seq \in Nat
BY Values DEF States, Asks, Requests, Exchanges

LEMMA NoAskStep == NoAsk.step = "none"
BY DEF NoAsk

\* Giving up takes the life from every request and every exchange.
LEMMA ForsakenFits ==
  ASSUME SyncAssumption, OneAsker, Lived, OneSided
  PROVE  \A m \in Forsaken(wire, Asker) :
           ~m.live /\ \E n \in wire : m.from = n.from /\ m.seq = n.seq /\ m.changed = n.changed
<1> SUFFICES ASSUME NEW m \in Forsaken(wire, Asker)
             PROVE  ~m.live /\ \E n \in wire : /\ m.from = n.from /\ m.seq = n.seq
                                               /\ m.changed = n.changed
  OBVIOUS
<1>1. PICK n \in wire : m = IF n.live /\ n.from = Asker THEN [n EXCEPT !.live = FALSE] ELSE n
  BY DEF Forsaken
<1>2. n \in Requests /\ n.from = Asker
  BY Values DEF OneSided
<1>3. CASE n.live
  BY <1>1, <1>2, <1>3 DEF Requests
<1>4. CASE ~n.live
  BY <1>1, <1>4
<1> QED BY <1>3, <1>4

LEMMA AbandonedFits ==
  ASSUME SyncAssumption, OneAsker, Lived, OneSided
  PROVE  \A e \in Abandoned(Asker) :
           /\ ~e.live
           /\ \E f \in exchanges :
                /\ e.at = f.at /\ e.seq = f.seq /\ e.patch = f.patch /\ e.reply = f.reply
                /\ e.replySeq = f.replySeq /\ e.step = f.step
                /\ e = [f EXCEPT !.live = FALSE]
<1> SUFFICES ASSUME NEW e \in Abandoned(Asker)
             PROVE  ~e.live /\ \E f \in exchanges :
                /\ e.at = f.at /\ e.seq = f.seq /\ e.patch = f.patch /\ e.reply = f.reply
                /\ e.replySeq = f.replySeq /\ e.step = f.step
                /\ e = [f EXCEPT !.live = FALSE]
  OBVIOUS
<1>1. PICK f \in exchanges : e = IF f.live /\ f.at = Other THEN [f EXCEPT !.live = FALSE] ELSE f
  BY TwoDevices DEF Abandoned
<1>2. f \in Exchanges /\ f.at = Other /\ f.live \in BOOLEAN
  BY Values DEF OneSided, Exchanges
<1>3. CASE f.live
  BY <1>1, <1>2, <1>3 DEF Exchanges
<1>4. CASE ~f.live
  <2>1. f = [f EXCEPT !.live = FALSE]
    BY <1>2, <1>4 DEF Exchanges
  <2> QED BY <1>1, <1>4, <2>1
<1> QED BY <1>3, <1>4

LEMMA OtherForsakesNothing ==
  ASSUME SyncAssumption, OneAsker, OneSided
  PROVE  Forsaken(wire, Other) = wire /\ Abandoned(Other) = exchanges
BY TwoDevices DEF Forsaken, Abandoned, OneSided

-----------------------------------------------------------------------------
(* The conversation keeps its shape *)

LEMMA InitTalk == ASSUME SyncAssumption, OneAsker, Init PROVE Talk
<1>1. /\ Here = Fresh /\ There = Fresh /\ HereSaved = Fresh /\ ThereSaved = Fresh
      /\ Mine = NoAsk /\ ask[Other] = NoAsk /\ wire = {} /\ exchanges = {}
  BY TwoDevices DEF Init, Here, There, HereSaved, ThereSaved, Mine
<1> QED BY <1>1 DEF Talk, OneSided, Numbers, Lives, Fresh, NoAsk

LEMMA AsksAlone ==
  ASSUME SyncAssumption, OneAsker, Lived, OneSided, NEW d \in Devices,
         AskBegins(d) \/ ask[d].step # "none"
  PROVE  d = Asker
BY TwoDevices DEF AskBegins, OneSided

LEMMA AskBeginsTalks ==
  ASSUME SyncAssumption, OneAsker, Lived, Talk, NEW d \in Devices, AskBegins(d)
  PROVE  /\ Talk'
         /\ UNCHANGED <<stateVars, report, exchanges, budgets>>
         /\ Mine.step = "none"
         /\ Mine'.step = "sent" /\ Mine'.now = clock /\ Mine'.since = Here.lastSynced
         /\ Mine'.seq = Here.outSeq + 1
         /\ \E m : /\ wire' = wire \cup {m} /\ m.seq = Here.outSeq + 1 /\ m.live
                   /\ m.changed = Changed(Here, Here.lastSynced)
<1> USE DEF Talk
<1>1. d = Asker
  BY AsksAlone
<1> DEFINE m == [from |-> Asker, live |-> TRUE, seq |-> Here.outSeq + 1,
                 changed |-> Changed(Here, Here.lastSynced)]
<1>2. /\ wire' = wire \cup {m} /\ ask[Asker] = NoAsk
      /\ ask' = [ask EXCEPT ![Asker] = [NoAsk EXCEPT !.step = "sent", !.now = clock,
                                          !.since = Here.lastSynced, !.seq = Here.outSeq + 1]]
      /\ UNCHANGED <<stateVars, report, exchanges, budgets>>
  BY <1>1 DEF AskBegins, Here
<1>3. m.from = Asker /\ m.live /\ m.seq = Here.outSeq + 1
      /\ m.changed = Changed(Here, Here.lastSynced)
  OBVIOUS
<1> HIDE DEF m
<1>4. Mine.step = "none"
  BY <1>2, NoAskStep DEF Mine
<1>5. /\ Mine'.step = "sent" /\ Mine'.now = clock /\ Mine'.since = Here.lastSynced
      /\ Mine'.seq = Here.outSeq + 1 /\ ask'[Other] = ask[Other]
  BY <1>2, TwoDevices DEF Mine, NoAsk, Lived, SyncTypes, TalkTypes
<1>6. UNCHANGED <<Here, There, HereSaved, ThereSaved, exchanges>>
  BY <1>2 DEF stateVars, Here, There, HereSaved, ThereSaved
<1>7. OneSided'
  BY <1>2, <1>3, <1>5, <1>6 DEF OneSided
<1>8. Numbers'
  BY <1>2, <1>3, <1>5, <1>6, Counters DEF Numbers
<1>9. Lives'
  BY <1>2, <1>3, <1>4, <1>5, <1>6 DEF Lives
<1> QED BY <1>2, <1>3, <1>4, <1>5, <1>7, <1>8, <1>9

LEMMA GivesUpTalks ==
  ASSUME SyncAssumption, OneAsker, Lived, Talk, NEW d \in Devices, GivesUp(d)
  PROVE  /\ Talk'
         /\ UNCHANGED <<stateVars, crashes, undos>> /\ report'[Asker] = "failed"
         /\ wire' = Forsaken(wire, Asker) /\ exchanges' = Abandoned(Asker)
         /\ Mine'.step = "none"
<1> USE DEF Talk
<1>1. d = Asker
  BY AsksAlone DEF GivesUp
<1>2. /\ wire' = Forsaken(wire, Asker) /\ exchanges' = Abandoned(Asker)
      /\ ask[Asker].step = "sent" /\ ask' = [ask EXCEPT ![Asker] = NoAsk]
      /\ report' = [report EXCEPT ![Asker] = "failed"] /\ UNCHANGED <<stateVars, crashes, undos>>
  BY <1>1 DEF GivesUp
<1>3. Mine'.step = "none" /\ ask'[Other] = ask[Other] /\ report'[Asker] = "failed"
  BY <1>2, TwoDevices, NoAskStep DEF Mine, Lived, SyncTypes, TalkTypes
<1>4. UNCHANGED <<Here, There, HereSaved, ThereSaved>>
  BY <1>2 DEF stateVars, Here, There, HereSaved, ThereSaved
<1>5. OneSided'
  BY <1>2, <1>3, ForsakenFits, AbandonedFits DEF OneSided
<1>6. Numbers'
  <2>1. \A m \in wire' : \E n \in wire : m.seq = n.seq
    BY <1>2, ForsakenFits
  <2>2. \A e \in exchanges' : \E f \in exchanges : e.seq = f.seq /\ e = [f EXCEPT !.live = FALSE]
    BY <1>2, AbandonedFits
  <2>3. \A m \in wire' : m.seq <= ThereSaved'.accSeq + 1
    BY <2>1, <1>4 DEF Numbers
  <2>4. \A e \in exchanges' : /\ e.seq = There'.accSeq /\ Here'.outSeq < e.seq
                              /\ \A m \in wire' : m.seq <= e.seq
                              /\ \A f \in exchanges' : f = e
    BY <2>1, <2>2, <1>4 DEF Numbers
  <2> QED BY <1>3, <1>4, <2>3, <2>4 DEF Numbers
<1>7. Lives'
  BY <1>2, ForsakenFits, AbandonedFits DEF Lives
<1> QED BY <1>2, <1>3, <1>5, <1>6, <1>7

LEMMA HearsReplyTalks ==
  ASSUME SyncAssumption, OneAsker, Lived, Talk, NEW d \in Devices, HearsReply(d)
  PROVE  /\ Talk'
         /\ UNCHANGED <<stateVars, wire, exchanges, budgets>> /\ Mine.step = "answered"
         /\ \/ /\ Mine'.step = "merging" /\ report' = report
               /\ Mine' = [Mine EXCEPT !.step = "merging",
                                       !.patch = Merged(Here, Mine.since, Mine.theirs)]
            \/ Mine'.step = "none" /\ report'[Asker] = "failed"
<1> USE DEF Talk
<1>1. d = Asker
  BY AsksAlone DEF HearsReply
<1>2. /\ Mine.step = "answered" /\ UNCHANGED <<stateVars, wire, exchanges, budgets>>
      /\ \/ /\ ask' = [ask EXCEPT ![Asker].step = "merging",
                                  ![Asker].patch = Merged(Here, Mine.since, Mine.theirs)]
            /\ report' = report
         \/ /\ ask' = [ask EXCEPT ![Asker] = NoAsk]
            /\ report' = [report EXCEPT ![Asker] = "failed"]
  BY <1>1 DEF HearsReply, Mine, Here
<1>3. Mine \in Asks
  BY Values
<1>4. ask'[Other] = ask[Other]
  BY <1>2, TwoDevices DEF Lived, SyncTypes, TalkTypes
<1>5. \/ /\ Mine'.step = "merging" /\ Mine'.seq = Mine.seq /\ report' = report
         /\ Mine' = [Mine EXCEPT !.step = "merging",
                                 !.patch = Merged(Here, Mine.since, Mine.theirs)]
      \/ Mine'.step = "none" /\ report'[Asker] = "failed"
  <2>1. CASE /\ ask' = [ask EXCEPT ![Asker].step = "merging",
                                   ![Asker].patch = Merged(Here, Mine.since, Mine.theirs)]
             /\ report' = report
    <3>1. Mine' = [Mine EXCEPT !.step = "merging",
                               !.patch = Merged(Here, Mine.since, Mine.theirs)]
      BY <2>1, TwoDevices DEF Mine, Lived, SyncTypes, TalkTypes
    <3>2. Mine'.step = "merging" /\ Mine'.seq = Mine.seq
      BY <3>1, <1>3 DEF Asks
    <3> QED BY <2>1, <3>1, <3>2
  <2>2. CASE /\ ask' = [ask EXCEPT ![Asker] = NoAsk]
             /\ report' = [report EXCEPT ![Asker] = "failed"]
    BY <2>2, TwoDevices, NoAskStep DEF Mine, Lived, SyncTypes, TalkTypes
  <2> QED BY <1>2, <2>1, <2>2
<1>6. UNCHANGED <<Here, There, HereSaved, ThereSaved>>
  BY <1>2 DEF stateVars, Here, There, HereSaved, ThereSaved
<1>7. OneSided'
  BY <1>2, <1>4 DEF OneSided
<1>8. Numbers'
  BY <1>2, <1>5, <1>6, Counters DEF Numbers
<1>9. Lives'
  BY <1>2, <1>5 DEF Lives
<1> QED BY <1>2, <1>5, <1>7, <1>8, <1>9

LEMMA AskEndsTalks ==
  ASSUME SyncAssumption, OneAsker, Lived, Talk, NEW d \in Devices, AskEnds(d)
  PROVE  /\ Talk'
         /\ UNCHANGED <<clock, disk, undoStack, meant, wire, exchanges, budgets>>
         /\ Mine.step = "merging" /\ Mine'.step = "none" /\ There' = There
         /\ Here' = Applied(Here, Mine.patch, Mine.now, Mine.seq, Mine.theirSeq)
         /\ Here'.outSeq = Mine.seq /\ Here'.lastSynced = Mine.now
<1> USE DEF Talk
<1>1. d = Asker
  BY AsksAlone DEF AskEnds
<1>2. /\ Mine.step = "merging"
      /\ UNCHANGED <<clock, disk, undoStack, meant, wire, exchanges, budgets>>
      /\ state' = [state EXCEPT ![Asker] = Applied(Here, Mine.patch, Mine.now, Mine.seq,
                                                   Mine.theirSeq)]
      /\ ask' = [ask EXCEPT ![Asker] = NoAsk]
  BY <1>1 DEF AskEnds, Mine, Here, SyncedAt
<1>3. /\ Here' = Applied(Here, Mine.patch, Mine.now, Mine.seq, Mine.theirSeq)
      /\ There' = There /\ Mine'.step = "none" /\ ask'[Other] = ask[Other]
  BY <1>2, TwoDevices, NoAskStep DEF Here, There, Mine, Lived, SyncTypes, TalkTypes, StateTypes
<1>4. UNCHANGED <<HereSaved, ThereSaved>>
  BY <1>2 DEF HereSaved, ThereSaved
<1>5. Here'.outSeq = Later(Here.outSeq, Mine.seq) /\ Here'.lastSynced = Mine.now
  <2>1. /\ Here \in States /\ Mine.patch \in Patches /\ Mine.now \in Nat /\ Mine.seq \in Nat
        /\ Mine.theirSeq \in Nat
    BY Values DEF Asks
  <2> DEFINE h == Here  p == Mine.patch  n == Mine.now  o == Mine.seq  a == Mine.theirSeq
  <2>2. h \in States /\ p \in Patches /\ n \in Nat /\ o \in Nat /\ a \in Nat
    BY <2>1
  <2> HIDE DEF h, p, n, o, a
  <2>3. /\ Applied(h, p, n, o, a).lastSynced = n
        /\ Applied(h, p, n, o, a).outSeq = Later(h.outSeq, o)
    BY <2>2, AppliedType
  <2> QED BY <1>3, <2>3 DEF h, p, n, o, a
<1>6. Here'.outSeq = Mine.seq
  BY <1>2, <1>5, Counters DEF Numbers, Later
<1>7. OneSided'
  BY <1>2, <1>3 DEF OneSided
<1>8. Numbers'
  BY <1>2, <1>3, <1>4, <1>6, Counters DEF Numbers
<1>9. Lives'
  BY <1>2, <1>3 DEF Lives
<1> QED BY <1>2, <1>3, <1>5, <1>6, <1>7, <1>8, <1>9

\* A request that is accepted is the only one under way: no exchange, and no answer, is.
LEMMA AcceptsTalks ==
  ASSUME SyncAssumption, OneAsker, Lived, Talk, NEW m \in wire, Accepts(m)
  PROVE  /\ Talk'
         /\ UNCHANGED <<clock, disk, undoStack, meant, Here, budgets>> /\ wire' = wire \ {m}
         /\ \/ /\ exchanges = {} /\ UNCHANGED <<ask, report>> /\ There' = Committed(There, m.seq)
               /\ Mine.step \in {"none", "sent"}
               /\ There.accSeq = ThereSaved.accSeq /\ m.seq = There.accSeq + 1
               /\ There'.accSeq = m.seq
               /\ \E e : /\ exchanges' = {e} /\ e.live = m.live /\ e.seq = m.seq
                         /\ e.step = "merging"
                         /\ e.patch = Merged(There, There.lastSynced, m.changed)
                         /\ e.reply = Changed(There, There.lastSynced)
            \/ /\ UNCHANGED <<state, exchanges>>
               /\ UNCHANGED <<ask, report>> \/ (Mine'.step = "none" /\ report'[Asker] = "failed")
<1> USE DEF Talk
<1>1. m.from = Asker /\ Peer(m.from) = Other /\ m \in Requests /\ m.seq \in Nat
      /\ m.live \in BOOLEAN
  BY TwoDevices, Values DEF OneSided, Requests
<1>2. UNCHANGED <<HereSaved, ThereSaved>>
  BY DEF Accepts, HereSaved, ThereSaved
<1>3. CASE m.seq > There.accSeq
  <2> DEFINE e == [at |-> Other, live |-> m.live, seq |-> m.seq, step |-> "merging",
                   patch |-> Merged(There, There.lastSynced, m.changed),
                   reply |-> Changed(There, There.lastSynced), replySeq |-> There.outSeq + 1]
  <2>1. /\ state' = [state EXCEPT ![Other] = Committed(There, m.seq)]
        /\ exchanges' = exchanges \cup {e} /\ wire' = wire \ {m} /\ UNCHANGED <<ask, report>>
        /\ UNCHANGED <<clock, disk, undoStack, meant, budgets>>
    BY <1>1, <1>3 DEF Accepts, There
  <2>2. /\ e.at = Other /\ e.live = m.live /\ e.seq = m.seq /\ e.step = "merging"
        /\ e.patch = Merged(There, There.lastSynced, m.changed)
        /\ e.reply = Changed(There, There.lastSynced)
    OBVIOUS
  <2> HIDE DEF e
  <2>3. There' = Committed(There, m.seq) /\ Here' = Here /\ Mine' = Mine
    BY <2>1, TwoDevices DEF There, Here, Mine, Lived, SyncTypes, StateTypes
  <2>4. There'.accSeq = m.seq
    <3>1. Committed(There, m.seq).accSeq = Later(There.accSeq, m.seq)
      BY <1>1, Values, CommittedType
    <3> QED BY <1>1, <1>3, <2>3, <3>1, Counters DEF Later
  <2>5. There.accSeq = ThereSaved.accSeq /\ m.seq = There.accSeq + 1
    BY <1>1, <1>3, Counters DEF Numbers
  <2>6. exchanges = {}
    BY <1>1, <1>3, Counters DEF Numbers
  <2>7. Mine.step \in {"none", "sent"}
    <3>1. Mine.step \in {"answered", "merging"} =>
            m.seq <= Mine.seq /\ Mine.seq <= ThereSaved.accSeq
      BY DEF Numbers
    <3>2. Mine.step \in {"none", "sent", "answered", "merging"}
      BY Values DEF Asks
    <3> QED BY <2>5, <3>1, <3>2, <1>1, Counters
  <2>8. OneSided'
    BY <2>1, <2>2 DEF OneSided
  <2>9. Numbers'
    <3>1. \A n \in wire' : n.seq <= ThereSaved.accSeq + 1 /\ n.seq <= e.seq
      BY <2>1, <2>2, <2>5 DEF Numbers
    <3>2. Here.outSeq < e.seq
      BY <2>2, <2>5, Counters DEF Numbers
    <3>3. ThereSaved.accSeq <= There'.accSeq
      BY <2>4, <2>5, Counters
    <3> QED BY <1>2, <2>1, <2>2, <2>3, <2>4, <2>6, <2>7, <3>1, <3>2, <3>3 DEF Numbers
  <2>10. Lives'
    <3>1. \A f \in exchanges' : f.live => Mine.step = "sent" /\ f.seq = Mine.seq
      BY <2>1, <2>2, <2>6 DEF Lives
    <3>2. \A n \in wire' : n.live => n \in wire /\ n # m /\ n.live
      BY <2>1
    <3>3. \A n \in wire' : n.live => \A f \in exchanges' : ~f.live
      BY <2>1, <2>2, <2>6, <3>2 DEF Lives
    <3> QED BY <2>3, <3>1, <3>2, <3>3 DEF Lives
  <2>11. exchanges' = {e}
    BY <2>1, <2>6
  <2>12. \E f : /\ exchanges' = {f} /\ f.live = m.live /\ f.seq = m.seq
                /\ f.step = "merging"
                /\ f.patch = Merged(There, There.lastSynced, m.changed)
                /\ f.reply = Changed(There, There.lastSynced)
    BY <2>2, <2>11
  <2> QED BY <2>1, <2>3, <2>4, <2>5, <2>6, <2>7, <2>8, <2>9, <2>10, <2>12
<1>4. CASE ~(m.seq > There.accSeq)
  <2>1. /\ wire' = wire \ {m} /\ Refuses(Asker, m.live)
        /\ UNCHANGED <<state, exchanges, accepted, clock, disk, undoStack, meant, budgets>>
    BY <1>1, <1>4 DEF Accepts, There
  <2>2. UNCHANGED <<Here, There>>
    BY <2>1 DEF Here, There
  <2>3. ask'[Other] = ask[Other]
    BY <2>1, TwoDevices DEF Refuses, Lived, SyncTypes, TalkTypes
  <2>4. \/ m.live /\ Mine'.step = "none" /\ report'[Asker] = "failed"
        \/ ~m.live /\ UNCHANGED <<ask, report, Mine>>
    BY <1>1, <2>1, TwoDevices, NoAskStep DEF Refuses, Mine, Lived, SyncTypes, TalkTypes
  <2>5. OneSided'
    BY <2>1, <2>3 DEF OneSided
  <2>6. Numbers'
    BY <1>2, <2>1, <2>2, <2>4 DEF Numbers
  <2>7. Lives'
    <3>1. CASE m.live
      <4>1. \A n \in wire' : ~n.live
        BY <2>1, <3>1 DEF Lives
      <4>2. \A e \in exchanges' : ~e.live
        BY <2>1, <3>1 DEF Lives
      <4> QED BY <4>1, <4>2 DEF Lives
    <3>2. CASE ~m.live
      BY <2>1, <2>4, <3>2 DEF Lives
    <3> QED BY <3>1, <3>2
  <2> QED BY <2>1, <2>2, <2>4, <2>5, <2>6, <2>7
<1> QED BY <1>3, <1>4

LEMMA AppliesTalks ==
  ASSUME SyncAssumption, OneAsker, Lived, Talk, NEW e \in exchanges, Applies(e)
  PROVE  /\ Talk'
         /\ UNCHANGED <<clock, disk, undoStack, meant, Here, ask, report, wire, budgets>>
         /\ e.step = "merging" /\ exchanges = {e}
         /\ exchanges' = {[e EXCEPT !.step = "saving"]}
         /\ There' = Applied(There, e.patch, clock, e.replySeq, e.seq)
         /\ There'.lastSynced = clock /\ There'.accSeq = There.accSeq
         /\ Mine.step \in {"none", "sent"}
<1> USE DEF Talk
<1> DEFINE f == [e EXCEPT !.step = "saving"]
<1>1. e.at = Other /\ e \in Exchanges /\ e.seq \in Nat
  BY Values DEF OneSided, Exchanges
<1>2. /\ state' = [state EXCEPT ![Other] = Applied(There, e.patch, clock, e.replySeq, e.seq)]
      /\ exchanges' = (exchanges \ {e}) \cup {f} /\ e.step = "merging"
      /\ UNCHANGED <<clock, disk, undoStack, meant, ask, report, wire, budgets>>
  BY <1>1 DEF Applies, There
<1>3. exchanges = {e}
  BY DEF Numbers
<1>4. f.at = e.at /\ f.live = e.live /\ f.seq = e.seq
  BY <1>1 DEF Exchanges
<1> HIDE DEF f
<1>5. exchanges' = {f}
  BY <1>2, <1>3
<1>6. There' = Applied(There, e.patch, clock, e.replySeq, e.seq) /\ Here' = Here
  BY <1>2, TwoDevices DEF There, Here, Lived, SyncTypes, StateTypes
<1>7. There'.lastSynced = clock /\ There'.accSeq = Later(There.accSeq, e.seq)
  <2>1. There \in States /\ e.patch \in Patches /\ clock \in Nat /\ e.replySeq \in Nat
    BY <1>1, Values DEF Exchanges, Lived, SyncTypes, StateTypes
  <2> DEFINE h == There  p == e.patch  n == clock  o == e.replySeq  a == e.seq
  <2>2. h \in States /\ p \in Patches /\ n \in Nat /\ o \in Nat /\ a \in Nat
    BY <1>1, <2>1
  <2> HIDE DEF h, p, n, o, a
  <2>3. /\ Applied(h, p, n, o, a).lastSynced = n
        /\ Applied(h, p, n, o, a).accSeq = Later(h.accSeq, a)
    BY <2>2, AppliedType
  <2> QED BY <1>6, <2>3 DEF h, p, n, o, a
<1>8. There'.accSeq = There.accSeq
  BY <1>1, <1>7, Counters DEF Numbers, Later
<1>9. Mine.step \in {"none", "sent"}
  BY Values DEF Numbers, Asks
<1>10. UNCHANGED <<HereSaved, ThereSaved, Mine>>
  BY <1>2 DEF HereSaved, ThereSaved, Mine
<1>11. OneSided'
  BY <1>1, <1>2, <1>4, <1>5 DEF OneSided
<1>12. Numbers'
  BY <1>2, <1>3, <1>4, <1>5, <1>6, <1>8, <1>9, <1>10 DEF Numbers
<1>13. Lives'
  BY <1>2, <1>3, <1>4, <1>5, <1>10 DEF Lives
<1> QED BY <1>2, <1>3, <1>5, <1>6, <1>7, <1>8, <1>9, <1>11, <1>12, <1>13 DEF f

LEMMA AcknowledgesTalks ==
  ASSUME SyncAssumption, OneAsker, Lived, Talk, NEW e \in exchanges, Acknowledges(e)
  PROVE  /\ Talk'
         /\ UNCHANGED <<clock, state, undoStack, meant, HereSaved, report, wire, budgets>>
         /\ ThereSaved' = There
         /\ e.step = "saving" /\ exchanges = {e} /\ exchanges' = {}
         /\ \/ /\ e.live /\ Mine.step = "sent" /\ Mine'.step = "answered"
               /\ Mine' = [Mine EXCEPT !.step = "answered", !.theirs = e.reply,
                                       !.theirSeq = e.replySeq]
            \/ ~e.live /\ Mine' = Mine /\ Mine.step \in {"none", "sent"}
<1> USE DEF Talk
<1>1. e.at = Other /\ Peer(e.at) = Asker /\ e \in Exchanges /\ e.live \in BOOLEAN
      /\ Mine \in Asks /\ Mine.step \in {"none", "sent", "answered", "merging"}
  BY TwoDevices, Values DEF OneSided, Exchanges, Asks
<1>2. /\ disk' = [disk EXCEPT ![Other] = There] /\ exchanges' = exchanges \ {e}
      /\ e.step = "saving" /\ Answers(Asker, e.live, e.reply, e.replySeq)
      /\ UNCHANGED <<clock, state, undoStack, meant, report, wire, accepted, budgets>>
  BY <1>1 DEF Acknowledges, SavedFile, There
<1>3. exchanges = {e}
  BY DEF Numbers
<1>4. exchanges' = {}
  BY <1>2, <1>3
<1>5. ThereSaved' = There /\ UNCHANGED <<Here, There, HereSaved>>
  BY <1>2, TwoDevices DEF Here, There, HereSaved, ThereSaved, Lived, SyncTypes, StateTypes
<1>6. CASE e.live
  <2>1. ask' = [ask EXCEPT ![Asker].step = "answered", ![Asker].theirs = e.reply,
                           ![Asker].theirSeq = e.replySeq]
    BY <1>2, <1>6 DEF Answers
  <2>2. ask'[Other] = ask[Other]
    BY <2>1, TwoDevices DEF Lived, SyncTypes, TalkTypes
  <2>3. Mine' = [Mine EXCEPT !.step = "answered", !.theirs = e.reply, !.theirSeq = e.replySeq]
    BY <2>1, TwoDevices DEF Mine, Lived, SyncTypes, TalkTypes
  <2>4. Mine'.step = "answered" /\ Mine'.seq = Mine.seq
    BY <1>1, <2>3 DEF Asks
  <2>5. Mine.step = "sent" /\ e.seq = Mine.seq
    BY <1>6 DEF Lives
  <2>6. OneSided'
    BY <1>2, <1>4, <2>2 DEF OneSided
  <2>7. Numbers'
    BY <1>2, <1>4, <1>5, <2>4, <2>5, Counters DEF Numbers
  <2>8. Lives'
    <3>1. \A m \in wire : ~m.live
      BY <1>6 DEF Lives
    <3> QED BY <1>2, <1>4, <3>1 DEF Lives
  <2> QED BY <1>2, <1>3, <1>4, <1>5, <1>6, <2>3, <2>4, <2>5, <2>6, <2>7, <2>8
<1>7. CASE ~e.live
  <2>1. ask' = ask /\ Mine' = Mine
    BY <1>2, <1>7 DEF Answers, Mine
  <2>2. Mine.step \in {"none", "sent"}
    BY <1>1 DEF Numbers
  <2>3. OneSided'
    BY <1>2, <1>4, <2>1 DEF OneSided
  <2>4. Numbers'
    BY <1>2, <1>4, <1>5, <2>1, <2>2, Counters DEF Numbers
  <2>5. Lives'
    BY <1>2, <1>4, <2>1 DEF Lives
  <2> QED BY <1>2, <1>3, <1>4, <1>5, <1>7, <2>1, <2>2, <2>3, <2>4, <2>5
<1> QED BY <1>1, <1>6, <1>7

LEMMA SaveFailsTalks ==
  ASSUME SyncAssumption, OneAsker, Lived, Talk, NEW e \in exchanges, SaveFails(e)
  PROVE  /\ Talk'
         /\ UNCHANGED <<stateVars, wire, crashes, undos>> /\ exchanges' = {}
         /\ UNCHANGED <<ask, report>> \/ (Mine'.step = "none" /\ report'[Asker] = "failed")
<1> USE DEF Talk
<1>1. e.at = Other /\ Peer(e.at) = Asker /\ e.live \in BOOLEAN
  BY TwoDevices, Values DEF OneSided, Exchanges
<1>2. /\ exchanges' = exchanges \ {e} /\ Refuses(Asker, e.live)
      /\ UNCHANGED <<stateVars, wire, crashes, undos>>
  BY <1>1 DEF SaveFails
<1>3. exchanges' = {}
  BY <1>2 DEF Numbers
<1>4. UNCHANGED <<Here, There, HereSaved, ThereSaved>>
  BY <1>2 DEF stateVars, Here, There, HereSaved, ThereSaved
<1>5. ask'[Other] = ask[Other]
  BY <1>2, TwoDevices DEF Refuses, Lived, SyncTypes, TalkTypes
<1>6. \/ e.live /\ Mine'.step = "none" /\ report'[Asker] = "failed"
      \/ ~e.live /\ UNCHANGED <<ask, report, Mine>>
  BY <1>1, <1>2, TwoDevices, NoAskStep DEF Refuses, Mine, Lived, SyncTypes, TalkTypes
<1>7. OneSided'
  BY <1>2, <1>3, <1>5 DEF OneSided
<1>8. Numbers'
  BY <1>2, <1>3, <1>4, <1>6 DEF Numbers
<1>9. Lives'
  <2>1. e.live => \A m \in wire : ~m.live
    BY DEF Lives
  <2> QED BY <1>2, <1>3, <1>6, <2>1 DEF Lives
<1> QED BY <1>2, <1>3, <1>6, <1>7, <1>8, <1>9

\* What the network does: some requests go, and copies of some come, which nobody awaits.
LEMMA NetworkTalks ==
  ASSUME SyncAssumption, OneAsker, Lived, Talk, NEW m \in wire, Drops(m) \/ Copies(m)
  PROVE  /\ Talk'
         /\ UNCHANGED <<stateVars, ask, report, exchanges, crashes, undos>>
         /\ \A n \in wire' :
              n \in wire \/ (~n.live /\ \E k \in wire : n.seq = k.seq /\ n.changed = k.changed)
<1> USE DEF Talk
<1>1. /\ UNCHANGED <<stateVars, ask, report, exchanges, crashes, undos>>
      /\ wire' = wire \ {m} \/ wire' = wire \cup {[m EXCEPT !.live = FALSE]}
  BY DEF Drops, Copies
<1> DEFINE c == [m EXCEPT !.live = FALSE]
<1>2. ~c.live /\ c.seq = m.seq /\ c.from = m.from /\ c.changed = m.changed
  BY Values DEF Requests
<1> HIDE DEF c
<1>3. \A n \in wire' : n \in wire \/ n = c
  BY <1>1 DEF c
<1>4. UNCHANGED <<Here, There, HereSaved, ThereSaved, Mine>>
  BY <1>1 DEF stateVars, Here, There, HereSaved, ThereSaved, Mine
<1>5. OneSided'
  BY <1>1, <1>2, <1>3 DEF OneSided
<1>6. Numbers'
  BY <1>1, <1>2, <1>3, <1>4 DEF Numbers
<1>7. Lives'
  <2>1. \A n \in wire' : n.live => n \in wire
    BY <1>2, <1>3
  <2> QED BY <1>1, <1>4, <2>1 DEF Lives
<1> QED BY <1>1, <1>2, <1>3, <1>5, <1>6, <1>7

LEMMA UserTalks ==
  ASSUME SyncAssumption, OneAsker, Lived, Talk, NEW d \in Devices, NEW j \in Jobs,
         Edits(d, j) \/ Deletes(d, j) \/ Undeletes(d, j) \/ KeepsLoser(d, j)
  PROVE  Talk'
<1> USE DEF Talk
<1>1. UNCHANGED <<ask, wire, exchanges, disk>>
  BY DEF Edits, Deletes, Undeletes, KeepsLoser, talkVars
<1>2. \A p \in Devices : state'[p].outSeq = state[p].outSeq /\ state'[p].accSeq = state[p].accSeq
  <2> TAKE p \in Devices
  <2>1. CASE Edits(d, j)
    BY <2>1 DEF Edits, Lived, SyncTypes, StateTypes, States
  <2>2. CASE Deletes(d, j)
    BY <2>2 DEF Deletes, Lived, SyncTypes, StateTypes, States
  <2>3. CASE Undeletes(d, j)
    BY <2>3 DEF Undeletes, Lived, SyncTypes, StateTypes, States
  <2>4. CASE KeepsLoser(d, j)
    BY <2>4 DEF KeepsLoser, Lived, SyncTypes, StateTypes, States
  <2> QED BY <2>1, <2>2, <2>3, <2>4
<1>3. Here'.outSeq = Here.outSeq /\ There'.accSeq = There.accSeq
      /\ UNCHANGED <<HereSaved, ThereSaved, Mine>>
  BY <1>1, <1>2, TwoDevices DEF Here, There, HereSaved, ThereSaved, Mine
<1>4. OneSided'
  BY <1>1 DEF OneSided
<1>5. Numbers'
  BY <1>1, <1>3 DEF Numbers
<1>6. Lives'
  BY <1>1, <1>3 DEF Lives
<1> QED BY <1>4, <1>5, <1>6

LEMMA SavesTalks ==
  ASSUME SyncAssumption, OneAsker, Lived, Talk, NEW d \in Devices, Saves(d)
  PROVE  /\ Talk'
         /\ UNCHANGED <<clock, state, undoStack, meant, talkVars, budgets>>
         /\ HereSaved' \in {HereSaved, Here} /\ ThereSaved' \in {ThereSaved, There}
<1> USE DEF Talk
<1>1. /\ disk' = [disk EXCEPT ![d] = state[d]]
      /\ UNCHANGED <<clock, state, undoStack, meant, talkVars, budgets>>
  BY DEF Saves
<1>2. HereSaved' \in {HereSaved, Here} /\ ThereSaved' \in {ThereSaved, There}
      /\ UNCHANGED <<Here, There, Mine>>
  BY <1>1, TwoDevices DEF Here, There, HereSaved, ThereSaved, Mine, talkVars, Lived, SyncTypes,
     StateTypes
<1>3. OneSided'
  BY <1>1 DEF OneSided, talkVars
<1>4. Numbers'
  BY <1>1, <1>2, Counters DEF Numbers, talkVars
<1>5. Lives'
  BY <1>1, <1>2 DEF Lives, talkVars
<1> QED BY <1>1, <1>2, <1>3, <1>4, <1>5

LEMMA CrashesTalks ==
  ASSUME SyncAssumption, OneAsker, Lived, Talk, NEW d \in Devices, Crashes(d)
  PROVE  /\ Talk'
         /\ UNCHANGED <<clock, disk, meant, report, undos>> /\ crashes' = crashes + 1
         /\ \/ /\ Here' = HereSaved /\ There' = There /\ Mine'.step = "none"
               /\ wire' = Forsaken(wire, Asker) /\ exchanges' = Abandoned(Asker)
            \/ /\ Here' = Here /\ There' = ThereSaved /\ Mine' = Mine
               /\ wire' = wire /\ exchanges' = {}
<1> USE DEF Talk
<1>1. /\ state' = [state EXCEPT ![d] = disk[d]] /\ ask' = [ask EXCEPT ![d] = NoAsk]
      /\ wire' = Forsaken(wire, d) /\ exchanges' = {e \in Abandoned(d) : e.at # d}
      /\ UNCHANGED <<clock, disk, meant, report, undos>> /\ crashes' = crashes + 1
  BY DEF Crashes
<1>2. UNCHANGED <<HereSaved, ThereSaved>>
  BY <1>1 DEF HereSaved, ThereSaved
<1>3. CASE d = Asker
  <2>1. /\ Here' = HereSaved /\ There' = There /\ Mine'.step = "none" /\ ask'[Other] = ask[Other]
    BY <1>1, <1>3, TwoDevices, NoAskStep DEF Here, There, HereSaved, Mine, Lived, SyncTypes,
       StateTypes, TalkTypes
  <2>2. exchanges' = Abandoned(Asker)
    <3>1. \A e \in Abandoned(Asker) : e.at = Other
      BY AbandonedFits DEF OneSided
    <3> QED BY <1>1, <1>3, <3>1, TwoDevices
  <2>3. wire' = Forsaken(wire, Asker)
    BY <1>1, <1>3
  <2>4. OneSided'
    BY <2>1, <2>2, <2>3, ForsakenFits, AbandonedFits DEF OneSided
  <2>5. Numbers'
    <3>1. \A m \in wire' : \E n \in wire : m.seq = n.seq
      BY <2>3, ForsakenFits
    <3>2. \A e \in exchanges' : \E f \in exchanges : e.seq = f.seq /\ e = [f EXCEPT !.live = FALSE]
      BY <2>2, AbandonedFits
    <3>3. \A m \in wire' : m.seq <= ThereSaved'.accSeq + 1
      BY <3>1, <1>2 DEF Numbers
    <3>4. \A e \in exchanges' : /\ e.seq = There'.accSeq /\ HereSaved.outSeq < e.seq
                                /\ \A m \in wire' : m.seq <= e.seq
                                /\ \A f \in exchanges' : f = e
      <4>1. \A f \in exchanges : /\ f.seq = There.accSeq /\ HereSaved.outSeq < f.seq
                                 /\ \A m \in wire : m.seq <= f.seq
                                 /\ \A g \in exchanges : g = f
        BY Counters DEF Numbers
      <4> QED BY <3>1, <3>2, <2>1, <4>1
    <3> QED BY <1>2, <2>1, <3>3, <3>4, Counters DEF Numbers
  <2>6. Lives'
    BY <2>2, <2>3, ForsakenFits, AbandonedFits DEF Lives
  <2> QED BY <1>1, <2>1, <2>2, <2>3, <2>4, <2>5, <2>6
<1>4. CASE d = Other
  <2>1. /\ There' = ThereSaved /\ Here' = Here /\ Mine' = Mine /\ ask'[Other] = NoAsk
    BY <1>1, <1>4, TwoDevices DEF Here, There, ThereSaved, Mine, Lived, SyncTypes, StateTypes,
       TalkTypes
  <2>2. wire' = wire /\ exchanges' = {}
    BY <1>1, <1>4, OtherForsakesNothing DEF OneSided
  <2>3. OneSided'
    BY <2>1, <2>2, NoAskStep DEF OneSided
  <2>4. Numbers'
    BY <1>2, <2>1, <2>2, Counters DEF Numbers
  <2>5. Lives'
    BY <2>1, <2>2 DEF Lives
  <2> QED BY <1>1, <2>1, <2>2, <2>3, <2>4, <2>5
<1> QED BY <1>3, <1>4, TwoDevices

LEMMA StepTalks ==
  ASSUME SyncAssumption, OneAsker, Lived, Talk, [Next]_vars PROVE Talk'
<1>1. CASE UNCHANGED vars
  BY <1>1 DEF vars, stateVars, talkVars, budgets, Talk, OneSided, Numbers, Lives, Mine, Here, There,
     HereSaved, ThereSaved
<1>2. CASE Next
  BY <1>2, AskBeginsTalks, GivesUpTalks, HearsReplyTalks, AskEndsTalks, AcceptsTalks, AppliesTalks,
     AcknowledgesTalks, SaveFailsTalks, NetworkTalks, UserTalks, SavesTalks, CrashesTalks DEF Next,
     Answering
<1> QED BY <1>1, <1>2

-----------------------------------------------------------------------------
(* What one record of jobs and tombstones knows of another *)

Stamped(s) == s.jobs \in Stamps /\ s.deleted \in Stamps

\* r has the deletion of t, or something later than it.
KnowsGone(r, j, t) == r.jobs[j] > t \/ r.deleted[j] >= t

\* What follows is said of some jobs, K, and of no other: a job the user changes on a
\* device in mid-exchange is lost to the patch, and the others must not go with it.

\* What happened in s up to a time is in one of r and c.
Covers(K, r, c, s, upto) ==
  \A j \in K :
    /\ s.jobs[j] <= upto => Knows(r, j, s.jobs[j]) \/ Knows(c, j, s.jobs[j])
    /\ s.deleted[j] <= upto => KnowsGone(r, j, s.deleted[j]) \/ KnowsGone(c, j, s.deleted[j])

Has(K, r, s, upto) == Covers(K, r, r, s, upto)

\* x knows whatever r knows.
Above(K, r, x) ==
  \A j \in K, t \in Nat : /\ Knows(r, j, t) => Knows(x, j, t)
                          /\ KnowsGone(r, j, t) => KnowsGone(x, j, t)

\* A job that is there is newer than its tombstone; nothing is of the future; no tombstone
\* is of the moment at which the job was wanted.
Alive(K, s)    == \A j \in K : s.jobs[j] # 0 => s.jobs[j] > s.deleted[j]
Past(K, s, t)  == \A j \in K : s.jobs[j] <= t /\ s.deleted[j] <= t
Apart(K, s, w) == \A d \in Devices, j \in K : s.deleted[j] # 0 => s.deleted[j] # w[d][j]
Fit(K, s, t, w) == Alive(K, s) /\ Past(K, s, t) /\ Apart(K, s, w)

\* A job of c that is not seen as a conflict is at least as new as the one it replaces.
Safe(K, s, since, c) == \A j \in K : c.jobs[j] # 0 /\ s.jobs[j] <= since => s.jobs[j] <= c.jobs[j]

\* The merge of two such records: the later of each, and of a job and its tombstone.
Joined(K, s, c, x) ==
  \A j \in K :
    /\ x.deleted[j] = Later(s.deleted[j], c.deleted[j])
    /\ x.jobs[j] = IF Later(s.jobs[j], c.jobs[j]) > x.deleted[j] THEN Later(s.jobs[j], c.jobs[j])
                   ELSE 0

\* The user has edited or deleted a job at t.
Touched(K, s, x, t) ==
  \A j \in K : \/ x.jobs[j] = s.jobs[j] /\ x.deleted[j] = s.deleted[j]
               \/ x.jobs[j] = t /\ x.deleted[j] = s.deleted[j]
               \/ x.jobs[j] = 0 /\ x.deleted[j] = t

\* The two agree on the jobs of K.
SameOn(K, s, x) == \A j \in K : x.jobs[j] = s.jobs[j] /\ x.deleted[j] = s.deleted[j]

LEMMA AboveItself == ASSUME NEW K \in SUBSET Jobs, NEW r PROVE Above(K, r, r)
BY DEF Above

LEMMA CoversAbove ==
  ASSUME NEW K \in SUBSET Jobs, NEW r, NEW c, NEW s, NEW x, NEW y, NEW u, Stamped(s),
         Covers(K, r, c, s, u),
         Above(K, r, x), Above(K, c, y)
  PROVE  Covers(K, x, y, s, u)
BY DEF Covers, Above, Stamped, Stamps

LEMMA CoversJoin ==
  ASSUME NEW K \in SUBSET Jobs, NEW r, NEW c, NEW s, NEW x, NEW u, Stamped(s),
         Covers(K, r, c, s, u), Above(K, r, x), Above(K, c, x)
  PROVE  Has(K, x, s, u)
BY CoversAbove DEF Has

LEMMA HasCovers ==
  ASSUME NEW K \in SUBSET Jobs, NEW r, NEW c, NEW s, NEW u, Has(K, r, s, u)
  PROVE  Covers(K, r, c, s, u)
BY DEF Has, Covers

LEMMA CoversLess ==
  ASSUME NEW K \in SUBSET Jobs, NEW r, NEW c, NEW s, NEW u \in Nat, NEW v \in Nat, Stamped(s),
         Covers(K, r, c, s, u), v <= u
  PROVE  Covers(K, r, c, s, v)
<1> SUFFICES ASSUME NEW j \in K
             PROVE  /\ s.jobs[j] <= v => Knows(r, j, s.jobs[j]) \/ Knows(c, j, s.jobs[j])
                    /\ s.deleted[j] <= v => \/ KnowsGone(r, j, s.deleted[j])
                                            \/ KnowsGone(c, j, s.deleted[j])
  BY DEF Covers
<1>1. s.jobs[j] \in Nat /\ s.deleted[j] \in Nat
  BY DEF Stamped, Stamps
<1> QED BY <1>1 DEF Covers

LEMMA CoversLater ==
  ASSUME NEW K \in SUBSET Jobs, NEW r, NEW c, NEW s, NEW u, NEW v, Past(K, s, u),
         Covers(K, r, c, s, u)
  PROVE  Covers(K, r, c, s, v)
BY DEF Covers, Past

\* What Changed() leaves out is what the other side already has.
LEMMA ChangedCovers ==
  ASSUME NEW K \in SUBSET Jobs, NEW r, NEW s, NEW u \in Nat, NEW v, Stamped(s), Has(K, r, s, u)
  PROVE  Covers(K, r, Changed(s, u), s, v)
<1> SUFFICES ASSUME NEW j \in K
             PROVE  /\ Knows(r, j, s.jobs[j]) \/ Knows(Changed(s, u), j, s.jobs[j])
                    /\ \/ KnowsGone(r, j, s.deleted[j])
                       \/ KnowsGone(Changed(s, u), j, s.deleted[j])
  BY DEF Covers
<1>1. s.jobs[j] \in Nat /\ s.deleted[j] \in Nat
  BY DEF Stamped, Stamps
<1>2. /\ Changed(s, u).jobs[j] = IF s.jobs[j] > u THEN s.jobs[j] ELSE 0
      /\ Changed(s, u).deleted[j] = IF s.deleted[j] > u THEN s.deleted[j] ELSE 0
  BY DEF Changed, Since
<1>3. Knows(r, j, s.jobs[j]) \/ Knows(Changed(s, u), j, s.jobs[j])
  <2>1. CASE s.jobs[j] <= u
    BY <2>1 DEF Has, Covers
  <2>2. CASE s.jobs[j] > u
    BY <1>1, <1>2, <2>2 DEF Knows
  <2> QED BY <1>1, <2>1, <2>2
<1>4. KnowsGone(r, j, s.deleted[j]) \/ KnowsGone(Changed(s, u), j, s.deleted[j])
  <2>1. CASE s.deleted[j] <= u
    BY <2>1 DEF Has, Covers
  <2>2. CASE s.deleted[j] > u
    BY <1>1, <1>2, <2>2 DEF KnowsGone
  <2> QED BY <1>1, <2>1, <2>2
<1> QED BY <1>3, <1>4

LEMMA HasChanged ==
  ASSUME NEW K \in SUBSET Jobs, NEW s, NEW u \in Nat, NEW v, Stamped(s)
  PROVE  Has(K, s, Changed(s, u), v)
<1> SUFFICES ASSUME NEW j \in K
             PROVE  Knows(s, j, Changed(s, u).jobs[j]) /\ KnowsGone(s, j, Changed(s, u).deleted[j])
  BY DEF Has, Covers
<1>1. s.jobs[j] \in Nat /\ s.deleted[j] \in Nat
  BY DEF Stamped, Stamps
<1>2. /\ Changed(s, u).jobs[j] = IF s.jobs[j] > u THEN s.jobs[j] ELSE 0
      /\ Changed(s, u).deleted[j] = IF s.deleted[j] > u THEN s.deleted[j] ELSE 0
  BY DEF Changed, Since
<1> QED BY <1>1, <1>2 DEF Knows, KnowsGone

LEMMA ChangedFit ==
  ASSUME NEW K \in SUBSET Jobs, NEW s, NEW u \in Nat, NEW t \in Nat, NEW w, Stamped(s),
         Fit(K, s, t, w)
  PROVE  Fit(K, Changed(s, u), t, w)
<1>1. \A j \in K : s.jobs[j] \in Nat /\ s.deleted[j] \in Nat
  BY DEF Stamped, Stamps
<1>2. \A j \in K :
        /\ Changed(s, u).jobs[j] = IF s.jobs[j] > u THEN s.jobs[j] ELSE 0
        /\ Changed(s, u).deleted[j] = IF s.deleted[j] > u THEN s.deleted[j] ELSE 0
  BY DEF Changed, Since
<1>3. Alive(K, Changed(s, u))
  BY <1>1, <1>2 DEF Alive, Fit
<1>4. Past(K, Changed(s, u), t)
  BY <1>1, <1>2 DEF Past, Fit
<1>5. Apart(K, Changed(s, u), w)
  BY <1>1, <1>2 DEF Apart, Fit
<1> QED BY <1>3, <1>4, <1>5 DEF Fit

\* A payload is safe for a receiver of whose older jobs the sender knows.
LEMMA ChangedSafe ==
  ASSUME NEW K \in SUBSET Jobs, NEW r, NEW s, NEW u, NEW v \in Nat, Stamped(r), Stamped(s),
         Alive(K, s), Has(K, s, r, u)
  PROVE  Safe(K, r, u, Changed(s, v))
<1> SUFFICES ASSUME NEW j \in K, Changed(s, v).jobs[j] # 0, r.jobs[j] <= u
             PROVE  r.jobs[j] <= Changed(s, v).jobs[j]
  BY DEF Safe
<1>1. s.jobs[j] \in Nat /\ s.deleted[j] \in Nat /\ r.jobs[j] \in Nat
  BY DEF Stamped, Stamps
<1>2. Changed(s, v).jobs[j] = s.jobs[j] /\ s.jobs[j] # 0
  BY DEF Changed, Since
<1>3. Knows(s, j, r.jobs[j])
  BY DEF Has, Covers
<1> QED BY <1>1, <1>2, <1>3 DEF Knows, Alive

-----------------------------------------------------------------------------
(* The merge *)

\* applyExchange(): when the payload is safe, what comes out for the jobs of K is the later
\* of each, also when other jobs were changed after s was read for the merge.
LEMMA MergeJoins ==
  ASSUME NEW K \in SUBSET Jobs, NEW s \in States, NEW now \in States, NEW since \in Nat,
         NEW c \in Payloads, NEW at, NEW o, NEW a,
         SameOn(K, s, now), Alive(K, s), Safe(K, s, since, c)
  PROVE  Joined(K, now, c, Applied(now, Merged(s, since, c), at, o, a))
<1> DEFINE deleted == [j \in Jobs |-> Later(s.deleted[j], c.deleted[j])]
           winners == [j \in Jobs |-> Winner(s.jobs[j], c.jobs[j], since)]
           jobs    == [j \in Jobs |-> IF Survives(winners[j], deleted[j]) THEN winners[j] ELSE 0]
           p       == Merged(s, since, c)
           x       == Applied(now, p, at, o, a)
<1>1. \A j \in K : /\ s.jobs[j] \in Nat /\ c.jobs[j] \in Nat
                   /\ s.deleted[j] \in Nat /\ c.deleted[j] \in Nat
                   /\ now.jobs[j] = s.jobs[j] /\ now.deleted[j] = s.deleted[j]
  BY DEF States, Payloads, Stamps, SameOn
<1>2. /\ x.jobs = IF p.setsJobs THEN p.jobs ELSE now.jobs
      /\ x.deleted = IF p.setsDeleted THEN p.deleted ELSE now.deleted
  BY DEF Applied
<1>3. IF c = Nothing THEN ~p.setsJobs /\ ~p.setsDeleted
      ELSE /\ p.jobs = jobs /\ p.deleted = deleted
           /\ p.setsJobs = (c.jobs # Nobody \/ jobs # s.jobs)
           /\ p.setsDeleted = (c.deleted # Nobody)
  BY DEF Merged, NoPatch
<1> HIDE DEF p, x
<1>4. \A j \in K : winners[j] = Later(s.jobs[j], c.jobs[j])
  BY <1>1 DEF Winner, Later, Safe
<1>5. \A j \in K : deleted[j] = Later(s.deleted[j], c.deleted[j])
  OBVIOUS
<1>6. \A j \in K : jobs[j] = IF winners[j] > deleted[j] THEN winners[j] ELSE 0
  BY DEF Survives
<1> HIDE DEF deleted, winners, jobs
<1>8. c.deleted = Nobody => \A j \in K : deleted[j] = s.deleted[j]
  BY <1>1, <1>5 DEF Nobody, Later
<1>9. c.jobs = Nobody => \A j \in K : winners[j] = s.jobs[j]
  BY <1>1, <1>4 DEF Nobody, Later
<1>10. \A j \in K : x.deleted[j] = deleted[j]
  <2>1. CASE c = Nothing
    BY <1>1, <1>2, <1>3, <1>8, <2>1 DEF Nothing
  <2>2. CASE c # Nothing
    BY <1>1, <1>2, <1>3, <1>8, <2>2
  <2> QED BY <2>1, <2>2
<1>11. \A j \in K : x.jobs[j] = jobs[j]
  <2>1. CASE c = Nothing
    <3>1. \A j \in K : winners[j] = s.jobs[j] /\ deleted[j] = s.deleted[j]
      BY <1>8, <1>9, <2>1 DEF Nothing
    <3>2. \A j \in K : jobs[j] = s.jobs[j]
      BY <1>1, <1>6, <3>1 DEF Alive
    <3> QED BY <1>1, <1>2, <1>3, <2>1, <3>2
  <2>2. CASE c # Nothing
    BY <1>1, <1>2, <1>3, <2>2
  <2> QED BY <2>1, <2>2
<1>12. Joined(K, now, c, x)
  BY <1>1, <1>4, <1>5, <1>6, <1>10, <1>11 DEF Joined
<1> QED BY <1>12 DEF x, p

LEMMA JoinedAbove ==
  ASSUME NEW K \in SUBSET Jobs, NEW s, NEW c, NEW x, Stamped(s), Stamped(c), Joined(K, s, c, x)
  PROVE  Above(K, s, x) /\ Above(K, c, x)
<1> SUFFICES ASSUME NEW j \in K, NEW t \in Nat
             PROVE  /\ Knows(s, j, t) \/ Knows(c, j, t) => Knows(x, j, t)
                    /\ KnowsGone(s, j, t) \/ KnowsGone(c, j, t) => KnowsGone(x, j, t)
  BY DEF Above
<1>1. /\ s.jobs[j] \in Nat /\ s.deleted[j] \in Nat /\ c.jobs[j] \in Nat /\ c.deleted[j] \in Nat
  BY DEF Stamped, Stamps
<1> QED BY <1>1 DEF Joined, Knows, KnowsGone, Later

LEMMA JoinedFit ==
  ASSUME NEW K \in SUBSET Jobs, NEW s, NEW c, NEW x, NEW t \in Nat, NEW w, Stamped(s),
         Stamped(c), Joined(K, s, c, x),
         Fit(K, s, t, w), Fit(K, c, t, w)
  PROVE  Fit(K, x, t, w)
<1>1. \A j \in K : /\ s.jobs[j] \in Nat /\ s.deleted[j] \in Nat
                      /\ c.jobs[j] \in Nat /\ c.deleted[j] \in Nat
  BY DEF Stamped, Stamps
<1>2. Alive(K, x)
  BY <1>1 DEF Joined, Alive, Later
<1>3. Past(K, x, t)
  BY <1>1 DEF Joined, Past, Later, Fit
<1>4. Apart(K, x, w)
  BY <1>1 DEF Joined, Apart, Later, Fit
<1> QED BY <1>2, <1>3, <1>4 DEF Fit

LEMMA JoinedCovers ==
  ASSUME NEW K \in SUBSET Jobs, NEW r, NEW q, NEW s, NEW c, NEW x, NEW u \in Nat, Stamped(r),
         Stamped(s), Stamped(c),
         Joined(K, s, c, x), Covers(K, r, q, s, u), Covers(K, r, q, c, u)
  PROVE  Covers(K, r, q, x, u)
<1> SUFFICES ASSUME NEW j \in K
             PROVE  /\ x.jobs[j] <= u => Knows(r, j, x.jobs[j]) \/ Knows(q, j, x.jobs[j])
                    /\ x.deleted[j] <= u => \/ KnowsGone(r, j, x.deleted[j])
                                            \/ KnowsGone(q, j, x.deleted[j])
  BY DEF Covers
<1>1. r.jobs[j] \in Nat
  BY DEF Stamped, Stamps
<1>2. x.jobs[j] \in {s.jobs[j], c.jobs[j], 0} /\ x.deleted[j] \in {s.deleted[j], c.deleted[j]}
  BY DEF Joined, Later
<1>3. Knows(r, j, 0)
  BY <1>1 DEF Knows
<1> QED BY <1>2, <1>3 DEF Covers

\* What was wanted at t is there, or was deleted later; a merge does not change that.
LEMMA JoinedWished ==
  ASSUME NEW K \in SUBSET Jobs, NEW s, NEW c, NEW x, NEW w, NEW d \in Devices, NEW j \in K,
         w[d][j] \in Nat,
         Stamped(s), Stamped(c), Joined(K, s, c, x), Apart(K, s, w), Apart(K, c, w),
         s.jobs[j] >= w[d][j] \/ s.deleted[j] > w[d][j]
  PROVE  x.jobs[j] >= w[d][j] \/ x.deleted[j] > w[d][j]
<1>1. s.jobs[j] \in Nat /\ s.deleted[j] \in Nat /\ c.jobs[j] \in Nat /\ c.deleted[j] \in Nat
  BY DEF Stamped, Stamps
<1>2. /\ x.deleted[j] = Later(s.deleted[j], c.deleted[j])
      /\ x.jobs[j] = IF Later(s.jobs[j], c.jobs[j]) > x.deleted[j]
                     THEN Later(s.jobs[j], c.jobs[j]) ELSE 0
  BY DEF Joined
<1>3. x.deleted[j] # 0 => x.deleted[j] # w[d][j]
  BY <1>2 DEF Apart, Later
<1> QED BY <1>1, <1>2, <1>3 DEF Later

\* When each has all the other has, they have the same jobs.
LEMMA AlikeWhenBothHave ==
  ASSUME NEW K \in SUBSET Jobs, NEW h, NEW r, NEW u, Stamped(h), Stamped(r), Alive(K, h),
         Alive(K, r), Past(K, h, u), Past(K, r, u),
         Has(K, r, h, u), Has(K, h, r, u)
  PROVE  \A j \in K : h.jobs[j] = r.jobs[j]
<1> TAKE j \in K
<1>1. h.jobs[j] \in Nat /\ h.deleted[j] \in Nat /\ r.jobs[j] \in Nat /\ r.deleted[j] \in Nat
  BY DEF Stamped, Stamps
<1>2. /\ Knows(r, j, h.jobs[j]) /\ KnowsGone(r, j, h.deleted[j])
      /\ Knows(h, j, r.jobs[j]) /\ KnowsGone(h, j, r.deleted[j])
  BY DEF Has, Covers, Past
<1> QED BY <1>1, <1>2 DEF Knows, KnowsGone, Alive

-----------------------------------------------------------------------------
(* The user *)

LEMMA TouchedAbove ==
  ASSUME NEW K \in SUBSET Jobs, NEW s, NEW x, NEW k \in Nat, Stamped(s), Past(K, s, k),
         Touched(K, s, x, k + 1)
  PROVE  Above(K, s, x) /\ (Alive(K, s) => Alive(K, x)) /\ Past(K, x, k + 1)
<1>1. \A j \in K : s.jobs[j] \in Nat /\ s.deleted[j] \in Nat
  BY DEF Stamped, Stamps
<1>2. Above(K, s, x)
  <2> SUFFICES ASSUME NEW j \in K, NEW t \in Nat
               PROVE  /\ Knows(s, j, t) => Knows(x, j, t)
                      /\ KnowsGone(s, j, t) => KnowsGone(x, j, t)
    BY DEF Above
  <2> QED BY <1>1 DEF Touched, Past, Knows, KnowsGone
<1>3. Alive(K, s) => Alive(K, x)
  BY <1>1 DEF Alive, Touched, Past
<1>4. Past(K, x, k + 1)
  BY <1>1 DEF Touched, Past
<1> QED BY <1>2, <1>3, <1>4

LEMMA TouchedCovers ==
  ASSUME NEW K \in SUBSET Jobs, NEW r, NEW c, NEW s, NEW x, NEW k \in Nat, NEW u \in Nat,
         u <= k, Stamped(r), Stamped(s),
         Touched(K, s, x, k + 1), Covers(K, r, c, s, u)
  PROVE  Covers(K, r, c, x, u)
<1> SUFFICES ASSUME NEW j \in K
             PROVE  /\ x.jobs[j] <= u => Knows(r, j, x.jobs[j]) \/ Knows(c, j, x.jobs[j])
                    /\ x.deleted[j] <= u => \/ KnowsGone(r, j, x.deleted[j])
                                            \/ KnowsGone(c, j, x.deleted[j])
  BY DEF Covers
<1>1. r.jobs[j] \in Nat
  BY DEF Stamped, Stamps
<1>2. Knows(r, j, 0) /\ ~(k + 1 <= u)
  BY <1>1 DEF Knows
<1> QED BY <1>2 DEF Touched, Covers

LEMMA TouchedSafe ==
  ASSUME NEW K \in SUBSET Jobs, NEW s, NEW x, NEW c, NEW k \in Nat, NEW u \in Nat, u <= k,
         Stamped(c),
         Touched(K, s, x, k + 1), Safe(K, s, u, c)
  PROVE  Safe(K, x, u, c)
<1> SUFFICES ASSUME NEW j \in K, c.jobs[j] # 0, x.jobs[j] <= u PROVE x.jobs[j] <= c.jobs[j]
  BY DEF Safe
<1>1. c.jobs[j] \in Nat /\ ~(k + 1 <= u)
  BY DEF Stamped, Stamps
<1> QED BY <1>1 DEF Touched, Safe

LEMMA FitLater ==
  ASSUME NEW K \in SUBSET Jobs, NEW s, NEW k \in Nat, NEW w, NEW v, Stamped(s), Fit(K, s, k, w),
         \A d \in Devices, j \in K : v[d][j] \in {w[d][j], k + 1}
  PROVE  Fit(K, s, k + 1, v)
<1>1. \A j \in K : s.jobs[j] \in Nat /\ s.deleted[j] \in Nat
  BY DEF Stamped, Stamps
<1>2. Past(K, s, k + 1)
  BY <1>1 DEF Past, Fit
<1>3. Apart(K, s, v)
  BY <1>1 DEF Apart, Past, Fit
<1> QED BY <1>2, <1>3 DEF Fit

-----------------------------------------------------------------------------
(* What each device knows of the other, until a deletion is undone *)

AtAsker == {Here, HereSaved}
AtOther == {There, ThereSaved}

Clocks ==
  /\ \A s \in AtAsker \cup AtOther : s.lastSynced <= clock
  /\ \A d \in Devices, j \in Jobs : meant[d][j] <= clock
  /\ Mine.step # "none" => Mine.since = Here.lastSynced /\ Mine.now <= clock

AllFit(K) == \A s \in AtAsker \cup AtOther : Fit(K, s, clock, meant)

\* What is older than the asker's last cycle is on the other's disk; what is older than the
\* other's, the asker has -- unless an answer is outstanding, which the counters show.
Told(K)   == \A s \in AtAsker, r \in AtOther : Has(K, r, s, s.lastSynced)
InStep(K) == \A s \in AtAsker, r \in AtOther : s.outSeq = r.accSeq => Has(K, s, r, r.lastSynced)

\* A request is safe wherever it is accepted; a live one says what the other lacks; and
\* the asker has what it says, unless it has forgotten it in a crash.
RequestFits(K, m) ==
  /\ Fit(K, m.changed, clock, meant)
  /\ \A r \in AtOther : m.seq > r.accSeq => Safe(K, r, r.lastSynced, m.changed)
  /\ m.live => \A r \in AtOther : Covers(K, r, m.changed, Here, Mine.now)
  /\ m.live \/ crashes = 0 => Has(K, Here, m.changed, clock)

\* An exchange merges c into what the other has.
MergesWith(K, e, c) ==
  /\ c \in Payloads /\ Fit(K, c, clock, meant)
  /\ \E s \in States : SameOn(K, s, There) /\ e.patch = Merged(s, There.lastSynced, c)
  /\ Safe(K, There, There.lastSynced, c)
  /\ e.live => Covers(K, There, c, Here, Mine.now) /\ Covers(K, Here, e.reply, There, clock)
  /\ e.live \/ crashes = 0 => Has(K, Here, c, clock)

ExchangeFits(K, e) ==
  /\ Fit(K, e.reply, clock, meant)
  /\ e.step = "merging" => \E c : MergesWith(K, e, c)
  /\ e.step = "saving" /\ e.live =>
       /\ Has(K, There, Here, Mine.now) /\ Covers(K, Here, e.reply, There, There.lastSynced)
       /\ Mine.now <= There.lastSynced
  /\ e.live => Has(K, There, e.reply, clock) /\ Safe(K, Here, Here.lastSynced, e.reply)

\* The answer that has reached the asker says what the asker lacks, and the other has
\* all that the asker will take for told.
Heard(K) ==
  Mine.step \in {"answered", "merging"} =>
    /\ Fit(K, Mine.theirs, clock, meant) /\ Safe(K, Here, Mine.since, Mine.theirs)
    /\ \A r \in AtOther : /\ Has(K, r, Here, Mine.now) /\ Has(K, r, Mine.theirs, clock)
                          /\ Covers(K, Here, Mine.theirs, r, r.lastSynced)
                          /\ Mine.now <= r.lastSynced
    /\ Mine.step = "merging" =>
         \E s \in States : SameOn(K, s, Here) /\ Mine.patch = Merged(s, Mine.since, Mine.theirs)

Requested(K) == \A m \in wire : RequestFits(K, m)
Replied(K)   == \A e \in exchanges : ExchangeFits(K, e)

Synced(K) == report[Asker] = "synced" /\ crashes = 0 => Has(K, Here, There, Here.lastSynced)

Wished(K) ==
  crashes = 0 => \A d \in Devices, j \in K :
    state[d].jobs[j] >= meant[d][j] \/ state[d].deleted[j] > meant[d][j]

Knowledge(K) ==
  /\ Clocks /\ AllFit(K) /\ Told(K) /\ InStep(K)
  /\ Requested(K) /\ Replied(K) /\ Heard(K) /\ Synced(K) /\ Wished(K)

LEMMA Shapes ==
  ASSUME SyncAssumption, OneAsker, Lived
  PROVE  /\ clock \in Nat /\ Mine.now \in Nat /\ Mine.since \in Nat /\ Mine.seq \in Nat
         /\ Mine.theirSeq \in Nat /\ Mine.theirs \in Payloads
         /\ Stamped(Here) /\ Stamped(There) /\ Stamped(HereSaved) /\ Stamped(ThereSaved)
         /\ Stamped(Mine.theirs)
         /\ Here.lastSynced \in Nat /\ There.lastSynced \in Nat
         /\ HereSaved.lastSynced \in Nat /\ ThereSaved.lastSynced \in Nat
         /\ \A m \in wire : m.changed \in Payloads /\ Stamped(m.changed)
         /\ \A e \in exchanges : /\ e.reply \in Payloads /\ Stamped(e.reply)
                                 /\ e.seq \in Nat /\ e.replySeq \in Nat
         /\ \A d \in Devices, j \in Jobs : meant[d][j] \in Nat
<1>1. clock \in Nat /\ \A d \in Devices, j \in Jobs : meant[d][j] \in Nat
  BY DEF Lived, SyncTypes, StateTypes, Stamps
<1>2. /\ Mine.now \in Nat /\ Mine.since \in Nat /\ Mine.seq \in Nat /\ Mine.theirSeq \in Nat
      /\ Mine.theirs \in Payloads
  BY Values DEF Asks
<1>3. /\ Stamped(Here) /\ Stamped(There) /\ Stamped(HereSaved) /\ Stamped(ThereSaved)
      /\ Here.lastSynced \in Nat /\ There.lastSynced \in Nat
      /\ HereSaved.lastSynced \in Nat /\ ThereSaved.lastSynced \in Nat
  BY Values DEF States, Stamped
<1>4. \A m \in wire : m.changed \in Payloads
  BY Values DEF Requests
<1>5. \A e \in exchanges : e.reply \in Payloads /\ e.seq \in Nat /\ e.replySeq \in Nat
  BY Values DEF Exchanges
<1>6. \A c \in Payloads : Stamped(c)
  BY DEF Payloads, Stamped
<1> QED BY <1>1, <1>2, <1>3, <1>4, <1>5, <1>6

LEMMA NextShapes ==
  ASSUME SyncAssumption, OneAsker, Lived' PROVE Stamped(Here') /\ Stamped(There')
BY TwoDevices DEF Lived, SyncTypes, StateTypes, States, Stamped, Here, There

LEMMA InitKnows == ASSUME NEW K \in SUBSET Jobs, SyncAssumption, OneAsker, Init PROVE Knowledge(K)
<1>1. /\ Here = Fresh /\ There = Fresh /\ HereSaved = Fresh /\ ThereSaved = Fresh
      /\ Mine = NoAsk /\ wire = {} /\ exchanges = {} /\ clock = 0 /\ report[Asker] = "none"
      /\ state = [d \in Devices |-> Fresh] /\ meant = [d \in Devices |-> Nobody]
  BY TwoDevices DEF Init, Here, There, HereSaved, ThereSaved, Mine
<1>2. Fresh.lastSynced = 0 /\ \A j \in Jobs : Fresh.jobs[j] = 0 /\ Fresh.deleted[j] = 0
  BY DEF Fresh, Nobody
<1>3. Has(K, Fresh, Fresh, 0) /\ Fit(K, Fresh, 0, meant)
  BY <1>2 DEF Has, Covers, Knows, KnowsGone, Fit, Alive, Past, Apart
<1>4. Clocks /\ Heard(K)
  BY <1>1, <1>2, NoAskStep DEF Clocks, Heard, AtAsker, AtOther, Nobody
<1>5. AllFit(K) /\ Told(K) /\ InStep(K)
  BY <1>1, <1>2, <1>3 DEF AllFit, Told, InStep, AtAsker, AtOther
<1>6. Requested(K) /\ Replied(K) /\ Synced(K)
  BY <1>1 DEF Requested, Replied, Synced
<1>7. Wished(K)
  BY <1>1, <1>2 DEF Wished, Nobody
<1> QED BY <1>4, <1>5, <1>6, <1>7 DEF Knowledge

\* Nobody forgets anything but in a crash.
Grows(K) == Above(K, Here, Here') /\ Above(K, There, There')

LEMMA AskBeginsKnows ==
  ASSUME NEW K \in SUBSET Jobs, SyncAssumption, OneAsker, Lived, Lived', Talk, Knowledge(K),
         NEW d \in Devices, AskBegins(d)
  PROVE  Knowledge(K)' /\ Grows(K)
<1> USE DEF Talk, Knowledge
<1>1. /\ UNCHANGED <<stateVars, report, exchanges, budgets>>
      /\ Mine.step = "none" /\ Mine'.step = "sent" /\ Mine'.now = clock
      /\ Mine'.since = Here.lastSynced /\ Mine'.seq = Here.outSeq + 1
  BY AskBeginsTalks
<1>2. PICK m : /\ wire' = wire \cup {m} /\ m.seq = Here.outSeq + 1 /\ m.live
               /\ m.changed = Changed(Here, Here.lastSynced)
  BY AskBeginsTalks
<1>3. UNCHANGED <<Here, There, HereSaved, ThereSaved, AtAsker, AtOther, clock, meant, crashes>>
  BY <1>1 DEF stateVars, budgets, Here, There, HereSaved, ThereSaved, AtAsker, AtOther
<1>4. /\ Stamped(Here) /\ Here.lastSynced \in Nat /\ clock \in Nat
      /\ \A r \in AtOther : Stamped(r)
  BY Shapes DEF AtOther
<1>5. Fit(K, Here, clock, meant)
  BY DEF AllFit, AtAsker
<1>6. RequestFits(K, m)'
  <2>1. Fit(K, m.changed, clock, meant)
    BY <1>2, <1>4, <1>5, ChangedFit
  <2>2. ASSUME NEW r \in AtOther, m.seq > r.accSeq PROVE Safe(K, r, r.lastSynced, m.changed)
    <3>1. Here.outSeq = r.accSeq
      BY <1>2, <2>2, Counters DEF Numbers, AtOther
    <3>2. Has(K, Here, r, r.lastSynced)
      BY <3>1 DEF InStep, AtAsker
    <3> QED BY <1>2, <1>4, <1>5, <3>2, ChangedSafe DEF Fit
  <2>3. ASSUME NEW r \in AtOther PROVE Covers(K, r, m.changed, Here, clock)
    <3>1. Has(K, r, Here, Here.lastSynced)
      BY DEF Told, AtAsker
    <3> QED BY <1>2, <1>4, <3>1, ChangedCovers
  <2>4. Has(K, Here, m.changed, clock)
    BY <1>2, <1>4, HasChanged
  <2> QED BY <1>1, <1>3, <2>1, <2>2, <2>3, <2>4 DEF RequestFits
<1>7. ASSUME NEW n \in wire PROVE RequestFits(K, n)'
  <2>1. ~n.live
    BY <1>1 DEF Lives
  <2> QED BY <1>3, <2>1 DEF RequestFits, Requested
<1>8. Requested(K)'
  BY <1>2, <1>6, <1>7 DEF Requested
<1>9. Replied(K)'
  <2> SUFFICES ASSUME NEW e \in exchanges PROVE ExchangeFits(K, e)'
    BY <1>1 DEF Replied
  <2>1. ~e.live
    BY <1>1 DEF Lives
  <2>2. e.step = "merging" => \E c : MergesWith(K, e, c)'
    BY <1>3, <2>1 DEF MergesWith, ExchangeFits, Replied
  <2> QED BY <1>3, <2>1, <2>2 DEF ExchangeFits, Replied
<1>10. Clocks' /\ AllFit(K)' /\ Told(K)' /\ InStep(K)' /\ Heard(K)'
  BY <1>1, <1>3, <1>4 DEF Clocks, AllFit, Told, InStep, Heard
<1>11. Synced(K)' /\ Wished(K)'
  BY <1>1, <1>3 DEF Synced, Wished, stateVars
<1>12. Grows(K)
  BY <1>3, AboveItself DEF Grows
<1> QED BY <1>8, <1>9, <1>10, <1>11, <1>12

\* Nothing changes for a request, or an exchange, that nobody waits for.
LEMMA StillRequested ==
  ASSUME NEW K \in SUBSET Jobs, UNCHANGED <<Here, AtOther, clock, meant, crashes>>, NEW m, NEW n,
         RequestFits(K, n), ~m.live, m.seq = n.seq, m.changed = n.changed
  PROVE  RequestFits(K, m)'
BY DEF RequestFits

LEMMA StillReplied ==
  ASSUME NEW K \in SUBSET Jobs, UNCHANGED <<Here, There, clock, meant, crashes>>, NEW e, NEW f,
         ExchangeFits(K, f), ~e.live, e.step = f.step, e.patch = f.patch, e.reply = f.reply
  PROVE  ExchangeFits(K, e)'
<1>1. ASSUME e.step = "merging" PROVE \E c : MergesWith(K, e, c)'
  <2>1. PICK c : MergesWith(K, f, c)
    BY <1>1 DEF ExchangeFits
  <2>2. MergesWith(K, e, c)'
    BY <2>1 DEF MergesWith
  <2> QED BY <2>2
<1> QED BY <1>1 DEF ExchangeFits

LEMMA GivesUpKnows ==
  ASSUME NEW K \in SUBSET Jobs, SyncAssumption, OneAsker, Lived, Lived', Talk, Knowledge(K),
         NEW d \in Devices, GivesUp(d)
  PROVE  Knowledge(K)' /\ Grows(K)
<1> USE DEF Talk, Knowledge
<1>1. /\ UNCHANGED <<stateVars, crashes, undos>> /\ report'[Asker] = "failed"
      /\ wire' = Forsaken(wire, Asker) /\ exchanges' = Abandoned(Asker) /\ Mine'.step = "none"
  BY GivesUpTalks
<1>2. UNCHANGED <<Here, There, HereSaved, ThereSaved, AtAsker, AtOther, clock, meant, crashes>>
  BY <1>1 DEF stateVars, Here, There, HereSaved, ThereSaved, AtAsker, AtOther
<1>3. Requested(K)'
  BY <1>1, <1>2, ForsakenFits, StillRequested DEF Requested
<1>4. Replied(K)'
  BY <1>1, <1>2, AbandonedFits, StillReplied DEF Replied
<1>5. Clocks' /\ AllFit(K)' /\ Told(K)' /\ InStep(K)' /\ Heard(K)' /\ Synced(K)'
  BY <1>1, <1>2 DEF Clocks, AllFit, Told, InStep, Heard, Synced
<1>6. Wished(K)'
  BY <1>1, <1>2 DEF Wished, stateVars
<1> QED BY <1>2, <1>3, <1>4, <1>5, <1>6, AboveItself DEF Grows

LEMMA HearsReplyKnows ==
  ASSUME NEW K \in SUBSET Jobs, SyncAssumption, OneAsker, Lived, Lived', Talk, Talk',
         Knowledge(K), NEW d \in Devices,
         HearsReply(d)
  PROVE  Knowledge(K)' /\ Grows(K)
<1> USE DEF Knowledge
<1>1. /\ UNCHANGED <<stateVars, wire, exchanges, budgets>> /\ Mine.step = "answered"
      /\ \/ /\ Mine'.step = "merging" /\ report' = report
            /\ Mine' = [Mine EXCEPT !.step = "merging",
                                    !.patch = Merged(Here, Mine.since, Mine.theirs)]
         \/ Mine'.step = "none" /\ report'[Asker] = "failed"
  BY HearsReplyTalks
<1>2. UNCHANGED <<Here, There, HereSaved, ThereSaved, AtAsker, AtOther, clock, meant, crashes>>
  BY <1>1 DEF stateVars, budgets, Here, There, HereSaved, ThereSaved, AtAsker, AtOther
<1>3. (\A m \in wire : ~m.live) /\ exchanges = {}
  BY <1>1 DEF Talk, Lives, Numbers
<1>4. Requested(K)'
  BY <1>1, <1>2, <1>3, StillRequested DEF Requested
<1>5. Replied(K)'
  BY <1>1, <1>3 DEF Replied
<1>6. Heard(K)' /\ Clocks'
  <2>1. CASE Mine'.step = "none"
    BY <1>2, <2>1 DEF Heard, Clocks
  <2>2. CASE Mine' = [Mine EXCEPT !.step = "merging",
                                  !.patch = Merged(Here, Mine.since, Mine.theirs)]
    <3>1. /\ Mine'.step = "merging" /\ Mine'.theirs = Mine.theirs /\ Mine'.now = Mine.now
          /\ Mine'.since = Mine.since /\ Mine'.patch = Merged(Here, Mine.since, Mine.theirs)
      BY <2>2, Values DEF Asks
    <3>2. Here \in States /\ SameOn(K, Here, Here)
      BY Values DEF SameOn
    <3> QED BY <1>1, <1>2, <3>1, <3>2 DEF Heard, Clocks
  <2> QED BY <1>1, <2>1, <2>2
<1>7. AllFit(K)' /\ Told(K)' /\ InStep(K)' /\ Synced(K)'
  BY <1>1, <1>2 DEF AllFit, Told, InStep, Synced
<1>8. Wished(K)'
  BY <1>1, <1>2 DEF Wished, stateVars
<1> QED BY <1>2, <1>4, <1>5, <1>6, <1>7, <1>8, AboveItself DEF Grows

LEMMA AskEndsKnows ==
  ASSUME NEW K \in SUBSET Jobs, SyncAssumption, OneAsker, Lived, Lived', Talk, Knowledge(K),
         NEW d \in Devices, AskEnds(d)
  PROVE  Knowledge(K)' /\ Grows(K)
<1> USE DEF Talk, Knowledge
<1>1. /\ UNCHANGED <<clock, disk, undoStack, meant, wire, exchanges, budgets>>
      /\ Mine.step = "merging" /\ Mine'.step = "none" /\ There' = There
      /\ Here' = Applied(Here, Mine.patch, Mine.now, Mine.seq, Mine.theirSeq)
      /\ Here'.outSeq = Mine.seq /\ Here'.lastSynced = Mine.now
  BY AskEndsTalks
<1>2. UNCHANGED <<HereSaved, ThereSaved, AtOther, There, clock, meant, crashes>>
  BY <1>1 DEF budgets, HereSaved, ThereSaved, AtOther
<1>3. /\ Stamped(Here) /\ Stamped(Here') /\ Stamped(Mine.theirs) /\ clock \in Nat
      /\ Mine.now \in Nat /\ Mine.now <= clock /\ Mine.since \in Nat /\ Here \in States
      /\ Mine.theirs \in Payloads
      /\ \A r \in AtOther : Stamped(r) /\ r.lastSynced \in Nat /\ r.lastSynced <= clock
  <2>1. Stamped(Here')
    BY NextShapes
  <2> QED BY <1>1, <2>1, Shapes, Values DEF Clocks, AtOther, AtAsker
<1>4. /\ Fit(K, Mine.theirs, clock, meant) /\ Safe(K, Here, Mine.since, Mine.theirs)
      /\ \A r \in AtOther : /\ Has(K, r, Here, Mine.now) /\ Has(K, r, Mine.theirs, clock)
                            /\ Covers(K, Here, Mine.theirs, r, r.lastSynced)
                            /\ Mine.now <= r.lastSynced
      /\ \E s \in States : SameOn(K, s, Here) /\ Mine.patch = Merged(s, Mine.since, Mine.theirs)
      /\ Fit(K, Here, clock, meant)
  BY <1>1 DEF Heard, AllFit, AtAsker
<1> DEFINE c == Mine.theirs
           x == Here'
<1>5. Joined(K, Here, c, x)
  <2> DEFINE h == Here  since == Mine.since  at == Mine.now  o == Mine.seq  a == Mine.theirSeq
  <2>0. PICK s \in States : SameOn(K, s, h) /\ Mine.patch = Merged(s, since, c)
    BY <1>4
  <2>1. /\ h \in States /\ since \in Nat /\ c \in Payloads
        /\ Alive(K, s) /\ Safe(K, s, since, c)
    BY <1>3, <1>4, <2>0 DEF Fit, SameOn, Alive, Safe
  <2>2. x = Applied(h, Merged(s, since, c), at, o, a)
    BY <1>1, <2>0
  <2> HIDE DEF h, since, at, o, a, c, x
  <2>3. Joined(K, h, c, x)
    BY <2>0, <2>1, <2>2, MergeJoins
  <2> QED BY <2>3 DEF h
<1>6. Above(K, Here, x) /\ Above(K, c, x) /\ Fit(K, x, clock, meant)
  BY <1>3, <1>4, <1>5, JoinedAbove, JoinedFit
<1>7. AllFit(K)'
  BY <1>2, <1>6 DEF AllFit, AtAsker, AtOther
<1>8. Told(K)'
  <2>1. ASSUME NEW r \in AtOther PROVE Has(K, r, x, Mine.now)
    <3>1. Covers(K, r, r, Here, Mine.now) /\ Covers(K, r, r, c, Mine.now)
      BY <1>3, <1>4, CoversLess DEF Has
    <3> QED BY <1>3, <1>5, <3>1, JoinedCovers DEF Has
  <2> QED BY <1>1, <1>2, <2>1 DEF Told, AtAsker
<1>9. InStep(K)'
  <2>1. ASSUME NEW r \in AtOther PROVE Has(K, x, r, r.lastSynced)
    BY <1>3, <1>4, <1>6, CoversJoin
  <2> QED BY <1>2, <2>1 DEF InStep, AtAsker
<1>10. Requested(K)'
  <2> SUFFICES ASSUME NEW m \in wire PROVE RequestFits(K, m)'
    BY <1>1 DEF Requested
  <2>1. ~m.live /\ RequestFits(K, m) /\ Stamped(m.changed)
    BY <1>1, Shapes DEF Lives, Requested
  <2>2. Has(K, Here, m.changed, clock) => Has(K, x, m.changed, clock)
    BY <1>6, <2>1, CoversAbove DEF Has
  <2> QED BY <1>2, <2>1, <2>2 DEF RequestFits
<1>11. Replied(K)'
  BY <1>1 DEF Replied, Numbers
<1>12. Clocks' /\ Heard(K)'
  BY <1>1, <1>2, <1>3 DEF Clocks, Heard, AtAsker
<1>13. Synced(K)'
  <2>1. There \in AtOther
    BY DEF AtOther
  <2>2. Has(K, x, There, There.lastSynced)
    BY <1>3, <1>4, <1>6, <2>1, CoversJoin
  <2>3. Has(K, x, There, Mine.now)
    BY <1>3, <1>4, <2>1, <2>2, CoversLess DEF Has
  <2> QED BY <1>1, <2>3 DEF Synced
<1>14. Wished(K)'
  <2> SUFFICES ASSUME crashes = 0, NEW p \in Devices, NEW j \in K
               PROVE  state'[p].jobs[j] >= meant[p][j] \/ state'[p].deleted[j] > meant[p][j]
    BY <1>2 DEF Wished
  <2>1. state[p].jobs[j] >= meant[p][j] \/ state[p].deleted[j] > meant[p][j]
    BY DEF Wished
  <2>2. CASE p = Other
    BY <1>1, <2>1, <2>2 DEF There
  <2>3. CASE p = Asker
    <3>1. meant[p][j] \in Nat /\ Apart(K, Here, meant) /\ Apart(K, c, meant)
      BY <1>4, Shapes DEF Fit
    <3> QED BY <1>3, <1>5, <2>1, <2>3, <3>1, JoinedWished DEF Here
  <2> QED BY <2>2, <2>3, TwoDevices
<1>15. Grows(K)
  BY <1>1, <1>6, AboveItself DEF Grows
<1> QED BY <1>7, <1>8, <1>9, <1>10, <1>11, <1>12, <1>13, <1>14, <1>15

LEMMA AcceptsKnows ==
  ASSUME NEW K \in SUBSET Jobs, SyncAssumption, OneAsker, Lived, Lived', Talk, Talk',
         Knowledge(K), NEW m \in wire,
         Accepts(m)
  PROVE  Knowledge(K)' /\ Grows(K)
<1> USE DEF Knowledge
<1>1. /\ UNCHANGED <<clock, disk, undoStack, meant, Here, budgets>> /\ wire' = wire \ {m}
  BY AcceptsTalks
<1>2. UNCHANGED <<HereSaved, ThereSaved, AtAsker, clock, meant, crashes>>
  BY <1>1 DEF budgets, HereSaved, ThereSaved, AtAsker
<1>3. CASE /\ UNCHANGED <<state, exchanges>>
           /\ UNCHANGED <<ask, report>> \/ (Mine'.step = "none" /\ report'[Asker] = "failed")
  <2>1. There' = There /\ AtOther' = AtOther
    BY <1>2, <1>3 DEF There, AtOther
  <2>2. UNCHANGED <<Mine, report>> \/ (Mine'.step = "none" /\ report'[Asker] = "failed")
    BY <1>3 DEF Mine
  <2>3. CASE UNCHANGED <<Mine, report>>
    <3>1. Requested(K)'
      BY <1>1, <1>2, <2>1, <2>3 DEF Requested, RequestFits
    <3>2. Replied(K)'
      <4> SUFFICES ASSUME NEW e \in exchanges PROVE ExchangeFits(K, e)'
        BY <1>3 DEF Replied
      <4>1. e.step = "merging" => \E c : MergesWith(K, e, c)'
        BY <1>1, <1>2, <2>1, <2>3 DEF MergesWith, ExchangeFits, Replied
      <4> QED BY <1>1, <1>2, <2>1, <2>3, <4>1 DEF ExchangeFits, Replied
    <3>3. Clocks' /\ AllFit(K)' /\ Told(K)' /\ InStep(K)' /\ Heard(K)' /\ Synced(K)'
      BY <1>1, <1>2, <2>1, <2>3 DEF Clocks, AllFit, Told, InStep, Heard, Synced
    <3> QED BY <1>1, <1>2, <1>3, <2>1, <3>1, <3>2, <3>3, AboveItself DEF Wished, Grows
  <2>4. CASE Mine'.step = "none" /\ report'[Asker] = "failed"
    <3>1. \A n \in wire' : n \in wire /\ ~n.live
      BY <1>1, <2>4 DEF Talk, Lives
    <3>2. \A e \in exchanges' : e \in exchanges /\ ~e.live
      BY <1>3, <2>4 DEF Talk, Lives
    <3>3. Requested(K)'
      BY <1>1, <1>2, <2>1, <3>1, StillRequested DEF Requested
    <3>4. Replied(K)'
      BY <1>1, <1>2, <2>1, <3>2, StillReplied DEF Replied
    <3>5. Clocks' /\ AllFit(K)' /\ Told(K)' /\ InStep(K)' /\ Heard(K)' /\ Synced(K)'
      BY <1>1, <1>2, <2>1, <2>4 DEF Clocks, AllFit, Told, InStep, Heard, Synced
    <3> QED BY <1>1, <1>2, <1>3, <2>1, <3>3, <3>4, <3>5, AboveItself DEF Wished, Grows
  <2> QED BY <2>2, <2>3, <2>4
<1>4. CASE /\ exchanges = {} /\ UNCHANGED <<ask, report>> /\ There' = Committed(There, m.seq)
           /\ Mine.step \in {"none", "sent"}
           /\ There.accSeq = ThereSaved.accSeq /\ m.seq = There.accSeq + 1 /\ There'.accSeq = m.seq
           /\ \E e : /\ exchanges' = {e} /\ e.live = m.live /\ e.seq = m.seq /\ e.step = "merging"
                     /\ e.patch = Merged(There, There.lastSynced, m.changed)
                     /\ e.reply = Changed(There, There.lastSynced)
  <2> DEFINE x == There'
  <2>1. PICK e : /\ exchanges' = {e} /\ e.live = m.live /\ e.seq = m.seq /\ e.step = "merging"
                 /\ e.patch = Merged(There, There.lastSynced, m.changed)
                 /\ e.reply = Changed(There, There.lastSynced)
    BY <1>4
  <2>2. /\ Stamped(There) /\ Stamped(Here) /\ There.lastSynced \in Nat /\ Here.lastSynced \in Nat
        /\ clock \in Nat /\ m.changed \in Payloads /\ m.seq \in Nat /\ There \in States
        /\ \A n \in wire : n.seq \in Nat
    BY Shapes, Values, Counters
  <2>3. x.jobs = There.jobs /\ x.deleted = There.deleted /\ x.lastSynced = There.lastSynced
    <3> DEFINE s == There  n == m.seq
    <3>1. s \in States /\ n \in Nat
      BY <2>2
    <3> HIDE DEF s, n
    <3>2. /\ Committed(s, n).jobs = s.jobs /\ Committed(s, n).deleted = s.deleted
          /\ Committed(s, n).lastSynced = s.lastSynced
      BY <3>1, CommittedType
    <3> QED BY <1>4, <3>2 DEF s, n
  <2>4. Mine' = Mine /\ report' = report
    BY <1>4 DEF Mine
  <2>5. There \in AtOther /\ Here \in AtAsker /\ AtOther' = {x, ThereSaved}
    BY <1>2 DEF AtOther, AtAsker
  <2>6. Fit(K, There, clock, meant) /\ RequestFits(K, m)
    BY <2>5 DEF AllFit, Requested
  <2> HIDE DEF x
  <2>7. /\ \A s, u : Has(K, x, s, u) <=> Has(K, There, s, u)
        /\ \A c, s, u : Covers(K, x, c, s, u) <=> Covers(K, There, c, s, u)
        /\ \A r, c, u : Covers(K, r, c, x, u) <=> Covers(K, r, c, There, u)
        /\ \A r, u : Has(K, r, x, u) <=> Has(K, r, There, u)
        /\ \A u, c : Safe(K, x, u, c) <=> Safe(K, There, u, c)
        /\ Fit(K, x, clock, meant) <=> Fit(K, There, clock, meant)
        /\ Above(K, There, x)
    BY <2>3 DEF Has, Covers, Knows, KnowsGone, Safe, Fit, Alive, Past, Apart, Above
  <2>9. MergesWith(K, e, m.changed)'
    <3>1. Safe(K, There, There.lastSynced, m.changed)
      BY <1>4, <2>2, <2>5, <2>6, Counters DEF RequestFits
    <3>2. ASSUME m.live PROVE Covers(K, Here, e.reply, There, clock)
      <4>1. Here.outSeq = There.accSeq
        BY <1>4, <2>2, <3>2, Counters DEF Talk, Lives, Numbers
      <4>2. Has(K, Here, There, There.lastSynced)
        BY <2>5, <4>1 DEF InStep
      <4> QED BY <2>1, <2>2, <4>2, ChangedCovers
    <3>3. m.live => Covers(K, There, m.changed, Here, Mine.now)
      BY <2>5, <2>6 DEF RequestFits
    <3>4. m.live \/ crashes = 0 => Has(K, Here, m.changed, clock)
      BY <2>6 DEF RequestFits
    <3>5. Fit(K, m.changed, clock, meant)
      BY <2>6 DEF RequestFits
    <3>6. /\ There \in States /\ SameOn(K, There, x)
          /\ e.patch = Merged(There, x.lastSynced, m.changed)
          /\ Safe(K, x, x.lastSynced, m.changed)
          /\ e.live => Covers(K, x, m.changed, Here, Mine.now) /\ Covers(K, Here, e.reply, x, clock)
          /\ e.live \/ crashes = 0 => Has(K, Here, m.changed, clock)
      BY <2>1, <2>2, <2>3, <2>7, <3>1, <3>2, <3>3, <3>4 DEF SameOn
    <3> QED BY <1>1, <1>2, <2>2, <2>4, <3>5, <3>6 DEF MergesWith, x
  <2>10. Replied(K)'
    <3>1. Fit(K, e.reply, clock, meant)
      BY <2>1, <2>2, <2>6, ChangedFit
    <3>2. Has(K, There, e.reply, clock)
      BY <2>1, <2>2, HasChanged
    <3>3. Safe(K, Here, Here.lastSynced, e.reply)
      <4>1. Has(K, There, Here, Here.lastSynced)
        BY <2>5 DEF Told
      <4> QED BY <2>1, <2>2, <2>6, <4>1, ChangedSafe DEF Fit
    <3>4. Has(K, x, e.reply, clock)
      BY <2>7, <3>2
    <3>5. ExchangeFits(K, e)'
      BY <1>1, <1>2, <2>1, <2>9, <3>1, <3>3, <3>4 DEF ExchangeFits, x
    <3> QED BY <2>1, <3>5 DEF Replied
  <2>11. Requested(K)'
    <3> SUFFICES ASSUME NEW n \in wire, n # m PROVE RequestFits(K, n)'
      BY <1>1 DEF Requested
    <3>1. RequestFits(K, n) /\ ~(n.seq > x.accSeq)
      <4>1. n.seq <= ThereSaved.accSeq + 1 /\ x.accSeq = m.seq
        BY <1>4 DEF Talk, Numbers, x
      <4> QED BY <1>4, <2>2, <4>1 DEF Requested
    <3>2. \A r \in {x, ThereSaved} : /\ n.seq > r.accSeq => Safe(K, r, r.lastSynced, n.changed)
                                     /\ n.live => Covers(K, r, n.changed, Here, Mine.now)
      BY <2>7, <3>1 DEF RequestFits, AtOther
    <3> QED BY <1>1, <1>2, <2>4, <2>5, <3>1, <3>2 DEF RequestFits
  <2>12. AllFit(K)' /\ Told(K)'
    BY <1>1, <1>2, <2>5, <2>6, <2>7 DEF AllFit, Told, AtOther
  <2>13. InStep(K)'
    <3>1. \A s \in AtAsker : s.outSeq # x.accSeq
      BY <1>4, <2>2, Counters DEF Talk, Numbers, AtAsker, x
    <3> QED BY <1>2, <2>5, <3>1 DEF InStep, AtOther
  <2>14. Clocks' /\ Heard(K)'
    BY <1>1, <1>2, <1>4, <2>3, <2>4, <2>5 DEF Clocks, Heard, AtOther
  <2>15. Synced(K)'
    BY <1>1, <1>2, <2>4, <2>7 DEF Synced, x
  <2>16. Wished(K)'
    <3> SUFFICES ASSUME crashes = 0, NEW p \in Devices, NEW j \in K
                 PROVE  state'[p].jobs[j] >= meant[p][j] \/ state'[p].deleted[j] > meant[p][j]
      BY <1>2 DEF Wished
    <3>1. state'[p].jobs = state[p].jobs /\ state'[p].deleted = state[p].deleted
      BY <1>1, <2>3, TwoDevices DEF Here, There, x
    <3> QED BY <3>1 DEF Wished
  <2> QED BY <1>1, <2>7, <2>10, <2>11, <2>12, <2>13, <2>14, <2>15, <2>16, AboveItself DEF Grows, x
<1> QED BY <1>3, <1>4, AcceptsTalks

LEMMA AppliesKnows ==
  ASSUME NEW K \in SUBSET Jobs, SyncAssumption, OneAsker, Lived, Lived', Talk, Knowledge(K),
         NEW e \in exchanges, Applies(e)
  PROVE  Knowledge(K)' /\ Grows(K)
<1> USE DEF Knowledge
<1>1. /\ UNCHANGED <<clock, disk, undoStack, meant, Here, ask, report, wire, budgets>>
      /\ e.step = "merging" /\ exchanges = {e}
      /\ exchanges' = {[e EXCEPT !.step = "saving"]}
      /\ There' = Applied(There, e.patch, clock, e.replySeq, e.seq)
      /\ There'.lastSynced = clock /\ There'.accSeq = There.accSeq
      /\ Mine.step \in {"none", "sent"}
  BY AppliesTalks
<1>2. UNCHANGED <<HereSaved, ThereSaved, Mine, AtAsker, clock, meant, crashes>>
  BY <1>1 DEF budgets, HereSaved, ThereSaved, AtAsker, Mine
<1> DEFINE x == There'
           f == [e EXCEPT !.step = "saving"]
<1>3. AtOther' = {x, ThereSaved} /\ There \in AtOther /\ Here \in AtAsker
  BY <1>2 DEF AtOther, AtAsker
<1>4. ExchangeFits(K, e)
  BY DEF Replied
<1>5. PICK c : MergesWith(K, e, c)
  BY <1>1, <1>4 DEF ExchangeFits
<1>6. /\ Stamped(Here) /\ Stamped(There) /\ Stamped(x) /\ Stamped(c) /\ Stamped(e.reply)
      /\ clock \in Nat /\ There \in States /\ c \in Payloads /\ There.lastSynced \in Nat
      /\ Here.lastSynced \in Nat /\ Here.lastSynced <= clock /\ Mine.now \in Nat
      /\ e.seq \in Nat
  <2>1. c \in Payloads /\ Stamped(c)
    BY <1>5 DEF MergesWith, Payloads, Stamped
  <2>2. Stamped(x)
    BY NextShapes
  <2>3. Here.lastSynced <= clock
    BY <1>3 DEF Clocks
  <2> QED BY <2>1, <2>2, <2>3, Shapes, Values
<1>7. /\ Fit(K, c, clock, meant) /\ Fit(K, There, clock, meant)
      /\ Safe(K, There, There.lastSynced, c)
      /\ \E s \in States : SameOn(K, s, There) /\ e.patch = Merged(s, There.lastSynced, c)
      /\ e.live => Covers(K, There, c, Here, Mine.now) /\ Covers(K, Here, e.reply, There, clock)
      /\ e.live \/ crashes = 0 => Has(K, Here, c, clock)
  BY <1>3, <1>5 DEF MergesWith, AllFit
<1>8. Joined(K, There, c, x)
  <2> DEFINE h == There  since == There.lastSynced  at == clock  o == e.replySeq  a == e.seq
  <2>0. PICK s \in States : SameOn(K, s, h) /\ e.patch = Merged(s, since, c)
    BY <1>7
  <2>1. /\ h \in States /\ since \in Nat /\ c \in Payloads
        /\ Alive(K, s) /\ Safe(K, s, since, c)
    BY <1>6, <1>7, <2>0 DEF Fit, SameOn, Alive, Safe
  <2>2. x = Applied(h, Merged(s, since, c), at, o, a)
    BY <1>1, <2>0
  <2> HIDE DEF h, since, at, o, a, x
  <2>3. Joined(K, h, c, x)
    BY <2>0, <2>1, <2>2, MergeJoins
  <2> QED BY <2>3 DEF h
<1>9. Above(K, There, x) /\ Above(K, c, x) /\ Fit(K, x, clock, meant)
  BY <1>6, <1>7, <1>8, JoinedAbove, JoinedFit
<1>10. /\ f.live = e.live /\ f.step = "saving" /\ f.reply = e.reply /\ exchanges' = {f}
  BY <1>1, Values DEF Exchanges
<1>11. x.lastSynced = clock /\ x.accSeq = There.accSeq
  BY <1>1
<1> HIDE DEF x, f
<1>12. AllFit(K)' /\ Clocks'
  BY <1>1, <1>2, <1>3, <1>6, <1>9, <1>11 DEF AllFit, Clocks, AtOther
<1>13. Told(K)'
  <2>1. ASSUME NEW s \in AtAsker PROVE Has(K, x, s, s.lastSynced)
    <3>1. Has(K, There, s, s.lastSynced) /\ Stamped(s)
      BY <1>3, Shapes DEF Told, AtAsker
    <3> QED BY <1>9, <3>1, CoversAbove DEF Has
  <2> QED BY <1>2, <1>3, <2>1 DEF Told, AtOther
<1>14. InStep(K)'
  <2>1. \A s \in AtAsker : s.outSeq # x.accSeq
    BY <1>6, <1>11, Counters DEF Talk, Numbers, AtAsker
  <2> QED BY <1>2, <1>3, <2>1 DEF InStep, AtOther
<1>15. Requested(K)'
  <2> SUFFICES ASSUME NEW n \in wire PROVE RequestFits(K, n)'
    BY <1>1 DEF Requested
  <2>1. RequestFits(K, n) /\ ~(n.seq > x.accSeq)
    <3>1. n.seq <= e.seq /\ e.seq = There.accSeq /\ n.seq \in Nat
      BY Counters DEF Talk, Numbers
    <3> QED BY <1>6, <1>11, <3>1 DEF Requested
  <2>2. n.live => Covers(K, x, n.changed, Here, Mine.now)
    BY <1>3, <1>6, <1>9, <2>1, AboveItself, CoversAbove DEF RequestFits
  <2>3. \A r \in {x, ThereSaved} : /\ n.seq > r.accSeq => Safe(K, r, r.lastSynced, n.changed)
                                   /\ n.live => Covers(K, r, n.changed, Here, Mine.now)
    BY <2>1, <2>2 DEF RequestFits, AtOther
  <2> QED BY <1>1, <1>2, <1>3, <2>1, <2>3 DEF RequestFits
<1>16. Replied(K)'
  <2>1. ASSUME e.live PROVE /\ Has(K, x, Here, Mine.now) /\ Covers(K, Here, e.reply, x, clock)
                            /\ Mine.now <= clock
    <3>1. Has(K, x, Here, Mine.now)
      BY <1>6, <1>7, <1>9, <2>1, CoversJoin
    <3>2. Covers(K, Here, e.reply, c, clock)
      BY <1>7, <2>1, HasCovers
    <3>3. Covers(K, Here, e.reply, x, clock)
      BY <1>6, <1>7, <1>8, <2>1, <3>2, JoinedCovers
    <3>4. Mine.now <= clock
      BY <2>1 DEF Talk, Lives, Clocks
    <3> QED BY <3>1, <3>3, <3>4
  <2>2. e.live => Has(K, x, e.reply, clock) /\ Safe(K, Here, Here.lastSynced, e.reply)
    <3>1. e.live => Has(K, There, e.reply, clock) /\ Safe(K, Here, Here.lastSynced, e.reply)
      BY <1>4 DEF ExchangeFits
    <3> QED BY <1>6, <1>9, <3>1, CoversAbove DEF Has
  <2>3. Fit(K, e.reply, clock, meant)
    BY <1>4 DEF ExchangeFits
  <2>4. ExchangeFits(K, f)'
    BY <1>1, <1>2, <1>10, <1>11, <2>1, <2>2, <2>3 DEF ExchangeFits, x, f
  <2> QED BY <1>10, <2>4 DEF Replied, f
<1>17. Heard(K)'
  BY <1>1, <1>2 DEF Heard
<1>18. Synced(K)'
  <2>1. ASSUME report[Asker] = "synced", crashes = 0 PROVE Has(K, Here, x, Here.lastSynced)
    <3>1. Has(K, Here, There, Here.lastSynced)
      BY <2>1 DEF Synced
    <3>2. Has(K, Here, c, Here.lastSynced)
      BY <1>6, <1>7, <2>1, CoversLess DEF Has
    <3> QED BY <1>6, <1>8, <3>1, <3>2, JoinedCovers DEF Has
  <2> QED BY <1>1, <1>2, <2>1 DEF Synced, x
<1>19. Wished(K)'
  <2> SUFFICES ASSUME crashes = 0, NEW p \in Devices, NEW j \in K
               PROVE  state'[p].jobs[j] >= meant[p][j] \/ state'[p].deleted[j] > meant[p][j]
    BY <1>2 DEF Wished
  <2>1. state[p].jobs[j] >= meant[p][j] \/ state[p].deleted[j] > meant[p][j]
    BY DEF Wished
  <2>2. CASE p = Asker
    BY <1>1, <2>1, <2>2 DEF Here
  <2>3. CASE p = Other
    <3>1. meant[p][j] \in Nat /\ Apart(K, There, meant) /\ Apart(K, c, meant)
      BY <1>7, Shapes DEF Fit
    <3>2. state[p] = There /\ state'[p] = x
      BY <2>3 DEF There, x
    <3> QED BY <1>6, <1>8, <2>1, <3>1, <3>2, JoinedWished
  <2> QED BY <2>2, <2>3, TwoDevices
<1>20. Grows(K)
  BY <1>1, <1>9, AboveItself DEF Grows, x
<1> QED BY <1>12, <1>13, <1>14, <1>15, <1>16, <1>17, <1>18, <1>19, <1>20

\* The reply goes out only when what it rests on is on the other's disk.
LEMMA AcknowledgesKnows ==
  ASSUME NEW K \in SUBSET Jobs, SyncAssumption, OneAsker, Lived, Lived', Talk, Knowledge(K),
         NEW e \in exchanges,
         Acknowledges(e)
  PROVE  Knowledge(K)' /\ Grows(K)
<1> USE DEF Knowledge
<1>1. /\ UNCHANGED <<clock, state, undoStack, meant, HereSaved, report, wire, budgets>>
      /\ ThereSaved' = There
      /\ e.step = "saving" /\ exchanges = {e} /\ exchanges' = {}
      /\ \/ /\ e.live /\ Mine.step = "sent" /\ Mine'.step = "answered"
            /\ Mine' = [Mine EXCEPT !.step = "answered", !.theirs = e.reply,
                                    !.theirSeq = e.replySeq]
         \/ ~e.live /\ Mine' = Mine /\ Mine.step \in {"none", "sent"}
  BY AcknowledgesTalks
<1>2. UNCHANGED <<Here, There, HereSaved, AtAsker, clock, meant, crashes>>
  BY <1>1 DEF budgets, Here, There, AtAsker
<1>3. AtOther' = {There} /\ There \in AtOther /\ Here \in AtAsker
  BY <1>1, <1>2 DEF AtOther, AtAsker
<1>4. ExchangeFits(K, e)
  BY DEF Replied
<1>5. AllFit(K)' /\ Told(K)' /\ InStep(K)'
  BY <1>1, <1>2, <1>3 DEF AllFit, Told, InStep
<1>6. /\ Mine'.now = Mine.now /\ Mine'.since = Mine.since
      /\ Mine'.step # "none" => Mine.step # "none"
  BY <1>1, Values DEF Asks
<1>7. Clocks' /\ Replied(K)' /\ Synced(K)' /\ Wished(K)'
  BY <1>1, <1>2, <1>3, <1>6 DEF Clocks, Replied, Synced, Wished
<1>8. Requested(K)'
  <2> SUFFICES ASSUME NEW n \in wire PROVE RequestFits(K, n)'
    BY <1>1 DEF Requested
  <2>1. RequestFits(K, n)
    BY DEF Requested
  <2> QED BY <1>2, <1>3, <1>6, <2>1 DEF RequestFits
<1>9. Heard(K)'
  <2>1. CASE e.live
    <3>1. /\ Mine'.step = "answered" /\ Mine'.theirs = e.reply
      BY <1>1, <2>1, Values DEF Asks
    <3>2. Mine.since = Here.lastSynced
      BY <1>1, <2>1 DEF Clocks
    <3>3. /\ Fit(K, e.reply, clock, meant) /\ Safe(K, Here, Mine.since, e.reply)
          /\ Has(K, There, Here, Mine.now) /\ Has(K, There, e.reply, clock)
          /\ Covers(K, Here, e.reply, There, There.lastSynced) /\ Mine.now <= There.lastSynced
      BY <1>1, <1>4, <2>1, <3>2 DEF ExchangeFits
    <3> QED BY <1>2, <1>3, <1>6, <3>1, <3>3 DEF Heard
  <2>2. CASE ~e.live
    BY <1>1, <2>2 DEF Heard
  <2> QED BY <2>1, <2>2
<1> QED BY <1>2, <1>5, <1>7, <1>8, <1>9, AboveItself DEF Grows

LEMMA SaveFailsKnows ==
  ASSUME NEW K \in SUBSET Jobs, SyncAssumption, OneAsker, Lived, Lived', Talk, Talk',
         Knowledge(K), NEW e \in exchanges,
         SaveFails(e)
  PROVE  Knowledge(K)' /\ Grows(K)
<1> USE DEF Knowledge
<1>1. /\ UNCHANGED <<stateVars, wire, crashes, undos>> /\ exchanges' = {}
      /\ UNCHANGED <<ask, report>> \/ (Mine'.step = "none" /\ report'[Asker] = "failed")
  BY SaveFailsTalks
<1>2. UNCHANGED <<Here, There, HereSaved, ThereSaved, AtAsker, AtOther, clock, meant, crashes>>
  BY <1>1 DEF stateVars, Here, There, HereSaved, ThereSaved, AtAsker, AtOther
<1>3. UNCHANGED <<Mine, report>> \/ (Mine'.step = "none" /\ report'[Asker] = "failed")
  BY <1>1 DEF Mine
<1>4. Requested(K)'
  <2>1. CASE UNCHANGED <<Mine, report>>
    BY <1>1, <1>2, <2>1 DEF Requested, RequestFits
  <2>2. CASE Mine'.step = "none"
    <3>1. \A n \in wire : ~n.live
      BY <1>1, <2>2 DEF Talk, Lives
    <3> QED BY <1>1, <1>2, <3>1, StillRequested DEF Requested
  <2> QED BY <1>3, <2>1, <2>2
<1>5. Clocks' /\ AllFit(K)' /\ Told(K)' /\ InStep(K)' /\ Heard(K)' /\ Synced(K)' /\ Replied(K)'
  BY <1>1, <1>2, <1>3 DEF Clocks, AllFit, Told, InStep, Heard, Synced, Replied
<1>6. Wished(K)'
  BY <1>1, <1>2 DEF Wished, stateVars
<1> QED BY <1>2, <1>4, <1>5, <1>6, AboveItself DEF Grows

LEMMA NetworkKnows ==
  ASSUME NEW K \in SUBSET Jobs, SyncAssumption, OneAsker, Lived, Lived', Talk, Knowledge(K),
         NEW m \in wire,
         Drops(m) \/ Copies(m)
  PROVE  Knowledge(K)' /\ Grows(K)
<1> USE DEF Knowledge
<1>1. /\ UNCHANGED <<stateVars, ask, report, exchanges, crashes, undos>>
      /\ \A n \in wire' :
           n \in wire \/ (~n.live /\ \E k \in wire : n.seq = k.seq /\ n.changed = k.changed)
  BY NetworkTalks
<1>2. /\ UNCHANGED <<Here, There, HereSaved, ThereSaved, AtAsker, AtOther, Mine>>
      /\ UNCHANGED <<clock, meant, crashes>>
  BY <1>1 DEF stateVars, Here, There, HereSaved, ThereSaved, AtAsker, AtOther, Mine
<1>3. Requested(K)'
  <2> SUFFICES ASSUME NEW n \in wire' PROVE RequestFits(K, n)'
    BY DEF Requested
  <2>1. CASE n \in wire
    BY <1>2, <2>1 DEF Requested, RequestFits
  <2>2. CASE ~n.live /\ \E k \in wire : n.seq = k.seq /\ n.changed = k.changed
    BY <1>2, <2>2, StillRequested DEF Requested
  <2> QED BY <1>1, <2>1, <2>2
<1>4. Replied(K)'
  <2> SUFFICES ASSUME NEW e \in exchanges PROVE ExchangeFits(K, e)'
    BY <1>1 DEF Replied
  <2>1. e.step = "merging" => \E c : MergesWith(K, e, c)'
    BY <1>2 DEF MergesWith, ExchangeFits, Replied
  <2> QED BY <1>2, <2>1 DEF ExchangeFits, Replied
<1>5. Clocks' /\ AllFit(K)' /\ Told(K)' /\ InStep(K)' /\ Heard(K)' /\ Synced(K)'
  BY <1>1, <1>2 DEF Clocks, AllFit, Told, InStep, Heard, Synced
<1>6. Wished(K)'
  BY <1>1, <1>2 DEF Wished, stateVars
<1> QED BY <1>2, <1>3, <1>4, <1>5, <1>6, AboveItself DEF Grows

\* An edit or a deletion: time goes on, and only what that device has of jobs and tombstones
\* changes, of no job of K while it exchanges.
Touches(K, d) ==
  /\ clock' = clock + 1 /\ UNCHANGED <<disk, talkVars, budgets>>
  /\ Exchanging(d) => SameOn(K, state[d], state'[d])
  /\ Touched(K, state[d], state'[d], clock + 1)
  /\ /\ state'[d].lastSynced = state[d].lastSynced /\ state'[d].outSeq = state[d].outSeq
     /\ state'[d].accSeq = state[d].accSeq
  /\ \A p \in Devices : p # d => state'[p] = state[p]
  /\ \A p \in Devices, j \in Jobs : meant'[p][j] \in {meant[p][j], clock + 1}
  /\ Apart(K, state'[d], meant') /\ Wished(K)'

LEMMA UserTouches ==
  ASSUME NEW K \in SUBSET Jobs, SyncAssumption, OneAsker, Lived, Knowledge(K), NEW d \in Devices,
         NEW j \in Jobs, Edits(d, j) \/ Deletes(d, j), K \cap rushed' = {}
  PROVE  Touches(K, d)
<1> USE DEF Knowledge
<1>1. clock' = clock + 1 /\ UNCHANGED <<disk, talkVars, budgets>>
  BY DEF Edits, Deletes
<1>0. Exchanging(d) => j \notin K
  BY DEF Edits, Deletes, Changes
<1>2. /\ clock \in Nat /\ state \in [Devices -> States] /\ meant \in [Devices -> Stamps]
      /\ state[d] \in States /\ state[d].jobs \in Stamps /\ state[d].deleted \in Stamps
  BY DEF Lived, SyncTypes, StateTypes, States
<1>3. Fit(K, state[d], clock, meant) /\ \A p \in Devices, i \in Jobs : meant[p][i] <= clock
  BY TwoDevices DEF AllFit, AtAsker, AtOther, Here, There, Clocks
<1>4. \A i \in K : state[d].jobs[i] <= clock /\ state[d].deleted[i] <= clock
  BY <1>3 DEF Fit, Past
<1>5. \A i \in Jobs : /\ state[d].deleted[i] \in Nat /\ state[d].jobs[i] \in Nat
                      /\ \A p \in Devices : meant[p][i] \in Nat
  BY <1>2 DEF Stamps
<1>6. CASE Edits(d, j)
  <2>1. /\ state' = [state EXCEPT ![d].jobs[j] = clock + 1]
        /\ meant' = [meant EXCEPT ![d][j] = clock + 1]
    BY <1>6 DEF Edits
  <2>2. /\ state'[d] = [state[d] EXCEPT !.jobs[j] = clock + 1]
        /\ \A p \in Devices : p # d => state'[p] = state[p]
    BY <1>2, <2>1
  <2>3. /\ state'[d].jobs = [state[d].jobs EXCEPT ![j] = clock + 1]
        /\ state'[d].deleted = state[d].deleted
        /\ state'[d].lastSynced = state[d].lastSynced /\ state'[d].outSeq = state[d].outSeq
        /\ state'[d].accSeq = state[d].accSeq
    BY <1>2, <2>2 DEF States
  <2>4. \A i \in Jobs : state'[d].jobs[i] = IF i = j THEN clock + 1 ELSE state[d].jobs[i]
    BY <1>2, <2>3 DEF Stamps
  <2>5. \A p \in Devices, i \in Jobs :
          meant'[p][i] = IF p = d /\ i = j THEN clock + 1 ELSE meant[p][i]
    BY <1>2, <2>1 DEF Stamps
  <2>6. /\ Touched(K, state[d], state'[d], clock + 1)
        /\ Exchanging(d) => SameOn(K, state[d], state'[d])
    BY <1>0, <2>3, <2>4 DEF Touched, SameOn
  <2>7. Apart(K, state'[d], meant')
    BY <1>2, <1>3, <1>4, <1>5, <2>3, <2>5 DEF Apart, Fit
  <2>8. Wished(K)'
    <3> SUFFICES ASSUME crashes = 0, NEW p \in Devices, NEW i \in K
                 PROVE  state'[p].jobs[i] >= meant'[p][i] \/ state'[p].deleted[i] > meant'[p][i]
      BY <1>1 DEF Wished, budgets
    <3>1. state[p].jobs[i] >= meant[p][i] \/ state[p].deleted[i] > meant[p][i]
      BY DEF Wished
    <3>2. CASE p = d
      <4>1. CASE i = j
        BY <1>2, <2>4, <2>5, <3>2, <4>1
      <4>2. CASE i # j
        BY <2>3, <2>4, <2>5, <3>1, <3>2, <4>2
      <4> QED BY <4>1, <4>2
    <3>3. CASE p # d
      BY <2>2, <2>5, <3>1, <3>3
    <3> QED BY <3>2, <3>3
  <2> QED BY <1>1, <2>2, <2>3, <2>5, <2>6, <2>7, <2>8 DEF Touches
<1>7. CASE Deletes(d, j)
  <2>1. /\ state' = [state EXCEPT ![d].jobs[j] = 0, ![d].deleted[j] = clock + 1]
        /\ meant' = meant
    BY <1>7 DEF Deletes
  <2>2. /\ state'[d] = [state[d] EXCEPT !.jobs[j] = 0, !.deleted[j] = clock + 1]
        /\ \A p \in Devices : p # d => state'[p] = state[p]
    BY <1>2, <2>1
  <2>3. /\ state'[d].jobs = [state[d].jobs EXCEPT ![j] = 0]
        /\ state'[d].deleted = [state[d].deleted EXCEPT ![j] = clock + 1]
        /\ state'[d].lastSynced = state[d].lastSynced /\ state'[d].outSeq = state[d].outSeq
        /\ state'[d].accSeq = state[d].accSeq
    BY <1>2, <2>2 DEF States
  <2>4. \A i \in Jobs :
          /\ state'[d].jobs[i] = IF i = j THEN 0 ELSE state[d].jobs[i]
          /\ state'[d].deleted[i] = IF i = j THEN clock + 1 ELSE state[d].deleted[i]
    BY <1>2, <2>3 DEF Stamps
  <2>5. /\ Touched(K, state[d], state'[d], clock + 1)
        /\ Exchanging(d) => SameOn(K, state[d], state'[d])
    BY <1>0, <2>4 DEF Touched, SameOn
  <2>6. Apart(K, state'[d], meant')
    BY <1>2, <1>3, <1>5, <2>1, <2>4 DEF Apart, Fit
  <2>7. Wished(K)'
    <3> SUFFICES ASSUME crashes = 0, NEW p \in Devices, NEW i \in K
                 PROVE  state'[p].jobs[i] >= meant[p][i] \/ state'[p].deleted[i] > meant[p][i]
      BY <1>1, <2>1 DEF Wished, budgets
    <3>1. state[p].jobs[i] >= meant[p][i] \/ state[p].deleted[i] > meant[p][i]
      BY DEF Wished
    <3>2. CASE p = d
      BY <1>2, <1>3, <1>5, <2>4, <3>1, <3>2
    <3>3. CASE p # d
      BY <2>2, <3>1, <3>3
    <3> QED BY <3>2, <3>3
  <2> QED BY <1>1, <2>1, <2>2, <2>3, <2>5, <2>6, <2>7 DEF Touches
<1> QED BY <1>6, <1>7

LEMMA TouchesFit ==
  ASSUME NEW K \in SUBSET Jobs, SyncAssumption, OneAsker, Lived, Knowledge(K),
         NEW d \in Devices, Touches(K, d)
  PROVE  /\ \A s : Stamped(s) /\ Fit(K, s, clock, meant) => Fit(K, s, clock', meant')
         /\ Fit(K, state'[d], clock', meant')
         /\ Above(K, state[d], state'[d])
<1> USE DEF Knowledge
<1> DEFINE k == clock  w == meant  v == meant'  s == state[d]  x == state'[d]
<1>1. /\ k \in Nat /\ clock' = k + 1 /\ Stamped(s) /\ Fit(K, s, k, w) /\ Touched(K, s, x, k + 1)
      /\ \A p \in Devices, j \in Jobs : v[p][j] \in {w[p][j], k + 1}
      /\ Apart(K, x, v)
  BY TwoDevices, Shapes DEF AllFit, AtAsker, AtOther, Here, There, Touches
<1> HIDE DEF k, w, v, s, x
<1>2. ASSUME NEW r, Stamped(r), Fit(K, r, k, w) PROVE Fit(K, r, k + 1, v)
  BY <1>1, <1>2, FitLater
<1>3. Above(K, s, x) /\ Fit(K, x, k + 1, v)
  BY <1>1, TouchedAbove DEF Fit
<1>4. \A r : Stamped(r) /\ Fit(K, r, clock, meant) => Fit(K, r, clock', meant')
  BY <1>1, <1>2 DEF k, w, v
<1> QED BY <1>1, <1>3, <1>4 DEF k, w, v, s, x

LEMMA AskerTouchesKnows ==
  ASSUME NEW K \in SUBSET Jobs, SyncAssumption, OneAsker, Lived, Lived', Talk, Knowledge(K),
         Touches(K, Asker)
  PROVE  Knowledge(K)' /\ Grows(K)
<1> USE DEF Knowledge
<1> DEFINE x == Here'
           k == clock
<1>1. /\ clock' = k + 1 /\ UNCHANGED <<wire, exchanges, report, crashes, Mine>>
      /\ UNCHANGED <<There, HereSaved, ThereSaved, AtOther>>
      /\ Touched(K, Here, x, k + 1) /\ x.lastSynced = Here.lastSynced /\ x.outSeq = Here.outSeq
      /\ Wished(K)' /\ AtAsker' = {x, HereSaved}
      /\ Mine.step = "merging" => SameOn(K, Here, x)
  BY TwoDevices DEF Touches, talkVars, budgets, Exchanging, Mine, Here, There, HereSaved,
     ThereSaved, AtOther, AtAsker
<1>2. /\ \A s : Stamped(s) /\ Fit(K, s, k, meant) => Fit(K, s, k + 1, meant')
      /\ Fit(K, x, k + 1, meant') /\ Above(K, Here, x)
  BY <1>1, TwoDevices, TouchesFit DEF Here
<1>3. /\ k \in Nat /\ Stamped(Here) /\ Here.lastSynced \in Nat /\ Here.lastSynced <= k
      /\ Mine.now \in Nat /\ Mine.since \in Nat
      /\ \A r \in AtOther : Stamped(r) /\ r.lastSynced \in Nat /\ r.lastSynced <= k
      /\ \A d \in Devices, j \in Jobs : meant'[d][j] <= k + 1
      /\ Mine.step # "none" => Mine.now <= k /\ Mine.since <= k
  <2>1. \A d \in Devices, j \in Jobs : meant'[d][j] <= k + 1
    BY Shapes DEF Touches, Clocks
  <2> QED BY <2>1, Shapes DEF Clocks, AtAsker, AtOther
<1> HIDE DEF x, k
\* Whatever covered what the asker had covers it still, up to any time that has passed.
<1>4. ASSUME NEW r, NEW c, NEW u \in Nat, u <= k, Stamped(r), Covers(K, r, c, Here, u)
      PROVE  Covers(K, r, c, x, u)
  BY <1>1, <1>3, <1>4, TouchedCovers
<1>5. ASSUME NEW c, NEW s, NEW u, Stamped(s), Covers(K, Here, c, s, u) PROVE Covers(K, x, c, s, u)
  BY <1>2, <1>5, CoversAbove, AboveItself
<1>6. ASSUME NEW s, NEW u, Stamped(s), Has(K, Here, s, u) PROVE Has(K, x, s, u)
  BY <1>2, <1>6, CoversAbove DEF Has
<1>7. ASSUME NEW r, NEW c, NEW s, Fit(K, s, k, meant), Covers(K, r, c, s, k)
      PROVE  Covers(K, r, c, s, k + 1)
  BY <1>7, CoversLater DEF Fit
<1>8. Clocks'
  <2>1. HereSaved.lastSynced \in Nat /\ HereSaved.lastSynced <= k
    BY Shapes DEF Clocks, AtAsker, k
  <2>2. \A s \in AtAsker' \cup AtOther : s.lastSynced <= k + 1
    BY <1>1, <1>3, <2>1
  <2> QED BY <1>1, <1>3, <2>2 DEF Clocks, k, x
<1>9. AllFit(K)'
  <2>1. \A s \in AtAsker \cup AtOther : Stamped(s) /\ Fit(K, s, k, meant)
    BY Shapes DEF AtAsker, AtOther, AllFit, k
  <2> QED BY <1>1, <1>2, <2>1 DEF AllFit, AtAsker
<1>10. Told(K)' /\ InStep(K)'
  <2>1. ASSUME NEW r \in AtOther
        PROVE  /\ Has(K, r, x, Here.lastSynced)
               /\ Here.outSeq = r.accSeq => Has(K, x, r, r.lastSynced)
    <3>1. /\ Has(K, r, Here, Here.lastSynced)
          /\ Here.outSeq = r.accSeq => Has(K, Here, r, r.lastSynced)
      BY DEF Told, InStep, AtAsker
    <3> QED BY <1>3, <1>4, <1>6, <3>1 DEF Has
  <2> QED BY <1>1, <2>1 DEF Told, InStep, AtAsker
<1>11. Requested(K)'
  <2> SUFFICES ASSUME NEW m \in wire PROVE RequestFits(K, m)'
    BY <1>1 DEF Requested
  <2>1. RequestFits(K, m) /\ Stamped(m.changed)
    BY Shapes DEF Requested
  <2>2. Fit(K, m.changed, k + 1, meant')
    BY <1>2, <2>1 DEF RequestFits, k
  <2>3. ASSUME m.live, NEW r \in AtOther PROVE Covers(K, r, m.changed, x, Mine.now)
    <3>1. Covers(K, r, m.changed, Here, Mine.now) /\ Mine.step = "sent"
      BY <2>1, <2>3 DEF RequestFits, Talk, Lives
    <3> QED BY <1>3, <1>4, <3>1
  <2>4. ASSUME m.live \/ crashes = 0 PROVE Has(K, x, m.changed, k + 1)
    <3>1. Has(K, x, m.changed, k) /\ Fit(K, m.changed, k, meant)
      BY <1>6, <2>1, <2>4 DEF RequestFits, k
    <3> QED BY <1>7, <3>1 DEF Has
  <2> QED BY <1>1, <2>1, <2>2, <2>3, <2>4 DEF RequestFits, x
<1>12. Replied(K)'
  <2> SUFFICES ASSUME NEW e \in exchanges PROVE ExchangeFits(K, e)'
    BY <1>1 DEF Replied
  <2>1. /\ ExchangeFits(K, e) /\ Stamped(e.reply)
        /\ e.live => Mine.now <= k
    BY <1>3, Shapes DEF Replied, Talk, Lives
  <2>2. Fit(K, e.reply, k, meant) /\ Fit(K, e.reply, k + 1, meant')
    BY <1>2, <2>1 DEF ExchangeFits, k
  <2>3. Stamped(There) /\ There.lastSynced \in Nat /\ Fit(K, There, k, meant)
    BY Shapes DEF AllFit, AtOther, k
  <2>4. ASSUME e.step = "merging" PROVE \E c : MergesWith(K, e, c)'
    <3>1. PICK c : MergesWith(K, e, c)
      BY <2>1, <2>4 DEF ExchangeFits
    <3>2. c \in Payloads /\ Stamped(c) /\ Fit(K, c, k, meant)
      BY <3>1 DEF MergesWith, Payloads, Stamped, k
    <3>3. ASSUME e.live
          PROVE  Covers(K, There, c, x, Mine.now) /\ Covers(K, x, e.reply, There, k + 1)
      <4>1. Covers(K, There, c, Here, Mine.now) /\ Covers(K, Here, e.reply, There, k)
        BY <3>1, <3>3 DEF MergesWith, k
      <4>2. Covers(K, There, c, x, Mine.now)
        BY <1>3, <1>4, <2>1, <2>3, <3>3, <4>1
      <4>3. Covers(K, x, e.reply, There, k)
        BY <1>5, <2>3, <4>1
      <4> QED BY <1>7, <2>3, <4>2, <4>3
    <3>4. ASSUME e.live \/ crashes = 0 PROVE Has(K, x, c, k + 1)
      <4>1. Has(K, x, c, k)
        BY <1>6, <3>1, <3>2, <3>4 DEF MergesWith, k
      <4> QED BY <1>7, <3>2, <4>1 DEF Has
    <3>5. Fit(K, c, k + 1, meant')
      BY <1>2, <3>2
    <3>6. MergesWith(K, e, c)'
      BY <1>1, <3>1, <3>2, <3>3, <3>4, <3>5 DEF MergesWith, x
    <3> QED BY <3>6
  <2>5. ASSUME e.step = "saving", e.live
        PROVE  Has(K, There, x, Mine.now) /\ Covers(K, x, e.reply, There, There.lastSynced)
    <3>1. Has(K, There, Here, Mine.now) /\ Covers(K, Here, e.reply, There, There.lastSynced)
      BY <2>1, <2>5 DEF ExchangeFits
    <3> QED BY <1>3, <1>4, <1>5, <2>1, <2>3, <2>5, <3>1 DEF Has
  <2>6. ASSUME e.live PROVE Has(K, There, e.reply, k + 1) /\ Safe(K, x, x.lastSynced, e.reply)
    <3>1. Has(K, There, e.reply, k) /\ Safe(K, Here, Here.lastSynced, e.reply)
      BY <2>1, <2>6 DEF ExchangeFits, k
    <3>2. Safe(K, x, x.lastSynced, e.reply)
      BY <1>1, <1>3, <2>1, <3>1, TouchedSafe
    <3> QED BY <1>7, <2>2, <3>1, <3>2 DEF Has
  <2> QED BY <1>1, <2>1, <2>2, <2>4, <2>5, <2>6 DEF ExchangeFits, x
<1>13. Heard(K)'
  <2>0. ASSUME Mine.step = "merging"
        PROVE  \E s \in States : SameOn(K, s, x) /\ Mine.patch = Merged(s, Mine.since, Mine.theirs)
    BY <1>1, <2>0 DEF Heard, SameOn
  <2> SUFFICES ASSUME Mine.step \in {"answered", "merging"}
               PROVE  /\ Fit(K, Mine.theirs, k + 1, meant') /\ Safe(K, x, Mine.since, Mine.theirs)
                      /\ \A r \in AtOther :
                           /\ Has(K, r, x, Mine.now) /\ Has(K, r, Mine.theirs, k + 1)
                           /\ Covers(K, x, Mine.theirs, r, r.lastSynced)
                           /\ Mine.now <= r.lastSynced
    BY <1>1, <2>0 DEF Heard, x
  <2> DEFINE c == Mine.theirs  now == Mine.now  since == Mine.since
  <2>1. /\ Fit(K, c, k, meant) /\ Safe(K, Here, since, c) /\ Stamped(c) /\ now <= k /\ since <= k
        /\ now \in Nat /\ since \in Nat
        /\ \A r \in AtOther : /\ Has(K, r, Here, now) /\ Has(K, r, c, k)
                              /\ Covers(K, Here, c, r, r.lastSynced) /\ now <= r.lastSynced
    BY <1>3, Shapes DEF Heard, k
  <2> HIDE DEF c, now, since
  <2>2. Fit(K, c, k + 1, meant') /\ Safe(K, x, since, c)
    BY <1>1, <1>2, <1>3, <2>1, TouchedSafe
  <2>3. ASSUME NEW r \in AtOther
        PROVE  Has(K, r, x, now) /\ Has(K, r, c, k + 1) /\ Covers(K, x, c, r, r.lastSynced)
    BY <1>3, <1>4, <1>5, <1>7, <2>1 DEF Has
  <2> QED BY <2>1, <2>2, <2>3 DEF c, now, since
<1>14. Synced(K)'
  <2>1. Has(K, Here, There, Here.lastSynced) => Has(K, x, There, Here.lastSynced)
    BY <1>6, Shapes
  <2> QED BY <1>1, <2>1 DEF Synced, x
<1>15. Grows(K)
  BY <1>1, <1>2, AboveItself DEF Grows, x
<1> QED BY <1>1, <1>8, <1>9, <1>10, <1>11, <1>12, <1>13, <1>14, <1>15

LEMMA OtherTouchesKnows ==
  ASSUME NEW K \in SUBSET Jobs, SyncAssumption, OneAsker, Lived, Lived', Talk, Knowledge(K),
         Touches(K, Other)
  PROVE  Knowledge(K)' /\ Grows(K)
<1> USE DEF Knowledge
<1> DEFINE x == There'
           k == clock
<1>1. /\ clock' = k + 1 /\ UNCHANGED <<wire, exchanges, report, crashes, Mine>>
      /\ UNCHANGED <<Here, HereSaved, ThereSaved, AtAsker>>
      /\ Touched(K, There, x, k + 1) /\ x.lastSynced = There.lastSynced /\ x.accSeq = There.accSeq
      /\ Wished(K)' /\ AtOther' = {x, ThereSaved} /\ There \in AtOther /\ ThereSaved \in AtOther
      /\ \A e \in exchanges : e.step = "merging" => SameOn(K, There, x)
  BY TwoDevices DEF Touches, talkVars, budgets, Exchanging, Mine, Here, There, HereSaved,
     ThereSaved, AtOther, AtAsker, Talk, OneSided
<1>2. /\ \A s : Stamped(s) /\ Fit(K, s, k, meant) => Fit(K, s, k + 1, meant')
      /\ Fit(K, x, k + 1, meant') /\ Above(K, There, x)
  BY <1>1, TwoDevices, TouchesFit DEF There
<1>3. /\ k \in Nat /\ Stamped(There) /\ There.lastSynced \in Nat /\ There.lastSynced <= k
      /\ Stamped(Here) /\ Here.lastSynced \in Nat /\ Here.lastSynced <= k
      /\ \A s \in AtAsker : Stamped(s) /\ s.lastSynced \in Nat /\ s.lastSynced <= k
      /\ ThereSaved.lastSynced \in Nat /\ ThereSaved.lastSynced <= k
      /\ \A d \in Devices, j \in Jobs : meant'[d][j] <= k + 1
      /\ Mine.now \in Nat /\ (Mine.step # "none" => Mine.now <= k)
  <2>1. \A d \in Devices, j \in Jobs : meant'[d][j] <= k + 1
    BY Shapes DEF Touches, Clocks
  <2> QED BY <2>1, Shapes DEF Clocks, AtAsker, AtOther
<1> HIDE DEF x, k
<1>4. ASSUME NEW r, NEW c, NEW u \in Nat, u <= k, Stamped(r), Covers(K, r, c, There, u)
      PROVE  Covers(K, r, c, x, u)
  BY <1>1, <1>3, <1>4, TouchedCovers
<1>5. ASSUME NEW c, NEW s, NEW u, Stamped(s), Covers(K, There, c, s, u) PROVE Covers(K, x, c, s, u)
  BY <1>2, <1>5, CoversAbove, AboveItself
<1>6. ASSUME NEW s, NEW u, Stamped(s), Has(K, There, s, u) PROVE Has(K, x, s, u)
  BY <1>2, <1>6, CoversAbove DEF Has
<1>7. ASSUME NEW r, NEW c, NEW s, Fit(K, s, k, meant), Covers(K, r, c, s, k)
      PROVE  Covers(K, r, c, s, k + 1)
  BY <1>7, CoversLater DEF Fit
<1>8. Clocks'
  <2>1. \A s \in AtAsker \cup AtOther' : s.lastSynced <= k + 1
    BY <1>1, <1>3
  <2> QED BY <1>1, <1>3, <2>1 DEF Clocks, k
<1>9. AllFit(K)'
  <2>1. \A s \in AtAsker \cup AtOther : Stamped(s) /\ Fit(K, s, k, meant)
    BY Shapes DEF AtAsker, AtOther, AllFit, k
  <2> QED BY <1>1, <1>2, <2>1 DEF AllFit
<1>10. Told(K)' /\ InStep(K)'
  <2>1. ASSUME NEW s \in AtAsker
        PROVE  /\ Has(K, x, s, s.lastSynced)
               /\ s.outSeq = There.accSeq => Has(K, s, x, There.lastSynced)
    <3>1. /\ Has(K, There, s, s.lastSynced)
          /\ s.outSeq = There.accSeq => Has(K, s, There, There.lastSynced)
      BY <1>1 DEF Told, InStep
    <3> QED BY <1>3, <1>4, <1>6, <3>1 DEF Has
  <2> QED BY <1>1, <2>1 DEF Told, InStep
<1>11. Requested(K)'
  <2> SUFFICES ASSUME NEW m \in wire PROVE RequestFits(K, m)'
    BY <1>1 DEF Requested
  <2>1. RequestFits(K, m) /\ Stamped(m.changed)
    BY Shapes DEF Requested
  <2>2. Fit(K, m.changed, k, meant) /\ Fit(K, m.changed, k + 1, meant')
    BY <1>2, <2>1 DEF RequestFits, k
  <2>3. ASSUME m.live PROVE Covers(K, x, m.changed, Here, Mine.now)
    BY <1>1, <1>3, <1>5, <2>1, <2>3 DEF RequestFits
  <2>4. ASSUME m.seq > There.accSeq PROVE Safe(K, x, There.lastSynced, m.changed)
    BY <1>1, <1>3, <2>1, <2>4, TouchedSafe DEF RequestFits
  <2>5. ASSUME m.live \/ crashes = 0 PROVE Has(K, Here, m.changed, k + 1)
    BY <1>7, <2>1, <2>2, <2>5 DEF RequestFits, Has, k
  <2>6. ASSUME NEW r \in {x, ThereSaved}
        PROVE  /\ m.seq > r.accSeq => Safe(K, r, r.lastSynced, m.changed)
               /\ m.live => Covers(K, r, m.changed, Here, Mine.now)
    BY <1>1, <2>1, <2>3, <2>4 DEF RequestFits
  <2> QED BY <1>1, <2>2, <2>5, <2>6 DEF RequestFits
<1>12. Replied(K)'
  <2> SUFFICES ASSUME NEW e \in exchanges PROVE ExchangeFits(K, e)'
    BY <1>1 DEF Replied
  <2>1. ExchangeFits(K, e) /\ Stamped(e.reply)
    BY Shapes DEF Replied
  <2>2. Fit(K, e.reply, k, meant) /\ Fit(K, e.reply, k + 1, meant')
    BY <1>2, <2>1 DEF ExchangeFits, k
  <2>6. Fit(K, There, k, meant)
    BY <1>1 DEF AllFit, k
  <2>3. ASSUME e.step = "saving", e.live
        PROVE  Has(K, x, Here, Mine.now) /\ Covers(K, Here, e.reply, x, There.lastSynced)
    BY <1>3, <1>4, <1>6, <2>1, <2>3 DEF ExchangeFits
  <2>4. ASSUME e.live PROVE Has(K, x, e.reply, k + 1)
    <3>1. Has(K, There, e.reply, k + 1)
      BY <1>7, <2>1, <2>2, <2>4 DEF ExchangeFits, Has, k
    <3> QED BY <1>6, <2>1, <3>1
  <2>5. ASSUME e.step = "merging" PROVE \E c : MergesWith(K, e, c)'
    <3>1. PICK c : MergesWith(K, e, c)
      BY <2>1, <2>5 DEF ExchangeFits
    <3>2. c \in Payloads /\ Stamped(c) /\ Fit(K, c, k, meant) /\ Fit(K, c, k + 1, meant')
      BY <1>2, <3>1 DEF MergesWith, Payloads, Stamped, k
    <3>3. \E s \in States : SameOn(K, s, x) /\ e.patch = Merged(s, There.lastSynced, c)
      BY <1>1, <2>5, <3>1 DEF MergesWith, SameOn
    <3>4. Safe(K, x, There.lastSynced, c)
      BY <1>1, <1>3, <3>1, <3>2, TouchedSafe DEF MergesWith
    <3>5. ASSUME e.live PROVE Covers(K, x, c, Here, Mine.now) /\ Covers(K, Here, e.reply, x, k + 1)
      <4>1. Covers(K, There, c, Here, Mine.now) /\ Covers(K, Here, e.reply, There, k)
        BY <3>1, <3>5 DEF MergesWith, k
      <4>2. Covers(K, x, c, Here, Mine.now)
        BY <1>3, <1>5, <4>1
      <4>3. Covers(K, Here, e.reply, There, k + 1)
        BY <1>7, <2>6, <4>1
      <4> QED BY <1>1, <2>5, <4>2, <4>3 DEF Covers, SameOn
    <3>6. ASSUME e.live \/ crashes = 0 PROVE Has(K, Here, c, k + 1)
      BY <1>7, <3>1, <3>2, <3>6 DEF MergesWith, Has, k
    <3>7. MergesWith(K, e, c)'
      BY <1>1, <3>2, <3>3, <3>4, <3>5, <3>6 DEF MergesWith, x
    <3> QED BY <3>7
  <2> QED BY <1>1, <2>1, <2>2, <2>3, <2>4, <2>5 DEF ExchangeFits, x
<1>13. Heard(K)'
  <2> SUFFICES ASSUME Mine.step \in {"answered", "merging"}
               PROVE  /\ Fit(K, Mine.theirs, k + 1, meant')
                      /\ Safe(K, Here, Mine.since, Mine.theirs)
                      /\ \A r \in AtOther' :
                           /\ Has(K, r, Here, Mine.now) /\ Has(K, r, Mine.theirs, k + 1)
                           /\ Covers(K, Here, Mine.theirs, r, r.lastSynced)
                           /\ Mine.now <= r.lastSynced
    BY <1>1 DEF Heard
  <2> DEFINE c == Mine.theirs  now == Mine.now
  <2>1. /\ Fit(K, c, k, meant) /\ Safe(K, Here, Mine.since, c) /\ Stamped(c)
        /\ \A r \in AtOther : /\ Has(K, r, Here, now) /\ Has(K, r, c, k)
                              /\ Covers(K, Here, c, r, r.lastSynced) /\ now <= r.lastSynced
    BY Shapes DEF Heard, k
  <2> HIDE DEF c, now
  <2>2. Fit(K, c, k + 1, meant')
    BY <1>2, <2>1
  <2>3. ASSUME NEW r \in AtOther PROVE Has(K, r, c, k + 1)
    BY <1>7, <2>1 DEF Has
  <2>4. /\ Has(K, x, Here, now) /\ Has(K, x, c, k + 1) /\ Covers(K, Here, c, x, x.lastSynced)
        /\ now <= x.lastSynced
    BY <1>1, <1>3, <1>4, <1>6, <2>1, <2>3
  <2>5. ASSUME NEW r \in AtOther'
        PROVE  /\ Has(K, r, Here, now) /\ Has(K, r, c, k + 1) /\ Covers(K, Here, c, r, r.lastSynced)
               /\ now <= r.lastSynced
    <3>1. r = x \/ r \in AtOther
      BY <1>1
    <3> QED BY <2>1, <2>3, <2>4, <3>1
  <2> QED BY <2>1, <2>2, <2>5 DEF c, now
<1>14. Synced(K)'
  <2>1. Has(K, Here, There, Here.lastSynced) => Has(K, Here, x, Here.lastSynced)
    BY <1>3, <1>4 DEF Has
  <2> QED BY <1>1, <2>1 DEF Synced, x
<1>15. Grows(K)
  BY <1>1, <1>2, AboveItself DEF Grows, x
<1> QED BY <1>1, <1>8, <1>9, <1>10, <1>11, <1>12, <1>13, <1>14, <1>15

LEMMA UserKnows ==
  ASSUME NEW K \in SUBSET Jobs, SyncAssumption, OneAsker, Lived, Lived', Talk, Knowledge(K),
         NEW d \in Devices, NEW j \in Jobs, Edits(d, j) \/ Deletes(d, j), K \cap rushed' = {}
  PROVE  Knowledge(K)' /\ Grows(K)
BY TwoDevices, UserTouches, AskerTouchesKnows, OtherTouchesKnows

LEMMA SavesKnows ==
  ASSUME NEW K \in SUBSET Jobs, SyncAssumption, OneAsker, Lived, Talk, Knowledge(K),
         NEW d \in Devices, Saves(d)
  PROVE  Knowledge(K)' /\ Grows(K)
<1> USE DEF Knowledge
<1>1. /\ UNCHANGED <<clock, state, undoStack, meant, talkVars, budgets>>
      /\ HereSaved' \in {HereSaved, Here} /\ ThereSaved' \in {ThereSaved, There}
  BY SavesTalks
<1>2. /\ UNCHANGED <<Here, There, Mine, clock, meant, crashes, wire, exchanges, report>>
      /\ AtAsker' \subseteq AtAsker /\ AtOther' \subseteq AtOther
  BY <1>1 DEF talkVars, budgets, Here, There, Mine, AtAsker, AtOther
<1>3. Clocks' /\ AllFit(K)' /\ Told(K)' /\ InStep(K)' /\ Heard(K)' /\ Synced(K)'
  BY <1>2 DEF Clocks, AllFit, Told, InStep, Heard, Synced
<1>4. Requested(K)'
  BY <1>2 DEF Requested, RequestFits
<1>5. Replied(K)'
  <2> SUFFICES ASSUME NEW e \in exchanges PROVE ExchangeFits(K, e)'
    BY <1>2 DEF Replied
  <2>1. e.step = "merging" => \E c : MergesWith(K, e, c)'
    BY <1>2 DEF MergesWith, ExchangeFits, Replied
  <2> QED BY <1>2, <2>1 DEF ExchangeFits, Replied
<1>6. Wished(K)'
  BY <1>1, <1>2 DEF Wished
<1> QED BY <1>2, <1>3, <1>4, <1>5, <1>6, AboveItself DEF Grows

\* A crash takes a device back to its disk, which knew as much as this asks for.
LEMMA CrashesKnows ==
  ASSUME NEW K \in SUBSET Jobs, SyncAssumption, OneAsker, Lived, Talk, Knowledge(K),
         NEW d \in Devices, Crashes(d)
  PROVE  Knowledge(K)' /\ crashes' # 0
<1> USE DEF Knowledge
<1>1. /\ UNCHANGED <<clock, disk, meant, report, undos>> /\ crashes' = crashes + 1
      /\ \/ /\ Here' = HereSaved /\ There' = There /\ Mine'.step = "none"
            /\ wire' = Forsaken(wire, Asker) /\ exchanges' = Abandoned(Asker)
         \/ /\ Here' = Here /\ There' = ThereSaved /\ Mine' = Mine
            /\ wire' = wire /\ exchanges' = {}
  BY CrashesTalks
<1>2. /\ crashes' # 0 /\ UNCHANGED <<clock, meant, HereSaved, ThereSaved>>
  BY <1>1 DEF HereSaved, ThereSaved, Lived, SyncTypes, StateTypes
<1>3. AtAsker' \subseteq AtAsker /\ AtOther' \subseteq AtOther
  BY <1>1, <1>2 DEF AtAsker, AtOther
<1>4. AllFit(K)' /\ Told(K)' /\ InStep(K)' /\ Synced(K)' /\ Wished(K)'
  BY <1>2, <1>3 DEF AllFit, Told, InStep, Synced, Wished
<1>5. CASE /\ Here' = HereSaved /\ There' = There /\ Mine'.step = "none"
           /\ wire' = Forsaken(wire, Asker) /\ exchanges' = Abandoned(Asker)
  <2>1. Clocks' /\ Heard(K)'
    BY <1>2, <1>3, <1>5 DEF Clocks, Heard
  <2>2. Requested(K)'
    <3> SUFFICES ASSUME NEW m \in wire' PROVE RequestFits(K, m)'
      BY DEF Requested
    <3>1. PICK n \in wire : ~m.live /\ m.seq = n.seq /\ m.changed = n.changed
      BY <1>5, ForsakenFits DEF Talk
    <3>2. RequestFits(K, n)
      BY DEF Requested
    <3> QED BY <1>2, <1>3, <3>1, <3>2 DEF RequestFits
  <2>3. Replied(K)'
    <3> SUFFICES ASSUME NEW e \in exchanges' PROVE ExchangeFits(K, e)'
      BY DEF Replied
    <3>1. PICK f \in exchanges : /\ ~e.live /\ e.patch = f.patch /\ e.reply = f.reply
                                 /\ e.step = f.step
      BY <1>5, AbandonedFits DEF Talk
    <3>2. ExchangeFits(K, f)
      BY DEF Replied
    <3>3. ASSUME e.step = "merging" PROVE \E c : MergesWith(K, e, c)'
      <4>1. PICK c : MergesWith(K, f, c)
        BY <3>1, <3>2, <3>3 DEF ExchangeFits
      <4>2. MergesWith(K, e, c)'
        BY <1>2, <1>5, <3>1, <4>1 DEF MergesWith
      <4> QED BY <4>2
    <3> QED BY <1>2, <3>1, <3>2, <3>3 DEF ExchangeFits
  <2> QED BY <1>2, <1>4, <2>1, <2>2, <2>3
<1>6. CASE /\ Here' = Here /\ There' = ThereSaved /\ Mine' = Mine
           /\ wire' = wire /\ exchanges' = {}
  <2>1. Clocks' /\ Heard(K)' /\ Replied(K)'
    BY <1>2, <1>3, <1>6 DEF Clocks, Heard, Replied
  <2>2. Requested(K)'
    BY <1>2, <1>3, <1>6 DEF Requested, RequestFits
  <2> QED BY <1>2, <1>4, <2>1, <2>2
<1> QED BY <1>1, <1>5, <1>6

\* When the user last wanted a job only moves on.
LEMMA MeantClimbs ==
  ASSUME SyncAssumption, Lived, Clocks, [Next]_vars, NEW d \in Devices, NEW j \in Jobs
  PROVE  meant[d][j] <= meant'[d][j]
<1>1. /\ meant[d][j] \in Nat /\ meant[d][j] <= clock /\ clock \in Nat
      /\ meant \in [Devices -> Stamps]
  BY DEF Lived, SyncTypes, StateTypes, Stamps, Clocks
<1>2. CASE meant' = meant
  BY <1>1, <1>2
<1>3. CASE \E p \in Devices, i \in Jobs : meant' = [meant EXCEPT ![p][i] = clock + 1]
  BY <1>1, <1>3 DEF Stamps
<1>4. CASE \E p \in Devices, i \in Jobs : \/ Edits(p, i) \/ Deletes(p, i) \/ Undeletes(p, i)
                                          \/ KeepsLoser(p, i)
  <2>1. PICK p \in Devices, i \in Jobs : \/ Edits(p, i) \/ Deletes(p, i) \/ Undeletes(p, i)
                                         \/ KeepsLoser(p, i)
    BY <1>4
  <2>2. meant' = meant \/ meant' = [meant EXCEPT ![p][i] = clock + 1]
    BY <2>1 DEF Edits, Deletes, Undeletes, KeepsLoser
  <2> QED BY <1>2, <1>3, <2>2
<1>5. CASE \E m \in wire : Accepts(m) \/ Drops(m) \/ Copies(m)
  <2>1. meant' = meant
    BY <1>5 DEF Accepts, Drops, Copies, stateVars
  <2> QED BY <1>2, <2>1
<1>6. CASE UNCHANGED vars
  BY <1>2, <1>6 DEF vars, stateVars
<1>7. CASE \E p \in Devices : \/ AskBegins(p) \/ GivesUp(p) \/ HearsReply(p)
                              \/ AskEnds(p) \/ Answering(p) \/ Saves(p) \/ Crashes(p)
  <2>1. meant' = meant
    BY <1>7 DEF AskBegins, GivesUp, HearsReply, AskEnds, Answering, Applies, Acknowledges,
       SaveFails, Saves, Crashes, stateVars
  <2> QED BY <1>2, <2>1
<1> QED BY <1>4, <1>5, <1>6, <1>7 DEF Next

LEMMA UndosClimb ==
  ASSUME SyncAssumption, Lived, [Next]_vars, undos' = 0
  PROVE  /\ undos = 0
         /\ \A d \in Devices, j \in Jobs : ~Undeletes(d, j) /\ ~KeepsLoser(d, j)
<1>1. undos \in Nat
  BY DEF Lived, SyncTypes, StateTypes
<1>2. \A d \in Devices, j \in Jobs : ~Undeletes(d, j) /\ ~KeepsLoser(d, j)
  BY <1>1 DEF Undeletes, KeepsLoser
<1>3. undos' = undos
  BY <1>2 DEF Next, AskBegins, GivesUp, HearsReply, AskEnds, Answering, Applies, Acknowledges,
     SaveFails, Saves, Crashes, Accepts, Drops, Copies, Edits, Deletes, vars, budgets
<1> QED BY <1>2, <1>3

LEMMA StepKnows ==
  ASSUME NEW K \in SUBSET Jobs, SyncAssumption, OneAsker, Lived, Lived', Talk, Talk',
         Knowledge(K),
         [Next]_vars, undos' = 0, K \cap rushed' = {}
  PROVE  Knowledge(K)' /\ (crashes' = 0 => Grows(K))
<1>1. CASE UNCHANGED vars
  <2>1. /\ UNCHANGED <<state, clock, meant, crashes, Here, There, HereSaved, ThereSaved, AtAsker>>
        /\ UNCHANGED <<AtOther, Mine, wire, exchanges, report>>
    BY <1>1 DEF vars, stateVars, talkVars, budgets, Here, There, HereSaved, ThereSaved, AtAsker,
       AtOther, Mine
  <2>2. Requested(K)'
    BY <2>1 DEF Knowledge, Requested, RequestFits
  <2>3. Replied(K)'
    <3> SUFFICES ASSUME NEW e \in exchanges PROVE ExchangeFits(K, e)'
      BY <2>1 DEF Replied
    <3>1. ExchangeFits(K, e)
      BY DEF Knowledge, Replied
    <3>2. e.step = "merging" => \E c : MergesWith(K, e, c)'
      BY <2>1, <3>1 DEF MergesWith, ExchangeFits
    <3> QED BY <2>1, <3>1, <3>2 DEF ExchangeFits
  <2>4. Clocks' /\ AllFit(K)' /\ Told(K)' /\ InStep(K)' /\ Heard(K)' /\ Synced(K)' /\ Wished(K)'
    BY <2>1 DEF Knowledge, Clocks, AllFit, Told, InStep, Heard, Synced, Wished
  <2> QED BY <2>1, <2>2, <2>3, <2>4, AboveItself DEF Knowledge, Grows
<1>2. CASE \E d \in Devices : \/ AskBegins(d) \/ GivesUp(d) \/ HearsReply(d)
                              \/ AskEnds(d) \/ Answering(d) \/ Saves(d)
  BY <1>2, AskBeginsKnows, GivesUpKnows, HearsReplyKnows, AskEndsKnows, AppliesKnows,
     AcknowledgesKnows, SaveFailsKnows, SavesKnows DEF Answering
<1>3. CASE \E d \in Devices : Crashes(d)
  BY <1>3, CrashesKnows
<1>4. CASE \E m \in wire : Accepts(m) \/ Drops(m) \/ Copies(m)
  BY <1>4, AcceptsKnows, NetworkKnows
<1>5. CASE \E d \in Devices, j \in Jobs : Edits(d, j) \/ Deletes(d, j)
  BY <1>5, UserKnows
<1> QED BY <1>1, <1>2, <1>3, <1>4, <1>5, UndosClimb DEF Next

-----------------------------------------------------------------------------
(* While nobody has edited anything *)

HoldsNothing(s) == s.jobs = Nobody /\ s.deleted = Nobody /\ s.losers = Nobody

\* There is no job on any device and none under way.
Blank ==
  /\ \A d \in Devices : /\ HoldsNothing(state[d]) /\ HoldsNothing(disk[d])
                        /\ ask[d].theirs = Nothing /\ ask[d].patch = NoPatch
  /\ \A m \in wire : m.changed = Nothing
  /\ \A e \in exchanges : e.patch = NoPatch /\ e.reply = Nothing

LEMMA InitBlank == ASSUME Init PROVE Blank /\ clock = 0 /\ undos = 0
BY DEF Init, Blank, HoldsNothing, Fresh, NoAsk

LEMMA NothingChanged ==
  ASSUME NEW s, HoldsNothing(s), NEW u \in Nat PROVE Changed(s, u) = Nothing
BY DEF HoldsNothing, Changed, Since, Nobody, Nothing

LEMMA NothingMerged == ASSUME NEW s, NEW u PROVE Merged(s, u, Nothing) = NoPatch
BY DEF Merged

LEMMA NothingApplied ==
  ASSUME NEW s, HoldsNothing(s), NEW at, NEW o, NEW a
  PROVE  HoldsNothing(Applied(s, NoPatch, at, o, a))
BY DEF HoldsNothing, Applied, NoPatch, Nobody

LEMMA DeviceStaysBlank ==
  ASSUME SyncAssumption, Lived, Blank, NEW d \in Devices,
         \/ AskBegins(d) \/ GivesUp(d) \/ HearsReply(d) \/ AskEnds(d) \/ Saves(d) \/ Crashes(d)
  PROVE  Blank'
<1>1. /\ state \in [Devices -> States] /\ disk \in [Devices -> States] /\ ask \in [Devices -> Asks]
      /\ state[d].lastSynced \in Nat
  BY DEF Lived, SyncTypes, StateTypes, TalkTypes, States
<1>2. NoAsk.theirs = Nothing /\ NoAsk.patch = NoPatch
  BY DEF NoAsk
<1>3. CASE AskBegins(d)
  <2>1. Changed(state[d], state[d].lastSynced) = Nothing
    BY <1>1, NothingChanged DEF Blank
  <2> QED BY <1>1, <1>3, <2>1 DEF AskBegins, Blank, stateVars, NoAsk
<1>4. CASE GivesUp(d)
  <2>1. /\ \A m \in Forsaken(wire, d) : m.changed = Nothing
        /\ \A e \in Abandoned(d) : e.patch = NoPatch /\ e.reply = Nothing
    BY DEF Forsaken, Abandoned, Blank, Lived, SyncTypes, TalkTypes, Requests, Exchanges
  <2> QED BY <1>1, <1>2, <1>4, <2>1 DEF GivesUp, Blank, stateVars
<1>5. CASE HearsReply(d)
  <2>1. Merged(state[d], ask[d].since, ask[d].theirs) = NoPatch
    BY NothingMerged DEF Blank
  <2>2. ask'[d].theirs = Nothing /\ ask'[d].patch = NoPatch
    BY <1>1, <1>2, <1>5, <2>1 DEF HearsReply, Blank, Asks
  <2>3. \A p \in Devices : p # d => ask'[p] = ask[p]
    BY <1>1, <1>5 DEF HearsReply
  <2> QED BY <1>5, <2>2, <2>3 DEF HearsReply, Blank, stateVars
<1>6. CASE AskEnds(d)
  <2> DEFINE x == Applied(state[d], ask[d].patch, SyncedAt(d), ask[d].seq, ask[d].theirSeq)
  <2>1. HoldsNothing(x)
    BY NothingApplied DEF Blank
  <2>2. state' = [state EXCEPT ![d] = x]
    BY <1>6 DEF AskEnds
  <2> HIDE DEF x
  <2> QED BY <1>1, <1>2, <1>6, <2>1, <2>2 DEF AskEnds, Blank
<1>7. CASE Saves(d)
  BY <1>1, <1>7 DEF Saves, Blank, talkVars
<1>8. CASE Crashes(d)
  <2>1. /\ \A m \in Forsaken(wire, d) : m.changed = Nothing
        /\ \A e \in Abandoned(d) : e.patch = NoPatch /\ e.reply = Nothing
    BY DEF Forsaken, Abandoned, Blank, Lived, SyncTypes, TalkTypes, Requests, Exchanges
  <2> QED BY <1>1, <1>2, <1>8, <2>1 DEF Crashes, Blank
<1> QED BY <1>3, <1>4, <1>5, <1>6, <1>7, <1>8

LEMMA AnswersStayBlank ==
  ASSUME SyncAssumption, Lived, Blank, NEW e \in exchanges,
         Applies(e) \/ Acknowledges(e) \/ SaveFails(e)
  PROVE  Blank'
<1>1. /\ state \in [Devices -> States] /\ disk \in [Devices -> States] /\ ask \in [Devices -> Asks]
      /\ e \in Exchanges /\ e.at \in Devices /\ Peer(e.at) \in Devices
  BY PeerIsDevice DEF Lived, SyncTypes, StateTypes, TalkTypes, Exchanges
<1>2. /\ e.patch = NoPatch /\ e.reply = Nothing
      /\ NoAsk.theirs = Nothing /\ NoAsk.patch = NoPatch
  BY DEF Blank, NoAsk
<1>3. CASE Applies(e)
  <2> DEFINE x == Applied(state[e.at], e.patch, clock, e.replySeq, e.seq)
  <2>1. HoldsNothing(x)
    BY <1>1, <1>2, NothingApplied DEF Blank
  <2>2. state' = [state EXCEPT ![e.at] = x]
    BY <1>3 DEF Applies
  <2> HIDE DEF x
  <2>3. \A c \in exchanges' : c.patch = NoPatch /\ c.reply = Nothing
    BY <1>1, <1>2, <1>3 DEF Applies, Blank, Exchanges
  <2> QED BY <1>1, <1>3, <2>1, <2>2, <2>3 DEF Applies, Blank
<1>4. CASE Acknowledges(e)
  <2>1. \A p \in Devices : ask'[p].theirs = Nothing /\ ask'[p].patch = NoPatch
    BY <1>1, <1>2, <1>4 DEF Acknowledges, Answers, Blank, Asks
  <2> QED BY <1>1, <1>4, <2>1 DEF Acknowledges, SavedFile, Blank
<1>5. CASE SaveFails(e)
  BY <1>1, <1>2, <1>5 DEF SaveFails, Refuses, Blank, stateVars
<1> QED BY <1>3, <1>4, <1>5

LEMMA RequestsStayBlank ==
  ASSUME SyncAssumption, Lived, Blank, NEW m \in wire, Accepts(m) \/ Drops(m) \/ Copies(m)
  PROVE  Blank'
<1> DEFINE d == Peer(m.from)
           s == state[d]
<1>1. /\ state \in [Devices -> States] /\ ask \in [Devices -> Asks] /\ m \in Requests
      /\ m.from \in Devices /\ d \in Devices /\ s \in States /\ m.seq \in Nat
      /\ s.lastSynced \in Nat /\ m.changed = Nothing
  BY PeerIsDevice DEF Lived, SyncTypes, StateTypes, TalkTypes, States, Requests, Blank
<1>2. NoAsk.theirs = Nothing /\ NoAsk.patch = NoPatch
  BY DEF NoAsk
<1>3. CASE Accepts(m) /\ m.seq > s.accSeq
  <2>1. Merged(s, s.lastSynced, m.changed) = NoPatch /\ Changed(s, s.lastSynced) = Nothing
    BY <1>1, NothingMerged, NothingChanged DEF Blank
  <2>2. HoldsNothing(Committed(s, m.seq))
    BY <1>1 DEF Committed, States, HoldsNothing, Blank
  <2>3. \A c \in exchanges' : c.patch = NoPatch /\ c.reply = Nothing
    BY <1>3, <2>1 DEF Accepts, Blank
  <2>4. state' = [state EXCEPT ![d] = Committed(s, m.seq)]
    BY <1>3 DEF Accepts
  <2>5. UNCHANGED <<disk, ask>> /\ wire' \subseteq wire
    BY <1>3 DEF Accepts
  <2> HIDE DEF s, d
  <2> QED BY <1>1, <2>2, <2>3, <2>4, <2>5 DEF Blank
<1>4. CASE Accepts(m) /\ ~(m.seq > s.accSeq)
  <2>1. Refuses(m.from, m.live) /\ UNCHANGED <<state, disk, exchanges>> /\ wire' \subseteq wire
    BY <1>4 DEF Accepts
  <2> HIDE DEF s, d
  <2> QED BY <1>1, <1>2, <2>1 DEF Refuses, Blank
<1>5. CASE Drops(m)
  BY <1>5 DEF Drops, Blank, stateVars
<1>6. CASE Copies(m)
  BY <1>1, <1>6 DEF Copies, Blank, stateVars, Requests
<1> QED BY <1>3, <1>4, <1>5, <1>6

\* As long as the clock stands still, nobody has edited.
LEMMA StepBlank ==
  ASSUME SyncAssumption, Lived, clock = 0 => Blank, [Next]_vars
  PROVE  clock' = 0 => Blank'
<1>1. clock \in Nat
  BY DEF Lived, SyncTypes, StateTypes
<1> SUFFICES ASSUME clock' = 0 PROVE Blank'
  OBVIOUS
<1>2. CASE UNCHANGED vars
  BY <1>2 DEF vars, stateVars, talkVars, Blank
<1>3. CASE \E d \in Devices : \/ AskBegins(d) \/ GivesUp(d) \/ HearsReply(d)
                              \/ AskEnds(d) \/ Answering(d) \/ Saves(d) \/ Crashes(d)
  <2>1. clock' = clock
    BY <1>3 DEF AskBegins, GivesUp, HearsReply, AskEnds, Answering, Applies, Acknowledges,
       SaveFails, Saves, Crashes, stateVars
  <2> QED BY <1>3, <2>1, DeviceStaysBlank, AnswersStayBlank DEF Answering
<1>4. CASE \E m \in wire : Accepts(m) \/ Drops(m) \/ Copies(m)
  <2>1. clock' = clock
    BY <1>4 DEF Accepts, Drops, Copies, stateVars
  <2> QED BY <1>4, <2>1, RequestsStayBlank
<1>5. CASE \E d \in Devices, j \in Jobs :
             Edits(d, j) \/ Deletes(d, j) \/ Undeletes(d, j) \/ KeepsLoser(d, j)
  <2>1. PICK d \in Devices, j \in Jobs : KeepsLoser(d, j)
    BY <1>1, <1>5 DEF Edits, Deletes, Undeletes
  <2>2. clock' = clock /\ state[d].losers[j] # 0
    BY <2>1 DEF KeepsLoser
  <2>3. state[d].losers[j] = 0
    BY <2>2 DEF Blank, HoldsNothing, Nobody
  <2> QED BY <2>2, <2>3
<1> QED BY <1>2, <1>3, <1>4, <1>5 DEF Next

\* The bounds of the model are kept.
LEMMA InBounds ==
  ASSUME SyncAssumption, Lived, Lived', [Next]_vars
  PROVE  /\ clock <= MaxClock => clock' \in 0..MaxClock
         /\ undos <= MaxUndos => undos' \in 0..MaxUndos
<1>1. {clock, clock', undos, undos', MaxClock, MaxUndos} \subseteq Nat
  BY DEF Lived, SyncTypes, StateTypes, SyncAssumption
<1>2. CASE UNCHANGED vars
  BY <1>1, <1>2 DEF vars, stateVars, budgets
<1>3. CASE \E d \in Devices : \/ AskBegins(d) \/ GivesUp(d) \/ HearsReply(d)
                              \/ AskEnds(d) \/ Answering(d) \/ Saves(d) \/ Crashes(d)
  BY <1>1, <1>3 DEF AskBegins, GivesUp, HearsReply, AskEnds, Answering, Applies, Acknowledges,
     SaveFails, Saves, Crashes, stateVars, budgets
<1>4. CASE \E m \in wire : Accepts(m) \/ Drops(m) \/ Copies(m)
  BY <1>1, <1>4 DEF Accepts, Drops, Copies, stateVars, budgets
<1>5. CASE \E d \in Devices, j \in Jobs :
             Edits(d, j) \/ Deletes(d, j) \/ Undeletes(d, j) \/ KeepsLoser(d, j)
  BY <1>1, <1>5 DEF Edits, Deletes, Undeletes, KeepsLoser, MayEdit, budgets
<1> QED BY <1>2, <1>3, <1>4, <1>5 DEF Next

-----------------------------------------------------------------------------
(* Theorems *)

\* What is known of each job that nobody has changed on a device in mid-exchange.
SyncInv ==
  Lived /\ (OneAsker => Talk /\ (undos = 0 => \A j \in Jobs \ rushed : Knowledge({j})))

LEMMA RushedGrows == ASSUME [Next]_vars PROVE rushed \subseteq rushed'
<1>1. CASE \E d \in Devices, j \in Jobs : \/ Edits(d, j) \/ Deletes(d, j) \/ Undeletes(d, j)
                                          \/ KeepsLoser(d, j)
  BY <1>1 DEF Edits, Deletes, Undeletes, KeepsLoser, Changes
<1>2. CASE UNCHANGED rushed
  BY <1>2
<1> QED BY <1>1, <1>2 DEF Next, AskBegins, GivesUp, HearsReply, AskEnds, Answering, Applies,
     Acknowledges, SaveFails, Saves, Crashes, Accepts, Drops, Copies, vars, stateVars

LEMMA InitSync == ASSUME SyncAssumption, Init PROVE SyncInv
<1>1. ASSUME OneAsker, NEW j \in Jobs PROVE Knowledge({j})
  BY <1>1, InitKnows
<1> QED BY <1>1, InitLived, InitTalk DEF SyncInv

LEMMA StepSync == ASSUME SyncAssumption, SyncInv, [Next]_vars PROVE SyncInv'
<1>1. Lived'
  BY StepLived DEF SyncInv
<1>2. ASSUME OneAsker PROVE Talk' /\ (undos' = 0 => \A j \in Jobs \ rushed' : Knowledge({j})')
  <2>1. Talk /\ Talk'
    BY <1>2, StepTalks DEF SyncInv
  <2>2. ASSUME undos' = 0, NEW j \in Jobs \ rushed' PROVE Knowledge({j})'
    <3>1. Lived /\ Knowledge({j}) /\ {j} \in SUBSET Jobs /\ {j} \cap rushed' = {}
      BY <1>2, <2>2, UndosClimb, RushedGrows DEF SyncInv
    <3> QED BY <1>1, <1>2, <2>1, <2>2, <3>1, StepKnows
  <2> QED BY <2>1, <2>2
<1>3. OneAsker' <=> OneAsker
  BY DEF OneAsker
<1> QED BY <1>1, <1>2, <1>3 DEF SyncInv

LEMMA ToldByInv == ASSUME SyncAssumption, SyncInv, undos = 0 PROVE ToldIsKept
<1> SUFFICES ASSUME NEW d \in Askers, NEW j \in Jobs \ rushed, Askers = {d}
             PROVE  /\ 0 < state[d].jobs[j] /\ state[d].jobs[j] <= state[d].lastSynced =>
                         Knows(disk[Peer(d)], j, state[d].jobs[j])
                    /\ 0 < state[d].deleted[j] /\ state[d].deleted[j] <= state[d].lastSynced =>
                         Knows(disk[Peer(d)], j, state[d].deleted[j])
  BY DEF ToldIsKept
<1>1. OneAsker
  BY DEF OneAsker, SyncAssumption
<1>2. Asker = d /\ Peer(d) = Other
  BY <1>1, TwoDevices
<1>3. Lived /\ Has({j}, ThereSaved, Here, Here.lastSynced)
  BY <1>1 DEF SyncInv, Knowledge, Told, AtAsker, AtOther
<1>4. /\ Here.jobs[j] \in Nat /\ Here.deleted[j] \in Nat /\ ThereSaved.jobs[j] \in Nat
      /\ ThereSaved.deleted[j] \in Nat
  BY <1>1, <1>3, Shapes DEF Stamped, Stamps
<1>5. /\ Here.jobs[j] <= Here.lastSynced => Knows(ThereSaved, j, Here.jobs[j])
      /\ Here.deleted[j] <= Here.lastSynced => Knows(ThereSaved, j, Here.deleted[j])
  BY <1>3, <1>4 DEF Has, Covers, KnowsGone, Knows
<1> QED BY <1>2, <1>5 DEF Here, ThereSaved

LEMMA AgreedByInv == ASSUME SyncAssumption, SyncInv PROVE Agreed
<1> SUFFICES ASSUME NEW d \in Askers, NEW j \in Jobs \ rushed, Askers = {d}, crashes = 0,
                    undos = 0, state[d].lastSynced = clock, report[d] = "synced"
             PROVE  state[d].jobs[j] = state[Peer(d)].jobs[j]
  BY DEF Agreed
<1>1. OneAsker
  BY DEF OneAsker, SyncAssumption
<1>2. Asker = d /\ Peer(d) = Other
  BY <1>1, TwoDevices
<1>3. Lived /\ Knowledge({j}) /\ Here.lastSynced = clock /\ report[Asker] = "synced"
  BY <1>1, <1>2 DEF SyncInv, Here
<1>4. Has({j}, There, Here, clock) /\ Has({j}, Here, There, clock)
  BY <1>3 DEF Knowledge, Told, Synced, AtAsker, AtOther
<1>5. Fit({j}, Here, clock, meant) /\ Fit({j}, There, clock, meant)
  BY <1>3 DEF Knowledge, AllFit, AtAsker, AtOther
<1>6. Stamped(Here) /\ Stamped(There)
  BY <1>1, <1>3, Shapes
<1>7. Here.jobs[j] = There.jobs[j]
  BY <1>4, <1>5, <1>6, AlikeWhenBothHave DEF Fit
<1> QED BY <1>2, <1>7 DEF Here, There

LEMMA RemovedByStep ==
  ASSUME SyncAssumption, OneAsker, SyncInv, SyncInv', [Next]_vars PROVE RemovedByDeletion
<1> SUFFICES ASSUME crashes' = 0, undos' = 0, NEW d \in Devices,
                    NEW j \in DOMAIN state[d].jobs \ rushed',
                    state[d].jobs[j] # 0, state'[d].jobs[j] = 0
             PROVE  state'[d].deleted[j] > meant[d][j]
  BY DEF RemovedByDeletion, GoesByDeletion
<1>0. j \in Jobs \ rushed /\ j \in Jobs \ rushed'
  BY RushedGrows DEF SyncInv, Lived, SyncTypes, StateTypes, States, Stamps
<1>1. Lived /\ Lived' /\ Talk /\ Talk' /\ Knowledge({j}) /\ Knowledge({j})'
  <2>1. undos = 0 /\ OneAsker'
    BY UndosClimb DEF SyncInv, OneAsker
  <2>2. Lived' /\ Talk' /\ \A i \in Jobs \ rushed' : Knowledge({i})'
    BY <2>1 DEF SyncInv
  <2> QED BY <1>0, <2>1, <2>2 DEF SyncInv
<1>2. /\ j \in Jobs /\ state[d].jobs[j] \in Nat /\ state'[d].deleted[j] \in Nat
      /\ meant[d][j] \in Nat /\ meant'[d][j] \in Nat
  BY <1>0, <1>1 DEF Lived, SyncTypes, StateTypes, States, Stamps
<1>3. state'[d].deleted[j] # 0
  <2>0. {j} \in SUBSET Jobs /\ {j} \cap rushed' = {}
    BY <1>0
  <2>1. Above({j}, state[d], state'[d])
    BY <1>1, <2>0, StepKnows, TwoDevices DEF Grows, Here, There
  <2>2. Knows(state'[d], j, state[d].jobs[j])
    BY <1>2, <2>1 DEF Above, Knows
  <2> QED BY <1>2, <2>2 DEF Knows
<1>4. state'[d].jobs[j] >= meant'[d][j] \/ state'[d].deleted[j] > meant'[d][j]
  BY <1>1, <1>2 DEF Knowledge, Wished
<1>5. meant[d][j] <= meant'[d][j]
  BY <1>1, <1>2, MeantClimbs DEF Knowledge
<1> QED BY <1>2, <1>3, <1>4, <1>5

LEMMA SyncFits == ASSUME SyncAssumption PROVE Spec => []SyncInv
<1>1. Init => SyncInv
  BY InitSync
<1>2. SyncInv /\ [Next]_vars => SyncInv'
  BY StepSync
<1> QED BY <1>1, <1>2, PTL DEF Spec

\* What the only device that asks takes for told, the other has on its disk, whatever is lost
\* and whichever process dies (syncLoop.ts: "Only ACK success once ..."), but for a job the
\* user changed in mid-exchange.
THEOREM ToldIsKeptHolds == ASSUME SyncAssumption PROVE Spec => [](undos = 0 => ToldIsKept)
<1>1. SyncInv => (undos = 0 => ToldIsKept)
  BY ToldByInv
<1> QED BY <1>1, SyncFits, PTL

\* Once a cycle has begun after the last change and succeeded, both devices have the same
\* jobs (applyExchange, and what a device leaves out of its payload), for any jobs and edits,
\* whatever was lost and failed before, until a process dies or a deletion is undone -- but
\* for the very jobs that were changed in mid-exchange (AppState.tsx:1163).
THEOREM AgreedHolds == ASSUME SyncAssumption PROVE Spec => []Agreed
<1>1. SyncInv => Agreed
  BY AgreedByInv
<1> QED BY <1>1, SyncFits, PTL

\* An exchange removes a job only because somebody deleted it after the last edit on this
\* device, whichever conflicts were resolved before (applyExchange), when one device asks.
\* The user may change jobs at any time; what is changed in mid-exchange may go with the array
\* the patch replaces (AppState.tsx:1163), and nothing else goes with it.
THEOREM RemovedByDeletionHolds ==
  ASSUME SyncAssumption, OneAsker PROVE Spec => [][RemovedByDeletion]_vars
<1>1. SyncInv /\ SyncInv' /\ [Next]_vars => [RemovedByDeletion]_vars
  BY RemovedByStep
<1> QED BY <1>1, SyncFits, PTL DEF Spec

-----------------------------------------------------------------------------
(* The phone: AndroidScheduler *)

CONSTANTS
  Scheduled, FireOnce, Plans, MaxAttempts,
  MaxTime, MaxOpens, MaxKills, MaxLost, MaxEdits, MaxTaps

VARIABLES
  now, prefs, phoneDisk, alarm, work, seen, note, booting, app, web, owesSync, owesDrain,
  hand, sent, disturbed, opens, kills, lost, edits, taps

Phone == INSTANCE AndroidScheduler WITH Jobs <- Scheduled, disk <- phoneDisk

-----------------------------------------------------------------------------
(* Instants *)

\* A set of instants has a least and a greatest member, which Earliest and Latest pick.
LEMMA EarliestPicks ==
  ASSUME NEW S, S \subseteq Nat, S # {}
  PROVE  /\ Phone!Earliest(S) \in S
         /\ \A u \in S : Phone!Earliest(S) <= u
<1>1. PICK x \in S : \A y \in S : ~(<<y, x>> \in OpToRel(<, Nat))
  BY WFMin, NatLessThanWellFounded
<1>2. \A y \in S : y < x => <<y, x>> \in OpToRel(<, Nat)
  BY DEF OpToRel
<1>3. \A y \in S : ~(y < x)
  BY <1>1, <1>2, Zenon
<1>4. \A y \in S : x <= y
  BY <1>3
<1> QED BY <1>4 DEF Phone!Earliest

LEMMA LatestPicks ==
  ASSUME NEW S, S \subseteq Phone!Slots, S # {}, MaxTime \in Nat
  PROVE  /\ Phone!Latest(S) \in S
         /\ \A u \in S : u <= Phone!Latest(S)
<1> DEFINE T == {MaxTime - t : t \in S}
<1>1. T \subseteq Nat
  <2> SUFFICES ASSUME NEW t \in S PROVE MaxTime - t \in Nat
    OBVIOUS
  <2> QED BY DEF Phone!Slots
<1>2. PICK m \in T : \A u \in T : m <= u
  <2>1. T # {}
    OBVIOUS
  <2> QED BY <1>1, <2>1, EarliestPicks
<1>3. PICK t \in S : m = MaxTime - t
  BY <1>2
<1>4. \A u \in S : u <= t
  <2> TAKE u \in S
  <2>1. MaxTime - t <= MaxTime - u
    BY <1>2, <1>3
  <2> QED BY <2>1 DEF Phone!Slots
<1> QED BY <1>4 DEF Phone!Latest

LEMMA LatestIs ==
  ASSUME Phone!AndroidAssumption, NEW S, S \subseteq Phone!Slots
  PROVE  /\ Phone!Latest(S) \in Phone!Time /\ (Phone!Latest(S) # 0 => Phone!Latest(S) \in S)
         /\ \A u \in S : u <= Phone!Latest(S) /\ Phone!Latest(S) # 0
<1>1. MaxTime \in Nat
  BY DEF Phone!AndroidAssumption
<1>2. CASE S = {}
  BY <1>1, <1>2 DEF Phone!Latest, Phone!Time
<1>3. CASE S # {}
  <2>1. Phone!Latest(S) \in S /\ \A u \in S : u <= Phone!Latest(S)
    BY <1>1, <1>3, LatestPicks
  <2>3. Phone!Latest(S) \in 1..MaxTime
    BY <2>1 DEF Phone!Slots
  <2>4. Phone!Latest(S) \in Phone!Time /\ Phone!Latest(S) # 0
    BY <1>1, <2>3 DEF Phone!Time
  <2> QED BY <2>1, <2>4
<1> QED BY <1>2, <1>3

LEMMA EarliestIs ==
  ASSUME Phone!AndroidAssumption, NEW S, S \subseteq Phone!Slots
  PROVE  /\ Phone!Earliest(S) \in Phone!Time /\ (Phone!Earliest(S) # 0 => Phone!Earliest(S) \in S)
         /\ \A u \in S : Phone!Earliest(S) <= u /\ Phone!Earliest(S) # 0
<1>1. MaxTime \in Nat
  BY DEF Phone!AndroidAssumption
<1>2. CASE S = {}
  BY <1>1, <1>2 DEF Phone!Earliest, Phone!Time
<1>3. CASE S # {}
  <2>1. S \subseteq Nat
    BY <1>1 DEF Phone!Slots
  <2>2. Phone!Earliest(S) \in S /\ \A u \in S : Phone!Earliest(S) <= u
    BY <1>3, <2>1, EarliestPicks
  <2>3. Phone!Earliest(S) \in 1..MaxTime
    BY <2>2 DEF Phone!Slots
  <2>4. Phone!Earliest(S) \in Phone!Time /\ Phone!Earliest(S) # 0
    BY <1>1, <2>3 DEF Phone!Time
  <2> QED BY <2>2, <2>4
<1> QED BY <1>2, <1>3

-----------------------------------------------------------------------------
(* What the phone's operators return *)

\* The job f is g but for the instants that have passed, which it may have lost.
Shrinks(f, g) ==
  /\ f \in Phone!Job /\ f.on = g.on /\ f.mine = g.mine /\ f.account = g.account /\ f.plan = g.plan
  /\ f.occurrences \subseteq g.occurrences

LEMMA RecordedIs ==
  ASSUME Phone!AndroidAssumption, NEW job \in Phone!Job, NEW t \in Phone!Time
  PROVE  /\ Phone!Recorded(job, t) \in Phone!Job /\ Shrinks(Phone!Recorded(job, t), job)
         /\ Phone!ReportOf(Phone!Recorded(job, t)) \in Phone!Report
         /\ Phone!Recorded(job, t).ranAt = t
         /\ Phone!Recorded(job, t).occurrences = job.occurrences \ Phone!Past(job, t)
BY DEF Phone!Recorded, Phone!Past, Phone!ReportOf, Shrinks, Phone!Job, Phone!Report

LEMMA Plain ==
  ASSUME Phone!AndroidAssumption
  PROVE  Phone!NoReport \in Phone!Report /\ Phone!NoWork \in Phone!Work
<1>1. 0 \in Phone!Time
  BY DEF Phone!Time, Phone!AndroidAssumption
<1>2. Phone!NoReport \in Phone!Report
  BY <1>1 DEF Phone!NoReport, Phone!Report
<1>3. Phone!NoWork \in Phone!Work
  BY <1>1 DEF Phone!NoWork, Phone!Work, Phone!Steps, Phone!Outcomes
<1> QED BY <1>2, <1>3

\* What nextOccurrence() returns for a job: a wake-up for one of its instants, if any is ahead.
NextIs(n, s, j, t) ==
  /\ Shrinks(n.job, s.jobs[j]) /\ n.run \in Phone!Report /\ n.entries \in Phone!Entries
  /\ n.wake \in Phone!Time
  /\ n.wake # 0 => \E o \in s.jobs[j].occurrences : o <= n.wake
  /\ (\E o \in n.job.occurrences : o > t) => n.wake # 0

LEMMA NextOccurrenceIs ==
  ASSUME Phone!AndroidAssumption, NEW s \in Phone!Store, NEW j \in Scheduled, NEW t \in Phone!Time
  PROVE  NextIs(Phone!NextOccurrence(s, j, t), s, j, t)
<1> DEFINE job     == s.jobs[j]
           owed    == Phone!Latest(Phone!Past(job, t))
           soonest == Phone!Earliest(job.occurrences \ Phone!Past(job, t))
           e       == s.ledger[j]
           cleared == [e EXCEPT ![owed] = "none"]
           n       == Phone!NextOccurrence(s, j, t)
           paid == [job |-> Phone!Recorded(job, t), run |-> Phone!ReportOf(Phone!Recorded(job, t)),
                        entries |-> cleared, wake |-> soonest]
           failed   == [job |-> job, run |-> s.runs[j], entries |-> cleared, wake |-> t]
           catches  == [job |-> job, run |-> s.runs[j], entries |-> e, wake |-> t]
           waits    == [job |-> job, run |-> s.runs[j], entries |-> e, wake |-> soonest]
<1>1. /\ job \in Phone!Job /\ s.runs[j] \in Phone!Report /\ e \in Phone!Entries
      /\ job.occurrences \subseteq Phone!Slots
      /\ Phone!Past(job, t) \subseteq job.occurrences /\ \A o \in Phone!Past(job, t) : o <= t
      /\ \A o \in job.occurrences : o \notin Phone!Past(job, t) => ~(o <= t)
  BY DEF Phone!Store, Phone!Job, Phone!Past
<1>2. \/ n = paid /\ owed # 0
      \/ n = failed /\ owed # 0
      \/ n = catches /\ owed # 0
      \/ n = waits
  BY DEF Phone!NextOccurrence
<1>3. /\ owed \in Phone!Time /\ (owed # 0 => owed \in Phone!Past(job, t))
      /\ soonest \in Phone!Time /\ (soonest # 0 => soonest \in job.occurrences)
      /\ \A o \in job.occurrences : o > t => soonest # 0
  <2>1. Phone!Past(job, t) \subseteq Phone!Slots
        /\ job.occurrences \ Phone!Past(job, t) \subseteq Phone!Slots
    BY <1>1
  <2>2. \A o \in job.occurrences : o > t => o \in job.occurrences \ Phone!Past(job, t)
    BY <1>1 DEF Phone!Time, Phone!Slots, Phone!AndroidAssumption, Phone!Past
  <2> QED BY <1>1, <2>1, <2>2, LatestIs, EarliestIs
<1>4. cleared \in Phone!Entries
  BY <1>1 DEF Phone!Entries
<1>5. Shrinks(job, job) /\ Shrinks(Phone!Recorded(job, t), job)
      /\ Phone!ReportOf(Phone!Recorded(job, t)) \in Phone!Report
  BY <1>1, RecordedIs DEF Shrinks
<1>6. /\ owed # 0 => \E o \in job.occurrences : o <= t
      /\ owed # 0 => t # 0
      /\ soonest # 0 => \E o \in job.occurrences : o <= soonest
  <2>1. \A o \in job.occurrences : o \in Nat /\ o # 0
    BY <1>1 DEF Phone!Slots
  <2>2. t \in Nat
    BY DEF Phone!Time
  <2> HIDE DEF job, owed, soonest
  <2>3. owed # 0 => owed \in job.occurrences /\ owed <= t
    BY <1>1, <1>3
  <2>4. owed # 0 => t # 0
    BY <2>1, <2>2, <2>3
  <2>5. soonest # 0 => soonest \in job.occurrences /\ soonest <= soonest
    BY <1>3, <2>1
  <2> QED BY <2>3, <2>4, <2>5
<1> HIDE DEF job, owed, soonest, e, cleared, n
<1>7. NextIs(n, s, j, t)
  <2>1. CASE n = paid /\ owed # 0
    BY <1>1, <1>3, <1>4, <1>5, <1>6, <2>1 DEF NextIs, Shrinks, job
  <2>2. CASE n \in {failed, catches} /\ owed # 0
    BY <1>1, <1>3, <1>4, <1>5, <1>6, <2>2 DEF NextIs, job
  <2>3. CASE n = waits
    BY <1>1, <1>3, <1>4, <1>5, <1>6, <2>3 DEF NextIs, job
  <2> QED BY <1>2, <2>1, <2>2, <2>3
<1> QED BY <1>7 DEF n

\* rearmAll(): every job that may fire is armed for what nextOccurrence() says.
LEMMA RearmedIs ==
  ASSUME Phone!AndroidAssumption, NEW s \in Phone!Store, now \in Phone!Time,
         alarm \in [Scheduled -> Phone!Time]
  PROVE  /\ Phone!Rearmed(s, now).store \in Phone!Store
         /\ Phone!Rearmed(s, now).alarm \in [Scheduled -> Phone!Time]
         /\ \A j \in Scheduled :
              IF Phone!MayFire(s.jobs[j])
                THEN \E n : /\ NextIs(n, s, j, now) /\ Phone!Rearmed(s, now).alarm[j] = n.wake
                            /\ Phone!Rearmed(s, now).store.jobs[j] = n.job
                ELSE Phone!Rearmed(s, now).store.jobs[j] = s.jobs[j]
<1> DEFINE rests(j) == [job |-> s.jobs[j], run |-> s.runs[j], entries |-> s.ledger[j],
                        wake |-> IF s.jobs[j].on THEN 0 ELSE alarm[j]]
           n(j) == IF Phone!MayFire(s.jobs[j]) THEN Phone!NextOccurrence(s, j, now) ELSE rests(j)
           r    == [store |-> [jobs |-> [j \in Scheduled |-> n(j).job],
                               ledger |-> [j \in Scheduled |-> n(j).entries],
                               runs |-> [j \in Scheduled |-> n(j).run]],
                    alarm |-> [j \in Scheduled |-> n(j).wake]]
<1>1. Phone!Rearmed(s, now) = r
  BY DEF Phone!Rearmed
<1>2. ASSUME NEW j \in Scheduled
      PROVE  /\ n(j).job \in Phone!Job /\ n(j).run \in Phone!Report
             /\ n(j).entries \in Phone!Entries
             /\ n(j).wake \in Phone!Time
             /\ Phone!MayFire(s.jobs[j]) => NextIs(n(j), s, j, now)
             /\ ~Phone!MayFire(s.jobs[j]) => n(j).job = s.jobs[j]
  <2>1. CASE Phone!MayFire(s.jobs[j])
    <3>1. n(j) = Phone!NextOccurrence(s, j, now)
      BY <2>1
    <3>2. NextIs(n(j), s, j, now)
      BY <3>1, NextOccurrenceIs
    <3> HIDE DEF n
    <3> QED BY <2>1, <3>2 DEF NextIs, Shrinks
  <2>2. CASE ~Phone!MayFire(s.jobs[j])
    <3>1. 0 \in Phone!Time /\ n(j) = rests(j)
      BY <2>2 DEF Phone!Time, Phone!AndroidAssumption
    <3> QED BY <2>2, <3>1 DEF Phone!Store
  <2> QED BY <2>1, <2>2
<1> HIDE DEF n
<1>3. r.store \in Phone!Store /\ r.alarm \in [Scheduled -> Phone!Time]
  BY <1>2 DEF Phone!Store
<1>4. ASSUME NEW j \in Scheduled
      PROVE  IF Phone!MayFire(s.jobs[j])
               THEN \E m : NextIs(m, s, j, now) /\ r.alarm[j] = m.wake /\ r.store.jobs[j] = m.job
               ELSE r.store.jobs[j] = s.jobs[j]
  <2>1. r.alarm[j] = n(j).wake /\ r.store.jobs[j] = n(j).job
    OBVIOUS
  <2> HIDE DEF r
  <2> QED BY <1>2, <2>1
<1> QED BY <1>1, <1>3, <1>4

LEMMA ToldType ==
  ASSUME NEW runs \in [Scheduled -> Phone!Report], hand \in [Scheduled -> Phone!Report]
  PROVE  Phone!Told(runs) \in [Scheduled -> Phone!Report]
BY DEF Phone!Told

-----------------------------------------------------------------------------
(* Types of the phone *)

StoreTypes ==
  /\ now \in Phone!Time /\ prefs \in Phone!Store /\ phoneDisk \in Phone!Store
  /\ alarm \in [Scheduled -> Phone!Time] /\ work \in [Scheduled -> Phone!Work]

\* What a work has read, by its step: something only when it is about to write.
Readable(step) ==
  CASE step = "recording" -> [Scheduled -> Phone!Job]
    [] step = "queueing" -> [Scheduled -> Phone!Report]
    [] step \in {"claiming", "marking", "accepting", "ending"} -> [Scheduled -> Phone!Entries]
    [] OTHER -> {}

SeenTypes ==
  /\ seen = [j \in Scheduled |-> seen[j]]
  /\ \A j \in Scheduled : seen[j] \subseteq Readable(work[j].step)

WebTypes ==
  /\ app \in {"shut", "opening", "open"} /\ web \in [Scheduled -> Phone!Job]
  /\ hand \in [Scheduled -> Phone!Report]
  /\ note \subseteq Scheduled /\ booting \in BOOLEAN /\ owesSync \in BOOLEAN
  /\ owesDrain \in BOOLEAN

GhostTypes ==
  /\ sent \in [Scheduled -> [Phone!Time -> 0..2]]
  /\ disturbed \subseteq {"opened", "clobbered", "interrupted", "unsaved", "noAccount"}
  /\ opens \in Nat /\ kills \in Nat /\ lost \in Nat /\ edits \in Nat /\ taps \in Nat

PhoneTypes == StoreTypes /\ SeenTypes /\ WebTypes /\ GhostTypes

LEMMA TypesAreOK == PhoneTypes => Phone!TypeOK
<1> SUFFICES ASSUME PhoneTypes PROVE Phone!TypeOK
  OBVIOUS
<1>1. \A j \in Scheduled :
        seen[j] \subseteq CASE work[j].step = "recording" -> [Scheduled -> Phone!Job]
                           [] work[j].step = "queueing" -> [Scheduled -> Phone!Report]
                           [] OTHER -> [Scheduled -> Phone!Entries]
  BY DEF PhoneTypes, SeenTypes, Readable
<1>2. /\ {booting, owesSync, owesDrain} \subseteq BOOLEAN
      /\ {opens, kills, lost, edits, taps} \subseteq Nat
  BY DEF PhoneTypes, WebTypes, GhostTypes
<1> QED BY <1>1, <1>2 DEF PhoneTypes, StoreTypes, WebTypes, GhostTypes, Phone!TypeOK

LEMMA InitTypes == ASSUME Phone!AndroidAssumption, Phone!Init PROVE PhoneTypes
<1>1. 0 \in Phone!Time /\ Phone!NoReport \in Phone!Report /\ Phone!NoWork \in Phone!Work
  BY Plain DEF Phone!Time, Phone!AndroidAssumption
<1>2. web \in [Scheduled -> Phone!Job]
  <2> DEFINE new(p) == [on |-> TRUE, mine |-> TRUE, account |-> TRUE, plan |-> p,
                        occurrences |-> p, ranAt |-> 0]
  <2>1. \A p \in Plans : new(p) \in Phone!Job
    BY <1>1 DEF Phone!Job, Phone!AndroidAssumption, Phone!Slots
  <2>2. web \in [Scheduled -> {new(p) : p \in Plans}]
    BY DEF Phone!Init
  <2> HIDE DEF new
  <2> QED BY <2>1, <2>2
<1>3. [j \in Scheduled |-> [o \in Phone!Slots |-> "none"]] \in [Scheduled -> Phone!Entries]
  BY DEF Phone!Entries
<1>4. prefs \in Phone!Store /\ phoneDisk \in Phone!Store
  BY <1>1, <1>2, <1>3 DEF Phone!Init, Phone!Store
<1>5. alarm \in [Scheduled -> Phone!Time]
  <2>1. \A j \in Scheduled : web[j].occurrences \subseteq Phone!Slots
    BY <1>2 DEF Phone!Job
  <2> QED BY <2>1, EarliestIs DEF Phone!Init
<1>6. StoreTypes
  BY <1>1, <1>4, <1>5 DEF Phone!Init, StoreTypes
<1>7. SeenTypes
  BY DEF Phone!Init, SeenTypes, Phone!NoWork, Readable
<1>8. WebTypes
  BY <1>1, <1>2 DEF Phone!Init, WebTypes
<1>9. GhostTypes
  <2>1. sent \in [Scheduled -> [Phone!Time -> 0..2]]
    BY DEF Phone!Init
  <2> QED BY <2>1 DEF Phone!Init, GhostTypes
<1> QED BY <1>6, <1>7, <1>8, <1>9 DEF PhoneTypes

-----------------------------------------------------------------------------
(* Every step keeps the types *)

\* Only the work of j moves, and only j has read something else.
OneWorks(j) ==
  /\ work' = [k \in Scheduled |-> IF k = j THEN work'[j] ELSE work[k]]
  /\ seen' = [k \in Scheduled |-> IF k = j THEN seen'[j] ELSE seen[k]]
  /\ work'[j] \in Phone!Work /\ seen'[j] \subseteq Readable(work'[j].step)

LEMMA OneWorksTypes ==
  ASSUME PhoneTypes, NEW j \in Scheduled, OneWorks(j)
  PROVE  work' \in [Scheduled -> Phone!Work] /\ SeenTypes'
<1>1. \A k \in Scheduled : work'[k] = IF k = j THEN work'[j] ELSE work[k]
  BY DEF OneWorks
<1>2. \A k \in Scheduled : seen'[k] = IF k = j THEN seen'[j] ELSE seen[k]
  BY DEF OneWorks
<1>3. work' \in [Scheduled -> Phone!Work]
  BY DEF OneWorks, PhoneTypes, StoreTypes
<1>4. seen' = [k \in Scheduled |-> seen'[k]]
  BY DEF OneWorks
<1>5. \A k \in Scheduled : seen'[k] \subseteq Readable(work'[k].step)
  BY <1>1, <1>2 DEF OneWorks, PhoneTypes, SeenTypes
<1> QED BY <1>3, <1>4, <1>5 DEF SeenTypes

LEMMA WorkIs ==
  ASSUME PhoneTypes, NEW j \in Scheduled
  PROVE  /\ work[j] \in Phone!Work /\ prefs.jobs \in [Scheduled -> Phone!Job]
         /\ prefs.ledger \in [Scheduled -> Phone!Entries]
         /\ prefs.runs \in [Scheduled -> Phone!Report] /\ prefs.jobs[j] \in Phone!Job
         /\ prefs.jobs[j].occurrences \subseteq Phone!Slots
         /\ seen[j] \subseteq Readable(work[j].step)
BY DEF PhoneTypes, StoreTypes, SeenTypes, Phone!Store, Phone!Job

\* A work that is begun anew as one more attempt.
LEMMA AgainType ==
  ASSUME Phone!AndroidAssumption, PhoneTypes, NEW j \in Scheduled
  PROVE  [Phone!NoWork EXCEPT !.step = "enqueued", !.attempt = work[j].attempt + 1,
                        !.pays = work[j].pays] \in Phone!Work
<1>1. work[j].attempt \in Nat /\ work[j].pays \in Phone!Time
  BY WorkIs DEF Phone!Work
<1>2. work[j].attempt + 1 \in Nat /\ 0 \in Phone!Time
  BY <1>1 DEF Phone!Time, Phone!AndroidAssumption
<1> QED BY <1>1, <1>2 DEF Phone!Work, Phone!NoWork, Phone!Steps, Phone!Outcomes

LEMMA AlarmFiresTypes ==
  ASSUME Phone!AndroidAssumption, PhoneTypes, NEW j \in Scheduled, Phone!AlarmFires(j)
  PROVE  PhoneTypes'
<1>1. work[j] \in Phone!Work /\ Phone!NoWork \in Phone!Work /\ 0 \in Phone!Time
  BY WorkIs, Plain DEF Phone!Time, Phone!AndroidAssumption
<1>2. [Phone!NoWork EXCEPT !.step = "enqueued"] \in Phone!Work
  BY <1>1 DEF Phone!Work, Phone!NoWork, Phone!Steps
<1>3. OneWorks(j)
  BY <1>1, <1>2 DEF Phone!AlarmFires, OneWorks, Phone!Enqueued, PhoneTypes, StoreTypes,
     SeenTypes, Readable, Phone!NoWork
<1>4. work' \in [Scheduled -> Phone!Work] /\ SeenTypes'
  BY <1>3, OneWorksTypes
<1>5. alarm' \in [Scheduled -> Phone!Time]
  BY <1>1 DEF Phone!AlarmFires, PhoneTypes, StoreTypes
<1> QED
  BY <1>4, <1>5 DEF Phone!AlarmFires, PhoneTypes, StoreTypes, WebTypes, GhostTypes,
     Phone!storeVars, Phone!webVars, Phone!ghosts, Phone!budgets

LEMMA RetryNowTypes ==
  ASSUME Phone!AndroidAssumption, PhoneTypes, NEW j \in Scheduled, Phone!RetryNow(j)
  PROVE  PhoneTypes'
<1>1. work[j] \in Phone!Work /\ Phone!NoWork \in Phone!Work
  BY WorkIs, Plain
<1>2. [Phone!NoWork EXCEPT !.step = "enqueued"] \in Phone!Work
  BY <1>1 DEF Phone!Work, Phone!NoWork, Phone!Steps
<1>3. OneWorks(j)
  BY <1>1, <1>2 DEF Phone!RetryNow, OneWorks, Phone!Enqueued, PhoneTypes, StoreTypes, SeenTypes,
     Readable, Phone!NoWork
<1>4. work' \in [Scheduled -> Phone!Work] /\ SeenTypes'
  BY <1>3, OneWorksTypes
<1> QED
  BY <1>4 DEF Phone!RetryNow, PhoneTypes, StoreTypes, WebTypes, GhostTypes, Phone!storeVars,
     Phone!webVars, Phone!ghosts

\* What rearmAll() changes.
LEMMA RearmsTypes ==
  ASSUME Phone!AndroidAssumption, PhoneTypes, NEW s \in Phone!Store, Phone!Rearms(s)
  PROVE  prefs' \in Phone!Store /\ alarm' \in [Scheduled -> Phone!Time]
         /\ hand' \in [Scheduled -> Phone!Report]
<1> DEFINE r == Phone!Rearmed(s, now)
<1>1. r.store \in Phone!Store /\ r.alarm \in [Scheduled -> Phone!Time]
  BY RearmedIs DEF PhoneTypes, StoreTypes
<1>2. prefs' = r.store /\ alarm' = r.alarm /\ hand' = Phone!Told(r.store.runs)
  BY DEF Phone!Rearms
<1> HIDE DEF r
<1>3. Phone!Told(r.store.runs) \in [Scheduled -> Phone!Report]
  BY <1>1, ToldType DEF Phone!Store, PhoneTypes, WebTypes
<1> QED BY <1>1, <1>2, <1>3

LEMMA BootReceivedTypes ==
  ASSUME Phone!AndroidAssumption, PhoneTypes, Phone!BootReceived PROVE PhoneTypes'
<1>1. prefs' \in Phone!Store /\ alarm' \in [Scheduled -> Phone!Time]
      /\ hand' \in [Scheduled -> Phone!Report]
  BY RearmsTypes DEF Phone!BootReceived, PhoneTypes, StoreTypes
<1> QED
  BY <1>1 DEF Phone!BootReceived, PhoneTypes, StoreTypes, SeenTypes, WebTypes, GhostTypes,
     Phone!webVars, Phone!ghosts, Phone!budgets

\* Nothing but the works, what they have read and the store of mails moves in a step of a work.
LEMMA WorkStepTypes ==
  ASSUME Phone!AndroidAssumption, PhoneTypes, NEW j \in Scheduled, OneWorks(j),
         prefs' \in Phone!Store, phoneDisk' \in Phone!Store, alarm' \in [Scheduled -> Phone!Time],
         hand' \in [Scheduled -> Phone!Report], note' \subseteq Scheduled,
         sent' \in [Scheduled -> [Phone!Time -> 0..2]],
         disturbed' \subseteq disturbed \cup {"clobbered", "noAccount"},
         lost' \in Nat, UNCHANGED <<now, booting, Phone!webVars, opens, kills, edits, taps>>
  PROVE  PhoneTypes'
<1>1. work' \in [Scheduled -> Phone!Work] /\ SeenTypes'
  BY OneWorksTypes
<1> QED BY <1>1 DEF PhoneTypes, StoreTypes, WebTypes, GhostTypes, Phone!webVars

LEMMA StartsTypes ==
  ASSUME Phone!AndroidAssumption, PhoneTypes, NEW j \in Scheduled, Phone!Starts(j)
  PROVE  PhoneTypes'
<1> DEFINE due == IF work[j].attempt = 0 THEN Phone!Latest(Phone!Past(prefs.jobs[j], now))
                  ELSE Phone!DueAgain(j)
           pays == IF work[j].pays # 0 THEN work[j].pays
                   ELSE IF due # 0 THEN due
                   ELSE Phone!Latest({o \in prefs.jobs[j].plan : o <= now})
<1>1. /\ work[j] \in Phone!Work /\ prefs.jobs[j] \in Phone!Job
      /\ prefs.ledger \in [Scheduled -> Phone!Entries]
      /\ Phone!NoWork \in Phone!Work /\ work[j].step = "enqueued"
  BY WorkIs, Plain DEF Phone!Starts
<1>2. due \in Phone!Time
  <2>1. Phone!Past(prefs.jobs[j], now) \subseteq Phone!Slots
        /\ {o \in Phone!Slots : prefs.ledger[j][o] # "none"} \subseteq Phone!Slots
    BY <1>1 DEF Phone!Past, Phone!Job
  <2> QED BY <2>1, LatestIs DEF Phone!DueAgain
<1>3. pays \in Phone!Time
  <2>1. {o \in prefs.jobs[j].plan : o <= now} \subseteq Phone!Slots
    BY <1>1 DEF Phone!Job, Phone!AndroidAssumption, Phone!Slots
  <2> QED BY <1>1, <1>2, <2>1, LatestIs DEF Phone!Work
<1>4. \/ work' = [work EXCEPT ![j] = Phone!NoWork] /\ UNCHANGED seen
      \/ /\ work' = [work EXCEPT ![j].step = "claiming", ![j].due = due, ![j].pays = pays]
         /\ seen' = [seen EXCEPT ![j] = {prefs.ledger}]
      \/ /\ work' = [work EXCEPT ![j].step = "deciding", ![j].due = due, ![j].pays = pays]
         /\ UNCHANGED seen
  BY DEF Phone!Starts
<1>5. OneWorks(j)
  <2>1. seen[j] = {} /\ work \in [Scheduled -> Phone!Work] /\ seen = [k \in Scheduled |-> seen[k]]
    BY <1>1 DEF PhoneTypes, StoreTypes, SeenTypes, Readable
  <2> HIDE DEF due, pays
  <2>2. CASE work' = [work EXCEPT ![j] = Phone!NoWork] /\ UNCHANGED seen
    BY <1>1, <2>1, <2>2 DEF OneWorks
  <2>3. CASE /\ work' = [work EXCEPT ![j].step = "claiming", ![j].due = due, ![j].pays = pays]
             /\ seen' = [seen EXCEPT ![j] = {prefs.ledger}]
    <3>1. work'[j] \in Phone!Work /\ work'[j].step = "claiming"
      BY <1>1, <1>2, <1>3, <2>1, <2>3 DEF Phone!Work, Phone!Steps
    <3>2. seen'[j] = {prefs.ledger}
      BY <2>1, <2>3
    <3>3. seen'[j] \subseteq Readable(work'[j].step)
      BY <1>1, <3>1, <3>2 DEF Readable
    <3> QED BY <2>1, <2>3, <3>1, <3>3 DEF OneWorks
  <2>4. CASE /\ work' = [work EXCEPT ![j].step = "deciding", ![j].due = due, ![j].pays = pays]
             /\ UNCHANGED seen
    <3>1. work'[j] \in Phone!Work
      BY <1>1, <1>2, <1>3, <2>1, <2>4 DEF Phone!Work, Phone!Steps
    <3> QED BY <2>1, <2>4, <3>1 DEF OneWorks
  <2> QED BY <1>4, <2>2, <2>3, <2>4
<1> HIDE DEF due, pays
<1> QED
  BY <1>5, WorkStepTypes DEF Phone!Starts, PhoneTypes, StoreTypes, WebTypes, GhostTypes,
     Phone!storeVars, Phone!ghosts, Phone!budgets

LEMMA ReadsTypes ==
  ASSUME Phone!AndroidAssumption, PhoneTypes, NEW j \in Scheduled, Phone!Reads(j)
  PROVE  PhoneTypes'
<1>1. /\ work[j] \in Phone!Work /\ prefs.jobs \in [Scheduled -> Phone!Job]
      /\ prefs.ledger \in [Scheduled -> Phone!Entries]
      /\ prefs.runs \in [Scheduled -> Phone!Report] /\ seen = [k \in Scheduled |-> seen[k]]
  BY WorkIs DEF PhoneTypes, SeenTypes
<1>2. /\ seen' = [k \in Scheduled |-> IF k = j THEN seen'[j] ELSE seen[k]]
      /\ seen'[j] = IF work[j].step = "recording" THEN {prefs.jobs}
                    ELSE IF work[j].step = "queueing" THEN {prefs.runs} ELSE {prefs.ledger}
  BY <1>1 DEF Phone!Reads
<1>3. seen'[j] \subseteq Readable(work[j].step)
  BY <1>1, <1>2 DEF Phone!Reads, Readable
<1>4. OneWorks(j)
  BY <1>1, <1>2, <1>3 DEF Phone!Reads, OneWorks, PhoneTypes, StoreTypes
<1> QED
  BY <1>4, WorkStepTypes DEF Phone!Reads, PhoneTypes, StoreTypes, WebTypes, GhostTypes,
     Phone!storeVars, Phone!ghosts, Phone!budgets

LEMMA WritesType ==
  ASSUME Phone!AndroidAssumption, PhoneTypes, NEW j \in Scheduled,
         NEW ledger \in [Scheduled -> Phone!Entries],
         NEW mark \in {"none", "claimed", "sending", "accepted"}, Phone!Writes(ledger, j, mark)
  PROVE  prefs' \in Phone!Store /\ prefs'.jobs = prefs.jobs /\ prefs'.runs = prefs.runs
BY DEF Phone!Writes, PhoneTypes, StoreTypes, Phone!Store, Phone!Entries

LEMMA ClaimsTypes ==
  ASSUME Phone!AndroidAssumption, PhoneTypes, NEW j \in Scheduled, Phone!Claims(j)
  PROVE  PhoneTypes'
<1>1. work[j] \in Phone!Work /\ work[j].step = "claiming"
      /\ seen[j] \subseteq [Scheduled -> Phone!Entries]
  BY WorkIs DEF Phone!Claims, Readable
<1>2. prefs' \in Phone!Store
  BY <1>1, WritesType DEF Phone!Claims
<1>3. OneWorks(j)
  BY <1>1 DEF Phone!Claims, Phone!To, OneWorks, PhoneTypes, StoreTypes, SeenTypes, Phone!Work,
     Phone!Steps
<1> QED
  BY <1>2, <1>3, WorkStepTypes DEF Phone!Claims, PhoneTypes, StoreTypes, WebTypes, GhostTypes,
     Phone!ghosts, Phone!budgets

LEMMA DecidesTypes ==
  ASSUME Phone!AndroidAssumption, PhoneTypes, NEW j \in Scheduled, Phone!Decides(j)
  PROVE  PhoneTypes'
<1>1. /\ work[j] \in Phone!Work /\ work[j].step = "deciding" /\ seen[j] = {} /\ now \in Phone!Time
      /\ seen = [k \in Scheduled |-> seen[k]] /\ work \in [Scheduled -> Phone!Work]
  BY WorkIs DEF Phone!Decides, Readable, PhoneTypes, StoreTypes, SeenTypes
<1>2. work' = [k \in Scheduled |-> IF k = j THEN work'[j] ELSE work[k]] /\ work'[j] \in Phone!Work
  BY <1>1 DEF Phone!Decides, Phone!To, Phone!Work, Phone!Steps, Phone!Outcomes
<1>3. OneWorks(j)
  BY <1>1, <1>2 DEF Phone!Decides, OneWorks
<1> QED
  BY <1>3, WorkStepTypes DEF Phone!Decides, PhoneTypes, StoreTypes, WebTypes, GhostTypes,
     Phone!storeVars, Phone!budgets

LEMMA MarksSendingTypes ==
  ASSUME Phone!AndroidAssumption, PhoneTypes, NEW j \in Scheduled, Phone!MarksSending(j)
  PROVE  PhoneTypes'
<1>1. work[j] \in Phone!Work /\ work[j].step = "marking"
      /\ seen[j] \subseteq [Scheduled -> Phone!Entries]
  BY WorkIs DEF Phone!MarksSending, Readable
<1>2. prefs' \in Phone!Store /\ phoneDisk' \in Phone!Store
  <2>1. PICK ledger \in seen[j] :
          IF Phone!HasEntry(ledger, j)
            THEN Phone!Writes(ledger, j, "sending") /\ Phone!ToFile
            ELSE UNCHANGED Phone!storeVars
    BY DEF Phone!MarksSending
  <2>2. CASE Phone!HasEntry(ledger, j)
    BY <1>1, <2>1, <2>2, WritesType DEF Phone!ToFile, PhoneTypes, StoreTypes
  <2>3. CASE ~Phone!HasEntry(ledger, j)
    BY <2>1, <2>3 DEF Phone!storeVars, PhoneTypes, StoreTypes
  <2> QED BY <2>2, <2>3
<1>3. OneWorks(j)
  BY <1>1 DEF Phone!MarksSending, Phone!To, OneWorks, PhoneTypes, StoreTypes, SeenTypes,
     Phone!Work, Phone!Steps
<1> QED
  BY <1>2, <1>3, WorkStepTypes DEF Phone!MarksSending, PhoneTypes, StoreTypes, WebTypes,
     GhostTypes, Phone!ghosts, Phone!budgets

LEMMA DeliveredType ==
  ASSUME Phone!AndroidAssumption, PhoneTypes, NEW j \in Scheduled, Phone!Delivered(j)
  PROVE  sent' \in [Scheduled -> [Phone!Time -> 0..2]]
<1>1. work[j].pays \in Phone!Time /\ sent \in [Scheduled -> [Phone!Time -> 0..2]]
  BY WorkIs DEF Phone!Work, PhoneTypes, GhostTypes
<1>2. \A n \in 0..2 : (IF n < 2 THEN n + 1 ELSE n) \in 0..2
  OBVIOUS
<1> QED BY <1>1, <1>2 DEF Phone!Delivered

LEMMA SendsTypes ==
  ASSUME Phone!AndroidAssumption, PhoneTypes, NEW j \in Scheduled, Phone!Sends(j)
  PROVE  PhoneTypes'
<1>1. /\ work[j] \in Phone!Work /\ work[j].step = "sending" /\ seen[j] = {} /\ now \in Phone!Time
      /\ seen = [k \in Scheduled |-> seen[k]] /\ work \in [Scheduled -> Phone!Work]
  BY WorkIs DEF Phone!Sends, Readable, PhoneTypes, StoreTypes, SeenTypes
<1>2. work' = [k \in Scheduled |-> IF k = j THEN work'[j] ELSE work[k]] /\ work'[j] \in Phone!Work
  BY <1>1 DEF Phone!Sends, Phone!Work, Phone!Steps, Phone!Outcomes
<1>3. OneWorks(j)
  BY <1>1, <1>2 DEF Phone!Sends, OneWorks
<1>4. sent' \in [Scheduled -> [Phone!Time -> 0..2]] /\ lost' \in Nat
  BY DeliveredType DEF Phone!Sends, PhoneTypes, GhostTypes
<1> QED
  BY <1>3, <1>4, WorkStepTypes DEF Phone!Sends, PhoneTypes, StoreTypes, WebTypes, GhostTypes,
     Phone!storeVars

LEMMA MarksAcceptedTypes ==
  ASSUME Phone!AndroidAssumption, PhoneTypes, NEW j \in Scheduled, Phone!MarksAccepted(j)
  PROVE  PhoneTypes'
<1>1. /\ work[j] \in Phone!Work /\ work[j].step = "accepting"
      /\ seen[j] \subseteq [Scheduled -> Phone!Entries]
      /\ now \in Phone!Time
  BY WorkIs DEF Phone!MarksAccepted, Readable, PhoneTypes, StoreTypes
<1>2. prefs' \in Phone!Store
  BY <1>1, WritesType DEF Phone!MarksAccepted, PhoneTypes, StoreTypes
<1>3. OneWorks(j)
  BY <1>1 DEF Phone!MarksAccepted, OneWorks, PhoneTypes, StoreTypes, SeenTypes, Phone!Work,
     Phone!Steps
<1> QED
  BY <1>2, <1>3, WorkStepTypes DEF Phone!MarksAccepted, PhoneTypes, StoreTypes, WebTypes,
     GhostTypes, Phone!ghosts, Phone!budgets

LEMMA RecordsTypes ==
  ASSUME Phone!AndroidAssumption, PhoneTypes, NEW j \in Scheduled, Phone!Records(j)
  PROVE  PhoneTypes'
<1>1. /\ work[j] \in Phone!Work /\ work[j].step = "recording"
      /\ seen[j] \subseteq [Scheduled -> Phone!Job]
      /\ prefs \in Phone!Store
  BY WorkIs DEF Phone!Records, Readable, PhoneTypes, StoreTypes
<1>2. PICK jobs \in seen[j] :
        /\ prefs' = [prefs EXCEPT !.jobs =
             [jobs EXCEPT ![j] = IF @.on THEN Phone!Recorded(@, work[j].ranAt) ELSE @]]
        /\ disturbed' = IF jobs = prefs.jobs THEN disturbed ELSE disturbed \cup {"clobbered"}
        /\ Phone!To(j, IF jobs[j].on THEN "queueing"
                 ELSE IF work[j].outcome = "noAccount" THEN "ending" ELSE "arming")
  BY DEF Phone!Records
<1>3. prefs' \in Phone!Store
  <2>1. jobs \in [Scheduled -> Phone!Job] /\ Phone!Recorded(jobs[j], work[j].ranAt) \in Phone!Job
    BY <1>1, RecordedIs DEF Phone!Work
  <2> QED BY <1>1, <1>2, <2>1 DEF Phone!Store
<1>4. OneWorks(j)
  BY <1>1, <1>2 DEF Phone!Records, Phone!To, OneWorks, PhoneTypes, StoreTypes, SeenTypes,
     Phone!Work, Phone!Steps
<1> QED
  BY <1>2, <1>3, <1>4, WorkStepTypes DEF Phone!Records, PhoneTypes, StoreTypes, WebTypes,
     GhostTypes, Phone!budgets

LEMMA QueuesTypes ==
  ASSUME Phone!AndroidAssumption, PhoneTypes, NEW j \in Scheduled, Phone!Queues(j)
  PROVE  PhoneTypes'
<1>1. /\ work[j] \in Phone!Work /\ work[j].step = "queueing"
      /\ seen[j] \subseteq [Scheduled -> Phone!Report]
      /\ prefs \in Phone!Store /\ prefs.jobs[j] \in Phone!Job
      /\ hand \in [Scheduled -> Phone!Report]
  BY WorkIs DEF Phone!Queues, Readable, PhoneTypes, StoreTypes, WebTypes
<1>2. PICK queued \in seen[j] :
        LET runs == [queued EXCEPT ![j] =
                       [Phone!ReportOf(prefs.jobs[j]) EXCEPT !.ranAt = work[j].ranAt]]
        IN  /\ prefs' = [prefs EXCEPT !.runs = runs]
            /\ hand' = IF app # "shut" /\ work[j].outcome # "noAccount"
                       THEN [hand EXCEPT ![j] = runs[j]] ELSE hand
  BY DEF Phone!Queues
<1>3. prefs' \in Phone!Store /\ hand' \in [Scheduled -> Phone!Report]
  <2> DEFINE made == [Phone!ReportOf(prefs.jobs[j]) EXCEPT !.ranAt = work[j].ranAt]
             runs == [queued EXCEPT ![j] = made]
  <2>1. made \in Phone!Report
    BY <1>1 DEF Phone!ReportOf, Phone!Report, Phone!Job, Phone!Work
  <2>2. prefs' = [prefs EXCEPT !.runs = runs]
        /\ (hand' = [hand EXCEPT ![j] = runs[j]] \/ hand' = hand)
    BY <1>2
  <2> HIDE DEF made
  <2>3. runs \in [Scheduled -> Phone!Report] /\ runs[j] \in Phone!Report
    BY <1>1, <2>1
  <2> HIDE DEF runs
  <2> QED BY <1>1, <2>2, <2>3 DEF Phone!Store
<1>4. OneWorks(j)
  BY <1>1 DEF Phone!Queues, Phone!To, OneWorks, PhoneTypes, StoreTypes, SeenTypes, Phone!Work,
     Phone!Steps
<1> QED
  BY <1>3, <1>4, WorkStepTypes DEF Phone!Queues, PhoneTypes, StoreTypes, WebTypes, GhostTypes,
     Phone!ghosts, Phone!budgets

\* armNext() puts back the job and arms it, as nextOccurrence() has it.
LEMMA ArmsNextDoes ==
  ASSUME Phone!AndroidAssumption, PhoneTypes, NEW j \in Scheduled, Phone!ArmsNext(j),
         prefs.jobs[j].on
  PROVE  \E n : /\ NextIs(n, prefs, j, now)
                /\ prefs'.jobs = [prefs.jobs EXCEPT ![j] = n.job]
                /\ alarm' = Phone!Armed(j, n.wake)
                /\ prefs' \in Phone!Store /\ alarm' \in [Scheduled -> Phone!Time]
                /\ hand' \in [Scheduled -> Phone!Report]
<1> DEFINE n == Phone!NextOccurrence(prefs, j, now)
           new == [jobs |-> [prefs.jobs EXCEPT ![j] = n.job],
                   ledger |-> [prefs.ledger EXCEPT ![j] = n.entries],
                   runs |-> [prefs.runs EXCEPT ![j] = n.run]]
<1>1. NextIs(n, prefs, j, now) /\ prefs \in Phone!Store
  BY NextOccurrenceIs DEF PhoneTypes, StoreTypes
<1>2. prefs' = new /\ hand' = Phone!Told(new.runs) /\ alarm' = Phone!Armed(j, n.wake)
  BY DEF Phone!ArmsNext
<1> HIDE DEF n
<1>3. n.job \in Phone!Job /\ n.run \in Phone!Report /\ n.entries \in Phone!Entries
      /\ n.wake \in Phone!Time
  BY <1>1 DEF NextIs, Shrinks
<1>4. new \in Phone!Store
  BY <1>1, <1>3 DEF Phone!Store
<1>5. Phone!Told(new.runs) \in [Scheduled -> Phone!Report]
  <2> DEFINE runs == new.runs
  <2>1. runs \in [Scheduled -> Phone!Report]
    BY <1>4 DEF Phone!Store
  <2>2. hand \in [Scheduled -> Phone!Report]
    BY DEF PhoneTypes, WebTypes
  <2> HIDE DEF runs
  <2>3. Phone!Told(runs) \in [Scheduled -> Phone!Report]
    BY <2>1, <2>2, ToldType
  <2> QED BY <2>3 DEF runs
<1>6. alarm' \in [Scheduled -> Phone!Time]
  BY <1>2, <1>3 DEF Phone!Armed, PhoneTypes, StoreTypes
<1> QED BY <1>1, <1>2, <1>4, <1>5, <1>6

LEMMA ArmsNextTypes ==
  ASSUME Phone!AndroidAssumption, PhoneTypes, NEW j \in Scheduled, Phone!ArmsNext(j)
  PROVE  PhoneTypes'
<1>1. /\ work[j] \in Phone!Work /\ work[j].step = "arming" /\ seen[j] = {}
      /\ seen = [k \in Scheduled |-> seen[k]] /\ work \in [Scheduled -> Phone!Work]
  BY WorkIs DEF Phone!ArmsNext, Readable, PhoneTypes, StoreTypes, SeenTypes
<1>2. prefs' \in Phone!Store /\ alarm' \in [Scheduled -> Phone!Time]
      /\ hand' \in [Scheduled -> Phone!Report]
  <2>1. CASE prefs.jobs[j].on
    BY <2>1, ArmsNextDoes
  <2>2. CASE ~prefs.jobs[j].on
    BY <2>2 DEF Phone!ArmsNext, PhoneTypes, StoreTypes, WebTypes
  <2> QED BY <2>1, <2>2
<1>3. OneWorks(j)
  BY <1>1 DEF Phone!ArmsNext, Phone!To, OneWorks, Phone!Work, Phone!Steps
<1> QED
  BY <1>2, <1>3, WorkStepTypes DEF Phone!ArmsNext, PhoneTypes, StoreTypes, WebTypes, GhostTypes,
     Phone!ghosts, Phone!budgets

LEMMA EndsTypes ==
  ASSUME Phone!AndroidAssumption, PhoneTypes, NEW j \in Scheduled, Phone!Ends(j) PROVE PhoneTypes'
<1>1. /\ work[j] \in Phone!Work /\ work[j].step = "ending"
      /\ seen[j] \subseteq [Scheduled -> Phone!Entries]
      /\ prefs \in Phone!Store /\ Phone!NoWork \in Phone!Work /\ note \subseteq Scheduled
  BY WorkIs, Plain DEF Phone!Ends, Readable, PhoneTypes, StoreTypes, WebTypes
<1>2. prefs' \in Phone!Store
  <2>1. CASE Phone!Retries(j)
    BY <1>1, <2>1 DEF Phone!Ends
  <2>2. CASE ~Phone!Retries(j)
    <3>1. PICK ledger \in seen[j] :
            IF Phone!HasEntry(ledger, j) THEN Phone!Writes(ledger, j, "none") ELSE UNCHANGED prefs
      BY <2>2 DEF Phone!Ends
    <3> QED BY <1>1, <3>1, WritesType
  <2> QED BY <2>1, <2>2
<1>3. OneWorks(j)
  <2>1. [Phone!NoWork EXCEPT !.step = "enqueued", !.attempt = work[j].attempt + 1,
                             !.pays = work[j].pays] \in Phone!Work
    BY AgainType
  <2> QED
    BY <1>1, <2>1 DEF Phone!Ends, OneWorks, PhoneTypes, StoreTypes, SeenTypes
<1>4. note' \subseteq Scheduled
  BY <1>1 DEF Phone!Ends
<1> QED
  BY <1>2, <1>3, <1>4, WorkStepTypes DEF Phone!Ends, PhoneTypes, StoreTypes, WebTypes,
     GhostTypes, Phone!ghosts, Phone!budgets

\* A stored or rebuilt list of jobs is one.
LEMMA RefilledType ==
  ASSUME Phone!AndroidAssumption, PhoneTypes, NEW j \in Scheduled
  PROVE  Phone!Refilled(j) \in Phone!Job
<1>1. web[j] \in Phone!Job /\ web[j].occurrences \subseteq Phone!Slots
      /\ web[j].plan \subseteq Phone!Slots
  BY DEF PhoneTypes, WebTypes, Phone!Job, Phone!AndroidAssumption, Phone!Slots
<1>2. Phone!Latest(Phone!Past(web[j], now)) # 0
        => Phone!Latest(Phone!Past(web[j], now)) \in Phone!Slots
  BY <1>1, LatestIs DEF Phone!Past
<1>3. Phone!Past(web[j], now) # {} => Phone!Latest(Phone!Past(web[j], now)) # 0
  BY <1>1, LatestIs DEF Phone!Past
<1> QED BY <1>1, <1>2, <1>3 DEF Phone!Refilled, Phone!Job

LEMMA OpensTypes == ASSUME Phone!AndroidAssumption, PhoneTypes, Phone!Opens PROVE PhoneTypes'
<1>1. web' \in [Scheduled -> Phone!Job]
  BY RefilledType DEF Phone!Opens
<1>2. StoreTypes' /\ SeenTypes'
  BY DEF Phone!Opens, PhoneTypes, StoreTypes, SeenTypes, Phone!storeVars
<1>3. WebTypes'
  BY <1>1 DEF Phone!Opens, PhoneTypes, WebTypes
<1>4. GhostTypes'
  BY DEF Phone!Opens, PhoneTypes, GhostTypes
<1> QED BY <1>2, <1>3, <1>4 DEF PhoneTypes

LEMMA SyncsTypes == ASSUME Phone!AndroidAssumption, PhoneTypes, Phone!Syncs PROVE PhoneTypes'
<1>1. [prefs EXCEPT !.jobs = web] \in Phone!Store
  BY DEF PhoneTypes, StoreTypes, WebTypes, Phone!Store
<1>2. prefs' \in Phone!Store /\ alarm' \in [Scheduled -> Phone!Time]
      /\ hand' \in [Scheduled -> Phone!Report]
  BY <1>1, RearmsTypes DEF Phone!Syncs
<1> QED
  BY <1>2 DEF Phone!Syncs, PhoneTypes, StoreTypes, SeenTypes, WebTypes, GhostTypes,
     Phone!ghosts, Phone!budgets

LEMMA DrainsTypes == ASSUME Phone!AndroidAssumption, PhoneTypes, Phone!Drains PROVE PhoneTypes'
<1>1. prefs' \in Phone!Store /\ hand' \in [Scheduled -> Phone!Report]
  BY Plain DEF Phone!Drains, PhoneTypes, StoreTypes, WebTypes, Phone!Store
<1> QED
  BY <1>1 DEF Phone!Drains, PhoneTypes, StoreTypes, SeenTypes, WebTypes, GhostTypes,
     Phone!ghosts, Phone!budgets

LEMMA HearsRunTypes ==
  ASSUME Phone!AndroidAssumption, PhoneTypes, NEW j \in Scheduled, Phone!HearsRun(j)
  PROVE  PhoneTypes'
<1>1. hand[j] \in Phone!Report /\ web[j] \in Phone!Job
  BY DEF PhoneTypes, WebTypes
<1>2. Phone!Applied(web[j], hand[j]) \in Phone!Job
  BY <1>1 DEF Phone!Applied, Phone!Job, Phone!Report
<1>3. web' \in [Scheduled -> Phone!Job] /\ hand' \in [Scheduled -> Phone!Report]
      /\ owesSync' \in BOOLEAN
  BY <1>2, Plain DEF Phone!HearsRun, PhoneTypes, WebTypes
<1> QED
  BY <1>3 DEF Phone!HearsRun, PhoneTypes, StoreTypes, SeenTypes, WebTypes, GhostTypes,
     Phone!storeVars, Phone!ghosts, Phone!budgets

LEMMA EditsTypes ==
  ASSUME Phone!AndroidAssumption, PhoneTypes, NEW j \in Scheduled, Phone!Edits(j)
  PROVE  PhoneTypes'
<1>1. web[j] \in Phone!Job /\ \A p \in Plans : p \subseteq Phone!Slots
  BY DEF PhoneTypes, WebTypes, Phone!AndroidAssumption, Phone!Slots
<1>2. PICK job \in Phone!Job : web' = [web EXCEPT ![j] = job]
  <2>1. CASE web' = [web EXCEPT ![j].on = ~@,
               ![j].occurrences = IF web[j].on THEN {} ELSE {o \in web[j].plan : o > now}]
    <3> DEFINE job == [web[j] EXCEPT !.on = ~@,
                 !.occurrences = IF web[j].on THEN {} ELSE {o \in web[j].plan : o > now}]
    <3>1. job \in Phone!Job
      BY <1>1 DEF Phone!Job
    <3>2. web' = [web EXCEPT ![j] = job]
      BY <2>1 DEF PhoneTypes, WebTypes, Phone!Job
    <3> QED BY <3>1, <3>2
  <2>2. CASE web' = [web EXCEPT ![j].mine = ~@]
    <3> DEFINE job == [web[j] EXCEPT !.mine = ~@]
    <3>1. job \in Phone!Job
      BY <1>1 DEF Phone!Job
    <3> QED BY <2>2, <3>1
  <2>3. CASE web' = [web EXCEPT ![j].account = ~@]
    <3> DEFINE job == [web[j] EXCEPT !.account = ~@]
    <3>1. job \in Phone!Job
      BY <1>1 DEF Phone!Job
    <3> QED BY <2>3, <3>1
  <2>4. ASSUME NEW p \in Plans \ {web[j].plan},
               web' = [web EXCEPT ![j].plan = p, ![j].occurrences = {o \in p : o > now}]
        PROVE  \E job \in Phone!Job : web' = [web EXCEPT ![j] = job]
    <3> DEFINE job == [web[j] EXCEPT !.plan = p, !.occurrences = {o \in p : o > now}]
    <3>1. job \in Phone!Job
      BY <1>1 DEF Phone!Job
    <3>2. web' = [web EXCEPT ![j] = job]
      BY <2>4 DEF PhoneTypes, WebTypes, Phone!Job
    <3> QED BY <3>1, <3>2
  <2> QED BY <2>1, <2>2, <2>3, <2>4 DEF Phone!Edits
<1>3. web' \in [Scheduled -> Phone!Job]
  BY <1>2 DEF PhoneTypes, WebTypes
<1> QED
  BY <1>3 DEF Phone!Edits, PhoneTypes, StoreTypes, SeenTypes, WebTypes, GhostTypes,
     Phone!storeVars, Phone!ghosts

LEMMA KilledTypes ==
  ASSUME Phone!AndroidAssumption, PhoneTypes, NEW rebooted \in BOOLEAN, Phone!Killed(rebooted)
  PROVE  PhoneTypes'
<1>1. work' \in [Scheduled -> Phone!Work]
  BY AgainType DEF Phone!Killed, PhoneTypes, StoreTypes
<1>2. SeenTypes'
  BY DEF Phone!Killed, SeenTypes
<1>3. hand' \in [Scheduled -> Phone!Report]
  BY Plain DEF Phone!Killed
<1>4. alarm' \in [Scheduled -> Phone!Time] /\ note' \subseteq Scheduled
  <2>1. [j \in Scheduled |-> 0] \in [Scheduled -> Phone!Time]
    BY DEF Phone!AndroidAssumption, Phone!Time
  <2> QED BY <2>1 DEF Phone!Killed, PhoneTypes, StoreTypes, WebTypes
<1>5. StoreTypes'
  BY <1>1, <1>4 DEF Phone!Killed, PhoneTypes, StoreTypes
<1>6. WebTypes'
  BY <1>3, <1>4 DEF Phone!Killed, PhoneTypes, WebTypes
<1>7. GhostTypes'
  <2>1. disturbed' \subseteq disturbed \cup {"interrupted", "unsaved"}
    BY DEF Phone!Killed
  <2>2. disturbed' \subseteq {"opened", "clobbered", "interrupted", "unsaved", "noAccount"}
    BY <2>1 DEF PhoneTypes, GhostTypes
  <2>3. kills' \in Nat /\ UNCHANGED <<sent, opens, lost, edits, taps>>
    <3>1. kills' = kills + 1 /\ UNCHANGED <<sent, opens, lost, edits, taps>>
      BY Zenon DEF Phone!Killed
    <3> QED BY <3>1 DEF PhoneTypes, GhostTypes
  <2> QED BY <2>2, <2>3 DEF PhoneTypes, GhostTypes
<1> QED BY <1>2, <1>5, <1>6, <1>7 DEF PhoneTypes

LEMMA RestTypes ==
  ASSUME Phone!AndroidAssumption, PhoneTypes,
         Phone!Resumes \/ Phone!Closes \/ Phone!Ticks \/ Phone!Flushes
  PROVE  PhoneTypes'
<1>1. CASE Phone!Resumes
  BY <1>1 DEF Phone!Resumes, PhoneTypes, StoreTypes, SeenTypes, WebTypes, GhostTypes,
     Phone!storeVars, Phone!ghosts, Phone!budgets
<1>2. CASE Phone!Closes
  BY <1>2 DEF Phone!Closes, PhoneTypes, StoreTypes, SeenTypes, WebTypes, GhostTypes,
     Phone!storeVars, Phone!ghosts, Phone!budgets
<1>3. CASE Phone!Ticks
  <2>1. now' \in Phone!Time
    BY <1>3 DEF Phone!Ticks, PhoneTypes, StoreTypes, Phone!Time, Phone!AndroidAssumption
  <2> QED
    BY <1>3, <2>1 DEF Phone!Ticks, PhoneTypes, StoreTypes, SeenTypes, WebTypes, GhostTypes,
       Phone!storeVars, Phone!webVars, Phone!ghosts, Phone!budgets
<1>4. CASE Phone!Flushes
  BY <1>4 DEF Phone!Flushes, PhoneTypes, StoreTypes, SeenTypes, WebTypes, GhostTypes,
     Phone!webVars, Phone!ghosts, Phone!budgets
<1> QED BY <1>1, <1>2, <1>3, <1>4

LEMMA StepTypes ==
  ASSUME Phone!AndroidAssumption, PhoneTypes, [Phone!Next]_Phone!vars
  PROVE  PhoneTypes'
<1>1. ASSUME NEW j \in Scheduled, Phone!WorkStep(j) PROVE PhoneTypes'
  BY <1>1, StartsTypes, ReadsTypes, ClaimsTypes, DecidesTypes, MarksSendingTypes, SendsTypes,
     MarksAcceptedTypes, RecordsTypes, QueuesTypes, ArmsNextTypes, EndsTypes DEF Phone!WorkStep
<1>2. CASE UNCHANGED Phone!vars
  BY <1>2 DEF Phone!vars, PhoneTypes, StoreTypes, SeenTypes, WebTypes, GhostTypes,
     Phone!storeVars, Phone!webVars, Phone!ghosts, Phone!budgets
<1> QED
  BY <1>1, <1>2, AlarmFiresTypes, RetryNowTypes, HearsRunTypes, EditsTypes, BootReceivedTypes,
     OpensTypes, SyncsTypes, DrainsTypes, KilledTypes, RestTypes DEF Phone!Next
-----------------------------------------------------------------------------
(* The invariant behind SentOnce *)

\* None of the things has happened that may repeat a mail.
Quiet == disturbed = {} /\ lost = 0 /\ taps = 0

Mailed(j) == {p \in Phone!Slots : sent[j][p] > 0}

\* No instant after this one was mailed, and this one only by a run that knows it.
Newest(j, pays) ==
  \A p \in Mailed(j) : p < pays \/ (p = pays /\ work[j].outcome = "ok")

\* An instant is ahead of what was mailed and of what is being mailed.
Unpaid(j, o) == o \in prefs.jobs[j].plan /\ \A p \in Mailed(j) : p < o

Unsent     == {"enqueued", "claiming", "deciding", "marking", "sending"}
Unrecorded == {"accepting", "recording"}
Settled    == {"queueing", "arming", "ending"}

\* What is listed was not mailed, but by the run that has not recorded it yet.
ListedIsUnpaid(j) ==
  /\ prefs.jobs[j].occurrences \subseteq prefs.jobs[j].plan
  /\ \A o \in prefs.jobs[j].occurrences, p \in Mailed(j) :
       p < o \/ (p = work[j].pays /\ work[j].step \in Unrecorded)
  /\ work[j].step \in Settled => \A o \in prefs.jobs[j].occurrences : work[j].pays < o

\* An alarm is for an instant that was not mailed, also when the run of an earlier one
\* is still going on; and only a run that is retried can be armed.
AlarmIsUnpaid(j) ==
  /\ alarm[j] # 0 => \E o \in Phone!Slots : Unpaid(j, o) /\ o <= alarm[j] /\ work[j].pays < o
  /\ work[j].attempt = 0 /\ work[j].step \notin {"none", "ending"} => alarm[j] = 0

\* A work pays the newest instant that was begun, or will find one to pay.
WorkFits(j) ==
  /\ work[j].step = "none" => work[j] = Phone!NoWork
  /\ work[j].step \in Unsent => work[j].outcome = "none"
  /\ work[j].step # "none" /\ work[j].pays = 0 =>
       /\ work[j].step = "enqueued" /\ work[j].attempt = 0
       /\ \E o \in Phone!Slots : Unpaid(j, o) /\ o <= now
  /\ work[j].pays # 0 => work[j].pays <= now /\ Newest(j, work[j].pays)
  /\ work[j].step = "recording" => work[j].pays <= work[j].ranAt

JobFits(j) ==
  /\ Phone!MayFire(prefs.jobs[j]) /\ \A o \in Phone!Slots : sent[j][o] <= 1
  /\ ListedIsUnpaid(j) /\ AlarmIsUnpaid(j) /\ WorkFits(j)

OnceInv ==
  Quiet =>
    /\ app = "shut"
    /\ \A j \in Scheduled : JobFits(j) /\ (booting => work[j] = Phone!NoWork /\ alarm[j] = 0)

\* Of a job only its preferences, its alarm, its work and its mails matter.
Rests(k) ==
  /\ prefs'.jobs[k] = prefs.jobs[k] /\ alarm'[k] = alarm[k] /\ work'[k] = work[k]
  /\ sent'[k] = sent[k]

LEMMA RestsFits ==
  ASSUME NEW k \in Scheduled, JobFits(k), Rests(k), now' = now PROVE JobFits(k)'
BY DEF Rests, JobFits, ListedIsUnpaid, AlarmIsUnpaid, WorkFits, Newest, Unpaid, Mailed,
   Phone!MayFire

\* A step of one work, when nothing has happened that may repeat a mail.
FitsAfter(j) == JobFits(j)' /\ \A k \in Scheduled \ {j} : Rests(k)

LEMMA JobIs ==
  ASSUME Phone!AndroidAssumption, PhoneTypes, NEW j \in Scheduled
  PROVE  /\ work[j] \in Phone!Work /\ work[j].pays \in Nat /\ work[j].attempt \in Nat
         /\ prefs.jobs[j] \in Phone!Job /\ prefs.jobs[j].occurrences \subseteq Phone!Slots
         /\ prefs.jobs[j].plan \subseteq Phone!Slots /\ Mailed(j) \subseteq Phone!Slots
         /\ Phone!Slots \subseteq Nat \ {0} /\ now \in Nat /\ alarm[j] \in Nat
<1>1. MaxTime \in Nat
  BY DEF Phone!AndroidAssumption
<1>2. work[j] \in Phone!Work /\ prefs.jobs[j] \in Phone!Job
      /\ prefs.jobs[j].occurrences \subseteq Phone!Slots
  BY WorkIs
<1>3. prefs.jobs[j].plan \subseteq Phone!Slots
  BY <1>2 DEF Phone!Job, Phone!AndroidAssumption, Phone!Slots
<1>4. now \in Nat /\ alarm[j] \in Nat /\ Phone!Slots \subseteq Nat \ {0} /\ work[j].pays \in Nat
  BY <1>1, <1>2 DEF PhoneTypes, StoreTypes, Phone!Time, Phone!Slots, Phone!Work
<1> QED BY <1>2, <1>3, <1>4 DEF Mailed, Phone!Work

LEMMA StartsFits ==
  ASSUME Phone!AndroidAssumption, PhoneTypes, NEW j \in Scheduled, Phone!Starts(j), JobFits(j)
  PROVE  FitsAfter(j)
<1> DEFINE due == IF work[j].attempt = 0 THEN Phone!Latest(Phone!Past(prefs.jobs[j], now))
                  ELSE Phone!DueAgain(j)
           begun == {o \in prefs.jobs[j].plan : o <= now}
           pays == IF work[j].pays # 0 THEN work[j].pays
                   ELSE IF due # 0 THEN due ELSE Phone!Latest(begun)
<1>1. /\ work[j] \in Phone!Work /\ prefs.jobs[j] \in Phone!Job
      /\ prefs.jobs[j].occurrences \subseteq Phone!Slots
      /\ prefs.jobs[j].plan \subseteq Phone!Slots /\ Mailed(j) \subseteq Phone!Slots
      /\ work \in [Scheduled -> Phone!Work]
      /\ Phone!Slots \subseteq Nat \ {0} /\ now \in Nat /\ work[j].pays \in Nat
      /\ work[j].step = "enqueued"
  BY JobIs DEF PhoneTypes, StoreTypes, Phone!Starts
<1>2. /\ work[j].outcome = "none" /\ (work[j].attempt = 0 => alarm[j] = 0)
      /\ \A o \in prefs.jobs[j].occurrences, p \in Mailed(j) : p < o
      /\ prefs.jobs[j].occurrences \subseteq prefs.jobs[j].plan
  BY <1>1 DEF JobFits, WorkFits, Unsent, AlarmIsUnpaid, ListedIsUnpaid, Unrecorded
<1>3. /\ \A k \in Scheduled \ {j} : Rests(k)
      /\ work'[j] \in [step : {"claiming", "deciding"}, attempt : {work[j].attempt}, due : {due},
                       pays : {pays}, outcome : {"none"}, ranAt : {work[j].ranAt}]
  <2>1. Phone!MayFire(prefs.jobs[j])
    BY DEF JobFits
  <2>2. PICK s \in {"claiming", "deciding"} :
          work' = [work EXCEPT ![j].step = s, ![j].due = due, ![j].pays = pays]
    BY <2>1 DEF Phone!Starts
  <2> HIDE DEF due, pays
  <2>3. work'[j] = [work[j] EXCEPT !.step = s, !.due = due, !.pays = pays]
    BY <1>1, <2>2
  <2>4. UNCHANGED <<prefs, alarm, sent>>
    BY DEF Phone!Starts, Phone!storeVars, Phone!ghosts
  <2> QED BY <1>1, <1>2, <2>2, <2>3, <2>4 DEF Phone!Work, Rests
<1>4. /\ pays \in Nat \ {0} /\ pays <= now /\ \A p \in Mailed(j) : p < pays
      /\ alarm[j] # 0 => pays = work[j].pays
  <2>1. CASE work[j].pays # 0
    <3>1. Newest(j, work[j].pays) /\ work[j].pays <= now
      BY <2>1 DEF JobFits, WorkFits
    <3> QED BY <1>1, <1>2, <2>1, <3>1 DEF Newest
  <2>2. CASE work[j].pays = 0
    <3>1. work[j].attempt = 0
      BY <1>1, <2>2 DEF JobFits, WorkFits
    <3>2. PICK o \in Phone!Slots : Unpaid(j, o) /\ o <= now
      BY <1>1, <2>2 DEF JobFits, WorkFits
    <3>3. due = Phone!Latest(Phone!Past(prefs.jobs[j], now))
          /\ Phone!Past(prefs.jobs[j], now) \subseteq Phone!Slots
      BY <1>1, <3>1 DEF Phone!Past
    <3>4. due # 0 => due \in Phone!Past(prefs.jobs[j], now)
      BY <3>3, LatestIs
    <3>5. o \in begun /\ begun \subseteq Phone!Slots
      BY <1>1, <3>2 DEF Unpaid
    <3>6. Phone!Latest(begun) \in begun /\ o <= Phone!Latest(begun)
      BY <3>5, LatestIs
    <3>7. CASE due # 0
      <4>1. due \in prefs.jobs[j].occurrences /\ due <= now
        BY <3>4, <3>7 DEF Phone!Past
      <4>2. pays = due
        BY <2>2, <3>7
      <4> HIDE DEF due, pays
      <4> QED BY <1>1, <1>2, <3>1, <4>1, <4>2
    <3>8. CASE due = 0
      <4>1. pays = Phone!Latest(begun)
        BY <2>2, <3>8
      <4>2. \A p \in Mailed(j) : p < o
        BY <3>2 DEF Unpaid
      <4>3. Phone!Latest(begun) <= now /\ Phone!Latest(begun) \in Phone!Slots
        BY <3>5, <3>6
      <4> HIDE DEF due, pays, begun
      <4>4. pays \in Nat \ {0} /\ pays <= now /\ o <= pays /\ o \in Nat
        BY <1>1, <3>6, <4>1, <4>3
      <4>5. \A p \in Mailed(j) : p < pays
        <5> SUFFICES ASSUME NEW p \in Mailed(j) PROVE p < pays
          OBVIOUS
        <5>1. p \in Nat /\ p < o
          BY <1>1, <4>2
        <5> QED BY <4>4, <5>1
      <4> QED BY <1>2, <3>1, <4>4, <4>5
    <3> QED BY <3>7, <3>8
  <2> QED BY <2>1, <2>2
<1> HIDE DEF due, pays
<1>5. UNCHANGED <<now, prefs, alarm, sent>> /\ Mailed(j)' = Mailed(j)
  BY DEF Phone!Starts, Phone!storeVars, Phone!ghosts, Mailed
<1>6. ListedIsUnpaid(j)'
  BY <1>1, <1>2, <1>3, <1>5 DEF ListedIsUnpaid, Settled, Mailed
<1>7. AlarmIsUnpaid(j)'
  BY <1>1, <1>2, <1>3, <1>4, <1>5 DEF JobFits, AlarmIsUnpaid, Unpaid, Mailed
<1>8. WorkFits(j)'
  BY <1>1, <1>3, <1>4, <1>5 DEF WorkFits, Newest, Mailed
<1> QED BY <1>3, <1>5, <1>6, <1>7, <1>8 DEF JobFits, FitsAfter

\* Nothing but the step of the work moves, and neither of the two is where something was mailed.
LEMMA MovesFits ==
  ASSUME Phone!AndroidAssumption, PhoneTypes, NEW j \in Scheduled, JobFits(j),
         work' = [work EXCEPT ![j] = work'[j]], UNCHANGED <<now, alarm, sent>>,
         prefs'.jobs = prefs.jobs, work[j].step \notin {"none", "enqueued", "ending"},
         work'[j].step \in Phone!Steps \ {"none", "enqueued"},
         work'[j].pays = work[j].pays, work'[j].attempt = work[j].attempt,
         work[j].step \in Unsent => work'[j].step \notin Settled,
         work[j].step \in Unrecorded => work'[j].step \in Unrecorded,
         work[j].step \in Settled => work'[j].step \in Settled,
         work'[j].step \in Unsent => work'[j].outcome = "none",
         work[j].outcome = "ok" => work'[j].outcome = "ok",
         work'[j].step = "recording" => work'[j].ranAt = now \/ work[j] = work'[j]
  PROVE  FitsAfter(j)
<1>1. /\ work \in [Scheduled -> Phone!Work] /\ \A k \in Scheduled \ {j} : Rests(k)
      /\ prefs'.jobs[j] = prefs.jobs[j]
      /\ work[j].pays \in Nat /\ now \in Nat /\ Mailed(j) \subseteq Phone!Slots
      /\ Phone!Slots \subseteq Nat \ {0} /\ work[j].step \in Phone!Steps
  BY JobIs DEF PhoneTypes, StoreTypes, Rests, Phone!Work
<1>2. ListedIsUnpaid(j)'
  BY <1>1 DEF JobFits, ListedIsUnpaid, Mailed, Settled, Unrecorded, Unsent, Phone!Steps
<1>3. AlarmIsUnpaid(j)'
  BY <1>1 DEF JobFits, AlarmIsUnpaid, Unpaid, Mailed
<1>4. WorkFits(j)'
  BY <1>1 DEF JobFits, WorkFits, Newest, Mailed
<1> QED BY <1>1, <1>2, <1>3, <1>4 DEF FitsAfter, JobFits

LEMMA ReadsFits ==
  ASSUME Phone!AndroidAssumption, PhoneTypes, NEW j \in Scheduled, Phone!Reads(j), JobFits(j)
  PROVE  FitsAfter(j)
<1>1. Rests(j) /\ now' = now /\ \A k \in Scheduled \ {j} : Rests(k)
  BY DEF Phone!Reads, Rests, Phone!storeVars, Phone!ghosts
<1> QED BY <1>1, RestsFits DEF FitsAfter

LEMMA ClaimsFits ==
  ASSUME Phone!AndroidAssumption, PhoneTypes, NEW j \in Scheduled, Phone!Claims(j), JobFits(j)
  PROVE  FitsAfter(j)
<1>1. /\ work[j] \in Phone!Work /\ work \in [Scheduled -> Phone!Work] /\ prefs \in Phone!Store
      /\ work[j].outcome = "none" /\ work[j].step = "claiming"
  BY JobIs DEF PhoneTypes, StoreTypes, Phone!Claims, JobFits, WorkFits, Unsent
<1>2. work'[j] = [work[j] EXCEPT !.step = "deciding"] /\ work' = [work EXCEPT ![j] = work'[j]]
  BY <1>1 DEF Phone!Claims, Phone!To
<1>3. UNCHANGED <<now, alarm, sent>> /\ prefs'.jobs = prefs.jobs
  BY <1>1 DEF Phone!Claims, Phone!Writes, Phone!ghosts, Phone!Store
<1> QED BY <1>1, <1>2, <1>3, MovesFits DEF Phone!Work, Phone!Steps, Unsent, Settled, Unrecorded

LEMMA DecidesFits ==
  ASSUME Phone!AndroidAssumption, PhoneTypes, NEW j \in Scheduled, Phone!Decides(j), JobFits(j)
  PROVE  FitsAfter(j)
<1>1. /\ work[j] \in Phone!Work /\ work \in [Scheduled -> Phone!Work] /\ work[j].step = "deciding"
      /\ work[j].outcome = "none"
  BY JobIs DEF PhoneTypes, StoreTypes, Phone!Decides, JobFits, WorkFits, Unsent
<1>2. /\ work' = [work EXCEPT ![j] = work'[j]]
      /\ work'[j].pays = work[j].pays /\ work'[j].attempt = work[j].attempt
      /\ \/ work'[j].step = "recording" /\ work'[j].ranAt = now
         \/ work'[j].step = "marking" /\ work'[j].outcome = "none"
  BY <1>1 DEF Phone!Decides, Phone!To, Phone!Work
<1>3. UNCHANGED <<now, alarm, sent, prefs>>
  BY DEF Phone!Decides, Phone!storeVars
<1> QED BY <1>1, <1>2, <1>3, MovesFits DEF Phone!Steps, Unsent, Settled, Unrecorded

LEMMA MarksSendingFits ==
  ASSUME Phone!AndroidAssumption, PhoneTypes, NEW j \in Scheduled, Phone!MarksSending(j),
         JobFits(j)
  PROVE  FitsAfter(j)
<1>1. /\ work[j] \in Phone!Work /\ work \in [Scheduled -> Phone!Work] /\ prefs \in Phone!Store
      /\ work[j].outcome = "none" /\ work[j].step = "marking"
  BY JobIs DEF PhoneTypes, StoreTypes, Phone!MarksSending, JobFits, WorkFits, Unsent
<1>2. work'[j] = [work[j] EXCEPT !.step = "sending"] /\ work' = [work EXCEPT ![j] = work'[j]]
  BY <1>1 DEF Phone!MarksSending, Phone!To
<1>3. UNCHANGED <<now, alarm, sent>> /\ prefs'.jobs = prefs.jobs
  BY <1>1 DEF Phone!MarksSending, Phone!Writes, Phone!storeVars, Phone!ghosts, Phone!Store
<1> QED BY <1>1, <1>2, <1>3, MovesFits DEF Phone!Work, Phone!Steps, Unsent, Settled, Unrecorded

LEMMA MarksAcceptedFits ==
  ASSUME Phone!AndroidAssumption, PhoneTypes, NEW j \in Scheduled, Phone!MarksAccepted(j),
         JobFits(j)
  PROVE  FitsAfter(j)
<1>1. /\ work[j] \in Phone!Work /\ work \in [Scheduled -> Phone!Work] /\ prefs \in Phone!Store
      /\ work[j].step = "accepting"
  BY JobIs DEF PhoneTypes, StoreTypes, Phone!MarksAccepted
<1>2. /\ work'[j] = [work[j] EXCEPT !.step = "recording", !.ranAt = now]
      /\ work' = [work EXCEPT ![j] = work'[j]]
  BY <1>1 DEF Phone!MarksAccepted
<1>3. UNCHANGED <<now, alarm, sent>> /\ prefs'.jobs = prefs.jobs
  BY <1>1 DEF Phone!MarksAccepted, Phone!Writes, Phone!ghosts, Phone!Store
<1> QED BY <1>1, <1>2, <1>3, MovesFits DEF Phone!Work, Phone!Steps, Unsent, Settled, Unrecorded

LEMMA SendsFits ==
  ASSUME Phone!AndroidAssumption, PhoneTypes, NEW j \in Scheduled, Phone!Sends(j), JobFits(j),
         lost' = lost
  PROVE  FitsAfter(j)
<1>1. /\ work[j] \in Phone!Work /\ work \in [Scheduled -> Phone!Work] /\ work[j].step = "sending"
      /\ work[j].outcome = "none" /\ work[j].pays \in Nat /\ Mailed(j) \subseteq Phone!Slots
      /\ Phone!Slots \subseteq Nat \ {0} /\ lost \in Nat
      /\ prefs.jobs[j].occurrences \subseteq Phone!Slots
      /\ sent \in [Scheduled -> [Phone!Time -> 0..2]] /\ work[j].pays \in Phone!Time
  BY JobIs DEF PhoneTypes, StoreTypes, GhostTypes, Phone!Sends, JobFits, WorkFits, Unsent,
     Phone!Work
<1>2. UNCHANGED <<now, alarm, prefs>>
  BY DEF Phone!Sends, Phone!storeVars
<1>3. CASE Phone!Delivered(j) /\ work' = [work EXCEPT ![j].step = "accepting", ![j].outcome = "ok"]
  <2> DEFINE pays == work[j].pays
  <2>1. /\ work'[j] = [work[j] EXCEPT !.step = "accepting", !.outcome = "ok"]
        /\ \A k \in Scheduled \ {j} : work'[k] = work[k]
    BY <1>1, <1>3
  <2>2. \A p \in Mailed(j) : p < pays
    BY <1>1 DEF JobFits, WorkFits, Newest
  <2>3. pays # 0 /\ pays \in Phone!Slots
    BY <1>1 DEF JobFits, WorkFits, Phone!Slots, Phone!Time
  <2>4. sent[j][pays] = 0
    <3>1. pays \notin Mailed(j)
      BY <1>1, <2>2
    <3> QED BY <1>1, <2>3, <3>1 DEF Mailed
  <2>5. /\ sent'[j] = [sent[j] EXCEPT ![pays] = 1]
        /\ \A k \in Scheduled \ {j} : sent'[k] = sent[k]
    BY <1>1, <1>3, <2>4 DEF Phone!Delivered
  <2>6. /\ \A o \in Phone!Slots : sent'[j][o] = IF o = pays THEN 1 ELSE sent[j][o]
        /\ Mailed(j)' = Mailed(j) \cup {pays}
    <3>1. \A o \in Phone!Slots : sent'[j][o] = IF o = pays THEN 1 ELSE sent[j][o]
      <4>1. Phone!Slots \subseteq Phone!Time
        BY DEF Phone!Slots, Phone!Time, Phone!AndroidAssumption
      <4>2. sent[j] \in [Phone!Time -> 0..2]
        BY <1>1
      <4> HIDE DEF pays
      <4> QED BY <2>5, <4>1, <4>2
    <3> QED BY <2>3, <3>1 DEF Mailed
  <2>7. ListedIsUnpaid(j)'
    <3>1. /\ prefs.jobs[j].occurrences \subseteq prefs.jobs[j].plan
          /\ \A o \in prefs.jobs[j].occurrences, p \in Mailed(j) : p < o
      BY <1>1 DEF JobFits, ListedIsUnpaid, Unrecorded
    <3>2. work'[j].step = "accepting" /\ work'[j].pays = pays
      BY <1>1, <2>1 DEF Phone!Work
    <3>3. \A o \in prefs.jobs[j].occurrences, p \in Mailed(j)' :
             p < o \/ (p = work'[j].pays /\ work'[j].step \in Unrecorded)
      BY <2>6, <3>1, <3>2 DEF Unrecorded
    <3> HIDE DEF pays
    <3> QED BY <1>2, <3>1, <3>2, <3>3 DEF ListedIsUnpaid, Settled
  <2>8. AlarmIsUnpaid(j)'
    <3>1. work'[j].step = "accepting" /\ work'[j].pays = pays /\ work'[j].attempt = work[j].attempt
      BY <1>1, <2>1 DEF Phone!Work
    <3>2. ASSUME NEW o \in Phone!Slots, Unpaid(j, o), pays < o PROVE Unpaid(j, o)'
      BY <1>2, <2>6, <3>2 DEF Unpaid
    <3> HIDE DEF pays
    <3> QED BY <1>1, <1>2, <3>1, <3>2 DEF JobFits, AlarmIsUnpaid, pays
  <2>9. WorkFits(j)'
    <3>1. work'[j].step = "accepting" /\ work'[j].pays = pays /\ work'[j].outcome = "ok"
      BY <1>1, <2>1 DEF Phone!Work
    <3>2. pays <= now
      BY <2>3 DEF JobFits, WorkFits
    <3>3. \A p \in Mailed(j)' : p < pays \/ (p = pays /\ work'[j].outcome = "ok")
      BY <2>2, <2>6, <3>1
    <3> HIDE DEF pays
    <3> QED BY <1>2, <2>3, <3>1, <3>2, <3>3 DEF WorkFits, Unsent, Newest
  <2>10. \A o \in Phone!Slots : sent'[j][o] <= 1
    BY <2>6 DEF JobFits
  <2> QED BY <1>2, <2>1, <2>5, <2>7, <2>8, <2>9, <2>10 DEF FitsAfter, JobFits, Rests
<1>4. CASE \E outcome \in {"retryable", "fatal"} :
             /\ work' = [work EXCEPT ![j].step = "recording", ![j].outcome = outcome,
                                     ![j].ranAt = now]
             /\ UNCHANGED sent
  <2>1. /\ work' = [work EXCEPT ![j] = work'[j]]
        /\ work'[j].pays = work[j].pays /\ work'[j].attempt = work[j].attempt
        /\ work'[j].step = "recording" /\ work'[j].ranAt = now
    BY <1>1, <1>4 DEF Phone!Work
  <2> QED BY <1>1, <1>2, <1>4, <2>1, MovesFits DEF Phone!Steps, Unsent, Settled, Unrecorded
<1> QED BY <1>1, <1>3, <1>4 DEF Phone!Sends

LEMMA RecordsFits ==
  ASSUME Phone!AndroidAssumption, PhoneTypes, NEW j \in Scheduled, Phone!Records(j), JobFits(j),
         "clobbered" \notin disturbed'
  PROVE  FitsAfter(j)
<1>1. /\ work[j] \in Phone!Work /\ work \in [Scheduled -> Phone!Work] /\ work[j].step = "recording"
      /\ prefs \in Phone!Store /\ prefs.jobs[j] \in Phone!Job
      /\ prefs.jobs \in [Scheduled -> Phone!Job]
      /\ prefs.jobs[j].occurrences \subseteq Phone!Slots /\ Phone!Slots \subseteq Nat \ {0}
      /\ Mailed(j) \subseteq Phone!Slots /\ work[j].pays \in Nat /\ work[j].ranAt \in Nat
      /\ prefs.jobs[j].on
  <2>1. prefs.jobs[j].on
    BY DEF JobFits, Phone!MayFire
  <2> QED
    BY <2>1, JobIs DEF PhoneTypes, StoreTypes, Phone!Store, Phone!Records, Phone!Work,
       Phone!Time
<1> DEFINE job == Phone!Recorded(prefs.jobs[j], work[j].ranAt)
<1>2. /\ prefs' = [prefs EXCEPT !.jobs = [prefs.jobs EXCEPT ![j] = job]]
      /\ Phone!To(j, "queueing")
  BY <1>1 DEF Phone!Records
<1>3. /\ job \in Phone!Job /\ Shrinks(job, prefs.jobs[j])
      /\ job.occurrences = prefs.jobs[j].occurrences \ Phone!Past(prefs.jobs[j], work[j].ranAt)
  BY <1>1, RecordedIs DEF Phone!Work
<1> HIDE DEF job
<1>4. /\ prefs'.jobs[j] = job /\ \A k \in Scheduled \ {j} : prefs'.jobs[k] = prefs.jobs[k]
      /\ work'[j] = [work[j] EXCEPT !.step = "queueing"]
      /\ \A k \in Scheduled \ {j} : work'[k] = work[k]
  BY <1>1, <1>2 DEF Phone!To, Phone!Store
<1>5. UNCHANGED <<now, alarm, sent>> /\ Mailed(j)' = Mailed(j)
  BY DEF Phone!Records, Mailed
<1>6. /\ work'[j].step = "queueing" /\ work'[j].pays = work[j].pays
      /\ work'[j].outcome = work[j].outcome /\ work'[j].attempt = work[j].attempt
  BY <1>1, <1>4 DEF Phone!Work
<1>7. /\ work[j].pays # 0 /\ work[j].pays <= work[j].ranAt /\ Newest(j, work[j].pays)
      /\ work[j].pays <= now
  BY <1>1 DEF JobFits, WorkFits
<1>8. \A o \in job.occurrences : work[j].pays < o /\ \A p \in Mailed(j) : p < o
  <2> SUFFICES ASSUME NEW o \in job.occurrences
               PROVE  work[j].pays < o /\ \A p \in Mailed(j) : p < o
    OBVIOUS
  <2>1. o \in Nat /\ ~(o <= work[j].ranAt)
    BY <1>1, <1>3 DEF Phone!Past
  <2>2. work[j].pays < o
    BY <1>1, <1>7, <2>1
  <2>3. ASSUME NEW p \in Mailed(j) PROVE p < o
    <3>1. p \in Nat /\ (p < work[j].pays \/ p = work[j].pays)
      BY <1>1, <1>7 DEF Newest
    <3> QED BY <1>1, <2>1, <2>2, <3>1
  <2> QED BY <2>2, <2>3
<1>9. ListedIsUnpaid(j)'
  <2>1. job.occurrences \subseteq job.plan
    BY <1>3 DEF JobFits, ListedIsUnpaid, Shrinks
  <2> QED BY <1>4, <1>5, <1>6, <1>8, <2>1 DEF ListedIsUnpaid
<1>10. AlarmIsUnpaid(j)'
  BY <1>1, <1>3, <1>4, <1>5, <1>6 DEF JobFits, AlarmIsUnpaid, Unpaid, Shrinks
<1>11. WorkFits(j)'
  BY <1>5, <1>6, <1>7 DEF WorkFits, Newest, Unsent
<1>12. Phone!MayFire(prefs'.jobs[j])
  BY <1>3, <1>4 DEF JobFits, Phone!MayFire, Shrinks
<1> QED
  BY <1>4, <1>5, <1>9, <1>10, <1>11, <1>12 DEF FitsAfter, JobFits, Rests

LEMMA QueuesFits ==
  ASSUME Phone!AndroidAssumption, PhoneTypes, NEW j \in Scheduled, Phone!Queues(j), JobFits(j)
  PROVE  FitsAfter(j)
<1>1. /\ work[j] \in Phone!Work /\ work \in [Scheduled -> Phone!Work] /\ prefs \in Phone!Store
      /\ work[j].step = "queueing"
  BY JobIs DEF PhoneTypes, StoreTypes, Phone!Queues
<1>2. /\ work'[j] \in {[work[j] EXCEPT !.step = s] : s \in {"arming", "ending"}}
      /\ work' = [work EXCEPT ![j] = work'[j]]
  BY <1>1 DEF Phone!Queues, Phone!To
<1>3. UNCHANGED <<now, alarm, sent>> /\ prefs'.jobs = prefs.jobs
  BY <1>1 DEF Phone!Queues, Phone!ghosts, Phone!Store
<1> QED BY <1>1, <1>2, <1>3, MovesFits DEF Phone!Work, Phone!Steps, Unsent, Settled, Unrecorded

LEMMA ArmsNextFits ==
  ASSUME Phone!AndroidAssumption, PhoneTypes, NEW j \in Scheduled, Phone!ArmsNext(j), JobFits(j)
  PROVE  FitsAfter(j)
<1>1. /\ work[j] \in Phone!Work /\ work \in [Scheduled -> Phone!Work] /\ work[j].step = "arming"
      /\ prefs.jobs[j] \in Phone!Job /\ prefs.jobs \in [Scheduled -> Phone!Job]
      /\ alarm \in [Scheduled -> Phone!Time]
      /\ prefs.jobs[j].occurrences \subseteq Phone!Slots
  BY JobIs DEF PhoneTypes, StoreTypes, Phone!ArmsNext, Phone!Store
<1>2. PICK n : /\ NextIs(n, prefs, j, now)
               /\ prefs'.jobs = [prefs.jobs EXCEPT ![j] = n.job] /\ alarm' = Phone!Armed(j, n.wake)
  BY ArmsNextDoes DEF JobFits, Phone!MayFire
<1>3. /\ prefs'.jobs[j] = n.job /\ \A k \in Scheduled \ {j} : prefs'.jobs[k] = prefs.jobs[k]
      /\ alarm'[j] = (IF n.wake # 0 THEN n.wake ELSE alarm[j])
      /\ \A k \in Scheduled \ {j} : alarm'[k] = alarm[k]
      /\ work'[j] = [work[j] EXCEPT !.step = "ending"]
      /\ \A k \in Scheduled \ {j} : work'[k] = work[k]
  BY <1>1, <1>2 DEF Phone!Armed, Phone!ArmsNext, Phone!To
<1>4. UNCHANGED <<now, sent>> /\ Mailed(j)' = Mailed(j)
  BY DEF Phone!ArmsNext, Phone!ghosts, Mailed
<1>5. /\ work'[j].step = "ending" /\ work'[j].pays = work[j].pays
      /\ work'[j].outcome = work[j].outcome /\ work'[j].attempt = work[j].attempt
  BY <1>1, <1>3 DEF Phone!Work
<1>6. /\ prefs.jobs[j].occurrences \subseteq prefs.jobs[j].plan
      /\ \A o \in prefs.jobs[j].occurrences : work[j].pays < o /\ \A p \in Mailed(j) : p < o
  BY <1>1 DEF JobFits, ListedIsUnpaid, Settled, Unrecorded
<1>7. Shrinks(n.job, prefs.jobs[j])
  BY <1>2 DEF NextIs
<1>8. ListedIsUnpaid(j)'
  BY <1>3, <1>4, <1>5, <1>6, <1>7 DEF ListedIsUnpaid, Shrinks
<1>9. AlarmIsUnpaid(j)'
  <2>1. CASE n.wake # 0
    <3>1. PICK o \in prefs.jobs[j].occurrences : o <= n.wake
      BY <1>2, <2>1 DEF NextIs
    <3>2. Unpaid(j, o)' /\ o <= alarm'[j] /\ work'[j].pays < o /\ o \in Phone!Slots
      BY <1>1, <1>3, <1>4, <1>5, <1>6, <1>7, <2>1, <3>1 DEF Unpaid, Shrinks
    <3> QED BY <1>5, <3>2 DEF AlarmIsUnpaid
  <2>2. CASE n.wake = 0
    <3>1. alarm'[j] = alarm[j]
      BY <1>3, <2>2
    <3>2. ASSUME NEW o \in Phone!Slots, Unpaid(j, o) PROVE Unpaid(j, o)'
      BY <1>3, <1>4, <1>7, <3>2 DEF Unpaid, Shrinks
    <3> QED BY <1>5, <3>1, <3>2 DEF JobFits, AlarmIsUnpaid
  <2> QED BY <2>1, <2>2
<1>10. WorkFits(j)'
  BY <1>1, <1>4, <1>5 DEF JobFits, WorkFits, Newest, Unsent
<1>11. Phone!MayFire(prefs'.jobs[j])
  BY <1>3, <1>7 DEF JobFits, Phone!MayFire, Shrinks
<1> QED BY <1>3, <1>4, <1>8, <1>9, <1>10, <1>11 DEF FitsAfter, JobFits, Rests

LEMMA EndsFits ==
  ASSUME Phone!AndroidAssumption, PhoneTypes, NEW j \in Scheduled, Phone!Ends(j), JobFits(j)
  PROVE  FitsAfter(j)
<1>1. /\ work[j] \in Phone!Work /\ work \in [Scheduled -> Phone!Work] /\ work[j].step = "ending"
      /\ prefs \in Phone!Store /\ Mailed(j) \subseteq Phone!Slots
      /\ Phone!Slots \subseteq Nat \ {0}
      /\ work[j].attempt \in Nat /\ work[j].pays \in Nat
      /\ prefs.jobs[j].occurrences \subseteq Phone!Slots
  BY JobIs DEF PhoneTypes, StoreTypes, Phone!Ends
<1>2. UNCHANGED <<now, alarm, sent>> /\ prefs'.jobs = prefs.jobs /\ Mailed(j)' = Mailed(j)
  BY <1>1 DEF Phone!Ends, Phone!Writes, Phone!ghosts, Phone!Store, Mailed
<1>3. \A k \in Scheduled \ {j} : Rests(k)
  BY <1>1, <1>2 DEF Phone!Ends, Rests
<1>4. /\ prefs.jobs[j].occurrences \subseteq prefs.jobs[j].plan
      /\ \A o \in prefs.jobs[j].occurrences, p \in Mailed(j) : p < o
  BY <1>1 DEF JobFits, ListedIsUnpaid, Unrecorded
<1>5. CASE Phone!Retries(j)
  <2>1. work'[j] = [Phone!NoWork EXCEPT !.step = "enqueued", !.attempt = work[j].attempt + 1,
                                  !.pays = work[j].pays]
    BY <1>1, <1>5 DEF Phone!Ends
  <2>2. /\ work'[j].step = "enqueued" /\ work'[j].attempt # 0 /\ work'[j].pays = work[j].pays
        /\ work'[j].outcome = "none"
    BY <1>1, <2>1 DEF Phone!NoWork
  <2>3. /\ work[j].pays # 0 /\ work[j].pays <= now /\ \A p \in Mailed(j) : p < work[j].pays
    BY <1>1, <1>5 DEF JobFits, WorkFits, Newest, Phone!Retries
  <2>4. ListedIsUnpaid(j)'
    BY <1>2, <1>4, <2>2 DEF ListedIsUnpaid, Settled
  <2>5. AlarmIsUnpaid(j)'
    BY <1>2, <2>2 DEF JobFits, AlarmIsUnpaid, Unpaid
  <2>6. WorkFits(j)'
    BY <1>2, <2>2, <2>3 DEF WorkFits, Newest
  <2> QED BY <1>2, <1>3, <2>4, <2>5, <2>6 DEF FitsAfter, JobFits
<1>6. CASE ~Phone!Retries(j)
  <2>1. work'[j] = Phone!NoWork
    BY <1>1, <1>6 DEF Phone!Ends
  <2>2. work'[j].step = "none" /\ work'[j].pays = 0
    BY <2>1 DEF Phone!NoWork
  <2>3. ListedIsUnpaid(j)'
    BY <1>2, <1>4, <2>2 DEF ListedIsUnpaid, Settled
  <2>4. AlarmIsUnpaid(j)'
    <3>1. \A o \in Phone!Slots : 0 < o
      BY DEF Phone!Slots
    <3>2. \A o \in Phone!Slots : Unpaid(j, o) => Unpaid(j, o)'
      BY <1>2 DEF Unpaid
    <3> QED BY <1>2, <2>2, <3>1, <3>2 DEF JobFits, AlarmIsUnpaid
  <2>5. WorkFits(j)'
    BY <2>1, <2>2 DEF WorkFits, Unsent
  <2> QED BY <1>2, <1>3, <2>3, <2>4, <2>5 DEF FitsAfter, JobFits
<1> QED BY <1>5, <1>6

LEMMA WorkStepFits ==
  ASSUME Phone!AndroidAssumption, PhoneTypes, NEW j \in Scheduled, Phone!WorkStep(j), JobFits(j),
         Quiet'
  PROVE  FitsAfter(j) /\ work[j] # Phone!NoWork /\ app' = app /\ booting' = booting /\ now' = now
<1>1. work[j] # Phone!NoWork /\ app' = app /\ booting' = booting /\ now' = now
  BY DEF Phone!WorkStep, Phone!Starts, Phone!Reads, Phone!Claims, Phone!Decides,
     Phone!MarksSending, Phone!Sends, Phone!MarksAccepted, Phone!Records, Phone!Queues,
     Phone!ArmsNext, Phone!Ends, Phone!webVars, Phone!NoWork
<1>2. CASE Phone!Sends(j)
  <2>1. lost' = lost
    BY <1>2 DEF Phone!Sends, Quiet, PhoneTypes, GhostTypes
  <2> QED BY <1>1, <1>2, <2>1, SendsFits
<1>3. CASE Phone!Records(j)
  BY <1>1, <1>3, RecordsFits DEF Quiet
<1>4. CASE ~Phone!Sends(j) /\ ~Phone!Records(j)
  BY <1>1, <1>4, StartsFits, ReadsFits, ClaimsFits, DecidesFits, MarksSendingFits,
     MarksAcceptedFits, QueuesFits, ArmsNextFits, EndsFits DEF Phone!WorkStep
<1> QED BY <1>2, <1>3, <1>4

LEMMA AlarmFiresFits ==
  ASSUME Phone!AndroidAssumption, PhoneTypes, NEW j \in Scheduled, Phone!AlarmFires(j), JobFits(j)
  PROVE  FitsAfter(j) /\ alarm[j] # 0 /\ app' = app /\ booting' = booting /\ now' = now
<1>1. /\ work[j] \in Phone!Work /\ work \in [Scheduled -> Phone!Work]
      /\ alarm \in [Scheduled -> Phone!Time]
      /\ alarm[j] # 0 /\ alarm[j] <= now /\ work[j].step # "ending"
      /\ alarm[j] \in Nat /\ now \in Nat /\ Phone!Slots \subseteq Nat
  BY JobIs DEF PhoneTypes, StoreTypes, Phone!AlarmFires
<1>2. UNCHANGED <<now, prefs, sent, app, booting>> /\ Mailed(j)' = Mailed(j)
  BY DEF Phone!AlarmFires, Phone!storeVars, Phone!webVars, Phone!ghosts, Mailed
<1>3. alarm'[j] = 0 /\ work'[j] = Phone!Enqueued(j) /\ \A k \in Scheduled \ {j} : Rests(k)
  BY <1>1, <1>2 DEF Phone!AlarmFires, Rests
<1>4. PICK o \in Phone!Slots : Unpaid(j, o) /\ o <= now
  <2>1. PICK o \in Phone!Slots : Unpaid(j, o) /\ o <= alarm[j]
    BY <1>1 DEF JobFits, AlarmIsUnpaid
  <2>2. o \in Nat /\ o <= now
    BY <1>1, <2>1
  <2> QED BY <2>1, <2>2
<1>5. AlarmIsUnpaid(j)'
  BY <1>3 DEF AlarmIsUnpaid
<1>6. CASE work[j].step = "none"
  <2>1. /\ work'[j].step = "enqueued" /\ work'[j].attempt = 0 /\ work'[j].pays = 0
        /\ work'[j].outcome = "none"
    BY <1>3, <1>6 DEF Phone!Enqueued, Phone!NoWork
  <2>2. Unpaid(j, o)'
    BY <1>2, <1>4 DEF Unpaid
  <2>3. WorkFits(j)'
    BY <1>2, <1>4, <2>1, <2>2 DEF WorkFits
  <2>4. ListedIsUnpaid(j)'
    BY <1>2, <1>6, <2>1 DEF JobFits, ListedIsUnpaid, Settled, Unrecorded
  <2> QED BY <1>1, <1>2, <1>3, <1>5, <2>3, <2>4 DEF JobFits, FitsAfter
<1>7. CASE work[j].step # "none"
  <2>1. work'[j] = work[j]
    BY <1>3, <1>7 DEF Phone!Enqueued
  <2>2. WorkFits(j)' /\ ListedIsUnpaid(j)'
    BY <1>2, <2>1 DEF JobFits, WorkFits, ListedIsUnpaid, Newest, Unpaid
  <2> QED BY <1>1, <1>2, <1>3, <1>5, <2>2 DEF JobFits, FitsAfter
<1> QED BY <1>6, <1>7

\* A phone that has nothing to work on and no alarm is armed for what was not mailed.
LEMMA RearmsFits ==
  ASSUME Phone!AndroidAssumption, PhoneTypes, NEW j \in Scheduled, Phone!Rearms(prefs),
         JobFits(j),
         work[j] = Phone!NoWork, UNCHANGED <<now, work, sent>>
  PROVE  JobFits(j)'
<1> DEFINE r == Phone!Rearmed(prefs, now)
<1>1. prefs \in Phone!Store /\ Phone!MayFire(prefs.jobs[j]) /\ now \in Phone!Time
      /\ alarm \in [Scheduled -> Phone!Time]
  BY DEF PhoneTypes, StoreTypes, JobFits
<1>2. PICK n : NextIs(n, prefs, j, now) /\ r.alarm[j] = n.wake /\ r.store.jobs[j] = n.job
  BY <1>1, RearmedIs
<1>3. prefs' = r.store /\ alarm' = r.alarm
  BY DEF Phone!Rearms
<1> HIDE DEF r
<1>4. /\ prefs'.jobs[j] = n.job /\ alarm'[j] = n.wake /\ Shrinks(n.job, prefs.jobs[j])
      /\ Mailed(j)' = Mailed(j) /\ work'[j] = Phone!NoWork
  BY <1>2, <1>3 DEF NextIs, Mailed
<1>5. /\ work[j].step = "none" /\ work[j].pays = 0
  BY DEF Phone!NoWork
<1>6. /\ prefs.jobs[j].occurrences \subseteq prefs.jobs[j].plan
      /\ \A o \in prefs.jobs[j].occurrences, p \in Mailed(j) : p < o
      /\ prefs.jobs[j].occurrences \subseteq Phone!Slots /\ Phone!Slots \subseteq Nat \ {0}
  BY <1>5, JobIs DEF JobFits, ListedIsUnpaid, Unrecorded
<1>7. ListedIsUnpaid(j)'
  BY <1>4, <1>5, <1>6 DEF ListedIsUnpaid, Shrinks, Settled
<1>8. AlarmIsUnpaid(j)'
  <2>1. ASSUME alarm'[j] # 0
        PROVE  \E o \in Phone!Slots : Unpaid(j, o)' /\ o <= alarm'[j] /\ work'[j].pays < o
    <3>1. PICK o \in prefs.jobs[j].occurrences : o <= n.wake
      BY <1>2, <1>4, <2>1 DEF NextIs
    <3>2. o \in Phone!Slots /\ 0 < o
      <4>1. o \in Phone!Slots /\ o \in Nat /\ o # 0
        BY <1>6
      <4> QED BY <4>1
    <3>3. Unpaid(j, o)'
      BY <1>4, <1>6, <3>1 DEF Unpaid, Shrinks
    <3> QED BY <1>4, <1>5, <3>1, <3>2, <3>3
  <2> QED BY <1>4, <1>5, <2>1 DEF AlarmIsUnpaid
<1>9. WorkFits(j)'
  BY <1>4, <1>5 DEF WorkFits, Unsent
<1>10. Phone!MayFire(prefs'.jobs[j])
  BY <1>1, <1>4 DEF Phone!MayFire, Shrinks
<1> QED BY <1>7, <1>8, <1>9, <1>10 DEF JobFits

LEMMA TicksFits ==
  ASSUME Phone!AndroidAssumption, PhoneTypes, NEW j \in Scheduled, Phone!Ticks, JobFits(j)
  PROVE  JobFits(j)'
<1>1. now' = now + 1 /\ UNCHANGED <<prefs, alarm, work, sent>> /\ Mailed(j)' = Mailed(j)
  BY DEF Phone!Ticks, Phone!storeVars, Phone!ghosts, Mailed
<1>2. /\ now \in Nat /\ work[j].pays \in Nat /\ Phone!Slots \subseteq Nat
  BY JobIs
<1>3. ListedIsUnpaid(j)' /\ AlarmIsUnpaid(j)'
  BY <1>1 DEF JobFits, ListedIsUnpaid, AlarmIsUnpaid, Unpaid
<1>4. WorkFits(j)'
  <2>1. ASSUME NEW o \in Phone!Slots, Unpaid(j, o), o <= now PROVE Unpaid(j, o)' /\ o <= now'
    BY <1>1, <1>2, <2>1 DEF Unpaid
  <2>2. work[j].pays <= now => work[j].pays <= now'
    BY <1>1, <1>2
  <2> QED BY <1>1, <2>1, <2>2 DEF JobFits, WorkFits, Newest
<1> QED BY <1>1, <1>3, <1>4 DEF JobFits

LEMMA KilledFits ==
  ASSUME Phone!AndroidAssumption, PhoneTypes, NEW rebooted \in BOOLEAN, Phone!Killed(rebooted),
         Quiet',
         NEW j \in Scheduled, JobFits(j), booting => alarm[j] = 0
  PROVE  JobFits(j)' /\ work'[j] = Phone!NoWork /\ (booting' => alarm'[j] = 0)
<1>1. /\ \A k \in Scheduled : work[k] = Phone!NoWork
      /\ phoneDisk = prefs
  BY DEF Phone!Killed, Quiet
<1>2. /\ prefs' = prefs /\ work'[j] = work[j] /\ UNCHANGED <<now, sent>>
      /\ alarm'[j] = 0 \/ (alarm'[j] = alarm[j] /\ booting' = booting)
  <2>1. prefs' = prefs /\ UNCHANGED <<now, sent>>
    BY <1>1 DEF Phone!Killed
  <2>2. ~Phone!Running(j)
    BY <1>1 DEF Phone!Running, Phone!NoWork
  <2>3. work'[j] = work[j]
    BY <2>2 DEF Phone!Killed
  <2>4. CASE rebooted
    <3>1. alarm' = [k \in Scheduled |-> 0]
      BY <2>4 DEF Phone!Killed
    <3> QED BY <2>1, <2>3, <3>1
  <2>5. CASE ~rebooted
    <3>1. alarm' = alarm /\ booting' = (booting \/ rebooted)
      BY <2>5 DEF Phone!Killed
    <3>2. booting' = booting
      BY <2>5, <3>1 DEF PhoneTypes, WebTypes
    <3> QED BY <2>1, <2>3, <3>1, <3>2
  <2> QED BY <2>4, <2>5
<1>3. CASE alarm'[j] = alarm[j]
  BY <1>1, <1>2, <1>3, RestsFits DEF Rests
<1>4. CASE alarm'[j] = 0
  <2>1. ListedIsUnpaid(j)' /\ WorkFits(j)'
    BY <1>2 DEF JobFits, ListedIsUnpaid, WorkFits, Newest, Unpaid, Mailed
  <2>2. AlarmIsUnpaid(j)'
    BY <1>4 DEF AlarmIsUnpaid
  <2> QED BY <1>1, <1>2, <1>4, <2>1, <2>2 DEF JobFits
<1> QED BY <1>1, <1>2, <1>3, <1>4

LEMMA InitOnce == ASSUME Phone!AndroidAssumption, Phone!Init PROVE OnceInv
<1>1. PhoneTypes
  BY InitTypes
<1> SUFFICES ASSUME NEW j \in Scheduled PROVE JobFits(j)
  BY DEF Phone!Init, OnceInv
<1>2. /\ prefs.jobs[j] = web[j] /\ work[j] = Phone!NoWork
      /\ alarm[j] = Phone!Earliest(web[j].occurrences)
      /\ web[j].on /\ web[j].mine /\ web[j].occurrences = web[j].plan
      /\ \A o \in Phone!Time : sent[j][o] = 0
  <2>1. prefs.jobs = web
    BY DEF Phone!Init
  <2>2. PICK p \in Plans : web[j] = [on |-> TRUE, mine |-> TRUE, account |-> TRUE, plan |-> p,
                                     occurrences |-> p, ranAt |-> 0]
    BY DEF Phone!Init
  <2> QED BY <2>1, <2>2 DEF Phone!Init
<1>3. Phone!Slots \subseteq Phone!Time /\ web[j].occurrences \subseteq Phone!Slots
      /\ Phone!Slots \subseteq Nat \ {0}
  BY <1>1, <1>2, JobIs DEF Phone!Slots, Phone!Time, Phone!AndroidAssumption
<1>4. Mailed(j) = {} /\ \A o \in Phone!Slots : sent[j][o] <= 1
  <2>1. \A o \in Phone!Slots : sent[j][o] = 0
    BY <1>2, <1>3
  <2> QED BY <2>1 DEF Mailed
<1>5. alarm[j] # 0 => alarm[j] \in web[j].occurrences
  BY <1>2, <1>3, EarliestIs
<1>6. ListedIsUnpaid(j)
  BY <1>2, <1>4 DEF ListedIsUnpaid, Phone!NoWork, Settled
<1>7. AlarmIsUnpaid(j)
  <2>1. ASSUME alarm[j] # 0
        PROVE  \E o \in Phone!Slots : Unpaid(j, o) /\ o <= alarm[j] /\ work[j].pays < o
    <3>1. alarm[j] \in Phone!Slots /\ 0 < alarm[j] /\ alarm[j] <= alarm[j]
      <4>1. alarm[j] \in Phone!Slots
        BY <1>3, <1>5, <2>1
      <4>2. alarm[j] \in Nat /\ alarm[j] # 0
        BY <1>3, <4>1
      <4> QED BY <4>1, <4>2
    <3>2. Unpaid(j, alarm[j])
      BY <1>2, <1>4, <1>5, <2>1 DEF Unpaid
    <3> QED BY <1>2, <3>1, <3>2 DEF Phone!NoWork
  <2> QED BY <1>2, <2>1 DEF AlarmIsUnpaid, Phone!NoWork
<1>8. WorkFits(j)
  BY <1>2 DEF WorkFits, Phone!NoWork, Unsent
<1> QED BY <1>2, <1>4, <1>6, <1>7, <1>8 DEF JobFits, Phone!MayFire

\* What has happened stays so.
LEMMA StaysDisturbed ==
  ASSUME PhoneTypes, [Phone!Next]_Phone!vars
  PROVE  disturbed \subseteq disturbed' /\ lost <= lost' /\ taps <= taps'
<1> DEFINE Stay == disturbed \subseteq disturbed' /\ lost <= lost' /\ taps <= taps'
<1>1. lost \in Nat /\ taps \in Nat
  BY DEF PhoneTypes, GhostTypes
<1>2. ASSUME NEW j \in Scheduled,
             \/ Phone!AlarmFires(j) \/ Phone!Starts(j) \/ Phone!Reads(j) \/ Phone!Claims(j)
             \/ Phone!MarksSending(j) \/ Phone!MarksAccepted(j) \/ Phone!Queues(j)
             \/ Phone!ArmsNext(j) \/ Phone!Ends(j) \/ Phone!HearsRun(j)
      PROVE  Stay
  BY <1>1, <1>2 DEF Phone!AlarmFires, Phone!Starts, Phone!Reads, Phone!Claims,
     Phone!MarksSending, Phone!MarksAccepted, Phone!Queues, Phone!ArmsNext, Phone!Ends,
     Phone!HearsRun, Phone!ghosts, Phone!budgets
<1>3. ASSUME NEW j \in Scheduled,
             \/ Phone!RetryNow(j) \/ Phone!Decides(j) \/ Phone!Sends(j) \/ Phone!Records(j)
             \/ Phone!Edits(j)
      PROVE  Stay
  BY <1>1, <1>3 DEF Phone!RetryNow, Phone!Decides, Phone!Sends, Phone!Records, Phone!Edits,
     Phone!ghosts, Phone!budgets
<1>4. CASE \/ Phone!BootReceived \/ Phone!Opens \/ Phone!Syncs \/ Phone!Resumes
           \/ Phone!Drains \/ Phone!Closes \/ Phone!Ticks \/ Phone!Flushes
  BY <1>1, <1>4 DEF Phone!BootReceived, Phone!Opens, Phone!Syncs, Phone!Resumes, Phone!Drains,
     Phone!Closes, Phone!Ticks, Phone!Flushes, Phone!ghosts, Phone!budgets
<1>5. ASSUME NEW rebooted \in BOOLEAN, Phone!Killed(rebooted) PROVE Stay
  <2>1. UNCHANGED <<lost, taps>>
    BY <1>5, Zenon DEF Phone!Killed
  <2>2. disturbed \subseteq disturbed'
    BY <1>5 DEF Phone!Killed
  <2> QED BY <1>1, <2>1, <2>2
<1>6. CASE UNCHANGED Phone!vars
  BY <1>1, <1>6 DEF Phone!vars, Phone!ghosts, Phone!budgets
<1> QED BY <1>2, <1>3, <1>4, <1>5, <1>6 DEF Phone!Next, Phone!WorkStep

LEMMA StepOnce ==
  ASSUME Phone!AndroidAssumption, PhoneTypes, OnceInv, [Phone!Next]_Phone!vars PROVE OnceInv'
<1> SUFFICES ASSUME Quiet'
             PROVE  /\ app' = "shut"
                    /\ \A j \in Scheduled : /\ JobFits(j)'
                                            /\ booting' => work'[j] = Phone!NoWork /\ alarm'[j] = 0
  BY DEF OnceInv
<1>1. Quiet
  BY StaysDisturbed DEF Quiet, PhoneTypes, GhostTypes
<1>2. app = "shut" /\ \A j \in Scheduled : /\ JobFits(j)
                                           /\ booting => work[j] = Phone!NoWork /\ alarm[j] = 0
  BY <1>1 DEF OnceInv
<1>3. ASSUME NEW j \in Scheduled, Phone!WorkStep(j) \/ Phone!AlarmFires(j) PROVE OnceInv'
  <2>1. /\ FitsAfter(j) /\ ~booting' /\ app' = app /\ now' = now
    BY <1>2, <1>3, WorkStepFits, AlarmFiresFits
  <2>2. \A k \in Scheduled \ {j} : JobFits(k)'
    BY <1>2, <2>1, RestsFits DEF FitsAfter
  <2> QED BY <1>2, <2>1, <2>2 DEF OnceInv, FitsAfter
<1>4. CASE Phone!BootReceived
  <2>1. \A j \in Scheduled : JobFits(j)'
    BY <1>2, <1>4, RearmsFits DEF Phone!BootReceived, Phone!ghosts
  <2> QED BY <1>2, <1>4, <2>1 DEF Phone!BootReceived, Phone!webVars
<1>5. CASE Phone!Ticks
  BY <1>2, <1>5, TicksFits DEF Phone!Ticks, Phone!webVars
<1>6. CASE Phone!Flushes \/ UNCHANGED Phone!vars
  <2>1. /\ UNCHANGED <<now, alarm, work, sent, app, booting>> /\ prefs' = prefs
    BY <1>6 DEF Phone!Flushes, Phone!vars, Phone!storeVars, Phone!webVars, Phone!ghosts
  <2> QED BY <1>2, <2>1, RestsFits DEF Rests
<1>7. ASSUME NEW rebooted \in BOOLEAN, Phone!Killed(rebooted) PROVE OnceInv'
  BY <1>2, <1>7, KilledFits DEF OnceInv, Phone!Killed
<1>8. ~Phone!Opens /\ \A j \in Scheduled : ~Phone!RetryNow(j)
  BY DEF Phone!Opens, Phone!RetryNow, Quiet, PhoneTypes, GhostTypes
<1>9. /\ ~Phone!Syncs /\ ~Phone!Resumes /\ ~Phone!Drains /\ ~Phone!Closes
      /\ \A j \in Scheduled : ~Phone!HearsRun(j) /\ ~Phone!Edits(j)
  BY <1>2 DEF Phone!Syncs, Phone!Resumes, Phone!Drains, Phone!Closes, Phone!HearsRun, Phone!Edits
<1> QED BY <1>3, <1>4, <1>5, <1>6, <1>7, <1>8, <1>9 DEF Phone!Next, OnceInv

-----------------------------------------------------------------------------
(* The invariant behind StaysArmed *)

Ahead(j) == Phone!MayFire(prefs.jobs[j]) /\ \E o \in prefs.jobs[j].occurrences : o > now

\* None of the things has happened after which a job need not be armed.
Heeded == disturbed \cap {"clobbered", "unsaved", "noAccount"} = {}

\* A job with an instant ahead is armed, or will be; when its work has armed it again, it is.
IsArmed(j) ==
  Ahead(j) => /\ alarm[j] # 0 \/ work[j] # Phone!NoWork \/ booting
              /\ work[j].step = "ending" => alarm[j] # 0 \/ booting

ArmedInv ==
  /\ \A j \in Scheduled : work[j].outcome = "noAccount" => "noAccount" \in disturbed
  /\ Heeded => \A j \in Scheduled : IsArmed(j)

LEMMA StepOutcome ==
  ASSUME PhoneTypes, [Phone!Next]_Phone!vars, NEW k \in Scheduled,
         work[k].outcome = "noAccount" => "noAccount" \in disturbed
  PROVE  work'[k].outcome = "noAccount" => "noAccount" \in disturbed'
<1>1. disturbed \subseteq disturbed' /\ work \in [Scheduled -> Phone!Work]
  BY StaysDisturbed DEF PhoneTypes, StoreTypes
<1>2. CASE \E j \in Scheduled : Phone!Decides(j)
  BY <1>1, <1>2 DEF Phone!Decides, Phone!To, Phone!Work
<1>3. CASE \E j \in Scheduled :
             \/ Phone!Starts(j) \/ Phone!Claims(j) \/ Phone!MarksSending(j) \/ Phone!Sends(j)
             \/ Phone!MarksAccepted(j) \/ Phone!Records(j) \/ Phone!Queues(j) \/ Phone!ArmsNext(j)
  <2>1. work'[k].outcome \in {work[k].outcome, "none", "ok", "retryable", "fatal"}
    BY <1>1, <1>3 DEF Phone!Starts, Phone!Claims, Phone!MarksSending, Phone!Sends,
       Phone!MarksAccepted, Phone!Records, Phone!Queues, Phone!ArmsNext, Phone!To, Phone!Work,
       Phone!NoWork
  <2> QED BY <1>1, <2>1
<1>4. CASE \/ \E j \in Scheduled : Phone!AlarmFires(j) \/ Phone!RetryNow(j) \/ Phone!Ends(j)
           \/ \E rebooted \in BOOLEAN : Phone!Killed(rebooted)
  <2>1. work'[k].outcome \in {work[k].outcome, "none"}
    <3>1. \/ work'[k] = work[k] \/ work'[k] = Phone!NoWork
          \/ work'[k] = [Phone!NoWork EXCEPT !.step = "enqueued"]
          \/ work'[k] = [Phone!NoWork EXCEPT !.step = "enqueued", !.attempt = work[k].attempt + 1,
                                        !.pays = work[k].pays]
      <4>1. ASSUME NEW j \in Scheduled, Phone!AlarmFires(j) \/ Phone!RetryNow(j)
            PROVE  work'[k] = work[k] \/ work'[k] = [Phone!NoWork EXCEPT !.step = "enqueued"]
        BY <1>1, <4>1 DEF Phone!AlarmFires, Phone!RetryNow, Phone!Enqueued
      <4>2. ASSUME NEW j \in Scheduled, Phone!Ends(j)
            PROVE  \/ work'[k] = work[k] \/ work'[k] = Phone!NoWork
                   \/ work'[k] = [Phone!NoWork EXCEPT
                                  !.step = "enqueued", !.attempt = work[k].attempt + 1,
                                  !.pays = work[k].pays]
        BY <1>1, <4>2 DEF Phone!Ends
      <4>3. ASSUME NEW rebooted \in BOOLEAN, Phone!Killed(rebooted)
            PROVE  \/ work'[k] = work[k]
                   \/ work'[k] = [Phone!NoWork EXCEPT
                                  !.step = "enqueued", !.attempt = work[k].attempt + 1,
                                  !.pays = work[k].pays]
        BY <4>3 DEF Phone!Killed
      <4> QED BY <1>4, <4>1, <4>2, <4>3
    <3>2. CASE work'[k] = work[k]
      BY <3>2
    <3>3. CASE work'[k] \in {Phone!NoWork, [Phone!NoWork EXCEPT !.step = "enqueued"]}
      BY <3>3 DEF Phone!NoWork
    <3>4. CASE work'[k] = [Phone!NoWork EXCEPT
                             !.step = "enqueued", !.attempt = work[k].attempt + 1,
                             !.pays = work[k].pays]
      BY <3>4 DEF Phone!NoWork
    <3> QED BY <3>1, <3>2, <3>3, <3>4
  <2> QED BY <1>1, <2>1
<1>5. CASE work' = work
  BY <1>1, <1>5
<1>6. \/ \E j \in Scheduled :
           \/ Phone!Starts(j) \/ Phone!Claims(j) \/ Phone!MarksSending(j) \/ Phone!Sends(j)
           \/ Phone!MarksAccepted(j) \/ Phone!Records(j) \/ Phone!Queues(j) \/ Phone!ArmsNext(j)
           \/ Phone!Decides(j) \/ Phone!AlarmFires(j) \/ Phone!RetryNow(j) \/ Phone!Ends(j)
      \/ \E rebooted \in BOOLEAN : Phone!Killed(rebooted)
      \/ work' = work
  BY DEF Phone!Next, Phone!WorkStep, Phone!Reads, Phone!HearsRun, Phone!Edits,
     Phone!BootReceived, Phone!Opens, Phone!Syncs, Phone!Resumes, Phone!Drains, Phone!Closes,
     Phone!Ticks, Phone!Flushes, Phone!vars
<1> QED BY <1>2, <1>3, <1>4, <1>5, <1>6

\* A job whose alarm, preferences and boot stay as they are is armed as it was, while its work
\* is not over and arms it before it ends.
LEMMA RestsArmed ==
  ASSUME NEW k \in Scheduled, IsArmed(k), prefs'.jobs[k] = prefs.jobs[k], alarm'[k] = alarm[k],
         booting' = booting, now' = now,
         \/ work'[k] = work[k]
         \/ work'[k] # Phone!NoWork /\ work'[k].step # "ending"
         \/ work[k].step = "ending"
  PROVE  IsArmed(k)'
BY DEF IsArmed, Ahead, Phone!MayFire

LEMMA WorkStepArmed ==
  ASSUME Phone!AndroidAssumption, PhoneTypes, NEW j \in Scheduled, Phone!WorkStep(j),
         NEW k \in Scheduled, IsArmed(k),
         work[k].outcome = "noAccount" => "noAccount" \in disturbed, Heeded'
  PROVE  IsArmed(k)'
<1>1. /\ work[j] \in Phone!Work /\ work \in [Scheduled -> Phone!Work] /\ prefs \in Phone!Store
      /\ prefs.jobs \in [Scheduled -> Phone!Job] /\ alarm \in [Scheduled -> Phone!Time]
  BY JobIs DEF PhoneTypes, StoreTypes, Phone!Store
<1>2. now' = now /\ booting' = booting
  BY DEF Phone!WorkStep, Phone!Starts, Phone!Reads, Phone!Claims, Phone!Decides,
     Phone!MarksSending, Phone!Sends, Phone!MarksAccepted, Phone!Records, Phone!Queues,
     Phone!ArmsNext, Phone!Ends
<1>3. disturbed \subseteq disturbed'
  BY StaysDisturbed DEF Phone!Next
<1>4. CASE Phone!Starts(j) /\ ~Phone!MayFire(prefs.jobs[j])
  <2>1. CASE k = j
    BY <1>4, <2>1 DEF Phone!Starts, Phone!storeVars, IsArmed, Ahead, Phone!MayFire
  <2>2. CASE k # j
    <3>1. work'[k] = work[k] /\ UNCHANGED <<prefs, alarm>>
      BY <1>1, <1>4, <2>2 DEF Phone!Starts, Phone!storeVars
    <3> QED BY <1>2, <3>1, RestsArmed
  <2> QED BY <2>1, <2>2
<1>5. CASE \/ Phone!Starts(j) /\ Phone!MayFire(prefs.jobs[j])
           \/ Phone!Reads(j) \/ Phone!Decides(j) \/ Phone!Sends(j)
  <2>1. /\ work'[k] = work[k] \/ (work'[k] # Phone!NoWork /\ work'[k].step # "ending")
        /\ UNCHANGED <<prefs, alarm>>
    BY <1>1, <1>5 DEF Phone!Starts, Phone!Reads, Phone!Decides, Phone!Sends, Phone!To,
       Phone!storeVars, Phone!Work, Phone!NoWork
  <2> QED BY <1>2, <2>1, RestsArmed
<1>6. CASE Phone!Claims(j) \/ Phone!MarksSending(j) \/ Phone!MarksAccepted(j)
  <2>1. work'[k] = work[k] \/ (work'[k] # Phone!NoWork /\ work'[k].step # "ending")
    BY <1>1, <1>6 DEF Phone!Claims, Phone!MarksSending, Phone!MarksAccepted, Phone!To,
       Phone!Work, Phone!NoWork
  <2>2. prefs'.jobs = prefs.jobs /\ alarm' = alarm
    BY <1>1, <1>6 DEF Phone!Claims, Phone!MarksSending, Phone!MarksAccepted, Phone!Writes,
       Phone!storeVars, Phone!Store
  <2> QED BY <1>2, <2>1, <2>2, RestsArmed
<1>7. CASE Phone!Records(j)
  <2>1. PICK jobs \in seen[j] :
          /\ prefs' = [prefs EXCEPT !.jobs =
               [jobs EXCEPT ![j] = IF @.on THEN Phone!Recorded(@, work[j].ranAt) ELSE @]]
          /\ disturbed' = IF jobs = prefs.jobs THEN disturbed ELSE disturbed \cup {"clobbered"}
          /\ Phone!To(j, IF jobs[j].on THEN "queueing"
                   ELSE IF work[j].outcome = "noAccount" THEN "ending" ELSE "arming")
    BY <1>7 DEF Phone!Records
  <2>2. jobs = prefs.jobs
    BY <2>1 DEF Heeded
  <2>3. alarm' = alarm
    BY <1>7 DEF Phone!Records
  <2>4. CASE k # j
    <3>1. work'[k] = work[k] /\ prefs'.jobs[k] = prefs.jobs[k]
      BY <1>1, <2>1, <2>2, <2>4 DEF Phone!To, Phone!Store
    <3> QED BY <1>2, <2>3, <3>1, RestsArmed
  <2>5. CASE k = j
    <3>1. work[j].outcome # "noAccount"
      BY <1>3, <2>5 DEF Heeded
    <3>2. work'[j].step \in {"queueing", "arming"}
      BY <1>1, <2>1, <3>1 DEF Phone!To
    <3>3. work'[j] # Phone!NoWork
      BY <3>2 DEF Phone!NoWork
    <3> QED BY <2>5, <3>2, <3>3 DEF IsArmed
  <2> QED BY <2>4, <2>5
<1>8. CASE Phone!Queues(j)
  <2>1. prefs'.jobs = prefs.jobs /\ alarm' = alarm
    BY <1>1, <1>8 DEF Phone!Queues, Phone!Store
  <2>2. work'[k] = work[k] \/ (work'[k] # Phone!NoWork /\ work'[k].step # "ending")
    <3>1. CASE k # j
      BY <1>1, <1>8, <3>1 DEF Phone!Queues, Phone!To
    <3>2. CASE k = j
      <4>1. work[j].outcome # "noAccount"
        BY <1>3, <3>2 DEF Heeded
      <4>2. work'[j].step = "arming"
        BY <1>1, <1>8, <4>1 DEF Phone!Queues, Phone!To
      <4> QED BY <3>2, <4>2 DEF Phone!NoWork
    <3> QED BY <3>1, <3>2
  <2> QED BY <1>2, <2>1, <2>2, RestsArmed
<1>9. CASE Phone!ArmsNext(j)
  <2>1. CASE prefs.jobs[j].on
    <3>1. PICK n : /\ NextIs(n, prefs, j, now)
                   /\ prefs'.jobs = [prefs.jobs EXCEPT ![j] = n.job]
                   /\ alarm' = Phone!Armed(j, n.wake)
      BY <1>9, <2>1, ArmsNextDoes
    <3>2. CASE k # j
      <4>1. /\ work'[k] = work[k] /\ prefs'.jobs[k] = prefs.jobs[k] /\ alarm'[k] = alarm[k]
        BY <1>1, <1>9, <3>1, <3>2 DEF Phone!ArmsNext, Phone!To, Phone!Armed
      <4> QED BY <1>2, <4>1, RestsArmed
    <3>3. CASE k = j
      <4>1. prefs'.jobs[j] = n.job /\ alarm'[j] = (IF n.wake # 0 THEN n.wake ELSE alarm[j])
        BY <1>1, <3>1 DEF Phone!Armed
      <4>2. Ahead(j)' => alarm'[j] # 0
        BY <1>2, <3>1, <4>1 DEF Ahead, NextIs
      <4> QED BY <3>3, <4>2 DEF IsArmed
    <3> QED BY <3>2, <3>3
  <2>2. CASE ~prefs.jobs[j].on
    <3>1. UNCHANGED <<prefs, alarm>>
      BY <1>9, <2>2 DEF Phone!ArmsNext
    <3>2. CASE k # j
      <4>1. work'[k] = work[k]
        BY <1>1, <1>9, <3>2 DEF Phone!ArmsNext, Phone!To
      <4> QED BY <1>2, <3>1, <4>1, RestsArmed
    <3>3. CASE k = j
      BY <2>2, <3>1, <3>3 DEF IsArmed, Ahead, Phone!MayFire
    <3> QED BY <3>2, <3>3
  <2> QED BY <2>1, <2>2
<1>10. CASE Phone!Ends(j)
  <2>1. prefs'.jobs = prefs.jobs /\ alarm' = alarm /\ work[j].step = "ending"
    BY <1>1, <1>10 DEF Phone!Ends, Phone!Writes, Phone!Store
  <2>2. k # j => work'[k] = work[k]
    BY <1>1, <1>10 DEF Phone!Ends
  <2> QED BY <1>2, <2>1, <2>2, RestsArmed
<1> QED BY <1>4, <1>5, <1>6, <1>7, <1>8, <1>9, <1>10 DEF Phone!WorkStep

LEMMA RearmsArmed ==
  ASSUME Phone!AndroidAssumption, PhoneTypes, NEW s \in Phone!Store, Phone!Rearms(s),
         NEW k \in Scheduled, now' = now
  PROVE  Ahead(k)' => alarm'[k] # 0
<1> DEFINE r == Phone!Rearmed(s, now)
<1>1. now \in Phone!Time /\ alarm \in [Scheduled -> Phone!Time]
  BY DEF PhoneTypes, StoreTypes
<1>2. prefs' = r.store /\ alarm' = r.alarm
  BY DEF Phone!Rearms
<1>3. CASE Phone!MayFire(s.jobs[k])
  <2>1. PICK n : NextIs(n, s, k, now) /\ r.alarm[k] = n.wake /\ r.store.jobs[k] = n.job
    BY <1>1, <1>3, RearmedIs
  <2> HIDE DEF r
  <2> QED BY <1>2, <2>1 DEF NextIs, Ahead
<1>4. CASE ~Phone!MayFire(s.jobs[k])
  <2>1. r.store.jobs[k] = s.jobs[k]
    BY <1>1, <1>4, RearmedIs
  <2> HIDE DEF r
  <2> QED BY <1>2, <1>4, <2>1 DEF Ahead, Phone!MayFire
<1> QED BY <1>3, <1>4

LEMMA KilledArmed ==
  ASSUME Phone!AndroidAssumption, PhoneTypes, NEW rebooted \in BOOLEAN, Phone!Killed(rebooted),
         Heeded',
         NEW k \in Scheduled, IsArmed(k)
  PROVE  IsArmed(k)'
<1>1. prefs' = prefs /\ now' = now
  BY DEF Phone!Killed, Heeded
<1>2. work'[k].step # "ending" /\ (work[k] # Phone!NoWork => work'[k] # Phone!NoWork)
  <2>1. CASE Phone!Running(k)
    <3>1. work'[k] = [Phone!NoWork EXCEPT !.step = "enqueued", !.attempt = work[k].attempt + 1,
                                    !.pays = work[k].pays]
      BY <2>1 DEF Phone!Killed
    <3>2. work'[k].step = "enqueued"
      BY <3>1 DEF Phone!NoWork
    <3> QED BY <3>2 DEF Phone!NoWork
  <2>2. CASE ~Phone!Running(k)
    <3>1. work'[k] = work[k]
      BY <2>2 DEF Phone!Killed
    <3> QED BY <2>2, <3>1 DEF Phone!Running
  <2> QED BY <2>1, <2>2
<1>3. CASE rebooted
  <2>1. booting'
    BY <1>3 DEF Phone!Killed
  <2> QED BY <2>1 DEF IsArmed
<1>4. CASE ~rebooted
  <2>1. alarm' = alarm /\ (booting => booting')
    BY <1>4 DEF Phone!Killed
  <2> QED BY <1>1, <1>2, <2>1 DEF IsArmed, Ahead, Phone!MayFire
<1> QED BY <1>3, <1>4

LEMMA InitArmed == ASSUME Phone!AndroidAssumption, Phone!Init PROVE ArmedInv
<1>1. PhoneTypes
  BY InitTypes
<1> SUFFICES ASSUME NEW j \in Scheduled PROVE work[j] = Phone!NoWork /\ (Ahead(j) => alarm[j] # 0)
  BY DEF ArmedInv, IsArmed, Phone!NoWork
<1>2. work[j] = Phone!NoWork /\ alarm[j] = Phone!Earliest(web[j].occurrences) /\ prefs.jobs = web
  BY DEF Phone!Init
<1>3. web[j].occurrences \subseteq Phone!Slots
  BY <1>1 DEF PhoneTypes, WebTypes, Phone!Job
<1> QED BY <1>2, <1>3, EarliestIs DEF Ahead

LEMMA StepArmed ==
  ASSUME Phone!AndroidAssumption, PhoneTypes, ArmedInv, [Phone!Next]_Phone!vars PROVE ArmedInv'
<1>1. \A k \in Scheduled : work'[k].outcome = "noAccount" => "noAccount" \in disturbed'
  BY StepOutcome DEF ArmedInv
<1> SUFFICES ASSUME Heeded', NEW k \in Scheduled PROVE IsArmed(k)'
  BY <1>1 DEF ArmedInv
<1>2. IsArmed(k) /\ (work[k].outcome = "noAccount" => "noAccount" \in disturbed)
  BY StaysDisturbed DEF ArmedInv, Heeded
<1>3. CASE \E j \in Scheduled : Phone!WorkStep(j)
  BY <1>2, <1>3, WorkStepArmed
<1>4. ASSUME NEW j \in Scheduled, Phone!AlarmFires(j) \/ Phone!RetryNow(j) PROVE IsArmed(k)'
  <2>1. /\ UNCHANGED <<now, prefs, booting>> /\ work \in [Scheduled -> Phone!Work]
        /\ alarm \in [Scheduled -> Phone!Time]
        /\ work' = [work EXCEPT ![j] = Phone!Enqueued(j)]
        /\ alarm' = alarm \/ (work[j].step # "ending" /\ alarm' = [alarm EXCEPT ![j] = 0])
    BY <1>4 DEF Phone!AlarmFires, Phone!RetryNow, Phone!storeVars, PhoneTypes, StoreTypes
  <2>2. CASE k # j
    BY <1>2, <2>1, <2>2, RestsArmed
  <2>3. CASE k = j
    <3>1. /\ work'[j].step # "none"
          /\ work'[j].step = "ending" => work[j].step = "ending" /\ work'[j] = work[j]
      BY <2>1 DEF Phone!Enqueued, Phone!NoWork
    <3>2. work'[j] # Phone!NoWork
      BY <3>1 DEF Phone!NoWork
    <3> QED BY <1>2, <2>1, <2>3, <3>1, <3>2 DEF IsArmed, Ahead, Phone!MayFire
  <2> QED BY <2>2, <2>3
<1>5. CASE Phone!BootReceived \/ Phone!Syncs
  <2>1. [prefs EXCEPT !.jobs = web] \in Phone!Store /\ prefs \in Phone!Store
    BY DEF PhoneTypes, StoreTypes, WebTypes, Phone!Store
  <2>2. Ahead(k)' => alarm'[k] # 0
    BY <1>5, <2>1, RearmsArmed DEF Phone!BootReceived, Phone!Syncs
  <2> QED BY <2>2 DEF IsArmed
<1>6. ASSUME NEW rebooted \in BOOLEAN, Phone!Killed(rebooted) PROVE IsArmed(k)'
  BY <1>2, <1>6, KilledArmed
<1>7. CASE Phone!Ticks
  <2>1. now' = now + 1 /\ UNCHANGED <<prefs, alarm, work, booting>>
    BY <1>7 DEF Phone!Ticks, Phone!storeVars
  <2>2. now \in Nat /\ prefs.jobs[k].occurrences \subseteq Nat
    BY JobIs
  <2>3. Ahead(k)' => Ahead(k)
    BY <2>1, <2>2 DEF Ahead, Phone!MayFire
  <2> QED BY <1>2, <2>1, <2>3 DEF IsArmed
<1>8. CASE \/ Phone!Opens \/ Phone!Resumes \/ Phone!Drains \/ Phone!Closes \/ Phone!Flushes
           \/ UNCHANGED Phone!vars
           \/ \E j \in Scheduled : Phone!HearsRun(j) \/ Phone!Edits(j)
  <2>1. UNCHANGED <<now, alarm, work, booting>> /\ prefs'.jobs = prefs.jobs
    BY <1>8 DEF Phone!Opens, Phone!Resumes, Phone!Drains, Phone!Closes, Phone!Flushes,
       Phone!HearsRun, Phone!Edits, Phone!vars, Phone!storeVars, PhoneTypes, StoreTypes,
       Phone!Store
  <2> QED BY <1>2, <2>1, RestsArmed
<1> QED BY <1>3, <1>4, <1>5, <1>6, <1>7, <1>8 DEF Phone!Next

-----------------------------------------------------------------------------
(* The phone's theorems *)

PhoneInv == PhoneTypes /\ OnceInv /\ ArmedInv

LEMMA InitPhone == ASSUME Phone!AndroidAssumption, Phone!Init PROVE PhoneInv
BY InitTypes, InitOnce, InitArmed DEF PhoneInv

LEMMA StepPhone ==
  ASSUME Phone!AndroidAssumption, PhoneInv, [Phone!Next]_Phone!vars
  PROVE  PhoneInv'
BY StepTypes, StepOnce, StepArmed DEF PhoneInv

LEMMA PhoneIsSafe == ASSUME PhoneInv PROVE Phone!TypeOK /\ Phone!SentOnce /\ Phone!StaysArmed
<1>1. Phone!TypeOK
  BY TypesAreOK DEF PhoneInv
<1>2. Phone!SentOnce
  BY DEF PhoneInv, OnceInv, Quiet, JobFits, Phone!SentOnce
<1>3. Phone!StaysArmed
  BY DEF PhoneInv, ArmedInv, Heeded, IsArmed, Ahead, Phone!StaysArmed, Phone!Attended
<1> QED BY <1>1, <1>2, <1>3

LEMMA PhoneFits == ASSUME Phone!AndroidAssumption PROVE Phone!Spec => []PhoneInv
<1>1. Phone!Init => PhoneInv
  BY InitPhone
<1>2. PhoneInv /\ [Phone!Next]_Phone!vars => PhoneInv'
  BY StepPhone
<1> QED BY <1>1, <1>2, PTL DEF Phone!Spec

\* An instant is mailed once, across retries, reboots and other jobs (SendWorker.java, the
\* ledger, ExistingWorkPolicy.KEEP), unless the app was opened, a work was killed or written
\* over, an answer was lost or "Retry now" was pressed.
THEOREM PhoneSendsOnce ==
  ASSUME Phone!AndroidAssumption PROVE Phone!Spec => []Phone!SentOnce
<1>1. PhoneInv => Phone!SentOnce
  BY PhoneIsSafe
<1> QED BY <1>1, PhoneFits, PTL

\* A job that may fire and has an instant ahead is armed, being worked on or re-armed after the
\* boot (AevistleScheduler.java, armNext and rearmAll), unless a job list was written over, a
\* process died before its writes were made or an account was missing.
THEOREM PhoneStaysArmed ==
  ASSUME Phone!AndroidAssumption PROVE Phone!Spec => []Phone!StaysArmed
<1>1. PhoneInv => Phone!StaysArmed
  BY PhoneIsSafe
<1> QED BY <1>1, PhoneFits, PTL

-----------------------------------------------------------------------------
(* The handshake that pairs two devices: Pairing *)

CONSTANTS Joiners, Fast, MaxCodes, MaxPairs, MaxRounds, Patient

VARIABLES
  session, calls, open, timers, over, req, posted, toUi, ui, saving, minted,
  hostKey, hostRow, joinKey, joinRow, synced, answered, revoked

Pair == INSTANCE Pairing WITH MaxSeq <- MaxRounds

-----------------------------------------------------------------------------
(* Types of the handshake *)

Stages == {"none", "closing", "building", "up", "failed"}
Called == [at : Stages, waits : 0..MaxCodes, pair : 0..MaxPairs]
Posting == [at : {"idle", "early", "sent", "reading", "answered", "refused"},
            code : 0..MaxCodes, sess : 0..MaxCodes]
PanelState == [pair : 0..MaxPairs, kind : {"new", "regenerate"}, started : BOOLEAN,
               payload : 0..MaxCodes, revoked : BOOLEAN, row : Pair!Rows,
               status : {"listening", "connected", "expired", "error"}]
Waiting == [pair : Pair!Pairs, kind : {"new", "regenerate"}, row : Pair!Rows]

ServerTypes ==
  /\ session \in 0..MaxCodes /\ open \subseteq Pair!Codes /\ timers \subseteq Pair!Codes
  /\ over \subseteq Pair!Codes /\ calls \in [Pair!Codes -> Called]

PostTypes ==
  /\ req \in [Joiners -> Posting] /\ posted \subseteq Pair!Keys /\ answered \subseteq Pair!Keys
  /\ \A j \in Joiners : req[j].at \in {"sent", "reading", "answered"} => req[j].code \in Pair!Codes
  /\ \A j \in Joiners : req[j].at \in {"reading", "answered"} => req[j].sess \in Pair!Codes

PanelTypes ==
  /\ ui \in PanelState /\ saving \subseteq Waiting /\ minted \in 0..MaxPairs
  /\ revoked \subseteq Pair!Codes /\ toUi \in Seq(Pair!Events)

\* A side counts one number for each it accepts, besides those it asked with itself.
HostFits(row) == row.out <= row.acc + 2 * MaxRounds
JoinFits(row) == row.out <= row.acc + MaxRounds

PairStoreTypes ==
  /\ hostKey \in [Pair!Pairs -> Pair!Keys \cup {Pair!NoKey}]
  /\ hostRow \in [Pair!Pairs -> Pair!Rows]
  /\ joinKey \in [Joiners -> [Pair!Pairs -> Pair!Keys \cup {Pair!NoKey}]]
  /\ joinRow \in [Joiners -> [Pair!Pairs -> Pair!Rows]] /\ synced \subseteq Pair!Keys

RowsFit ==
  /\ \A p \in Pair!Pairs : HostFits(hostRow[p])
  /\ \A j \in Joiners, p \in Pair!Pairs : JoinFits(joinRow[j][p])
  /\ HostFits(ui.row) /\ \A s \in saving : HostFits(s.row)

PairTypes == ServerTypes /\ PostTypes /\ PanelTypes /\ PairStoreTypes /\ RowsFit

LEMMA PairTypesOK == ASSUME PairTypes PROVE Pair!TypeOK
BY DEF PairTypes, ServerTypes, PostTypes, PanelTypes, PairStoreTypes, Pair!TypeOK, Called,
   Stages, Posting, PanelState, Waiting

LEMMA PairingBasics ==
  ASSUME Pair!PairingAssumption
  PROVE  /\ MaxCodes \in Nat /\ MaxPairs \in Nat /\ MaxRounds \in Nat /\ 0 \notin Pair!Codes
         /\ Pair!NoKey \notin Pair!Keys /\ Pair!NoRow \in Pair!Rows /\ Pair!Shut \in PanelState
         /\ Pair!Idle \in Posting
         /\ \A addr \in BOOLEAN :
              /\ Pair!Fresh(addr) \in Pair!Rows
              /\ HostFits(Pair!Fresh(addr)) /\ JoinFits(Pair!Fresh(addr))
         /\ HostFits(Pair!NoRow) /\ JoinFits(Pair!NoRow)
<1>1. MaxCodes \in Nat /\ MaxPairs \in Nat /\ MaxRounds \in Nat
  BY DEF Pair!PairingAssumption
<1>2. 0 \notin Pair!Codes
  BY <1>1 DEF Pair!Codes
<1>3. Pair!NoKey \notin Pair!Keys
  BY <1>2 DEF Pair!NoKey, Pair!Keys
<1>4. Pair!NoRow \in Pair!Rows /\ \A addr \in BOOLEAN : Pair!Fresh(addr) \in Pair!Rows
  BY <1>1 DEF Pair!Rows, Pair!NoRow, Pair!Fresh
<1>5. Pair!Shut \in PanelState
  BY <1>1, <1>4 DEF Pair!Shut, PanelState
<1>6. Pair!Idle \in Posting
  BY <1>1 DEF Pair!Idle, Posting
<1>7. /\ \A addr \in BOOLEAN : HostFits(Pair!Fresh(addr)) /\ JoinFits(Pair!Fresh(addr))
      /\ HostFits(Pair!NoRow) /\ JoinFits(Pair!NoRow)
  BY <1>1 DEF HostFits, JoinFits, Pair!Fresh, Pair!NoRow
<1> QED BY <1>1, <1>2, <1>3, <1>4, <1>5, <1>6, <1>7

LEMMA InitPairTypes == ASSUME Pair!PairingAssumption, Pair!Init PROVE PairTypes
<1>1. ServerTypes
  BY PairingBasics DEF Pair!Init, ServerTypes, Called, Stages
<1>2. PostTypes
  BY PairingBasics DEF Pair!Init, PostTypes, Pair!Idle
<1>3. PanelTypes
  <2>1. toUi \in Seq(Pair!Events)
    BY DEF Pair!Init
  <2> QED BY <2>1, PairingBasics DEF Pair!Init, PanelTypes
<1>4. PairStoreTypes
  BY PairingBasics DEF Pair!Init, PairStoreTypes
<1>5. RowsFit
  BY PairingBasics DEF Pair!Init, RowsFit, Pair!Shut
<1> QED BY <1>1, <1>2, <1>3, <1>4, <1>5 DEF PairTypes

\* What the main process may say to the panel.
LEMMA Said ==
  ASSUME Pair!PairingAssumption, NEW c \in Pair!Codes
  PROVE  /\ \A t \in {"listening", "reply", "failed", "expired"} :
              [type |-> t, code |-> c, key |-> Pair!NoKey] \in Pair!Events
         /\ \A k \in Pair!Keys : [type |-> "connected", code |-> c, key |-> k] \in Pair!Events
BY DEF Pair!Events

LEMMA StoppedTypes ==
  ASSUME ServerTypes, Pair!Stopped
  PROVE  session' = 0 /\ open' \subseteq Pair!Codes /\ timers' \subseteq Pair!Codes
BY DEF ServerTypes, Pair!Stopped

LEMMA CodeIs ==
  ASSUME Pair!PairingAssumption, NEW c \in Pair!Codes
  PROVE  c \in 0..MaxCodes /\ c \in Nat /\ c # 0
BY PairingBasics DEF Pair!Codes

LEMMA ServerStepTypes ==
  ASSUME Pair!PairingAssumption, PairTypes, NEW c \in Pair!Codes,
         \/ Pair!Closed(c) \/ Pair!Listening(c) \/ Pair!CannotListen(c) \/ Pair!Expires(c)
         \/ Pair!OnExpire(c)
  PROVE  PairTypes'
<1>1. c \in 0..MaxCodes /\ 0 \in 0..MaxCodes
  BY CodeIs, PairingBasics
<1>2. UNCHANGED <<Pair!posts, Pair!panel, Pair!stores>>
  BY DEF Pair!Closed, Pair!Listening, Pair!CannotListen, Pair!Expires, Pair!OnExpire
<1>3. PostTypes' /\ PairStoreTypes' /\ RowsFit'
  BY <1>2 DEF Pair!posts, Pair!panel, Pair!stores, PairTypes, PostTypes, PairStoreTypes, RowsFit
<1>4. ServerTypes'
  <2>1. calls' = calls \/ \E at \in Stages : calls' = [calls EXCEPT ![c].at = at]
    BY DEF Pair!Closed, Pair!Listening, Pair!CannotListen, Pair!Expires, Pair!OnExpire, Stages
  <2>2. calls' \in [Pair!Codes -> Called]
    BY <2>1 DEF PairTypes, ServerTypes, Called
  <2>3. session' \in 0..MaxCodes
    BY <1>1 DEF PairTypes, ServerTypes, Pair!Closed, Pair!Listening, Pair!CannotListen,
       Pair!Expires, Pair!OnExpire
  <2>4. open' \subseteq Pair!Codes /\ timers' \subseteq Pair!Codes /\ over' \subseteq Pair!Codes
    BY DEF PairTypes, ServerTypes, Pair!Closed, Pair!Listening, Pair!CannotListen, Pair!Expires,
       Pair!OnExpire
  <2> QED BY <2>2, <2>3, <2>4 DEF ServerTypes
<1>5. toUi' \in Seq(Pair!Events)
  <2>0. toUi \in Seq(Pair!Events)
    BY DEF PairTypes, PanelTypes
  <2>1. CASE Pair!Listening(c)
    <3> DEFINE e1 == [type |-> "listening", code |-> c, key |-> Pair!NoKey]
               e2 == [type |-> "reply", code |-> c, key |-> Pair!NoKey]
    <3>1. e1 \in Pair!Events /\ e2 \in Pair!Events
      BY Said
    <3>2. toUi' = toUi \o <<e1, e2>>
      BY <2>1 DEF Pair!Listening
    <3> HIDE DEF e1, e2
    <3>3. <<e1, e2>> \in Seq(Pair!Events)
      BY <3>1
    <3> QED BY <2>0, <3>2, <3>3
  <2>2. CASE Pair!CannotListen(c)
    <3> DEFINE e == [type |-> "failed", code |-> c, key |-> Pair!NoKey]
    <3>1. e \in Pair!Events /\ toUi' = Append(toUi, e)
      BY <2>2, Said DEF Pair!CannotListen
    <3> HIDE DEF e
    <3> QED BY <2>0, <3>1
  <2>3. CASE Pair!OnExpire(c)
    <3>1. CASE session = 0
      BY <2>0, <2>3, <3>1 DEF Pair!OnExpire
    <3>2. CASE session # 0
      <4>1. session \in Pair!Codes
        BY <3>2, PairingBasics DEF PairTypes, ServerTypes, Pair!Codes
      <4>2. Pair!Expired \in Pair!Events
        BY <4>1, Said DEF Pair!Expired
      <4>3. toUi' = Append(toUi, Pair!Expired)
        BY <2>3, <3>2 DEF Pair!OnExpire
      <4> QED BY <2>0, <4>2, <4>3
    <3> QED BY <3>1, <3>2
  <2>4. CASE Pair!Closed(c) \/ Pair!Expires(c)
    BY <2>0, <2>4 DEF Pair!Closed, Pair!Expires
  <2> QED BY <2>1, <2>2, <2>3, <2>4
<1>6. PanelTypes'
  BY <1>2, <1>5 DEF Pair!panel, PairTypes, PanelTypes
<1> QED BY <1>3, <1>4, <1>6 DEF PairTypes

LEMMA SessionIs ==
  ASSUME Pair!PairingAssumption, PairTypes, session # 0
  PROVE  session \in Pair!Codes
BY PairingBasics DEF PairTypes, ServerTypes, Pair!Codes

LEMMA ReceivedTypes ==
  ASSUME Pair!PairingAssumption, PairTypes, NEW j \in Joiners, Pair!Received(j) PROVE PairTypes'
<1>1. UNCHANGED <<calls, over, posted, answered, Pair!panel, Pair!stores>> /\ req[j] \in Posting
      /\ req[j].at = "sent"
  BY DEF Pair!Received, PairTypes, PostTypes
<1>2. ServerTypes'
  <2>1. \/ UNCHANGED <<session, timers, open>>
        \/ Pair!Stopped
    BY DEF Pair!Received
  <2> QED BY <1>1, <2>1, StoppedTypes, PairingBasics DEF PairTypes, ServerTypes
<1>3. PostTypes'
  <2>1. \/ req' = [req EXCEPT ![j].at = "refused"]
        \/ session \in Pair!Codes
             /\ req' = [req EXCEPT ![j] = [at |-> "reading", code |-> req[j].code,
                                           sess |-> session]]
    BY SessionIs DEF Pair!Received
  <2>2. req' \in [Joiners -> Posting]
    BY <1>1, <2>1, CodeIs DEF PairTypes, PostTypes, Posting
  <2>3. \A k \in Joiners \ {j} : req'[k] = req[k]
    BY <2>1 DEF PairTypes, PostTypes
  <2>4. /\ req'[j].at \in {"refused", "reading"} /\ req'[j].code = req[j].code
        /\ req'[j].at = "reading" => req'[j].sess \in Pair!Codes
    BY <1>1, <2>1 DEF PairTypes, PostTypes, Posting
  <2> QED BY <1>1, <2>2, <2>3, <2>4 DEF PairTypes, PostTypes
<1>4. toUi' \in Seq(Pair!Events)
  <2>1. toUi' = toUi \/ (session # 0 /\ toUi' = Append(toUi, Pair!Expired))
    BY DEF Pair!Received
  <2>2. session # 0 => Pair!Expired \in Pair!Events
    BY SessionIs, Said DEF Pair!Expired
  <2> QED BY <2>1, <2>2 DEF PairTypes, PanelTypes
<1>5. PanelTypes' /\ PairStoreTypes' /\ RowsFit'
  BY <1>1, <1>4 DEF Pair!panel, Pair!stores, PairTypes, PanelTypes, PairStoreTypes, RowsFit
<1> QED BY <1>2, <1>3, <1>5 DEF PairTypes

LEMMA HandledTypes ==
  ASSUME Pair!PairingAssumption, PairTypes, NEW j \in Joiners, Pair!Handled(j) PROVE PairTypes'
<1> DEFINE s == req[j].sess
<1>1. UNCHANGED <<calls, over, posted, Pair!panel, Pair!stores>> /\ s \in Pair!Codes
      /\ req[j].at = "reading"
  BY DEF Pair!Handled, PairTypes, PostTypes
<1>2. ServerTypes'
  <2>1. \/ UNCHANGED <<session, timers, open>>
        \/ Pair!Stopped
    BY DEF Pair!Handled
  <2> QED BY <1>1, <2>1, StoppedTypes, PairingBasics DEF PairTypes, ServerTypes
<1>3. <<s, j>> \in Pair!Keys
  BY <1>1 DEF Pair!Keys
<1>4. PostTypes'
  <2>1. /\ \E at \in {"refused", "answered"} : req' = [req EXCEPT ![j].at = at]
        /\ answered' = answered \/ answered' = answered \cup {<<s, j>>}
    BY DEF Pair!Handled
  <2>2. req' \in [Joiners -> Posting] /\ \A k \in Joiners \ {j} : req'[k] = req[k]
    BY <2>1 DEF PairTypes, PostTypes, Posting
  <2>3. req'[j].code = req[j].code /\ req'[j].sess = req[j].sess /\ req'[j].at # "sent"
    BY <2>1 DEF PairTypes, PostTypes, Posting
  <2>4. \A k \in Joiners :
          /\ req'[k].at \in {"sent", "reading", "answered"} => req'[k].code \in Pair!Codes
          /\ req'[k].at \in {"reading", "answered"} => req'[k].sess \in Pair!Codes
    BY <1>1, <2>2, <2>3 DEF PairTypes, PostTypes
  <2> QED BY <1>1, <1>3, <2>1, <2>2, <2>4 DEF PairTypes, PostTypes
<1>5. toUi' \in Seq(Pair!Events)
  <2> DEFINE e == [type |-> "connected", code |-> s, key |-> <<s, j>>]
  <2>1. e \in Pair!Events
    BY <1>1, <1>3, Said
  <2>2. toUi' = toUi \/ toUi' = Append(toUi, e)
    BY DEF Pair!Handled
  <2> HIDE DEF e
  <2> QED BY <2>1, <2>2 DEF PairTypes, PanelTypes
<1>6. PanelTypes' /\ PairStoreTypes' /\ RowsFit'
  BY <1>1, <1>5 DEF Pair!panel, Pair!stores, PairTypes, PanelTypes, PairStoreTypes, RowsFit
<1> QED BY <1>2, <1>4, <1>6 DEF PairTypes

LEMMA ZeroIs == ASSUME Pair!PairingAssumption PROVE 0 \in 0..MaxCodes /\ 0 \in 0..MaxPairs
BY PairingBasics

\* A press leaves everything typed that it does not touch.
LEMMA CallTypes ==
  ASSUME Pair!PairingAssumption, PairTypes, NEW p \in 0..MaxPairs, Pair!CallStart(p)
  PROVE  ServerTypes'
<1>1. PICK c \in Pair!Codes :
        calls' = [calls EXCEPT ![c] = [at |-> "closing", waits |-> session, pair |-> p]]
  BY DEF Pair!CallStart
<1>2. [at |-> "closing", waits |-> session, pair |-> p] \in Called
  BY DEF Called, Stages, PairTypes, ServerTypes
<1>3. calls' \in [Pair!Codes -> Called]
  BY <1>1, <1>2 DEF PairTypes, ServerTypes
<1>4. Pair!Stopped /\ over' = over
  BY DEF Pair!CallStart
<1> QED BY <1>3, <1>4, StoppedTypes, PairingBasics DEF PairTypes, ServerTypes

LEMMA StartTypes ==
  ASSUME Pair!PairingAssumption, PairTypes, NEW with \in PanelState, HostFits(with.row),
         Pair!StartHost(with), UNCHANGED <<Pair!posts, toUi, saving, minted, revoked, Pair!stores>>
  PROVE  PairTypes'
<1>1. ServerTypes'
  BY CallTypes DEF Pair!StartHost, PanelState
<1>2. ui' \in PanelState /\ ui'.row = with.row
  BY ZeroIs DEF Pair!StartHost, PanelState
<1>3. PostTypes' /\ PanelTypes' /\ PairStoreTypes' /\ RowsFit'
  BY <1>2 DEF Pair!posts, Pair!stores, PairTypes, PostTypes, PanelTypes, PairStoreTypes, RowsFit
<1> QED BY <1>1, <1>3 DEF PairTypes

LEMMA PressTypes ==
  ASSUME Pair!PairingAssumption, PairTypes,
         \/ Pair!OpenNewPairing \/ Pair!ShowCode \/ Pair!RevokeCode \/ Pair!ChangeAddress
         \/ Pair!CloseHost
         \/ \E p \in Pair!Pairs : Pair!Regenerate(p)
  PROVE  PairTypes'
<1> USE DEF PairTypes
<1>1. CASE Pair!OpenNewPairing
  <2>1. minted' \in 0..MaxPairs
    BY <1>1, PairingBasics DEF Pair!OpenNewPairing, PanelTypes
  <2>2. ui' \in PanelState /\ ui'.row = Pair!NoRow
    BY <1>1, <2>1, PairingBasics DEF Pair!OpenNewPairing, Pair!Shut, PanelState
  <2>3. UNCHANGED <<Pair!server, Pair!posts, toUi, saving, revoked, Pair!stores>>
    BY <1>1 DEF Pair!OpenNewPairing
  <2> QED
    BY <2>1, <2>2, <2>3, PairingBasics DEF Pair!server, Pair!posts, Pair!stores, ServerTypes,
       PostTypes, PanelTypes, PairStoreTypes, RowsFit
<1>2. CASE Pair!ShowCode
  <2>1. ui \in PanelState /\ HostFits(ui.row)
    BY DEF PanelTypes, RowsFit
  <2>2. Pair!StartHost(ui) /\ UNCHANGED <<Pair!posts, toUi, saving, minted, revoked, Pair!stores>>
    BY <1>2 DEF Pair!ShowCode
  <2> QED BY <2>1, <2>2, StartTypes
<1>3. ASSUME NEW p \in Pair!Pairs, Pair!Regenerate(p) PROVE PairTypes'
  <2> DEFINE with == [Pair!Shut EXCEPT !.pair = p, !.kind = "regenerate", !.row = hostRow[p]]
  <2>1. hostRow[p] \in Pair!Rows /\ HostFits(hostRow[p]) /\ p \in 0..MaxPairs
    BY PairingBasics DEF PairStoreTypes, RowsFit, Pair!Pairs
  <2>2. with \in PanelState /\ with.row = hostRow[p]
    BY <2>1, PairingBasics DEF PanelState, Pair!Shut
  <2>3. Pair!StartHost(with)
        /\ UNCHANGED <<Pair!posts, toUi, saving, minted, revoked, Pair!stores>>
    BY <1>3 DEF Pair!Regenerate
  <2> HIDE DEF with
  <2>4. HostFits(with.row)
    BY <2>1, <2>2
  <2> QED BY <2>2, <2>3, <2>4, StartTypes
<1>4. CASE Pair!RevokeCode \/ Pair!ChangeAddress \/ Pair!CloseHost
  <2>1. Pair!Stopped /\ UNCHANGED <<calls, over, Pair!posts, toUi, saving, minted, Pair!stores>>
    BY <1>4 DEF Pair!RevokeCode, Pair!ChangeAddress, Pair!CloseHost
  <2>2. ui' \in PanelState /\ ui'.row = ui.row
    BY <1>4, ZeroIs DEF Pair!RevokeCode, Pair!ChangeAddress, Pair!CloseHost, PanelTypes,
       PanelState
  <2>3. revoked' \subseteq Pair!Codes
    <3>1. CASE Pair!RevokeCode
      <4>1. ui.payload \in Pair!Codes
        BY <3>1, PairingBasics DEF Pair!RevokeCode, PanelTypes, PanelState, Pair!Codes
      <4> QED BY <3>1, <4>1 DEF Pair!RevokeCode, PanelTypes
    <3>2. CASE ~Pair!RevokeCode
      BY <1>4, <3>2 DEF Pair!ChangeAddress, Pair!CloseHost, PanelTypes
    <3> QED BY <3>1, <3>2
  <2>4. ServerTypes'
    BY <2>1, StoppedTypes, PairingBasics DEF ServerTypes
  <2> QED
    BY <2>1, <2>2, <2>3, <2>4 DEF Pair!posts, Pair!stores, PostTypes, PanelTypes,
       PairStoreTypes, RowsFit
<1> QED BY <1>1, <1>2, <1>3, <1>4

LEMMA HeadIs ==
  ASSUME PairTypes, toUi # <<>>
  PROVE  Head(toUi) \in Pair!Events /\ Tail(toUi) \in Seq(Pair!Events)
BY DEF PairTypes, PanelTypes

LEMMA UiTakesTypes == ASSUME Pair!PairingAssumption, PairTypes, Pair!UiTakes PROVE PairTypes'
<1> USE DEF PairTypes
<1> DEFINE e == Head(toUi)
<1>1. /\ toUi # <<>> /\ toUi' = Tail(toUi)
      /\ UNCHANGED <<Pair!server, Pair!posts, minted, revoked, hostRow, joinKey, joinRow, synced>>
  BY DEF Pair!UiTakes
<1>2. e \in Pair!Events /\ e.code \in Pair!Codes /\ e.key \in Pair!Keys \cup {Pair!NoKey}
      /\ toUi' \in Seq(Pair!Events)
  BY <1>1, HeadIs DEF Pair!Events
<1>3. /\ \/ ui' = ui
         \/ ui' = [ui EXCEPT !.payload = e.code, !.status = "listening"]
         \/ ui' = [ui EXCEPT !.payload = e.code]
         \/ \E s \in {"expired", "connected", "error"} : ui' = [ui EXCEPT !.status = s]
      /\ UNCHANGED <<hostKey, saving>> \/ (ui.pair # 0 /\ Pair!Connected(e))
  BY DEF Pair!UiTakes
<1> HIDE DEF e
<1>4. ui' \in PanelState /\ ui'.row = ui.row
  BY <1>2, <1>3, CodeIs DEF PanelTypes, PanelState
<1>5. /\ hostKey' \in [Pair!Pairs -> Pair!Keys \cup {Pair!NoKey}] /\ saving' \subseteq Waiting
      /\ \A s \in saving' : HostFits(s.row)
  <2>1. CASE UNCHANGED <<hostKey, saving>>
    BY <2>1 DEF PairStoreTypes, PanelTypes, RowsFit
  <2>2. CASE ui.pair # 0 /\ Pair!Connected(e)
    <3>1. ui.pair \in Pair!Pairs
      BY <2>2, PairingBasics DEF PanelTypes, PanelState, Pair!Pairs
    <3>2. [pair |-> ui.pair, kind |-> ui.kind, row |-> ui.row] \in Waiting
      BY <3>1 DEF Waiting, PanelTypes, PanelState
    <3> QED BY <1>2, <2>2, <3>1, <3>2 DEF Pair!Connected, PairStoreTypes, PanelTypes, RowsFit
  <2> QED BY <1>3, <2>1, <2>2
<1> QED
  BY <1>1, <1>2, <1>4, <1>5 DEF Pair!server, Pair!posts, ServerTypes, PostTypes, PanelTypes,
     PairStoreTypes, RowsFit

LEMMA RecordedTypes ==
  ASSUME Pair!PairingAssumption, PairTypes, NEW s \in saving, Pair!Recorded(s) PROVE PairTypes'
<1> USE DEF PairTypes
<1>1. /\ saving' = saving \ {s}
      /\ UNCHANGED <<Pair!server, Pair!posts, toUi, minted, revoked, hostKey, joinKey, joinRow,
                     synced>>
      /\ s \in Waiting /\ HostFits(s.row)
  BY DEF Pair!Recorded, PanelTypes, RowsFit
<1>2. ui' \in PanelState /\ ui'.row = ui.row
  BY ZeroIs DEF Pair!Recorded, PanelTypes, PanelState
<1>3. \E row \in Pair!Rows : HostFits(row) /\ hostRow' = [hostRow EXCEPT ![s.pair] = row]
  BY <1>1, PairingBasics DEF Pair!Recorded, Waiting
<1>4. hostRow' \in [Pair!Pairs -> Pair!Rows] /\ \A p \in Pair!Pairs : HostFits(hostRow'[p])
  BY <1>1, <1>3 DEF PairStoreTypes, RowsFit, Waiting
<1> QED
  BY <1>1, <1>2, <1>4 DEF Pair!server, Pair!posts, ServerTypes, PostTypes, PanelTypes,
     PairStoreTypes, RowsFit

LEMMA JoinTypes ==
  ASSUME Pair!PairingAssumption, PairTypes, NEW j \in Joiners,
         Pair!Joined(j) \/ Pair!ReplyLost(j) \/ \E c \in Pair!Codes : Pair!Join(j, c)
  PROVE  PairTypes'
<1> USE DEF PairTypes
<1>1. UNCHANGED <<Pair!server, answered, toUi, Pair!panel, hostKey, hostRow, synced>>
  BY DEF Pair!Joined, Pair!ReplyLost, Pair!Join, Pair!stores
<1>2. PostTypes'
  <2>1. posted' \subseteq Pair!Keys
    <3>1. posted' = posted \/ \E c \in Pair!Codes : posted' = posted \cup {<<c, j>>}
      BY DEF Pair!Joined, Pair!ReplyLost, Pair!Join, Pair!posts
    <3> QED BY <3>1 DEF PostTypes, Pair!Keys
  <2>2. PICK r \in Posting : /\ req' = [req EXCEPT ![j] = r]
                             /\ r.at \in {"idle", "early", "sent"}
                             /\ (r.at = "sent" => r.code \in Pair!Codes)
    <3>1. CASE \E c \in Pair!Codes : Pair!Join(j, c)
      <4>1. PICK c \in Pair!Codes : Pair!Join(j, c)
        BY <3>1
      <4>2. c \in 0..MaxCodes /\ 0 \in 0..MaxCodes
        BY CodeIs, PairingBasics
      <4>3. \A at \in {"early", "sent"} : [at |-> at, code |-> c, sess |-> 0] \in Posting
        BY <4>2 DEF Posting
      <4> QED BY <4>1, <4>3 DEF Pair!Join
    <3>2. CASE Pair!Joined(j) \/ Pair!ReplyLost(j)
      BY <3>2, PairingBasics DEF Pair!Joined, Pair!ReplyLost, Pair!Idle
    <3> QED BY <3>1, <3>2
  <2> QED BY <1>1, <2>1, <2>2 DEF PostTypes
<1>3. /\ joinKey' \in [Joiners -> [Pair!Pairs -> Pair!Keys \cup {Pair!NoKey}]]
      /\ joinRow' \in [Joiners -> [Pair!Pairs -> Pair!Rows]]
      /\ \A k \in Joiners, p \in Pair!Pairs : JoinFits(joinRow'[k][p])
  <2>1. CASE Pair!Joined(j)
    <3> DEFINE q == Pair!PairOf(req[j].sess)
               key == <<req[j].sess, j>>
    <3>1. key \in Pair!Keys /\ Pair!Fresh(TRUE) \in Pair!Rows /\ JoinFits(Pair!Fresh(TRUE))
      BY <2>1, PairingBasics DEF Pair!Joined, PostTypes, Pair!Keys
    <3>2. /\ joinKey' = [joinKey EXCEPT ![j][q] = key]
          /\ joinRow' = [joinRow EXCEPT ![j][q] = Pair!Fresh(TRUE)]
      BY <2>1 DEF Pair!Joined
    <3> HIDE DEF q, key
    <3> QED BY <3>1, <3>2 DEF PairStoreTypes, RowsFit
  <2>2. CASE ~Pair!Joined(j)
    BY <2>2 DEF Pair!ReplyLost, Pair!Join, Pair!stores, PairStoreTypes, RowsFit
  <2> QED BY <2>1, <2>2
<1> QED
  BY <1>1, <1>2, <1>3 DEF Pair!server, Pair!panel, ServerTypes, PanelTypes, PairStoreTypes,
     RowsFit

Numbered == [out : Int, acc : Int, addr : BOOLEAN]

LEMMA NumberedSet ==
  ASSUME NEW row \in Numbered, NEW n \in Int, NEW m \in Int
  PROVE  [row EXCEPT !.out = n, !.acc = m] = [out |-> n, acc |-> m, addr |-> row.addr]
<1> DEFINE x == [row EXCEPT !.out = n, !.acc = m]
           y == [out |-> n, acc |-> m, addr |-> row.addr]
<1>1. x \in Numbered /\ y \in Numbered /\ x.out = y.out /\ x.acc = y.acc /\ x.addr = y.addr
  BY DEF Numbered
<1> HIDE DEF x, y
<1>2. x = y
  BY <1>1 DEF Numbered
<1> QED BY <1>2 DEF x, y

LEMMA RowIs ==
  ASSUME Pair!PairingAssumption, NEW row \in Pair!Rows
  PROVE  /\ row \in Numbered /\ row.addr \in BOOLEAN
         /\ row.out \in Int /\ -1 <= row.out /\ row.out <= 3 * MaxRounds
         /\ row.acc \in Int /\ -1 <= row.acc /\ row.acc <= 3 * MaxRounds
<1>1. CASE row = Pair!NoRow
  BY <1>1, PairingBasics DEF Pair!NoRow, Numbered
<1>2. CASE row # Pair!NoRow
  BY <1>2, PairingBasics DEF Pair!Rows, Numbered
<1> QED BY <1>1, <1>2

LEMMA RowMade ==
  ASSUME Pair!PairingAssumption, NEW n \in Int, NEW m \in Int, NEW addr \in BOOLEAN,
         0 <= n, n <= 3 * MaxRounds, 0 <= m, m <= 3 * MaxRounds
  PROVE  [out |-> n, acc |-> m, addr |-> addr] \in Pair!Rows
BY PairingBasics DEF Pair!Rows

\* What an exchange leaves in the two rows.
LEMMA NumbersFit ==
  ASSUME NEW S \in Nat, NEW ho \in Int, NEW ha \in Int, NEW ro \in Int, NEW ra \in Int,
         -1 <= ho, -1 <= ha, -1 <= ro, -1 <= ra,
         ho <= ha + 2 * S, ro <= ra + S,
         \/ ro < S /\ ro + 1 > ha
         \/ ho < 2 * S /\ ho + 1 > ra
  PROVE  /\ 0 <= ho + 1 /\ ho + 1 <= 3 * S /\ 0 <= ro + 1 /\ ro + 1 <= 3 * S
         /\ ro + 1 > ha => ho + 1 <= (ro + 1) + 2 * S
         /\ ho < 2 * S => ho + 1 <= (ro + 1) + 2 * S
         /\ ho + 1 > ra => ro + 1 <= (ho + 1) + S
         /\ ro < S => ro + 1 <= (ho + 1) + S
OBVIOUS

LEMMA AsksTypes ==
  ASSUME Pair!PairingAssumption, PairTypes, NEW j \in Joiners, NEW p \in Pair!Pairs,
         Pair!JoinerAsks(j, p) \/ Pair!HostAsks(j, p)
  PROVE  PairTypes'
<1> DEFINE h == hostRow[p]
           r == joinRow[j][p]
           hn == [out |-> h.out + 1, acc |-> r.out + 1, addr |-> TRUE]
           hh == [out |-> h.out + 1, acc |-> r.out + 1, addr |-> h.addr]
           rn == [out |-> r.out + 1, acc |-> h.out + 1, addr |-> r.addr]
<1>1. /\ h \in Pair!Rows /\ r \in Pair!Rows /\ HostFits(h) /\ JoinFits(r) /\ MaxRounds \in Nat
      /\ joinKey[j][p] \in Pair!Keys \cup {Pair!NoKey}
      /\ hostKey[p] \in Pair!Keys \cup {Pair!NoKey}
      /\ hostRow \in [Pair!Pairs -> Pair!Rows]
      /\ joinRow \in [Joiners -> [Pair!Pairs -> Pair!Rows]]
  BY PairingBasics DEF PairTypes, PairStoreTypes, RowsFit
<1>2. /\ h.out \in Int /\ h.acc \in Int /\ r.out \in Int /\ r.acc \in Int
      /\ -1 <= h.out /\ -1 <= h.acc /\ -1 <= r.out /\ -1 <= r.acc
      /\ h.addr \in BOOLEAN /\ r.addr \in BOOLEAN
  BY <1>1, RowIs
<1>3. h.out <= h.acc + 2 * MaxRounds /\ r.out <= r.acc + MaxRounds
  BY <1>1 DEF HostFits, JoinFits
<1>4. /\ UNCHANGED <<Pair!server, Pair!posts, toUi, Pair!panel, hostKey, joinKey>>
      /\ joinKey[j][p] \in Pair!Keys
      /\ \/ /\ r.out < MaxRounds /\ r.out + 1 > h.acc
            /\ hostRow' = [hostRow EXCEPT ![p] = hn]
            /\ \/ joinRow' = joinRow /\ synced' = synced
               \/ /\ joinRow' = [joinRow EXCEPT ![j][p] = rn]
                  /\ synced' = synced \cup {joinKey[j][p]}
         \/ /\ h.out < 2 * MaxRounds /\ h.out + 1 > r.acc
            /\ joinRow' = [joinRow EXCEPT ![j][p] = rn]
            /\ \/ hostRow' = hostRow /\ synced' = synced
               \/ /\ hostRow' = [hostRow EXCEPT ![p] = hh]
                  /\ synced' = synced \cup {joinKey[j][p]}
  <2> DEFINE hx == [hostRow[p] EXCEPT !.out = hostRow[p].out + 1, !.acc = r.out + 1]
             rx == [joinRow[j][p] EXCEPT !.out = joinRow[j][p].out + 1, !.acc = h.out + 1]
  <2>1. joinKey[j][p] \in Pair!Keys
    BY <1>1, PairingBasics DEF Pair!JoinerAsks, Pair!HostAsks, Pair!Shares
  <2>2. h \in Numbered /\ r \in Numbered
    BY <1>1, RowIs
  <2>0. h.out + 1 \in Int /\ r.out + 1 \in Int
    BY <1>2
  <2>3. hx = hh
    <3> DEFINE n == h.out + 1
               m == r.out + 1
               row == h
    <3>1. row \in Numbered /\ n \in Int /\ m \in Int
      BY <2>0, <2>2
    <3> HIDE DEF n, m, row
    <3>2. [row EXCEPT !.out = n, !.acc = m] = [out |-> n, acc |-> m, addr |-> row.addr]
      BY <3>1, NumberedSet, Zenon
    <3> QED BY <3>2 DEF n, m, row
  <2>4. rx = rn
    <3> DEFINE n == r.out + 1
               m == h.out + 1
               row == r
    <3>1. row \in Numbered /\ n \in Int /\ m \in Int
      BY <2>0, <2>2
    <3> HIDE DEF n, m, row
    <3>2. [row EXCEPT !.out = n, !.acc = m] = [out |-> n, acc |-> m, addr |-> row.addr]
      BY <3>1, NumberedSet, Zenon
    <3> QED BY <3>2 DEF n, m, row
  <2>5. [hostRow EXCEPT ![p].out = hostRow[p].out + 1, ![p].acc = r.out + 1]
           = [hostRow EXCEPT ![p] = hx]
    BY <1>1
  <2>6. [joinRow EXCEPT ![j][p].out = joinRow[j][p].out + 1, ![j][p].acc = h.out + 1]
          = [joinRow EXCEPT ![j] = [joinRow[j] EXCEPT ![p] = rx]]
    <3>1. joinRow[j] \in [Pair!Pairs -> Pair!Rows]
      BY <1>1
    <3>2. [joinRow EXCEPT ![j][p].out = joinRow[j][p].out + 1, ![j][p].acc = h.out + 1]
            = [joinRow EXCEPT ![j] = [joinRow[j] EXCEPT
                                        ![p].out = joinRow[j][p].out + 1, ![p].acc = h.out + 1]]
      BY <1>1
    <3>3. [joinRow[j] EXCEPT ![p].out = joinRow[j][p].out + 1, ![p].acc = h.out + 1]
             = [joinRow[j] EXCEPT ![p] = rx]
      BY <3>1
    <3> QED BY <3>2, <3>3
  <2>7. CASE Pair!JoinerAsks(j, p)
    BY <2>1, <2>4, <2>6, <2>7 DEF Pair!JoinerAsks
  <2>8. CASE Pair!HostAsks(j, p)
    BY <2>1, <2>3, <2>4, <2>5, <2>6, <2>8 DEF Pair!HostAsks
  <2> QED BY <2>7, <2>8
<1>5. /\ 0 <= h.out + 1 /\ h.out + 1 <= 3 * MaxRounds
      /\ 0 <= r.out + 1 /\ r.out + 1 <= 3 * MaxRounds
      /\ r.out + 1 > h.acc => h.out + 1 <= (r.out + 1) + 2 * MaxRounds
      /\ h.out < 2 * MaxRounds => h.out + 1 <= (r.out + 1) + 2 * MaxRounds
      /\ h.out + 1 > r.acc => r.out + 1 <= (h.out + 1) + MaxRounds
      /\ r.out < MaxRounds => r.out + 1 <= (h.out + 1) + MaxRounds
  <2> DEFINE ho == h.out
             ha == h.acc
             ro == r.out
             ra == r.acc
  <2>1. /\ ho \in Int /\ ha \in Int /\ ro \in Int /\ ra \in Int /\ MaxRounds \in Nat
        /\ -1 <= ho /\ -1 <= ha /\ -1 <= ro /\ -1 <= ra
        /\ ho <= ha + 2 * MaxRounds /\ ro <= ra + MaxRounds
        /\ (ro < MaxRounds /\ ro + 1 > ha) \/ (ho < 2 * MaxRounds /\ ho + 1 > ra)
    BY <1>1, <1>2, <1>3, <1>4
  <2> HIDE DEF ho, ha, ro, ra
  <2>2. /\ 0 <= ho + 1 /\ ho + 1 <= 3 * MaxRounds
        /\ 0 <= ro + 1 /\ ro + 1 <= 3 * MaxRounds
        /\ ro + 1 > ha => ho + 1 <= (ro + 1) + 2 * MaxRounds
        /\ ho < 2 * MaxRounds => ho + 1 <= (ro + 1) + 2 * MaxRounds
        /\ ho + 1 > ra => ro + 1 <= (ho + 1) + MaxRounds
        /\ ro < MaxRounds => ro + 1 <= (ho + 1) + MaxRounds
    BY <2>1, NumbersFit
  <2> QED BY <2>2 DEF ho, ha, ro, ra
<1>6. hn \in Pair!Rows /\ hh \in Pair!Rows /\ rn \in Pair!Rows
  <2>1. h.out + 1 \in Int /\ r.out + 1 \in Int
    BY <1>2
  <2> QED BY <1>2, <1>5, <2>1, RowMade
<1>7. /\ \/ hostRow' = hostRow
         \/ \E row \in Pair!Rows : HostFits(row) /\ hostRow' = [hostRow EXCEPT ![p] = row]
      /\ \/ joinRow' = joinRow
         \/ \E row \in Pair!Rows : JoinFits(row) /\ joinRow' = [joinRow EXCEPT ![j][p] = row]
      /\ synced' = synced \/ synced' = synced \cup {joinKey[j][p]}
  <2>1. JoinFits(rn) /\ HostFits(hn) /\ HostFits(hh)
    BY <1>4, <1>5 DEF JoinFits, HostFits
  <2> QED BY <1>4, <1>6, <2>1
<1> HIDE DEF h, r, hn, hh, rn
<1>8. /\ hostRow' \in [Pair!Pairs -> Pair!Rows] /\ \A q \in Pair!Pairs : HostFits(hostRow'[q])
  BY <1>1, <1>7 DEF PairTypes, RowsFit
<1>9. /\ joinRow' \in [Joiners -> [Pair!Pairs -> Pair!Rows]]
      /\ \A k \in Joiners, q \in Pair!Pairs : JoinFits(joinRow'[k][q])
  BY <1>1, <1>7 DEF PairTypes, RowsFit
<1>10. synced' \subseteq Pair!Keys
  BY <1>4, <1>7 DEF PairTypes, PairStoreTypes
<1> QED
  BY <1>4, <1>8, <1>9, <1>10 DEF Pair!server, Pair!posts, Pair!panel, PairTypes, ServerTypes,
     PostTypes, PanelTypes, PairStoreTypes, RowsFit

LEMMA StepPairTypes ==
  ASSUME Pair!PairingAssumption, PairTypes, [Pair!Next]_Pair!vars
  PROVE  PairTypes'
<1>1. CASE UNCHANGED Pair!vars
  BY <1>1 DEF Pair!vars, Pair!server, Pair!posts, Pair!panel, Pair!stores, PairTypes,
     ServerTypes, PostTypes, PanelTypes, PairStoreTypes, RowsFit
<1>2. CASE Pair!Next
  BY <1>2, ServerStepTypes, PressTypes, UiTakesTypes, RecordedTypes, ReceivedTypes,
     HandledTypes, JoinTypes, AsksTypes DEF Pair!Next
<1> QED BY <1>1, <1>2

-----------------------------------------------------------------------------
(* The invariant behind KeptForItsOwn *)

Up(c) == calls[c].at = "up"

\* Of what was said and not yet heard: a device connected over the code that is named.
Vouched == \A n \in 1..Len(toUi) : toUi[n].type = "connected" =>
           toUi[n].key \in answered /\ toUi[n].key[1] = toUi[n].code

\* Whatever a session left behind was left by a call of start() that is over, and which
\* therefore keeps its pairing.
Served ==
  /\ session # 0 => Up(session)
  /\ \A j \in Joiners : req[j].at \in {"reading", "answered"} => Up(req[j].sess)
  /\ \A k \in answered : Up(k[1])

KeyOf(p) == hostKey[p] # Pair!NoKey => Pair!PairOf(hostKey[p][1]) = p /\ hostKey[p] \in answered

JoinKeyOf(j, p) ==
  joinKey[j][p] # Pair!NoKey => Up(joinKey[j][p][1]) /\ Pair!PairOf(joinKey[j][p][1]) = p

KeepInv ==
  Served /\ Vouched /\ (\A p \in Pair!Pairs : KeyOf(p))
    /\ (\A j \in Joiners, p \in Pair!Pairs : JoinKeyOf(j, p))

LEMMA KeptByInv == ASSUME KeepInv PROVE Pair!KeptForItsOwn
BY DEF KeepInv, KeyOf, JoinKeyOf, Pair!KeptForItsOwn

LEMMA InitKeep == ASSUME Pair!PairingAssumption, Pair!Init PROVE KeepInv
BY DEF Pair!Init, KeepInv, Served, Vouched, KeyOf, JoinKeyOf, Pair!Idle

\* A call that is over stays what it is, and who was answered stays answered.
LEMMA StaysUp ==
  ASSUME Pair!PairingAssumption, PairTypes, [Pair!Next]_Pair!vars
  PROVE  /\ \A c \in Pair!Codes : Up(c) => Up(c)' /\ Pair!PairOf(c)' = Pair!PairOf(c)
         /\ answered \subseteq answered'
<1>1. calls \in [Pair!Codes -> Called]
  BY DEF PairTypes, ServerTypes
<1>2. CASE UNCHANGED <<calls, answered>>
  BY <1>2 DEF Up, Pair!PairOf
<1>3. ASSUME NEW p, Pair!CallStart(p), UNCHANGED answered
      PROVE  \A c \in Pair!Codes : Up(c) => Up(c)' /\ Pair!PairOf(c)' = Pair!PairOf(c)
  <2>1. PICK c \in Pair!Codes : /\ calls[c].at = "none"
                                /\ calls' = [calls EXCEPT ![c] =
                                               [at |-> "closing", waits |-> session, pair |-> p]]
    BY <1>3 DEF Pair!CallStart
  <2> QED BY <1>1, <2>1 DEF Up, Pair!PairOf
<1>4. ASSUME NEW c \in Pair!Codes, Pair!Closed(c) \/ Pair!Listening(c) \/ Pair!CannotListen(c)
      PROVE  /\ \A d \in Pair!Codes : Up(d) => Up(d)' /\ Pair!PairOf(d)' = Pair!PairOf(d)
             /\ answered' = answered
  <2>1. PICK at : calls' = [calls EXCEPT ![c].at = at]
    BY <1>4 DEF Pair!Closed, Pair!Listening, Pair!CannotListen
  <2>2. ~Up(c) /\ answered' = answered
    BY <1>4 DEF Pair!Closed, Pair!Listening, Pair!CannotListen, Up, Pair!posts
  <2>3. \A d \in Pair!Codes : (d # c => calls'[d] = calls[d])
    BY <1>1, <2>1
  <2> QED BY <2>2, <2>3 DEF Up, Pair!PairOf
<1>5. ASSUME NEW j \in Joiners, Pair!Handled(j)
      PROVE  UNCHANGED calls /\ answered \subseteq answered'
  BY <1>5 DEF Pair!Handled
<1> DEFINE Calls == \/ UNCHANGED <<calls, answered>>
                    \/ \E p : Pair!CallStart(p) /\ UNCHANGED answered
                    \/ \E c \in Pair!Codes : Pair!Closed(c) \/ Pair!Listening(c)
                         \/ Pair!CannotListen(c)
                    \/ \E j \in Joiners : Pair!Handled(j)
<1>6. Calls
  <2>1. CASE Pair!ShowCode \/ \E p \in Pair!Pairs : Pair!Regenerate(p)
    BY <2>1 DEF Pair!ShowCode, Pair!Regenerate, Pair!StartHost, Pair!posts
  <2>2. CASE \E j \in Joiners : \/ Pair!Received(j) \/ Pair!Joined(j) \/ Pair!ReplyLost(j)
                                \/ \E c \in Pair!Codes : Pair!Join(j, c)
                                \/ \E p \in Pair!Pairs :
                                     Pair!JoinerAsks(j, p) \/ Pair!HostAsks(j, p)
    <3>1. ASSUME NEW j \in Joiners,
                 Pair!Received(j) \/ Pair!Joined(j) \/ Pair!ReplyLost(j)
                 \/ \E c \in Pair!Codes : Pair!Join(j, c)
          PROVE  UNCHANGED <<calls, answered>>
      BY <3>1 DEF Pair!Received, Pair!Joined, Pair!ReplyLost, Pair!Join, Pair!server, Pair!posts
    <3>2. ASSUME NEW j \in Joiners, NEW p \in Pair!Pairs,
                 Pair!JoinerAsks(j, p) \/ Pair!HostAsks(j, p)
          PROVE  UNCHANGED <<calls, answered>>
      BY <3>2 DEF Pair!JoinerAsks, Pair!HostAsks, Pair!server, Pair!posts
    <3> QED BY <2>2, <3>1, <3>2
  <2>3. CASE \/ Pair!OpenNewPairing \/ Pair!RevokeCode \/ Pair!ChangeAddress \/ Pair!CloseHost
             \/ Pair!UiTakes
             \/ \E s \in saving : Pair!Recorded(s)
             \/ \E c \in Pair!Codes : Pair!Expires(c) \/ Pair!OnExpire(c)
             \/ UNCHANGED Pair!vars
    <3>1. UNCHANGED <<calls, answered>>
      BY <2>3 DEF Pair!OpenNewPairing, Pair!RevokeCode, Pair!ChangeAddress, Pair!CloseHost,
         Pair!UiTakes, Pair!Recorded, Pair!Expires, Pair!OnExpire, Pair!server, Pair!posts,
         Pair!vars
    <3> QED BY <3>1
  <2>4. CASE \/ \E c \in Pair!Codes : Pair!Closed(c) \/ Pair!Listening(c) \/ Pair!CannotListen(c)
             \/ \E j \in Joiners : Pair!Handled(j)
    BY <2>4
  <2> HIDE DEF Calls
  <2> QED BY <2>1, <2>2, <2>3, <2>4 DEF Pair!Next
<1> QED BY <1>2, <1>3, <1>4, <1>5, <1>6 DEF Up, Pair!PairOf

\* What is added to the queue is no connection, or one that was answered.
Fine(e) == e.type = "connected" => e.key \in answered' /\ e.key[1] = e.code

LEMMA VouchedLonger ==
  ASSUME toUi \in Seq(Pair!Events), Vouched, answered \subseteq answered', NEW e \in Pair!Events,
         Fine(e),
         toUi' = Append(toUi, e)
  PROVE  Vouched'
<1> SUFFICES ASSUME NEW n \in 1..Len(toUi'), toUi'[n].type = "connected"
             PROVE  toUi'[n].key \in answered' /\ toUi'[n].key[1] = toUi'[n].code
  BY DEF Vouched
<1>1. CASE n \in 1..Len(toUi)
  BY <1>1 DEF Vouched
<1>2. CASE n = Len(toUi) + 1
  BY <1>2 DEF Fine
<1> QED BY <1>1, <1>2

\* What the main process says in a step.
LEMMA Tells ==
  ASSUME Pair!PairingAssumption, PairTypes, [Pair!Next]_Pair!vars
  PROVE  \/ toUi' = toUi
         \/ toUi # <<>> /\ toUi' = Tail(toUi) /\ Pair!UiTakes
         \/ \E c \in Pair!Codes : Pair!Listening(c)
         \/ \E e \in Pair!Events : toUi' = Append(toUi, e) /\ Fine(e)
<1> DEFINE Says == \/ toUi' = toUi
                   \/ toUi # <<>> /\ toUi' = Tail(toUi) /\ Pair!UiTakes
                   \/ \E c \in Pair!Codes : Pair!Listening(c)
                   \/ \E e \in Pair!Events : toUi' = Append(toUi, e) /\ Fine(e)
<1>1. ASSUME NEW c \in Pair!Codes, Pair!CannotListen(c) PROVE Says
  <2> DEFINE e == [type |-> "failed", code |-> c, key |-> Pair!NoKey]
  <2>1. e \in Pair!Events /\ toUi' = Append(toUi, e) /\ e.type # "connected"
    BY <1>1, Said DEF Pair!CannotListen
  <2> HIDE DEF e
  <2> QED BY <2>1 DEF Fine
<1>2. session # 0 => Pair!Expired \in Pair!Events /\ Pair!Expired.type # "connected"
  BY SessionIs, Said DEF Pair!Expired
<1>3. ASSUME NEW c \in Pair!Codes, Pair!OnExpire(c) PROVE Says
  <2>1. toUi' = toUi \/ (session # 0 /\ toUi' = Append(toUi, Pair!Expired))
    BY <1>3 DEF Pair!OnExpire
  <2> QED BY <1>2, <2>1 DEF Fine
<1>4. ASSUME NEW j \in Joiners, Pair!Received(j) PROVE Says
  <2>1. toUi' = toUi \/ (session # 0 /\ toUi' = Append(toUi, Pair!Expired))
    BY <1>4 DEF Pair!Received
  <2> QED BY <1>2, <2>1 DEF Fine
<1>5. ASSUME NEW j \in Joiners, Pair!Handled(j) PROVE Says
  <2> DEFINE s == req[j].sess
             e == [type |-> "connected", code |-> s, key |-> <<s, j>>]
  <2>1. s \in Pair!Codes /\ <<s, j>> \in Pair!Keys
    BY <1>5 DEF Pair!Handled, PairTypes, PostTypes, Pair!Keys
  <2>2. e \in Pair!Events /\ e.code = s /\ e.key = <<s, j>>
    BY <2>1, Said
  <2>3. toUi' = toUi \/ (toUi' = Append(toUi, e) /\ answered' = answered \cup {<<s, j>>})
    BY <1>5 DEF Pair!Handled
  <2>4. CASE toUi' = toUi
    BY <2>4
  <2>5. CASE toUi' = Append(toUi, e) /\ answered' = answered \cup {<<s, j>>}
    <3>1. Fine(e)
      BY <2>2, <2>5 DEF Fine
    <3> HIDE DEF e
    <3> QED BY <2>2, <2>5, <3>1
  <2> QED BY <2>3, <2>4, <2>5
<1>7. ASSUME NEW c \in Pair!Codes, Pair!Closed(c) \/ Pair!Expires(c) PROVE toUi' = toUi
  BY <1>7 DEF Pair!Closed, Pair!Expires
<1>8. ASSUME NEW j \in Joiners,
             Pair!Joined(j) \/ Pair!ReplyLost(j) \/ \E c \in Pair!Codes : Pair!Join(j, c)
      PROVE  toUi' = toUi
  BY <1>8 DEF Pair!Joined, Pair!ReplyLost, Pair!Join
<1>9. ASSUME NEW j \in Joiners, NEW p \in Pair!Pairs, Pair!JoinerAsks(j, p) \/ Pair!HostAsks(j, p)
      PROVE  toUi' = toUi
  BY <1>9 DEF Pair!JoinerAsks, Pair!HostAsks
<1>10. ASSUME \/ Pair!OpenNewPairing \/ Pair!ShowCode \/ Pair!RevokeCode \/ Pair!ChangeAddress
              \/ Pair!CloseHost
            \/ (\E p \in Pair!Pairs : Pair!Regenerate(p)) \/ (\E s \in saving : Pair!Recorded(s))
            \/ UNCHANGED Pair!vars
       PROVE  toUi' = toUi
  <2>1. toUi' = toUi
    BY <1>10 DEF Pair!OpenNewPairing, Pair!ShowCode, Pair!RevokeCode, Pair!ChangeAddress,
       Pair!CloseHost, Pair!Regenerate, Pair!Recorded, Pair!vars
  <2> QED BY <2>1
<1> HIDE DEF Says
<1>11. (toUi' = toUi => Says) /\ ((\E c \in Pair!Codes : Pair!Listening(c)) => Says)
  BY DEF Says
<1>12. ASSUME NEW c \in Pair!Codes,
              Pair!Closed(c) \/ Pair!Listening(c) \/ Pair!CannotListen(c) \/ Pair!Expires(c)
              \/ Pair!OnExpire(c)
       PROVE  Says
  BY <1>1, <1>3, <1>7, <1>11, <1>12
<1>13. ASSUME NEW j \in Joiners,
              \/ Pair!Received(j) \/ Pair!Handled(j) \/ Pair!Joined(j) \/ Pair!ReplyLost(j)
              \/ \E c \in Pair!Codes : Pair!Join(j, c)
              \/ \E p \in Pair!Pairs : Pair!JoinerAsks(j, p) \/ Pair!HostAsks(j, p)
       PROVE  Says
  BY <1>4, <1>5, <1>8, <1>9, <1>11, <1>13
<1>14. Pair!UiTakes => Says
  <2>1. Pair!UiTakes => toUi # <<>> /\ toUi' = Tail(toUi)
    BY DEF Pair!UiTakes
  <2> QED BY <2>1 DEF Says
<1> SUFFICES Says
  BY DEF Says
<1>15. CASE \/ Pair!OpenNewPairing \/ Pair!ShowCode \/ Pair!RevokeCode \/ Pair!ChangeAddress
            \/ Pair!CloseHost
            \/ (\E p \in Pair!Pairs : Pair!Regenerate(p)) \/ (\E s \in saving : Pair!Recorded(s))
            \/ UNCHANGED Pair!vars
  BY <1>10, <1>11, <1>15
<1>16. CASE \E c \in Pair!Codes : Pair!Closed(c) \/ Pair!Listening(c) \/ Pair!CannotListen(c)
              \/ Pair!Expires(c) \/ Pair!OnExpire(c)
  BY <1>12, <1>16
<1>17. CASE \E j \in Joiners :
              \/ Pair!Received(j) \/ Pair!Handled(j) \/ Pair!Joined(j) \/ Pair!ReplyLost(j)
              \/ \E c \in Pair!Codes : Pair!Join(j, c)
              \/ \E p \in Pair!Pairs : Pair!JoinerAsks(j, p) \/ Pair!HostAsks(j, p)
  BY <1>13, <1>17
<1>18. Says
  BY <1>14, <1>15, <1>16, <1>17 DEF Pair!Next
<1> QED BY <1>18

LEMMA StepVouched ==
  ASSUME Pair!PairingAssumption, PairTypes, KeepInv, [Pair!Next]_Pair!vars PROVE Vouched'
<1>1. toUi \in Seq(Pair!Events) /\ Vouched /\ answered \subseteq answered'
  BY StaysUp DEF PairTypes, PanelTypes, KeepInv
<1>2. CASE toUi' = toUi
  BY <1>1, <1>2 DEF Vouched
<1>3. CASE toUi # <<>> /\ toUi' = Tail(toUi)
  <2>1. Len(toUi') = Len(toUi) - 1 /\ \A n \in 1..Len(toUi') : toUi'[n] = toUi[n + 1]
    BY <1>1, <1>3
  <2>2. Len(toUi) \in Nat
    BY <1>1
  <2>3. \A n \in 1..Len(toUi') : n + 1 \in 1..Len(toUi)
    BY <2>1, <2>2
  <2> QED BY <1>1, <2>1, <2>3 DEF Vouched
<1>4. ASSUME NEW c \in Pair!Codes, Pair!Listening(c) PROVE Vouched'
  <2> DEFINE e1 == [type |-> "listening", code |-> c, key |-> Pair!NoKey]
             e2 == [type |-> "reply", code |-> c, key |-> Pair!NoKey]
  <2>1. e1 \in Pair!Events /\ e2 \in Pair!Events /\ e1.type # "connected" /\ e2.type # "connected"
    BY Said
  <2>2. toUi' = toUi \o <<e1, e2>>
    BY <1>4 DEF Pair!Listening
  <2> HIDE DEF e1, e2
  <2>3. \A n \in 1..Len(toUi') :
          (n \in 1..Len(toUi) /\ toUi'[n] = toUi[n]) \/ toUi'[n] \in {e1, e2}
    BY <1>1, <2>1, <2>2
  <2> QED BY <1>1, <2>1, <2>3 DEF Vouched
<1>5. ASSUME NEW e \in Pair!Events, toUi' = Append(toUi, e), Fine(e) PROVE Vouched'
  BY <1>1, <1>5, VouchedLonger
<1> QED BY <1>2, <1>3, <1>4, <1>5, Tells

\* After the step.
UpNext(c) == calls'[c].at = "up"

\* A session is one whose call is over, and so is one a handler or a joiner remembers.
LEMMA StepServed ==
  ASSUME Pair!PairingAssumption, PairTypes, KeepInv, [Pair!Next]_Pair!vars PROVE Served'
<1>1. /\ \A c \in Pair!Codes : Up(c) => UpNext(c)
      /\ session # 0 => session \in Pair!Codes /\ Up(session)
      /\ calls \in [Pair!Codes -> Called]
  BY StaysUp, SessionIs DEF KeepInv, Served, PairTypes, ServerTypes, Up, UpNext
<1>2. /\ \A j \in Joiners : req[j].at \in {"reading", "answered"} => UpNext(req[j].sess)
      /\ \A k \in answered : UpNext(k[1])
  <2>1. /\ \A j \in Joiners : req[j].at \in {"reading", "answered"} =>
             req[j].sess \in Pair!Codes /\ Up(req[j].sess)
        /\ \A k \in answered : k[1] \in Pair!Codes /\ Up(k[1])
    BY DEF KeepInv, Served, PairTypes, PostTypes, Pair!Keys
  <2> HIDE DEF Up, UpNext
  <2> QED BY <1>1, <2>1
<1> DEFINE Session == \/ session' \in {0, session}
                      \/ \E c \in Pair!Codes : Pair!Listening(c)
           Posts == \/ UNCHANGED <<req, answered>>
                    \/ \E j \in Joiners : Pair!Received(j) \/ Pair!Handled(j) \/ Pair!Joined(j)
                         \/ Pair!ReplyLost(j)
                                          \/ \E c \in Pair!Codes : Pair!Join(j, c)
<1>3. Session /\ Posts
  <2>1. ASSUME NEW c \in Pair!Codes,
               Pair!Closed(c) \/ Pair!CannotListen(c) \/ Pair!Expires(c) \/ Pair!OnExpire(c)
        PROVE  session' \in {0, session} /\ UNCHANGED <<req, answered>>
    BY <2>1 DEF Pair!Closed, Pair!CannotListen, Pair!Expires, Pair!OnExpire, Pair!posts
  <2>2. ASSUME NEW c \in Pair!Codes, Pair!Listening(c) PROVE UNCHANGED <<req, answered>>
    BY <2>2 DEF Pair!Listening, Pair!posts
  <2>3. ASSUME NEW j \in Joiners,
               Pair!Received(j) \/ Pair!Handled(j) \/ Pair!Joined(j) \/ Pair!ReplyLost(j)
                                  \/ \E c \in Pair!Codes : Pair!Join(j, c)
        PROVE  session' \in {0, session}
    BY <2>3 DEF Pair!Received, Pair!Handled, Pair!Joined, Pair!ReplyLost, Pair!Join,
       Pair!Stopped, Pair!server
  <2>4. ASSUME NEW j \in Joiners, NEW p \in Pair!Pairs,
               Pair!JoinerAsks(j, p) \/ Pair!HostAsks(j, p)
        PROVE  session' = session /\ UNCHANGED <<req, answered>>
    BY <2>4 DEF Pair!JoinerAsks, Pair!HostAsks, Pair!server, Pair!posts
  <2>5. ASSUME \/ Pair!OpenNewPairing \/ Pair!ShowCode \/ Pair!RevokeCode \/ Pair!ChangeAddress
               \/ Pair!CloseHost
               \/ Pair!UiTakes \/ (\E p \in Pair!Pairs : Pair!Regenerate(p))
                    \/ (\E s \in saving : Pair!Recorded(s))
               \/ UNCHANGED Pair!vars
        PROVE  session' \in {0, session} /\ UNCHANGED <<req, answered>>
    <3>1. session' \in {0, session} /\ UNCHANGED <<req, answered>>
      BY <2>5 DEF Pair!OpenNewPairing, Pair!ShowCode, Pair!RevokeCode, Pair!ChangeAddress,
         Pair!CloseHost, Pair!UiTakes, Pair!Regenerate, Pair!Recorded, Pair!StartHost,
         Pair!CallStart, Pair!Stopped, Pair!server, Pair!posts, Pair!vars
    <3> QED BY <3>1
  <2> DEFINE Goal == Session /\ Posts
  <2>6. ASSUME NEW c \in Pair!Codes,
               Pair!Closed(c) \/ Pair!Listening(c) \/ Pair!CannotListen(c) \/ Pair!Expires(c)
               \/ Pair!OnExpire(c)
        PROVE  Goal
    BY <2>1, <2>2, <2>6
  <2>7. ASSUME NEW j \in Joiners,
               \/ Pair!Received(j) \/ Pair!Handled(j) \/ Pair!Joined(j) \/ Pair!ReplyLost(j)
               \/ \E c \in Pair!Codes : Pair!Join(j, c)
               \/ \E p \in Pair!Pairs : Pair!JoinerAsks(j, p) \/ Pair!HostAsks(j, p)
        PROVE  Goal
    BY <2>3, <2>4, <2>7
  <2>8. ASSUME \/ Pair!OpenNewPairing \/ Pair!ShowCode \/ Pair!RevokeCode \/ Pair!ChangeAddress
               \/ Pair!CloseHost
               \/ Pair!UiTakes \/ (\E p \in Pair!Pairs : Pair!Regenerate(p))
                    \/ (\E s \in saving : Pair!Recorded(s))
               \/ UNCHANGED Pair!vars
        PROVE  Goal
    BY <2>5, <2>8
  <2> HIDE DEF Goal
  <2>9. Goal
    BY <2>6, <2>7, <2>8 DEF Pair!Next
  <2> QED BY <2>9 DEF Goal
<1>4. session' # 0 => UpNext(session')
  <2>1. CASE session' \in {0, session}
    BY <1>1, <2>1
  <2>2. ASSUME NEW c \in Pair!Codes, Pair!Listening(c) PROVE session' = c /\ UpNext(c)
    <3>1. calls' = [calls EXCEPT ![c].at = "up"] /\ session' = c
      BY <2>2 DEF Pair!Listening
    <3>2. calls'[c].at = "up"
      BY <1>1, <3>1 DEF Called
    <3> QED BY <3>1, <3>2 DEF UpNext
  <2> QED BY <1>3, <2>1, <2>2
<1>5. /\ \A j \in Joiners : req'[j].at \in {"reading", "answered"} => UpNext(req'[j].sess)
      /\ \A k \in answered' : UpNext(k[1])
  <2>0. req \in [Joiners -> Posting]
    BY DEF PairTypes, PostTypes
  <2> DEFINE Goal ==
      /\ \A j \in Joiners : req'[j].at \in {"reading", "answered"} => UpNext(req'[j].sess)
      /\ \A k \in answered' : UpNext(k[1])
  <2>1. CASE UNCHANGED <<req, answered>>
    BY <1>2, <2>1
  <2>2. ASSUME NEW j \in Joiners, NEW r, req' = [req EXCEPT ![j] = r],
               r.at \in {"reading", "answered"} => UpNext(r.sess),
               \A k \in answered' : UpNext(k[1])
        PROVE  Goal
    BY <1>2, <2>0, <2>2
  <2> HIDE DEF Goal
  <2>3. ASSUME NEW j \in Joiners, Pair!Received(j) PROVE Goal
    <3>1. PICK r : /\ req' = [req EXCEPT ![j] = r] /\ answered' = answered
                   /\ r.at \in {"reading", "answered"} => session # 0 /\ r.sess = session
      <4>1. CASE req' = [req EXCEPT ![j].at = "refused"]
        <5>1. req' = [req EXCEPT ![j] = [req[j] EXCEPT !.at = "refused"]]
          BY <4>1
        <5>2. [req[j] EXCEPT !.at = "refused"].at = "refused"
          BY <2>0 DEF Posting
        <5> QED BY <2>3, <5>1, <5>2 DEF Pair!Received
      <4>2. CASE req' # [req EXCEPT ![j].at = "refused"]
        BY <2>3, <4>2 DEF Pair!Received
      <4> QED BY <4>1, <4>2
    <3>2. \A k \in answered' : UpNext(k[1])
      BY <1>2, <3>1
    <3>3. r.at \in {"reading", "answered"} => UpNext(r.sess)
      BY <1>1, <3>1
    <3> QED BY <2>2, <3>1, <3>2, <3>3
  <2>4. ASSUME NEW j \in Joiners, Pair!Handled(j) PROVE Goal
    <3>1. PICK at \in {"refused", "answered"} : req' = [req EXCEPT ![j].at = at]
      BY <2>4 DEF Pair!Handled
    <3> DEFINE r == [req[j] EXCEPT !.at = at]
    <3>2. req' = [req EXCEPT ![j] = r]
      BY <3>1
    <3>3. r.sess = req[j].sess /\ UpNext(req[j].sess)
      BY <1>2, <2>0, <2>4 DEF Pair!Handled, Posting
    <3>4. answered' \subseteq answered \cup {<<req[j].sess, j>>}
      BY <2>4 DEF Pair!Handled
    <3>5. \A k \in answered' : UpNext(k[1])
      BY <1>2, <3>3, <3>4
    <3> HIDE DEF r
    <3>6. UpNext(r.sess)
      BY <3>3
    <3> QED BY <2>2, <3>2, <3>5, <3>6
  <2>5. ASSUME NEW j \in Joiners,
               Pair!Joined(j) \/ Pair!ReplyLost(j) \/ \E c \in Pair!Codes : Pair!Join(j, c)
        PROVE  Goal
    <3>1. PICK r : req' = [req EXCEPT ![j] = r] /\ r.at \notin {"reading", "answered"}
      <4>1. ASSUME NEW c \in Pair!Codes, Pair!Join(j, c)
            PROVE  \E at \in {"early", "sent"} :
                     req' = [req EXCEPT ![j] = [at |-> at, code |-> c, sess |-> 0]]
        BY <4>1 DEF Pair!Join
      <4>2. Pair!Joined(j) \/ Pair!ReplyLost(j) => req' = [req EXCEPT ![j] = Pair!Idle]
            /\ Pair!Idle.at = "idle"
        BY DEF Pair!Joined, Pair!ReplyLost, Pair!Idle
      <4>3. CASE \E c \in Pair!Codes : Pair!Join(j, c)
        <5>1. PICK c \in Pair!Codes, at \in {"early", "sent"} :
                req' = [req EXCEPT ![j] = [at |-> at, code |-> c, sess |-> 0]]
          BY <4>1, <4>3
        <5> DEFINE x == [at |-> at, code |-> c, sess |-> 0]
        <5>2. x.at = at
          OBVIOUS
        <5>3. req' = [req EXCEPT ![j] = x]
          BY <5>1
        <5> HIDE DEF x
        <5> QED BY <5>2, <5>3
      <4>4. CASE Pair!Joined(j) \/ Pair!ReplyLost(j)
        BY <4>2, <4>4
      <4> QED BY <2>5, <4>3, <4>4
    <3>2. \A k \in answered' : UpNext(k[1])
      BY <1>2, <2>5 DEF Pair!Joined, Pair!ReplyLost, Pair!Join
    <3> QED BY <2>2, <3>1, <3>2
  <2>6. Goal
    <3>1. CASE UNCHANGED <<req, answered>>
      BY <2>1, <3>1 DEF Goal
    <3> QED BY <1>3, <2>3, <2>4, <2>5, <3>1
  <2> QED BY <2>6 DEF Goal
<1> QED BY <1>4, <1>5 DEF Served, Up, UpNext

\* A key is kept for the pairing its code was drawn for.
LEMMA StepKeyOf ==
  ASSUME Pair!PairingAssumption, PairTypes, KeepInv, [Pair!Next]_Pair!vars, NEW p \in Pair!Pairs
  PROVE  KeyOf(p)'
<1>1. /\ \A c \in Pair!Codes : Up(c) => Pair!PairOf(c)' = Pair!PairOf(c)
      /\ answered \subseteq answered'
  BY StaysUp
<1>2. /\ hostKey \in [Pair!Pairs -> Pair!Keys \cup {Pair!NoKey}] /\ Pair!NoKey \notin Pair!Keys
      /\ KeyOf(p) /\ answered \subseteq Pair!Keys /\ \A k \in answered : Up(k[1])
  BY PairingBasics DEF PairTypes, PairStoreTypes, PostTypes, KeepInv, Served
<1>3. CASE hostKey' = hostKey
  <2>1. hostKey[p] # Pair!NoKey => hostKey[p][1] \in Pair!Codes /\ Up(hostKey[p][1])
    BY <1>2 DEF KeyOf, Pair!Keys
  <2>2. hostKey[p] # Pair!NoKey => Pair!PairOf(hostKey[p][1])' = Pair!PairOf(hostKey[p][1])
    BY <1>1, <1>3, <2>1 DEF Pair!PairOf
  <2> QED BY <1>1, <1>2, <1>3, <2>2 DEF KeyOf, Pair!PairOf
<1>4. CASE Pair!UiTakes
  <2> DEFINE e == Head(toUi)
  <2>1. PICK q : /\ UNCHANGED calls
                 /\ hostKey' = hostKey \/ (/\ q = Pair!PairOf(e.code) /\ e.type = "connected"
                                           /\ hostKey' = [hostKey EXCEPT ![q] = e.key])
    BY <1>4 DEF Pair!UiTakes, Pair!Connected, Pair!server
  <2>2. e.type = "connected" => e.key \in answered /\ e.key[1] = e.code
    <3>1. toUi \in Seq(Pair!Events) /\ toUi # <<>> /\ Vouched
      BY <1>4 DEF Pair!UiTakes, PairTypes, PanelTypes, KeepInv
    <3>2. 1 \in 1..Len(toUi) /\ e = toUi[1]
      BY <3>1
    <3> QED BY <3>1, <3>2 DEF Vouched
  <2> HIDE DEF e
  <2>3. CASE hostKey'[p] = hostKey[p]
    BY <1>1, <1>2, <2>1, <2>3 DEF KeyOf, Pair!PairOf
  <2>4. CASE hostKey'[p] # hostKey[p]
    <3>1. p = Pair!PairOf(e.code) /\ hostKey'[p] = e.key /\ e.key \in answered /\ e.key[1] = e.code
      BY <1>2, <2>1, <2>2, <2>4
    <3> QED BY <1>1, <2>1, <3>1 DEF KeyOf, Pair!PairOf
  <2> QED BY <2>3, <2>4
<1>5. hostKey' = hostKey \/ Pair!UiTakes
  <2>1. ASSUME NEW c \in Pair!Codes,
               Pair!Closed(c) \/ Pair!Listening(c) \/ Pair!CannotListen(c) \/ Pair!Expires(c)
               \/ Pair!OnExpire(c)
        PROVE  hostKey' = hostKey
    BY <2>1 DEF Pair!Closed, Pair!Listening, Pair!CannotListen, Pair!Expires, Pair!OnExpire,
       Pair!stores
  <2>2. ASSUME NEW j \in Joiners,
               Pair!Received(j) \/ Pair!Handled(j) \/ Pair!Joined(j) \/ Pair!ReplyLost(j)
                                  \/ \E c \in Pair!Codes : Pair!Join(j, c)
        PROVE  hostKey' = hostKey
    BY <2>2 DEF Pair!Received, Pair!Handled, Pair!Joined, Pair!ReplyLost, Pair!Join, Pair!stores
  <2>3. ASSUME NEW j \in Joiners, NEW q \in Pair!Pairs,
               Pair!JoinerAsks(j, q) \/ Pair!HostAsks(j, q)
        PROVE  hostKey' = hostKey
    BY <2>3 DEF Pair!JoinerAsks, Pair!HostAsks
  <2>4. ASSUME \/ Pair!OpenNewPairing \/ Pair!ShowCode \/ Pair!RevokeCode \/ Pair!ChangeAddress
               \/ Pair!CloseHost
               \/ (\E q \in Pair!Pairs : Pair!Regenerate(q))
                    \/ (\E s \in saving : Pair!Recorded(s))
               \/ UNCHANGED Pair!vars
        PROVE  hostKey' = hostKey
    <3>1. hostKey' = hostKey
      BY <2>4 DEF Pair!OpenNewPairing, Pair!ShowCode, Pair!RevokeCode, Pair!ChangeAddress,
         Pair!CloseHost, Pair!Regenerate, Pair!Recorded, Pair!vars, Pair!stores
    <3> QED BY <3>1
  <2> DEFINE Goal == hostKey' = hostKey \/ Pair!UiTakes
  <2>5. ASSUME NEW j \in Joiners,
               \/ Pair!Received(j) \/ Pair!Handled(j) \/ Pair!Joined(j) \/ Pair!ReplyLost(j)
               \/ \E c \in Pair!Codes : Pair!Join(j, c)
               \/ \E q \in Pair!Pairs : Pair!JoinerAsks(j, q) \/ Pair!HostAsks(j, q)
        PROVE  Goal
    BY <2>2, <2>3, <2>5
  <2>6. Pair!UiTakes => Goal
    OBVIOUS
  <2>7. (hostKey' = hostKey) => Goal
    OBVIOUS
  <2> HIDE DEF Goal
  <2>8. Goal
    BY <2>1, <2>4, <2>5, <2>6, <2>7 DEF Pair!Next
  <2> QED BY <2>8 DEF Goal
<1> QED BY <1>3, <1>4, <1>5

\* And so on the side of a joiner.
LEMMA StepJoinKeyOf ==
  ASSUME Pair!PairingAssumption, PairTypes, KeepInv, [Pair!Next]_Pair!vars, NEW j \in Joiners,
         NEW p \in Pair!Pairs
  PROVE  JoinKeyOf(j, p)'
<1>1. \A c \in Pair!Codes : Up(c) => UpNext(c) /\ Pair!PairOf(c)' = Pair!PairOf(c)
  BY StaysUp DEF Up, UpNext
<1>2. /\ joinKey \in [Joiners -> [Pair!Pairs -> Pair!Keys \cup {Pair!NoKey}]]
      /\ Pair!NoKey \notin Pair!Keys
      /\ JoinKeyOf(j, p)
  BY PairingBasics DEF PairTypes, PairStoreTypes, KeepInv
<1>3. CASE joinKey'[j][p] = joinKey[j][p]
  <2>1. joinKey[j][p] # Pair!NoKey => joinKey[j][p][1] \in Pair!Codes /\ Up(joinKey[j][p][1])
    BY <1>2 DEF JoinKeyOf, Pair!Keys
  <2> QED BY <1>1, <1>2, <1>3, <2>1 DEF JoinKeyOf, Pair!PairOf, Up, UpNext
<1>4. ASSUME NEW k \in Joiners, Pair!Joined(k) PROVE JoinKeyOf(j, p)'
  <2>0. req[k].sess \in Pair!Codes /\ Up(req[k].sess)
    BY <1>4 DEF Pair!Joined, PairTypes, PostTypes, KeepInv, Served
  <2>1. PICK c \in Pair!Codes : c = req[k].sess
    BY <2>0
  <2>2. PICK q : q = Pair!PairOf(c)
    OBVIOUS
  <2>3. joinKey' = [joinKey EXCEPT ![k][q] = <<c, k>>] /\ Up(c)
    BY <1>4, <2>0, <2>1, <2>2 DEF Pair!Joined
  <2>4. CASE k = j /\ q = p
    <3>1. joinKey'[j][p] = <<c, k>>
      BY <1>2, <2>3, <2>4
    <3>2. UpNext(c) /\ Pair!PairOf(c)' = p
      BY <1>1, <2>2, <2>3, <2>4
    <3> QED BY <3>1, <3>2 DEF JoinKeyOf, Pair!PairOf, Up, UpNext
  <2>5. CASE ~(k = j /\ q = p)
    <3>1. joinKey'[j][p] = joinKey[j][p]
      BY <1>2, <2>3, <2>5
    <3> QED BY <1>3, <3>1
  <2> QED BY <2>4, <2>5
<1>5. joinKey' = joinKey \/ \E k \in Joiners : Pair!Joined(k)
  <2>1. ASSUME NEW c \in Pair!Codes,
               Pair!Closed(c) \/ Pair!Listening(c) \/ Pair!CannotListen(c) \/ Pair!Expires(c)
               \/ Pair!OnExpire(c)
        PROVE  joinKey' = joinKey
    BY <2>1 DEF Pair!Closed, Pair!Listening, Pair!CannotListen, Pair!Expires, Pair!OnExpire,
       Pair!stores
  <2>2. ASSUME NEW k \in Joiners, Pair!Received(k) \/ Pair!Handled(k) \/ Pair!ReplyLost(k)
                                  \/ \E c \in Pair!Codes : Pair!Join(k, c)
        PROVE  joinKey' = joinKey
    BY <2>2 DEF Pair!Received, Pair!Handled, Pair!ReplyLost, Pair!Join, Pair!stores
  <2>3. ASSUME NEW k \in Joiners, NEW q \in Pair!Pairs,
               Pair!JoinerAsks(k, q) \/ Pair!HostAsks(k, q)
        PROVE  joinKey' = joinKey
    BY <2>3 DEF Pair!JoinerAsks, Pair!HostAsks
  <2>4. ASSUME \/ Pair!OpenNewPairing \/ Pair!ShowCode \/ Pair!RevokeCode \/ Pair!ChangeAddress
               \/ Pair!CloseHost
               \/ Pair!UiTakes \/ (\E q \in Pair!Pairs : Pair!Regenerate(q))
                    \/ (\E s \in saving : Pair!Recorded(s))
               \/ UNCHANGED Pair!vars
        PROVE  joinKey' = joinKey
    <3>1. joinKey' = joinKey
      BY <2>4 DEF Pair!OpenNewPairing, Pair!ShowCode, Pair!RevokeCode, Pair!ChangeAddress,
         Pair!CloseHost, Pair!UiTakes, Pair!Regenerate, Pair!Recorded, Pair!vars, Pair!stores
    <3> QED BY <3>1
  <2> DEFINE Goal == joinKey' = joinKey \/ \E k \in Joiners : Pair!Joined(k)
  <2>5. ASSUME NEW k \in Joiners,
               \/ Pair!Received(k) \/ Pair!Handled(k) \/ Pair!Joined(k) \/ Pair!ReplyLost(k)
               \/ \E c \in Pair!Codes : Pair!Join(k, c)
               \/ \E q \in Pair!Pairs : Pair!JoinerAsks(k, q) \/ Pair!HostAsks(k, q)
        PROVE  Goal
    BY <2>2, <2>3, <2>5
  <2>6. (joinKey' = joinKey) => Goal
    OBVIOUS
  <2> HIDE DEF Goal
  <2>7. Goal
    BY <2>1, <2>4, <2>5, <2>6 DEF Pair!Next
  <2> QED BY <2>7 DEF Goal
<1> QED BY <1>3, <1>4, <1>5

LEMMA StepKeep ==
  ASSUME Pair!PairingAssumption, PairTypes, KeepInv, [Pair!Next]_Pair!vars PROVE KeepInv'
<1>1. \A p \in Pair!Pairs : KeyOf(p)'
  BY StepKeyOf
<1>2. \A j \in Joiners, p \in Pair!Pairs : JoinKeyOf(j, p)'
  BY StepJoinKeyOf
<1> QED BY <1>1, <1>2, StepServed, StepVouched DEF KeepInv

-----------------------------------------------------------------------------
(* The invariant behind DrawnIsLive: a patient user starts one call at a time, and hears *)
(* of its end before anything else. *)

Starting(c) == calls[c].at \in {"closing", "building"}
NoneStarting == \A c \in Pair!Codes : ~Starting(c)

\* What start() says at its end.
Lists(c)   == [type |-> "listening", code |-> c, key |-> Pair!NoKey]
Replies(c) == [type |-> "reply", code |-> c, key |-> Pair!NoKey]
Fails(c)   == [type |-> "failed", code |-> c, key |-> Pair!NoKey]
Closing == {"expired", "connected"}

\* A call is under way, and nothing else is: no session, no handler, no code on the panel.
Calling == /\ \E c \in Pair!Codes : Starting(c)
           /\ session = 0 /\ toUi = <<>> /\ ui.payload = 0
           /\ \A j \in Joiners : req[j].at # "reading"

\* The panel has heard everything, or is about to hear of the session, of the end of one,
\* or that there is none.
CaughtUp  == toUi = <<>> /\ (Pair!Drawn => session = ui.payload)
Showing == session # 0 /\ toUi \in {<<Lists(session), Replies(session)>>, <<Replies(session)>>}
Ending  == toUi # <<>> /\ toUi[Len(toUi)].type \in Closing
Missed  == ui.payload = 0 /\ \E c \in Pair!Codes : toUi = <<Fails(c)>>

LiveInv ==
  /\ session # 0 => session \in open
  /\ \A c, d \in Pair!Codes : Starting(c) /\ Starting(d) => c = d
  /\ Calling \/ (NoneStarting /\ (CaughtUp \/ Showing \/ Ending \/ Missed))

LEMMA DrawnByInv == ASSUME PairTypes, LiveInv PROVE Pair!DrawnIsLive
<1> SUFFICES ASSUME Pair!Drawn, toUi = <<>> PROVE session = ui.payload /\ ui.payload \in open
  BY DEF Pair!DrawnIsLive
<1>1. ui.payload # 0
  BY DEF Pair!Drawn
<1>2. ~Calling /\ ~Ending /\ ~Missed /\ ~Showing
  BY <1>1 DEF Calling, Ending, Missed, Showing
<1> QED BY <1>1, <1>2 DEF LiveInv, CaughtUp

LEMMA InitLive == ASSUME Pair!PairingAssumption, Pair!Init PROVE LiveInv
BY DEF Pair!Init, LiveInv, NoneStarting, Starting, CaughtUp, Pair!Drawn, Pair!Shut

\* Nothing that the panel draws changes, and no handler begins where there is no session.
StaysPut ==
  /\ UNCHANGED <<session, open, calls, toUi>>
  /\ ui' = ui \/ ui' = [ui EXCEPT !.pair = 0]
  /\ over \subseteq over'
  /\ session = 0 => \A j \in Joiners : req'[j].at = "reading" => req[j].at = "reading"

\* A session ends, and the panel is told.
Ends ==
  /\ session # 0 \/ \E j \in Joiners : req[j].at = "reading"
  /\ session' = 0 /\ UNCHANGED calls
  /\ \E e \in Pair!Events : toUi' = Append(toUi, e) /\ e.type \in Closing

LEMMA StartingSame ==
  ASSUME UNCHANGED calls
  PROVE  (\A c : Starting(c)' <=> Starting(c)) /\ (NoneStarting' <=> NoneStarting)
BY DEF Starting, NoneStarting

LEMMA StaysPutLive == ASSUME Pair!PairingAssumption, PairTypes, LiveInv, StaysPut PROVE LiveInv'
<1>1. \A c \in Pair!Codes : Starting(c)' <=> Starting(c)
  BY DEF StaysPut, Starting
<1>2. (NoneStarting' <=> NoneStarting)
      /\ ((\E c \in Pair!Codes : Starting(c)') <=> \E c \in Pair!Codes : Starting(c))
  BY <1>1 DEF NoneStarting
<1>3. ui'.payload = ui.payload /\ (Pair!Drawn' => Pair!Drawn)
  <2>1. ui \in PanelState /\ over \subseteq over'
    BY DEF PairTypes, PanelTypes, StaysPut
  <2>2. CASE ui' = ui
    BY <2>1, <2>2 DEF Pair!Drawn, Pair!Over
  <2>3. CASE ui' = [ui EXCEPT !.pair = 0]
    BY <2>1, <2>3 DEF Pair!Drawn, PanelState
  <2> QED BY <2>2, <2>3 DEF StaysPut
<1>4. session' = session /\ open' = open /\ toUi' = toUi
  BY DEF StaysPut
<1>5. Calling => Calling'
  BY <1>2, <1>3, <1>4 DEF Calling, StaysPut
<1>6. CaughtUp \/ Showing \/ Ending \/ Missed => (CaughtUp \/ Showing \/ Ending \/ Missed)'
  BY <1>3, <1>4 DEF CaughtUp, Showing, Ending, Missed
<1> QED BY <1>1, <1>2, <1>4, <1>5, <1>6 DEF LiveInv

LEMMA EndsLive == ASSUME Pair!PairingAssumption, PairTypes, LiveInv, Ends PROVE LiveInv'
<1>1. ~Calling
  BY DEF Calling, Ends
<1>2. NoneStarting /\ calls' = calls /\ session' = 0
  BY <1>1 DEF LiveInv, Ends
<1>3. NoneStarting' /\ \A c, d \in Pair!Codes : (Starting(c) /\ Starting(d) => c = d)'
  BY <1>2 DEF NoneStarting, Starting
<1>4. Ending'
  <2>1. toUi \in Seq(Pair!Events)
    BY DEF PairTypes, PanelTypes
  <2>2. PICK e \in Pair!Events : toUi' = Append(toUi, e) /\ e.type \in Closing
    BY DEF Ends
  <2>3. Len(toUi') = Len(toUi) + 1 /\ toUi'[Len(toUi')] = e /\ toUi' # <<>>
    BY <2>1, <2>2
  <2> QED BY <2>2, <2>3 DEF Ending, Closing
<1> QED BY <1>2, <1>3, <1>4 DEF LiveInv

\* A press of a patient user.
LEMMA PressedOnRest ==
  ASSUME Patient, Pair!MayPress
  PROVE  toUi = <<>> /\ NoneStarting /\ \A j \in Joiners : req[j].at # "reading"
BY DEF Pair!MayPress, Pair!Settled, NoneStarting, Starting

LEMMA CallLive ==
  ASSUME Pair!PairingAssumption, PairTypes, LiveInv, Patient, Pair!MayPress,
         NEW with \in PanelState, Pair!StartHost(with), UNCHANGED <<req, toUi>>
  PROVE  LiveInv'
<1>1. PICK c \in Pair!Codes : /\ calls[c].at = "none"
                              /\ calls' = [calls EXCEPT ![c] =
                                    [at |-> "closing", waits |-> session, pair |-> with.pair]]
                              /\ session' = 0
  BY DEF Pair!StartHost, Pair!CallStart, Pair!Stopped
<1>2. calls \in [Pair!Codes -> Called]
  BY DEF PairTypes, ServerTypes
<1>3. toUi = <<>> /\ NoneStarting /\ \A j \in Joiners : req[j].at # "reading"
  BY PressedOnRest
<1>4. \A d \in Pair!Codes : Starting(d)' <=> d = c
  BY <1>1, <1>2, <1>3 DEF Starting, NoneStarting
<1>5. ui'.payload = 0
  BY DEF Pair!StartHost, PanelState
<1>6. Calling'
  BY <1>1, <1>3, <1>4, <1>5 DEF Calling
<1> QED BY <1>1, <1>4, <1>6 DEF LiveInv

LEMMA PressLive ==
  ASSUME Pair!PairingAssumption, PairTypes, LiveInv, Patient,
         \/ Pair!OpenNewPairing \/ Pair!ShowCode \/ Pair!RevokeCode \/ Pair!ChangeAddress
         \/ Pair!CloseHost
         \/ \E p \in Pair!Pairs : Pair!Regenerate(p)
  PROVE  LiveInv'
<1>0. ui \in PanelState /\ hostRow \in [Pair!Pairs -> Pair!Rows]
  BY DEF PairTypes, PanelTypes, PairStoreTypes
<1>1. CASE Pair!ShowCode
  <2>1. Pair!MayPress /\ Pair!StartHost(ui) /\ UNCHANGED <<req, toUi>>
    BY <1>1 DEF Pair!ShowCode, Pair!posts
  <2> QED BY <1>0, <2>1, CallLive
<1>2. ASSUME NEW p \in Pair!Pairs, Pair!Regenerate(p) PROVE LiveInv'
  <2> DEFINE with == [Pair!Shut EXCEPT !.pair = p, !.kind = "regenerate", !.row = hostRow[p]]
  <2>1. p \in 0..MaxPairs /\ hostRow[p] \in Pair!Rows
    BY <1>0, PairingBasics DEF Pair!Pairs
  <2>2. with \in PanelState
    BY <2>1, PairingBasics DEF PanelState
  <2>3. Pair!MayPress /\ Pair!StartHost(with) /\ UNCHANGED <<req, toUi>>
    BY <1>2 DEF Pair!Regenerate, Pair!posts
  <2> HIDE DEF with
  <2> QED BY <2>2, <2>3, CallLive
<1>3. CASE Pair!OpenNewPairing \/ Pair!RevokeCode \/ Pair!ChangeAddress \/ Pair!CloseHost
  <2>1. toUi = <<>> /\ NoneStarting
    BY <1>3, PressedOnRest DEF Pair!OpenNewPairing, Pair!RevokeCode, Pair!ChangeAddress,
       Pair!CloseHost
  <2>2. calls' = calls /\ toUi' = <<>>
    BY <1>3, <2>1 DEF Pair!OpenNewPairing, Pair!RevokeCode, Pair!ChangeAddress, Pair!CloseHost,
       Pair!server
  <2>3. session' = 0 \/ (session' = session /\ open' = open)
    BY <1>3 DEF Pair!OpenNewPairing, Pair!RevokeCode, Pair!ChangeAddress, Pair!CloseHost,
       Pair!Stopped, Pair!server
  <2>4. ~Pair!Drawn'
    <3>1. ui'.pair = 0 \/ ~ui'.started \/ ui'.payload = 0
      <4>1. CASE Pair!OpenNewPairing
        BY <4>1 DEF Pair!OpenNewPairing, Pair!Shut
      <4>2. CASE Pair!RevokeCode \/ Pair!ChangeAddress \/ Pair!CloseHost
        BY <1>0, <4>2 DEF Pair!RevokeCode, Pair!ChangeAddress, Pair!CloseHost, PanelState
      <4> QED BY <1>3, <4>1, <4>2
    <3> QED BY <3>1 DEF Pair!Drawn
  <2>5. CaughtUp' /\ NoneStarting'
        /\ \A c, d \in Pair!Codes : (Starting(c) /\ Starting(d) => c = d)'
    BY <2>1, <2>2, <2>4 DEF CaughtUp, NoneStarting, Starting
  <2> QED BY <2>3, <2>5 DEF LiveInv
<1> QED BY <1>1, <1>2, <1>3

\* A call goes on, and ends.
LEMMA CallGoesLive ==
  ASSUME Pair!PairingAssumption, PairTypes, LiveInv, NEW c \in Pair!Codes,
         Pair!Closed(c) \/ Pair!Listening(c) \/ Pair!CannotListen(c)
  PROVE  LiveInv'
<1>1. Starting(c) /\ calls \in [Pair!Codes -> Called] /\ c # 0
  BY CodeIs DEF Pair!Closed, Pair!Listening, Pair!CannotListen, Starting, PairTypes, ServerTypes
<1>2. /\ session = 0 /\ toUi = <<>> /\ ui.payload = 0
      /\ \A j \in Joiners : req[j].at # "reading"
  BY <1>1 DEF LiveInv, NoneStarting, Calling
<1>3. \A d \in Pair!Codes : Starting(d) => d = c
  BY <1>1 DEF LiveInv
<1>4. CASE Pair!Closed(c)
  <2>1. calls' = [calls EXCEPT ![c].at = "building"] /\ UNCHANGED <<session, open, toUi, ui, req>>
    BY <1>4 DEF Pair!Closed, Pair!panel, Pair!posts
  <2>2. calls'[c].at = "building" /\ \A d \in Pair!Codes \ {c} : calls'[d] = calls[d]
    BY <1>1, <2>1 DEF Called
  <2>3. \A d \in Pair!Codes : Starting(d)' <=> d = c
    BY <1>3, <2>2 DEF Starting
  <2>4. Calling'
    BY <1>2, <2>1, <2>3 DEF Calling
  <2> QED BY <1>2, <2>1, <2>3, <2>4 DEF LiveInv
<1>5. ASSUME NEW at \in {"up", "failed"}, calls' = [calls EXCEPT ![c].at = at]
      PROVE  NoneStarting'
  <2>1. calls'[c].at = at /\ \A d \in Pair!Codes \ {c} : calls'[d] = calls[d]
    BY <1>1, <1>5 DEF Called
  <2> QED BY <1>3, <2>1 DEF NoneStarting, Starting
<1>6. CASE Pair!Listening(c)
  <2>1. /\ calls' = [calls EXCEPT ![c].at = "up"] /\ session' = c /\ c \in open'
        /\ toUi' = toUi \o <<Lists(c), Replies(c)>>
    BY <1>6 DEF Pair!Listening, Lists, Replies
  <2>2. toUi' = <<Lists(c), Replies(c)>>
    BY <1>2, <2>1
  <2>3. Showing'
    BY <1>1, <2>1, <2>2 DEF Showing, Lists, Replies
  <2>4. NoneStarting'
    BY <1>5, <2>1
  <2> QED BY <2>1, <2>3, <2>4 DEF LiveInv, NoneStarting
<1>7. CASE Pair!CannotListen(c)
  <2>1. /\ calls' = [calls EXCEPT ![c].at = "failed"] /\ UNCHANGED <<session, open, ui>>
        /\ toUi' = Append(toUi, Fails(c))
    BY <1>7 DEF Pair!CannotListen, Fails, Pair!panel
  <2>2. toUi' = <<Fails(c)>>
    BY <1>2, <2>1
  <2>3. Missed'
    BY <1>2, <2>1, <2>2 DEF Missed, Fails
  <2>4. NoneStarting'
    BY <1>5, <2>1
  <2> QED BY <1>2, <2>1, <2>3, <2>4 DEF LiveInv, NoneStarting
<1> QED BY <1>4, <1>6, <1>7

\* The panel takes what it was sent.
LEMMA UiTakesLive == ASSUME Pair!PairingAssumption, PairTypes, LiveInv, Pair!UiTakes PROVE LiveInv'
<1>1. toUi # <<>> /\ toUi' = Tail(toUi) /\ UNCHANGED <<session, open, calls>>
      /\ ui \in PanelState /\ toUi \in Seq(Pair!Events)
  BY DEF Pair!UiTakes, Pair!server, PairTypes, PanelTypes
<1>2. NoneStarting /\ (Showing \/ Ending \/ Missed)
  BY <1>1 DEF LiveInv, Calling, CaughtUp
<1>3. NoneStarting' /\ \A c, d \in Pair!Codes : (Starting(c) /\ Starting(d) => c = d)'
  BY <1>1, <1>2 DEF NoneStarting, Starting
<1>4. (CaughtUp \/ Showing \/ Ending)'
  <2>1. CASE toUi = <<Lists(session), Replies(session)>> /\ session # 0
    <3>1. toUi' = <<Replies(session)>>
      BY <1>1, <2>1
    <3> QED BY <1>1, <2>1, <3>1 DEF Showing, Replies
  <2>2. CASE toUi = <<Replies(session)>> /\ session # 0
    <3>1. Head(toUi) = Replies(session) /\ toUi' = <<>>
      BY <1>1, <2>2
    <3>2. Head(toUi).type = "reply" /\ Head(toUi).code = session
      BY <3>1 DEF Replies
    <3>3. ui' = [ui EXCEPT !.payload = Head(toUi).code]
      BY <3>2 DEF Pair!UiTakes
    <3>4. ui'.payload = session
      BY <1>1, <3>2, <3>3 DEF PanelState
    <3> QED BY <1>1, <3>1, <3>4 DEF CaughtUp
  <2>3. CASE Missed
    <3>1. PICK c \in Pair!Codes : toUi = <<Fails(c)>>
      BY <2>3 DEF Missed
    <3>2. Head(toUi) = Fails(c) /\ toUi' = <<>>
      BY <1>1, <3>1
    <3>3. Head(toUi).type = "failed"
      BY <3>2 DEF Fails
    <3>4. ui' = [ui EXCEPT !.status = "error"]
      BY <3>3 DEF Pair!UiTakes
    <3>5. ui'.payload = 0
      BY <1>1, <2>3, <3>4 DEF PanelState, Missed
    <3> QED BY <3>2, <3>5 DEF CaughtUp, Pair!Drawn
  <2>4. CASE Ending /\ Len(toUi) = 1
    <3>1. Head(toUi) = toUi[1] /\ toUi' = <<>> /\ Head(toUi).type \in Closing
      BY <1>1, <2>4 DEF Ending
    <3>2. (ui.pair = 0 /\ ui' = ui) \/ \E s \in Closing : ui' = [ui EXCEPT !.status = s]
      BY <3>1 DEF Pair!UiTakes, Closing
    <3>3. ui'.pair = 0 \/ ui'.status \in Closing
      BY <1>1, <3>2 DEF PanelState, Closing
    <3>4. ~Pair!Drawn'
      BY <3>3 DEF Pair!Drawn, Pair!Over, Closing
    <3> QED BY <3>1, <3>4 DEF CaughtUp
  <2>5. CASE Ending /\ Len(toUi) # 1
    <3>0. toUi \in Seq(Pair!Events) /\ toUi # <<>> /\ toUi' = Tail(toUi) /\ Len(toUi) # 1
      BY <1>1, <2>5
    <3>1. /\ Len(toUi) \in Nat /\ Len(toUi) > 1 /\ Len(Tail(toUi)) = Len(toUi) - 1
          /\ Tail(toUi)[Len(toUi) - 1] = toUi[Len(toUi)]
      <4>1. Len(toUi) \in Nat /\ Len(toUi) # 0
        BY <3>0
      <4>2. Len(toUi) > 1
        <5> DEFINE n == Len(toUi)
        <5>1. n \in Nat /\ n # 0 /\ n # 1
          BY <3>0, <4>1
        <5> HIDE DEF n
        <5>2. n > 1
          BY <5>1
        <5> QED BY <5>2 DEF n
      <4>3. Len(Tail(toUi)) = Len(toUi) - 1
        BY <3>0
      <4>4. Len(toUi) - 1 \in 1..Len(Tail(toUi))
        BY <4>1, <4>2, <4>3
      <4>5. \A n \in 1..Len(Tail(toUi)) : Tail(toUi)[n] = toUi[n + 1]
        BY <3>0
      <4>6. Tail(toUi)[Len(toUi) - 1] = toUi[(Len(toUi) - 1) + 1]
        BY <4>4, <4>5
      <4>7. (Len(toUi) - 1) + 1 = Len(toUi)
        BY <4>1
      <4> QED BY <4>1, <4>2, <4>3, <4>6, <4>7
    <3>2. toUi' # <<>> /\ toUi'[Len(toUi')] = toUi[Len(toUi)]
      <4> DEFINE t == Tail(toUi)
                 n == Len(toUi)
                 x == toUi[n]
      <4>1. toUi' = t /\ n \in Nat /\ n > 1 /\ Len(t) = n - 1 /\ t[n - 1] = x
        BY <3>0, <3>1
      <4>2. t # <<>>
        <5> HIDE DEF t, n
        <5>1. t = <<>> => Len(t) = 0
          OBVIOUS
        <5> QED BY <4>1, <5>1
      <4> HIDE DEF t, n, x
      <4>3. toUi' # <<>> /\ toUi'[Len(toUi')] = x
        BY <4>1, <4>2
      <4> QED BY <4>3 DEF x, n
    <3> QED BY <2>5, <3>2 DEF Ending
  <2> QED BY <1>2, <2>1, <2>2, <2>3, <2>4, <2>5 DEF Showing
<1> QED BY <1>1, <1>3, <1>4 DEF LiveInv

LEMMA ExpiredEnds ==
  ASSUME Pair!PairingAssumption, PairTypes, session # 0, session' = 0, UNCHANGED calls,
         toUi' = Append(toUi, Pair!Expired)
  PROVE  Ends
<1>1. Pair!Expired \in Pair!Events /\ Pair!Expired.type \in Closing
  BY SessionIs, Said DEF Pair!Expired, Closing
<1> QED BY <1>1 DEF Ends

\* What everybody else does.
LEMMA ElseIs ==
  ASSUME Pair!PairingAssumption, PairTypes
  PROVE  /\ \A c \in Pair!Codes : Pair!Expires(c) \/ Pair!OnExpire(c) => StaysPut \/ Ends
         /\ \A j \in Joiners :
              Pair!Received(j) \/ Pair!Handled(j) \/ Pair!Joined(j) \/ Pair!ReplyLost(j)
                => StaysPut \/ Ends
         /\ \A j \in Joiners, c \in Pair!Codes : Pair!Join(j, c) => StaysPut
         /\ \A j \in Joiners, p \in Pair!Pairs :
              Pair!JoinerAsks(j, p) \/ Pair!HostAsks(j, p) => StaysPut
         /\ \A s \in saving : Pair!Recorded(s) => StaysPut
         /\ UNCHANGED Pair!vars => StaysPut
<1>1. ASSUME NEW c \in Pair!Codes, Pair!Expires(c) PROVE StaysPut
  BY <1>1 DEF Pair!Expires, StaysPut, Pair!posts, Pair!panel
<1>2. ASSUME NEW c \in Pair!Codes, Pair!OnExpire(c) PROVE StaysPut \/ Ends
  <2>1. CASE session = 0
    BY <1>2, <2>1 DEF Pair!OnExpire, StaysPut, Pair!posts, Pair!panel
  <2>2. CASE session # 0
    BY <1>2, <2>2, ExpiredEnds DEF Pair!OnExpire
  <2> QED BY <2>1, <2>2
<1>3. ASSUME NEW j \in Joiners, Pair!Received(j) PROVE StaysPut \/ Ends
  <2>0. req \in [Joiners -> Posting] /\ UNCHANGED <<calls, over, ui>>
    BY <1>3 DEF Pair!Received, PairTypes, PostTypes, Pair!panel
  <2>1. CASE req[j].code \notin open \/ session = 0
    <3>1. req' = [req EXCEPT ![j].at = "refused"] /\ UNCHANGED <<session, open, toUi>>
      BY <1>3, <2>1 DEF Pair!Received
    <3>2. \A k \in Joiners : req'[k].at = "reading" => req[k].at = "reading"
      BY <2>0, <3>1 DEF Posting
    <3> QED BY <2>0, <3>1, <3>2 DEF StaysPut
  <2>2. CASE req[j].code \in open /\ session # 0 /\ session \in over
    BY <1>3, <2>2, ExpiredEnds DEF Pair!Received, Pair!Stopped
  <2>3. CASE req[j].code \in open /\ session # 0 /\ session \notin over
    BY <1>3, <2>0, <2>3 DEF Pair!Received, StaysPut
  <2> QED BY <2>1, <2>2, <2>3
<1>4. ASSUME NEW j \in Joiners, Pair!Handled(j) PROVE StaysPut \/ Ends
  <2> DEFINE s == req[j].sess
             e == [type |-> "connected", code |-> s, key |-> <<s, j>>]
  <2>0. /\ req \in [Joiners -> Posting] /\ UNCHANGED <<calls, over, ui>>
        /\ req[j].at = "reading" /\ s \in Pair!Codes
    BY <1>4 DEF Pair!Handled, PairTypes, PostTypes, Pair!panel
  <2>1. CASE req[j].code # s
    <3>1. req' = [req EXCEPT ![j].at = "refused"] /\ UNCHANGED <<session, open, toUi>>
      BY <1>4, <2>1 DEF Pair!Handled
    <3>2. \A k \in Joiners : req'[k].at = "reading" => req[k].at = "reading"
      BY <2>0, <3>1 DEF Posting
    <3> QED BY <2>0, <3>1, <3>2 DEF StaysPut
  <2>2. CASE req[j].code = s
    <3>1. session' = 0 /\ toUi' = Append(toUi, e)
      BY <1>4, <2>2 DEF Pair!Handled, Pair!Stopped
    <3>2. e \in Pair!Events /\ e.type \in Closing
      BY <2>0, Said DEF Pair!Keys, Closing
    <3> HIDE DEF e
    <3> QED BY <2>0, <3>1, <3>2 DEF Ends
  <2> QED BY <2>1, <2>2
<1>5. ASSUME NEW j \in Joiners,
             \E r : req' = [req EXCEPT ![j] = r] /\ r.at # "reading",
             UNCHANGED <<session, open, calls, toUi, ui, over>>
      PROVE  StaysPut
  <2>1. req \in [Joiners -> Posting]
    BY DEF PairTypes, PostTypes
  <2>2. \A k \in Joiners : req'[k].at = "reading" => req[k].at = "reading"
    BY <1>5, <2>1
  <2> QED BY <1>5, <2>2 DEF StaysPut
<1>6. ASSUME NEW j \in Joiners, Pair!Joined(j) \/ Pair!ReplyLost(j) PROVE StaysPut
  <2>1. req' = [req EXCEPT ![j] = Pair!Idle] /\ Pair!Idle.at # "reading"
    BY <1>6 DEF Pair!Joined, Pair!ReplyLost, Pair!Idle
  <2>2. UNCHANGED <<session, open, calls, toUi, ui, over>>
    BY <1>6 DEF Pair!Joined, Pair!ReplyLost, Pair!server, Pair!panel
  <2> HIDE DEF StaysPut
  <2> QED BY <1>5, <2>1, <2>2
<1>7. ASSUME NEW j \in Joiners, NEW c \in Pair!Codes, Pair!Join(j, c) PROVE StaysPut
  <2>1. PICK at \in {"early", "sent"} :
          req' = [req EXCEPT ![j] = [at |-> at, code |-> c, sess |-> 0]]
    BY <1>7 DEF Pair!Join
  <2> DEFINE r == [at |-> at, code |-> c, sess |-> 0]
  <2>2. r.at # "reading" /\ req' = [req EXCEPT ![j] = r]
    BY <2>1
  <2>3. UNCHANGED <<session, open, calls, toUi, ui, over>>
    BY <1>7 DEF Pair!Join, Pair!server, Pair!panel
  <2> HIDE DEF r, StaysPut
  <2> QED BY <1>5, <2>2, <2>3
<1>8. ASSUME NEW j \in Joiners, NEW p \in Pair!Pairs, Pair!JoinerAsks(j, p) \/ Pair!HostAsks(j, p)
      PROVE  StaysPut
  <2>1. UNCHANGED <<Pair!server, Pair!posts, toUi, Pair!panel>>
    BY <1>8 DEF Pair!JoinerAsks, Pair!HostAsks
  <2> QED BY <2>1 DEF StaysPut, Pair!server, Pair!posts, Pair!panel
<1>9. ASSUME NEW s \in saving, Pair!Recorded(s) PROVE StaysPut
  <2>1. UNCHANGED <<Pair!server, Pair!posts, toUi>> /\ (ui' = ui \/ ui' = [ui EXCEPT !.pair = 0])
    BY <1>9 DEF Pair!Recorded
  <2> QED BY <2>1 DEF StaysPut, Pair!server, Pair!posts
<1>10. UNCHANGED Pair!vars => StaysPut
  BY DEF Pair!vars, Pair!server, Pair!posts, Pair!panel, StaysPut
<1> QED BY <1>1, <1>2, <1>3, <1>4, <1>6, <1>7, <1>8, <1>9, <1>10

LEMMA StepLive ==
  ASSUME Pair!PairingAssumption, PairTypes, LiveInv, Patient, [Pair!Next]_Pair!vars PROVE LiveInv'
<1>1. StaysPut \/ Ends => LiveInv'
  BY StaysPutLive, EndsLive
<1> HIDE DEF LiveInv
<1>2. ASSUME NEW c \in Pair!Codes,
             Pair!Closed(c) \/ Pair!Listening(c) \/ Pair!CannotListen(c) \/ Pair!Expires(c)
             \/ Pair!OnExpire(c)
      PROVE  LiveInv'
  BY <1>1, <1>2, CallGoesLive, ElseIs
<1>3. ASSUME NEW j \in Joiners,
             \/ Pair!Received(j) \/ Pair!Handled(j) \/ Pair!Joined(j) \/ Pair!ReplyLost(j)
             \/ \E c \in Pair!Codes : Pair!Join(j, c)
             \/ \E p \in Pair!Pairs : Pair!JoinerAsks(j, p) \/ Pair!HostAsks(j, p)
      PROVE  LiveInv'
  BY <1>1, <1>3, ElseIs
<1>4. CASE Pair!UiTakes
  BY <1>4, UiTakesLive
<1>5. CASE (\E s \in saving : Pair!Recorded(s)) \/ UNCHANGED Pair!vars
  BY <1>1, <1>5, ElseIs
<1>6. CASE \/ Pair!OpenNewPairing \/ Pair!ShowCode \/ Pair!RevokeCode \/ Pair!ChangeAddress
           \/ Pair!CloseHost
           \/ \E p \in Pair!Pairs : Pair!Regenerate(p)
  BY <1>6, PressLive
<1> QED BY <1>2, <1>3, <1>4, <1>5, <1>6 DEF Pair!Next

-----------------------------------------------------------------------------

PairInv == PairTypes /\ KeepInv /\ (Patient => LiveInv)

LEMMA InitPair == ASSUME Pair!PairingAssumption, Pair!Init PROVE PairInv
BY InitPairTypes, InitKeep, InitLive DEF PairInv

LEMMA StepPair == ASSUME Pair!PairingAssumption, PairInv, [Pair!Next]_Pair!vars PROVE PairInv'
<1>1. Patient' <=> Patient
  OBVIOUS
<1> QED BY <1>1, StepPairTypes, StepKeep, StepLive DEF PairInv

LEMMA PairHolds ==
  ASSUME Pair!PairingAssumption, PairInv
  PROVE  Pair!TypeOK /\ Pair!KeptForItsOwn /\ (Patient => Pair!DrawnIsLive)
BY PairTypesOK, KeptByInv, DrawnByInv DEF PairInv

LEMMA PairFits == ASSUME Pair!PairingAssumption PROVE Pair!Spec => []PairInv
<1>1. Pair!Init => PairInv
  BY InitPair
<1>2. PairInv /\ [Pair!Next]_Pair!vars => PairInv'
  BY StepPair
<1> QED BY <1>1, <1>2, PTL DEF Pair!Spec

\* No sequence number, panel, request or event gets a value the code has no place for
\* (pairingServer.ts, DevicesCard.tsx; the rows of two paired devices in engine.ts).
THEOREM PairingTypesHold == ASSUME Pair!PairingAssumption PROVE Pair!Spec => []Pair!TypeOK
<1>1. PairInv => Pair!TypeOK
  BY PairHolds
<1> QED BY <1>1, PairFits, PTL

\* On either side the key kept for a pairing was derived over a code drawn for that pairing,
\* and on the host's a device was answered over it (pairingServer.ts, handle;
\* DevicesCard.tsx, connectedRef): a device that connects late, to a code of a panel since
\* closed, is never recorded as another device.
THEOREM KeysAreKeptForTheirOwn ==
  ASSUME Pair!PairingAssumption PROVE Pair!Spec => []Pair!KeptForItsOwn
<1>1. PairInv => Pair!KeptForItsOwn
  BY PairHolds
<1> QED BY <1>1, PairFits, PTL

\* Once the panel has taken what it was sent, the code it draws is the one start() has armed
\* ("no arrangement in which the listener is down and a scannable code is still drawn",
\* DevicesCard.tsx:91), when the user waits for one press to end before the next.
THEOREM DrawnCodeIsLive ==
  ASSUME Pair!PairingAssumption, Patient PROVE Pair!Spec => []Pair!DrawnIsLive
<1>1. PairInv => Pair!DrawnIsLive
  BY PairHolds
<1> QED BY <1>1, PairFits, PTL
=============================================================================
