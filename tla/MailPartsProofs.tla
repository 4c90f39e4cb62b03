--------------------------- MODULE MailPartsProofs ---------------------------
(***************************************************************************)
(* Proofs about Compose, Inbox, InboxIdle and Credentials, each for every  *)
(* value of its constants.                                                 *)
(*                                                                         *)
(* The compose screen, with any number of versions, presses, departures    *)
(* from the screen and quits, and any length of the history: a press of    *)
(* Send is handed over at most once and, until the program quits, never    *)
(* dropped; what a restored version replaces is kept; a send that failed   *)
(* for good is on the form again.  Four handlers let a countdown go, and a *)
(* fifth asks before one begins: the balance of a version says where each  *)
(* of its presses is.                                                      *)
(*                                                                         *)
(* The inbox, with any mail and syncs, whatever the user may do: what was  *)
(* removed is not listed and the switch for images stays; and, one sync at *)
(* a time, what was read stays read and what arrives is announced once.    *)
(*                                                                         *)
(* The push watchers, with any number of watchers, attempts and rungs: one *)
(* that was stopped starts nothing, and no watcher does two things at      *)
(* once.  That a stopped watcher waits for nothing is not enough: a        *)
(* connection is also started in place of one that is recycled, and whose  *)
(* that is depends on which sockets the clients of the other watchers are. *)
(*                                                                         *)
(* The grants, with any number of accounts, calls and refresh tokens: the  *)
(* file keeps no token that lapses, and nobody joins a refresh that has    *)
(* ended.  A token is replaced by the provider long before its successor   *)
(* is written: until then a call has it, no other call does, and each copy *)
(* of the file that a call has read is of tokens that were issued.         *)
(***************************************************************************)
EXTENDS Compose, Integers, SequenceTheorems, FiniteSetTheorems, TLAPS

CONSTANTS
  Mail, Slots, None, Ruled, Does, MaxActs, MaxFaults,    \* of the inbox
  Watchers, Sockets, Rungs, WatchActs, WatchFaults       \* of the watchers

VARIABLES
  srv, row, held, form, queue, pushes, syncs, busy, base, rang, choices, told,
  account, calls, pool, watcher, slot, quit,
  acts, faults

\* The inbox; `mine` is a variable of both components.
Box == INSTANCE Inbox WITH mine <- choices

\* The watchers, with sockets and bounds of their own.
Watch == INSTANCE InboxIdle WITH
  Slots <- Sockets, MaxActs <- WatchActs, MaxFaults <- WatchFaults

Drafts  == 0..MaxVersions
Tallies == [pressed : Nat, handed : Nat, back : Nat]
Calls   == [of : Versions, nth : Nat, cleared : BOOLEAN, form : BOOLEAN, here : BOOLEAN]

\* The types that matter here.
PressTypes ==
  /\ versions \in Nat
  /\ draft \in Drafts /\ asking \in Drafts /\ pending \in Drafts
  /\ done \in [Versions -> Tallies]
  /\ sends \subseteq Calls

HistoryTypes == snaps \in Seq(Versions)

One(b) == IF b THEN 1 ELSE 0

\* Where the presses of a version are: handed over, taken back, counting down, asked about.
Balance(v) == done[v].handed + done[v].back + One(pending = v) + One(asking = v)

\* No press is in two places, and until the program quits none is nowhere.
Balanced ==
  \A v \in Versions : /\ Balance(v) <= done[v].pressed
                      /\ quits = 0 => Balance(v) = done[v].pressed

PressInv == PressTypes /\ HistoryTypes /\ quits \in Nat /\ Balanced

\* With the history on, it has every version that was pressed, unless it is full.
HistoryHasSent ==
  /\ Len(snaps) <= Cap
  /\ \A v \in Versions : keeps /\ done[v].pressed > 0 => Len(snaps) = Cap \/ v \in Range(snaps)

\* What any step does to the history.
HistoryMoves ==
  \/ UNCHANGED snaps
  \/ \E auto \in BOOLEAN : Snapshot(auto)
  \/ snaps' = Preserved

-----------------------------------------------------------------------------
LEMMA DraftsAre == ASSUME ComposeAssumption PROVE Drafts = Versions \cup {0} /\ 0 \notin Versions
BY DEF ComposeAssumption, Drafts, Versions

-----------------------------------------------------------------------------
(* Counting *)

LEMMA Pressed ==
  ASSUME NEW v \in Versions, PressTypes, Count(v, "pressed")
  PROVE  /\ done' \in [Versions -> Tallies]
         /\ \A u \in Versions \ {v} : done'[u] = done[u]
         /\ done'[v].pressed = done[v].pressed + 1
         /\ done'[v].handed = done[v].handed /\ done'[v].back = done[v].back
<1> DEFINE t == [done[v] EXCEPT !.pressed = @ + 1]
<1>1. done[v] \in Tallies
  BY DEF PressTypes
<1>2. /\ t \in Tallies /\ t.pressed = done[v].pressed + 1
      /\ t.handed = done[v].handed /\ t.back = done[v].back
  BY <1>1 DEF Tallies
<1>3. done' = [done EXCEPT ![v] = t]
  BY DEF Count
<1> HIDE DEF t
<1> QED BY <1>2, <1>3 DEF PressTypes

LEMMA Handed ==
  ASSUME NEW v \in Versions, PressTypes, Count(v, "handed")
  PROVE  /\ done' \in [Versions -> Tallies]
         /\ \A u \in Versions \ {v} : done'[u] = done[u]
         /\ done'[v].handed = done[v].handed + 1
         /\ done'[v].pressed = done[v].pressed /\ done'[v].back = done[v].back
<1> DEFINE t == [done[v] EXCEPT !.handed = @ + 1]
<1>1. done[v] \in Tallies
  BY DEF PressTypes
<1>2. /\ t \in Tallies /\ t.handed = done[v].handed + 1
      /\ t.pressed = done[v].pressed /\ t.back = done[v].back
  BY <1>1 DEF Tallies
<1>3. done' = [done EXCEPT ![v] = t]
  BY DEF Count
<1> HIDE DEF t
<1> QED BY <1>2, <1>3 DEF PressTypes

LEMMA TakenBack ==
  ASSUME NEW v \in Versions, PressTypes, Count(v, "back")
  PROVE  /\ done' \in [Versions -> Tallies]
         /\ \A u \in Versions \ {v} : done'[u] = done[u]
         /\ done'[v].back = done[v].back + 1
         /\ done'[v].pressed = done[v].pressed /\ done'[v].handed = done[v].handed
<1> DEFINE t == [done[v] EXCEPT !.back = @ + 1]
<1>1. done[v] \in Tallies
  BY DEF PressTypes
<1>2. /\ t \in Tallies /\ t.back = done[v].back + 1
      /\ t.pressed = done[v].pressed /\ t.handed = done[v].handed
  BY <1>1 DEF Tallies
<1>3. done' = [done EXCEPT ![v] = t]
  BY DEF Count
<1> HIDE DEF t
<1> QED BY <1>2, <1>3 DEF PressTypes

\* A new call is one of the mail layer's.
LEMMA CallsAreCalls ==
  ASSUME PressTypes, NEW d \in Versions, NEW c \in BOOLEAN
  PROVE  /\ Call(d, c) \in Calls
         /\ [Call(d, c) EXCEPT !.form = FALSE, !.here = FALSE] \in Calls
<1>1. done[d].handed \in Nat
  BY DEF PressTypes, Tallies
<1> QED BY <1>1 DEF Call, Calls

\* The balance where nothing it is made of moves.
LEMMA StillBalanced ==
  ASSUME PressInv, UNCHANGED <<done, pending, asking, quits>> PROVE Balanced' /\ quits' \in Nat
BY DEF PressInv, Balanced, Balance

-----------------------------------------------------------------------------
(* The history *)

\* One of two numbers is the least, and no more than the first.
LEMMA LeastOfTwo ==
  ASSUME NEW m \in Nat, NEW n \in Nat
  PROVE  Min({m, n}) \in {m, n} /\ Min({m, n}) <= m
<1>1. \E x \in {m, n} : \A y \in {m, n} : x <= y
  <2>1. CASE m <= n
    BY <2>1
  <2>2. CASE n <= m
    BY <2>2
  <2> QED BY <2>1, <2>2
<1>2. /\ Min({m, n}) \in {m, n} /\ \A y \in {m, n} : Min({m, n}) <= y
  BY <1>1 DEF Min
<1> QED BY <1>2

\* What is recorded has the draft in front.
LEMMA RecordedHasDraft ==
  ASSUME ComposeAssumption, HistoryTypes, draft \in Versions
  PROVE  /\ Recorded \in Seq(Versions)
         /\ 1 \in DOMAIN Recorded /\ Recorded[1] = draft
<1> DEFINE all == <<draft>> \o snaps
           n   == Min({Len(snaps) + 1, Cap})
<1>1. /\ all \in Seq(Versions) /\ Len(all) = Len(snaps) + 1 /\ all[1] = draft
      /\ Len(snaps) \in Nat
  BY DEF HistoryTypes
<1>2. n \in Nat /\ 1 <= n /\ n <= Len(all)
  BY <1>1, LeastOfTwo DEF ComposeAssumption
<1>3. Recorded = SubSeq(all, 1, n)
  BY DEF Recorded
<1> HIDE DEF all, n
<1>4. \A i \in 1..n : all[i] \in Versions
  BY <1>1, <1>2
<1>5. /\ Recorded \in Seq(Versions) /\ Len(Recorded) = n
      /\ \A i \in 1..n : Recorded[i] = all[i]
  <2>1. /\ SubSeq(all, 1, n) \in Seq(Versions)
        /\ Len(SubSeq(all, 1, n)) = IF 1 <= n THEN n - 1 + 1 ELSE 0
        /\ \A i \in 1..n - 1 + 1 : SubSeq(all, 1, n)[i] = all[1 + i - 1]
    BY <1>2, <1>4, SubSeqProperties
  <2> QED BY <1>1, <1>2, <1>3, <2>1
<1> QED BY <1>1, <1>2, <1>5

\* What is recorded pushes nothing out of a history that is not full.
LEMMA RecordedKeepsRest ==
  ASSUME ComposeAssumption, HistoryTypes, draft \in Versions, Len(snaps) <= Cap
  PROVE  /\ Len(Recorded) <= Cap
         /\ Len(Recorded) # Cap => Range(snaps) \subseteq Range(Recorded)
<1> DEFINE all == <<draft>> \o snaps
           n   == Min({Len(snaps) + 1, Cap})
<1>1. /\ all \in Seq(Versions) /\ Len(all) = Len(snaps) + 1 /\ Len(snaps) \in Nat
      /\ \A i \in 1..Len(snaps) : all[i + 1] = snaps[i]
  BY DEF HistoryTypes
<1>2. n \in Nat /\ 1 <= n /\ n <= Len(all) /\ n \in {Len(all), Cap} /\ n <= Cap
  BY <1>1, LeastOfTwo DEF ComposeAssumption
<1>3. Recorded = SubSeq(all, 1, n)
  BY DEF Recorded
<1> HIDE DEF all, n
<1>4. /\ Len(Recorded) = n /\ Recorded \in Seq(Versions)
      /\ \A i \in 1..n : Recorded[i] = all[i]
  BY <1>1, <1>2, <1>3
<1>5. ASSUME n # Cap, NEW i \in 1..Len(snaps) PROVE snaps[i] \in Range(Recorded)
  <2>1. i + 1 \in 1..n /\ i + 1 \in DOMAIN Recorded
    BY <1>1, <1>2, <1>4, <1>5
  <2>2. Recorded[i + 1] = snaps[i]
    BY <1>1, <1>4, <2>1
  <2> QED BY <2>1, <2>2 DEF Range
<1>6. \A v \in Range(snaps) : \E i \in 1..Len(snaps) : v = snaps[i]
  BY DEF Range, HistoryTypes
<1> QED BY <1>2, <1>4, <1>5, <1>6

LEMMA HistoryKept ==
  ASSUME ComposeAssumption, PressInv, HistoryMoves
  PROVE  HistoryTypes'
<1> USE DEF HistoryMoves
<1>1. (\E auto \in BOOLEAN : Captures(auto)) => Recorded \in Seq(Versions)
  BY RecordedHasDraft DEF PressInv, PressTypes, Captures, Drafts, Versions
<1>2. CASE UNCHANGED snaps
  BY <1>2 DEF PressInv, HistoryTypes
<1>3. CASE snaps' = Preserved
  BY <1>1, <1>3 DEF PressInv, HistoryTypes, Preserved
<1>4. ASSUME NEW auto \in BOOLEAN, Snapshot(auto) PROVE HistoryTypes'
  BY <1>1, <1>4 DEF PressInv, HistoryTypes, Snapshot, hist
<1> QED BY <1>2, <1>3, <1>4

-----------------------------------------------------------------------------
(* The actions *)

LEMMA InitPress == ASSUME ComposeAssumption, Init PROVE PressInv
<1>1. PressTypes /\ HistoryTypes /\ quits \in Nat
  BY DEF Init, ComposeAssumption, PressTypes, HistoryTypes, Drafts, Versions, Tallies
<1>2. Balanced
  BY DEF Init, Balanced, Balance, One, Versions
<1> QED BY <1>1, <1>2 DEF PressInv

\* The form alone: typing, loading, restoring, arming, and what only time does.
LEMMA WritingKeeps ==
  ASSUME ComposeAssumption, PressInv,
         \/ AutoSnapshot \/ TimePasses \/ Type \/ Load \/ Return \/ Arm \/ Armed
         \/ \E i \in DOMAIN snaps : Restore(i)
  PROVE  PressInv'
<1>1. UNCHANGED <<done, pending, asking, quits, sends>>
  BY DEF AutoSnapshot, TimePasses, Type, Load, Return, Arm, Armed, Restore, counts
<1>2. draft' \in Drafts /\ versions' \in Nat
  <2>1. /\ Type \/ Load => New /\ draft' = versions'
        /\ ~Type /\ ~Load => versions' = versions
    BY DEF Type, Load, Put, AutoSnapshot, TimePasses, Return, Arm, Armed, Restore
  <2>2. Armed => draft' = 0
    BY DEF Armed, Put
  <2>3. ASSUME NEW i \in DOMAIN snaps, Restore(i) PROVE draft' \in Versions
    BY <2>3 DEF Restore, Put, PressInv, HistoryTypes
  <2>4. AutoSnapshot \/ TimePasses \/ Return \/ Arm => draft' = draft
    BY DEF AutoSnapshot, TimePasses, Return, Arm
  <2> QED
    BY <2>1, <2>2, <2>3, <2>4 DEF New, PressInv, PressTypes, Drafts, Versions, ComposeAssumption
<1>3. HistoryTypes'
  <2>1. ASSUME NEW i \in DOMAIN snaps, Restore(i) PROVE snaps' = Preserved
    BY <2>1 DEF Restore
  <2>2. AutoSnapshot => Snapshot(TRUE)
    BY DEF AutoSnapshot
  <2>3. TimePasses \/ Type \/ Load \/ Return \/ Arm \/ Armed => UNCHANGED snaps
    BY DEF TimePasses, Type, Load, Return, Arm, Armed, hist
  <2> QED BY <2>1, <2>2, <2>3, HistoryKept DEF HistoryMoves
<1>4. PressTypes'
  BY <1>1, <1>2 DEF PressInv, PressTypes
<1> QED BY <1>1, <1>3, <1>4, StillBalanced DEF PressInv

LEMMA PressKeeps == ASSUME ComposeAssumption, PressInv, Press PROVE PressInv'
<1>1. /\ draft \in Versions /\ Count(draft, "pressed") /\ asking = 0 /\ asking' = draft
      /\ UNCHANGED <<draft, pending, sends, versions, quits>> /\ Snapshot(FALSE)
  <2>1. draft \in Versions
    BY DraftsAre DEF Press, PressInv, PressTypes
  <2> QED BY <2>1 DEF Press, Presses, EarlySnapshot, counts
<1>2. HistoryTypes'
  BY <1>1, HistoryKept DEF HistoryMoves
<1>3. PressTypes'
  BY <1>1, Pressed DEF PressInv, PressTypes, Drafts, Versions
<1>4. Balanced'
  <2> SUFFICES ASSUME NEW v \in Versions
               PROVE  /\ Balance(v)' <= done'[v].pressed
                      /\ quits' = 0 => Balance(v)' = done'[v].pressed
    BY DEF Balanced
  <2>1. done[v] \in Tallies /\ v # 0
    BY DEF PressInv, PressTypes, Versions
  <2> QED BY <1>1, <2>1, Pressed DEF PressInv, Balanced, Balance, One, Tallies
<1> QED BY <1>1, <1>2, <1>3, <1>4 DEF PressInv

LEMMA DenyKeeps == ASSUME ComposeAssumption, PressInv, Deny PROVE PressInv'
<1>1. /\ asking \in Versions /\ Count(asking, "back") /\ asking' = 0
      /\ UNCHANGED <<draft, snaps, pending, sends, versions, quits>>
  BY DEF Deny, PressInv, PressTypes, Drafts, Versions, counts, hist
<1>2. PressTypes' /\ HistoryTypes'
  BY <1>1, TakenBack, DraftsAre DEF PressInv, PressTypes, HistoryTypes
<1>3. Balanced'
  <2> SUFFICES ASSUME NEW v \in Versions
               PROVE  /\ Balance(v)' <= done'[v].pressed
                      /\ quits' = 0 => Balance(v)' = done'[v].pressed
    BY DEF Balanced
  <2>1. done[v] \in Tallies /\ v # 0
    BY DEF PressInv, PressTypes, Versions
  <2> QED BY <1>1, <2>1, TakenBack DEF PressInv, Balanced, Balance, One, Tallies
<1> QED BY <1>1, <1>2, <1>3 DEF PressInv

LEMMA CancelKeeps == ASSUME ComposeAssumption, PressInv, Cancel PROVE PressInv'
<1>1. /\ pending \in Versions /\ Count(pending, "back") /\ pending' = 0 /\ draft' = pending
      /\ UNCHANGED <<snaps, asking, sends, versions, quits>>
  BY DEF Cancel, Put, PressInv, PressTypes, Drafts, Versions, counts, hist
<1>2. PressTypes' /\ HistoryTypes'
  BY <1>1, TakenBack, DraftsAre DEF PressInv, PressTypes, HistoryTypes
<1>3. Balanced'
  <2> SUFFICES ASSUME NEW v \in Versions
               PROVE  /\ Balance(v)' <= done'[v].pressed
                      /\ quits' = 0 => Balance(v)' = done'[v].pressed
    BY DEF Balanced
  <2>1. done[v] \in Tallies /\ v # 0
    BY DEF PressInv, PressTypes, Versions
  <2> QED BY <1>1, <2>1, TakenBack DEF PressInv, Balanced, Balance, One, Tallies
<1> QED BY <1>1, <1>2, <1>3 DEF PressInv

\* A countdown that is let go: by its last tick, or by the screen that closes.
LEMMA HandsPending ==
  ASSUME ComposeAssumption, PressInv, pending # 0, Count(pending, "handed"), pending' = 0,
         UNCHANGED <<draft, snaps, asking, versions, quits>>, sends' \subseteq Calls
  PROVE  PressInv'
<1>1. pending \in Versions
  BY DEF PressInv, PressTypes, Drafts, Versions
<1>2. PressTypes' /\ HistoryTypes'
  BY <1>1, Handed, DraftsAre DEF PressInv, PressTypes, HistoryTypes
<1>3. Balanced'
  <2> SUFFICES ASSUME NEW v \in Versions
               PROVE  /\ Balance(v)' <= done'[v].pressed
                      /\ quits' = 0 => Balance(v)' = done'[v].pressed
    BY DEF Balanced
  <2>1. done[v] \in Tallies /\ v # 0
    BY DEF PressInv, PressTypes, Versions
  <2> QED BY <1>1, <2>1, Handed DEF PressInv, Balanced, Balance, One, Tallies
<1> QED BY <1>2, <1>3 DEF PressInv

LEMMA ExpiresKeeps == ASSUME ComposeAssumption, PressInv, Expires PROVE PressInv'
<1>1. /\ pending # 0 /\ Count(pending, "handed") /\ pending' = 0
      /\ UNCHANGED <<draft, snaps, asking, versions, quits>>
      /\ sends' = sends \cup {Call(pending, TRUE)}
  BY DEF Expires, Elapses, hist, counts
<1>2. sends' \subseteq Calls
  <2>1. pending \in Versions /\ TRUE \in BOOLEAN
    BY <1>1, DraftsAre DEF PressInv, PressTypes
  <2>2. Call(pending, TRUE) \in Calls
    BY <2>1, CallsAreCalls DEF PressInv
  <2> QED BY <1>1, <2>2 DEF PressInv, PressTypes
<1> QED BY <1>1, <1>2, HandsPending

LEMMA LeaveKeeps == ASSUME ComposeAssumption, PressInv, Leave PROVE PressInv'
<1> DEFINE left == {[s EXCEPT !.here = FALSE] : s \in sends}
<1>1. left \subseteq Calls
  BY DEF PressInv, PressTypes, Calls
<1>2. /\ pending' = 0 /\ UNCHANGED <<draft, snaps, asking, versions, quits>> /\ SendsLeaving
  BY DEF Leave, hist
<1>3. CASE pending = 0
  <2>1. UNCHANGED <<done, pending>> /\ sends' = left
    BY <1>2, <1>3 DEF SendsLeaving
  <2>2. PressTypes' /\ HistoryTypes'
    BY <1>1, <1>2, <2>1 DEF PressInv, PressTypes, HistoryTypes
  <2> QED BY <1>2, <2>1, <2>2, StillBalanced DEF PressInv
<1>4. CASE pending # 0
  <2>1. /\ sends' = left \cup {[Call(pending, TRUE) EXCEPT !.form = FALSE, !.here = FALSE]}
        /\ Count(pending, "handed")
    BY <1>2, <1>4 DEF SendsLeaving
  <2>2. pending \in Versions
    BY <1>4 DEF PressInv, PressTypes, Drafts, Versions
  <2>3. sends' \subseteq Calls
    BY <1>1, <2>1, <2>2, CallsAreCalls DEF PressInv
  <2> QED BY <1>2, <1>4, <2>1, <2>3, HandsPending
<1> QED BY <1>3, <1>4

LEMMA ConfirmKeeps == ASSUME ComposeAssumption, PressInv, Confirm PROVE PressInv'
<1>1. /\ asking \in Versions /\ Starts(asking) /\ asking' = 0
      /\ UNCHANGED <<snaps, versions, quits>>
  BY DEF Confirm, PressInv, PressTypes, Drafts, Versions, counts, hist
<1>2. CASE /\ draft' = 0 /\ pending' = asking /\ pending = 0 /\ UNCHANGED <<sends, done>>
  <2>1. PressTypes' /\ HistoryTypes'
    BY <1>1, <1>2, DraftsAre DEF PressInv, PressTypes, HistoryTypes
  <2>2. Balanced'
    <3> SUFFICES ASSUME NEW v \in Versions
                 PROVE  /\ Balance(v)' <= done'[v].pressed
                        /\ quits' = 0 => Balance(v)' = done'[v].pressed
      BY DEF Balanced
    <3>1. done[v] \in Tallies /\ v # 0
      BY DEF PressInv, PressTypes, Versions
    <3> QED BY <1>1, <1>2, <3>1 DEF PressInv, Balanced, Balance, One, Tallies
  <2> QED BY <1>1, <2>1, <2>2 DEF PressInv
<1>3. CASE /\ draft' = 0 /\ pending' = asking /\ pending # 0 /\ Count(pending, "handed")
           /\ sends' = sends \cup {Call(pending, TRUE)}
  <2>1. pending \in Versions
    BY <1>3 DEF PressInv, PressTypes, Drafts, Versions
  <2>2. sends' \subseteq Calls
    BY <1>3, <2>1, CallsAreCalls DEF PressInv, PressTypes
  <2>3. PressTypes' /\ HistoryTypes'
    BY <1>1, <1>3, <2>1, <2>2, Handed, DraftsAre DEF PressInv, PressTypes, HistoryTypes
  <2>4. Balanced'
    <3> SUFFICES ASSUME NEW v \in Versions
                 PROVE  /\ Balance(v)' <= done'[v].pressed
                        /\ quits' = 0 => Balance(v)' = done'[v].pressed
      BY DEF Balanced
    <3>1. done[v] \in Tallies /\ v # 0
      BY DEF PressInv, PressTypes, Versions
    <3> QED BY <1>1, <1>3, <2>1, <3>1, Handed DEF PressInv, Balanced, Balance, One, Tallies
  <2> QED BY <1>1, <2>3, <2>4 DEF PressInv
<1>4. CASE /\ UNCHANGED <<draft, pending>> /\ Count(asking, "handed")
           /\ sends' = sends \cup {Call(asking, FALSE)}
  <2>1. sends' \subseteq Calls
    BY <1>1, <1>4, CallsAreCalls DEF PressInv, PressTypes
  <2>2. PressTypes' /\ HistoryTypes'
    BY <1>1, <1>4, <2>1, Handed, DraftsAre DEF PressInv, PressTypes, HistoryTypes
  <2>3. Balanced'
    <3> SUFFICES ASSUME NEW v \in Versions
                 PROVE  /\ Balance(v)' <= done'[v].pressed
                        /\ quits' = 0 => Balance(v)' = done'[v].pressed
      BY DEF Balanced
    <3>1. done[v] \in Tallies /\ v # 0
      BY DEF PressInv, PressTypes, Versions
    <3> QED BY <1>1, <1>4, <3>1, Handed DEF PressInv, Balanced, Balance, One, Tallies
  <2> QED BY <1>1, <2>2, <2>3 DEF PressInv
<1> QED BY <1>1, <1>2, <1>3, <1>4 DEF Starts, Put

LEMMA EndsKeeps == ASSUME ComposeAssumption, PressInv, NEW s \in sends, Ends(s) PROVE PressInv'
<1>1. /\ sends' \subseteq sends
      /\ UNCHANGED <<done, snaps, pending, asking, versions, quits>>
  BY DEF Ends, hist, counts
<1>2. draft' \in {draft, 0, s.of} /\ s.of \in Versions
  BY DEF Ends, Put, GivesBack, PressInv, PressTypes, Calls
<1>3. PressTypes' /\ HistoryTypes'
  BY <1>1, <1>2, DraftsAre DEF PressInv, PressTypes, HistoryTypes
<1> QED BY <1>1, <1>3, StillBalanced DEF PressInv

LEMMA QuitKeeps == ASSUME ComposeAssumption, PressInv, Quit PROVE PressInv'
<1>1. /\ quits' = quits + 1 /\ pending' = 0 /\ asking' = 0 /\ sends' = {}
      /\ UNCHANGED <<draft, snaps, versions>>
      /\ IF asking = 0 THEN UNCHANGED done ELSE Count(asking, "back")
  BY DEF Quit
<1>2. asking # 0 => asking \in Versions
  BY DEF PressInv, PressTypes, Drafts, Versions
<1>3. PressTypes' /\ HistoryTypes' /\ quits' \in Nat /\ quits' # 0
  BY <1>1, <1>2, TakenBack, DraftsAre DEF PressInv, PressTypes, HistoryTypes
<1>4. Balanced'
  <2> SUFFICES ASSUME NEW v \in Versions PROVE Balance(v)' <= done'[v].pressed
    BY <1>3 DEF Balanced
  <2>1. done[v] \in Tallies /\ v # 0 /\ Balance(v) <= done[v].pressed
    BY DEF PressInv, PressTypes, Balanced, Versions
  <2>2. CASE asking = 0
    BY <1>1, <2>1, <2>2 DEF Balance, One, Tallies
  <2>3. CASE asking # 0
    BY <1>1, <1>2, <2>1, <2>3, TakenBack DEF PressInv, Balance, One, Tallies
  <2> QED BY <2>2, <2>3
<1> QED BY <1>3, <1>4 DEF PressInv

LEMMA StepKeeps == ASSUME ComposeAssumption, PressInv, [Next]_vars PROVE PressInv'
<1>1. CASE UNCHANGED vars
  BY <1>1 DEF vars, hist, counts, PressInv, PressTypes, HistoryTypes, Balanced, Balance
<1>2. CASE Next
  BY <1>2, WritingKeeps, PressKeeps, DenyKeeps, CancelKeeps, ExpiresKeeps, LeaveKeeps, ConfirmKeeps,
     EndsKeeps, QuitKeeps DEF Next
<1> QED BY <1>1, <1>2

-----------------------------------------------------------------------------
(* The history and what was sent *)

LEMMA HistoryGrows ==
  ASSUME ComposeAssumption, PressInv, HistoryHasSent, HistoryMoves
  PROVE  /\ Len(snaps') <= Cap
         /\ Len(snaps') # Cap => Len(snaps) # Cap /\ Range(snaps) \subseteq Range(snaps')
<1>1. CASE UNCHANGED snaps
  BY <1>1 DEF HistoryHasSent
<1>2. ASSUME NEW auto \in BOOLEAN, Captures(auto), snaps' = Recorded
      PROVE  /\ Len(snaps') <= Cap
             /\ Len(snaps') # Cap => Len(snaps) # Cap /\ Range(snaps) \subseteq Range(snaps')
  <2>1. draft \in Versions /\ HistoryTypes /\ Len(snaps) <= Cap
    BY <1>2, DraftsAre DEF Captures, PressInv, PressTypes, HistoryHasSent
  <2>2. Len(snaps) = Cap => Len(Recorded) = Cap
    <3> SUFFICES ASSUME Len(snaps) = Cap PROVE Len(Recorded) = Cap
      OBVIOUS
    <3> DEFINE all == <<draft>> \o snaps
               n   == Min({Len(snaps) + 1, Cap})
    <3>1. all \in Seq(Versions) /\ Len(all) = Cap + 1 /\ Cap \in Nat
      BY <2>1 DEF HistoryTypes, ComposeAssumption
    <3>2. n = Cap
      <4>1. Cap + 1 \in Nat /\ Min({Cap + 1, Cap}) \in {Cap + 1, Cap}
        BY <3>1, LeastOfTwo
      <4>2. Cap \in {Cap + 1, Cap} /\ \A y \in {Cap + 1, Cap} : Cap <= y
        BY <3>1
      <4>3. Min({Cap + 1, Cap}) <= Cap
        BY <3>1, <4>2 DEF Min
      <4> QED BY <3>1, <4>1, <4>3
    <3>3. Recorded = SubSeq(all, 1, n)
      BY DEF Recorded
    <3> HIDE DEF all, n
    <3> QED BY <3>1, <3>2, <3>3
  <2> QED BY <1>2, <2>1, <2>2, RecordedKeepsRest
<1>3. ASSUME NEW auto \in BOOLEAN, Snapshot(auto) PROVE UNCHANGED snaps \/ (Captures(auto) /\ snaps' = Recorded)
  BY <1>3 DEF Snapshot, hist
<1>4. snaps' = Preserved => UNCHANGED snaps \/ (Captures(FALSE) /\ snaps' = Recorded)
  BY DEF Preserved
<1> QED BY <1>1, <1>2, <1>3, <1>4 DEF HistoryMoves

\* A press puts its draft into the history before the form is cleared.
LEMMA PressRecords ==
  ASSUME ComposeAssumption, PressInv, Press, keeps PROVE draft \in Range(snaps')
<1>1. draft \in Versions /\ HistoryTypes /\ Snapshot(FALSE)
  BY DraftsAre DEF Press, EarlySnapshot, PressInv, PressTypes
<1>2. CASE Captures(FALSE)
  BY <1>1, <1>2, RecordedHasDraft DEF Snapshot, Range
<1>3. CASE ~Captures(FALSE)
  <2>1. snaps' = snaps /\ snaps # <<>> /\ Head(snaps) = draft
    BY <1>1, <1>3 DEF Captures, Snapshot, hist, Press
  <2>2. 1 \in DOMAIN snaps /\ snaps[1] = draft
    BY <1>1, <2>1 DEF HistoryTypes
  <2> QED BY <2>1, <2>2 DEF Range
<1> QED BY <1>2, <1>3

\* No other step presses Send.
LEMMA OthersPressNothing ==
  ASSUME ComposeAssumption, PressInv, [Next]_vars, ~Press
  PROVE  \A v \in Versions : done'[v].pressed = done[v].pressed
<1> SUFFICES ASSUME NEW v \in Versions PROVE done'[v].pressed = done[v].pressed
  OBVIOUS
<1>1. CASE UNCHANGED done
  BY <1>1
<1>2. ASSUME NEW d \in Versions, Count(d, "handed") \/ Count(d, "back")
      PROVE  done'[v].pressed = done[v].pressed
  BY <1>2, Handed, TakenBack DEF PressInv
<1>3. UNCHANGED done \/ \E d \in Versions : Count(d, "handed") \/ Count(d, "back")
  <2>1. /\ asking # 0 => asking \in Versions
        /\ pending # 0 => pending \in Versions
    BY DraftsAre DEF PressInv, PressTypes
  <2>2. CASE Confirm
    BY <2>1, <2>2 DEF Confirm, Starts
  <2>3. CASE Deny \/ Expires \/ Cancel
    BY <2>1, <2>3 DEF Deny, Expires, Cancel
  <2>4. CASE Leave
    BY <2>1, <2>4 DEF Leave, SendsLeaving
  <2>5. CASE Quit
    BY <2>1, <2>5 DEF Quit
  <2>6. CASE /\ ~Confirm /\ ~Deny /\ ~Expires /\ ~Cancel /\ ~Leave /\ ~Quit
    BY <2>6 DEF Next, vars, AutoSnapshot, TimePasses, Type, Load, Return, Arm, Armed, Restore, Ends
  <2> QED BY <2>2, <2>3, <2>4, <2>5, <2>6
<1> QED BY <1>1, <1>2, <1>3

LEMMA HistoryStep ==
  ASSUME ComposeAssumption, PressInv, HistoryHasSent, [Next]_vars PROVE HistoryHasSent'
<1>1. HistoryMoves /\ UNCHANGED keeps
  <2>1. CASE Press
    BY <2>1 DEF Press, EarlySnapshot, HistoryMoves, settings
  <2>2. CASE AutoSnapshot \/ \E i \in DOMAIN snaps : Restore(i)
    BY <2>2 DEF AutoSnapshot, Restore, HistoryMoves, settings
  <2>3. CASE ~Press /\ ~AutoSnapshot /\ ~(\E i \in DOMAIN snaps : Restore(i))
    BY <2>3 DEF Next, vars, TimePasses, Type, Load, Confirm, Deny, Expires, Cancel, Leave, Return,
       Arm, Armed, Quit, Ends, hist, settings, HistoryMoves
  <2> QED BY <2>1, <2>2, <2>3
<1>2. /\ Len(snaps') <= Cap
      /\ Len(snaps') # Cap => Len(snaps) # Cap /\ Range(snaps) \subseteq Range(snaps')
  BY <1>1, HistoryGrows
<1>3. ASSUME NEW v \in Versions, keeps, done'[v].pressed > 0, Len(snaps') # Cap
      PROVE  v \in Range(snaps')
  <2>1. CASE Press /\ v = draft
    BY <1>3, <2>1, PressRecords
  <2>2. CASE ~(Press /\ v = draft)
    <3>1. done'[v].pressed = done[v].pressed
      <4>1. CASE Press
        <5>1. draft \in Versions /\ Count(draft, "pressed")
          BY <4>1, DraftsAre DEF Press, Presses, PressInv, PressTypes
        <5> QED BY <2>2, <4>1, <5>1, Pressed DEF PressInv
      <4> QED BY <4>1, OthersPressNothing
    <3> QED BY <1>2, <1>3, <3>1 DEF HistoryHasSent
  <2> QED BY <2>1, <2>2
<1> QED BY <1>1, <1>2, <1>3 DEF HistoryHasSent

LEMMA InitHistory == ASSUME ComposeAssumption, Init PROVE HistoryHasSent
BY DEF Init, ComposeAssumption, HistoryHasSent, Versions

-----------------------------------------------------------------------------
(* The form *)

\* What a version replaces was in front of the history, or is put there.
LEMMA RestoreKeeps == ASSUME ComposeAssumption, PressInv PROVE RestoreIsUndoable
<1> SUFFICES ASSUME NEW i \in DOMAIN snaps, Restore(i), draft # 0
             PROVE  draft \in Range(snaps')
  BY DEF RestoreIsUndoable
<1>1. draft \in Versions /\ HistoryTypes /\ snaps' = Preserved
  BY DEF Restore, PressInv, PressTypes, Drafts, Versions
<1>2. CASE Captures(FALSE)
  BY <1>1, <1>2, RecordedHasDraft DEF Preserved, Range
<1>3. CASE ~Captures(FALSE)
  <2>1. snaps' = snaps /\ snaps # <<>> /\ Head(snaps) = draft
    BY <1>1, <1>3 DEF Captures, Preserved
  <2>2. 1 \in DOMAIN snaps /\ snaps[1] = draft
    BY <1>1, <2>1 DEF HistoryTypes
  <2> QED BY <2>1, <2>2 DEF Range
<1> QED BY <1>2, <1>3

\* Only an answer takes a call away, but for the quit that Failed excludes.
LEMMA FailureGivesBack == ASSUME PressInv, [Next]_vars PROVE FailedComesBack
<1> SUFFICES ASSUME NEW s \in sends, s.form, Failed(s) PROVE draft' = s.of
  BY DEF FailedComesBack
<1>1. /\ sends \subseteq Calls /\ s \notin sends' /\ ~Leave /\ ~Quit
  <2>1. sends \subseteq Calls /\ s \notin sends'
    BY DEF PressInv, PressTypes, Failed
  <2>2. ~Leave
    <3> SUFFICES ASSUME Leave PROVE [s EXCEPT !.here = FALSE] \in sends'
      BY <2>1 DEF Failed, Calls
    <3> QED BY DEF Leave, SendsLeaving
  <2>3. ~Quit
    BY DEF Quit, Failed, PressInv
  <2> QED BY <2>1, <2>2, <2>3
<1>2. PICK t \in sends : Ends(t)
  <2>1. ~(\E t \in sends : Ends(t)) => sends \subseteq sends'
    BY <1>1 DEF Next, vars, AutoSnapshot, TimePasses, Type, Load, Press, Confirm, Starts,
       Deny, Expires, Cancel, Return, Arm, Armed, Restore
  <2> QED BY <1>1, <2>1
<1>3. t = s
  BY <1>1, <1>2 DEF Ends
<1>4. s.cleared /\ s.form /\ s.of \notin kept'
  BY DEF Failed
<1> QED BY <1>2, <1>3, <1>4 DEF Ends, GivesBack, Put

\* Where the program may not quit it does not.
LEMMA StaysUp ==
  ASSUME PressInv, [Next]_vars, MaxQuits = 0, quits = 0 PROVE quits' = 0
<1>1. ~Quit
  BY DEF Quit
<1> QED
  BY <1>1 DEF Next, vars, counts, AutoSnapshot, TimePasses, Type, Load, Press, Confirm, Deny,
     Expires, Cancel, Leave, Return, Arm, Armed, Restore, Ends

-----------------------------------------------------------------------------
(* What follows *)

\* Each press of Send is in one place, and while the program runs it is in one
\* (ComposeView.tsx, pendingSendRef and its timer).
THEOREM PressInvHolds == ASSUME ComposeAssumption PROVE Spec => []PressInv
<1>1. Init => PressInv
  BY InitPress
<1>2. PressInv /\ [Next]_vars => PressInv'
  BY StepKeeps
<1> QED BY <1>1, <1>2, PTL DEF Spec

\* What the balance says.
LEMMA PressIsExact == ASSUME PressInv PROVE HandedOverOnce /\ (quits = 0 => NeverDropped)
<1>1. ASSUME NEW v \in Versions
      PROVE  /\ done[v].handed + done[v].back <= done[v].pressed
             /\ quits = 0 => done[v].pressed <= done[v].handed + done[v].back
                               + (IF pending = v THEN 1 ELSE 0) + (IF asking = v THEN 1 ELSE 0)
  <2>1. done[v] \in Tallies
    BY DEF PressInv, PressTypes
  <2> QED BY <2>1 DEF PressInv, Balanced, Balance, One, Tallies
<1> QED BY <1>1 DEF HandedOverOnce, NeverDropped

LEMMA HistoryHas == ASSUME HistoryHasSent PROVE SentIsRecoverable
BY DEF HistoryHasSent, SentIsRecoverable

\* A press of Send is handed to the mail layer once, whichever of the countdown, a
\* second press, the screen that closes and the lack of a window does it.
THEOREM HandedOverOnceHolds == ASSUME ComposeAssumption PROVE Spec => []HandedOverOnce
<1>1. PressInv => HandedOverOnce
  BY PressIsExact
<1> QED BY <1>1, PressInvHolds, PTL

\* Until the program quits, no press of Send is dropped: it was handed over, taken
\* back, or is on its way ("a pressed Send that silently never happens ...").
THEOREM NeverDroppedHolds == ASSUME ComposeAssumption PROVE Spec => [](quits = 0 => NeverDropped)
<1>1. PressInv => (quits = 0 => NeverDropped)
  BY PressIsExact
<1> QED BY <1>1, PressInvHolds, PTL

\* With the history on, the draft of every press is in it until it is full, so it can be
\* had again whatever becomes of the send (doSend's snapshot before the form is cleared).
THEOREM SentIsRecoverableHolds == ASSUME ComposeAssumption PROVE Spec => []SentIsRecoverable
<1>1. Init => HistoryHasSent
  BY InitHistory
<1>2. PressInv /\ HistoryHasSent /\ [Next]_vars => HistoryHasSent'
  BY HistoryStep
<1>3. HistoryHasSent => SentIsRecoverable
  BY HistoryHas
<1> QED BY <1>1, <1>2, <1>3, PressInvHolds, PTL DEF Spec

\* Restoring a version of the draft keeps the one it replaces (restoreSnapshot).
THEOREM RestoreIsUndoableHolds ==
  ASSUME ComposeAssumption PROVE Spec => [][RestoreIsUndoable]_vars
<1>1. PressInv /\ [Next]_vars => [RestoreIsUndoable]_vars
  BY RestoreKeeps
<1> QED BY <1>1, PressInvHolds, PTL DEF Spec

\* A send that failed for good while the screen was open is on the form again
\* (sendDraftNow's failure path, through whichever handler let the countdown go).
THEOREM FailedComesBackHolds ==
  ASSUME ComposeAssumption PROVE Spec => [][FailedComesBack]_vars
<1>1. PressInv /\ [Next]_vars => [FailedComesBack]_vars
  BY FailureGivesBack
<1> QED BY <1>1, PressInvHolds, PTL DEF Spec

-----------------------------------------------------------------------------
(* The rest of the screen *)

\* The rest of the screen: nothing is ahead of what was written, a call is for a press that was
\* handed over, and what the screen waits for it waits for while it is shown.
ScreenInv ==
  /\ versions \in 0..MaxVersions
  /\ draft \in 0..versions /\ asking \in 0..versions /\ pending \in 0..versions /\ arming \in 0..versions
  /\ \A i \in DOMAIN snaps : snaps[i] <= versions
  /\ recent \in BOOLEAN /\ keeps \in BOOLEAN /\ undoable \in BOOLEAN
  /\ mounted \in BOOLEAN /\ sending \in BOOLEAN
  /\ \A s \in sends : s.of <= versions /\ s.nth < done[s.of].handed /\ (s.here => s.form /\ mounted)
  /\ asking # 0 \/ pending # 0 => mounted
  /\ mine \cup over \cup kept \subseteq 1..versions
  /\ \A v \in Versions : done[v].pressed <= MaxPresses

LEMMA InitScreen == ASSUME ComposeAssumption, Init PROVE ScreenInv
<1>1. /\ versions = 0 /\ draft = 0 /\ asking = 0 /\ pending = 0 /\ arming = 0 /\ 0 \in 0..MaxVersions
      /\ 0 \in 0..0 /\ DOMAIN snaps = {}
  BY DEF ComposeAssumption, Init
<1>2. /\ recent \in BOOLEAN /\ keeps \in BOOLEAN /\ undoable \in BOOLEAN /\ mounted \in BOOLEAN
      /\ sending \in BOOLEAN /\ sends = {} /\ mine = {} /\ over = {} /\ kept = {}
  BY DEF Init
<1>3. \A v \in Versions : done[v].pressed <= MaxPresses
  BY DEF ComposeAssumption, Init
<1> QED BY <1>1, <1>2, <1>3 DEF ScreenInv

\* What the counts of a version do.
LEMMA DoneMoves ==
  ASSUME ComposeAssumption, PressInv, Next, NEW v \in Versions
  PROVE  /\ done'[v] \in Tallies /\ done[v] \in Tallies
         /\ done[v].handed <= done'[v].handed
         /\ done[v].pressed <= MaxPresses => done'[v].pressed <= MaxPresses
<1>1. done[v] \in Tallies /\ done \in [Versions -> Tallies] /\ MaxPresses \in Nat
  BY DEF PressInv, PressTypes, ComposeAssumption
<1>2. done'[v] \in Tallies
  BY StepKeeps DEF PressInv, PressTypes
<1>3. CASE Press
  <2>1. draft \in Versions /\ Count(draft, "pressed") /\ done[draft].pressed < MaxPresses
    BY <1>3, DraftsAre DEF Press, Presses, PressInv, PressTypes
  <2>2. CASE v = draft
    BY <1>1, <1>2, <2>1, <2>2, Pressed DEF PressInv, Tallies
  <2>3. CASE v # draft
    BY <1>1, <2>1, <2>3, Pressed DEF PressInv, Tallies
  <2> QED BY <2>2, <2>3, <1>1, <1>2
<1>4. CASE ~Press
  <2>1. done'[v].pressed = done[v].pressed
    BY <1>4, OthersPressNothing
  <2>2. CASE UNCHANGED done
    BY <1>1, <2>2 DEF Tallies
  <2>3. ASSUME NEW d \in Versions, Count(d, "handed") \/ Count(d, "back")
        PROVE  done[v].handed <= done'[v].handed
    <3>1. done'[v].handed = done[v].handed \/ done'[v].handed = done[v].handed + 1
      BY <2>3, Handed, TakenBack DEF PressInv
    <3> QED BY <1>1, <3>1 DEF Tallies
  <2>4. UNCHANGED done \/ \E d \in Versions : Count(d, "handed") \/ Count(d, "back")
    <3>1. /\ asking # 0 => asking \in Versions
          /\ pending # 0 => pending \in Versions
      BY DraftsAre DEF PressInv, PressTypes
    <3>2. CASE Confirm
      BY <3>1, <3>2 DEF Confirm, Starts
    <3>3. CASE Deny \/ Expires \/ Cancel
      BY <3>1, <3>3 DEF Deny, Expires, Cancel
    <3>4. CASE Leave
      BY <3>1, <3>4 DEF Leave, SendsLeaving
    <3>5. CASE Quit
      BY <3>1, <3>5 DEF Quit
    <3>6. CASE ~Confirm /\ ~Deny /\ ~Expires /\ ~Cancel /\ ~Leave /\ ~Quit
      BY <1>4, <3>6 DEF Next, AutoSnapshot, TimePasses, Type, Load, Return, Arm, Armed, Restore, Ends
    <3> QED BY <3>2, <3>3, <3>4, <3>5, <3>6
  <2> QED BY <1>1, <1>2, <2>1, <2>2, <2>3, <2>4
<1> QED BY <1>3, <1>4

LEMMA VersionsGrow ==
  ASSUME ComposeAssumption, ScreenInv, Next
  PROVE  versions' \in 0..MaxVersions /\ versions \in Nat /\ versions <= versions'
<1>1. New \/ versions' = versions
  BY DEF Next, AutoSnapshot, TimePasses, Type, Load, Press, Confirm, Deny, Expires, Cancel, Leave,
     Return, Arm, Armed, Quit, Restore, Ends
<1> QED BY <1>1 DEF New, ScreenInv, ComposeAssumption

\* What comes on the form.
LEMMA DraftMoves ==
  ASSUME Next
  PROVE  \/ draft' \in {draft, 0, pending, versions'}
         \/ \E i \in DOMAIN snaps : draft' = snaps[i]
         \/ \E s \in sends : draft' = s.of
BY DEF Next, AutoSnapshot, TimePasses, Type, Load, Press, Confirm, Deny, Expires, Cancel, Leave,
   Return, Arm, Armed, Quit, Restore, Ends, Put, Starts, GivesBack

LEMMA RecordedBelow ==
  ASSUME ComposeAssumption, PressInv, ScreenInv, NEW i \in DOMAIN snaps
  PROVE  snaps[i] \in Nat /\ snaps[i] <= versions
<1>1. snaps[i] \in Versions
  BY DEF PressInv, HistoryTypes
<1>2. snaps[i] <= versions
  BY DEF ScreenInv
<1> QED BY <1>1, <1>2 DEF Versions

LEMMA FormStep ==
  ASSUME ComposeAssumption, PressInv, ScreenInv, Next
  PROVE  /\ draft' \in 0..versions' /\ asking' \in 0..versions' /\ pending' \in 0..versions'
         /\ arming' \in 0..versions'
<1>1. versions' \in Nat /\ versions \in Nat /\ versions <= versions'
  BY VersionsGrow DEF ComposeAssumption
<1>2. draft \in 0..versions /\ asking \in 0..versions /\ pending \in 0..versions /\ arming \in 0..versions
  BY DEF ScreenInv
<1>3. asking' \in {asking, 0, draft} /\ pending' \in {pending, 0, asking} /\ arming' \in {arming, 0, draft}
  BY DEF Next, AutoSnapshot, TimePasses, Type, Load, Press, Confirm, Deny, Expires, Cancel, Leave,
     Return, Arm, Armed, Quit, Restore, Ends, Put, Starts, Elapses
<1>4. draft' \in 0..versions'
  <2>1. CASE draft' \in {draft, 0, pending, versions'}
    BY <1>1, <1>2, <2>1
  <2>2. ASSUME NEW i \in DOMAIN snaps, draft' = snaps[i] PROVE draft' \in 0..versions'
    <3>1. snaps[i] \in Nat /\ snaps[i] <= versions
      BY <2>2, RecordedBelow
    <3> QED BY <1>1, <2>2, <3>1
  <2>3. ASSUME NEW s \in sends, draft' = s.of PROVE draft' \in 0..versions'
    <3>1. s.of \in Nat /\ s.of <= versions
      BY DEF PressInv, PressTypes, Calls, Versions, ScreenInv
    <3> QED BY <1>1, <2>3, <3>1
  <2> QED BY <2>1, <2>2, <2>3, DraftMoves
<1>5. asking' \in 0..versions' /\ pending' \in 0..versions' /\ arming' \in 0..versions'
  BY <1>1, <1>2, <1>3
<1> QED BY <1>4, <1>5

\* What is recorded was in the history, or is the draft.
LEMMA RecordedIs ==
  ASSUME ComposeAssumption, HistoryTypes, draft \in Versions
  PROVE  \A i \in DOMAIN Recorded : Recorded[i] = draft \/ \E j \in DOMAIN snaps : Recorded[i] = snaps[j]
<1> DEFINE all == <<draft>> \o snaps
           n   == Min({Len(snaps) + 1, Cap})
<1>1. /\ all \in Seq(Versions) /\ Len(all) = Len(snaps) + 1 /\ Len(snaps) \in Nat /\ all[1] = draft
      /\ \A i \in 1..Len(snaps) : all[i + 1] = snaps[i]
  BY DEF HistoryTypes
<1>2. n \in Nat /\ 1 <= n /\ n <= Len(all)
  <2>1. Len(snaps) + 1 \in Nat /\ Len(snaps) + 1 >= 1 /\ Cap \in Nat /\ Cap >= 1
    BY <1>1 DEF ComposeAssumption
  <2>2. n \in {Len(snaps) + 1, Cap} /\ n <= Len(snaps) + 1
    BY <2>1, LeastOfTwo
  <2> HIDE DEF n, all
  <2> QED BY <1>1, <2>1, <2>2
<1>3. Recorded = SubSeq(all, 1, n)
  BY DEF Recorded
<1>4. DOMAIN snaps = 1..Len(snaps)
  BY DEF HistoryTypes
<1> HIDE DEF all, n
<1>5. /\ DOMAIN Recorded = 1..n /\ \A i \in 1..n : Recorded[i] = all[i]
  BY <1>1, <1>2, <1>3
<1>6. ASSUME NEW i \in 1..n PROVE all[i] = draft \/ \E j \in DOMAIN snaps : all[i] = snaps[j]
  <2>1. CASE i = 1
    BY <1>1, <2>1
  <2>2. CASE i # 1
    <3>1. i - 1 \in 1..Len(snaps) /\ (i - 1) + 1 = i
      BY <1>1, <1>2, <2>2
    <3> QED BY <1>1, <1>4, <3>1
  <2> QED BY <2>1, <2>2
<1> QED BY <1>5, <1>6

LEMMA SnapsStep ==
  ASSUME ComposeAssumption, PressInv, ScreenInv, Next
  PROVE  \A i \in DOMAIN snaps' : snaps'[i] <= versions'
<1>1. versions' \in Nat /\ versions \in Nat /\ versions <= versions'
  BY VersionsGrow DEF ComposeAssumption
<1>2. UNCHANGED snaps \/ \E auto \in BOOLEAN : Captures(auto) /\ snaps' = Recorded
  <2>1. Snapshot(TRUE) \/ Snapshot(FALSE) \/ snaps' = Preserved \/ UNCHANGED snaps
    BY DEF Next, AutoSnapshot, TimePasses, Type, Load, Press, Confirm, Deny, Expires, Cancel, Leave,
       Return, Arm, Armed, Quit, Restore, Ends, EarlySnapshot, hist
  <2> QED BY <2>1 DEF Snapshot, Preserved, hist
<1>3. ASSUME NEW i \in DOMAIN snaps PROVE snaps[i] <= versions'
  <2>1. snaps[i] \in Nat /\ snaps[i] <= versions
    BY RecordedBelow
  <2> QED BY <1>1, <2>1
<1>4. CASE UNCHANGED snaps
  BY <1>3, <1>4
<1>5. ASSUME NEW auto \in BOOLEAN, Captures(auto), snaps' = Recorded
      PROVE  \A i \in DOMAIN snaps' : snaps'[i] <= versions'
  <2>1. draft \in Versions /\ HistoryTypes /\ draft <= versions'
    <3>1. draft \in Versions /\ HistoryTypes /\ draft \in 0..versions
      BY <1>5, DraftsAre DEF Captures, PressInv, PressTypes, ScreenInv
    <3> QED BY <1>1, <3>1
  <2>2. \A i \in DOMAIN snaps' : snaps'[i] = draft \/ \E j \in DOMAIN snaps : snaps'[i] = snaps[j]
    BY <1>5, <2>1, RecordedIs
  <2> QED BY <1>3, <2>1, <2>2
<1> QED BY <1>2, <1>4, <1>5

\* A call that was there, and one that is made.
LEMMA CallsStay ==
  ASSUME ComposeAssumption, PressInv, ScreenInv, Next, NEW s \in sends
  PROVE  s.of \in Versions /\ s.of <= versions' /\ s.nth < done'[s.of].handed
<1>1. s.of \in Versions /\ s.nth \in Nat /\ s.of <= versions /\ s.nth < done[s.of].handed
  BY DEF PressInv, PressTypes, Calls, ScreenInv
<1>2. versions' \in Nat /\ versions \in Nat /\ versions <= versions' /\ s.of \in Nat
  BY <1>1, VersionsGrow DEF ComposeAssumption, Versions
<1>3. done'[s.of] \in Tallies /\ done[s.of] \in Tallies /\ done[s.of].handed <= done'[s.of].handed
  BY <1>1, DoneMoves
<1>4. done'[s.of].handed \in Nat /\ done[s.of].handed \in Nat
  BY <1>3 DEF Tallies
<1> QED BY <1>1, <1>2, <1>3, <1>4

LEMMA CallIsMade ==
  ASSUME ComposeAssumption, PressInv, NEW d \in Versions, Count(d, "handed"), NEW c \in BOOLEAN
  PROVE  /\ Call(d, c).of = d /\ Call(d, c).form /\ Call(d, c).nth < done'[d].handed
         /\ LET s == [Call(d, c) EXCEPT !.form = FALSE, !.here = FALSE]
            IN  s.of = d /\ ~s.here /\ s.nth < done'[d].handed
<1>1. done[d].handed \in Nat /\ done'[d].handed = done[d].handed + 1
  BY Handed DEF PressInv, PressTypes, Tallies
<1>2. done[d].handed < done'[d].handed
  BY <1>1
<1> QED BY <1>2 DEF Call

LEMMA SendsStep ==
  ASSUME ComposeAssumption, PressInv, ScreenInv, Next
  PROVE  \A s \in sends' : s.of <= versions' /\ s.nth < done'[s.of].handed /\ (s.here => s.form /\ mounted')
<1>1. /\ asking # 0 => asking \in Versions /\ asking <= versions' /\ mounted
      /\ pending # 0 => pending \in Versions /\ pending <= versions' /\ mounted
  <2>1. /\ asking # 0 => asking \in Versions /\ asking \in 0..versions /\ mounted
        /\ pending # 0 => pending \in Versions /\ pending \in 0..versions /\ mounted
    BY DraftsAre DEF PressInv, PressTypes, ScreenInv
  <2>2. versions' \in Nat /\ versions \in Nat /\ versions <= versions'
    BY VersionsGrow DEF ComposeAssumption
  <2> QED BY <2>1, <2>2
<1>2. \A s \in sends : s.here => s.form /\ mounted
  BY DEF ScreenInv
<1>3. CASE sends' \subseteq sends /\ (mounted => mounted')
  BY <1>2, <1>3, CallsStay
<1>4. ASSUME NEW d \in Versions, d <= versions', Count(d, "handed"), NEW c \in BOOLEAN,
             sends' = sends \cup {Call(d, c)}, mounted, mounted'
      PROVE  \A s \in sends' : s.of <= versions' /\ s.nth < done'[s.of].handed /\ (s.here => s.form /\ mounted')
  <2>1. /\ Call(d, c).of = d /\ Call(d, c).form /\ Call(d, c).nth < done'[d].handed
    BY <1>4, CallIsMade
  <2> QED BY <1>2, <1>4, <2>1, CallsStay
<1>5. CASE Confirm
  <2>1. asking # 0 /\ mounted' = mounted
    BY <1>5 DEF Confirm
  <2>2. CASE UNCHANGED sends
    BY <1>3, <2>1, <2>2
  <2>3. CASE pending # 0 /\ sends' = sends \cup {Call(pending, TRUE)} /\ Count(pending, "handed")
    BY <1>1, <1>4, <2>1, <2>3
  <2>4. CASE sends' = sends \cup {Call(asking, FALSE)} /\ Count(asking, "handed")
    BY <1>1, <1>4, <2>1, <2>4
  <2> QED BY <1>5, <2>2, <2>3, <2>4 DEF Confirm, Starts
<1>6. CASE Expires
  <2>1. /\ pending # 0 /\ sends' = sends \cup {Call(pending, TRUE)} /\ Count(pending, "handed")
        /\ mounted' = mounted
    BY <1>6 DEF Expires
  <2> QED BY <1>1, <1>4, <2>1
<1>7. CASE Leave
  <2> DEFINE off(s) == [s EXCEPT !.here = FALSE]
  <2>1. \A s \in sends : off(s).of = s.of /\ off(s).nth = s.nth /\ ~off(s).here
    BY DEF PressInv, PressTypes, Calls
  <2>2. SendsLeaving
    BY <1>7 DEF Leave
  <2>3. CASE pending = 0
    <3>1. sends' = {off(s) : s \in sends}
      BY <2>2, <2>3 DEF SendsLeaving
    <3> HIDE DEF off
    <3> QED BY <2>1, <3>1, CallsStay
  <2>4. CASE pending # 0
    <3> DEFINE n == [Call(pending, TRUE) EXCEPT !.form = FALSE, !.here = FALSE]
    <3>1. sends' = {off(s) : s \in sends} \cup {n} /\ Count(pending, "handed")
      BY <2>2, <2>4 DEF SendsLeaving
    <3>2. pending \in Versions /\ pending <= versions'
      BY <1>1, <2>4
    <3>3. n.of = pending /\ ~n.here /\ n.nth < done'[pending].handed
      BY <3>1, <3>2, CallIsMade
    <3> HIDE DEF off, n
    <3> QED BY <2>1, <3>1, <3>2, <3>3, CallsStay
  <2> QED BY <2>3, <2>4
<1>8. CASE ~Confirm /\ ~Expires /\ ~Leave
  <2>1. sends' \subseteq sends
    BY <1>8 DEF Next, AutoSnapshot, TimePasses, Type, Load, Press, Deny, Cancel,
       Return, Arm, Armed, Quit, Restore, Ends
  <2>2. mounted' = mounted \/ mounted' = TRUE
    BY <1>8 DEF Next, AutoSnapshot, TimePasses, Type, Load, Press, Deny, Cancel,
       Return, Arm, Armed, Quit, Restore, Ends
  <2> QED BY <1>3, <2>1, <2>2
<1> QED BY <1>5, <1>6, <1>7, <1>8

\* The flags, and what the screen waits for.
LEMMA ShownStep ==
  ASSUME ScreenInv, Next
  PROVE  /\ recent' \in BOOLEAN /\ keeps' \in BOOLEAN /\ undoable' \in BOOLEAN
         /\ mounted' \in BOOLEAN /\ sending' \in BOOLEAN
         /\ asking' # 0 \/ pending' # 0 => mounted'
<1>0. /\ recent \in BOOLEAN /\ keeps \in BOOLEAN /\ undoable \in BOOLEAN
      /\ mounted \in BOOLEAN /\ sending \in BOOLEAN
      /\ asking # 0 \/ pending # 0 => mounted
  BY DEF ScreenInv
<1>1. keeps' = keeps /\ undoable' = undoable
  BY DEF Next, AutoSnapshot, TimePasses, Type, Load, Press, Confirm, Deny, Expires, Cancel, Leave,
     Return, Arm, Armed, Quit, Restore, Ends, settings
<1>2. recent' \in BOOLEAN
  BY <1>0 DEF Next, AutoSnapshot, TimePasses, Type, Load, Press, Confirm, Deny, Expires, Cancel, Leave,
     Return, Arm, Armed, Quit, Restore, Ends, hist, Snapshot, EarlySnapshot
<1>3. mounted' \in BOOLEAN
  BY <1>0 DEF Next, AutoSnapshot, TimePasses, Type, Load, Press, Confirm, Deny, Expires, Cancel, Leave,
     Return, Arm, Armed, Quit, Restore, Ends
<1>4. sending' \in BOOLEAN
  BY <1>0 DEF Next, AutoSnapshot, TimePasses, Type, Load, Press, Confirm, Deny, Expires, Cancel, Leave,
     Return, Arm, Armed, Quit, Restore, Ends, Starts
<1>5. asking' # 0 \/ pending' # 0 => mounted'
  BY <1>0 DEF Next, AutoSnapshot, TimePasses, Type, Load, Press, Confirm, Deny, Expires, Cancel, Leave,
     Return, Arm, Armed, Quit, Restore, Ends, Starts, Elapses
<1> QED BY <1>0, <1>1, <1>2, <1>3, <1>4, <1>5

\* Nothing is sent, or taken off the form, that was not written.
LEMMA WrittenStep ==
  ASSUME ComposeAssumption, PressInv, ScreenInv, Next
  PROVE  mine' \cup over' \cup kept' \subseteq 1..versions'
<1>1. versions' \in Nat /\ versions \in Nat /\ versions <= versions'
  BY VersionsGrow DEF ComposeAssumption
<1>2. mine \cup over \cup kept \subseteq 1..versions /\ 1..versions \subseteq 1..versions'
  BY <1>1 DEF ScreenInv
<1>3. over' \subseteq over \cup mine
  BY DEF Next, AutoSnapshot, TimePasses, Type, Load, Press, Confirm, Deny, Expires, Cancel, Leave,
     Return, Arm, Armed, Quit, Restore, Ends, Starts, Put, GivesBack
<1>4. mine' = mine \/ (mine' = mine \cup {versions'} /\ versions' = versions + 1)
  BY DEF Next, AutoSnapshot, TimePasses, Type, Load, Press, Confirm, Deny, Expires, Cancel, Leave,
     Return, Arm, Armed, Quit, Restore, Ends, New
<1>5. kept' \subseteq kept \cup {s.of : s \in sends} \cup ({arming} \ {0})
  BY DEF Next, AutoSnapshot, TimePasses, Type, Load, Press, Confirm, Deny, Expires, Cancel, Leave,
     Return, Arm, Armed, Quit, Restore, Ends
<1>6. {s.of : s \in sends} \subseteq 1..versions'
  <2>1. \A s \in sends : s.of \in Versions /\ s.of <= versions'
    BY CallsStay
  <2> QED BY <1>1, <2>1 DEF Versions
<1>7. {arming} \ {0} \subseteq 1..versions'
  BY <1>1 DEF ScreenInv
<1>8. mine' \subseteq 1..versions'
  BY <1>1, <1>2, <1>4
<1> QED BY <1>2, <1>3, <1>5, <1>6, <1>7, <1>8

LEMMA ScreenStep ==
  ASSUME ComposeAssumption, PressInv, ScreenInv, [Next]_vars PROVE ScreenInv'
<1>1. CASE Next
  <2>1. versions' \in 0..MaxVersions
    BY <1>1, VersionsGrow
  <2>2. \A v \in Versions : done'[v].pressed <= MaxPresses
    BY <1>1, DoneMoves DEF ScreenInv
  <2> QED BY <1>1, <2>1, <2>2, FormStep, SnapsStep, SendsStep, ShownStep, WrittenStep DEF ScreenInv, Versions
<1>2. CASE UNCHANGED vars
  BY <1>2 DEF ScreenInv, vars, hist, settings, counts
<1> QED BY <1>1, <1>2

LEMMA ScreenIsTyped ==
  ASSUME ComposeAssumption, PressInv, HistoryHasSent, ScreenInv PROVE TypeOK
<1>1. snaps \in BoundedSeq(Versions, Cap)
  <2>1. snaps \in Seq(Versions) /\ Len(snaps) <= Cap /\ Len(snaps) \in Nat /\ Cap \in Nat
    BY DEF PressInv, HistoryTypes, HistoryHasSent, ComposeAssumption
  <2>2. snaps \in [1..Len(snaps) -> Versions] /\ Len(snaps) \in 0..Cap
    BY <2>1
  <2> QED BY <2>2 DEF BoundedSeq, SeqOf
<1>2. {draft, asking, pending, arming} \subseteq 0..versions /\ versions \in 0..MaxVersions
  BY DEF ScreenInv
<1>3. {recent, keeps, undoable, mounted, sending} \subseteq BOOLEAN
  BY DEF ScreenInv
<1>4. \A s \in sends : s.of \in 1..versions /\ s.nth < done[s.of].handed /\ (s.here => s.form /\ mounted)
  <2>1. \A s \in sends : s.of \in Versions
    BY DEF PressInv, PressTypes, Calls
  <2>2. versions \in Nat /\ \A s \in sends : s.of <= versions
    BY DEF ScreenInv
  <2> QED BY <2>1, <2>2 DEF ScreenInv, Versions
<1>5. \A v \in Versions : done[v].pressed \in 0..MaxPresses
  <2>1. ASSUME NEW v \in Versions PROVE done[v].pressed \in Nat /\ done[v].pressed <= MaxPresses
    BY DEF PressInv, PressTypes, Tallies, ScreenInv
  <2> QED BY <2>1 DEF ComposeAssumption
<1> QED BY <1>1, <1>2, <1>3, <1>4, <1>5 DEF TypeOK, ScreenInv

\* Every variable of the compose screen has its type: no draft or call is of a version that was
\* never written, a call is of a press that was handed over, and one that expects the screen has it
\* (sendDraftNow, startUndoWindow, the cleanup of the screen).
THEOREM ScreenIsTypedHolds == ASSUME ComposeAssumption PROVE Spec => []TypeOK
<1>1. Init => PressInv /\ HistoryHasSent /\ ScreenInv
  BY InitPress, InitHistory, InitScreen
<1>2. PressInv /\ HistoryHasSent /\ ScreenInv /\ [Next]_vars => (PressInv /\ HistoryHasSent /\ ScreenInv)'
  BY StepKeeps, HistoryStep, ScreenStep
<1>3. PressInv /\ HistoryHasSent /\ ScreenInv => TypeOK
  BY ScreenIsTyped
<1> QED BY <1>1, <1>2, <1>3, PTL DEF Spec

-----------------------------------------------------------------------------
(* Types of the inbox *)

Listing(X) == UNION {[S -> X] : S \in SUBSET Mail}
Message == [seen : BOOLEAN, tag : BOOLEAN, val : 1..2]
Mark    == [entry : Nat, seen : BOOLEAN, val : 1..2]
Posted  == [mail : Mail, seen : BOOLEAN, entry : Nat, by : Slots \cup {None}]
Syncing == [step : {"flush", "listed"}, row : Box!Rows, was : SUBSET (Mail \cup {None})]
Deeds == [set : 0..MaxActs, images : BOOLEAN, gone : SUBSET Mail, emptied : SUBSET Mail,
          back : SUBSET Mail, archived : SUBSET (Mail \cup {None}), tagged : SUBSET Mail,
          read : SUBSET Mail, unread : SUBSET Mail, heard : SUBSET Mail]

RowTypes ==
  /\ srv \in [box : SUBSET Mail, seen : SUBSET Mail, val : 1..2]
  /\ row \in Box!Rows /\ held \in Box!Rows /\ form \in Box!Rows \cup {None}

WayTypes ==
  /\ queue \in Listing(Mark) /\ pushes \subseteq Posted
  /\ syncs \in [Slots -> Syncing \cup {None}]
  /\ busy \in BOOLEAN /\ rang \subseteq Mail /\ base \in (SUBSET Mail) \cup {None}

CountTypes ==
  /\ choices \in Deeds /\ told \in [Mail -> 0..3]
  /\ acts \in 0..MaxActs /\ faults \in 0..MaxFaults

BoxTypes == RowTypes /\ WayTypes /\ CountTypes

\* What is in the bin is not listed.
Apart == Box!Listed \cap DOMAIN row.removed = {}

\* What the user removed is in the bin.
BinInv == choices.gone \subseteq DOMAIN row.removed

\* The switch for remote images is where the user put it, in the dialog too.
ImagesInv == row.images = choices.images /\ (form # None => form.images = row.images)

BoxInv == BoxTypes /\ Apart /\ BinInv /\ ImagesInv

-----------------------------------------------------------------------------
(* What was read, where the syncs do not overlap *)

OneSync == \A s, t \in Slots : s = t

\* A box that is never renumbered, and a bin that is not emptied.
Reads == OneSync /\ "renumber" \notin Does /\ "empty" \notin Does

Numbered(r) ==
  /\ \A m \in DOMAIN r.msgs : r.msgs[m].val = 1
  /\ \A m \in DOMAIN r.removed : r.removed[m].val = 1

\* Every uid has the meaning it began with.
Numbers ==
  /\ srv.val = 1 /\ Numbered(row) /\ (form # None => Numbered(form)) /\ Numbered(held)
  /\ \A s \in Slots : syncs[s] # None => Numbered(syncs[s].row)

\* What was read is there, and read wherever it is; no mark says otherwise.
ReadMarks ==
  \A m \in choices.read :
    /\ m \in DOMAIN row.msgs \cup DOMAIN row.removed
    /\ m \in DOMAIN row.msgs => row.msgs[m].seen
    /\ m \in DOMAIN row.removed => row.removed[m].seen
    /\ m \in DOMAIN queue => queue[m].seen

\* The dialog has it too: what it writes back takes nothing back.
FormRead ==
  form # None =>
    /\ DOMAIN form.removed \subseteq DOMAIN row.removed
    /\ \A m \in choices.read \ DOMAIN row.removed : m \in DOMAIN form.msgs /\ form.msgs[m].seen

Known == DOMAIN row.msgs \cup DOMAIN row.removed \cup (IF form = None THEN {} ELSE DOMAIN form.msgs)

\* A list from the server has whatever the app knows of.
ListsReach ==
  /\ Known \cup DOMAIN held.removed \subseteq srv.box
  /\ \A s \in Slots : syncs[s] # None => DOMAIN syncs[s].row.removed \subseteq srv.box
  /\ \A s \in Slots : syncs[s] # None /\ syncs[s].step = "listed" =>
       Known \subseteq DOMAIN syncs[s].row.msgs /\ DOMAIN syncs[s].row.msgs \subseteq srv.box

ReadInv == Numbers /\ ReadMarks /\ FormRead /\ ListsReach

-----------------------------------------------------------------------------
(* What was announced, where nothing is removed and the dialog stays closed *)

Announces == OneSync /\ Does \cap {"bin", "empty", "settings", "renumber"} = {}

\* What is listed was announced, and once, or was there before the first sync.
ToldInv ==
  /\ DOMAIN row.msgs = {m \in Mail : told[m] # 0} /\ \A m \in Mail : told[m] # 2
  /\ ~row.synced => DOMAIN row.msgs = {}
  /\ DOMAIN row.msgs \subseteq srv.box /\ srv.seen \subseteq DOMAIN row.msgs
  /\ DOMAIN queue \subseteq DOMAIN row.msgs /\ \A p \in pushes : p.mail \in DOMAIN row.msgs

\* The next sync is compared with what is listed.
BaseInv ==
  IF base = None THEN DOMAIN held.msgs = DOMAIN row.msgs /\ held.synced = row.synced
  ELSE base = DOMAIN row.msgs /\ row.synced

NothingRemoved ==
  /\ form = None /\ DOMAIN row.removed = {} /\ DOMAIN held.removed = {}
  /\ \A s \in Slots : syncs[s] # None => DOMAIN syncs[s].row.removed = {}

\* A list holds what is listed; what is read in it is no news.
NewsListed ==
  \A s \in Slots : syncs[s] # None =>
    /\ base = None => syncs[s].was = IF row.synced THEN DOMAIN row.msgs ELSE {None}
    /\ syncs[s].step = "listed" =>
         /\ syncs[s].row.synced /\ DOMAIN row.msgs \subseteq DOMAIN syncs[s].row.msgs
         /\ DOMAIN syncs[s].row.msgs \subseteq srv.box
         /\ \A m \in DOMAIN syncs[s].row.msgs : syncs[s].row.msgs[m].seen => m \in DOMAIN row.msgs

NewsInv == ToldInv /\ BaseInv /\ NothingRemoved /\ NewsListed

LEMMA ListingIs ==
  ASSUME NEW X, NEW f
  PROVE  f \in Listing(X) <=> DOMAIN f \subseteq Mail /\ f \in [DOMAIN f -> X]
BY DEF Listing

LEMMA OnlyIs ==
  ASSUME NEW X, NEW f \in Listing(X), NEW S
  PROVE  /\ Box!Only(f, S) \in Listing(X)
         /\ DOMAIN Box!Only(f, S) = S \cap DOMAIN f
         /\ \A m \in S \cap DOMAIN f : Box!Only(f, S)[m] = f[m]
BY ListingIs DEF Box!Only

LEMMA OverIs ==
  ASSUME NEW X, NEW f \in Listing(X), NEW g \in Listing(X)
  PROVE  /\ Box!Over(f, g) \in Listing(X)
         /\ DOMAIN Box!Over(f, g) = DOMAIN f \cup DOMAIN g
         /\ \A m \in DOMAIN f : Box!Over(f, g)[m] = f[m]
         /\ \A m \in DOMAIN g \ DOMAIN f : Box!Over(f, g)[m] = g[m]
BY ListingIs DEF Box!Over

LEMMA PutIs ==
  ASSUME NEW X, NEW f \in Listing(X), NEW m \in Mail, NEW x \in X
  PROVE  /\ Box!Put(m, x, f) \in Listing(X)
         /\ DOMAIN Box!Put(m, x, f) = {m} \cup DOMAIN f
         /\ Box!Put(m, x, f)[m] = x
         /\ \A n \in DOMAIN f \ {m} : Box!Put(m, x, f)[n] = f[n]
<1> DEFINE one == [n \in {m} |-> x]
<1>1. one \in Listing(X) /\ DOMAIN one = {m} /\ one[m] = x
  BY ListingIs
<1> HIDE DEF one
<1>2. Box!Put(m, x, f) = Box!Over(one, f)
  BY DEF Box!Put, one
<1> QED BY <1>1, <1>2, OverIs

LEMMA MessagePutIs ==
  ASSUME NEW f \in Listing(Message), NEW m \in Mail, NEW x \in Message
  PROVE  /\ Box!Put(m, x, f) \in Listing(Message)
         /\ DOMAIN Box!Put(m, x, f) = {m} \cup DOMAIN f
         /\ Box!Put(m, x, f)[m] = x
<1> DEFINE X == Message
           put == Box!Put(m, x, f)
<1>1. f \in Listing(X) /\ x \in X
  OBVIOUS
<1> HIDE DEF X
<1>2. /\ put \in Listing(X)
      /\ DOMAIN put = {m} \cup DOMAIN f
      /\ put[m] = x
      /\ \A n \in DOMAIN f \ {m} : put[n] = f[n]
  <2> DEFINE one == [n \in {m} |-> x]
  <2>1. one \in Listing(X) /\ DOMAIN one = {m} /\ one[m] = x
    BY <1>1, ListingIs
  <2> HIDE DEF one
  <2>2. put = Box!Over(one, f)
    BY DEF Box!Put, one
  <2> QED BY <1>1, <2>1, <2>2, OverIs
<1> QED BY <1>2 DEF X

LEMMA RowIs ==
  ASSUME NEW r
  PROVE  r \in Box!Rows =>
           /\ r.set \in 0..MaxActs /\ r.images \in BOOLEAN /\ r.msgs \in Listing(Message)
           /\ r.removed \in Listing(Message) /\ r.archived \in SUBSET (Mail \cup {None})
           /\ r.synced \in BOOLEAN /\ r.failed \in BOOLEAN /\ r.val \in 0..2
BY DEF Box!Rows, Box!Messages, Listing, Message

\* Changing some fields of a row.
LEMMA RowMade ==
  ASSUME NEW r \in Box!Rows, NEW images \in BOOLEAN, NEW removed \in Listing(Message),
         NEW archived \in SUBSET (Mail \cup {None}), NEW msgs \in Listing(Message), NEW u,
         u = [r EXCEPT !.images = images, !.removed = removed, !.archived = archived,
                       !.msgs = msgs]
  PROVE  /\ u \in Box!Rows
         /\ u.images = images /\ u.removed = removed /\ u.archived = archived /\ u.msgs = msgs
         /\ u.set = r.set /\ u.synced = r.synced /\ u.failed = r.failed /\ u.val = r.val
BY DEF Box!Rows, Box!Messages, Listing, Message

LEMMA MergedIs ==
  ASSUME row \in Box!Rows, queue \in Listing(Mark), NEW msgs \in Listing(Message)
  PROVE  /\ Box!MergeSeenFlags(msgs) \in Listing(Message)
         /\ DOMAIN Box!MergeSeenFlags(msgs) = DOMAIN msgs
         /\ \A m \in DOMAIN msgs :
              /\ Box!MergeSeenFlags(msgs)[m].tag = msgs[m].tag
              /\ Box!MergeSeenFlags(msgs)[m].val = msgs[m].val
              /\ Box!MergeSeenFlags(msgs)[m].seen =
                   IF m \in DOMAIN queue /\ queue[m].val = msgs[m].val THEN queue[m].seen
                   ELSE \/ msgs[m].seen
                        \/ m \in DOMAIN row.msgs /\ row.msgs[m].seen /\ row.msgs[m].val = msgs[m].val
<1> DEFINE read(m) == m \in DOMAIN row.msgs /\ row.msgs[m].seen /\ row.msgs[m].val = msgs[m].val
           seen(m) == IF m \in DOMAIN queue /\ queue[m].val = msgs[m].val THEN queue[m].seen
                      ELSE msgs[m].seen \/ read(m)
           merged == [m \in DOMAIN msgs |-> [msgs[m] EXCEPT !.seen = seen(m)]]
<1>1. Box!MergeSeenFlags(msgs) = merged
  BY DEF Box!MergeSeenFlags
<1>2. row.msgs \in Listing(Message)
  BY RowIs
<1>3. ASSUME NEW m \in DOMAIN msgs PROVE seen(m) \in BOOLEAN /\ msgs[m] \in Message /\ m \in Mail
  <2>1. msgs[m] \in Message /\ m \in Mail
    BY ListingIs
  <2>2. m \in DOMAIN queue => queue[m] \in Mark
    BY ListingIs
  <2>3. m \in DOMAIN row.msgs => row.msgs[m] \in Message
    BY <1>2, ListingIs
  <2> QED BY <2>1, <2>2, <2>3 DEF Mark, Message
<1> HIDE DEF seen
<1>4. ASSUME NEW m \in DOMAIN msgs
      PROVE  /\ merged[m] \in Message /\ merged[m].tag = msgs[m].tag /\ merged[m].val = msgs[m].val
             /\ merged[m].seen = seen(m)
  BY <1>3 DEF Message
<1>5. merged \in Listing(Message) /\ DOMAIN merged = DOMAIN msgs
  BY <1>3, <1>4, ListingIs
<1> HIDE DEF merged
<1> QED BY <1>1, <1>4, <1>5 DEF seen

\* What an upsert makes of a row, from the dialog or from a sync.
LEMMA UpsertIs ==
  ASSUME row \in Box!Rows, queue \in Listing(Mark), NEW in \in Box!Rows, NEW sync \in BOOLEAN
  PROVE  LET u == Box!UpsertInboxAccount(in, sync)
         IN  /\ u \in Box!Rows
             /\ u.images = IF sync THEN row.images ELSE in.images
             /\ u.removed = Box!Over(row.removed, in.removed)
             /\ DOMAIN u.removed = DOMAIN row.removed \cup DOMAIN in.removed
             /\ DOMAIN u.msgs = DOMAIN in.msgs \ DOMAIN u.removed
             /\ \A m \in DOMAIN u.msgs :
                  u.msgs[m] = IF sync THEN Box!MergeSeenFlags(in.msgs)[m] ELSE in.msgs[m]
             /\ u.set = in.set /\ u.synced = in.synced /\ u.failed = in.failed /\ u.val = in.val
<1> DEFINE removed == Box!Over(row.removed, in.removed)
           merged == IF sync THEN Box!MergeSeenFlags(in.msgs) ELSE in.msgs
           images == IF sync THEN row.images ELSE in.images
           archived == Box!CarryArchivedKeys(in.archived)
           msgs == Box!Only(merged, Mail \ DOMAIN removed)
           u == [in EXCEPT !.images = images, !.removed = removed, !.archived = archived,
                           !.msgs = msgs]
<1>1. Box!UpsertInboxAccount(in, sync) = u
  BY DEF Box!UpsertInboxAccount, Box!MergeRemoved, Box!Preferences
<1>2. /\ removed \in Listing(Message)
      /\ DOMAIN removed = DOMAIN row.removed \cup DOMAIN in.removed
  <2> DEFINE f == row.removed
             g == in.removed
  <2>1. f \in Listing(Message) /\ g \in Listing(Message)
    BY RowIs
  <2> HIDE DEF f, g
  <2>2. Box!Over(f, g) \in Listing(Message) /\ DOMAIN Box!Over(f, g) = DOMAIN f \cup DOMAIN g
    BY <2>1, OverIs
  <2> QED BY <2>2 DEF f, g
<1>3. merged \in Listing(Message) /\ DOMAIN merged = DOMAIN in.msgs /\ DOMAIN in.msgs \subseteq Mail
  BY RowIs, MergedIs, ListingIs
<1>4. images \in BOOLEAN /\ archived \in SUBSET (Mail \cup {None})
  BY RowIs DEF Box!CarryArchivedKeys
<1> HIDE DEF merged, removed
<1>5. /\ msgs \in Listing(Message) /\ DOMAIN msgs = DOMAIN in.msgs \ DOMAIN removed
      /\ \A m \in DOMAIN msgs : msgs[m] = merged[m]
  BY <1>3, OnlyIs
<1> HIDE DEF msgs, images, archived
<1>6. /\ u \in Box!Rows
      /\ u.images = images /\ u.removed = removed /\ u.archived = archived /\ u.msgs = msgs
      /\ u.set = in.set /\ u.synced = in.synced /\ u.failed = in.failed /\ u.val = in.val
  BY <1>2, <1>4, <1>5 DEF Box!Rows, Box!Messages, Listing, Message
<1> HIDE DEF u
<1> QED BY <1>1, <1>2, <1>5, <1>6 DEF merged, removed, images

LEMMA BoxAssumed ==
  ASSUME Box!InboxAssumption
  PROVE  /\ Ruled \subseteq Mail /\ MaxActs \in Nat /\ MaxFaults \in Nat
         /\ None \notin Slots /\ None \notin Mail /\ None \notin SUBSET Mail
BY DEF Box!InboxAssumption

LEMMA EmptyIs ==
  ASSUME NEW X PROVE Box!Empty \in Listing(X) /\ DOMAIN Box!Empty = {}
BY ListingIs DEF Box!Empty

LEMMA InitBoxTypes == ASSUME Box!InboxAssumption, Box!Init PROVE BoxTypes
<1> PICK box \in SUBSET Mail, synced \in BOOLEAN,
         keys \in IF "archive" \in Does THEN {Box!NoKeys, {}} ELSE {Box!NoKeys} :
         Box!Init!(box, synced, keys)
  BY DEF Box!Init
<1> DEFINE first == [m \in box |-> [seen |-> FALSE, tag |-> FALSE, val |-> 1]]
           msgs  == IF synced THEN first ELSE Box!Empty
<1>1. first \in Listing(Message)
  <2>1. [seen |-> FALSE, tag |-> FALSE, val |-> 1] \in Message
    BY DEF Message
  <2>2. DOMAIN first = box /\ first \in [box -> Message]
    BY <2>1
  <2> HIDE DEF first
  <2> QED BY <2>2, ListingIs
<1>2. msgs \in Listing(Message) /\ Box!Empty \in Listing(Message) /\ Box!Empty \in Listing(Mark)
  <2>1. Box!Empty \in Listing(Message) /\ Box!Empty \in Listing(Mark)
    BY EmptyIs
  <2> QED BY <1>1, <2>1
<1>3. keys \in SUBSET (Mail \cup {None})
  BY DEF Box!NoKeys
<1> HIDE DEF msgs
<1>4. row \in Box!Rows
  BY <1>2, <1>3, BoxAssumed DEF msgs, Box!Rows, Box!Messages, Listing, Message
<1>5. RowTypes
  BY <1>4 DEF RowTypes
<1>6. WayTypes
  <2>1. queue = Box!Empty /\ pushes = {} /\ syncs = [s \in Slots |-> None] /\ busy = FALSE
        /\ base = None /\ rang = {}
    OBVIOUS
  <2>2. syncs \in [Slots -> Syncing \cup {None}]
    BY <2>1
  <2> QED BY <1>2, <2>1, <2>2 DEF WayTypes
<1>7. CountTypes
  BY BoxAssumed DEF CountTypes, Deeds, Box!Old
<1> QED BY <1>5, <1>6, <1>7 DEF BoxTypes

-----------------------------------------------------------------------------
(* What the steps do to the row *)

LEMMA SyncsAre ==
  ASSUME BoxTypes, NEW s \in Slots, syncs[s] # None
  PROVE  /\ syncs[s].step \in {"flush", "listed"} /\ syncs[s].row \in Box!Rows
         /\ syncs[s].was \in SUBSET (Mail \cup {None})
         /\ syncs[s] = [step |-> syncs[s].step, row |-> syncs[s].row, was |-> syncs[s].was]
BY DEF BoxTypes, WayTypes, Syncing

\* A sync that begins.
LEMMA StartsIs ==
  ASSUME BoxTypes, NEW s \in Slots, NEW config \in Box!Rows, Box!Starts(s, config)
  PROVE  LET was == IF config.synced THEN DOMAIN config.msgs ELSE {None}
         IN  /\ syncs[s] = None /\ busy' = TRUE
             /\ syncs' = [syncs EXCEPT ![s] = [step |-> "flush", row |-> config, was |-> was]]
             /\ syncs' \in [Slots -> Syncing \cup {None}]
             /\ pushes \subseteq pushes' /\ pushes' \subseteq Posted
             /\ \A p \in pushes' \ pushes : p.mail \in DOMAIN queue /\ p.seen = queue[p.mail].seen
             /\ queue' \in Listing(Mark) /\ DOMAIN queue' = Box!Owed
             /\ \A m \in DOMAIN queue' : queue'[m] = queue[m]
<1> DEFINE was == IF config.synced THEN DOMAIN config.msgs ELSE {None}
<1>1. was \in SUBSET (Mail \cup {None})
  <2>1. DOMAIN config.msgs \subseteq Mail
    BY RowIs, ListingIs
  <2> QED BY <2>1
<1> HIDE DEF was
<1>2. [step |-> "flush", row |-> config, was |-> was] \in Syncing
  BY <1>1 DEF Syncing
<1>3. /\ syncs[s] = None /\ busy' = TRUE
      /\ syncs' = [syncs EXCEPT ![s] = [step |-> "flush", row |-> config, was |-> was]]
  BY DEF Box!Starts, was
<1>4. syncs' \in [Slots -> Syncing \cup {None}]
  <2>1. syncs \in [Slots -> Syncing \cup {None}]
    BY DEF BoxTypes, WayTypes
  <2> QED BY <1>2, <1>3, <2>1
<1>5. queue \in Listing(Mark) /\ pushes \subseteq Posted /\ Box!Owed \subseteq DOMAIN queue
  BY DEF BoxTypes, WayTypes, Box!Owed
<1>6. \A m \in DOMAIN queue : queue[m] \in Mark /\ m \in Mail
  BY <1>5, ListingIs
<1>7. Box!Retries(s) \subseteq Posted
      /\ \A p \in Box!Retries(s) : p.mail \in DOMAIN queue /\ p.seen = queue[p.mail].seen
  BY <1>5, <1>6 DEF Box!Retries, Posted, Mark
<1>8. pushes' = pushes \cup Box!Retries(s) /\ queue' = Box!Only(queue, Box!Owed)
  BY DEF Box!Starts
<1>9. /\ queue' \in Listing(Mark) /\ DOMAIN queue' = Box!Owed
      /\ \A m \in DOMAIN queue' : queue'[m] = queue[m]
  <2> DEFINE owed == Box!Owed
             left == queue'
  <2>1. owed \subseteq DOMAIN queue /\ left = Box!Only(queue, owed) /\ owed \cap DOMAIN queue = owed
    BY <1>5, <1>8
  <2> HIDE DEF owed, left
  <2>2. /\ Box!Only(queue, owed) \in Listing(Mark) /\ DOMAIN Box!Only(queue, owed) = owed \cap DOMAIN queue
        /\ \A m \in owed \cap DOMAIN queue : Box!Only(queue, owed)[m] = queue[m]
    BY <1>5, OnlyIs
  <2>3. left \in Listing(Mark) /\ DOMAIN left = owed /\ \A m \in DOMAIN left : left[m] = queue[m]
    BY <2>1, <2>2
  <2> QED BY <2>3 DEF left, owed
<1> QED BY <1>3, <1>4, <1>5, <1>7, <1>8, <1>9 DEF was

\* The row as the server lists it.
LEMMA FetchedIs ==
  ASSUME BoxTypes, NEW config \in Box!Rows
  PROVE  LET in == Box!Fetched(config)
         IN  /\ in \in Box!Rows /\ DOMAIN in.msgs = srv.box
             /\ \A m \in srv.box : (in.msgs[m].seen <=> m \in srv.seen) /\ in.msgs[m].val = srv.val
             /\ in.removed = config.removed /\ in.val = srv.val /\ in.synced = TRUE
<1> DEFINE tagged(m) == config.val = srv.val /\ m \in DOMAIN config.msgs /\ config.msgs[m].tag
           listed == [m \in srv.box |-> [seen |-> m \in srv.seen, val |-> srv.val, tag |-> tagged(m)]]
<1>1. srv \in [box : SUBSET Mail, seen : SUBSET Mail, val : 1..2]
  BY DEF BoxTypes, RowTypes
<1>2. \A m \in Mail : tagged(m) \in BOOLEAN
  <2>1. config.msgs \in Listing(Message)
    BY RowIs
  <2>2. \A m \in DOMAIN config.msgs : config.msgs[m] \in Message
    BY <2>1, ListingIs
  <2> QED BY <2>2 DEF Message
<1> HIDE DEF tagged
<1>3. \A m \in srv.box :
        /\ listed[m] \in Message /\ (listed[m].seen <=> m \in srv.seen) /\ listed[m].val = srv.val
  <2>1. ASSUME NEW m \in srv.box
        PROVE  listed[m] \in Message /\ (listed[m].seen <=> m \in srv.seen) /\ listed[m].val = srv.val
    <3> DEFINE seen == m \in srv.seen
               tag  == tagged(m)
               val  == srv.val
               one  == listed[m]
    <3>1. one = [seen |-> seen, val |-> val, tag |-> tag]
      OBVIOUS
    <3>2. seen \in BOOLEAN /\ tag \in BOOLEAN /\ val \in 1..2
      BY <1>1, <1>2
    <3> HIDE DEF seen, tag, val, one
    <3>3. one.seen = seen /\ one.val = val /\ one \in Message
      BY <3>1, <3>2 DEF Message
    <3>4. one.seen <=> seen
      BY <3>3
    <3> QED BY <3>2, <3>3, <3>4 DEF one, seen, val
  <2> HIDE DEF listed
  <2> QED BY <2>1
<1>4. listed \in Listing(Message) /\ DOMAIN listed = srv.box
  BY <1>1, <1>3, ListingIs
<1>5. Box!Fetched(config) =
        [config EXCEPT !.val = srv.val, !.synced = TRUE, !.failed = FALSE, !.msgs = listed]
  BY DEF Box!Fetched, tagged
<1> HIDE DEF listed
<1>6. srv.val \in 0..2
  BY <1>1
<1>7. /\ Box!Fetched(config) \in Box!Rows /\ Box!Fetched(config).msgs = listed
      /\ Box!Fetched(config).removed = config.removed /\ Box!Fetched(config).val = srv.val
      /\ Box!Fetched(config).synced = TRUE
  <2> DEFINE in == Box!Fetched(config)
             val == srv.val
  <2>1. in = [config EXCEPT !.val = val, !.synced = TRUE, !.failed = FALSE, !.msgs = listed]
        /\ val \in 0..2
    BY <1>5, <1>6
  <2> HIDE DEF in, val
  <2>2. listed \in Box!Messages
    BY <1>4 DEF Box!Messages, Listing, Message
  <2>3. in \in Box!Rows /\ in.msgs = listed /\ in.removed = config.removed /\ in.val = val /\ in.synced = TRUE
    BY <2>1, <2>2 DEF Box!Rows
  <2> QED BY <2>3 DEF in, val
<1> QED BY <1>3, <1>4, <1>7

\* What lands of a sync.
LEMMA LandIs ==
  ASSUME BoxTypes, NEW s \in Slots, Box!Land(s)
  PROVE  LET in == syncs[s].row
         IN  /\ row' \in Box!Rows /\ row'.images = row.images /\ row'.removed = Box!Over(row.removed, in.removed)
             /\ DOMAIN row'.removed = DOMAIN row.removed \cup DOMAIN in.removed
             /\ DOMAIN row'.msgs = DOMAIN in.msgs \ DOMAIN row'.removed
             /\ \A m \in DOMAIN row'.msgs :
                  /\ row'.msgs[m].val = in.msgs[m].val
                  /\ row'.msgs[m].seen = Box!MergeSeenFlags(in.msgs)[m].seen
             /\ row'.synced = in.synced /\ row'.val = in.val
<1> DEFINE in == syncs[s].row
           u == Box!UpsertInboxAccount(in, TRUE)
           msgs == [m \in DOMAIN u.msgs |-> IF m \in Box!AutoTagged(s) THEN [u.msgs[m] EXCEPT !.tag = TRUE]
                                            ELSE u.msgs[m]]
<1>1. in \in Box!Rows /\ row \in Box!Rows /\ queue \in Listing(Mark)
  BY SyncsAre DEF BoxTypes, RowTypes, WayTypes, Box!Land
<1>2. row' = [u EXCEPT !.msgs = msgs]
  BY DEF Box!Land
<1>3. /\ u \in Box!Rows /\ u.images = row.images /\ u.removed = Box!Over(row.removed, in.removed)
      /\ DOMAIN u.removed = DOMAIN row.removed \cup DOMAIN in.removed
      /\ DOMAIN u.msgs = DOMAIN in.msgs \ DOMAIN u.removed
      /\ \A m \in DOMAIN u.msgs : u.msgs[m] = Box!MergeSeenFlags(in.msgs)[m]
      /\ u.synced = in.synced /\ u.val = in.val
  <2> HIDE DEF in
  <2> QED BY <1>1, UpsertIs
<1>4. /\ \A m \in DOMAIN in.msgs : Box!MergeSeenFlags(in.msgs)[m].val = in.msgs[m].val
      /\ u.msgs \in Listing(Message)
  <2> HIDE DEF in, u
  <2>1. in.msgs \in Listing(Message) /\ u.msgs \in Listing(Message)
    BY <1>1, <1>3, RowIs
  <2> DEFINE listed == in.msgs
  <2>2. listed \in Listing(Message)
    BY <2>1
  <2> HIDE DEF listed
  <2>3. \A m \in DOMAIN listed : Box!MergeSeenFlags(listed)[m].val = listed[m].val
    BY <1>1, <2>2, MergedIs
  <2> QED BY <2>1, <2>3 DEF listed
<1> HIDE DEF in, u
<1>5. \A m \in DOMAIN u.msgs : u.msgs[m] \in Message
  BY <1>4, ListingIs
<1>6. \A m \in DOMAIN u.msgs : /\ msgs[m] \in Message /\ msgs[m].val = u.msgs[m].val
                               /\ msgs[m].seen = u.msgs[m].seen
  BY <1>5 DEF Message
<1>7. msgs \in Listing(Message) /\ DOMAIN msgs = DOMAIN u.msgs
  BY <1>4, <1>6, ListingIs
<1> HIDE DEF msgs
<1>8. /\ row' \in Box!Rows /\ row'.images = u.images /\ row'.removed = u.removed /\ row'.msgs = msgs
      /\ row'.synced = u.synced /\ row'.val = u.val
  BY <1>2, <1>3, <1>7 DEF Box!Rows, Box!Messages, Listing, Message
<1> QED BY <1>3, <1>4, <1>6, <1>7, <1>8 DEF in

\* A sync that fails writes the row as it is.
LEMMA FailIs ==
  ASSUME BoxTypes, Apart, NEW s \in Slots, Box!Fail(s)
  PROVE  /\ row' \in Box!Rows /\ row'.images = row.images
         /\ DOMAIN row'.removed = DOMAIN row.removed
         /\ \A m \in DOMAIN row.removed : row'.removed[m] = row.removed[m]
         /\ DOMAIN row'.msgs = DOMAIN row.msgs
         /\ \A m \in DOMAIN row'.msgs : row'.msgs[m] = Box!MergeSeenFlags(row.msgs)[m]
         /\ row'.synced = row.synced /\ row'.val = row.val
<1> DEFINE in == Box!WithError(s)
           u == Box!UpsertInboxAccount(in, TRUE)
<1>1. row \in Box!Rows /\ queue \in Listing(Mark)
  BY DEF BoxTypes, RowTypes, WayTypes
<1>2. /\ in \in Box!Rows /\ in.images = row.images /\ in.removed = row.removed /\ in.msgs = row.msgs
      /\ in.synced = row.synced /\ in.val = row.val
  BY <1>1 DEF Box!WithError, Box!Rows
<1>3. row' = u
  BY DEF Box!Fail
<1>4. /\ u \in Box!Rows /\ u.images = row.images /\ u.removed = Box!Over(row.removed, in.removed)
      /\ DOMAIN u.removed = DOMAIN row.removed \cup DOMAIN in.removed
      /\ DOMAIN u.msgs = DOMAIN in.msgs \ DOMAIN u.removed
      /\ \A m \in DOMAIN u.msgs : u.msgs[m] = Box!MergeSeenFlags(in.msgs)[m]
      /\ u.synced = in.synced /\ u.val = in.val
  <2> HIDE DEF in
  <2> QED BY <1>1, <1>2, UpsertIs
<1> HIDE DEF in, u
<1>5. \A m \in DOMAIN row.removed : u.removed[m] = row.removed[m]
  BY <1>2, <1>4 DEF Box!Over
<1> QED BY <1>2, <1>3, <1>4, <1>5 DEF Apart, Box!Listed

\* A mark at one message of the row.
LEMMA MarkIs ==
  ASSUME BoxTypes, NEW m \in Mail, NEW seen \in BOOLEAN, Box!MarkRead(m, seen)
  PROVE  LET mark == [entry |-> acts', seen |-> seen, val |-> row.msgs[m].val]
         IN  /\ row' \in Box!Rows /\ row'.images = row.images /\ row'.removed = row.removed
             /\ DOMAIN row'.msgs = DOMAIN row.msgs /\ m \in DOMAIN row.msgs
             /\ row'.msgs[m].seen = seen
             /\ \A n \in DOMAIN row.msgs \ {m} : row'.msgs[n] = row.msgs[n]
             /\ row'.synced = row.synced /\ row'.val = row.val
             /\ row'.msgs[m].val = row.msgs[m].val
             /\ mark \in Mark /\ queue' = Box!Put(m, mark, queue)
             /\ queue' \in Listing(Mark) /\ DOMAIN queue' = {m} \cup DOMAIN queue /\ queue'[m] = mark
             /\ \A n \in DOMAIN queue \ {m} : queue'[n] = queue[n]
<1> DEFINE one  == [row.msgs[m] EXCEPT !.seen = seen]
           msgs == [row.msgs EXCEPT ![m] = one]
           mark == [entry |-> acts', seen |-> seen, val |-> row.msgs[m].val]
<1>1. row \in Box!Rows /\ row.msgs \in Listing(Message) /\ queue \in Listing(Mark) /\ m \in DOMAIN row.msgs
  BY RowIs DEF BoxTypes, RowTypes, WayTypes, Box!MarkRead, Box!Listed
<1>2. row.msgs[m] \in Message
  BY <1>1, ListingIs
<1>3. one \in Message /\ one.seen = seen /\ one.val = row.msgs[m].val
  BY <1>2 DEF Message
<1>4. row' = [row EXCEPT !.msgs = msgs] /\ queue' = Box!Put(m, mark, queue)
  BY DEF Box!MarkRead
<1>5. mark \in Mark
  BY <1>2 DEF Mark, Message, Box!MarkRead, Box!AtHand, Box!Acts, BoxTypes, CountTypes
<1> HIDE DEF one
<1>6. /\ msgs \in Listing(Message) /\ DOMAIN msgs = DOMAIN row.msgs /\ msgs[m] = one
      /\ \A n \in DOMAIN row.msgs \ {m} : msgs[n] = row.msgs[n]
  BY <1>1, <1>3, ListingIs
<1> HIDE DEF msgs, mark
<1>7. /\ row' \in Box!Rows /\ row'.images = row.images /\ row'.removed = row.removed
      /\ row'.synced = row.synced /\ row'.val = row.val /\ row'.msgs = msgs
  BY <1>1, <1>4, <1>6 DEF Box!Rows, Box!Messages, Listing, Message
<1>8. /\ Box!Put(m, mark, queue) \in Listing(Mark) /\ DOMAIN Box!Put(m, mark, queue) = {m} \cup DOMAIN queue
      /\ Box!Put(m, mark, queue)[m] = mark
      /\ \A n \in DOMAIN queue \ {m} : Box!Put(m, mark, queue)[n] = queue[n]
  BY <1>1, <1>5, PutIs
<1> QED BY <1>1, <1>3, <1>4, <1>5, <1>6, <1>7, <1>8 DEF mark

LEMMA TagIs ==
  ASSUME BoxTypes, NEW m \in Mail, Box!Tag(m)
  PROVE  /\ row' \in Box!Rows /\ row'.images = row.images /\ row'.removed = row.removed
         /\ DOMAIN row'.msgs = DOMAIN row.msgs
         /\ \A n \in DOMAIN row.msgs :
              row'.msgs[n].seen = row.msgs[n].seen /\ row'.msgs[n].val = row.msgs[n].val
         /\ row'.synced = row.synced
<1> DEFINE one  == [row.msgs[m] EXCEPT !.tag = TRUE]
           msgs == [row.msgs EXCEPT ![m] = one]
<1>1. row \in Box!Rows /\ row.msgs \in Listing(Message) /\ m \in DOMAIN row.msgs
  BY RowIs DEF BoxTypes, RowTypes, Box!Tag, Box!Listed
<1>2. row.msgs[m] \in Message
  BY <1>1, ListingIs
<1>3. one \in Message /\ one.seen = row.msgs[m].seen /\ one.val = row.msgs[m].val
  BY <1>2 DEF Message
<1>4. row' = [row EXCEPT !.msgs = msgs]
  BY DEF Box!Tag
<1> HIDE DEF one
<1>5. /\ msgs \in Listing(Message) /\ DOMAIN msgs = DOMAIN row.msgs
      /\ \A n \in DOMAIN row.msgs : msgs[n].seen = row.msgs[n].seen /\ msgs[n].val = row.msgs[n].val
  BY <1>1, <1>3, ListingIs
<1> HIDE DEF msgs
<1> QED BY <1>1, <1>4, <1>5 DEF Box!Rows, Box!Messages, Listing, Message

LEMMA RemoveIs ==
  ASSUME BoxTypes, NEW m \in Mail, Box!RemoveMessage(m)
  PROVE  /\ row' \in Box!Rows /\ row'.images = row.images /\ m \in DOMAIN row.msgs
         /\ DOMAIN row'.msgs = DOMAIN row.msgs \ {m} /\ DOMAIN row'.removed = DOMAIN row.removed \cup {m}
         /\ row'.removed[m] = row.msgs[m]
         /\ \A n \in DOMAIN row.msgs \ {m} : row'.msgs[n] = row.msgs[n]
         /\ \A n \in DOMAIN row.removed \ {m} : row'.removed[n] = row.removed[n]
<1> DEFINE f == row.msgs
           g == row.removed
           one  == f[m]
           msgs == Box!Only(f, Mail \ {m})
           removed == Box!Put(m, one, g)
<1>1. row \in Box!Rows /\ f \in Listing(Message) /\ g \in Listing(Message) /\ m \in DOMAIN f
  BY RowIs DEF BoxTypes, RowTypes, Box!RemoveMessage, Box!Listed
<1>2. one \in Message /\ DOMAIN f \subseteq Mail
  BY <1>1, ListingIs
<1>3. row' = [row EXCEPT !.msgs = msgs, !.removed = removed]
  BY DEF Box!RemoveMessage
<1>4. /\ msgs \in Listing(Message) /\ DOMAIN msgs = DOMAIN f \ {m}
      /\ \A n \in DOMAIN f \ {m} : msgs[n] = f[n]
  <2>1. f \in Listing(Message) /\ (Mail \ {m}) \cap DOMAIN f = DOMAIN f \ {m}
    BY <1>1, <1>2
  <2> HIDE DEF f
  <2> QED BY <2>1, OnlyIs
<1>5. /\ removed \in Listing(Message) /\ DOMAIN removed = {m} \cup DOMAIN g /\ removed[m] = one
      /\ \A n \in DOMAIN g \ {m} : removed[n] = g[n]
  <2>1. g \in Listing(Message) /\ one \in Message
    BY <1>1, <1>2
  <2> HIDE DEF one, g
  <2> DEFINE put == Box!Put(m, one, g)
  <2>2. put \in Listing(Message) /\ DOMAIN put = {m} \cup DOMAIN g /\ put[m] = one
    BY <2>1, MessagePutIs
  <2>3. ASSUME NEW n \in DOMAIN g \ {m} PROVE put[n] = g[n]
    BY DEF Box!Put, Box!Over
  <2> QED BY <2>2, <2>3
<1> HIDE DEF msgs, removed
<1>6. row' \in Box!Rows /\ row'.images = row.images /\ row'.msgs = msgs /\ row'.removed = removed
  <2> HIDE DEF f, g
  <2> QED BY <1>1, <1>3, <1>4, <1>5 DEF Box!Rows, Box!Messages, Listing, Message
<1> QED BY <1>1, <1>4, <1>5, <1>6

LEMMA RestoreIs ==
  ASSUME BoxTypes, NEW m \in Mail, Box!RestoreMessage(m)
  PROVE  /\ row' \in Box!Rows /\ row'.images = row.images /\ m \in DOMAIN row.removed
         /\ DOMAIN row'.removed = DOMAIN row.removed \ {m} /\ DOMAIN row'.msgs = DOMAIN row.msgs \cup {m}
         /\ row'.msgs[m] = row.removed[m]
         /\ \A n \in DOMAIN row.msgs \ {m} : row'.msgs[n] = row.msgs[n]
         /\ \A n \in DOMAIN row.removed \ {m} : row'.removed[n] = row.removed[n]
<1> DEFINE f == row.msgs
           g == row.removed
           one  == g[m]
           removed == Box!Only(g, Mail \ {m})
           msgs == Box!Put(m, one, f)
<1>1. row \in Box!Rows /\ f \in Listing(Message) /\ g \in Listing(Message) /\ m \in DOMAIN g
  BY RowIs DEF BoxTypes, RowTypes, Box!RestoreMessage
<1>2. one \in Message /\ DOMAIN g \subseteq Mail
  BY <1>1, ListingIs
<1>3. row' = [row EXCEPT !.removed = removed, !.msgs = msgs]
  BY DEF Box!RestoreMessage
<1>4. /\ removed \in Listing(Message) /\ DOMAIN removed = DOMAIN g \ {m}
      /\ \A n \in DOMAIN g \ {m} : removed[n] = g[n]
  <2>1. g \in Listing(Message) /\ (Mail \ {m}) \cap DOMAIN g = DOMAIN g \ {m}
    BY <1>1, <1>2
  <2> HIDE DEF g
  <2> QED BY <2>1, OnlyIs
<1>5. /\ msgs \in Listing(Message) /\ DOMAIN msgs = {m} \cup DOMAIN f /\ msgs[m] = one
      /\ \A n \in DOMAIN f \ {m} : msgs[n] = f[n]
  <2>1. f \in Listing(Message) /\ one \in Message
    BY <1>1, <1>2
  <2> HIDE DEF one, f
  <2> DEFINE put == Box!Put(m, one, f)
  <2>2. put \in Listing(Message) /\ DOMAIN put = {m} \cup DOMAIN f /\ put[m] = one
    BY <2>1, MessagePutIs
  <2>3. ASSUME NEW n \in DOMAIN f \ {m} PROVE put[n] = f[n]
    BY DEF Box!Put, Box!Over
  <2> QED BY <2>2, <2>3
<1> HIDE DEF msgs, removed
<1>6. row' \in Box!Rows /\ row'.images = row.images /\ row'.msgs = msgs /\ row'.removed = removed
  <2> HIDE DEF f, g
  <2> QED BY <1>1, <1>3, <1>4, <1>5 DEF Box!Rows, Box!Messages, Listing, Message
<1> QED BY <1>1, <1>4, <1>5, <1>6

LEMMA ImagesIs ==
  ASSUME BoxTypes, Apart, Box!ChooseImages
  PROVE  /\ row' \in Box!Rows /\ row'.images = ~row.images
         /\ DOMAIN row'.removed = DOMAIN row.removed /\ DOMAIN row'.msgs = DOMAIN row.msgs
         /\ \A m \in DOMAIN row.msgs : row'.msgs[m] = row.msgs[m]
         /\ \A m \in DOMAIN row.removed : row'.removed[m] = row.removed[m]
         /\ row'.synced = row.synced
<1> DEFINE in == [row EXCEPT !.images = ~@]
           u  == Box!UpsertInboxAccount(in, FALSE)
<1>1. row \in Box!Rows /\ queue \in Listing(Mark)
  BY DEF BoxTypes, RowTypes, WayTypes
<1>2. /\ in \in Box!Rows /\ in.images = ~row.images /\ in.removed = row.removed /\ in.msgs = row.msgs
      /\ in.synced = row.synced
  BY <1>1 DEF Box!Rows
<1>3. row' = u
  BY DEF Box!ChooseImages
<1>4. /\ u \in Box!Rows /\ u.images = in.images /\ u.removed = Box!Over(row.removed, in.removed)
      /\ DOMAIN u.removed = DOMAIN row.removed \cup DOMAIN in.removed
      /\ DOMAIN u.msgs = DOMAIN in.msgs \ DOMAIN u.removed
      /\ \A m \in DOMAIN u.msgs : u.msgs[m] = in.msgs[m]
      /\ u.synced = in.synced
  <2> HIDE DEF in
  <2> QED BY <1>1, <1>2, UpsertIs
<1> HIDE DEF in, u
<1>5. \A m \in DOMAIN row.removed : u.removed[m] = row.removed[m]
  BY <1>2, <1>4 DEF Box!Over
<1> QED BY <1>2, <1>3, <1>4, <1>5 DEF Apart, Box!Listed

LEMMA SaveIs ==
  ASSUME Box!InboxAssumption, BoxTypes, NEW server \in BOOLEAN, Box!SaveForm(server)
  PROVE  /\ form # None /\ row' \in Box!Rows /\ row'.images = form.images
         /\ row'.removed = Box!Over(row.removed, form.removed)
         /\ DOMAIN row'.removed = DOMAIN row.removed \cup DOMAIN form.removed
         /\ DOMAIN row'.msgs = DOMAIN form.msgs \ DOMAIN row'.removed
         /\ \A m \in DOMAIN row'.msgs : row'.msgs[m] = form.msgs[m]
         /\ [form EXCEPT !.set = acts'] \in Box!Rows
         /\ [form EXCEPT !.set = acts'].msgs = form.msgs
         /\ [form EXCEPT !.set = acts'].removed = form.removed
<1> DEFINE in == [form EXCEPT !.set = acts']
           u  == Box!UpsertInboxAccount(in, FALSE)
<1>1. row \in Box!Rows /\ queue \in Listing(Mark) /\ form # None /\ form \in Box!Rows
  BY DEF BoxTypes, RowTypes, WayTypes, Box!SaveForm
<1>2. acts' \in 0..MaxActs
  <2>1. acts \in 0..MaxActs /\ acts < MaxActs /\ acts' = acts + 1
    BY DEF Box!SaveForm, Box!Acts, BoxTypes, CountTypes
  <2> QED BY <2>1, BoxAssumed
<1>3. in \in Box!Rows /\ in.images = form.images /\ in.removed = form.removed /\ in.msgs = form.msgs
  BY <1>1, <1>2 DEF Box!Rows
<1>4. row' = u
  BY DEF Box!SaveForm
<1>5. /\ u \in Box!Rows /\ u.images = in.images /\ u.removed = Box!Over(row.removed, in.removed)
      /\ DOMAIN u.removed = DOMAIN row.removed \cup DOMAIN in.removed
      /\ DOMAIN u.msgs = DOMAIN in.msgs \ DOMAIN u.removed
      /\ \A m \in DOMAIN u.msgs : u.msgs[m] = in.msgs[m]
  <2> HIDE DEF in
  <2> QED BY <1>1, <1>3, UpsertIs
<1>6. [form EXCEPT !.set = acts'] = in
  OBVIOUS
<1> HIDE DEF in, u
<1> QED BY <1>1, <1>3, <1>4, <1>5, <1>6

-----------------------------------------------------------------------------
(* Every step keeps the invariant *)

\* What a step leaves alone keeps its type.
LEMMA SameWay ==
  ASSUME WayTypes, UNCHANGED <<queue, pushes, syncs, busy, base, rang>> PROVE WayTypes'
BY DEF WayTypes

LEMMA SameCounts ==
  ASSUME CountTypes, UNCHANGED <<choices, told, acts, faults>> PROVE CountTypes'
BY DEF CountTypes

LEMMA ActsAre ==
  ASSUME Box!InboxAssumption, CountTypes, NEW what, Box!Acts(what)
  PROVE  acts' \in 0..MaxActs /\ acts' \in Nat \ {0} /\ what \in Does
<1>1. acts \in 0..MaxActs /\ acts < MaxActs /\ acts' = acts + 1 /\ MaxActs \in Nat
  BY BoxAssumed DEF Box!Acts, CountTypes
<1> QED BY <1>1 DEF Box!Acts

LEMMA FaultsAre ==
  ASSUME Box!InboxAssumption, CountTypes, Box!Faults PROVE faults' \in 0..MaxFaults
<1>1. faults \in 0..MaxFaults /\ faults < MaxFaults /\ faults' = faults + 1 /\ MaxFaults \in Nat
  BY BoxAssumed DEF Box!Faults, CountTypes
<1> QED BY <1>1

LEMMA InitBox == ASSUME Box!InboxAssumption, Box!Init PROVE BoxInv
<1>1. BoxTypes
  BY InitBoxTypes
<1>2. /\ DOMAIN row.removed = {} /\ row.images = FALSE
      /\ choices.gone = {} /\ choices.images = FALSE /\ form = None
  BY DEF Box!Init, Box!Empty
<1> QED BY <1>1, <1>2 DEF BoxInv, Apart, BinInv, ImagesInv

\* Steps that touch neither the row nor the dialog nor what the user did.
LEMMA RestOfBox ==
  ASSUME BoxInv, BoxTypes', UNCHANGED <<row, form>>,
         choices'.gone = choices.gone, choices'.images = choices.images
  PROVE  BoxInv'
BY DEF BoxInv, Apart, BinInv, ImagesInv, Box!Listed

LEMMA ArriveKeepsBox == ASSUME BoxInv, NEW m \in Mail, Box!Arrive(m) PROVE BoxInv'
<1>1. RowTypes'
  BY DEF BoxInv, BoxTypes, RowTypes, Box!Arrive
<1>2. WayTypes' /\ CountTypes'
  BY DEF BoxInv, BoxTypes, WayTypes, CountTypes, Box!Arrive, Box!ghosts
<1> QED BY <1>1, <1>2, RestOfBox DEF Box!Arrive, Box!ghosts, BoxTypes

LEMMA ServerFlag ==
  ASSUME RowTypes, NEW p \in Posted, Box!SetServerSeenFlag(p)
  PROVE  srv' \in [box : SUBSET Mail, seen : SUBSET Mail, val : 1..2]
         /\ srv'.box = srv.box /\ srv'.seen \subseteq srv.seen \cup {p.mail}
BY DEF RowTypes, Posted, Box!SetServerSeenFlag

LEMMA ConfirmedKeepsBox ==
  ASSUME BoxInv, NEW p \in pushes, Box!Confirmed(p)
  PROVE  BoxInv' /\ DOMAIN queue' \subseteq DOMAIN queue /\ \A m \in DOMAIN queue' : queue'[m] = queue[m]
<1>1. p \in Posted /\ queue \in Listing(Mark) /\ RowTypes /\ WayTypes /\ CountTypes
  BY DEF BoxInv, BoxTypes, WayTypes
<1>2. RowTypes'
  BY <1>1, ServerFlag DEF RowTypes, Box!Confirmed
<1>3. /\ queue' \in Listing(Mark) /\ DOMAIN queue' \subseteq DOMAIN queue
      /\ \A m \in DOMAIN queue' : queue'[m] = queue[m]
  <2>1. CASE queue' = queue
    BY <1>1, <2>1
  <2>2. CASE queue' = Box!Only(queue, Mail \ {p.mail})
    <3> DEFINE others == Mail \ {p.mail}
               left   == Box!Only(queue, others)
    <3> HIDE DEF others
    <3>1. /\ left \in Listing(Mark) /\ DOMAIN left = others \cap DOMAIN queue
          /\ \A m \in others \cap DOMAIN queue : left[m] = queue[m]
      BY <1>1, OnlyIs
    <3>2. queue' = left
      BY <2>2 DEF others
    <3> HIDE DEF left
    <3> QED BY <3>1, <3>2
  <2> QED BY <2>1, <2>2 DEF Box!Confirmed
<1>4. WayTypes' /\ CountTypes'
  BY <1>1, <1>3 DEF WayTypes, CountTypes, Box!Confirmed, Box!ghosts
<1> QED BY <1>2, <1>3, <1>4, RestOfBox DEF Box!Confirmed, Box!ghosts, BoxTypes

LEMMA RefusedKeepsBox ==
  ASSUME Box!InboxAssumption, BoxInv, NEW p \in pushes, Box!Refused(p) PROVE BoxInv'
<1>1. p \in Posted /\ RowTypes /\ WayTypes /\ CountTypes
  BY DEF BoxInv, BoxTypes, WayTypes
<1>2. RowTypes'
  <2>1. CASE Box!SetServerSeenFlag(p)
    BY <1>1, <2>1, ServerFlag DEF RowTypes, Box!Refused
  <2>2. CASE UNCHANGED srv
    BY <1>1, <2>2 DEF RowTypes, Box!Refused
  <2> QED BY <2>1, <2>2 DEF Box!Refused
<1>3. WayTypes'
  BY <1>1 DEF WayTypes, Box!Refused
<1>4. CountTypes'
  <2>1. faults' \in 0..MaxFaults
    BY <1>1, FaultsAre DEF Box!Refused
  <2> QED BY <1>1, <2>1 DEF CountTypes, Box!Refused, Box!ghosts
<1> QED BY <1>2, <1>3, <1>4, RestOfBox DEF Box!Refused, Box!ghosts, BoxTypes

LEMMA StartsWay ==
  ASSUME BoxInv, NEW s \in Slots, NEW config \in Box!Rows, Box!Starts(s, config),
         base' = base, rang' \subseteq rang
  PROVE  WayTypes'
<1>1. BoxTypes
  BY DEF BoxInv
<1>2. /\ busy' = TRUE /\ syncs' \in [Slots -> Syncing \cup {None}]
      /\ pushes' \subseteq Posted /\ queue' \in Listing(Mark)
  BY <1>1, StartsIs
<1> QED BY <1>1, <1>2 DEF BoxTypes, WayTypes

LEMMA PollKeepsBox == ASSUME BoxInv, NEW s \in Slots, Box!Poll(s) PROVE BoxInv'
<1>1. RowTypes /\ CountTypes
  BY DEF BoxInv, BoxTypes
<1>2. WayTypes'
  <2>1. PICK config \in {held, row} : Box!Starts(s, config)
    BY DEF Box!Poll
  <2>2. config \in Box!Rows
    BY <1>1 DEF RowTypes
  <2> QED BY <2>1, <2>2, StartsWay DEF Box!Poll
<1>3. RowTypes' /\ CountTypes'
  BY <1>1, SameCounts DEF RowTypes, Box!Poll, Box!ghosts
<1> QED BY <1>2, <1>3, RestOfBox DEF Box!Poll, Box!ghosts, BoxTypes

LEMMA HeardAre ==
  ASSUME CountTypes, NEW m \in Mail, Box!InboxEvent(m)
  PROVE  choices' \in Deeds /\ choices'.gone = choices.gone /\ choices'.images = choices.images
         /\ choices'.read = choices.read
BY DEF CountTypes, Deeds, Box!InboxEvent

LEMMA InboxEventKeepsBox == ASSUME BoxInv, NEW m \in Mail, Box!InboxEvent(m) PROVE BoxInv'
<1>1. RowTypes /\ WayTypes /\ CountTypes
  BY DEF BoxInv, BoxTypes
<1>2. WayTypes'
  <2>1. CASE UNCHANGED <<syncs, busy, pushes, queue>>
    BY <1>1, <2>1 DEF WayTypes, Box!InboxEvent
  <2>2. CASE \E s \in Slots : Box!Starts(s, held)
    <3>1. PICK s \in Slots : Box!Starts(s, held)
      BY <2>2
    <3>2. held \in Box!Rows
      BY <1>1 DEF RowTypes
    <3> QED BY <3>1, <3>2, StartsWay DEF Box!InboxEvent
  <2> QED BY <2>1, <2>2 DEF Box!InboxEvent
<1>3. RowTypes' /\ CountTypes'
  BY <1>1, HeardAre DEF RowTypes, CountTypes, Box!InboxEvent
<1>4. choices'.gone = choices.gone /\ choices'.images = choices.images /\ UNCHANGED <<row, form>>
  BY <1>1, HeardAre DEF Box!InboxEvent
<1> QED BY <1>2, <1>3, <1>4, RestOfBox DEF BoxTypes

LEMMA SyncInboxIs ==
  ASSUME BoxTypes, NEW s \in Slots, Box!SyncInbox(s)
  PROVE  /\ syncs[s] # None /\ syncs[s].step = "flush" /\ syncs[s].row \in Box!Rows
         /\ syncs' = [syncs EXCEPT ![s] =
              [step |-> "listed", row |-> Box!Fetched(syncs[s].row), was |-> syncs[s].was]]
         /\ syncs' \in [Slots -> Syncing \cup {None}]
<1> DEFINE in == Box!Fetched(syncs[s].row)
           new == [step |-> "listed", row |-> in, was |-> syncs[s].was]
<1>1. /\ syncs[s] # None /\ syncs[s].step = "flush" /\ syncs[s].row \in Box!Rows
      /\ syncs[s].was \in SUBSET (Mail \cup {None}) /\ syncs[s] \in Syncing
      /\ syncs \in [Slots -> Syncing \cup {None}]
  BY SyncsAre DEF Box!SyncInbox, BoxTypes, WayTypes
<1>2. syncs' = [syncs EXCEPT ![s].step = "listed", ![s].row = in]
  BY DEF Box!SyncInbox
<1>3. in \in Box!Rows
  <2> DEFINE config == syncs[s].row
  <2>1. config \in Box!Rows
    BY <1>1
  <2> HIDE DEF config
  <2>2. Box!Fetched(config) \in Box!Rows
    BY <2>1, FetchedIs
  <2> QED BY <2>2 DEF config
<1> HIDE DEF in
<1>4. syncs' = [syncs EXCEPT ![s] = new]
  <2>1. [[syncs[s] EXCEPT !.step = "listed"] EXCEPT !.row = in] = new
    <3> DEFINE old  == syncs[s]
               half == [old EXCEPT !.step = "listed"]
    <3>1. old = [step |-> old.step, row |-> old.row, was |-> old.was]
      BY <1>1 DEF Syncing
    <3>2. half = [step |-> "listed", row |-> old.row, was |-> old.was]
      <4> HIDE DEF old
      <4> QED BY <3>1
    <3> HIDE DEF half
    <3>3. [half EXCEPT !.row = in] = [step |-> "listed", row |-> in, was |-> old.was]
      <4> HIDE DEF old
      <4> QED BY <3>2
    <3> QED BY <3>3 DEF half
  <2>2. syncs' = [syncs EXCEPT ![s] = [[syncs[s] EXCEPT !.step = "listed"] EXCEPT !.row = in]]
    BY <1>1, <1>2
  <2> QED BY <2>1, <2>2
<1>5. new \in Syncing
  BY <1>1, <1>3 DEF Syncing
<1> HIDE DEF new
<1>6. syncs' \in [Slots -> Syncing \cup {None}]
  BY <1>1, <1>4, <1>5
<1> QED BY <1>1, <1>4, <1>6 DEF new, in

LEMMA SyncInboxKeepsBox == ASSUME BoxInv, NEW s \in Slots, Box!SyncInbox(s) PROVE BoxInv'
<1>1. RowTypes /\ WayTypes /\ CountTypes /\ BoxTypes
  BY DEF BoxInv, BoxTypes
<1>2. syncs' \in [Slots -> Syncing \cup {None}]
  BY <1>1, SyncInboxIs
<1>3. RowTypes' /\ CountTypes' /\ WayTypes'
  BY <1>1, <1>2, SameCounts DEF RowTypes, WayTypes, Box!SyncInbox, Box!ghosts
<1> QED BY <1>3, RestOfBox DEF Box!SyncInbox, Box!ghosts, BoxTypes

\* Where the slot of a sync is free again.
LEMMA SlotFreed ==
  ASSUME WayTypes, NEW s \in Slots, syncs' = [syncs EXCEPT ![s] = None]
  PROVE  syncs' \in [Slots -> Syncing \cup {None}]
BY DEF WayTypes

LEMMA AnnouncedAre ==
  ASSUME BoxTypes, NEW s \in Slots, Box!Land(s)
  PROVE  /\ told' \in [Mail -> 0..3] /\ base' = DOMAIN syncs[s].row.msgs /\ base' \in SUBSET Mail
         /\ choices' \in Deeds /\ choices'.gone = choices.gone /\ choices'.images = choices.images
         /\ choices'.read = choices.read \ (DOMAIN row'.removed \ DOMAIN row.removed)
<1>1. syncs[s].row \in Box!Rows /\ row' \in Box!Rows
  BY SyncsAre, LandIs DEF Box!Land
<1>2. DOMAIN syncs[s].row.msgs \subseteq Mail
  <2> DEFINE in == syncs[s].row
  <2>1. in \in Box!Rows
    BY <1>1
  <2> HIDE DEF in
  <2>2. DOMAIN in.msgs \subseteq Mail
    BY <2>1, RowIs, ListingIs
  <2> QED BY <2>2 DEF in
<1>3. told' \in [Mail -> 0..3]
  <2> DEFINE once(m) == IF m \in Box!Arrivals(s) THEN (IF told[m] < 2 THEN told[m] + 1 ELSE 2)
                        ELSE IF m \in base' /\ Box!Baseline(s) = {None} THEN Box!Old ELSE told[m]
  <2>1. told' = [m \in Mail |-> once(m)]
    BY DEF Box!Land, Box!Announce
  <2>2. ASSUME NEW m \in Mail PROVE once(m) \in 0..3
    <3>1. told[m] \in 0..3 /\ Box!Old = 3
      BY DEF BoxTypes, CountTypes, Box!Old
    <3> QED BY <3>1
  <2> HIDE DEF once
  <2> QED BY <2>1, <2>2
<1>4. DOMAIN row'.msgs \subseteq Mail
  <2> DEFINE after == row'
  <2>1. after \in Box!Rows
    BY <1>1
  <2> HIDE DEF after
  <2>2. DOMAIN after.msgs \subseteq Mail
    BY <2>1, RowIs, ListingIs
  <2> QED BY <2>2 DEF after
<1>5. base' = DOMAIN syncs[s].row.msgs
  BY DEF Box!Land, Box!Announce
<1>6. /\ choices' \in Deeds /\ choices'.gone = choices.gone /\ choices'.images = choices.images
      /\ choices'.read = choices.read \ (DOMAIN row'.removed \ DOMAIN row.removed)
  <2> DEFINE new  == Box!AutoTagged(s) \cap DOMAIN row'.msgs
             lost == DOMAIN row'.removed \ DOMAIN row.removed
  <2>1. new \subseteq Mail
    BY <1>4
  <2>2. choices' = [choices EXCEPT !.tagged = @ \cup new, !.read = @ \ lost]
    BY DEF Box!Land
  <2> HIDE DEF new, lost
  <2>3. choices \in Deeds
    BY DEF BoxTypes, CountTypes
  <2>4. /\ choices' \in Deeds /\ choices'.gone = choices.gone /\ choices'.images = choices.images
        /\ choices'.read = choices.read \ lost
    BY <2>1, <2>2, <2>3 DEF Deeds
  <2> QED BY <2>4 DEF lost
<1> QED BY <1>2, <1>3, <1>5, <1>6

LEMMA LandKeepsBox == ASSUME BoxInv, NEW s \in Slots, Box!Land(s) PROVE BoxInv'
<1>1. RowTypes /\ WayTypes /\ CountTypes /\ BoxTypes
  BY DEF BoxInv, BoxTypes
<1>2. /\ row' \in Box!Rows /\ row'.images = row.images
      /\ DOMAIN row'.removed = DOMAIN row.removed \cup DOMAIN syncs[s].row.removed
      /\ DOMAIN row'.msgs = DOMAIN syncs[s].row.msgs \ DOMAIN row'.removed
  BY <1>1, LandIs
<1>3. /\ told' \in [Mail -> 0..3] /\ base' \in SUBSET Mail
      /\ choices' \in Deeds /\ choices'.gone = choices.gone /\ choices'.images = choices.images
  BY <1>1, AnnouncedAre
<1>4. RowTypes'
  BY <1>1, <1>2 DEF RowTypes, Box!Land
<1>5. CountTypes'
  BY <1>1, <1>3 DEF CountTypes, Box!Land
<1>6. WayTypes'
  <2>1. syncs' \in [Slots -> Syncing \cup {None}] /\ busy' = FALSE
    BY <1>1, SlotFreed DEF Box!Land
  <2> QED BY <1>1, <1>3, <2>1 DEF WayTypes, Box!Land
<1>7. Apart' /\ BinInv' /\ ImagesInv'
  BY <1>2, <1>3 DEF BoxInv, Apart, BinInv, ImagesInv, Box!Listed, Box!Land
<1> QED BY <1>4, <1>5, <1>6, <1>7 DEF BoxInv, BoxTypes

LEMMA FailKeepsBox == ASSUME Box!InboxAssumption, BoxInv, NEW s \in Slots, Box!Fail(s) PROVE BoxInv'
<1>1. RowTypes /\ WayTypes /\ CountTypes /\ BoxTypes /\ Apart
  BY DEF BoxInv, BoxTypes
<1>2. /\ row' \in Box!Rows /\ row'.images = row.images
      /\ DOMAIN row'.removed = DOMAIN row.removed /\ DOMAIN row'.msgs = DOMAIN row.msgs
  BY <1>1, FailIs
<1>3. faults' \in 0..MaxFaults
  BY <1>1, FaultsAre DEF Box!Fail
<1>4. RowTypes'
  BY <1>1, <1>2 DEF RowTypes, Box!Fail
<1>5. CountTypes'
  BY <1>1, <1>3 DEF CountTypes, Box!Fail, Box!ghosts
<1>6. WayTypes'
  <2>1. syncs' \in [Slots -> Syncing \cup {None}] /\ busy' = FALSE
    BY <1>1, SlotFreed DEF Box!Fail
  <2> QED BY <1>1, <2>1 DEF WayTypes, Box!Fail
<1>7. Apart' /\ BinInv' /\ ImagesInv'
  BY <1>2 DEF BoxInv, Apart, BinInv, ImagesInv, Box!Listed, Box!Fail, Box!ghosts
<1> QED BY <1>4, <1>5, <1>6, <1>7 DEF BoxInv, BoxTypes

\* What the user does is written down, with one more act.
LEMMA ActKeepsCounts ==
  ASSUME Box!InboxAssumption, CountTypes, NEW what, Box!Acts(what), choices' \in Deeds,
         UNCHANGED <<told, faults>>
  PROVE  CountTypes'
BY ActsAre DEF CountTypes

LEMMA MarkReadKeepsBox ==
  ASSUME Box!InboxAssumption, BoxInv, NEW m \in Mail, NEW seen \in BOOLEAN, Box!MarkRead(m, seen)
  PROVE  BoxInv'
<1>1. RowTypes /\ WayTypes /\ CountTypes /\ BoxTypes /\ Apart
  BY DEF BoxInv, BoxTypes
<1>2. /\ row' \in Box!Rows /\ row'.images = row.images /\ row'.removed = row.removed
      /\ DOMAIN row'.msgs = DOMAIN row.msgs /\ queue' \in Listing(Mark)
  BY <1>1, MarkIs
<1>3. /\ choices' \in Deeds /\ choices'.gone = choices.gone /\ choices'.images = choices.images
  <2> DEFINE read   == IF seen THEN choices.read \cup {m} ELSE choices.read \ {m}
             unread == IF seen THEN choices.unread \ {m} ELSE choices.unread \cup {m}
  <2>1. choices' = [choices EXCEPT !.read = read, !.unread = unread] /\ choices \in Deeds
    BY <1>1 DEF Box!MarkRead, CountTypes
  <2>2. read \in SUBSET Mail /\ unread \in SUBSET Mail
    BY <2>1 DEF Deeds
  <2> HIDE DEF read, unread
  <2> QED BY <2>1, <2>2 DEF Deeds
<1>4. CountTypes'
  BY <1>1, <1>3, ActKeepsCounts DEF Box!MarkRead, Box!AtHand
<1>5. WayTypes'
  <2>1. acts' \in Nat
    BY <1>1, ActsAre DEF Box!MarkRead, Box!AtHand
  <2>2. [mail |-> m, seen |-> seen, entry |-> acts', by |-> None] \in Posted
    BY <2>1 DEF Posted
  <2> QED BY <1>1, <1>2, <2>2 DEF WayTypes, Box!MarkRead
<1>6. RowTypes'
  BY <1>1, <1>2 DEF RowTypes, Box!MarkRead
<1>7. Apart' /\ BinInv' /\ ImagesInv'
  BY <1>2, <1>3 DEF BoxInv, Apart, BinInv, ImagesInv, Box!Listed, Box!MarkRead
<1> QED BY <1>4, <1>5, <1>6, <1>7 DEF BoxInv, BoxTypes

\* An act at the row that leaves alone what is on its way.
LEMMA RowActKeepsBox ==
  ASSUME Box!InboxAssumption, BoxInv, NEW what, Box!Acts(what), row' \in Box!Rows, choices' \in Deeds,
         DOMAIN row'.msgs \cap DOMAIN row'.removed = {}, choices'.gone \subseteq DOMAIN row'.removed,
         row'.images = choices'.images, form = None,
         UNCHANGED <<srv, held, form, queue, pushes, syncs, busy, base, rang, told, faults>>
  PROVE  BoxInv'
<1>1. RowTypes /\ WayTypes /\ CountTypes
  BY DEF BoxInv, BoxTypes
<1>2. CountTypes'
  BY <1>1, ActKeepsCounts
<1>3. WayTypes'
  BY <1>1, SameWay
<1>4. RowTypes'
  BY <1>1 DEF RowTypes
<1>5. Apart' /\ BinInv' /\ ImagesInv'
  BY DEF Apart, BinInv, ImagesInv, Box!Listed
<1> QED BY <1>2, <1>3, <1>4, <1>5 DEF BoxInv, BoxTypes

LEMMA BoxIs ==
  ASSUME BoxInv
  PROVE  /\ BoxTypes /\ choices \in Deeds /\ row \in Box!Rows
         /\ DOMAIN row.msgs \cap DOMAIN row.removed = {} /\ choices.gone \subseteq DOMAIN row.removed
         /\ row.images = choices.images
BY DEF BoxInv, BoxTypes, RowTypes, CountTypes, Apart, BinInv, ImagesInv, Box!Listed

LEMMA TagKeepsBox ==
  ASSUME Box!InboxAssumption, BoxInv, NEW m \in Mail, Box!Tag(m) PROVE BoxInv'
<1>1. /\ row' \in Box!Rows /\ row'.images = row.images /\ row'.removed = row.removed
      /\ DOMAIN row'.msgs = DOMAIN row.msgs
  BY BoxIs, TagIs
<1>2. /\ choices' \in Deeds /\ choices'.gone = choices.gone /\ choices'.images = choices.images
  BY BoxIs DEF Deeds, Box!Tag
<1>3. /\ Box!Acts("tag") /\ form = None
      /\ UNCHANGED <<srv, held, form, queue, pushes, syncs, busy, base, rang, told, faults>>
  BY DEF Box!Tag, Box!AtHand
<1>4. /\ DOMAIN row'.msgs \cap DOMAIN row'.removed = {} /\ choices'.gone \subseteq DOMAIN row'.removed
      /\ row'.images = choices'.images
  BY <1>1, <1>2, BoxIs
<1> QED BY <1>1, <1>2, <1>3, <1>4, RowActKeepsBox

LEMMA RemoveKeepsBox ==
  ASSUME Box!InboxAssumption, BoxInv, NEW m \in Mail, Box!RemoveMessage(m) PROVE BoxInv'
<1>1. /\ row' \in Box!Rows /\ row'.images = row.images /\ DOMAIN row'.msgs = DOMAIN row.msgs \ {m}
      /\ DOMAIN row'.removed = DOMAIN row.removed \cup {m}
  BY BoxIs, RemoveIs
<1>2. /\ choices' \in Deeds /\ choices'.gone = choices.gone \cup {m}
      /\ choices'.images = choices.images
  BY BoxIs DEF Deeds, Box!RemoveMessage
<1>3. /\ Box!Acts("bin") /\ form = None
      /\ UNCHANGED <<srv, held, form, queue, pushes, syncs, busy, base, rang, told, faults>>
  BY DEF Box!RemoveMessage, Box!AtHand
<1>4. /\ DOMAIN row'.msgs \cap DOMAIN row'.removed = {} /\ choices'.gone \subseteq DOMAIN row'.removed
      /\ row'.images = choices'.images
  BY <1>1, <1>2, BoxIs
<1> QED BY <1>1, <1>2, <1>3, <1>4, RowActKeepsBox

LEMMA RestoreKeepsBox ==
  ASSUME Box!InboxAssumption, BoxInv, NEW m \in Mail, Box!RestoreMessage(m) PROVE BoxInv'
<1>1. /\ row' \in Box!Rows /\ row'.images = row.images /\ DOMAIN row'.msgs = DOMAIN row.msgs \cup {m}
      /\ DOMAIN row'.removed = DOMAIN row.removed \ {m}
  BY BoxIs, RestoreIs
<1>2. /\ choices' \in Deeds /\ choices'.gone = choices.gone \ {m} /\ choices'.images = choices.images
  BY BoxIs DEF Deeds, Box!RestoreMessage
<1>3. /\ Box!Acts("bin") /\ form = None
      /\ UNCHANGED <<srv, held, form, queue, pushes, syncs, busy, base, rang, told, faults>>
  BY DEF Box!RestoreMessage, Box!AtHand
<1>4. /\ DOMAIN row'.msgs \cap DOMAIN row'.removed = {} /\ choices'.gone \subseteq DOMAIN row'.removed
      /\ row'.images = choices'.images
  BY <1>1, <1>2, BoxIs
<1> QED BY <1>1, <1>2, <1>3, <1>4, RowActKeepsBox

LEMMA ArchiveKeepsBox ==
  ASSUME Box!InboxAssumption, BoxInv, NEW m \in Mail, Box!Archive(m) \/ Box!Unarchive(m) PROVE BoxInv'
<1> DEFINE keys == row'.archived
<1>1. row' = [row EXCEPT !.archived = keys] /\ keys \in SUBSET (Mail \cup {None}) /\ row \in Box!Rows
  <2>1. row \in Box!Rows /\ row.archived \in SUBSET (Mail \cup {None})
    BY BoxIs, RowIs
  <2>2. CASE Box!Archive(m)
    BY <2>1, <2>2 DEF Box!Archive, Box!Archived, Box!Rows
  <2>3. CASE Box!Unarchive(m)
    BY <2>1, <2>3 DEF Box!Unarchive, Box!Rows
  <2> QED BY <2>1, <2>2, <2>3
<1> HIDE DEF keys
<1>2. row' \in Box!Rows /\ row'.images = row.images /\ row'.msgs = row.msgs /\ row'.removed = row.removed
  BY <1>1 DEF Box!Rows
<1>3. /\ choices' \in Deeds /\ choices'.gone = choices.gone /\ choices'.images = choices.images
  BY BoxIs DEF Deeds, Box!Archive, Box!Unarchive
<1>4. /\ Box!Acts("archive") /\ form = None
      /\ UNCHANGED <<srv, held, form, queue, pushes, syncs, busy, base, rang, told, faults>>
  BY DEF Box!Archive, Box!Unarchive, Box!AtHand
<1>5. /\ DOMAIN row'.msgs \cap DOMAIN row'.removed = {} /\ choices'.gone \subseteq DOMAIN row'.removed
      /\ row'.images = choices'.images
  BY <1>2, <1>3, BoxIs
<1> QED BY <1>2, <1>3, <1>4, <1>5, RowActKeepsBox

LEMMA ClearKeepsBox == ASSUME Box!InboxAssumption, BoxInv, Box!ClearRemoved PROVE BoxInv'
<1>1. row' = [row EXCEPT !.removed = Box!Empty] /\ row \in Box!Rows
  BY BoxIs DEF Box!ClearRemoved
<1>2. Box!Empty \in Listing(Message) /\ DOMAIN Box!Empty = {}
  BY EmptyIs
<1>3. row' \in Box!Rows /\ row'.images = row.images /\ row'.removed = Box!Empty
  BY <1>1, <1>2 DEF Box!Rows, Box!Messages, Listing, Message
<1>4. /\ choices' \in Deeds /\ choices'.gone = {} /\ choices'.images = choices.images
  BY BoxIs DEF Deeds, Box!ClearRemoved
<1>5. /\ Box!Acts("empty") /\ form = None
      /\ UNCHANGED <<srv, held, form, queue, pushes, syncs, busy, base, rang, told, faults>>
  BY DEF Box!ClearRemoved, Box!AtHand
<1>6. /\ DOMAIN row'.msgs \cap DOMAIN row'.removed = {} /\ choices'.gone \subseteq DOMAIN row'.removed
      /\ row'.images = choices'.images
  BY <1>2, <1>3, <1>4, BoxIs
<1> QED BY <1>3, <1>4, <1>5, <1>6, RowActKeepsBox

LEMMA ImagesKeepsBox == ASSUME Box!InboxAssumption, BoxInv, Box!ChooseImages PROVE BoxInv'
<1>1. /\ row' \in Box!Rows /\ row'.images = ~row.images
      /\ DOMAIN row'.removed = DOMAIN row.removed /\ DOMAIN row'.msgs = DOMAIN row.msgs
  BY BoxIs, ImagesIs DEF BoxInv
<1>2. /\ choices' \in Deeds /\ choices'.gone = choices.gone /\ choices'.images = ~choices.images
  BY BoxIs DEF Deeds, Box!ChooseImages
<1>3. /\ Box!Acts("images") /\ form = None
      /\ UNCHANGED <<srv, held, form, queue, pushes, syncs, busy, base, rang, told, faults>>
  BY DEF Box!ChooseImages, Box!AtHand
<1>4. /\ DOMAIN row'.msgs \cap DOMAIN row'.removed = {} /\ choices'.gone \subseteq DOMAIN row'.removed
      /\ row'.images = choices'.images
  BY <1>1, <1>2, BoxIs
<1> QED BY <1>1, <1>2, <1>3, <1>4, RowActKeepsBox

LEMMA OpenKeepsBox == ASSUME BoxInv, Box!OpenForm PROVE BoxInv'
<1>1. RowTypes /\ WayTypes /\ CountTypes
  BY DEF BoxInv, BoxTypes
<1>2. RowTypes'
  BY <1>1 DEF RowTypes, Box!OpenForm
<1>3. WayTypes' /\ CountTypes'
  BY <1>1, SameWay, SameCounts DEF Box!OpenForm, Box!ghosts
<1>4. Apart' /\ BinInv' /\ ImagesInv'
  BY DEF BoxInv, Apart, BinInv, ImagesInv, Box!Listed, Box!OpenForm, Box!ghosts
<1> QED BY <1>2, <1>3, <1>4 DEF BoxInv, BoxTypes

LEMMA SaveKeepsBox ==
  ASSUME Box!InboxAssumption, BoxInv, NEW server \in BOOLEAN, Box!SaveForm(server) PROVE BoxInv'
<1>1. RowTypes /\ WayTypes /\ CountTypes /\ BoxTypes
  BY DEF BoxInv, BoxTypes
<1>2. /\ form # None /\ row' \in Box!Rows /\ row'.images = form.images
      /\ DOMAIN row'.removed = DOMAIN row.removed \cup DOMAIN form.removed
      /\ DOMAIN row'.msgs = DOMAIN form.msgs \ DOMAIN row'.removed
      /\ [form EXCEPT !.set = acts'] \in Box!Rows
  BY <1>1, SaveIs
<1>3. acts' \in 0..MaxActs /\ form' = None /\ Box!Acts("settings")
  BY <1>1, ActsAre DEF Box!SaveForm
<1>4. /\ choices' \in Deeds /\ choices'.gone = choices.gone /\ choices'.images = choices.images
  BY <1>3, BoxIs DEF Deeds, Box!SaveForm
<1>5. CountTypes'
  BY <1>1, <1>3, <1>4, ActKeepsCounts DEF Box!SaveForm
<1>6. RowTypes'
  BY <1>1, <1>2, <1>3 DEF RowTypes, Box!SaveForm
<1>7. WayTypes'
  <2> DEFINE config == [form EXCEPT !.set = acts']
  <2>1. PICK s \in Slots : Box!Starts(s, config)
    BY DEF Box!SaveForm
  <2>2. config \in Box!Rows
    BY <1>2
  <2> HIDE DEF config
  <2> QED BY <2>1, <2>2, StartsWay DEF Box!SaveForm
<1>8. Apart' /\ BinInv' /\ ImagesInv'
  BY <1>2, <1>3, <1>4 DEF BoxInv, Apart, BinInv, ImagesInv, Box!Listed
<1> QED BY <1>5, <1>6, <1>7, <1>8 DEF BoxInv, BoxTypes

LEMMA RestartKeepsBox == ASSUME Box!InboxAssumption, BoxInv, Box!Restart PROVE BoxInv'
<1>1. RowTypes /\ WayTypes /\ CountTypes
  BY DEF BoxInv, BoxTypes
<1>2. RowTypes'
  BY <1>1 DEF RowTypes, Box!Restart
<1>3. WayTypes'
  <2>1. queue' \in Listing(Mark)
    BY EmptyIs DEF Box!Restart
  <2>2. syncs' \in [Slots -> Syncing \cup {None}]
    BY DEF Box!Restart
  <2> QED BY <2>1, <2>2 DEF WayTypes, Box!Restart
<1>4. /\ choices' \in Deeds /\ choices'.gone = choices.gone /\ choices'.images = choices.images
  BY BoxIs DEF Deeds, Box!Restart
<1>5. CountTypes'
  BY <1>1, <1>4, ActKeepsCounts DEF Box!Restart
<1>6. Apart' /\ BinInv' /\ ImagesInv'
  BY <1>4 DEF BoxInv, Apart, BinInv, ImagesInv, Box!Listed, Box!Restart
<1> QED BY <1>2, <1>3, <1>5, <1>6 DEF BoxInv, BoxTypes

LEMMA RenumberKeepsBox == ASSUME Box!InboxAssumption, BoxInv, Box!Renumber PROVE BoxInv'
<1>1. RowTypes /\ WayTypes /\ CountTypes
  BY DEF BoxInv, BoxTypes
<1>2. RowTypes'
  <2>1. srv \in [box : SUBSET Mail, seen : SUBSET Mail, val : 1..2] /\ srv' = [srv EXCEPT !.val = 2, !.seen = {}]
    BY <1>1 DEF RowTypes, Box!Renumber
  <2> DEFINE half == [srv EXCEPT !.val = 2]
  <2>2. half \in [box : SUBSET Mail, seen : SUBSET Mail, val : 1..2]
    BY <2>1
  <2>4. srv' = [half EXCEPT !.seen = {}]
    BY <2>1
  <2> HIDE DEF half
  <2>5. srv' \in [box : SUBSET Mail, seen : SUBSET Mail, val : 1..2]
    BY <2>2, <2>4
  <2>3. UNCHANGED <<row, held, form>>
    BY DEF Box!Renumber
  <2> QED BY <1>1, <2>3, <2>5 DEF RowTypes
<1>3. WayTypes'
  BY <1>1, SameWay DEF Box!Renumber
<1>4. /\ choices' \in Deeds /\ choices'.gone = {} /\ choices'.images = choices.images
  BY BoxIs DEF Deeds, Box!Renumber
<1>5. CountTypes'
  BY <1>1, <1>4, ActKeepsCounts DEF Box!Renumber
<1>6. Apart' /\ BinInv' /\ ImagesInv'
  BY <1>4 DEF BoxInv, Apart, BinInv, ImagesInv, Box!Listed, Box!Renumber
<1> QED BY <1>2, <1>3, <1>5, <1>6 DEF BoxInv, BoxTypes

LEMMA StepKeepsBox == ASSUME Box!InboxAssumption, BoxInv, [Box!Next]_(Box!vars) PROVE BoxInv'
<1>1. CASE Box!Sync
  BY <1>1, PollKeepsBox, SyncInboxKeepsBox, LandKeepsBox, FailKeepsBox DEF Box!Sync
<1>2. CASE Box!Push
  BY <1>2, InboxEventKeepsBox, ConfirmedKeepsBox, RefusedKeepsBox DEF Box!Push
<1>3. CASE Box!User
  BY <1>3, MarkReadKeepsBox, TagKeepsBox, RemoveKeepsBox, RestoreKeepsBox, ArchiveKeepsBox,
     ClearKeepsBox, ImagesKeepsBox, OpenKeepsBox, SaveKeepsBox DEF Box!User
<1>4. CASE Box!Renumber \/ Box!Restart \/ \E m \in Mail : Box!Arrive(m)
  BY <1>4, RenumberKeepsBox, RestartKeepsBox, ArriveKeepsBox
<1>5. CASE UNCHANGED Box!vars
  BY <1>5 DEF BoxInv, BoxTypes, RowTypes, WayTypes, CountTypes, Apart, BinInv, ImagesInv,
     Box!Listed, Box!vars, Box!ghosts
<1> QED BY <1>1, <1>2, <1>3, <1>4, <1>5 DEF Box!Next

\* Whatever the user does and however syncs overlap, what was removed is in the bin and the
\* switch is where it was put, and every variable has its type.
THEOREM BoxInvHolds == ASSUME Box!InboxAssumption PROVE Box!Spec => []BoxInv
<1>1. Box!Init => BoxInv
  BY InitBox
<1>2. BoxInv /\ [Box!Next]_(Box!vars) => BoxInv'
  BY StepKeepsBox
<1> QED BY <1>1, <1>2, PTL DEF Box!Spec

LEMMA BoxIsSafe == ASSUME BoxInv PROVE Box!TypeOK /\ Box!RemovedStays /\ Box!ImagesKept
<1>1. Box!RemovedStays /\ Box!ImagesKept
  BY DEF BoxInv, Apart, BinInv, ImagesInv, Box!RemovedStays, Box!ImagesKept
<1>2. DOMAIN queue \subseteq Mail
  BY ListingIs DEF BoxInv, BoxTypes, WayTypes
<1>3. /\ \A p \in pushes : p.mail \in Mail /\ p.seen \in BOOLEAN /\ p.by \in Slots \cup {None}
      /\ \A s \in Slots : syncs[s] # None => syncs[s].row \in Box!Rows
      /\ base = None \/ base \subseteq Mail
  BY DEF BoxInv, BoxTypes, WayTypes, Posted, Syncing
<1> QED
  BY <1>1, <1>2, <1>3 DEF BoxInv, BoxTypes, RowTypes, WayTypes, CountTypes, Apart, Box!TypeOK

\* A message the user removed is not listed until it is restored, whatever row a sync or the
\* dialog writes back, and any number of syncs under way (inboxRemoval.ts).
THEOREM RemovedStaysHolds == ASSUME Box!InboxAssumption PROVE Box!Spec => []Box!RemovedStays
<1>1. BoxInv => Box!RemovedStays
  BY BoxIsSafe
<1> QED BY <1>1, BoxInvHolds, PTL

\* The switch for remote images keeps what the user chose while syncs that began earlier land
\* (the reducer's preferences).
THEOREM ImagesKeptHolds == ASSUME Box!InboxAssumption PROVE Box!Spec => []Box!ImagesKept
<1>1. BoxInv => Box!ImagesKept
  BY BoxIsSafe
<1> QED BY <1>1, BoxInvHolds, PTL

-----------------------------------------------------------------------------
(* What was read stays read *)

LEMMA InitReads == ASSUME Box!InboxAssumption, Box!Init PROVE ReadInv
<1> PICK box \in SUBSET Mail, synced \in BOOLEAN,
         keys \in IF "archive" \in Does THEN {Box!NoKeys, {}} ELSE {Box!NoKeys} :
         Box!Init!(box, synced, keys)
  BY DEF Box!Init
<1>1. /\ srv.box = box /\ srv.val = 1 /\ held = row /\ form = None /\ choices.read = {}
      /\ syncs = [s \in Slots |-> None] /\ row.removed = Box!Empty
      /\ row.msgs = IF synced THEN [m \in box |-> [seen |-> FALSE, tag |-> FALSE, val |-> 1]]
                    ELSE Box!Empty
  OBVIOUS
<1>2. DOMAIN Box!Empty = {}
  BY DEF Box!Empty
<1>3. DOMAIN row.msgs \subseteq box /\ \A m \in DOMAIN row.msgs : row.msgs[m].val = 1
  BY <1>1, <1>2
<1>4. Numbers
  BY <1>1, <1>2, <1>3 DEF Numbers, Numbered
<1>5. ReadMarks /\ FormRead /\ ListsReach
  BY <1>1, <1>2, <1>3 DEF ReadMarks, FormRead, ListsReach, Known
<1> QED BY <1>4, <1>5 DEF ReadInv

\* A sync begins with a row that was numbered like the others.
LEMMA StartReads ==
  ASSUME BoxInv, ReadInv, NEW s \in Slots, NEW config \in Box!Rows, Box!Starts(s, config),
         Numbered(config), DOMAIN config.removed \subseteq srv.box
  PROVE  /\ \A t \in Slots : syncs'[t] # None => Numbered(syncs'[t].row)
         /\ \A t \in Slots : syncs'[t] # None => DOMAIN syncs'[t].row.removed \subseteq srv.box
         /\ \A t \in Slots : syncs'[t] # None /\ syncs'[t].step = "listed" => syncs'[t] = syncs[t] /\ syncs[t] # None
         /\ DOMAIN queue' \subseteq DOMAIN queue /\ \A m \in DOMAIN queue' : queue'[m] = queue[m]
<1> DEFINE was == IF config.synced THEN DOMAIN config.msgs ELSE {None}
           new == [step |-> "flush", row |-> config, was |-> was]
<1>1. /\ syncs' = [syncs EXCEPT ![s] = new] /\ DOMAIN queue' \subseteq DOMAIN queue
      /\ \A m \in DOMAIN queue' : queue'[m] = queue[m]
  BY BoxIs, StartsIs DEF Box!Owed
<1>2. new.row = config /\ new.step = "flush"
  OBVIOUS
<1> HIDE DEF new
<1>3. syncs \in [Slots -> Syncing \cup {None}]
  BY BoxIs DEF BoxTypes, WayTypes
<1>4. syncs'[s] = new /\ \A t \in Slots \ {s} : syncs'[t] = syncs[t]
  BY <1>1, <1>3
<1> QED BY <1>1, <1>2, <1>4 DEF ReadInv, Numbers, ListsReach

\* Steps that touch neither the rows nor what was read.
LEMMA RestReads ==
  ASSUME ReadInv, UNCHANGED <<row, held, form>>, choices'.read = choices.read,
         srv'.val = srv.val, srv.box \subseteq srv'.box,
         DOMAIN queue' \subseteq DOMAIN queue, \A m \in DOMAIN queue' : queue'[m] = queue[m],
         \A t \in Slots : syncs'[t] # None => Numbered(syncs'[t].row),
         \A t \in Slots : syncs'[t] # None => DOMAIN syncs'[t].row.removed \subseteq srv'.box,
         \A t \in Slots : syncs'[t] # None /\ syncs'[t].step = "listed" =>
           Known \subseteq DOMAIN syncs'[t].row.msgs /\ DOMAIN syncs'[t].row.msgs \subseteq srv'.box
  PROVE  ReadInv'
<1>1. Numbers'
  BY DEF ReadInv, Numbers, Numbered
<1>2. ReadMarks' /\ FormRead'
  BY DEF ReadInv, ReadMarks, FormRead
<1>3. Known' = Known
  BY DEF Known
<1>4. ListsReach'
  BY <1>3 DEF ReadInv, ListsReach
<1> QED BY <1>1, <1>2, <1>4 DEF ReadInv

\* Of those, the ones that leave the syncs alone.
LEMMA QuietReads ==
  ASSUME ReadInv, UNCHANGED <<row, held, form, syncs>>, choices'.read = choices.read,
         srv'.val = srv.val, srv.box \subseteq srv'.box,
         DOMAIN queue' \subseteq DOMAIN queue, \A m \in DOMAIN queue' : queue'[m] = queue[m]
  PROVE  ReadInv'
<1>1. /\ \A t \in Slots : syncs'[t] # None => Numbered(syncs'[t].row)
      /\ \A t \in Slots : syncs'[t] # None => DOMAIN syncs'[t].row.removed \subseteq srv'.box
      /\ \A t \in Slots : syncs'[t] # None /\ syncs'[t].step = "listed" =>
           Known \subseteq DOMAIN syncs'[t].row.msgs /\ DOMAIN syncs'[t].row.msgs \subseteq srv'.box
  BY DEF ReadInv, Numbers, ListsReach
<1> QED BY <1>1, RestReads

LEMMA ArriveReads == ASSUME BoxInv, ReadInv, NEW m \in Mail, Box!Arrive(m) PROVE ReadInv'
<1>1. srv'.val = srv.val /\ srv.box \subseteq srv'.box
  BY BoxIs DEF BoxTypes, RowTypes, Box!Arrive
<1> QED BY <1>1, QuietReads DEF Box!Arrive, Box!ghosts

LEMMA AnswerReads ==
  ASSUME BoxInv, ReadInv, NEW p \in pushes, Box!Confirmed(p) \/ Box!Refused(p) PROVE ReadInv'
<1>1. p \in Posted /\ RowTypes
  BY DEF BoxInv, BoxTypes, WayTypes
<1>2. srv'.val = srv.val /\ srv'.box = srv.box
  BY <1>1 DEF RowTypes, Box!Confirmed, Box!Refused, Box!SetServerSeenFlag
<1>3. DOMAIN queue' \subseteq DOMAIN queue /\ \A m \in DOMAIN queue' : queue'[m] = queue[m]
  BY ConfirmedKeepsBox DEF Box!Refused
<1> QED BY <1>2, <1>3, QuietReads DEF Box!Confirmed, Box!Refused, Box!ghosts

LEMMA BeginReads ==
  ASSUME BoxInv, ReadInv, NEW s \in Slots, NEW config \in {held, row}, Box!Starts(s, config),
         UNCHANGED <<srv, row, held, form>>, choices'.read = choices.read
  PROVE  ReadInv'
<1>1. config \in Box!Rows
  BY BoxIs DEF BoxTypes, RowTypes
<1>2. Numbered(config)
  BY DEF ReadInv, Numbers, Numbered
<1>3. DOMAIN config.removed \subseteq srv.box
  BY DEF ReadInv, ListsReach, Known
<1>4. /\ \A t \in Slots : syncs'[t] # None => Numbered(syncs'[t].row)
      /\ \A t \in Slots : syncs'[t] # None => DOMAIN syncs'[t].row.removed \subseteq srv.box
      /\ \A t \in Slots : syncs'[t] # None /\ syncs'[t].step = "listed" => syncs'[t] = syncs[t] /\ syncs[t] # None
      /\ DOMAIN queue' \subseteq DOMAIN queue /\ \A m \in DOMAIN queue' : queue'[m] = queue[m]
  BY <1>1, <1>2, <1>3, StartReads
<1>5. \A t \in Slots : syncs'[t] # None /\ syncs'[t].step = "listed" =>
        Known \subseteq DOMAIN syncs'[t].row.msgs /\ DOMAIN syncs'[t].row.msgs \subseteq srv.box
  BY <1>4 DEF ReadInv, ListsReach
<1> QED BY <1>4, <1>5, RestReads

LEMMA PollReads == ASSUME BoxInv, ReadInv, NEW s \in Slots, Box!Poll(s) PROVE ReadInv'
<1>1. PICK config \in {held, row} : Box!Starts(s, config)
  BY DEF Box!Poll
<1> QED BY <1>1, BeginReads DEF Box!Poll, Box!ghosts

LEMMA EventReads == ASSUME BoxInv, ReadInv, NEW m \in Mail, Box!InboxEvent(m) PROVE ReadInv'
<1>1. choices'.read = choices.read
  BY HeardAre DEF BoxInv, BoxTypes
<1>2. CASE UNCHANGED <<syncs, busy, pushes, queue>>
  BY <1>1, <1>2, QuietReads DEF Box!InboxEvent
<1>3. CASE \E s \in Slots : Box!Starts(s, held)
  <2>1. PICK s \in Slots : Box!Starts(s, held)
    BY <1>3
  <2> QED BY <1>1, <2>1, BeginReads DEF Box!InboxEvent
<1> QED BY <1>2, <1>3 DEF Box!InboxEvent

LEMMA SyncInboxReads == ASSUME BoxInv, ReadInv, NEW s \in Slots, Box!SyncInbox(s) PROVE ReadInv'
<1> DEFINE config == syncs[s].row
           in  == Box!Fetched(config)
           new == [step |-> "listed", row |-> in, was |-> syncs[s].was]
<1>1. syncs[s] # None /\ config \in Box!Rows /\ syncs' = [syncs EXCEPT ![s] = new]
  BY BoxIs, SyncInboxIs
<1>2. /\ DOMAIN in.msgs = srv.box /\ in.removed = config.removed
      /\ \A m \in srv.box : in.msgs[m].val = srv.val
  <2> HIDE DEF config
  <2> QED BY <1>1, BoxIs, FetchedIs
<1>3. Numbered(config) /\ DOMAIN config.removed \subseteq srv.box /\ srv.val = 1 /\ Known \subseteq srv.box
  BY <1>1 DEF ReadInv, Numbers, ListsReach
<1> HIDE DEF in, config
<1>4. Numbered(in)
  BY <1>2, <1>3 DEF Numbered
<1>5. new.row = in
  OBVIOUS
<1> HIDE DEF new
<1>6. syncs'[s] = new /\ \A t \in Slots \ {s} : syncs'[t] = syncs[t]
  <2>1. syncs \in [Slots -> Syncing \cup {None}]
    BY BoxIs DEF BoxTypes, WayTypes
  <2> QED BY <1>1, <2>1
<1>7. /\ \A t \in Slots : syncs'[t] # None => Numbered(syncs'[t].row)
      /\ \A t \in Slots : syncs'[t] # None => DOMAIN syncs'[t].row.removed \subseteq srv.box
      /\ \A t \in Slots : syncs'[t] # None /\ syncs'[t].step = "listed" =>
           Known \subseteq DOMAIN syncs'[t].row.msgs /\ DOMAIN syncs'[t].row.msgs \subseteq srv.box
  BY <1>2, <1>3, <1>4, <1>5, <1>6 DEF ReadInv, Numbers, ListsReach
<1>8. UNCHANGED <<srv, row, held, form, queue, choices>>
  BY DEF Box!SyncInbox, Box!ghosts
<1> QED BY <1>7, <1>8, RestReads

\* A slot that is freed leaves the other syncs as they were.
LEMMA FreedReads ==
  ASSUME BoxInv, NEW s \in Slots, syncs' = [syncs EXCEPT ![s] = None], OneSync
  PROVE  \A t \in Slots : syncs'[t] = None
BY BoxIs DEF BoxTypes, WayTypes, OneSync

LEMMA LandReads ==
  ASSUME BoxInv, ReadInv, OneSync, NEW s \in Slots, Box!Land(s) PROVE ReadInv'
<1> DEFINE in     == syncs[s].row
           merged == Box!MergeSeenFlags(in.msgs)
<1>1. /\ row' \in Box!Rows /\ row'.removed = Box!Over(row.removed, in.removed)
      /\ DOMAIN row'.removed = DOMAIN row.removed \cup DOMAIN in.removed
      /\ DOMAIN row'.msgs = DOMAIN in.msgs \ DOMAIN row'.removed
      /\ \A m \in DOMAIN row'.msgs : row'.msgs[m].val = in.msgs[m].val /\ row'.msgs[m].seen = merged[m].seen
  BY BoxIs, LandIs
<1>2. choices'.read = choices.read \ (DOMAIN row'.removed \ DOMAIN row.removed)
  BY BoxIs, AnnouncedAre
<1>3. /\ Numbered(in) /\ Numbered(row) /\ Known \subseteq DOMAIN in.msgs /\ DOMAIN in.msgs \subseteq srv.box
      /\ DOMAIN in.removed \subseteq srv.box /\ Known \subseteq srv.box
  BY DEF Box!Land, ReadInv, Numbers, ListsReach
<1>4. \A t \in Slots : syncs'[t] = None
  BY FreedReads DEF Box!Land
<1>5. \A m \in DOMAIN in.msgs : merged[m].seen =
        IF m \in DOMAIN queue /\ queue[m].val = in.msgs[m].val THEN queue[m].seen
        ELSE \/ in.msgs[m].seen
             \/ m \in DOMAIN row.msgs /\ row.msgs[m].seen /\ row.msgs[m].val = in.msgs[m].val
  <2>1. in \in Box!Rows /\ row \in Box!Rows /\ queue \in Listing(Mark)
    BY BoxIs, SyncsAre DEF BoxTypes, WayTypes, Box!Land
  <2> DEFINE listed == in.msgs
  <2>2. listed \in Listing(Message)
    <3> HIDE DEF in
    <3> QED BY <2>1, RowIs
  <2> HIDE DEF listed
  <2>3. \A m \in DOMAIN listed : Box!MergeSeenFlags(listed)[m].seen =
          IF m \in DOMAIN queue /\ queue[m].val = listed[m].val THEN queue[m].seen
          ELSE \/ listed[m].seen
               \/ m \in DOMAIN row.msgs /\ row.msgs[m].seen /\ row.msgs[m].val = listed[m].val
    BY <2>1, <2>2, MergedIs
  <2> QED BY <2>3 DEF listed
<1>6. UNCHANGED <<srv, held, form, queue>>
  BY DEF Box!Land
<1> HIDE DEF in, merged
<1>7. \A m \in DOMAIN row'.removed : row'.removed[m] =
        IF m \in DOMAIN row.removed THEN row.removed[m] ELSE in.removed[m]
  BY <1>1 DEF Box!Over
<1>8. Numbers'
  <2>1. Numbered(row)'
    BY <1>1, <1>3, <1>7 DEF Numbered
  <2> QED BY <2>1, <1>4, <1>6 DEF ReadInv, Numbers, Numbered
<1>9. ReadMarks'
  <2> SUFFICES ASSUME NEW m \in choices'.read
               PROVE  /\ m \in DOMAIN row'.msgs \cup DOMAIN row'.removed
                      /\ m \in DOMAIN row'.msgs => row'.msgs[m].seen
                      /\ m \in DOMAIN row'.removed => row'.removed[m].seen
                      /\ m \in DOMAIN queue' => queue'[m].seen
    BY DEF ReadMarks
  <2>1. /\ m \in choices.read /\ (m \in DOMAIN row'.removed => m \in DOMAIN row.removed)
        /\ m \in DOMAIN row.msgs \cup DOMAIN row.removed
        /\ (m \in DOMAIN row.msgs => row.msgs[m].seen)
        /\ (m \in DOMAIN row.removed => row.removed[m].seen)
        /\ (m \in DOMAIN queue => queue[m].seen)
    BY <1>2 DEF ReadInv, ReadMarks
  <2>2. m \in DOMAIN in.msgs
    BY <1>3, <2>1 DEF Known
  <2>3. m \in DOMAIN row'.msgs => row'.msgs[m].seen
    <3> SUFFICES ASSUME m \in DOMAIN row'.msgs PROVE row'.msgs[m].seen
      OBVIOUS
    <3>1. m \in DOMAIN row.msgs /\ row.msgs[m].seen /\ row.msgs[m].val = 1 /\ in.msgs[m].val = 1
      BY <1>1, <1>3, <2>1, <2>2 DEF Numbered
    <3>2. merged[m].seen
      BY <1>5, <2>1, <2>2, <3>1
    <3> QED BY <1>1, <3>2
  <2>4. m \in DOMAIN row'.removed => row'.removed[m].seen
    BY <1>7, <2>1
  <2> QED BY <1>1, <1>6, <2>1, <2>2, <2>3, <2>4
<1>10. FormRead'
  BY <1>1, <1>2, <1>6 DEF ReadInv, FormRead
<1>11. ListsReach'
  BY <1>1, <1>3, <1>4, <1>6 DEF ReadInv, ListsReach, Known
<1> QED BY <1>8, <1>9, <1>10, <1>11 DEF ReadInv

\* The row is written again, with what the marks say.
LEMMA FailReads ==
  ASSUME BoxInv, ReadInv, OneSync, NEW s \in Slots, Box!Fail(s) PROVE ReadInv'
<1>1. /\ DOMAIN row'.removed = DOMAIN row.removed /\ DOMAIN row'.msgs = DOMAIN row.msgs
      /\ \A m \in DOMAIN row.removed : row'.removed[m] = row.removed[m]
      /\ \A m \in DOMAIN row'.msgs : row'.msgs[m] = Box!MergeSeenFlags(row.msgs)[m]
  BY FailIs DEF BoxInv
<1>2. \A m \in DOMAIN row.msgs :
        /\ Box!MergeSeenFlags(row.msgs)[m].val = row.msgs[m].val
        /\ Box!MergeSeenFlags(row.msgs)[m].seen =
             IF m \in DOMAIN queue /\ queue[m].val = row.msgs[m].val THEN queue[m].seen
             ELSE \/ row.msgs[m].seen
                  \/ m \in DOMAIN row.msgs /\ row.msgs[m].seen /\ row.msgs[m].val = row.msgs[m].val
  <2>1. row \in Box!Rows /\ queue \in Listing(Mark)
    BY BoxIs DEF BoxTypes, WayTypes
  <2> DEFINE listed == row.msgs
  <2>2. listed \in Listing(Message)
    BY <2>1, RowIs
  <2> HIDE DEF listed
  <2>3. \A m \in DOMAIN listed :
          /\ Box!MergeSeenFlags(listed)[m].val = listed[m].val
          /\ Box!MergeSeenFlags(listed)[m].seen =
               IF m \in DOMAIN queue /\ queue[m].val = listed[m].val THEN queue[m].seen
               ELSE \/ listed[m].seen
                    \/ m \in DOMAIN row.msgs /\ row.msgs[m].seen /\ row.msgs[m].val = listed[m].val
    BY <2>1, <2>2, MergedIs
  <2> QED BY <2>3 DEF listed
<1>3. \A t \in Slots : syncs'[t] = None
  BY FreedReads DEF Box!Fail
<1>4. UNCHANGED <<srv, held, form, queue, choices>>
  BY DEF Box!Fail, Box!ghosts
<1>5. Numbers'
  <2>1. Numbered(row)'
    BY <1>1, <1>2 DEF ReadInv, Numbers, Numbered
  <2> QED BY <2>1, <1>3, <1>4 DEF ReadInv, Numbers, Numbered
<1>6. ReadMarks'
  <2> SUFFICES ASSUME NEW m \in choices.read
               PROVE  /\ m \in DOMAIN row'.msgs \cup DOMAIN row'.removed
                      /\ m \in DOMAIN row'.msgs => row'.msgs[m].seen
                      /\ m \in DOMAIN row'.removed => row'.removed[m].seen
                      /\ m \in DOMAIN queue' => queue'[m].seen
    BY <1>4 DEF ReadMarks
  <2>1. /\ m \in DOMAIN row.msgs \cup DOMAIN row.removed
        /\ (m \in DOMAIN row.msgs => row.msgs[m].seen)
        /\ (m \in DOMAIN row.removed => row.removed[m].seen)
        /\ (m \in DOMAIN queue => queue[m].seen)
    BY DEF ReadInv, ReadMarks
  <2> QED BY <1>1, <1>2, <1>4, <2>1
<1>7. FormRead' /\ ListsReach'
  BY <1>1, <1>3, <1>4 DEF ReadInv, FormRead, ListsReach, Known
<1> QED BY <1>5, <1>6, <1>7 DEF ReadInv

\* An act of the user with the dialog closed, which takes no message away.
LEMMA ActReads ==
  ASSUME BoxInv, ReadInv, form = None, UNCHANGED <<srv, held, form, syncs>>,
         Numbered(row)', ReadMarks',
         DOMAIN row'.msgs \cup DOMAIN row'.removed = DOMAIN row.msgs \cup DOMAIN row.removed
  PROVE  ReadInv'
<1>1. Numbers'
  BY DEF ReadInv, Numbers, Numbered
<1>2. FormRead'
  BY DEF FormRead
<1>3. Known' = Known
  BY DEF Known
<1>4. ListsReach'
  BY <1>3 DEF ReadInv, ListsReach
<1> QED BY <1>1, <1>2, <1>4 DEF ReadInv

LEMMA MarkReadReads ==
  ASSUME BoxInv, ReadInv, NEW m \in Mail, NEW seen \in BOOLEAN, Box!MarkRead(m, seen) PROVE ReadInv'
<1>1. /\ row'.removed = row.removed /\ DOMAIN row'.msgs = DOMAIN row.msgs /\ m \in DOMAIN row.msgs
      /\ row'.msgs[m].seen = seen /\ row'.msgs[m].val = row.msgs[m].val
      /\ \A n \in DOMAIN row.msgs \ {m} : row'.msgs[n] = row.msgs[n]
      /\ DOMAIN queue' = {m} \cup DOMAIN queue /\ \A n \in DOMAIN queue \ {m} : queue'[n] = queue[n]
      /\ queue'[m] = [entry |-> acts', seen |-> seen, val |-> row.msgs[m].val]
  BY BoxIs, MarkIs
<1>2. queue'[m].seen = seen
  BY <1>1
<1>3. choices'.read = IF seen THEN choices.read \cup {m} ELSE choices.read \ {m}
  BY BoxIs DEF Box!MarkRead, Deeds
<1>4. Numbered(row)'
  BY <1>1 DEF ReadInv, Numbers, Numbered
<1>5. m \notin DOMAIN row.removed
  BY <1>1, BoxIs
<1>6. ReadMarks'
  <2> SUFFICES ASSUME NEW n \in choices'.read
               PROVE  /\ n \in DOMAIN row'.msgs \cup DOMAIN row'.removed
                      /\ n \in DOMAIN row'.msgs => row'.msgs[n].seen
                      /\ n \in DOMAIN row'.removed => row'.removed[n].seen
                      /\ n \in DOMAIN queue' => queue'[n].seen
    BY DEF ReadMarks
  <2>1. CASE n = m
    <3>1. seen
      BY <1>3, <2>1
    <3> QED BY <1>1, <1>2, <1>5, <2>1, <3>1
  <2>2. CASE n # m
    <3>1. n \in choices.read
      BY <1>3, <2>2
    <3> QED BY <1>1, <2>2, <3>1 DEF ReadInv, ReadMarks
  <2> QED BY <2>1, <2>2
<1> QED BY <1>1, <1>4, <1>6, ActReads DEF Box!MarkRead, Box!AtHand

LEMMA TagReads == ASSUME BoxInv, ReadInv, NEW m \in Mail, Box!Tag(m) PROVE ReadInv'
<1>1. /\ row'.removed = row.removed /\ DOMAIN row'.msgs = DOMAIN row.msgs
      /\ \A n \in DOMAIN row.msgs : row'.msgs[n].seen = row.msgs[n].seen /\ row'.msgs[n].val = row.msgs[n].val
  BY BoxIs, TagIs
<1>2. choices'.read = choices.read /\ queue' = queue
  BY BoxIs DEF Box!Tag, Deeds
<1>3. Numbered(row)' /\ ReadMarks'
  BY <1>1, <1>2 DEF ReadInv, Numbers, Numbered, ReadMarks
<1> QED BY <1>1, <1>3, ActReads DEF Box!Tag, Box!AtHand

LEMMA RemoveReads == ASSUME BoxInv, ReadInv, NEW m \in Mail, Box!RemoveMessage(m) PROVE ReadInv'
<1>1. /\ m \in DOMAIN row.msgs /\ DOMAIN row'.msgs = DOMAIN row.msgs \ {m}
      /\ DOMAIN row'.removed = DOMAIN row.removed \cup {m} /\ row'.removed[m] = row.msgs[m]
      /\ \A n \in DOMAIN row.msgs \ {m} : row'.msgs[n] = row.msgs[n]
      /\ \A n \in DOMAIN row.removed \ {m} : row'.removed[n] = row.removed[n]
  BY BoxIs, RemoveIs
<1>2. choices'.read = choices.read /\ queue' = queue
  BY BoxIs DEF Box!RemoveMessage, Deeds
<1>3. Numbered(row)' /\ ReadMarks'
  BY <1>1, <1>2 DEF ReadInv, Numbers, Numbered, ReadMarks
<1> QED BY <1>1, <1>3, ActReads DEF Box!RemoveMessage, Box!AtHand

LEMMA RestoreReads == ASSUME BoxInv, ReadInv, NEW m \in Mail, Box!RestoreMessage(m) PROVE ReadInv'
<1>1. /\ m \in DOMAIN row.removed /\ DOMAIN row'.removed = DOMAIN row.removed \ {m}
      /\ DOMAIN row'.msgs = DOMAIN row.msgs \cup {m} /\ row'.msgs[m] = row.removed[m]
      /\ \A n \in DOMAIN row.msgs \ {m} : row'.msgs[n] = row.msgs[n]
      /\ \A n \in DOMAIN row.removed \ {m} : row'.removed[n] = row.removed[n]
  BY BoxIs, RestoreIs
<1>2. choices'.read = choices.read /\ queue' = queue
  BY BoxIs DEF Box!RestoreMessage, Deeds
<1>3. Numbered(row)' /\ ReadMarks'
  BY <1>1, <1>2 DEF ReadInv, Numbers, Numbered, ReadMarks
<1> QED BY <1>1, <1>3, ActReads DEF Box!RestoreMessage, Box!AtHand

LEMMA ArchiveReads ==
  ASSUME BoxInv, ReadInv, NEW m \in Mail, Box!Archive(m) \/ Box!Unarchive(m) PROVE ReadInv'
<1>1. row'.msgs = row.msgs /\ row'.removed = row.removed
  <2>1. row \in Box!Rows
    BY BoxIs
  <2> QED BY <2>1 DEF Box!Archive, Box!Unarchive, Box!Rows
<1>2. choices'.read = choices.read /\ queue' = queue
  BY BoxIs DEF Box!Archive, Box!Unarchive, Deeds
<1>3. Numbered(row)' /\ ReadMarks'
  BY <1>1, <1>2 DEF ReadInv, Numbers, Numbered, ReadMarks
<1> QED BY <1>1, <1>3, ActReads DEF Box!Archive, Box!Unarchive, Box!AtHand

LEMMA ImagesReads == ASSUME BoxInv, ReadInv, Box!ChooseImages PROVE ReadInv'
<1>1. /\ DOMAIN row'.removed = DOMAIN row.removed /\ DOMAIN row'.msgs = DOMAIN row.msgs
      /\ \A m \in DOMAIN row.msgs : row'.msgs[m] = row.msgs[m]
      /\ \A m \in DOMAIN row.removed : row'.removed[m] = row.removed[m]
  BY BoxIs, ImagesIs DEF BoxInv
<1>2. choices'.read = choices.read /\ queue' = queue
  BY BoxIs DEF Box!ChooseImages, Deeds
<1>3. Numbered(row)' /\ ReadMarks'
  BY <1>1, <1>2 DEF ReadInv, Numbers, Numbered, ReadMarks
<1> QED BY <1>1, <1>3, ActReads DEF Box!ChooseImages, Box!AtHand

LEMMA OpenReads == ASSUME BoxInv, ReadInv, Box!OpenForm PROVE ReadInv'
<1>1. form = None /\ form' = row /\ UNCHANGED <<srv, row, held, queue, syncs, choices>>
  BY DEF Box!OpenForm, Box!ghosts
<1>2. Numbers' /\ ReadMarks'
  BY <1>1 DEF ReadInv, Numbers, Numbered, ReadMarks
<1>3. FormRead'
  BY <1>1 DEF ReadInv, ReadMarks, FormRead
<1>4. Known' = Known
  BY <1>1 DEF Known
<1>5. ListsReach'
  BY <1>1, <1>4 DEF ReadInv, ListsReach
<1> QED BY <1>2, <1>3, <1>5 DEF ReadInv

LEMMA SaveReads ==
  ASSUME Box!InboxAssumption, BoxInv, ReadInv, OneSync, NEW server \in BOOLEAN, Box!SaveForm(server)
  PROVE  ReadInv'
<1> DEFINE config == [form EXCEPT !.set = acts']
<1>1. /\ form # None /\ row' \in Box!Rows /\ row'.removed = Box!Over(row.removed, form.removed)
      /\ DOMAIN row'.removed = DOMAIN row.removed \cup DOMAIN form.removed
      /\ DOMAIN row'.msgs = DOMAIN form.msgs \ DOMAIN row'.removed
      /\ \A m \in DOMAIN row'.msgs : row'.msgs[m] = form.msgs[m]
      /\ config \in Box!Rows /\ config.msgs = form.msgs /\ config.removed = form.removed
  BY BoxIs, SaveIs
<1>2. PICK s \in Slots : Box!Starts(s, config)
  BY DEF Box!SaveForm
<1> HIDE DEF config
<1>3. /\ form' = None /\ srv' = srv /\ (held' = row' \/ held' = held) /\ choices'.read = choices.read
  BY BoxIs DEF Box!SaveForm, Deeds
<1>4. /\ DOMAIN row'.removed = DOMAIN row.removed /\ \A m \in DOMAIN row.removed : row'.removed[m] = row.removed[m]
  <2>1. DOMAIN form.removed \subseteq DOMAIN row.removed
    BY <1>1 DEF ReadInv, FormRead
  <2> QED BY <1>1, <2>1 DEF Box!Over
<1>5. Numbered(form) /\ Numbered(row) /\ Known \subseteq srv.box /\ DOMAIN form.removed \subseteq DOMAIN row.removed
      /\ DOMAIN form.msgs \subseteq Known /\ DOMAIN row.removed \subseteq Known
  BY <1>1 DEF ReadInv, Numbers, ListsReach, FormRead, Known
<1>6. Numbered(config) /\ DOMAIN config.removed \subseteq srv.box
  BY <1>1, <1>5 DEF Numbered
<1>7. /\ \A t \in Slots : syncs'[t] # None => Numbered(syncs'[t].row)
      /\ \A t \in Slots : syncs'[t] # None => DOMAIN syncs'[t].row.removed \subseteq srv.box
      /\ \A t \in Slots : syncs'[t] # None /\ syncs'[t].step = "listed" => syncs'[t] = syncs[t] /\ syncs[t] # None
      /\ DOMAIN queue' \subseteq DOMAIN queue /\ \A m \in DOMAIN queue' : queue'[m] = queue[m]
  BY <1>1, <1>2, <1>6, StartReads
<1>8. Numbered(row)'
  BY <1>1, <1>4, <1>5 DEF Numbered
<1>9. Numbers'
  BY <1>3, <1>7, <1>8 DEF ReadInv, Numbers, Numbered
<1>10. ReadMarks'
  <2> SUFFICES ASSUME NEW m \in choices.read
               PROVE  /\ m \in DOMAIN row'.msgs \cup DOMAIN row'.removed
                      /\ m \in DOMAIN row'.msgs => row'.msgs[m].seen
                      /\ m \in DOMAIN row'.removed => row'.removed[m].seen
                      /\ m \in DOMAIN queue' => queue'[m].seen
    BY <1>3 DEF ReadMarks
  <2>1. m \in DOMAIN row.removed => row.removed[m].seen
    BY DEF ReadInv, ReadMarks
  <2>2. m \notin DOMAIN row.removed => m \in DOMAIN form.msgs /\ form.msgs[m].seen
    BY <1>1 DEF ReadInv, FormRead
  <2>3. m \in DOMAIN queue' => queue'[m].seen
    BY <1>7 DEF ReadInv, ReadMarks
  <2> QED BY <1>1, <1>4, <2>1, <2>2, <2>3
<1>11. FormRead'
  BY <1>3 DEF FormRead
<1>12. Known' \subseteq Known /\ DOMAIN row'.removed \subseteq Known
  BY <1>1, <1>3, <1>4, <1>5 DEF Known
<1>13. ListsReach'
  BY <1>3, <1>5, <1>7, <1>12 DEF ReadInv, ListsReach
<1> QED BY <1>9, <1>10, <1>11, <1>13 DEF ReadInv

LEMMA RestartReads == ASSUME BoxInv, ReadInv, Box!Restart PROVE ReadInv'
<1>1. /\ held' = row /\ form' = None /\ queue' = Box!Empty /\ UNCHANGED <<srv, row>>
      /\ \A t \in Slots : syncs'[t] = None
  BY DEF Box!Restart
<1>2. choices'.read = choices.read /\ DOMAIN queue' = {}
  BY <1>1, BoxIs DEF Box!Restart, Box!Empty, Deeds
<1>3. Numbers' /\ ReadMarks' /\ FormRead'
  BY <1>1, <1>2 DEF ReadInv, Numbers, Numbered, ReadMarks, FormRead
<1>4. ListsReach'
  BY <1>1 DEF ReadInv, ListsReach, Known
<1> QED BY <1>3, <1>4 DEF ReadInv

LEMMA StepReads ==
  ASSUME Box!InboxAssumption, Reads, BoxInv, ReadInv, [Box!Next]_(Box!vars) PROVE ReadInv'
<1>1. CASE Box!Sync
  BY <1>1, PollReads, SyncInboxReads, LandReads, FailReads DEF Box!Sync, Reads
<1>2. CASE Box!Push
  BY <1>2, EventReads, AnswerReads DEF Box!Push
<1>3. CASE Box!User
  <2>1. ~Box!ClearRemoved
    BY DEF Reads, Box!ClearRemoved, Box!AtHand, Box!Acts
  <2> QED
    BY <1>3, <2>1, MarkReadReads, TagReads, RemoveReads, RestoreReads, ArchiveReads, ImagesReads,
       OpenReads, SaveReads DEF Box!User, Reads
<1>4. CASE Box!Renumber
  BY <1>4 DEF Reads, Box!Renumber, Box!Acts
<1>5. CASE Box!Restart \/ \E m \in Mail : Box!Arrive(m)
  BY <1>5, RestartReads, ArriveReads
<1>6. CASE UNCHANGED Box!vars
  BY <1>6, QuietReads DEF Box!vars, Box!ghosts
<1> QED BY <1>1, <1>2, <1>3, <1>4, <1>5, <1>6 DEF Box!Next

LEMMA ReadsStay == ASSUME ReadInv PROVE Box!ReadStays
BY DEF ReadInv, ReadMarks, Box!ReadStays, Box!Listed

\* One sync at a time, and a box that is never renumbered nor emptied: what the user read is
\* read in the list, however late its mark reaches the server (mergeSeenFlags).
THEOREM ReadStaysHolds ==
  ASSUME Box!InboxAssumption, Reads PROVE Box!Spec => []Box!ReadStays
<1>1. Box!Init => ReadInv
  BY InitReads
<1>2. BoxInv /\ ReadInv /\ [Box!Next]_(Box!vars) => ReadInv'
  BY StepReads
<1>3. ReadInv => Box!ReadStays
  BY ReadsStay
<1> QED BY <1>1, <1>2, <1>3, BoxInvHolds, PTL DEF Box!Spec

-----------------------------------------------------------------------------
(* What arrives is announced once *)

LEMMA InitNews == ASSUME Box!InboxAssumption, Box!Init PROVE NewsInv
<1> PICK box \in SUBSET Mail, synced \in BOOLEAN,
         keys \in IF "archive" \in Does THEN {Box!NoKeys, {}} ELSE {Box!NoKeys} :
         Box!Init!(box, synced, keys)
  BY DEF Box!Init
<1>1. /\ srv.box = box /\ srv.seen = {} /\ held = row /\ form = None /\ base = None
      /\ syncs = [s \in Slots |-> None] /\ row.removed = Box!Empty /\ row.synced = synced
      /\ queue = Box!Empty /\ pushes = {}
      /\ row.msgs = IF synced THEN [m \in box |-> [seen |-> FALSE, tag |-> FALSE, val |-> 1]]
                    ELSE Box!Empty
      /\ told = [m \in Mail |-> IF synced /\ m \in box THEN 3 ELSE 0]
  BY DEF Box!Old
<1>2. DOMAIN Box!Empty = {}
  BY DEF Box!Empty
<1>3. DOMAIN row.msgs = IF synced THEN box ELSE {}
  BY <1>1, <1>2
<1>4. ToldInv
  <2>1. \A m \in Mail : told[m] = IF synced /\ m \in box THEN 3 ELSE 0
    BY <1>1
  <2>2. DOMAIN row.msgs = {m \in Mail : told[m] # 0} /\ \A m \in Mail : told[m] # 2
    BY <1>3, <2>1
  <2> QED BY <1>1, <1>2, <1>3, <2>2 DEF ToldInv
<1>5. BaseInv /\ NothingRemoved /\ NewsListed
  BY <1>1, <1>2 DEF BaseInv, NothingRemoved, NewsListed
<1> QED BY <1>4, <1>5 DEF NewsInv

\* Steps that leave the row, what is compared and what was told alone.
LEMMA RestNews ==
  ASSUME NewsInv, UNCHANGED <<held, form, base, told>>,
         DOMAIN row'.msgs = DOMAIN row.msgs, DOMAIN row'.removed = DOMAIN row.removed,
         row'.synced = row.synced,
         srv.box \subseteq srv'.box, srv'.seen \subseteq DOMAIN row.msgs,
         DOMAIN queue' \subseteq DOMAIN row.msgs, \A p \in pushes' : p.mail \in DOMAIN row.msgs,
         \A t \in Slots : syncs'[t] # None => DOMAIN syncs'[t].row.removed = {},
         \A t \in Slots : syncs'[t] # None =>
           /\ base = None => syncs'[t].was = IF row.synced THEN DOMAIN row.msgs ELSE {None}
           /\ syncs'[t].step = "listed" =>
                /\ syncs'[t].row.synced /\ DOMAIN row.msgs \subseteq DOMAIN syncs'[t].row.msgs
                /\ DOMAIN syncs'[t].row.msgs \subseteq srv'.box
                /\ \A m \in DOMAIN syncs'[t].row.msgs :
                     syncs'[t].row.msgs[m].seen => m \in DOMAIN row.msgs
  PROVE  NewsInv'
<1>1. ToldInv'
  BY DEF NewsInv, ToldInv
<1>2. BaseInv'
  BY DEF NewsInv, BaseInv
<1>3. NothingRemoved'
  BY DEF NewsInv, NothingRemoved
<1>4. NewsListed'
  BY DEF NewsListed
<1> QED BY <1>1, <1>2, <1>3, <1>4 DEF NewsInv

LEMMA QuietNews ==
  ASSUME NewsInv, UNCHANGED <<held, form, base, told, syncs>>,
         DOMAIN row'.msgs = DOMAIN row.msgs, DOMAIN row'.removed = DOMAIN row.removed,
         row'.synced = row.synced,
         srv.box \subseteq srv'.box, srv'.seen \subseteq DOMAIN row.msgs,
         DOMAIN queue' \subseteq DOMAIN row.msgs, \A p \in pushes' : p.mail \in DOMAIN row.msgs
  PROVE  NewsInv'
<1>1. \A t \in Slots : syncs'[t] # None => DOMAIN syncs'[t].row.removed = {}
  BY DEF NewsInv, NothingRemoved
<1>2. \A t \in Slots : syncs'[t] # None =>
        /\ base = None => syncs'[t].was = IF row.synced THEN DOMAIN row.msgs ELSE {None}
        /\ syncs'[t].step = "listed" =>
             /\ syncs'[t].row.synced /\ DOMAIN row.msgs \subseteq DOMAIN syncs'[t].row.msgs
             /\ DOMAIN syncs'[t].row.msgs \subseteq srv'.box
             /\ \A m \in DOMAIN syncs'[t].row.msgs : syncs'[t].row.msgs[m].seen => m \in DOMAIN row.msgs
  BY DEF NewsInv, NewsListed
<1> QED BY <1>1, <1>2, RestNews

LEMMA NewsIs ==
  ASSUME NewsInv
  PROVE  /\ srv.seen \subseteq DOMAIN row.msgs /\ DOMAIN row.msgs \subseteq srv.box
         /\ DOMAIN queue \subseteq DOMAIN row.msgs /\ \A p \in pushes : p.mail \in DOMAIN row.msgs
BY DEF NewsInv, ToldInv

LEMMA ArriveNews == ASSUME BoxInv, NewsInv, NEW m \in Mail, Box!Arrive(m) PROVE NewsInv'
<1>1. srv.box \subseteq srv'.box /\ srv'.seen = srv.seen
  BY BoxIs DEF BoxTypes, RowTypes, Box!Arrive
<1>2. UNCHANGED <<row, held, form, queue, pushes, syncs, base, told>>
  BY DEF Box!Arrive, Box!ghosts
<1> QED BY <1>1, <1>2, NewsIs, QuietNews

LEMMA AnswerNews ==
  ASSUME BoxInv, NewsInv, NEW p \in pushes, Box!Confirmed(p) \/ Box!Refused(p) PROVE NewsInv'
<1>1. p \in Posted /\ RowTypes /\ p.mail \in DOMAIN row.msgs
  BY NewsIs DEF BoxInv, BoxTypes, WayTypes
<1>2. srv'.box = srv.box /\ srv'.seen \subseteq srv.seen \cup {p.mail}
  <2>1. CASE Box!SetServerSeenFlag(p)
    BY <1>1, <2>1, ServerFlag
  <2>2. CASE UNCHANGED srv
    BY <2>2
  <2> QED BY <2>1, <2>2 DEF Box!Confirmed, Box!Refused
<1>3. DOMAIN queue' \subseteq DOMAIN queue /\ pushes' \subseteq pushes
  BY ConfirmedKeepsBox DEF Box!Confirmed, Box!Refused
<1>4. UNCHANGED <<row, held, form, syncs, base, told>>
  BY DEF Box!Confirmed, Box!Refused, Box!ghosts
<1> QED BY <1>1, <1>2, <1>3, <1>4, NewsIs, QuietNews

LEMMA BeginNews ==
  ASSUME BoxInv, NewsInv, NEW s \in Slots, NEW config \in {held, row}, Box!Starts(s, config),
         UNCHANGED <<srv, row, held, form, base, told>>
  PROVE  NewsInv'
<1> DEFINE was == IF config.synced THEN DOMAIN config.msgs ELSE {None}
           new == [step |-> "flush", row |-> config, was |-> was]
<1>1. config \in Box!Rows
  BY BoxIs DEF BoxTypes, RowTypes
<1>2. /\ syncs' = [syncs EXCEPT ![s] = new] /\ DOMAIN queue' \subseteq DOMAIN queue
      /\ \A p \in pushes' \ pushes : p.mail \in DOMAIN queue
  BY <1>1, BoxIs, StartsIs DEF Box!Owed
<1>3. DOMAIN config.removed = {}
  BY DEF NewsInv, NothingRemoved
<1>4. base = None => was = IF row.synced THEN DOMAIN row.msgs ELSE {None}
  BY DEF NewsInv, BaseInv
<1> HIDE DEF was
<1>5. new.row = config /\ new.step = "flush" /\ new.was = was
  OBVIOUS
<1> HIDE DEF new
<1>6. syncs'[s] = new /\ \A t \in Slots \ {s} : syncs'[t] = syncs[t]
  <2>1. syncs \in [Slots -> Syncing \cup {None}]
    BY BoxIs DEF BoxTypes, WayTypes
  <2> QED BY <1>2, <2>1
<1>7. \A t \in Slots : syncs'[t] # None => DOMAIN syncs'[t].row.removed = {}
  BY <1>3, <1>5, <1>6 DEF NewsInv, NothingRemoved
<1>8. \A t \in Slots : syncs'[t] # None =>
        /\ base = None => syncs'[t].was = IF row.synced THEN DOMAIN row.msgs ELSE {None}
        /\ syncs'[t].step = "listed" =>
             /\ syncs'[t].row.synced /\ DOMAIN row.msgs \subseteq DOMAIN syncs'[t].row.msgs
             /\ DOMAIN syncs'[t].row.msgs \subseteq srv'.box
             /\ \A m \in DOMAIN syncs'[t].row.msgs : syncs'[t].row.msgs[m].seen => m \in DOMAIN row.msgs
  BY <1>4, <1>5, <1>6 DEF NewsInv, NewsListed
<1>9. DOMAIN queue' \subseteq DOMAIN row.msgs /\ \A p \in pushes' : p.mail \in DOMAIN row.msgs
  BY <1>2, NewsIs
<1> QED BY <1>7, <1>8, <1>9, NewsIs, RestNews

LEMMA PollNews == ASSUME BoxInv, NewsInv, NEW s \in Slots, Box!Poll(s) PROVE NewsInv'
<1>1. PICK config \in {held, row} : Box!Starts(s, config)
  BY DEF Box!Poll
<1> QED BY <1>1, BeginNews DEF Box!Poll, Box!ghosts

LEMMA EventNews == ASSUME BoxInv, NewsInv, NEW m \in Mail, Box!InboxEvent(m) PROVE NewsInv'
<1>1. CASE UNCHANGED <<syncs, busy, pushes, queue>>
  <2>1. UNCHANGED <<srv, row, held, form, queue, pushes, syncs, base, told>>
    BY <1>1 DEF Box!InboxEvent
  <2> QED BY <2>1, NewsIs, QuietNews
<1>2. CASE \E s \in Slots : Box!Starts(s, held)
  <2>1. PICK s \in Slots : Box!Starts(s, held)
    BY <1>2
  <2> QED BY <2>1, BeginNews DEF Box!InboxEvent
<1> QED BY <1>1, <1>2 DEF Box!InboxEvent

LEMMA SyncInboxNews == ASSUME BoxInv, NewsInv, NEW s \in Slots, Box!SyncInbox(s) PROVE NewsInv'
<1> DEFINE config == syncs[s].row
           in  == Box!Fetched(config)
           was == syncs[s].was
           new == [step |-> "listed", row |-> in, was |-> was]
<1>1. syncs[s] # None /\ config \in Box!Rows /\ syncs' = [syncs EXCEPT ![s] = new]
  BY BoxIs, SyncInboxIs
<1>2. /\ DOMAIN in.msgs = srv.box /\ in.removed = config.removed /\ in.synced = TRUE
      /\ \A m \in srv.box : in.msgs[m].seen <=> m \in srv.seen
  <2> HIDE DEF config
  <2> QED BY <1>1, BoxIs, FetchedIs
<1>3. DOMAIN config.removed = {} /\ (base = None => was = IF row.synced THEN DOMAIN row.msgs ELSE {None})
  BY <1>1 DEF NewsInv, NothingRemoved, NewsListed
<1> HIDE DEF in, config, was
<1>4. new.row = in /\ new.was = was
  OBVIOUS
<1> HIDE DEF new
<1>5. syncs'[s] = new /\ \A t \in Slots \ {s} : syncs'[t] = syncs[t]
  <2>1. syncs \in [Slots -> Syncing \cup {None}]
    BY BoxIs DEF BoxTypes, WayTypes
  <2> QED BY <1>1, <2>1
<1>6. \A t \in Slots : syncs'[t] # None => DOMAIN syncs'[t].row.removed = {}
  BY <1>2, <1>3, <1>4, <1>5 DEF NewsInv, NothingRemoved
<1>7. UNCHANGED <<srv, row, held, form, queue, pushes, base, told>>
  BY DEF Box!SyncInbox, Box!ghosts
<1>8. \A t \in Slots : syncs'[t] # None =>
        /\ base = None => syncs'[t].was = IF row.synced THEN DOMAIN row.msgs ELSE {None}
        /\ syncs'[t].step = "listed" =>
             /\ syncs'[t].row.synced /\ DOMAIN row.msgs \subseteq DOMAIN syncs'[t].row.msgs
             /\ DOMAIN syncs'[t].row.msgs \subseteq srv'.box
             /\ \A m \in DOMAIN syncs'[t].row.msgs : syncs'[t].row.msgs[m].seen => m \in DOMAIN row.msgs
  <2> SUFFICES ASSUME NEW t \in Slots, syncs'[t] # None
               PROVE  /\ base = None => syncs'[t].was = IF row.synced THEN DOMAIN row.msgs ELSE {None}
                      /\ syncs'[t].step = "listed" =>
                           /\ syncs'[t].row.synced /\ DOMAIN row.msgs \subseteq DOMAIN syncs'[t].row.msgs
                           /\ DOMAIN syncs'[t].row.msgs \subseteq srv'.box
                           /\ \A m \in DOMAIN syncs'[t].row.msgs :
                                syncs'[t].row.msgs[m].seen => m \in DOMAIN row.msgs
    OBVIOUS
  <2>1. CASE t = s
    BY <1>2, <1>3, <1>4, <1>5, <1>7, <2>1, NewsIs
  <2>2. CASE t # s
    BY <1>5, <1>7, <2>2 DEF NewsInv, NewsListed
  <2> QED BY <2>1, <2>2
<1> QED BY <1>6, <1>7, <1>8, NewsIs, RestNews

\* What a sync is compared with is what is listed, unless nothing ever was.
LEMMA BaselineIs ==
  ASSUME Box!InboxAssumption, BoxInv, NewsInv, NEW s \in Slots, syncs[s] # None
  PROVE  /\ Box!Baseline(s) = {None} <=> ~row.synced
         /\ row.synced => Box!Baseline(s) = DOMAIN row.msgs
<1>1. None \notin DOMAIN row.msgs
  <2>1. DOMAIN row.msgs \subseteq Mail
    BY BoxIs, RowIs, ListingIs
  <2> QED BY <2>1, BoxAssumed
<1>2. row.synced \in BOOLEAN
  BY BoxIs, RowIs
<1>3. base = None => Box!Baseline(s) = IF row.synced THEN DOMAIN row.msgs ELSE {None}
  BY DEF NewsInv, NewsListed, Box!Baseline
<1>4. base # None => Box!Baseline(s) = DOMAIN row.msgs /\ row.synced
  BY DEF NewsInv, BaseInv, Box!Baseline
<1> QED BY <1>1, <1>2, <1>3, <1>4

LEMMA LandNews ==
  ASSUME Box!InboxAssumption, BoxInv, NewsInv, OneSync, NEW s \in Slots, Box!Land(s) PROVE NewsInv'
<1> DEFINE in == syncs[s].row
<1>1. /\ DOMAIN row'.removed = DOMAIN row.removed \cup DOMAIN in.removed
      /\ DOMAIN row'.msgs = DOMAIN in.msgs \ DOMAIN row'.removed /\ row'.synced = in.synced
  BY BoxIs, LandIs
<1>2. syncs[s] # None /\ DOMAIN row.removed = {} /\ DOMAIN in.removed = {}
  BY DEF Box!Land, NewsInv, NothingRemoved
<1>3. /\ in.synced /\ DOMAIN row.msgs \subseteq DOMAIN in.msgs /\ DOMAIN in.msgs \subseteq srv.box
      /\ \A m \in DOMAIN in.msgs : in.msgs[m].seen => m \in DOMAIN row.msgs
  BY <1>2 DEF Box!Land, NewsInv, NewsListed
<1>4. \A t \in Slots : syncs'[t] = None
  BY FreedReads DEF Box!Land
<1>5. base' = DOMAIN in.msgs /\ base' \in SUBSET Mail
  BY BoxIs, AnnouncedAre
<1>6. base' # None
  BY <1>5, BoxAssumed
<1>7. UNCHANGED <<srv, held, form, queue, pushes>>
  BY DEF Box!Land
<1>8. DOMAIN row'.msgs = base' /\ row'.synced
  BY <1>1, <1>2, <1>3, <1>5
<1>9. DOMAIN row.msgs = {m \in Mail : told[m] # 0} /\ \A m \in Mail : told[m] # 2 /\ told[m] \in 0..3
  BY BoxIs DEF NewsInv, ToldInv, BoxTypes, CountTypes
<1>10. ASSUME NEW m \in Mail PROVE (told'[m] # 0 <=> m \in base') /\ told'[m] # 2
  <2>1. told'[m] = IF m \in Box!Arrivals(s) THEN (IF told[m] < 2 THEN told[m] + 1 ELSE 2)
                   ELSE IF m \in base' /\ Box!Baseline(s) = {None} THEN 3 ELSE told[m]
    BY DEF Box!Land, Box!Announce, Box!Old
  <2>2. CASE ~row.synced
    <3>1. Box!Baseline(s) = {None} /\ DOMAIN row.msgs = {}
      BY <1>2, <2>2, BaselineIs DEF NewsInv, ToldInv
    <3>2. m \notin Box!Arrivals(s)
      BY <3>1 DEF Box!Arrivals
    <3> QED BY <1>9, <2>1, <3>1, <3>2
  <2>3. CASE row.synced
    <3>1. Box!Baseline(s) = DOMAIN row.msgs /\ Box!Baseline(s) # {None}
      BY <1>2, <2>3, BaselineIs
    <3>2. m \in Box!Arrivals(s) <=> m \in base' \ DOMAIN row.msgs
      BY <1>3, <1>5, <3>1 DEF Box!Arrivals
    <3>3. m \in Box!Arrivals(s) => told[m] = 0
      BY <1>9, <3>2
    <3> QED BY <1>3, <1>5, <1>9, <2>1, <3>1, <3>2, <3>3
  <2> QED BY <2>2, <2>3
<1>11. ToldInv'
  <2>1. DOMAIN row'.msgs = {m \in Mail : told'[m] # 0} /\ \A m \in Mail : told'[m] # 2
    BY <1>5, <1>8, <1>10
  <2>2. DOMAIN row.msgs \subseteq DOMAIN row'.msgs
    BY <1>3, <1>5, <1>8
  <2>3. DOMAIN row'.msgs \subseteq srv'.box
    BY <1>3, <1>5, <1>7, <1>8
  <2> QED BY <1>7, <1>8, <2>1, <2>2, <2>3, NewsIs DEF ToldInv
<1>12. BaseInv'
  BY <1>6, <1>8 DEF BaseInv
<1>13. NothingRemoved' /\ NewsListed'
  BY <1>1, <1>2, <1>4, <1>7 DEF NewsInv, NothingRemoved, NewsListed
<1> QED BY <1>11, <1>12, <1>13 DEF NewsInv

LEMMA FailNews == ASSUME BoxInv, NewsInv, OneSync, NEW s \in Slots, Box!Fail(s) PROVE NewsInv'
<1>1. /\ DOMAIN row'.removed = DOMAIN row.removed /\ DOMAIN row'.msgs = DOMAIN row.msgs
      /\ row'.synced = row.synced
  BY FailIs DEF BoxInv
<1>2. \A t \in Slots : syncs'[t] = None
  BY FreedReads DEF Box!Fail
<1>3. UNCHANGED <<srv, held, form, queue, pushes, base, told>>
  BY DEF Box!Fail, Box!ghosts
<1> QED BY <1>1, <1>2, <1>3, NewsIs, RestNews

LEMMA MarkReadNews ==
  ASSUME BoxInv, NewsInv, NEW m \in Mail, NEW seen \in BOOLEAN, Box!MarkRead(m, seen) PROVE NewsInv'
<1>1. /\ row'.removed = row.removed /\ DOMAIN row'.msgs = DOMAIN row.msgs /\ m \in DOMAIN row.msgs
      /\ row'.synced = row.synced /\ DOMAIN queue' = {m} \cup DOMAIN queue
  BY BoxIs, MarkIs
<1>2. \A p \in pushes' : p \in pushes \/ p.mail = m
  BY DEF Box!MarkRead
<1>3. UNCHANGED <<srv, held, form, syncs, base, told>>
  BY DEF Box!MarkRead
<1> QED BY <1>1, <1>2, <1>3, NewsIs, QuietNews

LEMMA TagNews == ASSUME BoxInv, NewsInv, NEW m \in Mail, Box!Tag(m) PROVE NewsInv'
<1>1. row'.removed = row.removed /\ DOMAIN row'.msgs = DOMAIN row.msgs /\ row'.synced = row.synced
  BY BoxIs, TagIs
<1>2. UNCHANGED <<srv, held, form, queue, pushes, syncs, base, told>>
  BY DEF Box!Tag
<1> QED BY <1>1, <1>2, NewsIs, QuietNews

LEMMA ArchiveNews ==
  ASSUME BoxInv, NewsInv, NEW m \in Mail, Box!Archive(m) \/ Box!Unarchive(m) PROVE NewsInv'
<1>1. row'.msgs = row.msgs /\ row'.removed = row.removed /\ row'.synced = row.synced
  <2>1. row \in Box!Rows
    BY BoxIs
  <2> QED BY <2>1 DEF Box!Archive, Box!Unarchive, Box!Rows
<1>2. UNCHANGED <<srv, held, form, queue, pushes, syncs, base, told>>
  BY DEF Box!Archive, Box!Unarchive
<1> QED BY <1>1, <1>2, NewsIs, QuietNews

LEMMA ImagesNews == ASSUME BoxInv, NewsInv, Box!ChooseImages PROVE NewsInv'
<1>1. /\ DOMAIN row'.removed = DOMAIN row.removed /\ DOMAIN row'.msgs = DOMAIN row.msgs
      /\ row'.synced = row.synced
  BY BoxIs, ImagesIs DEF BoxInv
<1>2. UNCHANGED <<srv, held, form, queue, pushes, syncs, base, told>>
  BY DEF Box!ChooseImages
<1> QED BY <1>1, <1>2, NewsIs, QuietNews

LEMMA RestartNews == ASSUME BoxInv, NewsInv, Box!Restart PROVE NewsInv'
<1>1. /\ held' = row /\ form' = None /\ queue' = Box!Empty /\ pushes' = {} /\ base' = None
      /\ UNCHANGED <<srv, row, told>> /\ \A t \in Slots : syncs'[t] = None
  BY DEF Box!Restart
<1>2. DOMAIN queue' = {}
  BY <1>1 DEF Box!Empty
<1>3. ToldInv'
  BY <1>1, <1>2 DEF NewsInv, ToldInv
<1>4. BaseInv' /\ NothingRemoved' /\ NewsListed'
  BY <1>1 DEF NewsInv, BaseInv, NothingRemoved, NewsListed
<1> QED BY <1>3, <1>4 DEF NewsInv

LEMMA StepNews ==
  ASSUME Box!InboxAssumption, Announces, BoxInv, NewsInv, [Box!Next]_(Box!vars) PROVE NewsInv'
<1>1. CASE Box!Sync
  BY <1>1, PollNews, SyncInboxNews, LandNews, FailNews DEF Box!Sync, Announces
<1>2. CASE Box!Push
  BY <1>2, EventNews, AnswerNews DEF Box!Push
<1>3. CASE Box!User
  <2>1. ~Box!ClearRemoved /\ ~Box!OpenForm /\ \A server \in BOOLEAN : ~Box!SaveForm(server)
    BY DEF Announces, Box!ClearRemoved, Box!OpenForm, Box!SaveForm, Box!AtHand, Box!Acts
  <2>2. \A m \in Mail : ~Box!RemoveMessage(m) /\ ~Box!RestoreMessage(m)
    BY DEF Announces, Box!RemoveMessage, Box!RestoreMessage, Box!AtHand, Box!Acts
  <2> QED
    BY <1>3, <2>1, <2>2, MarkReadNews, TagNews, ArchiveNews, ImagesNews DEF Box!User
<1>4. CASE Box!Renumber
  BY <1>4 DEF Announces, Box!Renumber, Box!Acts
<1>5. CASE Box!Restart \/ \E m \in Mail : Box!Arrive(m)
  BY <1>5, RestartNews, ArriveNews
<1>6. CASE UNCHANGED Box!vars
  <2>1. UNCHANGED <<srv, row, held, form, queue, pushes, syncs, base, told>>
    BY <1>6 DEF Box!vars, Box!ghosts
  <2> QED BY <2>1, NewsIs, QuietNews
<1> QED BY <1>1, <1>2, <1>3, <1>4, <1>5, <1>6 DEF Box!Next

LEMMA NewsAreTold == ASSUME BoxInv, NewsInv PROVE Box!ToldOnce /\ Box!ToldAll
<1>1. DOMAIN row.msgs \subseteq Mail
  BY BoxIs, RowIs, ListingIs
<1> QED BY <1>1 DEF NewsInv, ToldInv, Box!ToldOnce, Box!ToldAll, Box!Listed

\* One sync at a time, nothing removed and the dialog not used: what arrives after the first
\* sync is announced when it is listed, and once, restarts included (seenInboxIds).
THEOREM AnnouncedHolds ==
  ASSUME Box!InboxAssumption, Announces PROVE Box!Spec => [](Box!ToldOnce /\ Box!ToldAll)
<1>1. Box!Init => NewsInv
  BY InitNews
<1>2. BoxInv /\ NewsInv /\ [Box!Next]_(Box!vars) => NewsInv'
  BY StepNews
<1>3. BoxInv /\ NewsInv => Box!ToldOnce /\ Box!ToldAll
  BY NewsAreTold
<1> QED BY <1>1, <1>2, <1>3, BoxInvHolds, PTL DEF Box!Spec

-----------------------------------------------------------------------------
(* The push watchers *)

Asked   == [on : BOOLEAN, host : 0..1, secret : (0..2) \cup {None}]
Workers  == [key : Watch!Keys \cup {None}, stopped : BOOLEAN, timer : BOOLEAN,
            client : Sockets \cup {None}]

\* The types that matter here.
IdleTypes ==
  /\ account \in [on : BOOLEAN, host : 0..1, secret : 0..2, grant : BOOLEAN]
  /\ calls \in Seq(Asked)
  /\ pool \in Watchers \cup {None}
  /\ watcher \in [Watchers -> Workers]
  /\ slot \in [Sockets -> Watch!Attempts \cup {None}]
  /\ quit \in BOOLEAN

\* The watcher in the map is one that was made and not stopped.
PoolLives == pool # None => ~watcher[pool].stopped /\ watcher[pool].key \in Watch!Keys

\* A watcher that was stopped waits for nothing.
StoppedRests == \A w \in Watchers : watcher[w].stopped => ~watcher[w].timer

\* The connection s is up, and it is one of w.
IsUp(s, w) == slot[s] \in Watch!Attempts /\ slot[s].of = w /\ slot[s].step = "up"

\* The client of a watcher that was not stopped is a connection of its own that is up.
ClientsAreUp ==
  \A w \in Watchers, s \in Sockets : ~watcher[w].stopped /\ watcher[w].client = s => IsUp(s, w)

\* The attempt s of w is under way.
Tries(s, w) == slot[s] # None /\ slot[s].of = w /\ slot[s].step \notin {"up", "leaving"}

\* A watcher makes one attempt, or waits to, or has a client.
OneThing ==
  \A w \in Watchers :
    /\ \A s, t \in Sockets : Tries(s, w) /\ Tries(t, w) => s = t
    /\ \A s \in Sockets : Tries(s, w) => ~watcher[w].timer /\ watcher[w].client = None
    /\ watcher[w].timer => watcher[w].client = None

\* Attempts and connections are of watchers that were made.
AreBorn ==
  /\ \A s \in Sockets : slot[s] # None => watcher[slot[s].of].key # None
  /\ \A w \in Watchers : watcher[w].timer => watcher[w].key # None

IdleInv == IdleTypes /\ PoolLives /\ StoppedRests /\ ClientsAreUp /\ OneThing /\ AreBorn

-----------------------------------------------------------------------------

LEMMA InitIdle == ASSUME Watch!InboxIdleAssumption, Watch!Init PROVE IdleInv
<1>1. Watch!Unborn \in Workers /\ ~Watch!Unborn.stopped /\ Watch!Unborn.client = None
      /\ ~Watch!Unborn.timer
  BY DEF Workers, Watch!Unborn
<1>2. calls \in Seq(Asked)
  BY DEF Watch!Init, Asked
<1>3. OneThing /\ AreBorn
  BY <1>1 DEF Watch!InboxIdleAssumption, Watch!Init, OneThing, Tries, AreBorn
<1>4. account \in [on : BOOLEAN, host : 0..1, secret : 0..2, grant : BOOLEAN]
  <2>1. PICK grant \in BOOLEAN :
          account = [on |-> TRUE, host |-> 0, secret |-> IF grant THEN 0 ELSE 1, grant |-> grant]
    BY Zenon DEF Watch!Init
  <2>2. (IF grant THEN 0 ELSE 1) \in 0..2
    BY <2>1
  <2> QED BY <2>1, <2>2
<1>5. IdleTypes
  BY <1>1, <1>2, <1>4 DEF Watch!Init, IdleTypes
<1> QED
  BY <1>1, <1>3, <1>5 DEF Watch!InboxIdleAssumption, Watch!Init, IdleInv, PoolLives,
     StoppedRests, ClientsAreUp

\* What the renderer and the secrets do leaves the watchers alone.
LEMMA EditIdle ==
  ASSUME IdleInv, NEW new \in [on : BOOLEAN, host : 0..1, secret : 0..2, grant : BOOLEAN], Watch!Edit(new)
  PROVE  IdleInv' /\ Watch!StoppedStartsNothing
<1>1. [on |-> new.on, host |-> new.host, secret |-> None] \in Asked
  BY DEF Asked
<1>2. calls' \in Seq(Asked)
  BY <1>1 DEF IdleInv, IdleTypes, Watch!Edit
<1> QED
  BY <1>2 DEF IdleInv, IdleTypes, PoolLives, StoppedRests, ClientsAreUp, IsUp,
     OneThing, Tries, AreBorn, Watch!StoppedStartsNothing, Watch!Edit

LEMMA SwitchIdle == ASSUME IdleInv, Watch!Switch PROVE IdleInv' /\ Watch!StoppedStartsNothing
<1>1. [account EXCEPT !.on = ~@] \in [on : BOOLEAN, host : 0..1, secret : 0..2, grant : BOOLEAN]
  BY DEF IdleInv, IdleTypes
<1> QED BY <1>1, EditIdle DEF Watch!Switch

LEMMA ChangeHostIdle == ASSUME IdleInv, Watch!ChangeHost PROVE IdleInv' /\ Watch!StoppedStartsNothing
<1>1. [account EXCEPT !.host = 1] \in [on : BOOLEAN, host : 0..1, secret : 0..2, grant : BOOLEAN]
  BY DEF IdleInv, IdleTypes
<1> QED BY <1>1, EditIdle DEF Watch!ChangeHost

LEMMA ChangeSecretIdle == ASSUME IdleInv, Watch!ChangeSecret PROVE IdleInv' /\ Watch!StoppedStartsNothing
BY DEF IdleInv, IdleTypes, PoolLives, StoppedRests, ClientsAreUp, IsUp, OneThing, Tries, AreBorn,
   Watch!StoppedStartsNothing, Watch!ChangeSecret

LEMMA GatherIdle ==
  ASSUME IdleInv, NEW i \in DOMAIN calls, Watch!Gather(i)
  PROVE  IdleInv' /\ Watch!StoppedStartsNothing
<1>1. calls \in Seq(Asked) /\ calls[i] \in Asked /\ account.secret \in 0..2
  BY DEF IdleInv, IdleTypes
<1>2. [calls[i] EXCEPT !.secret = account.secret] \in Asked
  BY <1>1 DEF Asked
<1>3. calls' \in Seq(Asked)
  BY <1>1, <1>2 DEF Watch!Gather
<1> QED
  BY <1>3 DEF IdleInv, IdleTypes, PoolLives, StoppedRests, ClientsAreUp, IsUp,
     OneThing, Tries, AreBorn, Watch!StoppedStartsNothing, Watch!Gather

\* Stopping the watcher in the map lets its connection go, and touches no other.
LEMMA StoppingPool ==
  ASSUME Watch!InboxIdleAssumption, IdleInv
  PROVE  /\ Watch!Stopping(pool) \in [Watchers -> Workers]
         /\ \A w \in Watchers : w # pool => Watch!Stopping(pool)[w] = watcher[w]
         /\ pool # None => Watch!Stopping(pool)[pool].stopped /\ ~Watch!Stopping(pool)[pool].timer
         /\ Watch!Let(pool) \in [Sockets -> Watch!Attempts \cup {None}]
         /\ \A s \in Sockets : Watch!Let(pool)[s] # None =>
              slot[s] # None /\ Watch!Let(pool)[s].of = slot[s].of
         /\ \A s \in Sockets, w \in Watchers : w # pool /\ IsUp(s, w) => Watch!Let(pool)[s] = slot[s]
         /\ \A s \in Sockets : slot[s] = None => Watch!Let(pool)[s] = None
         /\ \A s \in Sockets : \/ Watch!Let(pool)[s] = slot[s]
                               \/ Watch!Let(pool)[s] # None /\ Watch!Let(pool)[s].step = "leaving"
         /\ \A w \in Watchers :
              /\ Watch!Stopping(pool)[w].key = watcher[w].key
              /\ Watch!Stopping(pool)[w].timer => watcher[w].timer
              /\ Watch!Stopping(pool)[w].client \in {None, watcher[w].client}
<1>1. CASE pool = None
  BY <1>1 DEF Watch!InboxIdleAssumption, IdleInv, IdleTypes, Watch!Stopping, Watch!Let
<1>2. CASE pool # None
  <2>1. pool \in Watchers /\ ~watcher[pool].stopped
    BY <1>2 DEF IdleInv, IdleTypes, PoolLives
  <2>2. \A s \in Sockets : watcher[pool].client = s => IsUp(s, pool)
    BY <2>1 DEF IdleInv, ClientsAreUp
  <2>3. watcher \in [Watchers -> Workers] /\ watcher[pool] \in Workers
    BY <2>1 DEF IdleInv, IdleTypes
  <2>4. /\ Watch!Stops(watcher[pool]) \in Workers /\ Watch!Stops(watcher[pool]).stopped
        /\ ~Watch!Stops(watcher[pool]).timer /\ Watch!Stops(watcher[pool]).client = None
        /\ Watch!Stops(watcher[pool]).key = watcher[pool].key
    BY <2>3 DEF Workers, Watch!Stops
  <2>5. Watch!Stopping(pool) = [watcher EXCEPT ![pool] = Watch!Stops(watcher[pool])]
    BY <1>2 DEF Watch!Stopping
  <2>6. ASSUME NEW s \in Sockets, watcher[pool].client = s
        PROVE  /\ Watch!Let(pool)[s] \in Watch!Attempts /\ slot[s] # None
               /\ Watch!Let(pool)[s].step = "leaving"
               /\ Watch!Let(pool)[s].of = slot[s].of /\ slot[s].of = pool
    <3>1. IsUp(s, pool)
      BY <2>2, <2>6
    <3>2. Watch!Let(pool)[s] = [slot[s] EXCEPT !.step = "leaving"]
      BY <1>2, <2>6 DEF Watch!Let
    <3> QED BY <3>1, <3>2 DEF IsUp, Watch!Attempts, Watch!Steps, Watch!InboxIdleAssumption
  <2>7. ASSUME NEW s \in Sockets, watcher[pool].client # s PROVE Watch!Let(pool)[s] = slot[s]
    BY <2>7 DEF Watch!Let
  <2>8. Watch!Let(pool) \in [Sockets -> Watch!Attempts \cup {None}]
    <3>1. Watch!Let(pool) = [s \in Sockets |-> Watch!Let(pool)[s]]
      BY DEF Watch!Let
    <3>2. \A s \in Sockets : Watch!Let(pool)[s] \in Watch!Attempts \cup {None}
      BY <2>6, <2>7 DEF IdleInv, IdleTypes
    <3> QED BY <3>1, <3>2
  <2>9. \A s \in Sockets, w \in Watchers : w # pool /\ IsUp(s, w) => Watch!Let(pool)[s] = slot[s]
    BY <2>6, <2>7 DEF IsUp
  <2>10. \A w \in Watchers : /\ Watch!Stopping(pool)[w].key = watcher[w].key
                             /\ Watch!Stopping(pool)[w].timer => watcher[w].timer
                             /\ Watch!Stopping(pool)[w].client \in {None, watcher[w].client}
    BY <2>1, <2>3, <2>4, <2>5
  <2>11. \A s \in Sockets :
           \/ Watch!Let(pool)[s] = slot[s]
           \/ Watch!Let(pool)[s] # None /\ Watch!Let(pool)[s].step = "leaving"
    BY <2>6, <2>7 DEF Watch!InboxIdleAssumption
  <2> QED
    BY <1>2, <2>1, <2>3, <2>4, <2>5, <2>6, <2>7, <2>8, <2>9, <2>10, <2>11
<1> QED BY <1>1, <1>2

\* The watcher in the map is stopped, and no other takes its place.
LEMMA StoppedPool ==
  ASSUME Watch!InboxIdleAssumption, IdleInv, calls' \in Seq(Asked), account' = account,
         quit' \in BOOLEAN, pool' = None, watcher' = Watch!Stopping(pool), slot' = Watch!Let(pool)
  PROVE  IdleInv' /\ Watch!StoppedStartsNothing
<1>1. IdleTypes' /\ PoolLives'
  BY StoppingPool DEF IdleInv, IdleTypes, PoolLives
<1>2. StoppedRests'
  BY StoppingPool DEF IdleInv, IdleTypes, StoppedRests, Watch!InboxIdleAssumption
<1>3. ClientsAreUp'
  BY StoppingPool DEF IdleInv, ClientsAreUp, IsUp, Watch!InboxIdleAssumption
<1>4. Watch!StoppedStartsNothing
  BY <1>2, StoppingPool DEF IdleInv, IdleTypes, StoppedRests, Watch!StoppedStartsNothing,
     Watch!InboxIdleAssumption
<1>5. OneThing' /\ AreBorn'
  <2>1. \A s \in Sockets, w \in Watchers : Tries(s, w)' => Tries(s, w)
    BY StoppingPool DEF Tries
  <2>2. OneThing'
    BY <2>1, StoppingPool DEF IdleInv, OneThing
  <2>3. ASSUME NEW s \in Sockets, slot'[s] # None PROVE watcher'[slot'[s].of].key # None
    <3>1. slot[s] # None /\ slot'[s].of = slot[s].of /\ slot[s].of \in Watchers
      BY <2>3, StoppingPool DEF IdleInv, IdleTypes, Watch!Attempts
    <3> QED BY <3>1, StoppingPool DEF IdleInv, AreBorn
  <2>4. \A w \in Watchers : watcher'[w].timer => watcher'[w].key # None
    BY StoppingPool DEF IdleInv, AreBorn
  <2> QED BY <2>2, <2>3, <2>4 DEF AreBorn
<1> QED BY <1>1, <1>2, <1>3, <1>4, <1>5 DEF IdleInv

LEMMA ReconcileIdle ==
  ASSUME Watch!InboxIdleAssumption, IdleInv, NEW i \in DOMAIN calls, Watch!Reconcile(i)
  PROVE  IdleInv' /\ Watch!StoppedStartsNothing
<1> DEFINE call == calls[i]
           same == pool # None /\ Watch!Wants(call) /\ watcher[pool].key = Watch!Key(call)
<1>1. calls \in Seq(Asked) /\ calls' = Watch!RemoveAt(calls, i) /\ call \in Asked
  BY DEF IdleInv, IdleTypes, Watch!Reconcile
<1>2. calls' \in Seq(Asked)
  BY <1>1 DEF Watch!RemoveAt
<1>3. Watch!Key(call) \in Watch!Keys
  BY <1>1 DEF Watch!Reconcile, Watch!Key, Watch!Keys, Asked
<1>4. CASE same /\ UNCHANGED <<pool, watcher, slot>>
  BY <1>2, <1>4 DEF IdleInv, IdleTypes, PoolLives, StoppedRests, ClientsAreUp, IsUp,
     OneThing, Tries, AreBorn, Watch!StoppedStartsNothing, Watch!Reconcile
<1>5. CASE pool' = None /\ watcher' = Watch!Stopping(pool) /\ slot' = Watch!Let(pool)
  <2>1. account' = account /\ quit' \in BOOLEAN
    BY DEF Watch!Reconcile, IdleInv, IdleTypes
  <2> QED BY <1>2, <1>5, <2>1, StoppedPool
<1>6. ASSUME NEW w \in Watchers, NEW s \in Sockets,
             watcher[w] = Watch!Unborn, slot[s] = None, pool' = w,
             watcher' = [Watch!Stopping(pool) EXCEPT ![w].key = Watch!Key(call)],
             slot' = [Watch!Let(pool) EXCEPT ![s] = Watch!Attempt(w)]
      PROVE  IdleInv' /\ Watch!StoppedStartsNothing
  <2>1. w # pool
    BY <1>6 DEF IdleInv, PoolLives, Watch!Unborn, Watch!InboxIdleAssumption
  <2>2. Watch!Stopping(pool)[w] = Watch!Unborn /\ Watch!Unborn.stopped = FALSE /\ Watch!Unborn.timer = FALSE
        /\ Watch!Unborn.client = None
    BY <1>6, <2>1, StoppingPool DEF Watch!Unborn
  <2>3. Watch!Attempt(w) \in Watch!Attempts /\ Watch!Attempt(w).of = w
    BY DEF Watch!Attempt, Watch!Attempts, Watch!Steps, Watch!InboxIdleAssumption
  <2>4. [Watch!Unborn EXCEPT !.key = Watch!Key(call)] \in Workers
    BY <1>3 DEF Watch!Unborn, Workers
  <2>5. watcher' = [Watch!Stopping(pool) EXCEPT ![w] = [Watch!Unborn EXCEPT !.key = Watch!Key(call)]]
    BY <1>6, <2>2
  <2>6. /\ watcher'[w] = [Watch!Unborn EXCEPT !.key = Watch!Key(call)]
        /\ \A v \in Watchers : v # w => watcher'[v] = Watch!Stopping(pool)[v]
        /\ watcher' \in [Watchers -> Workers]
    BY <2>4, <2>5, StoppingPool
  <2>7. ~watcher'[w].stopped /\ ~watcher'[w].timer /\ watcher'[w].client = None
        /\ watcher'[w].key \in Watch!Keys
    BY <1>3, <2>6 DEF Watch!Unborn
  <2>8. IdleTypes'
    BY <1>2, <1>6, <2>3, <2>6, StoppingPool DEF IdleInv, IdleTypes, Watch!Reconcile
  <2>9. PoolLives' /\ StoppedRests'
    BY <1>6, <2>6, <2>7, StoppingPool DEF IdleInv, PoolLives, StoppedRests,
       Watch!InboxIdleAssumption
  <2>10. ClientsAreUp'
    <3> SUFFICES ASSUME NEW v \in Watchers, NEW r \in Sockets,
                        ~watcher'[v].stopped, watcher'[v].client = r
                 PROVE  IsUp(r, v)'
      BY DEF ClientsAreUp
    <3>1. v # w /\ v # pool
      <4>1. v # w
        BY <2>7 DEF Watch!InboxIdleAssumption
      <4>2. pool \in Watchers => Watch!Stopping(pool)[pool].stopped
        BY StoppingPool DEF Watch!InboxIdleAssumption
      <4>3. watcher'[v] = Watch!Stopping(pool)[v]
        BY <2>6, <4>1
      <4> QED BY <4>1, <4>2, <4>3
    <3>2. IsUp(r, v)
      BY <2>6, <3>1, StoppingPool DEF IdleInv, ClientsAreUp
    <3>3. r # s /\ Watch!Let(pool)[r] = slot[r]
      BY <1>6, <3>1, <3>2, StoppingPool DEF IsUp, Watch!InboxIdleAssumption
    <3> QED BY <1>6, <3>2, <3>3, StoppingPool DEF IsUp
  <2>11. Watch!StoppedStartsNothing
    <3> SUFFICES ASSUME NEW v \in Watchers, watcher[v].stopped
                 PROVE  /\ ~watcher'[v].timer
                        /\ \A r \in Sockets : (slot'[r] # None /\ slot'[r].of = v) =>
                             (slot[r] # None /\ slot[r].of = v)
      BY DEF Watch!StoppedStartsNothing, IdleInv, IdleTypes
    <3>1. v # w
      BY <1>6, <2>2
    <3>2. ~watcher'[v].timer
      BY <2>6, <3>1, StoppingPool DEF IdleInv, StoppedRests, Watch!InboxIdleAssumption
    <3> QED BY <1>6, <2>3, <3>1, <3>2, StoppingPool
  <2>12. OneThing'
    <3>1. \A r \in Sockets : ~Tries(r, w)
      BY <1>6, <2>2 DEF IdleInv, IdleTypes, AreBorn, Tries, Watch!Unborn
    <3>2. \A r \in Sockets, v \in Watchers :
            Tries(r, v)' => (v = w /\ r = s) \/ (v # w /\ Tries(r, v))
      <4>1. ASSUME NEW r \in Sockets, r # s, NEW v \in Watchers, Tries(r, v)' PROVE Tries(r, v)
        <5>1. slot'[r] = Watch!Let(pool)[r]
          BY <1>6, <4>1, StoppingPool
        <5> QED BY <4>1, <5>1, StoppingPool DEF Tries
      <4>2. slot'[s] = Watch!Attempt(w)
        BY <1>6, StoppingPool
      <4> QED BY <2>3, <3>1, <4>1, <4>2 DEF Tries
    <3>3. \A v \in Watchers \ {w} :
            /\ watcher'[v].timer => watcher[v].timer
            /\ watcher'[v].client \in {None, watcher[v].client}
      BY <2>6, StoppingPool
    <3> QED BY <2>7, <3>2, <3>3 DEF IdleInv, OneThing
  <2>13. AreBorn'
    <3>1. \A v \in Watchers : v # w => watcher'[v].key = watcher[v].key
      BY <2>6, StoppingPool
    <3>2. ASSUME NEW r \in Sockets, slot'[r] # None PROVE watcher'[slot'[r].of].key # None
      <4>1. CASE r = s
        BY <1>6, <2>3, <2>7, <4>1, StoppingPool DEF Watch!InboxIdleAssumption
      <4>2. CASE r # s
        <5>1. slot'[r] = Watch!Let(pool)[r]
          BY <1>6, <4>2, StoppingPool
        <5>2. slot[r] # None /\ slot'[r].of = slot[r].of /\ slot[r].of \in Watchers
          BY <3>2, <5>1, StoppingPool DEF IdleInv, IdleTypes, Watch!Attempts
        <5>3. watcher[slot[r].of].key # None /\ slot[r].of # w
          BY <1>6, <5>2 DEF IdleInv, AreBorn, Watch!Unborn
        <5> QED BY <3>1, <5>2, <5>3
      <4> QED BY <4>1, <4>2
    <3>3. \A v \in Watchers : watcher'[v].timer => v # w /\ watcher[v].timer
      BY <2>6, <2>7, StoppingPool
    <3>4. \A v \in Watchers : watcher'[v].timer => watcher'[v].key # None
      BY <3>1, <3>3 DEF IdleInv, AreBorn
    <3> QED BY <3>2, <3>4 DEF AreBorn
  <2> QED BY <2>8, <2>9, <2>10, <2>11, <2>12, <2>13 DEF IdleInv
<1> QED BY <1>4, <1>5, <1>6 DEF Watch!Reconcile

LEMMA QuitIdle ==
  ASSUME Watch!InboxIdleAssumption, IdleInv, Watch!Quit
  PROVE  IdleInv' /\ Watch!StoppedStartsNothing
<1>1. calls' \in Seq(Asked) /\ account' = account /\ quit' \in BOOLEAN
  BY DEF Watch!Quit
<1> QED BY <1>1, StoppedPool DEF Watch!Quit

\* An attempt that is not up moves on or ends, and its watcher may come to wait.
LEMMA AttemptIdle ==
  ASSUME Watch!InboxIdleAssumption, IdleInv, NEW s \in Sockets, NEW a \in Watch!Attempts \cup {None},
         slot[s] # None, slot[s].step \notin {"up", "leaving"}, a # None => a.of = slot[s].of,
         slot' = [slot EXCEPT ![s] = a],
         UNCHANGED watcher \/ (a = None /\ Watch!Schedule(slot[s].of)),
         UNCHANGED <<account, calls, pool, quit>>
  PROVE  IdleInv' /\ Watch!StoppedStartsNothing
<1>1. slot[s] \in Watch!Attempts /\ slot[s].of \in Watchers
  BY DEF IdleInv, IdleTypes, Watch!Attempts
<1>2. /\ watcher' \in [Watchers -> Workers]
      /\ \A w \in Watchers : /\ watcher'[w].stopped = watcher[w].stopped
                             /\ watcher'[w].client = watcher[w].client
                             /\ watcher'[w].key = watcher[w].key
                             /\ watcher'[w].timer => watcher[w].timer \/ ~watcher[w].stopped
                             /\ \/ watcher'[w].timer = watcher[w].timer
                                \/ a = None /\ w = slot[s].of
  <2>1. watcher[slot[s].of] \in Workers /\ watcher \in [Watchers -> Workers]
    BY <1>1 DEF IdleInv, IdleTypes
  <2>2. CASE UNCHANGED watcher
    BY <2>1, <2>2
  <2>3. CASE a = None /\ Watch!Schedule(slot[s].of)
    <3> DEFINE w == slot[s].of
               t == watcher[w].timer \/ ~watcher[w].stopped
    <3>1. watcher' = [watcher EXCEPT ![w] = [watcher[w] EXCEPT !.timer = t]]
      BY <2>3 DEF Watch!Schedule
    <3>2. [watcher[w] EXCEPT !.timer = t] \in Workers
      BY <2>1 DEF Workers
    <3> HIDE DEF t
    <3>3. /\ [watcher[w] EXCEPT !.timer = t].stopped = watcher[w].stopped
          /\ [watcher[w] EXCEPT !.timer = t].client = watcher[w].client
          /\ [watcher[w] EXCEPT !.timer = t].key = watcher[w].key
          /\ [watcher[w] EXCEPT !.timer = t].timer = t
      BY <2>1 DEF Workers
    <3> QED BY <1>1, <2>1, <2>3, <3>1, <3>2, <3>3 DEF t
  <2> QED BY <2>2, <2>3
<1>3. IdleTypes'
  BY <1>2 DEF IdleInv, IdleTypes
<1>4. PoolLives' /\ StoppedRests'
  BY <1>2 DEF IdleInv, IdleTypes, PoolLives, StoppedRests, Workers
<1>5. ClientsAreUp'
  BY <1>2 DEF IdleInv, IdleTypes, ClientsAreUp, IsUp
<1>6. Watch!StoppedStartsNothing
  BY <1>1, <1>2 DEF IdleInv, IdleTypes, StoppedRests, Watch!StoppedStartsNothing
<1>7. OneThing' /\ AreBorn'
  <2>1. /\ Tries(s, slot[s].of)
        /\ \A r \in Sockets, w \in Watchers : Tries(r, w)' => Tries(r, w) /\ (r = s => a # None)
    BY <1>1 DEF IdleInv, IdleTypes, Tries
  <2>2. AreBorn'
    BY <1>2 DEF IdleInv, IdleTypes, AreBorn, Watch!Attempts
  <2>3. OneThing'
    BY <1>1, <1>2, <2>1 DEF IdleInv, OneThing
  <2> QED BY <2>2, <2>3
<1> QED BY <1>3, <1>4, <1>5, <1>6, <1>7 DEF IdleInv

\* Where a step of an attempt leads.
LEMMA StepOfAttempt ==
  ASSUME IdleInv, NEW s \in Sockets, slot[s] # None, NEW step \in Watch!Steps, Watch!To(s, step)
  PROVE  /\ slot' = [slot EXCEPT ![s] = [slot[s] EXCEPT !.step = step]]
         /\ [slot[s] EXCEPT !.step = step] \in Watch!Attempts
         /\ [slot[s] EXCEPT !.step = step].of = slot[s].of
<1>1. slot[s] \in Watch!Attempts
  BY DEF IdleInv, IdleTypes
<1> QED BY <1>1 DEF Watch!To, Watch!Attempts

LEMMA ReconnectIdle ==
  ASSUME Watch!InboxIdleAssumption, IdleInv, NEW w \in Watchers, Watch!Reconnect(w)
  PROVE  IdleInv' /\ Watch!StoppedStartsNothing
<1>1. PICK s \in Sockets : slot[s] = None /\ slot' = [slot EXCEPT ![s] = Watch!Attempt(w)]
  BY DEF Watch!Reconnect, Watch!Begins
<1>2. Watch!Attempt(w) \in Watch!Attempts /\ Watch!Attempt(w).of = w
  BY DEF Watch!Attempt, Watch!Attempts, Watch!Steps, Watch!InboxIdleAssumption
<1>3. /\ watcher' \in [Watchers -> Workers] /\ ~watcher[w].stopped
      /\ \A v \in Watchers : /\ watcher'[v].stopped = watcher[v].stopped
                             /\ watcher'[v].client = watcher[v].client
                             /\ watcher'[v].key = watcher[v].key
                             /\ watcher'[v].timer => watcher[v].timer /\ v # w
  BY DEF IdleInv, IdleTypes, Watch!Reconnect, Workers
<1>4. UNCHANGED <<account, calls, pool, quit>>
  BY DEF Watch!Reconnect
<1>5. IdleTypes'
  BY <1>1, <1>2, <1>3, <1>4 DEF IdleInv, IdleTypes
<1>6. PoolLives' /\ StoppedRests'
  BY <1>3, <1>4 DEF IdleInv, IdleTypes, PoolLives, StoppedRests
<1>7. ClientsAreUp'
  BY <1>1, <1>3 DEF IdleInv, IdleTypes, ClientsAreUp, IsUp, Watch!InboxIdleAssumption
<1>8. Watch!StoppedStartsNothing
  BY <1>1, <1>2, <1>3 DEF IdleInv, IdleTypes, StoppedRests, Watch!StoppedStartsNothing
<1>9. OneThing'
  <2>1. watcher[w].timer
    BY DEF Watch!Reconnect
  <2>2. \A r \in Sockets, v \in Watchers : Tries(r, v)' => Tries(r, v) \/ (r = s /\ v = w)
    BY <1>1, <1>2 DEF IdleInv, IdleTypes, Tries
  <2> QED BY <1>3, <2>1, <2>2 DEF IdleInv, OneThing
<1>10. AreBorn'
  <2>1. w \in Watchers /\ watcher[w].key # None
    BY DEF IdleInv, StoppedRests, AreBorn, Watch!Reconnect
  <2> QED BY <1>1, <1>2, <1>3, <2>1 DEF IdleInv, IdleTypes, AreBorn, Watch!Attempts
<1> QED BY <1>5, <1>6, <1>7, <1>8, <1>9, <1>10 DEF IdleInv

LEMMA ResolveIdle ==
  ASSUME Watch!InboxIdleAssumption, IdleInv, NEW s \in Sockets, Watch!Resolve(s)
  PROVE  IdleInv' /\ Watch!StoppedStartsNothing
<1>1. slot[s] # None /\ slot[s].step \notin {"up", "leaving"}
      /\ UNCHANGED <<account, calls, pool, quit>> /\ "token" \in Watch!Steps
  BY DEF Watch!Resolve, Watch!At, Watch!Steps
<1>2. CASE Watch!To(s, "token") /\ UNCHANGED watcher
  BY <1>1, <1>2, StepOfAttempt, AttemptIdle
<1>3. CASE Watch!Free(s) /\ Watch!Schedule(slot[s].of)
  BY <1>1, <1>3, AttemptIdle DEF Watch!Free
<1> QED BY <1>2, <1>3 DEF Watch!Resolve

LEMMA AccessTokenIdle ==
  ASSUME Watch!InboxIdleAssumption, IdleInv, NEW s \in Sockets, Watch!AccessToken(s)
  PROVE  IdleInv' /\ Watch!StoppedStartsNothing
<1>1. slot[s] # None /\ slot[s].step \notin {"up", "leaving"}
      /\ UNCHANGED <<account, calls, pool, quit, watcher>>
      /\ "open" \in Watch!Steps
  BY DEF Watch!AccessToken, Watch!At, Watch!Steps
<1>2. CASE Watch!To(s, "open")
  BY <1>1, <1>2, StepOfAttempt, AttemptIdle
<1>3. CASE Watch!Free(s)
  BY <1>1, <1>3, AttemptIdle DEF Watch!Free
<1> QED BY <1>2, <1>3 DEF Watch!AccessToken

LEMMA RungIdle ==
  ASSUME Watch!InboxIdleAssumption, IdleInv, NEW s \in Sockets, Watch!Rung(s)
  PROVE  IdleInv' /\ Watch!StoppedStartsNothing
BY AttemptIdle DEF Watch!Rung, Watch!At, Watch!Free

LEMMA ConnectsIdle ==
  ASSUME Watch!InboxIdleAssumption, IdleInv, NEW s \in Sockets, Watch!Connects(s)
  PROVE  IdleInv' /\ Watch!StoppedStartsNothing
<1>1. slot[s] # None /\ slot[s].step \notin {"up", "leaving"}
      /\ UNCHANGED <<account, calls, pool, quit, watcher>>
      /\ "mailbox" \in Watch!Steps
  BY DEF Watch!Connects, Watch!At, Watch!Steps
<1>2. CASE Watch!To(s, "mailbox")
  BY <1>1, <1>2, StepOfAttempt, AttemptIdle
<1>3. CASE Watch!Free(s)
  BY <1>1, <1>3, AttemptIdle DEF Watch!Free
<1> QED BY <1>2, <1>3 DEF Watch!Connects

LEMMA FailsIdle ==
  ASSUME Watch!InboxIdleAssumption, IdleInv, NEW s \in Sockets, Watch!Fails(s)
  PROVE  IdleInv' /\ Watch!StoppedStartsNothing
<1>1. slot[s] # None /\ slot[s].step \notin {"up", "leaving"}
      /\ UNCHANGED <<account, calls, pool, quit>>
  BY DEF Watch!Fails, Watch!At
<1>2. CASE slot[s].rung < Rungs /\ UNCHANGED watcher
           /\ slot' = [slot EXCEPT ![s].rung = @ + 1, ![s].step = "open"]
  <2> DEFINE a == [slot[s] EXCEPT !.rung = @ + 1]
             b == [a EXCEPT !.step = "open"]
  <2>1. slot[s] \in Watch!Attempts
    BY <1>1 DEF IdleInv, IdleTypes
  <2>2. a \in Watch!Attempts /\ a.of = slot[s].of
    BY <1>2, <2>1 DEF Watch!Attempts, Watch!InboxIdleAssumption
  <2>3. b \in Watch!Attempts /\ b.of = slot[s].of
    <3> HIDE DEF a
    <3> QED BY <2>2 DEF Watch!Attempts, Watch!Steps
  <2>4. slot' = [slot EXCEPT ![s] = b]
    BY <1>2 DEF IdleInv, IdleTypes
  <2> HIDE DEF a, b
  <2> QED BY <1>1, <1>2, <2>3, <2>4, AttemptIdle
<1>3. CASE Watch!Free(s) /\ Watch!Schedule(slot[s].of)
  BY <1>1, <1>3, AttemptIdle DEF Watch!Free
<1> QED BY <1>2, <1>3 DEF Watch!Fails

LEMMA MailboxOpenIdle ==
  ASSUME Watch!InboxIdleAssumption, IdleInv, NEW s \in Sockets, Watch!MailboxOpen(s)
  PROVE  IdleInv' /\ Watch!StoppedStartsNothing
<1> DEFINE w == slot[s].of
<1>1. slot[s] # None /\ slot[s].step = "mailbox" /\ UNCHANGED <<account, calls, pool, quit>>
  BY DEF Watch!MailboxOpen, Watch!At
<1>2. slot[s] \in Watch!Attempts /\ w \in Watchers
  BY <1>1 DEF IdleInv, IdleTypes, Watch!Attempts
<1>3. /\ slot' = [slot EXCEPT ![s] = [slot[s] EXCEPT !.step = "up"]]
      /\ [slot[s] EXCEPT !.step = "up"] \in Watch!Attempts
      /\ [slot[s] EXCEPT !.step = "up"].of = w /\ [slot[s] EXCEPT !.step = "up"].step = "up"
  BY <1>2 DEF Watch!MailboxOpen, Watch!To, Watch!Attempts, Watch!Steps
<1>4. /\ watcher' \in [Watchers -> Workers]
      /\ \A v \in Watchers : /\ watcher'[v].stopped = watcher[v].stopped
                             /\ watcher'[v].timer = watcher[v].timer
                             /\ watcher'[v].key = watcher[v].key
                             /\ watcher'[v].client = IF v = w THEN s ELSE watcher[v].client
  <2> DEFINE k == [watcher[w] EXCEPT !.client = s]
  <2>1. watcher \in [Watchers -> Workers] /\ watcher' = [watcher EXCEPT ![w] = k]
    BY DEF IdleInv, IdleTypes, Watch!MailboxOpen
  <2>2. /\ k \in Workers /\ k.client = s /\ k.stopped = watcher[w].stopped
        /\ k.timer = watcher[w].timer /\ k.key = watcher[w].key
    BY <1>2, <2>1 DEF Workers
  <2> HIDE DEF k
  <2> QED BY <1>2, <2>1, <2>2
<1>5. IdleTypes' /\ PoolLives' /\ StoppedRests'
  BY <1>1, <1>3, <1>4 DEF IdleInv, IdleTypes, PoolLives, StoppedRests
<1>6. ClientsAreUp'
  <2> SUFFICES ASSUME NEW v \in Watchers, NEW r \in Sockets,
                      ~watcher'[v].stopped, watcher'[v].client = r
               PROVE  IsUp(r, v)'
    BY DEF ClientsAreUp
  <2>1. CASE v = w
    <3>1. r = s
      BY <1>4, <2>1
    <3> QED BY <1>3, <2>1, <3>1 DEF IsUp, IdleInv, IdleTypes
  <2>2. CASE v # w
    <3>1. IsUp(r, v)
      BY <1>4, <2>2 DEF IdleInv, ClientsAreUp
    <3> QED BY <1>1, <1>3, <3>1 DEF IsUp, IdleInv, IdleTypes
  <2> QED BY <2>1, <2>2
<1>7. Watch!StoppedStartsNothing
  BY <1>1, <1>2, <1>3, <1>4 DEF IdleInv, IdleTypes, StoppedRests, Watch!StoppedStartsNothing
<1>8. OneThing' /\ AreBorn'
  <2>1. /\ Tries(s, w) /\ ~Tries(s, w)'
        /\ \A r \in Sockets, v \in Watchers : Tries(r, v)' => Tries(r, v) /\ r # s
    BY <1>1, <1>2, <1>3 DEF IdleInv, IdleTypes, Tries
  <2>2. OneThing'
    BY <1>2, <1>4, <2>1 DEF IdleInv, OneThing
  <2>3. AreBorn'
    BY <1>1, <1>2, <1>3, <1>4 DEF IdleInv, IdleTypes, AreBorn, Watch!Attempts
  <2> QED BY <2>2, <2>3
<1> QED BY <1>5, <1>6, <1>7, <1>8 DEF IdleInv

\* A connection that closes is the client of its own watcher, or of none that goes on.
LEMMA DropIdle ==
  ASSUME Watch!InboxIdleAssumption, IdleInv, NEW s \in Sockets, Watch!Drop(s)
  PROVE  IdleInv' /\ Watch!StoppedStartsNothing
<1> DEFINE w == slot[s].of
<1>1. /\ slot[s] # None /\ slot' = [slot EXCEPT ![s] = None]
      /\ UNCHANGED <<account, calls, pool, quit>>
  BY DEF Watch!Drop, Watch!At, Watch!Free
<1>2. slot[s] \in Watch!Attempts /\ w \in Watchers
  BY <1>1 DEF IdleInv, IdleTypes, Watch!Attempts
<1>3. /\ watcher' \in [Watchers -> Workers]
      /\ \A v \in Watchers : /\ watcher'[v].stopped = watcher[v].stopped
                             /\ watcher'[v].key = watcher[v].key
                             /\ watcher'[v].timer => watcher[v].timer \/ ~watcher[v].stopped
                             /\ watcher'[v].client \in {None, watcher[v].client}
                             /\ watcher'[v].client = s => v # w \/ watcher[v].stopped
                             /\ watcher'[v].timer => \/ watcher[v].timer
                                                     \/ /\ watcher[v].client = s
                                                        /\ watcher'[v].client = None /\ v = w
  <2>1. CASE Watch!Ignored(s) /\ UNCHANGED watcher
    BY <1>2, <2>1 DEF IdleInv, IdleTypes, Watch!Ignored, Watch!Stopped, Workers
  <2>2. CASE /\ ~Watch!Ignored(s)
             /\ watcher' = [watcher EXCEPT ![w].client = None, ![w].timer = TRUE]
    <3>1. watcher[w] \in Workers /\ ~watcher[w].stopped /\ watcher[w].client = s
      BY <1>2, <2>2 DEF IdleInv, IdleTypes, Watch!Ignored, Watch!Stopped
    <3> DEFINE a == [watcher[w] EXCEPT !.client = None]
               b == [a EXCEPT !.timer = TRUE]
    <3>2. /\ a \in Workers /\ a.client = None
          /\ a.stopped = watcher[w].stopped /\ a.key = watcher[w].key
      BY <3>1 DEF Workers
    <3>3. /\ b \in Workers /\ b.client = None
          /\ b.stopped = watcher[w].stopped /\ b.key = watcher[w].key
      <4> HIDE DEF a
      <4> QED BY <3>2 DEF Workers
    <3>4. watcher' = [watcher EXCEPT ![w] = b]
      BY <1>2, <2>2 DEF IdleInv, IdleTypes
    <3> HIDE DEF a, b
    <3> QED BY <1>2, <3>1, <3>3, <3>4 DEF IdleInv, IdleTypes, Workers, Watch!InboxIdleAssumption
  <2> QED BY <2>1, <2>2 DEF Watch!Drop
<1>4. IdleTypes' /\ PoolLives' /\ StoppedRests'
  BY <1>1, <1>3 DEF IdleInv, IdleTypes, PoolLives, StoppedRests
<1>5. ClientsAreUp'
  <2> SUFFICES ASSUME NEW v \in Watchers, NEW r \in Sockets,
                      ~watcher'[v].stopped, watcher'[v].client = r
               PROVE  IsUp(r, v)'
    BY DEF ClientsAreUp
  <2>1. watcher[v].client = r /\ ~watcher[v].stopped
    BY <1>3 DEF Watch!InboxIdleAssumption
  <2>2. IsUp(r, v)
    BY <2>1 DEF IdleInv, ClientsAreUp
  <2>3. r # s
    BY <1>3, <2>1, <2>2 DEF IsUp
  <2> QED BY <1>1, <2>2, <2>3 DEF IsUp, IdleInv, IdleTypes
<1>6. Watch!StoppedStartsNothing
  BY <1>1, <1>3 DEF IdleInv, IdleTypes, StoppedRests, Watch!StoppedStartsNothing
<1>7. OneThing' /\ AreBorn'
  <2>1. \A r \in Sockets, v \in Watchers : Tries(r, v)' => Tries(r, v)
    BY <1>1 DEF IdleInv, IdleTypes, Tries
  <2>2. OneThing'
    BY <1>3, <2>1 DEF IdleInv, OneThing, Watch!InboxIdleAssumption
  <2>3. AreBorn'
    BY <1>1, <1>2, <1>3 DEF IdleInv, IdleTypes, AreBorn, Watch!Attempts
  <2> QED BY <2>2, <2>3
<1> QED BY <1>4, <1>5, <1>6, <1>7 DEF IdleInv

\* A connection that is recycled is that of a watcher that was not stopped.
LEMMA RecycleIdle ==
  ASSUME Watch!InboxIdleAssumption, IdleInv, NEW s \in Sockets, Watch!Recycle(s)
  PROVE  IdleInv' /\ Watch!StoppedStartsNothing
<1> DEFINE w == slot[s].of
<1>1. /\ slot[s] # None /\ watcher' = [watcher EXCEPT ![w].client = None]
      /\ UNCHANGED <<account, calls, pool, quit>>
  BY DEF Watch!Recycle, Watch!At
<1>2. slot[s] \in Watch!Attempts /\ w \in Watchers /\ ~watcher[w].stopped /\ watcher[w].client = s
  BY <1>1 DEF IdleInv, IdleTypes, Watch!Attempts, Watch!Recycle, Watch!Ignored, Watch!Stopped
<1>3. PICK t \in Sockets : /\ slot[t] = None
                         /\ slot' = [slot EXCEPT ![s].step = "leaving", ![t] = Watch!Attempt(w)]
  BY DEF Watch!Recycle
<1>4. Watch!Attempt(w) \in Watch!Attempts /\ Watch!Attempt(w).of = w
  BY <1>2 DEF Watch!Attempt, Watch!Attempts, Watch!Steps, Watch!InboxIdleAssumption
<1>5. [slot[s] EXCEPT !.step = "leaving"] \in Watch!Attempts /\ [slot[s] EXCEPT !.step = "leaving"].of = w
      /\ [slot[s] EXCEPT !.step = "leaving"].step = "leaving"
  BY <1>2 DEF Watch!Attempts, Watch!Steps
<1>6. slot' = [[slot EXCEPT ![s] = [slot[s] EXCEPT !.step = "leaving"]] EXCEPT ![t] = Watch!Attempt(w)]
  BY <1>3 DEF IdleInv, IdleTypes
<1>7. /\ slot' \in [Sockets -> Watch!Attempts \cup {None}]
      /\ \A r \in Sockets : slot'[r] = IF r = t THEN Watch!Attempt(w)
                                     ELSE IF r = s THEN [slot[s] EXCEPT !.step = "leaving"]
                                     ELSE slot[r]
  BY <1>4, <1>5, <1>6 DEF IdleInv, IdleTypes
<1>8. /\ watcher' \in [Watchers -> Workers]
      /\ \A v \in Watchers : /\ watcher'[v].stopped = watcher[v].stopped
                             /\ watcher'[v].timer = watcher[v].timer
                             /\ watcher'[v].key = watcher[v].key
                             /\ watcher'[v].client = IF v = w THEN None ELSE watcher[v].client
  BY <1>1, <1>2 DEF IdleInv, IdleTypes, Workers
<1>9. IdleTypes' /\ PoolLives' /\ StoppedRests'
  BY <1>1, <1>7, <1>8 DEF IdleInv, IdleTypes, PoolLives, StoppedRests
<1>10. ClientsAreUp'
  <2> SUFFICES ASSUME NEW v \in Watchers, NEW r \in Sockets,
                      ~watcher'[v].stopped, watcher'[v].client = r
               PROVE  IsUp(r, v)'
    BY DEF ClientsAreUp
  <2>1. v # w /\ watcher[v].client = r /\ ~watcher[v].stopped
    BY <1>8 DEF Watch!InboxIdleAssumption
  <2>2. IsUp(r, v)
    BY <2>1 DEF IdleInv, ClientsAreUp
  <2>3. r # s /\ r # t
    BY <1>3, <2>1, <2>2 DEF IsUp, Watch!InboxIdleAssumption
  <2> QED BY <1>7, <2>2, <2>3 DEF IsUp
<1>11. Watch!StoppedStartsNothing
  <2> SUFFICES ASSUME NEW v \in Watchers, watcher[v].stopped
               PROVE  /\ ~watcher'[v].timer
                      /\ \A r \in Sockets : (slot'[r] # None /\ slot'[r].of = v) =>
                           (slot[r] # None /\ slot[r].of = v)
    BY DEF Watch!StoppedStartsNothing, IdleInv, IdleTypes
  <2>1. v # w /\ ~watcher'[v].timer
    BY <1>2, <1>8 DEF IdleInv, StoppedRests
  <2> QED BY <1>1, <1>4, <1>5, <1>7, <2>1
<1>12. OneThing' /\ AreBorn'
  <2>1. \A r \in Sockets, v \in Watchers : Tries(r, v)' => Tries(r, v) \/ (r = t /\ v = w)
    BY <1>2, <1>4, <1>5, <1>7 DEF Tries
  <2>2. OneThing'
    BY <1>2, <1>8, <2>1 DEF IdleInv, OneThing, Watch!InboxIdleAssumption
  <2>3. AreBorn'
    BY <1>1, <1>2, <1>4, <1>7, <1>8 DEF IdleInv, IdleTypes, AreBorn, Watch!Attempts
  <2> QED BY <2>2, <2>3
<1> QED BY <1>9, <1>10, <1>11, <1>12 DEF IdleInv

-----------------------------------------------------------------------------

LEMMA StepIdle ==
  ASSUME Watch!InboxIdleAssumption, IdleInv, [Watch!Next]_(Watch!vars)
  PROVE  IdleInv' /\ (Watch!Next => Watch!StoppedStartsNothing)
<1>1. CASE UNCHANGED Watch!vars
  BY <1>1 DEF Watch!vars, IdleInv, IdleTypes, PoolLives, StoppedRests, ClientsAreUp, IsUp,
     OneThing, Tries, AreBorn, Watch!StoppedStartsNothing
<1>2. CASE Watch!Next
  <2>1. CASE Watch!Switch \/ Watch!ChangeHost \/ Watch!ChangeSecret \/ Watch!Quit
    BY <2>1, SwitchIdle, ChangeHostIdle, ChangeSecretIdle, QuitIdle
  <2>2. ASSUME NEW i \in DOMAIN calls, Watch!Gather(i) \/ Watch!Reconcile(i)
        PROVE  IdleInv' /\ Watch!StoppedStartsNothing
    BY <2>2, GatherIdle, ReconcileIdle
  <2>3. ASSUME NEW w \in Watchers, Watch!Reconnect(w) PROVE IdleInv' /\ Watch!StoppedStartsNothing
    BY <2>3, ReconnectIdle
  <2>4. ASSUME NEW s \in Sockets, Watch!Connect(s) \/ Watch!Fails(s) \/ Watch!Drop(s) \/ Watch!Recycle(s)
        PROVE  IdleInv' /\ Watch!StoppedStartsNothing
    BY <2>4, ResolveIdle, AccessTokenIdle, RungIdle, ConnectsIdle, MailboxOpenIdle, FailsIdle,
       DropIdle, RecycleIdle DEF Watch!Connect
  <2> QED BY <1>2, <2>1, <2>2, <2>3, <2>4 DEF Watch!Next
<1> QED BY <1>1, <1>2

\* What the living watchers hold is theirs, whatever is called, stopped or dropped meanwhile.
THEOREM IdleInvHolds == ASSUME Watch!InboxIdleAssumption PROVE Watch!Spec => []IdleInv
<1>1. Watch!Init => IdleInv
  BY InitIdle
<1>2. IdleInv /\ [Watch!Next]_(Watch!vars) => IdleInv'
  BY StepIdle
<1> QED BY <1>1, <1>2, PTL DEF Watch!Spec

\* Where the watchers rest, nothing is disturbed.
LEMMA IdleRests ==
  ASSUME IdleInv, UNCHANGED <<account, calls, pool, watcher, slot, quit>>
  PROVE  IdleInv' /\ Watch!StoppedStartsNothing
BY DEF IdleInv, IdleTypes, PoolLives, StoppedRests, ClientsAreUp, IsUp, OneThing, Tries, AreBorn,
   Watch!StoppedStartsNothing

LEMMA IdleIsSafe ==
  ASSUME Watch!InboxIdleAssumption, IdleInv, acts \in 0..WatchActs, faults \in 0..WatchFaults
  PROVE  Watch!TypeOK /\ Watch!OneAtATime
<1>1. Watch!TypeOK
  <2>1. ASSUME NEW i \in DOMAIN calls PROVE calls[i].secret \in (0..2) \cup {None}
    <3>1. calls[i] \in Asked
      BY DEF IdleInv, IdleTypes
    <3> QED BY <3>1 DEF Asked
  <2>2. \A w \in Watchers :
          /\ watcher[w].timer \in BOOLEAN /\ watcher[w].client \in Sockets \cup {None}
          /\ watcher[w] = Watch!Unborn => Watch!Of(w) = {}
    BY DEF IdleInv, IdleTypes, AreBorn, Workers, Watch!Unborn, Watch!Of
  <2> QED BY <2>1, <2>2 DEF IdleInv, IdleTypes, PoolLives, Watch!TypeOK
<1>2. Watch!OneAtATime
  <2> SUFFICES ASSUME NEW w \in Watchers
               PROVE  Cardinality(Watch!Trying(w)) + (IF watcher[w].timer THEN 1 ELSE 0)
                        + (IF watcher[w].client = None THEN 0 ELSE 1) <= 1
    BY DEF Watch!OneAtATime, Watch!Cardinality, Cardinality
  <2>1. \A s : s \in Watch!Trying(w) <=> s \in Sockets /\ Tries(s, w)
    BY DEF Watch!Trying, Watch!Of, Tries
  <2>2. CASE Watch!Trying(w) = {}
    BY <2>2, FS_EmptySet DEF IdleInv, OneThing
  <2>3. ASSUME NEW s \in Watch!Trying(w)
        PROVE  Cardinality(Watch!Trying(w)) = 1 /\ ~watcher[w].timer /\ watcher[w].client = None
    <3>1. Watch!Trying(w) = {s}
      BY <2>1, <2>3 DEF IdleInv, OneThing
    <3> QED BY <2>1, <2>3, <3>1, FS_Singleton DEF IdleInv, OneThing
  <2> QED BY <2>2, <2>3
<1> QED BY <1>1, <1>2

LEMMA WatchCounts ==
  ASSUME Watch!InboxIdleAssumption, acts \in 0..WatchActs, faults \in 0..WatchFaults,
         [Watch!Next]_(Watch!vars)
  PROVE  acts' \in 0..WatchActs /\ faults' \in 0..WatchFaults
<1>1. \/ UNCHANGED <<acts, faults>>
      \/ Watch!Acts /\ UNCHANGED faults
      \/ Watch!Faults /\ UNCHANGED acts
  BY DEF Watch!Next, Watch!vars, Watch!Switch, Watch!ChangeHost, Watch!ChangeSecret, Watch!Edit,
     Watch!Quit, Watch!Gather, Watch!Reconcile, Watch!Reconnect, Watch!Connect, Watch!Resolve,
     Watch!AccessToken, Watch!Rung, Watch!Connects, Watch!MailboxOpen, Watch!Fails, Watch!Drop,
     Watch!Recycle
<1> QED BY <1>1 DEF Watch!Acts, Watch!Faults, Watch!InboxIdleAssumption

\* A watcher is connected, or connects, or waits to: a connection that is recycled closes
\* while the next is made, and its drop() starts no third (imapIdle.ts).
THEOREM OneAtATimeHolds ==
  ASSUME Watch!InboxIdleAssumption PROVE Watch!Spec => [](Watch!TypeOK /\ Watch!OneAtATime)
<1>1. Watch!Init => acts \in 0..WatchActs /\ faults \in 0..WatchFaults
  BY DEF Watch!Init, Watch!InboxIdleAssumption
<1>2. /\ acts \in 0..WatchActs /\ faults \in 0..WatchFaults /\ [Watch!Next]_(Watch!vars)
      => (acts \in 0..WatchActs /\ faults \in 0..WatchFaults)'
  BY WatchCounts
<1>3. IdleInv /\ acts \in 0..WatchActs /\ faults \in 0..WatchFaults
        => Watch!TypeOK /\ Watch!OneAtATime
  BY IdleIsSafe
<1> QED BY <1>1, <1>2, <1>3, IdleInvHolds, PTL DEF Watch!Spec

\* A watcher that was stopped never waits to reconnect and starts no attempt, at whichever
\* await of connect() stop() came (imapIdle.ts, `if (this.stopped) return`).
THEOREM StoppedStartsNothingHolds ==
  ASSUME Watch!InboxIdleAssumption PROVE Watch!Spec => [][Watch!StoppedStartsNothing]_(Watch!vars)
<1>1. IdleInv /\ [Watch!Next]_(Watch!vars) => [Watch!StoppedStartsNothing]_(Watch!vars)
  BY StepIdle
<1> QED BY <1>1, IdleInvHolds, PTL DEF Watch!Spec

-----------------------------------------------------------------------------
(* The grants *)

CONSTANTS
  Accounts, Rotating, Callers, MaxTokens, GrantActs, GrantFaults   \* of the grants

VARIABLES
  file, task, inFlight, cache, rejected, accepts, retired, issued,
  stored, refused, forgotten, disturbed

Grant == INSTANCE Credentials WITH
  Tasks <- Callers, MaxActs <- GrantActs, MaxFaults <- GrantFaults

\* What secrets.json may hold: refresh tokens that the provider can have issued.
Filed == {f \in Grant!Secrets : \A a \in Accounts : f[<<a, "grant">>] \in 0..MaxTokens}

\* The steps that calls of a kind go through.
StepsOf == [refresh |-> {"finding", "asking", "refused", "broken", "grant", "provider", "caching"},
            consent |-> {"consenting", "broken", "grant", "provider", "caching"},
            forget  |-> {"grant", "provider"}, password |-> {"password"}]

\* A call is idle, or goes through the steps of its kind; what it has read of the file is
\* there while it writes.
CallFits(c) ==
  \/ c = [job |-> Grant!Idle, read |-> {}]
  \/ /\ c.job \in Grant!Task /\ c.job.kind # "none" /\ c.job.account \in Accounts
     /\ c.job.step \in StepsOf[c.job.kind]
     /\ c.job.token \in 0..(IF c.job.kind = "password" THEN MaxTokens + GrantActs ELSE MaxTokens)
     /\ c.job.step \in {"asking", "grant"} /\ c.job.kind # "forget" => c.job.token # 0
     /\ c.read \subseteq Filed /\ (c.job.step \notin Grant!Writing => c.read = {})

Jobs == [job : Grant!Task, read : SUBSET Filed]

GrantTypes ==
  /\ file \in Filed /\ stored \in Grant!Secrets
  /\ task \in [Callers -> Jobs] /\ \A t \in Callers : CallFits(task[t])
  /\ inFlight \in [Accounts -> Callers \cup {None}]
  /\ cache \subseteq Accounts /\ rejected \subseteq Accounts /\ forgotten \subseteq Accounts
  /\ issued \in [Accounts -> 1..MaxTokens] /\ refused \in [Accounts -> 0..MaxTokens]
  /\ accepts \in [Accounts -> SUBSET (1..MaxTokens)]
  /\ retired \in [Accounts -> SUBSET (1..MaxTokens)]
  /\ disturbed \subseteq {"not written", "overwritten", "raced", "lost", "withdrawn", "died"}

\* No token is ahead of what the provider has issued.
Issued ==
  /\ \A a \in Accounts : \A n \in accepts[a] \cup retired[a] : n <= issued[a]
  /\ \A a \in Accounts : file[<<a, "grant">>] <= issued[a]
  /\ \A t \in Callers :
       /\ Grant!Job(t).step \in {"asking", "grant"} /\ Grant!Job(t).kind # "forget"
            => Grant!Job(t).token <= issued[Grant!Job(t).account]
       /\ \A f \in task[t].read, a \in Accounts : f[<<a, "grant">>] <= issued[a]

\* The call t has a token of the account a to store.
Stores(t, a) == Grant!Job(t).account = a /\ Grant!Job(t).step = "grant" /\ Grant!Job(t).kind # "forget"

\* The call t asks the provider with a token of a.
AsksWith(t, a) == Grant!Job(t).account = a /\ Grant!Job(t).step = "asking"

\* A token that is to be stored is good, and nobody else has it yet.
StoredIsNew ==
  \A a \in Accounts, t \in Callers : Stores(t, a) =>
    /\ Grant!Job(t).token \in accepts[a] \ retired[a] /\ file[<<a, "grant">>] # Grant!Job(t).token
    /\ \A u \in Callers \ {t} :
         Stores(u, a) \/ AsksWith(u, a) => Grant!Job(u).token # Grant!Job(t).token

\* The token in the file is good, or a call has its successor.
FileIsGood ==
  \A a \in Accounts :
    file[<<a, "grant">>] = 0 \/ Grant!Good(a) \/ \E t \in Callers : Stores(t, a)

GrantInv ==
  GrantTypes /\ Issued /\ Grant!JoinsOnlyTheLiving
  /\ (disturbed = {} => StoredIsNew /\ FileIsGood)

-----------------------------------------------------------------------------

LEMMA InitGrants == ASSUME Grant!CredentialsAssumption, Grant!Init PROVE GrantInv
<1>1. file \in Filed /\ \A a \in Accounts : file[<<a, "grant">>] = 1
  BY DEF Grant!CredentialsAssumption, Grant!Init, Filed, Grant!Secrets, Grant!Keys
<1>2. task = [t \in Callers |-> [job |-> Grant!Idle, read |-> {}]]
  BY DEF Grant!Init
<1>3. task \in [Callers -> Jobs] /\ \A t \in Callers : CallFits(task[t]) /\ Grant!Job(t) = Grant!Idle
  BY <1>2 DEF Jobs, CallFits, Grant!Task, Grant!Idle, Grant!Kinds, Grant!Job
<1>4. GrantTypes
  <2>1. 1 \in 1..MaxTokens /\ 0 \in 0..MaxTokens
    BY DEF Grant!CredentialsAssumption
  <2>2. /\ inFlight \in [Accounts -> Callers \cup {None}]
        /\ issued \in [Accounts -> 1..MaxTokens] /\ refused \in [Accounts -> 0..MaxTokens]
        /\ accepts \in [Accounts -> SUBSET (1..MaxTokens)]
        /\ retired \in [Accounts -> SUBSET (1..MaxTokens)]
    BY <2>1 DEF Grant!Init
  <2> QED BY <1>1, <1>3, <2>2 DEF Grant!Init, GrantTypes, Filed
<1>5. Issued
  <2>1. \A a \in Accounts : issued[a] = 1 /\ accepts[a] = {1} /\ retired[a] = {}
    BY DEF Grant!Init
  <2>2. \A t \in Callers : task[t].read = {} /\ Grant!Job(t).step = "none"
    BY <1>2, <1>3 DEF Grant!Idle
  <2> QED BY <1>1, <2>1, <2>2 DEF Issued
<1>6. StoredIsNew /\ FileIsGood
  BY <1>1, <1>3 DEF Grant!Init, StoredIsNew, FileIsGood, Stores, Grant!Idle, Grant!Good
<1> QED
  BY <1>4, <1>5, <1>6 DEF GrantInv, Grant!Init, Grant!JoinsOnlyTheLiving

\* What a call that fits may be.
LEMMA FitsIs ==
  ASSUME NEW c, CallFits(c)
  PROVE  /\ c.job.kind = "none" => c = [job |-> Grant!Idle, read |-> {}]
         /\ c.job.step = "none" <=> c.job.kind = "none"
         /\ c.job.step # "none" => c.job.account \in Accounts
         /\ c.job.step \in {"finding", "asking", "refused"} => c.job.kind = "refresh"
         /\ c.job.step \in {"broken", "caching"} => c.job.kind \in {"refresh", "consent"}
         /\ c.job.step = "consenting" => c.job.kind = "consent"
         /\ c.job.step = "grant" => c.job.kind \in {"refresh", "consent", "forget"}
         /\ c.job.step = "password" <=> c.job.kind = "password"
<1>1. CASE c = [job |-> Grant!Idle, read |-> {}]
  BY <1>1 DEF Grant!Idle
<1>2. CASE /\ c.job \in Grant!Task /\ c.job.kind # "none" /\ c.job.account \in Accounts
           /\ c.job.step \in StepsOf[c.job.kind]
  BY <1>2 DEF Grant!Task, Grant!Kinds, StepsOf
<1> QED BY <1>1, <1>2 DEF CallFits

\* One call changes.
LEMMA CallMoves ==
  ASSUME GrantTypes, NEW t \in Callers, NEW c \in Jobs, CallFits(c), task' = [task EXCEPT ![t] = c]
  PROVE  /\ task' \in [Callers -> Jobs] /\ \A u \in Callers : CallFits(task'[u])
         /\ task'[t] = c /\ Grant!Job(t)' = c.job
         /\ \A u \in Callers \ {t} : task'[u] = task[u] /\ Grant!Job(u)' = Grant!Job(u)
<1>1. task \in [Callers -> Jobs] /\ \A u \in Callers : CallFits(task[u])
  BY DEF GrantTypes
<1>2. task'[t] = c /\ \A u \in Callers \ {t} : task'[u] = task[u]
  BY <1>1
<1>3. task' \in [Callers -> Jobs]
  BY <1>1
<1> QED BY <1>1, <1>2, <1>3 DEF Grant!Job

\* A step of one call that neither touches what is stored nor what the provider has issued.
LEMMA QuietStep ==
  ASSUME GrantInv, NEW t \in Callers, NEW c \in Jobs, CallFits(c), task' = [task EXCEPT ![t] = c],
         UNCHANGED <<file, accepts, retired, issued, stored>>,
         inFlight' \in [Accounts -> Callers \cup {None}], cache' \subseteq Accounts,
         rejected' \subseteq Accounts, forgotten' \subseteq Accounts,
         refused' \in [Accounts -> 0..MaxTokens],
         disturbed \subseteq disturbed',
         disturbed' \subseteq {"not written", "overwritten", "raced", "lost", "withdrawn", "died"},
         Grant!JoinsOnlyTheLiving',
         \/ c.job = Grant!Job(t)
         \/ c.job.step = "asking" /\ c.job.token = file[<<c.job.account, "grant">>]
            /\ Grant!Job(t).step # "grant"
         \/ c.job.step # "asking" /\ (c.job.step = "grant" => c.job.kind = "forget")
            /\ Grant!Job(t).step # "grant",
         c.read \subseteq task[t].read \cup {file}
  PROVE  GrantInv'
<1>1. /\ task' \in [Callers -> Jobs] /\ \A u \in Callers : CallFits(task'[u])
      /\ task'[t] = c /\ Grant!Job(t)' = c.job
      /\ \A u \in Callers \ {t} : task'[u] = task[u] /\ Grant!Job(u)' = Grant!Job(u)
  BY CallMoves DEF GrantInv
<1>2. GrantTypes'
  BY <1>1 DEF GrantInv, GrantTypes
<1>3. Issued'
  <2>1. ASSUME NEW u \in Callers, Grant!Job(u)'.step \in {"asking", "grant"}, Grant!Job(u)'.kind # "forget"
        PROVE  Grant!Job(u)'.token <= issued[Grant!Job(u)'.account]
    <3>1. CASE u # t \/ c.job = Grant!Job(t)
      <4>1. Grant!Job(u)' = Grant!Job(u)
        BY <1>1, <3>1
      <4> QED BY <2>1, <4>1 DEF GrantInv, Issued
    <3>2. CASE u = t /\ c.job.step = "asking" /\ c.job.token = file[<<c.job.account, "grant">>]
      <4>1. c.job.account \in Accounts
        BY <3>2, FitsIs
      <4> QED BY <1>1, <3>2, <4>1 DEF GrantInv, Issued
    <3> QED BY <1>1, <2>1, <3>1, <3>2
  <2>2. ASSUME NEW u \in Callers, NEW f \in task'[u].read, NEW a \in Accounts
        PROVE  f[<<a, "grant">>] <= issued[a]
    BY <1>1, <2>2 DEF GrantInv, Issued
  <2> QED BY <2>1, <2>2 DEF GrantInv, Issued
<1>4. ASSUME disturbed' = {} PROVE StoredIsNew' /\ FileIsGood'
  <2>1. StoredIsNew /\ FileIsGood
    BY <1>4 DEF GrantInv
  <2>2. \A u \in Callers, a \in Accounts :
          /\ Stores(u, a)' <=> Stores(u, a)
          /\ Stores(u, a) => Grant!Job(u)' = Grant!Job(u)
          /\ AsksWith(u, a)' => \/ AsksWith(u, a) /\ Grant!Job(u)' = Grant!Job(u)
                                \/ Grant!Job(u)'.token = file[<<a, "grant">>]
    BY <1>1 DEF Stores, AsksWith
  <2>3. FileIsGood'
    BY <2>1, <2>2 DEF FileIsGood, Grant!Good
  <2>4. ASSUME NEW a \in Accounts, NEW u \in Callers, Stores(u, a)'
        PROVE  /\ Grant!Job(u)'.token \in accepts[a] \ retired[a]
               /\ file[<<a, "grant">>] # Grant!Job(u)'.token
               /\ \A w \in Callers \ {u} :
                    Stores(w, a)' \/ AsksWith(w, a)' => Grant!Job(w)'.token # Grant!Job(u)'.token
    <3>1. /\ Grant!Job(u).token \in accepts[a] \ retired[a] /\ file[<<a, "grant">>] # Grant!Job(u).token
          /\ \A w \in Callers \ {u} :
               Stores(w, a) \/ AsksWith(w, a) => Grant!Job(w).token # Grant!Job(u).token
      BY <2>1, <2>2, <2>4 DEF StoredIsNew
    <3> QED BY <2>2, <2>4, <3>1
  <2> QED BY <2>3, <2>4 DEF StoredIsNew
<1> QED BY <1>2, <1>3, <1>4 DEF GrantInv

\* The call t with another token, step and reading.
Goes(t, n, s, r) ==
  [job  |-> [kind |-> Grant!Job(t).kind, account |-> Grant!Job(t).account, token |-> n, step |-> s],
   read |-> r]

ToWith(t, s, n) == task' = [task EXCEPT ![t].job.step = s, ![t].job.token = n]
ToRead(t, s, r) == task' = [task EXCEPT ![t].job.step = s, ![t].read = r]

LEMMA GoesIs ==
  ASSUME GrantTypes, NEW t \in Callers
  PROVE  /\ \A s : [task EXCEPT ![t].job.step = s]
                     = [task EXCEPT ![t] = Goes(t, Grant!Job(t).token, s, task[t].read)]
         /\ \A r : [task EXCEPT ![t].read = r]
                     = [task EXCEPT ![t] = Goes(t, Grant!Job(t).token, Grant!Job(t).step, r)]
<1>1. task \in [Callers -> Jobs] /\ task[t] \in Jobs /\ task[t].job \in Grant!Task
  BY DEF GrantTypes, Jobs
<1>2. PICK k, a, m, p, q :
        task[t] = [job |-> [kind |-> k, account |-> a, token |-> m, step |-> p], read |-> q]
  BY <1>1 DEF Jobs, Grant!Task
<1>3. Grant!Job(t) = [kind |-> k, account |-> a, token |-> m, step |-> p] /\ task[t].read = q
  BY <1>2 DEF Grant!Job
<1>4. \A s : [task EXCEPT ![t].job.step = s]
               = [task EXCEPT ![t] = Goes(t, Grant!Job(t).token, s, task[t].read)]
  <2>1. \A s : [task[t] EXCEPT !.job.step = s] = Goes(t, Grant!Job(t).token, s, task[t].read)
    BY <1>2, <1>3 DEF Goes
  <2> QED BY <1>1, <2>1
<1>5. \A r : [task EXCEPT ![t].read = r]
               = [task EXCEPT ![t] = Goes(t, Grant!Job(t).token, Grant!Job(t).step, r)]
  <2>1. \A r : [task[t] EXCEPT !.read = r] = Goes(t, Grant!Job(t).token, Grant!Job(t).step, r)
    BY <1>2, <1>3 DEF Goes
  <2> QED BY <1>1, <2>1
<1> QED BY <1>4, <1>5

LEMMA ToWithIs ==
  ASSUME GrantTypes, NEW t \in Callers, NEW s, NEW n, ToWith(t, s, n)
  PROVE  task' = [task EXCEPT ![t] = Goes(t, n, s, task[t].read)]
<1>1. task \in [Callers -> Jobs]
  BY DEF GrantTypes
<1> DEFINE mid == [task EXCEPT ![t].job.step = s]
<1>2. task' = [mid EXCEPT ![t].job.token = n]
  BY DEF ToWith
<1>3. mid = [task EXCEPT ![t] = Goes(t, Grant!Job(t).token, s, task[t].read)]
  BY GoesIs
<1>4. mid[t] = Goes(t, Grant!Job(t).token, s, task[t].read)
  BY <1>1, <1>3
<1> HIDE DEF mid
<1>5. [mid[t] EXCEPT !.job.token = n] = Goes(t, n, s, task[t].read)
  BY <1>4 DEF Goes
<1>6. task' = [mid EXCEPT ![t] = Goes(t, n, s, task[t].read)]
  BY <1>2, <1>5
<1> QED BY <1>1, <1>3, <1>6

LEMMA ToReadIs ==
  ASSUME GrantTypes, NEW t \in Callers, NEW s, NEW r, ToRead(t, s, r)
  PROVE  task' = [task EXCEPT ![t] = Goes(t, Grant!Job(t).token, s, r)]
<1>1. task \in [Callers -> Jobs]
  BY DEF GrantTypes
<1> DEFINE mid == [task EXCEPT ![t].job.step = s]
<1>2. task' = [mid EXCEPT ![t].read = r]
  BY DEF ToRead
<1>3. mid = [task EXCEPT ![t] = Goes(t, Grant!Job(t).token, s, task[t].read)]
  BY GoesIs
<1>4. mid[t] = Goes(t, Grant!Job(t).token, s, task[t].read)
  BY <1>1, <1>3
<1> HIDE DEF mid
<1>5. [mid[t] EXCEPT !.read = r] = Goes(t, Grant!Job(t).token, s, r)
  BY <1>4 DEF Goes
<1>6. task' = [mid EXCEPT ![t] = Goes(t, Grant!Job(t).token, s, r)]
  BY <1>2, <1>5
<1> QED BY <1>1, <1>3, <1>6

\* A call that goes on through the steps of its kind fits.
LEMMA GoesFits ==
  ASSUME Grant!CredentialsAssumption, GrantTypes, NEW t \in Callers, Grant!Job(t).kind # "none",
         NEW s \in StepsOf[Grant!Job(t).kind],
         NEW n \in 0..(IF Grant!Job(t).kind = "password" THEN MaxTokens + GrantActs ELSE MaxTokens),
         s \in {"asking", "grant"} /\ Grant!Job(t).kind # "forget" => n # 0,
         NEW r \in SUBSET Filed, s \notin Grant!Writing => r = {}
  PROVE  /\ Goes(t, n, s, r) \in Jobs /\ CallFits(Goes(t, n, s, r))
         /\ Goes(t, n, s, r).job.step = s /\ Goes(t, n, s, r).job.token = n
         /\ Goes(t, n, s, r).job.kind = Grant!Job(t).kind
         /\ Goes(t, n, s, r).job.account = Grant!Job(t).account /\ Goes(t, n, s, r).read = r
<1> DEFINE c == Goes(t, n, s, r)
<1>1. Grant!Job(t) \in Grant!Task /\ Grant!Job(t).account \in Accounts
  BY FitsIs DEF GrantTypes, CallFits, Grant!Job, Grant!Task, Grant!Idle, Jobs
<1>2. n \in Nat
  BY DEF Grant!CredentialsAssumption
<1>3. Grant!Job(t).kind \in {"refresh", "consent", "forget", "password"}
  BY <1>1 DEF Grant!Task, Grant!Kinds
<1>4. s \in {"none", "finding", "asking", "refused", "broken", "consenting", "grant",
             "provider", "password", "caching"}
  BY <1>3 DEF StepsOf
<1>5. c.job \in Grant!Task /\ c.job.step = s /\ c.job.token = n
      /\ c.job.kind = Grant!Job(t).kind /\ c.job.account = Grant!Job(t).account /\ c.read = r
  BY <1>1, <1>2, <1>3, <1>4 DEF Goes, Grant!Task, Grant!Kinds
<1>6. c \in Jobs
  BY <1>5 DEF Jobs, Goes
<1>7. CallFits(c)
  BY <1>1, <1>5 DEF CallFits
<1> QED BY <1>5, <1>6, <1>7

\* What a call that begins, or ends, is.
LEMMA NewFits ==
  ASSUME Grant!CredentialsAssumption, GrantTypes, NEW t \in Callers
  PROVE  /\ [job |-> Grant!Idle, read |-> {}] \in Jobs /\ CallFits([job |-> Grant!Idle, read |-> {}])
         /\ \A job \in Grant!Task :
              Grant!Begins(t, job) /\ CallFits([job |-> job, read |-> {}]) =>
                /\ task' = [task EXCEPT ![t] = [job |-> job, read |-> {}]]
                /\ [job |-> job, read |-> {}] \in Jobs
                /\ task[t] = [job |-> Grant!Idle, read |-> {}]
<1>1. [job |-> Grant!Idle, read |-> {}] \in Jobs /\ CallFits([job |-> Grant!Idle, read |-> {}])
  BY DEF Jobs, CallFits, Grant!Task, Grant!Idle, Grant!Kinds
<1>2. ASSUME NEW job \in Grant!Task, Grant!Begins(t, job), CallFits([job |-> job, read |-> {}])
      PROVE  /\ task' = [task EXCEPT ![t] = [job |-> job, read |-> {}]]
             /\ [job |-> job, read |-> {}] \in Jobs
             /\ task[t] = [job |-> Grant!Idle, read |-> {}]
  <2>1. task \in [Callers -> Jobs] /\ task[t] \in Jobs /\ CallFits(task[t])
    BY DEF GrantTypes
  <2>2. task[t].job.kind = "none"
    BY <1>2 DEF Grant!Begins, Grant!Job, Grant!Idle
  <2>3. task[t] = [job |-> Grant!Idle, read |-> {}]
    BY <2>1, <2>2, FitsIs
  <2>4. task' = [task EXCEPT ![t] = [job |-> job, read |-> {}]]
    <3>1. [task[t] EXCEPT !.job = job] = [job |-> job, read |-> {}]
      BY <2>3
    <3> QED BY <1>2, <2>1, <3>1 DEF Grant!Begins
  <2> QED BY <2>3, <2>4 DEF Jobs
<1> QED BY <1>1, <1>2

\* What is known of a call that is under way.
LEMMA Fitting ==
  ASSUME GrantTypes, NEW t \in Callers, Grant!Job(t).kind # "none"
  PROVE  /\ Grant!Job(t) \in Grant!Task /\ Grant!Job(t).account \in Accounts
         /\ Grant!Job(t).kind \in {"refresh", "consent", "forget", "password"}
         /\ Grant!Job(t).step \in StepsOf[Grant!Job(t).kind]
         /\ Grant!Job(t).token
              \in 0..(IF Grant!Job(t).kind = "password" THEN MaxTokens + GrantActs ELSE MaxTokens)
         /\ Grant!Job(t).step \in {"asking", "grant"} /\ Grant!Job(t).kind # "forget"
              => Grant!Job(t).token # 0
         /\ task[t].read \subseteq Filed
         /\ Grant!Job(t).step \notin Grant!Writing => task[t].read = {}
<1>1. task[t] \in Jobs /\ CallFits(task[t]) /\ Grant!Job(t) = task[t].job
  BY DEF GrantTypes, Grant!Job
<1>2. task[t] # [job |-> Grant!Idle, read |-> {}]
  BY <1>1 DEF Grant!Idle
<1> QED BY <1>1, <1>2 DEF CallFits, Jobs, Grant!Task, Grant!Kinds

\* The kind of a call, from its step.
LEMMA KindIs ==
  ASSUME GrantTypes, NEW t \in Callers
  PROVE  /\ Grant!Job(t).step = "none" <=> Grant!Job(t).kind = "none"
         /\ Grant!Job(t).step \in {"finding", "asking", "refused"} => Grant!Job(t).kind = "refresh"
         /\ Grant!Job(t).step \in {"broken", "caching"} => Grant!Job(t).kind \in {"refresh", "consent"}
         /\ Grant!Job(t).step = "consenting" => Grant!Job(t).kind = "consent"
         /\ Grant!Job(t).step = "grant" => Grant!Job(t).kind \in {"refresh", "consent", "forget"}
         /\ Grant!Job(t).step = "password" <=> Grant!Job(t).kind = "password"
<1>1. CallFits(task[t])
  BY DEF GrantTypes
<1> QED BY <1>1, FitsIs DEF Grant!Job

LEMMA JoinsStep ==
  ASSUME GrantTypes, Grant!JoinsOnlyTheLiving, NEW t \in Callers, NEW c \in Jobs, CallFits(c),
         task' = [task EXCEPT ![t] = c], Grant!CredentialsAssumption,
         inFlight' \in [Accounts -> Callers \cup {None}],
         \A a \in Accounts : inFlight'[a] \in {inFlight[a], None, t},
         \A a \in Accounts : inFlight'[a] = t => c.job.kind = "refresh" /\ c.job.account = a
  PROVE  Grant!JoinsOnlyTheLiving'
<1> SUFFICES ASSUME NEW a \in Accounts, inFlight'[a] # None
             PROVE  task'[inFlight'[a]].job.kind = "refresh" /\ task'[inFlight'[a]].job.account = a
  BY DEF Grant!JoinsOnlyTheLiving, Grant!Runs, Grant!Job
<1>1. PICK u \in Callers : inFlight'[a] = u
  OBVIOUS
<1>2. CASE u = t
  <2>1. task'[t] = c
    BY CallMoves
  <2> QED BY <1>1, <1>2, <2>1
<1>3. CASE u # t
  <2>1. inFlight[a] = u /\ task'[u].job = Grant!Job(u)
    BY <1>1, <1>3, CallMoves DEF Grant!Job
  <2>2. Grant!Job(u).kind = "refresh" /\ Grant!Job(u).account = a
    BY <2>1 DEF Grant!JoinsOnlyTheLiving, Grant!Runs, Grant!CredentialsAssumption
  <2> QED BY <1>1, <2>1, <2>2
<1> QED BY <1>2, <1>3

LEMMA ReadsGrants ==
  ASSUME Grant!CredentialsAssumption, GrantInv, NEW t \in Callers, Grant!ReadsSecrets(t)
  PROVE  GrantInv'
<1> DEFINE c == Goes(t, Grant!Job(t).token, Grant!Job(t).step, {file})
<1>1. GrantTypes /\ Grant!JoinsOnlyTheLiving
  BY DEF GrantInv
<1>2. Grant!Job(t).kind # "none"
  BY <1>1, KindIs DEF Grant!ReadsSecrets, Grant!Writing
<1>3. {file} \in SUBSET Filed
  BY <1>1 DEF GrantTypes
<1>4. /\ c \in Jobs /\ CallFits(c) /\ c.job.kind = Grant!Job(t).kind
      /\ c.job.account = Grant!Job(t).account /\ c.read = {file}
  BY <1>1, <1>2, <1>3, Fitting, GoesFits DEF Grant!ReadsSecrets
<1>5. c.job = Grant!Job(t)
  BY <1>1, <1>2, Fitting DEF Goes, Grant!Task
<1>6. task' = [task EXCEPT ![t] = c]
  BY <1>1, GoesIs DEF Grant!ReadsSecrets
<1> HIDE DEF c
<1>7. UNCHANGED <<file, accepts, retired, issued, stored, inFlight, cache, rejected, forgotten,
                  refused, disturbed>>
  BY DEF Grant!ReadsSecrets, Grant!memory, Grant!provider, Grant!ghosts
<1>8. Grant!JoinsOnlyTheLiving'
  <2>1. \A a \in Accounts : inFlight'[a] = t => c.job.kind = "refresh" /\ c.job.account = a
    BY <1>1, <1>4, <1>7 DEF Grant!JoinsOnlyTheLiving, Grant!Runs, Grant!CredentialsAssumption
  <2> QED BY <1>1, <1>4, <1>6, <1>7, <2>1, JoinsStep DEF GrantTypes
<1> QED BY <1>1, <1>4, <1>5, <1>6, <1>7, <1>8, QuietStep DEF GrantTypes

\* A call begins.
LEMMA BeginGrants ==
  ASSUME Grant!CredentialsAssumption, GrantInv, NEW t \in Callers, NEW job \in Grant!Task,
         Grant!Begins(t, job), CallFits([job |-> job, read |-> {}]),
         job.step \notin {"asking", "none"}, job.step = "grant" => job.kind = "forget",
         UNCHANGED <<file, accepts, retired, issued, stored, refused>>,
         cache' \subseteq cache, rejected' \subseteq rejected, forgotten' \subseteq forgotten,
         disturbed' \in {disturbed, disturbed \cup {"raced"}},
         inFlight' \in [Accounts -> Callers \cup {None}],
         \A a \in Accounts :
           \/ inFlight'[a] \in {inFlight[a], None}
           \/ inFlight'[a] = t /\ job.kind = "refresh" /\ job.account = a
  PROVE  GrantInv'
<1> DEFINE c == [job |-> job, read |-> {}]
<1>1. GrantTypes /\ Grant!JoinsOnlyTheLiving
  BY DEF GrantInv
<1>2. task' = [task EXCEPT ![t] = c] /\ c \in Jobs /\ task[t] = [job |-> Grant!Idle, read |-> {}]
  BY <1>1, NewFits
<1>3. CallFits(c) /\ c.job = job /\ c.read = {}
  OBVIOUS
<1> HIDE DEF c
<1>4. Grant!Job(t).step = "none" /\ Grant!Job(t).kind = "none"
  BY <1>2 DEF Grant!Job, Grant!Idle
<1>5. Grant!JoinsOnlyTheLiving'
  <2>1. \A a \in Accounts : inFlight[a] # t
    BY <1>1, <1>4 DEF Grant!JoinsOnlyTheLiving, Grant!Runs, Grant!CredentialsAssumption
  <2>2. None # t
    BY DEF Grant!CredentialsAssumption
  <2> QED BY <1>1, <1>2, <1>3, <2>1, <2>2, JoinsStep
<1>6. /\ cache' \subseteq Accounts /\ rejected' \subseteq Accounts /\ forgotten' \subseteq Accounts
      /\ refused' \in [Accounts -> 0..MaxTokens] /\ disturbed \subseteq disturbed'
      /\ disturbed' \subseteq {"not written", "overwritten", "raced", "lost", "withdrawn", "died"}
  BY <1>1 DEF GrantTypes
<1>7. c.job.step # "asking" /\ (c.job.step = "grant" => c.job.kind = "forget")
      /\ Grant!Job(t).step # "grant"
  BY <1>3, <1>4
<1>8. c.read \subseteq task[t].read \cup {file}
  BY <1>3
<1> QED BY <1>2, <1>3, <1>5, <1>6, <1>7, <1>8, QuietStep

LEMMA AsksGrants ==
  ASSUME Grant!CredentialsAssumption, GrantInv, NEW t \in Callers, NEW a \in Accounts,
         Grant!Asks(t, a) \/ Grant!SetsPassword(t, a) \/ Grant!Consents(t, a) \/ Grant!Forgets(t, a),
         acts \in 0..GrantActs
  PROVE  GrantInv'
<1>1. GrantTypes
  BY DEF GrantInv
<1>2. inFlight \in [Accounts -> Callers \cup {None}]
  BY <1>1 DEF GrantTypes
<1>3. CASE Grant!Asks(t, a)
  <2> DEFINE job == Grant!New("refresh", a, "finding")
  <2>1. job \in Grant!Task /\ job.step = "finding" /\ job.kind = "refresh" /\ job.account = a
        /\ CallFits([job |-> job, read |-> {}])
    BY DEF Grant!New, Grant!Task, Grant!Kinds, CallFits, StepsOf, Grant!Writing,
       Grant!CredentialsAssumption
  <2>2. Grant!Begins(t, job)
    BY <1>3 DEF Grant!Asks
  <2> HIDE DEF job
  <2>3. UNCHANGED <<file, accepts, retired, issued, stored, refused, cache, rejected, forgotten,
                    disturbed>>
    BY <1>3 DEF Grant!Asks, Grant!provider, Grant!ghosts
  <2>4. inFlight' = [inFlight EXCEPT ![a] = t]
    BY <1>3 DEF Grant!Asks
  <2> QED BY <1>2, <2>1, <2>2, <2>3, <2>4, BeginGrants
<1>4. CASE Grant!SetsPassword(t, a)
  <2> DEFINE job == [Grant!New("password", a, "password") EXCEPT !.token = acts + 1]
  <2>1. acts + 1 \in 1..GrantActs /\ acts + 1 \in Nat
    BY <1>4 DEF Grant!SetsPassword, Grant!Acts, Grant!CredentialsAssumption
  <2>2. job = [kind |-> "password", account |-> a, token |-> acts + 1, step |-> "password"]
    BY DEF Grant!New
  <2>3. job \in Grant!Task
    BY <2>1, <2>2 DEF Grant!Task, Grant!Kinds
  <2>4. CallFits([job |-> job, read |-> {}])
    BY <2>1, <2>2, <2>3 DEF CallFits, StepsOf, Grant!Writing, Grant!CredentialsAssumption
  <2>5. Grant!Begins(t, job) /\ job.step = "password"
    BY <1>4, <2>2 DEF Grant!SetsPassword
  <2> HIDE DEF job
  <2>6. UNCHANGED <<file, accepts, retired, issued, stored, refused, cache, rejected, forgotten,
                    disturbed, inFlight>>
    BY <1>4 DEF Grant!SetsPassword, Grant!provider, Grant!ghosts, Grant!memory
  <2> QED BY <1>2, <2>3, <2>4, <2>5, <2>6, BeginGrants
<1>5. CASE Grant!Consents(t, a)
  <2> DEFINE job == Grant!New("consent", a, "consenting")
  <2>1. job \in Grant!Task /\ job.step = "consenting" /\ CallFits([job |-> job, read |-> {}])
    BY DEF Grant!New, Grant!Task, Grant!Kinds, CallFits, StepsOf, Grant!Writing,
       Grant!CredentialsAssumption
  <2>2. Grant!Begins(t, job)
    BY <1>5 DEF Grant!Consents
  <2> HIDE DEF job
  <2>3. UNCHANGED <<file, accepts, retired, issued, stored, refused, cache, rejected, disturbed, inFlight>>
        /\ forgotten' \subseteq forgotten
    BY <1>5 DEF Grant!Consents, Grant!provider, Grant!memory
  <2> QED BY <1>2, <2>1, <2>2, <2>3, BeginGrants
<1>6. CASE Grant!Forgets(t, a)
  <2> DEFINE job == Grant!New("forget", a, "grant")
  <2>1. job \in Grant!Task /\ job.step = "grant" /\ job.kind = "forget"
        /\ CallFits([job |-> job, read |-> {}])
    BY DEF Grant!New, Grant!Task, Grant!Kinds, CallFits, StepsOf, Grant!Writing,
       Grant!CredentialsAssumption
  <2>2. Grant!Begins(t, job)
    BY <1>6 DEF Grant!Forgets
  <2> HIDE DEF job
  <2>3. UNCHANGED <<file, accepts, retired, issued, stored, refused, forgotten>>
        /\ cache' \subseteq cache /\ rejected' \subseteq rejected
        /\ disturbed' \in {disturbed, disturbed \cup {"raced"}}
        /\ inFlight' = [inFlight EXCEPT ![a] = None]
    BY <1>6 DEF Grant!Forgets, Grant!provider, Grant!Disturbed
  <2> QED BY <1>2, <2>1, <2>2, <2>3, BeginGrants
<1> QED BY <1>3, <1>4, <1>5, <1>6

\* A call ends, with nothing left to store.
LEMMA EndGrants ==
  ASSUME Grant!CredentialsAssumption, GrantInv, NEW t \in Callers, Grant!Finishes(t),
         Grant!Job(t).kind # "none", Grant!Job(t).step # "grant", inFlight' = Grant!Ended(t),
         UNCHANGED <<file, accepts, retired, issued, stored, forgotten, disturbed>>,
         cache' \subseteq Accounts, rejected' \subseteq Accounts,
         refused' \in [Accounts -> 0..MaxTokens]
  PROVE  GrantInv'
<1> DEFINE c == [job |-> Grant!Idle, read |-> {}]
<1>1. GrantTypes /\ Grant!JoinsOnlyTheLiving
  BY DEF GrantInv
<1>2. c \in Jobs /\ CallFits(c) /\ c.job.step = "none" /\ c.read = {}
  BY <1>1, NewFits DEF Grant!Idle
<1>3. task' = [task EXCEPT ![t] = c]
  BY DEF Grant!Finishes
<1> HIDE DEF c
<1>4. inFlight' \in [Accounts -> Callers \cup {None}]
      /\ \A a \in Accounts : inFlight'[a] \in {inFlight[a], None} /\ inFlight'[a] # t
  <2>1. inFlight \in [Accounts -> Callers \cup {None}] /\ t # None
    BY <1>1 DEF GrantTypes, Grant!CredentialsAssumption
  <2>2. \A a \in Accounts : inFlight[a] = t => Grant!Job(t).kind = "refresh" /\ Grant!Job(t).account = a
    BY <1>1, <2>1 DEF Grant!JoinsOnlyTheLiving, Grant!Runs
  <2> QED BY <2>1, <2>2 DEF Grant!Ended, Grant!Runs
<1>5. Grant!JoinsOnlyTheLiving'
  BY <1>1, <1>2, <1>3, <1>4, JoinsStep
<1>6. /\ forgotten' \subseteq Accounts /\ disturbed \subseteq disturbed'
      /\ disturbed' \subseteq {"not written", "overwritten", "raced", "lost", "withdrawn", "died"}
  BY <1>1 DEF GrantTypes
<1>7. c.job.step # "asking" /\ c.job.step # "grant" /\ c.read \subseteq task[t].read \cup {file}
  BY <1>2
<1> QED BY <1>2, <1>3, <1>4, <1>5, <1>6, <1>7, QuietStep

LEMMA EndingGrants ==
  ASSUME Grant!CredentialsAssumption, GrantInv, NEW t \in Callers,
         Grant!Refused(t) \/ Grant!Fails(t) \/ Grant!Caches(t)
  PROVE  GrantInv'
<1>1. GrantTypes
  BY DEF GrantInv
<1>2. Grant!Finishes(t) /\ inFlight' = Grant!Ended(t)
      /\ UNCHANGED <<file, accepts, retired, issued, stored, forgotten, disturbed>>
      /\ Grant!Job(t).step \in {"refused", "broken", "caching"}
  BY DEF Grant!Refused, Grant!Fails, Grant!Caches, Grant!provider, Grant!ghosts
<1>3. Grant!Job(t).kind # "none" /\ Grant!Job(t).step # "grant" /\ Grant!Job(t).account \in Accounts
  BY <1>1, <1>2, KindIs, Fitting
<1>4. cache' \subseteq Accounts /\ rejected' \subseteq Accounts
  BY <1>1, <1>3 DEF Grant!Refused, Grant!Fails, Grant!Caches, Grant!Cleared, GrantTypes
<1>5. refused' \in [Accounts -> 0..MaxTokens]
  <2>1. CASE Grant!Refused(t)
    <3>1. Grant!Job(t).kind = "refresh"
      BY <1>1, <2>1, KindIs DEF Grant!Refused
    <3>2. Grant!Job(t).token \in 0..MaxTokens
      BY <1>1, <3>1, Fitting
    <3> QED BY <1>1, <1>3, <2>1, <3>2 DEF Grant!Refused, GrantTypes
  <2>2. CASE Grant!Fails(t) \/ Grant!Caches(t)
    BY <1>1, <2>2 DEF Grant!Fails, Grant!Caches, Grant!ghosts, GrantTypes
  <2> QED BY <2>1, <2>2
<1> QED BY <1>2, <1>3, <1>4, <1>5, EndGrants

\* A call goes on with the token it has, or with the one in the file, and does not come to
\* store one.
LEMMA GoOnGrants ==
  ASSUME Grant!CredentialsAssumption, GrantInv, NEW t \in Callers, NEW n, NEW s,
         task' = [task EXCEPT ![t] = Goes(t, n, s, task[t].read)], Grant!Job(t).kind = "refresh",
         Grant!Job(t).step # "grant", s \in {"asking", "refused", "broken", "caching"},
         task[t].read = {}, n \in 0..MaxTokens,
         s = "asking" => n # 0 /\ n = file[<<Grant!Job(t).account, "grant">>],
         UNCHANGED <<file, accepts, retired, issued, stored, inFlight, cache, rejected, forgotten,
                     refused, disturbed>>
  PROVE  GrantInv'
<1> DEFINE c == Goes(t, n, s, task[t].read)
<1>1. GrantTypes /\ Grant!JoinsOnlyTheLiving
  BY DEF GrantInv
<1>2. s \in StepsOf["refresh"] /\ {} \in SUBSET Filed
  BY DEF StepsOf
<1>3. /\ c \in Jobs /\ CallFits(c) /\ c.job.kind = Grant!Job(t).kind
      /\ c.job.account = Grant!Job(t).account /\ c.read = {} /\ c.job.step = s /\ c.job.token = n
  BY <1>1, <1>2, GoesFits
<1>5. task' = [task EXCEPT ![t] = c]
  OBVIOUS
<1> HIDE DEF c
<1>4. Grant!JoinsOnlyTheLiving'
  <2>1. \A a \in Accounts : inFlight'[a] = t => c.job.kind = "refresh" /\ c.job.account = a
    BY <1>1, <1>3 DEF Grant!JoinsOnlyTheLiving, Grant!Runs, Grant!CredentialsAssumption
  <2> QED BY <1>1, <1>3, <1>5, <2>1, JoinsStep DEF GrantTypes
<1>6. \/ c.job.step = "asking" /\ c.job.token = file[<<c.job.account, "grant">>]
      \/ c.job.step # "asking" /\ (c.job.step = "grant" => c.job.kind = "forget")
  BY <1>3
<1> QED BY <1>1, <1>3, <1>4, <1>5, <1>6, QuietStep DEF GrantTypes

LEMMA FindsGrants ==
  ASSUME Grant!CredentialsAssumption, GrantInv, NEW t \in Callers, Grant!FindsGrant(t)
  PROVE  GrantInv'
<1>1. GrantTypes
  BY DEF GrantInv
<1>2. Grant!Job(t).step = "finding" /\ Grant!Job(t).kind = "refresh"
  BY <1>1, KindIs DEF Grant!FindsGrant
<1>3. Grant!Job(t).account \in Accounts /\ task[t].read = {}
  BY <1>1, <1>2, Fitting DEF Grant!Writing
<1>4. UNCHANGED <<file, accepts, retired, issued, stored, cache, rejected, forgotten, refused, disturbed>>
  BY DEF Grant!FindsGrant, Grant!provider, Grant!ghosts
<1> DEFINE n == file[<<Grant!Job(t).account, "grant">>]
<1>5. CASE /\ n # 0 /\ UNCHANGED inFlight
           /\ task' = [task EXCEPT ![t].job.step = "asking", ![t].job.token = n]
  <2>1. n \in 0..MaxTokens
    BY <1>1, <1>3 DEF GrantTypes, Filed
  <2>2. ToWith(t, "asking", n)
    BY <1>5 DEF ToWith
  <2>3. task' = [task EXCEPT ![t] = Goes(t, n, "asking", task[t].read)]
    BY <1>1, <2>2, ToWithIs
  <2> QED BY <1>2, <1>3, <1>4, <1>5, <2>1, <2>3, GoOnGrants
<1>6. CASE Grant!Finishes(t) /\ inFlight' = Grant!Ended(t)
  <2>1. cache' \subseteq Accounts /\ rejected' \subseteq Accounts /\ refused' \in [Accounts -> 0..MaxTokens]
    BY <1>1, <1>4 DEF GrantTypes
  <2> QED BY <1>2, <1>4, <1>6, <2>1, EndGrants
<1> QED BY <1>5, <1>6 DEF Grant!FindsGrant, Grant!HasGrant

\* The provider issues a token to a in answer to the call t, and may retire o, the one shown.
IssuesTo(t, a, o) ==
  /\ Grant!Job(t).account = a /\ Grant!Job(t).token = o
  /\ Grant!Job(t).kind \in {"refresh", "consent"} /\ Grant!Job(t).step \in {"asking", "consenting"}
  /\ issued[a] < MaxTokens /\ issued' = [issued EXCEPT ![a] = issued[a] + 1]
  /\ accepts' = [accepts EXCEPT ![a] = @ \cup {issued[a] + 1}]
  /\ \/ UNCHANGED retired
     \/ Grant!Job(t).step = "asking" /\ retired' = [retired EXCEPT ![a] = @ \cup {o}]
  /\ UNCHANGED <<file, stored, inFlight, cache, rejected, forgotten, refused>>

LEMMA IssuingTo ==
  ASSUME Grant!CredentialsAssumption, GrantTypes, Issued, NEW t \in Callers, NEW a, NEW o, IssuesTo(t, a, o)
  PROVE  /\ a \in Accounts /\ task[t].read = {}
         /\ Grant!Job(t).step = "asking" => o \in 1..MaxTokens /\ o <= issued[a]
         /\ issued[a] \in 1..MaxTokens /\ issued[a] + 1 \in 1..MaxTokens
         /\ issued' \in [Accounts -> 1..MaxTokens]
         /\ accepts' \in [Accounts -> SUBSET (1..MaxTokens)]
         /\ retired' \in [Accounts -> SUBSET (1..MaxTokens)]
         /\ issued'[a] = issued[a] + 1 /\ accepts'[a] = accepts[a] \cup {issued[a] + 1}
         /\ \/ retired'[a] = retired[a]
            \/ Grant!Job(t).step = "asking" /\ retired'[a] = retired[a] \cup {o}
         /\ \A b \in Accounts \ {a} :
              issued'[b] = issued[b] /\ accepts'[b] = accepts[b] /\ retired'[b] = retired[b]
<1>1. Grant!Job(t).account = a /\ Grant!Job(t).token = o /\ Grant!Job(t).kind \in {"refresh", "consent"}
      /\ Grant!Job(t).step \in {"asking", "consenting"}
  BY DEF IssuesTo
<1>2. a \in Accounts /\ task[t].read = {} /\ (Grant!Job(t).step = "asking" => o \in 1..MaxTokens)
  <2>1. Grant!Job(t).step \notin Grant!Writing /\ Grant!Job(t).kind \notin {"none", "password", "forget"}
    BY <1>1 DEF Grant!Writing
  <2>2. a \in Accounts /\ task[t].read = {}
    BY <1>1, <2>1, Fitting
  <2>3. o \in 0..MaxTokens
    BY <1>1, <2>1, Fitting
  <2>4. Grant!Job(t).step = "asking" => o # 0
    BY <1>1, <2>1, Fitting
  <2> QED BY <2>2, <2>3, <2>4
<1>3. Grant!Job(t).step = "asking" => o <= issued[a]
  BY <1>1 DEF Issued
<1>4. /\ issued \in [Accounts -> 1..MaxTokens]
      /\ accepts \in [Accounts -> SUBSET (1..MaxTokens)] /\ retired \in [Accounts -> SUBSET (1..MaxTokens)]
      /\ MaxTokens \in Nat
  BY DEF GrantTypes, Grant!CredentialsAssumption
<1>5. issued[a] \in 1..MaxTokens /\ issued[a] + 1 \in 1..MaxTokens
  BY <1>2, <1>4 DEF IssuesTo
<1>6. issued' \in [Accounts -> 1..MaxTokens] /\ issued'[a] = issued[a] + 1
      /\ \A b \in Accounts \ {a} : issued'[b] = issued[b]
  BY <1>2, <1>4, <1>5 DEF IssuesTo
<1>7. /\ accepts' \in [Accounts -> SUBSET (1..MaxTokens)] /\ accepts'[a] = accepts[a] \cup {issued[a] + 1}
      /\ \A b \in Accounts \ {a} : accepts'[b] = accepts[b]
  <2>1. accepts' = [accepts EXCEPT ![a] = accepts[a] \cup {issued[a] + 1}]
    BY DEF IssuesTo
  <2>2. accepts[a] \cup {issued[a] + 1} \in SUBSET (1..MaxTokens)
    BY <1>2, <1>4, <1>5
  <2> QED BY <1>2, <1>4, <2>1, <2>2
<1>8. /\ retired' \in [Accounts -> SUBSET (1..MaxTokens)]
      /\ \A b \in Accounts \ {a} : retired'[b] = retired[b]
      /\ \/ retired'[a] = retired[a]
         \/ Grant!Job(t).step = "asking" /\ retired'[a] = retired[a] \cup {o}
  <2>1. CASE UNCHANGED retired
    BY <1>4, <2>1
  <2>2. CASE Grant!Job(t).step = "asking" /\ retired' = [retired EXCEPT ![a] = retired[a] \cup {o}]
    <3>1. retired[a] \cup {o} \in SUBSET (1..MaxTokens)
      BY <1>2, <1>4, <2>2
    <3> QED BY <1>2, <1>4, <2>2, <3>1
  <2> QED BY <2>1, <2>2 DEF IssuesTo
<1> QED BY <1>2, <1>3, <1>5, <1>6, <1>7, <1>8

LEMMA IssuingTypes ==
  ASSUME Grant!CredentialsAssumption, GrantInv, NEW t \in Callers, NEW a, NEW o, IssuesTo(t, a, o),
         NEW n \in Nat, NEW s, task' = [task EXCEPT ![t] = Goes(t, n, s, task[t].read)],
         s \in {"grant", "broken"}, n <= issued[a] + 1, n # 0 \/ s = "broken",
         disturbed' \in {disturbed, disturbed \cup {"lost"}}
  PROVE  /\ GrantTypes' /\ Issued' /\ Grant!JoinsOnlyTheLiving'
         /\ Grant!Job(t)'.account = a /\ Grant!Job(t)'.kind = Grant!Job(t).kind
         /\ Grant!Job(t)'.step = s /\ Grant!Job(t)'.token = n
         /\ \A u \in Callers \ {t} : task'[u] = task[u] /\ Grant!Job(u)' = Grant!Job(u)
<1> DEFINE c == Goes(t, n, s, task[t].read)
<1>1. GrantTypes /\ Issued /\ Grant!JoinsOnlyTheLiving
  BY DEF GrantInv
<1>2. /\ a \in Accounts /\ task[t].read = {}
      /\ (Grant!Job(t).step = "asking" => o \in 1..MaxTokens /\ o <= issued[a])
      /\ issued[a] \in 1..MaxTokens /\ issued[a] + 1 \in 1..MaxTokens
      /\ issued' \in [Accounts -> 1..MaxTokens]
      /\ accepts' \in [Accounts -> SUBSET (1..MaxTokens)]
      /\ retired' \in [Accounts -> SUBSET (1..MaxTokens)]
  BY <1>1, IssuingTo
<1>3. /\ issued'[a] = issued[a] + 1 /\ accepts'[a] = accepts[a] \cup {issued[a] + 1}
      /\ \/ retired'[a] = retired[a]
         \/ Grant!Job(t).step = "asking" /\ retired'[a] = retired[a] \cup {o}
      /\ \A b \in Accounts \ {a} :
           issued'[b] = issued[b] /\ accepts'[b] = accepts[b] /\ retired'[b] = retired[b]
  BY <1>1, IssuingTo
<1>0. Grant!Job(t).account = a /\ Grant!Job(t).kind \in {"refresh", "consent"}
  BY DEF IssuesTo
<1>4. s \in StepsOf[Grant!Job(t).kind] /\ {} \in SUBSET Filed /\ n \in 0..MaxTokens
  <2>1. n \in 0..MaxTokens
    BY <1>2 DEF Grant!CredentialsAssumption
  <2>2. s \in StepsOf[Grant!Job(t).kind]
    BY <1>0 DEF StepsOf
  <2> QED BY <2>1, <2>2
<1>5. /\ c \in Jobs /\ CallFits(c) /\ c.job.kind = Grant!Job(t).kind /\ c.job.account = a
      /\ c.read = {} /\ c.job.step = s /\ c.job.token = n
  <2>1. Grant!Job(t).kind # "none" /\ Grant!Job(t).kind # "password"
    BY <1>0
  <2> QED BY <1>0, <1>1, <1>2, <1>4, <2>1, GoesFits
<1>6. task' = [task EXCEPT ![t] = c]
  OBVIOUS
<1> HIDE DEF c
<1>7. /\ task' \in [Callers -> Jobs] /\ \A u \in Callers : CallFits(task'[u])
      /\ task'[t] = c /\ Grant!Job(t)' = c.job
      /\ \A u \in Callers \ {t} : task'[u] = task[u] /\ Grant!Job(u)' = Grant!Job(u)
  BY <1>1, <1>5, <1>6, CallMoves
<1>8. Grant!JoinsOnlyTheLiving'
  <2>1. \A b \in Accounts : inFlight'[b] = inFlight[b]
    BY DEF IssuesTo
  <2>2. \A b \in Accounts : inFlight'[b] = t => c.job.kind = "refresh" /\ c.job.account = b
    BY <1>0, <1>1, <1>5, <2>1 DEF Grant!JoinsOnlyTheLiving, Grant!Runs, Grant!CredentialsAssumption
  <2>3. inFlight' \in [Accounts -> Callers \cup {None}]
    BY <1>1 DEF GrantTypes, IssuesTo
  <2> QED BY <1>1, <1>5, <1>6, <2>1, <2>2, <2>3, JoinsStep
<1>10. GrantTypes'
  BY <1>1, <1>2, <1>7 DEF GrantTypes, IssuesTo
<1>11. \A b \in Accounts : issued'[b] \in Nat /\ issued[b] \in Nat /\ issued[b] <= issued'[b]
  <2>1. issued \in [Accounts -> 1..MaxTokens] /\ issued' \in [Accounts -> 1..MaxTokens]
    BY <1>1, <1>2 DEF GrantTypes
  <2>2. ASSUME NEW b \in Accounts PROVE issued'[b] \in Nat /\ issued[b] \in Nat
    BY <2>1
  <2>3. ASSUME NEW b \in Accounts PROVE issued'[b] = issued[b] \/ issued'[b] = issued[b] + 1
    BY <1>3
  <2> QED BY <2>2, <2>3
<1>12. Issued'
  <2>1. ASSUME NEW b \in Accounts, NEW m \in accepts'[b] \cup retired'[b] PROVE m <= issued'[b]
    <3>1. CASE m \in accepts[b] \cup retired[b]
      <4>1. m \in 1..MaxTokens /\ m <= issued[b]
        BY <1>1, <3>1 DEF GrantTypes, Issued
      <4> QED BY <1>11, <4>1
    <3>2. CASE b = a /\ m = issued[a] + 1
      BY <1>2, <1>3, <3>2
    <3>3. CASE b = a /\ Grant!Job(t).step = "asking" /\ m = o
      BY <1>2, <1>11, <3>3
    <3>4. \/ m \in accepts[b] \cup retired[b]
          \/ b = a /\ m = issued[a] + 1
          \/ b = a /\ Grant!Job(t).step = "asking" /\ m = o
      BY <1>2, <1>3, <2>1
    <3> QED BY <3>1, <3>2, <3>3, <3>4
  <2>2. ASSUME NEW b \in Accounts PROVE file'[<<b, "grant">>] <= issued'[b]
    <3>1. file[<<b, "grant">>] <= issued[b] /\ file[<<b, "grant">>] \in 0..MaxTokens
      BY <1>1 DEF Issued, GrantTypes, Filed
    <3> QED BY <1>11, <3>1 DEF IssuesTo
  <2>3. ASSUME NEW u \in Callers, Grant!Job(u)'.step \in {"asking", "grant"}, Grant!Job(u)'.kind # "forget"
        PROVE  Grant!Job(u)'.token <= issued'[Grant!Job(u)'.account]
    <3>1. CASE u = t
      BY <1>2, <1>3, <1>5, <1>7, <3>1
    <3>2. CASE u # t
      <4>1. Grant!Job(u)' = Grant!Job(u)
        BY <1>7, <3>2
      <4>2. PICK j : j = Grant!Job(u)
        OBVIOUS
      <4>3. j.token <= issued[j.account]
        BY <1>1, <2>3, <4>1, <4>2 DEF Issued
      <4>4. j.account \in Accounts /\ j.token \in 1..MaxTokens
        <5>1. Grant!Job(u).kind # "none" /\ j.step \in {"asking", "grant"} /\ j.kind # "forget"
          BY <1>1, <2>3, <4>1, <4>2, KindIs
        <5>2. j.kind # "password" /\ u \in Callers
          BY <1>1, <4>2, <5>1, KindIs
        <5>3. j.account \in Accounts /\ j.token # 0
          BY <1>1, <4>2, <5>1, Fitting
        <5>4. j.token \in 0..MaxTokens
          BY <1>1, <4>2, <5>1, <5>2, Fitting
        <5> QED BY <5>3, <5>4
      <4>5. j.token <= issued'[j.account]
        BY <1>11, <4>3, <4>4
      <4> QED BY <4>1, <4>2, <4>5
    <3> QED BY <3>1, <3>2
  <2>4. ASSUME NEW u \in Callers, NEW f \in task'[u].read, NEW b \in Accounts
        PROVE  f[<<b, "grant">>] <= issued'[b]
    <3>1. f \in task[u].read
      BY <1>2, <1>5, <1>7, <2>4
    <3>2. f \in Filed
      BY <1>1, <3>1 DEF GrantTypes, Jobs
    <3>3. f[<<b, "grant">>] <= issued[b] /\ f[<<b, "grant">>] \in 0..MaxTokens
      BY <1>1, <3>1, <3>2 DEF Issued, Filed
    <3> QED BY <1>11, <3>3
  <2> QED BY <2>1, <2>2, <2>3, <2>4 DEF Issued
<1> QED BY <1>5, <1>7, <1>8, <1>10, <1>12

\* What is known of the tokens that a call is to store, or asks with.
LEMMA TokensKnown ==
  ASSUME GrantTypes, Issued, NEW u \in Callers, NEW b, Stores(u, b) \/ AsksWith(u, b)
  PROVE  b \in Accounts /\ Grant!Job(u).token \in Nat /\ Grant!Job(u).token <= issued[b]
<1>1. Grant!Job(u).kind \notin {"none", "forget", "password"} /\ Grant!Job(u).account = b
      /\ Grant!Job(u).step \in {"asking", "grant"}
  BY KindIs DEF Stores, AsksWith
<1>2. b \in Accounts
  BY <1>1, Fitting
<1>3. Grant!Job(u).token \in Nat
  BY <1>1, Fitting DEF Grant!Task
<1>4. Grant!Job(u).token <= issued[b]
  BY <1>1 DEF Issued
<1> QED BY <1>2, <1>3, <1>4

\* The call t is given a new token, and is to store it.
LEMMA NewToken ==
  ASSUME Grant!CredentialsAssumption, GrantInv, NEW t \in Callers, NEW a, NEW o, IssuesTo(t, a, o),
         task' = [task EXCEPT ![t] = Goes(t, issued[a] + 1, "grant", task[t].read)],
         UNCHANGED disturbed
  PROVE  GrantInv'
<1>1. GrantTypes /\ Issued
  BY DEF GrantInv
<1>2. PICK n : n = issued[a] + 1
  OBVIOUS
<1>3. /\ a \in Accounts /\ n \in 1..MaxTokens /\ n \in Nat /\ n # 0 /\ issued[a] \in Nat /\ n > issued[a]
      /\ (Grant!Job(t).step = "asking" => o \in 1..MaxTokens /\ o <= issued[a])
  BY <1>1, <1>2, IssuingTo
<1>4. /\ accepts'[a] = accepts[a] \cup {n}
      /\ \/ retired'[a] = retired[a]
         \/ Grant!Job(t).step = "asking" /\ retired'[a] = retired[a] \cup {o}
      /\ \A b \in Accounts \ {a} : accepts'[b] = accepts[b] /\ retired'[b] = retired[b]
  BY <1>1, <1>2, IssuingTo
<1>5. task' = [task EXCEPT ![t] = Goes(t, n, "grant", task[t].read)]
  BY <1>2
<1>6. /\ GrantTypes' /\ Issued' /\ Grant!JoinsOnlyTheLiving'
      /\ Grant!Job(t)'.account = a /\ Grant!Job(t)'.kind = Grant!Job(t).kind
      /\ Grant!Job(t)'.step = "grant" /\ Grant!Job(t)'.token = n
      /\ \A u \in Callers \ {t} : task'[u] = task[u] /\ Grant!Job(u)' = Grant!Job(u)
  <2>1. n <= issued[a] + 1 /\ "grant" \in {"grant", "broken"} /\ disturbed' \in {disturbed, disturbed \cup {"lost"}}
    BY <1>2, <1>3
  <2> QED BY <1>3, <1>5, <2>1, IssuingTypes
<1>7. file' = file /\ Grant!Job(t).account = a /\ Grant!Job(t).token = o
      /\ Grant!Job(t).kind \in {"refresh", "consent"} /\ Grant!Job(t).step # "grant"
  BY DEF IssuesTo
<1>8. /\ Stores(t, a)'
      /\ \A b \in Accounts : (Stores(t, b)' => b = a) /\ ~AsksWith(t, b)'
      /\ \A u \in Callers \ {t}, b \in Accounts :
           (Stores(u, b)' <=> Stores(u, b)) /\ (AsksWith(u, b)' <=> AsksWith(u, b))
  BY <1>6, <1>7 DEF Stores, AsksWith
<1>9. ASSUME StoredIsNew, FileIsGood PROVE StoredIsNew' /\ FileIsGood'
  <2>1. ASSUME NEW b \in Accounts, NEW u \in Callers, Stores(u, b)'
        PROVE  Grant!Job(u)'.token \in accepts'[b] \ retired'[b] /\ file'[<<b, "grant">>] # Grant!Job(u)'.token
    <3>1. CASE u = t
      <4>1. b = a /\ Grant!Job(u)'.token = n
        BY <1>6, <1>8, <2>1, <3>1
      <4>2. n \notin retired[a]
        BY <1>1, <1>3 DEF Issued
      <4>3. n \notin retired'[a]
        BY <1>3, <1>4, <4>2
      <4>4. file[<<a, "grant">>] # n
        BY <1>1, <1>3 DEF Issued
      <4> QED BY <1>4, <1>7, <4>1, <4>3, <4>4
    <3>2. CASE u # t
      <4>1. Stores(u, b) /\ Grant!Job(u)' = Grant!Job(u)
        BY <1>6, <1>8, <2>1, <3>2
      <4>2. Grant!Job(u).token \in accepts[b] \ retired[b] /\ file[<<b, "grant">>] # Grant!Job(u).token
        BY <1>9, <4>1 DEF StoredIsNew
      <4>3. b = a /\ Grant!Job(t).step = "asking" => Grant!Job(u).token # o
        <5>1. b = a /\ Grant!Job(t).step = "asking" => AsksWith(t, b)
          BY <1>7 DEF AsksWith
        <5> QED BY <1>7, <1>9, <3>2, <4>1, <5>1 DEF StoredIsNew
      <4>4. Grant!Job(u).token \in accepts'[b] \ retired'[b]
        BY <1>4, <4>2, <4>3
      <4> QED BY <1>7, <4>1, <4>2, <4>4
    <3> QED BY <3>1, <3>2
  <2>2. ASSUME NEW b \in Accounts, NEW u \in Callers, Stores(u, b)', NEW w \in Callers \ {u},
               Stores(w, b)' \/ AsksWith(w, b)'
        PROVE  Grant!Job(w)'.token # Grant!Job(u)'.token
    <3>1. CASE u = t
      <4>1. b = a /\ Grant!Job(u)'.token = n /\ Grant!Job(w)' = Grant!Job(w) /\ (Stores(w, a) \/ AsksWith(w, a))
        BY <1>6, <1>8, <2>2, <3>1
      <4>2. Grant!Job(w).token \in Nat /\ Grant!Job(w).token <= issued[a]
        BY <1>1, <4>1, TokensKnown
      <4> QED BY <1>3, <4>1, <4>2
    <3>2. CASE w = t
      <4>1. b = a /\ Grant!Job(w)'.token = n /\ Grant!Job(u)' = Grant!Job(u) /\ Stores(u, a)
        BY <1>6, <1>8, <2>2, <3>2
      <4>2. Grant!Job(u).token \in Nat /\ Grant!Job(u).token <= issued[a]
        BY <1>1, <4>1, TokensKnown
      <4> QED BY <1>3, <4>1, <4>2
    <3>3. CASE u # t /\ w # t
      <4>1. Stores(u, b) /\ (Stores(w, b) \/ AsksWith(w, b))
            /\ Grant!Job(u)' = Grant!Job(u) /\ Grant!Job(w)' = Grant!Job(w)
        BY <1>6, <1>8, <2>2, <3>3
      <4> QED BY <1>9, <4>1 DEF StoredIsNew
    <3> QED BY <3>1, <3>2, <3>3
  <2>3. ASSUME NEW b \in Accounts
        PROVE  file'[<<b, "grant">>] = 0 \/ Grant!Good(b)' \/ \E u \in Callers : Stores(u, b)'
    <3>1. CASE b = a
      BY <1>8, <3>1
    <3>2. CASE b # a
      <4>1. \A u \in Callers : Stores(u, b) => u # t
        BY <1>7, <3>2 DEF Stores
      <4>2. Grant!Good(b)' <=> Grant!Good(b)
        BY <1>4, <1>7, <3>2 DEF Grant!Good
      <4> QED BY <1>7, <1>8, <1>9, <4>1, <4>2 DEF FileIsGood
    <3> QED BY <3>1, <3>2
  <2>4. StoredIsNew'
    BY <2>1, <2>2 DEF StoredIsNew
  <2>5. FileIsGood'
    BY <2>3 DEF FileIsGood
  <2> QED BY <2>4, <2>5
<1> QED BY <1>6, <1>9 DEF GrantInv

LEMMA AnswersGrants ==
  ASSUME Grant!CredentialsAssumption, GrantInv, NEW t \in Callers, Grant!Answers(t)
  PROVE  GrantInv'
<1>1. GrantTypes /\ Issued
  BY DEF GrantInv
<1>2. Grant!Job(t).step = "asking" /\ Grant!Job(t).kind = "refresh"
  BY <1>1, KindIs DEF Grant!Answers
<1>3. PICK a : a = Grant!Job(t).account
  OBVIOUS
<1>4. PICK o : o = Grant!Job(t).token
  OBVIOUS
<1>5. a \in Accounts /\ task[t].read = {} /\ o \in 0..MaxTokens
  <2>1. Grant!Job(t).kind # "none" /\ Grant!Job(t).kind # "password" /\ "asking" \notin Grant!Writing
    BY <1>2 DEF Grant!Writing
  <2>2. a \in Accounts /\ task[t].read = {}
    BY <1>1, <1>2, <1>3, <2>1, Fitting
  <2>3. o \in 0..MaxTokens
    BY <1>1, <1>4, <2>1, Fitting
  <2> QED BY <2>2, <2>3
<1>6. UNCHANGED <<file, inFlight, cache, rejected, stored, forgotten, refused>>
  BY DEF Grant!Answers, Grant!memory
<1>7. CASE /\ UNCHANGED <<accepts, retired, issued, disturbed>>
           /\ \E s \in {"refused", "broken", "caching"} : Grant!To(t, s)
  <2>1. PICK s \in {"refused", "broken", "caching"} : Grant!To(t, s)
    BY <1>7
  <2>2. task' = [task EXCEPT ![t] = Goes(t, o, s, task[t].read)]
    BY <1>1, <1>4, <2>1, GoesIs DEF Grant!To
  <2> QED BY <1>2, <1>5, <1>6, <1>7, <2>2, GoOnGrants
<1>8. CASE /\ issued[a] < MaxTokens /\ issued' = [issued EXCEPT ![a] = issued[a] + 1]
           /\ accepts' = [accepts EXCEPT ![a] = @ \cup {issued[a] + 1}]
           /\ retired' = [retired EXCEPT ![a] = @ \cup {o}]
           /\ \/ ToWith(t, "grant", issued[a] + 1) /\ UNCHANGED disturbed
              \/ Grant!To(t, "broken") /\ disturbed' = disturbed \cup {"lost"}
  <2>1. IssuesTo(t, a, o)
    BY <1>2, <1>3, <1>4, <1>6, <1>8 DEF IssuesTo
  <2>2. CASE ToWith(t, "grant", issued[a] + 1) /\ UNCHANGED disturbed
    <3>1. PICK n : n = issued[a] + 1
      OBVIOUS
    <3>2. task' = [task EXCEPT ![t] = Goes(t, n, "grant", task[t].read)]
      BY <1>1, <2>2, <3>1, ToWithIs
    <3> QED BY <2>1, <2>2, <3>1, <3>2, NewToken
  <2>3. CASE Grant!To(t, "broken") /\ disturbed' = disturbed \cup {"lost"}
    <3>1. task' = [task EXCEPT ![t] = Goes(t, o, "broken", task[t].read)]
      BY <1>1, <1>4, <2>3, GoesIs DEF Grant!To
    <3>2. o \in Nat /\ o <= issued[a] + 1
      BY <1>1, <1>2, <2>1, IssuingTo
    <3>3. GrantTypes' /\ Issued' /\ Grant!JoinsOnlyTheLiving'
      BY <2>1, <2>3, <3>1, <3>2, IssuingTypes
    <3> QED BY <2>3, <3>3 DEF GrantInv
  <2> QED BY <1>8, <2>2, <2>3
<1> QED
  <2>1. UNCHANGED <<accepts, retired, issued>> <=> UNCHANGED Grant!provider
    BY DEF Grant!provider
  <2>2. ASSUME Grant!To(t, "refused"), UNCHANGED <<Grant!provider, disturbed, faults>> PROVE GrantInv'
    BY <1>7, <2>1, <2>2
  <2>3. ASSUME Grant!To(t, "broken"), UNCHANGED <<Grant!provider, disturbed>> PROVE GrantInv'
    BY <1>7, <2>1, <2>3
  <2>4. ASSUME task' = Grant!KeepsNew(t, 0), UNCHANGED <<Grant!provider, disturbed, faults>> PROVE GrantInv'
    <3>1. Grant!To(t, "caching")
      BY <2>4 DEF Grant!KeepsNew, Grant!To
    <3> QED BY <1>7, <2>1, <2>4, <3>1
  <2>5. ASSUME issued[a] < MaxTokens, issued' = [issued EXCEPT ![a] = issued[a] + 1],
               accepts' = [accepts EXCEPT ![a] = @ \cup {issued[a] + 1}],
               retired' = [retired EXCEPT ![a] = @ \cup {o}],
               \/ task' = Grant!KeepsNew(t, issued[a] + 1) /\ UNCHANGED <<disturbed, faults>>
               \/ Grant!To(t, "broken") /\ Grant!Disturbed("lost")
        PROVE  GrantInv'
    <3>1. issued[a] + 1 # 0
      <4>1. issued[a] \in 1..MaxTokens /\ MaxTokens \in Nat
        BY <1>1, <1>5 DEF GrantTypes, Grant!CredentialsAssumption
      <4> QED BY <4>1
    <3>2. task' = Grant!KeepsNew(t, issued[a] + 1) => ToWith(t, "grant", issued[a] + 1)
      BY <3>1 DEF Grant!KeepsNew, ToWith
    <3> QED BY <1>8, <2>5, <3>2 DEF Grant!Disturbed
  <2> QED BY <1>3, <1>4, <2>2, <2>3, <2>4, <2>5 DEF Grant!Answers

LEMMA SignedInGrants ==
  ASSUME Grant!CredentialsAssumption, GrantInv, NEW t \in Callers, Grant!SignedIn(t)
  PROVE  GrantInv'
<1>1. GrantTypes /\ Issued
  BY DEF GrantInv
<1>2. Grant!Job(t).step = "consenting" /\ Grant!Job(t).kind = "consent"
  BY <1>1, KindIs DEF Grant!SignedIn
<1>3. PICK a : a = Grant!Job(t).account
  OBVIOUS
<1>4. PICK o : o = Grant!Job(t).token
  OBVIOUS
<1>5. a \in Accounts
  BY <1>1, <1>2, <1>3, Fitting
<1>6. UNCHANGED <<file, inFlight, cache, rejected, retired, stored, forgotten, refused, disturbed>>
  BY DEF Grant!SignedIn, Grant!memory, Grant!ghosts
<1>7. CASE /\ issued[a] < MaxTokens /\ issued' = [issued EXCEPT ![a] = issued[a] + 1]
           /\ accepts' = [accepts EXCEPT ![a] = @ \cup {issued[a] + 1}]
           /\ task' = Grant!KeepsNew(t, issued[a] + 1)
  <2>1. PICK n : n = issued[a] + 1
    OBVIOUS
  <2>2. n # 0
    <3>1. issued[a] \in 1..MaxTokens /\ MaxTokens \in Nat
      BY <1>1, <1>5 DEF GrantTypes, Grant!CredentialsAssumption
    <3> QED BY <2>1, <3>1
  <2>3. ToWith(t, "grant", n)
    BY <1>7, <2>1, <2>2 DEF Grant!KeepsNew, ToWith
  <2>4. task' = [task EXCEPT ![t] = Goes(t, n, "grant", task[t].read)]
    BY <1>1, <2>3, ToWithIs
  <2>5. IssuesTo(t, a, o)
    BY <1>2, <1>3, <1>4, <1>6, <1>7 DEF IssuesTo
  <2> QED BY <1>6, <2>1, <2>4, <2>5, NewToken
<1>8. CASE Grant!Finishes(t) /\ UNCHANGED <<issued, accepts>>
  <2>1. inFlight' = Grant!Ended(t)
    BY <1>2, <1>6 DEF Grant!Ended, Grant!Runs
  <2>2. cache' \subseteq Accounts /\ rejected' \subseteq Accounts /\ refused' \in [Accounts -> 0..MaxTokens]
    BY <1>1, <1>6 DEF GrantTypes
  <2> QED BY <1>2, <1>6, <1>8, <2>1, <2>2, EndGrants
<1> QED BY <1>3, <1>7, <1>8 DEF Grant!SignedIn

LEMMA OneOrMore == \A k \in Nat : \A n \in 1..k : n # 0
  OBVIOUS

\* A call has written the file, or could not, and goes on.
LEMMA WriteStep ==
  ASSUME Grant!CredentialsAssumption, GrantInv, NEW t \in Callers, NEW c \in Jobs, CallFits(c),
         task' = [task EXCEPT ![t] = c], c.read = {}, c.job.step \notin {"grant", "asking"},
         \A a \in Accounts : inFlight[a] = t => c.job.kind = "refresh" /\ c.job.account = a,
         UNCHANGED <<inFlight, cache, rejected, accepts, retired, issued, refused>>,
         file' \in Filed, stored' \in Grant!Secrets, forgotten' \subseteq Accounts,
         disturbed \subseteq disturbed',
         disturbed' \subseteq {"not written", "overwritten", "raced", "lost", "withdrawn", "died"},
         \A b \in Accounts : file'[<<b, "grant">>] <= issued[b],
         disturbed' = {} => \A b \in Accounts :
           \/ file'[<<b, "grant">>] = file[<<b, "grant">>] /\ ~Stores(t, b)
           \/ file'[<<b, "grant">>] = Grant!Job(t).token /\ Stores(t, b)
           \/ file'[<<b, "grant">>] = 0 /\ ~Stores(t, b)
  PROVE  GrantInv'
<1>1. GrantTypes /\ Issued /\ Grant!JoinsOnlyTheLiving
  BY DEF GrantInv
<1>2. /\ task' \in [Callers -> Jobs] /\ \A u \in Callers : CallFits(task'[u])
      /\ task'[t] = c /\ Grant!Job(t)' = c.job
      /\ \A u \in Callers \ {t} : task'[u] = task[u] /\ Grant!Job(u)' = Grant!Job(u)
  BY <1>1, CallMoves
<1>3. GrantTypes'
  BY <1>1, <1>2 DEF GrantTypes
<1>4. Grant!JoinsOnlyTheLiving'
  <2>1. inFlight' = inFlight /\ inFlight' \in [Accounts -> Callers \cup {None}]
    BY <1>1 DEF GrantTypes
  <2>2. /\ \A a \in Accounts : inFlight'[a] \in {inFlight[a], None, t}
        /\ \A a \in Accounts : inFlight'[a] = t => c.job.kind = "refresh" /\ c.job.account = a
    BY <2>1
  <2> QED BY <1>1, <2>1, <2>2, JoinsStep
<1>5. Issued'
  <2>1. ASSUME NEW u \in Callers, Grant!Job(u)'.step \in {"asking", "grant"}, Grant!Job(u)'.kind # "forget"
        PROVE  Grant!Job(u)'.token <= issued[Grant!Job(u)'.account]
    BY <1>1, <1>2, <2>1 DEF Issued
  <2>2. ASSUME NEW u \in Callers, NEW f \in task'[u].read, NEW a \in Accounts
        PROVE  f[<<a, "grant">>] <= issued[a]
    BY <1>1, <1>2, <2>2 DEF Issued
  <2> QED BY <1>1, <2>1, <2>2 DEF Issued
<1>6. ASSUME disturbed' = {} PROVE StoredIsNew' /\ FileIsGood'
  <2>1. StoredIsNew /\ FileIsGood
    BY <1>6 DEF GrantInv
  <2>2. \A b \in Accounts : ~Stores(t, b)' /\ ~AsksWith(t, b)'
    BY <1>2 DEF Stores, AsksWith
  <2>3. \A u \in Callers \ {t}, b \in Accounts :
          (Stores(u, b)' <=> Stores(u, b)) /\ (AsksWith(u, b)' <=> AsksWith(u, b))
          /\ Grant!Job(u)' = Grant!Job(u)
    BY <1>2 DEF Stores, AsksWith
  <2>4. ASSUME NEW b \in Accounts, NEW u \in Callers, Stores(u, b)'
        PROVE  /\ Grant!Job(u)'.token \in accepts[b] \ retired[b]
               /\ file'[<<b, "grant">>] # Grant!Job(u)'.token
               /\ \A w \in Callers \ {u} :
                    Stores(w, b)' \/ AsksWith(w, b)' => Grant!Job(w)'.token # Grant!Job(u)'.token
    <3>1. u # t /\ Stores(u, b) /\ Grant!Job(u)' = Grant!Job(u)
      BY <2>2, <2>3, <2>4
    <3>2. /\ Grant!Job(u).token \in accepts[b] \ retired[b] /\ file[<<b, "grant">>] # Grant!Job(u).token
          /\ \A w \in Callers \ {u} :
               Stores(w, b) \/ AsksWith(w, b) => Grant!Job(w).token # Grant!Job(u).token
      BY <2>1, <3>1 DEF StoredIsNew
    <3>3. Grant!Job(u).token # 0
      <4>1. accepts[b] \subseteq 1..MaxTokens /\ MaxTokens \in Nat
        BY <1>1 DEF GrantTypes, Grant!CredentialsAssumption
      <4>2. PICK n : n = Grant!Job(u).token
        OBVIOUS
      <4>3. n \in 1..MaxTokens
        BY <3>2, <4>1, <4>2
      <4>4. n # 0
        BY <4>1, <4>3, OneOrMore
      <4> QED BY <4>2, <4>4
    <3>4. file'[<<b, "grant">>] # Grant!Job(u).token
      BY <1>6, <3>1, <3>2, <3>3
    <3> QED BY <2>2, <2>3, <3>1, <3>2, <3>4
  <2>5. StoredIsNew'
    BY <2>4 DEF StoredIsNew
  <2>6. ASSUME NEW b \in Accounts
        PROVE  file'[<<b, "grant">>] = 0 \/ Grant!Good(b)' \/ \E u \in Callers : Stores(u, b)'
    <3>1. CASE file'[<<b, "grant">>] = file[<<b, "grant">>] /\ ~Stores(t, b)
      BY <2>1, <2>3, <3>1 DEF FileIsGood, Grant!Good
    <3>2. CASE file'[<<b, "grant">>] = Grant!Job(t).token /\ Stores(t, b)
      BY <2>1, <3>2 DEF StoredIsNew, Grant!Good
    <3> QED BY <1>6, <3>1, <3>2
  <2>7. FileIsGood'
    BY <2>6 DEF FileIsGood
  <2> QED BY <2>5, <2>7
<1> QED BY <1>3, <1>4, <1>5, <1>6 DEF GrantInv

\* What a call has left to do after its write, as a value.
LEMMA AfterIs ==
  ASSUME GrantTypes, NEW t \in Callers, NEW ok \in BOOLEAN, Grant!Job(t).step \in Grant!Writing,
         Grant!AfterWrite(t, ok) # "none"
  PROVE  /\ Grant!AfterWrite(t, ok) \in StepsOf[Grant!Job(t).kind]
         /\ Grant!AfterWrite(t, ok) \in {"provider", "broken", "caching"}
         /\ Grant!Job(t).kind \in {"refresh", "consent", "forget"}
<1>1. Grant!Job(t).kind # "none"
  BY KindIs DEF Grant!Writing
<1>2. /\ Grant!Job(t).kind \in {"refresh", "consent", "forget", "password"}
      /\ Grant!Job(t).step = "password" <=> Grant!Job(t).kind = "password"
  BY <1>1, Fitting, KindIs
<1>3. Grant!Job(t).kind \in {"refresh", "consent", "forget"}
  BY <1>2 DEF Grant!AfterWrite
<1> QED BY <1>3 DEF Grant!AfterWrite, Grant!Runs, StepsOf

LEMMA WritesGrants ==
  ASSUME Grant!CredentialsAssumption, GrantInv, NEW t \in Callers, Grant!WritesSecrets(t)
  PROVE  GrantInv'
<1>1. GrantTypes /\ Issued /\ Grant!JoinsOnlyTheLiving
  BY DEF GrantInv
<1> DEFINE same(read) == Grant!Runs(t, "forget") /\ read[Grant!Key(t)] = 0
           key == Grant!Key(t)
<1>2. PICK read \in task[t].read, ok \in BOOLEAN :
        /\ file' = IF ok /\ ~same(read) THEN [read EXCEPT ![key] = Grant!Value(t)] ELSE file
        /\ stored' = IF ok THEN [stored EXCEPT ![key] = Grant!Value(t)] ELSE stored
        /\ forgotten' = IF ok /\ Grant!Runs(t, "forget") /\ ~Grant!Connecting(Grant!Job(t).account)
                        THEN forgotten \cup {Grant!Job(t).account} ELSE forgotten
        /\ disturbed' = disturbed \cup (IF ok THEN {} ELSE {"not written"})
                                  \cup (IF ok /\ ~same(read) /\ read # file THEN {"overwritten"} ELSE {})
        /\ IF Grant!AfterWrite(t, ok) = "none" THEN Grant!Finishes(t)
           ELSE task' = [task EXCEPT ![t].job.step = Grant!AfterWrite(t, ok), ![t].read = {}]
        /\ UNCHANGED <<Grant!memory, Grant!provider, refused, acts>>
  BY DEF Grant!WritesSecrets
<1>3. UNCHANGED <<inFlight, cache, rejected, accepts, retired, issued, refused>>
  BY <1>2 DEF Grant!memory, Grant!provider
<1>4. Grant!Job(t).step \in Grant!Writing /\ Grant!Job(t).kind # "none"
  <2>1. Grant!Job(t).kind = "none" => task[t].read = {}
    <3>1. CallFits(task[t]) /\ Grant!Job(t) = task[t].job
      BY <1>1 DEF GrantTypes, Grant!Job
    <3>2. Grant!Job(t).kind = "none" => task[t] = [job |-> Grant!Idle, read |-> {}]
      BY <3>1, FitsIs
    <3>3. task[t] = [job |-> Grant!Idle, read |-> {}] => task[t].read = {}
      OBVIOUS
    <3> QED BY <3>2, <3>3
  <2>2. Grant!Job(t).kind # "none"
    BY <1>2, <2>1
  <2> QED BY <1>1, <1>2, <2>2, Fitting
<1>5. PICK a : a = Grant!Job(t).account
  OBVIOUS
<1>6. PICK s : s = Grant!Job(t).step
  OBVIOUS
<1>7. PICK v : v = Grant!Value(t)
  OBVIOUS
<1>8. key = <<a, s>> /\ a \in Accounts /\ s \in Grant!Writing /\ key \in Grant!Keys
      /\ read \in Filed
  <2>1. a \in Accounts /\ task[t].read \subseteq Filed
    BY <1>1, <1>4, <1>5, Fitting
  <2> QED BY <1>2, <1>4, <1>5, <1>6, <2>1 DEF Grant!Key, Grant!Keys, Grant!Writing
<1>9. /\ v \in 0..(MaxTokens + GrantActs)
      /\ s = "grant" => v \in 0..MaxTokens /\ v <= issued[a]
      /\ s = "grant" /\ Grant!Job(t).kind # "forget" => v = Grant!Job(t).token
      /\ s = "grant" /\ Grant!Job(t).kind = "forget" => v = 0
  <2>1. MaxTokens \in Nat /\ GrantActs \in Nat /\ 1 <= MaxTokens
    BY DEF Grant!CredentialsAssumption
  <2>2. CASE Grant!Job(t).kind = "forget"
    <3>1. v = 0
      BY <1>7, <2>2 DEF Grant!Value, Grant!Runs
    <3>2. issued[a] \in 1..MaxTokens
      BY <1>1, <1>8 DEF GrantTypes
    <3> QED BY <2>1, <2>2, <3>1, <3>2
  <2>3. CASE Grant!Job(t).kind # "forget" /\ s = "provider"
    BY <1>6, <1>7, <2>1, <2>3 DEF Grant!Value, Grant!Runs
  <2>4. CASE Grant!Job(t).kind # "forget" /\ s = "grant"
    <3>1. v = Grant!Job(t).token
      BY <1>6, <1>7, <2>4 DEF Grant!Value, Grant!Runs
    <3>2. Stores(t, a)
      BY <1>5, <1>6, <2>4 DEF Stores
    <3>3. v \in Nat /\ v <= issued[a]
      BY <1>1, <3>1, <3>2, TokensKnown
    <3>4. issued[a] \in 1..MaxTokens
      BY <1>1, <1>8 DEF GrantTypes
    <3> QED BY <2>1, <2>4, <3>1, <3>3, <3>4
  <2>5. CASE Grant!Job(t).kind # "forget" /\ s = "password"
    <3>1. v = Grant!Job(t).token
      BY <1>6, <1>7, <2>5 DEF Grant!Value, Grant!Runs
    <3>2. Grant!Job(t).kind = "password"
      BY <1>1, <1>6, <2>5, KindIs
    <3>3. v \in 0..(MaxTokens + GrantActs)
      BY <1>1, <3>1, <3>2, Fitting
    <3> QED BY <2>5, <3>3
  <2> QED BY <1>8, <2>2, <2>3, <2>4, <2>5 DEF Grant!Writing
<1>10. stored' \in Grant!Secrets
  <2>1. stored \in Grant!Secrets
    BY <1>1 DEF GrantTypes
  <2> HIDE DEF key
  <2>2. [stored EXCEPT ![key] = v] \in Grant!Secrets
    BY <1>8, <1>9, <2>1 DEF Grant!Secrets
  <2> QED BY <1>2, <1>7, <2>1, <2>2
<1> DEFINE put == [read EXCEPT ![key] = v]
<1>11. /\ put \in Filed /\ \A b \in Accounts : put[<<b, "grant">>] <= issued[b]
       /\ \A b \in Accounts : put[<<b, "grant">>] = IF b = a /\ s = "grant" THEN v ELSE read[<<b, "grant">>]
  <2>1. read \in Grant!Secrets /\ \A b \in Accounts : read[<<b, "grant">>] \in 0..MaxTokens
    BY <1>8 DEF Filed
  <2>2. put \in Grant!Secrets
    <3> HIDE DEF key
    <3> QED BY <1>8, <1>9, <2>1 DEF Grant!Secrets
  <2>3. \A b \in Accounts : <<b, "grant">> \in Grant!Keys
    BY DEF Grant!Keys
  <2>4. ASSUME NEW b \in Accounts
        PROVE  put[<<b, "grant">>] = IF b = a /\ s = "grant" THEN v ELSE read[<<b, "grant">>]
    <3>1. <<b, "grant">> \in DOMAIN read
      BY <2>1, <2>3 DEF Grant!Secrets
    <3>2. <<b, "grant">> = <<a, s>> <=> b = a /\ s = "grant"
      OBVIOUS
    <3> QED BY <1>8, <3>1, <3>2
  <2>5. \A b \in Accounts : read[<<b, "grant">>] <= issued[b]
    BY <1>1, <1>2 DEF Issued
  <2> HIDE DEF put
  <2>6. put \in Filed
    BY <1>9, <2>1, <2>2, <2>4 DEF Filed
  <2>7. \A b \in Accounts : put[<<b, "grant">>] <= issued[b]
    BY <1>9, <2>4, <2>5
  <2> QED BY <2>4, <2>6, <2>7
<1> HIDE DEF put
<1>12. file' = file \/ file' = put
  BY <1>2, <1>7 DEF put
<1>13. file' \in Filed /\ \A b \in Accounts : file'[<<b, "grant">>] <= issued[b]
  BY <1>1, <1>11, <1>12 DEF GrantTypes, Issued
<1>14. /\ forgotten' \subseteq Accounts /\ disturbed \subseteq disturbed'
       /\ disturbed' \subseteq {"not written", "overwritten", "raced", "lost", "withdrawn", "died"}
  BY <1>1, <1>2, <1>5, <1>8 DEF GrantTypes
<1>15. ASSUME disturbed' = {}, NEW b \in Accounts
       PROVE  \/ file'[<<b, "grant">>] = file[<<b, "grant">>] /\ ~Stores(t, b)
              \/ file'[<<b, "grant">>] = Grant!Job(t).token /\ Stores(t, b)
              \/ file'[<<b, "grant">>] = 0 /\ ~Stores(t, b)
  <2>1. ok /\ (same(read) \/ read = file)
    BY <1>2, <1>15
  <2>2. CASE same(read)
    <3>1. file' = file /\ ~Stores(t, b)
      BY <1>2, <2>2 DEF Stores, Grant!Runs
    <3> QED BY <3>1
  <2>3. CASE ~same(read)
    <3>1. read = file /\ file' = put
      BY <1>2, <1>7, <2>1, <2>3 DEF put
    <3>2. file'[<<b, "grant">>] = IF b = a /\ s = "grant" THEN v ELSE file[<<b, "grant">>]
      BY <1>11, <3>1
    <3>3. Stores(t, b) <=> b = a /\ s = "grant" /\ Grant!Job(t).kind # "forget"
      BY <1>5, <1>6 DEF Stores
    <3> QED BY <1>9, <3>2, <3>3
  <2> QED BY <2>2, <2>3
<1> DEFINE after == Grant!AfterWrite(t, ok)
<1>16. PICK c \in Jobs :
         /\ CallFits(c) /\ task' = [task EXCEPT ![t] = c] /\ c.read = {}
         /\ c.job.step \notin {"grant", "asking"}
         /\ \A b \in Accounts : inFlight[b] = t => c.job.kind = "refresh" /\ c.job.account = b
  <2>1. \A b \in Accounts : inFlight[b] = t => Grant!Job(t).kind = "refresh" /\ Grant!Job(t).account = b
    BY <1>1 DEF Grant!JoinsOnlyTheLiving, Grant!Runs, Grant!CredentialsAssumption
  <2>2. CASE after = "none"
    <3> DEFINE c == [job |-> Grant!Idle, read |-> {}]
    <3>1. c \in Jobs /\ CallFits(c) /\ c.job.step = "none" /\ c.read = {}
      BY <1>1, NewFits DEF Grant!Idle
    <3>2. task' = [task EXCEPT ![t] = c]
      BY <1>2, <2>2 DEF Grant!Finishes
    <3>3. Grant!Job(t).kind # "refresh"
      BY <1>1, <2>2, KindIs DEF Grant!AfterWrite, Grant!Runs
    <3> HIDE DEF c
    <3> QED BY <2>1, <3>1, <3>2, <3>3
  <2>3. CASE after # "none"
    <3> DEFINE n == Grant!Job(t).token
               c == Goes(t, n, after, {})
    <3>1. after \in StepsOf[Grant!Job(t).kind] /\ after \in {"provider", "broken", "caching"}
          /\ Grant!Job(t).kind \in {"refresh", "consent", "forget"}
      BY <1>1, <1>4, <2>3, AfterIs
    <3>2. n \in 0..(IF Grant!Job(t).kind = "password" THEN MaxTokens + GrantActs ELSE MaxTokens)
      BY <1>1, <1>4, Fitting
    <3>3. ToRead(t, after, {})
      BY <1>2, <2>3 DEF ToRead
    <3>4. {} \in SUBSET Filed
      OBVIOUS
    <3> HIDE DEF after
    <3>5. task' = [task EXCEPT ![t] = c]
      BY <1>1, <3>3, ToReadIs
    <3>6. /\ c \in Jobs /\ CallFits(c) /\ c.job.kind = Grant!Job(t).kind
          /\ c.job.account = Grant!Job(t).account /\ c.read = {} /\ c.job.step = after
      <4> HIDE DEF n
      <4>1. Grant!Job(t).kind # "none" /\ after \notin {"asking", "grant"}
        BY <1>4, <3>1
      <4> QED BY <1>1, <3>1, <3>2, <3>4, <4>1, GoesFits
    <3> HIDE DEF c
    <3> QED BY <2>1, <3>1, <3>5, <3>6
  <2> QED BY <2>2, <2>3
<1> QED BY <1>3, <1>10, <1>13, <1>14, <1>15, <1>16, WriteStep

\* A step outside the calls: what was good stays good.
LEMMA OutsideStep ==
  ASSUME GrantInv,
         UNCHANGED <<file, task, stored, retired, issued, refused, forgotten>>,
         inFlight' \in [Accounts -> Callers \cup {None}], \A a \in Accounts : inFlight'[a] \in {inFlight[a], None},
         cache' \subseteq Accounts, rejected' \subseteq Accounts,
         accepts' \in [Accounts -> SUBSET (1..MaxTokens)], \A a \in Accounts : accepts'[a] \subseteq accepts[a],
         disturbed \subseteq disturbed',
         disturbed' \subseteq {"not written", "overwritten", "raced", "lost", "withdrawn", "died"},
         disturbed' = {} => \A a \in Accounts : accepts[a] \ retired[a] \subseteq accepts'[a]
  PROVE  GrantInv'
<1>1. GrantTypes /\ Issued /\ Grant!JoinsOnlyTheLiving
  BY DEF GrantInv
<1>2. \A u \in Callers : Grant!Job(u)' = Grant!Job(u)
  BY DEF Grant!Job
<1>3. GrantTypes'
  BY <1>1 DEF GrantTypes
<1>4. Issued'
  BY <1>1, <1>2 DEF Issued
<1>5. Grant!JoinsOnlyTheLiving'
  <2> SUFFICES ASSUME NEW a \in Accounts, inFlight'[a] # None
               PROVE  task'[inFlight'[a]].job.kind = "refresh" /\ task'[inFlight'[a]].job.account = a
    BY DEF Grant!JoinsOnlyTheLiving, Grant!Runs, Grant!Job
  <2>1. inFlight'[a] = inFlight[a] /\ task' = task
    OBVIOUS
  <2> QED BY <1>1, <2>1 DEF Grant!JoinsOnlyTheLiving, Grant!Runs, Grant!Job
<1>6. ASSUME disturbed' = {} PROVE StoredIsNew' /\ FileIsGood'
  <2>1. StoredIsNew /\ FileIsGood
    BY <1>6 DEF GrantInv
  <2>2. \A u \in Callers, a \in Accounts : (Stores(u, a)' <=> Stores(u, a)) /\ (AsksWith(u, a)' <=> AsksWith(u, a))
    BY <1>2 DEF Stores, AsksWith
  <2>3. \A a \in Accounts : accepts'[a] \ retired'[a] = accepts[a] \ retired[a]
    BY <1>6
  <2>4. \A a \in Accounts : Grant!Good(a)' <=> Grant!Good(a)
    BY <2>3 DEF Grant!Good
  <2>5. ASSUME NEW a \in Accounts, NEW t \in Callers, Stores(t, a)'
        PROVE  /\ Grant!Job(t)'.token \in accepts'[a] \ retired'[a] /\ file'[<<a, "grant">>] # Grant!Job(t)'.token
               /\ \A u \in Callers \ {t} :
                    Stores(u, a)' \/ AsksWith(u, a)' => Grant!Job(u)'.token # Grant!Job(t)'.token
    <3>1. Stores(t, a)
      BY <2>2, <2>5
    <3>2. /\ Grant!Job(t).token \in accepts[a] \ retired[a] /\ file[<<a, "grant">>] # Grant!Job(t).token
          /\ \A u \in Callers \ {t} :
               Stores(u, a) \/ AsksWith(u, a) => Grant!Job(u).token # Grant!Job(t).token
      BY <2>1, <3>1 DEF StoredIsNew
    <3>3. Grant!Job(t).token \in accepts'[a] \ retired'[a]
      BY <2>3, <3>2
    <3> QED BY <1>2, <2>2, <3>2, <3>3
  <2>6. FileIsGood'
    BY <2>1, <2>2, <2>4 DEF FileIsGood
  <2>7. StoredIsNew'
    BY <2>5 DEF StoredIsNew
  <2> QED BY <2>6, <2>7
<1> QED BY <1>3, <1>4, <1>5, <1>6 DEF GrantInv

LEMMA OutsideGrants ==
  ASSUME Grant!CredentialsAssumption, GrantInv, NEW a \in Accounts,
         Grant!Expires(a) \/ Grant!ServerRefuses(a) \/ Grant!Lapses(a) \/ Grant!Withdraws(a)
  PROVE  GrantInv'
<1>1. /\ inFlight \in [Accounts -> Callers \cup {None}] /\ cache \subseteq Accounts /\ rejected \subseteq Accounts
      /\ accepts \in [Accounts -> SUBSET (1..MaxTokens)]
      /\ disturbed \subseteq {"not written", "overwritten", "raced", "lost", "withdrawn", "died"}
  BY DEF GrantInv, GrantTypes
<1>2. CASE Grant!Expires(a)
  <2>1. UNCHANGED <<file, task, stored, retired, issued, refused, forgotten, accepts, inFlight, rejected, disturbed>>
        /\ cache' \subseteq cache
    BY <1>2 DEF Grant!Expires, Grant!provider, Grant!ghosts
  <2> QED BY <1>1, <2>1, OutsideStep
<1>3. CASE Grant!ServerRefuses(a)
  <2>1. UNCHANGED <<file, task, stored, retired, issued, refused, forgotten, accepts, rejected>>
        /\ cache' \subseteq cache /\ inFlight' = [inFlight EXCEPT ![a] = None]
        /\ disturbed' \in {disturbed, disturbed \cup {"raced"}}
    BY <1>3 DEF Grant!ServerRefuses, Grant!provider, Grant!Disturbed
  <2>2. inFlight' \in [Accounts -> Callers \cup {None}]
        /\ \A b \in Accounts : inFlight'[b] \in {inFlight[b], None}
    BY <1>1, <2>1
  <2>3. cache' \subseteq Accounts /\ rejected' \subseteq Accounts
    BY <1>1, <2>1
  <2>4. accepts' \in [Accounts -> SUBSET (1..MaxTokens)] /\ \A b \in Accounts : accepts'[b] = accepts[b]
    BY <1>1, <2>1
  <2>5. disturbed \subseteq disturbed'
        /\ disturbed' \subseteq {"not written", "overwritten", "raced", "lost", "withdrawn", "died"}
    BY <1>1, <2>1
  <2> QED BY <2>1, <2>2, <2>3, <2>4, <2>5, OutsideStep
<1>4. CASE Grant!Lapses(a)
  <2>1. UNCHANGED <<file, task, stored, retired, issued, refused, forgotten, inFlight, cache, rejected, disturbed>>
        /\ accepts' = [accepts EXCEPT ![a] = accepts[a] \ retired[a]]
    BY <1>4 DEF Grant!Lapses, Grant!memory, Grant!ghosts
  <2>2. /\ accepts' \in [Accounts -> SUBSET (1..MaxTokens)]
        /\ \A b \in Accounts : accepts'[b] \subseteq accepts[b] /\ accepts[b] \ retired[b] \subseteq accepts'[b]
    BY <1>1, <2>1
  <2> QED BY <1>1, <2>1, <2>2, OutsideStep
<1>5. CASE Grant!Withdraws(a)
  <2>1. UNCHANGED <<file, task, stored, retired, issued, refused, forgotten, inFlight, cache, rejected>>
        /\ accepts' = [accepts EXCEPT ![a] = {}] /\ disturbed' = disturbed \cup {"withdrawn"}
    BY <1>5 DEF Grant!Withdraws, Grant!memory, Grant!Disturbed
  <2>2. /\ accepts' \in [Accounts -> SUBSET (1..MaxTokens)]
        /\ \A b \in Accounts : accepts'[b] \subseteq accepts[b]
    BY <1>1, <2>1
  <2>3. disturbed \subseteq disturbed' /\ disturbed' # {}
        /\ disturbed' \subseteq {"not written", "overwritten", "raced", "lost", "withdrawn", "died"}
    BY <1>1, <2>1
  <2> QED BY <1>1, <2>1, <2>2, <2>3, OutsideStep
<1> QED BY <1>2, <1>3, <1>4, <1>5

LEMMA DiesGrants ==
  ASSUME Grant!CredentialsAssumption, GrantInv, Grant!Dies
  PROVE  GrantInv'
<1>1. GrantTypes /\ Issued
  BY DEF GrantInv
<1>2. task' = [t \in Callers |-> [job |-> Grant!Idle, read |-> {}]] /\ inFlight' = [a \in Accounts |-> None]
      /\ cache' = {} /\ rejected' = {} /\ UNCHANGED <<file, accepts, retired, issued, stored, refused, forgotten>>
      /\ disturbed' = IF \E t \in Callers : Grant!Job(t) # Grant!Idle THEN disturbed \cup {"died"} ELSE disturbed
  BY DEF Grant!Dies, Grant!provider
<1>3. /\ task' \in [Callers -> Jobs]
      /\ \A t \in Callers : /\ CallFits(task'[t]) /\ Grant!Job(t)' = Grant!Idle /\ task'[t].read = {}
  <2>1. [job |-> Grant!Idle, read |-> {}] \in Jobs /\ CallFits([job |-> Grant!Idle, read |-> {}])
    BY DEF Jobs, CallFits, Grant!Task, Grant!Idle, Grant!Kinds
  <2> QED BY <1>2, <2>1 DEF Grant!Job
<1>4. GrantTypes'
  BY <1>1, <1>2, <1>3 DEF GrantTypes
<1>5. Issued'
  BY <1>1, <1>2, <1>3 DEF Issued, Grant!Idle
<1>6. Grant!JoinsOnlyTheLiving'
  BY <1>2 DEF Grant!JoinsOnlyTheLiving
<1>7. ASSUME disturbed' = {} PROVE StoredIsNew' /\ FileIsGood'
  <2>1. StoredIsNew /\ FileIsGood /\ \A t \in Callers : Grant!Job(t) = Grant!Idle
    BY <1>2, <1>7 DEF GrantInv
  <2>2. \A t \in Callers, a \in Accounts : ~Stores(t, a) /\ ~Stores(t, a)'
    BY <1>3, <2>1 DEF Stores, Grant!Idle
  <2> QED BY <1>2, <2>1, <2>2 DEF StoredIsNew, FileIsGood, Grant!Good
<1> QED BY <1>4, <1>5, <1>6, <1>7 DEF GrantInv

LEMMA StepGrants ==
  ASSUME Grant!CredentialsAssumption, GrantInv, acts \in 0..GrantActs, [Grant!Next]_(Grant!vars)
  PROVE  GrantInv'
<1>1. CASE UNCHANGED Grant!vars
  <2>1. UNCHANGED <<file, task, stored, retired, issued, refused, forgotten, inFlight, cache, rejected, accepts,
                    disturbed>>
    BY <1>1 DEF Grant!vars, Grant!memory, Grant!provider, Grant!ghosts
  <2>2. /\ inFlight \in [Accounts -> Callers \cup {None}] /\ cache \subseteq Accounts /\ rejected \subseteq Accounts
        /\ accepts \in [Accounts -> SUBSET (1..MaxTokens)]
        /\ disturbed \subseteq {"not written", "overwritten", "raced", "lost", "withdrawn", "died"}
    BY DEF GrantInv, GrantTypes
  <2> QED BY <2>1, <2>2, OutsideStep
<1>2. ASSUME NEW t \in Callers, Grant!TaskStep(t) PROVE GrantInv'
  BY <1>2, ReadsGrants, WritesGrants, FindsGrants, EndingGrants, AnswersGrants, SignedInGrants DEF Grant!TaskStep
<1>3. ASSUME NEW t \in Callers, NEW a \in Accounts,
             Grant!Asks(t, a) \/ Grant!SetsPassword(t, a) \/ Grant!Consents(t, a) \/ Grant!Forgets(t, a)
      PROVE  GrantInv'
  BY <1>3, AsksGrants
<1>4. ASSUME NEW a \in Accounts,
             Grant!Expires(a) \/ Grant!ServerRefuses(a) \/ Grant!Lapses(a) \/ Grant!Withdraws(a)
      PROVE  GrantInv'
  BY <1>4, OutsideGrants
<1>5. CASE Grant!Dies
  BY <1>5, DiesGrants
<1> QED BY <1>1, <1>2, <1>3, <1>4, <1>5 DEF Grant!Next

LEMMA GrantCounts ==
  ASSUME Grant!CredentialsAssumption
  PROVE  /\ Grant!Init => acts \in 0..GrantActs /\ faults \in 0..GrantFaults
         /\ [Grant!Next]_(Grant!vars) /\ acts \in 0..GrantActs /\ faults \in 0..GrantFaults
              => acts' \in 0..GrantActs /\ faults' \in 0..GrantFaults
<1>1. GrantActs \in Nat /\ GrantFaults \in Nat
  BY DEF Grant!CredentialsAssumption
<1>2. Grant!Init => acts \in 0..GrantActs /\ faults \in 0..GrantFaults
  BY <1>1 DEF Grant!Init
<1>3. [Grant!Next]_(Grant!vars) => (Grant!Acts \/ acts' = acts) /\ (Grant!Faults \/ faults' = faults)
  <2> DEFINE counted == (Grant!Acts \/ acts' = acts) /\ (Grant!Faults \/ faults' = faults)
  <2>1. UNCHANGED Grant!vars => counted
    BY DEF Grant!vars
  <2>2. ASSUME NEW t \in Callers, Grant!TaskStep(t) PROVE counted
    <3>1. Grant!ReadsSecrets(t) \/ Grant!FindsGrant(t) \/ Grant!Refused(t) \/ Grant!Fails(t) \/ Grant!Caches(t)
          \/ Grant!SignedIn(t) => counted
      BY DEF Grant!ReadsSecrets, Grant!FindsGrant, Grant!Refused, Grant!Fails, Grant!Caches, Grant!SignedIn
    <3>2. Grant!WritesSecrets(t) => counted
      BY DEF Grant!WritesSecrets
    <3>3. Grant!Answers(t) => counted
      BY DEF Grant!Answers
    <3> QED BY <2>2, <3>1, <3>2, <3>3 DEF Grant!TaskStep
  <2>3. ASSUME NEW t \in Callers, NEW a \in Accounts,
               Grant!Asks(t, a) \/ Grant!SetsPassword(t, a) \/ Grant!Consents(t, a) \/ Grant!Forgets(t, a)
        PROVE  counted
    BY <2>3 DEF Grant!Asks, Grant!SetsPassword, Grant!Consents, Grant!Forgets
  <2>4. ASSUME NEW a \in Accounts,
               Grant!Expires(a) \/ Grant!ServerRefuses(a) \/ Grant!Lapses(a) \/ Grant!Withdraws(a)
        PROVE  counted
    BY <2>4 DEF Grant!Expires, Grant!ServerRefuses, Grant!Lapses, Grant!Withdraws
  <2>5. Grant!Dies => counted
    BY DEF Grant!Dies
  <2> HIDE DEF counted
  <2>6. Grant!Next => counted
    BY <2>2, <2>3, <2>4, <2>5 DEF Grant!Next
  <2>7. [Grant!Next]_(Grant!vars) => counted
    BY <2>1, <2>6
  <2> QED BY <2>7 DEF counted
<1>4. (Grant!Acts \/ acts' = acts) /\ acts \in 0..GrantActs => acts' \in 0..GrantActs
  BY <1>1 DEF Grant!Acts
<1>5. (Grant!Faults \/ faults' = faults) /\ faults \in 0..GrantFaults => faults' \in 0..GrantFaults
  BY <1>1 DEF Grant!Faults
<1> QED BY <1>2, <1>3, <1>4, <1>5

\* What the invariant says of the grants.
LEMMA GrantIsSafe ==
  ASSUME Grant!CredentialsAssumption, GrantInv, acts \in 0..GrantActs, faults \in 0..GrantFaults
  PROVE  Grant!TypeOK /\ Grant!GrantSurvives /\ Grant!JoinsOnlyTheLiving
<1>1. GrantTypes /\ Grant!JoinsOnlyTheLiving /\ (disturbed = {} => FileIsGood)
  BY DEF GrantInv
<1>2. Grant!GrantSurvives
  BY <1>1 DEF Grant!GrantSurvives, FileIsGood, Stores
<1>3. \A t \in Callers : /\ Grant!Job(t) \in Grant!Task /\ task[t].read \subseteq Grant!Secrets
                         /\ Grant!Job(t).step \in {"asking", "grant"} /\ ~Grant!Runs(t, "forget")
                              => Grant!Job(t).token # 0
  <2> SUFFICES ASSUME NEW t \in Callers
               PROVE  /\ Grant!Job(t) \in Grant!Task /\ task[t].read \subseteq Grant!Secrets
                      /\ Grant!Job(t).step \in {"asking", "grant"} /\ ~Grant!Runs(t, "forget")
                           => Grant!Job(t).token # 0
    OBVIOUS
  <2>1. Grant!Job(t) \in Grant!Task /\ task[t].read \subseteq Grant!Secrets
    BY <1>1 DEF GrantTypes, Jobs, Filed, Grant!Job
  <2>2. Grant!Job(t).step \in {"asking", "grant"} => Grant!Job(t).kind # "none"
    BY <1>1, KindIs
  <2> QED BY <1>1, <2>1, <2>2, Fitting DEF Grant!Runs
<1>4. Grant!TypeOK
  BY <1>1, <1>3 DEF Grant!TypeOK, GrantTypes, Filed
<1> QED BY <1>1, <1>2, <1>4

-----------------------------------------------------------------------------

LEMMA GrantsAreSafe ==
  ASSUME Grant!CredentialsAssumption
  PROVE  Grant!Spec => [](GrantInv /\ acts \in 0..GrantActs /\ faults \in 0..GrantFaults)
<1>1. Grant!Init => GrantInv /\ acts \in 0..GrantActs /\ faults \in 0..GrantFaults
  BY InitGrants, GrantCounts
<1>2. /\ GrantInv /\ acts \in 0..GrantActs /\ faults \in 0..GrantFaults /\ [Grant!Next]_(Grant!vars)
      => (GrantInv /\ acts \in 0..GrantActs /\ faults \in 0..GrantFaults)'
  BY StepGrants, GrantCounts
<1> QED BY <1>1, <1>2, PTL DEF Grant!Spec

\* A provider that rotates its refresh tokens never leaves the file with one that lapses, and one
\* that does not never erases it, for any number of accounts, calls and tokens (persistTokens).
THEOREM GrantSurvivesHolds ==
  ASSUME Grant!CredentialsAssumption PROVE Grant!Spec => []Grant!GrantSurvives
<1>1. GrantInv /\ acts \in 0..GrantActs /\ faults \in 0..GrantFaults => Grant!GrantSurvives
  BY GrantIsSafe
<1> QED BY <1>1, GrantsAreSafe, PTL

\* Nobody joins a refresh that has ended (oauth.ts, inFlight).
THEOREM JoinsOnlyTheLivingHolds ==
  ASSUME Grant!CredentialsAssumption PROVE Grant!Spec => []Grant!JoinsOnlyTheLiving
<1>1. GrantInv /\ acts \in 0..GrantActs /\ faults \in 0..GrantFaults => Grant!JoinsOnlyTheLiving
  BY GrantIsSafe
<1> QED BY <1>1, GrantsAreSafe, PTL
=============================================================================
