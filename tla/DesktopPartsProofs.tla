-------------------------- MODULE DesktopPartsProofs --------------------------
(***************************************************************************)
(* Proofs about parts of the desktop program, for every value of their     *)
(* constants.                                                              *)
(*                                                                         *)
(* The state store: types, the invariant StoreInv, that the store keeps    *)
(* what DurableState promises, and that a quit keeps what it was handed.   *)
(*                                                                         *)
(* The control API: what is dropped in the folder is carried out once, its *)
(* result tells the truth, the main process goes by the switches of the    *)
(* window, and who has an answer is in the audit log.  The script, the folder, the main        *)
(* process and the window each remember a part of a request, a process     *)
(* that ends forgets two of them, and the invariant says, per request,     *)
(* which of their states may meet; of the log, that whose turn it is has   *)
(* read the whole of it.                                                   *)
(*                                                                         *)
(* The undo stack: undoing leads back to the states there were.  Each      *)
(* entry leads from the state that was before the next one back to its     *)
(* own; a change that is not pushed makes the stack unsure, and so does a  *)
(* save that lands when its own entry is not the newest any more.  No job  *)
(* counts a run that its list still has to come to, whichever list it had. *)
(*                                                                         *)
(* DesktopProofs puts the last two into MCDesktop.                         *)
(***************************************************************************)
EXTENDS StateStore, SequenceTheorems, WellFoundedInduction, TLAPS

-----------------------------------------------------------------------------
(* The state store: types *)

LEMMA TypeInit == Init => TypeOK
<1> SUFFICES ASSUME Init PROVE TypeOK
  OBVIOUS
<1>1. NoWrite \in Write /\ <<>> \in Seq(Call)
  BY DEF NoWrite, Write
<1>2. {queued, writing} \subseteq Write /\ requests \in Seq(Call)
  BY <1>1 DEF Init
<1>3. {live, lastSaved, token, disk, handed, hides, faults} \subseteq Nat
  BY DEF Init
<1>4. rounds \in 0..MaxRounds
  BY StoreAssumption DEF Init
<1> QED BY <1>2, <1>3, <1>4 DEF Init, TypeOK

\* What the pieces shared by several actions do to the types.
LEMMA SaveLiveType ==
  ASSUME TypeOK, NEW kind \in {"save", "flush"}, SaveLive(kind)
  PROVE  token' \in Nat /\ requests' \in Seq(Call)
BY DEF TypeOK, SaveLive, Call

LEMMA FlushType ==
  ASSUME TypeOK, Flush PROVE token' \in Nat /\ requests' \in Seq(Call)
BY SaveLiveType DEF Flush, TypeOK

LEMMA QuitType ==
  ASSUME TypeOK, BeforeQuit
  PROVE  rounds' \in 0..MaxRounds /\ phase' \in {"flushing", "closing"}
BY StoreAssumption DEF TypeOK, BeforeQuit

LEMMA HeadType ==
  ASSUME TypeOK, requests # <<>>
  PROVE  Head(requests) \in Call /\ Tail(requests) \in Seq(Call)
BY DEF TypeOK

LEMMA EnqueueType ==
  ASSUME TypeOK, NEW c \in Call, EnqueueStateWrite(c)
  PROVE  {queued', writing'} \subseteq Write /\ loop' \in BOOLEAN
<1>1. queued \in Write /\ writing \in Write /\ loop \in BOOLEAN
  BY DEF TypeOK
<1>2. /\ [version |-> c.version, waiters |-> {c}] \in Write
      /\ [version |-> c.version, waiters |-> queued.waiters \cup {c}] \in Write
  BY <1>1 DEF Write, Call
<1> QED BY <1>1, <1>2 DEF EnqueueStateWrite

LEMMA TypeStep == TypeOK /\ [Next]_vars => TypeOK'
<1> SUFFICES ASSUME TypeOK, [Next]_vars PROVE TypeOK'
  OBVIOUS
<1> USE DEF rendererVars, queueVars, quitVars, boundVars
<1>1. CASE Edit
  BY <1>1 DEF Edit, TypeOK
<1>2. CASE DebounceFires
  <2>1. token' \in Nat /\ requests' \in Seq(Call)
    BY <1>2, SaveLiveType DEF DebounceFires
  <2> QED BY <1>2, <2>1 DEF DebounceFires, TypeOK
<1>3. CASE HideWindow
  <2>1. token' \in Nat /\ requests' \in Seq(Call)
    BY <1>3, FlushType DEF HideWindow
  <2> QED BY <1>3, <2>1 DEF HideWindow, TypeOK
<1>4. ASSUME NEW c \in retries, Retry(c) PROVE TypeOK'
  <2>1. c \in Call /\ [c EXCEPT !.kind = "retry"] \in Call
    BY DEF TypeOK, Call
  <2>2. requests' \in Seq(Call)
    BY <1>4, <2>1 DEF Retry, TypeOK
  <2>3. retries' \subseteq Call
    BY <1>4 DEF Retry, TypeOK
  <2> QED BY <1>4, <2>2, <2>3 DEF Retry, TypeOK
<1>5. ASSUME NEW a \in answers, Hear(a) PROVE TypeOK'
  <2>1. a.call \in Call /\ a.call.version \in Nat /\ a.ok \in BOOLEAN
    BY DEF TypeOK, Answer, Call
  <2>2. retries' \subseteq Call /\ answers' \subseteq Answer
    BY <1>5, <2>1 DEF Hear, TypeOK
  <2>3. lastSaved' \in Nat
    BY <1>5, <2>1 DEF Hear, TypeOK
  <2>4. failing' \in BOOLEAN
    BY <1>5 DEF Hear, TypeOK
  <2> QED BY <1>5, <2>2, <2>3, <2>4 DEF Hear, TypeOK
<1>6. CASE SaveState
  <2>1. Head(requests) \in Call /\ Head(requests).version \in Nat
    BY <1>6, HeadType DEF SaveState, Call
  <2>2. {queued', writing'} \subseteq Write /\ loop' \in BOOLEAN
    BY <1>6, <2>1, EnqueueType DEF SaveState
  <2>3. requests' \in Seq(Call) /\ handed' \in Nat
    BY <1>6, <2>1, HeadType DEF SaveState, TypeOK
  <2> QED BY <1>6, <2>2, <2>3 DEF SaveState, TypeOK
<1>7. CASE WriteEnds
  <2>1. {queued', writing'} \subseteq Write /\ loop' \in BOOLEAN
    BY <1>7 DEF WriteEnds, NextWrite, TypeOK, NoWrite, Write
  <2>2. answers' \subseteq Answer
    BY <1>7 DEF WriteEnds, TypeOK, Answer, Write
  <2>3. disk' \in Nat /\ faults' \in Nat
    BY <1>7 DEF WriteEnds, TypeOK, Write
  <2> QED BY <1>7, <2>1, <2>2, <2>3 DEF WriteEnds, TypeOK
<1>8. CASE Quit
  BY <1>8, QuitType DEF Quit, TypeOK
<1>9. CASE FlushDone
  BY <1>9, QuitType DEF FlushDone, TypeOK
<1>10. CASE PageHide
  <2>1. token' \in Nat /\ requests' \in Seq(Call)
    BY <1>10, FlushType DEF PageHide
  <2> QED BY <1>10, <2>1 DEF PageHide, TypeOK
<1>11. CASE Exit
  BY <1>11 DEF Exit, TypeOK
<1>12. CASE Kill
  BY <1>12 DEF Kill, TypeOK
<1>13. CASE UNCHANGED vars
  BY <1>13 DEF vars, TypeOK
<1> QED
  BY <1>1, <1>2, <1>3, <1>4, <1>5, <1>6, <1>7, <1>8, <1>9, <1>10, <1>11, <1>12, <1>13
  DEF Next

\* Every variable keeps its shape: what is queued, answered and retried are
\* calls, whatever is coalesced.
THEOREM TypeCorrect == Spec => []TypeOK
BY TypeInit, TypeStep, PTL DEF Spec

-----------------------------------------------------------------------------
(* The queue. *)

SafeInv == TypeOK /\ StoreInv

LEMMA InvInit == Init => StoreInv
<1> SUFFICES ASSUME Init PROVE StoreInv
  OBVIOUS
<1>1. /\ Len(requests) = 0 /\ requests = <<>> /\ Slots = {0}
      /\ Pending = {}
  BY DEF Init, Slots, Pending, Waiting, Settled, NoWrite
<1>2. InOrder
  BY <1>1 DEF Init, InOrder, NoWrite
<1>3. InTime
  BY <1>1 DEF Init, InTime, NoWrite
<1>4. HandedOver
  BY DEF Init, HandedOver
<1> QED BY <1>2, <1>3, <1>4 DEF StoreInv

LEMMA PendingType ==
  ASSUME TypeOK, NEW c \in Pending
  PROVE  c \in Call /\ c.version \in Nat /\ c.attempt \in Nat
<1>1. \A i \in 1..Len(requests) : requests[i] \in Call
  BY DEF TypeOK
<1>2. c \in Call
  BY <1>1 DEF TypeOK, Pending, Waiting, Settled, Write, Answer
<1> QED BY <1>2 DEF Call

\* A call that is at least as new as everything under way may be sent.
LEMMA AppendInv ==
  ASSUME SafeInv, NEW c \in Call, NotNewer(c), c.version <= live, c.attempt = token',
         token' \in Nat, requests' = Append(requests, c),
         \/ token' = token + 1
         \/ /\ token' = token
            /\ \A d \in Pending : d.attempt = c.attempt => d.version = c.version,
         retries' \subseteq retries,
         UNCHANGED <<live, lastSaved, queueVars, answers>>
  PROVE  InOrder' /\ InTime'
<1> DEFINE n == Len(requests)
<1>1. /\ n \in Nat /\ Len(requests') = n + 1 /\ requests'[n + 1] = c
      /\ \A i \in 1..n : requests'[i] = requests[i] /\ requests[i] \in Call
  BY DEF SafeInv, TypeOK
<1>2. UNCHANGED <<queued, writing, loop, disk>> /\ Slots' = Slots
  BY DEF queueVars, Slots
<1>3. InOrder'
  <2>1. Slots \subseteq Nat /\ c.version \in Nat /\ \A i \in 1..n : requests[i].version \in Nat
    BY <1>1 DEF SafeInv, TypeOK, Slots, Write, Call
  <2>2. ASSUME NEW i \in 1..(n + 1)
        PROVE  /\ requests'[i].version <= live
               /\ \A d \in Slots : d <= requests'[i].version
               /\ \A k \in 1..i : requests'[k].version <= requests'[i].version
    <3>1. CASE i \in 1..n
      BY <1>1, <3>1 DEF SafeInv, StoreInv, InOrder
    <3>2. CASE i = n + 1
      <4>1. requests'[i] = c
        BY <1>1, <3>2
      <4>2. \A k \in 1..i : requests'[k] = c \/ (k \in 1..n /\ requests'[k] = requests[k])
        BY <1>1, <3>2
      <4> QED BY <2>1, <4>1, <4>2 DEF NotNewer
    <3> QED BY <1>1, <3>1, <3>2
  <2> QED BY <1>1, <1>2, <2>2 DEF SafeInv, StoreInv, InOrder
<1>4. Pending' \subseteq Pending \cup {c}
  <2>1. Waiting' = Waiting /\ Settled' = Settled
    BY <1>2 DEF Waiting, Settled
  <2>2. \A i \in 1..(n + 1) : requests'[i] = c \/ (i \in 1..n /\ requests'[i] = requests[i])
    BY <1>1
  <2> QED BY <1>1, <2>1, <2>2 DEF Pending
<1>5. \A d \in Pending : d.attempt \in Nat /\ d.version \in Nat
  BY PendingType DEF SafeInv
<1>6. InTime'
  <2>1. ASSUME NEW d \in Pending', d.attempt = token' PROVE NotNewer(d)'
    <3>1. CASE d = c
      <4>1. \A i \in 1..(n + 1) : requests'[i] = c \/ (i \in 1..n /\ requests'[i] = requests[i])
        BY <1>1
      <4> QED BY <1>1, <1>2, <3>1, <4>1 DEF NotNewer, Call
    <3>2. CASE d \in Pending
      <4>1. token' = token /\ d.version = c.version
        <5>1. d.attempt <= token
          BY <3>2 DEF SafeInv, StoreInv, InTime
        <5> QED BY <1>5, <2>1, <3>2, <5>1 DEF SafeInv, TypeOK
      <4>2. \A i \in 1..(n + 1) : requests'[i] = c \/ (i \in 1..n /\ requests'[i] = requests[i])
        BY <1>1
      <4> QED BY <1>1, <1>2, <4>1, <4>2 DEF NotNewer, Call
    <3> QED BY <1>4, <3>1, <3>2
  <2>2. \A d \in Pending' : d.version <= live' /\ d.attempt <= token'
    <3>1. token \in Nat /\ token <= token' /\ live' = live
      BY DEF SafeInv, TypeOK
    <3>2. \A d \in Pending : d.version <= live /\ d.attempt <= token
      BY DEF SafeInv, StoreInv, InTime
    <3>3. \A d \in Pending : d.version <= live' /\ d.attempt <= token'
      BY <1>5, <3>1, <3>2
    <3> QED BY <1>4, <3>1, <3>3
  <2>3. \A d, e \in Pending' : d.attempt = e.attempt => d.version = e.version
    <3>1. \A d, e \in Pending : d.attempt = e.attempt => d.version = e.version
      BY DEF SafeInv, StoreInv, InTime
    <3>2. \A d \in Pending : d.attempt <= token
      BY DEF SafeInv, StoreInv, InTime
    <3>3. \A d \in Pending : d.attempt = c.attempt => d.version = c.version
      <4>1. token \in Nat
        BY DEF SafeInv, TypeOK
      <4> QED BY <1>5, <3>2, <4>1
    <3> QED BY <1>4, <3>1, <3>3
  <2>4. /\ \A d \in queued'.waiters : d.version <= queued'.version
        /\ \A d \in writing'.waiters : d.version <= writing'.version
        /\ \A a \in answers' : a.ok => a.call.version <= disk'
    BY <1>2 DEF SafeInv, StoreInv, InTime
  <2> QED BY <2>1, <2>2, <2>3, <2>4 DEF InTime
<1> QED BY <1>3, <1>6

LEMMA SaveLiveInv ==
  ASSUME SafeInv, NEW kind \in {"save", "flush"}, SaveLive(kind),
         UNCHANGED <<live, lastSaved, queueVars, answers, retries>>
  PROVE  InOrder' /\ InTime'
<1> DEFINE c == [kind |-> kind, version |-> live, attempt |-> token + 1]
<1>1. c \in Call /\ c.version = live /\ c.attempt = token'
  BY DEF SafeInv, TypeOK, Call, SaveLive
<1>2. NotNewer(c)
  BY DEF SafeInv, StoreInv, InOrder, NotNewer
<1>3. token' = token + 1 /\ token' \in Nat /\ requests' = Append(requests, c)
  BY DEF SafeInv, TypeOK, SaveLive
<1>4. live <= live /\ token' <= token'
  BY <1>3 DEF SafeInv, TypeOK
<1> QED BY <1>1, <1>2, <1>3, <1>4, AppendInv

\* Nothing but the renderer's own bookkeeping changes.
LEMMA StillInv ==
  ASSUME SafeInv, live' \in Nat, live <= live', lastSaved' \in Nat, lastSaved' <= disk,
         retries' \subseteq retries \cup Settled, answers' \subseteq answers,
         UNCHANGED <<token, requests, queueVars>>
  PROVE  InOrder' /\ InTime'
<1>1. UNCHANGED <<queued, writing, loop, disk>> /\ Slots' = Slots
  BY DEF queueVars, Slots
<1>2. Pending' \subseteq Pending
  BY <1>1 DEF Pending, Waiting, Settled
<1>3. Slots \subseteq Nat /\ \A i \in 1..Len(requests) : requests[i].version \in Nat
  <2>1. \A i \in 1..Len(requests) : requests[i] \in Call
    BY DEF SafeInv, TypeOK
  <2> QED BY <2>1 DEF SafeInv, TypeOK, Slots, Write, Call
<1>4. InOrder'
  <2>1. live \in Nat /\ InOrder
    BY DEF SafeInv, StoreInv, TypeOK
  <2>2. \A i \in 1..Len(requests) : requests[i].version <= live'
    BY <1>3, <2>1 DEF InOrder
  <2>3. ASSUME NEW d \in Slots PROVE d <= live'
    <3>1. d <= live /\ d \in Nat
      BY <1>3, <2>1 DEF InOrder
    <3> QED BY <2>1, <3>1
  <2> QED BY <1>1, <2>1, <2>2, <2>3 DEF InOrder
<1>5. \A c : NotNewer(c)' <=> NotNewer(c)
  BY <1>1 DEF NotNewer
<1>6. ASSUME NEW c \in Pending PROVE c.version <= live'
  <2>1. c.version \in Nat /\ c.version <= live
    BY PendingType DEF SafeInv, StoreInv, InTime
  <2> QED BY <2>1 DEF SafeInv, TypeOK
<1>7. InTime'
  BY <1>1, <1>2, <1>5, <1>6 DEF SafeInv, StoreInv, InTime
<1> QED BY <1>4, <1>7

LEMMA EditInv == SafeInv /\ Edit => InOrder' /\ InTime'
BY StillInv DEF Edit, SafeInv, StoreInv, InOrder, TypeOK

LEMMA FlushInv ==
  ASSUME SafeInv, Flush, UNCHANGED <<live, lastSaved, queueVars, answers, retries>>
  PROVE  InOrder' /\ InTime'
<1>1. CASE lastSaved = live
  BY <1>1, StillInv DEF Flush, SafeInv, StoreInv, InOrder, TypeOK
<1>2. CASE lastSaved # live
  BY <1>2, SaveLiveInv DEF Flush
<1> QED BY <1>1, <1>2

LEMMA RetryInv ==
  ASSUME SafeInv, NEW r \in retries, Retry(r)
  PROVE  InOrder' /\ InTime'
<1>1. UNCHANGED <<live, lastSaved, token, queueVars, answers>> /\ retries' \subseteq retries
  BY DEF Retry
<1>2. CASE r.attempt # token
  BY <1>1, <1>2, StillInv DEF Retry, SafeInv, StoreInv, InOrder, TypeOK
<1>3. CASE r.attempt = token
  <2> DEFINE c == [r EXCEPT !.kind = "retry"]
  <2>1. r \in Call /\ r \in Pending
    BY DEF SafeInv, TypeOK, Pending
  <2>2. c \in Call /\ c.version = r.version /\ c.attempt = r.attempt
    BY <2>1 DEF Call
  <2>3. NotNewer(r) /\ \A d \in Pending : d.attempt = r.attempt => d.version = r.version
    BY <1>3, <2>1 DEF SafeInv, StoreInv, InTime
  <2>4. NotNewer(c)
    BY <2>2, <2>3 DEF NotNewer
  <2>5. c.version <= live
    BY <2>1, <2>2 DEF SafeInv, StoreInv, InTime
  <2> QED BY <1>1, <1>3, <2>2, <2>3, <2>4, <2>5, AppendInv DEF Retry, SafeInv, TypeOK
<1> QED BY <1>2, <1>3

LEMMA HearInv ==
  ASSUME SafeInv, NEW a \in answers, Hear(a)
  PROVE  InOrder' /\ InTime'
<1>1. UNCHANGED <<live, token, requests, queueVars>> /\ answers' \subseteq answers
  BY DEF Hear
<1>2. retries' \subseteq retries \cup Settled
  BY DEF Hear, Settled
<1>3. lastSaved' \in Nat /\ lastSaved' <= disk
  BY DEF Hear, SafeInv, StoreInv, InOrder, InTime, TypeOK, Answer, Call
<1> QED BY <1>1, <1>2, <1>3, StillInv DEF SafeInv, TypeOK

\* The main process takes the oldest request.
LEMMA SaveStateInv == SafeInv /\ SaveState => InOrder' /\ InTime'
<1> SUFFICES ASSUME SafeInv, SaveState PROVE InOrder' /\ InTime'
  OBVIOUS
<1> DEFINE c == Head(requests)
           n == Len(requests)
<1>1. c \in Call /\ c \in Pending /\ n \in Nat \ {0} /\ c = requests[1]
  BY HeadType DEF SaveState, SafeInv, TypeOK, Pending
<1>2. Len(requests') = n - 1 /\ \A i \in 1..(n - 1) : requests'[i] = requests[i + 1]
  BY <1>1 DEF SaveState, SafeInv, TypeOK
<1>3. UNCHANGED <<live, lastSaved, token, answers, disk, retries>> /\ EnqueueStateWrite(c)
  BY DEF SaveState, rendererVars
<1>4. /\ disk \in Nat /\ queued \in Write /\ writing \in Write /\ loop \in BOOLEAN
      /\ queued.version \in Nat /\ writing.version \in Nat /\ c.version \in Nat
      /\ \A i \in 1..n : requests[i].version \in Nat
  BY <1>1, PendingType DEF SafeInv, TypeOK, Write, Call, Pending
<1>5. Slots' \subseteq Slots \cup {c.version} /\ InOrder
  BY <1>3 DEF EnqueueStateWrite, Slots, SafeInv, StoreInv
<1>6. /\ disk <= c.version /\ writing.version <= c.version /\ queued.version <= c.version
      /\ c.version <= live
      /\ \A i \in 1..n : c.version <= requests[i].version
  BY <1>1, <1>5 DEF InOrder, Slots
<1>7. InOrder'
  <2>1. /\ queued' # NoWrite => loop' /\ writing'.version <= queued'.version
        /\ loop' => writing' # NoWrite /\ disk' <= writing'.version
        /\ ~loop' => writing' = NoWrite
    <3>1. [version |-> c.version, waiters |-> {c}] # NoWrite
      BY DEF NoWrite
    <3>2. /\ queued # NoWrite => loop /\ writing.version <= queued.version
          /\ loop => writing # NoWrite /\ disk <= writing.version
          /\ ~loop => writing = NoWrite
      BY <1>5 DEF InOrder
    <3>3. CASE queued # NoWrite
      <4>1. UNCHANGED <<writing, loop>> /\ queued'.version = c.version
        BY <1>3, <3>3 DEF EnqueueStateWrite
      <4> QED BY <1>3, <1>6, <3>2, <3>3, <4>1
    <3>4. CASE queued = NoWrite /\ loop
      <4>1. UNCHANGED <<writing, loop>> /\ queued'.version = c.version
        BY <1>3, <3>4 DEF EnqueueStateWrite
      <4> QED BY <1>3, <1>6, <3>2, <3>4, <4>1
    <3>5. CASE queued = NoWrite /\ ~loop
      <4>1. /\ writing' # NoWrite /\ writing'.version = c.version
            /\ loop' /\ queued' = NoWrite
        BY <1>3, <3>1, <3>5 DEF EnqueueStateWrite
      <4> QED BY <1>3, <1>6, <4>1
    <3> QED BY <1>4, <3>3, <3>4, <3>5
  <2>2. ASSUME NEW i \in 1..(n - 1)
        PROVE  /\ requests'[i].version <= live'
               /\ \A d \in Slots' : d <= requests'[i].version
               /\ \A k \in 1..i : requests'[k].version <= requests'[i].version
    <3>1. i + 1 \in 1..n /\ requests'[i] = requests[i + 1]
      BY <1>1, <1>2
    <3>2. \A k \in 1..i : k + 1 \in 1..(i + 1) /\ requests'[k] = requests[k + 1]
      BY <1>1, <1>2
    <3> QED BY <1>3, <1>5, <1>6, <3>1, <3>2 DEF InOrder
  <2>3. lastSaved' <= disk' /\ \A d \in Slots' : d <= live'
    BY <1>3, <1>5, <1>6 DEF InOrder
  <2> QED BY <1>2, <2>1, <2>2, <2>3 DEF InOrder
<1>8. Pending' \subseteq Pending
  <2>1. Settled' = Settled /\ Waiting' \subseteq Waiting \cup {c}
    BY <1>3 DEF EnqueueStateWrite, Waiting, Settled
  <2>2. {requests'[i] : i \in 1..(n - 1)} \subseteq {requests[i] : i \in 1..n}
    BY <1>1, <1>2
  <2> QED BY <1>1, <1>2, <1>3, <2>1, <2>2 DEF Pending
<1>9. \A d \in Pending : NotNewer(d) => NotNewer(d)'
  <2> SUFFICES ASSUME NEW d \in Pending, NotNewer(d) PROVE NotNewer(d)'
    OBVIOUS
  <2>1. c.version <= d.version
    BY <1>1 DEF NotNewer
  <2>2. \A i \in 1..(n - 1) : requests'[i].version <= d.version
    BY <1>1, <1>2 DEF NotNewer
  <2> QED BY <1>2, <1>5, <2>1, <2>2 DEF NotNewer
<1>10. InTime'
  <2>1. /\ \A d \in queued'.waiters : d.version <= queued'.version
        /\ \A d \in writing'.waiters : d.version <= writing'.version
    <3>1. \A d \in queued.waiters : d.version \in Nat /\ d.version <= queued.version
      BY PendingType DEF SafeInv, StoreInv, InTime, Pending, Waiting
    <3>2. \A d \in queued.waiters : d.version <= c.version
      BY <1>4, <1>6, <3>1
    <3>3. \A d \in writing.waiters : d.version <= writing.version
      BY DEF SafeInv, StoreInv, InTime
    <3> QED BY <1>3, <1>4, <3>1, <3>2, <3>3 DEF EnqueueStateWrite
  <2> QED BY <1>3, <1>8, <1>9, <2>1 DEF SafeInv, StoreInv, InTime
<1> QED BY <1>7, <1>10

\* A write ends and the next one starts.
LEMMA WriteEndsInv == SafeInv /\ WriteEnds => InOrder' /\ InTime'
<1> SUFFICES ASSUME SafeInv, WriteEnds PROVE InOrder' /\ InTime'
  OBVIOUS
<1>1. /\ disk \in Nat /\ queued \in Write /\ writing \in Write /\ loop \in BOOLEAN
      /\ queued.version \in Nat /\ writing.version \in Nat
      /\ \A i \in 1..Len(requests) : requests[i].version \in Nat
  <2>1. \A i \in 1..Len(requests) : requests[i] \in Call
    BY DEF SafeInv, TypeOK
  <2> QED BY <2>1 DEF SafeInv, TypeOK, Write, Call
<1>2. /\ writing' = queued /\ queued' = NoWrite /\ loop' = (queued # NoWrite)
      /\ UNCHANGED <<live, lastSaved, token, requests, retries>>
      /\ InOrder /\ loop
  BY DEF WriteEnds, NextWrite, rendererVars, SafeInv, StoreInv, InOrder
<1>3. disk' \in {disk, writing.version} /\ disk <= writing.version
  BY <1>2 DEF WriteEnds, InOrder
<1>4. Slots' \subseteq Slots \cup {0} /\ disk <= disk' /\ \A d \in Slots : d \in Nat
  BY <1>1, <1>2, <1>3 DEF Slots, NoWrite
<1>5. InOrder'
  <2>1. /\ loop' => writing' # NoWrite /\ disk' <= writing'.version
        /\ ~loop' => writing' = NoWrite
    <3>1. queued # NoWrite => disk <= queued.version /\ writing.version <= queued.version
      BY <1>1, <1>2, <1>3 DEF InOrder
    <3> QED BY <1>2, <1>3, <3>1
  <2>2. \A i \in 1..Len(requests') :
          /\ requests'[i].version <= live'
          /\ \A d \in Slots' : d <= requests'[i].version
          /\ \A k \in 1..i : requests'[k].version <= requests'[i].version
    BY <1>1, <1>2, <1>4 DEF InOrder
  <2>3. lastSaved' <= disk' /\ \A d \in Slots' : d <= live'
    BY <1>1, <1>2, <1>3, <1>4 DEF InOrder, SafeInv, TypeOK
  <2> QED BY <1>2, <2>1, <2>2, <2>3 DEF InOrder
<1>6. Pending' \subseteq Pending
  BY <1>2 DEF WriteEnds, Pending, Waiting, Settled, NoWrite
<1>7. \A d \in Pending : NotNewer(d) => NotNewer(d)'
  <2> SUFFICES ASSUME NEW d \in Pending, NotNewer(d) PROVE NotNewer(d)'
    OBVIOUS
  <2>1. d.version \in Nat
    BY PendingType DEF SafeInv
  <2> QED BY <1>2, <1>4, <2>1 DEF NotNewer
<1>8. \A a \in answers' : a.ok => a.call.version <= disk'
  <2> SUFFICES ASSUME NEW a \in answers', a.ok PROVE a.call.version <= disk'
    OBVIOUS
  <2>1. CASE a \in answers
    <3>1. a.call.version <= disk /\ a.call.version \in Nat
      BY <2>1, PendingType DEF SafeInv, StoreInv, InTime, Pending, Settled
    <3> QED BY <1>1, <1>3, <1>4, <3>1
  <2>2. CASE a \notin answers
    <3>1. a.call \in writing.waiters /\ disk' = writing.version
      BY <2>2 DEF WriteEnds
    <3> QED BY <3>1 DEF SafeInv, StoreInv, InTime
  <2> QED BY <2>1, <2>2
<1>9. InTime'
  BY <1>2, <1>6, <1>7, <1>8 DEF SafeInv, StoreInv, InTime, NoWrite
<1> QED BY <1>5, <1>9

\* What was handed over stays in the queue until it is on disk.
LEMMA HandedStep == SafeInv /\ [Next]_vars => HandedOver'
<1> SUFFICES ASSUME SafeInv, [Next]_vars, faults' = 0 PROVE HandedOver'
  BY DEF HandedOver
<1> USE DEF rendererVars, queueVars, quitVars, boundVars
<1>1. HandedOver /\ TypeOK /\ InOrder
  BY DEF SafeInv, StoreInv
<1>2. CASE SaveState
  <2> DEFINE c == Head(requests)
  <2>1. c.version \in Nat /\ EnqueueStateWrite(c) /\ faults = 0
    BY <1>1, <1>2, HeadType DEF SaveState, Call
  <2>2. handed <= c.version /\ handed' \in {handed, c.version}
    <3>1. c = requests[1] /\ 1 \in 1..Len(requests)
      BY <1>1, <1>2 DEF SaveState, TypeOK
    <3>2. disk <= c.version /\ writing.version <= c.version /\ queued.version <= c.version
      BY <1>1, <3>1 DEF InOrder, Slots
    <3>3. handed \in Nat /\ disk \in Nat /\ writing.version \in Nat /\ queued.version \in Nat
      BY <1>1 DEF TypeOK, Write
    <3>4. handed <= disk \/ handed <= writing.version \/ handed <= queued.version
      BY <1>1, <2>1 DEF HandedOver, TypeOK
    <3>5. handed' \in {handed, c.version}
      BY <1>2 DEF SaveState
    <3> QED BY <2>1, <3>2, <3>3, <3>4, <3>5
  <2>3. /\ queued' # NoWrite => handed' <= queued'.version
        /\ queued' = NoWrite /\ loop' => handed' <= writing'.version
        /\ ~loop' => handed' <= disk'
    <3>1. handed' <= c.version
      BY <1>1, <2>1, <2>2 DEF TypeOK
    <3>2. [version |-> c.version, waiters |-> {c}] # NoWrite
      BY DEF NoWrite
    <3>3. loop' = TRUE
      BY <1>1, <2>1 DEF EnqueueStateWrite, InOrder, TypeOK
    <3>4. \/ queued' # NoWrite /\ queued'.version = c.version
          \/ queued' = NoWrite /\ writing'.version = c.version
      <4>1. CASE queued # NoWrite
        BY <2>1, <4>1 DEF EnqueueStateWrite, NoWrite
      <4>2. CASE queued = NoWrite
        BY <2>1, <3>2, <4>2 DEF EnqueueStateWrite
      <4> QED BY <4>1, <4>2
    <3> QED BY <3>1, <3>3, <3>4
  <2>4. phase \in {"closing", "unloaded", "exited"} => handed' = handed
    BY <1>2 DEF SaveState, Open
  <2>5. disk' = disk /\ phase' = phase /\ rounds' = rounds
    BY <1>2 DEF SaveState
  <2> QED BY <1>1, <2>1, <2>3, <2>4, <2>5 DEF HandedOver
<1>3. CASE WriteEnds
  <2>1. /\ faults = 0 /\ disk' = writing.version /\ writing' = queued /\ queued' = NoWrite
        /\ loop' = (queued # NoWrite) /\ UNCHANGED <<handed, phase, rounds>> /\ loop
    BY <1>1, <1>3 DEF WriteEnds, NextWrite, InOrder, TypeOK
  <2>2. disk <= disk' /\ disk \in Nat /\ disk' \in Nat /\ handed \in Nat
    BY <1>1, <2>1 DEF InOrder, TypeOK, Write
  <2>3. /\ queued # NoWrite => handed <= queued.version
        /\ queued = NoWrite => handed <= writing.version
        /\ (phase \in {"closing", "unloaded", "exited"} /\ rounds < MaxRounds) => handed <= disk
    BY <1>1, <2>1 DEF HandedOver
  <2>4. (phase \in {"closing", "unloaded", "exited"} /\ rounds < MaxRounds) => handed <= disk'
    BY <2>2, <2>3
  <2> QED BY <2>1, <2>3, <2>4 DEF HandedOver
<1>4. CASE Quit \/ FlushDone
  <2>1. BeforeQuit /\ UNCHANGED <<queueVars, handed, faults>>
    BY <1>4 DEF Quit, FlushDone
  <2>2. (phase' \in {"closing", "unloaded", "exited"} /\ rounds' < MaxRounds) => ~loop
    BY <2>1 DEF BeforeQuit
  <2> QED BY <1>1, <2>1, <2>2 DEF HandedOver
<1>5. CASE PageHide \/ Exit
  BY <1>1, <1>5 DEF PageHide, Exit, HandedOver
<1>6. CASE Kill
  BY <1>1, <1>6 DEF Kill, HandedOver
<1>7. ASSUME UNCHANGED <<queueVars, quitVars, handed, faults>> PROVE HandedOver'
  BY <1>1, <1>7 DEF HandedOver
<1>8. CASE Edit \/ DebounceFires \/ HideWindow \/ UNCHANGED vars
  BY <1>7, <1>8 DEF Edit, DebounceFires, HideWindow, vars
<1>9. CASE (\E c \in retries : Retry(c)) \/ (\E a \in answers : Hear(a))
  BY <1>7, <1>9 DEF Retry, Hear
<1> QED BY <1>2, <1>3, <1>4, <1>5, <1>6, <1>8, <1>9 DEF Next

LEMMA InvStep == SafeInv /\ [Next]_vars => SafeInv'
<1> SUFFICES ASSUME SafeInv, [Next]_vars PROVE InOrder' /\ InTime'
  BY TypeStep, HandedStep DEF SafeInv, StoreInv
<1>1. CASE Edit
  BY <1>1, EditInv
<1>2. CASE DebounceFires
  BY <1>2, SaveLiveInv DEF DebounceFires
<1>3. CASE HideWindow
  BY <1>3, FlushInv DEF HideWindow
<1>4. CASE \E c \in retries : Retry(c)
  BY <1>4, RetryInv
<1>5. CASE \E a \in answers : Hear(a)
  BY <1>5, HearInv
<1>6. CASE SaveState
  BY <1>6, SaveStateInv
<1>7. CASE WriteEnds
  BY <1>7, WriteEndsInv
<1>8. CASE PageHide
  BY <1>8, FlushInv DEF PageHide
<1>9. ASSUME UNCHANGED <<rendererVars, requests, queueVars, answers>>
      PROVE  InOrder' /\ InTime'
  BY <1>9, StillInv DEF rendererVars, SafeInv, StoreInv, InOrder, TypeOK
<1>10. CASE Quit \/ FlushDone \/ Exit \/ Kill \/ UNCHANGED vars
  BY <1>9, <1>10 DEF Quit, FlushDone, Exit, Kill, vars
<1> QED BY <1>1, <1>2, <1>3, <1>4, <1>5, <1>6, <1>7, <1>8, <1>10 DEF Next

\* The documents on disk, being written, waiting and on their way are in order,
\* and nobody hears of success before a document as new as his own is on disk.
THEOREM StoreInvariance == Spec => []SafeInv
<1>1. Init => SafeInv
  BY TypeInit, InvInit DEF SafeInv
<1> QED BY <1>1, InvStep, PTL DEF Spec

-----------------------------------------------------------------------------
(* The state store: what the invariant is for *)

LEMMA PromiseInit == Init => Promise!Init
BY DEF Init, Promise!Init

LEMMA PromiseStep == SafeInv /\ SafeInv' /\ [Next]_vars => [Promise!Next]_(Promise!vars)
<1> SUFFICES ASSUME SafeInv, SafeInv', [Next]_vars
             PROVE  Promise!Next \/ UNCHANGED <<live, disk, lastSaved>>
  BY DEF Promise!vars
<1> USE DEF rendererVars, queueVars, quitVars, boundVars
<1>1. CASE Edit
  BY <1>1 DEF Edit, Promise!Next, Promise!Change
<1>2. CASE \E a \in answers : Hear(a)
  <2>1. lastSaved' \in 0..disk' /\ UNCHANGED <<live, disk>>
    BY <1>2 DEF Hear, SafeInv, StoreInv, InOrder, TypeOK
  <2> QED BY <1>2, <2>1 DEF Hear, Promise!Next, Promise!Confirm
<1>3. CASE WriteEnds
  <2>1. UNCHANGED <<live, lastSaved>> /\ disk' \in {disk, writing.version}
    BY <1>3 DEF WriteEnds
  <2>2. disk <= writing.version
    BY <1>3 DEF WriteEnds, SafeInv, StoreInv, InOrder
  <2>3. disk' <= live /\ disk \in Nat /\ disk' \in Nat /\ live \in Nat
    BY <2>1 DEF SafeInv, StoreInv, InOrder, Slots, TypeOK
  <2> QED BY <2>1, <2>2, <2>3 DEF Promise!Next, Promise!Persist
<1>4. CASE DebounceFires \/ HideWindow \/ SaveState \/ Quit \/ FlushDone
  BY <1>4 DEF DebounceFires, HideWindow, SaveState, Quit, FlushDone
<1>5. CASE PageHide \/ Exit \/ Kill \/ UNCHANGED vars \/ \E c \in retries : Retry(c)
  BY <1>5 DEF PageHide, Exit, Kill, vars, Retry
<1> QED BY <1>1, <1>2, <1>3, <1>4, <1>5 DEF Next

\* The store implements the promise: what the renderer believes saved is on
\* disk, and the file never goes back, for every bound on edits and failures.
THEOREM StoreKeepsItsPromise == Spec => KeepsItsPromise
BY PromiseInit, PromiseStep, StoreInvariance, PTL DEF Spec, KeepsItsPromise, Promise!Spec

\* Unless it is forced through, a quit keeps what the main process was handed
\* before the windows closed.
THEOREM QuitKeepsHandedHolds == Spec => []QuitKeepsHanded
<1>1. SafeInv => QuitKeepsHanded
  BY DEF SafeInv, StoreInv, HandedOver, QuitKeepsHanded, TypeOK
<1> QED BY <1>1, StoreInvariance, PTL

-----------------------------------------------------------------------------
CONSTANTS
  None, Requests, Sends, Callers, MaxToggles, MaxExits, MaxMisses,
  Jobs, Rules, Days, Depth, MaxTime, MaxTouches, MaxAdopts, MaxRestarts, Horizon, LowWater

VARIABLES
  settings, calls, known, server, secret, ports, endpoint, old, window,  \* ControlApi
  caller, file, work, run, ran, drain, audits, held, log, unlogged,
  toggles, exits, misses,
  now, jobs, cal, stack, taken, saves, armed, fired, dirty, reports, sent, past,   \* UndoStack
  edits, adopts, restarts

Api  == INSTANCE ControlApi WITH token <- secret, faults <- misses, MaxFaults <- MaxMisses
Undo == INSTANCE UndoStack WITH held <- taken, MaxEdits <- MaxTouches

-----------------------------------------------------------------------------
(* The control API: the server and the requests *)

Switches  == [on : BOOLEAN, send : BOOLEAN]
Endpoints == [port : Nat, token : Nat]
CallStages == {"sent", "listening", "publishing", "closing", "removing", "report", "done"}
Stages    == {"none", "arrived", "authorised", "claimed", "pending", "answered", "moved", "reported",
              "auditing", "audited", "over"}
CallsMade == [on : BOOLEAN, send : BOOLEAN, at : CallStages, stops : Nat,
              file : Endpoints \cup {None}, told : BOOLEAN]
Works     == [via : {"http", "drop"}, at : Stages, key : Nat, port : Nat, ok : BOOLEAN]
Files     == [at : {"none", "drop", "failed", "done"}, whole : BOOLEAN,
              result : {"none", "ok", "failed"}]
CallerStates == {"idle", "http", "lost", "writing", "queued", "done", "failed"}

\* The types of the server's side, which the key of a request is taken from.
ServerTypes ==
  /\ settings \in Switches /\ old \in BOOLEAN
  /\ calls \in Seq(CallsMade) /\ server \in Nat /\ secret \in Nat
  /\ endpoint \in Endpoints \cup {None}

\* The types of what is kept per request.
RequestTypes ==
  /\ caller \in [Requests -> CallerStates]
  /\ file \in [Requests -> Files]
  /\ work \in [Requests -> Works]
  /\ run \in [Requests -> {"no", "sent", "running"}]
  /\ ran \in [Requests -> [http : Nat, drop : Nat]]
  /\ drain \in [on : BOOLEAN, names : SUBSET Requests, cur : Requests \cup {None}]

\* A script that has not fallen back has no file, and one that has, no answer over HTTP.
OneDoorway(r) ==
  /\ work[r].via = "http" => caller[r] \in {"http", "done", "failed"}
  /\ caller[r] \notin {"writing", "queued"} => file[r].at = "none"

\* The stages belong to their doorway.
StageOfDoorway(r) ==
  /\ work[r].at \in {"arrived", "authorised"} => work[r].via = "http"
  /\ work[r].at \in {"claimed", "moved", "reported"} => work[r].via = "drop"

\* A file that waits has not been touched: nobody works on it or has worked on it.
WaitingIsUntouched(r) ==
  /\ r \in drain.names => file[r].at = "drop"
  /\ file[r].at \in {"none", "drop"} =>
       ran[r].drop = 0 /\ (work[r].via = "drop" => work[r].at = "none" /\ run[r] = "no")

\* While a dropped request is claimed, or is with the window, it has not been carried out.
UnderWayIsUnrun(r) ==
  /\ work[r].via = "drop" /\ (work[r].at = "claimed" \/ run[r] # "no") => ran[r].drop = 0
  /\ work[r].at = "claimed" => run[r] = "no"

\* Success stands for one run, and once the file has moved, for a file in done/.
SuccessIsRun(r) ==
  /\ work[r].via = "drop" /\ work[r].ok => ran[r].drop = 1 /\ work[r].at # "claimed"
  /\ work[r].at = "moved" /\ work[r].ok => file[r].at = "done"
  /\ file[r].result = "ok" => file[r].at = "done" /\ ran[r].drop = 1
  /\ ran[r].drop <= 1

Fits(r) == /\ OneDoorway(r) /\ StageOfDoorway(r) /\ WaitingIsUntouched(r)
           /\ UnderWayIsUnrun(r) /\ SuccessIsRun(r)

ControlInv == ServerTypes /\ RequestTypes /\ \A r \in Requests : Fits(r)

USE DEF Stages, CallerStates

-----------------------------------------------------------------------------

LEMMA InitFits == ASSUME Api!ControlAssumption, Api!Init PROVE ControlInv
<1>1. /\ Api!NoWork \in Works /\ Api!NoWork.via = "drop"
      /\ Api!NoWork.at = "none" /\ Api!NoWork.ok = FALSE
  BY DEF Api!NoWork, Works
<1>2. ServerTypes
  BY DEF Api!Init, ServerTypes, Switches
<1>3. RequestTypes
  BY <1>1 DEF Api!Init, RequestTypes, Files, Api!NoDrain
<1>4. \A r \in Requests : Fits(r)
  BY <1>1 DEF Api!Init, Fits, OneDoorway, StageOfDoorway, WaitingIsUntouched, UnderWayIsUnrun,
     SuccessIsRun, Api!NoDrain
<1> QED BY <1>2, <1>3, <1>4 DEF ControlInv

\* A request of which nothing changes goes on to fit.
LEMMA OthersFit ==
  ASSUME NEW r \in Requests, Fits(r), caller'[r] = caller[r], file'[r] = file[r],
         work'[r] = work[r], run'[r] = run[r], ran'[r] = ran[r],
         r \in drain'.names => r \in drain.names
  PROVE  Fits(r)'
BY DEF Fits, OneDoorway, StageOfDoorway, WaitingIsUntouched, UnderWayIsUnrun, SuccessIsRun

\* What the server does, and the stages of the window, leave the requests alone.
LEMMA ServerFits ==
  ASSUME ControlInv, ServerTypes', UNCHANGED <<caller, file, work, run, ran, drain>>
  PROVE  ControlInv'
<1>1. RequestTypes'
  BY DEF ControlInv, RequestTypes
<1>2. \A r \in Requests : Fits(r)'
  BY OthersFit DEF ControlInv
<1> QED BY <1>1, <1>2 DEF ControlInv

LEMMA AppliedTypes ==
  ASSUME ServerTypes, NEW s \in Switches, NEW n \in Nat
  PROVE  Api!Applied(s, n) \in Seq(CallsMade)
<1>1. Api!Call(s) \in CallsMade
  BY DEF Api!Call, CallsMade, Switches, CallStages
<1> QED BY <1>1 DEF Api!Applied, ServerTypes

LEMMA ToTypes ==
  ASSUME ServerTypes, NEW c \in DOMAIN calls, NEW at \in CallStages, Api!To(c, at)
  PROVE  calls' \in Seq(CallsMade)
<1>1. calls \in Seq(CallsMade) /\ calls[c] \in CallsMade
  BY DEF ServerTypes
<1>2. [calls[c] EXCEPT !.at = at] \in CallsMade
  BY <1>1 DEF CallsMade
<1> QED BY <1>1, <1>2 DEF Api!To

LEMMA ToggleFits == ASSUME Api!ControlAssumption, ControlInv, Api!Toggle PROVE ControlInv'
<1>1. settings' \in Switches
  <2>1. settings \in Switches /\ settings' \in Api!NewSettings
    BY DEF Api!Toggle, ControlInv, ServerTypes
  <2>2. [on |-> ~settings.on, send |-> FALSE] \in Switches
    BY DEF Switches
  <2>3. \A s \in [on : {settings.on}, send : BOOLEAN] : s \in Switches
    BY <2>1 DEF Switches
  <2> QED BY <2>1, <2>2, <2>3 DEF Api!NewSettings
<1>2. calls' \in Seq(CallsMade)
  BY <1>1, AppliedTypes DEF Api!Toggle, ControlInv, Api!ControlAssumption
<1>3. ServerTypes'
  BY <1>1, <1>2 DEF Api!Toggle, ControlInv, ServerTypes
<1> QED BY <1>3, ServerFits DEF Api!Toggle, Api!drop

LEMMA HandleFits == ASSUME ControlInv, NEW c \in DOMAIN calls, Api!Handle(c) PROVE ControlInv'
<1>1. calls \in Seq(CallsMade) /\ calls[c] \in CallsMade /\ c \in Nat /\ server \in Nat
  BY DEF ControlInv, ServerTypes
<1>2. calls' \in Seq(CallsMade) /\ secret' \in Nat /\ server' \in Nat
  <2>1. CASE Api!To(c, "listening") /\ secret' = c /\ server' = server
    BY <1>1, <2>1, ToTypes DEF ControlInv, CallStages
  <2>2. CASE /\ server' = 0 /\ secret' = 0
             /\ calls' = [calls EXCEPT ![c].at = "closing", ![c].stops = server]
    <3> DEFINE a == [calls[c] EXCEPT !.at = "closing"]
               b == [a EXCEPT !.stops = server]
    <3>1. a \in CallsMade
      BY <1>1 DEF CallsMade, CallStages
    <3>2. b \in CallsMade
      <4> HIDE DEF a
      <4> QED BY <1>1, <3>1 DEF CallsMade
    <3>3. calls' = [calls EXCEPT ![c] = b]
      BY <1>1, <2>2
    <3> HIDE DEF a, b
    <3>4. calls' \in Seq(CallsMade)
      BY <1>1, <3>2, <3>3
    <3> QED BY <2>2, <3>4
  <2>3. CASE Api!To(c, "report") /\ UNCHANGED <<server, secret>>
    BY <1>1, <2>3, ToTypes DEF ControlInv, CallStages, ServerTypes
  <2> QED BY <2>1, <2>2, <2>3 DEF Api!Handle
<1>3. ServerTypes' /\ UNCHANGED <<caller, file, work, run, ran, drain>>
  BY <1>2 DEF Api!Handle, ControlInv, ServerTypes, Api!ui, Api!drop
<1> QED BY <1>3, ServerFits

LEMMA ListensFits == ASSUME ControlInv, NEW c \in DOMAIN calls, Api!Listens(c) PROVE ControlInv'
<1>1. calls \in Seq(CallsMade) /\ calls[c] \in CallsMade /\ c \in Nat /\ secret \in Nat
  BY DEF ControlInv, ServerTypes
<1> DEFINE a == [calls[c] EXCEPT !.at = "publishing"]
           b == [a EXCEPT !.file = [port |-> c, token |-> secret]]
<1>2. a \in CallsMade
  BY <1>1 DEF CallsMade, CallStages
<1>3. b \in CallsMade
  <2> HIDE DEF a
  <2> QED BY <1>1, <1>2 DEF CallsMade, Endpoints
<1>4. calls' = [calls EXCEPT ![c] = b]
  BY <1>1 DEF Api!Listens
<1> HIDE DEF a, b
<1>5. calls' \in Seq(CallsMade)
  BY <1>1, <1>3, <1>4
<1>6. ServerTypes' /\ UNCHANGED <<caller, file, work, run, ran, drain>>
  BY <1>1, <1>5 DEF Api!Listens, ControlInv, ServerTypes, Api!ui, Api!drop
<1> QED BY <1>6, ServerFits

LEMMA PublishesFits ==
  ASSUME ControlInv, NEW c \in DOMAIN calls, Api!Publishes(c)
  PROVE  ControlInv'
<1>1. calls' \in Seq(CallsMade)
  BY ToTypes DEF Api!Publishes, ControlInv, CallStages
<1>2. endpoint' \in Endpoints \cup {None}
  <2>1. calls[c] \in CallsMade
    BY DEF ControlInv, ServerTypes
  <2> QED BY <2>1 DEF Api!Publishes, CallsMade
<1>3. ServerTypes' /\ UNCHANGED <<caller, file, work, run, ran, drain>>
  BY <1>1, <1>2 DEF Api!Publishes, ControlInv, ServerTypes, Api!ui, Api!drop
<1> QED BY <1>3, ServerFits

LEMMA ClosesFits == ASSUME ControlInv, NEW c \in DOMAIN calls, Api!Closes(c) PROVE ControlInv'
<1>1. calls' \in Seq(CallsMade)
  BY ToTypes DEF Api!Closes, ControlInv, CallStages
<1>2. ServerTypes' /\ UNCHANGED <<caller, file, work, run, ran, drain>>
  BY <1>1 DEF Api!Closes, ControlInv, ServerTypes, Api!ui, Api!drop
<1> QED BY <1>2, ServerFits

LEMMA RemovesFits == ASSUME ControlInv, NEW c \in DOMAIN calls, Api!Removes(c) PROVE ControlInv'
<1>1. calls' \in Seq(CallsMade)
  BY ToTypes DEF Api!Removes, ControlInv, CallStages
<1>2. ServerTypes' /\ UNCHANGED <<caller, file, work, run, ran, drain>>
  BY <1>1 DEF Api!Removes, ControlInv, ServerTypes, Api!ui, Api!drop
<1> QED BY <1>2, ServerFits

LEMMA ReportsFits == ASSUME ControlInv, NEW c \in DOMAIN calls, Api!Reports(c) PROVE ControlInv'
<1>1. calls \in Seq(CallsMade) /\ calls[c] \in CallsMade /\ old \in BOOLEAN
  BY DEF ControlInv, ServerTypes
<1> DEFINE a == [calls[c] EXCEPT !.at = "done"]
           b == [a EXCEPT !.told = old]
<1>2. a \in CallsMade
  BY <1>1 DEF CallsMade, CallStages
<1>3. b \in CallsMade
  <2> HIDE DEF a
  <2> QED BY <1>1, <1>2 DEF CallsMade
<1>4. calls' = [calls EXCEPT ![c] = b]
  BY <1>1 DEF Api!Reports
<1> HIDE DEF a, b
<1>5. calls' \in Seq(CallsMade)
  BY <1>1, <1>3, <1>4
<1>6. ServerTypes' /\ UNCHANGED <<caller, file, work, run, ran, drain>>
  BY <1>5 DEF Api!Reports, ControlInv, ServerTypes, Api!ui, Api!drop
<1> QED BY <1>6, ServerFits

LEMMA StartsFits == ASSUME ControlInv, Api!Starts PROVE ControlInv'
<1>1. CASE Api!Launch \/ Api!WindowListens
  <2>1. ServerTypes' /\ UNCHANGED <<caller, file, work, run, ran, drain>>
    BY <1>1 DEF Api!Launch, Api!WindowListens, ControlInv, ServerTypes, Api!http,
       Api!drop
  <2> QED BY <2>1, ServerFits
<1>2. CASE Api!WindowReady
  <2>1. calls' \in Seq(CallsMade)
    BY <1>2, AppliedTypes DEF Api!WindowReady, ControlInv, ServerTypes
  <2>2. ServerTypes' /\ UNCHANGED <<caller, file, work, run, ran, drain>>
    BY <1>2, <2>1 DEF Api!WindowReady, ControlInv, ServerTypes, Api!drop
  <2> QED BY <2>2, ServerFits
<1> QED BY <1>1, <1>2 DEF Api!Starts

-----------------------------------------------------------------------------

\* A process that ends forgets what it and its window were at.
LEMMA ExitFits == ASSUME ControlInv, Api!Exit PROVE ControlInv'
<1>1. /\ Api!NoWork \in Works /\ Api!NoWork.via = "drop"
      /\ Api!NoWork.at = "none" /\ Api!NoWork.ok = FALSE
  BY DEF Api!NoWork, Works
<1>2. calls' \in Seq(CallsMade)
  <2>1. /\ calls \in Seq(CallsMade)
        /\ calls' = [c \in DOMAIN calls |-> [calls[c] EXCEPT !.at = "done"]]
    BY DEF Api!Exit, ControlInv, ServerTypes
  <2>2. \A c \in DOMAIN calls : [calls[c] EXCEPT !.at = "done"] \in CallsMade
    <3> SUFFICES ASSUME NEW c \in DOMAIN calls PROVE [calls[c] EXCEPT !.at = "done"] \in CallsMade
      OBVIOUS
    <3>1. calls[c] \in CallsMade
      BY <2>1
    <3> QED BY <3>1 DEF CallsMade, CallStages
  <2> QED BY <2>1, <2>2
<1>3. ServerTypes'
  BY <1>2 DEF Api!Exit, ControlInv, ServerTypes
<1>4. RequestTypes'
  BY <1>1 DEF Api!Exit, ControlInv, RequestTypes, Api!NoDrain
<1>5. ASSUME NEW r \in Requests PROVE Fits(r)'
  <2>1. /\ work'[r] = Api!NoWork /\ run'[r] = "no" /\ file'[r] = file[r] /\ ran'[r] = ran[r]
        /\ drain'.names = {} /\ Fits(r)
        /\ caller'[r] = IF caller[r] = "http" THEN "lost" ELSE caller[r]
    BY DEF Api!Exit, ControlInv, Api!NoDrain
  <2> QED
    BY <1>1, <2>1 DEF Fits, OneDoorway, StageOfDoorway, WaitingIsUntouched, UnderWayIsUnrun,
       SuccessIsRun
<1> QED BY <1>3, <1>4, <1>5 DEF ControlInv

LEMMA PostsFits == ASSUME ControlInv, NEW r \in Requests, Api!Posts(r) PROVE ControlInv'
<1> DEFINE w == [via |-> "http", at |-> "arrived", key |-> endpoint.token,
                 port |-> endpoint.port, ok |-> FALSE]
<1>1. w \in Works
  BY DEF Api!Posts, ControlInv, ServerTypes, Endpoints, Works
<1>2. /\ work' = [work EXCEPT ![r] = w] /\ caller' = [caller EXCEPT ![r] = "http"]
      /\ UNCHANGED <<file, run, ran, drain>>
  BY DEF Api!Posts, Api!ui, Api!drop
<1>3. ServerTypes'
  BY DEF Api!Posts, ControlInv, ServerTypes, Api!http, Api!ui
<1>4. RequestTypes'
  BY <1>1, <1>2 DEF ControlInv, RequestTypes
<1>5. ASSUME NEW q \in Requests, q # r PROVE Fits(q)'
  BY <1>2, <1>5, OthersFit DEF ControlInv, RequestTypes
<1>6. Fits(r)'
  <2>1. work'[r] = w /\ caller'[r] = "http" /\ caller[r] = "idle" /\ Fits(r)
    BY <1>2 DEF Api!Posts, ControlInv, RequestTypes
  <2> QED
    BY <1>2, <2>1 DEF Fits, OneDoorway, StageOfDoorway, WaitingIsUntouched, UnderWayIsUnrun,
       SuccessIsRun
<1> QED BY <1>3, <1>4, <1>5, <1>6 DEF ControlInv

LEMMA FallsBackFits == ASSUME ControlInv, NEW r \in Requests, Api!FallsBack(r) PROVE ControlInv'
<1>1. /\ caller' = [caller EXCEPT ![r] = "writing"] /\ file' = [file EXCEPT ![r].at = "drop"]
      /\ UNCHANGED <<work, run, ran, drain>>
  BY DEF Api!FallsBack, Api!ui, Api!audit
<1>2. ServerTypes'
  BY DEF Api!FallsBack, ControlInv, ServerTypes, Api!http, Api!ui
<1>3. RequestTypes'
  <2> DEFINE f == [file[r] EXCEPT !.at = "drop"]
  <2>1. file \in [Requests -> Files]
    BY DEF ControlInv, RequestTypes
  <2>2. f \in Files
    BY <2>1 DEF Files
  <2>3. file' = [file EXCEPT ![r] = f]
    BY <1>1
  <2>4. file' \in [Requests -> Files]
    <3> HIDE DEF f
    <3> QED BY <2>1, <2>2, <2>3
  <2>5. caller' \in [Requests -> CallerStates]
    BY <1>1 DEF ControlInv, RequestTypes, CallerStates
  <2> QED BY <1>1, <2>4, <2>5 DEF ControlInv, RequestTypes
<1>4. ASSUME NEW q \in Requests, q # r PROVE Fits(q)'
  BY <1>1, <1>4, OthersFit DEF ControlInv, RequestTypes
<1>5. Fits(r)'
  <2>1. /\ file[r] \in Files /\ file'[r] = [file[r] EXCEPT !.at = "drop"]
        /\ caller'[r] = "writing" /\ caller[r] \in {"idle", "lost"} /\ Fits(r)
    BY <1>1 DEF Api!FallsBack, ControlInv, RequestTypes
  <2>2. file'[r].at = "drop" /\ file'[r].result = file[r].result
    BY <2>1 DEF Files
  <2> QED
    BY <1>1, <2>1, <2>2, ZenonT(40) DEF Fits, OneDoorway, StageOfDoorway, WaitingIsUntouched,
       UnderWayIsUnrun, SuccessIsRun
<1> QED BY <1>2, <1>3, <1>4, <1>5 DEF ControlInv

LEMMA QueuesFits == ASSUME ControlInv, NEW r \in Requests, Api!Queues(r) PROVE ControlInv'
<1>1. /\ caller' = [caller EXCEPT ![r] = "queued"] /\ file' = [file EXCEPT ![r].whole = TRUE]
      /\ UNCHANGED <<work, run, ran, drain>>
  BY DEF Api!Queues, Api!ui
<1>2. ServerTypes'
  BY DEF Api!Queues, ControlInv, ServerTypes, Api!http, Api!ui
<1>3. RequestTypes'
  <2> DEFINE f == [file[r] EXCEPT !.whole = TRUE]
  <2>1. file \in [Requests -> Files]
    BY DEF ControlInv, RequestTypes
  <2>2. f \in Files
    BY <2>1 DEF Files
  <2>3. file' = [file EXCEPT ![r] = f]
    BY <1>1
  <2>4. file' \in [Requests -> Files]
    <3> HIDE DEF f
    <3> QED BY <2>1, <2>2, <2>3
  <2>5. caller' \in [Requests -> CallerStates]
    BY <1>1 DEF ControlInv, RequestTypes, CallerStates
  <2> QED BY <1>1, <2>4, <2>5 DEF ControlInv, RequestTypes
<1>4. ASSUME NEW q \in Requests, q # r PROVE Fits(q)'
  BY <1>1, <1>4, OthersFit DEF ControlInv, RequestTypes
<1>5. Fits(r)'
  <2>1. /\ file[r] \in Files /\ file'[r] = [file[r] EXCEPT !.whole = TRUE]
        /\ caller'[r] = "queued" /\ caller[r] = "writing" /\ Fits(r)
    BY <1>1 DEF Api!Queues, ControlInv, RequestTypes
  <2>2. file'[r].at = file[r].at /\ file'[r].result = file[r].result
    BY <2>1 DEF Files
  <2> QED
    BY <1>1, <2>1, <2>2 DEF Fits, OneDoorway, StageOfDoorway, WaitingIsUntouched, UnderWayIsUnrun,
       SuccessIsRun
<1> QED BY <1>2, <1>3, <1>4, <1>5 DEF ControlInv

\* A request of which only the main process's record changes.
LEMMA StageFits ==
  ASSUME ControlInv, NEW r \in Requests, NEW w \in Works, work' = [work EXCEPT ![r] = w],
         ServerTypes', UNCHANGED <<file, run, ran, drain>>,
         \/ UNCHANGED caller
         \/ /\ work[r].via = "http"
            /\ \E c \in {"done", "failed"} : caller' = [caller EXCEPT ![r] = c],
         w.via = work[r].via, w.ok => work[r].ok, work[r].at # "none",
         w.at \notin {"none", "arrived", "claimed", "moved", "reported"},
         w.at = "authorised" => work[r].via = "http"
  PROVE  ControlInv'
<1>1. RequestTypes'
  BY DEF ControlInv, RequestTypes
<1>2. ASSUME NEW q \in Requests, q # r PROVE Fits(q)'
  BY <1>2, OthersFit DEF ControlInv, RequestTypes
<1>3. Fits(r)'
  <2>1. work'[r] = w /\ Fits(r)
        /\ (caller'[r] # caller[r] => work[r].via = "http" /\ caller'[r] \in {"done", "failed"})
    BY DEF ControlInv, RequestTypes
  <2> QED
    BY <2>1 DEF Fits, OneDoorway, StageOfDoorway, WaitingIsUntouched, UnderWayIsUnrun, SuccessIsRun
<1> QED BY <1>1, <1>2, <1>3 DEF ControlInv

\* What the two ways to advance a request make of the record.
LEMMA AskStep ==
  ASSUME RequestTypes, NEW r \in Requests, NEW at \in Stages, Api!Ask(r, at)
  PROVE  \E w \in Works : /\ work' = [work EXCEPT ![r] = w] /\ w.via = work[r].via
                          /\ w.at = at /\ w.ok = work[r].ok
<1>1. work[r] \in Works
  BY DEF RequestTypes
<1>2. /\ [work[r] EXCEPT !.at = at] \in Works
      /\ [work[r] EXCEPT !.at = at].via = work[r].via
      /\ [work[r] EXCEPT !.at = at].at = at
      /\ [work[r] EXCEPT !.at = at].ok = work[r].ok
  BY <1>1 DEF Works
<1>3. work' = [work EXCEPT ![r] = [work[r] EXCEPT !.at = at]]
  BY DEF Api!Ask
<1> QED BY <1>2, <1>3

LEMMA AnswerStep ==
  ASSUME RequestTypes, NEW r \in Requests, NEW at \in Stages, NEW ok \in BOOLEAN,
         work' = [work EXCEPT ![r].at = at, ![r].ok = ok]
  PROVE  \E w \in Works : /\ work' = [work EXCEPT ![r] = w] /\ w.via = work[r].via
                          /\ w.at = at /\ w.ok = ok
<1> DEFINE a == [work[r] EXCEPT !.at = at]
           b == [a EXCEPT !.ok = ok]
<1>1. work[r] \in Works
  BY DEF RequestTypes
<1>2. a \in Works /\ a.via = work[r].via /\ a.at = at
  BY <1>1 DEF Works
<1>3. b \in Works /\ b.via = work[r].via /\ b.at = at /\ b.ok = ok
  <2> HIDE DEF a
  <2> QED BY <1>2 DEF Works
<1>4. work' = [work EXCEPT ![r] = b]
  BY DEF RequestTypes
<1> HIDE DEF a, b
<1> QED BY <1>3, <1>4

LEMMA TimesOutFits == ASSUME ControlInv, NEW r \in Requests, Api!TimesOut(r) PROVE ControlInv'
<1>1. PICK w \in Works : /\ work' = [work EXCEPT ![r] = w] /\ w.via = work[r].via
                         /\ w.at = "answered" /\ w.ok = FALSE
  BY AnswerStep DEF Api!TimesOut, Api!Answer, ControlInv
<1>2. ServerTypes' /\ UNCHANGED <<file, run, ran, drain, caller>> /\ work[r].at # "none"
  BY DEF Api!TimesOut, ControlInv, ServerTypes, Api!http, Api!ui, Api!drop
<1> QED BY <1>1, <1>2, StageFits

\* handle() before the body has arrived.
LEMMA AuthorisedFits ==
  ASSUME ControlInv, NEW r \in Requests, Api!Authorised(r)
  PROVE  ControlInv'
<1>1. PICK w \in Works : /\ work' = [work EXCEPT ![r] = w] /\ w.via = work[r].via
                         /\ w.at \in {"authorised", "answered"} /\ (w.ok => work[r].ok)
  <2>1. CASE Api!Ask(r, "authorised")
    BY <2>1, AskStep DEF ControlInv
  <2>2. CASE Api!Answer(r, FALSE)
    BY <2>2, AnswerStep, ZenonT(40) DEF Api!Answer, ControlInv
  <2> QED BY <2>1, <2>2 DEF Api!Authorised
<1>2. ServerTypes' /\ UNCHANGED <<file, run, ran, drain, caller>> /\ work[r].at # "none"
  BY DEF Api!Authorised, ControlInv, ServerTypes, Api!http, Api!ui, Api!drop
<1>3. work[r].via = "http"
  BY DEF Api!Authorised, ControlInv, Fits, StageOfDoorway
<1> QED BY <1>1, <1>2, <1>3, StageFits

LEMMA RepliesFits == ASSUME ControlInv, NEW r \in Requests, Api!Replies(r) PROVE ControlInv'
<1>1. PICK w \in Works : /\ work' = [work EXCEPT ![r] = w] /\ w.via = work[r].via
                         /\ w.at = "over" /\ w.ok = work[r].ok
  BY AskStep DEF Api!Replies, ControlInv
<1>2. ServerTypes' /\ UNCHANGED <<file, run, ran, drain>> /\ work[r].at # "none"
      /\ work[r].via = "http"
      /\ \E c \in {"done", "failed"} : caller' = [caller EXCEPT ![r] = c]
  BY DEF Api!Replies, ControlInv, ServerTypes, Api!http, Api!ui, Api!drop
<1> QED BY <1>1, <1>2, StageFits

LEMMA AuditFits ==
  ASSUME ControlInv, NEW r \in Requests, Api!Audits(r)
  PROVE  ControlInv'
<1>1. ServerTypes' /\ UNCHANGED <<file, run, ran, drain, caller>> /\ work[r].at # "none"
  BY DEF Api!Audits, Api!Records, Api!AuditReads, Api!AuditWrites, Api!AuditFails, ControlInv,
     ServerTypes, Api!http, Api!ui, Api!drop
<1>2. CASE Api!AuditReads(r)
  BY <1>1, <1>2, ServerFits DEF Api!AuditReads
<1>3. CASE Api!Records(r) \/ Api!AuditWrites(r) \/ Api!AuditFails(r)
  <2>1. PICK at \in {"auditing", "audited"} : Api!Ask(r, at)
    BY <1>3 DEF Api!Records, Api!AuditWrites, Api!AuditFails
  <2>2. PICK w \in Works : /\ work' = [work EXCEPT ![r] = w] /\ w.via = work[r].via
                           /\ w.at = at /\ w.ok = work[r].ok
    BY <2>1, AskStep DEF ControlInv
  <2> QED BY <1>1, <2>2, StageFits
<1> QED BY <1>2, <1>3 DEF Api!Audits

LEMMA NextNameFits == ASSUME ControlInv, NEW r \in Requests, Api!NextName(r) PROVE ControlInv'
<1>1. PICK w \in Works : /\ work' = [work EXCEPT ![r] = w] /\ w.via = work[r].via
                         /\ w.at = "over" /\ w.ok = work[r].ok
  BY AskStep DEF Api!NextName, ControlInv
<1>2. /\ ServerTypes' /\ UNCHANGED <<file, run, ran, caller>> /\ work[r].at # "none"
      /\ drain' = [drain EXCEPT !.cur = None]
  BY DEF Api!NextName, ControlInv, ServerTypes, Api!http, Api!ui
<1>3. drain' \in [on : BOOLEAN, names : SUBSET Requests, cur : Requests \cup {None}]
      /\ drain'.names = drain.names
  BY <1>2 DEF ControlInv, RequestTypes
<1>4. RequestTypes'
  BY <1>1, <1>2, <1>3 DEF ControlInv, RequestTypes
<1>5. ASSUME NEW q \in Requests, q # r PROVE Fits(q)'
  BY <1>1, <1>2, <1>3, <1>5, OthersFit DEF ControlInv, RequestTypes
<1>6. Fits(r)'
  <2>1. work'[r] = w /\ Fits(r)
    BY <1>1 DEF ControlInv, RequestTypes
  <2> QED
    BY <1>1, <1>2, <1>3, <2>1 DEF Fits, OneDoorway, StageOfDoorway, WaitingIsUntouched,
       UnderWayIsUnrun, SuccessIsRun
<1> QED BY <1>2, <1>4, <1>5, <1>6 DEF ControlInv

LEMMA PassFits == ASSUME ControlInv, Api!Tick \/ Api!EndsPass PROVE ControlInv'
<1>1. ServerTypes' /\ UNCHANGED <<caller, file, work, run, ran>>
  BY DEF Api!Tick, Api!EndsPass, ControlInv, ServerTypes, Api!http, Api!ui
<1>2. /\ drain' \in [on : BOOLEAN, names : SUBSET Requests, cur : Requests \cup {None}]
      /\ \A r \in drain'.names : file[r].at = "drop"
  <2>1. CASE Api!Tick
    <3> DEFINE N == {r \in Requests : file[r].at = "drop"}
    <3>1. drain' = [on |-> TRUE, names |-> N, cur |-> None] /\ N \in SUBSET Requests
      BY <2>1 DEF Api!Tick
    <3>2. \A r \in N : file[r].at = "drop"
      OBVIOUS
    <3> HIDE DEF N
    <3> QED BY <3>1, <3>2
  <2>2. CASE Api!EndsPass
    BY <2>2 DEF Api!EndsPass, Api!NoDrain
  <2> QED BY <2>1, <2>2
<1>3. RequestTypes'
  BY <1>1, <1>2 DEF ControlInv, RequestTypes
<1>4. ASSUME NEW r \in Requests PROVE Fits(r)'
  BY <1>1, <1>2 DEF ControlInv, Fits, OneDoorway, StageOfDoorway, WaitingIsUntouched,
     UnderWayIsUnrun, SuccessIsRun
<1> QED BY <1>1, <1>3, <1>4 DEF ControlInv

-----------------------------------------------------------------------------

\* A request is refused, or goes to the window.
LEMMA ExecuteFits ==
  ASSUME ControlInv, ServerTypes', NEW r \in Requests, work[r].at \in {"authorised", "claimed"},
         UNCHANGED <<caller, file, ran, drain>>,
         Api!Execute(r) \/ (Api!Answer(r, FALSE) /\ UNCHANGED run)
  PROVE  ControlInv'
<1>1. PICK w \in Works : /\ work' = [work EXCEPT ![r] = w] /\ w.via = work[r].via
                         /\ w.at \in {"pending", "answered"}
                         /\ w.ok => work[r].ok
  <2>1. CASE Api!Execute(r)
    BY <2>1, AskStep, SMTT(40) DEF Api!Execute, ControlInv
  <2>2. CASE Api!Answer(r, FALSE)
    BY <2>2, AnswerStep, ZenonT(40) DEF Api!Answer, ControlInv
  <2> QED BY <2>1, <2>2
<1>2. \E to \in {"no", "sent", run[r]} : run' = [run EXCEPT ![r] = to]
  BY DEF Api!Execute, ControlInv, RequestTypes
<1>3. RequestTypes'
  BY <1>1, <1>2 DEF ControlInv, RequestTypes
<1>4. ASSUME NEW q \in Requests, q # r PROVE Fits(q)'
  BY <1>1, <1>2, <1>4, OthersFit DEF ControlInv, RequestTypes
<1>5. Fits(r)'
  <2>1. work'[r] = w /\ Fits(r)
    BY <1>1 DEF ControlInv, RequestTypes
  <2>2. work[r].via = "drop" => ran[r].drop = 0 /\ file[r].at \notin {"none", "drop"}
    BY <2>1 DEF Fits, StageOfDoorway, UnderWayIsUnrun, WaitingIsUntouched
  <2> QED
    BY <1>1, <2>1, <2>2 DEF Fits, OneDoorway, StageOfDoorway, WaitingIsUntouched, UnderWayIsUnrun,
       SuccessIsRun
<1> QED BY <1>3, <1>4, <1>5 DEF ControlInv

LEMMA AdmitsFits == ASSUME ControlInv, NEW r \in Requests, Api!Admits(r) PROVE ControlInv'
<1>1. ServerTypes' /\ UNCHANGED <<caller, file, ran, drain>>
  BY DEF Api!Admits, ControlInv, ServerTypes, Api!http, Api!drop
<1> QED BY <1>1, ExecuteFits DEF Api!Admits

LEMMA ReadsFits == ASSUME ControlInv, NEW r \in Requests, Api!Reads(r) PROVE ControlInv'
<1>1. ServerTypes' /\ UNCHANGED <<caller, file, ran, drain>>
  BY DEF Api!Reads, ControlInv, ServerTypes, Api!http, Api!drop
<1> QED BY <1>1, ExecuteFits DEF Api!Reads

\* The answer of the window is taken only while it is waited for.
LEMMA RespondStep ==
  ASSUME RequestTypes, NEW r \in Requests, NEW ok \in BOOLEAN, Api!Respond(r, ok)
  PROVE  \E w \in Works : /\ work' = [work EXCEPT ![r] = w] /\ w.via = work[r].via
                          /\ w = work[r] \/ (work[r].at = "pending" /\ w.at = "answered" /\ w.ok = ok)
<1>1. CASE work[r].at = "pending"
  <2>1. "answered" \in Stages /\ work' = [work EXCEPT ![r].at = "answered", ![r].ok = ok]
    BY <1>1 DEF Api!Respond, Api!Answer
  <2>2. PICK w \in Works : /\ work' = [work EXCEPT ![r] = w] /\ w.via = work[r].via
                           /\ w.at = "answered" /\ w.ok = ok
    <3>1. CASE ok = TRUE
      BY <2>1, <3>1, AnswerStep, ZenonT(40)
    <3>2. CASE ok = FALSE
      <4>1. work' = [work EXCEPT ![r].at = "answered", ![r].ok = FALSE]
        BY <2>1, <3>2, ZenonT(40)
      <4>2. PICK w \in Works : /\ work' = [work EXCEPT ![r] = w] /\ w.via = work[r].via
                               /\ w.at = "answered" /\ w.ok = FALSE
        BY <4>1, AnswerStep
      <4> QED BY <3>2, <4>2
    <3> QED BY <3>1, <3>2
  <2> QED BY <1>1, <2>2
<1>2. CASE work[r].at # "pending"
  <2>1. work' = [work EXCEPT ![r] = work[r]] /\ work[r] \in Works
    BY <1>2 DEF Api!Respond, RequestTypes
  <2> QED BY <2>1
<1> QED BY <1>1, <1>2

LEMMA TakesFits == ASSUME ControlInv, NEW r \in Requests, Api!Takes(r) PROVE ControlInv'
<1>1. ServerTypes' /\ UNCHANGED <<caller, file, ran, drain>>
  BY DEF Api!Takes, ControlInv, ServerTypes, Api!http, Api!drop
<1>2. PICK w \in Works : /\ work' = [work EXCEPT ![r] = w] /\ w.via = work[r].via
                         /\ \/ w = work[r]
                            \/ work[r].at = "pending" /\ w.at = "answered" /\ w.ok = FALSE
  <2>1. CASE Api!Accepts(r)
    <3>1. work' = [work EXCEPT ![r] = work[r]] /\ work[r] \in Works
      BY <2>1 DEF Api!Takes, ControlInv, RequestTypes
    <3> QED BY <3>1
  <2>2. CASE ~Api!Accepts(r)
    BY <2>2, RespondStep DEF Api!Takes, ControlInv
  <2> QED BY <2>1, <2>2
<1>3. \E to \in {"no", "running"} : run' = [run EXCEPT ![r] = to]
  BY DEF Api!Takes
<1>4. RequestTypes'
  BY <1>1, <1>2, <1>3 DEF ControlInv, RequestTypes
<1>5. ASSUME NEW q \in Requests, q # r PROVE Fits(q)'
  BY <1>1, <1>2, <1>3, <1>5, OthersFit DEF ControlInv, RequestTypes
<1>6. Fits(r)'
  <2>1. work'[r] = w /\ Fits(r) /\ run[r] = "sent"
    BY <1>2 DEF Api!Takes, ControlInv, RequestTypes
  <2> QED
    BY <1>1, <1>2, <2>1 DEF Fits, OneDoorway, StageOfDoorway, WaitingIsUntouched, UnderWayIsUnrun,
       SuccessIsRun
<1> QED BY <1>1, <1>4, <1>5, <1>6 DEF ControlInv

\* A request that is carried out counts for the doorway it came by.
LEMMA FinishesFits == ASSUME ControlInv, NEW r \in Requests, Api!Finishes(r) PROVE ControlInv'
<1>1. /\ ServerTypes' /\ UNCHANGED <<caller, file, drain>>
      /\ run[r] = "running" /\ run' = [run EXCEPT ![r] = "no"]
  BY DEF Api!Finishes, ControlInv, ServerTypes, Api!http, Api!drop
<1>2. work[r] \in Works /\ ran[r] \in [http : Nat, drop : Nat] /\ Fits(r)
  BY DEF ControlInv, RequestTypes
<1>3. PICK ok \in BOOLEAN, w \in Works :
        /\ work' = [work EXCEPT ![r] = w] /\ w.via = work[r].via
        /\ w = work[r] \/ (work[r].at = "pending" /\ w.at = "answered" /\ w.ok = ok)
        /\ IF ok THEN ran' = [ran EXCEPT ![r][work[r].via] = @ + 1] ELSE ran' = ran
  BY RespondStep DEF Api!Finishes, ControlInv
<1>4. PICK n \in [http : Nat, drop : Nat] :
        /\ ran' = [ran EXCEPT ![r] = n]
        /\ n.drop = IF ok /\ work[r].via = "drop" THEN ran[r].drop + 1 ELSE ran[r].drop
  <2>1. CASE ok /\ work[r].via = "drop"
    <3>1. [ran[r] EXCEPT !.drop = @ + 1] \in [http : Nat, drop : Nat]
          /\ [ran[r] EXCEPT !.drop = @ + 1].drop = ran[r].drop + 1
      BY <1>2
    <3>2. ran' = [ran EXCEPT ![r] = [ran[r] EXCEPT !.drop = @ + 1]]
      BY <1>3, <2>1
    <3> QED BY <2>1, <3>1, <3>2
  <2>2. CASE ok /\ work[r].via = "http"
    <3>1. [ran[r] EXCEPT !.http = @ + 1] \in [http : Nat, drop : Nat]
          /\ [ran[r] EXCEPT !.http = @ + 1].drop = ran[r].drop
      BY <1>2
    <3>2. ran' = [ran EXCEPT ![r] = [ran[r] EXCEPT !.http = @ + 1]]
      BY <1>3, <2>2
    <3> QED BY <2>2, <3>1, <3>2
  <2>3. CASE ~ok
    <3>1. ran' = [ran EXCEPT ![r] = ran[r]]
      BY <1>3, <2>3 DEF ControlInv, RequestTypes
    <3> QED BY <1>2, <2>3, <3>1
  <2> QED BY <1>2, <2>1, <2>2, <2>3 DEF Works
<1>5. RequestTypes'
  BY <1>1, <1>3, <1>4 DEF ControlInv, RequestTypes
<1>6. ASSUME NEW q \in Requests, q # r PROVE Fits(q)'
  BY <1>1, <1>3, <1>4, <1>6, OthersFit DEF ControlInv, RequestTypes
<1>7. Fits(r)'
  <2>1. work'[r] = w /\ run'[r] = "no" /\ ran'[r] = n
    BY <1>1, <1>3, <1>4 DEF ControlInv, RequestTypes
  <2>2. work[r].via = "drop" => /\ ran[r].drop = 0 /\ work[r].at # "claimed" /\ ~work[r].ok
                                /\ file[r].at \notin {"none", "drop"} /\ file[r].result # "ok"
    BY <1>1, <1>2 DEF Fits, UnderWayIsUnrun, WaitingIsUntouched, SuccessIsRun
  <2>3. CASE work[r].via = "drop"
    BY <1>1, <1>2, <1>3, <1>4, <2>1, <2>2, <2>3 DEF Fits, OneDoorway, StageOfDoorway,
       WaitingIsUntouched, UnderWayIsUnrun, SuccessIsRun
  <2>4. CASE work[r].via # "drop"
    BY <1>1, <1>2, <1>3, <1>4, <2>1, <2>4 DEF Fits, OneDoorway, StageOfDoorway, WaitingIsUntouched,
       UnderWayIsUnrun, SuccessIsRun
  <2> QED BY <2>3, <2>4
<1> QED BY <1>1, <1>5, <1>6, <1>7 DEF ControlInv

\* A file that is claimed belongs to a script that waits for nothing over HTTP.
LEMMA ClaimsFits == ASSUME ControlInv, NEW r \in Requests, Api!Claims(r) PROVE ControlInv'
<1>1. /\ ServerTypes' /\ UNCHANGED <<caller, run, ran>>
      /\ Fits(r) /\ file[r] \in Files /\ file[r].at = "drop"
      /\ drain'.names \subseteq drain.names
      /\ drain' \in [on : BOOLEAN, names : SUBSET Requests, cur : Requests \cup {None}]
  <2>1. Fits(r) /\ file[r].at = "drop" /\ file[r] \in Files
    BY DEF Api!Claims, ControlInv, RequestTypes, Fits, WaitingIsUntouched
  <2>2. /\ drain'.names \subseteq drain.names
        /\ drain' \in [on : BOOLEAN, names : SUBSET Requests, cur : Requests \cup {None}]
    <3>1. drain \in [on : BOOLEAN, names : SUBSET Requests, cur : Requests \cup {None}]
      BY DEF ControlInv, RequestTypes
    <3> DEFINE a == [drain EXCEPT !.names = @ \ {r}]
               b == [a EXCEPT !.cur = r]
    <3>2. /\ a \in [on : BOOLEAN, names : SUBSET Requests, cur : Requests \cup {None}]
          /\ a.names = drain.names \ {r}
      BY <3>1
    <3>3. /\ b \in [on : BOOLEAN, names : SUBSET Requests, cur : Requests \cup {None}]
          /\ b.names = drain.names \ {r}
      <4> HIDE DEF a
      <4> QED BY <3>2
    <3>4. drain' = a \/ drain' = b
      BY DEF Api!Claims
    <3> HIDE DEF a, b
    <3> QED BY <3>2, <3>3, <3>4
  <2>3. ServerTypes' /\ UNCHANGED <<caller, run, ran>>
    BY DEF Api!Claims, ControlInv, ServerTypes, Api!http, Api!ui
  <2> QED BY <2>1, <2>2, <2>3
<1>2. CASE UNCHANGED <<file, work>>
  <2>1. RequestTypes'
    BY <1>1, <1>2 DEF ControlInv, RequestTypes
  <2>2. \A q \in Requests : Fits(q)'
    BY <1>1, <1>2, OthersFit DEF ControlInv
  <2> QED BY <1>1, <2>1, <2>2 DEF ControlInv
<1>3. CASE /\ file' = Api!Claimed(r)
           /\ work' = [work EXCEPT ![r] = [Api!NoWork EXCEPT !.at = "claimed"]]
           /\ drain' = [drain EXCEPT !.names = @ \ {r}, !.cur = r]
  <2> DEFINE w == [Api!NoWork EXCEPT !.at = "claimed"]
             f == [file[r] EXCEPT !.at = "failed"]
  <2>1. w \in Works /\ w.via = "drop" /\ w.at = "claimed" /\ w.ok = FALSE
    BY DEF Api!NoWork, Works
  <2>2. f \in Files /\ f.at = "failed" /\ f.result = file[r].result
    BY <1>1 DEF Files
  <2>3. work' = [work EXCEPT ![r] = w] /\ file' = [file EXCEPT ![r] = f]
    BY <1>3 DEF Api!Claimed
  <2> HIDE DEF w, f
  <2>4. RequestTypes'
    BY <1>1, <2>1, <2>2, <2>3 DEF ControlInv, RequestTypes
  <2>5. ASSUME NEW q \in Requests, q # r PROVE Fits(q)'
    BY <1>1, <2>3, <2>5, OthersFit DEF ControlInv, RequestTypes
  <2>6. Fits(r)'
    <3>1. work'[r] = w /\ file'[r] = f /\ r \notin drain'.names
      BY <1>3, <2>3 DEF ControlInv, RequestTypes
    <3>2. work[r].via = "drop"
      BY <1>1 DEF Fits, OneDoorway, ControlInv, RequestTypes, Works
    <3>3. ran[r].drop = 0 /\ run[r] = "no" /\ file[r].result # "ok"
      BY <1>1, <3>2 DEF Fits, WaitingIsUntouched, SuccessIsRun
    <3> QED
      BY <1>1, <2>1, <2>2, <3>1, <3>3 DEF Fits, OneDoorway, StageOfDoorway, WaitingIsUntouched,
         UnderWayIsUnrun, SuccessIsRun
  <2> QED BY <1>1, <2>4, <2>5, <2>6 DEF ControlInv
<1> QED BY <1>2, <1>3 DEF Api!Claims

\* finish(): the file moves, and the result follows it.
LEMMA MovesFits == ASSUME ControlInv, NEW r \in Requests, Api!Moves(r) PROVE ControlInv'
<1>1. /\ ServerTypes' /\ UNCHANGED <<caller, run, ran, drain>>
      /\ work[r].via = "drop" /\ work[r].at = "answered" /\ Fits(r) /\ file[r] \in Files
  BY DEF Api!Moves, ControlInv, ServerTypes, RequestTypes, Api!http, Api!ui
<1>2. PICK w \in Works : /\ work' = [work EXCEPT ![r] = w] /\ w.via = "drop" /\ w.at = "moved"
                         /\ w.ok => (work[r].ok /\ file' = [file EXCEPT ![r].at = "done"])
                         /\ file' = file \/ (work[r].ok /\ file' = [file EXCEPT ![r].at = "done"])
  <2>1. CASE ~work[r].ok /\ Api!Ask(r, "moved") /\ UNCHANGED file
    BY <1>1, <2>1, AskStep DEF ControlInv
  <2>2. CASE work[r].ok /\ file' = [file EXCEPT ![r].at = "done"] /\ Api!Ask(r, "moved")
    <3>1. PICK w \in Works : /\ work' = [work EXCEPT ![r] = w] /\ w.via = work[r].via
                             /\ w.at = "moved" /\ w.ok = work[r].ok
      BY <2>2, AskStep DEF ControlInv
    <3> QED BY <1>1, <2>2, <3>1
  <2>3. CASE work' = [work EXCEPT ![r].at = "moved", ![r].ok = FALSE] /\ UNCHANGED file
    <3>1. PICK w \in Works : /\ work' = [work EXCEPT ![r] = w] /\ w.via = work[r].via
                             /\ w.at = "moved" /\ w.ok = FALSE
      BY <2>3, AnswerStep DEF ControlInv
    <3> QED BY <1>1, <2>3, <3>1
  <2> QED BY <2>1, <2>2, <2>3 DEF Api!Moves
<1>3. PICK f \in Files : /\ file' = [file EXCEPT ![r] = f] /\ f.result = file[r].result
                         /\ f = file[r] \/ (work[r].ok /\ f.at = "done")
                         /\ w.ok => f.at = "done"
  <2> DEFINE f == [file[r] EXCEPT !.at = "done"]
  <2>1. f \in Files /\ f.at = "done" /\ f.result = file[r].result
    BY <1>1 DEF Files
  <2>2. CASE file' = [file EXCEPT ![r].at = "done"] /\ work[r].ok
    BY <2>1, <2>2
  <2>3. CASE file' = file /\ ~w.ok
    <3>1. file' = [file EXCEPT ![r] = file[r]]
      BY <2>3 DEF ControlInv, RequestTypes
    <3> QED BY <1>1, <2>3, <3>1
  <2> QED BY <1>2, <2>2, <2>3 DEF Works
<1>4. RequestTypes'
  BY <1>1, <1>2, <1>3 DEF ControlInv, RequestTypes
<1>5. ASSUME NEW q \in Requests, q # r PROVE Fits(q)'
  BY <1>1, <1>2, <1>3, <1>5, OthersFit DEF ControlInv, RequestTypes
<1>6. Fits(r)'
  <2>1. work'[r] = w /\ file'[r] = f
    BY <1>2, <1>3 DEF ControlInv, RequestTypes
  <2>2. /\ file[r].at \notin {"none", "drop"}
        /\ (w.ok => work[r].ok) /\ (work[r].ok => ran[r].drop = 1)
    BY <1>1, <1>2 DEF Fits, WaitingIsUntouched, SuccessIsRun
  <2> QED
    BY <1>1, <1>2, <1>3, <2>1, <2>2 DEF Fits, OneDoorway, StageOfDoorway, WaitingIsUntouched,
       UnderWayIsUnrun, SuccessIsRun
<1> QED BY <1>1, <1>4, <1>5, <1>6 DEF ControlInv

LEMMA WritesResultFits ==
  ASSUME ControlInv, NEW r \in Requests, Api!WritesResult(r)
  PROVE  ControlInv'
<1>1. /\ ServerTypes' /\ UNCHANGED <<caller, run, ran, drain>>
      /\ work[r].at = "moved" /\ Fits(r) /\ file[r] \in Files
  BY DEF Api!WritesResult, ControlInv, ServerTypes, RequestTypes, Api!http, Api!ui
<1>2. PICK w \in Works : /\ work' = [work EXCEPT ![r] = w] /\ w.via = work[r].via
                         /\ w.at = "reported" /\ w.ok = work[r].ok
  BY AskStep DEF Api!WritesResult, ControlInv
<1> DEFINE f == [file[r] EXCEPT !.result = Api!Result(r)]
<1>3. f \in Files /\ f.at = file[r].at /\ f.result = Api!Result(r)
  BY <1>1 DEF Files, Api!Result
<1>4. file' = [file EXCEPT ![r] = f]
  BY DEF Api!WritesResult
<1> HIDE DEF f
<1>5. RequestTypes'
  BY <1>1, <1>2, <1>3, <1>4 DEF ControlInv, RequestTypes
<1>6. ASSUME NEW q \in Requests, q # r PROVE Fits(q)'
  BY <1>1, <1>2, <1>4, <1>6, OthersFit DEF ControlInv, RequestTypes
<1>7. Fits(r)'
  <2>1. work'[r] = w /\ file'[r] = f
    BY <1>2, <1>4 DEF ControlInv, RequestTypes
  <2>2. work[r].via = "drop" /\ file[r].at \notin {"none", "drop"}
        /\ (Api!Result(r) = "ok" => work[r].ok /\ file[r].at = "done" /\ ran[r].drop = 1)
    BY <1>1 DEF Fits, StageOfDoorway, WaitingIsUntouched, SuccessIsRun, Api!Result
  <2> QED
    BY <1>1, <1>2, <1>3, <2>1, <2>2 DEF Fits, OneDoorway, StageOfDoorway, WaitingIsUntouched,
       UnderWayIsUnrun, SuccessIsRun
<1> QED BY <1>1, <1>5, <1>6, <1>7 DEF ControlInv

-----------------------------------------------------------------------------

LEMMA StepFits ==
  ASSUME Api!ControlAssumption, ControlInv, [Api!Next]_(Api!vars)
  PROVE  ControlInv'
<1>1. CASE UNCHANGED Api!vars
  <2>1. ServerTypes' /\ UNCHANGED <<caller, file, work, run, ran, drain>>
    BY <1>1 DEF Api!vars, Api!ui, Api!http, Api!drop, ControlInv, ServerTypes
  <2> QED BY <2>1, ServerFits
<1>2. CASE Api!Toggle \/ Api!Starts \/ Api!Exit \/ Api!Tick \/ Api!EndsPass
  BY <1>2, ToggleFits, StartsFits, ExitFits, PassFits
<1>3. ASSUME NEW c \in DOMAIN calls, Api!Applies(c) PROVE ControlInv'
  BY <1>3, HandleFits, ListensFits, PublishesFits, ClosesFits, RemovesFits,
     ReportsFits DEF Api!Applies
<1>4. ASSUME NEW r \in Requests, Api!Main(r) \/ Api!Renders(r) \/ Api!Script(r)
      PROVE  ControlInv'
  <2>1. CASE Api!Main(r)
    BY <2>1, AuthorisedFits, AdmitsFits, ReadsFits, TimesOutFits, RepliesFits, ClaimsFits, MovesFits,
       WritesResultFits, NextNameFits, AuditFits DEF Api!Main
  <2>2. CASE Api!Renders(r) \/ Api!Script(r)
    BY <2>2, TakesFits, FinishesFits, PostsFits, FallsBackFits, QueuesFits DEF Api!Renders,
       Api!Script
  <2> QED BY <1>4, <2>1, <2>2
<1> QED BY <1>1, <1>2, <1>3, <1>4 DEF Api!Next

\* The parts of a request that the script, the folder, the main process and the window
\* remember belong together, whichever of them dies.
THEOREM ControlInvHolds == ASSUME Api!ControlAssumption PROVE Api!Spec => []ControlInv
<1>1. Api!Init => ControlInv
  BY InitFits
<1>2. ControlInv /\ [Api!Next]_(Api!vars) => ControlInv'
  BY StepFits
<1> QED BY <1>1, <1>2, PTL DEF Api!Spec

\* A file dropped in the folder is carried out at most once (controlServer.ts, runDropped).
THEOREM DroppedRunsOnceHolds ==
  ASSUME Api!ControlAssumption
  PROVE  Api!Spec => []Api!DroppedRunsOnce
<1>1. ControlInv => Api!DroppedRunsOnce
  BY DEF ControlInv, Fits, SuccessIsRun, Api!DroppedRunsOnce
<1> QED BY <1>1, ControlInvHolds, PTL

\* A result file that reports success tells the truth (controlServer.ts, finish).
THEOREM ResultIsTrueHolds ==
  ASSUME Api!ControlAssumption
  PROVE  Api!Spec => []Api!ResultIsTrue
<1>1. ControlInv => Api!ResultIsTrue
  BY DEF ControlInv, Fits, SuccessIsRun, Api!ResultIsTrue
<1> QED BY <1>1, ControlInvHolds, PTL

-----------------------------------------------------------------------------
(* The control API: the calls and the audit log *)

Windows == {"none", "loading", "early", "up"}

\* What an endpoint file, if there is one, names is the number of one of the first n calls.
Names(f, n) == f = None \/ {f.port, f.token} \subseteq 0..n

CallsInv ==
  /\ known \in Switches /\ window \in Windows
  /\ {server, secret} \subseteq 0..Len(calls) /\ ports \subseteq DOMAIN calls
  /\ Names(endpoint, Len(calls)) /\ \A c \in DOMAIN calls : Names(calls[c].file, Len(calls))

\* Whose turn it is has read the whole log, and nobody else has.
AuditTurn ==
  /\ audits \in Seq(Requests) /\ held = [r \in Requests |-> held[r]]
  /\ \A r \in Requests : held[r] # None => Api!Turn(r) /\ held[r] = log

Record(r, ok) == [of |-> r, via |-> "http", granted |-> ok]

\* What is audited is in the log, and so is what has its answer, unless its entry failed.
InLog(r) ==
  \/ r \in unlogged
  \/ /\ work[r].via = "http" /\ work[r].at \in {"audited", "over"} => Record(r, work[r].ok) \in log
     /\ caller[r] \in {"done", "failed"} => Record(r, caller[r] = "done") \in log

AuditInv == AuditTurn /\ \A r \in Requests : InLog(r)

-----------------------------------------------------------------------------
LEMMA NamesMore ==
  ASSUME NEW n \in Nat, NEW m \in Nat, n <= m, NEW f, Names(f, n) PROVE Names(f, m)
BY DEF Names

\* Calls are added, and none is taken away.
LEMMA CallsGrow ==
  ASSUME ControlInv, CallsInv, ServerTypes', Len(calls) <= Len(calls'),
         \A c \in DOMAIN calls' :
           \/ c \in DOMAIN calls /\ calls'[c].file = calls[c].file
           \/ Names(calls'[c].file, Len(calls')),
         known' \in Switches, window' \in Windows, {server', secret'} \subseteq 0..Len(calls'),
         ports' \subseteq 1..Len(calls'), Names(endpoint', Len(calls'))
  PROVE  CallsInv'
<1>1. /\ Len(calls) \in Nat /\ Len(calls') \in Nat
      /\ DOMAIN calls = 1..Len(calls) /\ DOMAIN calls' = 1..Len(calls')
  BY DEF ControlInv, ServerTypes
<1>2. \A c \in DOMAIN calls' : Names(calls'[c].file, Len(calls'))
  <2> TAKE c \in DOMAIN calls'
  <2>1. CASE c \in DOMAIN calls /\ calls'[c].file = calls[c].file
    <3>1. Names(calls[c].file, Len(calls))
      BY <2>1 DEF CallsInv
    <3>2. Names(calls[c].file, Len(calls'))
      BY <3>1, <1>1, NamesMore
    <3> QED BY <2>1, <3>2
  <2> QED BY <2>1
<1> QED BY <1>1, <1>2 DEF CallsInv, Names

\* A call goes on.
LEMMA CallGoesOn ==
  ASSUME ControlInv, CallsInv, ServerTypes', Len(calls') = Len(calls),
         \A c \in DOMAIN calls' : c \in DOMAIN calls /\ calls'[c].file = calls[c].file,
         known' = known, window' = window, server' = server, secret' = secret, ports' = ports,
         Names(endpoint', Len(calls))
  PROVE  CallsInv'
<1>1. Len(calls) \in Nat /\ DOMAIN calls = 1..Len(calls)
  BY DEF ControlInv, ServerTypes
<1> QED BY <1>1, CallsGrow DEF CallsInv

LEMMA CallsRest ==
  ASSUME CallsInv, UNCHANGED <<calls, known, server, secret, ports, endpoint, window>>
  PROVE  CallsInv'
BY DEF CallsInv, Names

LEMMA ToKeepsFiles ==
  ASSUME ControlInv, NEW c \in DOMAIN calls, NEW at, Api!To(c, at)
  PROVE  /\ Len(calls') = Len(calls)
         /\ \A d \in DOMAIN calls' : d \in DOMAIN calls /\ calls'[d].file = calls[d].file
<1>1. calls \in Seq(CallsMade)
  BY DEF ControlInv, ServerTypes
<1>2. DOMAIN calls' = DOMAIN calls /\ Len(calls') = Len(calls)
  BY <1>1 DEF Api!To
<1>3. ASSUME NEW d \in DOMAIN calls PROVE calls'[d].file = calls[d].file
  <2>1. calls[d] \in CallsMade
    BY <1>1
  <2>2. [calls[d] EXCEPT !.at = at].file = calls[d].file
    BY <2>1 DEF CallsMade
  <2> QED BY <2>2 DEF Api!To
<1> QED BY <1>2, <1>3

LEMMA AppliedFiles ==
  ASSUME ControlInv, CallsInv, ServerTypes', NEW s, NEW n \in Nat, calls' = Api!Applied(s, n),
         UNCHANGED <<known, server, secret, ports, endpoint>>, window' \in Windows
  PROVE  CallsInv'
<1>1. calls \in Seq(CallsMade) /\ Len(calls) \in Nat
  BY DEF ControlInv, ServerTypes
<1> DEFINE new == [i \in 1..n |-> Api!Call(s)]
<1>2. new \in Seq({Api!Call(s)}) /\ Len(new) = n
  BY DEF new
<1>3. calls' = calls \o new
  BY DEF Api!Applied
<1> HIDE DEF new
<1> DEFINE S == CallsMade \cup {Api!Call(s)}
<1>4. calls \in Seq(S) /\ new \in Seq(S)
  BY <1>1, <1>2
<1>5. /\ Len(calls') = Len(calls) + n
      /\ \A i \in 1..Len(calls') :
           calls'[i] = IF i <= Len(calls) THEN calls[i] ELSE new[i - Len(calls)]
  <2> HIDE DEF S
  <2> QED BY <1>1, <1>2, <1>3, <1>4, ConcatProperties
<1>6. ASSUME NEW c \in DOMAIN calls'
      PROVE  \/ c \in DOMAIN calls /\ calls'[c].file = calls[c].file
             \/ Names(calls'[c].file, Len(calls'))
  <2>1. c \in 1..Len(calls')
    BY <1>6 DEF ServerTypes
  <2>2. CASE c <= Len(calls)
    BY <1>1, <1>5, <2>1, <2>2
  <2>3. CASE ~(c <= Len(calls))
    <3>1. c - Len(calls) \in 1..n
      BY <1>1, <1>5, <2>1, <2>3
    <3>2. new[c - Len(calls)] = Api!Call(s)
      BY <3>1 DEF new
    <3>3. calls'[c].file = None
      BY <3>2, <1>5, <2>1, <2>3 DEF Api!Call
    <3> QED BY <3>3 DEF Names
  <2> QED BY <2>2, <2>3
<1>7. Len(calls) <= Len(calls') /\ Len(calls') \in Nat /\ DOMAIN calls = 1..Len(calls)
  BY <1>1, <1>5
<1>8. Names(endpoint', Len(calls'))
  BY <1>1, <1>7, NamesMore DEF CallsInv
<1>9. {server', secret'} \subseteq 0..Len(calls') /\ ports' \subseteq 1..Len(calls')
      /\ known' \in Switches
  BY <1>1, <1>7 DEF CallsInv
<1> QED BY <1>6, <1>7, <1>8, <1>9, CallsGrow

LEMMA HandleCalls ==
  ASSUME ControlInv, CallsInv, ServerTypes', NEW c \in DOMAIN calls, Api!Handle(c)
  PROVE  CallsInv'
<1>1. /\ calls \in Seq(CallsMade) /\ calls[c] \in CallsMade /\ Len(calls) \in Nat
      /\ c \in 1..Len(calls) /\ DOMAIN calls = 1..Len(calls)
  BY DEF ControlInv, ServerTypes
<1>2. /\ Len(calls') = Len(calls)
      /\ \A d \in DOMAIN calls' : d \in DOMAIN calls /\ calls'[d].file = calls[d].file
  <2>1. CASE calls' = [calls EXCEPT ![c].at = "closing", ![c].stops = server]
    <3>1. DOMAIN calls' = DOMAIN calls /\ Len(calls') = Len(calls)
      BY <1>1, <2>1
    <3>2. ASSUME NEW d \in DOMAIN calls PROVE calls'[d].file = calls[d].file
      <4>1. CASE d = c
        <5>1. calls'[c].file = calls[c].file
          BY <1>1, <2>1 DEF CallsMade
        <5> QED BY <5>1, <4>1
      <4>2. CASE d # c
        BY <1>1, <2>1, <4>2
      <4> QED BY <4>1, <4>2
    <3> QED BY <3>1, <3>2
  <2>2. CASE Api!To(c, "listening")
    BY <2>2, ToKeepsFiles
  <2>3. CASE Api!To(c, "report")
    BY <2>3, ToKeepsFiles
  <2> QED BY <2>1, <2>2, <2>3 DEF Api!Handle
<1>3. {server', secret'} \subseteq 0..Len(calls) /\ ports' \subseteq 1..Len(calls)
  BY <1>1 DEF Api!Handle, CallsInv
<1>4. known' \in Switches
  BY <1>1 DEF Api!Handle, Api!Known, CallsMade, Switches
<1>5. Names(endpoint', Len(calls)) /\ window' \in Windows
  BY DEF Api!Handle, CallsInv, Api!ui
<1> QED BY <1>1, <1>2, <1>3, <1>4, <1>5, CallsGrow

LEMMA ListensCalls ==
  ASSUME ControlInv, CallsInv, ServerTypes', NEW c \in DOMAIN calls, Api!Listens(c)
  PROVE  CallsInv'
<1>1. /\ calls \in Seq(CallsMade) /\ calls[c] \in CallsMade /\ Len(calls) \in Nat
      /\ c \in 1..Len(calls) /\ DOMAIN calls = 1..Len(calls)
  BY DEF ControlInv, ServerTypes
<1> DEFINE f == [port |-> c, token |-> secret]
<1>2. calls' = [calls EXCEPT ![c].at = "publishing", ![c].file = f]
  BY DEF Api!Listens
<1>3. Names(f, Len(calls))
  BY <1>1 DEF Names, CallsInv
<1> HIDE DEF f
<1>4. DOMAIN calls' = DOMAIN calls /\ Len(calls') = Len(calls)
  BY <1>1, <1>2
<1>5. ASSUME NEW d \in DOMAIN calls
      PROVE  calls'[d].file = calls[d].file \/ Names(calls'[d].file, Len(calls'))
  <2>1. CASE d = c
    <3>1. calls'[c].file = f
      BY <1>1, <1>2 DEF CallsMade
    <3> QED BY <3>1, <2>1, <1>3, <1>4
  <2>2. CASE d # c
    BY <1>1, <1>2, <2>2
  <2> QED BY <2>1, <2>2
<1>6. /\ {server', secret'} \subseteq 0..Len(calls) /\ ports' \subseteq 1..Len(calls)
      /\ known' \in Switches /\ window' \in Windows /\ Names(endpoint', Len(calls))
  BY <1>1 DEF Api!Listens, CallsInv, Api!ui
<1> QED BY <1>1, <1>4, <1>5, <1>6, CallsGrow

LEMMA AppliesCalls ==
  ASSUME ControlInv, CallsInv, ServerTypes', NEW c \in DOMAIN calls, Api!Applies(c)
  PROVE  CallsInv'
<1>1. CASE Api!Publishes(c)
  <2>1. Names(endpoint', Len(calls)) /\ Api!To(c, "report")
    BY <1>1 DEF Api!Publishes, CallsInv
  <2> QED BY <1>1, <2>1, ToKeepsFiles, CallGoesOn DEF Api!Publishes, Api!ui
<1>2. CASE Api!Closes(c)
  <2>1. Names(endpoint', Len(calls)) /\ Api!To(c, "removing")
    BY <1>2 DEF Api!Closes, CallsInv
  <2> QED BY <1>2, <2>1, ToKeepsFiles, CallGoesOn DEF Api!Closes, Api!ui
<1>3. CASE Api!Removes(c)
  <2>1. Names(endpoint', Len(calls)) /\ Api!To(c, "report")
    BY <1>3 DEF Api!Removes, Names
  <2> QED BY <1>3, <2>1, ToKeepsFiles, CallGoesOn DEF Api!Removes, Api!ui
<1>4. CASE Api!Reports(c)
  <2>1. calls \in Seq(CallsMade) /\ calls[c] \in CallsMade
    BY DEF ControlInv, ServerTypes
  <2>2. calls' = [calls EXCEPT ![c].at = "done", ![c].told = old]
    BY <1>4 DEF Api!Reports
  <2>3. DOMAIN calls' = DOMAIN calls /\ Len(calls') = Len(calls)
    BY <2>1, <2>2
  <2>4. ASSUME NEW d \in DOMAIN calls PROVE calls'[d].file = calls[d].file
    <3>1. calls'[c].file = calls[c].file
      BY <2>1, <2>2 DEF CallsMade
    <3>2. d # c => calls'[d] = calls[d]
      BY <2>1, <2>2
    <3> QED BY <3>1, <3>2
  <2>5. Names(endpoint', Len(calls))
    BY <1>4 DEF Api!Reports, CallsInv
  <2> QED BY <1>4, <2>3, <2>4, <2>5, CallGoesOn DEF Api!Reports, Api!ui
<1> QED BY <1>1, <1>2, <1>3, <1>4, HandleCalls, ListensCalls DEF Api!Applies

LEMMA StartsCalls ==
  ASSUME ControlInv, CallsInv, ServerTypes', Api!Starts PROVE CallsInv'
<1>1. CASE Api!Launch \/ Api!WindowListens
  <2>1. UNCHANGED <<calls, known, server, secret, ports, endpoint>> /\ window' \in Windows
    BY <1>1 DEF Api!Launch, Api!WindowListens, Api!http, Windows
  <2> QED BY <2>1 DEF CallsInv, Names
<1>2. CASE Api!WindowReady
  <2>1. window' \in Windows
    BY <1>2 DEF Api!WindowReady, Windows
  <2> QED BY <1>2, <2>1, AppliedFiles DEF Api!WindowReady
<1> QED BY <1>1, <1>2 DEF Api!Starts

LEMMA ExitCalls ==
  ASSUME ControlInv, CallsInv, ServerTypes', Api!Exit PROVE CallsInv'
<1>1. calls \in Seq(CallsMade) /\ Len(calls) \in Nat /\ DOMAIN calls = 1..Len(calls)
  BY DEF ControlInv, ServerTypes
<1>2. calls' = [c \in DOMAIN calls |-> [calls[c] EXCEPT !.at = "done"]]
  BY DEF Api!Exit
<1>3. DOMAIN calls' = DOMAIN calls /\ Len(calls') = Len(calls)
  BY <1>1, <1>2
<1>4. ASSUME NEW c \in DOMAIN calls PROVE calls'[c].file = calls[c].file
  <2>1. calls[c] \in CallsMade
    BY <1>1
  <2> QED BY <2>1, <1>2 DEF CallsMade
<1>5. /\ known' \in Switches /\ server' = 0 /\ secret' = 0 /\ ports' = {} /\ window' \in Windows
      /\ Names(endpoint', Len(calls))
  BY DEF Api!Exit, Api!Off, Switches, Windows, CallsInv, Names
<1> QED BY <1>1, <1>3, <1>4, <1>5, CallsGrow

LEMMA StepCalls ==
  ASSUME Api!ControlAssumption, ControlInv, CallsInv, [Api!Next]_(Api!vars)
  PROVE  CallsInv'
<1>a. ServerTypes'
  BY StepFits DEF ControlInv
<1>1. CASE Api!Toggle
  <2>1. window' \in Windows /\ Callers \in Nat
    BY <1>1 DEF Api!Toggle, CallsInv, Api!ControlAssumption
  <2> QED BY <1>1, <1>a, <2>1, AppliedFiles DEF Api!Toggle
<1>2. CASE UNCHANGED <<calls, known, server, secret, ports, endpoint, window>>
  BY <1>2, CallsRest
<1>3. CASE UNCHANGED Api!vars
  BY <1>3, <1>2 DEF Api!vars, Api!http, Api!ui
<1>4. CASE Api!Tick \/ Api!EndsPass
  BY <1>4, <1>2 DEF Api!Tick, Api!EndsPass, Api!http, Api!ui
<1>5. ASSUME NEW r \in Requests, Api!Main(r) PROVE CallsInv'
  BY <1>5, <1>2 DEF Api!Main, Api!Audits, Api!Authorised, Api!AuditFails, Api!Admits,
     Api!Reads, Api!TimesOut, Api!Replies, Api!Claims, Api!Moves, Api!WritesResult, Api!NextName, Api!Records,
     Api!AuditReads, Api!AuditWrites, Api!http, Api!ui
<1>6. ASSUME NEW r \in Requests, Api!Renders(r) \/ Api!Script(r) PROVE CallsInv'
  BY <1>6, <1>2 DEF Api!Renders, Api!Takes, Api!Finishes, Api!Script, Api!Posts,
     Api!FallsBack, Api!Queues, Api!http, Api!ui
<1> QED
  BY <1>a, <1>1, <1>3, <1>4, <1>5, <1>6, AppliesCalls, StartsCalls, ExitCalls DEF Api!Next

-----------------------------------------------------------------------------
\* Neither the log nor the queue moves: it is about one request, of which the record may change.
LEMMA LogRests ==
  ASSUME AuditInv, NEW r \in Requests, UNCHANGED <<audits, held, log, unlogged>>,
         \A q \in Requests \ {r} : work'[q] = work[q] /\ caller'[q] = caller[q],
         InLog(r)'
  PROVE  AuditInv'
<1>1. AuditTurn'
  BY DEF AuditInv, AuditTurn, Api!Turn
<1>2. ASSUME NEW q \in Requests, q # r PROVE InLog(q)'
  BY <1>2 DEF AuditInv, InLog
<1> QED BY <1>1, <1>2 DEF AuditInv

LEMMA AllRests ==
  ASSUME AuditInv, UNCHANGED <<audits, held, log, unlogged, work, caller>> PROVE AuditInv'
BY DEF AuditInv, AuditTurn, InLog, Api!Turn

\* A record at a stage before its entry is written, or that has kept what the entry says.
LEMMA RecordMoves ==
  ASSUME AuditInv, RequestTypes, NEW r \in Requests, NEW w, work' = [work EXCEPT ![r] = w],
         UNCHANGED <<audits, held, log, unlogged, caller>>,
         w.via = "http" => w.at \notin {"audited", "over"}
  PROVE  AuditInv'
<1>1. work'[r] = w /\ \A q \in Requests \ {r} : work'[q] = work[q]
  BY DEF RequestTypes
<1>2. InLog(r)'
  BY <1>1 DEF AuditInv, InLog
<1> QED BY <1>1, <1>2, LogRests

LEMMA AskAudit ==
  ASSUME AuditInv, RequestTypes, NEW r \in Requests, NEW at \in Stages, Api!Ask(r, at),
         UNCHANGED <<audits, held, log, unlogged, caller>>,
         work[r].via = "http" => at \notin {"audited", "over"}
  PROVE  AuditInv'
<1>1. PICK w \in Works : work' = [work EXCEPT ![r] = w] /\ w.via = work[r].via /\ w.at = at
  BY AskStep
<1> QED BY <1>1, RecordMoves

LEMMA AnswerAudit ==
  ASSUME AuditInv, RequestTypes, NEW r \in Requests, NEW ok, Api!Answer(r, ok),
         UNCHANGED <<audits, held, log, unlogged, caller>>
  PROVE  AuditInv'
<1>1. work[r] \in Works
  BY DEF RequestTypes
<1> DEFINE w == [work[r] EXCEPT !.at = "answered", !.ok = ok]
<1>2. w.at = "answered" /\ work' = [work EXCEPT ![r] = w]
  BY <1>1 DEF Api!Answer, Works
<1> HIDE DEF w
<1> QED BY <1>2, RecordMoves

LEMMA ExecuteAudit ==
  ASSUME AuditInv, RequestTypes, NEW r \in Requests,
         Api!Execute(r) \/ Api!Answer(r, FALSE), UNCHANGED <<audits, held, log, unlogged, caller>>
  PROVE  AuditInv'
<1>1. CASE Api!Execute(r)
  <2>1. Api!Ask(r, "pending") /\ "pending" \in Stages
    BY <1>1 DEF Api!Execute
  <2> QED BY <2>1, AskAudit
<1>2. CASE Api!Answer(r, FALSE)
  BY <1>2, AnswerAudit
<1> QED BY <1>1, <1>2

LEMMA RespondAudit ==
  ASSUME AuditInv, RequestTypes, NEW r \in Requests, NEW ok,
         Api!Respond(r, ok) \/ UNCHANGED work, UNCHANGED <<audits, held, log, unlogged, caller>>
  PROVE  AuditInv'
BY AnswerAudit, AllRests DEF Api!Respond

LEMMA WindowAudit ==
  ASSUME ControlInv, AuditInv, NEW r \in Requests, Api!Renders(r) PROVE AuditInv'
<1>1. CASE Api!Takes(r)
  BY <1>1, RespondAudit DEF Api!Takes, ControlInv, Api!audit
<1>2. CASE Api!Finishes(r)
  BY <1>2, RespondAudit DEF Api!Finishes, ControlInv, Api!audit
<1> QED BY <1>1, <1>2 DEF Api!Renders

LEMMA ScriptAudit ==
  ASSUME ControlInv, AuditInv, NEW r \in Requests, Api!Script(r) PROVE AuditInv'
<1>a. RequestTypes
  BY DEF ControlInv
<1>1. CASE Api!Posts(r)
  <2>1. caller' = [caller EXCEPT ![r] = "http"] /\ UNCHANGED <<audits, held, log, unlogged>>
        /\ work' = [work EXCEPT ![r] = [via |-> "http", at |-> "arrived", key |-> endpoint.token,
                                        port |-> endpoint.port, ok |-> FALSE]]
    BY <1>1 DEF Api!Posts, Api!audit
  <2>2. /\ caller'[r] = "http" /\ work'[r].at = "arrived"
        /\ \A q \in Requests \ {r} : work'[q] = work[q] /\ caller'[q] = caller[q]
    BY <1>a, <2>1 DEF RequestTypes
  <2>3. InLog(r)'
    BY <2>2 DEF InLog
  <2> QED BY <2>1, <2>2, <2>3, LogRests
<1>2. ASSUME NEW c \in {"writing", "queued"}, caller' = [caller EXCEPT ![r] = c],
             UNCHANGED <<work, audits, held, log, unlogged>>
      PROVE  AuditInv'
  <2>1. caller'[r] = c /\ \A q \in Requests \ {r} : caller'[q] = caller[q]
    BY <1>a, <1>2 DEF RequestTypes
  <2>2. InLog(r)'
    BY <1>2, <2>1 DEF InLog, AuditInv
  <2> QED BY <1>2, <2>1, <2>2, LogRests
<1>3. CASE Api!FallsBack(r)
  BY <1>3, <1>2 DEF Api!FallsBack, Api!audit
<1>4. CASE Api!Queues(r)
  BY <1>4, <1>2 DEF Api!Queues, Api!audit
<1> QED BY <1>1, <1>3, <1>4 DEF Api!Script

\* The caller gets the answer that was recorded.
LEMMA RepliesAudit ==
  ASSUME ControlInv, AuditInv, NEW r \in Requests, Api!Replies(r) PROVE AuditInv'
<1>1. PICK w \in Works : /\ work' = [work EXCEPT ![r] = w] /\ w.via = work[r].via
                         /\ w.at = "over" /\ w.ok = work[r].ok
  BY AskStep DEF Api!Replies, ControlInv
<1>2. /\ caller' = [caller EXCEPT ![r] = IF work[r].ok THEN "done" ELSE "failed"]
      /\ work[r].via = "http" /\ work[r].at = "audited" /\ UNCHANGED <<audits, held, log, unlogged>>
  BY DEF Api!Replies, Api!audit
<1>3. /\ work'[r] = w /\ caller'[r] = IF work[r].ok THEN "done" ELSE "failed"
      /\ \A q \in Requests \ {r} : work'[q] = work[q] /\ caller'[q] = caller[q]
      /\ work[r].ok \in BOOLEAN
  BY <1>1, <1>2 DEF ControlInv, RequestTypes, Works
<1>4. r \in unlogged \/ Record(r, work[r].ok) \in log
  BY <1>2 DEF AuditInv, InLog
<1>5. (caller'[r] = "done") = work[r].ok
  BY <1>3
<1>6. InLog(r)'
  BY <1>1, <1>2, <1>3, <1>4, <1>5 DEF InLog
<1> QED BY <1>2, <1>3, <1>6, LogRests

LEMMA RecordsAudit ==
  ASSUME ControlInv, AuditInv, NEW r \in Requests, Api!Records(r) PROVE AuditInv'
<1>1. PICK w \in Works : /\ work' = [work EXCEPT ![r] = w] /\ w.at = "auditing"
  BY AskStep DEF Api!Records, ControlInv
<1>2. audits' = Append(audits, r) /\ UNCHANGED <<held, log, unlogged, caller>>
  BY DEF Api!Records
<1>3. audits' \in Seq(Requests) /\ (audits # <<>> => audits' # <<>> /\ Head(audits') = Head(audits))
  <2>1. audits \in Seq(Requests)
    BY DEF AuditInv, AuditTurn
  <2> QED BY <2>1, <1>2
<1>4. AuditTurn'
  BY <1>2, <1>3 DEF AuditInv, AuditTurn, Api!Turn
<1>5. \A q \in Requests : InLog(q)'
  <2> TAKE q \in Requests
  <2>1. work'[q] = IF q = r THEN w ELSE work[q]
    BY <1>1 DEF ControlInv, RequestTypes
  <2> QED BY <1>1, <1>2, <2>1 DEF AuditInv, InLog
<1> QED BY <1>4, <1>5 DEF AuditInv

LEMMA AuditReadsAudit ==
  ASSUME ControlInv, AuditInv, NEW r \in Requests, Api!AuditReads(r) PROVE AuditInv'
<1>1. held' = [held EXCEPT ![r] = log] /\ Api!Turn(r)
      /\ UNCHANGED <<audits, log, unlogged, work, caller>>
  BY DEF Api!AuditReads
<1>2. AuditTurn'
  <2>1. held' = [q \in Requests |-> held'[q]]
    BY <1>1 DEF AuditInv, AuditTurn
  <2>2. ASSUME NEW q \in Requests, held'[q] # None PROVE Api!Turn(q)' /\ held'[q] = log'
    <3>1. CASE q = r
      BY <1>1, <3>1 DEF AuditInv, AuditTurn, Api!Turn
    <3>2. CASE q # r
      <4>1. held'[q] = held[q]
        BY <1>1, <3>2 DEF AuditInv, AuditTurn
      <4> QED BY <1>1, <2>2, <4>1 DEF AuditInv, AuditTurn, Api!Turn
    <3> QED BY <3>1, <3>2
  <2> QED BY <1>1, <2>1, <2>2 DEF AuditInv, AuditTurn
<1>3. \A q \in Requests : InLog(q)'
  BY <1>1 DEF AuditInv, InLog
<1> QED BY <1>2, <1>3 DEF AuditInv

\* What is written is what was read, which is the whole log, and the entry.
LEMMA AuditWritesAudit ==
  ASSUME ControlInv, AuditInv, NEW r \in Requests, Api!AuditWrites(r) PROVE AuditInv'
<1>1. PICK w \in Works : /\ work' = [work EXCEPT ![r] = w] /\ w.via = work[r].via
                         /\ w.at = "audited" /\ w.ok = work[r].ok
  BY AskStep DEF Api!AuditWrites, ControlInv
<1>2. /\ held' = [held EXCEPT ![r] = None] /\ audits' = Tail(audits) /\ held[r] # None
      /\ log' = held[r] \cup {[of |-> r, via |-> work[r].via, granted |-> work[r].ok]}
      /\ UNCHANGED <<caller, unlogged>>
  BY DEF Api!AuditWrites
<1>3. Api!Turn(r) /\ held[r] = log /\ audits \in Seq(Requests) /\ audits # <<>>
  BY <1>2 DEF AuditInv, AuditTurn, Api!Turn
<1>4. log \subseteq log' /\ (work[r].via = "http" => Record(r, work[r].ok) \in log')
  BY <1>2, <1>3 DEF Record
<1>5. AuditTurn'
  <2>1. audits' \in Seq(Requests)
    BY <1>2, <1>3
  <2>2. held' = [q \in Requests |-> held'[q]]
    BY <1>2 DEF AuditInv, AuditTurn
  <2>3. \A q \in Requests : held'[q] = None
    <3> TAKE q \in Requests
    <3>1. q # r => held[q] = None
      BY <1>3 DEF AuditInv, AuditTurn, Api!Turn
    <3> QED BY <1>2, <3>1 DEF AuditInv, AuditTurn
  <2> QED BY <2>1, <2>2, <2>3 DEF AuditTurn
<1>6. \A q \in Requests : InLog(q)'
  <2> TAKE q \in Requests
  <2>1. work'[q] = IF q = r THEN w ELSE work[q]
    BY <1>1 DEF ControlInv, RequestTypes
  <2>2. InLog(q)
    BY DEF AuditInv
  <2>3. CASE q = r
    BY <1>1, <1>2, <1>4, <2>1, <2>2, <2>3 DEF InLog
  <2>4. CASE q # r
    BY <1>2, <1>4, <2>1, <2>2, <2>4 DEF InLog
  <2> QED BY <2>3, <2>4
<1> QED BY <1>5, <1>6 DEF AuditInv

\* An entry that can not be written leaves the log as it was, and those that wait to their turn.
LEMMA AuditFailsAudit ==
  ASSUME ControlInv, AuditInv, NEW r \in Requests, Api!AuditFails(r) PROVE AuditInv'
<1>1. PICK w \in Works : work' = [work EXCEPT ![r] = w]
  BY AskStep DEF Api!AuditFails, ControlInv
<1>2. /\ held' = [held EXCEPT ![r] = None] /\ audits' = Tail(audits) /\ Api!Turn(r)
      /\ unlogged' = unlogged \cup {r} /\ UNCHANGED <<caller, log>>
  BY DEF Api!AuditFails
<1>3. audits \in Seq(Requests) /\ audits # <<>>
  BY <1>2 DEF AuditInv, AuditTurn, Api!Turn
<1>4. AuditTurn'
  <2>1. audits' \in Seq(Requests)
    BY <1>2, <1>3
  <2>2. held' = [q \in Requests |-> held'[q]]
    BY <1>2 DEF AuditInv, AuditTurn
  <2>3. \A q \in Requests : held'[q] = None
    <3> TAKE q \in Requests
    <3>1. q # r => held[q] = None
      BY <1>2 DEF AuditInv, AuditTurn, Api!Turn
    <3> QED BY <1>2, <3>1 DEF AuditInv, AuditTurn
  <2> QED BY <2>1, <2>2, <2>3 DEF AuditTurn
<1>5. \A q \in Requests : InLog(q)'
  <2> TAKE q \in Requests
  <2>1. q # r => work'[q] = work[q]
    BY <1>1 DEF ControlInv, RequestTypes
  <2> QED BY <1>2, <2>1 DEF AuditInv, InLog
<1> QED BY <1>4, <1>5 DEF AuditInv

LEMMA MainAudit ==
  ASSUME ControlInv, AuditInv, NEW r \in Requests, Api!Main(r) PROVE AuditInv'
<1>a. RequestTypes /\ Fits(r) /\ {"authorised", "moved", "reported", "over"} \subseteq Stages
  BY DEF ControlInv
<1>0. CASE Api!Authorised(r)
  BY <1>0, <1>a, AskAudit, AnswerAudit DEF Api!Authorised, Api!audit
<1>1. CASE Api!Admits(r) \/ Api!Reads(r)
  BY <1>1, <1>a, ExecuteAudit DEF Api!Admits, Api!Reads, Api!audit
<1>2. CASE Api!TimesOut(r)
  BY <1>2, <1>a, AnswerAudit DEF Api!TimesOut, Api!audit
<1>3. CASE Api!Claims(r)
  <2>1. CASE UNCHANGED work
    BY <1>3, <2>1, AllRests DEF Api!Claims, Api!audit
  <2>2. CASE work' = [work EXCEPT ![r] = [Api!NoWork EXCEPT !.at = "claimed"]]
    <3>1. [Api!NoWork EXCEPT !.at = "claimed"].at = "claimed"
      BY DEF Api!NoWork
    <3> QED BY <1>3, <1>a, <2>2, <3>1, RecordMoves DEF Api!Claims, Api!audit
  <2> QED BY <1>3, <2>1, <2>2 DEF Api!Claims
<1>4. CASE Api!Moves(r)
  <2>1. CASE Api!Ask(r, "moved")
    BY <1>4, <1>a, <2>1, AskAudit DEF Api!Moves, Api!audit
  <2>2. CASE work' = [work EXCEPT ![r].at = "moved", ![r].ok = FALSE]
    <3> DEFINE w == [work[r] EXCEPT !.at = "moved", !.ok = FALSE]
    <3>0. work \in [Requests -> Works] /\ work[r] \in Works
      BY <1>a DEF RequestTypes
    <3>2. w.at = "moved"
      BY <3>0 DEF Works
    <3>3. work' = [work EXCEPT ![r] = w]
      BY <3>0, <2>2
    <3>1. w.at = "moved" /\ work' = [work EXCEPT ![r] = w]
      BY <3>2, <3>3
    <3> HIDE DEF w
    <3> QED BY <1>4, <1>a, <3>1, RecordMoves DEF Api!Moves, Api!audit
  <2> QED BY <1>4, <2>1, <2>2 DEF Api!Moves
<1>5. CASE Api!WritesResult(r)
  BY <1>5, <1>a, AskAudit DEF Api!WritesResult, Api!audit
<1>6. CASE Api!NextName(r)
  <2>1. /\ Api!Ask(r, "over") /\ work[r].at = "audited"
        /\ UNCHANGED <<audits, held, log, unlogged, caller>>
    BY <1>6 DEF Api!NextName, Api!audit
  <2>2. PICK w \in Works : /\ work' = [work EXCEPT ![r] = w] /\ w.via = work[r].via
                           /\ w.at = "over" /\ w.ok = work[r].ok
    BY <1>a, <2>1, AskStep
  <2>3. work'[r] = w /\ \A q \in Requests \ {r} : work'[q] = work[q]
    BY <1>a, <2>2 DEF RequestTypes
  <2>4. InLog(r)'
    BY <2>1, <2>2, <2>3 DEF AuditInv, InLog
  <2> QED BY <2>1, <2>3, <2>4, LogRests
<1> QED
  BY <1>0, <1>1, <1>2, <1>3, <1>4, <1>5, <1>6, RepliesAudit, RecordsAudit, AuditReadsAudit,
     AuditWritesAudit, AuditFailsAudit
  DEF Api!Main, Api!Audits

LEMMA ExitAudit == ASSUME ControlInv, AuditInv, Api!Exit PROVE AuditInv'
<1>1. /\ audits' = <<>> /\ held' = [r \in Requests |-> None] /\ UNCHANGED <<log, unlogged>>
      /\ work' = [r \in Requests |-> Api!NoWork]
      /\ caller' = [r \in Requests |-> IF caller[r] = "http" THEN "lost" ELSE caller[r]]
  BY DEF Api!Exit
<1>2. AuditTurn'
  BY <1>1 DEF AuditTurn
<1>3. ASSUME NEW r \in Requests PROVE InLog(r)'
  <2>1. work'[r].via = "drop" /\ caller'[r] = (IF caller[r] = "http" THEN "lost" ELSE caller[r])
    BY <1>1 DEF Api!NoWork
  <2>2. InLog(r)
    BY DEF AuditInv
  <2> QED BY <1>1, <2>1, <2>2 DEF InLog
<1> QED BY <1>2, <1>3 DEF AuditInv

LEMMA StepAudit ==
  ASSUME ControlInv, AuditInv, [Api!Next]_(Api!vars) PROVE AuditInv'
<1>1. CASE UNCHANGED Api!vars
  BY <1>1, AllRests DEF Api!vars, Api!audit
<1>2. CASE Api!Toggle \/ Api!Starts \/ Api!Tick \/ Api!EndsPass
  BY <1>2, AllRests DEF Api!Toggle, Api!Starts, Api!Launch, Api!WindowListens,
     Api!WindowReady, Api!Tick, Api!EndsPass, Api!audit
<1>3. ASSUME NEW c \in DOMAIN calls, Api!Applies(c) PROVE AuditInv'
  BY <1>3, AllRests DEF Api!Applies, Api!Handle, Api!Listens, Api!Publishes,
     Api!Closes, Api!Removes, Api!Reports, Api!audit
<1> QED BY <1>1, <1>2, <1>3, ExitAudit, MainAudit, WindowAudit, ScriptAudit DEF Api!Next

-----------------------------------------------------------------------------
\* The calls are handled in the order they were made in; the last one carries the switches of the
\* window that made it, and once it is handled the main process has them.
SwitchesInv ==
  /\ \A c, d \in DOMAIN calls : c <= d /\ calls[c].at = "sent" => calls[d].at = "sent"
  /\ window = "up" => calls # <<>> /\ Api!Known(Len(calls)) = settings
  /\ window = "up" /\ calls[Len(calls)].at # "sent" => known = settings

LEMMA SwitchesRest ==
  ASSUME SwitchesInv, UNCHANGED <<calls, known, settings, window>> PROVE SwitchesInv'
BY DEF SwitchesInv, Api!Known

\* A call that was handled goes on.
LEMMA GoesOnSwitches ==
  ASSUME ControlInv, SwitchesInv, NEW c \in DOMAIN calls, calls[c].at # "sent",
         DOMAIN calls' = DOMAIN calls, Len(calls') = Len(calls),
         \A d \in DOMAIN calls : d # c => calls'[d] = calls[d],
         calls'[c].at # "sent", calls'[c].on = calls[c].on, calls'[c].send = calls[c].send,
         UNCHANGED <<known, settings, window>>
  PROVE  SwitchesInv'
<1>1. /\ Len(calls) \in Nat /\ DOMAIN calls = 1..Len(calls)
      /\ calls # <<>> => Len(calls) \in DOMAIN calls
  BY DEF ControlInv, ServerTypes
<1>2. ASSUME NEW b \in DOMAIN calls, NEW d \in DOMAIN calls, b <= d, calls'[b].at = "sent"
      PROVE  calls'[d].at = "sent"
  BY <1>2 DEF SwitchesInv
<1>3. ASSUME window = "up"
      PROVE  calls' # <<>> /\ Api!Known(Len(calls))' = settings
  <2>1. Len(calls) \in DOMAIN calls /\ Api!Known(Len(calls)) = settings
    BY <1>1, <1>3 DEF SwitchesInv
  <2>2. /\ calls'[Len(calls)].on = calls[Len(calls)].on
        /\ calls'[Len(calls)].send = calls[Len(calls)].send
    BY <2>1
  <2>3. calls' # <<>>
    BY <2>1
  <2> QED BY <2>1, <2>2, <2>3 DEF Api!Known
<1>4. ASSUME window = "up", calls'[Len(calls)].at # "sent" PROVE known = settings
  BY <1>1, <1>4 DEF SwitchesInv
<1> QED BY <1>2, <1>3, <1>4 DEF SwitchesInv

LEMMA ToSwitches ==
  ASSUME ControlInv, SwitchesInv, NEW c \in DOMAIN calls, calls[c].at # "sent",
         NEW at, at # "sent", Api!To(c, at), UNCHANGED <<known, settings, window>>
  PROVE  SwitchesInv'
<1>1. calls \in Seq(CallsMade) /\ calls[c] \in CallsMade
  BY DEF ControlInv, ServerTypes
<1>2. /\ DOMAIN calls' = DOMAIN calls /\ Len(calls') = Len(calls)
      /\ \A d \in DOMAIN calls : d # c => calls'[d] = calls[d]
  BY <1>1 DEF Api!To
<1>3. calls'[c].at = at /\ calls'[c].on = calls[c].on /\ calls'[c].send = calls[c].send
  BY <1>1 DEF Api!To, CallsMade
<1> QED BY <1>2, <1>3, GoesOnSwitches

\* The first call that was not handled is: if it is the last one, its switches are the window's.
LEMMA HandleSwitches ==
  ASSUME ControlInv, SwitchesInv, NEW c \in DOMAIN calls, Api!Handle(c) PROVE SwitchesInv'
<1>1. /\ calls \in Seq(CallsMade) /\ calls[c] \in CallsMade
      /\ Len(calls) \in Nat /\ DOMAIN calls = 1..Len(calls)
  BY DEF ControlInv, ServerTypes
<1>2. /\ calls[c].at = "sent" /\ known' = Api!Known(c) /\ UNCHANGED <<settings, window>>
      /\ \A d \in 1..(c - 1) : calls[d].at # "sent"
  BY DEF Api!Handle, Api!ui
<1>3. /\ DOMAIN calls' = DOMAIN calls /\ Len(calls') = Len(calls)
      /\ \A d \in DOMAIN calls : d # c => calls'[d] = calls[d]
  BY <1>1 DEF Api!Handle, Api!To
<1>4. calls'[c].at # "sent" /\ calls'[c].on = calls[c].on /\ calls'[c].send = calls[c].send
  BY <1>1 DEF Api!Handle, Api!To, CallsMade
<1>5. ASSUME NEW b \in DOMAIN calls, NEW d \in DOMAIN calls, b <= d, calls'[b].at = "sent"
      PROVE  calls'[d].at = "sent"
  <2>1. b # c /\ calls[b].at = "sent" /\ calls[d].at = "sent"
    BY <1>3, <1>4, <1>5 DEF SwitchesInv
  <2>2. d # c
    <3>1. ASSUME d = c PROVE b \in 1..(c - 1)
      BY <1>1, <1>5, <2>1, <3>1
    <3> QED BY <1>2, <2>1, <3>1
  <2> QED BY <1>3, <2>1, <2>2
<1>6. ASSUME window = "up"
      PROVE  /\ calls' # <<>> /\ Api!Known(Len(calls))' = settings
             /\ calls'[Len(calls)].at # "sent" => known' = settings
  <2>1. Len(calls) \in DOMAIN calls /\ Api!Known(Len(calls)) = settings /\ c <= Len(calls)
    BY <1>1, <1>6 DEF SwitchesInv
  <2>2. /\ calls'[Len(calls)].on = calls[Len(calls)].on
        /\ calls'[Len(calls)].send = calls[Len(calls)].send
    BY <1>3, <1>4, <2>1
  <2>3. calls[Len(calls)].at = "sent"
    BY <1>2, <2>1 DEF SwitchesInv
  <2>4. calls'[Len(calls)].at # "sent" => Len(calls) = c
    BY <1>3, <2>1, <2>3
  <2>5. calls' # <<>>
    BY <1>3, <2>1
  <2>6. Api!Known(Len(calls))' = settings
    <3>1. Len(calls)' = Len(calls)
      BY <1>3
    <3> QED BY <2>1, <2>2, <3>1 DEF Api!Known
  <2> QED BY <1>2, <2>1, <2>4, <2>5, <2>6
<1> QED BY <1>2, <1>3, <1>5, <1>6 DEF SwitchesInv

LEMMA AppliesSwitches ==
  ASSUME ControlInv, SwitchesInv, NEW c \in DOMAIN calls, Api!Applies(c) PROVE SwitchesInv'
<1>1. calls \in Seq(CallsMade) /\ calls[c] \in CallsMade
  BY DEF ControlInv, ServerTypes
<1>2. CASE Api!Publishes(c) \/ Api!Closes(c) \/ Api!Removes(c)
  BY <1>2, ToSwitches DEF Api!Publishes, Api!Closes, Api!Removes, Api!ui
<1>3. CASE Api!Listens(c) \/ Api!Reports(c)
  <2>1. calls[c].at # "sent" /\ UNCHANGED <<known, settings, window>>
    BY <1>3 DEF Api!Listens, Api!Reports, Api!ui
  <2>2. /\ DOMAIN calls' = DOMAIN calls /\ Len(calls') = Len(calls)
        /\ \A d \in DOMAIN calls : d # c => calls'[d] = calls[d]
    BY <1>1, <1>3 DEF Api!Listens, Api!Reports
  <2>3. calls'[c].at # "sent" /\ calls'[c].on = calls[c].on /\ calls'[c].send = calls[c].send
    BY <1>1, <1>3 DEF Api!Listens, Api!Reports, CallsMade
  <2> QED BY <2>1, <2>2, <2>3, GoesOnSwitches
<1> QED BY <1>2, <1>3, HandleSwitches DEF Api!Applies

\* Calls are made with the switches as the window has them.
LEMMA AppliedSwitches ==
  ASSUME ControlInv, SwitchesInv, settings' \in Switches, NEW n \in Nat \ {0},
         calls' = Api!Applied(settings', n)
  PROVE  SwitchesInv'
<1>1. calls \in Seq(CallsMade) /\ Len(calls) \in Nat /\ DOMAIN calls = 1..Len(calls)
  BY DEF ControlInv, ServerTypes
<1> DEFINE one == Api!Call(settings')
           new == [i \in 1..n |-> one]
           S   == CallsMade \cup {one}
<1>2. one.at = "sent" /\ [on |-> one.on, send |-> one.send] = settings'
  BY DEF Api!Call, Switches
<1>3. calls' = calls \o new
  BY DEF Api!Applied
<1> HIDE DEF one
<1>4. new \in Seq({one}) /\ Len(new) = n /\ \A i \in 1..n : new[i] = one
  OBVIOUS
<1> HIDE DEF new
<1>5. calls \in Seq(S) /\ new \in Seq(S)
  BY <1>1, <1>4
<1>6. /\ Len(calls') = Len(calls) + n /\ DOMAIN calls' = 1..(Len(calls) + n)
      /\ \A i \in 1..(Len(calls) + n) :
           calls'[i] = IF i <= Len(calls) THEN calls[i] ELSE new[i - Len(calls)]
  <2> HIDE DEF S
  <2>1. /\ calls \o new \in Seq(S) /\ Len(calls \o new) = Len(calls) + Len(new)
        /\ \A i \in 1..(Len(calls) + Len(new)) :
             (calls \o new)[i] = IF i <= Len(calls) THEN calls[i] ELSE new[i - Len(calls)]
    BY <1>5, ConcatProperties
  <2>2. calls' \in Seq(S) /\ Len(calls') = Len(calls) + n
    BY <1>3, <1>4, <2>1
  <2> QED BY <1>3, <1>4, <2>1, <2>2
<1>7. ASSUME NEW c \in 1..(Len(calls) + n), c > Len(calls) PROVE calls'[c] = one
  <2>1. c - Len(calls) \in 1..n /\ ~(c <= Len(calls))
    BY <1>1, <1>7
  <2> QED BY <1>4, <1>6, <2>1
<1>8. ASSUME NEW b \in DOMAIN calls', NEW d \in DOMAIN calls', b <= d, calls'[b].at = "sent"
      PROVE  calls'[d].at = "sent"
  <2>0. b \in 1..(Len(calls) + n) /\ d \in 1..(Len(calls) + n)
    BY <1>6
  <2>1. CASE d > Len(calls)
    BY <1>2, <1>7, <2>0, <2>1
  <2>2. CASE d <= Len(calls)
    <3>1. b \in DOMAIN calls /\ d \in DOMAIN calls
      BY <1>1, <1>8, <2>0, <2>2
    <3>2. calls'[b] = calls[b] /\ calls'[d] = calls[d]
      BY <1>1, <1>6, <2>0, <3>1
    <3> QED BY <1>8, <3>1, <3>2 DEF SwitchesInv
  <2> QED BY <1>1, <2>0, <2>1, <2>2
<1>9. calls'[Len(calls')] = one /\ calls' # <<>>
  <2>1. Len(calls') \in 1..(Len(calls) + n) /\ Len(calls') > Len(calls)
    BY <1>1, <1>6
  <2> QED BY <1>6, <1>7, <2>1
<1>10. Api!Known(Len(calls))' = settings'
  BY <1>2, <1>9 DEF Api!Known
<1> QED BY <1>2, <1>8, <1>9, <1>10 DEF SwitchesInv

LEMMA StepSwitches ==
  ASSUME Api!ControlAssumption, ControlInv, SwitchesInv, [Api!Next]_(Api!vars)
  PROVE  SwitchesInv'
<1>a. settings \in Switches /\ settings' \in Switches
  BY StepFits DEF ControlInv, ServerTypes
<1>1. CASE Api!Toggle
  BY <1>1, <1>a, AppliedSwitches DEF Api!Toggle, Api!ControlAssumption
<1>2. CASE Api!Launch \/ Api!WindowListens
  BY <1>2 DEF Api!Launch, Api!WindowListens, Api!http, SwitchesInv
<1>3. CASE Api!WindowReady
  BY <1>3, <1>a, AppliedSwitches DEF Api!WindowReady
<1>4. CASE Api!Exit
  <2>1. calls \in Seq(CallsMade)
    BY DEF ControlInv, ServerTypes
  <2>2. ASSUME NEW c \in DOMAIN calls' PROVE calls'[c].at # "sent"
    <3>1. c \in DOMAIN calls /\ calls[c] \in CallsMade
      BY <1>4, <2>1, <2>2 DEF Api!Exit
    <3> QED BY <1>4, <3>1 DEF Api!Exit, CallsMade
  <2> QED BY <1>4, <2>2 DEF Api!Exit, SwitchesInv
<1>5. CASE UNCHANGED <<calls, known, settings, window>>
  BY <1>5, SwitchesRest
<1>6. CASE UNCHANGED Api!vars
  BY <1>6, <1>5 DEF Api!vars, Api!http, Api!ui
<1>7. CASE Api!Tick \/ Api!EndsPass
  BY <1>7, <1>5 DEF Api!Tick, Api!EndsPass, Api!http, Api!ui
<1>8. ASSUME NEW r \in Requests, Api!Main(r) PROVE SwitchesInv'
  BY <1>8, <1>5 DEF Api!Main, Api!Audits, Api!Authorised, Api!AuditFails, Api!Admits,
     Api!Reads, Api!TimesOut, Api!Replies, Api!Claims, Api!Moves, Api!WritesResult,
     Api!NextName, Api!Records, Api!AuditReads, Api!AuditWrites, Api!http, Api!ui
<1>9. ASSUME NEW r \in Requests, Api!Renders(r) \/ Api!Script(r) PROVE SwitchesInv'
  BY <1>9, <1>5 DEF Api!Renders, Api!Takes, Api!Finishes, Api!Script, Api!Posts,
     Api!FallsBack, Api!Queues, Api!http, Api!ui
<1> QED
  BY <1>1, <1>2, <1>3, <1>4, <1>6, <1>7, <1>8, <1>9, AppliesSwitches DEF Api!Next, Api!Starts

-----------------------------------------------------------------------------
ServiceInv == ControlInv /\ CallsInv /\ AuditInv /\ SwitchesInv

LEMMA InitService == ASSUME Api!ControlAssumption, Api!Init PROVE ServiceInv
<1>1. ControlInv
  BY InitFits
<1>2. CallsInv
  <2>1. calls = <<>> /\ Len(calls) = 0 /\ DOMAIN calls = {}
    BY DEF Api!Init
  <2> QED BY <2>1 DEF Api!Init, CallsInv, Api!Off, Switches, Windows, Names
<1>3. AuditInv
  BY DEF Api!Init, AuditInv, AuditTurn, InLog, Api!NoWork
<1>4. SwitchesInv
  BY DEF Api!Init, SwitchesInv
<1> QED BY <1>1, <1>2, <1>3, <1>4 DEF ServiceInv

LEMMA StepService ==
  ASSUME Api!ControlAssumption, ServiceInv, [Api!Next]_(Api!vars) PROVE ServiceInv'
BY StepFits, StepCalls, StepAudit, StepSwitches DEF ServiceInv

LEMMA ServiceTypes == ASSUME ServiceInv PROVE Api!TypeOK
<1>1. calls \in Seq(CallsMade)
  BY DEF ServiceInv, ControlInv, ServerTypes
<1>2. \A c \in DOMAIN calls : calls[c].at \in CallStages
  <2> TAKE c \in DOMAIN calls
  <2>1. calls[c] \in CallsMade
    BY <1>1
  <2> QED BY <2>1 DEF CallsMade
<1>3. \A r \in Requests : work[r].at \in Stages
  BY DEF ServiceInv, ControlInv, RequestTypes, Works
<1>4. /\ settings \in Switches /\ known \in Switches /\ old \in BOOLEAN
      /\ window \in Windows
      /\ {server, secret} \subseteq 0..Len(calls) /\ ports \subseteq DOMAIN calls
      /\ endpoint = None \/ {endpoint.port, endpoint.token} \subseteq 0..Len(calls)
  BY DEF ServiceInv, ControlInv, ServerTypes, CallsInv, Names
<1>5. /\ caller \in [Requests -> CallerStates] /\ file \in [Requests -> Files]
      /\ run \in [Requests -> {"no", "sent", "running"}]
      /\ drain.names \subseteq Requests /\ drain.cur \in Requests \cup {None}
  BY DEF ServiceInv, ControlInv, RequestTypes
<1> HIDE DEF ServiceInv
<1> QED
  BY <1>2, <1>3, <1>4, <1>5 DEF Windows, Switches, Files, CallStages, Api!TypeOK

LEMMA ServiceAudits == ASSUME ServiceInv PROVE Api!AnsweredIsAudited
BY DEF ServiceInv, AuditInv, InLog, Record, Api!AnsweredIsAudited

LEMMA ServiceIsCurrent == ASSUME ServiceInv PROVE Api!KnownIsCurrent
<1> SUFFICES ASSUME window = "up", \A c \in DOMAIN calls : calls[c].at # "sent"
             PROVE  known = settings
  BY DEF Api!KnownIsCurrent
<1>1. Len(calls) \in DOMAIN calls
  <2>1. calls \in Seq(CallsMade) /\ calls # <<>>
    BY DEF ServiceInv, ControlInv, ServerTypes, SwitchesInv
  <2> QED BY <2>1
<1> QED BY <1>1 DEF ServiceInv, SwitchesInv

LEMMA ServiceIsTrue == ASSUME ServiceInv PROVE Api!DroppedRunsOnce /\ Api!ResultIsTrue
BY DEF ServiceInv, ControlInv, Fits, SuccessIsRun, Api!DroppedRunsOnce, Api!ResultIsTrue

\* The variables have their types: a server, a token and what an endpoint file names are of calls
\* that were made (main.ts, applyControl; controlServer.ts, start).
THEOREM ServiceIsTyped ==
  ASSUME Api!ControlAssumption PROVE Api!Spec => []Api!TypeOK
BY InitService, StepService, ServiceTypes, PTL DEF Api!Spec

\* A caller over HTTP that has its answer finds the request in the audit log, whatever is
\* recorded or fails to be recorded meanwhile and however often the process ends, unless it was
\* its own entry that could not be written (store.ts, appendControlAudit).
THEOREM AnsweredIsAuditedHolds ==
  ASSUME Api!ControlAssumption PROVE Api!Spec => []Api!AnsweredIsAudited
BY InitService, StepService, ServiceAudits, PTL DEF Api!Spec

\* When the calls of applyControl have been handled, the switches by which the main process admits
\* requests are the window's, for every number of callers, changes, exits and failures (main.ts,
\* applyControl; AppState.tsx, the effect that calls it).
THEOREM KnownIsCurrentHolds ==
  ASSUME Api!ControlAssumption PROVE Api!Spec => []Api!KnownIsCurrent
BY InitService, StepService, ServiceIsCurrent, PTL DEF Api!Spec

-----------------------------------------------------------------------------
(* The undo stack *)

\* What undo() makes of the jobs and of the calendar with the entry e.
PutBack(e, js) == [j \in DOMAIN js |-> IF j \in DOMAIN e.jobs THEN e.jobs[j] ELSE js[j]]
CalBack(e, c)  == IF e.cal = {} THEN c ELSE CHOOSE d \in e.cal : TRUE

Undone(e, s) == <<PutBack(e, s[1]), CalBack(e, s[2])>>

IsList(s) == \E S : s \in Seq(S)

\* The newest entry leads back to the state there was before it, if any is known.
NewestLeads == stack # <<>> => \A s \in past[1] : s = Undone(stack[1], <<jobs, cal>>)

\* An older one leads back from the state before the next.
OlderLead ==
  \A i \in 2..Len(stack) : \A s \in past[i] :
    \E r : past[i - 1] = {r} /\ s = Undone(stack[i], r)

LeadsBack(J) ==
  /\ jobs = [j \in J |-> jobs[j]]
  /\ IsList(stack) /\ IsList(past) /\ Len(past) = Len(stack)
  /\ NewestLeads /\ OlderLead

\* pushUndo: x is put in front, and what is beyond the depth falls off.
Pushed(x, s, depth) == SubSeq(<<x>> \o s, 1, Undo!AtMost(Len(<<x>> \o s), depth))

LEMMA PushedList ==
  ASSUME NEW s, IsList(s), NEW x, NEW depth \in Nat \ {0}
  PROVE  /\ IsList(Pushed(x, s, depth)) /\ Pushed(x, s, depth)[1] = x
         /\ Len(Pushed(x, s, depth)) = Undo!AtMost(Len(s) + 1, depth)
         /\ \A i \in 2..Undo!AtMost(Len(s) + 1, depth) :
              Pushed(x, s, depth)[i] = s[i - 1] /\ i - 1 \in 1..Len(s)
<1>1. PICK S : s \in Seq(S)
  BY DEF IsList
<1> DEFINE T == S \cup {x}
           long == <<x>> \o s
           n == Undo!AtMost(Len(s) + 1, depth)
           new == SubSeq(long, 1, n)
<1>2. s \in Seq(T) /\ <<x>> \in Seq(T) /\ Len(s) \in Nat
  BY <1>1, LenProperties, SeqDef
<1>3. /\ long \in Seq(T) /\ Len(long) = Len(s) + 1 /\ long[1] = x
      /\ \A i \in 2..Len(long) : long[i] = s[i - 1]
  BY <1>2, ConcatProperties
<1>4. n \in 1..Len(long)
  BY <1>2, <1>3 DEF Undo!AtMost
<1> HIDE DEF long, n
<1>5. new \in Seq(T) /\ Len(new) = n /\ \A i \in 1..n : new[i] = long[i]
  BY <1>2, <1>3, <1>4, SubSeqProperties
<1> HIDE DEF new
<1>6. ASSUME NEW i \in 2..n PROVE new[i] = s[i - 1] /\ i - 1 \in 1..Len(s)
  <2>1. i \in 2..Len(long) /\ i \in 1..n /\ i - 1 \in 1..Len(s)
    BY <1>2, <1>3, <1>4
  <2>2. new[i] = long[i] /\ long[i] = s[i - 1]
    BY <2>1, <1>3, <1>5
  <2> QED BY <2>1, <2>2
<1>7. Pushed(x, s, depth) = new /\ new[1] = x
  BY <1>3, <1>4, <1>5 DEF Pushed, new, long, n
<1> QED BY <1>5, <1>6, <1>7 DEF IsList, n

\* A change that is pushed, from a state that its entry leads back to or not.
LEMMA PushLeads ==
  ASSUME NEW J, LeadsBack(J), NEW entry, NEW current \in BOOLEAN, NEW depth \in Nat \ {0},
         jobs' = [j \in J |-> jobs'[j]],
         stack' = Pushed(entry, stack, depth),
         past' = IF current THEN Pushed({<<jobs, cal>>}, past, depth)
                 ELSE Pushed({}, [i \in DOMAIN past |-> {}], depth),
         current => Undone(entry, <<jobs', cal'>>) = <<jobs, cal>>
  PROVE  LeadsBack(J)'
<1> DEFINE below == IF current THEN past ELSE [i \in DOMAIN past |-> {}]
           here  == IF current THEN {<<jobs, cal>>} ELSE {}
<1>1. IsList(below) /\ Len(below) = Len(stack) /\ Len(stack) \in Nat
  <2>1. PICK S : past \in Seq(S)
    BY DEF LeadsBack, IsList
  <2>2. [i \in DOMAIN past |-> {}] \in Seq({{}}) /\ Len([i \in DOMAIN past |-> {}]) = Len(past)
        /\ Len(past) \in Nat
    BY <2>1
  <2> QED BY <2>2 DEF LeadsBack, IsList
<1>2. past' = Pushed(here, below, depth)
  OBVIOUS
<1> DEFINE n == Undo!AtMost(Len(stack) + 1, depth)
<1> HIDE DEF below, here, n
<1>n. n \in Nat \ {0}
  BY <1>1 DEF n, Undo!AtMost
<1>3. /\ IsList(stack)' /\ stack'[1] = entry /\ Len(stack') = n
      /\ \A i \in 2..n : stack'[i] = stack[i - 1] /\ i - 1 \in 1..Len(stack)
  <2>1. IsList(stack)
    BY DEF LeadsBack
  <2> QED BY <2>1, PushedList DEF n
<1>4. /\ IsList(past)' /\ past'[1] = here /\ Len(past') = n
      /\ \A i \in 2..n : past'[i] = below[i - 1]
  <2>1. /\ IsList(Pushed(here, below, depth)) /\ Pushed(here, below, depth)[1] = here
        /\ Len(Pushed(here, below, depth)) = n
        /\ \A i \in 2..n : Pushed(here, below, depth)[i] = below[i - 1]
    BY <1>1, PushedList DEF n
  <2> QED BY <2>1, <1>2
<1>5. NewestLeads'
  BY <1>3, <1>4 DEF NewestLeads, here
<1>6. OlderLead'
  <2> SUFFICES ASSUME NEW i \in 2..Len(stack'), NEW s \in past'[i]
               PROVE  \E r : past'[i - 1] = {r} /\ s = Undone(stack'[i], r)
    BY DEF OlderLead
  <2>1. /\ i \in 2..n /\ stack'[i] = stack[i - 1] /\ i - 1 \in 1..Len(stack)
        /\ s \in below[i - 1] /\ Len(past) = Len(stack)
    BY <1>3, <1>4 DEF LeadsBack
  <2>2. current /\ s \in past[i - 1] /\ below = past /\ here = {<<jobs, cal>>}
    <3>1. PICK S : past \in Seq(S)
      BY DEF LeadsBack, IsList
    <3>2. i - 1 \in DOMAIN past
      BY <2>1, <3>1
    <3> QED BY <2>1, <3>2 DEF below, here
  <2>3. CASE i = 2
    <3>1. s = Undone(stack[1], <<jobs, cal>>)
      BY <2>1, <2>2, <2>3, <1>1 DEF LeadsBack, NewestLeads
    <3>2. i - 1 = 1
      BY <2>3
    <3>3. past'[1] = {<<jobs, cal>>}
      BY <2>2, <1>4
    <3>4. stack'[i] = stack[1]
      BY <2>1, <3>2
    <3> WITNESS <<jobs, cal>>
    <3> QED BY <3>1, <3>2, <3>3, <3>4
  <2>4. CASE i # 2
    <3>1. i - 1 \in 2..Len(stack) /\ i - 1 \in 2..n
      BY <2>1, <2>4, <1>1, <1>n
    <3>2. PICK r : past[i - 1 - 1] = {r} /\ s = Undone(stack[i - 1], r)
      BY <3>1, <2>2 DEF LeadsBack, OlderLead
    <3>3. past'[i - 1] = past[i - 1 - 1]
      BY <3>1, <1>4, <2>2
    <3> QED BY <3>2, <3>3, <2>1
  <2> QED BY <2>3, <2>4
<1> QED BY <1>3, <1>4, <1>5, <1>6 DEF LeadsBack

\* A change that is not pushed.
LEMMA DisturbLeads ==
  ASSUME NEW J, LeadsBack(J), jobs' = [j \in J |-> jobs'[j]],
         stack' = stack, past' = [i \in DOMAIN past |-> {}]
  PROVE  LeadsBack(J)'
<1>1. PICK S, T : past \in Seq(S) /\ stack \in Seq(T)
  BY DEF LeadsBack, IsList
<1>2. past' \in Seq({{}}) /\ Len(past') = Len(past) /\ \A i \in 1..Len(past) : past'[i] = {}
  BY <1>1
<1>3. Len(past) = Len(stack) /\ Len(stack) \in Nat
  BY <1>1 DEF LeadsBack
<1>4. \A i \in 1..Len(stack) : past'[i] = {}
  BY <1>2, <1>3, Zenon
<1>5. IsList(past)' /\ IsList(stack)'
  BY <1>2 DEF IsList, LeadsBack
<1>6. OlderLead'
  <2>1. ASSUME NEW i \in 2..Len(stack') PROVE past'[i] = {}
    <3>1. i \in 1..Len(stack)
      BY <1>3
    <3> QED BY <3>1, <1>4
  <2> QED BY <2>1 DEF OlderLead
<1>7. NewestLeads'
  <2> SUFFICES ASSUME stack # <<>> PROVE past'[1] = {}
    <3>1. stack' # <<>> <=> stack # <<>>
      OBVIOUS
    <3> QED BY <3>1 DEF NewestLeads
  <2>1. Len(stack) # 0
    BY <1>1, EmptySeq
  <2>2. 1 \in 1..Len(stack)
    BY <2>1, <1>3
  <2> QED BY <2>2, <1>4
<1>8. Len(past') = Len(stack')
  <2>1. Len(stack') = Len(stack)
    OBVIOUS
  <2> QED BY <2>1, <1>2, <1>3, Zenon
<1> QED BY <1>5, <1>6, <1>7, <1>8 DEF LeadsBack

\* undo() leads back to the state before the newest entry, if it is known.
LEMMA UndoLeads ==
  ASSUME NEW J, LeadsBack(J), stack # <<>>, <<jobs', cal'>> = Undone(stack[1], <<jobs, cal>>),
         stack' = Tail(stack), past' = Tail(past)
  PROVE  LeadsBack(J)' /\ (Head(past) # {} => <<jobs', cal'>> \in Head(past))
<1>1. PICK S, T : stack \in Seq(S) /\ past \in Seq(T)
  BY DEF LeadsBack, IsList
<1>2. Len(stack) \in Nat \ {0} /\ Len(past) = Len(stack) /\ past # <<>>
  BY <1>1, EmptySeq DEF LeadsBack
<1>3. /\ stack' \in Seq(S) /\ Len(stack') = Len(stack) - 1
      /\ \A i \in 1..Len(stack') : stack'[i] = stack[i + 1]
  BY <1>1, <1>2
<1>4. /\ past' \in Seq(T) /\ Len(past') = Len(stack')
      /\ \A i \in 1..Len(stack') : past'[i] = past[i + 1]
  BY <1>1, <1>2, <1>3
<1>5. \A s \in past[1] : s = <<jobs', cal'>>
  BY DEF LeadsBack, NewestLeads
<1>6. NewestLeads'
  <2> SUFFICES ASSUME stack' # <<>>, NEW s \in past'[1]
               PROVE  s = Undone(stack'[1], <<jobs', cal'>>)
    BY DEF NewestLeads
  <2>1. Len(stack') >= 1
    BY <1>3, <1>2, EmptySeq
  <2>2. 2 \in 2..Len(stack) /\ s \in past[2] /\ stack'[1] = stack[2]
    BY <2>1, <1>2, <1>3, <1>4
  <2>3. PICK r : past[1] = {r} /\ s = Undone(stack[2], r)
    <3>1. \A i \in 2..Len(stack) : \A t \in past[i] :
            \E r : past[i - 1] = {r} /\ t = Undone(stack[i], r)
      BY DEF LeadsBack, OlderLead
    <3>2. 2 - 1 = 1
      OBVIOUS
    <3>3. \A u \in past[2] : \E r : past[2 - 1] = {r} /\ u = Undone(stack[2], r)
      BY <3>1, <2>2, Zenon
    <3> QED BY <3>2, <3>3, <2>2
  <2> QED BY <2>2, <2>3, <1>5
<1>7. OlderLead'
  <2> SUFFICES ASSUME NEW i \in 2..Len(stack'), NEW s \in past'[i]
               PROVE  \E r : past'[i - 1] = {r} /\ s = Undone(stack'[i], r)
    BY DEF OlderLead
  <2>1. i \in 1..Len(stack') /\ i - 1 \in 1..Len(stack') /\ i + 1 \in 2..Len(stack)
        /\ (i - 1) + 1 = i /\ (i + 1) - 1 = i
    BY <1>2, <1>3
  <2>2. s \in past[i + 1] /\ stack'[i] = stack[i + 1] /\ past'[i - 1] = past[i]
    BY <2>1, <1>3, <1>4
  <2>3. \A k \in 2..Len(stack) : \A t \in past[k] :
          \E r : past[k - 1] = {r} /\ t = Undone(stack[k], r)
    BY DEF LeadsBack, OlderLead
  <2>4. \E r : past[(i + 1) - 1] = {r} /\ s = Undone(stack[i + 1], r)
    BY <2>1, <2>2, <2>3
  <2> QED BY <2>1, <2>2, <2>4
<1>8. jobs' = [j \in J |-> jobs'[j]]
  <2>1. DOMAIN jobs = J
    BY DEF LeadsBack
  <2>2. jobs' = [j \in J |-> IF j \in DOMAIN stack[1].jobs THEN stack[1].jobs[j] ELSE jobs[j]]
    BY <2>1 DEF Undone, PutBack
  <2> QED BY <2>2
<1>9. Head(past) = past[1]
  BY <1>1, <1>2
<1> QED BY <1>3, <1>4, <1>5, <1>6, <1>7, <1>8, <1>9 DEF LeadsBack, IsList

\* Whatever moves, an undo leads back.
LEMMA UndoGoesBack ==
  ASSUME NEW J, LeadsBack(J), Undo!Undo
  PROVE  LeadsBack(J)' /\ Undo!UndoLeadsBack
<1>1. PICK S : stack \in Seq(S)
  BY DEF LeadsBack, IsList
<1>2. stack # <<>> /\ Head(stack) = stack[1]
  BY <1>1 DEF Undo!Undo
<1>3. jobs' = PutBack(Head(stack), jobs)
  BY DEF Undo!Undo, PutBack
<1>4. cal' = CalBack(Head(stack), cal)
  BY DEF Undo!Undo, CalBack
<1>5. <<jobs', cal'>> = Undone(stack[1], <<jobs, cal>>)
  BY <1>2, <1>3, <1>4 DEF Undone
<1> QED BY <1>2, <1>5, UndoLeads DEF Undo!Undo, Undo!UndoLeadsBack

\* An entry and a save that were made by one edit are about the same job.
OwnInv ==
  /\ \A i \in 1..Len(stack) : stack[i].of <= edits
  /\ \A s \in saves : s.of <= edits
  /\ \A s \in saves, i \in 1..Len(stack) : stack[i].of = s.of => s.id \in DOMAIN stack[i].jobs

\* Every step, for any jobs and any depth.
LEMMA StepLeads ==
  ASSUME Undo!UndoStackAssumption, OwnInv, LeadsBack(Jobs), [Undo!Next]_(Undo!vars)
  PROVE  LeadsBack(Jobs)'
<1> DEFINE J == Jobs
<1>a. /\ DOMAIN jobs = J /\ jobs = [j \in J |-> jobs[j]]
      /\ IsList(stack) /\ Depth \in Nat \ {0}
  BY DEF LeadsBack, Undo!UndoStackAssumption
<1>b. ASSUME UNCHANGED <<jobs, cal, stack, past>> PROVE LeadsBack(Jobs)'
  BY <1>b DEF LeadsBack, NewestLeads, OlderLead
<1>p. ASSUME NEW e, NEW current \in BOOLEAN, Undo!Push(e, current), jobs' = [j \in J |-> jobs'[j]],
             current => Undone(e, <<jobs', cal'>>) = <<jobs, cal>>
      PROVE  LeadsBack(Jobs)'
  <2>1. /\ stack' = Pushed(e, stack, Depth)
        /\ past' = IF current THEN Pushed({<<jobs, cal>>}, past, Depth)
                   ELSE Pushed({}, [i \in DOMAIN past |-> {}], Depth)
    BY <1>p DEF Undo!Push, Undo!Last20, Undo!Unsure, Undo!AtMost, Undo!AtMost, Pushed
  <2> QED BY <2>1, <1>p, <1>a, PushLeads
<1>d. ASSUME Undo!Disturb, jobs' = [j \in J |-> jobs'[j]] PROVE LeadsBack(Jobs)'
  BY <1>d, DisturbLeads DEF Undo!Disturb, Undo!Unsure
<1>1. CASE Undo!Undo
  BY <1>1, UndoGoesBack
<1>2. CASE Undo!LetGo \/ Undo!Advance \/ Undo!Sync \/ UNCHANGED Undo!vars
  BY <1>2, <1>b DEF Undo!LetGo, Undo!Advance, Undo!Sync, Undo!vars
<1>3. CASE \E S \in Undo!Some, undoable \in BOOLEAN : Undo!Hold(S, undoable)
  BY <1>3, <1>b DEF Undo!Hold
<1>4. CASE Undo!Restart
  <2>1. stack' = <<>> /\ past' = <<>> /\ jobs' = [j \in J |-> jobs'[j]]
    BY <1>4 DEF Undo!Restart
  <2>2. IsList(<<>>) /\ Len(<<>>) = 0
    <3>1. <<>> \in Seq({})
      OBVIOUS
    <3> QED BY <3>1 DEF IsList
  <2>3. NewestLeads' /\ OlderLead'
    BY <2>1, <2>2 DEF NewestLeads, OlderLead
  <2> QED BY <2>1, <2>2, <2>3 DEF LeadsBack
<1>5. ASSUME NEW rule, Undo!Confirm(rule) PROVE LeadsBack(Jobs)'
  <2> DEFINE e == Undo!Entry(taken.jobs, {})
             current == taken.jobs = [j \in DOMAIN taken.jobs |-> jobs[j]]
  <2>1. jobs' = jobs /\ cal' = cal /\ jobs' = [j \in J |-> jobs'[j]]
    BY <1>5, <1>a DEF Undo!Confirm
  <2>2. ASSUME current PROVE Undone(e, <<jobs', cal'>>) = <<jobs, cal>>
    <3>1. \A j \in DOMAIN taken.jobs : taken.jobs[j] = jobs[j]
      BY <2>2
    <3>2. [j \in J |-> IF j \in DOMAIN taken.jobs THEN taken.jobs[j] ELSE jobs[j]] = jobs
      BY <3>1, <1>a
    <3> QED BY <2>1, <3>2, <1>a DEF Undone, PutBack, CalBack, Undo!Entry
  <2>3. CASE taken.undoable
    <3>1. Undo!Push(e, current)
      BY <1>5, <2>3 DEF Undo!Confirm, Undo!Before
    <3>2. current \in BOOLEAN
      OBVIOUS
    <3> HIDE DEF e, current
    <3> QED BY <3>1, <3>2, <2>1, <2>2, <1>p
  <2>4. CASE ~taken.undoable
    BY <1>5, <2>4, <2>1, <1>b DEF Undo!Confirm
  <2> QED BY <2>3, <2>4
<1>12. ASSUME NEW s \in saves, Undo!Saves(s) PROVE LeadsBack(Jobs)'
  <2>1. cal' = cal /\ jobs' = [j \in J |-> jobs'[j]]
        /\ \A j \in J : j # s.id => jobs'[j] = jobs[j]
    BY <1>12, <1>a DEF Undo!Saves
  <2>2. CASE stack # <<>> /\ Head(stack).of = s.of
    <3>1. UNCHANGED <<stack, past>>
      BY <1>12, <2>2 DEF Undo!Saves
    <3>2. s.id \in DOMAIN stack[1].jobs
      <4>1. PICK S : stack \in Seq(S)
        BY <1>a DEF IsList
      <4>2. 1 \in 1..Len(stack) /\ Head(stack) = stack[1]
        BY <4>1, <2>2
      <4> QED BY <4>2, <2>2 DEF OwnInv
    <3>3. Undone(stack[1], <<jobs', cal'>>) = Undone(stack[1], <<jobs, cal>>)
      <4>1. DOMAIN jobs = J /\ DOMAIN jobs' = J
        BY <2>1, <1>a
      <4>2. \A j \in J : (IF j \in DOMAIN stack[1].jobs THEN stack[1].jobs[j] ELSE jobs'[j])
                         = (IF j \in DOMAIN stack[1].jobs THEN stack[1].jobs[j] ELSE jobs[j])
        BY <2>1, <3>2
      <4>3. PutBack(stack[1], jobs') = PutBack(stack[1], jobs)
        BY <4>1, <4>2 DEF PutBack
      <4> QED BY <2>1, <4>3 DEF Undone
    <3>4. NewestLeads'
      BY <3>1, <3>3 DEF LeadsBack, NewestLeads
    <3>5. OlderLead'
      BY <3>1 DEF LeadsBack, OlderLead
    <3> QED BY <2>1, <3>1, <3>4, <3>5 DEF LeadsBack
  <2>3. CASE ~(stack # <<>> /\ Head(stack).of = s.of)
    BY <1>12, <2>1, <2>3, <1>d DEF Undo!Saves
  <2> QED BY <2>2, <2>3
<1>6. ASSUME NEW j \in J, Undo!DeleteJob(j) PROVE LeadsBack(Jobs)'
  <2> DEFINE e == Undo!Entry([i \in {j} |-> jobs[i]], {})
  <2>1. /\ Undo!Push(e, TRUE) /\ cal' = cal
        /\ jobs' = [jobs EXCEPT ![j] = Undo!Gone]
    BY <1>6 DEF Undo!DeleteJob
  <2>2. DOMAIN jobs' = J /\ jobs' = [i \in J |-> jobs'[i]]
    BY <2>1, <1>a
  <2>3. [i \in J |-> IF i \in {j} THEN jobs[j] ELSE jobs'[i]] = jobs
    BY <2>1, <1>a
  <2>4. Undone(e, <<jobs', cal'>>) = <<jobs, cal>>
    BY <2>1, <2>2, <2>3 DEF Undone, PutBack, CalBack, Undo!Entry
  <2> HIDE DEF e
  <2> QED BY <2>1, <2>2, <2>4, <1>p
<1>7. ASSUME NEW j \in J, Undo!ToggleJob(j) PROVE LeadsBack(Jobs)'
  <2>1. jobs' = [i \in J |-> jobs'[i]] /\ Undo!Disturb
    BY <1>7, <1>a DEF Undo!ToggleJob
  <2> QED BY <2>1, <1>d
<1>8. ASSUME NEW j \in J, Undo!Fire(j) PROVE LeadsBack(Jobs)'
  BY <1>8, <1>b DEF Undo!Fire
<1>9. ASSUME NEW j \in J, Undo!JobRan(j) PROVE LeadsBack(Jobs)'
  <2>1. jobs' = [i \in J |-> jobs'[i]] /\ Undo!Disturb
    BY <1>9, <1>a DEF Undo!JobRan
  <2> QED BY <2>1, <1>d
<1>10. ASSUME NEW d, Undo!ToggleDay(d) PROVE LeadsBack(Jobs)'
  <2> DEFINE e == Undo!Entry(Undo!NoJobs, {cal})
  <2>1. Undo!Push(e, TRUE) /\ jobs' = jobs
    BY <1>10 DEF Undo!ToggleDay
  <2>2. e.cal = {cal} /\ DOMAIN e.jobs = {}
    BY DEF Undo!Entry, Undo!NoJobs
  <2>3. (CHOOSE c \in {cal} : TRUE) = cal
    OBVIOUS
  <2>4. Undone(e, <<jobs', cal'>>) = <<jobs, cal>>
    BY <2>1, <2>2, <2>3, <1>a DEF Undone, PutBack, CalBack
  <2>5. jobs' = [i \in J |-> jobs'[i]]
    BY <2>1, <1>a
  <2> HIDE DEF e
  <2> QED BY <2>1, <2>4, <2>5, <1>p
<1>11. ASSUME NEW c, Undo!Adopt(c) PROVE LeadsBack(Jobs)'
  <2>1. jobs' = [i \in J |-> jobs'[i]] /\ Undo!Disturb
    BY <1>11, <1>a DEF Undo!Adopt
  <2> QED BY <2>1, <1>d
<1> QED
  BY <1>1, <1>2, <1>3, <1>4, <1>5, <1>6, <1>7, <1>8, <1>9, <1>10, <1>11, <1>12 DEF Undo!Next

Instants == 1..MaxTime

\* A job counts no run that its list still has to come to.
Paced == {job \in Undo!Job : job.runs <= now /\ \A t \in job.occ : job.runs < t}

MaybeJob == Paced \cup {Undo!Gone}
SomeJobs == UNION {[S -> Paced] : S \in SUBSET Jobs}
Entries  == [of : Nat, jobs : SomeJobs, cal : SUBSET SUBSET Days]
SavesTyped(S) == \A s \in S : s.id \in Jobs /\ s.job \in Paced /\ s.of \in Nat
Reported == {r \in [runs : 0..MaxTime, occ : SUBSET Instants] :
               r.runs <= now /\ \A t \in r.occ : r.runs < t}

UndoTypes ==
  /\ now \in 0..MaxTime /\ restarts \in 0..MaxRestarts /\ edits \in Nat /\ SavesTyped(saves)
  /\ jobs \in [Jobs -> MaybeJob] /\ armed \in [Jobs -> MaybeJob]
  /\ taken = Undo!Nothing \/ taken.jobs \in SomeJobs
  /\ reports \in [Jobs -> Seq(Reported)]
  /\ cal \in SUBSET Days /\ stack \in Seq(Entries) /\ Len(stack) <= Depth
  /\ fired \subseteq Jobs \X Instants /\ sent \in [Jobs \X Instants -> Nat]

\* What was fired is not armed again, and what was sent was fired in this life.
FiredIsClaimed ==
  /\ \A k \in fired : k[2] <= now
  /\ \A j \in Jobs : armed[j].here => \A t \in armed[j].occ : <<j, t>> \notin fired
  /\ restarts = 0 => \A k \in Jobs \X Instants : sent[k] <= 1 /\ (k \notin fired => sent[k] = 0)

UndoInv == UndoTypes /\ FiredIsClaimed

-----------------------------------------------------------------------------
\* The last of some instants.
LEMMA LatestIsLast ==
  ASSUME Undo!UndoStackAssumption, NEW S, S \subseteq Instants, S # {}
  PROVE  Undo!Latest(S) \in S /\ \A u \in S : u <= Undo!Latest(S)
<1> DEFINE T == {MaxTime - t : t \in S}
<1>1. MaxTime \in Nat
  BY DEF Undo!UndoStackAssumption
<1>2. T \subseteq Nat /\ T # {}
  <2>1. ASSUME NEW t \in S PROVE MaxTime - t \in Nat
    BY <1>1 DEF Instants
  <2> QED BY <2>1
<1>3. PICK m \in T : \A u \in T : ~(<<u, m>> \in OpToRel(<, Nat))
  BY <1>2, WFMin, NatLessThanWellFounded
<1>4. \A u \in T : u < m => <<u, m>> \in OpToRel(<, Nat)
  BY <1>2 DEF OpToRel
<1>5. \A u \in T : ~(u < m)
  BY <1>3, <1>4, Zenon
<1>6. PICK t \in S : m = MaxTime - t
  BY <1>3
<1>7. \A u \in S : u <= t
  <2> TAKE u \in S
  <2>1. ~(MaxTime - u < MaxTime - t)
    BY <1>5, <1>6
  <2> QED BY <2>1, <1>1 DEF Instants
<1> QED BY <1>7 DEF Undo!Latest

\* What is computed comes later.
LEMMA ComputedLater ==
  ASSUME NEW rule, rule.fires \subseteq Instants, NEW after, NEW runs, NEW count
  PROVE  LET occ == Undo!ComputeOccurrences(rule, after, runs, count)
         IN  occ \subseteq Instants /\ \A t \in occ : t > after
BY DEF Undo!ComputeOccurrences, Undo!FiresAfter, Undo!Soonest

LEMMA ToppedUpLater ==
  ASSUME Undo!UndoStackAssumption, now \in Nat, NEW rule, rule.fires \subseteq Instants,
         NEW left, left \subseteq Instants, \A t \in left : t > now, NEW runs, NEW count
  PROVE  LET seed == IF left # {} THEN Undo!Latest(left) ELSE now
             occ  == Undo!ComputeOccurrences(rule, seed, runs, count)
         IN  occ \subseteq Instants /\ \A t \in occ : t > now
<1> DEFINE seed == IF left # {} THEN Undo!Latest(left) ELSE now
           occ  == Undo!ComputeOccurrences(rule, seed, runs, count)
<1>1. seed >= now /\ seed \in Nat
  <2>1. CASE left = {}
    BY <2>1
  <2>2. CASE left # {}
    <3>1. seed \in left
      BY <2>2, LatestIsLast
    <3>2. MaxTime \in Nat
      BY DEF Undo!UndoStackAssumption
    <3> HIDE DEF seed
    <3> QED BY <3>1, <3>2 DEF Instants
  <2> QED BY <2>1, <2>2
<1> HIDE DEF seed
<1>2. occ \subseteq Instants /\ \A t \in occ : t > seed
  BY ComputedLater
<1> HIDE DEF occ
<1>3. ASSUME NEW t \in occ PROVE t > now
  <2>1. t \in Nat /\ t > seed
    BY <1>2, <1>3 DEF Instants
  <2> QED BY <2>1, <1>1
<1> QED BY <1>2, <1>3 DEF occ, seed

LEMMA TopUpLater ==
  ASSUME Undo!UndoStackAssumption, now \in Nat, NEW rule, rule.fires \subseteq Instants,
         NEW left, left \subseteq Instants, \A t \in left : t > now, NEW runs
  PROVE  /\ Undo!TopUp(rule, left, runs, now) \subseteq Instants
         /\ \A t \in Undo!TopUp(rule, left, runs, now) : t > now
BY ToppedUpLater DEF Undo!TopUp

LEMMA UpcomingLater ==
  ASSUME Undo!UndoStackAssumption, now \in Nat, NEW rule, rule.fires \subseteq Instants,
         NEW stored, stored \subseteq Instants, NEW runs
  PROVE  /\ Undo!Upcoming(rule, stored, runs, now) \subseteq Instants
         /\ \A t \in Undo!Upcoming(rule, stored, runs, now) : t > now
<1>1. Undo!StillFuture(stored, now) \subseteq Instants
      /\ \A t \in Undo!StillFuture(stored, now) : t > now
  BY DEF Undo!StillFuture
<1> QED BY <1>1, ToppedUpLater DEF Undo!Upcoming, Undo!Soonest

LEMMA DueIsStored ==
  ASSUME Undo!UndoStackAssumption, NEW rule, NEW stored, stored \subseteq Instants
  PROVE  Undo!DueNow(rule, stored, now) \subseteq {t \in stored : t <= now}
<1>1. Undo!Missed(stored, now) \subseteq Instants
  BY DEF Undo!Missed
<1> QED BY <1>1, LatestIsLast DEF Undo!DueNow, Undo!Missed

-----------------------------------------------------------------------------
\* A job whose list is replaced by what is later, or by a part of it, stays paced.
LEMMA StaysPaced ==
  ASSUME NEW job \in Paced, NEW occ, occ \subseteq Instants,
         \A t \in occ : t > now \/ t \in job.occ, now \in Nat
  PROVE  [job EXCEPT !.occ = occ] \in Paced
<1>1. job \in Undo!Job /\ job.runs \in 0..MaxTime /\ job.runs <= now
      /\ \A t \in job.occ : job.runs < t
  BY DEF Paced, Undo!Job
<1>2. [job EXCEPT !.occ = occ] \in Undo!Job
  BY <1>1 DEF Undo!Job, Instants
<1>3. \A t \in occ : job.runs < t
  BY <1>1 DEF Instants
<1>4. [job EXCEPT !.occ = occ].occ = occ /\ [job EXCEPT !.occ = occ].runs = job.runs
  BY <1>1 DEF Undo!Job
<1> QED BY <1>1, <1>2, <1>3, <1>4 DEF Paced

LEMMA PacedFields ==
  ASSUME NEW job \in Paced, Undo!UndoStackAssumption
  PROVE  /\ job.here = TRUE /\ job.on \in BOOLEAN /\ job.rule \in Rules /\ job.occ \subseteq Instants
         /\ job.runs \in 0..MaxTime /\ job.rule.fires \subseteq Instants
         /\ job.runs <= now /\ \A t \in job.occ : job.runs < t
BY DEF Paced, Undo!Job, Undo!UndoStackAssumption, Instants

LEMMA HereIsPaced ==
  ASSUME NEW job \in MaybeJob, job.here PROVE job \in Paced
BY DEF MaybeJob, Undo!Gone

\* Time goes on, and what was paced is.
LEMMA PacedLater ==
  ASSUME now \in Nat, now' \in Nat, now <= now'
  PROVE  Paced \subseteq Paced' /\ Reported \subseteq Reported'
<1>1. ASSUME NEW job \in Paced PROVE job \in Paced'
  <2>1. job \in Undo!Job /\ job.runs <= now /\ \A t \in job.occ : job.runs < t
    BY Zenon DEF Paced
  <2>3. job.runs \in Int
    BY <2>1 DEF Undo!Job
  <2>2. job.runs <= now'
    BY <2>1, <2>3
  <2> QED BY <2>1, <2>2 DEF Paced
<1>2. ASSUME NEW r \in Reported PROVE r \in Reported'
  BY DEF Reported
<1> QED BY <1>1, <1>2

-----------------------------------------------------------------------------
LEMMA InitUndo == ASSUME Undo!UndoStackAssumption, Undo!Init PROVE UndoInv
<1>1. now = 0 /\ 0 \in 0..MaxTime /\ 0 \in 0..MaxRestarts
  BY DEF Undo!Init, Undo!UndoStackAssumption
<1>2. PICK rule \in Rules : jobs = [j \in Jobs |->
        [here |-> TRUE, on |-> TRUE, rule |-> rule,
         occ |-> Undo!ComputeOccurrences(rule, 0, 0, Horizon), runs |-> 0]]
  BY DEF Undo!Init
<1> DEFINE occ == Undo!ComputeOccurrences(rule, 0, 0, Horizon)
<1>3. occ \subseteq Instants /\ \A t \in occ : t > 0
  <2>1. rule.fires \subseteq Instants
    BY DEF Undo!UndoStackAssumption, Instants
  <2> QED BY <2>1, ComputedLater
<1> HIDE DEF occ
<1>4. [here |-> TRUE, on |-> TRUE, rule |-> rule, occ |-> occ, runs |-> 0] \in Paced
  BY <1>1, <1>3 DEF Paced, Undo!Job, Instants
<1>5. jobs \in [Jobs -> MaybeJob] /\ armed \in [Jobs -> MaybeJob]
  BY <1>2, <1>4 DEF occ, MaybeJob, Undo!Init
<1>6. /\ stack \in Seq(Entries) /\ Len(stack) = 0 /\ Depth \in Nat
      /\ reports \in [Jobs -> Seq(Reported)]
  BY DEF Undo!Init, Undo!UndoStackAssumption
<1>7. \A j \in Jobs : ~armed[j].here
  BY DEF Undo!Init, Undo!Gone
<1>8. UndoTypes
  <2>1. cal \in SUBSET Days /\ fired = {} /\ restarts = 0 /\ taken = Undo!Nothing
    BY DEF Undo!Init
  <2>2. sent \in [Jobs \X Instants -> Nat] /\ edits \in Nat /\ SavesTyped(saves)
    BY DEF Undo!Init, Instants, SavesTyped
  <2>3. Len(stack) <= Depth
    BY <1>6
  <2> QED BY <1>1, <1>5, <1>6, <2>1, <2>2, <2>3 DEF UndoTypes
<1>9. FiredIsClaimed
  BY <1>7 DEF FiredIsClaimed, Undo!Init, Instants
<1> QED BY <1>8, <1>9 DEF UndoInv

\* What only looks at the jobs, the calendar, the stack and what is held.
LEMMA EditKeepsUndo ==
  ASSUME UndoInv, now' = now, restarts' = restarts, armed' = armed, reports' = reports,
         fired' = fired, sent' = sent, jobs' \in [Jobs -> MaybeJob],
         taken' = Undo!Nothing \/ taken'.jobs \in SomeJobs,
         cal' \in SUBSET Days, stack' \in Seq(Entries), Len(stack') <= Depth,
         edits' \in Nat, SavesTyped(saves')
  PROVE  UndoInv'
<1>1. Paced' = Paced
  BY DEF Paced
<1>2. /\ MaybeJob' = MaybeJob /\ SomeJobs' = SomeJobs /\ Entries' = Entries
      /\ SavesTyped(saves)'
  BY <1>1 DEF MaybeJob, SomeJobs, Entries, SavesTyped
<1>3. Reported' = Reported
  BY DEF Reported
<1>4. UndoTypes'
  BY <1>1, <1>2, <1>3 DEF UndoInv, UndoTypes
<1>5. FiredIsClaimed'
  BY DEF UndoInv, FiredIsClaimed
<1> QED BY <1>4, <1>5 DEF UndoInv

LEMMA PushedTypes ==
  ASSUME Undo!UndoStackAssumption, UndoInv, NEW e \in Entries, NEW current, Undo!Push(e, current)
  PROVE  stack' \in Seq(Entries) /\ Len(stack') <= Depth
<1> DEFINE long == <<e>> \o stack
<1>1. stack \in Seq(Entries) /\ Len(stack) \in Nat /\ <<e>> \in Seq(Entries) /\ Depth \in Nat \ {0}
  BY DEF UndoInv, UndoTypes, Undo!UndoStackAssumption
<1>2. long \in Seq(Entries) /\ Len(long) = Len(stack) + 1
  BY <1>1, ConcatProperties
<1>3. stack' = SubSeq(long, 1, Undo!AtMost(Len(long), Depth))
  BY DEF Undo!Push, Undo!Last20
<1> HIDE DEF long
<1>4. Undo!AtMost(Len(long), Depth) \in 1..Len(long) /\ Undo!AtMost(Len(long), Depth) <= Depth
  BY <1>1, <1>2 DEF Undo!AtMost
<1> QED BY <1>2, <1>3, <1>4, SubSeqProperties

LEMMA UndoKeeps ==
  ASSUME Undo!UndoStackAssumption, UndoInv, Undo!Undo PROVE UndoInv'
<1>1. stack \in Seq(Entries) /\ stack # <<>> /\ jobs \in [Jobs -> MaybeJob] /\ Len(stack) <= Depth
  BY DEF UndoInv, UndoTypes, Undo!Undo
<1>2. Head(stack) \in Entries /\ Tail(stack) \in Seq(Entries) /\ Len(Tail(stack)) = Len(stack) - 1
      /\ Len(stack) \in Nat
  BY <1>1
<1>3. \A j \in DOMAIN Head(stack).jobs : Head(stack).jobs[j] \in Paced
  BY <1>2 DEF Entries, SomeJobs
<1>4. jobs' \in [Jobs -> MaybeJob]
  BY <1>1, <1>3 DEF Undo!Undo, MaybeJob
<1>5. cal' \in SUBSET Days
  <2>1. Head(stack).cal \in SUBSET SUBSET Days /\ cal \in SUBSET Days
    BY <1>2 DEF Entries, UndoInv, UndoTypes
  <2>2. cal' = CalBack(Head(stack), cal)
    BY DEF Undo!Undo, CalBack
  <2> QED BY <2>1, <2>2 DEF CalBack
<1>6. stack' = Tail(stack) /\ Len(stack') <= Depth
  <2>1. stack' = Tail(stack) /\ Depth \in Nat
    BY DEF Undo!Undo, Undo!UndoStackAssumption
  <2> QED BY <2>1, <1>1, <1>2
<1> QED BY <1>2, <1>4, <1>5, <1>6, EditKeepsUndo
     DEF Undo!Undo, UndoInv, UndoTypes, Undo!sched, Undo!bounds

LEMMA HoldKeeps ==
  ASSUME UndoInv, NEW S \in Undo!Some, NEW undoable, Undo!Hold(S, undoable)
  PROVE  UndoInv'
<1>1. jobs \in [Jobs -> MaybeJob] /\ S \subseteq Jobs
  BY DEF UndoInv, UndoTypes, Undo!Some
<1>2. \A j \in S : jobs[j] \in Paced
  BY <1>1, HereIsPaced DEF Undo!Hold
<1>3. taken'.jobs \in SomeJobs
  <2>1. [j \in S |-> jobs[j]] \in [S -> Paced]
    BY <1>2
  <2> QED BY <2>1, <1>1 DEF Undo!Hold, SomeJobs
<1> QED BY <1>3, EditKeepsUndo
     DEF Undo!Hold, UndoInv, UndoTypes, Undo!sched, Undo!bounds

LEMMA LetGoKeeps == ASSUME UndoInv, Undo!LetGo PROVE UndoInv'
BY EditKeepsUndo DEF Undo!LetGo, UndoInv, UndoTypes, Undo!sched, Undo!bounds

\* A save writes a job that was taken, with the new rule and what is computed from it.
LEMMA ConfirmKeeps ==
  ASSUME Undo!UndoStackAssumption, UndoInv, NEW rule \in Rules, Undo!Confirm(rule)
  PROVE  UndoInv'
<1> DEFINE new == [j \in DOMAIN taken.jobs |-> [taken.jobs[j] EXCEPT !.rule = rule]]
           e == Undo!Entry(taken.jobs, {})
           current == taken.jobs = [j \in DOMAIN taken.jobs |-> jobs[j]]
<1>1. PICK S \in SUBSET Jobs : taken.jobs \in [S -> Paced]
  BY DEF Undo!Confirm, UndoInv, UndoTypes, SomeJobs
<1>2. edits \in Nat /\ edits' = edits + 1
  BY DEF UndoInv, UndoTypes, Undo!Confirm, Undo!Edits
<1>3. ASSUME NEW job \in Paced PROVE [job EXCEPT !.rule = rule] \in Paced
  <2>1. job \in Undo!Job /\ job.runs <= now /\ \A t \in job.occ : job.runs < t
    BY <1>3 DEF Paced
  <2>2. /\ [job EXCEPT !.rule = rule] \in Undo!Job
        /\ [job EXCEPT !.rule = rule].runs = job.runs /\ [job EXCEPT !.rule = rule].occ = job.occ
    BY <2>1 DEF Undo!Job
  <2> QED BY <2>1, <2>2 DEF Paced
<1>4. SavesTyped(saves')
  <2>1. SavesTyped(saves)
    BY DEF UndoInv, UndoTypes
  <2>2. saves' = saves \cup {[of |-> edits', id |-> j, job |-> new[j]] : j \in DOMAIN new}
    BY DEF Undo!Confirm
  <2>3. \A j \in DOMAIN new : j \in Jobs /\ new[j] \in Paced
    BY <1>1, <1>3
  <2> HIDE DEF new
  <2>4. ASSUME NEW j \in DOMAIN new
        PROVE  SavesTyped({[of |-> edits', id |-> j, job |-> new[j]]})
    BY <1>2, <2>3 DEF SavesTyped
  <2> QED BY <2>1, <2>2, <2>4 DEF SavesTyped
<1>5. stack' \in Seq(Entries) /\ Len(stack') <= Depth
  <2>1. CASE taken.undoable
    <3>1. Undo!Push(e, current)
      BY <2>1 DEF Undo!Confirm, Undo!Before
    <3>2. e \in Entries
      BY <1>1, <1>2 DEF Undo!Entry, Entries, SomeJobs
    <3> HIDE DEF e, current
    <3> QED BY <3>1, <3>2, PushedTypes
  <2>2. CASE ~taken.undoable
    BY <2>2 DEF Undo!Confirm, UndoInv, UndoTypes
  <2> QED BY <2>1, <2>2
<1>6. /\ now' = now /\ restarts' = restarts /\ armed' = armed /\ reports' = reports
      /\ fired' = fired /\ sent' = sent /\ cal' = cal /\ jobs' = jobs
      /\ taken' = Undo!Nothing
  BY DEF Undo!Confirm, Undo!sched, Undo!Edits
<1>7. cal' \in SUBSET Days /\ jobs' \in [Jobs -> MaybeJob]
  BY <1>6 DEF UndoInv, UndoTypes
<1> QED BY <1>2, <1>4, <1>5, <1>6, <1>7, EditKeepsUndo

LEMMA SavesKeeps ==
  ASSUME Undo!UndoStackAssumption, UndoInv, NEW s \in saves, Undo!Saves(s)
  PROVE  UndoInv'
<1> DEFINE occ == Undo!ComputeOccurrences(s.job.rule, now, s.job.runs, Horizon)
<1>1. s.id \in Jobs /\ s.job \in Paced /\ now \in Nat /\ jobs \in [Jobs -> MaybeJob]
  BY DEF UndoInv, UndoTypes, SavesTyped
<1>2. occ \subseteq Instants /\ \A t \in occ : t > now
  BY <1>1, PacedFields, ComputedLater
<1>3. jobs' = [jobs EXCEPT ![s.id] = [s.job EXCEPT !.occ = occ]]
  BY DEF Undo!Saves
<1> HIDE DEF occ
<1>4. [s.job EXCEPT !.occ = occ] \in Paced
  BY <1>1, <1>2, StaysPaced
<1>5. jobs' \in [Jobs -> MaybeJob]
  BY <1>1, <1>3, <1>4 DEF MaybeJob
<1>6. SavesTyped(saves')
  BY DEF Undo!Saves, UndoInv, UndoTypes, SavesTyped
<1>7. /\ now' = now /\ restarts' = restarts /\ armed' = armed /\ reports' = reports
      /\ fired' = fired /\ sent' = sent /\ cal' = cal /\ taken' = taken /\ stack' = stack
      /\ edits' = edits
  BY DEF Undo!Saves, Undo!Disturb, Undo!sched, Undo!bounds
<1> QED BY <1>5, <1>6, <1>7, EditKeepsUndo DEF UndoInv, UndoTypes

LEMMA DeleteJobKeeps ==
  ASSUME Undo!UndoStackAssumption, UndoInv, NEW j \in Jobs, Undo!DeleteJob(j)
  PROVE  UndoInv'
<1> DEFINE e == Undo!Entry([i \in {j} |-> jobs[i]], {})
<1>1. jobs \in [Jobs -> MaybeJob] /\ jobs[j] \in Paced
  BY HereIsPaced DEF UndoInv, UndoTypes, Undo!DeleteJob
<1>2. e \in Entries
  <2>1. [i \in {j} |-> jobs[i]] \in [{j} -> Paced] /\ {j} \in SUBSET Jobs
    BY <1>1
  <2>2. [i \in {j} |-> jobs[i]] \in SomeJobs
    BY <2>1 DEF SomeJobs
  <2>3. edits + 1 \in Nat
    BY DEF UndoInv, UndoTypes
  <2> QED BY <2>2, <2>3 DEF Undo!Entry, Entries
<1>3. Undo!Push(e, TRUE)
  BY DEF Undo!DeleteJob
<1> HIDE DEF e
<1>4. stack' \in Seq(Entries) /\ Len(stack') <= Depth
  BY <1>2, <1>3, PushedTypes
<1>5. jobs' \in [Jobs -> MaybeJob]
  BY <1>1 DEF Undo!DeleteJob, MaybeJob
<1> QED BY <1>4, <1>5, EditKeepsUndo
     DEF Undo!DeleteJob, Undo!sched, Undo!Edits, UndoInv, UndoTypes

LEMMA ToggleJobKeeps ==
  ASSUME Undo!UndoStackAssumption, UndoInv, NEW j \in Jobs, Undo!ToggleJob(j)
  PROVE  UndoInv'
<1> DEFINE occ == IF jobs[j].on THEN {}
                  ELSE Undo!ComputeOccurrences(jobs[j].rule, now, jobs[j].runs, Horizon)
<1>1. jobs \in [Jobs -> MaybeJob] /\ jobs[j] \in Paced /\ now \in Nat
  BY HereIsPaced DEF UndoInv, UndoTypes, Undo!ToggleJob
<1>2. occ \subseteq Instants /\ \A t \in occ : t > now
  BY <1>1, PacedFields, ComputedLater
<1>3. jobs' = [jobs EXCEPT ![j].on = ~@, ![j].occ = occ]
  BY DEF Undo!ToggleJob
<1> HIDE DEF occ
<1>4. [jobs[j] EXCEPT !.occ = occ] \in Paced
  BY <1>1, <1>2, StaysPaced
<1>5. [jobs[j] EXCEPT !.on = ~@, !.occ = occ] \in Paced
  <2> DEFINE q == [jobs[j] EXCEPT !.occ = occ]
             p == [jobs[j] EXCEPT !.on = ~@, !.occ = occ]
  <2>1. jobs[j] \in Undo!Job /\ q \in Undo!Job /\ q.runs <= now /\ \A t \in q.occ : q.runs < t
    BY <1>1, <1>4 DEF Paced
  <2>2. p \in Undo!Job /\ p.runs = q.runs /\ p.occ = q.occ
    BY <2>1, <1>2 DEF Undo!Job, Instants
  <2> QED BY <2>1, <2>2 DEF Paced
<1>6. jobs' \in [Jobs -> MaybeJob]
  <2>1. jobs' = [jobs EXCEPT ![j] = [jobs[j] EXCEPT !.on = ~@, !.occ = occ]]
    BY <1>1, <1>3
  <2> QED BY <2>1, <1>1, <1>5 DEF MaybeJob
<1> QED BY <1>6, EditKeepsUndo
     DEF Undo!ToggleJob, Undo!Disturb, Undo!sched, Undo!Edits, UndoInv, UndoTypes

LEMMA DaysKeep ==
  ASSUME Undo!UndoStackAssumption, UndoInv,
         (\E d \in Days : Undo!ToggleDay(d)) \/ (\E c \in SUBSET Days : Undo!Adopt(c))
  PROVE  UndoInv'
<1>1. ASSUME NEW d \in Days, Undo!ToggleDay(d) PROVE UndoInv'
  <2> DEFINE e == Undo!Entry(Undo!NoJobs, {cal})
  <2>1. cal \in SUBSET Days /\ cal' \in SUBSET Days
    BY <1>1 DEF UndoInv, UndoTypes, Undo!ToggleDay
  <2>2. e \in Entries
    <3>1. Undo!NoJobs \in [{} -> Paced] /\ {} \in SUBSET Jobs
      BY DEF Undo!NoJobs
    <3>2. Undo!NoJobs \in SomeJobs
      BY <3>1 DEF SomeJobs
    <3>3. edits + 1 \in Nat
      BY DEF UndoInv, UndoTypes
    <3> QED BY <3>2, <3>3, <2>1 DEF Undo!Entry, Entries
  <2>3. Undo!Push(e, TRUE)
    BY <1>1 DEF Undo!ToggleDay
  <2> HIDE DEF e
  <2>4. stack' \in Seq(Entries) /\ Len(stack') <= Depth
    BY <2>2, <2>3, PushedTypes
  <2> QED BY <1>1, <2>1, <2>4, EditKeepsUndo
       DEF Undo!ToggleDay, Undo!sched, Undo!Edits, UndoInv, UndoTypes
<1>2. ASSUME NEW c \in SUBSET Days, Undo!Adopt(c) PROVE UndoInv'
  BY <1>2, EditKeepsUndo DEF Undo!Adopt, Undo!Disturb, Undo!sched, UndoInv, UndoTypes
<1> QED BY <1>1, <1>2

LEMMA AdvanceKeeps ==
  ASSUME Undo!UndoStackAssumption, UndoInv, Undo!Advance PROVE UndoInv'
<1>1. now \in Nat /\ now' \in 0..MaxTime /\ now' \in Nat /\ now <= now'
  BY DEF UndoInv, UndoTypes, Undo!Advance, Undo!UndoStackAssumption
<1>2. Paced \subseteq Paced' /\ Reported \subseteq Reported'
  BY <1>1, PacedLater
<1>3. MaybeJob \subseteq MaybeJob' /\ SomeJobs \subseteq SomeJobs'
  BY <1>2 DEF MaybeJob, SomeJobs
<1>4. Entries \subseteq Entries'
  BY <1>3 DEF Entries
<1>5. stack' \in Seq(Entries')
  BY <1>4, SeqMonotonic DEF Undo!Advance, UndoInv, UndoTypes
<1>6. reports' \in [Jobs -> Seq(Reported')]
  <2>1. \A r \in Seq(Reported) : r \in Seq(Reported')
    BY <1>2, SeqMonotonic
  <2> QED BY <2>1 DEF Undo!Advance, Undo!sched, UndoInv, UndoTypes
<1>7. jobs' \in [Jobs -> MaybeJob'] /\ armed' \in [Jobs -> MaybeJob']
  BY <1>3 DEF Undo!Advance, Undo!sched, UndoInv, UndoTypes
<1>8. taken' = Undo!Nothing \/ taken'.jobs \in SomeJobs'
  BY <1>3 DEF Undo!Advance, UndoInv, UndoTypes
<1>9. /\ cal' = cal /\ stack' = stack /\ restarts' = restarts
      /\ fired' = fired /\ sent' = sent /\ armed' = armed /\ edits' = edits /\ saves' = saves
  BY DEF Undo!Advance, Undo!sched, Undo!bounds
<1>12. SavesTyped(saves)'
  BY <1>2, <1>9 DEF UndoInv, UndoTypes, SavesTyped
<1>10. UndoTypes'
  BY <1>1, <1>5, <1>6, <1>7, <1>8, <1>9, <1>12 DEF UndoInv, UndoTypes
<1>11. FiredIsClaimed'
  <2>1. \A k \in fired : k[2] <= now /\ k[2] \in Int
    BY DEF UndoInv, UndoTypes, FiredIsClaimed, Instants
  <2>2. \A k \in fired : k[2] <= now'
    BY <2>1, <1>1
  <2> QED BY <1>9, <2>2 DEF UndoInv, FiredIsClaimed
<1> QED BY <1>10, <1>11 DEF UndoInv

\* A step that looks only at what the scheduler has.
LEMMA SchedKeepsTypes ==
  ASSUME UndoTypes, now' = now, cal' = cal, stack' = stack, taken' = taken \/ taken' = Undo!Nothing,
         restarts' \in 0..MaxRestarts, jobs' \in [Jobs -> MaybeJob], armed' \in [Jobs -> MaybeJob],
         reports' \in [Jobs -> Seq(Reported)],
         fired' \subseteq Jobs \X Instants, sent' \in [Jobs \X Instants -> Nat],
         edits' = edits, saves' = saves
  PROVE  UndoTypes'
<1>1. Paced' = Paced
  BY DEF Paced
<1>2. /\ MaybeJob' = MaybeJob /\ SomeJobs' = SomeJobs /\ Entries' = Entries
      /\ SavesTyped(saves)'
  BY <1>1 DEF MaybeJob, SomeJobs, Entries, SavesTyped, UndoTypes
<1>3. Reported' = Reported
  BY DEF Reported
<1> QED BY <1>1, <1>2, <1>3 DEF UndoTypes

LEMMA SyncKeeps ==
  ASSUME Undo!UndoStackAssumption, UndoInv, Undo!Sync PROVE UndoInv'
<1> DEFINE list(j) == Undo!Owed(j) \cup Undo!Upcoming(jobs[j].rule, jobs[j].occ, jobs[j].runs, now)
<1>1. now \in Nat /\ jobs \in [Jobs -> MaybeJob]
  BY DEF UndoInv, UndoTypes
<1>2. ASSUME NEW j \in Jobs, jobs[j].here
      PROVE  /\ [jobs[j] EXCEPT !.occ = list(j)] \in Paced
             /\ [jobs[j] EXCEPT !.occ = list(j)].occ = list(j)
             /\ \A t \in list(j) : <<j, t>> \notin fired
  <2> DEFINE coming == Undo!Upcoming(jobs[j].rule, jobs[j].occ, jobs[j].runs, now)
             owed   == Undo!Owed(j)
  <2>1. jobs[j] \in Paced
    BY <1>1, <1>2, HereIsPaced
  <2>2. jobs[j].rule.fires \subseteq Instants /\ jobs[j].occ \subseteq Instants
    BY <2>1, PacedFields
  <2>3. coming \subseteq Instants /\ \A t \in coming : t > now
    BY <1>1, <2>2, UpcomingLater
  <2>4. owed \subseteq jobs[j].occ /\ \A t \in owed : <<j, t>> \notin fired
    BY <2>2, DueIsStored DEF Undo!Owed
  <2> HIDE DEF coming, owed
  <2>5. list(j) = owed \cup coming
    BY DEF owed, coming
  <2> HIDE DEF list
  <2>6. \A t \in coming : <<j, t>> \notin fired
    <3>1. \A t \in coming : ~(t <= now)
      BY <2>3, <1>1 DEF Instants
    <3>2. \A t : <<j, t>> \in fired => t <= now
      BY DEF UndoInv, FiredIsClaimed
    <3> QED BY <3>1, <3>2
  <2>7. [jobs[j] EXCEPT !.occ = list(j)] \in Paced
    BY <1>1, <2>1, <2>2, <2>3, <2>4, <2>5, StaysPaced
  <2>8. [jobs[j] EXCEPT !.occ = list(j)].occ = list(j)
    BY <2>1 DEF Paced, Undo!Job
  <2> QED BY <2>4, <2>5, <2>6, <2>7, <2>8
<1>3. /\ armed' = [j \in Jobs |-> IF ~jobs[j].here THEN Undo!Gone
                     ELSE IF ~jobs[j].on THEN Undo!Gone ELSE [jobs[j] EXCEPT !.occ = list(j)]]
      /\ UNCHANGED <<now, jobs, cal, stack, taken, saves, fired, reports, sent, edits, restarts>>
  BY DEF Undo!Sync, Undo!bounds
<1> HIDE DEF list
<1>4. armed' \in [Jobs -> MaybeJob]
  BY <1>2, <1>3 DEF MaybeJob
<1>5. UndoTypes'
  BY <1>3, <1>4, SchedKeepsTypes DEF UndoInv, UndoTypes
<1>6. \A j \in Jobs : armed'[j].here => \A t \in armed'[j].occ : <<j, t>> \notin fired
  <2> TAKE j \in Jobs
  <2>1. CASE armed'[j] = Undo!Gone
    BY <2>1 DEF Undo!Gone
  <2>2. CASE jobs[j].here /\ armed'[j] = [jobs[j] EXCEPT !.occ = list(j)]
    BY <2>2, <1>2
  <2> QED BY <2>1, <2>2, <1>3
<1>7. FiredIsClaimed'
  BY <1>3, <1>6 DEF UndoInv, FiredIsClaimed
<1> QED BY <1>5, <1>7 DEF UndoInv

LEMMA FireKeeps ==
  ASSUME Undo!UndoStackAssumption, UndoInv, NEW j \in Jobs, Undo!Fire(j) PROVE UndoInv'
<1> DEFINE due  == Undo!Missed(armed[j].occ, now)
           t    == Undo!Latest(due)
           left == Undo!StillFuture(armed[j].occ, now)
           occ  == Undo!TopUp(armed[j].rule, left, armed[j].runs + 1, now)
           job  == [armed[j] EXCEPT !.runs = @ + 1, !.occ = occ]
           told == [runs |-> job.runs, occ |-> job.occ]
<1>1. now \in 0..MaxTime /\ armed \in [Jobs -> MaybeJob] /\ armed[j] \in Paced /\ due # {}
  BY HereIsPaced DEF UndoInv, UndoTypes, Undo!Fire
<1>2. /\ armed[j].rule.fires \subseteq Instants /\ armed[j].occ \subseteq Instants
      /\ armed[j].runs \in 0..MaxTime /\ armed[j] \in Undo!Job
      /\ \A u \in armed[j].occ : armed[j].runs < u
  BY <1>1, PacedFields DEF Paced
<1>3. t \in armed[j].occ /\ t <= now /\ t \in Instants
  <2>1. due \subseteq armed[j].occ /\ \A u \in due : u <= now
    BY DEF Undo!Missed
  <2> HIDE DEF due
  <2> QED BY <2>1, <1>1, <1>2, LatestIsLast
<1>4. occ \subseteq Instants /\ \A u \in occ : u > now
  <2>1. left \subseteq Instants /\ \A u \in left : u > now
    BY <1>2 DEF Undo!StillFuture
  <2> HIDE DEF left
  <2> QED BY <2>1, <1>1, <1>2, TopUpLater
<1>5. /\ fired' = fired \cup {<<j, t>>} /\ sent' = [sent EXCEPT ![<<j, t>>] = @ + 1]
      /\ armed' = [armed EXCEPT ![j] = job]
      /\ reports' = [reports EXCEPT ![j] = Append(@, told)]
      /\ UNCHANGED <<now, jobs, cal, stack, taken, saves, edits, restarts>>
  BY DEF Undo!Fire, Undo!bounds
<1> HIDE DEF due, t, left, occ
<1>6. armed[j].runs + 1 \in 0..MaxTime /\ armed[j].runs + 1 <= now
  <2>1. armed[j].runs < t /\ MaxTime \in Nat
    BY <1>2, <1>3 DEF Undo!UndoStackAssumption
  <2> QED BY <2>1, <1>1, <1>2, <1>3 DEF Instants
<1>7. /\ job \in Undo!Job /\ job.runs = armed[j].runs + 1 /\ job.occ = occ
      /\ \A u \in occ : armed[j].runs + 1 < u
  <2>1. job \in Undo!Job /\ job.runs = armed[j].runs + 1 /\ job.occ = occ
    BY <1>2, <1>4, <1>6 DEF Undo!Job, Instants
  <2>2. \A u \in occ : armed[j].runs + 1 < u
    BY <1>1, <1>2, <1>4, <1>6 DEF Instants
  <2> QED BY <2>1, <2>2
<1>8. job \in Paced /\ told \in Reported
  BY <1>4, <1>6, <1>7 DEF Paced, Reported
<1> HIDE DEF job, told
<1>9. armed' \in [Jobs -> MaybeJob]
  BY <1>1, <1>5, <1>8 DEF MaybeJob
<1>10. reports' \in [Jobs -> Seq(Reported)]
  BY <1>5, <1>8 DEF UndoInv, UndoTypes
<1>11. <<j, t>> \notin fired /\ <<j, t>> \in Jobs \X Instants
  BY <1>3 DEF UndoInv, FiredIsClaimed, Undo!Fire
<1>12. sent' \in [Jobs \X Instants -> Nat] /\ sent \in [Jobs \X Instants -> Nat]
  BY <1>5, <1>11 DEF UndoInv, UndoTypes
<1>13. UndoTypes'
  BY <1>5, <1>9, <1>10, <1>11, <1>12, SchedKeepsTypes DEF UndoInv, UndoTypes
<1>14. FiredIsClaimed'
  <2>1. \A k \in fired' : k[2] <= now'
    BY <1>3, <1>5 DEF UndoInv, FiredIsClaimed
  <2>2. ASSUME NEW i \in Jobs, armed'[i].here, NEW u \in armed'[i].occ PROVE <<i, u>> \notin fired'
    <3>1. CASE i = j
      <4>1. u \in occ
        BY <2>2, <3>1, <1>1, <1>5, <1>7
      <4>2. ~(u <= now)
        BY <4>1, <1>1, <1>4 DEF Instants
      <4>3. \A v : <<j, v>> \in fired' => v <= now
        BY <2>1, <1>5
      <4> QED BY <4>2, <4>3, <3>1
    <3>2. CASE i # j
      <4>1. armed'[i] = armed[i]
        BY <3>2, <1>1, <1>5
      <4> QED BY <2>2, <3>2, <4>1, <1>5 DEF UndoInv, FiredIsClaimed
    <3> QED BY <3>1, <3>2
  <2>3. ASSUME restarts' = 0, NEW k \in Jobs \X Instants
        PROVE  sent'[k] <= 1 /\ (k \notin fired' => sent'[k] = 0)
    <3>1. sent[k] <= 1 /\ (k \notin fired => sent[k] = 0)
      BY <2>3, <1>5 DEF UndoInv, FiredIsClaimed
    <3>2. CASE k = <<j, t>>
      BY <3>1, <3>2, <1>5, <1>11, <1>12
    <3>3. CASE k # <<j, t>>
      BY <3>1, <3>3, <1>5, <1>12
    <3> QED BY <3>2, <3>3
  <2> QED BY <2>1, <2>2, <2>3 DEF FiredIsClaimed
<1> QED BY <1>13, <1>14 DEF UndoInv

LEMMA JobRanKeeps ==
  ASSUME UndoInv, NEW j \in Jobs, Undo!JobRan(j) PROVE UndoInv'
<1>1. reports[j] \in Seq(Reported) /\ reports[j] # <<>> /\ reports \in [Jobs -> Seq(Reported)]
      /\ jobs \in [Jobs -> MaybeJob]
  BY DEF UndoInv, UndoTypes, Undo!JobRan
<1>2. Head(reports[j]) \in Reported /\ Tail(reports[j]) \in Seq(Reported)
  BY <1>1
<1> DEFINE r == Head(reports[j])
           job == [jobs[j] EXCEPT !.runs = r.runs, !.occ = r.occ]
<1>3. reports' \in [Jobs -> Seq(Reported)]
  BY <1>1, <1>2 DEF Undo!JobRan
<1>4. jobs' = IF ~jobs[j].here THEN jobs ELSE [jobs EXCEPT ![j] = job]
  BY <1>1 DEF Undo!JobRan
<1>5. ASSUME jobs[j].here PROVE job \in Paced
  <2>1. jobs[j] \in Undo!Job
    BY <1>1, <1>5, HereIsPaced DEF Paced
  <2>2. /\ r.runs \in 0..MaxTime /\ r.occ \subseteq Instants /\ r.runs <= now
        /\ \A t \in r.occ : r.runs < t
    BY <1>2 DEF Reported
  <2> HIDE DEF r
  <2>3. job \in Undo!Job /\ job.runs = r.runs /\ job.occ = r.occ
    BY <2>1, <2>2 DEF Undo!Job, Instants
  <2> QED BY <2>2, <2>3 DEF Paced
<1> HIDE DEF job
<1>6. jobs' \in [Jobs -> MaybeJob]
  BY <1>1, <1>4, <1>5 DEF MaybeJob
<1>7. UNCHANGED <<now, cal, stack, taken, saves, edits, restarts, armed, fired, sent>>
  BY DEF Undo!JobRan, Undo!Disturb, Undo!bounds
<1>8. UndoTypes'
  BY <1>3, <1>6, <1>7, SchedKeepsTypes DEF UndoInv, UndoTypes
<1>9. FiredIsClaimed'
  BY <1>7 DEF UndoInv, FiredIsClaimed
<1> QED BY <1>8, <1>9 DEF UndoInv

LEMMA RestartKeeps ==
  ASSUME Undo!UndoStackAssumption, UndoInv, Undo!Restart PROVE UndoInv'
<1>1. now \in Nat /\ jobs \in [Jobs -> MaybeJob] /\ Depth \in Nat /\ restarts \in 0..MaxRestarts
      /\ MaxRestarts \in Nat
  BY DEF UndoInv, UndoTypes, Undo!UndoStackAssumption
<1> DEFINE list(j) == IF jobs[j].on
                      THEN Undo!DueNow(jobs[j].rule, jobs[j].occ, now)
                             \cup Undo!Upcoming(jobs[j].rule, jobs[j].occ, jobs[j].runs, now)
                      ELSE jobs[j].occ
<1>2. ASSUME NEW j \in Jobs, jobs[j].here PROVE [jobs[j] EXCEPT !.occ = list(j)] \in Paced
  <2> DEFINE coming == Undo!Upcoming(jobs[j].rule, jobs[j].occ, jobs[j].runs, now)
             due    == Undo!DueNow(jobs[j].rule, jobs[j].occ, now)
  <2>1. jobs[j] \in Paced
    BY <1>1, <1>2, HereIsPaced
  <2>2. jobs[j].rule.fires \subseteq Instants /\ jobs[j].occ \subseteq Instants
    BY <2>1, PacedFields
  <2>3. coming \subseteq Instants /\ \A t \in coming : t > now
    BY <1>1, <2>2, UpcomingLater
  <2>4. due \subseteq jobs[j].occ
    BY <2>2, DueIsStored
  <2> HIDE DEF coming, due
  <2>5. list(j) = IF jobs[j].on THEN due \cup coming ELSE jobs[j].occ
    BY DEF due, coming
  <2> HIDE DEF list
  <2>6. list(j) \subseteq Instants /\ \A t \in list(j) : t > now \/ t \in jobs[j].occ
    BY <2>2, <2>3, <2>4, <2>5
  <2> QED BY <1>1, <2>1, <2>6, StaysPaced
<1>3. /\ jobs' = [j \in Jobs |-> IF jobs[j].here THEN [jobs[j] EXCEPT !.occ = list(j)]
                                 ELSE Undo!Gone]
      /\ restarts < MaxRestarts /\ restarts' = restarts + 1
      /\ stack' = <<>> /\ taken' = Undo!Nothing /\ fired' = {} /\ saves' = {} /\ edits' = edits
      /\ armed' = [j \in Jobs |-> Undo!Gone]
      /\ UNCHANGED <<now, cal, reports, sent>>
  BY DEF Undo!Restart
<1> HIDE DEF list
<1>4. jobs' \in [Jobs -> MaybeJob] /\ armed' \in [Jobs -> MaybeJob]
  BY <1>2, <1>3 DEF MaybeJob
<1>5. restarts' \in 0..MaxRestarts /\ restarts' # 0
  BY <1>1, <1>3
<1>6. UndoTypes'
  <2>1. Paced' = Paced
    BY <1>3 DEF Paced
  <2>2. MaybeJob' = MaybeJob /\ SomeJobs' = SomeJobs /\ Entries' = Entries
    BY <2>1 DEF MaybeJob, SomeJobs, Entries
  <2>3. Reported' = Reported
    BY <1>3 DEF Reported
  <2>4. stack' \in Seq(Entries) /\ Len(stack') <= Depth /\ SavesTyped(saves)'
    BY <1>1, <1>3 DEF SavesTyped
  <2> QED BY <1>3, <1>4, <1>5, <2>2, <2>3, <2>4 DEF UndoInv, UndoTypes
<1>7. FiredIsClaimed'
  BY <1>3, <1>5 DEF FiredIsClaimed, Undo!Gone
<1> QED BY <1>6, <1>7 DEF UndoInv

LEMMA StepUndo ==
  ASSUME Undo!UndoStackAssumption, UndoInv, [Undo!Next]_(Undo!vars) PROVE UndoInv'
<1>1. CASE UNCHANGED Undo!vars
  BY <1>1, EditKeepsUndo DEF Undo!vars, Undo!sched, Undo!bounds, UndoInv, UndoTypes
<1> QED
  BY <1>1, UndoKeeps, LetGoKeeps, AdvanceKeeps, SyncKeeps, RestartKeeps, HoldKeeps, ConfirmKeeps,
     SavesKeeps, DeleteJobKeeps, ToggleJobKeeps, FireKeeps, JobRanKeeps, DaysKeep
  DEF Undo!Next

-----------------------------------------------------------------------------
\* The numbers of the edits tell whose entry is whose save's.
LEMMA OwnRests ==
  ASSUME OwnInv, UNCHANGED stack, edits \in Nat, edits' \in {edits, edits + 1}, UndoTypes,
         \A s \in saves' : s \in saves \/ (s.of = edits + 1 /\ edits' = edits + 1)
  PROVE  OwnInv'
<1>1. \A i \in 1..Len(stack) : stack[i].of \in Nat
  <2>1. stack \in Seq(Entries)
    BY DEF UndoTypes
  <2>2. \A i \in 1..Len(stack) : stack[i] \in Entries
    BY <2>1
  <2> QED BY <2>2 DEF Entries
<1>2. \A s \in saves : s.of \in Nat
  BY DEF UndoTypes, SavesTyped
<1>3. ASSUME NEW i \in 1..Len(stack) PROVE stack[i].of <= edits' /\ stack[i].of # edits + 1
  BY <1>1, <1>3 DEF OwnInv
<1>4. ASSUME NEW s \in saves' PROVE s.of <= edits'
  BY <1>2, <1>4 DEF OwnInv
<1> QED BY <1>3, <1>4 DEF OwnInv

LEMMA OwnPushed ==
  ASSUME Undo!UndoStackAssumption, OwnInv, UndoTypes, NEW e \in Entries, NEW current,
         Undo!Push(e, current), edits' = edits + 1, e.of = edits + 1,
         \A s \in saves' : s \in saves \/ (s.of = edits + 1 /\ s.id \in DOMAIN e.jobs)
  PROVE  OwnInv'
<1>1. stack \in Seq(Entries) /\ edits \in Nat /\ Depth \in Nat \ {0}
  BY DEF UndoTypes, Undo!UndoStackAssumption
<1> DEFINE n == Undo!AtMost(Len(stack) + 1, Depth)
<1>2. /\ stack'[1] = e /\ Len(stack') = n
      /\ \A i \in 2..n : stack'[i] = stack[i - 1] /\ i - 1 \in 1..Len(stack)
  <2>1. stack' = Pushed(e, stack, Depth) /\ IsList(stack)
    BY <1>1 DEF Undo!Push, Undo!Last20, Undo!AtMost, Pushed, IsList
  <2> QED BY <2>1, <1>1, PushedList
<1>3. n \in Nat
  BY <1>1 DEF Undo!AtMost
<1> HIDE DEF n
<1>4. ASSUME NEW i \in 1..Len(stack'), i # 1
      PROVE  \E k \in 1..Len(stack) : stack'[i] = stack[k] /\ stack[k].of <= edits
                                      /\ stack[k].of \in Nat
  <2>1. i \in 2..n
    BY <1>2, <1>3, <1>4
  <2>2. i - 1 \in 1..Len(stack) /\ stack'[i] = stack[i - 1] /\ stack[i - 1] \in Entries
    BY <1>1, <1>2, <2>1
  <2> QED BY <2>2 DEF OwnInv, Entries
<1>5. \A s \in saves : s.of \in Nat /\ s.of <= edits
  BY DEF UndoTypes, SavesTyped, OwnInv
<1>6. \A i \in 1..Len(stack') : stack'[i].of <= edits'
  BY <1>1, <1>2, <1>4
<1>7. \A s \in saves' : s.of <= edits'
  BY <1>1, <1>5
<1>8. ASSUME NEW s \in saves', NEW i \in 1..Len(stack'), stack'[i].of = s.of
      PROVE  s.id \in DOMAIN stack'[i].jobs
  <2>1. CASE i = 1
    <3>1. s.of = edits + 1
      BY <1>2, <1>8, <2>1
    <3>2. s \notin saves
      BY <1>1, <1>5, <3>1
    <3> QED BY <1>2, <2>1, <3>2
  <2>2. CASE i # 1
    <3>1. PICK k \in 1..Len(stack) : stack'[i] = stack[k] /\ stack[k].of <= edits
                                     /\ stack[k].of \in Nat
      BY <1>4, <2>2
    <3>2. s \in saves
      BY <1>1, <1>8, <3>1
    <3> QED BY <1>8, <3>1, <3>2 DEF OwnInv
  <2> QED BY <2>1, <2>2
<1> QED BY <1>6, <1>7, <1>8 DEF OwnInv

LEMMA StepOwn ==
  ASSUME Undo!UndoStackAssumption, UndoInv, OwnInv, [Undo!Next]_(Undo!vars) PROVE OwnInv'
<1>a. UndoTypes /\ edits \in Nat /\ stack \in Seq(Entries)
  BY DEF UndoInv, UndoTypes
<1>b. ASSUME UNCHANGED stack, edits' \in {edits, edits + 1}, saves' \subseteq saves PROVE OwnInv'
  BY <1>a, <1>b, OwnRests
<1>p. ASSUME NEW js \in SomeJobs, NEW cals \in SUBSET SUBSET Days, NEW current,
             Undo!Push(Undo!Entry(js, cals), current), edits' = edits + 1,
             \A s \in saves' : s \in saves \/ (s.of = edits + 1 /\ s.id \in DOMAIN js)
      PROVE  OwnInv'
  <2> DEFINE e == Undo!Entry(js, cals)
  <2>1. e \in Entries /\ e.of = edits + 1 /\ e.jobs = js
    BY <1>a DEF Undo!Entry, Entries
  <2> HIDE DEF e
  <2>2. Undo!Push(e, current)
    BY <1>p DEF e
  <2>3. \A s \in saves' : s \in saves \/ (s.of = edits + 1 /\ s.id \in DOMAIN e.jobs)
    BY <1>p, <2>1
  <2> QED BY <1>a, <1>p, <2>1, <2>2, <2>3, OwnPushed
<1>1. CASE Undo!Undo
  <2>1. stack # <<>> /\ stack' = Tail(stack) /\ UNCHANGED <<saves, edits>>
    BY <1>1 DEF Undo!Undo, Undo!bounds
  <2>2. /\ Len(stack') = Len(stack) - 1 /\ Len(stack) \in Nat
        /\ \A i \in 1..Len(stack') : stack'[i] = stack[i + 1] /\ i + 1 \in 1..Len(stack)
    BY <1>a, <2>1
  <2> QED BY <2>1, <2>2 DEF OwnInv
<1>2. CASE \/ Undo!LetGo \/ Undo!Advance \/ Undo!Sync \/ UNCHANGED Undo!vars
           \/ \E S \in Undo!Some, undoable \in BOOLEAN : Undo!Hold(S, undoable)
  BY <1>2, <1>b DEF Undo!LetGo, Undo!Advance, Undo!Sync, Undo!vars, Undo!Hold, Undo!bounds
<1>3. CASE Undo!Restart
  <2>1. stack' = <<>> /\ saves' = {} /\ Len(<<>>) = 0
    BY <1>3 DEF Undo!Restart
  <2>2. ASSUME NEW i \in 1..Len(stack') PROVE FALSE
    BY <2>1, <2>2
  <2> QED BY <2>1, <2>2 DEF OwnInv
<1>4. ASSUME NEW rule \in Rules, Undo!Confirm(rule) PROVE OwnInv'
  <2>1. /\ taken.jobs \in SomeJobs /\ edits' = edits + 1
        /\ \A s \in saves' : s \in saves \/ (s.of = edits + 1 /\ s.id \in DOMAIN taken.jobs)
    BY <1>4 DEF Undo!Confirm, Undo!Edits, UndoInv, UndoTypes
  <2>2. CASE taken.undoable
    <3>1. Undo!Push(Undo!Entry(taken.jobs, {}), taken.jobs = [j \in DOMAIN taken.jobs |-> jobs[j]])
      BY <1>4, <2>2 DEF Undo!Confirm, Undo!Before
    <3> QED BY <2>1, <3>1, <1>p
  <2>3. CASE ~taken.undoable
    <3>1. UNCHANGED stack
      BY <1>4, <2>3 DEF Undo!Confirm
    <3> QED BY <1>a, <2>1, <3>1, OwnRests
  <2> QED BY <2>2, <2>3
<1>5. ASSUME NEW s \in saves, Undo!Saves(s) PROVE OwnInv'
  BY <1>5, <1>b DEF Undo!Saves, Undo!Disturb, Undo!bounds
<1>6. ASSUME NEW j \in Jobs, Undo!DeleteJob(j) PROVE OwnInv'
  <2>1. [i \in {j} |-> jobs[i]] \in SomeJobs
    <3>1. jobs[j] \in Paced
      BY <1>6, HereIsPaced DEF UndoInv, UndoTypes, Undo!DeleteJob
    <3>2. [i \in {j} |-> jobs[i]] \in [{j} -> Paced] /\ {j} \in SUBSET Jobs
      BY <3>1
    <3> QED BY <3>2 DEF SomeJobs
  <2>2. /\ Undo!Push(Undo!Entry([i \in {j} |-> jobs[i]], {}), TRUE) /\ edits' = edits + 1
        /\ saves' = saves
    BY <1>6 DEF Undo!DeleteJob, Undo!Edits
  <2> QED BY <2>1, <2>2, <1>p
<1>7. ASSUME NEW d, Undo!ToggleDay(d) PROVE OwnInv'
  <2>1. Undo!NoJobs \in SomeJobs /\ {cal} \in SUBSET SUBSET Days
    <3>1. Undo!NoJobs \in [{} -> Paced] /\ {} \in SUBSET Jobs
      BY DEF Undo!NoJobs
    <3> QED BY <3>1 DEF SomeJobs, UndoInv, UndoTypes
  <2>2. /\ Undo!Push(Undo!Entry(Undo!NoJobs, {cal}), TRUE) /\ edits' = edits + 1
        /\ saves' = saves
    BY <1>7 DEF Undo!ToggleDay, Undo!Edits
  <2> QED BY <2>1, <2>2, <1>p
<1>8. ASSUME NEW j \in Jobs, Undo!ToggleJob(j) \/ Undo!Fire(j) \/ Undo!JobRan(j) PROVE OwnInv'
  BY <1>8, <1>b DEF Undo!ToggleJob, Undo!Fire, Undo!JobRan, Undo!Disturb, Undo!Edits, Undo!bounds
<1>9. ASSUME NEW c, Undo!Adopt(c) PROVE OwnInv'
  BY <1>9, <1>b DEF Undo!Adopt, Undo!Disturb
<1> QED BY <1>1, <1>2, <1>3, <1>4, <1>5, <1>6, <1>7, <1>8, <1>9 DEF Undo!Next

LEMMA InitLeads ==
  ASSUME NEW J, jobs = [j \in J |-> jobs[j]], stack = <<>>, past = <<>> PROVE LeadsBack(J)
<1>1. <<>> \in Seq({}) /\ Len(<<>>) = 0
  OBVIOUS
<1>2. OlderLead
  <2>1. ASSUME NEW i \in 2..Len(stack) PROVE FALSE
    BY <1>1
  <2> QED BY <2>1 DEF OlderLead
<1> QED BY <1>1, <1>2 DEF LeadsBack, NewestLeads, IsList

StackInv == UndoInv /\ OwnInv /\ LeadsBack(Jobs)

LEMMA InitStack == ASSUME Undo!UndoStackAssumption, Undo!Init PROVE StackInv
<1>1. jobs = [j \in Jobs |-> jobs[j]] /\ stack = <<>> /\ past = <<>>
  BY DEF Undo!Init
<1>2. OwnInv
  <2>1. Len(<<>>) = 0 /\ saves = {}
    BY DEF Undo!Init
  <2>2. ASSUME NEW i \in 1..Len(stack) PROVE FALSE
    BY <1>1, <2>1, <2>2
  <2> QED BY <2>1, <2>2 DEF OwnInv
<1> QED BY <1>1, <1>2, InitUndo, InitLeads DEF StackInv

LEMMA StepStack ==
  ASSUME Undo!UndoStackAssumption, StackInv, [Undo!Next]_(Undo!vars) PROVE StackInv'
BY StepUndo, StepOwn, StepLeads DEF StackInv

LEMMA StackRests ==
  ASSUME StackInv, UNCHANGED <<now, jobs, cal, stack, taken, saves, armed, fired, reports, sent,
                               past, edits, restarts>>
  PROVE  StackInv'
<1>1. UndoInv'
  <2>1. UndoInv
    BY DEF StackInv
  <2> QED BY <2>1, EditKeepsUndo DEF UndoInv, UndoTypes
<1>2. LeadsBack(Jobs)'
  BY DEF StackInv, LeadsBack, NewestLeads, OlderLead
<1>3. OwnInv'
  BY DEF StackInv, OwnInv
<1> QED BY <1>1, <1>2, <1>3 DEF StackInv

THEOREM StackInvHolds == ASSUME Undo!UndoStackAssumption PROVE Undo!Spec => []StackInv
BY InitStack, StepStack, PTL DEF Undo!Spec

LEMMA StackTypes == ASSUME StackInv PROVE Undo!TypeOK
<1>1. UndoInv /\ LeadsBack(Jobs) /\ Paced \subseteq Undo!Job
  BY DEF StackInv, Paced
<1>2. /\ jobs \in [Jobs -> Undo!Job \cup {Undo!Gone}]
      /\ armed \in [Jobs -> Undo!Job \cup {Undo!Gone}]
  BY <1>1 DEF UndoInv, UndoTypes, MaybeJob
<1>3. ASSUME NEW e \in Entries
      PROVE  /\ DOMAIN e.jobs \subseteq Jobs /\ \A j \in DOMAIN e.jobs : e.jobs[j] \in Undo!Job
             /\ e.cal \subseteq SUBSET Days
  <2>1. e.jobs \in SomeJobs /\ e.cal \in SUBSET SUBSET Days
    BY <1>3 DEF Entries
  <2>2. PICK S \in SUBSET Jobs : e.jobs \in [S -> Paced]
    BY <2>1 DEF SomeJobs
  <2> QED BY <2>1, <2>2, <1>1
<1>4. \A e \in Undo!Range(stack) : e \in Entries
  <2>1. stack \in Seq(Entries)
    BY <1>1 DEF UndoInv, UndoTypes
  <2> QED BY <2>1 DEF Undo!Range
<1>5. /\ Len(past) = Len(stack) /\ Len(stack) <= Depth /\ now \in 0..MaxTime
      /\ cal \in SUBSET Days /\ fired \subseteq Jobs \X (1..MaxTime)
  BY <1>1 DEF LeadsBack, UndoInv, UndoTypes, Instants
<1>6. \A s \in saves : s.id \in Jobs /\ s.job \in Undo!Job
  BY <1>1 DEF UndoInv, UndoTypes, SavesTyped
<1> QED BY <1>2, <1>3, <1>4, <1>5, <1>6 DEF Undo!TypeOK

\* The variables have their types: no entry is of a job that never was, the stack is no
\* deeper than it may be, and no job has more runs than there are instants (useUndo.ts).
THEOREM UndoIsTyped ==
  ASSUME Undo!UndoStackAssumption PROVE Undo!Spec => []Undo!TypeOK
BY StackInvHolds, StackTypes, PTL

LEMMA StackSendsOnce == ASSUME StackInv, restarts = 0 PROVE Undo!SentOnce
<1>1. sent \in [Jobs \X Instants -> Nat]
  BY DEF StackInv, UndoInv, UndoTypes
<1> QED BY <1>1 DEF StackInv, UndoInv, FiredIsClaimed, Undo!SentOnce

\* While the app runs no undo has an occurrence sent twice (scheduler.ts, sync: what was fired is
\* not owed again), however deep the stack and whatever is edited, for any jobs and rules.
THEOREM SentOnceHolds ==
  ASSUME Undo!UndoStackAssumption PROVE Undo!Spec => [](restarts = 0 => Undo!SentOnce)
BY StackInvHolds, StackSendsOnce, PTL

LEMMA StackLeads == ASSUME StackInv PROVE LeadsBack(Jobs)
BY DEF StackInv

LEMMA LeadsBackRests ==
  ASSUME NEW J, LeadsBack(J), UNCHANGED <<jobs, cal, stack, past>> PROVE LeadsBack(J)'
BY DEF LeadsBack, NewestLeads, OlderLead

LEMMA StackLeadsBack == ASSUME NEW J, LeadsBack(J) PROVE Undo!UndoLeadsBack
BY UndoGoesBack DEF Undo!UndoLeadsBack

\* Undoing leads back, entry by entry, to the states there were (useUndo.ts, undo).
THEOREM UndoLeadsBackHolds ==
  ASSUME Undo!UndoStackAssumption
  PROVE  Undo!Spec => [][Undo!UndoLeadsBack]_(Undo!vars)
<1>1. StackInv /\ [Undo!Next]_(Undo!vars) => [Undo!UndoLeadsBack]_(Undo!vars)
  BY StackLeadsBack DEF StackInv
<1> QED BY <1>1, StackInvHolds, PTL DEF Undo!Spec
==============================================================================
