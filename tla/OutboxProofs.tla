---------------------------- MODULE OutboxProofs -----------------------------
(***************************************************************************)
(* Proofs about Outbox, for every length of the queue, every limit on      *)
(* attempts and every bound: its types, that an item marked as being sent  *)
(* is being sent, that no message is tried beyond the limit, and that none *)
(* is sent twice.                                                          *)
(***************************************************************************)
EXTENDS Outbox, WellFoundedInduction, TLAPS

-----------------------------------------------------------------------------
(* The operators on the queue. *)

\* A non-empty set of messages has an oldest one.
LEMMA OldestIsIn ==
  ASSUME NEW S, S \subseteq Ids, S # {}
  PROVE  Oldest(S) \in S
<1>1. S \subseteq Nat
  BY OutboxAssumption DEF Ids
<1>2. PICK x \in S : \A y \in S : ~(<<y, x>> \in OpToRel(<, Nat))
  BY <1>1, WFMin, NatLessThanWellFounded
<1>3. \A y \in S : y < x => <<y, x>> \in OpToRel(<, Nat)
  BY <1>1 DEF OpToRel
<1>4. \A y \in S : ~(y < x)
  BY <1>2, <1>3, Zenon
<1>5. \A y \in S : x <= y
  BY <1>1, <1>4
<1> QED BY <1>5 DEF Oldest

\* No item looks like the absence of one.
LEMMA ItemIsSome == ASSUME NEW x \in Item PROVE x # NoItem
BY OutboxAssumption DEF Item, NoItem, Parts

\* Enqueue() adds its item, drops at most one, and leaves the others alone.
LEMMA EnqueueKeeps ==
  ASSUME NEW q \in Queue, NEW i \in Ids, NEW item \in Item
  PROVE  /\ Enqueue(q, i, item) \in Queue
         /\ Enqueue(q, i, item)[i] \in {item, NoItem}
         /\ \A k \in Ids \ {i} : Enqueue(q, i, item)[k] \in {q[k], NoItem}
<1> DEFINE full == [q EXCEPT ![i] = item]
<1>1. full \in Queue /\ full[i] = item /\ \A k \in Ids \ {i} : full[k] = q[k]
  BY DEF Queue
<1>2. ASSUME NEW o
      PROVE  /\ [full EXCEPT ![o] = NoItem] \in Queue
             /\ \A k \in Ids : [full EXCEPT ![o] = NoItem][k] \in {full[k], NoItem}
  BY <1>1 DEF Queue
<1>3. Enqueue(q, i, item) \in {full, [full EXCEPT ![Oldest(Listed(full))] = NoItem]}
  BY DEF Enqueue
<1> HIDE DEF full
<1>4. CASE Enqueue(q, i, item) = full
  BY <1>1, <1>4
<1>5. CASE Enqueue(q, i, item) = [full EXCEPT ![Oldest(Listed(full))] = NoItem]
  <2> DEFINE dropped == [full EXCEPT ![Oldest(Listed(full))] = NoItem]
  <2>1. dropped \in Queue /\ \A k \in Ids : dropped[k] \in {full[k], NoItem}
    BY <1>2
  <2> HIDE DEF dropped
  <2>2. Enqueue(q, i, item) = dropped
    BY <1>5 DEF dropped
  <2> QED BY <1>1, <2>1, <2>2
<1> QED BY <1>3, <1>4, <1>5

\* Patch() changes an item that is there, and brings none back.
LEMMA PatchKeeps ==
  ASSUME NEW q \in Queue, NEW i \in Ids, NEW item, q[i] # NoItem => item \in Item
  PROVE  /\ Patch(q, i, item) \in Queue
         /\ Patch(q, i, item)[i] = IF q[i] = NoItem THEN NoItem ELSE item
         /\ \A k \in Ids \ {i} : Patch(q, i, item)[k] = q[k]
BY DEF Patch, Queue

\* What an attempt leaves is an item with one attempt more, not being sent.
LEMMA AfterAttemptKeeps ==
  ASSUME NEW item \in Item, item.attempts < MaxAttempts, NEW verdict
  PROVE  /\ AfterAttempt(item, verdict) \in Item
         /\ AfterAttempt(item, verdict).attempts = item.attempts + 1
         /\ AfterAttempt(item, verdict).status # "sending"
<1> DEFINE status == IF item.attempts + 1 >= MaxAttempts \/ verdict # "retryable"
                       THEN "failed" ELSE "waiting"
<1>1. item.attempts + 1 \in 0..MaxAttempts
  BY OutboxAssumption DEF Item
<1>2. status \in {"waiting", "failed"} /\ status # "sending"
  OBVIOUS
<1>3. AfterAttempt(item, verdict)
        = [item EXCEPT !.attempts = @ + 1, !.ready = FALSE, !.status = status]
  BY DEF AfterAttempt
<1> HIDE DEF status
<1> QED BY <1>1, <1>2, <1>3 DEF Item

\* The items found due are items, and have attempts left.
LEMMA DueHaveAttempts ==
  ASSUME outbox \in Queue, NEW i \in DueItems
  PROVE  outbox[i] \in Item /\ outbox[i].attempts < MaxAttempts
<1>1. i \in Ids /\ outbox[i].status = "waiting" /\ outbox[i].attempts < MaxAttempts
  BY DEF DueItems
<1>2. outbox[i] # NoItem
  BY <1>1 DEF NoItem
<1> QED BY <1>1, <1>2 DEF Queue

\* A queue put back by the boot holds the same items, none of them being sent.
LEMMA RecoveredKeeps ==
  ASSUME disk \in Queue
  PROVE  /\ Recovered \in Queue
         /\ \A i \in Ids : /\ Recovered[i].status # "sending"
                           /\ Recovered[i] = NoItem <=> disk[i] = NoItem
<1>1. ASSUME NEW i \in Ids, disk[i].status = "sending"
      PROVE  /\ [disk[i] EXCEPT !.status = "waiting"] \in Item
             /\ [disk[i] EXCEPT !.status = "waiting"].status # "sending"
             /\ disk[i] # NoItem
  <2>1. disk[i] # NoItem
    BY <1>1 DEF NoItem
  <2>2. disk[i] \in Item
    BY <2>1 DEF Queue
  <2> QED BY <2>1, <2>2 DEF Item
<1> QED BY <1>1, ItemIsSome DEF Recovered, Queue

GoesTo(i, q, due, found) ==
  /\ flush' = [due |-> due, found |-> found, at |-> i, left |-> found[i].parts,
               verdict |-> "ok"]
  /\ outbox' = Patch(q, i, [q[i] EXCEPT !.status = "sending"])
  /\ tries' = [tries EXCEPT ![i] = @ + 1]

\* The pass goes on to an item that it found due, or ends.
LEMMA BeginCases ==
  ASSUME NEW q, NEW due \in SUBSET Ids, NEW found, Begin(q, due, found)
  PROVE  \/ /\ due = {} /\ flush' = NoFlush /\ outbox' = q /\ tries' = tries
         \/ due # {} /\ \E i \in due : GoesTo(i, q, due, found)
<1>1. CASE due = {}
  BY <1>1 DEF Begin
<1>2. CASE due # {}
  <2>1. Oldest(due) \in due
    BY <1>2, OldestIsIn
  <2>2. GoesTo(Oldest(due), q, due, found)
    BY <1>2 DEF Begin, GoesTo
  <2> QED BY <1>2, <2>1, <2>2
<1> QED BY <1>1, <1>2

\* What the pass knows then: items with attempts left.
LEMMA BeginPass ==
  ASSUME NEW q, NEW due \in SUBSET Ids, NEW found \in Queue,
         \A i \in due : found[i] \in Item /\ found[i].attempts < MaxAttempts,
         Begin(q, due, found)
  PROVE  flush' \in Flush \cup {NoFlush} /\ PassInv'
<1>1. CASE flush' = NoFlush
  BY <1>1 DEF PassInv
<1>2. ASSUME NEW i \in due, GoesTo(i, q, due, found)
      PROVE  flush' \in Flush \cup {NoFlush} /\ PassInv'
  <2>1. flush' = [due |-> due, found |-> found, at |-> i, left |-> found[i].parts,
                  verdict |-> "ok"]
    BY <1>2 DEF GoesTo
  <2>2. i \in Ids /\ found[i].parts \in 0..MaxParts
    BY OutboxAssumption DEF Item, Parts
  <2>3. flush' \in Flush
    BY <2>1, <2>2 DEF Flush, Verdict
  <2>4. flush'.due = due /\ flush'.found = found /\ flush'.at = i
    BY <2>1
  <2>5. PassInv'
    BY <2>4 DEF PassInv
  <2> QED BY <2>3, <2>5
<1> QED BY <1>1, <1>2, BeginCases

\* The items still to come are those it was given.
LEMMA BeginDue ==
  ASSUME NEW q, NEW due \in SUBSET Ids, NEW found, Begin(q, due, found)
  PROVE  flush'.due = due /\ \A i \in due : flush'.found[i] = found[i]
<1>1. CASE due = {}
  <2>1. flush' = NoFlush
    BY <1>1 DEF Begin
  <2> QED BY <1>1, <2>1 DEF NoFlush
<1>2. ASSUME NEW i, GoesTo(i, q, due, found)
      PROVE  flush'.due = due /\ flush'.found = found
  BY <1>2 DEF GoesTo
<1> QED BY <1>1, <1>2, BeginCases

\* A try is counted for the item the pass is at, which is one of those.
LEMMA BeginTries ==
  ASSUME NEW q, NEW due \in SUBSET Ids, NEW found, tries \in [Ids -> Nat],
         Begin(q, due, found)
  PROVE  /\ tries' \in [Ids -> Nat]
         /\ \A i \in Ids : tries'[i] = tries[i] + Going(i)' /\ (Going(i)' = 1 => i \in due)
<1>1. CASE due = {}
  <2>1. flush' = NoFlush /\ tries' = tries
    BY <1>1 DEF Begin
  <2>2. \A i \in Ids : Going(i)' = 0
    BY <2>1 DEF Going, NoFlush, Ids
  <2> QED BY <2>1, <2>2
<1>2. CASE due # {}
  <2>1. PICK i \in due : GoesTo(i, q, due, found)
    BY <1>2, BeginCases
  <2>2. flush'.at = i /\ tries' = [tries EXCEPT ![i] = @ + 1]
    BY <2>1 DEF GoesTo
  <2>3. \A k \in Ids : Going(k)' = IF k = i THEN 1 ELSE 0
    BY <2>2 DEF Going
  <2>4. tries' \in [Ids -> Nat]
    BY <2>2
  <2>5. \A k \in Ids : tries'[k] = IF k = i THEN tries[k] + 1 ELSE tries[k]
    BY <2>2
  <2> QED BY <2>3, <2>4, <2>5
<1> QED BY <1>1, <1>2

\* The queue holds the same items, and the one the pass is at says "sending".
LEMMA BeginItems ==
  ASSUME NEW q \in Queue, NEW due \in SUBSET Ids, NEW found, Begin(q, due, found)
  PROVE  /\ outbox' \in Queue
         /\ \A i \in Ids : /\ outbox'[i] = NoItem <=> q[i] = NoItem
                           /\ outbox'[i].attempts = q[i].attempts
                           /\ outbox'[i].status # q[i].status => flush'.at = i
<1>1. CASE due = {}
  <2>1. outbox' = q
    BY <1>1 DEF Begin
  <2> QED BY <2>1
<1>2. CASE due # {}
  <2>1. PICK i \in due : GoesTo(i, q, due, found)
    BY <1>2, BeginCases
  <2> DEFINE item == [q[i] EXCEPT !.status = "sending"]
  <2>2. flush'.at = i /\ i \in Ids
    BY <2>1 DEF GoesTo
  <2>3. q[i] # NoItem => item \in Item /\ item.attempts = q[i].attempts
    BY <2>2 DEF Queue, Item
  <2>4. outbox' = Patch(q, i, item)
    BY <2>1 DEF GoesTo
  <2> HIDE DEF item
  <2>5. /\ outbox' \in Queue
        /\ outbox'[i] = IF q[i] = NoItem THEN NoItem ELSE item
        /\ \A k \in Ids \ {i} : outbox'[k] = q[k]
    BY <2>2, <2>3, <2>4, PatchKeeps
  <2>6. outbox'[i] = NoItem <=> q[i] = NoItem
    BY <2>3, <2>5, ItemIsSome
  <2>7. outbox'[i].attempts = q[i].attempts
    BY <2>3, <2>5
  <2> QED BY <2>2, <2>5, <2>6, <2>7
<1> QED BY <1>1, <1>2

-----------------------------------------------------------------------------
(* Types. *)

PassTypes == TypeOK /\ PassInv

LEMMA TypeInit == Init => PassTypes
<1> SUFFICES ASSUME Init PROVE PassTypes
  OBVIOUS
<1>1. outbox \in Queue /\ disk \in Queue
  BY DEF Init, Queue
<1>2. taken \in [Ids -> [Parts -> Nat]] /\ tries \in [Ids -> Nat]
  BY DEF Init
<1>3. composed \in Seq(Parts) /\ Len(composed) <= MaxItems
  BY OutboxAssumption DEF Init
<1> QED BY <1>1, <1>2, <1>3 DEF Init, PassTypes, TypeOK, PassInv

\* A transport call counts, or not, what the server took.
LEMMA SendPartType ==
  ASSUME TypeOK, NEW i \in Ids, NEW part \in Parts, NEW verdict, SendPart(i, part, verdict)
  PROVE  taken' \in [Ids -> [Parts -> Nat]] /\ lost' \in Nat
<1>1. taken \in [Ids -> [Parts -> Nat]] /\ lost \in Nat
  BY DEF TypeOK
<1>2. [taken EXCEPT ![i][part] = @ + 1] \in [Ids -> [Parts -> Nat]]
  BY <1>1
<1> QED BY <1>1, <1>2 DEF SendPart

\* What the end of an attempt leaves of the queue.
LEMMA FlushedKeeps ==
  ASSUME TypeOK, PassInv, flush # NoFlush
  PROVE  /\ Flushed \in Queue
         /\ Flushed[flush.at] # NoItem =>
              /\ Flushed[flush.at].attempts = flush.found[flush.at].attempts + 1
              /\ outbox[flush.at] # NoItem
         /\ Flushed[flush.at].status # "sending"
         /\ \A i \in Ids \ {flush.at} : Flushed[i] = outbox[i]
<1> DEFINE at == flush.at
           item == AfterAttempt(flush.found[at], flush.verdict)
<1>1. at \in Ids /\ outbox \in Queue
  BY DEF TypeOK, Flush
<1>2. item \in Item /\ item.attempts = flush.found[at].attempts + 1 /\ item.status # "sending"
  BY AfterAttemptKeeps DEF PassInv
<1>3. /\ Patch(outbox, at, item) \in Queue
      /\ Patch(outbox, at, item)[at] = IF outbox[at] = NoItem THEN NoItem ELSE item
      /\ \A i \in Ids \ {at} : Patch(outbox, at, item)[i] = outbox[i]
  BY <1>1, <1>2, PatchKeeps
<1>4. CASE flush.verdict = "ok"
  <2>1. Flushed = [outbox EXCEPT ![at] = NoItem]
    BY <1>4 DEF Flushed
  <2>2. NoItem.status # "sending"
    BY DEF NoItem
  <2> QED BY <1>1, <2>1, <2>2 DEF Queue
<1>5. CASE flush.verdict # "ok"
  <2>1. Flushed = Patch(outbox, at, item)
    BY <1>5 DEF Flushed
  <2>2. NoItem.status # "sending"
    BY DEF NoItem
  <2> HIDE DEF item
  <2> QED BY <1>1, <1>2, <1>3, <2>1, <2>2
<1> QED BY <1>4, <1>5

\* Every step keeps the types, and what the pass knows of its items.
LEMMA TypeStep == PassTypes /\ [Next]_vars => PassTypes'
<1> SUFFICES ASSUME PassTypes, [Next]_vars PROVE PassTypes'
  OBVIOUS
<1> USE DEF PassTypes, queueVars, sendVars, worldVars, countVars
<1>1. CASE ComposeSend
  <2>1. PICK n \in Parts :
          /\ composed' = Append(composed, n)
          /\ compose' = [id |-> Len(composed) + 1, parts |-> n, left |-> n,
                         verdict |-> "ok", queue |-> enabled]
    BY <1>1 DEF ComposeSend
  <2>2. composed \in Seq(Parts) /\ Len(composed) < MaxItems /\ enabled \in BOOLEAN
    BY <1>1 DEF ComposeSend, TypeOK
  <2>3. composed' \in Seq(Parts) /\ Len(composed') <= MaxItems
    BY <2>1, <2>2, OutboxAssumption
  <2>4. Len(composed) + 1 \in Ids /\ n \in 0..MaxParts
    BY <2>2, OutboxAssumption DEF Ids, Parts
  <2>5. compose' \in Compose
    BY <2>1, <2>2, <2>4 DEF Compose, Verdict
  <2> QED BY <1>1, <2>3, <2>5 DEF ComposeSend, TypeOK, PassInv
<1>2. CASE ComposePart
  <2>1. PICK verdict \in Verdict :
          /\ SendPart(compose.id, compose.left, verdict)
          /\ compose' = [compose EXCEPT !.left = @ - 1, !.verdict = First(@, verdict)]
    BY <1>2 DEF ComposePart
  <2>2. compose \in Compose /\ compose.left > 0
    BY <1>2 DEF ComposePart, TypeOK, NoCompose
  <2>3. compose.id \in Ids /\ compose.left \in Parts
    BY <2>2, OutboxAssumption DEF Compose, Parts
  <2>4. taken' \in [Ids -> [Parts -> Nat]] /\ lost' \in Nat
    BY <2>1, <2>3, SendPartType
  <2>5. First(compose.verdict, verdict) \in Verdict /\ compose.left - 1 \in 0..MaxParts
    BY <2>2, <2>3, OutboxAssumption DEF First, Compose, Parts
  <2>6. compose' \in Compose
    BY <2>1, <2>2, <2>5 DEF Compose
  <2> QED BY <1>2, <2>4, <2>6 DEF ComposePart, TypeOK, PassInv
<1>3. CASE ComposeEnds
  <2> DEFINE item == [parts |-> compose.parts, attempts |-> 1, ready |-> FALSE,
                      status |-> "waiting"]
  <2>1. compose \in Compose
    BY <1>3 DEF ComposeEnds, TypeOK
  <2>2. item \in Item /\ compose.id \in Ids
    BY <2>1, OutboxAssumption DEF Compose, Item
  <2>3. outbox \in Queue
    BY DEF TypeOK
  <2>4. Enqueue(outbox, compose.id, item) \in Queue
    <3> HIDE DEF item
    <3> QED BY <2>2, <2>3, EnqueueKeeps
  <2>5. outbox' \in Queue
    BY <1>3, <2>3, <2>4 DEF ComposeEnds
  <2> QED BY <1>3, <2>5 DEF ComposeEnds, TypeOK, PassInv
<1>4. CASE StartFlush
  <2>1. outbox \in Queue /\ DueItems \in SUBSET Ids /\ tries \in [Ids -> Nat]
    BY DEF TypeOK, DueItems
  <2>2. \A i \in DueItems : outbox[i] \in Item /\ outbox[i].attempts < MaxAttempts
    BY <2>1, DueHaveAttempts
  <2>3. /\ flush' \in Flush \cup {NoFlush} /\ outbox' \in Queue /\ tries' \in [Ids -> Nat]
        /\ PassInv'
    BY <1>4, <2>1, <2>2, BeginPass, BeginTries, BeginItems DEF StartFlush
  <2> QED BY <1>4, <2>3 DEF StartFlush, TypeOK
<1>5. CASE FlushPart
  <2>1. PICK verdict \in Verdict :
          /\ SendPart(flush.at, flush.left, verdict)
          /\ flush' = [flush EXCEPT !.left = @ - 1, !.verdict = First(@, verdict)]
    BY <1>5 DEF FlushPart
  <2>2. flush \in Flush /\ flush # NoFlush /\ flush.left > 0
    BY <1>5 DEF FlushPart, TypeOK, NoFlush
  <2>3. flush.at \in Ids /\ flush.left \in Parts
    BY <2>2, OutboxAssumption DEF Flush, Parts
  <2>4. taken' \in [Ids -> [Parts -> Nat]] /\ lost' \in Nat
    BY <2>1, <2>3, SendPartType
  <2>5. First(flush.verdict, verdict) \in Verdict /\ flush.left - 1 \in 0..MaxParts
    BY <2>2, <2>3, OutboxAssumption DEF First, Flush, Parts
  <2>6. /\ flush' \in Flush
        /\ flush'.at = flush.at /\ flush'.due = flush.due /\ flush'.found = flush.found
    BY <2>1, <2>2, <2>5 DEF Flush
  <2>7. PassInv'
    BY <2>2, <2>6 DEF PassInv
  <2> QED BY <1>5, <2>4, <2>6, <2>7 DEF FlushPart, TypeOK
<1>6. CASE FlushEnds
  <2>1. flush # NoFlush /\ flush \in Flush
    BY <1>6 DEF FlushEnds, TypeOK
  <2>2. Flushed \in Queue
    BY <2>1, FlushedKeeps
  <2>3. /\ flush.due \ {flush.at} \in SUBSET Ids /\ flush.found \in Queue
        /\ tries \in [Ids -> Nat]
    BY <2>1 DEF Flush, TypeOK
  <2>4. /\ flush' \in Flush \cup {NoFlush} /\ outbox' \in Queue /\ tries' \in [Ids -> Nat]
        /\ PassInv'
    <3>1. \A i \in flush.due \ {flush.at} :
            flush.found[i] \in Item /\ flush.found[i].attempts < MaxAttempts
      BY <2>1 DEF PassInv
    <3>2. Begin(Flushed, flush.due \ {flush.at}, flush.found)
      BY <1>6 DEF FlushEnds
    <3>3. flush' \in Flush \cup {NoFlush} /\ PassInv'
      BY <2>3, <3>1, <3>2, BeginPass
    <3>4. outbox' \in Queue
      BY <2>2, <2>3, <3>2, BeginItems
    <3>5. tries' \in [Ids -> Nat]
      BY <2>3, <3>2, BeginTries
    <3> QED BY <3>3, <3>4, <3>5
  <2> QED BY <1>6, <2>4 DEF FlushEnds, TypeOK
<1>7. CASE FlushRejects
  BY <1>7 DEF FlushRejects, TypeOK, PassInv
<1>8. ASSUME NEW i \in Ids, Elapse(i) PROVE PassTypes'
  <2>1. outbox[i] \in Item
    BY <1>8 DEF Elapse, TypeOK, Queue, NoItem
  <2>2. outbox' \in Queue
    BY <1>8, <2>1 DEF Elapse, TypeOK, Queue, Item
  <2> QED BY <1>8, <2>2 DEF Elapse, TypeOK, PassInv
<1>9. ASSUME NEW i \in Ids, TakeOut(i) PROVE PassTypes'
  <2>1. outbox' \in Queue
    BY <1>9 DEF TakeOut, TypeOK, Queue
  <2> QED BY <1>9, <2>1 DEF TakeOut, TypeOK, PassInv
<1>10. CASE ToggleQueue \/ Network
  <2>1. enabled \in BOOLEAN /\ online \in BOOLEAN /\ toggles \in Nat
    BY DEF TypeOK
  <2>2. toggles' \in Nat
    BY <1>10, <2>1 DEF ToggleQueue, Network
  <2>3. enabled' \in BOOLEAN /\ online' \in BOOLEAN
    BY <1>10, <2>1 DEF ToggleQueue, Network
  <2>4. /\ {enabled', online'} \subseteq BOOLEAN
        /\ {crashes', lost', faults', toggles'} \subseteq Nat
    BY <1>10, <2>2, <2>3 DEF ToggleQueue, Network, TypeOK
  <2> QED BY <1>10, <2>4 DEF ToggleQueue, Network, TypeOK, PassInv
<1>11. CASE Save
  BY <1>11 DEF Save, TypeOK, PassInv
<1>12. CASE Crash
  <2>1. Recovered \in Queue
    BY RecoveredKeeps DEF TypeOK
  <2> QED BY <1>12, <2>1 DEF Crash, TypeOK, PassInv
<1>13. CASE UNCHANGED vars
  BY <1>13 DEF vars, TypeOK, PassInv
<1> QED
  BY <1>1, <1>2, <1>3, <1>4, <1>5, <1>6, <1>7, <1>8, <1>9, <1>10, <1>11, <1>12, <1>13
  DEF Next

\* Types, and what a pass knows, hold throughout.
THEOREM PassTypesInvariant == Spec => []PassTypes
BY TypeInit, TypeStep, PTL DEF Spec

\* Every variable of the queue keeps its shape.
THEOREM TypeCorrect == Spec => []TypeOK
<1>1. PassTypes => TypeOK
  BY DEF PassTypes
<1> QED BY <1>1, PassTypesInvariant, PTL

-----------------------------------------------------------------------------
(* Nothing is marked as being sent without being sent. *)

LEMMA SendingInit == Init => SendingIsSent
BY DEF Init, SendingIsSent, NoItem

LEMMA SendingStep == PassTypes /\ SendingIsSent /\ [Next]_vars => SendingIsSent'
<1> SUFFICES ASSUME PassTypes, SendingIsSent, [Next]_vars, faults' = 0,
                    NEW i \in Ids, outbox'[i].status = "sending"
             PROVE  flush'.at = i /\ flush' # NoFlush
  BY DEF SendingIsSent
<1> USE DEF PassTypes, queueVars, sendVars, worldVars, countVars
<1>1. flush'.at = i => flush' # NoFlush
  BY DEF NoFlush, Ids
<1>2. SUFFICES flush'.at = i
  BY <1>1
<1>3. outbox \in Queue /\ disk \in Queue /\ faults \in Nat
  BY DEF TypeOK
<1>4. faults = 0 => (outbox[i].status = "sending" => flush.at = i)
  BY DEF SendingIsSent
<1>5. CASE ComposeSend \/ ComposePart \/ ToggleQueue \/ Network \/ Save \/ UNCHANGED vars
  BY <1>4, <1>5 DEF ComposeSend, ComposePart, ToggleQueue, Network, Save, vars
<1>6. CASE ComposeEnds
  <2> DEFINE item == [parts |-> compose.parts, attempts |-> 1, ready |-> FALSE,
                      status |-> "waiting"]
  <2>1. compose \in Compose
    BY <1>6 DEF ComposeEnds, TypeOK
  <2>2. item \in Item /\ compose.id \in Ids /\ item.status # "sending"
    BY <2>1, OutboxAssumption DEF Compose, Item
  <2>3. outbox'[i] \in {outbox[i], NoItem, item}
    <3>1. outbox' \in {outbox, Enqueue(outbox, compose.id, item)}
      BY <1>6 DEF ComposeEnds
    <3> HIDE DEF item
    <3> QED BY <1>3, <2>2, <3>1, EnqueueKeeps
  <2>4. outbox'[i] = outbox[i]
    BY <2>2, <2>3 DEF NoItem
  <2> QED BY <1>4, <1>6, <2>4 DEF ComposeEnds
<1>7. CASE StartFlush
  <2>1. DueItems \in SUBSET Ids /\ Begin(outbox, DueItems, outbox)
    BY <1>7 DEF DueItems, StartFlush
  <2>2. outbox'[i].status # outbox[i].status => flush'.at = i
    BY <1>3, <2>1, BeginItems
  <2>3. NoFlush.at \notin Ids
    BY DEF NoFlush, Ids
  <2> QED BY <1>4, <1>7, <2>2, <2>3 DEF StartFlush
<1>8. CASE FlushEnds
  <2>1. flush # NoFlush /\ flush \in Flush /\ faults = 0
    BY <1>8 DEF FlushEnds, TypeOK
  <2>2. /\ Flushed \in Queue /\ Flushed[flush.at].status # "sending"
        /\ \A k \in Ids \ {flush.at} : Flushed[k] = outbox[k]
    BY <2>1, FlushedKeeps
  <2>3. flush.due \ {flush.at} \in SUBSET Ids
    BY <2>1 DEF Flush
  <2>4. Begin(Flushed, flush.due \ {flush.at}, flush.found)
    BY <1>8 DEF FlushEnds
  <2>5. outbox'[i].status # Flushed[i].status => flush'.at = i
    BY <2>2, <2>3, <2>4, BeginItems
  <2> QED BY <1>4, <2>1, <2>2, <2>5
<1>9. CASE FlushPart
  <2>1. flush'.at = flush.at
    <3>1. flush \in Flush
      BY <1>9 DEF FlushPart, TypeOK, NoFlush
    <3> QED BY <1>9, <3>1 DEF FlushPart, Flush
  <2> QED BY <1>4, <1>9, <2>1 DEF FlushPart
<1>10. CASE FlushRejects
  BY <1>3, <1>10 DEF FlushRejects
<1>11. ASSUME NEW k \in Ids, Elapse(k) PROVE flush'.at = i
  <2>1. outbox'[i].status = outbox[i].status
    <3>1. outbox[k] \in Item
      BY <1>3, <1>11 DEF Elapse, Queue, NoItem
    <3> QED BY <1>3, <1>11, <3>1 DEF Elapse, Queue, Item
  <2> QED BY <1>4, <1>11, <2>1 DEF Elapse
<1>12. ASSUME NEW k \in Ids, TakeOut(k) PROVE flush'.at = i
  <2>1. outbox'[i] = outbox[i]
    BY <1>3, <1>12 DEF TakeOut, Queue, NoItem
  <2> QED BY <1>4, <1>12, <2>1 DEF TakeOut
<1>13. CASE Crash
  BY <1>3, <1>13, RecoveredKeeps DEF Crash
<1> QED
  BY <1>5, <1>6, <1>7, <1>8, <1>9, <1>10, <1>11, <1>12, <1>13 DEF Next

\* An item that says "sending" is being sent, whatever crashes, users and the
\* cap of the queue do, unless a call was rejected.
THEOREM SendingIsSentHolds == Spec => []SendingIsSent
<1>1. Init => PassTypes /\ SendingIsSent
  BY TypeInit, SendingInit
<1>2. PassTypes /\ SendingIsSent /\ [Next]_vars => (PassTypes /\ SendingIsSent)'
  BY TypeStep, SendingStep
<1> QED BY <1>1, <1>2, PTL DEF Spec

-----------------------------------------------------------------------------
(* No message is tried beyond the limit. *)

\* A pass that starts finds its items in the queue as they are.
LEMMA StartFlushKeeps ==
  ASSUME PassTypes, StartFlush
  PROVE  /\ flush'.due = DueItems /\ \A i \in DueItems : flush'.found[i] = outbox[i]
         /\ \A i \in Ids : /\ tries'[i] = tries[i] + Going(i)'
                           /\ Going(i)' = 1 => i \in DueItems
                           /\ outbox'[i] = NoItem <=> outbox[i] = NoItem
                           /\ outbox'[i].attempts = outbox[i].attempts
<1>1. /\ outbox \in Queue /\ DueItems \in SUBSET Ids /\ tries \in [Ids -> Nat]
      /\ Begin(outbox, DueItems, outbox)
  BY DEF PassTypes, TypeOK, DueItems, StartFlush
<1>2. flush'.due = DueItems /\ \A i \in DueItems : flush'.found[i] = outbox[i]
  BY <1>1, BeginDue
<1>3. \A i \in Ids : tries'[i] = tries[i] + Going(i)' /\ (Going(i)' = 1 => i \in DueItems)
  BY <1>1, BeginTries
<1>4. \A i \in Ids : /\ outbox'[i] = NoItem <=> outbox[i] = NoItem
                     /\ outbox'[i].attempts = outbox[i].attempts
  BY <1>1, BeginItems
<1> QED BY <1>2, <1>3, <1>4

\* A pass that goes on leaves the items still to come as they are.
LEMMA FlushEndsKeeps ==
  ASSUME PassTypes, FlushEnds
  PROVE  /\ flush.at \in flush.due /\ flush.at \in Ids
         /\ flush'.due = flush.due \ {flush.at}
         /\ \A i \in flush'.due : flush'.found[i] = flush.found[i]
         /\ \A i \in Ids : /\ tries'[i] = tries[i] + Going(i)'
                           /\ Going(i)' = 1 => i \in flush'.due
                           /\ outbox'[i] = NoItem <=> Flushed[i] = NoItem
                           /\ outbox'[i].attempts = Flushed[i].attempts
<1>1. flush # NoFlush /\ flush \in Flush
  BY DEF PassTypes, FlushEnds, TypeOK
<1>2. flush.at \in flush.due /\ flush.at \in Ids
  BY <1>1 DEF PassTypes, PassInv, Flush
<1>3. Flushed \in Queue
  BY <1>1, FlushedKeeps DEF PassTypes
<1>4. flush.due \ {flush.at} \in SUBSET Ids /\ tries \in [Ids -> Nat]
  BY <1>1 DEF PassTypes, Flush, TypeOK
<1>5. Begin(Flushed, flush.due \ {flush.at}, flush.found)
  BY DEF FlushEnds
<1>6. /\ flush'.due = flush.due \ {flush.at}
      /\ \A i \in flush.due \ {flush.at} : flush'.found[i] = flush.found[i]
  BY <1>4, <1>5, BeginDue
<1>7. \A i \in Ids : /\ tries'[i] = tries[i] + Going(i)'
                     /\ Going(i)' = 1 => i \in flush.due \ {flush.at}
  BY <1>4, <1>5, BeginTries
<1>8. \A i \in Ids : /\ outbox'[i] = NoItem <=> Flushed[i] = NoItem
                     /\ outbox'[i].attempts = Flushed[i].attempts
  BY <1>3, <1>4, <1>5, BeginItems
<1> QED BY <1>2, <1>6, <1>7, <1>8

TriesTypes == PassTypes /\ FreshInv /\ TriesInv

LEMMA TriesInit == Init => FreshInv /\ TriesInv
<1> SUFFICES ASSUME Init PROVE FreshInv /\ TriesInv
  OBVIOUS
<1>1. /\ compose.id = 0 /\ Len(composed) = 0 /\ flush.due = {} /\ crashes = 0 /\ faults = 0
      /\ \A i \in Ids : outbox[i] = NoItem /\ disk[i] = NoItem /\ tries[i] = 0
  BY DEF Init, NoCompose, NoFlush
<1> QED BY <1>1, OutboxAssumption DEF FreshInv, TriesInv, Spent

LEMMA FreshStep == TriesTypes /\ [Next]_vars => FreshInv'
<1> SUFFICES ASSUME TriesTypes, [Next]_vars PROVE FreshInv'
  OBVIOUS
<1> USE DEF TriesTypes, queueVars, sendVars, worldVars, countVars
<1>1. /\ outbox \in Queue /\ disk \in Queue /\ composed \in Seq(Parts)
      /\ compose \in Compose \cup {NoCompose} /\ Len(composed) \in Nat
  BY DEF PassTypes, TypeOK
<1>2. NoCompose.id = 0 /\ 0 \notin Ids /\ NoFlush.due = {} /\ Ids \subseteq Nat
  BY DEF NoCompose, NoFlush, Ids
<1>3. CASE ComposeSend
  <2>1. compose'.id = Len(composed) + 1 /\ Len(composed') = Len(composed) + 1
    BY <1>1, <1>3 DEF ComposeSend
  <2>2. UNCHANGED <<tries, outbox, disk, flush>>
    BY <1>3 DEF ComposeSend
  <2> QED BY <1>1, <1>2, <2>1, <2>2 DEF FreshInv
<1>4. CASE ComposePart
  <2>1. compose \in Compose
    BY <1>1, <1>4 DEF ComposePart, NoCompose
  <2>2. compose'.id = compose.id
    BY <1>4, <2>1 DEF ComposePart, Compose
  <2> QED BY <1>4, <2>2 DEF ComposePart, FreshInv
<1>5. CASE ComposeEnds
  <2> DEFINE item == [parts |-> compose.parts, attempts |-> 1, ready |-> FALSE,
                      status |-> "waiting"]
  <2>1. compose \in Compose
    BY <1>1, <1>5 DEF ComposeEnds
  <2>2. item \in Item /\ compose.id \in Ids
    BY <2>1, OutboxAssumption DEF Compose, Item
  <2>3. \A i \in Ids \ {compose.id} : outbox'[i] \in {outbox[i], NoItem}
    <3>1. outbox' \in {outbox, Enqueue(outbox, compose.id, item)}
      BY <1>5 DEF ComposeEnds
    <3> HIDE DEF item
    <3> QED BY <1>1, <2>2, <3>1, EnqueueKeeps
  <2>4. compose' = NoCompose /\ UNCHANGED <<tries, disk, flush, composed>>
    BY <1>5 DEF ComposeEnds
  <2>5. compose.id <= Len(composed)
    BY DEF FreshInv
  <2> QED BY <1>1, <1>2, <2>2, <2>3, <2>4, <2>5 DEF FreshInv
<1>6. CASE StartFlush
  <2>1. \A i \in DueItems : i \in Ids /\ outbox[i] # NoItem
    BY DEF DueItems, NoItem
  <2>2. UNCHANGED <<disk, compose, composed>>
    BY <1>6 DEF StartFlush
  <2>3. \A i \in Ids : outbox[i] = NoItem =>
          tries'[i] = tries[i] /\ outbox'[i] = NoItem /\ i \notin flush'.due
    <3> SUFFICES ASSUME NEW i \in Ids, outbox[i] = NoItem
                 PROVE  tries'[i] = tries[i] /\ outbox'[i] = NoItem /\ i \notin flush'.due
      OBVIOUS
    <3>1. i \notin DueItems
      BY <2>1
    <3>2. Going(i)' = 0
      BY <1>6, <3>1, StartFlushKeeps DEF Going
    <3>3. tries[i] \in Nat
      BY DEF PassTypes, TypeOK
    <3> QED BY <1>6, <3>1, <3>2, <3>3, StartFlushKeeps
  <2> QED BY <2>2, <2>3 DEF FreshInv
<1>7. CASE FlushEnds
  <2>1. UNCHANGED <<disk, compose, composed>>
    BY <1>7 DEF FlushEnds
  <2>2. \A i \in Ids \ {flush.at} : Flushed[i] = outbox[i]
    BY <1>7, FlushedKeeps DEF FlushEnds, PassTypes
  <2>3. ASSUME NEW i \in Ids, i \notin flush.due, outbox[i] = NoItem
        PROVE  tries'[i] = tries[i] /\ outbox'[i] = NoItem /\ i \notin flush'.due
    <3>1. i # flush.at /\ i \notin flush'.due
      BY <1>7, <2>3, FlushEndsKeeps
    <3>2. Going(i)' = 0
      BY <1>7, <3>1, FlushEndsKeeps DEF Going
    <3>3. tries[i] \in Nat
      BY DEF PassTypes, TypeOK
    <3>4. Flushed[i] = NoItem
      BY <2>2, <2>3, <3>1
    <3> QED BY <1>7, <3>1, <3>2, <3>3, <3>4, FlushEndsKeeps
  <2> QED BY <2>1, <2>3 DEF FreshInv
<1>8. CASE FlushPart
  <2>1. flush'.due = flush.due
    <3>1. flush \in Flush
      BY <1>8 DEF FlushPart, PassTypes, TypeOK, NoFlush
    <3> QED BY <1>8, <3>1 DEF FlushPart, Flush
  <2> QED BY <1>8, <2>1 DEF FlushPart, FreshInv
<1>9. CASE FlushRejects
  BY <1>2, <1>9 DEF FlushRejects, FreshInv
<1>10. ASSUME NEW k \in Ids, Elapse(k) PROVE FreshInv'
  <2>1. \A i \in Ids : outbox[i] = NoItem => outbox'[i] = NoItem
    <3>1. outbox[k] # NoItem /\ \A i \in Ids \ {k} : outbox'[i] = outbox[i]
      BY <1>1, <1>10 DEF Elapse, NoItem, Queue
    <3> QED BY <3>1
  <2> QED BY <1>10, <2>1 DEF Elapse, FreshInv
<1>11. ASSUME NEW k \in Ids, TakeOut(k) PROVE FreshInv'
  <2>1. \A i \in Ids : outbox[i] = NoItem => outbox'[i] = NoItem
    BY <1>1, <1>11 DEF TakeOut, Queue
  <2> QED BY <1>11, <2>1 DEF TakeOut, FreshInv
<1>12. CASE ToggleQueue \/ Network \/ Save \/ UNCHANGED vars
  BY <1>12 DEF ToggleQueue, Network, Save, vars, FreshInv
<1>13. CASE Crash
  <2>1. \A i \in Ids : Recovered[i] = NoItem <=> disk[i] = NoItem
    BY <1>1, RecoveredKeeps
  <2>2. /\ compose' = NoCompose /\ flush' = NoFlush /\ outbox' = Recovered
        /\ UNCHANGED <<disk, composed, tries>>
    BY <1>13 DEF Crash
  <2>3. compose'.id = 0 /\ flush'.due = {} /\ 0 <= Len(composed')
    BY <1>1, <1>2, <2>2
  <2> SUFFICES ASSUME NEW i \in Ids, i > Len(composed)
               PROVE  tries'[i] = 0 /\ outbox'[i] = NoItem /\ disk'[i] = NoItem
    BY <1>2, <2>2, <2>3 DEF FreshInv
  <2>4. tries[i] = 0 /\ disk[i] = NoItem
    BY DEF FreshInv
  <2> QED BY <2>1, <2>2, <2>4
<1> QED
  BY <1>3, <1>4, <1>5, <1>6, <1>7, <1>8, <1>9, <1>10, <1>11, <1>12, <1>13 DEF Next

LEMMA SpentType == TypeOK => Spent \in Nat /\ MaxAttempts \in Nat
<1>1. MaxAttempts \in Nat
  BY OutboxAssumption
<1>2. TypeOK => crashes \in Nat /\ faults \in Nat
  BY DEF TypeOK
<1>3. \A a, b \in Nat : a * b \in Nat
  OBVIOUS
<1> QED BY <1>1, <1>2, <1>3 DEF Spent

\* Nothing that leaves tries, items and passes alone disturbs the account.
LEMMA TriesKept ==
  ASSUME TriesInv, UNCHANGED <<tries, flush, crashes, faults>>,
         \A i \in Ids : outbox'[i] # NoItem =>
           outbox[i] # NoItem /\ outbox'[i].attempts = outbox[i].attempts
  PROVE  TriesInv'
BY DEF TriesInv, Spent, Going

LEMMA TriesStep == TriesTypes /\ [Next]_vars => TriesInv'
<1> SUFFICES ASSUME TriesTypes, [Next]_vars PROVE TriesInv'
  OBVIOUS
<1> USE DEF TriesTypes, queueVars, sendVars, worldVars, countVars
<1>1. /\ outbox \in Queue /\ disk \in Queue /\ tries \in [Ids -> Nat]
      /\ Spent \in Nat /\ MaxAttempts \in Nat /\ crashes \in Nat /\ faults \in Nat
  BY SpentType DEF PassTypes, TypeOK
<1>2. CASE ComposeSend \/ ComposePart \/ ToggleQueue \/ Network \/ Save \/ UNCHANGED vars
  BY <1>2, TriesKept DEF ComposeSend, ComposePart, ToggleQueue, Network, Save, vars
<1>3. CASE ComposeEnds
  <2> DEFINE item == [parts |-> compose.parts, attempts |-> 1, ready |-> FALSE,
                      status |-> "waiting"]
  <2>1. compose \in Compose
    BY <1>3 DEF ComposeEnds, PassTypes, TypeOK
  <2>2. item \in Item /\ compose.id \in Ids /\ item.attempts = 1
    BY <2>1, OutboxAssumption DEF Compose, Item
  <2>3. /\ \A i \in Ids \ {compose.id} : outbox'[i] \in {outbox[i], NoItem}
        /\ outbox'[compose.id] \in {outbox[compose.id], item, NoItem}
    <3>1. outbox' \in {outbox, Enqueue(outbox, compose.id, item)}
      BY <1>3 DEF ComposeEnds
    <3> HIDE DEF item
    <3> QED BY <1>1, <2>2, <3>1, EnqueueKeeps
  <2>4. tries[compose.id] = 0
    BY <2>2 DEF FreshInv
  <2>5. UNCHANGED <<tries, flush, crashes, faults>>
    BY <1>3 DEF ComposeEnds
  <2>6. \A i \in Ids : Going(i)' = Going(i) /\ Going(i) \in {0, 1}
    BY <2>5 DEF Going
  <2>7. Spent' = Spent
    BY <2>5 DEF Spent
  <2> HIDE DEF item
  <2>8. \A i \in Ids : outbox'[i] # NoItem => tries'[i] <= Spent + outbox'[i].attempts + Going(i)
    BY <1>1, <2>2, <2>3, <2>4, <2>5, <2>6 DEF TriesInv
  <2> QED BY <2>5, <2>6, <2>7, <2>8 DEF TriesInv
<1>4. CASE StartFlush
  <2>1. Spent' = Spent
    BY <1>4 DEF StartFlush, Spent
  <2>2. \A i \in Ids : Going(i) = 0
    BY <1>4 DEF StartFlush, Going, NoFlush, Ids
  <2>3. \A i \in DueItems : /\ i \in Ids /\ outbox[i] # NoItem
                            /\ outbox[i].attempts \in Nat /\ outbox[i].attempts < MaxAttempts
    BY <1>1, DueHaveAttempts, ItemIsSome DEF DueItems, Item
  <2>4. \A i \in Ids : Going(i)' \in {0, 1}
    BY DEF Going
  <2> SUFFICES ASSUME NEW i \in Ids
               PROVE  /\ tries'[i] <= Spent + MaxAttempts
                      /\ outbox'[i] # NoItem => tries'[i] <= Spent + outbox'[i].attempts + Going(i)'
                      /\ i \in flush'.due => tries'[i] <= Spent + flush'.found[i].attempts + Going(i)'
    BY <2>1 DEF TriesInv
  <2>5. /\ tries'[i] = tries[i] + Going(i)' /\ (Going(i)' = 1 => i \in DueItems)
        /\ outbox'[i] = NoItem <=> outbox[i] = NoItem
        /\ outbox'[i].attempts = outbox[i].attempts
        /\ flush'.due = DueItems
        /\ i \in DueItems => flush'.found[i] = outbox[i]
    BY <1>4, StartFlushKeeps
  <2>6. /\ tries[i] \in Nat /\ tries[i] <= Spent + MaxAttempts
        /\ outbox[i] # NoItem => tries[i] <= Spent + outbox[i].attempts
                              /\ outbox[i].attempts \in Nat
    BY <1>1, <2>2 DEF TriesInv, Queue, Item
  <2>7. tries'[i] <= Spent + MaxAttempts
    BY <1>1, <2>3, <2>4, <2>5, <2>6
  <2>8. outbox[i] # NoItem => tries[i] + Going(i)' <= Spent + outbox[i].attempts + Going(i)'
    BY <1>1, <2>4, <2>6
  <2> QED BY <2>3, <2>5, <2>7, <2>8
<1>5. CASE FlushPart
  <2>1. flush'.at = flush.at /\ flush'.due = flush.due /\ flush'.found = flush.found
    <3>1. flush \in Flush
      BY <1>5 DEF FlushPart, PassTypes, TypeOK, NoFlush
    <3> QED BY <1>5, <3>1 DEF FlushPart, Flush
  <2>2. UNCHANGED <<tries, outbox, crashes, faults>>
    BY <1>5 DEF FlushPart
  <2> QED BY <2>1, <2>2 DEF TriesInv, Spent, Going
<1>6. CASE FlushEnds
  <2>1. Spent' = Spent
    BY <1>6 DEF FlushEnds, Spent
  <2>2. /\ flush.at \in flush.due /\ flush.at \in Ids
        /\ flush'.due = flush.due \ {flush.at}
        /\ \A i \in flush'.due : flush'.found[i] = flush.found[i]
    BY <1>6, FlushEndsKeeps
  <2>3. /\ Flushed \in Queue
        /\ Flushed[flush.at] # NoItem =>
             Flushed[flush.at].attempts = flush.found[flush.at].attempts + 1
        /\ \A i \in Ids \ {flush.at} : Flushed[i] = outbox[i]
    BY <1>6, FlushedKeeps DEF FlushEnds, PassTypes
  <2>4. \A i \in flush.due : flush.found[i].attempts \in Nat /\ flush.found[i].attempts < MaxAttempts
    BY <1>6 DEF FlushEnds, PassTypes, PassInv, Item
  <2>5. \A i \in Ids : Going(i)' \in {0, 1} /\ Going(i) = IF i = flush.at THEN 1 ELSE 0
    BY DEF Going
  <2> SUFFICES ASSUME NEW i \in Ids
               PROVE  /\ tries'[i] <= Spent + MaxAttempts
                      /\ outbox'[i] # NoItem => tries'[i] <= Spent + outbox'[i].attempts + Going(i)'
                      /\ i \in flush'.due => tries'[i] <= Spent + flush'.found[i].attempts + Going(i)'
    BY <2>1 DEF TriesInv
  <2>6. /\ tries'[i] = tries[i] + Going(i)' /\ (Going(i)' = 1 => i \in flush'.due)
        /\ outbox'[i] = NoItem <=> Flushed[i] = NoItem
        /\ outbox'[i].attempts = Flushed[i].attempts
    BY <1>6, FlushEndsKeeps
  <2>7. /\ tries[i] \in Nat /\ tries[i] <= Spent + MaxAttempts
        /\ outbox[i] # NoItem => tries[i] <= Spent + outbox[i].attempts + Going(i)
        /\ i \in flush.due => tries[i] <= Spent + flush.found[i].attempts + Going(i)
    BY <1>1 DEF TriesInv
  <2>8. Flushed[i] # NoItem => Flushed[i].attempts \in Nat
    BY <2>3 DEF Queue, Item
  <2>9. CASE i = flush.at
    <3>1. Going(i)' = 0 /\ i \notin flush'.due /\ tries'[i] = tries[i]
      BY <2>2, <2>5, <2>6, <2>7, <2>9
    <3>2. Flushed[i] # NoItem => tries[i] <= Spent + Flushed[i].attempts
      BY <1>1, <2>2, <2>3, <2>4, <2>5, <2>7, <2>9
    <3> QED BY <1>1, <2>6, <2>7, <2>8, <3>1, <3>2
  <2>10. CASE i # flush.at
    <3>1. Going(i) = 0 /\ Flushed[i] = outbox[i]
      BY <2>3, <2>5, <2>10
    <3>2. i \in flush'.due => /\ flush'.found[i] = flush.found[i] /\ i \in flush.due
                             /\ flush.found[i].attempts \in Nat
      BY <2>2, <2>4
    <3>3. tries'[i] <= Spent + MaxAttempts
      BY <1>1, <2>4, <2>5, <2>6, <2>7, <3>1, <3>2
    <3>4. outbox'[i] # NoItem => tries'[i] <= Spent + outbox'[i].attempts + Going(i)'
      BY <1>1, <2>5, <2>6, <2>7, <2>8, <3>1
    <3>5. i \in flush'.due => tries'[i] <= Spent + flush'.found[i].attempts + Going(i)'
      BY <1>1, <2>5, <2>6, <2>7, <3>1, <3>2
    <3> QED BY <3>3, <3>4, <3>5
  <2> QED BY <2>9, <2>10
<1>7. CASE FlushRejects
  <2>1. /\ Spent' = Spent + 1 /\ flush' = NoFlush /\ outbox' = outbox /\ tries' = tries
    BY <1>1, <1>7, OutboxAssumption DEF FlushRejects, Spent
  <2>2. \A i \in Ids : Going(i)' = 0 /\ Going(i) \in {0, 1} /\ i \notin flush'.due
    BY <2>1 DEF Going, NoFlush, Ids
  <2>3. \A i \in Ids : outbox[i] # NoItem => outbox[i].attempts \in Nat
    BY <1>1 DEF Queue, Item
  <2> QED BY <1>1, <2>1, <2>2, <2>3 DEF TriesInv
<1>8. ASSUME NEW k \in Ids, Elapse(k) PROVE TriesInv'
  <2>1. outbox[k] # NoItem /\ outbox[k] \in Item
    BY <1>1, <1>8 DEF Elapse, NoItem, Queue
  <2>2. \A i \in Ids : outbox'[i] # NoItem =>
          outbox[i] # NoItem /\ outbox'[i].attempts = outbox[i].attempts
    BY <1>1, <1>8, <2>1 DEF Elapse, Queue, Item
  <2> QED BY <1>8, <2>2, TriesKept DEF Elapse
<1>9. ASSUME NEW k \in Ids, TakeOut(k) PROVE TriesInv'
  <2>1. \A i \in Ids : outbox'[i] # NoItem => outbox'[i] = outbox[i]
    BY <1>1, <1>9 DEF TakeOut, Queue
  <2> QED BY <1>9, <2>1, TriesKept DEF TakeOut
<1>10. CASE Crash
  <2>1. /\ flush' = NoFlush /\ tries' = tries /\ outbox' = Recovered
        /\ crashes' = crashes + 1 /\ faults' = faults
    BY <1>10 DEF Crash
  <2>2. Spent' = Spent + MaxAttempts
    BY <1>1, <2>1 DEF Spent
  <2>3. \A i \in Ids : Going(i)' = 0 /\ i \notin flush'.due
    BY <2>1 DEF Going, NoFlush, Ids
  <2>4. \A i \in Ids : outbox'[i] # NoItem => outbox'[i].attempts \in Nat
    BY <1>1, <2>1, RecoveredKeeps DEF Queue, Item
  <2> QED BY <1>1, <2>1, <2>2, <2>3, <2>4 DEF TriesInv
<1> QED BY <1>2, <1>3, <1>4, <1>5, <1>6, <1>7, <1>8, <1>9, <1>10 DEF Next

\* Each try of a message is accounted for by an attempt on record, a life of
\* the process, or a rejected call.
THEOREM TriesInvariant == Spec => []TriesTypes
<1>1. Init => TriesTypes
  BY TypeInit, TriesInit DEF TriesTypes
<1>2. TriesTypes /\ [Next]_vars => TriesTypes'
  BY TypeStep, FreshStep, TriesStep DEF TriesTypes
<1> QED BY <1>1, <1>2, PTL DEF Spec

\* No message is tried more often than the queue allows in each life of the
\* process, but for calls that were rejected.
THEOREM TriesBoundedHolds == Spec => []TriesBounded
<1>1. TriesTypes => TriesBounded
  <2> SUFFICES ASSUME TriesTypes, NEW i \in Ids
               PROVE  tries[i] <= MaxAttempts * (1 + crashes) + faults
    BY DEF TriesBounded
  <2>1. tries[i] <= MaxAttempts * crashes + faults + MaxAttempts
    BY DEF TriesTypes, TriesInv, Spent
  <2>2. /\ crashes \in Nat /\ MaxAttempts \in Nat /\ faults \in Nat /\ tries[i] \in Nat
    BY OutboxAssumption DEF TriesTypes, PassTypes, TypeOK
  <2>3. MaxAttempts * (1 + crashes) = MaxAttempts * crashes + MaxAttempts
    BY <2>2
  <2>4. MaxAttempts * crashes \in Nat
    BY <2>2
  <2> QED BY <2>1, <2>2, <2>3, <2>4
<1> QED BY <1>1, TriesInvariant, PTL

-----------------------------------------------------------------------------
(* Nothing is sent twice. *)

\* A transport call without a lost reply: only a success counts, and for its message.
LEMMA SendPartTakes ==
  ASSUME TypeOK, NEW i \in Ids, NEW part \in Parts, NEW verdict, SendPart(i, part, verdict),
         lost' = 0
  PROVE  /\ lost = 0
         /\ \A k \in Ids \ {i} : taken'[k] = taken[k]
         /\ verdict # "ok" => taken' = taken
         /\ part = 1 /\ verdict = "ok" => taken'[i][1] = taken[i][1] + 1
<1>1. taken \in [Ids -> [Parts -> Nat]] /\ lost \in Nat
  BY DEF TypeOK
<1>2. CASE verdict = "ok"
  <2>1. taken' = [taken EXCEPT ![i][part] = @ + 1] /\ lost' = lost
    BY <1>2 DEF SendPart
  <2>2. \A k \in Ids \ {i} : taken'[k] = taken[k]
    BY <1>1, <2>1
  <2>3. taken'[i][part] = taken[i][part] + 1
    BY <1>1, <2>1
  <2> QED BY <1>2, <2>1, <2>2, <2>3
<1>3. CASE verdict # "ok"
  <2>1. taken' = taken /\ lost' = lost
    BY <1>1, <1>3 DEF SendPart
  <2> QED BY <1>3, <2>1
<1> QED BY <1>2, <1>3

\* The item the pass goes on to begins its attempt; no item changes its parts.
LEMMA BeginAttempts ==
  ASSUME NEW q \in Queue, NEW due \in SUBSET Ids, NEW found, Begin(q, due, found)
  PROVE  /\ \A i \in Ids : outbox'[i].parts = q[i].parts
         /\ \A i \in Ids : flush'.at = i =>
              i \in due /\ flush'.left = found[i].parts /\ flush'.verdict = "ok"
<1>1. CASE due = {}
  <2>1. outbox' = q /\ flush' = NoFlush
    BY <1>1 DEF Begin
  <2> QED BY <2>1 DEF NoFlush, Ids
<1>2. CASE due # {}
  <2>1. PICK i \in due : GoesTo(i, q, due, found)
    BY <1>2, BeginCases
  <2>2. flush'.at = i /\ flush'.left = found[i].parts /\ flush'.verdict = "ok"
    BY <2>1 DEF GoesTo
  <2>3. outbox' \in {q, [q EXCEPT ![i] = [q[i] EXCEPT !.status = "sending"]]}
    BY <2>1 DEF GoesTo, Patch
  <2>4. \A k \in Ids : outbox'[k].parts = q[k].parts
    <3> DEFINE item == [q[i] EXCEPT !.status = "sending"]
    <3>1. item.parts = q[i].parts
      BY DEF Queue, Item, NoItem
    <3>2. outbox' = q \/ outbox' = [q EXCEPT ![i] = item]
      BY <2>3
    <3> HIDE DEF item
    <3> QED BY <3>1, <3>2 DEF Queue
  <2> QED BY <2>1, <2>2, <2>4
<1> QED BY <1>1, <1>2

\* A pass in progress is at a message of the queue's, and at none otherwise.
LEMMA PassIsAt ==
  ASSUME PassTypes, NEW i \in Ids, flush.at = i
  PROVE  flush # NoFlush /\ i \in flush.due
BY DEF PassTypes, PassInv, NoFlush, Ids

OnceTypes == TriesTypes /\ OnceInv

LEMMA OnceInit == Init => OnceInv
<1> SUFFICES ASSUME Init PROVE OnceInv
  OBVIOUS
<1>1. composed = <<>> /\ taken = [i \in Ids |-> [p \in Parts |-> 0]]
  BY DEF Init
<1> QED BY <1>1 DEF OnceInv

\* Of a message nobody has composed the server has taken nothing.
LEMMA UntakenStep ==
  ASSUME OnceTypes, [Next]_vars, NEW i \in Ids, i > Len(composed')
  PROVE  i > Len(composed) /\ taken'[i] = [p \in Parts |-> 0]
<1> USE DEF queueVars, sendVars, worldVars, countVars
<1>1. /\ TypeOK /\ composed \in Seq(Parts) /\ Len(composed) \in Nat /\ i \in Nat
      /\ compose.id <= Len(composed) /\ taken \in [Ids -> [Parts -> Nat]]
  BY OutboxAssumption DEF OnceTypes, TriesTypes, PassTypes, TypeOK, FreshInv, Ids
<1>2. Len(composed') >= Len(composed) /\ Len(composed') \in Nat
  <2>1. CASE ComposeSend
    BY <1>1, <2>1 DEF ComposeSend
  <2>2. CASE ~ComposeSend
    <3>1. composed' = composed
      BY <2>2 DEF Next, vars, ComposePart, ComposeEnds, StartFlush, FlushPart, FlushEnds,
         FlushRejects, Elapse, TakeOut, ToggleQueue, Network, Save, Crash
    <3> QED BY <1>1, <3>1
  <2> QED BY <2>1, <2>2
<1>3. i > Len(composed) /\ taken[i] = [p \in Parts |-> 0]
  <2>1. i > Len(composed)
    BY <1>1, <1>2
  <2> QED BY <2>1 DEF OnceTypes, OnceInv
<1>4. ASSUME NEW k \in Ids, NEW part \in Parts, NEW verdict, SendPart(k, part, verdict), k # i
      PROVE  taken'[i] = taken[i]
  BY <1>1, <1>4 DEF SendPart
<1>5. CASE ComposePart
  <2>1. compose \in Compose
    BY <1>5 DEF ComposePart, NoCompose, OnceTypes, TriesTypes, PassTypes, TypeOK
  <2>2. compose.id \in Ids /\ compose.left \in Parts
    BY <1>5, <2>1, OutboxAssumption DEF ComposePart, Compose, Parts
  <2>3. compose.id # i
    BY <1>1, <1>3, <2>2 DEF Ids
  <2> QED BY <1>3, <1>4, <1>5, <2>2, <2>3 DEF ComposePart
<1>6. CASE FlushPart
  <2>1. flush \in Flush /\ flush # NoFlush
    BY <1>6 DEF FlushPart, NoFlush, OnceTypes, TriesTypes, PassTypes, TypeOK
  <2>2. flush.at \in flush.due /\ flush.at \in Ids /\ flush.left \in Parts
    BY <1>6, <2>1, OutboxAssumption DEF FlushPart, Flush, Parts, OnceTypes, TriesTypes,
       PassTypes, PassInv
  <2>3. flush.at # i
    BY <1>3, <2>2 DEF OnceTypes, TriesTypes, FreshInv
  <2> QED BY <1>3, <1>4, <1>6, <2>2, <2>3 DEF FlushPart
<1>7. CASE ~ComposePart /\ ~FlushPart
  <2>1. taken' = taken
    BY <1>7 DEF Next, vars, ComposeSend, ComposeEnds, StartFlush, FlushEnds, FlushRejects,
       Elapse, TakeOut, ToggleQueue, Network, Save, Crash
  <2> QED BY <1>3, <2>1
<1> QED BY <1>3, <1>5, <1>6, <1>7

\* A step that leaves a message, its attempts and who may still send it alone.
LEMMA OneTakingKept ==
  ASSUME NEW i \in Ids, OneTaking(i), UNCHANGED <<taken, compose, flush>>,
         outbox'[i] # NoItem => outbox[i] # NoItem /\ outbox'[i].parts = outbox[i].parts
  PROVE  OneTaking(i)'
BY DEF OneTaking, Attempted

\* A step counts for a message of one part at most the one attempt that nobody makes
\* after it.
LEMMA OneTakingStep ==
  ASSUME OnceTypes, [Next]_vars, crashes' = 0, lost' = 0,
         NEW i \in DOMAIN composed', composed'[i] = 1
  PROVE  OneTaking(i)'
<1> USE DEF queueVars, sendVars, worldVars, countVars
<1>1. /\ PassTypes /\ TypeOK /\ outbox \in Queue /\ composed \in Seq(Parts)
      /\ Len(composed) \in Nat /\ Len(composed) <= MaxItems
      /\ compose \in Compose \cup {NoCompose} /\ flush \in Flush \cup {NoFlush}
      /\ taken \in [Ids -> [Parts -> Nat]] /\ crashes \in Nat /\ lost \in Nat
  BY DEF OnceTypes, TriesTypes, PassTypes, TypeOK
<1>2. NoCompose.id = 0 /\ NoFlush.at = 0 /\ NoFlush.due = {} /\ 0 \notin Ids /\ 1 \in Parts
  BY OutboxAssumption DEF NoCompose, NoFlush, Ids, Parts
<1>3. ASSUME crashes = 0, lost = 0, NEW k \in DOMAIN composed, composed[k] = 1
      PROVE  OneTaking(k) /\ k \in Ids /\ taken[k][1] \in Nat
  <2>1. k \in Ids
    BY <1>1, OutboxAssumption DEF Ids
  <2> QED BY <1>1, <1>2, <1>3, <2>1 DEF OnceTypes, OnceInv
<1>4. CASE ComposeSend
  <2>1. PICK n \in Parts :
          /\ composed' = Append(composed, n)
          /\ compose' = [id |-> Len(composed) + 1, parts |-> n, left |-> n,
                         verdict |-> "ok", queue |-> enabled]
    BY <1>4 DEF ComposeSend
  <2>2. UNCHANGED <<outbox, flush, taken, crashes, lost>> /\ Len(composed) < MaxItems
    BY <1>4 DEF ComposeSend
  <2>3. CASE i = Len(composed) + 1
    <3>1. i \in Ids /\ n = 1
      BY <1>1, <2>1, <2>2, <2>3, OutboxAssumption DEF Ids
    <3>2. taken[i][1] = 0 /\ outbox[i] = NoItem /\ i \notin flush.due
      BY <1>1, <1>2, <2>3, <3>1 DEF OnceTypes, OnceInv, TriesTypes, FreshInv
    <3>3. flush.at # i
      BY <1>1, <3>1, <3>2, PassIsAt
    <3>4. compose'.id = i /\ compose'.parts = 1 /\ compose'.left = 1 /\ compose'.verdict = "ok"
      BY <2>1, <2>3, <3>1
    <3> QED BY <2>2, <3>2, <3>3, <3>4 DEF OneTaking, Attempted
  <2>4. CASE i # Len(composed) + 1
    <3>1. i \in DOMAIN composed /\ composed[i] = 1
      BY <1>1, <2>1, <2>4
    <3>2. OneTaking(i)
      BY <1>3, <2>2, <3>1
    <3>3. compose'.id # i
      BY <2>1, <2>4
    <3> QED BY <2>2, <3>2, <3>3 DEF OneTaking, Attempted
  <2> QED BY <2>3, <2>4
<1>5. CASE ~ComposeSend /\ ~Crash
  <2>1. composed' = composed /\ crashes' = crashes
    BY <1>5 DEF Next, vars, ComposePart, ComposeEnds, StartFlush, FlushPart, FlushEnds,
       FlushRejects, Elapse, TakeOut, ToggleQueue, Network, Save
  <2>2. i \in DOMAIN composed /\ composed[i] = 1 /\ i \in Ids /\ crashes = 0
    BY <1>1, <2>1, OutboxAssumption DEF Ids
  <2>3. ASSUME lost = 0 PROVE OneTaking(i) /\ taken[i][1] \in Nat
    BY <1>3, <2>2, <2>3
  <2>4. CASE ComposePart
    <3>1. compose \in Compose /\ compose.left > 0 /\ compose.left \in Parts
      <4>1. compose.left > 0
        BY <2>4 DEF ComposePart
      <4>2. compose \in Compose
        BY <1>1, <4>1 DEF NoCompose
      <4> QED BY <4>1, <4>2, OutboxAssumption DEF Compose, Parts
    <3>2. PICK verdict \in Verdict :
            /\ SendPart(compose.id, compose.left, verdict)
            /\ compose' = [compose EXCEPT !.left = @ - 1, !.verdict = First(@, verdict)]
      BY <2>4 DEF ComposePart
    <3>3. UNCHANGED <<outbox, flush>> /\ compose.id \in Ids
      BY <2>4, <3>1 DEF ComposePart, Compose
    <3>4. /\ lost = 0
          /\ \A k \in Ids \ {compose.id} : taken'[k] = taken[k]
          /\ verdict # "ok" => taken' = taken
          /\ compose.left = 1 /\ verdict = "ok" =>
               taken'[compose.id][1] = taken[compose.id][1] + 1
      BY <1>1, <3>1, <3>2, <3>3, SendPartTakes
    <3>5. /\ compose'.id = compose.id /\ compose'.parts = compose.parts
          /\ compose'.left = compose.left - 1
          /\ compose'.verdict = First(compose.verdict, verdict)
      BY <3>1, <3>2 DEF Compose
    <3>6. OneTaking(i) /\ taken[i][1] \in Nat
      BY <2>3, <3>4
    <3>7. CASE i = compose.id
      <4>1. /\ compose.left = 1 /\ compose.verdict = "ok" /\ compose.parts = 1
            /\ taken[i][1] = 0
        BY <3>1, <3>6, <3>7 DEF OneTaking, Attempted, Compose
      <4>2. outbox[i] = NoItem /\ i \notin flush.due
        BY <2>2, <3>7 DEF OnceTypes, TriesTypes, FreshInv
      <4>3. flush.at # i
        BY <1>1, <2>2, <4>2, PassIsAt
      <4>4. compose'.left = 0 /\ compose'.verdict = verdict
        BY <3>5, <4>1 DEF First
      <4>5. taken'[i][1] <= 1 /\ (verdict # "ok" => taken'[i][1] = 0)
        BY <3>4, <3>7, <4>1
      <4> QED BY <3>3, <3>5, <4>1, <4>2, <4>3, <4>4, <4>5 DEF OneTaking, Attempted
    <3>8. CASE i # compose.id
      <4>1. taken'[i] = taken[i] /\ compose'.id # i
        BY <2>2, <3>4, <3>5, <3>8
      <4> QED BY <3>3, <3>6, <4>1 DEF OneTaking, Attempted
    <3> QED BY <3>7, <3>8
  <2>5. CASE FlushPart
    <3>1. flush \in Flush /\ flush # NoFlush /\ flush.left > 0 /\ flush.left \in Parts
      BY <1>1, <2>5, OutboxAssumption DEF FlushPart, NoFlush, Flush, Parts
    <3>2. PICK verdict \in Verdict :
            /\ SendPart(flush.at, flush.left, verdict)
            /\ flush' = [flush EXCEPT !.left = @ - 1, !.verdict = First(@, verdict)]
      BY <2>5 DEF FlushPart
    <3>3. UNCHANGED <<outbox, compose>> /\ flush.at \in Ids /\ flush.at \in flush.due
      BY <1>1, <2>5, <3>1 DEF FlushPart, Flush, PassTypes, PassInv
    <3>4. /\ lost = 0
          /\ \A k \in Ids \ {flush.at} : taken'[k] = taken[k]
          /\ verdict # "ok" => taken' = taken
          /\ flush.left = 1 /\ verdict = "ok" =>
               taken'[flush.at][1] = taken[flush.at][1] + 1
      BY <1>1, <3>1, <3>2, <3>3, SendPartTakes
    <3>5. /\ flush'.at = flush.at /\ flush'.due = flush.due /\ flush'.found = flush.found
          /\ flush'.left = flush.left - 1
          /\ flush'.verdict = First(flush.verdict, verdict)
      BY <3>1, <3>2 DEF Flush
    <3>6. OneTaking(i) /\ taken[i][1] \in Nat
      BY <2>3, <3>4
    <3>7. CASE i = flush.at
      <4>1. flush.left = 1 /\ flush.verdict = "ok" /\ taken[i][1] = 0
        BY <3>1, <3>6, <3>7 DEF OneTaking, Attempted, Flush
      <4>2. compose.id # i
        BY <2>2, <3>3, <3>7 DEF OnceTypes, TriesTypes, FreshInv
      <4>3. flush'.left = 0 /\ flush'.verdict = verdict
        BY <3>5, <4>1 DEF First
      <4>4. taken'[i][1] <= 1 /\ (verdict # "ok" => taken'[i][1] = 0)
        BY <3>4, <3>7, <4>1
      <4> QED BY <3>3, <3>5, <3>6, <3>7, <4>2, <4>3, <4>4 DEF OneTaking, Attempted
    <3>8. CASE i # flush.at
      <4>1. taken'[i] = taken[i]
        BY <2>2, <3>4, <3>8
      <4> QED BY <3>3, <3>5, <3>6, <3>8, <4>1 DEF OneTaking, Attempted
    <3> QED BY <3>7, <3>8
  <2>6. CASE ComposeEnds
    <3> DEFINE item == [parts |-> compose.parts, attempts |-> 1, ready |-> FALSE,
                        status |-> "waiting"]
    <3>1. compose \in Compose /\ UNCHANGED <<flush, taken, lost>> /\ compose' = NoCompose
      BY <1>1, <2>6 DEF ComposeEnds
    <3>2. item \in Item /\ compose.id \in Ids /\ item.parts = compose.parts
      BY <3>1, OutboxAssumption DEF Compose, Item
    <3>3. OneTaking(i)
      BY <2>3, <3>1
    <3>4. /\ outbox'[i] \in {outbox[i], NoItem, item}
          /\ outbox'[i] = item /\ outbox'[i] # outbox[i] =>
               i = compose.id /\ compose.verdict # "ok"
      <4>1. \/ outbox' = outbox
            \/ outbox' = Enqueue(outbox, compose.id, item) /\ compose.verdict # "ok"
        BY <2>6 DEF ComposeEnds
      <4> HIDE DEF item
      <4>2. /\ Enqueue(outbox, compose.id, item)[compose.id] \in {item, NoItem}
            /\ \A k \in Ids \ {compose.id} :
                 Enqueue(outbox, compose.id, item)[k] \in {outbox[k], NoItem}
        BY <1>1, <3>2, EnqueueKeeps
      <4>3. item # NoItem
        BY <3>2, ItemIsSome
      <4> QED BY <2>2, <4>1, <4>2, <4>3
    <3>5. outbox'[i] # NoItem => outbox'[i].parts = 1 /\ (flush.at = i \/ taken[i][1] = 0)
      <4> HIDE DEF item
      <4> QED BY <3>2, <3>3, <3>4 DEF OneTaking, Attempted
    <3> QED BY <1>2, <2>2, <3>1, <3>3, <3>5 DEF OneTaking, Attempted
  <2>7. CASE StartFlush
    <3>1. flush = NoFlush /\ UNCHANGED <<compose, taken, lost>>
      BY <2>7 DEF StartFlush
    <3>2. Begin(outbox, DueItems, outbox) /\ DueItems \in SUBSET Ids
      BY <2>7 DEF StartFlush, DueItems
    <3>3. /\ outbox'[i].parts = outbox[i].parts
          /\ flush'.at = i => /\ i \in DueItems /\ flush'.left = outbox[i].parts
                              /\ flush'.verdict = "ok"
      BY <1>1, <2>2, <3>2, BeginAttempts
    <3>4. /\ flush'.due = DueItems
          /\ i \in DueItems => flush'.found[i] = outbox[i] /\ outbox[i] # NoItem
          /\ outbox'[i] = NoItem <=> outbox[i] = NoItem
      <4>1. i \in DueItems => outbox[i] # NoItem
        BY DEF DueItems, NoItem
      <4> QED BY <1>1, <2>2, <2>7, <4>1, StartFlushKeeps
    <3>5. OneTaking(i) /\ flush.at # i
      BY <1>2, <2>2, <2>3, <3>1
    <3>6. outbox[i] # NoItem => outbox[i].parts = 1 /\ taken[i][1] = 0
      BY <3>5 DEF OneTaking
    <3> QED BY <3>1, <3>3, <3>4, <3>5, <3>6 DEF OneTaking, Attempted
  <2>8. CASE FlushEnds
    <3>1. flush # NoFlush /\ flush \in Flush /\ flush.left = 0 /\ UNCHANGED <<compose, taken, lost>>
      BY <1>1, <2>8 DEF FlushEnds
    <3>2. /\ Begin(Flushed, flush.due \ {flush.at}, flush.found)
          /\ flush.due \ {flush.at} \in SUBSET Ids
      BY <2>8, <3>1 DEF FlushEnds, Flush
    <3>3. /\ Flushed \in Queue
          /\ Flushed[flush.at] # NoItem => outbox[flush.at] # NoItem
          /\ \A k \in Ids \ {flush.at} : Flushed[k] = outbox[k]
      BY <1>1, <3>1, FlushedKeeps DEF PassTypes
    <3>4. /\ outbox'[i].parts = Flushed[i].parts
          /\ flush'.at = i => /\ i \in flush.due \ {flush.at}
                              /\ flush'.left = flush.found[i].parts /\ flush'.verdict = "ok"
      <4> DEFINE q == Flushed
                 due == flush.due \ {flush.at}
                 found == flush.found
      <4>1. q \in Queue /\ due \in SUBSET Ids /\ Begin(q, due, found)
        BY <3>2, <3>3
      <4> HIDE DEF q, due, found
      <4>2. /\ outbox'[i].parts = q[i].parts
            /\ flush'.at = i => /\ i \in due /\ flush'.left = found[i].parts
                                /\ flush'.verdict = "ok"
        BY <2>2, <4>1, BeginAttempts
      <4> QED BY <4>2 DEF q, due, found
    <3>5. /\ flush.at \in flush.due /\ flush.at \in Ids /\ flush'.due = flush.due \ {flush.at}
          /\ i \in flush'.due => flush'.found[i] = flush.found[i]
          /\ outbox'[i] = NoItem <=> Flushed[i] = NoItem
      BY <1>1, <2>2, <2>8, FlushEndsKeeps
    <3>6. OneTaking(i)
      BY <2>3, <3>1
    <3>7. CASE i = flush.at
      <4>1. Flushed[i] # NoItem => flush.verdict # "ok" /\ Flushed[i].parts = 1
        <5>1. CASE flush.verdict = "ok"
          <6>1. Flushed[i] = NoItem
            BY <1>1, <2>2, <3>7, <5>1 DEF Flushed, Queue
          <6> QED BY <6>1
        <5>2. CASE flush.verdict # "ok"
          <6> DEFINE item == AfterAttempt(flush.found[i], flush.verdict)
          <6>1. flush.found[i] \in Item /\ flush.found[i].parts = 1
            BY <1>1, <3>1, <3>5, <3>6, <3>7 DEF PassTypes, PassInv, OneTaking
          <6>2. item.parts = 1
            BY <6>1 DEF AfterAttempt, Item
          <6>3. Flushed[i] = outbox[i] \/ Flushed[i] = item
            <7>1. Flushed = Patch(outbox, i, item)
              BY <3>7, <5>2 DEF Flushed
            <7> HIDE DEF item
            <7> QED BY <1>1, <2>2, <7>1 DEF Patch, Queue
          <6>4. Flushed[i] # NoItem => outbox[i] # NoItem
            BY <3>3, <3>7
          <6> HIDE DEF item
          <6> QED BY <3>6, <5>2, <6>2, <6>3, <6>4 DEF OneTaking
        <5> QED BY <5>1, <5>2
      <4>2. flush.verdict # "ok" => taken[i][1] = 0
        BY <3>6, <3>7 DEF OneTaking, Attempted
      <4>3. flush'.at # i /\ i \notin flush'.due
        BY <3>4, <3>5, <3>7
      <4> QED BY <3>1, <3>4, <3>5, <3>6, <4>1, <4>2, <4>3 DEF OneTaking, Attempted
    <3>8. CASE i # flush.at
      <4>1. Flushed[i] = outbox[i]
        BY <2>2, <3>3, <3>8
      <4>2. /\ i \in flush.due => flush.found[i].parts = 1 /\ taken[i][1] = 0
            /\ outbox[i] # NoItem => outbox[i].parts = 1 /\ taken[i][1] = 0
        BY <3>6, <3>8 DEF OneTaking
      <4> QED BY <3>1, <3>4, <3>5, <3>6, <3>8, <4>1, <4>2 DEF OneTaking, Attempted
    <3> QED BY <3>7, <3>8
  <2>9. CASE FlushRejects
    <3>1. /\ flush.left > 0 /\ flush' = NoFlush
          /\ UNCHANGED <<outbox, compose, taken, lost>>
      BY <2>9 DEF FlushRejects
    <3>2. OneTaking(i)
      BY <2>3, <3>1
    <3>3. flush.at = i => taken[i][1] = 0
      <4>1. flush.at = i => flush \in Flush
        BY <1>1, <1>2, <2>2
      <4> QED BY <3>1, <3>2, <4>1 DEF OneTaking, Attempted, Flush
    <3> QED BY <1>2, <2>2, <3>1, <3>2, <3>3 DEF OneTaking, Attempted
  <2>10. ASSUME NEW k \in Ids, Elapse(k) PROVE OneTaking(i)'
    <3>1. outbox[k] # NoItem /\ outbox[k] \in Item
      BY <1>1, <2>10 DEF Elapse, NoItem, Queue
    <3>2. outbox'[i] # NoItem => outbox[i] # NoItem /\ outbox'[i].parts = outbox[i].parts
      BY <1>1, <2>2, <2>10, <3>1 DEF Elapse, Queue, Item
    <3> QED BY <2>2, <2>3, <2>10, <3>2, OneTakingKept DEF Elapse
  <2>11. ASSUME NEW k \in Ids, TakeOut(k) PROVE OneTaking(i)'
    <3>1. outbox'[i] # NoItem => outbox[i] # NoItem /\ outbox'[i].parts = outbox[i].parts
      BY <1>1, <2>2, <2>11 DEF TakeOut, Queue
    <3> QED BY <2>2, <2>3, <2>11, <3>1, OneTakingKept DEF TakeOut
  <2>12. CASE ToggleQueue \/ Network \/ Save \/ UNCHANGED vars
    <3>1. UNCHANGED <<outbox, compose, flush, taken, lost>>
      BY <2>12 DEF ToggleQueue, Network, Save, vars
    <3> QED BY <2>2, <2>3, <3>1, OneTakingKept
  <2> QED
    BY <1>5, <2>4, <2>5, <2>6, <2>7, <2>8, <2>9, <2>10, <2>11, <2>12 DEF Next
<1>6. ~Crash
  BY <1>1 DEF Crash
<1> QED BY <1>4, <1>5, <1>6

\* Without a crash or a lost reply the server takes a message of one part once,
\* whatever compose screen, passes and user do to the queue (flushOutbox).
THEOREM TakenOnceHolds == Spec => []TakenOnce
<1>1. Init => OnceTypes
  BY TypeInit, TriesInit, OnceInit DEF OnceTypes, TriesTypes
<1>2. OnceTypes /\ [Next]_vars => OnceTypes'
  <2> SUFFICES ASSUME OnceTypes, [Next]_vars PROVE OnceTypes'
    OBVIOUS
  <2>1. TriesTypes'
    BY TypeStep, FreshStep, TriesStep DEF OnceTypes, TriesTypes
  <2>2. OnceInv'
    BY UntakenStep, OneTakingStep DEF OnceInv
  <2> QED BY <2>1, <2>2 DEF OnceTypes
<1>3. OnceTypes => TakenOnce
  <2> SUFFICES ASSUME OnceTypes, crashes = 0, lost = 0, NEW i \in DOMAIN composed,
                      composed[i] = 1
               PROVE  taken[i][1] <= 1
    BY DEF TakenOnce
  <2> QED BY DEF OnceTypes, OnceInv, OneTaking
<1> QED BY <1>1, <1>2, <1>3, PTL DEF Spec
=============================================================================
