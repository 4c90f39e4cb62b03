---------------------------- MODULE DurableState -----------------------------
(***************************************************************************)
(* What saving promises the renderer (electron/store.ts, "One write at a   *)
(* time"): a document it believes saved is on disk, in that version or a   *)
(* newer one, and the file never goes back to an older version.  Versions  *)
(* number the renderer's states.                                           *)
(***************************************************************************)
EXTENDS Integers

VARIABLES
  live,       \* the newest version there is
  durable,    \* the version state.json holds
  confirmed   \* the version the renderer believes saved

vars == <<live, durable, confirmed>>

Init == live = 0 /\ durable = 0 /\ confirmed = 0

Change == live' = live + 1 /\ UNCHANGED <<durable, confirmed>>

\* A document reaches the disk: never an older one than it holds.
Persist ==
  /\ durable' \in durable..live
  /\ UNCHANGED <<live, confirmed>>

Confirm ==
  /\ confirmed' \in 0..durable
  /\ UNCHANGED <<live, durable>>

Next == Change \/ Persist \/ Confirm

Spec == Init /\ [][Next]_vars
=============================================================================
