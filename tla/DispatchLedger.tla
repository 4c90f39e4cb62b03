--------------------------- MODULE DispatchLedger ---------------------------
(***************************************************************************)
(* The dispatch ledger: src/core/ops/dispatchLedger.ts (the entry and the  *)
(* restart decision) and the ledger half of electron/store.ts (the file).  *)
(*                                                                         *)
(* The file is a function from keys (a job and an instant, the claimKey)   *)
(* to entries; a missing entry is NoEntry.  store.ts runs one read-modify- *)
(* write at a time (enqueueLedgerWrite) and replaces the file by an atomic *)
(* rename, so each operation is one function from file to file.  Every     *)
(* write drops the entries older than PruneAge (pruneLedger).              *)
(***************************************************************************)
EXTENDS Integers

CONSTANTS
  Jobs,       \* job ids
  MaxTime,    \* the last instant of the model's calendar
  PruneAge    \* CLAIM_MAX_AGE_MS: the 24 hours of pruneLedger

ASSUME LedgerAssumption == MaxTime \in Nat /\ PruneAge \in Nat

Instants == 1..MaxTime
Keys     == Jobs \X Instants   \* claimKeys, `${jobId}:${occurrenceMs}`

EntryState == {"claimed", "sending", "accepted"}
Entry      == [state : EntryState, claimedAt : Nat, attempts : Nat]
NoEntry    == [state |-> "none", claimedAt |-> 0, attempts |-> 0]

LedgerFile  == [Keys -> Entry \cup {NoEntry}]
EmptyLedger == [k \in Keys |-> NoEntry]

Present(file, k) == file[k] # NoEntry

PruneLedger(file, now) ==
  [k \in Keys |-> IF Present(file, k) /\ file[k].claimedAt < now - PruneAge
                    THEN NoEntry ELSE file[k]]

WriteEntry(file, k, entry, now) == PruneLedger([file EXCEPT ![k] = entry], now)

\* claimLedgerEntry(): starts over, counting from an entry still on file (whose
\* Message-Id it keeps: two claims share one exactly when attempts goes on).
ClaimLedgerEntry(file, k, now) ==
  WriteEntry(file, k, [state |-> "claimed", claimedAt |-> now,
                       attempts |-> file[k].attempts + 1], now)

\* markLedgerSending(), markLedgerAccepted(): no-ops without an entry.
MarkLedger(file, k, state, now) ==
  IF Present(file, k)
    THEN WriteEntry(file, k, [file[k] EXCEPT !.state = state], now)
    ELSE file
MarkLedgerSending(file, k, now)  == MarkLedger(file, k, "sending", now)
MarkLedgerAccepted(file, k, now) == MarkLedger(file, k, "accepted", now)

DeleteLedgerEntry(file, k, now) ==
  IF Present(file, k) THEN WriteEntry(file, k, NoEntry, now) ELSE file

\* resolveLedgerEntryOnRestart(): only "accepted" is proof of delivery.
ToResend(file)   == {k \in Keys : Present(file, k) /\ file[k].state # "accepted"}
ToComplete(file) == {k \in Keys : Present(file, k) /\ file[k].state = "accepted"}
=============================================================================
