----------------------------- MODULE DataFolder ------------------------------
(***************************************************************************)
(* The data folder and its move (electron/store.ts: initDataRoot,          *)
(* setDataRoot, writeAtomic; src/state/hooks/useRelocateData.ts).  Files   *)
(* are copied, then deleted, then the app switches, while state.json and   *)
(* the dispatch ledger go on being written.                                *)
(*                                                                         *)
(* There are two folders, the default one and another.  A file is the set  *)
(* of changes it has and, for state.json, the folder its jobs name as that *)
(* of their attachments.  state.json is written whole from memory; the     *)
(* ledger is read, changed and written.  A write takes its path when it    *)
(* begins and takes effect when its temporary file is renamed.  Files of   *)
(* the other kinds (secrets, audit log, pasted images) move like these,    *)
(* caches are dropped, and a copy that ends half-way counts as none.       *)
(*                                                                         *)
(* Bounds of the model: MaxChanges, MaxMoves, MaxFaults (copies, deletions *)
(* and pointers that fail, deaths, a drive that is not there).             *)
(***************************************************************************)
EXTENDS Integers, FiniteSets

CONSTANTS MaxChanges, MaxMoves, MaxFaults

FolderAssumption == {MaxChanges, MaxMoves, MaxFaults} \subseteq Nat

VARIABLES
  root, pointer,     \* activeRoot, and the folder named by the pointer file
  dir,               \* what is in each folder
  saving, claiming,  \* the write of state.json, and of the ledger, under way
  live, jobsAt,      \* the state in memory, and where its jobs seek attachments
  dirty,             \* it has changed since it was last written
  armedAt,           \* the same in the scheduler's copy of the jobs
  move,              \* setDataRoot() and what follows it
  acked,             \* per file: the changes whose write was acknowledged
  disturbed,         \* which of the things that may cost a change have happened
  changes, moves, faults

ghosts  == <<acked, disturbed>>
budgets == <<changes, moves, faults>>
memory  == <<live, jobsAt, dirty, armedAt>>
writes  == <<saving, claiming>>
vars    == <<root, pointer, dir, writes, memory, move, ghosts, budgets>>

Folders == {"default", "other"}
Files   == {"state", "ledger", "attachments"}
Changes == 1..MaxChanges
Doc     == [has : SUBSET Changes, at : Folders]
Absent  == [has |-> {0}, at |-> "default"]   \* ENOENT
NoWrite == [step |-> "none", to |-> "default", doc |-> Absent]
NoMove  == [step |-> "none", to |-> "default", along |-> FALSE, left |-> {}]
There(folder, f) == dir[folder][f] # Absent

Init ==
  /\ root = "default" /\ pointer = "default"
  /\ dir = [d \in Folders |-> [f \in Files |->
              IF d = "default" THEN [has |-> {}, at |-> "default"] ELSE Absent]]
  /\ saving = NoWrite /\ claiming = NoWrite
  /\ live = {} /\ jobsAt = "default" /\ armedAt = "default" /\ dirty = FALSE
  /\ move = NoMove
  /\ acked = [f \in Files |-> {}] /\ disturbed = {}
  /\ changes = 0 /\ moves = 0 /\ faults = 0

Disturbed(when, what) == disturbed' = IF when THEN disturbed \cup {what} ELSE disturbed
Faults == faults < MaxFaults /\ faults' = faults + 1

-----------------------------------------------------------------------------
(* writeAtomic() *)

Edits ==
  /\ changes < MaxChanges /\ changes' = changes + 1
  /\ live' = live \cup {changes'} /\ dirty' = TRUE
  /\ UNCHANGED <<root, pointer, dir, writes, jobsAt, armedAt, move, ghosts, moves, faults>>

\* The state is written when it has changed.
Saves ==
  /\ saving = NoWrite /\ dirty /\ dirty' = FALSE
  /\ saving' = [step |-> "writing", to |-> root, doc |-> [has |-> live, at |-> jobsAt]]
  /\ UNCHANGED <<root, pointer, dir, claiming, live, jobsAt, armedAt, move, ghosts, budgets>>

Renamed(f, write) == [dir EXCEPT ![write.to][f] = write.doc]

\* A save during a move may land in the old folder, after it was copied.
SaveEnds ==
  /\ saving.step = "writing"
  /\ dir' = Renamed("state", saving)
  /\ acked' = [acked EXCEPT !["state"] = @ \cup saving.doc.has]
  /\ Disturbed(saving.to # root \/ move.step # "none", "used in a move")
  /\ saving' = NoWrite
  /\ UNCHANGED <<root, pointer, claiming, memory, move, budgets>>

\* readLedger(): a missing file is empty.
Found == IF There(root, "ledger") THEN dir[root]["ledger"].has ELSE {}

\* claimLedgerEntry() and the like: the ledger is read.
ReadsLedger ==
  /\ claiming = NoWrite /\ changes < MaxChanges /\ changes' = changes + 1
  /\ claiming' = [step |-> "read", to |-> root,
       doc |-> [has |-> {changes'} \cup Found, at |-> "default"]]
  /\ Disturbed(move.step # "none", "used in a move")
  /\ UNCHANGED <<root, pointer, dir, saving, memory, move, acked, moves, faults>>

WritesLedger ==
  /\ claiming.step = "read"
  /\ claiming' = [claiming EXCEPT !.step = "writing", !.to = root]
  /\ UNCHANGED <<root, pointer, dir, saving, memory, move, ghosts, budgets>>

LedgerEnds ==
  /\ claiming.step = "writing"
  /\ dir' = Renamed("ledger", claiming)
  /\ acked' = [acked EXCEPT !["ledger"] = @ \cup claiming.doc.has]
  /\ Disturbed(claiming.to # root \/ move.step # "none", "used in a move")
  /\ claiming' = NoWrite
  /\ UNCHANGED <<root, pointer, saving, memory, move, budgets>>

-----------------------------------------------------------------------------
(* setDataRoot() *)

\* The user picks a folder; the files move along, or are left.
Moves ==
  /\ move = NoMove /\ moves < MaxMoves /\ moves' = moves + 1
  /\ \E to \in Folders \ {root}, along \in BOOLEAN :
       /\ move' = [step |-> IF along THEN "copying" ELSE "switching", to |-> to,
                   along |-> along, left |-> IF along THEN Files ELSE {}]
       /\ Disturbed(~along, "left")
  /\ UNCHANGED <<root, pointer, dir, writes, memory, acked, changes, faults>>

CopiedNoLedgerBug(f) ==   \* the ledger is not among what moves
  IF f = "ledger" THEN dir
  ELSE [dir EXCEPT ![move.to][f] = IF There(root, f) THEN dir[root][f] ELSE @]

Copied(f) == [dir EXCEPT ![move.to][f] = IF There(root, f) THEN dir[root][f] ELSE @]

\* fs.cp(), file by file; the first that fails ends it all.
Copies ==
  /\ move.step = "copying"
  /\ \/ \E f \in move.left :
          /\ dir' = Copied(f)
          /\ move' = IF move.left = {f} THEN [move EXCEPT !.step = "deleting", !.left = Files]
                     ELSE [move EXCEPT !.left = @ \ {f}]
          /\ UNCHANGED faults
     \/ Faults /\ move' = NoMove /\ UNCHANGED dir
  /\ UNCHANGED <<root, pointer, writes, memory, ghosts, changes, moves>>

\* fs.rm(); a file that cannot be deleted stays, with a warning.
Deletes ==
  /\ move.step = "deleting"
  /\ \E f \in move.left :
       /\ \/ dir' = [dir EXCEPT ![root][f] = Absent] /\ UNCHANGED faults
          \/ Faults /\ UNCHANGED dir
       /\ move' = IF move.left = {f} THEN [move EXCEPT !.step = "switching", !.left = {}]
                  ELSE [move EXCEPT !.left = @ \ {f}]
  /\ UNCHANGED <<root, pointer, writes, memory, ghosts, changes, moves>>

\* writePointer()
Pointed(to) == to

\* The app switches; the pointer is written, or the user is told that it was not.
\* The renderer hears of a move, and of none if the files were left.
Switches ==
  /\ move.step = "switching"
  /\ root' = move.to
  /\ \/ pointer' = Pointed(move.to) /\ UNCHANGED <<faults, disturbed>>
     \/ Faults /\ UNCHANGED pointer /\ Disturbed(TRUE, "not pointed")
  /\ move' = IF move.along THEN [move EXCEPT !.step = "relocating"] ELSE NoMove
  /\ UNCHANGED <<dir, writes, memory, acked, changes, moves>>

\* rebaseAttachments
Rebased(to) == to

\* relocateData(): the jobs name the new folder, and the jobs handed to the scheduler again.
Relocates ==
  /\ move.step = "relocating"
  /\ jobsAt' = Rebased(move.to) /\ armedAt' = jobsAt' /\ dirty' = TRUE /\ move' = NoMove
  /\ UNCHANGED <<root, pointer, dir, writes, live, ghosts, budgets>>

\* The app dies and is started anew.  initDataRoot(): a folder that cannot be
\* reached is replaced by the default one.
Restarts ==
  /\ Faults
  /\ \E start \in {pointer, "default"} :
       LET doc == dir[start]["state"]
       IN  /\ root' = start
           /\ live' = IF There(start, "state") THEN doc.has ELSE {}
           /\ jobsAt' = IF There(start, "state") THEN doc.at ELSE start
           /\ armedAt' = jobsAt' /\ dirty' = TRUE
           /\ disturbed' = disturbed \cup (IF start # pointer THEN {"not reached"} ELSE {})
                                     \cup (IF move # NoMove THEN {"died"} ELSE {})
                                     \cup (IF dirty \/ saving # NoWrite THEN {"not saved"} ELSE {})
  /\ move' = NoMove /\ saving' = NoWrite /\ claiming' = NoWrite
  /\ UNCHANGED <<pointer, dir, acked, changes, moves>>

-----------------------------------------------------------------------------
Next == Edits \/ Saves \/ SaveEnds \/ ReadsLedger \/ WritesLedger \/ LedgerEnds
        \/ Moves \/ Copies \/ Deletes \/ Switches \/ Relocates \/ Restarts

Spec == Init /\ [][Next]_vars

-----------------------------------------------------------------------------
(* Properties. *)

TypeOK ==
  /\ {root, pointer, jobsAt, armedAt} \subseteq Folders
  /\ \A d \in Folders, f \in Files : There(d, f) => dir[d][f] \in Doc
  /\ \A w \in {saving, claiming} :
       w # NoWrite => w.step \in {"read", "writing"} /\ w.to \in Folders /\ w.doc \in Doc
  /\ move.step \in {"none", "copying", "deleting", "switching", "relocating"}
  /\ move.to \in Folders /\ {move.along, dirty} \subseteq BOOLEAN /\ move.left \subseteq Files
  /\ live \subseteq Changes /\ acked \in [Files -> SUBSET Changes]
  /\ disturbed \subseteq {"left", "died", "not saved", "not pointed", "not reached",
                          "used in a move"}
  /\ changes \in 0..MaxChanges /\ moves \in 0..MaxMoves /\ faults \in 0..MaxFaults

Has(d, f, set) == set \ {0} \subseteq dir[d][f].has

\* setDataRoot(): whatever copy or deletion fails, what was acknowledged is in the
\* old folder or in the new one at every moment of a move, and in the folder in use,
\* which the next start finds, when it is over.  Excepted is what the code does not
\* guard against: a file read or written during a move, a death in the middle of one (see
\* NoHalfMove), a pointer that could not be written.
NothingLost ==
  disturbed \cap {"left", "died", "not pointed", "not reached", "used in a move"} = {} =>
    \A f \in {"state", "ledger"} :
      /\ Has(root, f, acked[f]) \/ (move # NoMove /\ Has(move.to, f, acked[f]))
      /\ move = NoMove => Has(pointer, f, acked[f])

\* relocateData(): when a move has ended a reminder finds its attachments, from the
\* state in memory and from the scheduler's copy, also after the app was restarted.
PathsFollow ==
  (disturbed = {} /\ move = NoMove) =>
    There(jobsAt, "attachments") /\ There(armedAt, "attachments")

\* ARCHITECTURE.md: "Copy, then delete ... a half-finished move is the one outcome
\* that loses schedules".
NoHalfMove ==
  (disturbed \subseteq {"died"} /\ move = NoMove) => Has(root, "state", acked["state"])

\* The question of the settings: leave the files "to start fresh in the new folder".
StartsFresh ==
  disturbed = {"left"} =>
    Changes \cap dir["default"]["state"].has \cap dir["other"]["state"].has = {}

\* FEATURES.md: moving relocates and repairs the paths, "so a reminder made last month
\* still finds its attachment".
AlwaysFinds == disturbed = {} => There(armedAt, "attachments")
=============================================================================
