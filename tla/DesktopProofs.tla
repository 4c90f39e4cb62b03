---------------------------- MODULE DesktopProofs ----------------------------
(***************************************************************************)
(* Proofs about what MCDesktop composes, for any number of requests, jobs, *)
(* changes, moves and faults.                                              *)
(*                                                                         *)
(* The data folder: a move loses nothing that was acknowledged, and the    *)
(* jobs find their attachments when it is over.  What is safe moves from   *)
(* the one folder to the other file by file, and which folder has a file   *)
(* depends on how far the move has come; a write that was begun before is  *)
(* harmless only if it has all that was acknowledged since.                *)
(*                                                                         *)
(* The composition: one of the parts moves, and the others rest.  What     *)
(* DesktopPartsProofs shows about the control API and the undo stack holds *)
(* in each of the settings.                                                *)
(***************************************************************************)
EXTENDS MCDesktop, Integers, Sequences, TLAPS

Docs   == Folder!Doc \cup {Folder!Absent}
Writes == [step : {"read", "writing"}, to : Folder!Folders, doc : Folder!Doc]
Steps  == {"none", "copying", "deleting", "switching", "relocating"}
Moving == [step : Steps, to : Folder!Folders, along : BOOLEAN, left : SUBSET Folder!Files]
Costs  == {"left", "died", "not pointed", "not reached", "used in a move"}

FolderTypes ==
  /\ root \in Folder!Folders
  /\ pointer \in Folder!Folders
  /\ jobsAt \in Folder!Folders
  /\ armedAt \in Folder!Folders
  /\ dir \in [Folder!Folders -> [Folder!Files -> Docs]]
  /\ saving \in Writes \cup {Folder!NoWrite} /\ claiming \in Writes \cup {Folder!NoWrite}
  /\ saving # Folder!NoWrite => saving.step = "writing"
  /\ move \in Moving /\ (move.step = "none" => move = Folder!NoMove)
  /\ live \subseteq Folder!Changes /\ unsaved \in BOOLEAN
  /\ acked \in [Folder!Files -> SUBSET Folder!Changes]
  /\ disturbed \subseteq Costs \cup {"not saved"}
  /\ changes \in 0..MaxChanges /\ moves \in 0..MaxMoves /\ failed \in 0..MaxFailed

\* None of the things has happened that the code does not guard against.
Calm == disturbed \cap Costs = {}

\* The folder d has the file f with all that was acknowledged.
Kept(d, f) == Folder!Has(d, f, acked[f]) /\ (f = "attachments" => Folder!There(d, f))

\* Where the files are safe, by how far the move has come.
FilesKept ==
  Calm =>
    /\ pointer = root
    /\ move.step # "none" => move.along
    /\ move.step \in {"copying", "deleting", "switching"} => move.to # root
    /\ move.step = "relocating" => move.to = root
    /\ move.step \in {"none", "copying", "relocating"} => \A f \in Folder!Files : Kept(root, f)
    /\ move.step = "copying" => \A f \in Folder!Files \ move.left : Kept(move.to, f)
    /\ move.step \in {"deleting", "switching"} => \A f \in Folder!Files : Kept(move.to, f)

\* Memory, and each write under way, has what was acknowledged.
WritesKept ==
  Calm =>
    /\ acked["state"] \subseteq live
    /\ saving # Folder!NoWrite => /\ acked["state"] \subseteq saving.doc.has
                                  /\ saving.doc.has \subseteq live
    /\ claiming # Folder!NoWrite => acked["ledger"] \subseteq claiming.doc.has

\* The jobs name the folder in use, and so does the file, or the write under way.
JobsPoint ==
  disturbed = {} =>
    /\ armedAt = jobsAt
    /\ move.step \in {"none", "copying"} =>
         /\ jobsAt = root
         /\ ~unsaved /\ saving = Folder!NoWrite /\ Folder!There(root, "state") =>
              dir[root]["state"].at = root
         /\ ~unsaved /\ saving # Folder!NoWrite => saving.doc.at = root

FolderInv == FolderTypes /\ FilesKept /\ WritesKept /\ JobsPoint

-----------------------------------------------------------------------------

\* One file of one folder is replaced.
LEMMA OneFile ==
  ASSUME dir \in [Folder!Folders -> [Folder!Files -> Docs]], NEW d \in Folder!Folders,
         NEW f \in Folder!Files, NEW x \in Docs,
         dir' = [dir EXCEPT ![d][f] = x]
  PROVE  /\ dir' \in [Folder!Folders -> [Folder!Files -> Docs]]
         /\ dir'[d][f] = x
         /\ \A e \in Folder!Folders, g \in Folder!Files : e # d \/ g # f => dir'[e][g] = dir[e][g]
<1> DEFINE y == [dir[d] EXCEPT ![f] = x]
<1>1. y \in [Folder!Files -> Docs] /\ y[f] = x /\ \A g \in Folder!Files \ {f} : y[g] = dir[d][g]
  OBVIOUS
<1>2. dir' = [dir EXCEPT ![d] = y]
  OBVIOUS
<1> HIDE DEF y
<1> QED BY <1>1, <1>2

LEMMA Bounded ==
  ASSUME Folder!FolderAssumption PROVE MaxChanges \in Nat /\ MaxMoves \in Nat /\ MaxFailed \in Nat
BY DEF Folder!FolderAssumption

\* A budget that is not used up may be used once more.
LEMMA BudgetsLast ==
  ASSUME Folder!FolderAssumption, FolderTypes
  PROVE  /\ Folder!Faults => failed' \in 0..MaxFailed
         /\ moves < MaxMoves /\ moves' = moves + 1 => moves' \in 0..MaxMoves
         /\ changes < MaxChanges /\ changes' = changes + 1 =>
              changes' \in 0..MaxChanges /\ changes' \in Folder!Changes
<1>1. changes \in 0..MaxChanges /\ moves \in 0..MaxMoves /\ failed \in 0..MaxFailed
  BY DEF FolderTypes
<1> QED BY <1>1, Bounded DEF Folder!Faults, Folder!Changes

\* What was acknowledged are changes, of which none is 0.
LEMMA AckedAreChanges ==
  ASSUME Folder!FolderAssumption, FolderTypes, NEW f \in Folder!Files
  PROVE  acked[f] \subseteq Folder!Changes /\ 0 \notin Folder!Changes
<1>1. acked[f] \subseteq Folder!Changes
  BY DEF FolderTypes
<1> QED BY <1>1, Bounded DEF Folder!Changes

\* What is not there has nothing, and no acknowledged change.
LEMMA AbsentHasNothing ==
  ASSUME Folder!FolderAssumption, FolderTypes, NEW d \in Folder!Folders, NEW f \in Folder!Files,
         Folder!Has(d, f, acked[f]), ~Folder!There(d, f)
  PROVE  acked[f] = {}
<1>1. acked[f] \subseteq Folder!Changes /\ 0 \notin Folder!Changes
  BY AckedAreChanges
<1>2. dir[d][f].has = {0}
  BY DEF Folder!There, Folder!Absent
<1> QED BY <1>1, <1>2 DEF Folder!Has

\* A file is kept where neither it nor what was acknowledged changes.
LEMMA StaysKept ==
  ASSUME NEW d \in Folder!Folders, NEW f \in Folder!Files, Kept(d, f),
         dir'[d][f] = dir[d][f], acked'[f] = acked[f]
  PROVE  Kept(d, f)'
BY DEF Kept, Folder!Has, Folder!There

\* Disturbances are not forgotten.
LEMMA CalmBefore ==
  ASSUME disturbed \subseteq disturbed' PROVE (Calm' => Calm) /\ (disturbed' = {} => disturbed = {})
BY DEF Calm

\* Where the folders and the move rest, so does what the invariant says of them.
LEMMA FilesRest ==
  ASSUME FolderInv, UNCHANGED <<root, pointer, dir, move, acked>>, disturbed \subseteq disturbed'
  PROVE  FilesKept'
<1>1. Calm' => Calm
  BY CalmBefore
<1> QED BY <1>1 DEF FolderInv, FilesKept, Kept, Folder!Has, Folder!There

LEMMA InitFolder == ASSUME Folder!FolderAssumption, Folder!Init PROVE FolderInv
<1>1. FolderTypes
  <2>1. [d \in Folder!Folders |-> [f \in Folder!Files |->
           IF d = "default" THEN [has |-> {}, at |-> "default"] ELSE Folder!Absent]]
             \in [Folder!Folders -> [Folder!Files -> Docs]]
    BY DEF Folder!Folders, Docs, Folder!Doc
  <2>2. Folder!NoMove \in Moving
    BY DEF Folder!NoMove, Moving, Steps, Folder!Folders
  <2>3. [f \in Folder!Files |-> {}] \in [Folder!Files -> SUBSET Folder!Changes]
    OBVIOUS
  <2>4. {0} \subseteq 0..MaxChanges /\ {0} \subseteq 0..MaxMoves /\ {0} \subseteq 0..MaxFailed
    BY DEF Folder!FolderAssumption
  <2> QED BY <2>1, <2>2, <2>3, <2>4 DEF Folder!Init, FolderTypes, Folder!Folders
<1>2. \A f \in Folder!Files : dir[root][f] = [has |-> {}, at |-> "default"] /\ acked[f] = {}
  BY DEF Folder!Init, Folder!Folders
<1>3. \A f \in Folder!Files : Kept(root, f)
  <2>1. [has |-> {}, at |-> "default"] # Folder!Absent
    BY DEF Folder!Absent
  <2> QED BY <1>2, <2>1 DEF Kept, Folder!Has, Folder!There
<1>4. move.step = "none" /\ pointer = root
  BY DEF Folder!Init, Folder!NoMove
<1>5. FilesKept
  BY <1>3, <1>4 DEF FilesKept
<1>6. WritesKept
  BY DEF Folder!Init, WritesKept, Folder!Files
<1>7. JobsPoint
  BY <1>2 DEF Folder!Init, JobsPoint, Folder!Files
<1> QED BY <1>1, <1>5, <1>6, <1>7 DEF FolderInv

-----------------------------------------------------------------------------
(* writeAtomic() *)

LEMMA EditsKeep == ASSUME Folder!FolderAssumption, FolderInv, Folder!Edits PROVE FolderInv'
<1>1. changes' \in 0..MaxChanges /\ changes' \in Folder!Changes
  BY BudgetsLast DEF Folder!Edits, FolderInv
<1>2. FolderTypes'
  BY <1>1 DEF Folder!Edits, FolderInv, FolderTypes, Folder!writes, Folder!ghosts
<1>3. FilesKept'
  BY FilesRest DEF Folder!Edits, Folder!ghosts
<1>4. WritesKept' /\ JobsPoint'
  BY DEF Folder!Edits, FolderInv, WritesKept, JobsPoint, Calm, Folder!writes, Folder!ghosts,
     Folder!There
<1> QED BY <1>2, <1>3, <1>4 DEF FolderInv

LEMMA SavesKeep == ASSUME FolderInv, Folder!Saves PROVE FolderInv'
<1>1. /\ saving' \in Writes /\ saving'.step = "writing" /\ saving' # Folder!NoWrite
      /\ saving'.doc.has = live /\ saving'.doc.at = jobsAt
  BY DEF Folder!Saves, FolderInv, FolderTypes, Writes, Folder!Doc, Folder!NoWrite
<1>2. FolderTypes'
  BY <1>1 DEF Folder!Saves, FolderInv, FolderTypes, Folder!ghosts, Folder!budgets
<1>3. FilesKept'
  BY FilesRest DEF Folder!Saves, Folder!ghosts
<1>4. WritesKept' /\ JobsPoint'
  BY <1>1 DEF Folder!Saves, FolderInv, WritesKept, JobsPoint, Calm, Folder!ghosts
<1> QED BY <1>2, <1>3, <1>4 DEF FolderInv

LEMMA WriteIsWrite ==
  ASSUME Folder!FolderAssumption, NEW w \in Writes
  PROVE  /\ w.to \in Folder!Folders
         /\ w.doc \in Docs
         /\ w.doc # Folder!Absent
         /\ w.doc.has \subseteq Folder!Changes
<1>1. w.doc \in Folder!Doc /\ w.to \in Folder!Folders
  BY DEF Writes
<1>2. w.doc.has \subseteq Folder!Changes
  BY <1>1 DEF Folder!Doc
<1>3. 0 \notin Folder!Changes
  BY Bounded DEF Folder!Changes
<1>4. w.doc # Folder!Absent
  BY <1>2, <1>3 DEF Folder!Absent
<1> QED BY <1>1, <1>2, <1>4 DEF Docs

LEMMA WriteReplaces ==
  ASSUME Folder!FolderAssumption, dir \in [Folder!Folders -> [Folder!Files -> Docs]],
         NEW f \in Folder!Files, NEW w \in Writes,
         dir' = Folder!Renamed(f, w)
  PROVE  /\ dir' \in [Folder!Folders -> [Folder!Files -> Docs]] /\ dir'[w.to][f] = w.doc
         /\ \A e \in Folder!Folders, g \in Folder!Files : e # w.to \/ g # f =>
              dir'[e][g] = dir[e][g]
<1> DEFINE d == w.to
           x == w.doc
<1>1. d \in Folder!Folders /\ x \in Docs
  BY WriteIsWrite
<1>2. dir' = [dir EXCEPT ![d][f] = x]
  BY DEF Folder!Renamed
<1> HIDE DEF d, x
<1>3. /\ dir' \in [Folder!Folders -> [Folder!Files -> Docs]] /\ dir'[d][f] = x
      /\ \A e \in Folder!Folders, g \in Folder!Files : e # d \/ g # f => dir'[e][g] = dir[e][g]
  BY <1>1, <1>2, OneFile
<1> QED BY <1>3 DEF d, x

\* A write that ends: f of the folder named when it began.
LEMMA Ends ==
  ASSUME Folder!FolderAssumption, FolderInv, NEW f \in Folder!Files, NEW w \in Writes,
         dir' = Folder!Renamed(f, w), acked' = [acked EXCEPT ![f] = @ \cup w.doc.has],
         Folder!Disturbed(w.to # root \/ move.step # "none", "used in a move"),
         UNCHANGED <<root, pointer, move>>,
         Calm => acked[f] \subseteq w.doc.has
  PROVE  /\ dir' \in [Folder!Folders -> [Folder!Files -> Docs]]
         /\ acked' \in [Folder!Files -> SUBSET Folder!Changes]
         /\ disturbed \subseteq disturbed' /\ disturbed' \subseteq Costs \cup {"not saved"}
         /\ Calm' => /\ Calm /\ w.to = root /\ move.step = "none"
                     /\ acked'[f] = w.doc.has /\ dir'[root][f] = w.doc
                     /\ \A g \in Folder!Files \ {f} : /\ acked'[g] = acked[g]
                                                      /\ dir'[root][g] = dir[root][g]
         /\ FilesKept'
<1>1. /\ w.to \in Folder!Folders /\ w.doc \in Docs /\ w.doc # Folder!Absent
      /\ w.doc.has \subseteq Folder!Changes
  BY WriteIsWrite
<1>2. /\ dir' \in [Folder!Folders -> [Folder!Files -> Docs]] /\ dir'[w.to][f] = w.doc
      /\ \A e \in Folder!Folders, g \in Folder!Files : e # w.to \/ g # f => dir'[e][g] = dir[e][g]
  BY WriteReplaces DEF FolderInv, FolderTypes
<1>3. /\ acked' \in [Folder!Files -> SUBSET Folder!Changes] /\ acked'[f] = acked[f] \cup w.doc.has
      /\ \A g \in Folder!Files \ {f} : acked'[g] = acked[g]
  BY <1>1 DEF FolderInv, FolderTypes
<1>4. /\ disturbed \subseteq disturbed' /\ disturbed' \subseteq Costs \cup {"not saved"}
      /\ Calm' => Calm /\ w.to = root /\ move.step = "none"
  BY DEF Folder!Disturbed, Calm, Costs, FolderInv, FolderTypes
<1>5. Calm' => /\ acked'[f] = w.doc.has /\ dir'[root][f] = w.doc
               /\ \A g \in Folder!Files \ {f} : acked'[g] = acked[g] /\ dir'[root][g] = dir[root][g]
  BY <1>2, <1>3, <1>4 DEF FolderInv, FolderTypes
<1>6. ASSUME Calm', NEW g \in Folder!Files PROVE Kept(root, g)'
  <2>1. Kept(root, g)
    BY <1>4, <1>6 DEF FolderInv, FilesKept
  <2> QED BY <1>1, <1>5, <1>6, <2>1 DEF Kept, Folder!Has, Folder!There
<1>7. FilesKept'
  BY <1>4, <1>6 DEF FolderInv, FilesKept
<1> QED BY <1>2, <1>3, <1>4, <1>5, <1>7

LEMMA SaveEndsKeeps == ASSUME Folder!FolderAssumption, FolderInv, Folder!SaveEnds PROVE FolderInv'
<1>1. saving \in Writes /\ saving # Folder!NoWrite
  <2>1. saving.step # "none" /\ Folder!NoWrite.step = "none"
    BY DEF Folder!SaveEnds, Folder!NoWrite
  <2> QED BY <2>1 DEF FolderInv, FolderTypes
<1>2. Calm => acked["state"] \subseteq saving.doc.has /\ saving.doc.has \subseteq live
  BY <1>1 DEF FolderInv, WritesKept
<1>3. /\ UNCHANGED <<root, pointer, claiming, Folder!memory, move, Folder!budgets>>
      /\ saving' = Folder!NoWrite
      /\ dir' \in [Folder!Folders -> [Folder!Files -> Docs]]
      /\ acked' \in [Folder!Files -> SUBSET Folder!Changes]
      /\ disturbed \subseteq disturbed' /\ disturbed' \subseteq Costs \cup {"not saved"}
      /\ Calm' => /\ Calm /\ saving.to = root /\ move.step = "none"
                  /\ acked'["state"] = saving.doc.has /\ dir'[root]["state"] = saving.doc
                  /\ \A g \in Folder!Files \ {"state"} : /\ acked'[g] = acked[g]
                                                         /\ dir'[root][g] = dir[root][g]
      /\ FilesKept'
  BY <1>1, <1>2, Ends DEF Folder!SaveEnds, Folder!Files
<1>4. FolderTypes'
  BY <1>3 DEF FolderInv, FolderTypes, Folder!memory, Folder!budgets
<1>5. WritesKept'
  BY <1>2, <1>3 DEF FolderInv, WritesKept, Folder!memory, Folder!Files
<1>6. JobsPoint'
  BY <1>1, <1>3 DEF FolderInv, JobsPoint, Folder!memory, Calm, Costs
<1> QED BY <1>3, <1>4, <1>5, <1>6 DEF FolderInv

LEMMA ReadsKeep == ASSUME Folder!FolderAssumption, FolderInv, Folder!ReadsLedger PROVE FolderInv'
<1>1. /\ Folder!Found \subseteq Folder!Changes
      /\ changes' \in Folder!Changes
      /\ changes' \in 0..MaxChanges
  <2>1. "ledger" \in Folder!Files /\ root \in Folder!Folders /\ dir[root]["ledger"] \in Docs
    BY DEF FolderInv, FolderTypes, Folder!Files
  <2>2. Folder!Found \subseteq Folder!Changes
    BY <2>1 DEF Folder!Found, Folder!There, Docs, Folder!Doc
  <2>3. changes' \in 0..MaxChanges /\ changes' \in Folder!Changes
    BY BudgetsLast DEF Folder!ReadsLedger, FolderInv
  <2> QED BY <2>2, <2>3
<1>2. /\ claiming' \in Writes /\ claiming' # Folder!NoWrite
      /\ claiming'.doc.has = {changes'} \cup Folder!Found
  BY <1>1 DEF Folder!ReadsLedger, FolderInv, FolderTypes, Writes, Folder!Doc, Folder!NoWrite,
     Folder!Folders
<1>3. /\ disturbed \subseteq disturbed' /\ disturbed' \subseteq Costs \cup {"not saved"}
      /\ Calm' => Calm /\ move.step = "none"
  BY DEF Folder!ReadsLedger, Folder!Disturbed, Calm, Costs, FolderInv, FolderTypes
<1>4. FolderTypes'
  BY <1>1, <1>2, <1>3 DEF Folder!ReadsLedger, FolderInv, FolderTypes, Folder!memory
<1>5. FilesKept'
  BY <1>3, FilesRest DEF Folder!ReadsLedger
<1>6. Calm' => acked["ledger"] \subseteq Folder!Found
  <2> SUFFICES ASSUME Calm' PROVE acked["ledger"] \subseteq Folder!Found
    OBVIOUS
  <2>1. Kept(root, "ledger") /\ root \in Folder!Folders /\ "ledger" \in Folder!Files
    BY <1>3 DEF FolderInv, FolderTypes, FilesKept, Folder!Files
  <2>2. CASE Folder!There(root, "ledger")
    <3>1. acked["ledger"] \subseteq Folder!Changes /\ 0 \notin Folder!Changes
      BY <2>1, AckedAreChanges DEF FolderInv
    <3> QED BY <2>1, <2>2, <3>1 DEF Kept, Folder!Has, Folder!Found
  <2>3. CASE ~Folder!There(root, "ledger")
    BY <2>1, <2>3, AbsentHasNothing DEF Kept, FolderInv
  <2> QED BY <2>2, <2>3
<1>7. WritesKept'
  BY <1>2, <1>3, <1>6 DEF Folder!ReadsLedger, FolderInv, WritesKept, Folder!memory
<1>8. JobsPoint'
  BY <1>3, CalmBefore DEF Folder!ReadsLedger, FolderInv, JobsPoint, Folder!memory, Folder!There
<1> QED BY <1>4, <1>5, <1>7, <1>8 DEF FolderInv

LEMMA WritesLedgerKeeps == ASSUME FolderInv, Folder!WritesLedger PROVE FolderInv'
<1>1. claiming \in Writes /\ claiming # Folder!NoWrite
  <2>1. claiming.step # "none" /\ Folder!NoWrite.step = "none"
    BY DEF Folder!WritesLedger, Folder!NoWrite
  <2> QED BY <2>1 DEF FolderInv, FolderTypes
<1>2. claiming' \in Writes /\ claiming'.doc = claiming.doc
  BY <1>1 DEF Folder!WritesLedger, FolderInv, FolderTypes, Writes
<1>3. FolderTypes'
  BY <1>2 DEF Folder!WritesLedger, FolderInv, FolderTypes, Folder!memory, Folder!ghosts,
     Folder!budgets
<1>4. FilesKept'
  BY FilesRest DEF Folder!WritesLedger, Folder!ghosts
<1>5. WritesKept' /\ JobsPoint'
  BY <1>1, <1>2 DEF Folder!WritesLedger, FolderInv, WritesKept, JobsPoint, Calm, Folder!There,
     Folder!memory, Folder!ghosts
<1> QED BY <1>3, <1>4, <1>5 DEF FolderInv

LEMMA LedgerEndsKeeps ==
  ASSUME Folder!FolderAssumption, FolderInv, Folder!LedgerEnds
  PROVE FolderInv'
<1>1. claiming \in Writes /\ claiming # Folder!NoWrite
  <2>1. claiming.step # "none" /\ Folder!NoWrite.step = "none"
    BY DEF Folder!LedgerEnds, Folder!NoWrite
  <2> QED BY <2>1 DEF FolderInv, FolderTypes
<1>2. Calm => acked["ledger"] \subseteq claiming.doc.has
  BY <1>1 DEF FolderInv, WritesKept
<1>3. /\ UNCHANGED <<root, pointer, saving, Folder!memory, move, Folder!budgets>>
      /\ claiming' = Folder!NoWrite
      /\ dir' \in [Folder!Folders -> [Folder!Files -> Docs]]
      /\ acked' \in [Folder!Files -> SUBSET Folder!Changes]
      /\ disturbed \subseteq disturbed' /\ disturbed' \subseteq Costs \cup {"not saved"}
      /\ Calm' => /\ Calm /\ claiming.to = root /\ move.step = "none"
                  /\ acked'["ledger"] = claiming.doc.has /\ dir'[root]["ledger"] = claiming.doc
                  /\ \A g \in Folder!Files \ {"ledger"} : /\ acked'[g] = acked[g]
                                                          /\ dir'[root][g] = dir[root][g]
      /\ FilesKept'
  BY <1>1, <1>2, Ends DEF Folder!LedgerEnds, Folder!Files
<1>4. FolderTypes'
  BY <1>3 DEF FolderInv, FolderTypes, Folder!memory, Folder!budgets
<1>5. WritesKept'
  BY <1>3 DEF FolderInv, WritesKept, Folder!memory, Folder!Files
<1>6. JobsPoint'
  BY <1>1, <1>3 DEF FolderInv, JobsPoint, Folder!memory, Calm, Costs, Folder!Files, Folder!There
<1> QED BY <1>3, <1>4, <1>5, <1>6 DEF FolderInv

-----------------------------------------------------------------------------
(* setDataRoot() *)

LEMMA MovesKeep == ASSUME Folder!FolderAssumption, FolderInv, Folder!Moves PROVE FolderInv'
<1>1. PICK to \in Folder!Folders \ {root}, along \in BOOLEAN :
        /\ move' = [step |-> IF along THEN "copying" ELSE "switching", to |-> to,
                    along |-> along, left |-> IF along THEN Folder!Files ELSE {}]
        /\ Folder!Disturbed(~along, "left")
  BY DEF Folder!Moves
<1>2. /\ move' \in Moving /\ move'.to # root /\ move'.step # "none" /\ move.step = "none"
      /\ along => move'.step = "copying" /\ move'.left = Folder!Files /\ move'.along
  BY <1>1 DEF Folder!Moves, Moving, Steps, Folder!NoMove
<1>3. /\ disturbed \subseteq disturbed' /\ disturbed' \subseteq Costs \cup {"not saved"}
      /\ Calm' => Calm /\ along
      /\ disturbed' = {} => Calm' /\ disturbed = {}
  BY <1>1 DEF Folder!Disturbed, Calm, Costs, FolderInv, FolderTypes
<1>4. FolderTypes'
  <2>1. moves' \in 0..MaxMoves
    BY BudgetsLast DEF Folder!Moves, FolderInv
  <2> QED BY <1>2, <1>3, <2>1 DEF Folder!Moves, FolderInv, FolderTypes, Folder!writes, Folder!memory
<1>5. FilesKept'
  BY <1>2, <1>3 DEF Folder!Moves, FolderInv, FilesKept, Kept, Folder!Has, Folder!There
<1>6. WritesKept' /\ JobsPoint'
  BY <1>2, <1>3 DEF Folder!Moves, FolderInv, WritesKept, JobsPoint, Folder!writes, Folder!memory,
     Folder!There
<1> QED BY <1>4, <1>5, <1>6 DEF FolderInv

\* The move advances without the folder in use, the writes and the jobs.
LEMMA MoveGoesOn ==
  ASSUME FolderInv, UNCHANGED <<root, pointer, Folder!writes, Folder!memory, Folder!ghosts,
         changes, moves>>,
         dir' \in [Folder!Folders -> [Folder!Files -> Docs]], failed' \in 0..MaxFailed,
         move' \in Moving, move'.step = "none" => move' = Folder!NoMove, FilesKept',
         Calm /\ move'.step \in {"none", "copying"} =>
           move.step \in {"none", "copying"} /\ dir'[root]["state"] = dir[root]["state"]
  PROVE  FolderInv'
<1>1. FolderTypes'
  BY DEF FolderInv, FolderTypes, Folder!writes, Folder!memory, Folder!ghosts
<1>2. WritesKept'
  BY DEF FolderInv, WritesKept, Calm, Folder!writes, Folder!memory, Folder!ghosts
<1>3. JobsPoint'
  BY DEF FolderInv, JobsPoint, Calm, Folder!There, Folder!writes, Folder!memory, Folder!ghosts
<1> QED BY <1>1, <1>2, <1>3 DEF FolderInv

LEMMA CopiesKeep == ASSUME Folder!FolderAssumption, FolderInv, Folder!Copies PROVE FolderInv'
<1>1. /\ move.step = "copying" /\ FolderTypes
      /\ UNCHANGED <<root, pointer, Folder!writes, Folder!memory, Folder!ghosts, changes, moves>>
  BY DEF Folder!Copies, FolderInv
<1>2. CASE Folder!Faults /\ move' = Folder!NoMove /\ UNCHANGED dir
  <2>1. FilesKept'
    BY <1>1, <1>2 DEF FolderInv, FilesKept, Calm, Kept, Folder!Has, Folder!There, Folder!NoMove,
       Folder!ghosts
  <2>2. failed' \in 0..MaxFailed
    BY <1>1, <1>2, BudgetsLast
  <2>3. move' \in Moving /\ move'.step = "none" /\ dir'[root] = dir[root]
    BY <1>2 DEF Folder!NoMove, Moving, Steps, Folder!Folders
  <2>4. dir' \in [Folder!Folders -> [Folder!Files -> Docs]]
    BY <1>1, <1>2 DEF FolderTypes
  <2> QED BY <1>1, <1>2, <2>1, <2>2, <2>3, <2>4, MoveGoesOn
<1>3. ASSUME NEW f \in move.left, dir' = Folder!Copied(f), UNCHANGED failed,
             move' = IF move.left = {f} THEN [move EXCEPT !.step = "deleting", !.left = Folder!Files]
                     ELSE [move EXCEPT !.left = @ \ {f}]
      PROVE  FolderInv'
  <2> DEFINE x == IF Folder!There(root, f) THEN dir[root][f] ELSE dir[move.to][f]
  <2>1. f \in Folder!Files /\ move.to \in Folder!Folders /\ x \in Docs
    BY <1>1 DEF FolderTypes, Moving
  <2>2. /\ dir' \in [Folder!Folders -> [Folder!Files -> Docs]] /\ dir'[move.to][f] = x
        /\ \A e \in Folder!Folders, g \in Folder!Files : e # move.to \/ g # f =>
             dir'[e][g] = dir[e][g]
    <3>1. dir' = [dir EXCEPT ![move.to][f] = x]
      BY <1>3 DEF Folder!Copied
    <3>2. dir \in [Folder!Folders -> [Folder!Files -> Docs]]
      BY <1>1 DEF FolderTypes
    <3> HIDE DEF x
    <3> QED BY <2>1, <3>1, <3>2, OneFile
  <2>3. /\ move' \in Moving /\ move'.to = move.to /\ move'.along = move.along
        /\ \/ move'.step = "deleting" /\ move.left = {f}
           \/ move'.step = "copying" /\ move'.left = move.left \ {f}
    BY <1>1, <1>3 DEF FolderTypes, Moving, Steps
  <2>4. FilesKept'
    <3> SUFFICES ASSUME Calm' PROVE FilesKept'
      BY DEF FilesKept
    <3>1. /\ Calm /\ pointer = root /\ move.along /\ move.to # root /\ root \in Folder!Folders
          /\ \A g \in Folder!Files : Kept(root, g)
          /\ \A g \in Folder!Files \ move.left : Kept(move.to, g)
      BY <1>1 DEF FolderInv, FolderTypes, FilesKept, Calm, Folder!ghosts
    <3>2. \A g \in Folder!Files : Kept(root, g)'
      BY <1>1, <2>2, <3>1, StaysKept DEF Folder!ghosts
    <3>3. Kept(move.to, f)'
      <4>1. CASE Folder!There(root, f)
        <5>1. dir'[move.to][f] = dir[root][f] /\ acked' = acked /\ Kept(root, f)
          BY <1>1, <2>1, <2>2, <3>1, <4>1 DEF Folder!ghosts
        <5>2. Folder!There(move.to, f)' /\ Folder!Has(move.to, f, acked[f])'
          BY <2>3, <4>1, <5>1 DEF Kept, Folder!Has, Folder!There
        <5> QED BY <5>2 DEF Kept
      <4>2. CASE ~Folder!There(root, f)
        <5>1. f # "attachments" /\ acked[f] = {}
          BY <1>1, <2>1, <3>1, <4>2, AbsentHasNothing DEF Kept
        <5> QED BY <1>1, <5>1 DEF Kept, Folder!Has, Folder!ghosts
      <4> QED BY <4>1, <4>2
    <3>4. \A g \in Folder!Files \ move.left : Kept(move.to, g)'
      <4> SUFFICES ASSUME NEW g \in Folder!Files, g \notin move.left PROVE Kept(move.to, g)'
        OBVIOUS
      <4>1. /\ Kept(move.to, g) /\ dir'[move.to][g] = dir[move.to][g] /\ acked' = acked
        BY <1>1, <1>3, <2>1, <2>2, <3>1 DEF Folder!ghosts
      <4> QED BY <2>3, <4>1 DEF Kept, Folder!Has, Folder!There
    <3>5. /\ move'.step = "copying" => \A g \in Folder!Files \ move'.left : Kept(move.to, g)'
          /\ move'.step = "deleting" => \A g \in Folder!Files : Kept(move.to, g)'
      BY <2>3, <3>3, <3>4
    <3> QED BY <1>1, <2>3, <3>1, <3>2, <3>5 DEF FilesKept, Kept, Folder!Has, Folder!There
  <2>5. Calm => dir'[root]["state"] = dir[root]["state"]
    BY <1>1, <2>2 DEF FolderInv, FolderTypes, FilesKept, Folder!Files
  <2> QED BY <1>1, <1>3, <2>2, <2>3, <2>4, <2>5, MoveGoesOn DEF FolderTypes
<1> QED BY <1>1, <1>2, <1>3 DEF Folder!Copies

LEMMA DeletesKeep == ASSUME Folder!FolderAssumption, FolderInv, Folder!Deletes PROVE FolderInv'
<1>1. /\ move.step = "deleting" /\ FolderTypes
      /\ UNCHANGED <<root, pointer, Folder!writes, Folder!memory, Folder!ghosts, changes, moves>>
  BY DEF Folder!Deletes, FolderInv
<1>2. PICK f \in move.left :
        /\ \/ dir' = [dir EXCEPT ![root][f] = Folder!Absent] /\ UNCHANGED failed
           \/ Folder!Faults /\ UNCHANGED dir
        /\ move' = IF move.left = {f} THEN [move EXCEPT !.step = "switching", !.left = {}]
                   ELSE [move EXCEPT !.left = @ \ {f}]
  BY DEF Folder!Deletes
<1>3. /\ f \in Folder!Files
      /\ root \in Folder!Folders
      /\ move.to \in Folder!Folders
      /\ Folder!Absent \in Docs
  BY <1>1 DEF FolderTypes, Moving, Docs
<1>4. /\ dir' \in [Folder!Folders -> [Folder!Files -> Docs]]
      /\ \A e \in Folder!Folders, g \in Folder!Files : e # root => dir'[e][g] = dir[e][g]
  <2>1. dir \in [Folder!Folders -> [Folder!Files -> Docs]]
    BY <1>1 DEF FolderTypes
  <2>2. CASE dir' = [dir EXCEPT ![root][f] = Folder!Absent]
    BY <1>3, <2>1, <2>2, OneFile
  <2> QED BY <1>2, <2>1, <2>2
<1>5. failed' \in 0..MaxFailed
  BY <1>1, <1>2, BudgetsLast DEF FolderTypes
<1>6. /\ move' \in Moving /\ move'.to = move.to /\ move'.along = move.along
      /\ move'.step \in {"deleting", "switching"}
  BY <1>1, <1>2 DEF FolderTypes, Moving, Steps
<1>7. FilesKept'
  <2> SUFFICES ASSUME Calm' PROVE FilesKept'
    BY DEF FilesKept
  <2>1. /\ pointer = root /\ move.along /\ move.to # root
        /\ \A g \in Folder!Files : Kept(move.to, g)
    BY <1>1 DEF FolderInv, FilesKept, Calm, Folder!ghosts
  <2>2. \A g \in Folder!Files : Kept(move.to, g)'
    <3> SUFFICES ASSUME NEW g \in Folder!Files PROVE Kept(move.to, g)'
      OBVIOUS
    <3>1. Kept(move.to, g) /\ dir'[move.to][g] = dir[move.to][g] /\ acked' = acked
      BY <1>1, <1>3, <1>4, <2>1 DEF Folder!ghosts
    <3> QED BY <1>3, <3>1, <1>6 DEF Kept, Folder!Has, Folder!There
  <2> QED BY <1>1, <1>6, <2>1, <2>2 DEF FilesKept, Kept, Folder!Has, Folder!There
<1> QED BY <1>1, <1>4, <1>5, <1>6, <1>7, MoveGoesOn

LEMMA SwitchesKeep == ASSUME Folder!FolderAssumption, FolderInv, Folder!Switches PROVE FolderInv'
<1>1. /\ move.step = "switching" /\ FolderTypes /\ root' = move.to /\ move.to \in Folder!Folders
      /\ UNCHANGED <<dir, Folder!writes, Folder!memory, acked, changes, moves>>
      /\ move' = IF move.along THEN [move EXCEPT !.step = "relocating"] ELSE Folder!NoMove
  BY DEF Folder!Switches, FolderInv, FolderTypes, Moving
<1>2. /\ disturbed \subseteq disturbed' /\ disturbed' \subseteq Costs \cup {"not saved"}
      /\ failed' \in 0..MaxFailed /\ pointer' \in Folder!Folders
      /\ Calm' => Calm /\ pointer' = root'
  <2>1. CASE pointer' = Folder!Pointed(move.to) /\ UNCHANGED <<failed, disturbed>>
    BY <1>1, <2>1 DEF Folder!Pointed, FolderTypes, Calm
  <2>2. CASE Folder!Faults /\ UNCHANGED pointer /\ Folder!Disturbed(TRUE, "not pointed")
    <3>1. failed' \in 0..MaxFailed
      BY <1>1, <2>2, BudgetsLast
    <3> QED BY <1>1, <2>2, <3>1 DEF FolderTypes, Folder!Disturbed, Calm, Costs
  <2> QED BY <2>1, <2>2 DEF Folder!Switches
<1>3. /\ move' \in Moving /\ move'.step \in {"none", "relocating"}
      /\ move'.step = "none" => move' = Folder!NoMove /\ ~move.along
      /\ move'.step = "relocating" => move'.to = move.to /\ move'.along
  BY <1>1 DEF FolderTypes, Moving, Steps, Folder!NoMove, Folder!Folders
<1>4. FolderTypes'
  BY <1>1, <1>2, <1>3 DEF FolderTypes, Folder!writes, Folder!memory
<1>5. Calm' => move'.step = "relocating" /\ \A g \in Folder!Files : Kept(move.to, g)
  BY <1>1, <1>2, <1>3 DEF FolderInv, FilesKept
<1>6. FilesKept'
  BY <1>1, <1>2, <1>3, <1>5 DEF FilesKept, Kept, Folder!Has, Folder!There
<1>7. WritesKept'
  BY <1>1, <1>2 DEF FolderInv, WritesKept, Folder!writes, Folder!memory
<1>8. JobsPoint'
  <2>1. disturbed' = {} => disturbed = {} /\ Calm'
    BY <1>2 DEF Calm
  <2> QED BY <1>1, <1>5, <2>1 DEF FolderInv, JobsPoint, Folder!memory
<1> QED BY <1>4, <1>6, <1>7, <1>8 DEF FolderInv

LEMMA RelocatesKeep == ASSUME FolderInv, Folder!Relocates PROVE FolderInv'
<1>1. /\ move.step = "relocating" /\ FolderTypes /\ move.to \in Folder!Folders
      /\ jobsAt' = move.to /\ armedAt' = move.to /\ unsaved' = TRUE /\ move' = Folder!NoMove
      /\ UNCHANGED <<root, pointer, dir, Folder!writes, live, Folder!ghosts, Folder!budgets>>
  BY DEF Folder!Relocates, Folder!Rebased, FolderInv, FolderTypes, Moving
<1>2. Folder!NoMove \in Moving /\ Folder!NoMove.step = "none"
  BY DEF Folder!NoMove, Moving, Steps, Folder!Folders
<1>3. FolderTypes'
  BY <1>1, <1>2 DEF FolderTypes, Folder!writes, Folder!ghosts, Folder!budgets
<1>4. Calm = Calm' /\ (Calm => move.to = root)
  BY <1>1 DEF FolderInv, FilesKept, Calm, Folder!ghosts
<1>5. FilesKept'
  BY <1>1, <1>2, <1>4 DEF FolderInv, FilesKept, Kept, Folder!Has, Folder!There, Folder!ghosts
<1>6. WritesKept'
  BY <1>1, <1>4 DEF FolderInv, WritesKept, Folder!writes, Folder!ghosts
<1>7. JobsPoint'
  BY <1>1, <1>2, <1>4 DEF JobsPoint, Calm, Folder!ghosts
<1> QED BY <1>3, <1>5, <1>6, <1>7 DEF FolderInv

LEMMA RestartsKeep == ASSUME Folder!FolderAssumption, FolderInv, Folder!Restarts PROVE FolderInv'
<1>1. PICK start \in {pointer, "default"} :
        /\ root' = start
        /\ live' = IF Folder!There(start, "state") THEN dir[start]["state"].has ELSE {}
        /\ jobsAt' = IF Folder!There(start, "state") THEN dir[start]["state"].at ELSE start
        /\ armedAt' = jobsAt' /\ unsaved' = TRUE
        /\ disturbed' = disturbed \cup (IF start # pointer THEN {"not reached"} ELSE {})
                                  \cup (IF move # Folder!NoMove THEN {"died"} ELSE {})
                                  \cup (IF unsaved \/ saving # Folder!NoWrite THEN {"not saved"} ELSE {})
  BY DEF Folder!Restarts
<1>2. /\ move' = Folder!NoMove
      /\ saving' = Folder!NoWrite
      /\ claiming' = Folder!NoWrite
      /\ Folder!Faults
      /\ FolderTypes
      /\ UNCHANGED <<pointer, dir, acked, changes, moves>>
  BY DEF Folder!Restarts, FolderInv
<1>3. Folder!NoMove \in Moving /\ Folder!NoMove.step = "none" /\ "state" \in Folder!Files
  BY DEF Folder!NoMove, Moving, Steps, Folder!Folders, Folder!Files
<1>4. start \in Folder!Folders /\ dir[start]["state"] \in Docs
  BY <1>1, <1>2, <1>3 DEF FolderTypes, Folder!Folders
<1>5. live' \subseteq Folder!Changes /\ jobsAt' \in Folder!Folders
  BY <1>1, <1>4 DEF Folder!There, Docs, Folder!Doc
<1>6. /\ disturbed \subseteq disturbed' /\ disturbed' \subseteq Costs \cup {"not saved"}
      /\ Calm' => Calm /\ start = pointer /\ move = Folder!NoMove
      /\ disturbed' = {} => Calm' /\ disturbed = {} /\ ~unsaved /\ saving = Folder!NoWrite
  BY <1>1, <1>2 DEF FolderTypes, Calm, Costs
<1>7. FolderTypes'
  <2>1. failed' \in 0..MaxFailed
    BY <1>2, BudgetsLast
  <2> QED BY <1>1, <1>2, <1>3, <1>4, <1>5, <1>6, <2>1 DEF FolderTypes
<1>8. Calm' => root' = root /\ \A f \in Folder!Files : Kept(root, f)
  BY <1>1, <1>3, <1>6 DEF FolderInv, FilesKept
<1>9. FilesKept'
  BY <1>1, <1>2, <1>3, <1>6, <1>8 DEF FilesKept, Kept, Folder!Has, Folder!There
<1>10. WritesKept'
  <2> SUFFICES ASSUME Calm' PROVE acked["state"] \subseteq live'
    BY <1>2 DEF WritesKept
  <2>1. Folder!Has(start, "state", acked["state"])
    BY <1>1, <1>3, <1>8 DEF Kept
  <2>2. acked["state"] \subseteq Folder!Changes /\ 0 \notin Folder!Changes
    BY <1>2, <1>3, AckedAreChanges
  <2>3. CASE Folder!There(start, "state")
    BY <1>1, <2>1, <2>2, <2>3 DEF Folder!Has
  <2>4. CASE ~Folder!There(start, "state")
    BY <1>2, <1>3, <1>4, <2>1, <2>4, AbsentHasNothing
  <2> QED BY <2>3, <2>4
<1>11. JobsPoint'
  <2> SUFFICES ASSUME disturbed' = {} PROVE armedAt' = jobsAt' /\ jobsAt' = root'
    BY <1>1 DEF JobsPoint
  <2>1. Folder!There(start, "state") => dir[start]["state"].at = root
    BY <1>1, <1>3, <1>6, <1>8 DEF FolderInv, JobsPoint
  <2> QED BY <1>1, <1>6, <1>8, <2>1
<1> QED BY <1>7, <1>9, <1>10, <1>11 DEF FolderInv

LEMMA StepKeeps ==
  ASSUME Folder!FolderAssumption, FolderInv, [Folder!Next]_(Folder!vars)
  PROVE FolderInv'
<1>1. CASE UNCHANGED Folder!vars
  <2>1. FilesKept'
    BY <1>1, FilesRest DEF Folder!vars, Folder!ghosts
  <2>2. FolderTypes' /\ WritesKept' /\ JobsPoint'
    BY <1>1 DEF FolderInv, FolderTypes, WritesKept, JobsPoint, Calm, Folder!There, Folder!vars,
       Folder!writes, Folder!memory, Folder!ghosts, Folder!budgets
  <2> QED BY <2>1, <2>2 DEF FolderInv
<1>2. CASE Folder!Next
  BY <1>2, EditsKeep, SavesKeep, SaveEndsKeeps, ReadsKeep, WritesLedgerKeeps, LedgerEndsKeeps,
     MovesKeep, CopiesKeep, DeletesKeep, SwitchesKeep, RelocatesKeep, RestartsKeep DEF Folder!Next
<1> QED BY <1>1, <1>2

-----------------------------------------------------------------------------
(* What follows *)

\* Which folder has a file, and what the writes under way have, at each stage of a
\* move (setDataRoot: copy, delete, switch).
THEOREM FolderInvHolds == ASSUME Folder!FolderAssumption PROVE Folder!Spec => []FolderInv
<1>1. Folder!Init => FolderInv
  BY InitFolder
<1>2. FolderInv /\ [Folder!Next]_(Folder!vars) => FolderInv'
  BY StepKeeps
<1> QED BY <1>1, <1>2, PTL DEF Folder!Spec

\* Every variable has its type, and each budget its bound.
THEOREM TypeCorrect == ASSUME Folder!FolderAssumption PROVE Folder!Spec => []Folder!TypeOK
<1>1. FolderInv => Folder!TypeOK
  <2> SUFFICES ASSUME FolderTypes PROVE Folder!TypeOK
    BY DEF FolderInv
  <2>1. \A d \in Folder!Folders, f \in Folder!Files : Folder!There(d, f) => dir[d][f] \in Folder!Doc
    BY DEF FolderTypes, Folder!There, Docs
  <2>2. \A w \in {saving, claiming} :
          w # Folder!NoWrite => /\ w.step \in {"read", "writing"}
                                /\ w.to \in Folder!Folders
                                /\ w.doc \in Folder!Doc
    <3>1. \A w \in Writes : /\ w.step \in {"read", "writing"}
                            /\ w.to \in Folder!Folders
                            /\ w.doc \in Folder!Doc
      BY DEF Writes
    <3>2. /\ saving # Folder!NoWrite => saving \in Writes
          /\ claiming # Folder!NoWrite => claiming \in Writes
      BY DEF FolderTypes
    <3> QED BY <3>1, <3>2
  <2>3. /\ move.step \in {"none", "copying", "deleting", "switching", "relocating"}
        /\ move.to \in Folder!Folders /\ move.along \in BOOLEAN /\ move.left \subseteq Folder!Files
    BY DEF FolderTypes, Moving, Steps
  <2> QED BY <2>1, <2>2, <2>3 DEF FolderTypes, Folder!TypeOK, Costs
<1> QED BY <1>1, FolderInvHolds, PTL

\* Whatever copy or deletion fails, what was acknowledged is in one of the folders
\* during a move, and in the one in use when it is over (setDataRoot).
THEOREM NothingLostHolds == ASSUME Folder!FolderAssumption PROVE Folder!Spec => []Folder!NothingLost
<1>1. FolderInv => Folder!NothingLost
  <2> SUFFICES ASSUME FolderInv, Calm, NEW f \in {"state", "ledger"}
               PROVE  /\ \/ Folder!Has(root, f, acked[f])
                         \/ move # Folder!NoMove /\ Folder!Has(move.to, f, acked[f])
                      /\ move = Folder!NoMove => Folder!Has(pointer, f, acked[f])
    BY DEF Folder!NothingLost, Calm, Costs
  <2>1. f \in Folder!Files /\ Folder!NoMove.step = "none" /\ move.step \in Steps
    BY DEF Folder!Files, Folder!NoMove, FolderInv, FolderTypes, Moving
  <2> QED BY <2>1 DEF FolderInv, FilesKept, Kept, Steps
<1> QED BY <1>1, FolderInvHolds, PTL

\* When a move has ended a reminder finds its attachments, from the state in memory
\* and from the scheduler's copy, also after a restart (relocateData, rebaseAttachments).
THEOREM PathsFollowHolds == ASSUME Folder!FolderAssumption PROVE Folder!Spec => []Folder!PathsFollow
<1>1. FolderInv => Folder!PathsFollow
  <2> SUFFICES ASSUME FolderInv, disturbed = {}, move = Folder!NoMove
               PROVE  Folder!There(jobsAt, "attachments") /\ Folder!There(armedAt, "attachments")
    BY DEF Folder!PathsFollow
  <2>1. Calm /\ move.step = "none" /\ "attachments" \in Folder!Files
    BY DEF Calm, Folder!NoMove, Folder!Files
  <2>2. jobsAt = root /\ armedAt = root /\ Kept(root, "attachments")
    BY <2>1 DEF FolderInv, FilesKept, JobsPoint
  <2> QED BY <2>2 DEF Kept
<1> QED BY <1>1, FolderInvHolds, PTL

-----------------------------------------------------------------------------
(* What moves, and what rests *)

Apis  == {"drop", "audit", "switch", "serve"}
Undos == {"single", "batch"}
Parts == Apis \cup Undos \cup {"folder"}

\* The part that moves is where it begins, and so is the undo stack where it rests.
LEMMA InitIs ==
  ASSUME Init
  PROVE  /\ part \in Parts /\ Folder!Init
         /\ part = "drop" => Drop!Init
         /\ part = "audit" => Audit!Init
         /\ part = "switch" => Switch!Init
         /\ part = "serve" => Serve!Init
         /\ part = "batch" => Batch!Init
         /\ part # "batch" => Single!Init
BY DEF Init, ApiMoves, UndoMoves, UndoRests, FolderRests, In, Parts, Apis, Undos

\* One part moves, and it stays the same one.
LEMMA StepIs ==
  ASSUME [Next]_vars
  PROVE  /\ part' = part
         /\ part = "drop" => Drop!Next \/ UNCHANGED api
         /\ part = "audit" => Audit!Next \/ UNCHANGED api
         /\ part = "switch" => Switch!Next \/ UNCHANGED api
         /\ part = "serve" => Serve!Next \/ UNCHANGED api
         /\ part = "single" => Single!Next \/ UNCHANGED undo
         /\ part = "batch" => Batch!Next \/ UNCHANGED undo
         /\ part \notin Undos => UNCHANGED undo
<1>1. CASE ApiNext /\ UNCHANGED <<part, undo, folder>>
  BY <1>1 DEF ApiNext, In, Undos
<1>2. CASE UndoNext /\ UNCHANGED <<part, api, folder>>
  BY <1>2 DEF UndoNext, In, Undos
<1>3. CASE In("folder") /\ UNCHANGED <<part, api, undo>>
  BY <1>3 DEF In
<1>4. CASE UNCHANGED vars
  BY <1>4 DEF vars
<1> QED BY <1>1, <1>2, <1>3, <1>4 DEF Next

\* One of the seven parts moves.
LEMMA PartIs == Spec => [](part \in Parts)
<1>1. Init => part \in Parts
  BY InitIs
<1>2. part \in Parts /\ [Next]_vars => (part \in Parts)'
  BY StepIs
<1> QED BY <1>1, <1>2, PTL DEF Spec

-----------------------------------------------------------------------------
(* The control API and the undo stack in their settings *)

\* What DesktopPartsProofs shows, for each setting of the control API and, in the first and the
\* third, of the undo stack.  Of the state store nothing is used.
Dropping == INSTANCE DesktopPartsProofs WITH
  secret <- token, misses <- faults,
  Requests <- {r1}, Sends <- {}, Callers <- 1, MaxToggles <- 0, MaxExits <- 2, MaxMisses <- 2,
  Jobs <- {j1, j2}, Rules <- {Idle(1), Idle(2)}, Days <- {}, Depth <- 2, MaxTime <- 0,
  MaxTouches <- 2, MaxAdopts <- 0, MaxRestarts <- 1, Horizon <- 3, LowWater <- 2,
  MaxRounds <- 0, MaxEdits <- 0, MaxHides <- 0, MaxFaults <- 0, live <- 0, timer <- 0,
  lastSaved <- 0, token <- 0, retries <- 0, failing <- 0, requests <- 0, answers <- 0,
  queued <- 0, writing <- 0, loop <- 0, disk <- 0, phase <- 0, rounds <- 0, handed <- 0,
  hides <- 0, faults <- 0

Auditing == INSTANCE DesktopPartsProofs WITH
  secret <- token, misses <- faults, MaxTouches <- MaxEdits,
  Requests <- {r1, r2}, Sends <- {r1}, Callers <- 1, MaxToggles <- 0, MaxExits <- 0, MaxMisses <- 1,
  MaxRounds <- 0, MaxEdits <- 0, MaxHides <- 0, MaxFaults <- 0, live <- 0, timer <- 0,
  lastSaved <- 0, token <- 0, retries <- 0, failing <- 0, requests <- 0, answers <- 0,
  queued <- 0, writing <- 0, loop <- 0, disk <- 0, phase <- 0, rounds <- 0, handed <- 0,
  hides <- 0, faults <- 0

Switching == INSTANCE DesktopPartsProofs WITH
  secret <- token, misses <- faults, MaxMisses <- MaxFaults, MaxTouches <- MaxEdits,
  MaxRounds <- 0, MaxEdits <- 0, MaxHides <- 0, MaxFaults <- 0, live <- 0, timer <- 0,
  lastSaved <- 0, token <- 0, retries <- 0, failing <- 0, requests <- 0, answers <- 0,
  queued <- 0, writing <- 0, loop <- 0, disk <- 0, phase <- 0, rounds <- 0, handed <- 0,
  hides <- 0, faults <- 0

Serving == INSTANCE DesktopPartsProofs WITH
  secret <- token, misses <- faults, MaxTouches <- MaxEdits,
  Requests <- {r1}, Sends <- {r1}, Callers <- 1, MaxToggles <- 1, MaxExits <- 1, MaxMisses <- 1,
  MaxRounds <- 0, MaxEdits <- 0, MaxHides <- 0, MaxFaults <- 0, live <- 0, timer <- 0,
  lastSaved <- 0, token <- 0, retries <- 0, failing <- 0, requests <- 0, answers <- 0,
  queued <- 0, writing <- 0, loop <- 0, disk <- 0, phase <- 0, rounds <- 0, handed <- 0,
  hides <- 0, faults <- 0

\* The control API of "drop" is that of the proofs.
LEMMA DropSame ==
  /\ Drop!ControlAssumption <=> Dropping!Api!ControlAssumption
  /\ Drop!Init <=> Dropping!Api!Init
  /\ Drop!Next <=> Dropping!Api!Next
BY DEF Drop!ControlAssumption, Dropping!Api!ControlAssumption, Drop!ui, Dropping!Api!ui, Drop!http,
   Dropping!Api!http, Drop!drop, Dropping!Api!drop, Drop!audit, Dropping!Api!audit, Drop!Off,
   Dropping!Api!Off, Drop!NoWork, Dropping!Api!NoWork, Drop!NoDrain, Dropping!Api!NoDrain, Drop!Up,
   Dropping!Api!Up, Drop!Init, Dropping!Api!Init, Drop!Faults, Dropping!Api!Faults, Drop!Call,
   Dropping!Api!Call, Drop!Applied, Dropping!Api!Applied, Drop!NewSettings,
   Dropping!Api!NewSettings, Drop!Toggle, Dropping!Api!Toggle, Drop!To, Dropping!Api!To,
   Drop!Handle, Dropping!Api!Handle, Drop!Listens, Dropping!Api!Listens, Drop!Publishes,
   Dropping!Api!Publishes, Drop!Closes, Dropping!Api!Closes, Drop!Removes, Dropping!Api!Removes,
   Drop!Reports, Dropping!Api!Reports, Drop!Launch, Dropping!Api!Launch, Drop!WindowListens,
   Dropping!Api!WindowListens, Drop!WindowReady, Dropping!Api!WindowReady, Drop!Exit,
   Dropping!Api!Exit, Drop!Ask, Dropping!Api!Ask, Drop!Answer, Dropping!Api!Answer, Drop!Posts,
   Dropping!Api!Posts, Drop!FallsBack, Dropping!Api!FallsBack, Drop!Queues, Dropping!Api!Queues,
   Drop!Execute, Dropping!Api!Execute, Drop!Permitted, Dropping!Api!Permitted, Drop!Admits,
   Dropping!Api!Admits, Drop!Reads, Dropping!Api!Reads, Drop!Respond, Dropping!Api!Respond,
   Drop!Accepts, Dropping!Api!Accepts, Drop!Takes, Dropping!Api!Takes, Drop!Finishes,
   Dropping!Api!Finishes, Drop!TimesOut, Dropping!Api!TimesOut, Drop!Replies, Dropping!Api!Replies,
   Drop!Tick, Dropping!Api!Tick, Drop!Claimed, Dropping!Api!Claimed, Drop!Claims,
   Dropping!Api!Claims, Drop!Moves, Dropping!Api!Moves, Drop!Result, Dropping!Api!Result,
   Drop!WritesResult, Dropping!Api!WritesResult, Drop!GoesOn, Dropping!Api!GoesOn, Drop!EndsPass,
   Dropping!Api!EndsPass, Drop!NextName, Dropping!Api!NextName, Drop!Records, Dropping!Api!Records,
   Drop!Turn, Dropping!Api!Turn, Drop!AuditReads, Dropping!Api!AuditReads, Drop!AuditWrites,
   Dropping!Api!AuditWrites, Drop!Applies, Dropping!Api!Applies, Drop!Main, Dropping!Api!Main,
   Drop!Renders, Dropping!Api!Renders, Drop!Script, Dropping!Api!Script, Drop!Starts,
   Dropping!Api!Starts, Drop!Next, Dropping!Api!Next, Drop!Known, Dropping!Api!Known,
   Drop!Authorised, Dropping!Api!Authorised, Drop!AuditFails, Dropping!Api!AuditFails, Drop!Audits,
   Dropping!Api!Audits

LEMMA DropSays ==
  /\ Drop!TypeOK <=> Dropping!Api!TypeOK
  /\ Drop!DroppedRunsOnce <=> Dropping!Api!DroppedRunsOnce
  /\ Drop!ResultIsTrue <=> Dropping!Api!ResultIsTrue
BY DEF Drop!http, Dropping!Api!http, Drop!drop, Dropping!Api!drop, Drop!TypeOK,
   Dropping!Api!TypeOK, Drop!DroppedRunsOnce, Dropping!Api!DroppedRunsOnce, Drop!ResultIsTrue,
   Dropping!Api!ResultIsTrue

\* The control API of "audit" is that of the proofs.
LEMMA AuditSame ==
  /\ Audit!ControlAssumption <=> Auditing!Api!ControlAssumption
  /\ Audit!Init <=> Auditing!Api!Init
  /\ Audit!Next <=> Auditing!Api!Next
BY DEF Audit!ControlAssumption, Auditing!Api!ControlAssumption, Audit!ui, Auditing!Api!ui,
   Audit!http, Auditing!Api!http, Audit!drop, Auditing!Api!drop, Audit!audit, Auditing!Api!audit,
   Audit!Off, Auditing!Api!Off, Audit!NoWork, Auditing!Api!NoWork, Audit!NoDrain,
   Auditing!Api!NoDrain, Audit!Up, Auditing!Api!Up, Audit!Init, Auditing!Api!Init, Audit!Faults,
   Auditing!Api!Faults, Audit!Call, Auditing!Api!Call, Audit!Applied, Auditing!Api!Applied,
   Audit!NewSettings, Auditing!Api!NewSettings, Audit!Toggle, Auditing!Api!Toggle, Audit!To,
   Auditing!Api!To, Audit!Handle, Auditing!Api!Handle, Audit!Listens, Auditing!Api!Listens,
   Audit!Publishes, Auditing!Api!Publishes, Audit!Closes, Auditing!Api!Closes, Audit!Removes,
   Auditing!Api!Removes, Audit!Reports, Auditing!Api!Reports, Audit!Launch, Auditing!Api!Launch,
   Audit!WindowListens, Auditing!Api!WindowListens, Audit!WindowReady, Auditing!Api!WindowReady,
   Audit!Exit, Auditing!Api!Exit, Audit!Ask, Auditing!Api!Ask, Audit!Answer, Auditing!Api!Answer,
   Audit!Posts, Auditing!Api!Posts, Audit!FallsBack, Auditing!Api!FallsBack, Audit!Queues,
   Auditing!Api!Queues, Audit!Execute, Auditing!Api!Execute, Audit!Permitted,
   Auditing!Api!Permitted, Audit!Admits, Auditing!Api!Admits, Audit!Reads, Auditing!Api!Reads,
   Audit!Respond, Auditing!Api!Respond, Audit!Accepts, Auditing!Api!Accepts, Audit!Takes,
   Auditing!Api!Takes, Audit!Finishes, Auditing!Api!Finishes, Audit!TimesOut,
   Auditing!Api!TimesOut, Audit!Replies, Auditing!Api!Replies, Audit!Tick, Auditing!Api!Tick,
   Audit!Claimed, Auditing!Api!Claimed, Audit!Claims, Auditing!Api!Claims, Audit!Moves,
   Auditing!Api!Moves, Audit!Result, Auditing!Api!Result, Audit!WritesResult,
   Auditing!Api!WritesResult, Audit!GoesOn, Auditing!Api!GoesOn, Audit!EndsPass,
   Auditing!Api!EndsPass, Audit!NextName, Auditing!Api!NextName, Audit!Records,
   Auditing!Api!Records, Audit!Turn, Auditing!Api!Turn, Audit!AuditReads, Auditing!Api!AuditReads,
   Audit!AuditWrites, Auditing!Api!AuditWrites, Audit!Applies, Auditing!Api!Applies, Audit!Main,
   Auditing!Api!Main, Audit!Renders, Auditing!Api!Renders, Audit!Script, Auditing!Api!Script,
   Audit!Starts, Auditing!Api!Starts, Audit!Next, Auditing!Api!Next, Audit!Known,
   Auditing!Api!Known, Audit!Authorised, Auditing!Api!Authorised, Audit!AuditFails,
   Auditing!Api!AuditFails, Audit!Audits, Auditing!Api!Audits

LEMMA AuditSays ==
  /\ Audit!TypeOK <=> Auditing!Api!TypeOK
  /\ Audit!AnsweredIsAudited <=> Auditing!Api!AnsweredIsAudited
BY DEF Audit!http, Auditing!Api!http, Audit!drop, Auditing!Api!drop, Audit!TypeOK,
   Auditing!Api!TypeOK, Audit!AnsweredIsAudited, Auditing!Api!AnsweredIsAudited

\* The control API of "switch" is that of the proofs.
LEMMA SwitchSame ==
  /\ Switch!ControlAssumption <=> Switching!Api!ControlAssumption
  /\ Switch!Init <=> Switching!Api!Init
  /\ Switch!Next <=> Switching!Api!Next
BY DEF Switch!ControlAssumption, Switching!Api!ControlAssumption, Switch!ui, Switching!Api!ui,
   Switch!http, Switching!Api!http, Switch!drop, Switching!Api!drop, Switch!audit,
   Switching!Api!audit, Switch!Off, Switching!Api!Off, Switch!NoWork, Switching!Api!NoWork,
   Switch!NoDrain, Switching!Api!NoDrain, Switch!Up, Switching!Api!Up, Switch!Init,
   Switching!Api!Init, Switch!Faults, Switching!Api!Faults, Switch!Call, Switching!Api!Call,
   Switch!Applied, Switching!Api!Applied, Switch!NewSettings, Switching!Api!NewSettings,
   Switch!Toggle, Switching!Api!Toggle, Switch!To, Switching!Api!To, Switch!Handle,
   Switching!Api!Handle, Switch!Listens, Switching!Api!Listens, Switch!Publishes,
   Switching!Api!Publishes, Switch!Closes, Switching!Api!Closes, Switch!Removes,
   Switching!Api!Removes, Switch!Reports, Switching!Api!Reports, Switch!Launch,
   Switching!Api!Launch, Switch!WindowListens, Switching!Api!WindowListens, Switch!WindowReady,
   Switching!Api!WindowReady, Switch!Exit, Switching!Api!Exit, Switch!Ask, Switching!Api!Ask,
   Switch!Answer, Switching!Api!Answer, Switch!Posts, Switching!Api!Posts, Switch!FallsBack,
   Switching!Api!FallsBack, Switch!Queues, Switching!Api!Queues, Switch!Execute,
   Switching!Api!Execute, Switch!Permitted, Switching!Api!Permitted, Switch!Admits,
   Switching!Api!Admits, Switch!Reads, Switching!Api!Reads, Switch!Respond, Switching!Api!Respond,
   Switch!Accepts, Switching!Api!Accepts, Switch!Takes, Switching!Api!Takes, Switch!Finishes,
   Switching!Api!Finishes, Switch!TimesOut, Switching!Api!TimesOut, Switch!Replies,
   Switching!Api!Replies, Switch!Tick, Switching!Api!Tick, Switch!Claimed, Switching!Api!Claimed,
   Switch!Claims, Switching!Api!Claims, Switch!Moves, Switching!Api!Moves, Switch!Result,
   Switching!Api!Result, Switch!WritesResult, Switching!Api!WritesResult, Switch!GoesOn,
   Switching!Api!GoesOn, Switch!EndsPass, Switching!Api!EndsPass, Switch!NextName,
   Switching!Api!NextName, Switch!Records, Switching!Api!Records, Switch!Turn, Switching!Api!Turn,
   Switch!AuditReads, Switching!Api!AuditReads, Switch!AuditWrites, Switching!Api!AuditWrites,
   Switch!Applies, Switching!Api!Applies, Switch!Main, Switching!Api!Main, Switch!Renders,
   Switching!Api!Renders, Switch!Script, Switching!Api!Script, Switch!Starts, Switching!Api!Starts,
   Switch!Next, Switching!Api!Next, Switch!Known, Switching!Api!Known, Switch!Authorised,
   Switching!Api!Authorised, Switch!AuditFails, Switching!Api!AuditFails, Switch!Audits,
   Switching!Api!Audits

LEMMA SwitchSays ==
  /\ Switch!TypeOK <=> Switching!Api!TypeOK
  /\ Switch!DroppedRunsOnce <=> Switching!Api!DroppedRunsOnce
  /\ Switch!KnownIsCurrent <=> Switching!Api!KnownIsCurrent
BY DEF Switch!http, Switching!Api!http, Switch!drop, Switching!Api!drop, Switch!TypeOK,
   Switching!Api!TypeOK, Switch!DroppedRunsOnce, Switching!Api!DroppedRunsOnce,
   Switch!KnownIsCurrent, Switching!Api!KnownIsCurrent

\* The control API of "serve" is that of the proofs.
LEMMA ServeSame ==
  /\ Serve!ControlAssumption <=> Serving!Api!ControlAssumption
  /\ Serve!Init <=> Serving!Api!Init
  /\ Serve!Next <=> Serving!Api!Next
BY DEF Serve!ControlAssumption, Serving!Api!ControlAssumption, Serve!ui, Serving!Api!ui,
   Serve!http, Serving!Api!http, Serve!drop, Serving!Api!drop, Serve!audit, Serving!Api!audit,
   Serve!Off, Serving!Api!Off, Serve!NoWork, Serving!Api!NoWork, Serve!NoDrain,
   Serving!Api!NoDrain, Serve!Up, Serving!Api!Up, Serve!Init, Serving!Api!Init, Serve!Faults,
   Serving!Api!Faults, Serve!Call, Serving!Api!Call, Serve!Applied, Serving!Api!Applied,
   Serve!NewSettings, Serving!Api!NewSettings, Serve!Toggle, Serving!Api!Toggle, Serve!To,
   Serving!Api!To, Serve!Handle, Serving!Api!Handle, Serve!Listens, Serving!Api!Listens,
   Serve!Publishes, Serving!Api!Publishes, Serve!Closes, Serving!Api!Closes, Serve!Removes,
   Serving!Api!Removes, Serve!Reports, Serving!Api!Reports, Serve!Launch, Serving!Api!Launch,
   Serve!WindowListens, Serving!Api!WindowListens, Serve!WindowReady, Serving!Api!WindowReady,
   Serve!Exit, Serving!Api!Exit, Serve!Ask, Serving!Api!Ask, Serve!Answer, Serving!Api!Answer,
   Serve!Posts, Serving!Api!Posts, Serve!FallsBack, Serving!Api!FallsBack, Serve!Queues,
   Serving!Api!Queues, Serve!Execute, Serving!Api!Execute, Serve!Permitted, Serving!Api!Permitted,
   Serve!Admits, Serving!Api!Admits, Serve!Reads, Serving!Api!Reads, Serve!Respond,
   Serving!Api!Respond, Serve!Accepts, Serving!Api!Accepts, Serve!Takes, Serving!Api!Takes,
   Serve!Finishes, Serving!Api!Finishes, Serve!TimesOut, Serving!Api!TimesOut, Serve!Replies,
   Serving!Api!Replies, Serve!Tick, Serving!Api!Tick, Serve!Claimed, Serving!Api!Claimed,
   Serve!Claims, Serving!Api!Claims, Serve!Moves, Serving!Api!Moves, Serve!Result,
   Serving!Api!Result, Serve!WritesResult, Serving!Api!WritesResult, Serve!GoesOn,
   Serving!Api!GoesOn, Serve!EndsPass, Serving!Api!EndsPass, Serve!NextName, Serving!Api!NextName,
   Serve!Records, Serving!Api!Records, Serve!Turn, Serving!Api!Turn, Serve!AuditReads,
   Serving!Api!AuditReads, Serve!AuditWrites, Serving!Api!AuditWrites, Serve!Applies,
   Serving!Api!Applies, Serve!Main, Serving!Api!Main, Serve!Renders, Serving!Api!Renders,
   Serve!Script, Serving!Api!Script, Serve!Starts, Serving!Api!Starts, Serve!Next,
   Serving!Api!Next, Serve!Known, Serving!Api!Known, Serve!Authorised, Serving!Api!Authorised,
   Serve!AuditFails, Serving!Api!AuditFails, Serve!Audits, Serving!Api!Audits

LEMMA ServeSays ==
  /\ Serve!TypeOK <=> Serving!Api!TypeOK
  /\ Serve!DroppedRunsOnce <=> Serving!Api!DroppedRunsOnce
  /\ Serve!ResultIsTrue <=> Serving!Api!ResultIsTrue
BY DEF Serve!http, Serving!Api!http, Serve!drop, Serving!Api!drop, Serve!TypeOK,
   Serving!Api!TypeOK, Serve!DroppedRunsOnce, Serving!Api!DroppedRunsOnce, Serve!ResultIsTrue,
   Serving!Api!ResultIsTrue

\* The undo stack of "single" is that of the proofs.
LEMMA SingleSame ==
  /\ Single!UndoStackAssumption <=> Switching!Undo!UndoStackAssumption
  /\ Single!Init <=> Switching!Undo!Init
  /\ Single!Next <=> Switching!Undo!Next
BY DEF Single!Rule, Switching!Undo!Rule, Single!Earliest, Switching!Undo!Earliest, Single!Latest,
   Switching!Undo!Latest, Single!NextFire, Switching!Undo!NextFire, Single!AtMost,
   Switching!Undo!AtMost, Single!AtLeast, Switching!Undo!AtLeast, Single!Soonest,
   Switching!Undo!Soonest, Single!FiresAfter, Switching!Undo!FiresAfter, Single!ComputeOccurrences,
   Switching!Undo!ComputeOccurrences, Single!Missed, Switching!Undo!Missed, Single!StillFuture,
   Switching!Undo!StillFuture, Single!DueNow, Switching!Undo!DueNow, Single!Upcoming,
   Switching!Undo!Upcoming, Single!TopUp, Switching!Undo!TopUp, Single!UndoStackAssumption,
   Switching!Undo!UndoStackAssumption, Single!sched, Switching!Undo!sched, Single!bounds,
   Switching!Undo!bounds, Single!Gone, Switching!Undo!Gone, Single!Nothing, Switching!Undo!Nothing,
   Single!Some, Switching!Undo!Some, Single!Init, Switching!Undo!Init, Single!Last20,
   Switching!Undo!Last20, Single!Before, Switching!Undo!Before, Single!Entry, Switching!Undo!Entry,
   Single!NoJobs, Switching!Undo!NoJobs, Single!Unsure, Switching!Undo!Unsure, Single!Push,
   Switching!Undo!Push, Single!Disturb, Switching!Undo!Disturb, Single!Undo, Switching!Undo!Undo,
   Single!Edits, Switching!Undo!Edits, Single!Hold, Switching!Undo!Hold, Single!LetGo,
   Switching!Undo!LetGo, Single!DeleteJob, Switching!Undo!DeleteJob, Single!ToggleJob,
   Switching!Undo!ToggleJob, Single!ToggleDay, Switching!Undo!ToggleDay, Single!Adopt,
   Switching!Undo!Adopt, Single!Advance, Switching!Undo!Advance, Single!Owed, Switching!Undo!Owed,
   Single!Sync, Switching!Undo!Sync, Single!Fire, Switching!Undo!Fire, Single!JobRan,
   Switching!Undo!JobRan, Single!Restart, Switching!Undo!Restart, Single!Next, Switching!Undo!Next,
   Single!Cardinality, Switching!Undo!Cardinality, Single!Confirm, Switching!Undo!Confirm,
   Single!Saves, Switching!Undo!Saves

LEMMA SingleSays ==
  /\ Single!TypeOK <=> Switching!Undo!TypeOK
  /\ Single!SentOnce <=> Switching!Undo!SentOnce
  /\ Single!UndoLeadsBack <=> Switching!Undo!UndoLeadsBack
BY DEF Single!sched, Switching!Undo!sched, Single!bounds, Switching!Undo!bounds, Single!Gone,
   Switching!Undo!Gone, Single!Job, Switching!Undo!Job, Single!Undo, Switching!Undo!Undo,
   Single!TypeOK, Switching!Undo!TypeOK, Single!SentOnce, Switching!Undo!SentOnce,
   Single!UndoLeadsBack, Switching!Undo!UndoLeadsBack, Single!Range, Switching!Undo!Range

\* The undo stack of "batch" is that of the proofs.
LEMMA BatchSame ==
  /\ Batch!UndoStackAssumption <=> Dropping!Undo!UndoStackAssumption
  /\ Batch!Init <=> Dropping!Undo!Init
  /\ Batch!Next <=> Dropping!Undo!Next
BY DEF Batch!Rule, Dropping!Undo!Rule, Batch!Earliest, Dropping!Undo!Earliest, Batch!Latest,
   Dropping!Undo!Latest, Batch!NextFire, Dropping!Undo!NextFire, Batch!AtMost,
   Dropping!Undo!AtMost, Batch!AtLeast, Dropping!Undo!AtLeast, Batch!Soonest,
   Dropping!Undo!Soonest, Batch!FiresAfter, Dropping!Undo!FiresAfter, Batch!ComputeOccurrences,
   Dropping!Undo!ComputeOccurrences, Batch!Missed, Dropping!Undo!Missed, Batch!StillFuture,
   Dropping!Undo!StillFuture, Batch!DueNow, Dropping!Undo!DueNow, Batch!Upcoming,
   Dropping!Undo!Upcoming, Batch!TopUp, Dropping!Undo!TopUp, Batch!UndoStackAssumption,
   Dropping!Undo!UndoStackAssumption, Batch!sched, Dropping!Undo!sched, Batch!bounds,
   Dropping!Undo!bounds, Batch!Gone, Dropping!Undo!Gone, Batch!Nothing, Dropping!Undo!Nothing,
   Batch!Some, Dropping!Undo!Some, Batch!Init, Dropping!Undo!Init, Batch!Last20,
   Dropping!Undo!Last20, Batch!Before, Dropping!Undo!Before, Batch!Entry, Dropping!Undo!Entry,
   Batch!NoJobs, Dropping!Undo!NoJobs, Batch!Unsure, Dropping!Undo!Unsure, Batch!Push,
   Dropping!Undo!Push, Batch!Disturb, Dropping!Undo!Disturb, Batch!Undo, Dropping!Undo!Undo,
   Batch!Edits, Dropping!Undo!Edits, Batch!Hold, Dropping!Undo!Hold, Batch!LetGo,
   Dropping!Undo!LetGo, Batch!DeleteJob, Dropping!Undo!DeleteJob, Batch!ToggleJob,
   Dropping!Undo!ToggleJob, Batch!ToggleDay, Dropping!Undo!ToggleDay, Batch!Adopt,
   Dropping!Undo!Adopt, Batch!Advance, Dropping!Undo!Advance, Batch!Owed, Dropping!Undo!Owed,
   Batch!Sync, Dropping!Undo!Sync, Batch!Fire, Dropping!Undo!Fire, Batch!JobRan,
   Dropping!Undo!JobRan, Batch!Restart, Dropping!Undo!Restart, Batch!Next, Dropping!Undo!Next,
   Batch!Cardinality, Dropping!Undo!Cardinality, Batch!Confirm, Dropping!Undo!Confirm, Batch!Saves,
   Dropping!Undo!Saves

LEMMA BatchSays ==
  Batch!TypeOK <=> Dropping!Undo!TypeOK
BY DEF Batch!Gone, Dropping!Undo!Gone, Batch!Job, Dropping!Undo!Job, Batch!TypeOK,
   Dropping!Undo!TypeOK, Batch!Range, Dropping!Undo!Range

LEMMA BatchGoesBack == Dropping!Undo!UndoLeadsBack <=> Single!UndoLeadsBack
BY DEF Single!UndoLeadsBack, Dropping!Undo!UndoLeadsBack, Single!Undo, Dropping!Undo!Undo,
   Single!sched, Dropping!Undo!sched, Single!bounds, Dropping!Undo!bounds, Single!Gone,
   Dropping!Undo!Gone

DropSafe == part = "drop" => Dropping!ServiceInv

LEMMA DropFits == Spec => []DropSafe
<1>1. Init => DropSafe
  BY InitIs, DropSame, DesktopAssumption, Dropping!InitService DEF DropSafe, DesktopAssumption
<1>2. DropSafe /\ [Next]_vars => DropSafe'
  <2> SUFFICES ASSUME part = "drop", Dropping!ServiceInv, [Next]_vars PROVE Dropping!ServiceInv'
    BY StepIs DEF DropSafe
  <2>1. [Dropping!Api!Next]_(Dropping!Api!vars)
    BY StepIs, DropSame DEF api, Dropping!Api!vars, Dropping!Api!ui, Dropping!Api!http, Dropping!Api!drop, Dropping!Api!audit
  <2> QED BY <2>1, DropSame, DesktopAssumption, Dropping!StepService DEF DesktopAssumption
<1> QED BY <1>1, <1>2, PTL DEF Spec

LEMMA DropIsSafe == Spec => [](part = "drop" => Drop!TypeOK /\ Drop!DroppedRunsOnce /\ Drop!ResultIsTrue)
<1>1. DropSafe => (part = "drop" => Drop!TypeOK /\ Drop!DroppedRunsOnce /\ Drop!ResultIsTrue)
  BY DropSays, Dropping!ServiceTypes, Dropping!ServiceIsTrue DEF DropSafe
<1> QED BY <1>1, DropFits, PTL

AuditSafe == part = "audit" => Auditing!ServiceInv

LEMMA AuditFits == Spec => []AuditSafe
<1>1. Init => AuditSafe
  BY InitIs, AuditSame, DesktopAssumption, Auditing!InitService DEF AuditSafe, DesktopAssumption
<1>2. AuditSafe /\ [Next]_vars => AuditSafe'
  <2> SUFFICES ASSUME part = "audit", Auditing!ServiceInv, [Next]_vars PROVE Auditing!ServiceInv'
    BY StepIs DEF AuditSafe
  <2>1. [Auditing!Api!Next]_(Auditing!Api!vars)
    BY StepIs, AuditSame DEF api, Auditing!Api!vars, Auditing!Api!ui, Auditing!Api!http, Auditing!Api!drop, Auditing!Api!audit
  <2> QED BY <2>1, AuditSame, DesktopAssumption, Auditing!StepService DEF DesktopAssumption
<1> QED BY <1>1, <1>2, PTL DEF Spec

LEMMA AuditIsSafe == Spec => [](part = "audit" => Audit!TypeOK /\ Audit!AnsweredIsAudited)
<1>1. AuditSafe => (part = "audit" => Audit!TypeOK /\ Audit!AnsweredIsAudited)
  BY AuditSays, Auditing!ServiceTypes, Auditing!ServiceAudits DEF AuditSafe
<1> QED BY <1>1, AuditFits, PTL

SwitchSafe == part = "switch" => Switching!ServiceInv

LEMMA SwitchFits == Spec => []SwitchSafe
<1>1. Init => SwitchSafe
  BY InitIs, SwitchSame, DesktopAssumption, Switching!InitService DEF SwitchSafe, DesktopAssumption
<1>2. SwitchSafe /\ [Next]_vars => SwitchSafe'
  <2> SUFFICES ASSUME part = "switch", Switching!ServiceInv, [Next]_vars PROVE Switching!ServiceInv'
    BY StepIs DEF SwitchSafe
  <2>1. [Switching!Api!Next]_(Switching!Api!vars)
    BY StepIs, SwitchSame DEF api, Switching!Api!vars, Switching!Api!ui, Switching!Api!http, Switching!Api!drop, Switching!Api!audit
  <2> QED BY <2>1, SwitchSame, DesktopAssumption, Switching!StepService DEF DesktopAssumption
<1> QED BY <1>1, <1>2, PTL DEF Spec

LEMMA SwitchIsSafe == Spec => [](part = "switch" => Switch!TypeOK /\ Switch!DroppedRunsOnce)
<1>1. SwitchSafe => (part = "switch" => Switch!TypeOK /\ Switch!DroppedRunsOnce)
  BY SwitchSays, Switching!ServiceTypes, Switching!ServiceIsTrue DEF SwitchSafe
<1> QED BY <1>1, SwitchFits, PTL

ServeSafe == part = "serve" => Serving!ServiceInv

LEMMA ServeFits == Spec => []ServeSafe
<1>1. Init => ServeSafe
  BY InitIs, ServeSame, DesktopAssumption, Serving!InitService DEF ServeSafe, DesktopAssumption
<1>2. ServeSafe /\ [Next]_vars => ServeSafe'
  <2> SUFFICES ASSUME part = "serve", Serving!ServiceInv, [Next]_vars PROVE Serving!ServiceInv'
    BY StepIs DEF ServeSafe
  <2>1. [Serving!Api!Next]_(Serving!Api!vars)
    BY StepIs, ServeSame DEF api, Serving!Api!vars, Serving!Api!ui, Serving!Api!http, Serving!Api!drop, Serving!Api!audit
  <2> QED BY <2>1, ServeSame, DesktopAssumption, Serving!StepService DEF DesktopAssumption
<1> QED BY <1>1, <1>2, PTL DEF Spec

LEMMA ServeIsSafe == Spec => [](part = "serve" => Serve!TypeOK /\ Serve!DroppedRunsOnce /\ Serve!ResultIsTrue)
<1>1. ServeSafe => (part = "serve" => Serve!TypeOK /\ Serve!DroppedRunsOnce /\ Serve!ResultIsTrue)
  BY ServeSays, Serving!ServiceTypes, Serving!ServiceIsTrue DEF ServeSafe
<1> QED BY <1>1, ServeFits, PTL

-----------------------------------------------------------------------------
(* The undo stack *)

SingleSafe == part = "single" => Switching!StackInv
BatchSafe  == part = "batch" => Dropping!StackInv
RestsSafe  == part \notin Undos => Switching!LeadsBack(Jobs)

LEMMA SingleFits == Spec => []SingleSafe
<1>1. Init => SingleSafe
  BY InitIs, SingleSame, DesktopAssumption, Switching!InitStack DEF SingleSafe, DesktopAssumption
<1>2. SingleSafe /\ [Next]_vars => SingleSafe'
  <2> SUFFICES ASSUME part = "single", Switching!StackInv, [Next]_vars PROVE Switching!StackInv'
    BY StepIs DEF SingleSafe
  <2>1. [Switching!Undo!Next]_(Switching!Undo!vars)
    BY StepIs, SingleSame DEF undo, Switching!Undo!vars, Switching!Undo!sched, Switching!Undo!bounds
  <2> QED BY <2>1, SingleSame, DesktopAssumption, Switching!StepStack DEF DesktopAssumption
<1> QED BY <1>1, <1>2, PTL DEF Spec

LEMMA BatchFits == Spec => []BatchSafe
<1>1. Init => BatchSafe
  BY InitIs, BatchSame, DesktopAssumption, Dropping!InitStack DEF BatchSafe, DesktopAssumption
<1>2. BatchSafe /\ [Next]_vars => BatchSafe'
  <2> SUFFICES ASSUME part = "batch", Dropping!StackInv, [Next]_vars PROVE Dropping!StackInv'
    BY StepIs DEF BatchSafe
  <2>1. [Dropping!Undo!Next]_(Dropping!Undo!vars)
    BY StepIs, BatchSame DEF undo, Dropping!Undo!vars, Dropping!Undo!sched, Dropping!Undo!bounds
  <2> QED BY <2>1, BatchSame, DesktopAssumption, Dropping!StepStack DEF DesktopAssumption
<1> QED BY <1>1, <1>2, PTL DEF Spec

LEMMA SingleIsSafe ==
  Spec => [](part = "single" => Single!TypeOK /\ (restarts = 0 => Single!SentOnce))
<1>1. SingleSafe => (part = "single" => Single!TypeOK /\ (restarts = 0 => Single!SentOnce))
  BY SingleSays, Switching!StackTypes, Switching!StackSendsOnce DEF SingleSafe
<1> QED BY <1>1, SingleFits, PTL

LEMMA BatchIsSafe == Spec => [](part = "batch" => Batch!TypeOK)
<1>1. BatchSafe => (part = "batch" => Batch!TypeOK)
  BY BatchSays, Dropping!StackTypes DEF BatchSafe
<1> QED BY <1>1, BatchFits, PTL

\* A stack that rests is empty, and leads nowhere.
LEMMA RestsFit == Spec => []RestsSafe
<1>1. Init => RestsSafe
  <2> SUFFICES ASSUME Single!Init PROVE Switching!LeadsBack(Jobs)
    BY InitIs DEF RestsSafe, Undos
  <2>1. jobs = [j \in Jobs |-> jobs[j]] /\ stack = <<>> /\ past = <<>>
    BY DEF Single!Init
  <2> QED BY <2>1, Switching!InitLeads
<1>2. RestsSafe /\ [Next]_vars => RestsSafe'
  <2> SUFFICES ASSUME part \notin Undos, Switching!LeadsBack(Jobs), [Next]_vars
               PROVE  Switching!LeadsBack(Jobs)'
    BY StepIs DEF RestsSafe
  <2> QED BY StepIs, Switching!LeadsBackRests DEF undo
<1> QED BY <1>1, <1>2, PTL DEF Spec

-----------------------------------------------------------------------------
(* The data folder *)

\* Whichever part moves, the data folder does what DataFolder says or rests.
LEMMA FolderRuns == Spec => Folder!Spec
<1>1. Init => Folder!Init
  BY InitIs
<1>2. ASSUME [Next]_vars PROVE [Folder!Next]_(Folder!vars)
  <2>1. CASE UNCHANGED folder
    BY <2>1 DEF folder, Folder!vars, Folder!writes, Folder!memory, Folder!ghosts, Folder!budgets
  <2> QED BY <1>2, <2>1 DEF Next, vars
<1> QED BY <1>1, <1>2, PTL DEF Spec, Folder!Spec

LEMMA FolderAssumed == Folder!FolderAssumption
BY DesktopAssumption DEF DesktopAssumption

-----------------------------------------------------------------------------
(* The composition *)

\* What was acknowledged outlives a move of the data folder, and a reminder then
\* finds its attachments, whatever else the desktop program does (store.ts,
\* setDataRoot; useRelocateData.ts, relocateData).
THEOREM NothingIsLost == Spec => []NothingLost
<1>1. Folder!Spec => []NothingLost
  BY NothingLostHolds, PathsFollowHolds, FolderAssumed, PTL DEF NothingLost
<1> QED BY <1>1, FolderRuns, PTL

\* When every call of applyControl has been handled, the main process admits requests by the
\* switches of the window, however many requests, calls, changes of the switches, exits and faults
\* there are (main.ts, applyControl; AppState.tsx, the effect that calls it).
THEOREM SwitchesAreCurrent == Spec => []KnownIsCurrent
<1>1. SwitchSafe => KnownIsCurrent
  BY SwitchSays, Switching!ServiceIsCurrent DEF SwitchSafe, KnownIsCurrent, In
<1> QED BY <1>1, SwitchFits, PTL

\* Undoing leads back to the state before the change, entry by entry, in every mix of single and
\* batched changes, in both settings (useUndo.ts, undo).
THEOREM UndoingLeadsBack == Spec => UndoLeadsBack
<1>1. ASSUME SingleSafe, BatchSafe, RestsSafe PROVE Single!UndoLeadsBack
  <2>1. CASE part = "single"
    BY <1>1, <2>1, Switching!StackLeads, Switching!StackLeadsBack, SingleSays DEF SingleSafe
  <2>2. CASE part = "batch"
    BY <1>1, <2>2, Dropping!StackLeads, Dropping!StackLeadsBack, BatchGoesBack DEF BatchSafe
  <2>3. CASE part \notin Undos
    BY <1>1, <2>3, Switching!StackLeadsBack, SingleSays DEF RestsSafe
  <2> QED BY <2>1, <2>2, <2>3 DEF Undos
<1>2. SingleSafe /\ BatchSafe /\ RestsSafe /\ [Next]_vars => [Single!UndoLeadsBack]_vars
  BY <1>1
<1> QED BY <1>2, SingleFits, BatchFits, RestsFit, PTL DEF Spec, UndoLeadsBack

\* The part that moves has its types; a file dropped in the folder is carried out at most once and
\* its result tells the truth (controlServer.ts, runDropped and finish); who has an answer over HTTP
\* is in the audit log (store.ts, appendControlAudit); and while the app runs no undo has an
\* occurrence sent twice (scheduler.ts, sync).
THEOREM DesktopIsSound == Spec => []DesktopInv
<1>1. /\ part \in Parts
      /\ part = "drop" => Drop!TypeOK /\ Drop!DroppedRunsOnce /\ Drop!ResultIsTrue
      /\ part = "audit" => Audit!TypeOK /\ Audit!AnsweredIsAudited
      /\ part = "switch" => Switch!TypeOK /\ Switch!DroppedRunsOnce
      /\ part = "serve" => Serve!TypeOK /\ Serve!DroppedRunsOnce /\ Serve!ResultIsTrue
      /\ part = "single" => Single!TypeOK /\ (restarts = 0 => Single!SentOnce)
      /\ part = "batch" => Batch!TypeOK
      /\ Folder!TypeOK
      => DesktopInv
  BY DEF DesktopInv, In, Parts, Apis, Undos
<1>2. Spec => []Folder!TypeOK
  BY TypeCorrect, FolderRuns, FolderAssumed, PTL
<1> QED
  BY <1>1, <1>2, PartIs, DropIsSafe, AuditIsSafe, SwitchIsSafe, ServeIsSafe, SingleIsSafe,
     BatchIsSafe, PTL
==============================================================================
