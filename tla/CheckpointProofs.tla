-------------------------- MODULE CheckpointProofs --------------------------
(***************************************************************************)
(* Proofs about Checkpoint, for any table, any DPs and any number of       *)
(* restarts. The argument: while a save runs, the slots written so far and *)
(* the rest of the table together hold all that the table held when the    *)
(* save began, whatever the workers store meanwhile, because a slot that   *)
(* is in use never changes (SaveInv). So the file that is renamed has all  *)
(* its slots, holds what its counter says, and a run that has loaded it    *)
(* whole only adds to it (FileInv, RegressInv).                            *)
(***************************************************************************)
EXTENDS Checkpoint, TLAPS, FiniteSetTheorems, SequenceTheorems

Cell == Entries \cup {Empty}
Used(f) == {s \in Slot : f[s] # Empty}
Distinct(f) == \A s, t \in Slot : f[s] = f[t] /\ f[s] # Empty => s = t

\* No DP is in two slots, and the counter never says more than is stored.
TableInv ==
  /\ Distinct(wild_table)
  /\ wild_count <= Cardinality(Used(wild_table))
  /\ uncounted # {} => wild_count < Cardinality(Used(wild_table))

\* What makes a file good: it has all slots, is on the disk, and its counter
\* does not say more than it holds.
FileInv ==
  file # NoFile => /\ Len(file.image) = Slots /\ file.synced
                   /\ Distinct(file.image)
                   /\ file.count <= Cardinality(Used(file.image))

\* The temporary file, continued by the table.
Writing == {"slots", "sync", "rename"}
Image0(s) == IF s <= Len(tmp.image) THEN tmp.image[s] ELSE wild_table[s]
Merged == [s \in Slot |-> Image0(s)]

SaveInv ==
  /\ pc \in {"open", "header"} => begun.entries \subseteq Stored(wild_table)
  /\ pc = "header" => tmp = NoTmp
  /\ pc = "slots" => Len(tmp.image) < Slots
  /\ pc \in {"sync", "rename"} => Len(tmp.image) = Slots
  /\ pc = "rename" => tmp.synced
  /\ pc \in Writing =>
       /\ \A s \in Slot : Merged[s] # Empty => Merged[s] = wild_table[s]
       /\ tmp.count <= Cardinality(Used(Merged))
       /\ begun.entries \subseteq Stored(Merged)

\* In TRAP nothing is stored outside CheckNewPoints.
QuietInv ==
  /\ mode = "trap" /\ pc # "check" => uncounted = {} \/ gSolved
  /\ pc = "load" => uncounted = {}
  /\ mode = "trap" /\ pc = "reset" => uncounted = {}
  /\ pc \in Saving /\ begun.quiet => mode = "trap" /\ uncounted = {}
  /\ pc \in Writing /\ begun.quiet =>
       /\ tmp.count = wild_count
       /\ \A s \in 1 .. Len(tmp.image) : tmp.image[s] = wild_table[s]

\* A run that has loaded its file whole holds all of it.
RegressInv ==
  ~ReadsFail /\ file # NoFile =>
    /\ pc \notin {"load", "end", "down"} => Stored(file.image) \subseteq Stored(wild_table)
    /\ pc \in Saving => Stored(file.image) \subseteq begun.entries

\* The types alone; that the counter fits the table follows from TableInv.
Types ==
  /\ mode \in Modes
  /\ wild_table \in [Slot -> Cell] /\ wild_count \in Nat
  /\ uncounted \subseteq Entries
  /\ gSolved \in BOOLEAN /\ gSaveAndExit \in BOOLEAN /\ gCheckpointRequested \in BOOLEAN
  /\ exiting \in BOOLEAN
  /\ hpc \in {"none", "requested", "save", "done"}
  /\ pc \in {"load", "reset", "loop", "check", "timer", "flag", "exit", "end", "down"} \cup Saving
  /\ tmp \in Image /\ Len(tmp.image) <= Slots
  /\ file \in Image \cup {NoFile}
  /\ begun \in [entries : SUBSET Entries, quiet : BOOLEAN]
  /\ starts \in Nat

IInv == Types /\ TableInv /\ FileInv /\ SaveInv /\ QuietInv /\ RegressInv

-----------------------------------------------------------------------------
(* Slots.                                                                  *)

\* The slots in use are finitely many, at most all of them.
LEMMA UsedFinite ==
  ASSUME NEW f
  PROVE  /\ IsFiniteSet(Used(f)) /\ Cardinality(Used(f)) \in Nat
         /\ Cardinality(Used(f)) <= Slots
<1>1. IsFiniteSet(Slot) /\ Cardinality(Slot) = Slots
  BY CheckpointAssumption, FS_Interval DEF Slot
<1>2. Used(f) \in SUBSET Slot
  BY DEF Used
<1> QED BY <1>1, <1>2, FS_Subset, FS_CardinalityType

\* Filling an empty slot raises the number of slots in use by one.
LEMMA UsedOneMore ==
  ASSUME NEW f, NEW g, NEW s \in Slot, f[s] = Empty, g[s] # Empty,
         \A t \in Slot : t # s => g[t] = f[t]
  PROVE  Cardinality(Used(g)) = Cardinality(Used(f)) + 1
<1>1. Used(g) = Used(f) \cup {s} /\ s \notin Used(f)
  BY DEF Used
<1> QED BY <1>1, UsedFinite, FS_AddElement

\* More slots in use, a larger number of them.
LEMMA UsedMono ==
  ASSUME NEW f, NEW g, \A s \in Slot : f[s] # Empty => g[s] # Empty
  PROVE  Cardinality(Used(f)) <= Cardinality(Used(g))
<1>1. Used(f) \in SUBSET Used(g)
  BY DEF Used
<1> QED BY <1>1, UsedFinite, FS_Subset

\* Without duplicates, there are as many DPs as slots in use.
LEMMA UsedStored ==
  ASSUME NEW f \in [Slot -> Cell], Distinct(f)
  PROVE  Cardinality(Used(f)) <= Cardinality(Stored(f))
<1> DEFINE g == [s \in Used(f) |-> f[s]]
<1>1. Stored(f) \subseteq Entries /\ IsFiniteSet(Stored(f))
  <2>1. Stored(f) \in SUBSET Entries
    BY DEF Stored, Cell
  <2> QED BY <2>1, CheckpointAssumption, FS_Subset
<1>2. g \in [Used(f) -> Stored(f)]
  BY DEF Used, Stored
<1>3. \A s, t \in Used(f) : g[s] = g[t] => s = t
  BY DEF Used, Distinct
<1>4. g \in Injection(Used(f), Stored(f))
  BY <1>2, <1>3 DEF Injection, IsInjective
<1> QED BY <1>1, <1>4, FS_Injection

\* What an image holds are DPs.
LEMMA StoredEntries ==
  ASSUME NEW f \in [Slot -> Cell]
  PROVE  Stored(f) \subseteq Entries /\ Stored(f) = {f[s] : s \in Used(f)}
BY DEF Stored, Cell, Used

\* The records of a save that is not under way.
LEMMA NoSaveTypes ==
  /\ NoTmp \in Image /\ Len(NoTmp.image) = 0 /\ NoTmp.image = <<>>
  /\ NoSave \in [entries : SUBSET Entries, quiet : BOOLEAN]
<1>1. <<>> \in Seq(Cell) /\ Len(<<>>) = 0
  BY EmptySeq
<1> QED BY <1>1 DEF NoTmp, NoSave, Image, Cell

\* An image in a file is a sequence of cells.
LEMMA ImageCells ==
  ASSUME NEW r \in Image
  PROVE  /\ r.count \in Nat /\ r.image \in Seq(Cell) /\ r.synced \in BOOLEAN
         /\ Len(r.image) \in Nat /\ DOMAIN r.image = 1 .. Len(r.image)
         /\ \A s \in 1 .. Len(r.image) : r.image[s] \in Cell
<1>1. r.count \in Nat /\ r.image \in Seq(Cell) /\ r.synced \in BOOLEAN
  BY DEF Image, Cell
<1> QED BY <1>1, LenProperties

\* The memory of a fresh process.
LEMMA FreshTypes ==
  ASSUME Fresh
  PROVE  /\ wild_table' \in [Slot -> Cell] /\ \A s \in Slot : wild_table'[s] = Empty
         /\ wild_count' = 0 /\ uncounted' = {}
         /\ gSolved' \in BOOLEAN /\ gSaveAndExit' \in BOOLEAN /\ gCheckpointRequested' \in BOOLEAN
         /\ exiting' \in BOOLEAN
         /\ hpc' = "none" /\ begun' = NoSave
BY DEF Fresh, Cleared, Cell

\* Nothing happens to the merged image while table and temporary file rest.
LEMMA MergedSame == UNCHANGED <<wild_table, tmp>> => Merged' = Merged
BY DEF Merged, Image0

\* Writing the next slot does not change it either.
LEMMA MergedWrite ==
  ASSUME Types, pc = "slots", Len(tmp.image) < Slots, WriteSlot
  PROVE  /\ Merged' = Merged
         /\ tmp' \in Image /\ Len(tmp'.image) = Len(tmp.image) + 1 /\ tmp'.count = tmp.count
         /\ \A s \in 1 .. Len(tmp.image) : tmp'.image[s] = tmp.image[s]
         /\ tmp'.image[Len(tmp.image) + 1] = wild_table[Len(tmp.image) + 1]
<1> DEFINE n == Len(tmp.image)
           x == wild_table[n + 1]
<1>1. tmp \in Image /\ n \in Nat /\ tmp.image \in Seq(Cell)
  BY ImageCells DEF Types
<1>2. n + 1 \in Slot /\ x \in Cell
  BY <1>1, CheckpointAssumption DEF Types, Slot
<1>3. tmp' = [tmp EXCEPT !.image = Append(tmp.image, x)] /\ wild_table' = wild_table
  BY DEF WriteSlot, store
<1>4. /\ Append(tmp.image, x) \in Seq(Cell) /\ Len(Append(tmp.image, x)) = n + 1
      /\ \A s \in 1 .. n : Append(tmp.image, x)[s] = tmp.image[s]
      /\ Append(tmp.image, x)[n + 1] = x
  BY <1>1, <1>2, AppendProperties
<1>5. tmp'.image = Append(tmp.image, x) /\ tmp'.count = tmp.count /\ tmp' \in Image
  BY <1>1, <1>3, <1>4 DEF Image, Cell
<1>6. ASSUME NEW s \in Slot PROVE Image0(s)' = Image0(s)
  <2>1. CASE s <= n
    BY <1>1, <1>3, <1>4, <1>5, <2>1 DEF Image0, Slot
  <2>2. CASE s = n + 1
    BY <1>1, <1>3, <1>4, <1>5, <2>2 DEF Image0, Slot
  <2>3. CASE s > n + 1
    BY <1>1, <1>3, <1>4, <1>5, <2>3 DEF Image0, Slot
  <2> QED BY <1>1, <2>1, <2>2, <2>3 DEF Slot
<1>7. Merged' = Merged
  BY <1>6 DEF Merged
<1> QED BY <1>4, <1>5, <1>7

\* A DP goes to a slot that was empty, and to no other.
LEMMA StoreSlot ==
  ASSUME Types, NEW e \in Entries, StoreDP(e)
  PROVE  \E s \in Slot : wild_table[s] = Empty /\ wild_table' = [wild_table EXCEPT ![s] = e]
<1>1. PICK i \in 0 .. Slots - 1 :
        FirstEmpty(e, i) /\ wild_table' = [wild_table EXCEPT ![ProbeSlot(e, i)] = e]
  BY DEF StoreDP
<1>2. ProbeSlot(e, i) \in Slot
  <2>1. Home[e] \in Nat /\ Slots \in Nat \ {0} /\ i \in Nat /\ Home[e] >= 1
    BY CheckpointAssumption
  <2>2. i * (i + 1) \in Nat
    BY <2>1
  <2>3. (i * (i + 1)) \div 2 \in Nat
    BY <2>2
  <2>4. ASSUME NEW k \in Nat PROVE (Home[e] - 1 + k) % Slots \in 0 .. Slots - 1
    BY <2>1
  <2> QED BY <2>1, <2>3, <2>4 DEF ProbeSlot, Slot
<1> QED BY <1>1, <1>2 DEF FirstEmpty

\* How a save begins.
LEMMA BeginTypes ==
  ASSUME NEW last \in BOOLEAN, wild_table \in [Slot -> Cell], BeginSave(last)
  PROVE  /\ begun' \in [entries : SUBSET Entries, quiet : BOOLEAN]
         /\ begun'.entries = Stored(wild_table)
         /\ begun'.quiet => mode = "trap" /\ (last \/ ~gSolved)
         /\ exiting' = last /\ pc' = "open"
<1> DEFINE q == mode = "trap" /\ (last \/ ~gSolved)
<1>1. q \in BOOLEAN
  BY Zenon
<1>2. begun' = [entries |-> Stored(wild_table), quiet |-> q] /\ exiting' = last /\ pc' = "open"
  BY DEF BeginSave, Goto
<1>3. Stored(wild_table) \in SUBSET Entries
  BY StoredEntries
<1>4. begun'.quiet = q /\ begun'.entries = Stored(wild_table)
  <2> HIDE DEF q
  <2> QED BY <1>2
<1>5. begun' \in [entries : SUBSET Entries, quiet : BOOLEAN]
  <2> HIDE DEF q
  <2> QED BY <1>1, <1>2, <1>3
<1>6. begun'.quiet => mode = "trap" /\ (last \/ ~gSolved)
  BY <1>4
<1> QED BY <1>2, <1>4, <1>5, <1>6

-----------------------------------------------------------------------------
(* The invariants, one by one.                                             *)

\* Every step keeps the types.
LEMMA TypesStep == Types /\ SaveInv /\ FileInv /\ [Next]_vars => Types'
<1> SUFFICES ASSUME Types, SaveInv, FileInv, [Next]_vars PROVE Types'
  OBVIOUS
<1> USE DEF store, flags, saving, Goto, Running, Types, Saving, Writing
<1>1. CASE LoadCheckpoint
  <2>1. CASE file = NoFile
    BY <1>1, <2>1 DEF LoadCheckpoint
  <2>2. CASE file # NoFile
    <3>1. file \in Image
      BY <2>2
    <3>2. PICK k \in 0 .. Len(file.image) : Load(k)
      BY <1>1, <2>2 DEF LoadCheckpoint
    <3>3. wild_count' \in Nat
      BY <3>1, <3>2, ImageCells DEF Load
    <3>4. \A s \in Slot : s <= k => file.image[s] \in Cell
      BY <3>1, ImageCells DEF Slot
    <3>5. wild_table' \in [Slot -> Cell]
      BY <3>2, <3>4 DEF Load, Cell
    <3> QED
      BY <1>1, <3>3, <3>5 DEF LoadCheckpoint
  <2> QED BY <2>1, <2>2
<1>2. CASE ResetSolved
  BY <1>2 DEF ResetSolved
<1>3. CASE LoopHead
  BY <1>3 DEF LoopHead
<1>4. CASE CheckNewPoints
  BY <1>4 DEF CheckNewPoints
<1>5. CASE AutoCheckpoint
  <2>1. UNCHANGED <<mode, store, flags, tmp, file, starts>>
    BY <1>5 DEF AutoCheckpoint
  <2>2. CASE \E last \in BOOLEAN : BeginSave(last)
    BY <2>1, <2>2, BeginTypes
  <2>3. CASE /\ pc' \in {"flag", "loop"}
             /\ UNCHANGED <<exiting, begun>>
    BY <2>1, <2>3
  <2> QED BY <1>5, <2>2, <2>3 DEF AutoCheckpoint
<1>6. CASE SaveAndExit
  <2>1. UNCHANGED <<mode, store, flags, tmp, file, starts>>
    BY <1>6 DEF SaveAndExit
  <2>2. CASE \E last \in BOOLEAN : BeginSave(last)
    BY <2>1, <2>2, BeginTypes
  <2>3. CASE /\ pc' \in {"flag", "loop"}
             /\ UNCHANGED <<exiting, begun>>
    BY <2>1, <2>3
  <2> QED BY <1>6, <2>2, <2>3 DEF SaveAndExit
<1>7. CASE Teardown
  BY <1>7 DEF Teardown
<1>8. CASE OpenTmp
  BY <1>8, NoSaveTypes, CheckpointAssumption DEF OpenTmp
<1>9. CASE WriteHeader
  <2>1. tmp' \in Image /\ tmp'.image = tmp.image
    BY <1>9 DEF WriteHeader, Image
  <2> QED BY <1>9, <2>1 DEF WriteHeader
<1>10. CASE WriteSlot
  <2>1. pc = "slots" /\ Len(tmp.image) < Slots
    BY <1>10 DEF WriteSlot, SaveInv
  <2>2. tmp' \in Image /\ Len(tmp'.image) = Len(tmp.image) + 1
    BY <1>10, <2>1, MergedWrite
  <2>3. Len(tmp'.image) <= Slots
    BY <2>1, <2>2, ImageCells, CheckpointAssumption
  <2>4. pc' \in {"slots", "sync"}
    BY <1>10 DEF WriteSlot
  <2> QED BY <1>10, <2>2, <2>3, <2>4 DEF WriteSlot
<1>11. CASE Sync
  <2>1. tmp' \in Image /\ tmp'.image = tmp.image
    BY <1>11 DEF Sync, Image
  <2> QED BY <1>11, <2>1 DEF Sync
<1>12. CASE Rename
  <2>1. /\ tmp' = NoTmp /\ begun' = NoSave /\ exiting' = FALSE
        /\ pc' \in {"exit", "flag"}
    BY <1>12 DEF Rename, AfterSave
  <2>2. file' \in Image \cup {NoFile}
    BY <1>12 DEF Rename
  <2>3. Len(tmp'.image) <= Slots
    BY <2>1, NoSaveTypes, CheckpointAssumption
  <2> QED BY <1>12, <2>1, <2>2, <2>3, NoSaveTypes DEF Rename
<1>13. CASE SaveFails
  <2>1. /\ tmp' = NoTmp /\ begun' = NoSave /\ exiting' = FALSE
        /\ pc' \in {"exit", "flag"}
    BY <1>13 DEF SaveFails, AfterSave
  <2>2. file' \in Image \cup {NoFile}
    BY <1>13 DEF SaveFails
  <2>3. Len(tmp'.image) <= Slots
    BY <2>1, NoSaveTypes, CheckpointAssumption
  <2> QED BY <1>13, <2>1, <2>2, <2>3, NoSaveTypes DEF SaveFails
<1>14. ASSUME NEW e \in Entries, StoreDP(e) PROVE Types'
  <2>1. wild_table' \in [Slot -> Cell]
    <3>1. PICK s \in Slot : wild_table' = [wild_table EXCEPT ![s] = e]
      BY <1>14, StoreSlot
    <3> QED BY <3>1 DEF Cell
  <2> QED BY <1>14, <2>1 DEF StoreDP
<1>15. CASE CountDP
  BY <1>15 DEF CountDP
<1>16. CASE FindKey
  BY <1>16 DEF FindKey
<1>17. CASE Interrupt
  BY <1>17 DEF Interrupt
<1>18. CASE InterruptSave
  BY <1>18 DEF InterruptSave
<1>19. CASE InterruptSolved
  BY <1>19 DEF InterruptSolved
<1>20. CASE ForceExit
  <2>1. /\ pc' \in {"down", "load"} /\ UNCHANGED <<mode, tmp>>
        /\ file' \in Image \cup {NoFile} /\ starts' \in Nat /\ Fresh
    BY <1>20 DEF ForceExit
  <2> QED BY <2>1, FreshTypes, NoSaveTypes
<1>21. CASE Crash
  <2>1. /\ pc' \in {"down", "load"} /\ UNCHANGED <<mode, tmp>>
        /\ file' \in Image \cup {NoFile} /\ starts' \in Nat /\ Fresh
    BY <1>21 DEF Crash, FileInv
  <2> QED BY <2>1, FreshTypes, NoSaveTypes
<1>22. CASE Restart
  <2>1. /\ pc' \in {"down", "load"} /\ UNCHANGED <<mode, tmp>>
        /\ file' \in Image \cup {NoFile} /\ starts' \in Nat /\ Fresh
    BY <1>22 DEF Restart
  <2> QED BY <2>1, FreshTypes, NoSaveTypes
<1>23. CASE UNCHANGED vars
  BY <1>23 DEF vars
<1> QED
  BY <1>1, <1>2, <1>3, <1>4, <1>5, <1>6, <1>7, <1>8, <1>9, <1>10, <1>11, <1>12, <1>13,
     <1>14, <1>15, <1>16, <1>17, <1>18, <1>19, <1>20, <1>21, <1>22, <1>23 DEF Next,
     MainThread, SaveCheckpoint, Workers, SignalHandler

\* No step stores a DP twice or counts it before it is stored; a loaded file
\* or a fresh process has the property from the start.
LEMMA TableStep == Types /\ TableInv /\ FileInv /\ QuietInv /\ [Next]_vars => TableInv'
<1> SUFFICES ASSUME Types, TableInv, FileInv, QuietInv, [Next]_vars PROVE TableInv'
  OBVIOUS
<1> USE DEF store, flags, saving, Goto, Running, TableInv
<1>1. CASE ResetSolved \/ LoopHead \/ CheckNewPoints \/ AutoCheckpoint \/ SaveAndExit \/
        Teardown \/ OpenTmp \/ WriteHeader \/ WriteSlot \/ Sync \/ Rename \/ SaveFails \/
        FindKey \/ Interrupt \/ InterruptSave \/ InterruptSolved
  BY <1>1 DEF ResetSolved, LoopHead, CheckNewPoints, AutoCheckpoint, BeginSave, SaveAndExit,
     Teardown, OpenTmp, NoTmp, WriteHeader, WriteSlot, LastSlot, Sync, Rename, AfterSave,
     NoSave, SaveFails, FindKey, Interrupt, InterruptSave, InterruptSolved
<1>2. CASE LoadCheckpoint
  <2>1. CASE file = NoFile
    BY <1>2, <2>1 DEF LoadCheckpoint
  <2>2. CASE file # NoFile
    <3>1. PICK k \in 0 .. Len(file.image) : Load(k)
      BY <1>2, <2>2 DEF LoadCheckpoint
    <3>2. Distinct(file.image) /\ Len(file.image) = Slots
      BY <2>2 DEF FileInv
    <3>3. Distinct(wild_table')
      BY <3>1, <3>2 DEF Load, Distinct
    <3>4. wild_count' <= Cardinality(Used(wild_table'))
      <4>1. CASE k = Slots
        <5>1. \A s \in Slot : wild_table'[s] = file.image[s]
          BY <3>1, <4>1 DEF Load, Slot
        <5>2. Used(wild_table') = Used(file.image)
          BY <5>1 DEF Used
        <5> QED BY <2>2, <3>1, <4>1, <5>2 DEF Load, FileInv
      <4>2. CASE k # Slots
        BY <3>1, <4>2, UsedFinite DEF Load
      <4> QED BY <4>1, <4>2
    <3>5. uncounted' = {}
      BY <1>2 DEF LoadCheckpoint, QuietInv
    <3> QED BY <3>3, <3>4, <3>5
  <2> QED BY <2>1, <2>2
<1>3. ASSUME NEW e \in Entries, StoreDP(e) PROVE TableInv'
  <2>1. PICK s \in Slot : wild_table[s] = Empty /\ wild_table' = [wild_table EXCEPT ![s] = e]
    BY <1>3, StoreSlot
  <2>2. \A t \in Slot : wild_table[t] # e
    <3>1. e \notin Stored(wild_table) /\ e # Empty
      BY <1>3, CheckpointAssumption DEF StoreDP
    <3> QED BY <3>1 DEF Stored, Types
  <2>3. Distinct(wild_table')
    BY <2>1, <2>2 DEF Distinct, Types
  <2>4. Cardinality(Used(wild_table')) = Cardinality(Used(wild_table)) + 1
    <3>1. wild_table'[s] # Empty /\ \A t \in Slot : t # s => wild_table'[t] = wild_table[t]
      BY <2>1, CheckpointAssumption DEF Types
    <3> HIDE DEF TableInv
    <3> QED BY <2>1, <3>1, UsedOneMore
  <2>5. wild_count' < Cardinality(Used(wild_table'))
    BY <1>3, <2>4, UsedFinite DEF StoreDP, Types
  <2>6. wild_count' <= Cardinality(Used(wild_table'))
    BY <1>3, <2>5, UsedFinite DEF StoreDP, Types
  <2> QED BY <2>3, <2>5, <2>6
<1>4. CASE CountDP
  <2>1. wild_count' = wild_count + 1 /\ wild_table' = wild_table /\ uncounted' = {}
    BY <1>4 DEF CountDP
  <2>2. wild_count < Cardinality(Used(wild_table))
    BY <1>4 DEF CountDP
  <2>3. wild_count' <= Cardinality(Used(wild_table'))
    BY <2>1, <2>2, UsedFinite DEF Types
  <2> QED BY <2>1, <2>3
<1>5. CASE ForceExit
  <2>1. Fresh
    BY <1>5 DEF ForceExit
  <2>2. wild_count' = 0 /\ uncounted' = {} /\ \A s \in Slot : wild_table'[s] = Empty
    BY <2>1, FreshTypes
  <2>3. Distinct(wild_table') /\ 0 <= Cardinality(Used(wild_table'))
    BY <2>2, UsedFinite DEF Distinct
  <2> QED BY <2>2, <2>3
<1>6. CASE Crash
  <2>1. Fresh
    BY <1>6 DEF Crash
  <2>2. wild_count' = 0 /\ uncounted' = {} /\ \A s \in Slot : wild_table'[s] = Empty
    BY <2>1, FreshTypes
  <2>3. Distinct(wild_table') /\ 0 <= Cardinality(Used(wild_table'))
    BY <2>2, UsedFinite DEF Distinct
  <2> QED BY <2>2, <2>3
<1>7. CASE Restart
  <2>1. Fresh
    BY <1>7 DEF Restart
  <2>2. wild_count' = 0 /\ uncounted' = {} /\ \A s \in Slot : wild_table'[s] = Empty
    BY <2>1, FreshTypes
  <2>3. Distinct(wild_table') /\ 0 <= Cardinality(Used(wild_table'))
    BY <2>2, UsedFinite DEF Distinct
  <2> QED BY <2>2, <2>3
<1>8. CASE UNCHANGED vars
  BY <1>8 DEF vars
<1> QED
  BY <1>1, <1>2, <1>3, <1>4, <1>5, <1>6, <1>7, <1>8 DEF Next, MainThread, SaveCheckpoint,
     Workers, SignalHandler

\* The only step that replaces the file is the rename of a temporary file
\* that is complete and on the disk; a crash cannot harm such a file.
LEMMA FileStep == TableInv /\ FileInv /\ SaveInv /\ [Next]_vars => FileInv'
<1> SUFFICES ASSUME TableInv, FileInv, SaveInv, [Next]_vars PROVE FileInv'
  OBVIOUS
<1> USE DEF store, flags, saving, Goto, Running, FileInv
<1>1. CASE LoadCheckpoint \/ ResetSolved \/ LoopHead \/ CheckNewPoints \/ AutoCheckpoint \/
        SaveAndExit \/ Teardown \/ OpenTmp \/ WriteHeader \/ WriteSlot \/ Sync \/ SaveFails
        \/ CountDP \/ FindKey \/ Interrupt \/ InterruptSave \/ InterruptSolved \/ ForceExit
        \/ Restart
  BY <1>1 DEF LoadCheckpoint, Load, ResetSolved, LoopHead, CheckNewPoints, AutoCheckpoint,
     BeginSave, SaveAndExit, Teardown, OpenTmp, NoTmp, WriteHeader, WriteSlot, LastSlot,
     Sync, SaveFails, AfterSave, NoSave, CountDP, FindKey, Interrupt, InterruptSave,
     InterruptSolved, ForceExit, Fresh, Cleared, Restart
<1>2. CASE Rename
  <2>1. file' = tmp /\ Len(tmp.image) = Slots /\ tmp.synced
    BY <1>2 DEF Rename, SaveInv
  <2>2. \A s \in Slot : Merged[s] = tmp.image[s]
    BY <2>1 DEF Merged, Image0, Slot
  <2>3. Distinct(tmp.image)
    BY <1>2, <2>2 DEF Rename, SaveInv, Writing, TableInv, Distinct
  <2>4. Used(Merged) = Used(tmp.image)
    BY <2>2 DEF Used
  <2>5. tmp.count <= Cardinality(Used(tmp.image))
    BY <1>2, <2>4 DEF Rename, SaveInv, Writing
  <2> QED BY <2>1, <2>3, <2>5
<1>3. ASSUME NEW e \in Entries, StoreDP(e) PROVE FileInv'
  BY <1>3 DEF StoreDP, WorkersBusy, FirstEmpty
<1>4. CASE Crash
  BY <1>4 DEF Crash, Fresh, Cleared, NoSave
<1>5. CASE UNCHANGED vars
  BY <1>5 DEF vars
<1> QED
  BY <1>1, <1>2, <1>3, <1>4, <1>5 DEF Next, MainThread, SaveCheckpoint, Workers,
     SignalHandler

\* During a save the slots written and the rest of the table together keep
\* what the table held at its beginning, whatever the workers store.
LEMMA SaveStep == Types /\ TableInv /\ SaveInv /\ [Next]_vars => SaveInv'
<1> SUFFICES ASSUME Types, TableInv, SaveInv, [Next]_vars PROVE SaveInv'
  OBVIOUS
<1> USE DEF store, flags, saving, Goto, Running, SaveInv, Writing
<1>1. CASE LoadCheckpoint
  BY <1>1 DEF LoadCheckpoint, Load
<1>2. CASE ResetSolved
  BY <1>2 DEF ResetSolved
<1>3. CASE LoopHead
  BY <1>3 DEF LoopHead
<1>4. CASE CheckNewPoints
  BY <1>4 DEF CheckNewPoints
<1>5. CASE AutoCheckpoint
  BY <1>5 DEF AutoCheckpoint, BeginSave
<1>6. CASE SaveAndExit
  BY <1>6 DEF SaveAndExit, BeginSave
<1>7. CASE Teardown
  BY <1>7 DEF Teardown
<1>8. CASE OpenTmp
  BY <1>8 DEF OpenTmp, NoTmp
<1>9. CASE WriteHeader
  <2>1. /\ pc = "header" /\ pc' = "slots" /\ tmp = NoTmp
        /\ tmp' = [tmp EXCEPT !.count = wild_count]
        /\ UNCHANGED <<wild_table, begun>>
    BY <1>9 DEF WriteHeader
  <2>2. tmp'.image = <<>> /\ Len(tmp'.image) = 0 /\ tmp'.count = wild_count
    BY <2>1, NoSaveTypes DEF NoTmp
  <2>3. Merged' = wild_table
    <3>1. \A s \in Slot : Image0(s)' = wild_table[s]
      BY <2>1, <2>2 DEF Image0, Slot
    <3> QED BY <3>1 DEF Merged, Types
  <2>4. Len(tmp'.image) < Slots
    BY <2>2, CheckpointAssumption
  <2> QED BY <2>1, <2>2, <2>3, <2>4 DEF TableInv
<1>10. CASE WriteSlot
  <2>1. pc = "slots" /\ Len(tmp.image) < Slots
    BY <1>10 DEF WriteSlot
  <2>2. Merged' = Merged /\ Len(tmp'.image) = Len(tmp.image) + 1 /\ tmp'.count = tmp.count
    BY <1>10, <2>1, MergedWrite
  <2>3. UNCHANGED <<wild_table, begun>>
    BY <1>10 DEF WriteSlot
  <2>4. \/ pc' = "slots" /\ Len(tmp'.image) < Slots
        \/ pc' = "sync" /\ Len(tmp'.image) = Slots
    BY <1>10, <2>1, <2>2, ImageCells, CheckpointAssumption DEF WriteSlot, LastSlot, Types
  <2> QED BY <2>1, <2>2, <2>3, <2>4
<1>11. CASE Sync
  <2>1. pc = "sync" /\ pc' = "rename" /\ UNCHANGED <<wild_table, begun>>
    BY <1>11 DEF Sync
  <2>2. tmp'.image = tmp.image /\ tmp'.count = tmp.count /\ tmp'.synced
    BY <1>11 DEF Sync, Types, Image
  <2>3. Merged' = Merged
    BY <2>1, <2>2 DEF Merged, Image0
  <2> QED BY <2>1, <2>2, <2>3
<1>12. CASE Rename
  BY <1>12 DEF Rename, AfterSave, NoTmp, NoSave
<1>13. CASE SaveFails
  BY <1>13 DEF SaveFails, AfterSave, NoTmp, NoSave
<1>14. ASSUME NEW e \in Entries, StoreDP(e) PROVE SaveInv'
  <2>1. PICK s \in Slot : wild_table[s] = Empty /\ wild_table' = [wild_table EXCEPT ![s] = e]
    BY <1>14, StoreSlot
  <2>2. UNCHANGED <<pc, tmp, begun>>
    BY <1>14 DEF StoreDP
  <2>3. /\ \A t \in Slot : wild_table[t] # Empty => wild_table'[t] = wild_table[t]
        /\ \A t \in Slot : wild_table'[t] # wild_table[t] =>
             wild_table'[t] = e /\ wild_table[t] = Empty
        /\ DOMAIN wild_table = Slot /\ DOMAIN wild_table' = Slot
    BY <2>1 DEF Types
  <2>4. Stored(wild_table) \subseteq Stored(wild_table')
    BY <2>3 DEF Stored
  <2>5. CASE pc \in Writing
    <3>1. /\ \A t \in Slot : Merged[t] # Empty => Merged[t] = wild_table[t]
          /\ tmp.count <= Cardinality(Used(Merged))
          /\ begun.entries \subseteq Stored(Merged)
      BY <2>5
    <3>2. ASSUME NEW t \in Slot, Merged[t] # Empty PROVE Merged'[t] = Merged[t]
      <4>1. CASE t <= Len(tmp.image)
        BY <2>2, <4>1 DEF Merged, Image0
      <4>2. CASE ~(t <= Len(tmp.image))
        <5>1. Merged[t] = wild_table[t] /\ Merged'[t] = wild_table'[t]
          BY <2>2, <4>2 DEF Merged, Image0
        <5> QED BY <2>3, <3>2, <5>1
      <4> QED BY <4>1, <4>2
    <3>3. ASSUME NEW t \in Slot, Merged'[t] # Empty PROVE Merged'[t] = wild_table'[t]
      <4>1. CASE t <= Len(tmp.image)
        <5>1. Merged'[t] = Merged[t]
          BY <2>2, <4>1 DEF Merged, Image0
        <5> QED BY <2>3, <3>1, <3>3, <5>1
      <4>2. CASE ~(t <= Len(tmp.image))
        BY <2>2, <4>2 DEF Merged, Image0
      <4> QED BY <4>1, <4>2
    <3>4. Cardinality(Used(Merged)) <= Cardinality(Used(Merged'))
      BY <3>2, UsedMono
    <3>5. tmp'.count <= Cardinality(Used(Merged'))
      BY <2>2, <3>1, <3>4, UsedFinite, ImageCells DEF Types
    <3>6. Stored(Merged) \subseteq Stored(Merged')
      <4>1. DOMAIN Merged = Slot /\ DOMAIN Merged' = Slot
        BY DEF Merged
      <4> QED BY <3>2, <4>1 DEF Stored
    <3> QED BY <2>2, <2>5, <3>1, <3>3, <3>5, <3>6
  <2>6. CASE pc \notin Writing
    BY <2>2, <2>4, <2>6
  <2> QED BY <2>5, <2>6
<1>15. CASE CountDP
  BY <1>15, MergedSame DEF CountDP
<1>16. CASE FindKey
  BY <1>16, MergedSame DEF FindKey
<1>17. CASE Interrupt
  BY <1>17, MergedSame DEF Interrupt
<1>18. CASE InterruptSave
  BY <1>18, MergedSame DEF InterruptSave
<1>19. CASE InterruptSolved
  BY <1>19, MergedSame DEF InterruptSolved
<1>20. CASE ForceExit
  BY <1>20 DEF ForceExit, Fresh, Cleared, NoSave
<1>21. CASE Crash
  BY <1>21 DEF Crash, Fresh, Cleared, NoSave
<1>22. CASE Restart
  BY <1>22 DEF Restart, Fresh, Cleared, NoSave
<1>23. CASE UNCHANGED vars
  BY <1>23, MergedSame DEF vars
<1> QED
  BY <1>1, <1>2, <1>3, <1>4, <1>5, <1>6, <1>7, <1>8, <1>9, <1>10, <1>11, <1>12, <1>13,
     <1>14, <1>15, <1>16, <1>17, <1>18, <1>19, <1>20, <1>21, <1>22, <1>23 DEF Next,
     MainThread, SaveCheckpoint, Workers, SignalHandler

\* In TRAP nothing moves while the main loop saves.
LEMMA QuietStep == Types /\ SaveInv /\ QuietInv /\ [Next]_vars => QuietInv'
<1> SUFFICES ASSUME Types, SaveInv, QuietInv, [Next]_vars PROVE QuietInv'
  OBVIOUS
<1> USE DEF store, flags, saving, Goto, Running, QuietInv, Writing, Saving
<1>1. CASE Interrupt \/ InterruptSave \/ InterruptSolved
  BY <1>1 DEF Interrupt, InterruptSave, InterruptSolved
<1>2. CASE LoadCheckpoint
  BY <1>2 DEF LoadCheckpoint, Load
<1>3. CASE ResetSolved
  BY <1>3 DEF ResetSolved
<1>4. CASE LoopHead
  BY <1>4 DEF LoopHead
<1>5. CASE CheckNewPoints
  BY <1>5 DEF CheckNewPoints, Checked
<1>6. CASE AutoCheckpoint
  <2>1. pc = "timer" /\ UNCHANGED <<mode, uncounted, gSolved>>
    BY <1>6 DEF AutoCheckpoint
  <2>2. pc' = "flag" \/ (pc' = "open" /\ (begun'.quiet => mode = "trap" /\ ~gSolved))
    <3>1. CASE BeginSave(FALSE)
      BY <3>1, BeginTypes DEF Types
    <3> QED BY <1>6, <3>1 DEF AutoCheckpoint
  <2> QED BY <2>1, <2>2
<1>7. CASE SaveAndExit
  <2>1. pc = "flag" /\ UNCHANGED <<mode, uncounted, gSolved>>
    BY <1>7 DEF SaveAndExit
  <2>2. \/ pc' = "loop"
        \/ pc' = "open" /\ (gSolved => uncounted = {}) /\ (begun'.quiet => mode = "trap")
    <3>1. CASE BeginSave(TRUE)
      BY <1>7, <3>1, BeginTypes DEF SaveAndExit, Types
    <3> QED BY <1>7, <3>1 DEF SaveAndExit
  <2> QED BY <2>1, <2>2
<1>8. CASE Teardown
  BY <1>8 DEF Teardown
<1>9. CASE OpenTmp
  BY <1>9 DEF OpenTmp, NoTmp
<1>10. CASE WriteHeader
  <2>1. /\ pc = "header" /\ pc' = "slots" /\ tmp = NoTmp
        /\ tmp' = [tmp EXCEPT !.count = wild_count]
        /\ UNCHANGED <<mode, wild_count, uncounted, gSolved, begun>>
    BY <1>10 DEF WriteHeader, SaveInv
  <2>2. tmp'.image = <<>> /\ Len(tmp'.image) = 0 /\ tmp'.count = wild_count
    BY <2>1, NoSaveTypes DEF NoTmp
  <2> QED BY <2>1, <2>2
<1>11. CASE WriteSlot
  <2>1. pc = "slots" /\ Len(tmp.image) < Slots
    BY <1>11 DEF WriteSlot, SaveInv
  <2>2. /\ Len(tmp'.image) = Len(tmp.image) + 1 /\ tmp'.count = tmp.count
        /\ \A s \in 1 .. Len(tmp.image) : tmp'.image[s] = tmp.image[s]
        /\ tmp'.image[Len(tmp.image) + 1] = wild_table[Len(tmp.image) + 1]
    BY <1>11, <2>1, MergedWrite
  <2>3. /\ UNCHANGED <<mode, wild_table, wild_count, uncounted, gSolved, begun>>
        /\ pc' \in {"slots", "sync"}
    BY <1>11 DEF WriteSlot
  <2>4. Len(tmp.image) \in Nat
    BY ImageCells DEF Types
  <2> QED BY <2>1, <2>2, <2>3, <2>4
<1>12. CASE Sync
  BY <1>12 DEF Sync
<1>13. CASE Rename
  BY <1>13 DEF Rename, AfterSave, NoTmp, NoSave
<1>14. CASE SaveFails
  BY <1>14 DEF SaveFails, AfterSave, NoTmp, NoSave
<1>15. ASSUME NEW e \in Entries, StoreDP(e) PROVE QuietInv'
  BY <1>15 DEF StoreDP, WorkersBusy, FirstEmpty
<1>16. CASE CountDP
  BY <1>16 DEF CountDP
<1>17. CASE FindKey
  BY <1>17 DEF FindKey
<1>18. CASE ForceExit
  BY <1>18 DEF ForceExit, Fresh, Cleared, NoSave
<1>19. CASE Crash
  BY <1>19 DEF Crash, Fresh, Cleared, NoSave
<1>20. CASE Restart
  BY <1>20 DEF Restart, Fresh, Cleared, NoSave
<1>21. CASE UNCHANGED vars
  BY <1>21 DEF vars
<1> QED
  BY <1>1, <1>2, <1>3, <1>4, <1>5, <1>6, <1>7, <1>8, <1>9, <1>10, <1>11, <1>12, <1>13,
     <1>14, <1>15, <1>16, <1>17, <1>18, <1>19, <1>20, <1>21 DEF Next, MainThread,
     SaveCheckpoint, Workers, SignalHandler

\* What the file holds stays in the table after a whole load, and is there
\* when a save begins.
LEMMA RegressStep == Types /\ FileInv /\ SaveInv /\ RegressInv /\ [Next]_vars => RegressInv'
<1> SUFFICES ASSUME Types, FileInv, SaveInv, RegressInv, [Next]_vars PROVE RegressInv'
  OBVIOUS
<1> USE DEF store, flags, saving, Goto, Running, RegressInv, Writing, Saving
<1>1. CASE CountDP \/ FindKey \/ Interrupt \/ InterruptSave \/ InterruptSolved
  BY <1>1 DEF CountDP, FindKey, Interrupt, InterruptSave, InterruptSolved
<1>2. CASE ForceExit \/ Crash \/ Restart
  BY <1>2 DEF ForceExit, Fresh, Cleared, NoSave, Crash, Restart
<1>3. CASE LoadCheckpoint
  <2>1. CASE file = NoFile \/ ReadsFail
    BY <1>3, <2>1 DEF LoadCheckpoint
  <2>2. CASE file # NoFile /\ ~ReadsFail
    <3>1. Len(file.image) = Slots /\ DOMAIN file.image = Slot
      BY <2>2, ImageCells DEF FileInv, Types, Slot
    <3>2. Load(Slots)
      BY <1>3, <2>2, <3>1 DEF LoadCheckpoint
    <3>3. \A s \in Slot : wild_table'[s] = file.image[s]
      BY <3>2 DEF Load, Slot
    <3>4. DOMAIN wild_table' = Slot
      BY <3>2 DEF Load
    <3>5. Stored(file.image) \subseteq Stored(wild_table')
      BY <3>1, <3>3, <3>4 DEF Stored
    <3> QED BY <1>3, <3>5 DEF LoadCheckpoint
  <2> QED BY <2>1, <2>2
<1>4. CASE ResetSolved
  BY <1>4 DEF ResetSolved
<1>5. CASE LoopHead
  BY <1>5 DEF LoopHead
<1>6. CASE CheckNewPoints
  BY <1>6 DEF CheckNewPoints
<1>7. CASE AutoCheckpoint
  BY <1>7 DEF AutoCheckpoint, BeginSave
<1>8. CASE SaveAndExit
  BY <1>8 DEF SaveAndExit, BeginSave
<1>9. CASE Teardown
  BY <1>9 DEF Teardown
<1>10. CASE OpenTmp
  BY <1>10 DEF OpenTmp, NoTmp
<1>11. CASE WriteHeader
  BY <1>11 DEF WriteHeader
<1>12. CASE WriteSlot
  BY <1>12 DEF WriteSlot, LastSlot
<1>13. CASE Sync
  BY <1>13 DEF Sync
<1>14. CASE Rename
  <2>1. file' = tmp /\ Len(tmp.image) = Slots /\ wild_table' = wild_table
    BY <1>14 DEF Rename, SaveInv
  <2>2. DOMAIN tmp.image = Slot /\ DOMAIN wild_table = Slot
    BY <2>1, ImageCells DEF Types, Slot
  <2>3. \A s \in Slot : tmp.image[s] # Empty => tmp.image[s] = wild_table[s]
    BY <1>14, <2>1 DEF Rename, SaveInv, Merged, Image0, Slot
  <2>4. Stored(tmp.image) \subseteq Stored(wild_table)
    BY <2>2, <2>3 DEF Stored
  <2>5. pc' \in {"exit", "flag"}
    BY <1>14 DEF Rename, AfterSave
  <2> QED BY <2>1, <2>4, <2>5
<1>15. CASE SaveFails
  BY <1>15 DEF SaveFails, AfterSave, NoTmp, NoSave
<1>16. ASSUME NEW e \in Entries, StoreDP(e) PROVE RegressInv'
  <2>1. PICK s \in Slot : wild_table[s] = Empty /\ wild_table' = [wild_table EXCEPT ![s] = e]
    BY <1>16, StoreSlot
  <2>2. Stored(wild_table) \subseteq Stored(wild_table')
    <3>1. /\ \A t \in Slot : wild_table[t] # Empty => wild_table'[t] = wild_table[t]
          /\ DOMAIN wild_table = Slot /\ DOMAIN wild_table' = Slot
      BY <2>1 DEF Types
    <3> QED BY <3>1 DEF Stored
  <2>3. UNCHANGED <<pc, file, begun>>
    BY <1>16 DEF StoreDP
  <2> QED BY <2>2, <2>3
<1>17. CASE UNCHANGED vars
  BY <1>17 DEF vars
<1> QED
  BY <1>1, <1>2, <1>3, <1>4, <1>5, <1>6, <1>7, <1>8, <1>9, <1>10, <1>11, <1>12, <1>13,
     <1>14, <1>15, <1>16, <1>17 DEF Next, MainThread, SaveCheckpoint, Workers, SignalHandler

\* The invariant holds at the start.
LEMMA InitInv == Init => IInv
<1> SUFFICES ASSUME Init PROVE IInv
  OBVIOUS
<1> USE DEF Init
<1>1. Types
  <2>1. Cleared \in [Slot -> Cell]
    BY DEF Cleared, Cell
  <2>2. Len(tmp.image) <= Slots
    BY NoSaveTypes, CheckpointAssumption
  <2> QED BY <2>1, <2>2, NoSaveTypes DEF Types
<1>2. TableInv
  <2>1. \A s \in Slot : wild_table[s] = Empty
    BY DEF Cleared
  <2> QED BY <2>1, UsedFinite DEF TableInv, Distinct
<1>3. FileInv /\ SaveInv /\ QuietInv /\ RegressInv
  BY DEF FileInv, SaveInv, QuietInv, RegressInv, Saving, Writing
<1> QED BY <1>1, <1>2, <1>3 DEF IInv

\* The invariant holds always.
LEMMA Invariant == Spec => []IInv
<1>1. Init => IInv
  BY InitInv
<1>2. IInv /\ [Next]_vars => IInv'
  BY TypesStep, TableStep, FileStep, SaveStep, QuietStep, RegressStep DEF IInv
<1> QED BY <1>1, <1>2, PTL DEF Spec

-----------------------------------------------------------------------------
(* What follows for the checkpoint file.                                   *)

\* Every variable keeps its type, and the counter never exceeds the table.
THEOREM TypeCorrect == Spec => []TypeOK
<1>1. IInv => TypeOK
  <2> SUFFICES ASSUME IInv PROVE TypeOK
    OBVIOUS
  <2>1. wild_count \in 0 .. Slots
    BY UsedFinite, CheckpointAssumption DEF IInv, Types, TableInv
  <2> QED BY <2>1 DEF IInv, Types, TypeOK, Cell, Saving, Writing
<1> QED BY <1>1, Invariant, PTL

\* Whatever system call fails and whenever the process or the machine dies,
\* the checkpoint file has all its slots.
THEOREM FileCompleteCorrect == Spec => []FileComplete
<1>1. IInv => FileComplete
  BY DEF IInv, FileInv, FileComplete
<1> QED BY <1>1, Invariant, PTL

\* The counter of a file never says more than the file holds, although the
\* workers of the concurrent modes store while it is written.
THEOREM CountBehindCorrect == Spec => []CountBehind
<1>1. IInv => CountBehind
  <2> SUFFICES ASSUME IInv, file # NoFile
               PROVE  file.count <= Cardinality(Stored(file.image))
    BY DEF CountBehind
  <2>1. file \in Image /\ Len(file.image) = Slots
    BY DEF IInv, Types, FileInv
  <2>2. file.image \in [Slot -> Cell] /\ file.count \in Nat
    BY <2>1, ImageCells, LenProperties DEF Slot
  <2>3. /\ file.count <= Cardinality(Used(file.image))
        /\ Cardinality(Used(file.image)) <= Cardinality(Stored(file.image))
    BY <2>2, UsedStored DEF IInv, FileInv
  <2>4. IsFiniteSet(Stored(file.image))
    BY <2>2, StoredEntries, CheckpointAssumption, FS_Subset
  <2> QED BY <2>2, <2>3, <2>4, UsedFinite, FS_CardinalityType
<1> QED BY <1>1, Invariant, PTL

\* What a step that replaces the file replaces it by: the image written by the
\* save, which holds what the table held when the save began.
LEMMA Published ==
  ASSUME IInv, [Next]_vars, file' # file
  PROVE  /\ Rename /\ pc \in Saving /\ pc \in Writing
         /\ file' = tmp /\ DOMAIN tmp.image = Slot /\ Len(tmp.image) = Slots
         /\ begun.entries \subseteq Stored(file'.image)
<1>1. Rename
  BY DEF IInv, FileInv, Next, MainThread, SaveCheckpoint, Workers, SignalHandler, vars,
     LoadCheckpoint, ResetSolved, LoopHead, CheckNewPoints, AutoCheckpoint, SaveAndExit, Teardown,
     OpenTmp, WriteHeader, WriteSlot, Sync, SaveFails, StoreDP, CountDP, FindKey,
     Interrupt, InterruptSave, InterruptSolved, ForceExit, Crash, Restart
<1>2. pc = "rename" /\ file' = tmp /\ Len(tmp.image) = Slots
  BY <1>1 DEF Rename, IInv, SaveInv
<1>3. DOMAIN tmp.image = Slot
  BY <1>2, ImageCells DEF IInv, Types, Slot
<1>4. Stored(Merged) = Stored(tmp.image)
  <2>1. \A s \in Slot : Merged[s] = tmp.image[s]
    BY <1>2 DEF Merged, Image0, Slot
  <2> QED BY <1>3, <2>1 DEF Stored, Merged
<1> QED BY <1>1, <1>2, <1>3, <1>4 DEF IInv, SaveInv, Saving, Writing

\* Every DP that was in the table when a save began is in the file it
\* publishes, for any table and any number of DPs stored during the save.
THEOREM SnapshotCorrect == Spec => SnapshotComplete
<1>1. IInv /\ [Next]_vars => [file' # file => begun.entries \subseteq Stored(file'.image)]_vars
  BY Published
<1> QED BY <1>1, Invariant, PTL DEF Spec, SnapshotComplete

\* A checkpoint that TRAP begins outside an iteration cut short by Ctrl+C is
\* the exact image of a store at rest.
THEOREM TrapExactCorrect == Spec => TrapExact
<1>1. ASSUME IInv, [Next]_vars, file' # file, begun.quiet
      PROVE  file'.image = wild_table /\ file'.count = wild_count /\ uncounted = {}
  <2>1. /\ uncounted = {} /\ tmp.count = wild_count
        /\ \A s \in Slot : tmp.image[s] = wild_table[s]
    BY <1>1, Published DEF IInv, QuietInv, Slot
  <2>2. tmp.image \in [Slot -> Cell] /\ wild_table \in [Slot -> Cell]
    BY <1>1, Published, ImageCells, LenProperties DEF IInv, Types, Slot
  <2> QED BY <1>1, <2>1, <2>2, Published
<1>2. IInv /\ [Next]_vars =>
        [file' # file /\ begun.quiet =>
           file'.image = wild_table /\ file'.count = wild_count /\ uncounted = {}]_vars
  BY <1>1
<1> QED BY <1>2, Invariant, PTL DEF Spec, TrapExact

\* If no load fails, a checkpoint holds at least what the one it replaces
\* held, across any number of crashes and restarts.
THEOREM NoRegressCorrect == ASSUME ~ReadsFail PROVE Spec => NoRegress
<1>1. ASSUME IInv, [Next]_vars, file # NoFile, file' # file
      PROVE  Stored(file.image) \subseteq Stored(file'.image)
  BY <1>1, Published DEF IInv, RegressInv
<1>2. IInv /\ [Next]_vars =>
        [file # NoFile /\ file' # file => Stored(file.image) \subseteq Stored(file'.image)]_vars
  BY <1>1
<1> QED BY <1>2, Invariant, PTL DEF Spec, NoRegress

-----------------------------------------------------------------------------
(* The abstract specification.                                             *)

\* Until it has loaded, a process has nothing in its memory.
FreshInv == pc = "load" => Stored(wild_table) = {}

LEMMA ClearedEmpty == Stored(Cleared) = {}
BY DEF Stored, Cleared

LEMMA FreshStep == Types /\ FreshInv /\ [Next]_vars => FreshInv'
<1> SUFFICES ASSUME Types, FreshInv, [Next]_vars, pc' = "load"
             PROVE  Stored(wild_table') = {}
  BY DEF FreshInv, Stored
<1> USE DEF store, flags, saving, Goto, FreshInv
<1>1. CASE MainThread
  BY <1>1 DEF MainThread, SaveCheckpoint, LoadCheckpoint, ResetSolved, LoopHead, CheckNewPoints,
     AutoCheckpoint, SaveAndExit, BeginSave, Teardown, OpenTmp, WriteHeader, WriteSlot, Sync,
     Rename, SaveFails, AfterSave
<1>2. CASE CountDP \/ FindKey \/ Interrupt \/ SignalHandler \/ UNCHANGED vars
  BY <1>2 DEF CountDP, FindKey, Interrupt, SignalHandler, InterruptSave, InterruptSolved, vars
<1>3. ASSUME NEW e \in Entries, StoreDP(e) PROVE FALSE
  BY <1>3 DEF StoreDP, WorkersBusy
<1>4. CASE ForceExit \/ Crash \/ Restart
  BY <1>4, ClearedEmpty DEF ForceExit, Crash, Restart, Fresh
<1> QED
  BY <1>1, <1>2, <1>3, <1>4 DEF Next, Workers

\* The abstract values of a state.
SavedSet == IF file = NoFile THEN {} ELSE Stored(file.image)
MemSet   == IF Loaded THEN Stored(wild_table) ELSE {}
FloorSet == IF pc \in Saving THEN begun.entries ELSE {}

LEMMA DurableInit == Init => Durable!Init
BY DEF Init, Durable!Init, Loaded, Saving

\* A step that moves the main thread within a part of the program, and leaves
\* the table, the file and the save alone, is no step of the abstract.
LEMMA DurableStutter ==
  ASSUME UNCHANGED file, Loaded => UNCHANGED wild_table, Loaded' <=> Loaded,
         (pc' \in Saving) <=> (pc \in Saving), pc \in Saving => begun' = begun
  PROVE  UNCHANGED Durable!vars
<1>1. Loaded' = Loaded
  BY DEF Loaded
<1>2. (pc \in Saving)' = (pc \in Saving)
  BY DEF Saving
<1>3. Loaded => UNCHANGED Stored(wild_table)
  BY DEF Stored
<1>4. UNCHANGED MemSet
  BY <1>1, <1>3 DEF MemSet
<1>5. UNCHANGED SavedSet
  BY DEF SavedSet, Stored
<1>6. UNCHANGED FloorSet
  BY <1>2 DEF FloorSet
<1> QED
  BY <1>1, <1>2, <1>4, <1>5, <1>6 DEF Durable!vars, MemSet, SavedSet, FloorSet

\* One step of the abstract specification, of its five values.
LEMMA DurableIs ==
  /\ Durable!Start <=> /\ ~Loaded /\ Loaded'
                       /\ MemSet' \in SUBSET SavedSet /\ (MemSet' = SavedSet \/ ReadsFail)
                       /\ UNCHANGED <<SavedSet, pc \in Saving, FloorSet>>
  /\ Durable!Grow <=> /\ Loaded /\ \E e \in Entries \ MemSet : MemSet' = MemSet \cup {e}
                      /\ UNCHANGED <<Loaded, SavedSet, pc \in Saving, FloorSet>>
  /\ Durable!Begin <=> /\ Loaded /\ pc \notin Saving /\ (pc \in Saving)' /\ FloorSet' = MemSet
                       /\ UNCHANGED <<Loaded, MemSet, SavedSet>>
  /\ Durable!EndSave <=> pc \in Saving /\ ~(pc \in Saving)' /\ FloorSet' = {}
  /\ Durable!Publish <=> /\ Durable!EndSave
                         /\ FloorSet \subseteq SavedSet' /\ SavedSet' \subseteq MemSet
                         /\ UNCHANGED <<Loaded, MemSet>>
  /\ Durable!GiveUp <=> Durable!EndSave /\ UNCHANGED <<Loaded, MemSet, SavedSet>>
  /\ Durable!Die <=> /\ Loaded /\ ~Loaded' /\ MemSet' = {} /\ ~(pc \in Saving)' /\ FloorSet' = {}
                     /\ UNCHANGED SavedSet
BY DEF Durable!Start, Durable!Grow, Durable!Begin, Durable!EndSave, Durable!Publish, Durable!GiveUp,
   Durable!Die, MemSet, SavedSet, FloorSet

LEMMA DurableLoad ==
  ASSUME IInv, FreshInv, LoadCheckpoint
  PROVE  Durable!Start
<1>1. /\ pc = "load" /\ pc' = "reset" /\ UNCHANGED file
  BY DEF LoadCheckpoint, Goto
<1>2. ~Loaded /\ Loaded' /\ pc \notin Saving /\ ~(pc \in Saving)' /\ FloorSet = {} /\ FloorSet' = {}
  BY <1>1 DEF Loaded, Saving, FloorSet
<1>3. MemSet' = Stored(wild_table')
  BY <1>2 DEF MemSet, Stored
<1>4. SavedSet' = SavedSet
  BY <1>1 DEF SavedSet, Stored
<1>5. CASE file = NoFile
  <2>1. wild_table' = wild_table /\ Stored(wild_table) = {} /\ SavedSet = {}
    BY <1>1, <1>5 DEF LoadCheckpoint, FreshInv, SavedSet
  <2> QED
    BY <1>2, <1>3, <1>4, <2>1, DurableIs
<1>6. CASE file # NoFile
  <2>1. PICK k \in 0 .. Len(file.image) : (k = Len(file.image) \/ ReadsFail) /\ Load(k)
    BY <1>6 DEF LoadCheckpoint
  <2>2. Len(file.image) = Slots /\ DOMAIN file.image = Slot /\ SavedSet = Stored(file.image)
    BY <1>6, ImageCells DEF IInv, FileInv, Types, Slot, SavedSet
  <2>3. /\ DOMAIN wild_table' = Slot
        /\ \A s \in Slot : wild_table'[s] = IF s <= k THEN file.image[s] ELSE Empty
    BY <2>1 DEF Load
  <2>4. Stored(wild_table') \subseteq Stored(file.image)
    BY <2>2, <2>3 DEF Stored
  <2>5. k = Slots => Stored(file.image) \subseteq Stored(wild_table')
    BY <2>2, <2>3 DEF Stored, Slot
  <2>6. MemSet' \in SUBSET SavedSet /\ (MemSet' = SavedSet \/ ReadsFail)
    BY <1>3, <2>1, <2>2, <2>4, <2>5
  <2> QED
    BY <1>2, <1>4, <2>6, DurableIs
<1> QED
  BY <1>5, <1>6

LEMMA DurableSave ==
  ASSUME IInv, FreshInv, NEW last \in BOOLEAN, BeginSave(last), pc \in {"timer", "flag"},
         UNCHANGED <<wild_table, file>>
  PROVE  Durable!Begin
<1>1. Loaded /\ Loaded' /\ pc \notin Saving /\ (pc \in Saving)'
  BY DEF BeginSave, Goto, Loaded, Saving
<1>2. FloorSet' = MemSet
  BY <1>1 DEF BeginSave, FloorSet, MemSet
<1>3. UNCHANGED MemSet /\ UNCHANGED SavedSet
  BY <1>1 DEF MemSet, SavedSet, Stored
<1>4. UNCHANGED Loaded
  BY <1>1 DEF Loaded
<1> QED
  BY <1>1, <1>2, <1>3, <1>4, DurableIs

LEMMA DurableEnd ==
  ASSUME IInv, Rename \/ SaveFails, [Next]_vars
  PROVE  Durable!Publish \/ Durable!GiveUp
<1>1. /\ pc \in Saving /\ Loaded /\ Loaded' /\ ~(pc \in Saving)' /\ UNCHANGED wild_table
  BY DEF Rename, SaveFails, AfterSave, Goto, Saving, Loaded, store
<1>2. FloorSet' = {} /\ UNCHANGED MemSet /\ UNCHANGED Loaded
  BY <1>1 DEF FloorSet, MemSet, Stored, Loaded
<1>3. CASE UNCHANGED file
  <2>1. UNCHANGED SavedSet
    BY <1>3 DEF SavedSet, Stored
  <2> QED
    BY <1>1, <1>2, <2>1, DurableIs
<1>4. CASE file' # file
  <2>1. /\ file' = tmp /\ pc = "rename" /\ DOMAIN tmp.image = Slot /\ Len(tmp.image) = Slots
        /\ begun.entries \subseteq Stored(file'.image)
    BY <1>4, Published DEF Rename
  <2>2. SavedSet' = Stored(tmp.image)
    BY <2>1, NoFileAssumption DEF IInv, Types, SavedSet, Stored
  <2>3. FloorSet \subseteq SavedSet'
    BY <1>1, <2>1, <2>2 DEF FloorSet
  <2>4. SavedSet' \subseteq MemSet
    <3>1. \A s \in Slot : tmp.image[s] # Empty => tmp.image[s] = wild_table[s]
      BY <2>1 DEF IInv, SaveInv, Writing, Merged, Image0, Slot
    <3>2. DOMAIN wild_table = Slot
      BY DEF IInv, Types
    <3> QED
      BY <1>1, <2>1, <2>2, <3>1, <3>2 DEF Stored, MemSet
  <2> QED
    BY <1>1, <1>2, <2>3, <2>4, DurableIs
<1> QED
  BY <1>3, <1>4

LEMMA DurableGrow ==
  ASSUME IInv, NEW e \in Entries, StoreDP(e)
  PROVE  Durable!Grow
<1>1. PICK s \in Slot : wild_table[s] = Empty /\ wild_table' = [wild_table EXCEPT ![s] = e]
  BY StoreSlot DEF IInv
<1>2. UNCHANGED <<pc, file, begun>> /\ e \notin Stored(wild_table)
  BY DEF StoreDP, saving
<1>3. Loaded
  BY DEF StoreDP, WorkersBusy, Loaded
<1>4. Stored(wild_table') = Stored(wild_table) \cup {e}
  <2>1. wild_table \in [Slot -> Cell] /\ e # Empty
    BY CheckpointAssumption DEF IInv, Types
  <2> QED
    BY <1>1, <2>1 DEF Stored
<1>5. MemSet' = MemSet \cup {e} /\ e \notin MemSet
  BY <1>2, <1>3, <1>4 DEF MemSet, Loaded, Stored
<1>6. UNCHANGED <<Loaded, SavedSet, pc \in Saving, FloorSet>>
  BY <1>2 DEF Loaded, SavedSet, FloorSet, Saving, Stored
<1> QED
  BY <1>3, <1>5, <1>6, DurableIs

LEMMA DurableDeath ==
  ASSUME IInv, FreshInv, ForceExit \/ Crash \/ Restart \/ Teardown
  PROVE  Durable!Die \/ UNCHANGED Durable!vars
<1>1. UNCHANGED file
  BY DEF ForceExit, Crash, Restart, Teardown, IInv, FileInv
<1>2. ~Loaded' /\ pc' \notin Saving
  BY DEF ForceExit, Crash, Restart, Teardown, Goto, Loaded, Saving
<1>3. MemSet' = {} /\ FloorSet' = {} /\ UNCHANGED SavedSet
  BY <1>1, <1>2 DEF MemSet, FloorSet, SavedSet, Stored
<1>4. CASE Loaded
  BY <1>2, <1>3, <1>4, DurableIs
<1>5. CASE ~Loaded
  <2>1. pc \notin Saving
    BY <1>5 DEF Loaded, Saving
  <2> QED
    BY <1>1, <1>2, <1>5, <2>1, DurableStutter
<1> QED
  BY <1>4, <1>5

LEMMA DurableStep ==
  IInv /\ FreshInv /\ [Next]_vars => [Durable!Next]_(Durable!vars)
<1> SUFFICES ASSUME IInv, FreshInv, [Next]_vars PROVE [Durable!Next]_(Durable!vars)
  OBVIOUS
<1> USE DEF Goto, store, flags, saving
<1>1. CASE LoadCheckpoint
  BY <1>1, DurableLoad DEF Durable!Next
<1>2. CASE ResetSolved \/ LoopHead \/ CheckNewPoints \/ OpenTmp \/ WriteHeader \/ WriteSlot \/ Sync
  <2>1. /\ UNCHANGED <<wild_table, file, begun>>
        /\ \/ pc \in Saving /\ pc' \in Saving
           \/ /\ {pc, pc'} \cap (Saving \cup {"load", "end", "down"}) = {}
    BY <1>2 DEF ResetSolved, LoopHead, CheckNewPoints, OpenTmp, WriteHeader, WriteSlot, Sync, Saving
  <2>2. (Loaded' <=> Loaded) /\ ((pc' \in Saving) <=> (pc \in Saving))
    BY <2>1 DEF Loaded, Saving
  <2> QED
    BY <2>1, <2>2, DurableStutter
<1>3. CASE AutoCheckpoint \/ SaveAndExit
  <2>1. pc \in {"timer", "flag"} /\ UNCHANGED <<wild_table, file>>
    BY <1>3 DEF AutoCheckpoint, SaveAndExit
  <2>2. \/ \E last \in BOOLEAN : BeginSave(last)
        \/ pc' \in {"flag", "loop"}
    BY <1>3 DEF AutoCheckpoint, SaveAndExit
  <2>3. CASE \E last \in BOOLEAN : BeginSave(last)
    BY <2>1, <2>3, DurableSave DEF Durable!Next
  <2>4. CASE pc' \in {"flag", "loop"}
    <3>1. Loaded /\ Loaded' /\ pc \notin Saving /\ pc' \notin Saving
      BY <2>1, <2>4 DEF Loaded, Saving
    <3> QED
      BY <2>1, <3>1, DurableStutter
  <2> QED
    BY <2>2, <2>3, <2>4
<1>4. CASE Rename \/ SaveFails
  BY <1>4, DurableEnd DEF Durable!Next
<1>5. ASSUME NEW e \in Entries, StoreDP(e) PROVE Durable!Next
  BY <1>5, DurableGrow DEF Durable!Next
<1>6. CASE CountDP \/ FindKey \/ Interrupt \/ SignalHandler \/ UNCHANGED vars
  <2>1. UNCHANGED <<wild_table, file, begun, pc>>
    BY <1>6 DEF CountDP, FindKey, Interrupt, SignalHandler, InterruptSave, InterruptSolved, vars
  <2>2. (Loaded' <=> Loaded) /\ ((pc' \in Saving) <=> (pc \in Saving))
    BY <2>1 DEF Loaded, Saving
  <2> QED
    BY <2>1, <2>2, DurableStutter
<1>7. CASE ForceExit \/ Crash \/ Restart \/ Teardown
  BY <1>7, DurableDeath DEF Durable!Next
<1> QED
  BY <1>1, <1>2, <1>3, <1>4, <1>5, <1>6, <1>7 DEF Next, MainThread, SaveCheckpoint, Workers

\* The run and its files implement DurableSet, whether or not loads may fail:
\* the published set is replaced in one step by one that holds all that the
\* table held when the save began, a save given up or a death at any point
\* leaves it alone, and a run starts with it.
THEOREM DurableRefined == Spec => ImplementsDurableSet
<1>1. Init => FreshInv /\ Durable!Init
  BY ClearedEmpty, DurableInit DEF Init, FreshInv
<1>2. IInv /\ FreshInv /\ [Next]_vars => FreshInv'
  BY FreshStep DEF IInv
<1>3. IInv /\ FreshInv /\ [Next]_vars => [Durable!Next]_(Durable!vars)
  BY DurableStep
<1> QED
  BY <1>1, <1>2, <1>3, Invariant, PTL DEF Spec, ImplementsDurableSet, Durable!Spec
\* What DurableSet promises when loads do not fail: a checkpoint only ever
\* gains. So does, through the refinement, the file of a run.
Kept == /\ Loaded => SavedSet \subseteq MemSet
        /\ pc \in Saving => SavedSet \subseteq FloorSet

THEOREM DurableGains == ASSUME ~ReadsFail PROVE Durable!Spec => Durable!Gains
<1>1. Durable!Init => Kept
  BY DEF Durable!Init, Kept, SavedSet, MemSet, FloorSet
<1>2. ASSUME Kept, [Durable!Next]_(Durable!vars)
      PROVE  Kept' /\ SavedSet \subseteq SavedSet'
  <2>1. CASE Durable!Start \/ Durable!Grow \/ Durable!Begin
    BY <1>2, <2>1, DurableIs DEF Kept
  <2>2. CASE Durable!Publish \/ Durable!GiveUp
    BY <1>2, <2>2, DurableIs DEF Kept
  <2>3. CASE Durable!Die
    BY <1>2, <2>3, DurableIs DEF Kept
  <2>4. CASE UNCHANGED Durable!vars
    <3>1. UNCHANGED <<Loaded, MemSet, SavedSet, pc \in Saving, FloorSet>>
      BY <2>4 DEF Durable!vars, MemSet, SavedSet, FloorSet
    <3> QED
      BY <1>2, <3>1 DEF Kept
  <2> QED
    BY <1>2, <2>1, <2>2, <2>3, <2>4 DEF Durable!Next
<1>3. Kept /\ [Durable!Next]_(Durable!vars)
        => Kept' /\ [SavedSet \subseteq SavedSet']_(Durable!vars)
  BY <1>2
<1>4. Durable!Spec => [][SavedSet \subseteq SavedSet']_(Durable!vars)
  BY <1>1, <1>3, PTL DEF Durable!Spec
<1> QED
  BY <1>4 DEF Durable!Gains, SavedSet
=============================================================================
