------------------------------ MODULE Checkpoint ------------------------------
(***************************************************************************)
(* The life of a run around its checkpoint file: loading it at the start   *)
(* of SolvePoint, the main loop with its automatic checkpoints, Ctrl+C,    *)
(* and SaveCheckpoint, which writes a temporary file and renames it        *)
(* (RCKangaroo_hunt_v2.cpp, TameStore.h). Any system call of the save may  *)
(* fail, and the process may die at every step: of a crash, of a second    *)
(* Ctrl+C, or because the run was ended. The user then starts it again     *)
(* with -loadwild naming the same file, as the README shows.               *)
(*                                                                         *)
(* In TRAP the main loop itself calls CheckNewPoints and waits for the     *)
(* workers, so that nothing is stored during a save. In the other modes    *)
(* the workers go on storing while the main loop writes the table slot by  *)
(* slot. The store is reduced to one table that does not rotate; what its  *)
(* threads do to each other is TameStore's subject.                        *)
(***************************************************************************)
EXTENDS Integers, Sequences, FiniteSets

CONSTANTS
  Slots,        \* wild_table_size; the slots are 1 .. Slots
  Entries,      \* the DPs
  Home,         \* the slot a DP hashes to
  Empty,        \* a slot that is all zero
  NoFile,
  Modes,        \* of "trap" and "concurrent", those a run may use
  ReadsFail,    \* whether LoadCheckpoint may fail on a good file: a read
                \* error, or a size other than the one of this run
  MaxStarts     \* bound: how often the program is started

ASSUME CheckpointAssumption ==
  /\ Slots \in Nat \ {0} /\ IsFiniteSet(Entries)
  /\ Home \in [Entries -> 1 .. Slots]
  /\ Empty \notin Entries
  /\ Modes \subseteq {"trap", "concurrent"} /\ ReadsFail \in BOOLEAN
  /\ MaxStarts \in Nat

VARIABLES
  mode,
  wild_table, wild_count,
  uncounted,       \* DPs stored and not counted yet
  gSolved, gSaveAndExit, gCheckpointRequested,
  hpc,             \* the handler of Ctrl+C: how far it came
  pc,              \* the main thread
  exiting,         \* the save under way is the last one
  tmp,             \* the temporary file: [count, image, synced]
  file,            \* the checkpoint file, or NoFile
  begun,           \* history: [entries, quiet], when the save under way began
  starts

store   == <<wild_table, wild_count, uncounted>>
flags   == <<gSolved, gSaveAndExit, gCheckpointRequested, hpc>>
saving  == <<exiting, tmp, begun>>
vars == <<mode, store, flags, pc, saving, file, starts>>

Slot == 1 .. Slots
Stored(image) == {image[s] : s \in DOMAIN image} \ {Empty}
Cleared == [s \in Slot |-> Empty]
NoTmp   == [count |-> 0, image |-> <<>>, synced |-> FALSE]

NoSave  == [entries |-> {}, quiet |-> TRUE]

\* The memory of a process that is gone, or has just started. The files are
\* what it left, a temporary file it did not finish included.
Fresh ==
  /\ wild_table' = Cleared /\ wild_count' = 0 /\ uncounted' = {}
  /\ gSolved' = FALSE /\ gSaveAndExit' = FALSE /\ gCheckpointRequested' = FALSE
  /\ hpc' = "none"
  /\ exiting' = FALSE
  /\ begun' = NoSave

Init ==
  /\ mode \in Modes
  /\ wild_table = Cleared /\ wild_count = 0 /\ uncounted = {}
  /\ gSolved = FALSE /\ gSaveAndExit = FALSE /\ gCheckpointRequested = FALSE
  /\ hpc = "none"
  /\ pc = "load" /\ exiting = FALSE
  /\ tmp = NoTmp /\ begun = NoSave
  /\ file = NoFile
  /\ starts = 1

-----------------------------------------------------------------------------
(* The start of SolvePoint.                                                *)
Goto(l) == pc' = l

\* A read that ends after k slots leaves them in the table and the counter
\* at zero; the caller goes on all the same ("Starting fresh").
LoadCounters(k) ==
  /\ wild_count' = IF k = Slots THEN file.count ELSE 0
  /\ UNCHANGED wild_table

Load(k) ==
  /\ wild_count' = IF k = Slots THEN file.count ELSE 0
  /\ wild_table' = [s \in Slot |-> IF s <= k THEN file.image[s] ELSE Empty]

LoadCheckpoint ==
  /\ pc = "load"
  /\ IF file = NoFile
     THEN UNCHANGED <<wild_table, wild_count>>
     ELSE \E k \in 0 .. Len(file.image) : (k = Len(file.image) \/ ReadsFail) /\ Load(k)
  /\ Goto("reset")
  /\ UNCHANGED <<mode, uncounted, flags, saving, file, starts>>

\* gSolved is cleared, even if Ctrl+C has set it already.
ResetSolved ==
  /\ pc = "reset"
  /\ gSolved' = FALSE
  /\ Goto("loop")
  /\ UNCHANGED <<mode, store, gSaveAndExit, gCheckpointRequested, hpc, saving, file, starts>>

-----------------------------------------------------------------------------
(* The workers. A DP goes to the first empty slot of its probe sequence,   *)
(* which goes as far as there are slots, and is counted afterwards.        *)
ProbeSlot(e, i) == ((Home[e] - 1 + (i * (i + 1)) \div 2) % Slots) + 1

FirstEmpty(e, i) ==
  /\ wild_table[ProbeSlot(e, i)] = Empty
  /\ \A j \in 0 .. i - 1 : wild_table[ProbeSlot(e, j)] # Empty

\* In TRAP the workers have something to do only during CheckNewPoints.
WorkersBusy == IF mode = "trap" THEN pc = "check" ELSE pc \notin {"load", "exit", "end", "down"}

StoreDP(e) ==
  /\ WorkersBusy /\ ~gSolved
  /\ uncounted = {}
  /\ e \notin Stored(wild_table)
  /\ \E i \in 0 .. Slots - 1 :
       FirstEmpty(e, i) /\ wild_table' = [wild_table EXCEPT ![ProbeSlot(e, i)] = e]
  /\ uncounted' = {e}
  /\ UNCHANGED <<mode, wild_count, flags, pc, saving, file, starts>>

CountDPTwice ==
  /\ uncounted # {}
  /\ wild_count' = wild_count + 2
  /\ uncounted' = {}
  /\ UNCHANGED <<mode, wild_table, flags, pc, saving, file, starts>>

CountDP ==
  /\ uncounted # {}
  /\ wild_count' = wild_count + 1
  /\ uncounted' = {}
  /\ UNCHANGED <<mode, wild_table, flags, pc, saving, file, starts>>

\* A worker or a BSGS thread finds the key.
FindKey ==
  /\ pc \notin {"load", "reset", "exit", "end", "down"}
  /\ ~gSolved
  /\ gSolved' = TRUE
  /\ UNCHANGED <<mode, store, gSaveAndExit, gCheckpointRequested, hpc, pc, saving, file, starts>>

Workers == (\E e \in Entries : StoreDP(e)) \/ CountDP \/ FindKey

-----------------------------------------------------------------------------
(* The main loop.                                                          *)
LoopForever ==
  /\ pc = "loop"
  /\ Goto(IF mode = "trap" THEN "check" ELSE "timer")
  /\ UNCHANGED <<mode, store, flags, saving, file, starts>>

LoopHead ==
  /\ pc = "loop"
  /\ Goto(IF gSolved THEN "exit" ELSE IF mode = "trap" THEN "check" ELSE "timer")
  /\ UNCHANGED <<mode, store, flags, saving, file, starts>>

\* CheckNewPoints waits until the workers are done, or gSolved is set.
CheckedEarly == TRUE
Checked == uncounted = {} \/ gSolved

CheckNewPoints ==
  /\ pc = "check"
  /\ Checked
  /\ Goto("timer")
  /\ UNCHANGED <<mode, store, flags, saving, file, starts>>

BeginSave(last) ==
  /\ exiting' = last
  /\ begun' = [entries |-> Stored(wild_table), quiet |-> mode = "trap" /\ (last \/ ~gSolved)]
  /\ Goto("open")

\* The interval may or may not have passed.
AutoCheckpoint ==
  /\ pc = "timer"
  /\ \/ BeginSave(FALSE)
     \/ Goto("flag") /\ UNCHANGED <<exiting, begun>>
  /\ UNCHANGED <<mode, store, flags, tmp, file, starts>>

\* On Ctrl+C the GPUs are stopped and Sleep(200) lets the DPs under way end;
\* that it is long enough is the one assumption about time made here.
SaveAndExit ==
  /\ pc = "flag"
  /\ IF gSaveAndExit
     THEN (gSolved => uncounted = {}) /\ BeginSave(TRUE)
     ELSE Goto("loop") /\ UNCHANGED <<exiting, begun>>
  /\ UNCHANGED <<mode, store, flags, tmp, file, starts>>

\* Joining the threads, and the return of SolvePoint.
Teardown ==
  /\ pc = "exit"
  /\ uncounted = {}
  /\ Goto("end")
  /\ UNCHANGED <<mode, store, flags, saving, file, starts>>

-----------------------------------------------------------------------------
(* SaveCheckpoint.                                                         *)
AfterSave ==
  /\ tmp' = NoTmp
  /\ begun' = NoSave
  /\ exiting' = FALSE
  /\ Goto(IF exiting THEN "exit" ELSE "flag")

\* fopen(tmp_path, "wb") empties what a crash may have left.
OpenTmp ==
  /\ pc = "open"
  /\ tmp' = NoTmp
  /\ Goto("header")
  /\ UNCHANGED <<mode, store, flags, exiting, begun, file, starts>>

\* The counters are read here, before the first slot.
WriteHeader ==
  /\ pc = "header"
  /\ tmp' = [tmp EXCEPT !.count = wild_count]
  /\ Goto("slots")
  /\ UNCHANGED <<mode, store, flags, exiting, begun, file, starts>>

LastSlotCounted == Len(tmp.image) + 1 >= wild_count
LastSlot == Len(tmp.image) + 1 >= Slots

WriteSlot ==
  /\ pc = "slots"
  /\ tmp' = [tmp EXCEPT !.image = Append(@, wild_table[Len(@) + 1])]
  /\ Goto(IF LastSlot THEN "sync" ELSE "slots")
  /\ UNCHANGED <<mode, store, flags, exiting, begun, file, starts>>

NoSync ==
  /\ pc = "sync"
  /\ Goto("rename")
  /\ UNCHANGED <<mode, store, flags, saving, file, starts>>

Sync ==
  /\ pc = "sync"
  /\ tmp' = [tmp EXCEPT !.synced = TRUE]
  /\ Goto("rename")
  /\ UNCHANGED <<mode, store, flags, exiting, begun, file, starts>>

Rename ==
  /\ pc = "rename"
  /\ file' = tmp
  /\ AfterSave
  /\ UNCHANGED <<mode, store, flags, starts>>

\* abort_save, and the failures of fopen, fclose and rename: the temporary
\* file is removed.
SaveFails ==
  /\ pc \in {"open", "header", "slots", "sync", "rename"}
  /\ AfterSave
  /\ UNCHANGED <<mode, store, flags, file, starts>>

SaveCheckpoint == OpenTmp \/ WriteHeader \/ WriteSlot \/ Sync \/ Rename \/ SaveFails

MainThread ==
  \/ LoadCheckpoint \/ ResetSolved
  \/ LoopHead \/ CheckNewPoints \/ AutoCheckpoint \/ SaveAndExit \/ Teardown
  \/ SaveCheckpoint

-----------------------------------------------------------------------------
(* CheckpointSignalHandler. It may run beside the main thread.             *)
Running == pc \notin {"end", "down"}

Interrupt ==
  /\ Running /\ hpc = "none"
  /\ ~gSolved /\ ~gCheckpointRequested
  /\ gCheckpointRequested' = TRUE
  /\ hpc' = "requested"
  /\ UNCHANGED <<mode, store, gSolved, gSaveAndExit, pc, saving, file, starts>>

InterruptSave ==
  /\ Running /\ hpc = "requested"
  /\ gSaveAndExit' = TRUE
  /\ hpc' = "save"
  /\ UNCHANGED <<mode, store, gSolved, gCheckpointRequested, pc, saving, file, starts>>

InterruptSolved ==
  /\ Running /\ hpc = "save"
  /\ gSolved' = TRUE
  /\ hpc' = "done"
  /\ UNCHANGED <<mode, store, gSaveAndExit, gCheckpointRequested, pc, saving, file, starts>>

SignalHandler == InterruptSave \/ InterruptSolved

\* Ctrl+C once gSolved or gCheckpointRequested is set: _exit(0).
ForceExit ==
  /\ Running
  /\ gSolved \/ gCheckpointRequested
  /\ Fresh
  /\ Goto("down")
  /\ UNCHANGED <<mode, tmp, file, starts>>

\* A crash of the machine loses what was not synced.
Crash ==
  /\ Running
  /\ Fresh
  /\ Goto("down")
  /\ IF file # NoFile /\ ~file.synced
     THEN \E k \in 0 .. Len(file.image) : file' = [file EXCEPT !.image = SubSeq(@, 1, k)]
     ELSE UNCHANGED file
  /\ UNCHANGED <<mode, tmp, starts>>

Restart ==
  /\ ~Running
  /\ starts < MaxStarts
  /\ starts' = starts + 1
  /\ Fresh
  /\ Goto("load")
  /\ UNCHANGED <<mode, tmp, file>>

Next == MainThread \/ Workers \/ Interrupt \/ SignalHandler \/ ForceExit \/ Crash \/ Restart

Spec == Init /\ [][Next]_vars

\* The main thread and the workers are scheduled, and a handler that was
\* entered ends. Nothing makes the key be found or the system calls fail.
Fairness ==
  /\ WF_vars(MainThread)
  /\ WF_vars(CountDP)
  /\ WF_vars(SignalHandler)

FairSpec == Spec /\ Fairness
-----------------------------------------------------------------------------
(* Properties.                                                             *)
Image == [count : Nat, image : Seq(Entries \cup {Empty}), synced : BOOLEAN]

ASSUME NoFileAssumption == NoFile \notin Image

\* Everything keeps its type, and the counter never exceeds the table.
TypeOK ==
  /\ mode \in Modes
  /\ wild_table \in [Slot -> Entries \cup {Empty}] /\ wild_count \in 0 .. Slots
  /\ uncounted \subseteq Entries
  /\ {gSolved, gSaveAndExit, gCheckpointRequested, exiting} \subseteq BOOLEAN
  /\ hpc \in {"none", "requested", "save", "done"}
  /\ pc \in {"load", "reset", "loop", "check", "timer", "flag", "exit", "end", "down",
             "open", "header", "slots", "sync", "rename"}
  /\ tmp \in Image /\ Len(tmp.image) <= Slots
  /\ file \in Image \cup {NoFile}
  /\ begun \in [entries : SUBSET Entries, quiet : BOOLEAN]
  /\ starts \in Nat

\* "Readers either see the previous valid file or the new one fully durable":
\* whatever fails and whenever the process dies, the file has all its slots.
FileComplete == file # NoFile => Len(file.image) = Slots

\* A checkpoint holds at least what the one it replaces held, across crashes
\* and restarts too: "a crash costs at most a few hours of work".
NoRegress ==
  [][file # NoFile /\ file' # file => Stored(file.image) \subseteq Stored(file'.image)]_vars

\* Every DP that was in the table when a save began is in the file it
\* publishes, although the workers may store during the save.
SnapshotComplete ==
  [][file' # file => begun.entries \subseteq Stored(file'.image)]_vars

\* A checkpoint of TRAP is the exact image of a store at rest, if it was not
\* begun in the iteration that Ctrl+C cut short: no worker stores while the
\* main loop saves.
TrapExact ==
  [][file' # file /\ begun.quiet =>
       file'.image = wild_table /\ file'.count = wild_count /\ uncounted = {}]_vars

(* The run and its files implement DurableSet: whatever the workers store  *)
(* during a save, whichever system call fails and whenever the process or  *)
(* the machine dies, a checkpoint is replaced in one step by a set that    *)
(* holds all the table held when the save began, and loaded as it was.     *)
Saving == {"open", "header", "slots", "sync", "rename"}
Loaded == pc \notin {"load", "end", "down"}

Durable == INSTANCE DurableSet WITH
  LoadsFail <- ReadsFail,
  up     <- Loaded,
  mem    <- IF Loaded THEN Stored(wild_table) ELSE {},
  saved  <- IF file = NoFile THEN {} ELSE Stored(file.image),
  saving <- pc \in Saving,
  floor  <- IF pc \in Saving THEN begun.entries ELSE {}

ImplementsDurableSet == Durable!Spec

\* The counter of a file never says more than the file holds: the header
\* reads it first, and a DP is stored before it is counted.
CountBehind == file # NoFile => file.count <= Cardinality(Stored(file.image))

\* Once gSolved is set, by the key or by Ctrl+C, the program ends, whichever
\* system calls fail.
Ends == gSolved ~> ~Running
=============================================================================
