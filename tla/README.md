# A TLA+ verification of PSCKangaroo

PSCKangaroo looks for the discrete logarithm of a public key that is known to lie in an interval,
with Pollard's kangaroos on GPUs. The GPUs walk kangaroos and deliver *distinguished points* (DPs).
The host collects them in batches; worker threads put the DPs of TAME kangaroos (in ALL-WILD mode,
of WILDs of both types) into a very large in-memory table and look for the DPs of WILDs in it. A
match is a *collision*; closed formulas, or a baby-step giant-step search (BSGS) for the bits that
the packed table entries have lost, turn it into the key. The tables are saved to and restored from
a checkpoint file.

The interesting part of the program is the host: about thirty threads that share tables, lists,
flags and a file, for weeks, with hand-made locks. That is what the modules here are about.

Line numbers without a file name refer to `src/RCKangaroo_hunt_v2.cpp` ("hunt"), the main program.

## 1. Inventory

### DP store (`TameStore.h`)
- *State*: two open-addressing tables of 16-byte entries in two halves (`part1`, `part2`); a spin
  lock per shard of slots; per table `circular_mode_active`, `table_frozen`, `wild_count`,
  `table_overwrites`; the W-W buffer of ALL-TAME mode; the file of discarded DPs.
- *Operations*: `AddTame`, `CheckWild` (ALL-TAME), `CheckWildOnly` (ALL-WILD), `AddToTable`,
  `CheckWWBuffer`, `ReportCollision`; initialisation, saving and loading; export of DPs.
- *Called by*: the workers and the caller of `CheckNewPoints`.
- *Hard*: `AddToTable` locks the shard of the HOME slot only, but its probe sequence writes in any
  shard, so that a copy of an entry can be torn although its reader holds a lock. A table freezes, or starts to rotate, while calls are under way. The counters lag behind
  the slots. Searches take a lock per slot, not per search.
- *Correct if*: an entry is always reachable from its home (the searches stop at the first empty
  slot); a search passes over no colliding entry; the counters account for every slot; a table
  freezes only when a probe sequence is really full; every call returns its lock.

### DP pipeline (hunt 54-59, 134-698, 1097-1139, 1356-1516, 2040-2309)
- *State*: `pPntList` with `PntIndex`, its copy `pPntList2`, `gWorkQueue`, `gPendingChunks`, the
  flags `gSolved`, `gTrapPhase`, `gConcurrentTableFull`, `gWorkersRunning`, `gProcessingRunning`.
- *Operations*: `AddPointsToList` (GPU threads), `CheckNewPoints` (main loop in TRAP, processing
  thread afterwards), `WorkerThread` (12 of them), the switch from TRAP to HUNT, the end of the run.
- *Hard*: one copy shared by all chunks and reused by the next call; a caller that stops waiting
  when `gSolved` is set; the caller of `CheckNewPoints` changes at the switch; a WILD must not be
  filed as a TAME because a flag was read too late.
- *Correct if*: no DP is lost but with a batch that finds the list full, none is handled twice, the
  copy is never overwritten in use, every DP is handled in the end, and every thread ends.

### Collision resolution (hunt 70-87, 200-237, 590-690, 864-947, 1142-1351; `bsgs_resolve.h`)
- *State*: the one-place mailbox of the store (`has_collision` and the collision),
  `gCollisionBeingResolved` and its mutex, `gBSGSQueue`, `gPrivKey`, `gSolved`. The stored distance of a
  collision has lost its low 32 bits, its sign and what is above bit 136.
- *Operations*: a worker takes the flag, the collision and then tries the formulas; what they do
  not resolve goes to the bounded queue of the BSGS threads; the fallback path of `CheckNewPoints`
  does the same without flag or lock; Ctrl+C and the end of `SolvePoint`.
- *Hard*: reports race with their own clearing; two kinds of resolvers; the flag is reset by hand on
  every path; a full queue; the result is a plain object guarded only by the order of two writes.
- *Correct if*: one resolver at a time, no collision resolved twice, no candidate lost between two
  threads, `gSolved` only with a key, a real collision really gives the key, and the formulas are right up
  to what BSGS makes good.

### Checkpoints and main loop (`TameStore.h` 1300-1488, hunt 740-784, 1735-1770, 2040-2309)
- *State*: the table, the counters, the temporary file, the checkpoint file, the flags of Ctrl+C.
- *Operations*: `LoadCheckpoint`, automatic and last save, `CheckpointSignalHandler`, restart.
- *Hard*: any system call fails, the process dies at any point, workers store during a save, the
  handler of Ctrl+C interleaves with the main loop.
- *Correct if*: the file is always complete, never holds less than the one before it, holds all
  that was in the table when the save began, and the run ends when it should.

### GPU host (`GpuKang.cpp`, hunt 1069-1083 and 1940-2300)
- *State*: per GPU the host buffer `RndPnts`, the kangaroos on the device (point and distance),
  `LoopedKangs`, `Kparams` with `IsGenMode` and `AllWildsMode`, `StopFlag`, `Failed`, the output buffer.
- *Operations*: `Prepare`, `Start`, `Execute`, `Release`, `Stop` (GPU thread), `ReinitForHunt` (main
  thread, at the switch of phases and at every wave), KernelGen (start points).
- *Hard*: `ReinitForHunt` runs beside the kernels, on the same buffer and memory, with no lock; `Start`
  and `ReinitForHunt` place kangaroos by different rules; the label of a DP is computed from the index of
  its kangaroo; a CUDA call may fail anywhere.
- *Correct if*: a kangaroo lies at its distance, a DP carries the type of its kangaroo's start, TRAP
  files only TAMEs, nothing is used after `Release`, and the end is reached from everywhere.

### GPU kernels (`RCGpuCore.cu`)
- *State*: per kangaroo the point, the distance, its bit of `L1S2`, the list of jumps of a call, the last
  16 points, the table of 16 DPs, the table of the last distances; the shared output buffer.
- *Operations*: KernelA (walk, loops of size 2), KernelB (distances, DPs, longer loops), KernelC (way out
  of a loop).
- *Hard*: the walk knows no distances and the sum of distances knows no points: a DP's x and its distance
  are paired by order alone. A loop is inferred from distances, and left from a point that an index into
  a short list names. All tables are small and overflow.
- *Correct if*: point and distance still agree after every call, delivered DPs are true, and no loop of a
  size KernelB looks for goes unnoticed.

### The rest
Field and curve arithmetic (`Ec.cpp`, `RCGpuUtils.h`), collections and wrappers (`utils.cpp`: of its
own data structures the program uses none), command line and reports, build files, scripts, assets.

### How the parts meet

    GPU threads --AddPointsToList--> pPntList --CheckNewPoints--> pPntList2 --chunks--> workers
    workers --AddTame / CheckWild--> tables --ReportCollision--> mailbox
    mailbox --(flag, mutex)--> formulas --PushBSGSCandidate--> queue --> BSGS threads
    formulas, BSGS threads --> gPrivKey, gSolved --> every loop of every thread
    main loop --SaveCheckpoint--> file --LoadCheckpoint--> tables;  Ctrl+C --> flags

Everything that crosses from one box to the next is shared memory; `gSolved` is the one flag all of
them watch.

The hazards that follow from this, each at its line and with the properties that watch it, are
listed in `PROJECT.json`.

## 2. Plan

The order is by what would hurt most: the store runs for weeks and a fault in it is silent; the
pipeline feeds it; the resolution is what the run is for; the checkpoint is what survives it.

| # | Modules | Subject | State |
|---|---|---|---|
| 1 | `DpStore`, `TameStore`, `MCTameStore`, `TameStoreProofs` | the store, its abstract specification, refinement | done |
| 2 | `DpQueue`, `WorkPool`, `MCWorkPool`, `WorkPoolProofs` | from the GPU threads to the store, and the bounded queue it implements | done |
| 3 | `Bsgs`, `BsgsProofs` | what the baby-step giant-step search finds, exactly | done |
| 4 | `Resolver`, `MCResolver`, `ResolverProofs` | from a report to the key | done |
| 5 | `DurableSet`, `Checkpoint`, `MCCheckpoint`, `CheckpointProofs` | files, crashes, Ctrl+C, and the set that survives them | done |
| 6 | `Kernels`, `MCKernels`, `KernelsProofs` | pairing of points and distances, loops, small tables | done |
| 7 | `GpuHost`, `MCGpuHost`, `GpuHostProofs` | placements and labels, `ReinitForHunt` beside the kernels, failing CUDA calls | done |
| 8 | `Formulas`, `FormulasProofs` | truncated distances, the collision formulas, what BSGS makes good | done |
| 9 | `TameStore` with `Checkpoint` | freezing and the W-W buffer across a restart | not done: the product is too large for TLC |

Composition. `WorkPool` treats the store as "file, check or skip, and perhaps find the key";
`TameStore` takes any set of threads that hand it DPs, in any order; `Resolver` takes what the store
reports, and extends `Bsgs`; `Formulas` extends it too and says where the `delta` of a collision comes
from; `GpuHost` treats the walk of a call as one jump and `WorkPool` the GPU as a source of batches, while
`Kernels` opens the call for one kangaroo; `Checkpoint` reduces the store to a table that only grows.

Three abstract specifications say what a component promises the others: `DpStore` (`TameStore`
implements it for one thread, in both modes), `DpQueue` (`WorkPool` implements it) and `DurableSet`
(`Checkpoint` implements it, with or without failing loads). Still worth stating: one for the
resolution, "a report is overwritten, cleared unread or resolved once".

Every safety property of a passing run, the three refinements among them, is proved (section 7).

## 3. The modules and the code

Every action is named after the function, or the part of a function, that it models; the `map` in
`PROJECT.json` gives its lines. Control points (`pc`, `wpc`, `cpc`, ...) stand for the places at which
another thread may step in. Variables whose comment says "history" are in no guard: they remember what
the properties need.

### `TameStore` (and `DpStore`)
One step is one access to a slot, a lock, a flag or a counter.

- A DP is a record `[x, type, lo, hi, ext]`. An entry is what the code packs of it: `part1[t][s]` and
  `part2[t][s]` hold the DP each half came from, so that a mixture of two entries is visible. What two
  halves compare equal on is computed from their fields (`XSig`, the type in part 2, the distance bits
  in both).
- `AddTame` and `CheckWild` start a call. A search is `ScanEmpty`, `ScanReport`, `ScanDuplicate` or
  `ScanNext`, one slot each: `BeginCopy` takes the shard lock of that slot, when it is free (`Scanning`),
  and copies one word of the entry, whichever comes first; the step that ends the copy (`EndCopy`) reads
  the other word as it is then, gives the lock back, and goes by the copy. A writer from another shard may
  come in between. A word that is not written yet reads as a signature of 0, which a DP may have too.
- `AddToTable` is `Lock`, then `ProbeEmpty` / `ProbeDuplicate` / `ProbeNext` per slot, then either
  `PackPart1`, `PackPart2` (two stores, so searches and foreign writers come in between), or, when the
  sequence is full, `Freeze` or `ActivateRotation`, `SaveDiscarded` and the overwrite at home, and
  `Count`, which is after the unlock.
- `CheckWWBuffer` is `WWBegin` ... `WWStore`: in ALL-TAME mode a WILD that found no TAME looks for a WILD
  of the other type in the buffer and is put there.
- `ClearCollision` is the resolver's emptying of the mailbox; who does it when is `Resolver`'s subject.
- `owed[w]` is history: the complete, colliding entries that were in the table, on the search's own
  probe sequence, when the search of `w` began. It is what `NoMissedEntry` is about.

`DpStore` is the abstract specification: sets of stored DPs, the set of WILDs remembered in the W-W
buffer, and one indivisible answer per DP: `Report`, `Keep`, `DropTwin` or `DropFull`, and in ALL-TAME mode
`ReportBuffered` or `Remember` for a WILD that collides with no TAME. `TameStore` implements it under the
substitution at its end (`Abs`): a DP is pending until its call has decided, an entry is stored with its
second half.

### `WorkPool`
One step is a critical section of `csAddPoints` or `gWorkMutex`, or the handling of one DP.

- GPU threads: `Kernel` (a batch of DPs), `AddPointsToList`, `GpuExit`.
- `CheckNewPoints(c)`, for the caller `c`, is `CheckEmpty` or `Copy`, then `Dispatch` (chunks) and
  `WaitDone`, or `Fallback` and `SingleStep` ... `SingleDone`.
- `WorkerThread(w)` is `WorkerTop`, `WorkerNothing` or `WorkerTake`, `WorkerStep` per DP, `WorkerDone`.
- `processing_thread` is `ProcTop` and `ProcTail`. `SolvePoint` is `MainTop`, `MainTail`, `Switch`,
  `ReinitForHunt`, `StartProcessing`, and after the loop `StopProcessing`, `StopWorkerThreads`,
  `StopGpus`, `Return`. `OtherSolves` is any `gSolved` from outside the pipeline (BSGS, Ctrl+C).
- A DP has an `id`, the kind of kangaroo that made it (`gen`) and its `label`. They differ: in TRAP
  every kangaroo is a TAME, and the label still comes from the kangaroo's index.

`DpQueue` is the abstract specification: a batch is made (`Yield`), taken whole (`Take`) or dropped whole
(`Drop`, only when it would bring the queue to half its size, which is `MAX_CNT_LIST`), a DP that was
taken is processed once, in any order, and abandoned only when the key is known. Its queue is what
`Places` finds outside the GPUs: `pPntList`, the copy as far as it is not handled, `gWorkQueue`, the
chunks in the workers' hands (`Queue` at the end of `WorkPool`).

### `Bsgs`
A point is its discrete logarithm, so the search is arithmetic on integers. What the module adds to
arithmetic is the precondition of `AddPoints` (`Ec.cpp`): two points with one x cannot be added, and the
result of trying is of no use from there on. `BSGS_ResolveKey(key, delta)` says, exactly, from which errors
of the approximation the key is found. As in the code the candidate is verified by its x alone
(`Verified`), so that the opposite of the key would pass, and the search starts from a wrong point when the
approximation is not positive (`Multiplied`): `MultiplyG` takes the words of the number as they are, modulo
2^256 and not the order of the group, and has no point for 0.

### `Resolver`
One step is one access to a shared variable. A collision is `[id, real, delta]`: a false positive or a
real one, and how far the truncated distances are off.

- `WorkerThread(w)`: `CheckWild` (`Report` or `StillThere`: a check also returns true when it finds an
  old report in the mailbox), `CompareExchange`, `LockMutex`, `Recheck`, `GetCollisionData`,
  `ClearCollision`, `Formulas`, then `Push` or `RangeCheck` and `Publish`, then `Unflag`, `UnlockMutex`.
- `CheckNewPoints` (the fallback path): `FallbackCheck` ... `FallbackClear`. It takes neither flag nor
  mutex, and clears the mailbox last. It runs only while no worker resolves (`PoolIdle`), which is what
  `WorkPool` shows of the two paths.
- `BSGSConsumerThread(b)`: `BsgsTop`, `BsgsTake`, `BsgsGot`, `BsgsSearch`, `BsgsPublish`, `BsgsCount`.
- `Interrupt`, `InterruptSolved` (the two stores of the handler), `StopBSGSThread`, `SolvePointReturns`.

### `Checkpoint`
One step of the main thread is one system call or one look at a flag; the slots are written one by one
while workers go on storing (`StoreDP`, `CountDP`), except in TRAP.

- `LoadCheckpoint`, `ResetSolved`, `LoopHead`, `CheckNewPoints`, `AutoCheckpoint`, `SaveAndExit`,
  `Teardown`; `SaveCheckpoint` is `OpenTmp`, `WriteHeader`, `WriteSlot`, `Sync`, `Rename`, or
  `SaveFails` at any of them.
- `Interrupt`, `InterruptSave`, `InterruptSolved`: the stores of `CheckpointSignalHandler`; a second
  Ctrl+C is `ForceExit`.
- `Crash` takes the memory, and of an unsynced file all but a prefix. `Restart` is the user's.

`DurableSet` is the abstract specification: a set of DPs in memory that dies with the process and a saved
one that does not. A save begins, and later publishes in one step a set between what memory held then and
holds now, or is given up; a process starts with the saved set, or a part of it if loads may fail.

### `Kernels`
One kangaroo, two calls of the three kernels; one step is one iteration of a kernel's loop.

- A point is the distance at which it lies from the kangaroo's start. What the code reads off the
  coordinates of a point (the index of the jump, the parity of y, whether it is a DP) is its `hash`:
  arbitrary, chosen when the point is first met and the same ever after. So a walk that comes back to a
  point goes on as it did before, and nothing else is assumed of the curve.
- `Execute` clears the tables and counters of a call. `KernelA` is one jump: the point, the mode `L1S2`
  (a jump that the next one would take back makes the next one use `Jumps2`), the DP table, the list of
  jumps, the list of last points. `ProcessJumpDistance` is KernelB's step: the distance, the table of
  distances, the sizes it finds repeated, `BuildDP`. `SkipLooped` is its step for a looped kangaroo,
  `KernelBEnd` turns the table for the next call, `KernelC` makes the jump out of a loop.
- `OtherDP` is KernelB of all other kangaroos, which share the output buffer. Beyond the buffer every
  thread writes the last record, whose words then are anybody's (`WriteDP`).
- The code compares the low 64 bits of distances, the model distances. `hash`, `path`, `base`,
  `mistaken`, `drift` are history or the choice of the world: `mistaken` is set when KernelB takes for a loop
  what is none, `drift` is what the kangaroo is off its distance since KernelC left such a loop; the rest is memory of the device.

### `GpuHost`
The GPU thread (`gpc`) and the main thread (`mpc`). A copy, a memset or a kernel is one step: the program
uses the default stream, so what the two threads ask of the device runs one after the other, in any
interleaving.

- A point is a base (`"G"` for none, `"A"` for PntA, `"B"` for PntB, `"none"` before KernelGen) and a
  multiple of G. It is the kangaroo's if the multiple is its distance, and of its type if the base is.
- Main thread: `Prepare`, `CreateThread`, `ReinitPlace` ... `ReinitClear` (or `ReinitFails`), `Switch`,
  `Wave`, `SaveAndExit`, `LoopEnds`, `Stop`, `Join`. In ALL-WILD mode `ReinitForHunt` comes before the
  thread exists.
- GPU thread: `StartPlace` ... `StartClear` (or `StartFails`), then `Launch`, `KernelA`, `KernelB`,
  `KernelC`, `ReadDPs` (or `ReadFails`), until `SeesStop`; `Release`, `ThreadEnd`.
- `kp` is the copy of `Kparams` a call was launched with; `torn` and `stale` are history and name the
  windows in which the threads harm each other.
- Half a placement never shows: `RndPnts` is filled in one step, and `mixed` marks that the other thread
  filled it again before the copy.

### `Formulas`
Definitions only. `PackWild`, `CheckXSigMatch` and `Signed` are what becomes of a distance between the
DP and the formula, over three sizes (2^32, 2^136 and 2^176 in the code). `WorkerKeys`, `Collision_SOTA`
and `FallbackKeys`, `Approximations` are the sets of keys the three places of the code try. A point is its
logarithm, as in `Bsgs`. The endomorphism is left out: `BuildDP` writes no transform into a DP, so that
`Collision_SOTA_Endo` adds nothing, and the further exponents `Collision_BSGS` goes through can only find
more.

## 4. The runs

Twelve runs, one question each: nine pass, the last three must find a violation.

| Run | Question | Distinct states |
|---|---|---|
| `store_wild` | Three threads store and search in ALL-WILD mode, with probe sequences that cross in a foreign shard. Are the chains without holes, do searches miss nothing, does no table hold two entries of one key, do the counters account for every slot? | 579 thousand |
| `store_tame` | ALL-TAME mode with rotation, two threads. Does a table rotate only when a sequence is full, when is a report put together from two entries, does the W-W search pass over no partner, does every call return? | 132 thousand |
| `store_seq` | One thread, as in the fallback path, in ALL-TAME mode with the W-W buffer: is the store the abstract set of DPs, is `wild_count` exact between calls? | 157 thousand |
| `pool_trap` | TRAP, switch, HUNT: is the copy reused only when free, is no DP lost, doubled or misfiled, is the whole a bounded queue? | 134 thousand |
| `pool_live` | Concurrent mode, two GPUs: is every DP handled, does every thread end? | 148 thousand |
| `resolver_race` | Two workers, the fallback caller, a BSGS thread and Ctrl+C on a mailbox and a queue of one: flag, mailbox, queue and results. TLC evaluates the instances of `Formulas` with it. | 114 thousand |
| `checkpoint` | Crashes, failing calls, Ctrl+C and a restart: what does the file hold, is it a durable set, does the run end? | 129 thousand |
| `kernels` | Every pattern of short loops, DPs and ways out over two calls: does a kangaroo stay at its distance, are delivered DPs true, is every loop noticed? | 3.7 million |
| `gpu_host` | TRAP and concurrent mode, a switch, waves, failing CUDA calls, the end: outside which windows are kangaroos, labels and memory right, does the program end? | 590 thousand |
| `store_rot_limit` | Do searches miss nothing in a rotating table? *No.* | |
| `checkpoint_regress` | Does a checkpoint keep what its predecessor held if a load can fail? *No.* | |
| `gpu_labels` | Do labels and start points agree in ALL-WILD mode? *No.* | |

The properties of each run are in its `.cfg`; the comment at each property says what it means.

## 5. Bounds, and why they are enough

*Store.* 4 slots in 2 shards and 2 tables, 2 or 3 probes, 5 to 8 DPs, up to 3 threads. The hazards of
this code need a probe sequence that leaves its home shard (slots 1, 2 with a shard boundary between
them), two sequences that meet in one slot from different homes, a full sequence, and a third thread that
searches meanwhile; all are in these instances. Five values of x, one of them with the signature 0 that an
unwritten word has, suffice for twins, for two x of one
home, for two x of one signature and different homes, and for one at home in a foreign shard. `RotProbe`
is 1 against a `MaxProbe` of 2, as 16 is against 256. `store_seq` takes nine DPs that make every
disjunct of `DpStore` happen, the W-W buffer of two slots included; the proof covers ALL-WILD mode too.

*Pipeline.* 2 workers; batches of 2 and 3 against a list of 4, so that batches are refused; a copy of 3
DPs makes uneven chunks, one of 2 falls back to the caller's own loop (`WorkerMin` 2). In `pool_live`
every copy is cut into chunks. `MaxDps` bounds the DPs of a behaviour.

*Resolution.* Two workers suffice for a race for one flag; the third party is the caller, the fourth the
BSGS thread. Three collisions on a queue of one make it drop its oldest. 3 baby steps and 2 giants give
the search every case of its range; `BsgsProofs` covers all sizes. `Formulas` is evaluated with distances
of up to 96 that keep the multiples of 6 below 24, over every key of the range: each formula, each sign
and a loss of every size occurs; `FormulasProofs` covers all sizes.

*Checkpoint.* 3 slots, 2 DPs with the last slot as their home: the second wraps to the first slot, behind
the writer of the file. Two starts: what a load can harm shows at the first restart.

*Kernels.* `StepCnt` 18 and `MdLen` 6 stand for 1000 and 10: a call is a multiple of the table, loops of 4
and 6 fit in it, and there are steps enough after a loop for the index of KernelC to matter. Points 2 to 6
have any hash (so any walk begins), the seventh and those around the border of the calls may close a loop;
DPs are at three places against tables of 3 records, so that both overflow. Two calls: what a call leaves
behind is the kangaroo and the table of distances, and the second call reads both. The jump distances are
far enough apart that different sums are different, as those of the code are but for a negligible chance.

*GPU host.* Seven kangaroos, of which two may be looped: each third has kangaroos of both parities, and
as 3 does not divide 7, each border between two thirds has the kangaroo whose label and start disagree. Two calls of
the kernels and a wave beside the switch: a window needs one placement and one call that overlap, and its
repair one more of each. Jumps and draws are numbers whose sums tell what was added.

*Symmetry.* `Threads` and `Workers` are symmetric in the runs without liveness; `Next` treats them alike
and no constant singles one out.

*Deadlock.* The systems here stop: the store when all DPs are dealt with, the program when it has ended.
Hence `CHECK_DEADLOCK FALSE`; that nothing stops too early is `Termination`, `Handled`, `Shutdown`,
`FlagReset`, `MailboxDrained` and `Ends`. In `kernels` the bound on calls ends a behaviour.

## 6. Fairness

Weak fairness per thread, for what the operating system's scheduler gives: each `Step(w)` of the store,
each GPU thread, worker, the processing thread and the main thread (in `GpuHost`, `SolvePoint` and
`Execute \/ ThreadEnd`; not the switch, a wave or Ctrl+C). A signal handler that has begun ends.
A worker of `Resolver` goes on calling `CheckWild` while the key is unknown, because the GPUs deliver DPs
as long as they run; `MailboxDrained` needs that, and nothing else does.

No fairness is assumed for what need not happen: that the key is found, the table fills, a system or CUDA
call fails or succeeds, Ctrl+C is pressed, a collision is reported. One assumption about time is in the model
rather than in fairness: `Sleep(200)` before the workers are stopped is long enough for chunks under way
to be given up, as the code relies on.

## 7. What is proved

The theorems hold for every value of the constants that satisfies the named assumptions:
`StoreAssumption`, `PoolAssumption`, `BsgsAssumption`, `FormulasAssumption`, `ResolverAssumption`,
`CheckpointAssumption`, `KernelsAssumption`, `HostAssumption`. They say what the code's own constants and
types say (sizes are positive, a DP has one of three types, the marker values are not data), and TLC evaluates them in the runs. Each proof finds an inductive invariant,
has one lemma per part of it (`...Step`, one case per action), and ends in a few lines of temporal logic.

- **`TameStoreProofs`**, for any number of threads, tables of any size, any probe limit.
  `NoHolesCorrect`: no slot is ever emptied (`TablesGrow`), so occupied chains stay occupied
  (`ChainGrows`); a thread about to write has seen its chain (`ChainInv`), and that does not depend on
  the lock, which is why meeting in a foreign shard does no harm to chains. `FullChainCorrect` is the
  same chain at its end. `HomeExclusionCorrect` rests on `LockInv`. `NoMissedEntryCorrect`, with
  rotation off: an owed entry is never overwritten by a DP still under way (`SettledInv`), and lies ahead
  of the search or is gone (`OwedInv`). Rotation is excluded because the property is false there (see
  section 9). `NoMissedWWCorrect` is the same debt in the W-W buffer, where it lies in the one slot that
  the search reads first (`WWInv`).
  `MixedCorrect`: a thread between its two stores holds its home shard,
  so what it finds of another DP in its slot was written from another shard (`Writer`), and two halves of
  one shard differ only while a thread overwrites its home slot (`SlotMix`). A search that has one word holds
  the lock of the slot's shard, so whoever writes in the slot before it has the other comes from another
  shard (`CopyInv`, `WritersAway`). An unwritten word counts as one of the slot's shard; nothing is assumed
  of signatures. `CountBoundCorrect` counts, step by step, the
  slots in use against the threads between store and count; it is the one that needs `Threads` finite.
  `StoreRefines` and `CountExactCorrect` are about one thread without rotation
  (`OneThread`), in both modes. `Knows` says what that thread has learnt at each control point: the slots it has passed
  over (`Passed`), that nothing need be reported (`NothingOwed`), that its key is not in the table; and a
  search that has met an empty slot or gone down its whole sequence has seen every entry of its DP's key,
  since entries have no holes before them (`KeyUnseen`). `WholeInv` adds that entries are whole but for the
  one being written, and distinct. Each step is then one answer of `DpStore` or none. In ALL-TAME
  mode a WILD that found no TAME goes to the W-W buffer, where `BufferInv` says that whatever lies in a slot
  has it as its first place, so that `wwscan` meets the one WILD the abstract buffer remembers there. A DP may be dropped
  for want of room only if the table holds at least `MaxProbe` DPs (`FullStored`), which needs the slots of
  one probe sequence to differ: the theorem assumes `Tri(MaxProbe - 1) < TableSize`, where `Tri(p)` is
  p(p+1)/2, and a table of the program has far more than the 32640 slots this asks for at 256 probes
  (`SlotsApart`). `CountInv` counts the slot in hand between packing and counting.
  `NoTwinsCorrect` is for any number of threads: two threads with twins have one home, so one lock; the
  thread that holds it has seen no entry of its key on the slots it passed (`UnseenOf`), and nobody else
  puts one there meanwhile, also where the slots belong to other shards. `LocksHeldCorrect`: a lock that is
  taken belongs to a thread in its critical section or to a search that copies an entry, whose steps ask for no other lock, so there is no
  circle of waiting. `CallsEndCorrect`: a call has `StepsLeft`, at most `CallBound`, which each step of its
  own thread lowers and no other touches. The two are the safety half of `Termination`, for all sizes.
- **`WorkPoolProofs`**, for any number of workers and GPUs and any sizes. `ChunksPartition`: chunks cover
  each index of the copy exactly once. `PendingCorrect`, `OneCallerCorrect`, `BufferReuseCorrect` and
  `WildNeverFiledCorrect` from `TypeOK`, `PendingExact`, `CallerInv` (which caller may be where),
  `WaitInv` (chunks exist only while a caller waits), `BoundsInv` (indices lie in the copy) and `KindInv`
  (no WILD exists before the switch has cleared `gTrapPhase`). `ConservationCorrect`: `Fate` says what a step
  may do to one DP (leave it, move it to one other place, handle it, make it, or, once the key is found,
  lose it), one lemma per action proves it, `ChunksPartition` being what `Dispatch` needs, and `KeptInv`
  (one place, handled at most once, no number twice in the copy) follows. `QueueRefined` turns these fates
  into steps of `DpQueue` (`QuietFate` for the steps that only move DPs, `QueueHandle`, `QueueYield`,
  `QueueAdd`); the two bounds need that what is queued stands in the list or in the copy (`QueuedCount`), the
  copy being no longer than a list (`CopyFits`), and that a list without a number twice has as many numbers
  as it is long (`NumbersCount`). `QueueOnceEach` is what `DpQueue` gives for a single DP.
  `NoStarvedWaitCorrect`: the wait in `CheckNewPoints` has no timeout; `PendingExact` says that there is a
  chunk behind it, `StopInv` that no worker has ended before the key was found.
- **`BsgsProofs`**. `ResolvesExactly`: for all sizes, `BSGS_ResolveKey(key, delta)` holds exactly
  when `delta` is in the range, no negative multiple of `BabySteps` and less than the key. The comparison of
  the x lets nothing else pass: a baby step that hits with the wrong sign makes a candidate above the key
  (`VerifiedIs`). The witness upwards and downwards comes from a
  division with remainder (`Split`, `FoundUp`, `FoundDown`).
- **`ResolverProofs`**, for any number of workers and BSGS threads and any collisions. `FlagCorrect`,
  `ResolvedOnceCorrect`, `KeyCorrect`, `KeptCorrect` from `HandInv` (what each control point holds),
  `MailInv` (a collision in the mailbox that was taken is in one resolver's hand, and will be cleared)
  and `KeyInv` (whoever sets `gSolved` has written the key). `KeyGenuineCorrect` adds where the key came
  from: a report that was taken out of the mailbox and resolved by the formulas or, through the queue, by the
  search (`TakenInv`); nobody but the fallback path announces a key out of range. `MutexCorrect`: one holder,
  and it waits for nothing. `ResolutionEndsCorrect`: a resolution takes ten steps at most
  (`ResolutionLeft`), the safety half of `FlagReset`.
- **`CheckpointProofs`**, for any table, any DPs and any number of restarts. `TableInv` (counters behind
  the table), `FileInv` (a published file is complete and synced), `SaveInv` (the slots written so far,
  followed by the table's own remaining slots, hold what was there when the save began), `QuietInv` (in
  TRAP nothing is stored meanwhile), `RegressInv` (the table holds what the file holds).
  `NoRegressCorrect` assumes `~ReadsFail`: with failing loads it is false (section 9). `DurableRefined` needs
  no such assumption: each step of the run is a step of `DurableSet` or none, a published file being
  bounded from below by what was in the table when the save began (`SaveInv`) and from above by the table.
  `DurableGains` is what the abstract set then promises without failing loads.

- **`KernelsProofs`**, for any jump tables, any call length, any sizes and any hashes, over any number of
  calls. `ConsistentCorrect`: after KernelB has found a loop the distance stops while the walk has gone
  on to the end of the call, so point and distance differ until KernelC repairs them, which it can only if
  the point it jumps from is the one at the distance KernelB stopped at. That `Consistent` is preserved
  therefore cannot be seen from it. `IInv` keeps the path of the walk as history: the walk is a function of
  where and in which mode it is (`WalkInv`), hence, once it repeats, it repeats for ever (`LoopAt`), and
  the list of last points holds the point of the loop the index names (`ListInv`, `LoopLeft`); and as long
  as no loop is found the distance is the point of the path at the same step (`SumInv`). Both properties say what is left of this when KernelB has mistaken something for
  a loop: the point KernelC jumps from is `drift` away from the distance, and so is every point after it.
  `DeliveredCorrect` adds
  `DpInv`: the k-th DP of KernelA's table and KernelB's k-th DP are the same step of the path, because the
  list of jumps has carried the mark (`NumInv`, `BuiltInv`, `OutInv`).
  `LoopsNoticedCorrect` needs no agreement of point and distance, only that they move alike (`NextJump`):
  the table holds, for each of the last points, the distance less the way from there (`TableInv`), also
  when it has been turned at the border of two calls (`Border`), so a point that comes again is a distance
  that comes again.
- **`GpuHostProofs`**, for any number of kangaroos, any jumps, any random numbers and any bounds, in all
  three modes. `IInv` is `Control /\ Data /\ Windows`. `PointsTrue` and `DPsRight` speak of two control
  points and of the flags of a call; the invariant says for every control point of both threads what is on
  the device (`Points`, `Kinds`, `Outputs`: during a placement, after KernelA with the points moved and the
  distances not, between KernelB and KernelC with the looped ones behind) and what the history variables
  must say if it is not so (`TornThere`). One lemma per action. `Thirds` compares
  `3*i \div KangCnt` with the comparisons with `KangCnt \div 3` for every `KangCnt`: they name the same thirds,
  but for the first kangaroo of the second and of the third when 3 does not divide `KangCnt`, which has the
  label before. `DPsRightCorrect` therefore needs nothing of `KangCnt` but three kangaroos at least. `NoUseAfterReleaseCorrect`: `Release` comes after
  `StopFlag`, which the main thread sets only when it will place no more, or after an error is counted.
- **`FormulasProofs`**, for any range and any sizes that are multiples of each other as those of the code
  are. With `e` the low bits of the stored distance: it comes back as the distance less `e` (`RoundTrip`,
  from the uniqueness of quotient and remainder), the formula for the type and for the sign of the point
  is then off by `e` or `-e`, for two WILDs by half of it, and `ResolvesExactly` says that BSGS finds that
  (`LowFound`), but for the negative multiples of `BABY_STEPS` and for keys no greater than `e`. This gives `TameWildResolved` and
  `WildWildResolved`; the latter needs distances that are even, as `DPsRight` says they are, and the two
  WILDs on the same point, as opposite points cancel the key. `FallbackTriesAll` compares the two sets of
  keys. `SignLost` says what the first two theorems exclude: a negative stored distance comes back
  positive, off by about 2^136, and `NegativeInstances` (`MCResolver`) shows that the collision is lost.

## 8. What is only model-checked

Liveness (`Termination`, `Handled`, `Shutdown` of the pipeline and of the GPU host, `FlagReset`,
`MailboxDrained`, `RealSolves`, `Ends`), which is beyond the prover. What of it can be said of single steps
is proved: no call of the store and no resolution goes round in circles (`CallsEndCorrect`,
`ResolutionEndsCorrect`), no lock is waited for in a circle (`LocksHeldCorrect`, `MutexCorrect`), nobody waits
for a worker that has ended (`NoStarvedWaitCorrect`). What is missing is that a thread is scheduled again.

The other way round, some theorems state properties that no run lists, because each says more about the
argument than about an outcome, or follows from one that a run has: `OneCaller`, `NoStarvedWait`,
`LocksHeld`, `CallsEnd`, `HomeExclusion`, `MutexExact`, `ResolutionEnds`, `KeyGenuine`, `CountBehind`,
`SnapshotComplete`. Listed in the run of its
component, TLC finds each of them true there too.

## 9. Where the code and its documentation disagree

1. `store_rot_limit`: once a table rotates, `CheckWildOnly` limits its search to 16 probes (`TameStore.h`
   898), while the fill phase stored at up to 256. Entries beyond are not found any more.
2. `checkpoint_regress`: after a failed load the run goes on "fresh" with the same file name, and the
   next save replaces the good checkpoint (hunt 1758).
3. `gpu_labels`: in ALL-WILD mode `ReinitForHunt` places the kangaroos by parity before the GPU threads
   exist; their `Start` then places them by thirds, TAMEs included, while labels go on by parity
   (`GpuKang.cpp` 613, 617). The kangaroos of the first wave are misplaced or mislabelled until the next.

What the models show besides, and no run denies:

- The BSGS search misses errors that are a negative multiple of `BABY_STEPS`: on the way down it meets the
  point at infinity, which `AddPoints` cannot form (`bsgs_resolve.h` 147). `ResolvesExactly` makes this
  exact, and `RealSolves`, `TameWildResolved` and `WildWildResolved` except it. They also except a key so
  close to the start of the range that an approximation of it is not positive (`MissedInstances` of
  `MCResolver` has both).
- `PackWild` keeps neither the sign of a distance nor its bits from 136 on (`TameStore.h` 291).
- Ctrl+C between the look at `gSaveAndExit` (2230) and the loop condition (2047) ends the run without a
  last save.
- KernelB takes a repeated distance for a loop even if the kangaroo was there in the other mode
  (`L1S2`), from where the walk goes on differently; KernelC then jumps from a point that is not the one at
  the distance, and the kangaroo is off from then on, with every DP it delivers. `mistaken` and `drift`
  follow this in `Kernels`; it needs a point
  that is left once with `Jumps1` and reached again within `MD_LEN` steps in the mode for `Jumps2`, which
  the run `kernels` meets. `Dbg_CheckKangs` (`GpuKang.cpp` 428) would report such a kangaroo.
- `ReinitForHunt` beside running kernels tears kangaroos in the windows listed at `PointsTrue`; what is
  torn lasts until the next wave. A wave between two calls does no harm.
- "All reads under shard lock to prevent torn reads!" (`TameStore.h` 1012): the lock a search holds (1032,
  904) is that of the slot, a writer holds that of its home slot (773), and when the two are of different
  shards the copy of 16 bytes may be torn. Stated for the instance of `store_tame`, "the two words a search
  has copied are of one entry" fails in a behaviour of 14 states, and a report that is put together from two
  entries comes after 17. `MixedOnlyAcrossShards` is what remains true of the comment; it has no run
  of its own that must fail.
- Use after free: when a copy to the host fails, `Execute` leaves its loop (`GpuKang.cpp` 496, 512) and
  `Release` frees `RndPnts` (550), but not having been stopped the GPU keeps its place in `GpuKangs`, and the
  main loop's next switch or wave calls `ReinitForHunt`, which writes to it (337, 617-622). `NoUseAfterRelease`
  excepts a run in which a CUDA call has failed, because of this.
- Unless 3 divides the number of kangaroos (old GPUs with groups of 16, 32 or 64 points), `BuildDP` labels
  the first WILD1 as a TAME and the first WILD2 as a WILD1 (`RCGpuCore.cu` 499 against `GpuKang.cpp` 401).

## 10. What is not modelled, and why

- 256-bit field and curve arithmetic (`Ec.cpp`, `RCGpuUtils.h`): numbers out of a model checker's reach.
  Its contracts appear where they matter: points as logarithms, and the precondition of `AddPoints` in
  `Bsgs`.
- Of the kernels: the layout of memory, the batch inversion;
  distances are integers without overflow (192 bits in the code). Kangaroos are independent but for the
  output buffer, so `Kernels` has one.
- Of the GPU host: the sizes of buffers and their allocation (`Prepare` succeeds or fails), old GPUs' L2
  settings, statistics, the debug check. One GPU: GPUs share only
  `AddPointsToList` and `gTotalErrors`, the former is in `WorkPool`.
- The parts of `CheckWild` for two tables cannot run: the program calls it only when the store was
  initialised in ALL-TAME mode. The endomorphism path is switched off: no DP carries a transform. Neither
  is modelled.
- Freezing and the W-W buffer across a restart: each half is in a module of its own (`TameStore`,
  `Checkpoint`).
- `ExportRAMToSavedDPs`, the savedps file, statistics, reports, the command line: output and parsing.
- `TFastBase` and `MemPool` (`utils.cpp`) are not used by the program.
