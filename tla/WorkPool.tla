------------------------------ MODULE WorkPool ------------------------------
(***************************************************************************)
(* The path of a distinguished point from the GPU threads to the store     *)
(* (RCKangaroo_hunt_v2.cpp): AddPointsToList fills pPntList,               *)
(* CheckNewPoints copies it to pPntList2 and either walks the copy itself  *)
(* or cuts it into chunks for the worker threads. In TRAP the main loop    *)
(* calls CheckNewPoints; at the switch to HUNT the processing thread takes *)
(* over. The end of the main loop tears all of this down.                  *)
(*                                                                         *)
(* Granularity: a critical section (csAddPoints, gWorkMutex) is one step,  *)
(* and so is the handling of one DP. What the store does with a DP is      *)
(* TameStore's subject; here it is only filed as a TAME, checked as a WILD *)
(* or skipped, and any handling may find the key.                          *)
(***************************************************************************)
EXTENDS Integers, Sequences, FiniteSets

CONSTANTS
  Workers,      \* the worker threads (NUM_WORKER_THREADS of them)
  Gpus,         \* the GPU threads
  Mode,         \* "trap" (ALL-TAME), "concurrent" or "allwild"
  ListCap,      \* MAX_CNT_LIST
  WorkerMin,    \* a copy of more DPs than this is cut into chunks (5000)
  MinChunk,     \* the smallest chunk aimed at (50)
  BatchSizes,   \* the numbers of DPs a kernel call can yield
  MaxDps        \* bound: DPs generated in a behaviour

Main == "main"
Proc == "processing_thread"
Callers == {Main, Proc}
NumWorkers == Cardinality(Workers)

ASSUME PoolAssumption ==
  /\ IsFiniteSet(Workers) /\ Workers # {}
  /\ Mode \in {"trap", "concurrent", "allwild"}
  /\ {ListCap, MinChunk} \subseteq Nat \ {0}
  /\ WorkerMin \in Nat /\ MaxDps \in Nat
  /\ BatchSizes \subseteq Nat \ {0}

VARIABLES
  gSolved, gTrapPhase, gConcurrentTableFull,
  gWorkersRunning, gProcessingRunning, StopFlag,
  pPntList,        \* the DPs in pPntList; PntIndex is its length
  pPntList2,       \* the DPs of the last copy
  gWorkQueue, gPendingChunks,
  cpc, cnt, idx,   \* per caller of CheckNewPoints: control point, cnt, i
  wpc, chunk,      \* per worker: control point, its chunk (start is i)
  gpc, wildsOnly, out,   \* per GPU: control point, AllWildsMode, DPs of the last kernel
  made,            \* number of DPs generated
  dropped, filed, checked, skipped,  \* history: what became of the DPs
  handled          \* history: how often a DP was handled

flags   == <<gSolved, gTrapPhase, gConcurrentTableFull, gWorkersRunning,
             gProcessingRunning, StopFlag>>
lists   == <<pPntList, pPntList2>>
work    == <<gWorkQueue, gPendingChunks>>
callers == <<cpc, cnt, idx>>
workers == <<wpc, chunk>>
gpus    == <<gpc, wildsOnly, out, made>>
fates   == <<filed, checked, skipped, handled>>
vars == <<flags, lists, work, callers, workers, gpus, dropped, fates>>

\* A DP: a number, the kind of the kangaroo that found it, and the kind
\* BuildDP wrote beside it.
Ids  == 1 .. MaxDps
Kind == {"TAME", "WILD"}
Dps  == [id : Ids, gen : Kind, label : Kind]
NoChunk == [start |-> 0, end |-> 0]

-----------------------------------------------------------------------------
(* How CheckNewPoints cuts n DPs into chunks (indices from 0).             *)
NumChunks(n) ==
  IF n \div NumWorkers < MinChunk
  THEN IF n \div MinChunk > 1 THEN n \div MinChunk ELSE 1
  ELSE NumWorkers

ChunkSize(n) == n \div NumChunks(n)

ChunkEndShort(n, c) == c * ChunkSize(n)
ChunkEndLong(n, c)  == IF c = NumChunks(n) THEN n ELSE c * ChunkSize(n) + 1
ChunkEnd(n, c) == IF c = NumChunks(n) THEN n ELSE c * ChunkSize(n)
Chunks(n) ==
  [c \in 1 .. NumChunks(n) |-> [start |-> (c - 1) * ChunkSize(n), end |-> ChunkEnd(n, c)]]

-----------------------------------------------------------------------------
Init ==
  /\ gSolved = FALSE
  /\ gTrapPhase = (Mode = "trap")
  /\ gConcurrentTableFull = FALSE
  /\ gWorkersRunning = TRUE
  /\ gProcessingRunning = (Mode # "trap")
  /\ StopFlag = FALSE
  /\ pPntList = <<>> /\ pPntList2 = <<>>
  /\ gWorkQueue = <<>> /\ gPendingChunks = 0
  /\ cpc = [c \in Callers |-> IF c = Proc /\ Mode = "trap" THEN "off" ELSE "top"]
  /\ cnt = [c \in Callers |-> 0]
  /\ idx = [c \in Callers |-> 0]
  /\ wpc = [w \in Workers |-> "top"]
  /\ chunk = [w \in Workers |-> NoChunk]
  /\ gpc = [g \in Gpus |-> "kernel"]
  /\ wildsOnly = [g \in Gpus |-> Mode = "allwild"]
  /\ out = [g \in Gpus |-> <<>>]
  /\ made = 0
  /\ dropped = {}
  /\ filed = {} /\ checked = {} /\ skipped = {}
  /\ handled = [i \in Ids |-> 0]

-----------------------------------------------------------------------------
(* The GPU threads: RCGpuKang::Execute and AddPointsToList.                *)

\* The DPs of one kernel call. All kangaroos are TAMEs while gGenMode holds
\* (TRAP), yet BuildDP derives the label from the index of the kangaroo.
Kernel(g) ==
  /\ gpc[g] = "kernel"
  /\ ~StopFlag
  /\ \E n \in BatchSizes, label \in Kind :
       /\ made + n <= MaxDps
       /\ wildsOnly[g] => label = "WILD"
       /\ LET gen == IF Mode = "trap" /\ ~wildsOnly[g] THEN "TAME" ELSE label
          IN out' = [out EXCEPT ![g] =
                      [j \in 1 .. n |-> [id |-> made + j, gen |-> gen, label |-> label]]]
       /\ made' = made + n
  /\ gpc' = [gpc EXCEPT ![g] = "add"]
  /\ UNCHANGED <<flags, lists, work, callers, workers, wildsOnly, dropped, fates>>

ListFullBefore(n) == Len(pPntList) >= ListCap
ListFull(n)     == Len(pPntList) + n >= ListCap

\* A batch that does not fit is dropped whole.
AddPointsToList(g) ==
  /\ gpc[g] = "add"
  /\ IF ListFull(Len(out[g]))
     THEN /\ dropped' = dropped \cup {out[g][j] : j \in DOMAIN out[g]}
          /\ UNCHANGED pPntList
     ELSE /\ pPntList' = pPntList \o out[g]
          /\ UNCHANGED dropped
  /\ out' = [out EXCEPT ![g] = <<>>]
  /\ gpc' = [gpc EXCEPT ![g] = "kernel"]
  /\ UNCHANGED <<flags, pPntList2, work, callers, workers, wildsOnly, made, fates>>

GpuExit(g) ==
  /\ gpc[g] = "kernel"
  /\ StopFlag
  /\ gpc' = [gpc EXCEPT ![g] = "end"]
  /\ UNCHANGED <<flags, lists, work, callers, workers, wildsOnly, out, made, dropped, fates>>

-----------------------------------------------------------------------------
(* Handling one DP, by a worker or by CheckNewPoints itself. Checking a    *)
(* WILD may resolve a collision and set gSolved.                           *)
File(d)  == filed' = filed \cup {d} /\ UNCHANGED <<checked, skipped, gSolved>>
Check(d) == /\ checked' = checked \cup {d}
            /\ gSolved' \in {gSolved, TRUE}
            /\ UNCHANGED <<filed, skipped>>
Skip(d)  == skipped' = skipped \cup {d} /\ UNCHANGED <<filed, checked, gSolved>>

FileFirst(d) == gTrapPhase \/ (Mode = "concurrent" /\ ~gConcurrentTableFull /\ d.label = "TAME")

Handle(d) ==
  /\ handled' = [handled EXCEPT ![d.id] = @ + 1]
  /\ IF FileFirst(d) THEN File(d)
     ELSE IF d.label = "WILD" THEN Check(d) ELSE Skip(d)
  /\ UNCHANGED <<gTrapPhase, gConcurrentTableFull, gWorkersRunning, gProcessingRunning, StopFlag>>

-----------------------------------------------------------------------------
(* CheckNewPoints, called by c.                                            *)
GotoC(c, l) == cpc' = [cpc EXCEPT ![c] = l]

CheckEmpty(c) ==
  /\ cpc[c] = "enter"
  /\ pPntList = <<>>
  /\ GotoC(c, "tail")
  /\ UNCHANGED <<flags, lists, work, cnt, idx, workers, gpus, dropped, fates>>

Copy(c) ==
  /\ cpc[c] = "enter"
  /\ pPntList # <<>>
  /\ cnt' = [cnt EXCEPT ![c] = Len(pPntList)]
  /\ pPntList2' = pPntList
  /\ pPntList' = <<>>
  /\ GotoC(c, "split")
  /\ UNCHANGED <<flags, work, idx, workers, gpus, dropped, fates>>

Dispatch(c) ==
  /\ cpc[c] = "split"
  /\ gWorkersRunning /\ cnt[c] > WorkerMin
  /\ gWorkQueue' = gWorkQueue \o Chunks(cnt[c])
  /\ gPendingChunks' = gPendingChunks + NumChunks(cnt[c])
  /\ GotoC(c, "wait")
  /\ UNCHANGED <<flags, lists, cnt, idx, workers, gpus, dropped, fates>>

Fallback(c) ==
  /\ cpc[c] = "split"
  /\ ~(gWorkersRunning /\ cnt[c] > WorkerMin)
  /\ idx' = [idx EXCEPT ![c] = 0]
  /\ GotoC(c, "single")
  /\ UNCHANGED <<flags, lists, work, cnt, workers, gpus, dropped, fates>>

WaitOverEarly(n) == n <= 1
WaitOver(n)      == ~(n > 0)

WaitDone(c) ==
  /\ cpc[c] = "wait"
  /\ WaitOver(gPendingChunks) \/ gSolved
  /\ GotoC(c, "tail")
  /\ UNCHANGED <<flags, lists, work, cnt, idx, workers, gpus, dropped, fates>>

SingleStep(c) ==
  /\ cpc[c] = "single"
  /\ idx[c] < cnt[c] /\ ~gSolved
  /\ Handle(pPntList2[idx[c] + 1])
  /\ idx' = [idx EXCEPT ![c] = @ + 1]
  /\ UNCHANGED <<lists, work, cpc, cnt, workers, gpus, dropped>>

SingleDone(c) ==
  /\ cpc[c] = "single"
  /\ ~(idx[c] < cnt[c]) \/ gSolved
  /\ GotoC(c, "tail")
  /\ UNCHANGED <<flags, lists, work, cnt, idx, workers, gpus, dropped, fates>>

CheckNewPoints(c) ==
  \/ CheckEmpty(c) \/ Copy(c) \/ Dispatch(c) \/ Fallback(c)
  \/ WaitDone(c) \/ SingleStep(c) \/ SingleDone(c)

-----------------------------------------------------------------------------
(* The worker threads.                                                     *)
WorkerTop(w) ==
  /\ wpc[w] = "top"
  /\ wpc' = [wpc EXCEPT ![w] = IF gWorkersRunning THEN "pick" ELSE "end"]
  /\ UNCHANGED <<flags, lists, work, callers, chunk, gpus, dropped, fates>>

\* wait_for gave up: nothing queued.
WorkerNothing(w) ==
  /\ wpc[w] = "pick"
  /\ gWorkQueue = <<>>
  /\ wpc' = [wpc EXCEPT ![w] = "top"]
  /\ UNCHANGED <<flags, lists, work, callers, chunk, gpus, dropped, fates>>

WorkerTake(w) ==
  /\ wpc[w] = "pick"
  /\ gWorkQueue # <<>>
  /\ chunk' = [chunk EXCEPT ![w] = gWorkQueue[Len(gWorkQueue)]]
  /\ gWorkQueue' = SubSeq(gWorkQueue, 1, Len(gWorkQueue) - 1)
  /\ wpc' = [wpc EXCEPT ![w] = "work"]
  /\ UNCHANGED <<flags, lists, gPendingChunks, callers, gpus, dropped, fates>>

WorkerStep(w) ==
  /\ wpc[w] = "work"
  /\ chunk[w].start < chunk[w].end /\ ~gSolved
  /\ Handle(pPntList2[chunk[w].start + 1])
  /\ chunk' = [chunk EXCEPT ![w].start = @ + 1]
  /\ UNCHANGED <<lists, work, callers, wpc, gpus, dropped>>

WorkerDoneUncounted(w) ==
  /\ wpc[w] = "work"
  /\ ~(chunk[w].start < chunk[w].end) \/ gSolved
  /\ chunk' = [chunk EXCEPT ![w] = NoChunk]
  /\ wpc' = [wpc EXCEPT ![w] = "top"]
  /\ UNCHANGED <<flags, lists, work, callers, gpus, dropped, fates>>

\* The chunk is finished, or given up because the key is known.
WorkerDone(w) ==
  /\ wpc[w] = "work"
  /\ ~(chunk[w].start < chunk[w].end) \/ gSolved
  /\ chunk' = [chunk EXCEPT ![w] = NoChunk]
  /\ gPendingChunks' = gPendingChunks - 1
  /\ wpc' = [wpc EXCEPT ![w] = "top"]
  /\ UNCHANGED <<flags, lists, gWorkQueue, callers, gpus, dropped, fates>>

WorkerThread(w) ==
  WorkerTop(w) \/ WorkerNothing(w) \/ WorkerTake(w) \/ WorkerStep(w) \/ WorkerDone(w)

-----------------------------------------------------------------------------
(* processing_thread.                                                      *)
ProcTop ==
  /\ cpc[Proc] = "top"
  /\ GotoC(Proc, IF gProcessingRunning /\ ~gSolved THEN "enter" ELSE "end")
  /\ UNCHANGED <<flags, lists, work, cnt, idx, workers, gpus, dropped, fates>>

ProcTail ==
  /\ cpc[Proc] = "tail"
  /\ GotoC(Proc, "top")
  /\ UNCHANGED <<flags, lists, work, cnt, idx, workers, gpus, dropped, fates>>

processing_thread == ProcTop \/ ProcTail \/ CheckNewPoints(Proc)

-----------------------------------------------------------------------------
(* The main loop of SolvePoint.                                            *)
MainTop ==
  /\ cpc[Main] = "top"
  /\ GotoC(Main, IF gSolved THEN "stop" ELSE IF gTrapPhase THEN "enter" ELSE "tail")
  /\ UNCHANGED <<flags, lists, work, cnt, idx, workers, gpus, dropped, fates>>

MainTail ==
  /\ cpc[Main] = "tail"
  /\ GotoC(Main, "top")
  /\ UNCHANGED <<flags, lists, work, cnt, idx, workers, gpus, dropped, fates>>

\* The table is full (or frozen): TRAP ends, or the concurrent phase does.
SwitchLate ==
  /\ cpc[Main] = "tail"
  /\ gTrapPhase
  /\ wildsOnly' = [g \in Gpus |-> TRUE]
  /\ GotoC(Main, "reinit")
  /\ UNCHANGED <<flags, lists, work, cnt, idx, workers, gpc, out, made, dropped, fates>>

Switch ==
  /\ cpc[Main] = "tail"
  /\ \/ gTrapPhase /\ gTrapPhase' = FALSE /\ UNCHANGED gConcurrentTableFull
     \/ /\ Mode = "concurrent" /\ ~gConcurrentTableFull
        /\ gConcurrentTableFull' = TRUE /\ UNCHANGED gTrapPhase
  /\ GotoC(Main, "reinit")
  /\ UNCHANGED <<gSolved, gWorkersRunning, gProcessingRunning, StopFlag, lists, work,
                 cnt, idx, workers, gpus, dropped, fates>>

\* ReinitForHunt on one GPU after the other.
ReinitForHunt(g) ==
  /\ cpc[Main] = "reinit"
  /\ ~wildsOnly[g]
  /\ wildsOnly' = [wildsOnly EXCEPT ![g] = TRUE]
  /\ UNCHANGED <<flags, lists, work, callers, workers, gpc, out, made, dropped, fates>>

\* After TRAP the processing thread is started; it runs already otherwise.
StartProcessing ==
  /\ cpc[Main] = "reinit"
  /\ \A g \in Gpus : wildsOnly[g]
  /\ gProcessingRunning' = TRUE
  /\ cpc' = [cpc EXCEPT ![Main] = "top", ![Proc] = IF @ = "off" THEN "top" ELSE @]
  /\ UNCHANGED <<gSolved, gTrapPhase, gConcurrentTableFull, gWorkersRunning, StopFlag,
                 lists, work, cnt, idx, workers, gpus, dropped, fates>>

\* The end of SolvePoint. The pause for the processing thread is not a wait.
StopProcessing ==
  /\ cpc[Main] = "stop"
  /\ gProcessingRunning' = FALSE
  /\ GotoC(Main, "sleep")
  /\ UNCHANGED <<gSolved, gTrapPhase, gConcurrentTableFull, gWorkersRunning, StopFlag,
                 lists, work, cnt, idx, workers, gpus, dropped, fates>>

StopWorkersUnset ==
  /\ cpc[Main] = "sleep"
  /\ GotoC(Main, "join")
  /\ UNCHANGED <<flags, lists, work, cnt, idx, workers, gpus, dropped, fates>>

StopWorkerThreads ==
  /\ cpc[Main] = "sleep"
  /\ gWorkersRunning' = FALSE
  /\ GotoC(Main, "join")
  /\ UNCHANGED <<gSolved, gTrapPhase, gConcurrentTableFull, gProcessingRunning, StopFlag,
                 lists, work, cnt, idx, workers, gpus, dropped, fates>>

StopGpus ==
  /\ cpc[Main] = "join"
  /\ \A w \in Workers : wpc[w] = "end"
  /\ StopFlag' = TRUE
  /\ GotoC(Main, "joingpus")
  /\ UNCHANGED <<gSolved, gTrapPhase, gConcurrentTableFull, gWorkersRunning,
                 gProcessingRunning, lists, work, cnt, idx, workers, gpus, dropped, fates>>

Return ==
  /\ cpc[Main] = "joingpus"
  /\ \A g \in Gpus : gpc[g] = "end"
  /\ GotoC(Main, "end")
  /\ UNCHANGED <<flags, lists, work, cnt, idx, workers, gpus, dropped, fates>>

SolvePoint ==
  \/ MainTop \/ MainTail \/ CheckNewPoints(Main)
  \/ Switch \/ StartProcessing \/ (\E g \in Gpus : ReinitForHunt(g))
  \/ StopProcessing \/ StopWorkerThreads \/ StopGpus \/ Return

-----------------------------------------------------------------------------
\* A BSGS thread finds the key, or Ctrl+C sets gSolved.
OtherSolves ==
  /\ ~gSolved /\ cpc[Main] # "end"
  /\ gSolved' = TRUE
  /\ UNCHANGED <<gTrapPhase, gConcurrentTableFull, gWorkersRunning, gProcessingRunning,
                 StopFlag, lists, work, callers, workers, gpus, dropped, fates>>

GpuThread(g) == Kernel(g) \/ AddPointsToList(g) \/ GpuExit(g)

Next ==
  \/ SolvePoint \/ processing_thread \/ OtherSolves
  \/ \E w \in Workers : WorkerThread(w)
  \/ \E g \in Gpus : GpuThread(g)

Spec == Init /\ [][Next]_vars

\* Every thread is scheduled again and again. Nothing makes the table full,
\* and nothing makes the key be found.
Fairness ==
  /\ WF_vars(MainTop \/ MainTail \/ CheckNewPoints(Main) \/ StartProcessing
             \/ (\E g \in Gpus : ReinitForHunt(g))
             \/ StopProcessing \/ StopWorkerThreads \/ StopGpus \/ Return)
  /\ WF_vars(processing_thread)
  /\ \A w \in Workers : WF_vars(WorkerThread(w))
  /\ \A g \in Gpus : WF_vars(GpuThread(g))

FairSpec == Spec /\ Fairness
-----------------------------------------------------------------------------
(* Properties.                                                             *)

\* Everything keeps its type, and pPntList never outgrows its allocation.
TypeOK ==
  /\ gSolved \in BOOLEAN /\ gTrapPhase \in BOOLEAN /\ gConcurrentTableFull \in BOOLEAN
  /\ gWorkersRunning \in BOOLEAN /\ gProcessingRunning \in BOOLEAN /\ StopFlag \in BOOLEAN
  /\ pPntList \in Seq(Dps) /\ pPntList2 \in Seq(Dps) /\ Len(pPntList) <= ListCap
  /\ gWorkQueue \in Seq([start : Nat, end : Nat])
  /\ gPendingChunks \in Nat
  /\ cpc \in [Callers -> {"off", "top", "enter", "split", "single", "wait", "tail",
                          "reinit", "stop", "sleep", "join", "joingpus", "end"}]
  /\ cnt \in [Callers -> Nat] /\ idx \in [Callers -> Nat]
  /\ wpc \in [Workers -> {"top", "pick", "work", "end"}]
  /\ chunk \in [Workers -> [start : Nat, end : Nat]]
  /\ gpc \in [Gpus -> {"kernel", "add", "end"}]
  /\ wildsOnly \in [Gpus -> BOOLEAN]
  /\ out \in [Gpus -> Seq(Dps)]
  /\ made \in 0 .. MaxDps
  /\ dropped \subseteq Dps /\ filed \subseteq Dps /\ checked \subseteq Dps /\ skipped \subseteq Dps
  /\ handled \in [Ids -> Nat]

\* The control points at which a caller is inside CheckNewPoints, and those
\* at which it has begun to use the copy.
Using  == {"split", "single", "wait"}
Inside == Using \cup {"enter"}

\* gPendingChunks is the number of chunks queued or in a worker's hands.
Working == {w \in Workers : wpc[w] = "work"}
PendingExact == gPendingChunks = Len(gWorkQueue) + Cardinality(Working)

\* The wait of CheckNewPoints has no timeout: as long as it must go on, some
\* worker holds a chunk, or chunks are queued and no worker has ended.
NoStarvedWait ==
  \A c \in Callers :
    cpc[c] = "wait" /\ ~WaitOver(gPendingChunks) /\ ~gSolved =>
      /\ Working # {} \/ gWorkQueue # <<>>
      /\ gWorkersRunning /\ \A w \in Workers : wpc[w] # "end"

\* CheckNewPoints is not reentrant and takes no lock for its whole length:
\* the main loop and the processing thread are never both inside it.
OneCaller == ~(cpc[Main] \in Inside /\ cpc[Proc] \in Inside)

\* pPntList2 is overwritten only when no chunk of the previous copy is queued,
\* being worked on, or waited for ("MUST complete before reusing pPntList2!").
BufferReuse ==
  [][pPntList2' # pPntList2 =>
       /\ gWorkQueue = <<>>
       /\ Working = {}
       /\ \A c \in Callers : cpc[c] \notin Using]_vars

\* Where a DP is, of those made and not yet handled.
InCopy(i, a, b) == \E j \in a + 1 .. b : pPntList2[j].id = i
Places(i) ==
  {<<"list", j>> : j \in {k \in DOMAIN pPntList : pPntList[k].id = i}}
  \cup {<<"gpu", g>> : g \in {h \in Gpus : \E j \in DOMAIN out[h] : out[h][j].id = i}}
  \cup {<<"queue", k>> : k \in {l \in DOMAIN gWorkQueue :
                                  InCopy(i, gWorkQueue[l].start, gWorkQueue[l].end)}}
  \cup {<<"worker", w>> : w \in {v \in Working : InCopy(i, chunk[v].start, chunk[v].end)}}
  \cup {<<"caller", c>> : c \in {b \in Callers :
                                   \/ cpc[b] = "split" /\ InCopy(i, 0, cnt[b])
                                   \/ cpc[b] = "single" /\ InCopy(i, idx[b], cnt[b])}}
  \cup {<<"dropped", d.id>> : d \in {e \in dropped : e.id = i}}

\* Until the key is found every DP is in exactly one place or was handled
\* exactly once; afterwards DPs may be abandoned but none is handled twice.
\* Only a batch dropped by AddPointsToList is lost.
Conservation ==
  \A i \in 1 .. made :
    LET n == Cardinality(Places(i)) + handled[i]
    IN n <= 1 /\ (gSolved \/ n = 1)

\* The path of the DPs implements DpQueue. Its queue is pPntList, the copy as
\* far as it is not handled, gWorkQueue and the chunks of the workers.
Batches   == [g \in Gpus |-> {out[g][j].id : j \in DOMAIN out[g]}]
QueuedIds == {i \in Ids : \E p \in Places(i) : p[1] \notin {"gpu", "dropped"}}
Queue == INSTANCE DpQueue WITH
  Dps <- Ids, Half <- ListCap, fresh <- made + 1 .. MaxDps, batch <- Batches,
  queued <- QueuedIds, done <- handled, lost <- {d.id : d \in dropped}, solved <- gSolved
ImplementsDpQueue == Queue!Spec

\* No DP of a WILD is ever filed as a TAME, although TRAP files every DP
\* whatever its label: the switch clears gTrapPhase before it makes WILDs.
WildNeverFiled == \A d \in filed : d.gen = "TAME"

\* A DP in pPntList is handled, unless the key is found first.
Handled ==
  \A i \in Ids : (\E k \in DOMAIN pPntList : pPntList[k].id = i) ~> (handled[i] = 1 \/ gSolved)

\* Once the key is found every thread ends.
Shutdown ==
  gSolved ~> /\ cpc[Main] = "end" /\ cpc[Proc] \in {"off", "end"}
             /\ \A w \in Workers : wpc[w] = "end"
             /\ \A g \in Gpus : gpc[g] = "end"
=============================================================================
