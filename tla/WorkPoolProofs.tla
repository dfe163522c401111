--------------------------- MODULE WorkPoolProofs ---------------------------
(***************************************************************************)
(* Proofs about WorkPool, for any number of workers and GPUs and any       *)
(* sizes. The argument: gPendingChunks counts the chunks that are queued   *)
(* or in a worker's hands (PendingExact); before the key is found it is    *)
(* zero unless a caller waits in CheckNewPoints (WaitInv); and the two     *)
(* callers exclude each other through gTrapPhase (CallerInv). So nobody    *)
(* uses the copy when the next one is made, and every index into it stays  *)
(* below its length (BoundsInv). With that, each step leaves a DP where it *)
(* is, moves it to one other place, or handles it (Fate), so that it is in *)
(* one place until it is handled (KeptInv).                                *)
(* The refinement of DpQueue at the end reads the same fates as steps of a  *)
(* queue.                                                                  *)
(***************************************************************************)
EXTENDS WorkPool, TLAPS, FiniteSetTheorems, SequenceTheorems

\* The callers exclude each other: the main loop is inside CheckNewPoints
\* only in TRAP, the processing thread exists only after it.
CallerInv ==
  /\ cpc[Main] \in Inside => gTrapPhase
  /\ cpc[Main] # "off"
  /\ cpc[Main] = "reinit" => ~gTrapPhase
  /\ gTrapPhase => Mode = "trap"
  /\ cpc[Proc] # "off" => ~gTrapPhase
  /\ cpc[Proc] \in {"off", "top", "end", "tail"} \cup Inside

\* Chunks are outstanding only behind a caller that waits for them, or after
\* the key was found; and not behind a caller that is about to copy.
WaitInv ==
  /\ gPendingChunks > 0 /\ ~gSolved => \E c \in Callers : cpc[c] = "wait"
  /\ \A c \in Callers : cpc[c] \in {"enter", "split", "single"} => gPendingChunks = 0

\* Every index into the copy is below its length.
BoundsInv ==
  /\ \A k \in DOMAIN gWorkQueue : gWorkQueue[k].end <= Len(pPntList2)
  /\ \A w \in Working : chunk[w].end <= Len(pPntList2)
  /\ \A c \in Callers : cpc[c] \in {"split", "single"} => cnt[c] = Len(pPntList2)
  /\ \A c \in Callers : cpc[c] = "split" => cnt[c] > 0

\* What gTrapPhase says of the DPs under way.
KindOf(q) ==
  \A j \in DOMAIN q :
    /\ gTrapPhase => q[j].gen = "TAME"
    /\ Mode = "concurrent" => q[j].gen = q[j].label
KindInv ==
  /\ gTrapPhase => \A g \in Gpus : ~wildsOnly[g]
  /\ KindOf(pPntList) /\ KindOf(pPntList2) /\ \A g \in Gpus : KindOf(out[g])
  /\ WildNeverFiled

-----------------------------------------------------------------------------
(* Cutting n DPs into chunks.                                              *)

\* Division by a positive number stays in the naturals and rounds down.
LEMMA DivNat ==
  ASSUME NEW a \in Nat, NEW b \in Nat \ {0}
  PROVE  /\ a \div b \in Nat
         /\ b * (a \div b) <= a
         /\ a < b * (a \div b) + b
BY SMT

LEMMA MulMono ==
  ASSUME NEW a \in Nat, NEW b \in Nat, NEW c \in Nat, a <= b
  PROVE  a * c <= b * c /\ a * c \in Nat /\ b * c \in Nat
<1>1. \E d \in Nat : b = a + d
  <2>1. b - a \in Nat /\ b = a + (b - a)
    OBVIOUS
  <2> QED BY <2>1
<1>2. PICK d \in Nat : b = a + d
  BY <1>1
<1>3. b * c = a * c + d * c
  BY <1>2, SMT
<1>4. d * c \in Nat /\ a * c \in Nat
  BY SMT
<1> QED BY <1>3, <1>4, SMT

LEMMA WorkersCount == NumWorkers \in Nat \ {0}
<1>1. Cardinality(Workers) \in Nat
  BY PoolAssumption, FS_CardinalityType
<1>2. Cardinality(Workers) # 0
  BY PoolAssumption, FS_EmptySet
<1> QED BY <1>1, <1>2 DEF NumWorkers

\* There is at least one chunk, chunks are not empty, and they fit.
LEMMA ChunkNumbers ==
  ASSUME NEW n \in Nat \ {0}
  PROVE  /\ NumChunks(n) \in Nat \ {0}
         /\ ChunkSize(n) \in Nat \ {0}
         /\ NumChunks(n) * ChunkSize(n) <= n
<1>1. NumWorkers \in Nat \ {0} /\ MinChunk \in Nat \ {0}
  BY WorkersCount, PoolAssumption
<1>2. n \div NumWorkers \in Nat /\ n \div MinChunk \in Nat
  BY <1>1, DivNat
<1>3. NumChunks(n) \in Nat \ {0}
  BY <1>1, <1>2 DEF NumChunks
<1>4. ChunkSize(n) \in Nat /\ NumChunks(n) * ChunkSize(n) <= n
  BY <1>3, DivNat DEF ChunkSize
<1>5. NumChunks(n) <= n
  <2>1. CASE NumChunks(n) = 1
    BY <2>1
  <2>2. CASE NumChunks(n) = n \div MinChunk
    <3>1. MinChunk * (n \div MinChunk) <= n
      BY <1>1, DivNat
    <3>2. 1 * (n \div MinChunk) <= MinChunk * (n \div MinChunk)
      BY <1>1, <1>2, MulMono
    <3> QED BY <2>2, <3>1, <3>2, <1>1, <1>2, SMT
  <2>3. CASE NumChunks(n) = NumWorkers /\ n \div NumWorkers >= MinChunk
    <3>1. NumWorkers * (n \div NumWorkers) <= n
      BY <1>1, DivNat
    <3>2. NumWorkers * 1 <= NumWorkers * (n \div NumWorkers)
      <4>1. 1 * NumWorkers <= (n \div NumWorkers) * NumWorkers
        BY <1>1, <1>2, <2>3, MulMono
      <4> QED BY <4>1, <1>1, <1>2, SMT
    <3> QED BY <2>3, <3>1, <3>2, <1>1, <1>2, SMT
  <2> QED BY <1>1, <1>2, <2>1, <2>2, <2>3 DEF NumChunks
<1>6. ChunkSize(n) # 0
  <2>1. n < NumChunks(n) * ChunkSize(n) + NumChunks(n)
    BY <1>3, DivNat DEF ChunkSize
  <2> QED BY <2>1, <1>3, <1>4, <1>5, SMT
<1> QED BY <1>3, <1>4, <1>6

LEMMA ChunkBounds ==
  ASSUME NEW n \in Nat \ {0}, NEW c \in 1 .. NumChunks(n)
  PROVE  /\ (c - 1) * ChunkSize(n) \in Nat
         /\ ChunkEnd(n, c) \in Nat
         /\ ChunkEnd(n, c) <= n
<1> DEFINE num == NumChunks(n)  size == ChunkSize(n)
<1>1. num \in Nat \ {0} /\ size \in Nat \ {0} /\ num * size <= n
  BY ChunkNumbers
<1>2. c \in Nat /\ c - 1 \in Nat /\ c <= num
  BY <1>1
<1> HIDE DEF num, size
<1>3. c * size <= num * size /\ c * size \in Nat
  BY <1>1, <1>2, MulMono
<1>4. (c - 1) * size \in Nat
  BY <1>1, <1>2, MulMono
<1> QED BY <1>1, <1>3, <1>4, SMT DEF ChunkEnd, num, size

LEMMA ChunksType ==
  ASSUME NEW n \in Nat \ {0}
  PROVE  /\ Chunks(n) \in Seq([start : Nat, end : Nat])
         /\ Len(Chunks(n)) = NumChunks(n)
         /\ \A k \in 1 .. NumChunks(n) : Chunks(n)[k].end <= n
<1>1. NumChunks(n) \in Nat
  BY ChunkNumbers
<1>2. Chunks(n) \in [1 .. NumChunks(n) -> [start : Nat, end : Nat]]
  BY ChunkBounds DEF Chunks
<1>3. Chunks(n) \in Seq([start : Nat, end : Nat])
  BY <1>1, <1>2, SeqDef, ZenonT(40)
<1>4. Len(Chunks(n)) = NumChunks(n)
  BY <1>1, <1>2, <1>3, LenProperties
<1>5. \A k \in 1 .. NumChunks(n) : Chunks(n)[k].end <= n
  BY ChunkBounds DEF Chunks
<1> QED BY <1>3, <1>4, <1>5

\* CheckNewPoints cuts a copy into chunks that cover every DP exactly once,
\* whatever the number of workers and the number of DPs.
THEOREM ChunksPartition ==
  ASSUME NEW n \in Nat \ {0}, NEW i \in 0 .. n - 1
  PROVE  \E k \in 1 .. NumChunks(n) :
           /\ Chunks(n)[k].start <= i /\ i < Chunks(n)[k].end
           /\ \A l \in 1 .. NumChunks(n) :
                Chunks(n)[l].start <= i /\ i < Chunks(n)[l].end => l = k
<1> DEFINE num == NumChunks(n)
           size == ChunkSize(n)
           q == i \div size
           k == IF q < num THEN q + 1 ELSE num
<1>1. num \in Nat \ {0} /\ size \in Nat \ {0} /\ num * size <= n
  BY ChunkNumbers
<1>2. \A c \in 1 .. num : /\ Chunks(n)[c].start = (c - 1) * size
                          /\ Chunks(n)[c].end = IF c = num THEN n ELSE c * size
  BY DEF Chunks, ChunkEnd
<1> HIDE DEF num, size
<1>3. q \in Nat /\ size * q <= i /\ i < size * q + size
  <2>1. i \in Nat
    OBVIOUS
  <2> QED BY <1>1, <2>1, DivNat
<1>4. k \in 1 .. num /\ k \in Nat /\ k - 1 \in Nat /\ k - 1 <= q
  BY <1>1, <1>3
<1>5. (k - 1) * size <= i
  <2>1. (k - 1) * size <= q * size
    BY <1>1, <1>3, <1>4, MulMono
  <2> QED BY <2>1, <1>1, <1>3, <1>4, SMT
<1>6. k # num => i < k * size
  <2>1. k # num => k = q + 1
    BY <1>1, <1>3
  <2>2. (q + 1) * size = size * q + size
    BY <1>1, <1>3, SMT
  <2> QED BY <1>3, <2>1, <2>2
<1> HIDE DEF k
<1>7. ASSUME NEW l \in 1 .. num, Chunks(n)[l].start <= i, i < Chunks(n)[l].end
      PROVE  l = k
  <2>1. l \in Nat /\ l - 1 \in Nat /\ l <= num
    BY <1>1
  <2>2. CASE l < k
    <3>1. l * size <= (k - 1) * size
      BY <1>1, <1>4, <2>1, <2>2, MulMono
    <3>2. l # num
      BY <1>4, <2>2, <1>1
    <3>3. i < l * size
      BY <1>2, <1>7, <3>2
    <3> QED BY <3>1, <3>3, <1>5, <1>1, <1>4, <2>1, MulMono
  <2>3. CASE k < l
    <3>1. k * size <= (l - 1) * size
      BY <1>1, <1>4, <2>1, <2>3, MulMono
    <3>2. k # num
      BY <2>1, <2>3, <1>1, <1>4
    <3>3. (l - 1) * size <= i
      BY <1>2, <1>7
    <3> QED BY <3>1, <3>2, <3>3, <1>6, <1>1, <1>4, <2>1, MulMono
  <2> QED BY <1>4, <2>1, <2>2, <2>3
<1>8. Chunks(n)[k].start <= i /\ i < Chunks(n)[k].end
  BY <1>2, <1>4, <1>5, <1>6
<1> QED BY <1>4, <1>7, <1>8 DEF num

-----------------------------------------------------------------------------
(* Facts about single steps.                                               *)

IInv ==
  TypeOK /\ PendingExact /\ CallerInv /\ WaitInv /\ BoundsInv /\ KindInv

LEMMA WorkingFinite ==
  ASSUME TypeOK
  PROVE  IsFiniteSet(Working) /\ Cardinality(Working) \in Nat
BY PoolAssumption, FS_Subset, FS_CardinalityType DEF Working

\* With no chunk counted, none is queued and no worker holds one.
LEMMA NothingPending ==
  ASSUME TypeOK, PendingExact, gPendingChunks = 0
  PROVE  gWorkQueue = <<>> /\ Working = {}
<1>1. Len(gWorkQueue) \in Nat /\ Cardinality(Working) \in Nat
  BY WorkingFinite, LenProperties DEF TypeOK
<1>2. Len(gWorkQueue) = 0 /\ Cardinality(Working) = 0
  BY <1>1 DEF PendingExact
<1>3. gWorkQueue = <<>>
  BY <1>2, EmptySeq DEF TypeOK
<1>4. Working = {}
  BY <1>2, WorkingFinite, FS_EmptySet
<1> QED BY <1>3, <1>4

\* A DP that is handled is one of the copy.
LEMMA HandledInCopy ==
  ASSUME IInv
  PROVE  /\ \A c \in Callers : SingleStep(c) =>
              idx[c] + 1 \in DOMAIN pPntList2 /\ pPntList2[idx[c] + 1] \in Dps
         /\ \A w \in Workers : WorkerStep(w) =>
              chunk[w].start + 1 \in DOMAIN pPntList2 /\ pPntList2[chunk[w].start + 1] \in Dps
<1>1. /\ pPntList2 \in Seq(Dps) /\ DOMAIN pPntList2 = 1 .. Len(pPntList2)
      /\ Len(pPntList2) \in Nat
  BY LenProperties DEF IInv, TypeOK
<1>2. ASSUME NEW c \in Callers, SingleStep(c)
      PROVE  idx[c] + 1 \in DOMAIN pPntList2
  <2>1. idx[c] \in Nat /\ cnt[c] \in Nat /\ idx[c] < cnt[c]
    BY <1>2 DEF IInv, TypeOK, SingleStep
  <2>2. cnt[c] = Len(pPntList2)
    BY <1>2 DEF IInv, BoundsInv, SingleStep
  <2> QED BY <1>1, <2>1, <2>2
<1>3. ASSUME NEW w \in Workers, WorkerStep(w)
      PROVE  chunk[w].start + 1 \in DOMAIN pPntList2
  <2>1. chunk[w].start \in Nat /\ chunk[w].end \in Nat /\ chunk[w].start < chunk[w].end
    BY <1>3 DEF IInv, TypeOK, WorkerStep
  <2>2. chunk[w].end <= Len(pPntList2)
    BY <1>3 DEF IInv, BoundsInv, WorkerStep, Working
  <2> QED BY <1>1, <2>1, <2>2
<1> QED BY <1>1, <1>2, <1>3, ElementOfSeq

\* What handling a DP leaves alone, and what it does to the histories.
LEMMA HandleEffect ==
  ASSUME TypeOK, NEW d \in Dps, Handle(d)
  PROVE  /\ gSolved' \in BOOLEAN /\ (gSolved => gSolved')
         /\ UNCHANGED <<gTrapPhase, gConcurrentTableFull, gWorkersRunning,
                        gProcessingRunning, StopFlag>>
         /\ filed' \subseteq Dps /\ checked' \subseteq Dps /\ skipped' \subseteq Dps
         /\ handled' \in [Ids -> Nat]
         /\ filed' \subseteq filed \cup {d}
         /\ filed' # filed => FileFirst(d)
<1>1. handled' \in [Ids -> Nat]
  <2>1. d.id \in Ids
    BY DEF Dps
  <2> QED BY <2>1 DEF TypeOK, Handle
<1>2. CASE FileFirst(d)
  BY <1>1, <1>2 DEF Handle, File, TypeOK
<1>3. CASE ~FileFirst(d) /\ d.label = "WILD"
  BY <1>1, <1>3 DEF Handle, Check, TypeOK
<1>4. CASE ~FileFirst(d) /\ d.label # "WILD"
  BY <1>1, <1>4 DEF Handle, Skip, TypeOK
<1> QED BY <1>2, <1>3, <1>4

\* What a kernel call yields.
LEMMA KernelEffect ==
  ASSUME TypeOK, NEW g \in Gpus, Kernel(g)
  PROVE  /\ out' \in [Gpus -> Seq(Dps)] /\ made' \in 0 .. MaxDps
         /\ \A h \in Gpus : h # g => out'[h] = out[h]
         /\ \A j \in DOMAIN out'[g] :
              /\ Mode = "trap" /\ ~wildsOnly[g] => out'[g][j].gen = "TAME"
              /\ Mode = "concurrent" => out'[g][j].gen = out'[g][j].label
<1>1. PICK n \in BatchSizes, label \in Kind :
        LET gen == IF Mode = "trap" /\ ~wildsOnly[g] THEN "TAME" ELSE label
        IN  /\ made + n <= MaxDps
            /\ out' = [out EXCEPT ![g] =
                        [j \in 1 .. n |-> [id |-> made + j, gen |-> gen, label |-> label]]]
            /\ made' = made + n
  BY DEF Kernel
<1> DEFINE gen == IF Mode = "trap" /\ ~wildsOnly[g] THEN "TAME" ELSE label
           b == [j \in 1 .. n |-> [id |-> made + j, gen |-> gen, label |-> label]]
<1>2. n \in Nat /\ n > 0 /\ made \in Nat /\ MaxDps \in Nat
  BY PoolAssumption DEF TypeOK
<1>3. made' = made + n /\ made' \in 0 .. MaxDps
  BY <1>1, <1>2
<1>4. gen \in Kind
  BY DEF Kind
<1>5. b \in [1 .. n -> Dps]
  BY <1>1, <1>2, <1>4 DEF Dps, Ids
<1>6. b \in Seq(Dps)
  BY <1>2, <1>5, SeqDef
<1>7. out' = [out EXCEPT ![g] = b]
  BY <1>1
<1>8. out'[g] = b
  BY <1>7 DEF TypeOK
<1>9. \A j \in DOMAIN b : b[j].gen = gen /\ b[j].label = label
  OBVIOUS
<1>10. out' \in [Gpus -> Seq(Dps)] /\ \A h \in Gpus : h # g => out'[h] = out[h]
  BY <1>6, <1>7 DEF TypeOK
<1> HIDE DEF b
<1>11. \A j \in DOMAIN out'[g] : out'[g][j].gen = gen /\ out'[g][j].label = label
  BY <1>8, <1>9
<1>12. /\ Mode = "trap" /\ ~wildsOnly[g] => gen = "TAME"
       /\ Mode = "concurrent" => gen = label
  OBVIOUS
<1> HIDE DEF gen
<1> QED BY <1>3, <1>10, <1>11, <1>12
\* HandleEffect as seen from a step of the specification.
HandledD(d) ==
  /\ gSolved' \in BOOLEAN /\ (gSolved => gSolved')
  /\ UNCHANGED <<gTrapPhase, gConcurrentTableFull, gWorkersRunning,
                 gProcessingRunning, StopFlag>>
  /\ filed' \subseteq Dps /\ checked' \subseteq Dps /\ skipped' \subseteq Dps
  /\ handled' \in [Ids -> Nat]
  /\ filed' \subseteq filed \cup {d}
  /\ filed' # filed => FileFirst(d)

-----------------------------------------------------------------------------
(* The parts of IInv, one lemma each.                                      *)

LEMMA TypeStep ==
  ASSUME IInv, [Next]_vars
  PROVE  TypeOK'
<1>1. ASSUME NEW c \in Callers, CheckEmpty(c)
      PROVE  TypeOK'
  BY <1>1 DEF IInv, GotoC, TypeOK, vars, flags, lists, work, callers, workers, gpus, fates, CheckEmpty
<1>2. ASSUME NEW c \in Callers, Copy(c)
      PROVE  TypeOK'
  <2>1. Len(pPntList) \in Nat
    BY LenProperties DEF IInv, TypeOK
  <2>2. pPntList' \in Seq(Dps) /\ Len(pPntList') <= ListCap
    BY <1>2, EmptySeq, PoolAssumption DEF Copy
  <2> QED BY <2>1, <2>2, <1>2 DEF IInv, GotoC, Copy, TypeOK, vars, flags, lists, work, callers, workers, gpus, fates
<1>3. ASSUME NEW c \in Callers, Dispatch(c)
      PROVE  TypeOK'
  <2>1. cnt[c] \in Nat \ {0}
    BY <1>3 DEF IInv, TypeOK, BoundsInv, Dispatch
  <2>2. Chunks(cnt[c]) \in Seq([start : Nat, end : Nat]) /\ NumChunks(cnt[c]) \in Nat
    BY <2>1, ChunksType, ChunkNumbers
  <2>3. gWorkQueue' \in Seq([start : Nat, end : Nat])
    BY <2>2, <1>3, ConcatProperties DEF IInv, TypeOK, Dispatch
  <2>4. gPendingChunks' \in Nat
    BY <2>2, <1>3 DEF IInv, TypeOK, Dispatch
  <2> QED BY <2>3, <2>4, <1>3 DEF IInv, GotoC, Dispatch, TypeOK, vars, flags, lists, work, callers, workers, gpus, fates
<1>4. ASSUME NEW c \in Callers, Fallback(c)
      PROVE  TypeOK'
  BY <1>4 DEF IInv, GotoC, TypeOK, vars, flags, lists, work, callers, workers, gpus, fates, Fallback
<1>5. ASSUME NEW c \in Callers, WaitDone(c)
      PROVE  TypeOK'
  BY <1>5 DEF IInv, GotoC, TypeOK, vars, flags, lists, work, callers, workers, gpus, fates, WaitDone
<1>6. ASSUME NEW c \in Callers, SingleStep(c)
      PROVE  TypeOK'
  <2>1. HandledD(pPntList2[idx[c] + 1])
    BY <1>6, HandledInCopy, HandleEffect DEF HandledD, SingleStep, IInv
  <2>2. idx' \in [Callers -> Nat]
    BY <1>6 DEF IInv, TypeOK, SingleStep
  <2> QED BY <2>1, <2>2, <1>6 DEF IInv, HandledD, SingleStep, TypeOK, vars, flags, lists, work, callers, workers, gpus, fates
<1>7. ASSUME NEW c \in Callers, SingleDone(c)
      PROVE  TypeOK'
  BY <1>7 DEF IInv, GotoC, TypeOK, vars, flags, lists, work, callers, workers, gpus, fates, SingleDone
<1>8. ASSUME NEW w \in Workers, WorkerTop(w)
      PROVE  TypeOK'
  BY <1>8 DEF IInv, GotoC, TypeOK, vars, flags, lists, work, callers, workers, gpus, fates, WorkerTop
<1>9. ASSUME NEW w \in Workers, WorkerNothing(w)
      PROVE  TypeOK'
  BY <1>9 DEF IInv, GotoC, TypeOK, vars, flags, lists, work, callers, workers, gpus, fates, WorkerNothing
<1>10. ASSUME NEW w \in Workers, WorkerTake(w)
      PROVE  TypeOK'
  <2> DEFINE S == [start : Nat, end : Nat]
  <2>0. gWorkQueue \in Seq(S)
    BY DEF IInv, TypeOK
  <2> HIDE DEF S
  <2>1. Len(gWorkQueue) \in Nat \ {0}
    BY <2>0, <1>10, EmptySeq DEF WorkerTake
  <2>2. gWorkQueue[Len(gWorkQueue)] \in S
    <3>1. Len(gWorkQueue) \in 1 .. Len(gWorkQueue)
      BY <2>1
    <3> QED BY <2>0, <3>1, ElementOfSeq
  <2>3. gWorkQueue' \in Seq(S)
    <3>1. \A i \in 1 .. Len(gWorkQueue) - 1 : gWorkQueue[i] \in S
      <4> TAKE i \in 1 .. Len(gWorkQueue) - 1
      <4>1. i \in 1 .. Len(gWorkQueue)
        BY <2>1
      <4> QED BY <2>0, <4>1, ElementOfSeq
    <3>2. Len(gWorkQueue) - 1 \in Int
      BY <2>1
    <3> QED BY <3>2, <3>1, <1>10, SubSeqProperties DEF WorkerTake
  <2> QED BY <2>2, <2>3, <1>10 DEF S, IInv, WorkerTake, TypeOK, vars, flags, lists, work, callers, workers, gpus, fates
<1>11. ASSUME NEW w \in Workers, WorkerStep(w)
      PROVE  TypeOK'
  <2>1. HandledD(pPntList2[chunk[w].start + 1])
    BY <1>11, HandledInCopy, HandleEffect DEF HandledD, WorkerStep, IInv
  <2>2. chunk' \in [Workers -> [start : Nat, end : Nat]]
    BY <1>11 DEF IInv, TypeOK, WorkerStep
  <2> QED BY <2>1, <2>2, <1>11 DEF IInv, HandledD, WorkerStep, TypeOK, vars, flags, lists, work, callers, workers, gpus, fates
<1>12. ASSUME NEW w \in Workers, WorkerDone(w)
      PROVE  TypeOK'
  <2>1. w \in Working
    BY <1>12 DEF WorkerDone, Working
  <2>2. Cardinality(Working) # 0
    BY <2>1, WorkingFinite, FS_EmptySet DEF IInv
  <2>3. Len(gWorkQueue) \in Nat
    BY LenProperties DEF IInv, TypeOK
  <2>4. gPendingChunks - 1 \in Nat
    <3>1. Cardinality(Working) \in Nat
      BY WorkingFinite DEF IInv
    <3>2. gPendingChunks = Len(gWorkQueue) + Cardinality(Working)
      BY DEF IInv, PendingExact
    <3> QED BY <2>2, <2>3, <3>1, <3>2
  <2>5. NoChunk \in [start : Nat, end : Nat]
    BY DEF NoChunk
  <2> QED BY <2>4, <2>5, <1>12 DEF IInv, WorkerDone, TypeOK, vars, flags, lists, work, callers, workers, gpus, fates
<1>13. ASSUME NEW g \in Gpus, Kernel(g)
      PROVE  TypeOK'
  <2>1. out' \in [Gpus -> Seq(Dps)] /\ made' \in 0 .. MaxDps
    BY <1>13, KernelEffect DEF IInv
  <2> QED BY <2>1, <1>13 DEF IInv, Kernel, TypeOK, vars, flags, lists, work, callers, workers, gpus, fates
<1>14. ASSUME NEW g \in Gpus, AddPointsToList(g)
      PROVE  TypeOK'
  <2>1. out[g] \in Seq(Dps)
    BY DEF IInv, TypeOK
  <2>2. pPntList \o out[g] \in Seq(Dps)
    BY <2>1, ConcatProperties DEF IInv, TypeOK
  <2>3. {out[g][j] : j \in DOMAIN out[g]} \subseteq Dps
    BY <2>1, ElementOfSeq, LenProperties
  <2>4. <<>> \in Seq(Dps)
    BY EmptySeq
  <2>5. out' \in [Gpus -> Seq(Dps)]
    BY <2>4, <1>14 DEF IInv, TypeOK, AddPointsToList
  <2>6. pPntList' \in Seq(Dps) /\ dropped' \subseteq Dps
    BY <2>2, <2>3, <1>14 DEF IInv, TypeOK, AddPointsToList
  <2>7. Len(pPntList') <= ListCap
    <3>1. Len(pPntList \o out[g]) = Len(pPntList) + Len(out[g])
      BY <2>1, ConcatProperties DEF IInv, TypeOK
    <3>2. CASE ListFull(Len(out[g]))
      BY <1>14, <3>2 DEF IInv, TypeOK, AddPointsToList
    <3>3. CASE ~ListFull(Len(out[g]))
      <4>1. ~(Len(pPntList) + Len(out[g]) >= ListCap)
        BY <3>3 DEF ListFull
      <4>2. pPntList' = pPntList \o out[g]
        BY <1>14, <3>3 DEF AddPointsToList
      <4>3. Len(pPntList) \in Nat /\ Len(out[g]) \in Nat /\ ListCap \in Nat
        BY <2>1, LenProperties, PoolAssumption DEF IInv, TypeOK
      <4>4. Len(pPntList') = Len(pPntList) + Len(out[g])
        BY <3>1, <4>2, Zenon
      <4> QED BY <4>1, <4>3, <4>4, SMT
    <3> QED BY <3>2, <3>3
  <2> QED BY <2>5, <2>6, <2>7, <1>14 DEF IInv, AddPointsToList, TypeOK, vars, flags, lists, work, callers, workers, gpus, fates
<1>15. ASSUME NEW g \in Gpus, GpuExit(g)
      PROVE  TypeOK'
  BY <1>15 DEF IInv, GotoC, TypeOK, vars, flags, lists, work, callers, workers, gpus, fates, GpuExit
<1>16. ASSUME NEW g \in Gpus, ReinitForHunt(g)
      PROVE  TypeOK'
  BY <1>16 DEF IInv, GotoC, TypeOK, vars, flags, lists, work, callers, workers, gpus, fates, ReinitForHunt
<1>17. CASE ProcTop
  BY <1>17 DEF IInv, GotoC, TypeOK, vars, flags, lists, work, callers, workers, gpus, fates, ProcTop
<1>18. CASE ProcTail
  BY <1>18 DEF IInv, GotoC, TypeOK, vars, flags, lists, work, callers, workers, gpus, fates, ProcTail
<1>19. CASE MainTop
  BY <1>19 DEF IInv, GotoC, TypeOK, vars, flags, lists, work, callers, workers, gpus, fates, MainTop
<1>20. CASE MainTail
  BY <1>20 DEF IInv, GotoC, TypeOK, vars, flags, lists, work, callers, workers, gpus, fates, MainTail
<1>21. CASE Switch
  BY <1>21 DEF IInv, GotoC, TypeOK, vars, flags, lists, work, callers, workers, gpus, fates, Switch
<1>22. CASE StartProcessing
  BY <1>22 DEF IInv, GotoC, TypeOK, vars, flags, lists, work, callers, workers, gpus, fates, StartProcessing
<1>23. CASE StopProcessing
  BY <1>23 DEF IInv, GotoC, TypeOK, vars, flags, lists, work, callers, workers, gpus, fates, StopProcessing
<1>24. CASE StopWorkerThreads
  BY <1>24 DEF IInv, GotoC, TypeOK, vars, flags, lists, work, callers, workers, gpus, fates, StopWorkerThreads
<1>25. CASE StopGpus
  BY <1>25 DEF IInv, GotoC, TypeOK, vars, flags, lists, work, callers, workers, gpus, fates, StopGpus
<1>26. CASE Return
  BY <1>26 DEF IInv, GotoC, TypeOK, vars, flags, lists, work, callers, workers, gpus, fates, Return
<1>27. CASE OtherSolves
  BY <1>27 DEF IInv, GotoC, TypeOK, vars, flags, lists, work, callers, workers, gpus, fates, OtherSolves
<1>28. CASE UNCHANGED vars
  BY <1>28 DEF IInv, GotoC, TypeOK, vars, flags, lists, work, callers, workers, gpus, fates
<1> QED
  BY <1>1, <1>2, <1>3, <1>4, <1>5, <1>6, <1>7, <1>8, <1>9, <1>10, <1>11, <1>12, <1>13, <1>14, <1>15, <1>16, <1>17, <1>18, <1>19, <1>20, <1>21, <1>22, <1>23, <1>24, <1>25, <1>26, <1>27, <1>28
     DEF Next, SolvePoint, processing_thread, WorkerThread, GpuThread, CheckNewPoints, Callers
LEMMA PendingStep ==
  ASSUME IInv, [Next]_vars
  PROVE  PendingExact'
<1>1. ASSUME NEW c \in Callers, CheckEmpty(c)
      PROVE  PendingExact'
  BY <1>1 DEF IInv, PendingExact, Working, vars, work, workers, CheckEmpty
<1>2. ASSUME NEW c \in Callers, Copy(c)
      PROVE  PendingExact'
  BY <1>2 DEF IInv, PendingExact, Working, vars, work, workers, Copy
<1>3. ASSUME NEW c \in Callers, Dispatch(c)
      PROVE  PendingExact'
  <2>1. cnt[c] \in Nat \ {0}
    BY <1>3 DEF IInv, TypeOK, BoundsInv, Dispatch
  <2>2. Chunks(cnt[c]) \in Seq([start : Nat, end : Nat])
        /\ Len(Chunks(cnt[c])) = NumChunks(cnt[c]) /\ NumChunks(cnt[c]) \in Nat
    BY <2>1, ChunksType, ChunkNumbers
  <2> DEFINE S == [start : Nat, end : Nat]
  <2>3a. gWorkQueue \in Seq(S) /\ Chunks(cnt[c]) \in Seq(S)
    BY <2>2 DEF IInv, TypeOK
  <2> HIDE DEF S
  <2>3b. Len(gWorkQueue \o Chunks(cnt[c])) = Len(gWorkQueue) + Len(Chunks(cnt[c]))
    BY <2>3a, ConcatProperties
  <2>3. Len(gWorkQueue') = Len(gWorkQueue) + NumChunks(cnt[c])
    BY <2>2, <2>3b, <1>3, Zenon DEF Dispatch
  <2>4. Working' = Working
    BY <1>3 DEF Working, Dispatch, workers
  <2>5. Len(gWorkQueue) \in Nat /\ Cardinality(Working) \in Nat
    BY WorkingFinite, LenProperties DEF IInv, TypeOK
  <2> QED BY <2>2, <2>3, <2>4, <2>5, <1>3 DEF IInv, PendingExact, Dispatch
<1>4. ASSUME NEW c \in Callers, Fallback(c)
      PROVE  PendingExact'
  BY <1>4 DEF IInv, PendingExact, Working, vars, work, workers, Fallback
<1>5. ASSUME NEW c \in Callers, WaitDone(c)
      PROVE  PendingExact'
  BY <1>5 DEF IInv, PendingExact, Working, vars, work, workers, WaitDone
<1>6. ASSUME NEW c \in Callers, SingleStep(c)
      PROVE  PendingExact'
  BY <1>6 DEF IInv, PendingExact, Working, vars, work, workers, SingleStep
<1>7. ASSUME NEW c \in Callers, SingleDone(c)
      PROVE  PendingExact'
  BY <1>7 DEF IInv, PendingExact, Working, vars, work, workers, SingleDone
<1>8. ASSUME NEW w \in Workers, WorkerTop(w)
      PROVE  PendingExact'
  <2>1. Working' = Working
    BY <1>8 DEF IInv, TypeOK, Working, WorkerTop
  <2> QED BY <2>1, <1>8 DEF IInv, PendingExact, WorkerTop, work
<1>9. ASSUME NEW w \in Workers, WorkerNothing(w)
      PROVE  PendingExact'
  <2>1. Working' = Working
    BY <1>9 DEF IInv, TypeOK, Working, WorkerNothing
  <2> QED BY <2>1, <1>9 DEF IInv, PendingExact, WorkerNothing, work
<1>10. ASSUME NEW w \in Workers, WorkerTake(w)
      PROVE  PendingExact'
  <2>1. Working' = Working \cup {w} /\ w \notin Working
    BY <1>10 DEF IInv, TypeOK, Working, WorkerTake
  <2>2. Cardinality(Working') = Cardinality(Working) + 1
    BY <2>1, WorkingFinite, FS_AddElement DEF IInv
  <2> DEFINE S == [start : Nat, end : Nat]
  <2>3. gWorkQueue \in Seq(S)
    BY DEF IInv, TypeOK
  <2> HIDE DEF S
  <2>4. Len(gWorkQueue) \in Nat \ {0}
    BY <2>3, <1>10, EmptySeq DEF WorkerTake
  <2>5. Len(gWorkQueue') = Len(gWorkQueue) - 1
    <3>1. \A i \in 1 .. Len(gWorkQueue) - 1 : gWorkQueue[i] \in S
      <4> TAKE i \in 1 .. Len(gWorkQueue) - 1
      <4>1. i \in 1 .. Len(gWorkQueue)
        BY <2>4
      <4> QED BY <2>3, <4>1, ElementOfSeq
    <3>2. Len(gWorkQueue) - 1 \in Int /\ 1 \in Int
      BY <2>4
    <3>3. Len(SubSeq(gWorkQueue, 1, Len(gWorkQueue) - 1))
            = IF 1 <= Len(gWorkQueue) - 1 THEN Len(gWorkQueue) - 1 - 1 + 1 ELSE 0
      BY <3>1, <3>2, SubSeqProperties
    <3>4. gWorkQueue' = SubSeq(gWorkQueue, 1, Len(gWorkQueue) - 1)
      BY <1>10 DEF WorkerTake
    <3>5. Len(gWorkQueue') = IF 1 <= Len(gWorkQueue) - 1 THEN Len(gWorkQueue) - 1 - 1 + 1 ELSE 0
      BY <3>3, <3>4, Zenon
    <3> QED BY <3>5, <2>4, SMT
  <2>6. Cardinality(Working) \in Nat
    BY WorkingFinite DEF IInv
  <2> QED BY <2>2, <2>4, <2>5, <2>6, <1>10 DEF IInv, PendingExact, WorkerTake
<1>11. ASSUME NEW w \in Workers, WorkerStep(w)
      PROVE  PendingExact'
  <2>1. Working' = Working
    BY <1>11 DEF Working, WorkerStep
  <2> QED BY <2>1, <1>11 DEF IInv, PendingExact, WorkerStep, work
<1>12. ASSUME NEW w \in Workers, WorkerDone(w)
      PROVE  PendingExact'
  <2>1. w \in Working /\ Working' = Working \ {w}
    BY <1>12 DEF IInv, TypeOK, Working, WorkerDone
  <2>2. Cardinality(Working') = Cardinality(Working) - 1
    BY <2>1, WorkingFinite, FS_RemoveElement DEF IInv
  <2>3. Len(gWorkQueue) \in Nat /\ Cardinality(Working) \in Nat
    BY WorkingFinite, LenProperties DEF IInv, TypeOK
  <2> QED BY <2>2, <2>3, <1>12 DEF IInv, PendingExact, WorkerDone
<1>13. ASSUME NEW g \in Gpus, Kernel(g)
      PROVE  PendingExact'
  BY <1>13 DEF IInv, PendingExact, Working, vars, work, workers, Kernel
<1>14. ASSUME NEW g \in Gpus, AddPointsToList(g)
      PROVE  PendingExact'
  BY <1>14 DEF IInv, PendingExact, Working, vars, work, workers, AddPointsToList
<1>15. ASSUME NEW g \in Gpus, GpuExit(g)
      PROVE  PendingExact'
  BY <1>15 DEF IInv, PendingExact, Working, vars, work, workers, GpuExit
<1>16. ASSUME NEW g \in Gpus, ReinitForHunt(g)
      PROVE  PendingExact'
  BY <1>16 DEF IInv, PendingExact, Working, vars, work, workers, ReinitForHunt
<1>17. CASE ProcTop
  BY <1>17 DEF IInv, PendingExact, Working, vars, work, workers, ProcTop
<1>18. CASE ProcTail
  BY <1>18 DEF IInv, PendingExact, Working, vars, work, workers, ProcTail
<1>19. CASE MainTop
  BY <1>19 DEF IInv, PendingExact, Working, vars, work, workers, MainTop
<1>20. CASE MainTail
  BY <1>20 DEF IInv, PendingExact, Working, vars, work, workers, MainTail
<1>21. CASE Switch
  BY <1>21 DEF IInv, PendingExact, Working, vars, work, workers, Switch
<1>22. CASE StartProcessing
  BY <1>22 DEF IInv, PendingExact, Working, vars, work, workers, StartProcessing
<1>23. CASE StopProcessing
  BY <1>23 DEF IInv, PendingExact, Working, vars, work, workers, StopProcessing
<1>24. CASE StopWorkerThreads
  BY <1>24 DEF IInv, PendingExact, Working, vars, work, workers, StopWorkerThreads
<1>25. CASE StopGpus
  BY <1>25 DEF IInv, PendingExact, Working, vars, work, workers, StopGpus
<1>26. CASE Return
  BY <1>26 DEF IInv, PendingExact, Working, vars, work, workers, Return
<1>27. CASE OtherSolves
  BY <1>27 DEF IInv, PendingExact, Working, vars, work, workers, OtherSolves
<1>28. CASE UNCHANGED vars
  BY <1>28 DEF IInv, PendingExact, Working, vars, work, workers
<1> QED
  BY <1>1, <1>2, <1>3, <1>4, <1>5, <1>6, <1>7, <1>8, <1>9, <1>10, <1>11, <1>12, <1>13, <1>14, <1>15, <1>16, <1>17, <1>18, <1>19, <1>20, <1>21, <1>22, <1>23, <1>24, <1>25, <1>26, <1>27, <1>28
     DEF Next, SolvePoint, processing_thread, WorkerThread, GpuThread, CheckNewPoints, Callers

LEMMA CallerStep ==
  ASSUME IInv, [Next]_vars
  PROVE  CallerInv'
<1>1. ASSUME NEW c \in Callers, CheckEmpty(c)
      PROVE  CallerInv'
  BY <1>1 DEF IInv, TypeOK, CallerInv, Inside, Using, Callers, Main, Proc, GotoC, vars, flags, callers, CheckEmpty
<1>2. ASSUME NEW c \in Callers, Copy(c)
      PROVE  CallerInv'
  BY <1>2 DEF IInv, TypeOK, CallerInv, Inside, Using, Callers, Main, Proc, GotoC, vars, flags, callers, Copy
<1>3. ASSUME NEW c \in Callers, Dispatch(c)
      PROVE  CallerInv'
  BY <1>3 DEF IInv, TypeOK, CallerInv, Inside, Using, Callers, Main, Proc, GotoC, vars, flags, callers, Dispatch
<1>4. ASSUME NEW c \in Callers, Fallback(c)
      PROVE  CallerInv'
  BY <1>4 DEF IInv, TypeOK, CallerInv, Inside, Using, Callers, Main, Proc, GotoC, vars, flags, callers, Fallback
<1>5. ASSUME NEW c \in Callers, WaitDone(c)
      PROVE  CallerInv'
  BY <1>5 DEF IInv, TypeOK, CallerInv, Inside, Using, Callers, Main, Proc, GotoC, vars, flags, callers, WaitDone
<1>6. ASSUME NEW c \in Callers, SingleStep(c)
      PROVE  CallerInv'
  <2>1. UNCHANGED <<gTrapPhase, cpc>>
    BY <1>6 DEF SingleStep, Handle
  <2> QED BY <2>1 DEF IInv, CallerInv, Inside, Using
<1>7. ASSUME NEW c \in Callers, SingleDone(c)
      PROVE  CallerInv'
  BY <1>7 DEF IInv, TypeOK, CallerInv, Inside, Using, Callers, Main, Proc, GotoC, vars, flags, callers, SingleDone
<1>8. ASSUME NEW w \in Workers, WorkerTop(w)
      PROVE  CallerInv'
  BY <1>8 DEF IInv, TypeOK, CallerInv, Inside, Using, Callers, Main, Proc, GotoC, vars, flags, callers, WorkerTop
<1>9. ASSUME NEW w \in Workers, WorkerNothing(w)
      PROVE  CallerInv'
  BY <1>9 DEF IInv, TypeOK, CallerInv, Inside, Using, Callers, Main, Proc, GotoC, vars, flags, callers, WorkerNothing
<1>10. ASSUME NEW w \in Workers, WorkerTake(w)
      PROVE  CallerInv'
  BY <1>10 DEF IInv, TypeOK, CallerInv, Inside, Using, Callers, Main, Proc, GotoC, vars, flags, callers, WorkerTake
<1>11. ASSUME NEW w \in Workers, WorkerStep(w)
      PROVE  CallerInv'
  <2>1. UNCHANGED <<gTrapPhase, cpc>>
    BY <1>11 DEF WorkerStep, Handle, callers
  <2> QED BY <2>1 DEF IInv, CallerInv, Inside, Using
<1>12. ASSUME NEW w \in Workers, WorkerDone(w)
      PROVE  CallerInv'
  BY <1>12 DEF IInv, TypeOK, CallerInv, Inside, Using, Callers, Main, Proc, GotoC, vars, flags, callers, WorkerDone
<1>13. ASSUME NEW g \in Gpus, Kernel(g)
      PROVE  CallerInv'
  BY <1>13 DEF IInv, TypeOK, CallerInv, Inside, Using, Callers, Main, Proc, GotoC, vars, flags, callers, Kernel
<1>14. ASSUME NEW g \in Gpus, AddPointsToList(g)
      PROVE  CallerInv'
  BY <1>14 DEF IInv, TypeOK, CallerInv, Inside, Using, Callers, Main, Proc, GotoC, vars, flags, callers, AddPointsToList
<1>15. ASSUME NEW g \in Gpus, GpuExit(g)
      PROVE  CallerInv'
  BY <1>15 DEF IInv, TypeOK, CallerInv, Inside, Using, Callers, Main, Proc, GotoC, vars, flags, callers, GpuExit
<1>16. ASSUME NEW g \in Gpus, ReinitForHunt(g)
      PROVE  CallerInv'
  BY <1>16 DEF IInv, TypeOK, CallerInv, Inside, Using, Callers, Main, Proc, GotoC, vars, flags, callers, ReinitForHunt
<1>17. CASE ProcTop
  BY <1>17 DEF IInv, TypeOK, CallerInv, Inside, Using, Callers, Main, Proc, GotoC, vars, flags, callers, ProcTop
<1>18. CASE ProcTail
  BY <1>18 DEF IInv, TypeOK, CallerInv, Inside, Using, Callers, Main, Proc, GotoC, vars, flags, callers, ProcTail
<1>19. CASE MainTop
  BY <1>19 DEF IInv, TypeOK, CallerInv, Inside, Using, Callers, Main, Proc, GotoC, vars, flags, callers, MainTop
<1>20. CASE MainTail
  BY <1>20 DEF IInv, TypeOK, CallerInv, Inside, Using, Callers, Main, Proc, GotoC, vars, flags, callers, MainTail
<1>21. CASE Switch
  BY <1>21 DEF IInv, TypeOK, CallerInv, Inside, Using, Callers, Main, Proc, GotoC, vars, flags, callers, Switch
<1>22. CASE StartProcessing
  BY <1>22 DEF IInv, TypeOK, CallerInv, Inside, Using, Callers, Main, Proc, GotoC, vars, flags, callers, StartProcessing
<1>23. CASE StopProcessing
  BY <1>23 DEF IInv, TypeOK, CallerInv, Inside, Using, Callers, Main, Proc, GotoC, vars, flags, callers, StopProcessing
<1>24. CASE StopWorkerThreads
  BY <1>24 DEF IInv, TypeOK, CallerInv, Inside, Using, Callers, Main, Proc, GotoC, vars, flags, callers, StopWorkerThreads
<1>25. CASE StopGpus
  BY <1>25 DEF IInv, TypeOK, CallerInv, Inside, Using, Callers, Main, Proc, GotoC, vars, flags, callers, StopGpus
<1>26. CASE Return
  BY <1>26 DEF IInv, TypeOK, CallerInv, Inside, Using, Callers, Main, Proc, GotoC, vars, flags, callers, Return
<1>27. CASE OtherSolves
  BY <1>27 DEF IInv, TypeOK, CallerInv, Inside, Using, Callers, Main, Proc, GotoC, vars, flags, callers, OtherSolves
<1>28. CASE UNCHANGED vars
  BY <1>28 DEF IInv, TypeOK, CallerInv, Inside, Using, Callers, Main, Proc, GotoC, vars, flags, callers
<1> QED
  BY <1>1, <1>2, <1>3, <1>4, <1>5, <1>6, <1>7, <1>8, <1>9, <1>10, <1>11, <1>12, <1>13, <1>14, <1>15, <1>16, <1>17, <1>18, <1>19, <1>20, <1>21, <1>22, <1>23, <1>24, <1>25, <1>26, <1>27, <1>28
     DEF Next, SolvePoint, processing_thread, WorkerThread, GpuThread, CheckNewPoints, Callers

LEMMA WaitStep ==
  ASSUME IInv, [Next]_vars
  PROVE  WaitInv'
<1>1. ASSUME NEW c \in Callers, CheckEmpty(c)
      PROVE  WaitInv'
  BY <1>1 DEF IInv, TypeOK, WaitInv, CallerInv, Inside, Using, Callers, Main, Proc, GotoC, vars, flags, callers, work, CheckEmpty
<1>2. ASSUME NEW c \in Callers, Copy(c)
      PROVE  WaitInv'
  BY <1>2 DEF IInv, TypeOK, WaitInv, CallerInv, Inside, Using, Callers, Main, Proc, GotoC, vars, flags, callers, work, Copy
<1>3. ASSUME NEW c \in Callers, Dispatch(c)
      PROVE  WaitInv'
  BY <1>3 DEF IInv, TypeOK, WaitInv, CallerInv, Inside, Using, Callers, Main, Proc, GotoC, vars, flags, callers, work, Dispatch
<1>4. ASSUME NEW c \in Callers, Fallback(c)
      PROVE  WaitInv'
  BY <1>4 DEF IInv, TypeOK, WaitInv, CallerInv, Inside, Using, Callers, Main, Proc, GotoC, vars, flags, callers, work, Fallback
<1>5. ASSUME NEW c \in Callers, WaitDone(c)
      PROVE  WaitInv'
  <2>1. ~(gPendingChunks > 0) \/ gSolved
    BY <1>5 DEF WaitDone, WaitOver
  <2>2. \A b \in Callers : b # c => cpc'[b] = cpc[b]
    BY <1>5 DEF IInv, TypeOK, WaitDone, GotoC
  <2>3. cpc'[c] = "tail" /\ UNCHANGED <<gPendingChunks, gSolved>>
    BY <1>5 DEF IInv, TypeOK, WaitDone, GotoC, flags, work
  <2> QED BY <2>1, <2>2, <2>3, Zenon DEF IInv, WaitInv
<1>6. ASSUME NEW c \in Callers, SingleStep(c)
      PROVE  WaitInv'
  <2>1. UNCHANGED <<gPendingChunks, cpc>> /\ (gSolved => gSolved')
    BY <1>6, HandledInCopy, HandleEffect DEF SingleStep, work, IInv
  <2> QED BY <2>1 DEF IInv, WaitInv
<1>7. ASSUME NEW c \in Callers, SingleDone(c)
      PROVE  WaitInv'
  BY <1>7 DEF IInv, TypeOK, WaitInv, CallerInv, Inside, Using, Callers, Main, Proc, GotoC, vars, flags, callers, work, SingleDone
<1>8. ASSUME NEW w \in Workers, WorkerTop(w)
      PROVE  WaitInv'
  BY <1>8 DEF IInv, TypeOK, WaitInv, CallerInv, Inside, Using, Callers, Main, Proc, GotoC, vars, flags, callers, work, WorkerTop
<1>9. ASSUME NEW w \in Workers, WorkerNothing(w)
      PROVE  WaitInv'
  BY <1>9 DEF IInv, TypeOK, WaitInv, CallerInv, Inside, Using, Callers, Main, Proc, GotoC, vars, flags, callers, work, WorkerNothing
<1>10. ASSUME NEW w \in Workers, WorkerTake(w)
      PROVE  WaitInv'
  BY <1>10 DEF IInv, TypeOK, WaitInv, CallerInv, Inside, Using, Callers, Main, Proc, GotoC, vars, flags, callers, work, WorkerTake
<1>11. ASSUME NEW w \in Workers, WorkerStep(w)
      PROVE  WaitInv'
  <2>1. UNCHANGED <<gPendingChunks, cpc>> /\ (gSolved => gSolved')
    BY <1>11, HandledInCopy, HandleEffect DEF WorkerStep, work, callers, IInv
  <2> QED BY <2>1 DEF IInv, WaitInv
<1>12. ASSUME NEW w \in Workers, WorkerDone(w)
      PROVE  WaitInv'
  <2>1. gPendingChunks # 0 /\ gPendingChunks \in Nat
    <3>1. w \in Working
      BY <1>12 DEF WorkerDone, Working
    <3> QED BY <3>1, NothingPending DEF IInv, TypeOK
  <2>2. gPendingChunks' > 0 => gPendingChunks > 0
    BY <2>1, <1>12 DEF WorkerDone
  <2> QED BY <2>1, <2>2, <1>12 DEF IInv, WaitInv, WorkerDone, callers, flags
<1>13. ASSUME NEW g \in Gpus, Kernel(g)
      PROVE  WaitInv'
  BY <1>13 DEF IInv, TypeOK, WaitInv, CallerInv, Inside, Using, Callers, Main, Proc, GotoC, vars, flags, callers, work, Kernel
<1>14. ASSUME NEW g \in Gpus, AddPointsToList(g)
      PROVE  WaitInv'
  BY <1>14 DEF IInv, TypeOK, WaitInv, CallerInv, Inside, Using, Callers, Main, Proc, GotoC, vars, flags, callers, work, AddPointsToList
<1>15. ASSUME NEW g \in Gpus, GpuExit(g)
      PROVE  WaitInv'
  BY <1>15 DEF IInv, TypeOK, WaitInv, CallerInv, Inside, Using, Callers, Main, Proc, GotoC, vars, flags, callers, work, GpuExit
<1>16. ASSUME NEW g \in Gpus, ReinitForHunt(g)
      PROVE  WaitInv'
  BY <1>16 DEF IInv, TypeOK, WaitInv, CallerInv, Inside, Using, Callers, Main, Proc, GotoC, vars, flags, callers, work, ReinitForHunt
<1>17. CASE ProcTop
  BY <1>17 DEF IInv, TypeOK, WaitInv, CallerInv, Inside, Using, Callers, Main, Proc, GotoC, vars, flags, callers, work, ProcTop
<1>18. CASE ProcTail
  BY <1>18 DEF IInv, TypeOK, WaitInv, CallerInv, Inside, Using, Callers, Main, Proc, GotoC, vars, flags, callers, work, ProcTail
<1>19. CASE MainTop
  BY <1>19 DEF IInv, TypeOK, WaitInv, CallerInv, Inside, Using, Callers, Main, Proc, GotoC, vars, flags, callers, work, MainTop
<1>20. CASE MainTail
  BY <1>20 DEF IInv, TypeOK, WaitInv, CallerInv, Inside, Using, Callers, Main, Proc, GotoC, vars, flags, callers, work, MainTail
<1>21. CASE Switch
  BY <1>21 DEF IInv, TypeOK, WaitInv, CallerInv, Inside, Using, Callers, Main, Proc, GotoC, vars, flags, callers, work, Switch
<1>22. CASE StartProcessing
  BY <1>22 DEF IInv, TypeOK, WaitInv, CallerInv, Inside, Using, Callers, Main, Proc, GotoC, vars, flags, callers, work, StartProcessing
<1>23. CASE StopProcessing
  BY <1>23 DEF IInv, TypeOK, WaitInv, CallerInv, Inside, Using, Callers, Main, Proc, GotoC, vars, flags, callers, work, StopProcessing
<1>24. CASE StopWorkerThreads
  BY <1>24 DEF IInv, TypeOK, WaitInv, CallerInv, Inside, Using, Callers, Main, Proc, GotoC, vars, flags, callers, work, StopWorkerThreads
<1>25. CASE StopGpus
  BY <1>25 DEF IInv, TypeOK, WaitInv, CallerInv, Inside, Using, Callers, Main, Proc, GotoC, vars, flags, callers, work, StopGpus
<1>26. CASE Return
  BY <1>26 DEF IInv, TypeOK, WaitInv, CallerInv, Inside, Using, Callers, Main, Proc, GotoC, vars, flags, callers, work, Return
<1>27. CASE OtherSolves
  BY <1>27 DEF IInv, TypeOK, WaitInv, CallerInv, Inside, Using, Callers, Main, Proc, GotoC, vars, flags, callers, work, OtherSolves
<1>28. CASE UNCHANGED vars
  BY <1>28 DEF IInv, TypeOK, WaitInv, CallerInv, Inside, Using, Callers, Main, Proc, GotoC, vars, flags, callers, work
<1> QED
  BY <1>1, <1>2, <1>3, <1>4, <1>5, <1>6, <1>7, <1>8, <1>9, <1>10, <1>11, <1>12, <1>13, <1>14, <1>15, <1>16, <1>17, <1>18, <1>19, <1>20, <1>21, <1>22, <1>23, <1>24, <1>25, <1>26, <1>27, <1>28
     DEF Next, SolvePoint, processing_thread, WorkerThread, GpuThread, CheckNewPoints, Callers
LEMMA BoundsStep ==
  ASSUME IInv, [Next]_vars
  PROVE  BoundsInv'
<1>1. ASSUME NEW c \in Callers, CheckEmpty(c)
      PROVE  BoundsInv'
  BY <1>1 DEF IInv, TypeOK, BoundsInv, Working, Callers, Main, Proc, GotoC, vars, lists, work, callers, workers, CheckEmpty
<1>2. ASSUME NEW c \in Callers, Copy(c)
      PROVE  BoundsInv'
  <2>1. gPendingChunks = 0
    BY <1>2 DEF IInv, WaitInv, Copy
  <2>2. gWorkQueue = <<>> /\ Working = {}
    BY <2>1, NothingPending DEF IInv
  <2>3. UNCHANGED <<gWorkQueue, wpc, chunk>>
    BY <1>2 DEF Copy, work, workers
  <2>4. DOMAIN gWorkQueue' = {} /\ Working' = {}
    BY <2>2, <2>3 DEF Working
  <2>5. Len(pPntList2') \in Nat \ {0} /\ Len(pPntList2') = Len(pPntList)
    BY <1>2, EmptySeq DEF IInv, TypeOK, Copy
  <2>6. cnt'[c] = Len(pPntList) /\ cpc' = [cpc EXCEPT ![c] = "split"]
    BY <1>2 DEF IInv, TypeOK, Copy, GotoC
  <2>7. \A b \in Callers : b # c => cpc'[b] \notin {"split", "single"}
    BY <2>6, <1>2 DEF IInv, TypeOK, CallerInv, Copy, Callers, Main, Proc, Inside, Using
  <2> QED BY <2>4, <2>5, <2>6, <2>7 DEF BoundsInv
<1>3. ASSUME NEW c \in Callers, Dispatch(c)
      PROVE  BoundsInv'
  <2>1. cnt[c] \in Nat \ {0} /\ cnt[c] = Len(pPntList2)
    BY <1>3 DEF IInv, TypeOK, BoundsInv, Dispatch
  <2> DEFINE S == [start : Nat, end : Nat]
             new == Chunks(cnt[c])
  <2>2. gWorkQueue \in Seq(S) /\ new \in Seq(S) /\ Len(new) = NumChunks(cnt[c])
        /\ \A k \in 1 .. NumChunks(cnt[c]) : new[k].end <= cnt[c]
    BY <2>1, ChunksType DEF IInv, TypeOK
  <2> HIDE DEF S, new
  <2>3. /\ gWorkQueue \o new \in Seq(S)
        /\ Len(gWorkQueue \o new) = Len(gWorkQueue) + Len(new)
        /\ \A i \in 1 .. Len(gWorkQueue) + Len(new) :
             (gWorkQueue \o new)[i] = IF i <= Len(gWorkQueue) THEN gWorkQueue[i]
                                      ELSE new[i - Len(gWorkQueue)]
    BY <2>2, ConcatProperties
  <2>4. Len(gWorkQueue) \in Nat /\ Len(new) \in Nat
        /\ DOMAIN gWorkQueue = 1 .. Len(gWorkQueue)
        /\ DOMAIN (gWorkQueue \o new) = 1 .. Len(gWorkQueue \o new)
    BY <2>2, <2>3, LenProperties
  <2>5. \A k \in DOMAIN (gWorkQueue \o new) : (gWorkQueue \o new)[k].end <= Len(pPntList2)
    <3> TAKE k \in DOMAIN (gWorkQueue \o new)
    <3>1. k \in 1 .. Len(gWorkQueue) + Len(new)
      BY <2>3, <2>4
    <3>2. CASE k <= Len(gWorkQueue)
      BY <3>1, <3>2, <2>3, <2>4 DEF IInv, BoundsInv
    <3>3. CASE ~(k <= Len(gWorkQueue))
      <4>1. k - Len(gWorkQueue) \in 1 .. NumChunks(cnt[c])
        BY <3>1, <3>3, <2>2, <2>4
      <4>2. (gWorkQueue \o new)[k] = new[k - Len(gWorkQueue)]
        BY <3>1, <3>3, <2>3
      <4> QED BY <4>1, <4>2, <2>1, <2>2
    <3> QED BY <3>2, <3>3
  <2>6. gWorkQueue' = gWorkQueue \o new
    BY <1>3 DEF Dispatch, new
  <2>7. UNCHANGED <<pPntList2, wpc, chunk, cnt>> /\ cpc' = [cpc EXCEPT ![c] = "wait"]
    BY <1>3 DEF Dispatch, lists, workers, GotoC
  <2>8. \A k \in DOMAIN gWorkQueue' : gWorkQueue'[k].end <= Len(pPntList2')
    BY <2>5, <2>6, <2>7
  <2>9. \A w \in Working' : chunk'[w].end <= Len(pPntList2')
    BY <2>7 DEF IInv, BoundsInv, Working
  <2>10. \A b \in Callers : cpc'[b] \in {"split", "single"} => cpc'[b] = cpc[b]
    BY <2>7 DEF IInv, TypeOK
  <2> QED BY <2>7, <2>8, <2>9, <2>10 DEF IInv, BoundsInv
<1>4. ASSUME NEW c \in Callers, Fallback(c)
      PROVE  BoundsInv'
  BY <1>4 DEF IInv, TypeOK, BoundsInv, Working, Callers, Main, Proc, GotoC, vars, lists, work, callers, workers, Fallback
<1>5. ASSUME NEW c \in Callers, WaitDone(c)
      PROVE  BoundsInv'
  BY <1>5 DEF IInv, TypeOK, BoundsInv, Working, Callers, Main, Proc, GotoC, vars, lists, work, callers, workers, WaitDone
<1>6. ASSUME NEW c \in Callers, SingleStep(c)
      PROVE  BoundsInv'
  <2>1. UNCHANGED <<gWorkQueue, pPntList2, wpc, chunk, cpc, cnt>>
    BY <1>6 DEF SingleStep, lists, work, workers
  <2> QED BY <2>1 DEF IInv, BoundsInv, Working
<1>7. ASSUME NEW c \in Callers, SingleDone(c)
      PROVE  BoundsInv'
  BY <1>7 DEF IInv, TypeOK, BoundsInv, Working, Callers, Main, Proc, GotoC, vars, lists, work, callers, workers, SingleDone
<1>8. ASSUME NEW w \in Workers, WorkerTop(w)
      PROVE  BoundsInv'
  BY <1>8 DEF IInv, TypeOK, BoundsInv, Working, Callers, Main, Proc, GotoC, vars, lists, work, callers, workers, WorkerTop
<1>9. ASSUME NEW w \in Workers, WorkerNothing(w)
      PROVE  BoundsInv'
  BY <1>9 DEF IInv, TypeOK, BoundsInv, Working, Callers, Main, Proc, GotoC, vars, lists, work, callers, workers, WorkerNothing
<1>10. ASSUME NEW w \in Workers, WorkerTake(w)
      PROVE  BoundsInv'
  <2> DEFINE S == [start : Nat, end : Nat]
             q == SubSeq(gWorkQueue, 1, Len(gWorkQueue) - 1)
  <2>1. gWorkQueue \in Seq(S)
    BY DEF IInv, TypeOK
  <2> HIDE DEF S
  <2>2. Len(gWorkQueue) \in Nat \ {0} /\ DOMAIN gWorkQueue = 1 .. Len(gWorkQueue)
    BY <2>1, <1>10, EmptySeq, LenProperties DEF WorkerTake
  <2>3. gWorkQueue[Len(gWorkQueue)].end <= Len(pPntList2)
    BY <2>2 DEF IInv, BoundsInv
  <2>4. \A i \in 1 .. Len(gWorkQueue) - 1 : gWorkQueue[i] \in S
    <3> TAKE i \in 1 .. Len(gWorkQueue) - 1
    <3>1. i \in 1 .. Len(gWorkQueue)
      BY <2>2
    <3> QED BY <2>1, <3>1, ElementOfSeq
  <2>5. Len(gWorkQueue) - 1 \in Int /\ 1 \in Int
    BY <2>2
  <2>6. /\ q \in Seq(S)
        /\ Len(q) = IF 1 <= Len(gWorkQueue) - 1 THEN Len(gWorkQueue) - 1 - 1 + 1 ELSE 0
        /\ \A i \in 1 .. Len(gWorkQueue) - 1 - 1 + 1 : q[i] = gWorkQueue[1 + i - 1]
    BY <2>4, <2>5, SubSeqProperties
  <2> HIDE DEF q
  <2>7. DOMAIN q = 1 .. Len(q) /\ Len(q) = Len(gWorkQueue) - 1
    <3>1. DOMAIN q = 1 .. Len(q)
      BY <2>6, LenProperties
    <3>2. Len(q) = IF 1 <= Len(gWorkQueue) - 1 THEN Len(gWorkQueue) - 1 - 1 + 1 ELSE 0
      BY <2>6
    <3> DEFINE m == Len(gWorkQueue)  r == Len(q)
    <3>3. m \in Nat \ {0} /\ r = IF 1 <= m - 1 THEN m - 1 - 1 + 1 ELSE 0
      BY <2>2, <3>2
    <3> HIDE DEF m, r
    <3>4. r = m - 1
      BY <3>3
    <3> QED BY <3>1, <3>4 DEF m, r
  <2>8. \A i \in DOMAIN q : i \in DOMAIN gWorkQueue /\ q[i] = gWorkQueue[i]
    <3> TAKE i \in DOMAIN q
    <3>1. i \in 1 .. Len(gWorkQueue) - 1 /\ i \in Nat
      BY <2>2, <2>7
    <3>2. i \in 1 .. Len(gWorkQueue) - 1 - 1 + 1 /\ 1 + i - 1 = i /\ i \in 1 .. Len(gWorkQueue)
      BY <2>2, <3>1
    <3> QED BY <2>2, <2>6, <3>2
  <2>9. gWorkQueue' = q /\ UNCHANGED <<pPntList2, cpc, cnt>>
    BY <1>10 DEF WorkerTake, lists, callers, q
  <2>10. \A v \in Working' : v \in Working \/ (v = w /\ chunk'[v].end <= Len(pPntList2))
    BY <2>3, <1>10 DEF IInv, TypeOK, Working, WorkerTake
  <2>11. \A v \in Working' : v # w => v \in Working /\ chunk'[v] = chunk[v]
    BY <1>10 DEF IInv, TypeOK, Working, WorkerTake
  <2>12. w \notin Working
    BY <1>10 DEF Working, WorkerTake
  <2>13. \A v \in Working' : chunk'[v].end <= Len(pPntList2')
    BY <2>9, <2>10, <2>11, <2>12 DEF IInv, BoundsInv
  <2>14. \A k \in DOMAIN gWorkQueue' : gWorkQueue'[k].end <= Len(pPntList2')
    BY <2>8, <2>9 DEF IInv, BoundsInv
  <2> QED BY <2>9, <2>13, <2>14 DEF IInv, BoundsInv
<1>11. ASSUME NEW w \in Workers, WorkerStep(w)
      PROVE  BoundsInv'
  <2>1. UNCHANGED <<gWorkQueue, pPntList2, wpc, cpc, cnt>>
    BY <1>11 DEF WorkerStep, lists, work, callers
  <2>2. \A v \in Workers : chunk'[v].end = chunk[v].end
    BY <1>11 DEF IInv, TypeOK, WorkerStep
  <2> QED BY <2>1, <2>2 DEF IInv, BoundsInv, Working
<1>12. ASSUME NEW w \in Workers, WorkerDone(w)
      PROVE  BoundsInv'
  BY <1>12 DEF IInv, TypeOK, BoundsInv, Working, Callers, Main, Proc, GotoC, vars, lists, work, callers, workers, WorkerDone
<1>13. ASSUME NEW g \in Gpus, Kernel(g)
      PROVE  BoundsInv'
  BY <1>13 DEF IInv, TypeOK, BoundsInv, Working, Callers, Main, Proc, GotoC, vars, lists, work, callers, workers, Kernel
<1>14. ASSUME NEW g \in Gpus, AddPointsToList(g)
      PROVE  BoundsInv'
  BY <1>14 DEF IInv, TypeOK, BoundsInv, Working, Callers, Main, Proc, GotoC, vars, lists, work, callers, workers, AddPointsToList
<1>15. ASSUME NEW g \in Gpus, GpuExit(g)
      PROVE  BoundsInv'
  BY <1>15 DEF IInv, TypeOK, BoundsInv, Working, Callers, Main, Proc, GotoC, vars, lists, work, callers, workers, GpuExit
<1>16. ASSUME NEW g \in Gpus, ReinitForHunt(g)
      PROVE  BoundsInv'
  BY <1>16 DEF IInv, TypeOK, BoundsInv, Working, Callers, Main, Proc, GotoC, vars, lists, work, callers, workers, ReinitForHunt
<1>17. CASE ProcTop
  BY <1>17 DEF IInv, TypeOK, BoundsInv, Working, Callers, Main, Proc, GotoC, vars, lists, work, callers, workers, ProcTop
<1>18. CASE ProcTail
  BY <1>18 DEF IInv, TypeOK, BoundsInv, Working, Callers, Main, Proc, GotoC, vars, lists, work, callers, workers, ProcTail
<1>19. CASE MainTop
  BY <1>19 DEF IInv, TypeOK, BoundsInv, Working, Callers, Main, Proc, GotoC, vars, lists, work, callers, workers, MainTop
<1>20. CASE MainTail
  BY <1>20 DEF IInv, TypeOK, BoundsInv, Working, Callers, Main, Proc, GotoC, vars, lists, work, callers, workers, MainTail
<1>21. CASE Switch
  BY <1>21 DEF IInv, TypeOK, BoundsInv, Working, Callers, Main, Proc, GotoC, vars, lists, work, callers, workers, Switch
<1>22. CASE StartProcessing
  BY <1>22 DEF IInv, TypeOK, BoundsInv, Working, Callers, Main, Proc, GotoC, vars, lists, work, callers, workers, StartProcessing
<1>23. CASE StopProcessing
  BY <1>23 DEF IInv, TypeOK, BoundsInv, Working, Callers, Main, Proc, GotoC, vars, lists, work, callers, workers, StopProcessing
<1>24. CASE StopWorkerThreads
  BY <1>24 DEF IInv, TypeOK, BoundsInv, Working, Callers, Main, Proc, GotoC, vars, lists, work, callers, workers, StopWorkerThreads
<1>25. CASE StopGpus
  BY <1>25 DEF IInv, TypeOK, BoundsInv, Working, Callers, Main, Proc, GotoC, vars, lists, work, callers, workers, StopGpus
<1>26. CASE Return
  BY <1>26 DEF IInv, TypeOK, BoundsInv, Working, Callers, Main, Proc, GotoC, vars, lists, work, callers, workers, Return
<1>27. CASE OtherSolves
  BY <1>27 DEF IInv, TypeOK, BoundsInv, Working, Callers, Main, Proc, GotoC, vars, lists, work, callers, workers, OtherSolves
<1>28. CASE UNCHANGED vars
  BY <1>28 DEF IInv, TypeOK, BoundsInv, Working, Callers, Main, Proc, GotoC, vars, lists, work, callers, workers
<1> QED
  BY <1>1, <1>2, <1>3, <1>4, <1>5, <1>6, <1>7, <1>8, <1>9, <1>10, <1>11, <1>12, <1>13, <1>14, <1>15, <1>16, <1>17, <1>18, <1>19, <1>20, <1>21, <1>22, <1>23, <1>24, <1>25, <1>26, <1>27, <1>28
     DEF Next, SolvePoint, processing_thread, WorkerThread, GpuThread, CheckNewPoints, Callers

LEMMA KindStep ==
  ASSUME IInv, [Next]_vars
  PROVE  KindInv'
<1>1. ASSUME NEW c \in Callers, CheckEmpty(c)
      PROVE  KindInv'
  BY <1>1 DEF IInv, TypeOK, KindInv, KindOf, WildNeverFiled, CallerInv, vars, flags, lists, gpus, fates, CheckEmpty
<1>2. ASSUME NEW c \in Callers, Copy(c)
      PROVE  KindInv'
  BY <1>2 DEF IInv, TypeOK, KindInv, KindOf, WildNeverFiled, CallerInv, vars, flags, lists, gpus, fates, Copy
<1>3. ASSUME NEW c \in Callers, Dispatch(c)
      PROVE  KindInv'
  BY <1>3 DEF IInv, TypeOK, KindInv, KindOf, WildNeverFiled, CallerInv, vars, flags, lists, gpus, fates, Dispatch
<1>4. ASSUME NEW c \in Callers, Fallback(c)
      PROVE  KindInv'
  BY <1>4 DEF IInv, TypeOK, KindInv, KindOf, WildNeverFiled, CallerInv, vars, flags, lists, gpus, fates, Fallback
<1>5. ASSUME NEW c \in Callers, WaitDone(c)
      PROVE  KindInv'
  BY <1>5 DEF IInv, TypeOK, KindInv, KindOf, WildNeverFiled, CallerInv, vars, flags, lists, gpus, fates, WaitDone
<1>6. ASSUME NEW c \in Callers, SingleStep(c)
      PROVE  KindInv'
  <2> DEFINE d == pPntList2[idx[c] + 1]
  <2>1. d \in Dps /\ HandledD(d)
    BY <1>6, HandledInCopy, HandleEffect DEF HandledD, SingleStep, IInv
  <2>2. UNCHANGED <<gTrapPhase, pPntList, pPntList2, wildsOnly, out>>
    BY <2>1, <1>6 DEF HandledD, SingleStep, lists, gpus
  <2>3. FileFirst(d) => d.gen = "TAME"
    BY <1>6, HandledInCopy DEF IInv, KindInv, KindOf, FileFirst
  <2>4. \A e \in filed' : e.gen = "TAME"
    BY <2>1, <2>3 DEF HandledD, IInv, KindInv, WildNeverFiled
  <2> QED BY <2>2, <2>4 DEF IInv, KindInv, KindOf, WildNeverFiled
<1>7. ASSUME NEW c \in Callers, SingleDone(c)
      PROVE  KindInv'
  BY <1>7 DEF IInv, TypeOK, KindInv, KindOf, WildNeverFiled, CallerInv, vars, flags, lists, gpus, fates, SingleDone
<1>8. ASSUME NEW w \in Workers, WorkerTop(w)
      PROVE  KindInv'
  BY <1>8 DEF IInv, TypeOK, KindInv, KindOf, WildNeverFiled, CallerInv, vars, flags, lists, gpus, fates, WorkerTop
<1>9. ASSUME NEW w \in Workers, WorkerNothing(w)
      PROVE  KindInv'
  BY <1>9 DEF IInv, TypeOK, KindInv, KindOf, WildNeverFiled, CallerInv, vars, flags, lists, gpus, fates, WorkerNothing
<1>10. ASSUME NEW w \in Workers, WorkerTake(w)
      PROVE  KindInv'
  BY <1>10 DEF IInv, TypeOK, KindInv, KindOf, WildNeverFiled, CallerInv, vars, flags, lists, gpus, fates, WorkerTake
<1>11. ASSUME NEW w \in Workers, WorkerStep(w)
      PROVE  KindInv'
  <2> DEFINE d == pPntList2[chunk[w].start + 1]
  <2>1. d \in Dps /\ HandledD(d)
    BY <1>11, HandledInCopy, HandleEffect DEF HandledD, WorkerStep, IInv
  <2>2. UNCHANGED <<gTrapPhase, pPntList, pPntList2, wildsOnly, out>>
    BY <2>1, <1>11 DEF HandledD, WorkerStep, lists, gpus
  <2>3. FileFirst(d) => d.gen = "TAME"
    BY <1>11, HandledInCopy DEF IInv, KindInv, KindOf, FileFirst
  <2>4. \A e \in filed' : e.gen = "TAME"
    BY <2>1, <2>3 DEF HandledD, IInv, KindInv, WildNeverFiled
  <2> QED BY <2>2, <2>4 DEF IInv, KindInv, KindOf, WildNeverFiled
<1>12. ASSUME NEW w \in Workers, WorkerDone(w)
      PROVE  KindInv'
  BY <1>12 DEF IInv, TypeOK, KindInv, KindOf, WildNeverFiled, CallerInv, vars, flags, lists, gpus, fates, WorkerDone
<1>13. ASSUME NEW g \in Gpus, Kernel(g)
      PROVE  KindInv'
  <2>1. UNCHANGED <<gTrapPhase, pPntList, pPntList2, wildsOnly, filed>>
    BY <1>13 DEF Kernel, flags, lists, fates
  <2>2. \A h \in Gpus : h # g => out'[h] = out[h]
    BY <1>13, KernelEffect DEF IInv
  <2>3. \A j \in DOMAIN out'[g] :
          /\ gTrapPhase => out'[g][j].gen = "TAME"
          /\ Mode = "concurrent" => out'[g][j].gen = out'[g][j].label
    BY <1>13, KernelEffect DEF IInv, KindInv, CallerInv
  <2> QED BY <2>1, <2>2, <2>3 DEF IInv, KindInv, KindOf, WildNeverFiled
<1>14. ASSUME NEW g \in Gpus, AddPointsToList(g)
      PROVE  KindInv'
  <2>1. UNCHANGED <<gTrapPhase, pPntList2, wildsOnly, filed>>
    BY <1>14 DEF AddPointsToList, flags, lists, fates
  <2>2. \A h \in Gpus : out'[h] = IF h = g THEN <<>> ELSE out[h]
    BY <1>14 DEF IInv, TypeOK, AddPointsToList
  <2>3. \A h \in Gpus : KindOf(out'[h])
    BY <2>2 DEF IInv, KindInv, KindOf
  <2>4. KindOf(pPntList \o out[g])
    <3>1. pPntList \in Seq(Dps) /\ out[g] \in Seq(Dps)
      BY DEF IInv, TypeOK
    <3> DEFINE l == pPntList  b == out[g]
    <3>2. l \in Seq(Dps) /\ b \in Seq(Dps) /\ KindOf(l) /\ KindOf(b)
      BY <3>1 DEF IInv, KindInv
    <3> HIDE DEF l, b
    <3>3. /\ l \o b \in Seq(Dps) /\ Len(l \o b) = Len(l) + Len(b)
          /\ \A i \in 1 .. Len(l) + Len(b) : (l \o b)[i] = IF i <= Len(l) THEN l[i] ELSE b[i - Len(l)]
      BY <3>2, ConcatProperties
    <3>4. /\ Len(l) \in Nat /\ Len(b) \in Nat /\ DOMAIN l = 1 .. Len(l) /\ DOMAIN b = 1 .. Len(b)
          /\ DOMAIN (l \o b) = 1 .. Len(l \o b)
      BY <3>2, <3>3, LenProperties
    <3>5. ASSUME NEW i \in DOMAIN (l \o b)
          PROVE  (\E j \in DOMAIN l : (l \o b)[i] = l[j]) \/ (\E j \in DOMAIN b : (l \o b)[i] = b[j])
      <4>1. i \in 1 .. Len(l) + Len(b)
        BY <3>3, <3>4
      <4>2. CASE i <= Len(l)
        BY <4>1, <4>2, <3>3, <3>4
      <4>3. CASE ~(i <= Len(l))
        <5>1. i - Len(l) \in DOMAIN b
          BY <4>1, <4>3, <3>4
        <5> QED BY <4>1, <4>3, <5>1, <3>3
      <4> QED BY <4>2, <4>3
    <3>6. KindOf(l \o b)
      BY <3>2, <3>5 DEF KindOf
    <3> QED BY <3>6 DEF l, b
  <2>5. KindOf(pPntList')
    BY <2>4, <1>14 DEF IInv, KindInv, AddPointsToList
  <2>6. KindOf(pPntList2)
    BY DEF IInv, KindInv
  <2> QED BY <2>1, <2>3, <2>5, <2>6 DEF IInv, KindInv, KindOf, WildNeverFiled
<1>15. ASSUME NEW g \in Gpus, GpuExit(g)
      PROVE  KindInv'
  BY <1>15 DEF IInv, TypeOK, KindInv, KindOf, WildNeverFiled, CallerInv, vars, flags, lists, gpus, fates, GpuExit
<1>16. ASSUME NEW g \in Gpus, ReinitForHunt(g)
      PROVE  KindInv'
  BY <1>16 DEF IInv, TypeOK, KindInv, KindOf, WildNeverFiled, CallerInv, vars, flags, lists, gpus, fates, ReinitForHunt
<1>17. CASE ProcTop
  BY <1>17 DEF IInv, TypeOK, KindInv, KindOf, WildNeverFiled, CallerInv, vars, flags, lists, gpus, fates, ProcTop
<1>18. CASE ProcTail
  BY <1>18 DEF IInv, TypeOK, KindInv, KindOf, WildNeverFiled, CallerInv, vars, flags, lists, gpus, fates, ProcTail
<1>19. CASE MainTop
  BY <1>19 DEF IInv, TypeOK, KindInv, KindOf, WildNeverFiled, CallerInv, vars, flags, lists, gpus, fates, MainTop
<1>20. CASE MainTail
  BY <1>20 DEF IInv, TypeOK, KindInv, KindOf, WildNeverFiled, CallerInv, vars, flags, lists, gpus, fates, MainTail
<1>21. CASE Switch
  BY <1>21 DEF IInv, TypeOK, KindInv, KindOf, WildNeverFiled, CallerInv, vars, flags, lists, gpus, fates, Switch
<1>22. CASE StartProcessing
  BY <1>22 DEF IInv, TypeOK, KindInv, KindOf, WildNeverFiled, CallerInv, vars, flags, lists, gpus, fates, StartProcessing
<1>23. CASE StopProcessing
  BY <1>23 DEF IInv, TypeOK, KindInv, KindOf, WildNeverFiled, CallerInv, vars, flags, lists, gpus, fates, StopProcessing
<1>24. CASE StopWorkerThreads
  BY <1>24 DEF IInv, TypeOK, KindInv, KindOf, WildNeverFiled, CallerInv, vars, flags, lists, gpus, fates, StopWorkerThreads
<1>25. CASE StopGpus
  BY <1>25 DEF IInv, TypeOK, KindInv, KindOf, WildNeverFiled, CallerInv, vars, flags, lists, gpus, fates, StopGpus
<1>26. CASE Return
  BY <1>26 DEF IInv, TypeOK, KindInv, KindOf, WildNeverFiled, CallerInv, vars, flags, lists, gpus, fates, Return
<1>27. CASE OtherSolves
  BY <1>27 DEF IInv, TypeOK, KindInv, KindOf, WildNeverFiled, CallerInv, vars, flags, lists, gpus, fates, OtherSolves
<1>28. CASE UNCHANGED vars
  BY <1>28 DEF IInv, TypeOK, KindInv, KindOf, WildNeverFiled, CallerInv, vars, flags, lists, gpus, fates
<1> QED
  BY <1>1, <1>2, <1>3, <1>4, <1>5, <1>6, <1>7, <1>8, <1>9, <1>10, <1>11, <1>12, <1>13, <1>14, <1>15, <1>16, <1>17, <1>18, <1>19, <1>20, <1>21, <1>22, <1>23, <1>24, <1>25, <1>26, <1>27, <1>28
     DEF Next, SolvePoint, processing_thread, WorkerThread, GpuThread, CheckNewPoints, Callers

-----------------------------------------------------------------------------
(* The theorems.                                                           *)

LEMMA InitIInv == Init => IInv
<1> SUFFICES ASSUME Init PROVE IInv
  OBVIOUS
<1>1. Working = {} /\ Cardinality({}) = 0 /\ Len(<<>>) = 0
  BY FS_EmptySet DEF Init, Working
<1>2. PendingExact
  BY <1>1 DEF Init, PendingExact
<1>3. <<>> \in Seq(Dps) /\ <<>> \in Seq([start : Nat, end : Nat])
  BY EmptySeq
<1>4. NoChunk \in [start : Nat, end : Nat]
  BY DEF NoChunk
<1>5. MaxDps \in Nat
  BY PoolAssumption
<1>6. TypeOK
  <2>1. gTrapPhase \in BOOLEAN /\ gProcessingRunning \in BOOLEAN
    BY Zenon DEF Init
  <2>2. wildsOnly \in [Gpus -> BOOLEAN]
    BY Zenon DEF Init
  <2>3. /\ gSolved \in BOOLEAN /\ gConcurrentTableFull \in BOOLEAN
        /\ gWorkersRunning \in BOOLEAN /\ StopFlag \in BOOLEAN
    BY DEF Init
  <2>4. /\ pPntList \in Seq(Dps) /\ pPntList2 \in Seq(Dps)
        /\ gWorkQueue \in Seq([start : Nat, end : Nat]) /\ gPendingChunks \in Nat
        /\ Len(pPntList) <= ListCap
    BY <1>1, <1>3, PoolAssumption DEF Init
  <2>5. /\ cpc \in [Callers -> {"off", "top", "enter", "split", "single", "wait", "tail",
                                "reinit", "stop", "sleep", "join", "joingpus", "end"}]
        /\ cnt \in [Callers -> Nat] /\ idx \in [Callers -> Nat]
    BY DEF Init
  <2>6. /\ wpc \in [Workers -> {"top", "pick", "work", "end"}]
        /\ chunk \in [Workers -> [start : Nat, end : Nat]]
    BY <1>4 DEF Init
  <2>7. /\ gpc \in [Gpus -> {"kernel", "add", "end"}] /\ out \in [Gpus -> Seq(Dps)]
        /\ made \in 0 .. MaxDps
    BY <1>3, <1>5 DEF Init
  <2>8. /\ dropped \subseteq Dps /\ filed \subseteq Dps /\ checked \subseteq Dps
        /\ skipped \subseteq Dps /\ handled \in [Ids -> Nat]
    BY DEF Init
  <2> QED BY <2>1, <2>2, <2>3, <2>4, <2>5, <2>6, <2>7, <2>8 DEF TypeOK
<1>7. CallerInv
  BY DEF Init, CallerInv, Inside, Using, Callers, Main, Proc
<1>8. WaitInv
  BY DEF Init, WaitInv, Callers
<1>9. BoundsInv
  BY <1>1 DEF Init, BoundsInv, Callers, Main, Proc
<1>10. KindInv
  <2>1. gTrapPhase => \A g \in Gpus : ~wildsOnly[g]
    <3>1. gTrapPhase => ~(Mode = "allwild")
      BY DEF Init
    <3>2. \A g \in Gpus : wildsOnly[g] <=> Mode = "allwild"
      BY Zenon DEF Init
    <3> QED BY <3>1, <3>2, Zenon
  <2>2. \A q : q = <<>> => KindOf(q)
    BY DEF KindOf
  <2>3. /\ pPntList = <<>> /\ pPntList2 = <<>> /\ filed = {}
        /\ \A g \in Gpus : out[g] = <<>>
    BY DEF Init
  <2> QED BY <2>1, <2>2, <2>3 DEF KindInv, WildNeverFiled
<1> QED BY <1>2, <1>6, <1>7, <1>8, <1>9, <1>10 DEF IInv

LEMMA Inductive == Spec => []IInv
<1>1. IInv /\ [Next]_vars => IInv'
  BY TypeStep, PendingStep, CallerStep, WaitStep, BoundsStep, KindStep DEF IInv
<1> QED BY <1>1, InitIInv, PTL DEF Spec

\* Everything keeps its type; in particular gPendingChunks never goes below
\* zero, and DPs are only taken from where DPs are.
THEOREM TypeCorrect == Spec => []TypeOK
<1>1. IInv => TypeOK
  BY DEF IInv
<1> QED BY <1>1, Inductive, PTL

\* gPendingChunks counts the chunks that are queued or in a worker's hands:
\* the wait in CheckNewPoints ends neither early nor never for its sake.
THEOREM PendingCorrect == Spec => []PendingExact
<1>1. IInv => PendingExact
  BY DEF IInv
<1> QED BY <1>1, Inductive, PTL

\* The main loop and the processing thread are never both in CheckNewPoints.
THEOREM OneCallerCorrect == Spec => []OneCaller
<1>1. IInv => OneCaller
  BY DEF IInv, CallerInv, OneCaller, Inside, Using
<1> QED BY <1>1, Inductive, PTL

\* No WILD is filed as a TAME, around the switch from TRAP to HUNT included.
THEOREM WildNeverFiledCorrect == Spec => []WildNeverFiled
<1>1. IInv => WildNeverFiled
  BY DEF IInv, KindInv
<1> QED BY <1>1, Inductive, PTL

\* pPntList2 is reused only when nobody can still read the previous copy:
\* the comment "safe to reuse here because we wait for all workers" holds.
THEOREM BufferReuseCorrect == Spec => BufferReuse
<1>1. ASSUME IInv, [Next]_vars, pPntList2' # pPntList2
      PROVE  /\ gWorkQueue = <<>> /\ Working = {}
             /\ \A c \in Callers : cpc[c] \notin Using
  <2>1. PICK c \in Callers : Copy(c)
    BY <1>1 DEF Next, SolvePoint, processing_thread, WorkerThread, GpuThread, CheckNewPoints,
       Callers, vars, lists, CheckEmpty, Dispatch, Fallback, WaitDone, SingleStep, SingleDone,
       WorkerTop, WorkerNothing, WorkerTake, WorkerStep, WorkerDone, Kernel, AddPointsToList,
       GpuExit, ReinitForHunt, ProcTop, ProcTail, MainTop, MainTail, Switch, StartProcessing,
       StopProcessing, StopWorkerThreads, StopGpus, Return, OtherSolves
  <2>2. gPendingChunks = 0
    BY <1>1, <2>1 DEF IInv, WaitInv, Copy
  <2>3. gWorkQueue = <<>> /\ Working = {}
    BY <1>1, <2>2, NothingPending DEF IInv
  <2>4. \A b \in Callers : cpc[b] \notin Using
    BY <1>1, <2>1 DEF IInv, CallerInv, Copy, Callers, Main, Proc, Inside, Using
  <2> QED BY <2>3, <2>4
<1>2. IInv /\ [Next]_vars
        => [pPntList2' # pPntList2 =>
              /\ gWorkQueue = <<>> /\ Working = {}
              /\ \A c \in Callers : cpc[c] \notin Using]_vars
  BY <1>1
<1> QED BY <1>2, Inductive, PTL DEF Spec, BufferReuse

-----------------------------------------------------------------------------
(* Every DP is in one place, until it is handled.                          *)

\* Places, part by part.
ListAt(i)    == {<<"list", j>> : j \in {k \in DOMAIN pPntList : pPntList[k].id = i}}
GpuAt(i)     == {<<"gpu", g>> : g \in {h \in Gpus : \E j \in DOMAIN out[h] : out[h][j].id = i}}
QueueAt(i)   == {<<"queue", k>> : k \in {l \in DOMAIN gWorkQueue :
                                   InCopy(i, gWorkQueue[l].start, gWorkQueue[l].end)}}
WorkerAt(i)  == {<<"worker", w>> : w \in {v \in Working :
                                            InCopy(i, chunk[v].start, chunk[v].end)}}
CallerAt(i)  == {<<"caller", c>> : c \in {b \in Callers :
                                   \/ cpc[b] = "split" /\ InCopy(i, 0, cnt[b])
                                   \/ cpc[b] = "single" /\ InCopy(i, idx[b], cnt[b])}}
DroppedAt(i) == {<<"dropped", d.id>> : d \in {e \in dropped : e.id = i}}

\* Where one DP is, and how often it was handled.
Kept(i) ==
  /\ \A p, q \in Places(i) : p = q
  /\ handled[i] \in {0, 1}
  /\ Places(i) # {} => handled[i] = 0
  /\ i > made => Places(i) = {} /\ handled[i] = 0
  /\ i <= made => gSolved \/ Places(i) # {} \/ handled[i] = 1

\* No number stands twice in a copy or a batch, and a GPU whose kernel is about
\* to run has handed its batch over.
DistinctInv ==
  /\ \A j, l \in DOMAIN pPntList2 : pPntList2[j].id = pPntList2[l].id => j = l
  /\ \A g \in Gpus : \A j, l \in DOMAIN out[g] : out[g][j].id = out[g][l].id => j = l
  /\ \A g \in Gpus : gpc[g] # "add" => out[g] = <<>>

KeptInv == DistinctInv /\ \A i \in Ids : Kept(i)

\* What a step may do to one DP: leave it, move it, handle it, make it, or,
\* once the key is found, lose it.
Fate(i) ==
  \/ /\ Places(i)' = Places(i) /\ handled'[i] = handled[i]
     /\ i <= made' <=> i <= made
  \/ /\ Places(i) # {} /\ \E q : Places(i)' = {q}
     /\ handled'[i] = handled[i] /\ made' = made
  \/ /\ Places(i) # {} /\ Places(i)' = {}
     /\ handled'[i] = handled[i] + 1 /\ made' = made
  \/ /\ i > made /\ i <= made' /\ \E q : Places(i)' = {q}
     /\ handled'[i] = handled[i]
  \/ /\ gSolved /\ Places(i)' \subseteq Places(i)
     /\ handled'[i] = handled[i] /\ made' = made

LEMMA PlacesAre ==
  ASSUME NEW i
  PROVE  /\ Places(i) = ListAt(i) \cup GpuAt(i) \cup QueueAt(i) \cup WorkerAt(i)
                          \cup CallerAt(i) \cup DroppedAt(i)
         /\ Places(i)' = ListAt(i)' \cup GpuAt(i)' \cup QueueAt(i)' \cup WorkerAt(i)'
                          \cup CallerAt(i)' \cup DroppedAt(i)'
BY Zenon DEF Places, ListAt, GpuAt, QueueAt, WorkerAt, CallerAt, DroppedAt

\* A DP is not in two parts at once.
LEMMA Alone ==
  ASSUME NEW i, \A p, q \in Places(i) : p = q, NEW x \in Places(i)
  PROVE  /\ x \in ListAt(i) => GpuAt(i) \cup QueueAt(i) \cup WorkerAt(i)
                                 \cup CallerAt(i) \cup DroppedAt(i) = {}
         /\ x \in GpuAt(i) => ListAt(i) \cup QueueAt(i) \cup WorkerAt(i)
                                 \cup CallerAt(i) \cup DroppedAt(i) = {}
         /\ x \in QueueAt(i) => ListAt(i) \cup GpuAt(i) \cup WorkerAt(i)
                                 \cup CallerAt(i) \cup DroppedAt(i) = {}
         /\ x \in WorkerAt(i) => ListAt(i) \cup GpuAt(i) \cup QueueAt(i)
                                 \cup CallerAt(i) \cup DroppedAt(i) = {}
         /\ x \in CallerAt(i) => ListAt(i) \cup GpuAt(i) \cup QueueAt(i)
                                 \cup WorkerAt(i) \cup DroppedAt(i) = {}
<1>1. /\ \A p \in ListAt(i) : p[1] = "list"
      /\ \A p \in GpuAt(i) : p[1] = "gpu"
      /\ \A p \in QueueAt(i) : p[1] = "queue"
      /\ \A p \in WorkerAt(i) : p[1] = "worker"
      /\ \A p \in CallerAt(i) : p[1] = "caller"
      /\ \A p \in DroppedAt(i) : p[1] = "dropped"
  BY DEF ListAt, GpuAt, QueueAt, WorkerAt, CallerAt, DroppedAt
<1>2. \A p \in Places(i) : p = x
  OBVIOUS
<1> QED
  BY <1>1, <1>2, PlacesAre

\* The invariant follows from what a step does to each DP.
LEMMA KeptStep ==
  ASSUME NEW i \in Ids, TypeOK, TypeOK', Kept(i), Fate(i), gSolved => gSolved'
  PROVE  Kept(i)'
<1>1. made \in Nat /\ made' \in Nat
  BY DEF TypeOK
<1>2. i \in Nat
  BY DEF Ids
<1>3. /\ \A p, q \in Places(i) : p = q
      /\ handled[i] \in {0, 1}
      /\ Places(i) # {} => handled[i] = 0
      /\ i > made => Places(i) = {} /\ handled[i] = 0
      /\ i <= made => gSolved \/ Places(i) # {} \/ handled[i] = 1
  BY DEF Kept
<1> SUFFICES /\ \A p, q \in Places(i)' : p = q
             /\ handled'[i] \in {0, 1}
             /\ Places(i)' # {} => handled'[i] = 0
             /\ i > made' => Places(i)' = {} /\ handled'[i] = 0
             /\ i <= made' => gSolved' \/ Places(i)' # {} \/ handled'[i] = 1
  BY DEF Kept
<1>4. CASE /\ Places(i)' = Places(i) /\ handled'[i] = handled[i]
           /\ i <= made' <=> i <= made
  BY <1>1, <1>2, <1>3, <1>4
<1>5. CASE /\ Places(i) # {} /\ \E q : Places(i)' = {q}
           /\ handled'[i] = handled[i] /\ made' = made
  BY <1>1, <1>2, <1>3, <1>5
<1>6. CASE /\ Places(i) # {} /\ Places(i)' = {}
           /\ handled'[i] = handled[i] + 1 /\ made' = made
  BY <1>1, <1>2, <1>3, <1>6
<1>7. CASE /\ i > made /\ i <= made' /\ \E q : Places(i)' = {q}
           /\ handled'[i] = handled[i]
  BY <1>1, <1>2, <1>3, <1>7
<1>8. CASE /\ gSolved /\ Places(i)' \subseteq Places(i)
           /\ handled'[i] = handled[i] /\ made' = made
  BY <1>1, <1>2, <1>3, <1>8
<1> QED
  BY <1>4, <1>5, <1>6, <1>7, <1>8 DEF Fate

\* A part is the same when what holds its DPs is.
LEMMA SameParts ==
  ASSUME NEW i
  PROVE  /\ pPntList' = pPntList => ListAt(i)' = ListAt(i)
         /\ out' = out => GpuAt(i)' = GpuAt(i)
         /\ dropped' = dropped => DroppedAt(i)' = DroppedAt(i)
         /\ pPntList2' = pPntList2 /\ gWorkQueue' = gWorkQueue => QueueAt(i)' = QueueAt(i)
         /\ pPntList2' = pPntList2 /\ chunk' = chunk /\ wpc' = wpc => WorkerAt(i)' = WorkerAt(i)
         /\ pPntList2' = pPntList2 /\ cnt' = cnt /\ idx' = idx /\ cpc' = cpc
              => CallerAt(i)' = CallerAt(i)
<1>1. pPntList' = pPntList => ListAt(i)' = ListAt(i)
  BY DEF ListAt
<1>2. out' = out => GpuAt(i)' = GpuAt(i)
  BY DEF GpuAt
<1>3. dropped' = dropped => DroppedAt(i)' = DroppedAt(i)
  BY DEF DroppedAt
<1>4. pPntList2' = pPntList2 /\ gWorkQueue' = gWorkQueue => QueueAt(i)' = QueueAt(i)
  BY DEF QueueAt, InCopy
<1>5. pPntList2' = pPntList2 /\ chunk' = chunk /\ wpc' = wpc => WorkerAt(i)' = WorkerAt(i)
  BY DEF WorkerAt, InCopy, Working
<1>6. pPntList2' = pPntList2 /\ cnt' = cnt /\ idx' = idx /\ cpc' = cpc
        => CallerAt(i)' = CallerAt(i)
  BY DEF CallerAt, InCopy
<1> QED
  BY <1>1, <1>2, <1>3, <1>4, <1>5, <1>6

\* Control alone moves no DP, unless it leaves or enters the use of the copy.
LEMMA StillFate ==
  ASSUME NEW i,
         UNCHANGED <<pPntList, pPntList2, gWorkQueue, chunk, cnt, idx, out, made, dropped, handled>>,
         Working' = Working,
         \A c \in Callers : cpc'[c] # cpc[c] => /\ cpc[c] \notin {"split", "single"}
                                                /\ cpc'[c] \notin {"split", "single"}
  PROVE  Fate(i)
<1>1. WorkerAt(i)' = WorkerAt(i)
  BY DEF WorkerAt, InCopy
<1>2. CallerAt(i)' = CallerAt(i)
  <2>1. \A c \in Callers : \A l \in {"split", "single"} : cpc'[c] = l <=> cpc[c] = l
    OBVIOUS
  <2> QED
    BY <2>1 DEF CallerAt, InCopy
<1>3. Places(i)' = Places(i)
  BY <1>1, <1>2, PlacesAre, SameParts
<1> QED
  BY <1>3 DEF Fate

\* The copy holds a number once, so handling its first DP takes that DP away.
LEMMA HandledHere ==
  ASSUME TypeOK, DistinctInv, NEW i, NEW a \in Nat, NEW b \in Nat,
         a < b, b <= Len(pPntList2)
  PROVE  /\ pPntList2[a + 1].id = i => InCopy(i, a, b) /\ ~InCopy(i, a + 1, b)
         /\ pPntList2[a + 1].id # i => (InCopy(i, a + 1, b) <=> InCopy(i, a, b))
<1>1. DOMAIN pPntList2 = 1 .. Len(pPntList2) /\ Len(pPntList2) \in Nat
  BY LenProperties DEF TypeOK
<1>2. a + 1 \in a + 1 .. b
  OBVIOUS
<1>3. \A j \in a + 1 .. b : j \in DOMAIN pPntList2 /\ (j = a + 1 \/ j \in (a + 1) + 1 .. b)
  BY <1>1
<1>4. \A j \in (a + 1) + 1 .. b : j \in a + 1 .. b /\ j # a + 1
  OBVIOUS
<1>5. \A j, l \in DOMAIN pPntList2 : pPntList2[j].id = pPntList2[l].id => j = l
  BY DEF DistinctInv
<1>6. InCopy(i, a, b) <=> \E j \in a + 1 .. b : pPntList2[j].id = i
  BY DEF InCopy
<1>7. InCopy(i, a + 1, b) <=> \E j \in (a + 1) + 1 .. b : pPntList2[j].id = i
  BY DEF InCopy
<1> QED
  BY <1>2, <1>3, <1>4, <1>5, <1>6, <1>7

LEMMA HandleCount ==
  ASSUME TypeOK, NEW d \in Dps, Handle(d), NEW i \in Ids
  PROVE  handled'[i] = IF d.id = i THEN handled[i] + 1 ELSE handled[i]
BY DEF TypeOK, Handle

\* Nobody else uses the copy while a caller is about to copy, cut or walk.
LEMMA SoleUser ==
  ASSUME IInv, NEW c \in Callers, cpc[c] \in {"enter", "split", "single"}
  PROVE  /\ gWorkQueue = <<>> /\ Working = {} /\ DOMAIN gWorkQueue = {}
         /\ \A b \in Callers : b # c => cpc[b] \notin Using
<1>1. gPendingChunks = 0
  BY DEF IInv, WaitInv
<1>2. gWorkQueue = <<>> /\ Working = {}
  BY <1>1, NothingPending DEF IInv
<1>3. DOMAIN gWorkQueue = {}
  BY <1>2
<1>4. \A b \in Callers : b # c => cpc[b] \notin Using
  BY DEF IInv, CallerInv, Callers, Main, Proc, Inside, Using
<1> QED
  BY <1>2, <1>3, <1>4

\* A kernel call makes DPs with new numbers, and only there.
LEMMA KernelFate ==
  ASSUME IInv, KeptInv, NEW g \in Gpus, Kernel(g), NEW i \in Ids
  PROVE  Fate(i)
<1>1. PICK n \in BatchSizes, label \in Kind :
        LET gen == IF Mode = "trap" /\ ~wildsOnly[g] THEN "TAME" ELSE label
        IN  /\ out' = [out EXCEPT ![g] =
                        [j \in 1 .. n |-> [id |-> made + j, gen |-> gen, label |-> label]]]
            /\ made' = made + n
  BY DEF Kernel
<1>2. n \in Nat /\ made \in Nat /\ i \in Nat
  BY PoolAssumption DEF IInv, TypeOK, Ids
<1>3. out[g] = <<>> /\ DOMAIN out[g] = {}
  BY DEF Kernel, KeptInv, DistinctInv
<1>4. DOMAIN out'[g] = 1 .. n /\ \A j \in 1 .. n : out'[g][j].id = made + j
  BY <1>1 DEF IInv, TypeOK
<1>5. \A h \in Gpus : h # g => out'[h] = out[h]
  BY <1>1 DEF IInv, TypeOK
<1>6. /\ UNCHANGED <<pPntList, dropped, pPntList2, gWorkQueue, chunk, wpc, cnt, idx, cpc, handled>>
  BY DEF Kernel, lists, work, workers, callers, fates
<1>7. Places(i)' = ListAt(i) \cup GpuAt(i)' \cup QueueAt(i) \cup WorkerAt(i)
                     \cup CallerAt(i) \cup DroppedAt(i)
  BY <1>6, PlacesAre, SameParts
<1>8. Kept(i)
  BY DEF KeptInv
<1>9. CASE i \in made + 1 .. made + n
  <2>1. Places(i) = {} /\ i > made /\ i <= made'
    BY <1>1, <1>2, <1>8, <1>9 DEF Kept
  <2>2. i - made \in 1 .. n /\ made + (i - made) = i
    BY <1>2, <1>9
  <2>3. out'[g][i - made].id = i
    BY <1>4, <2>2
  <2>4. GpuAt(i) = {}
    BY <2>1, PlacesAre
  <2>5. \A h \in Gpus : h # g => ~\E j \in DOMAIN out'[h] : out'[h][j].id = i
    BY <1>5, <2>4 DEF GpuAt
  <2>6. GpuAt(i)' = {<<"gpu", g>>}
    BY <1>4, <2>2, <2>3, <2>5 DEF GpuAt
  <2>7. Places(i)' = {<<"gpu", g>>}
    BY <1>7, <2>1, <2>6, PlacesAre
  <2> QED
    BY <1>6, <2>1, <2>7 DEF Fate
<1>10. CASE i \notin made + 1 .. made + n
  <2>1. ~\E j \in DOMAIN out'[g] : out'[g][j].id = i
    BY <1>2, <1>4, <1>10
  <2>2. GpuAt(i)' = GpuAt(i)
    BY <1>3, <1>5, <2>1 DEF GpuAt
  <2>3. i <= made' <=> i <= made
    BY <1>1, <1>2, <1>10
  <2> QED
    BY <1>6, <1>7, <2>2, <2>3, PlacesAre DEF Fate
<1> QED
  BY <1>9, <1>10

\* A batch goes to pPntList, or is dropped, whole.
LEMMA AddFate ==
  ASSUME IInv, KeptInv, NEW g \in Gpus, AddPointsToList(g), NEW i \in Ids
  PROVE  Fate(i)
<1> DEFINE b == out[g]
<1>1. b \in Seq(Dps) /\ pPntList \in Seq(Dps)
  BY DEF IInv, TypeOK
<1>2. /\ UNCHANGED <<pPntList2, gWorkQueue, chunk, wpc, cnt, idx, cpc, handled, made>>
      /\ out' = [out EXCEPT ![g] = <<>>]
  BY DEF AddPointsToList, work, workers, callers, fates
<1>3. out'[g] = <<>> /\ DOMAIN out'[g] = {} /\ \A h \in Gpus : h # g => out'[h] = out[h]
  BY <1>2 DEF IInv, TypeOK
<1>4. Places(i)' = ListAt(i)' \cup GpuAt(i)' \cup QueueAt(i) \cup WorkerAt(i)
                     \cup CallerAt(i) \cup DroppedAt(i)'
  BY <1>2, PlacesAre, SameParts
<1>5. Kept(i) /\ \A j, l \in DOMAIN b : b[j].id = b[l].id => j = l
  BY DEF KeptInv, DistinctInv
<1>6. \/ /\ dropped' = dropped \cup {b[j] : j \in DOMAIN b}
         /\ pPntList' = pPntList
      \/ /\ pPntList' = pPntList \o b
         /\ dropped' = dropped
  BY DEF AddPointsToList
<1>7. /\ DOMAIN pPntList = 1 .. Len(pPntList) /\ Len(pPntList) \in Nat
      /\ DOMAIN b = 1 .. Len(b) /\ Len(b) \in Nat
  BY <1>1, LenProperties
<1>8. /\ DOMAIN (pPntList \o b) = 1 .. Len(pPntList) + Len(b)
      /\ \A k \in 1 .. Len(pPntList) + Len(b) :
           (pPntList \o b)[k] = IF k <= Len(pPntList) THEN pPntList[k]
                                ELSE b[k - Len(pPntList)]
  BY <1>1, ConcatProperties, LenProperties
<1> HIDE DEF b
<1>9. CASE \E j \in DOMAIN b : b[j].id = i
  <2>1. PICK j \in DOMAIN b : b[j].id = i
    BY <1>9
  <2>2. <<"gpu", g>> \in GpuAt(i) /\ <<"gpu", g>> \in Places(i)
    BY <2>1, PlacesAre DEF GpuAt, b
  <2>3. \A p, q \in Places(i) : p = q
    BY <1>5 DEF Kept
  <2>4. ListAt(i) \cup QueueAt(i) \cup WorkerAt(i) \cup CallerAt(i) \cup DroppedAt(i) = {}
    BY <2>2, <2>3, Alone
  <2>5. GpuAt(i) = {<<"gpu", g>>}
    BY <2>2, <2>3, PlacesAre
  <2>6. \A h \in Gpus : h # g => ~\E l \in DOMAIN out[h] : out[h][l].id = i
    <3> SUFFICES ASSUME NEW h \in Gpus, h # g, \E l \in DOMAIN out[h] : out[h][l].id = i
                 PROVE  FALSE
      OBVIOUS
    <3>1. <<"gpu", h>> \in GpuAt(i)
      BY DEF GpuAt
    <3> QED
      BY <2>5, <3>1
  <2>7. GpuAt(i)' = {}
    BY <1>3, <2>6 DEF GpuAt
  <2>8. ASSUME dropped' = dropped \cup {b[l] : l \in DOMAIN b}, pPntList' = pPntList
        PROVE  Places(i)' = {<<"dropped", i>>}
    <3>1. ListAt(i)' = {}
      BY <2>4, <2>8, SameParts
    <3>2. DroppedAt(i)' = {<<"dropped", i>>}
      BY <2>1, <2>8 DEF DroppedAt
    <3> QED
      BY <1>4, <2>4, <2>7, <3>1, <3>2
  <2>9. ASSUME pPntList' = pPntList \o b, dropped' = dropped
        PROVE  Places(i)' = {<<"list", Len(pPntList) + j>>}
    <3>1. DroppedAt(i)' = {}
      BY <2>4, <2>9, SameParts
    <3>2. \A k \in 1 .. Len(pPntList) : pPntList[k].id # i
      BY <1>7, <2>4 DEF ListAt
    <3>3. ASSUME NEW k \in 1 .. Len(pPntList) + Len(b)
          PROVE  (pPntList \o b)[k].id = i <=> k = Len(pPntList) + j
      <4>1. CASE k <= Len(pPntList)
        BY <1>7, <1>8, <2>1, <3>2, <4>1
      <4>2. CASE k > Len(pPntList)
        <5>1. k - Len(pPntList) \in DOMAIN b /\ (pPntList \o b)[k] = b[k - Len(pPntList)]
          BY <1>7, <1>8, <4>2
        <5>2. b[k - Len(pPntList)].id = i <=> k - Len(pPntList) = j
          BY <1>5, <2>1, <5>1
        <5> QED
          BY <1>7, <2>1, <5>1, <5>2
      <4> QED
        BY <1>7, <4>1, <4>2
    <3>4. Len(pPntList) + j \in 1 .. Len(pPntList) + Len(b)
      BY <1>7, <2>1
    <3>5. {k \in DOMAIN pPntList' : pPntList'[k].id = i} = {Len(pPntList) + j}
      BY <1>8, <2>9, <3>3, <3>4
    <3>6. ListAt(i)' = {<<"list", Len(pPntList) + j>>}
      BY <3>5 DEF ListAt
    <3> QED
      BY <1>4, <2>4, <2>7, <3>1, <3>6
  <2>10. \E q : Places(i)' = {q}
    BY <1>6, <2>8, <2>9
  <2> QED
    BY <1>2, <2>2, <2>10 DEF Fate
<1>10. CASE ~\E j \in DOMAIN b : b[j].id = i
  <2>1. GpuAt(i)' = GpuAt(i)
    BY <1>3, <1>10 DEF GpuAt, b
  <2>2. ASSUME dropped' = dropped \cup {b[l] : l \in DOMAIN b}
        PROVE  DroppedAt(i)' = DroppedAt(i)
    BY <1>10, <2>2 DEF DroppedAt
  <2>3. ASSUME pPntList' = pPntList \o b
        PROVE  ListAt(i)' = ListAt(i)
    <3>1. ASSUME NEW k \in 1 .. Len(pPntList) + Len(b)
          PROVE  (pPntList \o b)[k].id = i <=> k \in DOMAIN pPntList /\ pPntList[k].id = i
      <4>1. CASE k <= Len(pPntList)
        BY <1>7, <1>8, <4>1
      <4>2. CASE k > Len(pPntList)
        <5>1. k - Len(pPntList) \in DOMAIN b /\ (pPntList \o b)[k] = b[k - Len(pPntList)]
          BY <1>7, <1>8, <4>2
        <5> QED
          BY <1>7, <1>10, <4>2, <5>1
      <4> QED
        BY <1>7, <4>1, <4>2
    <3>2. DOMAIN pPntList \subseteq 1 .. Len(pPntList) + Len(b)
      BY <1>7
    <3>3. {k \in DOMAIN pPntList' : pPntList'[k].id = i} = {k \in DOMAIN pPntList : pPntList[k].id = i}
      BY <1>8, <2>3, <3>1, <3>2
    <3> QED
      BY <3>3 DEF ListAt
  <2>4. Places(i)' = Places(i)
    BY <1>4, <1>6, <2>1, <2>2, <2>3, PlacesAre, SameParts
  <2> QED
    BY <1>2, <2>4 DEF Fate
<1> QED
  BY <1>9, <1>10

\* CheckNewPoints moves the whole list to the copy.
LEMMA CopyFate ==
  ASSUME IInv, KeptInv, NEW c \in Callers, Copy(c), NEW i \in Ids
  PROVE  Fate(i)
<1>1. /\ UNCHANGED <<out, dropped, gWorkQueue, chunk, wpc, handled, made>>
      /\ pPntList2' = pPntList /\ pPntList' = <<>>
      /\ cnt' = [cnt EXCEPT ![c] = Len(pPntList)] /\ cpc' = [cpc EXCEPT ![c] = "split"]
  BY DEF Copy, GotoC, work, workers, gpus, fates
<1>2. /\ DOMAIN gWorkQueue = {} /\ Working = {}
      /\ \A b \in Callers : b # c => cpc[b] \notin Using
      /\ cpc[c] = "enter"
  BY SoleUser DEF Copy
<1>3. QueueAt(i) = {} /\ QueueAt(i)' = {} /\ WorkerAt(i) = {} /\ WorkerAt(i)' = {}
  BY <1>1, <1>2 DEF QueueAt, WorkerAt, Working
<1>4. CallerAt(i) = {}
  BY <1>2 DEF CallerAt, Using
<1>5. cnt'[c] = Len(pPntList) /\ cpc'[c] = "split" /\ \A b \in Callers : b # c => cpc'[b] = cpc[b]
  BY <1>1 DEF IInv, TypeOK
<1>6. DOMAIN pPntList = 0 + 1 .. Len(pPntList)
  BY LenProperties DEF IInv, TypeOK
<1>7. ListAt(i) # {} <=> \E j \in DOMAIN pPntList : pPntList[j].id = i
  BY DEF ListAt
<1>9. CallerAt(i)' = IF ListAt(i) # {} THEN {<<"caller", c>>} ELSE {}
  <2>1. \A b \in Callers : b # c => cpc'[b] \notin {"split", "single"}
    BY <1>2, <1>5 DEF Using
  <2>2. InCopy(i, 0, cnt[c])' <=> ListAt(i) # {}
    BY <1>1, <1>5, <1>6, <1>7 DEF InCopy
  <2> QED
    BY <1>5, <2>1, <2>2 DEF CallerAt
<1>10. ListAt(i)' = {}
  BY <1>1 DEF ListAt
<1>11. Places(i)' = GpuAt(i) \cup CallerAt(i)' \cup DroppedAt(i)
  BY <1>1, <1>3, <1>10, PlacesAre, SameParts
<1>12. CASE ListAt(i) # {}
  <2>1. PICK x : x \in ListAt(i)
    BY <1>12
  <2>2. x \in Places(i)
    BY <2>1, PlacesAre
  <2>3. \A p, q \in Places(i) : p = q
    BY DEF KeptInv, Kept
  <2>4. GpuAt(i) = {} /\ DroppedAt(i) = {}
    BY <2>1, <2>2, <2>3, Alone
  <2>5. Places(i)' = {<<"caller", c>>}
    BY <1>9, <1>11, <1>12, <2>4
  <2> QED
    BY <1>1, <2>2, <2>5 DEF Fate
<1>13. CASE ListAt(i) = {}
  <2>1. Places(i)' = Places(i)
    BY <1>3, <1>4, <1>9, <1>11, <1>13, PlacesAre
  <2> QED
    BY <1>1, <2>1 DEF Fate
<1> QED
  BY <1>12, <1>13

\* The copy goes to the queue; the chunks share it out among them.
LEMMA DispatchFate ==
  ASSUME IInv, KeptInv, NEW c \in Callers, Dispatch(c), NEW i \in Ids
  PROVE  Fate(i)
<1> DEFINE n == cnt[c]
<1>1. /\ UNCHANGED <<out, dropped, pPntList, pPntList2, chunk, wpc, handled, made, cnt, idx>>
      /\ gWorkQueue' = gWorkQueue \o Chunks(n) /\ cpc' = [cpc EXCEPT ![c] = "wait"]
  BY DEF Dispatch, GotoC, lists, workers, gpus, fates
<1>2. /\ gWorkQueue = <<>> /\ DOMAIN gWorkQueue = {} /\ Working = {}
      /\ \A b \in Callers : b # c => cpc[b] \notin Using
      /\ cpc[c] = "split"
  BY SoleUser DEF Dispatch
<1>3. n \in Nat \ {0} /\ n = Len(pPntList2)
  BY DEF IInv, TypeOK, BoundsInv, Dispatch
<1>4. DOMAIN pPntList2 = 1 .. n
  BY <1>3, LenProperties DEF IInv, TypeOK
<1>5. /\ Chunks(n) \in Seq([start : Nat, end : Nat])
      /\ Len(Chunks(n)) = NumChunks(n)
      /\ \A k \in 1 .. NumChunks(n) : Chunks(n)[k].end <= n
  BY <1>3, ChunksType
<1>6. gWorkQueue' = Chunks(n)
  BY <1>1, <1>2, <1>5, ConcatEmptySeq
<1>7. DOMAIN Chunks(n) = 1 .. NumChunks(n)
  BY <1>5, LenProperties
<1>8. \A k \in 1 .. NumChunks(n) : Chunks(n)[k] \in [start : Nat, end : Nat]
  BY <1>5, <1>7, ElementOfSeq
<1> HIDE DEF n
<1>9. QueueAt(i) = {} /\ WorkerAt(i) = {}
  BY <1>2 DEF QueueAt, WorkerAt
<1>10. /\ cpc'[c] = "wait" /\ \A b \in Callers : b # c => cpc'[b] = cpc[b]
  BY <1>1 DEF IInv, TypeOK
<1>11. CallerAt(i)' = {}
  BY <1>2, <1>10 DEF CallerAt, Using
<1>12. Places(i)' = ListAt(i) \cup GpuAt(i) \cup QueueAt(i)' \cup DroppedAt(i)
  BY <1>1, <1>9, <1>11, PlacesAre, SameParts
<1>13. CallerAt(i) = IF InCopy(i, 0, n) THEN {<<"caller", c>>} ELSE {}
  BY <1>2 DEF CallerAt, Using, n
<1>14. CASE InCopy(i, 0, n)
  <2>1. PICK j \in 1 .. n : pPntList2[j].id = i
    BY <1>14 DEF InCopy
  <2>2. j - 1 \in 0 .. n - 1 /\ j - 1 + 1 = j
    BY <1>3, <2>1
  <2> DEFINE m == j - 1
  <2>3. PICK k \in 1 .. NumChunks(n) :
           /\ Chunks(n)[k].start <= m /\ m < Chunks(n)[k].end
           /\ \A l \in 1 .. NumChunks(n) :
                Chunks(n)[l].start <= m /\ m < Chunks(n)[l].end => l = k
    BY <1>3, <2>2, ChunksPartition
  <2>4. \A l \in 1 .. n : pPntList2[l].id = i => l = j
    BY <1>4, <2>1 DEF KeptInv, DistinctInv
  <2>5. ASSUME NEW l \in 1 .. NumChunks(n)
        PROVE  InCopy(i, Chunks(n)[l].start, Chunks(n)[l].end) <=> l = k
    <3>1. Chunks(n)[l].start \in Nat /\ Chunks(n)[l].end \in Nat /\ Chunks(n)[l].end <= n
      BY <1>5, <1>8
    <3>2. \A h \in Chunks(n)[l].start + 1 .. Chunks(n)[l].end : h \in 1 .. n
      BY <1>3, <3>1
    <3>3. j \in Chunks(n)[l].start + 1 .. Chunks(n)[l].end
            <=> Chunks(n)[l].start <= m /\ m < Chunks(n)[l].end
      BY <1>3, <2>1, <3>1
    <3>4. InCopy(i, Chunks(n)[l].start, Chunks(n)[l].end)
            <=> j \in Chunks(n)[l].start + 1 .. Chunks(n)[l].end
      BY <2>1, <2>4, <3>2 DEF InCopy
    <3> QED
      BY <2>3, <3>3, <3>4
  <2>6. \A l \in 1 .. NumChunks(n) :
           InCopy(i, gWorkQueue[l].start, gWorkQueue[l].end)' <=> l = k
    BY <1>1, <1>6, <2>5 DEF InCopy
  <2>7. {l \in DOMAIN gWorkQueue' : InCopy(i, gWorkQueue[l].start, gWorkQueue[l].end)'} = {k}
    BY <1>6, <1>7, <2>3, <2>6
  <2>8. QueueAt(i)' = {<<"queue", k>>}
    BY <2>7 DEF QueueAt
  <2>9. <<"caller", c>> \in CallerAt(i) /\ <<"caller", c>> \in Places(i)
    BY <1>13, <1>14, PlacesAre
  <2>10. \A p, q \in Places(i) : p = q
    BY DEF KeptInv, Kept
  <2>11. ListAt(i) = {} /\ GpuAt(i) = {} /\ DroppedAt(i) = {}
    BY <2>9, <2>10, Alone
  <2>12. Places(i)' = {<<"queue", k>>}
    BY <1>12, <2>8, <2>11
  <2> QED
    BY <1>1, <2>9, <2>12 DEF Fate
<1>15. CASE ~InCopy(i, 0, n)
  <2>1. \A h \in 1 .. n : pPntList2[h].id # i
    BY <1>15 DEF InCopy
  <2>2. ASSUME NEW l \in 1 .. NumChunks(n)
        PROVE  ~InCopy(i, Chunks(n)[l].start, Chunks(n)[l].end)
    <3>1. Chunks(n)[l].start \in Nat /\ Chunks(n)[l].end \in Nat /\ Chunks(n)[l].end <= n
      BY <1>5, <1>8
    <3>2. \A h \in Chunks(n)[l].start + 1 .. Chunks(n)[l].end : h \in 1 .. n
      BY <1>3, <3>1
    <3> QED
      BY <2>1, <3>2 DEF InCopy
  <2>3. \A l \in 1 .. NumChunks(n) : ~InCopy(i, gWorkQueue[l].start, gWorkQueue[l].end)'
    BY <1>1, <1>6, <2>2 DEF InCopy
  <2>4. QueueAt(i)' = {}
    BY <1>6, <1>7, <2>3 DEF QueueAt
  <2>5. Places(i)' = Places(i)
    BY <1>9, <1>12, <1>13, <1>15, <2>4, PlacesAre
  <2> QED
    BY <1>1, <2>5 DEF Fate
<1> QED
  BY <1>14, <1>15

\* A small copy is walked from its first DP.
LEMMA FallbackFate ==
  ASSUME IInv, NEW c \in Callers, Fallback(c), NEW i \in Ids
  PROVE  Fate(i)
<1>1. /\ UNCHANGED <<out, dropped, pPntList, pPntList2, gWorkQueue, chunk, wpc, handled, made, cnt>>
      /\ idx' = [idx EXCEPT ![c] = 0] /\ cpc' = [cpc EXCEPT ![c] = "single"]
  BY DEF Fallback, GotoC, lists, work, workers, gpus, fates
<1>2. cpc[c] = "split" /\ cpc'[c] = "single" /\ idx'[c] = 0
  BY <1>1 DEF IInv, TypeOK, Fallback
<1>3. \A b \in Callers : b # c => cpc'[b] = cpc[b] /\ idx'[b] = idx[b]
  BY <1>1 DEF IInv, TypeOK
<1>4. CallerAt(i)' = CallerAt(i)
  BY <1>1, <1>2, <1>3 DEF CallerAt, InCopy
<1>5. Places(i)' = Places(i)
  BY <1>1, <1>4, PlacesAre, SameParts
<1> QED
  BY <1>1, <1>5 DEF Fate

\* The caller handles the next DP of its copy.
LEMMA SingleFate ==
  ASSUME IInv, KeptInv, NEW c \in Callers, SingleStep(c), NEW i \in Ids
  PROVE  Fate(i)
<1> DEFINE d == pPntList2[idx[c] + 1]
<1>1. /\ UNCHANGED <<out, dropped, pPntList, pPntList2, gWorkQueue, chunk, wpc, made, cpc, cnt>>
      /\ idx' = [idx EXCEPT ![c] = @ + 1]
      /\ cpc[c] = "single" /\ Handle(d)
  BY DEF SingleStep, lists, work, workers, gpus
<1>2. idx[c] \in Nat /\ cnt[c] \in Nat /\ idx[c] < cnt[c] /\ cnt[c] = Len(pPntList2)
  BY DEF IInv, TypeOK, BoundsInv, SingleStep
<1>3. idx'[c] = idx[c] + 1 /\ \A b \in Callers : b # c => idx'[b] = idx[b]
  BY <1>1 DEF IInv, TypeOK
<1>4. handled'[i] = IF d.id = i THEN handled[i] + 1 ELSE handled[i]
  BY <1>1, HandledInCopy, HandleCount DEF IInv
<1>5. /\ d.id = i => InCopy(i, idx[c], cnt[c]) /\ ~InCopy(i, idx[c] + 1, cnt[c])
      /\ d.id # i => (InCopy(i, idx[c] + 1, cnt[c]) <=> InCopy(i, idx[c], cnt[c]))
  <2>1. TypeOK /\ DistinctInv
    BY DEF IInv, KeptInv
  <2> DEFINE a == idx[c]  b == cnt[c]
  <2>2. a \in Nat /\ b \in Nat /\ a < b /\ b <= Len(pPntList2)
    BY <1>2
  <2> HIDE DEF a, b
  <2>3. /\ pPntList2[a + 1].id = i => InCopy(i, a, b) /\ ~InCopy(i, a + 1, b)
        /\ pPntList2[a + 1].id # i => (InCopy(i, a + 1, b) <=> InCopy(i, a, b))
    BY <2>1, <2>2, HandledHere
  <2> QED
    BY <2>3 DEF a, b
<1> HIDE DEF d
<1>6. InCopy(i, idx[c], cnt[c])' <=> InCopy(i, idx[c] + 1, cnt[c])
  BY <1>1, <1>3 DEF InCopy
<1>7. \A b \in Callers : /\ InCopy(i, 0, cnt[b])' <=> InCopy(i, 0, cnt[b])
                         /\ b # c => (InCopy(i, idx[b], cnt[b])' <=> InCopy(i, idx[b], cnt[b]))
  BY <1>1, <1>3 DEF InCopy
<1>8. Places(i)' = ListAt(i) \cup GpuAt(i) \cup QueueAt(i) \cup WorkerAt(i)
                     \cup CallerAt(i)' \cup DroppedAt(i)
  BY <1>1, PlacesAre, SameParts
<1>9. CASE d.id = i
  <2>1. <<"caller", c>> \in CallerAt(i) /\ <<"caller", c>> \in Places(i)
    BY <1>1, <1>5, <1>9, PlacesAre DEF CallerAt
  <2>2. \A p, q \in Places(i) : p = q
    BY DEF KeptInv, Kept
  <2>3. ListAt(i) \cup GpuAt(i) \cup QueueAt(i) \cup WorkerAt(i) \cup DroppedAt(i) = {}
    BY <2>1, <2>2, Alone
  <2>4. CallerAt(i)' \subseteq CallerAt(i) \ {<<"caller", c>>}
    BY <1>1, <1>5, <1>6, <1>7, <1>9 DEF CallerAt
  <2>5. CallerAt(i) \subseteq Places(i)
    BY PlacesAre
  <2>6. CallerAt(i)' = {}
    BY <2>1, <2>2, <2>4, <2>5
  <2>7. Places(i)' = {}
    BY <1>8, <2>3, <2>6
  <2> QED
    BY <1>1, <1>4, <1>9, <2>1, <2>7 DEF Fate
<1>10. CASE d.id # i
  <2>1. CallerAt(i)' = CallerAt(i)
    BY <1>1, <1>5, <1>6, <1>7, <1>10 DEF CallerAt
  <2>2. Places(i)' = Places(i)
    BY <1>8, <2>1, PlacesAre
  <2> QED
    BY <1>1, <1>4, <1>10, <2>2 DEF Fate
<1> QED
  BY <1>9, <1>10

\* The walk is over, or given up because the key is known.
LEMMA SingleDoneFate ==
  ASSUME IInv, NEW c \in Callers, SingleDone(c), NEW i \in Ids
  PROVE  Fate(i)
<1>1. /\ UNCHANGED <<out, dropped, pPntList, pPntList2, gWorkQueue, chunk, wpc, made, cnt, idx,
                     handled, gSolved>>
      /\ cpc' = [cpc EXCEPT ![c] = "tail"]
  BY DEF SingleDone, GotoC, lists, work, workers, gpus, fates, flags
<1>2. cpc[c] = "single" /\ cpc'[c] = "tail" /\ \A b \in Callers : b # c => cpc'[b] = cpc[b]
  BY <1>1 DEF IInv, TypeOK, SingleDone
<1>3. Places(i)' = ListAt(i) \cup GpuAt(i) \cup QueueAt(i) \cup WorkerAt(i)
                     \cup CallerAt(i)' \cup DroppedAt(i)
  BY <1>1, PlacesAre, SameParts
<1>4. \A b \in Callers : /\ InCopy(i, 0, cnt[b])' <=> InCopy(i, 0, cnt[b])
                         /\ InCopy(i, idx[b], cnt[b])' <=> InCopy(i, idx[b], cnt[b])
  BY <1>1 DEF InCopy
<1>5. CASE gSolved
  <2>1. CallerAt(i)' \subseteq CallerAt(i)
    BY <1>2, <1>4 DEF CallerAt
  <2>2. Places(i)' \subseteq Places(i)
    BY <1>3, <2>1, PlacesAre
  <2> QED
    BY <1>1, <1>5, <2>2 DEF Fate
<1>6. CASE ~gSolved
  <2>1. idx[c] \in Nat /\ cnt[c] \in Nat /\ ~(idx[c] < cnt[c])
    BY <1>6 DEF IInv, TypeOK, SingleDone
  <2>2. ~InCopy(i, idx[c], cnt[c])
    BY <2>1 DEF InCopy
  <2>3. CallerAt(i)' = CallerAt(i)
    BY <1>2, <1>4, <2>2 DEF CallerAt
  <2>4. Places(i)' = Places(i)
    BY <1>3, <2>3, PlacesAre
  <2> QED
    BY <1>1, <2>4 DEF Fate
<1> QED
  BY <1>5, <1>6

\* A worker takes the last chunk queued.
LEMMA TakeFate ==
  ASSUME IInv, KeptInv, NEW w \in Workers, WorkerTake(w), NEW i \in Ids
  PROVE  Fate(i)
<1> DEFINE S == [start : Nat, end : Nat]
           m == Len(gWorkQueue)
           last == gWorkQueue[m]
<1>1. /\ UNCHANGED <<out, dropped, pPntList, pPntList2, made, cpc, cnt, idx, handled>>
      /\ chunk' = [chunk EXCEPT ![w] = last]
      /\ gWorkQueue' = SubSeq(gWorkQueue, 1, m - 1)
      /\ wpc' = [wpc EXCEPT ![w] = "work"] /\ wpc[w] = "pick" /\ gWorkQueue # <<>>
  BY DEF WorkerTake, lists, callers, gpus, fates
<1>2. gWorkQueue \in Seq(S)
  BY DEF IInv, TypeOK
<1>3. m \in Nat \ {0} /\ DOMAIN gWorkQueue = 1 .. m
  BY <1>1, <1>2, EmptySeq, LenProperties
<1>4. DOMAIN gWorkQueue' = 1 .. m - 1 /\ \A k \in 1 .. m - 1 : gWorkQueue'[k] = gWorkQueue[k]
  BY <1>1, <1>3
<1>5. /\ chunk'[w] = last /\ w \notin Working /\ Working' = Working \cup {w}
      /\ \A v \in Working : v # w /\ chunk'[v] = chunk[v]
  BY <1>1 DEF IInv, TypeOK, Working
<1>6. /\ \A k \in 1 .. m - 1 : InCopy(i, gWorkQueue[k].start, gWorkQueue[k].end)'
                                 <=> InCopy(i, gWorkQueue[k].start, gWorkQueue[k].end)
      /\ \A v \in Working : InCopy(i, chunk[v].start, chunk[v].end)'
                              <=> InCopy(i, chunk[v].start, chunk[v].end)
      /\ InCopy(i, chunk[w].start, chunk[w].end)' <=> InCopy(i, last.start, last.end)
  BY <1>1, <1>4, <1>5 DEF InCopy
<1>7. Places(i)' = ListAt(i) \cup GpuAt(i) \cup QueueAt(i)' \cup WorkerAt(i)'
                     \cup CallerAt(i) \cup DroppedAt(i)
  BY <1>1, PlacesAre, SameParts
<1> HIDE DEF m, last
<1>8. CASE InCopy(i, last.start, last.end)
  <2>1. <<"queue", m>> \in QueueAt(i) /\ <<"queue", m>> \in Places(i)
    BY <1>3, <1>8, PlacesAre DEF QueueAt, last
  <2>2. \A p, q \in Places(i) : p = q
    BY DEF KeptInv, Kept
  <2>3. ListAt(i) \cup GpuAt(i) \cup WorkerAt(i) \cup CallerAt(i) \cup DroppedAt(i) = {}
    BY <2>1, <2>2, Alone
  <2>4. QueueAt(i) = {<<"queue", m>>}
    BY <2>1, <2>2, PlacesAre
  <2>5. \A k \in 1 .. m - 1 : ~InCopy(i, gWorkQueue[k].start, gWorkQueue[k].end)
    <3> SUFFICES ASSUME NEW k \in 1 .. m - 1, InCopy(i, gWorkQueue[k].start, gWorkQueue[k].end)
                 PROVE  FALSE
      OBVIOUS
    <3>1. k \in DOMAIN gWorkQueue /\ k # m
      BY <1>3
    <3>2. <<"queue", k>> \in QueueAt(i)
      BY <3>1 DEF QueueAt
    <3> QED
      BY <2>4, <3>1, <3>2
  <2>6. QueueAt(i)' = {}
    BY <1>4, <1>6, <2>5 DEF QueueAt
  <2>7. \A v \in Working : ~InCopy(i, chunk[v].start, chunk[v].end)
    BY <2>3 DEF WorkerAt
  <2>8. WorkerAt(i)' = {<<"worker", w>>}
    BY <1>5, <1>6, <1>8, <2>7 DEF WorkerAt
  <2>9. Places(i)' = {<<"worker", w>>}
    BY <1>7, <2>3, <2>6, <2>8
  <2> QED
    BY <1>1, <2>1, <2>9 DEF Fate
<1>9. CASE ~InCopy(i, last.start, last.end)
  <2>1. \A k \in 1 .. m : k = m \/ k \in 1 .. m - 1
    BY <1>3
  <2>2. QueueAt(i)' = QueueAt(i)
    <3>1. {k \in DOMAIN gWorkQueue' : InCopy(i, gWorkQueue[k].start, gWorkQueue[k].end)'}
            = {k \in DOMAIN gWorkQueue : InCopy(i, gWorkQueue[k].start, gWorkQueue[k].end)}
      BY <1>3, <1>4, <1>6, <1>9, <2>1 DEF last
    <3> QED
      BY <3>1 DEF QueueAt
  <2>3. WorkerAt(i)' = WorkerAt(i)
    BY <1>5, <1>6, <1>9 DEF WorkerAt
  <2>4. Places(i)' = Places(i)
    BY <1>7, <2>2, <2>3, PlacesAre
  <2> QED
    BY <1>1, <2>4 DEF Fate
<1> QED
  BY <1>8, <1>9

\* A worker handles the next DP of its chunk.
LEMMA WorkerStepFate ==
  ASSUME IInv, KeptInv, NEW w \in Workers, WorkerStep(w), NEW i \in Ids
  PROVE  Fate(i)
<1> DEFINE a == chunk[w].start
           b == chunk[w].end
           d == pPntList2[a + 1]
<1>1. /\ UNCHANGED <<out, dropped, pPntList, pPntList2, gWorkQueue, wpc, made, cpc, cnt, idx>>
      /\ chunk' = [chunk EXCEPT ![w].start = @ + 1]
      /\ wpc[w] = "work" /\ Handle(d)
  BY DEF WorkerStep, lists, work, callers, gpus
<1>2. a \in Nat /\ b \in Nat /\ a < b /\ b <= Len(pPntList2)
  BY <1>1 DEF IInv, TypeOK, BoundsInv, WorkerStep, Working
<1>3. /\ chunk'[w].start = a + 1 /\ chunk'[w].end = b
      /\ \A v \in Workers : v # w => chunk'[v] = chunk[v]
  BY <1>1 DEF IInv, TypeOK
<1>4. handled'[i] = IF d.id = i THEN handled[i] + 1 ELSE handled[i]
  BY <1>1, HandledInCopy, HandleCount DEF IInv
<1>5. TypeOK /\ DistinctInv
  BY DEF IInv, KeptInv
<1>6. w \in Working /\ Working' = Working
  BY <1>1 DEF Working
<1>7. /\ InCopy(i, chunk[w].start, chunk[w].end)' <=> InCopy(i, a + 1, b)
      /\ \A v \in Working : v # w => (InCopy(i, chunk[v].start, chunk[v].end)'
                                        <=> InCopy(i, chunk[v].start, chunk[v].end))
  BY <1>1, <1>3 DEF InCopy, Working
<1>8. WorkerAt(i) = {<<"worker", v>> : v \in {u \in Working : IF u = w THEN InCopy(i, a, b)
                                      ELSE InCopy(i, chunk[u].start, chunk[u].end)}}
  BY DEF WorkerAt
<1>9. WorkerAt(i)' = {<<"worker", v>> : v \in {u \in Working : IF u = w THEN InCopy(i, a + 1, b)
                                       ELSE InCopy(i, chunk[u].start, chunk[u].end)}}
  BY <1>6, <1>7 DEF WorkerAt
<1>10. Places(i)' = ListAt(i) \cup GpuAt(i) \cup QueueAt(i) \cup WorkerAt(i)'
                      \cup CallerAt(i) \cup DroppedAt(i)
  BY <1>1, PlacesAre, SameParts
<1> HIDE DEF a, b
<1>11. /\ d.id = i => InCopy(i, a, b) /\ ~InCopy(i, a + 1, b)
       /\ d.id # i => (InCopy(i, a + 1, b) <=> InCopy(i, a, b))
  BY <1>2, <1>5, HandledHere
<1> HIDE DEF d
<1>12. CASE d.id = i
  <2>1. <<"worker", w>> \in WorkerAt(i) /\ <<"worker", w>> \in Places(i)
    BY <1>6, <1>8, <1>11, <1>12, PlacesAre
  <2>2. \A p, q \in Places(i) : p = q
    BY DEF KeptInv, Kept
  <2>3. ListAt(i) \cup GpuAt(i) \cup QueueAt(i) \cup CallerAt(i) \cup DroppedAt(i) = {}
    BY <2>1, <2>2, Alone
  <2>4. WorkerAt(i)' \subseteq WorkerAt(i) \ {<<"worker", w>>}
    BY <1>8, <1>9, <1>11, <1>12
  <2>5. WorkerAt(i) \subseteq Places(i)
    BY PlacesAre
  <2>6. WorkerAt(i)' = {}
    BY <2>1, <2>2, <2>4, <2>5
  <2>7. Places(i)' = {}
    BY <1>10, <2>3, <2>6
  <2> QED
    BY <1>1, <1>4, <1>12, <2>1, <2>7 DEF Fate
<1>13. CASE d.id # i
  <2>1. WorkerAt(i)' = WorkerAt(i)
    BY <1>8, <1>9, <1>11, <1>13
  <2>2. Places(i)' = Places(i)
    BY <1>10, <2>1, PlacesAre
  <2> QED
    BY <1>1, <1>4, <1>13, <2>2 DEF Fate
<1> QED
  BY <1>12, <1>13

\* A chunk is finished, or given up because the key is known.
LEMMA WorkerDoneFate ==
  ASSUME IInv, NEW w \in Workers, WorkerDone(w), NEW i \in Ids
  PROVE  Fate(i)
<1>1. /\ UNCHANGED <<out, dropped, pPntList, pPntList2, gWorkQueue, made, cpc, cnt, idx,
                     handled, gSolved>>
      /\ chunk' = [chunk EXCEPT ![w] = NoChunk]
      /\ wpc' = [wpc EXCEPT ![w] = "top"] /\ wpc[w] = "work"
  BY DEF WorkerDone, lists, callers, gpus, fates, flags
<1>2. w \in Working /\ Working' = Working \ {w} /\ \A v \in Working' : chunk'[v] = chunk[v]
  BY <1>1 DEF IInv, TypeOK, Working
<1>3. Places(i)' = ListAt(i) \cup GpuAt(i) \cup QueueAt(i) \cup WorkerAt(i)'
                     \cup CallerAt(i) \cup DroppedAt(i)
  BY <1>1, PlacesAre, SameParts
<1>4. WorkerAt(i)' = WorkerAt(i) \ {<<"worker", w>>}
  BY <1>1, <1>2 DEF WorkerAt, InCopy
<1>5. CASE gSolved
  <2>1. Places(i)' \subseteq Places(i)
    BY <1>3, <1>4, PlacesAre
  <2> QED
    BY <1>1, <1>5, <2>1 DEF Fate
<1>6. CASE ~gSolved
  <2>1. /\ chunk[w].start \in Nat /\ chunk[w].end \in Nat
        /\ ~(chunk[w].start < chunk[w].end)
    BY <1>6 DEF IInv, TypeOK, WorkerDone
  <2>2. ~InCopy(i, chunk[w].start, chunk[w].end)
    BY <2>1 DEF InCopy
  <2>3. <<"worker", w>> \notin WorkerAt(i)
    BY <2>2 DEF WorkerAt
  <2>4. Places(i)' = Places(i)
    BY <1>3, <1>4, <2>3, PlacesAre
  <2> QED
    BY <1>1, <2>4 DEF Fate
<1> QED
  BY <1>5, <1>6

\* Every step is one of these.
LEMMA StepFate ==
  ASSUME IInv, KeptInv, [Next]_vars, NEW i \in Ids
  PROVE  Fate(i) /\ (gSolved => gSolved')
<1>1. ASSUME NEW c \in Callers, CheckNewPoints(c)
      PROVE  Fate(i) /\ (gSolved => gSolved')
  <2>1. CASE CheckEmpty(c) \/ WaitDone(c)
    <3>1. cpc[c] \in {"enter", "wait"} /\ cpc' = [cpc EXCEPT ![c] = "tail"]
      BY <2>1 DEF CheckEmpty, WaitDone, GotoC
    <3>2. \A b \in Callers : cpc'[b] # cpc[b] => /\ cpc[b] \notin {"split", "single"}
                                                 /\ cpc'[b] \notin {"split", "single"}
      BY <3>1 DEF IInv, TypeOK
    <3>3. UNCHANGED <<gSolved, pPntList, pPntList2, gWorkQueue, wpc, chunk, cnt, idx, out, made,
                      dropped, handled>>
      BY <2>1 DEF CheckEmpty, WaitDone, flags, lists, work, workers, gpus, fates
    <3>4. Working' = Working
      BY <3>3 DEF Working
    <3> QED
      BY <3>2, <3>3, <3>4, StillFate
  <2>2. CASE Copy(c)
    BY <2>2, CopyFate DEF Copy, flags
  <2>3. CASE Dispatch(c)
    BY <2>3, DispatchFate DEF Dispatch, flags
  <2>4. CASE Fallback(c)
    BY <2>4, FallbackFate DEF Fallback, flags
  <2>5. CASE SingleStep(c)
    <3>1. pPntList2[idx[c] + 1] \in Dps /\ Handle(pPntList2[idx[c] + 1])
      BY <2>5, HandledInCopy DEF SingleStep
    <3>2. gSolved => gSolved'
      BY <3>1, HandleEffect DEF IInv
    <3> QED
      BY <2>5, <3>2, SingleFate
  <2>6. CASE SingleDone(c)
    BY <2>6, SingleDoneFate DEF SingleDone, flags
  <2> QED
    BY <1>1, <2>1, <2>2, <2>3, <2>4, <2>5, <2>6 DEF CheckNewPoints
<1>2. ASSUME NEW w \in Workers, WorkerThread(w)
      PROVE  Fate(i) /\ (gSolved => gSolved')
  <2>1. CASE WorkerTop(w) \/ WorkerNothing(w)
    <3>1. UNCHANGED <<gSolved, pPntList, pPntList2, gWorkQueue, chunk, cpc, cnt, idx, out, made,
                      dropped, handled>>
      BY <2>1 DEF WorkerTop, WorkerNothing, flags, lists, work, callers, gpus, fates
    <3>2. Working' = Working
      BY <2>1 DEF WorkerTop, WorkerNothing, Working, IInv, TypeOK
    <3> QED
      BY <3>1, <3>2, StillFate
  <2>2. CASE WorkerTake(w)
    BY <2>2, TakeFate DEF WorkerTake, flags
  <2>3. CASE WorkerStep(w)
    <3>1. pPntList2[chunk[w].start + 1] \in Dps /\ Handle(pPntList2[chunk[w].start + 1])
      BY <2>3, HandledInCopy DEF WorkerStep
    <3>2. gSolved => gSolved'
      BY <3>1, HandleEffect DEF IInv
    <3> QED
      BY <2>3, <3>2, WorkerStepFate
  <2>4. CASE WorkerDone(w)
    BY <2>4, WorkerDoneFate DEF WorkerDone, flags
  <2> QED
    BY <1>2, <2>1, <2>2, <2>3, <2>4 DEF WorkerThread
<1>3. ASSUME NEW g \in Gpus, GpuThread(g)
      PROVE  Fate(i) /\ (gSolved => gSolved')
  <2>1. CASE Kernel(g)
    BY <2>1, KernelFate DEF Kernel, flags
  <2>2. CASE AddPointsToList(g)
    BY <2>2, AddFate DEF AddPointsToList, flags
  <2>3. CASE GpuExit(g)
    <3>1. UNCHANGED <<gSolved, pPntList, pPntList2, gWorkQueue, wpc, chunk, cpc, cnt, idx, out, made,
                      dropped, handled>>
      BY <2>3 DEF GpuExit, flags, lists, work, workers, callers, fates
    <3>2. Working' = Working
      BY <3>1 DEF Working
    <3> QED
      BY <3>1, <3>2, StillFate
  <2> QED
    BY <1>3, <2>1, <2>2, <2>3 DEF GpuThread
<1>4. ASSUME UNCHANGED <<pPntList, pPntList2, gWorkQueue, wpc, chunk, cnt, idx, out, made,
                         dropped, handled>>,
             gSolved => gSolved',
             \A c \in Callers : cpc'[c] # cpc[c] => /\ cpc[c] \notin {"split", "single"}
                                                    /\ cpc'[c] \notin {"split", "single"}
      PROVE  Fate(i) /\ (gSolved => gSolved')
  <2>1. Working' = Working
    BY <1>4 DEF Working
  <2> QED
    BY <1>4, <2>1, StillFate
<1>5. CASE ProcTop \/ ProcTail
  <2>1. /\ cpc[Proc] \in {"top", "tail"}
        /\ \E l \in {"enter", "end", "top"} : cpc' = [cpc EXCEPT ![Proc] = l]
    BY <1>5 DEF ProcTop, ProcTail, GotoC
  <2>2. \A c \in Callers : cpc'[c] # cpc[c] => /\ cpc[c] \notin {"split", "single"}
                                               /\ cpc'[c] \notin {"split", "single"}
    BY <2>1 DEF IInv, TypeOK
  <2>3. UNCHANGED <<gSolved, pPntList, pPntList2, gWorkQueue, wpc, chunk, cnt, idx, out, made,
                    dropped, handled>>
    BY <1>5 DEF ProcTop, ProcTail, flags, lists, work, workers, gpus, fates
  <2> QED
    BY <1>4, <2>2, <2>3
<1>6. CASE \/ MainTop \/ MainTail \/ Switch \/ StopProcessing \/ StopWorkerThreads \/ StopGpus
           \/ Return
  <2>1. /\ cpc[Main] \in {"top", "tail", "stop", "sleep", "join", "joingpus"}
        /\ \E l \in {"stop", "enter", "tail", "top", "reinit", "sleep", "join", "joingpus", "end"} :
             cpc' = [cpc EXCEPT ![Main] = l]
    BY <1>6 DEF MainTop, MainTail, Switch, StopProcessing, StopWorkerThreads, StopGpus, Return, GotoC
  <2>2. \A c \in Callers : cpc'[c] # cpc[c] => /\ cpc[c] \notin {"split", "single"}
                                               /\ cpc'[c] \notin {"split", "single"}
    BY <2>1 DEF IInv, TypeOK
  <2>3. UNCHANGED <<gSolved, pPntList, pPntList2, gWorkQueue, wpc, chunk, cnt, idx, out, made,
                    dropped, handled>>
    BY <1>6 DEF MainTop, MainTail, Switch, StopProcessing, StopWorkerThreads, StopGpus, Return,
         flags, lists, work, workers, gpus, fates
  <2> QED
    BY <1>4, <2>2, <2>3
<1>7. CASE StartProcessing
  <2>1. /\ cpc[Main] = "reinit"
        /\ cpc' = [cpc EXCEPT ![Main] = "top", ![Proc] = IF @ = "off" THEN "top" ELSE @]
    BY <1>7 DEF StartProcessing
  <2>2. \A c \in Callers : cpc'[c] # cpc[c] => /\ cpc[c] \notin {"split", "single"}
                                               /\ cpc'[c] \notin {"split", "single"}
    BY <2>1 DEF IInv, TypeOK, Callers, Main, Proc
  <2>3. UNCHANGED <<gSolved, pPntList, pPntList2, gWorkQueue, wpc, chunk, cnt, idx, out, made,
                    dropped, handled>>
    BY <1>7 DEF StartProcessing, lists, work, workers, gpus, fates
  <2> QED
    BY <1>4, <2>2, <2>3
<1>8. ASSUME OtherSolves \/ (\E g \in Gpus : ReinitForHunt(g)) \/ UNCHANGED vars
      PROVE  Fate(i) /\ (gSolved => gSolved')
  <2>1. UNCHANGED <<pPntList, pPntList2, gWorkQueue, wpc, chunk, cpc, cnt, idx, out, made,
                    dropped, handled>>
    BY <1>8 DEF OtherSolves, ReinitForHunt, vars, lists, work, callers, workers, gpus, fates
  <2>2. gSolved => gSolved'
    BY <1>8 DEF OtherSolves, ReinitForHunt, vars, flags
  <2> QED
    BY <1>4, <2>1, <2>2
<1> QED
  BY <1>1, <1>2, <1>3, <1>5, <1>6, <1>7, <1>8 DEF Next, SolvePoint, processing_thread, Callers

\* The numbers of a copy are those of the list, of which each is in one place;
\* the numbers of a batch are drawn one after the other.
LEMMA DistinctStep ==
  ASSUME IInv, KeptInv, [Next]_vars
  PROVE  DistinctInv'
<1>1. \A j, l \in DOMAIN pPntList : pPntList[j].id = pPntList[l].id => j = l
  <2> SUFFICES ASSUME NEW j \in DOMAIN pPntList, NEW l \in DOMAIN pPntList,
                      pPntList[j].id = pPntList[l].id
               PROVE  j = l
    OBVIOUS
  <2> DEFINE i == pPntList[j].id
  <2>1. pPntList[j] \in Dps
    BY LenProperties, ElementOfSeq DEF IInv, TypeOK
  <2>2. i \in Ids
    BY <2>1 DEF Dps
  <2>3. <<"list", j>> \in ListAt(i) /\ <<"list", l>> \in ListAt(i)
    BY DEF ListAt
  <2> HIDE DEF i
  <2>4. \A p, q \in Places(i) : p = q
    BY <2>2 DEF KeptInv, Kept
  <2> QED
    BY <2>3, <2>4, PlacesAre
<1>2. ASSUME pPntList2' # pPntList2
      PROVE  pPntList2' = pPntList
  BY <1>2 DEF Next, SolvePoint, processing_thread, WorkerThread, GpuThread, CheckNewPoints,
     vars, lists, CheckEmpty, Copy, Dispatch, Fallback, WaitDone, SingleStep, SingleDone,
     WorkerTop, WorkerNothing, WorkerTake, WorkerStep, WorkerDone, Kernel, AddPointsToList,
     GpuExit, ReinitForHunt, ProcTop, ProcTail, MainTop, MainTail, Switch, StartProcessing,
     StopProcessing, StopWorkerThreads, StopGpus, Return, OtherSolves
<1>3. \A j, l \in DOMAIN pPntList2' : pPntList2'[j].id = pPntList2'[l].id => j = l
  <2>1. CASE pPntList2' = pPntList2
    BY <2>1 DEF KeptInv, DistinctInv
  <2> QED
    BY <1>1, <1>2, <2>1
<1>4. /\ \A g \in Gpus : \A j, l \in DOMAIN out'[g] : out'[g][j].id = out'[g][l].id => j = l
      /\ \A g \in Gpus : gpc'[g] # "add" => out'[g] = <<>>
  <2>1. ASSUME NEW g \in Gpus, Kernel(g)
        PROVE  <1>4!:
    <3>1. PICK n \in BatchSizes, label \in Kind :
            LET gen == IF Mode = "trap" /\ ~wildsOnly[g] THEN "TAME" ELSE label
            IN  out' = [out EXCEPT ![g] =
                         [j \in 1 .. n |-> [id |-> made + j, gen |-> gen, label |-> label]]]
      BY <2>1 DEF Kernel
    <3>2. n \in Nat /\ made \in Nat
      BY PoolAssumption DEF IInv, TypeOK
    <3>3. DOMAIN out'[g] = 1 .. n /\ \A j \in 1 .. n : out'[g][j].id = made + j
      BY <3>1 DEF IInv, TypeOK
    <3>4. \A j, l \in DOMAIN out'[g] : out'[g][j].id = out'[g][l].id => j = l
      BY <3>2, <3>3
    <3>5. gpc'[g] = "add" /\ \A h \in Gpus : h # g => out'[h] = out[h] /\ gpc'[h] = gpc[h]
      BY <2>1, <3>1 DEF Kernel, IInv, TypeOK
    <3> QED
      BY <3>4, <3>5 DEF KeptInv, DistinctInv
  <2>2. ASSUME NEW g \in Gpus, AddPointsToList(g)
        PROVE  <1>4!:
    <3>1. out'[g] = <<>> /\ \A h \in Gpus : h # g => out'[h] = out[h] /\ gpc'[h] = gpc[h]
      BY <2>2 DEF AddPointsToList, IInv, TypeOK
    <3>2. DOMAIN out'[g] = {}
      BY <3>1
    <3> QED
      BY <3>1, <3>2 DEF KeptInv, DistinctInv
  <2>3. ASSUME NEW g \in Gpus, GpuExit(g)
        PROVE  <1>4!:
    <3>1. out' = out /\ gpc[g] = "kernel" /\ \A h \in Gpus : h # g => gpc'[h] = gpc[h]
      BY <2>3 DEF GpuExit, IInv, TypeOK
    <3> QED
      BY <3>1 DEF KeptInv, DistinctInv
  <2>4. ASSUME out' = out, gpc' = gpc
        PROVE  <1>4!:
    BY <2>4 DEF KeptInv, DistinctInv
  <2>5. (\E g \in Gpus : GpuThread(g)) \/ (out' = out /\ gpc' = gpc)
    BY DEF Next, SolvePoint, processing_thread, WorkerThread, CheckNewPoints,
       vars, gpus, CheckEmpty, Copy, Dispatch, Fallback, WaitDone, SingleStep, SingleDone,
       WorkerTop, WorkerNothing, WorkerTake, WorkerStep, WorkerDone,
       ReinitForHunt, ProcTop, ProcTail, MainTop, MainTail, Switch, StartProcessing,
       StopProcessing, StopWorkerThreads, StopGpus, Return, OtherSolves
  <2> QED
    BY <2>1, <2>2, <2>3, <2>4, <2>5 DEF GpuThread
<1> QED
  BY <1>3, <1>4 DEF DistinctInv

LEMMA KeptInductive == Spec => []KeptInv
<1>1. Init => KeptInv
  <2> SUFFICES ASSUME Init PROVE KeptInv
    OBVIOUS
  <2>1. TypeOK
    BY InitIInv DEF IInv
  <2>2. DistinctInv
    BY DEF Init, DistinctInv
  <2>3. ASSUME NEW i \in Ids
        PROVE  Kept(i)
    <3>1. ListAt(i) = {} /\ DroppedAt(i) = {} /\ QueueAt(i) = {} /\ GpuAt(i) = {}
      BY DEF Init, ListAt, DroppedAt, QueueAt, GpuAt
    <3>2. WorkerAt(i) = {} /\ CallerAt(i) = {}
      BY DEF Init, WorkerAt, CallerAt, Working
    <3>3. Places(i) = {} /\ handled[i] = 0 /\ ~(i <= made)
      BY <3>1, <3>2, PlacesAre DEF Init, Ids
    <3> QED
      BY <3>3 DEF Kept
  <2> QED
    BY <2>2, <2>3 DEF KeptInv
<1>2. IInv /\ IInv' /\ KeptInv /\ [Next]_vars => KeptInv'
  <2> SUFFICES ASSUME IInv, IInv', KeptInv, [Next]_vars
               PROVE  KeptInv'
    OBVIOUS
  <2>1. ASSUME NEW i \in Ids
        PROVE  Kept(i)'
    BY StepFate, KeptStep DEF IInv, KeptInv
  <2> QED
    BY <2>1, DistinctStep DEF KeptInv, Ids
<1> QED
  BY <1>1, <1>2, Inductive, PTL DEF Spec

\* Until the key is found every DP that was made is in one place or was handled
\* once: none is lost between the GPU and the store but by a full pPntList,
\* and none is handled twice, whoever walks the copy.
THEOREM ConservationCorrect == Spec => []Conservation
<1>1. IInv /\ KeptInv => Conservation
  <2> SUFFICES ASSUME IInv, KeptInv, NEW i \in 1 .. made
               PROVE  LET n == Cardinality(Places(i)) + handled[i]
                      IN  n <= 1 /\ (gSolved \/ n = 1)
    BY DEF Conservation
  <2>1. i \in Ids /\ i <= made
    <3>1. made \in 0 .. MaxDps /\ MaxDps \in Nat
      BY PoolAssumption DEF IInv, TypeOK
    <3> QED
      BY <3>1 DEF Ids
  <2>2. Kept(i)
    BY <2>1 DEF KeptInv
  <2>3. CASE Places(i) = {}
    <3>1. Cardinality(Places(i)) = 0
      BY <2>3, FS_EmptySet
    <3> QED
      BY <2>1, <2>2, <2>3, <3>1 DEF Kept
  <2>4. CASE Places(i) # {}
    <3>1. PICK p : p \in Places(i)
      BY <2>4
    <3>2. Places(i) = {p}
      BY <2>2, <3>1 DEF Kept
    <3>3. Cardinality(Places(i)) = 1
      BY <3>2, FS_Singleton
    <3> QED
      BY <2>2, <2>4, <3>3 DEF Kept
  <2> QED
    BY <2>3, <2>4
<1> QED
  BY <1>1, Inductive, KeptInductive, PTL

-----------------------------------------------------------------------------
(* Nobody waits for nobody.                                                *)

\* The main loop leaves, and the workers are told to stop, only once the key
\* is known; and a worker only ends when told.
StopInv ==
  /\ cpc[Main] \in {"stop", "sleep", "join", "joingpus", "end"} => gSolved
  /\ ~gWorkersRunning => gSolved
  /\ \A w \in Workers : wpc[w] = "end" => ~gWorkersRunning

\* Steps of the callers, and the main loop's own.
LEMMA StopCallers ==
  ASSUME IInv, StopInv, SolvePoint \/ processing_thread
  PROVE  StopInv'
<1> USE DEF flags, lists, work, workers, gpus, fates, GotoC, Callers, Main, Proc
<1>1. cpc \in [Callers -> {"off", "top", "enter", "split", "single", "wait", "tail",
                           "reinit", "stop", "sleep", "join", "joingpus", "end"}]
  BY DEF IInv, TypeOK
<1>2. ASSUME NEW c \in Callers, CheckNewPoints(c)
      PROVE  StopInv'
  <2>1. CASE SingleStep(c)
    <3>1. (gSolved => gSolved') /\ gWorkersRunning' = gWorkersRunning
      <4>1. idx[c] + 1 \in DOMAIN pPntList2 /\ pPntList2[idx[c] + 1] \in Dps
        BY <2>1, HandledInCopy
      <4> QED BY <2>1, <4>1, HandleEffect DEF IInv, SingleStep
    <3>2. cpc' = cpc /\ wpc' = wpc
      BY <2>1 DEF SingleStep
    <3> QED BY <3>1, <3>2 DEF StopInv
  <2>2. CASE CheckEmpty(c)
    BY <1>1, <2>2 DEF CheckEmpty, StopInv
  <2>3. CASE Copy(c)
    BY <1>1, <2>3 DEF Copy, StopInv
  <2>4. CASE Dispatch(c)
    BY <1>1, <2>4 DEF Dispatch, StopInv
  <2>5. CASE Fallback(c)
    BY <1>1, <2>5 DEF Fallback, StopInv
  <2>6. CASE WaitDone(c)
    BY <1>1, <2>6 DEF WaitDone, StopInv
  <2>7. CASE SingleDone(c)
    BY <1>1, <2>7 DEF SingleDone, StopInv
  <2> QED BY <1>2, <2>1, <2>2, <2>3, <2>4, <2>5, <2>6, <2>7 DEF CheckNewPoints
<1>3. CASE ProcTop
  BY <1>1, <1>3 DEF ProcTop, StopInv
<1>4. CASE ProcTail
  BY <1>1, <1>4 DEF ProcTail, StopInv
<1>5. CASE MainTop
  BY <1>1, <1>5 DEF MainTop, StopInv
<1>6. CASE MainTail
  BY <1>1, <1>6 DEF MainTail, StopInv
<1>7. CASE Switch
  <2>1. /\ gSolved' = gSolved /\ gWorkersRunning' = gWorkersRunning /\ wpc' = wpc
        /\ cpc'[Main] = "reinit"
    BY <1>1, <1>7 DEF Switch
  <2> QED BY <2>1 DEF StopInv
<1>8. CASE StartProcessing
  BY <1>1, <1>8 DEF StartProcessing, StopInv
<1>9. CASE \E g \in Gpus : ReinitForHunt(g)
  BY <1>9 DEF ReinitForHunt, StopInv, callers
<1>10. CASE StopProcessing
  BY <1>1, <1>10 DEF StopProcessing, StopInv
<1>11. CASE StopWorkerThreads
  BY <1>1, <1>11 DEF StopWorkerThreads, StopInv
<1>12. CASE StopGpus
  BY <1>1, <1>12 DEF StopGpus, StopInv
<1>13. CASE Return
  BY <1>1, <1>13 DEF Return, StopInv
<1> QED
  BY <1>2, <1>3, <1>4, <1>5, <1>6, <1>7, <1>8, <1>9, <1>10, <1>11, <1>12, <1>13
  DEF SolvePoint, processing_thread

\* Steps of the other threads.
LEMMA StopOthers ==
  ASSUME IInv, StopInv,
         \/ OtherSolves
         \/ \E w \in Workers : WorkerThread(w)
         \/ \E g \in Gpus : GpuThread(g)
  PROVE  StopInv'
<1> USE DEF flags, lists, work, workers, callers, gpus, fates
<1>1. wpc \in [Workers -> {"top", "pick", "work", "end"}]
  BY DEF IInv, TypeOK
<1>2. CASE OtherSolves
  BY <1>2 DEF OtherSolves, StopInv
<1>3. ASSUME NEW w \in Workers, WorkerThread(w)
      PROVE  StopInv'
  <2>1. CASE WorkerTop(w)
    BY <1>1, <2>1 DEF WorkerTop, StopInv
  <2>2. CASE WorkerNothing(w)
    BY <1>1, <2>2 DEF WorkerNothing, StopInv
  <2>3. CASE WorkerTake(w)
    BY <1>1, <2>3 DEF WorkerTake, StopInv
  <2>4. CASE WorkerStep(w)
    <3>1. (gSolved => gSolved') /\ gWorkersRunning' = gWorkersRunning
      <4>1. /\ chunk[w].start + 1 \in DOMAIN pPntList2
            /\ pPntList2[chunk[w].start + 1] \in Dps
        BY <2>4, HandledInCopy
      <4> QED BY <2>4, <4>1, HandleEffect DEF IInv, WorkerStep
    <3>2. cpc' = cpc /\ wpc' = wpc
      BY <2>4 DEF WorkerStep
    <3> QED BY <3>1, <3>2 DEF StopInv
  <2>5. CASE WorkerDone(w)
    BY <1>1, <2>5 DEF WorkerDone, StopInv
  <2> QED BY <1>3, <2>1, <2>2, <2>3, <2>4, <2>5 DEF WorkerThread
<1>4. ASSUME NEW g \in Gpus, GpuThread(g)
      PROVE  StopInv'
  BY <1>4 DEF GpuThread, Kernel, AddPointsToList, GpuExit, StopInv
<1> QED BY <1>2, <1>3, <1>4

LEMMA StopStep == IInv /\ StopInv /\ [Next]_vars => StopInv'
<1> SUFFICES ASSUME IInv, StopInv, [Next]_vars PROVE StopInv'
  OBVIOUS
<1>1. CASE UNCHANGED vars
  BY <1>1 DEF vars, flags, callers, workers, StopInv
<1>2. CASE Next
  BY <1>2, StopCallers, StopOthers DEF Next
<1> QED BY <1>1, <1>2

\* The wait in CheckNewPoints, which has no timeout, always has somebody to
\* wait for: a worker with a chunk, or queued chunks and workers that run.
THEOREM NoStarvedWaitCorrect == Spec => []NoStarvedWait
<1>1. Init => StopInv
  BY DEF Init, StopInv, Callers, Main, Proc
<1>2. IInv /\ StopInv => NoStarvedWait
  <2> SUFFICES ASSUME IInv, StopInv, NEW c \in Callers,
                      cpc[c] = "wait", ~WaitOver(gPendingChunks), ~gSolved
               PROVE  /\ Working # {} \/ gWorkQueue # <<>>
                      /\ gWorkersRunning /\ \A w \in Workers : wpc[w] # "end"
    BY DEF NoStarvedWait
  <2>1. gWorkersRunning /\ \A w \in Workers : wpc[w] # "end"
    BY DEF StopInv
  <2>2. Working = {} /\ gWorkQueue = <<>> => gPendingChunks = 0
    BY FS_EmptySet DEF IInv, PendingExact
  <2>3. gPendingChunks # 0
    BY DEF WaitOver
  <2> QED BY <2>1, <2>2, <2>3
<1> QED
  BY <1>1, <1>2, StopStep, Inductive, PTL DEF Spec

-----------------------------------------------------------------------------
(* The path of the DPs implements DpQueue.                                 *)

\* The copy is as long as the list was.
CopyFits == Len(pPntList2) <= ListCap

LEMMA CopyFitsStep == IInv /\ CopyFits /\ [Next]_vars => CopyFits'
<1> SUFFICES ASSUME IInv, CopyFits, [Next]_vars PROVE CopyFits'
  OBVIOUS
<1>1. ASSUME pPntList2' # pPntList2
      PROVE  pPntList2' = pPntList
  BY <1>1 DEF Next, SolvePoint, processing_thread, WorkerThread, GpuThread, CheckNewPoints,
     vars, lists, CheckEmpty, Copy, Dispatch, Fallback, WaitDone, SingleStep, SingleDone,
     WorkerTop, WorkerNothing, WorkerTake, WorkerStep, WorkerDone, Kernel, AddPointsToList,
     GpuExit, ReinitForHunt, ProcTop, ProcTail, MainTop, MainTail, Switch, StartProcessing,
     StopProcessing, StopWorkerThreads, StopGpus, Return, OtherSolves
<1> QED
  BY <1>1 DEF CopyFits, IInv, TypeOK

\* A DP is queued when it is in one of four parts of Places.
HeldAt(i) == ListAt(i) \cup QueueAt(i) \cup WorkerAt(i) \cup CallerAt(i)

LEMMA Tags ==
  ASSUME NEW i
  PROVE  /\ \A p \in HeldAt(i) : p[1] \notin {"gpu", "dropped"}
         /\ \A p \in GpuAt(i) \cup DroppedAt(i) : p[1] \in {"gpu", "dropped"}
         /\ Places(i) = HeldAt(i) \cup GpuAt(i) \cup DroppedAt(i)
<1>1. /\ \A p \in ListAt(i) : p[1] = "list"
      /\ \A p \in QueueAt(i) : p[1] = "queue"
      /\ \A p \in WorkerAt(i) : p[1] = "worker"
      /\ \A p \in CallerAt(i) : p[1] = "caller"
  BY DEF ListAt, QueueAt, WorkerAt, CallerAt
<1>2. /\ \A p \in GpuAt(i) : p[1] = "gpu"
      /\ \A p \in DroppedAt(i) : p[1] = "dropped"
  BY DEF GpuAt, DroppedAt
<1>3. Places(i) = HeldAt(i) \cup GpuAt(i) \cup DroppedAt(i)
  BY PlacesAre DEF HeldAt
<1> QED
  BY <1>1, <1>2, <1>3 DEF HeldAt

LEMMA QueuedIs == \A i : i \in QueuedIds <=> i \in Ids /\ HeldAt(i) # {}
<1> SUFFICES ASSUME NEW i \in Ids
             PROVE  (\E p \in Places(i) : p[1] \notin {"gpu", "dropped"}) <=> HeldAt(i) # {}
  BY DEF QueuedIds
<1> QED
  BY Tags

LEMMA QueuedIsNext == \A i : i \in QueuedIds' <=> i \in Ids /\ HeldAt(i)' # {}
<1>1. (\A i : i \in QueuedIds <=> i \in Ids /\ HeldAt(i) # {})'
  BY QueuedIs, PTL
<1> QED
  BY <1>1

LEMMA BatchIs ==
  ASSUME NEW i
  PROVE  GpuAt(i) # {} <=> \E g \in Gpus : i \in Batches[g]
BY DEF GpuAt, Batches

\* What a step that is none of the GPUs' does to the queue.
LEMMA QuietFate ==
  ASSUME NEW i \in Ids, IInv, KeptInv, Fate(i), UNCHANGED <<out, dropped, made>>
  PROVE  /\ handled'[i] = handled[i] =>
              /\ i \in QueuedIds' => i \in QueuedIds
              /\ i \in QueuedIds => i \in QueuedIds' \/ gSolved
         /\ handled'[i] # handled[i] => i \in QueuedIds /\ i \notin QueuedIds'
<1>1. GpuAt(i)' = GpuAt(i) /\ DroppedAt(i)' = DroppedAt(i)
  BY SameParts
<1> DEFINE G == GpuAt(i) \cup DroppedAt(i)
           H == HeldAt(i)
           K == HeldAt(i)'
           P == Places(i)
           Q == Places(i)'
<1>2. P = H \cup G /\ Q = K \cup G /\ H \cap G = {} /\ K \cap G = {}
  <2>1. (/\ \A p \in HeldAt(i) : p[1] \notin {"gpu", "dropped"}
         /\ Places(i) = HeldAt(i) \cup GpuAt(i) \cup DroppedAt(i))'
    BY Tags, PTL
  <2>2. P = H \cup G /\ H \cap G = {} /\ \A p \in G : p[1] \in {"gpu", "dropped"}
    BY Tags
  <2> QED
    BY <1>1, <2>1, <2>2
<1>3. (i \in QueuedIds <=> H # {}) /\ (i \in QueuedIds' <=> K # {})
  BY QueuedIs, QueuedIsNext
<1>4. \A p, q \in P : p = q
  BY DEF KeptInv, Kept
<1>5. made \in Nat /\ made' = made /\ i \in Nat /\ handled[i] \in {0, 1}
  BY DEF IInv, TypeOK, Ids, KeptInv, Kept
<1>6. \/ Q = P /\ handled'[i] = handled[i]
      \/ P # {} /\ (\E q : Q = {q}) /\ handled'[i] = handled[i]
      \/ P # {} /\ Q = {} /\ handled'[i] = handled[i] + 1
      \/ gSolved /\ Q \subseteq P /\ handled'[i] = handled[i]
  <2>1. ~(i > made /\ i <= made')
    BY <1>5
  <2> QED
    BY <2>1, Zenon DEF Fate
<1> HIDE DEF G, H, K, P, Q
<1>7. CASE Q = P /\ handled'[i] = handled[i]
  BY <1>2, <1>3, <1>7
<1>8. CASE P # {} /\ (\E q : Q = {q}) /\ handled'[i] = handled[i]
  BY <1>2, <1>3, <1>4, <1>8
<1>9. CASE P # {} /\ Q = {} /\ handled'[i] = handled[i] + 1
  BY <1>2, <1>3, <1>5, <1>9
<1>10. CASE gSolved /\ Q \subseteq P /\ handled'[i] = handled[i]
  BY <1>2, <1>3, <1>10
<1> QED
  BY <1>6, <1>7, <1>8, <1>9, <1>10

LostIds == {d.id : d \in dropped}
FreshIds == made + 1 .. MaxDps

LEMMA QueueIs ==
  /\ \A g : Queue!Yield(g) <=>
       /\ Batches[g] = {}
       /\ \E B \in SUBSET FreshIds : /\ Batches' = [Batches EXCEPT ![g] = B]
                                     /\ FreshIds' = FreshIds \ B
       /\ UNCHANGED <<QueuedIds, handled, LostIds, gSolved>>
  /\ \A g : Queue!HandOver(g) <=>
       /\ Batches[g] # {}
       /\ Batches' = [Batches EXCEPT ![g] = {}]
       /\ UNCHANGED <<FreshIds, handled, gSolved>>
  /\ \A g : Queue!Take(g) <=>
       /\ Queue!HandOver(g)
       /\ QueuedIds' = QueuedIds \cup Batches[g]
       /\ Cardinality(QueuedIds') < 2 * ListCap
       /\ UNCHANGED LostIds
  /\ \A g : Queue!Drop(g) <=>
       /\ Queue!HandOver(g)
       /\ Cardinality(QueuedIds \cup Batches[g]) >= ListCap
       /\ LostIds' = LostIds \cup Batches[g]
       /\ UNCHANGED QueuedIds
  /\ \A i : Queue!Process(i) <=>
       /\ i \in QueuedIds
       /\ QueuedIds' = QueuedIds \ {i}
       /\ handled' = [handled EXCEPT ![i] = @ + 1]
       /\ gSolved' \in {gSolved, TRUE}
       /\ UNCHANGED <<FreshIds, Batches, LostIds>>
  /\ Queue!Solve <=>
       gSolved' = TRUE /\ UNCHANGED <<FreshIds, Batches, QueuedIds, handled, LostIds>>
  /\ Queue!Abandon <=>
       /\ gSolved
       /\ QueuedIds' \in SUBSET QueuedIds
       /\ UNCHANGED <<FreshIds, Batches, handled, LostIds, gSolved>>
  /\ UNCHANGED Queue!vars <=>
       UNCHANGED <<FreshIds, Batches, QueuedIds, handled, LostIds, gSolved>>
<1>1. \A S : Queue!Cardinality(S) = Cardinality(S)
  BY DEF Queue!Cardinality, Cardinality
<1> QED
  BY <1>1, Zenon DEF Queue!Yield, Queue!HandOver, Queue!Take, Queue!Drop, Queue!Process, Queue!Solve,
     Queue!Abandon, Queue!vars, FreshIds, LostIds

\* Control, and giving up once the key is known.
LEMMA QueueQuiet ==
  ASSUME IInv, KeptInv, \A i \in Ids : Fate(i), gSolved => gSolved', gSolved' \in BOOLEAN,
         UNCHANGED <<out, dropped, made, handled>>,
         gSolved' = gSolved \/ QueuedIds' = QueuedIds
  PROVE  [Queue!Next]_(Queue!vars)
<1>1. UNCHANGED <<FreshIds, Batches, handled, LostIds>>
  BY DEF FreshIds, Batches, LostIds
<1>2. QueuedIds' \subseteq QueuedIds /\ (QueuedIds \subseteq QueuedIds' \/ gSolved)
  <2>1. \A i \in Ids : /\ i \in QueuedIds' => i \in QueuedIds
                       /\ i \in QueuedIds => i \in QueuedIds' \/ gSolved
    BY QuietFate
  <2>2. QueuedIds \subseteq Ids /\ QueuedIds' \subseteq Ids
    BY QueuedIs, QueuedIsNext
  <2> QED
    BY <2>1, <2>2
<1>3. gSolved \in BOOLEAN
  BY DEF IInv, TypeOK
<1>4. CASE gSolved
  BY <1>1, <1>2, <1>3, <1>4, QueueIs DEF Queue!Next
<1>5. CASE ~gSolved /\ gSolved'
  BY <1>1, <1>2, <1>5, QueueIs DEF Queue!Next
<1>6. CASE ~gSolved /\ ~gSolved'
  BY <1>1, <1>2, <1>3, <1>6, QueueIs
<1> QED
  BY <1>4, <1>5, <1>6

\* A DP that is handled was queued, and is no longer.
LEMMA QueueHandle ==
  ASSUME IInv, KeptInv, \A i \in Ids : Fate(i), NEW d \in Dps, Handle(d), ~gSolved,
         UNCHANGED <<out, dropped, made>>
  PROVE  Queue!Process(d.id)
<1>1. UNCHANGED <<FreshIds, Batches, LostIds>>
  BY DEF FreshIds, Batches, LostIds
<1>2. handled' = [handled EXCEPT ![d.id] = @ + 1] /\ d.id \in Ids /\ handled \in [Ids -> Nat]
  BY DEF Handle, Dps, IInv, TypeOK
<1>3. handled'[d.id] # handled[d.id] /\ \A i \in Ids : i # d.id => handled'[i] = handled[i]
  BY <1>2
<1>4. gSolved' \in {gSolved, TRUE}
  <2>1. gSolved' \in BOOLEAN /\ gSolved \in BOOLEAN
    BY HandleEffect DEF IInv, TypeOK
  <2> QED
    BY <2>1
<1>5. \A i \in Ids : /\ i # d.id => (i \in QueuedIds' <=> i \in QueuedIds)
                     /\ i = d.id => i \in QueuedIds /\ i \notin QueuedIds'
  BY <1>3, QuietFate
<1>6. QueuedIds \subseteq Ids /\ QueuedIds' \subseteq Ids
  BY QueuedIs, QueuedIsNext
<1>7. d.id \in QueuedIds /\ QueuedIds' = QueuedIds \ {d.id}
  BY <1>2, <1>5, <1>6
<1> QED
  BY <1>1, <1>2, <1>4, <1>7, QueueIs

\* A kernel call fills an empty batch with new DPs.
LEMMA QueueYield ==
  ASSUME IInv, KeptInv, NEW g \in Gpus, Kernel(g)
  PROVE  Queue!Yield(g)
<1>1. PICK n \in BatchSizes, label \in Kind :
        LET gen == IF Mode = "trap" /\ ~wildsOnly[g] THEN "TAME" ELSE label
        IN  /\ made + n <= MaxDps
            /\ out' = [out EXCEPT ![g] =
                        [j \in 1 .. n |-> [id |-> made + j, gen |-> gen, label |-> label]]]
            /\ made' = made + n
  BY DEF Kernel
<1>2. n \in Nat /\ made \in Nat /\ MaxDps \in Nat
  BY PoolAssumption DEF IInv, TypeOK
<1>3. out[g] = <<>>
  BY DEF Kernel, KeptInv, DistinctInv
<1>4. /\ DOMAIN out'[g] = 1 .. n /\ \A j \in 1 .. n : out'[g][j].id = made + j
      /\ \A h \in Gpus : h # g => out'[h] = out[h]
  BY <1>1 DEF IInv, TypeOK
<1> DEFINE B == made + 1 .. made + n
<1>5. {out'[g][j].id : j \in DOMAIN out'[g]} = B
  <2>1. \A i \in B : i - made \in 1 .. n /\ i = made + (i - made)
    BY <1>2
  <2>2. \A j \in 1 .. n : made + j \in B
    BY <1>2
  <2> QED
    BY <1>4, <2>1, <2>2
<1>6. Batches[g] = {}
  BY <1>3 DEF Batches
<1>7. Batches' = [Batches EXCEPT ![g] = B]
  BY <1>4, <1>5 DEF Batches
<1>8. B \in SUBSET FreshIds /\ FreshIds' = FreshIds \ B
  BY <1>1, <1>2 DEF FreshIds
<1>9. UNCHANGED <<handled, LostIds, gSolved>>
  BY DEF Kernel, flags, fates, LostIds
<1>10. QueuedIds' = QueuedIds
  <2>1. UNCHANGED <<pPntList, pPntList2, gWorkQueue, chunk, wpc, cnt, idx, cpc>>
    BY DEF Kernel, lists, work, workers, callers
  <2>2. \A i \in Ids : HeldAt(i)' = HeldAt(i)
    BY <2>1, SameParts DEF HeldAt
  <2> QED
    BY <2>2, QueuedIs, QueuedIsNext
<1> HIDE DEF B
<1> QED
  BY <1>6, <1>7, <1>8, <1>9, <1>10, QueueIs

\* The numbers in a sequence of DPs.
NumbersOf(s) == {s[j].id : j \in DOMAIN s}

LEMMA NumbersCount ==
  ASSUME NEW s \in Seq(Dps)
  PROVE  /\ IsFiniteSet(NumbersOf(s)) /\ Cardinality(NumbersOf(s)) <= Len(s)
         /\ (\A j, l \in DOMAIN s : s[j].id = s[l].id => j = l)
              => Cardinality(NumbersOf(s)) = Len(s)
<1> DEFINE n == Len(s)
           f == [j \in 1 .. n |-> s[j].id]
<1>1. n \in Nat /\ DOMAIN s = 1 .. n
  BY LenProperties
<1>2. IsFiniteSet(1 .. n) /\ Cardinality(1 .. n) = n
  BY <1>1, FS_Interval
<1>3. f \in Surjection(1 .. n, NumbersOf(s))
  BY <1>1 DEF Surjection, NumbersOf
<1>4. (\A j, l \in DOMAIN s : s[j].id = s[l].id => j = l) => f \in Injection(1 .. n, NumbersOf(s))
  <2>1. f \in [1 .. n -> NumbersOf(s)]
    BY <1>3 DEF Surjection
  <2> QED
    BY <1>1, <2>1 DEF Injection, IsInjective
<1> HIDE DEF f
<1> QED
  BY <1>2, <1>3, <1>4, FS_Surjection

LEMMA IdsFinite == IsFiniteSet(Ids)
<1>1. MaxDps \in Int /\ 1 \in Int
  BY PoolAssumption
<1> QED
  BY <1>1, FS_Interval DEF Ids

\* What is queued stands in pPntList or in the copy.
LEMMA QueuedCount ==
  ASSUME IInv
  PROVE  /\ QueuedIds \subseteq NumbersOf(pPntList) \cup NumbersOf(pPntList2)
         /\ Cardinality(QueuedIds) <= Len(pPntList) + Len(pPntList2)
<1>1. pPntList \in Seq(Dps) /\ pPntList2 \in Seq(Dps)
  BY DEF IInv, TypeOK
<1>2. /\ DOMAIN pPntList2 = 1 .. Len(pPntList2)
      /\ Len(pPntList) \in Nat /\ Len(pPntList2) \in Nat
  BY <1>1, LenProperties
<1>3. ASSUME NEW i, NEW a \in Nat, NEW b \in Nat, b <= Len(pPntList2), InCopy(i, a, b)
      PROVE  i \in NumbersOf(pPntList2)
  <2>1. PICK j \in a + 1 .. b : pPntList2[j].id = i
    BY <1>3 DEF InCopy
  <2>2. j \in DOMAIN pPntList2
    BY <1>2, <1>3, <2>1
  <2> QED
    BY <2>1, <2>2 DEF NumbersOf
<1>4. ASSUME NEW i \in Ids, HeldAt(i) # {}
      PROVE  i \in NumbersOf(pPntList) \cup NumbersOf(pPntList2)
  <2>1. CASE ListAt(i) # {}
    BY <2>1 DEF ListAt, NumbersOf
  <2>2. CASE QueueAt(i) # {}
    <3>1. PICK k \in DOMAIN gWorkQueue : InCopy(i, gWorkQueue[k].start, gWorkQueue[k].end)
      BY <2>2 DEF QueueAt
    <3>2. gWorkQueue[k] \in [start : Nat, end : Nat]
      <4>1. gWorkQueue \in Seq([start : Nat, end : Nat])
        BY DEF IInv, TypeOK
      <4>2. DOMAIN gWorkQueue = 1 .. Len(gWorkQueue)
        BY <4>1, LenProperties
      <4> QED
        BY <4>1, <4>2, ElementOfSeq
    <3>3. gWorkQueue[k].start \in Nat /\ gWorkQueue[k].end \in Nat
      BY <3>2
    <3> QED
      BY <1>3, <3>1, <3>3 DEF IInv, BoundsInv
  <2>3. CASE WorkerAt(i) # {}
    <3>1. PICK w \in Working : InCopy(i, chunk[w].start, chunk[w].end)
      BY <2>3 DEF WorkerAt
    <3>2. chunk[w].start \in Nat /\ chunk[w].end \in Nat
      BY DEF IInv, TypeOK, Working
    <3> QED
      BY <1>3, <3>1, <3>2 DEF IInv, BoundsInv
  <2>4. CASE CallerAt(i) # {}
    <3>1. PICK c \in Callers : \/ cpc[c] = "split" /\ InCopy(i, 0, cnt[c])
                               \/ cpc[c] = "single" /\ InCopy(i, idx[c], cnt[c])
      BY <2>4 DEF CallerAt
    <3>2. cnt[c] \in Nat /\ idx[c] \in Nat /\ cnt[c] = Len(pPntList2)
      BY <3>1 DEF IInv, TypeOK, BoundsInv
    <3>3. cnt[c] <= Len(pPntList2)
      BY <1>2, <3>2
    <3> QED
      BY <1>3, <3>1, <3>2, <3>3
  <2> QED
    BY <1>4, <2>1, <2>2, <2>3, <2>4 DEF HeldAt
<1>5. QueuedIds \subseteq NumbersOf(pPntList) \cup NumbersOf(pPntList2)
  BY <1>4, QueuedIs
<1> DEFINE A == NumbersOf(pPntList)
           B == NumbersOf(pPntList2)
<1>6. /\ IsFiniteSet(A) /\ Cardinality(A) <= Len(pPntList) /\ Cardinality(A) \in Nat
      /\ IsFiniteSet(B) /\ Cardinality(B) <= Len(pPntList2) /\ Cardinality(B) \in Nat
  BY <1>1, NumbersCount, FS_CardinalityType
<1> HIDE DEF A, B
<1>7. /\ IsFiniteSet(A \cup B) /\ Cardinality(A \cup B) <= Cardinality(A) + Cardinality(B)
      /\ Cardinality(A \cup B) \in Nat
  <2>1. /\ IsFiniteSet(A \cup B)
        /\ Cardinality(A \cup B) = Cardinality(A) + Cardinality(B) - Cardinality(A \cap B)
    BY <1>6, FS_Union
  <2>2. IsFiniteSet(A \cap B) /\ Cardinality(A \cap B) \in Nat
    BY <1>6, FS_Intersection, FS_CardinalityType
  <2> QED
    BY <1>6, <2>1, <2>2, FS_CardinalityType
<1>8. IsFiniteSet(QueuedIds) /\ Cardinality(QueuedIds) <= Cardinality(A \cup B)
  BY <1>5, <1>7, FS_Subset DEF A, B
<1>9. Cardinality(QueuedIds) \in Nat
  BY <1>8, FS_CardinalityType
<1>10. Cardinality(QueuedIds) <= Len(pPntList) + Len(pPntList2)
  BY <1>2, <1>6, <1>7, <1>8, <1>9
<1> QED
  BY <1>5, <1>10

\* A batch that finds room joins the queue, one that does not is lost.
LEMMA QueueAdd ==
  ASSUME IInv, IInv', KeptInv, CopyFits, NEW g \in Gpus, AddPointsToList(g)
  PROVE  Queue!Take(g) \/ Queue!Drop(g) \/ UNCHANGED Queue!vars
<1> DEFINE b == out[g]
<1>1. /\ UNCHANGED <<pPntList2, gWorkQueue, chunk, wpc, cnt, idx, cpc, handled, made, gSolved>>
      /\ out' = [out EXCEPT ![g] = <<>>]
  BY DEF AddPointsToList, work, workers, callers, fates, flags
<1>2. b \in Seq(Dps) /\ pPntList \in Seq(Dps) /\ pPntList' \in Seq(Dps) /\ pPntList2 \in Seq(Dps)
  BY DEF IInv, TypeOK
<1>3. /\ DOMAIN b = 1 .. Len(b) /\ DOMAIN pPntList = 1 .. Len(pPntList)
      /\ DOMAIN pPntList' = 1 .. Len(pPntList')
      /\ {Len(b), Len(pPntList), Len(pPntList'), Len(pPntList2)} \subseteq Nat
  BY <1>2, LenProperties
<1>4. Batches[g] = NumbersOf(b) /\ Batches' = [Batches EXCEPT ![g] = {}]
  <2>1. out'[g] = <<>> /\ \A h \in Gpus : h # g => out'[h] = out[h]
    BY <1>1 DEF IInv, TypeOK
  <2>2. Batches[g] = NumbersOf(b)
    BY DEF Batches, NumbersOf
  <2>3. \A h \in Gpus : Batches'[h] = IF h = g THEN {} ELSE Batches[h]
    BY <2>1 DEF Batches
  <2>4. Batches \in [Gpus -> {Batches[h] : h \in Gpus}] /\ DOMAIN Batches = Gpus
    BY DEF Batches
  <2>5. DOMAIN Batches' = Gpus /\ Batches' = [h \in Gpus |-> Batches'[h]]
    BY DEF Batches
  <2> QED
    BY <2>2, <2>3, <2>4, <2>5
<1>5. UNCHANGED <<FreshIds, handled, gSolved>>
  BY <1>1 DEF FreshIds
<1>6. NumbersOf(b) \subseteq Ids
  <2>1. \A j \in DOMAIN b : b[j] \in Dps
    BY <1>2, <1>3, ElementOfSeq
  <2> QED
    BY <2>1 DEF Dps, NumbersOf
<1>7. ASSUME NEW i \in Ids
      PROVE  /\ ListAt(i) # {} <=> i \in NumbersOf(pPntList)
             /\ ListAt(i)' # {} <=> i \in NumbersOf(pPntList')
             /\ HeldAt(i)' = ListAt(i)' \cup QueueAt(i) \cup WorkerAt(i) \cup CallerAt(i)
  <2>1. ListAt(i) # {} <=> i \in NumbersOf(pPntList)
    BY Zenon DEF ListAt, NumbersOf
  <2>2. ListAt(i)' # {} <=> i \in NumbersOf(pPntList')
    BY Zenon DEF ListAt, NumbersOf
  <2>3. HeldAt(i)' = ListAt(i)' \cup QueueAt(i) \cup WorkerAt(i) \cup CallerAt(i)
    BY <1>1, SameParts DEF HeldAt
  <2> QED
    BY <2>1, <2>2, <2>3
<1>8. CASE NumbersOf(b) = {}
  <2>1. b = <<>>
    <3>1. \A j \in DOMAIN b : FALSE
      BY <1>8, Zenon DEF NumbersOf
    <3>2. Len(b) = 0
      BY <1>3, <3>1
    <3> QED
      BY <1>2, <3>2, EmptySeq
  <2>2. pPntList' = pPntList /\ dropped' = dropped
    <3>1. {b[j] : j \in DOMAIN b} = {}
      BY <1>8, Zenon DEF NumbersOf
    <3>2. pPntList \o b = pPntList
      BY <1>2, <2>1, ConcatEmptySeq
    <3> QED
      BY <3>1, <3>2 DEF AddPointsToList
  <2>3. UNCHANGED <<QueuedIds, LostIds>>
    <3>1. \A i \in Ids : HeldAt(i)' = HeldAt(i)
      BY <1>1, <2>2, SameParts DEF HeldAt
    <3> QED
      BY <2>2, <3>1, QueuedIs, QueuedIsNext DEF LostIds
  <2>4. Batches' = Batches
    BY <1>4, <1>8 DEF Batches
  <2> QED
    BY <1>5, <2>3, <2>4, QueueIs
<1>9. CASE NumbersOf(b) # {} /\ ~ListFull(Len(b))
  <2>1. pPntList' = pPntList \o b /\ dropped' = dropped
    BY <1>9 DEF AddPointsToList
  <2>2. Len(pPntList') = Len(pPntList) + Len(b)
    BY <1>2, <2>1, ConcatProperties
  <2>3. Len(pPntList') < ListCap
    BY <1>3, <1>9, <2>2, PoolAssumption DEF ListFull
  <2>4. NumbersOf(pPntList') = NumbersOf(pPntList) \cup NumbersOf(b)
    <3>1. \A j \in DOMAIN pPntList : j \in DOMAIN pPntList' /\ pPntList'[j] = pPntList[j]
      BY <1>2, <1>3, <2>1, <2>2, ConcatProperties
    <3>2. \A j \in DOMAIN b : /\ Len(pPntList) + j \in DOMAIN pPntList'
                              /\ pPntList'[Len(pPntList) + j] = b[j]
      BY <1>2, <1>3, <2>1, <2>2, ConcatProperties
    <3>3. \A j \in DOMAIN pPntList' : j \in DOMAIN pPntList \/ j - Len(pPntList) \in DOMAIN b
      BY <1>3, <2>2
    <3>4. \A j \in DOMAIN pPntList' : j - Len(pPntList) \in DOMAIN b
            => pPntList'[j] = b[j - Len(pPntList)]
      BY <1>3, <3>2
    <3> QED
      BY <3>1, <3>2, <3>3, <3>4 DEF NumbersOf
  <2>5. QueuedIds' = QueuedIds \cup Batches[g]
    BY <1>4, <1>6, <1>7, <2>4, QueuedIs, QueuedIsNext DEF HeldAt
  <2>6. Cardinality(QueuedIds') < 2 * ListCap
    <3>1. (Cardinality(QueuedIds) <= Len(pPntList) + Len(pPntList2))'
      BY QueuedCount, PTL
    <3>2. Cardinality(QueuedIds') <= Len(pPntList') + Len(pPntList2)
      BY <1>1, <3>1
    <3>3. Cardinality(QueuedIds') \in Nat
      <4>1. QueuedIds' \subseteq Ids /\ IsFiniteSet(Ids)
        BY QueuedIsNext, IdsFinite
      <4> QED
        BY <4>1, FS_Subset, FS_CardinalityType
    <3> QED
      BY <1>3, <2>3, <3>2, <3>3, PoolAssumption DEF CopyFits
  <2>7. UNCHANGED LostIds
    BY <2>1 DEF LostIds
  <2> QED
    BY <1>4, <1>5, <1>9, <2>5, <2>6, <2>7, QueueIs
<1>10. CASE NumbersOf(b) # {} /\ ListFull(Len(b))
  <2>1. /\ pPntList' = pPntList
        /\ dropped' = dropped \cup {b[j] : j \in DOMAIN b}
    BY <1>10 DEF AddPointsToList
  <2>2. LostIds' = LostIds \cup Batches[g]
    BY <1>4, <2>1 DEF LostIds, NumbersOf
  <2>3. QueuedIds' = QueuedIds
    <3>1. \A i \in Ids : HeldAt(i)' = HeldAt(i)
      BY <1>1, <2>1, SameParts DEF HeldAt
    <3> QED
      BY <3>1, QueuedIs, QueuedIsNext
  <2> DEFINE A == NumbersOf(pPntList)
             B == NumbersOf(b)
  <2>4. A \cap B = {}
    <3> SUFFICES ASSUME NEW i \in Ids, i \in A, i \in B PROVE FALSE
      BY <1>6
    <3>1. ListAt(i) # {} /\ GpuAt(i) # {}
      BY <1>4, <1>7, BatchIs
    <3>2. \A p, q \in Places(i) : p = q
      BY DEF KeptInv, Kept
    <3> QED
      BY <3>1, <3>2, Tags DEF HeldAt
  <2>5. Cardinality(A) = Len(pPntList) /\ IsFiniteSet(A)
    <3>1. \A j, l \in DOMAIN pPntList : pPntList[j].id = pPntList[l].id => j = l
      <4> SUFFICES ASSUME NEW j \in DOMAIN pPntList, NEW l \in DOMAIN pPntList,
                          pPntList[j].id = pPntList[l].id
                   PROVE  j = l
        OBVIOUS
      <4> DEFINE i == pPntList[j].id
      <4>1. pPntList[j] \in Dps
        BY <1>2, <1>3, ElementOfSeq
      <4>2. i \in Ids
        BY <4>1 DEF Dps
      <4>3. <<"list", j>> \in ListAt(i) /\ <<"list", l>> \in ListAt(i)
        BY DEF ListAt
      <4> HIDE DEF i
      <4>4. \A p, q \in Places(i) : p = q
        BY <4>2 DEF KeptInv, Kept
      <4> QED
        BY <4>3, <4>4, PlacesAre
    <3> QED
      BY <1>2, <3>1, NumbersCount
  <2>6. Cardinality(B) = Len(b) /\ IsFiniteSet(B)
    <3>1. \A j, l \in DOMAIN b : b[j].id = b[l].id => j = l
      BY DEF KeptInv, DistinctInv
    <3> QED
      BY <1>2, <3>1, NumbersCount
  <2>7. A \subseteq QueuedIds
    <3>1. A \subseteq Ids
      <4>1. \A j \in DOMAIN pPntList : pPntList[j] \in Dps
        BY <1>2, <1>3, ElementOfSeq
      <4> QED
        BY <4>1 DEF Dps, NumbersOf
    <3> QED
      BY <1>7, <3>1, QueuedIs DEF HeldAt
  <2> HIDE DEF A, B
  <2>8. Cardinality(A \cup B) = Len(pPntList) + Len(b)
    <3>1. Cardinality(A \cup B) = Cardinality(A) + Cardinality(B) - Cardinality(A \cap B)
      BY <2>5, <2>6, FS_Union
    <3>2. Cardinality(A \cap B) = 0
      BY <2>4, FS_EmptySet
    <3> QED
      BY <1>3, <2>5, <2>6, <3>1, <3>2
  <2>9. Cardinality(QueuedIds \cup B) >= Cardinality(A \cup B)
    <3>1. IsFiniteSet(QueuedIds \cup B)
      <4>1. QueuedIds \subseteq Ids /\ IsFiniteSet(Ids)
        BY QueuedIs, IdsFinite
      <4>2. IsFiniteSet(QueuedIds)
        BY <4>1, FS_Subset
      <4> QED
        BY <2>6, <4>2, FS_Union
    <3>2. A \cup B \in SUBSET (QueuedIds \cup B)
      BY <2>7
    <3>3. Cardinality(A \cup B) <= Cardinality(QueuedIds \cup B)
      BY <3>1, <3>2, FS_Subset
    <3>4. Cardinality(A \cup B) \in Nat /\ Cardinality(QueuedIds \cup B) \in Nat
      BY <1>3, <2>8, <3>1, FS_CardinalityType
    <3> QED
      BY <3>3, <3>4
  <2>10. Cardinality(QueuedIds \cup Batches[g]) >= ListCap
    <3>1. Cardinality(A \cup B) >= ListCap
      BY <1>10, <2>8 DEF ListFull
    <3>2. Cardinality(QueuedIds \cup B) \in Nat /\ Cardinality(A \cup B) \in Nat
      <4>1. QueuedIds \cup B \subseteq Ids /\ A \cup B \subseteq Ids /\ IsFiniteSet(Ids)
        BY <1>6, <2>7, QueuedIs, IdsFinite DEF B
      <4> QED
        BY <4>1, FS_Subset, FS_CardinalityType
    <3>3. Batches[g] = B
      BY <1>4 DEF B
    <3> QED
      BY <2>9, <3>1, <3>2, <3>3, PoolAssumption
  <2> QED
    BY <1>4, <1>5, <1>10, <2>2, <2>3, <2>10, QueueIs
<1> QED
  BY <1>8, <1>9, <1>10

LEMMA QueueStep ==
  IInv /\ IInv' /\ KeptInv /\ CopyFits /\ [Next]_vars => [Queue!Next]_(Queue!vars)
<1> SUFFICES ASSUME IInv, IInv', KeptInv, CopyFits, [Next]_vars PROVE [Queue!Next]_(Queue!vars)
  OBVIOUS
<1>1. (\A i \in Ids : Fate(i)) /\ gSolved' \in BOOLEAN
  BY StepFate DEF IInv, TypeOK
<1>2. ASSUME UNCHANGED <<out, dropped, made, handled, gSolved>>
      PROVE  [Queue!Next]_(Queue!vars)
  BY <1>1, <1>2, QueueQuiet
<1>3. ASSUME NEW d \in Dps, Handle(d), ~gSolved, UNCHANGED <<out, dropped, made>>
      PROVE  [Queue!Next]_(Queue!vars)
  <2>1. Queue!Process(d.id) /\ d.id \in Ids
    BY <1>1, <1>3, QueueHandle DEF Dps
  <2> QED
    BY <2>1 DEF Queue!Next
<1>4. ASSUME NEW c \in Callers, CheckNewPoints(c)
      PROVE  [Queue!Next]_(Queue!vars)
  <2>1. CASE SingleStep(c)
    <3>1. pPntList2[idx[c] + 1] \in Dps
      BY <2>1, HandledInCopy
    <3> QED
      BY <1>3, <2>1, <3>1 DEF SingleStep, gpus
  <2>2. CASE CheckEmpty(c) \/ Copy(c) \/ Dispatch(c) \/ Fallback(c) \/ WaitDone(c) \/ SingleDone(c)
    BY <1>2, <2>2 DEF CheckEmpty, Copy, Dispatch, Fallback, WaitDone, SingleDone, flags, gpus, fates
  <2> QED
    BY <1>4, <2>1, <2>2 DEF CheckNewPoints
<1>5. ASSUME NEW w \in Workers, WorkerThread(w)
      PROVE  [Queue!Next]_(Queue!vars)
  <2>1. CASE WorkerStep(w)
    <3>1. pPntList2[chunk[w].start + 1] \in Dps
      BY <2>1, HandledInCopy
    <3> QED
      BY <1>3, <2>1, <3>1 DEF WorkerStep, gpus
  <2>2. CASE WorkerTop(w) \/ WorkerNothing(w) \/ WorkerTake(w) \/ WorkerDone(w)
    BY <1>2, <2>2 DEF WorkerTop, WorkerNothing, WorkerTake, WorkerDone, flags, gpus, fates
  <2> QED
    BY <1>5, <2>1, <2>2 DEF WorkerThread
<1>6. ASSUME NEW g \in Gpus, GpuThread(g)
      PROVE  [Queue!Next]_(Queue!vars)
  <2>1. CASE Kernel(g)
    BY <2>1, QueueYield DEF Queue!Next
  <2>2. CASE AddPointsToList(g)
    BY <2>2, QueueAdd DEF Queue!Next
  <2>3. CASE GpuExit(g)
    BY <1>2, <2>3 DEF GpuExit, flags, fates
  <2> QED
    BY <1>6, <2>1, <2>2, <2>3 DEF GpuThread
<1>7. CASE OtherSolves
  <2>1. UNCHANGED <<pPntList, pPntList2, gWorkQueue, chunk, wpc, cnt, idx, cpc, out, dropped,
                    made, handled>> /\ gSolved'
    BY <1>7 DEF OtherSolves, lists, work, callers, workers, gpus, fates
  <2>2. \A i \in Ids : HeldAt(i)' = HeldAt(i)
    BY <2>1, SameParts DEF HeldAt
  <2>3. QueuedIds' = QueuedIds
    BY <2>2, QueuedIs, QueuedIsNext
  <2> QED
    BY <1>1, <2>1, <2>3, QueueQuiet
<1>8. CASE \/ MainTop \/ MainTail \/ Switch \/ StartProcessing \/ ProcTop \/ ProcTail
           \/ StopProcessing \/ StopWorkerThreads \/ StopGpus \/ Return
           \/ (\E g \in Gpus : ReinitForHunt(g)) \/ UNCHANGED vars
  <2>1. UNCHANGED <<out, dropped, made, handled, gSolved>>
    BY <1>8 DEF MainTop, MainTail, Switch, StartProcessing, ProcTop, ProcTail, StopProcessing,
       StopWorkerThreads, StopGpus, Return, ReinitForHunt, vars, flags, gpus, fates
  <2> QED
    BY <1>2, <2>1
<1> QED
  BY <1>4, <1>5, <1>6, <1>7, <1>8 DEF Next, SolvePoint, processing_thread, Callers

\* The path of the DPs, from the kernel call to the store, implements DpQueue:
\* a batch is taken whole or, behind a list that is full, dropped whole; a DP
\* that was taken is processed once, by whichever thread, or abandoned when the
\* key is known; and list and copy together hold less than two lists.
THEOREM QueueRefined == Spec => ImplementsDpQueue
<1>1. Init => CopyFits /\ Queue!Init
  <2> SUFFICES ASSUME Init PROVE CopyFits /\ Queue!Init
    OBVIOUS
  <2>1. CopyFits
    <3>1. Len(<<>>) = 0
      OBVIOUS
    <3> QED
      BY <3>1, PoolAssumption DEF Init, CopyFits
  <2>2. QueuedIds = {}
    <3>1. \A i : ListAt(i) = {} /\ QueueAt(i) = {}
      BY DEF Init, ListAt, QueueAt
    <3>2. \A i : WorkerAt(i) = {} /\ CallerAt(i) = {}
      BY DEF Init, WorkerAt, CallerAt, Working
    <3> QED
      BY <3>1, <3>2, QueuedIs DEF HeldAt
  <2>3. Batches = [g \in Gpus |-> {}] /\ LostIds = {}
    BY DEF Init, Batches, LostIds
  <2>4. made + 1 .. MaxDps = Ids
    <3>1. made = 0 /\ 0 + 1 = 1
      BY DEF Init
    <3> QED
      BY <3>1 DEF Ids
  <2> QED
    BY <2>1, <2>2, <2>3, <2>4 DEF Init, Queue!Init, LostIds
<1>2. IInv /\ CopyFits /\ [Next]_vars => CopyFits'
  BY CopyFitsStep
<1>3. IInv /\ IInv' /\ KeptInv /\ CopyFits /\ [Next]_vars => [Queue!Next]_(Queue!vars)
  BY QueueStep
<1> QED
  BY <1>1, <1>2, <1>3, Inductive, KeptInductive, PTL DEF Spec, ImplementsDpQueue, Queue!Spec

\* DpQueue keeps the DPs not made, those in a batch, the queued and the lost
\* apart, and what it processes has left all of them.
QueueApart ==
  /\ FreshIds \subseteq Ids /\ QueuedIds \subseteq Ids /\ handled \in [Ids -> Nat]
  /\ Batches \in [Gpus -> SUBSET Ids]
  /\ FreshIds \cap (QueuedIds \cup LostIds) = {} /\ QueuedIds \cap LostIds = {}
  /\ \A g \in Gpus : Batches[g] \cap (FreshIds \cup QueuedIds \cup LostIds) = {}
  /\ \A g, h \in Gpus : g # h => Batches[g] \cap Batches[h] = {}

Waits(i) == i \in QueuedIds \/ i \in LostIds \/ \E g \in Gpus : i \in Batches[g]
Once(i) ==
  /\ handled[i] \in {0, 1}
  /\ i \in FreshIds \/ Waits(i) => handled[i] = 0
  /\ i \in FreshIds \/ Waits(i) \/ handled[i] = 1 \/ gSolved

LEMMA OnceIs == Queue!OnceEach <=> \A i \in Ids : Once(i)
BY Zenon DEF Queue!OnceEach, Once, Waits, FreshIds, LostIds

LEMMA QueueApartStep ==
  ASSUME QueueApart, \A i \in Ids : Once(i), [Queue!Next]_(Queue!vars)
  PROVE  QueueApart' /\ \A i \in Ids : Once(i)'
<1>1. /\ FreshIds \subseteq Ids /\ QueuedIds \subseteq Ids /\ handled \in [Ids -> Nat]
      /\ Batches \in [Gpus -> SUBSET Ids]
      /\ FreshIds \cap (QueuedIds \cup LostIds) = {} /\ QueuedIds \cap LostIds = {}
      /\ \A g \in Gpus : Batches[g] \cap (FreshIds \cup QueuedIds \cup LostIds) = {}
      /\ \A g, h \in Gpus : g # h => Batches[g] \cap Batches[h] = {}
  BY DEF QueueApart
<1>2. ASSUME NEW g \in Gpus, Queue!Yield(g)
      PROVE  QueueApart' /\ \A i \in Ids : Once(i)'
  <2>1. PICK B \in SUBSET FreshIds : /\ Batches' = [Batches EXCEPT ![g] = B]
                                     /\ FreshIds' = FreshIds \ B
    BY <1>2, QueueIs
  <2>2. Batches[g] = {} /\ UNCHANGED <<QueuedIds, handled, LostIds, gSolved>>
    BY <1>2, QueueIs
  <2>3. Batches'[g] = B /\ \A h \in Gpus : h # g => Batches'[h] = Batches[h]
    BY <1>1, <2>1
  <2>4. QueueApart'
    BY <1>1, <2>1, <2>2, <2>3 DEF QueueApart
  <2>5. \A i \in Ids : i \in FreshIds' \/ Waits(i)' <=> i \in FreshIds \/ Waits(i)
    BY <2>1, <2>2, <2>3 DEF Waits
  <2> QED
    BY <2>2, <2>4, <2>5 DEF Once
<1>3. ASSUME NEW g \in Gpus, Queue!HandOver(g),
             \/ QueuedIds' = QueuedIds \cup Batches[g] /\ UNCHANGED LostIds
             \/ LostIds' = LostIds \cup Batches[g] /\ UNCHANGED QueuedIds
      PROVE  QueueApart' /\ \A i \in Ids : Once(i)'
  <2>1. /\ Batches' = [Batches EXCEPT ![g] = {}]
        /\ UNCHANGED <<FreshIds, handled, gSolved>>
    BY <1>3, QueueIs
  <2>2. Batches'[g] = {} /\ \A h \in Gpus : h # g => Batches'[h] = Batches[h]
    BY <1>1, <2>1
  <2>3. QueueApart'
    BY <1>1, <1>3, <2>1, <2>2 DEF QueueApart
  <2>4. \A i \in Ids : Waits(i)' <=> Waits(i)
    BY <1>3, <2>2 DEF Waits
  <2> QED
    BY <2>1, <2>3, <2>4 DEF Once
<1>4. ASSUME NEW j \in Ids, Queue!Process(j)
      PROVE  QueueApart' /\ \A i \in Ids : Once(i)'
  <2>1. /\ j \in QueuedIds /\ QueuedIds' = QueuedIds \ {j}
        /\ handled' = [handled EXCEPT ![j] = @ + 1]
        /\ gSolved' \in {gSolved, TRUE}
        /\ UNCHANGED <<FreshIds, Batches, LostIds>>
    BY <1>4, QueueIs
  <2>2. QueueApart'
    BY <1>1, <2>1 DEF QueueApart
  <2>3. ~(j \in FreshIds \/ Waits(j))'
    BY <1>1, <2>1 DEF Waits
  <2>4. handled[j] = 0 /\ handled'[j] = 1
    BY <1>1, <2>1 DEF Once, Waits
  <2>5. ASSUME NEW i \in Ids, i # j PROVE Once(i)'
    <3>1. /\ Waits(i)' <=> Waits(i)
          /\ i \in FreshIds' <=> i \in FreshIds
          /\ handled'[i] = handled[i]
      BY <1>1, <2>1, <2>5 DEF Waits
    <3>2. gSolved => gSolved'
      BY <2>1, Zenon
    <3> QED
      BY <3>1, <3>2 DEF Once
  <2>6. Once(j)'
    BY <2>3, <2>4 DEF Once
  <2> QED
    BY <2>2, <2>5, <2>6
<1>5. CASE Queue!Solve \/ UNCHANGED Queue!vars
  <2>1. UNCHANGED <<FreshIds, Batches, QueuedIds, handled, LostIds>> /\ (gSolved => gSolved')
    BY <1>5, QueueIs
  <2>2. QueueApart'
    BY <1>1, <2>1 DEF QueueApart
  <2>3. \A i \in Ids : Waits(i)' <=> Waits(i)
    BY <2>1 DEF Waits
  <2> QED
    BY <2>1, <2>2, <2>3 DEF Once
<1>6. CASE Queue!Abandon
  <2>1. /\ UNCHANGED <<FreshIds, Batches, handled, LostIds>> /\ gSolved'
        /\ QueuedIds' \subseteq QueuedIds
    BY <1>6, QueueIs
  <2>2. QueueApart'
    BY <1>1, <2>1 DEF QueueApart
  <2>3. \A i \in Ids : Waits(i)' => Waits(i)
    BY <2>1 DEF Waits
  <2> QED
    BY <2>1, <2>2, <2>3 DEF Once
<1>7. \A g \in Gpus : Queue!Take(g) \/ Queue!Drop(g) =>
        /\ Queue!HandOver(g)
        /\ \/ QueuedIds' = QueuedIds \cup Batches[g] /\ UNCHANGED LostIds
           \/ LostIds' = LostIds \cup Batches[g] /\ UNCHANGED QueuedIds
  BY QueueIs
<1> QED
  BY <1>2, <1>3, <1>4, <1>5, <1>6, <1>7 DEF Queue!Next

\* What DpQueue promises of a single DP, whatever the sizes: it is processed at
\* most once, and before the key is known it was processed unless it is not
\* made yet, waits or was dropped. Through QueueRefined so it is in the program.
THEOREM QueueOnceEach == Queue!Spec => []Queue!OnceEach
<1>1. Queue!Init => QueueApart /\ \A i \in Ids : Once(i)
  <2> SUFFICES ASSUME Queue!Init PROVE QueueApart /\ \A i \in Ids : Once(i)
    OBVIOUS
  <2>1. /\ FreshIds = Ids /\ Batches = [g \in Gpus |-> {}] /\ QueuedIds = {}
        /\ handled = [i \in Ids |-> 0] /\ LostIds = {}
    BY DEF Queue!Init, FreshIds, LostIds
  <2> QED
    BY <2>1 DEF QueueApart, Once, Waits
<1>2. /\ QueueApart /\ (\A i \in Ids : Once(i)) /\ [Queue!Next]_(Queue!vars)
      => QueueApart' /\ (\A i \in Ids : Once(i))'
  BY QueueApartStep DEF Ids
<1>3. (\A i \in Ids : Once(i)) => Queue!OnceEach
  BY OnceIs
<1> QED
  BY <1>1, <1>2, <1>3, PTL DEF Queue!Spec
=============================================================================
