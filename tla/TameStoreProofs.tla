--------------------------- MODULE TameStoreProofs ---------------------------
(***************************************************************************)
(* Proofs about TameStore, for every number of threads, every set of DPs,  *)
(* every table geometry and both modes of the store.                       *)
(***************************************************************************)
EXTENDS TameStore, FiniteSetTheorems, TLAPS

\* A probe of a DP's sequence is a slot of the table.
LEMMA SlotType ==
  ASSUME NEW d \in Points, NEW p \in Nat
  PROVE  Slot(d, p) \in Slots
<1>1. Hash[d.x] \in Nat /\ TableSize \in Nat \ {0}
  BY StoreAssumption
<1>2. p * (p + 1) \in Nat
  OBVIOUS
<1>3. (p * (p + 1)) \div 2 \in Nat
  BY <1>2
<1>4. \A m \in Nat : m % TableSize \in 0 .. TableSize - 1
  BY <1>1
<1>5. Hash[d.x] + (p * (p + 1)) \div 2 \in Nat
  BY <1>1, <1>3
<1> QED
  BY <1>4, <1>5 DEF Slot, Slots

\* The same for the W-W buffer, when there is one.
LEMMA WWSlotType ==
  ASSUME NEW d \in Points, NEW p \in Nat, WWSize > 0
  PROVE  WWSlot(d, p) \in WWSlots
<1>1. Hash[d.x] \in Nat /\ WWSize \in Nat \ {0}
  BY StoreAssumption
<1>2. p * (p + 1) \in Nat
  OBVIOUS
<1>3. (p * (p + 1)) \div 2 \in Nat
  BY <1>2
<1>4. \A m \in Nat : m % WWSize \in 0 .. WWSize - 1
  BY <1>1
<1>5. Hash[d.x] + (p * (p + 1)) \div 2 \in Nat
  BY <1>1, <1>3
<1> QED
  BY <1>4, <1>5 DEF WWSlot, WWSlots

\* Both tables a DP is stored in and searched in exist.
LEMMA IdxType ==
  ASSUME NEW d \in Points
  PROVE  StoreIdx(d) \in TableIds /\ CheckIdx(d) \in TableIds
BY StoreAssumption DEF StoreIdx, CheckIdx, TableIds, TAME, WILD1, WILD2

LEMMA ShardType ==
  ASSUME NEW s \in Slots
  PROVE  GetShard(s) \in Shards
<1>1. SlotsPerShard \in Nat \ {0} /\ NumShards \in Nat \ {0} /\ s \in Nat
  BY StoreAssumption DEF Slots
<1>2. s \div SlotsPerShard \in Nat
  BY <1>1
<1>3. \A m \in Nat : m % NumShards \in 0 .. NumShards - 1
  BY <1>1
<1> QED
  BY <1>2, <1>3 DEF GetShard, Shards

-----------------------------------------------------------------------------
\* Type correctness of each group of steps.

LEMMA InitType == Init => TypeOK
<1> SUFFICES ASSUME Init PROVE TypeOK
  OBVIOUS
<1> USE StoreAssumption DEF Init
<1>1. /\ part1 \in [TableIds -> [Slots -> Half]]
      /\ part2 \in [TableIds -> [Slots -> Half]]
      /\ ww \in [WWSlots -> Half]
      /\ dp \in [Threads -> Half]
      /\ collision \in Half \X Half \X Half
  BY DEF Half
<1>2. /\ shardLock \in [TableIds -> [Shards -> Threads \cup {NoThread}]]
      /\ circular \in [TableIds -> BOOLEAN]
      /\ count \in [TableIds -> Nat]
      /\ overwrites \in [TableIds -> Nat]
      /\ discarded \in SUBSET (Half \X Half)
      /\ has_collision \in BOOLEAN
      /\ todo \in SUBSET Points
  OBVIOUS
<1>3. frozen \in [TableIds -> BOOLEAN]
  BY DEF TableIds
<1>4. /\ pc \in [Threads -> PCs]
      /\ probe \in [Threads -> 0 .. ProbeMax]
      /\ limit \in [Threads -> {0, RotProbe, MaxProbe}]
      /\ owed \in [Threads -> SUBSET (Nat \X Points)]
      /\ \A w \in Threads : pc[w] = "idle"
  BY DEF PCs, ProbeMax
<1>5. copy \in [Threads -> [word : {1, 2}, half : Half]]
  BY DEF NoCopy, Half
<1> QED
  BY <1>1, <1>2, <1>3, <1>4, <1>5 DEF TypeOK, InBuffer

LEMMA StartType ==
  ASSUME TypeOK, NEW w \in Threads, AddTame(w) \/ CheckWild(w)
  PROVE  TypeOK'
<1> USE StoreAssumption DEF TypeOK, storeOnly, tables, flags, tallies, mailbox, Goto
<1>1. CASE AddTame(w)
  BY <1>1 DEF AddTame, PCs, InBuffer, HoldsHome, Half
<1>2. CASE CheckWild(w)
  <2>1. PICK d \in todo : /\ dp' = [dp EXCEPT ![w] = d]
                         /\ todo' = todo \ {d}
                         /\ limit' = [limit EXCEPT ![w] = SearchLimit(CheckIdx(d))]
                         /\ owed' = [owed EXCEPT ![w] = Owed(d)]
    BY <1>2 DEF CheckWild
  <2>2. Owed(d) \in SUBSET (Nat \X Points)
    <3> SUFFICES ASSUME NEW o \in Owed(d) PROVE o \in Nat \X Points
      OBVIOUS
    <3>1. o \in Slots \X Points
      BY DEF Owed
    <3> QED
      BY <3>1 DEF Slots
  <2>3. SearchLimit(CheckIdx(d)) \in {0, RotProbe, MaxProbe}
    BY DEF SearchLimit
  <2> QED
    BY <1>2, <2>1, <2>2, <2>3 DEF CheckWild, PCs, InBuffer, HoldsHome, Half
<1> QED
  BY <1>1, <1>2

LEMMA FinishType ==
  ASSUME TypeOK, NEW w \in Threads, Finish(w)
  PROVE  /\ pc' \in [Threads -> PCs]
         /\ dp' \in [Threads -> Half]
         /\ probe' \in [Threads -> 0 .. ProbeMax]
         /\ limit' \in [Threads -> {0, RotProbe, MaxProbe}]
         /\ owed' \in [Threads -> SUBSET (Nat \X Points)]
         /\ \A v \in Threads : pc'[v] # "idle" => dp'[v] \in Points
         /\ \A v \in Threads : pc'[v] \in InBuffer => WWSize > 0
BY StoreAssumption DEF TypeOK, Finish, Goto, PCs, HoldsHome, InBuffer, Half, ProbeMax

LEMMA AfterScanType ==
  ASSUME TypeOK, NEW w \in Threads, pc[w] = "copy",
         NEW o \in SUBSET (Nat \X Points), AfterScan(w, o)
  PROVE  /\ pc' \in [Threads -> PCs]
         /\ dp' \in [Threads -> Half]
         /\ probe' \in [Threads -> 0 .. ProbeMax]
         /\ limit' \in [Threads -> {0, RotProbe, MaxProbe}]
         /\ owed' \in [Threads -> SUBSET (Nat \X Points)]
         /\ \A v \in Threads : pc'[v] # "idle" => dp'[v] \in Points
         /\ \A v \in Threads : pc'[v] \in InBuffer => WWSize > 0
<1>1. CASE AllWild \/ WWSize > 0
  <2>1. /\ \/ pc' = [pc EXCEPT ![w] = "store"]
           \/ pc' = [pc EXCEPT ![w] = "ww"] /\ WWSize > 0
        /\ probe' = [probe EXCEPT ![w] = 0]
        /\ owed' = [owed EXCEPT ![w] = o]
        /\ dp' = dp /\ limit' = limit
    BY <1>1 DEF AfterScan, Goto
  <2>2. dp[w] \in Points
    BY DEF TypeOK
  <2>3. pc' \in [Threads -> PCs]
    BY <2>1 DEF TypeOK, PCs
  <2>4. probe' \in [Threads -> 0 .. ProbeMax]
    BY <2>1, StoreAssumption DEF TypeOK, ProbeMax
  <2>5. owed' \in [Threads -> SUBSET (Nat \X Points)]
    BY <2>1 DEF TypeOK
  <2>6. \A v \in Threads : pc'[v] # "idle" => dp'[v] \in Points
    BY <2>1, <2>2 DEF TypeOK
  <2>7. \A v \in Threads : pc'[v] \in InBuffer => WWSize > 0
    BY <2>1 DEF TypeOK, InBuffer
  <2> QED
    BY <2>1, <2>3, <2>4, <2>5, <2>6, <2>7 DEF TypeOK
<1>2. CASE ~(AllWild \/ WWSize > 0)
  BY <1>2, FinishType DEF AfterScan
<1> QED
  BY <1>1, <1>2

\* Where a search stands: a slot of a table, and the words it has.
LEMMA SearchPlace ==
  ASSUME TypeOK, NEW w \in Threads, pc[w] \in {"scan", "copy"}
  PROVE  /\ dp[w] \in Points /\ probe[w] \in Nat
         /\ CheckIdx(dp[w]) \in TableIds
         /\ Slot(dp[w], probe[w]) \in Slots
         /\ GetShard(Slot(dp[w], probe[w])) \in Shards
         /\ Copied1(w) \in Half /\ Copied2(w) \in Half
<1>1. dp[w] \in Points /\ probe[w] \in Nat
  BY DEF TypeOK
<1>2. /\ CheckIdx(dp[w]) \in TableIds
      /\ Slot(dp[w], probe[w]) \in Slots
      /\ GetShard(Slot(dp[w], probe[w])) \in Shards
  BY <1>1, IdxType, SlotType, ShardType
<1>3. Copied1(w) \in Half /\ Copied2(w) \in Half
  BY <1>2 DEF Copied1, Copied2, TypeOK
<1> QED
  BY <1>1, <1>2, <1>3

LEMMA SearchType ==
  ASSUME TypeOK, NEW w \in Threads, Search(w)
  PROVE  TypeOK'
<1> USE DEF storeOnly, tables, flags, tallies, mailbox
<1>0. owed[w] \in SUBSET (Nat \X Points)
  BY DEF TypeOK
<1>1. ASSUME EndCopy(w)
      PROVE  /\ pc[w] = "copy"
             /\ shardLock' \in [TableIds -> [Shards -> Threads \cup {NoThread}]]
             /\ copy' \in [Threads -> [word : {1, 2}, half : Half]]
             /\ Copied1(w) \in Half /\ Copied2(w) \in Half
  BY <1>1, SearchPlace DEF EndCopy, Release, NoCopy, Half, TypeOK
<1>2. CASE BeginCopy(w)
  <2>1. PICK t \in TableIds, s \in Slots :
          /\ Scanning(w, t, s) /\ Acquire(t, GetShard(s), w) /\ Goto(w, "copy")
          /\ \E c \in {[word |-> 1, half |-> part1[t][s]], [word |-> 2, half |-> part2[t][s]]} :
               copy' = [copy EXCEPT ![w] = c]
    BY <1>2 DEF BeginCopy
  <2>2. copy' \in [Threads -> [word : {1, 2}, half : Half]]
    BY <2>1 DEF TypeOK
  <2>3. shardLock' \in [TableIds -> [Shards -> Threads \cup {NoThread}]]
    BY <2>1, ShardType DEF Acquire, TypeOK
  <2>4. /\ pc' \in [Threads -> PCs]
        /\ \A v \in Threads : pc'[v] # "idle" => dp[v] \in Points
        /\ \A v \in Threads : pc'[v] \in InBuffer => WWSize > 0
    BY <2>1 DEF Scanning, Goto, PCs, InBuffer, TypeOK
  <2> QED
    BY <1>2, <2>2, <2>3, <2>4 DEF BeginCopy, TypeOK
<1>3. CASE ScanEmpty(w)
  <2>1. AfterScan(w, owed[w]) /\ EndCopy(w)
    BY <1>3 DEF ScanEmpty
  <2> QED
    BY <1>0, <1>1, <1>3, <2>1, AfterScanType DEF ScanEmpty, TypeOK
<1>4. CASE ScanReport(w)
  <2>1. EndCopy(w) /\ Finish(w) /\ ReportCollision(Copied1(w), Copied2(w), dp[w])
    BY <1>4 DEF ScanReport
  <2>2. dp[w] \in Half
    BY DEF TypeOK
  <2>3. /\ has_collision' \in BOOLEAN
        /\ collision' \in Half \X Half \X Half
    BY <1>1, <2>1, <2>2 DEF ReportCollision
  <2> QED
    BY <1>1, <1>4, <2>1, <2>3, FinishType DEF ScanReport, TypeOK
<1>5. CASE ScanDuplicate(w)
  <2>1. AfterScan(w, {}) /\ EndCopy(w)
    BY <1>5 DEF ScanDuplicate
  <2> QED
    BY <1>1, <1>5, <2>1, AfterScanType DEF ScanDuplicate, TypeOK
<1>6. CASE ScanNext(w)
  <2>1. EndCopy(w)
    BY <1>6 DEF ScanNext
  <2>2. CASE NextProbe(probe[w]) < limit[w]
    <3>1. NextProbe(probe[w]) \in 0 .. ProbeMax
      <4>1. limit[w] \in {0, RotProbe, MaxProbe} /\ probe[w] \in Nat
        BY DEF TypeOK
      <4>2. RotProbe \in Nat /\ MaxProbe \in Nat /\ WWProbe \in Nat /\ RotProbe <= MaxProbe
        BY StoreAssumption
      <4>3. ProbeMax \in Int /\ MaxProbe - 1 <= ProbeMax
        BY <4>2 DEF ProbeMax
      <4> QED
        BY <2>2, <4>1, <4>2, <4>3 DEF NextProbe
    <3>2. probe' = [probe EXCEPT ![w] = NextProbe(probe[w])] /\ Goto(w, "scan")
          /\ UNCHANGED <<dp, limit, owed>>
      BY <1>6, <2>2 DEF ScanNext
    <3>3. /\ pc' \in [Threads -> PCs]
          /\ \A v \in Threads : pc'[v] # "idle" => dp'[v] \in Points
          /\ \A v \in Threads : pc'[v] \in InBuffer => WWSize > 0
      BY <1>1, <2>1, <3>2 DEF Goto, PCs, InBuffer, TypeOK
    <3> QED
      BY <1>1, <1>6, <2>1, <3>1, <3>2, <3>3 DEF ScanNext, TypeOK
  <2>3. CASE ~(NextProbe(probe[w]) < limit[w])
    <3>1. AfterScan(w, owed[w])
      BY <1>6, <2>3 DEF ScanNext
    <3> QED
      BY <1>0, <1>1, <1>6, <2>1, <3>1, AfterScanType DEF ScanNext, TypeOK
  <2> QED
    BY <2>2, <2>3
<1> QED
  BY <1>2, <1>3, <1>4, <1>5, <1>6 DEF Search

LEMMA AddToTableType ==
  ASSUME TypeOK, NEW w \in Threads, AddToTable(w)
  PROVE  TypeOK'
<1> DEFINE d == dp[w]
           t == StoreIdx(d)
           h == GetShard(Home(d))
<1> USE DEF storeOnly, tables, flags, tallies, mailbox
<1>0. /\ pc[w] # "idle" /\ d \in Points
      /\ t \in TableIds
      /\ Home(d) \in Slots /\ h \in Shards
      /\ Here(w) \in Slots
  <2>1. pc[w] # "idle"
    BY DEF AddToTable, Lock, ProbeEmpty, ProbeDuplicate, ProbeNext, Freeze,
           ActivateRotation, SaveDiscarded, PackPart1, PackPart2, Count
  <2>2. d \in Points /\ probe[w] \in Nat
    BY <2>1 DEF TypeOK
  <2>3. t \in TableIds
    BY <2>2, IdxType
  <2>4. Home(d) \in Slots
    BY <2>2, SlotType DEF Home
  <2>5. Here(w) \in Slots
    BY <2>2, SlotType DEF Here
  <2> QED
    BY <2>1, <2>2, <2>3, <2>4, <2>5, ShardType
<1> HIDE DEF d, t, h
<1>1. ASSUME Release(t, h)
      PROVE  shardLock' \in [TableIds -> [Shards -> Threads \cup {NoThread}]]
  BY <1>1, <1>0 DEF Release, TypeOK
<1>2. ASSUME Acquire(t, h, w)
      PROVE  shardLock' \in [TableIds -> [Shards -> Threads \cup {NoThread}]]
  BY <1>2, <1>0 DEF Acquire, TypeOK
<1>3. ASSUME NEW l \in PCs \ InBuffer, Goto(w, l), dp' = dp
      PROVE  /\ pc' \in [Threads -> PCs]
             /\ \A v \in Threads : pc'[v] # "idle" => dp'[v] \in Points
             /\ \A v \in Threads : pc'[v] \in InBuffer => WWSize > 0
  BY <1>3, <1>0 DEF Goto, TypeOK, d
<1>4. CASE Lock(w)
  <2>1. shardLock' \in [TableIds -> [Shards -> Threads \cup {NoThread}]]
    BY <1>4, <1>2 DEF Lock, TypeOK, d, t, h
  <2>2. CASE Finish(w)
    BY <1>4, <2>1, <2>2, FinishType DEF Lock, TypeOK
  <2>3. CASE ~Finish(w)
    <3>1. \/ Goto(w, "rotate") /\ UNCHANGED <<dp, probe, limit, owed>>
          \/ Goto(w, "probe") /\ UNCHANGED <<dp, probe, limit, owed>>
      BY <1>4, <2>3 DEF Lock
    <3>2. {"rotate", "probe"} \subseteq PCs \ InBuffer
      BY DEF PCs, HoldsHome, InBuffer
    <3> QED
      BY <1>3, <1>4, <2>1, <3>1, <3>2 DEF Lock, TypeOK
  <2> QED
    BY <2>2, <2>3
<1>5. CASE ProbeEmpty(w)
  <2>1. "pack" \in PCs \ InBuffer
    BY DEF PCs, HoldsHome, InBuffer
  <2> QED
    BY <1>3, <1>5, <2>1 DEF ProbeEmpty, TypeOK
<1>6. CASE ProbeDuplicate(w)
  <2>1. Finish(w) /\ Release(t, h)
    BY <1>6 DEF ProbeDuplicate, d, t, h
  <2> QED
    BY <1>1, <1>6, <2>1, FinishType DEF ProbeDuplicate, TypeOK
<1>7. CASE ProbeNext(w)
  <2>1. "full" \in PCs \ InBuffer
    BY DEF PCs, HoldsHome, InBuffer
  <2>2. CASE LastProbe(probe[w])
    BY <1>3, <1>7, <2>1, <2>2 DEF ProbeNext, TypeOK
  <2>3. CASE ~LastProbe(probe[w])
    <3>1. NextProbe(probe[w]) \in 0 .. ProbeMax
      BY <2>3, StoreAssumption DEF NextProbe, LastProbe, TypeOK, ProbeMax
    <3> QED
      BY <1>7, <2>3, <3>1 DEF ProbeNext, TypeOK
  <2> QED
    BY <2>2, <2>3
<1>8. CASE Freeze(w)
  <2>1. Finish(w) /\ Release(t, h)
    BY <1>8 DEF Freeze, d, t, h
  <2>2. frozen' \in [TableIds -> BOOLEAN]
    BY <1>8 DEF Freeze, TypeOK
  <2> QED
    BY <1>1, <1>8, <2>1, <2>2, FinishType DEF Freeze, TypeOK
<1>9. CASE ActivateRotation(w)
  <2>1. "rotate" \in PCs \ InBuffer
    BY DEF PCs, HoldsHome, InBuffer
  <2>2. circular' \in [TableIds -> BOOLEAN]
    BY <1>9 DEF ActivateRotation, TypeOK
  <2> QED
    BY <1>3, <1>9, <2>1, <2>2 DEF ActivateRotation, TypeOK
<1>10. CASE SaveDiscarded(w)
  <2>1. "rot" \in PCs \ InBuffer
    BY DEF PCs, HoldsHome, InBuffer
  <2>2. <<part1[t][Home(d)], part2[t][Home(d)]>> \in Half \X Half
    BY <1>0 DEF TypeOK
  <2>3. discarded' \in SUBSET (Half \X Half)
    BY <1>10, <2>2 DEF SaveDiscarded, TypeOK, d, t
  <2>4. probe' \in [Threads -> 0 .. ProbeMax]
    BY <1>10, StoreAssumption DEF SaveDiscarded, TypeOK, ProbeMax
  <2> QED
    BY <1>3, <1>10, <2>1, <2>3, <2>4 DEF SaveDiscarded, TypeOK
<1>11. CASE PackPart1(w)
  <2>1. {"pack2", "rot2"} \subseteq PCs \ InBuffer
    BY DEF PCs, HoldsHome, InBuffer
  <2>2. part1' = [part1 EXCEPT ![t][Here(w)] = d]
    BY <1>11 DEF PackPart1, d, t
  <2>3. part1' \in [TableIds -> [Slots -> Half]]
    BY <1>0, <2>2 DEF TypeOK, Half
  <2>4. /\ \/ Goto(w, "pack2") \/ Goto(w, "rot2")
        /\ dp' = dp
    BY <1>11 DEF PackPart1
  <2> QED
    BY <1>3, <1>11, <2>1, <2>3, <2>4 DEF PackPart1, TypeOK
<1>12. CASE PackPart2(w)
  <2>1. "count" \in PCs \ InBuffer
    BY DEF PCs, HoldsHome, InBuffer
  <2>2. part2' = [part2 EXCEPT ![t][Here(w)] = d] /\ Release(t, h)
    BY <1>12 DEF PackPart2, d, t, h
  <2>3. part2' \in [TableIds -> [Slots -> Half]]
    BY <1>0, <2>2 DEF TypeOK, Half
  <2>4. CASE pc[w] = "pack2"
    BY <1>1, <1>3, <1>12, <2>1, <2>2, <2>3, <2>4 DEF PackPart2, TypeOK
  <2>5. CASE pc[w] # "pack2"
    <3>1. overwrites' \in [TableIds -> Nat]
      BY <1>12, <2>5 DEF PackPart2, TypeOK
    <3>2. Finish(w)
      BY <1>12, <2>5 DEF PackPart2
    <3>3. UNCHANGED <<part1, circular, frozen, count, discarded, ww, has_collision, collision,
                    copy, todo>>
      BY <1>12 DEF PackPart2
    <3>4. shardLock' \in [TableIds -> [Shards -> Threads \cup {NoThread}]]
      BY <1>1, <2>2
    <3> QED
      BY <2>3, <3>1, <3>2, <3>3, <3>4, FinishType DEF TypeOK
  <2> QED
    BY <2>4, <2>5
<1>13. CASE Count(w)
  <2>1. count' = [count EXCEPT ![t] = count[t] + 1]
    BY <1>13 DEF Count, d, t
  <2>3. count' \in [TableIds -> Nat]
    BY <1>0, <2>1 DEF TypeOK
  <2>2. Finish(w)
    BY <1>13 DEF Count
  <2> QED
    BY <1>13, <2>2, <2>3, FinishType DEF Count, TypeOK
<1> QED
  BY <1>4, <1>5, <1>6, <1>7, <1>8, <1>9, <1>10, <1>11, <1>12, <1>13 DEF AddToTable

LEMMA WWBufferType ==
  ASSUME TypeOK, NEW w \in Threads, CheckWWBuffer(w)
  PROVE  TypeOK'
<1> USE DEF storeOnly, tables, flags, tallies, mailbox
<1>0. /\ pc[w] \in InBuffer /\ WWSize > 0
      /\ dp[w] \in Points /\ probe[w] \in Nat
  <2>1. pc[w] \in InBuffer
    BY DEF CheckWWBuffer, WWBegin, WWReport, WWMiss, WWStore, InBuffer
  <2> QED
    BY <2>1 DEF TypeOK, InBuffer
<1>1. \A p \in Nat : WWSlot(dp[w], p) \in WWSlots
  BY <1>0, WWSlotType
<1>2. CASE WWBegin(w)
  <2>1. OwedWW(dp[w]) \in SUBSET (Nat \X Points)
    <3>1. WWSlot(dp[w], 0) \in Nat /\ ww[WWSlot(dp[w], 0)] \in Half
      BY <1>1 DEF TypeOK, WWSlots
    <3> QED
      BY <3>1 DEF OwedWW, Half
  <2>2. "wwscan" \in PCs
    BY DEF PCs
  <2> QED
    BY <1>0, <1>2, <2>1, <2>2 DEF WWBegin, Goto, TypeOK
<1>3. CASE WWReport(w)
  <2>1. WWHere(w) \in Half
    BY <1>0, <1>1 DEF WWHere, TypeOK
  <2>2. Finish(w) /\ has_collision' \in BOOLEAN /\ collision' \in Half \X Half \X Half
    BY <1>3, <2>1 DEF WWReport, ReportCollision, TypeOK
  <2> QED
    BY <1>3, <2>2, FinishType DEF WWReport, TypeOK
<1>4. CASE WWMiss(w)
  <2>1. \/ Goto(w, "wwstore") /\ UNCHANGED probe
        \/ /\ NextProbe(probe[w]) < WWProbe
           /\ probe' = [probe EXCEPT ![w] = NextProbe(@)]
           /\ UNCHANGED pc
    BY <1>4 DEF WWMiss
  <2>2. CASE Goto(w, "wwstore") /\ UNCHANGED probe
    <3>1. "wwstore" \in PCs
      BY DEF PCs
    <3> QED
      BY <1>0, <1>4, <2>2, <3>1 DEF WWMiss, Goto, TypeOK
  <2>3. CASE /\ NextProbe(probe[w]) < WWProbe
             /\ probe' = [probe EXCEPT ![w] = NextProbe(@)]
             /\ UNCHANGED pc
    <3>1. NextProbe(probe[w]) \in 0 .. ProbeMax
      BY <1>0, <2>3, StoreAssumption DEF NextProbe, ProbeMax
    <3> QED
      BY <1>4, <2>3, <3>1 DEF WWMiss, TypeOK
  <2> QED
    BY <2>1, <2>2, <2>3
<1>5. CASE WWStore(w)
  <2>1. ww' \in [WWSlots -> Half]
    BY <1>0, <1>5 DEF WWStore, TypeOK, Half
  <2>2. Finish(w)
    BY <1>5 DEF WWStore
  <2> QED
    BY <1>5, <2>1, <2>2, FinishType DEF WWStore, TypeOK
<1> QED
  BY <1>2, <1>3, <1>4, <1>5 DEF CheckWWBuffer

LEMMA NextType == TypeOK /\ [Next]_vars => TypeOK'
<1> SUFFICES ASSUME TypeOK, [Next]_vars PROVE TypeOK'
  OBVIOUS
<1>1. CASE ClearCollision
  BY <1>1 DEF ClearCollision, TypeOK, storeOnly, tables, flags, tallies
<1>2. ASSUME NEW w \in Threads, Step(w) PROVE TypeOK'
  BY <1>2, StartType, SearchType, AddToTableType, WWBufferType DEF Step
<1>3. CASE UNCHANGED vars
  BY <1>3 DEF vars, tables, flags, tallies, mailbox, TypeOK
<1> QED
  BY <1>1, <1>2, <1>3 DEF Next

\* Every variable keeps its type: in particular no probe, no slot and no
\* control point outside its range is ever used.
THEOREM TypeCorrect == Spec => []TypeOK
BY InitType, NextType, PTL DEF Spec

-----------------------------------------------------------------------------
\* Slots never become empty again, and what a step leaves alone.

LEMMA TablesGrow ==
  ASSUME TypeOK, [Next]_vars, NEW t \in TableIds, NEW s \in Slots, ~SlotIsEmpty(t, s)
  PROVE  ~SlotIsEmpty(t, s)'
<1> USE DEF SlotIsEmpty, IsEmpty
<1>1. CASE UNCHANGED tables
  BY <1>1 DEF tables
<1>2. ASSUME NEW w \in Threads, PackPart1(w) PROVE ~SlotIsEmpty(t, s)'
  <2>1. dp[w] \in Points
    BY <1>2 DEF PackPart1, TypeOK
  <2> QED
    BY <1>2, <2>1, StoreAssumption DEF PackPart1, TypeOK
<1>3. ASSUME NEW w \in Threads, PackPart2(w) PROVE ~SlotIsEmpty(t, s)'
  <2>1. dp[w] \in Points
    BY <1>3 DEF PackPart2, TypeOK
  <2> QED
    BY <1>3, <2>1, StoreAssumption DEF PackPart2, TypeOK
<1>4. CASE ClearCollision
  BY <1>4 DEF ClearCollision, storeOnly, tables
<1>5. CASE UNCHANGED vars
  BY <1>5 DEF vars, tables
<1>6. ASSUME NEW w \in Threads, Step(w), ~PackPart1(w), ~PackPart2(w)
      PROVE  UNCHANGED tables
  BY <1>6 DEF Step, AddTame, CheckWild, Search, BeginCopy, ScanEmpty, ScanReport, ScanDuplicate,
     ScanNext, AddToTable, Lock, ProbeEmpty, ProbeDuplicate, ProbeNext, Freeze,
     ActivateRotation, SaveDiscarded, Count, CheckWWBuffer, WWBegin, WWReport, WWMiss,
     WWStore, storeOnly, tables
<1> QED
  BY <1>1, <1>2, <1>3, <1>4, <1>5, <1>6 DEF Next

LEMMA ChainGrows ==
  ASSUME TypeOK, [Next]_vars, NEW t \in TableIds, NEW d \in Points, NEW p \in Nat,
         Chain(t, d, p)
  PROVE  Chain(t, d, p)'
<1>1. \A j \in 0 .. MaxProbe - 1 : Slot(d, j) \in Slots
  BY SlotType
<1> QED
  BY <1>1, TablesGrow DEF Chain

\* A step of one thread leaves the private state of the others alone.
LEMMA OthersKeep ==
  ASSUME NEW w \in Threads, Step(w), TypeOK, NEW v \in Threads, v # w
  PROVE  /\ pc'[v] = pc[v] /\ dp'[v] = dp[v] /\ probe'[v] = probe[v]
         /\ owed'[v] = owed[v] /\ limit'[v] = limit[v] /\ copy'[v] = copy[v]
<1> USE DEF TypeOK, Goto, Finish
<1>1. CASE AddTame(w) \/ CheckWild(w)
  BY <1>1 DEF AddTame, CheckWild
<1>2. CASE Search(w)
  BY <1>2 DEF Search, BeginCopy, ScanEmpty, ScanReport, ScanDuplicate, ScanNext, AfterScan,
     EndCopy
<1>3. CASE AddToTable(w)
  BY <1>3 DEF AddToTable, Lock, ProbeEmpty, ProbeDuplicate, ProbeNext, Freeze,
     ActivateRotation, SaveDiscarded, PackPart1, PackPart2, Count
<1>4. CASE CheckWWBuffer(w)
  BY <1>4 DEF CheckWWBuffer, WWBegin, WWReport, WWMiss, WWStore
<1> QED
  BY <1>1, <1>2, <1>3, <1>4 DEF Step

-----------------------------------------------------------------------------
\* The probe chains.

\* The only steps that leave a thread on a probe chain.
LEMMA ChainOfOwn ==
  ASSUME TypeOK, ChainInv, NEW v \in Threads, [Next]_vars, AddToTable(v)
  PROVE  ChainOf(v)'
<1>0. MaxProbe \in Nat \ {0}
  BY StoreAssumption
<1>1. pc[v] # "idle"
  BY DEF AddToTable, Lock, ProbeEmpty, ProbeDuplicate, ProbeNext, Freeze,
         ActivateRotation, SaveDiscarded, PackPart1, PackPart2, Count
<1>2. dp[v] \in Points /\ StoreIdx(dp[v]) \in TableIds /\ probe[v] \in Nat
  BY <1>1, IdxType DEF TypeOK
<1>3. PICK d \in Points, t \in TableIds, p \in Nat :
        d = dp[v] /\ t = StoreIdx(dp[v]) /\ p = probe[v]
  BY <1>2
<1>4. ChainOf(v)
  BY DEF ChainInv
<1>5. ASSUME pc[v] \in {"probe", "pack"}
      PROVE  p < MaxProbe /\ Chain(t, d, p) /\ Chain(t, d, p)'
  <2>1. p < MaxProbe /\ Chain(t, d, p)
    BY <1>3, <1>4, <1>5 DEF ChainOf
  <2> QED
    BY <2>1, ChainGrows
<1>6. pc' \in [Threads -> PCs] /\ pc \in [Threads -> PCs] /\ DOMAIN probe = Threads
      /\ DOMAIN dp = Threads
  BY NextType DEF TypeOK
<1>7. ASSUME pc'[v] = "idle", probe'[v] = 0 PROVE ChainOf(v)'
  BY <1>7 DEF ChainOf
<1>8. ASSUME Finish(v) PROVE ChainOf(v)'
  BY <1>6, <1>7, <1>8 DEF Finish, Goto
<1>9. ASSUME NEW q \in Nat, q < MaxProbe, Chain(t, d, q)', dp'[v] = d, probe'[v] = q,
             pc'[v] \in {"probe", "pack", "pack2"}
      PROVE  ChainOf(v)'
  BY <1>3, <1>9 DEF ChainOf, Chain
<1>10. CASE Lock(v)
  <2>1. probe[v] = 0
    BY <1>4, <1>10 DEF Lock, ChainOf
  <2>2. Chain(t, d, 0)'
    BY DEF Chain
  <2>3. \/ Finish(v)
        \/ pc'[v] = "rotate"
        \/ pc'[v] = "probe" /\ dp' = dp /\ probe' = probe
    BY <1>6, <1>10 DEF Lock, Goto
  <2>4. CASE pc'[v] = "rotate"
    BY <2>4 DEF ChainOf
  <2>5. CASE pc'[v] = "probe" /\ dp' = dp /\ probe' = probe
    BY <1>0, <1>3, <1>9, <2>1, <2>2, <2>5
  <2> QED
    BY <1>8, <2>3, <2>4, <2>5
<1>11. CASE ProbeEmpty(v)
  <2>1. pc[v] = "probe" /\ pc'[v] = "pack" /\ dp'[v] = dp[v] /\ probe'[v] = probe[v]
    BY <1>6, <1>11 DEF ProbeEmpty, Goto
  <2> QED
    BY <1>3, <1>5, <1>9, <2>1
<1>12. CASE ProbeDuplicate(v)
  BY <1>8, <1>12 DEF ProbeDuplicate
<1>13. CASE ProbeNext(v)
  <2>1. pc[v] = "probe" /\ ~SlotIsEmpty(t, Slot(d, p)) /\ dp' = dp
    BY <1>3, <1>13 DEF ProbeNext, Here
  <2>2. p < MaxProbe /\ Chain(t, d, p)
    BY <1>5, <2>1
  <2>3. Chain(t, d, p + 1)
    BY <1>0, <2>1, <2>2 DEF Chain
  <2>4. Chain(t, d, p + 1)'
    BY <2>3, ChainGrows
  <2>5. CASE LastProbe(probe[v])
    <3>1. pc'[v] = "full"
      BY <1>6, <1>13, <2>5 DEF ProbeNext, Goto
    <3>2. p + 1 = MaxProbe
      BY <1>0, <1>3, <2>2, <2>5 DEF LastProbe
    <3> QED
      BY <1>3, <2>1, <2>4, <3>1, <3>2 DEF ChainOf, Chain
  <2>6. CASE ~LastProbe(probe[v])
    <3>1. p + 1 < MaxProbe
      BY <1>0, <1>3, <2>6 DEF LastProbe
    <3>2. probe'[v] = p + 1 /\ pc'[v] = "probe"
      BY <1>3, <1>6, <1>13, <2>1, <2>6 DEF ProbeNext, NextProbe
    <3> QED
      BY <1>3, <1>9, <2>1, <2>4, <3>1, <3>2
  <2> QED
    BY <2>5, <2>6
<1>14. CASE Freeze(v)
  BY <1>8, <1>14 DEF Freeze
<1>15. CASE ActivateRotation(v)
  <2>1. pc'[v] = "rotate"
    BY <1>6, <1>15 DEF ActivateRotation, Goto
  <2> QED
    BY <2>1 DEF ChainOf
<1>16. CASE SaveDiscarded(v)
  <2>1. pc'[v] = "rot" /\ probe'[v] = 0
    BY <1>6, <1>16 DEF SaveDiscarded, Goto
  <2> QED
    BY <2>1 DEF ChainOf
<1>17. CASE PackPart1(v)
  <2>1. dp'[v] = dp[v] /\ probe'[v] = probe[v]
    BY <1>17 DEF PackPart1
  <2>2. CASE pc[v] = "pack"
    <3>1. pc'[v] = "pack2"
      BY <1>6, <1>17, <2>2 DEF PackPart1, Goto
    <3> QED
      BY <1>3, <1>5, <1>9, <2>1, <2>2, <3>1
  <2>3. CASE pc[v] = "rot"
    <3>1. pc'[v] = "rot2" /\ probe'[v] = 0
      BY <1>4, <1>6, <1>17, <2>1, <2>3 DEF PackPart1, Goto, ChainOf
    <3> QED
      BY <3>1 DEF ChainOf
  <2> QED
    BY <1>17, <2>2, <2>3 DEF PackPart1
<1>18. CASE PackPart2(v)
  <2>1. Finish(v) \/ pc'[v] = "count"
    BY <1>6, <1>18 DEF PackPart2, Goto
  <2>2. CASE pc'[v] = "count"
    BY <2>2 DEF ChainOf
  <2> QED
    BY <1>8, <2>1, <2>2
<1>19. CASE Count(v)
  BY <1>8, <1>19 DEF Count
<1> QED
  BY <1>10, <1>11, <1>12, <1>13, <1>14, <1>15, <1>16, <1>17, <1>18, <1>19 DEF AddToTable

LEMMA ChainInvStep == TypeOK /\ ChainInv /\ [Next]_vars => ChainInv'
<1> SUFFICES ASSUME TypeOK, ChainInv, [Next]_vars, NEW v \in Threads
             PROVE  ChainOf(v)'
  BY DEF ChainInv
<1>1. ChainOf(v) /\ MaxProbe \in Nat
  BY StoreAssumption DEF ChainInv
<1>2. ASSUME pc'[v] = pc[v], dp'[v] = dp[v], probe'[v] = probe[v]
      PROVE  ChainOf(v)'
  <2>1. CASE pc[v] = "idle"
    BY <1>1, <1>2, <2>1 DEF ChainOf
  <2>2. CASE pc[v] # "idle"
    <3>1. dp[v] \in Points /\ StoreIdx(dp[v]) \in TableIds /\ probe[v] \in Nat
      BY <2>2, IdxType DEF TypeOK
    <3>2. PICK d \in Points, t \in TableIds, p \in Nat :
            d = dp[v] /\ t = StoreIdx(dp[v]) /\ p = probe[v]
      BY <3>1
    <3>3. pc[v] \in {"probe", "pack", "pack2"} => p < MaxProbe /\ Chain(t, d, p)'
      BY <1>1, <3>2, ChainGrows DEF ChainOf
    <3>4. pc[v] = "full" => Chain(t, d, MaxProbe)'
      BY <1>1, <3>2, ChainGrows DEF ChainOf
    <3>5. dp'[v] = d /\ probe'[v] = p /\ t = StoreIdx(d)
      BY <1>2, <3>2
    <3> QED
      BY <1>1, <1>2, <3>2, <3>3, <3>4, <3>5 DEF ChainOf, Chain
  <2> QED
    BY <2>1, <2>2
<1>3. CASE AddTame(v) \/ CheckWild(v)
  BY <1>1, <1>3 DEF AddTame, CheckWild, Goto, TypeOK, ChainOf
<1>4. CASE Search(v)
  <2>1. \/ pc'[v] \in {"idle", "store", "ww"} /\ probe'[v] = 0
        \/ pc'[v] \in {"scan", "copy"}
    BY <1>4 DEF Search, BeginCopy, ScanEmpty, ScanReport, ScanDuplicate, ScanNext, Scanning,
       EndCopy,
       AfterScan, Finish, Goto, TypeOK
  <2> QED
    BY <2>1 DEF ChainOf
<1>5. CASE CheckWWBuffer(v)
  <2>1. \/ pc'[v] = "idle" /\ probe'[v] = 0
        \/ pc'[v] \in {"wwscan", "wwstore"}
    BY <1>5 DEF CheckWWBuffer, WWBegin, WWReport, WWMiss, WWStore, Finish, Goto, TypeOK
  <2> QED
    BY <2>1 DEF ChainOf
<1>6. CASE AddToTable(v)
  BY <1>6, ChainOfOwn
<1>7. ASSUME NEW w \in Threads, w # v, Step(w)
      PROVE  ChainOf(v)'
  BY <1>2, <1>7, OthersKeep
<1>8. CASE ClearCollision
  BY <1>2, <1>8 DEF ClearCollision
<1>9. CASE UNCHANGED vars
  BY <1>2, <1>9 DEF vars
<1> QED
  BY <1>3, <1>4, <1>5, <1>6, <1>7, <1>8, <1>9 DEF Next, Step

-----------------------------------------------------------------------------
\* No holes.

LEMMA ReachableGrows ==
  ASSUME TypeOK, [Next]_vars, NEW t \in TableIds, NEW s \in Slots, NEW e \in Points,
         Reachable(t, s, e)
  PROVE  Reachable(t, s, e)'
<1>1. PICK p \in 0 .. MaxProbe - 1 : Slot(e, p) = s /\ Chain(t, e, p)
  BY DEF Reachable
<1>2. Chain(t, e, p)'
  BY <1>1, ChainGrows
<1> QED
  BY <1>1, <1>2 DEF Reachable

\* Only the two packing steps touch the tables.
LEMMA OnlyPacking ==
  ASSUME [Next]_vars, \A w \in Threads : ~PackPart1(w) /\ ~PackPart2(w)
  PROVE  UNCHANGED tables
<1>1. ASSUME NEW w \in Threads, Step(w), ~PackPart1(w), ~PackPart2(w)
      PROVE  UNCHANGED tables
  <2>1. CASE AddTame(w) \/ CheckWild(w) \/ Search(w) \/ CheckWWBuffer(w)
    BY <2>1 DEF AddTame, CheckWild, Search, BeginCopy, ScanEmpty, ScanReport, ScanDuplicate,
       ScanNext,
       CheckWWBuffer, WWBegin, WWReport, WWMiss, WWStore, storeOnly, tables
  <2>2. CASE AddToTable(w)
    BY <1>1, <2>2 DEF AddToTable, Lock, ProbeEmpty, ProbeDuplicate, ProbeNext, Freeze,
       ActivateRotation, SaveDiscarded, Count, storeOnly, tables
  <2> QED
    BY <1>1, <2>1, <2>2 DEF Step
<1>2. CASE ClearCollision \/ UNCHANGED vars
  BY <1>2 DEF ClearCollision, vars, storeOnly, tables
<1> QED
  BY <1>1, <1>2 DEF Next

\* A thread writes where its DP's chain has led it.
LEMMA PackingHere ==
  ASSUME TypeOK, ChainInv, [Next]_vars, NEW w \in Threads,
         pc[w] \in {"pack", "pack2", "rot", "rot2"}
  PROVE  \E d \in Points, t \in TableIds, s \in Slots :
           /\ d = dp[w] /\ t = StoreIdx(dp[w]) /\ s = Here(w)
           /\ Reachable(t, s, d)'
<1>1. dp[w] \in Points /\ StoreIdx(dp[w]) \in TableIds /\ probe[w] \in Nat
  BY IdxType DEF TypeOK
<1>2. PICK d \in Points, t \in TableIds, p \in Nat :
        d = dp[w] /\ t = StoreIdx(dp[w]) /\ p = probe[w]
  BY <1>1
<1>3. ChainOf(w) /\ MaxProbe \in Nat \ {0}
  BY StoreAssumption DEF ChainInv
<1>4. p \in 0 .. MaxProbe - 1 /\ Chain(t, d, p)
  <2>1. CASE pc[w] \in {"pack", "pack2"}
    BY <1>2, <1>3, <2>1 DEF ChainOf
  <2>2. CASE pc[w] \in {"rot", "rot2"}
    <3>1. p = 0
      BY <1>2, <1>3, <2>2 DEF ChainOf
    <3> QED
      BY <1>3, <3>1 DEF Chain
  <2> QED
    BY <2>1, <2>2
<1>5. Chain(t, d, p)'
  BY <1>4, ChainGrows
<1>6. Slot(d, p) \in Slots /\ Slot(d, p) = Here(w)
  BY <1>2, SlotType DEF Here
<1>7. Reachable(t, Slot(d, p), d)'
  BY <1>4, <1>5 DEF Reachable
<1> QED
  BY <1>2, <1>6, <1>7

LEMMA NoHolesAt ==
  ASSUME TypeOK, ChainInv, NoHoles, [Next]_vars,
         NEW t \in TableIds, NEW s \in Slots, NEW e \in Points,
         part1'[t][s] = e \/ part2'[t][s] = e
  PROVE  Reachable(t, s, e)'
<1>0. /\ part1[t][s] \in Half /\ part2[t][s] \in Half
      /\ part1 \in [TableIds -> [Slots -> Half]] /\ part2 \in [TableIds -> [Slots -> Half]]
  BY DEF TypeOK
<1>1. ASSUME e = part1[t][s] \/ e = part2[t][s]
      PROVE  Reachable(t, s, e)'
  <2>1. Reachable(t, s, e)
    BY <1>1, StoreAssumption DEF NoHoles
  <2> QED
    BY <2>1, ReachableGrows
<1>3. \/ part1'[t][s] = part1[t][s]
      \/ \E d \in Points : part1'[t][s] = d /\ Reachable(t, s, d)'
  <2>1. ASSUME NEW w \in Threads, PackPart1(w)
        PROVE  \/ part1'[t][s] = part1[t][s]
               \/ \E d \in Points : part1'[t][s] = d /\ Reachable(t, s, d)'
    <3>1. pc[w] \in {"pack", "rot"}
          /\ part1' = [part1 EXCEPT ![StoreIdx(dp[w])][Here(w)] = dp[w]]
      BY <2>1 DEF PackPart1
    <3>2. PICK d \in Points, u \in TableIds, r \in Slots :
            /\ d = dp[w] /\ u = StoreIdx(dp[w]) /\ r = Here(w)
            /\ Reachable(u, r, d)'
      BY <3>1, PackingHere
    <3>3. part1' = [part1 EXCEPT ![u][r] = d]
      BY <3>1, <3>2
    <3> QED
      BY <1>0, <3>2, <3>3
  <2>2. ASSUME NEW w \in Threads, PackPart2(w) PROVE part1'[t][s] = part1[t][s]
    BY <2>2 DEF PackPart2
  <2> QED
    BY <2>1, <2>2, OnlyPacking DEF tables
<1>4. \/ part2'[t][s] = part2[t][s]
      \/ \E d \in Points : part2'[t][s] = d /\ Reachable(t, s, d)'
  <2>1. ASSUME NEW w \in Threads, PackPart2(w)
        PROVE  \/ part2'[t][s] = part2[t][s]
               \/ \E d \in Points : part2'[t][s] = d /\ Reachable(t, s, d)'
    <3>1. pc[w] \in {"pack2", "rot2"}
          /\ part2' = [part2 EXCEPT ![StoreIdx(dp[w])][Here(w)] = dp[w]]
      BY <2>1 DEF PackPart2
    <3>2. PICK d \in Points, u \in TableIds, r \in Slots :
            /\ d = dp[w] /\ u = StoreIdx(dp[w]) /\ r = Here(w)
            /\ Reachable(u, r, d)'
      BY <3>1, PackingHere
    <3>3. part2' = [part2 EXCEPT ![u][r] = d]
      BY <3>1, <3>2
    <3> QED
      BY <1>0, <3>2, <3>3
  <2>2. ASSUME NEW w \in Threads, PackPart1(w) PROVE part2'[t][s] = part2[t][s]
    BY <2>2 DEF PackPart1
  <2> QED
    BY <2>1, <2>2, OnlyPacking DEF tables
<1>5. ASSUME NEW d \in Points, d = e, Reachable(t, s, d)'
      PROVE  Reachable(t, s, e)'
  BY <1>5
<1> QED
  BY <1>1, <1>3, <1>4, <1>5

LEMMA NoHolesStep == TypeOK /\ ChainInv /\ NoHoles /\ [Next]_vars => NoHoles'
<1> SUFFICES ASSUME TypeOK, ChainInv, NoHoles, [Next]_vars PROVE NoHoles'
  OBVIOUS
<1>1. TypeOK'
  BY NextType
<1>2. \A t \in TableIds, s \in Slots : part1'[t][s] \in Half /\ part2'[t][s] \in Half
  BY <1>1 DEF TypeOK
<1>3. \A t \in TableIds, s \in Slots, e \in Points :
        part1'[t][s] = e \/ part2'[t][s] = e => Reachable(t, s, e)'
  BY NoHolesAt
<1> QED
  BY <1>2, <1>3 DEF NoHoles, Half, Reachable, Chain

\* The stop-at-the-first-empty-slot rule of the searches is sound, for every
\* number of threads and every geometry: no entry ever has an empty slot before
\* it on its own probe sequence.
THEOREM NoHolesCorrect == Spec => []NoHoles
<1>1. Init => TypeOK /\ ChainInv /\ NoHoles
  BY InitType DEF Init, ChainInv, ChainOf, NoHoles
<1>2. TypeOK /\ ChainInv /\ NoHoles /\ [Next]_vars => (TypeOK /\ ChainInv /\ NoHoles)'
  BY NextType, ChainInvStep, NoHolesStep
<1> QED
  BY <1>1, <1>2, PTL DEF Spec

-----------------------------------------------------------------------------
\* Freezing and rotating.

LEMMA FlagStep ==
  ASSUME TypeOK, ChainInv, [Next]_vars, NEW t \in TableIds
  PROVE  \/ frozen'[t] = frozen[t] /\ circular'[t] = circular[t]
         \/ \E d \in Points : StoreIdx(d) = t /\ Chain(t, d, MaxProbe)
<1>1. ASSUME NEW w \in Threads, Freeze(w) \/ ActivateRotation(w), StoreIdx(dp[w]) = t
      PROVE  \E d \in Points : StoreIdx(d) = t /\ Chain(t, d, MaxProbe)
  <2>1. pc[w] = "full" /\ dp[w] \in Points
    BY <1>1 DEF Freeze, ActivateRotation, TypeOK
  <2>2. Chain(StoreIdx(dp[w]), dp[w], MaxProbe)
    BY <2>1 DEF ChainInv, ChainOf
  <2> QED
    BY <1>1, <2>1, <2>2
<1>2. ASSUME NEW w \in Threads, Freeze(w) \/ ActivateRotation(w), StoreIdx(dp[w]) # t
      PROVE  frozen'[t] = frozen[t] /\ circular'[t] = circular[t]
  BY <1>2 DEF Freeze, ActivateRotation, TypeOK
<1>3. ASSUME NEW w \in Threads, Step(w), ~Freeze(w), ~ActivateRotation(w)
      PROVE  UNCHANGED flags
  BY <1>3 DEF Step, AddTame, CheckWild, Search, BeginCopy, ScanEmpty, ScanReport,
     ScanDuplicate, ScanNext, AddToTable, Lock, ProbeEmpty, ProbeDuplicate, ProbeNext,
     SaveDiscarded, PackPart1, PackPart2, Count, CheckWWBuffer, WWBegin, WWReport, WWMiss,
     WWStore, storeOnly, flags
<1>4. CASE ClearCollision \/ UNCHANGED vars
  BY <1>4 DEF ClearCollision, storeOnly, vars, flags
<1> QED
  BY <1>1, <1>2, <1>3, <1>4 DEF Next, flags

LEMMA FullChainStep ==
  TypeOK /\ ChainInv /\ FullChainBehindFreeze /\ [Next]_vars => FullChainBehindFreeze'
<1> SUFFICES ASSUME TypeOK, ChainInv, FullChainBehindFreeze, [Next]_vars,
                    NEW t \in TableIds,
                    (frozen'[t] /\ (AllWild \/ t = 0)) \/ circular'[t]
             PROVE  (\E d \in Points : StoreIdx(d) = t /\ Chain(t, d, MaxProbe))'
  BY DEF FullChainBehindFreeze
<1>1. \E d \in Points : StoreIdx(d) = t /\ Chain(t, d, MaxProbe)
  BY FlagStep DEF FullChainBehindFreeze
<1>2. PICK d \in Points : StoreIdx(d) = t /\ Chain(t, d, MaxProbe)
  BY <1>1
<1>3. Chain(t, d, MaxProbe)'
  BY <1>2, ChainGrows, StoreAssumption
<1> QED
  BY <1>2, <1>3

\* No table is ever frozen, and no table starts to rotate, before some DP of it
\* has found its whole probe sequence occupied.
THEOREM FullChainCorrect == Spec => []FullChainBehindFreeze
<1>1. Init => TypeOK /\ ChainInv /\ FullChainBehindFreeze
  <2> SUFFICES ASSUME Init PROVE TypeOK /\ ChainInv /\ FullChainBehindFreeze
    OBVIOUS
  <2>1. ChainInv
    BY DEF Init, ChainInv, ChainOf
  <2>2. ASSUME NEW t \in TableIds PROVE ~circular[t] /\ ~(frozen[t] /\ (AllWild \/ t = 0))
    <3>1. ~circular[t]
      BY DEF Init
    <3>2. frozen[t] <=> (~AllWild /\ t = 1)
      BY DEF Init
    <3>3. t = 0 => t # 1
      OBVIOUS
    <3> QED
      BY <3>1, <3>2, <3>3, Zenon
  <2> QED
    BY <2>1, <2>2, InitType DEF FullChainBehindFreeze
<1>2. TypeOK /\ ChainInv /\ FullChainBehindFreeze /\ [Next]_vars
        => (TypeOK /\ ChainInv /\ FullChainBehindFreeze)'
  BY NextType, ChainInvStep, FullChainStep
<1> QED
  BY <1>1, <1>2, PTL DEF Spec

-----------------------------------------------------------------------------
\* The home locks.

\* HoldsLock(w, t, h), of the values the thread has.
HasLock(l, d, p, t, h) ==
  \/ l \in HoldsHome /\ StoreIdx(d) = t /\ GetShard(Home(d)) = h
  \/ l = "copy" /\ CheckIdx(d) = t /\ GetShard(Slot(d, p)) = h

LEMMA HoldsLockIs ==
  ASSUME NEW w, NEW t, NEW h
  PROVE  /\ HoldsLock(w, t, h) <=> HasLock(pc[w], dp[w], probe[w], t, h)
         /\ HoldsLock(w, t, h)' <=> HasLock(pc'[w], dp'[w], probe'[w], t, h)
BY DEF HoldsLock, HasLock, StoreIdx, CheckIdx, GetShard, Home, Slot

\* What a step does to the locks: nothing; it takes a free one, which is then
\* the one its thread holds; or it gives back the one its thread holds.
LEMMA LockStep ==
  ASSUME TypeOK, LockInv, NEW w \in Threads, Step(w)
  PROVE  \/ /\ shardLock' = shardLock
            /\ \A u, g : HoldsLock(w, u, g)' <=> HoldsLock(w, u, g)
         \/ \E t \in TableIds, h \in Shards :
              /\ shardLock[t][h] = NoThread
              /\ shardLock' = [shardLock EXCEPT ![t][h] = w]
              /\ \A u, g : ~HoldsLock(w, u, g) /\ (HoldsLock(w, u, g)' <=> u = t /\ g = h)
         \/ \E t \in TableIds, h \in Shards :
              /\ shardLock[t][h] = w
              /\ shardLock' = [shardLock EXCEPT ![t][h] = NoThread]
              /\ \A u, g : ~HoldsLock(w, u, g)' /\ (HoldsLock(w, u, g) <=> u = t /\ g = h)
<1>0. /\ pc \in [Threads -> PCs] /\ dp \in [Threads -> Half]
      /\ \A t, h : /\ HoldsLock(w, t, h) <=> HasLock(pc[w], dp[w], probe[w], t, h)
                   /\ HoldsLock(w, t, h)' <=> HasLock(pc'[w], dp'[w], probe'[w], t, h)
  BY HoldsLockIs DEF TypeOK
<1>1. ASSUME pc[w] \in {"store"} \cup HoldsHome
      PROVE  StoreIdx(dp[w]) \in TableIds /\ GetShard(Home(dp[w])) \in Shards
  <2>1. dp[w] \in Points
    BY <1>1 DEF TypeOK, HoldsHome
  <2> QED
    BY <2>1, IdxType, SlotType, ShardType DEF Home
<1>2. CASE Lock(w)
  <2>1. PICK t, h : t = StoreIdx(dp[w]) /\ h = GetShard(Home(dp[w]))
    OBVIOUS
  <2>2. pc[w] = "store" /\ shardLock[t][h] = NoThread /\ t \in TableIds /\ h \in Shards
    BY <1>1, <1>2, <2>1 DEF Lock
  <2>3. \/ Finish(w) /\ shardLock' = shardLock
        \/ Acquire(t, h, w) /\ (Goto(w, "rotate") \/ Goto(w, "probe")) /\ dp' = dp
    BY <1>2, <2>1 DEF Lock
  <2>4. CASE Finish(w) /\ shardLock' = shardLock
    <3>1. pc'[w] = "idle"
      BY <1>0, <2>4 DEF Finish, Goto
    <3> QED
      BY <1>0, <2>2, <2>4, <3>1 DEF HasLock, HoldsHome
  <2>5. CASE Acquire(t, h, w) /\ (Goto(w, "rotate") \/ Goto(w, "probe")) /\ dp' = dp
    <3>1. pc'[w] \in HoldsHome /\ pc'[w] # "copy"
      BY <1>0, <2>5 DEF Goto, HoldsHome
    <3>2. \A u, g : ~HoldsLock(w, u, g) /\ (HoldsLock(w, u, g)' <=> u = t /\ g = h)
      BY <1>0, <2>1, <2>2, <2>5, <3>1 DEF HasLock, HoldsHome
    <3> QED
      BY <2>2, <2>5, <3>2 DEF Acquire
  <2> QED
    BY <2>3, <2>4, <2>5
<1>3. CASE ProbeDuplicate(w) \/ Freeze(w) \/ PackPart2(w)
  <2>1. PICK t, h : t = StoreIdx(dp[w]) /\ h = GetShard(Home(dp[w]))
    OBVIOUS
  <2>2. pc[w] \in HoldsHome /\ pc[w] # "copy" /\ Release(t, h)
    BY <1>3, <2>1 DEF ProbeDuplicate, Freeze, PackPart2, HoldsHome
  <2>3. pc'[w] \in {"idle", "count"}
    BY <1>0, <1>3 DEF ProbeDuplicate, Freeze, PackPart2, Finish, Goto
  <2>4. \A u, g : ~HoldsLock(w, u, g)' /\ (HoldsLock(w, u, g) <=> u = t /\ g = h)
    BY <1>0, <2>1, <2>2, <2>3 DEF HasLock, HoldsHome
  <2>5. t \in TableIds /\ h \in Shards /\ shardLock[t][h] = w
    BY <1>1, <2>1, <2>2, <2>4 DEF LockInv
  <2> QED
    BY <2>2, <2>4, <2>5 DEF Release
<1>4. CASE BeginCopy(w)
  <2>1. PICK t \in TableIds, s \in Slots :
          Scanning(w, t, s) /\ Acquire(t, GetShard(s), w) /\ Goto(w, "copy") /\ UNCHANGED <<dp, probe>>
    BY <1>4 DEF BeginCopy
  <2>2. PICK h \in Shards : h = GetShard(s)
    BY ShardType
  <2>3. /\ pc[w] = "scan" /\ pc'[w] = "copy" /\ t = CheckIdx(dp[w])
        /\ h = GetShard(Slot(dp[w], probe[w])) /\ shardLock[t][h] = NoThread
    BY <1>0, <2>1, <2>2 DEF Scanning, Goto
  <2>4. \A u, g : ~HoldsLock(w, u, g) /\ (HoldsLock(w, u, g)' <=> u = t /\ g = h)
    BY <1>0, <2>1, <2>3 DEF HasLock, HoldsHome
  <2> QED
    BY <2>1, <2>2, <2>3, <2>4 DEF Acquire
<1>5. CASE EndCopy(w) /\ (ScanEmpty(w) \/ ScanReport(w) \/ ScanDuplicate(w) \/ ScanNext(w))
  <2>1. PICK t \in TableIds, h \in Shards :
          t = CheckIdx(dp[w]) /\ h = GetShard(Slot(dp[w], probe[w]))
    BY <1>5, SearchPlace DEF EndCopy
  <2>2. pc[w] = "copy" /\ Release(t, h)
    BY <1>5, <2>1 DEF EndCopy
  <2>3. pc'[w] \in {"idle", "scan", "store", "ww"}
    BY <1>0, <1>5 DEF ScanEmpty, ScanReport, ScanDuplicate, ScanNext, AfterScan, Finish, Goto
  <2>4. \A u, g : ~HoldsLock(w, u, g)' /\ (HoldsLock(w, u, g) <=> u = t /\ g = h)
    BY <1>0, <2>1, <2>2, <2>3 DEF HasLock, HoldsHome
  <2>5. shardLock[t][h] = w
    BY <2>4 DEF LockInv
  <2> QED
    BY <2>2, <2>4, <2>5 DEF Release
<1>6. CASE \/ ProbeEmpty(w) \/ ProbeNext(w) \/ ActivateRotation(w) \/ SaveDiscarded(w)
           \/ PackPart1(w)
  <2>1. /\ pc[w] \in HoldsHome /\ pc'[w] \in HoldsHome /\ dp' = dp /\ shardLock' = shardLock
        /\ pc[w] # "copy" /\ pc'[w] # "copy"
    <3>1. CASE ProbeNext(w)
      BY <1>0, <3>1 DEF ProbeNext, Goto, HoldsHome
    <3>2. CASE ~ProbeNext(w)
      BY <1>0, <1>6, <3>2 DEF ProbeEmpty, ActivateRotation, SaveDiscarded, PackPart1, Goto,
         HoldsHome
    <3> QED
      BY <3>1, <3>2
  <2> QED
    BY <1>0, <2>1 DEF HasLock
<1>7. CASE AddTame(w) \/ CheckWild(w) \/ Count(w) \/ CheckWWBuffer(w)
  <2>1. /\ shardLock' = shardLock
        /\ pc[w] \in {"idle", "count"} \cup InBuffer
        /\ pc'[w] \in {"idle", "store", "scan"} \cup InBuffer
    BY <1>0, <1>7 DEF AddTame, CheckWild, Count, CheckWWBuffer, WWBegin, WWReport, WWMiss,
       WWStore, Finish, Goto, InBuffer
  <2> QED
    BY <1>0, <2>1 DEF HasLock, HoldsHome, InBuffer
<1>8. /\ ScanEmpty(w) \/ ScanReport(w) \/ ScanDuplicate(w) \/ ScanNext(w) => EndCopy(w)
  BY DEF ScanEmpty, ScanReport, ScanDuplicate, ScanNext
<1> QED
  BY <1>2, <1>3, <1>4, <1>5, <1>6, <1>7, <1>8 DEF Step, Search, AddToTable

\* The same for one lock.
LEMMA LockAt ==
  ASSUME TypeOK, LockInv, NEW w \in Threads, Step(w), NEW t \in TableIds, NEW h \in Shards
  PROVE  \/ /\ shardLock'[t][h] = shardLock[t][h]
            /\ HoldsLock(w, t, h)' <=> HoldsLock(w, t, h)
         \/ shardLock[t][h] = NoThread /\ shardLock'[t][h] = w /\ HoldsLock(w, t, h)'
         \/ shardLock[t][h] = w /\ shardLock'[t][h] = NoThread /\ ~HoldsLock(w, t, h)'
<1>0. shardLock \in [TableIds -> [Shards -> Threads \cup {NoThread}]]
  BY DEF TypeOK
<1>1. CASE /\ shardLock' = shardLock
           /\ \A u, g : HoldsLock(w, u, g)' <=> HoldsLock(w, u, g)
  BY <1>1
<1>2. ASSUME NEW u \in TableIds, NEW g \in Shards, shardLock[u][g] = NoThread,
             shardLock' = [shardLock EXCEPT ![u][g] = w],
             ~HoldsLock(w, t, h) /\ (HoldsLock(w, t, h)' <=> t = u /\ h = g)
      PROVE  \/ /\ shardLock'[t][h] = shardLock[t][h]
                /\ HoldsLock(w, t, h)' <=> HoldsLock(w, t, h)
             \/ shardLock[t][h] = NoThread /\ shardLock'[t][h] = w /\ HoldsLock(w, t, h)'
  BY <1>0, <1>2
<1>3. ASSUME NEW u \in TableIds, NEW g \in Shards, shardLock[u][g] = w,
             shardLock' = [shardLock EXCEPT ![u][g] = NoThread],
             ~HoldsLock(w, t, h)' /\ (HoldsLock(w, t, h) <=> t = u /\ h = g)
      PROVE  \/ /\ shardLock'[t][h] = shardLock[t][h]
                /\ HoldsLock(w, t, h)' <=> HoldsLock(w, t, h)
             \/ shardLock[t][h] = w /\ shardLock'[t][h] = NoThread /\ ~HoldsLock(w, t, h)'
  BY <1>0, <1>3
<1> QED
  BY <1>1, <1>2, <1>3, LockStep

\* The locks the other threads hold are theirs still.
LEMMA LocksOfOthers ==
  ASSUME TypeOK, NEW w \in Threads, Step(w), NEW v \in Threads, v # w
  PROVE  \A u, g : HoldsLock(v, u, g)' <=> HoldsLock(v, u, g)
<1>1. pc'[v] = pc[v] /\ dp'[v] = dp[v] /\ probe'[v] = probe[v]
  BY OthersKeep
<1> QED
  BY <1>1, HoldsLockIs

LEMMA LockInvStep == TypeOK /\ LockInv /\ [Next]_vars => LockInv'
<1> SUFFICES ASSUME TypeOK, LockInv, [Next]_vars,
                    NEW v \in Threads, NEW t \in TableIds, NEW h \in Shards,
                    HoldsLock(v, t, h)'
             PROVE  shardLock'[t][h] = v
  BY DEF LockInv
<1>1. CASE Step(v)
  BY <1>1, LockAt, StoreAssumption DEF LockInv
<1>2. ASSUME NEW w \in Threads, w # v, Step(w)
      PROVE  shardLock'[t][h] = v
  <2>1. HoldsLock(v, t, h) /\ shardLock[t][h] = v
    BY <1>2, LocksOfOthers DEF LockInv
  <2> QED
    BY <1>2, <2>1, LockAt, StoreAssumption
<1>3. CASE ClearCollision \/ UNCHANGED vars
  <2>1. shardLock' = shardLock /\ pc' = pc /\ dp' = dp /\ probe' = probe
    BY <1>3 DEF ClearCollision, vars
  <2>2. HoldsLock(v, t, h)
    BY <2>1, HoldsLockIs
  <2> QED
    BY <2>1, <2>2 DEF LockInv
<1> QED
  BY <1>1, <1>2, <1>3 DEF Next

LEMMA HomesApart == TypeOK /\ LockInv => HomeExclusion
<1> SUFFICES ASSUME TypeOK, LockInv, NEW v \in Threads, NEW w \in Threads, v # w,
                    pc[v] \in HoldsHome, pc[w] \in HoldsHome,
                    StoreIdx(dp[v]) = StoreIdx(dp[w]),
                    GetShard(Home(dp[v])) = GetShard(Home(dp[w]))
             PROVE  FALSE
  BY DEF HomeExclusion
<1>1. dp[v] \in Points
  BY DEF TypeOK, HoldsHome
<1>2. StoreIdx(dp[v]) \in TableIds /\ GetShard(Home(dp[v])) \in Shards
  BY <1>1, IdxType, SlotType, ShardType DEF Home
<1> QED
  BY <1>2 DEF LockInv, HoldsLock

\* Two threads inside AddToTable for one table never share a home shard.
THEOREM HomeExclusionCorrect == Spec => []HomeExclusion
<1>1. Init => TypeOK /\ LockInv
  BY InitType DEF Init, LockInv, HoldsLock, HoldsHome
<1>2. TypeOK /\ LockInv /\ [Next]_vars => (TypeOK /\ LockInv)'
  BY NextType, LockInvStep
<1>3. TypeOK /\ LockInv => HomeExclusion
  BY HomesApart
<1> QED
  BY <1>1, <1>2, <1>3, PTL DEF Spec

-----------------------------------------------------------------------------
\* A search never passes over an entry (without rotation).

\* Where a thread can be that writes no entry any more.
Past == {"idle", "count"} \cup InBuffer

\* A step either leaves a thread's DP alone, ends its call, or takes a new DP.
LEMMA OwnSteps ==
  ASSUME TypeOK, NEW w \in Threads, Step(w)
  PROVE  \/ /\ pc[w] # "idle" /\ dp'[w] = dp[w] /\ todo' = todo
            /\ pc[w] \in Past => pc'[w] \in Past
         \/ /\ pc[w] # "idle" /\ pc'[w] = "idle" /\ dp'[w] = Zero /\ todo' = todo
            /\ owed'[w] = {}
         \/ /\ pc[w] = "idle" /\ dp'[w] \in todo /\ todo' = todo \ {dp'[w]}
<1> USE DEF TypeOK, Goto, Finish
<1>1. CASE AddTame(w) \/ CheckWild(w)
  BY <1>1 DEF AddTame, CheckWild
<1>2. CASE Search(w)
  BY <1>2 DEF Search, BeginCopy, ScanEmpty, ScanReport, ScanDuplicate, ScanNext, AfterScan,
     Scanning, EndCopy,
     Past, InBuffer
<1>3. CASE AddToTable(w)
  BY <1>3 DEF AddToTable, Lock, ProbeEmpty, ProbeDuplicate, ProbeNext, Freeze,
     ActivateRotation, SaveDiscarded, PackPart1, PackPart2, Count, Past, InBuffer
<1>4. CASE CheckWWBuffer(w)
  BY <1>4 DEF CheckWWBuffer, WWBegin, WWReport, WWMiss, WWStore, Past, InBuffer
<1> QED
  BY <1>1, <1>2, <1>3, <1>4 DEF Step

LEMMA NotComingStable ==
  ASSUME TypeOK, [Next]_vars, NEW e \in Points, NotComing(e)
  PROVE  NotComing(e)'
<1>0. \A v \in Threads : dp[v] = e => pc[v] \in Past
  BY DEF NotComing, Past
<1>1. ASSUME NEW w \in Threads, Step(w)
      PROVE  NotComing(e)'
  <2>1. \A v \in Threads : v # w => pc'[v] = pc[v] /\ dp'[v] = dp[v]
    BY <1>1, OthersKeep
  <2>2. todo' \subseteq todo
    BY <1>1, OwnSteps
  <2>3. dp'[w] = e => pc'[w] \in Past
    BY <1>0, <1>1, OwnSteps, StoreAssumption DEF NotComing
  <2> QED
    BY <1>0, <2>1, <2>2, <2>3 DEF NotComing, Past, InBuffer
<1>2. CASE ClearCollision \/ UNCHANGED vars
  BY <1>2 DEF ClearCollision, vars, NotComing, InBuffer
<1> QED
  BY <1>1, <1>2 DEF Next

\* Nobody writes an entry that is not coming.
LEMMA HoldsStable ==
  ASSUME TypeOK, [Next]_vars, NEW e \in Points, NotComing(e),
         NEW t \in TableIds, NEW s \in Slots, Holds(t, s, e)'
  PROVE  Holds(t, s, e)
<1>1. ASSUME NEW w \in Threads, PackPart1(w)
      PROVE  Holds(t, s, e)
  <2>1. dp[w] # e
    BY <1>1 DEF PackPart1, NotComing, InBuffer
  <2>2. /\ part1' = [part1 EXCEPT ![StoreIdx(dp[w])][Here(w)] = dp[w]]
        /\ part2' = part2
    BY <1>1 DEF PackPart1
  <2>3. part1'[t][s] = part1[t][s] \/ part1'[t][s] = dp[w]
    BY <2>2 DEF TypeOK
  <2> QED
    BY <2>1, <2>2, <2>3 DEF Holds
<1>2. ASSUME NEW w \in Threads, PackPart2(w)
      PROVE  Holds(t, s, e)
  <2>1. dp[w] # e
    BY <1>2 DEF PackPart2, NotComing, InBuffer
  <2>2. /\ part2' = [part2 EXCEPT ![StoreIdx(dp[w])][Here(w)] = dp[w]]
        /\ part1' = part1
    BY <1>2 DEF PackPart2
  <2>3. part2'[t][s] = part2[t][s] \/ part2'[t][s] = dp[w]
    BY <2>2 DEF TypeOK
  <2> QED
    BY <2>1, <2>2, <2>3 DEF Holds
<1> QED
  BY <1>1, <1>2, OnlyPacking DEF tables, Holds

-----------------------------------------------------------------------------
\* Every entry of a table is settled.

LEMMA SettledTables ==
  ASSUME TypeOK, SettledInv, [Next]_vars, NEW t \in TableIds, NEW s \in Slots,
         NEW e \in Points, part2'[t][s] = e
  PROVE  NotComing(e)'
<1>1. CASE part2[t][s] = e
  BY <1>1, NotComingStable, StoreAssumption DEF SettledInv
<1>2. CASE part2[t][s] # e
  <2>1. PICK w \in Threads : PackPart2(w)
    BY <1>2, OnlyPacking DEF tables, PackPart1
  <2>2. part2' = [part2 EXCEPT ![StoreIdx(dp[w])][Here(w)] = dp[w]]
    BY <2>1 DEF PackPart2
  <2>3. dp[w] = e
    BY <1>2, <2>2 DEF TypeOK
  <2>4. pc[w] \in {"pack2", "rot2"}
    BY <2>1 DEF PackPart2
  <2>5. todo' = todo /\ e \notin todo
    BY <2>1, <2>3, <2>4 DEF PackPart2, SettledInv
  <2>6. \A v \in Threads : v # w /\ dp[v] = e => pc[v] = "idle"
    BY <2>3, <2>4 DEF SettledInv
  <2>7. Step(w)
    BY <2>1 DEF Step, AddToTable
  <2>8. \A v \in Threads : v # w => pc'[v] = pc[v] /\ dp'[v] = dp[v]
    BY <2>7, OthersKeep
  <2>9. pc'[w] \in {"idle", "count"}
    BY <2>1 DEF PackPart2, Finish, Goto, TypeOK
  <2> QED
    BY <2>5, <2>6, <2>8, <2>9 DEF NotComing
<1> QED
  BY <1>1, <1>2

LEMMA SettledStep == TypeOK /\ SettledInv /\ [Next]_vars => SettledInv'
<1> SUFFICES ASSUME TypeOK, SettledInv, [Next]_vars PROVE SettledInv'
  OBVIOUS
<1>1. /\ \A w \in Threads : pc'[w] # "idle" => dp'[w] \notin todo'
      /\ \A v, w \in Threads : v # w /\ pc'[v] # "idle" /\ pc'[w] # "idle" => dp'[v] # dp'[w]
  <2>1. ASSUME NEW u \in Threads, Step(u)
        PROVE  /\ \A w \in Threads : pc'[w] # "idle" => dp'[w] \notin todo'
               /\ \A v, w \in Threads :
                    v # w /\ pc'[v] # "idle" /\ pc'[w] # "idle" => dp'[v] # dp'[w]
    <3>1. \A v \in Threads : v # u => pc'[v] = pc[v] /\ dp'[v] = dp[v]
      BY <2>1, OthersKeep
    <3> QED
      BY <2>1, <3>1, OwnSteps DEF SettledInv
  <2>2. CASE ClearCollision \/ UNCHANGED vars
    BY <2>2 DEF ClearCollision, vars, SettledInv
  <2> QED
    BY <2>1, <2>2 DEF Next
<1>2. \A t \in TableIds, s \in Slots, e \in Points : part2'[t][s] = e => NotComing(e)'
  BY SettledTables
<1>3. \A t \in TableIds, s \in Slots : part2'[t][s] \in Half
  BY NextType DEF TypeOK
<1> QED
  BY <1>1, <1>2, <1>3 DEF SettledInv, Half, NotComing, InBuffer

-----------------------------------------------------------------------------
\* What is owed lies ahead.

\* The words of a copy, of which c has been read; and OwedOf(w), of the values
\* the thread has.
Word1(c, t, s) == IF c.word = 1 THEN c.half ELSE part1[t][s]
Word2(c, t, s) == IF c.word = 2 THEN c.half ELSE part2[t][s]
Copies == [word : {1, 2}, half : Half]

OwedFor(t, d, p, l, c, O) ==
  \A o \in O :
    /\ o[1] \in Slots
    /\ Collides(o[2], o[2], d)
    /\ NotComing(o[2])
    /\ l \in {"scan", "copy"} /\ Holds(t, o[1], o[2]) =>
         \E k \in p .. MaxProbe - 1 : Slot(d, k) = o[1] /\ Chain(t, d, k)
    /\ l = "copy" /\ Holds(t, o[1], o[2]) =>
         IF Slot(d, p) = o[1]
         THEN c.half = o[2]
         ELSE ~IsEmpty(Word1(c, t, Slot(d, p)), Word2(c, t, Slot(d, p)))
    /\ l \in {"store", "ww"} => ~Holds(t, o[1], o[2])

\* A word that is written is never unwritten.
LEMMA WordsGrow ==
  ASSUME TypeOK, [Next]_vars, NEW t \in TableIds, NEW s \in Slots
  PROVE  /\ part1[t][s] # Zero => part1'[t][s] # Zero
         /\ part2[t][s] # Zero => part2'[t][s] # Zero
<1>1. ASSUME NEW w \in Threads, PackPart1(w)
      PROVE  part2' = part2 /\ (part1'[t][s] = part1[t][s] \/ part1'[t][s] \in Points)
  <2>1. dp[w] \in Points
    BY <1>1 DEF PackPart1, TypeOK
  <2> QED
    BY <1>1, <2>1 DEF PackPart1, TypeOK
<1>2. ASSUME NEW w \in Threads, PackPart2(w)
      PROVE  part1' = part1 /\ (part2'[t][s] = part2[t][s] \/ part2'[t][s] \in Points)
  <2>1. dp[w] \in Points
    BY <1>2 DEF PackPart2, TypeOK
  <2> QED
    BY <1>2, <2>1 DEF PackPart2, TypeOK
<1> QED
  BY <1>1, <1>2, OnlyPacking, StoreAssumption DEF tables

LEMMA OwedForStable ==
  ASSUME TypeOK, [Next]_vars, NEW t \in TableIds, NEW d \in Points, NEW p \in Nat, NEW l,
         NEW c \in Copies, NEW O \in SUBSET (Nat \X Points), OwedFor(t, d, p, l, c, O)
  PROVE  OwedFor(t, d, p, l, c, O)'
<1>1. ASSUME NEW o \in O
      PROVE  /\ o[1] \in Slots
             /\ Collides(o[2], o[2], d)
             /\ NotComing(o[2])'
             /\ Holds(t, o[1], o[2])' => Holds(t, o[1], o[2])
  <2>1. PICK s \in Slots, e \in Points : s = o[1] /\ e = o[2]
    BY DEF OwedFor
  <2>2. NotComing(e) /\ Collides(e, e, d)
    BY <2>1 DEF OwedFor
  <2>3. NotComing(e)'
    BY <2>2, NotComingStable
  <2>4. Holds(t, s, e)' => Holds(t, s, e)
    BY <2>2, HoldsStable
  <2> QED
    BY <2>1, <2>2, <2>3, <2>4 DEF NotComing, Holds, InBuffer
<1>2. \A k \in p .. MaxProbe - 1 : Chain(t, d, k) => Chain(t, d, k)'
  BY ChainGrows
<1>3. PICK r \in Slots : r = Slot(d, p)
  BY SlotType
<1>4. /\ part1[t][r] # Zero => part1'[t][r] # Zero
      /\ part2[t][r] # Zero => part2'[t][r] # Zero
  BY WordsGrow
<1>5. ~IsEmpty(Word1(c, t, r), Word2(c, t, r)) => ~IsEmpty(Word1(c, t, r), Word2(c, t, r))'
  BY <1>4 DEF IsEmpty, Word1, Word2
<1>6. ASSUME NEW o \in O
      PROVE  /\ l \in {"scan", "copy"} /\ Holds(t, o[1], o[2])' =>
                  \E k \in p .. MaxProbe - 1 : Slot(d, k) = o[1] /\ Chain(t, d, k)'
             /\ l = "copy" /\ Holds(t, o[1], o[2])' =>
                  IF Slot(d, p) = o[1]
                  THEN c.half = o[2]
                  ELSE ~IsEmpty(Word1(c, t, r), Word2(c, t, r))'
             /\ l \in {"store", "ww"} => ~Holds(t, o[1], o[2])'
  BY <1>1, <1>2, <1>3, <1>5 DEF OwedFor
<1> QED
  BY <1>1, <1>3, <1>6 DEF OwedFor, Word1, Word2

\* A search that begins: by NoHoles, what it owes is reachable.
LEMMA OwedBegins ==
  ASSUME TypeOK, NoHoles, SettledInv, NEW d \in Points, NEW c
  PROVE  OwedFor(CheckIdx(d), d, 0, "scan", c, Owed(d))
<1> SUFFICES ASSUME NEW o \in Owed(d)
             PROVE  /\ o[1] \in Slots
                    /\ Collides(o[2], o[2], d)
                    /\ NotComing(o[2])
                    /\ \E k \in 0 .. MaxProbe - 1 :
                         Slot(d, k) = o[1] /\ Chain(CheckIdx(d), d, k)
  BY DEF OwedFor
<1>1. PICK t \in TableIds, s \in Slots, e \in Points :
        t = CheckIdx(d) /\ s = o[1] /\ e = o[2]
  BY IdxType DEF Owed
<1>2. Holds(t, s, e) /\ Collides(e, e, d) /\ SameSequence(e, d)
  BY <1>1 DEF Owed
<1>3. part1[t][s] = e /\ part2[t][s] = e /\ e # Zero
  BY <1>2, StoreAssumption DEF Holds
<1>4. NotComing(e)
  BY <1>3 DEF SettledInv
<1>5. PICK k \in 0 .. MaxProbe - 1 : Slot(e, k) = s /\ Chain(t, e, k)
  BY <1>3 DEF NoHoles, Reachable
<1>6. Slot(d, k) = s /\ Chain(t, d, k)
  BY <1>2, <1>5 DEF SameSequence, Chain
<1> QED
  BY <1>1, <1>2, <1>4, <1>6

\* A search that starts the copy of a slot: of an owed entry that is there it
\* has one half; if the entry is further on, some word is written here.
LEMMA OwedCopies ==
  ASSUME TypeOK, NEW t \in TableIds, NEW d \in Points, NEW p \in Nat, NEW c, NEW b,
         NEW O \in SUBSET (Nat \X Points), OwedFor(t, d, p, "scan", b, O),
         c \in {[word |-> 1, half |-> part1[t][Slot(d, p)]],
                [word |-> 2, half |-> part2[t][Slot(d, p)]]}
  PROVE  OwedFor(t, d, p, "copy", c, O)
<1>0. MaxProbe \in Nat
  BY StoreAssumption
<1>1. ASSUME NEW o \in O, Holds(t, o[1], o[2]), Slot(d, p) = o[1]
      PROVE  c.half = o[2]
  BY <1>1 DEF Holds
<1>2. ASSUME NEW o \in O, Holds(t, o[1], o[2]), Slot(d, p) # o[1]
      PROVE  ~IsEmpty(Word1(c, t, Slot(d, p)), Word2(c, t, Slot(d, p)))
  <2>1. PICK k \in p .. MaxProbe - 1 : Slot(d, k) = o[1] /\ Chain(t, d, k)
    BY <1>2 DEF OwedFor
  <2>2. k # p
    BY <1>2, <2>1
  <2>3. p \in 0 .. MaxProbe - 1 /\ p < k
    BY <1>0, <2>1, <2>2
  <2>4. ~SlotIsEmpty(t, Slot(d, p))
    BY <2>1, <2>3 DEF Chain
  <2> QED
    BY <2>4 DEF SlotIsEmpty, IsEmpty, Word1, Word2
<1> QED
  BY <1>1, <1>2 DEF OwedFor

\* A search whose copy is empty, or past its last probe, owes nothing that is
\* still there; with a copy of another signature it owes what lies further on.
LEMMA OwedMoves ==
  ASSUME TypeOK, NEW t \in TableIds, NEW d \in Points, NEW p \in Nat, NEW c \in Copies,
         NEW O \in SUBSET (Nat \X Points), OwedFor(t, d, p, "copy", c, O),
         NEW h1, NEW h2, h1 = Word1(c, t, Slot(d, p)), h2 = Word2(c, t, Slot(d, p)),
         IsEmpty(h1, h2) \/ ~XSigMatch(h2, d)
  PROVE  /\ IsEmpty(h1, h2) \/ p + 1 >= MaxProbe =>
              \A l \in {"store", "ww"} : \A b : OwedFor(t, d, 0, l, b, O)
         /\ ~IsEmpty(h1, h2) => \A b : OwedFor(t, d, p + 1, "scan", b, O)
<1>0. MaxProbe \in Nat
  BY StoreAssumption
<1>1. ASSUME NEW o \in O, Holds(t, o[1], o[2])
      PROVE  /\ ~IsEmpty(h1, h2)
             /\ \E k \in p + 1 .. MaxProbe - 1 : Slot(d, k) = o[1] /\ Chain(t, d, k)
  <2>1. PICK k \in p .. MaxProbe - 1 : Slot(d, k) = o[1] /\ Chain(t, d, k)
    BY <1>1 DEF OwedFor
  <2>2. PICK s \in Slots, e \in Points : s = o[1] /\ e = o[2]
    BY DEF OwedFor
  <2>3. part1[t][s] = e /\ part2[t][s] = e /\ e # Zero
    BY <1>1, <2>2, StoreAssumption DEF Holds
  <2>4. XSigMatch(e, d)
    BY <2>2 DEF OwedFor, Collides, Matches
  <2>5. Slot(d, p) # o[1]
    <3> SUFFICES ASSUME Slot(d, p) = o[1] PROVE FALSE
      OBVIOUS
    <3>1. c.half = e
      BY <1>1, <2>2 DEF OwedFor
    <3>2. h1 = e /\ h2 = e
      BY <2>2, <2>3, <3>1 DEF Word1, Word2, Copies
    <3> QED
      BY <2>3, <2>4, <3>2 DEF IsEmpty
  <2>6. ~IsEmpty(h1, h2)
    BY <1>1, <2>5 DEF OwedFor
  <2>7. k # p
    BY <2>1, <2>5
  <2>8. k \in p + 1 .. MaxProbe - 1
    BY <1>0, <2>1, <2>7
  <2> QED
    BY <2>1, <2>6, <2>8
<1>2. ASSUME IsEmpty(h1, h2) \/ p + 1 >= MaxProbe, NEW o \in O
      PROVE  ~Holds(t, o[1], o[2])
  BY <1>0, <1>1, <1>2
<1>3. IsEmpty(h1, h2) \/ p + 1 >= MaxProbe =>
        \A l \in {"store", "ww"} : \A b : OwedFor(t, d, 0, l, b, O)
  BY <1>2 DEF OwedFor
<1>4. ~IsEmpty(h1, h2) => \A b : OwedFor(t, d, p + 1, "scan", b, O)
  BY <1>1 DEF OwedFor
<1> QED
  BY <1>3, <1>4

\* The words a search has copied.
LEMMA CopiedIs ==
  ASSUME NEW v \in Threads
  PROVE  /\ Copied1(v) = Word1(copy[v], CheckIdx(dp[v]), Slot(dp[v], probe[v]))
         /\ Copied2(v) = Word2(copy[v], CheckIdx(dp[v]), Slot(dp[v], probe[v]))
BY DEF Copied1, Copied2, Word1, Word2

\* OwedOf(v)' from the values of the next state.
LEMMA OwedOfNext ==
  ASSUME NEW v \in Threads, NEW t, NEW d, NEW p, NEW l, NEW c, NEW O,
         OwedFor(t, d, p, l, c, O)', t = CheckIdx(d), dp'[v] = d, probe'[v] = p, pc'[v] = l,
         l = "copy" => copy'[v] = c, owed'[v] = O
  PROVE  OwedOf(v)'
BY DEF OwedOf, OwedFor, Chain, Holds, NotComing, InBuffer, Copied1, Copied2, Word1, Word2,
   CheckIdx, StoreIdx, Slot

LEMMA CircularNever ==
  ASSUME NoRotation, OwedInv, [Next]_vars
  PROVE  circular' = circular
<1>1. ASSUME NEW w \in Threads, Step(w) PROVE circular' = circular
  BY <1>1 DEF Step, AddTame, CheckWild, Search, BeginCopy, ScanEmpty, ScanReport,
     ScanDuplicate, ScanNext, AddToTable, Lock, ProbeEmpty, ProbeDuplicate, ProbeNext,
     Freeze, ActivateRotation, SaveDiscarded, PackPart1, PackPart2, Count, CheckWWBuffer,
     WWBegin, WWReport, WWMiss, WWStore, storeOnly, flags
<1> QED
  BY <1>1 DEF Next, ClearCollision, vars, storeOnly, flags

\* One step of a search.
LEMMA OwedSearch ==
  ASSUME NoRotation, TypeOK, OwedInv, [Next]_vars, NEW v \in Threads, Search(v)
  PROVE  /\ pc'[v] \in {"scan", "copy", "store", "ww"} => OwedOf(v)'
         /\ pc'[v] = "idle" => owed'[v] = {}
<1>1. pc[v] \in {"scan", "copy"}
  BY DEF Search, BeginCopy, ScanEmpty, ScanReport, ScanDuplicate, ScanNext, Scanning, EndCopy
<1>2. /\ dp[v] \in Points /\ probe[v] \in Nat /\ owed[v] \in SUBSET (Nat \X Points)
      /\ copy[v] \in Copies
  BY <1>1 DEF TypeOK, Copies
<1>3. PICK d \in Points, t \in TableIds, p \in Nat, O \in SUBSET (Nat \X Points), c \in Copies :
        d = dp[v] /\ t = CheckIdx(d) /\ p = probe[v] /\ O = owed[v] /\ c = copy[v]
  BY <1>2, IdxType
<1>4. /\ OwedFor(t, d, p, pc[v], c, O) /\ limit[v] = MaxProbe /\ MaxProbe \in Nat
      /\ Copied1(v) = Word1(c, t, Slot(d, p)) /\ Copied2(v) = Word2(c, t, Slot(d, p))
  BY <1>1, <1>3, StoreAssumption, CopiedIs DEF OwedInv, OwedOf, OwedFor
<1>5. ASSUME Finish(v) PROVE pc'[v] = "idle" /\ owed'[v] = {}
  BY <1>5 DEF Finish, Goto, TypeOK
<1>6. ASSUME NEW P \in SUBSET (Nat \X Points), AfterScan(v, P), ~Finish(v)
      PROVE  /\ dp'[v] = d /\ probe'[v] = 0 /\ owed'[v] = P
             /\ pc'[v] \in {"store", "ww"}
  BY <1>3, <1>6 DEF AfterScan, Goto, TypeOK
<1>7. ASSUME AfterScan(v, O), \A m \in {"store", "ww"} : \A b : OwedFor(t, d, 0, m, b, O)
      PROVE  /\ pc'[v] \in {"scan", "copy", "store", "ww"} => OwedOf(v)'
             /\ pc'[v] = "idle" => owed'[v] = {}
  <2>1. CASE Finish(v)
    BY <1>5, <2>1
  <2>2. CASE ~Finish(v)
    <3>1. PICK l \in {"store", "ww"} : l = pc'[v]
      BY <1>6, <1>7, <2>2
    <3>2. OwedFor(t, d, 0, l, c, O)'
      BY <1>7, OwedForStable
    <3> QED
      BY <1>3, <1>6, <1>7, <2>2, <3>1, <3>2, OwedOfNext
  <2> QED
    BY <2>1, <2>2
<1>8. CASE BeginCopy(v)
  <2>1. /\ pc[v] = "scan" /\ pc'[v] = "copy" /\ dp' = dp /\ probe' = probe /\ owed' = owed
        /\ \E b \in {[word |-> 1, half |-> part1[t][Slot(d, p)]],
                     [word |-> 2, half |-> part2[t][Slot(d, p)]]} :
             copy' = [copy EXCEPT ![v] = b]
    BY <1>3, <1>8 DEF BeginCopy, Scanning, Goto, TypeOK
  <2>2. PICK b \in {[word |-> 1, half |-> part1[t][Slot(d, p)]],
                    [word |-> 2, half |-> part2[t][Slot(d, p)]]} :
          copy' = [copy EXCEPT ![v] = b]
    BY <2>1
  <2>3. copy'[v] = b /\ b \in Copies
    BY <2>2, SlotType DEF TypeOK, Copies
  <2>4. OwedFor(t, d, p, "copy", b, O)
    BY <1>4, <2>1, OwedCopies
  <2>5. OwedFor(t, d, p, "copy", b, O)'
    BY <2>3, <2>4, OwedForStable
  <2> QED
    BY <1>3, <2>1, <2>3, <2>5, OwedOfNext
<1>9. CASE ScanReport(v)
  BY <1>5, <1>9 DEF ScanReport
<1>10. CASE ScanDuplicate(v)
  <2>1. AfterScan(v, {})
    BY <1>10 DEF ScanDuplicate
  <2>2. CASE Finish(v)
    BY <1>5, <2>2
  <2>3. CASE ~Finish(v)
    <3>1. owed'[v] = {} /\ pc'[v] \in {"store", "ww"}
      BY <1>6, <2>1, <2>3
    <3> QED
      BY <3>1 DEF OwedOf
  <2> QED
    BY <2>2, <2>3
<1>11. CASE ScanEmpty(v)
  <2>1. AfterScan(v, O) /\ pc[v] = "copy" /\ IsEmpty(Copied1(v), Copied2(v))
    BY <1>3, <1>11 DEF ScanEmpty, EndCopy
  <2>2. \A m \in {"store", "ww"} : \A b : OwedFor(t, d, 0, m, b, O)
    BY <1>4, <2>1, OwedMoves
  <2> QED
    BY <1>7, <2>1, <2>2
<1>12. CASE ScanNext(v)
  <2>1. /\ pc[v] = "copy" /\ ~IsEmpty(Copied1(v), Copied2(v)) /\ ~XSigMatch(Copied2(v), d)
        /\ \/ /\ p + 1 < MaxProbe
              /\ probe' = [probe EXCEPT ![v] = p + 1] /\ Goto(v, "scan")
              /\ UNCHANGED <<dp, limit, owed>>
           \/ p + 1 >= MaxProbe /\ AfterScan(v, O)
    BY <1>3, <1>4, <1>12 DEF ScanNext, EndCopy, NextProbe
  <2>2. /\ p + 1 >= MaxProbe => \A m \in {"store", "ww"} : \A b : OwedFor(t, d, 0, m, b, O)
        /\ OwedFor(t, d, p + 1, "scan", c, O)
    BY <1>4, <2>1, OwedMoves
  <2>3. CASE /\ p + 1 < MaxProbe
             /\ probe' = [probe EXCEPT ![v] = p + 1] /\ Goto(v, "scan")
             /\ UNCHANGED <<dp, limit, owed>>
    <3>1. OwedFor(t, d, p + 1, "scan", c, O)'
      BY <2>2, OwedForStable
    <3>2. dp'[v] = d /\ probe'[v] = p + 1 /\ pc'[v] = "scan" /\ owed'[v] = O
      BY <1>3, <2>3 DEF Goto, TypeOK
    <3> QED
      BY <1>3, <3>1, <3>2, OwedOfNext
  <2>4. CASE p + 1 >= MaxProbe /\ AfterScan(v, O)
    BY <1>7, <2>2, <2>4
  <2> QED
    BY <2>1, <2>3, <2>4
<1> QED
  BY <1>8, <1>9, <1>10, <1>11, <1>12 DEF Search

LEMMA OwedOwn ==
  ASSUME NoRotation, TypeOK, ChainInv, NoHoles, SettledInv, OwedInv, [Next]_vars,
         NEW v \in Threads, Step(v)
  PROVE  /\ pc'[v] \in {"scan", "copy"} => limit'[v] = MaxProbe
         /\ pc'[v] = "idle" => owed'[v] = {}
         /\ pc'[v] \in {"scan", "copy", "store", "ww"} => OwedOf(v)'
<1>1. CASE AddTame(v)
  <2>1. pc'[v] = "store" /\ owed'[v] = {}
    BY <1>1 DEF AddTame, Goto, TypeOK, OwedInv
  <2> QED
    BY <2>1 DEF OwedOf
<1>2. CASE CheckWild(v)
  <2>1. PICK d \in todo : /\ dp' = [dp EXCEPT ![v] = d]
                         /\ limit' = [limit EXCEPT ![v] = SearchLimit(CheckIdx(d))]
                         /\ owed' = [owed EXCEPT ![v] = Owed(d)]
    BY <1>2 DEF CheckWild
  <2>2. PICK t \in TableIds, O \in SUBSET (Nat \X Points) :
          t = CheckIdx(d) /\ O = Owed(d) /\ d \in Points
    <3>1. d \in Points
      BY DEF TypeOK
    <3>2. Owed(d) \subseteq Slots \X Points
      BY DEF Owed
    <3>3. Owed(d) \in SUBSET (Nat \X Points)
      BY <3>2 DEF Slots
    <3> QED
      BY <3>1, <3>3, IdxType
  <2>3. pc'[v] = "scan" /\ probe'[v] = 0 /\ dp'[v] = d /\ owed'[v] = O
        /\ limit'[v] = SearchLimit(t)
    BY <1>2, <2>1, <2>2 DEF CheckWild, Goto, TypeOK, ChainInv, ChainOf
  <2>4. limit'[v] = MaxProbe
    BY <2>2, <2>3 DEF SearchLimit, OwedInv
  <2>5. OwedFor(t, d, 0, "scan", NoCopy, O)
    BY <2>2, OwedBegins
  <2>6. OwedFor(t, d, 0, "scan", NoCopy, O)'
    <3>1. NoCopy \in Copies
      BY DEF NoCopy, Copies, Half
    <3> QED
      BY <2>2, <2>5, <3>1, OwedForStable
  <2> QED
    BY <2>2, <2>3, <2>4, <2>6, OwedOfNext
<1>3. CASE Search(v)
  <2>1. pc[v] \in {"scan", "copy"} /\ limit[v] = MaxProbe
    BY <1>3 DEF Search, BeginCopy, ScanEmpty, ScanReport, ScanDuplicate, ScanNext, Scanning,
       EndCopy, OwedInv
  <2>2. pc'[v] \in {"scan", "copy"} => limit'[v] = limit[v]
    BY <1>3 DEF Search, BeginCopy, ScanEmpty, ScanReport, ScanDuplicate, ScanNext, AfterScan,
       Finish,
       Goto, TypeOK
  <2> QED
    BY <1>3, <2>1, <2>2, OwedSearch
<1>4. CASE AddToTable(v) \/ CheckWWBuffer(v)
  <2>1. pc'[v] \notin {"scan", "copy", "store", "ww"}
    BY <1>4 DEF AddToTable, Lock, ProbeEmpty, ProbeDuplicate, ProbeNext,
       Freeze, ActivateRotation, SaveDiscarded, PackPart1, PackPart2, Count, CheckWWBuffer,
       WWBegin, WWReport, WWMiss, WWStore, Finish, Goto, TypeOK
  <2>2. pc'[v] = "idle" => owed'[v] = {}
    BY <1>4 DEF AddToTable, Lock, ProbeEmpty, ProbeDuplicate, ProbeNext,
       Freeze, ActivateRotation, SaveDiscarded, PackPart1, PackPart2, Count, CheckWWBuffer,
       WWBegin, WWReport, WWMiss, WWStore, Finish, Goto, TypeOK
  <2> QED
    BY <2>1, <2>2
<1> QED
  BY <1>1, <1>2, <1>3, <1>4 DEF Step

LEMMA OwedStep ==
  ASSUME NoRotation
  PROVE  TypeOK /\ ChainInv /\ NoHoles /\ SettledInv /\ OwedInv /\ [Next]_vars => OwedInv'
<1> SUFFICES ASSUME TypeOK, ChainInv, NoHoles, SettledInv, OwedInv, [Next]_vars,
                    NEW v \in Threads
             PROVE  /\ pc'[v] \in {"scan", "copy"} => limit'[v] = MaxProbe
                    /\ pc'[v] = "idle" => owed'[v] = {}
                    /\ pc'[v] \in {"scan", "copy", "store", "ww"} => OwedOf(v)'
  BY CircularNever DEF OwedInv
<1>1. CASE Step(v)
  BY <1>1, OwedOwn
<1>2. ASSUME pc'[v] = pc[v], dp'[v] = dp[v], probe'[v] = probe[v], owed'[v] = owed[v],
             limit'[v] = limit[v], copy'[v] = copy[v]
      PROVE  /\ pc'[v] \in {"scan", "copy"} => limit'[v] = MaxProbe
             /\ pc'[v] = "idle" => owed'[v] = {}
             /\ pc'[v] \in {"scan", "copy", "store", "ww"} => OwedOf(v)'
  <2>1. ASSUME pc[v] \in {"scan", "copy", "store", "ww"} PROVE OwedOf(v)'
    <3>1. dp[v] \in Points /\ probe[v] \in Nat /\ owed[v] \in SUBSET (Nat \X Points)
          /\ copy[v] \in Copies
      BY <2>1 DEF TypeOK, Copies
    <3>2. PICK d \in Points, t \in TableIds, p \in Nat, O \in SUBSET (Nat \X Points),
               l \in {"scan", "copy", "store", "ww"}, c \in Copies :
            /\ d = dp[v] /\ t = CheckIdx(d) /\ p = probe[v] /\ O = owed[v] /\ l = pc[v]
            /\ c = copy[v]
      BY <2>1, <3>1, IdxType
    <3>3. OwedFor(t, d, p, l, c, O)
      BY <2>1, <3>2, NoRotation, CopiedIs DEF OwedInv, OwedOf, OwedFor
    <3>4. OwedFor(t, d, p, l, c, O)'
      BY <3>3, OwedForStable
    <3> QED
      BY <1>2, <3>2, <3>4, OwedOfNext
  <2> QED
    BY <1>2, <2>1 DEF OwedInv
<1>3. ASSUME NEW w \in Threads, w # v, Step(w)
      PROVE  /\ pc'[v] \in {"scan", "copy"} => limit'[v] = MaxProbe
             /\ pc'[v] = "idle" => owed'[v] = {}
             /\ pc'[v] \in {"scan", "copy", "store", "ww"} => OwedOf(v)'
  BY <1>2, <1>3, OthersKeep
<1>4. CASE ClearCollision \/ UNCHANGED vars
  BY <1>2, <1>4 DEF ClearCollision, vars
<1> QED
  BY <1>1, <1>3, <1>4 DEF Next

\* With rotation off, a search that ends without a report has not passed over
\* a colliding entry that was in the table when it began: for every number of
\* threads storing and searching at once, whatever slots they meet in.
THEOREM NoMissedEntryCorrect ==
  ASSUME NoRotation
  PROVE  Spec => []NoMissedEntry
<1> DEFINE IInv == TypeOK /\ ChainInv /\ NoHoles /\ SettledInv /\ OwedInv
<1>1. Init => IInv
  BY InitType DEF Init, ChainInv, ChainOf, NoHoles, SettledInv, OwedInv
<1>2. IInv /\ [Next]_vars => IInv'
  BY NextType, ChainInvStep, NoHolesStep, SettledStep, OwedStep
<1>3. IInv => NoMissedEntry
  BY NoRotation DEF OwedInv, OwedOf, NoMissedEntry
<1> QED
  BY <1>1, <1>2, <1>3, PTL DEF Spec

-----------------------------------------------------------------------------
\* The W-W buffer.

\* The calls that had e in their hands are over, and no other will come.
Over(e) == e \notin todo /\ \A v \in Threads : pc[v] # "idle" => dp[v] # e

WWSettled == \A s \in WWSlots : ww[s] # Zero => Over(ww[s])

\* What a search of the buffer owes lies in the slot it reads first: once it
\* has gone on, that slot holds something else.
WWDebt(w) ==
  /\ pc[w] = "ww" => probe[w] = 0
  /\ pc[w] \in {"wwscan", "wwstore"} =>
       \A o \in owed[w] :
         /\ o[1] = WWSlot(dp[w], 0) /\ o[2] # Zero
         /\ Collides(o[2], o[2], dp[w]) /\ o[2].type # dp[w].type
         /\ Over(o[2])
         /\ ww[o[1]] = o[2] => pc[w] = "wwscan" /\ probe[w] = 0

WWInv == WWSettled /\ \A w \in Threads : WWDebt(w)

\* A DP whose call is over never comes back.
LEMMA OverStable ==
  ASSUME TypeOK, [Next]_vars, NEW e, e # Zero, Over(e)
  PROVE  Over(e)'
<1>1. ASSUME NEW w \in Threads, Step(w)
      PROVE  Over(e)'
  <2>1. \A v \in Threads : v # w => pc'[v] = pc[v] /\ dp'[v] = dp[v]
    BY <1>1, OthersKeep
  <2>2. todo' \subseteq todo
    BY <1>1, OwnSteps
  <2>3. pc'[w] # "idle" => dp'[w] # e
    BY <1>1, OwnSteps DEF Over
  <2>4. e \notin todo'
    BY <2>2 DEF Over
  <2>5. \A v \in Threads : pc'[v] # "idle" => dp'[v] # e
    BY <2>1, <2>3 DEF Over
  <2> QED
    BY <2>4, <2>5 DEF Over
<1>2. CASE ClearCollision \/ UNCHANGED vars
  BY <1>2 DEF ClearCollision, vars, Over
<1> QED
  BY <1>1, <1>2 DEF Next

\* Only WWStore writes to the buffer.
LEMMA OnlyWWStore ==
  ASSUME NEW w \in Threads, Step(w), ~WWStore(w)
  PROVE  ww' = ww
BY DEF Step, AddTame, CheckWild, Search, BeginCopy, ScanEmpty, ScanReport, ScanDuplicate, ScanNext,
   AddToTable, Lock, ProbeEmpty, ProbeDuplicate, ProbeNext, Freeze, ActivateRotation,
   SaveDiscarded, PackPart1, PackPart2, Count, CheckWWBuffer, WWBegin, WWReport, WWMiss,
   storeOnly

LEMMA WWSettledStep ==
  ASSUME TypeOK, SettledInv, WWSettled, [Next]_vars
  PROVE  WWSettled'
<1> SUFFICES ASSUME NEW s \in WWSlots, NEW e, e # Zero, ww'[s] = e
             PROVE  Over(e)'
  BY DEF WWSettled, Over
<1>1. CASE ww[s] = e
  BY <1>1, OverStable DEF WWSettled
<1>2. ASSUME NEW w \in Threads, WWStore(w), ww[s] # e
      PROVE  Over(e)'
  <2>1. pc[w] = "wwstore" /\ dp[w] = e /\ todo' = todo /\ pc'[w] = "idle"
    BY <1>2 DEF WWStore, Finish, Goto, TypeOK
  <2>2. \A v \in Threads : v # w => pc'[v] = pc[v] /\ dp'[v] = dp[v]
    BY <1>2, OthersKeep DEF Step, CheckWWBuffer
  <2>3. dp[w] \notin todo /\ \A v \in Threads : v # w /\ pc[v] # "idle" => dp[v] # dp[w]
    BY <2>1 DEF SettledInv
  <2> QED
    BY <2>1, <2>2, <2>3 DEF Over
<1>3. CASE ClearCollision \/ UNCHANGED vars
  BY <1>1, <1>3 DEF ClearCollision, vars, storeOnly
<1> QED
  BY <1>1, <1>2, <1>3, OnlyWWStore DEF Next

\* A search that finds what it owes in its first slot reports it.
LEMMA WWMissPasses ==
  ASSUME TypeOK, NEW w \in Threads, WWDebt(w), WWMiss(w), NEW o \in owed[w]
  PROVE  ww[o[1]] # o[2]
<1>1. pc[w] = "wwscan"
  BY DEF WWMiss
<1>2. /\ o[1] = WWSlot(dp[w], 0) /\ o[2] # Zero
      /\ Collides(o[2], o[2], dp[w]) /\ o[2].type # dp[w].type
      /\ ww[o[1]] = o[2] => probe[w] = 0
  BY <1>1 DEF WWDebt
<1>3. SUFFICES ASSUME ww[o[1]] = o[2] PROVE FALSE
  OBVIOUS
<1>4. WWHere(w) = o[2]
  BY <1>2, <1>3 DEF WWHere
<1>5. CrossType(o[2], dp[w])
  BY <1>2 DEF CrossType, TypeOf
<1>6. XSigMatch(o[2], dp[w])
  BY <1>2 DEF Collides, Matches
<1> QED
  BY <1>2, <1>4, <1>5, <1>6 DEF WWMiss

LEMMA WWDebtOwn ==
  ASSUME TypeOK, WWInv, [Next]_vars, NEW w \in Threads, Step(w)
  PROVE  WWDebt(w)'
<1>1. CASE Search(w)
  <2>1. pc'[w] \notin {"wwscan", "wwstore"} /\ (pc'[w] = "ww" => probe'[w] = 0)
    BY <1>1 DEF Search, BeginCopy, ScanEmpty, ScanReport, ScanDuplicate, ScanNext, Scanning,
       EndCopy,
       AfterScan, Finish, Goto, TypeOK
  <2> QED
    BY <2>1 DEF WWDebt
<1>2. CASE AddTame(w) \/ CheckWild(w) \/ AddToTable(w) \/ WWReport(w) \/ WWStore(w)
  <2>1. pc'[w] \notin {"ww", "wwscan", "wwstore"}
    BY <1>2 DEF AddTame, CheckWild, AddToTable, Lock, ProbeEmpty, ProbeDuplicate, ProbeNext,
       Freeze, ActivateRotation, SaveDiscarded, PackPart1, PackPart2, Count, WWReport,
       WWStore, Finish, Goto, TypeOK
  <2> QED
    BY <2>1 DEF WWDebt
<1>3. CASE WWBegin(w)
  <2>1. /\ pc[w] = "ww" /\ pc'[w] = "wwscan" /\ owed'[w] = OwedWW(dp[w])
        /\ UNCHANGED <<dp, ww, probe, todo>>
    BY <1>3 DEF WWBegin, Goto, TypeOK, storeOnly
  <2>2. dp[w] \in Points /\ WWSize > 0 /\ probe[w] = 0
    BY <2>1 DEF TypeOK, InBuffer, WWInv, WWDebt
  <2>3. WWSlot(dp[w], 0) \in WWSlots
    BY <2>2, WWSlotType
  <2>4. ASSUME NEW o \in OwedWW(dp[w])
        PROVE  /\ o[1] = WWSlot(dp[w], 0) /\ o[2] # Zero
               /\ Collides(o[2], o[2], dp[w]) /\ o[2].type # dp[w].type
               /\ Over(o[2])'
    <3>1. /\ o[1] = WWSlot(dp[w], 0) /\ o[2] = ww[WWSlot(dp[w], 0)] /\ o[2] # Zero
          /\ Collides(o[2], o[2], dp[w]) /\ o[2].type # dp[w].type
      BY DEF OwedWW
    <3>2. Over(o[2])
      BY <2>3, <3>1 DEF WWInv, WWSettled
    <3> QED
      BY <3>1, <3>2, OverStable
  <2> QED
    BY <2>1, <2>2, <2>4 DEF WWDebt, Over, Collides, Matches, XSigMatch, SameDist, IsEmpty,
       SigOf, LoOf, HiOf
<1>4. CASE WWMiss(w)
  <2>1. /\ pc[w] = "wwscan" /\ pc'[w] \in {"wwscan", "wwstore"}
        /\ UNCHANGED <<dp, ww, owed, todo>>
    BY <1>4 DEF WWMiss, Goto, TypeOK, storeOnly
  <2>2. ASSUME NEW o \in owed[w]
        PROVE  /\ o[1] = WWSlot(dp[w], 0) /\ o[2] # Zero
               /\ Collides(o[2], o[2], dp[w]) /\ o[2].type # dp[w].type
               /\ Over(o[2])' /\ ww[o[1]] # o[2]
    <3>1. /\ o[1] = WWSlot(dp[w], 0) /\ o[2] # Zero
          /\ Collides(o[2], o[2], dp[w]) /\ o[2].type # dp[w].type
          /\ Over(o[2])
      BY <2>1 DEF WWInv, WWDebt
    <3> QED
      BY <1>4, <3>1, OverStable, WWMissPasses DEF WWInv
  <2> QED
    BY <2>1, <2>2 DEF WWDebt, Over, Collides, Matches, XSigMatch, SameDist, IsEmpty,
       SigOf, LoOf, HiOf
<1> QED
  BY <1>1, <1>2, <1>3, <1>4 DEF Step, CheckWWBuffer

LEMMA WWDebtOther ==
  ASSUME TypeOK, WWInv, [Next]_vars, NEW v \in Threads, NEW w \in Threads, w # v, Step(w)
  PROVE  WWDebt(v)'
<1>1. /\ pc'[v] = pc[v] /\ dp'[v] = dp[v] /\ probe'[v] = probe[v] /\ owed'[v] = owed[v]
  BY OthersKeep
<1>2. WWDebt(v)
  BY DEF WWInv
<1>3. ASSUME pc[v] \in {"wwscan", "wwstore"}, NEW o \in owed[v]
      PROVE  /\ o[1] = WWSlot(dp[v], 0) /\ o[2] # Zero
             /\ Collides(o[2], o[2], dp[v]) /\ o[2].type # dp[v].type
             /\ Over(o[2])'
             /\ ww'[o[1]] = o[2] => pc[v] = "wwscan" /\ probe[v] = 0
  <2>1. /\ o[1] = WWSlot(dp[v], 0) /\ o[2] # Zero
        /\ Collides(o[2], o[2], dp[v]) /\ o[2].type # dp[v].type
        /\ Over(o[2])
        /\ ww[o[1]] = o[2] => pc[v] = "wwscan" /\ probe[v] = 0
    BY <1>2, <1>3 DEF WWDebt
  <2>2. Over(o[2])'
    BY <2>1, OverStable
  <2>3. ww'[o[1]] = ww[o[1]] \/ ww'[o[1]] # o[2]
    <3>1. CASE WWStore(w)
      <4>1. pc[w] # "idle" /\ ww' = [ww EXCEPT ![WWSlot(dp[w], 0)] = dp[w]]
        BY <3>1 DEF WWStore
      <4>2. dp[w] # o[2]
        BY <2>1, <4>1 DEF Over
      <4>3. dp[v] \in Points /\ WWSize > 0
        BY <1>3 DEF TypeOK, InBuffer
      <4>4. o[1] \in WWSlots
        BY <2>1, <4>3, WWSlotType
      <4> QED
        BY <4>1, <4>2, <4>4 DEF TypeOK
    <3>2. CASE ~WWStore(w)
      BY <3>2, OnlyWWStore
    <3> QED
      BY <3>1, <3>2
  <2> QED
    BY <2>1, <2>2, <2>3
<1> QED
  BY <1>1, <1>2, <1>3 DEF WWDebt, Over, Collides, Matches, XSigMatch, SameDist, IsEmpty,
     SigOf, LoOf, HiOf

LEMMA WWStep == TypeOK /\ SettledInv /\ WWInv /\ [Next]_vars => WWInv'
<1> SUFFICES ASSUME TypeOK, SettledInv, WWInv, [Next]_vars PROVE WWInv'
  OBVIOUS
<1>1. WWSettled'
  BY WWSettledStep DEF WWInv
<1>2. ASSUME NEW v \in Threads
      PROVE  WWDebt(v)'
  <2>1. CASE ClearCollision \/ UNCHANGED vars
    BY <2>1 DEF ClearCollision, vars, storeOnly, WWInv, WWDebt, Over, Collides, Matches,
       XSigMatch, SameDist, IsEmpty, SigOf, LoOf, HiOf
  <2>2. ASSUME NEW w \in Threads, Step(w)
        PROVE  WWDebt(v)'
    BY <2>2, WWDebtOwn, WWDebtOther
  <2> QED
    BY <2>1, <2>2 DEF Next
<1> QED
  BY <1>1, <1>2 DEF WWInv

\* A WILD is stored in the W-W buffer only after the entry it collided with
\* when its search began is gone, for every number of threads that store into
\* the same slot meanwhile.
THEOREM NoMissedWWCorrect == Spec => []NoMissedWW
<1>1. Init => TypeOK /\ SettledInv /\ WWInv
  BY InitType DEF Init, SettledInv, WWInv, WWSettled, WWDebt
<1>2. TypeOK /\ SettledInv /\ WWInv /\ [Next]_vars => (TypeOK /\ SettledInv /\ WWInv)'
  BY NextType, SettledStep, WWStep
<1>3. WWInv => NoMissedWW
  BY DEF WWInv, WWDebt, NoMissedWW
<1> QED
  BY <1>1, <1>2, <1>3, PTL DEF Spec

-----------------------------------------------------------------------------
\* Entries put together of two DPs' halves.

ShardOf(e) == GetShard(Home(e))

\* What a thread storing d may find in the slot it writes.
Foreign(h, d) == h \in {Zero, d} \/ ShardOf(h) # ShardOf(d)

\* A thread on its way through the two stores of PackWild holds its home
\* shard, and its slot was empty, or at home, when it came: other halves that
\* are in the slot since were written under other shards' locks.
Writer(w) ==
  LET t == StoreIdx(dp[w])
      s == Here(w)
  IN /\ pc[w] \in {"pack", "pack2", "rot2"} => Foreign(part1[t][s], dp[w])
     /\ pc[w] \in {"pack", "pack2"} => Foreign(part2[t][s], dp[w])
     /\ pc[w] \in {"pack2", "rot2"} => part1[t][s] # Zero

\* Two halves of one shard only differ while their slot is being overwritten
\* at home, and a half is missing only while a thread is about to write it.
SlotMix(t, s) ==
  LET e == part1[t][s]
      f == part2[t][s]
  IN /\ f # Zero => e # Zero
     /\ f = Zero /\ e # Zero =>
          \E w \in Threads : /\ pc[w] \in {"pack2", "rot2"} /\ dp[w] = e
                             /\ StoreIdx(dp[w]) = t /\ Here(w) = s
     /\ Zero \notin {e, f} /\ e # f /\ ShardOf(e) = ShardOf(f) =>
          \E w \in Threads : pc[w] = "rot2" /\ StoreIdx(dp[w]) = t /\ Home(dp[w]) = s

MixInv ==
  /\ \A w \in Threads : Writer(w)
  /\ \A t \in TableIds, s \in Slots : SlotMix(t, s)

\* A copy begins with BeginCopy.
LEMMA OnlyBeginCopy ==
  ASSUME TypeOK, NEW w \in Threads, Step(w), pc'[w] = "copy"
  PROVE  BeginCopy(w)
<1> USE DEF TypeOK, Goto, Finish
<1>1. CASE AddTame(w) \/ CheckWild(w)
  BY <1>1 DEF AddTame, CheckWild
<1>2. CASE Search(w)
  BY <1>2 DEF Search, ScanEmpty, ScanReport, ScanDuplicate, ScanNext, EndCopy, AfterScan
<1>3. CASE AddToTable(w)
  BY <1>3 DEF AddToTable, Lock, ProbeEmpty, ProbeDuplicate, ProbeNext, Freeze,
     ActivateRotation, SaveDiscarded, PackPart1, PackPart2, Count
<1>4. CASE CheckWWBuffer(w)
  BY <1>4 DEF CheckWWBuffer, WWBegin, WWReport, WWMiss, WWStore
<1> QED
  BY <1>1, <1>2, <1>3, <1>4 DEF Step

\* The steps of a thread between its look at the slot and its second store.
LEMMA WriterMoves ==
  ASSUME TypeOK, NEW w \in Threads, Step(w)
  PROVE  /\ pc'[w] = "pack" => ProbeEmpty(w)
         /\ pc'[w] \in {"pack2", "rot2"} => PackPart1(w)
         /\ pc[w] \in {"pack2", "rot2"} => PackPart2(w)
         /\ ~PackPart1(w) /\ ~PackPart2(w) => part1' = part1 /\ part2' = part2
<1> USE DEF TypeOK, Goto, Finish
<1>1. CASE AddTame(w) \/ CheckWild(w)
  BY <1>1 DEF AddTame, CheckWild, storeOnly, tables
<1>2. CASE Search(w)
  BY <1>2 DEF Search, BeginCopy, ScanEmpty, ScanReport, ScanDuplicate, ScanNext, Scanning,
     EndCopy, AfterScan,
     storeOnly, tables
<1>3. CASE AddToTable(w)
  BY <1>3 DEF AddToTable, Lock, ProbeEmpty, ProbeDuplicate, ProbeNext, Freeze,
     ActivateRotation, SaveDiscarded, PackPart1, PackPart2, Count, storeOnly, tables
<1>4. CASE CheckWWBuffer(w)
  BY <1>4 DEF CheckWWBuffer, WWBegin, WWReport, WWMiss, WWStore, storeOnly, tables
<1> QED
  BY <1>1, <1>2, <1>3, <1>4 DEF Step

\* Where a writing thread is.
LEMMA WriterAt ==
  ASSUME TypeOK, ChainInv, NEW w \in Threads, pc[w] \in HoldsHome
  PROVE  /\ dp[w] \in Points /\ StoreIdx(dp[w]) \in TableIds /\ Here(w) \in Slots
         /\ pc[w] \in {"rot", "rot2"} => Here(w) = Home(dp[w])
<1>1. dp[w] \in Points /\ probe[w] \in Nat
  BY StoreAssumption DEF TypeOK, HoldsHome, ProbeMax
<1>2. pc[w] \in {"rot", "rot2"} => probe[w] = 0
  BY DEF ChainInv, ChainOf
<1> QED
  BY <1>1, <1>2, IdxType, SlotType DEF Here, Home

\* What a step does to one slot.
LEMMA SlotStep ==
  ASSUME TypeOK, ChainInv, NEW w \in Threads, Step(w), NEW t \in TableIds, NEW s \in Slots
  PROVE  \/ part1'[t][s] = part1[t][s] /\ part2'[t][s] = part2[t][s]
         \/ /\ PackPart1(w) /\ t = StoreIdx(dp[w]) /\ s = Here(w)
            /\ part1'[t][s] = dp[w] /\ part2'[t][s] = part2[t][s]
         \/ /\ PackPart2(w) /\ t = StoreIdx(dp[w]) /\ s = Here(w)
            /\ part1'[t][s] = part1[t][s] /\ part2'[t][s] = dp[w]
<1>1. CASE PackPart1(w)
  <2>1. /\ part1' = [part1 EXCEPT ![StoreIdx(dp[w])][Here(w)] = dp[w]] /\ part2' = part2
        /\ pc[w] \in HoldsHome
    BY <1>1 DEF PackPart1, HoldsHome
  <2>2. StoreIdx(dp[w]) \in TableIds /\ Here(w) \in Slots
    BY <2>1, WriterAt
  <2> QED
    BY <1>1, <2>1, <2>2 DEF TypeOK
<1>2. CASE PackPart2(w)
  <2>1. /\ part2' = [part2 EXCEPT ![StoreIdx(dp[w])][Here(w)] = dp[w]] /\ part1' = part1
        /\ pc[w] \in HoldsHome
    BY <1>2 DEF PackPart2, HoldsHome
  <2>2. StoreIdx(dp[w]) \in TableIds /\ Here(w) \in Slots
    BY <2>1, WriterAt
  <2> QED
    BY <1>2, <2>1, <2>2 DEF TypeOK
<1> QED
  BY <1>1, <1>2, WriterMoves

LEMMA WriterOther ==
  ASSUME TypeOK, ChainInv, LockInv, MixInv,
         NEW v \in Threads, NEW w \in Threads, v # w, Step(w)
  PROVE  Writer(v)'
<1> SUFFICES ASSUME pc'[v] \in {"pack", "pack2", "rot2"} PROVE Writer(v)'
  BY DEF Writer
<1>1. pc'[v] = pc[v] /\ dp'[v] = dp[v] /\ probe'[v] = probe[v]
  BY OthersKeep
<1>2. PICK d \in Points, t \in TableIds, s \in Slots :
        d = dp[v] /\ t = StoreIdx(dp[v]) /\ s = Here(v)
  BY <1>1, WriterAt DEF HoldsHome
<1>3. d = dp'[v] /\ t = StoreIdx(dp'[v]) /\ s = Here(v)'
  BY <1>1, <1>2 DEF Here
<1>4. /\ Foreign(part1[t][s], d)
      /\ pc[v] \in {"pack", "pack2"} => Foreign(part2[t][s], d)
      /\ pc[v] \in {"pack2", "rot2"} => part1[t][s] # Zero
  BY <1>1, <1>2 DEF MixInv, Writer
<1>5. ASSUME PackPart1(w) \/ PackPart2(w), t = StoreIdx(dp[w])
      PROVE  dp[w] # Zero /\ Foreign(dp[w], d)
  <2>1. pc[w] \in HoldsHome /\ pc[v] \in HoldsHome
    BY <1>1, <1>5 DEF PackPart1, PackPart2, HoldsHome
  <2>2. GetShard(Home(dp[v])) # GetShard(Home(dp[w]))
    BY <1>2, <1>5, <2>1, HomesApart DEF HomeExclusion
  <2> QED
    BY <1>2, <2>1, <2>2, StoreAssumption DEF Foreign, ShardOf, TypeOK, HoldsHome
<1>6. /\ Foreign(part1'[t][s], d)
      /\ pc[v] \in {"pack", "pack2"} => Foreign(part2'[t][s], d)
      /\ pc[v] \in {"pack2", "rot2"} => part1'[t][s] # Zero
  BY <1>4, <1>5, SlotStep
<1> QED
  BY <1>1, <1>3, <1>6 DEF Writer, Foreign, ShardOf, Home, Slot

LEMMA WriterOwn ==
  ASSUME TypeOK, ChainInv, MixInv, NEW w \in Threads, Step(w)
  PROVE  Writer(w)'
<1>1. CASE PackPart1(w)
  <2>1. pc[w] \in {"pack", "rot"} /\ pc[w] \in HoldsHome
        /\ pc'[w] = (IF pc[w] = "pack" THEN "pack2" ELSE "rot2")
        /\ dp' = dp /\ probe' = probe /\ part2' = part2
        /\ part1' = [part1 EXCEPT ![StoreIdx(dp[w])][Here(w)] = dp[w]]
    BY <1>1 DEF PackPart1, HoldsHome, Goto, TypeOK
  <2>2. PICK d \in Points, t \in TableIds, s \in Slots :
          d = dp[w] /\ t = StoreIdx(dp[w]) /\ s = Here(w)
    BY <2>1, WriterAt
  <2>3. d = dp'[w] /\ t = StoreIdx(dp'[w]) /\ s = Here(w)'
    BY <2>1, <2>2 DEF Here
  <2>4. part1'[t][s] = d /\ d # Zero
    BY <2>1, <2>2, StoreAssumption DEF TypeOK
  <2>5. pc'[w] = "pack2" => Foreign(part2'[t][s], d)
    BY <2>1, <2>2 DEF MixInv, Writer
  <2> QED
    BY <2>1, <2>3, <2>4, <2>5 DEF Writer, Foreign, ShardOf, Home, Slot
<1>2. CASE ProbeEmpty(w)
  <2>1. SlotIsEmpty(StoreIdx(dp[w]), Here(w)) /\ pc'[w] = "pack"
        /\ UNCHANGED <<dp, probe, part1, part2>>
    BY <1>2 DEF ProbeEmpty, Goto, TypeOK, storeOnly, tables
  <2>2. PICK d, t, s : d = dp[w] /\ t = StoreIdx(dp[w]) /\ s = Here(w)
    OBVIOUS
  <2>3. d = dp'[w] /\ t = StoreIdx(dp'[w]) /\ s = Here(w)'
    BY <2>1, <2>2 DEF Here
  <2>4. part1'[t][s] = Zero /\ part2'[t][s] = Zero
    BY <2>1, <2>2 DEF SlotIsEmpty, IsEmpty
  <2> QED
    BY <2>1, <2>3, <2>4 DEF Writer, Foreign
<1>3. CASE ~PackPart1(w) /\ ~ProbeEmpty(w)
  <2>1. pc'[w] \notin {"pack", "pack2", "rot2"}
    BY <1>3, WriterMoves
  <2> QED
    BY <2>1 DEF Writer
<1> QED
  BY <1>1, <1>2, <1>3

LEMMA SlotMixStep ==
  ASSUME TypeOK, ChainInv, MixInv, NEW w \in Threads, Step(w),
         NEW t \in TableIds, NEW s \in Slots
  PROVE  SlotMix(t, s)'
<1> DEFINE Mixed(e, f) == Zero \notin {e, f} /\ e # f /\ ShardOf(e) = ShardOf(f)
           Packs(u) == pc[u] = "rot2" /\ StoreIdx(dp[u]) = t /\ Home(dp[u]) = s
           PacksNow(u) == pc'[u] = "rot2" /\ StoreIdx(dp'[u]) = t /\ Home(dp'[u]) = s
           Half2(e, u) == /\ pc[u] \in {"pack2", "rot2"} /\ dp[u] = e
                          /\ StoreIdx(dp[u]) = t /\ Slot(dp[u], probe[u]) = s
           Half2Now(e, u) == /\ pc'[u] \in {"pack2", "rot2"} /\ dp'[u] = e
                             /\ StoreIdx(dp'[u]) = t /\ Slot(dp'[u], probe'[u]) = s
<1>0. /\ part2[t][s] # Zero => part1[t][s] # Zero
      /\ Mixed(part1[t][s], part2[t][s]) => \E u \in Threads : Packs(u)
      /\ part2[t][s] = Zero /\ part1[t][s] # Zero => \E u \in Threads : Half2(part1[t][s], u)
  BY DEF MixInv, SlotMix, Here
<1>1. SUFFICES /\ part2'[t][s] # Zero => part1'[t][s] # Zero
               /\ Mixed(part1'[t][s], part2'[t][s]) => \E u \in Threads : PacksNow(u)
               /\ part2'[t][s] = Zero /\ part1'[t][s] # Zero =>
                    \E u \in Threads : Half2Now(part1'[t][s], u)
  BY DEF SlotMix, ShardOf, Home, Here, Slot, StoreIdx
<1>2. CASE PackPart2(w) /\ t = StoreIdx(dp[w]) /\ s = Here(w)
  <2>1. pc[w] \in {"pack2", "rot2"} /\ part2'[t][s] = dp[w] /\ part1'[t][s] = part1[t][s]
    BY <1>2 DEF PackPart2, TypeOK
  <2>2. part1[t][s] # Zero /\ Foreign(part1[t][s], dp[w])
    BY <1>2, <2>1 DEF MixInv, Writer
  <2>3. dp[w] # Zero
    BY <2>1, StoreAssumption DEF TypeOK
  <2> QED
    BY <2>1, <2>2, <2>3 DEF Foreign
<1>3. CASE PackPart1(w) /\ t = StoreIdx(dp[w]) /\ s = Here(w)
  <2>1. /\ pc[w] \in {"pack", "rot"} /\ dp' = dp /\ probe' = probe
        /\ pc'[w] = (IF pc[w] = "pack" THEN "pack2" ELSE "rot2")
        /\ part1'[t][s] = dp[w] /\ part2'[t][s] = part2[t][s]
    BY <1>3 DEF PackPart1, Goto, TypeOK
  <2>2. dp[w] # Zero
    BY <2>1, StoreAssumption DEF TypeOK
  <2>5. Half2Now(part1'[t][s], w)
    BY <1>3, <2>1 DEF Here
  <2>3. CASE pc[w] = "pack"
    <3>1. Foreign(part2[t][s], dp[w])
      BY <1>3, <2>3 DEF MixInv, Writer
    <3> QED
      BY <2>1, <2>2, <2>5, <3>1 DEF Foreign
  <2>4. CASE pc[w] = "rot"
    <3>1. Here(w) = Home(dp[w])
      BY <2>4, WriterAt DEF HoldsHome
    <3>2. PacksNow(w)
      BY <1>3, <2>1, <2>4, <3>1
    <3> QED
      BY <2>1, <2>2, <2>5, <3>2
  <2> QED
    BY <2>1, <2>3, <2>4
<1>4. CASE ~((PackPart1(w) \/ PackPart2(w)) /\ t = StoreIdx(dp[w]) /\ s = Here(w))
  <2>1. part1'[t][s] = part1[t][s] /\ part2'[t][s] = part2[t][s]
    BY <1>4, SlotStep
  <2>2. ASSUME NEW u \in Threads, Packs(u)
        PROVE  PacksNow(u)
    <3>1. u # w
      BY <1>4, <2>2, WriterMoves, WriterAt DEF HoldsHome
    <3> QED
      BY <2>2, <3>1, OthersKeep
  <2>3. ASSUME NEW e, NEW u \in Threads, Half2(e, u)
        PROVE  Half2Now(e, u)
    <3>1. u # w
      BY <1>4, <2>3, WriterMoves DEF Here
    <3> QED
      BY <2>3, <3>1, OthersKeep
  <2> QED
    BY <1>0, <2>1, <2>2, <2>3
<1> QED
  BY <1>2, <1>3, <1>4

LEMMA MixStep == TypeOK /\ ChainInv /\ LockInv /\ MixInv /\ [Next]_vars => MixInv'
<1> SUFFICES ASSUME TypeOK, ChainInv, LockInv, MixInv, [Next]_vars PROVE MixInv'
  OBVIOUS
<1>1. ASSUME NEW w \in Threads, Step(w)
      PROVE  MixInv'
  BY <1>1, WriterOther, WriterOwn, SlotMixStep DEF MixInv
<1>2. CASE ClearCollision \/ UNCHANGED vars
  <2>1. UNCHANGED <<part1, part2, pc, dp, probe>>
    BY <1>2 DEF ClearCollision, vars, storeOnly, tables
  <2>2. \A w \in Threads : Writer(w)'
    BY <2>1 DEF MixInv, Writer, Foreign, ShardOf, Home, Here, Slot
  <2>3. \A t \in TableIds, s \in Slots : SlotMix(t, s)'
    BY <2>1 DEF MixInv, SlotMix, ShardOf, Home, Here, Slot, StoreIdx
  <2> QED
    BY <2>2, <2>3 DEF MixInv
<1> QED
  BY <1>1, <1>2 DEF Next

\* What an unwritten word counts as, and the relation of MixedOnlyAcrossShards.
ShardAt(h, s) == GetShard(IF h = Zero THEN s ELSE Home(h))
Apart(h, k, s) == h # k => ShardAt(h, s) # ShardAt(k, s)

\* A search with the word c of slot s of table t in its hands: the word it has
\* and the one it would read now are apart, and whoever is about to write into
\* the slot would leave it so.
CopyFor(t, s, c) ==
  /\ c.half # Zero => (IF c.word = 1 THEN part1[t][s] ELSE part2[t][s]) # Zero
  /\ Apart(Word1(c, t, s), Word2(c, t, s), s)
  /\ \A v \in Threads : pc[v] \in {"pack", "pack2"} /\ StoreIdx(dp[v]) = t /\ Here(v) = s =>
       Foreign(c.half, dp[v])

CopyInv ==
  \A w \in Threads :
    pc[w] = "copy" => CopyFor(CheckIdx(dp[w]), Slot(dp[w], probe[w]), copy[w])

\* Nobody writes with the lock of a shard that is free, or another's.
LEMMA WritersAway ==
  ASSUME TypeOK, LockInv, NEW t \in TableIds, NEW s \in Slots, NEW v \in Threads,
         shardLock[t][GetShard(s)] # v, pc[v] \in HoldsHome, StoreIdx(dp[v]) = t
  PROVE  dp[v] # Zero /\ ShardOf(dp[v]) # GetShard(s)
<1>1. dp[v] # Zero
  BY StoreAssumption DEF TypeOK, HoldsHome
<1>2. ASSUME ShardOf(dp[v]) = GetShard(s) PROVE FALSE
  <2>1. HoldsLock(v, t, GetShard(s))
    BY <1>2 DEF HoldsLock, ShardOf
  <2> QED
    BY <2>1, ShardType DEF LockInv
<1> QED
  BY <1>1, <1>2

LEMMA CopyBegins ==
  ASSUME TypeOK, ChainInv, LockInv, MixInv, NEW t \in TableIds, NEW s \in Slots,
         shardLock[t][GetShard(s)] = NoThread, NEW c,
         c \in {[word |-> 1, half |-> part1[t][s]], [word |-> 2, half |-> part2[t][s]]}
  PROVE  CopyFor(t, s, c)
<1> DEFINE e == part1[t][s]
           f == part2[t][s]
<1>1. Word1(c, t, s) = e /\ Word2(c, t, s) = f
      /\ c.half = (IF c.word = 1 THEN e ELSE f) /\ c.half \in {e, f}
  BY DEF Word1, Word2
<1>2. \A v \in Threads : pc[v] \in HoldsHome /\ StoreIdx(dp[v]) = t =>
        dp[v] # Zero /\ ShardOf(dp[v]) # GetShard(s)
  BY WritersAway, StoreAssumption
<1>3. Apart(e, f, s)
  <2> SUFFICES ASSUME e # f PROVE ShardAt(e, s) # ShardAt(f, s)
    BY DEF Apart
  <2>1. SlotMix(t, s)
    BY DEF MixInv
  <2>2. e # Zero
    BY <2>1 DEF SlotMix
  <2>3. CASE f = Zero
    <3>1. PICK u \in Threads : /\ pc[u] \in {"pack2", "rot2"} /\ dp[u] = e
                               /\ StoreIdx(dp[u]) = t
      BY <2>1, <2>2, <2>3 DEF SlotMix
    <3>2. ShardOf(e) # GetShard(s)
      BY <1>2, <3>1 DEF HoldsHome
    <3> QED
      BY <2>2, <2>3, <3>2 DEF ShardAt, ShardOf
  <2>4. CASE f # Zero
    <3>1. ASSUME ShardOf(e) = ShardOf(f) PROVE FALSE
      <4>1. PICK u \in Threads : pc[u] = "rot2" /\ StoreIdx(dp[u]) = t /\ Home(dp[u]) = s
        BY <2>1, <2>2, <2>4, <3>1 DEF SlotMix
      <4> QED
        BY <1>2, <4>1 DEF HoldsHome, ShardOf
    <3> QED
      BY <2>2, <2>4, <3>1 DEF ShardAt, ShardOf
  <2> QED
    BY <2>3, <2>4
<1>4. \A v \in Threads : pc[v] \in {"pack", "pack2"} /\ StoreIdx(dp[v]) = t /\ Here(v) = s =>
        Foreign(e, dp[v]) /\ Foreign(f, dp[v])
  BY DEF MixInv, Writer
<1> QED
  BY <1>1, <1>3, <1>4 DEF CopyFor

\* A step of another thread beside the copy.
LEMMA CopyKept ==
  ASSUME TypeOK, ChainInv, LockInv, [Next]_vars, NEW t \in TableIds, NEW s \in Slots,
         NEW w \in Threads, shardLock[t][GetShard(s)] = w, NEW v \in Threads, v # w, Step(v),
         NEW c \in Copies, CopyFor(t, s, c)
  PROVE  CopyFor(t, s, c)'
<1>1. pc[v] \in HoldsHome /\ StoreIdx(dp[v]) = t =>
        dp[v] # Zero /\ ShardOf(dp[v]) # GetShard(s)
  BY WritersAway
<1>2. /\ part1[t][s] # Zero => part1'[t][s] # Zero
      /\ part2[t][s] # Zero => part2'[t][s] # Zero
  BY WordsGrow
<1>3. ASSUME pc[v] \in {"pack", "pack2", "rot", "rot2"}, StoreIdx(dp[v]) = t, Here(v) = s
      PROVE  dp[v] # Zero /\ Apart(c.half, dp[v], s)
  <2>1. dp[v] # Zero /\ ShardOf(dp[v]) # GetShard(s)
    BY <1>1, <1>3 DEF HoldsHome
  <2>2. pc[v] \in {"pack", "pack2"}
    <3>1. Here(v) # Home(dp[v])
      BY <1>3, <2>1 DEF ShardOf
    <3> QED
      BY <1>3, <3>1, WriterAt DEF HoldsHome
  <2>3. Foreign(c.half, dp[v])
    BY <1>3, <2>2 DEF CopyFor
  <2> QED
    BY <2>1, <2>3 DEF Apart, ShardAt, ShardOf, Foreign
<1>4. Apart(Word1(c, t, s)', Word2(c, t, s)', s)
  <2>1. CASE part1'[t][s] = part1[t][s] /\ part2'[t][s] = part2[t][s]
    BY <2>1 DEF CopyFor, Word1, Word2
  <2>2. CASE /\ PackPart1(v) /\ t = StoreIdx(dp[v]) /\ s = Here(v)
             /\ part1'[t][s] = dp[v] /\ part2'[t][s] = part2[t][s]
    <3>1. Apart(c.half, dp[v], s)
      BY <1>3, <2>2 DEF PackPart1
    <3> QED
      BY <2>2, <3>1 DEF CopyFor, Word1, Word2, Apart, Copies
  <2>3. CASE /\ PackPart2(v) /\ t = StoreIdx(dp[v]) /\ s = Here(v)
             /\ part1'[t][s] = part1[t][s] /\ part2'[t][s] = dp[v]
    <3>1. Apart(c.half, dp[v], s)
      BY <1>3, <2>3 DEF PackPart2
    <3> QED
      BY <2>3, <3>1 DEF CopyFor, Word1, Word2, Apart, Copies
  <2> QED
    BY <2>1, <2>2, <2>3, SlotStep
<1>5. ASSUME NEW u \in Threads, pc'[u] \in {"pack", "pack2"}, StoreIdx(dp'[u]) = t,
             Slot(dp'[u], probe'[u]) = s
      PROVE  Foreign(c.half, dp'[u])
  <2>1. CASE u # v
    BY <1>5, <2>1, OthersKeep DEF CopyFor, Here
  <2>2. CASE u = v /\ pc'[v] = "pack"
    <3>1. /\ pc[v] = "probe" /\ SlotIsEmpty(StoreIdx(dp[v]), Here(v)) /\ dp' = dp
          /\ probe' = probe
      BY <2>2, WriterMoves DEF ProbeEmpty
    <3>2. part1[t][s] = Zero /\ part2[t][s] = Zero
      BY <1>5, <2>2, <3>1 DEF SlotIsEmpty, IsEmpty, Here
    <3> QED
      BY <3>2 DEF CopyFor, Foreign
  <2>3. CASE u = v /\ pc'[v] = "pack2"
    <3>1. PackPart1(v)
      BY <2>3, WriterMoves
    <3>2. pc[v] = "pack" /\ dp' = dp /\ probe' = probe
      BY <2>3, <3>1 DEF PackPart1, Goto, TypeOK
    <3> QED
      BY <1>5, <2>3, <3>2 DEF CopyFor, Here
  <2> QED
    BY <1>5, <2>1, <2>2, <2>3
<1> QED
  BY <1>2, <1>4, <1>5 DEF CopyFor, Apart, ShardAt, Foreign, ShardOf, Word1, Word2, Here, Home,
     Slot, StoreIdx, GetShard

\* CopyInv' for one thread, from the values of the next state.
LEMMA CopyOfNext ==
  ASSUME NEW w \in Threads, NEW d, NEW p, NEW t, NEW s, NEW c, CopyFor(t, s, c)',
         t = CheckIdx(d), s = Slot(d, p), dp'[w] = d, probe'[w] = p, copy'[w] = c
  PROVE  CopyFor(CheckIdx(dp[w]), Slot(dp[w], probe[w]), copy[w])'
BY DEF CopyFor, Apart, ShardAt, Word1, Word2, CheckIdx, StoreIdx, Slot

LEMMA CopyStep ==
  TypeOK /\ ChainInv /\ LockInv /\ MixInv /\ CopyInv /\ [Next]_vars => CopyInv'
<1> SUFFICES ASSUME TypeOK, ChainInv, LockInv, MixInv, CopyInv, [Next]_vars,
                    NEW w \in Threads, pc'[w] = "copy"
             PROVE  CopyFor(CheckIdx(dp[w]), Slot(dp[w], probe[w]), copy[w])'
  BY DEF CopyInv
<1>1. ASSUME pc[w] = "copy", dp'[w] = dp[w], probe'[w] = probe[w], copy'[w] = copy[w],
             \A t \in TableIds, s \in Slots, c \in Copies :
               shardLock[t][GetShard(s)] = w /\ CopyFor(t, s, c) => CopyFor(t, s, c)'
      PROVE  CopyFor(CheckIdx(dp[w]), Slot(dp[w], probe[w]), copy[w])'
  <2>1. PICK d \in Points, p \in Nat, t \in TableIds, s \in Slots, c \in Copies :
          d = dp[w] /\ p = probe[w] /\ t = CheckIdx(d) /\ s = Slot(d, p) /\ c = copy[w]
    BY <1>1, SearchPlace DEF TypeOK, Copies
  <2>2. CopyFor(t, s, c)
    BY <1>1, <2>1 DEF CopyInv
  <2>3. shardLock[t][GetShard(s)] = w
    BY <1>1, <2>1, ShardType DEF LockInv, HoldsLock
  <2>4. CopyFor(t, s, c)'
    BY <1>1, <2>2, <2>3
  <2> QED
    BY <1>1, <2>1, <2>4, CopyOfNext
<1>2. CASE Step(w)
  <2>1. BeginCopy(w)
    BY <1>2, OnlyBeginCopy
  <2>2. PICK t \in TableIds, s \in Slots :
          /\ Scanning(w, t, s) /\ dp' = dp /\ probe' = probe
          /\ \E b \in {[word |-> 1, half |-> part1[t][s]], [word |-> 2, half |-> part2[t][s]]} :
               copy' = [copy EXCEPT ![w] = b]
    BY <2>1 DEF BeginCopy
  <2>3. PICK c \in {[word |-> 1, half |-> part1[t][s]], [word |-> 2, half |-> part2[t][s]]} :
          copy' = [copy EXCEPT ![w] = c]
    BY <2>2
  <2>4. CopyFor(t, s, c) /\ copy'[w] = c /\ c \in Copies
    BY <2>2, <2>3, CopyBegins DEF Scanning, TypeOK, Copies
  <2>5. CopyFor(t, s, c)'
    <3>1. part1' = part1 /\ part2' = part2 /\ dp' = dp /\ probe' = probe
      BY <2>1 DEF BeginCopy, storeOnly, tables
    <3>2. \A v \in Threads : pc'[v] \in {"pack", "pack2"} => pc[v] = pc'[v]
      BY <2>1 DEF BeginCopy, Goto, TypeOK
    <3> QED
      BY <2>4, <3>1, <3>2 DEF CopyFor, Apart, ShardAt, Foreign, ShardOf, Word1, Word2, Here,
         Home, Slot, StoreIdx, GetShard
  <2> QED
    BY <2>2, <2>4, <2>5, CopyOfNext DEF Scanning
<1>3. ASSUME NEW v \in Threads, v # w, Step(v)
      PROVE  CopyFor(CheckIdx(dp[w]), Slot(dp[w], probe[w]), copy[w])'
  BY <1>1, <1>3, OthersKeep, CopyKept
<1>4. CASE ClearCollision \/ UNCHANGED vars
  <2>1. UNCHANGED <<part1, part2, pc, dp, probe, copy>>
    BY <1>4 DEF ClearCollision, vars, storeOnly, tables
  <2>2. \A t \in TableIds, s \in Slots, c \in Copies : CopyFor(t, s, c) => CopyFor(t, s, c)'
    BY <2>1 DEF CopyFor, Apart, ShardAt, Foreign, ShardOf, Word1, Word2, Here, Home, Slot,
       StoreIdx, GetShard
  <2> QED
    BY <1>1, <2>1, <2>2
<1> QED
  BY <1>2, <1>3, <1>4 DEF Next

\* The reads under the shard locks are as good as the writers' locks allow:
\* the two words a search has copied are one entry's, or those of two entries
\* whose homes lie in different shards, or of an entry at home in another shard
\* than the slot's and not yet written in full.
THEOREM MixedCorrect == Spec => []MixedOnlyAcrossShards
<1> DEFINE IInv == TypeOK /\ ChainInv /\ LockInv /\ MixInv /\ CopyInv
<1>1. Init => IInv
  <2> SUFFICES ASSUME Init PROVE IInv
    OBVIOUS
  <2>1. ChainInv /\ LockInv /\ CopyInv
    BY DEF Init, ChainInv, ChainOf, LockInv, HoldsLock, HoldsHome, CopyInv
  <2>2. MixInv
    BY DEF Init, MixInv, Writer, SlotMix
  <2> QED
    BY InitType, <2>1, <2>2
<1>2. IInv /\ [Next]_vars => IInv'
  BY NextType, ChainInvStep, LockInvStep, MixStep, CopyStep
<1>3. IInv => MixedOnlyAcrossShards
  BY CopiedIs DEF CopyInv, CopyFor, Apart, ShardAt, MixedOnlyAcrossShards
<1> QED
  BY <1>1, <1>2, <1>3, PTL DEF Spec

-----------------------------------------------------------------------------
\* The counters.

\* One element more or less.
LEMMA OneMore ==
  ASSUME NEW S, NEW T, NEW x, IsFiniteSet(S), T \subseteq S \cup {x}
  PROVE  Cardinality(T) <= Cardinality(S) + 1
<1>0. Cardinality(S) \in Nat
  BY FS_CardinalityType
<1>1. IsFiniteSet(S \cup {x}) /\ Cardinality(S \cup {x}) <= Cardinality(S) + 1
  <2>1. IsFiniteSet(S \cup {x})
    BY FS_AddElement
  <2>2. \/ Cardinality(S \cup {x}) = Cardinality(S)
        \/ Cardinality(S \cup {x}) = Cardinality(S) + 1
    BY FS_AddElement, Zenon
  <2> QED
    BY <1>0, <2>1, <2>2
<1>2. Cardinality(T) <= Cardinality(S \cup {x}) /\ IsFiniteSet(T)
  BY <1>1, FS_Subset
<1>3. /\ Cardinality(T) \in Nat /\ Cardinality(S) \in Nat
      /\ Cardinality(S \cup {x}) \in Nat
  BY <1>1, <1>2, FS_CardinalityType
<1> QED
  BY <1>1, <1>2, <1>3

LEMMA OneLess ==
  ASSUME NEW S, NEW x, IsFiniteSet(S), x \in S
  PROVE  Cardinality(S) = Cardinality(S \ {x}) + 1
<1>1. Cardinality(S \ {x}) = Cardinality(S) - 1 /\ Cardinality(S) \in Nat
  BY FS_RemoveElement, FS_CardinalityType
<1> QED
  BY <1>1

\* The steps that touch neither the tables nor the counters.
LEMMA IdleCounters ==
  ASSUME TypeOK, NEW w \in Threads, Step(w), ~PackPart1(w), ~PackPart2(w), ~Count(w)
  PROVE  /\ {pc[w], pc'[w]} \cap {"pack2", "rot2", "count"} = {}
         /\ count' = count /\ overwrites' = overwrites
<1> USE DEF TypeOK, Goto, Finish
<1>1. CASE AddTame(w) \/ CheckWild(w)
  BY <1>1 DEF AddTame, CheckWild, storeOnly, tallies
<1>2. CASE Search(w)
  BY <1>2 DEF Search, BeginCopy, ScanEmpty, ScanReport, ScanDuplicate, ScanNext, Scanning,
     EndCopy, AfterScan,
     storeOnly, tallies
<1>3. CASE AddToTable(w)
  BY <1>3 DEF AddToTable, Lock, ProbeEmpty, ProbeDuplicate, ProbeNext, Freeze,
     ActivateRotation, SaveDiscarded, storeOnly, tallies
<1>4. CASE CheckWWBuffer(w)
  BY <1>4 DEF CheckWWBuffer, WWBegin, WWReport, WWMiss, WWStore, storeOnly, tallies
<1> QED
  BY <1>1, <1>2, <1>3, <1>4 DEF Step

\* What a step does to the slots in use, to the threads that have not counted
\* their store, and to the counters of one table.
LEMMA CountStep ==
  ASSUME TypeOK, ChainInv, MixInv, NEW w \in Threads, Step(w), NEW t \in TableIds
  PROVE  \/ /\ Occupied(t)' \subseteq Occupied(t) /\ Uncounted(t) \subseteq Uncounted(t)'
            /\ count'[t] = count[t] /\ overwrites'[t] = overwrites[t]
         \/ /\ \E s \in Slots : Occupied(t)' \subseteq Occupied(t) \cup {s}
            /\ w \notin Uncounted(t) /\ Uncounted(t)' = Uncounted(t) \cup {w}
            /\ count'[t] = count[t] /\ overwrites'[t] = overwrites[t]
         \/ /\ Occupied(t)' \subseteq Occupied(t)
            /\ w \in Uncounted(t) /\ Uncounted(t)' = Uncounted(t) \ {w}
            /\ count'[t] + overwrites'[t] = count[t] + overwrites[t] + 1
<1> DEFINE U(v) == pc[v] \in {"pack2", "rot2", "count"} /\ StoreIdx(dp[v]) = t
           V(v) == pc'[v] \in {"pack2", "rot2", "count"} /\ StoreIdx(dp'[v]) = t
<1>0. /\ \A v \in Threads : v # w => (V(v) <=> U(v))
      /\ Uncounted(t) = {v \in Threads : U(v)} /\ Uncounted(t)' = {v \in Threads : V(v)}
  BY OthersKeep DEF Uncounted, StoreIdx
<1>1. CASE PackPart1(w)
  <2>1. /\ pc[w] \in {"pack", "rot"} /\ pc'[w] \in {"pack2", "rot2"} /\ dp' = dp
        /\ count' = count /\ overwrites' = overwrites
    BY <1>1 DEF PackPart1, Goto, TypeOK, tallies
  <2>2. ~U(w) /\ (V(w) <=> StoreIdx(dp[w]) = t)
    BY <2>1 DEF StoreIdx
  <2>3. Here(w) \in Slots
    BY <2>1, WriterAt DEF HoldsHome
  <2>4. CASE StoreIdx(dp[w]) = t
    <3>1. Occupied(t)' \subseteq Occupied(t) \cup {Here(w)}
      BY <2>1, SlotStep DEF Occupied, SlotIsEmpty, IsEmpty
    <3>2. w \notin Uncounted(t) /\ Uncounted(t)' = Uncounted(t) \cup {w}
      BY <1>0, <2>2, <2>4
    <3> QED
      BY <2>1, <2>3, <3>1, <3>2
  <2>5. CASE StoreIdx(dp[w]) # t
    <3>1. \A s \in Slots : part1'[t][s] = part1[t][s] /\ part2'[t][s] = part2[t][s]
      BY <2>5, SlotStep
    <3>2. Occupied(t)' \subseteq Occupied(t)
      BY <3>1 DEF Occupied, SlotIsEmpty, IsEmpty
    <3>3. Uncounted(t)' = Uncounted(t)
      BY <1>0, <2>2, <2>5
    <3> QED
      BY <2>1, <3>2, <3>3
  <2> QED
    BY <2>4, <2>5
<1>2. CASE PackPart2(w)
  <2>1. /\ pc[w] \in {"pack2", "rot2"} /\ StoreIdx(dp[w]) \in TableIds /\ count' = count
        /\ part1[StoreIdx(dp[w])][Here(w)] # Zero
    BY <1>2, WriterAt DEF PackPart2, HoldsHome, tallies, MixInv, Writer
  <2>2. Occupied(t)' \subseteq Occupied(t)
    <3>1. ASSUME NEW s \in Slots, SlotIsEmpty(t, s)
          PROVE  SlotIsEmpty(t, s)'
      <4>1. part1[t][s] = Zero /\ part2[t][s] = Zero
        BY <3>1 DEF SlotIsEmpty, IsEmpty
      <4>2. ~(t = StoreIdx(dp[w]) /\ s = Here(w))
        BY <2>1, <4>1
      <4>3. part1'[t][s] = part1[t][s] /\ part2'[t][s] = part2[t][s]
        BY <4>2, SlotStep
      <4> QED
        BY <4>1, <4>3 DEF SlotIsEmpty, IsEmpty
    <3> QED
      BY <3>1 DEF Occupied
  <2>3. U(w) <=> StoreIdx(dp[w]) = t
    BY <2>1
  <2>4. CASE pc[w] = "pack2"
    <3>1. pc'[w] = "count" /\ dp' = dp /\ overwrites' = overwrites
      BY <1>2, <2>4 DEF PackPart2, Goto, TypeOK
    <3>2. Uncounted(t)' = Uncounted(t)
      BY <1>0, <2>3, <3>1
    <3> QED
      BY <2>1, <2>2, <3>1, <3>2
  <2>5. CASE pc[w] = "rot2"
    <3>1. /\ pc'[w] = "idle"
          /\ overwrites' = [overwrites EXCEPT ![StoreIdx(dp[w])] = @ + 1]
      BY <1>2, <2>5 DEF PackPart2, Finish, Goto, TypeOK
    <3>2. CASE StoreIdx(dp[w]) = t
      <4>1. w \in Uncounted(t) /\ Uncounted(t)' = Uncounted(t) \ {w}
        BY <1>0, <2>3, <3>1, <3>2
      <4>2. count'[t] + overwrites'[t] = count[t] + overwrites[t] + 1
        BY <2>1, <3>1, <3>2 DEF TypeOK
      <4> QED
        BY <2>2, <4>1, <4>2
    <3>3. CASE StoreIdx(dp[w]) # t
      <4>1. Uncounted(t)' = Uncounted(t)
        BY <1>0, <2>3, <3>1, <3>3
      <4>2. overwrites'[t] = overwrites[t]
        BY <3>1, <3>3 DEF TypeOK
      <4> QED
        BY <2>1, <2>2, <4>1, <4>2
    <3> QED
      BY <3>2, <3>3
  <2> QED
    BY <2>1, <2>4, <2>5
<1>3. CASE ~PackPart1(w) /\ ~PackPart2(w)
  <2>1. Occupied(t)' = Occupied(t)
    BY <1>3, WriterMoves DEF Occupied, SlotIsEmpty, IsEmpty
  <2>2. CASE Count(w)
    <3>1. /\ pc[w] = "count" /\ pc'[w] = "idle" /\ overwrites' = overwrites
          /\ count' = [count EXCEPT ![StoreIdx(dp[w])] = @ + 1]
      BY <2>2 DEF Count, Finish, Goto, TypeOK
    <3>2. CASE StoreIdx(dp[w]) = t
      <4>1. w \in Uncounted(t) /\ Uncounted(t)' = Uncounted(t) \ {w}
        BY <1>0, <3>1, <3>2
      <4>2. count'[t] + overwrites'[t] = count[t] + overwrites[t] + 1
        BY <3>1, <3>2 DEF TypeOK
      <4> QED
        BY <2>1, <4>1, <4>2
    <3>3. CASE StoreIdx(dp[w]) # t
      <4>1. Uncounted(t)' = Uncounted(t)
        BY <1>0, <3>1, <3>3
      <4>2. count'[t] = count[t]
        BY <3>1, <3>3 DEF TypeOK
      <4> QED
        BY <2>1, <3>1, <4>1, <4>2
    <3> QED
      BY <3>2, <3>3
  <2>3. CASE ~Count(w)
    <3>1. /\ {pc[w], pc'[w]} \cap {"pack2", "rot2", "count"} = {}
          /\ count' = count /\ overwrites' = overwrites
      BY <1>3, <2>3, IdleCounters
    <3>2. Uncounted(t)' = Uncounted(t)
      BY <1>0, <3>1
    <3> QED
      BY <2>1, <3>1, <3>2
  <2> QED
    BY <2>2, <2>3
<1> QED
  BY <1>1, <1>2, <1>3

LEMMA FiniteSlots == IsFiniteSet(Slots)
<1>1. 0 \in Int /\ TableSize - 1 \in Int
  BY StoreAssumption
<1>2. IsFiniteSet(0 .. TableSize - 1)
  BY ONLY <1>1, FS_Interval
<1> QED
  BY <1>2 DEF Slots

LEMMA CountBoundStep ==
  TypeOK /\ ChainInv /\ MixInv /\ CountBound /\ [Next]_vars => CountBound'
<1> SUFFICES ASSUME TypeOK, ChainInv, MixInv, CountBound, [Next]_vars, NEW t \in TableIds
             PROVE  Cardinality(Occupied(t)')
                      <= count'[t] + overwrites'[t] + Cardinality(Uncounted(t)')
  BY DEF CountBound
<1>1. /\ IsFiniteSet(Occupied(t)) /\ IsFiniteSet(Uncounted(t))
      /\ IsFiniteSet(Occupied(t)') /\ IsFiniteSet(Uncounted(t)')
      /\ Cardinality(Occupied(t)) \in Nat /\ Cardinality(Uncounted(t)) \in Nat
      /\ Cardinality(Occupied(t)') \in Nat /\ Cardinality(Uncounted(t)') \in Nat
  <2>1. IsFiniteSet(Slots) /\ IsFiniteSet(Threads)
    BY FiniteSlots, StoreAssumption
  <2>2. /\ Occupied(t) \in SUBSET Slots /\ Uncounted(t) \in SUBSET Threads
        /\ Occupied(t)' \in SUBSET Slots /\ Uncounted(t)' \in SUBSET Threads
    BY DEF Occupied, Uncounted
  <2> QED
    BY <2>1, <2>2, FS_Subset, FS_CardinalityType
<1>2. /\ count[t] \in Nat /\ overwrites[t] \in Nat
      /\ count'[t] \in Nat /\ overwrites'[t] \in Nat
  BY NextType DEF TypeOK
<1>3. Cardinality(Occupied(t)) <= count[t] + overwrites[t] + Cardinality(Uncounted(t))
  BY DEF CountBound
<1>4. ASSUME NEW w \in Threads, Step(w)
      PROVE  Cardinality(Occupied(t)')
               <= count'[t] + overwrites'[t] + Cardinality(Uncounted(t)')
  <2>1. CASE /\ Occupied(t)' \subseteq Occupied(t) /\ Uncounted(t) \subseteq Uncounted(t)'
             /\ count'[t] = count[t] /\ overwrites'[t] = overwrites[t]
    <3>1. Cardinality(Occupied(t)') <= Cardinality(Occupied(t))
      BY <1>1, <2>1, FS_Subset
    <3>2. Cardinality(Uncounted(t)) <= Cardinality(Uncounted(t)')
      BY <1>1, <2>1, FS_Subset
    <3> QED
      BY <1>1, <1>2, <1>3, <2>1, <3>1, <3>2
  <2>2. CASE /\ \E s \in Slots : Occupied(t)' \subseteq Occupied(t) \cup {s}
             /\ w \notin Uncounted(t) /\ Uncounted(t)' = Uncounted(t) \cup {w}
             /\ count'[t] = count[t] /\ overwrites'[t] = overwrites[t]
    <3>1. Cardinality(Occupied(t)') <= Cardinality(Occupied(t)) + 1
      BY <1>1, <2>2, OneMore
    <3>2. Cardinality(Uncounted(t)') = Cardinality(Uncounted(t)) + 1
      BY <1>1, <2>2, FS_AddElement
    <3> QED
      BY <1>1, <1>2, <1>3, <2>2, <3>1, <3>2
  <2>3. CASE /\ Occupied(t)' \subseteq Occupied(t)
             /\ w \in Uncounted(t) /\ Uncounted(t)' = Uncounted(t) \ {w}
             /\ count'[t] + overwrites'[t] = count[t] + overwrites[t] + 1
    <3>1. Cardinality(Occupied(t)') <= Cardinality(Occupied(t))
      BY <1>1, <2>3, FS_Subset
    <3>2. Cardinality(Uncounted(t)) = Cardinality(Uncounted(t)') + 1
      BY <1>1, <2>3, OneLess
    <3> QED
      BY <1>1, <1>2, <1>3, <2>3, <3>1, <3>2
  <2> QED
    BY <1>4, <2>1, <2>2, <2>3, CountStep
<1>5. CASE ClearCollision \/ UNCHANGED vars
  <2>1. UNCHANGED <<part1, part2, pc, dp, count, overwrites>>
    BY <1>5 DEF ClearCollision, vars, storeOnly, tables, tallies
  <2>2. Occupied(t)' = Occupied(t) /\ Uncounted(t)' = Uncounted(t)
    BY <2>1 DEF Occupied, SlotIsEmpty, Uncounted, StoreIdx
  <2> QED
    BY <1>3, <2>1, <2>2
<1> QED
  BY <1>4, <1>5 DEF Next

\* The counters that SolvePoint compares with the size of the table to switch
\* phases never lag behind the slots in use by more than the stores under way.
THEOREM CountBoundCorrect == Spec => []CountBound
<1> DEFINE IInv == TypeOK /\ ChainInv /\ LockInv /\ MixInv /\ CountBound
<1>1. Init => IInv
  <2> SUFFICES ASSUME Init PROVE IInv
    OBVIOUS
  <2>1. ChainInv /\ LockInv
    BY DEF Init, ChainInv, ChainOf, LockInv, HoldsLock, HoldsHome
  <2>2. MixInv
    BY DEF Init, MixInv, Writer, SlotMix
  <2>3. CountBound
    <3> SUFFICES ASSUME NEW t \in TableIds
                 PROVE  Cardinality(Occupied(t))
                          <= count[t] + overwrites[t] + Cardinality(Uncounted(t))
      BY DEF CountBound
    <3>1. Occupied(t) = {} /\ Uncounted(t) = {} /\ count[t] = 0 /\ overwrites[t] = 0
      BY DEF Init, Occupied, SlotIsEmpty, IsEmpty, Uncounted
    <3> QED
      BY <3>1, FS_EmptySet
  <2> QED
    BY InitType, <2>1, <2>2, <2>3
<1>2. IInv /\ [Next]_vars => IInv'
  BY NextType, ChainInvStep, LockInvStep, MixStep, CountBoundStep
<1>3. IInv => CountBound
  OBVIOUS
<1> QED
  BY <1>1, <1>2, <1>3, PTL DEF Spec

-----------------------------------------------------------------------------
\* One thread: the store answers each DP at once.

OneThread(w) == Threads = {w} /\ NoRotation

\* The DPs in a table, and whether a search for d passed over its first p slots.
Stored(t) == {part2[t][s] : s \in Slots} \ {Zero}
Passed(t, d, p) ==
  \A j \in 0 .. MaxProbe - 1 :
    j < p => ~SlotIsEmpty(t, Slot(d, j)) /\ ~XSigMatch(part2[t][Slot(d, j)], d)

\* An entry is whole, but for the one that the thread is writing; no DP is
\* stored twice; and no table ever rotates.
WholeInv ==
  /\ \A t \in TableIds, s \in Slots :
       \/ part1[t][s] = part2[t][s]
       \/ \E w \in Threads : /\ pc[w] = "pack2" /\ StoreIdx(dp[w]) = t /\ Here(w) = s
  /\ \A t \in TableIds, r, s \in Slots :
       part2[t][r] # Zero /\ part2[t][r] = part2[t][s] => r = s
  /\ \A t \in TableIds : ~circular[t]

\* The mode stores DPs of the type of d.
IsKept(d) == AllWild \/ d.type = TAME

\* A WILD d need not be reported.
NothingOwed(d) ==
  \/ d.type = TAME
  \/ \A e \in Stored(CheckIdx(d)) : Abs!SameKey(e, d) => Abs!SameDist(e, d)
  \/ \E e \in Stored(CheckIdx(d)) : Abs!SameSig(e, d) /\ Abs!SameDist(e, d)

\* What a thread with the DP d, at probe p, control point l and with the limit
\* m, knows of the tables.
Knows(d, p, l, m) ==
  LET t == StoreIdx(d)
      s == Slot(d, p)
  IN /\ l \notin {"rotate", "rot", "rot2"}
     /\ l \in {"scan", "copy"} =>
          m = MaxProbe /\ p < MaxProbe /\ d.type # TAME /\ Passed(CheckIdx(d), d, p)
     /\ l \in {"store"} \cup HoldsHome \cup InBuffer => NothingOwed(d)
     /\ l \in {"store"} \cup HoldsHome => IsKept(d)
     /\ l \in InBuffer => ~IsKept(d)
     /\ l \in HoldsHome => ~frozen[t]
     /\ l = "probe" => Passed(t, d, p)
     /\ l \in {"pack", "pack2"} => part2[t][s] = Zero /\ \A e \in Stored(t) : ~Abs!SameKey(e, d)
     /\ l = "pack" => part1[t][s] = Zero
     /\ l = "pack2" => part1[t][s] = d

KnowsOf(w) == Knows(dp[w], probe[w], pc[w], limit[w])

\* A copy that nobody interferes with.
ExactOf(w) ==
  LET t == CheckIdx(dp[w])
      s == Slot(dp[w], probe[w])
  IN pc[w] = "copy" => Copied1(w) = part1[t][s] /\ Copied2(w) = part2[t][s]

\* The W-W buffer: an entry lies where its own search begins, and a search
\* that has gone on left nothing to report there.
Buffered == {ww[s] : s \in WWSlots} \ {Zero}
Reports(h, d) == Collides(h, h, d) /\ CrossType(h, d)

BufferOf(w) ==
  /\ pc[w] = "ww" => probe[w] = 0
  /\ pc[w] = "wwstore" \/ (pc[w] = "wwscan" /\ probe[w] # 0) =>
       ~Reports(ww[WWSlot(dp[w], 0)], dp[w])

BufferInv ==
  /\ \A s \in WWSlots : ww[s] # Zero => WWSlot(ww[s], 0) = s
  /\ \A w \in Threads : BufferOf(w)

SeqInv ==
  /\ TypeOK /\ ChainInv /\ NoHoles /\ SettledInv /\ WholeInv /\ BufferInv
  /\ \A w \in Threads : KnowsOf(w) /\ ExactOf(w)

\* The abstract store in the terms of the tables.
LEMMA AbsIs ==
  ASSUME TypeOK, NEW d \in Points
  PROVE  /\ Abs!StoreIdx(d) = StoreIdx(d) /\ Abs!CheckIdx(d) = CheckIdx(d)
         /\ Abs!NothingToReport(d) <=> NothingOwed(d)
         /\ Abs!Kept(d) <=> IsKept(d)
<1>1. Abs!StoreIdx(d) = StoreIdx(d) /\ Abs!CheckIdx(d) = CheckIdx(d)
  BY DEF Abs!StoreIdx, Abs!CheckIdx, StoreIdx, CheckIdx, TAME
<1>2. CheckIdx(d) \in TableIds
  BY IdxType
<1>3. [t \in TableIds |-> {part2[t][s] : s \in Slots} \ {Zero}][CheckIdx(d)] = Stored(CheckIdx(d))
  BY <1>2 DEF Stored
<1> QED
  BY <1>1, <1>3 DEF Abs!NothingToReport, NothingOwed, Abs!Kept, IsKept, TAME

\* Slots that are a hash and a probe number apart.
Tri(p) == (p * (p + 1)) \div 2

LEMMA TriGrows ==
  ASSUME NEW p \in Nat, NEW q \in Nat, p < q
  PROVE  Tri(p) \in Nat /\ Tri(q) \in Nat /\ Tri(p) < Tri(q)
<1>1. PICK k \in Nat : q = p + 1 + k
  <2>1. q - p - 1 \in Nat /\ q = p + 1 + (q - p - 1)
    OBVIOUS
  <2> QED BY <2>1
<1>2. q * (q + 1) = p * (p + 1) + 2 * (p + 1) + k * (2 * p + 3 + k)
  BY <1>1
<1>3. k * (2 * p + 3 + k) \in Nat /\ p * (p + 1) \in Nat
  BY <1>1
<1>4. \A a, b, c \in Nat : b = a + 2 * (p + 1) + c => a \div 2 < b \div 2 /\ a \div 2 \in Nat /\ b \div 2 \in Nat
  OBVIOUS
<1>5. q * (q + 1) \in Nat
  OBVIOUS
<1> DEFINE a == p * (p + 1)  b == q * (q + 1)  c == k * (2 * p + 3 + k)
<1>6. a \in Nat /\ b \in Nat /\ c \in Nat /\ b = a + 2 * (p + 1) + c
  BY <1>2, <1>3, <1>5
<1> HIDE DEF a, b, c
<1>7. a \div 2 < b \div 2 /\ a \div 2 \in Nat /\ b \div 2 \in Nat
  BY <1>4, <1>6
<1> QED
  BY <1>7 DEF Tri, a, b

LEMMA DivMod ==
  ASSUME NEW a \in Nat, NEW n \in Nat \ {0}
  PROVE  /\ a \div n \in Nat /\ (a % n) \in 0 .. n - 1
         /\ a = n * (a \div n) + (a % n)
OBVIOUS

LEMMA ModIs ==
  ASSUME NEW a \in Nat, NEW n \in Nat \ {0}, NEW q \in Int, NEW r \in 0 .. n - 1,
         a = n * q + r
  PROVE  (a % n) = r
OBVIOUS

\* Numbers less than n apart have different remainders.
LEMMA ModApart ==
  ASSUME NEW n \in Nat \ {0}, NEW a \in Nat, NEW b \in Nat, a < b, b < a + n
  PROVE  (a % n) # (b % n)
<1> DEFINE q == a \div n  r == b \div n  x == a % n  y == b % n
<1>1. q \in Nat /\ r \in Nat /\ x \in 0 .. n - 1 /\ y \in 0 .. n - 1
      /\ a = n * q + x /\ b = n * r + y
  BY DivMod
<1> HIDE DEF q, r, x, y
<1>2. ASSUME x = y
      PROVE  FALSE
  <2> DEFINE k == r - q
  <2>1. k \in Int /\ n * r = n * q + n * k
    BY <1>1
  <2>2. n * q \in Int /\ n * k \in Int
    BY <1>1, <2>1
  <2>3. 0 < n * k /\ n * k < n
    BY <1>1, <1>2, <2>1, <2>2
  <2>4. CASE k <= 0
    <3>1. 0 - k \in Nat
      BY <2>1, <2>4
    <3>2. n * (0 - k) \in Nat /\ n * k = 0 - n * (0 - k)
      BY <2>1, <3>1
    <3> QED
      BY <2>2, <2>3, <3>2
  <2>5. CASE k >= 1
    <3>1. k - 1 \in Nat
      BY <2>1, <2>5
    <3>2. n * (k - 1) \in Nat /\ n * k = n + n * (k - 1)
      BY <2>1, <3>1
    <3> QED
      BY <2>2, <2>3, <3>2
  <2> QED
    BY <2>1, <2>4, <2>5
<1> QED
  BY <1>2 DEF x, y

LEMMA ModAdd ==
  ASSUME NEW n \in Nat \ {0}, NEW a \in Nat, NEW b \in Nat, NEW k \in Nat, (a % n) = (b % n)
  PROVE  ((a + k) % n) = ((b + k) % n)
<1> DEFINE q == a \div n  r == b \div n  x == a % n
           m == (x + k) \div n  y == (x + k) % n
<1>1. q \in Nat /\ r \in Nat /\ x \in 0 .. n - 1 /\ a = n * q + x /\ b = n * r + x
  BY DivMod
<1>2. x + k \in Nat
  BY <1>1
<1>3. m \in Nat /\ y \in 0 .. n - 1 /\ x + k = n * m + y
  BY <1>2, DivMod
<1> HIDE DEF q, r, x, m, y
<1>4. n * q \in Nat /\ n * r \in Nat /\ n * m \in Nat
      /\ n * (q + m) = n * q + n * m /\ n * (r + m) = n * r + n * m
  BY <1>1, <1>3
<1>5. a + k = n * (q + m) + y /\ b + k = n * (r + m) + y
      /\ a + k \in Nat /\ b + k \in Nat /\ q + m \in Int /\ r + m \in Int
  BY <1>1, <1>3, <1>4
<1>6. ((a + k) % n) = y
  BY <1>3, <1>5, ModIs
<1>7. ((b + k) % n) = y
  BY <1>3, <1>5, ModIs
<1> QED
  BY <1>6, <1>7

LEMMA SlotAdd ==
  ASSUME NEW a \in Nat, NEW b \in Nat, NEW k \in Nat, (a % TableSize) = (b % TableSize)
  PROVE  ((a + k) % TableSize) = ((b + k) % TableSize)
<1>1. TableSize \in Nat \ {0}
  BY StoreAssumption
<1> QED
  BY <1>1, ModAdd, ZenonT(30)

LEMMA SlotTri ==
  ASSUME NEW d \in Points, NEW p \in Nat
  PROVE  /\ Slot(d, p) = (Hash[d.x] + Tri(p)) % TableSize
         /\ Hash[d.x] \in Nat /\ Tri(p) \in Nat /\ TableSize \in Nat \ {0}
<1>1. Tri(p) \in Nat
  <2>1. p + 1 \in Nat /\ p < p + 1
    OBVIOUS
  <2> QED
    BY <2>1, TriGrows
<1> QED
  BY <1>1, StoreAssumption DEF Slot, Tri

\* In a table larger than the last step of a probe sequence, and the real ones
\* are, a sequence never meets itself.
LEMMA SlotsApart ==
  ASSUME Tri(MaxProbe - 1) < TableSize, NEW d \in Points,
         NEW p \in 0 .. MaxProbe - 1, NEW q \in 0 .. MaxProbe - 1, p < q
  PROVE  Slot(d, p) # Slot(d, q)
<1>1. p \in Nat /\ q \in Nat /\ MaxProbe - 1 \in Nat /\ q <= MaxProbe - 1
  BY StoreAssumption
<1>2. Tri(p) < Tri(q)
  BY <1>1, TriGrows
<1>3. Tri(q) <= Tri(MaxProbe - 1) /\ Tri(MaxProbe - 1) \in Nat
  <2>1. CASE q = MaxProbe - 1
    BY <1>1, <2>1, SlotTri
  <2>2. CASE q < MaxProbe - 1
    <3>1. Tri(q) < Tri(MaxProbe - 1)
      BY <1>1, <2>2, TriGrows
    <3> QED
      BY <1>1, <3>1, SlotTri
  <2> QED
    BY <1>1, <2>1, <2>2
<1> DEFINE h == Hash[d.x]  a == Tri(p)  b == Tri(q)
<1>4. h \in Nat /\ a \in Nat /\ b \in Nat /\ TableSize \in Nat \ {0} /\ a < b /\ b < TableSize
  BY <1>1, <1>2, <1>3, SlotTri
<1>5. Slot(d, p) = (h + a) % TableSize /\ Slot(d, q) = (h + b) % TableSize
  BY <1>1, SlotTri
<1> HIDE DEF h, a, b
<1>6. h + a \in Nat /\ h + b \in Nat /\ h + a < h + b /\ h + b < (h + a) + TableSize
  BY <1>4
<1> QED
  BY <1>4, <1>5, <1>6, ModApart

\* DPs of one key have one probe sequence.
LEMMA SameSlots ==
  ASSUME NEW d \in Points, NEW e \in Points, Abs!SameKey(e, d), NEW p \in Nat
  PROVE  Slot(e, p) = Slot(d, p) /\ XSig[e.x] = XSig[d.x]
<1>1. /\ XSig[e.x] = XSig[d.x]
      /\ (Hash[e.x] % TableSize) = (Hash[d.x] % TableSize)
  BY StoreAssumption DEF Abs!SameKey, Abs!SameSig
<1>2. PICK f \in Nat, h \in Nat, g \in Nat : f = Hash[e.x] /\ h = Hash[d.x] /\ g = Tri(p)
  BY SlotTri
<1>3. (f % TableSize) = (h % TableSize)
  BY <1>1, <1>2
<1>4. ((f + g) % TableSize) = ((h + g) % TableSize)
  BY <1>3, SlotAdd
<1>5. Slot(e, p) = ((f + g) % TableSize) /\ Slot(d, p) = ((h + g) % TableSize)
  BY <1>2, SlotTri
<1> QED
  BY <1>1, <1>4, <1>5

\* A search that went down its sequence to an empty slot, or to the end, has
\* seen all there is of its DP's key.
LEMMA KeyUnseen ==
  ASSUME TypeOK, NoHoles, NEW t \in TableIds, NEW d \in Points, NEW p \in Nat,
         Passed(t, d, p),
         p >= MaxProbe \/ SlotIsEmpty(t, Slot(d, p)),
         NEW e \in Stored(t)
  PROVE  ~Abs!SameKey(e, d)
<1> SUFFICES ASSUME Abs!SameKey(e, d) PROVE FALSE
  OBVIOUS
<1>1. PICK s \in Slots : e = part2[t][s] /\ e # Zero
  BY DEF Stored
<1>2. e \in Points
  BY <1>1 DEF TypeOK, Half
<1>3. PICK j \in 0 .. MaxProbe - 1 : Slot(e, j) = s /\ Chain(t, e, j)
  BY <1>1 DEF NoHoles, Reachable
<1>4. j \in Nat /\ MaxProbe \in Nat
  BY StoreAssumption
<1>5. Slot(d, j) = s /\ Slot(e, p) = Slot(d, p) /\ XSig[e.x] = XSig[d.x]
  BY <1>2, <1>3, <1>4, SameSlots
<1>6. CASE j < p
  BY <1>1, <1>5, <1>6 DEF Passed, XSigMatch, SigOf
<1>7. CASE j = p
  BY <1>1, <1>4, <1>5, <1>7 DEF SlotIsEmpty, IsEmpty
<1>8. CASE j > p
  <2>1. p \in 0 .. MaxProbe - 1 /\ p < j
    BY <1>4, <1>8
  <2>2. ~SlotIsEmpty(t, Slot(e, p))
    BY <1>3, <2>1 DEF Chain
  <2> QED
    BY <1>4, <1>5, <1>8, <2>2
<1> QED
  BY <1>4, <1>6, <1>7, <1>8

\* Nothing known is lost while the tables stay.
LEMMA KnowsStays ==
  ASSUME NEW d, NEW p, NEW l, NEW m, UNCHANGED <<part1, part2, frozen>>
  PROVE  /\ Knows(d, p, l, m)' <=> Knows(d, p, l, m)
         /\ NothingOwed(d)' <=> NothingOwed(d)
         /\ \A t : Passed(t, d, p)' <=> Passed(t, d, p)
<1>1. \A t : Stored(t)' = Stored(t)
  BY DEF Stored
<1>2. NothingOwed(d)' <=> NothingOwed(d)
  BY <1>1 DEF NothingOwed, CheckIdx, StoreIdx, Abs!SameKey, Abs!SameSig, Abs!SameDist
<1>3. \A t : Passed(t, d, p)' <=> Passed(t, d, p)
  BY DEF Passed, SlotIsEmpty, XSigMatch
<1> QED
  BY <1>1, <1>2, <1>3 DEF Knows, IsKept, CheckIdx, StoreIdx, Abs!SameKey, Abs!SameSig

LEMMA KnowsOfNext ==
  ASSUME NEW w, NEW d, NEW p, NEW l, NEW m, Knows(d, p, l, m)',
         dp'[w] = d, probe'[w] = p, pc'[w] = l, limit'[w] = m
  PROVE  KnowsOf(w)'
BY DEF KnowsOf

\* A call that is over knows nothing.
LEMMA KnowsNothing ==
  ASSUME NEW w, pc'[w] \in {"idle", "count"}
  PROVE  KnowsOf(w)'
BY DEF KnowsOf, Knows, InBuffer, HoldsHome

LEMMA AllPassed ==
  ASSUME TypeOK, NEW t \in TableIds, NEW d \in Points, NEW p \in Nat, p < MaxProbe, Passed(t, d, p),
         ~SlotIsEmpty(t, Slot(d, p)), ~XSigMatch(part2[t][Slot(d, p)], d)
  PROVE  Passed(t, d, p + 1)
<1>1. \A j \in 0 .. MaxProbe - 1 : j < p + 1 => j < p \/ j = p
  OBVIOUS
<1> QED
  BY <1>1 DEF Passed

\* A search that goes on, or ends without a report, owes nothing any more: it
\* came to an empty slot or to the end, or took an entry for its own walk.
LEMMA SearchSettles ==
  ASSUME SeqInv, NEW w \in Threads, OneThread(w),
         ScanEmpty(w) \/ ScanDuplicate(w) \/ ScanNext(w), pc'[w] # "scan"
  PROVE  NothingOwed(dp[w]) /\ \E o : AfterScan(w, o)
<1>0. /\ TypeOK /\ NoHoles /\ KnowsOf(w) /\ ExactOf(w) /\ MaxProbe \in Nat \ {0}
  BY StoreAssumption DEF SeqInv, OneThread
<1>1. PICK d, p : d = dp[w] /\ p = probe[w]
  OBVIOUS
<1>2. pc[w] = "copy" /\ d \in Points /\ p \in Nat /\ CheckIdx(d) \in TableIds
      /\ limit[w] = MaxProbe /\ p < MaxProbe /\ Passed(CheckIdx(d), d, p)
  <2>1. pc[w] = "copy"
    BY DEF ScanEmpty, ScanDuplicate, ScanNext, EndCopy
  <2>2. d \in Points /\ p \in Nat
    BY <1>0, <1>1, <2>1 DEF TypeOK
  <2> QED
    BY <1>0, <1>1, <2>1, <2>2, IdxType DEF KnowsOf, Knows
<1> DEFINE t == CheckIdx(d)
           s == Slot(d, p)
<1>3. s \in Slots
  BY <1>2, SlotType
<1>7. Copied1(w) = part1[t][s] /\ Copied2(w) = part2[t][s]
  BY <1>0, <1>1, <1>2 DEF ExactOf
<1>4. CASE ScanEmpty(w)
  <2>1. SlotIsEmpty(t, s) /\ AfterScan(w, owed[w])
    BY <1>1, <1>4, <1>7 DEF ScanEmpty, SlotIsEmpty
  <2>2. \A e \in Stored(t) : ~Abs!SameKey(e, d)
    BY <1>0, <1>2, <2>1, KeyUnseen
  <2> QED
    BY <1>1, <2>1, <2>2 DEF NothingOwed
<1>5. CASE ScanDuplicate(w)
  <2>1. /\ Matches(part1[t][s], part2[t][s], d) /\ SameDist(part1[t][s], part2[t][s], d)
        /\ AfterScan(w, {})
    BY <1>1, <1>5, <1>7 DEF ScanDuplicate
  <2>2. part1[t][s] = part2[t][s]
    BY <1>0, <1>2, <1>3 DEF SeqInv, WholeInv, OneThread
  <2>3. part2[t][s] # Zero /\ part2[t][s] \in Stored(t)
    BY <1>3, <2>1, <2>2 DEF Matches, IsEmpty, Stored
  <2>4. Abs!SameSig(part2[t][s], d) /\ Abs!SameDist(part2[t][s], d)
    BY <2>1, <2>2, <2>3 DEF Matches, XSigMatch, SigOf, SameDist, LoOf, HiOf, Abs!SameSig,
       Abs!SameDist
  <2> QED
    BY <1>1, <2>1, <2>3, <2>4 DEF NothingOwed
<1>6. CASE ScanNext(w)
  <2>1. /\ ~SlotIsEmpty(t, s) /\ ~XSigMatch(part2[t][s], d)
        /\ ~(p + 1 < MaxProbe) /\ AfterScan(w, owed[w])
    BY <1>0, <1>1, <1>2, <1>6, <1>7 DEF ScanNext, SlotIsEmpty, NextProbe, Goto, TypeOK
  <2>2. Passed(t, d, p + 1)
    BY <1>0, <1>2, <2>1, AllPassed
  <2>3. p + 1 >= MaxProbe /\ p + 1 \in Nat
    BY <1>0, <1>2, <2>1
  <2>4. \A e \in Stored(t) : ~Abs!SameKey(e, d)
    BY <1>0, <1>2, <2>2, <2>3, KeyUnseen
  <2> QED
    BY <1>1, <2>1, <2>4 DEF NothingOwed
<1> QED
  BY <1>4, <1>5, <1>6

\* The start of a call, and the search.
LEMMA KnowsSearch ==
  ASSUME SeqInv, NEW w \in Threads, OneThread(w), AddTame(w) \/ CheckWild(w) \/ Search(w)
  PROVE  KnowsOf(w)'
<1>0. /\ TypeOK /\ NoHoles /\ KnowsOf(w) /\ ExactOf(w) /\ ChainOf(w)
      /\ \A t \in TableIds : ~circular[t]
      /\ MaxProbe \in Nat \ {0}
  BY StoreAssumption DEF SeqInv, OneThread, WholeInv, ChainInv
<1>1. UNCHANGED <<part1, part2, frozen>>
  BY DEF AddTame, CheckWild, Search, BeginCopy, ScanEmpty, ScanReport, ScanDuplicate, ScanNext,
     storeOnly,
     tables, flags
<1>2. CASE AddTame(w)
  <2>1. PICK d \in todo : d.type = TAME /\ dp' = [dp EXCEPT ![w] = d]
    BY <1>2 DEF AddTame
  <2>2. dp'[w] = d /\ pc'[w] = "store"
    BY <1>0, <1>2, <2>1 DEF AddTame, Goto, TypeOK
  <2>3. NothingOwed(d) /\ IsKept(d)
    BY <2>1 DEF NothingOwed, IsKept
  <2>4. ASSUME NEW p, NEW m PROVE Knows(d, p, "store", m)
    BY <2>3 DEF Knows, InBuffer, HoldsHome
  <2> QED
    BY <1>1, <2>2, <2>4, KnowsStays, KnowsOfNext
<1>3. CASE CheckWild(w)
  <2>1. PICK d \in todo : /\ d.type # TAME /\ dp' = [dp EXCEPT ![w] = d]
                          /\ limit' = [limit EXCEPT ![w] = SearchLimit(CheckIdx(d))]
    BY <1>3 DEF CheckWild
  <2>2. d \in Points /\ CheckIdx(d) \in TableIds
    BY <1>0, <2>1, IdxType DEF TypeOK
  <2>3. limit'[w] = MaxProbe
    BY <1>0, <2>1, <2>2 DEF SearchLimit, TypeOK
  <2>4. dp'[w] = d /\ pc'[w] = "scan" /\ probe'[w] = 0
    BY <1>0, <1>3, <2>1 DEF CheckWild, Goto, TypeOK, ChainOf
  <2>5. Passed(CheckIdx(d), d, 0)
    BY <1>0 DEF Passed
  <2>6. Knows(d, 0, "scan", MaxProbe)
    BY <1>0, <2>1, <2>5 DEF Knows, InBuffer, HoldsHome
  <2> QED
    BY <1>1, <2>3, <2>4, <2>6, KnowsStays, KnowsOfNext
<1>4. CASE Search(w)
  <2>1. PICK d, p : d = dp[w] /\ p = probe[w]
    OBVIOUS
  <2>2. pc[w] \in {"scan", "copy"} /\ d \in Points /\ p \in Nat /\ CheckIdx(d) \in TableIds /\ d.type # TAME
        /\ limit[w] = MaxProbe /\ p < MaxProbe /\ Passed(CheckIdx(d), d, p)
    <3>1. pc[w] \in {"scan", "copy"}
      BY <1>4 DEF Search, BeginCopy, ScanEmpty, ScanReport, ScanDuplicate, ScanNext, Scanning,
         EndCopy
    <3>2. d \in Points /\ p \in Nat
      BY <1>0, <2>1, <3>1 DEF TypeOK
    <3> QED
      BY <1>0, <2>1, <3>1, <3>2, IdxType DEF KnowsOf, Knows
  <2> DEFINE t == CheckIdx(d)
             s == Slot(d, p)
  <2>3. s \in Slots
    BY <2>2, SlotType
  <2>4. ASSUME NothingOwed(d), NEW o, AfterScan(w, o)
        PROVE  KnowsOf(w)'
    <3>1. CASE ~AllWild /\ ~(WWSize > 0)
      <4>1. pc'[w] = "idle"
        BY <1>0, <2>4, <3>1 DEF AfterScan, Finish, Goto, TypeOK
      <4> QED
        BY <4>1, KnowsNothing
    <3>2. CASE AllWild \/ WWSize > 0
      <4>1. /\ dp'[w] = d /\ probe'[w] = 0 /\ limit'[w] = MaxProbe
            /\ pc'[w] = IF AllWild THEN "store" ELSE "ww"
        BY <1>0, <2>1, <2>2, <2>4, <3>2 DEF AfterScan, Goto, TypeOK
      <4>2. CASE AllWild
        <5>1. Knows(d, 0, "store", MaxProbe)
          BY <2>4, <4>2 DEF Knows, IsKept, InBuffer, HoldsHome
        <5> QED
          BY <1>1, <4>1, <4>2, <5>1, KnowsStays, KnowsOfNext
      <4>3. CASE ~AllWild
        <5>1. Knows(d, 0, "ww", MaxProbe)
          BY <2>2, <2>4, <4>3 DEF Knows, IsKept, InBuffer, HoldsHome
        <5> QED
          BY <1>1, <4>1, <4>3, <5>1, KnowsStays, KnowsOfNext
      <4> QED
        BY <4>2, <4>3
    <3> QED
      BY <3>1, <3>2
  <2>5. CASE (ScanEmpty(w) \/ ScanDuplicate(w) \/ ScanNext(w)) /\ pc'[w] # "scan"
    <3>1. NothingOwed(d) /\ \E o : AfterScan(w, o)
      BY <2>1, <2>5, SearchSettles
    <3> QED
      BY <2>4, <3>1
  <2>6. CASE ScanReport(w)
    <3>1. pc'[w] = "idle"
      BY <1>0, <2>6 DEF ScanReport, Finish, Goto, TypeOK
    <3> QED
      BY <3>1, KnowsNothing
  <2>7. CASE (ScanEmpty(w) \/ ScanDuplicate(w) \/ ScanNext(w)) /\ pc'[w] = "scan"
    <3>1. pc[w] = "copy"
      BY <2>7 DEF ScanEmpty, ScanDuplicate, ScanNext, EndCopy
    <3>2. Copied1(w) = part1[t][s] /\ Copied2(w) = part2[t][s]
      BY <1>0, <2>1, <3>1 DEF ExactOf
    <3>3. /\ ~IsEmpty(Copied1(w), Copied2(w)) /\ ~XSigMatch(Copied2(w), d)
          /\ p + 1 < MaxProbe /\ probe' = [probe EXCEPT ![w] = p + 1]
          /\ UNCHANGED <<dp, limit>>
      BY <1>0, <2>1, <2>2, <2>7 DEF ScanEmpty, ScanDuplicate, ScanNext, AfterScan, Finish, Goto,
         NextProbe, TypeOK
    <3>4. Passed(t, d, p + 1)
      BY <1>0, <2>2, <3>2, <3>3, AllPassed DEF SlotIsEmpty
    <3>5. dp'[w] = d /\ pc'[w] = "scan" /\ probe'[w] = p + 1 /\ limit'[w] = MaxProbe
      BY <1>0, <2>1, <2>2, <2>7, <3>3 DEF TypeOK
    <3>6. Knows(d, p + 1, "scan", MaxProbe)
      BY <2>2, <3>3, <3>4 DEF Knows, InBuffer, HoldsHome
    <3> QED
      BY <1>1, <3>5, <3>6, KnowsStays, KnowsOfNext
  <2>8. CASE BeginCopy(w)
    <3>1. /\ dp'[w] = d /\ pc'[w] = "copy" /\ probe'[w] = p /\ limit'[w] = MaxProbe
      BY <1>0, <2>1, <2>2, <2>8 DEF BeginCopy, Goto, TypeOK
    <3>2. Knows(d, p, "copy", MaxProbe)
      BY <2>2 DEF Knows, InBuffer, HoldsHome
    <3> QED
      BY <1>1, <3>1, <3>2, KnowsStays, KnowsOfNext
  <2> QED
    BY <1>4, <2>5, <2>6, <2>7, <2>8 DEF Search
<1> QED
  BY <1>2, <1>3, <1>4

\* AddToTable.
LEMMA KnowsStore ==
  ASSUME SeqInv, NEW w \in Threads, OneThread(w), AddToTable(w)
  PROVE  KnowsOf(w)'
<1>0. /\ TypeOK /\ NoHoles /\ KnowsOf(w) /\ ChainOf(w) /\ NoRotation
      /\ \A t \in TableIds : ~circular[t]
      /\ MaxProbe \in Nat \ {0}
  BY StoreAssumption DEF SeqInv, OneThread, WholeInv, ChainInv
<1>1. pc[w] # "idle"
  BY DEF AddToTable, Lock, ProbeEmpty, ProbeDuplicate, ProbeNext, Freeze, ActivateRotation,
     SaveDiscarded, PackPart1, PackPart2, Count
<1>2. PICK d, p, m : d = dp[w] /\ p = probe[w] /\ m = limit[w]
  OBVIOUS
<1>3. d \in Points /\ p \in Nat /\ StoreIdx(d) \in TableIds
  BY <1>0, <1>1, <1>2, IdxType DEF TypeOK
<1> DEFINE t == StoreIdx(d)
           s == Slot(d, p)
<1>4. s \in Slots /\ Here(w) = s
  BY <1>2, <1>3, SlotType DEF Here
<1>5. Knows(d, p, pc[w], m)
  BY <1>0, <1>2 DEF KnowsOf
<1>6. CASE Lock(w)
  <2>1. \/ pc'[w] = "idle"
        \/ /\ ~frozen[t] /\ pc[w] = "store" /\ pc'[w] = "probe"
           /\ UNCHANGED <<dp, probe, limit, part1, part2, frozen>>
    BY <1>0, <1>2, <1>3, <1>6 DEF Lock, GateShut, Finish, Goto, TypeOK, storeOnly, tables, flags
  <2>2. CASE pc'[w] = "idle"
    BY <2>2, KnowsNothing
  <2>3. CASE /\ ~frozen[t] /\ pc[w] = "store" /\ pc'[w] = "probe"
             /\ UNCHANGED <<dp, probe, limit, part1, part2, frozen>>
    <3>1. p = 0 /\ NothingOwed(d) /\ IsKept(d)
      BY <1>0, <1>2, <1>5, <2>3 DEF ChainOf, Knows
    <3>2. Passed(t, d, p)
      BY <1>0, <3>1 DEF Passed
    <3>3. Knows(d, p, "probe", m)
      BY <2>3, <3>1, <3>2 DEF Knows, InBuffer, HoldsHome
    <3> QED
      BY <1>2, <2>3, <3>3, KnowsStays, KnowsOfNext
  <2> QED
    BY <2>1, <2>2, <2>3
<1>7. CASE ProbeEmpty(w)
  <2>1. /\ pc[w] = "probe" /\ SlotIsEmpty(t, s) /\ pc'[w] = "pack"
        /\ UNCHANGED <<dp, probe, limit, part1, part2, frozen>>
    BY <1>0, <1>2, <1>4, <1>7 DEF ProbeEmpty, Goto, TypeOK, storeOnly, tables, flags
  <2>2. NothingOwed(d) /\ IsKept(d) /\ ~frozen[t] /\ Passed(t, d, p)
    BY <1>5, <2>1 DEF Knows, HoldsHome
  <2>3. \A e \in Stored(t) : ~Abs!SameKey(e, d)
    BY <1>0, <1>3, <2>1, <2>2, KeyUnseen
  <2>4. part1[t][s] = Zero /\ part2[t][s] = Zero
    BY <2>1 DEF SlotIsEmpty, IsEmpty
  <2>5. Knows(d, p, "pack", m)
    BY <2>2, <2>3, <2>4 DEF Knows, InBuffer, HoldsHome
  <2> QED
    BY <1>2, <2>1, <2>5, KnowsStays, KnowsOfNext
<1>8. CASE ProbeNext(w)
  <2>1. /\ pc[w] = "probe" /\ ~SlotIsEmpty(t, s) /\ ~XSigMatch(part2[t][s], d)
        /\ UNCHANGED <<dp, limit, part1, part2, frozen>>
        /\ \/ pc'[w] = "full" /\ probe' = probe
           \/ pc'[w] = "probe" /\ probe'[w] = p + 1 /\ p < MaxProbe
    <3>1. pc[w] = "probe" /\ p < MaxProbe
      BY <1>0, <1>2, <1>8 DEF ProbeNext, ChainOf
    <3> QED
      BY <1>0, <1>2, <1>4, <1>8, <3>1 DEF ProbeNext, NextProbe, Goto, TypeOK, storeOnly, tables, flags
  <2>2. NothingOwed(d) /\ IsKept(d) /\ ~frozen[t] /\ Passed(t, d, p)
    BY <1>5, <2>1 DEF Knows, HoldsHome
  <2>3. CASE pc'[w] = "full" /\ probe' = probe
    <3>1. Knows(d, p, "full", m)
      BY <2>2 DEF Knows, InBuffer, HoldsHome
    <3> QED
      BY <1>2, <2>1, <2>3, <3>1, KnowsStays, KnowsOfNext
  <2>4. CASE pc'[w] = "probe" /\ probe'[w] = p + 1 /\ p < MaxProbe
    <3>1. Passed(t, d, p + 1)
      BY <1>0, <1>3, <2>1, <2>2, <2>4, AllPassed
    <3>2. Knows(d, p + 1, "probe", m)
      BY <2>2, <3>1 DEF Knows, InBuffer, HoldsHome
    <3> QED
      BY <1>2, <2>1, <2>4, <3>2, KnowsStays, KnowsOfNext
  <2> QED
    BY <2>1, <2>3, <2>4
<1>9. CASE PackPart1(w)
  <2>1. /\ pc[w] = "pack" /\ pc'[w] = "pack2" /\ part1'[t][s] = d
        /\ UNCHANGED <<dp, probe, limit, part2, frozen>>
    <3>1. pc[w] = "pack"
      BY <1>5, <1>9 DEF PackPart1, Knows
    <3> QED
      BY <1>0, <1>2, <1>3, <1>4, <1>9, <3>1 DEF PackPart1, Goto, TypeOK, flags
  <2>2. /\ NothingOwed(d) /\ IsKept(d) /\ ~frozen[t] /\ part2[t][s] = Zero
        /\ \A e \in Stored(t) : ~Abs!SameKey(e, d)
    BY <1>5, <2>1 DEF Knows, HoldsHome
  <2>3. \A u : Stored(u)' = Stored(u)
    BY <2>1 DEF Stored
  <2>4. NothingOwed(d)' /\ ~frozen'[t] /\ part2'[t][s] = Zero
        /\ \A e \in Stored(t)' : ~Abs!SameKey(e, d)'
    BY <2>1, <2>2, <2>3 DEF NothingOwed, CheckIdx, StoreIdx, Abs!SameKey, Abs!SameSig, Abs!SameDist
  <2>5. Knows(d, p, "pack2", m)'
    BY <2>1, <2>2, <2>4 DEF Knows, IsKept, InBuffer, HoldsHome, CheckIdx, StoreIdx
  <2> QED
    BY <1>2, <2>1, <2>5, KnowsOfNext
<1>10. CASE ProbeDuplicate(w) \/ Freeze(w) \/ PackPart2(w) \/ Count(w)
  <2>1. pc'[w] \in {"idle", "count"}
    <3>1. pc[w] # "rot2"
      BY <1>5 DEF Knows
    <3> QED
      BY <1>0, <1>10, <3>1 DEF ProbeDuplicate, Freeze, PackPart2, Count, Finish, Goto, TypeOK
  <2> QED
    BY <2>1, KnowsNothing
<1>11. CASE ActivateRotation(w) \/ SaveDiscarded(w)
  BY <1>0, <1>5, <1>11 DEF ActivateRotation, SaveDiscarded, Knows
<1> QED
  BY <1>6, <1>7, <1>8, <1>9, <1>10, <1>11 DEF AddToTable

\* CheckWWBuffer.
LEMMA KnowsWW ==
  ASSUME SeqInv, NEW w \in Threads, OneThread(w), CheckWWBuffer(w)
  PROVE  KnowsOf(w)'
<1>0. TypeOK /\ KnowsOf(w)
  BY DEF SeqInv
<1>1. UNCHANGED <<part1, part2, frozen>> /\ pc[w] \in InBuffer
  BY DEF CheckWWBuffer, WWBegin, WWReport, WWMiss, WWStore, storeOnly, tables, flags, InBuffer
<1>2. CASE WWReport(w) \/ WWStore(w)
  <2>1. pc'[w] = "idle"
    BY <1>0, <1>2 DEF WWReport, WWStore, Finish, Goto, TypeOK
  <2> QED
    BY <2>1, KnowsNothing
<1>3. CASE WWBegin(w) \/ WWMiss(w)
  <2>1. PICK d, p, l, q, m : d = dp[w] /\ p = probe'[w] /\ l = pc'[w] /\ q = probe[w] /\ m = limit[w]
    OBVIOUS
  <2>2. l \in {"wwscan", "wwstore"} /\ dp'[w] = d /\ limit'[w] = m
    BY <1>0, <1>3, <2>1 DEF WWBegin, WWMiss, Goto, TypeOK
  <2>3. NothingOwed(d) /\ ~IsKept(d)
    BY <1>0, <1>1, <2>1 DEF KnowsOf, Knows
  <2>4. Knows(d, p, l, m)
    BY <2>2, <2>3 DEF Knows, InBuffer, HoldsHome
  <2> QED
    BY <1>1, <2>1, <2>2, <2>4, KnowsStays, KnowsOfNext
<1> QED
  BY <1>2, <1>3 DEF CheckWWBuffer

\* The steps of the one thread.
LEMMA OneSteps ==
  ASSUME NEW w \in Threads, OneThread(w), [Next]_vars
  PROVE  \/ UNCHANGED <<tables, flags, count, ww, collision, todo, pc, dp, probe, limit>>
         \/ AddTame(w) \/ CheckWild(w) \/ Search(w) \/ AddToTable(w) \/ CheckWWBuffer(w)
<1>1. CASE UNCHANGED vars
  BY <1>1 DEF vars, flags, tallies, mailbox
<1>2. CASE ClearCollision
  BY <1>2 DEF ClearCollision, storeOnly, tallies
<1> QED
  BY <1>1, <1>2 DEF OneThread, Next, Step

LEMMA KnowsStep ==
  ASSUME SeqInv, NEW w \in Threads, OneThread(w), [Next]_vars
  PROVE  KnowsOf(w)'
<1>1. CASE UNCHANGED <<tables, flags, count, ww, collision, todo, pc, dp, probe, limit>>
  <2>1. UNCHANGED <<part1, part2, frozen, pc, dp, probe, limit>> /\ KnowsOf(w)
    BY <1>1 DEF tables, flags, SeqInv
  <2>2. PICK d, p, l, m : d = dp[w] /\ p = probe[w] /\ l = pc[w] /\ m = limit[w]
    OBVIOUS
  <2>3. Knows(d, p, l, m)
    BY <2>1, <2>2 DEF KnowsOf
  <2> QED
    BY <2>1, <2>2, <2>3, KnowsStays, KnowsOfNext
<1> QED
  BY <1>1, OneSteps, KnowsSearch, KnowsStore, KnowsWW

\* What one thread knows of the buffer.
LEMMA BufferStep ==
  ASSUME SeqInv, NEW w \in Threads, OneThread(w), [Next]_vars
  PROVE  BufferInv'
<1>0. TypeOK /\ BufferInv /\ Threads = {w}
  BY DEF SeqInv, OneThread
<1>1. CASE UNCHANGED <<tables, flags, count, ww, collision, todo, pc, dp, probe, limit>>
  BY <1>0, <1>1 DEF BufferInv, BufferOf, Reports, Collides, Matches, IsEmpty, XSigMatch, SigOf,
     SameDist, LoOf, HiOf, CrossType, TypeOf
<1>2. CASE AddTame(w) \/ CheckWild(w) \/ Search(w) \/ AddToTable(w)
  <2>1. ww' = ww
    BY <1>2, OnlyWWStore DEF Step, WWStore, AddTame, CheckWild, Search, BeginCopy, ScanEmpty,
       ScanReport,
       ScanDuplicate, ScanNext, Scanning, EndCopy, AddToTable, Lock, ProbeEmpty, ProbeDuplicate,
       ProbeNext,
       Freeze, ActivateRotation, SaveDiscarded, PackPart1, PackPart2, Count
  <2>2. pc'[w] \notin {"wwscan", "wwstore"} /\ (pc'[w] = "ww" => probe'[w] = 0)
    <3>1. CASE AddTame(w) \/ CheckWild(w) \/ Search(w)
      BY <1>0, <3>1 DEF AddTame, CheckWild, Search, BeginCopy, ScanEmpty, ScanReport,
         ScanDuplicate, ScanNext,
         Scanning, EndCopy, AfterScan, Finish, Goto, TypeOK
    <3>2. CASE AddToTable(w)
      BY <1>0, <3>2 DEF AddToTable, Lock, ProbeEmpty, ProbeDuplicate, ProbeNext,
         Freeze, ActivateRotation, SaveDiscarded, PackPart1, PackPart2, Count, Finish, Goto, TypeOK
    <3> QED
      BY <1>2, <3>1, <3>2
  <2> QED
    BY <1>0, <2>1, <2>2 DEF BufferInv, BufferOf
<1>3. CASE WWBegin(w) \/ WWReport(w)
  <2>1. ww' = ww /\ pc'[w] \in {"idle", "wwscan"} /\ (pc'[w] = "wwscan" => probe'[w] = 0)
    BY <1>0, <1>3 DEF WWBegin, WWReport, Finish, Goto, TypeOK, storeOnly, BufferInv, BufferOf
  <2> QED
    BY <1>0, <2>1 DEF BufferInv, BufferOf
<1>4. CASE WWMiss(w)
  <2>1. PICK d, p : d = dp[w] /\ p = probe[w]
    OBVIOUS
  <2>2. /\ pc[w] = "wwscan" /\ pc'[w] \in {"wwscan", "wwstore"} /\ UNCHANGED <<ww, dp>>
    BY <1>0, <1>4 DEF WWMiss, Goto, TypeOK, storeOnly
  <2>3. ~Reports(ww[WWSlot(d, 0)], d)
    <3>1. CASE p # 0
      BY <1>0, <2>1, <2>2, <3>1 DEF BufferInv, BufferOf
    <3>2. CASE p = 0
      BY <1>4, <2>1, <3>2 DEF WWMiss, WWHere, Reports, Collides, Matches, IsEmpty
    <3> QED
      BY <3>1, <3>2
  <2>4. ~Reports(ww'[WWSlot(dp'[w], 0)], dp'[w])
    BY <2>1, <2>2, <2>3
  <2>5. ~Reports(ww[WWSlot(dp[w], 0)], dp[w])'
    BY <2>4 DEF Reports, Collides, Matches, IsEmpty, XSigMatch, SigOf, SameDist, LoOf, HiOf,
       CrossType, TypeOf, WWSlot
  <2> QED
    BY <1>0, <2>2, <2>5 DEF BufferInv, BufferOf
<1>5. CASE WWStore(w)
  <2>1. PICK d : d = dp[w]
    OBVIOUS
  <2>2. /\ pc[w] = "wwstore" /\ pc'[w] = "idle" /\ ww' = [ww EXCEPT ![WWSlot(d, 0)] = d]
    BY <1>0, <1>5, <2>1 DEF WWStore, Finish, Goto, TypeOK
  <2>3. \A s \in WWSlots : ww'[s] # Zero => WWSlot(ww'[s], 0) = s
    BY <1>0, <2>2 DEF BufferInv, TypeOK
  <2> QED
    BY <1>0, <2>2, <2>3 DEF BufferInv, BufferOf, WWSlot
<1> QED
  BY <1>1, <1>2, <1>3, <1>4, <1>5, OneSteps DEF CheckWWBuffer

\* What the packing of a DP does: the entry is written where nothing was.
LEMMA PackingSteps ==
  ASSUME SeqInv, NEW w \in Threads, OneThread(w), PackPart1(w) \/ PackPart2(w)
  PROVE  \E d \in Points, t \in TableIds, s \in Slots :
           /\ d = dp[w] /\ t = StoreIdx(d) /\ s = Here(w) /\ part2[t][s] = Zero
           /\ \/ /\ PackPart1(w) /\ pc[w] = "pack" /\ pc'[w] = "pack2" /\ UNCHANGED <<dp, probe, part2>>
                 /\ part1' = [part1 EXCEPT ![t][s] = d]
              \/ /\ PackPart2(w) /\ pc[w] = "pack2" /\ pc'[w] = "count" /\ UNCHANGED <<dp, probe, part1>>
                 /\ part2' = [part2 EXCEPT ![t][s] = d] /\ part1[t][s] = d
<1>0. TypeOK /\ KnowsOf(w)
  BY DEF SeqInv
<1>1. PICK d, p, m : d = dp[w] /\ p = probe[w] /\ m = limit[w]
  OBVIOUS
<1>2. pc[w] \in {"pack", "pack2"} /\ Knows(d, p, pc[w], m)
  BY <1>0, <1>1 DEF KnowsOf, Knows, PackPart1, PackPart2
<1>3. d \in Points /\ p \in Nat /\ StoreIdx(d) \in TableIds
  BY <1>0, <1>1, <1>2, IdxType DEF TypeOK
<1>4. Here(w) \in Slots /\ Here(w) = Slot(d, p)
  BY <1>1, <1>3, SlotType DEF Here
<1>5. part2[StoreIdx(d)][Here(w)] = Zero
      /\ (pc[w] = "pack2" => part1[StoreIdx(d)][Here(w)] = d)
  BY <1>2, <1>4 DEF Knows
<1>6. CASE PackPart1(w)
  <2>1. /\ pc[w] = "pack" /\ pc'[w] = "pack2" /\ UNCHANGED <<dp, probe, part2>>
        /\ part1' = [part1 EXCEPT ![StoreIdx(d)][Here(w)] = d]
    BY <1>0, <1>1, <1>2, <1>6 DEF PackPart1, Goto, TypeOK
  <2> QED
    BY <1>1, <1>3, <1>4, <1>5, <1>6, <2>1
<1>7. CASE PackPart2(w)
  <2>1. /\ pc[w] = "pack2" /\ pc'[w] = "count" /\ UNCHANGED <<dp, probe, part1>>
        /\ part2' = [part2 EXCEPT ![StoreIdx(d)][Here(w)] = d]
    BY <1>0, <1>1, <1>2, <1>7 DEF PackPart2, Goto, TypeOK
  <2> QED
    BY <1>1, <1>3, <1>4, <1>5, <1>7, <2>1
<1> QED
  BY <1>6, <1>7

\* Nothing but the packing touches an entry, or leaves one half written.
LEMMA OtherSteps ==
  ASSUME SeqInv, NEW w \in Threads, OneThread(w), [Next]_vars, ~PackPart1(w), ~PackPart2(w)
  PROVE  /\ UNCHANGED <<part1, part2>>
         /\ \/ UNCHANGED <<pc, dp, probe>>
            \/ pc[w] # "pack2" /\ pc'[w] # "pack2"
<1>1. TypeOK /\ KnowsOf(w)
  BY DEF SeqInv
<1>2. UNCHANGED <<part1, part2>>
  BY OnlyPacking DEF OneThread, tables
<1>3. CASE AddTame(w) \/ CheckWild(w) \/ Search(w)
  <2>1. pc[w] \in {"idle", "scan", "copy"}
    BY <1>3 DEF AddTame, CheckWild, Search, BeginCopy, ScanEmpty, ScanReport, ScanDuplicate,
       ScanNext, Scanning, EndCopy
  <2>2. pc'[w] \in {"idle", "scan", "copy", "store", "ww"}
    BY <1>1, <1>3 DEF AddTame, CheckWild, Search, BeginCopy, ScanEmpty, ScanReport, ScanDuplicate,
       ScanNext,
       Scanning, EndCopy, AfterScan, Finish, Goto, TypeOK
  <2> QED
    BY <1>2, <2>1, <2>2
<1>4. CASE AddToTable(w)
  <2>1. pc[w] # "pack2"
    BY <1>4 DEF AddToTable, Lock, ProbeEmpty, ProbeDuplicate, ProbeNext, Freeze, ActivateRotation,
       SaveDiscarded, Count
  <2>2. pc'[w] # "pack2"
    BY <1>1, <1>4, <2>1 DEF AddToTable, Lock, ProbeEmpty, ProbeDuplicate, ProbeNext, Freeze,
       ActivateRotation, SaveDiscarded, Count, Finish, Goto, TypeOK
  <2> QED
    BY <1>2, <2>1, <2>2
<1>5. CASE CheckWWBuffer(w)
  <2>1. pc[w] # "pack2" /\ pc'[w] # "pack2"
    BY <1>1, <1>5 DEF CheckWWBuffer, WWBegin, WWReport, WWMiss, WWStore, Finish, Goto, TypeOK
  <2> QED
    BY <1>2, <2>1
<1>6. CASE UNCHANGED <<tables, flags, count, ww, collision, todo, pc, dp, probe, limit>>
  BY <1>2, <1>6
<1> QED
  BY <1>3, <1>4, <1>5, <1>6, OneSteps

LEMMA WholeStep ==
  ASSUME SeqInv, NEW w \in Threads, OneThread(w), [Next]_vars
  PROVE  WholeInv'
<1>0. /\ TypeOK /\ SettledInv /\ WholeInv /\ Threads = {w} /\ NoRotation
      /\ part1 \in [TableIds -> [Slots -> Half]] /\ part2 \in [TableIds -> [Slots -> Half]]
  BY DEF SeqInv, OneThread, TypeOK
<1>1. \A t \in TableIds : ~circular'[t]
  <2>1. circular' = circular
    <3>1. CASE UNCHANGED <<tables, flags, count, ww, collision, todo, pc, dp, probe, limit>>
      BY <3>1 DEF flags
    <3>2. CASE AddTame(w) \/ CheckWild(w) \/ Search(w)
      BY <3>2 DEF AddTame, CheckWild, Search, BeginCopy, ScanEmpty, ScanReport, ScanDuplicate,
         ScanNext,
         storeOnly, flags
    <3>3. CASE AddToTable(w)
      BY <1>0, <3>3 DEF AddToTable, Lock, ProbeEmpty, ProbeDuplicate, ProbeNext, Freeze,
         ActivateRotation, SaveDiscarded, PackPart1, PackPart2, Count, storeOnly, flags
    <3>4. CASE CheckWWBuffer(w)
      BY <3>4 DEF CheckWWBuffer, WWBegin, WWReport, WWMiss, WWStore, storeOnly, flags
    <3> QED
      BY <3>1, <3>2, <3>3, <3>4, OneSteps
  <2> QED
    BY <1>0, <2>1 DEF WholeInv
<1>2. CASE ~PackPart1(w) /\ ~PackPart2(w)
  <2>1. \/ UNCHANGED <<part1, part2, pc, dp, probe>>
        \/ UNCHANGED <<part1, part2>> /\ pc[w] # "pack2" /\ pc'[w] # "pack2"
    BY <1>2, OtherSteps
  <2>2. CASE UNCHANGED <<part1, part2, pc, dp, probe>>
    BY <1>0, <1>1, <2>2 DEF WholeInv, Here
  <2>3. CASE UNCHANGED <<part1, part2>> /\ pc[w] # "pack2" /\ pc'[w] # "pack2"
    BY <1>0, <1>1, <2>3 DEF WholeInv
  <2> QED
    BY <2>1, <2>2, <2>3
<1>3. CASE PackPart1(w) \/ PackPart2(w)
  <2>1. PICK d \in Points, t \in TableIds, s \in Slots :
          /\ d = dp[w] /\ t = StoreIdx(d) /\ s = Here(w) /\ part2[t][s] = Zero
          /\ \/ /\ PackPart1(w) /\ pc[w] = "pack" /\ pc'[w] = "pack2" /\ UNCHANGED <<dp, probe, part2>>
                /\ part1' = [part1 EXCEPT ![t][s] = d]
             \/ /\ PackPart2(w) /\ pc[w] = "pack2" /\ pc'[w] = "count" /\ UNCHANGED <<dp, probe, part1>>
                /\ part2' = [part2 EXCEPT ![t][s] = d] /\ part1[t][s] = d
    BY <1>3, PackingSteps
  <2>2. CASE /\ pc[w] = "pack" /\ pc'[w] = "pack2" /\ UNCHANGED <<dp, probe, part2>>
             /\ part1' = [part1 EXCEPT ![t][s] = d]
    <3>1. \A u \in TableIds, r \in Slots : part1[u][r] = part2[u][r]
      BY <1>0, <2>2 DEF WholeInv
    <3>2. \A u \in TableIds, r \in Slots :
            (u = t /\ r = s) \/ part1'[u][r] = part2'[u][r]
      BY <1>0, <2>2, <3>1
    <3>3. pc'[w] = "pack2" /\ StoreIdx(dp'[w]) = t /\ Here(w)' = s
      BY <2>1, <2>2 DEF Here
    <3>4. \A u \in TableIds, q, r \in Slots :
            part2'[u][q] # Zero /\ part2'[u][q] = part2'[u][r] => q = r
      BY <1>0, <2>2 DEF WholeInv
    <3> QED
      BY <1>0, <1>1, <3>2, <3>3, <3>4 DEF WholeInv
  <2>3. CASE /\ pc[w] = "pack2" /\ pc'[w] = "count" /\ UNCHANGED <<dp, probe, part1>>
             /\ part2' = [part2 EXCEPT ![t][s] = d] /\ part1[t][s] = d
    <3>1. \A u \in TableIds, r \in Slots : (u = t /\ r = s) \/ part1[u][r] = part2[u][r]
      BY <1>0, <2>1, <2>3 DEF WholeInv
    <3>2. \A u \in TableIds, r \in Slots : part1'[u][r] = part2'[u][r]
      BY <1>0, <2>3, <3>1
    <3>3. \A u \in TableIds, r \in Slots : part2[u][r] # d
      <4>1. d # Zero
        BY StoreAssumption
      <4> QED
        BY <1>0, <2>1, <2>3, <4>1 DEF SettledInv, NotComing, InBuffer
    <3>4. part2'[t][s] = d /\ \A u \in TableIds, r \in Slots : (u = t /\ r = s) \/ part2'[u][r] = part2[u][r]
      BY <1>0, <2>3
    <3>5. \A u \in TableIds, q, r \in Slots :
            part2'[u][q] # Zero /\ part2'[u][q] = part2'[u][r] => q = r
      <4> SUFFICES ASSUME NEW u \in TableIds, NEW q \in Slots, NEW r \in Slots,
                          part2'[u][q] # Zero, part2'[u][q] = part2'[u][r], q # r
                   PROVE  FALSE
        OBVIOUS
      <4>1. CASE u = t /\ (q = s \/ r = s)
        BY <3>3, <3>4, <4>1
      <4>2. CASE ~(u = t /\ (q = s \/ r = s))
        <5>1. part2'[u][q] = part2[u][q] /\ part2'[u][r] = part2[u][r]
          BY <3>4, <4>2
        <5>2. part2[u][q] # Zero /\ part2[u][q] = part2[u][r] /\ q # r
          BY <5>1
        <5> QED
          BY <1>0, <5>2 DEF WholeInv
      <4> QED
        BY <4>1, <4>2
    <3> QED
      BY <1>1, <3>2, <3>5 DEF WholeInv
  <2> QED
    BY <2>1, <2>2, <2>3
<1> QED
  BY <1>2, <1>3

\* A copy that has just begun is of the slot as it is.
LEMMA ExactStep ==
  ASSUME SeqInv, NEW w \in Threads, OneThread(w), [Next]_vars
  PROVE  ExactOf(w)'
<1>0. TypeOK /\ ExactOf(w)
  BY DEF SeqInv
<1> SUFFICES ASSUME pc'[w] = "copy" PROVE ExactOf(w)'
  BY DEF ExactOf
<1>1. CASE Step(w)
  <2>1. BeginCopy(w)
    BY <1>0, <1>1, OnlyBeginCopy
  <2>2. PICK t \in TableIds, s \in Slots :
          /\ t = CheckIdx(dp[w]) /\ s = Slot(dp[w], probe[w])
          /\ \E c \in {[word |-> 1, half |-> part1[t][s]], [word |-> 2, half |-> part2[t][s]]} :
               copy'[w] = c
    BY <1>0, <2>1 DEF BeginCopy, Scanning, TypeOK
  <2>3. UNCHANGED <<part1, part2, dp, probe>>
    BY <2>1 DEF BeginCopy, storeOnly, tables
  <2> QED
    BY <2>2, <2>3 DEF ExactOf, Copied1, Copied2, CheckIdx, StoreIdx, Slot
<1>2. CASE ClearCollision \/ UNCHANGED vars
  <2>1. UNCHANGED <<part1, part2, pc, dp, probe, copy>>
    BY <1>2 DEF ClearCollision, vars, storeOnly, tables
  <2> QED
    BY <1>0, <2>1 DEF ExactOf, Copied1, Copied2, CheckIdx, StoreIdx, Slot
<1> QED
  BY <1>1, <1>2 DEF Next, OneThread

LEMMA SeqStep ==
  ASSUME SeqInv, NEW w \in Threads, OneThread(w), [Next]_vars
  PROVE  SeqInv'
<1>1. TypeOK' /\ ChainInv' /\ NoHoles' /\ SettledInv'
  BY NextType, ChainInvStep, NoHolesStep, SettledStep DEF SeqInv
<1>2. WholeInv' /\ BufferInv' /\ KnowsOf(w)' /\ ExactOf(w)'
  BY WholeStep, BufferStep, KnowsStep, ExactStep
<1> QED
  BY <1>1, <1>2 DEF SeqInv, OneThread

LEMMA SeqInit ==
  ASSUME NEW w \in Threads, OneThread(w), Init
  PROVE  SeqInv
<1>1. TypeOK
  BY InitType
<1>2. ChainInv /\ NoHoles /\ SettledInv
  BY DEF Init, ChainInv, ChainOf, NoHoles, SettledInv
<1>3. WholeInv
  BY DEF Init, WholeInv
<1>4. KnowsOf(w) /\ ExactOf(w)
  BY DEF Init, KnowsOf, Knows, ExactOf, InBuffer, HoldsHome
<1>5. BufferInv
  BY DEF Init, BufferInv, BufferOf
<1> QED
  BY <1>1, <1>2, <1>3, <1>4, <1>5 DEF SeqInv, OneThread

-----------------------------------------------------------------------------
\* The refinement of DpStore.

\* The DPs that were not answered yet.
Waiting == todo \cup {dp[w] : w \in {v \in Threads : pc[v] \notin {"idle", "count"}}}

LEMMA Answered ==
  ASSUME NEW w, Threads = {w}, SettledInv, pc[w] \notin {"idle", "count"},
         pc'[w] \in {"idle", "count"}, todo' = todo
  PROVE  dp[w] \in Waiting /\ Waiting' = Waiting \ {dp[w]}
<1>1. dp[w] \notin todo
  BY DEF SettledInv
<1>2. Waiting = todo \cup {dp[w]} /\ Waiting' = todo
  BY DEF Waiting
<1> QED
  BY <1>1, <1>2

LEMMA Unanswered ==
  ASSUME NEW w, Threads = {w}, dp'[w] = dp[w], todo' = todo,
         pc[w] \in {"idle", "count"} <=> pc'[w] \in {"idle", "count"}
  PROVE  Waiting' = Waiting
BY DEF Waiting

LEMMA AbsStutters ==
  ASSUME Waiting' = Waiting, UNCHANGED <<part2, frozen, ww, collision>>
  PROVE  [Abs!Next]_(Abs!vars)
BY DEF Waiting, Abs!vars

\* The DPs of a table whose probe sequence from d is full.
LEMMA FullStored ==
  ASSUME TypeOK, Tri(MaxProbe - 1) < TableSize, NEW t \in TableIds, NEW d \in Points,
         Chain(t, d, MaxProbe),
         \A s \in Slots : part1[t][s] = part2[t][s],
         \A r, s \in Slots : part2[t][r] # Zero /\ part2[t][r] = part2[t][s] => r = s
  PROVE  Cardinality(Stored(t)) >= MaxProbe
<1>0. MaxProbe \in Nat \ {0} /\ TableSize \in Nat /\ part2[t] \in [Slots -> Half]
  BY StoreAssumption DEF TypeOK
<1> DEFINE J == 0 .. MaxProbe - 1
           f == [j \in J |-> part2[t][Slot(d, j)]]
           W == {part2[t][s] : s \in Slots}
<1>1. \A j \in J : j \in Nat /\ Slot(d, j) \in Slots
  BY SlotType
<1>2. \A j \in J : f[j] \in Stored(t)
  <2> SUFFICES ASSUME NEW j \in J PROVE part2[t][Slot(d, j)] \in Stored(t)
    OBVIOUS
  <2>1. ~SlotIsEmpty(t, Slot(d, j))
    BY <1>0 DEF Chain
  <2>2. part2[t][Slot(d, j)] # Zero
    BY <1>1, <2>1 DEF SlotIsEmpty, IsEmpty
  <2> QED
    BY <1>1, <2>2 DEF Stored
<1>3. \A i, j \in J : f[i] = f[j] => i = j
  <2> SUFFICES ASSUME NEW i \in J, NEW j \in J, f[i] = f[j], i # j PROVE FALSE
    OBVIOUS
  <2>1. f[i] # Zero
    BY <1>2 DEF Stored
  <2>2. Slot(d, i) = Slot(d, j)
    BY <1>1, <2>1
  <2>3. i < j \/ j < i
    BY <1>1
  <2> QED
    BY <2>2, <2>3, SlotsApart
<1>4. IsFiniteSet(Stored(t))
  <2>1. IsFiniteSet(Slots)
    BY FiniteSlots
  <2>2. part2[t] \in Surjection(Slots, W)
    BY <1>0 DEF Surjection
  <2>3. IsFiniteSet(W)
    <3> HIDE DEF W
    <3> QED
      BY <2>1, <2>2, FS_Surjection
  <2>4. IsFiniteSet(W \ {Zero})
    <3> HIDE DEF W
    <3> QED
      BY <2>3, FS_Difference
  <2> QED
    BY <2>4 DEF Stored
<1>5. f \in Injection(J, Stored(t))
  BY <1>2, <1>3 DEF Injection, IsInjective
<1>6. Cardinality(J) = MaxProbe
  <2>1. 0 \in Int /\ MaxProbe - 1 \in Int
    BY <1>0
  <2>2. Cardinality(0 .. MaxProbe - 1) = IF 0 > MaxProbe - 1 THEN 0 ELSE MaxProbe - 1 - 0 + 1
    BY ONLY <2>1, FS_Interval
  <2> QED
    BY <1>0, <2>2
<1>7. IsFiniteSet(Stored(t)) /\ Cardinality(J) <= Cardinality(Stored(t))
  <2> HIDE DEF f, J
  <2> QED
    BY <1>4, <1>5, FS_Injection
<1>8. Cardinality(Stored(t)) \in Nat
  BY <1>4, FS_CardinalityType
<1> QED
  BY <1>0, <1>6, <1>7, <1>8

\* The tables as the abstract store sees them.
LEMMA AbsStored ==
  ASSUME NEW t \in TableIds
  PROVE  /\ [u \in TableIds |-> {part2[u][s] : s \in Slots} \ {Zero}][t] = Stored(t)
         /\ [u \in TableIds |-> {part2[u][s] : s \in Slots} \ {Zero}]'[t] = Stored(t)'
BY DEF Stored

\* One lemma per answer.
LEMMA AbsReports ==
  ASSUME NEW d \in Waiting, d \in Points, Waiting' = Waiting \ {d}, d.type # TAME,
         NEW e \in Stored(CheckIdx(d)), Abs!SameSig(e, d), ~Abs!SameDist(e, d),
         collision' = <<e, e, d>>, UNCHANGED <<part2, frozen, ww>>
  PROVE  Abs!Next
<1>1. CheckIdx(d) \in TableIds /\ Abs!CheckIdx(d) = CheckIdx(d)
  BY IdxType DEF Abs!CheckIdx, Abs!StoreIdx, CheckIdx, StoreIdx, TAME
<1>2. Abs!Report(d)
  BY <1>1, AbsStored DEF Abs!Report, TAME
<1>3. Abs!Offer(d)
  BY <1>2 DEF Abs!Offer, Waiting
<1> QED
  BY <1>3 DEF Abs!Next, Waiting

LEMMA AbsDropsTwin ==
  ASSUME TypeOK, NEW d \in Waiting, d \in Points, Waiting' = Waiting \ {d}, NothingOwed(d), IsKept(d),
         NEW e \in Stored(StoreIdx(d)), Abs!SameSig(e, d), UNCHANGED <<part2, frozen, ww, collision>>
  PROVE  Abs!Next
<1>1. StoreIdx(d) \in TableIds /\ Abs!StoreIdx(d) = StoreIdx(d) /\ Abs!NothingToReport(d) /\ Abs!Kept(d)
  BY IdxType, AbsIs
<1>2. Abs!DropTwin(d)
  BY <1>1, AbsStored DEF Abs!DropTwin
<1>3. Abs!Offer(d)
  BY <1>2 DEF Abs!Offer, Waiting
<1> QED
  BY <1>3 DEF Abs!Next, Waiting

LEMMA AbsCardinality ==
  ASSUME NEW S
  PROVE  Abs!Cardinality(S) = Cardinality(S)
BY DEF Abs!Cardinality, Cardinality

LEMMA AbsDropsFull ==
  ASSUME TypeOK, NEW d \in Waiting, d \in Points, Waiting' = Waiting \ {d}, NothingOwed(d), IsKept(d),
         frozen[StoreIdx(d)] \/ Cardinality(Stored(StoreIdx(d))) >= MaxProbe,
         frozen' = [frozen EXCEPT ![StoreIdx(d)] = TRUE], UNCHANGED <<part2, ww, collision>>
  PROVE  Abs!Next
<1>1. StoreIdx(d) \in TableIds /\ Abs!StoreIdx(d) = StoreIdx(d) /\ Abs!NothingToReport(d) /\ Abs!Kept(d)
  BY IdxType, AbsIs
<1>2. \/ frozen[Abs!StoreIdx(d)]
      \/ Cardinality([u \in TableIds |-> {part2[u][s] : s \in Slots} \ {Zero}][Abs!StoreIdx(d)]) >= MaxProbe
  BY <1>1, AbsStored
<1>3. [u \in TableIds |-> {part2[u][s] : s \in Slots} \ {Zero}]'
        = [u \in TableIds |-> {part2[u][s] : s \in Slots} \ {Zero}]
  OBVIOUS
<1>4. frozen' = [frozen EXCEPT ![Abs!StoreIdx(d)] = TRUE]
  BY <1>1
<1>5. Abs!DropFull(d)
  BY <1>1, <1>2, <1>3, <1>4, AbsCardinality DEF Abs!DropFull
<1>6. Abs!Offer(d)
  BY <1>5 DEF Abs!Offer, Waiting
<1> QED
  BY <1>6 DEF Abs!Next, Waiting

LEMMA AbsKeeps ==
  ASSUME TypeOK, NEW d \in Waiting, d \in Points, Waiting' = Waiting \ {d}, NothingOwed(d), IsKept(d),
         ~frozen[StoreIdx(d)], \A e \in Stored(StoreIdx(d)) : ~Abs!SameKey(e, d),
         NEW s \in Slots, part2[StoreIdx(d)][s] = Zero,
         part2' = [part2 EXCEPT ![StoreIdx(d)][s] = d], UNCHANGED <<frozen, ww, collision>>
  PROVE  Abs!Next
<1> DEFINE t == StoreIdx(d)
           A == [u \in TableIds |-> {part2[u][r] : r \in Slots} \ {Zero}]
<1>1. t \in TableIds /\ Abs!StoreIdx(d) = t /\ Abs!NothingToReport(d) /\ Abs!Kept(d)
  BY IdxType, AbsIs
<1>2. A' = [A EXCEPT ![t] = @ \cup {d}]
  <2>0. part2 \in [TableIds -> [Slots -> Half]] /\ d # Zero
    BY StoreAssumption DEF TypeOK
  <2>1. \A u \in TableIds : u # t => part2'[u] = part2[u]
    BY <2>0, <1>1
  <2>2. part2'[t][s] = d /\ \A r \in Slots : r # s => part2'[t][r] = part2[t][r]
    BY <2>0, <1>1
  <2>3. Stored(t)' = Stored(t) \cup {d}
    BY <2>0, <2>2 DEF Stored
  <2>4. \A u \in TableIds : u # t => Stored(u)' = Stored(u)
    BY <2>1 DEF Stored
  <2>5. \A u \in TableIds : A[u] = Stored(u) /\ A'[u] = Stored(u)'
    BY AbsStored
  <2>6. A' = [u \in TableIds |-> IF u = t THEN A[t] \cup {d} ELSE A[u]]
    <3>1. A' = [u \in TableIds |-> Stored(u)']
      BY DEF Stored
    <3>2. \A u \in TableIds : Stored(u)' = IF u = t THEN A[t] \cup {d} ELSE A[u]
      BY <1>1, <2>3, <2>4, <2>5
    <3> HIDE DEF A
    <3> QED
      BY <3>1, <3>2
  <2> QED
    BY <2>6
<1>3. Abs!Keep(d)
  BY <1>1, <1>2, AbsStored DEF Abs!Keep
<1>4. Abs!Offer(d)
  BY <1>3 DEF Abs!Offer, Waiting
<1> QED
  BY <1>4 DEF Abs!Next, Waiting

\* The buffer as the abstract store sees it.
LEMMA PlaceIs ==
  ASSUME NEW d \in Points, NEW e \in Points, WWSize > 0
  PROVE  /\ Abs!SamePlace(e, d) <=> (WWSlot(e, 0) = WWSlot(d, 0))
         /\ WWSlot(d, 0) \in WWSlots
<1>1. /\ d.x \in DOMAIN Hash /\ e.x \in DOMAIN Hash
      /\ Hash[d.x] \in Nat /\ Hash[e.x] \in Nat
  BY StoreAssumption
<1>2. \A n \in Nat : n + (0 * (0 + 1)) \div 2 = n
  OBVIOUS
<1>3. WWSlot(d, 0) = Hash[d.x] % WWSize /\ WWSlot(e, 0) = Hash[e.x] % WWSize
  BY <1>1, <1>2 DEF WWSlot
<1>4. 0 \in Nat
  OBVIOUS
<1> QED
  BY <1>1, <1>3, <1>4, WWSlotType DEF Abs!SamePlace

LEMMA CrossesIs ==
  ASSUME NEW d \in Points, NEW e \in Points
  PROVE  Abs!Crosses(e, d) <=> Reports(e, d)
<1>1. e # Zero
  BY StoreAssumption
<1> QED
  BY <1>1 DEF Abs!Crosses, Abs!SameSig, Abs!SameDist, Reports, Collides, Matches, IsEmpty,
     XSigMatch, SigOf, SameDist, LoOf, HiOf, CrossType, TypeOf

LEMMA AbsReportsBuffered ==
  ASSUME TypeOK, NEW d \in Waiting, d \in Points, Waiting' = Waiting \ {d}, NothingOwed(d),
         ~IsKept(d), NEW e \in Buffered, Reports(e, d), collision' = <<e, e, d>>,
         UNCHANGED <<part2, frozen, ww>>
  PROVE  Abs!Next
<1>1. Abs!NothingToReport(d) /\ ~Abs!Kept(d)
  BY AbsIs
<1>2. e \in Points
  BY DEF Buffered, TypeOK, Half
<1>3. Abs!ReportBuffered(d)
  BY <1>1, <1>2, CrossesIs DEF Abs!ReportBuffered, Buffered
<1>4. Abs!Offer(d)
  BY <1>3 DEF Abs!Offer, Waiting
<1> QED
  BY <1>4 DEF Abs!Next, Waiting

\* A WILD goes to its place in the buffer, or nowhere when there is no buffer.
LEMMA AbsRemembers ==
  ASSUME TypeOK, BufferInv, NEW d \in Waiting, d \in Points, Waiting' = Waiting \ {d},
         NothingOwed(d), ~IsKept(d), UNCHANGED <<part2, frozen, collision>>,
         \/ ~(WWSize > 0) /\ ww' = ww
         \/ /\ WWSize > 0 /\ ~Reports(ww[WWSlot(d, 0)], d)
            /\ ww' = [ww EXCEPT ![WWSlot(d, 0)] = d]
  PROVE  Abs!Next
<1>1. Abs!NothingToReport(d) /\ ~Abs!Kept(d)
  BY AbsIs
<1>2. /\ \A e \in Buffered : Abs!SamePlace(e, d) => ~Abs!Crosses(e, d)
      /\ Buffered' = IF WWSize > 0 THEN {e \in Buffered : ~Abs!SamePlace(e, d)} \cup {d}
                     ELSE Buffered
  <2>1. CASE ~(WWSize > 0) /\ ww' = ww
    <3>1. WWSlots = {}
      BY <2>1, StoreAssumption DEF WWSlots
    <3> QED
      BY <2>1, <3>1 DEF Buffered
  <2>2. CASE /\ WWSize > 0 /\ ~Reports(ww[WWSlot(d, 0)], d)
             /\ ww' = [ww EXCEPT ![WWSlot(d, 0)] = d]
    <3>1. PICK h \in WWSlots : h = WWSlot(d, 0)
      BY <2>2, PlaceIs
    <3>2. \A s \in WWSlots : ww[s] # Zero =>
            /\ ww[s] \in Points
            /\ Abs!SamePlace(ww[s], d) <=> s = h
      <4> SUFFICES ASSUME NEW s \in WWSlots, ww[s] # Zero
                   PROVE  ww[s] \in Points /\ (Abs!SamePlace(ww[s], d) <=> s = h)
        OBVIOUS
      <4>1. ww[s] \in Points /\ WWSlot(ww[s], 0) = s
        BY DEF TypeOK, Half, BufferInv
      <4> QED
        BY <2>2, <3>1, <4>1, PlaceIs
    <3>3. ww'[h] = d /\ \A s \in WWSlots : s # h => ww'[s] = ww[s]
      BY <2>2, <3>1 DEF TypeOK
    <3>4. d # Zero
      BY StoreAssumption
    <3>5. \A e \in Buffered : Abs!SamePlace(e, d) => ~Abs!Crosses(e, d)
      BY <2>2, <3>1, <3>2, CrossesIs DEF Buffered
    <3>6. ASSUME NEW e PROVE e \in Buffered' <=> e \in {f \in Buffered : ~Abs!SamePlace(f, d)} \cup {d}
      <4>1. e \in Buffered' <=> e # Zero /\ \E s \in WWSlots : ww'[s] = e
        BY DEF Buffered
      <4>2. e \in Buffered <=> e # Zero /\ \E s \in WWSlots : ww[s] = e
        BY DEF Buffered
      <4>3. CASE e = d
        BY <3>3, <3>4, <4>1, <4>3
      <4>4. CASE e # d
        BY <3>2, <3>3, <4>1, <4>2, <4>4
      <4> QED
        BY <4>3, <4>4
    <3>7. Buffered' = {f \in Buffered : ~Abs!SamePlace(f, d)} \cup {d}
      BY <3>6
    <3> QED
      BY <2>2, <3>5, <3>7
  <2> QED
    BY <2>1, <2>2
<1>3. Abs!Remember(d)
  BY <1>1, <1>2 DEF Abs!Remember, Buffered
<1>4. Abs!Offer(d)
  BY <1>3 DEF Abs!Offer, Waiting
<1> QED
  BY <1>4 DEF Abs!Next, Waiting

\* The searches: the last slot read decides.
LEMMA SearchImplements ==
  ASSUME SeqInv, NEW w \in Threads, OneThread(w), AddTame(w) \/ CheckWild(w) \/ Search(w)
  PROVE  [Abs!Next]_(Abs!vars)
<1>0. TypeOK /\ SettledInv /\ WholeInv /\ BufferInv /\ KnowsOf(w) /\ ExactOf(w)
      /\ Threads = {w}
  BY DEF SeqInv, OneThread
<1>1. UNCHANGED <<part2, frozen, ww>>
  BY DEF AddTame, CheckWild, Search, BeginCopy, ScanEmpty, ScanReport, ScanDuplicate, ScanNext,
     storeOnly,
     tables, flags
<1>2. CASE AddTame(w) \/ CheckWild(w)
  <2>1. PICK d \in todo : todo' = todo \ {d} /\ dp' = [dp EXCEPT ![w] = d]
    BY <1>2 DEF AddTame, CheckWild
  <2>2. dp'[w] = d /\ pc[w] = "idle" /\ pc'[w] \in {"store", "scan"} /\ collision' = collision
    BY <1>0, <1>2, <2>1 DEF AddTame, CheckWild, Goto, TypeOK, mailbox
  <2>3. Waiting = todo /\ Waiting' = todo' \cup {d}
    BY <1>0, <2>2 DEF Waiting
  <2>4. Waiting' = Waiting
    BY <2>1, <2>3
  <2> QED
    BY <1>1, <2>2, <2>4, AbsStutters
<1>3. CASE ScanEmpty(w) \/ ScanDuplicate(w) \/ ScanNext(w)
  <2>1. pc[w] = "copy" /\ UNCHANGED <<todo, collision>>
    BY <1>3 DEF ScanEmpty, ScanDuplicate, ScanNext, EndCopy, mailbox
  <2>2. \/ pc'[w] \in {"scan", "store", "ww"} /\ dp' = dp
        \/ pc'[w] = "idle" /\ ~AllWild /\ ~(WWSize > 0)
    BY <1>0, <1>3 DEF ScanEmpty, ScanDuplicate, ScanNext, EndCopy, AfterScan, Finish, Goto, TypeOK
  <2>3. CASE pc'[w] \in {"scan", "store", "ww"} /\ dp' = dp
    <3>1. Waiting' = Waiting
      BY <1>0, <2>1, <2>3, Unanswered
    <3> QED
      BY <1>1, <2>1, <3>1, AbsStutters
  <2>4. CASE pc'[w] = "idle" /\ ~AllWild /\ ~(WWSize > 0)
    <3>1. PICK d : d = dp[w]
      OBVIOUS
    <3>2. d \in Points /\ ~IsKept(d)
      BY <1>0, <2>1, <2>4, <3>1 DEF TypeOK, KnowsOf, Knows, IsKept
    <3>3. NothingOwed(d)
      BY <1>3, <2>4, <3>1, SearchSettles
    <3>4. d \in Waiting /\ Waiting' = Waiting \ {d}
      BY <1>0, <2>1, <2>4, <3>1, Answered
    <3>5. Abs!Next
      BY <1>0, <1>1, <2>1, <2>4, <3>2, <3>3, <3>4, AbsRemembers
    <3> QED
      BY <3>5
  <2> QED
    BY <2>2, <2>3, <2>4
<1>4. CASE ScanReport(w)
  <2>1. PICK d, p : d = dp[w] /\ p = probe[w]
    OBVIOUS
  <2>2. /\ pc[w] = "copy" /\ pc'[w] = "idle" /\ todo' = todo
    BY <1>0, <1>4 DEF ScanReport, EndCopy, Finish, Goto, TypeOK
  <2>3. d \in Points /\ p \in Nat /\ d.type # TAME /\ CheckIdx(d) \in TableIds
    BY <1>0, <2>1, <2>2, IdxType DEF TypeOK, KnowsOf, Knows
  <2> DEFINE t == CheckIdx(d)
             s == Slot(d, p)
             e == part2[t][s]
  <2>4. s \in Slots
    BY <2>3, SlotType
  <2>5. Collides(part1[t][s], part2[t][s], d) /\ collision' = <<part1[t][s], part2[t][s], d>>
    <3>1. Copied1(w) = part1[t][s] /\ Copied2(w) = part2[t][s]
      BY <1>0, <2>1, <2>2 DEF ExactOf
    <3> QED
      BY <1>4, <2>1, <3>1 DEF ScanReport, ReportCollision
  <2>6. part1[t][s] = e
    BY <1>0, <2>2, <2>3, <2>4 DEF WholeInv
  <2>7. e \in Stored(t)
    BY <2>4, <2>5, <2>6 DEF Collides, Matches, IsEmpty, Stored
  <2>8. Abs!SameSig(e, d) /\ ~Abs!SameDist(e, d)
    BY <2>5, <2>6, <2>7 DEF Collides, Matches, XSigMatch, SigOf, SameDist, LoOf, HiOf, Stored,
       Abs!SameSig, Abs!SameDist
  <2>9. d \in Waiting /\ Waiting' = Waiting \ {d}
    BY <1>0, <2>1, <2>2, Answered
  <2> HIDE DEF t, s, e
  <2>10. t = CheckIdx(d)
    BY DEF t
  <2> QED
    BY <1>1, <2>3, <2>5, <2>6, <2>7, <2>8, <2>9, <2>10, AbsReports DEF e
<1>5. CASE BeginCopy(w)
  <2>1. pc[w] = "scan" /\ pc'[w] = "copy" /\ UNCHANGED <<dp, todo, collision>>
    BY <1>0, <1>5 DEF BeginCopy, Scanning, Goto, TypeOK, mailbox
  <2>2. Waiting' = Waiting
    BY <1>0, <2>1, Unanswered
  <2> QED
    BY <1>1, <2>1, <2>2, AbsStutters
<1> QED
  BY <1>2, <1>3, <1>4, <1>5 DEF Search

\* AddToTable answers when it frees the home shard.
LEMMA StoreImplements ==
  ASSUME SeqInv, NEW w \in Threads, OneThread(w), Tri(MaxProbe - 1) < TableSize, AddToTable(w)
  PROVE  [Abs!Next]_(Abs!vars)
<1>0. /\ TypeOK /\ SettledInv /\ WholeInv /\ KnowsOf(w) /\ ChainOf(w) /\ NoRotation
      /\ Threads = {w} /\ \A t \in TableIds : ~circular[t]
  BY DEF SeqInv, OneThread, WholeInv, ChainInv
<1>1. pc[w] # "idle"
  BY DEF AddToTable, Lock, ProbeEmpty, ProbeDuplicate, ProbeNext, Freeze, ActivateRotation,
     SaveDiscarded, PackPart1, PackPart2, Count
<1>2. PICK d, p, m : d = dp[w] /\ p = probe[w] /\ m = limit[w]
  OBVIOUS
<1>3. d \in Points /\ p \in Nat /\ StoreIdx(d) \in TableIds
  BY <1>0, <1>1, <1>2, IdxType DEF TypeOK
<1> DEFINE t == StoreIdx(d)
           s == Slot(d, p)
<1>4. s \in Slots /\ Here(w) = s
  BY <1>2, <1>3, SlotType DEF Here
<1>5. Knows(d, p, pc[w], m)
  BY <1>0, <1>2 DEF KnowsOf
<1>6. todo' = todo /\ collision' = collision /\ ww' = ww
  BY DEF AddToTable, Lock, ProbeEmpty, ProbeDuplicate, ProbeNext, Freeze, ActivateRotation,
     SaveDiscarded, PackPart1, PackPart2, Count, mailbox, storeOnly
<1>7. ASSUME dp'[w] = dp[w], pc[w] \in {"idle", "count"} <=> pc'[w] \in {"idle", "count"},
             UNCHANGED <<part2, frozen>>
      PROVE  [Abs!Next]_(Abs!vars)
  <2>1. Waiting' = Waiting
    BY <1>0, <1>6, <1>7, Unanswered
  <2> QED
    BY <1>6, <1>7, <2>1, AbsStutters
<1>8. ASSUME pc[w] \notin {"idle", "count"}, pc'[w] \in {"idle", "count"}
      PROVE  d \in Waiting /\ Waiting' = Waiting \ {d}
  BY <1>0, <1>2, <1>6, <1>8, Answered
<1>9. CASE Lock(w)
  <2>1. pc[w] = "store" /\ NothingOwed(d) /\ IsKept(d) /\ UNCHANGED <<part2, frozen>>
    BY <1>5, <1>9 DEF Lock, Knows, storeOnly, tables, flags
  <2>2. CASE frozen[t]
    <3>1. pc'[w] = "idle"
      BY <1>0, <1>2, <1>3, <1>9, <2>2 DEF Lock, GateShut, Finish, Goto, TypeOK
    <3>2. frozen' = [frozen EXCEPT ![t] = TRUE]
      BY <1>0, <1>3, <2>1, <2>2 DEF TypeOK
    <3>3. d \in Waiting /\ Waiting' = Waiting \ {d}
      BY <1>8, <2>1, <3>1
    <3>4. Abs!Next
      BY <1>0, <1>3, <1>6, <2>1, <2>2, <3>2, <3>3, AbsDropsFull
    <3> QED
      BY <3>4
  <2>3. CASE ~frozen[t]
    <3>1. pc'[w] = "probe" /\ dp' = dp
      BY <1>0, <1>2, <1>3, <1>9, <2>3 DEF Lock, GateShut, Goto, TypeOK
    <3> QED
      BY <1>7, <2>1, <3>1
  <2> QED
    BY <2>2, <2>3
<1>10. CASE ProbeEmpty(w) \/ ProbeNext(w)
  <2>1. /\ pc[w] = "probe" /\ pc'[w] \in {"probe", "pack", "full"} /\ dp' = dp
        /\ UNCHANGED <<part2, frozen>>
    BY <1>0, <1>10 DEF ProbeEmpty, ProbeNext, Goto, TypeOK, storeOnly, tables, flags
  <2> QED
    BY <1>7, <2>1
<1>11. CASE ProbeDuplicate(w)
  <2>1. /\ pc[w] = "probe" /\ pc'[w] = "idle" /\ Matches(part1[t][s], part2[t][s], d)
        /\ UNCHANGED <<part2, frozen>>
    BY <1>0, <1>2, <1>4, <1>11 DEF ProbeDuplicate, Finish, Goto, TypeOK, storeOnly, tables, flags
  <2>2. NothingOwed(d) /\ IsKept(d) /\ d \in Waiting /\ Waiting' = Waiting \ {d}
    BY <1>5, <1>8, <2>1 DEF Knows, HoldsHome
  <2>3. part1[t][s] = part2[t][s]
    BY <1>0, <1>3, <1>4, <2>1 DEF WholeInv
  <2>4. part2[t][s] # Zero /\ part2[t][s] \in Stored(t)
    BY <1>4, <2>1, <2>3 DEF Matches, IsEmpty, Stored
  <2>5. Abs!SameSig(part2[t][s], d)
    BY <2>1, <2>4 DEF Matches, XSigMatch, SigOf, Abs!SameSig
  <2>6. Abs!Next
    BY <1>0, <1>3, <1>6, <2>1, <2>2, <2>4, <2>5, AbsDropsTwin
  <2> QED
    BY <2>6
<1>12. CASE Freeze(w)
  <2>1. /\ pc[w] = "full" /\ pc'[w] = "idle" /\ part2' = part2
        /\ frozen' = [frozen EXCEPT ![t] = TRUE]
    BY <1>0, <1>2, <1>12 DEF Freeze, Finish, Goto, TypeOK, tables
  <2>2. NothingOwed(d) /\ IsKept(d) /\ d \in Waiting /\ Waiting' = Waiting \ {d}
    BY <1>5, <1>8, <2>1 DEF Knows, HoldsHome
  <2>3. Chain(t, d, MaxProbe)
    BY <1>0, <1>2, <2>1 DEF ChainOf
  <2>4. /\ \A r \in Slots : part1[t][r] = part2[t][r]
        /\ \A q, r \in Slots : part2[t][q] # Zero /\ part2[t][q] = part2[t][r] => q = r
    BY <1>0, <1>3, <2>1 DEF WholeInv
  <2>5. Cardinality(Stored(t)) >= MaxProbe
    BY <1>0, <1>3, <2>3, <2>4, FullStored
  <2>6. Abs!Next
    BY <1>0, <1>3, <1>6, <2>1, <2>2, <2>5, AbsDropsFull
  <2> QED
    BY <2>6
<1>13. CASE PackPart1(w) \/ PackPart2(w)
  <2>1. UNCHANGED frozen
    BY <1>13 DEF PackPart1, PackPart2, flags
  <2>2. CASE /\ PackPart1(w) /\ pc[w] = "pack" /\ pc'[w] = "pack2" /\ UNCHANGED <<dp, part2>>
    BY <1>7, <2>1, <2>2
  <2>3. CASE /\ PackPart2(w) /\ pc[w] = "pack2" /\ pc'[w] = "count"
             /\ part2' = [part2 EXCEPT ![t][s] = d]
    <3>1. /\ NothingOwed(d) /\ IsKept(d) /\ ~frozen[t] /\ part2[t][s] = Zero
          /\ \A e \in Stored(t) : ~Abs!SameKey(e, d)
      BY <1>5, <2>3 DEF Knows, HoldsHome
    <3>2. d \in Waiting /\ Waiting' = Waiting \ {d}
      BY <1>8, <2>3
    <3>3. Abs!Next
      BY <1>0, <1>3, <1>4, <1>6, <2>1, <2>3, <3>1, <3>2, AbsKeeps
    <3> QED
      BY <3>3
  <2> QED
    BY <1>2, <1>4, <1>13, <2>2, <2>3, PackingSteps
<1>14. CASE Count(w)
  <2>1. pc[w] = "count" /\ pc'[w] = "idle" /\ UNCHANGED <<part2, frozen>>
    BY <1>0, <1>14 DEF Count, Finish, Goto, TypeOK, tables, flags
  <2>2. Waiting' = Waiting
    BY <1>0, <1>6, <2>1 DEF Waiting
  <2> QED
    BY <1>6, <2>1, <2>2, AbsStutters
<1>15. CASE ActivateRotation(w) \/ SaveDiscarded(w)
  BY <1>0, <1>5, <1>15 DEF ActivateRotation, SaveDiscarded, Knows
<1> QED
  BY <1>9, <1>10, <1>11, <1>12, <1>13, <1>14, <1>15 DEF AddToTable

\* CheckWWBuffer answers with the report, or when the WILD has its place.
LEMMA BufferImplements ==
  ASSUME SeqInv, NEW w \in Threads, OneThread(w), CheckWWBuffer(w)
  PROVE  [Abs!Next]_(Abs!vars)
<1>0. TypeOK /\ SettledInv /\ BufferInv /\ KnowsOf(w) /\ Threads = {w}
  BY DEF SeqInv, OneThread
<1>1. UNCHANGED <<part2, frozen, todo>> /\ pc[w] \in InBuffer
  BY DEF CheckWWBuffer, WWBegin, WWReport, WWMiss, WWStore, storeOnly, tables, flags, InBuffer
<1>2. PICK d, p : d = dp[w] /\ p = probe[w]
  OBVIOUS
<1>3. d \in Points /\ p \in Nat /\ WWSize > 0 /\ NothingOwed(d) /\ ~IsKept(d)
  <2>1. d \in Points /\ p \in Nat /\ WWSize > 0
    BY <1>0, <1>1, <1>2 DEF TypeOK, InBuffer
  <2> QED
    BY <1>0, <1>1, <1>2, <2>1 DEF KnowsOf, Knows
<1>4. CASE WWBegin(w) \/ WWMiss(w)
  <2>1. pc'[w] \in InBuffer /\ UNCHANGED <<dp, ww, collision>>
    BY <1>0, <1>4 DEF WWBegin, WWMiss, Goto, TypeOK, InBuffer, storeOnly, mailbox
  <2>2. Waiting' = Waiting
    BY <1>0, <1>1, <2>1, Unanswered DEF InBuffer
  <2> QED
    BY <1>1, <2>1, <2>2, AbsStutters
<1>5. ASSUME pc'[w] = "idle"
      PROVE  d \in Waiting /\ Waiting' = Waiting \ {d}
  BY <1>0, <1>1, <1>2, <1>5, Answered DEF InBuffer
<1>6. CASE WWReport(w)
  <2>1. PICK h : h = WWHere(w)
    OBVIOUS
  <2>2. /\ pc'[w] = "idle" /\ Reports(h, d) /\ collision' = <<h, h, d>> /\ ww' = ww
    BY <1>0, <1>2, <1>6, <2>1 DEF WWReport, Finish, Goto, TypeOK, ReportCollision, Reports, storeOnly
  <2>3. h \in Buffered
    <3>1. WWSlot(d, p) \in WWSlots
      BY <1>3, WWSlotType
    <3>2. h # Zero
      BY <2>2 DEF Reports, Collides, Matches, IsEmpty
    <3> QED
      BY <1>2, <2>1, <3>1, <3>2 DEF WWHere, Buffered
  <2>4. Abs!Next
    BY <1>0, <1>1, <1>3, <1>5, <2>2, <2>3, AbsReportsBuffered
  <2> QED
    BY <2>4
<1>7. CASE WWStore(w)
  <2>1. /\ pc[w] = "wwstore" /\ pc'[w] = "idle" /\ collision' = collision
        /\ ww' = [ww EXCEPT ![WWSlot(d, 0)] = d]
    BY <1>0, <1>2, <1>7 DEF WWStore, Finish, Goto, TypeOK, mailbox
  <2>2. ~Reports(ww[WWSlot(d, 0)], d)
    BY <1>0, <1>2, <2>1 DEF BufferInv, BufferOf
  <2>3. Abs!Next
    BY <1>0, <1>1, <1>3, <1>5, <2>1, <2>2, AbsRemembers
  <2> QED
    BY <2>3
<1> QED
  BY <1>4, <1>6, <1>7 DEF CheckWWBuffer

LEMMA AbsStep ==
  ASSUME SeqInv, NEW w \in Threads, OneThread(w), Tri(MaxProbe - 1) < TableSize, [Next]_vars
  PROVE  [Abs!Next]_(Abs!vars)
<1>1. CASE UNCHANGED <<tables, flags, count, ww, collision, todo, pc, dp, probe, limit>>
  <2>1. Waiting' = Waiting /\ UNCHANGED <<part2, frozen, ww, collision>>
    BY <1>1 DEF Waiting, tables, flags
  <2> QED
    BY <2>1, AbsStutters
<1> QED
  BY <1>1, OneSteps, SearchImplements, StoreImplements, BufferImplements

\* For one thread, without rotation, and with a table larger than the reach of
\* a probe sequence (the program's tables are), the store of TameStore.h does
\* what its abstract specification says, in both modes, with and without a W-W
\* buffer: one indivisible answer per DP.
THEOREM StoreRefines ==
  ASSUME NEW w \in Threads, OneThread(w), Tri(MaxProbe - 1) < TableSize
  PROVE  Spec => ImplementsDpStore
<1>1. Init => SeqInv
  BY SeqInit
<1>2. SeqInv /\ [Next]_vars => SeqInv'
  BY SeqStep
<1>3. Init => Abs!Init
  <2> SUFFICES ASSUME Init PROVE Abs!Init
    OBVIOUS
  <2>1. Waiting = Points
    BY DEF Init, Waiting
  <2>2. [t \in TableIds |-> {part2[t][s] : s \in Slots} \ {Zero}] = [t \in TableIds |-> {}]
    BY DEF Init
  <2>3. frozen \in [TableIds -> BOOLEAN] /\ collision \notin Points \X Points \X Points
    BY StoreAssumption DEF Init
  <2>4. {ww[s] : s \in WWSlots} \ {Zero} = {}
    BY DEF Init
  <2> QED
    BY <2>1, <2>2, <2>3, <2>4 DEF Abs!Init, Waiting, Abs!TableIds, TableIds
<1>4. SeqInv /\ [Next]_vars => [Abs!Next]_(Abs!vars)
  BY AbsStep
<1> QED
  BY <1>1, <1>2, <1>3, <1>4, PTL DEF Spec, ImplementsDpStore, Abs!Spec

-----------------------------------------------------------------------------
\* The counters, for one thread.

\* The slot that the thread has taken and not counted yet.
InHand(w, t) == IF pc[w] \in {"pack2", "count"} /\ StoreIdx(dp[w]) = t THEN 1 ELSE 0

CountInv ==
  \A t \in TableIds, w \in Threads : Cardinality(Occupied(t)) = count[t] + InHand(w, t)

LEMMA OccupiedKept ==
  ASSUME UNCHANGED <<part1, part2>>, NEW t
  PROVE  Occupied(t)' = Occupied(t)
BY DEF Occupied, SlotIsEmpty

LEMMA CountInvStep ==
  ASSUME SeqInv, CountInv, NEW w \in Threads, OneThread(w), [Next]_vars
  PROVE  CountInv'
<1>0. /\ TypeOK /\ Threads = {w} /\ KnowsOf(w)
      /\ \A t \in TableIds : Cardinality(Occupied(t)) = count[t] + InHand(w, t)
      /\ part1 \in [TableIds -> [Slots -> Half]] /\ part2 \in [TableIds -> [Slots -> Half]]
      /\ count \in [TableIds -> Nat]
  BY DEF SeqInv, OneThread, TypeOK, CountInv
<1> SUFFICES ASSUME NEW t \in TableIds
             PROVE  Cardinality(Occupied(t)') = count'[t] + InHand(w, t)'
  BY <1>0 DEF CountInv
<1>1. ASSUME UNCHANGED <<part1, part2>>, count'[t] = count[t], InHand(w, t)' = InHand(w, t)
      PROVE  Cardinality(Occupied(t)') = count'[t] + InHand(w, t)'
  BY <1>0, <1>1, OccupiedKept
<1>2. CASE UNCHANGED <<tables, flags, count, ww, collision, todo, pc, dp, probe, limit>>
  BY <1>1, <1>2 DEF tables, InHand
<1>3. CASE AddTame(w) \/ CheckWild(w) \/ Search(w)
  <2>1. UNCHANGED <<part1, part2, count>>
    BY <1>3 DEF AddTame, CheckWild, Search, BeginCopy, ScanEmpty, ScanReport, ScanDuplicate,
       ScanNext,
       storeOnly, tables, tallies
  <2>2. pc[w] \in {"idle", "scan", "copy"}
    BY <1>3 DEF AddTame, CheckWild, Search, BeginCopy, ScanEmpty, ScanReport, ScanDuplicate,
       ScanNext, Scanning, EndCopy
  <2>3. pc'[w] \in {"idle", "scan", "copy", "store", "ww"}
    BY <1>0, <1>3 DEF AddTame, CheckWild, Search, BeginCopy, ScanEmpty, ScanReport, ScanDuplicate,
       ScanNext,
       Scanning, EndCopy, AfterScan, Finish, Goto, TypeOK
  <2> QED
    BY <1>1, <2>1, <2>2, <2>3 DEF InHand
<1>4. CASE Lock(w) \/ ProbeEmpty(w) \/ ProbeDuplicate(w) \/ ProbeNext(w) \/ Freeze(w)
           \/ ActivateRotation(w) \/ SaveDiscarded(w)
  <2>1. UNCHANGED <<part1, part2, count>>
    BY <1>4 DEF Lock, ProbeEmpty, ProbeDuplicate, ProbeNext, Freeze, ActivateRotation,
       SaveDiscarded, storeOnly, tables, tallies
  <2>2. pc[w] \notin {"pack2", "count"}
    BY <1>4 DEF Lock, ProbeEmpty, ProbeDuplicate, ProbeNext, Freeze, ActivateRotation, SaveDiscarded
  <2>3. pc'[w] \notin {"pack2", "count"}
    BY <1>0, <1>4, <2>2 DEF Lock, ProbeEmpty, ProbeDuplicate, ProbeNext, Freeze,
       ActivateRotation, SaveDiscarded, Finish, Goto, TypeOK
  <2> QED
    BY <1>1, <2>1, <2>2, <2>3 DEF InHand
<1>5. CASE PackPart1(w) \/ PackPart2(w)
  <2>1. PICK d \in Points, u \in TableIds, s \in Slots :
          /\ d = dp[w] /\ u = StoreIdx(d) /\ s = Here(w) /\ part2[u][s] = Zero
          /\ \/ /\ PackPart1(w) /\ pc[w] = "pack" /\ pc'[w] = "pack2" /\ UNCHANGED <<dp, probe, part2>>
                /\ part1' = [part1 EXCEPT ![u][s] = d]
             \/ /\ PackPart2(w) /\ pc[w] = "pack2" /\ pc'[w] = "count" /\ UNCHANGED <<dp, probe, part1>>
                /\ part2' = [part2 EXCEPT ![u][s] = d] /\ part1[u][s] = d
    BY <1>5, PackingSteps
  <2>2. count' = count /\ d # Zero
    BY <1>5, <2>1, StoreAssumption DEF PackPart1, PackPart2, tallies
  <2>3. CASE /\ PackPart1(w) /\ pc[w] = "pack" /\ pc'[w] = "pack2" /\ UNCHANGED <<dp, probe, part2>>
             /\ part1' = [part1 EXCEPT ![u][s] = d]
    <3>1. part1[u][s] = Zero
      BY <1>0, <2>1, <2>3 DEF KnowsOf, Knows, Here
    <3>2. CASE u = t
      <4>1. s \notin Occupied(t) /\ Occupied(t)' = Occupied(t) \cup {s}
        BY <1>0, <2>1, <2>2, <2>3, <3>1, <3>2 DEF Occupied, SlotIsEmpty, IsEmpty
      <4>2. IsFiniteSet(Occupied(t)) /\ Cardinality(Occupied(t)) \in Nat
        <5>1. Occupied(t) \in SUBSET Slots
          BY DEF Occupied
        <5> QED
          BY <5>1, FiniteSlots, FS_Subset, FS_CardinalityType
      <4>3. Cardinality(Occupied(t)') = Cardinality(Occupied(t)) + 1
        BY <4>1, <4>2, FS_AddElement
      <4>4. InHand(w, t) = 0 /\ InHand(w, t)' = 1
        BY <2>1, <2>3, <3>2 DEF InHand, StoreIdx
      <4>5. Cardinality(Occupied(t)) = count[t] + InHand(w, t) /\ count[t] \in Nat /\ count'[t] = count[t]
        BY <1>0, <2>2
      <4> QED
        BY <4>3, <4>4, <4>5
    <3>3. CASE u # t
      <4>1. part1'[t] = part1[t]
        BY <1>0, <2>3, <3>3
      <4>2. Occupied(t)' = Occupied(t)
        BY <2>3, <4>1 DEF Occupied, SlotIsEmpty
      <4>3. InHand(w, t) = 0 /\ InHand(w, t)' = 0
        BY <2>1, <2>3, <3>3 DEF InHand, StoreIdx
      <4> QED
        BY <1>0, <2>2, <4>2, <4>3
    <3> QED
      BY <3>2, <3>3
  <2>4. CASE /\ PackPart2(w) /\ pc[w] = "pack2" /\ pc'[w] = "count" /\ UNCHANGED <<dp, probe, part1>>
             /\ part2' = [part2 EXCEPT ![u][s] = d] /\ part1[u][s] = d
    <3>1. \A r \in Slots : (u = t /\ r = s) \/ part2'[t][r] = part2[t][r]
      BY <1>0, <2>4
    <3>2. \A r \in Slots : SlotIsEmpty(t, r)' <=> SlotIsEmpty(t, r)
      BY <2>2, <2>4, <3>1 DEF SlotIsEmpty, IsEmpty
    <3>3. Occupied(t)' = Occupied(t)
      BY <3>2 DEF Occupied
    <3>4. InHand(w, t)' = InHand(w, t)
      BY <2>4 DEF InHand
    <3> QED
      BY <1>0, <2>2, <3>3, <3>4
  <2> QED
    BY <2>1, <2>3, <2>4
<1>6. CASE Count(w)
  <2>1. PICK d : d = dp[w]
    OBVIOUS
  <2>2. /\ pc[w] = "count" /\ pc'[w] = "idle" /\ UNCHANGED <<part1, part2>>
        /\ count' = [count EXCEPT ![StoreIdx(d)] = @ + 1]
    BY <1>0, <1>6, <2>1 DEF Count, Finish, Goto, TypeOK, tables
  <2>3. StoreIdx(d) \in TableIds
    BY <1>0, <2>1, <2>2, IdxType DEF TypeOK
  <2>4. InHand(w, t)' = 0
    BY <2>2 DEF InHand
  <2>5. count'[t] = count[t] + InHand(w, t) /\ count[t] \in Nat
    BY <1>0, <2>1, <2>2, <2>3 DEF InHand
  <2>6. Cardinality(Occupied(t)') = count[t] + InHand(w, t)
    BY <1>0, <2>2, OccupiedKept
  <2>7. count'[t] \in Nat
    BY <2>5 DEF InHand
  <2> QED
    BY <2>4, <2>5, <2>6, <2>7
<1>7. CASE CheckWWBuffer(w)
  <2>1. UNCHANGED <<part1, part2, count>> /\ pc[w] \notin {"pack2", "count"}
    BY <1>7 DEF CheckWWBuffer, WWBegin, WWReport, WWMiss, WWStore, storeOnly, tables, tallies
  <2>2. pc'[w] \notin {"pack2", "count"}
    BY <1>0, <1>7 DEF CheckWWBuffer, WWBegin, WWReport, WWMiss, WWStore, Finish, Goto, TypeOK
  <2> QED
    BY <1>1, <2>1, <2>2 DEF InHand
<1> QED
  BY <1>2, <1>3, <1>4, <1>5, <1>6, <1>7, OneSteps DEF AddToTable

\* For one thread and without rotation, wild_count is between calls exactly the
\* number of slots in use: no store goes uncounted, none is counted twice.
THEOREM CountExactCorrect ==
  ASSUME NEW w \in Threads, OneThread(w)
  PROVE  Spec => []CountExact
<1>1. Init => SeqInv /\ CountInv
  <2> SUFFICES ASSUME Init PROVE CountInv
    BY SeqInit
  <2>1. \A t \in TableIds : Occupied(t) = {} /\ count[t] = 0
    BY DEF Init, Occupied, SlotIsEmpty, IsEmpty
  <2>2. \A v \in Threads, t \in TableIds : InHand(v, t) = 0
    BY DEF Init, InHand
  <2> QED
    BY <2>1, <2>2, FS_EmptySet DEF CountInv
<1>2. SeqInv /\ CountInv /\ [Next]_vars => SeqInv' /\ CountInv'
  BY SeqStep, CountInvStep
<1>3. SeqInv /\ CountInv => CountExact
  BY DEF SeqInv, TypeOK, OneThread, CountInv, InHand, CountExact
<1> QED
  BY <1>1, <1>2, <1>3, PTL DEF Spec

-----------------------------------------------------------------------------
\* No two entries of one key (without rotation).

\* Without rotation no thread is ever on the rotating path.
RotInv ==
  /\ \A t \in TableIds : ~circular[t]
  /\ \A w \in Threads : pc[w] \notin {"rotate", "rot", "rot2"}

LEMMA RotStep ==
  ASSUME NoRotation, TypeOK, RotInv, [Next]_vars
  PROVE  RotInv'
<1>1. ASSUME NEW w \in Threads, Step(w)
      PROVE  circular' = circular /\ pc'[w] \notin {"rotate", "rot", "rot2"}
  <2>1. CASE AddTame(w) \/ CheckWild(w) \/ Search(w) \/ CheckWWBuffer(w)
    BY <2>1 DEF AddTame, CheckWild, Search, BeginCopy, ScanEmpty, ScanReport, ScanDuplicate,
       ScanNext,
       AfterScan, CheckWWBuffer, WWBegin, WWReport, WWMiss, WWStore, Scanning, EndCopy, Finish,
       Goto,
       storeOnly, flags, TypeOK
  <2>2. CASE AddToTable(w)
    <3>1. StoreIdx(dp[w]) \in TableIds
      <4>1. pc[w] # "idle"
        BY <2>2 DEF AddToTable, Lock, ProbeEmpty, ProbeDuplicate, ProbeNext, Freeze,
           ActivateRotation, SaveDiscarded, PackPart1, PackPart2, Count
      <4> QED
        BY <4>1, IdxType DEF TypeOK
    <3> QED
      BY <2>2, <3>1 DEF AddToTable, Lock, ProbeEmpty, ProbeDuplicate, ProbeNext, Freeze,
         ActivateRotation, SaveDiscarded, PackPart1, PackPart2, Count, Finish, Goto,
         storeOnly, flags, TypeOK, RotInv
  <2> QED
    BY <1>1, <2>1, <2>2 DEF Step
<1>2. ASSUME NEW w \in Threads, Step(w)
      PROVE  RotInv'
  <2>1. \A v \in Threads : v # w => pc'[v] = pc[v]
    BY <1>2, OthersKeep
  <2> QED
    BY <1>1, <1>2, <2>1 DEF RotInv
<1>3. CASE ClearCollision \/ UNCHANGED vars
  BY <1>3 DEF ClearCollision, vars, storeOnly, flags, RotInv
<1> QED
  BY <1>2, <1>3 DEF Next

\* DPs of one key have one home, and one probe sequence.
LEMMA KeySlots ==
  ASSUME NEW d \in Points, NEW e \in Points, SameKey(e, d), NEW p \in Nat
  PROVE  Slot(e, p) = Slot(d, p) /\ XSig[e.x] = XSig[d.x]
<1>1. Slot(e, 0) = (Hash[e.x] + Tri(0)) % TableSize /\ Slot(d, 0) = (Hash[d.x] + Tri(0)) % TableSize
      /\ Hash[e.x] \in Nat /\ Hash[d.x] \in Nat
  BY SlotTri
<1>2. Tri(0) = 0
  BY DEF Tri
<1>3. (Hash[e.x] % TableSize) = (Hash[d.x] % TableSize)
  BY <1>1, <1>2 DEF SameKey, Home
<1>4. Abs!SameKey(e, d)
  BY <1>3, StoreAssumption DEF Abs!SameKey, Abs!SameSig, SameKey
<1> QED
  BY <1>4, SameSlots

\* A search that met no entry of its DP's key before an empty slot has seen
\* that there is none.
LEMMA NoneBeyond ==
  ASSUME TypeOK, NoHoles, NEW t \in TableIds, NEW d \in Points, NEW p \in 0 .. MaxProbe - 1,
         \A j \in 0 .. MaxProbe - 1 : j < p => ~HasKey(t, Slot(d, j), d),
         SlotIsEmpty(t, Slot(d, p)), NEW s \in Slots
  PROVE  ~HasKey(t, s, d)
<1> SUFFICES ASSUME HasKey(t, s, d) PROVE FALSE
  OBVIOUS
<1>1. PICK e \in Points : e = part2[t][s] /\ e # Zero /\ SameKey(e, d)
  BY StoreAssumption DEF HasKey, TypeOK, Half
<1>2. PICK j \in 0 .. MaxProbe - 1 : Slot(e, j) = s /\ Chain(t, e, j)
  BY <1>1 DEF NoHoles, Reachable
<1>3. j \in Nat /\ p \in Nat /\ MaxProbe \in Nat
  BY StoreAssumption
<1>4. Slot(d, j) = s /\ Slot(e, p) = Slot(d, p)
  BY <1>1, <1>2, <1>3, KeySlots
<1>5. CASE j < p
  BY <1>4, <1>5
<1>6. CASE j = p
  BY <1>1, <1>4, <1>6 DEF SlotIsEmpty, IsEmpty
<1>7. CASE p < j
  BY <1>2, <1>4, <1>7 DEF Chain
<1> QED
  BY <1>3, <1>5, <1>6, <1>7

\* Only the second packing step writes a part2.
LEMMA OnlyPartTwo ==
  ASSUME NEW v \in Threads, Step(v), ~PackPart2(v)
  PROVE  part2' = part2
<1>1. CASE AddTame(v) \/ CheckWild(v) \/ Search(v) \/ CheckWWBuffer(v)
  BY <1>1 DEF AddTame, CheckWild, Search, BeginCopy, ScanEmpty, ScanReport, ScanDuplicate, ScanNext,
     CheckWWBuffer, WWBegin, WWReport, WWMiss, WWStore, storeOnly, tables
<1>2. CASE AddToTable(v)
  BY <1>2 DEF AddToTable, Lock, ProbeEmpty, ProbeDuplicate, ProbeNext, Freeze,
     ActivateRotation, SaveDiscarded, PackPart1, Count, storeOnly, tables
<1> QED
  BY <1>1, <1>2 DEF Step

\* While a thread holds its home shard nobody else stores an entry of its key.
LEMMA KeyStays ==
  ASSUME TypeOK, LockInv, NEW w \in Threads, NEW v \in Threads, v # w, Step(v),
         NEW d \in Points, d = dp[w], pc[w] \in HoldsHome,
         NEW s \in Slots, ~HasKey(StoreIdx(d), s, d)
  PROVE  ~HasKey(StoreIdx(d), s, d)'
<1>1. StoreIdx(d)' = StoreIdx(d) /\ StoreIdx(d) \in TableIds
  BY IdxType DEF StoreIdx
<1>2. CASE part2' = part2
  BY <1>2 DEF HasKey, SameKey, Home, Slot, StoreIdx
<1>3. CASE PackPart2(v)
  <2>1. pc[v] \in HoldsHome /\ dp[v] \in Points
    BY <1>3 DEF PackPart2, HoldsHome, TypeOK
  <2>2. part2' = [part2 EXCEPT ![StoreIdx(dp[v])][Here(v)] = dp[v]]
    BY <1>3 DEF PackPart2
  <2>3. \/ part2'[StoreIdx(d)][s] = part2[StoreIdx(d)][s]
        \/ StoreIdx(dp[v]) = StoreIdx(d) /\ part2'[StoreIdx(d)][s] = dp[v]
    BY <1>1, <2>2 DEF TypeOK
  <2>4. HomeExclusion
    BY HomesApart
  <2>5. StoreIdx(dp[v]) = StoreIdx(d) => Home(dp[v]) # Home(d)
    BY <2>1, <2>4 DEF HomeExclusion
  <2> QED
    BY <2>3, <2>5 DEF HasKey, SameKey, Home, Slot, StoreIdx
<1>4. CASE part2' # part2 /\ ~PackPart2(v)
  BY <1>4, OnlyPartTwo
<1> QED
  BY <1>2, <1>3, <1>4

\* UnseenOf after a step, by the DP the thread has then.
LEMMA UnseenAfter ==
  ASSUME NEW w \in Threads, NEW d, NEW t, dp'[w] = d, t = StoreIdx(d)
  PROVE  UnseenOf(w)' <=>
           /\ pc'[w] = "probe" =>
                \A j \in 0 .. MaxProbe - 1 : j < probe'[w] => ~HasKey(t, Slot(d, j), d)'
           /\ pc'[w] \in {"pack", "pack2"} => \A s \in Slots : ~HasKey(t, s, d)'
<1>1. StoreIdx(dp[w])' = t
  BY DEF StoreIdx
<1>2. \A j : Slot(dp[w], j)' = Slot(d, j)
  BY DEF Slot
<1>3. \A s : HasKey(StoreIdx(dp[w]), s, dp[w])' <=> HasKey(t, s, d)'
  BY <1>1, <1>2 DEF HasKey, SameKey, Home, Slot
<1> QED
  BY <1>1, <1>2, <1>3 DEF UnseenOf, HasKey, SameKey, Home, Slot, StoreIdx

LEMMA UnseenStep ==
  ASSUME TypeOK, ChainInv, NoHoles, LockInv, RotInv, [Next]_vars,
         NEW w \in Threads, UnseenOf(w)
  PROVE  UnseenOf(w)'
<1>1. ASSUME pc'[w] = pc[w], dp'[w] = dp[w], probe'[w] = probe[w],
             part2' = part2 \/ \E v \in Threads : v # w /\ Step(v)
      PROVE  UnseenOf(w)'
  <2>1. CASE pc[w] \notin {"probe", "pack", "pack2"}
    BY <1>1, <2>1 DEF UnseenOf
  <2>2. CASE pc[w] \in {"probe", "pack", "pack2"}
    <3>1. PICK d \in Points, t \in TableIds, p \in Nat :
            d = dp[w] /\ t = StoreIdx(d) /\ p = probe[w]
      <4>1. dp[w] \in Points /\ probe[w] \in Nat
        BY <2>2 DEF TypeOK
      <4> QED
        BY <4>1, IdxType
    <3>2. ASSUME NEW s \in Slots, ~HasKey(t, s, d) PROVE ~HasKey(t, s, d)'
      <4>1. CASE part2' = part2
        BY <3>2, <4>1 DEF HasKey, SameKey, Home, Slot
      <4>2. CASE part2' # part2
        <5>1. PICK v \in Threads : v # w /\ Step(v)
          BY <1>1, <4>2
        <5>2. ~HasKey(StoreIdx(d), s, d)'
          BY <2>2, <3>1, <3>2, <5>1, KeyStays DEF HoldsHome
        <5>3. HasKey(StoreIdx(d), s, d)' <=> HasKey(t, s, d)'
          BY <3>1 DEF HasKey, SameKey, Home, Slot, StoreIdx
        <5> QED
          BY <5>2, <5>3
      <4> QED
        BY <4>1, <4>2
    <3>3. \A j \in 0 .. MaxProbe - 1 : Slot(d, j) \in Slots
      BY SlotType
    <3>4. pc[w] = "probe" => \A j \in 0 .. MaxProbe - 1 : j < p => ~HasKey(t, Slot(d, j), d)'
      BY <3>1, <3>2, <3>3 DEF UnseenOf
    <3>5. pc[w] \in {"pack", "pack2"} => \A s \in Slots : ~HasKey(t, s, d)'
      BY <3>1, <3>2 DEF UnseenOf
    <3>6. UnseenOf(w)' <=>
            /\ pc[w] = "probe" =>
                 \A j \in 0 .. MaxProbe - 1 : j < p => ~HasKey(t, Slot(d, j), d)'
            /\ pc[w] \in {"pack", "pack2"} => \A s \in Slots : ~HasKey(t, s, d)'
      BY <1>1, <3>1, UnseenAfter
    <3> QED
      BY <3>4, <3>5, <3>6
  <2> QED
    BY <2>1, <2>2
<1>2. ASSUME NEW v \in Threads, v # w, Step(v)
      PROVE  UnseenOf(w)'
  BY <1>1, <1>2, OthersKeep
<1>3. CASE ClearCollision \/ UNCHANGED vars
  BY <1>1, <1>3 DEF ClearCollision, vars, storeOnly, tables
<1>4. CASE Step(w)
  <2>0. DOMAIN pc = Threads /\ DOMAIN probe = Threads
    BY DEF TypeOK
  <2>1. CASE pc'[w] \notin {"probe", "pack", "pack2"}
    BY <2>1 DEF UnseenOf
  <2>2. CASE Lock(w) /\ pc'[w] = "probe"
    <3>1. probe[w] = 0
      BY <2>2 DEF Lock, ChainInv, ChainOf
    <3>2. probe'[w] = 0
      BY <2>0, <2>2, <3>1 DEF Lock, Finish, Goto
    <3> QED
      BY <2>2, <3>2 DEF UnseenOf
  <2>3. ASSUME ProbeEmpty(w) \/ ProbeNext(w) \/ PackPart1(w)
        PROVE  UnseenOf(w)'
    <3>1. PICK d \in Points, t \in TableIds, p \in 0 .. MaxProbe - 1 :
            d = dp[w] /\ t = StoreIdx(d) /\ p = probe[w]
      <4>1. pc[w] \in {"probe", "pack"}
        BY <2>3 DEF ProbeEmpty, ProbeNext, PackPart1, RotInv
      <4>2. probe[w] < MaxProbe /\ probe[w] \in Nat
        BY <4>1 DEF ChainInv, ChainOf, TypeOK
      <4>3. MaxProbe \in Nat
        BY StoreAssumption
      <4>4. probe[w] \in 0 .. MaxProbe - 1
        BY <4>2, <4>3
      <4> QED
        BY <4>1, <4>4, IdxType DEF TypeOK
    <3>2. part2' = part2 /\ dp'[w] = d
      BY <2>3, <3>1 DEF ProbeEmpty, ProbeNext, PackPart1, storeOnly, tables
    <3>3. \A s : HasKey(t, s, d)' <=> HasKey(t, s, d)
      BY <3>2 DEF HasKey, SameKey, Home, Slot
    <3>4. UnseenOf(w)' <=>
            /\ pc'[w] = "probe" =>
                 \A j \in 0 .. MaxProbe - 1 : j < probe'[w] => ~HasKey(t, Slot(d, j), d)'
            /\ pc'[w] \in {"pack", "pack2"} => \A s \in Slots : ~HasKey(t, s, d)'
      BY <3>1, <3>2, UnseenAfter
    <3>5. CASE ProbeEmpty(w)
      <4>1. pc[w] = "probe" /\ SlotIsEmpty(t, Slot(d, p)) /\ pc'[w] = "pack"
        BY <2>0, <3>1, <3>5 DEF ProbeEmpty, Here, Goto
      <4>2. \A j \in 0 .. MaxProbe - 1 : j < p => ~HasKey(t, Slot(d, j), d)
        BY <3>1, <4>1 DEF UnseenOf
      <4>3. \A s \in Slots : ~HasKey(t, s, d)
        BY <4>1, <4>2, NoneBeyond
      <4>4. \A s \in Slots : ~HasKey(t, s, d)'
        BY <3>3, <4>3
      <4> QED
        BY <3>4, <4>1, <4>4
    <3>6. CASE ProbeNext(w)
      <4>1. pc[w] = "probe" /\ ~XSigMatch(part2[t][Slot(d, p)], d)
        BY <3>1, <3>6 DEF ProbeNext, Here
      <4>2. ~HasKey(t, Slot(d, p), d)
        BY <4>1 DEF HasKey, SameKey, XSigMatch, SigOf
      <4>3. \A j \in 0 .. MaxProbe - 1 : j < p + 1 => ~HasKey(t, Slot(d, j), d)
        <5>1. \A j \in 0 .. MaxProbe - 1 : j < p => ~HasKey(t, Slot(d, j), d)
          BY <3>1, <4>1 DEF UnseenOf
        <5>2. \A j \in 0 .. MaxProbe - 1 : j < p + 1 => j < p \/ j = p
          OBVIOUS
        <5> QED
          BY <4>2, <5>1, <5>2
      <4>4. pc'[w] = "full" \/ (pc'[w] = "probe" /\ probe'[w] = p + 1)
        <5>1. CASE LastProbe(probe[w])
          BY <2>0, <3>6, <5>1 DEF ProbeNext, Goto
        <5>2. CASE ~LastProbe(probe[w])
          BY <2>0, <3>1, <3>6, <4>1, <5>2 DEF ProbeNext, NextProbe
        <5> QED
          BY <5>1, <5>2
      <4>5. \A j \in 0 .. MaxProbe - 1 : j < p + 1 => ~HasKey(t, Slot(d, j), d)'
        BY <3>3, <4>3
      <4> QED
        BY <3>4, <4>4, <4>5
    <3>7. CASE PackPart1(w)
      <4>1. pc[w] = "pack" /\ pc'[w] = "pack2"
        BY <2>0, <3>7 DEF PackPart1, Goto, RotInv
      <4>2. \A s \in Slots : ~HasKey(t, s, d)
        BY <3>1, <4>1 DEF UnseenOf
      <4>3. \A s \in Slots : ~HasKey(t, s, d)'
        BY <3>3, <4>2
      <4> QED
        BY <3>4, <4>1, <4>3
    <3> QED
      BY <2>3, <3>5, <3>6, <3>7
  <2>4. ASSUME ~Lock(w), ~ProbeEmpty(w), ~ProbeNext(w), ~PackPart1(w)
        PROVE  pc'[w] \notin {"probe", "pack", "pack2"}
    <3>1. CASE AddTame(w) \/ CheckWild(w) \/ Search(w) \/ CheckWWBuffer(w)
      BY <3>1 DEF AddTame, CheckWild, Search, BeginCopy, ScanEmpty, ScanReport, ScanDuplicate,
         ScanNext,
         AfterScan, CheckWWBuffer, WWBegin, WWReport, WWMiss, WWStore, Scanning, EndCopy, Finish,
         Goto,
         TypeOK
    <3>2. CASE AddToTable(w)
      BY <2>4, <3>2 DEF AddToTable, ProbeDuplicate, Freeze, ActivateRotation, SaveDiscarded,
         PackPart2, Count, Finish, Goto, TypeOK
    <3> QED
      BY <1>4, <3>1, <3>2 DEF Step
  <2>5. Lock(w) => pc'[w] \notin {"pack", "pack2"}
    BY <2>0 DEF Lock, Finish, Goto
  <2> QED
    BY <2>1, <2>2, <2>3, <2>4, <2>5
<1> QED
  BY <1>2, <1>3, <1>4 DEF Next

LEMMA NoTwinsStep ==
  ASSUME TypeOK, RotInv, NoTwins, \A w \in Threads : UnseenOf(w), [Next]_vars
  PROVE  NoTwins'
<1>1. ASSUME NEW w \in Threads, PackPart2(w)
      PROVE  NoTwins'
  <2>1. pc[w] = "pack2"
    BY <1>1 DEF PackPart2, RotInv
  <2>2. PICK d \in Points, t \in TableIds, q \in Slots :
          d = dp[w] /\ t = StoreIdx(d) /\ q = Here(w)
    BY <2>1, IdxType, SlotType DEF TypeOK, Here
  <2>3. part2' = [part2 EXCEPT ![t][q] = d]
    BY <1>1, <2>2 DEF PackPart2
  <2>4. \A s \in Slots : ~HasKey(t, s, d)
    BY <2>1, <2>2 DEF UnseenOf
  <2>5. SUFFICES ASSUME NEW u \in TableIds, NEW r \in Slots, NEW s \in Slots,
                        part2'[u][r] # Zero, part2'[u][s] # Zero,
                        SameKey(part2'[u][s], part2'[u][r]), r # s
                 PROVE  FALSE
    BY DEF NoTwins, HasKey, SameKey, Home, Slot
  <2>6. \A x \in Slots : part2'[u][x] = IF u = t /\ x = q THEN d ELSE part2[u][x]
    BY <2>2, <2>3 DEF TypeOK
  <2>7. CASE u = t /\ r = q
    BY <2>4, <2>5, <2>6, <2>7 DEF HasKey
  <2>8. CASE u = t /\ s = q
    <3>1. HasKey(t, r, d)
      BY <2>5, <2>6, <2>8 DEF HasKey, SameKey
    <3> QED
      BY <2>4, <3>1
  <2>9. CASE ~(u = t /\ r = q) /\ ~(u = t /\ s = q)
    BY <2>5, <2>6, <2>9 DEF NoTwins, HasKey
  <2> QED
    BY <2>7, <2>8, <2>9
<1>2. ASSUME part2' = part2 PROVE NoTwins'
  BY <1>2 DEF NoTwins, HasKey, SameKey, Home, Slot
<1>3. CASE ClearCollision \/ UNCHANGED vars
  BY <1>2, <1>3 DEF ClearCollision, vars, storeOnly, tables
<1> QED
  BY <1>1, <1>2, <1>3, OnlyPartTwo DEF Next

\* With rotation off, no table ever holds two entries of one key, for any
\* number of threads: the locks of the home shards are enough for the check
\* for duplicates, although the slots it reads lie in any shard.
THEOREM NoTwinsCorrect ==
  ASSUME NoRotation
  PROVE  Spec => []NoTwins
<1> DEFINE IInv == /\ TypeOK /\ ChainInv /\ NoHoles /\ LockInv /\ RotInv
                   /\ NoTwins /\ \A w \in Threads : UnseenOf(w)
<1>1. Init => IInv
  <2> SUFFICES ASSUME Init PROVE IInv
    OBVIOUS
  <2>1. TypeOK /\ ChainInv /\ NoHoles
    BY InitType DEF Init, ChainInv, ChainOf, NoHoles
  <2>2. LockInv /\ RotInv /\ NoTwins /\ \A w \in Threads : UnseenOf(w)
    BY DEF Init, LockInv, HoldsLock, HoldsHome, RotInv, NoTwins, UnseenOf
  <2> QED
    BY <2>1, <2>2
<1>2. IInv /\ [Next]_vars => IInv'
  <2> SUFFICES ASSUME IInv, [Next]_vars PROVE IInv'
    OBVIOUS
  <2>1. (TypeOK /\ ChainInv /\ NoHoles /\ LockInv)'
    BY NextType, ChainInvStep, NoHolesStep, LockInvStep
  <2>2. RotInv' /\ NoTwins'
    BY RotStep, NoTwinsStep
  <2>3. \A w \in Threads : UnseenOf(w)'
    BY UnseenStep
  <2> QED
    BY <2>1, <2>2, <2>3
<1>3. IInv => NoTwins
  OBVIOUS
<1> QED
  BY <1>1, <1>2, <1>3, PTL DEF Spec

-----------------------------------------------------------------------------
\* Waiting for a lock, and the end of a call.

\* A thread holds a lock from the step that takes it to the one that frees it.
LEMMA LocksHeldStep ==
  ASSUME TypeOK, LockInv, LocksHeld, [Next]_vars
  PROVE  LocksHeld'
<1>1. ASSUME NEW w \in Threads, Step(w), NEW t \in TableIds, NEW h \in Shards,
             shardLock'[t][h] # NoThread
      PROVE  \E v \in Threads : shardLock'[t][h] = v /\ HoldsLock(v, t, h)'
  <2>1. CASE shardLock'[t][h] = shardLock[t][h]
    <3>1. PICK v \in Threads : shardLock[t][h] = v /\ HoldsLock(v, t, h)
      BY <1>1, <2>1 DEF LocksHeld
    <3>2. CASE v # w
      BY <1>1, <2>1, <3>1, <3>2, LocksOfOthers
    <3>3. CASE v = w
      BY <1>1, <2>1, <3>1, <3>3, LockAt, StoreAssumption
    <3> QED
      BY <3>2, <3>3
  <2>2. CASE shardLock'[t][h] # shardLock[t][h]
    BY <1>1, <2>2, LockAt
  <2> QED
    BY <2>1, <2>2
<1>2. CASE ClearCollision \/ UNCHANGED vars
  <2>1. shardLock' = shardLock /\ pc' = pc /\ dp' = dp /\ probe' = probe
    BY <1>2 DEF ClearCollision, vars
  <2>2. \A v, t, h : HoldsLock(v, t, h)' <=> HoldsLock(v, t, h)
    BY <2>1, HoldsLockIs
  <2> QED
    BY <2>1, <2>2 DEF LocksHeld
<1>3. ASSUME NEW w \in Threads, Step(w) PROVE LocksHeld'
  BY <1>1, <1>3 DEF LocksHeld
<1> QED
  BY <1>2, <1>3 DEF Next

\* A lock that is taken is held by a thread in its critical section, at home in
\* that shard, or by one that copies a slot of it. The steps of a critical section ask for no lock, so nobody in
\* one waits, and no threads ever wait for each other in a circle.
THEOREM LocksHeldCorrect == Spec => []LocksHeld
<1>1. Init => TypeOK /\ LockInv /\ LocksHeld
  BY InitType DEF Init, LockInv, HoldsLock, HoldsHome, LocksHeld
<1>2. TypeOK /\ LockInv /\ LocksHeld /\ [Next]_vars => (TypeOK /\ LockInv /\ LocksHeld)'
  BY NextType, LockInvStep, LocksHeldStep
<1> QED
  BY <1>1, <1>2, PTL DEF Spec

\* Where the steps of a running call lead.
Moves(l, k, p, q, m) ==
  \/ k = "idle"
  \/ l = "scan" /\ k = "copy" /\ q = p
  \/ l = "copy" /\ k \in {"store", "ww"} /\ q = 0
  \/ l = "copy" /\ k = "scan" /\ q = p + 1 /\ q < m
  \/ l = "store" /\ k \in {"probe", "rotate"} /\ q = p
  \/ l = "probe" /\ k \in {"pack", "full"} /\ q = p
  \/ l = "probe" /\ k = "probe" /\ q = p + 1
  \/ <<l, k>> \in {<<"full", "rotate">>, <<"rotate", "rot">>, <<"rot", "rot2">>,
                   <<"pack", "pack2">>, <<"pack2", "count">>}
  \/ l = "ww" /\ k = "wwscan" /\ q = p
  \/ l = "wwscan" /\ k = "wwscan" /\ q = p + 1 /\ q < WWProbe
  \/ l = "wwscan" /\ k = "wwstore"

LEMMA MovesOn ==
  ASSUME TypeOK, NEW w \in Threads, Step(w), pc[w] # "idle"
  PROVE  Moves(pc[w], pc'[w], probe[w], probe'[w], limit[w])
<1>0. pc \in [Threads -> PCs] /\ probe \in [Threads -> 0 .. ProbeMax]
  BY DEF TypeOK
<1>1. CASE Finish(w)
  BY <1>0, <1>1 DEF Finish, Goto, Moves
<1>2. CASE Search(w) /\ ~BeginCopy(w) /\ ~Finish(w)
  <2>1. ASSUME NEW o, AfterScan(w, o), ~Finish(w)
        PROVE  pc'[w] \in {"store", "ww"} /\ probe'[w] = 0
    BY <1>0, <2>1 DEF AfterScan, Goto
  <2>2. pc[w] = "copy"
    BY <1>2 DEF Search, ScanEmpty, ScanReport, ScanDuplicate, ScanNext, EndCopy
  <2>3. \/ \E o : AfterScan(w, o)
        \/ /\ NextProbe(probe[w]) < limit[w] /\ Goto(w, "scan")
           /\ probe' = [probe EXCEPT ![w] = NextProbe(@)]
    BY <1>2 DEF Search, ScanEmpty, ScanReport, ScanDuplicate, ScanNext
  <2>4. CASE \E o : AfterScan(w, o)
    BY <1>2, <2>1, <2>2, <2>4 DEF Moves
  <2>5. CASE /\ NextProbe(probe[w]) < limit[w] /\ Goto(w, "scan")
             /\ probe' = [probe EXCEPT ![w] = NextProbe(@)]
    BY <1>0, <2>2, <2>5 DEF NextProbe, Goto, Moves
  <2> QED
    BY <2>3, <2>4, <2>5
<1>6. CASE BeginCopy(w)
  BY <1>0, <1>6 DEF BeginCopy, Scanning, Goto, Moves
<1>3. CASE AddToTable(w) /\ ~Finish(w)
  <2>1. CASE Lock(w)
    BY <1>0, <1>3, <2>1 DEF Lock, Goto, Moves
  <2>2. CASE ProbeEmpty(w) \/ ActivateRotation(w) \/ SaveDiscarded(w)
    BY <1>0, <2>2 DEF ProbeEmpty, ActivateRotation, SaveDiscarded, Goto, Moves
  <2>3. CASE ProbeNext(w)
    <3>1. pc[w] = "probe"
      BY <2>3 DEF ProbeNext
    <3>2. CASE LastProbe(probe[w])
      BY <1>0, <2>3, <3>1, <3>2 DEF ProbeNext, Goto, Moves
    <3>3. CASE ~LastProbe(probe[w])
      BY <1>0, <2>3, <3>1, <3>3 DEF ProbeNext, NextProbe, Moves
    <3> QED
      BY <3>2, <3>3
  <2>4. CASE PackPart1(w)
    BY <1>0, <2>4 DEF PackPart1, Goto, Moves
  <2>5. CASE PackPart2(w)
    BY <1>0, <1>3, <2>5 DEF PackPart2, Goto, Moves
  <2>6. ~ProbeDuplicate(w) /\ ~Freeze(w) /\ ~Count(w)
    BY <1>3 DEF ProbeDuplicate, Freeze, Count
  <2> QED
    BY <1>3, <2>1, <2>2, <2>3, <2>4, <2>5, <2>6 DEF AddToTable
<1>4. CASE CheckWWBuffer(w) /\ ~Finish(w)
  <2>1. CASE WWBegin(w)
    BY <1>0, <2>1 DEF WWBegin, Goto, Moves
  <2>2. CASE WWMiss(w)
    <3>1. pc[w] = "wwscan"
      BY <2>2 DEF WWMiss
    <3>2. \/ pc' = [pc EXCEPT ![w] = "wwstore"]
          \/ /\ NextProbe(probe[w]) < WWProbe
             /\ probe' = [probe EXCEPT ![w] = NextProbe(@)] /\ pc' = pc
      BY <2>2 DEF WWMiss, Goto
    <3> QED
      BY <1>0, <3>1, <3>2 DEF NextProbe, Moves
  <2>3. ~WWReport(w) /\ ~WWStore(w)
    BY <1>4 DEF WWReport, WWStore
  <2> QED
    BY <1>4, <2>1, <2>2, <2>3 DEF CheckWWBuffer
<1>5. ~AddTame(w) /\ ~CheckWild(w)
  BY pc[w] # "idle" DEF AddTame, CheckWild
<1> QED
  BY <1>1, <1>2, <1>3, <1>4, <1>5, <1>6 DEF Step

\* How far the probing loops get.
ProbeBound(w) ==
  /\ pc[w] \in {"idle", "ww"} => probe[w] = 0
  /\ pc[w] \in {"scan", "copy"} => probe[w] < MaxProbe
  /\ pc[w] = "wwscan" => probe[w] < WWProbe
  /\ pc[w] = "probe" => probe[w] < MaxProbe

LEMMA LeftBounded ==
  ASSUME TypeOK, NEW w \in Threads, ProbeBound(w)
  PROVE  StepsLeft(pc[w], probe[w]) \in 0 .. CallBound
<1>1. PICK l \in PCs, p \in Nat, m \in Nat, n \in Nat :
        l = pc[w] /\ p = probe[w] /\ m = MaxProbe /\ n = WWProbe
  BY StoreAssumption DEF TypeOK
<1>2. m > 0 /\ n > 0
  BY <1>1, StoreAssumption
<1>3. /\ l \in {"scan", "copy"} => p < m
      /\ l = "wwscan" => p < n
      /\ l = "probe" => p < m
  BY <1>1 DEF ProbeBound
<1>4. StepsLeft(l, p) \in 0 .. CallBound
  <2>1. CASE l \in {"scan", "copy"}
    <3>1. StepsLeft(l, p) \in {4 + m + n + 2 * (m - p), 5 + m + n + 2 * (m - p)}
      BY <1>1, <2>1 DEF StepsLeft
    <3>2. CallBound = 5 + 3 * m + n
      BY <1>1 DEF CallBound
    <3> QED
      BY <1>2, <1>3, <2>1, <3>1, <3>2
  <2>2. CASE l = "wwscan"
    BY <1>1, <1>2, <1>3, <2>2 DEF StepsLeft, CallBound
  <2>3. CASE l = "probe"
    BY <1>1, <1>2, <1>3, <2>3 DEF StepsLeft, CallBound
  <2>4. CASE l = "store"
    BY <1>1, <1>2, <2>4 DEF StepsLeft, CallBound
  <2>6. CASE l = "ww"
    BY <1>1, <1>2, <2>6 DEF StepsLeft, CallBound
  <2>5. CASE l \in {"idle", "count", "rot2", "wwstore", "pack2", "rot", "pack", "rotate", "full"}
    <3>1. StepsLeft(l, p) \in 0 .. 4
      BY <2>5 DEF StepsLeft
    <3>2. CallBound \in Nat /\ 4 < CallBound
      BY <1>1, <1>2 DEF CallBound
    <3> QED
      BY <3>1, <3>2
  <2> QED
    BY <2>1, <2>2, <2>3, <2>4, <2>5, <2>6 DEF PCs, HoldsHome
<1> QED
  BY <1>1, <1>4

LEMMA LeftFalls ==
  ASSUME TypeOK, NEW w \in Threads, ProbeBound(w), ProbeBound(w)', Step(w), pc[w] # "idle"
  PROVE  StepsLeft(pc'[w], probe'[w]) < StepsLeft(pc[w], probe[w])
<1>0. pc'[w] \in PCs /\ probe'[w] \in Nat
  <2>1. TypeOK'
    BY NextType DEF Next
  <2> QED
    BY <2>1 DEF TypeOK
<1>1. PICK l \in PCs, k \in PCs, p \in Nat, q \in Nat, m \in Nat, n \in Nat :
        /\ l = pc[w] /\ p = probe[w] /\ m = MaxProbe /\ n = WWProbe
        /\ k = pc'[w] /\ q = probe'[w]
  BY <1>0, StoreAssumption DEF TypeOK
<1>2. m > 0 /\ n > 0
  BY <1>1, StoreAssumption
<1>3. /\ l \in {"scan", "copy"} => p < m
      /\ l = "wwscan" => p < n
      /\ l = "probe" => p < m
      /\ k \in {"scan", "copy"} => q < m
      /\ k = "wwscan" => q < n
      /\ k = "probe" => q < m
  BY <1>1 DEF ProbeBound
<1>4. Moves(l, k, p, q, limit[w])
  BY <1>1, MovesOn
<1>5. l # "idle"
  BY <1>1
<1>6. CASE k = "idle"
  BY <1>1, <1>2, <1>3, <1>5, <1>6 DEF StepsLeft, PCs, HoldsHome
<1>7. CASE l \in {"scan", "copy"} /\ k # "idle"
  BY <1>1, <1>2, <1>3, <1>4, <1>7 DEF StepsLeft, Moves
<1>8. CASE l \in {"store", "probe"} /\ k # "idle"
  BY <1>1, <1>2, <1>3, <1>4, <1>8 DEF StepsLeft, Moves
<1>9. CASE l \in {"ww", "wwscan"} /\ k # "idle"
  BY <1>1, <1>2, <1>3, <1>4, <1>9 DEF StepsLeft, Moves
<1>10. CASE l \notin {"scan", "copy", "store", "probe", "ww", "wwscan"} /\ k # "idle"
  BY <1>1, <1>2, <1>3, <1>4, <1>10 DEF StepsLeft, Moves
<1> QED
  BY <1>6, <1>7, <1>8, <1>9, <1>10

LEMMA ProbeBoundStep ==
  ASSUME TypeOK, ChainInv, [Next]_vars, NEW w \in Threads, ProbeBound(w)
  PROVE  ProbeBound(w)'
<1>0. TypeOK' /\ ChainInv' /\ MaxProbe \in Nat \ {0} /\ WWProbe \in Nat \ {0} /\ RotProbe <= MaxProbe
  BY NextType, ChainInvStep, StoreAssumption
<1>1. /\ pc'[w] = "idle" => probe'[w] = 0
      /\ pc'[w] = "probe" => probe'[w] < MaxProbe
  BY <1>0 DEF ChainInv, ChainOf
<1>2. ASSUME pc'[w] = pc[w], probe'[w] = probe[w] PROVE ProbeBound(w)'
  BY <1>2 DEF ProbeBound
<1>3. CASE Step(w) /\ pc[w] = "idle"
  <2>1. pc'[w] \in {"store", "scan"} /\ probe'[w] = 0
    <3>1. CASE AddTame(w) \/ CheckWild(w)
      BY <1>3, <3>1 DEF AddTame, CheckWild, Goto, TypeOK, ProbeBound
    <3>2. CASE Search(w) \/ CheckWWBuffer(w)
      BY <1>3, <3>2 DEF Search, BeginCopy, ScanEmpty, ScanReport, ScanDuplicate, ScanNext,
         Scanning, EndCopy,
         CheckWWBuffer, WWBegin, WWReport, WWMiss, WWStore
    <3>3. CASE AddToTable(w)
      BY <1>3, <3>3 DEF AddToTable, Lock, ProbeEmpty, ProbeDuplicate, ProbeNext, Freeze,
         ActivateRotation, SaveDiscarded, PackPart1, PackPart2, Count
    <3> QED
      BY <1>3, <3>1, <3>2, <3>3 DEF Step
  <2> QED
    BY <1>0, <2>1 DEF ProbeBound
<1>4. CASE Step(w) /\ pc[w] # "idle"
  <2>1. PICK l \in PCs, k \in PCs, p \in Nat, q \in Nat :
          l = pc[w] /\ p = probe[w] /\ k = pc'[w] /\ q = probe'[w]
    BY <1>0 DEF TypeOK
  <2>2. limit[w] \in Nat /\ limit[w] <= MaxProbe
    <3>1. limit[w] \in {0, RotProbe, MaxProbe}
      BY DEF TypeOK
    <3>2. RotProbe \in Nat /\ MaxProbe \in Nat /\ RotProbe <= MaxProbe
      BY StoreAssumption
    <3> QED
      BY <3>1, <3>2
  <2>3. /\ k = "scan" => q < limit[w]
        /\ k = "copy" => l = "scan" /\ q = p
        /\ k = "wwscan" => (l = "ww" /\ q = p) \/ q < WWProbe
        /\ k = "ww" => q = 0
    <3>1. Moves(l, k, p, q, limit[w])
      BY <1>4, <2>1, MovesOn
    <3> QED
      BY <3>1 DEF Moves
  <2>4. (l = "ww" => p = 0) /\ (l = "scan" => p < MaxProbe)
    BY <2>1 DEF ProbeBound
  <2> QED
    BY <1>0, <1>1, <2>1, <2>2, <2>3, <2>4 DEF ProbeBound
<1>5. ASSUME NEW v \in Threads, v # w, Step(v) PROVE ProbeBound(w)'
  BY <1>2, <1>5, OthersKeep
<1>6. CASE ClearCollision \/ UNCHANGED vars
  BY <1>2, <1>6 DEF ClearCollision, vars
<1> QED
  BY <1>3, <1>4, <1>5, <1>6 DEF Next

\* No call of the store runs longer than CallBound steps of its own thread,
\* however many threads fill, freeze and rotate the tables under it: together
\* with LocksHeld, the safety half of "every call returns".
THEOREM CallsEndCorrect == Spec => []CallsBounded /\ CallsEnd
<1> DEFINE IInv == TypeOK /\ ChainInv /\ \A w \in Threads : ProbeBound(w)
           Falls ==
             \A w \in Threads :
               /\ Step(w) /\ pc[w] # "idle" =>
                    StepsLeft(pc[w], probe[w])' < StepsLeft(pc[w], probe[w])
               /\ \A v \in Threads \ {w} : Step(v) => UNCHANGED StepsLeft(pc[w], probe[w])
<1>1. Init => IInv
  <2> SUFFICES ASSUME Init PROVE IInv
    OBVIOUS
  <2>1. TypeOK /\ ChainInv
    BY InitType DEF Init, ChainInv, ChainOf
  <2>2. \A w \in Threads : ProbeBound(w)
    BY DEF Init, ProbeBound
  <2> QED
    BY <2>1, <2>2
<1>2. IInv /\ [Next]_vars => IInv'
  BY NextType, ChainInvStep, ProbeBoundStep
<1>3. IInv => CallsBounded
  BY LeftBounded DEF CallsBounded
<1>4. IInv /\ IInv' /\ [Next]_vars => Falls
  <2> SUFFICES ASSUME IInv, IInv', NEW w \in Threads
               PROVE  /\ Step(w) /\ pc[w] # "idle" =>
                           StepsLeft(pc[w], probe[w])' < StepsLeft(pc[w], probe[w])
                      /\ \A v \in Threads \ {w} :
                           Step(v) => UNCHANGED StepsLeft(pc[w], probe[w])
    OBVIOUS
  <2>1. ASSUME Step(w), pc[w] # "idle"
        PROVE  StepsLeft(pc[w], probe[w])' < StepsLeft(pc[w], probe[w])
    <3>1. StepsLeft(pc'[w], probe'[w]) < StepsLeft(pc[w], probe[w])
      BY <2>1, LeftFalls
    <3> QED
      BY <3>1 DEF StepsLeft
  <2>2. ASSUME NEW v \in Threads \ {w}, Step(v)
        PROVE  UNCHANGED StepsLeft(pc[w], probe[w])
    <3>1. pc'[w] = pc[w] /\ probe'[w] = probe[w]
      BY <2>2, OthersKeep
    <3> QED
      BY <3>1 DEF StepsLeft
  <2> QED
    BY <2>1, <2>2
<1> HIDE DEF IInv, Falls
<1>5. Spec => []CallsBounded /\ [][Falls]_vars
  BY <1>1, <1>2, <1>3, <1>4, PTL DEF Spec
<1> QED
  BY <1>5 DEF Falls, CallsEnd
=============================================================================
