------------------------------ MODULE TameStore ------------------------------
(***************************************************************************)
(* The in-memory store of distinguished points (TameStore.h): two open     *)
(* addressing tables with quadratic probing, one spin lock per shard of    *)
(* slots, and the W-W buffer of ALL-TAME mode. Worker threads store TAMEs  *)
(* (AddTame) and check WILDs (CheckWildOnly in ALL-WILD mode, CheckWild in *)
(* ALL-TAME mode); a match is put into the one-place collision mailbox.    *)
(*                                                                         *)
(* Granularity. AddToTable holds the lock of the shard of its HOME slot    *)
(* only, while its probe sequence walks through the slots of any shard, so *)
(* every access to a slot is a step of its own and an entry is written in  *)
(* two halves (part1, then part2: two 64-bit stores in the order of the    *)
(* source). Searches take the lock of the shard of the slot they read, for *)
(* one copy of it; but a writer at work under another shard's lock may     *)
(* come between the copy's two words, which a build may load in either     *)
(* order. AddToTable looks at a slot in place, at part1 and then at part2: *)
(* as no slot is ever cleared, and part1 is written first, what it finds   *)
(* is what the slot was at one moment of its look, which is one step.      *)
(***************************************************************************)
EXTENDS Integers, FiniteSets

CONSTANTS
  Threads,        \* the threads that process DPs (12 workers, or the main thread)
  NoThread,       \* "nobody holds this lock"
  Points,         \* the DPs that arrive: records [x, type, lo, hi, ext]
  Zero,           \* a half of an entry that was never written (all-zero word)
  Hash,           \* TableHash: x -> number
  XSig,           \* x -> the 20 low bits kept in part2
  AllWild,        \* TRUE: ALL-WILD mode (two tables); FALSE: ALL-TAME mode
  NoRotation,     \* no_rotation: a full table freezes instead of rotating
  TableSize,      \* wild_table_size
  SlotsPerShard,  \* wild_slots_per_shard
  NumShards,      \* NUM_SHARDS
  MaxProbe,       \* TAME_MAX_PROBE
  RotProbe,       \* the probes a search makes once a table rotates (16)
  WWSize,         \* ww_buffer_size, 0 when there is no buffer
  WWProbe,        \* the probes of a search of the W-W buffer (8)
  FileOpen        \* a discarded-DPs file is open

TAME  == 0
WILD1 == 1
WILD2 == 2
TableIds == {0, 1}
Slots    == 0 .. TableSize - 1
Shards   == 0 .. NumShards - 1
WWSlots  == 0 .. WWSize - 1

ASSUME StoreAssumption ==
  /\ IsFiniteSet(Threads) /\ NoThread \notin Threads
  /\ Zero \notin Points
  /\ AllWild \in BOOLEAN /\ NoRotation \in BOOLEAN /\ FileOpen \in BOOLEAN
  /\ {TableSize, SlotsPerShard, NumShards, MaxProbe, RotProbe, WWProbe} \subseteq Nat \ {0}
  /\ RotProbe <= MaxProbe
  /\ WWSize \in Nat
  /\ \A d \in Points : /\ d.type \in {TAME, WILD1, WILD2}
                      /\ d.x \in DOMAIN Hash /\ Hash[d.x] \in Nat

VARIABLES
  part1, part2,     \* wild_table[t][slot].part1 / .part2: the DP they came from, or Zero
  shardLock,        \* wild_shard_locks[t][shard]: the holder
  circular,         \* circular_mode_active[t]
  frozen,           \* table_frozen[t]
  count,            \* wild_count[t]
  overwrites,       \* table_overwrites[t]
  discarded,        \* the entries written to the discarded-DPs file
  ww,               \* ww_buffer[slot]
  has_collision,    \* the mailbox holds a collision nobody cleared
  collision,        \* collision_dist1 (its two halves), collision_dist2
  todo,             \* DPs no thread has taken yet
  pc, dp, probe, limit,  \* per thread: control point, current DP, probe, max_probe
  copy,             \* per thread: the word of entry_copy that has been read
  owed              \* history: see Owed

tables  == <<part1, part2>>
flags   == <<circular, frozen>>
tallies == <<count, overwrites, discarded>>
mailbox == <<has_collision, collision>>
vars == <<tables, shardLock, flags, tallies, ww, mailbox, todo, pc, dp, probe, limit, copy, owed>>
storeOnly == <<tables, flags, tallies, ww>>

Half == Points \cup {Zero}
NoCopy == [word |-> 1, half |-> Zero]

-----------------------------------------------------------------------------
(* Operators of the source. *)

\* slot = (TableHash(x) + p(p+1)/2) % wild_table_size
Slot(d, p)   == (Hash[d.x] + (p * (p + 1)) \div 2) % TableSize
WWSlot(d, p) == (Hash[d.x] + (p * (p + 1)) \div 2) % WWSize
Home(d)      == Slot(d, 0)

GetShard(s) == (s \div SlotsPerShard) % NumShards

\* The halves an entry gives back: part1 holds bits 32..95 of the distance
\* (lo), part2 bits 96..135 (hi), the type and the signature. What lies above
\* bit 135 (ext) is dropped, and reads back as 0.
SigOf(h2)  == IF h2 = Zero THEN 0 ELSE XSig[h2.x]
TypeOf(h2) == IF h2 = Zero THEN TAME ELSE h2.type
LoOf(h1)   == IF h1 = Zero THEN 0 ELSE h1.lo
HiOf(h2)   == IF h2 = Zero THEN 0 ELSE h2.hi

IsEmpty(h1, h2)      == h1 = Zero /\ h2 = Zero
XSigMatch(h2, d)     == SigOf(h2) = XSig[d.x]
SameDist(h1, h2, d)  == LoOf(h1) = d.lo /\ HiOf(h2) = d.hi /\ d.ext = 0
Matches(h1, h2, d)   == ~IsEmpty(h1, h2) /\ XSigMatch(h2, d)
Collides(h1, h2, d)  == Matches(h1, h2, d) /\ ~SameDist(h1, h2, d)

SlotIsEmpty(t, s) == IsEmpty(part1[t][s], part2[t][s])
Holds(t, s, e)    == part1[t][s] = e /\ part2[t][s] = e

\* TAMEs go to table 0; ALL-WILD stores WILD1 in table 0 and WILD2 in table 1
\* and searches the opposite one; ALL-TAME only ever searches table 0.
StoreIdx(d) == IF d.type = TAME THEN 0 ELSE d.type - 1
CheckIdx(d) == IF AllWild THEN 1 - StoreIdx(d) ELSE 0

\* Loop control of the probing loops. The forms named after a fault are the
\* seeded faults the properties are tried against; no action uses them.
NextProbeSkip(p) == p + 2
NextProbe(p)     == p + 1

LastProbeEarly(p) == p + 2 >= MaxProbe
LastProbeLate(p)  == p = MaxProbe
LastProbe(p)      == p + 1 >= MaxProbe

SearchLimitShort(t) == RotProbe
SearchLimit(t)      == IF circular[t] THEN RotProbe ELSE MaxProbe

-----------------------------------------------------------------------------
(* History: what a search owes its caller. When a check starts, the owed   *)
(* entries are the complete ones of the searched table that collide with   *)
(* the DP and share its probe sequence.                                    *)
SameSequence(e, d) == \A p \in 0 .. MaxProbe - 1 : Slot(e, p) = Slot(d, p)

Owed(d) ==
  LET t == CheckIdx(d)
  IN {o \in Slots \X Points :
        /\ Holds(t, o[1], o[2])
        /\ Collides(o[2], o[2], d)
        /\ SameSequence(o[2], d)}

\* In the W-W buffer an entry only ever sits in its home slot.
OwedWW(d) ==
  {o \in {<<WWSlot(d, 0), ww[WWSlot(d, 0)]>>} :
     /\ o[2] # Zero
     /\ Collides(o[2], o[2], d)
     /\ o[2].type # d.type}

-----------------------------------------------------------------------------
(* Program counters: "idle"; "scan" CheckWildOnly/CheckWild, "copy" inside *)
(* the copy of a slot, under the lock of the slot's shard; "store"         *)
(* AddToTable before its lock; "probe", "full", "pack", "pack2", "rotate", *)
(* "rot", "rot2" AddToTable under the home lock; "count" after it; "ww",   *)
(* "wwscan", "wwstore" CheckWWBuffer.                                      *)
HoldsHome == {"probe", "full", "pack", "pack2", "rotate", "rot", "rot2"}
PCs == {"idle", "scan", "copy", "store", "count", "ww", "wwscan", "wwstore"} \cup HoldsHome

Init ==
  /\ part1 = [t \in TableIds |-> [s \in Slots |-> Zero]]
  /\ part2 = [t \in TableIds |-> [s \in Slots |-> Zero]]
  /\ shardLock = [t \in TableIds |-> [h \in Shards |-> NoThread]]
  /\ circular = [t \in TableIds |-> FALSE]
  /\ frozen = [t \in TableIds |-> (~AllWild /\ t = 1)]
  /\ count = [t \in TableIds |-> 0]
  /\ overwrites = [t \in TableIds |-> 0]
  /\ discarded = {}
  /\ ww = [s \in WWSlots |-> Zero]
  /\ has_collision = FALSE
  /\ collision = <<Zero, Zero, Zero>>
  /\ todo = Points
  /\ pc = [w \in Threads |-> "idle"]
  /\ dp = [w \in Threads |-> Zero]
  /\ probe = [w \in Threads |-> 0]
  /\ limit = [w \in Threads |-> 0]
  /\ copy = [w \in Threads |-> NoCopy]
  /\ owed = [w \in Threads |-> {}]

Goto(w, l) == pc' = [pc EXCEPT ![w] = l]

\* The call is over; the thread keeps nothing.
Finish(w) ==
  /\ Goto(w, "idle")
  /\ dp' = [dp EXCEPT ![w] = Zero]
  /\ probe' = [probe EXCEPT ![w] = 0]
  /\ limit' = [limit EXCEPT ![w] = 0]
  /\ owed' = [owed EXCEPT ![w] = {}]

\* (The first form is a lock that does not stay locked, a seeded fault.)
AcquireLoose(t, h, w) == shardLock' = shardLock
Acquire(t, h, w) == shardLock' = [shardLock EXCEPT ![t][h] = w]
Release(t, h)    == shardLock' = [shardLock EXCEPT ![t][h] = NoThread]

\* ReportCollisionTyped: one mailbox, overwritten under collision_lock.
ReportCollision(h1, h2, d) ==
  /\ has_collision' = TRUE
  /\ collision' = <<h1, h2, d>>

-----------------------------------------------------------------------------
(* A thread takes its next DP and calls the store. *)

AddTame(w) ==
  /\ pc[w] = "idle"
  /\ \E d \in todo :
       /\ d.type = TAME
       /\ todo' = todo \ {d}
       /\ dp' = [dp EXCEPT ![w] = d]
  /\ Goto(w, "store")
  /\ UNCHANGED <<storeOnly, shardLock, mailbox, copy, probe, limit, owed>>

CheckWild(w) ==
  /\ pc[w] = "idle"
  /\ \E d \in todo :
       /\ d.type # TAME
       /\ todo' = todo \ {d}
       /\ dp' = [dp EXCEPT ![w] = d]
       /\ limit' = [limit EXCEPT ![w] = SearchLimit(CheckIdx(d))]
       /\ owed' = [owed EXCEPT ![w] = Owed(d)]
  /\ Goto(w, "scan")
  /\ UNCHANGED <<storeOnly, shardLock, mailbox, copy, probe>>

\* Where a search that reported nothing goes on: CheckWildOnly stores the
\* WILD, CheckWild turns to the W-W buffer if there is one. The search leaves
\* the debt o.
AfterScan(w, o) ==
  IF AllWild \/ WWSize > 0
  THEN /\ Goto(w, IF AllWild THEN "store" ELSE "ww")
       /\ probe' = [probe EXCEPT ![w] = 0]
       /\ owed' = [owed EXCEPT ![w] = o]
       /\ UNCHANGED <<dp, limit>>
  ELSE Finish(w)

ScanningUnlocked(w, t, s) ==
  /\ pc[w] = "scan"
  /\ t = CheckIdx(dp[w])
  /\ s = Slot(dp[w], probe[w])

\* One turn of the search loop: the lock of the shard of the slot is free.
Scanning(w, t, s) ==
  /\ pc[w] = "scan"
  /\ t = CheckIdx(dp[w])
  /\ s = Slot(dp[w], probe[w])
  /\ shardLock[t][GetShard(s)] = NoThread

\* Lock, and the first word of the copy.
BeginCopy(w) ==
  \E t \in TableIds, s \in Slots :
    /\ Scanning(w, t, s)
    /\ Acquire(t, GetShard(s), w)
    /\ \E c \in {[word |-> 1, half |-> part1[t][s]], [word |-> 2, half |-> part2[t][s]]} :
         copy' = [copy EXCEPT ![w] = c]
    /\ Goto(w, "copy")
    /\ UNCHANGED <<storeOnly, mailbox, todo, dp, probe, limit, owed>>

\* entry_copy, once its second word is read.
Copied1(w) == IF copy[w].word = 1 THEN copy[w].half
              ELSE part1[CheckIdx(dp[w])][Slot(dp[w], probe[w])]
Copied2(w) == IF copy[w].word = 2 THEN copy[w].half
              ELSE part2[CheckIdx(dp[w])][Slot(dp[w], probe[w])]

\* The second word and the unlock; what follows looks at the copy only.
EndCopy(w) ==
  /\ pc[w] = "copy"
  /\ Release(CheckIdx(dp[w]), GetShard(Slot(dp[w], probe[w])))
  /\ copy' = [copy EXCEPT ![w] = NoCopy]

ScanEmpty(w) ==
  /\ EndCopy(w)
  /\ IsEmpty(Copied1(w), Copied2(w))
  /\ AfterScan(w, owed[w])
  /\ UNCHANGED <<storeOnly, mailbox, todo>>

ScanReport(w) ==
  /\ EndCopy(w)
  /\ Collides(Copied1(w), Copied2(w), dp[w])
  /\ ReportCollision(Copied1(w), Copied2(w), dp[w])
  /\ Finish(w)
  /\ UNCHANGED <<storeOnly, todo>>

\* A signature match at the same distance is taken for the same walk and ends
\* the search: nothing further is owed.
ScanDuplicate(w) ==
  /\ EndCopy(w)
  /\ Matches(Copied1(w), Copied2(w), dp[w])
  /\ SameDist(Copied1(w), Copied2(w), dp[w])
  /\ AfterScan(w, {})
  /\ UNCHANGED <<storeOnly, mailbox, todo>>

ScanNext(w) ==
  /\ EndCopy(w)
  /\ ~IsEmpty(Copied1(w), Copied2(w))
  /\ ~XSigMatch(Copied2(w), dp[w])
  /\ IF NextProbe(probe[w]) < limit[w]
     THEN /\ probe' = [probe EXCEPT ![w] = NextProbe(@)]
          /\ Goto(w, "scan")
          /\ UNCHANGED <<dp, limit, owed>>
     ELSE AfterScan(w, owed[w])
  /\ UNCHANGED <<storeOnly, mailbox, todo>>

-----------------------------------------------------------------------------
(* AddToTable. *)

\* The gate of the fill path: a frozen table takes nothing.
GateOpen(t)  == FALSE
GateShut(t)  == frozen[t]

\* Lock the shard of the home slot, then look at the mode flags.
Lock(w) ==
  LET t == StoreIdx(dp[w])
      h == GetShard(Home(dp[w]))
  IN /\ pc[w] = "store"
     /\ shardLock[t][h] = NoThread
     /\ \/ /\ circular[t] /\ ~NoRotation
           /\ Acquire(t, h, w)
           /\ Goto(w, "rotate")
           /\ UNCHANGED <<dp, probe, limit, owed>>
        \/ /\ ~(circular[t] /\ ~NoRotation)
           /\ GateShut(t)
           /\ Finish(w)
           /\ UNCHANGED shardLock
        \/ /\ ~(circular[t] /\ ~NoRotation)
           /\ ~GateShut(t)
           /\ Acquire(t, h, w)
           /\ Goto(w, "probe")
           /\ UNCHANGED <<dp, probe, limit, owed>>
     /\ UNCHANGED <<storeOnly, mailbox, copy, todo>>

Here(w) == Slot(dp[w], probe[w])

ProbeEmpty(w) ==
  /\ pc[w] = "probe"
  /\ SlotIsEmpty(StoreIdx(dp[w]), Here(w))
  /\ Goto(w, "pack")
  /\ UNCHANGED <<storeOnly, shardLock, mailbox, copy, todo, dp, probe, limit, owed>>

ProbeDuplicateCounted(w) ==
  LET t == StoreIdx(dp[w])
  IN /\ pc[w] = "probe"
     /\ Matches(part1[t][Here(w)], part2[t][Here(w)], dp[w])
     /\ Release(t, GetShard(Home(dp[w])))
     /\ count' = [count EXCEPT ![t] = @ + 1]
     /\ Finish(w)
     /\ UNCHANGED <<tables, flags, overwrites, discarded, ww, mailbox, copy, todo>>

\* Any signature match in the DP's own table is dropped as a duplicate.
ProbeDuplicate(w) ==
  LET t == StoreIdx(dp[w])
  IN /\ pc[w] = "probe"
     /\ Matches(part1[t][Here(w)], part2[t][Here(w)], dp[w])
     /\ Release(t, GetShard(Home(dp[w])))
     /\ Finish(w)
     /\ UNCHANGED <<storeOnly, mailbox, copy, todo>>

ProbeNext(w) ==
  LET t == StoreIdx(dp[w])
  IN /\ pc[w] = "probe"
     /\ ~SlotIsEmpty(t, Here(w))
     /\ ~XSigMatch(part2[t][Here(w)], dp[w])
     /\ IF LastProbe(probe[w])
        THEN Goto(w, "full") /\ UNCHANGED probe
        ELSE probe' = [probe EXCEPT ![w] = NextProbe(@)] /\ UNCHANGED pc
     /\ UNCHANGED <<storeOnly, shardLock, mailbox, copy, todo, dp, limit, owed>>

\* All probes taken: freeze the table and drop the DP, or start rotating.
Freeze(w) ==
  LET t == StoreIdx(dp[w])
  IN /\ pc[w] = "full"
     /\ NoRotation
     /\ frozen' = [frozen EXCEPT ![t] = TRUE]
     /\ Release(t, GetShard(Home(dp[w])))
     /\ Finish(w)
     /\ UNCHANGED <<tables, circular, tallies, ww, mailbox, copy, todo>>

ActivateRotation(w) ==
  /\ pc[w] = "full"
  /\ ~NoRotation
  /\ circular' = [circular EXCEPT ![StoreIdx(dp[w])] = TRUE]
  /\ Goto(w, "rotate")
  /\ UNCHANGED <<tables, frozen, tallies, ww, shardLock, mailbox, copy, todo, dp, probe, limit, owed>>

\* Rotation overwrites the home slot; its entry goes to the discarded file.
SaveDiscarded(w) ==
  LET t == StoreIdx(dp[w])
      s == Home(dp[w])
  IN /\ pc[w] = "rotate"
     /\ discarded' = IF FileOpen /\ ~SlotIsEmpty(t, s)
                     THEN discarded \cup {<<part1[t][s], part2[t][s]>>}
                     ELSE discarded
     /\ probe' = [probe EXCEPT ![w] = 0]
     /\ Goto(w, "rot")
     /\ UNCHANGED <<tables, flags, count, overwrites, ww, shardLock, mailbox, copy, todo, dp, limit, owed>>

\* PackWild, first word.
PackPart1(w) ==
  /\ pc[w] \in {"pack", "rot"}
  /\ part1' = [part1 EXCEPT ![StoreIdx(dp[w])][Here(w)] = dp[w]]
  /\ Goto(w, IF pc[w] = "pack" THEN "pack2" ELSE "rot2")
  /\ UNCHANGED <<part2, flags, tallies, ww, shardLock, mailbox, copy, todo, dp, probe, limit, owed>>

PackPart2ForeignUnlock(w) ==
  LET t == StoreIdx(dp[w])
  IN /\ pc[w] \in {"pack2", "rot2"}
     /\ part2' = [part2 EXCEPT ![t][Here(w)] = dp[w]]
     /\ Release(t, GetShard(Here(w)))
     /\ IF pc[w] = "pack2"
        THEN Goto(w, "count") /\ UNCHANGED <<overwrites, dp, probe, limit, owed>>
        ELSE overwrites' = [overwrites EXCEPT ![t] = @ + 1] /\ Finish(w)
     /\ UNCHANGED <<part1, flags, count, discarded, ww, mailbox, copy, todo>>

PackPart2Uncounted(w) ==
  /\ pc[w] \in {"pack2", "rot2"}
  /\ part2' = [part2 EXCEPT ![StoreIdx(dp[w])][Here(w)] = dp[w]]
  /\ Release(StoreIdx(dp[w]), GetShard(Home(dp[w])))
  /\ IF pc[w] = "pack2"
     THEN Goto(w, "count") /\ UNCHANGED <<dp, probe, limit, owed>>
     ELSE Finish(w)
  /\ UNCHANGED <<part1, flags, tallies, ww, mailbox, copy, todo>>

\* PackWild, second word, and the unlock. The fill path counts after it.
PackPart2(w) ==
  LET t == StoreIdx(dp[w])
  IN /\ pc[w] \in {"pack2", "rot2"}
     /\ part2' = [part2 EXCEPT ![t][Here(w)] = dp[w]]
     /\ Release(t, GetShard(Home(dp[w])))
     /\ IF pc[w] = "pack2"
        THEN /\ Goto(w, "count")
             /\ UNCHANGED <<overwrites, dp, probe, limit, owed>>
        ELSE /\ overwrites' = [overwrites EXCEPT ![t] = @ + 1]
             /\ Finish(w)
     /\ UNCHANGED <<part1, flags, count, discarded, ww, mailbox, copy, todo>>

CountForgotten(w) ==
  /\ pc[w] = "count"
  /\ Finish(w)
  /\ UNCHANGED <<storeOnly, shardLock, mailbox, copy, todo>>

\* wild_count is incremented after the unlock.
Count(w) ==
  /\ pc[w] = "count"
  /\ count' = [count EXCEPT ![StoreIdx(dp[w])] = @ + 1]
  /\ Finish(w)
  /\ UNCHANGED <<tables, flags, overwrites, discarded, ww, shardLock, mailbox, copy, todo>>

-----------------------------------------------------------------------------
(* CheckWWBuffer (ALL-TAME mode): every access to a slot is under the lock *)
(* of that slot's own shard, for one copy or one store.                    *)

WWBegin(w) ==
  /\ pc[w] = "ww"
  /\ owed' = [owed EXCEPT ![w] = OwedWW(dp[w])]
  /\ Goto(w, "wwscan")
  /\ UNCHANGED <<storeOnly, shardLock, mailbox, copy, todo, dp, probe, limit>>

\* A match of the buffer is a collision only between WILD1 and WILD2.
CrossTypeOneWay(h, d) == TypeOf(h) = WILD2 /\ d.type = WILD1
CrossType(h, d)       == TypeOf(h) # d.type

WWHere(w) == ww[WWSlot(dp[w], probe[w])]

WWReport(w) ==
  /\ pc[w] = "wwscan"
  /\ Collides(WWHere(w), WWHere(w), dp[w])
  /\ CrossType(WWHere(w), dp[w])
  /\ ReportCollision(WWHere(w), WWHere(w), dp[w])
  /\ Finish(w)
  /\ UNCHANGED <<storeOnly, shardLock, copy, todo>>

WWMiss(w) ==
  /\ pc[w] = "wwscan"
  /\ \/ /\ WWHere(w) = Zero
        /\ Goto(w, "wwstore") /\ UNCHANGED probe
     \/ /\ Matches(WWHere(w), WWHere(w), dp[w])
        /\ ~(Collides(WWHere(w), WWHere(w), dp[w]) /\ CrossType(WWHere(w), dp[w]))
        /\ Goto(w, "wwstore") /\ UNCHANGED probe
     \/ /\ WWHere(w) # Zero /\ ~XSigMatch(WWHere(w), dp[w])
        /\ IF NextProbe(probe[w]) < WWProbe
           THEN probe' = [probe EXCEPT ![w] = NextProbe(@)] /\ UNCHANGED pc
           ELSE Goto(w, "wwstore") /\ UNCHANGED probe
  /\ UNCHANGED <<storeOnly, shardLock, mailbox, copy, todo, dp, limit, owed>>

WWStore(w) ==
  /\ pc[w] = "wwstore"
  /\ ww' = [ww EXCEPT ![WWSlot(dp[w], 0)] = dp[w]]
  /\ Finish(w)
  /\ UNCHANGED <<tables, flags, tallies, shardLock, mailbox, copy, todo>>

-----------------------------------------------------------------------------
\* The resolver empties the mailbox (ClearCollision) whenever it likes.
ClearCollision ==
  /\ has_collision
  /\ has_collision' = FALSE
  /\ UNCHANGED <<storeOnly, shardLock, collision, copy, todo, pc, dp, probe, limit, owed>>

AddToTable(w) ==
  \/ Lock(w)
  \/ ProbeEmpty(w) \/ ProbeDuplicate(w) \/ ProbeNext(w)
  \/ Freeze(w) \/ ActivateRotation(w) \/ SaveDiscarded(w)
  \/ PackPart1(w) \/ PackPart2(w) \/ Count(w)

Search(w) ==
  \/ BeginCopy(w)
  \/ ScanEmpty(w) \/ ScanReport(w) \/ ScanDuplicate(w) \/ ScanNext(w)

CheckWWBuffer(w) ==
  \/ WWBegin(w) \/ WWReport(w) \/ WWMiss(w) \/ WWStore(w)

Step(w) ==
  \/ AddTame(w) \/ CheckWild(w)
  \/ Search(w) \/ AddToTable(w) \/ CheckWWBuffer(w)

Done == todo = {} /\ \A w \in Threads : pc[w] = "idle"

Next == ClearCollision \/ \E w \in Threads : Step(w)

Spec == Init /\ [][Next]_vars

\* Threads are scheduled by the operating system and the loop over a chunk
\* takes every DP: each thread that can step eventually does.
FairSpec == Spec /\ \A w \in Threads : WF_vars(Step(w))

-----------------------------------------------------------------------------
ProbeMax == (IF MaxProbe > WWProbe THEN MaxProbe ELSE WWProbe) - 1
InBuffer == {"ww", "wwscan", "wwstore"}

TypeOK ==
  /\ part1 \in [TableIds -> [Slots -> Half]]
  /\ part2 \in [TableIds -> [Slots -> Half]]
  /\ shardLock \in [TableIds -> [Shards -> Threads \cup {NoThread}]]
  /\ circular \in [TableIds -> BOOLEAN]
  /\ frozen \in [TableIds -> BOOLEAN]
  /\ count \in [TableIds -> Nat]
  /\ overwrites \in [TableIds -> Nat]
  /\ discarded \in SUBSET (Half \X Half)
  /\ ww \in [WWSlots -> Half]
  /\ has_collision \in BOOLEAN
  /\ collision \in Half \X Half \X Half
  /\ todo \in SUBSET Points
  /\ pc \in [Threads -> PCs]
  /\ dp \in [Threads -> Half]
  /\ probe \in [Threads -> 0 .. ProbeMax]
  /\ limit \in [Threads -> {0, RotProbe, MaxProbe}]
  /\ copy \in [Threads -> [word : {1, 2}, half : Half]]
  /\ owed \in [Threads -> SUBSET (Nat \X Points)]
  /\ \A w \in Threads : pc[w] # "idle" => dp[w] \in Points
  /\ \A w \in Threads : pc[w] \in InBuffer => WWSize > 0

\* Every probe of d before the p-th finds an occupied slot of table t.
Chain(t, d, p) == \A j \in 0 .. MaxProbe - 1 : j < p => ~SlotIsEmpty(t, Slot(d, j))

Reachable(t, s, e) == \E p \in 0 .. MaxProbe - 1 : Slot(e, p) = s /\ Chain(t, e, p)

\* Where the threads are on the way to a slot: a probing thread has seen every
\* earlier slot of its DP's sequence occupied, and a rotating one is at home.
ChainOf(w) ==
  /\ pc[w] \in {"idle", "store", "rot", "rot2"} => probe[w] = 0
  /\ pc[w] \in {"probe", "pack", "pack2"} =>
       probe[w] < MaxProbe /\ Chain(StoreIdx(dp[w]), dp[w], probe[w])
  /\ pc[w] = "full" => Chain(StoreIdx(dp[w]), dp[w], MaxProbe)

ChainInv == \A w \in Threads : ChainOf(w)

(* The stop-at-the-first-empty-slot rule of every search is sound: each    *)
(* half of each entry lies on its own DP's probe sequence with no empty    *)
(* slot before it, whatever the other threads are doing (AddToTable only   *)
(* locks the home shard, so probing threads do meet in foreign shards).    *)
NoHoles ==
  \A t \in TableIds, s \in Slots :
    /\ part1[t][s] # Zero => Reachable(t, s, part1[t][s])
    /\ part2[t][s] # Zero => Reachable(t, s, part2[t][s])

(* A search that ends without a report has not passed over an entry: no    *)
(* colliding entry that was complete when the check began is still in the  *)
(* table (the table's, then the W-W buffer's) once the search has ended.   *)
NoMissedEntry ==
  \A w \in Threads, o \in Slots \X Points :
    o \in owed[w] /\ pc[w] \in {"store", "ww"} => ~Holds(CheckIdx(dp[w]), o[1], o[2])

NoMissedWW ==
  \A w \in Threads : \A o \in owed[w] : pc[w] = "wwstore" => ww[o[1]] # o[2]

\* Why: nobody is about to write an entry that is in a table already, ...
NotComing(e) ==
  /\ e \notin todo
  /\ \A w \in Threads : dp[w] = e => pc[w] \in {"idle", "count"} \cup InBuffer

SettledInv ==
  /\ \A w \in Threads : pc[w] # "idle" => dp[w] \notin todo
  /\ \A v, w \in Threads : v # w /\ pc[v] # "idle" /\ pc[w] # "idle" => dp[v] # dp[w]
  /\ \A t \in TableIds, s \in Slots : part2[t][s] # Zero => NotComing(part2[t][s])

\* ... and an owed entry that is still there lies ahead of the search, with no
\* empty slot on the way.
OwedOf(w) ==
  LET t == CheckIdx(dp[w])
  IN \A o \in owed[w] :
       /\ o[1] \in Slots
       /\ Collides(o[2], o[2], dp[w])
       /\ NotComing(o[2])
       /\ pc[w] \in {"scan", "copy"} /\ Holds(t, o[1], o[2]) =>
            \E k \in probe[w] .. MaxProbe - 1 : Slot(dp[w], k) = o[1] /\ Chain(t, dp[w], k)
       /\ pc[w] = "copy" /\ Holds(t, o[1], o[2]) =>
            IF Slot(dp[w], probe[w]) = o[1]
            THEN copy[w].half = o[2]
            ELSE ~IsEmpty(Copied1(w), Copied2(w))
       /\ pc[w] \in {"store", "ww"} => ~Holds(t, o[1], o[2])

OwedInv ==
  NoRotation => /\ \A t \in TableIds : ~circular[t]
                /\ \A w \in Threads : pc[w] \in {"scan", "copy"} => limit[w] = MaxProbe
                /\ \A w \in Threads : pc[w] = "idle" => owed[w] = {}
                /\ \A w \in Threads : pc[w] \in {"scan", "copy", "store", "ww"} => OwedOf(w)

(* A table freezes or starts to rotate only when some DP really found its  *)
(* whole probe sequence occupied.                                          *)
FullChainBehindFreeze ==
  \A t \in TableIds :
    (frozen[t] /\ (AllWild \/ t = 0)) \/ circular[t]
       => \E d \in Points : StoreIdx(d) = t /\ Chain(t, d, MaxProbe)

\* The slots in use never exceed what the counters and the stores that have
\* not been counted yet account for (the fill percentage of SolvePoint's
\* phase switch reads wild_count).
Occupied(t) == {s \in Slots : ~SlotIsEmpty(t, s)}
Uncounted(t) == {w \in Threads : pc[w] \in {"pack2", "rot2", "count"} /\ StoreIdx(dp[w]) = t}
CountBound ==
  \A t \in TableIds :
    Cardinality(Occupied(t)) <= count[t] + overwrites[t] + Cardinality(Uncounted(t))

\* The lock a thread must hold: of its home shard inside AddToTable's critical
\* section, of the slot's shard while it copies a slot.
HoldsLock(w, t, h) ==
  \/ pc[w] \in HoldsHome /\ StoreIdx(dp[w]) = t /\ GetShard(Home(dp[w])) = h
  \/ pc[w] = "copy" /\ CheckIdx(dp[w]) = t /\ GetShard(Slot(dp[w], probe[w])) = h

LockInv ==
  \A w \in Threads, t \in TableIds, h \in Shards : HoldsLock(w, t, h) => shardLock[t][h] = w

(* Two threads never write entries of one home shard at the same time. *)
HomeExclusion ==
  \A v, w \in Threads :
    /\ v # w
    /\ pc[v] \in HoldsHome /\ pc[w] \in HoldsHome
    /\ StoreIdx(dp[v]) = StoreIdx(dp[w])
    => GetShard(Home(dp[v])) # GetShard(Home(dp[w]))

(* AddToTable looks for a signature match before it stores: with rotation   *)
(* off, no table ever holds two entries of one key (signature and probe    *)
(* sequence), although a probing thread's lock covers its home shard only. *)
SameKey(e, d)   == XSig[e.x] = XSig[d.x] /\ Home(e) = Home(d)
HasKey(t, s, d) == part2[t][s] # Zero /\ SameKey(part2[t][s], d)

NoTwins ==
  \A t \in TableIds, r, s \in Slots :
    part2[t][r] # Zero /\ HasKey(t, s, part2[t][r]) => r = s

\* Why: the keys a probing thread has ruled out stay ruled out until it stores.
UnseenOf(w) ==
  LET t == StoreIdx(dp[w])
  IN /\ pc[w] = "probe" =>
          \A j \in 0 .. MaxProbe - 1 : j < probe[w] => ~HasKey(t, Slot(dp[w], j), dp[w])
     /\ pc[w] \in {"pack", "pack2"} => \A s \in Slots : ~HasKey(t, s, dp[w])

(* "All reads under shard lock to prevent torn reads" (1012) is true of the *)
(* entries whose writers hold the shard that is read, and no further: the   *)
(* two words a search has copied are of two entries, or one of an entry and *)
(* one not yet written, only if locks of different shards were at work. An  *)
(* unwritten word counts as one of the shard of the slot.                   *)
MixedOnlyAcrossShards ==
  \A w \in Threads : pc[w] = "copy" =>
    LET ShardOf(h) == GetShard(IF h = Zero THEN Slot(dp[w], probe[w]) ELSE Home(h))
    IN Copied1(w) # Copied2(w) => ShardOf(Copied1(w)) # ShardOf(Copied2(w))

\* A shard lock that is taken is the home lock of a thread in AddToTable's
\* critical section, or the lock of the slot a search copies; in neither is
\* another lock asked for: whoever waits for a lock waits for a thread that
\* waits for nobody.
LocksHeld ==
  \A t \in TableIds, h \in Shards : shardLock[t][h] # NoThread =>
    \E w \in Threads : shardLock[t][h] = w /\ HoldsLock(w, t, h)

\* The steps a call has left at most, at control point l and probe p.
StepsLeft(l, p) ==
  CASE l = "idle" -> 0
    [] l \in {"count", "rot2", "wwstore"} -> 1
    [] l \in {"pack2", "rot"} -> 2
    [] l \in {"pack", "rotate"} -> 3
    [] l = "full" -> 4
    [] l = "probe" -> 4 + MaxProbe - p
    [] l = "store" -> 5 + MaxProbe
    [] l = "wwscan" -> 1 + WWProbe - p
    [] l = "ww" -> 2 + WWProbe
    [] l = "copy" -> 4 + MaxProbe + WWProbe + 2 * (MaxProbe - p)
    [] l = "scan" -> 5 + MaxProbe + WWProbe + 2 * (MaxProbe - p)
CallBound == 5 + 3 * MaxProbe + WWProbe

(* No call loops, whatever the other threads do to the tables under it: the *)
(* steps it has left are at most CallBound, each step of its thread lowers  *)
(* them and no step of another thread touches them.                         *)
CallsBounded == \A w \in Threads : StepsLeft(pc[w], probe[w]) \in 0 .. CallBound
CallsEnd ==
  [][\A w \in Threads :
       /\ Step(w) /\ pc[w] # "idle" => StepsLeft(pc[w], probe[w])' < StepsLeft(pc[w], probe[w])
       /\ \A v \in Threads \ {w} : Step(v) => UNCHANGED StepsLeft(pc[w], probe[w])]_vars

\* Every DP handed to the store is dealt with, and every thread returns.
Termination == <>Done

-----------------------------------------------------------------------------
(* Properties of one thread using the store (the main thread while no      *)
(* worker pool runs, or for small batches), with rotation off.             *)

(* The store implements its abstract specification: one indivisible answer *)
(* per DP, at the report, at the second half of the entry, or at the drop. *)
Abs == INSTANCE DpStore WITH
  pending <- todo \cup {dp[w] : w \in {v \in Threads : pc[v] \notin {"idle", "count"}}},
  stored  <- [t \in TableIds |-> {part2[t][s] : s \in Slots} \ {Zero}],
  full    <- frozen,
  buffer  <- {ww[s] : s \in WWSlots} \ {Zero},
  report  <- collision,
  Start   <- [x \in DOMAIN Hash |-> Hash[x] % TableSize],
  MinFull <- MaxProbe,
  HasBuffer <- WWSize > 0,
  Place     <- [x \in DOMAIN Hash |-> IF WWSize > 0 THEN Hash[x] % WWSize ELSE 0]

ImplementsDpStore == Abs!Spec

\* Between calls wild_count is exactly the number of slots in use.
CountExact ==
  (\A w \in Threads : pc[w] = "idle")
    => \A t \in TableIds : Cardinality(Occupied(t)) = count[t]
=============================================================================
