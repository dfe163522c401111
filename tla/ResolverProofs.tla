--------------------------- MODULE ResolverProofs ---------------------------
(***************************************************************************)
(* Proofs about Resolver, for any number of workers and BSGS threads, any  *)
(* set of collisions and any size of the queue. The argument: the flag     *)
(* makes the resolving worker unique (FlagExact), and the caller of        *)
(* CheckNewPoints resolves only while no worker does anything. So what a   *)
(* resolver found in the mailbox stays there until it has copied it, and   *)
(* what was copied is cleared before anybody else looks (MailInv). The key *)
(* is verified at every control point that leads to gSolved (KeyInv).      *)
(* What it is made of was taken out of the mailbox (TakenInv).             *)
(***************************************************************************)
EXTENDS Resolver, TLAPS, SequenceTheorems

\* What the threads hold, by their control points.
HandInv ==
  /\ \A w \in Workers : wpc[w] \in {"clear", "formulas", "push"} => hand[w] \in Collisions
  /\ fpc \in {"formulas", "push"} => fhand \in Collisions
  /\ \A b \in BsgsThreads : IF bpc[b] \in {"top", "wait", "end"}
                            THEN candidate[b] = NoCollision ELSE candidate[b] \in Collisions

\* A collision in the mailbox is no longer to be reported. Whoever is about
\* to copy it has it before its eyes, and a copied one is still there only
\* until its resolver clears it.
MailInv ==
  /\ has_collision => collision \in Collisions \ todo
  /\ fpc # "next" => PoolIdle
  /\ \A w \in Workers : wpc[w] = "get" => has_collision
  /\ fpc = "get" => has_collision
  /\ \A c \in todo : taken[c] = 0
  /\ has_collision /\ taken[collision] > 0 =>
       (\E w \in Workers : wpc[w] = "clear") \/ fpc \notin {"next", "get"}
  /\ ResolvedOnce

\* Behind every control point that leads to gSolved there is a verified key,
\* or Ctrl+C.
KeyInv ==
  /\ \A w \in Workers : wpc[w] \in {"range", "publish"} => gPrivKey
  /\ fpc = "publish" => gPrivKey
  /\ \A b \in BsgsThreads : bpc[b] = "publish" => gPrivKey
  /\ ipc = "half" => gSaveAndExit
  /\ KeyBehindSolved

IInv == TypeOK /\ FlagExact /\ HandInv /\ MailInv /\ KeyInv /\ CandidatesKept

-----------------------------------------------------------------------------
(* Sequences.                                                              *)

\* What a queue holds after a candidate was added or its oldest one taken.
LEMMA QueueItems ==
  ASSUME NEW S, NEW q \in Seq(S), NEW x \in S
  PROVE  /\ Append(q, x) \in Seq(S) /\ Len(Append(q, x)) = Len(q) + 1
         /\ {Append(q, x)[i] : i \in DOMAIN Append(q, x)} = {q[i] : i \in DOMAIN q} \cup {x}
         /\ q # <<>> =>
              /\ Head(q) \in S /\ Tail(q) \in Seq(S) /\ Len(Tail(q)) = Len(q) - 1
              /\ {q[i] : i \in DOMAIN q} = {Head(q)} \cup {Tail(q)[i] : i \in DOMAIN Tail(q)}
<1>1. Append(q, x) \in Seq(S) /\ Len(Append(q, x)) = Len(q) + 1
  BY AppendProperties
<1>2. {Append(q, x)[i] : i \in DOMAIN Append(q, x)} = {q[i] : i \in DOMAIN q} \cup {x}
  <2>1. /\ DOMAIN q = 1 .. Len(q) /\ Len(q) \in Nat
        /\ DOMAIN Append(q, x) = 1 .. Len(q) + 1
        /\ \A i \in 1 .. Len(q) : Append(q, x)[i] = q[i]
        /\ Append(q, x)[Len(q) + 1] = x
    BY <1>1, AppendProperties, LenProperties
  <2> QED BY <2>1, SMT
<1>3. ASSUME q # <<>>
      PROVE  /\ Head(q) \in S /\ Tail(q) \in Seq(S) /\ Len(Tail(q)) = Len(q) - 1
             /\ {q[i] : i \in DOMAIN q} = {Head(q)} \cup {Tail(q)[i] : i \in DOMAIN Tail(q)}
  <2>1. /\ Head(q) \in S /\ Tail(q) \in Seq(S) /\ Len(Tail(q)) = Len(q) - 1
        /\ \A i \in 1 .. Len(Tail(q)) : Tail(q)[i] = q[i + 1]
    BY <1>3, HeadTailProperties
  <2>6. Head(q) = q[1]
    BY <1>3, SMT
  <2>2. /\ DOMAIN q = 1 .. Len(q) /\ Len(q) \in Nat /\ Len(q) > 0
        /\ DOMAIN Tail(q) = 1 .. Len(q) - 1
    BY <1>3, <2>1, LenProperties, EmptySeq
  <2>3. \A i \in DOMAIN q : i = 1 \/ (i - 1 \in DOMAIN Tail(q) /\ q[i] = Tail(q)[i - 1])
    BY <2>1, <2>2, SMT
  <2>4. \A i \in DOMAIN Tail(q) : i + 1 \in DOMAIN q /\ Tail(q)[i] = q[i + 1]
    BY <2>1, <2>2, SMT
  <2>5. 1 \in DOMAIN q
    BY <2>2, SMT
  <2>7. ASSUME NEW i \in DOMAIN q
        PROVE  q[i] \in {Head(q)} \cup {Tail(q)[j] : j \in DOMAIN Tail(q)}
    <3>1. CASE i = 1
      BY <3>1, <2>6
    <3>2. CASE i - 1 \in DOMAIN Tail(q) /\ q[i] = Tail(q)[i - 1]
      BY <3>2
    <3> QED BY <3>1, <3>2, <2>3
  <2>8. Head(q) \in {q[j] : j \in DOMAIN q}
    BY <2>5, <2>6
  <2>9. ASSUME NEW i \in DOMAIN Tail(q)
        PROVE  Tail(q)[i] \in {q[j] : j \in DOMAIN q}
    BY <2>4
  <2> QED BY <2>1, <2>7, <2>8, <2>9
<1> QED BY <1>1, <1>2, <1>3

-----------------------------------------------------------------------------
(* The queue.                                                              *)

\* A push puts the candidate into the queue or drops the oldest one for it.
LEMMA PushQueue ==
  ASSUME TypeOK, NEW c \in Collisions, PushBSGSCandidate(c)
  PROVE  /\ gBSGSQueue' \in Seq(Collisions) /\ Len(gBSGSQueue') <= QueueMax
        /\ pushed' \subseteq Collisions /\ dropped' \subseteq Collisions
         /\ InQueue' \cup dropped' = InQueue \cup dropped \cup {c}
<1>1. gBSGSQueue \in Seq(Collisions) /\ Len(gBSGSQueue) <= QueueMax /\ QueueMax \in Nat \ {0}
  BY ResolverAssumption DEF TypeOK
<1>2. Len(gBSGSQueue) \in Nat /\ pushed' \subseteq Collisions
  BY <1>1, LenProperties DEF TypeOK, PushBSGSCandidate
<1>3. CASE QueueFull
  <2>1. gBSGSQueue' = Append(Tail(gBSGSQueue), c) /\ dropped' = dropped \cup {Head(gBSGSQueue)}
    BY <1>3 DEF PushBSGSCandidate
  <2>2. gBSGSQueue # <<>>
    <3>1. Len(gBSGSQueue) > 0
      BY <1>1, <1>2, <1>3 DEF QueueFull
    <3> QED BY <3>1, EmptySeq
  <2>3. /\ Head(gBSGSQueue) \in Collisions /\ Tail(gBSGSQueue) \in Seq(Collisions)
        /\ Len(Tail(gBSGSQueue)) = Len(gBSGSQueue) - 1
        /\ InQueue = {Head(gBSGSQueue)} \cup {Tail(gBSGSQueue)[i] : i \in DOMAIN Tail(gBSGSQueue)}
    BY <1>1, <2>2, QueueItems DEF InQueue
  <2>4. /\ gBSGSQueue' \in Seq(Collisions) /\ Len(gBSGSQueue') = Len(Tail(gBSGSQueue)) + 1
        /\ InQueue' = {Tail(gBSGSQueue)[i] : i \in DOMAIN Tail(gBSGSQueue)} \cup {c}
    BY <2>1, <2>3, QueueItems DEF InQueue
  <2>5. Len(gBSGSQueue') <= QueueMax
    BY <1>1, <1>2, <2>3, <2>4
  <2>6. dropped' \subseteq Collisions
    BY <2>1, <2>3 DEF TypeOK
  <2> QED BY <1>2, <2>1, <2>3, <2>4, <2>5, <2>6
<1>4. CASE ~QueueFull
  <2>1. gBSGSQueue' = Append(gBSGSQueue, c) /\ dropped' = dropped
    BY <1>4 DEF PushBSGSCandidate
  <2>2. /\ gBSGSQueue' \in Seq(Collisions) /\ Len(gBSGSQueue') = Len(gBSGSQueue) + 1
        /\ InQueue' = InQueue \cup {c}
    BY <1>1, <2>1, QueueItems DEF InQueue
  <2>3. Len(gBSGSQueue') <= QueueMax
    BY <1>1, <1>2, <1>4, <2>2 DEF QueueFull
  <2> QED BY <1>2, <2>1, <2>2, <2>3 DEF TypeOK
<1> QED BY <1>3, <1>4

\* What a BSGS thread takes is the oldest candidate.
LEMMA TakeQueue ==
  ASSUME TypeOK, gBSGSQueue # <<>>
  PROVE  /\ Head(gBSGSQueue) \in Collisions
         /\ Tail(gBSGSQueue) \in Seq(Collisions) /\ Len(Tail(gBSGSQueue)) <= QueueMax
         /\ InQueue = {Head(gBSGSQueue)} \cup {Tail(gBSGSQueue)[i] : i \in DOMAIN Tail(gBSGSQueue)}
<1>1. gBSGSQueue \in Seq(Collisions) /\ Len(gBSGSQueue) <= QueueMax /\ QueueMax \in Nat
  BY ResolverAssumption DEF TypeOK
<1>2. /\ Head(gBSGSQueue) \in Collisions /\ Tail(gBSGSQueue) \in Seq(Collisions)
      /\ Len(Tail(gBSGSQueue)) = Len(gBSGSQueue) - 1
      /\ InQueue = {Head(gBSGSQueue)} \cup {Tail(gBSGSQueue)[i] : i \in DOMAIN Tail(gBSGSQueue)}
  BY <1>1, QueueItems DEF InQueue
<1>3. Len(gBSGSQueue) \in Nat
  BY <1>1, LenProperties
<1> QED BY <1>1, <1>2, <1>3

-----------------------------------------------------------------------------
(* The invariants, one by one.                                             *)

\* Every step keeps the types, and no push outgrows the queue.
LEMMA TypeStep == TypeOK /\ HandInv /\ MailInv /\ [Next]_vars => TypeOK'
<1> SUFFICES ASSUME TypeOK, HandInv, MailInv, [Next]_vars PROVE TypeOK'
  OBVIOUS
<1> USE DEF mailbox, locks, resolver, fallback, queue, bsgs, results, control, TypeOK, Hand,
       Exclusive
<1>1. ASSUME NEW w \in Workers, CheckWild(w) PROVE TypeOK'
  BY <1>1 DEF CheckWild, Report, StillThere, GotoW
<1>2. ASSUME NEW w \in Workers, CompareExchange(w) PROVE TypeOK'
  <2>1. wpc' \in [Workers -> Exclusive \cup {"next", "cas", "unlock"}]
    BY <1>2 DEF CompareExchange, GotoW
  <2>2. gCollisionBeingResolved' \in BOOLEAN
    BY <1>2 DEF CompareExchange
  <2> QED
    BY <1>2, <2>1, <2>2 DEF CompareExchange
<1>3. ASSUME NEW w \in Workers, LockMutex(w) PROVE TypeOK'
  <2>1. wpc' \in [Workers -> Exclusive \cup {"next", "cas", "unlock"}]
    BY <1>3 DEF LockMutex, GotoW
  <2>2. mutexHeld' \in BOOLEAN
    BY <1>3 DEF LockMutex
  <2> QED
    BY <1>3, <2>1, <2>2 DEF LockMutex
<1>4. ASSUME NEW w \in Workers, Recheck(w) PROVE TypeOK'
  <2>1. wpc' \in [Workers -> Exclusive \cup {"next", "cas", "unlock"}]
    BY <1>4 DEF Recheck, GotoW
  <2>2. gCollisionBeingResolved' \in BOOLEAN
    BY <1>4 DEF Recheck
  <2> QED
    BY <1>4, <2>1, <2>2 DEF Recheck
<1>5. ASSUME NEW w \in Workers, GetCollisionData(w) PROVE TypeOK'
  <2>1. wpc' \in [Workers -> Exclusive \cup {"next", "cas", "unlock"}]
    BY <1>5 DEF GetCollisionData, GotoW
  <2>2. hand' \in [Workers -> Hand]
    BY <1>5 DEF GetCollisionData
  <2>3. taken' \in [Collisions -> Nat]
    BY <1>5 DEF GetCollisionData, MailInv
  <2> QED
    BY <1>5, <2>1, <2>2, <2>3 DEF GetCollisionData
<1>6. ASSUME NEW w \in Workers, ClearCollision(w) PROVE TypeOK'
  <2>1. wpc' \in [Workers -> Exclusive \cup {"next", "cas", "unlock"}]
    BY <1>6 DEF ClearCollision, GotoW
  <2>2. has_collision' \in BOOLEAN
    BY <1>6 DEF ClearCollision
  <2> QED
    BY <1>6, <2>1, <2>2 DEF ClearCollision
<1>7. ASSUME NEW w \in Workers, Formulas(w) PROVE TypeOK'
  <2>1. wpc' \in [Workers -> Exclusive \cup {"next", "cas", "unlock"}]
    BY <1>7 DEF Formulas, GotoW
  <2>2. gPrivKey' \in BOOLEAN
    BY <1>7 DEF Formulas
  <2> QED
    BY <1>7, <2>1, <2>2 DEF Formulas
<1>8. ASSUME NEW w \in Workers, Push(w) PROVE TypeOK'
  <2>1. hand[w] \in Collisions
    BY <1>8 DEF Push, HandInv
  <2>2. /\ gBSGSQueue' \in Seq(Collisions) /\ Len(gBSGSQueue') <= QueueMax
        /\ pushed' \subseteq Collisions /\ dropped' \subseteq Collisions
    BY <1>8, <2>1, PushQueue DEF Push
  <2>3. wpc' \in [Workers -> Exclusive \cup {"next", "cas", "unlock"}]
    BY <1>8 DEF Push, GotoW
  <2> QED
    BY <1>8, <2>1, <2>2, <2>3 DEF Push
<1>9. ASSUME NEW w \in Workers, RangeCheck(w) PROVE TypeOK'
  <2>1. wpc' \in [Workers -> Exclusive \cup {"next", "cas", "unlock"}]
    BY <1>9 DEF RangeCheck, GotoW
  <2>2. gCollisionBeingResolved' \in BOOLEAN
    BY <1>9 DEF RangeCheck
  <2> QED
    BY <1>9, <2>1, <2>2 DEF RangeCheck
<1>10. ASSUME NEW w \in Workers, Publish(w) PROVE TypeOK'
  <2>1. wpc' \in [Workers -> Exclusive \cup {"next", "cas", "unlock"}]
    BY <1>10 DEF Publish, GotoW
  <2>2. gSolved' \in BOOLEAN
    BY <1>10 DEF Publish
  <2> QED
    BY <1>10, <2>1, <2>2 DEF Publish
<1>11. ASSUME NEW w \in Workers, Unflag(w) PROVE TypeOK'
  <2>1. wpc' \in [Workers -> Exclusive \cup {"next", "cas", "unlock"}]
    BY <1>11 DEF Unflag, GotoW
  <2>2. gCollisionBeingResolved' \in BOOLEAN
    BY <1>11 DEF Unflag
  <2> QED
    BY <1>11, <2>1, <2>2 DEF Unflag
<1>12. ASSUME NEW w \in Workers, UnlockMutex(w) PROVE TypeOK'
  <2>1. wpc' \in [Workers -> Exclusive \cup {"next", "cas", "unlock"}]
    BY <1>12 DEF UnlockMutex, GotoW
  <2>2. mutexHeld' \in BOOLEAN /\ hand' \in [Workers -> Hand]
    BY <1>12 DEF UnlockMutex
  <2> QED
    BY <1>12, <2>1, <2>2 DEF UnlockMutex
<1>13. CASE FallbackCheck
  BY <1>13 DEF FallbackCheck, Report, StillThere
<1>14. CASE FallbackGet
  <2>1. fhand' \in Hand
    BY <1>14 DEF FallbackGet
  <2>2. taken' \in [Collisions -> Nat]
    BY <1>14 DEF FallbackGet, MailInv
  <2> QED
    BY <1>14, <2>1, <2>2 DEF FallbackGet
<1>15. CASE FallbackFormulas
  <2>1. fpc' \in {"publish", "push"}
    BY <1>15 DEF FallbackFormulas
  <2>2. gPrivKey' \in BOOLEAN
    BY <1>15 DEF FallbackFormulas
  <2> QED
    BY <1>15, <2>1, <2>2 DEF FallbackFormulas
<1>16. CASE FallbackPublish
  BY <1>16 DEF FallbackPublish
<1>17. CASE FallbackPush
  <2>1. fhand \in Collisions
    BY <1>17 DEF FallbackPush, HandInv
  <2>2. /\ gBSGSQueue' \in Seq(Collisions) /\ Len(gBSGSQueue') <= QueueMax
        /\ pushed' \subseteq Collisions /\ dropped' \subseteq Collisions
    BY <1>17, <2>1, PushQueue DEF FallbackPush
  <2> QED
    BY <1>17, <2>1, <2>2 DEF FallbackPush
<1>18. CASE FallbackClear
  BY <1>18 DEF FallbackClear
<1>19. ASSUME NEW b \in BsgsThreads, BsgsTop(b) PROVE TypeOK'
  <2>1. bpc' \in [BsgsThreads -> {"top", "wait", "got", "search", "publish", "count", "end"}]
    BY <1>19 DEF BsgsTop, GotoB
  <2> QED
    BY <1>19, <2>1 DEF BsgsTop
<1>20. ASSUME NEW b \in BsgsThreads, BsgsTake(b) PROVE TypeOK'
  <2>1. CASE gBSGSQueue = <<>>
    <3>1. bpc' = [bpc EXCEPT ![b] = "top"] /\ UNCHANGED <<gBSGSQueue, candidate>>
      BY <1>20, <2>1 DEF BsgsTake, GotoB
    <3> QED
      BY <1>20, <3>1 DEF BsgsTake
  <2>2. CASE gBSGSQueue # <<>>
    <3>1. /\ gBSGSQueue' = Tail(gBSGSQueue)
          /\ candidate' = [candidate EXCEPT ![b] = Head(gBSGSQueue)]
          /\ bpc' = [bpc EXCEPT ![b] = "got"]
      BY <1>20, <2>2 DEF BsgsTake, GotoB
    <3>2. Head(gBSGSQueue) \in Collisions
      BY <2>2, TakeQueue
    <3>3. gBSGSQueue' \in Seq(Collisions) /\ Len(gBSGSQueue') <= QueueMax
      BY <2>2, <3>1, TakeQueue
    <3> QED
      BY <1>20, <3>1, <3>2, <3>3 DEF BsgsTake
  <2> QED
    BY <2>1, <2>2
<1>21. ASSUME NEW b \in BsgsThreads, BsgsGot(b) PROVE TypeOK'
  <2>1. bpc' \in [BsgsThreads -> {"top", "wait", "got", "search", "publish", "count", "end"}]
    BY <1>21 DEF BsgsGot, GotoB
  <2>2. candidate' \in [BsgsThreads -> Hand]
    BY <1>21 DEF BsgsGot
  <2>3. abandoned' \subseteq Collisions
    BY <1>21 DEF BsgsGot, HandInv
  <2> QED
    BY <1>21, <2>1, <2>2, <2>3 DEF BsgsGot
<1>22. ASSUME NEW b \in BsgsThreads, BsgsSearch(b) PROVE TypeOK'
  <2>1. bpc' \in [BsgsThreads -> {"top", "wait", "got", "search", "publish", "count", "end"}]
    BY <1>22 DEF BsgsSearch, GotoB
  <2>2. gPrivKey' \in BOOLEAN
    BY <1>22 DEF BsgsSearch
  <2> QED
    BY <1>22, <2>1, <2>2 DEF BsgsSearch
<1>23. ASSUME NEW b \in BsgsThreads, BsgsPublish(b) PROVE TypeOK'
  BY <1>23 DEF BsgsPublish, GotoB
<1>24. ASSUME NEW b \in BsgsThreads, BsgsCount(b) PROVE TypeOK'
  <2>1. bpc' \in [BsgsThreads -> {"top", "wait", "got", "search", "publish", "count", "end"}]
    BY <1>24 DEF BsgsCount, GotoB
  <2>2. candidate' \in [BsgsThreads -> Hand]
    BY <1>24 DEF BsgsCount
  <2>3. processed' \subseteq Collisions
    BY <1>24 DEF BsgsCount, HandInv
  <2> QED
    BY <1>24, <2>1, <2>2, <2>3 DEF BsgsCount
<1>25. CASE Interrupt
  BY <1>25 DEF Interrupt
<1>26. CASE InterruptSolved
  BY <1>26 DEF InterruptSolved
<1>27. CASE StopBSGSThread
  BY <1>27, ZenonT(40) DEF StopBSGSThread
<1>28. CASE SolvePointReturns
  BY <1>28 DEF SolvePointReturns
<1>29. CASE UNCHANGED vars
  BY <1>29 DEF vars
<1> QED
  BY <1>1, <1>2, <1>3, <1>4, <1>5, <1>6, <1>7, <1>8, <1>9, <1>10, <1>11, <1>12, <1>13,
     <1>14, <1>15, <1>16, <1>17, <1>18, <1>19, <1>20, <1>21, <1>22, <1>23, <1>24, <1>25,
     <1>26, <1>27, <1>28, <1>29 DEF Next, WorkerThread, CheckNewPoints, BSGSConsumerThread,
     MainThread

\* The flag is up exactly while one worker resolves: only the winner of the
\* compare-exchange gets in, and every way out resets it.
LEMMA FlagStep == TypeOK /\ FlagExact /\ [Next]_vars => FlagExact'
<1> SUFFICES ASSUME TypeOK, FlagExact, [Next]_vars PROVE FlagExact'
  OBVIOUS
<1> USE DEF mailbox, locks, resolver, fallback, queue, bsgs, results, control, FlagExact,
       TypeOK, Resolving, Exclusive
<1>1. ASSUME NEW w \in Workers, CheckWild(w) PROVE FlagExact'
  BY <1>1 DEF CheckWild, Report, StillThere, GotoW
<1>2. ASSUME NEW w \in Workers, CompareExchange(w) PROVE FlagExact'
  BY <1>2, SMTT(30) DEF CompareExchange, GotoW
<1>3. ASSUME NEW w \in Workers, LockMutex(w) PROVE FlagExact'
  BY <1>3 DEF LockMutex, GotoW
<1>4. ASSUME NEW w \in Workers, Recheck(w) PROVE FlagExact'
  BY <1>4 DEF Recheck, GotoW
<1>5. ASSUME NEW w \in Workers, GetCollisionData(w) PROVE FlagExact'
  BY <1>5 DEF GetCollisionData, GotoW
<1>6. ASSUME NEW w \in Workers, ClearCollision(w) PROVE FlagExact'
  BY <1>6 DEF ClearCollision, GotoW
<1>7. ASSUME NEW w \in Workers, Formulas(w) PROVE FlagExact'
  BY <1>7 DEF Formulas, GotoW
<1>8. ASSUME NEW w \in Workers, Push(w) PROVE FlagExact'
  BY <1>8 DEF Push, PushBSGSCandidate, QueueFull, GotoW
<1>9. ASSUME NEW w \in Workers, RangeCheck(w) PROVE FlagExact'
  BY <1>9 DEF RangeCheck, GotoW
<1>10. ASSUME NEW w \in Workers, Publish(w) PROVE FlagExact'
  BY <1>10 DEF Publish, GotoW
<1>11. ASSUME NEW w \in Workers, Unflag(w) PROVE FlagExact'
  BY <1>11 DEF Unflag, GotoW
<1>12. ASSUME NEW w \in Workers, UnlockMutex(w) PROVE FlagExact'
  BY <1>12 DEF UnlockMutex, GotoW
<1>13. CASE CheckNewPoints
  BY <1>13 DEF CheckNewPoints, FallbackCheck, Report, StillThere, FallbackGet,
     FallbackFormulas, FallbackPublish, FallbackPush, PushBSGSCandidate, QueueFull,
     FallbackClear
<1>14. ASSUME NEW b \in BsgsThreads, BSGSConsumerThread(b) PROVE FlagExact'
  BY <1>14 DEF BSGSConsumerThread, BsgsTop, GotoB, BsgsTake, BsgsGot, BsgsSearch,
     BsgsPublish, BsgsCount
<1>15. CASE Interrupt \/ InterruptSolved \/ MainThread
  BY <1>15 DEF Interrupt, InterruptSolved, MainThread, StopBSGSThread, SolvePointReturns
<1>16. CASE UNCHANGED vars
  BY <1>16 DEF vars
<1> QED
  BY <1>1, <1>2, <1>3, <1>4, <1>5, <1>6, <1>7, <1>8, <1>9, <1>10, <1>11, <1>12, <1>13,
     <1>14, <1>15, <1>16 DEF Next, WorkerThread

\* A resolver that copied the mailbox holds a collision, and a BSGS thread
\* holds a candidate exactly between taking it and letting go of it.
LEMMA HandStep == TypeOK /\ MailInv /\ HandInv /\ [Next]_vars => HandInv'
<1> SUFFICES ASSUME TypeOK, MailInv, HandInv, [Next]_vars PROVE HandInv'
  OBVIOUS
<1> USE DEF mailbox, locks, resolver, fallback, queue, bsgs, results, control, HandInv,
       TypeOK, MailInv, PoolIdle, Hand
<1>1. ASSUME NEW w \in Workers, CheckWild(w) PROVE HandInv'
  BY <1>1 DEF CheckWild, Report, StillThere, GotoW
<1>2. ASSUME NEW w \in Workers, CompareExchange(w) PROVE HandInv'
  BY <1>2 DEF CompareExchange, GotoW
<1>3. ASSUME NEW w \in Workers, LockMutex(w) PROVE HandInv'
  BY <1>3 DEF LockMutex, GotoW
<1>4. ASSUME NEW w \in Workers, Recheck(w) PROVE HandInv'
  BY <1>4 DEF Recheck, GotoW
<1>5. ASSUME NEW w \in Workers, GetCollisionData(w) PROVE HandInv'
  BY <1>5 DEF GetCollisionData, GotoW
<1>6. ASSUME NEW w \in Workers, ClearCollision(w) PROVE HandInv'
  BY <1>6 DEF ClearCollision, GotoW
<1>7. ASSUME NEW w \in Workers, Formulas(w) PROVE HandInv'
  BY <1>7 DEF Formulas, GotoW
<1>8. ASSUME NEW w \in Workers, Push(w) PROVE HandInv'
  BY <1>8 DEF Push, PushBSGSCandidate, QueueFull, GotoW
<1>9. ASSUME NEW w \in Workers, RangeCheck(w) PROVE HandInv'
  BY <1>9 DEF RangeCheck, GotoW
<1>10. ASSUME NEW w \in Workers, Publish(w) PROVE HandInv'
  BY <1>10 DEF Publish, GotoW
<1>11. ASSUME NEW w \in Workers, Unflag(w) PROVE HandInv'
  BY <1>11 DEF Unflag, GotoW
<1>12. ASSUME NEW w \in Workers, UnlockMutex(w) PROVE HandInv'
  BY <1>12 DEF UnlockMutex, GotoW
<1>13. CASE FallbackCheck
  BY <1>13 DEF FallbackCheck, Report, StillThere
<1>14. CASE FallbackGet
  BY <1>14 DEF FallbackGet
<1>15. CASE FallbackFormulas
  BY <1>15 DEF FallbackFormulas
<1>16. CASE FallbackPublish
  BY <1>16 DEF FallbackPublish
<1>17. CASE FallbackPush
  BY <1>17 DEF FallbackPush, PushBSGSCandidate, QueueFull
<1>18. CASE FallbackClear
  BY <1>18 DEF FallbackClear
<1>19. ASSUME NEW b \in BsgsThreads, BsgsTop(b) PROVE HandInv'
  BY <1>19 DEF BsgsTop, GotoB
<1>20. ASSUME NEW b \in BsgsThreads, BsgsTake(b) PROVE HandInv'
  BY <1>20 DEF BsgsTake, GotoB
<1>21. ASSUME NEW b \in BsgsThreads, BsgsGot(b) PROVE HandInv'
  BY <1>21 DEF BsgsGot, GotoB
<1>22. ASSUME NEW b \in BsgsThreads, BsgsSearch(b) PROVE HandInv'
  BY <1>22 DEF BsgsSearch, GotoB
<1>23. ASSUME NEW b \in BsgsThreads, BsgsPublish(b) PROVE HandInv'
  BY <1>23 DEF BsgsPublish, GotoB
<1>24. ASSUME NEW b \in BsgsThreads, BsgsCount(b) PROVE HandInv'
  BY <1>24 DEF BsgsCount, GotoB
<1>25. CASE Interrupt \/ InterruptSolved \/ MainThread
  BY <1>25 DEF Interrupt, InterruptSolved, MainThread, StopBSGSThread, SolvePointReturns
<1>26. CASE UNCHANGED vars
  BY <1>26 DEF vars
<1> QED
  BY <1>1, <1>2, <1>3, <1>4, <1>5, <1>6, <1>7, <1>8, <1>9, <1>10, <1>11, <1>12, <1>13,
     <1>14, <1>15, <1>16, <1>17, <1>18, <1>19, <1>20, <1>21, <1>22, <1>23, <1>24, <1>25,
     <1>26 DEF Next, WorkerThread, CheckNewPoints, BSGSConsumerThread

\* What is in the mailbox was reported and, unless its resolver is about to
\* clear it, not copied.
LEMMA MailStep == TypeOK /\ FlagExact /\ HandInv /\ MailInv /\ [Next]_vars => MailInv'
<1> SUFFICES ASSUME TypeOK, FlagExact, HandInv, MailInv, [Next]_vars PROVE MailInv'
  OBVIOUS
<1> USE DEF mailbox, locks, resolver, fallback, queue, bsgs, results, control, MailInv,
       HandInv, TypeOK, PoolIdle, FlagExact, Resolving, Exclusive, ResolvedOnce
<1>1. ASSUME NEW w \in Workers, CheckWild(w) PROVE MailInv'
  BY <1>1 DEF CheckWild, Report, StillThere, GotoW
<1>2. ASSUME NEW w \in Workers, CompareExchange(w) PROVE MailInv'
  BY <1>2 DEF CompareExchange, GotoW
<1>3. ASSUME NEW w \in Workers, LockMutex(w) PROVE MailInv'
  BY <1>3 DEF LockMutex, GotoW
<1>4. ASSUME NEW w \in Workers, Recheck(w) PROVE MailInv'
  BY <1>4 DEF Recheck, GotoW
<1>5. ASSUME NEW w \in Workers, GetCollisionData(w) PROVE MailInv'
  BY <1>5 DEF GetCollisionData, GotoW
<1>6. ASSUME NEW w \in Workers, ClearCollision(w) PROVE MailInv'
  BY <1>6 DEF ClearCollision, GotoW
<1>7. ASSUME NEW w \in Workers, Formulas(w) PROVE MailInv'
  BY <1>7 DEF Formulas, GotoW
<1>8. ASSUME NEW w \in Workers, Push(w) PROVE MailInv'
  BY <1>8 DEF Push, PushBSGSCandidate, QueueFull, GotoW
<1>9. ASSUME NEW w \in Workers, RangeCheck(w) PROVE MailInv'
  BY <1>9 DEF RangeCheck, GotoW
<1>10. ASSUME NEW w \in Workers, Publish(w) PROVE MailInv'
  BY <1>10 DEF Publish, GotoW
<1>11. ASSUME NEW w \in Workers, Unflag(w) PROVE MailInv'
  BY <1>11 DEF Unflag, GotoW
<1>12. ASSUME NEW w \in Workers, UnlockMutex(w) PROVE MailInv'
  BY <1>12 DEF UnlockMutex, GotoW
<1>13. CASE FallbackCheck
  BY <1>13 DEF FallbackCheck, Report, StillThere
<1>14. CASE FallbackGet
  BY <1>14 DEF FallbackGet
<1>15. CASE FallbackFormulas
  BY <1>15 DEF FallbackFormulas
<1>16. CASE FallbackPublish
  BY <1>16 DEF FallbackPublish
<1>17. CASE FallbackPush
  BY <1>17 DEF FallbackPush, PushBSGSCandidate, QueueFull
<1>18. CASE FallbackClear
  BY <1>18 DEF FallbackClear
<1>19. ASSUME NEW b \in BsgsThreads, BSGSConsumerThread(b) PROVE MailInv'
  BY <1>19 DEF BSGSConsumerThread, BsgsTop, GotoB, BsgsTake, BsgsGot, BsgsSearch,
     BsgsPublish, BsgsCount
<1>20. CASE Interrupt \/ InterruptSolved \/ MainThread
  BY <1>20 DEF Interrupt, InterruptSolved, MainThread, StopBSGSThread, SolvePointReturns
<1>21. CASE UNCHANGED vars
  BY <1>21 DEF vars
<1> QED
  BY <1>1, <1>2, <1>3, <1>4, <1>5, <1>6, <1>7, <1>8, <1>9, <1>10, <1>11, <1>12, <1>13,
     <1>14, <1>15, <1>16, <1>17, <1>18, <1>19, <1>20, <1>21 DEF Next, WorkerThread,
     CheckNewPoints

\* Nobody comes to a place that sets gSolved without the key or Ctrl+C.
LEMMA KeyStep == TypeOK /\ KeyInv /\ [Next]_vars => KeyInv'
<1> SUFFICES ASSUME TypeOK, KeyInv, [Next]_vars PROVE KeyInv'
  OBVIOUS
<1> USE DEF mailbox, locks, resolver, fallback, queue, bsgs, results, control, KeyInv,
       TypeOK, KeyBehindSolved
<1>1. ASSUME NEW w \in Workers, CheckWild(w) PROVE KeyInv'
  BY <1>1 DEF CheckWild, Report, StillThere, GotoW
<1>2. ASSUME NEW w \in Workers, CompareExchange(w) PROVE KeyInv'
  BY <1>2 DEF CompareExchange, GotoW
<1>3. ASSUME NEW w \in Workers, LockMutex(w) PROVE KeyInv'
  BY <1>3 DEF LockMutex, GotoW
<1>4. ASSUME NEW w \in Workers, Recheck(w) PROVE KeyInv'
  BY <1>4 DEF Recheck, GotoW
<1>5. ASSUME NEW w \in Workers, GetCollisionData(w) PROVE KeyInv'
  BY <1>5 DEF GetCollisionData, GotoW
<1>6. ASSUME NEW w \in Workers, ClearCollision(w) PROVE KeyInv'
  BY <1>6 DEF ClearCollision, GotoW
<1>7. ASSUME NEW w \in Workers, Formulas(w) PROVE KeyInv'
  BY <1>7 DEF Formulas, GotoW
<1>8. ASSUME NEW w \in Workers, Push(w) PROVE KeyInv'
  BY <1>8 DEF Push, PushBSGSCandidate, QueueFull, GotoW
<1>9. ASSUME NEW w \in Workers, RangeCheck(w) PROVE KeyInv'
  BY <1>9 DEF RangeCheck, GotoW
<1>10. ASSUME NEW w \in Workers, Publish(w) PROVE KeyInv'
  BY <1>10 DEF Publish, GotoW
<1>11. ASSUME NEW w \in Workers, Unflag(w) PROVE KeyInv'
  BY <1>11 DEF Unflag, GotoW
<1>12. ASSUME NEW w \in Workers, UnlockMutex(w) PROVE KeyInv'
  BY <1>12 DEF UnlockMutex, GotoW
<1>13. CASE FallbackCheck
  BY <1>13 DEF FallbackCheck, Report, StillThere
<1>14. CASE FallbackGet
  BY <1>14 DEF FallbackGet
<1>15. CASE FallbackFormulas
  BY <1>15 DEF FallbackFormulas
<1>16. CASE FallbackPublish
  BY <1>16 DEF FallbackPublish
<1>17. CASE FallbackPush
  BY <1>17 DEF FallbackPush, PushBSGSCandidate, QueueFull
<1>18. CASE FallbackClear
  BY <1>18 DEF FallbackClear
<1>19. ASSUME NEW b \in BsgsThreads, BsgsTop(b) PROVE KeyInv'
  BY <1>19 DEF BsgsTop, GotoB
<1>20. ASSUME NEW b \in BsgsThreads, BsgsTake(b) PROVE KeyInv'
  BY <1>20 DEF BsgsTake, GotoB
<1>21. ASSUME NEW b \in BsgsThreads, BsgsGot(b) PROVE KeyInv'
  BY <1>21 DEF BsgsGot, GotoB
<1>22. ASSUME NEW b \in BsgsThreads, BsgsSearch(b) PROVE KeyInv'
  BY <1>22 DEF BsgsSearch, GotoB
<1>23. ASSUME NEW b \in BsgsThreads, BsgsPublish(b) PROVE KeyInv'
  BY <1>23 DEF BsgsPublish, GotoB
<1>24. ASSUME NEW b \in BsgsThreads, BsgsCount(b) PROVE KeyInv'
  BY <1>24 DEF BsgsCount, GotoB
<1>25. CASE Interrupt
  BY <1>25 DEF Interrupt
<1>26. CASE InterruptSolved
  BY <1>26 DEF InterruptSolved
<1>27. CASE StopBSGSThread
  BY <1>27 DEF StopBSGSThread
<1>28. CASE SolvePointReturns
  BY <1>28 DEF SolvePointReturns
<1>29. CASE UNCHANGED vars
  BY <1>29 DEF vars
<1> QED
  BY <1>1, <1>2, <1>3, <1>4, <1>5, <1>6, <1>7, <1>8, <1>9, <1>10, <1>11, <1>12, <1>13,
     <1>14, <1>15, <1>16, <1>17, <1>18, <1>19, <1>20, <1>21, <1>22, <1>23, <1>24, <1>25,
     <1>26, <1>27, <1>28, <1>29 DEF Next, WorkerThread, CheckNewPoints, BSGSConsumerThread,
     MainThread

\* No candidate is lost between the formulas and its end.
LEMMA KeptStep == TypeOK /\ HandInv /\ CandidatesKept /\ [Next]_vars => CandidatesKept'
<1> SUFFICES ASSUME TypeOK, HandInv, CandidatesKept, [Next]_vars PROVE CandidatesKept'
  OBVIOUS
<1> USE DEF mailbox, locks, resolver, fallback, queue, bsgs, results, control,
       CandidatesKept, InQueue, InHands
<1>1. ASSUME NEW w \in Workers, CheckWild(w) PROVE CandidatesKept'
  BY <1>1 DEF CheckWild, Report, StillThere, GotoW
<1>2. ASSUME NEW w \in Workers, CompareExchange(w) PROVE CandidatesKept'
  BY <1>2 DEF CompareExchange, GotoW
<1>3. ASSUME NEW w \in Workers, LockMutex(w) PROVE CandidatesKept'
  BY <1>3 DEF LockMutex, GotoW
<1>4. ASSUME NEW w \in Workers, Recheck(w) PROVE CandidatesKept'
  BY <1>4 DEF Recheck, GotoW
<1>5. ASSUME NEW w \in Workers, GetCollisionData(w) PROVE CandidatesKept'
  BY <1>5 DEF GetCollisionData, GotoW
<1>6. ASSUME NEW w \in Workers, ClearCollision(w) PROVE CandidatesKept'
  BY <1>6 DEF ClearCollision, GotoW
<1>7. ASSUME NEW w \in Workers, Formulas(w) PROVE CandidatesKept'
  BY <1>7 DEF Formulas, GotoW
<1>8. ASSUME NEW w \in Workers, Push(w) PROVE CandidatesKept'
  <2>1. hand[w] \in Collisions
    BY <1>8 DEF Push, HandInv
  <2>2. /\ pushed' = pushed \cup {hand[w]}
        /\ InQueue' \cup dropped' = InQueue \cup dropped \cup {hand[w]}
    BY <1>8, <2>1, PushQueue DEF Push, PushBSGSCandidate
  <2>3. InHands' = InHands /\ UNCHANGED <<processed, abandoned, gSolved, gSaveAndExit>>
    BY <1>8 DEF Push, InHands
  <2> QED
    BY <2>2, <2>3 DEF CandidatesKept
<1>9. ASSUME NEW w \in Workers, RangeCheck(w) PROVE CandidatesKept'
  BY <1>9 DEF RangeCheck, GotoW
<1>10. ASSUME NEW w \in Workers, Publish(w) PROVE CandidatesKept'
  BY <1>10 DEF Publish, GotoW
<1>11. ASSUME NEW w \in Workers, Unflag(w) PROVE CandidatesKept'
  BY <1>11 DEF Unflag, GotoW
<1>12. ASSUME NEW w \in Workers, UnlockMutex(w) PROVE CandidatesKept'
  BY <1>12 DEF UnlockMutex, GotoW
<1>13. CASE FallbackCheck
  BY <1>13 DEF FallbackCheck, Report, StillThere
<1>14. CASE FallbackGet
  BY <1>14 DEF FallbackGet
<1>15. CASE FallbackFormulas
  BY <1>15 DEF FallbackFormulas
<1>16. CASE FallbackPublish
  BY <1>16 DEF FallbackPublish
<1>17. CASE FallbackPush
  <2>1. fhand \in Collisions
    BY <1>17 DEF FallbackPush, HandInv
  <2>2. /\ pushed' = pushed \cup {fhand}
        /\ InQueue' \cup dropped' = InQueue \cup dropped \cup {fhand}
    BY <1>17, <2>1, PushQueue DEF FallbackPush, PushBSGSCandidate
  <2>3. InHands' = InHands /\ UNCHANGED <<processed, abandoned, gSolved, gSaveAndExit>>
    BY <1>17 DEF FallbackPush, InHands
  <2> QED
    BY <2>2, <2>3 DEF CandidatesKept
<1>18. CASE FallbackClear
  BY <1>18 DEF FallbackClear
<1>19. ASSUME NEW b \in BsgsThreads, BsgsTop(b) PROVE CandidatesKept'
  BY <1>19 DEF BsgsTop, GotoB
<1>20. ASSUME NEW b \in BsgsThreads, BsgsTake(b) PROVE CandidatesKept'
  <2>1. CASE gBSGSQueue = <<>>
    <3>1. UNCHANGED <<pushed, gBSGSQueue, candidate, processed, dropped, abandoned, gSolved,
                      gSaveAndExit>>
      BY <1>20, <2>1 DEF BsgsTake
    <3> QED
      BY <3>1 DEF CandidatesKept, InQueue, InHands
  <2>2. CASE gBSGSQueue # <<>>
    <3>1. /\ gBSGSQueue' = Tail(gBSGSQueue)
          /\ candidate' = [candidate EXCEPT ![b] = Head(gBSGSQueue)]
          /\ UNCHANGED <<pushed, processed, dropped, abandoned, gSolved, gSaveAndExit>>
      BY <1>20, <2>2 DEF BsgsTake
    <3>2. Head(gBSGSQueue) \in Collisions /\ InQueue = {Head(gBSGSQueue)} \cup InQueue'
      BY <2>2, <3>1, TakeQueue DEF InQueue
    <3>3. candidate[b] = NoCollision
      BY <1>20 DEF BsgsTake, HandInv
    <3>4. InHands' = InHands \cup {Head(gBSGSQueue)}
      BY <3>1, <3>2, <3>3, ResolverAssumption DEF InHands, TypeOK
    <3> QED
      BY <3>1, <3>2, <3>4 DEF CandidatesKept
  <2> QED
    BY <2>1, <2>2
<1>21. ASSUME NEW b \in BsgsThreads, BsgsGot(b) PROVE CandidatesKept'
  <2>1. CASE ~(gSaveAndExit \/ gSolved)
    BY <1>21, <2>1 DEF BsgsGot, CandidatesKept, InQueue, InHands
  <2>2. CASE gSaveAndExit \/ gSolved
    <3>1. candidate[b] \in Collisions
      BY <1>21 DEF BsgsGot, HandInv
    <3>2. /\ candidate' = [candidate EXCEPT ![b] = NoCollision]
          /\ abandoned' = abandoned \cup {candidate[b]} /\ InQueue' = InQueue
          /\ UNCHANGED <<pushed, dropped, processed, gSolved, gSaveAndExit>>
      BY <1>21, <2>2 DEF BsgsGot, InQueue
    <3>3. /\ InHands \subseteq InHands' \cup {candidate[b]} /\ InHands' \subseteq InHands
          /\ candidate[b] \in InHands
      BY <3>1, <3>2, ResolverAssumption DEF InHands, TypeOK
    <3> QED
      BY <2>2, <3>2, <3>3 DEF CandidatesKept
  <2> QED
    BY <2>1, <2>2
<1>22. ASSUME NEW b \in BsgsThreads, BsgsSearch(b) PROVE CandidatesKept'
  BY <1>22 DEF BsgsSearch, GotoB
<1>23. ASSUME NEW b \in BsgsThreads, BsgsPublish(b) PROVE CandidatesKept'
  BY <1>23 DEF BsgsPublish, GotoB
<1>24. ASSUME NEW b \in BsgsThreads, BsgsCount(b) PROVE CandidatesKept'
  <2>1. candidate[b] \in Collisions
    BY <1>24 DEF BsgsCount, HandInv
  <2>2. /\ InHands \subseteq InHands' \cup {candidate[b]} /\ InHands' \subseteq InHands
        /\ candidate[b] \in InHands
    BY <1>24, <2>1, ResolverAssumption DEF BsgsCount, InHands, TypeOK
  <2>3. /\ processed' = processed \cup {candidate[b]} /\ InQueue' = InQueue
        /\ UNCHANGED <<pushed, dropped, abandoned, gSolved, gSaveAndExit>>
    BY <1>24 DEF BsgsCount, InQueue
  <2> QED
    BY <2>2, <2>3 DEF CandidatesKept
<1>25. CASE Interrupt \/ InterruptSolved \/ MainThread
  BY <1>25 DEF Interrupt, InterruptSolved, MainThread, StopBSGSThread, SolvePointReturns
<1>26. CASE UNCHANGED vars
  BY <1>26 DEF vars
<1> QED
  BY <1>1, <1>2, <1>3, <1>4, <1>5, <1>6, <1>7, <1>8, <1>9, <1>10, <1>11, <1>12, <1>13,
     <1>14, <1>15, <1>16, <1>17, <1>18, <1>19, <1>20, <1>21, <1>22, <1>23, <1>24, <1>25,
     <1>26 DEF Next, WorkerThread, CheckNewPoints, BSGSConsumerThread

\* The invariant holds at the start.
LEMMA InitInv == Init => IInv
<1> SUFFICES ASSUME Init PROVE IInv
  OBVIOUS
<1> USE DEF Init
<1>1. gBSGSQueue \in Seq(Collisions) /\ Len(gBSGSQueue) <= QueueMax
  BY EmptySeq, ResolverAssumption
<1>2. TypeOK
  BY <1>1 DEF TypeOK, Hand
<1>3. FlagExact
  BY DEF FlagExact, Resolving, Exclusive
<1>4. HandInv /\ MailInv /\ KeyInv
  BY DEF HandInv, MailInv, KeyInv, ResolvedOnce, KeyBehindSolved
<1>5. CandidatesKept
  <2>1. InQueue = {} /\ InHands = {}
    BY DEF InQueue, InHands
  <2> QED BY <2>1 DEF CandidatesKept
<1> QED BY <1>2, <1>3, <1>4, <1>5 DEF IInv

\* The invariant holds always.
LEMMA Invariant == Spec => []IInv
<1>1. Init => IInv
  BY InitInv
<1>2. IInv /\ [Next]_vars => IInv'
  BY TypeStep, FlagStep, HandStep, MailStep, KeyStep, KeptStep DEF IInv
<1> QED BY <1>1, <1>2, PTL DEF Spec

-----------------------------------------------------------------------------
(* What follows for the resolution of collisions.                          *)

\* Every variable keeps its type, and the BSGS queue never holds more than
\* BSGS_QUEUE_MAX candidates, for any number of threads.
THEOREM TypeCorrect == Spec => []TypeOK
<1>1. IInv => TypeOK
  BY DEF IInv
<1> QED BY <1>1, Invariant, PTL

\* gCollisionBeingResolved is up exactly while one worker resolves, and never
\* two do, for any number of workers: compare-exchange, mutex, recheck and
\* five ways out included.
THEOREM FlagCorrect == Spec => []FlagExact
<1>1. IInv => FlagExact
  BY DEF IInv
<1> QED BY <1>1, Invariant, PTL

\* No report is copied out of the one-place mailbox twice, for any number of
\* workers, reports and tail checks, the fallback path included.
THEOREM ResolvedOnceCorrect == Spec => []ResolvedOnce
<1>1. IInv => ResolvedOnce
  BY DEF IInv, MailInv
<1> QED BY <1>1, Invariant, PTL

\* Whoever sets gSolved has written a verified key, or Ctrl+C has announced
\* itself: SolvePoint never returns an unset key.
THEOREM KeyCorrect == Spec => []KeyBehindSolved
<1>1. IInv => KeyBehindSolved
  BY DEF IInv, KeyInv
<1> QED BY <1>1, Invariant, PTL

\* No candidate is lost between the resolvers, the bounded queue and any
\* number of BSGS threads, but the oldest one of a full queue.
THEOREM KeptCorrect == Spec => []CandidatesKept
<1>1. IInv => CandidatesKept
  BY DEF IInv
<1> QED BY <1>1, Invariant, PTL

-----------------------------------------------------------------------------
(* The mutex, the results, and the length of a resolution.                 *)

\* A step that is not a worker's leaves the workers and their locks alone.
LEMMA NotWorkers ==
  ASSUME [Next]_vars, \A w \in Workers : ~WorkerThread(w)
  PROVE  UNCHANGED <<wpc, hand, mutexHeld, gCollisionBeingResolved>>
<1> USE DEF mailbox, locks, resolver, fallback, queue, bsgs, results, control
<1>1. CASE CheckNewPoints
  BY <1>1 DEF CheckNewPoints, FallbackCheck, FallbackGet, FallbackFormulas, FallbackPublish,
     FallbackPush, FallbackClear
<1>2. ASSUME NEW b \in BsgsThreads, BSGSConsumerThread(b)
      PROVE  UNCHANGED <<wpc, hand, mutexHeld, gCollisionBeingResolved>>
  BY <1>2 DEF BSGSConsumerThread, BsgsTop, BsgsTake, BsgsGot, BsgsSearch, BsgsPublish, BsgsCount
<1>3. CASE Interrupt \/ InterruptSolved \/ MainThread
  BY <1>3 DEF Interrupt, InterruptSolved, MainThread, StopBSGSThread, SolvePointReturns
<1>4. CASE UNCHANGED vars
  BY <1>4 DEF vars
<1> QED
  BY <1>1, <1>2, <1>3, <1>4 DEF Next

\* Only the taker of the mutex gives it back, and it is taken when it is free.
LEMMA MutexStep == TypeOK /\ MutexExact /\ [Next]_vars => MutexExact'
<1> SUFFICES ASSUME TypeOK, MutexExact, [Next]_vars PROVE MutexExact'
  OBVIOUS
<1> DEFINE In == {"recheck", "get", "clear", "formulas", "push", "range", "publish", "unflag", "unlock"}
<1>0. /\ wpc \in [Workers -> Exclusive \cup {"next", "cas", "unlock"}]
      /\ Locked = {w \in Workers : wpc[w] \in In} /\ Locked' = {w \in Workers : wpc'[w] \in In}
  BY DEF TypeOK, Locked, Exclusive
<1>1. ASSUME NEW w \in Workers, WorkerThread(w), ~LockMutex(w), ~UnlockMutex(w)
      PROVE  /\ mutexHeld' = mutexHeld /\ \E l : wpc' = [wpc EXCEPT ![w] = l]
             /\ wpc[w] \in In <=> wpc'[w] \in In
  BY <1>0, <1>1 DEF WorkerThread, CheckWild, CompareExchange, Recheck, GetCollisionData,
     ClearCollision, Formulas, Push, RangeCheck, Publish, Unflag, GotoW, locks
<1>2. CASE \E w \in Workers : WorkerThread(w) /\ ~LockMutex(w) /\ ~UnlockMutex(w)
  <2>1. PICK w \in Workers : WorkerThread(w) /\ ~LockMutex(w) /\ ~UnlockMutex(w)
    BY <1>2
  <2>2. /\ mutexHeld' = mutexHeld
        /\ wpc[w] \in In <=> wpc'[w] \in In
        /\ \A v \in Workers : v # w => wpc'[v] = wpc[v]
    BY <1>0, <1>1, <2>1
  <2>3. Locked' = Locked
    BY <1>0, <2>2
  <2> QED
    BY <2>2, <2>3 DEF MutexExact
<1>3. ASSUME NEW w \in Workers, LockMutex(w)
      PROVE  MutexExact'
  <2>1. ~mutexHeld /\ mutexHeld' /\ wpc'[w] \in In /\ \A v \in Workers : v # w => wpc'[v] = wpc[v]
    BY <1>0, <1>3 DEF LockMutex, GotoW
  <2>2. Locked = {}
    BY <2>1 DEF MutexExact
  <2>3. Locked' = {w}
    BY <1>0, <2>1, <2>2
  <2> QED
    BY <2>1, <2>3 DEF MutexExact
<1>4. ASSUME NEW w \in Workers, UnlockMutex(w)
      PROVE  MutexExact'
  <2>1. /\ wpc[w] \in In /\ ~mutexHeld' /\ wpc'[w] \notin In
        /\ \A v \in Workers : v # w => wpc'[v] = wpc[v]
    BY <1>0, <1>4 DEF UnlockMutex, GotoW
  <2>2. \A v \in Locked : v = w
    BY <1>0, <2>1 DEF MutexExact
  <2>3. Locked' = {}
    BY <1>0, <2>1, <2>2
  <2> QED
    BY <2>1, <2>3 DEF MutexExact
<1>5. CASE \A w \in Workers : ~WorkerThread(w)
  <2>1. Locked' = Locked /\ mutexHeld' = mutexHeld
    BY <1>5, NotWorkers DEF Locked
  <2> QED
    BY <2>1 DEF MutexExact
<1> QED
  BY <1>2, <1>3, <1>4, <1>5

\* The mutex is held exactly while one worker has it: whoever waits for it
\* waits for a worker that waits for nothing.
THEOREM MutexCorrect == Spec => []MutexExact
<1>1. Init => MutexExact
  BY DEF Init, MutexExact, Locked, Exclusive
<1>2. IInv /\ MutexExact /\ [Next]_vars => MutexExact'
  BY MutexStep DEF IInv
<1> QED
  BY <1>1, <1>2, Invariant, PTL DEF Spec

\* One step of a worker, by control point.
LEMMA WorkerMoves ==
  ASSUME TypeOK, NEW w \in Workers, WorkerThread(w)
  PROVE  /\ \A v \in Workers \ {w} : wpc'[v] = wpc[v]
         /\ \/ wpc[w] = "next" /\ wpc'[w] = "cas"
            \/ wpc[w] = "cas" /\ wpc'[w] \in {"lock", "next"}
            \/ wpc[w] = "lock" /\ wpc'[w] = "recheck"
            \/ wpc[w] = "recheck" /\ wpc'[w] \in {"get", "unlock"}
            \/ wpc[w] = "get" /\ wpc'[w] = "clear"
            \/ wpc[w] = "clear" /\ wpc'[w] = "formulas"
            \/ wpc[w] = "formulas" /\ wpc'[w] \in {"range", "push"}
            \/ wpc[w] = "range" /\ wpc'[w] \in {"publish", "unlock"}
            \/ wpc[w] \in {"push", "publish"} /\ wpc'[w] = "unflag"
            \/ wpc[w] = "unflag" /\ wpc'[w] = "unlock"
            \/ wpc[w] = "unlock" /\ wpc'[w] = "next"
<1>1. wpc \in [Workers -> Exclusive \cup {"next", "cas", "unlock"}]
  BY DEF TypeOK
<1>2. /\ \E l : wpc' = [wpc EXCEPT ![w] = l]
      /\ \/ wpc[w] = "next" /\ wpc'[w] = "cas"
         \/ wpc[w] = "cas" /\ wpc'[w] \in {"lock", "next"}
         \/ wpc[w] = "lock" /\ wpc'[w] = "recheck"
         \/ wpc[w] = "recheck" /\ wpc'[w] \in {"get", "unlock"}
         \/ wpc[w] = "get" /\ wpc'[w] = "clear"
         \/ wpc[w] = "clear" /\ wpc'[w] = "formulas"
         \/ wpc[w] = "formulas" /\ wpc'[w] \in {"range", "push"}
         \/ wpc[w] = "range" /\ wpc'[w] \in {"publish", "unlock"}
         \/ wpc[w] \in {"push", "publish"} /\ wpc'[w] = "unflag"
         \/ wpc[w] = "unflag" /\ wpc'[w] = "unlock"
         \/ wpc[w] = "unlock" /\ wpc'[w] = "next"
  BY <1>1 DEF WorkerThread, CheckWild, CompareExchange, LockMutex, Recheck, GetCollisionData,
     ClearCollision, Formulas, Push, RangeCheck, Publish, Unflag, UnlockMutex, GotoW
<1> QED
  BY <1>1, <1>2

\* A resolution takes ten steps at most, whatever the other threads do.
THEOREM ResolutionEndsCorrect == Spec => ResolutionEnds
<1> DEFINE Lowers == \A w \in Workers :
             \/ ResolutionLeft(wpc[w])' = ResolutionLeft(wpc[w])
             \/ WorkerThread(w) /\ (wpc[w] = "next" \/ ResolutionLeft(wpc[w])' < ResolutionLeft(wpc[w]))
<1>1. IInv /\ [Next]_vars => Lowers
  <2> SUFFICES ASSUME IInv, [Next]_vars, NEW v \in Workers
               PROVE  \/ ResolutionLeft(wpc[v])' = ResolutionLeft(wpc[v])
                      \/ /\ WorkerThread(v)
                         /\ wpc[v] = "next" \/ ResolutionLeft(wpc[v])' < ResolutionLeft(wpc[v])
    OBVIOUS
  <2>1. ASSUME NEW w \in Workers, WorkerThread(w), w # v
        PROVE  ResolutionLeft(wpc[v])' = ResolutionLeft(wpc[v])
    <3>1. wpc'[v] = wpc[v]
      BY <2>1, WorkerMoves DEF IInv
    <3> QED
      BY <3>1 DEF ResolutionLeft
  <2>2. ASSUME WorkerThread(v), wpc[v] # "next"
        PROVE  ResolutionLeft(wpc[v])' < ResolutionLeft(wpc[v])
    <3>1. PICK l, m : l = wpc[v] /\ m = wpc'[v]
      OBVIOUS
    <3>2. \/ l = "cas" /\ m \in {"lock", "next"}
          \/ l = "lock" /\ m = "recheck"
          \/ l = "recheck" /\ m \in {"get", "unlock"}
          \/ l = "get" /\ m = "clear"
          \/ l = "clear" /\ m = "formulas"
          \/ l = "formulas" /\ m \in {"range", "push"}
          \/ l = "range" /\ m \in {"publish", "unlock"}
          \/ l \in {"push", "publish"} /\ m = "unflag"
          \/ l = "unflag" /\ m = "unlock"
          \/ l = "unlock" /\ m = "next"
      BY <2>2, <3>1, WorkerMoves DEF IInv
    <3>3. ResolutionLeft(m) < ResolutionLeft(l)
      BY <3>2 DEF ResolutionLeft
    <3> QED
      BY <3>1, <3>3 DEF ResolutionLeft
  <2>3. CASE \A w \in Workers : ~WorkerThread(w)
    <3>1. wpc' = wpc
      BY <2>3, NotWorkers
    <3> QED
      BY <3>1 DEF ResolutionLeft
  <2> QED
    BY <2>1, <2>2, <2>3
<1> HIDE DEF Lowers
<1>2. Spec => [][Lowers]_vars
  BY <1>1, Invariant, PTL DEF Spec
<1> QED
  BY <1>2 DEF Lowers, ResolutionEnds

\* What a resolver or a BSGS thread works on was taken out of the mailbox, and
\* nobody but the caller of CheckNewPoints comes to announce a key that is out
\* of range.
TakenInv ==
  /\ \A w \in Workers : wpc[w] \in {"clear", "formulas", "push"} => taken[hand[w]] > 0
  /\ fpc \in {"formulas", "push"} => taken[fhand] > 0
  /\ \A c \in pushed : taken[c] > 0
  /\ \A w \in Workers : wpc[w] = "publish" => inRange
  /\ \A b \in BsgsThreads : bpc[b] = "publish" => inRange

GInv == TakenInv /\ KeyGenuine

\* What is found stays found.
LEMMA FoundStays ==
  ASSUME TypeOK, HandInv, MailInv, [Next]_vars, NEW c \in Collisions
  PROVE  /\ taken'[c] \in Nat /\ taken'[c] >= taken[c]
         /\ FoundIn(c) => FoundIn(c)'
         /\ inRange' = inRange
<1> USE DEF mailbox, locks, resolver, fallback, queue, bsgs, results, control
<1>1. taken \in [Collisions -> Nat] /\ collision \in Hand
  BY DEF TypeOK
<1>2. /\ taken' = taken \/ taken' = [taken EXCEPT ![collision] = @ + 1]
      /\ pushed \subseteq pushed' /\ inRange' = inRange
  <2>1. ASSUME NEW w \in Workers, WorkerThread(w)
        PROVE  /\ taken' = taken \/ taken' = [taken EXCEPT ![collision] = @ + 1]
               /\ pushed \subseteq pushed' /\ inRange' = inRange
    BY <2>1 DEF WorkerThread, CheckWild, CompareExchange, LockMutex, Recheck, GetCollisionData,
       ClearCollision, Formulas, Push, PushBSGSCandidate, RangeCheck, Publish, Unflag, UnlockMutex
  <2>2. CASE CheckNewPoints
    BY <2>2 DEF CheckNewPoints, FallbackCheck, FallbackGet, FallbackFormulas, FallbackPublish,
       FallbackPush, PushBSGSCandidate, FallbackClear
  <2>3. ASSUME NEW b \in BsgsThreads, BSGSConsumerThread(b)
        PROVE  UNCHANGED <<taken, pushed, inRange>>
    BY <2>3 DEF BSGSConsumerThread, BsgsTop, BsgsTake, BsgsGot, BsgsSearch, BsgsPublish, BsgsCount
  <2>4. CASE Interrupt \/ InterruptSolved \/ MainThread
    BY <2>4 DEF Interrupt, InterruptSolved, MainThread, StopBSGSThread, SolvePointReturns
  <2>5. CASE UNCHANGED vars
    BY <2>5 DEF vars
  <2> QED
    BY <2>1, <2>2, <2>3, <2>4, <2>5 DEF Next
<1>3. taken'[c] \in Nat /\ taken'[c] >= taken[c] /\ taken[c] \in Nat
  BY <1>1, <1>2
<1> QED
  BY <1>2, <1>3 DEF FoundIn, FormulasFind, BsgsFinds, BSGS_ResolveKey, UpHit, DownHit

\* What a worker does to the results.
LEMMA GenuineWorker ==
  ASSUME IInv, GInv, [Next]_vars, NEW w \in Workers, WorkerThread(w)
  PROVE  GInv'
<1> USE DEF mailbox, locks, resolver, fallback, queue, bsgs, results, control
<1>0. /\ TypeOK /\ HandInv /\ MailInv /\ CandidatesKept /\ TakenInv /\ KeyGenuine
      /\ wpc \in [Workers -> Exclusive \cup {"next", "cas", "unlock"}]
      /\ hand \in [Workers -> Hand]
      /\ taken \in [Collisions -> Nat]
  BY DEF IInv, GInv, TypeOK
<1>1. /\ UNCHANGED <<fpc, fhand, bpc, ipc, pk_res, gSaveAndExit, inRange>>
      /\ \A v \in Workers : v # w => wpc'[v] = wpc[v] /\ hand'[v] = hand[v]
  BY <1>0 DEF WorkerThread, CheckWild, CompareExchange, LockMutex, Recheck, GetCollisionData,
     ClearCollision, Formulas, Push, PushBSGSCandidate, RangeCheck, Publish, Unflag, UnlockMutex, GotoW
<1>2. \A c \in Collisions : /\ taken[c] \in Nat /\ taken'[c] \in Nat /\ taken'[c] >= taken[c]
                            /\ FoundIn(c) => FoundIn(c)'
  BY <1>0, FoundStays
<1>3. \A v \in Workers : v # w =>
        /\ wpc'[v] \in {"clear", "formulas", "push"} => taken'[hand'[v]] > 0
        /\ wpc'[v] = "publish" => inRange'
  BY <1>0, <1>1, <1>2 DEF TakenInv, HandInv
<1>4. fpc' \in {"formulas", "push"} => taken'[fhand'] > 0
  BY <1>0, <1>1, <1>2 DEF TakenInv, HandInv
<1>5. /\ wpc'[w] \in {"clear", "formulas", "push"} => taken'[hand'[w]] > 0
      /\ wpc'[w] = "publish" => inRange'
  <2>1. CASE GetCollisionData(w)
    <3>1. collision \in Collisions
      BY <1>0, <2>1 DEF MailInv, GetCollisionData
    <3>2. wpc'[w] = "clear" /\ hand'[w] = collision /\ taken'[collision] = taken[collision] + 1
      BY <1>0, <2>1, <3>1 DEF GetCollisionData, GotoW
    <3> QED
      BY <1>2, <3>1, <3>2
  <2>2. CASE ClearCollision(w) \/ Formulas(w)
    <3>1. /\ wpc[w] \in {"clear", "formulas"} /\ wpc'[w] \in {"formulas", "push", "range"}
          /\ hand' = hand
      BY <1>0, <2>2 DEF ClearCollision, Formulas, GotoW
    <3> QED
      BY <1>0, <1>2, <3>1 DEF TakenInv, HandInv
  <2>3. CASE RangeCheck(w)
    BY <1>0, <2>3 DEF RangeCheck, GotoW
  <2>4. CASE ~GetCollisionData(w) /\ ~ClearCollision(w) /\ ~Formulas(w) /\ ~RangeCheck(w)
    <3>1. wpc'[w] \in {"next", "cas", "lock", "recheck", "get", "unflag", "unlock"}
      BY <1>0, <2>4 DEF WorkerThread, CheckWild, CompareExchange, LockMutex, Recheck, Push,
         Publish, Unflag, UnlockMutex, GotoW
    <3> QED
      BY <3>1
  <2> QED
    BY <2>1, <2>2, <2>3, <2>4
<1>6. \A c \in pushed' : taken'[c] > 0
  <2>1. CASE Push(w)
    <3>1. pushed' = pushed \cup {hand[w]} /\ wpc[w] = "push"
      BY <2>1 DEF Push, PushBSGSCandidate
    <3>2. hand[w] \in Collisions /\ taken[hand[w]] > 0 /\ pushed \subseteq Collisions
      BY <1>0, <3>1 DEF HandInv, TakenInv, TypeOK
    <3> QED
      BY <1>0, <1>2, <3>1, <3>2 DEF TakenInv
  <2>2. CASE ~Push(w)
    <3>1. pushed' = pushed
      BY <2>2 DEF WorkerThread, CheckWild, CompareExchange, LockMutex, Recheck, GetCollisionData,
         ClearCollision, Formulas, RangeCheck, Publish, Unflag, UnlockMutex
    <3>2. pushed \subseteq Collisions
      BY <1>0 DEF TypeOK
    <3> QED
      BY <1>0, <1>2, <3>1, <3>2 DEF TakenInv
  <2> QED
    BY <2>1, <2>2
<1>7. TakenInv'
  BY <1>0, <1>1, <1>3, <1>4, <1>5, <1>6 DEF TakenInv
<1>8. CASE Formulas(w)
  <2>1. /\ wpc[w] = "formulas" /\ UNCHANGED <<gSolved, pushed, taken>>
        /\ gPrivKey' => gPrivKey \/ FormulasFind(hand[w])
        /\ gPrivKey => gPrivKey'
    BY <1>8 DEF Formulas
  <2>2. hand[w] \in Collisions /\ taken[hand[w]] > 0
    BY <1>0, <2>1 DEF HandInv, TakenInv
  <2>3. ASSUME FormulasFind(hand[w])
        PROVE  FoundIn(hand[w])
    BY <2>2, <2>3 DEF FoundIn
  <2>4. gPrivKey' => \E c \in Collisions : FoundIn(c)'
    BY <1>0, <1>2, <2>1, <2>2, <2>3 DEF KeyGenuine
  <2>5. KeyGenuine'
    BY <1>0, <1>1, <2>1, <2>4 DEF KeyGenuine
  <2> QED
    BY <1>7, <2>5 DEF GInv
<1>9. CASE Publish(w)
  <2>1. wpc[w] = "publish" /\ inRange /\ gPrivKey' = gPrivKey
    BY <1>0, <1>9 DEF Publish, TakenInv
  <2>2. gPrivKey' => \E c \in Collisions : FoundIn(c)'
    BY <1>0, <1>2, <2>1 DEF KeyGenuine
  <2>3. gSolved'
    BY <1>9 DEF Publish
  <2>4. KeyGenuine'
    BY <1>0, <1>1, <2>1, <2>2, <2>3 DEF KeyGenuine
  <2> QED
    BY <1>7, <2>4 DEF GInv
<1>10. CASE ~Formulas(w) /\ ~Publish(w)
  <2>1. UNCHANGED <<gPrivKey, gSolved>>
    BY <1>10 DEF WorkerThread, CheckWild, CompareExchange, LockMutex, Recheck, GetCollisionData,
       ClearCollision, Push, RangeCheck, Unflag, UnlockMutex
  <2>2. gPrivKey' => \E c \in Collisions : FoundIn(c)'
    BY <1>0, <1>2, <2>1 DEF KeyGenuine
  <2>3. KeyGenuine'
    BY <1>0, <1>1, <2>1, <2>2 DEF KeyGenuine
  <2> QED
    BY <1>7, <2>3 DEF GInv
<1> QED
  BY <1>8, <1>9, <1>10

\* What the caller of CheckNewPoints does to them.
LEMMA GenuineFallback ==
  ASSUME IInv, GInv, [Next]_vars, CheckNewPoints
  PROVE  GInv'
<1> USE DEF mailbox, locks, resolver, fallback, queue, bsgs, results, control
<1>0. /\ TypeOK /\ HandInv /\ MailInv /\ TakenInv /\ KeyGenuine
      /\ taken \in [Collisions -> Nat] /\ pushed \subseteq Collisions
  BY DEF IInv, GInv, TypeOK
<1>1. UNCHANGED <<wpc, hand, bpc, ipc, pk_res, gSaveAndExit, inRange>>
  BY DEF CheckNewPoints, FallbackCheck, FallbackGet, FallbackFormulas, FallbackPublish,
     FallbackPush, FallbackClear
<1>2. \A c \in Collisions : /\ taken[c] \in Nat /\ taken'[c] \in Nat /\ taken'[c] >= taken[c]
                            /\ FoundIn(c) => FoundIn(c)'
  BY <1>0, FoundStays
<1>3. \A v \in Workers :
        /\ wpc'[v] \in {"clear", "formulas", "push"} => taken'[hand'[v]] > 0
        /\ wpc'[v] = "publish" => inRange'
  BY <1>0, <1>1, <1>2 DEF TakenInv, HandInv
<1>4. fpc' \in {"formulas", "push"} => taken'[fhand'] > 0
  <2>1. CASE FallbackGet
    <3>1. collision \in Collisions
      BY <1>0, <2>1 DEF MailInv, FallbackGet
    <3>2. fhand' = collision /\ taken'[collision] = taken[collision] + 1
      BY <1>0, <2>1, <3>1 DEF FallbackGet
    <3> QED
      BY <1>2, <3>1, <3>2
  <2>2. CASE FallbackFormulas
    <3>1. fpc = "formulas" /\ fhand' = fhand
      BY <2>2 DEF FallbackFormulas
    <3> QED
      BY <1>0, <1>2, <3>1 DEF TakenInv, HandInv
  <2>3. CASE FallbackCheck \/ FallbackPublish \/ FallbackPush \/ FallbackClear
    BY <2>3 DEF FallbackCheck, FallbackPublish, FallbackPush, FallbackClear
  <2> QED
    BY <2>1, <2>2, <2>3 DEF CheckNewPoints
<1>5. \A c \in pushed' : taken'[c] > 0
  <2>1. CASE FallbackPush
    <3>1. pushed' = pushed \cup {fhand} /\ fpc = "push"
      BY <2>1 DEF FallbackPush, PushBSGSCandidate
    <3>2. fhand \in Collisions /\ taken[fhand] > 0
      BY <1>0, <3>1 DEF HandInv, TakenInv
    <3> QED
      BY <1>0, <1>2, <3>1, <3>2 DEF TakenInv
  <2>2. CASE ~FallbackPush
    <3>1. pushed' = pushed
      BY <2>2 DEF CheckNewPoints, FallbackCheck, FallbackGet, FallbackFormulas, FallbackPublish,
         FallbackClear
    <3> QED
      BY <1>0, <1>2, <3>1 DEF TakenInv
  <2> QED
    BY <2>1, <2>2
<1>6. TakenInv'
  BY <1>0, <1>1, <1>3, <1>4, <1>5 DEF TakenInv
<1>7. gPrivKey' => \E c \in Collisions : FoundIn(c)'
  <2>1. CASE FallbackFormulas
    <3>1. /\ fpc = "formulas"
          /\ gPrivKey' => gPrivKey \/ FormulasFind(fhand)
      BY <2>1 DEF FallbackFormulas
    <3>2. fhand \in Collisions /\ taken[fhand] > 0
      BY <1>0, <3>1 DEF HandInv, TakenInv
    <3>3. FormulasFind(fhand) => FoundIn(fhand)
      BY <3>2 DEF FoundIn
    <3> QED
      BY <1>0, <1>2, <3>1, <3>2, <3>3 DEF KeyGenuine
  <2>2. CASE ~FallbackFormulas
    <3>1. gPrivKey' = gPrivKey
      BY <2>2 DEF CheckNewPoints, FallbackCheck, FallbackGet, FallbackPublish, FallbackPush,
         FallbackClear
    <3> QED
      BY <1>0, <1>2, <3>1 DEF KeyGenuine
  <2> QED
    BY <2>1, <2>2
<1>8. /\ gSolved' /\ ~gSaveAndExit' /\ ~inRange' => fpc' = "end"
      /\ gPrivKey /\ gSolved => gPrivKey' /\ gSolved'
  <2>1. CASE FallbackPublish
    BY <1>0, <2>1 DEF FallbackPublish
  <2>2. CASE ~FallbackPublish
    <3>1. gSolved' = gSolved /\ fpc # "end" /\ (gPrivKey => gPrivKey')
      BY <2>2 DEF CheckNewPoints, FallbackCheck, FallbackGet, FallbackFormulas, FallbackPush,
         FallbackClear
    <3> QED
      BY <1>0, <1>1, <3>1 DEF KeyGenuine
  <2> QED
    BY <2>1, <2>2
<1>9. KeyGenuine'
  BY <1>0, <1>1, <1>7, <1>8 DEF KeyGenuine
<1> QED
  BY <1>6, <1>9 DEF GInv

\* What a BSGS thread does to them: its candidate was pushed.
LEMMA GenuineBsgs ==
  ASSUME IInv, GInv, [Next]_vars, NEW b \in BsgsThreads, BSGSConsumerThread(b)
  PROVE  GInv'
<1> USE DEF mailbox, locks, resolver, fallback, queue, bsgs, results, control
<1>0. /\ TypeOK /\ HandInv /\ MailInv /\ CandidatesKept /\ TakenInv /\ KeyGenuine
      /\ bpc \in [BsgsThreads -> {"top", "wait", "got", "search", "publish", "count", "end"}]
      /\ pushed \subseteq Collisions
  BY DEF IInv, GInv, TypeOK
<1>1. UNCHANGED <<wpc, hand, fpc, fhand, ipc, pk_res, gSaveAndExit, inRange, taken, pushed>>
  BY DEF BSGSConsumerThread, BsgsTop, BsgsTake, BsgsGot, BsgsSearch, BsgsPublish, BsgsCount
<1>2. \A c \in Collisions : FoundIn(c) => FoundIn(c)'
  BY <1>0, FoundStays
<1>3. /\ \A d \in BsgsThreads : bpc'[d] = "publish" => inRange
      /\ gPrivKey' => \E c \in Collisions : FoundIn(c)'
      /\ gPrivKey => gPrivKey'
  <2>1. CASE BsgsSearch(b)
    <3>1. /\ bpc[b] = "search"
          /\ \A d \in BsgsThreads : bpc'[d] = "publish" => bpc[d] = "publish" \/ inRange
          /\ gPrivKey' => gPrivKey \/ BsgsFinds(candidate[b])
          /\ gPrivKey => gPrivKey'
      BY <1>0, <2>1 DEF BsgsSearch, GotoB
    <3>2. candidate[b] \in Collisions /\ candidate[b] \in InHands
      BY <1>0, <3>1, ResolverAssumption DEF HandInv, InHands
    <3>3. candidate[b] \in pushed
      BY <1>0, <3>2 DEF CandidatesKept
    <3>4. BsgsFinds(candidate[b]) => FoundIn(candidate[b])
      BY <1>0, <3>3 DEF FoundIn, TakenInv
    <3> QED
      BY <1>0, <1>2, <3>1, <3>2, <3>4 DEF TakenInv, KeyGenuine
  <2>2. CASE ~BsgsSearch(b)
    <3>1. /\ gPrivKey' = gPrivKey
          /\ \A d \in BsgsThreads : bpc'[d] = "publish" => bpc[d] = "publish"
      BY <1>0, <2>2 DEF BSGSConsumerThread, BsgsTop, BsgsTake, BsgsGot, BsgsPublish, BsgsCount, GotoB
    <3> QED
      BY <1>0, <1>2, <3>1 DEF TakenInv, KeyGenuine
  <2> QED
    BY <2>1, <2>2
<1>4. TakenInv'
  BY <1>0, <1>1, <1>3 DEF TakenInv
<1>5. /\ gSolved' /\ ~inRange => gSolved
      /\ gSolved => gSolved'
  <2>1. CASE BsgsPublish(b)
    BY <1>0, <2>1 DEF BsgsPublish, TakenInv
  <2>2. CASE ~BsgsPublish(b)
    BY <2>2 DEF BSGSConsumerThread, BsgsTop, BsgsTake, BsgsGot, BsgsSearch, BsgsCount
  <2> QED
    BY <2>1, <2>2
<1>6. KeyGenuine'
  BY <1>0, <1>1, <1>3, <1>5 DEF KeyGenuine
<1> QED
  BY <1>4, <1>6 DEF GInv

LEMMA GenuineStep == IInv /\ GInv /\ [Next]_vars => GInv'
<1> SUFFICES ASSUME IInv, GInv, [Next]_vars PROVE GInv'
  OBVIOUS
<1> USE DEF mailbox, locks, resolver, fallback, queue, bsgs, results, control
<1>0. /\ TypeOK /\ HandInv /\ MailInv /\ TakenInv /\ KeyGenuine
  BY DEF IInv, GInv
<1>1. CASE Interrupt \/ InterruptSolved \/ MainThread \/ UNCHANGED vars
  <2>1. /\ UNCHANGED <<wpc, hand, fpc, fhand, bpc, inRange, taken, pushed, gPrivKey>>
        /\ gSolved' => gSolved \/ ipc = "half"
        /\ gSolved => gSolved'
        /\ gSaveAndExit => gSaveAndExit'
        /\ pk_res' => pk_res \/ (gSolved /\ gPrivKey)
    <3>1. CASE Interrupt
      BY <3>1 DEF Interrupt
    <3>2. CASE InterruptSolved
      BY <3>2 DEF InterruptSolved
    <3>3. CASE StopBSGSThread
      BY <3>3 DEF StopBSGSThread
    <3>4. CASE SolvePointReturns
      <4>1. gSolved /\ ~gSaveAndExit => gPrivKey
        BY DEF IInv, KeyInv, KeyBehindSolved
      <4>. QED
        BY <3>4, <4>1, ZenonT(30) DEF SolvePointReturns
    <3>5. CASE UNCHANGED vars
      BY <3>5 DEF vars
    <3> QED
      BY <1>1, <3>1, <3>2, <3>3, <3>4, <3>5 DEF MainThread
  <2>2. TakenInv'
    BY <1>0, <2>1 DEF TakenInv
  <2>3. \A c \in Collisions : FoundIn(c) => FoundIn(c)'
    BY <1>0, FoundStays
  <2>4. ipc = "half" => gSaveAndExit
    BY DEF IInv, KeyInv
  <2>5. gPrivKey' => \E c \in Collisions : FoundIn(c)'
    BY <1>0, <2>1, <2>3 DEF KeyGenuine
  <2>6. KeyGenuine'
    BY <1>0, <2>1, <2>4, <2>5 DEF KeyGenuine
  <2> QED
    BY <2>2, <2>6 DEF GInv
<1> QED
  BY <1>1, GenuineWorker, GenuineFallback, GenuineBsgs DEF Next

\* The key that SolvePoint returns was found in a collision taken out of the
\* mailbox, by the formulas or by the search, and no resolver but the caller
\* of CheckNewPoints announces one that is out of range, for any number of
\* workers, BSGS threads and collisions.
THEOREM KeyGenuineCorrect == Spec => []KeyGenuine
<1>1. Init => GInv
  BY DEF Init, GInv, TakenInv, KeyGenuine
<1>2. IInv /\ GInv /\ [Next]_vars => GInv'
  BY GenuineStep
<1>3. GInv => KeyGenuine
  BY DEF GInv
<1> QED
  BY <1>1, <1>2, <1>3, Invariant, PTL DEF Spec
=============================================================================
