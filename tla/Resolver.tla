------------------------------ MODULE Resolver ------------------------------
(***************************************************************************)
(* From a collision reported by the store to the private key               *)
(* (RCKangaroo_hunt_v2.cpp): the one-place mailbox of the store, the       *)
(* workers that race for gCollisionBeingResolved, the closed formulas, the *)
(* bounded queue to the BSGS threads, and the two global results gPrivKey  *)
(* and gSolved. Small batches are handled by the caller of CheckNewPoints  *)
(* itself, which takes no lock and resolves on the spot; the worker pool   *)
(* is idle then (WorkPool: OneCaller, BufferReuse).                        *)
(*                                                                         *)
(* Granularity: every access to a shared variable is a step. What the      *)
(* formulas and the baby-step giant-step search find is decided by the     *)
(* collision: whether it is real, and how far the truncated distances are  *)
(* off (Bsgs).                                                             *)
(***************************************************************************)
EXTENDS Bsgs, Sequences, FiniteSets

CONSTANTS
  Workers,      \* the worker threads
  BsgsThreads,  \* the BSGS consumer threads
  Collisions,   \* collisions the store will report: [id, real, delta]
  NoCollision,  \* an empty mailbox, an empty hand
  QueueMax,     \* BSGS_QUEUE_MAX
  PrivKey       \* the key, counted from gStart

ASSUME ResolverAssumption ==
  /\ QueueMax \in Nat \ {0} /\ PrivKey \in Nat \ {0}
  /\ NoCollision \notin Collisions
  /\ \A c \in Collisions : c.real \in BOOLEAN /\ c.delta \in Int

VARIABLES
  inRange,         \* the key of the puzzle lies in [0, 2^gRange)
  todo,            \* collisions not reported yet
  has_collision, collision,   \* the mailbox of the store
  gCollisionBeingResolved, mutexHeld,
  wpc, hand,       \* per worker: control point, the collision it took
  fpc, fhand,      \* the same for the caller of CheckNewPoints
  gBSGSQueue, gBSGSRunning,
  bpc, candidate,  \* per BSGS thread: control point, its candidate
  gPrivKey,        \* TRUE once a verified key was written
  gSolved, gSaveAndExit,
  ipc,             \* Ctrl+C: "none", "half" way through the handler, "done"
  mpc,             \* main: "loop", "join" the BSGS threads, "end"
  pk_res,          \* SolvePoint returned a key
  taken, pushed, dropped, processed, abandoned   \* history, per collision

mailbox  == <<has_collision, collision>>
locks    == <<gCollisionBeingResolved, mutexHeld>>
resolver == <<wpc, hand>>
fallback == <<fpc, fhand>>
queue    == <<gBSGSQueue, pushed, dropped>>
bsgs     == <<bpc, candidate, processed, abandoned>>
results  == <<gPrivKey, gSolved>>
control  == <<gSaveAndExit, ipc, mpc, pk_res, gBSGSRunning>>
vars == <<inRange, todo, mailbox, locks, resolver, fallback, queue, bsgs, results, control, taken>>

\* The closed formulas only find the key when no truncated bit matters.
FormulasFind(c) == c.real /\ c.delta = 0
BsgsFindsUp(c)  == c.real /\ \E j \in 0 .. MaxGiants : UpHit(PrivKey, c.delta, j)
BsgsFinds(c)    == c.real /\ BSGS_ResolveKey(PrivKey, c.delta)

Init ==
  /\ inRange \in BOOLEAN
  /\ todo = Collisions
  /\ has_collision = FALSE /\ collision = NoCollision
  /\ gCollisionBeingResolved = FALSE /\ mutexHeld = FALSE
  /\ wpc = [w \in Workers |-> "next"] /\ hand = [w \in Workers |-> NoCollision]
  /\ fpc = "next" /\ fhand = NoCollision
  /\ gBSGSQueue = <<>> /\ gBSGSRunning = TRUE
  /\ bpc = [b \in BsgsThreads |-> "top"]
  /\ candidate = [b \in BsgsThreads |-> NoCollision]
  /\ gPrivKey = FALSE /\ gSolved = FALSE
  /\ gSaveAndExit = FALSE /\ ipc = "none"
  /\ mpc = "loop" /\ pk_res = FALSE
  /\ taken = [c \in Collisions |-> 0]
  /\ pushed = {} /\ dropped = {} /\ processed = {} /\ abandoned = {}

-----------------------------------------------------------------------------
(* A check of a WILD. It reports a collision, or finds nothing and is told *)
(* of one that still sits in the mailbox.                                  *)
Report ==
  \E c \in todo :
    /\ todo' = todo \ {c}
    /\ has_collision' = TRUE
    /\ collision' = c

StillThereIgnored == FALSE /\ UNCHANGED <<todo, mailbox>>
StillThere == has_collision /\ UNCHANGED <<todo, mailbox>>

PoolIdle == \A w \in Workers : wpc[w] = "next"

GotoW(w, l) == wpc' = [wpc EXCEPT ![w] = l]

CheckWild(w) ==
  /\ wpc[w] = "next"
  /\ fpc = "next"
  /\ ~gSolved
  /\ Report \/ StillThere
  /\ GotoW(w, "cas")
  /\ UNCHANGED <<inRange, locks, hand, fallback, queue, bsgs, results, control, taken>>

-----------------------------------------------------------------------------
(* A worker told of a collision.                                           *)

\* "If another thread is already resolving, skip."
CompareExchange(w) ==
  /\ wpc[w] = "cas"
  /\ IF gCollisionBeingResolved
     THEN GotoW(w, "next") /\ UNCHANGED locks
     ELSE /\ gCollisionBeingResolved' = TRUE
          /\ GotoW(w, "lock")
          /\ UNCHANGED mutexHeld
  /\ UNCHANGED <<inRange, todo, mailbox, hand, fallback, queue, bsgs, results, control, taken>>

LockMutex(w) ==
  /\ wpc[w] = "lock"
  /\ ~mutexHeld
  /\ mutexHeld' = TRUE
  /\ GotoW(w, "recheck")
  /\ UNCHANGED <<inRange, todo, mailbox, gCollisionBeingResolved, hand, fallback, queue, bsgs,
                 results, control, taken>>

\* "Double-check the collision is still valid."
RecheckNever(w) ==
  /\ wpc[w] = "recheck"
  /\ GotoW(w, "get")
  /\ UNCHANGED <<inRange, todo, mailbox, locks, hand, fallback, queue, bsgs, results, control, taken>>

RecheckKeepingMutex(w) ==
  /\ wpc[w] = "recheck"
  /\ IF has_collision
     THEN GotoW(w, "get") /\ UNCHANGED locks
     ELSE /\ gCollisionBeingResolved' = FALSE
          /\ GotoW(w, "next")
          /\ UNCHANGED mutexHeld
  /\ UNCHANGED <<inRange, todo, mailbox, hand, fallback, queue, bsgs, results, control, taken>>

Recheck(w) ==
  /\ wpc[w] = "recheck"
  /\ IF has_collision
     THEN GotoW(w, "get") /\ UNCHANGED locks
     ELSE /\ gCollisionBeingResolved' = FALSE
          /\ GotoW(w, "unlock")
          /\ UNCHANGED mutexHeld
  /\ UNCHANGED <<inRange, todo, mailbox, hand, fallback, queue, bsgs, results, control, taken>>

GetCollisionData(w) ==
  /\ wpc[w] = "get"
  /\ hand' = [hand EXCEPT ![w] = collision]
  /\ taken' = [taken EXCEPT ![collision] = @ + 1]
  /\ GotoW(w, "clear")
  /\ UNCHANGED <<inRange, todo, mailbox, locks, fallback, queue, bsgs, results, control>>

ClearCollision(w) ==
  /\ wpc[w] = "clear"
  /\ has_collision' = FALSE
  /\ GotoW(w, "formulas")
  /\ UNCHANGED <<inRange, todo, collision, locks, hand, fallback, queue, bsgs, results, control, taken>>

\* A verified key is written to gPrivKey before its range is looked at.
Formulas(w) ==
  /\ wpc[w] = "formulas"
  /\ IF FormulasFind(hand[w])
     THEN gPrivKey' = TRUE /\ GotoW(w, "range")
     ELSE GotoW(w, "push") /\ UNCHANGED gPrivKey
  /\ UNCHANGED <<inRange, todo, mailbox, locks, hand, fallback, queue, bsgs, gSolved, control, taken>>

\* PushBSGSCandidate: a full queue loses its oldest candidate.
QueueFullLate == Len(gBSGSQueue) > QueueMax
QueueFull     == Len(gBSGSQueue) >= QueueMax

PushAfterDrop(c) ==
  /\ pushed' = pushed \cup {c}
  /\ IF QueueFull
     THEN /\ gBSGSQueue' = Tail(gBSGSQueue)
          /\ dropped' = dropped \cup {Head(gBSGSQueue)}
     ELSE /\ gBSGSQueue' = Append(gBSGSQueue, c)
          /\ UNCHANGED dropped

PushBSGSCandidate(c) ==
  /\ pushed' = pushed \cup {c}
  /\ IF QueueFull
     THEN /\ gBSGSQueue' = Append(Tail(gBSGSQueue), c)
          /\ dropped' = dropped \cup {Head(gBSGSQueue)}
     ELSE /\ gBSGSQueue' = Append(gBSGSQueue, c)
          /\ UNCHANGED dropped

Push(w) ==
  /\ wpc[w] = "push"
  /\ PushBSGSCandidate(hand[w])
  /\ GotoW(w, "unflag")
  /\ UNCHANGED <<inRange, todo, mailbox, locks, hand, fallback, bsgs, results, control, taken>>

RangeCheckKeepingFlag(w) ==
  /\ wpc[w] = "range"
  /\ GotoW(w, IF inRange THEN "publish" ELSE "unlock")
  /\ UNCHANGED <<inRange, todo, mailbox, locks, hand, fallback, queue, bsgs, results, control, taken>>

\* "Collision valid but doesn't solve puzzle": give up with the flag reset.
RangeCheck(w) ==
  /\ wpc[w] = "range"
  /\ IF inRange
     THEN GotoW(w, "publish") /\ UNCHANGED locks
     ELSE /\ gCollisionBeingResolved' = FALSE
          /\ GotoW(w, "unlock")
          /\ UNCHANGED mutexHeld
  /\ UNCHANGED <<inRange, todo, mailbox, hand, fallback, queue, bsgs, results, control, taken>>

Publish(w) ==
  /\ wpc[w] = "publish"
  /\ gSolved' = TRUE
  /\ GotoW(w, "unflag")
  /\ UNCHANGED <<inRange, todo, mailbox, locks, hand, fallback, queue, bsgs, gPrivKey, control, taken>>

Unflag(w) ==
  /\ wpc[w] = "unflag"
  /\ gCollisionBeingResolved' = FALSE
  /\ GotoW(w, "unlock")
  /\ UNCHANGED <<inRange, todo, mailbox, mutexHeld, hand, fallback, queue, bsgs, results, control, taken>>

\* The lock_guard ends after the flag was reset.
UnlockMutex(w) ==
  /\ wpc[w] = "unlock"
  /\ mutexHeld' = FALSE
  /\ hand' = [hand EXCEPT ![w] = NoCollision]
  /\ GotoW(w, "next")
  /\ UNCHANGED <<inRange, todo, mailbox, gCollisionBeingResolved, fallback, queue, bsgs, results,
                 control, taken>>

WorkerThread(w) ==
  \/ CheckWild(w) \/ CompareExchange(w) \/ LockMutex(w) \/ Recheck(w)
  \/ GetCollisionData(w) \/ ClearCollision(w) \/ Formulas(w) \/ Push(w)
  \/ RangeCheck(w) \/ Publish(w) \/ Unflag(w) \/ UnlockMutex(w)

-----------------------------------------------------------------------------
(* The caller of CheckNewPoints handles a small batch itself: no flag, no  *)
(* range check, and the mailbox is emptied last.                           *)
FallbackCheck ==
  /\ fpc = "next"
  /\ PoolIdle
  /\ ~gSolved
  /\ Report \/ StillThere
  /\ fpc' = "get"
  /\ UNCHANGED <<inRange, locks, resolver, fhand, queue, bsgs, results, control, taken>>

FallbackGet ==
  /\ fpc = "get"
  /\ fhand' = collision
  /\ taken' = [taken EXCEPT ![collision] = @ + 1]
  /\ fpc' = "formulas"
  /\ UNCHANGED <<inRange, todo, mailbox, locks, resolver, queue, bsgs, results, control>>

FallbackFormulas ==
  /\ fpc = "formulas"
  /\ IF FormulasFind(fhand)
     THEN gPrivKey' = TRUE /\ fpc' = "publish"
     ELSE fpc' = "push" /\ UNCHANGED gPrivKey
  /\ UNCHANGED <<inRange, todo, mailbox, locks, resolver, fhand, queue, bsgs, gSolved, control, taken>>

FallbackPublish ==
  /\ fpc = "publish"
  /\ gSolved' = TRUE
  /\ fpc' = "end"
  /\ UNCHANGED <<inRange, todo, mailbox, locks, resolver, fhand, queue, bsgs, gPrivKey, control, taken>>

FallbackPush ==
  /\ fpc = "push"
  /\ PushBSGSCandidate(fhand)
  /\ fpc' = "clear"
  /\ UNCHANGED <<inRange, todo, mailbox, locks, resolver, fhand, bsgs, results, control, taken>>

FallbackClear ==
  /\ fpc = "clear"
  /\ has_collision' = FALSE
  /\ fhand' = NoCollision
  /\ fpc' = "next"
  /\ UNCHANGED <<inRange, todo, collision, locks, resolver, queue, bsgs, results, control, taken>>

CheckNewPoints ==
  \/ FallbackCheck \/ FallbackGet \/ FallbackFormulas \/ FallbackPublish
  \/ FallbackPush \/ FallbackClear

-----------------------------------------------------------------------------
(* BSGSConsumerThread.                                                     *)
GotoB(b, l) == bpc' = [bpc EXCEPT ![b] = l]

\* The loop condition; the queue is looked at without its lock.
BsgsTop(b) ==
  /\ bpc[b] = "top"
  /\ IF (gBSGSRunning \/ gBSGSQueue # <<>>) /\ ~gSaveAndExit /\ ~gSolved
     THEN GotoB(b, "wait") ELSE GotoB(b, "end")
  /\ UNCHANGED <<inRange, todo, mailbox, locks, resolver, fallback, queue, candidate, processed,
                 abandoned, results, control, taken>>

\* Under the lock: the oldest candidate, or nothing after a time-out.
BsgsTake(b) ==
  /\ bpc[b] = "wait"
  /\ IF gBSGSQueue = <<>>
     THEN GotoB(b, "top") /\ UNCHANGED <<gBSGSQueue, candidate>>
     ELSE /\ candidate' = [candidate EXCEPT ![b] = Head(gBSGSQueue)]
          /\ gBSGSQueue' = Tail(gBSGSQueue)
          /\ GotoB(b, "got")
  /\ UNCHANGED <<inRange, todo, mailbox, locks, resolver, fallback, pushed, dropped, processed,
                 abandoned, results, control, taken>>

\* A candidate taken when the key is known is thrown away.
BsgsGot(b) ==
  /\ bpc[b] = "got"
  /\ IF gSaveAndExit \/ gSolved
     THEN /\ abandoned' = abandoned \cup {candidate[b]}
          /\ candidate' = [candidate EXCEPT ![b] = NoCollision]
          /\ GotoB(b, "top")
     ELSE GotoB(b, "search") /\ UNCHANGED <<abandoned, candidate>>
  /\ UNCHANGED <<inRange, todo, mailbox, locks, resolver, fallback, queue, processed, results,
                 control, taken>>

BsgsSearchEarly(b) ==
  /\ bpc[b] = "search"
  /\ IF BsgsFinds(candidate[b]) /\ inRange
     THEN gSolved' = TRUE /\ GotoB(b, "publish") /\ UNCHANGED gPrivKey
     ELSE GotoB(b, "count") /\ UNCHANGED results
  /\ UNCHANGED <<inRange, todo, mailbox, locks, resolver, fallback, queue, candidate, processed,
                 abandoned, control, taken>>

\* Collision_BSGS; a key out of range counts as a false positive.
BsgsSearch(b) ==
  /\ bpc[b] = "search"
  /\ IF BsgsFinds(candidate[b]) /\ inRange
     THEN gPrivKey' = TRUE /\ GotoB(b, "publish")
     ELSE GotoB(b, "count") /\ UNCHANGED gPrivKey
  /\ UNCHANGED <<inRange, todo, mailbox, locks, resolver, fallback, queue, candidate, processed,
                 abandoned, gSolved, control, taken>>

BsgsPublish(b) ==
  /\ bpc[b] = "publish"
  /\ gSolved' = TRUE
  /\ GotoB(b, "count")
  /\ UNCHANGED <<inRange, todo, mailbox, locks, resolver, fallback, queue, candidate, processed,
                 abandoned, gPrivKey, control, taken>>

BsgsCount(b) ==
  /\ bpc[b] = "count"
  /\ processed' = processed \cup {candidate[b]}
  /\ candidate' = [candidate EXCEPT ![b] = NoCollision]
  /\ GotoB(b, "top")
  /\ UNCHANGED <<inRange, todo, mailbox, locks, resolver, fallback, queue, abandoned, results,
                 control, taken>>

BSGSConsumerThread(b) ==
  BsgsTop(b) \/ BsgsTake(b) \/ BsgsGot(b) \/ BsgsSearch(b) \/ BsgsPublish(b) \/ BsgsCount(b)

-----------------------------------------------------------------------------
(* Ctrl+C, and the end of SolvePoint.                                      *)
\* CheckpointSignalHandler sets gSaveAndExit before gSolved.
Interrupt ==
  /\ ipc = "none" /\ mpc = "loop" /\ ~gSolved
  /\ gSaveAndExit' = TRUE
  /\ ipc' = "half"
  /\ UNCHANGED <<inRange, todo, mailbox, locks, resolver, fallback, queue, bsgs, results,
                 mpc, pk_res, gBSGSRunning, taken>>

InterruptSolved ==
  /\ ipc = "half"
  /\ gSolved' = TRUE
  /\ ipc' = "done"
  /\ UNCHANGED <<inRange, todo, mailbox, locks, resolver, fallback, queue, bsgs, gPrivKey,
                 gSaveAndExit, mpc, pk_res, gBSGSRunning, taken>>

\* StopWorkerThreads has joined the workers and stops the BSGS threads.
StopBSGSThread ==
  /\ mpc = "loop"
  /\ gSolved /\ PoolIdle
  /\ gBSGSRunning' = FALSE
  /\ mpc' = "join"
  /\ UNCHANGED <<inRange, todo, mailbox, locks, resolver, fallback, queue, bsgs, results,
                 gSaveAndExit, ipc, pk_res, taken>>

SolvePointReturns ==
  /\ mpc = "join"
  /\ \A b \in BsgsThreads : bpc[b] = "end"
  /\ pk_res' = (gSolved /\ ~gSaveAndExit)
  /\ mpc' = "end"
  /\ UNCHANGED <<inRange, todo, mailbox, locks, resolver, fallback, queue, bsgs, results,
                 gSaveAndExit, ipc, gBSGSRunning, taken>>

MainThread == StopBSGSThread \/ SolvePointReturns

Next ==
  \/ Interrupt \/ InterruptSolved \/ MainThread \/ CheckNewPoints
  \/ \E w \in Workers : WorkerThread(w)
  \/ \E b \in BsgsThreads : BSGSConsumerThread(b)

Spec == Init /\ [][Next]_vars

\* Threads are scheduled, a handler that began ends, and WILDs keep arriving:
\* a worker goes on checking DPs as long as the key is not known.
Fairness ==
  /\ \A w \in Workers : WF_vars(WorkerThread(w))
  /\ \A b \in BsgsThreads : WF_vars(BSGSConsumerThread(b))
  /\ WF_vars(CheckNewPoints) /\ WF_vars(MainThread) /\ WF_vars(InterruptSolved)

FairSpec == Spec /\ Fairness
-----------------------------------------------------------------------------
(* Properties.                                                             *)

Hand == Collisions \cup {NoCollision}

\* The control points of the one worker that resolves.
Exclusive == {"lock", "recheck", "get", "clear", "formulas", "push", "range", "publish", "unflag"}
Resolving == {w \in Workers : wpc[w] \in Exclusive}

\* Everything keeps its type, and the queue never outgrows BSGS_QUEUE_MAX.
TypeOK ==
  /\ inRange \in BOOLEAN
  /\ todo \subseteq Collisions
  /\ has_collision \in BOOLEAN /\ collision \in Hand
  /\ gCollisionBeingResolved \in BOOLEAN /\ mutexHeld \in BOOLEAN
  /\ wpc \in [Workers -> Exclusive \cup {"next", "cas", "unlock"}]
  /\ hand \in [Workers -> Hand]
  /\ fpc \in {"next", "get", "formulas", "publish", "push", "clear", "end"} /\ fhand \in Hand
  /\ gBSGSQueue \in Seq(Collisions) /\ Len(gBSGSQueue) <= QueueMax
  /\ bpc \in [BsgsThreads -> {"top", "wait", "got", "search", "publish", "count", "end"}]
  /\ candidate \in [BsgsThreads -> Hand]
  /\ {gPrivKey, gSolved, gSaveAndExit, gBSGSRunning, pk_res} \subseteq BOOLEAN
  /\ ipc \in {"none", "half", "done"} /\ mpc \in {"loop", "join", "end"}
  /\ taken \in [Collisions -> Nat]
  /\ \A h \in {pushed, dropped, processed, abandoned} : h \subseteq Collisions

\* At most one worker resolves at a time, and gCollisionBeingResolved is up
\* exactly while one does: no path out of the resolution forgets it, none
\* resets another worker's.
FlagExact ==
  /\ gCollisionBeingResolved <=> Resolving # {}
  /\ \A v, w \in Resolving : v = w

\* No report is resolved twice, however the reports, the tail checks and the
\* two kinds of resolver interleave: it is copied out of the mailbox once.
ResolvedOnce == \A c \in Collisions : taken[c] <= 1

\* gSolved without Ctrl+C means that gPrivKey holds a verified key: whoever
\* sets gSolved wrote the key first, and the handler announces itself first.
KeyBehindSolved == gSolved /\ ~gSaveAndExit => gPrivKey

\* The mutex is held exactly while one worker is between taking it and giving
\* it back: the winner of a compare-exchange that comes before the last
\* resolver has left waits for a worker that waits for nobody.
Locked == {w \in Workers : wpc[w] \in (Exclusive \ {"lock"}) \cup {"unlock"}}
MutexExact ==
  /\ mutexHeld <=> Locked # {}
  /\ \A v, w \in Locked : v = w

\* The key in gPrivKey comes from a collision that was taken out of the mailbox
\* and gave it to the formulas or, by way of the queue, to the search. One that
\* is out of range is never announced but by the caller of CheckNewPoints,
\* which does not look at the range, and SolvePoint returns none but a key that
\* was written and announced.
FoundIn(c) == taken[c] > 0 /\ (FormulasFind(c) \/ (c \in pushed /\ BsgsFinds(c)))
KeyGenuine ==
  /\ gPrivKey => \E c \in Collisions : FoundIn(c)
  /\ gSolved /\ ~gSaveAndExit /\ ~inRange => fpc = "end"
  /\ pk_res => gPrivKey /\ gSolved

\* The steps of a resolution that a worker at control point l has left at most.
ResolutionLeft(l) ==
  CASE l = "next" -> 0
    [] l = "unlock" -> 1
    [] l = "unflag" -> 2
    [] l \in {"publish", "push"} -> 3
    [] l = "range" -> 4
    [] l = "formulas" -> 5
    [] l = "clear" -> 6
    [] l = "get" -> 7
    [] l = "recheck" -> 8
    [] l = "lock" -> 9
    [] l = "cas" -> 10

\* A resolution never goes round in circles: each step of its worker lowers the
\* steps it has left, and nobody else's step touches them.
ResolutionEnds ==
  [][\A w \in Workers :
       \/ ResolutionLeft(wpc[w])' = ResolutionLeft(wpc[w])
       \/ WorkerThread(w) /\ (wpc[w] = "next" \/ ResolutionLeft(wpc[w])' < ResolutionLeft(wpc[w]))]_vars

\* A candidate for BSGS is in the queue, in the hands of a BSGS thread,
\* searched for, dropped as the oldest of a full queue, or thrown away once
\* the key is known. None is lost between the threads.
InQueue  == {gBSGSQueue[i] : i \in DOMAIN gBSGSQueue}
InHands  == {candidate[b] : b \in BsgsThreads} \ {NoCollision}
CandidatesKept ==
  /\ pushed = InQueue \cup InHands \cup processed \cup dropped \cup abandoned
  /\ abandoned # {} => gSolved \/ gSaveAndExit

\* The flag is reset on every path.
FlagReset == gCollisionBeingResolved ~> ~gCollisionBeingResolved

\* A report that its own worker could not resolve (another one was busy) is
\* picked up by a later check, which is told of it although it found nothing.
MailboxDrained == has_collision ~> (~has_collision \/ gSolved \/ gSaveAndExit)

\* A real collision that was taken out of the mailbox gives the key, unless
\* the queue dropped it, delta is one the search cannot find, or the key is so
\* small that the approximation is not positive.
GivesKey(c) ==
  inRange /\ taken[c] > 0 ~> (gSolved \/ gSaveAndExit \/ c \in dropped)

RealSolves ==
  \A c \in Collisions :
    c.real /\ InSearchRange(c.delta) /\ ~Unlucky(c.delta) /\ c.delta < PrivKey => GivesKey(c)
=============================================================================
