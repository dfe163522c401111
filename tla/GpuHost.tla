------------------------------ MODULE GpuHost ------------------------------
(***************************************************************************)
(* A GPU and the two threads that drive it (GpuKang.cpp, SolvePoint): the  *)
(* GPU thread places the kangaroos in Start and then calls the kernels     *)
(* over and over; the main thread places them anew in ReinitForHunt, when  *)
(* TRAP or the concurrent phase ends and at every wave, on the same host   *)
(* buffer and the same device memory and with no lock.  What the two ask   *)
(* of the device runs in the order in which it was asked (one stream): a   *)
(* copy, a memset or a kernel is one step.                                 *)
(*                                                                         *)
(* A point is what it is a sum of: `base', G alone, PntA or PntB, and      *)
(* `off', the multiple of G.  It is the point of its kangaroo when `off'   *)
(* is the distance, and of its type when `base' is.  The walk of a call is *)
(* Kernels' subject; here it is one jump.                                  *)
(***************************************************************************)
EXTENDS Integers, FiniteSets

CONSTANTS KangCnt,     \* kangaroos
          Modes,       \* modes of the program, of "trap", "concurrent", "allwild"
          MinJump,     \* smallest jump distance
          Hop(_, _),   \* random part of the jumps of a call, by their use
          Draw(_, _),  \* random number of a placement, by kangaroo
          Loops,       \* sets of kangaroos that may be looped in a call
          MaxCalls,    \* bound: calls of the kernels
          MaxDraws     \* bound: placements after which no wave begins

Kang == 0 .. KangCnt - 1
Uses == {"walk", "loop", "leave"}

ASSUME HostAssumption ==
    /\ KangCnt \in Nat /\ KangCnt >= 3
    /\ Modes \subseteq {"trap", "concurrent", "allwild"}
    /\ MinJump \in Nat
    /\ MaxCalls \in Nat /\ MaxDraws \in Nat
    /\ \A c \in 0 .. MaxCalls, u \in Uses : Hop(c, u) \in Nat
    /\ \A n \in 0 .. MaxDraws + 2, i \in Kang : Draw(n, i) \in Nat
    /\ Loops \subseteq SUBSET Kang

VARIABLES
    mode,         \* the mode of the program
    mpc, gpc,     \* where the main thread and the GPU thread are
    gSolved, gTrapPhase, gHuntPhase, gConcurrentTableFull,
    StopFlag, Failed, ThrCnt, gTotalErrors,
    IsGenMode, AllWildsMode,   \* Kparams
    kp,           \* Kparams as the call that runs has them
    mem,          \* RndPnts (and the device memory): "null", "live", "freed"
    rnd,          \* RndPnts: x and distance of every kangaroo
    kangs,        \* Kangs: point and distance of every kangaroo
    from,         \* the points before this call
    looped,       \* LoopedKangs
    out,          \* DPs_out (`i', the kangaroo, is history)
    calls, draws, \* calls and placements so far
    mixed,        \* history: Start has overwritten RndPnts of a ReinitForHunt
    torn,         \* history: see PointsTrue
    stale         \* history: the flags are not those of the placement

flags  == <<mode, gTrapPhase, gHuntPhase, gConcurrentTableFull>>
params == <<IsGenMode, AllWildsMode>>
device == <<kangs, from, looped, out, calls>>
host   == <<mem, rnd, draws, mixed>>
thread == <<StopFlag, Failed, ThrCnt, gTotalErrors>>
vars == <<flags, mpc, gpc, gSolved, thread, params, kp, host, device, torn, stale>>

----------------------------------------------------------------------------
\* data[0] &= 0x...FE
Even(n) == n - (n % 2)

\* An entry of a jump table.
JumpDist(t) == Even(MinJump + t)
Jump(c, u) == JumpDist(Hop(c, u))

\* BuildDP: the type it writes beside a DP.
Label_Index(i, wilds) == IF wilds THEN 1 + i ELSE (3 * i) \div KangCnt
Label(i, wilds) == IF wilds THEN 1 + (i % 2) ELSE (3 * i) \div KangCnt

\* Start: TAMEs have no start point, the others PntA or PntB.
StartBase(i) == IF i < KangCnt \div 3 THEN "none"
                ELSE IF i < (2 * KangCnt) \div 3 THEN "A" ELSE "B"

\* ReinitForHunt: no TAMEs.
HuntBase_Swapped(i) == IF i % 2 = 1 THEN "A" ELSE "B"
HuntBase(i) == IF i % 2 = 1 THEN "B" ELSE "A"

GenerateRndDistances(i) ==
    IF i < KangCnt \div 3 THEN Draw(draws, i) ELSE Even(Draw(draws, i))

GenerateSmartWildDistances(i) == Even(Draw(draws, i))

\* KernelGen: the start points from the distances.
KernelGen_NoGenMode(ks) ==
    [i \in Kang |->
       [x |-> IF AllWildsMode \/ i >= KangCnt \div 3
              THEN [base |-> ks[i].x.base, off |-> ks[i].x.off + ks[i].d]
              ELSE [base |-> "G", off |-> ks[i].d],
        d |-> ks[i].d]]
KernelGen(ks) ==
    [i \in Kang |->
       [x |-> IF ~IsGenMode /\ (AllWildsMode \/ i >= KangCnt \div 3)
              THEN [base |-> ks[i].x.base, off |-> ks[i].x.off + ks[i].d]
              ELSE [base |-> "G", off |-> ks[i].d],
        d |-> ks[i].d]]

\* The copy of RndPnts to the device.
Copied == [i \in Kang |-> [x |-> [base |-> rnd[i].x, off |-> 0], d |-> rnd[i].d]]

Reiniting == mpc \in {"place", "copy", "gen", "clear"}
Starting  == gpc \in {"start", "copy", "gen", "clear"}
Midway    == gpc \in {"B", "C"}

----------------------------------------------------------------------------
Init ==
    /\ mode \in Modes
    /\ mpc = "prepare" /\ gpc = "none"
    /\ gSolved = FALSE
    /\ gTrapPhase = (mode = "trap") /\ gHuntPhase = (mode = "allwild")
    /\ gConcurrentTableFull = FALSE
    /\ StopFlag = FALSE /\ Failed = FALSE /\ ThrCnt = 0 /\ gTotalErrors = 0
    /\ IsGenMode = FALSE /\ AllWildsMode = FALSE
    /\ kp = [gen |-> FALSE, wilds |-> FALSE]
    /\ mem = "null" /\ rnd = [i \in Kang |-> [x |-> "none", d |-> 0]]
    /\ kangs = Copied /\ from = [i \in Kang |-> kangs[i].x]
    /\ looped = {} /\ out = {} /\ calls = 0 /\ draws = 0
    /\ mixed = FALSE /\ torn = FALSE /\ stale = FALSE

----------------------------------------------------------------------------
(* The main thread.                                                        *)

\* Prepare, which may fail.  gGenMode holds in TRAP only.
Prepare ==
    /\ mpc = "prepare"
    /\ Failed' \in BOOLEAN
    /\ IsGenMode' = (mode = "trap") /\ AllWildsMode' = FALSE
    /\ mpc' = IF mode = "allwild" THEN "place" ELSE "create"
    /\ UNCHANGED <<flags, gpc, gSolved, StopFlag, ThrCnt, gTotalErrors, kp, host,
                   device, torn, stale>>

\* SolvePoint starts the GPU thread and enters its loop.
CreateThread ==
    /\ mpc = "create"
    /\ ThrCnt' = 1 /\ gpc' = "start" /\ mpc' = "loop"
    /\ UNCHANGED <<flags, gSolved, StopFlag, Failed, gTotalErrors, params, kp, host,
                   device, torn, stale>>

\* Where SolvePoint goes on after ReinitForHunt, whatever that returned.
AfterReinit == IF gpc = "none" THEN "create" ELSE "loop"

\* ReinitForHunt up to the copy.
ReinitPlace ==
    /\ mpc = "place"
    /\ mem' = IF mem = "null" THEN "live" ELSE mem
    /\ IsGenMode' = FALSE /\ AllWildsMode' = TRUE
    /\ rnd' = [i \in Kang |->
                 [x |-> HuntBase(i), d |-> GenerateSmartWildDistances(i)]]
    /\ draws' = draws + 1
    /\ mpc' = "copy"
    /\ mixed' = FALSE
    /\ torn' = (torn \/ Starting)
    /\ UNCHANGED <<flags, gpc, gSolved, thread, kp, device, stale>>

\* cudaSetDevice or the copy fails.
ReinitFails ==
    /\ mpc \in {"place", "copy"}
    /\ mpc' = AfterReinit
    /\ stale' = (stale \/ mpc = "copy")
    /\ UNCHANGED <<flags, gpc, gSolved, thread, params, kp, host, device, torn>>

ReinitCopy ==
    /\ mpc = "copy"
    /\ kangs' = Copied
    /\ mpc' = "gen"
    /\ torn' = (Starting \/ Midway \/ mixed)
    /\ stale' = (gpc = "A" /\ ~kp.wilds)
    /\ UNCHANGED <<flags, gpc, gSolved, thread, params, kp, host, from, looped,
                   out, calls>>

ReinitGen ==
    /\ mpc = "gen"
    /\ kangs' = KernelGen(kangs)
    /\ mpc' = "clear"
    /\ torn' = (torn \/ Starting \/ Midway)
    /\ UNCHANGED <<flags, gpc, gSolved, thread, params, kp, host, from, looped,
                   out, calls, stale>>

\* DPTable, LoopTable, LoopedKangs.
ReinitClear ==
    /\ mpc = "clear"
    /\ looped' = {}
    /\ mpc' = AfterReinit
    /\ torn' = (torn \/ (gpc = "C" /\ looped # {}))
    /\ UNCHANGED <<flags, gpc, gSolved, thread, params, kp, host, kangs, from, out,
                   calls, stale>>

\* The table is full or frozen.
Switch ==
    /\ mpc = "loop" /\ ~gSolved
    /\ \/ /\ gTrapPhase
          /\ gTrapPhase' = FALSE /\ gHuntPhase' = TRUE
          /\ UNCHANGED gConcurrentTableFull
       \/ /\ mode = "concurrent" /\ ~gConcurrentTableFull
          /\ gConcurrentTableFull' = TRUE /\ gHuntPhase' = TRUE
          /\ UNCHANGED gTrapPhase
    /\ mpc' = "place"
    /\ UNCHANGED <<mode, gpc, gSolved, thread, params, kp, host, device, torn, stale>>

\* A new wave.
Wave ==
    /\ mpc = "loop" /\ ~gSolved /\ gHuntPhase /\ draws < MaxDraws
    /\ mpc' = "place"
    /\ UNCHANGED <<flags, gpc, gSolved, thread, params, kp, host, device, torn, stale>>

SaveAndExit_Continues ==
    /\ mpc = "loop" /\ ~gSolved
    /\ StopFlag' = TRUE
    /\ UNCHANGED <<flags, mpc, gpc, gSolved, Failed, ThrCnt, gTotalErrors, params, kp,
                   host, device, torn, stale>>

\* gSaveAndExit: the GPUs are stopped, all is saved and the loop left.
SaveAndExit ==
    /\ mpc = "loop" /\ ~gSolved
    /\ StopFlag' = TRUE
    /\ mpc' = "stop"
    /\ UNCHANGED <<flags, gpc, gSolved, Failed, ThrCnt, gTotalErrors, params, kp,
                   host, device, torn, stale>>

LoopEnds ==
    /\ mpc = "loop" /\ gSolved
    /\ mpc' = "stop"
    /\ UNCHANGED <<flags, gpc, gSolved, thread, params, kp, host, device, torn, stale>>

Stop ==
    /\ mpc = "stop"
    /\ StopFlag' = TRUE
    /\ mpc' = "join"
    /\ UNCHANGED <<flags, gpc, gSolved, Failed, ThrCnt, gTotalErrors, params, kp,
                   host, device, torn, stale>>

Join ==
    /\ mpc = "join" /\ ThrCnt = 0
    /\ mpc' = "end"
    /\ UNCHANGED <<flags, gpc, gSolved, thread, params, kp, host, device, torn, stale>>

ReinitForHunt == ReinitPlace \/ ReinitFails \/ ReinitCopy \/ ReinitGen \/ ReinitClear

SolvePoint == Prepare \/ CreateThread \/ ReinitForHunt \/ LoopEnds \/ Stop \/ Join

\* The key is found.
Solve ==
    /\ ~gSolved /\ mpc # "prepare"
    /\ gSolved' = TRUE
    /\ UNCHANGED <<flags, mpc, gpc, thread, params, kp, host, device, torn, stale>>

----------------------------------------------------------------------------
(* The GPU thread.                                                         *)

\* Start fails: Execute returns and releases nothing.
StartFails ==
    /\ gpc \in {"start", "copy", "clear"}
    /\ gTotalErrors' = gTotalErrors + 1
    /\ gpc' = "exit"
    /\ UNCHANGED <<flags, mpc, gSolved, StopFlag, Failed, ThrCnt, params, kp, host,
                   device, torn, stale>>

StartPlace ==
    /\ gpc = "start" /\ ~Failed
    /\ mem' = "live"
    /\ rnd' = [i \in Kang |-> [x |-> StartBase(i), d |-> GenerateRndDistances(i)]]
    /\ draws' = draws + 1
    /\ gpc' = "copy"
    /\ mixed' = Reiniting
    /\ torn' = (torn \/ AllWildsMode \/ Reiniting)
    /\ UNCHANGED <<flags, mpc, gSolved, thread, params, kp, device, stale>>

StartCopy ==
    /\ gpc = "copy"
    /\ kangs' = Copied
    /\ gpc' = "gen"
    /\ torn' = (torn \/ AllWildsMode \/ Reiniting)
    /\ UNCHANGED <<flags, mpc, gSolved, thread, params, kp, host, from, looped, out,
                   calls, stale>>

StartGen ==
    /\ gpc = "gen"
    /\ kangs' = KernelGen(kangs)
    /\ gpc' = "clear"
    /\ torn' = (torn \/ AllWildsMode \/ Reiniting)
    /\ UNCHANGED <<flags, mpc, gSolved, thread, params, kp, host, from, looped, out,
                   calls, stale>>

\* L1S2 and LoopTable.
StartClear ==
    /\ gpc = "clear"
    /\ gpc' = "loop"
    /\ UNCHANGED <<flags, mpc, gSolved, thread, params, kp, host, device, torn, stale>>

\* Execute: the memsets, and CallGpuKernelABC, which copies Kparams.
Launch ==
    /\ gpc = "loop" /\ ~StopFlag /\ calls < MaxCalls
    /\ calls' = calls + 1
    /\ out' = {} /\ looped' = {}
    /\ kp' = [gen |-> IsGenMode, wilds |-> AllWildsMode]
    /\ gpc' = "A"
    /\ stale' = (stale \/ mpc = "copy")
    /\ UNCHANGED <<flags, mpc, gSolved, thread, params, host, kangs, from, torn>>

Moved(x, n) == [x EXCEPT !.off = @ + n]

KernelA ==
    /\ gpc = "A"
    /\ from' = [i \in Kang |-> kangs[i].x]
    /\ kangs' = [i \in Kang |->
                   [kangs[i] EXCEPT !.x = Moved(@, Jump(calls, "walk"))]]
    /\ gpc' = "B"
    /\ torn' = (torn \/ mpc = "gen")
    /\ UNCHANGED <<flags, mpc, gSolved, thread, params, kp, host, looped, out, calls,
                   stale>>

\* Every kangaroo that is not looped has met a DP, at the end of the walk.
KernelB ==
    /\ gpc = "B"
    /\ \E L \in Loops :
         LET d(i) == kangs[i].d + Jump(calls, IF i \in L THEN "loop" ELSE "walk")
         IN  /\ looped' = L
             /\ kangs' = [i \in Kang |-> [kangs[i] EXCEPT !.d = d(i)]]
             /\ out' = {[x |-> Moved(from[i], Jump(calls, "walk")), d |-> d(i),
                         type |-> Label(i, kp.wilds), i |-> i] : i \in Kang \ L}
    /\ gpc' = "C"
    /\ UNCHANGED <<flags, mpc, gSolved, thread, params, kp, host, from, calls, torn,
                   stale>>

KernelC_FromEnd ==
    /\ gpc = "C"
    /\ kangs' = [i \in Kang |->
         IF i \in looped
         THEN [x |-> Moved(kangs[i].x, Jump(calls, "leave")),
               d |-> kangs[i].d + Jump(calls, "leave")]
         ELSE kangs[i]]
    /\ gpc' = "read"
    /\ UNCHANGED <<flags, mpc, gSolved, thread, params, kp, host, from, looped, out,
                   calls, torn, stale>>

\* A looped kangaroo jumps away from its loop.
KernelC ==
    /\ gpc = "C"
    /\ kangs' = [i \in Kang |->
         IF i \in looped
         THEN [x |-> Moved(from[i], Jump(calls, "loop") + Jump(calls, "leave")),
               d |-> kangs[i].d + Jump(calls, "leave")]
         ELSE kangs[i]]
    /\ gpc' = "read"
    /\ UNCHANGED <<flags, mpc, gSolved, thread, params, kp, host, from, looped, out,
                   calls, torn, stale>>

\* The DPs are copied and handed to AddPointsToList.
ReadDPs ==
    /\ gpc = "read"
    /\ gpc' = "loop"
    /\ UNCHANGED <<flags, mpc, gSolved, thread, params, kp, host, device, torn, stale>>

\* A copy, or a kernel before it, has failed.
ReadFails ==
    /\ gpc = "read"
    /\ gTotalErrors' = gTotalErrors + 1
    /\ gpc' = "release"
    /\ UNCHANGED <<flags, mpc, gSolved, StopFlag, Failed, ThrCnt, params, kp, host,
                   device, torn, stale>>

SeesStop ==
    /\ gpc = "loop" /\ StopFlag
    /\ gpc' = "release"
    /\ UNCHANGED <<flags, mpc, gSolved, thread, params, kp, host, device, torn, stale>>

Release ==
    /\ gpc = "release"
    /\ mem' = "freed"
    /\ gpc' = "exit"
    /\ UNCHANGED <<flags, mpc, gSolved, thread, params, kp, rnd, draws, mixed, device,
                   torn, stale>>

ThreadEnd_AfterReleaseOnly ==
    /\ gpc = "exit"
    /\ ThrCnt' = IF mem = "freed" THEN ThrCnt - 1 ELSE ThrCnt
    /\ gpc' = "end"
    /\ UNCHANGED <<flags, mpc, gSolved, StopFlag, Failed, gTotalErrors, params, kp,
                   host, device, torn, stale>>

\* kang_thr_proc after Execute.
ThreadEnd ==
    /\ gpc = "exit"
    /\ ThrCnt' = ThrCnt - 1
    /\ gpc' = "end"
    /\ UNCHANGED <<flags, mpc, gSolved, StopFlag, Failed, gTotalErrors, params, kp,
                   host, device, torn, stale>>

Start == StartFails \/ StartPlace \/ StartCopy \/ StartGen \/ StartClear

Execute ==
    \/ Start
    \/ Launch \/ KernelA \/ KernelB \/ KernelC
    \/ ReadDPs \/ ReadFails \/ SeesStop \/ Release

Next ==
    \/ SolvePoint \/ Switch \/ Wave \/ SaveAndExit \/ Solve
    \/ Execute \/ ThreadEnd

Spec == Init /\ [][Next]_vars

\* Both threads are scheduled again and again; nothing makes the table full,
\* a wave due, the user stop the program or the key be found.
FairSpec == Spec /\ WF_vars(SolvePoint) /\ WF_vars(Execute \/ ThreadEnd)

----------------------------------------------------------------------------
Base == {"none", "G", "A", "B"}

HostTypeOK ==
    /\ mode \in Modes
    /\ mpc \in {"prepare", "place", "copy", "gen", "clear", "create", "loop",
                "stop", "join", "end"}
    /\ gpc \in {"none", "start", "copy", "gen", "clear", "loop", "A", "B", "C",
                "read", "release", "exit", "end"}
    /\ {gSolved, gTrapPhase, gHuntPhase, gConcurrentTableFull, StopFlag, Failed,
        IsGenMode, AllWildsMode, mixed, torn, stale} \subseteq BOOLEAN
    /\ ThrCnt \in 0 .. 1 /\ gTotalErrors \in 0 .. 1
    /\ kp \in [gen : BOOLEAN, wilds : BOOLEAN]
    /\ mem \in {"null", "live", "freed"}
    /\ rnd \in [Kang -> [x : Base \ {"G"}, d : Nat]]
    /\ kangs \in [Kang -> [x : [base : Base, off : Nat], d : Nat]]
    /\ from \in [Kang -> [base : Base, off : Nat]]
    /\ looped \subseteq Kang
    /\ out \subseteq [x : [base : Base, off : Nat], d : Nat, type : 0 .. 2, i : Kang]
    /\ calls \in 0 .. MaxCalls /\ draws \in 0 .. MaxDraws + 2

(***************************************************************************)
(* The windows in which the two threads harm each other, and no others:    *)
(* the placement of ReinitForHunt overlaps that of Start or comes before   *)
(* it; KernelA walks between the copy and KernelGen; the copy or KernelGen *)
(* falls between KernelA and KernelC; LoopedKangs, which holds a kangaroo, *)
(* is cleared between KernelB and KernelC (a wave between two calls clears *)
(* it too, and does no harm).  Outside of them, whatever was called, every *)
(* kangaroo that is placed lies at its distance between two calls of the   *)
(* kernels, and a later placement repairs what one of them has torn.       *)
(***************************************************************************)
PointsTrue ==
    gpc \in {"loop", "A", "read"} /\ mpc # "gen" =>
        torn \/ \A i \in Kang : kangs[i].x.off = kangs[i].d

\* The type of a point.
TypeOfBase(base) ==
    IF base = "G" THEN 0 ELSE IF base = "A" THEN 1 ELSE IF base = "B" THEN 2 ELSE 3

(***************************************************************************)
(* A DP is right when its point lies at its distance from the start point  *)
(* its type names; and the distance of a WILD is even, which the formula   *)
(* for two WILDs halves the difference of (Collision_SOTA).                *)
(***************************************************************************)
Right(r) ==
    /\ r.x.off = r.d
    /\ r.type = TypeOfBase(r.x.base)
    /\ r.type # 0 => r.d % 2 = 0

\* Start divides 3 into KangCnt, BuildDP KangCnt into 3i: unless KangCnt is a
\* multiple of 3 (with the 16, 32 or 64 points of a group of old GPUs it is
\* not), the two differ at the first kangaroo of each kind of WILD.
OnBorder(i) ==
    KangCnt % 3 # 0 /\ i \in {KangCnt \div 3, (2 * KangCnt) \div 3}

\* The DP of such a WILD is true but for its type: the one before.
OneBelow(r) ==
    /\ r.x.off = r.d /\ r.d % 2 = 0
    /\ r.type = TypeOfBase(r.x.base) - 1

\* The DPs of a call that was made for WILDs by thirds, or by parity, come
\* from kangaroos placed that way: they are right, except those of the two
\* kangaroos on the borders of the thirds; and except in the windows of
\* PointsTrue and when the flags and the placement differ because the call
\* was made inside ReinitForHunt or its copy failed.
DPsRight ==
    gpc = "C" /\ ~kp.gen =>
        \/ torn \/ stale
        \/ \A r \in out : IF ~kp.wilds /\ OnBorder(r.i) THEN OneBelow(r) ELSE Right(r)

\* While TRAP files every DP as a TAME whatever its type, every DP is one of
\* a TAME, at its distance: with no exception.
TrapFilesTames ==
    gTrapPhase => \A r \in out : r.x.base = "G" /\ r.x.off = r.d

\* ReinitForHunt works on RndPnts and on device memory that the GPU thread
\* releases: it finds them released only after a CUDA call has failed.
NoUseAfterRelease ==
    Reiniting /\ mem = "freed" => gTotalErrors > 0

\* The end is reached although the main thread waits for a GPU thread that may
\* fail in Start, in a kernel or in a copy, and may be anywhere in its loop.
Shutdown == gSolved ~> mpc = "end"

(***************************************************************************)
(* In ALL-WILD mode too the placement must match BuildDP's types           *)
(* (GpuKang.cpp 613).                                                      *)
(***************************************************************************)
AllWildLabels ==
    mode = "allwild" /\ gpc = "C" => stale \/ \A r \in out : Right(r)

============================================================================
