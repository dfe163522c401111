--------------------------- MODULE GpuHostProofs ---------------------------
(***************************************************************************)
(* Proofs about GpuHost.                                                   *)
(*                                                                         *)
(* The invariant has three parts.  Control says how far one thread can be  *)
(* while the other is where it is, and what the flags are there; Data is   *)
(* the types; Windows says, of every place of the two threads at once,     *)
(* what the kangaroos on the device are unless `torn' or `stale' holds:    *)
(* as they were copied, as KernelGen has left them, or between KernelA and *)
(* KernelC.  PointsTrue and DPsRight alone are not inductive: what a call  *)
(* of the kernels leaves depends on all that Start and ReinitForHunt have  *)
(* done before it.                                                         *)
(***************************************************************************)
EXTENDS GpuHost, TLAPS

AtReinit == {"place", "copy", "gen", "clear"}
AtGpu == {"none", "start", "copy", "gen", "clear", "loop", "A", "B", "C",
          "read", "release", "exit", "end"}
AtMain == AtReinit \union {"prepare", "create", "loop", "stop", "join", "end"}

ControlTypes ==
    /\ mode \in Modes /\ mode \in {"trap", "concurrent", "allwild"}
    /\ mpc \in AtMain /\ gpc \in AtGpu
    /\ gSolved \in BOOLEAN /\ gTrapPhase \in BOOLEAN /\ gHuntPhase \in BOOLEAN
    /\ gConcurrentTableFull \in BOOLEAN
    /\ StopFlag \in BOOLEAN /\ Failed \in BOOLEAN
    /\ IsGenMode \in BOOLEAN /\ AllWildsMode \in BOOLEAN
    /\ kp \in [gen : BOOLEAN, wilds : BOOLEAN]
    /\ mem \in {"null", "live", "freed"}
    /\ mixed \in BOOLEAN /\ torn \in BOOLEAN /\ stale \in BOOLEAN
    /\ gTotalErrors \in 0 .. 1

\* Where the two threads can be.
Places ==
    /\ mpc \in {"prepare", "create"} => gpc = "none"
    /\ gpc = "none" => mpc \in AtReinit \union {"prepare", "create"}
    /\ ThrCnt = IF gpc \in {"none", "end"} THEN 0 ELSE 1
    /\ gTotalErrors = 1 => gpc \in {"release", "exit", "end"}
    /\ StopFlag => mpc \in {"stop", "join", "end"}
    /\ gpc = "release" \/ mem = "freed" => StopFlag \/ gTotalErrors = 1

\* The phases, and the flags of Kparams in each.
Phases ==
    /\ gTrapPhase => mode = "trap" /\ mpc \notin AtReinit /\ ~gHuntPhase
    /\ gTrapPhase => mpc = "prepare" \/ IsGenMode
    /\ gTrapPhase => ~AllWildsMode
    /\ mode = "allwild" => gHuntPhase
    /\ mode = "concurrent" /\ ~gConcurrentTableFull => ~gHuntPhase
    /\ mpc \in AtReinit => gHuntPhase
    /\ mpc \in AtReinit \ {"place"} => AllWildsMode /\ ~IsGenMode
    /\ IsGenMode => ~AllWildsMode
    /\ kp.gen => ~kp.wilds

\* Placements still to come: Start's, ReinitForHunt's.
Due == IF gpc \in {"none", "start"} THEN 1 ELSE 0
DueHunt == IF mpc = "place" THEN 1 ELSE 0

Counts ==
    /\ calls \in 0 .. MaxCalls /\ draws \in Nat
    /\ draws + Due + DueHunt <= MaxDraws + 2
    /\ ~gHuntPhase => draws + Due <= 1
    /\ mpc = "prepare" => draws = 0

Control == ControlTypes /\ Places /\ Phases /\ Counts

Data ==
    /\ rnd \in [Kang -> [x : Base \ {"G"}, d : Nat]]
    /\ kangs \in [Kang -> [x : [base : Base, off : Nat], d : Nat]]
    /\ from \in [Kang -> [base : Base, off : Nat]]
    /\ looped \subseteq Kang
    /\ out \subseteq [x : [base : Base, off : Nat], d : Nat, type : 0 .. 2, i : Kang]

----------------------------------------------------------------------------
(* What the arrays hold.                                                   *)

HuntDrawn(r) == \A i \in Kang : r[i].x = HuntBase(i) /\ r[i].d % 2 = 0
StartDrawn(r) ==
    \A i \in Kang : /\ r[i].x = StartBase(i)
                    /\ i >= KangCnt \div 3 => r[i].d % 2 = 0

\* As they were copied to the device.
HuntLaid(ks) ==
    \A i \in Kang : /\ ks[i].x = [base |-> HuntBase(i), off |-> 0]
                    /\ ks[i].d % 2 = 0
StartLaid(ks) ==
    \A i \in Kang : /\ ks[i].x = [base |-> StartBase(i), off |-> 0]
                    /\ i >= KangCnt \div 3 => ks[i].d % 2 = 0

AllAt(ks) == \A i \in Kang : ks[i].x.off = ks[i].d

\* The base of a kangaroo that was placed under the flags.
BaseOf(wilds, gen, i) ==
    IF gen THEN "G"
    ELSE IF wilds THEN HuntBase(i)
    ELSE IF i < KangCnt \div 3 THEN "G" ELSE StartBase(i)

Laid(ks, wilds, gen) ==
    \A i \in Kang : /\ ks[i].x.base = BaseOf(wilds, gen, i)
                    /\ BaseOf(wilds, gen, i) # "G" => ks[i].d % 2 = 0

\* After KernelA, and after KernelB.
AfterA(ks, fr, c) ==
    \A i \in Kang : /\ fr[i].off = ks[i].d
                    /\ ks[i].x = Moved(fr[i], Jump(c, "walk"))
AfterB(ks, fr, lp, c) ==
    \A i \in Kang : IF i \in lp
                    THEN /\ fr[i].base = ks[i].x.base
                         /\ ks[i].d = fr[i].off + Jump(c, "loop")
                    ELSE ks[i].x.off = ks[i].d

\* What DPsRight says of the records of a call made under the flag w.
OutRight(o, w) ==
    \A r \in o : IF ~w /\ OnBorder(r.i) THEN OneBelow(r) ELSE Right(r)
OutTames(o) == \A r \in o : r.x.base = "G" /\ r.x.off = r.d

----------------------------------------------------------------------------
\* `torn' and `stale' hold where the threads are in each other's way.
TornThere ==
    /\ Starting /\ mpc \in AtReinit \ {"place"} => torn
    /\ gpc \in {"copy", "gen", "clear"} => torn \/ ~AllWildsMode
    /\ mpc = "gen" /\ gpc \in {"B", "C"} => torn
    /\ mpc = "gen" /\ gpc = "A" => stale \/ kp.wilds
    /\ gpc \in {"A", "B", "C"} /\ mpc # "copy" =>
         torn \/ stale \/ (kp.wilds = AllWildsMode /\ kp.gen = IsGenMode)
    /\ gTrapPhase => ~torn /\ ~stale

\* The kangaroos while they are being placed.
Placing ==
    /\ gpc = "copy" => torn \/ StartDrawn(rnd)
    /\ mpc = "copy" => mixed \/ HuntDrawn(rnd)
    /\ gpc = "gen" => torn \/ StartLaid(kangs)
    /\ mpc = "gen" => torn \/ HuntLaid(kangs)

\* The points against the distances.
Points ==
    /\ gpc \in {"clear", "loop", "A", "read"} /\ mpc # "gen" =>
         torn \/ AllAt(kangs)
    /\ gpc = "B" => torn \/ AfterA(kangs, from, calls)
    /\ gpc = "C" => torn \/ AfterB(kangs, from, looped, calls)

\* The start points against the flags.
Kinds ==
    /\ gpc \in {"clear", "loop", "read"} /\ mpc \notin {"copy", "gen"} =>
         torn \/ stale \/ Laid(kangs, AllWildsMode, IsGenMode)
    /\ gpc \in {"A", "B", "C"} /\ mpc # "gen" =>
         torn \/ stale \/ Laid(kangs, kp.wilds, kp.gen)

Outputs ==
    /\ gpc = "C" /\ ~kp.gen => torn \/ stale \/ OutRight(out, kp.wilds)
    /\ gTrapPhase => OutTames(out)

Windows == TornThere /\ Placing /\ Points /\ Kinds /\ Outputs

IInv == Control /\ Data /\ Windows

----------------------------------------------------------------------------
(* Numbers.                                                                *)

LEMMA EvenJump ==
    ASSUME NEW c \in 0 .. MaxCalls, NEW u \in Uses
    PROVE  Jump(c, u) \in Nat /\ Jump(c, u) % 2 = 0
<1>. DEFINE n == MinJump + Hop(c, u)
<1>1. n \in Nat
    BY HostAssumption
<1>2. \A m \in Nat : m - (m % 2) \in Nat /\ (m - (m % 2)) % 2 = 0
    OBVIOUS
<1>. QED
    BY <1>1, <1>2 DEF Jump, JumpDist, Even

LEMMA EvenDraw ==
    ASSUME NEW n \in Nat
    PROVE  Even(n) \in Nat /\ Even(n) % 2 = 0
    BY DEF Even

\* The labels by thirds are those of the start points, but for the first
\* kangaroo of each kind of WILD when the kangaroos cannot be divided into
\* three: it has the label before (BuildDP against RCGpuKang::Start).
THEOREM Thirds ==
    ASSUME NEW i \in Kang
    PROVE  /\ StartBase(i) = "none" => Label(i, FALSE) = 0 /\ ~OnBorder(i)
           /\ StartBase(i) # "none" /\ ~OnBorder(i) =>
                Label(i, FALSE) = TypeOfBase(StartBase(i))
           /\ StartBase(i) # "none" /\ OnBorder(i) =>
                Label(i, FALSE) = TypeOfBase(StartBase(i)) - 1
<1>0. SUFFICES ASSUME NEW l, l = Label(i, FALSE)
               PROVE  /\ StartBase(i) = "none" => l = 0 /\ ~OnBorder(i)
                      /\ StartBase(i) # "none" /\ ~OnBorder(i) =>
                           l = TypeOfBase(StartBase(i))
                      /\ StartBase(i) # "none" /\ OnBorder(i) =>
                           l = TypeOfBase(StartBase(i)) - 1
    BY Zenon
<1>1. PICK k \in Nat, t \in Nat, e \in 0 .. 2 : k = KangCnt /\ k = 3 * t + e
    <2>1. KangCnt = 3 * (KangCnt \div 3) + (KangCnt % 3)
          /\ KangCnt \div 3 \in Nat /\ KangCnt % 3 \in 0 .. 2 /\ KangCnt \in Nat
        BY HostAssumption
    <2>. QED
        BY <2>1
<1>2. i \in Nat /\ i < k /\ t > 0
    BY <1>1, HostAssumption DEF Kang
<1>3. PICK u \in Nat : u = (2 * k) \div 3 /\ u = IF e = 2 THEN 2 * t + 1 ELSE 2 * t
    BY <1>1
<1>4. k \div 3 = t /\ (k % 3 = 0 <=> e = 0)
    BY <1>1
<1>5. /\ OnBorder(i) <=> e # 0 /\ i \in {t, u}
      /\ StartBase(i) = IF i < t THEN "none" ELSE IF i < u THEN "A" ELSE "B"
    BY <1>1, <1>3, <1>4 DEF OnBorder, StartBase
<1>6. /\ 3 * i < k => (3 * i) \div k = 0
      /\ k <= 3 * i /\ 3 * i < 2 * k => (3 * i) \div k = 1
      /\ 2 * k <= 3 * i => (3 * i) \div k = 2
    <2>0. PICK j \in Nat : j = 3 * i /\ j < 3 * k /\ k > 0
        BY <1>1, <1>2
    <2>1. ASSUME j < k PROVE j \div k = 0
        BY <2>0, <2>1
    <2>2. ASSUME k <= j, j < 2 * k PROVE j \div k = 1
        BY <2>0, <2>2
    <2>3. ASSUME 2 * k <= j PROVE j \div k = 2
        BY <2>0, <2>3
    <2>. QED
        BY <2>0, <2>1, <2>2, <2>3
<1>7. /\ 3 * i < k => l = 0
      /\ k <= 3 * i /\ 3 * i < 2 * k => l = 1
      /\ 2 * k <= 3 * i => l = 2
    <2>1. l = (3 * i) \div k
        BY <1>0, <1>1, Zenon DEF Label
    <2>. QED
        BY <1>6, <2>1, Zenon
<1>8. /\ e = 2 => u = 2 * t + 1
      /\ e # 2 => u = 2 * t
      /\ t < u /\ e \in {0, 1, 2}
    BY <1>1, <1>2, <1>3
<1>9. CASE i < t
    <2>1. l = 0 /\ i # t /\ i # u
        BY <1>1, <1>2, <1>7, <1>8, <1>9
    <2>. QED
        BY <1>5, <1>7, <1>9, <2>1
<1>10. CASE t <= i /\ i < u
    <2>1. StartBase(i) = "A" /\ TypeOfBase("A") = 1
        BY <1>2, <1>5, <1>10 DEF TypeOfBase
    <2>2. i # u
        BY <1>2, <1>10
    <2>3. CASE e # 0 /\ i = t
        <3>1. 3 * i < k
            BY <1>1, <1>2, <2>3
        <3>2. OnBorder(i) /\ l = 0
            BY <1>5, <1>7, <2>3, <3>1
        <3>. QED
            BY <2>1, <3>2
    <2>4. CASE ~(e # 0 /\ i = t)
        <3>1. k <= 3 * i /\ 3 * i < 2 * k
            BY <1>1, <1>2, <1>8, <1>10, <2>4
        <3>2. ~OnBorder(i) /\ l = 1
            BY <1>5, <1>7, <2>2, <2>4, <3>1
        <3>. QED
            BY <2>1, <3>2
    <2>. QED
        BY <2>3, <2>4
<1>11. CASE u <= i
    <2>1. StartBase(i) = "B" /\ TypeOfBase("B") = 2
        BY <1>2, <1>5, <1>8, <1>11 DEF TypeOfBase
    <2>2. i # t
        BY <1>2, <1>8, <1>11
    <2>3. CASE e # 0 /\ i = u
        <3>1. k <= 3 * i /\ 3 * i < 2 * k
            BY <1>1, <1>2, <1>8, <2>3
        <3>2. OnBorder(i) /\ l = 1
            BY <1>5, <1>7, <2>3, <3>1
        <3>. QED
            BY <2>1, <3>2
    <2>4. CASE ~(e # 0 /\ i = u)
        <3>1. 2 * k <= 3 * i
            BY <1>1, <1>2, <1>8, <1>11, <2>4
        <3>2. ~OnBorder(i) /\ l = 2
            BY <1>5, <1>7, <2>2, <2>4, <3>1
        <3>. QED
            BY <2>1, <3>2
    <2>. QED
        BY <2>3, <2>4
<1>. QED
    BY <1>2, <1>9, <1>10, <1>11

----------------------------------------------------------------------------
(* Control.                                                                *)

LEMMA ControlInit == Init => Control
<1>. SUFFICES ASSUME Init PROVE Control
    OBVIOUS
<1>1. mode \in Modes /\ mode \in {"trap", "concurrent", "allwild"}
    BY HostAssumption DEF Init
<1>2. /\ gTrapPhase \in BOOLEAN /\ (gTrapPhase <=> mode = "trap")
      /\ gHuntPhase \in BOOLEAN /\ (gHuntPhase <=> mode = "allwild")
    BY Zenon DEF Init
<1>3. /\ mpc = "prepare" /\ gpc = "none" /\ ThrCnt = 0 /\ gTotalErrors = 0
      /\ gSolved = FALSE /\ gConcurrentTableFull = FALSE
      /\ StopFlag = FALSE /\ Failed = FALSE
      /\ IsGenMode = FALSE /\ AllWildsMode = FALSE
      /\ kp = [gen |-> FALSE, wilds |-> FALSE]
      /\ mem = "null" /\ calls = 0 /\ draws = 0
      /\ mixed = FALSE /\ torn = FALSE /\ stale = FALSE
    BY DEF Init
<1>0. gTrapPhase \in BOOLEAN /\ gHuntPhase \in BOOLEAN
    BY <1>2
<1>4. ControlTypes
    <2>1. kp \in [gen : BOOLEAN, wilds : BOOLEAN]
        BY <1>3
    <2>2. mode \in Modes /\ mode \in {"trap", "concurrent", "allwild"}
        BY <1>1
    <2>3. mpc \in AtMain /\ gpc \in AtGpu
        BY <1>3 DEF AtMain, AtGpu
    <2>4. gTotalErrors \in 0 .. 1 /\ mem \in {"null", "live", "freed"}
        BY <1>3
    <2>5. /\ gSolved \in BOOLEAN /\ gConcurrentTableFull \in BOOLEAN
          /\ StopFlag \in BOOLEAN /\ Failed \in BOOLEAN
          /\ IsGenMode \in BOOLEAN /\ AllWildsMode \in BOOLEAN
          /\ mixed \in BOOLEAN /\ torn \in BOOLEAN /\ stale \in BOOLEAN
        BY <1>3
    <2>. QED
        BY <1>0, <2>1, <2>2, <2>3, <2>4, <2>5, Zenon DEF ControlTypes
<1>5. Places
    BY <1>3 DEF Places, AtReinit
<1>6. Phases
    BY <1>2, <1>3 DEF Phases, AtReinit
<1>7. Counts
    BY <1>3, HostAssumption DEF Counts, Due, DueHunt
<1>. QED
    BY <1>4, <1>5, <1>6, <1>7 DEF Control

LEMMA ControlStep ==
    ASSUME Control, [Next]_vars
    PROVE  Control'
<1>. USE HostAssumption DEF Control, ControlTypes, Places, Phases, Counts, Due, DueHunt, AtReinit,
            AtGpu, AtMain, flags, params, device, host, thread, AfterReinit
<1>1. CASE Prepare
    <2>1. /\ IsGenMode' \in BOOLEAN /\ (IsGenMode' <=> mode = "trap")
          /\ Failed' \in BOOLEAN
        BY <1>1, Zenon DEF Prepare
    <2>2. /\ AllWildsMode' = FALSE /\ mpc = "prepare"
          /\ mpc' = IF mode = "allwild" THEN "place" ELSE "create"
          /\ UNCHANGED <<flags, gpc, gSolved, StopFlag, ThrCnt, gTotalErrors, kp,
                         host, device, torn, stale>>
        BY <1>1, Zenon DEF Prepare
    <2>3. ControlTypes'
        BY <2>1, <2>2, ZenonT(40)
    <2>4. Places'
        BY <2>1, <2>2
    <2>5. Phases'
        BY <2>1, <2>2
    <2>6. Counts'
        <3>1. UNCHANGED <<calls, draws, gpc, gHuntPhase>>
            BY <2>2
        <3>2. /\ mpc = "prepare" /\ mpc' \in {"place", "create"}
              /\ mode = "allwild" => gHuntPhase
              /\ mpc' = "place" => mode = "allwild"
            BY <2>2
        <3>3. Counts
            OBVIOUS
        <3>. QED
            BY <3>1, <3>2, <3>3
    <2>. QED
        BY <2>3, <2>4, <2>5, <2>6
<1>2. CASE CreateThread
    BY <1>2 DEF CreateThread
<1>3. CASE ReinitPlace
    <2>1. torn' \in BOOLEAN
        BY <1>3, Zenon DEF ReinitPlace
    <2>2. /\ mpc = "place" /\ mpc' = "copy" /\ draws' = draws + 1
          /\ mem' = IF mem = "null" THEN "live" ELSE mem
          /\ IsGenMode' = FALSE /\ AllWildsMode' = TRUE /\ mixed' = FALSE
          /\ UNCHANGED <<flags, gpc, gSolved, thread, kp, device, stale>>
        BY <1>3 DEF ReinitPlace
    <2>3. ControlTypes'
        <3>1. mem' \in {"null", "live", "freed"}
            BY <2>2
        <3>. QED
            BY <2>1, <2>2, <3>1, ZenonT(40)
    <2>4. Places'
        BY <2>1, <2>2
    <2>5. Phases'
        BY <2>1, <2>2
    <2>6. Counts'
        BY <2>1, <2>2
    <2>. QED
        BY <2>3, <2>4, <2>5, <2>6
<1>4. CASE ReinitFails
    BY <1>4 DEF ReinitFails
<1>5. CASE ReinitCopy
    BY <1>5 DEF ReinitCopy
<1>6. CASE ReinitGen
    BY <1>6 DEF ReinitGen
<1>7. CASE ReinitClear
    BY <1>7 DEF ReinitClear
<1>8. CASE LoopEnds
    BY <1>8 DEF LoopEnds
<1>9. CASE Stop
    BY <1>9 DEF Stop
<1>10. CASE Join
    BY <1>10 DEF Join
<1>11. CASE Switch
    <2>. USE <1>11 DEF Switch
    <2>1. ControlTypes'
        <3>1. /\ gTrapPhase' \in BOOLEAN /\ gHuntPhase' \in BOOLEAN
              /\ gConcurrentTableFull' \in BOOLEAN
            OBVIOUS
        <3>2. /\ mode' = mode /\ mpc' = "place"
              /\ UNCHANGED <<gpc, gSolved, thread, params, kp, host, device, torn, stale>>
            OBVIOUS
        <3>. HIDE <1>11
        <3>. QED
            BY <3>1, <3>2
    <2>4. Places'
        OBVIOUS
    <2>2. Phases'
        OBVIOUS
    <2>3. Counts'
        OBVIOUS
    <2>. QED
        BY <2>1, <2>4, <2>2, <2>3
<1>12. CASE Wave
    BY <1>12 DEF Wave
<1>13. CASE SaveAndExit
    BY <1>13 DEF SaveAndExit
<1>14. CASE Solve
    BY <1>14 DEF Solve
<1>15. CASE StartFails
    BY <1>15 DEF StartFails
<1>16. CASE StartPlace
    <2>1. mixed' \in BOOLEAN /\ torn' \in BOOLEAN
        <3>1. Reiniting \in BOOLEAN
            BY DEF Reiniting
        <3>. QED
            BY <1>16, <3>1, Zenon DEF StartPlace
    <2>2. /\ gpc = "start" /\ gpc' = "copy" /\ draws' = draws + 1
          /\ mem' = "live" /\ ~Failed
          /\ UNCHANGED <<flags, mpc, gSolved, thread, params, kp, device, stale>>
        BY <1>16 DEF StartPlace
    <2>3. ControlTypes'
        BY <2>1, <2>2
    <2>4. Places'
        BY <2>1, <2>2
    <2>5. Phases'
        BY <2>1, <2>2
    <2>6. Counts'
        BY <2>1, <2>2
    <2>. QED
        BY <2>3, <2>4, <2>5, <2>6
<1>17. CASE StartCopy
    BY <1>17 DEF StartCopy
<1>18. CASE StartGen
    BY <1>18 DEF StartGen
<1>19. CASE StartClear
    BY <1>19 DEF StartClear
<1>20. CASE Launch
    BY <1>20 DEF Launch
<1>21. CASE KernelA
    BY <1>21 DEF KernelA
<1>22. CASE KernelB
    BY <1>22 DEF KernelB
<1>23. CASE KernelC
    BY <1>23 DEF KernelC
<1>24. CASE ReadDPs
    BY <1>24 DEF ReadDPs
<1>25. CASE ReadFails
    BY <1>25 DEF ReadFails
<1>26. CASE SeesStop
    BY <1>26 DEF SeesStop
<1>27. CASE Release
    BY <1>27 DEF Release
<1>28. CASE ThreadEnd
    BY <1>28 DEF ThreadEnd
<1>29. CASE UNCHANGED vars
    BY <1>29 DEF vars
<1>. QED
    BY <1>1, <1>2, <1>3, <1>4, <1>5, <1>6, <1>7, <1>8, <1>9, <1>10, <1>11, <1>12, <1>13, <1>14, <1>15, <1>16, <1>17, <1>18, <1>19, <1>20, <1>21, <1>22, <1>23, <1>24, <1>25, <1>26, <1>27, <1>28, <1>29
    DEF Next, SolvePoint, ReinitForHunt, Execute, Start

----------------------------------------------------------------------------
(* Data.                                                                   *)

XType == [base : Base, off : Nat]
KType == [Kang -> [x : XType, d : Nat]]

\* The actions that change an array.
Touches ==
    \/ ReinitPlace \/ ReinitCopy \/ ReinitGen \/ ReinitClear
    \/ StartPlace \/ StartCopy \/ StartGen
    \/ Launch \/ KernelA \/ KernelB \/ KernelC

arrays == <<rnd, kangs, from, looped, out, calls>>

LEMMA Untouched ==
    ASSUME [Next]_vars, ~Touches
    PROVE  UNCHANGED arrays
<1>. USE DEF arrays, host, device, vars
<1>1. CASE Prepare
    BY <1>1 DEF Prepare
<1>2. CASE CreateThread
    BY <1>2 DEF CreateThread
<1>3. CASE ReinitFails
    BY <1>3 DEF ReinitFails
<1>4. CASE LoopEnds
    BY <1>4 DEF LoopEnds
<1>5. CASE Stop
    BY <1>5 DEF Stop
<1>6. CASE Join
    BY <1>6 DEF Join
<1>7. CASE Switch
    BY <1>7 DEF Switch
<1>8. CASE Wave
    BY <1>8 DEF Wave
<1>9. CASE SaveAndExit
    BY <1>9 DEF SaveAndExit
<1>10. CASE Solve
    BY <1>10 DEF Solve
<1>11. CASE StartFails
    BY <1>11 DEF StartFails
<1>12. CASE StartClear
    BY <1>12 DEF StartClear
<1>13. CASE ReadDPs
    BY <1>13 DEF ReadDPs
<1>14. CASE ReadFails
    BY <1>14 DEF ReadFails
<1>15. CASE SeesStop
    BY <1>15 DEF SeesStop
<1>16. CASE Release
    BY <1>16 DEF Release
<1>17. CASE ThreadEnd
    BY <1>17 DEF ThreadEnd
<1>18. CASE UNCHANGED vars
    BY <1>18
<1>. QED
    BY <1>1, <1>2, <1>3, <1>4, <1>5, <1>6, <1>7, <1>8, <1>9, <1>10, <1>11, <1>12, <1>13, <1>14, <1>15, <1>16, <1>17, <1>18
    DEF Next, SolvePoint, ReinitForHunt, Execute, Start, Touches

LEMMA Bases ==
    ASSUME NEW i \in Kang
    PROVE  /\ HuntBase(i) \in Base \ {"none", "G"}
           /\ StartBase(i) \in Base \ {"G"}
           /\ StartBase(i) = "none" <=> i < KangCnt \div 3
    BY DEF HuntBase, StartBase, Base

LEMMA CopiedType ==
    ASSUME Data
    PROVE  Copied \in KType
<1>1. ASSUME NEW i \in Kang
      PROVE  [base |-> rnd[i].x, off |-> 0] \in XType /\ rnd[i].d \in Nat
    BY DEF Data, XType
<1>. QED
    BY <1>1 DEF Copied, KType

LEMMA KernelGenType ==
    ASSUME NEW ks \in KType
    PROVE  KernelGen(ks) \in KType
<1>1. ASSUME NEW i \in Kang
      PROVE  /\ ks[i].d \in Nat /\ ks[i].x.base \in Base /\ ks[i].x.off \in Nat
    BY DEF KType, XType
<1>2. "G" \in Base
    BY DEF Base
<1>. DEFINE X(i) == IF ~IsGenMode /\ (AllWildsMode \/ i >= KangCnt \div 3)
                    THEN [base |-> ks[i].x.base, off |-> ks[i].x.off + ks[i].d]
                    ELSE [base |-> "G", off |-> ks[i].d]
<1>3. ASSUME NEW i \in Kang
      PROVE  X(i) \in XType
    BY <1>1, <1>2 DEF XType
<1>4. KernelGen(ks) = [i \in Kang |-> [x |-> X(i), d |-> ks[i].d]]
    BY DEF KernelGen
<1>. HIDE DEF X
<1>. QED
    BY <1>1, <1>3, <1>4 DEF KType

LEMMA MovedType ==
    ASSUME NEW x \in XType, NEW n \in Nat
    PROVE  /\ Moved(x, n) \in XType
           /\ Moved(x, n).base = x.base
           /\ Moved(x, n).off = x.off + n
    BY DEF Moved, XType

LEMMA Calls ==
    ASSUME Control, NEW u \in Uses
    PROVE  Jump(calls, u) \in Nat /\ Jump(calls, u) % 2 = 0
    BY EvenJump DEF Control, Counts

LEMMA LabelType ==
    ASSUME NEW i \in Kang, NEW w \in BOOLEAN
    PROVE  Label(i, w) \in 0 .. 2
<1>1. i \in Nat /\ KangCnt \in Nat \ {0} /\ i < KangCnt
    BY HostAssumption DEF Kang
<1>2. (3 * i) \div KangCnt \in 0 .. 2
    BY <1>1
<1>3. 1 + (i % 2) \in 0 .. 2
    BY <1>1
<1>. QED
    BY <1>2, <1>3 DEF Label

(* What the three kernels do to each kangaroo.                             *)

LEMMA KernelAEffect ==
    ASSUME Control, Data, KernelA
    PROVE  /\ from' \in [Kang -> XType] /\ kangs' \in KType
           /\ \A i \in Kang : /\ from'[i] = kangs[i].x
                              /\ kangs'[i].x = Moved(kangs[i].x, Jump(calls, "walk"))
                              /\ kangs'[i].d = kangs[i].d
<1>. DEFINE n == Jump(calls, "walk")
<1>1. n \in Nat
    BY Calls DEF Uses
<1>2. kangs \in KType
    BY DEF Data, KType, XType
<1>3. ASSUME NEW i \in Kang
      PROVE  /\ kangs[i].x \in XType /\ kangs[i].d \in Nat
             /\ Moved(kangs[i].x, n) \in XType
             /\ [kangs[i] EXCEPT !.x = Moved(@, n)]
                  = [x |-> Moved(kangs[i].x, n), d |-> kangs[i].d]
    <2>1. kangs[i] \in [x : XType, d : Nat]
        BY <1>2 DEF KType
    <2>2. kangs[i].x \in XType /\ kangs[i].d \in Nat
        BY <2>1
    <2>3. Moved(kangs[i].x, n) \in XType
        BY <1>1, <2>2, MovedType
    <2>. HIDE DEF n
    <2>. QED
        BY <2>1, <2>2, <2>3
<1>4. /\ from' = [i \in Kang |-> kangs[i].x]
      /\ kangs' = [i \in Kang |-> [kangs[i] EXCEPT !.x = Moved(@, n)]]
    BY DEF KernelA
<1>. HIDE DEF n
<1>5. from' \in [Kang -> XType]
    BY <1>3, <1>4
<1>6. kangs' = [i \in Kang |-> [x |-> Moved(kangs[i].x, n), d |-> kangs[i].d]]
    BY <1>3, <1>4
<1>7. kangs' \in KType
    BY <1>3, <1>6 DEF KType
<1>. QED
    BY <1>4, <1>5, <1>6, <1>7 DEF n

LEMMA KernelBEffect ==
    ASSUME Control, Data, KernelB
    PROVE  /\ looped' \subseteq Kang /\ kangs' \in KType
           /\ out' \subseteq [x : XType, d : Nat, type : 0 .. 2, i : Kang]
           /\ \A i \in Kang :
                /\ kangs'[i].x = kangs[i].x
                /\ i \in looped' => kangs'[i].d = kangs[i].d + Jump(calls, "loop")
                /\ i \notin looped' => kangs'[i].d = kangs[i].d + Jump(calls, "walk")
           /\ \A r \in out' : \E i \in Kang \ looped' :
                /\ r.x = Moved(from[i], Jump(calls, "walk"))
                /\ r.d = kangs'[i].d
                /\ r.type = Label(i, kp.wilds) /\ r.i = i
<1>. DEFINE walk == Jump(calls, "walk")
            loop == Jump(calls, "loop")
<1>1. walk \in Nat /\ loop \in Nat
    BY Calls DEF Uses
<1>2. kangs \in KType /\ from \in [Kang -> XType] /\ kp.wilds \in BOOLEAN
    BY DEF Data, KType, XType, Control, ControlTypes
<1>3. PICK L \in Loops :
         LET d(i) == kangs[i].d + Jump(calls, IF i \in L THEN "loop" ELSE "walk")
         IN  /\ looped' = L
             /\ kangs' = [i \in Kang |-> [kangs[i] EXCEPT !.d = d(i)]]
             /\ out' = {[x |-> Moved(from[i], Jump(calls, "walk")), d |-> d(i),
                         type |-> Label(i, kp.wilds), i |-> i] : i \in Kang \ L}
    BY DEF KernelB
<1>. DEFINE D(i) == IF i \in L THEN kangs[i].d + loop ELSE kangs[i].d + walk
            X(i) == Moved(from[i], walk)
            T(i) == Label(i, kp.wilds)
<1>4. \A i \in Kang :
        kangs[i].d + Jump(calls, IF i \in L THEN "loop" ELSE "walk") = D(i)
    OBVIOUS
<1>5. kangs' = [i \in Kang |-> [kangs[i] EXCEPT !.d = D(i)]]
    BY <1>3, <1>4
<1>6. out' = {[x |-> X(i), d |-> D(i), type |-> T(i), i |-> i] : i \in Kang \ L}
    BY <1>3, <1>4
<1>7. looped' = L /\ L \subseteq Kang
    BY <1>3, HostAssumption
<1>8. ASSUME NEW i \in Kang
      PROVE  /\ kangs[i] \in [x : XType, d : Nat]
             /\ D(i) \in Nat /\ X(i) \in XType /\ T(i) \in 0 .. 2
    <2>1. kangs[i] \in [x : XType, d : Nat]
        BY <1>2 DEF KType
    <2>2. D(i) \in Nat
        BY <1>1, <2>1
    <2>3. X(i) \in XType
        BY <1>1, <1>2, MovedType
    <2>4. T(i) \in 0 .. 2
        BY <1>2, LabelType
    <2>. QED
        BY <2>1, <2>2, <2>3, <2>4
<1>. HIDE DEF D, X, T
<1>9. kangs' = [i \in Kang |-> [x |-> kangs[i].x, d |-> D(i)]]
    BY <1>5, <1>8
<1>10. kangs' \in KType
    BY <1>8, <1>9 DEF KType
<1>11. out' \subseteq [x : XType, d : Nat, type : 0 .. 2, i : Kang]
    BY <1>6, <1>8
<1>12. \A i \in Kang : kangs'[i].x = kangs[i].x /\ kangs'[i].d = D(i)
    BY <1>9
<1>13. ASSUME NEW r \in out'
       PROVE  \E i \in Kang \ L : r.x = X(i) /\ r.d = kangs'[i].d /\ r.type = T(i) /\ r.i = i
    BY <1>6, <1>12
<1>. QED
    BY <1>7, <1>10, <1>11, <1>12, <1>13 DEF D, X, T

LEMMA KernelCEffect ==
    ASSUME Control, Data, KernelC
    PROVE  /\ kangs' \in KType
           /\ \A i \in Kang :
                /\ i \in looped =>
                     /\ kangs'[i].x.base = from[i].base
                     /\ kangs'[i].x.off
                          = from[i].off + Jump(calls, "loop") + Jump(calls, "leave")
                     /\ kangs'[i].d = kangs[i].d + Jump(calls, "leave")
                /\ i \notin looped => kangs'[i] = kangs[i]
<1>. DEFINE loop == Jump(calls, "loop")
            leave == Jump(calls, "leave")
            X(i) == Moved(from[i], loop + leave)
            K(i) == [x |-> X(i), d |-> kangs[i].d + leave]
<1>1. loop \in Nat /\ leave \in Nat
    BY Calls DEF Uses
<1>2. kangs \in KType /\ from \in [Kang -> XType]
    BY DEF Data, KType, XType
<1>3. kangs' = [i \in Kang |-> IF i \in looped THEN K(i) ELSE kangs[i]]
    BY DEF KernelC
<1>4. ASSUME NEW i \in Kang
      PROVE  /\ kangs[i] \in [x : XType, d : Nat]
             /\ K(i) \in [x : XType, d : Nat]
             /\ X(i).base = from[i].base /\ X(i).off = from[i].off + loop + leave
    <2>1. kangs[i] \in [x : XType, d : Nat]
        BY <1>2 DEF KType
    <2>2. from[i] \in XType /\ from[i].off \in Nat /\ loop + leave \in Nat
        BY <1>1, <1>2 DEF XType
    <2>3. /\ X(i) \in XType /\ X(i).base = from[i].base
          /\ X(i).off = from[i].off + (loop + leave)
        BY <2>2, MovedType
    <2>4. X(i).off = from[i].off + loop + leave
        BY <1>1, <2>2, <2>3
    <2>5. kangs[i].d + leave \in Nat
        BY <1>1, <2>1
    <2>. HIDE DEF X
    <2>. QED
        BY <2>1, <2>3, <2>4, <2>5
<1>. HIDE DEF K
<1>5. kangs' \in KType
    BY <1>3, <1>4 DEF KType
<1>6. ASSUME NEW i \in Kang, i \in looped
      PROVE  kangs'[i] = K(i)
    BY <1>3, <1>6
<1>7. ASSUME NEW i \in Kang, i \notin looped
      PROVE  kangs'[i] = kangs[i]
    BY <1>3, <1>7
<1>. HIDE DEF X, loop, leave
<1>8. ASSUME NEW i \in Kang, i \in looped
      PROVE  /\ kangs'[i].x.base = from[i].base
             /\ kangs'[i].x.off = from[i].off + loop + leave
             /\ kangs'[i].d = kangs[i].d + leave
    <2>1. K(i).x = X(i) /\ K(i).d = kangs[i].d + leave
        BY DEF K
    <2>2. kangs'[i] = K(i)
        BY <1>6, <1>8
    <2>. QED
        BY <1>4, <2>1, <2>2
<1>. QED
    BY <1>5, <1>7, <1>8 DEF loop, leave

LEMMA DataInit == Init => Data
<1>. SUFFICES ASSUME Init PROVE Data
    OBVIOUS
<1>1. rnd = [i \in Kang |-> [x |-> "none", d |-> 0]]
    BY DEF Init
<1>2. rnd \in [Kang -> [x : Base \ {"G"}, d : Nat]]
    BY <1>1 DEF Base
<1>3. kangs = [i \in Kang |-> [x |-> [base |-> rnd[i].x, off |-> 0], d |-> rnd[i].d]]
    BY DEF Init, Copied
<1>4. \A i \in Kang : [base |-> rnd[i].x, off |-> 0] \in XType /\ rnd[i].d \in Nat
    BY <1>2 DEF XType
<1>5. kangs \in KType
    BY <1>3, <1>4 DEF KType
<1>6. from = [i \in Kang |-> kangs[i].x]
    BY DEF Init
<1>7. from \in [Kang -> XType]
    BY <1>5, <1>6 DEF KType
<1>8. looped = {} /\ out = {}
    BY DEF Init
<1>. QED
    BY <1>2, <1>5, <1>7, <1>8 DEF Data, KType, XType

LEMMA DataStep ==
    ASSUME Control, Data, [Next]_vars
    PROVE  Data'
<1>0. /\ kangs \in KType /\ from \in [Kang -> XType]
      /\ rnd \in [Kang -> [x : Base \ {"G"}, d : Nat]]
    BY DEF Data, KType, XType
<1>1. CASE ReinitPlace
    <2>1. /\ rnd' = [i \in Kang |->
                       [x |-> HuntBase(i), d |-> GenerateSmartWildDistances(i)]]
          /\ UNCHANGED device
        BY <1>1 DEF ReinitPlace
    <2>2. draws \in 0 .. MaxDraws + 2
        BY <1>1, HostAssumption DEF ReinitPlace, Control, Counts, Due, DueHunt
    <2>3. ASSUME NEW i \in Kang
          PROVE  /\ HuntBase(i) \in Base \ {"G"}
                 /\ GenerateSmartWildDistances(i) \in Nat
        BY <2>2, Bases, EvenDraw, HostAssumption DEF GenerateSmartWildDistances
    <2>4. rnd' \in [Kang -> [x : Base \ {"G"}, d : Nat]]
        BY <2>1, <2>3
    <2>. QED
        BY <2>1, <2>4 DEF Data, device
<1>2. CASE StartPlace
    <2>1. /\ rnd' = [i \in Kang |-> [x |-> StartBase(i), d |-> GenerateRndDistances(i)]]
          /\ UNCHANGED device
        BY <1>2 DEF StartPlace
    <2>2. draws \in 0 .. MaxDraws + 2
        BY <1>2, HostAssumption DEF StartPlace, Control, Counts, Due, DueHunt
    <2>3. ASSUME NEW i \in Kang
          PROVE  /\ StartBase(i) \in Base \ {"G"}
                 /\ GenerateRndDistances(i) \in Nat
        BY <2>2, Bases, EvenDraw, HostAssumption DEF GenerateRndDistances
    <2>4. rnd' \in [Kang -> [x : Base \ {"G"}, d : Nat]]
        BY <2>1, <2>3
    <2>. QED
        BY <2>1, <2>4 DEF Data, device
<1>3. CASE ReinitCopy \/ StartCopy
    <2>1. kangs' \in KType
        BY <1>3, CopiedType DEF ReinitCopy, StartCopy
    <2>. QED
        BY <1>3, <2>1 DEF ReinitCopy, StartCopy, Data, host, KType, XType
<1>4. CASE ReinitGen \/ StartGen
    <2>1. kangs' \in KType
        BY <1>0, <1>4, KernelGenType DEF ReinitGen, StartGen
    <2>. QED
        BY <1>4, <2>1 DEF ReinitGen, StartGen, Data, host, KType, XType
<1>5. CASE ReinitClear \/ Launch
    BY <1>5 DEF ReinitClear, Launch, Data, host
<1>6. CASE KernelA
    <2>1. kangs' \in KType /\ from' \in [Kang -> XType]
        BY <1>6, KernelAEffect
    <2>. QED
        BY <1>6, <2>1 DEF KernelA, Data, host, KType, XType
<1>7. CASE KernelB
    <2>1. /\ kangs' \in KType /\ looped' \subseteq Kang
          /\ out' \subseteq [x : XType, d : Nat, type : 0 .. 2, i : Kang]
        BY <1>7, KernelBEffect
    <2>2. UNCHANGED <<from, rnd>>
        BY <1>7 DEF KernelB, host
    <2>. QED
        BY <2>1, <2>2 DEF Data, KType, XType
<1>8. CASE KernelC
    <2>1. kangs' \in KType
        BY <1>8, KernelCEffect
    <2>. QED
        BY <1>8, <2>1 DEF KernelC, Data, host, KType, XType
<1>9. CASE ~Touches
    BY <1>9, Untouched DEF Data, arrays
<1>. QED
    BY <1>1, <1>2, <1>3, <1>4, <1>5, <1>6, <1>7, <1>8, <1>9 DEF Touches

----------------------------------------------------------------------------
(* Windows.                                                                *)

LEMMA TornStep ==
    ASSUME Control, TornThere, [Next]_vars
    PROVE  TornThere'
<1>. USE DEF Control, ControlTypes, Places, Phases, TornThere, AtReinit, AtGpu,
             AtMain, flags, params, device, host, thread, AfterReinit, Starting,
             Reiniting, Midway
<1>1. CASE Prepare
    BY <1>1 DEF Prepare
<1>2. CASE CreateThread
    BY <1>2 DEF CreateThread
<1>3. CASE ReinitPlace
    BY <1>3 DEF ReinitPlace
<1>4. CASE ReinitFails
    BY <1>4 DEF ReinitFails
<1>5. CASE ReinitCopy
    BY <1>5 DEF ReinitCopy
<1>6. CASE ReinitGen
    BY <1>6 DEF ReinitGen
<1>7. CASE ReinitClear
    BY <1>7 DEF ReinitClear
<1>8. CASE LoopEnds
    BY <1>8 DEF LoopEnds
<1>9. CASE Stop
    BY <1>9 DEF Stop
<1>10. CASE Join
    BY <1>10 DEF Join
<1>11. CASE Switch
    BY <1>11 DEF Switch
<1>12. CASE Wave
    BY <1>12 DEF Wave
<1>13. CASE SaveAndExit
    BY <1>13 DEF SaveAndExit
<1>14. CASE Solve
    BY <1>14 DEF Solve
<1>15. CASE StartFails
    BY <1>15 DEF StartFails
<1>16. CASE StartPlace
    BY <1>16 DEF StartPlace
<1>17. CASE StartCopy
    BY <1>17 DEF StartCopy
<1>18. CASE StartGen
    BY <1>18 DEF StartGen
<1>19. CASE StartClear
    BY <1>19 DEF StartClear
<1>20. CASE Launch
    BY <1>20 DEF Launch
<1>21. CASE KernelA
    BY <1>21 DEF KernelA
<1>22. CASE KernelB
    BY <1>22 DEF KernelB
<1>23. CASE KernelC
    BY <1>23 DEF KernelC
<1>24. CASE ReadDPs
    BY <1>24 DEF ReadDPs
<1>25. CASE ReadFails
    BY <1>25 DEF ReadFails
<1>26. CASE SeesStop
    BY <1>26 DEF SeesStop
<1>27. CASE Release
    BY <1>27 DEF Release
<1>28. CASE ThreadEnd
    BY <1>28 DEF ThreadEnd
<1>29. CASE UNCHANGED vars
    BY <1>29 DEF vars
<1>. QED
    BY <1>1, <1>2, <1>3, <1>4, <1>5, <1>6, <1>7, <1>8, <1>9, <1>10, <1>11, <1>12, <1>13, <1>14, <1>15, <1>16, <1>17, <1>18, <1>19, <1>20, <1>21, <1>22, <1>23, <1>24, <1>25, <1>26, <1>27, <1>28, <1>29
    DEF Next, SolvePoint, ReinitForHunt, Execute, Start

LEMMA QuietStep ==
    ASSUME Control, Windows, [Next]_vars, ~Touches
    PROVE  Placing' /\ Points' /\ Kinds' /\ Outputs'
<1>. USE DEF Control, ControlTypes, Places, Phases, Windows, TornThere, Placing,
             Points, Kinds, Outputs, AtReinit, AtGpu, AtMain, flags, params, device,
             host, thread, AfterReinit, Starting, Reiniting, Midway
<1>1. CASE Prepare
    BY <1>1 DEF Prepare
<1>2. CASE CreateThread
    BY <1>2 DEF CreateThread
<1>3. CASE ReinitFails
    BY <1>3 DEF ReinitFails
<1>4. CASE LoopEnds
    BY <1>4 DEF LoopEnds
<1>5. CASE Stop
    BY <1>5 DEF Stop
<1>6. CASE Join
    BY <1>6 DEF Join
<1>7. CASE Switch
    BY <1>7 DEF Switch
<1>8. CASE Wave
    BY <1>8 DEF Wave
<1>9. CASE SaveAndExit
    BY <1>9 DEF SaveAndExit
<1>10. CASE Solve
    BY <1>10 DEF Solve
<1>11. CASE StartFails
    BY <1>11 DEF StartFails
<1>12. CASE StartClear
    BY <1>12 DEF StartClear
<1>13. CASE ReadDPs
    BY <1>13 DEF ReadDPs
<1>14. CASE ReadFails
    BY <1>14 DEF ReadFails
<1>15. CASE SeesStop
    BY <1>15 DEF SeesStop
<1>16. CASE Release
    BY <1>16 DEF Release
<1>17. CASE ThreadEnd
    BY <1>17 DEF ThreadEnd
<1>18. CASE UNCHANGED vars
    BY <1>18 DEF vars
<1>. QED
    BY <1>1, <1>2, <1>3, <1>4, <1>5, <1>6, <1>7, <1>8, <1>9, <1>10, <1>11, <1>12, <1>13, <1>14, <1>15, <1>16, <1>17, <1>18
    DEF Next, SolvePoint, ReinitForHunt, Execute, Start, Touches

(* What the steps that change an array make of what it holds.              *)

LEMMA HuntPlaced ==
    ASSUME Control, Data, ReinitPlace
    PROVE  HuntDrawn(rnd')
<1>1. rnd' = [i \in Kang |->
                [x |-> HuntBase(i), d |-> GenerateSmartWildDistances(i)]]
    BY DEF ReinitPlace
<1>2. draws \in 0 .. MaxDraws + 2
    BY HostAssumption DEF ReinitPlace, Control, Counts, Due, DueHunt
<1>3. ASSUME NEW i \in Kang
      PROVE  GenerateSmartWildDistances(i) % 2 = 0
    BY <1>2, EvenDraw, HostAssumption DEF GenerateSmartWildDistances
<1>. QED
    BY <1>1, <1>3 DEF HuntDrawn

LEMMA StartPlaced ==
    ASSUME Control, Data, StartPlace
    PROVE  StartDrawn(rnd')
<1>1. rnd' = [i \in Kang |-> [x |-> StartBase(i), d |-> GenerateRndDistances(i)]]
    BY DEF StartPlace
<1>2. draws \in 0 .. MaxDraws + 2
    BY HostAssumption DEF StartPlace, Control, Counts, Due, DueHunt
<1>3. ASSUME NEW i \in Kang, i >= KangCnt \div 3
      PROVE  GenerateRndDistances(i) % 2 = 0
    <2>1. ~(i < KangCnt \div 3)
        BY <1>3, HostAssumption DEF Kang
    <2>. QED
        BY <1>2, <2>1, EvenDraw, HostAssumption DEF GenerateRndDistances
<1>. QED
    BY <1>1, <1>3 DEF StartDrawn

LEMMA CopiedHunt ==
    ASSUME Data, HuntDrawn(rnd)
    PROVE  HuntLaid(Copied)
    BY DEF HuntDrawn, HuntLaid, Copied

LEMMA CopiedStart ==
    ASSUME Data, StartDrawn(rnd)
    PROVE  StartLaid(Copied)
    BY DEF StartDrawn, StartLaid, Copied

LEMMA GenHunt ==
    ASSUME NEW ks \in KType, HuntLaid(ks), AllWildsMode, ~IsGenMode
    PROVE  AllAt(KernelGen(ks)) /\ Laid(KernelGen(ks), TRUE, FALSE)
<1>. DEFINE kk == KernelGen(ks)
<1>1. ASSUME NEW i \in Kang
      PROVE  /\ kk[i].x.base = HuntBase(i) /\ kk[i].x.off = kk[i].d
             /\ kk[i].d % 2 = 0
    <2>1. ks[i].d \in Nat /\ ks[i].x = [base |-> HuntBase(i), off |-> 0]
        BY DEF KType, HuntLaid
    <2>2. kk[i] = [x |-> [base |-> HuntBase(i), off |-> 0 + ks[i].d], d |-> ks[i].d]
        BY <2>1 DEF KernelGen
    <2>. HIDE DEF kk
    <2>. QED
        BY <2>1, <2>2 DEF HuntLaid
<1>2. \A i \in Kang : BaseOf(TRUE, FALSE, i) = HuntBase(i)
    BY DEF BaseOf
<1>. HIDE DEF kk
<1>3. AllAt(kk) /\ Laid(kk, TRUE, FALSE)
    BY <1>1, <1>2 DEF AllAt, Laid
<1>. QED
    BY <1>3 DEF kk

LEMMA GenStart ==
    ASSUME NEW ks \in KType, StartLaid(ks), ~AllWildsMode, IsGenMode \in BOOLEAN
    PROVE  AllAt(KernelGen(ks)) /\ Laid(KernelGen(ks), FALSE, IsGenMode)
<1>. DEFINE kk == KernelGen(ks)
            B(i) == BaseOf(FALSE, IsGenMode, i)
<1>1. ASSUME NEW i \in Kang
      PROVE  /\ kk[i].x.base = B(i) /\ kk[i].x.off = kk[i].d
             /\ B(i) # "G" => kk[i].d % 2 = 0
    <2>1. /\ ks[i].d \in Nat /\ ks[i].x = [base |-> StartBase(i), off |-> 0]
          /\ i >= KangCnt \div 3 => ks[i].d % 2 = 0
        BY DEF KType, StartLaid
    <2>2. i \in Int /\ KangCnt \div 3 \in Int
        BY HostAssumption DEF Kang
    <2>3. CASE IsGenMode \/ i < KangCnt \div 3
        <3>1. ~(~IsGenMode /\ (AllWildsMode \/ i >= KangCnt \div 3))
            BY <2>2, <2>3
        <3>2. kk[i] = [x |-> [base |-> "G", off |-> ks[i].d], d |-> ks[i].d]
            BY <3>1 DEF KernelGen
        <3>3. B(i) = "G"
            BY <2>3 DEF BaseOf
        <3>. HIDE DEF kk, B
        <3>. QED
            BY <3>2, <3>3
    <2>4. CASE ~IsGenMode /\ i >= KangCnt \div 3
        <3>1. kk[i] = [x |-> [base |-> StartBase(i), off |-> 0 + ks[i].d],
                       d |-> ks[i].d]
            BY <2>1, <2>4 DEF KernelGen
        <3>2. B(i) = StartBase(i)
            BY <2>2, <2>4 DEF BaseOf
        <3>. HIDE DEF kk, B
        <3>. QED
            BY <2>1, <2>4, <3>1, <3>2
    <2>5. \/ IsGenMode \/ i < KangCnt \div 3
          \/ ~IsGenMode /\ i >= KangCnt \div 3
        BY <2>2
    <2>. HIDE DEF kk, B
    <2>. QED
        BY <2>3, <2>4, <2>5
<1>2. \A i \in Kang : BaseOf(FALSE, IsGenMode, i) = B(i)
    OBVIOUS
<1>. HIDE DEF kk, B
<1>3. AllAt(kk) /\ Laid(kk, FALSE, IsGenMode)
    BY <1>1, <1>2 DEF AllAt, Laid
<1>. QED
    BY <1>3 DEF kk

LEMMA WalkAll ==
    ASSUME Control, Data, KernelA
    PROVE  /\ AllAt(kangs) => AfterA(kangs', from', calls)
           /\ \A w, g \in BOOLEAN : Laid(kangs, w, g) => Laid(kangs', w, g)
<1>1. \A i \in Kang : /\ from'[i] = kangs[i].x
                     /\ kangs'[i].x = Moved(kangs[i].x, Jump(calls, "walk"))
                     /\ kangs'[i].d = kangs[i].d
    BY KernelAEffect
<1>2. AllAt(kangs) => AfterA(kangs', from', calls)
    BY <1>1 DEF AllAt, AfterA
<1>3. \A i \in Kang : kangs'[i].x.base = kangs[i].x.base
    <2>1. \A i \in Kang : kangs[i].x \in XType
        BY DEF Data, XType
    <2>2. Jump(calls, "walk") \in Nat
        BY Calls DEF Uses
    <2>. QED
        BY <1>1, <2>1, <2>2, MovedType
<1>4. \A w, g \in BOOLEAN : Laid(kangs, w, g) => Laid(kangs', w, g)
    BY <1>1, <1>3 DEF Laid
<1>. QED
    BY <1>2, <1>4

LEMMA EvenSum ==
    ASSUME NEW m \in Nat, NEW n \in Nat, n % 2 = 0
    PROVE  m % 2 = 0 => (m + n) % 2 = 0
    OBVIOUS

LEMMA CountAll ==
    ASSUME Control, Data, KernelB
    PROVE  /\ AfterA(kangs, from, calls) => AfterB(kangs', from, looped', calls)
           /\ \A w, g \in BOOLEAN : Laid(kangs, w, g) => Laid(kangs', w, g)
<1>. DEFINE walk == Jump(calls, "walk")
            loop == Jump(calls, "loop")
<1>0. walk \in Nat /\ walk % 2 = 0 /\ loop \in Nat /\ loop % 2 = 0
    BY Calls DEF Uses
<1>1. \A i \in Kang :
        /\ kangs'[i].x = kangs[i].x
        /\ i \in looped' => kangs'[i].d = kangs[i].d + loop
        /\ i \notin looped' => kangs'[i].d = kangs[i].d + walk
    BY KernelBEffect
<1>2. \A i \in Kang : /\ kangs[i].x \in XType /\ kangs[i].d \in Nat
                     /\ from[i] \in XType
    BY DEF Data, XType
<1>3. ASSUME AfterA(kangs, from, calls)
      PROVE  AfterB(kangs', from, looped', calls)
    <2>1. ASSUME NEW i \in Kang
          PROVE  /\ from[i].off = kangs[i].d
                 /\ kangs[i].x.base = from[i].base
                 /\ kangs[i].x.off = from[i].off + walk
        <3>1. from[i].off = kangs[i].d /\ kangs[i].x = Moved(from[i], walk)
            BY <1>3 DEF AfterA
        <3>. HIDE DEF walk
        <3>. QED
            BY <1>0, <1>2, <3>1, MovedType
    <2>. QED
        BY <1>1, <2>1 DEF AfterB
<1>4. ASSUME NEW w \in BOOLEAN, NEW g \in BOOLEAN, Laid(kangs, w, g)
      PROVE  Laid(kangs', w, g)
    <2>. HIDE DEF walk, loop
    <2>1. ASSUME NEW i \in Kang
          PROVE  /\ kangs'[i].x.base = kangs[i].x.base
                 /\ kangs[i].d % 2 = 0 => kangs'[i].d % 2 = 0
        BY <1>0, <1>1, <1>2, EvenSum
    <2>. QED
        BY <1>4, <2>1 DEF Laid
<1>. QED
    BY <1>3, <1>4

LEMMA LeaveAll ==
    ASSUME Control, Data, KernelC, AfterB(kangs, from, looped, calls)
    PROVE  /\ AllAt(kangs')
           /\ \A w, g \in BOOLEAN : Laid(kangs, w, g) => Laid(kangs', w, g)
<1>. DEFINE loop == Jump(calls, "loop")
            leave == Jump(calls, "leave")
<1>0. loop \in Nat /\ leave \in Nat /\ leave % 2 = 0
    BY Calls DEF Uses
<1>1. \A i \in Kang :
        /\ i \in looped => /\ kangs'[i].x.base = from[i].base
                           /\ kangs'[i].x.off = from[i].off + loop + leave
                           /\ kangs'[i].d = kangs[i].d + leave
        /\ i \notin looped => kangs'[i] = kangs[i]
    BY KernelCEffect
<1>2. \A i \in Kang : /\ kangs[i].d \in Nat /\ from[i].off \in Nat
                     /\ kangs[i].x.off \in Nat
    BY DEF Data
<1>3. \A i \in Kang : IF i \in looped
                     THEN /\ from[i].base = kangs[i].x.base
                          /\ kangs[i].d = from[i].off + loop
                     ELSE kangs[i].x.off = kangs[i].d
    BY DEF AfterB
<1>. HIDE DEF loop, leave
<1>4. ASSUME NEW i \in Kang
      PROVE  /\ kangs'[i].x.off = kangs'[i].d
             /\ kangs'[i].x.base = kangs[i].x.base
             /\ kangs[i].d % 2 = 0 => kangs'[i].d % 2 = 0
    BY <1>0, <1>1, <1>2, <1>3, EvenSum
<1>. QED
    BY <1>4 DEF AllAt, Laid

\* The label of a kangaroo is the type of the base it was placed with, or on a
\* border of the thirds the one before.
LEMMA LabelOfBase ==
    ASSUME NEW w \in BOOLEAN, NEW i \in Kang
    PROVE  /\ w \/ ~OnBorder(i) => Label(i, w) = TypeOfBase(BaseOf(w, FALSE, i))
           /\ ~w /\ OnBorder(i) => /\ Label(i, w) = TypeOfBase(BaseOf(w, FALSE, i)) - 1
                                  /\ BaseOf(w, FALSE, i) # "G"
           /\ Label(i, w) # 0 => BaseOf(w, FALSE, i) # "G"
<1>1. CASE w
    <2>1. BaseOf(w, FALSE, i) = HuntBase(i)
        BY <1>1 DEF BaseOf
    <2>2. Label(i, w) = 1 + (i % 2)
        BY <1>1 DEF Label
    <2>3. i % 2 = 0 \/ i % 2 = 1
        BY DEF Kang
    <2>4. i % 2 = 0 => HuntBase(i) = "A"
        BY DEF HuntBase
    <2>5. i % 2 = 1 => HuntBase(i) = "B"
        BY DEF HuntBase
    <2>6. TypeOfBase("A") = 1 /\ TypeOfBase("B") = 2
        BY DEF TypeOfBase
    <2>7. CASE i % 2 = 0
        <3>0. 1 + (i % 2) = 1
            BY <2>7
        <3>1. Label(i, w) = 1 /\ BaseOf(w, FALSE, i) = "A"
            BY <3>0, <2>1, <2>2, <2>4, <2>7, Zenon
        <3>2. 1 # 0 /\ "A" # "G"
            OBVIOUS
        <3>. QED
            BY <1>1, <2>6, <3>1, <3>2, Zenon
    <2>8. CASE i % 2 = 1
        <3>0. 1 + (i % 2) = 2
            BY <2>8
        <3>1. Label(i, w) = 2 /\ BaseOf(w, FALSE, i) = "B"
            BY <3>0, <2>1, <2>2, <2>5, <2>8, Zenon
        <3>2. 2 # 0 /\ "B" # "G"
            OBVIOUS
        <3>. QED
            BY <1>1, <2>6, <3>1, <3>2, Zenon
    <2>. QED
        BY <2>3, <2>7, <2>8, Zenon
<1>2. CASE ~w
    <2>1. BaseOf(w, FALSE, i) = IF i < KangCnt \div 3 THEN "G" ELSE StartBase(i)
        BY <1>2 DEF BaseOf
    <2>3. Label(i, w) = Label(i, FALSE)
        BY <1>2
    <2>4. StartBase(i) = "none" <=> i < KangCnt \div 3
        BY Bases
    <2>5. StartBase(i) # "none" => StartBase(i) \in {"A", "B"}
        BY DEF StartBase
    <2>6. CASE StartBase(i) = "none"
        <3>1. BaseOf(w, FALSE, i) = "G" /\ TypeOfBase("G") = 0
            BY <2>1, <2>4, <2>6 DEF TypeOfBase
        <3>. QED
            BY <1>2, <2>3, <2>6, <3>1, Thirds
    <2>7. CASE StartBase(i) # "none"
        <3>1. BaseOf(w, FALSE, i) = StartBase(i) /\ StartBase(i) # "G"
            BY <2>1, <2>4, <2>5, <2>7
        <3>. QED
            BY <1>2, <2>3, <2>7, <3>1, Thirds
    <2>. QED
        BY <2>6, <2>7
<1>. QED
    BY <1>1, <1>2

LEMMA OutAll ==
    ASSUME Control, Data, KernelB, AfterA(kangs, from, calls),
           Laid(kangs, kp.wilds, kp.gen)
    PROVE  /\ kp.gen => OutTames(out')
           /\ ~kp.gen => OutRight(out', kp.wilds)
<1>. DEFINE walk == Jump(calls, "walk")
<1>0. walk \in Nat /\ walk % 2 = 0
    BY Calls DEF Uses
<1>1. kp.wilds \in BOOLEAN /\ kp.gen \in BOOLEAN
    BY DEF Control, ControlTypes
<1>2. ASSUME NEW r \in out'
      PROVE  \E i \in Kang : /\ r.x.base = kangs[i].x.base
                            /\ r.x.off = kangs[i].d + walk
                            /\ r.d = kangs[i].d + walk
                            /\ r.type = Label(i, kp.wilds) /\ r.i = i
    <2>1. PICK i \in Kang \ looped' : /\ r.x = Moved(from[i], walk)
                                     /\ r.d = kangs'[i].d
                                     /\ r.type = Label(i, kp.wilds) /\ r.i = i
        BY KernelBEffect
    <2>2. kangs'[i].d = kangs[i].d + walk
        BY KernelBEffect
    <2>3. from[i].off = kangs[i].d /\ kangs[i].x = Moved(from[i], walk)
        BY DEF AfterA
    <2>4. from[i] \in XType
        BY DEF Data, XType
    <2>. HIDE DEF walk
    <2>5. /\ r.x.base = kangs[i].x.base
          /\ r.x.off = kangs[i].d + walk
        BY <1>0, <2>1, <2>3, <2>4, MovedType
    <2>. QED
        BY <2>1, <2>2, <2>5
<1>. HIDE DEF walk
<1>3. ASSUME kp.gen
      PROVE  OutTames(out')
    <2>1. \A i \in Kang : BaseOf(kp.wilds, kp.gen, i) = "G"
        BY <1>3 DEF BaseOf
    <2>2. \A i \in Kang : kangs[i].x.base = "G"
        BY <2>1 DEF Laid
    <2>. QED
        BY <1>2, <2>2 DEF OutTames
<1>4. ASSUME ~kp.gen
      PROVE  OutRight(out', kp.wilds)
    <2>. SUFFICES ASSUME NEW r \in out'
                  PROVE  IF ~kp.wilds /\ OnBorder(r.i) THEN OneBelow(r) ELSE Right(r)
        BY DEF OutRight
    <2>1. PICK i \in Kang : /\ r.x.base = kangs[i].x.base
                          /\ r.x.off = kangs[i].d + walk
                          /\ r.d = kangs[i].d + walk
                          /\ r.type = Label(i, kp.wilds) /\ r.i = i
        BY <1>2
    <2>2. BaseOf(kp.wilds, kp.gen, i) = BaseOf(kp.wilds, FALSE, i)
        BY <1>4 DEF BaseOf
    <2>3. /\ kangs[i].x.base = BaseOf(kp.wilds, FALSE, i)
          /\ BaseOf(kp.wilds, FALSE, i) # "G" => kangs[i].d % 2 = 0
        BY <2>2 DEF Laid
    <2>4. kangs[i].d \in Nat
        BY DEF Data
    <2>5. BaseOf(kp.wilds, FALSE, i) # "G" => r.d % 2 = 0
        BY <1>0, <2>1, <2>3, <2>4, EvenSum
    <2>6. CASE kp.wilds \/ ~OnBorder(i)
        <3>1. /\ r.type = TypeOfBase(r.x.base)
              /\ r.type # 0 => r.d % 2 = 0
            BY <1>1, <2>1, <2>3, <2>5, <2>6, LabelOfBase
        <3>. QED
            BY <2>1, <2>6, <3>1 DEF Right
    <2>7. CASE ~kp.wilds /\ OnBorder(i)
        <3>1. r.type = TypeOfBase(r.x.base) - 1 /\ r.d % 2 = 0
            BY <1>1, <2>1, <2>3, <2>5, <2>7, LabelOfBase
        <3>. QED
            BY <2>1, <2>7, <3>1 DEF OneBelow
    <2>. QED
        BY <2>6, <2>7
<1>. QED
    BY <1>3, <1>4

LEMMA WindowsStep ==
    ASSUME Control, Data, Windows, [Next]_vars
    PROVE  Windows'
<1>. USE DEF Control, ControlTypes, Places, Phases, TornThere, Placing, Points,
             Kinds, Outputs, AtReinit, AtGpu, AtMain, flags, params, device, host,
             thread, AfterReinit, Starting, Reiniting, Midway
<1>0. TornThere'
    BY TornStep DEF Windows
<1>. USE DEF Windows
<1>13. kangs \in KType
    BY DEF Data, KType, XType
<1>1. CASE ReinitPlace
    <2>1. HuntDrawn(rnd')
        BY <1>1, HuntPlaced
    <2>. QED
        BY <1>0, <1>1, <2>1 DEF ReinitPlace
<1>2. CASE ReinitCopy
    <2>1. mixed \/ HuntLaid(kangs')
        BY <1>2, CopiedHunt DEF ReinitCopy
    <2>. QED
        BY <1>0, <1>2, <2>1 DEF ReinitCopy
<1>3. CASE ReinitGen
    <2>1. torn \/ (AllAt(kangs') /\ Laid(kangs', TRUE, FALSE))
        BY <1>3, <1>13, GenHunt DEF ReinitGen
    <2>. QED
        BY <1>0, <1>3, <2>1 DEF ReinitGen
<1>4. CASE ReinitClear
    BY <1>0, <1>4, ZenonT(40) DEF ReinitClear
<1>5. CASE StartPlace
    <2>1. StartDrawn(rnd')
        BY <1>5, StartPlaced
    <2>. QED
        BY <1>0, <1>5, <2>1 DEF StartPlace
<1>6. CASE StartCopy
    <2>1. torn \/ StartLaid(kangs')
        BY <1>6, CopiedStart DEF StartCopy
    <2>. QED
        BY <1>0, <1>6, <2>1 DEF StartCopy
<1>7. CASE StartGen
    <2>1. torn \/ (AllAt(kangs') /\ Laid(kangs', FALSE, IsGenMode))
        BY <1>7, <1>13, GenStart DEF StartGen
    <2>. QED
        BY <1>0, <1>7, <2>1 DEF StartGen
<1>8. CASE Launch
    BY <1>0, <1>8 DEF Launch, OutTames
<1>9. CASE KernelA
    <2>1. /\ AllAt(kangs) => AfterA(kangs', from', calls)
          /\ Laid(kangs, kp.wilds, kp.gen) => Laid(kangs', kp.wilds, kp.gen)
        BY <1>9, WalkAll
    <2>. QED
        BY <1>0, <1>9, <2>1 DEF KernelA
<1>10. CASE KernelB
    <2>1. /\ AfterA(kangs, from, calls) => AfterB(kangs', from, looped', calls)
          /\ Laid(kangs, kp.wilds, kp.gen) => Laid(kangs', kp.wilds, kp.gen)
        BY <1>10, CountAll
    <2>2. AfterA(kangs, from, calls) /\ Laid(kangs, kp.wilds, kp.gen) =>
            /\ kp.gen => OutTames(out')
            /\ ~kp.gen => OutRight(out', kp.wilds)
        BY <1>10, OutAll
    <2>. QED
        BY <1>0, <1>10, <2>1, <2>2 DEF KernelB
<1>11. CASE KernelC
    <2>1. AfterB(kangs, from, looped, calls) =>
            /\ AllAt(kangs')
            /\ Laid(kangs, kp.wilds, kp.gen) => Laid(kangs', kp.wilds, kp.gen)
        BY <1>11, LeaveAll
    <2>. QED
        BY <1>0, <1>11, <2>1 DEF KernelC
<1>12. CASE ~Touches
    BY <1>0, <1>12, QuietStep
<1>. QED
    BY <1>1, <1>2, <1>3, <1>4, <1>5, <1>6, <1>7, <1>8, <1>9, <1>10, <1>11, <1>12
    DEF Touches

LEMMA WindowsInit == Init => Windows
<1>. SUFFICES ASSUME Init PROVE Windows
    OBVIOUS
<1>1. mpc = "prepare" /\ gpc = "none" /\ torn = FALSE /\ stale = FALSE /\ out = {}
    BY DEF Init
<1>2. OutTames(out)
    BY <1>1 DEF OutTames
<1>. QED
    BY <1>1, <1>2
    DEF Windows, TornThere, Placing, Points, Kinds, Outputs, Starting, AtReinit

----------------------------------------------------------------------------
(* The theorems.                                                           *)

\* IInv holds, whatever the two threads do and in whatever order.
THEOREM Invariance == Spec => []IInv
<1>1. Init => IInv
    BY ControlInit, DataInit, WindowsInit DEF IInv
<1>2. IInv /\ [Next]_vars => IInv'
    BY ControlStep, DataStep, WindowsStep DEF IInv
<1>. QED
    BY <1>1, <1>2, PTL DEF Spec

\* The type invariant, for any jump tables, random numbers and bounds.
THEOREM TypeCorrect == Spec => []HostTypeOK
<1>1. IInv => HostTypeOK
    <2>. SUFFICES ASSUME IInv PROVE HostTypeOK
        OBVIOUS
    <2>1. /\ ThrCnt \in 0 .. 1 /\ calls \in 0 .. MaxCalls
          /\ draws \in 0 .. MaxDraws + 2
        BY HostAssumption DEF IInv, Control, Places, Counts, Due, DueHunt
    <2>2. /\ mode \in Modes /\ gTotalErrors \in 0 .. 1
          /\ kp \in [gen : BOOLEAN, wilds : BOOLEAN]
          /\ mem \in {"null", "live", "freed"}
        BY DEF IInv, Control, ControlTypes
    <2>3. /\ mpc \in {"prepare", "place", "copy", "gen", "clear", "create", "loop",
                       "stop", "join", "end"}
          /\ gpc \in {"none", "start", "copy", "gen", "clear", "loop", "A", "B", "C",
                       "read", "release", "exit", "end"}
        BY DEF IInv, Control, ControlTypes, AtMain, AtGpu, AtReinit
    <2>4. {gSolved, gTrapPhase, gHuntPhase, gConcurrentTableFull, StopFlag, Failed,
           IsGenMode, AllWildsMode, mixed, torn, stale} \subseteq BOOLEAN
        BY Zenon DEF IInv, Control, ControlTypes
    <2>. QED
        BY <2>1, <2>2, <2>3, <2>4 DEF IInv, Data, HostTypeOK
<1>. QED
    BY <1>1, Invariance, PTL

\* Between two calls of the kernels every kangaroo lies at its distance, but
\* for the windows of `torn' (GpuKang.cpp, RCGpuCore.cu).
THEOREM PointsCorrect == Spec => []PointsTrue
<1>1. IInv => PointsTrue
    BY DEF IInv, Windows, Points, PointsTrue, AllAt
<1>. QED
    BY <1>1, Invariance, PTL

\* BuildDP's labels are those of the points, whatever the number of kangaroos,
\* but for the two on the borders of the thirds, whose label is the one before,
\* and for the windows of `torn' and `stale'.
THEOREM DPsRightCorrect == Spec => []DPsRight
<1>1. IInv => DPsRight
    BY DEF IInv, Windows, Outputs, OutRight, DPsRight
<1>. QED
    BY <1>1, Invariance, PTL

\* Whatever TRAP files as a TAME is a TAME, at its distance.
THEOREM TrapFilesTamesCorrect == Spec => []TrapFilesTames
<1>1. IInv => TrapFilesTames
    BY DEF IInv, Windows, Outputs, OutTames, TrapFilesTames
<1>. QED
    BY <1>1, Invariance, PTL

\* ReinitForHunt never finds RndPnts released unless a CUDA call has failed.
THEOREM NoUseAfterReleaseCorrect == Spec => []NoUseAfterRelease
<1>1. IInv => NoUseAfterRelease
    BY DEF IInv, Control, ControlTypes, Places, NoUseAfterRelease, Reiniting
<1>. QED
    BY <1>1, Invariance, PTL

=============================================================================
