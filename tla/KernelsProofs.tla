--------------------------- MODULE KernelsProofs ---------------------------
(***************************************************************************)
(* Proofs about Kernels: between two calls the point of a kangaroo lies at *)
(* its distance, and the DPs that leave the kernels are true, but for the  *)
(* exceptions the two properties name, and no loop of a visible size goes  *)
(* unnoticed; for any jump tables, any walk, any number of jumps per call  *)
(* and any depth of the loop table.                                        *)
(***************************************************************************)
EXTENDS Kernels, SequenceTheorems, TLAPS

State == [pt : Int, mode : BOOLEAN]
JumpRec == [ind : Inds, inv : BOOLEAN, jmp2 : BOOLEAN, dp : BOOLEAN, num : Nat]

\* The types the proofs need.
TypeInv ==
    /\ pc \in {"host", "A", "B", "C"} /\ step \in 0 .. StepCnt
    /\ pt \in Int /\ mode \in BOOLEAN /\ dist \in Int
    /\ jlist \in Seq(JumpRec)
    /\ last \in [0 .. MdLen - 1 -> Int]
    /\ dpx \in [0 .. DpTableMax - 1 -> Int]
    /\ stored \in Nat /\ built \in Nat
    /\ looped \in BOOLEAN /\ mistaken \in BOOLEAN /\ exit \in 0 .. MdLen - 1
    /\ drift \in Int
    /\ cnt \in Nat /\ base \in Nat
    /\ path \in Seq(State)

\* Every point of the path has a hash.
HashInv ==
    /\ hash \in [DOMAIN hash -> Hash]
    /\ DOMAIN hash \subseteq Int
    /\ \A i \in 1 .. Len(path) : path[i].pt \in DOMAIN hash

\* How long the lists are, and that the path ends where the kangaroo is.
LenInv ==
    /\ Len(path) >= 1
    /\ path[Len(path)] = [pt |-> pt, mode |-> mode]
    /\ pc # "host" => base >= 1
    /\ pc = "A" => Len(path) = base + step /\ Len(jlist) = step
    /\ pc \in {"B", "C"} => Len(path) = base + StepCnt /\ Len(jlist) = StepCnt
    /\ pc = "C" => step = StepCnt

\* A state of the walk determines the next one.
WalkInv ==
    \A i \in 1 .. Len(path) - 1 :
        /\ path[i + 1].pt = path[i].pt + Jump(hash, path[i].pt, path[i].mode)
        /\ path[i + 1].mode =
              NextMode(hash, path[i].pt, path[i].mode, path[i + 1].pt)

\* The list of jumps and LastPnts are those of the path.
ListInv ==
    /\ pc # "host" => \A i \in 1 .. Len(jlist) :
         LET s == path[base + i - 1]
         IN  /\ jlist[i].ind = hash[s.pt].ind
             /\ jlist[i].inv = hash[s.pt].inv
             /\ jlist[i].jmp2 = s.mode
    /\ pc = "A" => \A n \in 0 .. MdLen - 1 : n + StepCnt - MdLen < step =>
         last[n] = path[base + n + StepCnt - MdLen + 1].pt
    /\ pc \in {"B", "C"} => \A n \in 0 .. MdLen - 1 :
         last[n] = path[base + n + StepCnt - MdLen + 1].pt

\* A loop of n jumps found at step j: the walk has repeated itself since, and
\* the last point in the same place of the loop is the one of step j.
LoopAt(j, n) ==
    /\ j < step
    /\ exit = MdLen - 1 - ((StepCnt - 1 - j) % n)
    /\ dist + drift = path[base + j + 1].pt
    /\ base + j + 1 - n >= 1
    /\ path[base + step] = path[base + step - n]
    /\ path[base + step - ((step - 1 - j) % n)] = path[base + j + 1]

\* What the distance is, and how far it is off, at each point of a call.
SumInv ==
    /\ pc = "host" => dist + drift = pt
    /\ pc = "A" => dist + drift = path[base].pt
    /\ pc \in {"B", "C"} /\ ~looped => dist + drift = path[base + step].pt
    /\ pc \in {"B", "C"} /\ looped /\ ~mistaken =>
         \E j \in 0 .. StepCnt - 1, n \in LoopSizes : LoopAt(j, n)
    /\ pc = "A" => ~looped

IInv == TypeInv /\ HashInv /\ LenInv /\ WalkInv /\ ListInv /\ SumInv

----------------------------------------------------------------------------
\* Division with remainder, one step further.
LEMMA ModStep ==
    ASSUME NEW a \in Nat, NEW n \in Nat \ {0}
    PROVE  /\ (a % n) \in 0 .. n - 1
           /\ (a % n) = n - 1 => ((a + 1) % n) = 0
           /\ (a % n) # n - 1 => ((a + 1) % n) = (a % n) + 1
  <1>1. /\ a = n * (a \div n) + (a % n)
        /\ (a % n) \in 0 .. n - 1
        /\ a \div n \in Nat
    BY SMTT(60)
  <1>2. ASSUME NEW b \in Nat, NEW q \in Nat, NEW r \in 0 .. n - 1, b = n * q + r
        PROVE  (b % n) = r
    BY <1>2, SMTT(60)
  <1>3. PICK q \in Nat : a = n * q + (a % n)
    BY <1>1
  <1>4. CASE (a % n) = n - 1
    <2>1. a + 1 = n * (q + 1) + 0 /\ a + 1 \in Nat /\ q + 1 \in Nat /\ 0 \in 0 .. n - 1
      BY <1>3, <1>4, SMTT(60)
    <2>2. ((a + 1) % n) = 0
      BY <1>2, <2>1, ZenonT(30)
    <2>3. QED
      BY <1>1, <1>4, <2>2
  <1>5. CASE (a % n) # n - 1
    <2>1. /\ a + 1 = n * q + ((a % n) + 1) /\ (a % n) + 1 \in 0 .. n - 1
          /\ a + 1 \in Nat
      BY <1>1, <1>3, <1>5, SMTT(60)
    <2>2. ((a + 1) % n) = (a % n) + 1
      BY <1>2, <2>1, ZenonT(30)
    <2>3. QED
      BY <1>1, <1>5, <2>2
  <1>6. QED
    BY <1>1, <1>4, <1>5

\* Looking at a point adds its hash and changes no other.
LEMMA MetFacts ==
    ASSUME NEW p \in Int, hash \in [DOMAIN hash -> Hash], DOMAIN hash \subseteq Int,
           NEW hs \in Met(p)
    PROVE  /\ hs \in [DOMAIN hs -> Hash]
           /\ DOMAIN hs \subseteq Int
           /\ DOMAIN hash \subseteq DOMAIN hs /\ p \in DOMAIN hs
           /\ \A q \in DOMAIN hash : hs[q] = hash[q]
  <1>1. CASE p \in DOMAIN hash
    BY <1>1 DEF Met
  <1>2. CASE p \notin DOMAIN hash
    <2>1. PICK r \in Hash : hs = [q \in DOMAIN hash \cup {p} |->
                                     IF q = p THEN r ELSE hash[q]]
      BY <1>2 DEF Met
    <2>2. QED
      BY <1>2, <2>1
  <1>3. QED
    BY <1>1, <1>2

\* Jumps have integer lengths.
LEMMA JumpType ==
    ASSUME NEW hs, hs \in [DOMAIN hs -> Hash], NEW p \in DOMAIN hs, NEW m \in BOOLEAN
    PROVE  Jump(hs, p, m) \in Int
  <1>1. hs[p] \in Hash
    OBVIOUS
  <1>2. J1[hs[p].ind] \in Int /\ J2[hs[p].ind] \in Int
    BY <1>1, KernelsAssumption DEF Hash
  <1>3. QED
    BY <1>2 DEF Jump, Signed

\* What the assumption says of the numbers.
LEMMA Sizes ==
    /\ MdLen \in Nat /\ MdLen >= 4 /\ StepCnt \in Nat /\ MdLen <= StepCnt
    /\ DpTableMax \in Nat \ {0} /\ MaxDp \in Nat \ {0}
    /\ \A n \in LoopSizes : n \in Nat \ {0} /\ n >= 4 /\ n <= MdLen
  BY KernelsAssumption DEF LoopSizes

\* The path and the list of jumps as sequences.
LEMMA Lists ==
    ASSUME TypeInv
    PROVE  /\ Len(path) \in Nat /\ Len(jlist) \in Nat
           /\ \A i \in 1 .. Len(path) : path[i] \in State
           /\ \A i \in 1 .. Len(jlist) : jlist[i] \in JumpRec
  BY LenProperties, ElementOfSeq DEF TypeInv

\* The jump of a record of the list is an integer.
LEMMA RecType ==
    ASSUME TypeInv, NEW i \in 1 .. Len(jlist)
    PROVE  /\ jlist[i] \in JumpRec
           /\ Signed(jlist[i].inv, IF jlist[i].jmp2 THEN J2[jlist[i].ind]
                                   ELSE J1[jlist[i].ind]) \in Int
  <1>1. jlist[i] \in JumpRec
    BY Lists
  <1>2. J1[jlist[i].ind] \in Int /\ J2[jlist[i].ind] \in Int
    BY <1>1, KernelsAssumption DEF JumpRec
  <1>3. QED
    BY <1>1, <1>2 DEF Signed

\* One step of KernelA, and what it leaves of the hashes.
LEMMA KernelAStep ==
    ASSUME TypeInv, HashInv, LenInv, KernelA
    PROVE  \E q \in Int, m \in BOOLEAN, r \in JumpRec :
             /\ hash' \in [DOMAIN hash' -> Hash] /\ DOMAIN hash' \subseteq Int
             /\ DOMAIN hash \subseteq DOMAIN hash' /\ q \in DOMAIN hash'
             /\ \A p \in DOMAIN hash : hash'[p] = hash[p]
             /\ pt \in DOMAIN hash
             /\ q = pt + Jump(hash, pt, mode)
             /\ m = NextMode(hash', pt, mode, q)
             /\ pt' = q /\ mode' = m
             /\ path' = Append(path, [pt |-> q, mode |-> m])
             /\ r.ind = hash[pt].ind /\ r.inv = hash[pt].inv /\ r.jmp2 = mode
             /\ r.dp = hash'[q].dp /\ r.num = stored
             /\ jlist' = Append(jlist, r)
             /\ IF r.dp
                THEN /\ stored' = stored + 1
                     /\ dpx' = [dpx EXCEPT ![IF stored < DpTableMax THEN stored
                                             ELSE DpTableMax - 1] = q]
                ELSE UNCHANGED <<stored, dpx>>
             /\ last' = IF step + MdLen >= StepCnt
                        THEN [last EXCEPT ![step + MdLen - StepCnt] = q]
                        ELSE last
  <1>1. pt \in DOMAIN hash
    BY Lists DEF LenInv, HashInv
  <1> DEFINE q == pt + Jump(hash, pt, mode)
  <1>2. q \in Int
    <2>1. Jump(hash, pt, mode) \in Int
      BY <1>1, JumpType DEF TypeInv, HashInv
    <2>2. QED
      BY <2>1 DEF TypeInv
  <1>3. hash' \in Met(q)
    BY DEF KernelA
  <1>4. /\ hash' \in [DOMAIN hash' -> Hash] /\ DOMAIN hash' \subseteq Int
        /\ DOMAIN hash \subseteq DOMAIN hash' /\ q \in DOMAIN hash'
        /\ \A p \in DOMAIN hash : hash'[p] = hash[p]
    BY <1>2, <1>3, MetFacts DEF HashInv
  <1> DEFINE m == NextMode(hash', pt, mode, q)
             r == [ind |-> hash'[pt].ind, inv |-> hash'[pt].inv, jmp2 |-> mode,
                   dp |-> hash'[q].dp, num |-> stored]
  <1>5. m \in BOOLEAN
    BY DEF NextMode, Undone
  <1>6. r \in JumpRec
    <2>1. hash'[pt] \in Hash /\ hash'[q] \in Hash
      BY <1>1, <1>4
    <2>2. mode \in BOOLEAN /\ stored \in Nat
      BY DEF TypeInv
    <2>3. QED
      BY <2>1, <2>2 DEF JumpRec, Hash
  <1>7. r.ind = hash[pt].ind /\ r.inv = hash[pt].inv /\ r.jmp2 = mode
        /\ r.dp = hash'[q].dp /\ r.num = stored
    BY <1>1, <1>4
  <1>8. /\ pt' = q /\ mode' = m
        /\ path' = Append(path, [pt |-> q, mode |-> m])
        /\ jlist' = Append(jlist, r)
        /\ IF r.dp
           THEN /\ stored' = stored + 1
                /\ dpx' = [dpx EXCEPT ![IF stored < DpTableMax THEN stored
                                        ELSE DpTableMax - 1] = q]
           ELSE UNCHANGED <<stored, dpx>>
        /\ last' = IF step + MdLen >= StepCnt
                   THEN [last EXCEPT ![step + MdLen - StepCnt] = q]
                   ELSE last
    BY DEF KernelA
  <1> HIDE DEF q, m, r
  <1>9. q = pt + Jump(hash, pt, mode) /\ m = NextMode(hash', pt, mode, q)
    BY DEF q, m
  <1>10. QED
    BY <1>1, <1>2, <1>4, <1>5, <1>6, <1>7, <1>8, <1>9

\* KernelA makes the path and the list of jumps one longer.
LEMMA KernelALists ==
    ASSUME TypeInv, HashInv, LenInv, KernelA
    PROVE  /\ path' \in Seq(State) /\ Len(path') = Len(path) + 1
           /\ \A i \in 1 .. Len(path) : path'[i] = path[i]
           /\ path'[Len(path) + 1] = [pt |-> pt', mode |-> mode']
           /\ jlist' \in Seq(JumpRec) /\ Len(jlist') = Len(jlist) + 1
           /\ \A i \in 1 .. Len(jlist) : jlist'[i] = jlist[i]
           /\ pt' \in Int /\ mode' \in BOOLEAN
  <1>1. PICK q \in Int, m \in BOOLEAN, r \in JumpRec :
             /\ pt' = q /\ mode' = m
             /\ path' = Append(path, [pt |-> q, mode |-> m])
             /\ jlist' = Append(jlist, r)
    BY KernelAStep
  <1>2. [pt |-> q, mode |-> m] \in State
    BY DEF State
  <1>3. /\ path' \in Seq(State) /\ Len(path') = Len(path) + 1
        /\ \A i \in 1 .. Len(path) : path'[i] = path[i]
        /\ path'[Len(path) + 1] = [pt |-> pt', mode |-> mode']
    BY <1>1, <1>2, AppendProperties DEF TypeInv
  <1>4. /\ jlist' \in Seq(JumpRec) /\ Len(jlist') = Len(jlist) + 1
        /\ \A i \in 1 .. Len(jlist) : jlist'[i] = jlist[i]
    BY <1>1, AppendProperties DEF TypeInv
  <1>5. QED
    BY <1>1, <1>3, <1>4

----------------------------------------------------------------------------
LEMMA InitInv == Init => IInv
  <1>1. SUFFICES ASSUME Init PROVE IInv
    OBVIOUS
  <1>2. PICK r \in Hash : hash = [p \in {0} |-> r]
    BY <1>1 DEF Init
  <1>3. /\ path \in Seq(State) /\ Len(path) = 1
        /\ path[1] = [pt |-> 0, mode |-> FALSE]
    BY <1>1 DEF Init, State
  <1>4. TypeInv
    <2>1. jlist \in Seq(JumpRec)
      BY <1>1, EmptySeq DEF Init
    <2>2. /\ last \in [0 .. MdLen - 1 -> Int] /\ dpx \in [0 .. DpTableMax - 1 -> Int]
          /\ exit \in 0 .. MdLen - 1 /\ step \in 0 .. StepCnt
      BY <1>1, Sizes DEF Init
    <2>3. base \in Nat /\ cnt \in Nat /\ built \in Nat /\ stored \in Nat
          /\ pt \in Int /\ dist \in Int /\ mode \in BOOLEAN /\ looped \in BOOLEAN
          /\ mistaken \in BOOLEAN /\ drift \in Int /\ pc \in {"host", "A", "B", "C"}
      BY <1>1 DEF Init
    <2>4. QED
      BY <1>3, <2>1, <2>2, <2>3 DEF TypeInv
  <1>5. HashInv
    BY <1>2, <1>3 DEF HashInv
  <1>6. LenInv
    <2>1. [pt |-> 0, mode |-> FALSE] = [pt |-> pt, mode |-> mode]
      BY <1>1, Zenon DEF Init
    <2>2. pc = "host"
      BY <1>1 DEF Init
    <2>3. QED
      BY <1>3, <2>1, <2>2 DEF LenInv
  <1>7. WalkInv
    BY <1>3 DEF WalkInv
  <1>8. ListInv /\ SumInv
    BY <1>1 DEF Init, ListInv, SumInv
  <1>9. QED
    BY <1>4, <1>5, <1>6, <1>7, <1>8 DEF IInv

\* The step of KernelC, for a looped kangaroo.
LEMMA KernelCStep ==
    ASSUME TypeInv, HashInv, LenInv, ListInv, KernelC, looped
    PROVE  /\ last[exit] = path[base + exit + StepCnt - MdLen + 1].pt
           /\ pt' \in Int /\ dist' \in Int /\ pt' - dist' = last[exit] - dist
           /\ hash' \in Met(pt') /\ mode' = FALSE
           /\ path' = <<[pt |-> pt', mode |-> FALSE]>>
  <1> USE Sizes
  <1>1. last[exit] = path[base + exit + StepCnt - MdLen + 1].pt
    BY DEF KernelC, ListInv, TypeInv
  <1>2. base + exit + StepCnt - MdLen + 1 \in 1 .. Len(path)
    BY Lists DEF KernelC, LenInv, TypeInv
  <1>3. hash[last[exit]] \in Hash
    BY <1>1, <1>2 DEF HashInv
  <1> DEFINE j == Signed(hash[last[exit]].inv, J3[hash[last[exit]].ind])
  <1>4. j \in Int
    BY <1>3, KernelsAssumption DEF Hash, Signed
  <1>5. last[exit] \in Int /\ dist \in Int
    BY DEF TypeInv
  <1>6. /\ pt' = last[exit] + j /\ dist' = dist + j /\ mode' = FALSE
        /\ hash' \in Met(last[exit] + j)
        /\ path' = <<[pt |-> last[exit] + j, mode |-> FALSE]>>
    BY DEF KernelC
  <1> HIDE DEF j
  <1>7. QED
    BY <1>1, <1>4, <1>5, <1>6

LEMMA TypeStep == IInv /\ [Next]_vars => TypeInv'
  <1> SUFFICES ASSUME IInv, [Next]_vars PROVE TypeInv'
    OBVIOUS
  <1> USE Sizes
  <1>0. TypeInv /\ HashInv /\ LenInv /\ ListInv
    BY DEF IInv
  <1>1. CASE Execute
    <2>1. Len(path) \in Nat /\ <<>> \in Seq(JumpRec)
      BY <1>0, Lists, EmptySeq
    <2>2. QED
      <3>1. /\ pc' \in {"host", "A", "B", "C"} /\ step' \in 0 .. StepCnt
            /\ jlist' \in Seq(JumpRec) /\ stored' \in Nat /\ built' \in Nat
            /\ cnt' \in Nat /\ base' \in Nat
        BY <1>1, <2>1 DEF Execute
      <3>2. looped' \in BOOLEAN /\ mistaken' \in BOOLEAN
            /\ UNCHANGED <<pt, mode, dist, last, dpx, exit, path, drift>>
        BY <1>1 DEF Execute
      <3>3. QED
        BY <1>0, <3>1, <3>2 DEF TypeInv
  <1>2. CASE KernelA
    <2>1. PICK q \in Int, m \in BOOLEAN, r \in JumpRec :
             /\ pt' = q
             /\ IF r.dp
                THEN /\ stored' = stored + 1
                     /\ dpx' = [dpx EXCEPT ![IF stored < DpTableMax THEN stored
                                             ELSE DpTableMax - 1] = q]
                ELSE UNCHANGED <<stored, dpx>>
             /\ last' = IF step + MdLen >= StepCnt
                        THEN [last EXCEPT ![step + MdLen - StepCnt] = q]
                        ELSE last
      BY <1>0, <1>2, KernelAStep
    <2>2. last' \in [0 .. MdLen - 1 -> Int]
      BY <1>0, <2>1 DEF TypeInv
    <2>3. stored' \in Nat /\ dpx' \in [0 .. DpTableMax - 1 -> Int]
      <3>1. stored \in Nat /\ dpx \in [0 .. DpTableMax - 1 -> Int]
        BY <1>0 DEF TypeInv
      <3>2. CASE r.dp
        <4>1. stored' = stored + 1
              /\ dpx' = [dpx EXCEPT ![IF stored < DpTableMax THEN stored
                                      ELSE DpTableMax - 1] = q]
          BY <2>1, <3>2
        <4>2. QED
          BY <3>1, <4>1
      <3>3. CASE ~r.dp
        BY <2>1, <3>1, <3>3
      <3>4. QED
        BY <3>2, <3>3
    <2>4. step' \in 0 .. StepCnt
      BY <1>0, <1>2 DEF KernelA, TypeInv
    <2>5. UNCHANGED <<pc, dist, built, looped, exit, mistaken, cnt, base, drift>>
      BY <1>2 DEF KernelA, sums
    <2>6. /\ path' \in Seq(State) /\ jlist' \in Seq(JumpRec)
          /\ pt' \in Int /\ mode' \in BOOLEAN
      BY <1>0, <1>2, KernelALists
    <2>7. QED
      BY <1>0, <2>2, <2>3, <2>4, <2>5, <2>6 DEF TypeInv
  <1>3. CASE KernelAEnd
    BY <1>0, <1>3 DEF KernelAEnd, TypeInv, walk, sums, ghosts
  <1>4. CASE ProcessJumpDistance
    <2>1. step + 1 \in 1 .. Len(jlist)
      BY <1>0, <1>4, Lists DEF ProcessJumpDistance, LenInv, TypeInv
    <2>2. dist' \in Int
      BY <1>0, <1>4, <2>1, RecType DEF ProcessJumpDistance, TypeInv
    <2>3. cnt' \in Nat /\ built' \in Nat
      <3>1. UNCHANGED <<built, out, cnt>> \/ \E d \in {dist'} : BuildDP(d)
        BY <1>4 DEF ProcessJumpDistance
      <3>2. cnt \in Nat /\ built \in Nat
        BY <1>0 DEF TypeInv
      <3>3. cnt' \in {cnt, cnt + 1} /\ built' \in {built, built + 1}
        BY <3>1 DEF BuildDP, WriteDP
      <3>4. QED
        BY <3>2, <3>3
    <2>4. looped' \in BOOLEAN
      BY <1>0, <1>4 DEF ProcessJumpDistance, TypeInv
    <2>5. mistaken' \in BOOLEAN
      <3>1. mistaken' = mistaken \/ \E b \in BOOLEAN : mistaken' = b
        BY <1>4, Zenon DEF ProcessJumpDistance
      <3>2. QED
        BY <1>0, <3>1, Zenon DEF TypeInv
    <2>6. exit' \in 0 .. MdLen - 1
      <3>1. CASE exit' = exit
        BY <1>0, <3>1 DEF TypeInv
      <3>2. CASE exit' # exit
        <4>1. PICK n \in LoopSizes : exit' = ExitPoint(n)
          BY <1>4, <3>2 DEF ProcessJumpDistance, Repeats
        <4>2. StepCnt - 1 - step \in Nat
          BY <1>0, <1>4 DEF ProcessJumpDistance, TypeInv
        <4>3. ((StepCnt - 1 - step) % n) \in 0 .. n - 1
          BY <4>1, <4>2, ModStep
        <4>4. QED
          BY <4>1, <4>3 DEF ExitPoint
      <3>3. QED
        BY <3>1, <3>2
    <2>7. step' \in 0 .. StepCnt /\ UNCHANGED <<pc, walk, ghosts>>
      BY <1>0, <1>4 DEF ProcessJumpDistance, TypeInv
    <2>8. QED
      BY <1>0, <2>2, <2>3, <2>4, <2>5, <2>6, <2>7 DEF TypeInv, walk, ghosts
  <1>5. CASE SkipLooped
    BY <1>0, <1>5 DEF SkipLooped, TypeInv, walk, sums, ghosts
  <1>6. CASE OtherDP
    <2>1. cnt' = cnt + 1 /\ UNCHANGED <<pc, step, walk, sums, ghosts>>
      BY <1>6 DEF OtherDP, WriteDP
    <2>2. QED
      BY <1>0, <2>1 DEF TypeInv, walk, sums, ghosts
  <1>7. CASE KernelBEnd
    BY <1>0, <1>7 DEF KernelBEnd, TypeInv, walk, ghosts
  <1>8. CASE KernelC
    <2>1. CASE ~looped
      BY <1>0, <1>8, <2>1 DEF KernelC, TypeInv
    <2>2. CASE looped
      <3>1. pt' \in Int /\ dist' \in Int /\ mode' = FALSE
            /\ path' = <<[pt |-> pt', mode |-> FALSE]>>
        BY <1>0, <1>8, <2>2, KernelCStep
      <3>2. path' \in Seq(State)
        BY <3>1 DEF State
      <3>4. drift' \in Int
        <4>1. drift' \in {last[exit] - dist, drift}
          BY <1>8, <2>2 DEF KernelC
        <4>2. QED
          BY <1>0, <4>1 DEF TypeInv
      <3>3. QED
        BY <1>0, <1>8, <3>1, <3>2, <3>4 DEF KernelC, TypeInv
    <2>3. QED
      BY <1>0, <2>1, <2>2 DEF TypeInv
  <1>9. CASE UNCHANGED vars
    BY <1>0, <1>9 DEF TypeInv, vars, walk, sums, ghosts
  <1>10. QED
    BY <1>1, <1>2, <1>3, <1>4, <1>5, <1>6, <1>7, <1>8, <1>9 DEF Next

\* Only KernelA and KernelC look at points.
LEMMA WalkFrame ==
    ASSUME [Next]_vars, ~KernelA, ~(KernelC /\ looped)
    PROVE  UNCHANGED <<hash, path, pt, mode>>
  <1>1. CASE Execute
    BY <1>1 DEF Execute
  <1>2. CASE KernelAEnd
    BY <1>2 DEF KernelAEnd, walk, ghosts
  <1>3. CASE ProcessJumpDistance
    BY <1>3 DEF ProcessJumpDistance, walk, ghosts
  <1>4. CASE SkipLooped
    BY <1>4 DEF SkipLooped, walk, ghosts
  <1>5. CASE OtherDP
    BY <1>5 DEF OtherDP, walk, ghosts
  <1>6. CASE KernelBEnd
    BY <1>6 DEF KernelBEnd, walk, ghosts
  <1>7. CASE KernelC /\ ~looped
    BY <1>7 DEF KernelC
  <1>8. CASE UNCHANGED vars
    BY <1>8 DEF vars
  <1>9. QED
    BY <1>1, <1>2, <1>3, <1>4, <1>5, <1>6, <1>7, <1>8 DEF Next

LEMMA HashStep == IInv /\ [Next]_vars => HashInv'
  <1> SUFFICES ASSUME IInv, [Next]_vars PROVE HashInv'
    OBVIOUS
  <1>0. TypeInv /\ HashInv /\ LenInv /\ ListInv
    BY DEF IInv
  <1>1. CASE KernelA
    <2>1. /\ hash' \in [DOMAIN hash' -> Hash] /\ DOMAIN hash' \subseteq Int
          /\ DOMAIN hash \subseteq DOMAIN hash' /\ pt' \in DOMAIN hash'
      BY <1>0, <1>1, KernelAStep
    <2>2. ASSUME NEW i \in 1 .. Len(path') PROVE path'[i].pt \in DOMAIN hash'
      <3>1. CASE i \in 1 .. Len(path)
        BY <1>0, <1>1, <2>1, <3>1, KernelALists DEF HashInv
      <3>2. CASE i = Len(path) + 1
        <4>1. path'[i] = [pt |-> pt', mode |-> mode']
          BY <1>0, <1>1, <3>2, KernelALists
        <4>2. QED
          BY <2>1, <4>1
      <3>3. QED
        BY <1>0, <1>1, <3>1, <3>2, Lists, KernelALists
    <2>3. QED
      BY <2>1, <2>2 DEF HashInv
  <1>2. CASE KernelC /\ looped
    <2>1. /\ pt' \in Int /\ hash' \in Met(pt')
          /\ path' = <<[pt |-> pt', mode |-> FALSE]>>
      BY <1>0, <1>2, KernelCStep
    <2>2. /\ hash' \in [DOMAIN hash' -> Hash] /\ DOMAIN hash' \subseteq Int
          /\ pt' \in DOMAIN hash'
      BY <1>0, <2>1, MetFacts DEF HashInv
    <2>3. QED
      BY <2>1, <2>2 DEF HashInv
  <1>3. CASE ~KernelA /\ ~(KernelC /\ looped)
    BY <1>0, <1>3, WalkFrame DEF HashInv
  <1>4. QED
    BY <1>1, <1>2, <1>3

\* What a jump and the mode after it depend on.
LEMMA SameStep ==
    ASSUME NEW h1, NEW h2, NEW p, NEW q, NEW m, h1[p] = h2[p], h1[q] = h2[q]
    PROVE  /\ Jump(h1, p, m) = Jump(h2, p, m)
           /\ NextMode(h1, p, m, q) = NextMode(h2, p, m, q)
  BY DEF Jump, NextMode, Undone

\* One step of the path.
IsStep(hs, s, t) ==
    /\ t.pt = s.pt + Jump(hs, s.pt, s.mode)
    /\ t.mode = NextMode(hs, s.pt, s.mode, t.pt)

LEMMA WalkStep == IInv /\ [Next]_vars => WalkInv'
  <1> SUFFICES ASSUME IInv, [Next]_vars PROVE WalkInv'
    OBVIOUS
  <1>0. TypeInv /\ HashInv /\ LenInv /\ ListInv /\ WalkInv
    BY DEF IInv
  <1>1. CASE KernelA
    <2>1. /\ \A p \in DOMAIN hash : hash'[p] = hash[p]
          /\ pt \in DOMAIN hash
          /\ pt' = pt + Jump(hash, pt, mode)
          /\ mode' = NextMode(hash', pt, mode, pt')
      BY <1>0, <1>1, KernelAStep
    <2>2. ASSUME NEW i \in 1 .. Len(path') - 1
          PROVE  IsStep(hash', path'[i], path'[i + 1])
      <3>1. CASE i \in 1 .. Len(path) - 1
        <4>1. path'[i] = path[i] /\ path'[i + 1] = path[i + 1]
          BY <1>0, <1>1, <3>1, KernelALists, Lists, SMTT(30)
        <4>2. path[i].pt \in DOMAIN hash /\ path[i + 1].pt \in DOMAIN hash
          BY <1>0, <3>1, Lists DEF HashInv
        <4>3. IsStep(hash, path[i], path[i + 1])
          BY <1>0, <3>1 DEF WalkInv, IsStep
        <4>4. /\ Jump(hash', path[i].pt, path[i].mode)
                   = Jump(hash, path[i].pt, path[i].mode)
              /\ NextMode(hash', path[i].pt, path[i].mode, path[i + 1].pt)
                   = NextMode(hash, path[i].pt, path[i].mode, path[i + 1].pt)
          BY <2>1, <4>2, SameStep
        <4>5. QED
          BY <4>1, <4>3, <4>4 DEF IsStep
      <3>2. CASE i = Len(path)
        <4>1. path'[i] = [pt |-> pt, mode |-> mode]
          BY <1>0, <1>1, <3>2, KernelALists DEF LenInv
        <4>2. path'[i + 1] = [pt |-> pt', mode |-> mode']
          BY <1>0, <1>1, <3>2, KernelALists
        <4>3. Jump(hash', pt, mode) = Jump(hash, pt, mode)
          BY <2>1 DEF Jump
        <4>4. QED
          BY <2>1, <4>1, <4>2, <4>3 DEF IsStep
      <3>3. QED
        BY <1>0, <1>1, <3>1, <3>2, Lists, KernelALists
    <2>3. QED
      BY <2>2 DEF WalkInv, IsStep, Jump, NextMode, Undone
  <1>2. CASE KernelC /\ looped
    <2>1. path' = <<[pt |-> pt', mode |-> FALSE]>>
      BY <1>0, <1>2, KernelCStep
    <2>2. 1 .. Len(path') - 1 = {}
      BY <2>1
    <2>3. QED
      BY <2>2 DEF WalkInv
  <1>3. CASE ~KernelA /\ ~(KernelC /\ looped)
    <2>1. hash' = hash /\ path' = path
      BY <1>3, WalkFrame
    <2>2. QED
      BY <1>0, <2>1 DEF WalkInv, Jump, NextMode, Undone
  <1>4. QED
    BY <1>1, <1>2, <1>3

LEMMA LenStep == IInv /\ [Next]_vars => LenInv'
  <1> SUFFICES ASSUME IInv, [Next]_vars PROVE LenInv'
    OBVIOUS
  <1> USE Sizes
  <1>0. TypeInv /\ HashInv /\ LenInv /\ ListInv
    BY DEF IInv
  <1>a. Len(path) \in Nat /\ Len(jlist) \in Nat /\ step \in 0 .. StepCnt /\ base \in Nat
    BY <1>0, Lists DEF TypeInv
  <1>1. CASE Execute
    <2>1. jlist' = <<>> /\ step' = 0 /\ base' = Len(path) /\ pc' = "A"
          /\ UNCHANGED <<path, pt, mode>>
      BY <1>1 DEF Execute
    <2>2. Len(jlist') = 0
      BY <2>1
    <2>3. QED
      BY <1>0, <1>a, <2>1, <2>2 DEF LenInv
  <1>2. CASE KernelA
    <2>1. pc = "A" /\ pc' = "A" /\ step' = step + 1 /\ base' = base
      BY <1>2 DEF KernelA
    <2>2. QED
      BY <1>0, <1>2, <1>a, <2>1, KernelALists DEF LenInv
  <1>3. CASE KernelAEnd
    BY <1>0, <1>3, <1>a DEF KernelAEnd, LenInv, walk, ghosts
  <1>4. CASE ProcessJumpDistance
    BY <1>0, <1>4, <1>a DEF ProcessJumpDistance, LenInv, walk, ghosts
  <1>5. CASE SkipLooped
    BY <1>0, <1>5, <1>a DEF SkipLooped, LenInv, walk, ghosts
  <1>6. CASE OtherDP
    BY <1>0, <1>6, <1>a DEF OtherDP, LenInv, walk, ghosts
  <1>7. CASE KernelBEnd
    BY <1>0, <1>7, <1>a DEF KernelBEnd, LenInv, walk, ghosts
  <1>8. CASE KernelC
    <2>1. CASE ~looped
      BY <1>0, <1>8, <1>a, <2>1 DEF KernelC, LenInv
    <2>2. CASE looped
      <3>1. /\ mode' = FALSE /\ path' = <<[pt |-> pt', mode |-> FALSE]>>
        BY <1>0, <1>8, <2>2, KernelCStep
      <3>2. Len(path') = 1 /\ path'[1] = [pt |-> pt', mode |-> FALSE]
        BY <3>1
      <3>3. path'[Len(path')] = [pt |-> pt', mode |-> mode']
        BY <3>1, <3>2, Zenon
      <3>4. QED
        <4>1. pc' = "host"
          BY <1>8 DEF KernelC
        <4>2. /\ pc' = "host" /\ pc' # "A" /\ pc' # "C" /\ pc' \notin {"B", "C"}
              /\ Len(path') >= 1
          BY <3>2, <4>1
        <4>3. QED
          BY <3>3, <4>2, Zenon DEF LenInv
    <2>3. QED
      BY <2>1, <2>2
  <1>9. CASE UNCHANGED vars
    BY <1>0, <1>9 DEF LenInv, vars
  <1>10. QED
    BY <1>1, <1>2, <1>3, <1>4, <1>5, <1>6, <1>7, <1>8, <1>9 DEF Next

LEMMA ListStep == IInv /\ [Next]_vars => ListInv'
  <1> SUFFICES ASSUME IInv, [Next]_vars PROVE ListInv'
    OBVIOUS
  <1> USE Sizes
  <1>0. TypeInv /\ HashInv /\ LenInv /\ ListInv
    BY DEF IInv
  <1>a. Len(path) \in Nat /\ Len(jlist) \in Nat /\ step \in 0 .. StepCnt /\ base \in Nat
    BY <1>0, Lists DEF TypeInv
  <1>1. CASE Execute
    <2>1. jlist' = <<>> /\ step' = 0 /\ pc' = "A"
      BY <1>1 DEF Execute
    <2>2. Len(jlist') = 0
      BY <2>1
    <2>3. QED
      BY <2>1, <2>2 DEF ListInv
  <1>2. CASE KernelA
    <2>1. /\ pc = "A" /\ pc' = "A" /\ step' = step + 1 /\ base' = base
          /\ step < StepCnt
      BY <1>2 DEF KernelA
    <2>2. Len(path) = base + step /\ Len(jlist) = step /\ base >= 1
      BY <1>0, <2>1 DEF LenInv
    <2>3. PICK r \in JumpRec :
             /\ \A p \in DOMAIN hash : hash'[p] = hash[p]
             /\ pt \in DOMAIN hash
             /\ r.ind = hash[pt].ind /\ r.inv = hash[pt].inv /\ r.jmp2 = mode
             /\ jlist' = Append(jlist, r)
             /\ last' = IF step + MdLen >= StepCnt
                        THEN [last EXCEPT ![step + MdLen - StepCnt] = pt']
                        ELSE last
      BY <1>0, <1>2, KernelAStep
    <2>4. ASSUME NEW i \in 1 .. Len(jlist')
          PROVE  /\ jlist'[i].ind = hash'[path'[base' + i - 1].pt].ind
                 /\ jlist'[i].inv = hash'[path'[base' + i - 1].pt].inv
                 /\ jlist'[i].jmp2 = path'[base' + i - 1].mode
      <3>1. CASE i \in 1 .. Len(jlist)
        <4>1. base + i - 1 \in 1 .. Len(path)
          BY <1>a, <2>2, <3>1
        <4>2. path'[base' + i - 1] = path[base + i - 1] /\ jlist'[i] = jlist[i]
          BY <1>0, <1>2, <2>1, <3>1, <4>1, KernelALists
        <4>3. hash'[path[base + i - 1].pt] = hash[path[base + i - 1].pt]
          BY <1>0, <2>3, <4>1 DEF HashInv
        <4>4. /\ jlist[i].ind = hash[path[base + i - 1].pt].ind
              /\ jlist[i].inv = hash[path[base + i - 1].pt].inv
              /\ jlist[i].jmp2 = path[base + i - 1].mode
          BY <1>0, <2>1, <3>1 DEF ListInv
        <4>5. QED
          BY <4>2, <4>3, <4>4, Zenon
      <3>2. CASE i = Len(jlist) + 1
        <4>1. base' + i - 1 = Len(path) /\ Len(path) \in 1 .. Len(path)
          BY <1>a, <2>1, <2>2, <3>2
        <4>2. path'[base' + i - 1] = [pt |-> pt, mode |-> mode]
          BY <1>0, <1>2, <4>1, KernelALists DEF LenInv
        <4>3. jlist'[i] = r
          BY <1>0, <2>3, <3>2, AppendProperties DEF TypeInv
        <4>4. hash'[pt] = hash[pt]
          BY <2>3
        <4>5. QED
          <5> DEFINE s == [pt |-> pt, mode |-> mode]
          <5>a. s.pt = pt /\ s.mode = mode
            OBVIOUS
          <5> HIDE DEF s
          <5>b. path'[base' + i - 1] = s
            BY <4>2 DEF s
          <5>1. path'[base' + i - 1].pt = pt /\ path'[base' + i - 1].mode = mode
            BY <5>a, <5>b, Zenon
          <5>2. r.ind = hash[pt].ind /\ r.inv = hash[pt].inv /\ r.jmp2 = mode
            BY <2>3
          <5>3. jlist'[i].ind = hash'[path'[base' + i - 1].pt].ind
            BY <4>3, <4>4, <5>1, <5>2, Zenon
          <5>4. jlist'[i].inv = hash'[path'[base' + i - 1].pt].inv
            BY <4>3, <4>4, <5>1, <5>2, Zenon
          <5>5. jlist'[i].jmp2 = path'[base' + i - 1].mode
            BY <4>3, <5>1, <5>2, Zenon
          <5>6. QED
            BY <5>3, <5>4, <5>5
      <3>3. QED
        BY <1>0, <1>2, <1>a, <3>1, <3>2, KernelALists
    <2>5. ASSUME NEW n \in 0 .. MdLen - 1, n + StepCnt - MdLen < step'
          PROVE  last'[n] = path'[base' + n + StepCnt - MdLen + 1].pt
      <3>1. CASE n + StepCnt - MdLen = step
        <4>1. base' + n + StepCnt - MdLen + 1 = Len(path) + 1
          BY <1>a, <2>1, <2>2, <3>1
        <4>2. path'[base' + n + StepCnt - MdLen + 1].pt = pt'
          BY <1>0, <1>2, <4>1, KernelALists
        <4>3. n = step + MdLen - StepCnt /\ step + MdLen >= StepCnt
          BY <1>a, <3>1
        <4>4. last'[n] = pt'
          BY <1>0, <2>3, <4>3 DEF TypeInv
        <4>5. QED
          BY <4>2, <4>4
      <3>2. CASE n + StepCnt - MdLen < step
        <4>1. base + n + StepCnt - MdLen + 1 \in 1 .. Len(path)
          BY <1>a, <2>2, <3>2
        <4>2. path'[base' + n + StepCnt - MdLen + 1]
                = path[base + n + StepCnt - MdLen + 1]
          BY <1>0, <1>2, <2>1, <4>1, KernelALists
        <4>3. last[n] = path[base + n + StepCnt - MdLen + 1].pt
          BY <1>0, <2>1, <3>2 DEF ListInv
        <4>4. n # step + MdLen - StepCnt
          BY <1>a, <3>2
        <4>5. last'[n] = last[n]
          BY <1>0, <2>3, <4>4 DEF TypeInv
        <4>6. QED
          BY <4>2, <4>3, <4>5
      <3>3. QED
        BY <1>a, <2>1, <2>5, <3>1, <3>2
    <2>6. QED
      BY <2>1, <2>4, <2>5 DEF ListInv
  <1>3. CASE KernelAEnd
    <2>1. /\ pc = "A" /\ step = StepCnt /\ pc' = "B"
          /\ UNCHANGED <<jlist, last, path, base, hash>>
      BY <1>3 DEF KernelAEnd, walk, ghosts
    <2>2. \A n \in 0 .. MdLen - 1 : n + StepCnt - MdLen < step
      BY <2>1
    <2>3. QED
      BY <1>0, <2>1, <2>2 DEF ListInv
  <1>4. CASE ProcessJumpDistance \/ SkipLooped \/ OtherDP \/ KernelBEnd
    <2>1. /\ pc = "B" /\ pc' \in {"B", "C"}
          /\ UNCHANGED <<jlist, last, path, base, hash>>
      BY <1>4 DEF ProcessJumpDistance, SkipLooped, OtherDP, KernelBEnd, walk, ghosts
    <2>2. QED
      BY <1>0, <2>1 DEF ListInv
  <1>5. CASE KernelC
    <2>1. pc' = "host"
      BY <1>5 DEF KernelC
    <2>2. QED
      BY <2>1 DEF ListInv
  <1>6. CASE UNCHANGED vars
    BY <1>0, <1>6 DEF ListInv, vars
  <1>7. QED
    BY <1>1, <1>2, <1>3, <1>4, <1>5, <1>6 DEF Next

----------------------------------------------------------------------------
\* A state of the walk that comes again is followed by the same state again.
LEMMA Determined ==
    ASSUME WalkInv, NEW a \in 1 .. Len(path) - 1, NEW b \in 1 .. Len(path) - 1,
           TypeInv, path[a] = path[b]
    PROVE  path[a + 1] = path[b + 1]
  <1>1. /\ path[a + 1].pt = path[a].pt + Jump(hash, path[a].pt, path[a].mode)
        /\ path[a + 1].mode
             = NextMode(hash, path[a].pt, path[a].mode, path[a + 1].pt)
        /\ path[b + 1].pt = path[b].pt + Jump(hash, path[b].pt, path[b].mode)
        /\ path[b + 1].mode
             = NextMode(hash, path[b].pt, path[b].mode, path[b + 1].pt)
    BY DEF WalkInv
  <1>2. path[a + 1].pt = path[b + 1].pt /\ path[a + 1].mode = path[b + 1].mode
    BY <1>1, Zenon
  <1>3. path[a + 1] \in State /\ path[b + 1] \in State
    BY Lists
  <1>4. ASSUME NEW s \in State, NEW t \in State, s.pt = t.pt, s.mode = t.mode
        PROVE  s = t
    BY <1>4 DEF State
  <1>5. QED
    BY <1>2, <1>3, <1>4, Zenon

\* KernelB, one step: it adds the jump that KernelA made.
LEMMA NextJump ==
    ASSUME TypeInv, HashInv, LenInv, WalkInv, ListInv, ProcessJumpDistance
    PROVE  \E d \in Int :
             /\ dist' = dist + d
             /\ path[base + step + 1].pt = path[base + step].pt + d
  <1> USE Sizes
  <1>1. /\ pc = "B" /\ step < StepCnt /\ step \in Nat /\ base >= 1 /\ base \in Nat
        /\ Len(path) = base + StepCnt /\ Len(jlist) = StepCnt
    BY DEF ProcessJumpDistance, LenInv, TypeInv
  <1> DEFINE s == path[base + step]
             j == jlist[step + 1]
             d == Signed(j.inv, IF j.jmp2 THEN J2[j.ind] ELSE J1[j.ind])
  <1>2. base + step \in 1 .. Len(path) - 1 /\ step + 1 \in 1 .. Len(jlist)
        /\ base + (step + 1) - 1 = base + step
    BY <1>1
  <1>3. path[base + step + 1].pt = s.pt + Jump(hash, s.pt, s.mode)
    BY <1>2 DEF WalkInv
  <1>4. j.ind = hash[s.pt].ind /\ j.inv = hash[s.pt].inv /\ j.jmp2 = s.mode
    BY <1>1, <1>2 DEF ListInv
  <1>5. dist' = dist + d
    BY DEF ProcessJumpDistance
  <1>6. d \in Int
    BY <1>2, RecType
  <1> HIDE DEF s, j
  <1>7. Jump(hash, s.pt, s.mode) = d
    BY <1>4, Zenon DEF Jump
  <1> HIDE DEF d
  <1>8. path[base + step + 1].pt = s.pt + d
    BY <1>3, <1>7
  <1>9. QED
    BY <1>5, <1>6, <1>8 DEF s

\* The distance is that of the point KernelA has reached.
LEMMA NextDist ==
    ASSUME TypeInv, HashInv, LenInv, WalkInv, ListInv, ProcessJumpDistance,
           dist + drift = path[base + step].pt
    PROVE  dist' + drift' = path[base + step + 1].pt
  <1>1. drift' = drift
    BY DEF ProcessJumpDistance, ghosts
  <1>2. PICK d \in Int :
          dist' = dist + d /\ path[base + step + 1].pt = path[base + step].pt + d
    BY NextJump
  <1>3. dist \in Int /\ drift \in Int
    BY DEF TypeInv
  <1>4. QED
    BY <1>1, <1>2, <1>3

\* The first point of a loop.
LEMMA LoopFound ==
    ASSUME TypeInv, LenInv, ProcessJumpDistance, dist' + drift' = path[base + step + 1].pt,
           looped', ~mistaken'
    PROVE  \E j \in 0 .. StepCnt - 1, n \in LoopSizes : LoopAt(j, n)'
  <1> USE Sizes
  <1>1. PICK n \in LoopSizes :
          exit' = ExitPoint(n) /\ mistaken' = ~Genuine(step, n)
    BY Zenon DEF ProcessJumpDistance, Repeats
  <1>2. Genuine(step, n)
    BY <1>1, Zenon
  <1>3. /\ step \in 0 .. StepCnt - 1 /\ step' = step + 1
        /\ UNCHANGED <<base, path>> /\ base \in Nat
    BY DEF ProcessJumpDistance, TypeInv, ghosts
  <1>4. PICK k \in 0 .. StepCnt - 1 : k = step
    BY <1>3
  <1>5. (step' - 1 - k) = 0 /\ (0 % n) = 0 /\ n \in Nat
    BY <1>1, <1>3, <1>4
  <1>6. /\ path[base + k + 1] = path[base + k + 1 - n] /\ base + k + 1 - n >= 1
        /\ step' = k + 1
    BY <1>2, <1>3, <1>4 DEF Genuine
  <1>7. LoopAt(k, n)'
    <2>1. exit' = MdLen - 1 - ((StepCnt - 1 - k) % n)
      BY <1>1, <1>4 DEF ExitPoint
    <2>2. path'[base' + step'] = path'[base' + step' - n]
      BY <1>3, <1>5, <1>6
    <2>3. path'[base' + step' - ((step' - 1 - k) % n)] = path'[base' + k + 1]
      BY <1>3, <1>5, <1>6
    <2>4. dist' + drift' = path'[base' + k + 1].pt /\ base' + k + 1 - n >= 1 /\ k < step'
      BY <1>3, <1>4, <1>6
    <2>5. QED
      BY <2>1, <2>2, <2>3, <2>4 DEF LoopAt
  <1>8. QED
    BY <1>1, <1>7

\* One step further along a loop.
LEMMA LoopGoesOn ==
    ASSUME TypeInv, LenInv, WalkInv, SkipLooped,
           NEW j \in 0 .. StepCnt - 1, NEW n \in LoopSizes, LoopAt(j, n)
    PROVE  LoopAt(j, n)'
  <1> USE Sizes
  <1>1. /\ pc = "B" /\ step \in Nat /\ step < StepCnt /\ step' = step + 1
        /\ UNCHANGED <<base, path, dist, drift, exit>> /\ base \in Nat /\ base >= 1
        /\ Len(path) = base + StepCnt
    BY DEF SkipLooped, TypeInv, LenInv, sums, ghosts
  <1>2. /\ j < step /\ n \in Nat \ {0} /\ base + j + 1 - n >= 1
        /\ path[base + step] = path[base + step - n]
        /\ path[base + step - ((step - 1 - j) % n)] = path[base + j + 1]
    BY DEF LoopAt
  <1>3. base + step \in 1 .. Len(path) - 1 /\ base + step - n \in 1 .. Len(path) - 1
        /\ base + step - n + 1 = base + (step + 1) - n
        /\ base + step + 1 = base + (step + 1)
    BY <1>1, <1>2
  <1>4. path[base + (step + 1)] = path[base + (step + 1) - n]
    BY <1>2, <1>3, Determined, SMTT(30)
  <1>5. PICK a \in Nat : a = step - 1 - j
    BY <1>1, <1>2
  <1>6. /\ (a % n) \in 0 .. n - 1
        /\ (a % n) = n - 1 => ((a + 1) % n) = 0
        /\ (a % n) # n - 1 => ((a + 1) % n) = (a % n) + 1
    BY <1>2, ModStep
  <1>7. path[base + (step + 1) - ((a + 1) % n)] = path[base + j + 1]
    <2>1. path[base + step - (a % n)] = path[base + j + 1]
      BY <1>2, <1>5
    <2>2. CASE (a % n) = n - 1
      <3>1. base + (step + 1) - n = base + step - (a % n) /\ ((a + 1) % n) = 0
            /\ base + (step + 1) - 0 = base + (step + 1)
        BY <1>1, <1>2, <1>6, <2>2
      <3>2. QED
        BY <1>4, <2>1, <3>1
    <2>3. CASE (a % n) # n - 1
      <3>1. base + (step + 1) - ((a + 1) % n) = base + step - (a % n)
        BY <1>1, <1>6, <2>3
      <3>2. QED
        BY <2>1, <3>1
    <2>4. QED
      BY <2>2, <2>3
  <1>8. step' - 1 - j = a + 1
    BY <1>1, <1>5
  <1>9. /\ exit' = MdLen - 1 - ((StepCnt - 1 - j) % n)
        /\ dist' + drift' = path'[base' + j + 1].pt /\ base' + j + 1 - n >= 1 /\ j < step'
    BY <1>1, <1>2 DEF LoopAt
  <1>10. /\ path'[base' + step'] = path'[base' + step' - n]
         /\ path'[base' + step' - ((step' - 1 - j) % n)] = path'[base' + j + 1]
    BY <1>1, <1>4, <1>7, <1>8
  <1>11. QED
    BY <1>9, <1>10 DEF LoopAt

\* KernelC jumps from a point as far from the distance as the kangaroo was.
LEMMA LoopLeft ==
    ASSUME TypeInv, LenInv, KernelC, NEW j \in 0 .. StepCnt - 1, NEW n \in LoopSizes,
           LoopAt(j, n)
    PROVE  path[base + exit + StepCnt - MdLen + 1].pt = dist + drift
  <1> USE Sizes
  <1>1. step = StepCnt /\ base \in Nat
    BY DEF KernelC, LenInv, TypeInv
  <1>2. PICK r \in 0 .. n - 1 : r = ((StepCnt - 1 - j) % n)
    <2>1. StepCnt - 1 - j \in Nat
      OBVIOUS
    <2>2. QED
      BY <2>1, ModStep
  <1>3. exit = MdLen - 1 - r /\ path[base + StepCnt - r] = path[base + j + 1]
        /\ dist + drift = path[base + j + 1].pt
    BY <1>1, <1>2 DEF LoopAt
  <1>4. base + exit + StepCnt - MdLen + 1 = base + StepCnt - r
    BY <1>1, <1>2, <1>3
  <1>5. QED
    BY <1>3, <1>4

LEMMA SumStep == IInv /\ [Next]_vars => SumInv'
  <1> SUFFICES ASSUME IInv, [Next]_vars PROVE SumInv'
    OBVIOUS
  <1> USE Sizes
  <1>0. TypeInv /\ HashInv /\ LenInv /\ WalkInv /\ ListInv /\ SumInv
    BY DEF IInv
  <1>a. Len(path) \in Nat /\ step \in 0 .. StepCnt /\ base \in Nat
    BY <1>0, Lists DEF TypeInv
  <1>1. CASE Execute
    <2>1. /\ pc = "host" /\ pc' = "A" /\ base' = Len(path) /\ looped' = FALSE
          /\ UNCHANGED <<drift, dist, pt, path>>
      BY <1>1 DEF Execute
    <2>2. dist + drift = pt /\ path[Len(path)].pt = pt
      BY <1>0, <2>1 DEF SumInv, LenInv
    <2>3. QED
      BY <2>1, <2>2 DEF SumInv
  <1>2. CASE KernelA
    <2>1. /\ pc = "A" /\ pc' = "A" /\ UNCHANGED <<drift, dist, looped, base>>
      BY <1>2 DEF KernelA, sums
    <2>2. base \in 1 .. Len(path)
      BY <1>0, <1>a, <2>1 DEF LenInv
    <2>3. path'[base] = path[base]
      BY <1>0, <1>2, <2>2, KernelALists
    <2>4. QED
      BY <1>0, <2>1, <2>3 DEF SumInv
  <1>3. CASE KernelAEnd
    <2>1. /\ pc = "A" /\ pc' = "B" /\ step' = 0
          /\ UNCHANGED <<drift, dist, looped, base, path>>
      BY <1>3 DEF KernelAEnd, sums, ghosts
    <2>2. base + 0 = base
      BY <1>a
    <2>3. QED
      BY <1>0, <2>1, <2>2 DEF SumInv
  <1>4. CASE ProcessJumpDistance
    <2>1. /\ pc = "B" /\ pc' = "B" /\ ~looped /\ step' = step + 1
          /\ UNCHANGED <<base, path>>
      BY <1>4 DEF ProcessJumpDistance, ghosts
    <2>3. dist + drift = path[base + step].pt
      BY <1>0, <2>1 DEF SumInv
    <2>4. dist' + drift' = path[base + step + 1].pt
      BY <1>0, <1>4, <2>3, NextDist
    <2>5. base + step + 1 = base' + step'
      BY <1>a, <2>1
    <2>6. looped' /\ ~mistaken' => \E j \in 0 .. StepCnt - 1, n \in LoopSizes : LoopAt(j, n)'
      BY <1>0, <1>4, <2>4, LoopFound
    <2>7. QED
      BY <2>1, <2>4, <2>5, <2>6 DEF SumInv
  <1>5. CASE SkipLooped
    <2>1. pc = "B" /\ pc' = "B" /\ looped /\ looped' /\ mistaken' = mistaken
      BY <1>5 DEF SkipLooped, sums
    <2>2. ASSUME ~mistaken
          PROVE  \E j \in 0 .. StepCnt - 1, n \in LoopSizes : LoopAt(j, n)'
      <3>1. PICK j \in 0 .. StepCnt - 1, n \in LoopSizes : LoopAt(j, n)
        BY <1>0, <2>1, <2>2 DEF SumInv
      <3>2. LoopAt(j, n)'
        BY <1>0, <1>5, <3>1, LoopGoesOn
      <3>3. QED
        BY <3>2
    <2>4. QED
      BY <2>1, <2>2 DEF SumInv
  <1>6. CASE OtherDP \/ KernelBEnd
    <2>1. /\ pc = "B" /\ pc' \in {"B", "C"}
          /\ UNCHANGED <<base, path, dist, drift, looped, exit, mistaken, step>>
      BY <1>6 DEF OtherDP, KernelBEnd, sums, ghosts
    <2>2. \A j, n : LoopAt(j, n) => LoopAt(j, n)'
      BY <2>1 DEF LoopAt
    <2>3. QED
      BY <1>0, <2>1, <2>2 DEF SumInv
  <1>7. CASE KernelC
    <2>1. pc = "C" /\ pc' = "host"
      BY <1>7 DEF KernelC
    <2>2. dist' + drift' = pt'
      <3>1. CASE ~looped
        <4>1. pt' = pt /\ dist' = dist /\ drift' = drift
          BY <1>7, <3>1 DEF KernelC
        <4>2. dist + drift = path[base + step].pt /\ base + step = Len(path)
              /\ path[Len(path)].pt = pt
          BY <1>0, <2>1, <3>1 DEF SumInv, LenInv
        <4>3. QED
          BY <4>1, <4>2
      <3>2. CASE looped
        <4>1. /\ pt' - dist' = last[exit] - dist
              /\ pt' \in Int /\ dist' \in Int /\ last[exit] \in Int
              /\ dist \in Int /\ drift \in Int
          BY <1>0, <1>7, <3>2, KernelCStep DEF TypeInv
        <4>2. drift' = IF mistaken THEN last[exit] - dist ELSE drift
          BY <1>7, <3>2 DEF KernelC
        <4>3. CASE mistaken
          BY <4>1, <4>2, <4>3
        <4>4. CASE ~mistaken
          <5>1. PICK j \in 0 .. StepCnt - 1, n \in LoopSizes : LoopAt(j, n)
            BY <1>0, <2>1, <3>2, <4>4 DEF SumInv
          <5>2. last[exit] = dist + drift
            <6>1. path[base + exit + StepCnt - MdLen + 1].pt = dist + drift
              BY <1>0, <1>7, <5>1, LoopLeft
            <6>2. last[exit] = path[base + exit + StepCnt - MdLen + 1].pt
              BY <1>0, <1>7, <3>2, KernelCStep
            <6>3. QED
              BY <6>1, <6>2
          <5>3. drift' = drift
            BY <4>2, <4>4
          <5>4. PICK p, d, e, f, x \in Int :
                  p = pt' /\ d = dist' /\ e = last[exit] /\ f = dist /\ x = drift
            BY <4>1, Zenon
          <5>5. p - d = e - f /\ e = f + x
            BY <4>1, <5>2, <5>4, Zenon
          <5>6. d + x = p
            BY <5>5
          <5>7. QED
            BY <5>3, <5>4, <5>6, Zenon
        <4>5. QED
          BY <4>3, <4>4
      <3>3. QED
        BY <3>1, <3>2
    <2>3. QED
      BY <2>1, <2>2 DEF SumInv
  <1>8. CASE UNCHANGED vars
    <2>1. UNCHANGED <<pc, base, path, dist, drift, looped, exit, mistaken, step, pt>>
      BY <1>8 DEF vars
    <2>2. \A j, n : LoopAt(j, n) => LoopAt(j, n)'
      BY <2>1 DEF LoopAt
    <2>3. QED
      BY <1>0, <2>1, <2>2 DEF SumInv
  <1>9. QED
    BY <1>1, <1>2, <1>3, <1>4, <1>5, <1>6, <1>7, <1>8 DEF Next

\* The invariant holds.
THEOREM Invariance == Spec => []IInv
  <1>1. IInv /\ [Next]_vars => IInv'
    BY TypeStep, HashStep, LenStep, WalkStep, ListStep, SumStep DEF IInv
  <1>2. QED
    BY InitInv, <1>1, PTL DEF Spec

(***************************************************************************)
(* Between two calls the point of a kangaroo lies at its distance, whatever*)
(* loops KernelB found and wherever KernelC jumped from them               *)
(* (RCGpuCore.cu 511-783); once KernelB has taken for a loop what was      *)
(* none, it is off by what the point KernelC jumped from then was off.     *)
(***************************************************************************)
THEOREM ConsistentCorrect == Spec => []Consistent
  <1>1. IInv => Consistent
    BY DEF IInv, SumInv, Consistent
  <1>2. QED
    BY Invariance, <1>1, PTL

----------------------------------------------------------------------------
\* The DPs of a call before a jump are counted in its record, and the x of a
\* DP is where that count says, as far as the table goes.
Dps(r) == IF r.dp THEN 1 ELSE 0

Kept(k, s) == k < DpTableMax /\ (k < DpTableMax - 1 \/ s <= DpTableMax)

NumInv ==
    pc # "host" =>
      /\ Len(jlist) >= 1 => jlist[1].num = 0
      /\ \A i \in 1 .. Len(jlist) - 1 : jlist[i + 1].num = jlist[i].num + Dps(jlist[i])
      /\ pc = "A" => stored = IF Len(jlist) = 0 THEN 0
                              ELSE jlist[Len(jlist)].num + Dps(jlist[Len(jlist)])
      /\ \A i \in 1 .. Len(jlist) : jlist[i].dp =>
           /\ jlist[i].num < stored
           /\ Kept(jlist[i].num, stored) => dpx[jlist[i].num] = path[base + i].pt

\* KernelB counts the same DPs again.
BuiltInv ==
    /\ pc = "A" => built = 0
    /\ pc = "B" /\ ~looped /\ step < StepCnt => built = jlist[step + 1].num

Word == Int \cup {NoDist}
OutRec == [x : Word, d : Word, n : Int]

\* A record that is not true lies at the limit of a buffer.
RecTrue(r, i) ==
    \/ i = MaxDp /\ cnt > MaxDp
    \/ r.n = DpTableMax - 1 /\ stored > DpTableMax
    \/ r.n >= 0 => r.x = r.d + drift

OutInv ==
    /\ out \in Seq(OutRec) /\ Len(out) <= MaxDp /\ Len(out) <= cnt
    /\ pc = "A" => out = <<>>
    /\ pc # "host" => \A i \in 1 .. Len(out) : RecTrue(out[i], i)

DpInv == NumInv /\ BuiltInv /\ OutInv

LEMMA NumStep == IInv /\ NumInv /\ [Next]_vars => NumInv'
  <1> SUFFICES ASSUME IInv, NumInv, [Next]_vars PROVE NumInv'
    OBVIOUS
  <1> USE Sizes
  <1>0. TypeInv /\ HashInv /\ LenInv
    BY DEF IInv
  <1>a. Len(path) \in Nat /\ Len(jlist) \in Nat /\ step \in 0 .. StepCnt
        /\ base \in Nat /\ stored \in Nat
        /\ dpx \in [0 .. DpTableMax - 1 -> Int]
    BY <1>0, Lists DEF TypeInv
  <1>1. CASE Execute
    <2>1. jlist' = <<>> /\ stored' = 0
      BY <1>1 DEF Execute
    <2>2. Len(jlist') = 0
      BY <2>1
    <2>3. QED
      BY <2>1, <2>2 DEF NumInv
  <1>2. CASE KernelA
    <2>1. pc = "A" /\ pc' = "A" /\ base' = base
      BY <1>2 DEF KernelA
    <2>2. Len(path) = base + step /\ Len(jlist) = step /\ base >= 1
      BY <1>0, <2>1 DEF LenInv
    <2>3. PICK r \in JumpRec :
             /\ r.num = stored
             /\ jlist' = Append(jlist, r)
             /\ IF r.dp
                THEN /\ stored' = stored + 1
                     /\ dpx' = [dpx EXCEPT ![IF stored < DpTableMax THEN stored
                                             ELSE DpTableMax - 1] = pt']
                ELSE UNCHANGED <<stored, dpx>>
      BY <1>0, <1>2, KernelAStep
    <2>4. /\ Len(jlist') = Len(jlist) + 1 /\ jlist'[Len(jlist) + 1] = r
          /\ \A i \in 1 .. Len(jlist) : jlist'[i] = jlist[i] /\ jlist[i] \in JumpRec
      BY <1>0, <2>3, AppendProperties, Lists, SMTT(30) DEF TypeInv
    <2>5. /\ Len(jlist) >= 1 => jlist[1].num = 0
          /\ \A i \in 1 .. Len(jlist) - 1 : jlist[i + 1].num = jlist[i].num + Dps(jlist[i])
          /\ stored = IF Len(jlist) = 0 THEN 0
                      ELSE jlist[Len(jlist)].num + Dps(jlist[Len(jlist)])
          /\ \A i \in 1 .. Len(jlist) : jlist[i].dp =>
               /\ jlist[i].num < stored
               /\ Kept(jlist[i].num, stored) => dpx[jlist[i].num] = path[base + i].pt
      BY <2>1 DEF NumInv
    <2>6. jlist'[1].num = 0
      BY <1>a, <2>3, <2>4, <2>5
    <2>7. ASSUME NEW i \in 1 .. Len(jlist') - 1
          PROVE  jlist'[i + 1].num = jlist'[i].num + Dps(jlist'[i])
      <3>1. CASE i \in 1 .. Len(jlist) - 1
        BY <1>a, <2>4, <2>5, <3>1
      <3>2. CASE i = Len(jlist)
        BY <1>a, <2>3, <2>4, <2>5, <2>7, <3>2
      <3>3. QED
        BY <1>a, <2>4, <3>1, <3>2
    <2>8. stored' = r.num + Dps(r)
      BY <1>a, <2>3 DEF Dps
    <2>9. ASSUME NEW i \in 1 .. Len(jlist'), jlist'[i].dp
          PROVE  /\ jlist'[i].num < stored'
                 /\ Kept(jlist'[i].num, stored') => dpx'[jlist'[i].num] = path'[base' + i].pt
      <3>1. CASE i \in 1 .. Len(jlist)
        <4>1. jlist'[i] = jlist[i] /\ jlist[i] \in JumpRec
          BY <2>4, <3>1
        <4>2. PICK k \in Nat : k = jlist[i].num
          BY <4>1 DEF JumpRec
        <4>3. /\ k < stored
              /\ Kept(k, stored) => dpx[k] = path[base + i].pt
          BY <2>5, <2>9, <3>1, <4>1, <4>2
        <4>4. path'[base' + i] = path[base + i]
          <5>1. base + i \in 1 .. Len(path)
            BY <1>a, <2>2, <3>1
          <5>2. QED
            BY <1>0, <1>2, <2>1, <5>1, KernelALists
        <4>5. k < stored' /\ (Kept(k, stored') => Kept(k, stored) /\ dpx'[k] = dpx[k])
          <5>1. CASE r.dp
            <6>1. /\ stored' = stored + 1
                  /\ dpx' = [dpx EXCEPT ![IF stored < DpTableMax THEN stored
                                          ELSE DpTableMax - 1] = pt']
              BY <2>3, <5>1
            <6>2. QED
              BY <1>a, <4>3, <6>1 DEF Kept
          <5>2. CASE ~r.dp
            <6>1. stored' = stored /\ dpx' = dpx
              BY <2>3, <5>2
            <6>2. QED
              BY <4>3, <6>1 DEF Kept
          <5>3. QED
            BY <5>1, <5>2
        <4>6. Kept(k, stored') => dpx'[k] = path'[base' + i].pt
          BY <4>3, <4>4, <4>5
        <4>7. QED
          BY <4>1, <4>2, <4>5, <4>6 DEF Kept
      <3>2. CASE i = Len(jlist) + 1
        <4>1. r.dp /\ r.num = stored /\ jlist'[i] = r
          BY <2>3, <2>4, <2>9, <3>2
        <4>2. /\ stored' = stored + 1
              /\ dpx' = [dpx EXCEPT ![IF stored < DpTableMax THEN stored
                                      ELSE DpTableMax - 1] = pt']
          BY <2>3, <4>1
        <4>3. path'[base' + i].pt = pt'
          <5>1. base' + i = Len(path) + 1
            BY <1>a, <2>1, <2>2, <3>2
          <5>2. path'[Len(path) + 1] = [pt |-> pt', mode |-> mode']
            BY <1>0, <1>2, KernelALists
          <5>3. QED
            BY <5>1, <5>2
        <4>4. stored < stored' /\ (stored < DpTableMax => dpx'[stored] = pt')
          BY <1>a, <4>2
        <4>5. QED
          BY <4>1, <4>3, <4>4 DEF Kept
      <3>3. QED
        BY <1>a, <2>4, <3>1, <3>2
    <2>10. stored' = IF Len(jlist') = 0 THEN 0
                     ELSE jlist'[Len(jlist')].num + Dps(jlist'[Len(jlist')])
      BY <1>a, <2>4, <2>8
    <2>11. QED
      BY <2>1, <2>6, <2>7, <2>9, <2>10 DEF NumInv, Kept, Dps
  <1>3. CASE KernelAEnd \/ ProcessJumpDistance \/ SkipLooped \/ OtherDP \/ KernelBEnd
    <2>1. /\ pc # "host" /\ pc' # "A" /\ UNCHANGED <<jlist, stored, dpx, path, base>>
      BY <1>3 DEF KernelAEnd, ProcessJumpDistance, SkipLooped, OtherDP, KernelBEnd,
                  walk, ghosts
    <2>2. QED
      BY <2>1 DEF NumInv, Kept, Dps
  <1>4. CASE KernelC
    BY <1>4 DEF KernelC, NumInv
  <1>5. CASE UNCHANGED vars
    <2>1. UNCHANGED <<pc, jlist, stored, dpx, path, base>>
      BY <1>5 DEF vars
    <2>2. QED
      BY <2>1 DEF NumInv, Kept, Dps
  <1>6. QED
    BY <1>1, <1>2, <1>3, <1>4, <1>5 DEF Next

LEMMA BuiltStep == IInv /\ NumInv /\ BuiltInv /\ [Next]_vars => BuiltInv'
  <1> SUFFICES ASSUME IInv, NumInv, BuiltInv, [Next]_vars PROVE BuiltInv'
    OBVIOUS
  <1> USE Sizes
  <1>0. TypeInv /\ LenInv
    BY DEF IInv
  <1>a. step \in 0 .. StepCnt
    BY <1>0 DEF TypeInv
  <1>1. CASE Execute
    BY <1>1 DEF Execute, BuiltInv
  <1>2. CASE KernelA
    BY <1>2 DEF KernelA, BuiltInv, sums
  <1>3. CASE KernelAEnd
    <2>1. /\ pc = "A" /\ pc' = "B" /\ step = StepCnt /\ step' = 0
          /\ built' = built /\ jlist' = jlist
      BY <1>3 DEF KernelAEnd, walk, sums
    <2>2. jlist[1].num = 0 /\ 0 + 1 = 1
      BY <1>0, <2>1 DEF NumInv, LenInv
    <2>3. QED
      BY <2>1, <2>2 DEF BuiltInv
  <1>4. CASE ProcessJumpDistance
    <2> SUFFICES ASSUME ~looped', step' < StepCnt PROVE built' = jlist'[step' + 1].num
      BY <1>4 DEF BuiltInv, ProcessJumpDistance
    <2>1. /\ pc = "B" /\ ~looped /\ step < StepCnt /\ step' = step + 1
          /\ jlist' = jlist
          /\ built' = built + Dps(jlist[step + 1])
      <3>1. IF jlist[step + 1].dp THEN \E d \in {dist'} : BuildDP(d)
            ELSE built' = built
        BY <1>4 DEF ProcessJumpDistance
      <3>2. built \in Nat
        BY <1>0 DEF TypeInv
      <3>3. built' = built + Dps(jlist[step + 1])
        BY <3>1, <3>2 DEF BuildDP, Dps
      <3>4. QED
        BY <1>4, <3>3 DEF ProcessJumpDistance, walk
    <2>2. built = jlist[step + 1].num
      BY <2>1 DEF BuiltInv
    <2>3. step + 1 \in 1 .. Len(jlist) - 1
      BY <1>0, <1>a, <2>1 DEF LenInv
    <2>4. jlist[(step + 1) + 1].num = jlist[step + 1].num + Dps(jlist[step + 1])
      BY <2>1, <2>3 DEF NumInv
    <2>5. QED
      BY <2>1, <2>2, <2>4
  <1>5. CASE SkipLooped
    BY <1>5 DEF SkipLooped, BuiltInv, sums
  <1>6. CASE OtherDP
    BY <1>6 DEF OtherDP, BuiltInv, sums, walk
  <1>7. CASE KernelBEnd \/ KernelC
    BY <1>7 DEF KernelBEnd, KernelC, BuiltInv
  <1>8. CASE UNCHANGED vars
    BY <1>8 DEF vars, BuiltInv
  <1>9. QED
    BY <1>1, <1>2, <1>3, <1>4, <1>5, <1>6, <1>7, <1>8 DEF Next

\* A record that is true, or at the limit of DPTable, is written.
LEMMA WriteStep ==
    ASSUME TypeInv, OutInv, pc # "host", NEW r \in OutRec, WriteDP(r),
           UNCHANGED <<drift, stored>>,
           \/ r.n >= 0 => r.x = r.d + drift
           \/ r.n = DpTableMax - 1 /\ stored > DpTableMax
    PROVE  /\ out' \in Seq(OutRec) /\ Len(out') <= MaxDp /\ Len(out') <= cnt'
           /\ \A i \in 1 .. Len(out') : RecTrue(out[i], i)'
  <1> USE Sizes
  <1>1. /\ out \in Seq(OutRec) /\ Len(out) <= MaxDp /\ Len(out) <= cnt
        /\ Len(out) \in Nat /\ cnt \in Nat /\ cnt' = cnt + 1
        /\ \A i \in 1 .. Len(out) : RecTrue(out[i], i)
    BY LenProperties DEF OutInv, TypeInv, WriteDP
  <1>2. CASE Len(out) < MaxDp
    <2>1. /\ out' = Append(out, r) /\ out' \in Seq(OutRec) /\ Len(out') = Len(out) + 1
          /\ out'[Len(out) + 1] = r
          /\ \A i \in 1 .. Len(out) : out'[i] = out[i]
      <3>1. out' = Append(out, r)
        BY <1>2 DEF WriteDP
      <3>2. QED
        BY <1>1, <3>1, AppendProperties
    <2>2. ASSUME NEW i \in 1 .. Len(out') PROVE RecTrue(out[i], i)'
      <3>1. CASE i \in 1 .. Len(out)
        BY <1>1, <1>2, <2>1, <3>1 DEF RecTrue
      <3>2. CASE i = Len(out) + 1
        BY <2>1, <3>2 DEF RecTrue
      <3>3. QED
        BY <1>1, <2>1, <3>1, <3>2
    <2>3. QED
      BY <1>1, <1>2, <2>1, <2>2
  <1>3. CASE ~(Len(out) < MaxDp)
    <2>1. PICK x \in {out[MaxDp].x, r.x}, d \in {out[MaxDp].d, r.d} :
            out' = [out EXCEPT ![MaxDp] = [x |-> x, d |-> d, n |-> r.n]]
      BY <1>3 DEF WriteDP
    <2>2. MaxDp \in 1 .. Len(out) /\ Len(out) = MaxDp
      BY <1>1, <1>3
    <2>3. out[MaxDp] \in OutRec
      BY <1>1, <2>2, ElementOfSeq
    <2>4. [x |-> x, d |-> d, n |-> r.n] \in OutRec
      BY <2>1, <2>3 DEF OutRec
    <2>5. /\ out' \in Seq(OutRec) /\ Len(out') = Len(out)
          /\ \A i \in 1 .. Len(out) : i # MaxDp => out'[i] = out[i]
      BY <1>1, <2>1, <2>2, <2>4, ExceptSeq
    <2>6. ASSUME NEW i \in 1 .. Len(out') PROVE RecTrue(out[i], i)'
      <3>1. CASE i = MaxDp
        BY <1>1, <2>2, <3>1 DEF RecTrue
      <3>2. CASE i # MaxDp
        BY <1>1, <2>5, <3>2 DEF RecTrue
      <3>3. QED
        BY <3>1, <3>2
    <2>7. QED
      BY <1>1, <2>2, <2>5, <2>6
  <1>4. QED
    BY <1>2, <1>3

LEMMA OutStep == IInv /\ DpInv /\ [Next]_vars => OutInv'
  <1> SUFFICES ASSUME IInv, DpInv, [Next]_vars PROVE OutInv'
    OBVIOUS
  <1> USE Sizes
  <1>0. TypeInv /\ HashInv /\ LenInv /\ WalkInv /\ ListInv /\ SumInv /\ NumInv /\ BuiltInv /\ OutInv
    BY DEF IInv, DpInv
  <1>1. CASE Execute
    <2>1. out' = <<>> /\ cnt' = 0 /\ pc' = "A"
      BY <1>1 DEF Execute
    <2>2. out' \in Seq(OutRec) /\ Len(out') = 0
      BY <2>1, EmptySeq
    <2>3. QED
      BY <2>1, <2>2 DEF OutInv
  <1>2. CASE KernelA
    <2>1. /\ pc = "A" /\ out = <<>> /\ UNCHANGED <<pc, out, cnt>>
      BY <1>0, <1>2 DEF KernelA, OutInv
    <2>2. 1 .. Len(out') = {}
      BY <2>1
    <2>3. QED
      BY <1>0, <2>1, <2>2 DEF OutInv
  <1>3. CASE ProcessJumpDistance
    <2>1. /\ pc = "B" /\ pc' = "B" /\ ~looped /\ step < StepCnt
          /\ stored' = stored /\ jlist' = jlist /\ drift' = drift
      BY <1>3 DEF ProcessJumpDistance, walk, ghosts
    <2>2. CASE UNCHANGED <<out, cnt>>
      BY <1>0, <2>1, <2>2 DEF OutInv, RecTrue
    <2>3. CASE ~UNCHANGED <<out, cnt>>
      <3>1. /\ jlist[step + 1].dp /\ BuildDP(dist')
            /\ built < DpTableMax
            /\ WriteDP([x |-> dpx[built], d |-> dist', n |-> built])
        <4>1. jlist[step + 1].dp
          BY <1>3, <2>3 DEF ProcessJumpDistance
        <4>2. \E d \in {dist'} : BuildDP(d)
          BY <1>3, <2>3 DEF ProcessJumpDistance
        <4>3. QED
          BY <2>3, <4>1, <4>2 DEF BuildDP
      <3> DEFINE r == [x |-> dpx[built], d |-> dist', n |-> built]
      <3>2. step + 1 \in 1 .. Len(jlist) /\ built = jlist[step + 1].num
            /\ base + (step + 1) = base + step + 1
        <4>1. built = jlist[step + 1].num
          BY <1>0, <2>1 DEF BuiltInv, TypeInv
        <4>2. Len(jlist) = StepCnt /\ step \in Nat /\ base \in Nat
          BY <1>0, <2>1 DEF LenInv, TypeInv
        <4>3. QED
          BY <2>1, <4>1, <4>2
      <3>3. dpx[built] \in Int /\ dist' \in Int /\ built \in Nat
        <4>1. TypeInv'
          BY TypeStep
        <4>2. QED
          BY <1>0, <3>1, <4>1 DEF TypeInv
      <3>4. r \in OutRec
        BY <3>3 DEF OutRec, Word
      <3>5. \/ r.n >= 0 => r.x = r.d + drift
            \/ r.n = DpTableMax - 1 /\ stored > DpTableMax
        <4>1. CASE ~Kept(built, stored)
          BY <1>0, <3>1, <3>3, <4>1 DEF Kept, TypeInv
        <4>2. CASE Kept(built, stored)
          <5>1. dist + drift = path[base + step].pt
            BY <1>0, <2>1 DEF SumInv
          <5>2. dist' + drift = path[base + step + 1].pt
            BY <1>0, <1>3, <2>1, <5>1, NextDist
          <5>3. dpx[built] = path[base + (step + 1)].pt
            BY <1>0, <2>1, <3>1, <3>2, <4>2 DEF NumInv
          <5>4. QED
            BY <3>2, <5>2, <5>3
        <4>3. QED
          BY <4>1, <4>2
      <3>6. WriteDP(r)
        BY <3>1
      <3> HIDE DEF r
      <3>7. QED
        BY <1>0, <2>1, <3>1, <3>4, <3>5, <3>6, WriteStep DEF OutInv
    <2>4. QED
      BY <2>2, <2>3
  <1>4. CASE OtherDP
    <2> DEFINE r == [x |-> NoDist, d |-> NoDist, n |-> -1]
    <2>1. r \in OutRec /\ ~(r.n >= 0)
      BY DEF OutRec, Word
    <2>2. WriteDP(r) /\ UNCHANGED <<drift, stored>> /\ pc = "B" /\ pc' = "B"
      BY <1>4 DEF OtherDP, sums, walk, ghosts
    <2> HIDE DEF r
    <2>3. QED
      BY <1>0, <2>1, <2>2, WriteStep DEF OutInv
  <1>5. CASE KernelAEnd \/ SkipLooped \/ KernelBEnd
    <2>1. pc # "host" /\ pc' # "A" /\ UNCHANGED <<out, cnt, stored, drift>>
      BY <1>5 DEF KernelAEnd, SkipLooped, KernelBEnd, walk, sums, ghosts
    <2>2. QED
      BY <1>0, <2>1 DEF OutInv, RecTrue
  <1>6. CASE KernelC
    BY <1>0, <1>6 DEF KernelC, OutInv
  <1>8. CASE UNCHANGED vars
    <2>1. UNCHANGED <<pc, out, cnt, stored, drift>>
      BY <1>8 DEF vars
    <2>2. QED
      BY <1>0, <2>1 DEF OutInv, RecTrue
  <1>7. QED
    BY <1>1, <1>2, <1>3, <1>4, <1>5, <1>6, <1>8 DEF Next

(***************************************************************************)
(* The x of a DP that KernelA stored and the distance that KernelB summed  *)
(* up belong together, though they are paired by their order only          *)
(* (RCGpuCore.cu 167-173 and 487-562), but at the limits of the buffers;   *)
(* after a mistaken loop they are apart by what the kangaroo is off.       *)
(***************************************************************************)
THEOREM DeliveredCorrect == Spec => []DeliveredTrue
  <1>1. Init => DpInv
    <2>1. Init => out = <<>> /\ cnt = 0 /\ pc = "host"
      BY DEF Init
    <2>2. out = <<>> => out \in Seq(OutRec) /\ Len(out) = 0
      BY EmptySeq
    <2>3. QED
      BY <2>1, <2>2, Sizes DEF DpInv, NumInv, BuiltInv, OutInv
  <1>2. IInv /\ DpInv /\ [Next]_vars => DpInv'
    BY NumStep, BuiltStep, OutStep DEF DpInv
  <1>3. DpInv => DeliveredTrue
    BY DEF DpInv, OutInv, RecTrue, DeliveredTrue
  <1>4. QED
    BY Invariance, <1>1, <1>2, <1>3, PTL DEF Spec

----------------------------------------------------------------------------
(* Loops.  The table holds the distances of the last MdLen points of the   *)
(* path since KernelC's last jump, and the distance moves as the point     *)
(* does, whether or not the two agree.                                     *)

\* The place on the path that the distance stands for, and the step of it.
Here == IF pc = "host" THEN Len(path) ELSE IF pc = "A" THEN base ELSE base + step
At == IF pc = "B" THEN step ELSE 0

\* Where the table has the distance of the point k-1 steps before.
Slot(k) == (At + MdLen - k) % MdLen

Tabled(m) == table[Slot(m + 1)] = dist + (path[Here - m].pt - path[Here].pt)

TableInv ==
    /\ table \in [0 .. MdLen - 1 -> Int \cup {NoDist}] /\ cur_ind \in Nat
    /\ pc = "A" => ~looped
    /\ pc \in {"A", "B"} /\ ~looped => cur_ind = (At % MdLen)
    /\ pc = "host" \/ ~looped =>
         \A m \in 0 .. MdLen - 1 : Here - m > 1 => Tabled(m)

NewInv ==
    pc = "host" \/ ~looped =>
        \A n \in LoopSizes : Here - n > 1 => path[Here - n].pt # path[Here].pt

\* The places of the table, counted back from a step.
LEMMA SlotIs ==
    ASSUME NEW s \in Nat, NEW k \in 0 .. MdLen
    PROVE  /\ (s % MdLen) \in 0 .. MdLen - 1
           /\ ((s + MdLen - k) % MdLen)
                = IF k <= (s % MdLen) THEN (s % MdLen) - k ELSE (s % MdLen) + MdLen - k
           /\ (((s % MdLen) + MdLen - k) % MdLen) = ((s + MdLen - k) % MdLen)
  <1> USE Sizes
  <1>1. /\ s = MdLen * (s \div MdLen) + (s % MdLen)
        /\ (s % MdLen) \in 0 .. MdLen - 1 /\ s \div MdLen \in Nat
    BY SMTT(60)
  <1>2. ASSUME NEW b \in Nat, NEW q \in Nat, NEW r \in 0 .. MdLen - 1, b = MdLen * q + r
        PROVE  (b % MdLen) = r
    BY <1>2, SMTT(60)
  <1>3. PICK q \in Nat, r \in 0 .. MdLen - 1 : s = MdLen * q + r /\ (s % MdLen) = r
    BY <1>1, Zenon
  <1>4. CASE k <= r
    <2>1. /\ s + MdLen - k = MdLen * (q + 1) + (r - k) /\ s + MdLen - k \in Nat
          /\ r - k \in 0 .. MdLen - 1 /\ q + 1 \in Nat
          /\ r + MdLen - k = MdLen * 1 + (r - k) /\ r + MdLen - k \in Nat /\ 1 \in Nat
      BY <1>3, <1>4, SMTT(60)
    <2>2. ((s + MdLen - k) % MdLen) = r - k /\ ((r + MdLen - k) % MdLen) = r - k
      BY <1>2, <2>1, ZenonT(30)
    <2>3. QED
      BY <1>3, <1>4, <2>2
  <1>5. CASE ~(k <= r)
    <2>1. /\ s + MdLen - k = MdLen * q + (r + MdLen - k) /\ s + MdLen - k \in Nat
          /\ r + MdLen - k \in 0 .. MdLen - 1
          /\ r + MdLen - k = MdLen * 0 + (r + MdLen - k) /\ r + MdLen - k \in Nat /\ 0 \in Nat
      BY <1>3, <1>5, SMTT(60)
    <2>2. /\ ((s + MdLen - k) % MdLen) = r + MdLen - k
          /\ ((r + MdLen - k) % MdLen) = r + MdLen - k
      BY <1>2, <2>1, ZenonT(30)
    <2>3. QED
      BY <1>3, <1>5, <2>2
  <1>6. QED
    BY <1>4, <1>5

\* At the border of a call the table is where it was.
LEMMA Border ==
    /\ (StepCnt % MdLen) = 0 /\ (0 % MdLen) = 0
    /\ \A i \in 0 .. MdLen - 1 : (i % MdLen) = i
    /\ \A k \in 0 .. MdLen : ((StepCnt + MdLen - k) % MdLen) = ((0 + MdLen - k) % MdLen)
  <1>1. (StepCnt % MdLen) = 0
    BY KernelsAssumption
  <1>2. \A i \in 0 .. MdLen - 1 : (i % MdLen) = i
    BY Sizes
  <1>3. (0 % MdLen) = 0
    BY Sizes
  <1>4. ASSUME NEW k \in 0 .. MdLen
        PROVE  ((StepCnt + MdLen - k) % MdLen) = ((0 + MdLen - k) % MdLen)
    <2>1. /\ (((StepCnt % MdLen) + MdLen - k) % MdLen) = ((StepCnt + MdLen - k) % MdLen)
      BY Sizes, SlotIs
    <2>2. QED
      BY <1>1, <2>1
  <1>5. QED
    BY <1>1, <1>2, <1>3, <1>4

\* A step that leaves the table, the distance and the path up to here alone.
LEMMA TableFrame ==
    ASSUME TypeInv, LenInv, TableInv, NewInv, pc = "host" \/ ~looped,
           Here \in 1 .. Len(path), Here' = Here,
           UNCHANGED <<table, dist>>,
           \A k \in 1 .. MdLen : Slot(k)' = Slot(k),
           \A i \in 1 .. Here : path'[i] = path[i]
    PROVE  /\ \A m \in 0 .. MdLen - 1 : (Here - m > 1 => Tabled(m))'
           /\ \A n \in LoopSizes : (Here - n > 1 => path[Here - n].pt # path[Here].pt)'
  <1> USE Sizes
  <1>1. PICK h \in Nat : h = Here /\ h = Here'
    BY Lists
  <1>2. ASSUME NEW m \in 0 .. MdLen - 1, h - m > 1
        PROVE  Tabled(m)'
    <2>1. Tabled(m)
      BY <1>1, <1>2 DEF TableInv
    <2>2. h - m \in 1 .. Here /\ h \in 1 .. Here /\ m + 1 \in 1 .. MdLen
      BY <1>1, <1>2
    <2>3. path'[h - m] = path[h - m] /\ path'[h] = path[h] /\ Slot(m + 1)' = Slot(m + 1)
      BY <2>2
    <2>4. table[Slot(m + 1)] = dist + (path[h - m].pt - path[h].pt)
      BY <1>1, <2>1 DEF Tabled
    <2>5. table'[Slot(m + 1)'] = dist' + (path'[h - m].pt - path'[h].pt)
      BY <2>3, <2>4
    <2>6. QED
      BY <1>1, <2>5 DEF Tabled
  <1>3. ASSUME NEW n \in LoopSizes, h - n > 1
        PROVE  path'[h - n].pt # path'[h].pt
    <2>1. path[h - n].pt # path[h].pt
      BY <1>1, <1>3 DEF NewInv
    <2>2. h - n \in 1 .. Here /\ h \in 1 .. Here
      BY <1>1, <1>3
    <2>3. QED
      BY <2>1, <2>2
  <1>4. QED
    BY <1>1, <1>2, <1>3

\* KernelB, one step: the next distance goes where the oldest one was.
LEMMA TableGrows ==
    ASSUME TypeInv, HashInv, LenInv, WalkInv, ListInv, TableInv, ProcessJumpDistance
    PROVE  /\ TableInv'
           /\ NewInv'
  <1> USE Sizes
  <1>1. /\ pc = "B" /\ pc' = "B" /\ ~looped /\ step < StepCnt /\ step \in Nat
        /\ step' = step + 1 /\ UNCHANGED <<base, path>> /\ base \in Nat /\ base >= 1
        /\ Len(path) = base + StepCnt /\ dist \in Int /\ MdLen \in Nat \ {0}
    BY DEF ProcessJumpDistance, ghosts, LenInv, TypeInv
  <1>2. PICK d \in Int : /\ dist' = dist + d
                         /\ path[base + step + 1].pt = path[base + step].pt + d
    BY NextJump
  <1>3. PICK r \in 0 .. MdLen - 1 :
           /\ r = (step % MdLen)
           /\ \A k \in 0 .. MdLen :
                /\ ((step + MdLen - k) % MdLen) = IF k <= r THEN r - k ELSE r + MdLen - k
                /\ ((r + MdLen - k) % MdLen) = ((step + MdLen - k) % MdLen)
    <2>1. (step % MdLen) \in 0 .. MdLen - 1
      BY <1>1, ModStep
    <2>2. \A k \in 0 .. MdLen :
            /\ ((step + MdLen - k) % MdLen)
                 = IF k <= (step % MdLen) THEN (step % MdLen) - k
                   ELSE (step % MdLen) + MdLen - k
            /\ (((step % MdLen) + MdLen - k) % MdLen) = ((step + MdLen - k) % MdLen)
      BY <1>1, SlotIs, Zenon
    <2>3. QED
      BY <2>1, <2>2, Zenon
  <1>4. /\ table' = [table EXCEPT ![r] = dist'] /\ cur_ind' = ((r + 1) % MdLen)
        /\ ~looped' => Repeats(dist', r) = {}
    BY <1>1, <1>3 DEF ProcessJumpDistance
  <1>5. Here = base + step /\ Here' = base + step + 1 /\ At = step /\ At' = step + 1
    BY <1>1 DEF Here, At
  <1>6. PICK h \in Nat : h = base + step /\ h >= 1 /\ h + 1 \in 1 .. Len(path)
    BY <1>1
  <1>7. ASSUME NEW i \in 1 .. Len(path)
        PROVE  path[i].pt \in Int
    BY Lists DEF State
  <1>8. table \in [0 .. MdLen - 1 -> Int \cup {NoDist}]
    BY DEF TableInv
  <1>9. table' \in [0 .. MdLen - 1 -> Int \cup {NoDist}]
    <2>1. dist' \in Int
      BY <1>1, <1>2
    <2>2. table' = [table EXCEPT ![r] = dist']
      BY <1>4
    <2>3. QED
      BY <1>8, <2>1, <2>2
  \* What the table held before this step.
  <1>10. ASSUME NEW m \in 0 .. MdLen - 1, h - m > 1
         PROVE  table[(step + MdLen - (m + 1)) % MdLen]
                  = dist + (path[h - m].pt - path[h].pt)
    <2>1. Tabled(m)
      BY <1>1, <1>5, <1>6, <1>10 DEF TableInv
    <2>2. QED
      BY <1>5, <1>6, <2>1 DEF Tabled, Slot
  <1>11. ASSUME NEW m \in 0 .. MdLen - 1, h + 1 - m > 1
         PROVE  table'[((step + 1) + MdLen - (m + 1)) % MdLen]
                  = dist' + (path[h + 1 - m].pt - path[h + 1].pt)
    <2>1. (step + 1) + MdLen - (m + 1) = step + MdLen - m
      BY <1>1
    <2>2. path[h + 1].pt = path[h].pt + d /\ path[h].pt \in Int /\ path[h + 1].pt \in Int
          /\ path[h + 1 - m].pt \in Int
      BY <1>1, <1>2, <1>6, <1>7, <1>11
    <2>3. CASE m = 0
      <3>1. ((step + MdLen - m) % MdLen) = r
        BY <1>1, <1>3, <2>3
      <3>2. table'[r] = dist'
        BY <1>3, <1>4, <1>8
      <3>3. dist' + (path[h + 1 - m].pt - path[h + 1].pt) = dist'
        BY <1>1, <1>2, <1>6, <2>2, <2>3
      <3>4. QED
        BY <2>1, <3>1, <3>2, <3>3
    <2>4. CASE m # 0
      <3>1. PICK k \in 0 .. MdLen - 1 : m = k + 1
        BY <2>4
      <3>2. PICK u \in 0 .. MdLen - 1 : u = ((step + MdLen - m) % MdLen) /\ u # r
        <4>1. ((step + MdLen - m) % MdLen) = IF m <= r THEN r - m ELSE r + MdLen - m
          BY <1>3
        <4>2. QED
          BY <1>1, <1>3, <2>4, <4>1
      <3>3. h - k > 1 /\ h + 1 - m = h - k
        BY <1>6, <1>11, <3>1
      <3>4. table[u] = dist + (path[h - k].pt - path[h].pt)
        BY <1>10, <3>1, <3>2, <3>3
      <3>5. table'[u] = table[u]
        BY <1>3, <1>4, <1>8, <3>2
      <3>6. dist + (path[h - k].pt - path[h].pt) = dist' + (path[h + 1 - m].pt - path[h + 1].pt)
        <4>1. path[h + 1 - m].pt = path[h - k].pt
          BY <3>3, Zenon
        <4>2. PICK x \in Int, y \in Int, z \in Int :
                 x = path[h - k].pt /\ y = path[h].pt /\ z = path[h + 1].pt
          BY <2>2, <4>1
        <4>3. dist + (x - y) = dist' + (x - z)
          <5>1. z = y + d
            BY <2>2, <4>2
          <5>2. dist' = dist + d /\ dist \in Int
            BY <1>1, <1>2
          <5>3. QED
            BY <5>1, <5>2
        <4>4. QED
          BY <4>1, <4>2, <4>3, Zenon
      <3>7. QED
        BY <2>1, <3>2, <3>4, <3>5, <3>6
    <2>5. QED
      BY <2>3, <2>4
  <1>12. cur_ind' = ((step + 1) % MdLen)
    <2>1. /\ (step % MdLen) = MdLen - 1 => ((step + 1) % MdLen) = 0
          /\ (step % MdLen) # MdLen - 1 => ((step + 1) % MdLen) = (step % MdLen) + 1
      BY <1>1, ModStep
    <2>2. /\ (r % MdLen) = MdLen - 1 => ((r + 1) % MdLen) = 0
          /\ (r % MdLen) # MdLen - 1 => ((r + 1) % MdLen) = (r % MdLen) + 1
      <3>1. r \in Nat
        OBVIOUS
      <3>2. QED
        BY <1>1, <3>1, ModStep, Zenon
    <2>3. (r % MdLen) = r
      BY <1>3, Border
    <2>4. QED
      BY <1>3, <1>4, <2>1, <2>2, <2>3
  <1>13. TableInv'
    <2>1. ASSUME NEW m \in 0 .. MdLen - 1, (Here - m > 1)'
          PROVE  Tabled(m)'
      <3>1. h + 1 - m > 1
        BY <1>1, <1>5, <1>6, <2>1
      <3>2. QED
        BY <1>1, <1>5, <1>6, <1>11, <3>1 DEF Tabled, Slot
    <2>2. QED
      BY <1>1, <1>5, <1>9, <1>12, <2>1 DEF TableInv
  <1>14. NewInv'
    <2>1. ASSUME ~looped', NEW n \in LoopSizes, h + 1 - n > 1
          PROVE  path[h + 1 - n].pt # path[h + 1].pt
      <3>1. PICK k \in 0 .. MdLen - 1 : n = k + 1
        OBVIOUS
      <3>2. table[(step + MdLen - n) % MdLen] = dist + (path[h - k].pt - path[h].pt)
            /\ h + 1 - n = h - k
        BY <1>6, <1>10, <2>1, <3>1
      <3>3. ((r + MdLen - n) % MdLen) = ((step + MdLen - n) % MdLen)
        BY <1>3
      <3>4. table[(r + MdLen - n) % MdLen] # dist'
        BY <1>4, <2>1 DEF Repeats
      <3>5. path[h + 1].pt = path[h].pt + d /\ path[h].pt \in Int
            /\ path[h - k].pt \in Int
        BY <1>1, <1>2, <1>6, <1>7, <2>1, <3>2, SMTT(30)
      <3>6. dist + (path[h - k].pt - path[h].pt) # dist + d
        BY <1>2, <3>2, <3>3, <3>4
      <3>7. path[h - k].pt # path[h].pt + d
        BY <1>1, <3>5, <3>6
      <3>8. QED
        BY <3>2, <3>5, <3>7
    <2>2. QED
      BY <1>1, <1>5, <1>6, <2>1 DEF NewInv
  <1>15. QED
    BY <1>13, <1>14

LEMMA LoopsStep == IInv /\ TableInv /\ NewInv /\ [Next]_vars => TableInv' /\ NewInv'
  <1> SUFFICES ASSUME IInv, TableInv, NewInv, [Next]_vars PROVE TableInv' /\ NewInv'
    OBVIOUS
  <1> USE Sizes
  <1>0. TypeInv /\ HashInv /\ LenInv /\ WalkInv /\ ListInv
    BY DEF IInv
  <1>a. Len(path) \in Nat /\ step \in 0 .. StepCnt /\ base \in Nat
        /\ table \in [0 .. MdLen - 1 -> Int \cup {NoDist}] /\ cur_ind \in Nat
    BY <1>0, Lists DEF TypeInv, TableInv
  <1>1. CASE Execute
    <2>1. /\ pc = "host" /\ pc' = "A" /\ base' = Len(path) /\ ~looped' /\ cur_ind' = 0
          /\ UNCHANGED <<table, dist, path>>
      BY <1>1 DEF Execute
    <2>2. /\ Here = Len(path) /\ Here' = Len(path) /\ Len(path) >= 1 /\ At = 0 /\ At' = 0
      BY <1>0, <2>1 DEF Here, At, LenInv
    <2>3. \A k \in 1 .. MdLen : Slot(k)' = Slot(k)
      BY <2>2 DEF Slot
    <2>4. /\ \A m \in 0 .. MdLen - 1 : (Here - m > 1 => Tabled(m))'
          /\ \A n \in LoopSizes : (Here - n > 1 => path[Here - n].pt # path[Here].pt)'
      BY <1>0, <1>a, <2>1, <2>2, <2>3, TableFrame
    <2>5. QED
      BY <1>a, <2>1, <2>2, <2>4, Border DEF TableInv, NewInv
  <1>2. CASE KernelA
    <2>1. /\ pc = "A" /\ pc' = "A" /\ UNCHANGED <<table, dist, looped, base, cur_ind>>
      BY <1>2 DEF KernelA, sums
    <2>2. /\ Here = base /\ Here' = base /\ base \in 1 .. Len(path) /\ At = 0 /\ At' = 0
          /\ ~looped
      BY <1>0, <1>a, <2>1 DEF Here, At, LenInv, TableInv
    <2>3. \A k \in 1 .. MdLen : Slot(k)' = Slot(k)
      BY <2>2 DEF Slot
    <2>4. \A i \in 1 .. Here : path'[i] = path[i]
      BY <1>0, <1>2, <1>a, <2>2, KernelALists
    <2>5. /\ \A m \in 0 .. MdLen - 1 : (Here - m > 1 => Tabled(m))'
          /\ \A n \in LoopSizes : (Here - n > 1 => path[Here - n].pt # path[Here].pt)'
      BY <1>0, <2>1, <2>2, <2>3, <2>4, TableFrame
    <2>6. QED
      BY <1>a, <2>1, <2>2, <2>5 DEF TableInv, NewInv
  <1>3. CASE KernelAEnd
    <2>1. /\ pc = "A" /\ pc' = "B" /\ step' = 0
          /\ UNCHANGED <<table, dist, looped, base, cur_ind, path>>
      BY <1>3 DEF KernelAEnd, sums, ghosts
    <2>2. /\ Here = base /\ Here' = base /\ base \in 1 .. Len(path) /\ At = 0 /\ At' = 0
          /\ ~looped
      BY <1>0, <1>a, <2>1 DEF Here, At, LenInv, TableInv
    <2>3. \A k \in 1 .. MdLen : Slot(k)' = Slot(k)
      BY <2>2 DEF Slot
    <2>4. /\ \A m \in 0 .. MdLen - 1 : (Here - m > 1 => Tabled(m))'
          /\ \A n \in LoopSizes : (Here - n > 1 => path[Here - n].pt # path[Here].pt)'
      BY <1>0, <2>1, <2>2, <2>3, TableFrame
    <2>5. QED
      BY <1>a, <2>1, <2>2, <2>4 DEF TableInv, NewInv
  <1>4. CASE ProcessJumpDistance
    BY <1>0, <1>4, TableGrows
  <1>5. CASE SkipLooped
    <2>1. pc' = "B" /\ looped' /\ UNCHANGED <<table, cur_ind>>
      BY <1>5 DEF SkipLooped, sums
    <2>2. QED
      BY <1>a, <2>1 DEF TableInv, NewInv
  <1>6. CASE OtherDP \/ UNCHANGED vars
    <2>1. UNCHANGED <<pc, step, table, dist, looped, base, cur_ind, path>>
      BY <1>6 DEF OtherDP, sums, ghosts, vars
    <2>2. /\ Here' = Here /\ At' = At
      BY <2>1 DEF Here, At
    <2>3. \A m \in 0 .. MdLen - 1 : Tabled(m)' = Tabled(m)
      BY <2>1, <2>2 DEF Tabled, Slot
    <2>4. QED
      BY <2>1, <2>2, <2>3 DEF TableInv, NewInv
  <1>7. CASE KernelBEnd
    <2>1. /\ pc = "B" /\ pc' = "C" /\ step = StepCnt /\ table' = Turned
          /\ UNCHANGED <<step, dist, looped, base, cur_ind, path>>
      BY <1>7 DEF KernelBEnd, ghosts
    <2>2. CASE looped
      <3>1. table' \in [0 .. MdLen - 1 -> Int \cup {NoDist}]
        <4>1. ASSUME NEW i \in 0 .. MdLen - 1
              PROVE  ((i + cur_ind) % MdLen) \in 0 .. MdLen - 1
          <5>1. i + cur_ind \in Nat /\ MdLen \in Nat \ {0}
            BY <1>a
          <5>2. QED
            BY <5>1, ModStep
        <4>2. QED
          BY <1>a, <2>1, <4>1 DEF Turned
      <3>. QED
        BY <2>1, <2>2, <3>1 DEF TableInv, NewInv
    <2>3. CASE ~looped
      <3>1. cur_ind = 0
        BY <2>1, <2>3, Border DEF TableInv, At
      <3>2. table' = table
        <4>1. ASSUME NEW i \in 0 .. MdLen - 1
              PROVE  ((i + cur_ind) % MdLen) = i
          <5>1. i + cur_ind = i
            BY <3>1
          <5>2. QED
            BY <5>1, Border
        <4>2. QED
          BY <1>a, <2>1, <4>1 DEF Turned
      <3>3. /\ Here = base + step /\ Here' = base + step /\ Here \in 1 .. Len(path)
            /\ At = StepCnt /\ At' = 0
        BY <1>0, <1>a, <2>1 DEF Here, At, LenInv
      <3>4. \A k \in 1 .. MdLen : Slot(k)' = Slot(k)
        BY <3>3, Border DEF Slot
      <3>5. /\ \A m \in 0 .. MdLen - 1 : (Here - m > 1 => Tabled(m))'
            /\ \A n \in LoopSizes : (Here - n > 1 => path[Here - n].pt # path[Here].pt)'
        BY <1>0, <2>1, <2>3, <3>2, <3>3, <3>4, TableFrame
      <3>6. QED
        BY <1>a, <2>1, <2>3, <3>2, <3>5 DEF TableInv, NewInv
    <2>4. QED
      BY <2>2, <2>3
  <1>8. CASE KernelC
    <2>1. /\ pc = "C" /\ pc' = "host" /\ UNCHANGED <<step, table, looped, base, cur_ind>>
      BY <1>8 DEF KernelC
    <2>2. CASE looped
      <3>1. Len(path') = 1
        BY <1>0, <1>8, <2>2, KernelCStep
      <3>2. Here' = 1
        BY <2>1, <3>1 DEF Here
      <3>3. QED
        BY <1>a, <2>1, <3>2 DEF TableInv, NewInv
    <2>3. CASE ~looped
      <3>1. UNCHANGED <<dist, path>>
        BY <1>8, <2>3 DEF KernelC
      <3>2. /\ Here = Len(path) /\ Here' = Len(path) /\ Len(path) >= 1 /\ At = 0 /\ At' = 0
        BY <1>0, <1>a, <2>1, <3>1 DEF Here, At, LenInv
      <3>3. \A k \in 1 .. MdLen : Slot(k)' = Slot(k)
        BY <3>2 DEF Slot
      <3>4. /\ \A m \in 0 .. MdLen - 1 : (Here - m > 1 => Tabled(m))'
            /\ \A n \in LoopSizes : (Here - n > 1 => path[Here - n].pt # path[Here].pt)'
        BY <1>0, <1>a, <2>1, <2>3, <3>1, <3>2, <3>3, TableFrame
      <3>5. QED
        BY <1>a, <2>1, <2>3, <3>4 DEF TableInv, NewInv
    <2>4. QED
      BY <2>2, <2>3
  <1>9. QED
    BY <1>1, <1>2, <1>3, <1>4, <1>5, <1>6, <1>7, <1>8 DEF Next

(***************************************************************************)
(* No loop of a size KernelB looks for goes unnoticed at the first point   *)
(* that comes again, across the border of two calls too (RCGpuCore.cu      *)
(* 529-549 and 656-678), even when the distance is off.                    *)
(***************************************************************************)
THEOREM LoopsNoticedCorrect == Spec => []LoopsNoticed
  <1>1. Init => TableInv /\ NewInv
    <2>1. ASSUME Init PROVE TableInv /\ NewInv
      <3>1. pc = "host" /\ Len(path) = 1 /\ ~looped
            /\ table = [i \in 0 .. MdLen - 1 |-> NoDist] /\ cur_ind = 0
        BY <2>1 DEF Init
      <3>2. Here = 1
        BY <3>1 DEF Here
      <3>3. QED
        BY <3>1, <3>2, Sizes DEF TableInv, NewInv
    <2>2. QED
      BY <2>1
  <1>2. IInv /\ TableInv /\ NewInv /\ [Next]_vars => TableInv' /\ NewInv'
    BY LoopsStep
  <1>3. IInv /\ NewInv => LoopsNoticed
    <2>1. ASSUME IInv, NewInv, pc = "B", ~looped, NEW n \in LoopSizes,
                 base + step - n > 1
          PROVE  path[base + step - n].pt # path[base + step].pt
      <3>1. Here = base + step
        BY <2>1 DEF Here
      <3>2. Here - n > 1 => path[Here - n].pt # path[Here].pt
        BY <2>1, Zenon DEF NewInv
      <3>3. base \in Int /\ step \in Int /\ n \in Int
        BY <2>1, Sizes DEF IInv, TypeInv
      <3>4. Here - n = base + step - n
        BY <3>1, <3>3
      <3>5. QED
        BY <2>1, <3>1, <3>2, <3>4, Zenon
    <2>2. QED
      BY <2>1 DEF LoopsNoticed
  <1>4. QED
    BY Invariance, <1>1, <1>2, <1>3, PTL DEF Spec

============================================================================
