------------------------------ MODULE Kernels ------------------------------
(***************************************************************************)
(* The three kernels that move a kangaroo (RCGpuCore.cu): KernelA makes    *)
(* StepCnt jumps with points only and writes a list of them, KernelB goes  *)
(* over the list, adds up the distances, pairs them with the x of the      *)
(* distinguished points (DPs) KernelA has met and looks for loops, KernelC *)
(* takes a kangaroo out of a loop.  The kernels of one call run one after  *)
(* the other, and a GPU thread handles its kangaroos independently; so     *)
(* this is one kangaroo.  The others of the GPU appear where they meet it: *)
(* in the output buffer (OtherDP).                                         *)
(*                                                                         *)
(* A point is the distance at which it lies from the kangaroo's start.     *)
(* What the code reads off the coordinates of a point is its hash: `ind',  *)
(* x[0] % JMP_CNT, `inv', the parity of y, and `dp', IS_DP.  Hashes are    *)
(* arbitrary and chosen when a point is first met.                         *)
(***************************************************************************)
EXTENDS Integers, Sequences, FiniteSets

CONSTANTS Inds,        \* 0 .. JMP_CNT-1
          J1, J2, J3,  \* distances of Jumps1, Jumps2, Jumps3
          StepCnt,     \* STEP_CNT, jumps per call
          MdLen,       \* MD_LEN, depth of the table of last distances
          DpTableMax,  \* DPTABLE_MAX_CNT, DPs per kangaroo and call
          MaxDp,       \* MAX_DP_CNT, records of the output buffer
          HashOf(_),   \* the hashes that the n-th new point may have
          NoDist,      \* content of the cleared LoopTable
          MaxCalls,    \* bound: calls of the three kernels
          MaxOthers    \* bound: records of other kangaroos in a call

Hash == [ind : Inds, inv : BOOLEAN, dp : BOOLEAN]

ASSUME KernelsAssumption ==
    /\ J1 \in [Inds -> Int] /\ J2 \in [Inds -> Int] /\ J3 \in [Inds -> Int]
    /\ MdLen \in Nat /\ MdLen >= 4
    /\ StepCnt \in Nat /\ MdLen <= StepCnt /\ StepCnt % MdLen = 0
    /\ DpTableMax \in Nat \ {0}
    /\ MaxDp \in Nat \ {0}
    /\ NoDist \notin Int

VARIABLES
    pc,        \* which kernel runs, or "host"
    step,      \* step_ind of the kernel that runs
    pt,        \* Kangs, x and y
    mode,      \* the kangaroo's bit of L1S2: the next jump is from Jumps2
    dist,      \* Kangs, distance
    jlist,     \* JumpsList: the jumps of this call (`num', the DPs before the
               \* jump, is history)
    last,      \* LastPnts: the last MdLen points
    dpx,       \* DPTable: x of the DPs of this call
    stored,    \* DPTable, low half of the counter: DPs KernelA met
    built,     \* DPTable, high half: DPs KernelB met
    table,     \* LoopTable: the last distances
    cur_ind,   \* where the table goes on
    looped,    \* KernelB has found a loop in this call
    exit,      \* LoopedKangs: index in LastPnts where KernelC jumps
    out, cnt,  \* DPs_out: records and counter
    calls,     \* calls so far (bound)
    hash,      \* the hashes of the points met so far
    path,      \* history: points and modes since the last jump of KernelC
    base,      \* history: where in `path' this call began
    mistaken,  \* history: the loop found in this call is none, see Genuine
    drift      \* history: how far the kangaroo lies from its distance

vars == <<pc, step, pt, mode, dist, jlist, last, dpx, stored, built, table,
          cur_ind, looped, exit, out, cnt, calls, hash, path, base, mistaken, drift>>

walk == <<pt, mode, jlist, last, dpx, stored>>  \* what KernelA writes
sums == <<dist, built, table, cur_ind, looped, exit, mistaken>>   \* KernelB
ghosts == <<path, base, drift>>

----------------------------------------------------------------------------
\* The distance of a jump, with the sign the parity of y gives it.
Signed(inv, j) == IF inv THEN -j ELSE j

\* The jump the code takes from point p in mode m.
Jump(hs, p, m) ==
    Signed(hs[p].inv, IF m THEN J2[hs[p].ind] ELSE J1[hs[p].ind])

\* A jump from p to q with Jumps1 that the next jump would take back.
Undone(hs, p, q) == hs[q].ind = hs[p].ind /\ hs[q].inv # hs[p].inv

\* The mode in which the walk arrives at q from p.
NextMode(hs, p, m, q) == ~m /\ Undone(hs, p, q)

\* The hashes after p was looked at.
Met(p) ==
    IF p \in DOMAIN hash THEN {hash}
    ELSE {[q \in DOMAIN hash \cup {p} |-> IF q = p THEN r ELSE hash[q]] :
             r \in Hash \cap HashOf(Cardinality(DOMAIN hash) + 1)}

\* RCGpuKang::Start and KernelGen: the kangaroo at its start point.
Init ==
    /\ pc = "host" /\ step = 0
    /\ pt = 0 /\ mode = FALSE /\ dist = 0
    /\ jlist = <<>> /\ last = [n \in 0 .. MdLen - 1 |-> 0]
    /\ dpx = [i \in 0 .. DpTableMax - 1 |-> 0] /\ stored = 0 /\ built = 0
    /\ table = [i \in 0 .. MdLen - 1 |-> NoDist] /\ cur_ind = 0
    /\ looped = FALSE /\ exit = 0
    /\ out = <<>> /\ cnt = 0 /\ calls = 0
    /\ \E r \in Hash \cap HashOf(1) : hash = [p \in {0} |-> r]
    /\ path = <<[pt |-> 0, mode |-> FALSE]>> /\ base = 1
    /\ mistaken = FALSE /\ drift = 0

\* RCGpuKang::Execute: one pass of its loop up to the kernels.
Execute ==
    /\ pc = "host" /\ calls < MaxCalls
    /\ calls' = calls + 1
    /\ cnt' = 0 /\ out' = <<>>
    /\ stored' = 0 /\ built' = 0 /\ looped' = FALSE /\ mistaken' = FALSE
    /\ jlist' = <<>> /\ step' = 0 /\ cur_ind' = 0
    /\ base' = Len(path)
    /\ pc' = "A"
    /\ UNCHANGED <<pt, mode, dist, last, dpx, table, exit, hash, path, drift>>

----------------------------------------------------------------------------
\* KernelA, one step: the jump, the loop of size 2, the DP, the lists.
KernelA ==
    /\ pc = "A" /\ step < StepCnt
    /\ LET q == pt + Jump(hash, pt, mode)
       IN  \E hs \in Met(q) :
             LET m == NextMode(hs, pt, mode, q)
             IN  /\ hash' = hs
                 /\ pt' = q /\ mode' = m
                 /\ path' = Append(path, [pt |-> q, mode |-> m])
                 /\ jlist' = Append(jlist,
                      [ind |-> hs[pt].ind, inv |-> hs[pt].inv,
                       jmp2 |-> mode, dp |-> hs[q].dp, num |-> stored])
                 /\ IF hs[q].dp
                    THEN /\ stored' = stored + 1
                         /\ dpx' = [dpx EXCEPT ![IF stored < DpTableMax
                                                 THEN stored
                                                 ELSE DpTableMax - 1] = q]
                    ELSE UNCHANGED <<stored, dpx>>
                 /\ last' = IF step + MdLen >= StepCnt
                            THEN [last EXCEPT ![step + MdLen - StepCnt] = q]
                            ELSE last
    /\ step' = step + 1
    /\ UNCHANGED <<pc, sums, out, cnt, calls, base, drift>>

KernelAEnd ==
    /\ pc = "A" /\ step = StepCnt
    /\ pc' = "B" /\ step' = 0
    /\ UNCHANGED <<walk, sums, out, cnt, calls, hash, ghosts>>

----------------------------------------------------------------------------
\* The sizes of loops KernelB looks for.
LoopSizes == {n \in 4 .. MdLen : n % 2 = 0}

\* The sizes n such that distance d was in the table n steps ago.
Repeats(d, iter) == {n \in LoopSizes : table[(iter + MdLen - n) % MdLen] = d}

\* The record of a DP at position cnt: beyond the buffer all threads write
\* the last one, and each of its words is what one of them wrote.
WriteDP(r) ==
    /\ cnt' = cnt + 1
    /\ IF Len(out) < MaxDp
       THEN out' = Append(out, r)
       ELSE \E x \in {out[MaxDp].x, r.x}, d \in {out[MaxDp].d, r.d} :
              out' = [out EXCEPT ![MaxDp] = [x |-> x, d |-> d, n |-> r.n]]

\* BuildDP: the next x that KernelA stored, with the distance d.
BuildDP(d) ==
    /\ built' = built + 1
    /\ IF built < DpTableMax
       THEN WriteDP([x |-> dpx[built], d |-> d, n |-> built])
       ELSE UNCHANGED <<out, cnt>>

\* History.  The walk really was in the same place and the same mode n steps
\* before step s of this call.
Genuine(s, n) ==
    /\ base + s + 1 - n >= 1
    /\ path[base + s + 1] = path[base + s + 1 - n]

\* The index in LastPnts of the last point of this call that is in the same
\* place of a loop of n jumps as the point of this step.
ExitPoint_OffByOne(n) == MdLen - ((StepCnt - 1 - step) % n)
ExitPoint_LastPoint(n) == MdLen - 1
ExitPoint(n) == MdLen - 1 - ((StepCnt - 1 - step) % n)

\* ProcessJumpDistance for a kangaroo that is not yet known to be looped.
ProcessJumpDistance ==
    /\ pc = "B" /\ step < StepCnt /\ ~looped
    /\ LET j == jlist[step + 1]
           d == dist + Signed(j.inv, IF j.jmp2 THEN J2[j.ind] ELSE J1[j.ind])
           iter == step % MdLen
           sizes == Repeats(d, iter)
       IN  /\ dist' = d
           /\ table' = [table EXCEPT ![iter] = d]
           /\ cur_ind' = (iter + 1) % MdLen
           /\ \/ /\ sizes = {}
                 /\ IF j.dp THEN BuildDP(d) ELSE UNCHANGED <<built, out, cnt>>
                 /\ UNCHANGED <<looped, exit, mistaken>>
              \/ \E n \in sizes :
                   /\ \A m \in sizes : n <= m
                   /\ looped' = TRUE
                   /\ exit' = ExitPoint(n)
                   /\ mistaken' = ~Genuine(step, n)
                   /\ UNCHANGED <<built, out, cnt>>
    /\ step' = step + 1
    /\ UNCHANGED <<pc, walk, calls, hash, ghosts>>

SkipLooped_Builds ==
    /\ pc = "B" /\ step < StepCnt /\ looped
    /\ IF jlist[step + 1].dp THEN BuildDP(dist) ELSE UNCHANGED <<built, out, cnt>>
    /\ step' = step + 1
    /\ UNCHANGED <<pc, walk, dist, table, cur_ind, looped, exit, mistaken,
                   calls, hash, ghosts>>

\* DO_ITER for a looped kangaroo: nothing is added any more.
SkipLooped ==
    /\ pc = "B" /\ step < StepCnt /\ looped
    /\ step' = step + 1
    /\ UNCHANGED <<pc, walk, sums, out, cnt, calls, hash, ghosts>>

\* The records of other kangaroos in this call.
Others == cnt - (IF built < DpTableMax THEN built ELSE DpTableMax)

\* KernelB of other kangaroos: a record of theirs, which is not our subject.
\* When it comes matters only next to a record of ours, or at the end.
OtherDP ==
    /\ pc = "B" /\ Others < MaxOthers
    /\ step < StepCnt => jlist[step + 1].dp
    /\ WriteDP([x |-> NoDist, d |-> NoDist, n |-> -1])
    /\ UNCHANGED <<pc, step, walk, sums, calls, hash, ghosts>>

\* The table as the next call reads it.
Turned_Shared == [i \in 0 .. MdLen - 1 |-> NoDist]
Turned == [i \in 0 .. MdLen - 1 |-> table[(i + cur_ind) % MdLen]]

\* KernelB, the end: the table is turned so that the next call begins at 0.
KernelBEnd ==
    /\ pc = "B" /\ step = StepCnt
    /\ table' = Turned
    /\ pc' = "C"
    /\ UNCHANGED <<step, walk, dist, built, cur_ind, looped, exit, mistaken,
                   out, cnt, calls, hash, ghosts>>

----------------------------------------------------------------------------
\* KernelC: a looped kangaroo makes one jump of Jumps3 from the point of
\* LastPnts that KernelB named.
KernelC ==
    /\ pc = "C"
    /\ IF looped
       THEN LET p == last[exit]
                j == Signed(hash[p].inv, J3[hash[p].ind])
            IN  /\ pt' = p + j
                /\ dist' = dist + j
                /\ mode' = FALSE
                /\ hash' \in Met(p + j)
                /\ path' = <<[pt |-> p + j, mode |-> FALSE]>>
                /\ drift' = IF mistaken THEN p - dist ELSE drift
       ELSE UNCHANGED <<pt, dist, mode, hash, path, drift>>
    /\ pc' = "host"
    /\ UNCHANGED <<step, jlist, last, dpx, stored, built, table, cur_ind,
                   looped, exit, out, cnt, calls, base, mistaken>>

Next ==
    \/ Execute
    \/ KernelA \/ KernelAEnd
    \/ ProcessJumpDistance \/ SkipLooped \/ OtherDP \/ KernelBEnd
    \/ KernelC

Spec == Init /\ [][Next]_vars

----------------------------------------------------------------------------
KernelsTypeOK ==
    /\ pc \in {"host", "A", "B", "C"} /\ step \in 0 .. StepCnt
    /\ pt \in Int /\ mode \in BOOLEAN /\ dist \in Int
    /\ \A i \in 1 .. Len(jlist) :
         jlist[i] \in [ind : Inds, inv : BOOLEAN, jmp2 : BOOLEAN, dp : BOOLEAN,
                      num : 0 .. StepCnt]
    /\ last \in [0 .. MdLen - 1 -> Int]
    /\ dpx \in [0 .. DpTableMax - 1 -> Int]
    /\ stored \in 0 .. StepCnt /\ built \in 0 .. stored
    /\ table \in [0 .. MdLen - 1 -> Int \cup {NoDist}]
    /\ cur_ind \in 0 .. MdLen - 1 /\ looped \in BOOLEAN
    /\ exit \in 0 .. MdLen - 1
    /\ Len(out) <= MaxDp /\ Len(out) <= cnt
    /\ Len(jlist) <= StepCnt /\ pt \in DOMAIN hash

(***************************************************************************)
(* What Dbg_CheckKangs looks for (GpuKang.cpp 428): between two calls the  *)
(* point of a kangaroo lies at its distance, whatever loops KernelB found  *)
(* and from whatever point KernelC jumped.  But KernelB compares distances *)
(* and not the mode in which the walk came by, and so takes for a loop     *)
(* what is none; from then on the kangaroo lies off its distance, by just  *)
(* as much as the point KernelC jumped from did.                           *)
(***************************************************************************)
Consistent == pc = "host" => pt = dist + drift

(***************************************************************************)
(* A DP that reaches the host is true: the x KernelA stored belongs to the *)
(* distance KernelB summed up (off by what its kangaroo was off when the   *)
(* call began, 0 before its first mistaken loop), though the two are       *)
(* paired by their order only.  The exceptions are the limits of the two   *)
(* buffers: the last x of a kangaroo that met more DPs than the table      *)
(* holds, and the last record of a call with more DPs than the buffer      *)
(* holds.  (A record with n = -1 is of another kangaroo.)                  *)
(***************************************************************************)
DeliveredTrue ==
    pc # "host" =>
        \A i \in 1 .. Len(out) :
            \/ i = MaxDp /\ cnt > MaxDp
            \/ out[i].n = DpTableMax - 1 /\ stored > DpTableMax
            \/ out[i].n >= 0 => out[i].x = out[i].d + drift

(***************************************************************************)
(* Every loop of a size KernelB can see is noticed at the first point the  *)
(* walk comes back to, across the border of two calls too: as long as no   *)
(* loop is found, the point of the present step is none of those an even   *)
(* number of steps, from 4 to MD_LEN, ago.  The point a kangaroo started   *)
(* or left KernelC at is the one it may come back to, once, unnoticed.     *)
(***************************************************************************)
LoopsNoticed ==
    pc = "B" /\ ~looped =>
        \A n \in LoopSizes :
            base + step - n > 1 => path[base + step - n].pt # path[base + step].pt

============================================================================
