----------------------------- MODULE MCKernels -----------------------------
(* A walk with two jumps per table; the values make distinct sums of jumps *)
(* distinct, as those of random 128-bit jumps are.                         *)
EXTENDS Kernels, TLC

MCInds == 0 .. 1
MCJ1 == (0 :> 1 @@ 1 :> 40)
MCJ2 == (0 :> 1600 @@ 1 :> 64000)
MCJ3 == (0 :> 2560000 @@ 1 :> 102400000)

\* The second to the sixth point have any jump; the seventh and three around the
\* border of two calls may close a loop; from the others the walk
\* goes on.
Free == 2 .. 6
MCHashOf(n) ==
    {r \in Hash : /\ r.dp = (n \in {3, 6, 9, 22})
                  /\ \/ n \in Free
                     \/ r.ind = 0 /\ ~r.inv
                     \/ n = StepCnt - 1 /\ r.ind = 1 /\ ~r.inv
                     \/ n = StepCnt /\ r.ind = 0 /\ r.inv
                     \/ n \in {7, StepCnt + 1} /\ r.ind = 1 /\ r.inv}

============================================================================
