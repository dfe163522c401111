----------------------------- MODULE MCGpuHost -----------------------------
(* Seven kangaroos: a number that is no multiple of 3, and at least two of  *)
(* each kind; numbers whose sums tell what was added.                       *)
EXTENDS GpuHost

MCHop(c, u) == (IF u = "walk" THEN 100 ELSE IF u = "loop" THEN 37 ELSE 11) * 3 ^ c
MCDraw(n, i) == 10000 * (n + 1) + 7 * i + 1
MCLoops == {{}, {1, 2}}
=============================================================================
