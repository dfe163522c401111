----------------------------- MODULE MCTameStore -----------------------------
(* Small instances of TameStore for TLC. *)
EXTENDS TameStore, TLC

DP(x, t, l) == [x |-> x, type |-> t, lo |-> l, hi |-> 1, ext |-> 0]

\* x-coordinates 1..5: where they hash to, and their 20-bit signatures. That
\* of 2 is 0, which an entry seems to have whose second half is not written
\* yet; 5 is a different point with the signature of 1 that starts one slot
\* later.
MCHash == <<1, 1, 2, 1, 2>>
MCXSig == <<1, 0, 3, 4, 1>>

\* Two WILD1 of one probe sequence and a twin of the first, another one that
\* meets them half way (from the other shard), and WILD2 of the first two's x,
\* the one that collides and the one at the same distance.
WildPoints ==
  {DP(1, WILD1, 1), DP(2, WILD1, 2), DP(1, WILD1, 5), DP(3, WILD1, 3),
   DP(2, WILD2, 4), DP(1, WILD2, 1)}

\* Three WILD1 for the probe sequence of slot 1, one at home in its second slot
\* (in the other shard), and a WILD2 colliding with one of the three.
RotPoints ==
  {DP(1, WILD1, 1), DP(2, WILD1, 2), DP(4, WILD1, 3), DP(3, WILD1, 5), DP(2, WILD2, 4)}

\* ALL-TAME: two TAMEs for the probe sequence of slot 1, one at home in its
\* second slot, a WILD colliding with one of them, and two WILDs that collide.
TamePoints ==
  {DP(1, TAME, 1), DP(2, TAME, 3), DP(3, TAME, 9),
   DP(2, WILD1, 2), DP(3, WILD1, 6), DP(3, WILD2, 7)}

\* Mixed ALL-TAME traffic for one thread: a twin, an alias of a signature and
\* enough TAMEs to fill a sequence; WILDs that collide with one, that repeat
\* one's walk, and that meet in one place of the W-W buffer with and without
\* a collision.
SeqPoints ==
  {DP(1, TAME, 1), DP(1, TAME, 5), DP(2, TAME, 3), DP(3, TAME, 9), DP(5, TAME, 4),
   DP(2, WILD1, 2), DP(3, WILD1, 6), DP(3, WILD2, 7), DP(1, WILD2, 1)}

ThreadSymmetry == Permutations(Threads)
=============================================================================
