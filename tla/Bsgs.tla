-------------------------------- MODULE Bsgs --------------------------------
(***************************************************************************)
(* The search of bsgs_resolve.h: given an approximation of the key that is *)
(* wrong by delta, find delta by baby steps and giant steps, and verify    *)
(* the candidate by its x.                                                 *)
(*                                                                         *)
(* A point is represented by its discrete logarithm, an integer: the range *)
(* searched is tiny against the order of the group, so nothing wraps. Two  *)
(* points have one x exactly when their logarithms are equal or opposite,  *)
(* and AddPoints (Ec.cpp), which divides by the difference of the two x,   *)
(* is then wrong: it yields no point of the curve, and nothing that is     *)
(* added to that later gives a point again.                                *)
(***************************************************************************)
EXTENDS Integers

CONSTANTS
  BabySteps,   \* BSGS_BABY_STEPS
  MaxGiants    \* BSGS_MAX_GIANTS

ASSUME BsgsAssumption == BabySteps \in Nat \ {0} /\ MaxGiants \in Nat \ {0}

SameX(p, q) == p = q \/ p = -q

\* The sum by AddPoints is right.
Addable(p, q) == ~SameX(p, q)

\* The baby table: the x of i*G gives i back, for i = 1 .. BabySteps.
Baby == 1 .. BabySteps

\* The j-th point of the search upwards is diff - j*giant_step, reached by j
\* additions of neg_giant, the first one to diff itself.
UpPoint(delta, j) == delta - j * BabySteps
UpReached(delta, j) == \A i \in 0 .. j - 1 : Addable(UpPoint(delta, i), -BabySteps)

\* A candidate is verified by the x of its multiple of G alone.
Verified(key, k) == SameX(k, key)

\* A hit makes a candidate of the approximation, key - delta.
UpHit(key, delta, j) ==
  /\ UpReached(delta, j)
  /\ \E i \in Baby :
       SameX(UpPoint(delta, j), i) /\ Verified(key, (key - delta) + (i + j * BabySteps))

\* The same downwards: the j-th point is diff + j*giant_step, j from 1 on.
DownPoint(delta, j) == delta + j * BabySteps
DownReached(delta, j) == \A i \in 0 .. j - 1 : Addable(DownPoint(delta, i), BabySteps)

DownHit(key, delta, j) ==
  /\ DownReached(delta, j)
  /\ \E i \in Baby :
       SameX(DownPoint(delta, j), i) /\ Verified(key, (key - delta) + (i - j * BabySteps))

\* MultiplyG takes the words of a number as they are and has no point for 0:
\* from an approximation that is not positive the search starts at a point that
\* has nothing to do with the target.
Multiplied(k) == k > 0

\* BSGS_ResolveKey finds the key from an approximation that is wrong by delta.
BSGS_ResolveKey(key, delta) ==
  /\ Multiplied(key - delta)
  /\ \/ Verified(key, key - delta)
     \/ \E j \in 0 .. MaxGiants : UpHit(key, delta, j)
     \/ \E j \in 1 .. MaxGiants : DownHit(key, delta, j)

-----------------------------------------------------------------------------
\* What the search is meant to find ("giant range +/-2^32"), and the deltas it
\* never finds: on the way down it meets the point at infinity first.
InSearchRange(delta) == -(MaxGiants * BabySteps) <= delta /\ delta <= (MaxGiants + 1) * BabySteps
Unlucky(delta) == delta < 0 /\ \E m \in 1 .. -delta : delta = -(m * BabySteps)
=============================================================================
