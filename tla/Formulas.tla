------------------------------ MODULE Formulas ------------------------------
(***************************************************************************)
(* From a collision to the key: what a stored distance is when it comes    *)
(* back from the table (PackWild, CheckXSigMatch), the keys a worker tries *)
(* (WorkerThread), those of the fallback without workers (Collision_SOTA), *)
(* and the approximations BSGS starts from (Collision_BSGS).               *)
(*                                                                         *)
(* A point is represented by its discrete logarithm, as in Bsgs; that a    *)
(* key is verified (MultiplyG, IsEqual) is that it is the key.  The        *)
(* endomorphism is left out: BuildDP writes no transform into a DP, so     *)
(* that Collision_SOTA_Endo adds nothing and the exponent BSGS is aimed at *)
(* is 0; the other exponents it tries after that can but find the key.     *)
(***************************************************************************)
EXTENDS Bsgs

CONSTANTS
  HalfRange,   \* Int_HalfRange
  gStart,      \* start of the range
  TruncSize,   \* 2^32: what PackWild drops of a distance
  KeptSize,    \* 2^136: the first power of two it does not keep
  DistSize     \* 2^176: the 22 bytes of a distance

ASSUME FormulasAssumption ==
  /\ HalfRange \in Nat /\ gStart \in Nat
  /\ TruncSize \in Nat \ {0} /\ TruncSize % 2 = 0
  /\ KeptSize \in Nat \ {0} /\ KeptSize % TruncSize = 0
  /\ DistSize \in Nat \ {0} /\ DistSize % (2 * KeptSize) = 0
  /\ TruncSize <= MaxGiants * BabySteps

TAME == 0
WILD1 == 1
WILD2 == 2

-----------------------------------------------------------------------------
(* Distances.                                                              *)

\* The 22 bytes of a distance, in two's complement, and back.
Bytes(d) == d % DistSize
Signed(b) == IF 2 * b >= DistSize THEN b - DistSize ELSE b

PackWild(b) == (b % KeptSize) \div TruncSize
CheckXSigMatch(entry) == entry * TruncSize
Recovered(d) == CheckXSigMatch(PackWild(Bytes(d)))

\* Where a kangaroo is that has gone a distance: TAMEs start at nothing, WILD1
\* at PntA, WILD2 at PntB.
Point(type, d, key) ==
  IF type = TAME THEN d
  ELSE IF type = WILD1 THEN (key - HalfRange) + d ELSE (HalfRange - key) + d

Collide(type1, d1, type2, d2, key) == SameX(Point(type1, d1, key), Point(type2, d2, key))

-----------------------------------------------------------------------------
(* Keys.                                                                   *)

\* One x, so the points are equal or opposite: one formula for each.
TameWild(t, w, wildType) ==
  IF wildType = WILD1
  THEN {t - w + HalfRange, HalfRange - t - w}
  ELSE {HalfRange + w - t, HalfRange + w + t}

\* The formulas that do not ask for the type.
AnyTameWild(t, w) ==
  {t - w + HalfRange, t - w - HalfRange, w - t + HalfRange, w - t - HalfRange}

\* ShiftRight of the magnitude.
Half(d) == (IF d < 0 THEN -d ELSE d) \div 2

WildWild(w1, w2) == {HalfRange + Half(w2 - w1), HalfRange - Half(w2 - w1)}

\* WorkerThread: the stored distance first, both as bytes.
WorkerKeys(b1, type1, b2, type2) ==
  IF type1 = TAME
  THEN TameWild(Signed(b1), Signed(b2), type2)
         \union AnyTameWild(b1, b2) \union AnyTameWild(Signed(b1), Signed(b2))
  ELSE WildWild(b1, b2)

\* Collision_SOTA, called with IsNeg and without.
Collision_SOTA(t, w, type1, IsNeg) ==
  LET s == IF IsNeg THEN -t ELSE t
  IN  IF type1 = TAME THEN AnyTameWild(s, w)
      ELSE WildWild(s, w) \union {gStart + k : k \in WildWild(s, w)}

FallbackKeys(b1, type1, b2) ==
  UNION {Collision_SOTA(Signed(b1), Signed(b2), type1, IsNeg) : IsNeg \in BOOLEAN}

\* Where Collision_BSGS lets BSGS_ResolveKey start.
Approximations(t, type1, w, type2) ==
  IF type1 # TAME /\ type2 # TAME THEN WildWild(t, w)
  ELSE IF type1 = TAME THEN TameWild(t, w, type2) ELSE TameWild(w, t, type1)

Collision_BSGS(b1, type1, b2, type2, key) ==
  \E k \in Approximations(Signed(b1), type1, Signed(b2), type2) :
    BSGS_ResolveKey(key, key - k)

\* The key is found by the worker, or later by BSGS.
Resolved(b1, type1, b2, type2, key) ==
  \/ key \in WorkerKeys(b1, type1, b2, type2)
  \/ Collision_BSGS(b1, type1, b2, type2, key)
=============================================================================
