------------------------------ MODULE BsgsProofs ------------------------------
(***************************************************************************)
(* What the baby-step giant-step search finds, for every table size, every *)
(* number of giant steps, every key and every delta: exactly the search    *)
(* range without the negative multiples of BABY_STEPS, from approximations *)
(* that are positive.                                                      *)
(***************************************************************************)
EXTENDS Bsgs, TLAPS

B == BabySteps
M == MaxGiants

LEMMA Sizes == B \in Nat \ {0} /\ M \in Nat \ {0}
BY BsgsAssumption DEF B, M

LEMMA MulLe ==
  ASSUME NEW a \in Int, NEW b \in Int, NEW c \in Nat, a <= b
  PROVE  a * c <= b * c
<1>1. PICK d \in Nat : b = a + d
  <2>1. b - a \in Nat /\ b = a + (b - a)
    OBVIOUS
  <2> QED BY <2>1
<1>2. b * c = a * c + d * c
  BY <1>1, SMT
<1>3. d * c \in Nat /\ a * c \in Int
  BY SMT
<1> QED BY <1>2, <1>3, SMT

\* A positive number is a multiple of B and a baby step.
LEMMA Split ==
  ASSUME NEW a \in Nat \ {0}
  PROVE  \E q \in Nat, r \in 1 .. B : a = q * B + r
<1>1. /\ (a - 1) \div B \in Nat
      /\ B * ((a - 1) \div B) <= a - 1
      /\ a - 1 < B * ((a - 1) \div B) + B
  BY Sizes, SMT
<1>2. PICK q \in Nat : B * q <= a - 1 /\ a - 1 < B * q + B
  BY <1>1
<1>3. B * q = q * B /\ q * B \in Nat
  BY <1>2, Sizes, SMT
<1>4. a - q * B \in 1 .. B /\ a = q * B + (a - q * B)
  BY <1>2, <1>3, Sizes
<1> QED BY <1>4

\* A positive delta of the range is found on the way up.
LEMMA FoundUp ==
  ASSUME NEW key \in Nat \ {0}, NEW delta \in Nat \ {0}, delta <= (M + 1) * B
  PROVE  \E j \in 0 .. M : UpHit(key, delta, j)
<1>1. PICK q \in Nat, r \in 1 .. B : delta = q * B + r
  BY Split
<1>2. q <= M
  <2>1. SUFFICES ASSUME q >= M + 1 PROVE FALSE
    BY Sizes
  <2>2. (M + 1) * B <= q * B
    BY <2>1, Sizes, MulLe
  <2>3. q * B \in Int /\ (M + 1) * B \in Int
    BY Sizes, SMT
  <2> QED BY <1>1, <2>2, <2>3, Sizes
<1>3. UpReached(delta, q)
  <2>1. SUFFICES ASSUME NEW i \in 0 .. q - 1 PROVE Addable(UpPoint(delta, i), -BabySteps)
    BY DEF UpReached
  <2>2. (q - i) * B = q * B - i * B /\ q * B \in Int /\ i * B \in Int /\ 1 * B = B
    BY Sizes, SMT
  <2>3. 1 * B <= (q - i) * B
    BY Sizes, MulLe
  <2>4. delta - i * B > B
    BY <1>1, <2>2, <2>3, Sizes
  <2> QED BY <2>2, <2>4, Sizes DEF Addable, SameX, UpPoint, B
<1>4. UpHit(key, delta, q)
  <2>1. q * B \in Int /\ delta - q * B = r /\ r + q * B = delta
    BY <1>1, Sizes, SMT
  <2>2. (key - delta) + (r + q * B) = key
    BY <2>1
  <2> QED BY <1>3, <2>1, <2>2 DEF UpHit, UpPoint, Verified, SameX, Baby, B
<1> QED BY <1>2, <1>4, Sizes

\* A negative delta of the range is found on the way down, unless it is a
\* multiple of B.
LEMMA FoundDown ==
  ASSUME NEW key \in Nat \ {0}, NEW delta \in Int,
         delta < 0, -(M * B) <= delta, ~Unlucky(delta)
  PROVE  \E j \in 1 .. M : DownHit(key, delta, j)
<1>1. PICK q \in Nat, r \in 1 .. B : -delta = q * B + r
  BY Split
<1>2. q * B \in Int /\ M * B \in Int /\ (q + 1) * B = q * B + B
  BY Sizes, SMT
<1>3. r # B
  <2>1. SUFFICES ASSUME r = B PROVE FALSE
    OBVIOUS
  <2>2. -delta = (q + 1) * B /\ delta = -((q + 1) * B)
    BY <1>1, <1>2, <2>1, Sizes
  <2>3. q + 1 <= (q + 1) * B
    <3>1. 1 * (q + 1) <= B * (q + 1)
      BY Sizes, MulLe
    <3>2. 1 * (q + 1) = q + 1 /\ B * (q + 1) = (q + 1) * B
      BY Sizes, SMT
    <3> QED BY <3>1, <3>2
  <2>4. q + 1 \in 1 .. -delta
    BY <2>2, <2>3
  <2> QED BY <2>2, <2>4 DEF Unlucky, B
<1>4. q + 1 \in 1 .. M
  <2>1. SUFFICES ASSUME q >= M PROVE FALSE
    BY Sizes
  <2>2. M * B <= q * B
    BY <2>1, Sizes, MulLe
  <2> QED BY <1>1, <1>2, <2>2, Sizes
<1>5. DownReached(delta, q + 1)
  <2>1. SUFFICES ASSUME NEW i \in 0 .. q PROVE Addable(DownPoint(delta, i), BabySteps)
    BY DEF DownReached
  <2>2. (q - i) * B = q * B - i * B /\ i * B \in Int /\ 1 * B = B /\ 0 * B = 0
    BY Sizes, SMT
  <2>3. i = q \/ 1 * B <= (q - i) * B
    BY Sizes, MulLe
  <2>4. -(delta + i * B) = (q - i) * B + r
    BY <1>1, <1>2, <2>2, Sizes
  <2>5. CASE i = q
    <3>1. -(delta + i * B) = r
      BY <1>1, <1>2, <2>5, Sizes
    <3> QED BY <1>3, <2>2, <3>1, Sizes DEF Addable, SameX, DownPoint, B
  <2>6. CASE 1 * B <= (q - i) * B
    <3>1. -(delta + i * B) > B
      BY <1>2, <2>2, <2>4, <2>6, Sizes
    <3> QED BY <2>2, <3>1, Sizes DEF Addable, SameX, DownPoint, B
  <2> QED BY <2>3, <2>5, <2>6
<1>6. DownHit(key, delta, q + 1)
  <2>1. B - r \in Baby
    BY <1>3, Sizes DEF Baby, B
  <2>2. delta + (q + 1) * B = B - r /\ (B - r) - (q + 1) * B = delta
    BY <1>1, <1>2, Sizes
  <2>3. (key - delta) + ((B - r) - (q + 1) * B) = key
    BY <2>2
  <2> QED BY <1>5, <2>1, <2>2, <2>3 DEF DownHit, DownPoint, Verified, SameX, B
<1> QED BY <1>4, <1>6

\* A hit that passes the comparison of the x is delta itself: a baby step that
\* has only the x of the point searched for is off by twice itself, and nothing
\* above the key has its x.
LEMMA VerifiedIs ==
  ASSUME NEW key \in Nat \ {0}, NEW delta \in Int, NEW s \in Int, NEW i \in Nat \ {0},
         SameX(delta - s, i), Verified(key, (key - delta) + (i + s))
  PROVE  i + s = delta
BY DEF SameX, Verified

\* Whatever the search upwards finds is positive and in the range.
LEMMA UpHitInRange ==
  ASSUME NEW key \in Nat \ {0}, NEW delta \in Int, NEW j \in 0 .. M, UpHit(key, delta, j)
  PROVE  InSearchRange(delta) /\ ~Unlucky(delta)
<1>1. PICK i \in 1 .. B : i + j * B = delta
  <2>1. PICK i \in 1 .. B :
          SameX(delta - j * B, i) /\ Verified(key, (key - delta) + (i + j * B))
    BY DEF UpHit, UpPoint, Baby, B
  <2>2. j * B \in Int /\ i \in Nat \ {0}
    BY Sizes, SMT
  <2>3. i + j * B = delta
    BY <2>1, <2>2, VerifiedIs
  <2> QED BY <2>3
<1>2. 0 * B <= j * B /\ j * B <= M * B
  BY Sizes, MulLe
<1>3. 0 * B = 0 /\ (M + 1) * B = M * B + B /\ j * B \in Int /\ M * B \in Nat
  BY Sizes, SMT
<1>4. 0 < delta /\ delta <= (M + 1) * B /\ -(M * B) <= delta
  BY <1>1, <1>2, <1>3, Sizes
<1> QED BY <1>4 DEF InSearchRange, Unlucky, B, M

\* Whatever the search downwards finds is in the range, and no multiple of
\* B: on the way to m giants below it would have added B to -B.
LEMMA DownHitInRange ==
  ASSUME NEW key \in Nat \ {0}, NEW delta \in Int, NEW j \in 1 .. M, DownHit(key, delta, j)
  PROVE  InSearchRange(delta) /\ ~Unlucky(delta)
<1>1. PICK i \in 1 .. B : i - j * B = delta
  <2>1. PICK i \in 1 .. B :
          SameX(delta + j * B, i) /\ Verified(key, (key - delta) + (i - j * B))
    BY DEF DownHit, DownPoint, Baby, B
  <2>2. PICK s \in Int : s = -(j * B) /\ j * B \in Int
    BY Sizes, SMT
  <2>3. delta - s = delta + j * B /\ i + s = i - j * B
    BY <2>2
  <2>4. SameX(delta - s, i) /\ Verified(key, (key - delta) + (i + s))
    BY <2>1, <2>3, Zenon
  <2>5. i \in Nat \ {0}
    BY Sizes
  <2>6. i + s = delta
    BY <2>2, <2>4, <2>5, VerifiedIs
  <2>7. i - j * B = delta
    BY <2>3, <2>6, Zenon
  <2> QED BY <2>7
<1>2. 1 * B <= j * B /\ j * B <= M * B
  BY Sizes, MulLe
<1>3. 1 * B = B /\ (M + 1) * B = M * B + B /\ j * B \in Int /\ M * B \in Nat
  BY Sizes, SMT
<1>4. InSearchRange(delta)
  BY <1>1, <1>2, <1>3, Sizes DEF InSearchRange, B, M
<1>5. ASSUME Unlucky(delta) PROVE FALSE
  <2>1. PICK m \in Nat \ {0} : delta = -(m * B)
    BY <1>5 DEF Unlucky, B
  <2>2. i = (j - m) * B
    <3>1. (j - m) * B = j * B - m * B /\ m * B \in Int
      BY SMT, Sizes
    <3> QED BY <1>1, <1>3, <2>1, <3>1, Sizes
  <2>3. j - m <= 1
    <3>1. SUFFICES ASSUME 2 <= j - m PROVE FALSE
      OBVIOUS
    <3>2. 2 * B <= (j - m) * B
      BY <3>1, Sizes, MulLe
    <3> QED BY <2>2, <3>2, Sizes
  <2>4. j - m >= 1
    <3>1. SUFFICES ASSUME j - m <= 0 PROVE FALSE
      OBVIOUS
    <3>2. (j - m) * B <= 0 * B
      BY <3>1, Sizes, MulLe
    <3> QED BY <2>2, <3>2, Sizes
  <2>5. m - 1 \in 0 .. j - 1
    BY <2>3, <2>4
  <2>6. Addable(DownPoint(delta, m - 1), BabySteps)
    BY <2>5 DEF DownHit, DownReached
  <2>7. delta + (m - 1) * B = -B
    <3>1. (m - 1) * B = m * B - B /\ m * B \in Int
      BY SMT, Sizes
    <3> QED BY <2>1, <3>1, Sizes
  <2> QED BY <2>6, <2>7 DEF Addable, SameX, DownPoint, B
<1> QED BY <1>4, <1>5

(* The search finds the key from an approximation that is wrong by delta   *)
(* exactly when delta is in the range and no negative multiple of          *)
(* BABY_STEPS, and the approximation is positive: the comparison of the x  *)
(* alone lets no other key pass (BSGS_ResolveKey of bsgs_resolve.h).       *)
THEOREM ResolvesExactly ==
  ASSUME NEW key \in Nat \ {0}, NEW delta \in Int
  PROVE  BSGS_ResolveKey(key, delta) <=>
           (InSearchRange(delta) /\ ~Unlucky(delta) /\ delta < key)
<1>0. Multiplied(key - delta) <=> delta < key
  BY DEF Multiplied
<1>1. ASSUME BSGS_ResolveKey(key, delta) PROVE InSearchRange(delta) /\ ~Unlucky(delta)
  <2>1. CASE Verified(key, key - delta)
    <3>1. M * B \in Nat /\ (M + 1) * B \in Nat
      BY Sizes, SMT
    <3>2. delta = 0
      BY <1>0, <1>1, <2>1 DEF Verified, SameX, BSGS_ResolveKey
    <3> QED BY <3>1, <3>2 DEF InSearchRange, Unlucky, B, M
  <2> QED BY <1>1, <2>1, UpHitInRange, DownHitInRange DEF BSGS_ResolveKey, M
<1>2. ASSUME InSearchRange(delta), ~Unlucky(delta), delta < key
      PROVE  BSGS_ResolveKey(key, delta)
  <2>1. CASE delta > 0
    BY <1>0, <1>2, <2>1, FoundUp DEF InSearchRange, BSGS_ResolveKey, B, M
  <2>2. CASE delta < 0
    BY <1>0, <1>2, <2>2, FoundDown DEF InSearchRange, BSGS_ResolveKey, B, M
  <2>3. CASE delta = 0
    BY <1>0, <1>2, <2>3 DEF BSGS_ResolveKey, Verified, SameX
  <2> QED BY <2>1, <2>2, <2>3
<1> QED BY <1>0, <1>1, <1>2 DEF BSGS_ResolveKey
=============================================================================
