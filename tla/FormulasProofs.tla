--------------------------- MODULE FormulasProofs ---------------------------
(***************************************************************************)
(* What the formulas find.  A stored distance comes back short of its low  *)
(* bits, by e; a formula that is right for the distance is then wrong by e *)
(* or by half of it, up or down; and ResolvesExactly says which of these   *)
(* BSGS makes good.                                                        *)
(***************************************************************************)
EXTENDS Formulas, BsgsProofs, TLAPS

LEMMA DivMod ==
  ASSUME NEW a \in Int, NEW n \in Nat \ {0}
  PROVE  /\ a \div n \in Int /\ (a % n) \in 0 .. n - 1
         /\ a = n * (a \div n) + (a % n)
OBVIOUS

LEMMA ModIs ==
  ASSUME NEW a \in Int, NEW n \in Nat \ {0}, NEW q \in Int, NEW r \in 0 .. n - 1,
         a = n * q + r
  PROVE  (a % n) = r /\ a \div n = q
OBVIOUS

\* The sizes are multiples of each other.
LEMMA Multiples ==
  /\ HalfRange \in Nat /\ TruncSize \in Nat \ {0}
  /\ KeptSize \in Nat \ {0} /\ DistSize \in Nat \ {0}
  /\ \E m \in Nat : TruncSize = 2 * m
  /\ \E m \in Nat : KeptSize = TruncSize * m
  /\ \E m \in Nat : DistSize = KeptSize * m
  /\ 2 * KeptSize <= DistSize
<1>1. /\ HalfRange \in Nat /\ TruncSize \in Nat \ {0} /\ TruncSize % 2 = 0
      /\ KeptSize \in Nat \ {0} /\ (KeptSize % TruncSize) = 0
      /\ DistSize \in Nat \ {0} /\ (DistSize % (2 * KeptSize)) = 0
  BY FormulasAssumption
<1>2. \E m \in Nat : TruncSize = 2 * m
  BY <1>1
<1>3. PICK k \in Int : KeptSize = TruncSize * k
  <2>. DEFINE q == KeptSize \div TruncSize
  <2>0. KeptSize \in Int
    BY <1>1
  <2>1. q \in Int /\ KeptSize = TruncSize * q + (KeptSize % TruncSize)
    BY <1>1, <2>0, DivMod, Zenon
  <2>2. TruncSize * q \in Int
    BY <1>1, <2>1, SMT
  <2>3. KeptSize = TruncSize * q
    <3>. HIDE DEF q
    <3>. QED BY <1>1, <2>1, <2>2
  <2>. QED BY <2>1, <2>3, Zenon
<1>4. k \in Nat
  BY <1>1, <1>3, SMT
<1>5. 2 * KeptSize \in Nat \ {0}
  BY <1>1
<1>6. PICK d \in Int : DistSize = (2 * KeptSize) * d
  <2>. DEFINE n == 2 * KeptSize
              q == DistSize \div n
  <2>0. DistSize \in Int
    BY <1>1
  <2>1. q \in Int /\ DistSize = n * q + (DistSize % n)
    BY <1>1, <1>5, <2>0, DivMod, Zenon
  <2>2. n * q \in Int
    BY <1>1, <2>1, SMT
  <2>3. DistSize = n * q
    <3>. HIDE DEF q
    <3>. QED BY <1>1, <2>1, <2>2
  <2>. QED BY <2>1, <2>3, Zenon
<1>7. d \in Nat /\ d >= 1
  BY <1>1, <1>6, SMT
<1>8. DistSize = KeptSize * (2 * d) /\ 2 * d \in Nat
  BY <1>1, <1>6, <1>7, SMT
<1>9. 2 * KeptSize <= DistSize
  <2>1. PICK c \in Nat : d = c + 1
    BY <1>7
  <2>2. DistSize = (2 * KeptSize) * c + 2 * KeptSize
    BY <1>1, <1>6, <2>1, SMT
  <2>3. (2 * KeptSize) * c \in Nat
    BY <1>5, <2>1
  <2>. QED BY <1>1, <2>2, <2>3
<1>. QED
  BY <1>1, <1>2, <1>3, <1>4, <1>8, <1>9

\* The low bits of a distance.
Low(d) == d % TruncSize

\* A distance that is not negative and fits comes back short of its low bits.
LEMMA RoundTrip ==
  ASSUME NEW d \in Nat, d < KeptSize
  PROVE  /\ Recovered(d) = d - Low(d) /\ Low(d) \in 0 .. TruncSize - 1
         /\ Low(d) <= d
<1>1. /\ KeptSize \in Nat \ {0} /\ DistSize \in Nat \ {0} /\ TruncSize \in Nat \ {0}
      /\ 2 * KeptSize <= DistSize
  BY Multiples
<1>2. Bytes(d) = d
  <2>1. d = DistSize * 0 + d /\ d \in 0 .. DistSize - 1
    BY <1>1
  <2>. QED BY <1>1, <2>1, ModIs DEF Bytes
<1>3. (d % KeptSize) = d
  <2>1. d = KeptSize * 0 + d /\ d \in 0 .. KeptSize - 1
    BY <1>1
  <2>. QED BY <1>1, <2>1, ModIs
<1>. DEFINE q == d \div TruncSize
            r == d % TruncSize
<1>4. q \in Int /\ r \in 0 .. TruncSize - 1 /\ d = TruncSize * q + r
  <2>1. d \in Int
    OBVIOUS
  <2>. QED BY <1>1, <2>1, DivMod, Zenon
<1>5. Recovered(d) = q * TruncSize
  BY <1>2, <1>3, Zenon DEF Recovered, PackWild, CheckXSigMatch
<1>. HIDE DEF q, r
<1>6. q * TruncSize = d - r /\ q >= 0
  BY <1>1, <1>4, SMT
<1>7. q * TruncSize >= 0
  BY <1>1, <1>4, <1>6, SMT
<1>8. r <= d
  BY <1>1, <1>4, <1>6, <1>7
<1>. QED
  BY <1>4, <1>5, <1>6, <1>8 DEF Low, r

\* A negative distance comes back positive, as far off as KeptSize: PackWild
\* keeps no sign (TameStore.h).
THEOREM SignLost ==
  ASSUME NEW d \in Int, -KeptSize <= d, d < 0
  PROVE  Recovered(d) = (d + KeptSize) - Low(d + KeptSize) /\ Recovered(d) >= 0
<1>1. /\ KeptSize \in Nat \ {0} /\ DistSize \in Nat \ {0} /\ TruncSize \in Nat \ {0}
      /\ 2 * KeptSize <= DistSize
  BY Multiples
<1>2. PICK m \in Nat : DistSize = KeptSize * m
  BY Multiples
<1>3. Bytes(d) = d + DistSize
  <2>1. d = DistSize * (-1) + (d + DistSize) /\ d + DistSize \in 0 .. DistSize - 1
    BY <1>1, SMT
  <2>. QED BY <1>1, <2>1, ModIs DEF Bytes
<1>4. ((d + DistSize) % KeptSize) = d + KeptSize
  <2>1. d + DistSize = KeptSize * (m - 1) + (d + KeptSize)
    BY <1>1, <1>2, SMT
  <2>2. d + KeptSize \in 0 .. KeptSize - 1 /\ m - 1 \in Int /\ d + DistSize \in Int
    BY <1>1, <1>2
  <2>. QED BY <1>1, <2>1, <2>2, ModIs
<1>5. d + KeptSize \in Nat /\ d + KeptSize < KeptSize
  BY <1>1
<1>6. Bytes(d + KeptSize) = d + KeptSize /\ ((d + KeptSize) % KeptSize) = d + KeptSize
  <2>. DEFINE c == d + KeptSize
  <2>1. c = DistSize * 0 + c /\ c \in 0 .. DistSize - 1 /\ c = KeptSize * 0 + c
        /\ c \in 0 .. KeptSize - 1 /\ c \in Int
    BY <1>1, <1>5
  <2>. HIDE DEF c
  <2>2. (c % DistSize) = c /\ (c % KeptSize) = c
    BY <1>1, <2>1, ModIs
  <2>. QED BY <2>2 DEF Bytes, c
<1>7. Recovered(d) = Recovered(d + KeptSize)
  BY <1>3, <1>4, <1>6, Zenon DEF Recovered, PackWild
<1>8. /\ Recovered(d + KeptSize) = (d + KeptSize) - Low(d + KeptSize)
      /\ Low(d + KeptSize) \in 0 .. TruncSize - 1
      /\ Low(d + KeptSize) <= d + KeptSize
  BY <1>5, RoundTrip
<1>. QED
  BY <1>1, <1>5, <1>7, <1>8

LEMMA SignedBytes ==
  ASSUME NEW d \in Int, -DistSize <= 2 * d, 2 * d < DistSize
  PROVE  Signed(Bytes(d)) = d
<1>1. DistSize \in Nat \ {0}
  BY Multiples
<1>2. CASE d >= 0
  <2>1. d = DistSize * 0 + d /\ d \in 0 .. DistSize - 1
    BY <1>1, <1>2
  <2>2. Bytes(d) = d
    BY <1>1, <2>1, ModIs DEF Bytes
  <2>. QED BY <1>1, <2>2 DEF Signed
<1>3. CASE d < 0
  <2>1. d = DistSize * (-1) + (d + DistSize) /\ d + DistSize \in 0 .. DistSize - 1
    BY <1>1, <1>3, SMT
  <2>2. Bytes(d) = d + DistSize
    BY <1>1, <2>1, ModIs DEF Bytes
  <2>. QED BY <1>1, <2>2 DEF Signed
<1>. QED BY <1>2, <1>3

LEMMA SignedRecovered ==
  ASSUME NEW d \in Nat, d < KeptSize
  PROVE  Signed(Recovered(d)) = d - Low(d)
<1>1. 2 * KeptSize <= DistSize /\ KeptSize \in Nat /\ DistSize \in Nat /\ TruncSize \in Nat
  BY Multiples
<1>2. /\ Recovered(d) = d - Low(d) /\ Low(d) \in 0 .. TruncSize - 1
      /\ Low(d) <= d
  BY RoundTrip
<1>. QED BY <1>1, <1>2 DEF Signed

\* BSGS makes good what the low bits of a distance can take away.
LEMMA LowFound ==
  ASSUME NEW e \in 0 .. TruncSize - 1, NEW key \in Nat \ {0}
  PROVE  /\ BSGS_ResolveKey(key, e) \/ key <= e
         /\ BSGS_ResolveKey(key, -e) \/ Unlucky(-e)
<1>1. /\ TruncSize \in Nat /\ TruncSize <= MaxGiants * BabySteps
      /\ BabySteps \in Nat /\ MaxGiants \in Nat
  BY FormulasAssumption, BsgsAssumption
<1>2. (MaxGiants + 1) * BabySteps = MaxGiants * BabySteps + BabySteps
      /\ MaxGiants * BabySteps \in Nat
  BY <1>1, SMT
<1>3. InSearchRange(e) /\ InSearchRange(-e) /\ ~Unlucky(e) /\ e \in Int /\ -e \in Int
  BY <1>1, <1>2 DEF InSearchRange, Unlucky
<1>4. -e < key /\ (e < key \/ key <= e)
  BY <1>1
<1>. QED BY <1>3, <1>4, ResolvesExactly

\* A WILD that meets a stored TAME is resolved, whichever of the two points
\* with one x it stands on (WorkerThread, then Collision_BSGS), but for the
\* distances BSGS misses and for keys so small that what PackWild drops takes
\* the approximation below 1: the formulas are right, and what PackWild drops
\* of the TAME is what the approximation is wrong by.
THEOREM TameWildResolved ==
  ASSUME NEW t \in Nat, t < KeptSize,
         NEW w \in Int, -DistSize <= 2 * w, 2 * w < DistSize,
         NEW type \in {WILD1, WILD2}, NEW key \in Nat \ {0},
         Collide(TAME, t, type, w, key)
  PROVE  \/ Resolved(Recovered(t), TAME, Bytes(w), type, key)
         \/ Unlucky(-Low(t)) \/ key <= Low(t)
<1>. DEFINE e == Low(t)
            s == Signed(Recovered(t))
<1>1. s = t - e /\ e \in 0 .. TruncSize - 1
  BY SignedRecovered, RoundTrip
<1>2. HalfRange \in Nat /\ TruncSize \in Nat
  BY Multiples
<1>3. /\ BSGS_ResolveKey(key, e) \/ key <= e
      /\ BSGS_ResolveKey(key, -e) \/ Unlucky(-e)
  BY <1>1, LowFound
<1>. HIDE DEF e
<1>4. \/ t = Point(type, w, key)
      \/ t = -Point(type, w, key)
  BY DEF Collide, SameX, Point, TAME
<1>5. \E k \in TameWild(s, w, type) : key - k = e \/ key - k = -e
  <2>. HIDE DEF s
  <2>1. CASE type = WILD1
    <3>1. Point(type, w, key) = (key - HalfRange) + w
      BY <2>1 DEF Point, TAME, WILD1
    <3>2. TameWild(s, w, type) = {s - w + HalfRange, HalfRange - s - w}
      BY <2>1 DEF TameWild
    <3>3. CASE t = Point(type, w, key)
      <4>1. key - (s - w + HalfRange) = e
        BY <1>1, <1>2, <3>1, <3>3
      <4>. QED BY <3>2, <4>1
    <3>4. CASE t = -Point(type, w, key)
      <4>1. key - (HalfRange - s - w) = -e
        BY <1>1, <1>2, <3>1, <3>4
      <4>. QED BY <3>2, <4>1
    <3>. QED BY <1>4, <3>3, <3>4
  <2>2. CASE type = WILD2
    <3>1. Point(type, w, key) = (HalfRange - key) + w
      BY <2>2 DEF Point, TAME, WILD1, WILD2
    <3>2. TameWild(s, w, type) = {HalfRange + w - s, HalfRange + w + s}
      BY <2>2 DEF TameWild, WILD1, WILD2
    <3>3. CASE t = Point(type, w, key)
      <4>1. key - (HalfRange + w - s) = -e
        BY <1>1, <1>2, <3>1, <3>3
      <4>. QED BY <3>2, <4>1
    <3>4. CASE t = -Point(type, w, key)
      <4>1. key - (HalfRange + w + s) = e
        BY <1>1, <1>2, <3>1, <3>4
      <4>. QED BY <3>2, <4>1
    <3>. QED BY <1>4, <3>3, <3>4
  <2>. QED BY <2>1, <2>2
<1>6. PICK k \in TameWild(s, w, type) : key - k = e \/ key - k = -e
  BY <1>5
<1>7. Approximations(s, TAME, Signed(Bytes(w)), type) = TameWild(s, w, type)
  BY SignedBytes DEF Approximations
<1>8. BSGS_ResolveKey(key, key - k) \/ Unlucky(-e) \/ key <= e
  BY <1>3, <1>6, Zenon
<1>. QED
  BY <1>6, <1>7, <1>8, Zenon DEF Resolved, Collision_BSGS, e

\* Two WILDs of different kinds on one point, both gone an even distance: half
\* of what PackWild drops is what the approximation is wrong by.  Only on one
\* point: two WILDs on opposite points cancel the key (WorkerThread).
THEOREM WildWildResolved ==
  ASSUME NEW s \in Nat, s < KeptSize, s % 2 = 0,
         NEW w \in Int, -DistSize <= 2 * w, 2 * w < DistSize, w % 2 = 0,
         NEW type \in {WILD1, WILD2}, NEW key \in Nat \ {0},
         Point(type, s, key) = Point(3 - type, w, key)
  PROVE  \/ Resolved(Recovered(s), type, Bytes(w), 3 - type, key)
         \/ Unlucky(-(Low(s) \div 2)) \/ key <= Low(s) \div 2
<1>. DEFINE e == Low(s)
            r == Signed(Recovered(s))
<1>1. r = s - e /\ e \in 0 .. TruncSize - 1
  BY SignedRecovered, RoundTrip
<1>2. HalfRange \in Nat /\ TruncSize \in Nat \ {0}
  BY Multiples
<1>3. PICK m \in Nat : TruncSize = 2 * m
  BY Multiples
<1>4. PICK h \in Int : e = 2 * h
  <2>1. PICK q \in Int : s = TruncSize * q + e
    <3>1. s \in Int
      OBVIOUS
    <3>2. s \div TruncSize \in Int /\ s = TruncSize * (s \div TruncSize) + (s % TruncSize)
      BY <1>2, <3>1, DivMod, Zenon
    <3>. QED BY <3>2, Zenon DEF e, Low
  <2>2. PICK p \in Int : s = 2 * p
    BY SMT
  <2>3. TruncSize * q = 2 * (m * q) /\ m * q \in Int
    BY <1>3, <2>1, SMT
  <2>. HIDE DEF e
  <2>. DEFINE z == TruncSize * q
              y == m * q
  <2>4. y \in Int /\ z = 2 * y /\ s = z + e /\ s = 2 * p /\ p \in Int /\ e \in Int
    <3>1. e \in Int
      BY <1>1, <1>2
    <3>. QED BY <2>1, <2>2, <2>3, <3>1, Zenon
  <2>. HIDE DEF y, z
  <2>5. e = 2 * (p - y) /\ p - y \in Int
    BY <2>4
  <2>. QED BY <2>5, Zenon
<1>5. PICK v \in Int : w = 2 * v
  OBVIOUS
<1>6. PICK u \in Int : s = 2 * u
  OBVIOUS
<1>. HIDE DEF e, r
<1>7. e \div 2 = h /\ h \in 0 .. TruncSize - 1
  BY <1>1, <1>2, <1>4
<1>8. /\ BSGS_ResolveKey(key, h) \/ key <= h
      /\ BSGS_ResolveKey(key, -h) \/ Unlucky(-h)
  BY <1>7, LowFound
\* The two approximations are half the difference away, up and down.
<1>9. /\ w - r = 2 * (v - u + h)
      /\ \/ Half(w - r) = v - u + h
         \/ Half(w - r) = -(v - u + h)
  <2>1. w - r = 2 * (v - u + h)
    BY <1>1, <1>2, <1>4, <1>5, <1>6
  <2>. DEFINE c == v - u + h
  <2>2. c \in Int
    BY <1>4, <1>5, <1>6
  <2>. HIDE DEF c
  <2>3. Half(2 * c) = c \/ Half(2 * c) = -c
    BY <2>2 DEF Half
  <2>. QED BY <2>1, <2>3 DEF c
<1>10. {HalfRange + (v - u + h), HalfRange - (v - u + h)} \subseteq WildWild(r, w)
  <2>. DEFINE c == v - u + h
  <2>1. c \in Int
    BY <1>4, <1>5, <1>6
  <2>2. Half(w - r) = c \/ Half(w - r) = -c
    BY <1>9
  <2>. HIDE DEF c
  <2>3. {HalfRange + c, HalfRange - c} \subseteq WildWild(r, w)
    BY <1>2, <2>1, <2>2 DEF WildWild
  <2>. QED BY <2>3 DEF c
<1>11. \E k \in WildWild(r, w) : key - k = h \/ key - k = -h
  <2>1. CASE type = WILD1
    <3>1. (key - HalfRange) + s = (HalfRange - key) + w
      BY <2>1 DEF Point, TAME, WILD1, WILD2
    <3>2. key - (HalfRange + (v - u + h)) = -h
      BY <1>2, <1>4, <1>5, <1>6, <3>1
    <3>. QED BY <1>10, <3>2
  <2>2. CASE type = WILD2
    <3>1. (HalfRange - key) + s = (key - HalfRange) + w
      BY <2>2 DEF Point, TAME, WILD1, WILD2
    <3>2. key - (HalfRange - (v - u + h)) = h
      BY <1>2, <1>4, <1>5, <1>6, <3>1
    <3>. QED BY <1>10, <3>2
  <2>. QED BY <2>1, <2>2
<1>12. PICK k \in WildWild(r, w) : key - k = h \/ key - k = -h
  BY <1>11
<1>13. Approximations(r, type, Signed(Bytes(w)), 3 - type) = WildWild(r, w)
  <2>1. type # TAME /\ 3 - type # TAME
    BY DEF TAME, WILD1, WILD2
  <2>. QED BY <2>1, SignedBytes DEF Approximations
<1>14. BSGS_ResolveKey(key, key - k) \/ Unlucky(-h) \/ key <= h
  BY <1>8, <1>12, Zenon
<1>15. Low(s) \div 2 = h
  BY <1>7 DEF e
<1>. QED
  BY <1>12, <1>13, <1>14, <1>15, Zenon DEF Resolved, Collision_BSGS, r

\* Without workers both signs of the stored distance are tried (CheckNewPoints
\* calls Collision_SOTA twice), and that is every key the worker's formulas
\* give for a TAME and a WILD of either kind.
THEOREM FallbackTriesAll ==
  ASSUME NEW t \in Int, NEW w \in Int, NEW type \in {WILD1, WILD2}
  PROVE  TameWild(t, w, type) \subseteq
           Collision_SOTA(t, w, TAME, FALSE) \union Collision_SOTA(t, w, TAME, TRUE)
<1>1. HalfRange \in Int
  BY Multiples
<1>2. -t \in Int /\ 0 - t \in Int
  OBVIOUS
<1>3. Collision_SOTA(t, w, TAME, FALSE) = AnyTameWild(t, w)
  BY DEF Collision_SOTA
<1>4. Collision_SOTA(t, w, TAME, TRUE) = AnyTameWild(-t, w)
  BY DEF Collision_SOTA
<1>5. t - w + HalfRange \in AnyTameWild(t, w) /\ w - t + HalfRange \in AnyTameWild(t, w)
  BY DEF AnyTameWild
<1>6. HalfRange - t - w = (-t) - w + HalfRange /\ HalfRange + w - t = w - t + HalfRange
      /\ HalfRange + w + t = w - (-t) + HalfRange
  BY <1>1
<1>7. HalfRange - t - w \in AnyTameWild(-t, w) /\ HalfRange + w + t \in AnyTameWild(-t, w)
  BY <1>6, Zenon DEF AnyTameWild
<1>8. HalfRange + w - t \in AnyTameWild(t, w)
  BY <1>5, <1>6, Zenon
<1>9. TameWild(t, w, type) \subseteq AnyTameWild(t, w) \union AnyTameWild(-t, w)
  BY <1>5, <1>7, <1>8, Zenon DEF TameWild
<1>. QED BY <1>3, <1>4, <1>9, Zenon
=============================================================================
