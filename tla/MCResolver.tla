----------------------------- MODULE MCResolver -----------------------------
(***************************************************************************)
(* Instances of Resolver for TLC. Three collisions on a queue of one (so   *)
(* that the oldest candidate is dropped), baby steps up to 3 and 2 giants. *)
(* What FormulasProofs proves of the formulas is evaluated on distances of *)
(* six bits, of which the lowest multiple of 6 is kept below 24.           *)
(***************************************************************************)
EXTENDS Resolver, Formulas

Collision(i, r, d) == [id |-> i, real |-> r, delta |-> d]

\* A false positive, a collision the formulas resolve, one that is off by
\* more than a giant step downwards.
MixedCollisions == {Collision(1, FALSE, 0), Collision(2, TRUE, 0), Collision(3, TRUE, -4)}

Keys == 1 .. 2 * HalfRange
Stored == 0 .. KeptSize - 1
Met == -20 .. 20

\* A TAME that is stored and a WILD that meets it.
ASSUME TameWildInstances ==
  \A key \in Keys, t \in Stored, w \in Met, type \in {WILD1, WILD2} :
    Collide(TAME, t, type, w, key) =>
      \/ Resolved(Recovered(t), TAME, Bytes(w), type, key)
      \/ Unlucky(-(t % TruncSize)) \/ key <= t % TruncSize

\* A WILD that is stored and one of the other kind that meets it.
ASSUME WildWildInstances ==
  \A key \in Keys, s \in Stored, w \in Met, type \in {WILD1, WILD2} :
    LET other == 3 - type IN
    s % 2 = 0 /\ w % 2 = 0 /\ Point(type, s, key) = Point(other, w, key) =>
      \/ Resolved(Recovered(s), type, Bytes(w), other, key)
      \/ Unlucky(-((s % TruncSize) \div 2)) \/ key <= (s % TruncSize) \div 2

\* Each exception is met: a delta the search misses, and a key so small that
\* the approximation falls below 1.
ASSUME MissedInstances ==
  \A few \in BOOLEAN :
    \E key \in Keys, t \in Stored, w \in Met :
      /\ Collide(TAME, t, WILD1, w, key) /\ (few <=> key <= t % TruncSize)
      /\ ~Resolved(Recovered(t), TAME, Bytes(w), WILD1, key)

\* A stored distance that is negative is lost, and with it the collision.
ASSUME NegativeInstances ==
  \E key \in Keys, t \in -KeptSize .. -1, w \in Met :
    /\ Collide(TAME, t, WILD1, w, key)
    /\ ~Resolved(Recovered(t), TAME, Bytes(w), WILD1, key)
=============================================================================
