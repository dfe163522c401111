------------------------------- MODULE DpStore -------------------------------
(***************************************************************************)
(* What the DP store promises to a caller who uses it from one thread: a   *)
(* set of stored DPs per table, the WILDs remembered in the W-W buffer,    *)
(* and one indivisible answer per DP.                                      *)
(*   - a WILD is reported against a stored entry of the searched table     *)
(*     with its signature and another distance. It must be, when such an   *)
(*     entry starts its probe sequence where the WILD does (the entry's    *)
(*     table position is a hash of x, so entries of the same x do);        *)
(*   - any other DP of a type that the mode stores is kept, unless a       *)
(*     same-signature entry is already in its table or the table is full,  *)
(*     and a full table stays full;                                        *)
(*   - the WILDs of ALL-TAME mode are not stored: they meet in the buffer, *)
(*     if there is one, where each takes the place of the last that had    *)
(*     its position. A WILD that finds one of the other type there with    *)
(*     its signature and another distance is reported against it.          *)
(***************************************************************************)
EXTENDS Integers, FiniteSets

CONSTANTS Points, Start, XSig, AllWild, MinFull, HasBuffer, Place

TableIds == {0, 1}
StoreIdx(d) == IF d.type = 0 THEN 0 ELSE d.type - 1
CheckIdx(d) == IF AllWild THEN 1 - StoreIdx(d) ELSE 0
Kept(d)     == AllWild \/ d.type = 0

VARIABLES
  pending,  \* the DPs not dealt with yet
  stored,   \* stored[t]: the DPs in table t
  full,     \* full[t]: the table takes no more
  buffer,   \* the WILDs in the W-W buffer
  report    \* the last collision reported: its entry (both halves), its DP

vars == <<pending, stored, full, buffer, report>>

SameSig(e, d)  == XSig[e.x] = XSig[d.x]
SameKey(e, d)  == SameSig(e, d) /\ Start[e.x] = Start[d.x]
SameDist(e, d) == e.lo = d.lo /\ e.hi = d.hi /\ d.ext = 0
SamePlace(e, d) == Place[e.x] = Place[d.x]
Crosses(e, d)   == SameSig(e, d) /\ ~SameDist(e, d) /\ e.type # d.type

Init ==
  /\ pending = Points
  /\ stored = [t \in TableIds |-> {}]
  /\ full \in [TableIds -> BOOLEAN]
  /\ buffer = {}
  /\ report \notin Points \X Points \X Points

\* Nothing obliges the store to report d: no entry of its key at another
\* distance, or one that is taken for d's own walk.
NothingToReport(d) ==
  d.type = 0 \/ LET seen == stored[CheckIdx(d)]
                IN \/ \A e \in seen : SameKey(e, d) => SameDist(e, d)
                   \/ \E e \in seen : SameSig(e, d) /\ SameDist(e, d)

Report(d) ==
  /\ d.type # 0
  /\ \E e \in stored[CheckIdx(d)] :
       /\ SameSig(e, d)
       /\ ~SameDist(e, d)
       /\ report' = <<e, e, d>>
  /\ UNCHANGED <<stored, full, buffer>>

Keep(d) ==
  /\ Kept(d) /\ NothingToReport(d)
  /\ ~full[StoreIdx(d)]
  /\ \A e \in stored[StoreIdx(d)] : ~SameKey(e, d)
  /\ stored' = [stored EXCEPT ![StoreIdx(d)] = @ \cup {d}]
  /\ UNCHANGED <<full, buffer, report>>

DropTwin(d) ==
  /\ Kept(d) /\ NothingToReport(d)
  /\ \E e \in stored[StoreIdx(d)] : SameSig(e, d)
  /\ UNCHANGED <<stored, full, buffer, report>>

DropFull(d) ==
  /\ Kept(d) /\ NothingToReport(d)
  /\ full[StoreIdx(d)] \/ Cardinality(stored[StoreIdx(d)]) >= MinFull
  /\ full' = [full EXCEPT ![StoreIdx(d)] = TRUE]
  /\ UNCHANGED <<stored, buffer, report>>

ReportBuffered(d) ==
  /\ ~Kept(d) /\ NothingToReport(d)
  /\ \E e \in buffer : Crosses(e, d) /\ report' = <<e, e, d>>
  /\ UNCHANGED <<stored, full, buffer>>

Remember(d) ==
  /\ ~Kept(d) /\ NothingToReport(d)
  /\ \A e \in buffer : SamePlace(e, d) => ~Crosses(e, d)
  /\ buffer' = IF HasBuffer THEN {e \in buffer : ~SamePlace(e, d)} \cup {d} ELSE buffer
  /\ UNCHANGED <<stored, full, report>>

Offer(d) ==
  /\ pending' = pending \ {d}
  /\ \/ Report(d) \/ Keep(d) \/ DropTwin(d) \/ DropFull(d)
     \/ ReportBuffered(d) \/ Remember(d)

Next == \E d \in pending : Offer(d)

Spec == Init /\ [][Next]_vars
=============================================================================
