------------------------------- MODULE DpQueue -------------------------------
(***************************************************************************)
(* What the path of the DPs promises: a bounded queue between the GPU      *)
(* threads and the store. The DPs of one kernel call are a batch.          *)
(*   - a batch is taken whole or dropped whole, and dropped only when it   *)
(*     would bring the queue to half its size;                             *)
(*   - the queue never holds more than its size;                           *)
(*   - a DP that was taken leaves the queue by being processed, once, in   *)
(*     any order. Only when the key is known may DPs be abandoned.         *)
(***************************************************************************)
EXTENDS Integers, FiniteSets

CONSTANTS
  Gpus, Dps,
  Half     \* half the size of the queue

VARIABLES
  fresh,   \* the DPs not made yet
  batch,   \* batch[g]: what the last kernel call of g found
  queued,  \* the DPs taken and not processed
  done,    \* done[i]: how often i was processed
  lost,    \* the DPs dropped
  solved   \* the key is known

vars == <<fresh, batch, queued, done, lost, solved>>

Init ==
  /\ fresh = Dps
  /\ batch = [g \in Gpus |-> {}]
  /\ queued = {}
  /\ done = [i \in Dps |-> 0]
  /\ lost = {}
  /\ solved = FALSE

Yield(g) ==
  /\ batch[g] = {}
  /\ \E B \in SUBSET fresh :
       /\ batch' = [batch EXCEPT ![g] = B]
       /\ fresh' = fresh \ B
  /\ UNCHANGED <<queued, done, lost, solved>>

HandOver(g) ==
  /\ batch[g] # {}
  /\ batch' = [batch EXCEPT ![g] = {}]
  /\ UNCHANGED <<fresh, done, solved>>

Take(g) ==
  /\ HandOver(g)
  /\ queued' = queued \cup batch[g]
  /\ Cardinality(queued') < 2 * Half
  /\ UNCHANGED lost

Drop(g) ==
  /\ HandOver(g)
  /\ Cardinality(queued \cup batch[g]) >= Half
  /\ lost' = lost \cup batch[g]
  /\ UNCHANGED queued

\* Processing a DP may find the key.
Process(i) ==
  /\ i \in queued
  /\ queued' = queued \ {i}
  /\ done' = [done EXCEPT ![i] = @ + 1]
  /\ solved' \in {solved, TRUE}
  /\ UNCHANGED <<fresh, batch, lost>>

Solve ==
  /\ solved' = TRUE
  /\ UNCHANGED <<fresh, batch, queued, done, lost>>

Abandon ==
  /\ solved
  /\ queued' \in SUBSET queued
  /\ UNCHANGED <<fresh, batch, done, lost, solved>>

Next ==
  \/ \E g \in Gpus : Yield(g) \/ Take(g) \/ Drop(g)
  \/ \E i \in Dps : Process(i)
  \/ Solve \/ Abandon

Spec == Init /\ [][Next]_vars

\* A DP that was made and is neither waiting nor lost was processed, once,
\* unless the key is known.
OnceEach ==
  \A i \in Dps :
    LET waits == i \in queued \/ i \in lost \/ \E g \in Gpus : i \in batch[g]
    IN /\ done[i] \in {0, 1}
       /\ i \in fresh \/ waits => done[i] = 0
       /\ i \in fresh \/ waits \/ done[i] = 1 \/ solved
=============================================================================
