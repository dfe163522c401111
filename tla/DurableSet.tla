------------------------------ MODULE DurableSet ------------------------------
(***************************************************************************)
(* What checkpoints promise: a set of DPs in memory that dies with the     *)
(* process, and a saved set that survives it. A save is not atomic: it     *)
(* takes place between Begin and Publish, while the set in memory grows.   *)
(*   - what is published holds all that was in memory when the save began, *)
(*     and nothing that was never in memory;                               *)
(*   - until then, and if the save is given up or the process dies, the    *)
(*     last published set stays what it was;                               *)
(*   - a process starts with the saved set, or with a part of it if loads  *)
(*     may fail.                                                           *)
(***************************************************************************)
CONSTANTS
  Entries,
  LoadsFail  \* a load may end early

VARIABLES
  up,      \* a process runs and has loaded
  mem,     \* the DPs in its memory
  saved,   \* the DPs of the published checkpoint
  saving,  \* a save is under way,
  floor    \* and this was in memory when it began

vars == <<up, mem, saved, saving, floor>>

Init == ~up /\ mem = {} /\ saved = {} /\ ~saving /\ floor = {}

Start ==
  /\ ~up /\ up'
  /\ mem' \in SUBSET saved
  /\ mem' = saved \/ LoadsFail
  /\ UNCHANGED <<saved, saving, floor>>

Grow ==
  /\ up
  /\ \E e \in Entries \ mem : mem' = mem \cup {e}
  /\ UNCHANGED <<up, saved, saving, floor>>

Begin ==
  /\ up /\ ~saving /\ saving'
  /\ floor' = mem
  /\ UNCHANGED <<up, mem, saved>>

\* A save ends.
EndSave == saving /\ ~saving' /\ floor' = {}

Publish ==
  /\ EndSave
  /\ floor \subseteq saved' /\ saved' \subseteq mem
  /\ UNCHANGED <<up, mem>>

GiveUp == EndSave /\ UNCHANGED <<up, mem, saved>>

Die ==
  /\ up /\ ~up'
  /\ mem' = {} /\ ~saving' /\ floor' = {}
  /\ UNCHANGED saved

Next == Start \/ Grow \/ Begin \/ Publish \/ GiveUp \/ Die

Spec == Init /\ [][Next]_vars

\* Checkpoints only ever gain, across deaths and starts too.
Gains == [][saved \subseteq saved']_vars
=============================================================================
