----------------------------- MODULE MCCheckpoint -----------------------------
(***************************************************************************)
(* Instances of Checkpoint for TLC: a table of three slots and two DPs     *)
(* that share the last slot as their home, so that the second one wraps    *)
(* around and is written to the file before the first.                     *)
(***************************************************************************)
EXTENDS Checkpoint

MCEntries == 1 .. 2
MCHome == <<3, 3>>
=============================================================================
