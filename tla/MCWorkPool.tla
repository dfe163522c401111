----------------------------- MODULE MCWorkPool -----------------------------
(***************************************************************************)
(* Instances of WorkPool for TLC. The sizes keep the proportions that      *)
(* matter: with two workers a copy of three DPs is cut into uneven         *)
(* chunks, one of two is not cut at all, and a list that holds two or      *)
(* three DPs refuses a batch.                                              *)
(***************************************************************************)
EXTENDS WorkPool, TLC

WorkersSym == Permutations(Workers)
=============================================================================
