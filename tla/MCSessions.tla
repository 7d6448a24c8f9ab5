------------------------------- MODULE MCSessions -------------------------------
(***************************************************************************)
(* Instances of Sessions for TLC: the ids of sessions are interchangeable. *)
(***************************************************************************)
EXTENDS Sessions, TLC

SessionsSymmetry == Permutations(Ids)
===============================================================================
