------------------------------ MODULE MCProposals ------------------------------
(***************************************************************************)
(* Instances of Proposals for TLC.                                         *)
(***************************************************************************)
EXTENDS Proposals

\* Processes and texts are interchangeable; the order of a queue is that of its ids.
ProposalsSymmetry == Permutations(Procs) \cup Permutations(Texts)
===============================================================================
