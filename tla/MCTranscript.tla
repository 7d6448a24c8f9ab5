------------------------------ MODULE MCTranscript ------------------------------
(***************************************************************************)
(* Instances of Transcript for TLC: the ids of calls are interchangeable.  *)
(***************************************************************************)
EXTENDS Transcript, TLC

TranscriptSymmetry == Permutations(Calls)
===============================================================================
