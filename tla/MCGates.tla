-------------------------------- MODULE MCGates --------------------------------
(***************************************************************************)
(* Instances of Gates for TLC.                                             *)
(***************************************************************************)
EXTENDS Gates, TLC

\* Ids, boundaries, commands and sessions are interchangeable.
GatesSymmetry ==
  Permutations(Sessions) \cup Permutations(Permissions) \cup Permutations(Forms)
  \cup Permutations(Messages) \cup Permutations(Writers)

\* No guard reads sent; the properties read it in the step that sets it.
WithoutSent == <<active, busy, tail, pending, server>>
===============================================================================
