----------------------------- MODULE MCMemoryStore -----------------------------
(***************************************************************************)
(* MemoryStore on a small instance.                                        *)
(***************************************************************************)
EXTENDS MemoryStore

\* No guard reads an answer, and the properties read it in the step that gives it.
Unanswered == <<files, pc, call, work, victim, issued>>
===============================================================================
