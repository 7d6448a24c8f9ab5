------------------------------ MODULE MemoryLedger ------------------------------
(***************************************************************************)
(* What the MemoryStore trait promises its callers, with no lock, no file  *)
(* and no step in between: every mutation takes effect at one instant      *)
(* between its call and its answer, on the corpus of that instant; a call  *)
(* that is refused or that fails changes nothing; an acknowledged mutation *)
(* is stable; and a memory is only ever removed once its tombstone is      *)
(* recorded.                                                               *)
(***************************************************************************)
EXTENDS MemoryRecords

CONSTANT Procs          \* processes that have the store open

VARIABLES mem,          \* the corpus every reader sees
          stable,       \* the corpus a power loss can fall back to
          tombs,        \* identities with a recorded tombstone
          call,         \* the mutation each process has in flight, or Nothing
          applied,      \* processes whose mutation took effect, not yet answered
          reply         \* the last answer of each process

vars == <<mem, stable, tombs, call, applied, reply>>

Init ==
  /\ mem = {}
  /\ stable = {}
  /\ tombs = {}
  /\ call = [p \in Procs |-> Nothing]
  /\ applied = {}
  /\ reply = [p \in Procs |-> "none"]

Invoke(p, c) ==
  /\ call[p] = Nothing
  /\ call' = [call EXCEPT ![p] = c]
  /\ reply' = [reply EXCEPT ![p] = "none"]
  /\ UNCHANGED <<mem, stable, tombs, applied>>

\* A forget records the tombstone of what it is about to remove.
Bury(p) ==
  /\ call[p] # Nothing
  /\ call[p].verb = "forget"
  /\ Verdict(mem, call[p]) = "ok"
  /\ tombs' = tombs \cup {Target(mem, call[p].handle).content}
  /\ UNCHANGED <<mem, stable, call, applied, reply>>

TakeEffect(p) ==
  /\ call[p] # Nothing
  /\ p \notin applied
  /\ Verdict(mem, call[p]) = "ok"
  /\ call[p].verb = "forget" => Target(mem, call[p].handle).content \in tombs
  /\ mem' = Apply(mem, call[p])
  /\ applied' = applied \cup {p}
  /\ UNCHANGED <<stable, tombs, call, reply>>

Answer(p, a) ==
  /\ call' = [call EXCEPT ![p] = Nothing]
  /\ reply' = [reply EXCEPT ![p] = a]
  /\ applied' = applied \ {p}
  /\ UNCHANGED mem

Acknowledge(p) ==
  /\ p \in applied
  /\ stable' = mem
  /\ Answer(p, "ok")
  /\ UNCHANGED tombs

Refuse(p) ==
  /\ call[p] # Nothing
  /\ p \notin applied
  /\ Verdict(mem, call[p]) # "ok"
  /\ Answer(p, Verdict(mem, call[p]))
  /\ UNCHANGED <<stable, tombs>>

\* An error answer: the mutation never took effect, though the tombstone of a
\* forget may be on record (the residue the code calls safe).
Fail(p) ==
  /\ call[p] # Nothing
  /\ p \notin applied
  /\ \/ UNCHANGED tombs
     \/ /\ call[p].verb = "forget"
        /\ Verdict(mem, call[p]) = "ok"
        /\ tombs' = tombs \cup {Target(mem, call[p].handle).content}
  /\ Answer(p, "failed")
  /\ UNCHANGED stable

\* The process dies: its mutation took effect or did not, nobody is answered.
Crash(p) ==
  /\ Answer(p, "none")
  /\ UNCHANGED <<stable, tombs>>

\* The machine dies: mutations that were not acknowledged may be undone.
PowerLoss ==
  /\ mem' \in {mem, stable}
  /\ stable' = mem'
  /\ call' = [p \in Procs |-> Nothing]
  /\ reply' = [p \in Procs |-> "none"]
  /\ applied' = {}
  /\ UNCHANGED tombs

Next ==
  \/ \E p \in Procs : \/ \E c \in Call : Invoke(p, c)
                      \/ Bury(p) \/ TakeEffect(p) \/ Acknowledge(p)
                      \/ Refuse(p) \/ Fail(p) \/ Crash(p)
  \/ PowerLoss

Spec == Init /\ [][Next]_vars
===============================================================================
