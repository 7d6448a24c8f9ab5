------------------------------ MODULE MemoryStore ------------------------------
(***************************************************************************)
(* JsonlStore (src/backend/memory/store.rs): the store of one scope, used  *)
(* by several processes at once through one directory                      *)
(*                                                                         *)
(*   memory.jsonl            memory   what every process reads             *)
(*                           durable  what a power loss may fall back to   *)
(*   tombstones.jsonl        tombs    hashes on complete lines             *)
(*                           tail     how the file ends                    *)
(*   memory.lock             lock     holder of the flock                  *)
(*   memory.jsonl.tmp.<pid>  temps    processes whose temp file exists     *)
(*                                                                         *)
(* run_exclusive is cut wherever another process, a crash or an I/O error  *)
(* can be seen between two of its system calls.  A process has at most one *)
(* mutation in flight (its mutex).                                         *)
(***************************************************************************)
EXTENDS MemoryRecords, Integers

CONSTANTS Procs,        \* processes, each one with its pid
          MaxRecords,   \* records that fit into MAX_STORE_BYTES
          Faults        \* what may go wrong in the environment

FaultKinds == {"access",  \* memory.lock or memory.jsonl cannot be opened
               "append",  \* the tombstone append or its fsync fails
               "torn",    \* ... and leaves a partial line
               "write",   \* creating, writing, syncing or renaming the temp fails
               "sync",    \* the directory fsync fails
               "clean",   \* removing a stale temp fails
               "crash",   \* a process dies
               "power"}   \* the machine dies

ASSUME FaultsAssumption == Faults \subseteq FaultKinds
ASSUME NothingAssumption ==
  /\ Nothing \notin Procs
  /\ Nothing \notin Contents
  /\ Nothing \notin Call

VARIABLES
  memory, durable, tombs, tail, lock, temps,   \* the directory
  pc,        \* where each process is
  call,      \* the mutation it was asked for
  work,      \* the next corpus it computed under the lock
  victim,    \* the identity its forget removes
  reply,     \* its last answer
  issued     \* ids handed out so far (generate_id never repeats one)

files == <<memory, durable, tombs, tail, lock, temps>>
vars == <<memory, durable, tombs, tail, lock, temps, pc, call, work, victim, reply, issued>>

Writing == {"append", "create", "write", "rename", "sync"}
Locked == {"preparing", "locked"} \cup Writing
Phase == {"down", "opening", "idle", "waiting"} \cup Locked

TooLarge(records) == Cardinality(records) > MaxRecords

-------------------------------------------------------------------------------
Init ==
  /\ memory = {} /\ durable = {}
  /\ tombs = {} /\ tail = "clean"
  /\ lock = Nothing
  /\ temps = {}
  /\ pc = [p \in Procs |-> "down"]
  /\ call = [p \in Procs |-> Nothing]
  /\ work = [p \in Procs |-> {}]
  /\ victim = [p \in Procs |-> Nothing]
  /\ reply = [p \in Procs |-> "none"]
  /\ issued = {}

Goto(p, phase) == pc' = [pc EXCEPT ![p] = phase]

\* Deliberately wrong: no flock across processes.
TakeNoLock(p) == lock' = p

TakeLock(p) == lock = Nothing /\ lock' = p

\* What is left of p's mutation once it is answered or p is dead.
Leave(p, phase, answer) ==
  /\ Goto(p, phase)
  /\ call' = [call EXCEPT ![p] = Nothing]
  /\ work' = [work EXCEPT ![p] = {}]
  /\ victim' = [victim EXCEPT ![p] = Nothing]
  /\ reply' = [reply EXCEPT ![p] = answer]

\* Return from run_exclusive: the lock file is dropped and the caller answered.
Return(p, answer) == Leave(p, "idle", answer) /\ lock' = Nothing

-------------------------------------------------------------------------------
(* open and prepare *)

Start(p) ==
  /\ pc[p] = "down"
  /\ Goto(p, "opening")
  /\ UNCHANGED <<files, call, work, victim, reply, issued>>

\* Deliberately wrong: prepare does not wait for the lock.
OpenWithoutLock(p) ==
  /\ pc[p] = "opening"
  /\ Goto(p, "preparing")
  /\ UNCHANGED <<files, call, work, victim, reply, issued>>

OpenLock(p) ==
  /\ pc[p] = "opening"
  /\ TakeLock(p)
  /\ Goto(p, "preparing")
  /\ UNCHANGED <<memory, durable, tombs, tail, temps, call, work, victim, reply, issued>>

\* clean_stale_temps removes every temp file, whoever left it; a removal that
\* fails is only logged.  A store that cannot be loaded does not open.
Prepare(p) ==
  /\ pc[p] = "preparing"
  /\ \E left \in SUBSET temps :
       /\ "clean" \notin Faults => left = {}
       /\ temps' = left
  /\ \/ ~TooLarge(memory) /\ Goto(p, "idle")
     \/ (TooLarge(memory) \/ "access" \in Faults) /\ Goto(p, "down")
  /\ lock' = Nothing
  /\ UNCHANGED <<memory, durable, tombs, tail, call, work, victim, reply, issued>>

-------------------------------------------------------------------------------
(* remember, update, forget, set_pinned *)

IdsOf(c) == IF c.verb \in {"remember", "update"} THEN {c.new.id} ELSE {}

Invoke(p, c) ==
  /\ pc[p] = "idle"
  /\ IdsOf(c) \cap issued = {}
  /\ Goto(p, "waiting")
  /\ call' = [call EXCEPT ![p] = c]
  /\ reply' = [reply EXCEPT ![p] = "none"]
  /\ issued' = issued \cup IdsOf(c)
  /\ UNCHANGED <<files, work, victim>>

Lock(p) ==
  /\ pc[p] = "waiting"
  /\ TakeLock(p)
  /\ Goto(p, "locked")
  /\ UNCHANGED <<memory, durable, tombs, tail, temps, call, work, victim, reply, issued>>

LockFails(p) ==
  /\ pc[p] = "waiting"
  /\ "access" \in Faults
  /\ Leave(p, "idle", "failed")
  /\ UNCHANGED <<files, issued>>

\* Deliberately wrong: the rewrite of a forget comes without its tombstone.
LoadWithoutTombstone(p) ==
  /\ pc[p] = "locked"
  /\ ~TooLarge(memory)
  /\ Verdict(memory, call[p]) = "ok"
  /\ work' = [work EXCEPT ![p] = Apply(memory, call[p])]
  /\ Goto(p, "create")
  /\ UNCHANGED <<files, call, victim, reply, issued>>

\* Deliberately wrong: the removed record is not kept for its tombstone.
LoadLosesVictim(p) ==
  /\ pc[p] = "locked"
  /\ ~TooLarge(memory)
  /\ Verdict(memory, call[p]) = "ok"
  /\ work' = [work EXCEPT ![p] = Apply(memory, call[p])]
  /\ Goto(p, IF call[p].verb = "forget" THEN "append" ELSE "create")
  /\ UNCHANGED <<files, call, victim, reply, issued>>

\* load_records under the lock, then the closure of the operation.
Load(p) ==
  /\ pc[p] = "locked"
  /\ ~TooLarge(memory)
  /\ Verdict(memory, call[p]) = "ok"
  /\ work' = [work EXCEPT ![p] = Apply(memory, call[p])]
  /\ IF call[p].verb = "forget"
     THEN /\ victim' = [victim EXCEPT ![p] = Target(memory, call[p].handle).content]
          /\ Goto(p, "append")
     ELSE /\ UNCHANGED victim
          /\ Goto(p, "create")
  /\ UNCHANGED <<files, call, reply, issued>>

LoadRefuses(p) ==
  /\ pc[p] = "locked"
  /\ ~TooLarge(memory)
  /\ Verdict(memory, call[p]) # "ok"
  /\ Return(p, Verdict(memory, call[p]))
  /\ UNCHANGED <<memory, durable, tombs, tail, temps, issued>>

LoadFails(p) ==
  /\ pc[p] = "locked"
  /\ TooLarge(memory) \/ "access" \in Faults
  /\ Return(p, "failed")
  /\ UNCHANGED <<memory, durable, tombs, tail, temps, issued>>

\* One complete line at the end of tombstones.jsonl.  After a partial line it is
\* glued to it: the result is one malformed line, and load_hashes skips it.
AppendLine(content) ==
  IF tail = "clean"
  THEN tombs' = tombs \cup {content} /\ UNCHANGED tail
  ELSE tail' = "clean" /\ UNCHANGED tombs

TearTail == "torn" \in Faults /\ tail' = "torn"

AppendTombstone(p) ==
  /\ pc[p] = "append"
  /\ AppendLine(victim[p])
  /\ Goto(p, "create")
  /\ UNCHANGED <<memory, durable, lock, temps, call, work, victim, reply, issued>>

\* The error leaves no byte, a partial line, or (fsync) a line that is there.
AppendFails(p) ==
  /\ pc[p] = "append"
  /\ \/ "append" \in Faults /\ UNCHANGED <<tombs, tail>>
     \/ "append" \in Faults /\ AppendLine(victim[p])
     \/ TearTail /\ UNCHANGED tombs
  /\ Return(p, "failed")
  /\ UNCHANGED <<memory, durable, temps, issued>>

\* create_new: an existing temp of the same pid is an error.
CreateTemp(p) ==
  /\ pc[p] = "create"
  /\ p \notin temps
  /\ temps' = temps \cup {p}
  /\ Goto(p, "write")
  /\ UNCHANGED <<memory, durable, tombs, tail, lock, call, work, victim, reply, issued>>

CreateFails(p) ==
  /\ pc[p] = "create"
  /\ p \in temps \/ "write" \in Faults
  /\ Return(p, "failed")
  /\ UNCHANGED <<memory, durable, tombs, tail, temps, issued>>

WriteTemp(p) ==
  /\ pc[p] = "write"
  /\ Goto(p, "rename")
  /\ UNCHANGED <<files, call, work, victim, reply, issued>>

\* The early returns of write_state: the temp file stays behind.
WriteFails(p) ==
  /\ pc[p] \in {"write", "rename"}
  /\ "write" \in Faults
  /\ Return(p, "failed")
  /\ UNCHANGED <<memory, durable, tombs, tail, temps, issued>>

\* The temp file of p replaces memory.jsonl; there is none if it was taken away.
Rename(p) ==
  /\ pc[p] = "rename"
  /\ p \in temps
  /\ memory' = work[p]
  /\ temps' = temps \ {p}
  /\ Goto(p, "sync")
  /\ UNCHANGED <<durable, tombs, tail, lock, call, work, victim, reply, issued>>

\* Deliberately wrong: the answer does not wait for the directory fsync.
SyncSkipped(p) ==
  /\ pc[p] = "sync"
  /\ Return(p, "ok")
  /\ UNCHANGED <<memory, durable, tombs, tail, temps, issued>>

\* The directory fsync, whose error is ignored, and the return.
SyncDir(p) ==
  /\ pc[p] = "sync"
  /\ \/ durable' = memory
     \/ "sync" \in Faults /\ UNCHANGED durable
  /\ Return(p, "ok")
  /\ UNCHANGED <<memory, tombs, tail, temps, issued>>

-------------------------------------------------------------------------------
(* The environment *)

\* Deliberately wrong: a lock file that survives its owner.
CrashKeepsLock(p) ==
  /\ "crash" \in Faults
  /\ pc[p] # "down"
  /\ Leave(p, "down", "none")
  /\ UNCHANGED <<files, issued>>

\* The kernel drops the flock of a dead process; its temp file stays.
Crash(p) ==
  /\ "crash" \in Faults
  /\ pc[p] # "down"
  /\ Leave(p, "down", "none")
  /\ lock' = IF lock = p THEN Nothing ELSE lock
  /\ \/ UNCHANGED tail
     \/ pc[p] = "append" /\ TearTail
  /\ UNCHANGED <<memory, durable, tombs, temps, issued>>

PowerLoss ==
  /\ "power" \in Faults
  /\ memory' \in {memory, durable}
  /\ durable' = memory'
  /\ temps' \in SUBSET temps
  /\ \/ UNCHANGED tail
     \/ (\E p \in Procs : pc[p] = "append") /\ TearTail
  /\ lock' = Nothing
  /\ pc' = [p \in Procs |-> "down"]
  /\ call' = [p \in Procs |-> Nothing]
  /\ work' = [p \in Procs |-> {}]
  /\ victim' = [p \in Procs |-> Nothing]
  /\ reply' = [p \in Procs |-> "none"]
  /\ UNCHANGED <<tombs, issued>>

-------------------------------------------------------------------------------
Acquire(p) == OpenLock(p) \/ Lock(p)

\* The steps a process takes without waiting for another.
Proceed(p) ==
  \/ Prepare(p)
  \/ LockFails(p)
  \/ Load(p) \/ LoadRefuses(p) \/ LoadFails(p)
  \/ AppendTombstone(p) \/ AppendFails(p)
  \/ CreateTemp(p) \/ CreateFails(p)
  \/ WriteTemp(p) \/ WriteFails(p)
  \/ Rename(p)
  \/ SyncDir(p)

Next ==
  \/ \E p \in Procs : \/ Start(p)
                      \/ \E c \in Call : Invoke(p, c)
                      \/ Acquire(p)
                      \/ Proceed(p)
                      \/ Crash(p)
  \/ PowerLoss

Spec == Init /\ [][Next]_vars

\* The thread that holds the lock keeps running, and flock wakes its waiters one
\* after the other.  Nothing makes anybody call, restart or crash, and nothing
\* makes the lock file of a waiter fail to open.
Fairness ==
  \A p \in Procs : WF_vars(lock = p /\ Proceed(p)) /\ SF_vars(Acquire(p))

FairSpec == Spec /\ Fairness

-------------------------------------------------------------------------------
(* Correctness *)

TypeOK ==
  /\ memory \subseteq Record
  /\ durable \subseteq Record
  /\ tombs \subseteq Contents
  /\ tail \in {"clean", "torn"}
  /\ lock \in Procs \cup {Nothing}
  /\ temps \subseteq Procs
  /\ pc \in [Procs -> Phase]
  /\ call \in [Procs -> Call \cup {Nothing}]
  /\ work \in [Procs -> SUBSET Record]
  /\ victim \in [Procs -> Contents \cup {Nothing}]
  /\ reply \in [Procs -> {"none", "ok", "notfound", "conflict", "failed"}]
  /\ issued \subseteq Ids

\* At most one ACTIVE record per key, in what readers see and in what a power
\* loss falls back to: storage design section 12, "unique among ACTIVE records
\* of the same scope".  The loader keeps duplicates, so only the writers see to it.
OneActivePerKey == OneActive(memory) /\ OneActive(durable)

\* No two lines share an id; the loader would drop the second as malformed and
\* the next rewrite would erase it.
UniqueIds == DistinctIds(memory) /\ DistinctIds(durable)

\* No lost update: what a writer is about to rename into place is its mutation
\* applied to the corpus that is in the file NOW, not to one another process has
\* replaced since ("re-read state under the lock").
NoLostUpdate ==
  \A p \in Procs :
    pc[p] \in {"append", "create", "write", "rename"}
      => /\ Verdict(memory, call[p]) = "ok"
         /\ work[p] = Apply(memory, call[p])

\* Cleaning the stale temps of crashed writers while opening the store never
\* takes the temp file a live writer is filling or about to rename.
LiveTempKept == \A p \in Procs : pc[p] \in {"write", "rename"} => p \in temps

Deleted(old, new) == {r \in old : WithId(new, r.id) = {}}

\* "Never a deletion without a tombstone" (comment in forget): when a record
\* leaves the file, the hash of its content is readable in tombstones.jsonl.  A
\* power loss that undoes a creation nobody was told of is no deletion.
DeletionHasTombstone ==
  [][ ~PowerLoss =>
        \A r \in Deleted(memory, memory') : r.content \in tombs' ]_vars

\* Status transitions of storage design section 13: a mutation never rewrites the
\* content or the key of a record, never revives a SUPERSEDED one, and only a
\* forget removes one ("no silent overwrite").
LegalTransitions ==
  [][ ~PowerLoss =>
        /\ \A r \in memory, s \in memory' :
             r.id = s.id => /\ r.content = s.content
                            /\ r.key = s.key
                            /\ r.status = "SUPERSEDED" => s.status = "SUPERSEDED"
        /\ Deleted(memory, memory') # {} =>
             \E p \in Procs : pc[p] = "rename" /\ call[p].verb = "forget" ]_vars

\* The file implementation keeps the promise of the trait.
Ledger == INSTANCE MemoryLedger WITH
            mem <- memory,
            stable <- durable,
            applied <- {p \in Procs : pc[p] = "sync"}

KeepsPromise == Ledger!Spec

\* Whoever asks for a mutation is answered, or dies; a crashed holder of the lock
\* "can never deadlock a later one" (lock_file).
CallsReturn == \A p \in Procs : pc[p] = "waiting" ~> pc[p] \in {"idle", "down"}

===============================================================================
