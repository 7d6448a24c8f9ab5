--------------------------- MODULE MemoryStore_proofs ---------------------------
(***************************************************************************)
(* Theorems about MemoryStore for every set of processes, keys, ids and    *)
(* contents and every choice of faults.                                    *)
(***************************************************************************)
EXTENDS MemoryStore, TLAPS

Verdicts == {"ok", "notfound", "conflict"}

-------------------------------------------------------------------------------
(* The pure part: what a mutation makes of a corpus *)

\* A verdict is one of three answers.
LEMMA VerdictType ==
  ASSUME NEW records, NEW c
  PROVE  Verdict(records, c) \in Verdicts
BY DEF Verdict, Verdicts

\* A handle resolves to records of the corpus, and a granted forget or pin has one.
LEMMA TargetExists ==
  ASSUME NEW records, NEW c \in Call,
         c.verb \in {"forget", "pin"},
         Verdict(records, c) = "ok"
  PROVE  /\ Target(records, c.handle) \in records
         /\ Target(records, c.handle) \in Resolve(records, c.handle)
<1>1. Resolve(records, c.handle) # {}
  BY DEF Verdict
<1>2. Resolve(records, c.handle) \subseteq records
  BY DEF Resolve, ActiveWithKey, WithId
<1>3. QED
  BY <1>1, <1>2 DEF Target

\* A granted remember or update brings an id that is not in the corpus.
LEMMA FreshId ==
  ASSUME NEW records, NEW c \in Call,
         c.verb \in {"remember", "update"},
         Verdict(records, c) = "ok"
  PROVE  /\ c.new \in NewRecord
         /\ \A r \in records : r.id # c.new.id
<1>1. c.new \in NewRecord
  BY DEF Call
<1>2. WithId(records, c.new.id) = {}
  BY DEF Verdict
<1>3. QED
  BY <1>1, <1>2 DEF WithId

\* WriteNew, with the superseded record named.
LEMMA WriteNewCases ==
  ASSUME NEW records, NEW new
  PROVE  \/ /\ ActiveWithKey(records, new.key) = {}
            /\ WriteNew(records, new) = records \cup {new}
         \/ \E old \in ActiveWithKey(records, new.key) :
              WriteNew(records, new) =
                (records \ {old}) \cup {[old EXCEPT !.status = "SUPERSEDED"], new}
BY DEF WriteNew

\* A mutation turns records into records.
LEMMA ApplyType ==
  ASSUME NEW records \in SUBSET Record, NEW c \in Call,
         Verdict(records, c) = "ok"
  PROVE  Apply(records, c) \in SUBSET Record
<1>1. CASE c.verb \in {"remember", "update"}
  <2>1. c.new \in Record
    BY <1>1, FreshId DEF NewRecord
  <2>2. Apply(records, c) = WriteNew(records, c.new)
    BY <1>1 DEF Apply
  <2>3. \A old \in records : [old EXCEPT !.status = "SUPERSEDED"] \in Record
    BY DEF Record
  <2>4. QED
    BY <2>1, <2>2, <2>3, WriteNewCases DEF ActiveWithKey
<1>2. CASE c.verb = "forget"
  BY <1>2 DEF Apply
<1>3. CASE c.verb = "pin"
  <2> DEFINE r == Target(records, c.handle)
  <2>1. r \in Record /\ c.pinned \in PinFlags
    BY <1>3, TargetExists DEF Call
  <2>2. [r EXCEPT !.pinned = c.pinned] \in Record
    BY <2>1 DEF Record
  <2>3. QED
    BY <1>3, <2>2 DEF Apply
<1>4. QED
  BY <1>1, <1>2, <1>3 DEF Call

\* A mutation keeps ids distinct and at most one ACTIVE record per key.
LEMMA ApplyKeepsOrder ==
  ASSUME NEW records \in SUBSET Record, NEW c \in Call,
         Verdict(records, c) = "ok",
         OneActive(records), DistinctIds(records)
  PROVE  OneActive(Apply(records, c)) /\ DistinctIds(Apply(records, c))
<1>1. CASE c.verb \in {"remember", "update"}
  <2>1. /\ c.new \in Record
        /\ \A r \in records : r.id # c.new.id
    BY <1>1, FreshId DEF NewRecord
  <2>2. Apply(records, c) = WriteNew(records, c.new)
    BY <1>1 DEF Apply
  <2>3. CASE /\ ActiveWithKey(records, c.new.key) = {}
             /\ WriteNew(records, c.new) = records \cup {c.new}
    BY <2>1, <2>2, <2>3 DEF OneActive, DistinctIds, ActiveWithKey
  <2>4. ASSUME NEW old \in ActiveWithKey(records, c.new.key),
               WriteNew(records, c.new) =
                 (records \ {old}) \cup {[old EXCEPT !.status = "SUPERSEDED"], c.new}
        PROVE  OneActive(WriteNew(records, c.new)) /\ DistinctIds(WriteNew(records, c.new))
    <3> DEFINE past == [old EXCEPT !.status = "SUPERSEDED"]
    <3>1. /\ old \in records /\ old.status = "ACTIVE"
          /\ old.key = c.new.key /\ c.new.key # NoKey
      BY <2>4 DEF ActiveWithKey
    <3>2. /\ past.id = old.id
          /\ past.status = "SUPERSEDED"
      BY <3>1 DEF Record
    <3>3. \A r \in records : r.status = "ACTIVE" /\ r.key = c.new.key => r = old
      BY <3>1 DEF OneActive
    <3>4. WriteNew(records, c.new) = (records \ {old}) \cup {past, c.new}
      BY <2>4
    <3> HIDE DEF past
    <3>5. OneActive(WriteNew(records, c.new))
      BY <3>1, <3>2, <3>3, <3>4 DEF OneActive
    <3>6. \A r \in records : r.id # c.new.id /\ (r.id = old.id => r = old)
      BY <2>1, <3>1 DEF DistinctIds
    <3>7. DistinctIds(WriteNew(records, c.new))
      BY <3>1, <3>2, <3>4, <3>6 DEF DistinctIds
    <3>8. QED
      BY <3>5, <3>7
  <2>5. QED
    BY <2>2, <2>3, <2>4, WriteNewCases
<1>2. CASE c.verb = "forget"
  BY <1>2 DEF Apply, OneActive, DistinctIds
<1>3. CASE c.verb = "pin"
  <2> DEFINE r == Target(records, c.handle)
             s == [r EXCEPT !.pinned = c.pinned]
  <2>1. r \in records
    BY <1>3, TargetExists
  <2>2. s.id = r.id /\ s.key = r.key /\ s.status = r.status
    BY <2>1 DEF Record
  <2>3. Apply(records, c) = (records \ {r}) \cup {s}
    BY <1>3 DEF Apply
  <2> HIDE DEF r, s
  <2>4. QED
    BY <2>1, <2>2, <2>3 DEF OneActive, DistinctIds
<1>4. QED
  BY <1>1, <1>2, <1>3 DEF Call

-------------------------------------------------------------------------------
(* Types *)

Busy == {"waiting", "locked"} \cup Writing

\* A process has a mutation in flight exactly between its call and its answer, and
\* knows the identity it is burying while it appends the tombstone.
CallInv ==
  \A p \in Procs :
    /\ call[p] # Nothing <=> pc[p] \in Busy
    /\ pc[p] = "append" => call[p].verb = "forget" /\ victim[p] \in Contents

TypeInv == TypeOK /\ CallInv

LEMMA TypeInvStep == TypeInv /\ [Next]_vars => TypeInv'
<1> SUFFICES ASSUME TypeInv, [Next]_vars PROVE TypeInv'
  OBVIOUS
<1> USE DEF TypeInv, TypeOK, CallInv, Busy, Writing, Locked, Phase, files
<1>1. ASSUME NEW p \in Procs, Start(p) PROVE TypeInv'
  BY <1>1 DEF Start, Goto
<1>2. ASSUME NEW p \in Procs, NEW c \in Call, Invoke(p, c) PROVE TypeInv'
  <2>1. IdsOf(c) \subseteq Ids
    BY DEF IdsOf, Call, NewRecord, Record
  <2>2. c # Nothing
    BY NothingAssumption
  <2>3. QED
    BY <1>2, <2>1, <2>2 DEF Invoke, Goto
<1>3. ASSUME NEW p \in Procs, Acquire(p) PROVE TypeInv'
  BY <1>3 DEF Acquire, OpenLock, Lock, TakeLock, Goto
<1>4. ASSUME NEW p \in Procs, Prepare(p) PROVE TypeInv'
  BY <1>4 DEF Prepare, Goto
<1>5. ASSUME NEW p \in Procs, LockFails(p) PROVE TypeInv'
  BY <1>5 DEF LockFails, Leave, Goto
<1>6. ASSUME NEW p \in Procs, Load(p) PROVE TypeInv'
  <2>1. call[p] \in Call /\ Verdict(memory, call[p]) = "ok"
    BY <1>6 DEF Load
  <2>2. Apply(memory, call[p]) \in SUBSET Record
    BY <2>1, ApplyType
  <2>3. call[p].verb = "forget" => Target(memory, call[p].handle).content \in Contents
    BY <2>1, TargetExists DEF Record
  <2>4. QED
    BY <1>6, <2>1, <2>2, <2>3 DEF Load, Goto
<1>7. ASSUME NEW p \in Procs, LoadRefuses(p) PROVE TypeInv'
  BY <1>7, VerdictType DEF LoadRefuses, Return, Leave, Goto, Verdicts
<1>8. ASSUME NEW p \in Procs, LoadFails(p) PROVE TypeInv'
  BY <1>8 DEF LoadFails, Return, Leave, Goto
<1>9. ASSUME NEW p \in Procs, AppendTombstone(p) PROVE TypeInv'
  BY <1>9 DEF AppendTombstone, AppendLine, Goto
<1>10. ASSUME NEW p \in Procs, AppendFails(p) PROVE TypeInv'
  BY <1>10 DEF AppendFails, AppendLine, TearTail, Return, Leave, Goto
<1>11. ASSUME NEW p \in Procs, CreateTemp(p) \/ CreateFails(p) PROVE TypeInv'
  BY <1>11 DEF CreateTemp, CreateFails, Return, Leave, Goto
<1>12. ASSUME NEW p \in Procs, WriteTemp(p) \/ WriteFails(p) PROVE TypeInv'
  BY <1>12 DEF WriteTemp, WriteFails, Return, Leave, Goto
<1>13. ASSUME NEW p \in Procs, Rename(p) PROVE TypeInv'
  BY <1>13 DEF Rename, Goto
<1>14. ASSUME NEW p \in Procs, SyncDir(p) PROVE TypeInv'
  BY <1>14 DEF SyncDir, Return, Leave, Goto
<1>15. ASSUME NEW p \in Procs, Crash(p) PROVE TypeInv'
  BY <1>15 DEF Crash, TearTail, Leave, Goto
<1>16. CASE PowerLoss
  BY <1>16 DEF PowerLoss, TearTail
<1>17. CASE UNCHANGED vars
  BY <1>17 DEF vars
<1>18. QED
  BY <1>1, <1>2, <1>3, <1>4, <1>5, <1>6, <1>7, <1>8, <1>9, <1>10, <1>11, <1>12,
     <1>13, <1>14, <1>15, <1>16, <1>17 DEF Next, Proceed

\* The type invariant holds in every reachable state, whatever fails or crashes.
THEOREM TypeCorrect == Spec => []TypeOK
<1>1. Init => TypeInv
  BY NothingAssumption DEF Init, TypeInv, TypeOK, CallInv, Busy, Writing, Locked, Phase
<1>2. Spec => []TypeInv
  BY <1>1, TypeInvStep, PTL DEF Spec
<1>3. QED
  BY <1>2, PTL DEF TypeInv

-------------------------------------------------------------------------------
(* The lock, the working copies, the corpora and the temp files *)

\* A process is between taking and dropping the flock exactly when it holds it.
LockInv == \A p \in Procs : pc[p] \in Locked <=> lock = p

LEMMA LockInvStep == TypeInv /\ LockInv /\ [Next]_vars => LockInv'
<1> SUFFICES ASSUME TypeInv, LockInv, [Next]_vars PROVE LockInv'
  OBVIOUS
<1> USE NothingAssumption
    DEF TypeInv, TypeOK, LockInv, Writing, Locked, Phase, files, Goto
<1>1. ASSUME NEW p \in Procs, Start(p) \/ (\E c \in Call : Invoke(p, c)) PROVE LockInv'
  BY <1>1 DEF Start, Invoke
<1>2. ASSUME NEW p \in Procs, Acquire(p) PROVE LockInv'
  BY <1>2 DEF Acquire, OpenLock, Lock, TakeLock
<1>3. ASSUME NEW p \in Procs, Proceed(p) PROVE LockInv'
  <2>1. CASE Prepare(p)
    BY <2>1 DEF Prepare
  <2>2. CASE LockFails(p)
    BY <2>2 DEF LockFails, Leave
  <2>3. CASE Load(p)
    BY <2>3 DEF Load
  <2>4. CASE LoadRefuses(p) \/ LoadFails(p)
    BY <2>4 DEF LoadRefuses, LoadFails, Return, Leave
  <2>5. CASE AppendTombstone(p)
    BY <2>5 DEF AppendTombstone
  <2>6. CASE AppendFails(p) \/ CreateFails(p) \/ WriteFails(p)
    BY <2>6 DEF AppendFails, CreateFails, WriteFails, Return, Leave
  <2>7. CASE CreateTemp(p) \/ WriteTemp(p)
    BY <2>7 DEF CreateTemp, WriteTemp
  <2>8. CASE Rename(p)
    BY <2>8 DEF Rename
  <2>9. CASE SyncDir(p)
    BY <2>9 DEF SyncDir, Return, Leave
  <2>10. QED
    BY <1>3, <2>1, <2>2, <2>3, <2>4, <2>5, <2>6, <2>7, <2>8, <2>9 DEF Proceed
<1>4. ASSUME NEW p \in Procs, Crash(p) PROVE LockInv'
  BY <1>4 DEF Crash, Leave
<1>5. CASE PowerLoss
  BY <1>5 DEF PowerLoss
<1>6. CASE UNCHANGED vars
  BY <1>6 DEF vars
<1>7. QED
  BY <1>1, <1>2, <1>3, <1>4, <1>5, <1>6 DEF Next

\* What a writer computed is still its mutation applied to the file, and what it
\* buries is still the content it is about to remove.
WorkInv ==
  /\ NoLostUpdate
  /\ \A p \in Procs :
       pc[p] = "append" => victim[p] = Target(memory, call[p].handle).content

LEMMA WorkInvStep == TypeInv /\ LockInv /\ WorkInv /\ [Next]_vars => WorkInv'
<1> SUFFICES ASSUME TypeInv, LockInv, WorkInv, [Next]_vars PROVE WorkInv'
  OBVIOUS
<1> USE DEF TypeInv, TypeOK, WorkInv, NoLostUpdate, files, Goto
<1>1. ASSUME NEW p \in Procs, Start(p) \/ (\E c \in Call : Invoke(p, c)) PROVE WorkInv'
  BY <1>1 DEF Start, Invoke
<1>2. ASSUME NEW p \in Procs, Acquire(p) PROVE WorkInv'
  BY <1>2 DEF Acquire, OpenLock, Lock
<1>3. ASSUME NEW p \in Procs, Proceed(p) PROVE WorkInv'
  <2>1. CASE Prepare(p)
    BY <2>1 DEF Prepare
  <2>2. CASE LockFails(p)
    BY <2>2 DEF LockFails, Leave
  <2>3. CASE Load(p)
    BY <2>3 DEF Load
  <2>4. CASE LoadRefuses(p) \/ LoadFails(p)
    BY <2>4 DEF LoadRefuses, LoadFails, Return, Leave
  <2>5. CASE AppendTombstone(p)
    BY <2>5 DEF AppendTombstone
  <2>6. CASE AppendFails(p) \/ CreateFails(p) \/ WriteFails(p)
    BY <2>6 DEF AppendFails, CreateFails, WriteFails, Return, Leave
  <2>7. CASE CreateTemp(p) \/ WriteTemp(p)
    BY <2>7 DEF CreateTemp, WriteTemp
  <2>8. CASE Rename(p)
    \* Nobody else is between its load and its rename: p holds the lock.
    <3>1. \A q \in Procs : pc'[q] \notin {"append", "create", "write", "rename"}
      BY <2>8 DEF Rename, LockInv, Locked, Writing
    <3>2. QED
      BY <3>1
  <2>9. CASE SyncDir(p)
    BY <2>9 DEF SyncDir, Return, Leave
  <2>10. QED
    BY <1>3, <2>1, <2>2, <2>3, <2>4, <2>5, <2>6, <2>7, <2>8, <2>9 DEF Proceed
<1>4. ASSUME NEW p \in Procs, Crash(p) PROVE WorkInv'
  BY <1>4 DEF Crash, Leave
<1>5. CASE PowerLoss
  BY <1>5 DEF PowerLoss
<1>6. CASE UNCHANGED vars
  BY <1>6 DEF vars
<1>7. QED
  BY <1>1, <1>2, <1>3, <1>4, <1>5, <1>6 DEF Next

\* The steps that touch memory.jsonl, and what they put into it.
LEMMA FileSteps ==
  ASSUME TypeInv, WorkInv, [Next]_vars
  PROVE  \/ UNCHANGED <<memory, durable>>
         \/ /\ \E p \in Procs :
                 /\ pc[p] = "rename"
                 /\ call[p] \in Call
                 /\ Verdict(memory, call[p]) = "ok"
                 /\ memory' = Apply(memory, call[p])
            /\ UNCHANGED <<durable, tombs>>
         \/ /\ UNCHANGED <<memory, tombs>>
            /\ durable' = memory
         \/ memory' \in {memory, durable} /\ durable' = memory' /\ UNCHANGED tombs
<1> USE DEF files
<1>1. ASSUME NEW p \in Procs, Rename(p) PROVE UNCHANGED <<durable, tombs>> /\
          pc[p] = "rename" /\ call[p] \in Call /\ Verdict(memory, call[p]) = "ok" /\
          memory' = Apply(memory, call[p])
  BY <1>1 DEF Rename, WorkInv, NoLostUpdate, TypeInv, TypeOK, CallInv, Busy, Writing
<1>2. ASSUME NEW p \in Procs, SyncDir(p)
      PROVE  UNCHANGED <<memory, tombs>> /\ durable' \in {durable, memory}
  BY <1>2 DEF SyncDir
<1>3. ASSUME NEW p \in Procs, Proceed(p), ~Rename(p), ~SyncDir(p)
      PROVE  UNCHANGED <<memory, durable>>
  BY <1>3 DEF Proceed, Prepare, LockFails, Load, LoadRefuses, LoadFails,
     AppendTombstone, AppendFails, CreateTemp, CreateFails, WriteTemp, WriteFails
<1>4. ASSUME NEW p \in Procs,
             Start(p) \/ (\E c \in Call : Invoke(p, c)) \/ Acquire(p) \/ Crash(p)
      PROVE  UNCHANGED <<memory, durable>>
  BY <1>4 DEF Start, Invoke, Acquire, OpenLock, Lock, Crash
<1>5. CASE PowerLoss
  BY <1>5 DEF PowerLoss
<1>6. CASE UNCHANGED vars
  BY <1>6 DEF vars
<1>7. QED
  BY <1>1, <1>2, <1>3, <1>4, <1>5, <1>6 DEF Next

CorpusInv == OneActivePerKey /\ UniqueIds

LEMMA CorpusInvStep == TypeInv /\ WorkInv /\ CorpusInv /\ [Next]_vars => CorpusInv'
<1> SUFFICES ASSUME TypeInv, WorkInv, CorpusInv, [Next]_vars PROVE CorpusInv'
  OBVIOUS
<1> USE DEF CorpusInv, OneActivePerKey, UniqueIds
<1>1. ASSUME NEW p \in Procs, call[p] \in Call, Verdict(memory, call[p]) = "ok",
             memory' = Apply(memory, call[p])
      PROVE  OneActive(memory') /\ DistinctIds(memory')
  BY <1>1, ApplyKeepsOrder DEF TypeInv, TypeOK
<1>2. QED
  BY <1>1, FileSteps

LEMMA TempInvStep == TypeInv /\ LockInv /\ LiveTempKept /\ [Next]_vars => LiveTempKept'
<1> SUFFICES ASSUME TypeInv, LockInv, LiveTempKept, [Next]_vars PROVE LiveTempKept'
  OBVIOUS
<1> USE DEF TypeInv, TypeOK, LiveTempKept, files, Goto
<1>1. ASSUME NEW p \in Procs, Start(p) \/ (\E c \in Call : Invoke(p, c)) \/ Acquire(p)
      PROVE LiveTempKept'
  BY <1>1 DEF Start, Invoke, Acquire, OpenLock, Lock
<1>2. ASSUME NEW p \in Procs, Proceed(p) PROVE LiveTempKept'
  <2>1. CASE Prepare(p)
    \* p holds the lock, so nobody is writing.
    <3>1. \A q \in Procs : pc'[q] \notin {"write", "rename"}
      BY <2>1 DEF Prepare, LockInv, Locked, Writing
    <3>2. QED
      BY <3>1
  <2>2. CASE LockFails(p) \/ LoadRefuses(p) \/ LoadFails(p) \/ AppendFails(p)
               \/ CreateFails(p) \/ WriteFails(p) \/ SyncDir(p)
    BY <2>2 DEF LockFails, LoadRefuses, LoadFails, AppendFails, CreateFails, WriteFails,
       SyncDir, Return, Leave
  <2>3. CASE Load(p) \/ AppendTombstone(p)
    BY <2>3 DEF Load, AppendTombstone
  <2>4. CASE CreateTemp(p) \/ WriteTemp(p)
    BY <2>4 DEF CreateTemp, WriteTemp
  <2>5. CASE Rename(p)
    BY <2>5 DEF Rename
  <2>6. QED
    BY <1>2, <2>1, <2>2, <2>3, <2>4, <2>5 DEF Proceed
<1>3. ASSUME NEW p \in Procs, Crash(p) PROVE LiveTempKept'
  BY <1>3 DEF Crash, Leave
<1>4. CASE PowerLoss
  BY <1>4 DEF PowerLoss
<1>5. CASE UNCHANGED vars
  BY <1>5 DEF vars
<1>6. QED
  BY <1>1, <1>2, <1>3, <1>4, <1>5 DEF Next

\* The inductive invariant of the store.
StoreInv == TypeInv /\ LockInv /\ WorkInv /\ CorpusInv /\ LiveTempKept

LEMMA StoreInvariant == Spec => []StoreInv
<1>1. Init => StoreInv
  BY NothingAssumption
     DEF Init, StoreInv, TypeInv, TypeOK, CallInv, Busy, Writing, Locked, Phase, LockInv,
         WorkInv, NoLostUpdate, CorpusInv, OneActivePerKey, UniqueIds, OneActive,
         DistinctIds, LiveTempKept
<1>2. StoreInv /\ [Next]_vars => StoreInv'
  BY TypeInvStep, LockInvStep, WorkInvStep, CorpusInvStep, TempInvStep DEF StoreInv
<1>3. QED
  BY <1>1, <1>2, PTL DEF Spec

\* No reachable file has two ACTIVE records under one key.
THEOREM OneActivePerKeyHolds == Spec => []OneActivePerKey
<1>1. StoreInv => OneActivePerKey
  BY DEF StoreInv, CorpusInv
<1>2. QED
  BY <1>1, StoreInvariant, PTL

\* No reachable file has two records with one id.
THEOREM UniqueIdsHold == Spec => []UniqueIds
<1>1. StoreInv => UniqueIds
  BY DEF StoreInv, CorpusInv
<1>2. QED
  BY <1>1, StoreInvariant, PTL

\* No writer renames a corpus computed from a file another process has replaced.
THEOREM NoUpdateIsLost == Spec => []NoLostUpdate
<1>1. StoreInv => NoLostUpdate
  BY DEF StoreInv, WorkInv
<1>2. QED
  BY <1>1, StoreInvariant, PTL

\* Opening a store never takes the temp file of a live writer.
THEOREM LiveTempIsKept == Spec => []LiveTempKept
<1>1. StoreInv => LiveTempKept
  BY DEF StoreInv
<1>2. QED
  BY <1>1, StoreInvariant, PTL

-------------------------------------------------------------------------------
(* What a mutation does to the records that are already there *)

\* A granted mutation keeps every record it does not forget, with its content and
\* its key, and revives none.
LEMMA ApplyKeeps ==
  ASSUME NEW records \in SUBSET Record, NEW c \in Call,
         Verdict(records, c) = "ok", DistinctIds(records)
  PROVE  /\ \A r \in records, s \in Apply(records, c) :
              r.id = s.id => /\ r.content = s.content
                             /\ r.key = s.key
                             /\ r.status = "SUPERSEDED" => s.status = "SUPERSEDED"
         /\ c.verb # "forget" => Deleted(records, Apply(records, c)) = {}
         /\ c.verb = "forget" =>
              Deleted(records, Apply(records, c)) \subseteq {Target(records, c.handle)}
<1> USE DEF DistinctIds, Deleted, WithId
<1>1. CASE c.verb \in {"remember", "update"}
  <2>1. \A r \in records : r.id # c.new.id
    BY <1>1, FreshId
  <2>2. Apply(records, c) = WriteNew(records, c.new)
    BY <1>1 DEF Apply
  <2>3. CASE WriteNew(records, c.new) = records \cup {c.new}
    BY <1>1, <2>1, <2>2, <2>3
  <2>4. ASSUME NEW old \in ActiveWithKey(records, c.new.key),
               WriteNew(records, c.new) =
                 (records \ {old}) \cup {[old EXCEPT !.status = "SUPERSEDED"], c.new}
        PROVE  /\ \A r \in records, s \in Apply(records, c) :
                    r.id = s.id => /\ r.content = s.content
                                   /\ r.key = s.key
                                   /\ r.status = "SUPERSEDED" => s.status = "SUPERSEDED"
               /\ Deleted(records, Apply(records, c)) = {}
    <3> DEFINE past == [old EXCEPT !.status = "SUPERSEDED"]
    <3>1. old \in records /\ old \in Record
      BY DEF ActiveWithKey
    <3>2. /\ past.id = old.id /\ past.content = old.content
          /\ past.key = old.key /\ past.status = "SUPERSEDED"
      BY <3>1 DEF Record
    <3>3. Apply(records, c) = (records \ {old}) \cup {past, c.new}
      BY <2>2, <2>4
    <3> HIDE DEF past
    <3>4. \A r \in records : r.id = old.id => r = old
      BY <3>1
    <3>5. ASSUME NEW r \in records, NEW s \in Apply(records, c), r.id = s.id
          PROVE  /\ r.content = s.content
                 /\ r.key = s.key
                 /\ r.status = "SUPERSEDED" => s.status = "SUPERSEDED"
      <4>1. CASE s \in records
        BY <3>5, <4>1
      <4>2. CASE s = past
        BY <3>2, <3>4, <3>5, <4>2
      <4>3. CASE s = c.new
        BY <2>1, <3>5, <4>3
      <4>4. QED
        BY <3>3, <3>5, <4>1, <4>2, <4>3
    <3>6. ASSUME NEW r \in records
          PROVE  \E s \in Apply(records, c) : s.id = r.id
      <4>1. CASE r = old
        BY <3>2, <3>3, <4>1
      <4>2. CASE r # old
        BY <3>3, <4>2
      <4>3. QED
        BY <4>1, <4>2
    <3>7. QED
      BY <3>5, <3>6
  <2>5. QED
    BY <1>1, <2>3, <2>4, WriteNewCases
<1>2. CASE c.verb = "forget"
  BY <1>2 DEF Apply
<1>3. CASE c.verb = "pin"
  <2> DEFINE r == Target(records, c.handle)
             s == [r EXCEPT !.pinned = c.pinned]
  <2>1. r \in records
    BY <1>3, TargetExists
  <2>2. s.id = r.id /\ s.key = r.key /\ s.content = r.content /\ s.status = r.status
    BY <2>1 DEF Record
  <2>3. Apply(records, c) = (records \ {r}) \cup {s}
    BY <1>3 DEF Apply
  <2> HIDE DEF r, s
  <2>4. QED
    BY <1>3, <2>1, <2>2, <2>3
<1>4. QED
  BY <1>1, <1>2, <1>3 DEF Call

\* Records only change as storage design section 13 allows.
THEOREM TransitionsAreLegal == Spec => LegalTransitions
<1>1. StoreInv /\ [Next]_vars =>
        [ ~PowerLoss =>
            /\ \A r \in memory, s \in memory' :
                 r.id = s.id => /\ r.content = s.content
                                /\ r.key = s.key
                                /\ r.status = "SUPERSEDED" => s.status = "SUPERSEDED"
            /\ Deleted(memory, memory') # {} =>
                 \E p \in Procs : pc[p] = "rename" /\ call[p].verb = "forget" ]_vars
  <2> SUFFICES ASSUME StoreInv, [Next]_vars, ~PowerLoss
               PROVE  /\ \A r \in memory, s \in memory' :
                           r.id = s.id => /\ r.content = s.content
                                          /\ r.key = s.key
                                          /\ r.status = "SUPERSEDED" => s.status = "SUPERSEDED"
                      /\ Deleted(memory, memory') # {} =>
                           \E p \in Procs : pc[p] = "rename" /\ call[p].verb = "forget"
    OBVIOUS
  <2>1. DistinctIds(memory) /\ memory \in SUBSET Record
    BY DEF StoreInv, CorpusInv, UniqueIds, TypeInv, TypeOK
  <2>2. CASE UNCHANGED memory
    BY <2>1, <2>2 DEF DistinctIds, Deleted, WithId
  <2>3. ASSUME NEW p \in Procs, Rename(p)
        PROVE  pc[p] = "rename" /\ call[p] \in Call /\ Verdict(memory, call[p]) = "ok"
               /\ memory' = Apply(memory, call[p])
    BY <2>3 DEF Rename, StoreInv, WorkInv, NoLostUpdate, TypeInv, TypeOK, CallInv, Busy, Writing
  <2>4. \/ UNCHANGED memory
        \/ \E p \in Procs : Rename(p)
    BY DEF Next, vars, files, Proceed, Acquire, Start, Invoke, OpenLock, Lock, Prepare,
       LockFails, Load, LoadRefuses, LoadFails, AppendTombstone, AppendFails, CreateTemp,
       CreateFails, WriteTemp, WriteFails, SyncDir, Crash
  <2>5. ASSUME NEW p \in Procs, Rename(p)
        PROVE  /\ \A r \in memory, s \in memory' :
                    r.id = s.id => /\ r.content = s.content
                                   /\ r.key = s.key
                                   /\ r.status = "SUPERSEDED" => s.status = "SUPERSEDED"
               /\ Deleted(memory, memory') # {} => pc[p] = "rename" /\ call[p].verb = "forget"
    BY <2>1, <2>3, <2>5, ApplyKeeps
  <2>6. QED
    BY <2>2, <2>4, <2>5
<1>2. QED
  BY <1>1, StoreInvariant, PTL DEF Spec, LegalTransitions

-------------------------------------------------------------------------------
(* Tombstones, where an append leaves no partial line behind *)

\* Between its tombstone and its rename, a forget finds on disk the hash of the
\* very record it is about to remove.
TombInv ==
  /\ tail = "clean"
  /\ \A p \in Procs :
       pc[p] \in {"create", "write", "rename"} /\ call[p].verb = "forget"
         => Target(memory, call[p].handle).content \in tombs

LEMMA TombInvStep ==
  ASSUME "torn" \notin Faults
  PROVE  StoreInv /\ TombInv /\ [Next]_vars => TombInv'
<1> SUFFICES ASSUME StoreInv, TombInv, [Next]_vars PROVE TombInv'
  OBVIOUS
<1> USE DEF StoreInv, TypeInv, TypeOK, TombInv, files, Goto, TearTail
<1>1. ASSUME NEW p \in Procs, Start(p) \/ (\E c \in Call : Invoke(p, c)) \/ Acquire(p)
      PROVE TombInv'
  BY <1>1 DEF Start, Invoke, Acquire, OpenLock, Lock
<1>2. ASSUME NEW p \in Procs, Proceed(p) PROVE TombInv'
  <2>1. CASE Prepare(p)
    BY <2>1 DEF Prepare
  <2>2. CASE LockFails(p) \/ LoadRefuses(p) \/ LoadFails(p) \/ CreateFails(p)
               \/ WriteFails(p) \/ SyncDir(p)
    BY <2>2 DEF LockFails, LoadRefuses, LoadFails, CreateFails, WriteFails, SyncDir,
       Return, Leave
  <2>3. CASE Load(p)
    BY <2>3 DEF Load
  <2>4. CASE AppendTombstone(p)
    BY <2>4 DEF AppendTombstone, AppendLine, WorkInv
  <2>5. CASE AppendFails(p)
    BY <2>5 DEF AppendFails, AppendLine, Return, Leave
  <2>6. CASE CreateTemp(p) \/ WriteTemp(p)
    BY <2>6 DEF CreateTemp, WriteTemp
  <2>7. CASE Rename(p)
    <3>1. \A q \in Procs : pc'[q] \notin {"create", "write", "rename"}
      BY <2>7 DEF Rename, LockInv, Locked, Writing
    <3>2. QED
      BY <2>7, <3>1 DEF Rename
  <2>8. QED
    BY <1>2, <2>1, <2>2, <2>3, <2>4, <2>5, <2>6, <2>7 DEF Proceed
<1>3. ASSUME NEW p \in Procs, Crash(p) PROVE TombInv'
  BY <1>3 DEF Crash, Leave
<1>4. CASE PowerLoss
  BY <1>4 DEF PowerLoss
<1>5. CASE UNCHANGED vars
  BY <1>5 DEF vars
<1>6. QED
  BY <1>1, <1>2, <1>3, <1>4, <1>5 DEF Next

LEMMA TombInvariant == ASSUME "torn" \notin Faults PROVE Spec => [](StoreInv /\ TombInv)
<1>1. Init => TombInv
  BY DEF Init, TombInv
<1>2. StoreInv /\ TombInv /\ [Next]_vars => TombInv'
  BY TombInvStep
<1>3. QED
  BY <1>1, <1>2, StoreInvariant, PTL DEF Spec

\* Provided that no append leaves a partial line, a record only ever leaves the file
\* with its tombstone on disk.
THEOREM DeletionsHaveTombstones ==
  ASSUME "torn" \notin Faults
  PROVE  Spec => DeletionHasTombstone
<1>1. StoreInv /\ TombInv /\ [Next]_vars =>
        [~PowerLoss => \A r \in Deleted(memory, memory') : r.content \in tombs']_vars
  <2> SUFFICES ASSUME StoreInv, TombInv, [Next]_vars, ~PowerLoss
               PROVE  \A r \in Deleted(memory, memory') : r.content \in tombs'
    OBVIOUS
  <2>1. DistinctIds(memory) /\ memory \in SUBSET Record
    BY DEF StoreInv, CorpusInv, UniqueIds, TypeInv, TypeOK
  <2>2. CASE UNCHANGED memory
    BY <2>2 DEF Deleted, WithId
  <2>3. ASSUME NEW p \in Procs, Rename(p)
        PROVE  \A r \in Deleted(memory, memory') : r.content \in tombs'
    <3>1. /\ pc[p] = "rename" /\ call[p] \in Call /\ Verdict(memory, call[p]) = "ok"
          /\ memory' = Apply(memory, call[p])
          /\ UNCHANGED tombs
      BY <2>3 DEF Rename, StoreInv, WorkInv, NoLostUpdate, TypeInv, TypeOK, CallInv, Busy,
         Writing
    <3>2. CASE call[p].verb = "forget"
      <4>1. Target(memory, call[p].handle).content \in tombs
        BY <3>1, <3>2 DEF TombInv
      <4>2. QED
        BY <2>1, <3>1, <3>2, <4>1, ApplyKeeps
    <3>3. CASE call[p].verb # "forget"
      BY <2>1, <3>1, <3>3, ApplyKeeps
    <3>4. QED
      BY <3>2, <3>3
  <2>4. \/ UNCHANGED memory
        \/ \E p \in Procs : Rename(p)
    BY DEF Next, vars, files, Proceed, Acquire, Start, Invoke, OpenLock, Lock, Prepare,
       LockFails, Load, LoadRefuses, LoadFails, AppendTombstone, AppendFails, CreateTemp,
       CreateFails, WriteTemp, WriteFails, SyncDir, Crash
  <2>5. QED
    BY <2>2, <2>3, <2>4
<1>2. QED
  BY <1>1, TombInvariant, PTL DEF Spec, DeletionHasTombstone

-------------------------------------------------------------------------------
(* The files implement the promise *)

\* The ledger computes with the same corpus operators.
LEMMA SameOperators ==
  /\ Ledger!Call = Call
  /\ \A records, c : Ledger!Verdict(records, c) = Verdict(records, c)
  /\ \A records, h : Ledger!Target(records, h) = Target(records, h)
  /\ \A records, c : Ledger!Apply(records, c) = Apply(records, c)
<1>1. Ledger!Call = Call
  BY DEF Ledger!Call, Call, Ledger!NewRecord, NewRecord, Ledger!Record, Record,
     Ledger!Handle, Handle
<1>2. \A records, h : Ledger!Resolve(records, h) = Resolve(records, h)
  BY DEF Ledger!Resolve, Resolve, Ledger!WithId, WithId, Ledger!ActiveWithKey, ActiveWithKey
<1>3. \A records, c : Ledger!Verdict(records, c) = Verdict(records, c)
  BY <1>2 DEF Ledger!Verdict, Verdict, Ledger!WithId, WithId, Ledger!ActiveWithKey,
     ActiveWithKey
<1>4. \A records, h : Ledger!Target(records, h) = Target(records, h)
  BY <1>2 DEF Ledger!Target, Target
<1>5. \A records, new : Ledger!WriteNew(records, new) = WriteNew(records, new)
  BY DEF Ledger!WriteNew, WriteNew, Ledger!ActiveWithKey, ActiveWithKey
<1>6. \A records, c : Ledger!Apply(records, c) = Apply(records, c)
  BY <1>4, <1>5 DEF Ledger!Apply, Apply
<1>7. QED
  BY <1>1, <1>3, <1>4, <1>6

\* Every step of the store is a step of the ledger or changes nothing it shows.
LEMMA StepKeepsPromise ==
  ASSUME "torn" \notin Faults, "sync" \notin Faults,
         StoreInv, TombInv, [Next]_vars
  PROVE  [Ledger!Next]_(Ledger!vars)
<1> USE DEF files, Goto, TearTail, Ledger!vars, StoreInv, TypeInv, TypeOK
<1>1. ASSUME NEW p \in Procs, NEW c \in Call, Invoke(p, c) PROVE Ledger!Next
  <2>1. Ledger!Invoke(p, c)
    BY <1>1 DEF Invoke, Ledger!Invoke, CallInv, Busy, Writing
  <2>2. QED
    BY <2>1, SameOperators DEF Ledger!Next
<1>2. ASSUME NEW p \in Procs, LoadRefuses(p) PROVE Ledger!Next
  <2>1. Ledger!Refuse(p)
    BY <1>2, SameOperators DEF LoadRefuses, Return, Leave, Ledger!Refuse, Ledger!Answer, CallInv, Busy
  <2>2. QED
    BY <2>1 DEF Ledger!Next
<1>3. ASSUME NEW p \in Procs,
             LockFails(p) \/ LoadFails(p) \/ AppendFails(p) \/ CreateFails(p) \/ WriteFails(p)
      PROVE  Ledger!Next
  <2>1. /\ call[p] # Nothing /\ pc[p] # "sync"
        /\ call' = [call EXCEPT ![p] = Nothing]
        /\ reply' = [reply EXCEPT ![p] = "failed"]
        /\ pc' = [pc EXCEPT ![p] = "idle"]
        /\ UNCHANGED <<memory, durable>>
    BY <1>3 DEF LockFails, LoadFails, AppendFails, CreateFails, WriteFails, Return, Leave,
       CallInv, Busy, Writing
  <2>2. \/ UNCHANGED tombs
        \/ /\ call[p].verb = "forget"
           /\ Verdict(memory, call[p]) = "ok"
           /\ tombs' = tombs \cup {Target(memory, call[p].handle).content}
    BY <1>3 DEF LockFails, LoadFails, AppendFails, CreateFails, WriteFails, AppendLine,
       TombInv, WorkInv, NoLostUpdate, CallInv
  <2>3. Ledger!Fail(p)
    BY <2>1, <2>2, SameOperators DEF Ledger!Fail, Ledger!Answer
  <2>4. QED
    BY <2>3 DEF Ledger!Next
<1>4. ASSUME NEW p \in Procs, AppendTombstone(p) PROVE Ledger!Next
  <2>1. Ledger!Bury(p)
    BY <1>4, SameOperators DEF AppendTombstone, AppendLine, Ledger!Bury, CallInv, Busy, Writing, TombInv,
       WorkInv, NoLostUpdate
  <2>2. QED
    BY <2>1 DEF Ledger!Next
<1>5. ASSUME NEW p \in Procs, Rename(p) PROVE Ledger!Next
  <2>1. Ledger!TakeEffect(p)
    BY <1>5, SameOperators DEF Rename, Ledger!TakeEffect, CallInv, Busy, Writing, TombInv, WorkInv,
       NoLostUpdate
  <2>2. QED
    BY <2>1 DEF Ledger!Next
<1>6. ASSUME NEW p \in Procs, SyncDir(p) PROVE Ledger!Next
  <2>1. Ledger!Acknowledge(p)
    BY <1>6 DEF SyncDir, Return, Leave, Ledger!Acknowledge, Ledger!Answer
  <2>2. QED
    BY <2>1 DEF Ledger!Next
<1>7. ASSUME NEW p \in Procs, Crash(p) PROVE Ledger!Next
  <2>1. Ledger!Crash(p)
    BY <1>7 DEF Crash, Leave, Ledger!Crash, Ledger!Answer
  <2>2. QED
    BY <2>1 DEF Ledger!Next
<1>8. CASE PowerLoss
  <2>1. Ledger!PowerLoss
    BY <1>8 DEF PowerLoss, Ledger!PowerLoss
  <2>2. QED
    BY <2>1 DEF Ledger!Next
<1>9. ASSUME NEW p \in Procs,
             Start(p) \/ Acquire(p) \/ Prepare(p) \/ Load(p) \/ CreateTemp(p) \/ WriteTemp(p)
      PROVE  UNCHANGED Ledger!vars
  BY <1>9 DEF Start, Acquire, OpenLock, Lock, Prepare, Load, CreateTemp, WriteTemp
<1>10. CASE UNCHANGED vars
  BY <1>10 DEF vars
<1>11. QED
  BY <1>1, <1>2, <1>3, <1>4, <1>5, <1>6, <1>7, <1>8, <1>9, <1>10 DEF Next, Proceed

\* Provided that no append leaves a partial line and no directory fsync fails, the
\* locked, multi-step, crash-prone store behaves as the ledger: each mutation takes
\* effect at one instant, on the corpus of that instant, and stays once answered.
THEOREM Implementation ==
  ASSUME "torn" \notin Faults, "sync" \notin Faults
  PROVE  Spec => KeepsPromise
<1>1. Init => Ledger!Init
  BY DEF Init, Ledger!Init
<1>2. StoreInv /\ TombInv /\ [Next]_vars => [Ledger!Next]_(Ledger!vars)
  BY StepKeepsPromise
<1>3. QED
  BY <1>1, <1>2, TombInvariant, PTL DEF Spec, KeepsPromise, Ledger!Spec
===============================================================================
