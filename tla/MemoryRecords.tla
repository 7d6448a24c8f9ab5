------------------------------ MODULE MemoryRecords ------------------------------
(***************************************************************************)
(* The memory corpus of one scope and the pure part of every mutation:     *)
(* what the closures handed to run_exclusive compute from the records they *)
(* loaded (src/backend/memory/store.rs).                                   *)
(*                                                                         *)
(* A corpus is a SET of records.  The file keeps them in a sequence, but   *)
(* the order only decides which of two matching records `position` finds,  *)
(* and at most one ever matches: see OneActivePerKey and UniqueIds.        *)
(***************************************************************************)
EXTENDS FiniteSets

CONSTANTS Keys,         \* normalised memory keys
          NoKey,        \* a record without a key (Option::None)
          Ids,          \* record ids, the results of generate_id
          Contents,     \* canonical identities: a kind and a normalised statement
          PinFlags,     \* values of the pinned flag that callers use
          Nothing       \* absent value: no call, no content, no process

ASSUME NoKeyAssumption == NoKey \notin Keys
ASSUME PinFlagsAssumption == PinFlags \subseteq BOOLEAN

-------------------------------------------------------------------------------
Record == [id: Ids, key: Keys \cup {NoKey}, content: Contents,
           status: {"ACTIVE", "SUPERSEDED"}, pinned: PinFlags]

\* What validate() and from_new make of a new memory: always ACTIVE.
NewRecord == {r \in Record : r.status = "ACTIVE"}

Handle == [by: {"key"}, value: Keys] \cup [by: {"id"}, value: Ids]

\* The mutations of the MemoryStore trait, with their arguments.
Call == [verb: {"remember"}, new: NewRecord]
          \cup [verb: {"update"}, new: {r \in NewRecord : r.key # NoKey}]
          \cup [verb: {"forget"}, handle: Handle]
          \cup [verb: {"pin"}, handle: Handle, pinned: PinFlags]

-------------------------------------------------------------------------------
ActiveWithKey(records, k) ==
  {r \in records : r.status = "ACTIVE" /\ r.key = k /\ k # NoKey}

WithId(records, i) == {r \in records : r.id = i}

\* The records a handle may resolve to: an exact key among the ACTIVE ones, an
\* exact id among the ACTIVE ones, else an exact id in the history.
Resolve(records, handle) ==
  IF handle.by = "key"
  THEN ActiveWithKey(records, handle.value)
  ELSE LET live == {r \in WithId(records, handle.value) : r.status = "ACTIVE"}
       IN  IF live # {} THEN live ELSE WithId(records, handle.value)

\* The answer of a call that the current records do not allow, "ok" otherwise.
Verdict(records, call) ==
  CASE call.verb \in {"forget", "pin"} ->
         IF Resolve(records, call.handle) = {} THEN "notfound" ELSE "ok"
    [] call.verb = "update" /\ ActiveWithKey(records, call.new.key) = {} -> "notfound"
    [] OTHER ->
         IF WithId(records, call.new.id) # {} THEN "conflict" ELSE "ok"

\* Deliberately wrong: the record it replaces stays ACTIVE.
AddOnly(records, new) == records \cup {new}

\* remember and update: the one ACTIVE record that `position` finds under the
\* key stays in the file as SUPERSEDED, and the new record is added.
WriteNew(records, new) ==
  LET olds == ActiveWithKey(records, new.key)
      old  == CHOOSE r \in olds : TRUE
  IN  IF olds = {} THEN records \cup {new}
      ELSE (records \ {old}) \cup {[old EXCEPT !.status = "SUPERSEDED"], new}

\* The record a forget or a pin addresses.
Target(records, handle) == CHOOSE r \in Resolve(records, handle) : TRUE

\* Deliberately wrong: pinning a record brings it back to life.
PinRevives(records, call) ==
  CASE call.verb \in {"remember", "update"} -> WriteNew(records, call.new)
    [] call.verb = "forget" -> records \ {Target(records, call.handle)}
    [] OTHER -> LET r == Target(records, call.handle)
                IN  (records \ {r}) \cup {[r EXCEPT !.pinned = call.pinned,
                                                   !.status = "ACTIVE"]}

\* The next corpus, for a call whose verdict is "ok".
Apply(records, call) ==
  CASE call.verb \in {"remember", "update"} -> WriteNew(records, call.new)
    [] call.verb = "forget" -> records \ {Target(records, call.handle)}
    [] OTHER -> LET r == Target(records, call.handle)
                IN  (records \ {r}) \cup {[r EXCEPT !.pinned = call.pinned]}

-------------------------------------------------------------------------------
OneActive(records) ==
  \A r, s \in records :
     /\ r.status = "ACTIVE"
     /\ s.status = "ACTIVE"
     /\ r.key = s.key
     /\ r.key # NoKey
     => r = s

DistinctIds(records) == \A r, s \in records : r.id = s.id => r = s
===============================================================================
