-------------------------------- MODULE RecordLines --------------------------------
(***************************************************************************)
(* The lines of memory.jsonl: what to_json_line makes of a record, and     *)
(* what record_from_line makes of a line (src/backend/memory/record.rs).   *)
(*                                                                         *)
(* A line is a JSON object, a function from its fields to their values.    *)
(* The session, the source_ref and the quote of a record are left out,     *)
(* they pass through both like the method does, and so are the checks of   *)
(* sizes, times and control characters.  No two lines of a file have the   *)
(* same id.                                                                *)
(***************************************************************************)

Kinds == {"fact", "preference"}
Sources == {"user", "inferred"}
Statuses == {"ACTIVE", "SUPERSEDED"}
Methods == {"explicit", "rule"}     \* Method, a rule without its name

\* The values a field may have that has only a few.
Allowed == [v |-> {1}, kind |-> Kinds, source |-> Sources, status |-> Statuses]

Required == DOMAIN Allowed \cup {"id", "scope", "pinned", "content", "created_at", "updated_at"}

\* An absent key is null, but an absent method is no field at all.
ToJsonLine(record) ==
  LET method == IF record.method = "none" THEN {} ELSE {"method"}
      Value(f) == CASE f = "v" -> 1
                    [] f = "kind" -> record.content.kind
                    [] f = "content" -> record.content.text
                    [] f = "created_at" -> record.created
                    [] f = "updated_at" -> record.updated
                    [] OTHER -> record[f]
  IN  [f \in Required \cup {"key"} \cup method |-> Value(f)]

\* A line of another version, kind or scope is no record; a field nobody knows is no obstacle.
Readable(line, scope) ==
  /\ Required \subseteq DOMAIN line
  /\ \A f \in DOMAIN Allowed : line[f] \in Allowed[f]
  /\ line.scope = scope
  /\ "method" \in DOMAIN line => line.method \in Methods

Optional(line, f) == IF f \in DOMAIN line THEN line[f] ELSE "none"

\* Only for a readable line.
RecordFromLine(line) ==
  [id |-> line.id, key |-> Optional(line, "key"), scope |-> line.scope,
   content |-> [kind |-> line.kind, text |-> line.content],
   source |-> line.source, status |-> line.status, pinned |-> line.pinned,
   created |-> line.created_at, updated |-> line.updated_at,
   method |-> Optional(line, "method")]

LoadRecords(lines, scope) == {RecordFromLine(line) : line \in {l \in lines : Readable(l, scope)}}
=============================================================================
