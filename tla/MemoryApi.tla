-------------------------------- MODULE MemoryApi --------------------------------
(***************************************************************************)
(* The memory engine as /memory commands and new sessions use it           *)
(* (src/backend/memory/api.rs, memory_reply in opencode/mod.rs): several   *)
(* processes, each with both scope stores open, over shared corpora.       *)
(*                                                                         *)
(* A mutation of one store is one step, which is what MemoryStore shows of *)
(* it; a read takes no lock, and a command over both scopes reads the      *)
(* user store first and the project store later.                           *)
(***************************************************************************)
EXTENDS Commands, Selection, RecordLines

CONSTANTS Procs,
          Lines,      \* the lines the users type
          Found,      \* lines of the user store that are older than these processes
          Queued,     \* proposals that may be in the queues of the scopes
          MaxId,      \* bound: records ever stored
          MaxReaders, \* bound: commands that read at the same time
          MaxTime     \* bound: seconds that pass

VARIABLES file,       \* the lines of memory.jsonl of each scope
          corpus,     \* history: the records as the commands have made them
          lastId,     \* newest id of a stored record
          now,        \* the clock, in seconds
          opened,     \* what each process could open: both stores, the user
                      \* store, or none
          pc, cmd,    \* the command each process is at
          got,        \* records a read command has collected
          reply,      \* answer to its last command
          during      \* history: records some state, and all states, of the
                      \* current command held

vars == <<file, corpus, lastId, now, opened, pc, cmd, got, reply, during>>

Scopes == {"user", "project"}

Store == INSTANCE MemoryRecords WITH NoKey <- "none", PinFlags <- BOOLEAN,
                                     Nothing <- "nothing", Contents <- {}

Typed == {Parse(line) : line \in Lines}

NewSession == [verb |-> "inject", scope |-> "default"]

AllRecords == corpus["user"] \cup corpus["project"]

Stored(s) == LoadRecords(file[s], s)

\* A line is made of the tokens that the parser tells apart.
ASSUME LinesAssumption == \A line \in Lines : line.tokens \in Seq(Token)

\* The records that were there before have ids of their own, older than those to come.
ASSUME FoundAssumption ==
  LET old == LoadRecords(Found, "user")
  IN  /\ IsFiniteSet(old)
      /\ Store!DistinctIds(old)
      /\ \A r \in old : /\ r.id \in Int /\ r.id <= 0
                        /\ r.content.text \in Seq(Token)
                        /\ {r.created, r.updated} \subseteq Int

\* Whatever a queue holds, a proposal has a scope, a kind and a text.
ASSUME QueuedAssumption ==
  \A q \in Queued : q.scope \in Scopes /\ q.kind \in Kinds /\ q.text \in Seq(Token)

\* What may be where a store directory is expected; ensure_dir takes or makes a
\* directory and refuses anything else.
Places == {"nothing", "directory", "link", "file"}
EnsureDir(place) == place \in {"nothing", "directory"}

\* Without the user store there is no memory; without a project store only the
\* user's.
Open(user, project) ==
  IF ~EnsureDir(user) THEN "none" ELSE IF EnsureDir(project) THEN "both" ELSE "user"

Usable(p, s) == IF s = "user" THEN opened[p] # "none" ELSE opened[p] = "both"

-------------------------------------------------------------------------------
Init ==
  /\ file = [s \in Scopes |-> IF s = "user" THEN Found ELSE {}]
  /\ corpus = [s \in Scopes |-> Stored(s)]
  /\ lastId = 0
  /\ now = 0
  /\ \E user, project \in [Procs -> Places] :
       opened = [p \in Procs |-> Open(user[p], project[p])]
  /\ pc = [p \in Procs |-> "idle"]
  /\ cmd = [p \in Procs |-> NewSession]
  /\ got = [p \in Procs |-> {}]
  /\ reply = [p \in Procs |-> [is |-> "none"]]
  /\ during = [p \in Procs |-> [some |-> {}, every |-> {}]]

Answer(p, answer) ==
  /\ reply' = [reply EXCEPT ![p] = answer]
  /\ pc' = [pc EXCEPT ![p] = "idle"]
  /\ cmd' = [cmd EXCEPT ![p] = NewSession]
  /\ got' = [got EXCEPT ![p] = {}]

Error(p, why) == Answer(p, [is |-> "error", why |-> why])

-------------------------------------------------------------------------------
\* A refused shape of secret anywhere in the content.
Scan(text) == IF \E i \in DOMAIN text : text[i].is = "word" /\ text[i].val = "bad"
              THEN "refused" ELSE "none"

\* Default writes go to the user store, and so do forgets and pins: no command
\* line asks them to look in both.
WriteTarget(scope) == IF scope = "project" THEN "project" ELSE "user"

\* The records that a call does not write; a pin is written whatever it was before.
Untouched(records, call) ==
  IF call.verb = "pin" THEN records \ {Store!Target(records, call.handle)} ELSE records

\* What the store writes has the time of the write, in the record it replaces too.
Stamped(before, after) ==
  (before \cap after) \cup {[r EXCEPT !.updated = now] : r \in after \ before}

Refuse(p, why) == Error(p, why) /\ UNCHANGED <<file, corpus, lastId>>

Mutate(p, s, call) ==
  LET verdict == IF Usable(p, s) THEN Store!Verdict(Stored(s), call) ELSE "unavailable"
      After(records) == Stamped(Untouched(records, call), Store!Apply(records, call))
  IN  IF verdict # "ok" THEN Refuse(p, verdict)
      ELSE /\ file' = [file EXCEPT ![s] = {ToJsonLine(r) : r \in After(Stored(s))}]
           /\ corpus' = [corpus EXCEPT ![s] = After(@)]
           /\ lastId' = IF "new" \in DOMAIN call THEN lastId + 1 ELSE lastId
           /\ Answer(p, [is |-> "done", scope |-> s])

NewRecord(new, method) ==
  [id |-> lastId + 1, key |-> new.key, status |-> "ACTIVE", scope |-> WriteTarget(new.scope),
   content |-> [kind |-> new.kind, text |-> new.text], source |-> "user", method |-> method,
   pinned |-> new.pinned, created |-> now, updated |-> now]

\* Deliberately wrong: only a new memory is scanned, not the update of one.
KeepScansNew(p, verb, new, method) ==
  IF verb = "remember" /\ Scan(new.text) = "refused" THEN Refuse(p, "refused")
  ELSE Mutate(p, WriteTarget(new.scope), [verb |-> verb, new |-> NewRecord(new, method)])

\* remember and update of the api: the content is scanned before anything is changed.
Keep(p, verb, new, method) ==
  IF Scan(new.text) = "refused" THEN Refuse(p, "refused")
  ELSE Mutate(p, WriteTarget(new.scope), [verb |-> verb, new |-> NewRecord(new, method)])

Write(p, c) ==
  /\ pc[p] = "idle"
  /\ c.verb \in {"remember", "update"}
  /\ lastId < MaxId
  /\ Keep(p, c.verb, c, "none")
  /\ UNCHANGED <<now, opened>>

\* The memory that a confirmed proposal becomes.
Confirmed(c, proposal) ==
  [key |-> "none", pinned |-> FALSE, text |-> proposal.text,
   kind |-> IF c.kind = "proposed" THEN proposal.kind ELSE c.kind,
   scope |-> IF c.scope = "proposed" THEN proposal.scope ELSE c.scope]

\* confirm_proposal: the text is scanned again, because a queue is not trusted, and once
\* more when it is remembered.  The proposal may be gone, forgotten since, or stored already
\* when the corpus was read, which another process may have changed by the time of the
\* write: module Proposals has the queues, the tombstones and the steps of that.
Confirm(p, c, proposal) ==
  /\ pc[p] = "idle"
  /\ c.verb = "confirm"
  /\ lastId < MaxId
  /\ \/ Refuse(p, "notfound")
     \/ /\ Usable(p, proposal.scope) /\ Scan(proposal.text) = "refused"
        /\ Refuse(p, "refused")
     \/ /\ Usable(p, proposal.scope) /\ Scan(proposal.text) # "refused"
        /\ \/ Answer(p, [is |-> "confirm"]) /\ UNCHANGED <<file, corpus, lastId>>
           \/ Keep(p, "remember", Confirmed(c, proposal), "rule")
  /\ UNCHANGED <<now, opened>>

\* forget, set_pinned.
Address(p, c) ==
  /\ pc[p] = "idle"
  /\ c.verb \in {"forget", "pin", "unpin"}
  /\ Mutate(p, WriteTarget(c.scope),
            IF c.verb = "forget" THEN [verb |-> "forget", handle |-> c.handle]
            ELSE [verb |-> "pin", handle |-> c.handle, pinned |-> c.verb = "pin"])
  /\ UNCHANGED <<now, opened>>

\* Usage errors, the help, and what else there is to do with proposals (module
\* Proposals) leave the corpora alone.
Reply(p, c) ==
  /\ pc[p] = "idle"
  /\ c.verb \in {"error", "help", "suggest", "discard"}
  /\ Answer(p, [is |-> c.verb])
  /\ UNCHANGED <<file, corpus, lastId, now, opened>>

-------------------------------------------------------------------------------
\* A list, a show, or the creation of a session, which injects what it reads.
StartRead(p, c) ==
  /\ pc[p] = "idle"
  /\ c.verb \in {"list", "show", "inject"}
  /\ Cardinality({q \in Procs : pc[q] # "idle"}) < MaxReaders
  /\ pc' = [pc EXCEPT ![p] = "read"]
  /\ cmd' = [cmd EXCEPT ![p] = c]
  /\ reply' = [reply EXCEPT ![p] = [is |-> "none"]]
  /\ UNCHANGED <<file, corpus, lastId, now, opened, got>>

\* The records a read command asks for.
Matching(c, records) ==
  CASE c.verb = "list" ->
         {r \in records : /\ r.status = "ACTIVE"
                          /\ c.kind \in {"any", r.content.kind}
                          /\ c.pinned => r.pinned}
    [] c.verb = "show" /\ c.handle.by = "id" -> {r \in records : r.id = c.handle.value}
    [] c.verb = "show" /\ c.handle.by = "key" ->
         {r \in records : r.key = c.handle.value /\ (c.all \/ r.status = "ACTIVE")}
    [] OTHER -> {r \in records : r.status = "ACTIVE"}

\* A session that gets no memory, because there is none or it cannot be read,
\* gets no entry.
AnswerRead(p, records) ==
  LET verb == cmd[p].verb
  IN  Answer(p, [is |-> verb,
                 records |-> CASE verb = "list" -> OrderActive(records)
                               [] verb = "show" -> OrderShow(records)
                               [] OTHER -> Select(OrderActive(records))])

\* The first read, of the one scope that was asked for or of the user's.
Read(p) ==
  /\ pc[p] = "read"
  /\ LET c == cmd[p]
         s == WriteTarget(c.scope)
         found == Matching(c, Stored(s))
     IN  IF opened[p] = "none" \/ ~Usable(p, s) THEN Error(p, "unavailable")
         ELSE IF c.scope = "default" /\ opened[p] = "both"
              THEN /\ got' = [got EXCEPT ![p] = found]
                   /\ pc' = [pc EXCEPT ![p] = "project"]
                   /\ UNCHANGED <<cmd, reply>>
              ELSE AnswerRead(p, found)
  /\ UNCHANGED <<file, corpus, lastId, now, opened>>

\* Deliberately wrong: the second read replaces the first.
ReadProjectAlone(p) ==
  /\ pc[p] = "project"
  /\ AnswerRead(p, Matching(cmd[p], Stored("project")))
  /\ UNCHANGED <<file, corpus, lastId, now, opened>>

ReadProject(p) ==
  /\ pc[p] = "project"
  /\ AnswerRead(p, got[p] \cup Matching(cmd[p], Stored("project")))
  /\ UNCHANGED <<file, corpus, lastId, now, opened>>

\* A store that cannot be read or written at the moment: an error in-band.
Fails(p) ==
  /\ pc[p] # "idle"
  /\ Error(p, "failed")
  /\ UNCHANGED <<file, corpus, lastId, now, opened>>

Tick ==
  /\ now < MaxTime
  /\ now' = now + 1
  /\ UNCHANGED <<file, corpus, lastId, opened, pc, cmd, got, reply>>

-------------------------------------------------------------------------------
\* History of the records that a command in progress could have seen.
Watch ==
  during' = [p \in Procs |->
    CASE pc'[p] \notin {"read", "project"} -> [some |-> {}, every |-> {}]
      [] pc[p] = "idle" -> [some |-> AllRecords, every |-> AllRecords]
      [] OTHER -> [some |-> during[p].some \cup AllRecords',
                   every |-> during[p].every \cap AllRecords']]

Next ==
  /\ \/ \E p \in Procs : \/ \E c \in Typed : \/ Write(p, c) \/ Address(p, c)
                                             \/ StartRead(p, c) \/ Reply(p, c)
                                             \/ \E q \in Queued : Confirm(p, c, q)
                         \/ StartRead(p, NewSession)
                         \/ Read(p) \/ ReadProject(p)
                         \/ Fails(p)
     \/ Tick
  /\ Watch

Spec == Init /\ [][Next]_vars

-------------------------------------------------------------------------------
\* What a list or a show over both scopes answers is not a snapshot, but every
\* record in it was there while the command ran, with the contents, the state
\* and the provenance the commands gave it, through every rewrite of the file;
\* and a record that was there all the time is in it (api.rs list, show: two
\* unlocked reads; record.rs to_json_line, record_from_line).
ShownIsTrue ==
  [][\A p \in Procs :
       pc[p] \in {"read", "project"} /\ pc'[p] = "idle" /\ reply'[p].is \in {"list", "show"} =>
         LET c == cmd[p]
             shown == Range(reply'[p].records)
             asked == IF c.scope = "default" /\ opened[p] = "both" THEN Scopes
                      ELSE {WriteTarget(c.scope)}
             In(records) == {r \in records : r.scope \in asked}
         IN  /\ shown \subseteq Matching(c, In(during[p].some))
             /\ Matching(c, In(during[p].every)) \subseteq shown]_vars

\* The block of a new session fits both budgets, and what was left out of it
\* never outranks what is in it: no unpinned memory is injected while a pinned
\* one that the session could see is not (budget.rs select).
InjectionFits ==
  [][\A p \in Procs :
       pc[p] \in {"read", "project"} /\ pc'[p] = "idle" /\ reply'[p].is = "inject" =>
         LET block == reply'[p].records
             left  == {r \in during[p].every : r.status = "ACTIVE"} \ Range(block)
         IN  /\ Chars(block) <= BudgetChars
             /\ EncodedSize(block) <= MaxEncoded
             /\ \A r \in left, b \in Range(block) :
                  r.pinned /\ (r.scope = "user" \/ opened[p] = "both") => b.pinned]_vars

\* No record holds content that the secret policy refuses, whichever command
\* and scope it came by, typed or confirmed from a queue, whatever is in the queue
\* (secret.rs scan, api.rs remember and update, triage.rs confirm_proposal).
NoSecretStored ==
  \A s \in Scopes : \A r \in Stored(s) : Scan(r.content.text) # "refused"

===============================================================================
