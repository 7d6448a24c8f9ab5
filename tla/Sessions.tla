-------------------------------- MODULE Sessions --------------------------------
(***************************************************************************)
(* The tabs of the OpenCode adapter (mod.rs), the history it reads into    *)
(* them, and the memory entry it writes into sessions of its own           *)
(* (memory_inject.rs).                                                     *)
(*                                                                         *)
(* The server keeps the messages of every session and announces new        *)
(* sessions and what its agents write on one event stream, without replay. *)
(* Other clients create sessions, prompt and read the same server.  The    *)
(* adapter lists the sessions once, reads the history of a session when it *)
(* is first selected and appends what the stream brings.                   *)
(*                                                                         *)
(* A frame drains the whole channel; since the worker fills it one event   *)
(* at a time, Ingest takes one event, and `coming` is what is written and  *)
(* not yet applied, wherever it is.                                        *)
(***************************************************************************)
EXTENDS Integers, Sequences, FiniteSets

CONSTANTS Ids,          \* session ids of the server
          Locals,       \* ids the adapter makes up (local-0, local-1, ...)
          Versions,     \* of the server
          Supports,     \* the versions that have instruction entries
          MemoryMode,   \* owt.memory: "auto" or "off"
          Corpus,       \* is there anything to inject?
          PageSize, MaxPages,
          Faults,
          MaxMessages,  \* bound: messages, and kinds of faults in one behaviour
          MaxUpsets,    \* bound: ends of the stream, committed reverts
          None

ASSUME IdsAssumption == IsFiniteSet(Ids) /\ Ids \cap Locals = {} /\ None \notin Ids \cup Locals
ASSUME VersionsAssumption == Supports \subseteq Versions
ASSUME MemoryModeAssumption == MemoryMode \in {"auto", "off"} /\ Corpus \in BOOLEAN
ASSUME PagesAssumption == PageSize \in Nat \ {0} /\ MaxPages \in Nat \ {0}
ASSUME FaultsAssumption ==
  Faults \subseteq {"request", \* what the user asks for fails, whether or not the server acted
                    "page",    \* a page of a history cannot be read
                    "inject",  \* the probe or the write of an entry fails
                    "stream",  \* the event stream ends
                    "time"}    \* the capability cache expires, the server is upgraded

VARIABLES
  faults,     \* what goes wrong in this behaviour
  exists,     \* server: sessions
  history,    \* server: the messages of each session
  entries,    \* server: sessions with an owt.memory entry
  version,    \* server
  stream,     \* is the event stream open?
  coming,     \* events on their way
  ui,         \* what the UI thread is doing
  born,       \* the session a request of the UI thread has just created
  summaries,  \* the tabs
  active,     \* index of the tab on the screen
  blocks,     \* the transcripts
  cache,      \* CapabilityCache
  used,       \* ids that were ever given out
  made, upsets,
  newborn,    \* history variable: sessions this client created and has not prompted
  whole       \* history variable: sessions read to the end, no event of which is lost

server == <<faults, exists, history, entries, version, stream, coming, used, made, upsets>>
tabs == <<summaries, active, blocks>>
ghosts == <<newborn, whole>>
vars == <<server, ui, born, tabs, cache, ghosts>>

All == Ids \cup Locals

\* Prompts are not announced; the adapter echoes its own.
Message == [n: 1..MaxMessages, by: {"agent", "here", "there"}]

\* A notice or an error of the adapter itself.
Note == [n |-> 0, by |-> "note"]

Block == Message \cup {Note}

Created(s) == [type |-> "created", session |-> s, message |-> Note]
Written(s, m) == [type |-> "written", session |-> s, message |-> m]
Event == [type: {"created", "written"}, session: Ids, message: Block]

\* The version of a server whose /api/info cannot be read.
NoVersion == ""

Cache == [version: Versions \cup {NoVersion}, supported: BOOLEAN, fresh: BOOLEAN]
NoCache == [version |-> NoVersion, supported |-> FALSE, fresh |-> FALSE]

Known(s) == \E i \in DOMAIN summaries : summaries[i] = s

AppendNew(q, s) == IF \E i \in DOMAIN q : q[i] = s THEN q ELSE Append(q, s)

-------------------------------------------------------------------------------
Init ==
  /\ faults \in {f \in SUBSET Faults : Cardinality(f) < MaxMessages}
  /\ exists \in SUBSET Ids
  /\ used = exists
  /\ history = [s \in All |-> <<>>]
  /\ entries = {} /\ version \in Versions
  /\ stream = FALSE /\ coming = <<>>
  /\ ui = "load" /\ born = None
  /\ summaries = <<>> /\ active = 1
  /\ blocks = [s \in All |-> <<>>]
  /\ cache = NoCache
  /\ made = Cardinality(faults) /\ upsets = 0
  /\ newborn = {} /\ whole = {}

-------------------------------------------------------------------------------
(* The server and its other clients *)

Announced(es) == IF stream THEN coming \o es ELSE coming

CreateElsewhere(s) ==
  /\ s \in Ids \ used
  /\ exists' = exists \cup {s} /\ used' = used \cup {s}
  /\ coming' = Announced(<<Created(s)>>)
  /\ UNCHANGED <<faults, history, entries, version, stream, made, upsets, ui, born, tabs, cache, ghosts>>

\* An agent writes, or another client prompts.
Write(s, by) ==
  /\ s \in exists /\ made < MaxMessages
  /\ made' = made + 1
  /\ LET m == [n |-> made + 1, by |-> by]
     IN /\ history' = [history EXCEPT ![s] = Append(@, m)]
        /\ coming' = IF by = "agent" THEN Announced(<<Written(s, m)>>) ELSE coming
  /\ UNCHANGED <<faults, exists, entries, version, stream, used, upsets, ui, born, tabs, cache, ghosts>>

\* SseWorker (module Connection): the stream is opened some time after connect.
OpenStream ==
  /\ ~stream
  /\ stream' = TRUE
  /\ UNCHANGED <<faults, exists, history, entries, version, coming, used, made, upsets, ui, born, tabs,
                 cache, ghosts>>

DropStream ==
  /\ "stream" \in faults
  /\ stream /\ upsets < MaxUpsets
  /\ upsets' = upsets + 1
  /\ stream' = FALSE
  /\ \E k \in 0..Len(coming) : coming' = SubSeq(coming, 1, k)
  /\ whole' = {}
  /\ UNCHANGED <<faults, exists, history, entries, version, used, made, ui, born, tabs, cache,
                 newborn>>

Upgrade(v) ==
  /\ "time" \in faults
  /\ version' = v
  /\ UNCHANGED <<faults, exists, history, entries, stream, coming, used, made, upsets, ui, born, tabs,
                 cache, ghosts>>

\* CAPABILITY_TTL
Expire ==
  /\ "time" \in faults
  /\ cache' = [cache EXCEPT !.fresh = FALSE]
  /\ UNCHANGED <<server, ui, born, tabs, ghosts>>

-------------------------------------------------------------------------------
(* hydrate_active *)

\* What of a history is read: all, up to the cap on pages; with failing requests only
\* the pages before the failure.
Readable(s) ==
  LET pages == {PageSize * i : i \in 0..MaxPages}
      end == IF Len(history[s]) <= PageSize * MaxPages THEN Len(history[s])
             ELSE PageSize * MaxPages
      cut == IF "page" \in faults \/ s \in Locals
             THEN {k \in pages : k < Len(history[s])} ELSE {}
  IN {SubSeq(history[s], 1, k) : k \in {end} \cup cut}

\* A session is read once: as soon as it has blocks it counts as known.
Hydrate(s) ==
  \E read \in Readable(s) :
    /\ blocks' = IF blocks[s] = <<>> THEN [blocks EXCEPT ![s] = read] ELSE blocks
    /\ whole' = IF blocks[s] = <<>> /\ read = history[s] /\ stream
                THEN whole \cup {s} ELSE whole

-------------------------------------------------------------------------------
(* initial_load *)

\* The order of the list is the server's.
Listed == {q \in [1..Cardinality(exists) -> exists] :
             \A i, j \in DOMAIN q : q[i] = q[j] => i = j}

Load ==
  /\ ui = "load" /\ exists # {}
  /\ \E q \in Listed :
       /\ summaries' = q
       /\ Hydrate(q[1])
  /\ ui' = "ready"
  /\ UNCHANGED <<server, born, active, cache, newborn>>

\* A request that creates a session at the server.
CreateHere(s) ==
  /\ s \in Ids \ used
  /\ exists' = exists \cup {s} /\ used' = used \cup {s}
  /\ coming' = Announced(<<Created(s)>>)

\* Nothing is listed: a session is created, and its tab comes before the injection.
LoadNone(s) ==
  /\ ui = "load" /\ exists = {}
  /\ CreateHere(s)
  /\ summaries' = <<s>>
  /\ ui' = "auto" /\ born' = s
  /\ newborn' = newborn \cup {s}
  /\ UNCHANGED <<faults, history, entries, version, stream, made, upsets, active, blocks, cache,
                 whole>>

\* connect fails, and main exits.
LoadFails ==
  /\ ui = "load" /\ "request" \in faults
  /\ ui' = "failed"
  /\ UNCHANGED <<server, born, tabs, cache, ghosts>>

-------------------------------------------------------------------------------
(* new_session and fork *)

NewSession(s) ==
  /\ ui = "ready"
  /\ CreateHere(s)
  /\ ui' = "new" /\ born' = s
  /\ newborn' = newborn \cup {s}
  /\ UNCHANGED <<faults, history, entries, version, stream, made, upsets, tabs, cache, whole>>

\* The request fails; the id is made up.  The server may have created a session all the same.
NewLocal(l) ==
  /\ ui = "ready" /\ "request" \in faults
  /\ l \in Locals /\ ~Known(l)
  /\ \/ \E s \in Ids : CreateHere(s)
     \/ UNCHANGED <<exists, used, coming>>
  /\ ui' = "new" /\ born' = l
  /\ UNCHANGED <<faults, history, entries, version, stream, made, upsets, tabs, cache, ghosts>>

\* The child has the parent's history, or the messages before one of them.  when_idle and
\* its refusals are those of module Gates.
Fork(s) ==
  /\ ui = "ready" /\ active \in DOMAIN summaries
  /\ LET parent == summaries[active]
     IN /\ parent \in exists
        /\ CreateHere(s)
        /\ \E k \in 0..Len(history[parent]) :
             history' = [history EXCEPT ![s] = SubSeq(history[parent], 1, k)]
        /\ blocks' = [blocks EXCEPT ![parent] = Append(@, Note)]
  /\ summaries' = AppendNew(summaries, s)
  /\ ui' = "fork" /\ born' = s
  /\ newborn' = newborn \cup {s}
  /\ UNCHANGED <<faults, entries, version, stream, made, upsets, active, cache, whole>>

-------------------------------------------------------------------------------
(* memory_inject.rs *)

\* The probe: a throwaway session with a throwaway entry, deleted best-effort; one that
\* stays behind is nobody's.  Its session.created is an event as any other.
Probe(ok) ==
  \/ /\ "inject" \in faults /\ ~ok
     /\ UNCHANGED <<exists, used, coming>>
  \/ \E p \in Ids \ used :
       /\ used' = used \cup {p}
       /\ coming' = Announced(<<Created(p)>>)
       /\ UNCHANGED exists
       /\ IF version \in Supports THEN ok \/ "inject" \in faults ELSE ~ok

\* PUT owt.memory; it may be refused, as too large for instance.
Put(ok) ==
  \/ /\ ok /\ version \in Supports
     /\ entries' = entries \cup {born}
  \/ /\ ok => version \notin Supports \/ "inject" \in faults
     /\ UNCHANGED entries

\* inject_new_session
InjectNewSession ==
  IF MemoryMode = "off" \/ ~Corpus \/ born \in Locals
  THEN UNCHANGED <<exists, used, coming, cache, entries>>
  ELSE \E seen \in {version} \cup IF "inject" \in faults THEN {NoVersion} ELSE {} :
         IF cache.fresh /\ cache.version = seen
         THEN Put(cache.supported) /\ UNCHANGED <<exists, used, coming, cache>>
         ELSE \E ok \in BOOLEAN :
                /\ Probe(ok)
                /\ cache' = [version |-> seen, supported |-> ok, fresh |-> TRUE]
                /\ Put(ok)

\* What is left of initial_load, new_session and fork after the injection.
Inject ==
  /\ InjectNewSession
  /\ \/ /\ ui = "auto"
        /\ Hydrate(born)
        /\ UNCHANGED summaries
     \/ /\ ui = "new"
        /\ summaries' = AppendNew(summaries, born)
        /\ UNCHANGED <<blocks, whole>>
     \/ /\ ui = "fork"
        /\ UNCHANGED <<summaries, blocks, whole>>
  /\ ui' = "ready" /\ born' = None
  /\ UNCHANGED <<faults, history, version, stream, made, upsets, active, newborn>>

-------------------------------------------------------------------------------
(* The user *)

\* Deliberately wrong: the session is read, and its entry brought up to date.
SelectAndInject(i) ==
  /\ ui = "ready" /\ i \in DOMAIN summaries
  /\ active' = i
  /\ Hydrate(summaries[i])
  /\ entries' = entries \cup {summaries[i]}
  /\ UNCHANGED <<faults, exists, history, version, stream, coming, used, made, upsets, ui, born,
                 summaries, cache, newborn>>

\* set_active; leaving a session refreshes its proposals (module Proposals).
Select(i) ==
  /\ ui = "ready" /\ i \in DOMAIN summaries
  /\ active' = i
  /\ Hydrate(summaries[i])
  /\ UNCHANGED <<server, ui, born, summaries, cache, newborn>>

\* submit_prompt: the echo comes first, whatever becomes of the request.
Prompt ==
  /\ ui = "ready" /\ active \in DOMAIN summaries /\ made < MaxMessages
  /\ made' = made + 1
  /\ LET s == summaries[active]
         m == [n |-> made + 1, by |-> "here"]
     IN /\ \/ /\ s \in exists
              /\ history' = [history EXCEPT ![s] = Append(@, m)]
              /\ newborn' = newborn \ {s}
              /\ \/ blocks' = [blocks EXCEPT ![s] = Append(@, m)]
                 \/ "request" \in faults /\ blocks' = [blocks EXCEPT ![s] = @ \o <<m, Note>>]
           \/ /\ s \notin exists \/ "request" \in faults
              /\ blocks' = [blocks EXCEPT ![s] = @ \o <<m, Note>>]
              /\ UNCHANGED <<history, newborn>>
  /\ UNCHANGED <<faults, exists, entries, version, stream, coming, used, upsets, ui, born, summaries,
                 active, cache, whole>>

\* do_commit_revert, of a boundary staged before (module Gates): the transcript becomes
\* one notice, and hydrate_active then takes it for a known session.
CommitRevert(k) ==
  /\ ui = "ready" /\ active \in DOMAIN summaries
  /\ LET s == summaries[active]
     IN /\ s \in exists /\ k \in 0..Len(history[s]) - 1
        /\ upsets < MaxUpsets
        /\ \/ /\ history' = [history EXCEPT ![s] = SubSeq(@, 1, k)]
              /\ blocks' = [blocks EXCEPT ![s] = <<Note>>]
              /\ whole' = whole \ {s}
           \/ /\ "request" \in faults
              /\ history' \in {history, [history EXCEPT ![s] = SubSeq(@, 1, k)]}
              /\ blocks' = [blocks EXCEPT ![s] = Append(@, Note)]
              /\ UNCHANGED whole
  /\ upsets' = upsets + 1
  /\ UNCHANGED <<faults, exists, entries, version, stream, coming, used, made, ui, born,
                 summaries, active, cache, newborn>>

-------------------------------------------------------------------------------
(* ingest and apply_raw *)

\* Deliberately wrong: a session that was announced gets a tab even if it has one.
ShowTwice(e) == IF e.type = "created" THEN Append(summaries, e.session) ELSE summaries

Show(e) == IF e.type = "created" THEN AppendNew(summaries, e.session) ELSE summaries

\* Deliberately wrong: only a session that has blocks takes an event.
ApplyIfAny(e) ==
  IF e.type = "written" /\ blocks[e.session] # <<>>
  THEN [blocks EXCEPT ![e.session] = Append(@, e.message)] ELSE blocks

\* A session that was never selected takes its events as any other.
Apply(e) ==
  IF e.type = "written"
  THEN [blocks EXCEPT ![e.session] = Append(@, e.message)] ELSE blocks

Ingest ==
  /\ ui = "ready" /\ coming # <<>>
  /\ summaries' = Show(Head(coming))
  /\ blocks' = Apply(Head(coming))
  /\ coming' = Tail(coming)
  /\ UNCHANGED <<faults, exists, history, entries, version, stream, used, made, upsets, ui, born,
                 active, cache, ghosts>>

-------------------------------------------------------------------------------
Next ==
  \/ \E s \in Ids : \/ CreateElsewhere(s) \/ Write(s, "agent") \/ Write(s, "there")
                     \/ LoadNone(s) \/ NewSession(s) \/ Fork(s)
  \/ OpenStream \/ DropStream \/ Expire
  \/ \E v \in Versions : Upgrade(v)
  \/ Load \/ LoadFails \/ Inject \/ Prompt \/ Ingest
  \/ \E l \in Locals : NewLocal(l)
  \/ \E i \in 1..Cardinality(All) : Select(i)
  \/ \E k \in 0..MaxMessages : CommitRevert(k)

Spec == Init /\ [][Next]_vars

-------------------------------------------------------------------------------
(* Correctness *)

\* A session has one tab, whoever is first to show it: the list, the request that
\* created it, or its session.created, which may be that of a probe; and the tab on the
\* screen is one of them (initial_load, new_session, fork, apply_raw).
OneTabPerSession ==
  /\ \A i, j \in DOMAIN summaries : summaries[i] = summaries[j] => i = j
  /\ ui = "ready" => active \in DOMAIN summaries

\* "Inline PUT before the id escapes - no first prompt can precede it": an entry is only
\* written into a session this client has created and not yet prompted, and once written
\* it stays as it is (inject_new_session, hooks in initial_load, new_session and fork).
InjectedAtBirth ==
  [][entries' # entries =>
       \E s \in newborn \ entries : entries' = entries \cup {s}]_vars

\* Reading a history and following the stream leave no hole between them: what an agent
\* wrote or this user sent, before or after a session was read to its end, is in its
\* transcript or on its way, as long as the stream holds (hydrate_active, ingest).
NothingLost ==
  \A s \in whole : \A i \in DOMAIN history[s] :
    history[s][i].by # "there" =>
      \/ \E j \in DOMAIN blocks[s] : blocks[s][j] = history[s][i]
      \/ \E j \in DOMAIN coming : coming[j] = Written(s, history[s][i])

===============================================================================
