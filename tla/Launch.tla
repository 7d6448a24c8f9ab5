---------------------------------- MODULE Launch ----------------------------------
(***************************************************************************)
(* The program from its start to its end (main.rs, connect of mod.rs), the *)
(* private server it may own (config.rs) and the thread that reads the     *)
(* event stream (events.rs).                                               *)
(*                                                                         *)
(* The stream is a sequence of lines.  A payload may be spread over two    *)
(* data lines; a line is "whole", "head" or "tail" of a payload, a blank,  *)
(* a comment (the server's heartbeat) or a field other than data.  How     *)
(* long the thread sleeps between attempts is left out.  Module Connection *)
(* has what is made of the events, module Sessions what initial_load does. *)
(***************************************************************************)
EXTENDS Integers, Sequences, SequencesExt

CONSTANTS MaxLines,     \* bound: lines of all streams
          MaxStreams    \* bound: streams

ASSUME BoundsAssumption == MaxLines \in Nat /\ MaxStreams \in Nat \ {0}

Data == {"whole", "head", "tail"}
Enders == {"blank", "comment"}
Lines == Data \cup Enders \cup {"field"}

VARIABLES
  main,     \* of the main thread: what it does
  kind,     \* ConnectionKind, "none" until there is one
  server,   \* the private server: "none", "started", "chatty" (never says its address),
            \* "ready", "gone" (by itself), "reaped"
  late,     \* the 20 seconds of spawn are over
  worker,   \* of the SseWorker: what it does
  shutdown, \* its flag
  announced, pending,
  channel,  \* all that was ever sent
  receiver, \* is there one?
  heard     \* history variable: the lines of every stream

thread == <<worker, announced, pending, channel, heard>>
vars == <<main, kind, server, late, shutdown, receiver, thread>>

Alive == server \in {"started", "chatty", "ready"}

-------------------------------------------------------------------------------
(* parse_sse_chunked *)

\* Of a payload, its data lines; the other payloads are no JSON.
Envelope(data) == data \in {<<"whole">>, <<"head", "tail">>}

Flushed(p) ==
  [data |-> <<>>, events |-> IF Envelope(p.data) THEN Append(p.events, p.data) ELSE p.events]

\* Any line but one of data ends the payload.
ParseLine(p, line) ==
  IF line \in Data THEN [p EXCEPT !.data = Append(@, line)] ELSE Flushed(p)

Parsed(lines) ==
  LET after[n \in 0..Len(lines)] ==
        IF n = 0 THEN [data |-> <<>>, events |-> <<>>] ELSE ParseLine(after[n - 1], lines[n])
  IN after[Len(lines)]

ParseSse(lines) == Flushed(Parsed(lines)).events

-------------------------------------------------------------------------------
Init ==
  /\ main = "start" /\ kind = "none" /\ server = "none" /\ late = FALSE
  /\ worker = "none" /\ shutdown = FALSE /\ announced = FALSE
  /\ pending = <<>> /\ channel = <<>> /\ receiver = FALSE /\ heard = <<>>

-------------------------------------------------------------------------------
(* Calls *)

\* What comes of a call: the transport fails, or there is a status and a body.
NoResponse == [status |-> 0, body |-> "empty"]
Responses == {NoResponse} \cup [status: {200, 204, 401, 500}, body: {"json", "empty", "other"}]

\* The client takes an empty body for a null.  What the body of an answer says about the
\* health of the server is not looked at.
Request(response) ==
  CASE response = NoResponse -> "transport"
    [] response # NoResponse /\ response.status \notin 200..299 -> "status"
    [] response.status \in 200..299 /\ response.body = "other" -> "json"
    [] OTHER -> "ok"

\* A server of one's own may answer while it runs, also one whose address was not read: it
\* is then called at the port that was chosen for it.
Answers(own) == IF own /\ ~Alive THEN {NoResponse} ELSE Responses
Health(own) == {Request(response) : response \in Answers(own)}

\* The fields that are found in service.json, which may be missing.  Without a password,
\* be it an empty one, the server is not found.
Registrations == SUBSET {"url", "password"}
ReadServiceRegistration(service) == service = {"url", "password"}

-------------------------------------------------------------------------------
(* The main thread *)

\* --backend: the scripted one, or one that does not exist.
StartWithout ==
  /\ main = "start"
  /\ main' \in {"run", "failed"}
  /\ UNCHANGED <<kind, server, late, shutdown, receiver, thread>>

\* resolve_endpoint: what is configured, or a registered server that answers ...
Resolve ==
  /\ main = "start"
  /\ main' = "verify"
  /\ \/ kind' = "explicit"
     \/ \E service \in Registrations, result \in Health(FALSE) :
          ReadServiceRegistration(service) /\ result = "ok" /\ kind' = "discovered"
  /\ UNCHANGED <<server, late, shutdown, receiver, thread>>

\* ... or a server of one's own: without a binary or a port there is none.
SpawnFails ==
  /\ main = "start"
  /\ main' = "failed"
  /\ UNCHANGED <<kind, server, late, shutdown, receiver, thread>>

Spawn ==
  /\ main = "start"
  /\ main' = "listen" /\ server' \in {"started", "chatty"}
  /\ UNCHANGED <<kind, late, shutdown, receiver, thread>>

\* A line with an address; the wait is over.
ReadAddress ==
  /\ main = "listen" /\ server = "started"
  /\ main' = "probe" /\ server' = "ready"
  /\ UNCHANGED <<kind, late, shutdown, receiver, thread>>

\* Deliberately wrong: the clock is not looked at.
ReadOnAnyway == main' = main

ReadOn == main' = IF late THEN "probe" ELSE main

\* Another line: only then is the clock looked at.
ReadOther ==
  /\ main = "listen" /\ Alive
  /\ ReadOn
  /\ UNCHANGED <<kind, server, late, shutdown, receiver, thread>>

ReadEnd ==
  /\ main = "listen" /\ server = "gone"
  /\ main' = "probe"
  /\ UNCHANGED <<kind, server, late, shutdown, receiver, thread>>

TimePasses ==
  /\ main = "listen" /\ ~late
  /\ late' = TRUE
  /\ UNCHANGED <<main, kind, server, shutdown, receiver, thread>>

\* Deliberately wrong: the server that does not answer is left to itself.
GiveUpKeeps == main' = "failed" /\ UNCHANGED server

\* The server that was spawned is dropped with the function.
GiveUp ==
  /\ main' = "failed"
  /\ server' = IF server = "none" THEN server ELSE "reaped"

\* The two calls of health, before and after there is a ConnectionKind.
Probe ==
  /\ main = "probe"
  /\ \E result \in Health(TRUE) :
       IF result = "ok" THEN main' = "verify" /\ kind' = "spawned" /\ UNCHANGED server
                        ELSE GiveUp /\ UNCHANGED kind
  /\ UNCHANGED <<late, shutdown, receiver, thread>>

Verify ==
  /\ main = "verify"
  /\ \E result \in Health(kind = "spawned") :
       IF result = "ok"
       THEN /\ main' = "load" /\ UNCHANGED server
            /\ worker' = "open" /\ receiver' = TRUE
       ELSE GiveUp /\ UNCHANGED <<worker, receiver>>
  /\ UNCHANGED <<kind, late, shutdown, announced, pending, channel, heard>>

\* initial_load may fail; the backend is then dropped as it is at the end.
Load ==
  /\ main = "load"
  /\ main' \in {"run", "drop"}
  /\ UNCHANGED <<kind, server, late, shutdown, receiver, thread>>

Quit ==
  /\ main = "run"
  /\ main' = IF kind = "none" THEN "ended" ELSE "drop"
  /\ UNCHANGED <<kind, server, late, shutdown, receiver, thread>>

\* The fields of the backend go in their order: the receiver, the worker, the server.
DropReceiver ==
  /\ main = "drop"
  /\ main' = "join" /\ receiver' = FALSE /\ shutdown' = TRUE
  /\ UNCHANGED <<kind, server, late, thread>>

Join ==
  /\ main = "join" /\ worker = "done"
  /\ main' = "ended"
  /\ server' = IF server = "none" THEN server ELSE "reaped"
  /\ UNCHANGED <<kind, late, shutdown, receiver, thread>>

\* The private server ends by itself.
ServerEnds ==
  /\ Alive
  /\ server' = "gone"
  /\ UNCHANGED <<main, kind, late, shutdown, receiver, thread>>

-------------------------------------------------------------------------------
(* SseWorker *)

Rest == UNCHANGED <<main, kind, server, late, shutdown, receiver>>

\* Without a receiver the thread ends, and what was to be sent is lost.
Send(events, next) ==
  IF receiver \/ events = <<>>
  THEN channel' = channel \o events /\ worker' = next
  ELSE UNCHANGED channel /\ worker' = "done"

OpenFails ==
  /\ worker = "open"
  /\ worker' = "sleep"
  /\ UNCHANGED <<announced, pending, channel, heard>> /\ Rest

Open ==
  /\ worker = "open" /\ Len(heard) < MaxStreams
  /\ kind # "spawned" \/ Alive
  /\ Send(IF announced THEN <<"restored">> ELSE <<>>, "read")
  /\ announced' = FALSE /\ pending' = <<>> /\ heard' = Append(heard, <<>>)
  /\ Rest

\* Deliberately wrong: an open stream is read to its end.
StopsOnlyBetween == FALSE

StopsReading == shutdown

\* Deliberately wrong: what was handed to the parser stays.
PendingKept(line) == pending' = Append(pending, line)

PendingTaken(line) == pending' = IF line \in Enders THEN <<>> ELSE Append(pending, line)

\* The flag is looked at when a line has come.  A blank or a comment hands what has
\* been collected to the parser.
ReadLine(line) ==
  /\ worker = "read"
  /\ kind # "spawned" \/ Alive
  /\ IF StopsReading
     THEN worker' = "done" /\ UNCHANGED <<channel, pending, heard>>
     ELSE /\ Len(FlattenSeq(heard)) < MaxLines
          /\ heard' = [heard EXCEPT ![Len(heard)] = Append(@, line)]
          /\ Send(IF line \in Enders THEN ParseSse(pending) ELSE <<>>, "read")
          /\ PendingTaken(line)
  /\ UNCHANGED announced /\ Rest

StreamEnds ==
  /\ worker = "read"
  /\ Send(<<"lost">>, "sleep")
  /\ announced' = TRUE
  /\ UNCHANGED <<pending, heard>> /\ Rest

Wake ==
  /\ worker = "sleep"
  /\ worker' = IF shutdown THEN "done" ELSE "open"
  /\ UNCHANGED <<announced, pending, channel, heard>> /\ Rest

-------------------------------------------------------------------------------
Next ==
  \/ StartWithout \/ Resolve \/ SpawnFails \/ Spawn
  \/ ReadAddress \/ ReadOther \/ ReadEnd \/ TimePasses \/ Probe \/ Verify \/ Load
  \/ Quit \/ DropReceiver \/ Join \/ ServerEnds
  \/ Open \/ OpenFails \/ StreamEnds \/ Wake
  \/ \E line \in Lines : ReadLine(line)

\* The main thread takes its steps, but for the user's; a server that was started writes
\* lines or ends; a stream brings heartbeats, or ends, and an attempt to open one is
\* answered.
Fairness ==
  /\ WF_vars(Resolve \/ Spawn \/ SpawnFails \/ StartWithout)
  /\ WF_vars(ReadAddress \/ ReadOther \/ ReadEnd) /\ WF_vars(TimePasses)
  /\ WF_vars(Probe) /\ WF_vars(Verify) /\ WF_vars(Load)
  /\ WF_vars(DropReceiver) /\ WF_vars(Join)
  /\ WF_vars(Open \/ OpenFails) /\ WF_vars(Wake)
  /\ WF_vars(ReadLine("comment") \/ (StreamEnds /\ ~(kind # "spawned" \/ Alive)))

Spec == Init /\ [][Next]_vars /\ Fairness

-------------------------------------------------------------------------------
(* Properties *)

\* PrivateServer is "killed on drop" (config.rs): on every way out, after a failure at any
\* step as well as after a quit, the private server has gone.
NoServerLeft == main \in {"ended", "failed"} => ~Alive

\* What the worker does not hand on in its batches is what no terminator has closed: the
\* adapter is told the envelopes of each stream in their order, a loss after each
\* stream but the last and a return before each but the first.
Closed(lines) ==
  LET ends == {i \in DOMAIN lines : lines[i] \in Enders}
  IN IF ends = {} THEN <<>> ELSE SubSeq(lines, 1, Max(ends))
ToldInOrder ==
  receiver =>
    LET Told(k) == (IF k > 1 THEN <<"restored">> ELSE <<>>)
                     \o ParseSse(Closed(heard[k]))
                     \o (IF k < Len(heard) \/ announced THEN <<"lost">> ELSE <<>>)
    IN channel = FlattenSeq([k \in DOMAIN heard |-> Told(k)])

\* The wait for the private server's address is bounded by its clock, as long as there
\* are lines to read: it comes up, or the program gives up.
StartEnds == main = "listen" ~> main \in {"run", "drop", "failed"}

\* "worker_delivers_and_joins_on_drop" (events.rs): the thread is joined before the private
\* server is killed, and both happen, whatever the thread is doing.
QuitEnds == main = "drop" ~> main = "ended"
===============================================================================
