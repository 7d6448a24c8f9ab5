------------------------------- MODULE Connection -------------------------------
(***************************************************************************)
(* The live feed of the OpenCode adapter and the working indicator it      *)
(* drives, from the server to the screen:                                  *)
(*                                                                         *)
(*   server --wire--> SseWorker (events.rs) --channel--> ingest (mod.rs)   *)
(*                                                                         *)
(* The server executes prompts and writes what happens to the one stream   *)
(* that is open, if any; nothing is replayed.  The worker thread forwards  *)
(* events and announces the end of a stream and its return.  The UI thread *)
(* drains the channel in every frame (StatuslineElement::layout); without  *)
(* user input, frames only come while the active session is busy           *)
(* (TranscriptBody::render asks for the next one).                         *)
(***************************************************************************)
EXTENDS Integers, Sequences, SequencesExt

CONSTANTS Sessions,
          PromptsInGap,  \* does the user prompt while the worker is not subscribed?
          MaxWork,       \* bound: prompts, of this client and others, and steps after the first
          MaxDrops,      \* bound: times the stream ends
          MaxWire        \* bound: events the server has written and nobody read

ASSUME PromptsInGapAssumption == PromptsInGap \in BOOLEAN

VARIABLES
  queued,     \* sessions with a prompt the server has admitted
  running,    \* sessions whose turn the server executes
  stream,     \* is a stream open at the server?
  wire,       \* events written to it
  worker,     \* "open": connecting, "read": reading lines
  announced,  \* lost_announced of the worker
  channel,
  active,     \* the session on the screen
  busy,       \* sessions shown as working
  gap,        \* connection_gap: "lost" was shown and "restored" not yet
  work, drops

server == <<queued, running, stream, wire, drops>>
client == <<active, busy, gap>>
vars == <<server, worker, announced, channel, client, work>>

Started(s) == [type |-> "started", session |-> s]
Ended(s) == [type |-> "ended", session |-> s]
Lost == [type |-> "lost"]
Restored == [type |-> "restored"]

Event == [type: {"started", "ended"}, session: Sessions] \cup {Lost, Restored}

-------------------------------------------------------------------------------
Init ==
  /\ queued = {} /\ running = {}
  /\ stream = FALSE /\ wire = <<>>
  /\ worker = "open" /\ announced = FALSE
  /\ channel = <<>>
  /\ active \in Sessions
  /\ busy = {} /\ gap = FALSE
  /\ work = 0 /\ drops = 0

-------------------------------------------------------------------------------
(* The server *)

Write(event) ==
  IF stream
  THEN Len(wire) < MaxWire /\ wire' = Append(wire, event)
  ELSE UNCHANGED wire

\* Another client of the same server prompts a session.
PromptElsewhere(s) ==
  /\ work < MaxWork
  /\ work' = work + 1
  /\ queued' = queued \cup {s}
  /\ UNCHANGED <<running, stream, wire, drops, worker, announced, channel, client>>

Begin(s) ==
  /\ s \in queued /\ s \notin running
  /\ queued' = queued \ {s}
  /\ running' = running \cup {s}
  /\ Write(Started(s))
  /\ UNCHANGED <<stream, drops, worker, announced, channel, client, work>>

Finish(s) ==
  /\ s \in running
  /\ running' = running \ {s}
  /\ Write(Ended(s))
  /\ UNCHANGED <<queued, stream, drops, worker, announced, channel, client, work>>

\* A turn of several steps ends one and starts the next.
NextStep(s) ==
  /\ s \in running
  /\ work < MaxWork
  /\ work' = work + 1
  /\ stream
  /\ Len(wire) + 2 <= MaxWire
  /\ wire' = wire \o <<Ended(s), Started(s)>>
  /\ UNCHANGED <<queued, running, stream, drops, worker, announced, channel, client>>

\* The stream ends; some of what was written may still arrive.
Drop ==
  /\ stream
  /\ drops < MaxDrops
  /\ drops' = drops + 1
  /\ stream' = FALSE
  /\ \E n \in 0..Len(wire) : wire' = SubSeq(wire, 1, n)
  /\ UNCHANGED <<queued, running, worker, announced, channel, client, work>>

-------------------------------------------------------------------------------
(* SseWorker *)

\* A connection attempt that succeeds; one that fails only backs off.
Open ==
  /\ worker = "open"
  /\ worker' = "read"
  /\ stream' = TRUE /\ wire' = <<>>
  /\ channel' = IF announced THEN Append(channel, Restored) ELSE channel
  /\ announced' = FALSE
  /\ UNCHANGED <<queued, running, drops, client, work>>

Forward ==
  /\ worker = "read"
  /\ wire # <<>>
  /\ channel' = Append(channel, Head(wire))
  /\ wire' = Tail(wire)
  /\ UNCHANGED <<queued, running, stream, drops, worker, announced, client, work>>

\* Deliberately wrong: the end of the stream is not announced.
EndSilently ==
  /\ worker = "read"
  /\ ~stream /\ wire = <<>>
  /\ worker' = "open"
  /\ UNCHANGED <<server, announced, channel, client, work>>

EndOfStream ==
  /\ worker = "read"
  /\ ~stream /\ wire = <<>>
  /\ channel' = Append(channel, Lost)
  /\ announced' = TRUE
  /\ worker' = "open"
  /\ UNCHANGED <<server, client, work>>

-------------------------------------------------------------------------------
(* The UI thread *)

\* Deliberately wrong: the end of a stream leaves the indicators as they are.
ApplyKeepsBusy(state, event) ==
  CASE event.type = "started" -> [state EXCEPT !.busy = @ \cup {event.session}]
    [] event.type = "ended" -> [state EXCEPT !.busy = @ \ {event.session}]
    [] event.type = "lost" -> [state EXCEPT !.gap = state.busy # {} \/ @]
    [] event.type = "restored" -> [state EXCEPT !.gap = FALSE]

\* apply_raw, as far as busy and connection_gap are concerned.
ApplyRaw(state, event) ==
  CASE event.type = "started" -> [state EXCEPT !.busy = @ \cup {event.session}]
    [] event.type = "ended" -> [state EXCEPT !.busy = @ \ {event.session}]
    [] event.type = "lost" -> [busy |-> {}, gap |-> state.busy # {} \/ state.gap]
    [] event.type = "restored" -> [state EXCEPT !.gap = FALSE]

\* The events one after the other, from a state of the indicators.
Applied(state, events) ==
  LET after[n \in 0..Len(events)] ==
        IF n = 0 THEN state ELSE ApplyRaw(after[n - 1], events[n])
  IN after[Len(events)]

\* A frame: poll_stream drains the whole channel.
Ingest ==
  /\ channel # <<>>
  /\ LET after == Applied([busy |-> busy, gap |-> gap], channel)
     IN busy' = after.busy /\ gap' = after.gap
  /\ channel' = <<>>
  /\ UNCHANGED <<server, worker, announced, active, work>>

\* The frame nobody has to press a key for.
Repaint == active \in busy /\ Ingest

\* submit_prompt, accepted by the server.
Submit ==
  /\ work < MaxWork
  /\ PromptsInGap \/ worker = "read"
  /\ work' = work + 1
  /\ queued' = queued \cup {active}
  /\ busy' = busy \cup {active}
  /\ UNCHANGED <<running, stream, wire, drops, worker, announced, channel, active, gap>>

\* cancel: the interrupt may be refused, the indicator goes anyway.
Cancel ==
  /\ busy' = busy \ {active}
  /\ \/ /\ active \in running
        /\ running' = running \ {active}
        /\ Write(Ended(active))
        /\ UNCHANGED queued
     \/ /\ queued' \in {queued, queued \ {active}}
        /\ UNCHANGED <<running, wire>>
  /\ UNCHANGED <<stream, drops, worker, announced, channel, active, gap, work>>

Select(s) ==
  /\ s # active
  /\ active' = s
  /\ UNCHANGED <<server, worker, announced, channel, busy, gap, work>>

-------------------------------------------------------------------------------
Next ==
  \/ \E s \in Sessions : \/ PromptElsewhere(s) \/ Begin(s) \/ Finish(s) \/ NextStep(s)
                         \/ Select(s)
  \/ Drop
  \/ Open \/ Forward \/ EndOfStream
  \/ Ingest \/ Submit \/ Cancel

Spec == Init /\ [][Next]_vars

\* The server finishes what it was asked and can be reached again, the worker
\* thread runs, and frames come while the active session is busy.
Fairness ==
  /\ \A s \in Sessions : WF_vars(Begin(s)) /\ WF_vars(Finish(s))
  /\ WF_vars(Open) /\ WF_vars(Forward) /\ WF_vars(EndOfStream)
  /\ WF_vars(Repaint)

FairSpec == Spec /\ Fairness

-------------------------------------------------------------------------------
(* Correctness *)

\* What is on its way to ingest.
Coming == channel \o wire

\* The worker will still announce that the stream has ended.
LossPending == worker = "read" /\ ~stream

\* "Busy state always reconciles" (docs/ARCHITECTURE.md, principle 3), its safety part:
\* a session shown as working has work at the server, or the event that will clear the
\* indicator is on its way.
BusyIsJustified ==
  \A s \in busy : \/ s \in queued \cup running
                  \/ Contains(Coming, Ended(s))
                  \/ Contains(Coming, Lost)
                  \/ LossPending

\* The dropped stream "clears stale busy state ... instead of spinning forever"
\* (README, History + reconnect): a session that has nothing to do stops being shown
\* as working, or gets something to do, without any user input.
BusyReconciles ==
  \A s \in Sessions :
    (s = active /\ s \in busy /\ s \notin queued \cup running)
      ~> (s \notin busy \/ s \in queued \cup running \/ s # active)
===============================================================================
