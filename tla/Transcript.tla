------------------------------- MODULE Transcript -------------------------------
(***************************************************************************)
(* One session's transcript, seen twice: the blocks that the events of a   *)
(* turn build up while it runs (map_event of mapper.rs, apply_event of     *)
(* stream.rs), and the blocks that the messages of the server are read as  *)
(* (map_message), by a program that starts later.                          *)
(*                                                                         *)
(* The server keeps messages of items and sends one event per change; each *)
(* action below is such a change with the frame that applies its event     *)
(* (modules Connection and Sessions have the channel between the two).     *)
(* Texts are sequences of fragments; what a tool prints is named by the    *)
(* call that printed it, and so is the detail line of a block.             *)
(***************************************************************************)
EXTENDS Stream

CONSTANTS Calls,        \* ids of tool calls and of shells
          Names,        \* of tools
          Shell,        \* the tool whose execution has events of its own
          Fragments,    \* of texts
          Blank,        \* the fragment of white space
          MaxSteps,     \* bound: prompts, executions, steps, shells and compactions
          MaxItems      \* bound: fragments, calls, gates, remarks and readings

\* Where a call stands; one whose input is being written is at the name of its tool.
Stages == {"unused", "to run", "running", "called", "user", "over"}

ASSUME NamesAssumption == Shell \in Names /\ None \notin Names \cup Calls /\ Names \cap Stages = {}
ASSUME BoundsAssumption == MaxSteps \in Nat /\ MaxItems \in Nat

VARIABLES
  phase,      \* of the turn: "idle", "turn" (between steps), "step"
  compacting,
  msgs,       \* the server's messages
  open,       \* where each call stands
  names,      \* DraftState: what is known of the tool of a call (done is written, never read)
  blocks,     \* the transcript
  steps, items,
  clean       \* history variable: one call at a time, none of them read half way, nothing
              \* written between a call and its shell, and none that failed without a block

turn == <<phase, compacting>>
bounds == <<steps, items>>
vars == <<turn, msgs, open, names, blocks, bounds, clean>>

-------------------------------------------------------------------------------
(* map_message: items into blocks *)

Item(type, text, c, name, status) ==
  [type |-> type, text |-> text, call |-> c, name |-> name, status |-> status]
Message(type, its) == [type |-> type, items |-> its]

\* map_history_tool
HistoryTool(item) ==
  Tool("tool", item.call,
       CASE item.status \in {"running", "streaming"} -> "running"
         [] item.status = "error" -> "failed"
         [] OTHER -> "done",
       IF item.status \in {"running", "streaming"} THEN None ELSE item.call)

IsBlank(text) == \A i \in DOMAIN text : text[i] \in {Blank, ""}

\* map_assistant_items reads the items with a text under way, which flush_text and
\* flush_thinking make a block of unless it is blank.
Flushed(m) ==
  [m EXCEPT !.blocks = IF IsBlank(m.text) THEN @ ELSE Append(@, Text(m.kind, m.text)),
            !.text = <<>>]

\* Adjacent items of one kind are one text.
MapItem(m, item) ==
  IF item.type = "tool" THEN [Flushed(m) EXCEPT !.blocks = Append(@, HistoryTool(item))]
  ELSE LET under == IF m.kind = item.type THEN m ELSE Flushed(m)
       IN [under EXCEPT !.kind = item.type, !.text = @ \o item.text]

NoText == [blocks |-> <<>>, kind |-> "assistant", text |-> <<>>]

MapItems(its) ==
  LET after[n \in 0..Len(its)] == IF n = 0 THEN NoText ELSE MapItem(after[n - 1], its[n])
  IN Flushed(after[Len(its)]).blocks

\* The shell of a user is a message of its own.
HistoryShell(item) ==
  Tool("shell", item.call, IF item.status = "running" THEN "running" ELSE "done",
       IF item.status = "running" THEN None ELSE item.call)

MapMessage(m) ==
  CASE m.type = "user" -> <<Note("user")>>
    [] m.type = "assistant" -> MapItems(m.items)
    [] m.type = "shell" -> <<HistoryShell(m.items[1])>>
    [] m.type = "compacted" -> <<Note("notice")>>
    [] m.type = "compaction failed" -> <<Note("error")>>

History == FlattenSeq([i \in DOMAIN msgs |-> MapMessage(msgs[i])])

-------------------------------------------------------------------------------
Init ==
  /\ phase = "idle" /\ compacting = FALSE
  /\ msgs = <<>> /\ open = [c \in Calls |-> "unused"]
  /\ names = [c \in Calls |-> None]
  /\ blocks = <<>>
  /\ steps = 0 /\ items = 0
  /\ clean = TRUE

Running(c) == open[c] \notin {"unused", "over"}
Idle == \A c \in Calls : ~Running(c)


Fresh(c) == open[c] = "unused"

AddMessage(m) == steps < MaxSteps /\ steps' = steps + 1 /\ msgs' = Append(msgs, m)

\* The message being written, and its last item.
Current == Len(msgs)
AddItem(item) == msgs' = [msgs EXCEPT ![Current].items = Append(@, item)]

\* Items of calls are found by their call.
Settle(c, status) ==
  msgs' = [i \in DOMAIN msgs |->
             [msgs[i] EXCEPT !.items = [j \in DOMAIN @ |->
                IF @[j].call = c THEN [@[j] EXCEPT !.status = status] ELSE @[j]]]]

Sequential == clean' = (clean /\ Idle)

-------------------------------------------------------------------------------
(* Turns *)

\* submit_prompt echoes the prompt; the server stores it.
Prompt ==
  /\ phase = "idle" /\ ~compacting
  /\ AddMessage(Message("user", <<>>))
  /\ blocks' = Append(blocks, Note("user"))
  /\ UNCHANGED <<turn, open, names, items, clean>>

ExecutionStarted ==
  /\ phase = "idle" /\ ~compacting /\ msgs # <<>> /\ Last(msgs).type = "user"
  /\ steps < MaxSteps /\ steps' = steps + 1
  /\ phase' = "turn"
  /\ blocks' = Push(blocks, Note("working"))
  /\ UNCHANGED <<compacting, msgs, open, names, items, clean>>

StepStarted ==
  /\ phase = "turn" /\ ~compacting
  /\ AddMessage(Message("assistant", <<>>))
  /\ phase' = "step"
  /\ blocks' = Push(blocks, Note("working"))
  /\ UNCHANGED <<compacting, open, names, items, clean>>

\* A step ends when its calls are over; the reason may be an error.
StepEnded(error) ==
  /\ phase = "step" /\ Idle
  /\ phase' = "turn"
  /\ blocks' = IF error THEN Append(Retire(blocks), Note("error")) ELSE Retire(blocks)
  /\ UNCHANGED <<compacting, msgs, open, names, bounds, clean>>

ExecutionEnded(error) ==
  /\ phase = "turn"
  /\ phase' = "idle"
  /\ blocks' = IF error THEN Append(Retire(blocks), Note("error")) ELSE Retire(blocks)
  /\ UNCHANGED <<compacting, msgs, open, names, bounds, clean>>

\* text.delta and reasoning.delta; an empty one is dropped.  The server begins an item
\* (`fresh`) or goes on with the last; a model writes no text inside the input of a call.
Delta(kind, f, fresh) ==
  /\ phase = "step" /\ items < MaxItems /\ ~\E c \in Calls : open[c] \in Names
  /\ items' = items + 1
  /\ LET its == msgs[Current].items
         goes == its # <<>> /\ Last(its).type = kind
     IN IF fresh \/ ~goes THEN AddItem(Item(kind, <<f>>, None, None, "done"))
        ELSE msgs' = [msgs EXCEPT ![Current].items[Len(its)].text = Append(@, f)]
  /\ blocks' = IF f = "" THEN blocks ELSE Chunk(blocks, kind, f)
  /\ clean' = (clean /\ \A c \in Calls : open[c] # "to run")
  /\ UNCHANGED <<turn, open, names, steps>>

-------------------------------------------------------------------------------
(* Tools *)


ToolInput(c, name) ==
  /\ phase = "step" /\ Fresh(c) /\ items < MaxItems
  /\ items' = items + 1
  /\ open' = [open EXCEPT ![c] = name]
  /\ AddItem(Item("tool", <<>>, c, name, "streaming"))
  /\ names' = [names EXCEPT ![c] = IF @ = None THEN name ELSE @]
  /\ Sequential
  /\ UNCHANGED <<turn, blocks, steps>>

\* tool.called may leave out the name; the draft then knows it, unless the program
\* started in between.  A shell has no tool block: its own events show it.
ToolCalled(c, named) ==
  /\ open[c] \in Names
  /\ open' = [open EXCEPT ![c] = IF @ = Shell THEN "to run" ELSE "called"]
  /\ Settle(c, "running")
  /\ LET name == IF named THEN open[c] ELSE names[c]
     IN /\ names' = [names EXCEPT ![c] = IF named THEN name ELSE @]
        /\ blocks' = IF name = Shell THEN blocks
                     ELSE Append(blocks, Tool("tool", c, "running", None))
  /\ UNCHANGED <<turn, bounds, clean>>

\* shell.created
ShellCreated(c) ==
  /\ open[c] = "to run"
  /\ open' = [open EXCEPT ![c] = "running"]
  /\ blocks' = Append(blocks, Tool("shell", c, "running", None))
  /\ UNCHANGED <<turn, msgs, names, bounds, clean>>

\* shell.exited
ShellExited(c, state) ==
  /\ open[c] = "running"
  /\ open' = [open EXCEPT ![c] = "called"]
  /\ blocks' = UpdateTool(blocks, state, None)
  /\ UNCHANGED <<turn, msgs, names, bounds, clean>>

ToolSuccess(c) ==
  /\ open[c] = "called"
  /\ open' = [open EXCEPT ![c] = "over"]
  /\ Settle(c, "completed")
  /\ blocks' = UpdateTool(blocks, "done", c)
  /\ UNCHANGED <<turn, names, bounds, clean>>

\* tool.failed, of a call that was never made and of a shell that never ran as well (its
\* input is no good, its permission is denied): these have no block, and the latest run,
\* of another call, takes the failure.
ToolFailed(c) ==
  /\ open[c] \in Names \cup {"to run", "called"}
  /\ open' = [open EXCEPT ![c] = "over"]
  /\ Settle(c, "error")
  /\ blocks' = Append(UpdateTool(blocks, "failed", c), Note("error"))
  /\ clean' = (clean /\ open[c] = "called")
  /\ UNCHANGED <<turn, names, bounds>>

\* A shell of the user: shell.started and shell.ended
UserShellStarted(c) ==
  /\ Fresh(c) /\ phase # "step"
  /\ open' = [open EXCEPT ![c] = "user"]
  /\ AddMessage(Message("shell", <<Item("shell", <<>>, c, None, "running")>>))
  /\ blocks' = Append(blocks, Tool("shell", c, "running", None))
  /\ Sequential
  /\ UNCHANGED <<turn, names, items>>

UserShellEnded(c) ==
  /\ open[c] = "user"
  /\ open' = [open EXCEPT ![c] = "over"]
  /\ Settle(c, "exited")
  /\ blocks' = UpdateTool(ShellLine(blocks, c), "done", None)
  /\ UNCHANGED <<turn, names, bounds, clean>>

-------------------------------------------------------------------------------
(* Compaction, gates, notes, and a program that starts *)

CompactionStarted ==
  /\ phase = "idle" /\ ~compacting /\ steps < MaxSteps
  /\ compacting' = TRUE
  /\ blocks' = Push(blocks, Note("compacting"))
  /\ UNCHANGED <<phase, msgs, open, names, bounds, clean>>

CompactionEnded(error) ==
  /\ compacting
  /\ compacting' = FALSE
  /\ AddMessage(Message(IF error THEN "compaction failed" ELSE "compacted", <<>>))
  /\ blocks' = Append(Retire(blocks), Note(IF error THEN "error" ELSE "notice"))
  /\ UNCHANGED <<phase, open, names, items, clean>>

\* permission.v2.asked and form.created: a gate of a call that is running; the answers
\* are those of module Gates.
Ask ==
  /\ items < MaxItems /\ \E c \in Calls : open[c] \in {"to run", "called"}
  /\ items' = items + 1
  /\ blocks' = Append(blocks, Note("gate"))
  /\ UNCHANGED <<turn, msgs, open, names, steps, clean>>

Answer ==
  /\ LastKind(blocks) = "gate"
  /\ blocks' = Front(blocks)
  /\ UNCHANGED <<turn, msgs, open, names, bounds, clean>>

\* Notices and errors of the program itself: a lost connection, a switch, a refused
\* operation.
Remark ==
  /\ items < MaxItems
  /\ items' = items + 1
  /\ blocks' = Append(blocks, Note("notice"))
  /\ UNCHANGED <<turn, msgs, open, names, steps, clean>>

\* hydrate_active of a program that starts now: the drafts are empty.
Reopen ==
  /\ items < MaxItems
  /\ items' = items + 1
  /\ blocks' = History
  /\ names' = [c \in Calls |-> None]
  /\ Sequential
  /\ UNCHANGED <<turn, msgs, open, steps>>

-------------------------------------------------------------------------------
Next ==
  \/ Prompt \/ ExecutionStarted \/ StepStarted
  \/ \E error \in BOOLEAN : StepEnded(error) \/ ExecutionEnded(error) \/ CompactionEnded(error)
  \/ \E kind \in {"assistant", "thinking"}, f \in Fragments, fresh \in BOOLEAN : Delta(kind, f, fresh)
  \/ \E c \in Calls : \/ \E name \in Names : ToolInput(c, name)
                       \/ \E named \in BOOLEAN : ToolCalled(c, named)
                       \/ ShellCreated(c)
                       \/ \E state \in {"done", "failed"} : ShellExited(c, state)
                       \/ ToolSuccess(c) \/ ToolFailed(c)
                       \/ UserShellStarted(c) \/ UserShellEnded(c)
  \/ CompactionStarted
  \/ Ask \/ Answer \/ Remark \/ Reopen

Spec == Init /\ [][Next]_vars

-------------------------------------------------------------------------------
(* Correctness *)

\* What a transcript says: the words of its texts in order, each with the kind of its text,
\* and its runs with their states.  White space says nothing, and neither does where one
\* text of a kind ends and the next begins.  A shell may stand for the tool that ran it.
Run(c, state) == [kind |-> "run", of |-> <<c, state>>]
Word(kind, f) == IF f \in {Blank, ""} THEN <<>> ELSE <<[kind |-> kind, of |-> f]>>
Words(kind, text) == FlattenSeq([i \in DOMAIN text |-> Word(kind, text[i])])
Said(b) ==
  CASE b.kind \in Runs -> <<Run(b.detail, b.state)>>
    [] b.kind \in {"assistant", "thinking"} -> Words(b.kind, b.text)
    [] OTHER -> <<>>
Says(bs) == FlattenSeq([i \in DOMAIN bs |-> Said(bs[i])])

\* The transcript of a session that was followed, from its first message or from any
\* point at which it was read, says what a program that reads it now would show: the same
\* texts, and the same calls in the same states; unless calls ran side by side or were
\* read half way, a text came between a call and its shell, or a call failed that had no
\* block yet (map_event and apply_event against map_message).
LiveIsHistory == clean /\ Idle => Says(blocks) = Says(History)

\* A call that is over keeps its state and its output, whatever comes after it and
\* whenever it is read again (UpdateTool finds a call by its place among the blocks), as
\* long as calls follow one another and none fails that has no block: the failure of a
\* shell that was denied does go to the run before it.
SettledStays ==
  [][clean' => \A i \in DOMAIN blocks :
       blocks[i].kind = "tool" /\ blocks[i].state # "running" =>
         \E j \in DOMAIN blocks' : blocks'[j] = blocks[i]]_vars

\* Out of a turn the transcript does not end in a working indicator (WorkLabel).
NoIdleSpinner ==
  phase = "idle" /\ ~compacting => LastKind(blocks) \notin Working

===============================================================================
