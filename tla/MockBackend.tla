------------------------------- MODULE MockBackend -------------------------------
(***************************************************************************)
(* The scripted backend (mock.rs), which the program runs on by default:   *)
(* its sessions, the queue of events of each, and the two confirmations    *)
(* that exist once for all of them.                                        *)
(*                                                                         *)
(* Texts are dropped: a submitted text is named by what `submit` does with *)
(* it, a block by its kind, a tool call also by its state, a question by   *)
(* what it asks for.  Ids are given out in the order of `sessions`, so     *)
(* that the position of a session is its id.  The proposals that submit    *)
(* and set_active gather are those of module Proposals.                    *)
(*                                                                         *)
(* Operators for the calls of the view; module Interface makes them.       *)
(***************************************************************************)
EXTENDS Stream

CONSTANTS Demo,         \* bound: which sessions there are at the start
          MaxSessions   \* bound

ASSUME DemoAssumption ==
  Demo \in Seq({"agent", "shell", "gate"}) \ {<<>>} /\ MaxSessions \in Nat /\ Len(Demo) <= MaxSessions

VARIABLES
  sessions,         \* their transcripts
  active,
  turn,             \* only its rest modulo 4 is ever used
  streams,          \* the queue of each session
  pending_revert, pending_command

mock == <<sessions, active, turn, streams, pending_revert, pending_command>>

Run(kind, state) == Tool(kind, None, state, None)
Ask(what) == Block("question", <<>>, what, "waiting", None)

\* How many options a question has.
Options(b) == IF b.detail = "plan" THEN 3 ELSE 2

Shown(b) == [type |-> "push", block |-> b]
Does(type) == [type |-> type, block |-> Note("none")]

-------------------------------------------------------------------------------
(* Scripts *)

CannedTurn(n) ==
  IF n % 2 = 0 THEN <<Note("thinking"), Run("tool", "done"), Text("assistant", <<None>>)>>
               ELSE <<Run("shell", "done"), Note("edits")>>

\* An answer is streamed word by word, with an indicator before it.
Answer(n) ==
  <<Shown(Note("working"))>>
    \o (IF n % 2 = 0
        THEN <<Shown(Note("thinking")), Shown(Run("tool", "done")), Does("label"), Does("chunk")>>
        ELSE <<Shown(Run("shell", "done")), Shown(Note("edits"))>>)
    \o <<Does("retire")>>

Pushed(bs) == [i \in DOMAIN bs |-> Shown(bs[i])]

\* run_scenario, all but the one that opens a session.
Script ==
  [a |-> Pushed(CannedTurn(0)),
   b |-> <<Shown(Note("thinking")), Does("chunk"), Does("chunk")>>,
   c |-> <<Shown(Run("tool", "running")), Does("label"), Does("done")>>,
   d |-> <<Shown(Note("permission"))>>,
   e |-> <<Shown(Ask("plan"))>>,
   f |-> <<Shown(Run("shell", "running")), Does("line"), Does("done")>>,
   g |-> Pushed(CannedTurn(1)),
   h |-> <<Shown(Note("working")), Shown(Note("plan"))>>,
   i |-> <<Shown(Run("tool", "running")), Does("failed"), Shown(Note("error")),
           Shown(Text("assistant", <<None>>))>>]

-------------------------------------------------------------------------------
(* The sessions at the start *)

AgentSession ==
  <<Note("notice"), Note("user"), Note("thinking"), Run("tool", "done"), Note("assistant"),
    Run("shell", "done"), Note("edits"), Note("plan"), Run("tool", "failed"), Note("error"),
    Run("tool", "waiting")>>

ShellSession == <<Note("user"), Run("shell", "done"), Note("assistant")>>

GateSession == <<Note("permission")>>

Opening == [agent |-> AgentSession, shell |-> ShellSession, gate |-> GateSession]

MockInit ==
  /\ sessions = [i \in DOMAIN Demo |-> Opening[Demo[i]]] /\ active = 1 /\ turn = 0
  /\ streams = [s \in DOMAIN sessions |-> <<>>]
  /\ pending_revert = FALSE /\ pending_command = FALSE

Here == sessions[active]

StreamActive == \E s \in DOMAIN streams : streams[s] # <<>>

\* blocker: only the last block can be a gate.
Blocker == IF LastKind(Here) \in {"permission", "question"} THEN LastKind(Here) ELSE None

\* Deliberately wrong: whatever is at the end gives way.
PushTurnOver(bs, turned) == (IF bs = <<>> THEN bs ELSE Front(bs)) \o turned

\* push_turn: an indicator at the end gives way.
PushTurn(bs, turned) == Retire(bs) \o turned

Says(bs) == sessions' = [sessions EXCEPT ![active] = PushTurn(@, bs)]
Streams(es) == streams' = [streams EXCEPT ![active] = @ \o es]
Keep == UNCHANGED <<active, turn, pending_revert, pending_command>>

\* new_session: the new one is not selected.
Opened(bs) ==
  /\ Len(sessions) < MaxSessions
  /\ sessions' = Append(sessions, bs) /\ streams' = Append(streams, <<>>)
  /\ UNCHANGED <<turn, pending_revert, pending_command>>

Reply(bs) == Says(bs) /\ UNCHANGED streams /\ Keep

-------------------------------------------------------------------------------
(* submit *)

SubmitNew == Opened(<<Note("user"), Note("assistant")>>) /\ UNCHANGED active

\* The child has what the parent has now, its gates too; the notice is the parent's.
Fork ==
  /\ Len(sessions) < MaxSessions /\ streams' = Append(streams, <<>>)
  /\ sessions' = Append([sessions EXCEPT ![active] = PushTurn(@, <<Note("notice")>>)], Here)
  /\ Keep

StageRevert ==
  /\ pending_revert' = TRUE
  /\ Says(<<Note("edits"), Ask("revert")>>)
  /\ UNCHANGED <<active, turn, streams, pending_command>>

\* execute_command: init asks before it runs, unless it has asked already; any other
\* command runs, and what was asked for is forgotten.
ExecuteCommand(name) ==
  /\ IF name = "init" /\ ~pending_command
     THEN pending_command' = TRUE /\ Says(<<Ask("command")>>)
     ELSE pending_command' = FALSE /\ Says(<<Note("user"), Note("assistant")>>)
  /\ UNCHANGED <<active, turn, streams, pending_revert>>

\* "/demo" and a letter right behind it; with a blank between them, the text is a command
\* of the catalog.
Scenario(letter) ==
  IF letter = "j"
  THEN /\ Len(sessions) < MaxSessions
       /\ streams' = Append(streams, <<>>)
       /\ sessions' = Append([sessions EXCEPT ![active] = PushTurn(@, <<Note("user")>>)],
                             <<Note("user"), Note("assistant")>>)
       /\ active' = 1
       /\ UNCHANGED <<turn, pending_revert, pending_command>>
  ELSE Says(<<Note("user")>>) /\ Streams(Script[letter]) /\ Keep

Prompt ==
  /\ Says(<<Note("user")>>)
  /\ Streams(Answer(turn))
  /\ turn' = (turn + 1) % 4
  /\ UNCHANGED <<active, pending_revert, pending_command>>

\* What the texts do that are answered at once.
Replies ==
  [status |-> <<Note("user"), Note("assistant")>>,   \* /status, /usage, /memory suggest ...
   diff |-> <<Note("edits")>>,
   switch |-> <<Note("notice")>>,                    \* /compact, /model, /agent
   refused |-> <<Note("error")>>]                    \* ... of unknown names, and /revert alone

Submit(text) ==
  CASE text \in DOMAIN Replies -> Reply(Replies[text])
    [] text = "new" -> SubmitNew
    [] text = "fork" -> Fork
    [] text = "revert" -> StageRevert
    [] text \in {"init", "demo b"} -> ExecuteCommand(text)
    [] text \in DOMAIN Script \cup {"j"} -> Scenario(text)
    [] OTHER -> Prompt

-------------------------------------------------------------------------------
(* The other calls *)

Popped == IF Here = <<>> THEN <<>> ELSE Front(Here)
Replaced(bs) == sessions' = [sessions EXCEPT ![active] = PushTurn(Popped, bs)]

ResolvePermission(accept) ==
  /\ IF LastKind(Here) = "permission" THEN Replaced(<<Note("assistant")>>)
                                      ELSE UNCHANGED sessions
  /\ UNCHANGED streams /\ Keep

SettleRevert ==
  /\ pending_revert' = FALSE /\ UNCHANGED pending_command
  /\ Replaced(<<Note("notice")>>)

\* A confirmation that is pending takes the digit, whatever the last block asks.
AnswerQuestion(option) ==
  /\ UNCHANGED <<active, turn, streams>>
  /\ CASE pending_revert -> SettleRevert
       [] ~pending_revert /\ pending_command ->
            /\ pending_command' = FALSE /\ UNCHANGED pending_revert
            /\ Replaced(IF option = 0 THEN <<Note("user"), Note("assistant")>>
                                      ELSE <<Note("notice")>>)
       [] OTHER ->
            /\ UNCHANGED <<pending_revert, pending_command>>
            /\ IF LastKind(Here) = "question" /\ option < Options(Last(Here))
               THEN Replaced(<<Note("assistant")>>) ELSE UNCHANGED sessions

SimulateActivity ==
  /\ turn' = (turn + 1) % 4
  /\ Streams(Script[CASE turn = 0 -> "h" [] turn = 1 -> "c" [] turn = 2 -> "d" [] OTHER -> "e"])
  /\ UNCHANGED <<sessions, active, pending_revert, pending_command>>

\* new_session, which the view follows with set_active.
NewSession == Opened(<<>>) /\ active' = Len(sessions) + 1

SetActive(s) ==
  /\ active' = s
  /\ UNCHANGED <<sessions, turn, streams, pending_revert, pending_command>>

Cancel ==
  /\ streams' = [s \in DOMAIN streams |-> <<>>]
  /\ sessions' = [sessions EXCEPT ![active] = Retire(@)]
  /\ Keep

Apply(bs, e) ==
  CASE e.type = "push" -> Push(bs, e.block)
    [] e.type = "chunk" -> Chunk(bs, "assistant", None)
    [] e.type = "label" -> Label(bs, "working")
    [] e.type = "retire" -> Retire(bs)
    [] e.type = "line" -> ShellLine(bs, None)
    [] OTHER -> UpdateTool(bs, e.type, None)

\* One event of every queue that has one.
PollStream ==
  /\ sessions' = [s \in DOMAIN sessions |->
                    IF streams[s] = <<>> THEN sessions[s] ELSE Apply(sessions[s], Head(streams[s]))]
  /\ streams' = [s \in DOMAIN streams |-> IF streams[s] = <<>> THEN <<>> ELSE Tail(streams[s])]
  /\ Keep
=============================================================================
