---------------------------------- MODULE Gates ----------------------------------
(***************************************************************************)
(* The gates of the OpenCode adapter (mod.rs): permission requests and     *)
(* questions of the agent, and the adapter's own questions before a staged *)
(* revert is committed and before a command that writes files is run.      *)
(*                                                                         *)
(* A gate is live as long as it is the LAST block of the transcript of the *)
(* active session; the digit keys answer it, and while it is live nothing  *)
(* can be submitted (PromptElement, blocker).  What an answer does is not  *)
(* looked up in the block but in pending_permissions, pending_questions,   *)
(* pending_revert and pending_command, which change on their own.          *)
(*                                                                         *)
(* Only gates and the working indicator are ever popped from a transcript, *)
(* so what matters of it is its tail: the blocks after the last block of   *)
(* any other kind.  Pushing such a block empties the tail, and the gates   *)
(* that were in it are never live again.                                   *)
(***************************************************************************)
EXTENDS Integers, Sequences, SequencesExt

CONSTANTS Sessions,
          Permissions,   \* ids of permission requests
          Forms,         \* ids of question forms
          MaxFields,     \* bound: fields of a form
          Messages,      \* boundaries of a revert
          Writers,       \* commands that are only run after a confirmation
          AgentOptions,  \* the options an agent's question may offer
          Elsewhere,     \* what other clients of the server answer
          Faults,
          MaxTail,       \* bound: blocks in a tail
          None

ASSUME MaxFieldsAssumption == MaxFields \in Nat
ASSUME AgentOptionsAssumption == AgentOptions \subseteq {"agent", "revert", "command"}
ASSUME ElsewhereAssumption == Elsewhere \subseteq {"permission", "form"}
ASSUME FaultsAssumption ==
  Faults \subseteq {"rest",   \* a request fails, whether or not the server acted on it
                    "gap"}    \* the event stream breaks
ASSUME NoneAssumption ==
  None \notin Sessions \cup Permissions \cup Forms \cup Messages \cup Writers

VARIABLES
  active,      \* the session on the screen
  busy,
  tail,        \* of the transcript of each session
  permission,  \* pending_permissions
  questions,   \* pending_questions
  revert,      \* pending_revert
  command,     \* pending_command
  home,        \* server: the session each request was made in
  open,        \* server: requests that wait for their answer
  replied,     \* server: requests whose "replied" event is on its way
  staged,      \* server: the boundary staged in each session
  sent         \* the REST call of the last step, or how it did without one

pending == <<permission, questions, revert, command>>
server == <<home, open, replied, staged>>
vars == <<active, busy, tail, pending, server, sent>>

Requests == Permissions \cup Forms
Field == [form: Forms, field: 1..MaxFields]

\* Every gate shows what kind of thing it is about.
ASSUME IdsAssumption ==
  /\ Permissions \cap Forms = {}
  /\ Field \cap (Permissions \cup Messages \cup Writers \cup {None}) = {}

Working == [kind |-> "working", of |-> None, options |-> "none"]
PermissionGate(r) == [kind |-> "permission", of |-> r, options |-> "none"]
QuestionGate(f, o) == [kind |-> "question", of |-> f, options |-> o]

\* The adapter's own gates are questions with options of its own.
RevertGate(m) == QuestionGate(m, "revert")
CommandGate(c) == QuestionGate(c, "command")

Block ==
  {Working} \cup [kind : {"permission"}, of : Permissions, options : {"none"}]
  \cup [kind : {"question"}, of : Field, options : AgentOptions]
  \cup [kind : {"question"}, of : Messages, options : {"revert"}]
  \cup [kind : {"question"}, of : Writers, options : {"command"}]

Call(op, to, ok) == [op |-> op, to |-> to, ok |-> ok]

-------------------------------------------------------------------------------
Init ==
  /\ active \in Sessions
  /\ busy = {}
  /\ tail = [s \in Sessions |-> <<>>]
  /\ permission = [s \in Sessions |-> None]
  /\ questions = [s \in Sessions |-> <<>>]
  /\ revert = None
  /\ command = None
  /\ home = [r \in Requests |-> None]
  /\ open = {}
  /\ replied = {}
  /\ staged = [s \in Sessions |-> None]
  /\ sent = None

-------------------------------------------------------------------------------
(* Blocks *)

\* A block that is never popped.
Bury(s) == tail' = [tail EXCEPT ![s] = <<>>]

Pop(q) == SubSeq(q, 1, Len(q) - 1)

EndsWorking(q) == q # <<>> /\ Last(q) = Working

Spin(q) == IF EndsWorking(q) THEN q ELSE Append(q, Working)

\* An empty work label.
Retire(q) == IF EndsWorking(q) THEN Pop(q) ELSE q

\* The gate the digit keys answer.
Blocker == tail[active] # <<>> /\ Last(tail[active]) # Working

Top == Last(tail[active])

-------------------------------------------------------------------------------
(* What the user submits: only while no gate is live *)

\* Whatever ends in a reply, a notice or an error: memory commands, /diff, /model,
\* /agent, wrong usage.
Say ==
  /\ ~Blocker
  /\ Bury(active)
  /\ sent' = None
  /\ UNCHANGED <<active, busy, pending, server>>

\* An ordinary prompt, and /compact.
Prompt ==
  /\ ~Blocker
  /\ Bury(active)
  /\ \/ busy' = busy \cup {active} /\ sent' = Call("prompt", None, TRUE)
     \/ "rest" \in Faults /\ UNCHANGED busy /\ sent' = Call("prompt", None, FALSE)
  /\ UNCHANGED <<active, pending, server>>

\* when_idle
Refused ==
  /\ ~Blocker
  /\ active \in busy
  /\ Bury(active)
  /\ sent' = None
  /\ UNCHANGED <<active, busy, pending, server>>

Fork ==
  /\ ~Blocker
  /\ active \notin busy
  /\ Bury(active)
  /\ sent' \in {Call("fork", None, TRUE)} \cup
       (IF "rest" \in Faults THEN {Call("fork", None, FALSE)} ELSE {})
  /\ UNCHANGED <<active, busy, pending, server>>

\* The gate follows a block of the reverted files, unless there are none.
StageRevert(m) ==
  /\ ~Blocker
  /\ active \notin busy
  /\ \/ /\ revert' = m
        /\ staged' = [staged EXCEPT ![active] = m]
        /\ \E shown \in {<<>>, tail[active]} :
             /\ Len(shown) < MaxTail
             /\ tail' = [tail EXCEPT ![active] = Append(shown, RevertGate(m))]
        /\ sent' = Call("stage", m, TRUE)
     \/ /\ "rest" \in Faults
        /\ staged' \in {staged, [staged EXCEPT ![active] = m]}
        /\ Bury(active)
        /\ sent' = Call("stage", m, FALSE)
        /\ UNCHANGED revert
  /\ UNCHANGED <<active, busy, permission, questions, command, home, open, replied>>

\* run_command, of any command
RunCommand(c) ==
  /\ Bury(active)
  /\ \/ busy' = busy \cup {active} /\ sent' = Call("command", c, TRUE)
     \/ "rest" \in Faults /\ UNCHANGED busy /\ sent' = Call("command", c, FALSE)

\* execute_command of a command that only reads
ReadOnlyCommand ==
  /\ ~Blocker
  /\ active \notin busy
  /\ RunCommand(None)
  /\ UNCHANGED <<active, pending, server>>

\* Deliberately wrong: a second command takes the place of the pending one.
ReplaceCommand(c) ==
  /\ ~Blocker
  /\ active \notin busy
  /\ Len(tail[active]) < MaxTail
  /\ command' = c
  /\ tail' = [tail EXCEPT ![active] = Append(@, CommandGate(c))]
  /\ sent' = None
  /\ UNCHANGED <<active, busy, permission, questions, revert, server>>

\* execute_command of a command that may write
ExecuteCommand(c) ==
  /\ ~Blocker
  /\ active \notin busy
  /\ IF command = None
     THEN /\ Len(tail[active]) < MaxTail
          /\ command' = c
          /\ tail' = [tail EXCEPT ![active] = Append(@, CommandGate(c))]
     ELSE Bury(active) /\ UNCHANGED command
  /\ sent' = None
  /\ UNCHANGED <<active, busy, permission, questions, revert, server>>

-------------------------------------------------------------------------------
(* What the digit keys do: only while a gate is live *)

Close(r) == open' = open \ {r} /\ replied' = replied \cup {r}

\* A reply the adapter takes for failed: the request is not open any more, or the
\* call failed on its way there or back.
ReplyFails(r) ==
  \/ r \notin open /\ UNCHANGED <<open, replied>>
  \/ "rest" \in Faults /\ UNCHANGED <<open, replied>>
  \/ "rest" \in Faults /\ r \in open /\ Close(r)

ResolvePermission ==
  LET r == permission[active]
  IN /\ Blocker /\ Top.kind = "permission"
     /\ \/ /\ r = None     \* "Approved", without a call
           /\ Bury(active)
           /\ sent' = Call("local", None, TRUE)
           /\ UNCHANGED <<permission, open, replied>>
        \/ /\ r \in open
           /\ Close(r)
           /\ permission' = [permission EXCEPT ![active] = None]
           /\ tail' = [tail EXCEPT ![active] = Pop(@)]
           /\ sent' = Call("permission", r, TRUE)
        \/ /\ r # None
           /\ ReplyFails(r)
           /\ Bury(active)
           /\ sent' = Call("permission", r, FALSE)
           /\ UNCHANGED permission
     /\ UNCHANGED <<active, busy, questions, revert, command, home, staged>>

\* Deliberately wrong: any question is taken for the confirmation.
IsQuestion(b) == b.kind = "question"

IsRevertGate(b) == b.kind = "question" /\ b.options = "revert"
IsCommandGate(b) == b.kind = "question" /\ b.options = "command"

\* Which of the pending operations a question is taken for.
TakenForRevert == Blocker /\ IsRevertGate(Top) /\ revert # None
TakenForCommand == Blocker /\ ~TakenForRevert /\ IsCommandGate(Top) /\ command # None
TakenForForm == Blocker /\ Top.kind = "question" /\ ~TakenForRevert /\ ~TakenForCommand

CommitRevert ==
  /\ TakenForRevert
  /\ Bury(active)
  /\ \/ /\ active \in busy
        /\ sent' = None
        /\ UNCHANGED <<revert, staged>>
     \/ /\ active \notin busy
        /\ staged[active] # None
        /\ staged' = [staged EXCEPT ![active] = None]
        /\ revert' = None
        /\ sent' = Call("commit", active, TRUE)
     \/ /\ active \notin busy
        /\ \/ UNCHANGED staged /\ ("rest" \in Faults \/ staged[active] = None)
           \/ "rest" \in Faults /\ staged' = [staged EXCEPT ![active] = None]
        /\ sent' = Call("commit", active, FALSE)
        /\ UNCHANGED revert
  /\ UNCHANGED <<active, busy, permission, questions, command, home, open, replied>>

AbandonRevert ==
  /\ TakenForRevert
  /\ Bury(active)
  /\ \/ /\ staged' = [staged EXCEPT ![active] = None]
        /\ revert' = None
        /\ sent' = Call("abandon", active, TRUE)
     \/ /\ "rest" \in Faults
        /\ staged' \in {staged, [staged EXCEPT ![active] = None]}
        /\ sent' = Call("abandon", active, FALSE)
        /\ UNCHANGED revert
  /\ UNCHANGED <<active, busy, permission, questions, command, home, open, replied>>

ConfirmCommand ==
  /\ TakenForCommand
  /\ command' = None
  /\ RunCommand(command)
  /\ UNCHANGED <<active, permission, questions, revert, server>>

CancelCommand ==
  /\ TakenForCommand
  /\ command' = None
  /\ Bury(active)
  /\ sent' = None
  /\ UNCHANGED <<active, busy, permission, questions, revert, server>>

\* Deliberately wrong: the oldest question is answered first.
OldestQuestion(s) == Head(questions[s])

PendingQuestion(s) == Last(questions[s])

\* No form to deliver to: "Chose ...", unless the digit is beyond the options.
AnswerLocally ==
  /\ TakenForForm
  /\ questions[active] = <<>>
  /\ \/ Bury(active) /\ sent' = Call("local", None, TRUE)
     \/ UNCHANGED tail /\ sent' = None
  /\ UNCHANGED <<active, busy, pending, server>>

\* A digit beyond the options.
AnswerBeyond ==
  /\ TakenForForm
  /\ questions[active] # <<>>
  /\ Bury(active)
  /\ sent' = Call("beyond", PendingQuestion(active), FALSE)
  /\ UNCHANGED <<active, busy, pending, server>>

ReplyForm ==
  /\ TakenForForm
  /\ questions[active] # <<>>
  /\ Bury(active)
  /\ LET q == PendingQuestion(active)
     IN \/ /\ q.form \in open
           /\ Close(q.form)
           /\ questions' = [questions EXCEPT ![active] = Pop(@)]
           /\ sent' = Call("form", q, TRUE)
        \/ /\ ReplyFails(q.form)
           /\ sent' = Call("form", q, FALSE)
           /\ UNCHANGED questions
  /\ UNCHANGED <<active, busy, permission, revert, command, home, staged>>

-------------------------------------------------------------------------------
(* Other keys *)

\* Another tab, or a new one.
Select(s) ==
  /\ s # active
  /\ active' = s
  /\ sent' = None
  /\ UNCHANGED <<busy, tail, pending, server>>

Cancel ==
  /\ active \in busy
  /\ busy' = busy \ {active}
  /\ sent' = None
  /\ UNCHANGED <<active, tail, pending, server>>

-------------------------------------------------------------------------------
(* Events, as apply_raw, map_event and apply_event treat them *)

\* Deliberately wrong: no working indicator.
StartedUnseen(s) ==
  /\ busy' = busy \cup {s}
  /\ sent' = None
  /\ UNCHANGED <<active, tail, pending, server>>

\* step.started, execution.started
Started(s) ==
  /\ busy' = busy \cup {s}
  /\ Len(Spin(tail[s])) <= MaxTail
  /\ tail' = [tail EXCEPT ![s] = Spin(@)]
  /\ sent' = None
  /\ UNCHANGED <<active, pending, server>>

\* step.ended, execution.succeeded
Ended(s) ==
  /\ busy' = busy \ {s}
  /\ tail' = [tail EXCEPT ![s] = Retire(@)]
  /\ sent' = None
  /\ UNCHANGED <<active, pending, server>>

\* session.idle; a failed step or execution also pushes an error
EndedOtherwise(s) ==
  /\ busy' = busy \ {s}
  /\ UNCHANGED tail \/ Bury(s)
  /\ sent' = None
  /\ UNCHANGED <<active, pending, server>>

Compacting(s) ==
  /\ Len(Spin(tail[s])) <= MaxTail
  /\ tail' = [tail EXCEPT ![s] = Spin(@)]
  /\ sent' = None
  /\ UNCHANGED <<active, busy, pending, server>>

\* Text, reasoning, tools, shells, errors, the end of a compaction.
Output(s) ==
  /\ Bury(s)
  /\ sent' = None
  /\ UNCHANGED <<active, busy, pending, server>>

\* Events arrive in the order of the server: those of earlier replies first.
New(s, r) == home[r] = None /\ \A e \in replied : home[e] # s

AskPermission(s, r) ==
  /\ New(s, r)
  /\ Len(tail[s]) < MaxTail
  /\ home' = [home EXCEPT ![r] = s]
  /\ open' = open \cup {r}
  /\ permission' = [permission EXCEPT ![s] = r]
  /\ tail' = [tail EXCEPT ![s] = Append(@, PermissionGate(r))]
  /\ sent' = None
  /\ UNCHANGED <<active, busy, questions, revert, command, replied, staged>>

\* pending_from_form and map_form_created, for the fields of one form.
FormFields(f, n) == [k \in 1..n |-> [form |-> f, field |-> k]]
FormGates(f, n, o) == [k \in 1..n |-> QuestionGate(FormFields(f, n)[k], o)]

\* form.created: a gate and an entry for every field.
AskForm(s, f) ==
  /\ New(s, f)
  /\ home' = [home EXCEPT ![f] = s]
  /\ open' = open \cup {f}
  /\ \E n \in 1..MaxFields, o \in AgentOptions :
       /\ Len(tail[s]) + n <= MaxTail
       /\ questions' = [questions EXCEPT ![s] = @ \o FormFields(f, n)]
       /\ tail' = [tail EXCEPT ![s] = @ \o FormGates(f, n, o)]
  /\ sent' = None
  /\ UNCHANGED <<active, busy, permission, revert, command, replied, staged>>

AnsweredElsewhere(r) ==
  /\ r \in open
  /\ \/ r \in Permissions /\ "permission" \in Elsewhere
     \/ r \in Forms /\ "form" \in Elsewhere
  /\ Close(r)
  /\ sent' = None
  /\ UNCHANGED <<active, busy, tail, pending, home, staged>>

\* The fields of a form leave a list, and the others keep their order.
Besides(kept, q, r) == IF q.form = r THEN kept ELSE Append(kept, q)

WithoutForm(list, r) ==
  LET kept[n \in 0..Len(list)] ==
        IF n = 0 THEN <<>> ELSE Besides(kept[n - 1], list[n], r)
  IN kept[Len(list)]

\* permission.v2.replied forgets whatever is pending in the session; form.replied
\* forgets the fields of that form.  Neither touches the blocks.
Replied(r) ==
  /\ r \in replied
  /\ replied' = replied \ {r}
  /\ IF r \in Permissions
     THEN permission' = [permission EXCEPT ![home[r]] = None] /\ UNCHANGED questions
     ELSE questions' = [questions EXCEPT ![home[r]] = WithoutForm(@, r)] /\ UNCHANGED permission
  /\ sent' = None
  /\ UNCHANGED <<active, busy, tail, revert, command, home, open, staged>>

\* The event is lost with the stream.
Missed(r) ==
  /\ "gap" \in Faults
  /\ r \in replied
  /\ replied' = replied \ {r}
  /\ sent' = None
  /\ UNCHANGED <<active, busy, tail, pending, home, open, staged>>

\* connection.lost; connection.restored pushes a notice like any other Output.
ConnectionLost ==
  /\ "gap" \in Faults
  /\ busy # {}
  /\ busy' = {}
  /\ Bury(active)
  /\ sent' = None
  /\ UNCHANGED <<active, pending, server>>

-------------------------------------------------------------------------------
Next ==
  \/ Say \/ Prompt \/ Refused \/ Fork \/ ReadOnlyCommand
  \/ \E m \in Messages : StageRevert(m)
  \/ \E c \in Writers : ExecuteCommand(c)
  \/ ResolvePermission
  \/ CommitRevert \/ AbandonRevert \/ ConfirmCommand \/ CancelCommand
  \/ AnswerLocally \/ AnswerBeyond \/ ReplyForm
  \/ Cancel \/ ConnectionLost
  \/ \E s \in Sessions :
       \/ Select(s)
       \/ Started(s) \/ Ended(s) \/ EndedOtherwise(s) \/ Compacting(s) \/ Output(s)
       \/ \E r \in Permissions : AskPermission(s, r)
       \/ \E f \in Forms : AskForm(s, f)
  \/ \E r \in Requests : AnsweredElsewhere(r) \/ Replied(r) \/ Missed(r)

Spec == Init /\ [][Next]_vars

-------------------------------------------------------------------------------
(* Correctness *)

\* Besides the types: working indicators in a row collapse into one.
TypeOK ==
  /\ active \in Sessions
  /\ busy \subseteq Sessions
  /\ tail \in [Sessions -> Seq(Block)]
  /\ \A s \in Sessions : \A i \in 1..Len(tail[s]) - 1 :
       tail[s][i] = Working => tail[s][i + 1] # Working
  /\ permission \in [Sessions -> Permissions \cup {None}]
  /\ questions \in [Sessions -> Seq(Field)]
  /\ revert \in Messages \cup {None}
  /\ command \in Writers \cup {None}
  /\ home \in [Requests -> Sessions \cup {None}]
  /\ open \subseteq Requests
  /\ replied \subseteq Requests
  /\ staged \in [Sessions -> Messages \cup {None}]

\* There is one pending command and a transcript per session: a command gate that can
\* still become live, in whatever session, is the only one and asks for that command.
CommandGateIsPending ==
  \A s, t \in Sessions : \A i \in DOMAIN tail[s], j \in DOMAIN tail[t] :
    tail[s][i].options = "command" /\ tail[t][j].options = "command"
      => s = t /\ i = j /\ tail[s][i].of = command

Made(op) == sent' # None /\ sent'.op = op

\* "Slash commands that write files always confirm before execution": one is only sent
\* by the answer to the gate that names it.
ConfirmedCommandRuns ==
  [][Made("command") /\ sent'.to # None
       => Blocker /\ Top = CommandGate(sent'.to)]_vars

\* A boundary is committed or given up only by the answer to the gate that shows it, in
\* the session where it is staged: "a live agent question asked while a boundary is
\* staged is never eaten as a confirmation", nor is the gate of another boundary.
RevertAnswersWhatItShows ==
  [][Made("commit") \/ Made("abandon")
       => Blocker /\ Top = RevertGate(staged[active])]_vars

\* "Busy guard for ops with unverified during-generation behavior (fork, revert, command
\* exec)": none of them is sent for a session with a running turn, although run_command
\* and abandon have no such guard.
NoOperationWhileBusy ==
  [][Made("fork") \/ Made("stage") \/ Made("commit") \/ Made("abandon") \/ Made("command")
       => active \notin busy]_vars

\* "answer_question targets the trailing gate and pops the matching entry": the answer
\* to an agent's question goes to the field that question is about.
QuestionReachesItsForm ==
  [][Made("form") /\ Top.of \in Field => sent'.to = Top.of]_vars

===============================================================================
