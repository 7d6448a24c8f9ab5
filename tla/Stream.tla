--------------------------------- MODULE Stream ---------------------------------
(***************************************************************************)
(* Blocks, and what one event does to the blocks of a transcript           *)
(* (stream.rs): both backends bring their events through apply_event.      *)
(***************************************************************************)
EXTENDS Integers, Sequences, SequencesExt

CONSTANT None

Block(kind, text, detail, state, output) ==
  [kind |-> kind, text |-> text, detail |-> detail, state |-> state, output |-> output]

Text(kind, text) == Block(kind, text, None, "done", None)
Note(kind) == Text(kind, <<>>)
Tool(kind, c, state, output) == Block(kind, <<>>, c, state, output)

Working == {"working", "compacting"}   \* the labels of Block::Working
Runs == {"tool", "shell"}
Kinds ==                               \* a gate is a permission or a question
  Working \cup Runs \cup {"user", "assistant", "thinking", "notice", "error", "edits", "plan",
                        "permission", "question", "gate"}

ASSUME NoneAssumption == None \notin Kinds

-------------------------------------------------------------------------------
(* apply_event *)

LastOf(bs, kinds) ==
  LET at == {i \in DOMAIN bs : bs[i].kind \in kinds}
  IN IF at = {} THEN 0 ELSE CHOOSE i \in at : \A j \in at : j <= i

\* Deliberately wrong: the first run that is not over is updated.
UpdateFirst(bs, state, output) ==
  LET at == {i \in DOMAIN bs : bs[i].kind \in Runs}
      first == CHOOSE i \in at : \A j \in at : i <= j
  IN IF at = {} THEN bs ELSE [bs EXCEPT ![first].state = state, ![first].output = output]

\* UpdateTool: the latest run, whichever call it is of; a shell keeps its output.
UpdateTool(bs, state, output) ==
  LET i == LastOf(bs, Runs)
  IN IF i = 0 THEN bs
     ELSE IF bs[i].kind = "tool"
          THEN [bs EXCEPT ![i].state = state, ![i].output = output]
          ELSE [bs EXCEPT ![i].state = state]

ShellLine(bs, c) ==
  LET i == LastOf(bs, {"shell"}) IN IF i = 0 THEN bs ELSE [bs EXCEPT ![i].output = c]

LastKind(bs) == IF bs = <<>> THEN None ELSE Last(bs).kind

\* Push: consecutive working indicators collapse into one.
Push(bs, b) ==
  IF b.kind \in Working /\ LastKind(bs) \in Working
  THEN Append(Front(bs), b) ELSE Append(bs, b)

\* Deliberately wrong: the latest text of the kind goes on, wherever it is.
ChunkBack(bs, kind, f) ==
  LET i == LastOf(bs, {kind})
  IN IF i = 0 THEN Append(bs, Text(kind, <<f>>)) ELSE [bs EXCEPT ![i].text = Append(@, f)]

\* Chunk and ThinkChunk
Chunk(bs, kind, f) ==
  IF LastKind(bs) = kind
  THEN [bs EXCEPT ![Len(bs)].text = Append(@, f)] ELSE Append(bs, Text(kind, <<f>>))

\* WorkLabel with a label
Label(bs, kind) ==
  IF LastKind(bs) \in Working THEN Append(Front(bs), Note(kind)) ELSE Append(bs, Note(kind))

\* Deliberately wrong: an indicator is never taken away.
KeepLabel(bs) == bs

\* WorkLabel(""): only an indicator that is last is retired.
Retire(bs) == IF LastKind(bs) \in Working THEN Front(bs) ELSE bs
=============================================================================
