---------------------------------- MODULE Prompt ----------------------------------
(***************************************************************************)
(* The buffer of the prompt (prompt.rs): a sequence of lines, a cursor of  *)
(* a row and a column, and for each row the first character on the screen. *)
(*                                                                         *)
(* Each action is one event: the element (dispatch_event) and the session  *)
(* view (handle_action) that it dispatches to, with no frame in between.   *)
(* What the other keys of the view do is in module Interface; here they    *)
(* only empty the buffer or show a recalled line.                          *)
(***************************************************************************)
EXTENDS Integers, Sequences, SequencesExt

CONSTANTS Letters, Blank, \* characters
          Newline,
          Pastes,         \* pasted texts, as their lines without control characters
          Recalls,        \* lines that the history or the menu puts into the buffer
          Widths,         \* columns left for the text in a frame
          MaxChars        \* bound: length of what is typed, line ends included

Chars == Letters \cup {Blank}

ASSUME CharsAssumption == Blank \notin Letters /\ Newline \notin Chars
ASSUME PastesAssumption == Pastes \subseteq Seq(Seq(Chars)) \ {<<>>} /\ Recalls \subseteq Seq(Chars)
ASSUME WidthsAssumption == Widths \subseteq Nat \ {0} /\ MaxChars \in Nat

VARIABLE prompt

\* Rows count from 1 here; a column is the number of characters before the cursor.
New == [lines |-> <<<<>>>>, row |-> 1, col |-> 0, h_offsets |-> <<0>>]

Line(p) == p.lines[p.row]
Before(p) == SubSeq(Line(p), 1, p.col)
After(p) == SubSeq(Line(p), p.col + 1, Len(Line(p)))

\* s with the n elements from i on replaced by those of t.
Splice(s, i, n, t) == SubSeq(s, 1, i - 1) \o t \o SubSeq(s, i + n, Len(s))

OnLine(p, line, col) == [p EXCEPT !.lines[p.row] = line, !.col = col]

-------------------------------------------------------------------------------
(* PromptState *)

\* The first part ends the line the cursor is in, the last one begins what was after it.
Insert(p, parts) ==
  LET n == Len(parts)
      part(i) == (IF i = 1 THEN Before(p) ELSE <<>>) \o parts[i]
                   \o (IF i = n THEN After(p) ELSE <<>>)
  IN [lines |-> Splice(p.lines, p.row, 1, [i \in 1..n |-> part(i)]),
      row |-> p.row + n - 1,
      col |-> IF n = 1 THEN p.col + Len(parts[1]) ELSE Len(parts[n]),
      h_offsets |-> Splice(p.h_offsets, p.row + 1, 0, [i \in 1..(n - 1) |-> 0])]

\* Deliberately wrong: the offset of the line that goes stays.
JoinKeepsOffset(p, r) ==
  [p EXCEPT !.lines = Splice(@, r, 2, <<p.lines[r] \o p.lines[r + 1]>>)]

\* Row r takes the next one in.
Join(p, r) ==
  [p EXCEPT !.lines = Splice(@, r, 2, <<p.lines[r] \o p.lines[r + 1]>>),
            !.h_offsets = Splice(@, r + 1, 1, <<>>)]

\* Deliberately wrong: the cursor goes to the end of the joined line.
BackspaceToEnd(p) ==
  IF p.col > 0 THEN OnLine(p, SubSeq(Line(p), 1, p.col - 1) \o After(p), p.col - 1)
  ELSE IF p.row > 1
       THEN [Join(p, p.row - 1) EXCEPT !.row = p.row - 1,
                                       !.col = Len(p.lines[p.row - 1]) + Len(Line(p))]
       ELSE p

Backspace(p) ==
  IF p.col > 0 THEN OnLine(p, SubSeq(Line(p), 1, p.col - 1) \o After(p), p.col - 1)
  ELSE IF p.row > 1
       THEN [Join(p, p.row - 1) EXCEPT !.row = p.row - 1, !.col = Len(p.lines[p.row - 1])]
       ELSE p

Delete(p) ==
  IF p.col < Len(Line(p))
  THEN OnLine(p, Before(p) \o SubSeq(Line(p), p.col + 2, Len(Line(p))), p.col)
  ELSE IF p.row < Len(p.lines) THEN Join(p, p.row) ELSE p

MoveTo(p, row, col) == [p EXCEPT !.row = row, !.col = col]

MoveLeft(p) ==
  IF p.col > 0 THEN MoveTo(p, p.row, p.col - 1)
  ELSE IF p.row > 1 THEN MoveTo(p, p.row - 1, Len(p.lines[p.row - 1]))
       ELSE p

MoveRight(p) ==
  IF p.col < Len(Line(p)) THEN MoveTo(p, p.row, p.col + 1)
  ELSE IF p.row < Len(p.lines) THEN MoveTo(p, p.row + 1, 0)
       ELSE p

MoveHome(p) == MoveTo(p, p.row, 0)
MoveEnd(p) == MoveTo(p, p.row, Len(Line(p)))

AtMost(n, m) == IF n <= m THEN n ELSE m

\* Vertical moves keep the column, as far as the line goes.
ToRow(p, row) == MoveTo(p, row, AtMost(p.col, Len(p.lines[row])))
MoveUp(p) == IF p.row > 1 THEN ToRow(p, p.row - 1) ELSE p
MoveDown(p) == IF p.row < Len(p.lines) THEN ToRow(p, p.row + 1) ELSE p

\* Words are what blanks separate.
WordStart(p) ==
  LET word == Max({0} \cup {k \in 1..p.col : Line(p)[k] # Blank})
  IN Max({0} \cup {k \in 1..word : Line(p)[k] = Blank})

WordEnd(p) ==
  LET size == Len(Line(p))
      gap == Min({size} \cup {k \in p.col..(size - 1) : Line(p)[k + 1] = Blank})
  IN Min({size} \cup {k \in gap..(size - 1) : Line(p)[k + 1] # Blank})

MoveWordBack(p) == MoveTo(p, p.row, WordStart(p))
MoveWordForward(p) == MoveTo(p, p.row, WordEnd(p))

KillToStart(p) == OnLine(p, After(p), 0)
KillToEnd(p) == OnLine(p, Before(p), p.col)
KillWordBack(p) == OnLine(p, SubSeq(Line(p), 1, WordStart(p)) \o After(p), WordStart(p))

\* One line, the cursor at its end.
SetText(line) == [New EXCEPT !.lines = <<line>>, !.col = Len(line)]

\* What `layout` writes back: the offset of the row of the cursor, so that the cursor is
\* on the screen.
Layout(p, avail) ==
  LET kept == AtMost(p.h_offsets[p.row], Len(Line(p)))
      shown == AtMost(kept, p.col)
  IN [p EXCEPT !.h_offsets[p.row] =
        IF p.col >= shown + avail THEN p.col - avail + 1 ELSE shown]

-------------------------------------------------------------------------------
Size(lines) == FoldLeft(LAMBDA n, l : n + Len(l), Len(lines) - 1, lines)

Init == prompt = New

Edit(p) == prompt' = p

Typed(parts) ==
  /\ Size(prompt.lines) + Size(parts) <= MaxChars
  /\ Edit(Insert(prompt, parts))

Type == \E c \in Chars : Typed(<<<<c>>>>)
NewlineKey == Typed(<<<<>>, <<>>>>)
Paste == \E parts \in Pastes : Typed(parts)

BackspaceKey == Edit(Backspace(prompt))
DeleteKey == Edit(Delete(prompt))
Left == Edit(MoveLeft(prompt))
Right == Edit(MoveRight(prompt))
Home == Edit(MoveHome(prompt))
End == Edit(MoveEnd(prompt))
WordBack == Edit(MoveWordBack(prompt))
WordForward == Edit(MoveWordForward(prompt))
KillStart == Edit(KillToStart(prompt))
KillEnd == Edit(KillToEnd(prompt))
KillWord == Edit(KillWordBack(prompt))

\* The element moves the cursor, to find out whether there is a line to move to, and the
\* action it dispatches moves it again.  At the edge the key is the session's.
Up == prompt.row > 1 /\ Edit(MoveUp(MoveUp(prompt)))
Down == prompt.row < Len(prompt.lines) /\ Edit(MoveDown(MoveDown(prompt)))

\* Enter and ctrl-c.
Clear == Edit(New)

\* A recall needs a buffer of one line.
Recall ==
  /\ Len(prompt.lines) = 1
  /\ \E line \in Recalls : Edit(SetText(line))

Frame == \E avail \in Widths : Edit(Layout(prompt, avail))

Next ==
  \/ Type \/ NewlineKey \/ Paste
  \/ BackspaceKey \/ DeleteKey \/ KillStart \/ KillEnd \/ KillWord
  \/ Left \/ Right \/ Home \/ End \/ WordBack \/ WordForward \/ Up \/ Down
  \/ Clear \/ Recall \/ Frame

Spec == Init /\ [][Next]_prompt

-------------------------------------------------------------------------------
(* Properties *)

\* The cursor stands in the buffer and every line has an offset: the code indexes the lines
\* with the row, splits them at the column and removes offsets at the row, and would panic
\* otherwise.
TypeOK ==
  /\ prompt.lines \in Seq(Seq(Chars))
  /\ prompt.row \in DOMAIN prompt.lines
  /\ prompt.col \in 0..Len(Line(prompt))
  /\ prompt.h_offsets \in Seq(Nat) /\ Len(prompt.h_offsets) = Len(prompt.lines)

\* text(), and the cursor in it.
Joined == FoldLeft(LAMBDA t, l : t \o <<Newline>> \o l, Head(prompt.lines), Tail(prompt.lines))
Position ==
  FoldLeft(LAMBDA n, l : n + Len(l) + 1, prompt.col, SubSeq(prompt.lines, 1, prompt.row - 1))

Flat(parts) == FoldLeft(LAMBDA t, l : t \o <<Newline>> \o l, Head(parts), Tail(parts))

Text == INSTANCE FlatText WITH
  text <- Joined, pos <- Position,
  Inserts <- {<<c>> : c \in Chars \cup {Newline}} \cup {Flat(parts) : parts \in Pastes} \cup Recalls

\* The lines, the cursor and the joins and splits at their ends are one text with one
\* position: no edit at an edge loses, doubles or misplaces a character.
OneText == Text!Spec

\* "Word motion and line kills (readline-style, applied once via the session action - unlike
\* arrows, which the element pre-applies)": a key moves the cursor by at most one row.
OneRowPerKey ==
  [][prompt'.lines = prompt.lines => prompt'.row \in (prompt.row - 1)..(prompt.row + 1)]_prompt
=============================================================================
