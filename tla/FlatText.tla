--------------------------------- MODULE FlatText ---------------------------------
(***************************************************************************)
(* What an editor of a text is to its user: one string, line ends          *)
(* included, and one position in it.  Typing and pasting insert at the     *)
(* position, a deletion takes away what stands between two positions, one  *)
(* of them the cursor, and everything else only moves.                     *)
(***************************************************************************)
EXTENDS Integers, Sequences, FiniteSetsExt

CONSTANTS Newline,
          Inserts    \* the strings that can be typed or pasted

VARIABLES text, pos

Init == text = <<>> /\ pos = 0

LineStart == Max({0} \cup {k \in 1..pos : text[k] = Newline})
LineEnd == Min({Len(text)} \cup {k \in pos..(Len(text) - 1) : text[k + 1] = Newline})

Insert(t) ==
  /\ text' = SubSeq(text, 1, pos) \o t \o SubSeq(text, pos + 1, Len(text))
  /\ pos' = pos + Len(t)

\* The text from position i to position j goes.
Cut(i, j) ==
  /\ 0 <= i /\ i <= pos /\ pos <= j /\ j <= Len(text)
  /\ text' = SubSeq(text, 1, i) \o SubSeq(text, j + 1, Len(text))
  /\ pos' = i

\* One character in either direction, a line end being one, or a part of the line.
Delete ==
  \/ Cut(pos - 1, pos)
  \/ Cut(pos, pos + 1)
  \/ \E i \in LineStart..pos : Cut(i, pos)
  \/ Cut(pos, LineEnd)

\* By a character, inside the line, or into another line.
Move ==
  /\ pos' \in {pos - 1, pos + 1} \cup (LineStart..LineEnd)
              \cup (0..(LineStart - 1)) \cup ((LineEnd + 1)..Len(text))
  /\ 0 <= pos' /\ pos' <= Len(text)
  /\ UNCHANGED text

\* The whole text is taken away, or replaced by a line.
Replace ==
  /\ text' \in {<<>>} \cup Inserts
  /\ pos' = Len(text')

Next == (\E t \in Inserts : Insert(t)) \/ Delete \/ Move \/ Replace

Spec == Init /\ [][Next]_<<text, pos>>
=============================================================================
