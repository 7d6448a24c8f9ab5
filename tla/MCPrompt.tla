--------------------------------- MODULE MCPrompt ---------------------------------
(* Prompt on a small instance. *)
EXTENDS Prompt

\* Two lines, the second one of two characters; and a lone line end.
MCPastes == {<<<<Blank>>, <<CHOOSE c \in Letters : TRUE, Blank>>>>, <<<<>>, <<>>>>}
MCRecalls == {<<CHOOSE c \in Letters : TRUE>>}
=============================================================================
