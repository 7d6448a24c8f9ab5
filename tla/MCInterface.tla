------------------------------- MODULE MCInterface -------------------------------
(* Interface on a small instance. *)
EXTENDS Interface

MCDemo == <<"gate">>

MCTwoLines == {"two"}
MCFirstLine == [t \in Texts \cup Items \cup {Slash} |-> IF t = "two" THEN "init" ELSE t]
=============================================================================
