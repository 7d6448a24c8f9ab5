------------------------------ MODULE MCMemoryApi ------------------------------
EXTENDS MemoryApi

Flag(is, val) == [is |-> is, val |-> val]
Word(val) == [is |-> "word", val |-> val]

AnyKey == CHOOSE k \in Keys : TRUE

\* Lines of every verb, over one key.
MCLines ==
  LET key == [is |-> "keyed", val |-> AnyKey]
      word == Word(AnyKey)
      project == Flag("scope", "project")
      pinned == Flag("pinned", "given")
      writes == {<<key, word>>, <<project, key, word>>, <<pinned, word, word>>,
                 <<key, Word("bad")>>}
      keyed == {<<word>>, <<word, project>>}
      exact == {<<[is |-> "id", id |-> 1]>>}
      reads == {<<>>, <<project>>, <<pinned>>}
      shows == {<<word>>, <<word, Flag("all", "given")>>}
      first == [is |-> "number", val |-> "1"]
      triage == {<<>>, <<first>>, <<[is |-> "every", val |-> "all"]>>}
  IN  [verb: {"remember", "update"}, tokens: writes]
        \cup [verb: {"forget", "pin"}, tokens: keyed]
        \cup [verb: {"unpin"}, tokens: exact]
        \cup [verb: {"list"}, tokens: reads]
        \cup [verb: {"show"}, tokens: shows]
        \cup [verb: {"suggest", "confirm", "discard", "help"}, tokens: triage]
        \cup [verb: {"confirm"}, tokens: {<<project, Flag("as", "preference"), first>>}]

\* A memory confirmed from a proposal, with a field of a later program, and a
\* record of a later version.
MCFound ==
  LET line == [v |-> 1, id |-> 0, key |-> "none", kind |-> "fact", scope |-> "user",
               content |-> <<Word(AnyKey)>>, source |-> "user", status |-> "ACTIVE",
               pinned |-> FALSE, created_at |-> 0, updated_at |-> 0, method |-> "rule"]
  IN  {line @@ [tags |-> "none"], [line EXCEPT !.v = 2]}

\* A statement that was proposed, and one that no rule proposes.
MCQueued ==
  {[scope |-> "user", kind |-> "fact", text |-> <<Word(AnyKey)>>],
   [scope |-> "project", kind |-> "preference", text |-> <<Word(AnyKey), Word("bad")>>]}

\* What was answered has no influence on what follows.
Unanswered == <<file, corpus, lastId, now, opened, pc, cmd, got, during>>

ProcSymmetry == Permutations(Procs)
=================================================================================
