-------------------------------- MODULE Commands --------------------------------
(***************************************************************************)
(* The /memory command line (src/backend/memory/command.rs): how a line    *)
(* that follows the prefix becomes a command.  A line is a verb and the    *)
(* tokens after it; a token is classified by what the parser asks of it:   *)
(*                                                                         *)
(*   scope kind as   --scope=, --kind=, --as= with a value, "bad" when the *)
(*                   value is not one the flag knows                       *)
(*   pinned all confirm dashes    --pinned, --all, --confirm, another --x  *)
(*   keyed           a word that ends with a colon, "bad" when no key      *)
(*                   stands before it                                      *)
(*   word            any other word, "bad" when it is no valid key         *)
(*   number every id      a whole number, the word all, a record id        *)
(*                                                                         *)
(* Every usage error is one value: none changes anything.                  *)
(***************************************************************************)
EXTENDS Integers, FiniteSets, Sequences, SequencesExt

CONSTANTS Keys,     \* words that are valid keys
          Ids       \* record ids

Flags == [is: {"scope"}, val: {"user", "project", "bad"}]
           \cup [is: {"kind", "as"}, val: {"fact", "preference", "bad"}]
           \cup [is: {"pinned", "all", "confirm", "dashes"}, val: {"given"}]

Token == Flags
           \cup [is: {"keyed", "word"}, val: Keys \cup {"bad"}]
           \cup [is: {"number"}, val: {"0", "1"}]
           \cup [is: {"every"}, val: {"all"}]
           \cup [is: {"id"}, id: Ids]

UsageError == [verb |-> "error"]

-------------------------------------------------------------------------------
Dashed(token) == token \in Flags

\* Flags of a write, also those it refuses; any other token starts the content.
Known(token) == token.is \in {"scope", "kind", "pinned", "all"}

\* Only these flags are given, each with a value it knows.
OnlyFlags(tokens, names) ==
  \A token \in Range(tokens) : Dashed(token) => token.is \in names /\ token.val # "bad"

Words(tokens) == SelectSeq(tokens, LAMBDA token : ~Dashed(token))

Given(tokens, name) == {i \in DOMAIN tokens : tokens[i].is = name}

\* The flag that comes last wins.
Value(tokens, name, default) ==
  IF Given(tokens, name) = {} THEN default ELSE tokens[Max(Given(tokens, name))].val

\* An id by its shape, everything else as a key.
IsHandle(token) == token.is \in {"id", "number", "every"} \/ (token.is = "word" /\ token.val # "bad")

AsHandle(token) == IF token.is = "id"
                   THEN [by |-> "id", value |-> token.id]
                   ELSE [by |-> "key", value |-> token.val]

\* A proposal by its place in the list, which starts at 1, or by its id.
IsTarget(token) == token.is = "id" \/ (token.is = "number" /\ token.val # "0")

-------------------------------------------------------------------------------
\* remember and update: the leading flags, then the content as it was typed, of
\* which a first word with a colon is the key.
ParseWrite(verb, tokens) ==
  LET content == {i \in DOMAIN tokens : ~Known(tokens[i])}
      flags == IF content = {} THEN tokens ELSE SubSeq(tokens, 1, Min(content) - 1)
      rest  == IF content = {} THEN <<>> ELSE SubSeq(tokens, Min(content), Len(tokens))
      keyed == rest # <<>> /\ Head(rest).is = "keyed"
      text  == IF keyed THEN Tail(rest) ELSE rest
  IN  IF \/ ~OnlyFlags(flags, {"scope", "kind", "pinned"})
         \/ text = <<>>
         \/ keyed /\ Head(rest).val = "bad"
         \/ verb = "update" /\ ~keyed
      THEN UsageError
      ELSE [verb |-> verb,
            key |-> IF keyed THEN Head(rest).val ELSE "none",
            kind |-> Value(flags, "kind", "fact"),
            pinned |-> Given(flags, "pinned") # {},
            scope |-> Value(flags, "scope", "user"),
            text |-> text]

\* forget, pin and unpin.
ParseHandleCommand(verb, tokens) ==
  LET words == Words(tokens)
  IN  IF OnlyFlags(tokens, {"scope"}) /\ Len(words) = 1 /\ IsHandle(words[1])
      THEN [verb |-> verb, handle |-> AsHandle(words[1]),
            scope |-> Value(tokens, "scope", "user")]
      ELSE UsageError

ParseList(tokens) ==
  IF OnlyFlags(tokens, {"scope", "kind", "pinned"}) /\ Words(tokens) = <<>>
  THEN [verb |-> "list", kind |-> Value(tokens, "kind", "any"),
        pinned |-> Given(tokens, "pinned") # {},
        scope |-> Value(tokens, "scope", "default")]
  ELSE UsageError

ParseShow(tokens) ==
  LET words == Words(tokens)
  IN  IF OnlyFlags(tokens, {"scope", "all"}) /\ Len(words) = 1 /\ IsHandle(words[1])
      THEN [verb |-> "show", handle |-> AsHandle(words[1]),
            all |-> Given(tokens, "all") # {},
            scope |-> Value(tokens, "scope", "default")]
      ELSE UsageError

ParseConfirm(tokens) ==
  LET words == Words(tokens)
  IN  IF OnlyFlags(tokens, {"scope", "as"}) /\ Len(words) = 1 /\ IsTarget(words[1])
      THEN [verb |-> "confirm", target |-> words[1],
            scope |-> Value(tokens, "scope", "proposed"),
            kind |-> Value(tokens, "as", "proposed")]
      ELSE UsageError

ParseDiscard(tokens) ==
  LET words == Words(tokens)
      sure  == Given(tokens, "confirm") # {}
  IN  IF ~OnlyFlags(tokens, {"confirm"}) \/ Len(words) # 1 THEN UsageError
      ELSE IF words[1].is = "every" THEN [verb |-> "discard", every |-> TRUE, sure |-> sure]
      ELSE IF IsTarget(words[1]) /\ ~sure
           THEN [verb |-> "discard", every |-> FALSE, target |-> words[1]]
           ELSE UsageError

Parse(line) ==
  CASE line.verb \in {"remember", "update"}     -> ParseWrite(line.verb, line.tokens)
    [] line.verb \in {"forget", "pin", "unpin"} -> ParseHandleCommand(line.verb, line.tokens)
    [] line.verb = "list"    -> ParseList(line.tokens)
    [] line.verb = "show"    -> ParseShow(line.tokens)
    [] line.verb = "confirm" -> ParseConfirm(line.tokens)
    [] line.verb = "discard" -> ParseDiscard(line.tokens)
    [] line.verb = "suggest" /\ line.tokens = <<>> -> [verb |-> "suggest"]
    [] line.verb = "help" /\ line.tokens = <<>>    -> [verb |-> "help"]
    [] OTHER -> UsageError
===============================================================================
