-------------------------------- MODULE Selection --------------------------------
(***************************************************************************)
(* Which records of the corpus are shown, in which order, and which fit    *)
(* the block a new session starts with (src/backend/memory/record.rs,      *)
(* budget.rs).  A record has the fields scope, status, pinned, updated,    *)
(* created, id and content; ids are the numbers generate_id made, so that  *)
(* cmp_id compares them as numbers.                                        *)
(***************************************************************************)
EXTENDS Integers, FiniteSets, Sequences, SequencesExt

CONSTANTS BudgetChars,   \* DEFAULT_BUDGET_CHARS
          MaxEncoded,    \* MAX_ENCODED_BYTES
          HeaderSize, BannerSize, EntrySize   \* bytes of the fixed lines of the block

ASSUME SizesAssumption == {BudgetChars, MaxEncoded, HeaderSize, BannerSize, EntrySize} \subseteq Nat

\* Project-pinned, user-pinned, project, user.
Tier(record) == (IF record.pinned THEN 0 ELSE 2) + (IF record.scope = "project" THEN 0 ELSE 1)

ShowRank(record) == IF record.status = "ACTIVE" THEN 0 ELSE 1

\* What is equal in the first comparison is decided by the next one.
Recency(a, b) ==
  \/ a.updated > b.updated
  \/ a.updated = b.updated /\ a.created > b.created
  \/ a.updated = b.updated /\ a.created = b.created /\ a.id < b.id

CompareD24(a, b) == Tier(a) < Tier(b) \/ (Tier(a) = Tier(b) /\ Recency(a, b))

CompareShow(a, b) == ShowRank(a) < ShowRank(b) \/ (ShowRank(a) = ShowRank(b) /\ Recency(a, b))

\* The records as a sequence: the place of each is the number of those before it.
Arranged(records, before) ==
  [i \in 1..Cardinality(records) |->
     CHOOSE r \in records : Cardinality({q \in records : <<q, r>> \in before}) = i - 1]

\* Deliberately wrong: the most recent record first, pinned or not.
OrderRecent(records) ==
  Arranged(records, {pair \in records \X records : Recency(pair[1], pair[2])})

OrderActive(records) ==
  Arranged(records, {pair \in records \X records : CompareD24(pair[1], pair[2])})

OrderShow(records) ==
  Arranged(records, {pair \in records \X records : CompareShow(pair[1], pair[2])})

-------------------------------------------------------------------------------
\* Characters are counted in words: a record costs its words and a newline.
Cost(record) == Len(record.content.text) + 1

Chars(records) ==
  LET sum[n \in 0..Len(records)] == IF n = 0 THEN 0 ELSE sum[n - 1] + Cost(records[n])
  IN  sum[Len(records)]

\* A banner stands before each run of records of one scope.
Banners(records) ==
  Cardinality({i \in DOMAIN records : i = 1 \/ records[i].scope # records[i - 1].scope})

EncodedSize(records) ==
  IF records = <<>> THEN 0
  ELSE HeaderSize + BannerSize * Banners(records) + EntrySize * Len(records) + Chars(records)

\* Whole records up to the first that exceeds the budget of characters, then
\* without the last ones until the encoded block fits.
Select(ordered) ==
  LET Fits(n) == Chars(SubSeq(ordered, 1, n)) <= BudgetChars
      chosen  == Max({n \in 0..Len(ordered) : Fits(n)})
      encoded == Max({n \in 0..chosen : EncodedSize(SubSeq(ordered, 1, n)) <= MaxEncoded})
  IN  SubSeq(ordered, 1, encoded)
===============================================================================
