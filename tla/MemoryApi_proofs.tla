----------------------------- MODULE MemoryApi_proofs -----------------------------
(***************************************************************************)
(* What the memory engine stores and what it answers, for any number of    *)
(* processes, any command lines, any corpora and budgets.                  *)
(*                                                                         *)
(* No file of a store ever holds content that the secret policy refuses,   *)
(* as long as the lines that were there before hold none.  Every rewrite   *)
(* of a file makes all of its lines anew, from what was decoded and from   *)
(* the new record; so the argument follows a content through the decoding, *)
(* the mutation, the time stamp and the encoding.                          *)
(*                                                                         *)
(* What a list, a show or a new session gets rests on three facts: a file  *)
(* holds exactly the records that the commands made (CorpusInv: what is    *)
(* encoded is decoded as it was, and ids are never used twice); what was   *)
(* collected in the first of two reads lies between what some state and    *)
(* what all states since held (ReadInv); and the orders are total, so that *)
(* every record has one place (ArrangedIs) and a block is a start of that  *)
(* sequence (SelectIs).                                                    *)
(***************************************************************************)
EXTENDS MemoryApi, FiniteSetTheorems, WellFoundedInduction, TLAPS

Clean(r) == Scan(r.content.text) # "refused"

\* The fields of a record.
Shaped(r) ==
  r = [id |-> r.id, key |-> r.key, scope |-> r.scope, content |-> r.content,
       source |-> r.source, status |-> r.status, pinned |-> r.pinned,
       created |-> r.created, updated |-> r.updated, method |-> r.method]

Good(records) == \A r \in records : Shaped(r) /\ Clean(r)

NoSecretFound == \A line \in Found : Scan(line.content) # "refused"

Inv ==
  /\ file = [s \in Scopes |-> file[s]]
  /\ NoSecretStored

-------------------------------------------------------------------------------
(* The codec *)

\* What is encoded is decoded with the same text.
LEMMA SameText ==
  ASSUME NEW r
  PROVE  RecordFromLine(ToJsonLine(r)).content.text = r.content.text
<1>1. ToJsonLine(r)["content"] = r.content.text
  BY DEF ToJsonLine, Required, Allowed
<1>2. QED
  BY <1>1 DEF RecordFromLine

LEMMA DecodedIsShaped == ASSUME NEW line PROVE Shaped(RecordFromLine(line))
BY DEF RecordFromLine, Shaped

\* A file of encoded records holds no other texts than theirs.
LEMMA EncodedIsClean ==
  ASSUME NEW records, Good(records), NEW s
  PROVE  \A r \in LoadRecords({ToJsonLine(q) : q \in records}, s) : Clean(r)
<1> SUFFICES ASSUME NEW q \in records PROVE Clean(RecordFromLine(ToJsonLine(q)))
  BY DEF LoadRecords
<1>1. QED
  BY SameText DEF Good, Clean

-------------------------------------------------------------------------------
(* The mutations *)

\* A new status, pin or time leaves the content as it is.
LEMMA TouchedIsGood ==
  ASSUME NEW r, Shaped(r), Clean(r), NEW v
  PROVE  /\ Shaped([r EXCEPT !.status = v]) /\ Clean([r EXCEPT !.status = v])
         /\ Shaped([r EXCEPT !.pinned = v]) /\ Clean([r EXCEPT !.pinned = v])
         /\ Shaped([r EXCEPT !.updated = v]) /\ Clean([r EXCEPT !.updated = v])
BY DEF Shaped, Clean

LEMMA WriteNewIsGood ==
  ASSUME NEW records, Good(records), NEW new, Shaped(new), Clean(new)
  PROVE  Good(Store!WriteNew(records, new))
<1> DEFINE olds == Store!ActiveWithKey(records, new.key)
           old  == CHOOSE r \in olds : TRUE
<1>1. CASE olds = {}
  BY <1>1 DEF Store!WriteNew, Good
<1>2. CASE olds # {}
  <2>1. old \in records
    BY <1>2 DEF Store!ActiveWithKey
  <2>2. Shaped([old EXCEPT !.status = "SUPERSEDED"]) /\ Clean([old EXCEPT !.status = "SUPERSEDED"])
    BY <2>1, TouchedIsGood DEF Good
  <2>3. Store!WriteNew(records, new)
          = (records \ {old}) \cup {[old EXCEPT !.status = "SUPERSEDED"], new}
    BY <1>2 DEF Store!WriteNew
  <2>4. QED
    BY <2>2, <2>3 DEF Good
<1>3. QED
  BY <1>1, <1>2

\* A call that the records allow finds the record it addresses among them.
LEMMA TargetIsRecord ==
  ASSUME NEW records, NEW handle, Store!Resolve(records, handle) # {}
  PROVE  Store!Target(records, handle) \in records
BY DEF Store!Target, Store!Resolve, Store!ActiveWithKey, Store!WithId

\* The calls of the commands.
IsWrite(call) ==
  call.verb \in {"remember", "update"} /\ Shaped(call.new) /\ Clean(call.new)

LEMMA AppliedIsGood ==
  ASSUME NEW records, Good(records), NEW call, Store!Verdict(records, call) = "ok",
         IsWrite(call) \/ call.verb \in {"forget", "pin"}
  PROVE  Good(Store!Apply(records, call))
<1>1. CASE IsWrite(call)
  BY <1>1, WriteNewIsGood DEF IsWrite, Store!Apply
<1>2. CASE call.verb = "forget"
  BY <1>2 DEF Store!Apply, Good
<1>3. CASE call.verb = "pin"
  <2> DEFINE r == Store!Target(records, call.handle)
  <2>1. r \in records
    BY <1>3, TargetIsRecord DEF Store!Verdict
  <2>2. Shaped([r EXCEPT !.pinned = call.pinned]) /\ Clean([r EXCEPT !.pinned = call.pinned])
    BY <2>1, TouchedIsGood DEF Good
  <2>3. Store!Apply(records, call) = (records \ {r}) \cup {[r EXCEPT !.pinned = call.pinned]}
    BY <1>3 DEF Store!Apply
  <2>4. QED
    BY <2>2, <2>3 DEF Good
<1>4. QED
  BY <1>1, <1>2, <1>3

LEMMA StampedIsGood ==
  ASSUME NEW before, Good(before), NEW after, Good(after)
  PROVE  Good(Stamped(before, after))
<1>1. ASSUME NEW r \in after
      PROVE  Shaped([r EXCEPT !.updated = now]) /\ Clean([r EXCEPT !.updated = now])
  BY TouchedIsGood DEF Good
<1>2. ASSUME NEW q \in Stamped(before, after) PROVE Shaped(q) /\ Clean(q)
  <2>1. q \in before \/ \E r \in after : q = [r EXCEPT !.updated = now]
    BY DEF Stamped
  <2>2. QED
    BY <1>1, <2>1, Zenon DEF Good
<1>3. QED
  BY <1>2, Zenon DEF Good

\* A mutation that is refused leaves the files alone; any other rewrites one of them.
LEMMA MutateKeepsInv ==
  ASSUME Inv, NEW p, NEW s \in Scopes, NEW call, Mutate(p, s, call),
         IsWrite(call) \/ call.verb \in {"forget", "pin"}
  PROVE  Inv'
<1> DEFINE After == Stamped(Untouched(Stored(s), call), Store!Apply(Stored(s), call))
<1>1. Good(Stored(s))
  BY DecodedIsShaped DEF Good, Inv, NoSecretStored, Stored, LoadRecords, Clean
<1>2. CASE file' = file
  BY <1>2 DEF Inv, NoSecretStored, Stored
<1>3. CASE /\ Store!Verdict(Stored(s), call) = "ok"
           /\ file' = [file EXCEPT ![s] = {ToJsonLine(r) : r \in After}]
  <2>1. Good(After)
    <3>1. Good(Untouched(Stored(s), call))
      BY <1>1 DEF Good, Untouched
    <3>2. QED
      BY <1>1, <1>3, <3>1, AppliedIsGood, StampedIsGood
  <2>2. \A t \in Scopes : file'[t] = IF t = s THEN {ToJsonLine(r) : r \in After} ELSE file[t]
    BY <1>3 DEF Inv
  <2> HIDE DEF After
  <2>3. \A r \in LoadRecords({ToJsonLine(q) : q \in After}, s) : Clean(r)
    BY <2>1, EncodedIsClean
  <2>4. ASSUME NEW t \in Scopes PROVE \A r \in Stored(t)' : Clean(r)
    BY <2>2, <2>3 DEF Inv, NoSecretStored, Stored, Clean
  <2>5. file' = [t \in Scopes |-> file'[t]]
    BY <1>3 DEF Inv
  <2>6. QED
    BY <2>4, <2>5 DEF Inv, NoSecretStored, Clean
<1>4. file' = file \/ (/\ Store!Verdict(Stored(s), call) = "ok"
                       /\ file' = [file EXCEPT ![s] = {ToJsonLine(r) : r \in After}])
  BY DEF Mutate, Refuse
<1>5. QED
  BY <1>2, <1>3, <1>4

-------------------------------------------------------------------------------
LEMMA TargetIsScope == ASSUME NEW scope PROVE WriteTarget(scope) \in Scopes
BY DEF WriteTarget, Scopes

\* The scan comes before the call.
LEMMA KeepKeepsInv ==
  ASSUME Inv, NEW p, NEW verb \in {"remember", "update"}, NEW new, NEW method,
         Keep(p, verb, new, method)
  PROVE  Inv'
<1>1. CASE Scan(new.text) = "refused"
  BY <1>1 DEF Keep, Refuse, Inv, NoSecretStored, Stored
<1>2. CASE Scan(new.text) # "refused"
  <2> DEFINE call == [verb |-> verb, new |-> NewRecord(new, method)]
  <2>1. Mutate(p, WriteTarget(new.scope), call)
    BY <1>2 DEF Keep
  <2>2. Shaped(NewRecord(new, method)) /\ Clean(NewRecord(new, method))
    BY <1>2 DEF NewRecord, Shaped, Clean
  <2>3. IsWrite(call)
    BY <2>2 DEF IsWrite
  <2> HIDE DEF call
  <2>4. QED
    BY <2>1, <2>3, TargetIsScope, MutateKeepsInv
<1>3. QED
  BY <1>1, <1>2

LEMMA WriteKeepsInv ==
  ASSUME Inv, NEW p, NEW c, Write(p, c)
  PROVE  Inv'
BY KeepKeepsInv DEF Write

\* What is confirmed is kept like what is typed.
LEMMA ConfirmKeepsInv ==
  ASSUME Inv, NEW p, NEW c, NEW q, Confirm(p, c, q)
  PROVE  Inv'
<1>1. CASE file' = file
  BY <1>1 DEF Inv, NoSecretStored, Stored
<1>2. CASE Keep(p, "remember", Confirmed(c, q), "rule")
  BY <1>2, KeepKeepsInv
<1>3. QED
  BY <1>1, <1>2 DEF Confirm, Refuse

LEMMA AddressKeepsInv ==
  ASSUME Inv, NEW p, NEW c, Address(p, c)
  PROVE  Inv'
<1>1. PICK call : /\ Mutate(p, WriteTarget(c.scope), call)
                  /\ call.verb \in {"forget", "pin"}
  BY DEF Address
<1>2. QED
  BY <1>1, TargetIsScope, MutateKeepsInv

LEMMA InvKept == Inv /\ [Next]_vars => Inv'
<1> SUFFICES ASSUME Inv, [Next]_vars PROVE Inv'
  OBVIOUS
<1>1. ASSUME NEW p \in Procs, NEW c \in Typed, Write(p, c) PROVE Inv'
  BY <1>1, WriteKeepsInv
<1>2. ASSUME NEW p \in Procs, NEW c \in Typed, Address(p, c) PROVE Inv'
  BY <1>2, AddressKeepsInv
<1>7. ASSUME NEW p \in Procs, NEW c \in Typed, NEW q \in Queued, Confirm(p, c, q) PROVE Inv'
  BY <1>7, ConfirmKeepsInv
<1>3. CASE file' = file
  BY <1>3 DEF Inv, NoSecretStored, Stored
<1>4. ASSUME NEW p \in Procs, NEW c, StartRead(p, c) \/ Reply(p, c) \/ Read(p) \/ ReadProject(p) \/ Fails(p)
      PROVE  file' = file
  BY <1>4 DEF StartRead, Reply, Read, ReadProject, Fails
<1>5. Tick \/ UNCHANGED vars => file' = file
  BY DEF Tick, vars
<1>6. QED
  BY <1>1, <1>2, <1>3, <1>4, <1>5, <1>7 DEF Next

\* Whichever command, scope and process it comes by, typed or confirmed from a queue that
\* holds what it may, and through every rewrite of a file, content that the secret policy
\* refuses is never stored (secret.rs scan; api.rs remember and update; triage.rs
\* confirm_proposal).
THEOREM NoSecretIsStored == ASSUME NoSecretFound PROVE Spec => []NoSecretStored
<1>1. Init => Inv
  BY NoSecretFound DEF Init, Inv, NoSecretStored, NoSecretFound, Stored, LoadRecords, RecordFromLine
<1>2. Inv => NoSecretStored
  BY DEF Inv
<1>3. QED
  BY <1>1, <1>2, InvKept, PTL DEF Spec

-------------------------------------------------------------------------------
(* Records as a sequence *)

\* A strict total order of the members of S.
Orders(R, S) ==
  /\ \A a \in S : <<a, a>> \notin R
  /\ \A a, b, c \in S : <<a, b>> \in R /\ <<b, c>> \in R => <<a, c>> \in R
  /\ \A a, b \in S : a = b \/ <<a, b>> \in R \/ <<b, a>> \in R

\* Each member has a place, and the places follow the order.
LEMMA ArrangedIs ==
  ASSUME NEW S, IsFiniteSet(S), NEW R, Orders(R, S)
  PROVE  /\ Arranged(S, R) \in [1..Cardinality(S) -> S]
         /\ Range(Arranged(S, R)) = S
         /\ \A i, j \in 1..Cardinality(S) :
              i < j => <<Arranged(S, R)[i], Arranged(S, R)[j]>> \in R
<1> DEFINE n == Cardinality(S)
           Before(r) == {q \in S : <<q, r>> \in R}
           rank == [r \in S |-> Cardinality(Before(r)) + 1]
           q == Arranged(S, R)
<1>1. n \in Nat
  BY FS_CardinalityType
<1>2. ASSUME NEW r \in S
      PROVE  IsFiniteSet(Before(r)) /\ Cardinality(Before(r)) \in Nat /\ Cardinality(Before(r)) < n
  <2>1. Before(r) \in SUBSET S /\ Before(r) # S
    BY DEF Orders
  <2>2. IsFiniteSet(Before(r)) /\ Cardinality(Before(r)) <= n /\ Cardinality(Before(r)) # n
    BY <2>1, FS_Subset
  <2>3. Cardinality(Before(r)) \in Nat
    BY <2>2, FS_CardinalityType
  <2>4. QED
    BY <1>1, <2>2, <2>3
<1>3. ASSUME NEW a \in S, NEW b \in S, <<a, b>> \in R
      PROVE  Cardinality(Before(a)) < Cardinality(Before(b))
  <2>1. Before(a) \in SUBSET Before(b) /\ Before(a) # Before(b)
    BY <1>3 DEF Orders
  <2>2. Cardinality(Before(a)) <= Cardinality(Before(b))
        /\ Cardinality(Before(a)) # Cardinality(Before(b))
    BY <1>2, <2>1, FS_Subset
  <2>3. Cardinality(Before(a)) \in Nat /\ Cardinality(Before(b)) \in Nat
    BY <1>2
  <2> HIDE DEF Before
  <2>4. QED
    BY <2>2, <2>3
<1> HIDE DEF n, Before
<1>4. ASSUME NEW a \in S, NEW b \in S, <<a, b>> \in R PROVE rank[a] < rank[b]
  BY <1>2, <1>3, <1>4
<1>5. rank \in [S -> 1..n]
  BY <1>1, <1>2
<1> HIDE DEF rank
<1>6. ASSUME NEW a \in S, NEW b \in S, rank[a] = rank[b] PROVE a = b
  <2>1. rank[a] \in Nat /\ rank[b] \in Nat
    BY <1>1, <1>5
  <2>2. <<a, b>> \notin R /\ <<b, a>> \notin R
    BY <1>4, <1>6, <2>1
  <2>3. QED
    BY <2>2 DEF Orders
<1>7. rank \in Injection(S, 1..n)
  BY <1>5, <1>6 DEF Injection, IsInjective
<1>8. IsFiniteSet(1..n) /\ Cardinality(1..n) = n
  BY <1>1, FS_Interval
<1>9. rank \in Surjection(S, 1..n)
  BY <1>7, <1>8, FS_Injection DEF n
<1>10. ASSUME NEW i \in 1..n PROVE q[i] \in S /\ rank[q[i]] = i
  <2>1. \E r \in S : rank[r] = i
    BY <1>9 DEF Surjection
  <2>2. \E r \in S : Cardinality(Before(r)) = i - 1
    BY <1>2, <2>1 DEF rank
  <2>3. q[i] = CHOOSE r \in S : Cardinality(Before(r)) = i - 1
    BY DEF Arranged, n, Before
  <2>4. q[i] \in S /\ Cardinality(Before(q[i])) = i - 1
    BY <2>2, <2>3
  <2>5. QED
    BY <1>1, <1>2, <2>4 DEF rank
<1>11. q = [i \in 1..n |-> q[i]]
  <2> DEFINE at(i) == CHOOSE r \in S : Cardinality({p \in S : <<p, r>> \in R}) = i - 1
  <2>1. q = [i \in 1..n |-> at(i)]
    BY DEF Arranged, n, q
  <2> HIDE DEF at, q
  <2>2. QED
    BY <2>1
<1> HIDE DEF q
<1>12. \A r \in S : rank[r] \in 1..n /\ q[rank[r]] = r
  BY <1>5, <1>6, <1>10
<1>13. Range(q) = S
  BY <1>10, <1>11, <1>12 DEF Range
<1>14. ASSUME NEW i \in 1..n, NEW j \in 1..n, i < j PROVE <<q[i], q[j]>> \in R
  <2>1. q[i] \in S /\ q[j] \in S /\ rank[q[i]] = i /\ rank[q[j]] = j
    BY <1>10
  <2>2. <<q[j], q[i]>> \notin R
    BY <1>1, <1>4, <1>14, <2>1
  <2>3. QED
    BY <1>1, <1>14, <2>1, <2>2 DEF Orders
<1>15. q \in [1..n -> S]
  BY <1>10, <1>11
<1>16. QED
  BY <1>13, <1>14, <1>15 DEF q, n

\* What the orders compare.
Datable(records) ==
  /\ IsFiniteSet(records)
  /\ \A r \in records : r.id \in Int /\ r.created \in Int /\ r.updated \in Int
  /\ Store!DistinctIds(records)

LEMMA D24Orders ==
  ASSUME NEW S, Datable(S)
  PROVE  Orders({pair \in S \X S : CompareD24(pair[1], pair[2])}, S)
<1> DEFINE R == {pair \in S \X S : CompareD24(pair[1], pair[2])}
<1>1. \A a, b \in S : <<a, b>> \in R <=> CompareD24(a, b)
  OBVIOUS
<1>2. \A a \in S : Tier(a) \in Int
  BY DEF Tier
<1> HIDE DEF R
<1>3. \A a, b \in S : a.id = b.id => a = b
  BY DEF Datable, Store!DistinctIds
<1>4. \A a \in S : ~CompareD24(a, a)
  BY <1>2 DEF CompareD24, Recency, Datable
<1>5. \A a, b, c \in S : CompareD24(a, b) /\ CompareD24(b, c) => CompareD24(a, c)
  BY <1>2 DEF CompareD24, Recency, Datable
<1>6. \A a, b \in S : a = b \/ CompareD24(a, b) \/ CompareD24(b, a)
  BY <1>2, <1>3 DEF CompareD24, Recency, Datable
<1>7. QED
  BY <1>1, <1>4, <1>5, <1>6 DEF Orders, R

LEMMA ShowOrders ==
  ASSUME NEW S, Datable(S)
  PROVE  Orders({pair \in S \X S : CompareShow(pair[1], pair[2])}, S)
<1> DEFINE R == {pair \in S \X S : CompareShow(pair[1], pair[2])}
<1>1. \A a, b \in S : <<a, b>> \in R <=> CompareShow(a, b)
  OBVIOUS
<1>2. \A a \in S : ShowRank(a) \in Int
  BY DEF ShowRank
<1> HIDE DEF R
<1>3. \A a, b \in S : a.id = b.id => a = b
  BY DEF Datable, Store!DistinctIds
<1>4. \A a \in S : ~CompareShow(a, a)
  BY <1>2 DEF CompareShow, Recency, Datable
<1>5. \A a, b, c \in S : CompareShow(a, b) /\ CompareShow(b, c) => CompareShow(a, c)
  BY <1>2 DEF CompareShow, Recency, Datable
<1>6. \A a, b \in S : a = b \/ CompareShow(a, b) \/ CompareShow(b, a)
  BY <1>2, <1>3 DEF CompareShow, Recency, Datable
<1>7. QED
  BY <1>1, <1>4, <1>5, <1>6 DEF Orders, R

\* A list and a show answer the records they found, all of them and no others.
LEMMA OrderedAreThey ==
  ASSUME NEW S, Datable(S)
  PROVE  Range(OrderActive(S)) = S /\ Range(OrderShow(S)) = S
<1>1. IsFiniteSet(S)
  BY DEF Datable
<1>2. QED
  BY <1>1, D24Orders, ShowOrders, ArrangedIs DEF OrderActive, OrderShow

-------------------------------------------------------------------------------
(* The records that a store holds *)

\* A record that a command made, in the store of scope s.
RecordOf(r, s) ==
  /\ Shaped(r)
  /\ r.content = [kind |-> r.content.kind, text |-> r.content.text]
  /\ r.content.kind \in Kinds /\ r.content.text \in Seq(Token)
  /\ r.source \in Sources
  /\ r.status \in Statuses
  /\ r.method \in Methods \cup {"none"}
  /\ r.scope = s
  /\ r.id \in Int /\ r.created \in Int /\ r.updated \in Int

\* The fields of the line of a record.
LEMMA LineIs ==
  ASSUME NEW r, NEW s, RecordOf(r, s)
  PROVE  /\ Required \subseteq DOMAIN ToJsonLine(r) /\ "key" \in DOMAIN ToJsonLine(r)
         /\ "method" \in DOMAIN ToJsonLine(r) <=> r.method # "none"
         /\ ToJsonLine(r)["v"] = 1 /\ ToJsonLine(r)["id"] = r.id
         /\ ToJsonLine(r)["key"] = r.key /\ ToJsonLine(r)["scope"] = s
         /\ ToJsonLine(r)["kind"] = r.content.kind /\ ToJsonLine(r)["content"] = r.content.text
         /\ ToJsonLine(r)["source"] = r.source /\ ToJsonLine(r)["status"] = r.status
         /\ ToJsonLine(r)["pinned"] = r.pinned
         /\ ToJsonLine(r)["created_at"] = r.created /\ ToJsonLine(r)["updated_at"] = r.updated
         /\ r.method # "none" => ToJsonLine(r)["method"] = r.method
BY DEF ToJsonLine, Required, Allowed, RecordOf

\* What is encoded can be read, and is decoded as it was.
LEMMA RoundTrip ==
  ASSUME NEW r, NEW s, RecordOf(r, s)
  PROVE  Readable(ToJsonLine(r), s) /\ RecordFromLine(ToJsonLine(r)) = r
<1> DEFINE line == ToJsonLine(r)
<1>1. /\ Required \subseteq DOMAIN line /\ "key" \in DOMAIN line
      /\ "method" \in DOMAIN line <=> r.method # "none"
      /\ line["v"] = 1 /\ line["id"] = r.id
      /\ line["key"] = r.key /\ line["scope"] = s
      /\ line["kind"] = r.content.kind /\ line["content"] = r.content.text
      /\ line["source"] = r.source /\ line["status"] = r.status
      /\ line["pinned"] = r.pinned
      /\ line["created_at"] = r.created /\ line["updated_at"] = r.updated
      /\ r.method # "none" => line["method"] = r.method
  BY LineIs
<1> HIDE DEF line
<1>2. Readable(line, s)
  <2>1. \A f \in DOMAIN Allowed : line[f] \in Allowed[f]
    BY <1>1 DEF Allowed, RecordOf
  <2>2. "method" \in DOMAIN line => line["method"] \in Methods
    BY <1>1 DEF RecordOf
  <2>3. QED
    BY <1>1, <2>1, <2>2 DEF Readable
<1>3. Optional(line, "key") = r.key /\ Optional(line, "method") = r.method
  BY <1>1 DEF Optional
<1>4. RecordFromLine(line)
        = [id |-> r.id, key |-> r.key, scope |-> r.scope, content |-> r.content,
           source |-> r.source, status |-> r.status, pinned |-> r.pinned,
           created |-> r.created, updated |-> r.updated, method |-> r.method]
  BY <1>1, <1>3 DEF RecordFromLine, RecordOf
<1>5. RecordFromLine(line) = r
  BY <1>4 DEF RecordOf, Shaped
<1>6. QED
  BY <1>2, <1>5 DEF line

\* A rewritten file holds what was written.
LEMMA Rewritten ==
  ASSUME NEW records, NEW s, \A r \in records : RecordOf(r, s)
  PROVE  LoadRecords({ToJsonLine(r) : r \in records}, s) = records
<1> DEFINE lines == {ToJsonLine(r) : r \in records}
<1>1. \A r \in records : Readable(ToJsonLine(r), s) /\ RecordFromLine(ToJsonLine(r)) = r
  BY RoundTrip
<1>2. \A line \in lines : \E r \in records : line = ToJsonLine(r)
  OBVIOUS
<1>3. \A r \in records : ToJsonLine(r) \in lines
  OBVIOUS
<1> HIDE DEF lines
<1>4. {l \in lines : Readable(l, s)} = lines
  BY <1>1, <1>2
<1>5. LoadRecords(lines, s) = {RecordFromLine(line) : line \in lines}
  BY <1>4 DEF LoadRecords
<1>6. LoadRecords(lines, s) = records
  BY <1>1, <1>2, <1>3, <1>5
<1>7. QED
  BY <1>6 DEF lines

\* What a readable line says is a record.
LEMMA FoundIsRecord ==
  ASSUME NEW line, NEW s, Readable(line, s),
         line.id \in Int, line.content \in Seq(Token),
         line.created_at \in Int, line.updated_at \in Int
  PROVE  RecordOf(RecordFromLine(line), s)
<1> DEFINE r == RecordFromLine(line)
<1>1. line.kind \in Kinds /\ line.source \in Sources /\ line.status \in Statuses
  BY DEF Readable, Allowed
<1>2. Optional(line, "method") \in Methods \cup {"none"}
  BY DEF Readable, Optional
<1>3. Shaped(r)
  BY DecodedIsShaped
<1>4. /\ r.content = [kind |-> line.kind, text |-> line.content]
      /\ r.source = line.source /\ r.status = line.status /\ r.scope = line.scope
      /\ r.method = Optional(line, "method") /\ r.id = line.id
      /\ r.created = line.created_at /\ r.updated = line.updated_at
  BY DEF RecordFromLine
<1> HIDE DEF r
<1>5. RecordOf(r, s)
  BY <1>1, <1>2, <1>3, <1>4 DEF RecordOf, Readable
<1>6. QED
  BY <1>5 DEF r

-------------------------------------------------------------------------------
(* What the mutations make of the records of a scope *)

IdsOf(records) == {r.id : r \in records}

\* The records of scope s when n is the newest id.
Corpus(records, s, n) ==
  /\ IsFiniteSet(records)
  /\ \A r \in records : RecordOf(r, s) /\ r.id <= n
  /\ Store!DistinctIds(records)

\* The call of a command in scope s when n is the newest id.
CallOf(call, s, n) ==
  \/ /\ call.verb \in {"remember", "update"}
     /\ "new" \in DOMAIN call
     /\ RecordOf(call.new, s)
     /\ call.new.id = n + 1
  \/ call.verb \in {"forget", "pin"} /\ "new" \notin DOMAIN call

\* The newest id after the call.
Newest(call, n) == IF "new" \in DOMAIN call THEN n + 1 ELSE n

Added(call, n) == IF "new" \in DOMAIN call THEN {n + 1} ELSE {}

LEMMA IdsBounded ==
  ASSUME NEW records, NEW s, NEW n, Corpus(records, s, n), NEW i \in IdsOf(records)
  PROVE  i \in Int /\ i <= n
<1>1. PICK r \in records : i = r.id
  BY DEF IdsOf
<1>2. QED
  BY <1>1 DEF Corpus, RecordOf

\* A new status, pin or time leaves a record of the scope, with its id.
LEMMA RestatedIsRecord ==
  ASSUME NEW r, NEW s, RecordOf(r, s), NEW status \in Statuses
  PROVE  RecordOf([r EXCEPT !.status = status], s) /\ [r EXCEPT !.status = status].id = r.id
BY DEF RecordOf, Shaped

LEMMA PinnedIsRecord ==
  ASSUME NEW r, NEW s, RecordOf(r, s), NEW pinned
  PROVE  RecordOf([r EXCEPT !.pinned = pinned], s) /\ [r EXCEPT !.pinned = pinned].id = r.id
BY DEF RecordOf, Shaped

LEMMA DatedIsRecord ==
  ASSUME NEW r, NEW s, RecordOf(r, s), NEW time \in Int
  PROVE  RecordOf([r EXCEPT !.updated = time], s) /\ [r EXCEPT !.updated = time].id = r.id
BY DEF RecordOf, Shaped

\* The same records, of which one is replaced by one with its id.
LEMMA ReplacedIsCorpus ==
  ASSUME NEW records, NEW s, NEW n, Corpus(records, s, n),
         NEW old \in records, NEW r, RecordOf(r, s), r.id = old.id
  PROVE  /\ Corpus((records \ {old}) \cup {r}, s, n)
         /\ IdsOf((records \ {old}) \cup {r}) = IdsOf(records)
<1> DEFINE kept == records \ {old}
           after == kept \cup {r}
<1>1. IsFiniteSet(kept)
  BY FS_RemoveElement DEF Corpus
<1>2. IsFiniteSet(after)
  BY <1>1, FS_AddElement
<1>3. \A q \in after : RecordOf(q, s) /\ q.id <= n
  BY DEF Corpus
<1>4. Store!DistinctIds(after)
  BY DEF Corpus, Store!DistinctIds
<1>5. IdsOf(after) = IdsOf(records)
  BY DEF IdsOf
<1>6. QED
  BY <1>2, <1>3, <1>4, <1>5 DEF Corpus

\* The same records and one with a new id.
LEMMA AddedIsCorpus ==
  ASSUME NEW records, NEW s, NEW n \in Nat, Corpus(records, s, n),
         NEW r, RecordOf(r, s), r.id = n + 1
  PROVE  /\ Corpus(records \cup {r}, s, n + 1)
         /\ IdsOf(records \cup {r}) = IdsOf(records) \cup {n + 1}
<1> DEFINE after == records \cup {r}
<1>1. IsFiniteSet(after)
  BY FS_AddElement DEF Corpus
<1>2. \A q \in records : q.id \in Int /\ q.id <= n
  BY DEF Corpus, RecordOf
<1>3. \A q \in after : RecordOf(q, s) /\ q.id <= n + 1
  BY <1>2 DEF Corpus
<1>4. Store!DistinctIds(after)
  BY <1>2 DEF Corpus, Store!DistinctIds
<1>5. IdsOf(after) = IdsOf(records) \cup {n + 1}
  BY DEF IdsOf
<1>6. QED
  BY <1>1, <1>3, <1>4, <1>5 DEF Corpus

LEMMA AppliedIsCorpus ==
  ASSUME NEW records, NEW s, NEW n \in Nat, Corpus(records, s, n),
         NEW call, CallOf(call, s, n), Store!Verdict(records, call) = "ok"
  PROVE  /\ Corpus(Store!Apply(records, call), s, Newest(call, n))
         /\ IdsOf(Store!Apply(records, call)) \subseteq IdsOf(records) \cup Added(call, n)
<1>1. CASE /\ call.verb \in {"remember", "update"}
           /\ "new" \in DOMAIN call
           /\ RecordOf(call.new, s)
           /\ call.new.id = n + 1
  <2> DEFINE new == call.new
             olds == Store!ActiveWithKey(records, new.key)
             old  == CHOOSE r \in olds : TRUE
  <2>1. Store!Apply(records, call) = Store!WriteNew(records, new)
    BY <1>1 DEF Store!Apply
  <2>2. CASE olds = {}
    <3>1. Store!WriteNew(records, new) = records \cup {new}
      BY <2>2 DEF Store!WriteNew
    <3>2. QED
      BY <1>1, <2>1, <3>1, AddedIsCorpus DEF Newest, Added
  <2>3. CASE olds # {}
    <3> DEFINE past == [old EXCEPT !.status = "SUPERSEDED"]
               rest == (records \ {old}) \cup {past}
    <3>1. old \in records
      BY <2>3 DEF Store!ActiveWithKey
    <3>2. RecordOf(old, s)
      BY <3>1 DEF Corpus
    <3> HIDE DEF old
    <3>3. RecordOf(past, s) /\ past.id = old.id
      BY <3>2, RestatedIsRecord DEF Statuses
    <3> HIDE DEF past
    <3>4. Corpus(rest, s, n) /\ IdsOf(rest) = IdsOf(records)
      BY <3>1, <3>3, ReplacedIsCorpus
    <3>5. Store!WriteNew(records, new) = rest \cup {new}
      BY <2>3 DEF Store!WriteNew, past, old
    <3> HIDE DEF rest
    <3>6. Corpus(rest \cup {new}, s, n + 1) /\ IdsOf(rest \cup {new}) = IdsOf(rest) \cup {n + 1}
      BY <1>1, <3>4, AddedIsCorpus
    <3>7. QED
      BY <1>1, <2>1, <3>4, <3>5, <3>6 DEF Newest, Added
  <2>4. QED
    BY <2>2, <2>3
<1>2. CASE call.verb \in {"forget", "pin"} /\ "new" \notin DOMAIN call
  <2> DEFINE r == Store!Target(records, call.handle)
  <2>1. r \in records
    BY <1>2, TargetIsRecord DEF Store!Verdict
  <2>2. RecordOf(r, s)
    BY <2>1 DEF Corpus
  <2>3. CASE call.verb = "forget"
    <3>1. Store!Apply(records, call) = records \ {r}
      BY <2>3 DEF Store!Apply
    <3>2. IsFiniteSet(records \ {r})
      BY FS_RemoveElement DEF Corpus
    <3> HIDE DEF r
    <3>3. Corpus(records \ {r}, s, n)
      BY <3>2 DEF Corpus, Store!DistinctIds
    <3>4. IdsOf(records \ {r}) \subseteq IdsOf(records)
      BY DEF IdsOf
    <3>5. QED
      BY <1>2, <3>1, <3>3, <3>4 DEF Newest, Added
  <2>4. CASE call.verb = "pin"
    <3> DEFINE pinned == [r EXCEPT !.pinned = call.pinned]
    <3>1. Store!Apply(records, call) = (records \ {r}) \cup {pinned}
      BY <2>4 DEF Store!Apply
    <3> HIDE DEF r
    <3>2. RecordOf(pinned, s) /\ pinned.id = r.id
      BY <2>2, PinnedIsRecord
    <3> HIDE DEF pinned
    <3>3. Corpus((records \ {r}) \cup {pinned}, s, n)
          /\ IdsOf((records \ {r}) \cup {pinned}) = IdsOf(records)
      BY <2>1, <3>2, ReplacedIsCorpus
    <3>4. QED
      BY <1>2, <3>1, <3>3 DEF Newest, Added
  <2>5. QED
    BY <1>2, <2>3, <2>4
<1>3. QED
  BY <1>1, <1>2 DEF CallOf

\* The time stamp changes no id.
LEMMA StampedIsCorpus ==
  ASSUME NEW before, NEW after, NEW s, NEW n, Corpus(after, s, n), now \in Int
  PROVE  /\ Corpus(Stamped(before, after), s, n)
         /\ IdsOf(Stamped(before, after)) = IdsOf(after)
<1> DEFINE stamp == [r \in after |-> IF r \in before THEN r ELSE [r EXCEPT !.updated = now]]
           made == Stamped(before, after)
<1>1. \A r \in after : RecordOf(stamp[r], s) /\ stamp[r].id = r.id
  <2>1. ASSUME NEW r \in after
        PROVE  RecordOf([r EXCEPT !.updated = now], s) /\ [r EXCEPT !.updated = now].id = r.id
    BY DatedIsRecord DEF Corpus
  <2>2. QED
    BY <2>1 DEF Corpus
<1>2. made = {stamp[r] : r \in after}
  <2>1. \A r \in after \ before : stamp[r] = [r EXCEPT !.updated = now]
    OBVIOUS
  <2>2. \A r \in after \cap before : stamp[r] = r
    OBVIOUS
  <2> HIDE DEF stamp
  <2>3. QED
    BY <2>1, <2>2 DEF Stamped
<1> HIDE DEF stamp
<1>3. IsFiniteSet(made)
  <2> DEFINE g == [r \in after |-> stamp[r]]
  <2>1. g \in Surjection(after, made)
    BY <1>2 DEF Surjection
  <2>2. QED
    BY <2>1, FS_Surjection DEF Corpus
<1> HIDE DEF made
<1>4. \A q \in made : \E r \in after : q = stamp[r]
  BY <1>2
<1>5. \A q \in made : RecordOf(q, s) /\ q.id <= n
  BY <1>1, <1>4 DEF Corpus
<1>6. Store!DistinctIds(made)
  BY <1>1, <1>4 DEF Corpus, Store!DistinctIds
<1>7. IdsOf(made) = IdsOf(after)
  BY <1>1, <1>2 DEF IdsOf
<1>8. QED
  BY <1>3, <1>5, <1>6, <1>7 DEF Corpus, made

-------------------------------------------------------------------------------
(* What the parser makes of a line *)

\* A set of numbers that is not empty has a least element.
LEMMA Least ==
  ASSUME NEW T, T \subseteq Nat, T # {}
  PROVE  Min(T) \in T /\ \A y \in T : Min(T) <= y
<1> DEFINE R == OpToRel(<, Nat)
<1>1. IsWellFoundedOn(R, Nat)
  BY NatLessThanWellFounded
<1>2. \A x, y \in Nat : y < x => <<y, x>> \in R
  BY DEF OpToRel
<1> HIDE DEF R
<1>3. PICK x \in T : \A y \in T : ~(<<y, x>> \in R)
  BY <1>1, WFMin
<1>4. \A y \in T : x \in Nat /\ y \in Nat /\ ~(y < x)
  BY <1>2, <1>3
<1>5. \A y \in T : x <= y
  BY <1>4
<1>6. QED
  BY <1>3, <1>5 DEF Min

\* One that is bounded has a greatest.
LEMMA Greatest ==
  ASSUME NEW n \in Nat, NEW T, T \subseteq 0..n, T # {}
  PROVE  Max(T) \in T /\ \A y \in T : Max(T) >= y
<1> DEFINE rest == {n - y : y \in T}
           m == Min(rest)
<1>1. rest \subseteq Nat /\ rest # {}
  <2>1. \A y \in T : n - y \in Nat
    OBVIOUS
  <2>2. QED
    BY <2>1
<1>2. m \in rest /\ \A y \in rest : m <= y
  BY <1>1, Least
<1>3. PICK x \in T : m = n - x
  BY <1>2
<1>4. \A y \in T : n - y \in rest
  OBVIOUS
<1> HIDE DEF m, rest
<1>5. \A y \in T : x \in 0..n /\ y \in 0..n /\ n - x <= n - y
  BY <1>2, <1>3, <1>4
<1>6. \A y \in T : x >= y
  BY <1>5
<1>7. QED
  BY <1>3, <1>6 DEF Max

\* A flag has a value that it knows.
LEMMA KindIsKnown ==
  ASSUME NEW tokens \in Seq(Token), NEW names, OnlyFlags(tokens, names),
         NEW flag \in {"kind", "as"}, NEW default
  PROVE  Value(tokens, flag, default) \in Kinds \cup {default}
<1> DEFINE given == Given(tokens, flag)
           i == Max(given)
<1>1. CASE given = {}
  BY <1>1 DEF Value
<1>2. CASE given # {}
  <2>1. given \subseteq 0..Len(tokens) /\ Len(tokens) \in Nat
    BY DEF Given
  <2>2. i \in given
    BY <1>2, <2>1, Greatest
  <2> HIDE DEF i
  <2>3. i \in DOMAIN tokens /\ tokens[i].is = flag
    BY <2>2 DEF Given
  <2>4. tokens[i] \in Token /\ tokens[i] \in Range(tokens)
    BY <2>3 DEF Range
  <2>5. tokens[i] \in Flags /\ tokens[i].val \in {"fact", "preference", "bad"}
    BY <2>3, <2>4 DEF Token, Flags
  <2>6. tokens[i].val # "bad"
    BY <2>4, <2>5 DEF OnlyFlags, Dashed
  <2>7. Value(tokens, flag, default) = tokens[i].val
    BY <1>2 DEF Value, i
  <2>8. QED
    BY <2>5, <2>6, <2>7 DEF Kinds
<1>3. QED
  BY <1>1, <1>2

\* A write has a kind, a confirmation may have one, and no line asks for what only the
\* creation of a session does.
LEMMA TypedIs ==
  ASSUME NEW c \in Typed
  PROVE  /\ c.verb \in {"remember", "update"} => c.kind \in Kinds /\ c.text \in Seq(Token)
         /\ c.verb = "confirm" => c.kind \in Kinds \cup {"proposed"}
         /\ c.verb # "inject"
<1>1. PICK line \in Lines : c = Parse(line)
  BY DEF Typed
<1> DEFINE tokens == line.tokens
<1>2. tokens \in Seq(Token)
  BY LinesAssumption
<1> HIDE DEF tokens
<1>3. CASE line.verb \in {"remember", "update"}
  <2> DEFINE content == {i \in DOMAIN tokens : ~Known(tokens[i])}
             flags == IF content = {} THEN tokens ELSE SubSeq(tokens, 1, Min(content) - 1)
  <2>1. flags \in Seq(Token)
    <3>1. CASE content = {}
      BY <1>2, <3>1
    <3>2. CASE content # {}
      <4>1. content \subseteq 1..Len(tokens) /\ Len(tokens) \in Nat
        BY <1>2
      <4>2. Min(content) \in 1..Len(tokens)
        BY <3>2, <4>1, Least
      <4> HIDE DEF content
      <4>3. QED
        BY <1>2, <3>2, <4>2
    <3>3. QED
      BY <3>1, <3>2
  <2>2. c = ParseWrite(line.verb, tokens)
    BY <1>1, <1>3 DEF Parse, tokens
  <2> DEFINE rest == IF content = {} THEN <<>> ELSE SubSeq(tokens, Min(content), Len(tokens))
             keyed == rest # <<>> /\ Head(rest).is = "keyed"
             text == IF keyed THEN Tail(rest) ELSE rest
  <2>3. rest \in Seq(Token)
    <3>1. CASE content = {}
      BY <3>1
    <3>2. CASE content # {}
      <4>1. content \subseteq 1..Len(tokens) /\ Len(tokens) \in Nat
        BY <1>2
      <4>2. Min(content) \in 1..Len(tokens)
        BY <3>2, <4>1, Least
      <4> HIDE DEF content
      <4>3. QED
        BY <1>2, <3>2, <4>2
    <3>3. QED
      BY <3>1, <3>2
  <2> HIDE DEF rest
  <2>4. text \in Seq(Token)
    BY <2>3
  <2> HIDE DEF flags, content, text, keyed
  <2>5. CASE c = UsageError
    BY <2>5 DEF UsageError
  <2>6. CASE c # UsageError
    <3>1. OnlyFlags(flags, {"scope", "kind", "pinned"})
      BY <2>2, <2>6 DEF ParseWrite, flags, content
    <3>2. c.verb = line.verb /\ c.kind = Value(flags, "kind", "fact")
      BY <2>2, <2>6 DEF ParseWrite, flags, content
    <3>3. c.text = text
      BY <2>2, <2>6 DEF ParseWrite, text, keyed, rest, content
    <3>4. c.kind \in Kinds \cup {"fact"}
      BY <2>1, <3>1, <3>2, KindIsKnown
    <3>5. QED
      BY <1>3, <2>4, <3>2, <3>3, <3>4 DEF Kinds
  <2>7. QED
    BY <2>5, <2>6
<1>4. CASE line.verb \notin {"remember", "update"}
  <2>1. c.verb \in {"forget", "pin", "unpin", "list", "show", "confirm", "discard", "suggest",
                    "help", "error"}
    BY <1>1, <1>4 DEF Parse, ParseHandleCommand, ParseList, ParseShow, ParseConfirm, ParseDiscard,
                      UsageError
  <2>2. CASE c.verb = "confirm"
    <3>1. c = ParseConfirm(tokens) /\ c # UsageError
      BY <1>1, <1>4, <2>2 DEF Parse, ParseHandleCommand, ParseList, ParseShow, ParseDiscard,
                              UsageError, tokens
    <3>2. OnlyFlags(tokens, {"scope", "as"}) /\ c.kind = Value(tokens, "as", "proposed")
      BY <3>1 DEF ParseConfirm
    <3>3. QED
      BY <1>2, <2>2, <3>2, KindIsKnown
  <2>3. QED
    BY <2>1, <2>2
<1>5. QED
  BY <1>3, <1>4

-------------------------------------------------------------------------------
(* The stores *)

\* The files hold the records as the commands have made them, each under an id of its own.
CorpusInv ==
  /\ file = [s \in Scopes |-> file[s]]
  /\ corpus = [s \in Scopes |-> corpus[s]]
  /\ now \in Nat /\ lastId \in Nat
  /\ \A s \in Scopes : Stored(s) = corpus[s] /\ Corpus(corpus[s], s, lastId)
  /\ IdsOf(corpus["user"]) \cap IdsOf(corpus["project"]) = {}

\* A step brings no other ids than new ones.
OnlyNewIds ==
  /\ lastId' >= lastId
  /\ \A s \in Scopes : \A i \in IdsOf(corpus[s])' : i \in IdsOf(corpus[s]) \/ i > lastId

LEMMA CorpusInit == Init => CorpusInv
<1> SUFFICES ASSUME Init PROVE CorpusInv
  OBVIOUS
<1> DEFINE old == LoadRecords(Found, "user")
<1>1. IsFiniteSet(old) /\ Store!DistinctIds(old)
  BY FoundAssumption
<1>2. Stored("user") = old /\ Stored("project") = {}
  BY DEF Init, Stored, Scopes, LoadRecords
<1>3. ASSUME NEW r \in old PROVE RecordOf(r, "user") /\ r.id <= 0
  <2>1. PICK line \in Found : Readable(line, "user") /\ r = RecordFromLine(line)
    BY DEF LoadRecords
  <2>2. r.id \in Int /\ r.id <= 0 /\ r.content.text \in Seq(Token) /\ r.created \in Int
        /\ r.updated \in Int
    BY FoundAssumption
  <2>3. r.id = line.id /\ r.content.text = line.content /\ r.created = line.created_at
        /\ r.updated = line.updated_at
    BY <2>1 DEF RecordFromLine
  <2>4. QED
    BY <2>1, <2>2, <2>3, FoundIsRecord
<1> HIDE DEF old
<1>4. Corpus(old, "user", 0)
  BY <1>1, <1>3 DEF Corpus
<1>5. Corpus({}, "project", 0)
  BY FS_EmptySet DEF Corpus, Store!DistinctIds
<1>6. corpus["user"] = old /\ corpus["project"] = {} /\ lastId = 0 /\ now = 0
  BY <1>2 DEF Init, Scopes
<1>7. IdsOf({}) = {}
  BY DEF IdsOf
<1>8. \A s \in Scopes : Stored(s) = corpus[s] /\ Corpus(corpus[s], s, lastId)
  BY <1>2, <1>4, <1>5, <1>6 DEF Scopes
<1>9. file = [s \in Scopes |-> file[s]] /\ corpus = [s \in Scopes |-> corpus[s]]
  BY DEF Init
<1>10. IdsOf(corpus["user"]) \cap IdsOf(corpus["project"]) = {}
  BY <1>6, <1>7
<1>11. QED
  BY <1>6, <1>8, <1>9, <1>10 DEF CorpusInv

\* Nothing of the stores has changed.
LEMMA CorpusKept ==
  ASSUME CorpusInv, file' = file, corpus' = corpus, lastId' = lastId, now' \in Nat
  PROVE  CorpusInv' /\ OnlyNewIds
BY DEF CorpusInv, OnlyNewIds, Stored, IdsOf, Corpus

LEMMA MutateKeepsCorpus ==
  ASSUME CorpusInv, NEW p, NEW s \in Scopes, NEW call, Mutate(p, s, call),
         CallOf(call, s, lastId), now' = now
  PROVE  CorpusInv' /\ OnlyNewIds
<1> DEFINE After(records) == Stamped(Untouched(records, call), Store!Apply(records, call))
           before == corpus[s]
           after == After(before)
           m == Newest(call, lastId)
<1>1. CASE file' = file /\ corpus' = corpus /\ lastId' = lastId
  BY <1>1, CorpusKept DEF CorpusInv
<1>2. CASE /\ Store!Verdict(Stored(s), call) = "ok"
           /\ file' = [file EXCEPT ![s] = {ToJsonLine(r) : r \in After(Stored(s))}]
           /\ corpus' = [corpus EXCEPT ![s] = After(@)]
           /\ lastId' = IF "new" \in DOMAIN call THEN lastId + 1 ELSE lastId
  <2>1. Stored(s) = before /\ Corpus(before, s, lastId) /\ lastId \in Nat /\ now \in Nat
    BY DEF CorpusInv
  <2>2. Corpus(Store!Apply(before, call), s, m)
        /\ IdsOf(Store!Apply(before, call)) \subseteq IdsOf(before) \cup Added(call, lastId)
    BY <1>2, <2>1, AppliedIsCorpus
  <2>3. Corpus(after, s, m) /\ IdsOf(after) \subseteq IdsOf(before) \cup Added(call, lastId)
    BY <2>1, <2>2, StampedIsCorpus
  <2>4. lastId' = m /\ m \in Nat /\ m >= lastId /\ \A i \in Added(call, lastId) : i > lastId
    BY <1>2, <2>1 DEF Newest, Added
  <2>5. /\ \A t \in Scopes : corpus'[t] = IF t = s THEN after ELSE corpus[t]
        /\ \A t \in Scopes : file'[t] = IF t = s THEN {ToJsonLine(r) : r \in after} ELSE file[t]
        /\ file' = [t \in Scopes |-> file'[t]] /\ corpus' = [t \in Scopes |-> corpus'[t]]
    BY <1>2, <2>1 DEF CorpusInv
  <2> HIDE DEF after, m
  <2>6. ASSUME NEW t \in Scopes PROVE Stored(t)' = corpus'[t] /\ Corpus(corpus'[t], t, lastId')
    <3>1. CASE t = s
      <4>1. LoadRecords({ToJsonLine(r) : r \in after}, s) = after
        BY <2>3, Rewritten DEF Corpus
      <4>2. QED
        BY <2>3, <2>4, <2>5, <3>1, <4>1 DEF Stored
    <3>2. CASE t # s
      <4>1. corpus'[t] = corpus[t] /\ file'[t] = file[t]
        BY <2>5, <3>2
      <4>2. Stored(t) = corpus[t] /\ Corpus(corpus[t], t, lastId)
        BY DEF CorpusInv
      <4>3. Corpus(corpus[t], t, m)
        BY <2>1, <2>4, <4>2 DEF Corpus, RecordOf
      <4>4. QED
        BY <2>4, <4>1, <4>2, <4>3 DEF Stored
    <3>3. QED
      BY <3>1, <3>2
  <2>7. \A t \in Scopes : \A i \in IdsOf(corpus'[t]) : i \in IdsOf(corpus[t]) \/ i > lastId
    BY <2>3, <2>4, <2>5
  <2>8. IdsOf(corpus'["user"]) \cap IdsOf(corpus'["project"]) = {}
    <3>1. \A t \in Scopes : \A i \in IdsOf(corpus[t]) : i \in Int /\ i <= lastId
      BY IdsBounded DEF CorpusInv
    <3>2. \A t \in Scopes : t # s => corpus'[t] = corpus[t]
      BY <2>5
    <3>3. IdsOf(corpus["user"]) \cap IdsOf(corpus["project"]) = {}
      BY DEF CorpusInv
    <3>4. s = "user" \/ s = "project"
      BY DEF Scopes
    <3>5. "user" \in Scopes /\ "project" \in Scopes
      BY DEF Scopes
    <3>6. QED
      BY <2>1, <2>7, <3>1, <3>2, <3>3, <3>4, <3>5
  <2>9. \A t \in Scopes : IdsOf(corpus[t])' = IdsOf(corpus'[t])
    BY DEF IdsOf
  <2>10. QED
    BY <2>1, <2>4, <2>5, <2>6, <2>7, <2>8, <2>9 DEF CorpusInv, OnlyNewIds, Scopes
<1>3. QED
  BY <1>1, <1>2 DEF Mutate, Refuse

\* The commands that write call what the stores expect of them.
LEMMA KeepKeepsCorpus ==
  ASSUME CorpusInv, NEW p, NEW verb \in {"remember", "update"}, NEW new,
         NEW method \in Methods \cup {"none"}, Keep(p, verb, new, method),
         new.kind \in Kinds, new.text \in Seq(Token), now' = now
  PROVE  CorpusInv' /\ OnlyNewIds
<1> DEFINE s == WriteTarget(new.scope)
           call == [verb |-> verb, new |-> NewRecord(new, method)]
<1>1. s \in Scopes
  BY TargetIsScope
<1>2. CASE file' = file /\ corpus' = corpus /\ lastId' = lastId
  BY <1>2, CorpusKept DEF CorpusInv
<1>3. CASE Mutate(p, s, call)
  <2>1. RecordOf(NewRecord(new, method), s) /\ NewRecord(new, method).id = lastId + 1
    BY DEF RecordOf, Shaped, NewRecord, Sources, Statuses, CorpusInv
  <2>2. CallOf(call, s, lastId)
    BY <2>1 DEF CallOf
  <2> HIDE DEF call, s
  <2>3. QED
    BY <1>1, <1>3, <2>2, MutateKeepsCorpus
<1>4. QED
  BY <1>2, <1>3 DEF Keep, Refuse

LEMMA WriteKeepsCorpus ==
  ASSUME CorpusInv, NEW p, NEW c \in Typed, Write(p, c)
  PROVE  CorpusInv' /\ OnlyNewIds
BY TypedIs, KeepKeepsCorpus DEF Write

LEMMA ConfirmKeepsCorpus ==
  ASSUME CorpusInv, NEW p, NEW c \in Typed, NEW q \in Queued, Confirm(p, c, q)
  PROVE  CorpusInv' /\ OnlyNewIds
<1> DEFINE new == Confirmed(c, q)
<1>1. CASE file' = file /\ corpus' = corpus /\ lastId' = lastId
  BY <1>1, CorpusKept DEF Confirm, CorpusInv
<1>2. CASE Keep(p, "remember", new, "rule")
  <2>1. c.kind \in Kinds \cup {"proposed"} /\ q.kind \in Kinds /\ q.text \in Seq(Token)
    BY TypedIs, QueuedAssumption DEF Confirm
  <2>2. new.kind \in Kinds /\ new.text \in Seq(Token)
    BY <2>1 DEF Confirmed
  <2> HIDE DEF new
  <2>3. "rule" \in Methods /\ now' = now
    BY DEF Methods, Confirm
  <2>4. QED
    BY <1>2, <2>2, <2>3, KeepKeepsCorpus
<1>3. QED
  BY <1>1, <1>2 DEF Confirm, Refuse

LEMMA AddressKeepsCorpus ==
  ASSUME CorpusInv, NEW p, NEW c, Address(p, c)
  PROVE  CorpusInv' /\ OnlyNewIds
<1> DEFINE s == WriteTarget(c.scope)
<1>1. s \in Scopes
  BY TargetIsScope
<1>2. PICK call : Mutate(p, s, call) /\ CallOf(call, s, lastId)
  BY DEF Address, CallOf
<1>3. QED
  BY <1>1, <1>2, MutateKeepsCorpus DEF Address

-------------------------------------------------------------------------------
(* The reads *)

LEMMA MatchingIs ==
  ASSUME NEW c, NEW records, NEW others
  PROVE  /\ Matching(c, records) \subseteq records
         /\ Matching(c, records) \cap others \subseteq Matching(c, others)
BY DEF Matching

OfScope(records, s) == {r \in records : r.scope = s}

\* What the first of two reads has collected: of the user's records every one that was there
\* all the time, and none that never was; no id that the project store has.
HasRead(p) ==
  /\ opened[p] = "both" /\ cmd[p].scope = "default"
  /\ got[p] \subseteq Matching(cmd[p], OfScope(during[p].some, "user"))
  /\ Matching(cmd[p], OfScope(during[p].every, "user")) \subseteq got[p]
  /\ Corpus(got[p], "user", lastId)
  /\ IdsOf(got[p]) \cap IdsOf(corpus["project"]) = {}

IsReading(p) ==
  /\ cmd[p] \in Typed \cup {NewSession}
  /\ cmd[p].verb \in {"list", "show", "inject"}
  /\ during[p].every \subseteq AllRecords
  /\ AllRecords \subseteq during[p].some

Functions ==
  /\ pc \in [Procs -> {"idle", "read", "project"}]
  /\ cmd = [p \in Procs |-> cmd[p]]
  /\ got = [p \in Procs |-> got[p]]
  /\ reply = [p \in Procs |-> reply[p]]

ReadInv ==
  /\ Functions
  /\ \A p \in Procs : pc[p] # "idle" => IsReading(p)
  /\ \A p \in Procs : pc[p] = "project" => HasRead(p)

\* A step of q leaves the commands of the others as they are.
Alone(q) ==
  /\ Functions'
  /\ \A p \in Procs \ {q} : pc'[p] = pc[p] /\ cmd'[p] = cmd[p] /\ got'[p] = got[p]

LEMMA AnswerAlone ==
  ASSUME Functions, NEW q \in Procs, NEW answer, Answer(q, answer)
  PROVE  Alone(q) /\ pc'[q] = "idle" /\ reply'[q] = answer
BY DEF Answer, Functions, Alone

\* A command that goes on reading has the same records behind it and sees those of now.
LEMMA ReadingGoesOn ==
  ASSUME ReadInv, Functions', Watch, NEW p \in Procs, pc[p] # "idle", pc'[p] # "idle", cmd'[p] = cmd[p]
  PROVE  /\ IsReading(p)'
         /\ during'[p].every \subseteq during[p].every
         /\ during[p].some \subseteq during'[p].some
<1>1. pc'[p] \in {"read", "project"}
  BY DEF Functions
<1>2. during'[p] = [some |-> during[p].some \cup AllRecords',
                    every |-> during[p].every \cap AllRecords']
  BY <1>1 DEF Watch
<1>3. during'[p].some = during[p].some \cup AllRecords'
      /\ during'[p].every = during[p].every \cap AllRecords'
  BY <1>2
<1>4. cmd[p] \in Typed \cup {NewSession} /\ cmd[p].verb \in {"list", "show", "inject"}
  BY DEF ReadInv, IsReading
<1>5. QED
  BY <1>3, <1>4 DEF IsReading

\* What was collected stays as good as it was.
LEMMA CollectedStays ==
  ASSUME CorpusInv, CorpusInv', OnlyNewIds, NEW p \in Procs, HasRead(p),
         opened' = opened, cmd'[p] = cmd[p], got'[p] = got[p],
         during'[p].every \subseteq during[p].every, during[p].some \subseteq during'[p].some
  PROVE  HasRead(p)'
<1>1. got'[p] \subseteq Matching(cmd'[p], OfScope(during'[p].some, "user"))
  <2>1. OfScope(during[p].some, "user") \subseteq OfScope(during'[p].some, "user")
    BY DEF OfScope
  <2>2. Matching(cmd[p], OfScope(during[p].some, "user"))
          \subseteq Matching(cmd[p], OfScope(during'[p].some, "user"))
    BY <2>1, MatchingIs
  <2>3. QED
    BY <2>2 DEF HasRead
<1>2. Matching(cmd'[p], OfScope(during'[p].every, "user")) \subseteq got'[p]
  <2>1. OfScope(during'[p].every, "user") \subseteq OfScope(during[p].every, "user")
    BY DEF OfScope
  <2>2. Matching(cmd[p], OfScope(during'[p].every, "user"))
          \subseteq Matching(cmd[p], OfScope(during[p].every, "user"))
    BY <2>1, MatchingIs
  <2>3. QED
    BY <2>2 DEF HasRead
<1>3. lastId \in Nat /\ lastId' \in Nat /\ lastId' >= lastId
  BY DEF CorpusInv, OnlyNewIds
<1>4. Corpus(got[p], "user", lastId)
  BY DEF HasRead
<1>5. Corpus(got[p], "user", lastId')
  BY <1>3, <1>4 DEF Corpus, RecordOf
<1>6. \A i \in IdsOf(got[p]) : i \in Int /\ i <= lastId
  BY <1>4, IdsBounded
<1>7. \A i \in IdsOf(corpus["project"])' : i \in IdsOf(corpus["project"]) \/ i > lastId
  BY DEF OnlyNewIds, Scopes
<1>8. IdsOf(got[p]) \cap IdsOf(corpus["project"]) = {}
  BY DEF HasRead
<1>9. IdsOf(got[p]) \cap IdsOf(corpus["project"])' = {}
  BY <1>3, <1>6, <1>7, <1>8
<1>10. IdsOf(corpus["project"])' = IdsOf(corpus'["project"]) /\ opened'[p] = "both"
       /\ cmd'[p].scope = "default"
  BY DEF IdsOf, HasRead
<1>11. QED
  BY <1>1, <1>2, <1>5, <1>9, <1>10 DEF HasRead, Corpus, IdsOf, OfScope

\* A command that a step leaves alone.
LEMMA OtherKept ==
  ASSUME CorpusInv, CorpusInv', OnlyNewIds, ReadInv, Functions', Watch, opened' = opened,
         NEW p \in Procs, pc'[p] # "idle",
         pc'[p] = pc[p], cmd'[p] = cmd[p], got'[p] = got[p]
  PROVE  IsReading(p)' /\ (pc'[p] = "project" => HasRead(p)')
<1>1. /\ IsReading(p)'
      /\ during'[p].every \subseteq during[p].every
      /\ during[p].some \subseteq during'[p].some
  BY ReadingGoesOn
<1>2. CASE pc'[p] = "project"
  <2>1. HasRead(p)
    BY <1>2 DEF ReadInv
  <2>2. QED
    BY <1>1, <2>1, CollectedStays
<1>3. QED
  BY <1>1, <1>2

\* A step of q keeps what was read if it begins a command, ends one, or collects.
LEMMA ReadKept ==
  ASSUME CorpusInv, CorpusInv', OnlyNewIds, ReadInv, Watch, opened' = opened,
         NEW q \in Procs, Alone(q),
         \/ pc'[q] = "idle"
         \/ pc[q] = "idle" /\ pc'[q] = "read" /\ IsReading(q)'
         \/ pc[q] = "read" /\ pc'[q] = "project" /\ cmd'[q] = cmd[q] /\ HasRead(q)'
  PROVE  ReadInv'
<1>1. Functions'
  BY DEF Alone
<1>2. ASSUME NEW p \in Procs, p # q, pc'[p] # "idle"
      PROVE  IsReading(p)' /\ (pc'[p] = "project" => HasRead(p)')
  BY <1>1, <1>2, OtherKept DEF Alone
<1>3. ASSUME pc'[q] # "idle"
      PROVE  IsReading(q)' /\ (pc'[q] = "project" => HasRead(q)')
  <2>1. CASE pc[q] = "idle" /\ pc'[q] = "read" /\ IsReading(q)'
    BY <2>1
  <2>2. CASE pc[q] = "read" /\ pc'[q] = "project" /\ cmd'[q] = cmd[q] /\ HasRead(q)'
    BY <1>1, <2>2, ReadingGoesOn
  <2>3. QED
    BY <1>3, <2>1, <2>2
<1>4. QED
  BY <1>1, <1>2, <1>3 DEF ReadInv

\* What one store has of what a command asks for.
LEMMA FoundIs ==
  ASSUME CorpusInv, NEW p \in Procs, IsReading(p), NEW s \in Scopes
  PROVE  /\ Matching(cmd[p], corpus[s]) \subseteq Matching(cmd[p], OfScope(during[p].some, s))
         /\ Matching(cmd[p], OfScope(during[p].every, s)) \subseteq Matching(cmd[p], corpus[s])
         /\ Corpus(Matching(cmd[p], corpus[s]), s, lastId)
         /\ IdsOf(Matching(cmd[p], corpus[s])) \subseteq IdsOf(corpus[s])
<1> DEFINE found == Matching(cmd[p], corpus[s])
<1>1. Corpus(corpus[s], s, lastId)
  BY DEF CorpusInv
<1>2. \A t \in Scopes : \A r \in corpus[t] : r.scope = t
  BY DEF CorpusInv, Corpus, RecordOf
<1>3. corpus[s] \subseteq OfScope(during[p].some, s)
  BY <1>2 DEF IsReading, AllRecords, Scopes, OfScope
<1>4. OfScope(during[p].every, s) \subseteq corpus[s]
  BY <1>2 DEF IsReading, AllRecords, Scopes, OfScope
<1>5. found \subseteq corpus[s]
  BY MatchingIs
<1>6. found \subseteq Matching(cmd[p], OfScope(during[p].some, s))
  BY <1>3, <1>5, MatchingIs
<1>7. Matching(cmd[p], OfScope(during[p].every, s)) \subseteq found
  <2>1. Matching(cmd[p], OfScope(during[p].every, s)) \subseteq corpus[s]
    BY <1>4, MatchingIs
  <2>2. QED
    BY <2>1, MatchingIs
<1> HIDE DEF found
<1>8. IsFiniteSet(found)
  BY <1>1, <1>5, FS_Subset DEF Corpus
<1>9. Corpus(found, s, lastId)
  BY <1>1, <1>5, <1>8 DEF Corpus, Store!DistinctIds
<1>10. IdsOf(found) \subseteq IdsOf(corpus[s])
  BY <1>5 DEF IdsOf
<1>11. QED
  BY <1>6, <1>7, <1>9, <1>10 DEF found

\* The scopes a command asks, and what it has found when it has asked them all.
Asked(p) == IF cmd[p].scope = "default" /\ opened[p] = "both" THEN Scopes
            ELSE {WriteTarget(cmd[p].scope)}

Collected(p, records) ==
  /\ records \subseteq Matching(cmd[p], {r \in during[p].some : r.scope \in Asked(p)})
  /\ Matching(cmd[p], {r \in during[p].every : r.scope \in Asked(p)}) \subseteq records
  /\ Datable(records)
  /\ \A r \in records : r.content.text \in Seq(Token)

LEMMA CorpusIsDatable ==
  ASSUME NEW records, NEW s, NEW n, Corpus(records, s, n)
  PROVE  Datable(records) /\ \A r \in records : r.content.text \in Seq(Token)
BY DEF Corpus, Datable, RecordOf

LEMMA OneScopeCollected ==
  ASSUME CorpusInv, NEW p \in Procs, IsReading(p), ~(cmd[p].scope = "default" /\ opened[p] = "both")
  PROVE  Collected(p, Matching(cmd[p], Stored(WriteTarget(cmd[p].scope))))
<1> DEFINE s == WriteTarget(cmd[p].scope)
<1>1. s \in Scopes
  BY TargetIsScope
<1>2. Stored(s) = corpus[s]
  BY <1>1 DEF CorpusInv
<1>3. Asked(p) = {s}
  BY DEF Asked
<1> HIDE DEF s
<1>4. /\ OfScope(during[p].some, s) = {r \in during[p].some : r.scope \in Asked(p)}
      /\ OfScope(during[p].every, s) = {r \in during[p].every : r.scope \in Asked(p)}
  BY <1>3 DEF OfScope
<1> DEFINE found == Matching(cmd[p], corpus[s])
<1>5. /\ found \subseteq Matching(cmd[p], OfScope(during[p].some, s))
      /\ Matching(cmd[p], OfScope(during[p].every, s)) \subseteq found
      /\ Corpus(found, s, lastId)
  BY <1>1, FoundIs
<1> HIDE DEF found
<1>6. Collected(p, found)
  BY <1>4, <1>5, CorpusIsDatable DEF Collected
<1>7. QED
  BY <1>2, <1>6 DEF found, s

LEMMA BothScopesCollected ==
  ASSUME CorpusInv, NEW p \in Procs, IsReading(p), HasRead(p)
  PROVE  Collected(p, got[p] \cup Matching(cmd[p], Stored("project")))
<1> DEFINE mine == got[p]
           found == Matching(cmd[p], corpus["project"])
           some == during[p].some
           every == during[p].every
           Within(records) == {r \in records : r.scope \in Asked(p)}
<1>1. "project" \in Scopes /\ Stored("project") = corpus["project"]
  BY DEF CorpusInv, Scopes
<1>2. Asked(p) = Scopes
  BY DEF Asked, HasRead
<1>3. /\ found \subseteq Matching(cmd[p], OfScope(some, "project"))
      /\ Matching(cmd[p], OfScope(every, "project")) \subseteq found
      /\ Corpus(found, "project", lastId)
      /\ IdsOf(found) \subseteq IdsOf(corpus["project"])
  BY <1>1, FoundIs
<1>4. /\ mine \subseteq Matching(cmd[p], OfScope(some, "user"))
      /\ Matching(cmd[p], OfScope(every, "user")) \subseteq mine
      /\ Corpus(mine, "user", lastId)
      /\ IdsOf(mine) \cap IdsOf(corpus["project"]) = {}
  BY DEF HasRead
<1> HIDE DEF mine, found, some, every
<1>5. /\ OfScope(some, "user") \subseteq Within(some)
      /\ OfScope(some, "project") \subseteq Within(some)
      /\ \A r \in Within(every) : r \in OfScope(every, "user") \/ r \in OfScope(every, "project")
  BY <1>2 DEF OfScope, Scopes
<1> HIDE DEF Within
<1>6. mine \cup found \subseteq Matching(cmd[p], Within(some))
  <2>1. /\ Matching(cmd[p], OfScope(some, "user")) \subseteq OfScope(some, "user")
        /\ Matching(cmd[p], OfScope(some, "project")) \subseteq OfScope(some, "project")
    BY MatchingIs
  <2>2. /\ Matching(cmd[p], OfScope(some, "user")) \subseteq Matching(cmd[p], Within(some))
        /\ Matching(cmd[p], OfScope(some, "project")) \subseteq Matching(cmd[p], Within(some))
    BY <1>5, <2>1, MatchingIs
  <2>3. QED
    BY <1>3, <1>4, <2>2
<1>7. Matching(cmd[p], Within(every)) \subseteq mine \cup found
  <2>1. SUFFICES ASSUME NEW r \in Matching(cmd[p], Within(every)) PROVE r \in mine \cup found
    OBVIOUS
  <2>2. r \in Within(every)
    BY MatchingIs
  <2>3. /\ r \in OfScope(every, "user") => r \in Matching(cmd[p], OfScope(every, "user"))
        /\ r \in OfScope(every, "project") => r \in Matching(cmd[p], OfScope(every, "project"))
    BY MatchingIs
  <2>4. QED
    BY <1>3, <1>4, <1>5, <2>2, <2>3
<1>8. IsFiniteSet(mine \cup found)
  BY <1>3, <1>4, FS_Union DEF Corpus
<1>9. Store!DistinctIds(mine \cup found)
  <2>1. SUFFICES ASSUME NEW a \in mine \cup found, NEW b \in mine \cup found, a.id = b.id PROVE a = b
    BY DEF Store!DistinctIds
  <2>2. \A r \in mine : r.id \in IdsOf(mine)
    BY DEF IdsOf
  <2>3. \A r \in found : r.id \in IdsOf(found)
    BY DEF IdsOf
  <2>4. ~(a \in mine /\ b \in found) /\ ~(a \in found /\ b \in mine)
    BY <1>3, <1>4, <2>1, <2>2, <2>3
  <2>5. QED
    BY <1>3, <1>4, <2>1, <2>4 DEF Corpus, Store!DistinctIds
<1>10. \A r \in mine \cup found : /\ r.id \in Int /\ r.created \in Int /\ r.updated \in Int
                                  /\ r.content.text \in Seq(Token)
  BY <1>3, <1>4 DEF Corpus, RecordOf
<1>11. Datable(mine \cup found)
  BY <1>8, <1>9, <1>10 DEF Datable
<1>12. Collected(p, mine \cup found)
  BY <1>6, <1>7, <1>10, <1>11 DEF Collected, Within, some, every
<1>13. QED
  BY <1>1, <1>12 DEF mine, found

-------------------------------------------------------------------------------
(* The steps *)

\* The first read answers what it found, or keeps it for the second.
LEMMA ReadIs ==
  ASSUME CorpusInv, ReadInv, Watch, NEW p \in Procs, Read(p)
  PROVE  /\ Alone(p)
         /\ \/ pc'[p] = "idle" /\ reply'[p].is = "error"
            \/ \E records : AnswerRead(p, records) /\ Collected(p, records)
            \/ pc'[p] = "project" /\ cmd'[p] = cmd[p] /\ HasRead(p)'
<1> DEFINE c == cmd[p]
           s == WriteTarget(c.scope)
           found == Matching(c, Stored(s))
<1>1. pc[p] = "read" /\ IsReading(p) /\ Functions
  BY DEF Read, ReadInv
<1>2. CASE Error(p, "unavailable")
  BY <1>1, <1>2, AnswerAlone DEF Error
<1>3. CASE ~(c.scope = "default" /\ opened[p] = "both") /\ AnswerRead(p, found)
  <2>1. Alone(p)
    BY <1>1, <1>3, AnswerAlone DEF AnswerRead
  <2>2. Collected(p, found)
    BY <1>1, <1>3, OneScopeCollected
  <2> HIDE DEF found
  <2>3. QED
    BY <1>3, <2>1, <2>2
<1>4. CASE /\ c.scope = "default" /\ opened[p] = "both"
           /\ got' = [got EXCEPT ![p] = found]
           /\ pc' = [pc EXCEPT ![p] = "project"]
           /\ UNCHANGED <<cmd, reply>>
  <2>1. Alone(p) /\ got'[p] = found /\ pc'[p] = "project" /\ cmd'[p] = cmd[p] /\ Functions'
    <3> HIDE DEF found
    <3>1. QED
      BY <1>1, <1>4 DEF Alone, Functions
  <2>2. s = "user" /\ "user" \in Scopes /\ Stored("user") = corpus["user"]
    BY <1>4 DEF WriteTarget, CorpusInv, Scopes
  <2>3. /\ found \subseteq Matching(c, OfScope(during[p].some, "user"))
        /\ Matching(c, OfScope(during[p].every, "user")) \subseteq found
        /\ Corpus(found, "user", lastId)
        /\ IdsOf(found) \subseteq IdsOf(corpus["user"])
    BY <1>1, <2>2, FoundIs
  <2>4. /\ during'[p].every \subseteq during[p].every
        /\ during[p].some \subseteq during'[p].some
    BY <1>1, <2>1, ReadingGoesOn
  <2>5. lastId' = lastId /\ corpus' = corpus /\ opened' = opened
    BY DEF Read
  <2> HIDE DEF found
  <2>6. /\ OfScope(during[p].some, "user") \subseteq OfScope(during'[p].some, "user")
        /\ OfScope(during'[p].every, "user") \subseteq OfScope(during[p].every, "user")
    BY <2>4 DEF OfScope
  <2>7. /\ found \subseteq Matching(c, OfScope(during'[p].some, "user"))
        /\ Matching(c, OfScope(during'[p].every, "user")) \subseteq found
    <3>1. Matching(c, OfScope(during[p].some, "user")) \subseteq OfScope(during[p].some, "user")
          /\ Matching(c, OfScope(during'[p].every, "user")) \subseteq OfScope(during'[p].every, "user")
      BY MatchingIs
    <3>2. /\ Matching(c, OfScope(during[p].some, "user"))
               \subseteq Matching(c, OfScope(during'[p].some, "user"))
          /\ Matching(c, OfScope(during'[p].every, "user"))
               \subseteq Matching(c, OfScope(during[p].every, "user"))
      BY <2>6, <3>1, MatchingIs
    <3>3. QED
      BY <2>3, <3>2
  <2>8. IdsOf(found) \cap IdsOf(corpus["project"]) = {}
    BY <2>3 DEF CorpusInv
  <2>9. HasRead(p)'
    BY <1>4, <2>1, <2>3, <2>5, <2>7, <2>8 DEF HasRead, Corpus, IdsOf, OfScope
  <2>10. QED
    BY <2>1, <2>9
<1>5. QED
  BY <1>2, <1>3, <1>4 DEF Read

LEMMA ReadProjectIs ==
  ASSUME CorpusInv, ReadInv, NEW p \in Procs, ReadProject(p)
  PROVE  /\ Alone(p)
         /\ \E records : AnswerRead(p, records) /\ Collected(p, records)
<1> DEFINE records == got[p] \cup Matching(cmd[p], Stored("project"))
<1>1. AnswerRead(p, records)
  BY DEF ReadProject
<1>2. IsReading(p) /\ HasRead(p) /\ Functions
  BY DEF ReadProject, ReadInv
<1>3. Collected(p, records)
  BY <1>2, BothScopesCollected
<1> HIDE DEF records
<1>4. Alone(p)
  BY <1>1, <1>2, AnswerAlone DEF AnswerRead
<1>5. QED
  BY <1>1, <1>3, <1>4

LEMMA StartReadIs ==
  ASSUME Functions, Watch, NEW p \in Procs, NEW c \in Typed \cup {NewSession}, StartRead(p, c)
  PROVE  Alone(p) /\ pc[p] = "idle" /\ pc'[p] = "read" /\ IsReading(p)'
<1>1. Alone(p) /\ pc[p] = "idle" /\ pc'[p] = "read" /\ cmd'[p] = c
  BY DEF StartRead, Functions, Alone
<1>2. during'[p] = [some |-> AllRecords, every |-> AllRecords]
  BY <1>1 DEF Watch
<1>3. during'[p].some = AllRecords /\ during'[p].every = AllRecords
  BY <1>2
<1>4. AllRecords' = AllRecords
  BY DEF StartRead, AllRecords
<1>5. QED
  BY <1>1, <1>3, <1>4 DEF IsReading, StartRead

LEMMA MutateAlone ==
  ASSUME Functions, NEW p \in Procs, NEW s, NEW call, Mutate(p, s, call)
  PROVE  Alone(p) /\ pc'[p] = "idle"
<1>1. PICK answer : Answer(p, answer)
  BY DEF Mutate, Refuse, Error
<1>2. QED
  BY <1>1, AnswerAlone

LEMMA KeepAlone ==
  ASSUME Functions, NEW p \in Procs, NEW verb, NEW new, NEW method, Keep(p, verb, new, method)
  PROVE  Alone(p) /\ pc'[p] = "idle"
<1>1. CASE Error(p, "refused")
  BY <1>1, AnswerAlone DEF Error
<1>2. CASE Mutate(p, WriteTarget(new.scope), [verb |-> verb, new |-> NewRecord(new, method)])
  BY <1>2, MutateAlone
<1>3. QED
  BY <1>1, <1>2 DEF Keep, Refuse

\* A write, a confirmation, a forget, a pin, or an answer that needs no store.
Command(p, c) ==
  Write(p, c) \/ Address(p, c) \/ Reply(p, c) \/ \E q \in Queued : Confirm(p, c, q)

LEMMA CommandAlone ==
  ASSUME Functions, NEW p \in Procs, NEW c, Command(p, c)
  PROVE  Alone(p) /\ pc[p] = "idle" /\ pc'[p] = "idle"
<1>1. CASE Write(p, c)
  BY <1>1, KeepAlone DEF Write
<1>2. CASE Address(p, c)
  <2>1. PICK call : Mutate(p, WriteTarget(c.scope), call)
    BY <1>2 DEF Address
  <2>2. QED
    BY <1>2, <2>1, MutateAlone DEF Address
<1>3. CASE Reply(p, c)
  BY <1>3, AnswerAlone DEF Reply
<1>4. ASSUME NEW q \in Queued, Confirm(p, c, q)
      PROVE  Alone(p) /\ pc[p] = "idle" /\ pc'[p] = "idle"
  <2>1. pc[p] = "idle" /\ (\/ Keep(p, "remember", Confirmed(c, q), "rule")
                           \/ \E answer : Answer(p, answer))
    BY <1>4 DEF Confirm, Refuse, Error
  <2>2. QED
    BY <2>1, KeepAlone, AnswerAlone
<1>5. QED
  BY <1>1, <1>2, <1>3, <1>4 DEF Command

LEMMA FailsAlone ==
  ASSUME Functions, NEW p \in Procs, Fails(p)
  PROVE  Alone(p) /\ pc'[p] = "idle" /\ reply'[p].is = "error"
BY AnswerAlone DEF Fails, Error

LEMMA HistoryInvKept == CorpusInv /\ ReadInv /\ [Next]_vars => CorpusInv' /\ ReadInv'
<1> SUFFICES ASSUME CorpusInv, ReadInv, [Next]_vars PROVE CorpusInv' /\ ReadInv'
  OBVIOUS
<1>1. Functions
  BY DEF ReadInv
<1>2. CASE UNCHANGED vars
  BY <1>2 DEF vars, CorpusInv, ReadInv, Functions, IsReading, HasRead, Stored, AllRecords, Corpus,
              IdsOf, OfScope
<1>3. CASE Watch /\ Tick
  <2>1. CorpusInv' /\ OnlyNewIds
    <3>1. now' \in Nat
      BY <1>3 DEF Tick, CorpusInv
    <3>2. file' = file /\ corpus' = corpus /\ lastId' = lastId
      BY <1>3 DEF Tick
    <3>3. QED
      BY <3>1, <3>2, CorpusKept
  <2>2. Functions' /\ UNCHANGED <<pc, cmd, got, opened>>
    BY <1>1, <1>3 DEF Tick, Functions
  <2>3. \A p \in Procs : pc'[p] # "idle" => IsReading(p)' /\ (pc'[p] = "project" => HasRead(p)')
    BY <1>3, <2>1, <2>2, OtherKept
  <2>4. QED
    BY <2>1, <2>2, <2>3 DEF ReadInv
<1>4. ASSUME Watch, NEW p \in Procs, NEW c \in Typed, Command(p, c)
      PROVE  CorpusInv' /\ ReadInv'
  <2>1. CorpusInv' /\ OnlyNewIds
    <3>1. CASE Reply(p, c)
      BY <3>1, CorpusKept DEF Reply, CorpusInv
    <3>2. QED
      BY <1>4, <3>1, WriteKeepsCorpus, AddressKeepsCorpus, ConfirmKeepsCorpus DEF Command
  <2>2. Alone(p) /\ pc'[p] = "idle" /\ opened' = opened
    BY <1>1, <1>4, CommandAlone DEF Command, Write, Address, Reply, Confirm
  <2>3. QED
    BY <1>4, <2>1, <2>2, ReadKept
<1>5. ASSUME Watch, NEW p \in Procs, NEW c \in Typed \cup {NewSession}, StartRead(p, c)
      PROVE  CorpusInv' /\ ReadInv'
  <2>1. CorpusInv' /\ OnlyNewIds /\ opened' = opened
    BY <1>5, CorpusKept DEF StartRead, CorpusInv
  <2>2. Alone(p) /\ pc[p] = "idle" /\ pc'[p] = "read" /\ IsReading(p)'
    BY <1>1, <1>5, StartReadIs
  <2>3. QED
    BY <1>5, <2>1, <2>2, ReadKept
<1>6. ASSUME Watch, NEW p \in Procs, Read(p) PROVE CorpusInv' /\ ReadInv'
  <2>1. CorpusInv' /\ OnlyNewIds /\ opened' = opened /\ pc[p] = "read"
    BY <1>6, CorpusKept DEF Read, CorpusInv
  <2>2. /\ Alone(p)
        /\ \/ pc'[p] = "idle"
           \/ \E records : AnswerRead(p, records)
           \/ pc'[p] = "project" /\ cmd'[p] = cmd[p] /\ HasRead(p)'
    BY <1>6, ReadIs
  <2>3. ASSUME NEW records, AnswerRead(p, records) PROVE pc'[p] = "idle"
    BY <1>1, <2>3, AnswerAlone DEF AnswerRead
  <2>4. QED
    BY <1>6, <2>1, <2>2, <2>3, ReadKept
<1>7. ASSUME Watch, NEW p \in Procs, ReadProject(p) \/ Fails(p) PROVE CorpusInv' /\ ReadInv'
  <2>1. CorpusInv' /\ OnlyNewIds /\ opened' = opened
    BY <1>7, CorpusKept DEF ReadProject, Fails, CorpusInv
  <2>2. Alone(p) /\ pc'[p] = "idle"
    BY <1>1, <1>7, AnswerAlone DEF ReadProject, AnswerRead, Fails, Error
  <2>3. QED
    BY <1>7, <2>1, <2>2, ReadKept
<1>8. QED
  BY <1>2, <1>3, <1>4, <1>5, <1>6, <1>7 DEF Next, Command

\* The answer of a command that has collected what it shows.
Answered(p) == \E records : AnswerRead(p, records) /\ Collected(p, records)

\* Only the step of its own process ends a read.
LEMMA OwnStepEnds ==
  ASSUME CorpusInv, ReadInv, Next, NEW p \in Procs, pc[p] \in {"read", "project"},
         pc'[p] = "idle", reply'[p].is # "error"
  PROVE  Answered(p)
<1>1. Functions /\ Watch
  BY DEF ReadInv, Next
<1>2. ASSUME NEW q \in Procs, Alone(q) PROVE q = p
  BY <1>2 DEF Alone
<1>3. ASSUME NEW q \in Procs, NEW c, Command(q, c) PROVE FALSE
  BY <1>1, <1>2, <1>3, CommandAlone
<1>4. ASSUME NEW q \in Procs, NEW c \in Typed \cup {NewSession}, StartRead(q, c) PROVE FALSE
  BY <1>1, <1>2, <1>4, StartReadIs
<1>5. ASSUME NEW q \in Procs, Fails(q) PROVE FALSE
  BY <1>1, <1>2, <1>5, FailsAlone
<1>6. ASSUME NEW q \in Procs, Read(q) PROVE Answered(p)
  BY <1>1, <1>2, <1>6, ReadIs DEF Answered
<1>7. ASSUME NEW q \in Procs, ReadProject(q) PROVE Answered(p)
  BY <1>2, <1>7, ReadProjectIs DEF Answered
<1>8. ~Tick
  BY DEF Tick
<1>9. QED
  BY <1>3, <1>4, <1>5, <1>6, <1>7, <1>8 DEF Next, Command

LEMMA HistoryInit == Init => CorpusInv /\ ReadInv
<1> SUFFICES ASSUME Init PROVE ReadInv
  BY CorpusInit
<1>1. pc = [p \in Procs |-> "idle"] /\ cmd = [p \in Procs |-> NewSession]
      /\ got = [p \in Procs |-> {}] /\ reply = [p \in Procs |-> [is |-> "none"]]
  BY DEF Init
<1>2. Functions /\ \A p \in Procs : pc[p] = "idle"
  BY <1>1 DEF Functions
<1>3. QED
  BY <1>2 DEF ReadInv

\* A list or a show over both scopes is not a snapshot, but shows every record that was there
\* all the time and none that never was, with the contents, the state and the provenance that
\* the commands gave it (api.rs list, show: two unlocked reads; record.rs to_json_line,
\* record_from_line).
THEOREM ShownIsTrueHolds == Spec => ShownIsTrue
<1> DEFINE shown(p) == Range(reply'[p].records)
           asked(p) == IF cmd[p].scope = "default" /\ opened[p] = "both" THEN Scopes
                       ELSE {WriteTarget(cmd[p].scope)}
           Step == \A p \in Procs :
                     pc[p] \in {"read", "project"} /\ pc'[p] = "idle"
                       /\ reply'[p].is \in {"list", "show"} =>
                     /\ shown(p) \subseteq
                          Matching(cmd[p], {r \in during[p].some : r.scope \in asked(p)})
                     /\ Matching(cmd[p], {r \in during[p].every : r.scope \in asked(p)})
                          \subseteq shown(p)
<1>1. CorpusInv /\ ReadInv /\ Next => Step
  <2> SUFFICES ASSUME CorpusInv, ReadInv, Next, NEW p \in Procs,
                      pc[p] \in {"read", "project"}, pc'[p] = "idle",
                      reply'[p].is \in {"list", "show"}
               PROVE  /\ shown(p) \subseteq
                           Matching(cmd[p], {r \in during[p].some : r.scope \in asked(p)})
                      /\ Matching(cmd[p], {r \in during[p].every : r.scope \in asked(p)})
                           \subseteq shown(p)
    OBVIOUS
  <2>1. PICK records : AnswerRead(p, records) /\ Collected(p, records)
    BY OwnStepEnds DEF Answered
  <2>2. Functions
    BY DEF ReadInv
  <2> DEFINE answer == [is |-> cmd[p].verb,
                        records |-> CASE cmd[p].verb = "list" -> OrderActive(records)
                                      [] cmd[p].verb = "show" -> OrderShow(records)
                                      [] OTHER -> Select(OrderActive(records))]
  <2>3. Answer(p, answer)
    BY <2>1 DEF AnswerRead
  <2>4. reply'[p] = answer
    BY <2>2, <2>3, AnswerAlone
  <2>5. reply'[p].records = OrderActive(records) \/ reply'[p].records = OrderShow(records)
    BY <2>4
  <2>6. Range(reply'[p].records) = records
    BY <2>1, <2>5, OrderedAreThey DEF Collected
  <2>7. QED
    BY <2>1, <2>6 DEF Collected, Asked
<1>2. CorpusInv /\ ReadInv /\ [Next]_vars => [Step]_vars
  BY <1>1
<1> HIDE DEF Step
<1>3. Spec => [][Step]_vars
  BY <1>2, HistoryInit, HistoryInvKept, PTL DEF Spec
<1>4. [][Step]_vars => ShownIsTrue
  BY DEF ShownIsTrue, Step
<1>5. QED
  BY <1>3, <1>4

-------------------------------------------------------------------------------
(* What fits the block of a new session *)

\* A set of numbers that has 0, and the successor of each of its numbers, has them all.
LEMMA Induction ==
  ASSUME NEW T \in SUBSET Nat, 0 \in T, \A n \in T : n + 1 \in T
  PROVE  T = Nat
<1>1. CASE Nat \ T # {}
  <2>1. PICK x \in Nat \ T : \A y \in Nat \ T : x <= y
    <3> DEFINE rest == Nat \ T
    <3>1. rest \subseteq Nat /\ rest # {}
      BY <1>1
    <3> HIDE DEF rest
    <3>2. Min(rest) \in rest /\ \A y \in rest : Min(rest) <= y
      BY <3>1, Least
    <3>3. QED
      BY <3>2 DEF rest
  <2>2. x # 0 /\ x - 1 \in Nat
    BY <2>1
  <2>3. x - 1 \in T
    BY <2>1, <2>2
  <2>4. (x - 1) + 1 = x
    BY <2>1
  <2>5. QED
    BY <2>1, <2>3, <2>4
<1>2. QED
  BY <1>1

\* g has, from 0 to L, what step makes of base when applied once per number.
Iterates(g, S, base, step, L) ==
  /\ g \in [0..L -> S]
  /\ g[0] = base
  /\ \A n \in 1..L : g[n] = step[<<g[n - 1], n>>]

\* A function defined by recursion on a number exists.
LEMMA Recursion ==
  ASSUME NEW S, NEW base \in S, NEW step \in [S \X Nat -> S], NEW L \in Nat
  PROVE  \E g : Iterates(g, S, base, step, L)
<1> DEFINE Follows(g, k) == g[0] = base /\ \A n \in 1..k : g[n] = step[<<g[n - 1], n>>]
           T == {k \in Nat : \E g \in [0..k -> S] : Follows(g, k)}
<1>1. 0 \in T
  <2>1. [i \in 0..0 |-> base] \in [0..0 -> S] /\ Follows([i \in 0..0 |-> base], 0)
    OBVIOUS
  <2>2. QED
    BY <2>1
<1>2. ASSUME NEW k \in T PROVE k + 1 \in T
  <2>1. PICK g \in [0..k -> S] : Follows(g, k)
    OBVIOUS
  <2> DEFINE h == [i \in 0..k + 1 |-> IF i = k + 1 THEN step[<<g[k], k + 1>>] ELSE g[i]]
  <2>2. k \in Nat /\ k \in 0..k /\ g[k] \in S /\ step[<<g[k], k + 1>>] \in S
    OBVIOUS
  <2>3. h \in [0..k + 1 -> S]
    BY <2>2
  <2>4. h[0] = base
    BY <2>1, <2>2
  <2>5. ASSUME NEW n \in 1..k + 1 PROVE h[n] = step[<<h[n - 1], n>>]
    <3>1. CASE n = k + 1
      <4>1. n - 1 = k /\ k # k + 1 /\ k \in 0..k + 1 /\ k + 1 \in 0..k + 1
        BY <2>2, <3>1
      <4>2. h[k] = g[k] /\ h[k + 1] = step[<<g[k], k + 1>>]
        BY <4>1
      <4>3. QED
        BY <3>1, <4>1, <4>2
    <3>2. CASE n \in 1..k
      <4>1. h[n] = g[n] /\ h[n - 1] = g[n - 1]
        BY <2>2, <3>2
      <4>2. QED
        BY <2>1, <3>2, <4>1
    <3>3. QED
      BY <2>2, <3>1, <3>2
  <2>6. Follows(h, k + 1)
    BY <2>4, <2>5
  <2> HIDE DEF h, Follows
  <2>7. QED
    BY <2>2, <2>3, <2>6
<1>3. T = Nat
  <2> HIDE DEF T
  <2>1. T \in SUBSET Nat
    BY DEF T
  <2>2. QED
    BY <1>1, <1>2, <2>1, Induction
<1>4. QED
  BY <1>3 DEF Iterates


Written(records) == \A r \in records : r.content.text \in Seq(Token)

\* The sums of what the records cost, up to each of them.
Sums(g, q, L) ==
  /\ g \in [0..L -> Nat]
  /\ g[0] = 0
  /\ \A n \in 1..L : g[n] = g[n - 1] + Cost(q[n]) /\ Cost(q[n]) \in Nat

LEMMA CharsIs ==
  ASSUME NEW S, Written(S), NEW q \in Seq(S), NEW L, L = Len(q)
  PROVE  \E g : Sums(g, q, L) /\ Chars(q) = g[L]
<1> DEFINE price(n) == IF n \in 1..L THEN Cost(q[n]) ELSE 0
           add(k, n) == k + price(n)
           step == [x \in Nat \X Nat |-> add(x[1], x[2])]
           sum == CHOOSE f : f = [n \in 0..L |-> IF n = 0 THEN 0 ELSE f[n - 1] + Cost(q[n])]
<1>1. L \in Nat /\ DOMAIN q = 1..L
  OBVIOUS
<1>2. \A n \in 1..L : Cost(q[n]) \in Nat
  <2>1. ASSUME NEW n \in 1..L PROVE Cost(q[n]) \in Nat
    <3>1. q[n] \in S
      BY <1>1
    <3>2. q[n].content.text \in Seq(Token)
      BY <3>1 DEF Written
    <3>3. QED
      BY <3>2 DEF Cost
  <2>2. QED
    BY <2>1
<1>3. \A n \in Nat : price(n) \in Nat
  BY <1>2
<1> HIDE DEF price
<1>4. step \in [Nat \X Nat -> Nat]
  <2>1. \A k, n \in Nat : add(k, n) \in Nat
    BY <1>3
  <2> HIDE DEF add
  <2>2. QED
    BY <2>1
<1>5. PICK g : Iterates(g, Nat, 0, step, L)
  BY <1>1, <1>4, Recursion
<1>6. g \in [0..L -> Nat] /\ g[0] = 0
  BY <1>5 DEF Iterates
<1>7. \A n \in 1..L : g[n] = g[n - 1] + Cost(q[n])
  <2>1. ASSUME NEW n \in 1..L PROVE g[n] = g[n - 1] + Cost(q[n])
    <3>1. n - 1 \in 0..L /\ n \in Nat /\ g[n - 1] \in Nat
      BY <1>1, <1>6
    <3>2. g[n] = step[<<g[n - 1], n>>]
      BY <1>5 DEF Iterates
    <3>3. g[n] = g[n - 1] + price(n)
      BY <3>1, <3>2
    <3>4. QED
      BY <3>3 DEF price
  <2>2. QED
    BY <2>1
<1>8. \A n \in 0..L : g[n] = IF n = 0 THEN 0 ELSE g[n - 1] + Cost(q[n])
  BY <1>1, <1>6, <1>7
<1>9. g = [n \in 0..L |-> IF n = 0 THEN 0 ELSE g[n - 1] + Cost(q[n])]
  BY <1>6, <1>8
<1>10. sum = [n \in 0..L |-> IF n = 0 THEN 0 ELSE sum[n - 1] + Cost(q[n])]
  BY <1>9
<1>11. Chars(q) = sum[L]
  BY DEF Chars
<1> HIDE DEF sum
<1>12. sum[0] = 0 /\ \A n \in 1..L : sum[n] = sum[n - 1] + Cost(q[n])
  BY <1>1, <1>10
<1> DEFINE T == {n \in Nat : n <= L => sum[n] = g[n]}
<1>13. T = Nat
  <2>1. 0 \in T
    BY <1>6, <1>12
  <2>2. ASSUME NEW n \in T PROVE n + 1 \in T
    <3>1. CASE n + 1 <= L
      <4>1. n + 1 \in 1..L /\ (n + 1) - 1 = n /\ sum[n] = g[n] /\ n + 1 \in Nat
        BY <1>1, <3>1
      <4>2. sum[n + 1] = g[n + 1]
        BY <1>7, <1>12, <4>1
      <4>3. QED
        BY <4>1, <4>2
    <3>2. QED
      BY <3>1
  <2>3. T \in SUBSET Nat
    OBVIOUS
  <2> HIDE DEF T
  <2>4. QED
    BY <2>1, <2>2, <2>3, Induction
<1>14. sum[L] = g[L]
  BY <1>1, <1>13
<1>15. Sums(g, q, L)
  BY <1>2, <1>6, <1>7 DEF Sums
<1>16. QED
  BY <1>11, <1>14, <1>15

\* The start of a sequence of records costs no more than a longer start.
LEMMA CharsGrow ==
  ASSUME NEW S, Written(S), NEW q \in Seq(S), NEW m \in Nat, NEW n \in Nat, m <= n, n <= Len(q)
  PROVE  Chars(SubSeq(q, 1, m)) <= Chars(SubSeq(q, 1, n))
<1> DEFINE a == SubSeq(q, 1, m)
           b == SubSeq(q, 1, n)
<1>1. /\ a \in Seq(S) /\ m = Len(a) /\ \A k \in 1..m : a[k] = q[k]
      /\ b \in Seq(S) /\ n = Len(b) /\ \A k \in 1..n : b[k] = q[k]
  OBVIOUS
<1> HIDE DEF a, b
<1>2. PICK g : Sums(g, a, m) /\ Chars(a) = g[m]
  BY <1>1, CharsIs
<1>3. PICK h : Sums(h, b, n) /\ Chars(b) = h[n]
  BY <1>1, CharsIs
<1> DEFINE T == {k \in Nat : /\ k <= m => g[k] = h[k]
                             /\ m <= k /\ k <= n => h[m] <= h[k]}
<1>4. T = Nat
  <2>1. 0 \in T
    BY <1>2, <1>3 DEF Sums
  <2>2. ASSUME NEW k \in T PROVE k + 1 \in T
    <3>1. k \in Nat /\ k + 1 \in Nat /\ (k + 1) - 1 = k
      OBVIOUS
    <3>2. ASSUME k + 1 <= m PROVE g[k + 1] = h[k + 1]
      <4>1. k + 1 \in 1..m /\ k + 1 \in 1..n /\ g[k] = h[k]
        BY <3>1, <3>2
      <4>2. g[k + 1] = g[k] + Cost(a[k + 1]) /\ h[k + 1] = h[k] + Cost(b[k + 1])
        BY <1>2, <1>3, <3>1, <4>1 DEF Sums
      <4>3. QED
        BY <1>1, <4>1, <4>2
    <3>3. ASSUME m <= k + 1, k + 1 <= n PROVE h[m] <= h[k + 1]
      <4>1. k + 1 \in 1..n /\ k \in 0..n /\ m \in 0..n
        BY <3>1, <3>3
      <4>2. h[k + 1] = h[k] + Cost(b[k + 1]) /\ Cost(b[k + 1]) \in Nat
            /\ h[k] \in Nat /\ h[m] \in Nat /\ h[k + 1] \in Nat
        BY <1>3, <3>1, <4>1 DEF Sums
      <4>3. CASE m = k + 1
        BY <4>2, <4>3
      <4>4. CASE m <= k
        <5>1. h[m] <= h[k]
          BY <3>1, <4>1, <4>4
        <5>2. QED
          BY <4>2, <5>1
      <4>5. QED
        BY <3>1, <3>3, <4>3, <4>4
    <3>4. QED
      BY <3>1, <3>2, <3>3
  <2>3. T \in SUBSET Nat
    OBVIOUS
  <2> HIDE DEF T
  <2>4. QED
    BY <2>1, <2>2, <2>3, Induction
<1>5. g[m] = h[m] /\ h[m] <= h[n]
  <2>1. m \in T /\ n \in T
    BY <1>4
  <2>2. QED
    BY <2>1
<1>6. Chars(a) <= Chars(b)
  BY <1>2, <1>3, <1>5
<1>7. QED
  BY <1>6 DEF a, b
\* What is selected is a start of the sequence that fits both budgets.
LEMMA SelectIs ==
  ASSUME NEW S, Written(S), NEW q \in Seq(S)
  PROVE  /\ Select(q) = SubSeq(q, 1, Len(Select(q)))
         /\ Len(Select(q)) \in 0..Len(q)
         /\ Chars(Select(q)) <= BudgetChars
         /\ EncodedSize(Select(q)) <= MaxEncoded
<1> DEFINE Start(n) == SubSeq(q, 1, n)
           fits == {n \in 0..Len(q) : Chars(Start(n)) <= BudgetChars}
           chosen == Max(fits)
           small == {n \in 0..chosen : EncodedSize(Start(n)) <= MaxEncoded}
           k == Max(small)
<1>1. Len(q) \in Nat /\ BudgetChars \in Nat /\ MaxEncoded \in Nat
  BY SizesAssumption
<1>2. Start(0) = <<>>
  OBVIOUS
<1>3. Select(q) = Start(k)
  BY DEF Select
<1>4. Chars(<<>>) = 0
  <2> DEFINE e == <<>>
  <2>1. e \in Seq(S) /\ 0 = Len(e)
    OBVIOUS
  <2> HIDE DEF e
  <2>2. PICK g : Sums(g, e, 0) /\ Chars(e) = g[0]
    BY <2>1, CharsIs
  <2>3. QED
    BY <2>2 DEF Sums, e
<1> HIDE DEF Start
<1>5. chosen \in fits
  <2>1. 0 \in fits
    BY <1>1, <1>2, <1>4
  <2>2. fits \subseteq 0..Len(q)
    OBVIOUS
  <2> HIDE DEF fits
  <2>3. QED
    BY <1>1, <2>1, <2>2, Greatest
<1>6. chosen \in 0..Len(q) /\ Chars(Start(chosen)) <= BudgetChars
  BY <1>5
<1> HIDE DEF chosen
<1>7. k \in small
  <2>1. EncodedSize(Start(0)) = 0
    BY <1>2 DEF EncodedSize
  <2>2. 0 \in small
    BY <1>1, <1>6, <2>1
  <2>3. small \subseteq 0..chosen /\ chosen \in Nat
    BY <1>1, <1>6
  <2> HIDE DEF small
  <2>4. QED
    BY <2>2, <2>3, Greatest
<1>8. k \in 0..chosen /\ EncodedSize(Start(k)) <= MaxEncoded
  BY <1>7
<1> HIDE DEF k
<1>9. k \in Nat /\ k <= chosen /\ chosen \in Nat /\ chosen <= Len(q)
  BY <1>1, <1>6, <1>8
<1>10. Chars(Start(k)) <= Chars(Start(chosen))
  BY <1>9, CharsGrow DEF Start
<1>11. Chars(Start(k)) \in Int /\ Chars(Start(chosen)) \in Int
  <2>1. ASSUME NEW n \in 0..Len(q) PROVE Chars(Start(n)) \in Int
    <3> DEFINE a == Start(n)
    <3>1. a \in Seq(S) /\ Len(a) \in Nat
      BY <1>1 DEF Start
    <3> HIDE DEF a
    <3>2. PICK g : Sums(g, a, Len(a)) /\ Chars(a) = g[Len(a)]
      BY <3>1, CharsIs
    <3>3. Chars(a) \in Int
      BY <3>1, <3>2 DEF Sums
    <3>4. QED
      BY <3>3 DEF a
  <2>2. k \in 0..Len(q)
    BY <1>1, <1>9
  <2>3. QED
    BY <1>6, <2>1, <2>2
<1>12. Chars(Start(k)) <= BudgetChars
  BY <1>1, <1>6, <1>10, <1>11
<1>13. Len(Start(k)) = k /\ k \in 0..Len(q)
  BY <1>1, <1>9 DEF Start
<1>14. QED
  BY <1>3, <1>8, <1>12, <1>13 DEF Start

\* Of the records in the order of a list, what is left out of a block stands after it.
LEMMA LeftOutIsAfter ==
  ASSUME NEW records, Datable(records), Written(records),
         NEW r \in records \ Range(Select(OrderActive(records))),
         NEW b \in Range(Select(OrderActive(records)))
  PROVE  CompareD24(b, r)
<1> DEFINE R == {pair \in records \X records : CompareD24(pair[1], pair[2])}
           n == Cardinality(records)
           q == OrderActive(records)
           block == Select(q)
           k == Len(block)
<1>1. /\ q \in [1..n -> records]
      /\ Range(q) = records
      /\ \A i, j \in 1..n : i < j => <<q[i], q[j]>> \in R
  BY D24Orders, ArrangedIs DEF OrderActive, Datable
<1>2. n \in Nat
  BY FS_CardinalityType DEF Datable
<1> HIDE DEF n, q
<1>3. q \in Seq(records) /\ Len(q) = n
  BY <1>1, <1>2
<1>4. block = SubSeq(q, 1, k) /\ k \in 0..n
  BY <1>3, SelectIs
<1> HIDE DEF k
<1>5. \A i \in 1..k : block[i] = q[i]
  BY <1>2, <1>3, <1>4
<1>6. DOMAIN block = 1..k
  BY <1>2, <1>3, <1>4
<1> HIDE DEF block
<1>7. r \in records /\ r \notin Range(block) /\ b \in Range(block)
  BY DEF block, q
<1>8. PICK j \in 1..k : b = q[j]
  BY <1>5, <1>6, <1>7 DEF Range
<1>9. PICK i \in 1..n : r = q[i]
  BY <1>1, <1>7 DEF Range
<1>10. i \notin 1..k
  BY <1>5, <1>6, <1>7, <1>9 DEF Range
<1>11. j \in 1..n /\ j < i
  BY <1>2, <1>4, <1>10
<1>12. <<b, r>> \in R
  BY <1>1, <1>8, <1>9, <1>11
<1>13. QED
  BY <1>12

\* The block of a new session fits both budgets, and no unpinned memory is in it while a
\* pinned one that the session can see is left out (budget.rs select).
THEOREM InjectionFitsHolds == Spec => InjectionFits
<1> DEFINE block(p) == reply'[p].records
           left(p) == {r \in during[p].every : r.status = "ACTIVE"} \ Range(block(p))
           Fits(p) == /\ Chars(block(p)) <= BudgetChars
                      /\ EncodedSize(block(p)) <= MaxEncoded
                      /\ \A r \in left(p), b \in Range(block(p)) :
                           r.pinned /\ (r.scope = "user" \/ opened[p] = "both") => b.pinned
           Step == \A p \in Procs :
                     pc[p] \in {"read", "project"} /\ pc'[p] = "idle" /\ reply'[p].is = "inject" =>
                     Fits(p)
<1>1. CorpusInv /\ ReadInv /\ Next => Step
  <2> SUFFICES ASSUME CorpusInv, ReadInv, Next, NEW p \in Procs,
                      pc[p] \in {"read", "project"}, pc'[p] = "idle",
                      reply'[p].is = "inject"
               PROVE  Fits(p)
    OBVIOUS
  <2>1. PICK records : AnswerRead(p, records) /\ Collected(p, records)
    BY OwnStepEnds DEF Answered
  <2>2. Functions /\ IsReading(p)
    BY DEF ReadInv
  <2> DEFINE answer == [is |-> cmd[p].verb,
                        records |-> CASE cmd[p].verb = "list" -> OrderActive(records)
                                      [] cmd[p].verb = "show" -> OrderShow(records)
                                      [] OTHER -> Select(OrderActive(records))]
  <2>3. Answer(p, answer)
    BY <2>1 DEF AnswerRead
  <2>4. reply'[p] = answer
    BY <2>2, <2>3, AnswerAlone
  <2>5. cmd[p].verb = "inject"
    BY <2>4
  <2>6. block(p) = Select(OrderActive(records))
    BY <2>4, <2>5
  <2>7. cmd[p] = NewSession
    BY <2>2, <2>5, TypedIs DEF IsReading
  <2>8. Datable(records) /\ Written(records)
    BY <2>1 DEF Collected, Written
  <2> DEFINE q == OrderActive(records)
  <2>9. q \in Seq(records)
    <3>1. IsFiniteSet(records)
      BY <2>8 DEF Datable
    <3>2. Cardinality(records) \in Nat
      BY <3>1, FS_CardinalityType
    <3>3. q \in [1..Cardinality(records) -> records]
      BY <2>8, <3>1, D24Orders, ArrangedIs DEF OrderActive
    <3> HIDE DEF q
    <3>4. QED
      BY <3>2, <3>3
  <2>10. Chars(block(p)) <= BudgetChars /\ EncodedSize(block(p)) <= MaxEncoded
    <3> HIDE DEF q
    <3>1. Chars(Select(q)) <= BudgetChars /\ EncodedSize(Select(q)) <= MaxEncoded
      BY <2>8, <2>9, SelectIs
    <3>2. QED
      BY <2>6, <3>1 DEF q
  <2>11. ASSUME NEW r \in left(p), NEW b \in Range(block(p)), r.pinned,
                r.scope = "user" \/ opened[p] = "both"
         PROVE  b.pinned
    <3>1. r \in during[p].every /\ r.status = "ACTIVE" /\ r \notin Range(block(p))
      OBVIOUS
    <3>2. r.scope \in Scopes
      BY <2>2, <3>1 DEF IsReading, AllRecords, CorpusInv, Corpus, RecordOf, Scopes
    <3>3. r.scope \in Asked(p)
      BY <2>7, <2>11, <3>2 DEF Asked, NewSession, WriteTarget
    <3>4. r \in Matching(cmd[p], {e \in during[p].every : e.scope \in Asked(p)})
      BY <2>7, <3>1, <3>3 DEF Matching, NewSession
    <3>5. r \in records
      BY <2>1, <3>4 DEF Collected
    <3>6. CompareD24(b, r)
      BY <2>6, <2>8, <3>1, <3>5, LeftOutIsAfter
    <3>7. Tier(b) <= Tier(r) /\ Tier(r) \in {0, 1}
      BY <2>11, <3>6 DEF CompareD24, Tier
    <3>8. QED
      BY <3>7 DEF Tier
  <2>12. QED
    BY <2>10, <2>11
<1>2. CorpusInv /\ ReadInv /\ [Next]_vars => [Step]_vars
  BY <1>1
<1> HIDE DEF Step
<1>3. Spec => [][Step]_vars
  BY <1>2, HistoryInit, HistoryInvKept, PTL DEF Spec
<1>4. [][Step]_vars => InjectionFits
  BY DEF InjectionFits, Step
<1>5. QED
  BY <1>3, <1>4
===============================================================================
