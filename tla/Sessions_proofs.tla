----------------------------- MODULE Sessions_proofs -----------------------------
(***************************************************************************)
(* A session has one tab, a memory entry is written at its birth only and  *)
(* no message falls between a history and the stream, for any number of    *)
(* sessions, messages and pages and through every fault.                   *)
(*                                                                         *)
(* What makes OneTabPerSession inductive: the tabs are a sequence that     *)
(* only grows once it has been listed, and it is listed as a permutation   *)
(* of the server's sessions, of which there are finitely many.             *)
(*                                                                         *)
(* What makes NothingLost inductive: a session read to its end is one that *)
(* was given out, so that a fork cannot rewrite its history; what was never*)
(* given out has no history; and a session counts as read to its end only  *)
(* while the stream holds, so that what an agent adds is announced.        *)
(***************************************************************************)
EXTENDS Sessions, FiniteSetTheorems, TLAPS

\* Tabs without repetition.
Tabs(q) ==
  /\ q \in Seq({q[i] : i \in DOMAIN q})
  /\ \A i, j \in DOMAIN q : q[i] = q[j] => i = j

Injecting == {"auto", "new", "fork"}

TabsInv ==
  /\ Tabs(summaries)
  /\ ui \in {"load", "failed"} => summaries = <<>> /\ active = 1
  /\ ui \in Injecting \cup {"ready"} => active \in DOMAIN summaries

\* A session that is about to get its entry was created by this client.
BirthInv == ui \in Injecting /\ born \notin Locals => born \in newborn

Inv == exists \subseteq Ids /\ TabsInv /\ BirthInv

-------------------------------------------------------------------------------
(* Tabs *)

\* A tab is added once, at the end.
LEMMA AppendNewTabs ==
  ASSUME NEW q, Tabs(q), NEW s
  PROVE  Tabs(AppendNew(q, s)) /\ DOMAIN q \subseteq DOMAIN AppendNew(q, s)
<1>1. CASE \E i \in DOMAIN q : q[i] = s
  BY <1>1 DEF AppendNew
<1>2. CASE ~\E i \in DOMAIN q : q[i] = s
  <2> DEFINE S == {q[i] : i \in DOMAIN q}
             r == Append(q, s)
  <2>1. q \in Seq(S) /\ Len(q) \in Nat /\ DOMAIN q = 1..Len(q)
    BY DEF Tabs
  <2>2. q \in Seq(S \cup {s})
    BY <2>1
  <2>3. /\ Len(r) = Len(q) + 1 /\ DOMAIN r = 1..Len(q) + 1
        /\ r[Len(q) + 1] = s
        /\ \A i \in 1..Len(q) : r[i] = q[i]
    BY <2>1, <2>2
  <2>4. \A i \in DOMAIN r : i \in DOMAIN q \/ i = Len(q) + 1
    BY <2>1, <2>3
  <2>5. \A i, j \in DOMAIN r : r[i] = r[j] => i = j
    BY <1>2, <2>1, <2>3, <2>4 DEF Tabs
  <2>6. r \in Seq({r[i] : i \in DOMAIN r})
    BY <2>3, <2>1
  <2>7. AppendNew(q, s) = r
    BY <1>2 DEF AppendNew
  <2>8. QED
    BY <2>1, <2>3, <2>5, <2>6, <2>7 DEF Tabs
<1>3. QED
  BY <1>1, <1>2

\* The first list has every session once, in the order of the server.
LEMMA ListedTabs ==
  ASSUME exists \subseteq Ids, exists # {}, NEW q \in Listed
  PROVE  Tabs(q) /\ 1 \in DOMAIN q
<1>1. IsFiniteSet(exists)
  BY IdsAssumption, FS_Subset
<1>2. Cardinality(exists) \in Nat /\ Cardinality(exists) # 0
  BY <1>1, FS_CardinalityType, FS_EmptySet
<1>3. DOMAIN q = 1..Cardinality(exists)
  BY DEF Listed
<1>4. q \in [1..Cardinality(exists) -> {q[i] : i \in DOMAIN q}]
  BY <1>3 DEF Listed
<1>5. q \in Seq({q[i] : i \in DOMAIN q})
  BY <1>2, <1>4
<1>6. QED
  BY <1>2, <1>3, <1>5 DEF Listed, Tabs

-------------------------------------------------------------------------------
(* Shapes of steps *)

\* The server, the stream and the time leave the tabs and the user interface alone.
LEMMA ServerKeepsInv ==
  ASSUME Inv, exists' \subseteq Ids, UNCHANGED <<ui, born, summaries, active, newborn>>
  PROVE  Inv'
BY DEF Inv, TabsInv, BirthInv

\* A step of the user after which nothing is left to inject.
LEMMA UserKeepsInv ==
  ASSUME Inv, ui = "ready", ui' = ui, exists' \subseteq Ids,
         summaries' = summaries, active' \in DOMAIN summaries
  PROVE  Inv'
BY DEF Inv, TabsInv, BirthInv, Injecting

\* Whatever is shown gets one tab, and the one on the screen stays.
LEMMA ShownKeepsInv ==
  ASSUME Inv, NEW s, summaries' = AppendNew(summaries, s) \/ summaries' = summaries,
         ui \in Injecting \cup {"ready"}, active' = active, exists' \subseteq Ids,
         ui' = "ready" \/ (ui' \in Injecting /\ (born' \in Locals \/ born' \in newborn'))
  PROVE  Inv'
<1>1. Tabs(summaries') /\ DOMAIN summaries \subseteq DOMAIN summaries'
  BY AppendNewTabs DEF Inv, TabsInv
<1>2. QED
  BY <1>1 DEF Inv, TabsInv, BirthInv, Injecting

-------------------------------------------------------------------------------

LEMMA ElsewhereKeepsInv ==
  ASSUME Inv,
         \/ \E s \in Ids : CreateElsewhere(s) \/ Write(s, "agent") \/ Write(s, "there")
         \/ OpenStream \/ DropStream \/ Expire
         \/ \E v \in Versions : Upgrade(v)
  PROVE  Inv'
<1>1. exists' \subseteq Ids
  BY DEF CreateElsewhere, Write, OpenStream, DropStream, Expire, Upgrade, server, Inv
<1>2. UNCHANGED <<ui, born, summaries, active, newborn>>
  BY DEF CreateElsewhere, Write, OpenStream, DropStream, Expire, Upgrade, tabs, ghosts
<1>3. QED
  BY <1>1, <1>2, ServerKeepsInv

LEMMA LoadingKeepsInv ==
  ASSUME Inv, Load \/ LoadFails \/ \E s \in Ids : LoadNone(s)
  PROVE  Inv'
<1>1. ASSUME Load PROVE Inv'
  <2>1. PICK q \in Listed : summaries' = q
    BY <1>1 DEF Load
  <2>2. Tabs(q) /\ 1 \in DOMAIN q
    BY <1>1, <2>1, ListedTabs DEF Load, Inv
  <2>3. ui' = "ready" /\ active' = 1 /\ exists' = exists
    BY <1>1 DEF Load, server, Inv, TabsInv
  <2>4. QED
    BY <2>1, <2>2, <2>3 DEF Inv, TabsInv, BirthInv, Injecting
<1>2. ASSUME LoadFails PROVE Inv'
  BY <1>2 DEF LoadFails, server, tabs, ghosts, Inv, TabsInv, BirthInv, Injecting
<1>3. ASSUME NEW s \in Ids, LoadNone(s) PROVE Inv'
  <2>1. /\ summaries' = <<s>> /\ active' = 1 /\ ui' = "auto"
        /\ born' = s /\ s \in newborn' /\ exists' = exists \cup {s}
    BY <1>3 DEF LoadNone, CreateHere, Inv, TabsInv
  <2>2. Tabs(<<s>>) /\ 1 \in DOMAIN <<s>>
    BY DEF Tabs
  <2>3. QED
    BY <2>1, <2>2 DEF Inv, TabsInv, BirthInv, Injecting
<1>4. QED
  BY <1>1, <1>2, <1>3

LEMMA CreatingKeepsInv ==
  ASSUME Inv,
         \/ \E s \in Ids : NewSession(s) \/ Fork(s)
         \/ \E l \in Locals : NewLocal(l)
  PROVE  Inv'
<1>1. ASSUME NEW s \in Ids, NewSession(s) PROVE Inv'
  <2>1. /\ ui = "ready" /\ ui' = "new" /\ born' = s /\ s \in newborn'
        /\ exists' \subseteq Ids /\ summaries' = summaries /\ active' = active
    BY <1>1 DEF NewSession, CreateHere, tabs, Inv
  <2>2. QED
    BY <2>1, ShownKeepsInv DEF Injecting
<1>2. ASSUME NEW s \in Ids, Fork(s) PROVE Inv'
  <2>1. /\ ui = "ready" /\ ui' = "fork" /\ born' = s /\ s \in newborn'
        /\ exists' \subseteq Ids /\ summaries' = AppendNew(summaries, s)
        /\ active' = active
    BY <1>2 DEF Fork, CreateHere, Inv
  <2>2. QED
    BY <2>1, ShownKeepsInv DEF Injecting
<1>3. ASSUME NEW l \in Locals, NewLocal(l) PROVE Inv'
  <2>1. /\ ui = "ready" /\ ui' = "new" /\ born' = l
        /\ exists' \subseteq Ids /\ summaries' = summaries /\ active' = active
    BY <1>3 DEF NewLocal, CreateHere, tabs, Inv
  <2>2. QED
    BY <2>1, ShownKeepsInv DEF Injecting
<1>4. QED
  BY <1>1, <1>2, <1>3

LEMMA InjectKeepsInv ==
  ASSUME Inv, Inject
  PROVE  Inv'
<1>1. /\ ui \in Injecting /\ ui' = "ready" /\ active' = active
      /\ summaries' = AppendNew(summaries, born) \/ summaries' = summaries
  BY DEF Inject, Injecting
<1>2. exists' = exists
  BY DEF Inject, InjectNewSession, Probe
<1>3. QED
  BY <1>1, <1>2, ShownKeepsInv DEF Inv

LEMMA UsingKeepsInv ==
  ASSUME Inv,
         \/ Prompt \/ Ingest
         \/ \E i \in 1..Cardinality(All) : Select(i)
         \/ \E k \in 0..MaxMessages : CommitRevert(k)
  PROVE  Inv'
<1>1. ASSUME Prompt PROVE Inv'
  BY <1>1, UserKeepsInv DEF Prompt, Inv, TabsInv, Injecting
<1>2. ASSUME NEW i \in 1..Cardinality(All), Select(i) PROVE Inv'
  BY <1>2, UserKeepsInv DEF Select, server, Inv
<1>3. ASSUME NEW k \in 0..MaxMessages, CommitRevert(k) PROVE Inv'
  BY <1>3, UserKeepsInv DEF CommitRevert, Inv, TabsInv, Injecting
<1>4. ASSUME Ingest PROVE Inv'
  <2>1. /\ ui = "ready" /\ ui' = "ready" /\ active' = active /\ exists' = exists
        /\ \/ summaries' = AppendNew(summaries, Head(coming).session)
           \/ summaries' = summaries
    BY <1>4 DEF Ingest, Show
  <2>2. QED
    BY <2>1, ShownKeepsInv DEF Inv, Injecting
<1>5. QED
  BY <1>1, <1>2, <1>3, <1>4

LEMMA InvKept == Inv /\ [Next]_vars => Inv'
<1>1. Inv /\ UNCHANGED vars => Inv'
  BY DEF vars, server, tabs, ghosts, Inv, TabsInv, BirthInv, Injecting
<1>2. QED
  BY <1>1, ElsewhereKeepsInv, LoadingKeepsInv, CreatingKeepsInv, InjectKeepsInv,
     UsingKeepsInv DEF Next

LEMMA InitInv == Init => Inv
BY DEF Init, Inv, TabsInv, Tabs, BirthInv, Injecting

\* Only the injection writes an entry, and into the session that was just created.
LEMMA EntryAtBirth ==
  ASSUME Inv, [Next]_vars, entries' # entries
  PROVE  \E s \in newborn \ entries : entries' = entries \cup {s}
<1>1. Inject
  BY DEF Next, vars, server, CreateElsewhere, Write, LoadNone, NewSession, Fork, OpenStream,
     DropStream, Expire, Upgrade, Load, LoadFails, Prompt, Ingest, NewLocal, Select,
     CommitRevert
<1>2. ui \in Injecting /\ born \notin Locals /\ entries' = entries \cup {born}
  BY <1>1 DEF Inject, InjectNewSession, Put, Injecting
<1>3. born \in newborn
  BY <1>2 DEF Inv, BirthInv
<1>4. QED
  BY <1>2, <1>3

-------------------------------------------------------------------------------

\* A session has one tab, and the tab on the screen exists, whatever the order in which
\* the list, the answer of a request and the announcement of a session arrive
\* (initial_load, new_session, fork, apply_raw).
THEOREM OneTabPerSessionHolds == Spec => []OneTabPerSession
<1>1. Inv => OneTabPerSession
  BY DEF Inv, TabsInv, Tabs, OneTabPerSession
<1>2. QED
  BY <1>1, InitInv, InvKept, PTL DEF Spec

\* "Inline PUT before the id escapes": an entry is written into a session this client has
\* created and not yet prompted, and never changed (inject_new_session).
THEOREM InjectedAtBirthHolds == Spec => InjectedAtBirth
<1>1. Inv /\ [Next]_vars =>
        [entries' # entries =>
           \E s \in newborn \ entries : entries' = entries \cup {s}]_vars
  BY EntryAtBirth
<1>2. QED
  BY <1>1, InitInv, InvKept, PTL DEF Spec, InjectedAtBirth

-------------------------------------------------------------------------------
(* What is read and what is announced *)

Has(q, m) == \E j \in DOMAIN q : q[j] = m

\* Messages, and the notices of the adapter.
Text == [n: Nat, by: {"agent", "here", "there", "note"}]
Heard(ids) == [type: {"created", "written"}, session: ids, message: Text]

ServerInv ==
  /\ exists \subseteq used /\ used \subseteq Ids /\ made \in Nat
  /\ history \in [All -> Seq(Text)]
  /\ \A s \in All \ used : history[s] = <<>>

\* Whatever this client has heard of is a session that was once given out.
HeardInv ==
  /\ coming \in Seq(Heard(used))
  /\ \A i \in DOMAIN summaries : summaries[i] \in used \cup Locals
  /\ ui \in Injecting => born \in used \cup Locals
  /\ blocks \in [All -> Seq(Text)]

WholeInv ==
  /\ whole \subseteq used \cup Locals
  /\ whole # {} => stream

\* What a session read to its end has is shown, or about to be heard of.
ShownInv ==
  \A s \in whole : \A m \in Text :
    Has(history[s], m) /\ m.by # "there" => Has(blocks[s], m) \/ Has(coming, Written(s, m))

LossInv == ServerInv /\ HeardInv /\ WholeInv /\ ShownInv

-------------------------------------------------------------------------------
(* Appending, cutting and consuming sequences *)

LEMMA AppendHas ==
  ASSUME NEW T, NEW q \in Seq(T), NEW x \in T, NEW m
  PROVE  Append(q, x) \in Seq(T) /\ (Has(Append(q, x), m) <=> Has(q, m) \/ m = x)
<1>1. /\ Append(q, x) \in Seq(T) /\ DOMAIN Append(q, x) = 1..Len(q) + 1
      /\ Len(q) \in Nat /\ DOMAIN q = 1..Len(q)
      /\ Append(q, x)[Len(q) + 1] = x
      /\ \A i \in 1..Len(q) : Append(q, x)[i] = q[i]
  OBVIOUS
<1>2. \A i \in 1..Len(q) + 1 : i \in 1..Len(q) \/ i = Len(q) + 1
  BY <1>1
<1>3. QED
  BY <1>1, <1>2 DEF Has

LEMMA ConcatHas ==
  ASSUME NEW T, NEW q \in Seq(T), NEW r \in Seq(T), NEW m
  PROVE  q \o r \in Seq(T) /\ (Has(q, m) => Has(q \o r, m)) /\ (Has(r, m) => Has(q \o r, m))
<1>1. /\ q \o r \in Seq(T) /\ DOMAIN (q \o r) = 1..Len(q) + Len(r)
      /\ Len(q) \in Nat /\ DOMAIN q = 1..Len(q)
      /\ Len(r) \in Nat /\ DOMAIN r = 1..Len(r)
      /\ \A i \in 1..Len(q) : (q \o r)[i] = q[i]
      /\ \A i \in 1..Len(r) : (q \o r)[Len(q) + i] = r[i]
  OBVIOUS
<1>2. \A i \in 1..Len(r) : Len(q) + i \in 1..Len(q) + Len(r)
  BY <1>1
<1>3. QED
  BY <1>1, <1>2 DEF Has

LEMMA PrefixHas ==
  ASSUME NEW T, NEW q \in Seq(T), NEW k \in 0..Len(q), NEW m
  PROVE  SubSeq(q, 1, k) \in Seq(T) /\ (Has(SubSeq(q, 1, k), m) => Has(q, m))
<1>1. /\ SubSeq(q, 1, k) \in Seq(T) /\ DOMAIN SubSeq(q, 1, k) = 1..k
      /\ \A i \in 1..k : SubSeq(q, 1, k)[i] = q[i]
      /\ 1..k \subseteq DOMAIN q
  OBVIOUS
<1>2. QED
  BY <1>1 DEF Has

LEMMA TailHas ==
  ASSUME NEW T, NEW q \in Seq(T), q # <<>>, NEW m
  PROVE  /\ Tail(q) \in Seq(T) /\ Head(q) \in T
         /\ Has(q, m) => m = Head(q) \/ Has(Tail(q), m)
<1>1. /\ Tail(q) \in Seq(T) /\ Len(q) \in Nat /\ DOMAIN q = 1..Len(q)
      /\ DOMAIN Tail(q) = 1..Len(q) - 1 /\ Head(q) = q[1] /\ Head(q) \in T
      /\ \A i \in 1..Len(q) - 1 : Tail(q)[i] = q[i + 1]
  OBVIOUS
<1>2. ASSUME NEW j \in DOMAIN q, q[j] = m PROVE m = Head(q) \/ Has(Tail(q), m)
  <2>1. j = 1 \/ (j - 1 \in 1..Len(q) - 1 /\ Tail(q)[j - 1] = q[j])
    BY <1>1
  <2>2. QED
    BY <1>1, <1>2, <2>1 DEF Has
<1>3. QED
  BY <1>1, <1>2 DEF Has

\* A sequence over a set is one over a larger set.
LEMMA SeqGrows ==
  ASSUME NEW S, NEW T, S \subseteq T, NEW q \in Seq(S)
  PROVE  q \in Seq(T)
OBVIOUS

-------------------------------------------------------------------------------
(* Shapes of steps *)

\* A session is announced: what was on its way still is.
LEMMA AnnouncedKeeps ==
  ASSUME LossInv, NEW s \in Ids, used' = used \cup {s}, coming' = Announced(<<Created(s)>>)
  PROVE  coming' \in Seq(Heard(used')) /\ \A e : Has(coming, e) => Has(coming', e)
<1> DEFINE e0 == Created(s)
<1>1. e0 \in Heard(used') /\ Heard(used) \subseteq Heard(used')
  BY DEF Created, Heard, Note, Text
<1>2. coming \in Seq(Heard(used)) /\ coming \in Seq(Heard(used'))
  <2>1. coming \in Seq(Heard(used))
    BY DEF LossInv, HeardInv
  <2>2. QED
    BY <1>1, <2>1, SeqGrows
<1>3. <<e0>> \in Seq(Heard(used'))
  BY <1>1
<1>4. coming' = coming \o <<e0>> \/ coming' = coming
  BY DEF Announced
<1>5. QED
  BY <1>2, <1>3, <1>4, ConcatHas

\* Nothing is lost where histories do not grow and transcripts do not shrink.
LEMMA NothingTaken ==
  ASSUME ShownInv, whole' \subseteq whole,
         \A s \in whole, m \in Text : Has(history'[s], m) => Has(history[s], m),
         \A s \in whole, m \in Text : Has(blocks[s], m) => Has(blocks'[s], m),
         \A e : Has(coming, e) => Has(coming', e)
  PROVE  ShownInv'
BY DEF ShownInv

\* The server has one more session, perhaps an announced one.
LEMMA CreatedKeepsLoss ==
  ASSUME LossInv, NEW s \in Ids, s \notin used, exists' \subseteq exists \cup {s}, used' = used \cup {s},
         coming' = Announced(<<Created(s)>>),
         UNCHANGED <<made, stream, whole>>,
         history' \in [All -> Seq(Text)],
         \A r \in All : r # s => history'[r] = history[r],
         blocks' \in [All -> Seq(Text)],
         \A r \in All, m \in Text : Has(blocks[r], m) => Has(blocks'[r], m),
         \A i \in DOMAIN summaries' : summaries'[i] \in used \cup {s} \cup Locals,
         ui' \in Injecting => born' \in used \cup {s} \cup Locals
  PROVE  LossInv'
<1>1. ServerInv'
  BY IdsAssumption DEF LossInv, ServerInv, All
<1>2. HeardInv'
  BY AnnouncedKeeps DEF HeardInv
<1>3. WholeInv'
  BY DEF LossInv, WholeInv
<1>4. s \notin whole /\ whole \subseteq All
  BY IdsAssumption DEF LossInv, WholeInv, ServerInv, All
<1>5. ShownInv'
  BY <1>4, AnnouncedKeeps, NothingTaken DEF LossInv
<1>6. QED
  BY <1>1, <1>2, <1>3, <1>5 DEF LossInv

\* Nothing of what the stream and the server hold changes.
LEMMA SameKeepsLoss ==
  ASSUME LossInv, UNCHANGED <<exists, used, history, made, coming, stream>>,
         whole' \subseteq whole,
         blocks' \in [All -> Seq(Text)],
         \A r \in All, m \in Text : Has(blocks[r], m) => Has(blocks'[r], m),
         \A i \in DOMAIN summaries' : summaries'[i] \in used \cup Locals,
         ui' \in Injecting => born' \in used \cup Locals
  PROVE  LossInv'
<1>1. whole \subseteq All
  BY DEF LossInv, WholeInv, ServerInv, All
<1>2. ServerInv' /\ HeardInv' /\ WholeInv'
  BY DEF LossInv, ServerInv, HeardInv, WholeInv
<1>3. ShownInv'
  BY <1>1, NothingTaken DEF LossInv
<1>4. QED
  BY <1>2, <1>3 DEF LossInv

LEMMA NoteText == Note \in Text /\ <<Note>> \in Seq(Text)
BY DEF Note, Text

-------------------------------------------------------------------------------

LEMMA ElsewhereKeepsLoss ==
  ASSUME LossInv,
         \/ \E s \in Ids : CreateElsewhere(s) \/ Write(s, "agent") \/ Write(s, "there")
         \/ OpenStream \/ DropStream \/ Expire
         \/ \E v \in Versions : Upgrade(v)
  PROVE  LossInv'
<1>1. ASSUME NEW s \in Ids, CreateElsewhere(s) PROVE LossInv'
  BY <1>1, CreatedKeepsLoss DEF CreateElsewhere, tabs, ghosts, LossInv, HeardInv, ServerInv
<1>2. ASSUME NEW s \in Ids, NEW by \in {"agent", "there"}, Write(s, by) PROVE LossInv'
  <2> DEFINE m0 == [n |-> made + 1, by |-> by]
  <2>1. /\ s \in exists /\ s \in used /\ s \in All /\ made \in Nat /\ made' = made + 1
        /\ history \in [All -> Seq(Text)]
        /\ history' = [history EXCEPT ![s] = Append(@, m0)]
        /\ UNCHANGED <<exists, used, stream, ui, born, summaries, blocks, whole>>
        /\ coming' = IF by = "agent" THEN Announced(<<Written(s, m0)>>) ELSE coming
    BY <1>2 DEF Write, LossInv, ServerInv, All, tabs, ghosts
  <2>2. m0 \in Text
    BY <2>1 DEF Text
  <2>3. /\ history' \in [All -> Seq(Text)]
        /\ \A r \in All : r # s => history'[r] = history[r]
        /\ \A m \in Text : Has(history'[s], m) => Has(history[s], m) \/ m = m0
    BY <2>1, <2>2, AppendHas
  <2>4. ServerInv'
    BY <2>1, <2>3 DEF LossInv, ServerInv
  <2> DEFINE e0 == Written(s, m0)
  <2>5. /\ coming \in Seq(Heard(used)) /\ e0 \in Heard(used)
        /\ <<e0>> \in Seq(Heard(used)) /\ Has(<<e0>>, e0)
    BY <2>1, <2>2 DEF LossInv, HeardInv, Heard, Written, Has
  <2>6. coming \o <<e0>> \in Seq(Heard(used)) /\ Has(coming \o <<e0>>, e0)
        /\ \A e : Has(coming, e) => Has(coming \o <<e0>>, e)
    BY <2>5, ConcatHas
  <2>7. coming' = coming \o <<e0>> \/ coming' = coming
    BY <2>1 DEF Announced
  <2>8. HeardInv'
    BY <2>1, <2>5, <2>6, <2>7 DEF LossInv, HeardInv
  <2>9. WholeInv'
    BY <2>1 DEF LossInv, WholeInv
  <2>10. ASSUME s \in whole, m0.by # "there" PROVE Has(coming', Written(s, m0))
    BY <1>2, <2>1, <2>6, <2>10 DEF LossInv, WholeInv, Announced
  <2>11. ShownInv'
    <3> SUFFICES ASSUME NEW r \in whole, NEW m \in Text, Has(history'[r], m), m.by # "there"
                 PROVE  Has(blocks[r], m) \/ Has(coming', Written(r, m))
      BY <2>1 DEF ShownInv
    <3>1. r \in All
      BY DEF LossInv, WholeInv, ServerInv, All
    <3>2. CASE Has(history[r], m)
      BY <3>2, <2>6, <2>7 DEF LossInv, ShownInv
    <3>3. CASE ~Has(history[r], m)
      BY <3>1, <3>3, <2>3, <2>10
    <3>4. QED
      BY <3>2, <3>3
  <2>12. QED
    BY <2>4, <2>8, <2>9, <2>11 DEF LossInv
<1>3. ASSUME OpenStream PROVE LossInv'
  BY <1>3 DEF OpenStream, tabs, ghosts, LossInv, ServerInv, HeardInv, WholeInv, ShownInv
<1>4. ASSUME DropStream PROVE LossInv'
  <2>1. PICK k \in 0..Len(coming) : coming' = SubSeq(coming, 1, k)
    BY <1>4 DEF DropStream
  <2>2. coming' \in Seq(Heard(used))
    BY <2>1, PrefixHas DEF LossInv, HeardInv
  <2>3. /\ whole' = {}
        /\ UNCHANGED <<exists, used, history, made, ui, born, summaries, blocks>>
    BY <1>4 DEF DropStream, tabs
  <2>4. ServerInv' /\ HeardInv'
    BY <2>2, <2>3 DEF LossInv, ServerInv, HeardInv
  <2>5. QED
    BY <2>3, <2>4 DEF LossInv, WholeInv, ShownInv
<1>5. ASSUME Expire \/ \E v \in Versions : Upgrade(v) PROVE LossInv'
  <2>1. /\ UNCHANGED <<exists, used, history, made, coming, stream, whole, blocks, summaries>>
        /\ UNCHANGED <<ui, born>>
    BY <1>5 DEF Expire, Upgrade, server, tabs, ghosts
  <2>2. QED
    BY <2>1, SameKeepsLoss DEF LossInv, HeardInv
<1>6. QED
  BY <1>1, <1>2, <1>3, <1>4, <1>5

\* A history is read whole, or up to a cap or a failure.
LEMMA ReadableIsPrefix ==
  ASSUME LossInv, NEW s \in All, NEW read \in Readable(s)
  PROVE  read \in Seq(Text)
<1>1. history[s] \in Seq(Text) /\ Len(history[s]) \in Nat
  BY DEF LossInv, ServerInv
<1> DEFINE pages == {PageSize * i : i \in 0..MaxPages}
           end == IF Len(history[s]) <= PageSize * MaxPages THEN Len(history[s])
                  ELSE PageSize * MaxPages
<1>2. PICK k : read = SubSeq(history[s], 1, k)
               /\ (k = end \/ (k \in pages /\ k < Len(history[s])))
  BY DEF Readable
<1>3. pages \subseteq Nat /\ end \in 0..Len(history[s])
  BY <1>1, PagesAssumption
<1>4. k \in 0..Len(history[s])
  BY <1>1, <1>2, <1>3
<1>5. QED
  BY <1>1, <1>2, <1>4, PrefixHas

\* A session is read, whatever is announced meanwhile.
LEMMA HydrateKeepsLoss ==
  ASSUME LossInv, NEW s \in used \cup Locals, Hydrate(s) \/ UNCHANGED <<blocks, whole>>,
         UNCHANGED <<exists, history, made, stream>>,
         used \subseteq used', used' \subseteq Ids,
         coming' \in Seq(Heard(used')), \A e : Has(coming, e) => Has(coming', e),
         \A i \in DOMAIN summaries' : summaries'[i] \in used' \cup Locals,
         ui' \in Injecting => born' \in used' \cup Locals
  PROVE  LossInv'
<1>1. s \in All /\ blocks \in [All -> Seq(Text)] /\ whole \subseteq All
  BY DEF LossInv, ServerInv, HeardInv, WholeInv, All
<1>2. CASE UNCHANGED <<blocks, whole>>
  <2>1. ServerInv' /\ HeardInv' /\ WholeInv'
    BY <1>2 DEF LossInv, ServerInv, HeardInv, WholeInv
  <2>2. ShownInv'
    BY <1>1, <1>2, NothingTaken DEF LossInv
  <2>3. QED
    BY <2>1, <2>2 DEF LossInv
<1>3. CASE Hydrate(s)
  <2>1. PICK read \in Readable(s) :
          /\ blocks' = IF blocks[s] = <<>> THEN [blocks EXCEPT ![s] = read] ELSE blocks
          /\ whole' = IF blocks[s] = <<>> /\ read = history[s] /\ stream
                      THEN whole \cup {s} ELSE whole
    BY <1>3 DEF Hydrate
  <2>2. read \in Seq(Text)
    BY <1>1, ReadableIsPrefix
  <2>3. /\ blocks' \in [All -> Seq(Text)]
        /\ \A r \in All, m \in Text : Has(blocks[r], m) => Has(blocks'[r], m)
    BY <1>1, <2>1, <2>2 DEF Has
  <2>4. ServerInv' /\ HeardInv' /\ WholeInv'
    BY <2>1, <2>3 DEF LossInv, ServerInv, HeardInv, WholeInv
  <2>5. ShownInv'
    <3> SUFFICES ASSUME NEW r \in whole', NEW m \in Text, Has(history[r], m), m.by # "there"
                 PROVE  Has(blocks'[r], m) \/ Has(coming', Written(r, m))
      BY DEF ShownInv
    <3>1. CASE r \in whole
      BY <1>1, <2>3, <3>1 DEF LossInv, ShownInv
    <3>2. CASE r \notin whole
      BY <1>1, <2>1, <3>2
    <3>3. QED
      BY <3>1, <3>2
  <2>6. QED
    BY <2>4, <2>5 DEF LossInv
<1>4. QED
  BY <1>2, <1>3

\* A new tab is the one that was asked for.
LEMMA AppendNewRange ==
  ASSUME NEW S, NEW q, Tabs(q), NEW s \in S, \A i \in DOMAIN q : q[i] \in S
  PROVE  \A i \in DOMAIN AppendNew(q, s) : AppendNew(q, s)[i] \in S
<1>1. q \in Seq(S)
  BY DEF Tabs
<1>2. AppendNew(q, s) \in Seq(S)
  BY <1>1 DEF AppendNew
<1>3. QED
  BY <1>2

LEMMA LoadingKeepsLoss ==
  ASSUME Inv, LossInv, Load \/ LoadFails \/ \E s \in Ids : LoadNone(s)
  PROVE  LossInv'
<1>1. ASSUME Load PROVE LossInv'
  <2>1. PICK q \in Listed : summaries' = q /\ Hydrate(q[1])
    BY <1>1 DEF Load
  <2>2. Tabs(q) /\ 1 \in DOMAIN q
    BY <1>1, <2>1, ListedTabs DEF Load, Inv
  <2>3. \A i \in DOMAIN q : q[i] \in exists /\ exists \subseteq used
    BY DEF Listed, LossInv, ServerInv
  <2>4. ui' = "ready" /\ UNCHANGED <<exists, used, history, made, stream, coming>> /\ used \subseteq Ids
    BY <1>1 DEF Load, server, LossInv, ServerInv
  <2>5. q[1] \in used \cup Locals /\ \A i \in DOMAIN summaries' : summaries'[i] \in used \cup Locals
    BY <2>1, <2>2, <2>3
  <2>6. coming' \in Seq(Heard(used))
    BY <2>4 DEF LossInv, HeardInv
  <2>7. QED
    BY <2>1, <2>4, <2>5, <2>6, HydrateKeepsLoss DEF Injecting
<1>2. ASSUME LoadFails PROVE LossInv'
  <2>1. /\ UNCHANGED <<exists, used, history, made, coming, stream, whole, blocks, summaries>>
        /\ ui' = "failed"
    BY <1>2 DEF LoadFails, server, tabs, ghosts
  <2>2. QED
    BY <2>1, SameKeepsLoss DEF LossInv, HeardInv, Injecting
<1>3. ASSUME NEW s \in Ids, LoadNone(s) PROVE LossInv'
  <2>1. \A i \in DOMAIN <<s>> : <<s>>[i] \in used \cup {s}
    OBVIOUS
  <2>2. QED
    BY <1>3, <2>1, CreatedKeepsLoss DEF LoadNone, CreateHere, LossInv, HeardInv, ServerInv
<1>4. QED
  BY <1>1, <1>2, <1>3

LEMMA CreatingKeepsLoss ==
  ASSUME Inv, LossInv,
         \/ \E s \in Ids : NewSession(s) \/ Fork(s)
         \/ \E l \in Locals : NewLocal(l)
  PROVE  LossInv'
<1>1. ASSUME NEW s \in Ids, NewSession(s) PROVE LossInv'
  BY <1>1, CreatedKeepsLoss DEF NewSession, CreateHere, tabs, LossInv, HeardInv, ServerInv
<1>2. ASSUME NEW l \in Locals, NewLocal(l) PROVE LossInv'
  <2>1. CASE \E s \in Ids : CreateHere(s)
    BY <1>2, <2>1, CreatedKeepsLoss DEF NewLocal, CreateHere, tabs, ghosts, LossInv, HeardInv, ServerInv
  <2>2. CASE UNCHANGED <<exists, used, coming>>
    BY <1>2, <2>2, SameKeepsLoss DEF NewLocal, tabs, ghosts, LossInv, HeardInv
  <2>3. QED
    BY <1>2, <2>1, <2>2 DEF NewLocal
<1>3. ASSUME NEW s \in Ids, Fork(s) PROVE LossInv'
  <2> DEFINE parent == summaries[active]
  <2>1. /\ parent \in exists /\ parent \in All /\ s \notin used /\ s \in All
        /\ exists' = exists \cup {s} /\ used' = used \cup {s}
        /\ coming' = Announced(<<Created(s)>>)
        /\ summaries' = AppendNew(summaries, s) /\ born' = s
        /\ UNCHANGED <<made, stream, whole>>
        /\ blocks' = [blocks EXCEPT ![parent] = Append(@, Note)]
    BY <1>3 DEF Fork, CreateHere, LossInv, ServerInv, All
  <2>2. PICK k \in 0..Len(history[parent]) :
          history' = [history EXCEPT ![s] = SubSeq(history[parent], 1, k)]
    BY <1>3 DEF Fork
  <2>3. /\ history \in [All -> Seq(Text)] /\ blocks \in [All -> Seq(Text)]
        /\ \A i \in DOMAIN summaries : summaries[i] \in used \cup Locals
    BY DEF LossInv, ServerInv, HeardInv
  <2>4. SubSeq(history[parent], 1, k) \in Seq(Text)
    BY <2>1, <2>3, PrefixHas
  <2>5. history' \in [All -> Seq(Text)] /\ \A r \in All : r # s => history'[r] = history[r]
    BY <2>2, <2>3, <2>4
  <2>6. /\ blocks' \in [All -> Seq(Text)]
        /\ \A r \in All, m \in Text : Has(blocks[r], m) => Has(blocks'[r], m)
    <3> HIDE DEF parent
    <3>1. /\ Append(blocks[parent], Note) \in Seq(Text)
          /\ \A m : Has(blocks[parent], m) => Has(Append(blocks[parent], Note), m)
      BY <2>1, <2>3, NoteText, AppendHas
    <3>2. QED
      BY <2>1, <2>3, <3>1
  <2>7. \A i \in DOMAIN summaries' : summaries'[i] \in used \cup {s} \cup Locals
    BY <2>1, <2>3, AppendNewRange DEF Inv, TabsInv
  <2>8. QED
    BY <2>1, <2>5, <2>6, <2>7, CreatedKeepsLoss
<1>4. QED
  BY <1>1, <1>2, <1>3

LEMMA InjectKeepsLoss ==
  ASSUME Inv, LossInv, Inject
  PROVE  LossInv'
<1>1. /\ ui \in Injecting /\ ui' = "ready" /\ born \in used \cup Locals
      /\ UNCHANGED <<history, made, stream>>
  BY DEF Inject, LossInv, HeardInv, Injecting
<1>2. summaries' = AppendNew(summaries, born) \/ summaries' = summaries
  BY DEF Inject
<1>3. \A i \in DOMAIN summaries' : summaries'[i] \in used \cup Locals
  BY <1>1, <1>2, AppendNewRange DEF Inv, TabsInv, LossInv, HeardInv
<1>4. \/ Hydrate(born)
      \/ UNCHANGED <<blocks, whole>>
  BY DEF Inject
<1>5. \/ UNCHANGED <<exists, used, coming>>
      \/ /\ UNCHANGED exists
         /\ \E p \in Ids \ used : used' = used \cup {p} /\ coming' = Announced(<<Created(p)>>)
  BY DEF Inject, InjectNewSession, Probe
<1>6. used \subseteq Ids /\ coming \in Seq(Heard(used))
  BY DEF LossInv, ServerInv, HeardInv
<1>7. /\ used \subseteq used' /\ used' \subseteq Ids /\ exists' = exists
      /\ coming' \in Seq(Heard(used')) /\ \A e : Has(coming, e) => Has(coming', e)
  BY <1>5, <1>6, AnnouncedKeeps
<1>8. QED
  BY <1>1, <1>3, <1>4, <1>7, HydrateKeepsLoss DEF Injecting

LEMMA UsingKeepsLoss ==
  ASSUME Inv, LossInv,
         \/ Prompt
         \/ \E i \in 1..Cardinality(All) : Select(i)
         \/ \E k \in 0..MaxMessages : CommitRevert(k)
  PROVE  LossInv'
<1> DEFINE s0 == summaries[active]
<1>1. /\ history \in [All -> Seq(Text)] /\ blocks \in [All -> Seq(Text)]
      /\ coming \in Seq(Heard(used)) /\ used \subseteq Ids
      /\ whole \subseteq used \cup Locals /\ whole \subseteq All
      /\ \A i \in DOMAIN summaries : summaries[i] \in used \cup Locals
  BY DEF LossInv, ServerInv, HeardInv, WholeInv, All
<1>2. ASSUME Prompt PROVE LossInv'
  <2> DEFINE m0 == [n |-> made + 1, by |-> "here"]
  <2>1. /\ s0 \in All /\ m0 \in Text /\ made' \in Nat /\ ui' = "ready"
        /\ UNCHANGED <<exists, used, coming, stream, summaries, whole>>
    BY <1>1, <1>2 DEF Prompt, LossInv, ServerInv, All, Text
  <2>2. /\ s0 \in exists /\ history' = [history EXCEPT ![s0] = Append(@, m0)]
        \/ history' = history
    BY <1>2 DEF Prompt
  <2>3. \/ blocks' = [blocks EXCEPT ![s0] = Append(@, m0)]
        \/ blocks' = [blocks EXCEPT ![s0] = @ \o <<m0, Note>>]
    BY <1>2 DEF Prompt
  <2> HIDE DEF s0, m0
  <2>4. /\ <<m0, Note>> \in Seq(Text) /\ Has(<<m0, Note>>, m0)
    BY <2>1, NoteText DEF Has
  <2>5. /\ blocks' \in [All -> Seq(Text)]
        /\ \A r \in All, m \in Text : Has(blocks[r], m) => Has(blocks'[r], m)
        /\ Has(blocks'[s0], m0)
    <3>1. CASE blocks' = [blocks EXCEPT ![s0] = Append(@, m0)]
      <4>1. /\ Append(blocks[s0], m0) \in Seq(Text)
            /\ \A m : Has(blocks[s0], m) \/ m = m0 => Has(Append(blocks[s0], m0), m)
        BY <1>1, <2>1, AppendHas
      <4>2. QED
        BY <1>1, <2>1, <3>1, <4>1
    <3>2. CASE blocks' = [blocks EXCEPT ![s0] = @ \o <<m0, Note>>]
      <4> DEFINE two == <<m0, Note>>
      <4>1. two \in Seq(Text) /\ Has(two, m0)
        BY <2>4
      <4> HIDE DEF two
      <4>2. /\ blocks[s0] \o two \in Seq(Text)
            /\ \A m : Has(blocks[s0], m) \/ m = m0 => Has(blocks[s0] \o two, m)
        BY <1>1, <2>1, <4>1, ConcatHas
      <4>3. blocks' = [blocks EXCEPT ![s0] = @ \o two]
        BY <3>2 DEF two
      <4>4. QED
        BY <1>1, <2>1, <4>2, <4>3
    <3>3. QED
      BY <2>3, <3>1, <3>2
  <2>6. /\ history' \in [All -> Seq(Text)]
        /\ \A r \in All : r \notin used => history'[r] = history[r]
        /\ \A r \in All, m \in Text : Has(history'[r], m) => Has(history[r], m) \/ (r = s0 /\ m = m0)
    <3>1. s0 \in exists => s0 \in used
      BY DEF LossInv, ServerInv
    <3>2. Append(history[s0], m0) \in Seq(Text)
          /\ \A m : Has(Append(history[s0], m0), m) => Has(history[s0], m) \/ m = m0
      BY <1>1, <2>1, AppendHas
    <3>3. QED
      BY <1>1, <2>1, <2>2, <3>1, <3>2
  <2>7. ServerInv' /\ HeardInv' /\ WholeInv'
    BY <1>1, <2>1, <2>5, <2>6 DEF LossInv, ServerInv, HeardInv, WholeInv, Injecting
  <2>8. ShownInv'
    BY <1>1, <2>1, <2>5, <2>6 DEF LossInv, ShownInv
  <2>9. QED
    BY <2>7, <2>8 DEF LossInv
<1>3. ASSUME NEW i \in 1..Cardinality(All), Select(i) PROVE LossInv'
  <2>1. /\ summaries[i] \in used \cup Locals /\ Hydrate(summaries[i]) /\ ui' = "ready"
        /\ UNCHANGED <<exists, used, history, made, stream, coming, summaries>>
    BY <1>1, <1>3 DEF Select, server
  <2>2. QED
    BY <1>1, <2>1, HydrateKeepsLoss DEF Injecting
<1>4. ASSUME NEW k \in 0..MaxMessages, CommitRevert(k) PROVE LossInv'
  <2>1. /\ s0 \in All /\ s0 \in used /\ k \in 0..Len(history[s0])
        /\ UNCHANGED <<exists, used, coming, stream, made, summaries>> /\ ui' = "ready"
    BY <1>1, <1>4 DEF CommitRevert, LossInv, ServerInv, All
  <2>2. \/ history' = history
        \/ history' = [history EXCEPT ![s0] = SubSeq(@, 1, k)]
    BY <1>4 DEF CommitRevert
  <2>3. \/ blocks' = [blocks EXCEPT ![s0] = <<Note>>] /\ whole' = whole \ {s0}
        \/ blocks' = [blocks EXCEPT ![s0] = Append(@, Note)] /\ whole' = whole
    BY <1>4 DEF CommitRevert
  <2> HIDE DEF s0
  <2>4. /\ history' \in [All -> Seq(Text)]
        /\ \A r \in All : r \notin used => history'[r] = history[r]
        /\ \A r \in All, m \in Text : Has(history'[r], m) => Has(history[r], m)
    <3>1. SubSeq(history[s0], 1, k) \in Seq(Text)
          /\ \A m : Has(SubSeq(history[s0], 1, k), m) => Has(history[s0], m)
      BY <1>1, <2>1, PrefixHas
    <3>2. QED
      BY <1>1, <2>1, <2>2, <3>1
  <2>5. /\ blocks' \in [All -> Seq(Text)] /\ whole' \subseteq whole
        /\ \A r \in whole', m \in Text : Has(blocks[r], m) => Has(blocks'[r], m)
    <3>1. CASE blocks' = [blocks EXCEPT ![s0] = <<Note>>] /\ whole' = whole \ {s0}
      BY <1>1, <2>1, <3>1, NoteText
    <3>2. CASE blocks' = [blocks EXCEPT ![s0] = Append(@, Note)] /\ whole' = whole
      <4>1. /\ Append(blocks[s0], Note) \in Seq(Text)
            /\ \A m : Has(blocks[s0], m) => Has(Append(blocks[s0], Note), m)
        BY <1>1, <2>1, NoteText, AppendHas
      <4>2. QED
        BY <1>1, <2>1, <3>2, <4>1
    <3>3. QED
      BY <2>3, <3>1, <3>2
  <2>6. ServerInv' /\ HeardInv' /\ WholeInv'
    BY <1>1, <2>1, <2>4, <2>5 DEF LossInv, ServerInv, HeardInv, WholeInv, Injecting
  <2>7. ShownInv'
    BY <1>1, <2>1, <2>4, <2>5 DEF LossInv, ShownInv
  <2>8. QED
    BY <2>6, <2>7 DEF LossInv
<1>5. QED
  BY <1>2, <1>3, <1>4

LEMMA IngestKeepsLoss ==
  ASSUME Inv, LossInv, Ingest
  PROVE  LossInv'
<1> DEFINE e0 == Head(coming)
<1>1. /\ history \in [All -> Seq(Text)] /\ blocks \in [All -> Seq(Text)]
      /\ coming \in Seq(Heard(used)) /\ used \subseteq Ids /\ whole \subseteq All
      /\ \A i \in DOMAIN summaries : summaries[i] \in used \cup Locals
  BY DEF LossInv, ServerInv, HeardInv, WholeInv, All
<1>2. /\ coming # <<>> /\ coming' = Tail(coming) /\ ui' = "ready"
      /\ UNCHANGED <<exists, used, history, made, stream, whole>>
      /\ summaries' = IF e0.type = "created" THEN AppendNew(summaries, e0.session) ELSE summaries
      /\ blocks' = IF e0.type = "written"
                   THEN [blocks EXCEPT ![e0.session] = Append(@, e0.message)] ELSE blocks
  BY DEF Ingest, Show, Apply, ghosts
<1>3. /\ coming' \in Seq(Heard(used)) /\ e0 \in Heard(used)
      /\ \A e : Has(coming, e) => e = e0 \/ Has(coming', e)
  BY <1>1, <1>2, TailHas
<1> HIDE DEF e0
<1>4. e0.session \in used /\ e0.session \in All /\ e0.message \in Text
  BY <1>1, <1>3 DEF Heard, All
<1>5. \A i \in DOMAIN summaries' : summaries'[i] \in used \cup Locals
  BY <1>1, <1>2, <1>4, AppendNewRange DEF Inv, TabsInv
<1>6. /\ blocks' \in [All -> Seq(Text)]
      /\ \A r \in All, m \in Text : Has(blocks[r], m) => Has(blocks'[r], m)
      /\ e0.type = "written" => Has(blocks'[e0.session], e0.message)
  <2>1. CASE e0.type = "written"
    <3>1. blocks' = [blocks EXCEPT ![e0.session] = Append(@, e0.message)]
      BY <1>2, <2>1
    <3>2. /\ Append(blocks[e0.session], e0.message) \in Seq(Text)
          /\ \A m : Has(blocks[e0.session], m) \/ m = e0.message
                => Has(Append(blocks[e0.session], e0.message), m)
      BY <1>1, <1>4, AppendHas
    <3>3. QED
      BY <1>1, <1>4, <3>1, <3>2
  <2>2. CASE e0.type # "written"
    BY <1>1, <1>2, <2>2
  <2>3. QED
    BY <2>1, <2>2
<1>7. ServerInv' /\ HeardInv' /\ WholeInv'
  BY <1>2, <1>3, <1>5, <1>6 DEF LossInv, ServerInv, HeardInv, WholeInv, Injecting
<1>8. ShownInv'
  <2> SUFFICES ASSUME NEW r \in whole, NEW m \in Text, Has(history[r], m), m.by # "there"
               PROVE  Has(blocks'[r], m) \/ Has(coming', Written(r, m))
    BY <1>2 DEF ShownInv
  <2>1. Has(blocks[r], m) \/ Has(coming, Written(r, m))
    BY DEF LossInv, ShownInv
  <2>2. e0 = Written(r, m) => e0.type = "written" /\ e0.session = r /\ e0.message = m
    BY DEF Written
  <2>3. QED
    BY <1>1, <1>3, <1>6, <2>1, <2>2
<1>9. QED
  BY <1>7, <1>8 DEF LossInv

\* Every step keeps what makes NothingLost inductive.
LEMMA LossInvKept == Inv /\ LossInv /\ [Next]_vars => LossInv'
<1>1. ASSUME LossInv, UNCHANGED vars PROVE LossInv'
  <2>1. UNCHANGED <<exists, used, history, made, coming, stream, whole, blocks, summaries, ui, born>>
    BY <1>1 DEF vars, server, tabs, ghosts
  <2>2. QED
    BY <1>1, <2>1, SameKeepsLoss DEF LossInv, HeardInv
<1>2. QED
  BY <1>1, ElsewhereKeepsLoss, LoadingKeepsLoss, CreatingKeepsLoss, InjectKeepsLoss,
     UsingKeepsLoss, IngestKeepsLoss DEF Next

LEMMA InitLossInv == Init => LossInv
<1> SUFFICES ASSUME Init PROVE LossInv
  OBVIOUS
<1>1. IsFiniteSet(faults)
  <2>1. IsFiniteSet({"request", "page", "inject", "stream", "time"})
    <3>1. \A x : IsFiniteSet({x})
      BY FS_Singleton
    <3>2. \A S, x : IsFiniteSet(S) => IsFiniteSet(S \cup {x})
      BY FS_AddElement
    <3>3. IsFiniteSet({"request"} \cup {"page"})
      BY ONLY <3>1, <3>2, Zenon
    <3>4. IsFiniteSet({"request"} \cup {"page"} \cup {"inject"})
      BY ONLY <3>2, <3>3, Zenon
    <3>5. IsFiniteSet({"request"} \cup {"page"} \cup {"inject"} \cup {"stream"})
      BY ONLY <3>2, <3>4, Zenon
    <3>6. IsFiniteSet({"request"} \cup {"page"} \cup {"inject"} \cup {"stream"} \cup {"time"})
      BY ONLY <3>2, <3>5, Zenon
    <3>7. {"request", "page", "inject", "stream", "time"}
            = {"request"} \cup {"page"} \cup {"inject"} \cup {"stream"} \cup {"time"}
      OBVIOUS
    <3>8. QED
      BY <3>6, <3>7, Zenon
  <2>2. faults \subseteq {"request", "page", "inject", "stream", "time"}
    BY FaultsAssumption DEF Init
  <2>3. QED
    BY <2>1, <2>2, FS_Subset
<1>2. made \in Nat
  BY <1>1, FS_CardinalityType DEF Init
<1>3. QED
  BY <1>2 DEF Init, LossInv, ServerInv, HeardInv, WholeInv, ShownInv, Heard, Injecting, All

LEMMA LossInvImplies ==
  ASSUME LossInv
  PROVE  NothingLost
<1> SUFFICES ASSUME NEW s \in whole, NEW i \in DOMAIN history[s], history[s][i].by # "there"
             PROVE  \/ \E j \in DOMAIN blocks[s] : blocks[s][j] = history[s][i]
                    \/ \E j \in DOMAIN coming : coming[j] = Written(s, history[s][i])
  BY DEF NothingLost
<1>1. history[s] \in Seq(Text)
  BY DEF LossInv, ServerInv, WholeInv, All
<1>2. history[s][i] \in Text /\ Has(history[s], history[s][i])
  BY <1>1 DEF Has
<1>3. Has(blocks[s], history[s][i]) \/ Has(coming, Written(s, history[s][i]))
  BY <1>2 DEF LossInv, ShownInv
<1>4. QED
  BY <1>3 DEF Has

-------------------------------------------------------------------------------

\* What an agent wrote or this user sent in a session that was read to its end is in its
\* transcript or on its way, whichever of the history and the stream brought it
\* (hydrate_active, ingest, apply_raw).
THEOREM NothingLostHolds == Spec => []NothingLost
<1>1. LossInv => NothingLost
  BY LossInvImplies
<1>2. QED
  BY <1>1, InitInv, InvKept, InitLossInv, LossInvKept, PTL DEF Spec
===============================================================================
