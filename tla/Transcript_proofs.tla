---------------------------- MODULE Transcript_proofs ----------------------------
(***************************************************************************)
(* Out of a turn the transcript does not end in a working indicator, a     *)
(* call that is over stays what it is, and a transcript that was followed  *)
(* says what one that is read says: for transcripts of any length,         *)
(* whatever is read again and wherever the client starts.                  *)
(*                                                                         *)
(* What makes NoIdleSpinner inductive: an indicator comes last among the   *)
(* blocks that are not gates, in which it can be exposed again, and at     *)
(* most while a shell is to run do gates follow it; and outside of a turn  *)
(* nothing is at work.                                                     *)
(*                                                                         *)
(* What makes SettledStays inductive, as long as calls come one at a time: *)
(* the latest run of the transcript is that of the call at work, so that   *)
(* no result goes to another; and every call that is over is over in the   *)
(* records of the server too, so that the history has it as it was.        *)
(*                                                                         *)
(* What makes LiveIsHistory inductive: the messages tell the same as the   *)
(* blocks that map_message makes of them (Told); between calls that is     *)
(* what the transcript says, and during a call the two differ in its run   *)
(* alone, which the transcript lacks at its end until the call is made,    *)
(* and then has as its latest run in a state the messages do not have yet. *)
(*                                                                         *)
(* The searches from the end, the retain of a step's indicators, the       *)
(* mapping of a history and what a sequence of texts says are shown by     *)
(* induction on a number, which rests on the fact that a set of numbers    *)
(* has a least element (WFMin).                                            *)
(***************************************************************************)
EXTENDS Transcript, WellFoundedInduction, TLAPS

-------------------------------------------------------------------------------
(* Induction over the natural numbers *)

\* A set of numbers that is not empty has a least element.
LEMMA Least ==
  ASSUME NEW T, T \subseteq Nat, T # {}
  PROVE  \E x \in T : \A y \in T : x <= y
<1> DEFINE R == OpToRel(<, Nat)
<1>1. IsWellFoundedOn(R, Nat)
  BY NatLessThanWellFounded
<1>2. \A x, y \in Nat : y < x => <<y, x>> \in R
  BY DEF OpToRel
<1> HIDE DEF R
<1>3. PICK x \in T : \A y \in T : ~(<<y, x>> \in R)
  BY <1>1, WFMin
<1>4. \A y \in T : x \in Nat /\ y \in Nat /\ ~(y < x)
  BY <1>2, <1>3
<1>5. \A y \in T : x <= y
  BY <1>4
<1>6. QED
  BY <1>3, <1>5

\* A set of numbers that has 0, and the successor of each of its numbers, has them all.
LEMMA Induction ==
  ASSUME NEW T \in SUBSET Nat, 0 \in T, \A n \in T : n + 1 \in T
  PROVE  T = Nat
<1>1. CASE Nat \ T # {}
  <2>1. PICK x \in Nat \ T : \A y \in Nat \ T : x <= y
    BY <1>1, Least
  <2>2. x # 0 /\ x - 1 \in Nat
    BY <2>1
  <2>3. x - 1 \in T
    BY <2>1, <2>2
  <2>4. (x - 1) + 1 = x
    BY <2>1
  <2>5. QED
    BY <2>1, <2>3, <2>4
<1>2. QED
  BY <1>1

\* g has, from 0 to L, what step makes of base when applied once per number.
Iterates(g, S, base, step, L) ==
  /\ g \in [0..L -> S]
  /\ g[0] = base
  /\ \A n \in 1..L : g[n] = step[<<g[n - 1], n>>]

\* A function defined by recursion on a number exists.
LEMMA Recursion ==
  ASSUME NEW S, NEW base \in S, NEW step \in [S \X Nat -> S], NEW L \in Nat
  PROVE  \E g : Iterates(g, S, base, step, L)
<1> DEFINE Good(g, k) == g[0] = base /\ \A n \in 1..k : g[n] = step[<<g[n - 1], n>>]
           T == {k \in Nat : \E g \in [0..k -> S] : Good(g, k)}
<1>1. 0 \in T
  <2>1. [i \in 0..0 |-> base] \in [0..0 -> S] /\ Good([i \in 0..0 |-> base], 0)
    OBVIOUS
  <2>2. QED
    BY <2>1
<1>2. ASSUME NEW k \in T PROVE k + 1 \in T
  <2>1. PICK g \in [0..k -> S] : Good(g, k)
    OBVIOUS
  <2> DEFINE h == [i \in 0..k + 1 |-> IF i = k + 1 THEN step[<<g[k], k + 1>>] ELSE g[i]]
  <2>2. k \in Nat /\ k \in 0..k /\ g[k] \in S /\ step[<<g[k], k + 1>>] \in S
    OBVIOUS
  <2>3. h \in [0..k + 1 -> S]
    BY <2>2
  <2>4. h[0] = base
    BY <2>1, <2>2
  <2>5. ASSUME NEW n \in 1..k + 1 PROVE h[n] = step[<<h[n - 1], n>>]
    <3>1. CASE n = k + 1
      <4>1. n - 1 = k /\ k # k + 1 /\ k \in 0..k + 1 /\ k + 1 \in 0..k + 1
        BY <2>2, <3>1
      <4>2. h[k] = g[k] /\ h[k + 1] = step[<<g[k], k + 1>>]
        BY <4>1
      <4>3. QED
        BY <3>1, <4>1, <4>2
    <3>2. CASE n \in 1..k
      <4>1. h[n] = g[n] /\ h[n - 1] = g[n - 1]
        BY <2>2, <3>2
      <4>2. QED
        BY <2>1, <3>2, <4>1
    <3>3. QED
      BY <2>2, <3>1, <3>2
  <2>6. Good(h, k + 1)
    BY <2>4, <2>5
  <2> HIDE DEF h, Good
  <2>7. QED
    BY <2>2, <2>3, <2>6
<1>3. T = Nat
  <2> HIDE DEF T
  <2>1. T \in SUBSET Nat
    BY DEF T
  <2>2. QED
    BY <1>1, <1>2, <2>1, Induction
<1>4. QED
  BY <1>3 DEF Iterates

-------------------------------------------------------------------------------
(* Types *)

Texts == Seq(Fragments)
MaybeCalls == Calls \cup {None}
BlockOf(kinds) ==
  [kind: kinds, text: Texts, detail: MaybeCalls, state: {"running", "done", "failed"},
   output: MaybeCalls]

\* The blocks that history has show no work that is under way and no gate.
Blocks == BlockOf(Kinds)
HistoryBlocks == BlockOf(Kinds \ (Working \cup {"gate"}))
Pieces == Seq(HistoryBlocks)

Items ==
  [type: {"assistant", "thinking", "tool", "shell"}, text: Texts, call: MaybeCalls,
   name: Names \cup {None},
   status: {"streaming", "running", "completed", "error", "done", "exited"}]
ItemSeqs == Seq(Items)
Messages ==
  {m \in [type: {"user", "assistant", "shell", "compacted", "compaction failed"}, items: ItemSeqs] :
     m.type = "shell" => m.items # <<>>}

TypeInv ==
  /\ phase \in {"idle", "turn", "step"} /\ compacting \in BOOLEAN
  /\ msgs \in Seq(Messages)
  /\ open \in [Calls -> Names \cup Stages] /\ names \in [Calls -> Names \cup {None}]
  /\ blocks \in Seq(Blocks)
  /\ clean \in BOOLEAN

LEMMA BlockType ==
  ASSUME NEW kinds, NEW kind \in kinds, NEW text \in Texts, NEW detail \in MaybeCalls,
         NEW state \in {"running", "done", "failed"}, NEW output \in MaybeCalls
  PROVE  Block(kind, text, detail, state, output) \in BlockOf(kinds)
BY DEF Block, BlockOf

LEMMA TextConcat ==
  ASSUME NEW s \in Texts, NEW t \in Texts
  PROVE  s \o t \in Texts /\ <<>> \in Texts
BY DEF Texts

-------------------------------------------------------------------------------
(* The calls that blocks and items show *)

ToolsOf(bs) == {bs[i] : i \in {j \in DOMAIN bs : bs[j].kind = "tool"}}
ReadTools(its, n) == {HistoryTool(its[i]) : i \in {j \in 1..n : its[j].type = "tool"}}

LEMMA ToolsOfAppend ==
  ASSUME NEW S, NEW bs \in Seq(S), NEW b \in S
  PROVE  /\ Append(bs, b) \in Seq(S)
         /\ b.kind = "tool" => ToolsOf(Append(bs, b)) = ToolsOf(bs) \cup {b}
         /\ b.kind # "tool" => ToolsOf(Append(bs, b)) = ToolsOf(bs)
<1> DEFINE cs == Append(bs, b)
           L == Len(bs)
<1>1. /\ L \in Nat /\ cs \in Seq(S) /\ DOMAIN bs = 1..L /\ DOMAIN cs = 1..L + 1
      /\ cs[L + 1] = b /\ \A i \in 1..L : cs[i] = bs[i]
  OBVIOUS
<1> HIDE DEF cs, L
<1>2. \A i \in 1..L + 1 : i \in 1..L \/ i = L + 1
  BY <1>1
<1>3. \A i \in 1..L : i \in 1..L + 1
  BY <1>1
<1>4. L + 1 \in 1..L + 1
  BY <1>1
<1>5. ToolsOf(bs) \subseteq ToolsOf(cs)
  BY <1>1, <1>3 DEF ToolsOf
<1>6. b.kind = "tool" => b \in ToolsOf(cs)
  BY <1>1, <1>4 DEF ToolsOf
<1>7. \A t \in ToolsOf(cs) : t \in ToolsOf(bs) \/ (t = b /\ b.kind = "tool")
  BY <1>1, <1>2 DEF ToolsOf
<1>8. QED
  BY <1>1, <1>5, <1>6, <1>7 DEF cs

LEMMA ToolsOfConcat ==
  ASSUME NEW S, NEW bs \in Seq(S), NEW cs \in Seq(S)
  PROVE  bs \o cs \in Seq(S) /\ ToolsOf(bs \o cs) = ToolsOf(bs) \cup ToolsOf(cs)
<1> DEFINE ds == bs \o cs
           m == Len(bs)
           n == Len(cs)
<1>1. /\ m \in Nat /\ n \in Nat /\ ds \in Seq(S)
      /\ DOMAIN bs = 1..m /\ DOMAIN cs = 1..n /\ DOMAIN ds = 1..m + n
      /\ \A i \in 1..m : ds[i] = bs[i]
      /\ \A i \in 1..n : ds[m + i] = cs[i]
  OBVIOUS
<1> HIDE DEF ds, m, n
<1>2. \A i \in 1..m + n : i \in 1..m \/ (i - m \in 1..n /\ i = m + (i - m))
  BY <1>1
<1>3. (\A i \in 1..m : i \in 1..m + n) /\ (\A i \in 1..n : m + i \in 1..m + n)
  BY <1>1
<1>4. ToolsOf(bs) \subseteq ToolsOf(ds) /\ ToolsOf(cs) \subseteq ToolsOf(ds)
  BY <1>1, <1>3 DEF ToolsOf
<1>5. ASSUME NEW i \in 1..m + n, ds[i].kind = "tool"
      PROVE  ds[i] \in ToolsOf(bs) \cup ToolsOf(cs)
  <2>1. CASE i \in 1..m
    BY <1>1, <1>5, <2>1 DEF ToolsOf
  <2>2. CASE i - m \in 1..n /\ i = m + (i - m)
    <3>1. ds[i] = cs[i - m]
      BY <1>1, <2>2
    <3>2. QED
      BY <1>1, <1>5, <2>2, <3>1 DEF ToolsOf
  <2>3. QED
    BY <1>2, <2>1, <2>2
<1>6. ToolsOf(ds) \subseteq ToolsOf(bs) \cup ToolsOf(cs)
  BY <1>1, <1>5 DEF ToolsOf
<1>7. QED
  BY <1>1, <1>4, <1>6 DEF ds

LEMMA ReadToolsNext ==
  ASSUME NEW its, NEW n \in Nat
  PROVE  /\ its[n + 1].type = "tool" =>
              ReadTools(its, n + 1) = ReadTools(its, n) \cup {HistoryTool(its[n + 1])}
         /\ its[n + 1].type # "tool" => ReadTools(its, n + 1) = ReadTools(its, n)
<1>1. \A i : i \in 1..n + 1 <=> i \in 1..n \/ i = n + 1
  OBVIOUS
<1>2. QED
  BY <1>1 DEF ReadTools

-------------------------------------------------------------------------------
(* What is read of the items of a message *)

LEMMA HistoryToolType ==
  ASSUME NEW item \in Items
  PROVE  HistoryTool(item) \in HistoryBlocks /\ HistoryTool(item).kind = "tool"
<1> DEFINE state == CASE item.status \in {"running", "streaming"} -> "running"
                      [] item.status = "error" -> "failed"
                      [] OTHER -> "done"
           output == IF item.status \in {"running", "streaming"} THEN None ELSE item.call
<1>1. state \in {"running", "done", "failed"}
  OBVIOUS
<1>2. item.call \in MaybeCalls /\ output \in MaybeCalls
  BY DEF Items, MaybeCalls
<1>3. HistoryTool(item) = Block("tool", <<>>, item.call, state, output)
  BY DEF HistoryTool, Tool
<1> HIDE DEF state, output
<1>4. "tool" \in Kinds \ (Working \cup {"gate"}) /\ <<>> \in Texts
  BY DEF Kinds, Working, Runs, Texts
<1>5. QED
  BY <1>1, <1>2, <1>3, <1>4, BlockType DEF HistoryBlocks, Block

Buffers == [blocks: Pieces, kind: {"assistant", "thinking", "shell"}, text: Texts]

LEMMA TextType ==
  ASSUME NEW kind \in {"assistant", "thinking", "shell"}, NEW text \in Texts
  PROVE  Text(kind, text) \in HistoryBlocks /\ Text(kind, text).kind = kind
<1>1. kind \in Kinds \ (Working \cup {"gate"}) /\ None \in MaybeCalls
  BY DEF Kinds, Working, Runs, MaybeCalls
<1>2. QED
  BY <1>1, BlockType DEF Text, HistoryBlocks, Block

LEMMA FlushedType ==
  ASSUME NEW m \in Buffers
  PROVE  Flushed(m) \in Buffers /\ ToolsOf(Flushed(m).blocks) = ToolsOf(m.blocks)
<1> DEFINE b == Text(m.kind, m.text)
           bs == m.blocks
<1>1. /\ bs \in Seq(HistoryBlocks) /\ b \in HistoryBlocks /\ b.kind # "tool"
      /\ m.kind \in {"assistant", "thinking", "shell"}
  BY TextType DEF Buffers, Pieces
<1>2. Append(bs, b) \in Seq(HistoryBlocks) /\ ToolsOf(Append(bs, b)) = ToolsOf(bs)
  BY <1>1, ToolsOfAppend
<1> DEFINE cs == IF IsBlank(m.text) THEN bs ELSE Append(bs, b)
<1>3. Flushed(m) = [m EXCEPT !.blocks = cs, !.text = <<>>]
  BY DEF Flushed
<1>4. cs \in Pieces /\ ToolsOf(cs) = ToolsOf(m.blocks)
  BY <1>1, <1>2 DEF Pieces
<1> HIDE DEF cs
<1>5. Flushed(m) = [blocks |-> cs, kind |-> m.kind, text |-> <<>>]
  BY <1>3 DEF Buffers
<1>6. <<>> \in Texts
  BY DEF Texts
<1>7. Flushed(m) \in Buffers /\ Flushed(m).blocks = cs
  BY <1>1, <1>4, <1>5, <1>6 DEF Buffers
<1>8. QED
  BY <1>4, <1>7

LEMMA MapItemType ==
  ASSUME NEW m \in Buffers, NEW item \in Items
  PROVE  /\ MapItem(m, item) \in Buffers
         /\ item.type = "tool" =>
              ToolsOf(MapItem(m, item).blocks) = ToolsOf(m.blocks) \cup {HistoryTool(item)}
         /\ item.type # "tool" => ToolsOf(MapItem(m, item).blocks) = ToolsOf(m.blocks)
<1>1. Flushed(m) \in Buffers /\ ToolsOf(Flushed(m).blocks) = ToolsOf(m.blocks)
  BY FlushedType
<1>2. CASE item.type = "tool"
  <2> DEFINE u == Flushed(m)
             b == HistoryTool(item)
  <2>1. b \in HistoryBlocks /\ b.kind = "tool" /\ u.blocks \in Seq(HistoryBlocks)
    BY <1>1, HistoryToolType DEF Buffers, Pieces
  <2>2. /\ Append(u.blocks, b) \in Seq(HistoryBlocks)
        /\ ToolsOf(Append(u.blocks, b)) = ToolsOf(u.blocks) \cup {b}
    BY <2>1, ToolsOfAppend
  <2>3. MapItem(m, item) = [u EXCEPT !.blocks = Append(u.blocks, b)]
    BY <1>2 DEF MapItem
  <2> HIDE DEF u, b
  <2>4. u \in Buffers /\ ToolsOf(u.blocks) = ToolsOf(m.blocks)
    BY <1>1 DEF u
  <2>5. /\ MapItem(m, item).blocks = Append(u.blocks, b)
        /\ MapItem(m, item) = [blocks |-> Append(u.blocks, b), kind |-> u.kind, text |-> u.text]
    BY <2>3, <2>4 DEF Buffers
  <2>6. MapItem(m, item) \in Buffers
    BY <2>2, <2>4, <2>5 DEF Buffers, Pieces
  <2>7. QED
    BY <1>2, <2>2, <2>4, <2>5, <2>6 DEF b
<1>3. CASE item.type # "tool"
  <2> DEFINE u == IF m.kind = item.type THEN m ELSE Flushed(m)
             text == u.text \o item.text
  <2>1. u \in Buffers /\ ToolsOf(u.blocks) = ToolsOf(m.blocks)
    BY <1>1
  <2>2. MapItem(m, item) = [u EXCEPT !.kind = item.type, !.text = text]
    BY <1>3 DEF MapItem
  <2>3. text \in Texts /\ item.type \in {"assistant", "thinking", "shell"}
    <3>1. u.text \in Texts /\ item.text \in Texts
      BY <2>1 DEF Buffers, Items
    <3>2. QED
      BY <1>3, <3>1, TextConcat DEF Items
  <2> HIDE DEF u, text
  <2>4. MapItem(m, item) = [blocks |-> u.blocks, kind |-> item.type, text |-> text]
    BY <2>1, <2>2 DEF Buffers
  <2>5. MapItem(m, item) \in Buffers /\ MapItem(m, item).blocks = u.blocks
    BY <2>1, <2>3, <2>4 DEF Buffers
  <2>6. QED
    BY <1>3, <2>1, <2>5
<1>4. QED
  BY <1>2, <1>3

LEMMA MapItemsType ==
  ASSUME NEW its, its \in ItemSeqs
  PROVE  MapItems(its) \in Pieces /\ ToolsOf(MapItems(its)) = ReadTools(its, Len(its))
<1> DEFINE L == Len(its)
           step == [x \in Buffers \X Nat |-> IF x[2] \in 1..L THEN MapItem(x[1], its[x[2]]) ELSE x[1]]
           after == CHOOSE f : f = [n \in 0..L |-> IF n = 0 THEN NoText ELSE MapItem(f[n - 1], its[n])]
<1>1. L \in Nat /\ \A n \in 1..L : its[n] \in Items
  BY DEF ItemSeqs
<1>2. NoText \in Buffers /\ ToolsOf(NoText.blocks) = {}
  <2>1. NoText \in Buffers
    BY DEF NoText, Buffers, Pieces, Texts
  <2>2. QED
    BY <2>1 DEF NoText, ToolsOf
<1>3. step \in [Buffers \X Nat -> Buffers]
  BY <1>1, MapItemType
<1>4. PICK g : Iterates(g, Buffers, NoText, step, L)
  BY <1>1, <1>2, <1>3, Recursion
<1>5. g \in [0..L -> Buffers] /\ g[0] = NoText /\ \A n \in 1..L : g[n] = MapItem(g[n - 1], its[n])
  <2>1. \A n \in 1..L : n - 1 \in 0..L /\ n \in Nat /\ g[n - 1] \in Buffers
    BY <1>1, <1>4 DEF Iterates
  <2>2. QED
    BY <1>4, <2>1 DEF Iterates
<1>6. g = [n \in 0..L |-> IF n = 0 THEN NoText ELSE MapItem(g[n - 1], its[n])]
  BY <1>1, <1>5
<1>7. after = [n \in 0..L |-> IF n = 0 THEN NoText ELSE MapItem(after[n - 1], its[n])]
  BY <1>6
<1>8. MapItems(its) = Flushed(after[L]).blocks
  BY DEF MapItems
<1> HIDE DEF after, step
<1> DEFINE Good(n) == after[n] \in Buffers /\ ToolsOf(after[n].blocks) = ReadTools(its, n)
           T == {n \in Nat : n <= L => Good(n)}
<1>9. 0 \in T
  <2>1. after[0] = NoText
    BY <1>1, <1>7
  <2>2. ReadTools(its, 0) = {}
    BY DEF ReadTools
  <2>3. QED
    BY <1>2, <2>1, <2>2
<1>10. ASSUME NEW n \in T PROVE n + 1 \in T
  <2> SUFFICES ASSUME n + 1 <= L PROVE Good(n + 1)
    OBVIOUS
  <2>1. n \in Nat /\ n <= L /\ n + 1 \in 1..L /\ n + 1 \in 0..L /\ (n + 1) - 1 = n /\ n + 1 # 0
    BY <1>1
  <2>2. after[n + 1] = MapItem(after[n], its[n + 1]) /\ its[n + 1] \in Items
    BY <1>1, <1>7, <2>1
  <2>3. Good(n)
    BY <2>1
  <2> DEFINE m == after[n]
             item == its[n + 1]
             next == after[n + 1]
  <2>4. next = MapItem(m, item) /\ item \in Items /\ m \in Buffers /\ ToolsOf(m.blocks) = ReadTools(its, n)
    BY <2>2, <2>3
  <2>5. /\ item.type = "tool" => ReadTools(its, n + 1) = ReadTools(its, n) \cup {HistoryTool(item)}
        /\ item.type # "tool" => ReadTools(its, n + 1) = ReadTools(its, n)
    BY <2>1, ReadToolsNext
  <2> HIDE DEF m, item, next
  <2>6. next \in Buffers /\ ToolsOf(next.blocks) = ReadTools(its, n + 1)
    BY <2>4, <2>5, MapItemType
  <2>7. QED
    BY <2>6 DEF next
<1>11. Good(L)
  <2> HIDE DEF Good
  <2>1. T = Nat
    <3> HIDE DEF T
    <3>1. T \in SUBSET Nat
      BY DEF T
    <3>2. QED
      BY <1>9, <1>10, <3>1, Induction
  <2>2. QED
    BY <1>1, <2>1
<1>12. QED
  BY <1>8, <1>11, FlushedType DEF Buffers

-------------------------------------------------------------------------------
(* What is read of all messages *)

LEMMA FlattenTools ==
  ASSUME NEW ss, ss \in Seq(Pieces)
  PROVE  /\ FlattenSeq(ss) \in Pieces
         /\ ToolsOf(FlattenSeq(ss)) = UNION {ToolsOf(ss[i]) : i \in 1..Len(ss)}
<1> DEFINE L == Len(ss)
           To(n) == UNION {ToolsOf(ss[i]) : i \in 1..n}
           step == [x \in Pieces \X Nat |-> IF x[2] + 1 \in 1..L THEN x[1] \o ss[x[2] + 1] ELSE x[1]]
           flat == CHOOSE f : f = [i \in 1..L |-> IF i = 1 THEN ss[i] ELSE f[i - 1] \o ss[i]]
<1>1. L \in Nat /\ \A n \in 1..L : ss[n] \in Pieces
  OBVIOUS
<1>2. \A p, q \in Pieces : p \o q \in Pieces /\ ToolsOf(p \o q) = ToolsOf(p) \cup ToolsOf(q)
  BY ToolsOfConcat DEF Pieces
<1>3. FlattenSeq(ss) = IF L = 0 THEN ss ELSE flat[L]
  BY DEF FlattenSeq
<1>4. CASE L = 0
  <2>1. ss = <<>> /\ 1..L = {}
    BY <1>4
  <2>2. ss \in Pieces /\ ToolsOf(ss) = {}
    BY <2>1 DEF Pieces, ToolsOf
  <2>3. QED
    BY <1>3, <1>4, <2>1, <2>2
<1>5. CASE L # 0
  <2>1. 1 \in 1..L /\ ss[1] \in Pieces /\ L - 1 \in Nat
    BY <1>1, <1>5
  <2>2. step \in [Pieces \X Nat -> Pieces]
    BY <1>1, <1>2
  <2> DEFINE first == ss[1]
  <2>3. \E g : Iterates(g, Pieces, first, step, L - 1)
    <3> HIDE DEF step, first
    <3>1. first \in Pieces
      BY <2>1 DEF first
    <3>2. QED
      BY <2>1, <2>2, <3>1, Recursion
  <2>4. PICK g : Iterates(g, Pieces, first, step, L - 1)
    BY <2>3
  <2>5. /\ g \in [0..L - 1 -> Pieces] /\ g[0] = first
        /\ \A n \in 1..L - 1 : g[n] = g[n - 1] \o ss[n + 1]
    <3>1. \A n \in 1..L - 1 : n - 1 \in 0..L - 1 /\ n \in Nat /\ n + 1 \in 1..L /\ g[n - 1] \in Pieces
      BY <1>1, <2>4 DEF Iterates
    <3>2. QED
      BY <2>4, <3>1 DEF Iterates
  <2> DEFINE h == [i \in 1..L |-> g[i - 1]]
  <2>6. h = [i \in 1..L |-> IF i = 1 THEN ss[i] ELSE h[i - 1] \o ss[i]]
    <3>1. ASSUME NEW i \in 1..L PROVE g[i - 1] = IF i = 1 THEN ss[i] ELSE h[i - 1] \o ss[i]
      <4>1. CASE i = 1
        BY <2>5, <4>1
      <4>2. CASE i # 1
        <5>1. i - 1 \in 1..L /\ i - 1 \in 1..L - 1 /\ (i - 1) + 1 = i
          BY <1>1, <4>2
        <5>2. QED
          BY <2>5, <4>2, <5>1
      <4>3. QED
        BY <4>1, <4>2
    <3>2. QED
      BY <3>1
  <2>7. flat = [i \in 1..L |-> IF i = 1 THEN ss[i] ELSE flat[i - 1] \o ss[i]]
    <3> HIDE DEF h
    <3>1. QED
      BY <2>6
  <2> HIDE DEF flat, h, step
  <2> DEFINE Good(n) == flat[n] \in Pieces /\ ToolsOf(flat[n]) = To(n)
             T == {n \in Nat : n + 1 <= L => Good(n + 1)}
  <2>8. 0 \in T
    <3>1. flat[1] = ss[1] /\ \A i : i \in 1..1 <=> i = 1
      BY <2>1, <2>7
    <3>2. To(1) = ToolsOf(ss[1])
      BY <3>1
    <3>3. QED
      BY <2>1, <3>1, <3>2
  <2>9. ASSUME NEW n \in T PROVE n + 1 \in T
    <3> SUFFICES ASSUME (n + 1) + 1 <= L PROVE Good((n + 1) + 1)
      OBVIOUS
    <3> DEFINE p == flat[n + 1]
               q == ss[(n + 1) + 1]
               r == flat[(n + 1) + 1]
    <3>1. n \in Nat /\ n + 1 <= L /\ (n + 1) + 1 \in 1..L /\ ((n + 1) + 1) - 1 = n + 1 /\ (n + 1) + 1 # 1
      BY <1>1
    <3>2. r = p \o q /\ q \in Pieces
      BY <1>1, <2>7, <3>1
    <3>3. p \in Pieces /\ ToolsOf(p) = To(n + 1)
      BY <3>1
    <3>4. To((n + 1) + 1) = To(n + 1) \cup ToolsOf(q)
      <4>1. \A i : i \in 1..(n + 1) + 1 <=> i \in 1..n + 1 \/ i = (n + 1) + 1
        BY <3>1
      <4>2. QED
        BY <4>1
    <3> HIDE DEF To, p, q, r
    <3>5. r \in Pieces /\ ToolsOf(r) = To((n + 1) + 1)
      BY <1>2, <3>2, <3>3, <3>4
    <3>6. QED
      BY <3>5 DEF r
  <2>10. Good(L)
    <3> HIDE DEF Good
    <3>1. T = Nat
      <4> HIDE DEF T
      <4>1. T \in SUBSET Nat
        BY DEF T
      <4>2. QED
        BY <2>8, <2>9, <4>1, Induction
    <3>2. L - 1 \in T
      BY <2>1, <3>1
    <3>3. L - 1 \in Nat /\ (L - 1) + 1 = L
      BY <1>1, <2>1
    <3>4. QED
      BY <1>1, <3>2, <3>3
  <2>11. QED
    BY <1>3, <1>5, <2>10
<1>6. QED
  BY <1>4, <1>5

LEMMA OnePiece ==
  ASSUME NEW b \in HistoryBlocks
  PROVE  <<b>> \in Pieces /\ (b.kind # "tool" => ToolsOf(<<b>>) = {})
<1>1. <<b>> \in Pieces /\ DOMAIN <<b>> = {1} /\ <<b>>[1] = b
  BY DEF Pieces
<1>2. QED
  BY <1>1 DEF ToolsOf

LEMMA NoteType ==
  ASSUME NEW kind
  PROVE  /\ Note(kind).kind = kind
         /\ kind \in Kinds => Note(kind) \in Blocks
         /\ kind \in {"user", "notice", "error"} => Note(kind) \in HistoryBlocks
<1>1. None \in MaybeCalls /\ <<>> \in Texts
  BY DEF MaybeCalls, Texts
<1>2. Note(kind) = Block(kind, <<>>, None, "done", None)
  BY DEF Note, Text
<1>3. kind \in {"user", "notice", "error"} => kind \in Kinds \ (Working \cup {"gate"})
  BY DEF Kinds, Working, Runs
<1>4. QED
  BY <1>1, <1>2, <1>3, BlockType DEF Blocks, HistoryBlocks, Block

LEMMA MapMessageType ==
  ASSUME NEW m, m \in Messages
  PROVE  /\ MapMessage(m) \in Pieces
         /\ m.type = "assistant" => ToolsOf(MapMessage(m)) = ReadTools(m.items, Len(m.items))
         /\ m.type # "assistant" => ToolsOf(MapMessage(m)) = {}
<1>1. m.items \in ItemSeqs
  BY DEF Messages
<1>2. CASE m.type = "assistant"
  <2>1. MapMessage(m) = MapItems(m.items)
    BY <1>2 DEF MapMessage
  <2>2. QED
    BY <1>1, <1>2, <2>1, MapItemsType
<1>3. CASE m.type = "shell"
  <2> DEFINE item == m.items[1]
  <2>1. item \in Items
    <3> DEFINE its == m.items
    <3>1. its \in Seq(Items) /\ its # <<>>
      BY <1>1, <1>3 DEF Messages, ItemSeqs
    <3> HIDE DEF its
    <3>2. its[1] \in Items
      BY <3>1
    <3>3. QED
      BY <3>2 DEF its
  <2>2. MapMessage(m) = <<HistoryShell(item)>>
    BY <1>3 DEF MapMessage
  <2> HIDE DEF item
  <2> DEFINE state == IF item.status = "running" THEN "running" ELSE "done"
             output == IF item.status = "running" THEN None ELSE item.call
  <2>3. HistoryShell(item) = Block("shell", <<>>, item.call, state, output)
    BY DEF HistoryShell, Tool
  <2>4. /\ state \in {"running", "done", "failed"} /\ output \in MaybeCalls /\ item.call \in MaybeCalls
        /\ <<>> \in Texts /\ "shell" \in Kinds \ (Working \cup {"gate"})
    BY <2>1 DEF Items, MaybeCalls, Texts, Kinds, Working, Runs
  <2> HIDE DEF state, output
  <2>5. HistoryShell(item) \in HistoryBlocks /\ HistoryShell(item).kind = "shell"
    BY <2>3, <2>4, BlockType DEF HistoryBlocks, Block
  <2>6. QED
    BY <1>3, <2>2, <2>5, OnePiece
<1>4. ASSUME NEW kind \in {"user", "notice", "error"}, MapMessage(m) = <<Note(kind)>>, m.type # "assistant"
      PROVE  MapMessage(m) \in Pieces /\ ToolsOf(MapMessage(m)) = {}
  BY <1>4, NoteType, OnePiece
<1>5. CASE m.type = "user"
  <2>1. MapMessage(m) = <<Note("user")>>
    BY <1>5 DEF MapMessage
  <2>2. QED
    BY <1>4, <1>5, <2>1
<1>6. CASE m.type = "compacted"
  <2>1. MapMessage(m) = <<Note("notice")>>
    BY <1>6 DEF MapMessage
  <2>2. QED
    BY <1>4, <1>6, <2>1
<1>7. CASE m.type = "compaction failed"
  <2>1. MapMessage(m) = <<Note("error")>>
    BY <1>7 DEF MapMessage
  <2>2. QED
    BY <1>4, <1>7, <2>1
<1>8. QED
  BY <1>2, <1>3, <1>5, <1>6, <1>7 DEF Messages

\* The calls that the server has recorded, as its messages have them.
RecordedIn(ms) ==
  {it \in Items : it.type = "tool" /\ \E i \in DOMAIN ms : ms[i].type = "assistant"
                                        /\ \E j \in DOMAIN ms[i].items : ms[i].items[j] = it}
Recorded == RecordedIn(msgs)

LEMMA HistoryType ==
  ASSUME TypeInv
  PROVE  History \in Pieces /\ ToolsOf(History) = {HistoryTool(it) : it \in Recorded}
<1> DEFINE ss == [i \in DOMAIN msgs |-> MapMessage(msgs[i])]
           L == Len(msgs)
<1>1. L \in Nat /\ DOMAIN msgs = 1..L /\ \A i \in 1..L : msgs[i] \in Messages
  BY DEF TypeInv
<1>2. \A i \in 1..L : msgs[i].items \in ItemSeqs
  BY <1>1 DEF Messages
<1> HIDE DEF L
<1>3. \A i \in 1..L : ss[i] = MapMessage(msgs[i]) /\ ss[i] \in Pieces
  BY <1>1, MapMessageType
<1>4. ss \in Seq(Pieces) /\ Len(ss) = L
  <2>1. ss \in [1..L -> Pieces]
    BY <1>1, <1>3
  <2> HIDE DEF ss
  <2>2. QED
    BY <1>1, <2>1
<1>5. History = FlattenSeq(ss)
  BY DEF History
<1>6. History \in Pieces /\ ToolsOf(History) = UNION {ToolsOf(ss[i]) : i \in 1..L}
  <2> HIDE DEF ss
  <2>1. QED
    BY <1>4, <1>5, FlattenTools
<1>7. \A i \in 1..L : /\ msgs[i].type = "assistant" =>
                           ToolsOf(ss[i]) = ReadTools(msgs[i].items, Len(msgs[i].items))
                      /\ msgs[i].type # "assistant" => ToolsOf(ss[i]) = {}
  BY <1>1, <1>3, MapMessageType
<1> HIDE DEF ss
<1>8. ASSUME NEW t, t \in ToolsOf(History) PROVE \E it \in Recorded : t = HistoryTool(it)
  <2>1. PICK i \in 1..L : t \in ToolsOf(ss[i])
    BY <1>6, <1>8
  <2> DEFINE its == msgs[i].items
  <2>2. msgs[i].type = "assistant" /\ t \in ReadTools(its, Len(its))
    BY <1>7, <2>1
  <2>3. PICK j \in 1..Len(its) : its[j].type = "tool" /\ t = HistoryTool(its[j])
    BY <2>2 DEF ReadTools
  <2>4. its \in Seq(Items) /\ j \in DOMAIN its /\ its[j] \in Items
    BY <1>2 DEF ItemSeqs
  <2>5. its[j] \in Recorded
    BY <1>1, <2>2, <2>3, <2>4 DEF Recorded, RecordedIn
  <2>6. QED
    BY <2>3, <2>5
<1>9. ASSUME NEW it \in Recorded PROVE HistoryTool(it) \in ToolsOf(History)
  <2>1. PICK i \in 1..L : it.type = "tool" /\ msgs[i].type = "assistant"
                           /\ \E j \in DOMAIN msgs[i].items : msgs[i].items[j] = it
    BY <1>1 DEF Recorded, RecordedIn
  <2> DEFINE its == msgs[i].items
  <2>2. PICK j \in DOMAIN its : its[j] = it
    BY <2>1
  <2>3. its \in Seq(Items)
    BY <1>2 DEF ItemSeqs
  <2>4. j \in 1..Len(its) /\ its[j].type = "tool"
    BY <2>1, <2>2, <2>3
  <2>5. HistoryTool(it) \in ReadTools(its, Len(its))
    BY <2>2, <2>4 DEF ReadTools
  <2>6. QED
    BY <1>6, <1>7, <2>1, <2>5
<1>10. QED
  BY <1>6, <1>8, <1>9

-------------------------------------------------------------------------------
(* What an event makes of the blocks *)

LEMMA LastKindIs ==
  ASSUME NEW bs \in Seq(Blocks)
  PROVE  /\ LastKind(bs) \in Kinds => Len(bs) \in Nat \ {0} /\ LastKind(bs) = bs[Len(bs)].kind
         /\ bs # <<>> => LastKind(bs) = bs[Len(bs)].kind
<1>1. CASE bs = <<>>
  BY <1>1, NoneAssumption DEF LastKind
<1>2. CASE bs # <<>>
  BY <1>2 DEF LastKind, Last
<1>3. QED
  BY <1>1, <1>2

LEMMA AppendIs ==
  ASSUME NEW bs \in Seq(Blocks), NEW b \in Blocks
  PROVE  /\ Append(bs, b) \in Seq(Blocks) /\ Len(Append(bs, b)) = Len(bs) + 1
         /\ Append(bs, b)[Len(bs) + 1] = b
         /\ \A i \in 1..Len(bs) : Append(bs, b)[i] = bs[i]
OBVIOUS

LEMMA FrontIs ==
  ASSUME NEW bs \in Seq(Blocks), Len(bs) # 0
  PROVE  /\ Front(bs) \in Seq(Blocks) /\ Len(Front(bs)) = Len(bs) - 1
         /\ \A i \in 1..Len(bs) - 1 : Front(bs)[i] = bs[i]
<1>1. Front(bs) = SubSeq(bs, 1, Len(bs) - 1) /\ Len(bs) \in Nat \ {0}
  BY DEF Front
<1>2. \A i \in 1..Len(bs) - 1 : bs[i] \in Blocks
  OBVIOUS
<1> DEFINE n == Len(bs) - 1
           fs == SubSeq(bs, 1, n)
<1>3. n \in Nat /\ \A i \in 1..n : bs[i] \in Blocks
  BY <1>1, <1>2
<1> HIDE DEF n
<1>4. fs = [i \in 1..n |-> bs[i]]
  BY <1>3
<1>5. fs \in [1..n -> Blocks]
  BY <1>3, <1>4
<1>6. fs \in Seq(Blocks) /\ Len(fs) = n
  BY <1>3, <1>5
<1>7. \A i \in 1..n : fs[i] = bs[i]
  BY <1>4
<1>8. QED
  BY <1>1, <1>6, <1>7 DEF n

\* An indicator is covered when something other than indicators and gates comes after it.
Exposed(bs, i) ==
  /\ i \in DOMAIN bs /\ bs[i].kind \in Working
  /\ \A j \in DOMAIN bs : i < j => bs[j].kind \in Working \cup {"gate"}
NoneExposed(bs) == \A i : ~Exposed(bs, i)
LastExposed(bs) == \A i : Exposed(bs, i) => i = Len(bs)

LEMMA AppendCovers ==
  ASSUME NEW bs \in Seq(Blocks), NEW b \in Blocks, b.kind \notin Working \cup {"gate"}
  PROVE  NoneExposed(Append(bs, b))
<1> DEFINE cs == Append(bs, b)
           L == Len(bs)
<1>1. L \in Nat /\ DOMAIN cs = 1..L + 1 /\ cs[L + 1] = b
  BY AppendIs
<1> HIDE DEF cs, L
<1>2. ASSUME NEW i, Exposed(cs, i) PROVE FALSE
  <2>1. i \in 1..L + 1 /\ cs[i].kind \in Working /\ (i < L + 1 => cs[L + 1].kind \in Working \cup {"gate"})
    BY <1>1, <1>2 DEF Exposed
  <2>2. QED
    BY <1>1, <2>1
<1>3. QED
  BY <1>2 DEF NoneExposed, cs

LEMMA GateExposes ==
  ASSUME NEW bs \in Seq(Blocks), NEW b \in Blocks, b.kind = "gate"
  PROVE  NoneExposed(bs) => NoneExposed(Append(bs, b))
<1> SUFFICES ASSUME NEW i, Exposed(Append(bs, b), i) PROVE Exposed(bs, i)
  BY DEF NoneExposed
<1> DEFINE cs == Append(bs, b)
           L == Len(bs)
<1>1. /\ L \in Nat /\ DOMAIN bs = 1..L /\ DOMAIN cs = 1..L + 1 /\ cs[L + 1].kind = "gate"
      /\ \A j \in 1..L : cs[j] = bs[j]
  BY AppendIs
<1>2. Exposed(cs, i)
  OBVIOUS
<1> HIDE DEF cs, L
<1>3. i \in 1..L + 1 /\ i # L + 1
  BY <1>1, <1>2 DEF Exposed, Working
<1>4. i \in 1..L /\ \A j \in 1..L : j \in 1..L + 1
  BY <1>1, <1>3
<1>5. QED
  BY <1>1, <1>2, <1>4 DEF Exposed

LEMMA AnswerExposes ==
  ASSUME NEW bs \in Seq(Blocks), LastKind(bs) = "gate"
  PROVE  /\ Front(bs) \in Seq(Blocks)
         /\ NoneExposed(bs) => NoneExposed(Front(bs))
         /\ LastExposed(bs) => NoneExposed(Front(bs))
<1> DEFINE cs == Front(bs)
           L == Len(bs)
<1>1. L \in Nat \ {0} /\ bs[L].kind = "gate"
  BY LastKindIs DEF Kinds
<1>2. cs \in Seq(Blocks) /\ Len(cs) = L - 1 /\ \A i \in 1..L - 1 : cs[i] = bs[i]
  BY <1>1, FrontIs
<1>3. DOMAIN bs = 1..L /\ DOMAIN cs = 1..L - 1
  BY <1>1, <1>2
<1> HIDE DEF cs, L
<1>4. ASSUME NEW i, Exposed(cs, i) PROVE Exposed(bs, i) /\ i # L
  <2>1. i \in 1..L - 1 /\ i \in 1..L /\ i # L
    BY <1>1, <1>3, <1>4 DEF Exposed
  <2>2. ASSUME NEW j \in 1..L, i < j PROVE bs[j].kind \in Working \cup {"gate"}
    <3>1. CASE j = L
      BY <1>1, <3>1
    <3>2. CASE j # L
      <4>1. j \in 1..L - 1
        BY <1>1, <3>2
      <4>2. QED
        BY <1>2, <1>3, <1>4, <2>2, <4>1 DEF Exposed
    <3>3. QED
      BY <3>1, <3>2
  <2>3. QED
    BY <1>2, <1>3, <1>4, <2>1, <2>2 DEF Exposed
<1>5. QED
  BY <1>2, <1>4 DEF NoneExposed, LastExposed, cs, L

LEMMA RetireIs ==
  ASSUME NEW bs \in Seq(Blocks)
  PROVE  /\ Retire(bs) \in Seq(Blocks)
         /\ \/ Retire(bs) = bs /\ LastKind(bs) \notin Working
            \/ /\ Len(bs) \in Nat \ {0} /\ bs[Len(bs)].kind \in Working
               /\ Len(Retire(bs)) = Len(bs) - 1
               /\ \A i \in 1..Len(bs) - 1 : Retire(bs)[i] = bs[i]
<1>1. CASE LastKind(bs) \in Working
  <2>1. Len(bs) \in Nat \ {0} /\ bs[Len(bs)].kind \in Working
    BY <1>1, LastKindIs DEF Kinds
  <2>2. Retire(bs) = Front(bs)
    BY <1>1 DEF Retire
  <2>3. QED
    BY <2>1, <2>2, FrontIs
<1>2. CASE LastKind(bs) \notin Working
  BY <1>2 DEF Retire
<1>3. QED
  BY <1>1, <1>2

LEMMA RetireExposes ==
  ASSUME NEW bs \in Seq(Blocks), LastExposed(bs)
  PROVE  NoneExposed(Retire(bs))
<1> DEFINE cs == Retire(bs)
           L == Len(bs)
<1>1. CASE cs = bs /\ LastKind(bs) \notin Working
  <2>1. ASSUME NEW i, Exposed(bs, i) PROVE FALSE
    <3>1. i = L /\ bs[i].kind \in Working /\ i \in DOMAIN bs
      BY <2>1 DEF LastExposed, Exposed
    <3>2. bs # <<>>
      BY <3>1
    <3>3. QED
      BY <1>1, <3>1, <3>2, LastKindIs
  <2>2. QED
    BY <1>1, <2>1 DEF NoneExposed
<1>2. CASE /\ L \in Nat \ {0} /\ bs[L].kind \in Working /\ Len(cs) = L - 1
           /\ \A i \in 1..L - 1 : cs[i] = bs[i]
  <2>1. cs \in Seq(Blocks) /\ L \in Nat
    BY <1>2, RetireIs
  <2>2. DOMAIN bs = 1..L /\ DOMAIN cs = 1..L - 1
    BY <1>2, <2>1
  <2> HIDE DEF cs, L
  <2>3. ASSUME NEW i, Exposed(cs, i) PROVE FALSE
    <3>1. i \in 1..L - 1 /\ i \in 1..L /\ i # L
      BY <2>1, <2>2, <2>3 DEF Exposed
    <3>2. ASSUME NEW j \in 1..L, i < j PROVE bs[j].kind \in Working \cup {"gate"}
      <4>1. CASE j = L
        BY <1>2, <4>1
      <4>2. CASE j # L
        <5>1. j \in 1..L - 1
          BY <2>1, <4>2
        <5>2. QED
          BY <1>2, <2>2, <2>3, <3>2, <5>1 DEF Exposed
      <4>3. QED
        BY <4>1, <4>2
    <3>3. Exposed(bs, i)
      BY <1>2, <2>2, <2>3, <3>1, <3>2 DEF Exposed
    <3>4. QED
      BY <3>1, <3>3 DEF LastExposed, L
  <2>4. QED
    BY <2>3 DEF NoneExposed, cs
<1>3. QED
  BY <1>1, <1>2, RetireIs

\* The first n blocks stay, and one more comes instead of an indicator that was last.
Pushed(bs, cs, kind, n) ==
  /\ n <= Len(bs) /\ Len(cs) = n + 1 /\ cs[n + 1] = Note(kind)
  /\ \A i \in 1..n : cs[i] = bs[i]
  /\ \A i \in 1..Len(bs) : n < i => i = Len(bs) /\ bs[i].kind \in Working
  /\ n = Len(bs) /\ n # 0 => bs[n].kind \notin Working

LEMMA PushIs ==
  ASSUME NEW bs \in Seq(Blocks), NEW kind \in Working
  PROVE  /\ Push(bs, Note(kind)) \in Seq(Blocks)
         /\ \E n \in Nat : Pushed(bs, Push(bs, Note(kind)), kind, n)
<1> DEFINE b == Note(kind)
<1>1. b \in Blocks /\ b.kind \in Working
  BY NoteType DEF Kinds
<1> HIDE DEF b
<1>2. CASE LastKind(bs) \in Working
  <2>1. Len(bs) \in Nat \ {0} /\ bs[Len(bs)].kind \in Working
    BY <1>2, LastKindIs DEF Kinds
  <2> DEFINE fs == Front(bs)
  <2>2. fs \in Seq(Blocks) /\ Len(fs) = Len(bs) - 1 /\ \A i \in 1..Len(bs) - 1 : fs[i] = bs[i]
    BY <2>1, FrontIs
  <2>3. Push(bs, b) = Append(fs, b)
    BY <1>1, <1>2 DEF Push
  <2> HIDE DEF fs
  <2>4. /\ Append(fs, b) \in Seq(Blocks) /\ Len(Append(fs, b)) = (Len(bs) - 1) + 1
        /\ Append(fs, b)[(Len(bs) - 1) + 1] = b
        /\ \A i \in 1..Len(bs) - 1 : Append(fs, b)[i] = bs[i]
    BY <1>1, <2>2, AppendIs
  <2>5. Len(bs) - 1 \in Nat /\ Len(bs) - 1 <= Len(bs)
    BY <2>1
  <2>6. \A i \in 1..Len(bs) : Len(bs) - 1 < i => i = Len(bs)
    BY <2>1
  <2>7. Len(bs) - 1 # Len(bs)
    BY <2>1
  <2>8. QED
    BY <2>1, <2>3, <2>4, <2>5, <2>6, <2>7 DEF b, Pushed
<1>3. CASE LastKind(bs) \notin Working
  <2>1. Push(bs, b) = Append(bs, b)
    BY <1>3 DEF Push
  <2>2. /\ Append(bs, b) \in Seq(Blocks) /\ Len(Append(bs, b)) = Len(bs) + 1
        /\ Append(bs, b)[Len(bs) + 1] = b
        /\ \A i \in 1..Len(bs) : Append(bs, b)[i] = bs[i]
    BY <1>1, AppendIs
  <2>3. Len(bs) \in Nat /\ Len(bs) <= Len(bs) /\ \A i \in 1..Len(bs) : ~(Len(bs) < i)
    OBVIOUS
  <2>4. Len(bs) # 0 => bs[Len(bs)].kind \notin Working
    BY <1>3, LastKindIs
  <2>5. QED
    BY <2>1, <2>2, <2>3, <2>4 DEF b, Pushed
<1>4. QED
  BY <1>2, <1>3

LEMMA PushExposes ==
  ASSUME NEW bs \in Seq(Blocks), NEW kind \in Working, LastExposed(bs)
  PROVE  LastExposed(Push(bs, Note(kind)))
<1> DEFINE cs == Push(bs, Note(kind))
           L == Len(bs)
<1>0. PICK n \in Nat : Pushed(bs, cs, kind, n)
  BY PushIs
<1>1. /\ n <= L /\ Len(cs) = n + 1
      /\ \A i \in 1..n : cs[i] = bs[i]
      /\ \A i \in 1..L : n < i => i = L /\ bs[i].kind \in Working
      /\ n = L /\ n # 0 => bs[n].kind \notin Working
  BY <1>0 DEF Pushed
<1>2. cs \in Seq(Blocks) /\ L \in Nat
  BY PushIs
<1>3. DOMAIN bs = 1..L /\ DOMAIN cs = 1..n + 1
  BY <1>1, <1>2
<1>4. \A i : Exposed(bs, i) => i = L
  BY DEF LastExposed
<1> HIDE DEF cs, L
<1>5. ASSUME NEW i, Exposed(cs, i), i # n + 1 PROVE FALSE
  <2>1. i \in 1..n /\ i \in 1..L /\ i \in 1..n + 1
    BY <1>1, <1>2, <1>3, <1>5 DEF Exposed
  <2>2. ASSUME NEW j \in 1..L, i < j PROVE bs[j].kind \in Working \cup {"gate"}
    <3>1. CASE n < j
      BY <1>1, <3>1
    <3>2. CASE ~(n < j)
      <4>1. j \in 1..n /\ j \in 1..n + 1
        BY <1>1, <3>2
      <4>2. QED
        BY <1>1, <1>3, <1>5, <2>2, <4>1 DEF Exposed
    <3>3. QED
      BY <3>1, <3>2
  <2>3. Exposed(bs, i)
    BY <1>1, <1>3, <1>5, <2>1, <2>2 DEF Exposed
  <2>4. i = L
    BY <1>4, <2>3
  <2>5. n = L /\ n # 0 /\ bs[n].kind \in Working
    BY <1>1, <1>2, <2>1, <2>3, <2>4 DEF Exposed
  <2>6. QED
    BY <1>1, <2>5
<1>6. QED
  BY <1>1, <1>5 DEF LastExposed, cs

\* The first n blocks stay, and the last is a text of the kind.
Chunked(bs, cs, kind, n) ==
  /\ n <= Len(bs) /\ Len(cs) = n + 1 /\ cs[n + 1].kind = kind
  /\ \A i \in 1..n : cs[i] = bs[i]
  /\ \A i \in 1..Len(bs) : n < i => bs[i].kind = kind

LEMMA ChunkIs ==
  ASSUME NEW bs \in Seq(Blocks), NEW kind \in {"assistant", "thinking"}, NEW f \in Fragments
  PROVE  /\ Chunk(bs, kind, f) \in Seq(Blocks)
         /\ \E n \in Nat : Chunked(bs, Chunk(bs, kind, f), kind, n)
<1> DEFINE cs == Chunk(bs, kind, f)
           L == Len(bs)
<1>1. CASE LastKind(bs) = kind
  <2>1. L \in Nat \ {0} /\ bs[L].kind = kind
    BY <1>1, LastKindIs DEF Kinds
  <2> DEFINE b == [bs[L] EXCEPT !.text = Append(@, f)]
  <2>2. cs = [bs EXCEPT ![L] = b]
    BY <1>1 DEF Chunk
  <2>3. b \in Blocks /\ b.kind = kind
    <3>1. bs[L] \in Blocks
      BY <2>1
    <3>2. Append(bs[L].text, f) \in Texts
      BY <3>1 DEF Blocks, BlockOf, Texts
    <3>3. QED
      BY <2>1, <3>1, <3>2 DEF Blocks, BlockOf
  <2> HIDE DEF b, cs
  <2>4. cs \in Seq(Blocks) /\ Len(cs) = L /\ cs[L] = b /\ \A i \in 1..L - 1 : cs[i] = bs[i]
    <3>1. cs \in [1..L -> Blocks]
      BY <2>1, <2>2, <2>3
    <3>2. cs \in Seq(Blocks) /\ Len(cs) = L
      BY <2>1, <3>1
    <3>3. L \in DOMAIN bs /\ \A i \in 1..L - 1 : i \in DOMAIN bs /\ i # L
      BY <2>1
    <3>4. cs[L] = b /\ \A i \in 1..L - 1 : cs[i] = bs[i]
      BY <2>2, <3>3
    <3>5. QED
      BY <3>2, <3>4
  <2>5. L - 1 \in Nat /\ L - 1 <= L /\ (L - 1) + 1 = L /\ \A i \in 1..L : L - 1 < i => i = L
    BY <2>1
  <2>6. QED
    BY <2>1, <2>3, <2>4, <2>5 DEF cs, Chunked
<1>2. CASE LastKind(bs) # kind
  <2> DEFINE b == Text(kind, <<f>>)
  <2>1. b \in Blocks /\ b.kind = kind
    <3>1. kind \in Kinds /\ <<f>> \in Texts /\ None \in MaybeCalls
      BY DEF Kinds, Texts, MaybeCalls
    <3>2. QED
      BY <3>1, BlockType DEF Text, Blocks, Block
  <2>2. cs = Append(bs, b)
    BY <1>2 DEF Chunk
  <2> HIDE DEF b, cs
  <2>3. L \in Nat /\ L <= L /\ \A i \in 1..L : ~(L < i)
    OBVIOUS
  <2>4. cs \in Seq(Blocks) /\ Len(cs) = L + 1 /\ cs[L + 1] = b /\ \A i \in 1..L : cs[i] = bs[i]
    BY <2>1, <2>2, AppendIs
  <2>5. QED
    BY <2>1, <2>3, <2>4 DEF cs, Chunked
<1>3. QED
  BY <1>1, <1>2

LEMMA ChunkCovers ==
  ASSUME NEW bs \in Seq(Blocks), NEW kind \in {"assistant", "thinking"}, NEW f \in Fragments
  PROVE  NoneExposed(Chunk(bs, kind, f))
<1> DEFINE cs == Chunk(bs, kind, f)
<1>0. PICK n \in Nat : Chunked(bs, cs, kind, n)
  BY ChunkIs
<1>1. Len(cs) = n + 1 /\ cs[n + 1].kind = kind
  BY <1>0 DEF Chunked
<1>2. cs \in Seq(Blocks)
  BY ChunkIs
<1> HIDE DEF cs
<1>3. DOMAIN cs = 1..n + 1 /\ n + 1 \in 1..n + 1 /\ kind \notin Working \cup {"gate"}
  BY <1>1, <1>2 DEF Working
<1>4. \A i \in 1..n + 1 : i = n + 1 \/ i < n + 1
  BY <1>1
<1>5. QED
  BY <1>1, <1>3, <1>4 DEF NoneExposed, Exposed, cs

\* Blocks that keep their kinds keep what they cover.
KindsKept(bs, cs) ==
  cs \in Seq(Blocks) /\ Len(cs) = Len(bs) /\ \A i \in 1..Len(bs) : cs[i].kind = bs[i].kind

LEMMA KindsKeptExposes ==
  ASSUME NEW bs \in Seq(Blocks), NEW cs, KindsKept(bs, cs)
  PROVE  /\ NoneExposed(bs) => NoneExposed(cs)
         /\ LastExposed(bs) => LastExposed(cs)
<1>1. DOMAIN bs = DOMAIN cs /\ \A i \in DOMAIN bs : cs[i].kind = bs[i].kind
  BY DEF KindsKept
<1>2. \A i : Exposed(cs, i) => Exposed(bs, i)
  BY <1>1 DEF Exposed
<1>3. Len(cs) = Len(bs)
  BY DEF KindsKept
<1>4. QED
  BY <1>2, <1>3 DEF NoneExposed, LastExposed

LEMMA UpdateToolKinds ==
  ASSUME NEW bs \in Seq(Blocks), NEW state \in {"done", "failed"}, NEW output \in MaybeCalls
  PROVE  KindsKept(bs, UpdateTool(bs, state, output))
<1> DEFINE k == LastOf(bs, Runs)
           cs == UpdateTool(bs, state, output)
           L == Len(bs)
           b1 == [bs[k] EXCEPT !.state = state, !.output = output]
           b2 == [bs[k] EXCEPT !.state = state]
<1>1. L \in Nat /\ DOMAIN bs = 1..L /\ \A i \in 1..L : bs[i] \in Blocks
  OBVIOUS
<1>2. cs = bs \/ cs = [bs EXCEPT ![k] = b1] \/ cs = [bs EXCEPT ![k] = b2]
  BY DEF UpdateTool
<1>3. k \in 1..L => b1 \in Blocks /\ b1.kind = bs[k].kind /\ b2 \in Blocks /\ b2.kind = bs[k].kind
  BY <1>1 DEF Blocks, BlockOf
<1> HIDE DEF k, cs, b1, b2
<1>4. ASSUME NEW b, cs = [bs EXCEPT ![k] = b], k \in 1..L => b \in Blocks /\ b.kind = bs[k].kind
      PROVE  KindsKept(bs, cs)
  <2>1. \A i \in 1..L : cs[i] \in Blocks /\ cs[i].kind = bs[i].kind
    BY <1>1, <1>4
  <2>2. cs \in [1..L -> Blocks]
    BY <1>1, <1>4, <2>1
  <2>3. cs \in Seq(Blocks) /\ Len(cs) = L
    BY <1>1, <2>2
  <2>4. QED
    BY <2>1, <2>3 DEF KindsKept
<1>5. QED
  BY <1>2, <1>3, <1>4 DEF KindsKept, cs

LEMMA ShellLineKinds ==
  ASSUME NEW bs \in Seq(Blocks), NEW c \in Calls
  PROVE  KindsKept(bs, ShellLine(bs, c))
<1> DEFINE k == LastOf(bs, {"shell"})
           cs == ShellLine(bs, c)
           L == Len(bs)
           b == [bs[k] EXCEPT !.output = c]
<1>1. L \in Nat /\ DOMAIN bs = 1..L /\ \A i \in 1..L : bs[i] \in Blocks
  OBVIOUS
<1>2. cs = bs \/ cs = [bs EXCEPT ![k] = b]
  BY DEF ShellLine
<1>3. k \in 1..L => b \in Blocks /\ b.kind = bs[k].kind
  BY <1>1 DEF Blocks, BlockOf, MaybeCalls
<1> HIDE DEF k, cs, b
<1>4. ASSUME cs = [bs EXCEPT ![k] = b] PROVE KindsKept(bs, cs)
  <2>1. \A i \in 1..L : cs[i] \in Blocks /\ cs[i].kind = bs[i].kind
    BY <1>1, <1>3, <1>4
  <2>2. cs \in [1..L -> Blocks]
    BY <1>1, <1>4, <2>1
  <2>3. cs \in Seq(Blocks) /\ Len(cs) = L
    BY <1>1, <2>2
  <2>4. QED
    BY <2>1, <2>3 DEF KindsKept
<1>5. QED
  BY <1>2, <1>4 DEF KindsKept, cs

-------------------------------------------------------------------------------
(* What an event makes of the runs *)

Settled(bs) == {b \in ToolsOf(bs) : b.state # "running"}

\* The latest run of the blocks, to which a result goes.
Latest(bs, i) ==
  /\ i \in DOMAIN bs /\ bs[i].kind \in Runs
  /\ \A j \in DOMAIN bs : i < j => bs[j].kind \notin Runs

SameRuns(bs, cs) ==
  /\ ToolsOf(cs) = ToolsOf(bs)
  /\ \A i : Latest(bs, i) => Latest(cs, i) /\ cs[i] = bs[i]

LEMMA SameRunsTwice ==
  ASSUME NEW bs, NEW cs, NEW ds, SameRuns(bs, cs), SameRuns(cs, ds)
  PROVE  SameRuns(bs, ds)
BY DEF SameRuns

\* Blocks that differ only at the end, and there by blocks that are no runs.
LEMMA SameRunsTo ==
  ASSUME NEW bs \in Seq(Blocks), NEW cs \in Seq(Blocks), NEW n \in Nat,
         n <= Len(bs), n <= Len(cs),
         \A i \in 1..n : cs[i] = bs[i],
         \A i \in 1..Len(bs) : n < i => bs[i].kind \notin Runs,
         \A i \in 1..Len(cs) : n < i => cs[i].kind \notin Runs
  PROVE  SameRuns(bs, cs)
<1> DEFINE k == Len(bs)
           l == Len(cs)
<1>1. k \in Nat /\ l \in Nat /\ DOMAIN bs = 1..k /\ DOMAIN cs = 1..l
  OBVIOUS
<1>2. /\ \A i \in 1..k : bs[i].kind \in Runs => i \in 1..n
      /\ \A i \in 1..l : cs[i].kind \in Runs => i \in 1..n
      /\ \A i \in 1..n : i \in 1..k /\ i \in 1..l /\ cs[i] = bs[i]
  BY <1>1
<1> HIDE DEF k, l
<1>3. "tool" \in Runs
  BY DEF Runs
<1>4. ToolsOf(cs) = ToolsOf(bs)
  BY <1>1, <1>2, <1>3 DEF ToolsOf
<1>5. \A i : Latest(bs, i) => Latest(cs, i) /\ cs[i] = bs[i]
  BY <1>1, <1>2 DEF Latest
<1>6. QED
  BY <1>4, <1>5 DEF SameRuns

LEMMA AppendRuns ==
  ASSUME NEW bs \in Seq(Blocks), NEW b \in Blocks, b.kind \notin Runs
  PROVE  SameRuns(bs, Append(bs, b))
<1> DEFINE cs == Append(bs, b)
           L == Len(bs)
<1>1. /\ L \in Nat /\ cs \in Seq(Blocks) /\ Len(cs) = L + 1 /\ cs[L + 1] = b
      /\ \A i \in 1..L : cs[i] = bs[i]
  BY AppendIs
<1> HIDE DEF cs
<1>2. L <= Len(bs) /\ L <= Len(cs) /\ (\A i \in 1..Len(bs) : ~(L < i))
  BY <1>1
<1>3. \A i \in 1..Len(cs) : L < i => cs[i].kind \notin Runs
  <2>1. \A i \in 1..L + 1 : L < i => i = L + 1
    BY <1>1
  <2>2. QED
    BY <1>1, <2>1
<1>4. SameRuns(bs, cs)
  <2> HIDE DEF L
  <2>1. QED
    BY <1>1, <1>2, <1>3, SameRunsTo
<1>5. QED
  BY <1>4 DEF cs

LEMMA FrontRuns ==
  ASSUME NEW bs \in Seq(Blocks), Len(bs) # 0, bs[Len(bs)].kind \notin Runs,
         NEW cs \in Seq(Blocks), Len(cs) = Len(bs) - 1, \A i \in 1..Len(bs) - 1 : cs[i] = bs[i]
  PROVE  SameRuns(bs, cs)
<1> DEFINE n == Len(bs) - 1
<1>1. /\ n \in Nat /\ n <= Len(bs) /\ n <= Len(cs) /\ \A i \in 1..n : cs[i] = bs[i]
      /\ \A i \in 1..Len(bs) : n < i => i = Len(bs)
      /\ \A i \in 1..Len(cs) : ~(n < i)
  OBVIOUS
<1> HIDE DEF n
<1>2. QED
  BY <1>1, SameRunsTo

LEMMA RetireRuns ==
  ASSUME NEW bs \in Seq(Blocks)
  PROVE  SameRuns(bs, Retire(bs))
<1> DEFINE cs == Retire(bs)
<1>1. /\ cs \in Seq(Blocks)
      /\ \/ cs = bs
         \/ /\ Len(bs) # 0 /\ bs[Len(bs)].kind \in Working /\ Len(cs) = Len(bs) - 1
            /\ \A i \in 1..Len(bs) - 1 : cs[i] = bs[i]
  BY RetireIs
<1> HIDE DEF cs
<1>2. SameRuns(bs, bs)
  BY DEF SameRuns
<1>3. \A x \in Working : x \notin Runs
  BY DEF Working, Runs
<1>4. SameRuns(bs, cs)
  BY <1>1, <1>2, <1>3, FrontRuns
<1>5. QED
  BY <1>4 DEF cs

LEMMA PushRuns ==
  ASSUME NEW bs \in Seq(Blocks), NEW kind \in Working
  PROVE  SameRuns(bs, Push(bs, Note(kind)))
<1> DEFINE cs == Push(bs, Note(kind))
<1>0. PICK n \in Nat : Pushed(bs, cs, kind, n)
  BY PushIs
<1>1. /\ n <= Len(bs) /\ Len(cs) = n + 1 /\ cs[n + 1] = Note(kind)
      /\ \A i \in 1..n : cs[i] = bs[i]
      /\ \A i \in 1..Len(bs) : n < i => i = Len(bs) /\ bs[i].kind \in Working
  BY <1>0 DEF Pushed
<1>2. cs \in Seq(Blocks) /\ Note(kind).kind = kind
  BY PushIs, NoteType
<1>3. \A x \in Working : x \notin Runs
  BY DEF Working, Runs
<1> HIDE DEF cs
<1>4. n <= Len(cs) /\ \A i \in 1..Len(cs) : n < i => i = n + 1
  BY <1>1
<1>5. \A i \in 1..Len(bs) : n < i => bs[i].kind \notin Runs
  BY <1>1, <1>3
<1>6. \A i \in 1..Len(cs) : n < i => cs[i].kind \notin Runs
  BY <1>1, <1>2, <1>3, <1>4
<1>7. SameRuns(bs, cs)
  BY <1>1, <1>2, <1>4, <1>5, <1>6, SameRunsTo
<1>8. QED
  BY <1>7 DEF cs

LEMMA ChunkRuns ==
  ASSUME NEW bs \in Seq(Blocks), NEW kind \in {"assistant", "thinking"}, NEW f \in Fragments
  PROVE  SameRuns(bs, Chunk(bs, kind, f))
<1> DEFINE cs == Chunk(bs, kind, f)
<1>0. PICK n \in Nat : Chunked(bs, cs, kind, n)
  BY ChunkIs
<1>1. /\ n <= Len(bs) /\ Len(cs) = n + 1 /\ cs[n + 1].kind = kind
      /\ \A i \in 1..n : cs[i] = bs[i]
      /\ \A i \in 1..Len(bs) : n < i => bs[i].kind = kind
  BY <1>0 DEF Chunked
<1>2. cs \in Seq(Blocks) /\ kind \notin Runs
  BY ChunkIs DEF Runs
<1> HIDE DEF cs
<1>3. n <= Len(cs) /\ \A i \in 1..Len(cs) : n < i => i = n + 1
  BY <1>1
<1>4. \A i \in 1..Len(bs) : n < i => bs[i].kind \notin Runs
  BY <1>1, <1>2
<1>5. \A i \in 1..Len(cs) : n < i => cs[i].kind \notin Runs
  BY <1>1, <1>2, <1>3
<1>6. SameRuns(bs, cs)
  BY <1>1, <1>2, <1>3, <1>4, <1>5, SameRunsTo
<1>7. QED
  BY <1>6 DEF cs

LEMMA AnswerRuns ==
  ASSUME NEW bs \in Seq(Blocks), LastKind(bs) = "gate"
  PROVE  SameRuns(bs, Front(bs))
<1>1. Len(bs) \in Nat \ {0} /\ bs[Len(bs)].kind = "gate"
  BY LastKindIs DEF Kinds
<1>2. Front(bs) \in Seq(Blocks) /\ Len(Front(bs)) = Len(bs) - 1 /\ \A i \in 1..Len(bs) - 1 : Front(bs)[i] = bs[i]
  BY <1>1, FrontIs
<1>3. "gate" \notin Runs
  BY DEF Runs
<1>4. QED
  BY <1>1, <1>2, <1>3, FrontRuns

\* A run that is appended is the latest.
LEMMA RunAppended ==
  ASSUME NEW bs \in Seq(Blocks), NEW b \in Blocks, b.kind \in Runs
  PROVE  Latest(Append(bs, b), Len(bs) + 1) /\ Append(bs, b)[Len(bs) + 1] = b
<1> DEFINE cs == Append(bs, b)
           L == Len(bs)
<1>1. L \in Nat /\ DOMAIN cs = 1..L + 1 /\ cs[L + 1] = b
  BY AppendIs
<1> HIDE DEF cs, L
<1>2. L + 1 \in 1..L + 1 /\ \A j \in 1..L + 1 : ~(L + 1 < j)
  BY <1>1
<1>3. QED
  BY <1>1, <1>2 DEF Latest, cs, L

LEMMA LastOfIs ==
  ASSUME NEW bs \in Seq(Blocks), NEW kinds, NEW i \in DOMAIN bs, bs[i].kind \in kinds,
         \A j \in DOMAIN bs : i < j => bs[j].kind \notin kinds
  PROVE  LastOf(bs, kinds) = i
<1> DEFINE at == {j \in DOMAIN bs : bs[j].kind \in kinds}
<1>1. i \in at /\ at \subseteq Nat /\ i \in Nat
  OBVIOUS
<1>2. \A j \in at : ~(i < j)
  OBVIOUS
<1> HIDE DEF at
<1>3. \A j \in at : j <= i
  BY <1>1, <1>2
<1>4. \A k \in at : (\A j \in at : j <= k) => k = i
  BY <1>1, <1>3
<1>5. (CHOOSE k \in at : \A j \in at : j <= k) = i
  BY <1>1, <1>3, <1>4
<1>6. QED
  BY <1>1, <1>5 DEF LastOf, at

\* A run that has ended.
Ended(b, state, output) ==
  IF b.kind = "tool" THEN [b EXCEPT !.state = state, !.output = output]
  ELSE [b EXCEPT !.state = state]

LEMMA CallEnded ==
  ASSUME NEW c, NEW state
  PROVE  Ended(Tool("tool", c, "running", None), state, c) = Tool("tool", c, state, c)
<1> DEFINE text == <<>>
           b == [kind |-> "tool", text |-> text, detail |-> c, state |-> "running", output |-> None]
<1>1. b = Tool("tool", c, "running", None) /\ b.kind = "tool"
  BY DEF Tool, Block
<1>2. /\ Tool("tool", c, state, c) =
            [kind |-> "tool", text |-> text, detail |-> c, state |-> state, output |-> c]
  BY DEF Tool, Block
<1> HIDE DEF text
<1>3. [b EXCEPT !.state = state, !.output = c] =
        [kind |-> "tool", text |-> text, detail |-> c, state |-> state, output |-> c]
  <2> DEFINE x == [b EXCEPT !.state = state]
             y == [x EXCEPT !.output = c]
  <2>1. [b EXCEPT !.state = state, !.output = c] = y
    OBVIOUS
  <2>2. x = [kind |-> "tool", text |-> text, detail |-> c, state |-> state, output |-> None]
    OBVIOUS
  <2> HIDE DEF x
  <2>3. y = [kind |-> "tool", text |-> text, detail |-> c, state |-> state, output |-> c]
    BY <2>2
  <2>4. QED
    BY <2>1, <2>3
<1>4. Ended(b, state, c) = [b EXCEPT !.state = state, !.output = c]
  BY <1>1 DEF Ended
<1>5. QED
  BY <1>1, <1>2, <1>3, <1>4

LEMMA ShellEnded ==
  ASSUME NEW b \in Blocks, b.kind = "shell", NEW state, NEW output
  PROVE  Ended(b, state, output).kind = "shell"
BY DEF Ended, Blocks, BlockOf

\* Only the latest run is updated.
LEMMA UpdateToolIs ==
  ASSUME NEW bs \in Seq(Blocks), NEW i, Latest(bs, i), NEW state, NEW output
  PROVE  /\ DOMAIN UpdateTool(bs, state, output) = DOMAIN bs
         /\ \A j \in DOMAIN bs : j # i => UpdateTool(bs, state, output)[j] = bs[j]
         /\ UpdateTool(bs, state, output)[i] = Ended(bs[i], state, output)
<1>1. i \in DOMAIN bs /\ LastOf(bs, Runs) = i /\ i # 0
  BY LastOfIs DEF Latest
<1>2. UpdateTool(bs, state, output) =
        IF bs[i].kind = "tool" THEN [bs EXCEPT ![i].state = state, ![i].output = output]
        ELSE [bs EXCEPT ![i].state = state]
  BY <1>1 DEF UpdateTool
<1>3. CASE bs[i].kind = "tool"
  BY <1>1, <1>2, <1>3 DEF Ended
<1>4. CASE bs[i].kind # "tool"
  BY <1>1, <1>2, <1>4 DEF Ended
<1>5. QED
  BY <1>3, <1>4

LEMMA ShellLineIs ==
  ASSUME NEW bs \in Seq(Blocks), NEW i, Latest(bs, i), bs[i].kind = "shell", NEW c \in Calls
  PROVE  /\ Latest(ShellLine(bs, c), i) /\ ShellLine(bs, c)[i].kind = "shell"
         /\ ToolsOf(ShellLine(bs, c)) = ToolsOf(bs)
<1> DEFINE cs == ShellLine(bs, c)
<1>1. \A j \in DOMAIN bs : i < j => bs[j].kind \notin {"shell"}
  BY DEF Latest, Runs
<1>2. i \in DOMAIN bs /\ LastOf(bs, {"shell"}) = i /\ i # 0
  BY <1>1, LastOfIs DEF Latest
<1>3. cs = [bs EXCEPT ![i].output = c]
  BY <1>2 DEF ShellLine
<1>4. DOMAIN cs = DOMAIN bs /\ \A j \in DOMAIN bs : j # i => cs[j] = bs[j]
  BY <1>2, <1>3
<1>5. cs[i].kind = bs[i].kind
  BY <1>2, ShellLineKinds DEF KindsKept
<1> HIDE DEF cs
<1>6. \A j \in DOMAIN bs : cs[j].kind = bs[j].kind
  BY <1>4, <1>5
<1>7. Latest(cs, i)
  BY <1>4, <1>6 DEF Latest
<1>8. ToolsOf(cs) = ToolsOf(bs)
  BY <1>4, <1>5 DEF ToolsOf
<1>9. QED
  BY <1>5, <1>7, <1>8 DEF cs

\* The end of a shell changes no call.
LEMMA ShellUpdated ==
  ASSUME NEW bs \in Seq(Blocks), NEW i, Latest(bs, i), bs[i].kind = "shell", NEW state, NEW output
  PROVE  /\ Latest(UpdateTool(bs, state, output), i)
         /\ UpdateTool(bs, state, output)[i].kind = "shell"
         /\ ToolsOf(UpdateTool(bs, state, output)) = ToolsOf(bs)
<1> DEFINE cs == UpdateTool(bs, state, output)
<1>1. /\ DOMAIN cs = DOMAIN bs /\ \A j \in DOMAIN bs : j # i => cs[j] = bs[j]
      /\ cs[i] = Ended(bs[i], state, output)
  BY UpdateToolIs
<1> HIDE DEF cs
<1>2. i \in DOMAIN bs /\ bs[i] \in Blocks
  BY DEF Latest
<1>3. cs[i].kind = "shell"
  BY <1>1, <1>2, ShellEnded
<1>4. \A j \in DOMAIN bs : cs[j].kind = bs[j].kind
  BY <1>1, <1>3
<1>5. Latest(cs, i)
  BY <1>1, <1>4 DEF Latest
<1>6. ToolsOf(cs) = ToolsOf(bs)
  BY <1>1, <1>3 DEF ToolsOf
<1>7. QED
  BY <1>3, <1>5, <1>6 DEF cs

\* The end of a call changes none that is over.
LEMMA CallUpdated ==
  ASSUME NEW bs \in Seq(Blocks), NEW i, Latest(bs, i), NEW c \in Calls,
         bs[i].kind = "shell" \/ bs[i] = Tool("tool", c, "running", None),
         NEW state \in {"done", "failed"}
  PROVE  /\ Settled(bs) \subseteq Settled(UpdateTool(bs, state, c))
         /\ Settled(UpdateTool(bs, state, c)) \subseteq Settled(bs) \cup {Tool("tool", c, state, c)}
<1> DEFINE cs == UpdateTool(bs, state, c)
<1>1. CASE bs[i].kind = "shell"
  BY <1>1, ShellUpdated DEF Settled
<1>2. CASE bs[i] = Tool("tool", c, "running", None)
  <2>1. bs[i].kind = "tool" /\ bs[i].state = "running" /\ i \in DOMAIN bs
    BY <1>2 DEF Tool, Block, Latest
  <2>2. Ended(bs[i], state, c) = Tool("tool", c, state, c)
    BY <1>2, CallEnded
  <2>3. /\ DOMAIN cs = DOMAIN bs /\ \A j \in DOMAIN bs : j # i => cs[j] = bs[j]
        /\ cs[i] = Tool("tool", c, state, c)
    BY <2>1, <2>2, UpdateToolIs
  <2> HIDE DEF cs
  <2>4. Settled(bs) \subseteq Settled(cs)
    BY <2>1, <2>3 DEF Settled, ToolsOf
  <2>5. Settled(cs) \subseteq Settled(bs) \cup {Tool("tool", c, state, c)}
    BY <2>1, <2>3 DEF Settled, ToolsOf
  <2>6. QED
    BY <2>4, <2>5 DEF cs
<1>3. QED
  BY <1>1, <1>2

-------------------------------------------------------------------------------
(* What the server makes of its messages *)

ToolItems(its) == {its[j] : j \in {k \in DOMAIN its : its[k].type = "tool"}}

LEMMA MessageItems ==
  ASSUME NEW m \in Messages
  PROVE  m.items \in ItemSeqs /\ m.items \in Seq(Items)
BY DEF Messages, ItemSeqs

LEMMA NoItems == <<>> \in ItemSeqs
<1>1. <<>> \in Seq(Items)
  <2> HIDE DEF Items
  <2>1. QED
    OBVIOUS
<1>2. QED
  BY <1>1 DEF ItemSeqs

LEMMA RecordedIs ==
  ASSUME NEW ms \in Seq(Messages)
  PROVE  \A it : it \in RecordedIn(ms) <=>
                   \E i \in 1..Len(ms) : ms[i].type = "assistant" /\ it \in ToolItems(ms[i].items)
<1>0. DOMAIN ms = 1..Len(ms) /\ \A i \in 1..Len(ms) : ms[i] \in Messages
  OBVIOUS
<1>1. \A i \in 1..Len(ms) : ms[i].items \in ItemSeqs
  BY <1>0, MessageItems
<1>2. DOMAIN ms = 1..Len(ms)
  BY <1>0
<1>3. \A its \in ItemSeqs : \A j \in DOMAIN its : its[j] \in Items
  BY DEF ItemSeqs
<1>4. QED
  BY <1>1, <1>2, <1>3 DEF RecordedIn, ToolItems

LEMMA MessageType ==
  ASSUME NEW type \in {"user", "assistant", "compacted", "compaction failed"}
  PROVE  Message(type, <<>>) \in Messages /\ Message(type, <<>>).type = type /\ Message(type, <<>>).items = <<>>
BY NoItems DEF Message, Messages

LEMMA MessageAdded ==
  ASSUME NEW ms \in Seq(Messages), NEW m \in Messages, m.type = "assistant" => m.items = <<>>
  PROVE  /\ Append(ms, m) \in Seq(Messages) /\ Append(ms, m) # <<>>
         /\ Append(ms, m)[Len(Append(ms, m))] = m
         /\ RecordedIn(Append(ms, m)) = RecordedIn(ms)
<1> DEFINE ns == Append(ms, m)
           L == Len(ms)
<1>1. /\ L \in Nat /\ ns \in Seq(Messages) /\ Len(ns) = L + 1 /\ ns[L + 1] = m /\ ns # <<>>
      /\ \A i \in 1..L : ns[i] = ms[i]
  OBVIOUS
<1> HIDE DEF ns
<1>2. m.type = "assistant" => ToolItems(m.items) = {}
  BY DEF ToolItems
<1>3. /\ \A i \in 1..L + 1 : i \in 1..L \/ i = L + 1
      /\ \A i \in 1..L : i \in 1..L + 1
  BY <1>1
<1>4. \A it : it \in RecordedIn(ns) <=> it \in RecordedIn(ms)
  <2>1. \A it : it \in RecordedIn(ns) <=>
                  \E i \in 1..L + 1 : ns[i].type = "assistant" /\ it \in ToolItems(ns[i].items)
    BY <1>1, RecordedIs
  <2>2. \A it : it \in RecordedIn(ms) <=>
                  \E i \in 1..L : ms[i].type = "assistant" /\ it \in ToolItems(ms[i].items)
    BY RecordedIs
  <2>3. QED
    BY <1>1, <1>2, <1>3, <2>1, <2>2
<1>5. RecordedIn(ns) = RecordedIn(ms)
  BY <1>4
<1>6. QED
  BY <1>1, <1>5 DEF ns

LEMMA ItemsReplaced ==
  ASSUME NEW ms \in Seq(Messages), ms # <<>>, ms[Len(ms)].type = "assistant",
         NEW its, its \in ItemSeqs, NEW X,
         ToolItems(its) = ToolItems(ms[Len(ms)].items) \cup X,
         NEW ns, ns = [ms EXCEPT ![Len(ms)].items = its]
  PROVE  /\ ns \in Seq(Messages) /\ ns # <<>> /\ ns[Len(ns)].type = "assistant"
         /\ RecordedIn(ns) = RecordedIn(ms) \cup X
<1> DEFINE L == Len(ms)
           m == [ms[L] EXCEPT !.items = its]
<1>1. L \in Nat /\ L \in 1..L /\ DOMAIN ms = 1..L /\ ms[L] \in Messages
  OBVIOUS
<1>2. m \in Messages /\ m.type = "assistant" /\ m.items = its
  BY <1>1 DEF Messages
<1>3. ns = [ms EXCEPT ![L] = m]
  OBVIOUS
<1> HIDE DEF m
<1>4. /\ DOMAIN ns = 1..L /\ ns[L] = m /\ \A i \in 1..L : i # L => ns[i] = ms[i]
      /\ \A i \in 1..L : ns[i] \in Messages
  BY <1>1, <1>2, <1>3
<1>5. ns \in Seq(Messages) /\ Len(ns) = L
  <2>1. ns \in [1..L -> Messages]
    BY <1>1, <1>2, <1>3
  <2>2. QED
    BY <1>1, <2>1
<1>6. \A it : it \in RecordedIn(ns) <=>
                \E i \in 1..L : ns[i].type = "assistant" /\ it \in ToolItems(ns[i].items)
  BY <1>5, RecordedIs
<1>7. \A it : it \in RecordedIn(ms) <=>
                \E i \in 1..L : ms[i].type = "assistant" /\ it \in ToolItems(ms[i].items)
  BY RecordedIs
<1>8. ToolItems(ns[L].items) = ToolItems(ms[L].items) \cup X /\ ns[L].type = "assistant" /\ ms[L].type = "assistant"
  BY <1>2, <1>4
<1> HIDE DEF L
<1>9. \A it : it \in RecordedIn(ns) <=> it \in RecordedIn(ms) \/ it \in X
  BY <1>1, <1>4, <1>6, <1>7, <1>8
<1>10. RecordedIn(ns) = RecordedIn(ms) \cup X
  BY <1>9
<1>11. ns # <<>> /\ ns[Len(ns)].type = "assistant"
  <2>1. Len(ns) # 0
    BY <1>1, <1>5
  <2>2. QED
    BY <1>2, <1>4, <1>5, <2>1
<1>12. QED
  BY <1>5, <1>10, <1>11

LEMMA ItemAdded ==
  ASSUME NEW ms \in Seq(Messages), ms # <<>>, ms[Len(ms)].type = "assistant", NEW item \in Items,
         NEW ns, ns = [ms EXCEPT ![Len(ms)].items = Append(@, item)]
  PROVE  /\ ns \in Seq(Messages) /\ ns # <<>> /\ ns[Len(ns)].type = "assistant"
         /\ item.type = "tool" => RecordedIn(ns) = RecordedIn(ms) \cup {item}
         /\ item.type # "tool" => RecordedIn(ns) = RecordedIn(ms)
<1> DEFINE its == ms[Len(ms)].items
           more == Append(its, item)
           X == IF item.type = "tool" THEN {item} ELSE {}
<1>1. its \in Seq(Items)
  <2>1. ms[Len(ms)] \in Messages
    OBVIOUS
  <2>2. QED
    BY <2>1, MessageItems
<1>2. ns = [ms EXCEPT ![Len(ms)].items = more]
  OBVIOUS
<1> HIDE DEF its
<1>3. more \in ItemSeqs
  BY <1>1 DEF ItemSeqs
<1>4. ToolItems(more) = ToolItems(its) \cup X
  <2> DEFINE L == Len(its)
  <2>1. /\ L \in Nat /\ DOMAIN its = 1..L /\ DOMAIN more = 1..L + 1 /\ more[L + 1] = item
        /\ \A i \in 1..L : more[i] = its[i]
    BY <1>1
  <2> HIDE DEF L, more
  <2>2. \A i : i \in 1..L + 1 <=> i \in 1..L \/ i = L + 1
    BY <2>1
  <2>3. QED
    BY <2>1, <2>2 DEF ToolItems
<1> HIDE DEF more, X
<1>5. /\ ns \in Seq(Messages) /\ ns # <<>> /\ ns[Len(ns)].type = "assistant"
      /\ RecordedIn(ns) = RecordedIn(ms) \cup X
  BY <1>2, <1>3, <1>4, ItemsReplaced DEF its
<1>6. QED
  BY <1>5 DEF X

LEMMA ItemExtended ==
  ASSUME NEW ms \in Seq(Messages), ms # <<>>, ms[Len(ms)].type = "assistant",
         ms[Len(ms)].items # <<>>, Last(ms[Len(ms)].items).type # "tool", NEW f \in Fragments,
         NEW ns, ns = [ms EXCEPT ![Len(ms)].items[Len(ms[Len(ms)].items)].text = Append(@, f)]
  PROVE  /\ ns \in Seq(Messages) /\ ns # <<>> /\ ns[Len(ns)].type = "assistant"
         /\ RecordedIn(ns) = RecordedIn(ms)
<1> DEFINE its == ms[Len(ms)].items
           L == Len(its)
           item == [its[L] EXCEPT !.text = Append(@, f)]
           more == [its EXCEPT ![L] = item]
<1>1. its \in Seq(Items) /\ its # <<>> /\ its[L].type # "tool"
  <2>1. ms[Len(ms)] \in Messages
    OBVIOUS
  <2>2. its \in Seq(Items)
    BY <2>1, MessageItems
  <2>3. QED
    BY <2>2 DEF Last
<1>2. ns = [ms EXCEPT ![Len(ms)].items = more]
  OBVIOUS
<1> HIDE DEF its
<1>3. L \in Nat /\ L \in 1..L /\ DOMAIN its = 1..L /\ its[L] \in Items
  BY <1>1
<1>4. item \in Items /\ item.type = its[L].type
  <2>1. its[L].text \in Seq(Fragments)
    BY <1>3 DEF Items, Texts
  <2>2. Append(its[L].text, f) \in Texts
    BY <2>1 DEF Texts
  <2>3. QED
    BY <1>3, <2>2 DEF Items
<1> HIDE DEF item
<1>5. more \in ItemSeqs
  <2>1. more \in [1..L -> Items]
    BY <1>1, <1>3, <1>4
  <2> HIDE DEF more, L
  <2>2. more \in Seq(Items)
    BY ONLY <1>3, <2>1
  <2>3. QED
    BY <2>2 DEF ItemSeqs
<1>6. ToolItems(more) = ToolItems(its) \cup {}
  <2>1. DOMAIN more = 1..L /\ more[L] = item /\ \A i \in 1..L : i # L => more[i] = its[i]
    BY <1>3
  <2> HIDE DEF more, L
  <2>2. QED
    BY <1>1, <1>3, <1>4, <2>1 DEF ToolItems
<1> HIDE DEF more
<1>7. /\ ns \in Seq(Messages) /\ ns # <<>> /\ ns[Len(ns)].type = "assistant"
      /\ RecordedIn(ns) = RecordedIn(ms) \cup {}
  <2> DEFINE X == {}
  <2>1. ToolItems(more) = ToolItems(its) \cup X
    BY <1>6
  <2>2. X = {}
    OBVIOUS
  <2> HIDE DEF X
  <2>3. RecordedIn(ms) \cup X = RecordedIn(ms) \cup {}
    BY <2>2
  <2>4. /\ ns \in Seq(Messages) /\ ns # <<>> /\ ns[Len(ns)].type = "assistant"
        /\ RecordedIn(ns) = RecordedIn(ms) \cup X
    BY <1>2, <1>5, <2>1, ItemsReplaced DEF its
  <2>5. QED
    BY <2>3, <2>4
<1>8. QED
  BY <1>7

SettledItem(it, c, status) == IF it.call = c THEN [it EXCEPT !.status = status] ELSE it

LEMMA SettleIs ==
  ASSUME msgs \in Seq(Messages), NEW c,
         NEW status \in {"streaming", "running", "completed", "error", "done", "exited"},
         Settle(c, status)
  PROVE  /\ msgs' \in Seq(Messages) /\ Len(msgs') = Len(msgs)
         /\ \A i \in 1..Len(msgs) : msgs'[i].type = msgs[i].type
         /\ RecordedIn(msgs') = {SettledItem(it, c, status) : it \in RecordedIn(msgs)}
<1> DEFINE L == Len(msgs)
           given(i) == [j \in DOMAIN msgs[i].items |-> SettledItem(msgs[i].items[j], c, status)]
<1>0. L \in Nat /\ DOMAIN msgs = 1..L /\ \A i \in 1..L : msgs[i] \in Messages
  OBVIOUS
<1>1. L \in Nat /\ DOMAIN msgs = 1..L /\ \A i \in 1..L : msgs[i] \in Messages /\ msgs[i].items \in Seq(Items)
  BY <1>0, MessageItems
<1>2. msgs' = [i \in 1..L |-> [msgs[i] EXCEPT !.items = given(i)]]
  BY <1>1 DEF Settle, SettledItem
<1>3. \A it \in Items : SettledItem(it, c, status) \in Items /\ SettledItem(it, c, status).type = it.type
  BY DEF SettledItem, Items
<1>4. ASSUME NEW i \in 1..L
      PROVE  /\ given(i) \in ItemSeqs /\ Len(given(i)) = Len(msgs[i].items)
             /\ ToolItems(given(i)) = {SettledItem(it, c, status) : it \in ToolItems(msgs[i].items)}
  <2> DEFINE its == msgs[i].items
             n == Len(its)
             after == [j \in DOMAIN its |-> SettledItem(its[j], c, status)]
  <2>1. its \in Seq(Items)
    BY <1>1
  <2> HIDE DEF its
  <2>2. n \in Nat /\ DOMAIN its = 1..n /\ \A j \in 1..n : its[j] \in Items
    BY <2>1
  <2>3. after \in [1..n -> Items]
    BY <1>3, <2>2
  <2>4. DOMAIN after = 1..n /\ \A j \in 1..n : after[j] = SettledItem(its[j], c, status)
    BY <2>2
  <2> HIDE DEF after
  <2>5. after \in ItemSeqs /\ Len(after) = n
    BY <2>2, <2>3 DEF ItemSeqs
  <2>6. ToolItems(after) = {SettledItem(it, c, status) : it \in ToolItems(its)}
    <3> HIDE DEF n
    <3>1. \A j \in 1..n : after[j].type = its[j].type
      BY <1>3, <2>2, <2>4
    <3>2. QED
      BY <2>2, <2>4, <3>1 DEF ToolItems
  <2>7. QED
    BY <2>5, <2>6 DEF after, its
<1>5. ASSUME NEW i \in 1..L
      PROVE  msgs'[i] \in Messages /\ msgs'[i].type = msgs[i].type /\ msgs'[i].items = given(i)
  <2> DEFINE m == msgs[i]
             its == given(i)
  <2>1. m \in Messages /\ its \in ItemSeqs /\ Len(its) = Len(m.items) /\ m.items \in Seq(Items)
    BY <1>1, <1>4
  <2>2. msgs'[i] = [m EXCEPT !.items = its]
    BY <1>2
  <2> HIDE DEF m, its
  <2>3. m.items # <<>> => its # <<>>
    BY <2>1 DEF ItemSeqs
  <2>4. msgs'[i] \in Messages /\ msgs'[i].type = m.type /\ msgs'[i].items = its
    BY <2>1, <2>2, <2>3 DEF Messages
  <2>5. QED
    BY <2>4 DEF m, its
<1>6. DOMAIN msgs' = 1..L
  BY <1>2
<1> HIDE DEF given
<1>7. msgs' \in Seq(Messages) /\ Len(msgs') = L
  <2>1. msgs' \in [1..L -> Messages]
    BY <1>2, <1>5
  <2>2. QED
    BY <1>1, <2>1
<1>8. /\ \A it : it \in RecordedIn(msgs') <=>
                   \E i \in 1..L : msgs'[i].type = "assistant" /\ it \in ToolItems(msgs'[i].items)
      /\ \A it : it \in RecordedIn(msgs) <=>
                   \E i \in 1..L : msgs[i].type = "assistant" /\ it \in ToolItems(msgs[i].items)
  BY <1>7, RecordedIs
<1>9. \A i \in 1..L : ToolItems(msgs'[i].items) =
                         {SettledItem(it, c, status) : it \in ToolItems(msgs[i].items)}
  BY <1>4, <1>5
<1>10. RecordedIn(msgs') = {SettledItem(it, c, status) : it \in RecordedIn(msgs)}
  <2>1. \A it \in RecordedIn(msgs) : SettledItem(it, c, status) \in RecordedIn(msgs')
    BY <1>5, <1>8, <1>9
  <2>2. ASSUME NEW it \in RecordedIn(msgs')
        PROVE  \E old \in RecordedIn(msgs) : it = SettledItem(old, c, status)
    <3>1. PICK i \in 1..L : msgs'[i].type = "assistant" /\ it \in ToolItems(msgs'[i].items)
      BY <1>8
    <3>2. PICK old \in ToolItems(msgs[i].items) : it = SettledItem(old, c, status)
      BY <1>9, <3>1
    <3>3. old \in RecordedIn(msgs)
      BY <1>5, <1>8, <3>1
    <3>4. QED
      BY <3>2, <3>3
  <2>3. QED
    BY <2>1, <2>2
<1>11. QED
  BY <1>5, <1>7, <1>10

-------------------------------------------------------------------------------
(* Steps that change no run *)

Quiet == blocks' \in Seq(Blocks) /\ SameRuns(blocks, blocks')

AtEnd(error) == IF error THEN Append(Retire(blocks), Note("error")) ELSE Retire(blocks)

LEMMA NoteAppended ==
  ASSUME NEW bs \in Seq(Blocks), NEW kind \in {"user", "notice", "error"}
  PROVE  /\ Append(bs, Note(kind)) \in Seq(Blocks) /\ SameRuns(bs, Append(bs, Note(kind)))
         /\ NoneExposed(Append(bs, Note(kind)))
<1> DEFINE b == Note(kind)
<1>1. b \in Blocks /\ b.kind \notin Runs /\ b.kind \notin Working \cup {"gate"}
  BY NoteType DEF Kinds, Runs, Working
<1> HIDE DEF b
<1>2. Append(bs, b) \in Seq(Blocks) /\ SameRuns(bs, Append(bs, b)) /\ NoneExposed(Append(bs, b))
  BY <1>1, AppendIs, AppendRuns, AppendCovers
<1>3. QED
  BY <1>2 DEF b

LEMMA AtEndIs ==
  ASSUME TypeInv, NEW error \in BOOLEAN
  PROVE  /\ AtEnd(error) \in Seq(Blocks) /\ SameRuns(blocks, AtEnd(error))
         /\ LastExposed(blocks) => NoneExposed(AtEnd(error))
<1>1. /\ Retire(blocks) \in Seq(Blocks) /\ SameRuns(blocks, Retire(blocks))
      /\ LastExposed(blocks) => NoneExposed(Retire(blocks))
  BY RetireIs, RetireRuns, RetireExposes DEF TypeInv
<1> DEFINE bs == Retire(blocks)
           cs == Append(bs, Note("error"))
<1>2. cs \in Seq(Blocks) /\ SameRuns(bs, cs) /\ NoneExposed(cs)
  BY <1>1, NoteAppended
<1>3. SameRuns(blocks, cs)
  BY <1>1, <1>2, SameRunsTwice
<1>4. QED
  BY <1>1, <1>2, <1>3 DEF AtEnd

LEMMA QuietSteps ==
  ASSUME TypeInv,
         \/ Prompt \/ ExecutionStarted \/ StepStarted
         \/ \E error \in BOOLEAN : StepEnded(error) \/ ExecutionEnded(error) \/ CompactionEnded(error)
         \/ \E kind \in {"assistant", "thinking"}, f \in Fragments, fresh \in BOOLEAN :
              Delta(kind, f, fresh)
         \/ CompactionStarted \/ Ask \/ Answer \/ Remark
  PROVE  Quiet
<1>1. blocks \in Seq(Blocks) /\ SameRuns(blocks, blocks)
  BY DEF TypeInv, SameRuns
<1>2. CASE Prompt
  BY <1>1, <1>2, NoteAppended DEF Prompt, Quiet
<1>3. CASE ExecutionStarted \/ StepStarted
  <2>1. blocks' = Push(blocks, Note("working")) /\ "working" \in Working
    BY <1>3 DEF ExecutionStarted, StepStarted, Working
  <2>2. QED
    BY <1>1, <2>1, PushIs, PushRuns DEF Quiet
<1>4. CASE CompactionStarted
  <2>1. blocks' = Push(blocks, Note("compacting")) /\ "compacting" \in Working
    BY <1>4 DEF CompactionStarted, Working
  <2>2. QED
    BY <1>1, <2>1, PushIs, PushRuns DEF Quiet
<1>5. ASSUME NEW error \in BOOLEAN, StepEnded(error) \/ ExecutionEnded(error) PROVE Quiet
  <2>1. blocks' = AtEnd(error)
    BY <1>5 DEF StepEnded, ExecutionEnded, AtEnd
  <2>2. QED
    BY <2>1, AtEndIs DEF Quiet
<1>6. ASSUME NEW error \in BOOLEAN, CompactionEnded(error) PROVE Quiet
  <2> DEFINE kind == IF error THEN "error" ELSE "notice"
             bs == Retire(blocks)
  <2>1. blocks' = Append(bs, Note(kind)) /\ kind \in {"user", "notice", "error"}
    BY <1>6 DEF CompactionEnded
  <2>2. bs \in Seq(Blocks) /\ SameRuns(blocks, bs)
    BY <1>1, RetireIs, RetireRuns
  <2> HIDE DEF kind, bs
  <2>3. blocks' \in Seq(Blocks) /\ SameRuns(bs, blocks')
    BY <2>1, <2>2, NoteAppended
  <2>4. SameRuns(blocks, blocks')
    BY <2>2, <2>3, SameRunsTwice
  <2>5. QED
    BY <2>3, <2>4 DEF Quiet
<1>7. ASSUME NEW kind \in {"assistant", "thinking"}, NEW f \in Fragments, NEW fresh \in BOOLEAN,
             Delta(kind, f, fresh)
      PROVE  Quiet
  <2>1. blocks' = blocks \/ blocks' = Chunk(blocks, kind, f)
    BY <1>7 DEF Delta
  <2>2. QED
    BY <1>1, <2>1, ChunkIs, ChunkRuns DEF Quiet
<1>8. CASE Ask
  <2>1. Note("gate") \in Blocks /\ Note("gate").kind \notin Runs
    BY NoteType DEF Kinds, Runs
  <2>2. blocks' = Append(blocks, Note("gate"))
    BY <1>8 DEF Ask
  <2>3. QED
    BY <1>1, <2>1, <2>2, AppendIs, AppendRuns DEF Quiet
<1>9. CASE Answer
  BY <1>1, <1>9, AnswerExposes, AnswerRuns DEF Answer, Quiet
<1>10. CASE Remark
  BY <1>1, <1>10, NoteAppended DEF Remark, Quiet
<1>11. QED
  BY <1>2, <1>3, <1>4, <1>5, <1>6, <1>7, <1>8, <1>9, <1>10

\* The messages of the steps that settle no call.
LEMMA MessageSteps ==
  ASSUME TypeInv, NEW type \in {"user", "assistant", "compacted", "compaction failed"},
         AddMessage(Message(type, <<>>))
  PROVE  /\ msgs' \in Seq(Messages) /\ msgs' # <<>> /\ msgs'[Len(msgs')].type = type
         /\ Recorded' = Recorded
<1> DEFINE m == Message(type, <<>>)
<1>1. msgs \in Seq(Messages) /\ msgs' = Append(msgs, m)
  BY DEF TypeInv, AddMessage
<1>2. m \in Messages /\ m.type = type /\ m.items = <<>>
  BY MessageType
<1> HIDE DEF m
<1>3. /\ Append(msgs, m) \in Seq(Messages) /\ Append(msgs, m) # <<>>
      /\ Append(msgs, m)[Len(Append(msgs, m))] = m
      /\ RecordedIn(Append(msgs, m)) = RecordedIn(msgs)
  BY <1>1, <1>2, MessageAdded
<1>4. QED
  BY <1>1, <1>2, <1>3 DEF Recorded

Writing == msgs # <<>> /\ msgs[Len(msgs)].type = "assistant"

LEMMA DeltaMessages ==
  ASSUME TypeInv, Writing, NEW kind \in {"assistant", "thinking"}, NEW f \in Fragments,
         NEW fresh \in BOOLEAN, Delta(kind, f, fresh)
  PROVE  msgs' \in Seq(Messages) /\ Writing' /\ Recorded' = Recorded
<1> DEFINE its == msgs[Len(msgs)].items
           item == Item(kind, <<f>>, None, None, "done")
<1>1. msgs \in Seq(Messages) /\ msgs # <<>> /\ msgs[Len(msgs)].type = "assistant"
  BY DEF TypeInv, Writing
<1>2. item \in Items /\ item.type # "tool"
  <2>1. <<f>> \in Texts
    BY DEF Texts
  <2>2. QED
    BY <2>1 DEF Item, Items, MaybeCalls
<1> HIDE DEF item
<1>3. CASE msgs' = [msgs EXCEPT ![Len(msgs)].items = Append(@, item)]
  BY <1>1, <1>2, <1>3, ItemAdded DEF Recorded, Writing
<1>4. CASE /\ its # <<>> /\ Last(its).type = kind
           /\ msgs' = [msgs EXCEPT ![Len(msgs)].items[Len(its)].text = Append(@, f)]
  <2>1. Last(its).type # "tool"
    BY <1>4
  <2>2. QED
    BY <1>1, <1>4, <2>1, ItemExtended DEF Recorded, Writing
<1>5. QED
  BY <1>3, <1>4 DEF Delta, AddItem, Current, item

LEMMA ToolInputMessages ==
  ASSUME TypeInv, Writing, NEW c \in Calls, NEW name \in Names, ToolInput(c, name)
  PROVE  /\ msgs' \in Seq(Messages) /\ Writing'
         /\ Item("tool", <<>>, c, name, "streaming") \in Items
         /\ Recorded' = Recorded \cup {Item("tool", <<>>, c, name, "streaming")}
<1> DEFINE item == Item("tool", <<>>, c, name, "streaming")
<1>1. msgs \in Seq(Messages) /\ msgs # <<>> /\ msgs[Len(msgs)].type = "assistant"
  BY DEF TypeInv, Writing
<1>2. item \in Items /\ item.type = "tool"
  <2>1. <<>> \in Texts
    BY DEF Texts
  <2>2. QED
    BY <2>1 DEF Item, Items, MaybeCalls
<1>3. msgs' = [msgs EXCEPT ![Len(msgs)].items = Append(@, item)]
  BY DEF ToolInput, AddItem, Current
<1> HIDE DEF item
<1>4. QED
  BY <1>1, <1>2, <1>3, ItemAdded DEF Recorded, Writing, item

LEMMA UserShellMessages ==
  ASSUME TypeInv, NEW c \in Calls, UserShellStarted(c)
  PROVE  msgs' \in Seq(Messages) /\ msgs' # <<>> /\ Recorded' = Recorded
<1> DEFINE item == Item("shell", <<>>, c, None, "running")
           its == <<item>>
           m == Message("shell", its)
<1>1. msgs \in Seq(Messages) /\ msgs' = Append(msgs, m)
  BY DEF TypeInv, UserShellStarted, AddMessage
<1>2. item \in Items
  <2>1. <<>> \in Texts
    BY DEF Texts
  <2>2. QED
    BY <2>1 DEF Item, Items, MaybeCalls
<1> HIDE DEF item
<1>3. its \in ItemSeqs /\ its # <<>>
  BY <1>2 DEF ItemSeqs
<1> HIDE DEF its
<1>4. m \in Messages /\ m.type = "shell"
  BY <1>3 DEF Message, Messages
<1> HIDE DEF m
<1>5. QED
  BY <1>1, <1>4, MessageAdded DEF Recorded

LEMMA ToolType ==
  ASSUME NEW kind \in Runs, NEW c \in Calls, NEW state \in {"running", "done", "failed"},
         NEW output \in MaybeCalls
  PROVE  Tool(kind, c, state, output) \in Blocks /\ Tool(kind, c, state, output).kind = kind
<1>1. <<>> \in Texts /\ kind \in Kinds /\ c \in MaybeCalls
  BY DEF Texts, Kinds, MaybeCalls
<1>2. QED
  BY <1>1, BlockType DEF Tool, Blocks, Block

-------------------------------------------------------------------------------
(* Where an indicator may be *)

Open(stages) == \E c \in Calls : open[c] \in stages
AtWork == Names \cup {"to run", "running", "called"}

\* Calls are made in the steps of a turn, to which an assistant message belongs.
PhaseInv ==
  /\ compacting => phase = "idle"
  /\ Open(AtWork) => phase = "step"
  /\ phase = "step" => Writing

\* A draft knows the tool of its call or, after a start of the program, nothing.
NamesInv ==
  \A c \in Calls : /\ open[c] = "unused" => names[c] = None
                   /\ open[c] \in Names => names[c] \in {None, open[c]}

\* Only the gates of a shell that is still to run may come after an indicator.
SpinnerInv ==
  /\ Open({"to run"}) \/ LastExposed(blocks)
  /\ Open({"running", "called"}) \/ (phase = "idle" /\ ~compacting) => NoneExposed(blocks)

ScreenInv == TypeInv /\ PhaseInv /\ NamesInv /\ SpinnerInv

LEMMA StageFacts ==
  /\ \A s \in Stages : s \notin Names
  /\ {"unused", "to run", "running", "called", "user", "over"} = Stages
  /\ None # Shell /\ Shell \in Names /\ None \notin Names
BY NamesAssumption DEF Stages

LEMMA NoneIsLast ==
  ASSUME NEW bs
  PROVE  NoneExposed(bs) => LastExposed(bs)
BY DEF NoneExposed, LastExposed

LEMMA SpinnerBy ==
  ASSUME NoneExposed(blocks')
  PROVE  SpinnerInv'
BY NoneIsLast DEF SpinnerInv

LEMMA InitScreen == Init => ScreenInv
<1> SUFFICES ASSUME Init PROVE ScreenInv
  OBVIOUS
<1>1. TypeInv
  <2>1. /\ <<>> \in Seq(Messages) /\ <<>> \in Seq(Blocks)
    OBVIOUS
  <2>2. QED
    BY <2>1 DEF Init, TypeInv, Stages
<1>2. PhaseInv /\ NamesInv
  BY StageFacts DEF Init, PhaseInv, NamesInv, Open, AtWork
<1>3. NoneExposed(blocks)
  BY DEF Init, NoneExposed, Exposed
<1>4. QED
  BY <1>1, <1>2, <1>3, NoneIsLast DEF ScreenInv, SpinnerInv

\* What no action of a turn touches.
LEMMA OpenSame ==
  ASSUME UNCHANGED open, NEW stages
  PROVE  Open(stages)' <=> Open(stages)
BY DEF Open

LEMMA TurnKeepsScreen ==
  ASSUME ScreenInv,
         \/ Prompt \/ ExecutionStarted \/ StepStarted
         \/ \E error \in BOOLEAN : StepEnded(error) \/ ExecutionEnded(error)
  PROVE  ScreenInv'
<1>0. TypeInv /\ PhaseInv /\ NamesInv /\ SpinnerInv /\ blocks \in Seq(Blocks)
  BY DEF ScreenInv, TypeInv
<1>1. blocks' \in Seq(Blocks)
  <2>1. Quiet
    BY <1>0, QuietSteps
  <2>2. QED
    BY <2>1 DEF Quiet
<1>2. /\ UNCHANGED <<open, names>>
      /\ clean' = clean
  BY DEF Prompt, ExecutionStarted, StepStarted, StepEnded, ExecutionEnded
<1>3. NamesInv'
  BY <1>0, <1>2 DEF NamesInv
<1>4. CASE Prompt
  <2>1. phase' = phase /\ compacting' = compacting /\ phase = "idle" /\ AddMessage(Message("user", <<>>))
        /\ blocks' = Append(blocks, Note("user"))
    BY <1>4 DEF Prompt, turn
  <2>2. msgs' \in Seq(Messages)
    BY <1>0, <2>1, MessageSteps
  <2>3. NoneExposed(blocks')
    BY <1>0, <2>1, NoteAppended
  <2>4. QED
    BY <1>0, <1>1, <1>2, <1>3, <2>1, <2>2, <2>3, SpinnerBy, OpenSame DEF ScreenInv, TypeInv, PhaseInv
<1>5. CASE ExecutionStarted
  <2>1. /\ phase = "idle" /\ ~compacting /\ phase' = "turn" /\ compacting' = compacting /\ msgs' = msgs
        /\ blocks' = Push(blocks, Note("working"))
    BY <1>5 DEF ExecutionStarted
  <2>2. NoneExposed(blocks) /\ ~Open(AtWork)
    BY <1>0, <2>1 DEF SpinnerInv, PhaseInv
  <2>3. LastExposed(blocks')
    BY <1>0, <2>1, <2>2, NoneIsLast, PushExposes DEF Working
  <2>4. ~Open({"running", "called"})'
    BY <1>2, <2>2 DEF Open, AtWork
  <2>5. QED
    BY <1>0, <1>1, <1>2, <1>3, <2>1, <2>2, <2>3, <2>4, OpenSame
    DEF ScreenInv, TypeInv, PhaseInv, SpinnerInv
<1>6. CASE StepStarted
  <2>1. /\ phase = "turn" /\ ~compacting /\ phase' = "step" /\ compacting' = compacting
        /\ AddMessage(Message("assistant", <<>>)) /\ blocks' = Push(blocks, Note("working"))
    BY <1>6 DEF StepStarted
  <2>2. ~Open(AtWork)
    BY <1>0, <2>1 DEF PhaseInv
  <2>3. ~Open({"to run"}) /\ ~Open({"running", "called"})
    BY <2>2 DEF Open, AtWork
  <2>4. LastExposed(blocks')
    BY <1>0, <2>1, <2>3, PushExposes DEF Working, SpinnerInv
  <2>5. msgs' \in Seq(Messages) /\ Writing'
    BY <1>0, <2>1, MessageSteps DEF Writing
  <2>6. QED
    BY <1>0, <1>1, <1>2, <1>3, <2>1, <2>3, <2>4, <2>5, OpenSame
    DEF ScreenInv, TypeInv, PhaseInv, SpinnerInv
<1>7. ASSUME NEW error \in BOOLEAN, StepEnded(error) \/ ExecutionEnded(error) PROVE ScreenInv'
  <2>1. /\ phase' \in {"idle", "turn"} /\ phase' # "step" /\ compacting' = compacting /\ msgs' = msgs
        /\ blocks' = AtEnd(error)
    BY <1>7 DEF StepEnded, ExecutionEnded, AtEnd
  <2>2. ~Open(AtWork)
    <3>1. CASE StepEnded(error)
      BY <3>1, StageFacts DEF StepEnded, Idle, Running, Open, AtWork, Stages
    <3>2. CASE ExecutionEnded(error)
      BY <1>0, <3>2 DEF ExecutionEnded, PhaseInv
    <3>3. QED
      BY <1>7, <3>1, <3>2
  <2>3. ~Open({"to run"})
    BY <2>2 DEF Open, AtWork
  <2>4. NoneExposed(blocks')
    BY <1>0, <2>1, <2>3, AtEndIs DEF SpinnerInv
  <2>5. compacting' => phase' = "idle"
    BY <1>0, <1>7, <2>1 DEF PhaseInv, StepEnded, ExecutionEnded
  <2>6. QED
    BY <1>0, <1>1, <1>2, <1>3, <2>1, <2>2, <2>4, <2>5, SpinnerBy, OpenSame
    DEF ScreenInv, TypeInv, PhaseInv
<1>8. QED
  BY <1>4, <1>5, <1>6, <1>7

LEMMA OtherKeepsScreen ==
  ASSUME ScreenInv,
         CompactionStarted \/ (\E error \in BOOLEAN : CompactionEnded(error))
           \/ Ask \/ Answer \/ Remark
  PROVE  ScreenInv'
<1>0. TypeInv /\ PhaseInv /\ NamesInv /\ SpinnerInv /\ blocks \in Seq(Blocks)
  BY DEF ScreenInv, TypeInv
<1>1. blocks' \in Seq(Blocks)
  <2>1. Quiet
    BY <1>0, QuietSteps
  <2>2. QED
    BY <2>1 DEF Quiet
<1>2. UNCHANGED <<phase, open, names>> /\ clean' = clean
  BY DEF CompactionStarted, CompactionEnded, Ask, Answer, Remark, turn
<1>3. NamesInv'
  BY <1>0, <1>2 DEF NamesInv
<1>4. CASE CompactionStarted
  <2>1. /\ phase = "idle" /\ ~compacting /\ compacting' = TRUE /\ msgs' = msgs
        /\ blocks' = Push(blocks, Note("compacting"))
    BY <1>4 DEF CompactionStarted
  <2>2. NoneExposed(blocks) /\ ~Open(AtWork)
    BY <1>0, <2>1 DEF SpinnerInv, PhaseInv
  <2>3. LastExposed(blocks')
    BY <1>0, <2>1, <2>2, NoneIsLast, PushExposes DEF Working
  <2>4. ~Open({"running", "called"})'
    BY <1>2, <2>2 DEF Open, AtWork
  <2>5. QED
    BY <1>0, <1>1, <1>2, <1>3, <2>1, <2>2, <2>3, <2>4, OpenSame
    DEF ScreenInv, TypeInv, PhaseInv, SpinnerInv
<1>5. ASSUME NEW error \in BOOLEAN, CompactionEnded(error) PROVE ScreenInv'
  <2> DEFINE kind == IF error THEN "error" ELSE "notice"
             type == IF error THEN "compaction failed" ELSE "compacted"
             bs == Retire(blocks)
  <2>1. /\ compacting /\ compacting' = FALSE /\ AddMessage(Message(type, <<>>))
        /\ blocks' = Append(bs, Note(kind)) /\ kind \in {"user", "notice", "error"}
        /\ type \in {"user", "assistant", "compacted", "compaction failed"}
    BY <1>5 DEF CompactionEnded
  <2>2. bs \in Seq(Blocks)
    BY <1>0, RetireIs
  <2> HIDE DEF kind, type, bs
  <2>3. NoneExposed(blocks')
    BY <2>1, <2>2, NoteAppended
  <2>4. msgs' \in Seq(Messages)
    BY <1>0, <2>1, MessageSteps
  <2>5. phase = "idle"
    BY <1>0, <2>1 DEF PhaseInv
  <2>6. QED
    BY <1>0, <1>1, <1>2, <1>3, <2>1, <2>3, <2>4, <2>5, SpinnerBy, OpenSame
    DEF ScreenInv, TypeInv, PhaseInv
<1>6. CASE Ask
  <2>1. /\ Open({"to run"}) \/ Open({"running", "called"})
        /\ UNCHANGED <<compacting, msgs>>
        /\ blocks' = Append(blocks, Note("gate"))
    BY <1>6 DEF Ask, Open, turn
  <2>2. Note("gate") \in Blocks /\ Note("gate").kind = "gate"
    BY NoteType DEF Kinds
  <2>3. NoneExposed(blocks) => NoneExposed(blocks')
    BY <1>0, <2>1, <2>2, GateExposes
  <2>4. SpinnerInv'
    BY <1>0, <1>2, <2>1, <2>3, NoneIsLast, OpenSame DEF SpinnerInv
  <2>5. QED
    BY <1>0, <1>1, <1>2, <1>3, <1>6, <2>4, OpenSame
    DEF ScreenInv, TypeInv, PhaseInv, Ask, turn, Writing
<1>7. CASE Answer
  <2>1. LastKind(blocks) = "gate" /\ UNCHANGED <<compacting, msgs>> /\ blocks' = Front(blocks)
    BY <1>7 DEF Answer, turn
  <2>2. /\ NoneExposed(blocks) => NoneExposed(blocks')
        /\ LastExposed(blocks) => NoneExposed(blocks')
    BY <1>0, <2>1, AnswerExposes
  <2>3. SpinnerInv'
    BY <1>0, <1>2, <2>1, <2>2, NoneIsLast, OpenSame DEF SpinnerInv
  <2>4. QED
    BY <1>0, <1>1, <1>2, <1>3, <2>1, <2>3, OpenSame DEF ScreenInv, TypeInv, PhaseInv, Writing
<1>8. CASE Remark
  <2>1. UNCHANGED <<compacting, msgs>> /\ blocks' = Append(blocks, Note("notice"))
    BY <1>8 DEF Remark, turn
  <2>2. NoneExposed(blocks')
    BY <1>0, <2>1, NoteAppended
  <2>3. QED
    BY <1>0, <1>1, <1>2, <1>3, <2>1, <2>2, SpinnerBy, OpenSame DEF ScreenInv, TypeInv, PhaseInv, Writing
<1>9. QED
  BY <1>4, <1>5, <1>6, <1>7, <1>8

LEMMA DeltaKeepsScreen ==
  ASSUME ScreenInv, NEW kind \in {"assistant", "thinking"}, NEW f \in Fragments,
         NEW fresh \in BOOLEAN, Delta(kind, f, fresh)
  PROVE  ScreenInv'
<1>0. TypeInv /\ PhaseInv /\ NamesInv /\ SpinnerInv /\ blocks \in Seq(Blocks)
  BY DEF ScreenInv, TypeInv
<1>1. /\ UNCHANGED <<phase, compacting, open, names>> /\ phase = "step"
      /\ clean' \in BOOLEAN /\ (blocks' = blocks \/ blocks' = Chunk(blocks, kind, f))
  BY <1>0 DEF Delta, turn, TypeInv
<1>2. msgs' \in Seq(Messages) /\ Writing'
  BY <1>0, <1>1, DeltaMessages DEF PhaseInv
<1>3. blocks' \in Seq(Blocks)
  BY <1>0, <1>1, ChunkIs
<1>4. SpinnerInv'
  <2>1. CASE blocks' = blocks
    BY <1>0, <1>1, <2>1, OpenSame DEF SpinnerInv
  <2>2. CASE blocks' = Chunk(blocks, kind, f)
    BY <1>0, <2>2, ChunkCovers, SpinnerBy
  <2>3. QED
    BY <1>1, <2>1, <2>2
<1>5. QED
  BY <1>0, <1>1, <1>2, <1>3, <1>4, OpenSame DEF ScreenInv, TypeInv, PhaseInv, NamesInv

\* A call moves: what the others are at stays.
LEMMA OpenMoved ==
  ASSUME TypeInv, NEW c \in Calls, NEW stage, open' = [open EXCEPT ![c] = stage], NEW stages
  PROVE  /\ open'[c] = stage /\ \A d \in Calls : d # c => open'[d] = open[d]
         /\ stage \notin stages /\ Open(stages)' => Open(stages)
         /\ stage \in stages => Open(stages)'
<1>1. open'[c] = stage /\ \A d \in Calls : d # c => open'[d] = open[d]
  BY DEF TypeInv
<1>2. QED
  BY <1>1 DEF Open

LEMMA ToolInputKeepsScreen ==
  ASSUME ScreenInv, NEW c \in Calls, NEW name \in Names, ToolInput(c, name)
  PROVE  ScreenInv'
<1>0. TypeInv /\ PhaseInv /\ NamesInv /\ SpinnerInv
  BY DEF ScreenInv
<1>1. /\ UNCHANGED <<phase, compacting, blocks>> /\ phase = "step" /\ open[c] = "unused"
      /\ open' = [open EXCEPT ![c] = name]
      /\ names' = [names EXCEPT ![c] = IF @ = None THEN name ELSE @]
      /\ clean' \in BOOLEAN
  BY <1>0 DEF ToolInput, turn, Fresh, Sequential, TypeInv
<1>2. msgs' \in Seq(Messages) /\ Writing'
  BY <1>0, <1>1, ToolInputMessages DEF PhaseInv
<1>3. /\ open'[c] = name /\ \A d \in Calls : d # c => open'[d] = open[d]
      /\ Open({"running", "called"})' => Open({"running", "called"})
  BY <1>0, <1>1, OpenMoved, StageFacts
<1>4. names'[c] = name /\ \A d \in Calls : d # c => names'[d] = names[d]
  BY <1>0, <1>1 DEF NamesInv, TypeInv
<1>5. NamesInv'
  BY <1>0, <1>3, <1>4, StageFacts DEF NamesInv
<1>6. Open({"to run"}) => Open({"to run"})'
  BY <1>1, <1>3 DEF Open
<1>7. SpinnerInv'
  BY <1>0, <1>1, <1>3, <1>6 DEF SpinnerInv
<1>8. TypeInv'
  BY <1>0, <1>1, <1>2 DEF TypeInv
<1>9. QED
  BY <1>0, <1>1, <1>2, <1>5, <1>7, <1>8 DEF ScreenInv, PhaseInv

\* A call that is not of the shell has a block as soon as it runs.
LEMMA ToolCalledKeepsScreen ==
  ASSUME ScreenInv, NEW c \in Calls, NEW named \in BOOLEAN, ToolCalled(c, named)
  PROVE  ScreenInv'
<1> DEFINE name == IF named THEN open[c] ELSE names[c]
           stage == IF open[c] = Shell THEN "to run" ELSE "called"
           b == Tool("tool", c, "running", None)
<1>0. TypeInv /\ PhaseInv /\ NamesInv /\ SpinnerInv /\ blocks \in Seq(Blocks)
  BY DEF ScreenInv, TypeInv
<1>1. /\ UNCHANGED <<phase, compacting, clean>> /\ open[c] \in Names
      /\ open' = [open EXCEPT ![c] = stage]
      /\ Settle(c, "running")
      /\ names' = [names EXCEPT ![c] = IF named THEN name ELSE @]
      /\ blocks' = IF name = Shell THEN blocks ELSE Append(blocks, b)
  BY DEF ToolCalled, turn
<1>2. phase = "step" /\ Writing
  BY <1>0, <1>1 DEF PhaseInv, Open, AtWork
<1>3. msgs' \in Seq(Messages) /\ Writing'
  <2>1. /\ msgs' \in Seq(Messages) /\ Len(msgs') = Len(msgs)
        /\ \A i \in 1..Len(msgs) : msgs'[i].type = msgs[i].type
    BY <1>0, <1>1, SettleIs DEF TypeInv
  <2>2. Len(msgs) \in 1..Len(msgs)
    BY <1>0, <1>2 DEF TypeInv, Writing
  <2>3. QED
    BY <1>2, <2>1, <2>2 DEF Writing
<1>4. stage \in {"to run", "called"} /\ stage \in Stages /\ stage \notin Names /\ stage # "unused"
  BY StageFacts
<1>5. name \in Names \cup {None} /\ names[c] \in {None, open[c]}
  BY <1>0, <1>1 DEF NamesInv, TypeInv
<1>6. b \in Blocks /\ b.kind = "tool"
  BY ToolType DEF Runs, MaybeCalls
<1>7. /\ open'[c] = stage /\ \A d \in Calls : d # c => open'[d] = open[d]
      /\ \A d \in Calls : d # c => names'[d] = names[d]
  BY <1>0, <1>1, OpenMoved DEF TypeInv
<1>8. TypeInv'
  <2>1. blocks' \in Seq(Blocks)
    BY <1>0, <1>1, <1>6, AppendIs
  <2>2. names' \in [Calls -> Names \cup {None}]
    BY <1>0, <1>1, <1>5 DEF TypeInv
  <2>3. open' \in [Calls -> Names \cup Stages]
    BY <1>0, <1>1, <1>4 DEF TypeInv
  <2>4. QED
    BY <1>0, <1>1, <1>3, <2>1, <2>2, <2>3 DEF TypeInv
<1>9. NamesInv'
  BY <1>0, <1>4, <1>7 DEF NamesInv
<1>10. PhaseInv'
  BY <1>0, <1>1, <1>2, <1>3 DEF PhaseInv
<1>11. SpinnerInv'
  <2>1. CASE name = Shell
    <3>1. open[c] = Shell /\ stage = "to run" /\ blocks' = blocks
      BY <1>1, <1>5, <2>1, StageFacts
    <3>2. Open({"to run"})'
      BY <1>7, <3>1 DEF Open
    <3>3. Open({"running", "called"})' => Open({"running", "called"})
      BY <1>7, <3>1 DEF Open
    <3>4. QED
      BY <1>0, <1>1, <3>1, <3>2, <3>3 DEF SpinnerInv
  <2>2. CASE name # Shell
    <3>1. NoneExposed(blocks')
      <4>1. b.kind \notin Working \cup {"gate"}
        BY <1>6 DEF Working
      <4>2. QED
        BY <1>0, <1>1, <1>6, <2>2, <4>1, AppendCovers
    <3>2. QED
      BY <3>1, SpinnerBy
  <2>3. QED
    BY <2>1, <2>2
<1>12. QED
  BY <1>8, <1>9, <1>10, <1>11 DEF ScreenInv

\* A call that moves on and covers the indicators, or finds them covered.
LEMMA CoveredKeepsScreen ==
  ASSUME ScreenInv, NEW c \in Calls, NEW stage \in {"running", "called", "user", "over"},
         UNCHANGED <<phase, compacting, names>>, clean' \in BOOLEAN,
         open' = [open EXCEPT ![c] = stage],
         stage \in {"running", "called"} => open[c] \in AtWork,
         msgs' \in Seq(Messages), phase = "step" => Writing',
         blocks' \in Seq(Blocks), NoneExposed(blocks')
  PROVE  ScreenInv'
<1>0. TypeInv /\ PhaseInv /\ NamesInv /\ SpinnerInv
  BY DEF ScreenInv
<1>1. stage \in Stages /\ stage \notin Names /\ stage # "unused"
  BY StageFacts
<1>2. open'[c] = stage /\ \A d \in Calls : d # c => open'[d] = open[d]
  BY <1>0, OpenMoved
<1>3. TypeInv'
  BY <1>0, <1>1 DEF TypeInv
<1>4. NamesInv'
  BY <1>0, <1>1, <1>2 DEF NamesInv
<1>5. Open(AtWork)' => Open(AtWork)
  BY <1>1, <1>2 DEF Open, AtWork
<1>6. PhaseInv'
  BY <1>0, <1>5 DEF PhaseInv
<1>7. QED
  BY <1>3, <1>4, <1>6, SpinnerBy DEF ScreenInv

LEMMA RunsKeepScreen ==
  ASSUME ScreenInv, NEW c \in Calls,
         \/ ShellCreated(c)
         \/ \E state \in {"done", "failed"} : ShellExited(c, state)
         \/ ToolSuccess(c) \/ ToolFailed(c)
         \/ UserShellStarted(c)
  PROVE  ScreenInv'
<1>0. /\ TypeInv /\ PhaseInv /\ NamesInv /\ SpinnerInv /\ blocks \in Seq(Blocks) /\ msgs \in Seq(Messages)
      /\ clean \in BOOLEAN
  BY DEF ScreenInv, TypeInv
<1>1. CASE ShellCreated(c)
  <2>1. /\ UNCHANGED <<phase, compacting, msgs, names, clean>> /\ open[c] = "to run"
        /\ open' = [open EXCEPT ![c] = "running"]
        /\ blocks' = Append(blocks, Tool("shell", c, "running", None))
    BY <1>1 DEF ShellCreated, turn
  <2>2. Tool("shell", c, "running", None) \in Blocks /\ Tool("shell", c, "running", None).kind = "shell"
    BY ToolType DEF Runs, MaybeCalls
  <2>3. blocks' \in Seq(Blocks) /\ NoneExposed(blocks')
    BY <1>0, <2>1, <2>2, AppendIs, AppendCovers DEF Working
  <2>4. phase = "step" => Writing'
    BY <1>0, <2>1 DEF PhaseInv, Writing
  <2>5. QED
    BY <1>0, <2>1, <2>3, <2>4, CoveredKeepsScreen DEF AtWork
<1>2. ASSUME NEW state \in {"done", "failed"}, ShellExited(c, state) PROVE ScreenInv'
  <2>1. /\ UNCHANGED <<phase, compacting, msgs, names, clean>> /\ open[c] = "running"
        /\ open' = [open EXCEPT ![c] = "called"]
        /\ blocks' = UpdateTool(blocks, state, None)
    BY <1>2 DEF ShellExited, turn
  <2>2. NoneExposed(blocks)
    BY <1>0, <2>1 DEF SpinnerInv, Open
  <2>3. blocks' \in Seq(Blocks) /\ NoneExposed(blocks')
    <3>1. KindsKept(blocks, blocks')
      BY <1>0, <2>1, UpdateToolKinds DEF MaybeCalls
    <3>2. QED
      BY <1>0, <2>2, <3>1, KindsKeptExposes DEF KindsKept
  <2>4. phase = "step" => Writing'
    BY <1>0, <2>1 DEF PhaseInv, Writing
  <2>5. QED
    BY <1>0, <2>1, <2>3, <2>4, CoveredKeepsScreen DEF AtWork
<1>3. ASSUME ToolSuccess(c) \/ ToolFailed(c) PROVE ScreenInv'
  <2>1. /\ UNCHANGED <<phase, compacting, names>> /\ clean' \in BOOLEAN
        /\ open[c] \in AtWork /\ open' = [open EXCEPT ![c] = "over"]
        /\ Settle(c, "completed") \/ Settle(c, "error")
        /\ \/ open[c] = "called" /\ blocks' = UpdateTool(blocks, "done", c)
           \/ blocks' = Append(UpdateTool(blocks, "failed", c), Note("error"))
    BY <1>0, <1>3 DEF ToolSuccess, ToolFailed, turn, AtWork
  <2>2. phase = "step" /\ Writing
    BY <1>0, <2>1 DEF PhaseInv, Open
  <2>3. blocks' \in Seq(Blocks) /\ NoneExposed(blocks')
    <3>1. ASSUME NEW state \in {"done", "failed"}
          PROVE  /\ UpdateTool(blocks, state, c) \in Seq(Blocks)
                 /\ NoneExposed(blocks) => NoneExposed(UpdateTool(blocks, state, c))
      <4>1. KindsKept(blocks, UpdateTool(blocks, state, c))
        BY <1>0, UpdateToolKinds DEF MaybeCalls
      <4>2. QED
        BY <1>0, <4>1, KindsKeptExposes DEF KindsKept
    <3>2. open[c] = "called" => NoneExposed(blocks)
      BY <1>0 DEF SpinnerInv, Open
    <3>3. QED
      BY <2>1, <3>1, <3>2, NoteAppended
  <2>4. msgs' \in Seq(Messages) /\ Writing'
    <3>1. /\ msgs' \in Seq(Messages) /\ Len(msgs') = Len(msgs)
          /\ \A i \in 1..Len(msgs) : msgs'[i].type = msgs[i].type
      BY <1>0, <2>1, SettleIs
    <3>2. Len(msgs) \in 1..Len(msgs)
      BY <1>0, <2>2 DEF Writing
    <3>3. QED
      BY <2>2, <3>1, <3>2 DEF Writing
  <2>5. QED
    BY <1>0, <2>1, <2>3, <2>4, CoveredKeepsScreen
<1>4. CASE UserShellStarted(c)
  <2>1. /\ UNCHANGED <<phase, compacting, names>> /\ open[c] = "unused" /\ phase # "step"
        /\ open' = [open EXCEPT ![c] = "user"]
        /\ blocks' = Append(blocks, Tool("shell", c, "running", None))
        /\ clean' \in BOOLEAN
    BY <1>0, <1>4 DEF UserShellStarted, turn, Fresh, Sequential
  <2>2. Tool("shell", c, "running", None) \in Blocks /\ Tool("shell", c, "running", None).kind = "shell"
    BY ToolType DEF Runs, MaybeCalls
  <2>3. blocks' \in Seq(Blocks) /\ NoneExposed(blocks')
    BY <1>0, <2>1, <2>2, AppendIs, AppendCovers DEF Working
  <2>4. msgs' \in Seq(Messages)
    BY <1>0, <1>4, UserShellMessages
  <2>5. QED
    BY <1>0, <2>1, <2>3, <2>4, CoveredKeepsScreen
<1>5. QED
  BY <1>1, <1>2, <1>3, <1>4

LEMMA UserShellEndedKeepsScreen ==
  ASSUME ScreenInv, NEW c \in Calls, UserShellEnded(c)
  PROVE  ScreenInv'
<1>0. /\ TypeInv /\ PhaseInv /\ NamesInv /\ SpinnerInv /\ blocks \in Seq(Blocks) /\ msgs \in Seq(Messages)
  BY DEF ScreenInv, TypeInv
<1>1. /\ UNCHANGED <<phase, compacting, names, clean>> /\ open[c] = "user"
      /\ open' = [open EXCEPT ![c] = "over"] /\ Settle(c, "exited")
      /\ blocks' = UpdateTool(ShellLine(blocks, c), "done", None)
  BY DEF UserShellEnded, turn
<1>2. /\ blocks' \in Seq(Blocks)
      /\ NoneExposed(blocks) => NoneExposed(blocks')
      /\ LastExposed(blocks) => LastExposed(blocks')
  <2> DEFINE bs == ShellLine(blocks, c)
  <2>1. KindsKept(blocks, bs)
    BY <1>0, ShellLineKinds
  <2>2. bs \in Seq(Blocks)
    BY <2>1 DEF KindsKept
  <2>3. /\ NoneExposed(blocks) => NoneExposed(bs)
        /\ LastExposed(blocks) => LastExposed(bs)
    BY <1>0, <2>1, KindsKeptExposes
  <2> HIDE DEF bs
  <2>4. KindsKept(bs, UpdateTool(bs, "done", None))
    BY <2>2, UpdateToolKinds DEF MaybeCalls
  <2> DEFINE cs == UpdateTool(bs, "done", None)
  <2>5. blocks' = cs
    BY <1>1 DEF bs
  <2>6. KindsKept(bs, cs)
    BY <2>4
  <2> HIDE DEF cs
  <2>7. cs \in Seq(Blocks) /\ (NoneExposed(bs) => NoneExposed(cs)) /\ (LastExposed(bs) => LastExposed(cs))
    BY <2>2, <2>6, KindsKeptExposes DEF KindsKept
  <2>8. QED
    BY <2>3, <2>5, <2>7
<1>3. msgs' \in Seq(Messages) /\ (Writing => Writing')
  <2>1. /\ msgs' \in Seq(Messages) /\ Len(msgs') = Len(msgs)
        /\ \A i \in 1..Len(msgs) : msgs'[i].type = msgs[i].type
    BY <1>0, <1>1, SettleIs
  <2>2. ASSUME Writing PROVE Writing'
    <3>1. Len(msgs) \in 1..Len(msgs)
      BY <1>0, <2>2 DEF Writing
    <3>2. QED
      BY <2>1, <2>2, <3>1 DEF Writing
  <2>3. QED
    BY <2>1, <2>2
<1>4. open'[c] = "over" /\ \A d \in Calls : d # c => open'[d] = open[d]
  BY <1>0, <1>1, OpenMoved
<1>5. /\ Open(AtWork)' => Open(AtWork)
      /\ Open({"running", "called"})' => Open({"running", "called"})
      /\ Open({"to run"}) => Open({"to run"})'
  BY <1>1, <1>4, StageFacts DEF Open, AtWork
<1>6. TypeInv'
  BY <1>0, <1>1, <1>2, <1>3 DEF TypeInv, Stages
<1>7. NamesInv'
  BY <1>0, <1>1, <1>4, StageFacts DEF NamesInv
<1>8. PhaseInv'
  BY <1>0, <1>1, <1>3, <1>5 DEF PhaseInv
<1>9. SpinnerInv'
  BY <1>0, <1>1, <1>2, <1>5 DEF SpinnerInv
<1>10. QED
  BY <1>6, <1>7, <1>8, <1>9 DEF ScreenInv

\* History has no indicator.
LEMMA ReopenKeepsScreen ==
  ASSUME ScreenInv, Reopen
  PROVE  ScreenInv'
<1>0. TypeInv /\ PhaseInv /\ NamesInv /\ SpinnerInv
  BY DEF ScreenInv
<1>1. /\ UNCHANGED <<phase, compacting, msgs, open>> /\ blocks' = History
      /\ names' = [c \in Calls |-> None] /\ clean' \in BOOLEAN
  BY <1>0 DEF Reopen, turn, Sequential, TypeInv
<1>2. History \in Seq(HistoryBlocks)
  BY <1>0, HistoryType DEF Pieces
<1>3. \A b \in HistoryBlocks : b \in Blocks /\ b.kind \notin Working
  BY DEF HistoryBlocks, Blocks, BlockOf
<1>4. blocks' \in Seq(Blocks) /\ NoneExposed(blocks')
  <2> DEFINE h == History
  <2>1. h \in Seq(HistoryBlocks) /\ blocks' = h
    BY <1>1, <1>2
  <2> HIDE DEF h
  <2>2. \A i \in DOMAIN h : h[i] \in HistoryBlocks
    BY <2>1
  <2>3. h \in [1..Len(h) -> Blocks] /\ Len(h) \in Nat
    BY <1>3, <2>1, <2>2
  <2>4. h \in Seq(Blocks)
    BY ONLY <2>3
  <2>5. QED
    BY <1>3, <2>1, <2>2, <2>4 DEF NoneExposed, Exposed
<1>5. TypeInv' /\ NamesInv'
  BY <1>0, <1>1, <1>4 DEF TypeInv, NamesInv
<1>6. PhaseInv'
  BY <1>0, <1>1, OpenSame DEF PhaseInv, Writing
<1>7. QED
  BY <1>4, <1>5, <1>6, SpinnerBy DEF ScreenInv

LEMMA ScreenKept == ScreenInv /\ [Next]_vars => ScreenInv'
<1> SUFFICES ASSUME ScreenInv, [Next]_vars PROVE ScreenInv'
  OBVIOUS
<1>1. CASE UNCHANGED vars
  BY <1>1, OpenSame
  DEF vars, turn, bounds, ScreenInv, TypeInv, PhaseInv, NamesInv, SpinnerInv, Writing
<1>2. CASE \/ Prompt \/ ExecutionStarted \/ StepStarted
           \/ \E error \in BOOLEAN : StepEnded(error) \/ ExecutionEnded(error)
  BY <1>2, TurnKeepsScreen
<1>3. CASE CompactionStarted \/ (\E error \in BOOLEAN : CompactionEnded(error))
             \/ Ask \/ Answer \/ Remark
  BY <1>3, OtherKeepsScreen
<1>4. ASSUME NEW c \in Calls, \/ \E name \in Names : ToolInput(c, name)
                              \/ \E named \in BOOLEAN : ToolCalled(c, named)
                              \/ UserShellEnded(c)
      PROVE  ScreenInv'
  BY <1>4, ToolInputKeepsScreen, ToolCalledKeepsScreen, UserShellEndedKeepsScreen
<1>5. ASSUME NEW c \in Calls, \/ ShellCreated(c)
                              \/ \E state \in {"done", "failed"} : ShellExited(c, state)
                              \/ ToolSuccess(c) \/ ToolFailed(c)
                              \/ UserShellStarted(c)
      PROVE  ScreenInv'
  BY <1>5, RunsKeepScreen
<1>6. QED
  BY <1>1, <1>2, <1>3, <1>4, <1>5, DeltaKeepsScreen, ReopenKeepsScreen DEF Next

\* Out of a turn the transcript does not end in a working indicator, whatever calls, gates,
\* remarks and readings of the history came in it (WorkLabel and Push of apply_event).
THEOREM NoIdleSpinnerHolds == Spec => []NoIdleSpinner
<1>1. ScreenInv => NoIdleSpinner
  <2> SUFFICES ASSUME ScreenInv, phase = "idle", ~compacting, LastKind(blocks) \in Working
               PROVE  FALSE
    BY DEF NoIdleSpinner
  <2>1. NoneExposed(blocks) /\ blocks \in Seq(Blocks)
    BY DEF ScreenInv, SpinnerInv, TypeInv
  <2>2. Len(blocks) \in Nat \ {0} /\ blocks[Len(blocks)].kind \in Working
    BY <2>1, LastKindIs DEF Kinds
  <2>3. Exposed(blocks, Len(blocks))
    BY <2>1, <2>2 DEF Exposed
  <2>4. QED
    BY <2>1, <2>3 DEF NoneExposed
<1>2. QED
  BY <1>1, InitScreen, ScreenKept, PTL DEF Spec

-------------------------------------------------------------------------------
(* Where the result of a call goes *)

Active == {"streaming", "running"}

OneCall == \A c, d \in Calls : Running(c) /\ Running(d) => c = d

\* A draft that is filled knows the tool of its call.
KnownCall == \A c \in Calls : open[c] \in Names => names[c] = open[c]

\* The latest run is the call's own, or the shell that it ran.
ItsRun ==
  \A c \in Calls :
    /\ open[c] \in {"running", "user"} => \E i : Latest(blocks, i) /\ blocks[i].kind = "shell"
    /\ open[c] = "called" =>
         \E i : /\ Latest(blocks, i)
                /\ blocks[i].kind = "shell" \/ blocks[i] = Tool("tool", c, "running", None)

\* The server has recorded each call that is at work, and what it has settled is over.
ItsItem ==
  /\ \A c \in Calls : open[c] \in AtWork => \E it \in Recorded : it.call = c
  /\ \A it \in Recorded : /\ it.call \in Calls
                          /\ it.status \in Active \/ open[it.call] = "over"

Read == {HistoryTool(it) : it \in Recorded}

CallsInv ==
  clean => OneCall /\ KnownCall /\ ItsRun /\ ItsItem /\ Settled(blocks) \subseteq Read

\* What every step does: it keeps the invariant and each call that is over.
Stays == clean' => Settled(blocks) \subseteq Settled(blocks')

LEMMA HistoryToolIs ==
  ASSUME NEW it
  PROVE  /\ it.status \in Active => HistoryTool(it).state = "running"
         /\ it.status = "completed" => HistoryTool(it) = Tool("tool", it.call, "done", it.call)
         /\ it.status = "error" => HistoryTool(it) = Tool("tool", it.call, "failed", it.call)
<1>1. CASE it.status \in Active
  BY <1>1 DEF HistoryTool, Tool, Block, Active
<1>2. CASE it.status = "completed"
  BY <1>2 DEF HistoryTool, Tool, Block, Active
<1>3. CASE it.status = "error"
  BY <1>3 DEF HistoryTool, Tool, Block, Active
<1>4. CASE it.status \notin {"streaming", "running", "completed", "error"}
  BY <1>4 DEF Active
<1>5. QED
  BY <1>1, <1>2, <1>3, <1>4 DEF Active

LEMMA InitCalls == Init => CallsInv
<1> SUFFICES ASSUME Init PROVE CallsInv
  OBVIOUS
<1>1. \A c \in Calls : open[c] = "unused"
  BY DEF Init
<1>2. Recorded = {} /\ Settled(blocks) = {}
  BY DEF Init, Recorded, RecordedIn, Settled, ToolsOf
<1>3. OneCall /\ KnownCall /\ ItsRun /\ ItsItem
  BY <1>1, <1>2, StageFacts DEF OneCall, KnownCall, ItsRun, ItsItem, Running, AtWork
<1>4. QED
  BY <1>2, <1>3 DEF CallsInv

\* A step that changes no run and settles nothing.
LEMMA QuietKeepsCalls ==
  ASSUME CallsInv, UNCHANGED <<open, names>>, Recorded' = Recorded, SameRuns(blocks, blocks'),
         clean' => clean
  PROVE  CallsInv' /\ Stays
<1> SUFFICES ASSUME clean' PROVE CallsInv' /\ Settled(blocks) \subseteq Settled(blocks')
  BY DEF CallsInv, Stays
<1>1. OneCall /\ KnownCall /\ ItsRun /\ ItsItem /\ Settled(blocks) \subseteq Read
  BY DEF CallsInv
<1>2. OneCall' /\ KnownCall' /\ ItsItem' /\ Read' = Read
  BY <1>1 DEF OneCall, KnownCall, ItsItem, Read, Running
<1>3. Settled(blocks') = Settled(blocks)
  BY DEF SameRuns, Settled
<1>4. ItsRun'
  BY <1>1 DEF ItsRun, SameRuns
<1>5. QED
  BY <1>1, <1>2, <1>3, <1>4 DEF CallsInv

LEMMA RunAppendedSettles ==
  ASSUME NEW bs \in Seq(Blocks), NEW b \in Blocks, b.kind = "shell" \/ b.state = "running"
  PROVE  Settled(Append(bs, b)) = Settled(bs)
<1> DEFINE cs == Append(bs, b)
           L == Len(bs)
<1>1. /\ L \in Nat /\ DOMAIN cs = 1..L + 1 /\ DOMAIN bs = 1..L /\ cs[L + 1] = b
      /\ \A i \in 1..L : cs[i] = bs[i]
  BY AppendIs
<1>2. \A i : i \in 1..L + 1 <=> i \in 1..L \/ i = L + 1
  BY <1>1
<1> HIDE DEF cs, L
<1>3. QED
  BY <1>1, <1>2 DEF Settled, ToolsOf, cs

\* A call that the server has recorded as it now stands.
RecordedAs(its, c, status) == \E it \in its : it.call = c /\ it.status = status

\* A call that goes on, or ends, changes no item that is settled.
LEMMA CallSettled ==
  ASSUME TypeInv, ItsItem, NEW c \in Calls, open[c] # "over",
         NEW stage \in Stages, open' = [open EXCEPT ![c] = stage],
         NEW status \in {"running", "completed", "error", "exited"}, Settle(c, status),
         status = "running" \/ stage = "over",
         stage \in AtWork => open[c] \in AtWork
  PROVE  /\ ItsItem' /\ (Settled(blocks) \subseteq Read => Settled(blocks) \subseteq Read')
         /\ open[c] \in AtWork => RecordedAs(Recorded', c, status)
<1>1. open'[c] = stage /\ \A d \in Calls : d # c => open'[d] = open[d]
  BY OpenMoved
<1>2. Recorded' = {SettledItem(it, c, status) : it \in Recorded}
  <2>1. RecordedIn(msgs') = {SettledItem(it, c, status) : it \in RecordedIn(msgs)}
    BY SettleIs DEF TypeInv
  <2>2. QED
    BY <2>1 DEF Recorded
<1>3. \A it \in Recorded : /\ it.call # c => SettledItem(it, c, status) = it
                           /\ SettledItem(it, c, status).call = it.call
                           /\ it.call = c => SettledItem(it, c, status).status = status
  <2>1. \A it \in Recorded : it \in Items
    BY DEF Recorded, RecordedIn
  <2>2. QED
    BY <2>1 DEF SettledItem, Items
<1>4. \A it \in Recorded : it.call # c => it \in Recorded'
  BY <1>2, <1>3
<1>5. \A it \in Recorded : it.call = c => \E new \in Recorded' : new.call = c /\ new.status = status
  BY <1>2, <1>3
<1>6. \A new \in Recorded' : \/ new \in Recorded /\ new.call # c
                             \/ new.call = c /\ new.status = status
  BY <1>2, <1>3
<1>7. ItsItem'
  <2>1. ASSUME NEW d \in Calls, open'[d] \in AtWork PROVE \E it \in Recorded' : it.call = d
    <3>1. open[d] \in AtWork
      BY <1>1, <2>1
    <3>2. PICK it \in Recorded : it.call = d
      BY <3>1 DEF ItsItem
    <3>3. QED
      BY <1>4, <1>5, <3>2
  <2>2. ASSUME NEW it \in Recorded'
        PROVE  it.call \in Calls /\ (it.status \in Active \/ open'[it.call] = "over")
    <3>1. CASE it \in Recorded /\ it.call # c
      BY <1>1, <3>1 DEF ItsItem
    <3>2. CASE it.call = c /\ it.status = status
      BY <1>1, <3>2 DEF Active
    <3>3. QED
      BY <1>6, <3>1, <3>2
  <2>3. QED
    BY <2>1, <2>2 DEF ItsItem
<1>8. ASSUME Settled(blocks) \subseteq Read, NEW b \in Settled(blocks) PROVE b \in Read'
  <2>1. PICK it \in Recorded : b = HistoryTool(it)
    BY <1>8 DEF Read
  <2>2. it.status \notin Active
    BY <2>1, HistoryToolIs DEF Settled
  <2>3. it \in Recorded'
    BY <1>4, <2>2 DEF ItsItem
  <2>4. QED
    BY <2>1, <2>3 DEF Read
<1>9. open[c] \in AtWork => RecordedAs(Recorded', c, status)
  BY <1>5 DEF ItsItem, RecordedAs
<1>10. QED
  BY <1>7, <1>8, <1>9

\* The one call that is at work moves on.
LEMMA CallMoved ==
  ASSUME TypeInv, OneCall, KnownCall, NEW c \in Calls, Running(c),
         NEW stage \in Stages, open' = [open EXCEPT ![c] = stage],
         \A d \in Calls : d # c => names'[d] = names[d],
         ItsItem', Settled(blocks') \subseteq Read',
         stage \in {"running", "user"} => \E i : Latest(blocks', i) /\ blocks'[i].kind = "shell",
         stage = "called" =>
           \E i : /\ Latest(blocks', i)
                  /\ blocks'[i].kind = "shell" \/ blocks'[i] = Tool("tool", c, "running", None)
  PROVE  CallsInv'
<1>1. open'[c] = stage /\ \A d \in Calls : d # c => open'[d] = open[d]
  BY OpenMoved
<1>2. stage \notin Names
  BY StageFacts
<1>3. \A d \in Calls : Running(d)' => d = c
  BY <1>1 DEF OneCall, Running
<1>4. OneCall'
  BY <1>3 DEF OneCall
<1>5. KnownCall'
  BY <1>1, <1>2 DEF KnownCall
<1>6. ItsRun'
  <2>1. ASSUME NEW d \in Calls, open'[d] \in {"running", "user", "called"} PROVE d = c /\ open'[d] = stage
    BY <1>1, <1>3, <2>1 DEF Running
  <2>2. QED
    BY <2>1 DEF ItsRun
<1>7. QED
  BY <1>4, <1>5, <1>6 DEF CallsInv

LEMMA ToolInputKeepsCalls ==
  ASSUME ScreenInv, CallsInv, NEW c \in Calls, NEW name \in Names, ToolInput(c, name)
  PROVE  CallsInv' /\ Stays
<1> SUFFICES ASSUME clean' PROVE CallsInv' /\ Settled(blocks) \subseteq Settled(blocks')
  BY DEF CallsInv, Stays
<1>0. TypeInv /\ PhaseInv /\ NamesInv
  BY DEF ScreenInv
<1>1. /\ UNCHANGED <<phase, compacting, blocks>> /\ phase = "step" /\ open[c] = "unused"
      /\ open' = [open EXCEPT ![c] = name]
      /\ names' = [names EXCEPT ![c] = IF @ = None THEN name ELSE @]
      /\ clean /\ Idle
  BY DEF ToolInput, turn, Fresh, Sequential
<1>2. ItsItem /\ Settled(blocks) \subseteq Read
  BY <1>1 DEF CallsInv
<1>3. /\ open'[c] = name /\ \A d \in Calls : d # c => open'[d] = open[d]
  BY <1>0, <1>1, OpenMoved
<1>4. \A d \in Calls : d # c => open'[d] \in {"unused", "over"}
  BY <1>1, <1>3 DEF Idle, Running
<1>5. names'[c] = name
  BY <1>0, <1>1 DEF NamesInv, TypeInv
<1>6. OneCall'
  BY <1>4 DEF OneCall, Running
<1>7. KnownCall'
  BY <1>3, <1>4, <1>5, StageFacts DEF KnownCall
<1>8. ItsRun'
  BY <1>3, <1>4, StageFacts DEF ItsRun
<1> DEFINE item == Item("tool", <<>>, c, name, "streaming")
<1>9. Recorded' = Recorded \cup {item}
  BY <1>0, <1>1, ToolInputMessages DEF PhaseInv
<1>10. item.call = c /\ item.status = "streaming"
  BY DEF Item
<1> HIDE DEF item
<1>11. ItsItem'
  <2>1. \A d \in Calls : open'[d] \in AtWork => \E it \in Recorded' : it.call = d
    BY <1>3, <1>4, <1>9, <1>10, StageFacts DEF AtWork
  <2>2. \A it \in Recorded : it.call \in Calls /\ (it.status \in Active \/ open[it.call] = "over")
    BY <1>2 DEF ItsItem
  <2>3. \A it \in Recorded' : it.call \in Calls /\ (it.status \in Active \/ open'[it.call] = "over")
    BY <1>1, <1>3, <1>9, <1>10, <2>2 DEF Active
  <2>4. QED
    BY <2>1, <2>3 DEF ItsItem
<1>12. Read \subseteq Read'
  BY <1>9 DEF Read
<1>13. QED
  BY <1>1, <1>2, <1>6, <1>7, <1>8, <1>11, <1>12 DEF CallsInv

LEMMA ToolCalledKeepsCalls ==
  ASSUME ScreenInv, CallsInv, NEW c \in Calls, NEW named \in BOOLEAN, ToolCalled(c, named)
  PROVE  CallsInv' /\ Stays
<1> DEFINE name == IF named THEN open[c] ELSE names[c]
           stage == IF open[c] = Shell THEN "to run" ELSE "called"
           b == Tool("tool", c, "running", None)
<1>1. /\ UNCHANGED <<phase, compacting, clean>> /\ open[c] \in Names
      /\ open' = [open EXCEPT ![c] = stage]
      /\ Settle(c, "running")
      /\ names' = [names EXCEPT ![c] = IF named THEN name ELSE @]
      /\ blocks' = IF name = Shell THEN blocks ELSE Append(blocks, b)
  BY DEF ToolCalled, turn
<1> SUFFICES ASSUME clean PROVE CallsInv' /\ Settled(blocks) \subseteq Settled(blocks')
  BY <1>1 DEF CallsInv, Stays
<1>2. OneCall /\ KnownCall /\ ItsItem /\ Settled(blocks) \subseteq Read
  BY DEF CallsInv
<1>3. TypeInv /\ blocks \in Seq(Blocks)
  BY DEF ScreenInv, TypeInv
<1>4. name = open[c]
  BY <1>1, <1>2 DEF KnownCall
<1>5. Running(c) /\ open[c] # "over" /\ open[c] \in AtWork
  BY <1>1, StageFacts DEF Running, AtWork
<1>6. stage \in Stages
  BY StageFacts
<1>7. ItsItem' /\ Settled(blocks) \subseteq Read'
  BY <1>1, <1>2, <1>3, <1>5, <1>6, CallSettled
<1>8. \A d \in Calls : d # c => names'[d] = names[d]
  BY <1>1, <1>3 DEF TypeInv
<1>9. b \in Blocks /\ b.kind = "tool" /\ b.state = "running"
  BY ToolType DEF Runs, MaybeCalls, Tool, Block
<1>10. Settled(blocks') = Settled(blocks)
  BY <1>1, <1>3, <1>9, RunAppendedSettles
<1>11. stage = "called" => \E i : Latest(blocks', i) /\ blocks'[i] = b
  BY <1>1, <1>3, <1>4, <1>9, RunAppended DEF Runs
<1>12. stage \notin {"running", "user"}
  OBVIOUS
<1> HIDE DEF name, stage
<1>13. CallsInv'
  BY <1>1, <1>2, <1>3, <1>5, <1>6, <1>7, <1>8, <1>10, <1>11, <1>12, CallMoved
<1>14. QED
  BY <1>10, <1>13

\* A shell starts for a call, or ends.
LEMMA ShellKeepsCalls ==
  ASSUME ScreenInv, CallsInv, NEW c \in Calls,
         ShellCreated(c) \/ \E state \in {"done", "failed"} : ShellExited(c, state)
  PROVE  CallsInv' /\ Stays
<1>1. /\ UNCHANGED <<msgs, names, clean>>
      /\ open[c] \in {"to run", "running"}
      /\ \E stage \in {"running", "called"} : open' = [open EXCEPT ![c] = stage]
  BY DEF ShellCreated, ShellExited
<1> SUFFICES ASSUME clean PROVE CallsInv' /\ Settled(blocks) \subseteq Settled(blocks')
  BY <1>1 DEF CallsInv, Stays
<1>2. OneCall /\ KnownCall /\ ItsItem /\ Settled(blocks) \subseteq Read /\ ItsRun
  BY DEF CallsInv
<1>3. TypeInv /\ blocks \in Seq(Blocks)
  BY DEF ScreenInv, TypeInv
<1>4. PICK stage \in {"running", "called"} : open' = [open EXCEPT ![c] = stage]
  BY <1>1
<1>5. Running(c) /\ open[c] \in AtWork /\ open[c] # "over" /\ stage \in Stages
  BY <1>1, StageFacts DEF Running, AtWork
<1>6. /\ \A d \in Calls : d # c => open'[d] = open[d]
      /\ open'[c] = stage
  BY <1>3, <1>4, OpenMoved
<1>7. Recorded' = Recorded
  BY <1>1 DEF Recorded
<1>8. ItsItem'
  <2>1. \A d \in Calls : open'[d] \in AtWork => open[d] \in AtWork
    BY <1>5, <1>6
  <2>2. \A d \in Calls : open[d] = "over" => open'[d] = "over"
    BY <1>5, <1>6
  <2>3. QED
    BY <1>2, <1>7, <2>1, <2>2 DEF ItsItem
<1>9. /\ ToolsOf(blocks') = ToolsOf(blocks) \/ Settled(blocks') = Settled(blocks)
      /\ \E i : Latest(blocks', i) /\ blocks'[i].kind = "shell"
  <2>1. CASE ShellCreated(c)
    <3> DEFINE b == Tool("shell", c, "running", None)
    <3>1. blocks' = Append(blocks, b)
      BY <2>1 DEF ShellCreated
    <3>2. b \in Blocks /\ b.kind = "shell"
      BY ToolType DEF Runs, MaybeCalls
    <3> HIDE DEF b
    <3>3. QED
      BY <1>3, <3>1, <3>2, RunAppended, RunAppendedSettles DEF Runs
  <2>2. ASSUME NEW state \in {"done", "failed"}, ShellExited(c, state)
        PROVE  /\ ToolsOf(blocks') = ToolsOf(blocks)
               /\ \E i : Latest(blocks', i) /\ blocks'[i].kind = "shell"
    <3>1. blocks' = UpdateTool(blocks, state, None) /\ open[c] = "running"
      BY <2>2 DEF ShellExited
    <3>2. PICK i : Latest(blocks, i) /\ blocks[i].kind = "shell"
      BY <1>2, <3>1 DEF ItsRun
    <3>3. QED
      BY <1>3, <3>1, <3>2, ShellUpdated
  <2>3. QED
    BY <2>1, <2>2
<1>10. Settled(blocks') = Settled(blocks) /\ Read' = Read
  BY <1>7, <1>9 DEF Settled, Read
<1>11. CallsInv'
  BY <1>1, <1>2, <1>3, <1>4, <1>5, <1>8, <1>9, <1>10, CallMoved
<1>12. QED
  BY <1>10, <1>11

\* The result of a call goes to its own block, or changes no block of a call.
LEMMA ToolEndedKeepsCalls ==
  ASSUME ScreenInv, CallsInv, NEW c \in Calls, ToolSuccess(c) \/ ToolFailed(c)
  PROVE  CallsInv' /\ Stays
<1> SUFFICES ASSUME clean' PROVE CallsInv' /\ Settled(blocks) \subseteq Settled(blocks')
  BY DEF CallsInv, Stays
<1>1. /\ UNCHANGED names /\ clean /\ open[c] = "called"
      /\ open' = [open EXCEPT ![c] = "over"]
  BY DEF ToolSuccess, ToolFailed
<1>2. PICK state \in {"done", "failed"}, status \in {"completed", "error"} :
        /\ status = "completed" <=> state = "done"
        /\ Settle(c, status)
        /\ LET cs == UpdateTool(blocks, state, c)
           IN blocks' = cs \/ blocks' = Append(cs, Note("error"))
  BY DEF ToolSuccess, ToolFailed
<1>3. OneCall /\ KnownCall /\ ItsItem /\ Settled(blocks) \subseteq Read /\ ItsRun
  BY <1>1 DEF CallsInv
<1>4. TypeInv /\ blocks \in Seq(Blocks)
  BY DEF ScreenInv, TypeInv
<1> DEFINE cs == UpdateTool(blocks, state, c)
<1>5. Running(c) /\ open[c] \in AtWork /\ "over" \in Stages /\ "over" \notin AtWork
  BY <1>1, StageFacts DEF Running, AtWork
<1>6. /\ ItsItem' /\ (Settled(blocks) \subseteq Read => Settled(blocks) \subseteq Read')
      /\ RecordedAs(Recorded', c, status)
  <2>1. status \in {"running", "completed", "error", "exited"} /\ Settle(c, status)
    BY <1>2
  <2>2. QED
    BY <1>1, <1>3, <1>4, <1>5, <2>1, CallSettled
<1>7. Tool("tool", c, state, c) \in Read'
  <2>1. PICK it \in Recorded' : it.call = c /\ it.status = status
    BY <1>6 DEF RecordedAs
  <2>2. \/ state = "done" /\ status = "completed"
        \/ state = "failed" /\ status = "error"
    BY <1>2
  <2>3. HistoryTool(it) = Tool("tool", c, state, c)
    BY <2>1, <2>2, HistoryToolIs
  <2>4. QED
    BY <2>1, <2>3 DEF Read
<1>8. PICK i : /\ Latest(blocks, i)
               /\ blocks[i].kind = "shell" \/ blocks[i] = Tool("tool", c, "running", None)
  BY <1>1, <1>3 DEF ItsRun
<1>9. /\ Settled(blocks) \subseteq Settled(cs)
      /\ Settled(cs) \subseteq Settled(blocks) \cup {Tool("tool", c, state, c)}
  BY <1>4, <1>8, CallUpdated
<1>10. Settled(blocks') = Settled(cs)
  <2>1. cs \in Seq(Blocks)
    <3>1. KindsKept(blocks, cs)
      BY <1>4, UpdateToolKinds DEF MaybeCalls
    <3>2. QED
      BY <3>1 DEF KindsKept
  <2>2. blocks' = cs \/ blocks' = Append(cs, Note("error"))
    BY <1>2
  <2> HIDE DEF cs
  <2>3. ToolsOf(Append(cs, Note("error"))) = ToolsOf(cs)
    BY <2>1, NoteAppended DEF SameRuns
  <2>4. QED
    BY <2>2, <2>3 DEF Settled
<1> HIDE DEF cs
<1>11. Settled(blocks') \subseteq Read' /\ Settled(blocks) \subseteq Settled(blocks')
  BY <1>3, <1>6, <1>7, <1>9, <1>10
<1>12. CallsInv'
  BY <1>1, <1>3, <1>4, <1>5, <1>6, <1>11, CallMoved
<1>13. QED
  BY <1>11, <1>12

\* A shell of the user is no call.
LEMMA UserShellKeepsCalls ==
  ASSUME ScreenInv, CallsInv, NEW c \in Calls, UserShellStarted(c) \/ UserShellEnded(c)
  PROVE  CallsInv' /\ Stays
<1> SUFFICES ASSUME clean' PROVE CallsInv' /\ Settled(blocks) \subseteq Settled(blocks')
  BY DEF CallsInv, Stays
<1>0. clean
  BY DEF UserShellStarted, UserShellEnded, Sequential
<1>1. OneCall /\ KnownCall /\ ItsItem /\ Settled(blocks) \subseteq Read /\ ItsRun
  BY <1>0 DEF CallsInv
<1>2. TypeInv /\ blocks \in Seq(Blocks)
  BY DEF ScreenInv, TypeInv
<1>3. CASE UserShellStarted(c)
  <2>1. /\ open' = [open EXCEPT ![c] = "user"] /\ UNCHANGED names
        /\ blocks' = Append(blocks, Tool("shell", c, "running", None))
        /\ Idle /\ open[c] = "unused"
    BY <1>3 DEF UserShellStarted, Sequential, Fresh
  <2>2. open'[c] = "user" /\ \A d \in Calls : d # c => open'[d] = open[d]
    BY <1>2, <2>1, OpenMoved
  <2>3. \A d \in Calls : d # c => open'[d] \in {"unused", "over"}
    BY <2>1, <2>2 DEF Idle, Running
  <2>4. Recorded' = Recorded
    BY <1>2, <1>3, UserShellMessages
  <2> DEFINE b == Tool("shell", c, "running", None)
  <2>5. b \in Blocks /\ b.kind = "shell"
    BY ToolType DEF Runs, MaybeCalls
  <2> HIDE DEF b
  <2>6. /\ Settled(blocks') = Settled(blocks)
        /\ \E i : Latest(blocks', i) /\ blocks'[i].kind = "shell"
    BY <1>2, <2>1, <2>5, RunAppended, RunAppendedSettles DEF Runs, b
  <2>7. OneCall'
    BY <2>3 DEF OneCall, Running
  <2>8. KnownCall'
    BY <2>2, <2>3, StageFacts DEF KnownCall
  <2>9. ItsRun'
    BY <2>2, <2>3, <2>6 DEF ItsRun
  <2>10. ItsItem'
    <3>1. \A d \in Calls : open'[d] \notin AtWork
      BY <2>2, <2>3, StageFacts DEF AtWork
    <3>2. \A d \in Calls : open[d] = "over" => open'[d] = "over"
      BY <2>1, <2>2
    <3>3. QED
      BY <1>1, <2>4, <3>1, <3>2 DEF ItsItem
  <2>11. QED
    BY <1>1, <2>4, <2>6, <2>7, <2>8, <2>9, <2>10 DEF CallsInv, Read
<1>4. CASE UserShellEnded(c)
  <2>1. /\ open' = [open EXCEPT ![c] = "over"] /\ UNCHANGED names /\ open[c] = "user"
        /\ Settle(c, "exited")
        /\ blocks' = UpdateTool(ShellLine(blocks, c), "done", None)
    BY <1>4 DEF UserShellEnded
  <2>2. Running(c) /\ "over" \in Stages /\ "over" \notin AtWork
    BY <2>1, StageFacts DEF Running, AtWork
  <2>3. ItsItem' /\ Settled(blocks) \subseteq Read'
    BY <1>1, <1>2, <2>1, <2>2, CallSettled
  <2>4. PICK i : Latest(blocks, i) /\ blocks[i].kind = "shell"
    BY <1>1, <2>1 DEF ItsRun
  <2> DEFINE bs == ShellLine(blocks, c)
  <2>5. bs \in Seq(Blocks)
    BY <1>2, ShellLineKinds DEF KindsKept
  <2>6. Latest(bs, i) /\ bs[i].kind = "shell" /\ ToolsOf(bs) = ToolsOf(blocks)
    BY <1>2, <2>4, ShellLineIs
  <2>7. blocks' = UpdateTool(bs, "done", None)
    BY <2>1
  <2> HIDE DEF bs
  <2>8. ToolsOf(blocks') = ToolsOf(bs)
    BY <2>5, <2>6, <2>7, ShellUpdated
  <2>9. Settled(blocks') = Settled(blocks)
    BY <2>6, <2>8 DEF Settled
  <2>10. CallsInv'
    BY <1>1, <1>2, <2>1, <2>2, <2>3, <2>9, CallMoved
  <2>11. QED
    BY <2>9, <2>10
<1>5. QED
  BY <1>3, <1>4

\* What is read again has every call that is over, and no other is shown as over.
LEMMA ReopenKeepsCalls ==
  ASSUME ScreenInv, CallsInv, Reopen
  PROVE  CallsInv' /\ Stays
<1> SUFFICES ASSUME clean' PROVE CallsInv' /\ Settled(blocks) \subseteq Settled(blocks')
  BY DEF CallsInv, Stays
<1>1. clean /\ Idle /\ UNCHANGED <<msgs, open>> /\ blocks' = History
  BY DEF Reopen, Sequential
<1>2. ItsItem /\ Settled(blocks) \subseteq Read
  BY <1>1 DEF CallsInv
<1>3. \A c \in Calls : open'[c] \in {"unused", "over"}
  BY <1>1 DEF Idle, Running
<1>4. Recorded' = Recorded /\ Read' = Read
  BY <1>1 DEF Recorded, Read
<1>5. ToolsOf(blocks') = Read
  BY <1>1, HistoryType DEF ScreenInv, Read
<1>6. Settled(blocks') \subseteq Read' /\ Settled(blocks) \subseteq Settled(blocks')
  BY <1>2, <1>4, <1>5 DEF Settled
<1>7. OneCall' /\ KnownCall' /\ ItsRun'
  BY <1>3, StageFacts DEF OneCall, KnownCall, ItsRun, Running
<1>8. ItsItem'
  BY <1>1, <1>2, <1>4 DEF ItsItem
<1>9. QED
  BY <1>6, <1>7, <1>8 DEF CallsInv

LEMMA CallsKept == ScreenInv /\ CallsInv /\ [Next]_vars => CallsInv' /\ Stays
<1> SUFFICES ASSUME ScreenInv, CallsInv, [Next]_vars PROVE CallsInv' /\ Stays
  OBVIOUS
<1>0. TypeInv /\ PhaseInv /\ SameRuns(blocks, blocks)
  BY DEF ScreenInv, SameRuns
<1>1. CASE UNCHANGED vars
  BY <1>0, <1>1, QuietKeepsCalls DEF vars, Recorded
<1>2. CASE \/ ExecutionStarted \/ CompactionStarted \/ Ask \/ Answer \/ Remark
           \/ \E error \in BOOLEAN : StepEnded(error) \/ ExecutionEnded(error)
  <2>1. UNCHANGED <<msgs, open, names, clean>>
    BY <1>2 DEF ExecutionStarted, CompactionStarted, Ask, Answer, Remark, StepEnded, ExecutionEnded
  <2>2. Quiet
    BY <1>0, <1>2, QuietSteps
  <2>3. QED
    BY <2>1, <2>2, QuietKeepsCalls DEF Quiet, Recorded
<1>3. CASE Prompt \/ StepStarted \/ \E error \in BOOLEAN : CompactionEnded(error)
  <2>1. PICK type \in {"user", "assistant", "compacted", "compaction failed"} :
          AddMessage(Message(type, <<>>))
    BY <1>3 DEF Prompt, StepStarted, CompactionEnded
  <2>2. UNCHANGED <<open, names, clean>>
    BY <1>3 DEF Prompt, StepStarted, CompactionEnded
  <2>3. Quiet
    BY <1>0, <1>3, QuietSteps
  <2>4. Recorded' = Recorded
    BY <1>0, <2>1, MessageSteps
  <2>5. QED
    BY <2>2, <2>3, <2>4, QuietKeepsCalls DEF Quiet
<1>4. ASSUME NEW kind \in {"assistant", "thinking"}, NEW f \in Fragments, NEW fresh \in BOOLEAN,
             Delta(kind, f, fresh)
      PROVE  CallsInv' /\ Stays
  <2>1. UNCHANGED <<open, names>> /\ (clean' => clean) /\ phase = "step"
    BY <1>4 DEF Delta
  <2>2. Quiet
    BY <1>0, <1>4, QuietSteps
  <2>3. Recorded' = Recorded
    BY <1>0, <1>4, <2>1, DeltaMessages DEF PhaseInv
  <2>4. QED
    BY <2>1, <2>2, <2>3, QuietKeepsCalls DEF Quiet
<1>5. ASSUME NEW c \in Calls, \/ \E name \in Names : ToolInput(c, name)
                              \/ \E named \in BOOLEAN : ToolCalled(c, named)
                              \/ ShellCreated(c)
                              \/ \E state \in {"done", "failed"} : ShellExited(c, state)
                              \/ ToolSuccess(c) \/ ToolFailed(c)
                              \/ UserShellStarted(c) \/ UserShellEnded(c)
      PROVE  CallsInv' /\ Stays
  BY <1>5, ToolInputKeepsCalls, ToolCalledKeepsCalls, ShellKeepsCalls, ToolEndedKeepsCalls,
     UserShellKeepsCalls
<1>6. QED
  BY <1>1, <1>2, <1>3, <1>4, <1>5, ReopenKeepsCalls DEF Next

\* A call that is over keeps its state and its output in the transcript, whatever comes
\* after it and whenever it is read again, as long as calls follow one another and every
\* one that fails had a block: the block
\* that UpdateTool of apply_event finds by its place is the one of the call that ended.
THEOREM SettledStaysHolds == Spec => SettledStays
<1>1. ASSUME ScreenInv, CallsInv, [Next]_vars, clean', NEW i \in DOMAIN blocks,
             blocks[i].kind = "tool", blocks[i].state # "running"
      PROVE  \E j \in DOMAIN blocks' : blocks'[j] = blocks[i]
  <2>1. Settled(blocks) \subseteq Settled(blocks')
    BY <1>1, CallsKept DEF Stays
  <2>2. blocks[i] \in Settled(blocks)
    BY <1>1 DEF Settled, ToolsOf
  <2>3. blocks[i] \in ToolsOf(blocks')
    BY <2>1, <2>2 DEF Settled
  <2>4. QED
    BY <2>3 DEF ToolsOf
<1>2. ScreenInv /\ CallsInv /\ [Next]_vars =>
        [clean' => \A i \in DOMAIN blocks :
           blocks[i].kind = "tool" /\ blocks[i].state # "running" =>
             \E j \in DOMAIN blocks' : blocks'[j] = blocks[i]]_vars
  BY <1>1
<1>3. QED
  BY <1>2, InitScreen, ScreenKept, InitCalls, CallsKept, PTL DEF Spec, SettledStays

-------------------------------------------------------------------------------
(* What the server's items say *)

\* What a reader of an item would show of it.
ItemSays(it) ==
  CASE it.type = "tool" -> Said(HistoryTool(it))
    [] it.type = "shell" -> Said(HistoryShell(it))
    [] OTHER -> Words(it.type, it.text)
ItemsSay(its) == FlattenSeq([j \in DOMAIN its |-> ItemSays(its[j])])
Told(ms) == FlattenSeq([i \in DOMAIN ms |-> ItemsSay(ms[i].items)])

\* Which messages have which items; the call of a shell's message is the user's.
Proper(m) ==
  /\ m.type = "assistant" => \A j \in DOMAIN m.items : m.items[j].type # "shell"
  /\ m.type = "shell" => Len(m.items) = 1 /\ m.items[1].type = "shell"
  /\ m.type \notin {"assistant", "shell"} => m.items = <<>>

ProperInv == \A i \in DOMAIN msgs : Proper(msgs[i])
ShellsInv ==
  \A i \in DOMAIN msgs :
    msgs[i].type = "shell" => \A c \in Calls : msgs[i].items[1].call = c => open[c] \in {"user", "over"}

RunOf(a, c) == a.kind = "run" /\ a.of[1] = c

NoRun(s, c) == \A j \in DOMAIN s : ~RunOf(s[j], c)

\* Nothing is told of a call before it is made.
FreshInv == \A c \in Calls : open[c] = "unused" => NoRun(Told(msgs), c)

MessagesInv == ProperInv /\ ShellsInv /\ FreshInv

\* The transcript s lacks the run of c that h ends with.
Lacks(s, h, c) ==
  h = Append(s, Run(c, "running")) /\ NoRun(s, c)

\* s and h say the same but for the state of the run of c, which is the last run of both
\* and the only one of c.
Awaits(s, h, c) ==
  /\ Len(s) = Len(h)
  /\ \E i \in 1..Len(s) :
       /\ h[i] = Run(c, "running") /\ RunOf(s[i], c)
       /\ \A j \in 1..Len(s) : j # i => s[j] = h[j] /\ ~RunOf(s[j], c)
       /\ \A j \in 1..Len(s) : i < j => s[j].kind # "run"

-------------------------------------------------------------------------------
(* Sequences of sequences, one after the other *)

\* g has, from 0 on, what the first sequences of ss are together.
Chain(g, ss, S) ==
  /\ g \in [0..Len(ss) -> Seq(S)]
  /\ g[0] = <<>>
  /\ \A n \in 1..Len(ss) : g[n] = g[n - 1] \o ss[n]

LEMMA ChainExists ==
  ASSUME NEW S, NEW ss \in Seq(Seq(S))
  PROVE  \E g : Chain(g, ss, S)
<1> DEFINE L == Len(ss)
           Q == Seq(S)
           step == [x \in Q \X Nat |-> IF x[2] \in 1..L THEN x[1] \o ss[x[2]] ELSE x[1]]
           none == <<>>
<1>1. L \in Nat /\ \A n \in 1..L : ss[n] \in Seq(S)
  OBVIOUS
<1>2. step \in [Q \X Nat -> Q] /\ none \in Q
  BY <1>1
<1>3. \E g : Iterates(g, Q, none, step, L)
  <2> HIDE DEF Q, step, none
  <2>1. QED
    BY <1>1, <1>2, Recursion
<1>4. PICK g : Iterates(g, Q, none, step, L)
  BY <1>3
<1>5. \A n \in 1..L : n - 1 \in 0..L /\ n \in Nat
  BY <1>1
<1>6. g \in [0..L -> Q] /\ g[0] = none /\ \A n \in 1..L : g[n] = step[<<g[n - 1], n>>]
  BY <1>4 DEF Iterates
<1>7. \A n \in 1..L : g[n - 1] \in Q
  <2> HIDE DEF Q
  <2>1. QED
    BY <1>5, <1>6
<1>8. \A n \in 1..L : g[n] = g[n - 1] \o ss[n]
  BY <1>5, <1>6, <1>7
<1>9. QED
  BY <1>6, <1>8 DEF Chain

LEMMA ChainsAgree ==
  ASSUME NEW S, NEW ss, NEW tt, NEW g, NEW h,
         Chain(g, ss, S), Chain(h, tt, S), NEW L \in Nat, L <= Len(ss), L <= Len(tt),
         \A n \in 1..L : ss[n] = tt[n]
  PROVE  \A n \in 0..L : g[n] = h[n]
<1> DEFINE T == {n \in Nat : n <= L => g[n] = h[n]}
<1>1. 0 \in T
  BY DEF Chain
<1>2. ASSUME NEW n \in T PROVE n + 1 \in T
  <2>1. CASE n + 1 <= L
    <3>1. n <= L /\ n + 1 \in 1..L /\ n + 1 \in 1..Len(ss) /\ n + 1 \in 1..Len(tt) /\ (n + 1) - 1 = n
      BY <2>1
    <3>2. g[n + 1] = g[n] \o ss[n + 1] /\ h[n + 1] = h[n] \o tt[n + 1]
      BY <3>1 DEF Chain
    <3>3. g[n] = h[n] /\ ss[n + 1] = tt[n + 1]
      BY <3>1
    <3>4. g[n + 1] = h[n + 1]
      BY <3>2, <3>3
    <3>5. QED
      BY <3>4
  <2>2. CASE ~(n + 1 <= L)
    BY <2>2
  <2>3. QED
    BY <2>1, <2>2
<1>3. T = Nat
  <2> HIDE DEF T
  <2>1. T \in SUBSET Nat
    BY DEF T
  <2>2. QED
    BY <1>1, <1>2, <2>1, Induction
<1>4. QED
  BY <1>3

LEMMA FlattenIsChain ==
  ASSUME NEW S, NEW ss \in Seq(Seq(S)), NEW g, Chain(g, ss, S)
  PROVE  FlattenSeq(ss) = g[Len(ss)] /\ FlattenSeq(ss) \in Seq(S)
<1> DEFINE L == Len(ss)
           flat == CHOOSE f : f = [i \in 1..L |-> IF i = 1 THEN ss[i] ELSE f[i - 1] \o ss[i]]
<1>1. L \in Nat /\ \A n \in 1..L : ss[n] \in Seq(S)
  OBVIOUS
<1>2. /\ g \in [0..L -> Seq(S)] /\ g[0] = <<>>
      /\ \A n \in 1..L : g[n] = g[n - 1] \o ss[n]
  BY DEF Chain
<1>3. 1 \in 1..L => g[1] = ss[1]
  <2> SUFFICES ASSUME 1 \in 1..L PROVE g[1] = ss[1]
    OBVIOUS
  <2>1. g[1 - 1] = <<>> /\ ss[1] \in Seq(S)
    BY <1>1, <1>2
  <2>2. <<>> \o ss[1] = ss[1]
    BY <2>1
  <2>3. QED
    BY <1>2, <2>1, <2>2
<1> DEFINE g1 == [i \in 1..L |-> g[i]]
<1>4. g1 = [i \in 1..L |-> IF i = 1 THEN ss[i] ELSE g1[i - 1] \o ss[i]]
  <2>1. ASSUME NEW i \in 1..L PROVE g[i] = IF i = 1 THEN ss[i] ELSE g1[i - 1] \o ss[i]
    <3>1. CASE i = 1
      BY <1>3, <3>1
    <3>2. CASE i # 1
      <4>1. i - 1 \in 1..L
        BY <1>1, <3>2
      <4>2. QED
        BY <1>2, <3>2, <4>1
    <3>3. QED
      BY <3>1, <3>2
  <2>2. QED
    BY <2>1
<1>5. flat = [i \in 1..L |-> IF i = 1 THEN ss[i] ELSE flat[i - 1] \o ss[i]]
  <2> HIDE DEF g1
  <2>1. QED
    BY <1>4
<1>6. FlattenSeq(ss) = IF L = 0 THEN ss ELSE flat[L]
  BY DEF FlattenSeq
<1> HIDE DEF flat, g1
<1>7. CASE L = 0
  <2>1. ss = <<>>
    BY <1>7
  <2>2. QED
    BY <1>2, <1>6, <1>7, <2>1
<1>8. CASE L # 0
  <2> DEFINE T == {n \in Nat : n + 1 <= L => flat[n + 1] = g[n + 1]}
  <2>1. 0 \in T
    <3>1. CASE 1 \in 1..L
      BY <1>3, <1>5, <3>1
    <3>2. QED
      BY <1>1, <3>1
  <2>2. ASSUME NEW n \in T PROVE n + 1 \in T
    <3>1. CASE (n + 1) + 1 <= L
      <4>1. n + 1 \in 1..L /\ (n + 1) + 1 \in 1..L /\ ((n + 1) + 1) - 1 = n + 1 /\ (n + 1) + 1 # 1
        BY <1>1, <3>1
      <4>2. flat[n + 1] = g[n + 1]
        BY <4>1
      <4>3. flat[(n + 1) + 1] = flat[n + 1] \o ss[(n + 1) + 1]
        BY <1>5, <4>1
      <4>4. g[(n + 1) + 1] = g[n + 1] \o ss[(n + 1) + 1]
        BY <1>2, <4>1
      <4>5. flat[(n + 1) + 1] = g[(n + 1) + 1]
        BY <4>2, <4>3, <4>4
      <4>6. QED
        BY <4>5
    <3>2. CASE ~((n + 1) + 1 <= L)
      BY <3>2
    <3>3. QED
      BY <3>1, <3>2
  <2>3. T = Nat
    <3> HIDE DEF T
    <3>1. T \in SUBSET Nat
      BY DEF T
    <3>2. QED
      BY <2>1, <2>2, <3>1, Induction
  <2>4. L - 1 \in Nat /\ (L - 1) + 1 = L
    BY <1>1, <1>8
  <2>5. flat[L] = g[L]
    <3>1. L - 1 \in T
      BY <2>3, <2>4
    <3>2. QED
      BY <1>1, <2>4, <3>1
  <2>6. L \in 0..L
    BY <1>1
  <2>7. QED
    BY <1>2, <1>6, <1>8, <2>5, <2>6
<1>9. QED
  BY <1>7, <1>8

LEMMA FlattenAppend ==
  ASSUME NEW S, NEW ss \in Seq(Seq(S)), NEW s \in Seq(S)
  PROVE  /\ FlattenSeq(ss) \in Seq(S)
         /\ FlattenSeq(Append(ss, s)) = FlattenSeq(ss) \o s
<1> DEFINE tt == Append(ss, s)
           L == Len(ss)
<1>1. /\ L \in Nat /\ tt \in Seq(Seq(S)) /\ Len(tt) = L + 1 /\ tt[L + 1] = s
      /\ \A n \in 1..L : ss[n] = tt[n]
  OBVIOUS
<1> HIDE DEF tt
<1>2. PICK g : Chain(g, ss, S)
  BY ChainExists
<1>3. PICK h : Chain(h, tt, S)
  BY <1>1, ChainExists
<1>4. FlattenSeq(ss) = g[L] /\ FlattenSeq(ss) \in Seq(S) /\ FlattenSeq(tt) = h[L + 1]
  BY <1>1, <1>2, <1>3, FlattenIsChain
<1>5. g[L] = h[L]
  <2>1. L \in 0..L /\ L \in Nat /\ L <= Len(ss) /\ L <= Len(tt) /\ \A n \in 1..L : ss[n] = tt[n]
    BY <1>1
  <2> HIDE DEF L
  <2>2. \A n \in 0..L : g[n] = h[n]
    BY ONLY <1>2, <1>3, <2>1, ChainsAgree
  <2>3. QED
    BY <2>1, <2>2
<1>6. h[L + 1] = h[L] \o tt[L + 1]
  <2>1. L + 1 \in 1..Len(tt) /\ (L + 1) - 1 = L
    BY <1>1
  <2>2. QED
    BY <1>3, <2>1 DEF Chain
<1>7. QED
  BY <1>1, <1>4, <1>5, <1>6 DEF tt

LEMMA FlattenNone ==
  ASSUME NEW S
  PROVE  <<>> \in Seq(S) /\ FlattenSeq(<<>>) = <<>>
BY DEF FlattenSeq

LEMMA ConcatAssoc ==
  ASSUME NEW S, NEW a \in Seq(S), NEW b \in Seq(S), NEW c \in Seq(S)
  PROVE  a \o b \in Seq(S) /\ (a \o b) \o c = a \o (b \o c)
OBVIOUS

LEMMA ConcatNone ==
  ASSUME NEW S, NEW a \in Seq(S)
  PROVE  <<>> \o a = a /\ a \o <<>> = a /\ <<>> \in Seq(S)
OBVIOUS

LEMMA FlattenConcat ==
  ASSUME NEW S, NEW ss \in Seq(Seq(S)), NEW tt \in Seq(Seq(S))
  PROVE  FlattenSeq(ss \o tt) = FlattenSeq(ss) \o FlattenSeq(tt)
<1> DEFINE uu == ss \o tt
           L == Len(ss)
           M == Len(tt)
<1>1. /\ L \in Nat /\ M \in Nat /\ uu \in Seq(Seq(S)) /\ Len(uu) = L + M
      /\ \A n \in 1..L : ss[n] = uu[n]
      /\ \A n \in 1..M : uu[L + n] = tt[n] /\ tt[n] \in Seq(S)
  OBVIOUS
<1> HIDE DEF uu
<1>2. PICK g : Chain(g, ss, S)
  BY ChainExists
<1>3. PICK h : Chain(h, tt, S)
  BY ChainExists
<1>4. PICK k : Chain(k, uu, S)
  BY <1>1, ChainExists
<1>5. /\ FlattenSeq(ss) = g[L] /\ FlattenSeq(tt) = h[M] /\ FlattenSeq(uu) = k[L + M]
      /\ g[L] \in Seq(S)
  BY <1>1, <1>2, <1>3, <1>4, FlattenIsChain
<1>6. k[L] = g[L]
  <2>1. L \in 0..L /\ L \in Nat /\ L <= Len(ss) /\ L <= Len(uu) /\ \A n \in 1..L : ss[n] = uu[n]
    BY <1>1
  <2> HIDE DEF L, M
  <2>2. \A n \in 0..L : g[n] = k[n]
    BY ONLY <1>2, <1>4, <2>1, ChainsAgree
  <2>3. QED
    BY <2>1, <2>2
<1> DEFINE a == g[L]
           T == {n \in Nat : n <= M => k[L + n] = a \o h[n]}
<1> HIDE DEF a
<1>7. a \in Seq(S) /\ k[L] = a
  BY <1>5, <1>6 DEF a
<1>8. 0 \in T
  <2>1. h[0] = <<>> /\ L + 0 = L /\ a \o <<>> = a
    BY <1>1, <1>3, <1>7, ConcatNone DEF Chain
  <2>2. QED
    BY <1>7, <2>1
<1>9. ASSUME NEW n \in T PROVE n + 1 \in T
  <2>1. CASE n + 1 <= M
    <3>1. /\ n <= M /\ n \in 0..M /\ n + 1 \in 1..M /\ (n + 1) - 1 = n
          /\ L + (n + 1) \in 1..L + M /\ (L + (n + 1)) - 1 = L + n
      BY <1>1, <2>1
    <3>2. k[L + (n + 1)] = k[L + n] \o tt[n + 1]
      BY <1>1, <1>4, <3>1 DEF Chain
    <3>3. h[n + 1] = h[n] \o tt[n + 1] /\ h[n] \in Seq(S) /\ tt[n + 1] \in Seq(S)
      BY <1>1, <1>3, <3>1 DEF Chain
    <3>4. k[L + n] = a \o h[n]
      BY <3>1
    <3>5. (a \o h[n]) \o tt[n + 1] = a \o (h[n] \o tt[n + 1])
      <4> DEFINE b == h[n]
                 c == tt[n + 1]
      <4>1. b \in Seq(S) /\ c \in Seq(S)
        BY <3>3
      <4> HIDE DEF b, c
      <4>2. (a \o b) \o c = a \o (b \o c)
        BY <1>7, <4>1, ConcatAssoc
      <4>3. QED
        BY <4>2 DEF b, c
    <3>6. k[L + (n + 1)] = a \o h[n + 1]
      BY <3>2, <3>3, <3>4, <3>5
    <3>7. QED
      BY <3>6
  <2>2. CASE ~(n + 1 <= M)
    BY <2>2
  <2>3. QED
    BY <2>1, <2>2
<1>10. T = Nat
  <2> HIDE DEF T
  <2>1. T \in SUBSET Nat
    BY DEF T
  <2>2. QED
    BY <1>8, <1>9, <2>1, Induction
<1>11. k[L + M] = a \o h[M]
  <2>1. M \in T
    BY <1>1, <1>10
  <2>2. QED
    BY <2>1
<1>12. QED
  BY <1>5, <1>11 DEF a, uu

\* Sequences whose pieces are related one by one.
Mapped(s, p) == [i \in DOMAIN s |-> p[s[i]]]

LEMMA SequenceIs ==
  ASSUME NEW S, NEW n \in Nat, NEW s \in [1..n -> S]
  PROVE  s \in Seq(S) /\ Len(s) = n /\ DOMAIN s = 1..n
OBVIOUS

LEMMA SequencesEqual ==
  ASSUME NEW S, NEW s \in Seq(S), NEW t \in Seq(S), Len(s) = Len(t),
         \A i \in 1..Len(s) : s[i] = t[i]
  PROVE  s = t
OBVIOUS

LEMMA ConcatIs ==
  ASSUME NEW S, NEW s \in Seq(S), NEW t \in Seq(S)
  PROVE  /\ s \o t \in Seq(S) /\ Len(s \o t) = Len(s) + Len(t)
         /\ \A i \in 1..Len(s) : (s \o t)[i] = s[i]
         /\ \A i \in 1..Len(t) : (s \o t)[Len(s) + i] = t[i]
OBVIOUS

\* u is as long as s and t, and has the elements of s and then those of t.
Joined(s, t, u) ==
  /\ Len(u) = Len(s) + Len(t)
  /\ \A i \in 1..Len(s) : u[i] = s[i]
  /\ \A i \in 1..Len(t) : u[Len(s) + i] = t[i]

LEMMA IsConcat ==
  ASSUME NEW S, NEW s \in Seq(S), NEW t \in Seq(S), NEW u \in Seq(S), Joined(s, t, u)
  PROVE  u = s \o t
<1> DEFINE v == s \o t
           m == Len(s)
           n == Len(t)
<1>1. /\ v \in Seq(S) /\ Len(v) = m + n /\ m \in Nat /\ n \in Nat
      /\ \A i \in 1..m : v[i] = s[i]
      /\ \A i \in 1..n : v[m + i] = t[i]
  BY ConcatIs
<1> HIDE DEF v
<1>2. ASSUME NEW i \in 1..m + n PROVE u[i] = v[i]
  <2>1. CASE i <= m
    <3>1. i \in 1..m
      BY <1>1, <2>1
    <3>2. QED
      BY <1>1, <3>1 DEF Joined
  <2>2. CASE ~(i <= m)
    <3>1. i - m \in 1..n /\ m + (i - m) = i
      BY <1>1, <2>2
    <3>2. u[m + (i - m)] = t[i - m] /\ v[m + (i - m)] = t[i - m]
      BY <1>1, <3>1 DEF Joined
    <3>3. QED
      BY <3>1, <3>2
  <2>3. QED
    BY <2>1, <2>2
<1>3. u = v
  BY <1>1, <1>2, SequencesEqual DEF Joined
<1>4. QED
  BY <1>3 DEF v

LEMMA MappedType ==
  ASSUME NEW S, NEW p \in [S -> S], NEW s \in Seq(S)
  PROVE  /\ Mapped(s, p) \in Seq(S) /\ Len(Mapped(s, p)) = Len(s)
         /\ \A i \in 1..Len(s) : Mapped(s, p)[i] = p[s[i]]
<1>1. Len(s) \in Nat /\ DOMAIN s = 1..Len(s) /\ \A i \in 1..Len(s) : s[i] \in S
  OBVIOUS
<1>2. Mapped(s, p) \in [1..Len(s) -> S]
  BY <1>1 DEF Mapped
<1>3. QED
  BY <1>1, <1>2, SequenceIs DEF Mapped

LEMMA MappedConcat ==
  ASSUME NEW S, NEW p \in [S -> S], NEW s \in Seq(S), NEW t \in Seq(S)
  PROVE  Mapped(s \o t, p) = Mapped(s, p) \o Mapped(t, p)
<1> DEFINE u == s \o t
           a == Mapped(s, p)
           b == Mapped(t, p)
           m == Len(s)
           n == Len(t)
           v == Mapped(u, p)
<1>1. /\ u \in Seq(S) /\ Len(u) = m + n /\ m \in Nat /\ n \in Nat
      /\ \A i \in 1..m : u[i] = s[i]
      /\ \A i \in 1..n : u[m + i] = t[i]
  BY ConcatIs
<1> HIDE DEF u
<1>2. /\ a \in Seq(S) /\ Len(a) = m /\ \A i \in 1..m : a[i] = p[s[i]]
      /\ b \in Seq(S) /\ Len(b) = n /\ \A i \in 1..n : b[i] = p[t[i]]
  BY MappedType
<1>3. v \in Seq(S) /\ Len(v) = m + n /\ \A i \in 1..m + n : v[i] = p[u[i]]
  BY <1>1, MappedType
<1> HIDE DEF v, a, b, m, n
<1>4. \A i \in 1..m : v[i] = a[i]
  <2>1. \A i \in 1..m : i \in 1..m + n
    BY <1>1
  <2>2. QED
    BY <1>1, <1>2, <1>3, <2>1
<1>5. ASSUME NEW i \in 1..n PROVE v[m + i] = b[i]
  <2>1. m + i \in 1..m + n
    BY <1>1
  <2>2. v[m + i] = p[u[m + i]] /\ u[m + i] = t[i] /\ b[i] = p[t[i]]
    BY <1>1, <1>2, <1>3, <2>1
  <2>3. QED
    BY <2>2
<1>6. v = a \o b
  <2>1. Joined(a, b, v)
    BY <1>2, <1>3, <1>4, <1>5 DEF Joined
  <2>2. a \in Seq(S) /\ b \in Seq(S) /\ v \in Seq(S)
    BY <1>2, <1>3, <1>4, <1>5
  <2>3. QED
    BY <2>1, <2>2, IsConcat
<1>7. QED
  BY <1>6 DEF v, a, b, u

PiecesMapped(ss, tt, p) == Len(ss) = Len(tt) /\ \A n \in 1..Len(ss) : tt[n] = Mapped(ss[n], p)

LEMMA FlattenMapped ==
  ASSUME NEW S, NEW p \in [S -> S], NEW ss \in Seq(Seq(S)), NEW tt \in Seq(Seq(S)),
         PiecesMapped(ss, tt, p)
  PROVE  FlattenSeq(tt) = Mapped(FlattenSeq(ss), p)
<1> DEFINE L == Len(ss)
<1>1. L \in Nat /\ Len(tt) = L /\ \A n \in 1..L : ss[n] \in Seq(S)
  BY DEF PiecesMapped
<1>2. PICK g : Chain(g, ss, S)
  BY ChainExists
<1>3. PICK h : Chain(h, tt, S)
  BY ChainExists
<1>4. FlattenSeq(ss) = g[L] /\ FlattenSeq(tt) = h[L]
  BY <1>1, <1>2, <1>3, FlattenIsChain
<1> DEFINE T == {n \in Nat : n <= L => h[n] = Mapped(g[n], p)}
<1>5. 0 \in T
  <2>1. g[0] = <<>> /\ h[0] = <<>>
    BY <1>2, <1>3 DEF Chain
  <2>2. Mapped(<<>>, p) = <<>>
    BY DEF Mapped
  <2>3. QED
    BY <2>1, <2>2
<1>6. ASSUME NEW n \in T PROVE n + 1 \in T
  <2>1. CASE n + 1 <= L
    <3>1. n <= L /\ n \in 0..L /\ n + 1 \in 1..L /\ (n + 1) - 1 = n
      BY <1>1, <2>1
    <3>2. g[n + 1] = g[n] \o ss[n + 1] /\ g[n] \in Seq(S) /\ ss[n + 1] \in Seq(S)
      BY <1>1, <1>2, <3>1 DEF Chain
    <3>3. h[n + 1] = h[n] \o tt[n + 1]
      BY <1>1, <1>3, <3>1 DEF Chain
    <3>4. Mapped(g[n] \o ss[n + 1], p) = Mapped(g[n], p) \o Mapped(ss[n + 1], p)
      BY <3>2, MappedConcat
    <3>5. h[n] = Mapped(g[n], p) /\ tt[n + 1] = Mapped(ss[n + 1], p)
      BY <3>1 DEF PiecesMapped
    <3>6. h[n + 1] = Mapped(g[n + 1], p)
      BY <3>2, <3>3, <3>4, <3>5
    <3>7. QED
      BY <3>6
  <2>2. CASE ~(n + 1 <= L)
    BY <2>2
  <2>3. QED
    BY <2>1, <2>2
<1>7. T = Nat
  <2> HIDE DEF T
  <2>1. T \in SUBSET Nat
    BY DEF T
  <2>2. QED
    BY <1>5, <1>6, <2>1, Induction
<1>8. h[L] = Mapped(g[L], p)
  BY <1>1, <1>7
<1>9. QED
  BY <1>4, <1>8

-------------------------------------------------------------------------------
(* What each element of a sequence gives, one after the other *)

\* Its elements are A's, and it gives those of S.
Maps(A, S) == [A -> S]
Each(w, s) == [i \in DOMAIN s |-> w[s[i]]]
Together(w, s) == FlattenSeq(Each(w, s))

LEMMA EachType ==
  ASSUME NEW A, NEW S, NEW w \in Maps(A, S), NEW s \in Seq(A)
  PROVE  /\ Each(w, s) \in Seq(S) /\ Len(Each(w, s)) = Len(s)
         /\ \A i \in 1..Len(s) : Each(w, s)[i] = w[s[i]]
<1>1. DOMAIN s = 1..Len(s) /\ Len(s) \in Nat /\ \A i \in 1..Len(s) : s[i] \in A
  OBVIOUS
<1>2. Each(w, s) \in [1..Len(s) -> S]
  BY <1>1 DEF Each, Maps
<1>3. QED
  BY <1>1, <1>2, SequenceIs DEF Each

LEMMA EachAppend ==
  ASSUME NEW A, NEW S, NEW w \in Maps(A, S), NEW s \in Seq(A), NEW x \in A
  PROVE  Each(w, Append(s, x)) = Append(Each(w, s), w[x])
<1> DEFINE t == Append(s, x)
           L == Len(s)
           a == Each(w, s)
           b == Each(w, t)
           y == w[x]
           c == Append(a, y)
<1>1. /\ L \in Nat /\ t \in Seq(A) /\ Len(t) = L + 1 /\ t[L + 1] = x /\ y \in S
      /\ \A i \in 1..L : t[i] = s[i]
  BY DEF Maps
<1> HIDE DEF t
<1>2. a \in Seq(S) /\ Len(a) = L /\ \A i \in 1..L : a[i] = w[s[i]]
  BY EachType
<1>3. b \in Seq(S) /\ Len(b) = L + 1 /\ \A i \in 1..L + 1 : b[i] = w[t[i]]
  BY <1>1, EachType
<1> HIDE DEF a, b, L, y
<1>4. c \in Seq(S) /\ Len(c) = L + 1 /\ c[L + 1] = y /\ \A i \in 1..L : c[i] = a[i]
  BY <1>1, <1>2
<1> HIDE DEF c
<1>5. \A i \in 1..L + 1 : i = L + 1 \/ i \in 1..L
  BY <1>1
<1>6. L + 1 \in 1..L + 1
  BY <1>1
<1>7. \A i \in 1..L + 1 : b[i] = c[i]
  BY <1>1, <1>2, <1>3, <1>4, <1>5, <1>6 DEF y
<1>8. b = c
  BY <1>3, <1>4, <1>7, SequencesEqual
<1>9. QED
  BY <1>8 DEF a, b, c, t, y

LEMMA EachConcat ==
  ASSUME NEW A, NEW S, NEW w \in Maps(A, S), NEW s \in Seq(A), NEW t \in Seq(A)
  PROVE  Each(w, s \o t) = Each(w, s) \o Each(w, t)
<1> DEFINE u == s \o t
           m == Len(s)
           n == Len(t)
           a == Each(w, s)
           b == Each(w, t)
           v == Each(w, u)
<1>1. /\ u \in Seq(A) /\ Len(u) = m + n /\ m \in Nat /\ n \in Nat
      /\ \A i \in 1..m : u[i] = s[i]
      /\ \A i \in 1..n : u[m + i] = t[i]
  BY ConcatIs
<1> HIDE DEF u
<1>2. a \in Seq(S) /\ Len(a) = m /\ \A i \in 1..m : a[i] = w[s[i]]
  BY EachType
<1>3. b \in Seq(S) /\ Len(b) = n /\ \A i \in 1..n : b[i] = w[t[i]]
  BY EachType
<1>4. v \in Seq(S) /\ Len(v) = m + n /\ \A i \in 1..m + n : v[i] = w[u[i]]
  <2>1. v \in Seq(S) /\ Len(v) = Len(u) /\ \A i \in 1..Len(u) : v[i] = w[u[i]]
    BY <1>1, EachType
  <2>2. QED
    BY <1>1, <2>1
<1> HIDE DEF v, a, b, m, n
<1>5. \A i \in 1..m : v[i] = a[i]
  <2>1. \A i \in 1..m : i \in 1..m + n
    BY <1>1
  <2>2. QED
    BY <1>1, <1>2, <1>4, <2>1
<1>6. ASSUME NEW i \in 1..n PROVE v[m + i] = b[i]
  <2>1. m + i \in 1..m + n
    BY <1>1
  <2>2. v[m + i] = w[u[m + i]] /\ u[m + i] = t[i] /\ b[i] = w[t[i]]
    BY <1>1, <1>3, <1>4, <2>1
  <2>3. QED
    BY <2>2
<1>7. v = a \o b
  <2>1. Joined(a, b, v)
    BY <1>2, <1>3, <1>4, <1>5, <1>6 DEF Joined
  <2>2. a \in Seq(S) /\ b \in Seq(S) /\ v \in Seq(S)
    BY <1>2, <1>3, <1>4, <1>5, <1>6
  <2>3. QED
    BY <2>1, <2>2, IsConcat
<1>8. QED
  BY <1>7 DEF v, a, b, u

LEMMA TogetherNone ==
  ASSUME NEW w
  PROVE  Together(w, <<>>) = <<>>
<1>1. Each(w, <<>>) = <<>>
  BY DEF Each
<1>2. QED
  BY <1>1 DEF Together, FlattenSeq

LEMMA TogetherType ==
  ASSUME NEW A, NEW S, NEW w \in Maps(A, Seq(S)), NEW s \in Seq(A)
  PROVE  Together(w, s) \in Seq(S)
<1> DEFINE Q == Seq(S)
           ss == Each(w, s)
<1>1. w \in Maps(A, Q)
  OBVIOUS
<1> HIDE DEF Q
<1>2. ss \in Seq(Q)
  BY <1>1, EachType
<1> HIDE DEF ss
<1>3. ss \in Seq(Seq(S))
  BY <1>2 DEF Q
<1>4. \E g : Chain(g, ss, S)
  BY <1>3, ChainExists
<1>5. FlattenSeq(ss) \in Seq(S)
  BY <1>3, <1>4, FlattenIsChain
<1>6. QED
  BY <1>5 DEF Together, ss

LEMMA TogetherAppend ==
  ASSUME NEW A, NEW S, NEW w \in Maps(A, Seq(S)), NEW s \in Seq(A), NEW x \in A
  PROVE  Together(w, Append(s, x)) = Together(w, s) \o w[x]
<1> DEFINE Q == Seq(S)
           ss == Each(w, s)
           y == w[x]
<1>1. y \in Q
  BY DEF Maps
<1>2. w \in Maps(A, Q)
  OBVIOUS
<1> HIDE DEF Q
<1>3. ss \in Seq(Q) /\ Each(w, Append(s, x)) = Append(ss, y)
  BY <1>2, EachType, EachAppend
<1> HIDE DEF ss, y
<1>4. ss \in Seq(Seq(S)) /\ y \in Seq(S)
  BY <1>1, <1>3 DEF Q
<1>5. FlattenSeq(ss) \in Seq(S) /\ FlattenSeq(Append(ss, y)) = FlattenSeq(ss) \o y
  BY <1>4, FlattenAppend
<1>6. QED
  BY <1>3, <1>5 DEF Together, ss, y

LEMMA TogetherConcat ==
  ASSUME NEW A, NEW S, NEW w \in Maps(A, Seq(S)), NEW s \in Seq(A), NEW t \in Seq(A)
  PROVE  Together(w, s \o t) = Together(w, s) \o Together(w, t)
<1> DEFINE Q == Seq(S)
           a == Each(w, s)
           b == Each(w, t)
<1>1. w \in Maps(A, Q)
  OBVIOUS
<1> HIDE DEF Q
<1>2. a \in Seq(Q) /\ b \in Seq(Q) /\ Each(w, s \o t) = a \o b
  BY <1>1, EachType, EachConcat
<1> HIDE DEF a, b
<1>3. a \in Seq(Seq(S)) /\ b \in Seq(Seq(S))
  BY <1>2 DEF Q
<1>4. FlattenSeq(a \o b) = FlattenSeq(a) \o FlattenSeq(b)
  BY <1>3, FlattenConcat
<1>5. QED
  BY <1>2, <1>4 DEF Together, a, b

\* Pieces first, or elements first.
Piecewise(w, ss, tt) == Len(tt) = Len(ss) /\ \A n \in 1..Len(ss) : tt[n] = Together(w, ss[n])

LEMMA TogetherFlatten ==
  ASSUME NEW A, NEW S, NEW w \in Maps(A, Seq(S)), NEW ss \in Seq(Seq(A)), NEW tt \in Seq(Seq(S)),
         Piecewise(w, ss, tt)
  PROVE  Together(w, FlattenSeq(ss)) = FlattenSeq(tt)
<1> DEFINE L == Len(ss)
<1>1. L \in Nat /\ Len(tt) = L /\ \A n \in 1..L : ss[n] \in Seq(A)
  BY DEF Piecewise
<1>2. PICK g : Chain(g, ss, A)
  BY ChainExists
<1>3. PICK h : Chain(h, tt, S)
  BY ChainExists
<1>4. FlattenSeq(ss) = g[L] /\ FlattenSeq(tt) = h[L]
  BY <1>1, <1>2, <1>3, FlattenIsChain
<1> DEFINE T == {n \in Nat : n <= L => h[n] = Together(w, g[n])}
<1>5. 0 \in T
  <2>1. g[0] = <<>> /\ h[0] = <<>>
    BY <1>2, <1>3 DEF Chain
  <2>2. QED
    BY <2>1, TogetherNone
<1>6. ASSUME NEW n \in T PROVE n + 1 \in T
  <2>1. CASE n + 1 <= L
    <3>1. n <= L /\ n \in 0..L /\ n + 1 \in 1..L /\ (n + 1) - 1 = n
      BY <1>1, <2>1
    <3>2. g[n + 1] = g[n] \o ss[n + 1] /\ g[n] \in Seq(A) /\ ss[n + 1] \in Seq(A)
      BY <1>1, <1>2, <3>1 DEF Chain
    <3>3. h[n + 1] = h[n] \o tt[n + 1]
      BY <1>1, <1>3, <3>1 DEF Chain
    <3> DEFINE a == g[n]
               b == ss[n + 1]
    <3>4. Together(w, a \o b) = Together(w, a) \o Together(w, b)
      <4>1. a \in Seq(A) /\ b \in Seq(A)
        BY <3>2
      <4> HIDE DEF a, b
      <4>2. QED
        BY <4>1, TogetherConcat
    <3>5. h[n] = Together(w, g[n]) /\ tt[n + 1] = Together(w, ss[n + 1])
      BY <3>1 DEF Piecewise
    <3>6. h[n + 1] = Together(w, g[n + 1])
      BY <3>2, <3>3, <3>4, <3>5
    <3>7. QED
      BY <3>6
  <2>2. CASE ~(n + 1 <= L)
    BY <2>2
  <2>3. QED
    BY <2>1, <2>2
<1>7. T = Nat
  <2> HIDE DEF T
  <2>1. T \in SUBSET Nat
    BY DEF T
  <2>2. QED
    BY <1>5, <1>6, <2>1, Induction
<1>8. h[L] = Together(w, g[L])
  BY <1>1, <1>7
<1>9. QED
  BY <1>4, <1>8

-------------------------------------------------------------------------------
(* What a change of the blocks changes of what they say *)

\* What a transcript can say.
Sayings ==
  [kind: {"run", "assistant", "thinking"},
   of: Fragments \cup (MaybeCalls \X {"running", "done", "failed"})]
Wordings == {a \in Sayings : a.kind # "run"}

BlockSays == [b \in Blocks |-> Said(b)]
WordOf(kind) == [f \in Fragments |-> Word(kind, f)]

LEMMA WordType ==
  ASSUME NEW kind \in {"assistant", "thinking"}
  PROVE  /\ \A f \in Fragments : Word(kind, f) \in Seq(Wordings) /\ Word(kind, f) \in Seq(Sayings)
         /\ WordOf(kind) \in Maps(Fragments, Seq(Wordings))
         /\ WordOf(kind) \in Maps(Fragments, Seq(Sayings))
<1>1. ASSUME NEW f \in Fragments
      PROVE  Word(kind, f) \in Seq(Wordings) /\ Word(kind, f) \in Seq(Sayings)
  <2> DEFINE a == [kind |-> kind, of |-> f]
  <2>1. a \in Wordings /\ a \in Sayings
    BY DEF Wordings, Sayings
  <2> HIDE DEF a
  <2>2. /\ <<a>> \in Seq(Wordings) /\ <<a>> \in Seq(Sayings)
        /\ <<>> \in Seq(Wordings) /\ <<>> \in Seq(Sayings)
    BY <2>1
  <2>3. Word(kind, f) = <<>> \/ Word(kind, f) = <<a>>
    BY DEF Word, a
  <2>4. QED
    BY <2>2, <2>3
<1>2. QED
  BY <1>1 DEF WordOf, Maps

LEMMA WordsIs ==
  ASSUME NEW kind \in {"assistant", "thinking"}, NEW text \in Seq(Fragments)
  PROVE  /\ Words(kind, text) = Together(WordOf(kind), text)
         /\ Words(kind, text) \in Seq(Wordings) /\ Words(kind, text) \in Seq(Sayings)
<1>1. \A i \in DOMAIN text : text[i] \in Fragments
  OBVIOUS
<1>2. [i \in DOMAIN text |-> Word(kind, text[i])] = Each(WordOf(kind), text)
  BY <1>1 DEF Each, WordOf
<1>3. Words(kind, text) = Together(WordOf(kind), text)
  BY <1>2 DEF Words, Together
<1> DEFINE w == WordOf(kind)
<1>4. w \in Maps(Fragments, Seq(Wordings)) /\ w \in Maps(Fragments, Seq(Sayings))
  BY WordType
<1> HIDE DEF w
<1>5. Together(w, text) \in Seq(Wordings) /\ Together(w, text) \in Seq(Sayings)
  BY <1>4, TogetherType
<1>6. QED
  BY <1>3, <1>5 DEF w

LEMMA WordsAppend ==
  ASSUME NEW kind \in {"assistant", "thinking"}, NEW text \in Seq(Fragments)
  PROVE  /\ \A f \in Fragments : Words(kind, Append(text, f)) = Words(kind, text) \o Word(kind, f)
         /\ \A more \in Seq(Fragments) : Words(kind, text \o more) = Words(kind, text) \o Words(kind, more)
         /\ Words(kind, <<>>) = <<>>
<1> DEFINE w == WordOf(kind)
<1>1. w \in Maps(Fragments, Seq(Sayings)) /\ \A t \in Seq(Fragments) : Words(kind, t) = Together(w, t)
  BY WordType, WordsIs
<1>2. \A f \in Fragments : w[f] = Word(kind, f) /\ Append(text, f) \in Seq(Fragments)
  BY DEF WordOf
<1>3. <<>> \in Seq(Fragments) /\ \A more \in Seq(Fragments) : text \o more \in Seq(Fragments)
  OBVIOUS
<1> HIDE DEF w
<1>4. \A f \in Fragments : Together(w, Append(text, f)) = Together(w, text) \o w[f]
  BY <1>1, TogetherAppend
<1>5. \A more \in Seq(Fragments) : Together(w, text \o more) = Together(w, text) \o Together(w, more)
  BY <1>1, TogetherConcat
<1>6. Words(kind, <<>>) = <<>>
  BY <1>1, <1>3, TogetherNone
<1>7. QED
  BY <1>1, <1>2, <1>3, <1>4, <1>5, <1>6

\* What one block says.
LEMMA SaidIs ==
  ASSUME NEW b \in Blocks
  PROVE  /\ Said(b) \in Seq(Sayings)
         /\ b.kind \in Runs => Said(b) = <<Run(b.detail, b.state)>> /\ Run(b.detail, b.state) \in Sayings
         /\ b.kind \in {"assistant", "thinking"} => Said(b) = Words(b.kind, b.text)
         /\ b.kind \notin Runs \cup {"assistant", "thinking"} => Said(b) = <<>>
         /\ b.kind \notin Runs => Said(b) \in Seq(Wordings)
<1>1. b.text \in Seq(Fragments) /\ b.detail \in MaybeCalls /\ b.state \in {"running", "done", "failed"}
  BY DEF Blocks, BlockOf, Texts
<1>2. CASE b.kind \in Runs
  <2> DEFINE a == Run(b.detail, b.state)
  <2>1. a \in Sayings
    BY <1>1 DEF Run, Sayings
  <2>2. b.kind \notin {"assistant", "thinking"}
    BY <1>2 DEF Runs
  <2>3. Said(b) = <<a>>
    BY <1>2, <2>2 DEF Said
  <2> HIDE DEF a
  <2>4. <<a>> \in Seq(Sayings)
    BY <2>1
  <2>5. QED
    BY <1>2, <2>1, <2>2, <2>3, <2>4 DEF a
<1>3. CASE b.kind \in {"assistant", "thinking"}
  <2>1. b.kind \notin Runs
    BY <1>3 DEF Runs
  <2>2. Said(b) = Words(b.kind, b.text)
    BY <1>3, <2>1 DEF Said
  <2>3. QED
    BY <1>1, <1>3, <2>1, <2>2, WordsIs
<1>4. CASE b.kind \notin Runs \cup {"assistant", "thinking"}
  <2>1. Said(b) = <<>>
    BY <1>4 DEF Said
  <2>2. <<>> \in Seq(Sayings) /\ <<>> \in Seq(Wordings)
    OBVIOUS
  <2>3. QED
    BY <1>4, <2>1, <2>2
<1>5. QED
  BY <1>2, <1>3, <1>4

LEMMA SaysIs ==
  ASSUME NEW bs \in Seq(Blocks)
  PROVE  /\ BlockSays \in Maps(Blocks, Seq(Sayings))
         /\ Says(bs) = Together(BlockSays, bs) /\ Says(bs) \in Seq(Sayings)
<1>1. \A i \in DOMAIN bs : bs[i] \in Blocks
  OBVIOUS
<1>2. [i \in DOMAIN bs |-> Said(bs[i])] = Each(BlockSays, bs)
  BY <1>1 DEF Each, BlockSays
<1>3. Says(bs) = Together(BlockSays, bs)
  BY <1>2 DEF Says, Together
<1>4. BlockSays \in Maps(Blocks, Seq(Sayings))
  <2>1. \A b \in Blocks : Said(b) \in Seq(Sayings)
    BY SaidIs
  <2>2. QED
    BY <2>1 DEF BlockSays, Maps
<1>5. QED
  BY <1>3, <1>4, TogetherType

LEMMA SaysAppend ==
  ASSUME NEW bs \in Seq(Blocks), NEW b \in Blocks
  PROVE  /\ Append(bs, b) \in Seq(Blocks)
         /\ Says(Append(bs, b)) = Says(bs) \o Said(b)
         /\ Said(b) = <<>> => Says(Append(bs, b)) = Says(bs)
<1> DEFINE cs == Append(bs, b)
           w == BlockSays
<1>1. cs \in Seq(Blocks) /\ w[b] = Said(b)
  BY DEF BlockSays
<1>2. w \in Maps(Blocks, Seq(Sayings)) /\ Says(bs) = Together(w, bs) /\ Says(bs) \in Seq(Sayings)
  BY SaysIs
<1>3. Says(cs) = Together(w, cs)
  BY <1>1, SaysIs
<1> HIDE DEF w
<1>4. Together(w, Append(bs, b)) = Together(w, bs) \o w[b]
  BY <1>2, TogetherAppend
<1>5. Says(cs) = Says(bs) \o Said(b)
  BY <1>1, <1>2, <1>3, <1>4
<1>6. Says(bs) \o <<>> = Says(bs)
  <2> DEFINE s == Says(bs)
  <2>1. s \in Seq(Sayings)
    BY <1>2
  <2> HIDE DEF s
  <2>2. s \o <<>> = s
    BY <2>1, ConcatNone
  <2>3. QED
    BY <2>2 DEF s
<1>7. QED
  BY <1>1, <1>5, <1>6

\* The blocks but the last are fewer by what the last says.
LEMMA SaysFront ==
  ASSUME NEW bs \in Seq(Blocks), Len(bs) # 0
  PROVE  /\ Front(bs) \in Seq(Blocks)
         /\ Says(bs) = Says(Front(bs)) \o Said(bs[Len(bs)])
         /\ Said(bs[Len(bs)]) = <<>> => Says(Front(bs)) = Says(bs)
<1> DEFINE L == Len(bs)
           fs == Front(bs)
           b == bs[L]
           cs == Append(fs, b)
<1>1. /\ L \in Nat /\ L # 0 /\ b \in Blocks
      /\ fs \in Seq(Blocks) /\ Len(fs) = L - 1 /\ \A i \in 1..L - 1 : fs[i] = bs[i]
  BY FrontIs
<1> HIDE DEF fs, b
<1>2. /\ cs \in Seq(Blocks) /\ Len(cs) = (L - 1) + 1 /\ cs[(L - 1) + 1] = b
      /\ \A i \in 1..L - 1 : cs[i] = fs[i]
  BY <1>1, AppendIs
<1> HIDE DEF cs
<1>3. (L - 1) + 1 = L /\ \A i \in 1..L : i = L \/ i \in 1..L - 1
  BY <1>1
<1>4. \A i \in 1..L : cs[i] = bs[i]
  BY <1>1, <1>2, <1>3 DEF b
<1>5. cs = bs
  BY <1>2, <1>3, <1>4, SequencesEqual
<1>6. /\ Says(cs) = Says(fs) \o Said(b)
      /\ Said(b) = <<>> => Says(cs) = Says(fs)
  BY <1>1, SaysAppend DEF cs
<1>7. QED
  BY <1>1, <1>5, <1>6 DEF fs, b

LEMMA SaidOfNote ==
  ASSUME NEW kind \in Working \cup {"user", "notice", "error", "gate"}
  PROVE  Note(kind) \in Blocks /\ Said(Note(kind)) = <<>>
<1>1. kind \in Kinds /\ kind \notin Runs \cup {"assistant", "thinking"}
  BY DEF Kinds, Runs, Working
<1> DEFINE b == Note(kind)
<1>2. b \in Blocks /\ b.kind = kind
  BY <1>1, NoteType
<1> HIDE DEF b
<1>3. Said(b) = <<>>
  BY <1>1, <1>2, SaidIs
<1>4. QED
  BY <1>2, <1>3 DEF b

LEMMA NoteSaysNothing ==
  ASSUME NEW bs \in Seq(Blocks), NEW kind \in Working \cup {"user", "notice", "error", "gate"}
  PROVE  Append(bs, Note(kind)) \in Seq(Blocks) /\ Says(Append(bs, Note(kind))) = Says(bs)
BY SaidOfNote, SaysAppend

\* An indicator and a gate that are taken away said nothing.
LEMMA FrontSaysAll ==
  ASSUME NEW bs \in Seq(Blocks), LastKind(bs) \in Working \cup {"gate"}
  PROVE  Front(bs) \in Seq(Blocks) /\ Says(Front(bs)) = Says(bs)
<1> DEFINE L == Len(bs)
           b == bs[L]
<1>1. LastKind(bs) \in Kinds
  BY DEF Working, Kinds
<1>2. L \in Nat \ {0} /\ b.kind \in Working \cup {"gate"} /\ b \in Blocks
  BY <1>1, LastKindIs
<1>3. b.kind \notin Runs \cup {"assistant", "thinking"}
  BY <1>2 DEF Working, Runs
<1> HIDE DEF b
<1>4. Said(b) = <<>>
  BY <1>2, <1>3, SaidIs
<1>5. QED
  BY <1>2, <1>4, SaysFront DEF b

LEMMA RetireSaysAll ==
  ASSUME NEW bs \in Seq(Blocks)
  PROVE  Retire(bs) \in Seq(Blocks) /\ Says(Retire(bs)) = Says(bs)
BY FrontSaysAll DEF Retire

LEMMA PushSaysNothing ==
  ASSUME NEW bs \in Seq(Blocks), NEW kind \in Working
  PROVE  Says(Push(bs, Note(kind))) = Says(bs)
<1>1. CASE LastKind(bs) \in Working
  <2> DEFINE fs == Front(bs)
  <2>1. fs \in Seq(Blocks) /\ Says(fs) = Says(bs)
    BY <1>1, FrontSaysAll
  <2>2. Push(bs, Note(kind)) = Append(fs, Note(kind))
    BY <1>1, NoteType DEF Push
  <2> HIDE DEF fs
  <2>3. QED
    BY <2>1, <2>2, NoteSaysNothing
<1>2. CASE LastKind(bs) \notin Working
  <2>1. Push(bs, Note(kind)) = Append(bs, Note(kind))
    BY <1>2 DEF Push
  <2>2. QED
    BY <2>1, NoteSaysNothing
<1>3. QED
  BY <1>1, <1>2

\* What a chunk says comes last, whether it begins a block or goes on with one.
LEMMA ChunkSays ==
  ASSUME NEW bs \in Seq(Blocks), NEW kind \in {"assistant", "thinking"}, NEW f \in Fragments
  PROVE  Says(Chunk(bs, kind, f)) = Says(bs) \o Word(kind, f)
<1> DEFINE L == Len(bs)
           cs == Chunk(bs, kind, f)
<1>1. CASE LastKind(bs) = kind
  <2> DEFINE b == bs[L]
             text == b.text
             new == [b EXCEPT !.text = Append(@, f)]
             fs == Front(bs)
             ds == Append(fs, new)
  <2>1. L \in Nat \ {0} /\ b.kind = kind /\ b \in Blocks
    BY <1>1, LastKindIs DEF Kinds
  <2>2. text \in Seq(Fragments)
    BY <2>1 DEF Blocks, BlockOf, Texts
  <2>3. Append(text, f) \in Seq(Fragments)
    <3> HIDE DEF text
    <3>1. QED
      BY <2>2
  <2>4. new \in Blocks /\ new.kind = kind /\ new.text = Append(text, f)
    BY <2>1, <2>3 DEF Blocks, BlockOf, Texts
  <2>5. cs = [bs EXCEPT ![L] = new]
    BY <1>1 DEF Chunk
  <2> HIDE DEF new, text, b, cs
  <2>6. /\ fs \in Seq(Blocks) /\ Len(fs) = L - 1 /\ \A i \in 1..L - 1 : fs[i] = bs[i]
    BY <2>1, FrontIs
  <2> HIDE DEF fs
  <2>7. /\ ds \in Seq(Blocks) /\ Len(ds) = (L - 1) + 1 /\ ds[(L - 1) + 1] = new
        /\ \A i \in 1..L - 1 : ds[i] = fs[i]
    BY <2>4, <2>6, AppendIs
  <2>8. cs \in Seq(Blocks) /\ Len(cs) = L /\ cs[L] = new /\ \A i \in 1..L - 1 : cs[i] = bs[i]
    <3>1. DOMAIN bs = 1..L /\ L \in 1..L /\ \A i \in 1..L - 1 : i \in 1..L /\ i # L
      BY <2>1
    <3>2. cs \in [1..L -> Blocks]
      <4>1. bs \in [1..L -> Blocks]
        BY <2>1
      <4>2. QED
        BY <2>4, <2>5, <3>1, <4>1
    <3>3. cs \in Seq(Blocks) /\ Len(cs) = L
      BY <2>1, <3>2, SequenceIs
    <3>4. QED
      BY <2>5, <3>1, <3>3
  <2>9. \A i \in 1..L : cs[i] = ds[i]
    <3>1. (L - 1) + 1 = L /\ \A i \in 1..L : i = L \/ i \in 1..L - 1
      BY <2>1
    <3>2. QED
      BY <2>6, <2>7, <2>8, <3>1
  <2>10. (L - 1) + 1 = L
    BY <2>1
  <2> HIDE DEF ds, L
  <2>11. cs = ds
    BY <2>7, <2>8, <2>9, <2>10, SequencesEqual
  <2>12. Says(ds) = Says(fs) \o Said(new)
    BY <2>4, <2>6, SaysAppend DEF ds
  <2>13. Says(bs) = Says(fs) \o Said(b)
    BY <2>1, SaysFront DEF fs, b, L
  <2>14. /\ Said(b) = Words(kind, text) /\ Said(new) = Words(kind, Append(text, f))
         /\ Said(b) \in Seq(Sayings) /\ Says(fs) \in Seq(Sayings)
    BY <2>1, <2>4, <2>6, SaidIs, SaysIs DEF text
  <2>15. Said(new) = Said(b) \o Word(kind, f)
    BY <2>2, <2>14, WordsAppend
  <2> DEFINE x == Says(fs)
             y == Said(b)
             z == Word(kind, f)
  <2>16. x \in Seq(Sayings) /\ y \in Seq(Sayings) /\ z \in Seq(Sayings)
    BY <2>14, WordType
  <2>17. Says(cs) = x \o (y \o z) /\ Says(bs) = x \o y
    BY <2>11, <2>12, <2>13, <2>15
  <2> HIDE DEF x, y, z
  <2>18. (x \o y) \o z = x \o (y \o z)
    BY <2>16, ConcatAssoc
  <2>19. QED
    BY <2>17, <2>18 DEF cs, z
<1>2. CASE LastKind(bs) # kind
  <2> DEFINE text == <<f>>
             b == Text(kind, text)
  <2>1. b \in Blocks /\ b.kind = kind /\ b.text = text /\ text \in Seq(Fragments)
    <3>1. kind \in Kinds /\ text \in Texts /\ text \in Seq(Fragments) /\ None \in MaybeCalls
      BY DEF Kinds, Texts, MaybeCalls
    <3> HIDE DEF text
    <3>2. QED
      BY <3>1, BlockType DEF Text, Blocks, Block
  <2>2. cs = Append(bs, b)
    BY <1>2 DEF Chunk
  <2>3. text = Append(<<>>, f)
    OBVIOUS
  <2> HIDE DEF b, text
  <2>4. Said(b) = Words(kind, text)
    BY <2>1, SaidIs
  <2>5. Words(kind, text) = <<>> \o Word(kind, f)
    <3> DEFINE none == <<>>
    <3>1. none \in Seq(Fragments)
      OBVIOUS
    <3>2. text = Append(none, f) /\ none = <<>>
      BY <2>3
    <3> HIDE DEF none
    <3>3. Words(kind, text) = Words(kind, none) \o Word(kind, f) /\ Words(kind, none) = <<>>
      BY <3>1, <3>2, WordsAppend
    <3>4. QED
      BY <3>3
  <2>6. <<>> \o Word(kind, f) = Word(kind, f)
    <3> DEFINE z == Word(kind, f)
    <3>1. z \in Seq(Sayings)
      BY WordType
    <3> HIDE DEF z
    <3>2. <<>> \o z = z
      BY <3>1, ConcatNone
    <3>3. QED
      BY <3>2 DEF z
  <2>7. Says(Append(bs, b)) = Says(bs) \o Said(b)
    BY <2>1, SaysAppend
  <2>8. QED
    BY <2>2, <2>4, <2>5, <2>6, <2>7
<1>3. QED
  BY <1>1, <1>2

LEMMA SaysConcat ==
  ASSUME NEW bs \in Seq(Blocks), NEW cs \in Seq(Blocks)
  PROVE  Says(bs \o cs) = Says(bs) \o Says(cs)
<1> DEFINE w == BlockSays
           ds == bs \o cs
           A == Blocks
           S == Sayings
<1>1. ds \in Seq(Blocks)
  OBVIOUS
<1>2. w \in Maps(A, Seq(S)) /\ Says(bs) = Together(w, bs) /\ Says(cs) = Together(w, cs)
  BY SaysIs
<1>3. Says(ds) = Together(w, ds)
  BY <1>1, SaysIs
<1>6. w \in Maps(A, Seq(S)) /\ bs \in Seq(A) /\ cs \in Seq(A)
  BY <1>2
<1> HIDE DEF w, ds, A, S
<1>4. Together(w, bs \o cs) = Together(w, bs) \o Together(w, cs)
  BY ONLY <1>6, TogetherConcat
<1>5. QED
  BY <1>2, <1>3, <1>4 DEF ds

LEMMA PartIs ==
  ASSUME NEW S, NEW s \in Seq(S), NEW m \in Nat, NEW n \in Nat, m + n <= Len(s)
  PROVE  /\ SubSeq(s, m + 1, m + n) \in Seq(S) /\ Len(SubSeq(s, m + 1, m + n)) = n
         /\ \A j \in 1..n : SubSeq(s, m + 1, m + n)[j] = s[m + j]
<1> DEFINE p == [j \in 1..n |-> s[m + j]]
<1>1. \A j \in 1..n : m + j \in 1..Len(s) /\ s[m + j] \in S /\ m + j = j + (m + 1) - 1
  OBVIOUS
<1>2. p \in [1..n -> S]
  BY <1>1
<1>3. SubSeq(s, m + 1, m + n) = p
  BY <1>1
<1> HIDE DEF p
<1>4. p \in Seq(S) /\ Len(p) = n
  BY <1>2, SequenceIs
<1>5. QED
  BY <1>3, <1>4 DEF p

\* What comes before an element, the element, and what comes after it.
Before(s, i) == SubSeq(s, 0 + 1, 0 + (i - 1))
After(s, i) == SubSeq(s, i + 1, i + (Len(s) - i))

LEMMA PartedIs ==
  ASSUME NEW S, NEW s \in Seq(S), NEW i \in 1..Len(s)
  PROVE  /\ Before(s, i) \in Seq(S) /\ Len(Before(s, i)) = i - 1
         /\ \A j \in 1..i - 1 : Before(s, i)[j] = s[j]
         /\ After(s, i) \in Seq(S) /\ Len(After(s, i)) = Len(s) - i
         /\ \A j \in 1..Len(s) - i : After(s, i)[j] = s[i + j]
         /\ Append(Before(s, i), s[i]) \in Seq(S)
         /\ s = Append(Before(s, i), s[i]) \o After(s, i)
<1> DEFINE L == Len(s)
           p == Before(s, i)
           q == After(s, i)
           x == s[i]
           u == Append(p, x)
<1>1. L \in Nat /\ i \in Nat /\ i - 1 \in Nat /\ L - i \in Nat /\ i + (L - i) = L /\ x \in S
  OBVIOUS
<1>2. p \in Seq(S) /\ Len(p) = i - 1 /\ \A j \in 1..i - 1 : p[j] = s[j]
  <2> DEFINE m == 0
             n == i - 1
  <2>1. m \in Nat /\ n \in Nat /\ m + n <= Len(s) /\ \A j \in 1..n : m + j = j
    BY <1>1
  <2>2. p = SubSeq(s, m + 1, m + n)
    BY DEF Before
  <2> HIDE DEF m, n, p
  <2>3. p \in Seq(S) /\ Len(p) = n /\ \A j \in 1..n : p[j] = s[m + j]
    BY <2>1, <2>2, PartIs
  <2>4. QED
    BY <2>1, <2>3 DEF n
<1>3. q \in Seq(S) /\ Len(q) = L - i /\ \A j \in 1..L - i : q[j] = s[i + j]
  <2> DEFINE n == L - i
  <2>1. i \in Nat /\ n \in Nat /\ i + n <= Len(s)
    BY <1>1
  <2>2. q = SubSeq(s, i + 1, i + n)
    BY DEF After
  <2> HIDE DEF n, q
  <2>3. q \in Seq(S) /\ Len(q) = n /\ \A j \in 1..n : q[j] = s[i + j]
    BY <2>1, <2>2, PartIs
  <2>4. QED
    BY <2>3 DEF n
<1> HIDE DEF p, q, x, L
<1>4. /\ u \in Seq(S) /\ Len(u) = (i - 1) + 1 /\ u[(i - 1) + 1] = x
      /\ \A j \in 1..i - 1 : u[j] = p[j]
  BY <1>1, <1>2
<1> HIDE DEF u
<1>5. Joined(u, q, s)
  <2>1. Len(u) = i /\ u[i] = s[i]
    BY <1>1, <1>4 DEF x
  <2>2. Len(s) = Len(u) + Len(q)
    BY <1>1, <1>3, <2>1 DEF L
  <2>3. \A j \in 1..i : j = i \/ j \in 1..i - 1
    BY <1>1
  <2>4. \A j \in 1..Len(u) : s[j] = u[j]
    BY <1>2, <1>4, <2>1, <2>3
  <2>5. \A j \in 1..Len(q) : s[Len(u) + j] = q[j]
    BY <1>3, <2>1
  <2>6. QED
    BY <2>2, <2>4, <2>5 DEF Joined
<1>6. s = u \o q
  BY <1>3, <1>4, <1>5, IsConcat
<1>7. QED
  BY <1>2, <1>3, <1>4, <1>6 DEF p, q, u, x, L

\* s and t say the same but for the last run of both, which is a in s and b in t.
Replaced(s, t, a, b) ==
  /\ Len(s) = Len(t)
  /\ \E i \in 1..Len(s) : /\ s[i] = a /\ t[i] = b
                          /\ \A j \in 1..Len(s) : j # i => s[j] = t[j]
                          /\ \A j \in 1..Len(s) : i < j => s[j].kind # "run"

LEMMA ReplacedIs ==
  ASSUME NEW p \in Seq(Sayings), NEW z \in Seq(Wordings), NEW a \in Sayings, NEW b \in Sayings
  PROVE  Replaced(Append(p, a) \o z, Append(p, b) \o z, a, b)
<1> DEFINE k == Len(p) + 1
           n == Len(z)
           u == Append(p, a)
           v == Append(p, b)
           s == u \o z
           t == v \o z
<1>1. k \in Nat /\ k \in 1..k /\ n \in Nat /\ k \in 1..k + n
  OBVIOUS
<1>2. /\ u \in Seq(Sayings) /\ Len(u) = k /\ u[k] = a /\ \A j \in 1..k : j # k => u[j] = p[j]
      /\ v \in Seq(Sayings) /\ Len(v) = k /\ v[k] = b /\ \A j \in 1..k : j # k => v[j] = p[j]
  OBVIOUS
<1>3. z \in Seq(Sayings) /\ \A j \in 1..n : z[j].kind # "run"
  BY DEF Wordings
<1> HIDE DEF u, v, k
<1>4. /\ s \in Seq(Sayings) /\ Len(s) = Len(u) + Len(z)
      /\ \A j \in 1..Len(u) : s[j] = u[j]
      /\ \A j \in 1..Len(z) : s[Len(u) + j] = z[j]
  BY <1>2, <1>3, ConcatIs
<1>5. /\ t \in Seq(Sayings) /\ Len(t) = Len(v) + Len(z)
      /\ \A j \in 1..Len(v) : t[j] = v[j]
      /\ \A j \in 1..Len(z) : t[Len(v) + j] = z[j]
  BY <1>2, <1>3, ConcatIs
<1> HIDE DEF s, t, n
<1>6. /\ Len(s) = k + n /\ \A j \in 1..k : s[j] = u[j]
      /\ Len(t) = k + n /\ \A j \in 1..k : t[j] = v[j]
      /\ \A j \in 1..n : s[k + j] = z[j] /\ t[k + j] = z[j]
  BY <1>2, <1>4, <1>5 DEF n
<1>7. ASSUME NEW j \in 1..k + n, j # k PROVE s[j] = t[j] /\ (k < j => s[j].kind # "run")
  <2>1. CASE j < k
    <3>1. j \in 1..k
      BY <1>1, <1>7, <2>1
    <3>2. QED
      BY <1>1, <1>2, <1>6, <1>7, <2>1, <3>1
  <2>2. CASE ~(j < k)
    <3>1. j - k \in 1..n /\ k + (j - k) = j
      BY <1>1, <1>7, <2>2
    <3>2. s[k + (j - k)] = z[j - k] /\ t[k + (j - k)] = z[j - k] /\ z[j - k].kind # "run"
      BY <1>3, <1>6, <3>1
    <3>3. QED
      BY <3>1, <3>2
  <2>3. QED
    BY <2>1, <2>2
<1>8. s[k] = a /\ t[k] = b
  BY <1>1, <1>2, <1>6
<1>9. Replaced(s, t, a, b)
  <2>1. \A j \in 1..k + n : k < j => j # k
    BY <1>1
  <2>2. QED
    BY <1>1, <1>6, <1>7, <1>8, <2>1 DEF Replaced
<1>10. QED
  BY <1>9 DEF s, t, u, v

\* A change of the latest run changes one thing that is said, the last of the runs.
LEMMA RunSaysOther ==
  ASSUME NEW bs \in Seq(Blocks), NEW cs \in Seq(Blocks), NEW i, Latest(bs, i), Len(cs) = Len(bs),
         \A j \in DOMAIN bs : j # i => cs[j] = bs[j], cs[i].kind \in Runs
  PROVE  Replaced(Says(bs), Says(cs), Run(bs[i].detail, bs[i].state), Run(cs[i].detail, cs[i].state))
<1> DEFINE L == Len(bs)
           p == Before(bs, i)
           q == After(bs, i)
           b == bs[i]
           c == cs[i]
           u == Append(p, b)
           v == Append(p, c)
<1>1. L \in Nat /\ DOMAIN bs = 1..L /\ i \in 1..L /\ b.kind \in Runs /\ b \in Blocks /\ c \in Blocks
  BY DEF Latest
<1>2. /\ p \in Seq(Blocks) /\ Len(p) = i - 1 /\ \A j \in 1..i - 1 : p[j] = bs[j]
      /\ q \in Seq(Blocks) /\ Len(q) = L - i /\ \A j \in 1..L - i : q[j] = bs[i + j]
      /\ u \in Seq(Blocks) /\ bs = u \o q
  BY <1>1, PartedIs
<1>3. \A j \in 1..L - i : i + j \in 1..L /\ i < i + j /\ bs[i + j].kind \notin Runs
  <2>1. \A j \in 1..L - i : i + j \in 1..L /\ i < i + j
    BY <1>1
  <2>2. QED
    BY <1>1, <2>1 DEF Latest
<1>4. Before(cs, i) = p /\ After(cs, i) = q
  <2> DEFINE r == Before(cs, i)
             s == After(cs, i)
  <2>1. /\ r \in Seq(Blocks) /\ Len(r) = i - 1 /\ \A j \in 1..i - 1 : r[j] = cs[j]
        /\ s \in Seq(Blocks) /\ Len(s) = L - i /\ \A j \in 1..L - i : s[j] = cs[i + j]
    <3>1. i \in 1..Len(cs) /\ Len(cs) = L /\ cs \in Seq(Blocks)
      BY <1>1
    <3> HIDE DEF L, p, q, b, c, u, v
    <3>2. /\ r \in Seq(Blocks) /\ Len(r) = i - 1 /\ \A j \in 1..i - 1 : r[j] = cs[j]
          /\ s \in Seq(Blocks) /\ Len(s) = Len(cs) - i /\ \A j \in 1..Len(cs) - i : s[j] = cs[i + j]
      BY ONLY <3>1, PartedIs
    <3>3. QED
      BY ONLY <3>1, <3>2
  <2>2. /\ \A j \in 1..i - 1 : j \in 1..L /\ j # i
        /\ \A j \in 1..L - i : i + j \in 1..L /\ i + j # i
    BY <1>1
  <2> HIDE DEF p, q, r, s
  <2>3. (\A j \in 1..i - 1 : r[j] = p[j]) /\ (\A j \in 1..L - i : s[j] = q[j])
    BY <1>1, <1>2, <2>1, <2>2
  <2>4. r = p /\ s = q
    BY <1>2, <2>1, <2>3, SequencesEqual
  <2>5. QED
    BY <2>4 DEF r, s
<1>5. cs = v \o q /\ v \in Seq(Blocks)
  <2>1. i \in 1..Len(cs)
    BY <1>1
  <2> DEFINE w == Append(Before(cs, i), cs[i])
             r == After(cs, i)
  <2>2. w \in Seq(Blocks) /\ cs = w \o r
    BY <2>1, PartedIs
  <2>3. w = v /\ r = q
    BY <1>4
  <2>4. QED
    BY <2>2, <2>3
<1> HIDE DEF p, q, b, c
<1>6. /\ Says(u) = Says(p) \o Said(b) /\ Says(v) = Says(p) \o Said(c)
      /\ Says(p) \in Seq(Sayings)
  BY <1>1, <1>2, SaysAppend, SaysIs
<1>7. /\ Said(b) = <<Run(b.detail, b.state)>> /\ Run(b.detail, b.state) \in Sayings
      /\ Said(c) = <<Run(c.detail, c.state)>> /\ Run(c.detail, c.state) \in Sayings
  BY <1>1, SaidIs DEF c
<1>8. Says(u \o q) = Says(u) \o Says(q) /\ Says(v \o q) = Says(v) \o Says(q)
  <2>1. u \in Seq(Blocks) /\ v \in Seq(Blocks) /\ q \in Seq(Blocks)
    BY <1>2, <1>5
  <2> HIDE DEF u, v
  <2>2. QED
    BY ONLY <2>1, SaysConcat
<1>9. Says(q) \in Seq(Wordings)
  <2> DEFINE Q == {x \in Blocks : x.kind \notin Runs}
             w == [x \in Q |-> Said(x)]
             n == L - i
  <2>1. q \in Seq(Q)
    <3>0. q \in Seq(Blocks) /\ Len(q) = n /\ n \in Nat
      BY <1>1, <1>2
    <3>4. \A j \in 1..n : q[j].kind \notin Runs
      BY <1>2, <1>3
    <3>5. q \in [1..n -> Blocks]
      BY ONLY <3>0
    <3>1. n \in Nat /\ q \in [1..n -> Blocks] /\ \A j \in 1..n : q[j].kind \notin Runs
      BY <3>0, <3>4, <3>5
    <3>2. q \in [1..n -> Q]
      BY ONLY <3>1
    <3> HIDE DEF Q, n
    <3>3. QED
      BY <3>1, <3>2, SequenceIs
  <2>2. w \in Maps(Q, Seq(Wordings))
    <3>1. \A x \in Q : Said(x) \in Seq(Wordings)
      BY SaidIs
    <3>2. QED
      BY <3>1 DEF Maps
  <2>3. [j \in DOMAIN q |-> Said(q[j])] = Each(w, q)
    <3>1. \A j \in DOMAIN q : q[j] \in Q
      BY <2>1
    <3>2. QED
      BY <3>1 DEF Each
  <2>4. Says(q) = Together(w, q)
    BY <2>3 DEF Says, Together
  <2> HIDE DEF w, Q
  <2>5. QED
    BY <2>1, <2>2, <2>4, TogetherType
<1> DEFINE a == Says(p)
           z == Says(q)
           x == Run(b.detail, b.state)
           y == Run(c.detail, c.state)
<1>10. /\ Says(bs) = (a \o <<x>>) \o z /\ Says(cs) = (a \o <<y>>) \o z
       /\ a \in Seq(Sayings) /\ z \in Seq(Wordings) /\ x \in Sayings /\ y \in Sayings
  BY <1>2, <1>5, <1>6, <1>7, <1>8, <1>9
<1> HIDE DEF a, z, x, y
<1>11. a \o <<x>> = Append(a, x) /\ a \o <<y>> = Append(a, y)
  BY <1>10
<1>12. Replaced(Append(a, x) \o z, Append(a, y) \o z, x, y)
  BY <1>10, ReplacedIs
<1>13. QED
  BY <1>10, <1>11, <1>12 DEF x, y, b, c

\* s and t say the same but for the state of their last run.
Restated(s, t, state) == \E d, old : Replaced(s, t, Run(d, old), Run(d, state))

LEMMA UpdateToolSays ==
  ASSUME NEW bs \in Seq(Blocks), NEW i, Latest(bs, i), NEW state \in {"done", "failed"},
         NEW output \in MaybeCalls
  PROVE  /\ UpdateTool(bs, state, output) \in Seq(Blocks)
         /\ Restated(Says(bs), Says(UpdateTool(bs, state, output)), state)
<1> DEFINE cs == UpdateTool(bs, state, output)
           b == bs[i]
<1>1. /\ DOMAIN cs = DOMAIN bs /\ \A j \in DOMAIN bs : j # i => cs[j] = bs[j]
      /\ cs[i] = Ended(b, state, output)
  BY UpdateToolIs
<1>2. cs \in Seq(Blocks) /\ Len(cs) = Len(bs)
  BY UpdateToolKinds DEF KindsKept
<1>3. b \in Blocks /\ b.kind \in Runs
  BY DEF Latest
<1> HIDE DEF cs, b
<1>4. Ended(b, state, output).kind = b.kind /\ Ended(b, state, output).detail = b.detail
      /\ Ended(b, state, output).state = state
  BY <1>3 DEF Ended, Blocks, BlockOf
<1>5. cs[i].kind \in Runs /\ cs[i].detail = b.detail /\ cs[i].state = state
  BY <1>1, <1>3, <1>4
<1>6. Replaced(Says(bs), Says(cs), Run(bs[i].detail, bs[i].state), Run(cs[i].detail, cs[i].state))
  BY <1>1, <1>2, <1>5, RunSaysOther
<1>7. Restated(Says(bs), Says(cs), state)
  BY <1>5, <1>6 DEF Restated, b
<1>8. QED
  BY <1>2, <1>7 DEF cs

\* What a shell prints is no part of what is said.
LEMMA ShellLineSays ==
  ASSUME NEW bs \in Seq(Blocks), NEW c \in Calls
  PROVE  ShellLine(bs, c) \in Seq(Blocks) /\ Says(ShellLine(bs, c)) = Says(bs)
<1> DEFINE k == LastOf(bs, {"shell"})
           cs == ShellLine(bs, c)
<1>1. cs \in Seq(Blocks) /\ Len(cs) = Len(bs) /\ DOMAIN cs = DOMAIN bs
  <2>1. KindsKept(bs, cs)
    BY ShellLineKinds
  <2>2. QED
    BY <2>1 DEF KindsKept
<1>2. cs = IF k = 0 THEN bs ELSE [bs EXCEPT ![k].output = c]
  BY DEF ShellLine
<1> HIDE DEF cs, k
<1>3. ASSUME NEW j \in DOMAIN bs
      PROVE  Said(cs[j]) = Said(bs[j])
  <2> DEFINE b == bs[j]
             x == cs[j]
  <2>1. b \in Blocks /\ x \in Blocks
    BY <1>1
  <2>2. x = b \/ x = [b EXCEPT !.output = c]
    BY <1>2
  <2> HIDE DEF b, x
  <2>3. x.kind = b.kind /\ x.detail = b.detail /\ x.state = b.state /\ x.text = b.text
    BY <2>1, <2>2 DEF Blocks, BlockOf
  <2>4. Said(x) = Said(b)
    BY <2>3 DEF Said
  <2>5. QED
    BY <2>4 DEF b, x
<1>4. [j \in DOMAIN cs |-> Said(cs[j])] = [j \in DOMAIN bs |-> Said(bs[j])]
  BY <1>1, <1>3
<1>5. Says(cs) = Says(bs)
  BY <1>4 DEF Says
<1>6. QED
  BY <1>1, <1>5 DEF cs

-------------------------------------------------------------------------------
(* What is said while a call is at work *)

\* The run of c comes to stand as it does in status state.
Settling(c, state) == [a \in Sayings |-> IF RunOf(a, c) THEN Run(c, state) ELSE a]

LEMMA RunIs ==
  ASSUME NEW c \in MaybeCalls, NEW state \in {"running", "done", "failed"}
  PROVE  /\ Run(c, state) \in Sayings /\ Run(c, state).kind = "run" /\ RunOf(Run(c, state), c)
         /\ \A d : RunOf(Run(c, state), d) => d = c
BY DEF Run, Sayings, RunOf

LEMMA SettlingIs ==
  ASSUME NEW c \in MaybeCalls, NEW state \in {"running", "done", "failed"}
  PROVE  /\ Settling(c, state) \in [Sayings -> Sayings]
         /\ \A a \in Sayings : /\ RunOf(a, c) => Settling(c, state)[a] = Run(c, state)
                               /\ ~RunOf(a, c) => Settling(c, state)[a] = a
<1>1. Run(c, state) \in Sayings
  BY RunIs
<1>2. QED
  BY <1>1 DEF Settling

LEMMA LacksNoMore ==
  ASSUME NEW s \in Seq(Sayings), NEW h, NEW c \in Calls, Lacks(s, h, c)
  PROVE  Append(s, Run(c, "running")) = h /\ Awaits(h, h, c)
<1> DEFINE a == Run(c, "running")
           i == Len(s) + 1
<1>1. a \in Sayings /\ RunOf(a, c)
  BY RunIs DEF MaybeCalls
<1>2. h = Append(s, a) /\ \A j \in 1..Len(s) : ~RunOf(s[j], c)
  BY DEF Lacks, NoRun
<1> HIDE DEF a
<1>3. /\ Len(h) = i /\ i \in 1..i /\ h[i] = a /\ \A j \in 1..i : j # i => h[j] = s[j] /\ j \in 1..Len(s)
      /\ \A j \in 1..i : ~(i < j)
  BY <1>1, <1>2
<1> HIDE DEF i
<1>4. \A j \in 1..i : j # i => ~RunOf(h[j], c)
  BY <1>2, <1>3
<1>5. Awaits(h, h, c)
  BY <1>1, <1>3, <1>4 DEF Awaits, a
<1>6. QED
  BY <1>2, <1>5 DEF a

LEMMA LacksSettled ==
  ASSUME NEW s \in Seq(Sayings), NEW h \in Seq(Sayings), NEW c \in Calls, Lacks(s, h, c)
  PROVE  Mapped(h, Settling(c, "running")) = h
<1> DEFINE p == Settling(c, "running")
           a == Run(c, "running")
           k == Mapped(h, p)
           n == Len(s)
<1>1. c \in MaybeCalls /\ "running" \in {"running", "done", "failed"}
  BY DEF MaybeCalls
<1>2. a \in Sayings /\ RunOf(a, c)
  BY <1>1, RunIs
<1>3. p \in [Sayings -> Sayings] /\ p[a] = a /\ \A x \in Sayings : ~RunOf(x, c) => p[x] = x
  BY <1>1, <1>2, SettlingIs
<1>4. h = Append(s, a) /\ \A j \in 1..n : ~RunOf(s[j], c)
  BY DEF Lacks, NoRun
<1> HIDE DEF p, a
<1>5. /\ n \in Nat /\ Len(h) = n + 1 /\ h[n + 1] = a /\ \A j \in 1..n : h[j] = s[j] /\ s[j] \in Sayings
      /\ \A j \in 1..n + 1 : j = n + 1 \/ j \in 1..n
  BY <1>2, <1>4
<1>6. k \in Seq(Sayings) /\ Len(k) = Len(h) /\ \A j \in 1..Len(h) : k[j] = p[h[j]]
  BY <1>3, MappedType
<1> HIDE DEF k, n
<1>7. \A j \in 1..Len(h) : k[j] = h[j]
  BY <1>3, <1>4, <1>5, <1>6
<1>8. k = h
  BY <1>6, <1>7, SequencesEqual
<1>9. QED
  BY <1>8 DEF k, p

\* The run of c is the i-th thing that s and h say, and their last run.
AwaitsAt(s, h, c, i) ==
  /\ i \in 1..Len(s) /\ h[i] = Run(c, "running") /\ RunOf(s[i], c)
  /\ \A j \in 1..Len(s) : j # i => s[j] = h[j] /\ ~RunOf(s[j], c)
  /\ \A j \in 1..Len(s) : i < j => s[j].kind # "run"

LEMMA AwaitsIs ==
  ASSUME NEW s, NEW h, NEW c
  PROVE  Awaits(s, h, c) <=> Len(s) = Len(h) /\ \E i : AwaitsAt(s, h, c, i)
BY DEF Awaits, AwaitsAt

LEMMA AwaitsExtended ==
  ASSUME NEW s \in Seq(Sayings), NEW h \in Seq(Sayings), NEW c \in Calls, Awaits(s, h, c),
         NEW w \in Seq(Wordings)
  PROVE  Awaits(s \o w, h \o w, c)
<1> DEFINE t == s \o w
           k == h \o w
           n == Len(s)
           m == Len(w)
<1>1. Len(h) = n /\ \E i : AwaitsAt(s, h, c, i)
  BY AwaitsIs
<1>2. PICK i : AwaitsAt(s, h, c, i)
  BY <1>1
<1>3. w \in Seq(Sayings) /\ m \in Nat /\ \A j \in 1..m : w[j].kind # "run"
  BY DEF Wordings
<1>4. /\ Len(t) = n + m /\ \A j \in 1..n : t[j] = s[j]
      /\ \A j \in 1..m : t[n + j] = w[j]
  BY <1>3, ConcatIs
<1>5. /\ Len(k) = n + m /\ \A j \in 1..n : k[j] = h[j]
      /\ \A j \in 1..m : k[n + j] = w[j]
  <2>1. /\ Len(k) = Len(h) + Len(w) /\ \A j \in 1..Len(h) : k[j] = h[j]
        /\ \A j \in 1..Len(w) : k[Len(h) + j] = w[j]
    BY <1>3, ConcatIs
  <2>2. QED
    BY <1>1, <2>1
<1>6. n \in Nat /\ i \in 1..n /\ i \in 1..n + m /\ i \in Nat
  BY <1>2, <1>3 DEF AwaitsAt
<1> HIDE DEF t, k, n, m
<1>7. ASSUME NEW j \in 1..n + m
      PROVE  /\ j # i => t[j] = k[j] /\ ~RunOf(t[j], c)
             /\ i < j => t[j].kind # "run"
  <2>1. CASE j \in 1..n
    BY <1>2, <1>4, <1>5, <2>1 DEF AwaitsAt, n
  <2>2. CASE j \notin 1..n
    <3>1. j - n \in 1..m /\ n + (j - n) = j
      BY <1>3, <1>6, <2>2
    <3>2. t[n + (j - n)] = w[j - n] /\ k[n + (j - n)] = w[j - n] /\ w[j - n].kind # "run"
      BY <1>3, <1>4, <1>5, <3>1
    <3>3. QED
      BY <3>1, <3>2 DEF RunOf
  <2>3. QED
    BY <2>1, <2>2
<1>8. AwaitsAt(t, k, c, i)
  BY <1>2, <1>4, <1>5, <1>6, <1>7 DEF AwaitsAt
<1>9. QED
  BY <1>4, <1>5, <1>8, AwaitsIs DEF t, k

\* The last run is that of the call, which the end of a run is told of.
LEMMA AwaitsRestated ==
  ASSUME NEW s \in Seq(Sayings), NEW t \in Seq(Sayings), NEW h, NEW c \in Calls, Awaits(s, h, c),
         NEW state \in {"running", "done", "failed"}, Restated(s, t, state)
  PROVE  /\ Len(t) = Len(h) /\ Len(s) = Len(h)
         /\ \E i : AwaitsAt(s, h, c, i) /\ AwaitsAt(t, h, c, i) /\ t[i] = Run(c, state)
<1> DEFINE n == Len(s)
<1>1. Len(h) = n /\ \E i : AwaitsAt(s, h, c, i)
  BY AwaitsIs
<1>2. PICK i : AwaitsAt(s, h, c, i)
  BY <1>1
<1>3. PICK d, old : Replaced(s, t, Run(d, old), Run(d, state))
  BY DEF Restated
<1>4. /\ Len(t) = n
      /\ \E k \in 1..n : /\ s[k] = Run(d, old) /\ t[k] = Run(d, state)
                         /\ \A j \in 1..n : j # k => s[j] = t[j]
                         /\ \A j \in 1..n : k < j => s[j].kind # "run"
  BY <1>3 DEF Replaced
<1>5. PICK k \in 1..n : /\ s[k] = Run(d, old) /\ t[k] = Run(d, state)
                        /\ \A j \in 1..n : j # k => s[j] = t[j]
                        /\ \A j \in 1..n : k < j => s[j].kind # "run"
  BY <1>4
<1>6. n \in Nat /\ i \in 1..n
  BY <1>2 DEF AwaitsAt
<1>7. k = i
  <2>1. s[i].kind = "run" /\ s[k].kind = "run"
    BY <1>2, <1>5 DEF AwaitsAt, RunOf, Run
  <2>2. ~(i < k) /\ ~(k < i)
    BY <1>2, <1>5, <1>6, <2>1 DEF AwaitsAt
  <2>3. QED
    BY <1>5, <1>6, <2>2
<1>8. d = c
  BY <1>2, <1>5, <1>7 DEF AwaitsAt, RunOf, Run
<1>9. AwaitsAt(t, h, c, i)
  <2>1. RunOf(t[i], c)
    BY <1>5, <1>7, <1>8 DEF RunOf, Run
  <2>2. \A j \in 1..n : i < j => j # i
    BY <1>6
  <2>3. QED
    BY <1>2, <1>4, <1>5, <1>6, <1>7, <2>1, <2>2 DEF AwaitsAt
<1>10. QED
  BY <1>1, <1>2, <1>4, <1>5, <1>7, <1>8, <1>9

LEMMA AwaitsSettled ==
  ASSUME NEW s \in Seq(Sayings), NEW t \in Seq(Sayings), NEW h \in Seq(Sayings), NEW c \in Calls,
         Awaits(s, h, c), NEW state \in {"running", "done", "failed"}, Restated(s, t, state)
  PROVE  t = Mapped(h, Settling(c, state))
<1> DEFINE n == Len(h)
           p == Settling(c, state)
           k == Mapped(h, p)
<1>1. /\ Len(t) = n
      /\ \E i : AwaitsAt(s, h, c, i) /\ AwaitsAt(t, h, c, i) /\ t[i] = Run(c, state)
  BY AwaitsRestated
<1>2. PICK i : AwaitsAt(s, h, c, i) /\ AwaitsAt(t, h, c, i) /\ t[i] = Run(c, state)
  BY <1>1
<1>3. c \in MaybeCalls
  BY DEF MaybeCalls
<1>4. RunOf(Run(c, "running"), c) /\ Run(c, "running") \in Sayings
  BY <1>3, RunIs
<1>5. p \in [Sayings -> Sayings] /\ \A a \in Sayings : /\ RunOf(a, c) => p[a] = Run(c, state)
                                                       /\ ~RunOf(a, c) => p[a] = a
  BY <1>3, SettlingIs
<1> HIDE DEF p
<1>6. k \in Seq(Sayings) /\ Len(k) = n /\ \A j \in 1..n : k[j] = p[h[j]]
  BY <1>5, MappedType
<1>7. \A j \in 1..n : h[j] \in Sayings
  OBVIOUS
<1> HIDE DEF k, n
<1>8. ASSUME NEW j \in 1..n PROVE t[j] = k[j]
  <2>1. k[j] = p[h[j]] /\ h[j] \in Sayings
    BY <1>6, <1>7
  <2>2. CASE j = i
    BY <1>2, <1>4, <1>5, <2>1, <2>2 DEF AwaitsAt
  <2>3. CASE j # i
    <3>1. t[j] = h[j] /\ ~RunOf(t[j], c)
      BY <1>1, <1>2, <2>3 DEF AwaitsAt
    <3>2. QED
      BY <1>5, <2>1, <3>1
  <2>4. QED
    BY <2>2, <2>3
<1>9. t = k
  BY <1>1, <1>6, <1>8, SequencesEqual
<1>10. QED
  BY <1>9 DEF k, p

-------------------------------------------------------------------------------
(* What is read of the items of a message says what they say *)

LEMMA HistoryIsBlocks ==
  /\ \A b \in HistoryBlocks : b \in Blocks
  /\ \A bs \in Pieces : bs \in Seq(Blocks)
<1>1. \A b \in HistoryBlocks : b \in Blocks
  BY DEF HistoryBlocks, Blocks, BlockOf
<1>2. ASSUME NEW bs \in Pieces PROVE bs \in Seq(Blocks)
  <2>1. bs \in Seq(HistoryBlocks)
    BY DEF Pieces
  <2>2. QED
    BY <1>1, <2>1
<1>3. QED
  BY <1>1, <1>2

LEMMA FlattenEmpty ==
  ASSUME NEW S, NEW ss \in Seq(Seq(S)), \A n \in 1..Len(ss) : ss[n] = <<>>
  PROVE  FlattenSeq(ss) = <<>>
<1> DEFINE L == Len(ss)
           none == <<>>
           g == [n \in 0..L |-> none]
<1>1. L \in Nat /\ none \in Seq(S) /\ none \o none = none
  OBVIOUS
<1>2. Chain(g, ss, S) /\ g[L] = none
  <2> HIDE DEF none
  <2>1. g \in [0..L -> Seq(S)] /\ g[0] = none /\ g[L] = none
    BY <1>1
  <2>2. \A n \in 1..L : n \in 0..L /\ n - 1 \in 0..L /\ ss[n] = none
    BY <1>1 DEF none
  <2>3. \A n \in 1..L : g[n] = g[n - 1] \o ss[n]
    BY <1>1, <2>2
  <2> HIDE DEF g
  <2>4. QED
    BY <2>1, <2>3 DEF Chain, none
<1> HIDE DEF g
<1>3. FlattenSeq(ss) = g[L]
  BY <1>2, FlattenIsChain
<1>4. QED
  BY <1>2, <1>3

LEMMA NoWords ==
  ASSUME NEW kind \in {"assistant", "thinking"}
  PROVE  Words(kind, <<>>) = <<>>
<1> DEFINE none == <<>>
<1>1. none \in Seq(Fragments)
  OBVIOUS
<1> HIDE DEF none
<1>2. Words(kind, <<>>) = <<>>
  BY <1>1, WordsAppend
<1>3. QED
  BY <1>2

LEMMA BlankSaysNothing ==
  ASSUME NEW kind \in {"assistant", "thinking"}, NEW text \in Seq(Fragments), IsBlank(text)
  PROVE  Words(kind, text) = <<>>
<1> DEFINE S == Sayings
           w == WordOf(kind)
           ss == Each(w, text)
<1>1. w \in Maps(Fragments, Seq(S)) /\ Words(kind, text) = FlattenSeq(ss)
  BY WordType, WordsIs DEF Together
<1>2. \A i \in 1..Len(text) : text[i] \in Fragments /\ w[text[i]] = <<>>
  <2>1. \A f : f \in {Blank, ""} => Word(kind, f) = <<>>
    BY DEF Word
  <2>2. \A f \in Fragments : w[f] = Word(kind, f)
    BY DEF WordOf
  <2>3. \A i \in 1..Len(text) : text[i] \in Fragments /\ text[i] \in {Blank, ""}
    <3>1. DOMAIN text = 1..Len(text) /\ \A i \in 1..Len(text) : text[i] \in Fragments
      OBVIOUS
    <3>2. \A i \in DOMAIN text : text[i] \in {Blank, ""}
      BY DEF IsBlank
    <3>3. QED
      BY <3>1, <3>2
  <2> HIDE DEF w
  <2>4. QED
    BY <2>1, <2>2, <2>3
<1> DEFINE Q == Seq(S)
<1>3. w \in Maps(Fragments, Q)
  BY <1>1
<1> HIDE DEF w, Q, ss
<1>4. ss \in Seq(Q) /\ Len(ss) = Len(text) /\ \A i \in 1..Len(text) : ss[i] = w[text[i]]
  BY <1>3, EachType DEF ss
<1>5. \A i \in 1..Len(ss) : ss[i] = <<>>
  BY <1>2, <1>4
<1>6. ss \in Seq(Seq(S))
  BY <1>4 DEF Q
<1> HIDE DEF S
<1>7. FlattenSeq(ss) = <<>>
  BY <1>5, <1>6, FlattenEmpty
<1>8. QED
  BY <1>1, <1>7

\* The texts of a message are an assistant's.
Plain == {m \in Buffers : m.kind # "shell"}
Heard(m) == Says(m.blocks) \o Words(m.kind, m.text)

LEMMA PlainIs ==
  ASSUME NEW m \in Plain
  PROVE  /\ m \in Buffers /\ m.blocks \in Pieces /\ m.blocks \in Seq(Blocks)
         /\ m.kind \in {"assistant", "thinking"} /\ m.text \in Seq(Fragments)
         /\ Says(m.blocks) \in Seq(Sayings) /\ Words(m.kind, m.text) \in Seq(Sayings)
         /\ Heard(m) \in Seq(Sayings)
<1>1. /\ m \in Buffers /\ m.blocks \in Pieces
      /\ m.kind \in {"assistant", "thinking"} /\ m.text \in Seq(Fragments)
  BY DEF Plain, Buffers, Texts
<1>2. m.blocks \in Seq(Blocks)
  BY <1>1, HistoryIsBlocks
<1> DEFINE s == Says(m.blocks)
           w == Words(m.kind, m.text)
<1>3. s \in Seq(Sayings) /\ w \in Seq(Sayings)
  BY <1>1, <1>2, SaysIs, WordsIs
<1>4. Heard(m) = s \o w
  BY DEF Heard
<1> HIDE DEF s, w
<1>5. s \o w \in Seq(Sayings)
  BY <1>3
<1>6. QED
  BY <1>1, <1>2, <1>3, <1>4, <1>5 DEF s, w

LEMMA FlushedSays ==
  ASSUME NEW m \in Plain
  PROVE  /\ Flushed(m) \in Plain /\ Flushed(m).text = <<>>
         /\ Says(Flushed(m).blocks) = Heard(m)
<1> DEFINE bs == m.blocks
           b == Text(m.kind, m.text)
           cs == IF IsBlank(m.text) THEN bs ELSE Append(bs, b)
           u == Flushed(m)
<1>1. /\ m \in Buffers /\ bs \in Seq(Blocks) /\ m.kind \in {"assistant", "thinking"}
      /\ m.text \in Seq(Fragments) /\ Says(bs) \in Seq(Sayings)
  BY PlainIs
<1>2. u = [m EXCEPT !.blocks = cs, !.text = <<>>] /\ u \in Buffers
  BY <1>1, FlushedType DEF Flushed
<1>3. u.blocks = cs /\ u.kind = m.kind /\ u.text = <<>>
  BY <1>1, <1>2 DEF Buffers
<1>4. u \in Plain
  BY <1>1, <1>2, <1>3 DEF Plain
<1>5. b \in Blocks /\ b.kind = m.kind /\ b.text = m.text
  <2>1. b \in HistoryBlocks /\ b.kind = m.kind
    BY <1>1, TextType DEF Texts
  <2>2. b \in Blocks
    BY <2>1, HistoryIsBlocks
  <2>3. QED
    BY <2>1, <2>2 DEF Text, Block
<1>6. Said(b) = Words(m.kind, m.text)
  BY <1>1, <1>5, SaidIs
<1>7. Says(cs) = Heard(m)
  <2>1. CASE IsBlank(m.text)
    <3>1. cs = bs /\ Words(m.kind, m.text) = <<>>
      BY <1>1, <2>1, BlankSaysNothing
    <3> DEFINE s == Says(bs)
    <3>2. s \in Seq(Sayings) /\ Says(cs) = s /\ Heard(m) = s \o <<>>
      BY <1>1, <3>1 DEF Heard
    <3> HIDE DEF s
    <3>3. s \o <<>> = s
      BY <3>2
    <3>4. QED
      BY <3>2, <3>3
  <2>2. CASE ~IsBlank(m.text)
    <3>1. cs = Append(bs, b)
      BY <2>2
    <3> HIDE DEF b, bs, cs
    <3>2. Says(Append(bs, b)) = Says(bs) \o Said(b)
      BY <1>1, <1>5, SaysAppend
    <3>3. QED
      BY <1>6, <3>1, <3>2 DEF Heard, bs
  <2>3. QED
    BY <2>1, <2>2
<1>8. QED
  BY <1>3, <1>4, <1>7

\* The run that a tool or a shell is read as.
LEMMA ItemSaysIs ==
  ASSUME NEW it \in Items
  PROVE  /\ ItemSays(it) \in Seq(Sayings)
         /\ it.type = "tool" =>
              /\ HistoryTool(it) \in Blocks /\ HistoryTool(it).state \in {"running", "done", "failed"}
              /\ ItemSays(it) = Said(HistoryTool(it))
              /\ ItemSays(it) = <<Run(it.call, HistoryTool(it).state)>>
         /\ it.type = "shell" =>
              /\ HistoryShell(it) \in Blocks /\ HistoryShell(it).state \in {"running", "done", "failed"}
              /\ ItemSays(it) = Said(HistoryShell(it))
              /\ ItemSays(it) = <<Run(it.call, HistoryShell(it).state)>>
         /\ it.type \in {"assistant", "thinking"} => ItemSays(it) = Words(it.type, it.text)
<1>1. /\ it.type \in {"assistant", "thinking", "tool", "shell"} /\ it.text \in Seq(Fragments)
      /\ it.call \in MaybeCalls
  BY DEF Items, Texts, MaybeCalls
<1>2. ASSUME NEW b \in Blocks, b.kind \in Runs, b.detail = it.call
      PROVE  /\ b.state \in {"running", "done", "failed"}
             /\ Said(b) = <<Run(it.call, b.state)>> /\ Said(b) \in Seq(Sayings)
  <2>1. b.state \in {"running", "done", "failed"}
    BY DEF Blocks, BlockOf
  <2>2. QED
    BY <1>2, <2>1, SaidIs
<1>3. CASE it.type = "tool"
  <2> DEFINE b == HistoryTool(it)
  <2>1. b \in HistoryBlocks /\ b.kind = "tool"
    BY HistoryToolType
  <2>2. b \in Blocks /\ b.kind \in Runs
    BY <2>1, HistoryIsBlocks DEF Runs
  <2>3. b.detail = it.call
    BY DEF HistoryTool, Tool, Block
  <2>4. ItemSays(it) = Said(b)
    BY <1>3 DEF ItemSays
  <2> HIDE DEF b
  <2>5. b.state \in {"running", "done", "failed"} /\ Said(b) = <<Run(it.call, b.state)>> /\ Said(b) \in Seq(Sayings)
    BY <1>2, <2>2, <2>3
  <2>6. QED
    BY <1>3, <2>2, <2>4, <2>5 DEF b
<1>4. CASE it.type = "shell"
  <2> DEFINE b == HistoryShell(it)
             state == IF it.status = "running" THEN "running" ELSE "done"
             output == IF it.status = "running" THEN None ELSE it.call
  <2>1. b = Block("shell", <<>>, it.call, state, output)
    BY DEF HistoryShell, Tool
  <2>2. /\ state \in {"running", "done", "failed"} /\ output \in MaybeCalls
        /\ <<>> \in Texts /\ "shell" \in Kinds /\ "shell" \in Runs
    BY <1>1 DEF Items, MaybeCalls, Texts, Kinds, Working, Runs
  <2> HIDE DEF state, output
  <2>3. b \in Blocks /\ b.kind \in Runs /\ b.detail = it.call
    BY <1>1, <2>1, <2>2, BlockType DEF Blocks, Block
  <2>4. ItemSays(it) = Said(b)
    BY <1>4 DEF ItemSays
  <2> HIDE DEF b
  <2>5. b.state \in {"running", "done", "failed"} /\ Said(b) = <<Run(it.call, b.state)>> /\ Said(b) \in Seq(Sayings)
    BY <1>2, <2>3
  <2>6. QED
    BY <1>4, <2>3, <2>4, <2>5 DEF b
<1>5. CASE it.type \in {"assistant", "thinking"}
  <2>1. ItemSays(it) = Words(it.type, it.text)
    BY <1>5 DEF ItemSays
  <2>2. Words(it.type, it.text) \in Seq(Sayings)
    BY <1>1, <1>5, WordsIs
  <2>3. QED
    BY <1>5, <2>1, <2>2
<1>6. QED
  BY <1>1, <1>3, <1>4, <1>5

ItemMap == [it \in Items |-> ItemSays(it)]

LEMMA ItemsSayIs ==
  ASSUME NEW its \in Seq(Items)
  PROVE  /\ ItemMap \in Maps(Items, Seq(Sayings))
         /\ ItemsSay(its) = Together(ItemMap, its) /\ ItemsSay(its) \in Seq(Sayings)
<1>1. \A i \in DOMAIN its : its[i] \in Items
  OBVIOUS
<1>2. [i \in DOMAIN its |-> ItemSays(its[i])] = Each(ItemMap, its)
  BY <1>1 DEF Each, ItemMap
<1>3. ItemsSay(its) = Together(ItemMap, its)
  BY <1>2 DEF ItemsSay, Together
<1>4. ItemMap \in Maps(Items, Seq(Sayings))
  <2>1. \A it \in Items : ItemSays(it) \in Seq(Sayings)
    BY ItemSaysIs
  <2>2. QED
    BY <2>1 DEF ItemMap, Maps
<1>5. QED
  BY <1>3, <1>4, TogetherType

LEMMA NoItemsSay == ItemsSay(<<>>) = <<>>
<1> DEFINE none == <<>>
<1>1. none \in Seq(Items)
  OBVIOUS
<1>2. ItemsSay(none) = Together(ItemMap, none)
  BY <1>1, ItemsSayIs
<1>3. QED
  BY <1>2, TogetherNone

LEMMA MapItemSays ==
  ASSUME NEW m \in Plain, NEW item \in Items, item.type # "shell"
  PROVE  MapItem(m, item) \in Plain /\ Heard(MapItem(m, item)) = Heard(m) \o ItemSays(item)
<1> DEFINE next == MapItem(m, item)
<1>1. /\ m \in Buffers /\ next \in Buffers /\ item.text \in Seq(Fragments)
      /\ item.type \in {"assistant", "thinking", "tool"}
  BY PlainIs, MapItemType DEF Items, Texts
<1>2. /\ m.blocks \in Seq(Blocks) /\ m.kind \in {"assistant", "thinking"} /\ m.text \in Seq(Fragments)
      /\ Says(m.blocks) \in Seq(Sayings) /\ Words(m.kind, m.text) \in Seq(Sayings)
      /\ Heard(m) \in Seq(Sayings)
  BY PlainIs
<1>3. CASE item.type = "tool"
  <2> DEFINE u == Flushed(m)
             b == HistoryTool(item)
             s == Says(u.blocks)
  <2>1. u \in Plain /\ u.text = <<>> /\ s = Heard(m)
    BY FlushedSays
  <2>2. u \in Buffers /\ u.blocks \in Seq(Blocks) /\ u.kind \in {"assistant", "thinking"} /\ s \in Seq(Sayings)
    BY <2>1, PlainIs
  <2>3. b \in Blocks /\ ItemSays(item) = Said(b) /\ ItemSays(item) \in Seq(Sayings)
    BY <1>3, ItemSaysIs
  <2>4. next = [u EXCEPT !.blocks = Append(u.blocks, b)]
    BY <1>3 DEF MapItem
  <2> HIDE DEF u, b, next
  <2>5. next.blocks = Append(u.blocks, b) /\ next.kind = u.kind /\ next.text = <<>>
    BY <2>1, <2>2, <2>4 DEF Buffers
  <2>6. Says(next.blocks) = Says(u.blocks) \o Said(b)
    BY <2>2, <2>3, <2>5, SaysAppend
  <2>7. Words(next.kind, next.text) = <<>>
    BY <2>2, <2>5, NoWords
  <2> DEFINE t == Heard(m) \o ItemSays(item)
  <2>8. t \in Seq(Sayings) /\ Says(next.blocks) = t
    BY <1>2, <2>1, <2>3, <2>6
  <2> HIDE DEF t
  <2>9. Heard(next) = t
    BY <2>7, <2>8, ConcatNone DEF Heard
  <2>10. next \in Plain
    BY <1>1, <2>2, <2>5 DEF Plain
  <2>11. QED
    BY <2>9, <2>10 DEF t, next
<1>4. CASE item.type # "tool"
  <2> DEFINE u == IF m.kind = item.type THEN m ELSE Flushed(m)
             a == Says(u.blocks)
             x == Words(item.type, u.text)
             y == Words(item.type, item.text)
  <2>1. item.type \in {"assistant", "thinking"} /\ ItemSays(item) = y
    BY <1>1, <1>4, ItemSaysIs
  <2>2. u \in Plain /\ Heard(m) = a \o x /\ x \in Seq(Sayings)
    <3>1. CASE m.kind = item.type
      BY <1>2, <3>1 DEF Heard
    <3>2. CASE m.kind # item.type
      <4> DEFINE v == Flushed(m)
      <4>1. v \in Plain /\ v.text = <<>> /\ Says(v.blocks) = Heard(m) /\ u = v
        BY <3>2, FlushedSays
      <4>2. Words(item.type, <<>>) = <<>>
        BY <2>1, NoWords
      <4>3. Heard(m) \o <<>> = Heard(m) /\ <<>> \in Seq(Sayings)
        BY <1>2, ConcatNone
      <4> HIDE DEF v
      <4>4. QED
        BY <4>1, <4>2, <4>3
    <3>3. QED
      BY <3>1, <3>2
  <2>3. u \in Buffers /\ u.blocks \in Seq(Blocks) /\ u.text \in Seq(Fragments) /\ a \in Seq(Sayings)
    BY <2>2, PlainIs
  <2>4. next = [u EXCEPT !.kind = item.type, !.text = u.text \o item.text]
    BY <1>4 DEF MapItem
  <2> HIDE DEF u
  <2>5. next.blocks = u.blocks /\ next.kind = item.type /\ next.text = u.text \o item.text
    BY <2>3, <2>4 DEF Buffers
  <2> HIDE DEF next
  <2>6. Words(item.type, u.text \o item.text) = x \o y /\ y \in Seq(Sayings)
    BY <1>1, <2>1, <2>3, WordsAppend, WordsIs
  <2>7. Heard(next) = a \o (x \o y)
    BY <2>5, <2>6 DEF Heard
  <2> HIDE DEF a, x, y
  <2>8. (a \o x) \o y = a \o (x \o y)
    BY <2>2, <2>3, <2>6, ConcatAssoc
  <2>9. next \in Plain
    BY <1>1, <2>1, <2>5 DEF Plain
  <2>10. QED
    BY <2>1, <2>2, <2>7, <2>8, <2>9 DEF next
<1>5. QED
  BY <1>3, <1>4

LEMMA MapItemsSays ==
  ASSUME NEW its \in Seq(Items), \A j \in 1..Len(its) : its[j].type # "shell"
  PROVE  MapItems(its) \in Seq(Blocks) /\ Says(MapItems(its)) = ItemsSay(its)
<1> DEFINE L == Len(its)
           step == [x \in Plain \X Nat |-> IF x[2] \in 1..L THEN MapItem(x[1], its[x[2]]) ELSE x[1]]
           after == CHOOSE f : f = [n \in 0..L |-> IF n = 0 THEN NoText ELSE MapItem(f[n - 1], its[n])]
           ss == Each(ItemMap, its)
           Q == Seq(Sayings)
<1>1. L \in Nat /\ \A n \in 1..L : its[n] \in Items /\ its[n].type # "shell"
  OBVIOUS
<1>2. NoText \in Plain
  BY DEF NoText, Plain, Buffers, Pieces, Texts
<1>3. Heard(NoText) = <<>>
  <2> DEFINE none == <<>>
  <2>1. Says(none) = none
    <3>1. none \in Seq(Blocks)
      OBVIOUS
    <3>2. Says(none) = Together(BlockSays, none)
      BY <3>1, SaysIs
    <3>3. QED
      BY <3>2, TogetherNone
  <2>2. Words("assistant", none) = none
    BY NoWords
  <2>3. Heard(NoText) = Says(none) \o Words("assistant", none)
    BY DEF Heard, NoText
  <2> HIDE DEF none
  <2>4. none \o none = none
    BY DEF none
  <2>5. QED
    BY <2>1, <2>2, <2>3, <2>4 DEF none
<1>4. step \in [Plain \X Nat -> Plain]
  BY <1>1, MapItemSays
<1>5. PICK h : Iterates(h, Plain, NoText, step, L)
  BY <1>1, <1>2, <1>4, Recursion
<1>6. h \in [0..L -> Plain] /\ h[0] = NoText /\ \A n \in 1..L : h[n] = MapItem(h[n - 1], its[n])
  <2>1. \A n \in 1..L : n - 1 \in 0..L /\ n \in Nat /\ h[n - 1] \in Plain
    BY <1>1, <1>5 DEF Iterates
  <2>2. QED
    BY <1>5, <2>1 DEF Iterates
<1>7. h = [n \in 0..L |-> IF n = 0 THEN NoText ELSE MapItem(h[n - 1], its[n])]
  BY <1>1, <1>6
<1>8. after = [n \in 0..L |-> IF n = 0 THEN NoText ELSE MapItem(after[n - 1], its[n])]
  BY <1>7
<1>9. MapItems(its) = Flushed(after[L]).blocks
  BY DEF MapItems
<1>10. /\ ss \in Seq(Q) /\ Len(ss) = L /\ \A n \in 1..L : ss[n] = ItemSays(its[n])
       /\ ItemsSay(its) = FlattenSeq(ss)
  <2>1. ItemMap \in Maps(Items, Q) /\ ItemsSay(its) = FlattenSeq(ss)
    BY ItemsSayIs DEF Together
  <2>2. \A n \in 1..L : ItemMap[its[n]] = ItemSays(its[n])
    BY <1>1 DEF ItemMap
  <2> HIDE DEF Q, ss
  <2>3. ss \in Seq(Q) /\ Len(ss) = Len(its) /\ \A n \in 1..Len(its) : ss[n] = ItemMap[its[n]]
    BY <2>1, EachType DEF ss
  <2>4. QED
    BY <2>1, <2>2, <2>3
<1> HIDE DEF after, step, ss
<1>11. PICK g : Chain(g, ss, Sayings)
  <2>1. ss \in Seq(Seq(Sayings))
    BY <1>10
  <2> HIDE DEF Q
  <2>2. QED
    BY <2>1, ChainExists
<1>12. g[0] = <<>> /\ \A n \in 1..L : g[n] = g[n - 1] \o ItemSays(its[n])
  BY <1>10, <1>11 DEF Chain
<1>13. FlattenSeq(ss) = g[L]
  BY <1>10, <1>11, FlattenIsChain
<1> DEFINE Good(n) == after[n] \in Plain /\ Heard(after[n]) = g[n]
           T == {n \in Nat : n <= L => Good(n)}
<1>14. 0 \in T
  <2>1. after[0] = NoText
    BY <1>1, <1>8
  <2>2. QED
    BY <1>2, <1>3, <1>12, <2>1
<1>15. ASSUME NEW n \in T PROVE n + 1 \in T
  <2> SUFFICES ASSUME n + 1 <= L PROVE Good(n + 1)
    OBVIOUS
  <2>1. n \in Nat /\ n <= L /\ n + 1 \in 1..L /\ n + 1 \in 0..L /\ (n + 1) - 1 = n /\ n + 1 # 0
    BY <1>1
  <2>2. after[n + 1] = MapItem(after[n], its[n + 1]) /\ its[n + 1] \in Items /\ its[n + 1].type # "shell"
    BY <1>1, <1>8, <2>1
  <2>3. Good(n) /\ g[n + 1] = g[n] \o ItemSays(its[n + 1])
    BY <1>12, <2>1
  <2> DEFINE m == after[n]
             item == its[n + 1]
             next == after[n + 1]
  <2>4. /\ next = MapItem(m, item) /\ item \in Items /\ item.type # "shell"
        /\ m \in Plain /\ Heard(m) = g[n] /\ g[n + 1] = g[n] \o ItemSays(item)
    BY <2>2, <2>3
  <2> HIDE DEF m, item, next
  <2>5. next \in Plain /\ Heard(next) = g[n + 1]
    BY <2>4, MapItemSays
  <2>6. QED
    BY <2>5 DEF next
<1>16. Good(L)
  <2> HIDE DEF Good
  <2>1. T = Nat
    <3> HIDE DEF T
    <3>1. T \in SUBSET Nat
      BY DEF T
    <3>2. QED
      BY <1>14, <1>15, <3>1, Induction
  <2>2. QED
    BY <1>1, <2>1
<1> DEFINE m == after[L]
<1>17. m \in Plain /\ Heard(m) = ItemsSay(its) /\ MapItems(its) = Flushed(m).blocks
  BY <1>9, <1>10, <1>13, <1>16
<1> HIDE DEF m
<1>18. Flushed(m) \in Plain /\ Says(Flushed(m).blocks) = Heard(m)
  BY <1>17, FlushedSays
<1>19. Flushed(m).blocks \in Seq(Blocks)
  BY <1>18, PlainIs
<1>20. QED
  BY <1>17, <1>18, <1>19

LEMMA OneSays ==
  ASSUME NEW b \in Blocks
  PROVE  <<b>> \in Seq(Blocks) /\ Says(<<b>>) = Said(b)
<1> DEFINE none == <<>>
           s == Said(b)
<1>1. none \in Seq(Blocks) /\ <<b>> = Append(none, b) /\ <<b>> \in Seq(Blocks)
  OBVIOUS
<1>2. s \in Seq(Sayings)
  BY SaidIs
<1>3. Says(none) = <<>>
  <2>1. Says(none) = Together(BlockSays, none)
    BY <1>1, SaysIs
  <2>2. QED
    BY <2>1, TogetherNone
<1> HIDE DEF none
<1>4. Says(Append(none, b)) = Says(none) \o s
  BY <1>1, SaysAppend
<1> HIDE DEF s
<1>5. <<>> \o s = s
  BY <1>2, ConcatNone
<1>6. QED
  BY <1>1, <1>3, <1>4, <1>5 DEF s

LEMMA OneItemSays ==
  ASSUME NEW it \in Items
  PROVE  <<it>> \in Seq(Items) /\ ItemsSay(<<it>>) = ItemSays(it) /\ ItemsSay(<<>>) = <<>>
<1> DEFINE none == <<>>
           s == ItemSays(it)
           w == ItemMap
           A == Items
           S == Sayings
<1>1. none \in Seq(Items) /\ <<it>> = Append(none, it) /\ <<it>> \in Seq(Items)
  OBVIOUS
<1>2. s \in Seq(Sayings)
  BY ItemSaysIs
<1>3. ItemsSay(none) = <<>>
  <2>1. ItemsSay(none) = Together(ItemMap, none)
    BY <1>1, ItemsSayIs
  <2>2. QED
    BY <2>1, TogetherNone
<1>4. /\ none \in Seq(A) /\ w \in Maps(A, Seq(S)) /\ it \in A
      /\ ItemsSay(<<it>>) = Together(w, <<it>>) /\ ItemsSay(none) = Together(w, none)
  BY <1>1, ItemsSayIs
<1>5. w[it] = s
  BY DEF ItemMap
<1> HIDE DEF none, w, A, S, s
<1>6. Together(w, Append(none, it)) = Together(w, none) \o w[it]
  BY <1>4, TogetherAppend
<1>7. <<>> \o s = s
  BY <1>2, ConcatNone
<1>8. QED
  BY <1>1, <1>3, <1>4, <1>5, <1>6, <1>7 DEF s, none

-------------------------------------------------------------------------------
(* What the messages say *)

LEMMA MapMessageSays ==
  ASSUME NEW m \in Messages, Proper(m)
  PROVE  MapMessage(m) \in Seq(Blocks) /\ Says(MapMessage(m)) = ItemsSay(m.items)
<1>1. m.items \in Seq(Items)
  BY MessageItems
<1>2. CASE m.type = "assistant"
  <2> DEFINE its == m.items
  <2>1. its \in Seq(Items) /\ \A j \in 1..Len(its) : its[j].type # "shell"
    <3>1. DOMAIN its = 1..Len(its)
      BY <1>1
    <3>2. QED
      BY <1>1, <1>2, <3>1 DEF Proper
  <2>2. MapMessage(m) = MapItems(its)
    BY <1>2 DEF MapMessage
  <2> HIDE DEF its
  <2>3. MapItems(its) \in Seq(Blocks) /\ Says(MapItems(its)) = ItemsSay(its)
    BY <2>1, MapItemsSays
  <2>4. QED
    BY <2>2, <2>3 DEF its
<1>3. CASE m.type = "shell"
  <2> DEFINE its == m.items
             it == its[1]
  <2>1. its \in Seq(Items) /\ Len(its) = 1 /\ it.type = "shell"
    BY <1>1, <1>3 DEF Proper
  <2>2. MapMessage(m) = <<HistoryShell(it)>>
    BY <1>3 DEF MapMessage
  <2> HIDE DEF its
  <2>3. it \in Items /\ its = <<it>>
    <3>1. it \in Items /\ 1 \in 1..Len(its)
      BY <2>1
    <3> DEFINE one == <<it>>
    <3>2. one \in Seq(Items) /\ Len(one) = 1 /\ one[1] = it
      BY <3>1
    <3> HIDE DEF one
    <3>3. \A i \in 1..Len(its) : its[i] = one[i]
      BY <2>1, <3>2
    <3>4. its = one
      BY <2>1, <3>2, <3>3, SequencesEqual
    <3>5. QED
      BY <3>1, <3>4 DEF one
  <2> HIDE DEF it
  <2>4. HistoryShell(it) \in Blocks /\ ItemSays(it) = Said(HistoryShell(it))
    BY <2>1, <2>3, ItemSaysIs
  <2>5. /\ <<HistoryShell(it)>> \in Seq(Blocks) /\ Says(<<HistoryShell(it)>>) = Said(HistoryShell(it))
        /\ ItemsSay(<<it>>) = ItemSays(it)
    BY <2>3, <2>4, OneSays, OneItemSays
  <2>6. QED
    BY <2>2, <2>3, <2>4, <2>5 DEF its
<1>4. CASE m.type \notin {"assistant", "shell"}
  <2>1. PICK kind \in {"user", "notice", "error"} : MapMessage(m) = <<Note(kind)>>
    BY <1>4 DEF MapMessage, Messages
  <2> DEFINE b == Note(kind)
  <2>2. b \in Blocks /\ Said(b) = <<>>
    BY SaidOfNote
  <2>3. MapMessage(m) = <<b>>
    BY <2>1
  <2> HIDE DEF b
  <2>4. MapMessage(m) \in Seq(Blocks) /\ Says(MapMessage(m)) = <<>>
    BY <2>2, <2>3, OneSays
  <2>5. m.items = <<>>
    BY <1>4 DEF Proper
  <2>6. ItemsSay(<<>>) = <<>>
    BY NoItemsSay
  <2>7. QED
    BY <2>4, <2>5, <2>6
<1>5. QED
  BY <1>2, <1>3, <1>4

MessageMap == [m \in Messages |-> ItemsSay(m.items)]

LEMMA ToldIs ==
  ASSUME NEW ms \in Seq(Messages)
  PROVE  /\ MessageMap \in Maps(Messages, Seq(Sayings))
         /\ \A m \in Messages : MessageMap[m] = ItemsSay(m.items) /\ ItemsSay(m.items) \in Seq(Sayings)
         /\ Told(ms) = Together(MessageMap, ms) /\ Told(ms) \in Seq(Sayings)
<1>1. \A i \in DOMAIN ms : ms[i] \in Messages
  OBVIOUS
<1>2. [i \in DOMAIN ms |-> ItemsSay(ms[i].items)] = Each(MessageMap, ms)
  BY <1>1 DEF Each, MessageMap
<1>3. Told(ms) = Together(MessageMap, ms)
  BY <1>2 DEF Told, Together
<1>4. \A m \in Messages : MessageMap[m] = ItemsSay(m.items) /\ ItemsSay(m.items) \in Seq(Sayings)
  <2>1. \A m \in Messages : m.items \in Seq(Items)
    BY MessageItems
  <2>2. QED
    BY <2>1, ItemsSayIs DEF MessageMap
<1>5. MessageMap \in Maps(Messages, Seq(Sayings))
  BY <1>4 DEF MessageMap, Maps
<1>6. QED
  BY <1>3, <1>4, <1>5, TogetherType

\* What a program that starts now would show says what the items say.
LEMMA ToldIsHistory ==
  ASSUME TypeInv, ProperInv
  PROVE  History \in Seq(Blocks) /\ Says(History) = Told(msgs)
<1> DEFINE L == Len(msgs)
           w == BlockSays
           A == Blocks
           S == Sayings
           ss == [i \in DOMAIN msgs |-> MapMessage(msgs[i])]
           tt == [i \in DOMAIN msgs |-> ItemsSay(msgs[i].items)]
<1>1. L \in Nat /\ DOMAIN msgs = 1..L /\ \A i \in 1..L : msgs[i] \in Messages /\ Proper(msgs[i])
  BY DEF TypeInv, ProperInv
<1>2. \A i \in 1..L : /\ ss[i] \in Seq(A) /\ tt[i] \in Seq(S) /\ Says(ss[i]) = tt[i]
  <2>1. \A i \in 1..L : /\ MapMessage(msgs[i]) \in Seq(Blocks)
                        /\ Says(MapMessage(msgs[i])) = ItemsSay(msgs[i].items)
    BY <1>1, MapMessageSays
  <2>2. \A i \in 1..L : ItemsSay(msgs[i].items) \in Seq(Sayings)
    BY <2>1, SaysIs
  <2>3. QED
    BY <1>1, <2>1, <2>2
<1>3. ss \in Seq(Seq(A)) /\ tt \in Seq(Seq(S)) /\ Len(ss) = L /\ Len(tt) = L
  <2>1. ss \in [1..L -> Seq(A)] /\ tt \in [1..L -> Seq(S)]
    BY <1>1, <1>2
  <2> HIDE DEF ss, tt, A, S, L
  <2>2. QED
    BY <1>1, <2>1
<1>4. \A i \in 1..L : tt[i] = Together(w, ss[i])
  BY <1>2, SaysIs
<1>5. History = FlattenSeq(ss) /\ Told(msgs) = FlattenSeq(tt)
  BY DEF History, Told
<1>6. History \in Seq(Blocks)
  BY HistoryType, HistoryIsBlocks
<1>7. w \in Maps(A, Seq(S)) /\ Says(History) = Together(w, History)
  BY <1>6, SaysIs
<1>8. Together(w, FlattenSeq(ss)) = FlattenSeq(tt)
  <2> HIDE DEF w, A, S, ss, tt, L
  <2>1. Piecewise(w, ss, tt)
    BY <1>3, <1>4 DEF Piecewise
  <2>2. w \in Maps(A, Seq(S)) /\ ss \in Seq(Seq(A)) /\ tt \in Seq(Seq(S))
    BY <1>3, <1>7
  <2>3. QED
    BY ONLY <2>1, <2>2, TogetherFlatten
<1>9. QED
  BY <1>5, <1>6, <1>7, <1>8

\* s and t differ in their last element.
LastDiffers(s, t) == Len(s) # 0 /\ Len(t) = Len(s) /\ \A i \in 1..Len(s) - 1 : t[i] = s[i]

LEMMA LastOnly ==
  ASSUME NEW A, NEW s \in Seq(A), NEW t \in Seq(A), LastDiffers(s, t)
  PROVE  \E f \in Seq(A) : s = Append(f, s[Len(s)]) /\ t = Append(f, t[Len(t)])
<1> DEFINE n == Len(s)
           f == Before(s, n)
<1>1. n \in Nat /\ n # 0 /\ n \in 1..n /\ (n - 1) + 1 = n /\ Len(t) = n /\ \A i \in 1..n - 1 : t[i] = s[i]
  BY DEF LastDiffers
<1>2. f \in Seq(A) /\ Len(f) = n - 1 /\ \A i \in 1..n - 1 : f[i] = s[i]
  BY <1>1, PartedIs
<1>3. s[n] \in A /\ t[n] \in A /\ \A i \in 1..n : i = n \/ i \in 1..n - 1
  <2>1. s[Len(s)] \in A /\ t[Len(t)] \in A
    BY <1>1
  <2>2. t[n] \in A
    BY <1>1, <2>1
  <2> HIDE DEF f, n
  <2>3. \A i \in 1..n : i = n \/ i \in 1..n - 1
    BY <1>1
  <2>4. QED
    BY <2>1, <2>2, <2>3 DEF n
<1>4. ASSUME NEW u \in Seq(A), Len(u) = n, \A i \in 1..n - 1 : u[i] = s[i]
      PROVE  u = Append(f, u[n])
  <2> DEFINE x == u[n]
             v == Append(f, x)
  <2>1. x \in A
    BY <1>1, <1>4
  <2> HIDE DEF f, n, x
  <2>2. v \in Seq(A) /\ Len(v) = (n - 1) + 1 /\ v[(n - 1) + 1] = x /\ \A i \in 1..n - 1 : v[i] = f[i]
    BY <1>1, <1>2, <2>1
  <2> HIDE DEF v
  <2>3. \A i \in 1..n : v[i] = u[i]
    BY <1>1, <1>2, <1>3, <1>4, <2>2 DEF x
  <2>4. u = v
    BY <1>1, <1>4, <2>2, <2>3, SequencesEqual
  <2>5. QED
    BY <2>4 DEF v, x
<1> HIDE DEF f, n
<1>5. s = Append(f, s[n])
  BY <1>1, <1>4 DEF n
<1>6. t = Append(f, t[n])
  BY <1>1, <1>4
<1>7. QED
  BY <1>1, <1>2, <1>5, <1>6 DEF n

\* What w makes of the last element of t is x longer than what it makes of that of s.
Longer(w, s, t, x) == w[t[Len(t)]] = w[s[Len(s)]] \o x

LEMMA LastLonger ==
  ASSUME NEW A, NEW S, NEW w \in Maps(A, Seq(S)), NEW s \in Seq(A), NEW t \in Seq(A),
         LastDiffers(s, t), NEW x \in Seq(S), Longer(w, s, t, x)
  PROVE  Together(w, t) = Together(w, s) \o x
<1> DEFINE y == s[Len(s)]
           z == t[Len(t)]
<1>1. Len(s) \in 1..Len(s) /\ Len(t) \in 1..Len(t) /\ y \in A /\ z \in A
  BY DEF LastDiffers
<1>2. PICK f \in Seq(A) : s = Append(f, y) /\ t = Append(f, z)
  BY LastOnly
<1>3. w[y] \in Seq(S) /\ w[z] = w[y] \o x
  BY <1>1 DEF Maps, Longer
<1> HIDE DEF y, z
<1>4. Together(w, Append(f, y)) = Together(w, f) \o w[y] /\ Together(w, Append(f, z)) = Together(w, f) \o w[z]
  BY <1>1, TogetherAppend
<1>5. Together(w, f) \in Seq(S)
  BY TogetherType
<1> DEFINE a == Together(w, f)
           b == w[y]
<1>6. a \in Seq(S) /\ b \in Seq(S) /\ x \in Seq(S)
  BY <1>3, <1>5
<1> HIDE DEF a, b
<1>7. (a \o b) \o x = a \o (b \o x)
  BY ONLY <1>6, ConcatAssoc
<1>8. QED
  BY <1>2, <1>3, <1>4, <1>7 DEF a, b

LEMMA ToldAdded ==
  ASSUME NEW ms \in Seq(Messages), NEW m \in Messages
  PROVE  Told(Append(ms, m)) = Told(ms) \o ItemsSay(m.items)
<1> DEFINE w == MessageMap
           A == Messages
           S == Sayings
           ns == Append(ms, m)
<1>1. ns \in Seq(Messages)
  OBVIOUS
<1>2. /\ w \in Maps(A, Seq(S)) /\ ms \in Seq(A) /\ m \in A
      /\ w[m] = ItemsSay(m.items) /\ Told(ms) = Together(w, ms)
  BY ToldIs
<1>3. Told(ns) = Together(w, ns)
  BY <1>1, ToldIs
<1> HIDE DEF w, A, S
<1>4. Together(w, Append(ms, m)) = Together(w, ms) \o w[m]
  BY ONLY <1>2, TogetherAppend
<1>5. QED
  BY <1>2, <1>3, <1>4

\* The message that is being written says x more.
MessageGrown(ms, ns, its, x) ==
  /\ Len(ms) # 0 /\ ns = [ms EXCEPT ![Len(ms)].items = its]
  /\ ItemsSay(its) = ItemsSay(ms[Len(ms)].items) \o x

LEMMA ToldMore ==
  ASSUME NEW ms \in Seq(Messages), NEW its, its \in ItemSeqs, NEW ns \in Seq(Messages),
         NEW x \in Seq(Sayings), MessageGrown(ms, ns, its, x)
  PROVE  Told(ns) = Told(ms) \o x
<1> DEFINE w == MessageMap
           A == Messages
           S == Sayings
           L == Len(ms)
           m == ms[L]
           n == [m EXCEPT !.items = its]
<1>1. L \in 1..L /\ DOMAIN ms = 1..L /\ m \in Messages /\ ns = [ms EXCEPT ![L] = n]
  BY DEF MessageGrown
<1>2. Len(ns) = L /\ ns[L] = n /\ \A i \in 1..L - 1 : ns[i] = ms[i]
  <2> HIDE DEF n, m
  <2>1. DOMAIN ns = 1..L /\ ns[L] = n /\ \A i \in 1..L : i # L => ns[i] = ms[i]
    BY <1>1
  <2>2. QED
    BY <1>1, <2>1
<1>3. LastDiffers(ms, ns)
  BY <1>1, <1>2 DEF LastDiffers
<1>4. n.items = its
  BY <1>1 DEF Messages
<1>5. ns[L] \in Messages
  BY <1>1, <1>2
<1>6. /\ w \in Maps(A, Seq(S)) /\ ms \in Seq(A) /\ ns \in Seq(A) /\ x \in Seq(S)
      /\ w[ms[L]] = ItemsSay(m.items) /\ w[ns[L]] = ItemsSay(its)
      /\ Told(ms) = Together(w, ms) /\ Told(ns) = Together(w, ns)
  BY <1>1, <1>2, <1>4, <1>5, ToldIs
<1>7. Longer(w, ms, ns, x)
  BY <1>2, <1>6 DEF MessageGrown, Longer
<1> HIDE DEF w, A, S, L, m, n
<1>8. Together(w, ns) = Together(w, ms) \o x
  BY ONLY <1>3, <1>6, <1>7, LastLonger
<1>9. QED
  BY <1>6, <1>8

LEMMA ToldItem ==
  ASSUME NEW ms \in Seq(Messages), Len(ms) # 0, NEW item \in Items, NEW ns \in Seq(Messages),
         ns = [ms EXCEPT ![Len(ms)].items = Append(@, item)]
  PROVE  Told(ns) = Told(ms) \o ItemSays(item)
<1> DEFINE its == ms[Len(ms)].items
           more == Append(its, item)
           w == ItemMap
           A == Items
           S == Sayings
           x == ItemSays(item)
<1>1. its \in Seq(Items)
  <2>1. ms[Len(ms)] \in Messages
    OBVIOUS
  <2>2. QED
    BY <2>1, MessageItems
<1>2. ns = [ms EXCEPT ![Len(ms)].items = more] /\ x \in Seq(Sayings)
  BY ItemSaysIs
<1> HIDE DEF its
<1>3. more \in Seq(Items) /\ more \in ItemSeqs
  BY <1>1 DEF ItemSeqs
<1>4. /\ w \in Maps(A, Seq(S)) /\ its \in Seq(A) /\ item \in A /\ w[item] = x
      /\ ItemsSay(its) = Together(w, its) /\ ItemsSay(more) = Together(w, more)
  BY <1>1, <1>3, ItemsSayIs DEF ItemMap
<1>5. ItemsSay(more) = ItemsSay(its) \o x
  <2> HIDE DEF w, A, S, x
  <2>1. Together(w, Append(its, item)) = Together(w, its) \o w[item]
    BY ONLY <1>4, TogetherAppend
  <2>2. QED
    BY <1>4, <2>1
<1> HIDE DEF more, x
<1>6. Told(ns) = Told(ms) \o x
  BY <1>2, <1>3, <1>5, ToldMore DEF its, MessageGrown
<1>7. QED
  BY <1>6 DEF x

\* A text of the last item that goes on says as much more as the fragment does.
Continues(ms, ns, kind, f) ==
  LET its == ms[Len(ms)].items
  IN /\ its # <<>> /\ Last(its).type = kind
     /\ ns = [ms EXCEPT ![Len(ms)].items[Len(its)].text = Append(@, f)]

LEMMA ToldFragment ==
  ASSUME NEW ms \in Seq(Messages), Len(ms) # 0, NEW kind \in {"assistant", "thinking"},
         NEW f \in Fragments, NEW ns \in Seq(Messages), Continues(ms, ns, kind, f)
  PROVE  Told(ns) = Told(ms) \o Word(kind, f)
<1> DEFINE its == ms[Len(ms)].items
           L == Len(its)
           old == its[L]
           item == [old EXCEPT !.text = Append(@, f)]
           more == [its EXCEPT ![L] = item]
           w == ItemMap
           A == Items
           S == Sayings
           x == Word(kind, f)
<1>1. its \in Seq(Items) /\ its # <<>> /\ old.type = kind
  <2>1. ms[Len(ms)] \in Messages
    OBVIOUS
  <2>2. its \in Seq(Items)
    BY <2>1, MessageItems
  <2>3. QED
    BY <2>2 DEF Last, Continues
<1>2. ns = [ms EXCEPT ![Len(ms)].items = more]
  BY DEF Continues
<1> HIDE DEF its
<1>3. L \in Nat /\ L # 0 /\ L \in 1..L /\ DOMAIN its = 1..L /\ old \in Items
  BY <1>1
<1> HIDE DEF old
<1>4. item \in Items /\ item.type = kind /\ item.text = Append(old.text, f) /\ old.text \in Seq(Fragments)
  <2>1. old.text \in Seq(Fragments)
    BY <1>3 DEF Items, Texts
  <2>2. Append(old.text, f) \in Texts
    BY <2>1 DEF Texts
  <2>3. QED
    BY <1>1, <1>3, <2>1, <2>2 DEF Items
<1> HIDE DEF item
<1>5. more \in Seq(Items) /\ Len(more) = L /\ more[L] = item /\ \A i \in 1..L - 1 : more[i] = its[i]
  <2>1. DOMAIN more = 1..L /\ more[L] = item /\ \A i \in 1..L : i # L => more[i] = its[i]
    BY <1>3
  <2>2. more \in [1..L -> Items]
    BY <1>1, <1>3, <1>4
  <2> HIDE DEF more, L
  <2>3. more \in Seq(Items) /\ Len(more) = L
    BY <1>3, <2>2, SequenceIs
  <2>4. QED
    BY <1>3, <2>1, <2>3
<1>6. x \in Seq(Sayings) /\ ItemSays(item) = ItemSays(old) \o x
  <2>1. ItemSays(item) = Words(kind, item.text) /\ ItemSays(old) = Words(kind, old.text)
    BY <1>1, <1>3, <1>4, ItemSaysIs
  <2>2. QED
    BY <1>4, <2>1, WordsAppend, WordType
<1> HIDE DEF x, more
<1>7. LastDiffers(its, more)
  BY <1>3, <1>5 DEF LastDiffers
<1>8. /\ w \in Maps(A, Seq(S)) /\ its \in Seq(A) /\ more \in Seq(A) /\ x \in Seq(S)
      /\ w[old] = ItemSays(old) /\ w[item] = ItemSays(item)
      /\ ItemsSay(its) = Together(w, its) /\ ItemsSay(more) = Together(w, more)
  BY <1>1, <1>3, <1>4, <1>5, <1>6, ItemsSayIs DEF ItemMap
<1>9. Longer(w, its, more, x)
  BY <1>5, <1>6, <1>8 DEF old, Longer
<1>10. ItemsSay(more) = ItemsSay(its) \o x
  <2> HIDE DEF w, A, S, L
  <2>3. w \in Maps(A, Seq(S)) /\ its \in Seq(A) /\ more \in Seq(A) /\ x \in Seq(S)
    BY <1>8
  <2>1. Together(w, more) = Together(w, its) \o x
    BY ONLY <1>7, <1>9, <2>3, LastLonger
  <2>2. QED
    BY <1>8, <2>1
<1>11. more \in ItemSeqs
  BY <1>5 DEF ItemSeqs
<1> HIDE DEF w, A, S, L
<1>12. Told(ns) = Told(ms) \o x
  <2>1. MessageGrown(ms, ns, more, x)
    BY <1>2, <1>10 DEF its, MessageGrown
  <2>2. QED
    BY <1>6, <1>11, <2>1, ToldMore
<1>13. QED
  BY <1>12 DEF x

-------------------------------------------------------------------------------
(* What is said when an item comes to stand otherwise *)

\* t has s's elements, of which w makes what it made of them, mapped by p.
ElementsMapped(w, p, s, t) ==
  Len(t) = Len(s) /\ \A i \in 1..Len(s) : w[t[i]] = Mapped(w[s[i]], p)

LEMMA TogetherMapped ==
  ASSUME NEW A, NEW S, NEW w \in Maps(A, Seq(S)), NEW p \in Maps(S, S), NEW s \in Seq(A),
         NEW t \in Seq(A), ElementsMapped(w, p, s, t)
  PROVE  Together(w, t) = Mapped(Together(w, s), p)
<1> DEFINE Q == Seq(S)
           ss == Each(w, s)
           tt == Each(w, t)
<1>1. w \in Maps(A, Q) /\ p \in [S -> S]
  BY DEF Maps
<1> HIDE DEF Q
<1>2. /\ ss \in Seq(Q) /\ Len(ss) = Len(s) /\ \A i \in 1..Len(s) : ss[i] = w[s[i]]
      /\ tt \in Seq(Q) /\ Len(tt) = Len(t) /\ \A i \in 1..Len(t) : tt[i] = w[t[i]]
  BY <1>1, EachType
<1> HIDE DEF ss, tt
<1>3. PiecesMapped(ss, tt, p)
  BY <1>2 DEF PiecesMapped, ElementsMapped
<1>4. ss \in Seq(Seq(S)) /\ tt \in Seq(Seq(S))
  BY <1>2 DEF Q
<1>5. FlattenSeq(tt) = Mapped(FlattenSeq(ss), p)
  BY ONLY <1>1, <1>3, <1>4, FlattenMapped
<1>6. QED
  BY <1>5 DEF Together, ss, tt

LEMMA MappedOne ==
  ASSUME NEW S, NEW p \in [S -> S], NEW a \in S
  PROVE  Mapped(<<a>>, p) = <<p[a]>>
<1> DEFINE s == <<a>>
           t == <<p[a]>>
           u == Mapped(s, p)
<1>1. /\ s \in Seq(S) /\ Len(s) = 1 /\ s[1] = a
      /\ t \in Seq(S) /\ Len(t) = 1 /\ t[1] = p[a]
  OBVIOUS
<1> HIDE DEF s, t
<1>2. u \in Seq(S) /\ Len(u) = Len(s) /\ \A i \in 1..Len(s) : u[i] = p[s[i]]
  BY <1>1, MappedType
<1> HIDE DEF u
<1>3. \A i \in 1..Len(u) : u[i] = t[i]
  BY <1>1, <1>2
<1>4. u = t
  BY <1>1, <1>2, <1>3, SequencesEqual
<1>5. QED
  BY <1>4 DEF u, s, t

LEMMA MappedSame ==
  ASSUME NEW S, NEW p \in [S -> S], NEW s \in Seq(S), \A i \in 1..Len(s) : p[s[i]] = s[i]
  PROVE  Mapped(s, p) = s
<1> DEFINE u == Mapped(s, p)
<1>1. u \in Seq(S) /\ Len(u) = Len(s) /\ \A i \in 1..Len(s) : u[i] = p[s[i]]
  BY MappedType
<1> HIDE DEF u
<1>2. \A i \in 1..Len(u) : u[i] = s[i]
  BY <1>1
<1>3. u = s
  BY <1>1, <1>2, SequencesEqual
<1>4. QED
  BY <1>3 DEF u

\* The state in which an item of a status is read.
StateOf(status) ==
  IF status = "running" THEN "running" ELSE IF status = "error" THEN "failed" ELSE "done"

LEMMA ItemSettled ==
  ASSUME NEW it \in Items, NEW c \in Calls, NEW status \in {"running", "completed", "error", "exited"},
         status = "error" => ~(it.type = "shell" /\ it.call = c)
  PROVE  /\ SettledItem(it, c, status) \in Items
         /\ SettledItem(it, c, status).type = it.type /\ SettledItem(it, c, status).call = it.call
         /\ ItemSays(SettledItem(it, c, status)) = Mapped(ItemSays(it), Settling(c, StateOf(status)))
<1> DEFINE new == SettledItem(it, c, status)
           p == Settling(c, StateOf(status))
<1>1. new \in Items /\ new.type = it.type /\ new.call = it.call /\ new.text = it.text
  BY DEF SettledItem, Items
<1>2. StateOf(status) \in {"running", "done", "failed"} /\ c \in MaybeCalls
  BY DEF StateOf, MaybeCalls
<1>3. /\ p \in [Sayings -> Sayings]
      /\ \A a \in Sayings : /\ RunOf(a, c) => p[a] = Run(c, StateOf(status))
                            /\ ~RunOf(a, c) => p[a] = a
  BY <1>2, SettlingIs
<1>4. it.call \in MaybeCalls
  BY DEF Items, MaybeCalls
<1> HIDE DEF p
<1>5. CASE it.type \in {"assistant", "thinking"}
  <2> DEFINE s == ItemSays(it)
  <2>1. s = Words(it.type, it.text) /\ ItemSays(new) = s
    BY <1>1, <1>5, ItemSaysIs
  <2>2. s \in Seq(Wordings) /\ s \in Seq(Sayings)
    <3>1. it.text \in Seq(Fragments)
      BY DEF Items, Texts
    <3>2. QED
      BY <1>5, <2>1, <3>1, WordsIs
  <2> HIDE DEF s
  <2>3. \A i \in 1..Len(s) : s[i] \in Sayings /\ s[i].kind # "run"
    BY <2>2 DEF Wordings
  <2>4. \A i \in 1..Len(s) : p[s[i]] = s[i]
    BY <1>3, <2>3 DEF RunOf
  <2>5. Mapped(s, p) = s
    BY <1>3, <2>2, <2>4, MappedSame
  <2>6. QED
    BY <1>1, <2>1, <2>5 DEF p, s
<1>6. CASE it.type \in {"tool", "shell"}
  <2>1. PICK old \in {"running", "done", "failed"} : ItemSays(it) = <<Run(it.call, old)>>
    BY <1>6, ItemSaysIs
  <2> DEFINE a == Run(it.call, old)
  <2>2. a \in Sayings /\ (it.call = c => RunOf(a, c)) /\ (RunOf(a, c) => it.call = c)
    BY <1>4, RunIs
  <2>3. Mapped(<<a>>, p) = <<p[a]>>
    <3> HIDE DEF a
    <3>1. QED
      BY <1>3, <2>2, MappedOne
  <2>4. CASE it.call = c
    <3>1. new.status = status
      BY <2>4 DEF SettledItem, Items
    <3>2. ItemSays(new) = <<Run(c, StateOf(status))>>
      <4>1. CASE it.type = "tool"
        <5>1. HistoryTool(new).state = StateOf(status)
          BY <3>1 DEF HistoryTool, Tool, Block, StateOf
        <5>2. QED
          BY <1>1, <2>4, <4>1, <5>1, ItemSaysIs
      <4>2. CASE it.type = "shell"
        <5>1. status # "error"
          BY <2>4, <4>2
        <5>2. HistoryShell(new).state = StateOf(status)
          BY <3>1, <5>1 DEF HistoryShell, Tool, Block, StateOf
        <5>3. QED
          BY <1>1, <2>4, <4>2, <5>2, ItemSaysIs
      <4>3. QED
        BY <1>6, <4>1, <4>2
    <3>3. p[a] = Run(c, StateOf(status))
      BY <1>3, <2>2, <2>4
    <3>4. QED
      BY <1>1, <2>1, <2>3, <3>2, <3>3 DEF p
  <2>5. CASE it.call # c
    <3>1. new = it
      BY <2>5 DEF SettledItem
    <3>2. p[a] = a
      BY <1>3, <2>2, <2>5
    <3>3. QED
      BY <1>1, <2>1, <2>3, <3>1, <3>2 DEF p
  <2>6. QED
    BY <2>4, <2>5
<1>7. QED
  BY <1>5, <1>6 DEF Items

\* No shell of the user is c.
NoShell(c) ==
  \A i \in DOMAIN msgs : \A j \in DOMAIN msgs[i].items :
    ~(msgs[i].items[j].type = "shell" /\ msgs[i].items[j].call = c)

LEMMA ItemsSettled ==
  ASSUME NEW its \in Seq(Items), NEW c \in Calls, NEW status \in {"running", "completed", "error", "exited"},
         NEW ns, ns = [j \in DOMAIN its |-> SettledItem(its[j], c, status)],
         status = "error" => \A j \in 1..Len(its) : ~(its[j].type = "shell" /\ its[j].call = c)
  PROVE  ns \in Seq(Items) /\ ItemsSay(ns) = Mapped(ItemsSay(its), Settling(c, StateOf(status)))
<1> DEFINE n == Len(its)
           A == Items
           S == Sayings
           w == ItemMap
           p == Settling(c, StateOf(status))
<1>1. n \in Nat /\ DOMAIN its = 1..n /\ \A j \in 1..n : its[j] \in Items
  OBVIOUS
<1>2. \A j \in 1..n : /\ SettledItem(its[j], c, status) \in Items
                      /\ ItemSays(SettledItem(its[j], c, status)) = Mapped(ItemSays(its[j]), p)
  BY <1>1, ItemSettled
<1>3. ns \in Seq(Items) /\ Len(ns) = n /\ \A j \in 1..n : ns[j] = SettledItem(its[j], c, status)
  <2>1. ns \in [1..n -> Items] /\ \A j \in 1..n : ns[j] = SettledItem(its[j], c, status)
    BY <1>1, <1>2
  <2> HIDE DEF n
  <2>2. ns \in Seq(Items) /\ Len(ns) = n
    BY <1>1, <2>1, SequenceIs
  <2>3. QED
    BY <2>1, <2>2
<1>4. /\ w \in Maps(A, Seq(S)) /\ its \in Seq(A) /\ ns \in Seq(A)
      /\ ItemsSay(its) = Together(w, its) /\ ItemsSay(ns) = Together(w, ns)
  BY <1>3, ItemsSayIs
<1>5. p \in Maps(S, S)
  <2>1. StateOf(status) \in {"running", "done", "failed"} /\ c \in MaybeCalls
    BY DEF StateOf, MaybeCalls
  <2>2. QED
    BY <2>1, SettlingIs DEF Maps
<1>6. ElementsMapped(w, p, its, ns)
  <2>1. \A j \in 1..n : ns[j] \in Items /\ w[ns[j]] = ItemSays(ns[j]) /\ w[its[j]] = ItemSays(its[j])
    BY <1>1, <1>2, <1>3 DEF ItemMap
  <2> HIDE DEF w, p
  <2>2. QED
    BY <1>2, <1>3, <2>1 DEF ElementsMapped
<1> HIDE DEF w, p, A, S, n
<1>7. Together(w, ns) = Mapped(Together(w, its), p)
  BY ONLY <1>4, <1>5, <1>6, TogetherMapped
<1>8. QED
  BY <1>3, <1>4, <1>7 DEF p

LEMMA ToldSettled ==
  ASSUME msgs \in Seq(Messages), NEW c \in Calls, NEW status \in {"running", "completed", "error", "exited"},
         Settle(c, status), status = "error" => NoShell(c)
  PROVE  Told(msgs') = Mapped(Told(msgs), Settling(c, StateOf(status)))
<1> DEFINE n == Len(msgs)
           A == Messages
           S == Sayings
           w == MessageMap
           p == Settling(c, StateOf(status))
           given(i) == [j \in DOMAIN msgs[i].items |-> SettledItem(msgs[i].items[j], c, status)]
<1>1. n \in Nat /\ DOMAIN msgs = 1..n /\ \A i \in 1..n : msgs[i] \in Messages /\ msgs[i].items \in Seq(Items)
  BY MessageItems
<1>2. msgs' \in Seq(Messages) /\ Len(msgs') = n
  BY SettleIs
<1>3. msgs' = [i \in 1..n |-> [msgs[i] EXCEPT !.items = given(i)]]
  BY <1>1 DEF Settle, SettledItem
<1>4. ASSUME NEW i \in 1..n PROVE msgs'[i] \in Messages /\ msgs'[i].items = given(i)
  <2> DEFINE m == msgs[i]
             its == given(i)
  <2>1. m \in Messages /\ msgs'[i] \in Messages
    BY <1>1, <1>2
  <2>2. msgs'[i] = [m EXCEPT !.items = its]
    BY <1>3
  <2> HIDE DEF m, its
  <2>3. msgs'[i].items = its
    BY <2>1, <2>2 DEF Messages
  <2>4. QED
    BY <2>1, <2>3 DEF its
<1>5. ASSUME NEW i \in 1..n
      PROVE  ItemsSay(msgs'[i].items) = Mapped(ItemsSay(msgs[i].items), p)
  <2> DEFINE its == msgs[i].items
             ns == given(i)
  <2>1. its \in Seq(Items) /\ msgs'[i].items = ns
    BY <1>1, <1>4
  <2>2. status = "error" => \A j \in 1..Len(its) : ~(its[j].type = "shell" /\ its[j].call = c)
    <3>1. DOMAIN its = 1..Len(its)
      BY <2>1
    <3>2. QED
      BY <1>1, <3>1 DEF NoShell
  <2>3. ns = [j \in DOMAIN its |-> SettledItem(its[j], c, status)]
    OBVIOUS
  <2> HIDE DEF its, ns, p, n, given
  <2>4. ItemsSay(ns) = Mapped(ItemsSay(its), Settling(c, StateOf(status)))
    BY <2>1, <2>2, <2>3, ItemsSettled
  <2>5. QED
    BY <2>1, <2>4 DEF its, p
<1> HIDE DEF given
<1>6. /\ w \in Maps(A, Seq(S)) /\ msgs \in Seq(A) /\ msgs' \in Seq(A)
      /\ Told(msgs) = Together(w, msgs) /\ Told(msgs') = Together(w, msgs')
      /\ \A m \in Messages : w[m] = ItemsSay(m.items)
  BY <1>2, ToldIs
<1>7. p \in Maps(S, S)
  <2>1. StateOf(status) \in {"running", "done", "failed"} /\ c \in MaybeCalls
    BY DEF StateOf, MaybeCalls
  <2>2. QED
    BY <2>1, SettlingIs DEF Maps
<1>8. ElementsMapped(w, p, msgs, msgs')
  <2> HIDE DEF w, p
  <2>1. \A i \in 1..n : w[msgs'[i]] = Mapped(w[msgs[i]], p)
    BY <1>1, <1>4, <1>5, <1>6
  <2>2. QED
    BY <1>2, <2>1 DEF ElementsMapped
<1> HIDE DEF w, p, A, S, n
<1>9. Together(w, msgs') = Mapped(Together(w, msgs), p)
  BY ONLY <1>6, <1>7, <1>8, TogetherMapped
<1>10. QED
  BY <1>6, <1>9 DEF p

-------------------------------------------------------------------------------
(* What the messages are, and of which calls nothing is told *)

\* A call that has begun has begun, and one of the user's stays one.
Forward ==
  \A d \in Calls : /\ open[d] \in {"user", "over"} => open'[d] \in {"user", "over"}
                   /\ open'[d] = "unused" => open[d] = "unused"

\* The messages are what they were, whatever their items say.
Alike(ms, ns) ==
  /\ Len(ns) = Len(ms)
  /\ \A i \in 1..Len(ms) :
       Proper(ms[i]) =>
         /\ Proper(ns[i]) /\ ns[i].type = ms[i].type
         /\ ms[i].type = "shell" => ns[i].items[1].call = ms[i].items[1].call

LEMMA AlikeKeeps ==
  ASSUME msgs \in Seq(Messages), msgs' \in Seq(Messages), ProperInv, ShellsInv, Alike(msgs, msgs'), Forward
  PROVE  ProperInv' /\ ShellsInv'
<1> DEFINE L == Len(msgs)
<1>1. DOMAIN msgs = 1..L /\ DOMAIN msgs' = 1..L
  BY DEF Alike
<1>2. ASSUME NEW i \in 1..L
      PROVE  /\ Proper(msgs'[i]) /\ msgs'[i].type = msgs[i].type
             /\ msgs[i].type = "shell" => msgs'[i].items[1].call = msgs[i].items[1].call
  <2>1. Proper(msgs[i])
    BY <1>1 DEF ProperInv
  <2>2. QED
    BY <2>1 DEF Alike
<1> HIDE DEF L
<1>3. ProperInv'
  BY <1>1, <1>2 DEF ProperInv
<1>4. ASSUME NEW i \in 1..L, msgs'[i].type = "shell", NEW c \in Calls, msgs'[i].items[1].call = c
      PROVE  open'[c] \in {"user", "over"}
  <2>1. msgs[i].type = "shell" /\ msgs[i].items[1].call = c
    BY <1>2, <1>4
  <2>2. open[c] \in {"user", "over"}
    BY <1>1, <2>1 DEF ShellsInv
  <2>3. QED
    BY <2>2 DEF Forward
<1>5. ShellsInv'
  BY <1>1, <1>4 DEF ShellsInv
<1>6. QED
  BY <1>3, <1>5

LEMMA AddedKeeps ==
  ASSUME msgs \in Seq(Messages), ProperInv, ShellsInv, Forward, NEW m \in Messages, msgs' = Append(msgs, m),
         Proper(m), m.type = "shell" => \A c \in Calls : m.items[1].call = c => open'[c] \in {"user", "over"}
  PROVE  ProperInv' /\ ShellsInv'
<1> DEFINE L == Len(msgs)
<1>1. /\ L \in Nat /\ DOMAIN msgs = 1..L /\ DOMAIN msgs' = 1..L + 1 /\ msgs'[L + 1] = m
      /\ \A i \in 1..L : msgs'[i] = msgs[i]
  OBVIOUS
<1> HIDE DEF L
<1>2. \A i \in 1..L + 1 : i = L + 1 \/ i \in 1..L
  BY <1>1
<1>3. ASSUME NEW i \in 1..L + 1 PROVE Proper(msgs'[i])
  BY <1>1, <1>2 DEF ProperInv
<1>4. ASSUME NEW i \in 1..L + 1, msgs'[i].type = "shell", NEW c \in Calls, msgs'[i].items[1].call = c
      PROVE  open'[c] \in {"user", "over"}
  <2>1. CASE i = L + 1
    BY <1>1, <1>4, <2>1
  <2>2. CASE i \in 1..L
    <3>1. open[c] \in {"user", "over"}
      BY <1>1, <1>4, <2>2 DEF ShellsInv
    <3>2. QED
      BY <3>1 DEF Forward
  <2>3. QED
    BY <1>2, <2>1, <2>2
<1>5. QED
  BY <1>1, <1>3, <1>4 DEF ProperInv, ShellsInv

\* Of a call of which nothing is told, nothing is told by words or by another's run.
LEMMA NoRunKept ==
  ASSUME NEW s \in Seq(Sayings), NEW d \in MaybeCalls, NoRun(s, d)
  PROVE  /\ \A w \in Seq(Wordings) : NoRun(s \o w, d)
         /\ \A a \in Sayings : ~RunOf(a, d) => NoRun(s \o <<a>>, d)
         /\ \A c \in MaybeCalls : \A state \in {"running", "done", "failed"} :
              NoRun(Mapped(s, Settling(c, state)), d)
<1> DEFINE m == Len(s)
<1>1. m \in Nat /\ DOMAIN s = 1..m /\ \A j \in 1..m : s[j] \in Sayings /\ ~RunOf(s[j], d)
  BY DEF NoRun
<1>2. ASSUME NEW w \in Seq(Sayings), \A j \in 1..Len(w) : ~RunOf(w[j], d)
      PROVE  NoRun(s \o w, d)
  <2> DEFINE n == Len(w)
             t == s \o w
  <2>1. /\ n \in Nat /\ DOMAIN t = 1..m + n /\ \A j \in 1..m : t[j] = s[j]
        /\ \A j \in 1..n : t[m + j] = w[j]
    BY <1>1, ConcatIs
  <2> HIDE DEF t, m
  <2>2. ASSUME NEW j \in 1..m + n PROVE ~RunOf(t[j], d)
    <3>1. CASE j \in 1..m
      BY <1>1, <2>1, <3>1
    <3>2. CASE j \notin 1..m
      <4>1. j - m \in 1..n /\ m + (j - m) = j
        BY <1>1, <2>1, <3>2
      <4>2. t[m + (j - m)] = w[j - m] /\ ~RunOf(w[j - m], d)
        BY <1>2, <2>1, <4>1
      <4>3. QED
        BY <4>1, <4>2
    <3>3. QED
      BY <3>1, <3>2
  <2>3. QED
    BY <2>1, <2>2 DEF NoRun, t
<1>3. ASSUME NEW w \in Seq(Wordings) PROVE NoRun(s \o w, d)
  <2>1. w \in Seq(Sayings) /\ \A j \in 1..Len(w) : ~RunOf(w[j], d)
    BY DEF Wordings, RunOf
  <2>2. QED
    BY <1>2, <2>1
<1>4. ASSUME NEW a \in Sayings, ~RunOf(a, d) PROVE NoRun(s \o <<a>>, d)
  <2> DEFINE w == <<a>>
  <2>1. w \in Seq(Sayings) /\ \A j \in 1..Len(w) : ~RunOf(w[j], d)
    <3>1. w \in Seq(Sayings) /\ Len(w) = 1 /\ w[1] = a
      OBVIOUS
    <3> HIDE DEF w
    <3>2. QED
      BY <1>4, <3>1
  <2> HIDE DEF w
  <2>2. NoRun(s \o w, d)
    BY <1>2, <2>1
  <2>3. QED
    BY <2>2 DEF w
<1>5. ASSUME NEW c \in MaybeCalls, NEW state \in {"running", "done", "failed"}
      PROVE  NoRun(Mapped(s, Settling(c, state)), d)
  <2> DEFINE p == Settling(c, state)
             t == Mapped(s, p)
             b == Run(c, state)
  <2>1. /\ p \in [Sayings -> Sayings]
        /\ \A a \in Sayings : (RunOf(a, c) => p[a] = b) /\ (~RunOf(a, c) => p[a] = a)
    BY SettlingIs
  <2>2. RunOf(b, d) => d = c
    BY RunIs
  <2> HIDE DEF p, b, m
  <2>3. t \in Seq(Sayings) /\ Len(t) = Len(s) /\ \A j \in 1..Len(s) : t[j] = p[s[j]]
    BY <2>1, MappedType
  <2> HIDE DEF t
  <2>4. ASSUME NEW j \in 1..m PROVE ~RunOf(t[j], d)
    <3>1. s[j] \in Sayings /\ ~RunOf(s[j], d) /\ t[j] = p[s[j]]
      BY <1>1, <2>3 DEF m
    <3>2. QED
      BY <2>1, <2>2, <3>1
  <2>5. DOMAIN t = 1..m
    BY <2>3 DEF m
  <2>6. QED
    BY <2>4, <2>5 DEF NoRun, t, p
<1>6. QED
  BY <1>3, <1>4, <1>5

LEMMA NothingIn ==
  ASSUME NEW s, s = <<>>
  PROVE  \A j \in DOMAIN s : FALSE
OBVIOUS

LEMMA MessageKeepsTold ==
  ASSUME msgs \in Seq(Messages), MessagesInv, UNCHANGED open,
         NEW type \in {"user", "assistant", "compacted", "compaction failed"},
         AddMessage(Message(type, <<>>))
  PROVE  MessagesInv' /\ Told(msgs') = Told(msgs)
<1> DEFINE m == Message(type, <<>>)
<1>1. msgs' = Append(msgs, m)
  BY DEF AddMessage
<1>2. m \in Messages /\ m.type = type /\ m.items = <<>>
  BY MessageType
<1> HIDE DEF m
<1>3. Forward
  BY DEF Forward
<1>4. Proper(m) /\ m.type # "shell"
  <2> DEFINE its == m.items
  <2>1. its = <<>>
    BY <1>2
  <2> HIDE DEF its
  <2>2. \A j \in DOMAIN its : FALSE
    BY ONLY <2>1, NothingIn
  <2>3. QED
    BY <1>2, <2>1, <2>2 DEF Proper, its
<1>5. ProperInv' /\ ShellsInv'
  BY <1>1, <1>2, <1>3, <1>4, AddedKeeps DEF MessagesInv
<1>6. Told(msgs') = Told(msgs)
  <2> DEFINE h == Told(msgs)
  <2>1. ItemsSay(<<>>) = <<>>
    BY NoItemsSay
  <2>2. Told(Append(msgs, m)) = h \o ItemsSay(m.items) /\ h \in Seq(Sayings)
    BY <1>2, ToldAdded, ToldIs
  <2> HIDE DEF h
  <2>3. h \o <<>> = h
    BY <2>2, ConcatNone
  <2>4. QED
    BY <1>1, <1>2, <2>1, <2>2, <2>3 DEF h
<1>7. FreshInv'
  BY <1>6 DEF MessagesInv, FreshInv
<1>8. QED
  BY <1>5, <1>6, <1>7 DEF MessagesInv

NoShells(its) == \A j \in DOMAIN its : its[j].type # "shell"

LEMMA WritingAlike ==
  ASSUME msgs \in Seq(Messages), ProperInv, Writing, NEW its, NoShells(msgs[Len(msgs)].items) => NoShells(its),
         msgs' = [msgs EXCEPT ![Len(msgs)].items = its]
  PROVE  Alike(msgs, msgs')
<1> DEFINE L == Len(msgs)
           m == msgs[L]
           n == [m EXCEPT !.items = its]
<1>1. L \in Nat /\ L \in 1..L /\ DOMAIN msgs = 1..L /\ m \in Messages /\ m.type = "assistant"
  BY DEF Writing
<1>2. msgs' = [msgs EXCEPT ![L] = n]
  OBVIOUS
<1>3. n.items = its /\ n.type = "assistant"
  BY <1>1 DEF Messages
<1>4. NoShells(its)
  BY <1>1 DEF ProperInv, Proper, NoShells
<1> HIDE DEF n, m
<1>5. Proper(n)
  BY <1>3, <1>4 DEF Proper, NoShells
<1>6. DOMAIN msgs' = 1..L /\ msgs'[L] = n /\ \A i \in 1..L : i # L => msgs'[i] = msgs[i]
  BY <1>1, <1>2
<1>7. Len(msgs') = L
  BY <1>1, <1>2
<1> HIDE DEF L
<1>8. ASSUME NEW i \in 1..L, Proper(msgs[i])
      PROVE  /\ Proper(msgs'[i]) /\ msgs'[i].type = msgs[i].type
             /\ msgs[i].type = "shell" => msgs'[i].items[1].call = msgs[i].items[1].call
  <2>1. CASE i = L
    BY <1>1, <1>3, <1>5, <1>6, <2>1 DEF m
  <2>2. CASE i # L
    BY <1>6, <1>8, <2>2
  <2>3. QED
    BY <2>1, <2>2
<1>9. QED
  BY <1>7, <1>8 DEF Alike, L

\* What a fragment adds.
LEMMA DeltaTells ==
  ASSUME TypeInv, Writing, MessagesInv, NEW kind \in {"assistant", "thinking"}, NEW f \in Fragments,
         NEW fresh \in BOOLEAN, Delta(kind, f, fresh)
  PROVE  MessagesInv' /\ Told(msgs') = Told(msgs) \o Word(kind, f)
<1> DEFINE L == Len(msgs)
           its == msgs[Len(msgs)].items
           item == Item(kind, <<f>>, None, None, "done")
           longer == [its EXCEPT ![Len(its)].text = Append(@, f)]
<1>1. msgs \in Seq(Messages) /\ msgs' \in Seq(Messages) /\ Len(msgs) # 0 /\ UNCHANGED open
  <2>1. msgs \in Seq(Messages) /\ Len(msgs) # 0
    BY DEF TypeInv, Writing
  <2>2. msgs' \in Seq(Messages)
    BY DeltaMessages
  <2>3. UNCHANGED open
    BY DEF Delta
  <2>4. QED
    BY <2>1, <2>2, <2>3
<1>2. item \in Items /\ item.type = kind /\ item.text = <<f>> /\ kind # "shell"
  <2>1. <<f>> \in Texts
    BY DEF Texts
  <2>2. QED
    BY <2>1 DEF Item, Items, MaybeCalls
<1>3. its \in Seq(Items)
  <2>1. msgs[Len(msgs)] \in Messages
    BY <1>1
  <2>2. QED
    BY <2>1, MessageItems
<1>4. \/ msgs' = [msgs EXCEPT ![Len(msgs)].items = Append(@, item)]
      \/ Continues(msgs, msgs', kind, f)
  BY DEF Delta, AddItem, Current, Continues
<1>5. ItemSays(item) = Word(kind, f)
  <2> DEFINE none == <<>>
             x == Word(kind, f)
  <2>1. ItemSays(item) = Words(kind, <<f>>)
    BY <1>2, ItemSaysIs
  <2>2. none \in Seq(Fragments) /\ Append(none, f) = <<f>>
    OBVIOUS
  <2>3. Words(kind, none) = <<>>
    BY NoWords
  <2>4. x \in Seq(Sayings)
    BY WordType
  <2> HIDE DEF none
  <2>5. Words(kind, Append(none, f)) = Words(kind, none) \o Word(kind, f)
    BY <2>2, WordsAppend
  <2> HIDE DEF x
  <2>6. <<>> \o x = x
    BY <2>4, ConcatNone
  <2>7. QED
    BY <2>1, <2>2, <2>3, <2>5, <2>6 DEF x
<1> HIDE DEF item
<1>6. ASSUME msgs' = [msgs EXCEPT ![Len(msgs)].items = Append(@, item)]
      PROVE  Alike(msgs, msgs') /\ Told(msgs') = Told(msgs) \o Word(kind, f)
  <2>1. Told(msgs') = Told(msgs) \o ItemSays(item)
    BY <1>1, <1>2, <1>6, ToldItem
  <2> DEFINE more == Append(its, item)
  <2>2. msgs' = [msgs EXCEPT ![Len(msgs)].items = more]
    BY <1>6
  <2>3. NoShells(its) => NoShells(more)
    <3> DEFINE n == Len(its)
    <3> HIDE DEF its
    <3>1. /\ n \in Nat /\ DOMAIN its = 1..n /\ DOMAIN more = 1..n + 1 /\ more[n + 1] = item
          /\ \A j \in 1..n : more[j] = its[j]
      BY <1>2, <1>3
    <3> HIDE DEF n, more
    <3>2. \A j \in 1..n + 1 : j = n + 1 \/ j \in 1..n
      BY <3>1
    <3>3. QED
      BY <1>2, <3>1, <3>2 DEF NoShells
  <2> HIDE DEF more
  <2>4. Alike(msgs, msgs')
    BY <1>1, <2>2, <2>3, WritingAlike DEF MessagesInv
  <2>5. QED
    BY <1>5, <2>1, <2>4
<1>7. ASSUME Continues(msgs, msgs', kind, f)
      PROVE  Alike(msgs, msgs') /\ Told(msgs') = Told(msgs) \o Word(kind, f)
  <2>1. Told(msgs') = Told(msgs) \o Word(kind, f)
    BY <1>1, <1>7, ToldFragment
  <2>2. msgs' = [msgs EXCEPT ![Len(msgs)].items = longer] /\ its # <<>>
    BY <1>7 DEF Continues
  <2>3. NoShells(its) => NoShells(longer)
    <3> DEFINE n == Len(its)
               new == [its[n] EXCEPT !.text = Append(@, f)]
    <3> HIDE DEF its
    <3>1. n \in Nat /\ n \in 1..n /\ DOMAIN its = 1..n /\ its[n] \in Items
      BY <1>3, <2>2
    <3>2. new.type = its[n].type
      BY <3>1 DEF Items
    <3>3. longer = [its EXCEPT ![n] = new]
      OBVIOUS
    <3> HIDE DEF new, longer, n
    <3>4. DOMAIN longer = 1..n /\ longer[n] = new /\ \A j \in 1..n : j # n => longer[j] = its[j]
      BY <3>1, <3>3
    <3>5. QED
      BY <3>1, <3>2, <3>4 DEF NoShells
  <2> HIDE DEF longer
  <2>4. Alike(msgs, msgs')
    BY <1>1, <2>2, <2>3, WritingAlike DEF MessagesInv
  <2>5. QED
    BY <2>1, <2>4
<1>8. Told(msgs') = Told(msgs) \o Word(kind, f)
  BY <1>4, <1>5, <1>6, <1>7
<1>9. Alike(msgs, msgs')
  BY <1>4, <1>6, <1>7
<1>10. Forward
  BY <1>1 DEF Forward
<1>11. ProperInv' /\ ShellsInv'
  BY <1>1, <1>9, <1>10, AlikeKeeps DEF MessagesInv
<1>12. FreshInv'
  <2> DEFINE h == Told(msgs)
             w == Word(kind, f)
  <2>1. h \in Seq(Sayings) /\ w \in Seq(Wordings) /\ Told(msgs') = h \o w
    BY <1>1, <1>8, ToldIs, WordType
  <2>2. ASSUME NEW c \in Calls, open'[c] = "unused" PROVE NoRun(Told(msgs'), c)
    <3>1. NoRun(h, c) /\ c \in MaybeCalls
      BY <1>1, <2>2 DEF MessagesInv, FreshInv, MaybeCalls
    <3> HIDE DEF h, w
    <3>2. NoRun(h \o w, c)
      BY <2>1, <3>1, NoRunKept
    <3>3. QED
      BY <2>1, <3>2
  <2>3. QED
    BY <2>2 DEF FreshInv
<1>13. QED
  BY <1>8, <1>11, <1>12 DEF MessagesInv

\* Of a call that begins, nothing was told; and of the others nothing is told still.
LEMMA RunBegins ==
  ASSUME TypeInv, MessagesInv, NEW c \in Calls, open[c] = "unused", NEW stage, stage # "unused",
         open' = [open EXCEPT ![c] = stage], Told(msgs') = Told(msgs) \o <<Run(c, "running")>>
  PROVE  /\ FreshInv' /\ Forward
         /\ NoRun(Told(msgs), c) /\ Told(msgs') = Append(Told(msgs), Run(c, "running"))
<1> DEFINE h == Told(msgs)
           a == Run(c, "running")
<1>1. h \in Seq(Sayings) /\ c \in MaybeCalls
  BY ToldIs DEF TypeInv, MaybeCalls
<1>2. a \in Sayings /\ \A d : RunOf(a, d) => d = c
  BY <1>1, RunIs
<1>3. open'[c] = stage /\ \A d \in Calls : d # c => open'[d] = open[d]
  BY DEF TypeInv
<1>4. Forward
  BY <1>3 DEF Forward
<1>5. NoRun(h, c) /\ Told(msgs') = h \o <<a>>
  BY DEF MessagesInv, FreshInv
<1>6. ASSUME NEW d \in Calls, open'[d] = "unused" PROVE NoRun(Told(msgs'), d)
  <2>1. d # c /\ open[d] = "unused"
    BY <1>3, <1>6
  <2>2. NoRun(h, d) /\ ~RunOf(a, d) /\ d \in MaybeCalls
    BY <1>2, <2>1 DEF MessagesInv, FreshInv, MaybeCalls
  <2> HIDE DEF h, a
  <2>3. NoRun(h \o <<a>>, d)
    BY <1>1, <1>2, <2>2, NoRunKept
  <2>4. QED
    BY <1>5, <2>3
<1>7. FreshInv'
  BY <1>6 DEF FreshInv
<1>8. h \o <<a>> = Append(h, a)
  <2> HIDE DEF h, a
  <2>1. QED
    BY <1>1, <1>2
<1>9. QED
  BY <1>4, <1>5, <1>7, <1>8

\* The item of a call whose input begins, and that of a shell of the user, tell of a run.
LEMMA ToolInputTells ==
  ASSUME TypeInv, Writing, MessagesInv, NEW c \in Calls, NEW name \in Names, ToolInput(c, name)
  PROVE  /\ MessagesInv' /\ NoRun(Told(msgs), c)
         /\ Told(msgs') = Append(Told(msgs), Run(c, "running"))
<1> DEFINE its == msgs[Len(msgs)].items
           item == Item("tool", <<>>, c, name, "streaming")
           more == Append(its, item)
<1>1. /\ open[c] = "unused" /\ open' = [open EXCEPT ![c] = name]
      /\ msgs' = [msgs EXCEPT ![Len(msgs)].items = Append(@, item)]
  BY DEF ToolInput, Fresh, AddItem, Current
<1>2. msgs \in Seq(Messages) /\ Len(msgs) # 0 /\ name # "unused"
  <2>1. "unused" \in Stages /\ name \in Names
    BY DEF Stages
  <2>2. name # "unused"
    BY <2>1, StageFacts
  <2>3. QED
    BY <2>2 DEF TypeInv, Writing
<1>3. msgs' \in Seq(Messages) /\ item \in Items
  BY ToolInputMessages
<1>4. item.type = "tool" /\ item.call = c /\ item.status \in Active
  BY DEF Item, Active
<1>5. its \in Seq(Items)
  <2>1. msgs[Len(msgs)] \in Messages
    BY <1>2
  <2>2. QED
    BY <2>1, MessageItems
<1> HIDE DEF item
<1>6. ItemSays(item) = <<Run(c, "running")>>
  BY <1>3, <1>4, ItemSaysIs, HistoryToolIs
<1>7. Told(msgs') = Told(msgs) \o <<Run(c, "running")>>
  <2>1. Told(msgs') = Told(msgs) \o ItemSays(item)
    BY <1>1, <1>2, <1>3, ToldItem
  <2>2. QED
    BY <1>6, <2>1
<1>8. /\ FreshInv' /\ Forward /\ NoRun(Told(msgs), c)
      /\ Told(msgs') = Append(Told(msgs), Run(c, "running"))
  BY <1>1, <1>2, <1>7, RunBegins
<1>9. msgs' = [msgs EXCEPT ![Len(msgs)].items = more]
  BY <1>1
<1>10. NoShells(its) => NoShells(more)
  <2> DEFINE n == Len(its)
  <2> HIDE DEF its
  <2>1. /\ n \in Nat /\ DOMAIN its = 1..n /\ DOMAIN more = 1..n + 1 /\ more[n + 1] = item
        /\ \A j \in 1..n : more[j] = its[j]
    BY <1>3, <1>5
  <2> HIDE DEF n, more
  <2>2. \A j \in 1..n + 1 : j = n + 1 \/ j \in 1..n
    BY <2>1
  <2>3. QED
    BY <1>4, <2>1, <2>2 DEF NoShells
<1> HIDE DEF more
<1>11. Alike(msgs, msgs')
  BY <1>2, <1>9, <1>10, WritingAlike DEF MessagesInv
<1>12. ProperInv' /\ ShellsInv'
  BY <1>2, <1>3, <1>8, <1>11, AlikeKeeps DEF MessagesInv
<1>13. QED
  BY <1>8, <1>12 DEF MessagesInv

LEMMA UserShellTells ==
  ASSUME TypeInv, MessagesInv, NEW c \in Calls, UserShellStarted(c)
  PROVE  /\ MessagesInv' /\ NoRun(Told(msgs), c)
         /\ Told(msgs') = Append(Told(msgs), Run(c, "running"))
<1> DEFINE item == Item("shell", <<>>, c, None, "running")
           its == <<item>>
           m == Message("shell", its)
<1>1. /\ msgs \in Seq(Messages) /\ msgs' = Append(msgs, m)
      /\ open[c] = "unused" /\ open' = [open EXCEPT ![c] = "user"]
  BY DEF TypeInv, UserShellStarted, AddMessage, Fresh
<1>2. item \in Items /\ item.type = "shell" /\ item.call = c /\ item.status = "running"
  <2>1. <<>> \in Texts
    BY DEF Texts
  <2>2. QED
    BY <2>1 DEF Item, Items, MaybeCalls
<1> HIDE DEF item
<1>3. its \in ItemSeqs /\ Len(its) = 1 /\ its[1] = item
  BY <1>2 DEF ItemSeqs
<1>4. ItemsSay(its) = <<Run(c, "running")>>
  <2>1. ItemSays(item) = <<Run(c, HistoryShell(item).state)>>
    BY <1>2, ItemSaysIs
  <2>2. HistoryShell(item).state = "running"
    BY <1>2 DEF HistoryShell, Tool, Block
  <2>3. ItemsSay(its) = ItemSays(item)
    BY <1>2, OneItemSays
  <2>4. QED
    BY <2>1, <2>2, <2>3
<1> HIDE DEF its
<1>5. m \in Messages /\ m.type = "shell" /\ m.items = its
  BY <1>3 DEF Message, Messages
<1> HIDE DEF m
<1>6. Told(msgs') = Told(msgs) \o <<Run(c, "running")>>
  BY <1>1, <1>4, <1>5, ToldAdded
<1>7. /\ FreshInv' /\ Forward /\ NoRun(Told(msgs), c)
      /\ Told(msgs') = Append(Told(msgs), Run(c, "running"))
  BY <1>1, <1>6, RunBegins
<1>8. Proper(m) /\ m.items[1].call = c
  BY <1>2, <1>3, <1>5 DEF Proper
<1>9. open'[c] = "user"
  BY <1>1 DEF TypeInv
<1>10. ProperInv' /\ ShellsInv'
  BY <1>1, <1>5, <1>7, <1>8, <1>9, AddedKeeps DEF MessagesInv
<1>11. QED
  BY <1>7, <1>10 DEF MessagesInv

\* The user's shells are the user's.
LEMMA NoShellOf ==
  ASSUME msgs \in Seq(Messages), ProperInv, ShellsInv, NEW c \in Calls, open[c] \notin {"user", "over"}
  PROVE  NoShell(c)
<1>1. ASSUME NEW i \in DOMAIN msgs, NEW j \in DOMAIN msgs[i].items,
             msgs[i].items[j].type = "shell", msgs[i].items[j].call = c
      PROVE  FALSE
  <2> DEFINE m == msgs[i]
             its == m.items
  <2>1. Proper(m) /\ its \in Seq(Items) /\ (m.type = "shell" => its[1].call # c)
    BY MessageItems DEF ProperInv, ShellsInv
  <2>2. j \in DOMAIN its /\ its[j].type = "shell" /\ its[j].call = c
    BY <1>1
  <2>3. its # <<>>
    <3> HIDE DEF its
    <3>1. QED
      BY <2>2, NothingIn
  <2>4. m.type # "assistant"
    BY <2>1, <2>2 DEF Proper
  <2>5. m.type = "shell" /\ Len(its) = 1
    BY <2>1, <2>3, <2>4 DEF Proper
  <2> HIDE DEF m, its
  <2>6. j = 1
    BY <2>1, <2>2, <2>5
  <2>7. QED
    BY <2>1, <2>2, <2>5, <2>6
<1>2. QED
  BY <1>1 DEF NoShell

\* An item that is settled is of the call and of the type that it was.
LEMMA SettledAlike ==
  ASSUME msgs \in Seq(Messages), NEW c \in Calls,
         NEW status \in {"running", "completed", "error", "exited"}, Settle(c, status)
  PROVE  Alike(msgs, msgs')
<1> DEFINE n == Len(msgs)
           given(i) == [j \in DOMAIN msgs[i].items |-> SettledItem(msgs[i].items[j], c, status)]
<1>1. n \in Nat /\ DOMAIN msgs = 1..n /\ \A i \in 1..n : msgs[i] \in Messages /\ msgs[i].items \in Seq(Items)
  BY MessageItems
<1>2. msgs' \in Seq(Messages) /\ Len(msgs') = n
  BY SettleIs
<1>3. msgs' = [i \in 1..n |-> [msgs[i] EXCEPT !.items = given(i)]]
  BY <1>1 DEF Settle, SettledItem
<1>4. ASSUME NEW i \in 1..n, Proper(msgs[i])
      PROVE  /\ Proper(msgs'[i]) /\ msgs'[i].type = msgs[i].type
             /\ msgs[i].type = "shell" => msgs'[i].items[1].call = msgs[i].items[1].call
  <2> DEFINE m == msgs[i]
             k == msgs'[i]
             its == m.items
             ns == [j \in DOMAIN its |-> SettledItem(its[j], c, status)]
  <2>1. m \in Messages /\ k \in Messages /\ k.items \in Seq(Items) /\ its \in Seq(Items) /\ Proper(m)
    BY <1>1, <1>2, <1>4, MessageItems
  <2>2. k = [m EXCEPT !.items = ns]
    BY <1>3
  <2>3. k.items = ns /\ k.type = m.type
    <3> HIDE DEF m, k, ns
    <3>1. QED
      BY <2>1, <2>2 DEF Messages
  <2>4. DOMAIN ns = DOMAIN its /\ \A j \in DOMAIN its : ns[j] = SettledItem(its[j], c, status)
    OBVIOUS
  <2> HIDE DEF ns, k, its
  <2>5. \A j \in DOMAIN its : its[j] \in Items
    BY <2>1
  <2>6. \A j \in DOMAIN its : ns[j].type = its[j].type /\ ns[j].call = its[j].call
    <3>1. \A it \in Items : SettledItem(it, c, status).type = it.type /\ SettledItem(it, c, status).call = it.call
      BY DEF SettledItem, Items
    <3>2. QED
      BY <2>4, <2>5, <3>1
  <2>7. ns \in Seq(Items) /\ Len(ns) = Len(its)
    BY <2>1, <2>3, <2>4
  <2>8. its = <<>> => ns = <<>>
    BY <2>1, <2>7
  <2>9. 1 \in DOMAIN its \/ Len(its) # 1
    BY <2>1
  <2>10. Proper(k)
    BY <2>1, <2>3, <2>4, <2>6, <2>7, <2>8, <2>9 DEF Proper, its
  <2>11. m.type = "shell" => ns[1].call = its[1].call
    BY <2>1, <2>6, <2>9 DEF Proper, its
  <2>12. QED
    BY <2>3, <2>10, <2>11 DEF k, its
<1>5. QED
  BY <1>1, <1>2, <1>4 DEF Alike

\* A call that goes on, or ends, is told of in the state that it now has.
LEMMA SettleTells ==
  ASSUME TypeInv, MessagesInv, NEW c \in Calls, open[c] \notin {"unused", "over"},
         NEW stage, stage # "unused", open[c] = "user" => stage = "over",
         open' = [open EXCEPT ![c] = stage],
         NEW status \in {"running", "completed", "error", "exited"}, Settle(c, status),
         status = "error" => open[c] # "user"
  PROVE  MessagesInv' /\ Told(msgs') = Mapped(Told(msgs), Settling(c, StateOf(status)))
<1> DEFINE h == Told(msgs)
           state == StateOf(status)
<1>1. msgs \in Seq(Messages) /\ ProperInv /\ ShellsInv /\ FreshInv
  BY DEF TypeInv, MessagesInv
<1>2. open'[c] = stage /\ \A d \in Calls : d # c => open'[d] = open[d]
  BY DEF TypeInv
<1>3. Forward
  BY <1>2 DEF Forward
<1>4. status = "error" => NoShell(c)
  BY <1>1, NoShellOf
<1>5. Told(msgs') = Mapped(h, Settling(c, state))
  BY <1>1, <1>4, ToldSettled
<1>6. msgs' \in Seq(Messages) /\ Alike(msgs, msgs')
  BY <1>1, SettleIs, SettledAlike
<1>7. ProperInv' /\ ShellsInv'
  BY <1>1, <1>3, <1>6, AlikeKeeps
<1>8. FreshInv'
  <2>1. h \in Seq(Sayings) /\ state \in {"running", "done", "failed"} /\ c \in MaybeCalls
    BY <1>1, ToldIs DEF StateOf, MaybeCalls
  <2>2. ASSUME NEW d \in Calls, open'[d] = "unused" PROVE NoRun(Told(msgs'), d)
    <3>1. NoRun(h, d) /\ d \in MaybeCalls
      BY <1>1, <1>3, <2>2 DEF Forward, FreshInv, MaybeCalls
    <3> HIDE DEF h, state
    <3>2. NoRun(Mapped(h, Settling(c, state)), d)
      BY <2>1, <3>1, NoRunKept
    <3>3. QED
      BY <1>5, <3>2
  <2>3. QED
    BY <2>2 DEF FreshInv
<1>9. QED
  BY <1>5, <1>7, <1>8 DEF MessagesInv

\* While a shell runs the messages stay what they are.
LEMMA ShellTells ==
  ASSUME TypeInv, MessagesInv, UNCHANGED msgs, NEW c \in Calls, NEW stage, stage # "unused",
         open[c] \notin {"user", "over"}, open' = [open EXCEPT ![c] = stage]
  PROVE  MessagesInv' /\ Told(msgs') = Told(msgs)
<1>1. msgs \in Seq(Messages) /\ ProperInv /\ ShellsInv /\ FreshInv
  BY DEF TypeInv, MessagesInv
<1>2. open'[c] = stage /\ \A d \in Calls : d # c => open'[d] = open[d]
  BY DEF TypeInv
<1>3. Forward
  BY <1>2 DEF Forward
<1>4. ProperInv' /\ ShellsInv' /\ FreshInv'
  BY <1>1, <1>3 DEF ProperInv, ShellsInv, FreshInv, Forward
<1>5. QED
  BY <1>4 DEF MessagesInv

-------------------------------------------------------------------------------
(* The transcript that was followed, and what the messages tell *)

\* While a call is at work the transcript lacks its run, until it is called or its shell
\* begins, or has it in a state that the messages do not tell of yet.
Follows(c) ==
  /\ open[c] \in Names \cup {"to run"} => Lacks(Says(blocks), Told(msgs), c)
  /\ open[c] \in {"running", "called", "user"} => Awaits(Says(blocks), Told(msgs), c)

SaysInv == clean => /\ Idle => Says(blocks) = Told(msgs)
                    /\ \A c \in Calls : Follows(c)

LEMMA InitSays == Init => MessagesInv /\ SaysInv
<1> SUFFICES ASSUME Init PROVE MessagesInv /\ SaysInv
  OBVIOUS
<1>1. \A c \in Calls : open[c] = "unused"
  BY DEF Init
<1>2. msgs = <<>> /\ blocks = <<>>
  BY DEF Init
<1>3. \A i \in DOMAIN msgs : FALSE
  BY ONLY <1>2, NothingIn
<1>4. ProperInv /\ ShellsInv
  BY <1>3 DEF ProperInv, ShellsInv
<1>5. Told(msgs) = <<>> /\ Says(blocks) = <<>>
  <2>1. msgs \in Seq(Messages) /\ blocks \in Seq(Blocks)
    BY InitScreen DEF ScreenInv, TypeInv
  <2>2. Told(msgs) = Together(MessageMap, msgs) /\ Says(blocks) = Together(BlockSays, blocks)
    BY <2>1, ToldIs, SaysIs
  <2>3. QED
    BY <1>2, <2>2, TogetherNone
<1>6. FreshInv
  <2> DEFINE h == Told(msgs)
  <2>1. h = <<>>
    BY <1>5
  <2> HIDE DEF h
  <2>2. \A j \in DOMAIN h : FALSE
    BY ONLY <2>1, NothingIn
  <2>3. QED
    BY <2>2 DEF FreshInv, NoRun, h
<1>7. \A c \in Calls : Follows(c)
  BY <1>1, StageFacts DEF Follows
<1>8. QED
  BY <1>4, <1>5, <1>6, <1>7 DEF MessagesInv, SaysInv

\* A step that says nothing and of which nothing is told.
LEMMA QuietKeepsSays ==
  ASSUME SaysInv, UNCHANGED open, Says(blocks') = Says(blocks), Told(msgs') = Told(msgs), clean' => clean
  PROVE  SaysInv'
BY DEF SaysInv, Follows, Idle, Running

\* While one call is at work the others are not.
LEMMA OthersIdle ==
  ASSUME OneCall, NEW c \in Calls, Running(c)
  PROVE  \A d \in Calls : d # c => open[d] \in {"unused", "over"}
BY DEF OneCall, Running

\* The one call that is at work begins, moves on or ends.
LEMMA CallFollowed ==
  ASSUME TypeInv, NEW c \in Calls, \A d \in Calls : d # c => open[d] \in {"unused", "over"},
         NEW stage \in Names \cup Stages, stage # "unused", open' = [open EXCEPT ![c] = stage],
         stage \in Names \cup {"to run"} => Lacks(Says(blocks'), Told(msgs'), c),
         stage \in {"running", "called", "user"} => Awaits(Says(blocks'), Told(msgs'), c),
         stage = "over" => Says(blocks') = Told(msgs')
  PROVE  SaysInv'
<1>1. open'[c] = stage /\ \A d \in Calls : d # c => open'[d] \in {"unused", "over"}
  BY DEF TypeInv
<1>2. "unused" \notin Names /\ "over" \notin Names
  BY StageFacts DEF Stages
<1>3. ASSUME NEW d \in Calls PROVE Follows(d)'
  <2>1. CASE d = c
    BY <1>1, <2>1 DEF Follows
  <2>2. CASE d # c
    BY <1>1, <1>2, <2>2 DEF Follows
  <2>3. QED
    BY <2>1, <2>2
<1>4. Idle' => stage = "over"
  BY <1>1 DEF Idle, Running
<1>5. QED
  BY <1>3, <1>4 DEF SaysInv

\* A step that appends or takes away a block that is no run and no text.
LEMMA NotesSayNothing ==
  ASSUME TypeInv,
         \/ Prompt \/ ExecutionStarted \/ StepStarted
         \/ \E error \in BOOLEAN : StepEnded(error) \/ ExecutionEnded(error) \/ CompactionEnded(error)
         \/ CompactionStarted \/ Ask \/ Answer \/ Remark
  PROVE  Says(blocks') = Says(blocks)
<1>1. blocks \in Seq(Blocks)
  BY DEF TypeInv
<1>2. Retire(blocks) \in Seq(Blocks) /\ Says(Retire(blocks)) = Says(blocks)
  BY <1>1, RetireSaysAll
<1>3. CASE Prompt \/ Ask \/ Remark
  <2>1. PICK kind \in {"user", "gate", "notice"} : blocks' = Append(blocks, Note(kind))
    BY <1>3 DEF Prompt, Ask, Remark
  <2>2. QED
    BY <1>1, <2>1, NoteSaysNothing
<1>4. CASE ExecutionStarted \/ StepStarted \/ CompactionStarted
  <2>1. PICK kind \in Working : blocks' = Push(blocks, Note(kind))
    BY <1>4 DEF ExecutionStarted, StepStarted, CompactionStarted, Working
  <2>2. QED
    BY <1>1, <2>1, PushSaysNothing
<1>5. ASSUME NEW error \in BOOLEAN, StepEnded(error) \/ ExecutionEnded(error) \/ CompactionEnded(error)
      PROVE  Says(blocks') = Says(blocks)
  <2>1. \/ blocks' = Retire(blocks)
        \/ \E kind \in {"error", "notice"} : blocks' = Append(Retire(blocks), Note(kind))
    BY <1>5 DEF StepEnded, ExecutionEnded, CompactionEnded
  <2>2. \A kind \in {"error", "notice"} : Says(Append(Retire(blocks), Note(kind))) = Says(Retire(blocks))
    BY <1>2, NoteSaysNothing
  <2>3. QED
    BY <1>2, <2>1, <2>2
<1>6. CASE Answer
  BY <1>1, <1>6, FrontSaysAll DEF Answer
<1>7. QED
  BY <1>3, <1>4, <1>5, <1>6

LEMMA NotesKeepSays ==
  ASSUME TypeInv, MessagesInv, SaysInv,
         \/ Prompt \/ ExecutionStarted \/ StepStarted
         \/ \E error \in BOOLEAN : StepEnded(error) \/ ExecutionEnded(error) \/ CompactionEnded(error)
         \/ CompactionStarted \/ Ask \/ Answer \/ Remark
  PROVE  MessagesInv' /\ SaysInv'
<1>1. Says(blocks') = Says(blocks)
  BY NotesSayNothing
<1>2. UNCHANGED <<open, clean>>
  BY DEF Prompt, ExecutionStarted, StepStarted, StepEnded, ExecutionEnded, CompactionEnded,
         CompactionStarted, Ask, Answer, Remark
<1>3. MessagesInv' /\ Told(msgs') = Told(msgs)
  <2>1. CASE UNCHANGED msgs
    BY <1>2, <2>1 DEF MessagesInv, ProperInv, ShellsInv, FreshInv
  <2>2. ASSUME NEW type \in {"user", "assistant", "compacted", "compaction failed"},
               AddMessage(Message(type, <<>>))
        PROVE  MessagesInv' /\ Told(msgs') = Told(msgs)
    BY <1>2, <2>2, MessageKeepsTold DEF TypeInv
  <2>3. \/ UNCHANGED msgs
        \/ \E type \in {"user", "assistant", "compacted", "compaction failed"} :
             AddMessage(Message(type, <<>>))
    BY DEF Prompt, ExecutionStarted, StepStarted, StepEnded, ExecutionEnded, CompactionEnded,
           CompactionStarted, Ask, Answer, Remark
  <2>4. QED
    BY <2>1, <2>2, <2>3
<1>4. QED
  BY <1>1, <1>2, <1>3, QuietKeepsSays

LEMMA DeltaKeepsSays ==
  ASSUME ScreenInv, MessagesInv, SaysInv, NEW kind \in {"assistant", "thinking"}, NEW f \in Fragments,
         NEW fresh \in BOOLEAN, Delta(kind, f, fresh)
  PROVE  MessagesInv' /\ SaysInv'
<1> DEFINE s == Says(blocks)
           h == Told(msgs)
           w == Word(kind, f)
<1>1. TypeInv /\ Writing /\ UNCHANGED open /\ (clean' => clean /\ \A c \in Calls : open[c] # "to run")
  BY DEF ScreenInv, PhaseInv, Delta
<1>2. MessagesInv' /\ Told(msgs') = h \o w
  BY <1>1, DeltaTells
<1>3. s \in Seq(Sayings) /\ h \in Seq(Sayings) /\ w \in Seq(Wordings) /\ w \in Seq(Sayings)
  BY <1>1, SaysIs, ToldIs, WordType DEF TypeInv
<1>4. Says(blocks') = s \o w
  <2>1. CASE f = ""
    <3>1. w = <<>>
      BY <2>1 DEF Word
    <3> HIDE DEF w, s
    <3>2. s \o <<>> = s
      BY <1>3, ConcatNone
    <3>3. blocks' = blocks
      BY <2>1 DEF Delta
    <3>4. QED
      BY <3>1, <3>2, <3>3 DEF s
  <2>2. CASE f # ""
    <3>1. blocks' = Chunk(blocks, kind, f)
      BY <2>2 DEF Delta
    <3>2. QED
      BY <1>1, <3>1, ChunkSays DEF TypeInv
  <2>3. QED
    BY <2>1, <2>2
<1>5. ASSUME clean', NEW c \in Calls PROVE Follows(c)'
  <2>1. open[c] \notin Names \cup {"to run"}
    BY <1>1, <1>5 DEF Delta
  <2>2. ASSUME open[c] \in {"running", "called", "user"} PROVE Awaits(Says(blocks'), Told(msgs'), c)
    <3>1. Awaits(s, h, c)
      BY <1>1, <1>5, <2>2 DEF SaysInv, Follows
    <3> HIDE DEF s, h, w
    <3>2. Awaits(s \o w, h \o w, c)
      BY <1>3, <3>1, AwaitsExtended
    <3>3. QED
      BY <1>2, <1>4, <3>2
  <2>3. QED
    BY <1>1, <2>1, <2>2 DEF Follows
<1>6. clean' /\ Idle' => Says(blocks') = Told(msgs')
  BY <1>1, <1>2, <1>4 DEF SaysInv, Idle, Running
<1>7. QED
  BY <1>2, <1>5, <1>6 DEF SaysInv

\* A block of a run that begins says so.
LEMMA RunAppendedSays ==
  ASSUME NEW bs \in Seq(Blocks), NEW kind \in Runs, NEW c \in Calls
  PROVE  Says(Append(bs, Tool(kind, c, "running", None))) = Append(Says(bs), Run(c, "running"))
<1> DEFINE b == Tool(kind, c, "running", None)
           s == Says(bs)
           a == Run(c, "running")
<1>1. b \in Blocks /\ b.kind \in Runs /\ b.detail = c /\ b.state = "running"
  BY ToolType DEF MaybeCalls, Tool, Block
<1> HIDE DEF b
<1>2. Says(Append(bs, b)) = s \o <<a>> /\ s \in Seq(Sayings) /\ a \in Sayings
  <2>1. Said(b) = <<a>> /\ a \in Sayings
    <3>1. Said(b) = <<Run(b.detail, b.state)>> /\ Run(b.detail, b.state) \in Sayings
      BY <1>1, SaidIs
    <3>2. QED
      BY <1>1, <3>1
  <2>2. Says(Append(bs, b)) = s \o Said(b) /\ s \in Seq(Sayings)
    BY <1>1, SaysAppend, SaysIs
  <2>3. QED
    BY <2>1, <2>2
<1>3. s \o <<a>> = Append(s, a)
  <2> HIDE DEF s, a
  <2>1. QED
    BY <1>2
<1>4. QED
  BY <1>2, <1>3 DEF b

LEMMA ToolInputKeepsSays ==
  ASSUME ScreenInv, MessagesInv, SaysInv, NEW c \in Calls, NEW name \in Names, ToolInput(c, name)
  PROVE  MessagesInv' /\ SaysInv'
<1> DEFINE s == Says(blocks)
           h == Told(msgs)
<1>1. /\ TypeInv /\ Writing /\ UNCHANGED blocks /\ (clean' => clean /\ Idle)
      /\ open' = [open EXCEPT ![c] = name]
  BY DEF ScreenInv, PhaseInv, ToolInput, Sequential
<1>2. MessagesInv' /\ NoRun(h, c) /\ Told(msgs') = Append(h, Run(c, "running"))
  BY <1>1, ToolInputTells
<1>3. ASSUME clean' PROVE SaysInv'
  <2>1. s = h /\ \A d \in Calls : open[d] \in {"unused", "over"}
    BY <1>1, <1>3 DEF SaysInv, Idle, Running
  <2>2. Lacks(Says(blocks'), Told(msgs'), c)
    BY <1>1, <1>2, <2>1 DEF Lacks
  <2>3. name \notin Stages
    BY StageFacts
  <2>4. name # "unused" /\ name # "over" /\ name \notin {"running", "called", "user"}
    BY <2>3 DEF Stages
  <2>5. QED
    BY <1>1, <2>1, <2>2, <2>4, CallFollowed
<1>4. QED
  BY <1>2, <1>3 DEF SaysInv

LEMMA UserShellStartedKeepsSays ==
  ASSUME ScreenInv, MessagesInv, SaysInv, NEW c \in Calls, UserShellStarted(c)
  PROVE  MessagesInv' /\ SaysInv'
<1> DEFINE s == Says(blocks)
           h == Told(msgs)
           b == Tool("shell", c, "running", None)
<1>1. /\ TypeInv /\ blocks' = Append(blocks, b) /\ (clean' => clean /\ Idle)
      /\ open' = [open EXCEPT ![c] = "user"]
  BY DEF ScreenInv, UserShellStarted, Sequential
<1>2. MessagesInv' /\ NoRun(h, c) /\ Told(msgs') = Append(h, Run(c, "running"))
  BY <1>1, UserShellTells
<1>3. ASSUME clean' PROVE SaysInv'
  <2>1. s = h /\ \A d \in Calls : open[d] \in {"unused", "over"}
    BY <1>1, <1>3 DEF SaysInv, Idle, Running
  <2>2. s \in Seq(Sayings) /\ Lacks(s, Told(msgs'), c)
    BY <1>1, <1>2, <2>1, SaysIs DEF Lacks, TypeInv
  <2>3. Append(s, Run(c, "running")) = Told(msgs') /\ Awaits(Told(msgs'), Told(msgs'), c)
    BY <2>2, LacksNoMore
  <2>4. Says(blocks') = Append(s, Run(c, "running"))
    BY <1>1, RunAppendedSays DEF TypeInv, Runs
  <2>5. "user" \in Stages /\ "user" \notin Names
    BY StageFacts DEF Stages
  <2>6. QED
    BY <1>1, <2>1, <2>3, <2>4, <2>5, CallFollowed
<1>4. QED
  BY <1>2, <1>3 DEF SaysInv

\* The server sends the name of a call, or the draft knows it: what it shows is the call.
LEMMA ToolCalledKeepsSays ==
  ASSUME ScreenInv, CallsInv, MessagesInv, SaysInv, NEW c \in Calls, NEW named \in BOOLEAN,
         ToolCalled(c, named)
  PROVE  MessagesInv' /\ SaysInv'
<1> DEFINE s == Says(blocks)
           h == Told(msgs)
           name == IF named THEN open[c] ELSE names[c]
           stage == IF open[c] = Shell THEN "to run" ELSE "called"
           b == Tool("tool", c, "running", None)
<1>1. /\ TypeInv /\ open[c] \in Names /\ open' = [open EXCEPT ![c] = stage]
      /\ Settle(c, "running") /\ UNCHANGED clean
      /\ blocks' = IF name = Shell THEN blocks ELSE Append(blocks, b)
  BY DEF ScreenInv, ToolCalled
<1>2. /\ open[c] \notin Stages /\ stage \in Stages /\ stage \notin Names
      /\ stage \in {"to run", "called"}
  BY <1>1, StageFacts DEF Stages
<1>3. open[c] \notin {"unused", "over", "user"} /\ stage # "unused"
  BY <1>2 DEF Stages
<1>4. MessagesInv' /\ Told(msgs') = Mapped(h, Settling(c, "running"))
  <2>1. StateOf("running") = "running"
    BY DEF StateOf
  <2>2. MessagesInv' /\ Told(msgs') = Mapped(h, Settling(c, StateOf("running")))
    BY <1>1, <1>3, SettleTells
  <2>3. QED
    BY <2>1, <2>2
<1>5. ASSUME clean PROVE SaysInv'
  <2>1. OneCall /\ KnownCall /\ Running(c)
    BY <1>3, <1>5 DEF CallsInv, Running
  <2>2. s \in Seq(Sayings) /\ h \in Seq(Sayings) /\ Lacks(s, h, c)
    BY <1>1, <1>5, SaysIs, ToldIs DEF TypeInv, SaysInv, Follows
  <2>3. Told(msgs') = h
    BY <1>4, <2>2, LacksSettled
  <2>4. Append(s, Run(c, "running")) = h /\ Awaits(h, h, c)
    BY <2>2, LacksNoMore
  <2>5. name = open[c]
    BY <1>1, <2>1 DEF KnownCall
  <2>6. \A d \in Calls : d # c => open[d] \in {"unused", "over"}
    BY <2>1, OthersIdle
  <2>7. CASE open[c] = Shell
    <3>1. stage = "to run" /\ blocks' = blocks
      BY <1>1, <2>5, <2>7
    <3>2. QED
      BY <1>1, <1>2, <2>2, <2>3, <2>6, <3>1, CallFollowed
  <2>8. CASE open[c] # Shell
    <3>1. stage = "called" /\ blocks' = Append(blocks, b)
      BY <1>1, <2>5, <2>8
    <3>2. Says(blocks') = Append(s, Run(c, "running"))
      BY <1>1, <3>1, RunAppendedSays DEF TypeInv, Runs
    <3>3. QED
      BY <1>1, <1>2, <2>3, <2>4, <2>6, <3>1, <3>2, CallFollowed
  <2>9. QED
    BY <2>7, <2>8
<1>6. QED
  BY <1>1, <1>4, <1>5 DEF SaysInv

LEMMA ShellCreatedKeepsSays ==
  ASSUME ScreenInv, CallsInv, MessagesInv, SaysInv, NEW c \in Calls, ShellCreated(c)
  PROVE  MessagesInv' /\ SaysInv'
<1> DEFINE s == Says(blocks)
           h == Told(msgs)
           b == Tool("shell", c, "running", None)
<1>1. /\ TypeInv /\ open[c] = "to run" /\ open' = [open EXCEPT ![c] = "running"]
      /\ UNCHANGED <<msgs, clean>> /\ blocks' = Append(blocks, b)
  BY DEF ScreenInv, ShellCreated
<1>2. MessagesInv' /\ Told(msgs') = h
  BY <1>1, ShellTells
<1>3. ASSUME clean PROVE SaysInv'
  <2>1. OneCall /\ Running(c)
    BY <1>1, <1>3 DEF CallsInv, Running
  <2>2. s \in Seq(Sayings) /\ Lacks(s, h, c)
    BY <1>1, <1>3, SaysIs DEF TypeInv, SaysInv, Follows
  <2>3. Append(s, Run(c, "running")) = h /\ Awaits(h, h, c)
    BY <2>2, LacksNoMore
  <2>4. Says(blocks') = Append(s, Run(c, "running"))
    BY <1>1, RunAppendedSays DEF TypeInv, Runs
  <2>5. \A d \in Calls : d # c => open[d] \in {"unused", "over"}
    BY <2>1, OthersIdle
  <2>6. "running" \in Stages /\ "running" \notin Names
    BY StageFacts DEF Stages
  <2>7. QED
    BY <1>1, <1>2, <2>3, <2>4, <2>5, <2>6, CallFollowed
<1>4. QED
  BY <1>1, <1>2, <1>3 DEF SaysInv

LEMMA ShellExitedKeepsSays ==
  ASSUME ScreenInv, CallsInv, MessagesInv, SaysInv, NEW c \in Calls, NEW state \in {"done", "failed"},
         ShellExited(c, state)
  PROVE  MessagesInv' /\ SaysInv'
<1> DEFINE s == Says(blocks)
           h == Told(msgs)
           t == Says(blocks')
<1>1. /\ TypeInv /\ open[c] = "running" /\ open' = [open EXCEPT ![c] = "called"]
      /\ UNCHANGED <<msgs, clean>> /\ blocks' = UpdateTool(blocks, state, None)
  BY DEF ScreenInv, ShellExited
<1>2. MessagesInv' /\ Told(msgs') = h
  BY <1>1, ShellTells
<1>3. ASSUME clean PROVE SaysInv'
  <2>1. OneCall /\ ItsRun /\ Running(c)
    BY <1>1, <1>3 DEF CallsInv, Running
  <2>2. Awaits(s, h, c)
    BY <1>1, <1>3 DEF SaysInv, Follows
  <2>3. PICK i : Latest(blocks, i)
    BY <1>1, <2>1 DEF ItsRun
  <2>4. None \in MaybeCalls /\ blocks \in Seq(Blocks)
    BY <1>1 DEF MaybeCalls, TypeInv
  <2>5. blocks' \in Seq(Blocks) /\ Restated(s, t, state)
    BY <1>1, <2>3, <2>4, UpdateToolSays
  <2>6. s \in Seq(Sayings) /\ t \in Seq(Sayings) /\ state \in {"running", "done", "failed"}
    BY <2>4, <2>5, SaysIs
  <2>7. Awaits(t, h, c)
    <3> HIDE DEF s, t, h
    <3>1. Len(t) = Len(h) /\ \E j : AwaitsAt(t, h, c, j)
      BY <2>2, <2>5, <2>6, AwaitsRestated
    <3>2. QED
      BY <3>1, AwaitsIs
  <2>8. \A d \in Calls : d # c => open[d] \in {"unused", "over"}
    BY <2>1, OthersIdle
  <2>9. "called" \in Stages /\ "called" \notin Names
    BY StageFacts DEF Stages
  <2>10. QED
    BY <1>1, <1>2, <2>7, <2>8, <2>9, CallFollowed
<1>4. QED
  BY <1>1, <1>2, <1>3 DEF SaysInv

\* The result of a call puts its run in the state that the messages then tell of.
LEMMA CallEndedSays ==
  ASSUME ScreenInv, CallsInv, MessagesInv, SaysInv, NEW c \in Calls,
         open[c] \notin {"unused", "over"}, open' = [open EXCEPT ![c] = "over"],
         NEW status \in {"completed", "error", "exited"}, Settle(c, status),
         status = "error" => open[c] # "user",
         Says(blocks') \in Seq(Sayings),
         clean' => /\ clean /\ open[c] \in {"called", "user"}
                   /\ Restated(Says(blocks), Says(blocks'), StateOf(status))
  PROVE  MessagesInv' /\ SaysInv'
<1> DEFINE s == Says(blocks)
           h == Told(msgs)
           t == Says(blocks')
           state == StateOf(status)
<1>1. TypeInv /\ state \in {"running", "done", "failed"}
  BY DEF ScreenInv, StateOf
<1>2. MessagesInv' /\ Told(msgs') = Mapped(h, Settling(c, state))
  BY <1>1, SettleTells
<1>3. ASSUME clean' PROVE SaysInv'
  <2>0. clean /\ open[c] \in {"called", "user"}
    BY <1>3
  <2>1. OneCall /\ Running(c)
    BY <2>0 DEF CallsInv, Running
  <2>2. Awaits(s, h, c)
    BY <2>0 DEF SaysInv, Follows
  <2>3. s \in Seq(Sayings) /\ h \in Seq(Sayings) /\ t \in Seq(Sayings) /\ Restated(s, t, state)
    BY <1>1, <1>3, SaysIs, ToldIs DEF TypeInv
  <2>4. t = Mapped(h, Settling(c, state))
    <3> HIDE DEF s, h, t, state
    <3>1. QED
      BY <1>1, <2>2, <2>3, AwaitsSettled
  <2>5. \A d \in Calls : d # c => open[d] \in {"unused", "over"}
    BY <2>1, OthersIdle
  <2>6. "over" \in Stages /\ "over" \notin Names
    BY StageFacts DEF Stages
  <2>7. QED
    BY <1>1, <1>2, <2>4, <2>5, <2>6, CallFollowed
<1>4. QED
  BY <1>2, <1>3 DEF SaysInv

LEMMA ToolEndedKeepsSays ==
  ASSUME ScreenInv, CallsInv, MessagesInv, SaysInv, NEW c \in Calls, ToolSuccess(c) \/ ToolFailed(c)
  PROVE  MessagesInv' /\ SaysInv'
<1> DEFINE s == Says(blocks)
           t == Says(blocks')
<1>1. /\ open[c] \in AtWork /\ open' = [open EXCEPT ![c] = "over"]
      /\ clean' => clean /\ open[c] = "called"
      /\ blocks \in Seq(Blocks) /\ c \in MaybeCalls
  <2>1. blocks \in Seq(Blocks) /\ c \in MaybeCalls
    BY DEF ScreenInv, TypeInv, MaybeCalls
  <2>2. CASE ToolSuccess(c)
    BY <2>1, <2>2 DEF ToolSuccess, AtWork
  <2>3. CASE ToolFailed(c)
    BY <2>1, <2>3 DEF ToolFailed, AtWork
  <2>4. QED
    BY <2>2, <2>3
<1>0. open[c] \notin {"unused", "over", "user"}
  BY <1>1, StageFacts DEF AtWork
<1>2. ASSUME NEW state \in {"done", "failed"} 
      PROVE  /\ UpdateTool(blocks, state, c) \in Seq(Blocks)
             /\ clean' => Restated(s, Says(UpdateTool(blocks, state, c)), state)
  <2>1. UpdateTool(blocks, state, c) \in Seq(Blocks)
    BY <1>1, UpdateToolKinds DEF KindsKept
  <2>2. ASSUME clean' PROVE Restated(s, Says(UpdateTool(blocks, state, c)), state)
    <3>1. PICK i : Latest(blocks, i)
      BY <1>1, <2>2 DEF CallsInv, ItsRun
    <3>2. QED
      BY <1>1, <3>1, UpdateToolSays
  <2>3. QED
    BY <2>1, <2>2
<1>3. CASE ToolSuccess(c)
  <2>1. Settle(c, "completed") /\ blocks' = UpdateTool(blocks, "done", c)
    BY <1>3 DEF ToolSuccess
  <2>2. StateOf("completed") = "done"
    BY DEF StateOf
  <2>3. t \in Seq(Sayings) /\ (clean' => Restated(s, t, StateOf("completed")))
    BY <1>2, <2>1, <2>2, SaysIs
  <2>4. QED
    BY <1>0, <1>1, <2>1, <2>3, CallEndedSays
<1>4. CASE ToolFailed(c)
  <2> DEFINE bs == UpdateTool(blocks, "failed", c)
  <2>1. Settle(c, "error") /\ blocks' = Append(bs, Note("error"))
    BY <1>4 DEF ToolFailed
  <2>2. StateOf("error") = "failed"
    BY DEF StateOf
  <2>3. bs \in Seq(Blocks) /\ (clean' => Restated(s, Says(bs), StateOf("error")))
    BY <1>2, <2>2
  <2> HIDE DEF bs
  <2>4. t = Says(bs) /\ t \in Seq(Sayings)
    BY <2>1, <2>3, NoteSaysNothing, SaysIs
  <2>5. QED
    BY <1>0, <1>1, <2>1, <2>3, <2>4, CallEndedSays
<1>5. QED
  BY <1>3, <1>4

LEMMA UserShellEndedKeepsSays ==
  ASSUME ScreenInv, CallsInv, MessagesInv, SaysInv, NEW c \in Calls, UserShellEnded(c)
  PROVE  MessagesInv' /\ SaysInv'
<1> DEFINE s == Says(blocks)
           t == Says(blocks')
           bs == ShellLine(blocks, c)
<1>1. /\ open[c] = "user" /\ open' = [open EXCEPT ![c] = "over"] /\ UNCHANGED clean
      /\ Settle(c, "exited") /\ blocks' = UpdateTool(bs, "done", None)
      /\ blocks \in Seq(Blocks) /\ None \in MaybeCalls
  BY DEF UserShellEnded, ScreenInv, TypeInv, MaybeCalls
<1>2. bs \in Seq(Blocks) /\ Says(bs) = s
  BY <1>1, ShellLineSays
<1>3. StateOf("exited") = "done"
  BY DEF StateOf
<1>4. t \in Seq(Sayings)
  BY <1>1, <1>2, UpdateToolKinds, SaysIs DEF KindsKept
<1>5. ASSUME clean PROVE Restated(s, t, "done")
  <2>1. PICK i : Latest(blocks, i) /\ blocks[i].kind = "shell"
    BY <1>1, <1>5 DEF CallsInv, ItsRun
  <2>2. Latest(bs, i)
    BY <1>1, <2>1, ShellLineIs
  <2> HIDE DEF bs
  <2>3. Restated(Says(bs), Says(UpdateTool(bs, "done", None)), "done")
    BY <1>1, <1>2, <2>2, UpdateToolSays
  <2>4. QED
    BY <1>1, <1>2, <2>3
<1>6. QED
  BY <1>1, <1>3, <1>4, <1>5, CallEndedSays

\* What is read again says what the messages tell.
LEMMA ReopenKeepsSays ==
  ASSUME ScreenInv, MessagesInv, SaysInv, Reopen
  PROVE  MessagesInv' /\ SaysInv'
<1>1. UNCHANGED <<msgs, open>> /\ blocks' = History /\ (clean' => clean /\ Idle)
  BY DEF Reopen, Sequential
<1>2. Says(blocks') = Told(msgs')
  BY <1>1, ToldIsHistory DEF ScreenInv, MessagesInv
<1>3. MessagesInv'
  BY <1>1 DEF MessagesInv, ProperInv, ShellsInv, FreshInv
<1>4. ASSUME clean' PROVE \A c \in Calls : Follows(c)'
  <2>1. \A c \in Calls : open'[c] \in {"unused", "over"}
    BY <1>1, <1>4 DEF Idle, Running
  <2>2. "unused" \notin Names /\ "over" \notin Names
    BY StageFacts DEF Stages
  <2>3. QED
    BY <2>1, <2>2 DEF Follows
<1>5. QED
  BY <1>2, <1>3, <1>4 DEF SaysInv

LEMMA SaysKept ==
  ScreenInv /\ CallsInv /\ MessagesInv /\ SaysInv /\ [Next]_vars => MessagesInv' /\ SaysInv'
<1> SUFFICES ASSUME ScreenInv, CallsInv, MessagesInv, SaysInv, [Next]_vars PROVE MessagesInv' /\ SaysInv'
  OBVIOUS
<1>1. CASE UNCHANGED vars
  <2>1. UNCHANGED <<msgs, open, blocks, clean>>
    BY <1>1 DEF vars
  <2>2. MessagesInv'
    BY <2>1 DEF MessagesInv, ProperInv, ShellsInv, FreshInv
  <2>3. QED
    BY <2>1, <2>2, QuietKeepsSays
<1>2. CASE \/ Prompt \/ ExecutionStarted \/ StepStarted
           \/ \E error \in BOOLEAN : StepEnded(error) \/ ExecutionEnded(error) \/ CompactionEnded(error)
           \/ CompactionStarted \/ Ask \/ Answer \/ Remark
  BY <1>2, NotesKeepSays DEF ScreenInv
<1>3. ASSUME NEW c \in Calls, \/ \E name \in Names : ToolInput(c, name)
                              \/ \E named \in BOOLEAN : ToolCalled(c, named)
                              \/ ShellCreated(c)
                              \/ \E state \in {"done", "failed"} : ShellExited(c, state)
                              \/ ToolSuccess(c) \/ ToolFailed(c)
                              \/ UserShellStarted(c) \/ UserShellEnded(c)
      PROVE  MessagesInv' /\ SaysInv'
  BY <1>3, ToolInputKeepsSays, ToolCalledKeepsSays, ShellCreatedKeepsSays, ShellExitedKeepsSays,
     ToolEndedKeepsSays, UserShellStartedKeepsSays, UserShellEndedKeepsSays
<1>4. QED
  BY <1>1, <1>2, <1>3, DeltaKeepsSays, ReopenKeepsSays DEF Next

\* The transcript that followed a session says, whenever no call is at work, what a program
\* that reads the session now would show: the blocks that map_event and apply_event build
\* up against those of map_message, for every number of turns, texts, calls and shells, as
\* long as calls follow one another, no text comes between a call and its shell, and every
\* call that fails had a block (a shell that is denied has none).
THEOREM LiveIsHistoryHolds == Spec => []LiveIsHistory
<1>1. ScreenInv /\ MessagesInv /\ SaysInv => LiveIsHistory
  <2> SUFFICES ASSUME ScreenInv, MessagesInv, SaysInv, clean, Idle PROVE Says(blocks) = Says(History)
    BY DEF LiveIsHistory
  <2>1. Says(History) = Told(msgs)
    BY ToldIsHistory DEF ScreenInv, MessagesInv
  <2>2. QED
    BY <2>1 DEF SaysInv
<1>2. QED
  BY <1>1, InitScreen, ScreenKept, InitCalls, CallsKept, InitSays, SaysKept, PTL DEF Spec

===============================================================================
