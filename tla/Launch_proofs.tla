------------------------------ MODULE Launch_proofs ------------------------------
(***************************************************************************)
(* Whatever fails while the program starts, and however it ends, its       *)
(* private server does not outlive it; and what the thread hands on is     *)
(* what the parser makes of the whole of each stream: for streams of any   *)
(* number and length.                                                      *)
(*                                                                         *)
(* What makes NoServerLeft inductive: a program that runs without a        *)
(* ConnectionKind never had a server, since it skipped every step in which *)
(* one is started, so that it may end without dropping one.                *)
(*                                                                         *)
(* What makes ToldInOrder inductive: the stream that is read is the lines  *)
(* a terminator has closed and then those that are pending, the parser     *)
(* holds no data after the former, and a loss has been announced exactly   *)
(* when no stream is read after the first.  The parser and the sequence of *)
(* all batches are defined by recursion on a number: the first lemmas say  *)
(* by a least counterexample what such a function is, and the parser is    *)
(* then taken line by line.                                                *)
(***************************************************************************)
EXTENDS Launch, TLAPS, WellFoundedInduction

OwnerInv ==
  /\ main = "start" => server = "none"
  /\ main \in {"verify", "load"} => kind # "none"
  /\ main = "run" /\ kind = "none" => ~Alive

Inv == OwnerInv /\ NoServerLeft

-------------------------------------------------------------------------------
(* Shapes of steps *)

\* Dropping a PrivateServer kills it, and there is none otherwise.
LEMMA GivenUpIsGone ==
  ASSUME GiveUp
  PROVE  main' = "failed" /\ ~Alive'
BY DEF GiveUp, Alive

\* The worker, the clock and the user leave the server and its owner as they are.
LEMMA WorkerKeepsInv ==
  ASSUME Inv, UNCHANGED <<main, kind, server>>
  PROVE  Inv'
BY DEF Inv, OwnerInv, NoServerLeft, Alive

\* While it is being started the server has an owner to drop it.
LEMMA StartingKeepsInv ==
  ASSUME Inv,
         \/ Resolve \/ Spawn \/ StartWithout \/ SpawnFails
         \/ ReadAddress \/ ReadOther \/ ReadEnd \/ Probe \/ Verify
  PROVE  Inv'
<1>1. ASSUME StartWithout PROVE Inv'
  BY <1>1 DEF StartWithout, Inv, OwnerInv, NoServerLeft, Alive
<1>2. ASSUME Resolve PROVE Inv'
  BY <1>2 DEF Resolve, Inv, OwnerInv, NoServerLeft, Alive
<1>3. ASSUME SpawnFails PROVE Inv'
  BY <1>3 DEF SpawnFails, Inv, OwnerInv, NoServerLeft, Alive
<1>4. ASSUME Spawn PROVE Inv'
  BY <1>4 DEF Spawn, Inv, OwnerInv, NoServerLeft
<1>5. ASSUME ReadAddress \/ ReadOther \/ ReadEnd PROVE Inv'
  <2>1. main' \in {"listen", "probe"}
    BY <1>5 DEF ReadAddress, ReadOther, ReadOn, ReadEnd
  <2>2. QED
    BY <2>1 DEF Inv, OwnerInv, NoServerLeft
<1>6. ASSUME Probe PROVE Inv'
  <2>1. \/ main' = "verify" /\ kind' = "spawned"
        \/ main' = "failed" /\ ~Alive'
    BY <1>6, GivenUpIsGone DEF Probe
  <2>2. QED
    BY <2>1 DEF Inv, OwnerInv, NoServerLeft
<1>7. ASSUME Verify PROVE Inv'
  <2>1. \/ main' = "load" /\ kind' = kind
        \/ main' = "failed" /\ ~Alive'
    BY <1>7, GivenUpIsGone DEF Verify
  <2>2. main = "verify"
    BY <1>7 DEF Verify
  <2>3. QED
    BY <2>1, <2>2 DEF Inv, OwnerInv, NoServerLeft
<1>8. QED
  BY <1>1, <1>2, <1>3, <1>4, <1>5, <1>6, <1>7

\* A backend drops its server before the program ends; without a backend there is none.
LEMMA EndingKeepsInv ==
  ASSUME Inv, Load \/ Quit \/ DropReceiver \/ Join \/ ServerEnds
  PROVE  Inv'
<1>1. ASSUME Load PROVE Inv'
  BY <1>1 DEF Load, Inv, OwnerInv, NoServerLeft, Alive
<1>2. ASSUME Quit PROVE Inv'
  BY <1>2 DEF Quit, Inv, OwnerInv, NoServerLeft, Alive
<1>3. ASSUME DropReceiver PROVE Inv'
  BY <1>3 DEF DropReceiver, Inv, OwnerInv, NoServerLeft
<1>4. ASSUME Join PROVE Inv'
  BY <1>4 DEF Join, Inv, OwnerInv, NoServerLeft, Alive
<1>5. ASSUME ServerEnds PROVE Inv'
  BY <1>5 DEF ServerEnds, Inv, OwnerInv, NoServerLeft, Alive
<1>6. QED
  BY <1>1, <1>2, <1>3, <1>4, <1>5

-------------------------------------------------------------------------------

LEMMA InvKept == Inv /\ [Next]_vars => Inv'
<1> SUFFICES ASSUME Inv, [Next]_vars PROVE Inv'
  OBVIOUS
<1>1. CASE TimePasses \/ Open \/ OpenFails \/ StreamEnds \/ Wake
  BY <1>1, WorkerKeepsInv DEF TimePasses, Open, OpenFails, StreamEnds, Wake, Rest
<1>2. CASE \E line \in Lines : ReadLine(line)
  BY <1>2, WorkerKeepsInv DEF ReadLine, Rest
<1>3. CASE UNCHANGED vars
  BY <1>3, WorkerKeepsInv DEF vars
<1>4. QED
  BY <1>1, <1>2, <1>3, StartingKeepsInv, EndingKeepsInv DEF Next

\* The private server is killed on every way out of the program (PrivateServer, main,
\* connect), for any number of streams and lines.
THEOREM NoServerIsLeft == Spec => []NoServerLeft
<1>1. Init => Inv
  BY DEF Init, Inv, OwnerInv, NoServerLeft, Alive
<1>2. Inv => NoServerLeft
  BY DEF Inv
<1>3. QED
  BY <1>1, <1>2, InvKept, PTL DEF Spec

-------------------------------------------------------------------------------
(* Induction over the natural numbers *)

\* A set of numbers that is not empty has a least element.
LEMMA Least ==
  ASSUME NEW T, T \subseteq Nat, T # {}
  PROVE  \E x \in T : \A y \in T : x <= y
<1> DEFINE R == OpToRel(<, Nat)
<1>1. IsWellFoundedOn(R, Nat)
  BY NatLessThanWellFounded
<1>2. \A x, y \in Nat : y < x => <<y, x>> \in R
  BY DEF OpToRel
<1> HIDE DEF R
<1>3. PICK x \in T : \A y \in T : ~(<<y, x>> \in R)
  BY <1>1, WFMin
<1>4. \A y \in T : x \in Nat /\ y \in Nat /\ ~(y < x)
  BY <1>2, <1>3
<1>5. \A y \in T : x <= y
  BY <1>4
<1>6. QED
  BY <1>3, <1>5

\* A set of numbers that has 0, and the successor of each of its numbers, has them all.
LEMMA Induction ==
  ASSUME NEW T \in SUBSET Nat, 0 \in T, \A n \in T : n + 1 \in T
  PROVE  T = Nat
<1>1. CASE Nat \ T # {}
  <2>1. PICK x \in Nat \ T : \A y \in Nat \ T : x <= y
    BY <1>1, Least
  <2>2. x # 0 /\ x - 1 \in Nat
    BY <2>1
  <2>3. x - 1 \in T
    BY <2>1, <2>2
  <2>4. (x - 1) + 1 = x
    BY <2>1
  <2>5. QED
    BY <2>1, <2>3, <2>4
<1>2. QED
  BY <1>1

\* g has, from 0 to L, what step makes of base when applied once per number.
Iterates(g, S, base, step, L) ==
  /\ g \in [0..L -> S]
  /\ g[0] = base
  /\ \A n \in 1..L : g[n] = step[<<g[n - 1], n>>]

\* A function defined by recursion on a number exists.
LEMMA Recursion ==
  ASSUME NEW S, NEW base \in S, NEW step \in [S \X Nat -> S], NEW L \in Nat
  PROVE  \E g : Iterates(g, S, base, step, L)
<1> DEFINE Good(g, k) == g[0] = base /\ \A n \in 1..k : g[n] = step[<<g[n - 1], n>>]
           T == {k \in Nat : \E g \in [0..k -> S] : Good(g, k)}
<1>1. 0 \in T
  <2>1. [i \in 0..0 |-> base] \in [0..0 -> S] /\ Good([i \in 0..0 |-> base], 0)
    OBVIOUS
  <2>2. QED
    BY <2>1
<1>2. ASSUME NEW k \in T PROVE k + 1 \in T
  <2>1. PICK g \in [0..k -> S] : Good(g, k)
    OBVIOUS
  <2> DEFINE h == [i \in 0..k + 1 |-> IF i = k + 1 THEN step[<<g[k], k + 1>>] ELSE g[i]]
  <2>2. k \in Nat /\ k \in 0..k /\ g[k] \in S /\ step[<<g[k], k + 1>>] \in S
    OBVIOUS
  <2>3. h \in [0..k + 1 -> S]
    BY <2>2
  <2>4. h[0] = base
    BY <2>1, <2>2
  <2>5. ASSUME NEW n \in 1..k + 1 PROVE h[n] = step[<<h[n - 1], n>>]
    <3>1. CASE n = k + 1
      <4>1. n - 1 = k /\ k # k + 1 /\ k \in 0..k + 1 /\ k + 1 \in 0..k + 1
        BY <2>2, <3>1
      <4>2. h[k] = g[k] /\ h[k + 1] = step[<<g[k], k + 1>>]
        BY <4>1
      <4>3. QED
        BY <3>1, <4>1, <4>2
    <3>2. CASE n \in 1..k
      <4>1. h[n] = g[n] /\ h[n - 1] = g[n - 1]
        BY <2>2, <3>2
      <4>2. QED
        BY <2>1, <3>2, <4>1
    <3>3. QED
      BY <2>2, <3>1, <3>2
  <2>6. Good(h, k + 1)
    BY <2>4, <2>5
  <2> HIDE DEF h, Good
  <2>7. QED
    BY <2>2, <2>3, <2>6
<1>3. T = Nat
  <2> HIDE DEF T
  <2>1. T \in SUBSET Nat
    BY DEF T
  <2>2. QED
    BY <1>1, <1>2, <2>1, Induction
<1>4. QED
  BY <1>3 DEF Iterates

\* It is the only one, as far as its steps go.
LEMMA IteratesAgree ==
  ASSUME NEW S, NEW base, NEW step1, NEW step2, NEW L \in Nat,
         NEW g, Iterates(g, S, base, step1, L),
         NEW h, Iterates(h, S, base, step2, L + 1),
         \A x \in S, n \in 1..L : step1[<<x, n>>] = step2[<<x, n>>]
  PROVE  g[L] = h[L]
<1> DEFINE T == {n \in Nat : n <= L => g[n] = h[n]}
<1>1. 0 \in T
  BY DEF Iterates
<1>2. ASSUME NEW n \in T PROVE n + 1 \in T
  <2> SUFFICES ASSUME n + 1 <= L PROVE g[n + 1] = h[n + 1]
    OBVIOUS
  <2>1. /\ n \in 0..L /\ n + 1 \in 1..L /\ n + 1 \in 1..L + 1 /\ (n + 1) - 1 = n
        /\ n <= L
    OBVIOUS
  <2>2. g[n] = h[n] /\ g[n] \in S
    BY <2>1 DEF Iterates
  <2>3. g[n + 1] = step1[<<g[n], n + 1>>] /\ h[n + 1] = step2[<<h[n], n + 1>>]
    BY <2>1 DEF Iterates
  <2>4. QED
    BY <2>1, <2>2, <2>3
<1>3. T = Nat
  <2> HIDE DEF T
  <2>1. T \in SUBSET Nat
    BY DEF T
  <2>2. QED
    BY <1>1, <1>2, <2>1, Induction
<1>4. L \in T
  BY <1>3
<1>5. QED
  BY <1>4

-------------------------------------------------------------------------------
(* The parser *)

Parse == [data: Seq(Data), events: Seq(Seq(Data))]
Nothing == [data |-> <<>>, events |-> <<>>]

LEMMA ParseLineType ==
  ASSUME NEW p \in Parse, NEW line \in Lines
  PROVE  ParseLine(p, line) \in Parse /\ Flushed(p) \in Parse
<1>1. Flushed(p) \in Parse
  BY DEF Flushed, Parse
<1>2. CASE line \in Data
  <2> DEFINE data == p.data
             events == p.events
  <2>1. data \in Seq(Data) /\ events \in Seq(Seq(Data)) /\ p = [data |-> data, events |-> events]
    BY DEF Parse
  <2> HIDE DEF data, events
  <2>2. Append(data, line) \in Seq(Data)
    BY <1>2, <2>1
  <2>3. ParseLine(p, line) = [data |-> Append(data, line), events |-> events]
    BY <1>2, <2>1 DEF ParseLine
  <2>4. [data |-> Append(data, line), events |-> events] \in Parse
    BY <2>1, <2>2 DEF Parse
  <2>5. QED
    BY <1>1, <2>3, <2>4
<1>3. CASE line \notin Data
  BY <1>1, <1>3 DEF ParseLine
<1>4. QED
  BY <1>2, <1>3

ParseStep(lines) ==
  [x \in Parse \X Nat |-> IF x[2] \in 1..Len(lines) THEN ParseLine(x[1], lines[x[2]]) ELSE x[1]]

LEMMA ParsedIterates ==
  ASSUME NEW lines \in Seq(Lines)
  PROVE  \E g : Iterates(g, Parse, Nothing, ParseStep(lines), Len(lines)) /\ Parsed(lines) = g[Len(lines)]
<1> DEFINE L == Len(lines)
           step == ParseStep(lines)
           after == CHOOSE f : f = [n \in 0..L |-> IF n = 0 THEN Nothing
                                                   ELSE ParseLine(f[n - 1], lines[n])]
<1>1. L \in Nat /\ \A n \in 1..L : lines[n] \in Lines
  OBVIOUS
<1>2. step \in [Parse \X Nat -> Parse]
  BY <1>1, ParseLineType DEF ParseStep
<1>3. Nothing \in Parse
  BY DEF Nothing, Parse
<1>4. PICK g : Iterates(g, Parse, Nothing, step, L)
  BY <1>1, <1>2, <1>3, Recursion
<1>5. \A n \in 1..L : g[n] = ParseLine(g[n - 1], lines[n])
  <2>1. \A n \in 1..L : n - 1 \in 0..L /\ n \in Nat /\ g[n - 1] \in Parse
    BY <1>1, <1>4 DEF Iterates
  <2>2. QED
    BY <1>4, <2>1 DEF Iterates, ParseStep
<1>6. g = [n \in 0..L |-> IF n = 0 THEN Nothing ELSE ParseLine(g[n - 1], lines[n])]
  BY <1>1, <1>4, <1>5 DEF Iterates
<1>7. after = [n \in 0..L |-> IF n = 0 THEN Nothing ELSE ParseLine(after[n - 1], lines[n])]
  BY <1>6
<1>8. Parsed(lines) = after[L]
  BY DEF Parsed, Nothing
<1> HIDE DEF after
<1> DEFINE T == {n \in Nat : n <= L => after[n] = g[n]}
<1>9. T = Nat
  <2>1. 0 \in T
    BY <1>1, <1>4, <1>7 DEF Iterates
  <2>2. ASSUME NEW n \in T PROVE n + 1 \in T
    <3>1. CASE n + 1 <= L
      <4>1. n <= L /\ n + 1 \in 1..L /\ n + 1 \in 0..L /\ (n + 1) - 1 = n
        BY <1>1, <3>1
      <4>2. QED
        BY <1>5, <1>7, <4>1
    <3>2. QED
      BY <3>1
  <2> HIDE DEF T
  <2>3. T \in SUBSET Nat
    BY DEF T
  <2>4. QED
    BY <2>1, <2>2, <2>3, Induction
<1>10. after[L] = g[L]
  <2>1. L \in T
    BY <1>1, <1>9
  <2>2. QED
    BY <1>1, <2>1
<1>11. QED
  BY <1>4, <1>8, <1>10

\* The parser takes one line after the other.
LEMMA ParsedAppend ==
  ASSUME NEW lines \in Seq(Lines), NEW line \in Lines
  PROVE  /\ Parsed(<<>>) = Nothing
         /\ Parsed(lines) \in Parse
         /\ Parsed(Append(lines, line)) = ParseLine(Parsed(lines), line)
<1> DEFINE more == Append(lines, line)
           L == Len(lines)
<1>1. /\ L \in Nat /\ more \in Seq(Lines) /\ Len(more) = L + 1 /\ more[L + 1] = line
      /\ \A n \in 1..L : more[n] = lines[n]
  OBVIOUS
<1> HIDE DEF more, L
<1>2. PICK g : Iterates(g, Parse, Nothing, ParseStep(lines), L) /\ Parsed(lines) = g[L]
  BY ParsedIterates DEF L
<1>3. PICK h : Iterates(h, Parse, Nothing, ParseStep(more), L + 1) /\ Parsed(more) = h[L + 1]
  BY <1>1, ParsedIterates
<1>4. \A x \in Parse, n \in 1..L : ParseStep(lines)[<<x, n>>] = ParseStep(more)[<<x, n>>]
  BY <1>1 DEF ParseStep, L
<1>5. g[L] = h[L]
  BY <1>1, <1>2, <1>3, <1>4, IteratesAgree
<1>6. g[L] \in Parse
  BY <1>1, <1>2 DEF Iterates
<1>7. h[L + 1] = ParseLine(h[L], line)
  <2>1. h[L + 1] = ParseStep(more)[<<h[(L + 1) - 1], L + 1>>] /\ (L + 1) - 1 = L
    BY <1>1, <1>3 DEF Iterates
  <2>2. QED
    BY <1>1, <1>5, <1>6, <2>1 DEF ParseStep
<1>8. Parsed(<<>>) = Nothing
  <2>1. PICK e : Iterates(e, Parse, Nothing, ParseStep(<<>>), Len(<<>>)) /\ Parsed(<<>>) = e[Len(<<>>)]
    <3> DEFINE q == <<>>
    <3>1. q \in Seq(Lines)
      OBVIOUS
    <3> HIDE DEF q
    <3>2. PICK e : Iterates(e, Parse, Nothing, ParseStep(q), Len(q)) /\ Parsed(q) = e[Len(q)]
      BY <3>1, ParsedIterates
    <3>3. QED
      BY <3>2 DEF q
  <2>2. QED
    BY <2>1 DEF Iterates
<1>9. QED
  BY <1>2, <1>3, <1>5, <1>6, <1>7, <1>8 DEF more

LEMMA SplitLast ==
  ASSUME NEW S, NEW n \in Nat, NEW q \in Seq(S), Len(q) = n + 1
  PROVE  /\ SubSeq(q, 1, n) \in Seq(S) /\ Len(SubSeq(q, 1, n)) = n /\ q[n + 1] \in S
         /\ q = Append(SubSeq(q, 1, n), q[n + 1])
<1>1. SubSeq(q, 1, n) \in Seq(S) /\ Len(SubSeq(q, 1, n)) = n /\ q[n + 1] \in S
  OBVIOUS
<1>2. q = Append(SubSeq(q, 1, n), q[n + 1])
  OBVIOUS
<1>3. QED
  BY <1>1, <1>2

LEMMA EmptySeq ==
  ASSUME NEW S, NEW q \in Seq(S), Len(q) = 0
  PROVE  q = <<>>
OBVIOUS

\* A set of sequences that has <<>>, and with each sequence the longer ones, has them all.
LEMMA SeqInduction ==
  ASSUME NEW S, NEW T \in SUBSET Seq(S), <<>> \in T, \A d \in T, x \in S : Append(d, x) \in T
  PROVE  T = Seq(S)
<1> DEFINE U == {n \in Nat : \A q \in Seq(S) : Len(q) = n => q \in T}
<1>1. 0 \in U
  BY EmptySeq
<1>2. ASSUME NEW n \in U PROVE n + 1 \in U
  <2>1. ASSUME NEW q \in Seq(S), Len(q) = n + 1 PROVE q \in T
    <3>1. n \in Nat
      OBVIOUS
    <3> DEFINE d == SubSeq(q, 1, n)
    <3>2. d \in Seq(S) /\ Len(d) = n /\ q[n + 1] \in S /\ q = Append(d, q[n + 1])
      <4> HIDE DEF U
      <4>1. QED
        BY <2>1, <3>1, SplitLast
    <3> HIDE DEF d
    <3>3. d \in T
      BY <3>2
    <3>4. QED
      BY <3>2, <3>3
  <2>2. n + 1 \in Nat
    OBVIOUS
  <2>3. QED
    BY <2>1, <2>2
<1>3. U = Nat
  <2> HIDE DEF U
  <2>1. U \in SUBSET Nat
    BY DEF U
  <2>2. QED
    BY <1>1, <1>2, <2>1, Induction
<1>4. ASSUME NEW q \in Seq(S) PROVE q \in T
  <2>1. Len(q) \in Nat
    OBVIOUS
  <2>2. QED
    BY <1>3, <2>1
<1>5. QED
  BY <1>4

LEMMA ConcatAppend ==
  ASSUME NEW S, NEW a \in Seq(S), NEW d \in Seq(S), NEW x \in S
  PROVE  a \o Append(d, x) = Append(a \o d, x) /\ a \o d \in Seq(S)
OBVIOUS

\* Reading a line adds to what has been handed on before, whatever that is.
LEMMA ParseLineConcat ==
  ASSUME NEW p \in Parse, NEW q \in Seq(Seq(Data)), NEW line \in Lines
  PROVE  ParseLine([data |-> p.data, events |-> q \o p.events], line)
           = [data |-> ParseLine(p, line).data, events |-> q \o ParseLine(p, line).events]
<1>1. p.data \in Seq(Data) /\ p.events \in Seq(Seq(Data)) /\ p = [data |-> p.data, events |-> p.events]
  BY DEF Parse
<1>2. CASE line \in Data
  BY <1>1, <1>2 DEF ParseLine
<1>3. CASE line \notin Data
  <2> DEFINE S == Seq(Data)
             x == p.data
             e == p.events
  <2>1. x \in S /\ e \in Seq(S) /\ q \in Seq(S)
    BY <1>1
  <2> HIDE DEF S
  <2>2. q \o Append(e, x) = Append(q \o e, x)
    BY <2>1, ConcatAppend
  <2>3. QED
    BY <1>3, <2>2 DEF ParseLine, Flushed
<1>4. QED
  BY <1>2, <1>3

\* What has been read to the end of a payload does not change what comes of the lines
\* after it.
LEMMA ParsedConcat ==
  ASSUME NEW a \in Seq(Lines), Parsed(a).data = <<>>, NEW b \in Seq(Lines)
  PROVE  Parsed(a \o b) = [data |-> Parsed(b).data, events |-> Parsed(a).events \o Parsed(b).events]
<1> DEFINE After(c) == [data |-> Parsed(c).data, events |-> Parsed(a).events \o Parsed(c).events]
           T == {c \in Seq(Lines) : Parsed(a \o c) = After(c)}
<1>1. Parsed(a) \in Parse /\ Parsed(<<>>) = Nothing
  BY ParsedAppend DEF Lines
<1>2. Parsed(a).events \in Seq(Seq(Data)) /\ Parsed(a) = [data |-> <<>>, events |-> Parsed(a).events]
  BY <1>1 DEF Parse
<1>3. <<>> \in T
  <2>1. a \o <<>> = a
    OBVIOUS
  <2>2. Parsed(a).events \o <<>> = Parsed(a).events
    BY <1>2
  <2>3. Parsed(<<>>).data = <<>> /\ Parsed(<<>>).events = <<>>
    BY <1>1 DEF Nothing
  <2>4. After(<<>>) = [data |-> <<>>, events |-> Parsed(a).events]
    BY <2>2, <2>3
  <2> HIDE DEF After
  <2>5. <<>> \in Seq(Lines)
    OBVIOUS
  <2>6. QED
    BY <1>2, <2>1, <2>4, <2>5
<1>4. ASSUME NEW d \in T, NEW line \in Lines PROVE Append(d, line) \in T
  <2>1. d \in Seq(Lines) /\ Append(d, line) \in Seq(Lines) /\ Parsed(a \o d) = After(d)
    <3> HIDE DEF After
    <3>1. d \in Seq(Lines) /\ Parsed(a \o d) = After(d)
      OBVIOUS
    <3>2. QED
      BY <3>1
  <2>2. a \o d \in Seq(Lines) /\ a \o Append(d, line) = Append(a \o d, line)
    BY <2>1, ConcatAppend
  <2>3. /\ Parsed(d) \in Parse
        /\ Parsed(Append(d, line)) = ParseLine(Parsed(d), line)
    BY <2>1, ParsedAppend
  <2>4. Parsed(a \o Append(d, line)) = ParseLine(After(d), line)
    BY <2>1, <2>2, ParsedAppend
  <2>5. Parsed(a \o Append(d, line)) = After(Append(d, line))
    BY <1>2, <2>3, <2>4, ParseLineConcat
  <2>6. QED
    BY <2>1, <2>5
<1>5. T = Seq(Lines)
  <2> HIDE DEF T
  <2>1. T \in SUBSET Seq(Lines)
    BY DEF T
  <2>2. QED
    BY <1>3, <1>4, <2>1, SeqInduction
<1>6. QED
  BY <1>5

\* Nothing is handed on when nothing has been collected.
LEMMA FlushedNothing ==
  ASSUME NEW p, p.data = <<>>
  PROVE  Flushed(p).events = p.events
<1>1. <<>> # <<"whole">> /\ <<>> # <<"head", "tail">>
  OBVIOUS
<1>2. ~Envelope(p.data)
  BY <1>1 DEF Envelope
<1>3. QED
  BY <1>2 DEF Flushed

\* A terminator hands on the payload it ends, with what was handed on before.
LEMMA ParseSseClosed ==
  ASSUME NEW a \in Seq(Lines), Parsed(a).data = <<>>, NEW b \in Seq(Lines), NEW line \in Enders
  PROVE  /\ ParseSse(a) \in Seq(Seq(Data)) /\ ParseSse(b) \in Seq(Seq(Data))
         /\ ParseSse(a \o Append(b, line)) = ParseSse(a) \o ParseSse(b)
         /\ Parsed(a \o Append(b, line)).data = <<>>
<1>1. line \in Lines /\ line \notin Data /\ Append(b, line) \in Seq(Lines)
  BY DEF Lines, Enders, Data
<1>2. Parsed(a) \in Parse /\ Parsed(b) \in Parse /\ Parsed(Append(b, line)) = Flushed(Parsed(b))
  BY <1>1, ParsedAppend DEF ParseLine
<1>3. Parsed(a \o Append(b, line))
        = [data |-> Flushed(Parsed(b)).data, events |-> Parsed(a).events \o Flushed(Parsed(b)).events]
  BY <1>1, <1>2, ParsedConcat
<1>4. Flushed(Parsed(b)).data = <<>>
  BY DEF Flushed
<1>5. ParseSse(a) = Parsed(a).events /\ ParseSse(b) = Flushed(Parsed(b)).events
  BY FlushedNothing DEF ParseSse
<1>6. ParseSse(a \o Append(b, line)) = Parsed(a).events \o Flushed(Parsed(b)).events
  BY <1>3, <1>4, FlushedNothing DEF ParseSse
<1>7. Flushed(Parsed(b)) \in Parse
  BY <1>1, <1>2, ParseLineType
<1>8. QED
  BY <1>2, <1>3, <1>4, <1>5, <1>6, <1>7 DEF Parse

-------------------------------------------------------------------------------
(* Sequences of sequences *)

Event == {"restored", "lost"} \cup Seq(Data)
Batch == Seq(Event)
Stream == Seq(Lines)

FlatStep(ss, S) ==
  [x \in Seq(S) \X Nat |-> IF x[2] \in 1..Len(ss) THEN x[1] \o ss[x[2]] ELSE x[1]]

LEMMA FlattenIterates ==
  ASSUME NEW S, NEW ss \in Seq(Seq(S))
  PROVE  \E g : Iterates(g, Seq(S), <<>>, FlatStep(ss, S), Len(ss)) /\ FlattenSeq(ss) = g[Len(ss)]
<1> DEFINE L == Len(ss)
           step == FlatStep(ss, S)
           flat == CHOOSE f : f = [i \in 1..L |-> IF i = 1 THEN ss[i] ELSE f[i - 1] \o ss[i]]
<1>1. L \in Nat /\ \A n \in 1..L : ss[n] \in Seq(S)
  OBVIOUS
<1>2. step \in [Seq(S) \X Nat -> Seq(S)]
  BY <1>1 DEF FlatStep
<1>3. <<>> \in Seq(S)
  OBVIOUS
<1>4. PICK g : Iterates(g, Seq(S), <<>>, step, L)
  BY <1>1, <1>2, <1>3, Recursion
<1>5. \A n \in 1..L : g[n] = g[n - 1] \o ss[n] /\ g[n - 1] \in Seq(S)
  <2> DEFINE Q == Seq(S)
  <2>1. g \in [0..L -> Q] /\ \A n \in 1..L : g[n] = step[<<g[n - 1], n>>]
    BY <1>4 DEF Iterates
  <2>2. \A n \in 1..L : n - 1 \in 0..L /\ n \in Nat /\ g[n - 1] \in Q
    <3> HIDE DEF Q, step
    <3>1. \A n \in 1..L : n - 1 \in 0..L /\ n \in Nat
      BY <1>1
    <3>2. QED
      BY <2>1, <3>1
  <2>3. QED
    BY <2>1, <2>2 DEF FlatStep
<1>6. 1 \in 1..L => g[1] = ss[1]
  <2> SUFFICES ASSUME 1 \in 1..L PROVE g[1] = ss[1]
    OBVIOUS
  <2>1. g[1 - 1] = <<>> /\ ss[1] \in Seq(S)
    BY <1>1, <1>4 DEF Iterates
  <2>2. <<>> \o ss[1] = ss[1]
    BY <2>1
  <2>3. QED
    BY <1>5, <2>1, <2>2
<1> DEFINE g1 == [i \in 1..L |-> g[i]]
<1>7. g1 = [i \in 1..L |-> IF i = 1 THEN ss[i] ELSE g1[i - 1] \o ss[i]]
  <2>1. ASSUME NEW i \in 1..L PROVE g[i] = IF i = 1 THEN ss[i] ELSE g1[i - 1] \o ss[i]
    <3>1. CASE i = 1
      BY <1>6, <3>1
    <3>2. CASE i # 1
      <4>1. i - 1 \in 1..L
        BY <1>1, <3>2
      <4>2. QED
        BY <1>5, <3>2, <4>1
    <3>3. QED
      BY <3>1, <3>2
  <2>2. QED
    BY <2>1
<1>8. flat = [i \in 1..L |-> IF i = 1 THEN ss[i] ELSE flat[i - 1] \o ss[i]]
  <2> HIDE DEF g1
  <2>1. QED
    BY <1>7
<1>9. FlattenSeq(ss) = IF L = 0 THEN ss ELSE flat[L]
  BY DEF FlattenSeq
<1> HIDE DEF flat, g1
<1>10. CASE L = 0
  <2>1. ss = <<>>
    BY <1>10
  <2>2. QED
    BY <1>4, <1>9, <1>10, <2>1 DEF Iterates
<1>11. CASE L # 0
  <2> DEFINE T == {n \in Nat : n + 1 <= L => flat[n + 1] = g[n + 1]}
  <2>1. 0 \in T
    <3>1. CASE 1 \in 1..L
      BY <1>6, <1>8, <3>1
    <3>2. QED
      BY <1>1, <3>1
  <2>2. ASSUME NEW n \in T PROVE n + 1 \in T
    <3>1. CASE (n + 1) + 1 <= L
      <4>1. n + 1 \in 1..L /\ (n + 1) + 1 \in 1..L /\ ((n + 1) + 1) - 1 = n + 1 /\ (n + 1) + 1 # 1
        BY <1>1, <3>1
      <4>2. flat[n + 1] = g[n + 1]
        BY <4>1
      <4>3. flat[(n + 1) + 1] = flat[n + 1] \o ss[(n + 1) + 1]
        BY <1>8, <4>1
      <4>4. g[(n + 1) + 1] = g[n + 1] \o ss[(n + 1) + 1]
        BY <1>5, <4>1
      <4>5. flat[(n + 1) + 1] = g[(n + 1) + 1]
        BY <4>2, <4>3, <4>4
      <4>6. QED
        BY <4>5
    <3>2. QED
      BY <3>1
  <2>3. T = Nat
    <3> HIDE DEF T
    <3>1. T \in SUBSET Nat
      BY DEF T
    <3>2. QED
      BY <2>1, <2>2, <3>1, Induction
  <2>4. L - 1 \in Nat /\ (L - 1) + 1 = L
    BY <1>1, <1>11
  <2>5. flat[L] = g[L]
    <3>1. L - 1 \in T
      BY <2>3, <2>4
    <3>2. QED
      BY <1>1, <2>4, <3>1
  <2>6. QED
    BY <1>4, <1>9, <1>11, <2>5
<1>12. QED
  BY <1>10, <1>11

LEMMA FlattenAppend ==
  ASSUME NEW S, NEW ss, ss \in Seq(Seq(S)), NEW s \in Seq(S)
  PROVE  /\ FlattenSeq(ss) \in Seq(S)
         /\ FlattenSeq(Append(ss, s)) = FlattenSeq(ss) \o s
<1> DEFINE more == Append(ss, s)
           L == Len(ss)
<1>1. /\ L \in Nat /\ more \in Seq(Seq(S)) /\ Len(more) = L + 1 /\ more[L + 1] = s
      /\ \A n \in 1..L : more[n] = ss[n]
  OBVIOUS
<1> HIDE DEF more, L
<1>2. PICK g : Iterates(g, Seq(S), <<>>, FlatStep(ss, S), L) /\ FlattenSeq(ss) = g[L]
  BY FlattenIterates DEF L
<1>3. PICK h : Iterates(h, Seq(S), <<>>, FlatStep(more, S), L + 1) /\ FlattenSeq(more) = h[L + 1]
  BY <1>1, FlattenIterates
<1>4. \A x \in Seq(S), n \in 1..L : FlatStep(ss, S)[<<x, n>>] = FlatStep(more, S)[<<x, n>>]
  BY <1>1 DEF FlatStep, L
<1>5. g[L] = h[L]
  <2> DEFINE Q == Seq(S)
             step1 == FlatStep(ss, S)
             step2 == FlatStep(more, S)
  <2>1. Iterates(g, Q, <<>>, step1, L) /\ Iterates(h, Q, <<>>, step2, L + 1)
    BY <1>2, <1>3
  <2>2. \A x \in Q, n \in 1..L : step1[<<x, n>>] = step2[<<x, n>>]
    BY <1>4
  <2>3. L \in Nat
    BY <1>1
  <2> DEFINE base == <<>>
  <2>4. Iterates(g, Q, base, step1, L) /\ Iterates(h, Q, base, step2, L + 1)
    BY <2>1
  <2> HIDE DEF Q, step1, step2, base
  <2>5. QED
    BY ONLY <2>2, <2>3, <2>4, IteratesAgree
<1>6. g[L] \in Seq(S)
  BY <1>1, <1>2 DEF Iterates
<1>7. h[L + 1] = h[L] \o s
  <2>1. h[L + 1] = FlatStep(more, S)[<<h[(L + 1) - 1], L + 1>>] /\ (L + 1) - 1 = L
    BY <1>1, <1>3 DEF Iterates
  <2>2. h[L] \in Seq(S) /\ L + 1 \in Nat /\ L + 1 \in 1..Len(more) /\ more[L + 1] = s
    BY <1>1, <1>5, <1>6
  <2> HIDE DEF Iterates
  <2>3. FlatStep(more, S)[<<h[L], L + 1>>] = h[L] \o s
    <3> DEFINE x == h[L]
               n == L + 1
    <3>1. x \in Seq(S) /\ n \in Nat /\ n \in 1..Len(more) /\ more[n] = s
      BY <2>2
    <3> HIDE DEF x, n
    <3>2. FlatStep(more, S)[<<x, n>>] = x \o s
      BY <3>1 DEF FlatStep
    <3>3. QED
      BY <3>2 DEF x, n
  <2>4. QED
    BY <2>1, <2>3
<1>8. QED
  BY <1>2, <1>3, <1>5, <1>6, <1>7 DEF more

LEMMA ConcatAssoc ==
  ASSUME NEW S, NEW a \in Seq(S), NEW b \in Seq(S), NEW s \in Seq(S)
  PROVE  (a \o b) \o s = a \o (b \o s)
OBVIOUS

\* A sequence that is last may be given in two parts.
LEMMA FlattenParts ==
  ASSUME NEW d, d \in Seq(Batch), NEW b \in Batch, NEW s \in Batch
  PROVE  FlattenSeq(Append(d, b \o s)) = FlattenSeq(Append(d, b)) \o s
<1> DEFINE a == FlattenSeq(d)
           bs == b \o s
<1>0. Batch = Seq(Event)
  BY DEF Batch
<1>1. a \in Batch /\ FlattenSeq(Append(d, b)) = a \o b
  BY <1>0, FlattenAppend
<1>2. bs \in Batch
  BY DEF Batch
<1> HIDE DEF bs
<1>3. FlattenSeq(Append(d, bs)) = a \o bs
  BY <1>0, <1>2, FlattenAppend
<1> HIDE DEF a
<1>4. (a \o b) \o s = a \o (b \o s)
  BY ONLY <1>1, b \in Batch, s \in Batch DEF Batch
<1>5. QED
  BY <1>1, <1>3, <1>4 DEF bs

\* What is added to the last of the sequences is added to all.
LEMMA FlattenLast ==
  ASSUME NEW n \in Nat,
         NEW ss, NEW tt, ss \in Seq(Batch), tt \in Seq(Batch), NEW s \in Batch,
         Len(ss) = n + 1, Len(tt) = n + 1,
         \A k \in 1..n : tt[k] = ss[k],
         tt[n + 1] = ss[n + 1] \o s
  PROVE  FlattenSeq(tt) = FlattenSeq(ss) \o s
<1> DEFINE d == SubSeq(ss, 1, n)
           e == SubSeq(tt, 1, n)
           b == ss[n + 1]
<1>1. d \in Seq(Batch) /\ b \in Batch /\ ss = Append(d, b) /\ Len(d) = n
  BY ONLY n \in Nat, ss \in Seq(Batch), Len(ss) = n + 1, SplitLast
<1>2. e \in Seq(Batch) /\ tt[n + 1] \in Batch /\ tt = Append(e, tt[n + 1]) /\ Len(e) = n
  BY ONLY n \in Nat, tt \in Seq(Batch), Len(tt) = n + 1, SplitLast
<1>3. d = e
  <2>1. \A k \in 1..n : d[k] = ss[k] /\ e[k] = tt[k]
    OBVIOUS
  <2> HIDE DEF d, e
  <2>2. \A k \in 1..n : d[k] = e[k]
    BY <2>1
  <2>3. QED
    BY ONLY n \in Nat, <1>1, <1>2, <2>2
<1> HIDE DEF d, e
<1>4. tt = Append(d, b \o s)
  BY <1>2, <1>3
<1> HIDE DEF b
<1>5. FlattenSeq(Append(d, b \o s)) = FlattenSeq(Append(d, b)) \o s
  BY ONLY s \in Batch, <1>1, FlattenParts
<1>6. QED
  BY <1>1, <1>4, <1>5

-------------------------------------------------------------------------------
(* What a terminator has closed *)

Ends(lines) == {i \in DOMAIN lines : lines[i] \in Enders}

LEMMA MaxIs ==
  ASSUME NEW T, NEW L \in Nat, T \subseteq 1..L, T # {}
  PROVE  Max(T) \in T /\ \A y \in T : Max(T) >= y
<1> DEFINE U == {n \in Nat : \E i \in T : n = L - i}
<1>1. \A i \in T : i \in Int /\ i <= L /\ L - i \in Nat
  OBVIOUS
<1>2. U \subseteq Nat /\ U # {}
  BY <1>1
<1>3. PICK x \in U : \A y \in U : x <= y
  <2> HIDE DEF U
  <2>1. QED
    BY <1>2, Least
<1>4. PICK i \in T : x = L - i
  OBVIOUS
<1>5. ASSUME NEW y \in T PROVE i >= y
  <2>1. L - y \in U /\ i \in Int /\ y \in Int
    BY <1>1
  <2>2. L - i <= L - y
    BY <1>3, <1>4, <2>1
  <2>3. QED
    BY <2>1, <2>2
<1>6. QED
  BY <1>5 DEF Max

LEMMA ClosedAppend ==
  ASSUME NEW l \in Seq(Lines), NEW x \in Lines
  PROVE  /\ Closed(l) \in Seq(Lines)
         /\ Closed(Append(l, x)) = IF x \in Enders THEN Append(l, x) ELSE Closed(l)
<1> DEFINE m == Append(l, x)
           L == Len(l)
<1>1. /\ L \in Nat /\ m \in Seq(Lines) /\ Len(m) = L + 1 /\ m[L + 1] = x
      /\ \A n \in 1..L : m[n] = l[n]
  OBVIOUS
<1> HIDE DEF m
<1>2. Ends(l) \subseteq 1..L /\ Ends(m) \subseteq 1..L + 1
  BY <1>1 DEF Ends
<1>3. Ends(l) # {} => Max(Ends(l)) \in 1..L
  BY <1>1, <1>2, MaxIs
<1>4. Closed(l) \in Seq(Lines)
  <2>1. Closed(l) = IF Ends(l) = {} THEN <<>> ELSE SubSeq(l, 1, Max(Ends(l)))
    BY DEF Closed, Ends
  <2> DEFINE k == Max(Ends(l))
  <2>2. CASE Ends(l) = {}
    BY <2>1, <2>2
  <2>3. CASE Ends(l) # {}
    <3>1. k \in 1..L
      BY <1>3, <2>3
    <3> HIDE DEF k
    <3>2. SubSeq(l, 1, k) \in Seq(Lines)
      BY <3>1
    <3>3. QED
      BY <2>1, <2>3, <3>2 DEF k
  <2>4. QED
    BY <2>2, <2>3
<1>5. CASE x \in Enders
  <2>1. L + 1 \in Ends(m)
    BY <1>1, <1>5 DEF Ends
  <2>2. Max(Ends(m)) = L + 1
    <3>1. Max(Ends(m)) \in Ends(m) /\ Max(Ends(m)) >= L + 1
      BY <1>1, <1>2, <2>1, MaxIs
    <3>2. QED
      BY <1>1, <1>2, <3>1
  <2>3. Closed(m) = SubSeq(m, 1, L + 1)
    BY <2>1, <2>2 DEF Closed, Ends
  <2>4. SubSeq(m, 1, L + 1) = m
    BY <1>1
  <2>5. QED
    BY <1>4, <1>5, <2>3, <2>4 DEF m
<1>6. CASE x \notin Enders
  <2>1. Ends(m) = Ends(l)
    BY <1>1, <1>6 DEF Ends
  <2>2. CASE Ends(l) = {}
    BY <1>4, <1>6, <2>1, <2>2 DEF Closed, Ends, m
  <2>3. CASE Ends(l) # {}
    <3> DEFINE k == Max(Ends(l))
    <3>1. k \in 1..L
      BY <1>3, <2>3
    <3>2. Closed(m) = SubSeq(m, 1, k) /\ Closed(l) = SubSeq(l, 1, k)
      BY <2>1, <2>3 DEF Closed, Ends
    <3> HIDE DEF k
    <3>3. SubSeq(m, 1, k) = SubSeq(l, 1, k)
      BY <1>1, <3>1
    <3>4. QED
      BY <1>4, <1>6, <3>2, <3>3 DEF m
  <2>4. QED
    BY <2>2, <2>3
<1>7. QED
  BY <1>5, <1>6

LEMMA ClosedNothing ==
  Closed(<<>>) = <<>> /\ ParseSse(<<>>) = <<>> /\ Parsed(<<>>).data = <<>>
<1>1. Closed(<<>>) = <<>>
  BY DEF Closed
<1>2. Parsed(<<>>) = Nothing
  <2>1. <<>> \in Seq(Lines) /\ "field" \in Lines
    BY DEF Lines
  <2>2. QED
    BY <2>1, ParsedAppend
<1>3. QED
  BY <1>1, <1>2, FlushedNothing DEF ParseSse, Nothing

-------------------------------------------------------------------------------
(* What the adapter is to be told *)

Told(h, said, k) ==
  (IF k > 1 THEN <<"restored">> ELSE <<>>)
    \o ParseSse(Closed(h[k]))
    \o (IF k < Len(h) \/ said THEN <<"lost">> ELSE <<>>)

Tellings(h, said) == [k \in 1..Len(h) |-> Told(h, said, k)]

LEMMA ToldInOrderIs ==
  ASSUME heard \in Seq(Stream)
  PROVE  ToldInOrder <=> (receiver => channel = FlattenSeq(Tellings(heard, announced)))
<1>1. DOMAIN heard = 1..Len(heard)
  OBVIOUS
<1>2. QED
  BY <1>1 DEF ToldInOrder, Tellings, Told

LEMMA ParseSseType ==
  ASSUME NEW l \in Stream
  PROVE  ParseSse(l) \in Batch
<1>1. "field" \in Lines
  BY DEF Lines
<1>2. Flushed(Parsed(l)) \in Parse
  BY <1>1, ParsedAppend, ParseLineType DEF Stream
<1>3. ParseSse(l) \in Seq(Seq(Data))
  BY <1>2 DEF ParseSse, Parse
<1> DEFINE q == ParseSse(l)
           S == Seq(Data)
<1>4. q \in Seq(S) /\ S \subseteq Event
  BY <1>3 DEF Event
<1> HIDE DEF q, S
<1>5. q \in Seq(Event)
  BY <1>4
<1>6. QED
  BY <1>5 DEF q, Batch

LEMMA Words ==
  <<"restored">> \in Batch /\ <<"lost">> \in Batch /\ <<>> \in Batch
BY DEF Batch, Event

LEMMA ClosedType ==
  ASSUME NEW l \in Stream
  PROVE  Closed(l) \in Stream /\ ParseSse(Closed(l)) \in Batch
<1>1. "field" \in Lines
  BY DEF Lines
<1>2. Closed(l) \in Stream
  BY <1>1, ClosedAppend DEF Stream
<1>3. QED
  BY <1>2, ParseSseType

LEMMA ThreeParts ==
  ASSUME NEW a \in Batch, NEW b \in Batch, NEW c \in Batch
  PROVE  /\ a \o b \o c \in Batch
         /\ a \o b \o c = (a \o b \o <<>>) \o c
         /\ a \o <<>> \o <<>> = a
<1> USE DEF Batch
<1>1. a \o b \o c \in Batch
  OBVIOUS
<1>2. a \o b \o <<>> = a \o b
  OBVIOUS
<1>3. a \o <<>> \o <<>> = a
  OBVIOUS
<1>4. QED
  BY <1>1, <1>2, <1>3

LEMMA MiddlePart ==
  ASSUME NEW a \in Batch, NEW b \in Batch, NEW c \in Batch, NEW x, x = b \o c
  PROVE  a \o x \o <<>> = (a \o b \o <<>>) \o c
<1> USE DEF Batch
<1>1. a \o b \o <<>> = a \o b
  OBVIOUS
<1>2. a \o (b \o c) \o <<>> = a \o (b \o c)
  OBVIOUS
<1>3. a \o (b \o c) = (a \o b) \o c
  BY ConcatAssoc
<1>4. QED
  BY <1>1, <1>2, <1>3

LEMMA ToldType ==
  ASSUME NEW h \in Seq(Stream), NEW said \in BOOLEAN, NEW k \in 1..Len(h)
  PROVE  Told(h, said, k) \in Batch
<1> DEFINE a == IF k > 1 THEN <<"restored">> ELSE <<>>
           b == ParseSse(Closed(h[k]))
           c == IF k < Len(h) \/ said THEN <<"lost">> ELSE <<>>
<1>1. a \in Batch /\ c \in Batch
  BY Words
<1>2. b \in Batch
  BY ClosedType
<1>3. Told(h, said, k) = a \o b \o c
  BY DEF Told
<1> HIDE DEF a, b, c
<1>4. QED
  BY <1>1, <1>2, <1>3, ThreeParts

LEMMA TellingsType ==
  ASSUME NEW h \in Seq(Stream), NEW said \in BOOLEAN
  PROVE  /\ Tellings(h, said) \in Seq(Batch)
         /\ Len(Tellings(h, said)) = Len(h)
         /\ \A k \in 1..Len(h) : Tellings(h, said)[k] = Told(h, said, k)
<1> DEFINE L == Len(h)
           S == Batch
           T(k) == Told(h, said, k)
<1>1. L \in Nat /\ \A k \in 1..L : T(k) \in S
  BY ToldType
<1>2. Tellings(h, said) = [k \in 1..L |-> T(k)]
  BY DEF Tellings
<1> HIDE DEF L, S, T
<1>3. /\ [k \in 1..L |-> T(k)] \in Seq(S)
      /\ Len([k \in 1..L |-> T(k)]) = L
      /\ \A k \in 1..L : [j \in 1..L |-> T(j)][k] = T(k)
  BY <1>1
<1>4. QED
  BY <1>2, <1>3 DEF L, S, T

\* What is told of the last stream comes last.
LEMMA ToldLast ==
  ASSUME NEW h, NEW g, h \in Seq(Stream), g \in Seq(Stream), NEW said \in BOOLEAN,
         NEW L \in Nat \ {0}, Len(h) = L, Len(g) = L,
         \A k \in 1..L : k # L => g[k] = h[k],
         NEW new \in Batch, Told(g, said, L) = Told(h, FALSE, L) \o new
  PROVE  FlattenSeq(Tellings(g, said)) = FlattenSeq(Tellings(h, FALSE)) \o new
<1> DEFINE t == Tellings(h, FALSE)
           u == Tellings(g, said)
           n == L - 1
<1>1. /\ t \in Seq(Batch) /\ Len(t) = L
      /\ u \in Seq(Batch) /\ Len(u) = L
      /\ \A k \in 1..L : t[k] = Told(h, FALSE, k) /\ u[k] = Told(g, said, k)
  BY TellingsType
<1>2. \A k \in 1..n : u[k] = t[k]
  <2>1. ASSUME NEW k \in 1..n PROVE u[k] = t[k]
    <3>1. k \in 1..L /\ k < Len(h) /\ k < Len(g) /\ g[k] = h[k]
      OBVIOUS
    <3>2. Told(g, said, k) = Told(h, FALSE, k)
      BY <3>1 DEF Told
    <3>3. QED
      BY <1>1, <3>1, <3>2
  <2>2. QED
    BY <2>1
<1>3. n \in Nat /\ n + 1 = L /\ u[n + 1] = t[n + 1] \o new
  <2>1. n \in Nat /\ n + 1 = L /\ L \in 1..L
    OBVIOUS
  <2>2. u[L] = t[L] \o new
    BY <1>1, <2>1
  <2>3. QED
    BY <2>1, <2>2
<1> HIDE DEF t, u, n
<1>4. FlattenSeq(u) = FlattenSeq(t) \o new
  <2>2. t \in Seq(Batch) /\ u \in Seq(Batch) /\ Len(t) = n + 1 /\ Len(u) = n + 1 /\ n \in Nat
    BY <1>1, <1>3
  <2>3. QED
    BY ONLY <1>2, <1>3, <2>2, new \in Batch, FlattenLast
<1>5. QED
  BY <1>4 DEF t, u

\* A loss that is announced.
LEMMA ToldLost ==
  ASSUME NEW h \in Seq(Stream), NEW L \in Nat \ {0}, Len(h) = L
  PROVE  Told(h, TRUE, L) = Told(h, FALSE, L) \o <<"lost">>
<1> DEFINE a == IF L > 1 THEN <<"restored">> ELSE <<>>
           b == ParseSse(Closed(h[L]))
           c == <<"lost">>
<1>1. a \in Batch /\ b \in Batch /\ c \in Batch
  BY Words, ClosedType
<1>2. Told(h, TRUE, L) = a \o b \o c /\ Told(h, FALSE, L) = a \o b \o <<>>
  BY DEF Told
<1> HIDE DEF a, b, c
<1>3. a \o b \o c = (a \o b \o <<>>) \o c
  BY <1>1, ThreeParts
<1>4. QED
  BY <1>2, <1>3 DEF c

\* A payload that is handed on.
LEMMA ToldPayload ==
  ASSUME NEW h, NEW g, h \in Seq(Stream), g \in Seq(Stream),
         NEW L \in Nat \ {0}, Len(h) = L, Len(g) = L,
         NEW new \in Batch, ParseSse(Closed(g[L])) = ParseSse(Closed(h[L])) \o new
  PROVE  Told(g, FALSE, L) = Told(h, FALSE, L) \o new
<1> DEFINE a == IF L > 1 THEN <<"restored">> ELSE <<>>
           b == ParseSse(Closed(h[L]))
           x == ParseSse(Closed(g[L]))
<1>1. a \in Batch /\ b \in Batch /\ x = b \o new
  BY Words, ClosedType
<1>2. Told(g, FALSE, L) = a \o x \o <<>> /\ Told(h, FALSE, L) = a \o b \o <<>>
  BY DEF Told
<1> HIDE DEF a, b, x
<1>3. a \o x \o <<>> = (a \o b \o <<>>) \o new
  BY ONLY <1>1, new \in Batch, MiddlePart
<1>4. QED
  BY <1>2, <1>3

\* A stream that is opened was announced lost, unless it is the first.
LEMMA ToldOpened ==
  ASSUME NEW h \in Seq(Stream), NEW said \in BOOLEAN, said <=> h # <<>>
  PROVE  FlattenSeq(Tellings(Append(h, <<>>), FALSE))
           = FlattenSeq(Tellings(h, said)) \o (IF said THEN <<"restored">> ELSE <<>>)
<1> DEFINE L == Len(h)
           g == Append(h, <<>>)
           t == Tellings(h, said)
           u == Tellings(g, FALSE)
           new == IF said THEN <<"restored">> ELSE <<>>
<1>1. /\ L \in Nat /\ g \in Seq(Stream) /\ Len(g) = L + 1 /\ g[L + 1] = <<>>
      /\ \A k \in 1..L : g[k] = h[k]
  <2>1. <<>> \in Stream
    BY DEF Stream
  <2>2. QED
    BY <2>1
<1>2. said <=> L + 1 > 1
  OBVIOUS
<1> HIDE DEF g
<1>3. /\ t \in Seq(Batch) /\ Len(t) = L
      /\ u \in Seq(Batch) /\ Len(u) = L + 1
      /\ \A k \in 1..L : t[k] = Told(h, said, k)
      /\ \A k \in 1..L + 1 : u[k] = Told(g, FALSE, k)
  BY <1>1, TellingsType
<1>4. \A k \in 1..L : u[k] = t[k]
  <2>1. ASSUME NEW k \in 1..L PROVE u[k] = t[k]
    <3>1. said /\ k \in 1..L + 1 /\ k < L + 1 /\ g[k] = h[k]
      BY <1>1, <1>2
    <3>2. QED
      BY <1>1, <1>3, <3>1 DEF Told
  <2>2. QED
    BY <2>1
<1>5. new \in Batch
  BY Words
<1>6. u[L + 1] = new
  <2>1. L + 1 \in 1..L + 1 /\ ~(L + 1 < L + 1)
    BY <1>1
  <2>2. u[L + 1] = Told(g, FALSE, L + 1)
    BY <1>3, <2>1
  <2>3. ParseSse(Closed(g[L + 1])) = <<>>
    BY <1>1, ClosedNothing
  <2>4. (IF L + 1 > 1 THEN <<"restored">> ELSE <<>>) = new
    BY <1>2
  <2>5. (IF L + 1 < Len(g) \/ FALSE THEN <<"lost">> ELSE <<>>) = <<>>
    BY <1>1, <2>1
  <2>6. Told(g, FALSE, L + 1) = new \o <<>> \o <<>>
    BY <2>3, <2>4, <2>5 DEF Told
  <2> HIDE DEF new
  <2>7. QED
    BY <1>5, <2>2, <2>6, ThreeParts
<1> HIDE DEF t, u, new
<1>7. u = Append(t, new)
  <2> DEFINE S == Batch
  <2>1. /\ t \in Seq(S) /\ u \in Seq(S) /\ new \in S /\ Len(t) = L /\ Len(u) = L + 1
        /\ u[L + 1] = new /\ L \in Nat
    BY <1>1, <1>3, <1>5, <1>6
  <2> HIDE DEF S, L
  <2>2. QED
    BY <1>4, <2>1
<1>8. FlattenSeq(u) = FlattenSeq(t) \o new
  BY <1>3, <1>5, <1>7, FlattenAppend DEF Batch
<1>9. QED
  BY <1>8 DEF t, u, new, g

-------------------------------------------------------------------------------
(* The thread *)

ThreadTypeOK ==
  /\ heard \in Seq(Stream)
  /\ pending \in Stream
  /\ announced \in BOOLEAN

\* There is no thread before the server answers, and nothing comes of none.
BeginInv ==
  /\ main \in {"start", "listen", "probe", "verify"} => worker = "none"
  /\ worker = "none" => heard = <<>> /\ channel = <<>> /\ ~announced

\* A stream that is read has been handed on as far as it is closed, and the rest is
\* pending.
Split(l, rest) == Closed(l) \o rest = l /\ Parsed(Closed(l)).data = <<>>

Reading(l) == Split(l, pending)

ReadInv == worker = "read" => heard # <<>> /\ ~announced /\ Reading(heard[Len(heard)])

\* Between streams a loss has been announced, unless there was no stream.
BetweenInv == worker \in {"open", "sleep"} => (announced <=> heard # <<>>)

OrderInv == channel = FlattenSeq(Tellings(heard, announced))

ThreadInv ==
  ThreadTypeOK /\ BeginInv /\ (receiver => ReadInv /\ BetweenInv /\ OrderInv)

LEMMA NothingTold ==
  ASSUME heard = <<>>
  PROVE  FlattenSeq(Tellings(heard, announced)) = <<>>
BY DEF Tellings, FlattenSeq

LEMMA InitThread ==
  ASSUME Init
  PROVE  ThreadInv
<1>1. <<>> \in Stream
  BY DEF Stream
<1>2. heard = <<>> /\ pending = <<>> /\ announced = FALSE /\ channel = <<>> /\ worker = "none"
  BY DEF Init
<1>3. ThreadTypeOK
  <2>1. heard \in Seq(Stream)
    BY <1>2
  <2>2. pending \in Stream /\ announced \in BOOLEAN
    BY <1>1, <1>2
  <2>3. QED
    BY <2>1, <2>2 DEF ThreadTypeOK
<1>4. BeginInv
  BY <1>2 DEF BeginInv
<1>5. QED
  BY <1>3, <1>4 DEF Init, ThreadInv

LEMMA MainKeepsThread ==
  ASSUME ThreadInv, UNCHANGED thread,
         receiver' \in {receiver, FALSE},
         main' \in {"start", "listen", "probe", "verify"} =>
           main \in {"start", "listen", "probe", "verify"}
  PROVE  ThreadInv'
<1>1. UNCHANGED <<worker, announced, pending, channel, heard>>
  BY DEF thread
<1>2. ThreadTypeOK' /\ BeginInv'
  BY <1>1 DEF ThreadInv, ThreadTypeOK, BeginInv
<1>3. ASSUME receiver' PROVE ReadInv' /\ BetweenInv' /\ OrderInv'
  <2>1. ReadInv /\ BetweenInv /\ OrderInv
    BY <1>3 DEF ThreadInv
  <2>2. QED
    BY <1>1, <2>1 DEF ReadInv, Reading, BetweenInv, OrderInv
<1>4. QED
  BY <1>2, <1>3 DEF ThreadInv

LEMMA VerifyKeepsThread ==
  ASSUME ThreadInv, Verify
  PROVE  ThreadInv'
<1>1. /\ heard = <<>> /\ channel = <<>> /\ announced = FALSE /\ ThreadTypeOK
      /\ UNCHANGED <<announced, pending, channel, heard>>
  BY DEF ThreadInv, BeginInv, Verify, ThreadTypeOK
<1>2. ThreadTypeOK' /\ OrderInv' /\ BetweenInv'
  BY <1>1, NothingTold DEF ThreadTypeOK, OrderInv, BetweenInv
<1>3. CASE worker' = "open" /\ main' = "load"
  BY <1>2, <1>3 DEF ThreadInv, BeginInv, ReadInv
<1>4. CASE UNCHANGED <<worker, receiver>>
  <2>1. worker = "none"
    BY DEF Verify, ThreadInv, BeginInv
  <2>2. QED
    BY <1>1, <1>2, <1>4, <2>1 DEF ThreadInv, BeginInv, ReadInv
<1>5. QED
  BY <1>3, <1>4 DEF Verify

LEMMA OpenKeepsThread ==
  ASSUME ThreadInv, Open
  PROVE  ThreadInv'
<1> DEFINE new == IF announced THEN <<"restored">> ELSE <<>>
<1>1. /\ heard' = Append(heard, <<>>) /\ pending' = <<>> /\ announced' = FALSE
      /\ worker = "open" /\ Send(new, "read") /\ UNCHANGED <<main, receiver>>
  BY DEF Open, Rest
<1>2. /\ heard \in Seq(Stream) /\ announced \in BOOLEAN
      /\ receiver => (announced <=> heard # <<>>) /\ channel = FlattenSeq(Tellings(heard, announced))
  BY <1>1 DEF ThreadInv, ThreadTypeOK, BetweenInv, OrderInv
<1>3. heard' \in Seq(Stream) /\ Len(heard') = Len(heard) + 1 /\ heard'[Len(heard')] = <<>>
  <2>1. <<>> \in Stream
    BY DEF Stream
  <2>2. QED
    BY <1>1, <1>2, <2>1
<1>4. worker' \in {"read", "done"}
  BY <1>1 DEF Send
<1>5. ThreadTypeOK' /\ BeginInv'
  <2>1. main \notin {"start", "listen", "probe", "verify"}
    BY <1>1 DEF ThreadInv, BeginInv
  <2>2. <<>> \in Stream
    BY DEF Stream
  <2>3. QED
    BY <1>1, <1>3, <1>4, <2>1, <2>2 DEF ThreadTypeOK, BeginInv
<1>6. ASSUME receiver PROVE ReadInv' /\ BetweenInv' /\ OrderInv'
  <2>1. channel' = channel \o new
    BY <1>1, <1>6 DEF Send
  <2>2. OrderInv'
    BY <1>1, <1>2, <1>6, <2>1, ToldOpened DEF OrderInv
  <2>3. heard' # <<>>
    BY <1>2, <1>3
  <2>4. Reading(heard[Len(heard)])'
    BY <1>1, <1>3, ClosedNothing DEF Reading, Split
  <2>5. QED
    BY <1>1, <1>4, <2>2, <2>3, <2>4 DEF ReadInv, BetweenInv
<1>7. QED
  BY <1>1, <1>5, <1>6 DEF ThreadInv

LEMMA StreamEndsKeepsThread ==
  ASSUME ThreadInv, StreamEnds
  PROVE  ThreadInv'
<1>1. /\ UNCHANGED <<heard, pending, main, receiver>> /\ announced' = TRUE
      /\ worker = "read" /\ Send(<<"lost">>, "sleep")
  BY DEF StreamEnds, Rest
<1>2. worker' \in {"sleep", "done"}
  BY <1>1 DEF Send
<1>3. ThreadTypeOK' /\ BeginInv'
  BY <1>1, <1>2 DEF ThreadInv, ThreadTypeOK, BeginInv
<1>4. ASSUME receiver PROVE ReadInv' /\ BetweenInv' /\ OrderInv'
  <2>1. heard \in Seq(Stream) /\ heard # <<>> /\ ~announced /\ announced \in BOOLEAN
    BY <1>1, <1>4 DEF ThreadInv, ThreadTypeOK, ReadInv
  <2>2. channel' = channel \o <<"lost">> /\ channel = FlattenSeq(Tellings(heard, FALSE))
    <3>1. <<"lost">> # <<>> /\ announced = FALSE
      BY <2>1
    <3>2. QED
      BY <1>1, <1>4, <3>1 DEF Send, ThreadInv, OrderInv
  <2>3. FlattenSeq(Tellings(heard, TRUE)) = FlattenSeq(Tellings(heard, FALSE)) \o <<"lost">>
    <3> DEFINE L == Len(heard)
               new == <<"lost">>
    <3>1. heard \in Seq(Stream) /\ L \in Nat \ {0} /\ Len(heard) = L /\ new \in Batch
      BY <2>1, Words
    <3>2. \A k \in 1..L : k # L => heard[k] = heard[k]
      OBVIOUS
    <3> HIDE DEF L
    <3>3. Told(heard, TRUE, L) = Told(heard, FALSE, L) \o new
      BY <3>1, ToldLost
    <3> HIDE DEF new
    <3>4. FlattenSeq(Tellings(heard, TRUE)) = FlattenSeq(Tellings(heard, FALSE)) \o new
      BY ONLY <3>1, <3>2, <3>3, ToldLast
    <3>5. QED
      BY <3>4 DEF new
  <2>4. OrderInv'
    BY <1>1, <2>2, <2>3 DEF OrderInv
  <2>5. QED
    BY <1>1, <1>2, <2>1, <2>4 DEF ReadInv, BetweenInv
<1>5. QED
  BY <1>1, <1>3, <1>4 DEF ThreadInv

LEMMA PayloadCloses ==
  ASSUME NEW a \in Stream, Parsed(a).data = <<>>, NEW b \in Stream, NEW line \in Enders,
         NEW m, m = a \o Append(b, line)
  PROVE  ParseSse(m) = ParseSse(a) \o ParseSse(b) /\ Parsed(m).data = <<>>
<1>1. a \in Seq(Lines) /\ b \in Seq(Lines)
  BY DEF Stream
<1>2. QED
  BY <1>1, ParseSseClosed

LEMMA AppendToRest ==
  ASSUME NEW a \in Stream, NEW b \in Stream, NEW x \in Lines
  PROVE  Append(a \o b, x) = a \o Append(b, x)
BY DEF Stream

\* Of a line that is read: what it closes is what was pending.
LEMMA LineCloses ==
  ASSUME NEW l \in Stream, NEW rest \in Stream, NEW line \in Enders,
         Split(l, rest), NEW m, m = Append(l, line)
  PROVE  /\ Split(m, <<>>)
         /\ ParseSse(Closed(m)) = ParseSse(Closed(l)) \o ParseSse(rest)
<1>0. line \in Lines
  BY DEF Lines
<1>1. m \in Stream
  BY <1>0 DEF Stream
<1>2. Closed(l) \in Stream /\ Closed(m) = m
  BY <1>0, ClosedAppend DEF Stream
<1> DEFINE a == Closed(l)
<1>3. a \in Stream /\ l = a \o rest /\ Parsed(a).data = <<>>
  BY <1>2 DEF Split
<1> HIDE DEF a
<1>4. m = a \o Append(rest, line)
  BY <1>0, <1>3, AppendToRest
<1>5. ParseSse(m) = ParseSse(a) \o ParseSse(rest) /\ Parsed(m).data = <<>>
  BY ONLY <1>3, <1>4, line \in Enders, rest \in Stream, PayloadCloses
<1>6. m \o <<>> = m
  BY <1>1 DEF Stream
<1>7. QED
  BY <1>2, <1>5, <1>6 DEF a, Split

LEMMA LineIsKept ==
  ASSUME NEW l \in Stream, NEW rest \in Stream, NEW line \in Lines, line \notin Enders,
         Split(l, rest), NEW m, m = Append(l, line)
  PROVE  /\ Split(m, Append(rest, line))
         /\ ParseSse(Closed(m)) = ParseSse(Closed(l)) \o <<>>
<1>1. Closed(l) \in Stream /\ Closed(m) = Closed(l)
  BY ClosedAppend DEF Stream
<1> DEFINE a == Closed(l)
<1>2. a \in Stream /\ l = a \o rest /\ Parsed(a).data = <<>>
  BY <1>1 DEF Split
<1> HIDE DEF a
<1>3. m = a \o Append(rest, line)
  BY <1>2, AppendToRest
<1>4. ParseSse(Closed(l)) \o <<>> = ParseSse(Closed(l))
  BY ClosedType DEF Batch
<1>5. QED
  BY <1>1, <1>2, <1>3, <1>4 DEF a, Split

LEMMA Replaced ==
  ASSUME NEW S, NEW q \in Seq(S), NEW i, NEW x, i \in 1..Len(q) => x \in S
  PROVE  /\ [q EXCEPT ![i] = x] \in Seq(S)
         /\ Len([q EXCEPT ![i] = x]) = Len(q)
         /\ i \in 1..Len(q) => [q EXCEPT ![i] = x][i] = x
         /\ \A k \in 1..Len(q) : k # i => [q EXCEPT ![i] = x][k] = q[k]
<1> DEFINE L == Len(q)
           r == [q EXCEPT ![i] = x]
<1>1. L \in Nat /\ DOMAIN q = 1..L /\ \A k \in 1..L : q[k] \in S
  OBVIOUS
<1>2. r = [k \in 1..L |-> IF k = i THEN x ELSE q[k]]
  BY <1>1
<1> DEFINE T(k) == IF k = i THEN x ELSE q[k]
<1>3. \A k \in 1..L : T(k) \in S
  BY <1>1
<1> HIDE DEF L, r, T
<1>4. /\ [k \in 1..L |-> T(k)] \in Seq(S)
      /\ Len([k \in 1..L |-> T(k)]) = L
      /\ \A k \in 1..L : [j \in 1..L |-> T(j)][k] = T(k)
  BY <1>1, <1>3
<1>5. r = [k \in 1..L |-> T(k)]
  BY <1>2 DEF T
<1>6. r \in Seq(S) /\ Len(r) = L /\ \A k \in 1..L : r[k] = T(k)
  BY <1>4, <1>5
<1>7. QED
  BY <1>6 DEF L, r, T

LEMMA ReadLineKeepsThread ==
  ASSUME ThreadInv, NEW line \in Lines, ReadLine(line)
  PROVE  ThreadInv'
<1> DEFINE L == Len(heard)
           l == heard[L]
           new == IF line \in Enders THEN ParseSse(pending) ELSE <<>>
<1>1. worker = "read" /\ UNCHANGED <<announced, main, receiver>>
  BY DEF ReadLine, Rest
<1>2. ThreadTypeOK /\ (receiver => heard # <<>> /\ ~announced /\ Reading(l) /\ OrderInv)
  BY <1>1 DEF ThreadInv, ReadInv
<1>3. main \notin {"start", "listen", "probe", "verify"}
  BY <1>1 DEF ThreadInv, BeginInv
<1>4. CASE StopsReading
  <2>1. worker' = "done" /\ UNCHANGED <<channel, pending, heard>>
    BY <1>4 DEF ReadLine
  <2>2. QED
    BY <1>1, <1>2, <1>3, <2>1
    DEF ThreadInv, ThreadTypeOK, BeginInv, ReadInv, BetweenInv, OrderInv
<1>5. CASE ~StopsReading
  <2>1. /\ heard' = [heard EXCEPT ![L] = Append(l, line)]
        /\ Send(new, "read")
        /\ pending' = IF line \in Enders THEN <<>> ELSE Append(pending, line)
    BY <1>5 DEF ReadLine, PendingTaken
  <2>2. heard \in Seq(Stream) /\ pending \in Stream /\ announced \in BOOLEAN /\ L \in Nat
    BY <1>2 DEF ThreadTypeOK
  <2>3. pending' \in Stream
    BY <2>1, <2>2 DEF Stream
  <2>4. heard' \in Seq(Stream) /\ Len(heard') = L /\ \A k \in 1..L : k # L => heard'[k] = heard[k]
    <3>1. L \in 1..L => l \in Stream
      BY <2>2
    <3>2. L \in 1..L => Append(l, line) \in Stream
      BY <3>1 DEF Stream
    <3> DEFINE x == Append(l, line)
    <3>3. heard' = [heard EXCEPT ![L] = x]
      BY <2>1
    <3> HIDE DEF x
    <3>4. QED
      BY <2>2, <3>2, <3>3, Replaced DEF x
  <2>5. worker' \in {"read", "done"}
    BY <2>1 DEF Send
  <2>6. ThreadTypeOK' /\ BeginInv'
    BY <1>1, <1>3, <2>2, <2>3, <2>4, <2>5 DEF ThreadTypeOK, BeginInv
  <2>7. ASSUME receiver PROVE ReadInv' /\ BetweenInv' /\ OrderInv'
    <3>1. heard # <<>> /\ announced = FALSE /\ Reading(l) /\ channel = FlattenSeq(Tellings(heard, FALSE))
      BY <1>2, <2>2, <2>7 DEF OrderInv
    <3>2. L \in 1..L /\ l \in Stream /\ heard'[L] = Append(l, line)
      BY <2>1, <2>2, <3>1
    <3>3. /\ Split(heard'[L], pending')
          /\ ParseSse(Closed(heard'[L])) = ParseSse(Closed(l)) \o new
      <4> DEFINE m == heard'[L]
                 left == pending'
      <4>1. /\ m = Append(l, line)
            /\ left = IF line \in Enders THEN <<>> ELSE Append(pending, line)
            /\ new = IF line \in Enders THEN ParseSse(pending) ELSE <<>>
        BY <2>1, <3>2
      <4>2. l \in Stream /\ pending \in Stream /\ Split(l, pending)
        BY <2>2, <3>1, <3>2 DEF Reading
      <4> HIDE DEF L, l, m, left, new
      <4>3. /\ Split(m, left)
            /\ ParseSse(Closed(m)) = ParseSse(Closed(l)) \o new
        <5>1. CASE line \in Enders
          <6>1. left = <<>> /\ new = ParseSse(pending)
            BY <4>1, <5>1
          <6>2. Split(m, <<>>) /\ ParseSse(Closed(m)) = ParseSse(Closed(l)) \o ParseSse(pending)
            BY ONLY <4>1, <4>2, <5>1, LineCloses
          <6>3. QED
            BY <6>1, <6>2
        <5>2. CASE line \notin Enders
          <6>1. left = Append(pending, line) /\ new = <<>>
            BY <4>1, <5>2
          <6>2. QED
            BY <4>1, <4>2, <5>2, <6>1, LineIsKept
        <5>3. QED
          BY <5>1, <5>2
      <4>4. QED
        BY <4>3 DEF m, left
    <3>4. new \in Batch
      BY <2>2, ParseSseType, Words
    <3>5. channel' = channel \o new
      <4>1. CASE new = <<>>
        BY <2>1, <2>7, <4>1 DEF Send
      <4>2. QED
        BY <2>1, <2>7, <4>1 DEF Send
    <3>6. FlattenSeq(Tellings(heard', FALSE)) = FlattenSeq(Tellings(heard, FALSE)) \o new
      <4> DEFINE g == heard'
      <4>1. L \in Nat \ {0} /\ Len(heard) = L
        BY <2>2, <3>2
      <4>2. /\ Len(g) = L /\ g \in Seq(Stream)
            /\ \A k \in 1..L : k # L => g[k] = heard[k]
            /\ ParseSse(Closed(g[L])) = ParseSse(Closed(heard[L])) \o new
        BY <2>4, <3>3
      <4> HIDE DEF g, new, L
      <4>3. Told(g, FALSE, L) = Told(heard, FALSE, L) \o new
        BY <2>2, <3>4, <4>1, <4>2, ToldPayload
      <4>4. FlattenSeq(Tellings(g, FALSE)) = FlattenSeq(Tellings(heard, FALSE)) \o new
        BY <2>2, <3>4, <4>1, <4>2, <4>3, ToldLast
      <4>5. QED
        BY <4>4 DEF g
    <3>7. OrderInv'
      BY <1>1, <3>1, <3>5, <3>6 DEF OrderInv
    <3>8. ReadInv'
      <4>1. heard' # <<>> /\ Reading(heard[Len(heard)])'
        BY <2>4, <3>2, <3>3 DEF Reading
      <4>2. QED
        BY <1>1, <3>1, <4>1 DEF ReadInv
    <3>9. QED
      BY <2>5, <3>7, <3>8 DEF BetweenInv
  <2>8. QED
    BY <1>1, <2>6, <2>7 DEF ThreadInv
<1>6. QED
  BY <1>4, <1>5

LEMMA NextKeepsThread ==
  ASSUME ThreadInv, [Next]_vars
  PROVE  ThreadInv'
<1>1. ASSUME \/ StartWithout \/ Resolve \/ SpawnFails \/ Spawn
             \/ ReadAddress \/ ReadOther \/ ReadEnd \/ TimePasses \/ Probe \/ Load
             \/ Quit \/ DropReceiver \/ Join \/ ServerEnds
      PROVE  ThreadInv'
  <2>1. UNCHANGED thread /\ receiver' \in {receiver, FALSE}
    BY <1>1 DEF StartWithout, Resolve, SpawnFails, Spawn, ReadAddress, ReadOther, ReadEnd,
                TimePasses, Probe, Load, Quit, DropReceiver, Join, ServerEnds
  <2>2. main' \in {"start", "listen", "probe", "verify"} =>
          main \in {"start", "listen", "probe", "verify"}
    BY <1>1 DEF StartWithout, Resolve, SpawnFails, Spawn, ReadAddress, ReadOther, ReadOn, ReadEnd,
                TimePasses, Probe, GiveUp, Load, Quit, DropReceiver, Join, ServerEnds
  <2>3. QED
    BY <2>1, <2>2, MainKeepsThread
<1>2. ASSUME OpenFails \/ Wake PROVE ThreadInv'
  <2>1. /\ worker \in {"open", "sleep"} /\ worker' \in {"open", "sleep", "done"}
        /\ UNCHANGED <<announced, pending, channel, heard, main, receiver>>
    BY <1>2 DEF OpenFails, Wake, Rest
  <2>2. QED
    BY <2>1 DEF ThreadInv, ThreadTypeOK, BeginInv, ReadInv, BetweenInv, OrderInv
<1>3. ASSUME UNCHANGED vars PROVE ThreadInv'
  BY <1>3, MainKeepsThread DEF vars
<1>4. QED
  BY <1>1, <1>2, <1>3, VerifyKeepsThread, OpenKeepsThread, StreamEndsKeepsThread, ReadLineKeepsThread
  DEF Next

-------------------------------------------------------------------------------
\* What the worker of events.rs does not hand on in its batches is what no terminator
\* has closed: however many streams are opened, lost and opened again, and however their
\* lines fall, the adapter is told what the parser makes of the whole of each stream.
THEOREM ToldInOrderHolds == Spec => []ToldInOrder
<1>1. Init => ThreadInv
  BY InitThread
<1>2. ThreadInv /\ [Next]_vars => ThreadInv'
  BY NextKeepsThread
<1>3. ThreadInv => ToldInOrder
  BY ToldInOrderIs DEF ThreadInv, ThreadTypeOK, OrderInv
<1>4. QED
  BY <1>1, <1>2, <1>3, PTL DEF Spec
=============================================================================
