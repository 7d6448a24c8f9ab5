----------------------------- MODULE Connection_proofs -----------------------------
(***************************************************************************)
(* A session shown as working is working, or will stop being shown: for    *)
(* any number of sessions, turns and losses of the stream.                 *)
(*                                                                         *)
(* What makes BusyIsJustified inductive is the state the indicators will   *)
(* have when all that is on its way has been applied: a session whose last *)
(* start has no end after it still runs, or the stream it would end on has *)
(* gone and its loss is still to be announced; and while the worker has no *)
(* stream, whatever is shown as working is about to be cleared.            *)
(*                                                                         *)
(* A frame applies a whole channel, one event after the other.  What comes *)
(* of it is shown by induction over the channel, which rests on the fact   *)
(* that a set of numbers has a least element (WFMin of the library).       *)
(***************************************************************************)
EXTENDS Connection, WellFoundedInduction, TLAPS

-------------------------------------------------------------------------------
(* Induction over the natural numbers *)

\* A set of numbers that is not empty has a least element.
LEMMA Least ==
  ASSUME NEW T, T \subseteq Nat, T # {}
  PROVE  \E x \in T : \A y \in T : x <= y
<1> DEFINE R == OpToRel(<, Nat)
<1>1. IsWellFoundedOn(R, Nat)
  BY NatLessThanWellFounded
<1>2. \A x, y \in Nat : y < x => <<y, x>> \in R
  BY DEF OpToRel
<1> HIDE DEF R
<1>3. PICK x \in T : \A y \in T : ~(<<y, x>> \in R)
  BY <1>1, WFMin
<1>4. \A y \in T : x \in Nat /\ y \in Nat /\ ~(y < x)
  BY <1>2, <1>3
<1>5. \A y \in T : x <= y
  BY <1>4
<1>6. QED
  BY <1>3, <1>5

\* A set of numbers that has 0, and the successor of each of its numbers, has them all.
LEMMA Induction ==
  ASSUME NEW T \in SUBSET Nat, 0 \in T, \A n \in T : n + 1 \in T
  PROVE  T = Nat
<1>1. CASE Nat \ T # {}
  <2>1. PICK x \in Nat \ T : \A y \in Nat \ T : x <= y
    BY <1>1, Least
  <2>2. x # 0 /\ x - 1 \in Nat
    BY <2>1
  <2>3. x - 1 \in T
    BY <2>1, <2>2
  <2>4. (x - 1) + 1 = x
    BY <2>1
  <2>5. QED
    BY <2>1, <2>3, <2>4
<1>2. QED
  BY <1>1

\* g has, from 0 to L, what step makes of base when applied once per number.
Iterates(g, S, base, step, L) ==
  /\ g \in [0..L -> S]
  /\ g[0] = base
  /\ \A n \in 1..L : g[n] = step[<<g[n - 1], n>>]

\* A function defined by recursion on a number exists.
LEMMA Recursion ==
  ASSUME NEW S, NEW base \in S, NEW step \in [S \X Nat -> S], NEW L \in Nat
  PROVE  \E g : Iterates(g, S, base, step, L)
<1> DEFINE Good(g, k) == g[0] = base /\ \A n \in 1..k : g[n] = step[<<g[n - 1], n>>]
           T == {k \in Nat : \E g \in [0..k -> S] : Good(g, k)}
<1>1. 0 \in T
  <2>1. [i \in 0..0 |-> base] \in [0..0 -> S] /\ Good([i \in 0..0 |-> base], 0)
    OBVIOUS
  <2>2. QED
    BY <2>1
<1>2. ASSUME NEW k \in T PROVE k + 1 \in T
  <2>1. PICK g \in [0..k -> S] : Good(g, k)
    OBVIOUS
  <2> DEFINE h == [i \in 0..k + 1 |-> IF i = k + 1 THEN step[<<g[k], k + 1>>] ELSE g[i]]
  <2>2. k \in Nat /\ k \in 0..k /\ g[k] \in S /\ step[<<g[k], k + 1>>] \in S
    OBVIOUS
  <2>3. h \in [0..k + 1 -> S]
    BY <2>2
  <2>4. h[0] = base
    BY <2>1, <2>2
  <2>5. ASSUME NEW n \in 1..k + 1 PROVE h[n] = step[<<h[n - 1], n>>]
    <3>1. CASE n = k + 1
      <4>1. n - 1 = k /\ k # k + 1 /\ k \in 0..k + 1 /\ k + 1 \in 0..k + 1
        BY <2>2, <3>1
      <4>2. h[k] = g[k] /\ h[k + 1] = step[<<g[k], k + 1>>]
        BY <4>1
      <4>3. QED
        BY <3>1, <4>1, <4>2
    <3>2. CASE n \in 1..k
      <4>1. h[n] = g[n] /\ h[n - 1] = g[n - 1]
        BY <2>2, <3>2
      <4>2. QED
        BY <2>1, <3>2, <4>1
    <3>3. QED
      BY <2>2, <3>1, <3>2
  <2>6. Good(h, k + 1)
    BY <2>4, <2>5
  <2> HIDE DEF h, Good
  <2>7. QED
    BY <2>2, <2>3, <2>6
<1>3. T = Nat
  <2> HIDE DEF T
  <2>1. T \in SUBSET Nat
    BY DEF T
  <2>2. QED
    BY <1>1, <1>2, <2>1, Induction
<1>4. QED
  BY <1>3 DEF Iterates

-------------------------------------------------------------------------------
(* What a frame makes of the channel *)

Indicators == [busy: SUBSET Sessions, gap: BOOLEAN]

\* An event leaves a state of the indicators.
LEMMA ApplyRawType ==
  ASSUME NEW st \in Indicators, NEW e \in Event
  PROVE  ApplyRaw(st, e) \in Indicators
<1>1. CASE e = Lost
  BY <1>1 DEF Lost, ApplyRaw, Indicators
<1>2. CASE e = Restored
  BY <1>2 DEF Restored, ApplyRaw, Indicators
<1>3. CASE e \in [type: {"started", "ended"}, session: Sessions]
  BY <1>3 DEF ApplyRaw, Indicators
<1>4. QED
  BY <1>1, <1>2, <1>3 DEF Event

\* A channel is applied event by event.
LEMMA AppliedStepwise ==
  ASSUME NEW st \in Indicators, NEW q \in Seq(Event)
  PROVE  \E f \in [0..Len(q) -> Indicators] :
           /\ f[0] = st /\ Applied(st, q) = f[Len(q)]
           /\ \A n \in 1..Len(q) : f[n] = ApplyRaw(f[n - 1], q[n])
<1> DEFINE L == Len(q)
           step == [x \in Indicators \X Nat |->
                      IF x[2] \in 1..L THEN ApplyRaw(x[1], q[x[2]]) ELSE x[1]]
           after == CHOOSE f : f = [n \in 0..L |-> IF n = 0 THEN st ELSE ApplyRaw(f[n - 1], q[n])]
<1>1. L \in Nat /\ \A n \in 1..L : q[n] \in Event
  OBVIOUS
<1>2. step \in [Indicators \X Nat -> Indicators]
  BY <1>1, ApplyRawType
<1>3. PICK g : Iterates(g, Indicators, st, step, L)
  BY <1>1, <1>2, Recursion
<1>4. g \in [0..L -> Indicators] /\ g[0] = st /\ \A n \in 1..L : g[n] = ApplyRaw(g[n - 1], q[n])
  <2>1. \A n \in 1..L : n - 1 \in 0..L /\ n \in Nat /\ g[n - 1] \in Indicators
    BY <1>1, <1>3 DEF Iterates
  <2>2. QED
    BY <1>3, <2>1 DEF Iterates
<1>5. g = [n \in 0..L |-> IF n = 0 THEN st ELSE ApplyRaw(g[n - 1], q[n])]
  BY <1>1, <1>4
<1>6. after = [n \in 0..L |-> IF n = 0 THEN st ELSE ApplyRaw(after[n - 1], q[n])]
  BY <1>5
<1>7. Applied(st, q) = after[L]
  BY DEF Applied
<1> HIDE DEF after
<1> DEFINE T == {n \in Nat : n <= L => after[n] \in Indicators}
<1>8. T = Nat
  <2>1. 0 \in T
    BY <1>1, <1>6
  <2>2. ASSUME NEW n \in T PROVE n + 1 \in T
    <3>1. CASE n + 1 <= L
      <4>1. n \in 0..L /\ n + 1 \in 1..L /\ n + 1 \in 0..L /\ (n + 1) - 1 = n
        BY <1>1, <3>1
      <4>2. after[n + 1] = ApplyRaw(after[n], q[n + 1])
        BY <1>6, <4>1
      <4>3. QED
        BY <1>1, <4>1, <4>2, ApplyRawType
    <3>2. QED
      BY <3>1
  <2> HIDE DEF T
  <2>3. T \in SUBSET Nat
    BY DEF T
  <2>4. QED
    BY <2>1, <2>2, <2>3, Induction
<1>9. \A n \in 0..L : after[n] \in Indicators
  <2>1. \A n \in 0..L : n \in T /\ n <= L
    BY <1>1, <1>8
  <2>2. QED
    BY <2>1
<1>10. after \in [0..L -> Indicators] /\ after[0] = st
  BY <1>1, <1>6, <1>9
<1>11. \A n \in 1..L : after[n] = ApplyRaw(after[n - 1], q[n])
  BY <1>1, <1>6
<1>12. QED
  BY <1>7, <1>10, <1>11

-------------------------------------------------------------------------------
(* What the events in a queue will do to the indicator of a session *)

Clears(e, s) == e = Ended(s) \/ e = Lost

\* Its last start has no end after it.
StartsLast(q, s) ==
  \E i \in DOMAIN q : q[i] = Started(s) /\ \A j \in DOMAIN q : i < j => ~Clears(q[j], s)

Cleared(q, s) == \E i \in DOMAIN q : Clears(q[i], s)

\* A session is shown as working after a frame if the channel says so, or if it was
\* before and nothing in the channel says otherwise.
LEMMA AppliedBusy ==
  ASSUME NEW st \in Indicators, NEW q \in Seq(Event), NEW s \in Applied(st, q).busy
  PROVE  StartsLast(q, s) \/ (s \in st.busy /\ ~Cleared(q, s))
<1> DEFINE L == Len(q)
<1>1. L \in Nat /\ DOMAIN q = 1..L /\ \A n \in 1..L : q[n] \in Event
  OBVIOUS
<1>2. PICK f \in [0..L -> Indicators] :
        /\ f[0] = st /\ Applied(st, q) = f[L]
        /\ \A n \in 1..L : f[n] = ApplyRaw(f[n - 1], q[n])
  BY AppliedStepwise
<1> DEFINE Starts(n) == \E i \in 1..n : q[i] = Started(s) /\ \A j \in 1..n : i < j => ~Clears(q[j], s)
           Kept(n) == s \in st.busy /\ \A i \in 1..n : ~Clears(q[i], s)
           T == {n \in Nat : n <= L /\ s \in f[n].busy => Starts(n) \/ Kept(n)}
<1>3. 0 \in T
  BY <1>1, <1>2
<1>4. ASSUME NEW n \in T PROVE n + 1 \in T
  <2> SUFFICES ASSUME n + 1 <= L, s \in f[n + 1].busy
               PROVE  Starts(n + 1) \/ Kept(n + 1)
    OBVIOUS
  <2> DEFINE e == q[n + 1]
  <2>1. n \in 0..L /\ n + 1 \in 1..L /\ (n + 1) - 1 = n /\ n <= L
    BY <1>1
  <2>2. f[n + 1] = ApplyRaw(f[n], e) /\ f[n] \in Indicators /\ e \in Event
    BY <1>1, <1>2, <2>1
  <2>3. e = Started(s) \/ (s \in f[n].busy /\ ~Clears(e, s))
    <3>1. CASE e = Lost
      BY <2>2, <3>1 DEF Lost, ApplyRaw, Indicators
    <3>2. CASE e = Restored
      BY <2>2, <3>2 DEF Restored, Lost, Ended, Clears, ApplyRaw, Indicators
    <3>3. CASE e \in [type: {"started"}, session: Sessions]
      BY <2>2, <3>3 DEF Started, Lost, Ended, Clears, ApplyRaw, Indicators
    <3>4. CASE e \in [type: {"ended"}, session: Sessions]
      BY <2>2, <3>4 DEF Started, Lost, Ended, Clears, ApplyRaw, Indicators
    <3>5. QED
      BY <2>2, <3>1, <3>2, <3>3, <3>4 DEF Event
  <2> HIDE DEF e
  <2>4. CASE e = Started(s)
    <3>1. \A j \in 1..n + 1 : ~(n + 1 < j)
      BY <2>1
    <3>2. Starts(n + 1)
      BY <2>1, <2>4, <3>1 DEF e
    <3>3. QED
      BY <3>2
  <2>5. CASE s \in f[n].busy /\ ~Clears(e, s)
    <3>1. Starts(n) \/ Kept(n)
      BY <2>1, <2>5
    <3>2. \A j \in 1..n + 1 : j \in 1..n \/ (j = n + 1 /\ q[j] = e)
      BY <2>1 DEF e
    <3>3. 1..n \subseteq 1..n + 1
      BY <2>1
    <3>4. Starts(n) => Starts(n + 1)
      BY <2>5, <3>2, <3>3
    <3>5. Kept(n) => Kept(n + 1)
      BY <2>5, <3>2
    <3>6. QED
      BY <3>1, <3>4, <3>5
  <2>6. QED
    BY <2>3, <2>4, <2>5
<1>5. L \in T
  <2> HIDE DEF T
  <2>1. T \in SUBSET Nat
    BY DEF T
  <2>2. T = Nat
    BY <1>3, <1>4, <2>1, Induction
  <2>3. QED
    BY <1>1, <2>2
<1>6. QED
  BY <1>1, <1>2, <1>5 DEF StartsLast, Cleared

\* Of two queues, the second one has the last word.
LEMMA ConcatQueues ==
  ASSUME NEW q \in Seq(Event), NEW r \in Seq(Event), NEW s
  PROVE  /\ q \o r \in Seq(Event)
         /\ Cleared(q \o r, s) <=> Cleared(q, s) \/ Cleared(r, s)
         /\ StartsLast(q \o r, s) <=> StartsLast(r, s) \/ (StartsLast(q, s) /\ ~Cleared(r, s))
<1> DEFINE m == Len(q)
           n == Len(r)
           c == q \o r
<1>1. /\ m \in Nat /\ n \in Nat /\ c \in Seq(Event)
      /\ DOMAIN q = 1..m /\ DOMAIN r = 1..n /\ DOMAIN c = 1..m + n
      /\ \A i \in 1..m : c[i] = q[i]
      /\ \A i \in 1..n : c[m + i] = r[i]
  OBVIOUS
<1> HIDE DEF m, n, c
<1>2. \A i \in 1..m + n : i \in 1..m \/ (i - m \in 1..n /\ i = m + (i - m))
  BY <1>1
<1>3. /\ \A i \in 1..m : i \in 1..m + n
      /\ \A i \in 1..n : m + i \in 1..m + n
      /\ \A i \in 1..m, j \in 1..n : i < m + j
      /\ \A i, j \in 1..n : i < j <=> m + i < m + j
  BY <1>1
<1>4. Cleared(c, s) <=> Cleared(q, s) \/ Cleared(r, s)
  <2>1. Cleared(q, s) \/ Cleared(r, s) => Cleared(c, s)
    BY <1>1, <1>3 DEF Cleared
  <2>2. Cleared(c, s) => Cleared(q, s) \/ Cleared(r, s)
    <3> SUFFICES ASSUME NEW i \in 1..m + n, Clears(c[i], s)
                 PROVE  Cleared(q, s) \/ Cleared(r, s)
      BY <1>1 DEF Cleared
    <3>1. CASE i \in 1..m
      BY <1>1, <3>1 DEF Cleared
    <3>2. CASE i - m \in 1..n /\ i = m + (i - m)
      <4>1. c[i] = r[i - m]
        BY <1>1, <3>2
      <4>2. QED
        BY <1>1, <3>2, <4>1 DEF Cleared
    <3>3. QED
      BY <1>2, <3>1, <3>2
  <2>3. QED
    BY <2>1, <2>2
<1>5. StartsLast(r, s) => StartsLast(c, s)
  <2> SUFFICES ASSUME NEW i \in 1..n, r[i] = Started(s), \A j \in 1..n : i < j => ~Clears(r[j], s)
               PROVE  StartsLast(c, s)
    BY <1>1 DEF StartsLast
  <2>1. c[m + i] = Started(s) /\ m + i \in 1..m + n
    BY <1>1, <1>3
  <2>2. ASSUME NEW j \in 1..m + n, m + i < j PROVE ~Clears(c[j], s)
    <3>1. j - m \in 1..n /\ i < j - m /\ j = m + (j - m)
      BY <1>1, <2>2
    <3>2. c[j] = r[j - m]
      BY <1>1, <3>1
    <3>3. QED
      BY <3>1, <3>2
  <2>3. QED
    BY <1>1, <2>1, <2>2 DEF StartsLast
<1>6. StartsLast(q, s) /\ ~Cleared(r, s) => StartsLast(c, s)
  <2> SUFFICES ASSUME ~Cleared(r, s),
                      NEW i \in 1..m, q[i] = Started(s), \A j \in 1..m : i < j => ~Clears(q[j], s)
               PROVE  StartsLast(c, s)
    BY <1>1 DEF StartsLast
  <2>1. c[i] = Started(s) /\ i \in 1..m + n
    BY <1>1, <1>3
  <2>2. ASSUME NEW j \in 1..m + n, i < j PROVE ~Clears(c[j], s)
    BY <1>1, <1>2, <2>2 DEF Cleared
  <2>3. QED
    BY <1>1, <2>1, <2>2 DEF StartsLast
<1>7. StartsLast(c, s) => StartsLast(r, s) \/ (StartsLast(q, s) /\ ~Cleared(r, s))
  <2> SUFFICES ASSUME NEW i \in 1..m + n, c[i] = Started(s),
                      \A j \in 1..m + n : i < j => ~Clears(c[j], s)
               PROVE  StartsLast(r, s) \/ (StartsLast(q, s) /\ ~Cleared(r, s))
    BY <1>1 DEF StartsLast
  <2>1. CASE i \in 1..m
    <3>1. q[i] = Started(s) /\ \A j \in 1..m : i < j => ~Clears(q[j], s)
      BY <1>1, <1>3, <2>1
    <3>2. \A j \in 1..n : ~Clears(r[j], s)
      BY <1>1, <1>3, <2>1
    <3>3. QED
      BY <1>1, <2>1, <3>1, <3>2 DEF StartsLast, Cleared
  <2>2. CASE i - m \in 1..n /\ i = m + (i - m)
    <3>1. r[i - m] = Started(s)
      BY <1>1, <2>2
    <3>2. ASSUME NEW j \in 1..n, i - m < j PROVE ~Clears(r[j], s)
      <4>1. m + j \in 1..m + n /\ i < m + j /\ c[m + j] = r[j]
        BY <1>1, <1>3, <2>2, <3>2
      <4>2. QED
        BY <4>1
    <3>3. QED
      BY <1>1, <2>2, <3>1, <3>2 DEF StartsLast
  <2>3. QED
    BY <1>2, <2>1, <2>2
<1>8. QED
  BY <1>1, <1>4, <1>5, <1>6, <1>7 DEF c

LEMMA OneEvent ==
  ASSUME NEW e \in Event, NEW s
  PROVE  /\ <<e>> \in Seq(Event)
         /\ Cleared(<<e>>, s) <=> Clears(e, s)
         /\ StartsLast(<<e>>, s) <=> e = Started(s)
<1>1. <<e>> \in Seq(Event) /\ DOMAIN <<e>> = 1..1 /\ <<e>>[1] = e
  OBVIOUS
<1>2. \A i, j \in 1..1 : i = 1 /\ ~(i < j)
  OBVIOUS
<1>3. QED
  BY <1>1, <1>2 DEF Cleared, StartsLast

LEMMA NoEvent ==
  ASSUME NEW s
  PROVE  <<>> \in Seq(Event) /\ ~Cleared(<<>>, s) /\ ~StartsLast(<<>>, s)
BY DEF Cleared, StartsLast

LEMMA AppendEvent ==
  ASSUME NEW q \in Seq(Event), NEW e \in Event, NEW s
  PROVE  /\ Append(q, e) \in Seq(Event)
         /\ Cleared(Append(q, e), s) <=> Cleared(q, s) \/ Clears(e, s)
         /\ StartsLast(Append(q, e), s) <=> e = Started(s) \/ (StartsLast(q, s) /\ ~Clears(e, s))
<1> DEFINE r == <<e>>
<1>1. Append(q, e) = q \o r
  OBVIOUS
<1>2. /\ r \in Seq(Event)
      /\ Cleared(r, s) <=> Clears(e, s)
      /\ StartsLast(r, s) <=> e = Started(s)
  BY OneEvent
<1> HIDE DEF r
<1>3. QED
  BY <1>1, <1>2, ConcatQueues

LEMMA TailEvent ==
  ASSUME NEW q \in Seq(Event), q # <<>>, NEW s
  PROVE  /\ Head(q) \in Event /\ Tail(q) \in Seq(Event)
         /\ Cleared(q, s) <=> Clears(Head(q), s) \/ Cleared(Tail(q), s)
         /\ StartsLast(q, s) <=> StartsLast(Tail(q), s) \/ (Head(q) = Started(s) /\ ~Cleared(Tail(q), s))
<1>1. Head(q) \in Event /\ Tail(q) \in Seq(Event) /\ q = <<Head(q)>> \o Tail(q)
  OBVIOUS
<1>2. QED
  BY <1>1, OneEvent, ConcatQueues

-------------------------------------------------------------------------------
(* The inductive invariant *)

TypeInv ==
  /\ channel \in Seq(Event) /\ wire \in Seq(Event)
  /\ worker \in {"open", "read"} /\ stream \in BOOLEAN
  /\ active \in Sessions /\ busy \subseteq Sessions /\ gap \in BOOLEAN

\* Between two streams the worker has handed on everything of the first.
StreamInv == worker = "open" => ~stream /\ wire = <<>>

\* Whom the events on their way will leave shown as working is at work, or the loss of the
\* stream is still to be announced.
StartInv ==
  \A s : StartsLast(Coming, s) => worker = "read" /\ (s \in running \/ ~stream)

BusyInv ==
  \A s \in busy : ~Cleared(Coming, s) => worker = "read" /\ (s \in queued \cup running \/ ~stream)

Inv == TypeInv /\ StreamInv /\ StartInv /\ BusyInv

LEMMA InitInv == Init => Inv
<1> SUFFICES ASSUME Init PROVE Inv
  OBVIOUS
<1>1. Coming = <<>>
  BY DEF Init, Coming
<1>2. QED
  BY <1>1, NoEvent DEF Init, Inv, TypeInv, StreamInv, StartInv, BusyInv

\* What the server writes comes last.
LEMMA Written ==
  ASSUME TypeInv, NEW e \in Event, wire' = Append(wire, e), channel' = channel
  PROVE  /\ wire' \in Seq(Event)
         /\ \A s : Cleared(Coming', s) <=> Cleared(Coming, s) \/ Clears(e, s)
         /\ \A s : StartsLast(Coming', s) <=>
                    e = Started(s) \/ (StartsLast(Coming, s) /\ ~Clears(e, s))
<1>1. Coming \in Seq(Event) /\ Coming' = Append(Coming, e) /\ wire' \in Seq(Event)
  BY DEF TypeInv, Coming
<1>2. QED
  BY <1>1, AppendEvent

\* No event is another.
LEMMA Distinct ==
  ASSUME NEW s, NEW r
  PROVE  /\ Started(s) # Lost /\ Started(s) # Restored /\ Ended(s) # Restored /\ Restored # Lost
         /\ Started(s) # Ended(r) /\ Ended(s) # Lost
         /\ Started(s) = Started(r) => s = r
         /\ Ended(s) = Ended(r) => s = r
<1>1. /\ Started(s).type = "started" /\ Started(s).session = s /\ Ended(s).type = "ended"
      /\ Ended(s).session = s /\ Lost.type = "lost" /\ Restored.type = "restored"
      /\ Started(r).session = r /\ Ended(r).session = r /\ Ended(r).type = "ended"
  BY DEF Started, Ended, Lost, Restored
<1>2. QED
  BY <1>1

LEMMA ServerKeepsInv ==
  ASSUME Inv,
         \E s \in Sessions : PromptElsewhere(s) \/ Begin(s) \/ Finish(s) \/ NextStep(s)
  PROVE  Inv'
<1>1. ASSUME NEW s \in Sessions, PromptElsewhere(s) PROVE Inv'
  BY <1>1 DEF PromptElsewhere, client, Inv, TypeInv, StreamInv, StartInv, BusyInv, Coming
<1>2. ASSUME NEW s \in Sessions, Begin(s) PROVE Inv'
  <2>1. /\ queued' = queued \ {s} /\ running' = running \cup {s}
        /\ UNCHANGED <<stream, worker, channel, active, busy, gap>>
    BY <1>2 DEF Begin, client
  <2>2. CASE stream
    <3>1. wire' = Append(wire, Started(s)) /\ Started(s) \in Event
      BY <1>2, <2>2 DEF Begin, Write, Started, Event
    <3>2. \A r : ~Clears(Started(s), r)
      BY Distinct DEF Clears
    <3>3. /\ wire' \in Seq(Event)
          /\ \A r : Cleared(Coming', r) <=> Cleared(Coming, r)
          /\ \A r : StartsLast(Coming', r) <=> r = s \/ StartsLast(Coming, r)
      BY <2>1, <3>1, <3>2, Written, Distinct DEF Inv
    <3>4. QED
      BY <2>1, <2>2, <3>3 DEF Inv, TypeInv, StreamInv, StartInv, BusyInv
  <2>3. CASE ~stream
    <3>1. wire' = wire
      BY <1>2, <2>3 DEF Begin, Write
    <3>2. QED
      BY <2>1, <2>3, <3>1 DEF Inv, TypeInv, StreamInv, StartInv, BusyInv, Coming
  <2>4. QED
    BY <2>2, <2>3
<1>3. ASSUME NEW s \in Sessions, Finish(s) PROVE Inv'
  <2>1. /\ queued' = queued /\ running' = running \ {s}
        /\ UNCHANGED <<stream, worker, channel, active, busy, gap>>
    BY <1>3 DEF Finish, client
  <2>2. CASE stream
    <3>1. wire' = Append(wire, Ended(s)) /\ Ended(s) \in Event
      BY <1>3, <2>2 DEF Finish, Write, Ended, Event
    <3>2. \A r : Clears(Ended(s), r) <=> r = s
      BY Distinct DEF Clears
    <3>3. /\ wire' \in Seq(Event)
          /\ \A r : Cleared(Coming', r) <=> Cleared(Coming, r) \/ r = s
          /\ \A r : StartsLast(Coming', r) <=> StartsLast(Coming, r) /\ r # s
      BY <2>1, <3>1, <3>2, Written, Distinct DEF Inv
    <3>4. QED
      BY <2>1, <2>2, <3>3 DEF Inv, TypeInv, StreamInv, StartInv, BusyInv
  <2>3. CASE ~stream
    <3>1. wire' = wire
      BY <1>3, <2>3 DEF Finish, Write
    <3>2. QED
      BY <2>1, <2>3, <3>1 DEF Inv, TypeInv, StreamInv, StartInv, BusyInv, Coming
  <2>4. QED
    BY <2>2, <2>3
<1>4. ASSUME NEW s \in Sessions, NextStep(s) PROVE Inv'
  <2>1. /\ s \in running /\ stream /\ wire' = wire \o <<Ended(s), Started(s)>>
        /\ UNCHANGED <<queued, running, stream, worker, channel, active, busy, gap>>
    BY <1>4 DEF NextStep, client
  <2>2. Coming \in Seq(Event) /\ wire \in Seq(Event) /\ Ended(s) \in Event /\ Started(s) \in Event
    BY DEF Coming, Inv, TypeInv, Started, Ended, Event
  <2>3. wire' \in Seq(Event) /\ Coming' = Append(Append(Coming, Ended(s)), Started(s))
    <3>1. wire \o <<Ended(s), Started(s)>> = Append(Append(wire, Ended(s)), Started(s))
      BY <2>2
    <3>2. Append(wire, Ended(s)) \in Seq(Event) /\ wire' \in Seq(Event)
      BY <2>1, <2>2, <3>1
    <3>3. channel \in Seq(Event) /\ channel' = channel
      BY <2>1 DEF Inv, TypeInv
    <3>4. channel \o Append(Append(wire, Ended(s)), Started(s))
            = Append(channel \o Append(wire, Ended(s)), Started(s))
      BY <2>2, <3>2, <3>3
    <3>5. channel \o Append(wire, Ended(s)) = Append(Coming, Ended(s))
      BY <2>2, <3>3 DEF Coming
    <3>6. QED
      BY <2>1, <3>1, <3>2, <3>3, <3>4, <3>5 DEF Coming
  <2>4. Append(Coming, Ended(s)) \in Seq(Event)
    BY <2>2
  <2>5. \A r : ~Clears(Started(s), r) /\ (Clears(Ended(s), r) <=> r = s)
    BY Distinct DEF Clears
  <2>6. /\ \A r : Cleared(Coming', r) <=> Cleared(Coming, r) \/ r = s
        /\ \A r : StartsLast(Coming', r) <=> r = s \/ StartsLast(Coming, r)
    <3>1. \A r : /\ Cleared(Append(Coming, Ended(s)), r) <=> Cleared(Coming, r) \/ r = s
                /\ StartsLast(Append(Coming, Ended(s)), r) <=> StartsLast(Coming, r) /\ r # s
      BY <2>2, <2>5, AppendEvent, Distinct
    <3>2. QED
      BY <2>2, <2>3, <2>4, <2>5, <3>1, AppendEvent, Distinct
  <2>7. QED
    BY <2>1, <2>3, <2>6 DEF Inv, TypeInv, StreamInv, StartInv, BusyInv
<1>5. QED
  BY <1>1, <1>2, <1>3, <1>4

LEMMA DropKeepsInv ==
  ASSUME Inv, Drop
  PROVE  Inv'
<1>1. PICK n \in 0..Len(wire) : wire' = SubSeq(wire, 1, n)
  BY DEF Drop
<1>2. /\ stream /\ stream' = FALSE
      /\ UNCHANGED <<queued, running, worker, channel, active, busy, gap>>
  BY DEF Drop, client
<1>3. wire' \in Seq(Event)
  BY <1>1 DEF Inv, TypeInv
<1>4. QED
  BY <1>2, <1>3 DEF Inv, TypeInv, StreamInv, StartInv, BusyInv

LEMMA WorkerKeepsInv ==
  ASSUME Inv, Open \/ Forward \/ EndOfStream
  PROVE  Inv'
<1>1. channel \in Seq(Event) /\ wire \in Seq(Event) /\ Restored \in Event /\ Lost \in Event
  BY DEF Inv, TypeInv, Event
<1>2. wire = <<>> => Coming = channel
  BY <1>1 DEF Coming
<1>3. wire' = <<>> /\ channel' \in Seq(Event) => Coming' = channel'
  BY DEF Coming
<1>4. ASSUME Open PROVE Inv'
  <2>1. /\ worker = "open" /\ worker' = "read" /\ stream' = TRUE /\ wire' = <<>> /\ wire = <<>>
        /\ channel' = Append(channel, Restored) \/ channel' = channel
        /\ UNCHANGED <<queued, running, active, busy, gap>>
    BY <1>4 DEF Open, client, Inv, StreamInv
  <2>2. \A r : ~Clears(Restored, r) /\ Restored # Started(r)
    BY Distinct DEF Clears
  <2>3. /\ channel' \in Seq(Event)
        /\ \A r : Cleared(channel', r) <=> Cleared(channel, r)
        /\ \A r : StartsLast(channel', r) <=> StartsLast(channel, r)
    <3>1. CASE channel' = channel
      BY <1>1, <3>1
    <3>2. CASE channel' = Append(channel, Restored)
      <4>1. channel' \in Seq(Event)
        BY <1>1, <3>2
      <4>2. ASSUME NEW r
            PROVE  /\ Cleared(channel', r) <=> Cleared(channel, r)
                   /\ StartsLast(channel', r) <=> StartsLast(channel, r)
        <5>1. /\ Cleared(Append(channel, Restored), r) <=> Cleared(channel, r) \/ Clears(Restored, r)
              /\ StartsLast(Append(channel, Restored), r)
                   <=> Restored = Started(r) \/ (StartsLast(channel, r) /\ ~Clears(Restored, r))
          BY <1>1, AppendEvent
        <5>2. QED
          BY <2>2, <3>2, <5>1
      <4>3. QED
        BY <4>1, <4>2
    <3>3. QED
      BY <2>1, <3>1, <3>2
  <2>4. /\ \A r : Cleared(Coming', r) <=> Cleared(Coming, r)
        /\ \A r : StartsLast(Coming', r) <=> StartsLast(Coming, r)
    BY <1>2, <1>3, <2>1, <2>3
  <2>5. QED
    BY <2>1, <2>3, <2>4 DEF Inv, TypeInv, StreamInv, StartInv, BusyInv
<1>5. ASSUME Forward PROVE Inv'
  <2>1. /\ worker = "read" /\ wire # <<>>
        /\ channel' = Append(channel, Head(wire)) /\ wire' = Tail(wire)
        /\ UNCHANGED <<queued, running, stream, worker, active, busy, gap>>
    BY <1>5 DEF Forward, client
  <2>2. channel' \in Seq(Event) /\ wire' \in Seq(Event)
    BY <1>1, <2>1
  <2>3. Coming' = Coming
    <3> DEFINE e == Head(wire)
               t == Tail(wire)
    <3>1. e \in Event /\ t \in Seq(Event) /\ wire = <<e>> \o t
      BY <1>1, <2>1
    <3> HIDE DEF e, t
    <3>2. Append(channel, e) \o t = channel \o (<<e>> \o t)
      BY <1>1, <3>1
    <3>3. QED
      BY <2>1, <3>1, <3>2 DEF Coming, e, t
  <2>4. QED
    BY <2>1, <2>2, <2>3 DEF Inv, TypeInv, StreamInv, StartInv, BusyInv
<1>6. ASSUME EndOfStream PROVE Inv'
  <2>1. /\ worker = "read" /\ worker' = "open" /\ ~stream /\ wire = <<>> /\ wire' = wire
        /\ channel' = Append(channel, Lost)
        /\ UNCHANGED <<queued, running, stream, active, busy, gap>>
    BY <1>6 DEF EndOfStream, client, server
  <2>2. \A r : Clears(Lost, r) /\ Lost # Started(r)
    BY Distinct DEF Clears
  <2>3. /\ channel' \in Seq(Event)
        /\ \A r : Cleared(channel', r) /\ ~StartsLast(channel', r)
    BY <1>1, <2>1, <2>2, AppendEvent
  <2>4. Coming' = channel'
    BY <1>3, <2>1, <2>3
  <2>5. QED
    BY <1>1, <2>1, <2>3, <2>4 DEF Inv, TypeInv, StreamInv, StartInv, BusyInv
<1>7. QED
  BY <1>4, <1>5, <1>6

\* What is applied is not on its way any more; what it will have done is done.
LEMMA IngestKeepsInv ==
  ASSUME Inv, Ingest
  PROVE  Inv'
<1> DEFINE st == [busy |-> busy, gap |-> gap]
           after == Applied(st, channel)
<1>1. /\ busy' = after.busy /\ gap' = after.gap /\ channel' = <<>>
      /\ UNCHANGED <<queued, running, stream, wire, worker, active>>
  BY DEF Ingest, server
<1>2. /\ channel \in Seq(Event) /\ wire \in Seq(Event) /\ st \in Indicators /\ st.busy = busy
  BY DEF Inv, TypeInv, Indicators
<1>3. after \in Indicators
  <2>1. PICK f \in [0..Len(channel) -> Indicators] : after = f[Len(channel)]
    BY <1>2, AppliedStepwise
  <2>2. QED
    BY <1>2, <2>1
<1>4. \A s \in busy' : StartsLast(channel, s) \/ (s \in busy /\ ~Cleared(channel, s))
  <2> HIDE DEF st
  <2>1. QED
    BY <1>1, <1>2, AppliedBusy
<1> HIDE DEF after
<1>5. Coming' = wire
  BY <1>1, <1>2 DEF Coming
<1>6. \A s : /\ Cleared(Coming, s) <=> Cleared(channel, s) \/ Cleared(wire, s)
            /\ StartsLast(Coming, s) <=>
                 StartsLast(wire, s) \/ (StartsLast(channel, s) /\ ~Cleared(wire, s))
  BY <1>2, ConcatQueues DEF Coming
<1>7. TypeInv' /\ StreamInv'
  BY <1>1, <1>3, NoEvent DEF Inv, TypeInv, StreamInv, Indicators
<1>8. StartInv'
  BY <1>1, <1>5, <1>6 DEF Inv, StartInv
<1>9. BusyInv'
  <2> SUFFICES ASSUME NEW s \in busy', ~Cleared(Coming', s)
               PROVE  worker' = "read" /\ (s \in queued' \cup running' \/ ~stream')
    BY DEF BusyInv
  <2>1. ~Cleared(wire, s)
    BY <1>5
  <2>2. StartsLast(Coming, s) \/ (s \in busy /\ ~Cleared(Coming, s))
    <3>1. StartsLast(channel, s) \/ (s \in busy /\ ~Cleared(channel, s))
      BY <1>4, Zenon
    <3>2. /\ Cleared(Coming, s) <=> Cleared(channel, s) \/ Cleared(wire, s)
          /\ StartsLast(Coming, s) <=>
               StartsLast(wire, s) \/ (StartsLast(channel, s) /\ ~Cleared(wire, s))
      BY <1>2, ConcatQueues DEF Coming
    <3>3. QED
      BY <2>1, <3>1, <3>2, Zenon
  <2>3. worker = "read" /\ (s \in queued \cup running \/ ~stream)
    BY <2>2 DEF Inv, StartInv, BusyInv
  <2>4. QED
    BY <1>1, <2>3
<1>10. QED
  BY <1>7, <1>8, <1>9 DEF Inv

\* A prompt is only sent while the worker has a stream, or will announce its end.
LEMMA UserKeepsInv ==
  ASSUME ~PromptsInGap, Inv, Submit \/ Cancel \/ \E s \in Sessions : Select(s)
  PROVE  Inv'
<1>1. ASSUME Submit PROVE Inv'
  <2>1. /\ worker = "read" /\ queued' = queued \cup {active} /\ busy' = busy \cup {active}
        /\ UNCHANGED <<running, stream, wire, worker, channel, active, gap>>
    BY <1>1 DEF Submit
  <2>2. QED
    BY <2>1 DEF Inv, TypeInv, StreamInv, StartInv, BusyInv, Coming
<1>2. ASSUME NEW s \in Sessions, Select(s) PROVE Inv'
  BY <1>2 DEF Select, server, Inv, TypeInv, StreamInv, StartInv, BusyInv, Coming
<1>3. ASSUME Cancel PROVE Inv'
  <2>1. /\ busy' = busy \ {active} /\ active \in Sessions
        /\ queued \ {active} \subseteq queued' /\ running \ {active} \subseteq running'
        /\ UNCHANGED <<stream, worker, channel, active, gap>>
    BY <1>3 DEF Cancel, Inv, TypeInv
  <2>2. CASE UNCHANGED <<running, wire>>
    BY <2>1, <2>2 DEF Inv, TypeInv, StreamInv, StartInv, BusyInv, Coming
  <2>3. CASE running' = running \ {active} /\ Write(Ended(active))
    <3>1. CASE stream
      <4>1. wire' = Append(wire, Ended(active)) /\ Ended(active) \in Event
        BY <2>1, <2>3, <3>1 DEF Write, Ended, Event
      <4>2. \A r : Clears(Ended(active), r) <=> r = active
        BY Distinct DEF Clears
      <4>3. /\ wire' \in Seq(Event)
            /\ \A r : Cleared(Coming', r) <=> Cleared(Coming, r) \/ r = active
            /\ \A r : StartsLast(Coming', r) <=> StartsLast(Coming, r) /\ r # active
        BY <2>1, <4>1, <4>2, Written, Distinct DEF Inv
      <4>4. QED
        BY <2>1, <2>3, <3>1, <4>3 DEF Inv, TypeInv, StreamInv, StartInv, BusyInv
    <3>2. CASE ~stream
      <4>1. wire' = wire
        BY <2>3, <3>2 DEF Write
      <4>2. QED
        BY <2>1, <3>2, <4>1 DEF Inv, TypeInv, StreamInv, StartInv, BusyInv, Coming
    <3>3. QED
      BY <3>1, <3>2
  <2>4. QED
    BY <1>3, <2>2, <2>3 DEF Cancel
<1>4. QED
  BY <1>1, <1>2, <1>3

LEMMA InvKept == ~PromptsInGap /\ Inv /\ [Next]_vars => Inv'
<1>1. Inv /\ UNCHANGED vars => Inv'
  BY DEF vars, server, client, Inv, TypeInv, StreamInv, StartInv, BusyInv, Coming
<1>2. QED
  BY <1>1, ServerKeepsInv, DropKeepsInv, WorkerKeepsInv, IngestKeepsInv, UserKeepsInv DEF Next

LEMMA InvImplies == Inv => BusyIsJustified
<1> SUFFICES ASSUME Inv, NEW s \in busy, Cleared(Coming, s)
             PROVE  Contains(Coming, Ended(s)) \/ Contains(Coming, Lost)
  BY DEF Inv, BusyInv, BusyIsJustified, LossPending
<1>1. Coming \in Seq(Event)
  BY DEF Inv, TypeInv, Coming
<1>2. QED
  BY <1>1 DEF Cleared, Clears, Contains

-------------------------------------------------------------------------------

\* If nothing is prompted while the worker has no stream, a session shown as working has
\* work at the server, or what will clear its indicator is on its way or about to be
\* announced: for any number of sessions, turns and losses (ingest, apply_raw, SseWorker).
THEOREM BusyIsJustifiedHolds ==
  ASSUME ~PromptsInGap
  PROVE  Spec => []BusyIsJustified
<1>1. Inv /\ [Next]_vars => Inv'
  BY InvKept
<1>2. QED
  BY <1>1, InitInv, InvImplies, PTL DEF Spec
=============================================================================
