---------------------------- MODULE Proposals_proofs ----------------------------
(***************************************************************************)
(* The queues of Proposals stay free of duplicates, for any number of      *)
(* processes that rewrite them without a lock, and through every fault.    *)
(*                                                                         *)
(* What makes DistinctProposals inductive: the copy a process is about to  *)
(* save is free of duplicates just as the file is, and no id in either is  *)
(* newer than lastId, so that a pushed proposal gets an id of its own.     *)
(*                                                                         *)
(* The other theorems are about one process: two of them restore what the  *)
(* other has removed, because the queues have no lock.  What makes them    *)
(* inductive is what the copy in hand has to do with the file it replaces: *)
(* nothing dropped is missing from its hashes, nothing it adds was dropped *)
(* or forgotten, and what it lacks has expired, made room or was decided.  *)
(***************************************************************************)
EXTENDS Proposals, FiniteSetTheorems, WellFoundedInduction, TLAPS

\* A queue without duplicates, with no id after n.
Distinct(q, n) ==
  /\ \A x \in q : x.id \in 1..n
  /\ \A x, y \in q : x # y => x.id # y.id /\ IdentityOf(x) # IdentityOf(y)

IsCopy(c) ==
  c = [queue |-> c.queue, discarded |-> c.discarded, dirty |-> c.dirty,
       refused |-> c.refused, evicted |-> c.evicted]

\* The loops over scopes are only entered with a scope left to do.
LoopInv ==
  /\ pc = [p \in Procs |-> pc[p]]
  /\ drafts \in [Procs -> SUBSET (Scopes \X Identity)]
  /\ rest \in [Procs -> SUBSET Scopes]
  /\ file \in [Procs -> Scopes]
  /\ \A p \in Procs : /\ pc[p] = "admit" => drafts[p] # {}
                      /\ pc[p] = "clear" => rest[p] # {}

CopyInv ==
  /\ mine = [p \in Procs |-> mine[p]]
  /\ \A p \in Procs : IsCopy(mine[p]) /\ Distinct(mine[p].queue, lastId)

QueueInv ==
  /\ lastId \in Nat
  /\ queue = [s \in Scopes |-> queue[s]]
  /\ \A s \in Scopes : Distinct(queue[s], lastId)

Inv == LoopInv /\ CopyInv /\ QueueInv

-------------------------------------------------------------------------------
(* The operations on a queue *)

\* A part of a queue without duplicates has none, and ids only grow.
LEMMA DistinctPart ==
  ASSUME NEW q, NEW n \in Nat, NEW r \in SUBSET q, NEW k \in Nat, n <= k, Distinct(q, n)
  PROVE  Distinct(r, k)
BY DEF Distinct

\* A push of a statement that is not in the queue, under the next id.
LEMMA PushDistinct ==
  ASSUME NEW c, IsCopy(c), NEW n \in Nat, Distinct(c.queue, n),
         NEW i \in Identity,
         NEW x, x = [id |-> n + 1, kind |-> i.kind, text |-> i.text]
  PROVE  /\ IsCopy(Push(c, x))
         /\ Admissible(c, i) => Distinct(Push(c, x).queue, n + 1)
         /\ ~Admissible(c, i) => Push(c, x) = c
<1>1. IdentityOf(x) = i
  BY DEF IdentityOf, Identity
<1>2. CASE ~Admissible(c, i)
  BY <1>1, <1>2 DEF Push
<1>3. CASE Admissible(c, i)
  <2>1. Push(c, x) = [c EXCEPT !.queue = Newest(c.queue \cup {x}), !.dirty = TRUE]
    BY <1>1, <1>3 DEF Push
  <2>2. IsCopy(Push(c, x)) /\ Push(c, x).queue = Newest(c.queue \cup {x})
    BY <2>1 DEF IsCopy
  <2>3. \A y \in c.queue : y.id \in 1..n /\ y.id # x.id /\ IdentityOf(y) # IdentityOf(x)
    BY <1>1, <1>3 DEF Distinct, Admissible, Identities
  <2>4. Distinct(c.queue \cup {x}, n + 1)
    BY <2>3 DEF Distinct
  <2>5. Newest(c.queue \cup {x}) \in SUBSET (c.queue \cup {x})
    BY DEF Newest
  <2>6. Distinct(Newest(c.queue \cup {x}), n + 1)
    BY <2>4, <2>5 DEF Distinct
  <2>7. Distinct(Push(c, x).queue, n + 1)
    BY <2>2, <2>6, Zenon
  <2>8. QED
    BY <1>3, <2>2, <2>7, Zenon
<1>4. QED
  BY <1>2, <1>3

\* Opening, removing a proposal, recording a hash and clearing only take away.
LEMMA CopyOperations ==
  /\ \A s \in Scopes : IsCopy(Open(s)) /\ Open(s).queue \in SUBSET queue[s]
  /\ \A q, d : IsCopy(Copy(q, d)) /\ Copy(q, d).queue = q
  /\ \A c, x : IsCopy(c) => /\ IsCopy(Without(c, x))
                            /\ Without(c, x).queue \in SUBSET c.queue
  /\ \A c, i : IsCopy(DiscardHash(c, i)) /\ DiscardHash(c, i).queue = c.queue
  /\ \A c : IsCopy(Cleared(c)) /\ Cleared(c).queue = {}
<1>1. \A q, d : IsCopy(Copy(q, d)) /\ Copy(q, d).queue = q
  BY DEF IsCopy, Copy
<1>2. \A s \in Scopes : IsCopy(Open(s)) /\ Open(s).queue \in SUBSET queue[s]
  BY <1>1 DEF Open
<1>3. \A c, x : IsCopy(c) => IsCopy(Without(c, x)) /\ Without(c, x).queue \in SUBSET c.queue
  BY DEF IsCopy, Without
<1>4. \A c, i : IsCopy(DiscardHash(c, i)) /\ DiscardHash(c, i).queue = c.queue
  BY DEF IsCopy, DiscardHash
<1>5. \A c : IsCopy(Cleared(c)) /\ Cleared(c).queue = {}
  BY DEF IsCopy, Cleared
<1>6. QED
  BY <1>1, <1>2, <1>3, <1>4, <1>5

\* The scope a loop takes next is one of those it has left.
LEMMA FirstIsScope ==
  ASSUME NEW scopes \in SUBSET Scopes, scopes # {}
  PROVE  First(scopes) \in scopes
BY ScopesAssumption DEF First

-------------------------------------------------------------------------------
(* The loops *)

\* Every way out of a command resets the loops.
LEMMA ReturnLoop ==
  ASSUME LoopInv, NEW p \in Procs, NEW a, Return(p, a)
  PROVE  LoopInv'
BY ScopesAssumption DEF LoopInv, Return, Goto

LEMMA NextScopeLoop ==
  ASSUME LoopInv, NEW p \in Procs, NEW a, NextScope(p, a)
  PROVE  LoopInv'
<1>1. CASE drafts[p] # {} /\ Goto(p, "admit") /\ UNCHANGED <<drafts, rest, file, mine, pick, into, reply>>
  BY <1>1 DEF LoopInv, Goto
<1>2. CASE rest[p] # {} /\ Goto(p, "clear") /\ UNCHANGED <<drafts, rest, file, mine, pick, into, reply>>
  BY <1>2 DEF LoopInv, Goto
<1>3. CASE Return(p, a)
  BY <1>3, ReturnLoop
<1>4. QED
  BY <1>1, <1>2, <1>3 DEF NextScope

LEMMA LoopStep == LoopInv /\ [Next]_vars => LoopInv'
<1> SUFFICES ASSUME LoopInv, [Next]_vars PROVE LoopInv'
  OBVIOUS
<1> USE DEF LoopInv, Goto, files, store, job
<1>1. ASSUME NEW p \in Procs, Refresh(p) PROVE LoopInv'
  <2>1. \A found, knowsTombs, knowsActive :
          Candidates(found, knowsTombs, knowsActive) \in SUBSET found
    BY DEF Candidates
  <2>2. PICK new \in SUBSET (Scopes \X Identity) :
          new # {} /\ drafts' = [drafts EXCEPT ![p] = new]
    BY <1>1, <2>1 DEF Refresh
  <2>3. pc' = [pc EXCEPT ![p] = "admit"] /\ UNCHANGED <<rest, file>>
    BY <1>1 DEF Refresh
  <2>4. QED
    BY <2>2, <2>3
<1>2. ASSUME NEW p \in Procs, AdmitOpen(p) PROVE LoopInv'
  <2>1. {d[1] : d \in drafts[p]} \in SUBSET Scopes /\ {d[1] : d \in drafts[p]} # {}
    BY <1>2 DEF AdmitOpen
  <2>2. First({d[1] : d \in drafts[p]}) \in Scopes
    BY <2>1, FirstIsScope
  <2>3. QED
    BY <1>2, <2>2 DEF AdmitOpen
<1>3. ASSUME NEW p \in Procs, AdmitPush(p) PROVE LoopInv'
  BY <1>3 DEF AdmitPush
<1>4. ASSUME NEW p \in Procs, AdmitSave(p) PROVE LoopInv'
  <2>1. CASE mine[p].dirty
    BY <1>4, <2>1 DEF AdmitSave
  <2>2. CASE ~mine[p].dirty
    BY <1>4, <2>2, NextScopeLoop DEF AdmitSave
  <2>3. QED
    BY <2>1, <2>2
<1>5. ASSUME NEW p \in Procs, Confirm(p) PROVE LoopInv'
  BY <1>5 DEF Confirm
<1>6. ASSUME NEW p \in Procs, CheckDuplicate(p) \/ Remember(p) \/ RemoveOpen(p)
      PROVE LoopInv'
  BY <1>6 DEF CheckDuplicate, Remember, RemoveOpen
<1>7. ASSUME NEW p \in Procs, Discard(p) PROVE LoopInv'
  BY <1>7 DEF Discard
<1>8. ASSUME NEW p \in Procs, DiscardAll(p) PROVE LoopInv'
  BY <1>8, ScopesAssumption DEF DiscardAll
<1>9. ASSUME NEW p \in Procs, ClearScope(p) PROVE LoopInv'
  <2>1. First(rest[p]) \in Scopes
    BY <1>9, FirstIsScope DEF ClearScope
  <2>2. QED
    BY <1>9, <2>1 DEF ClearScope
<1>10. ASSUME NEW p \in Procs, SaveProposals(p) PROVE LoopInv'
  BY <1>10 DEF SaveProposals
<1>11. ASSUME NEW p \in Procs, SaveDiscarded(p) PROVE LoopInv'
  BY <1>11, NextScopeLoop DEF SaveDiscarded
<1>12. ASSUME NEW p \in Procs, SaveFails(p) \/ CommandFails(p) \/ Crash(p) PROVE LoopInv'
  BY <1>12, ReturnLoop DEF SaveFails, CommandFails, Crash
<1>13. ASSUME NEW p \in Procs, NEW s \in Scopes, NEW i \in Identity,
              RememberCommand(p, s, i) \/ ForgetCommand(p, s, i)
       PROVE LoopInv'
  BY <1>13 DEF RememberCommand, ForgetCommand
<1>14. CASE Age
  BY <1>14 DEF Age
<1>15. CASE UNCHANGED vars
  BY <1>15 DEF vars
<1>16. QED
  BY <1>1, <1>2, <1>3, <1>4, <1>5, <1>6, <1>7, <1>8, <1>9, <1>10, <1>11, <1>12, <1>13,
     <1>14, <1>15 DEF Next

-------------------------------------------------------------------------------
(* The copies and the files *)

\* A step that only replaces the copy of one process by a part of what is known.
LEMMA CopyReplaced ==
  ASSUME CopyInv, QueueInv, NEW p \in Procs, NEW c,
         IsCopy(c), Distinct(c.queue, lastId),
         mine' = [mine EXCEPT ![p] = c], UNCHANGED <<queue, lastId>>
  PROVE  CopyInv' /\ QueueInv'
BY DEF CopyInv, QueueInv

LEMMA ReturnCopy ==
  ASSUME CopyInv, QueueInv, NEW p \in Procs, NEW a, Return(p, a), UNCHANGED <<queue, lastId>>
  PROVE  CopyInv' /\ QueueInv'
<1>1. IsCopy(Copy({}, <<>>)) /\ Copy({}, <<>>).queue = {}
  BY CopyOperations
<1>2. Distinct(Copy({}, <<>>).queue, lastId)
  BY <1>1 DEF Distinct
<1>3. mine' = [mine EXCEPT ![p] = Copy({}, <<>>)]
  BY DEF Return
<1>4. QED
  BY <1>1, <1>2, <1>3, CopyReplaced

LEMMA CopyStep == Inv /\ [Next]_vars => CopyInv' /\ QueueInv'
<1> SUFFICES ASSUME Inv, [Next]_vars PROVE CopyInv' /\ QueueInv'
  OBVIOUS
<1> USE DEF files, store, job
<1>a. LoopInv /\ CopyInv /\ QueueInv
  BY DEF Inv
<1>b. \A s \in Scopes : IsCopy(Open(s)) /\ Distinct(Open(s).queue, lastId)
  BY <1>a, CopyOperations, DistinctPart DEF QueueInv
<1>c. ASSUME UNCHANGED <<queue, lastId, mine>> PROVE CopyInv' /\ QueueInv'
  BY <1>a, <1>c DEF CopyInv, QueueInv
<1>1. ASSUME NEW p \in Procs, Refresh(p) \/ Confirm(p) \/ CheckDuplicate(p) \/ Remember(p)
                               \/ DiscardAll(p)
      PROVE CopyInv' /\ QueueInv'
  BY <1>1, <1>c DEF Refresh, Confirm, CheckDuplicate, Remember, DiscardAll
<1>2. ASSUME NEW p \in Procs, AdmitOpen(p) PROVE CopyInv' /\ QueueInv'
  <2>1. {d[1] : d \in drafts[p]} \in SUBSET Scopes /\ {d[1] : d \in drafts[p]} # {}
    BY <1>2, <1>a DEF AdmitOpen, LoopInv
  <2>2. PICK s \in Scopes : mine' = [mine EXCEPT ![p] = Open(s)]
    BY <1>2, <2>1, FirstIsScope DEF AdmitOpen
  <2>3. UNCHANGED <<queue, lastId>>
    BY <1>2 DEF AdmitOpen
  <2>4. QED
    BY <1>a, <1>b, <2>2, <2>3, CopyReplaced
<1>3. ASSUME NEW p \in Procs, AdmitPush(p) PROVE CopyInv' /\ QueueInv'
  <2>1. PICK d \in drafts[p] :
          /\ mine' = [mine EXCEPT ![p] =
               Push(@, [id |-> lastId + 1, kind |-> d[2].kind, text |-> d[2].text])]
          /\ lastId' = IF Admissible(mine[p], d[2]) THEN lastId + 1 ELSE lastId
    BY <1>3 DEF AdmitPush
  <2> DEFINE c == Push(mine[p], [id |-> lastId + 1, kind |-> d[2].kind, text |-> d[2].text])
  <2>2. d[2] \in Identity
    BY <1>a DEF LoopInv
  <2>3. lastId \in Nat /\ IsCopy(mine[p]) /\ Distinct(mine[p].queue, lastId)
    BY <1>a DEF CopyInv, QueueInv
  <2>4. /\ IsCopy(c)
        /\ Admissible(mine[p], d[2]) => Distinct(c.queue, lastId + 1)
        /\ ~Admissible(mine[p], d[2]) => c = mine[p]
    BY <2>2, <2>3, PushDistinct
  <2>5. IsCopy(c) /\ Distinct(c.queue, lastId') /\ lastId' \in Nat /\ lastId <= lastId'
    BY <2>1, <2>3, <2>4
  <2>6. mine' = [mine EXCEPT ![p] = c]
    BY <2>1
  <2>7. queue' = queue
    BY <1>3 DEF AdmitPush
  <2> HIDE DEF c
  <2>8. \A q \in Procs : IsCopy(mine'[q]) /\ Distinct(mine'[q].queue, lastId')
    <3> SUFFICES ASSUME NEW q \in Procs
                 PROVE  IsCopy(mine'[q]) /\ Distinct(mine'[q].queue, lastId')
      OBVIOUS
    <3>1. CASE q = p
      BY <1>a, <2>5, <2>6, <3>1 DEF CopyInv
    <3>2. CASE q # p
      <4>1. mine'[q] = mine[q] /\ IsCopy(mine[q]) /\ Distinct(mine[q].queue, lastId)
        BY <1>a, <2>6, <3>2 DEF CopyInv
      <4>2. QED
        BY <2>3, <2>5, <4>1, DistinctPart
    <3>3. QED
      BY <3>1, <3>2
  <2>9. \A s \in Scopes : Distinct(queue'[s], lastId')
    BY <1>a, <2>3, <2>5, <2>7, DistinctPart DEF QueueInv
  <2>10. QED
    BY <1>a, <2>5, <2>6, <2>7, <2>8, <2>9 DEF CopyInv, QueueInv
<1>4. ASSUME NEW p \in Procs, AdmitSave(p) PROVE CopyInv' /\ QueueInv'
  BY <1>4, <1>a, <1>c, ReturnCopy DEF AdmitSave, NextScope
<1>5. ASSUME NEW p \in Procs, RemoveOpen(p) PROVE CopyInv' /\ QueueInv'
  <2> DEFINE c == Without(Open(file[p]), pick[p])
  <2>1. file[p] \in Scopes
    BY <1>a DEF LoopInv
  <2>2. IsCopy(c) /\ Distinct(c.queue, lastId)
    <3>1. IsCopy(c) /\ c.queue \in SUBSET Open(file[p]).queue
      BY <1>b, <2>1, CopyOperations
    <3>2. lastId \in Nat /\ Distinct(Open(file[p]).queue, lastId)
      BY <1>a, <1>b, <2>1 DEF QueueInv
    <3>3. QED
      BY <3>1, <3>2, DistinctPart
  <2>3. mine' = [mine EXCEPT ![p] = c] /\ UNCHANGED <<queue, lastId>>
    BY <1>5 DEF RemoveOpen
  <2> HIDE DEF c
  <2>4. QED
    BY <1>a, <2>2, <2>3, CopyReplaced
<1>6. ASSUME NEW p \in Procs, Discard(p) PROVE CopyInv' /\ QueueInv'
  <2>0. PICK s \in Scopes : \E x \in Open(s).queue :
          mine' = [mine EXCEPT ![p] = DiscardHash(Without(Open(s), x), IdentityOf(x))]
    BY <1>6 DEF Discard
  <2>1. PICK x \in Open(s).queue :
          mine' = [mine EXCEPT ![p] = DiscardHash(Without(Open(s), x), IdentityOf(x))]
    BY <2>0
  <2> DEFINE c == DiscardHash(Without(Open(s), x), IdentityOf(x))
  <2>2. IsCopy(Without(Open(s), x)) /\ Distinct(Without(Open(s), x).queue, lastId)
    <3>1. /\ IsCopy(Without(Open(s), x))
          /\ Without(Open(s), x).queue \in SUBSET Open(s).queue
      BY <1>b, CopyOperations
    <3>2. lastId \in Nat /\ Distinct(Open(s).queue, lastId)
      BY <1>a, <1>b DEF QueueInv
    <3>3. QED
      BY <3>1, <3>2, DistinctPart
  <2>3. IsCopy(c) /\ Distinct(c.queue, lastId)
    BY <2>2, CopyOperations
  <2>4. mine' = [mine EXCEPT ![p] = c] /\ UNCHANGED <<queue, lastId>>
    BY <1>6, <2>1 DEF Discard
  <2> HIDE DEF c
  <2>5. QED
    BY <1>a, <2>3, <2>4, CopyReplaced
<1>7. ASSUME NEW p \in Procs, ClearScope(p) PROVE CopyInv' /\ QueueInv'
  <2>1. PICK c : IsCopy(c) /\ c.queue = {} /\ mine' = [mine EXCEPT ![p] = c]
    BY <1>7, CopyOperations DEF ClearScope
  <2>2. Distinct(c.queue, lastId)
    BY <2>1 DEF Distinct
  <2>3. UNCHANGED <<queue, lastId>>
    BY <1>7 DEF ClearScope
  <2>4. QED
    BY <1>a, <2>1, <2>2, <2>3, CopyReplaced
<1>8. ASSUME NEW p \in Procs, SaveProposals(p) PROVE CopyInv' /\ QueueInv'
  <2>1. queue' = [queue EXCEPT ![file[p]] = mine[p].queue] /\ UNCHANGED <<lastId, mine>>
    BY <1>8 DEF SaveProposals
  <2>2. QED
    BY <1>a, <2>1 DEF CopyInv, QueueInv
<1>9. ASSUME NEW p \in Procs, SaveDiscarded(p) PROVE CopyInv' /\ QueueInv'
  BY <1>9, <1>a, <1>c, ReturnCopy DEF SaveDiscarded, NextScope
<1>10. ASSUME NEW p \in Procs, SaveFails(p) \/ CommandFails(p) \/ Crash(p)
       PROVE CopyInv' /\ QueueInv'
  BY <1>10, <1>a, ReturnCopy DEF SaveFails, CommandFails, Crash
<1>11. ASSUME NEW p \in Procs, NEW s \in Scopes, NEW i \in Identity,
              RememberCommand(p, s, i) \/ ForgetCommand(p, s, i)
       PROVE CopyInv' /\ QueueInv'
  BY <1>11, <1>c DEF RememberCommand, ForgetCommand
<1>12. CASE Age
  BY <1>12, <1>c DEF Age
<1>13. CASE UNCHANGED vars
  BY <1>13, <1>c DEF vars
<1>14. QED
  BY <1>1, <1>2, <1>3, <1>4, <1>5, <1>6, <1>7, <1>8, <1>9, <1>10, <1>11, <1>12, <1>13
     DEF Next

-------------------------------------------------------------------------------
LEMMA InvInit == Init => Inv
<1> SUFFICES ASSUME Init PROVE Inv
  OBVIOUS
<1>1. LoopInv
  BY ScopesAssumption DEF Init, LoopInv
<1>2. CopyInv
  BY CopyOperations DEF Init, CopyInv, Distinct
<1>3. QueueInv
  BY DEF Init, QueueInv, Distinct
<1>4. QED
  BY <1>1, <1>2, <1>3 DEF Inv

LEMMA ProposalsInvariant == Spec => []Inv
<1>1. Inv /\ [Next]_vars => Inv'
  BY LoopStep, CopyStep DEF Inv
<1>2. QED
  BY <1>1, InvInit, PTL DEF Spec

\* Whatever two processes lose of each other's changes, and whatever fails, no queue
\* ever holds a statement or an id twice (contains_identity and generate_id).
THEOREM DistinctProposalsHold == Spec => []DistinctProposals
<1>1. Inv => DistinctProposals
  BY DEF Inv, QueueInv, Distinct, DistinctProposals
<1>2. QED
  BY <1>1, ProposalsInvariant, PTL

-------------------------------------------------------------------------------
(* Induction over the natural numbers *)

\* A set of numbers that is not empty has a least element.
LEMMA Least ==
  ASSUME NEW T, T \subseteq Nat, T # {}
  PROVE  \E x \in T : \A y \in T : x <= y
<1> DEFINE R == OpToRel(<, Nat)
<1>1. IsWellFoundedOn(R, Nat)
  BY NatLessThanWellFounded
<1>2. \A x, y \in Nat : y < x => <<y, x>> \in R
  BY DEF OpToRel
<1> HIDE DEF R
<1>3. PICK x \in T : \A y \in T : ~(<<y, x>> \in R)
  BY <1>1, WFMin
<1>4. \A y \in T : x \in Nat /\ y \in Nat /\ ~(y < x)
  BY <1>2, <1>3
<1>5. \A y \in T : x <= y
  BY <1>4
<1>6. QED
  BY <1>3, <1>5

\* A set of numbers that has 0, and the successor of each of its numbers, has them all.
LEMMA Induction ==
  ASSUME NEW T \in SUBSET Nat, 0 \in T, \A n \in T : n + 1 \in T
  PROVE  T = Nat
<1>1. CASE Nat \ T # {}
  <2>1. PICK x \in Nat \ T : \A y \in Nat \ T : x <= y
    BY <1>1, Least
  <2>2. x # 0 /\ x - 1 \in Nat
    BY <2>1
  <2>3. x - 1 \in T
    BY <2>1, <2>2
  <2>4. (x - 1) + 1 = x
    BY <2>1
  <2>5. QED
    BY <2>1, <2>3, <2>4
<1>2. QED
  BY <1>1

\* g has, from 0 to L, what step makes of base when applied once per number.
Iterates(g, S, base, step, L) ==
  /\ g \in [0..L -> S]
  /\ g[0] = base
  /\ \A n \in 1..L : g[n] = step[<<g[n - 1], n>>]

\* A function defined by recursion on a number exists.
LEMMA Recursion ==
  ASSUME NEW S, NEW base \in S, NEW step \in [S \X Nat -> S], NEW L \in Nat
  PROVE  \E g : Iterates(g, S, base, step, L)
<1> DEFINE Good(g, k) == g[0] = base /\ \A n \in 1..k : g[n] = step[<<g[n - 1], n>>]
           T == {k \in Nat : \E g \in [0..k -> S] : Good(g, k)}
<1>1. 0 \in T
  <2>1. [i \in 0..0 |-> base] \in [0..0 -> S] /\ Good([i \in 0..0 |-> base], 0)
    OBVIOUS
  <2>2. QED
    BY <2>1
<1>2. ASSUME NEW k \in T PROVE k + 1 \in T
  <2>1. PICK g \in [0..k -> S] : Good(g, k)
    OBVIOUS
  <2> DEFINE h == [i \in 0..k + 1 |-> IF i = k + 1 THEN step[<<g[k], k + 1>>] ELSE g[i]]
  <2>2. k \in Nat /\ k \in 0..k /\ g[k] \in S /\ step[<<g[k], k + 1>>] \in S
    OBVIOUS
  <2>3. h \in [0..k + 1 -> S]
    BY <2>2
  <2>4. h[0] = base
    BY <2>1, <2>2
  <2>5. ASSUME NEW n \in 1..k + 1 PROVE h[n] = step[<<h[n - 1], n>>]
    <3>1. CASE n = k + 1
      <4>1. n - 1 = k /\ k # k + 1 /\ k \in 0..k + 1 /\ k + 1 \in 0..k + 1
        BY <2>2, <3>1
      <4>2. h[k] = g[k] /\ h[k + 1] = step[<<g[k], k + 1>>]
        BY <4>1
      <4>3. QED
        BY <3>1, <4>1, <4>2
    <3>2. CASE n \in 1..k
      <4>1. h[n] = g[n] /\ h[n - 1] = g[n - 1]
        BY <2>2, <3>2
      <4>2. QED
        BY <2>1, <3>2, <4>1
    <3>3. QED
      BY <2>2, <3>1, <3>2
  <2>6. Good(h, k + 1)
    BY <2>4, <2>5
  <2> HIDE DEF h, Good
  <2>7. QED
    BY <2>2, <2>3, <2>6
<1>3. T = Nat
  <2> HIDE DEF T
  <2>1. T \in SUBSET Nat
    BY DEF T
  <2>2. QED
    BY <1>1, <1>2, <2>1, Induction
<1>4. QED
  BY <1>3 DEF Iterates

-------------------------------------------------------------------------------
(* What discards record *)

Known == [id: Nat, kind: Kinds, text: Texts]
Copies == [queue: SUBSET Known, discarded: Seq(Identity), dirty: BOOLEAN,
           refused: SUBSET Identity, evicted: SUBSET Identity]

\* What was refused is remembered, but for what the bound has pushed out.
Remembers(c, before) == (before \cup c.refused) \ c.evicted \subseteq Range(c.discarded)

LEMMA IdentityIs ==
  ASSUME NEW x \in Known
  PROVE  IdentityOf(x) \in Identity
BY DEF Known, IdentityOf, Identity

LEMMA AppendRange ==
  ASSUME NEW S, NEW d \in Seq(S), NEW i \in S
  PROVE  /\ Append(d, i) \in Seq(S) /\ Range(d) \cup {i} \subseteq Range(Append(d, i))
         /\ d # <<>> => /\ Tail(Append(d, i)) \in Seq(S) /\ Head(d) \in S
                        /\ (Range(d) \cup {i}) \ {Head(d)} \subseteq Range(Tail(Append(d, i)))
<1> DEFINE e == Append(d, i)
           L == Len(d)
<1>1. /\ L \in Nat /\ DOMAIN d = 1..L /\ e \in Seq(S) /\ Len(e) = L + 1 /\ DOMAIN e = 1..L + 1
      /\ e[L + 1] = i /\ \A j \in 1..L : e[j] = d[j]
  OBVIOUS
<1>2. Range(d) \cup {i} \subseteq Range(e)
  <2>1. L + 1 \in 1..L + 1 /\ 1..L \subseteq 1..L + 1
    BY <1>1
  <2> HIDE DEF e, L
  <2>2. QED
    BY <1>1, <2>1 DEF Range
<1>3. ASSUME d # <<>>
      PROVE  /\ Tail(e) \in Seq(S) /\ Head(d) \in S
             /\ (Range(d) \cup {i}) \ {Head(d)} \subseteq Range(Tail(e))
  <2>1. L >= 1 /\ Head(d) = d[1] /\ d[1] \in S
    BY <1>3
  <2> HIDE DEF e
  <2>2. /\ Tail(e) \in Seq(S) /\ DOMAIN Tail(e) = 1..L
        /\ \A j \in 1..L : Tail(e)[j] = e[j + 1]
    BY <1>1, <2>1
  <2>3. i \in Range(Tail(e))
    BY <1>1, <2>1, <2>2 DEF Range
  <2>4. ASSUME NEW j \in 1..L, d[j] # d[1] PROVE d[j] \in Range(Tail(e))
    <3>1. j # 1 /\ j - 1 \in 1..L /\ (j - 1) + 1 = j
      BY <1>1, <2>4
    <3>2. Tail(e)[j - 1] = d[j]
      BY <1>1, <2>2, <3>1
    <3>3. QED
      BY <2>2, <3>1, <3>2 DEF Range
  <2> HIDE DEF L
  <2>5. QED
    BY <1>1, <2>1, <2>2, <2>3, <2>4 DEF Range
<1>4. QED
  BY <1>1, <1>2, <1>3

LEMMA DiscardHashIs ==
  ASSUME NEW c \in Copies, NEW i \in Identity, NEW before
  PROVE  /\ DiscardHash(c, i) \in Copies
         /\ DiscardHash(c, i).refused = c.refused \cup {i}
         /\ Remembers(c, before) => Remembers(DiscardHash(c, i), before)
<1> DEFINE d == c.discarded
           h == DiscardHash(c, i)
<1>1. /\ d \in Seq(Identity) /\ c.refused \in SUBSET Identity /\ c.evicted \in SUBSET Identity
      /\ c.queue \in SUBSET Known /\ c.dirty \in BOOLEAN
  BY DEF Copies
<1>2. h.refused = c.refused \cup {i} /\ h.queue = c.queue /\ h.dirty = c.dirty
  BY DEF DiscardHash
<1>3. h = [queue |-> h.queue, discarded |-> h.discarded, dirty |-> h.dirty,
           refused |-> h.refused, evicted |-> h.evicted]
  BY DEF DiscardHash
<1>4. CASE i \in Range(d)
  <2>1. h.discarded = d /\ h.evicted = c.evicted
    BY <1>4 DEF DiscardHash
  <2> HIDE DEF d, h
  <2>2. QED
    BY <1>1, <1>2, <1>3, <1>4, <2>1 DEF Copies, Remembers, d, h
<1>5. CASE i \notin Range(d) /\ Len(d) # MaxDiscarded
  <2>1. h.discarded = Append(d, i) /\ h.evicted = c.evicted
    BY <1>5 DEF DiscardHash
  <2>2. Append(d, i) \in Seq(Identity) /\ Range(d) \cup {i} \subseteq Range(Append(d, i))
    BY <1>1, AppendRange
  <2>3. h \in Copies
    <3> HIDE DEF d, h
    <3>1. QED
      BY <1>1, <1>2, <1>3, <2>1, <2>2 DEF Copies
  <2>4. Remembers(c, before) => Remembers(h, before)
    <3> HIDE DEF h
    <3>1. QED
      BY <1>2, <2>1, <2>2 DEF Remembers
  <2>5. QED
    BY <1>2, <2>3, <2>4
<1>6. CASE i \notin Range(d) /\ Len(d) = MaxDiscarded
  <2>1. h.discarded = Tail(Append(d, i)) /\ h.evicted = c.evicted \cup {Head(d)}
    BY <1>6 DEF DiscardHash
  <2>2. d # <<>>
    BY <1>6, BoundsAssumption
  <2>3. /\ Tail(Append(d, i)) \in Seq(Identity) /\ Head(d) \in Identity
        /\ (Range(d) \cup {i}) \ {Head(d)} \subseteq Range(Tail(Append(d, i)))
    BY <1>1, <2>2, AppendRange
  <2>4. h \in Copies
    <3> HIDE DEF d, h
    <3>1. QED
      BY <1>1, <1>2, <1>3, <2>1, <2>3 DEF Copies
  <2>5. Remembers(c, before) => Remembers(h, before)
    <3> HIDE DEF h
    <3>1. QED
      BY <1>2, <2>1, <2>3 DEF Remembers
  <2>6. QED
    BY <1>2, <2>4, <2>5
<1>7. QED
  BY <1>4, <1>5, <1>6

\* A queue is cleared by discarding each of its proposals.
LEMMA DiscardAllIs ==
  ASSUME lastId \in Nat, NEW c \in Copies, Distinct(c.queue, lastId), NEW before
  PROVE  /\ DiscardAllHashes(c) \in Copies
         /\ Identities(c.queue) \subseteq DiscardAllHashes(c).refused
         /\ Remembers(c, before) => Remembers(DiscardAllHashes(c), before)
<1> DEFINE L == lastId
           recorded(x, n) ==
             IF \E y \in c.queue : y.id = n
             THEN DiscardHash(x, IdentityOf(CHOOSE y \in c.queue : y.id = n)) ELSE x
           step == [x \in Copies \X Nat |-> recorded(x[1], x[2])]
           after == CHOOSE f : f = [n \in 0..L |-> IF n = 0 THEN c ELSE recorded(f[n - 1], n)]
<1>1. ASSUME NEW x \in Copies, NEW n \in Nat
      PROVE  /\ recorded(x, n) \in Copies
             /\ x.refused \subseteq recorded(x, n).refused
             /\ \A y \in c.queue : y.id = n => IdentityOf(y) \in recorded(x, n).refused
             /\ Remembers(x, before) => Remembers(recorded(x, n), before)
  <2>1. CASE \E y \in c.queue : y.id = n
    <3> DEFINE z == CHOOSE y \in c.queue : y.id = n
    <3>1. z \in c.queue /\ z.id = n
      BY <2>1
    <3>2. recorded(x, n) = DiscardHash(x, IdentityOf(z))
      BY <2>1
    <3> HIDE DEF z, recorded
    <3>3. z \in Known /\ IdentityOf(z) \in Identity
      BY <3>1, IdentityIs DEF Copies
    <3>4. \A y \in c.queue : y.id = n => y = z
      BY <3>1 DEF Distinct
    <3>5. QED
      BY <3>2, <3>3, <3>4, DiscardHashIs
  <2>2. CASE ~\E y \in c.queue : y.id = n
    BY <2>2
  <2>3. QED
    BY <2>1, <2>2
<1> HIDE DEF recorded
<1>2. L \in Nat /\ step \in [Copies \X Nat -> Copies]
  BY <1>1
<1>3. PICK g : Iterates(g, Copies, c, step, L)
  BY <1>2, Recursion
<1>4. g \in [0..L -> Copies] /\ g[0] = c /\ \A n \in 1..L : g[n] = recorded(g[n - 1], n)
  <2>1. \A n \in 1..L : n - 1 \in 0..L /\ n \in Nat /\ g[n - 1] \in Copies
    BY <1>2, <1>3 DEF Iterates
  <2>2. QED
    BY <1>3, <2>1 DEF Iterates
<1>5. g = [n \in 0..L |-> IF n = 0 THEN c ELSE recorded(g[n - 1], n)]
  BY <1>2, <1>4
<1>6. after = [n \in 0..L |-> IF n = 0 THEN c ELSE recorded(after[n - 1], n)]
  BY <1>5
<1>7. DiscardAllHashes(c) = after[L]
  BY DEF DiscardAllHashes, recorded
<1> HIDE DEF after
<1> DEFINE Good(x, n) == /\ x \in Copies
                         /\ \A y \in c.queue : y.id \in 1..n => IdentityOf(y) \in x.refused
                         /\ Remembers(c, before) => Remembers(x, before)
           T == {n \in Nat : n <= L => Good(after[n], n)}
<1>8. T = Nat
  <2>1. 0 \in T
    <3>1. after[0] = c
      BY <1>2, <1>6
    <3>2. QED
      BY <3>1
  <2>2. ASSUME NEW n \in T PROVE n + 1 \in T
    <3>1. CASE n + 1 <= L
      <4>1. n \in 0..L /\ n + 1 \in 1..L /\ n + 1 \in 0..L /\ (n + 1) - 1 = n /\ n + 1 # 0
        BY <1>2, <3>1
      <4>2. after[n + 1] = recorded(after[n], n + 1)
        BY <1>6, <4>1
      <4> DEFINE x == after[n]
                 z == after[n + 1]
      <4>3. Good(x, n) /\ z = recorded(x, n + 1)
        BY <4>1, <4>2
      <4> HIDE DEF x, z
      <4>4. /\ z \in Copies /\ x.refused \subseteq z.refused
            /\ \A y \in c.queue : y.id = n + 1 => IdentityOf(y) \in z.refused
            /\ Remembers(x, before) => Remembers(z, before)
        BY <1>1, <4>1, <4>3
      <4>5. \A y \in c.queue : y.id \in 1..(n + 1) => y.id \in 1..n \/ y.id = n + 1
        OBVIOUS
      <4>6. Good(z, n + 1)
        BY <4>3, <4>4, <4>5
      <4>7. QED
        BY <4>6 DEF z
    <3>2. QED
      BY <3>1
  <2> HIDE DEF T
  <2>3. T \in SUBSET Nat
    BY DEF T
  <2>4. QED
    BY <2>1, <2>2, <2>3, Induction
<1>9. Good(after[L], L)
  <2>1. L \in T /\ L <= L
    BY <1>2, <1>8
  <2> HIDE DEF L, Good
  <2>2. QED
    BY <2>1
<1>10. \A y \in c.queue : y.id \in 1..L
  BY DEF Distinct
<1> HIDE DEF L
<1>11. Identities(c.queue) \subseteq after[L].refused
  BY <1>9, <1>10 DEF Identities
<1>12. QED
  BY <1>7, <1>9, <1>11

-------------------------------------------------------------------------------
(* Types *)

Deciding == {"screened", "new", "confirmed", "remove"}
Screened == {"screened", "new"}

TypeInv ==
  /\ queue \in [Scopes -> SUBSET Known] /\ discarded \in [Scopes -> Seq(Identity)]
  /\ active \in [Scopes -> [Identity -> Nat]]
  /\ tombs \in [Scopes -> SUBSET Identity] /\ dropped \in [Scopes -> SUBSET Identity]
  /\ horizon \in Nat
  /\ mine \in [Procs -> Copies]
  /\ pick = [p \in Procs |-> pick[p]] /\ into = [p \in Procs |-> into[p]]
  /\ reply = [p \in Procs |-> reply[p]]
  /\ \A p \in Procs :
       /\ pc[p] \in Deciding => pick[p] \in Known
       /\ pc[p] \in Screened => /\ into[p] \in [scope: Scopes, kind: Kinds]
                                /\ file[p] = into[p].scope

LEMMA EmptyCopy == Copy({}, <<>>) \in Copies
<1>1. <<>> \in Seq(Identity)
  OBVIOUS
<1>2. QED
  BY <1>1 DEF Copy, Copies

LEMMA OpenIs ==
  ASSUME TypeInv, NEW s \in Scopes
  PROVE  /\ Open(s) \in Copies /\ Open(s).discarded = discarded[s]
         /\ Open(s).refused = {} /\ Open(s).evicted = {}
         /\ Open(s).queue = {x \in queue[s] : x.id > horizon}
BY DEF TypeInv, Open, Copy, Copies

LEMMA WithoutIs ==
  ASSUME NEW c \in Copies, NEW x
  PROVE  /\ Without(c, x) \in Copies /\ Without(c, x).queue = {y \in c.queue : y.id # x.id}
         /\ Without(c, x).discarded = c.discarded
         /\ Without(c, x).refused = c.refused /\ Without(c, x).evicted = c.evicted
BY DEF Without, Copies

LEMMA PushIs ==
  ASSUME NEW c \in Copies, NEW x \in Known
  PROVE  /\ Push(c, x) \in Copies
         /\ Admissible(c, IdentityOf(x)) => Push(c, x).queue = Newest(c.queue \cup {x})
         /\ ~Admissible(c, IdentityOf(x)) => Push(c, x) = c
         /\ Push(c, x).discarded = c.discarded
         /\ Push(c, x).refused = c.refused /\ Push(c, x).evicted = c.evicted
<1>1. CASE ~Admissible(c, IdentityOf(x))
  BY <1>1 DEF Push
<1>2. CASE Admissible(c, IdentityOf(x))
  <2> DEFINE q == Newest(c.queue \cup {x})
  <2>1. Push(c, x) = [c EXCEPT !.queue = q, !.dirty = TRUE]
    BY <1>2 DEF Push
  <2>2. q \in SUBSET Known
    BY DEF Newest, Copies
  <2> HIDE DEF q
  <2>3. QED
    BY <1>2, <2>1, <2>2 DEF Copies, q
<1>3. QED
  BY <1>1, <1>2

LEMMA ClearedIs ==
  ASSUME lastId \in Nat, NEW c \in Copies, Distinct(c.queue, lastId), NEW before
  PROVE  /\ Cleared(c) \in Copies /\ Cleared(c).queue = {}
         /\ Identities(c.queue) \subseteq Cleared(c).refused
         /\ Remembers(c, before) => Remembers(Cleared(c), before)
<1> DEFINE a == DiscardAllHashes(c)
<1>1. /\ a \in Copies /\ Identities(c.queue) \subseteq a.refused
      /\ Remembers(c, before) => Remembers(a, before)
  BY DiscardAllIs
<1>2. Cleared(c) = [queue |-> {}, discarded |-> a.discarded, dirty |-> FALSE,
                    refused |-> a.refused, evicted |-> a.evicted]
  BY DEF Cleared
<1> HIDE DEF a
<1>3. QED
  BY <1>1, <1>2 DEF Copies, Remembers

LEMMA InitTypes == Init => TypeInv
<1> SUFFICES ASSUME Init PROVE TypeInv
  OBVIOUS
<1>1. <<>> \in Seq(Identity)
  OBVIOUS
<1>2. QED
  BY <1>1, EmptyCopy DEF Init, TypeInv, Deciding, Screened

LEMMA ReturnTypes ==
  ASSUME TypeInv, LoopInv, NEW p \in Procs, NEW a, Return(p, a),
         UNCHANGED <<queue, active, tombs, horizon>>,
         discarded' \in [Scopes -> Seq(Identity)], dropped' \in [Scopes -> SUBSET Identity]
  PROVE  TypeInv'
<1>1. mine' \in [Procs -> Copies]
  BY EmptyCopy DEF TypeInv, Return
<1>2. \A q \in Procs : pc'[q] = IF q = p THEN "idle" ELSE pc[q]
  BY DEF LoopInv, Return, Goto
<1>3. \A q \in Procs : q # p => pick'[q] = pick[q] /\ into'[q] = into[q] /\ file'[q] = file[q]
  BY DEF LoopInv, TypeInv, Return
<1>4. pick' = [q \in Procs |-> pick'[q]] /\ into' = [q \in Procs |-> into'[q]]
      /\ reply' = [q \in Procs |-> reply'[q]]
  BY DEF TypeInv, Return
<1>5. QED
  BY <1>1, <1>2, <1>3, <1>4 DEF TypeInv, Deciding, Screened

\* A step that moves one process on and lets its decision be.
LEMMA GotoTypes ==
  ASSUME TypeInv, LoopInv, NEW p \in Procs, NEW label, Goto(p, label),
         UNCHANGED <<active, tombs, horizon, pick, into, reply>>,
         queue' \in [Scopes -> SUBSET Known],
         discarded' \in [Scopes -> Seq(Identity)], dropped' \in [Scopes -> SUBSET Identity],
         mine' \in [Procs -> Copies],
         label \notin Deciding, \A q \in Procs : q # p => file'[q] = file[q]
  PROVE  TypeInv'
<1>1. \A q \in Procs : pc'[q] = IF q = p THEN label ELSE pc[q]
  BY DEF LoopInv, Goto
<1>2. QED
  BY <1>1 DEF TypeInv, Deciding, Screened

\* What a confirm stores is a statement, and the scope it goes to is one of the program's.
LEMMA ConfirmedIs ==
  ASSUME TypeInv, NEW p \in Procs, pc[p] \in Screened
  PROVE  into[p].scope \in Scopes /\ ConfirmedIdentity(p) \in Identity
BY DEF TypeInv, ConfirmedIdentity, Identity, Known, Screened, Deciding

LEMMA NextScopeTypes ==
  ASSUME TypeInv, LoopInv, NEW p \in Procs, NEW a, NextScope(p, a),
         UNCHANGED <<queue, active, tombs, horizon>>,
         discarded' \in [Scopes -> Seq(Identity)], dropped' \in [Scopes -> SUBSET Identity]
  PROVE  TypeInv'
<1>1. ASSUME NEW label, label \notin Deciding, Goto(p, label),
             UNCHANGED <<drafts, rest, file, mine, pick, into, reply>>
      PROVE  TypeInv'
  <2>1. queue' \in [Scopes -> SUBSET Known] /\ mine' \in [Procs -> Copies]
    BY <1>1 DEF TypeInv
  <2>2. QED
    BY <1>1, <2>1, GotoTypes
<1>2. QED
  BY <1>1, ReturnTypes DEF NextScope, Deciding

LEMMA TypeStep == Inv /\ TypeInv /\ [Next]_vars => TypeInv'
<1> SUFFICES ASSUME Inv, TypeInv, [Next]_vars PROVE TypeInv'
  OBVIOUS
<1> USE DEF files, store, job
<1>a. LoopInv /\ CopyInv /\ QueueInv
  BY DEF Inv
<1>b. /\ queue \in [Scopes -> SUBSET Known] /\ mine \in [Procs -> Copies]
      /\ discarded \in [Scopes -> Seq(Identity)] /\ dropped \in [Scopes -> SUBSET Identity]
  BY DEF TypeInv
<1>1. ASSUME NEW p \in Procs, Refresh(p) \/ DiscardAll(p) PROVE TypeInv'
  <2>1. PICK label \in {"admit", "clear"} : Goto(p, label)
    BY <1>1 DEF Refresh, DiscardAll
  <2>2. UNCHANGED <<files, store, horizon, file, mine, pick, into, dropped>>
        /\ reply' = [reply EXCEPT ![p] = "none"]
    BY <1>1 DEF Refresh, DiscardAll
  <2>3. \A q \in Procs : pc'[q] = IF q = p THEN label ELSE pc[q]
    BY <1>a, <2>1 DEF LoopInv, Goto
  <2>4. QED
    BY <2>2, <2>3 DEF TypeInv, Deciding, Screened
<1>2. ASSUME NEW p \in Procs, AdmitOpen(p) PROVE TypeInv'
  <2>1. {d[1] : d \in drafts[p]} \in SUBSET Scopes /\ {d[1] : d \in drafts[p]} # {}
    BY <1>2, <1>a DEF AdmitOpen, LoopInv
  <2>2. PICK s \in Scopes : mine' = [mine EXCEPT ![p] = Open(s)] /\ file' = [file EXCEPT ![p] = s]
    BY <1>2, <2>1, FirstIsScope DEF AdmitOpen
  <2>3. mine' \in [Procs -> Copies]
    BY <1>b, <2>2, OpenIs
  <2>4. Goto(p, "push") /\ UNCHANGED <<files, store, horizon, pick, into, reply, dropped>>
    BY <1>2 DEF AdmitOpen
  <2>5. \A q \in Procs : q # p => file'[q] = file[q]
    BY <1>a, <2>2 DEF LoopInv
  <2>6. QED
    BY <1>a, <1>b, <2>3, <2>4, <2>5, GotoTypes DEF Deciding
<1>3. ASSUME NEW p \in Procs, AdmitPush(p) PROVE TypeInv'
  <2>1. PICK d \in drafts[p] :
          mine' = [mine EXCEPT ![p] =
               Push(@, [id |-> lastId + 1, kind |-> d[2].kind, text |-> d[2].text])]
    BY <1>3 DEF AdmitPush
  <2> DEFINE x == [id |-> lastId + 1, kind |-> d[2].kind, text |-> d[2].text]
  <2>2. d[2] \in Identity /\ lastId \in Nat
    BY <1>a DEF LoopInv, QueueInv
  <2>3. x \in Known
    BY <2>2 DEF Known, Identity
  <2> HIDE DEF x
  <2>4. mine' \in [Procs -> Copies]
    BY <1>b, <2>1, <2>3, PushIs DEF x
  <2>5. UNCHANGED <<files, store, horizon, pc, file, pick, into, reply, dropped>>
    BY <1>3 DEF AdmitPush
  <2>6. QED
    BY <2>4, <2>5 DEF TypeInv
<1>4. ASSUME NEW p \in Procs, AdmitSave(p) PROVE TypeInv'
  <2>1. UNCHANGED <<files, store, horizon, dropped>>
    BY <1>4 DEF AdmitSave
  <2>2. CASE NextScope(p, "done")
    BY <1>a, <1>b, <2>1, <2>2, NextScopeTypes
  <2>3. CASE Goto(p, "save") /\ UNCHANGED <<job, reply>>
    BY <1>a, <1>b, <2>1, <2>3, GotoTypes DEF Deciding
  <2>4. QED
    BY <1>4, <2>2, <2>3 DEF AdmitSave
<1>5. ASSUME NEW p \in Procs, Confirm(p) PROVE TypeInv'
  <2>1. PICK s \in Scopes : \E x \in Open(s).queue, t \in {"user", "project"}, k \in Kinds :
          /\ pick' = [pick EXCEPT ![p] = x]
          /\ into' = [into EXCEPT ![p] = [scope |-> t, kind |-> k]]
          /\ \/ file' = [file EXCEPT ![p] = s] /\ Goto(p, "remove")
             \/ t \in Scopes /\ file' = [file EXCEPT ![p] = t] /\ Goto(p, "screened")
    BY <1>5 DEF Confirm
  <2>2. PICK x \in Open(s).queue, t \in {"user", "project"}, k \in Kinds :
          /\ pick' = [pick EXCEPT ![p] = x]
          /\ into' = [into EXCEPT ![p] = [scope |-> t, kind |-> k]]
          /\ \/ file' = [file EXCEPT ![p] = s] /\ Goto(p, "remove")
             \/ t \in Scopes /\ file' = [file EXCEPT ![p] = t] /\ Goto(p, "screened")
    BY <2>1
  <2>3. UNCHANGED <<files, store, horizon, mine, dropped>>
        /\ reply' = [reply EXCEPT ![p] = "none"]
    BY <1>5 DEF Confirm
  <2>4. x \in Known
    BY OpenIs DEF Copies
  <2>5. \A q \in Procs : q # p => /\ pc'[q] = pc[q] /\ file'[q] = file[q]
                                  /\ pick'[q] = pick[q] /\ into'[q] = into[q]
    BY <1>a, <2>2 DEF LoopInv, TypeInv, Goto
  <2>6. /\ pick'[p] = x /\ into'[p] = [scope |-> t, kind |-> k]
        /\ \/ pc'[p] = "remove"
           \/ pc'[p] = "screened" /\ t \in Scopes /\ file'[p] = t
    BY <1>a, <2>2 DEF LoopInv, TypeInv, Goto
  <2>7. /\ pick' = [q \in Procs |-> pick'[q]] /\ into' = [q \in Procs |-> into'[q]]
        /\ reply' = [q \in Procs |-> reply'[q]]
    BY <2>2, <2>3 DEF TypeInv
  <2>8. ASSUME NEW q \in Procs
        PROVE  /\ pc'[q] \in Deciding => pick'[q] \in Known
               /\ pc'[q] \in Screened => /\ into'[q] \in [scope: Scopes, kind: Kinds]
                                         /\ file'[q] = into'[q].scope
    <3>1. CASE q = p
      BY <2>4, <2>6, <3>1 DEF Deciding, Screened
    <3>2. CASE q # p
      BY <2>5, <3>2 DEF TypeInv
    <3>3. QED
      BY <3>1, <3>2
  <2>9. QED
    BY <2>3, <2>7, <2>8 DEF TypeInv
<1>6. ASSUME NEW p \in Procs, CheckDuplicate(p) \/ Remember(p) PROVE TypeInv'
  <2>1. PICK label \in Deciding : /\ Goto(p, label) /\ pc[p] \in Screened
                                  /\ label \in Screened => pc[p] \in Screened
    BY <1>6 DEF CheckDuplicate, Remember, Deciding, Screened
  <2>2. UNCHANGED <<files, tombs, horizon, job, reply, dropped>>
    BY <1>6 DEF CheckDuplicate, Remember
  <2>3. active' \in [Scopes -> [Identity -> Nat]]
    <3>1. \A s \in Scopes, i \in Identity : active[s][i] \in Nat
      BY DEF TypeInv
    <3>2. CASE CheckDuplicate(p)
      BY <3>2 DEF CheckDuplicate, TypeInv
    <3>3. CASE Remember(p)
      <4>1. active' = [active EXCEPT ![into[p].scope][ConfirmedIdentity(p)] = @ + 1]
        BY <3>3 DEF Remember
      <4>2. into[p].scope \in Scopes /\ ConfirmedIdentity(p) \in Identity
        BY <2>1, ConfirmedIs
      <4> DEFINE s == into[p].scope
                 i == ConfirmedIdentity(p)
      <4> HIDE DEF s, i
      <4>3. active[s][i] \in Nat /\ s \in Scopes /\ i \in Identity
        BY <3>1, <4>2 DEF s, i
      <4>4. active' = [active EXCEPT ![s][i] = active[s][i] + 1]
        BY <4>1 DEF s, i
      <4>5. active \in [Scopes -> [Identity -> Nat]]
        BY DEF TypeInv
      <4>6. QED
        BY ONLY <4>3, <4>4, <4>5
    <3>4. QED
      BY <1>6, <3>2, <3>3
  <2>4. \A q \in Procs : pc'[q] = IF q = p THEN label ELSE pc[q]
    BY <1>a, <2>1 DEF LoopInv, Goto
  <2>5. QED
    BY <2>1, <2>2, <2>3, <2>4 DEF TypeInv, Deciding, Screened
<1>7. ASSUME NEW p \in Procs, RemoveOpen(p) PROVE TypeInv'
  <2>1. mine' = [mine EXCEPT ![p] = Without(Open(file[p]), pick[p])] /\ file[p] \in Scopes
    BY <1>7, <1>a DEF RemoveOpen, LoopInv
  <2>2. mine' \in [Procs -> Copies]
    BY <1>b, <2>1, OpenIs, WithoutIs
  <2>3. UNCHANGED <<files, store, horizon, file, pick, into, reply, dropped>>
    BY <1>7 DEF RemoveOpen
  <2>4. PICK label \in {"save", "saveConfirmed"} : Goto(p, label)
    BY <1>7 DEF RemoveOpen
  <2>5. QED
    BY <1>a, <1>b, <2>2, <2>3, <2>4, GotoTypes DEF Deciding
<1>8. ASSUME NEW p \in Procs, Discard(p) PROVE TypeInv'
  <2>1. PICK s \in Scopes : \E x \in Open(s).queue :
          /\ file' = [file EXCEPT ![p] = s] /\ pick' = [pick EXCEPT ![p] = x]
          /\ mine' = [mine EXCEPT ![p] = DiscardHash(Without(Open(s), x), IdentityOf(x))]
    BY <1>8 DEF Discard
  <2>2. PICK x \in Open(s).queue :
          /\ file' = [file EXCEPT ![p] = s] /\ pick' = [pick EXCEPT ![p] = x]
          /\ mine' = [mine EXCEPT ![p] = DiscardHash(Without(Open(s), x), IdentityOf(x))]
    BY <2>1
  <2>3. x \in Known
    BY OpenIs DEF Copies
  <2>4. DiscardHash(Without(Open(s), x), IdentityOf(x)) \in Copies
    BY <2>3, IdentityIs, OpenIs, WithoutIs, DiscardHashIs
  <2>5. mine' \in [Procs -> Copies]
    BY <1>b, <2>2, <2>4
  <2>6. /\ UNCHANGED <<files, store, horizon, into, dropped>>
        /\ reply' = [reply EXCEPT ![p] = "none"] /\ Goto(p, "save")
    BY <1>8 DEF Discard
  <2>7. \A q \in Procs : q # p => pc'[q] = pc[q] /\ file'[q] = file[q] /\ pick'[q] = pick[q]
    BY <1>a, <2>2, <2>6 DEF LoopInv, TypeInv, Goto
  <2>8. pc'[p] = "save"
    BY <1>a, <2>6 DEF LoopInv, Goto
  <2>9. pick' = [q \in Procs |-> pick'[q]] /\ reply' = [q \in Procs |-> reply'[q]]
    BY <2>2, <2>6 DEF TypeInv
  <2>10. QED
    BY <2>5, <2>6, <2>7, <2>8, <2>9 DEF TypeInv, Deciding, Screened
<1>9. ASSUME NEW p \in Procs, ClearScope(p) PROVE TypeInv'
  <2>1. First(rest[p]) \in Scopes
    BY <1>9, <1>a, FirstIsScope DEF ClearScope, LoopInv
  <2>2. PICK s \in Scopes : /\ file' = [file EXCEPT ![p] = s]
                            /\ mine' = [mine EXCEPT ![p] = Cleared(Open(s))]
    BY <1>9, <2>1 DEF ClearScope
  <2>3. Cleared(Open(s)) \in Copies
    <3>1. lastId \in Nat /\ Distinct(Open(s).queue, lastId)
      BY <1>a, CopyOperations, DistinctPart DEF QueueInv
    <3>2. QED
      BY <3>1, OpenIs, ClearedIs
  <2>4. mine' \in [Procs -> Copies]
    BY <1>b, <2>2, <2>3
  <2>5. Goto(p, "save") /\ UNCHANGED <<files, store, horizon, pick, into, reply, dropped>>
    BY <1>9 DEF ClearScope
  <2>6. \A q \in Procs : q # p => file'[q] = file[q]
    BY <1>a, <2>2 DEF LoopInv
  <2>7. QED
    BY <1>a, <1>b, <2>4, <2>5, <2>6, GotoTypes DEF Deciding
<1>10. ASSUME NEW p \in Procs, SaveProposals(p) PROVE TypeInv'
  <2>1. queue' = [queue EXCEPT ![file[p]] = mine[p].queue]
        /\ UNCHANGED <<discarded, store, horizon, job, reply, dropped>>
    BY <1>10 DEF SaveProposals
  <2>2. queue' \in [Scopes -> SUBSET Known]
    BY <1>b, <2>1 DEF Copies
  <2>3. PICK label \in {"finish", "finishConfirmed"} : Goto(p, label)
    BY <1>10 DEF SaveProposals
  <2>4. QED
    BY <1>a, <1>b, <2>1, <2>2, <2>3, GotoTypes DEF Deciding
<1>11. ASSUME NEW p \in Procs, SaveDiscarded(p) PROVE TypeInv'
  <2>1. /\ discarded' = [discarded EXCEPT ![file[p]] = mine[p].discarded]
        /\ dropped' = [dropped EXCEPT ![file[p]] = (@ \cup mine[p].refused) \ mine[p].evicted]
        /\ UNCHANGED <<queue, store, horizon>>
    BY <1>11 DEF SaveDiscarded
  <2>2. discarded' \in [Scopes -> Seq(Identity)] /\ dropped' \in [Scopes -> SUBSET Identity]
    BY <1>b, <2>1 DEF Copies
  <2>3. PICK a : NextScope(p, a)
    BY <1>11 DEF SaveDiscarded
  <2>4. QED
    BY <1>a, <2>1, <2>2, <2>3, NextScopeTypes
<1>12. ASSUME NEW p \in Procs, SaveFails(p) \/ CommandFails(p) \/ Crash(p) PROVE TypeInv'
  <2>1. UNCHANGED <<queue, discarded, store, horizon, dropped>> /\ \E a : Return(p, a)
    BY <1>12 DEF SaveFails, CommandFails, Crash
  <2>2. QED
    BY <1>a, <1>b, <2>1, ReturnTypes
<1>13. ASSUME NEW p \in Procs, NEW s \in Scopes, NEW i \in Identity,
              RememberCommand(p, s, i) \/ ForgetCommand(p, s, i)
       PROVE TypeInv'
  <2>1. UNCHANGED <<files, horizon, pc, job, reply, dropped>>
    BY <1>13 DEF RememberCommand, ForgetCommand
  <2> HIDE DEF Identity
  <2>2. active[s][i] \in Nat /\ active \in [Scopes -> [Identity -> Nat]]
    BY DEF TypeInv
  <2>3. active' \in [Scopes -> [Identity -> Nat]] /\ tombs' \in [Scopes -> SUBSET Identity]
    <3>1. CASE RememberCommand(p, s, i)
      BY <2>2, <3>1 DEF RememberCommand, TypeInv
    <3>2. CASE ForgetCommand(p, s, i)
      <4>1. active[s][i] - 1 \in Nat
        BY <2>2, <3>2 DEF ForgetCommand
      <4>2. QED
        BY <2>2, <3>2, <4>1 DEF ForgetCommand, TypeInv
    <3>3. QED
      BY <1>13, <3>1, <3>2
  <2>4. QED
    BY <2>1, <2>3 DEF TypeInv
<1>14. CASE Age
  BY <1>14 DEF Age, TypeInv
<1>15. CASE UNCHANGED vars
  BY <1>15 DEF vars, TypeInv
<1>16. QED
  BY <1>1, <1>2, <1>3, <1>4, <1>5, <1>6, <1>7, <1>8, <1>9, <1>10, <1>11, <1>12, <1>13,
     <1>14, <1>15 DEF Next

-------------------------------------------------------------------------------
(* One process at the queues *)

OneProcess == \A p, q \in Procs : p = q

InHand == {"push"} \cup Saving
HalfSaved == {"finish", "finishConfirmed"}

\* Where each step leads.
LEMMA Labels ==
  ASSUME LoopInv, NEW p \in Procs
  PROVE  /\ Refresh(p) => pc'[p] = "admit"
         /\ AdmitOpen(p) => pc'[p] = "push"
         /\ AdmitPush(p) => pc[p] = "push" /\ pc'[p] = "push"
         /\ AdmitSave(p) => pc[p] = "push" /\ pc'[p] \in {"save", "admit", "clear", "idle"}
         /\ Confirm(p) => pc'[p] \in {"remove", "screened"}
         /\ CheckDuplicate(p) => pc[p] = "screened" /\ pc'[p] \in {"remove", "new"}
         /\ Remember(p) => pc[p] = "new" /\ pc'[p] = "confirmed"
         /\ CommandFails(p) \/ SaveFails(p) \/ Crash(p) => pc'[p] = "idle"
         /\ RemoveOpen(p) => \/ pc[p] = "confirmed" /\ pc'[p] = "saveConfirmed"
                             \/ pc[p] = "remove" /\ pc'[p] = "save"
         /\ DiscardAll(p) => pc'[p] = "clear"
         /\ Discard(p) \/ ClearScope(p) => pc'[p] = "save"
         /\ SaveProposals(p) => \/ pc[p] = "saveConfirmed" /\ pc'[p] = "finishConfirmed"
                                \/ pc[p] = "save" /\ pc'[p] = "finish"
         /\ SaveDiscarded(p) => pc[p] \in HalfSaved /\ pc'[p] \in {"admit", "clear", "idle"}
         /\ (\E s \in Scopes, i \in Identity : RememberCommand(p, s, i) \/ ForgetCommand(p, s, i))
              => pc[p] = "idle" /\ pc'[p] = "idle"
<1>1. \A label : Goto(p, label) => pc'[p] = label
  BY DEF LoopInv, Goto
<1>2. \A a : Return(p, a) => pc'[p] = "idle"
  BY <1>1 DEF Return
<1>3. \A a : NextScope(p, a) => pc'[p] \in {"admit", "clear", "idle"}
  BY <1>1, <1>2 DEF NextScope
<1>4. /\ Refresh(p) => pc'[p] = "admit"
      /\ AdmitOpen(p) => pc'[p] = "push"
      /\ AdmitPush(p) => pc[p] = "push" /\ pc'[p] = "push"
      /\ AdmitSave(p) => pc[p] = "push" /\ pc'[p] \in {"save", "admit", "clear", "idle"}
  BY <1>1, <1>3 DEF Refresh, AdmitOpen, AdmitPush, AdmitSave
<1>5. /\ Confirm(p) => pc'[p] \in {"remove", "screened"}
      /\ CheckDuplicate(p) => pc[p] = "screened" /\ pc'[p] \in {"remove", "new"}
      /\ Remember(p) => pc[p] = "new" /\ pc'[p] = "confirmed"
  BY <1>1 DEF Confirm, CheckDuplicate, Remember
<1>6. CommandFails(p) \/ SaveFails(p) \/ Crash(p) => pc'[p] = "idle"
  BY <1>2 DEF CommandFails, SaveFails, Crash
<1>7. /\ RemoveOpen(p) => \/ pc[p] = "confirmed" /\ pc'[p] = "saveConfirmed"
                          \/ pc[p] = "remove" /\ pc'[p] = "save"
      /\ DiscardAll(p) => pc'[p] = "clear"
      /\ Discard(p) \/ ClearScope(p) => pc'[p] = "save"
  BY <1>1 DEF RemoveOpen, DiscardAll, Discard, ClearScope
<1>8. /\ SaveProposals(p) => \/ pc[p] = "saveConfirmed" /\ pc'[p] = "finishConfirmed"
                             \/ pc[p] = "save" /\ pc'[p] = "finish"
      /\ SaveDiscarded(p) => pc[p] \in HalfSaved /\ pc'[p] \in {"admit", "clear", "idle"}
  BY <1>1, <1>3 DEF SaveProposals, SaveDiscarded, Saving, HalfSaved
<1>9. (\E s \in Scopes, i \in Identity : RememberCommand(p, s, i) \/ ForgetCommand(p, s, i))
        => pc[p] = "idle" /\ pc'[p] = "idle"
  BY DEF RememberCommand, ForgetCommand
<1>10. QED
  BY <1>4, <1>5, <1>6, <1>7, <1>8, <1>9

\* What a confirm is about to store is not there yet and, where it was proposed, not forgotten.
StoreInv ==
  \A p \in Procs :
    /\ pc[p] = "new" => active[into[p].scope][ConfirmedIdentity(p)] = 0
    /\ Overrides = {} /\ pc[p] \in Screened => ConfirmedIdentity(p) \notin tombs[into[p].scope]

LEMMA InitStore == Init => StoreInv
BY DEF Init, StoreInv, Screened

LEMMA ConfirmKeepsStore ==
  ASSUME Inv, TypeInv, NEW p \in Procs, \A q \in Procs : q = p, Confirm(p)
  PROVE  StoreInv'
<1>0. LoopInv /\ TypeInv
  BY DEF Inv
<1>1. PICK s \in Scopes : \E x \in Open(s).queue, t \in {"user", "project"}, k \in Kinds :
        /\ t # s => "scope" \in Overrides
        /\ k # x.kind => "kind" \in Overrides
        /\ pick' = [pick EXCEPT ![p] = x]
        /\ into' = [into EXCEPT ![p] = [scope |-> t, kind |-> k]]
        /\ Goto(p, "remove") \/ (Goto(p, "screened") /\ IdentityOf(x) \notin tombs[s])
  BY DEF Confirm
<1>2. PICK x \in Open(s).queue, t \in {"user", "project"}, k \in Kinds :
        /\ t # s => "scope" \in Overrides
        /\ k # x.kind => "kind" \in Overrides
        /\ pick' = [pick EXCEPT ![p] = x]
        /\ into' = [into EXCEPT ![p] = [scope |-> t, kind |-> k]]
        /\ Goto(p, "remove") \/ (Goto(p, "screened") /\ IdentityOf(x) \notin tombs[s])
  BY <1>1
<1>3. pick'[p] = x /\ into'[p] = [scope |-> t, kind |-> k] /\ UNCHANGED tombs
  BY <1>0, <1>2 DEF TypeInv, Confirm, store
<1>4. ConfirmedIdentity(p)' = [kind |-> k, text |-> x.text]
  BY <1>3 DEF ConfirmedIdentity
<1>5. pc'[p] = "remove" \/ (pc'[p] = "screened" /\ IdentityOf(x) \notin tombs[s])
  BY <1>0, <1>2 DEF LoopInv, Goto
<1>6. Overrides = {} => t = s /\ IdentityOf(x) = [kind |-> k, text |-> x.text]
  BY <1>2 DEF IdentityOf
<1>7. QED
  BY <1>3, <1>4, <1>5, <1>6 DEF StoreInv, Screened

LEMMA StoreStep == OneProcess /\ Inv /\ TypeInv /\ StoreInv /\ [Next]_vars => StoreInv'
<1> SUFFICES ASSUME OneProcess, Inv, TypeInv, StoreInv, [Next]_vars PROVE StoreInv'
  OBVIOUS
<1>0. LoopInv
  BY DEF Inv
<1>1. ASSUME NEW p \in Procs, pc'[p] \notin Screened PROVE StoreInv'
  <2>1. \A q \in Procs : pc'[q] \notin Screened
    BY <1>1 DEF OneProcess
  <2>2. QED
    BY <2>1 DEF StoreInv, Screened
<1>2. ASSUME NEW p \in Procs,
             \/ Refresh(p) \/ AdmitOpen(p) \/ AdmitPush(p) \/ AdmitSave(p)
             \/ Remember(p) \/ CommandFails(p) \/ RemoveOpen(p)
             \/ Discard(p) \/ DiscardAll(p) \/ ClearScope(p)
             \/ SaveProposals(p) \/ SaveDiscarded(p) \/ SaveFails(p)
             \/ \E s \in Scopes, i \in Identity : RememberCommand(p, s, i) \/ ForgetCommand(p, s, i)
             \/ Crash(p)
      PROVE  StoreInv'
  <2>1. pc'[p] \notin Screened
    BY <1>0, <1>2, Labels DEF Screened
  <2>2. QED
    BY <1>1, <2>1
<1>3. ASSUME NEW p \in Procs, Confirm(p) PROVE StoreInv'
  BY <1>3, ConfirmKeepsStore DEF OneProcess
<1>4. ASSUME NEW p \in Procs, CheckDuplicate(p) PROVE StoreInv'
  <2>1. /\ pc[p] = "screened" /\ UNCHANGED <<active, tombs, into, pick>>
        /\ Goto(p, IF active[into[p].scope][ConfirmedIdentity(p)] > 0 THEN "remove" ELSE "new")
    BY <1>4 DEF CheckDuplicate, store, job
  <2>2. ConfirmedIdentity(p)' = ConfirmedIdentity(p)
    BY <2>1 DEF ConfirmedIdentity
  <2>3. active[into[p].scope][ConfirmedIdentity(p)] \in Nat
    BY <2>1, ConfirmedIs DEF TypeInv, Screened
  <2>4. pc'[p] = "new" => active[into[p].scope][ConfirmedIdentity(p)] = 0
    BY <1>0, <2>1, <2>3 DEF LoopInv, Goto
  <2>5. \A q \in Procs : q = p
    BY DEF OneProcess
  <2>6. QED
    BY <2>1, <2>2, <2>4, <2>5 DEF StoreInv, Screened
<1>5. CASE Age
  BY <1>5 DEF Age, StoreInv, store, job, ConfirmedIdentity
<1>6. CASE UNCHANGED vars
  BY <1>6 DEF vars, StoreInv, store, job, ConfirmedIdentity
<1>7. QED
  BY <1>2, <1>3, <1>4, <1>5, <1>6 DEF Next

\* A confirm that died or failed half-way and is repeated writes no second ACTIVE record
\* of its statement (find_duplicate of confirm_proposal).
THEOREM NoDuplicateWrittenHolds == ASSUME OneProcess PROVE Spec => NoDuplicateWritten
<1>1. OneProcess
  OBVIOUS
<1>2. Inv /\ TypeInv /\ StoreInv /\ [Next]_vars =>
        [\A p \in Procs : Stores(p) => active[into[p].scope][ConfirmedIdentity(p)] = 0]_vars
  BY DEF StoreInv, Stores
<1>3. QED
  BY <1>1, <1>2, InvInit, LoopStep, CopyStep, InitTypes, TypeStep, InitStore, StoreStep,
     ProposalsInvariant, PTL DEF Spec, NoDuplicateWritten

\* A confirm never stores what is forgotten in the scope it stores it in, as long as it
\* keeps the scope and the kind of the proposal: those are what the tombstone is looked up by.
THEOREM ForgottenNotStoredHolds ==
  ASSUME OneProcess, Overrides = {} PROVE Spec => ForgottenNotStored
<1>1. OneProcess
  OBVIOUS
<1>2. Inv /\ TypeInv /\ StoreInv /\ [Next]_vars =>
        [\A p \in Procs : Stores(p) => ConfirmedIdentity(p) \notin tombs[into[p].scope]]_vars
  BY DEF StoreInv, Stores, Screened
<1>3. QED
  BY <1>1, <1>2, InvInit, LoopStep, CopyStep, InitTypes, TypeStep, InitStore, StoreStep,
     ProposalsInvariant, PTL DEF Spec, ForgottenNotStored

-------------------------------------------------------------------------------
(* What the copy in hand adds, and what it takes away *)

New(p) == Identities(mine[p].queue) \ Identities(queue[file[p]])

Opens(p) == AdmitOpen(p) \/ RemoveOpen(p) \/ Discard(p) \/ ClearScope(p)

LEMMA OpensIs ==
  ASSUME Inv, TypeInv, NEW p \in Procs, Opens(p)
  PROVE  /\ UNCHANGED <<files, store, lastId, horizon, dropped>>
         /\ file'[p] \in Scopes /\ mine'[p].queue \subseteq {x \in queue[file'[p]] : x.id > horizon}
         /\ dropped[file'[p]] \subseteq Range(discarded[file'[p]]) =>
              Remembers(mine'[p], dropped[file'[p]])
         /\ AdmitOpen(p) => mine'[p].refused = {} /\ mine'[p].evicted = {}
         /\ \A x \in queue[file'[p]] :
              \/ x \in mine'[p].queue
              \/ x.id <= horizon \/ IdentityOf(x) \in mine'[p].refused
              \/ (Discard(p) \/ RemoveOpen(p)) /\ x.id = pick'[p].id
         /\ Discard(p) => pick'[p] \in queue[file'[p]]
         /\ RemoveOpen(p) => /\ pick' = pick /\ file' = file
                             /\ \A x \in mine'[p].queue : x.id # pick[p].id
         /\ UNCHANGED drafts
<1>0. LoopInv /\ CopyInv /\ QueueInv /\ p \in DOMAIN file /\ p \in DOMAIN mine
  BY DEF Inv, LoopInv, TypeInv
<1>1. \A s \in Scopes : Open(s).queue \subseteq queue[s]
                        /\ \A x \in queue[s] : x \in Open(s).queue \/ x.id <= horizon
  <2>1. ASSUME NEW s \in Scopes, NEW x \in queue[s] PROVE x.id \in Nat
    BY DEF TypeInv, Known
  <2>2. horizon \in Nat
    BY DEF TypeInv
  <2>3. QED
    BY <2>1, <2>2, OpenIs
<1>2. UNCHANGED <<files, store, lastId, horizon, dropped>> /\ UNCHANGED drafts
  BY DEF Opens, AdmitOpen, RemoveOpen, Discard, ClearScope
<1>3. \A s \in Scopes : dropped[s] \subseteq Range(discarded[s]) => Remembers(Open(s), dropped[s])
  BY OpenIs DEF Remembers
<1>4. CASE AdmitOpen(p)
  <2>1. {d[1] : d \in drafts[p]} \in SUBSET Scopes /\ {d[1] : d \in drafts[p]} # {}
    BY <1>4, <1>0 DEF AdmitOpen, LoopInv
  <2>2. PICK s \in Scopes : mine' = [mine EXCEPT ![p] = Open(s)] /\ file' = [file EXCEPT ![p] = s]
    BY <1>4, <2>1, FirstIsScope DEF AdmitOpen
  <2>3. mine'[p] = Open(s) /\ file'[p] = s
    BY <1>0, <2>2
  <2>4. ~Discard(p) /\ ~RemoveOpen(p)
    BY <1>4 DEF AdmitOpen, Discard, RemoveOpen
  <2>5. QED
    BY <1>1, <1>2, <1>3, <2>3, <2>4, OpenIs
<1>5. CASE RemoveOpen(p)
  <2>1. file[p] \in Scopes /\ UNCHANGED <<pick, file>>
        /\ mine' = [mine EXCEPT ![p] = Without(Open(file[p]), pick[p])]
    BY <1>5, <1>0 DEF RemoveOpen, LoopInv
  <2> DEFINE s == file[p]
             c == Open(s)
  <2>2. mine'[p] = Without(c, pick[p]) /\ file'[p] = s /\ s \in Scopes /\ pick'[p] = pick[p]
    BY <1>0, <2>1
  <2>3. c \in Copies
    BY <2>1, OpenIs
  <2>4. c.queue = {x \in queue[s] : x.id > horizon}
    BY <2>1, OpenIs
  <2>5. dropped[s] \subseteq Range(discarded[s]) => Remembers(c, dropped[s])
    BY <1>3, <2>1
  <2>6. ~Discard(p) /\ ~AdmitOpen(p)
    BY <1>5 DEF AdmitOpen, Discard, RemoveOpen
  <2>7. \A x \in queue[s] : x \in c.queue \/ x.id <= horizon
    BY <1>1, <2>1
  <2> HIDE DEF c, s
  <2>8. /\ mine'[p].queue = {x \in c.queue : x.id # pick[p].id}
        /\ Remembers(c, dropped[s]) => Remembers(mine'[p], dropped[s])
    <3> DEFINE w == Without(c, pick[p])
    <3>1. /\ w.queue = {x \in c.queue : x.id # pick[p].id} /\ w.discarded = c.discarded
          /\ w.refused = c.refused /\ w.evicted = c.evicted
      BY <2>3, WithoutIs
    <3>2. mine'[p] = w
      BY <2>2
    <3> HIDE DEF w
    <3>3. Remembers(c, dropped[s]) => Remembers(w, dropped[s])
      BY <3>1 DEF Remembers
    <3>4. QED
      BY <3>1, <3>2, <3>3
  <2>9. \A x \in queue[s] : x \in mine'[p].queue \/ x.id <= horizon \/ x.id = pick'[p].id
    BY <2>2, <2>7, <2>8
  <2>10. /\ mine'[p].queue \subseteq {x \in queue[s] : x.id > horizon}
         /\ \A x \in mine'[p].queue : x.id # pick[p].id
    BY <2>4, <2>8
  <2>11. dropped[s] \subseteq Range(discarded[s]) => Remembers(mine'[p], dropped[s])
    BY <2>5, <2>8
  <2>12. QED
    BY <1>2, <1>5, <2>1, <2>2, <2>6, <2>9, <2>10, <2>11
<1>6. CASE Discard(p)
  <2>1. PICK s \in Scopes : \E x \in Open(s).queue :
          /\ file' = [file EXCEPT ![p] = s] /\ pick' = [pick EXCEPT ![p] = x]
          /\ mine' = [mine EXCEPT ![p] = DiscardHash(Without(Open(s), x), IdentityOf(x))]
    BY <1>6 DEF Discard
  <2>2. PICK y \in Open(s).queue :
          /\ file' = [file EXCEPT ![p] = s] /\ pick' = [pick EXCEPT ![p] = y]
          /\ mine' = [mine EXCEPT ![p] = DiscardHash(Without(Open(s), y), IdentityOf(y))]
    BY <2>1
  <2> DEFINE c == Open(s)
             w == Without(c, y)
             i == IdentityOf(y)
  <2>3. mine'[p] = DiscardHash(w, i) /\ file'[p] = s /\ pick'[p] = y
    BY <1>0, <2>2 DEF TypeInv
  <2>4. c \in Copies /\ y \in Known /\ i \in Identity /\ y \in queue[s]
    BY OpenIs, IdentityIs DEF Copies
  <2>5. c.queue = {x \in queue[s] : x.id > horizon}
    BY OpenIs
  <2>6. dropped[s] \subseteq Range(discarded[s]) => Remembers(c, dropped[s])
    BY <1>3
  <2>7. ~RemoveOpen(p) /\ ~AdmitOpen(p)
    BY <1>6 DEF AdmitOpen, Discard, RemoveOpen
  <2>8. \A x \in queue[s] : x \in c.queue \/ x.id <= horizon
    BY <1>1
  <2> HIDE DEF c, i
  <2>9. /\ w \in Copies /\ w.queue = {x \in c.queue : x.id # y.id}
        /\ Remembers(c, dropped[s]) => Remembers(w, dropped[s])
    BY <2>4, WithoutIs DEF Remembers
  <2> HIDE DEF w
  <2>10. /\ mine'[p].queue = w.queue
         /\ Remembers(w, dropped[s]) => Remembers(mine'[p], dropped[s])
    BY <2>3, <2>4, <2>9, DiscardHashIs, CopyOperations
  <2>11. \A x \in queue[s] : x \in mine'[p].queue \/ x.id <= horizon \/ x.id = pick'[p].id
    BY <2>3, <2>8, <2>9, <2>10
  <2>12. mine'[p].queue \subseteq {x \in queue[s] : x.id > horizon}
    BY <2>5, <2>9, <2>10
  <2>13. dropped[s] \subseteq Range(discarded[s]) => Remembers(mine'[p], dropped[s])
    BY <2>6, <2>9, <2>10
  <2>14. QED
    BY <1>2, <1>6, <2>3, <2>4, <2>7, <2>11, <2>12, <2>13
<1>7. CASE ClearScope(p)
  <2>1. First(rest[p]) \in Scopes
    BY <1>7, <1>0, FirstIsScope DEF ClearScope, LoopInv
  <2>2. PICK s \in Scopes : /\ file' = [file EXCEPT ![p] = s]
                            /\ mine' = [mine EXCEPT ![p] = Cleared(Open(s))]
    BY <1>7, <2>1 DEF ClearScope
  <2> DEFINE c == Open(s)
  <2>3. mine'[p] = Cleared(c) /\ file'[p] = s
    BY <1>0, <2>2
  <2>4. c \in Copies /\ lastId \in Nat /\ Distinct(c.queue, lastId)
    BY <1>0, OpenIs, CopyOperations, DistinctPart DEF QueueInv
  <2>5. dropped[s] \subseteq Range(discarded[s]) => Remembers(c, dropped[s])
    BY <1>3
  <2>6. ~RemoveOpen(p) /\ ~AdmitOpen(p) /\ ~Discard(p)
    BY <1>7 DEF AdmitOpen, Discard, RemoveOpen, ClearScope
  <2>7. \A x \in queue[s] : x \in c.queue \/ x.id <= horizon
    BY <1>1
  <2> HIDE DEF c
  <2>8. /\ mine'[p].queue = {} /\ Identities(c.queue) \subseteq mine'[p].refused
        /\ Remembers(c, dropped[s]) => Remembers(mine'[p], dropped[s])
    BY <2>3, <2>4, ClearedIs
  <2>9. \A x \in c.queue : IdentityOf(x) \in mine'[p].refused
    BY <2>8 DEF Identities
  <2>10. QED
    BY <1>2, <2>3, <2>5, <2>6, <2>7, <2>8, <2>9
<1>8. QED
  BY <1>4, <1>5, <1>6, <1>7 DEF Opens

\* A copy that has been opened adds nothing.
LEMMA OpensNothingNew ==
  ASSUME Inv, TypeInv, NEW p \in Procs, Opens(p)
  PROVE  New(p)' = {}
<1>1. mine'[p].queue \subseteq queue'[file'[p]]
  BY OpensIs DEF files
<1>2. QED
  BY <1>1 DEF New, Identities

LEMMA AdmitPushIs ==
  ASSUME Inv, TypeInv, NEW p \in Procs, AdmitPush(p)
  PROVE  /\ UNCHANGED <<files, store, horizon, file, pick, dropped>>
         /\ mine'[p].discarded = mine[p].discarded /\ mine'[p].refused = mine[p].refused
         /\ mine'[p].evicted = mine[p].evicted /\ drafts'[p] \subseteq drafts[p]
         /\ \/ mine'[p] = mine[p]
            \/ \E d \in drafts[p], x \in Known :
                 /\ d[1] = file[p] /\ d[2] = IdentityOf(x) /\ x.id = lastId + 1
                 /\ d[2] \notin Range(mine[p].discarded)
                 /\ mine'[p].queue = Newest(mine[p].queue \cup {x})
<1>0. LoopInv /\ lastId \in Nat /\ p \in DOMAIN mine /\ mine[p] \in Copies
  BY DEF Inv, QueueInv, TypeInv
<1>1. PICK d \in drafts[p] :
        /\ d[1] = file[p]
        /\ mine' = [mine EXCEPT ![p] =
             Push(@, [id |-> lastId + 1, kind |-> d[2].kind, text |-> d[2].text])]
        /\ drafts' = [drafts EXCEPT ![p] = @ \ {d}]
  BY DEF AdmitPush
<1> DEFINE x == [id |-> lastId + 1, kind |-> d[2].kind, text |-> d[2].text]
           c == mine[p]
<1>2. d[2] \in Identity
  BY <1>0 DEF LoopInv
<1>3. x \in Known /\ IdentityOf(x) = d[2] /\ x.id = lastId + 1
  BY <1>0, <1>2 DEF Known, Identity, IdentityOf
<1>4. mine'[p] = Push(c, x) /\ drafts'[p] \subseteq drafts[p]
  BY <1>0, <1>1 DEF LoopInv
<1> HIDE DEF x, c
<1>5. c \in Copies
  BY <1>0 DEF c
<1>6. /\ Admissible(c, IdentityOf(x)) => Push(c, x).queue = Newest(c.queue \cup {x})
      /\ ~Admissible(c, IdentityOf(x)) => Push(c, x) = c
      /\ Push(c, x).discarded = c.discarded
      /\ Push(c, x).refused = c.refused /\ Push(c, x).evicted = c.evicted
  BY <1>3, <1>5, PushIs
<1>7. UNCHANGED <<files, store, horizon, file, pick, dropped>>
  BY DEF AdmitPush
<1>8. Admissible(c, d[2]) => d[2] \notin Range(c.discarded)
  BY DEF Admissible
<1>9. QED
  BY <1>1, <1>3, <1>4, <1>6, <1>7, <1>8 DEF c

\* Only what was admitted is new.
LEMMA AdmitPushNew ==
  ASSUME Inv, TypeInv, NEW p \in Procs, AdmitPush(p)
  PROVE  \A i \in New(p)' : \/ i \in New(p)
                            \/ /\ i \notin Range(mine[p].discarded)
                               /\ \E d \in drafts[p] : d[1] = file[p] /\ d[2] = i
<1>0. UNCHANGED <<queue, file>>
  BY AdmitPushIs DEF files
<1>1. CASE mine'[p] = mine[p]
  BY <1>0, <1>1 DEF New
<1>2. ASSUME NEW d \in drafts[p], NEW x \in Known, d[1] = file[p], d[2] = IdentityOf(x),
             d[2] \notin Range(mine[p].discarded),
             mine'[p].queue = Newest(mine[p].queue \cup {x})
      PROVE  \A i \in New(p)' : i \in New(p) \/ i = d[2]
  <2>1. mine'[p].queue \subseteq mine[p].queue \cup {x}
    BY <1>2 DEF Newest
  <2>2. Identities(mine'[p].queue) \subseteq Identities(mine[p].queue) \cup {d[2]}
    BY <1>2, <2>1 DEF Identities
  <2>3. New(p)' = Identities(mine'[p].queue) \ Identities(queue[file[p]])
    BY <1>0 DEF New
  <2>4. QED
    BY <2>2, <2>3 DEF New
<1>3. QED
  BY <1>1, <1>2, AdmitPushIs

\* The steps after which a process has no copy in hand, with the files as they were.
Idles(p) ==
  \/ Refresh(p) \/ Confirm(p) \/ CheckDuplicate(p) \/ Remember(p) \/ CommandFails(p)
  \/ DiscardAll(p) \/ SaveFails(p) \/ Crash(p)
  \/ \E s \in Scopes, i \in Identity : RememberCommand(p, s, i) \/ ForgetCommand(p, s, i)

LEMMA Steps ==
  ASSUME [Next]_vars
  PROVE  \/ \E p \in Procs : \/ Idles(p) \/ Opens(p) \/ AdmitPush(p) \/ AdmitSave(p)
                             \/ SaveProposals(p) \/ SaveDiscarded(p)
         \/ Age \/ UNCHANGED vars
BY DEF Next, Idles, Opens

LEMMA IdlesIs ==
  ASSUME LoopInv, NEW p \in Procs, Idles(p)
  PROVE  pc'[p] \notin InHand \cup HalfSaved /\ UNCHANGED <<queue, discarded, lastId, horizon, dropped>>
<1>1. UNCHANGED <<queue, discarded, lastId, horizon, dropped>>
  BY DEF Idles, Refresh, Confirm, CheckDuplicate, Remember, CommandFails, DiscardAll, SaveFails, Crash,
         RememberCommand, ForgetCommand, files
<1>2. pc'[p] \notin InHand \cup HalfSaved
  <2>1. pc'[p] \in {"admit", "remove", "screened", "new", "confirmed", "idle", "clear"}
    BY Labels DEF Idles
  <2>2. QED
    BY <2>1 DEF InHand, HalfSaved, Saving
<1>3. QED
  BY <1>1, <1>2

LEMMA AdmitSaveIs ==
  ASSUME LoopInv, NEW p \in Procs, AdmitSave(p)
  PROVE  /\ pc[p] = "push" /\ UNCHANGED <<queue, discarded, store, lastId, horizon, dropped>>
         /\ \/ pc'[p] \notin InHand \cup HalfSaved
            \/ pc'[p] = "save" /\ UNCHANGED <<mine, file, pick>>
<1>1. UNCHANGED <<queue, discarded, store, lastId, horizon, dropped>>
  BY DEF AdmitSave, files
<1>2. pc[p] = "push" /\ pc'[p] \in {"save", "admit", "clear", "idle"}
  BY Labels
<1>3. pc'[p] = "save" => UNCHANGED <<mine, file, pick>>
  <2>1. NextScope(p, "done") => pc'[p] # "save"
    BY DEF NextScope, Return, Goto, LoopInv
  <2>2. QED
    BY <2>1 DEF AdmitSave, job
<1>4. QED
  BY <1>1, <1>2, <1>3 DEF InHand, HalfSaved, Saving

\* What enters a queue is what the copy saved over it adds.
LEMMA EnteringIs ==
  ASSUME Inv, TypeInv, [Next]_vars, NEW s \in Scopes, NEW i \in Entering(s)
  PROVE  \E p \in Procs : pc[p] \in Saving /\ file[p] = s /\ i \in New(p)
<1>0. LoopInv
  BY DEF Inv
<1>1. CASE UNCHANGED queue
  BY <1>1 DEF Entering
<1>2. ASSUME NEW p \in Procs, SaveProposals(p) PROVE pc[p] \in Saving /\ file[p] = s /\ i \in New(p)
  <2>1. pc[p] \in Saving /\ queue' = [queue EXCEPT ![file[p]] = mine[p].queue]
    BY <1>2 DEF SaveProposals
  <2>2. queue'[s] = IF s = file[p] THEN mine[p].queue ELSE queue[s]
    BY <2>1 DEF TypeInv
  <2>3. QED
    BY <2>1, <2>2 DEF Entering, New
<1>3. CASE ~UNCHANGED queue
  <2>1. PICK p \in Procs : SaveProposals(p)
    BY <1>0, <1>3, Steps, IdlesIs, AdmitSaveIs, OpensIs, AdmitPushIs
    DEF files, SaveDiscarded, Age, vars
  <2>2. QED
    BY <1>2, <2>1
<1>4. QED
  BY <1>1, <1>3

\* What was dropped is among the hashes, of the file and of the copy that will replace it.
OutInv ==
  /\ \A s \in Scopes : dropped[s] \subseteq Range(discarded[s])
  /\ \A p \in Procs :
       /\ pc[p] \in InHand \cup HalfSaved => Remembers(mine[p], dropped[file[p]])
       /\ pc[p] = "push" => mine[p].refused = {} /\ mine[p].evicted = {}
       /\ pc[p] \in InHand => New(p) \cap dropped[file[p]] = {}

LEMMA InitOut == Init => OutInv
BY DEF Init, OutInv, InHand, HalfSaved, Saving

LEMMA OutStep == OneProcess /\ Inv /\ TypeInv /\ OutInv /\ [Next]_vars => OutInv'
<1> SUFFICES ASSUME OneProcess, Inv, TypeInv, OutInv, [Next]_vars PROVE OutInv'
  OBVIOUS
<1>0. LoopInv /\ \A p, q \in Procs : q = p
  BY DEF Inv, OneProcess
<1>1. ASSUME NEW p \in Procs, pc'[p] \notin InHand \cup HalfSaved, UNCHANGED <<discarded, dropped>>
      PROVE  OutInv'
  <2>1. \A q \in Procs : pc'[q] \notin InHand \cup HalfSaved
    BY <1>0, <1>1
  <2>2. "push" \in InHand
    BY DEF InHand
  <2>3. QED
    BY <1>1, <2>1, <2>2 DEF OutInv
<1>2. ASSUME NEW p \in Procs, Idles(p) PROVE OutInv'
  BY <1>0, <1>1, <1>2, IdlesIs
<1>3. ASSUME NEW p \in Procs, Opens(p) PROVE OutInv'
  <2>1. UNCHANGED <<discarded, dropped>> /\ New(p)' = {} /\ file'[p] \in Scopes
    BY <1>3, OpensIs, OpensNothingNew DEF files
  <2>2. Remembers(mine'[p], dropped[file'[p]])
    BY <1>3, OpensIs, <2>1 DEF OutInv
  <2>3. pc'[p] = "push" => mine'[p].refused = {} /\ mine'[p].evicted = {}
    <3>1. pc'[p] = "push" => AdmitOpen(p)
      BY <1>0, <1>3, Labels DEF Opens
    <3>2. QED
      BY <1>3, <3>1, OpensIs
  <2>4. QED
    BY <1>0, <2>1, <2>2, <2>3 DEF OutInv
<1>4. ASSUME NEW p \in Procs, AdmitPush(p) PROVE OutInv'
  <2>1. pc[p] = "push" /\ pc'[p] = "push"
    BY <1>0, <1>4, Labels
  <2>2. /\ UNCHANGED <<discarded, file, dropped>>
        /\ mine'[p].discarded = mine[p].discarded /\ mine'[p].refused = mine[p].refused
        /\ mine'[p].evicted = mine[p].evicted
    BY <1>4, AdmitPushIs DEF files
  <2>3. /\ Remembers(mine[p], dropped[file[p]]) /\ mine[p].refused = {} /\ mine[p].evicted = {}
        /\ New(p) \cap dropped[file[p]] = {}
    BY <2>1 DEF OutInv, InHand
  <2>4. dropped[file[p]] \subseteq Range(mine[p].discarded)
    BY <2>3 DEF Remembers
  <2>5. New(p)' \cap dropped[file[p]] = {}
    BY <1>4, <2>3, <2>4, AdmitPushNew
  <2>6. Remembers(mine'[p], dropped[file[p]])
    BY <2>2, <2>3 DEF Remembers
  <2>7. QED
    BY <1>0, <2>2, <2>3, <2>5, <2>6 DEF OutInv
<1>5. ASSUME NEW p \in Procs, AdmitSave(p) PROVE OutInv'
  <2>1. CASE pc'[p] \notin InHand \cup HalfSaved
    BY <1>0, <1>1, <1>5, <2>1, AdmitSaveIs
  <2>2. CASE pc'[p] = "save" /\ UNCHANGED <<mine, file, pick>>
    <3>1. pc[p] \in InHand /\ UNCHANGED <<queue, discarded, dropped>>
      BY <1>0, <1>5, AdmitSaveIs DEF InHand
    <3>2. New(p)' = New(p)
      BY <2>2, <3>1 DEF New
    <3>3. QED
      BY <1>0, <2>2, <3>1, <3>2 DEF OutInv
  <2>3. QED
    BY <1>0, <1>5, <2>1, <2>2, AdmitSaveIs
<1>6. ASSUME NEW p \in Procs, SaveProposals(p) PROVE OutInv'
  <2>1. UNCHANGED <<discarded, dropped, mine, file>>
    BY <1>6 DEF SaveProposals, job
  <2>2. pc[p] \in InHand /\ pc'[p] \in HalfSaved
    BY <1>0, <1>6, Labels DEF InHand, HalfSaved, Saving
  <2>3. pc'[p] \notin InHand /\ pc'[p] # "push"
    BY <2>2 DEF InHand, HalfSaved, Saving
  <2>4. QED
    BY <1>0, <2>1, <2>2, <2>3 DEF OutInv
<1>7. ASSUME NEW p \in Procs, SaveDiscarded(p) PROVE OutInv'
  <2>1. /\ discarded' = [discarded EXCEPT ![file[p]] = mine[p].discarded]
        /\ dropped' = [dropped EXCEPT ![file[p]] = (@ \cup mine[p].refused) \ mine[p].evicted]
    BY <1>7 DEF SaveDiscarded
  <2>2. pc[p] \in HalfSaved /\ pc'[p] \notin InHand \cup HalfSaved
    BY <1>0, <1>7, Labels DEF InHand, HalfSaved, Saving
  <2>3. Remembers(mine[p], dropped[file[p]])
    BY <2>2 DEF OutInv
  <2>4. \A s \in Scopes : dropped'[s] \subseteq Range(discarded'[s])
    <3>1. ASSUME NEW s \in Scopes PROVE dropped'[s] \subseteq Range(discarded'[s])
      <4>1. CASE s = file[p]
        <5>1. /\ dropped'[s] = (dropped[file[p]] \cup mine[p].refused) \ mine[p].evicted
              /\ discarded'[s] = mine[p].discarded
          BY <2>1, <4>1 DEF TypeInv
        <5>2. QED
          BY <2>3, <5>1 DEF Remembers
      <4>2. CASE s # file[p]
        BY <2>1, <4>2 DEF TypeInv, OutInv
      <4>3. QED
        BY <4>1, <4>2
    <3>2. QED
      BY <3>1
  <2>5. "push" \in InHand /\ \A q \in Procs : pc'[q] \notin InHand \cup HalfSaved
    BY <1>0, <2>2 DEF InHand
  <2>6. QED
    BY <2>4, <2>5 DEF OutInv
<1>8. CASE Age \/ UNCHANGED vars
  <2>1. UNCHANGED <<queue, discarded, dropped, mine, file, pc>>
    BY <1>8 DEF Age, vars, files, job
  <2>2. \A p \in Procs : New(p)' = New(p)
    BY <2>1 DEF New
  <2>3. QED
    BY <2>1, <2>2 DEF OutInv
<1>9. QED
  BY <1>2, <1>3, <1>4, <1>5, <1>6, <1>7, <1>8, Steps

\* What was discarded does not come back, through evictions, expiry, repeated commands and
\* crashes between the two rewrites (is_discarded and discard_hash).
THEOREM DiscardedStaysOutHolds == ASSUME OneProcess PROVE Spec => DiscardedStaysOut
<1>1. OneProcess
  OBVIOUS
<1>2. Inv /\ TypeInv /\ OutInv /\ [Next]_vars =>
        [\A s \in Scopes : Entering(s) \cap dropped[s] = {}]_vars
  <2>1. ASSUME Inv, TypeInv, OutInv, [Next]_vars, NEW s \in Scopes, NEW i \in Entering(s)
        PROVE  i \notin dropped[s]
    <3>1. PICK p \in Procs : pc[p] \in Saving /\ file[p] = s /\ i \in New(p)
      BY <2>1, EnteringIs
    <3>2. QED
      BY <2>1, <3>1 DEF OutInv, InHand
  <2>2. QED
    BY <2>1
<1>3. QED
  BY <1>1, <1>2, InvInit, LoopStep, CopyStep, InitTypes, TypeStep, InitOut, OutStep,
     ProposalsInvariant, PTL DEF Spec, DiscardedStaysOut

-------------------------------------------------------------------------------
(* What was forgotten *)

\* A command ends with no drafts left, only a refresh finds some, and only a forget, which
\* runs between the other commands, adds tombstones.
LEMMA DraftsAre ==
  ASSUME LoopInv, NEW p \in Procs,
         Idles(p) \/ Opens(p) \/ AdmitPush(p) \/ AdmitSave(p) \/ SaveProposals(p) \/ SaveDiscarded(p)
  PROVE  /\ drafts'[p] \subseteq drafts[p] \/ Refresh(p)
         /\ pc'[p] = "idle" => drafts'[p] = {} \/ (pc[p] = "idle" /\ UNCHANGED drafts)
         /\ UNCHANGED tombs \/ (pc[p] = "idle" /\ pc'[p] = "idle")
<1>0. p \in DOMAIN drafts
  BY DEF LoopInv
<1>1. ASSUME NEW a, Return(p, a) PROVE drafts'[p] = {}
  BY <1>0, <1>1 DEF Return
<1>2. ASSUME NEW a, NextScope(p, a) PROVE drafts'[p] = {} \/ (pc'[p] # "idle" /\ UNCHANGED drafts)
  BY <1>1, <1>2 DEF NextScope, Goto, LoopInv
<1>3. CASE SaveFails(p) \/ CommandFails(p) \/ Crash(p)
  BY <1>1, <1>3 DEF SaveFails, CommandFails, Crash, store
<1>4. CASE AdmitSave(p)
  <2>1. UNCHANGED tombs /\ (NextScope(p, "done") \/ (Goto(p, "save") /\ UNCHANGED drafts))
    BY <1>4 DEF AdmitSave, job, store
  <2>2. Goto(p, "save") => pc'[p] # "idle"
    BY DEF Goto, LoopInv
  <2>3. QED
    BY <1>2, <2>1, <2>2
<1>5. CASE SaveDiscarded(p)
  BY <1>2, <1>5 DEF SaveDiscarded, store
<1>6. CASE AdmitPush(p)
  <2>1. drafts'[p] \subseteq drafts[p] /\ UNCHANGED tombs
    BY <1>6 DEF AdmitPush, store, LoopInv
  <2>2. QED
    BY <1>6, <2>1, Labels
<1>7. CASE Refresh(p)
  BY <1>7, Labels DEF Refresh, store
<1>8. CASE \/ Confirm(p) \/ CheckDuplicate(p) \/ Remember(p) \/ DiscardAll(p) \/ Opens(p)
           \/ SaveProposals(p)
  <2>1. UNCHANGED <<drafts, tombs>>
    BY <1>8 DEF Opens, Confirm, CheckDuplicate, Remember, DiscardAll, AdmitOpen, RemoveOpen,
                Discard, ClearScope, SaveProposals, store, job
  <2>2. pc'[p] # "idle"
    BY <1>8, Labels DEF Opens
  <2>3. QED
    BY <2>1, <2>2
<1>9. CASE \E s \in Scopes, i \in Identity : RememberCommand(p, s, i) \/ ForgetCommand(p, s, i)
  BY <1>9, Labels DEF RememberCommand, ForgetCommand, job
<1>10. QED
  BY <1>3, <1>4, <1>5, <1>6, <1>7, <1>8, <1>9 DEF Idles

\* A refresh that can read the tombstones drafts nothing that is forgotten.
LEMMA RefreshIs ==
  ASSUME LoopInv, "read" \notin Faults, NEW p \in Procs, Refresh(p)
  PROVE  \A d \in drafts'[p] : d[2] \notin tombs[d[1]]
<1>1. PICK found, knowsActive : drafts' = [drafts EXCEPT ![p] = Candidates(found, TRUE, knowsActive)]
  BY DEF Refresh
<1>2. drafts'[p] = Candidates(found, TRUE, knowsActive)
  BY <1>1 DEF LoopInv
<1>3. QED
  BY <1>2 DEF Candidates

\* Neither a draft nor what a copy adds to its file is forgotten.
ForgottenInv ==
  \A p \in Procs :
    /\ pc[p] = "idle" => drafts[p] = {}
    /\ \A d \in drafts[p] : d[2] \notin tombs[d[1]]
    /\ pc[p] \in InHand => New(p) \cap tombs[file[p]] = {}

LEMMA InitForgotten == Init => ForgottenInv
BY DEF Init, ForgottenInv, InHand, Saving

LEMMA ForgottenStep ==
  OneProcess /\ "read" \notin Faults /\ Inv /\ TypeInv /\ ForgottenInv /\ [Next]_vars => ForgottenInv'
<1> SUFFICES ASSUME OneProcess, "read" \notin Faults, Inv, TypeInv, ForgottenInv, [Next]_vars
             PROVE  ForgottenInv'
  OBVIOUS
<1>0. LoopInv /\ \A p, q \in Procs : q = p
  BY DEF Inv, OneProcess
<1>1. ASSUME NEW p \in Procs,
             Idles(p) \/ Opens(p) \/ AdmitPush(p) \/ AdmitSave(p) \/ SaveProposals(p) \/ SaveDiscarded(p)
      PROVE  ForgottenInv'
  <2>1. pc'[p] = "idle" => drafts'[p] = {}
    BY <1>0, <1>1, DraftsAre DEF ForgottenInv
  <2>2. \A d \in drafts'[p] : d[2] \notin tombs'[d[1]]
    <3>1. CASE pc'[p] = "idle"
      BY <2>1, <3>1
    <3>2. CASE pc'[p] # "idle" /\ Refresh(p)
      <4>1. UNCHANGED tombs
        BY <1>0, <1>1, <3>2, DraftsAre
      <4>2. QED
        BY <1>0, <3>2, <4>1, RefreshIs
    <3>3. CASE pc'[p] # "idle" /\ ~Refresh(p)
      <4>1. drafts'[p] \subseteq drafts[p] /\ UNCHANGED tombs
        BY <1>0, <1>1, <3>3, DraftsAre
      <4>2. QED
        BY <4>1 DEF ForgottenInv
    <3>4. QED
      BY <3>1, <3>2, <3>3
  <2>3. ASSUME pc'[p] \in InHand PROVE New(p)' \cap tombs'[file'[p]] = {}
    <3>0. UNCHANGED tombs
      BY <1>0, <1>1, <2>3, DraftsAre DEF InHand, Saving
    <3>1. ~Idles(p) /\ ~SaveProposals(p) /\ ~SaveDiscarded(p)
      BY <1>0, <2>3, IdlesIs, Labels DEF InHand, HalfSaved, Saving
    <3>2. CASE Opens(p)
      BY <3>2, OpensNothingNew
    <3>3. CASE AdmitPush(p)
      <4>1. pc[p] \in InHand /\ UNCHANGED file
        BY <1>0, <3>3, Labels, AdmitPushIs DEF InHand
      <4>2. QED
        BY <3>0, <3>3, <4>1, AdmitPushNew DEF ForgottenInv
    <3>4. CASE AdmitSave(p)
      <4>1. pc[p] \in InHand /\ UNCHANGED <<queue, mine, file>>
        BY <1>0, <2>3, <3>4, AdmitSaveIs DEF InHand
      <4>2. New(p)' = New(p)
        BY <4>1 DEF New
      <4>3. QED
        BY <3>0, <4>1, <4>2 DEF ForgottenInv
    <3>5. QED
      BY <1>1, <3>1, <3>2, <3>3, <3>4
  <2>4. QED
    BY <1>0, <2>1, <2>2, <2>3 DEF ForgottenInv
<1>2. CASE Age \/ UNCHANGED vars
  <2>1. UNCHANGED <<queue, tombs, drafts, mine, file, pc>>
    BY <1>2 DEF Age, vars, files, job, store
  <2>2. \A p \in Procs : New(p)' = New(p)
    BY <2>1 DEF New
  <2>3. QED
    BY <2>1, <2>2 DEF ForgottenInv
<1>3. QED
  BY <1>1, <1>2, Steps

\* What was forgotten before a refresh began is not put into a queue by it (the tombstone
\* check of generate), nor by any other rewrite of a queue, whatever was queued and whatever
\* failed or died before.  The tombstones can be read: a refresh takes unreadable ones for
\* none.  The one process does not forget while it refreshes; a second one could, and the
\* code looks at the tombstones only once.
THEOREM ForgottenNotProposedHolds ==
  ASSUME OneProcess, "read" \notin Faults PROVE Spec => ForgottenNotProposed
<1>1. OneProcess /\ "read" \notin Faults
  OBVIOUS
<1>2. Inv /\ TypeInv /\ ForgottenInv /\ [Next]_vars =>
        [\A s \in Scopes : Entering(s) \cap tombs[s] = {}]_vars
  <2>1. ASSUME Inv, TypeInv, ForgottenInv, [Next]_vars, NEW s \in Scopes, NEW i \in Entering(s)
        PROVE  i \notin tombs[s]
    <3>1. PICK p \in Procs : pc[p] \in Saving /\ file[p] = s /\ i \in New(p)
      BY <2>1, EnteringIs
    <3>2. QED
      BY <2>1, <3>1 DEF ForgottenInv, InHand
  <2>2. QED
    BY <2>1
<1>3. QED
  BY <1>1, <1>2, InvInit, LoopStep, CopyStep, InitTypes, TypeStep, InitForgotten, ForgottenStep,
     ProposalsInvariant, PTL DEF Spec, ForgottenNotProposed

-------------------------------------------------------------------------------
(* What was confirmed *)

\* No id of q is in a queue of another scope than s.
Apart(q, s) == \A t \in Scopes \ {s} : \A x \in q, y \in queue[t] : x.id # y.id

CrossInv ==
  /\ \A s \in Scopes : Apart(queue[s], s)
  /\ \A p \in Procs : pc[p] \in InHand => Apart(mine[p].queue, file[p])

LEMMA InitCross == Init => CrossInv
BY DEF Init, CrossInv, Apart, InHand, Saving

LEMMA CrossStep == OneProcess /\ Inv /\ TypeInv /\ CrossInv /\ [Next]_vars => CrossInv'
<1> SUFFICES ASSUME OneProcess, Inv, TypeInv, CrossInv, [Next]_vars PROVE CrossInv'
  OBVIOUS
<1>0. LoopInv /\ QueueInv /\ \A p, q \in Procs : q = p
  BY DEF Inv, OneProcess
<1>1. ASSUME NEW p \in Procs, UNCHANGED queue,
             pc'[p] \in InHand => Apart(mine'[p].queue, file'[p])
      PROVE  CrossInv'
  BY <1>0, <1>1 DEF CrossInv, Apart
<1>2. ASSUME NEW p \in Procs, Idles(p) PROVE CrossInv'
  BY <1>0, <1>1, <1>2, IdlesIs
<1>3. ASSUME NEW p \in Procs, Opens(p) PROVE CrossInv'
  <2>1. UNCHANGED queue /\ file'[p] \in Scopes /\ mine'[p].queue \subseteq queue[file'[p]]
    BY <1>3, OpensIs DEF files
  <2>2. Apart(mine'[p].queue, file'[p])
    BY <2>1 DEF CrossInv, Apart
  <2>3. QED
    BY <1>1, <2>1, <2>2
<1>4. ASSUME NEW p \in Procs, AdmitPush(p) PROVE CrossInv'
  <2>1. UNCHANGED <<queue, file>> /\ Apart(mine[p].queue, file[p])
    BY <1>0, <1>4, AdmitPushIs, Labels DEF files, CrossInv, InHand
  <2>2. ASSUME NEW x, x.id = lastId + 1, mine'[p].queue = Newest(mine[p].queue \cup {x})
        PROVE  Apart(mine'[p].queue, file[p])
    <3>1. mine'[p].queue \subseteq mine[p].queue \cup {x}
      BY <2>2 DEF Newest
    <3>2. \A t \in Scopes : \A y \in queue[t] : x.id # y.id
      BY <1>0, <2>2 DEF QueueInv, Distinct
    <3>3. QED
      BY <2>1, <3>1, <3>2 DEF Apart
  <2>3. Apart(mine'[p].queue, file'[p])
    BY <1>4, <2>1, <2>2, AdmitPushIs
  <2>4. QED
    BY <1>1, <2>1, <2>3
<1>5. ASSUME NEW p \in Procs, AdmitSave(p) PROVE CrossInv'
  <2>1. UNCHANGED queue /\ pc[p] \in InHand
    BY <1>0, <1>5, AdmitSaveIs DEF InHand
  <2>2. pc'[p] \in InHand => UNCHANGED <<mine, file>>
    BY <1>0, <1>5, AdmitSaveIs
  <2>3. QED
    BY <1>1, <2>1, <2>2 DEF CrossInv
<1>6. ASSUME NEW p \in Procs, SaveProposals(p) PROVE CrossInv'
  <2>1. queue' = [queue EXCEPT ![file[p]] = mine[p].queue] /\ Apart(mine[p].queue, file[p])
    BY <1>6 DEF SaveProposals, CrossInv, InHand
  <2>2. \A s \in Scopes : queue'[s] = IF s = file[p] THEN mine[p].queue ELSE queue[s]
    BY <2>1 DEF TypeInv
  <2>3. \A s \in Scopes : Apart(queue[s], s)
    BY DEF CrossInv
  <2>4. \A s \in Scopes : Apart(queue[s], s)'
    BY <2>1, <2>2, <2>3 DEF Apart
  <2>5. pc'[p] \notin InHand
    BY <1>0, <1>6, Labels DEF InHand, Saving
  <2>6. QED
    BY <1>0, <2>4, <2>5 DEF CrossInv
<1>7. ASSUME NEW p \in Procs, SaveDiscarded(p) PROVE CrossInv'
  <2>1. UNCHANGED queue
    BY <1>7 DEF SaveDiscarded
  <2>2. pc'[p] \notin InHand
    BY <1>0, <1>7, Labels DEF InHand, Saving
  <2>3. QED
    BY <1>1, <2>1, <2>2
<1>8. CASE Age \/ UNCHANGED vars
  BY <1>8 DEF Age, vars, files, job, CrossInv, Apart
<1>9. QED
  BY <1>2, <1>3, <1>4, <1>5, <1>6, <1>7, <1>8, Steps

Confirming == {"screened", "new", "confirmed", "saveConfirmed", "finishConfirmed"}

\* The proposal that is being confirmed is in no queue but the one that is rewritten without it.
ConfirmInv ==
  \A p \in Procs :
    /\ pc[p] \in Confirming => \A s \in Scopes : s # file[p] => pick[p] \notin queue[s]
    /\ pc[p] = "saveConfirmed" => pick[p] \notin mine[p].queue
    /\ pc[p] = "finishConfirmed" => pick[p] \notin queue[file[p]]

LEMMA InitConfirm == Init => ConfirmInv
BY DEF Init, ConfirmInv, Confirming

LEMMA ConfirmIs ==
  ASSUME LoopInv, TypeInv, CrossInv, Overrides = {}, NEW p \in Procs, Confirm(p),
         pc'[p] = "screened"
  PROVE  \A s \in Scopes : s # file'[p] => pick'[p] \notin queue'[s]
<1>1. PICK s \in Scopes : \E x \in Open(s).queue :
        /\ pick' = [pick EXCEPT ![p] = x]
        /\ Goto(p, "remove") \/ file' = [file EXCEPT ![p] = s]
  BY DEF Confirm
<1>2. PICK x \in Open(s).queue : /\ pick' = [pick EXCEPT ![p] = x]
                                 /\ Goto(p, "remove") \/ file' = [file EXCEPT ![p] = s]
  BY <1>1
<1>3. pick'[p] = x /\ file'[p] = s /\ UNCHANGED queue
  BY <1>2 DEF Confirm, files, LoopInv, TypeInv, Goto
<1>4. x \in queue[s]
  BY OpenIs
<1>5. \A t \in Scopes \ {s} : \A y \in queue[t] : x.id # y.id
  BY <1>4 DEF CrossInv, Apart
<1>6. QED
  BY <1>3, <1>5

LEMMA ConfirmStep ==
  /\ OneProcess /\ Overrides = {}
  /\ Inv /\ TypeInv /\ CrossInv /\ ConfirmInv /\ [Next]_vars
  => ConfirmInv'
<1> SUFFICES ASSUME OneProcess, Overrides = {}, Inv, TypeInv, CrossInv, ConfirmInv, [Next]_vars
             PROVE  ConfirmInv'
  OBVIOUS
<1>0. LoopInv /\ \A p, q \in Procs : q = p
  BY DEF Inv, OneProcess
<1>1. ASSUME NEW p \in Procs, pc'[p] \notin Confirming PROVE ConfirmInv'
  BY <1>0, <1>1 DEF ConfirmInv, Confirming
<1>2. ASSUME NEW p \in Procs, Confirm(p) PROVE ConfirmInv'
  <2>1. pc'[p] = "remove" \/ pc'[p] = "screened"
    BY <1>0, <1>2, Labels
  <2>2. CASE pc'[p] = "remove"
    BY <1>1, <2>2 DEF Confirming
  <2>3. CASE pc'[p] = "screened"
    <3>1. \A s \in Scopes : s # file'[p] => pick'[p] \notin queue'[s]
      BY <1>0, <1>2, <2>3, ConfirmIs
    <3>2. QED
      BY <1>0, <2>3, <3>1 DEF ConfirmInv
  <2>4. QED
    BY <2>1, <2>2, <2>3
<1>3. ASSUME NEW p \in Procs, CheckDuplicate(p) \/ Remember(p) PROVE ConfirmInv'
  <2>1. pc[p] \in Confirming /\ pc'[p] \in {"remove", "new", "confirmed"}
    BY <1>0, <1>3, Labels DEF Confirming
  <2>2. UNCHANGED <<queue, pick, file>>
    BY <1>3 DEF CheckDuplicate, Remember, files, job
  <2>3. QED
    BY <1>0, <2>1, <2>2 DEF ConfirmInv
<1>4. ASSUME NEW p \in Procs, RemoveOpen(p) PROVE ConfirmInv'
  <2>1. UNCHANGED <<queue, pick, file>> /\ pick[p] \notin mine'[p].queue
    BY <1>4, OpensIs DEF Opens, files
  <2>2. pc'[p] = "save" \/ (pc'[p] = "saveConfirmed" /\ pc[p] \in Confirming)
    BY <1>0, <1>4, Labels DEF Confirming
  <2>3. CASE pc'[p] = "save"
    BY <1>1, <2>3 DEF Confirming
  <2>4. CASE pc'[p] = "saveConfirmed" /\ pc[p] \in Confirming
    BY <1>0, <2>1, <2>4 DEF ConfirmInv
  <2>5. QED
    BY <2>2, <2>3, <2>4
<1>5. ASSUME NEW p \in Procs, SaveProposals(p) PROVE ConfirmInv'
  <2>1. queue' = [queue EXCEPT ![file[p]] = mine[p].queue] /\ UNCHANGED <<file, mine, pick>>
    BY <1>5 DEF SaveProposals, job
  <2>2. /\ \A s \in Scopes : s # file[p] => queue'[s] = queue[s]
        /\ queue'[file[p]] = mine[p].queue
    BY <1>0, <2>1 DEF TypeInv, LoopInv
  <2>3. \/ pc'[p] = "finish"
        \/ pc[p] = "saveConfirmed" /\ pc'[p] = "finishConfirmed" /\ pc[p] \in Confirming
    BY <1>0, <1>5, Labels DEF Confirming
  <2>4. CASE pc'[p] = "finish"
    BY <1>1, <2>4 DEF Confirming
  <2>5. CASE pc[p] = "saveConfirmed" /\ pc'[p] = "finishConfirmed" /\ pc[p] \in Confirming
    BY <1>0, <2>1, <2>2, <2>5 DEF ConfirmInv
  <2>6. QED
    BY <2>3, <2>4, <2>5
<1>6. ASSUME NEW p \in Procs,
             \/ Refresh(p) \/ AdmitOpen(p) \/ AdmitPush(p) \/ AdmitSave(p) \/ CommandFails(p)
             \/ Discard(p) \/ DiscardAll(p) \/ ClearScope(p) \/ SaveDiscarded(p) \/ SaveFails(p)
             \/ \E s \in Scopes, i \in Identity : RememberCommand(p, s, i) \/ ForgetCommand(p, s, i)
             \/ Crash(p)
      PROVE  ConfirmInv'
  <2>1. pc'[p] \notin Confirming
    BY <1>0, <1>6, Labels DEF Confirming
  <2>2. QED
    BY <1>1, <2>1
<1>7. CASE Age \/ UNCHANGED vars
  BY <1>7 DEF Age, vars, files, job, ConfirmInv
<1>8. QED
  BY <1>2, <1>3, <1>4, <1>5, <1>6, <1>7 DEF Next

\* Only the last write of a confirm reports one.
LEMMA ConfirmedIsLast ==
  ASSUME LoopInv, TypeInv, [Next]_vars, NEW p \in Procs,
         reply[p] # "confirmed", reply'[p] = "confirmed"
  PROVE  pc[p] = "finishConfirmed" /\ UNCHANGED queue
<1>1. \A q \in Procs : \A a : Return(q, a) => reply'[p] = IF q = p THEN a ELSE reply[p]
  BY DEF Return, TypeInv
<1>2. \A q \in Procs : \A a : NextScope(q, a) => reply'[p] \in {reply[p], a} /\ (q # p => reply'[p] = reply[p])
  BY <1>1 DEF NextScope
<1>3. \A q \in Procs : reply' = [reply EXCEPT ![q] = "none"] => reply'[p] \in {"none", reply[p]}
  BY DEF TypeInv
<1>4. \A q \in Procs : ~(Refresh(q) \/ Confirm(q) \/ Discard(q) \/ DiscardAll(q))
  BY <1>3 DEF Refresh, Confirm, Discard, DiscardAll
<1>5. \A q \in Procs : ~(SaveFails(q) \/ CommandFails(q) \/ Crash(q))
  BY <1>1 DEF SaveFails, CommandFails, Crash
<1>6. \A q \in Procs : ~AdmitSave(q)
  BY <1>2 DEF AdmitSave
<1>7. \A q \in Procs : ~(AdmitOpen(q) \/ AdmitPush(q) \/ CheckDuplicate(q) \/ Remember(q)
                         \/ RemoveOpen(q) \/ ClearScope(q) \/ SaveProposals(q))
  BY DEF AdmitOpen, AdmitPush, CheckDuplicate, Remember, RemoveOpen, ClearScope, SaveProposals
<1>8. \A q \in Procs, s \in Scopes, i \in Identity : ~(RememberCommand(q, s, i) \/ ForgetCommand(q, s, i))
  BY DEF RememberCommand, ForgetCommand
<1>9. ~Age /\ ~UNCHANGED vars
  BY DEF Age, vars
<1>10. PICK q \in Procs : SaveDiscarded(q)
  BY <1>4, <1>5, <1>6, <1>7, <1>8, <1>9 DEF Next
<1>11. UNCHANGED queue /\ NextScope(q, IF pc[q] = "finishConfirmed" THEN "confirmed" ELSE "done")
  BY <1>10 DEF SaveDiscarded
<1>12. q = p /\ pc[p] = "finishConfirmed"
  BY <1>2, <1>11
<1>13. QED
  BY <1>11, <1>12

\* A confirm that reports success has taken its proposal off the queues (remove_and_save), as
\* long as it keeps the scope of the proposal: it opens the queue it confirms into.
THEOREM ConfirmedLeavesQueueHolds ==
  ASSUME OneProcess, Overrides = {} PROVE Spec => ConfirmedLeavesQueue
<1>1. OneProcess /\ Overrides = {}
  OBVIOUS
<1>2. Inv /\ TypeInv /\ ConfirmInv /\ [Next]_vars =>
        [\A p \in Procs : reply[p] # "confirmed" /\ reply'[p] = "confirmed"
           => \A s \in Scopes : pick[p] \notin queue'[s]]_vars
  <2>1. ASSUME Inv, TypeInv, ConfirmInv, [Next]_vars, NEW p \in Procs, NEW s \in Scopes,
               reply[p] # "confirmed", reply'[p] = "confirmed"
        PROVE  pick[p] \notin queue'[s]
    <3>1. pc[p] = "finishConfirmed" /\ UNCHANGED queue
      BY <2>1, ConfirmedIsLast DEF Inv
    <3>2. QED
      BY <2>1, <3>1 DEF ConfirmInv, Confirming
  <2>2. QED
    BY <2>1
<1>3. QED
  BY <1>1, <1>2, InvInit, LoopStep, CopyStep, InitTypes, TypeStep, InitCross, CrossStep,
     InitConfirm, ConfirmStep, ProposalsInvariant, PTL DEF Spec, ConfirmedLeavesQueue

-------------------------------------------------------------------------------
(* What stays *)

\* A queue within its bound that gets a proposal newer than all it has stays within the
\* bound, and loses at most the oldest one.
LEMMA NewestIs ==
  ASSUME NEW q \in SUBSET Known, IsFiniteSet(q), Cardinality(q) <= MaxProposals,
         \A y, z \in q : y # z => y.id # z.id,
         NEW x \in Known, \A y \in q : y.id < x.id,
         NEW n, n = Newest(q \cup {x})
  PROVE  /\ IsFiniteSet(n) /\ Cardinality(n) <= MaxProposals
         /\ Cardinality(q) = MaxProposals => Cardinality(n) = MaxProposals
         /\ \A y \in q \ n : Cardinality(n) = MaxProposals /\ \A z \in n : z.id > y.id
<1> DEFINE r == q \cup {x}
           After(y) == {z \in r : z.id > y.id}
<1>1. x \notin q /\ \A y \in r : y.id \in Nat
  BY DEF Known
<1>2. /\ IsFiniteSet(r) /\ Cardinality(r) = Cardinality(q) + 1
      /\ Cardinality(q) \in Nat /\ MaxProposals \in Nat
  BY <1>1, FS_AddElement, FS_CardinalityType, BoundsAssumption
<1>3. \A y, z \in r : y # z => y.id # z.id
  BY <1>1 DEF Known
<1>4. n = {y \in r : Cardinality(After(y)) < MaxProposals}
  BY DEF Newest
<1> HIDE DEF r
<1>5. CASE Cardinality(q) < MaxProposals
  <2>1. ASSUME NEW y \in r PROVE Cardinality(After(y)) < MaxProposals
    <3>1. After(y) \in SUBSET (r \ {y})
      BY <1>1
    <3>2. IsFiniteSet(r \ {y}) /\ Cardinality(r \ {y}) = Cardinality(r) - 1
      BY <1>2, FS_RemoveElement
    <3>3. Cardinality(After(y)) <= Cardinality(r \ {y}) /\ IsFiniteSet(After(y))
      BY <3>1, <3>2, FS_Subset
    <3>4. Cardinality(After(y)) \in Nat
      BY <3>3, FS_CardinalityType
    <3>5. QED
      BY <1>2, <1>5, <3>2, <3>3, <3>4
  <2>2. n = r
    BY <1>4, <2>1
  <2>3. QED
    BY <1>2, <1>5, <2>2 DEF r
<1>6. CASE Cardinality(q) = MaxProposals
  <2>1. PICK m \in r : \A y \in r : m.id <= y.id
    <3> DEFINE ids == {y.id : y \in r}
    <3>1. ids \subseteq Nat /\ ids # {}
      BY <1>1 DEF r
    <3> HIDE DEF ids
    <3>2. PICK k \in ids : \A j \in ids : k <= j
      BY <3>1, Least
    <3>3. QED
      BY <3>2 DEF ids
  <2>2. IsFiniteSet(r \ {m}) /\ Cardinality(r \ {m}) = MaxProposals
    <3>1. IsFiniteSet(r \ {m}) /\ Cardinality(r \ {m}) = Cardinality(r) - 1
      BY <1>2, <2>1, FS_RemoveElement
    <3>2. QED
      BY <1>2, <1>6, <3>1
  <2>3. \A y \in r \ {m} : y.id > m.id
    BY <1>1, <1>3, <2>1
  <2>4. m \notin n
    <3>1. After(m) = r \ {m}
      BY <1>1, <2>1, <2>3
    <3>2. Cardinality(After(m)) = MaxProposals
      BY <2>2, <3>1
    <3>3. ~(Cardinality(After(m)) < MaxProposals)
      BY <1>2, <3>2
    <3>4. QED
      BY <1>4, <3>3
  <2>5. ASSUME NEW y \in r \ {m} PROVE Cardinality(After(y)) < MaxProposals
    <3>1. After(y) \in SUBSET ((r \ {m}) \ {y})
      BY <1>1, <2>1
    <3>2. /\ IsFiniteSet((r \ {m}) \ {y})
          /\ Cardinality((r \ {m}) \ {y}) = MaxProposals - 1
      BY <2>2, FS_RemoveElement
    <3>3. Cardinality(After(y)) <= Cardinality((r \ {m}) \ {y}) /\ IsFiniteSet(After(y))
      BY <3>1, <3>2, FS_Subset
    <3>4. Cardinality(After(y)) \in Nat
      BY <3>3, FS_CardinalityType
    <3>5. QED
      BY <1>2, <3>2, <3>3, <3>4
  <2>6. n = r \ {m}
    BY <1>4, <2>4, <2>5
  <2>7. \A y \in q \ n : y = m
    BY <2>6 DEF r
  <2>8. IsFiniteSet(n) /\ Cardinality(n) = MaxProposals /\ \A z \in n : z.id > m.id
    BY <2>2, <2>3, <2>6
  <2>9. ASSUME NEW y \in q \ n PROVE Cardinality(n) = MaxProposals /\ \A z \in n : z.id > y.id
    BY <2>7, <2>8
  <2>10. Cardinality(n) <= MaxProposals
    BY <1>2, <2>8
  <2>11. QED
    BY <2>8, <2>9, <2>10
<1>7. Cardinality(q) < MaxProposals \/ Cardinality(q) = MaxProposals
  BY <1>2
<1>8. QED
  BY <1>5, <1>6, <1>7

\* The proposal a process has picked is the only one of its id.
SameInv ==
  \A p \in Procs : pc[p] \in Deciding =>
    \A s \in Scopes : \A y \in queue[s] : y.id = pick[p].id => y = pick[p]

LEMMA InitSame == Init => SameInv
BY DEF Init, SameInv, Deciding

LEMMA SameStep == OneProcess /\ Inv /\ TypeInv /\ CrossInv /\ SameInv /\ [Next]_vars => SameInv'
<1> SUFFICES ASSUME OneProcess, Inv, TypeInv, CrossInv, SameInv, [Next]_vars PROVE SameInv'
  OBVIOUS
<1>0. LoopInv /\ QueueInv /\ \A p, q \in Procs : q = p
  BY DEF Inv, OneProcess
<1>1. ASSUME NEW p \in Procs, pc'[p] \notin Deciding PROVE SameInv'
  BY <1>0, <1>1 DEF SameInv
<1>2. ASSUME NEW p \in Procs, Confirm(p) PROVE SameInv'
  <2>1. PICK s \in Scopes : \E x \in Open(s).queue : pick' = [pick EXCEPT ![p] = x]
    BY <1>2 DEF Confirm
  <2>2. PICK x \in Open(s).queue : pick' = [pick EXCEPT ![p] = x]
    BY <2>1
  <2>3. x \in queue[s]
    BY OpenIs
  <2>4. pick'[p] = x /\ UNCHANGED queue
    BY <1>2, <2>2 DEF Confirm, files, TypeInv
  <2>5. \A t \in Scopes : \A y \in queue[t] : y.id = x.id => t = s
    BY <2>3 DEF CrossInv, Apart
  <2>6. \A y \in queue[s] : y.id = x.id => y = x
    BY <1>0, <2>3 DEF QueueInv, Distinct
  <2>7. QED
    BY <1>0, <2>4, <2>5, <2>6 DEF SameInv
<1>3. ASSUME NEW p \in Procs, CheckDuplicate(p) \/ Remember(p) PROVE SameInv'
  <2>1. pc[p] \in Deciding
    BY <1>0, <1>3, Labels DEF Deciding
  <2>2. UNCHANGED <<queue, pick>>
    BY <1>3 DEF CheckDuplicate, Remember, files, job
  <2>3. QED
    BY <1>0, <2>1, <2>2 DEF SameInv
<1>4. ASSUME NEW p \in Procs,
             \/ Refresh(p) \/ AdmitOpen(p) \/ AdmitPush(p) \/ AdmitSave(p) \/ CommandFails(p)
             \/ RemoveOpen(p) \/ Discard(p) \/ DiscardAll(p) \/ ClearScope(p)
             \/ SaveProposals(p) \/ SaveDiscarded(p) \/ SaveFails(p)
             \/ \E s \in Scopes, i \in Identity : RememberCommand(p, s, i) \/ ForgetCommand(p, s, i)
             \/ Crash(p)
      PROVE  SameInv'
  <2>1. pc'[p] \notin Deciding
    BY <1>0, <1>4, Labels DEF Deciding
  <2>2. QED
    BY <1>1, <2>1
<1>5. CASE Age \/ UNCHANGED vars
  BY <1>5 DEF Age, vars, files, job, SameInv
<1>6. QED
  BY <1>2, <1>3, <1>4, <1>5 DEF Next

Bounded(q) == IsFiniteSet(q) /\ Cardinality(q) <= MaxProposals

\* Why the queue r, which comes after q, may lack x.
Leaves(x, r, p) ==
  \/ x.id <= horizon
  \/ Cardinality(r) = MaxProposals /\ \A y \in r : y.id > x.id
  \/ x = pick[p] \/ IdentityOf(x) \in mine[p].refused

\* The copy in hand lacks what expired, what makes room, and what the user decided on.
KeptInv ==
  /\ \A s \in Scopes : Bounded(queue[s])
  /\ \A p \in Procs : pc[p] \in InHand =>
       /\ Bounded(mine[p].queue)
       /\ \A x \in queue[file[p]] \ mine[p].queue : Leaves(x, mine[p].queue, p)

LEMMA BoundedPart ==
  ASSUME NEW q, Bounded(q), NEW r \in SUBSET q
  PROVE  Bounded(r)
<1>1. IsFiniteSet(r) /\ Cardinality(r) <= Cardinality(q)
  BY FS_Subset DEF Bounded
<1>2. Cardinality(r) \in Nat /\ Cardinality(q) \in Nat /\ MaxProposals \in Nat
  BY <1>1, FS_CardinalityType, BoundsAssumption DEF Bounded
<1>3. QED
  BY <1>1, <1>2 DEF Bounded

LEMMA InitKept == Init => KeptInv
<1>1. Bounded({})
  BY FS_EmptySet, BoundsAssumption DEF Bounded
<1>2. QED
  BY <1>1 DEF Init, KeptInv, InHand, Saving

LEMMA OpensKept ==
  ASSUME Inv, TypeInv, SameInv, KeptInv, NEW p \in Procs, Opens(p)
  PROVE  /\ Bounded(mine'[p].queue)
         /\ \A x \in queue[file'[p]] \ mine'[p].queue : Leaves(x, mine[p].queue, p)'
<1>1. file'[p] \in Scopes /\ mine'[p].queue \in SUBSET queue[file'[p]] /\ UNCHANGED horizon
  BY OpensIs
<1>2. Bounded(mine'[p].queue)
  BY <1>1, BoundedPart DEF KeptInv
<1>3. ASSUME NEW x \in queue[file'[p]], x.id = pick'[p].id, Discard(p) \/ RemoveOpen(p)
      PROVE  x = pick'[p]
  <2>1. CASE Discard(p)
    BY <1>1, <1>3, <2>1, OpensIs DEF Inv, QueueInv, Distinct
  <2>2. CASE RemoveOpen(p)
    <3>1. pc[p] \in Deciding /\ pick' = pick
      BY <2>2, OpensIs DEF RemoveOpen, Deciding
    <3>2. QED
      BY <1>1, <1>3, <3>1 DEF SameInv
  <2>3. QED
    BY <1>3, <2>1, <2>2
<1>4. \A x \in queue[file'[p]] \ mine'[p].queue :
        x.id <= horizon \/ IdentityOf(x) \in mine'[p].refused \/ x = pick'[p]
  BY <1>3, OpensIs
<1>5. QED
  BY <1>1, <1>2, <1>4 DEF Leaves

LEMMA AdmitPushKept ==
  ASSUME Inv, TypeInv, KeptInv, NEW p \in Procs, AdmitPush(p)
  PROVE  /\ Bounded(mine'[p].queue)
         /\ \A x \in queue[file[p]] \ mine'[p].queue : Leaves(x, mine[p].queue, p)'
<1>0. pc[p] \in InHand /\ file[p] \in Scopes /\ mine[p] \in Copies /\ lastId \in Nat
  BY Labels DEF Inv, LoopInv, QueueInv, TypeInv, InHand
<1>1. UNCHANGED <<horizon, pick>> /\ mine'[p].refused = mine[p].refused
  BY AdmitPushIs
<1> DEFINE q == mine[p].queue
           n == mine'[p].queue
<1>2. /\ Bounded(q)
      /\ \A x \in queue[file[p]] \ q :
           \/ x.id <= horizon
           \/ Cardinality(q) = MaxProposals /\ \A y \in q : y.id > x.id
           \/ x = pick[p] \/ IdentityOf(x) \in mine[p].refused
  BY <1>0 DEF KeptInv, Leaves
<1>3. CASE n = q
  BY <1>1, <1>2, <1>3 DEF Leaves
<1>4. ASSUME NEW x \in Known, x.id = lastId + 1, n = Newest(q \cup {x})
      PROVE  /\ Bounded(n)
             /\ \A y \in queue[file[p]] \ n : Leaves(y, mine[p].queue, p)'
  <2>1. q \in SUBSET Known /\ Distinct(q, lastId)
    BY <1>0 DEF Copies, Inv, CopyInv
  <2>2. \A y \in q : y.id < x.id
    BY <1>0, <1>4, <2>1 DEF Distinct
  <2>3. /\ Bounded(n) /\ n \subseteq q \cup {x}
        /\ Cardinality(q) = MaxProposals => Cardinality(n) = MaxProposals
        /\ \A y \in q \ n : Cardinality(n) = MaxProposals /\ \A z \in n : z.id > y.id
    <3> HIDE DEF q, n
    <3>1. \A y, z \in q : y # z => y.id # z.id
      BY <2>1 DEF Distinct
    <3>2. n \subseteq q \cup {x}
      BY <1>4 DEF Newest
    <3>3. QED
      BY <1>2, <1>4, <2>1, <2>2, <3>1, <3>2, NewestIs DEF Bounded
  <2>4. \A y \in queue[file[p]] : x.id > y.id
    BY <1>0, <1>4 DEF Inv, QueueInv, Distinct
  <2>5. ASSUME NEW y \in queue[file[p]] \ n PROVE Leaves(y, mine[p].queue, p)'
    <3>1. CASE y \in q
      BY <2>3, <3>1, <2>5 DEF Leaves
    <3>2. CASE y \notin q /\ Cardinality(q) = MaxProposals /\ \A z \in q : z.id > y.id
      <4>1. Cardinality(n) = MaxProposals /\ \A z \in n : z.id > y.id
        BY <2>3, <2>4, <3>2
      <4>2. QED
        BY <4>1 DEF Leaves
    <3>3. CASE y.id <= horizon \/ y = pick[p] \/ IdentityOf(y) \in mine[p].refused
      BY <1>1, <3>3 DEF Leaves
    <3>4. QED
      BY <1>2, <3>1, <3>2, <3>3
  <2>6. QED
    BY <2>3, <2>5
<1>5. QED
  BY <1>3, <1>4, <1>2, AdmitPushIs

LEMMA KeptStep == OneProcess /\ Inv /\ TypeInv /\ SameInv /\ KeptInv /\ [Next]_vars => KeptInv'
<1> SUFFICES ASSUME OneProcess, Inv, TypeInv, SameInv, KeptInv, [Next]_vars PROVE KeptInv'
  OBVIOUS
<1>0. LoopInv /\ \A p, q \in Procs : q = p
  BY DEF Inv, OneProcess
<1>1. ASSUME NEW p \in Procs, UNCHANGED queue, pc'[p] \notin InHand PROVE KeptInv'
  BY <1>0, <1>1 DEF KeptInv
<1>2. ASSUME NEW p \in Procs, UNCHANGED queue, Bounded(mine'[p].queue),
             \A x \in queue[file'[p]] \ mine'[p].queue : Leaves(x, mine[p].queue, p)'
      PROVE  KeptInv'
  BY <1>0, <1>2 DEF KeptInv
<1>3. ASSUME NEW p \in Procs, Idles(p) PROVE KeptInv'
  BY <1>0, <1>1, <1>3, IdlesIs
<1>4. ASSUME NEW p \in Procs, Opens(p) PROVE KeptInv'
  <2>1. UNCHANGED queue
    BY <1>4, OpensIs DEF files
  <2>2. QED
    BY <1>2, <1>4, <2>1, OpensKept
<1>5. ASSUME NEW p \in Procs, AdmitPush(p) PROVE KeptInv'
  <2>1. UNCHANGED <<queue, file>>
    BY <1>5, AdmitPushIs DEF files
  <2>2. QED
    BY <1>2, <1>5, <2>1, AdmitPushKept
<1>6. ASSUME NEW p \in Procs, AdmitSave(p) PROVE KeptInv'
  <2>1. UNCHANGED <<queue, horizon>> /\ pc[p] \in InHand
    BY <1>0, <1>6, AdmitSaveIs DEF InHand
  <2>2. CASE pc'[p] \notin InHand
    BY <1>1, <2>1, <2>2
  <2>3. CASE pc'[p] = "save" /\ UNCHANGED <<mine, file, pick>>
    <3>1. \A x : Leaves(x, mine[p].queue, p)' <=> Leaves(x, mine[p].queue, p)
      BY <2>1, <2>3 DEF Leaves
    <3>2. QED
      BY <1>0, <2>1, <2>3, <3>1 DEF KeptInv
  <2>4. QED
    BY <1>0, <1>6, <2>2, <2>3, AdmitSaveIs
<1>7. ASSUME NEW p \in Procs, SaveProposals(p) PROVE KeptInv'
  <2>1. queue' = [queue EXCEPT ![file[p]] = mine[p].queue] /\ pc[p] \in InHand
    BY <1>7 DEF SaveProposals, InHand
  <2>2. \A s \in Scopes : queue'[s] = IF s = file[p] THEN mine[p].queue ELSE queue[s]
    BY <2>1 DEF TypeInv
  <2>3. pc'[p] \notin InHand
    BY <1>0, <1>7, Labels DEF InHand, Saving
  <2>4. QED
    BY <1>0, <2>1, <2>2, <2>3 DEF KeptInv
<1>8. ASSUME NEW p \in Procs, SaveDiscarded(p) PROVE KeptInv'
  <2>1. UNCHANGED queue
    BY <1>8 DEF SaveDiscarded
  <2>2. pc'[p] \notin InHand
    BY <1>0, <1>8, Labels DEF InHand, Saving
  <2>3. QED
    BY <1>1, <2>1, <2>2
<1>9. CASE Age
  <2>1. UNCHANGED <<queue, mine, file, pick, pc>> /\ horizon' = horizon + 1 /\ horizon \in Nat
    BY <1>9 DEF Age, files, job, TypeInv
  <2>2. ASSUME NEW p \in Procs, NEW x \in queue[file[p]], Leaves(x, mine[p].queue, p)
        PROVE  Leaves(x, mine[p].queue, p)'
    <3>1. x.id \in Nat
      BY <1>0 DEF TypeInv, LoopInv, Known
    <3>2. x.id <= horizon => x.id <= horizon + 1
      BY <2>1, <3>1
    <3>3. QED
      BY <2>1, <2>2, <3>2 DEF Leaves
  <2>3. QED
    BY <2>1, <2>2 DEF KeptInv
<1>10. CASE UNCHANGED vars
  BY <1>10 DEF vars, files, job, KeptInv, Leaves
<1>11. QED
  BY <1>3, <1>4, <1>5, <1>6, <1>7, <1>8, <1>9, <1>10, Steps

\* A queue stays within its bound.
THEOREM BoundHolds ==
  ASSUME OneProcess PROVE Spec => [](\A s \in Scopes : Cardinality(queue[s]) <= MaxProposals)
<1>1. OneProcess
  OBVIOUS
<1>2. KeptInv => \A s \in Scopes : Cardinality(queue[s]) <= MaxProposals
  BY DEF KeptInv, Bounded
<1>3. QED
  BY <1>1, <1>2, InvInit, LoopStep, CopyStep, InitTypes, TypeStep, InitCross, CrossStep,
     InitSame, SameStep, InitKept, KeptStep, ProposalsInvariant, PTL DEF Spec

\* A proposal leaves a queue when it expires, when the bound makes room or when the user
\* decides on it, and no failure or crash takes it away (ProposalQueue::save and its callers).
THEOREM ProposalsKeptHolds == ASSUME OneProcess PROVE Spec => ProposalsKept
<1>1. OneProcess
  OBVIOUS
<1>2. Inv /\ TypeInv /\ KeptInv /\ [Next]_vars =>
        [\A s \in Scopes : \A x \in queue[s] \ queue'[s] :
           \/ x.id <= horizon
           \/ Cardinality(queue'[s]) = MaxProposals /\ \A y \in queue'[s] : y.id > x.id
           \/ \E p \in Procs : x = pick[p] \/ IdentityOf(x) \in mine[p].refused]_vars
  <2>1. ASSUME Inv, TypeInv, KeptInv, [Next]_vars, NEW s \in Scopes, NEW x \in queue[s] \ queue'[s]
        PROVE  \/ x.id <= horizon
               \/ Cardinality(queue'[s]) = MaxProposals /\ \A y \in queue'[s] : y.id > x.id
               \/ \E p \in Procs : x = pick[p] \/ IdentityOf(x) \in mine[p].refused
    <3>1. ~UNCHANGED queue
      BY <2>1
    <3>2. PICK p \in Procs : SaveProposals(p)
      BY <2>1, <3>1, Steps, IdlesIs, AdmitSaveIs, OpensIs, AdmitPushIs
      DEF Inv, files, SaveDiscarded, Age, vars
    <3>3. pc[p] \in InHand /\ queue' = [queue EXCEPT ![file[p]] = mine[p].queue]
      BY <3>2 DEF SaveProposals, InHand
    <3>4. s = file[p] /\ queue'[s] = mine[p].queue
      BY <2>1, <3>3 DEF TypeInv
    <3>5. Leaves(x, mine[p].queue, p)
      BY <2>1, <3>3, <3>4 DEF KeptInv
    <3>6. QED
      BY <3>4, <3>5 DEF Leaves
  <2>2. QED
    BY <2>1
<1>3. QED
  BY <1>1, <1>2, InvInit, LoopStep, CopyStep, InitTypes, TypeStep, InitCross, CrossStep,
     InitSame, SameStep, InitKept, KeptStep, ProposalsInvariant, PTL DEF Spec, ProposalsKept

===============================================================================
