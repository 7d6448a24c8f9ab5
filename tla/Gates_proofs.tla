------------------------------ MODULE Gates_proofs ------------------------------
(***************************************************************************)
(* The adapter's own gates: a command runs only by the answer to its gate, *)
(* a boundary is committed or given up only by the answer to the gate that *)
(* shows it, and nothing of the kind happens during a turn.  Assumed there *)
(* is that no question of the agent offers the very options of a gate of   *)
(* the adapter, by which answer_revert and answer_command recognise their  *)
(* gates.                                                                  *)
(*                                                                         *)
(* The questions of the agent: an answer goes to the field that the gate   *)
(* is about.  Assumed there is that no other client answers a form: then   *)
(* the adapter forgets its fields but leaves the gates.                    *)
(***************************************************************************)
EXTENDS Gates, WellFoundedInduction, TLAPS

\* The gates of the adapter in a tail.
IsOwn(b) == b.options \in {"revert", "command"}

TailsTyped ==
  /\ active \in Sessions
  /\ busy \subseteq Sessions
  /\ tail \in [Sessions -> Seq(Block)]
  /\ command \in Writers \cup {None}
  /\ staged \in [Sessions -> Messages \cup {None}]

\* The working indicator of a running turn is over the adapter's gates.
BusyInv ==
  \A s \in busy : \A i \in DOMAIN tail[s] :
    IsOwn(tail[s][i]) => \E j \in DOMAIN tail[s] : i < j /\ tail[s][j] = Working

\* The last gate of a staged revert shows the boundary that is staged.
RevertInv ==
  \A s \in Sessions : \A i \in DOMAIN tail[s] :
    /\ tail[s][i].options = "revert"
    /\ \A j \in DOMAIN tail[s] : i < j => tail[s][j].options # "revert"
    => tail[s][i].of = staged[s]

GateInv == TailsTyped /\ CommandGateIsPending /\ BusyInv /\ RevertInv

-------------------------------------------------------------------------------
(* Blocks *)

\* Unless the agent imitates them, the options tell the adapter's gates.
LEMMA OwnBlocks ==
  ASSUME AgentOptions = {"agent"}, NEW b \in Block
  PROVE  /\ b.options = "command" => b.of \in Writers /\ b = CommandGate(b.of)
         /\ b.options = "revert" => b.of \in Messages /\ b = RevertGate(b.of)
         /\ b = Working => ~IsOwn(b)
         /\ b.kind = "permission" => ~IsOwn(b)
BY DEF Block, Working, RevertGate, CommandGate, QuestionGate, IsOwn

-------------------------------------------------------------------------------
(* What the steps do to a tail *)

\* The tails stay as they are, and nobody becomes busy.
LEMMA SameTails ==
  ASSUME GateInv, TailsTyped', UNCHANGED <<tail, command, staged>>, busy' \subseteq busy
  PROVE  GateInv'
BY DEF GateInv, CommandGateIsPending, BusyInv, RevertInv

\* One tail is emptied: what is pending may change for its session, and the command too
\* if the gate that asks for it was in there.
LEMMA EmptiedTail ==
  ASSUME GateInv, TailsTyped', NEW x \in Sessions, Bury(x),
         busy' \subseteq busy \cup {x},
         \A s \in Sessions \ {x} : staged'[s] = staged[s],
         \/ command' = command
         \/ \E i \in DOMAIN tail[x] : tail[x][i].options = "command"
  PROVE  GateInv'
<1> USE DEF GateInv
<1>1. /\ DOMAIN tail'[x] = {}
      /\ \A s \in Sessions \ {x} : tail'[s] = tail[s]
  BY DEF TailsTyped, Bury
<1>2. CommandGateIsPending'
  <2> SUFFICES ASSUME NEW s \in Sessions, NEW t \in Sessions,
                      NEW i \in DOMAIN tail'[s], NEW j \in DOMAIN tail'[t],
                      tail'[s][i].options = "command", tail'[t][j].options = "command"
               PROVE  s = t /\ i = j /\ tail'[s][i].of = command'
    BY DEF CommandGateIsPending
  <2>1. s # x /\ t # x /\ tail'[s] = tail[s] /\ tail'[t] = tail[t]
    BY <1>1
  <2>2. s = t /\ i = j /\ tail[s][i].of = command
    BY <2>1 DEF CommandGateIsPending
  <2>3. command' = command
    BY <2>1, <1>1 DEF CommandGateIsPending
  <2> QED
    BY <2>1, <2>2, <2>3
<1>3. BusyInv'
  <2> SUFFICES ASSUME NEW s \in busy', NEW i \in DOMAIN tail'[s], IsOwn(tail'[s][i])
               PROVE  \E j \in DOMAIN tail'[s] : i < j /\ tail'[s][j] = Working
    BY DEF BusyInv
  <2>1. s \in Sessions /\ s # x
    BY <1>1 DEF TailsTyped
  <2>2. s \in busy /\ tail'[s] = tail[s]
    BY <1>1, <2>1
  <2> QED
    BY <2>2 DEF BusyInv
<1>4. RevertInv'
  BY <1>1 DEF RevertInv
<1> QED
  BY <1>2, <1>3, <1>4

\* One tail grows by blocks that are not gates of the adapter; its session becomes busy
\* only under a working indicator.
LEMMA GrownTail ==
  ASSUME GateInv, TailsTyped', NEW x \in Sessions,
         \A s \in Sessions \ {x} : tail'[s] = tail[s],
         Len(tail[x]) <= Len(tail'[x]),
         \A i \in 1..Len(tail[x]) : tail'[x][i] = tail[x][i],
         \A i \in 1..Len(tail'[x]) : Len(tail[x]) < i => ~IsOwn(tail'[x][i]),
         \/ busy' = busy
         \/ /\ busy' = busy \cup {x}
            /\ tail'[x] # <<>> /\ tail'[x][Len(tail'[x])] = Working,
         ~IsOwn(Working),
         UNCHANGED <<command, staged>>
  PROVE  GateInv'
<1> USE DEF GateInv
<1>1. /\ tail[x] \in Seq(Block) /\ tail'[x] \in Seq(Block)
      /\ DOMAIN tail[x] = 1..Len(tail[x]) /\ DOMAIN tail'[x] = 1..Len(tail'[x])
      /\ Len(tail[x]) \in Nat /\ Len(tail'[x]) \in Nat
  BY DEF TailsTyped
<1>2. \A i \in DOMAIN tail'[x] :
        IsOwn(tail'[x][i]) => i \in DOMAIN tail[x] /\ tail'[x][i] = tail[x][i]
  BY <1>1
<1>3. \A s \in Sessions : \A i \in DOMAIN tail'[s] :
        IsOwn(tail'[s][i]) => i \in DOMAIN tail[s] /\ tail'[s][i] = tail[s][i]
  BY <1>2
<1>4. \A s \in Sessions : \A i \in DOMAIN tail[s] :
        i \in DOMAIN tail'[s] /\ tail'[s][i] = tail[s][i]
  BY <1>1
<1>5. CommandGateIsPending'
  BY <1>3 DEF CommandGateIsPending, IsOwn
<1>6. BusyInv'
  <2> SUFFICES ASSUME NEW s \in busy', NEW i \in DOMAIN tail'[s], IsOwn(tail'[s][i])
               PROVE  \E j \in DOMAIN tail'[s] : i < j /\ tail'[s][j] = Working
    BY DEF BusyInv
  <2>1. s \in Sessions
    BY DEF TailsTyped
  <2>2. CASE s \in busy
    <3>1. i \in DOMAIN tail[s] /\ IsOwn(tail[s][i])
      BY <1>3, <2>1
    <3>2. PICK j \in DOMAIN tail[s] : i < j /\ tail[s][j] = Working
      BY <2>2, <3>1 DEF BusyInv
    <3> QED
      BY <1>4, <2>1, <3>2
  <2>3. CASE s \notin busy
    <3>1. s = x /\ tail'[x] # <<>> /\ tail'[x][Len(tail'[x])] = Working
      BY <2>3
    <3>2. Len(tail'[x]) \in DOMAIN tail'[x]
      BY <1>1, <3>1
    <3>3. i # Len(tail'[x])
      BY <3>1
    <3> QED
      BY <1>1, <3>1, <3>2, <3>3
  <2> QED
    BY <2>2, <2>3
<1>7. RevertInv'
  <2> SUFFICES ASSUME NEW s \in Sessions, NEW i \in DOMAIN tail'[s],
                      tail'[s][i].options = "revert",
                      \A j \in DOMAIN tail'[s] : i < j => tail'[s][j].options # "revert"
               PROVE  tail'[s][i].of = staged'[s]
    BY DEF RevertInv
  <2>1. i \in DOMAIN tail[s] /\ tail'[s][i] = tail[s][i]
    BY <1>3 DEF IsOwn
  <2>2. \A j \in DOMAIN tail[s] : i < j => tail[s][j].options # "revert"
    BY <1>4
  <2> QED
    BY <2>1, <2>2 DEF RevertInv
<1> QED
  BY <1>5, <1>6, <1>7

\* One tail loses its last block, which is no gate of the adapter, and no working
\* indicator unless its session is idle.
LEMMA PoppedTail ==
  ASSUME GateInv, TailsTyped', NEW x \in Sessions,
         tail[x] # <<>>, tail' = [tail EXCEPT ![x] = Pop(tail[x])],
         ~IsOwn(Last(tail[x])),
         busy' \subseteq busy, Last(tail[x]) = Working => x \notin busy',
         UNCHANGED <<command, staged>>
  PROVE  GateInv'
<1> USE DEF GateInv
<1> DEFINE n == Len(tail[x])
<1>1. /\ tail[x] \in Seq(Block) /\ n \in Nat /\ n > 0 /\ DOMAIN tail[x] = 1..n
      /\ Last(tail[x]) = tail[x][n]
  BY DEF TailsTyped, Last
<1>2. /\ \A s \in Sessions \ {x} : tail'[s] = tail[s]
      /\ tail'[x] = SubSeq(tail[x], 1, n - 1)
  BY DEF TailsTyped, Pop
<1>3. /\ DOMAIN tail'[x] = 1..(n - 1)
      /\ \A i \in 1..(n - 1) : tail'[x][i] = tail[x][i]
  BY <1>1, <1>2
<1> HIDE DEF n
<1>4. \A s \in Sessions : \A i \in DOMAIN tail'[s] :
        i \in DOMAIN tail[s] /\ tail'[s][i] = tail[s][i]
  BY <1>1, <1>2, <1>3
<1>5. \A s \in Sessions : \A i \in DOMAIN tail[s] :
        i \notin DOMAIN tail'[s] => s = x /\ i = n
  BY <1>1, <1>2, <1>3
<1>6. CommandGateIsPending'
  BY <1>4 DEF CommandGateIsPending
<1>7. BusyInv'
  <2> SUFFICES ASSUME NEW s \in busy', NEW i \in DOMAIN tail'[s], IsOwn(tail'[s][i])
               PROVE  \E j \in DOMAIN tail'[s] : i < j /\ tail'[s][j] = Working
    BY DEF BusyInv
  <2>1. s \in Sessions /\ s \in busy
    BY DEF TailsTyped
  <2>2. i \in DOMAIN tail[s] /\ IsOwn(tail[s][i])
    BY <1>4, <2>1
  <2>3. PICK j \in DOMAIN tail[s] : i < j /\ tail[s][j] = Working
    BY <2>1, <2>2 DEF BusyInv
  <2>4. j \in DOMAIN tail'[s]
    BY <1>1, <1>5, <2>1, <2>3
  <2> QED
    BY <1>4, <2>1, <2>3, <2>4
<1>8. RevertInv'
  <2> SUFFICES ASSUME NEW s \in Sessions, NEW i \in DOMAIN tail'[s],
                      tail'[s][i].options = "revert",
                      \A j \in DOMAIN tail'[s] : i < j => tail'[s][j].options # "revert"
               PROVE  tail'[s][i].of = staged'[s]
    BY DEF RevertInv
  <2>1. i \in DOMAIN tail[s] /\ tail'[s][i] = tail[s][i]
    BY <1>4
  <2>2. \A j \in DOMAIN tail[s] : i < j => tail[s][j].options # "revert"
    <3> SUFFICES ASSUME NEW j \in DOMAIN tail[s], i < j
                 PROVE  tail[s][j].options # "revert"
      OBVIOUS
    <3>1. CASE j \in DOMAIN tail'[s]
      BY <1>4, <3>1
    <3>2. CASE j \notin DOMAIN tail'[s]
      BY <1>1, <1>5, <3>2 DEF IsOwn
    <3> QED
      BY <3>1, <3>2
  <2> QED
    BY <2>1, <2>2 DEF RevertInv
<1> QED
  BY <1>6, <1>7, <1>8

-------------------------------------------------------------------------------
(* Types *)

\* The blocks the steps push.
LEMMA PushedBlocks ==
  /\ Working \in Block
  /\ \A r \in Permissions : PermissionGate(r) \in Block
  /\ \A q \in Field, o \in AgentOptions : QuestionGate(q, o) \in Block
  /\ \A m \in Messages : RevertGate(m) \in Block
  /\ \A c \in Writers : CommandGate(c) \in Block
BY DEF Block, PermissionGate, QuestionGate, RevertGate, CommandGate, Working

\* The gates of a form, one for each field.
LEMMA FormGatesTyped ==
  ASSUME NEW f \in Forms, NEW n \in 1..MaxFields, NEW o \in AgentOptions
  PROVE  /\ FormGates(f, n, o) \in Seq(Block)
         /\ \A k \in 1..Len(FormGates(f, n, o)) : FormGates(f, n, o)[k].options = o
<1>1. n \in Nat /\ \A k \in 1..n : FormFields(f, n)[k] \in Field
  BY MaxFieldsAssumption DEF FormFields, Field
<1>2. \A k \in 1..n : /\ QuestionGate(FormFields(f, n)[k], o) \in Block
                      /\ QuestionGate(FormFields(f, n)[k], o).options = o
  BY <1>1, PushedBlocks DEF QuestionGate
<1>3. QED
  BY <1>1, <1>2 DEF FormGates

\* Every step keeps the tails sequences of blocks.
LEMMA TypesKept ==
  ASSUME TailsTyped, [Next]_vars
  PROVE  TailsTyped'
<1> USE PushedBlocks DEF TailsTyped
<1>1. \A x \in Sessions : Bury(x) => tail' \in [Sessions -> Seq(Block)]
  BY DEF Bury
<1>2. ASSUME NEW x \in Sessions, NEW q \in Seq(Block), tail' = [tail EXCEPT ![x] = q]
      PROVE  tail' \in [Sessions -> Seq(Block)]
  BY <1>2
<1>3. \A x \in Sessions : tail[x] # <<>> => Pop(tail[x]) \in Seq(Block)
  BY DEF Pop
<1>4. \A q \in Seq(Block), b \in Block : Append(q, b) \in Seq(Block)
  OBVIOUS
<1>5. CASE Say \/ Prompt \/ Refused \/ Fork \/ ReadOnlyCommand
  BY <1>1, <1>5 DEF Say, Prompt, Refused, Fork, ReadOnlyCommand, RunCommand, pending, server
<1>6. ASSUME NEW m \in Messages, StageRevert(m) PROVE TailsTyped'
  <2>1. CASE \E shown \in {<<>>, tail[active]} :
               tail' = [tail EXCEPT ![active] = Append(shown, RevertGate(m))]
    <3>1. PICK shown \in {<<>>, tail[active]} :
            tail' = [tail EXCEPT ![active] = Append(shown, RevertGate(m))]
      BY <2>1
    <3>2. shown = <<>> \/ shown = tail[active]
      BY <3>1
    <3>3. <<>> \in Seq(Block) /\ tail[active] \in Seq(Block)
      OBVIOUS
    <3>4. tail' \in [Sessions -> Seq(Block)]
      BY <1>4, <1>2, <3>1, <3>2, <3>3
    <3> QED
      BY <1>6, <3>4 DEF StageRevert
  <2>2. CASE Bury(active)
    BY <1>1, <1>6, <2>2 DEF StageRevert
  <2> QED
    BY <1>6, <2>1, <2>2 DEF StageRevert
<1>7. ASSUME NEW c \in Writers, ExecuteCommand(c) PROVE TailsTyped'
  <2>1. Append(tail[active], CommandGate(c)) \in Seq(Block)
    BY <1>4
  <2>2. tail' \in [Sessions -> Seq(Block)]
    BY <1>1, <1>2, <1>7, <2>1 DEF ExecuteCommand
  <2> QED
    BY <1>7, <2>2 DEF ExecuteCommand, server
<1>8. CASE ResolvePermission
  BY <1>1, <1>3, <1>8 DEF ResolvePermission, Blocker
<1>9. CASE CommitRevert \/ AbandonRevert
  BY <1>1, <1>9 DEF CommitRevert, AbandonRevert
<1>10. CASE ConfirmCommand \/ CancelCommand
  BY <1>1, <1>10 DEF ConfirmCommand, CancelCommand, RunCommand, server
<1>11. CASE AnswerLocally \/ AnswerBeyond \/ ReplyForm
  BY <1>1, <1>11 DEF AnswerLocally, AnswerBeyond, ReplyForm, pending, server
<1>12. CASE Cancel \/ ConnectionLost
  BY <1>1, <1>12 DEF Cancel, ConnectionLost, pending, server
<1>13. ASSUME NEW s \in Sessions,
              \/ Select(s) \/ Started(s) \/ Ended(s) \/ EndedOtherwise(s)
              \/ Compacting(s) \/ Output(s)
       PROVE  TailsTyped'
  <2>1. Spin(tail[s]) \in Seq(Block)
    BY DEF Spin
  <2>2. Retire(tail[s]) \in Seq(Block)
    BY <1>3 DEF Retire, EndsWorking
  <2>3. CASE Select(s) \/ EndedOtherwise(s) \/ Output(s)
    BY <1>1, <2>3 DEF Select, EndedOtherwise, Output, pending, server
  <2>4. CASE Started(s) \/ Compacting(s)
    BY <2>1, <2>4 DEF Started, Compacting, pending, server
  <2>5. CASE Ended(s)
    BY <2>2, <2>5 DEF Ended, pending, server
  <2> QED
    BY <1>13, <2>3, <2>4, <2>5
<1>14. ASSUME NEW s \in Sessions, NEW r \in Permissions, AskPermission(s, r)
       PROVE  TailsTyped'
  BY <1>14 DEF AskPermission
<1>15. ASSUME NEW s \in Sessions, NEW f \in Forms, AskForm(s, f)
       PROVE  TailsTyped'
  <2>1. PICK n \in 1..MaxFields, o \in AgentOptions :
          tail' = [tail EXCEPT ![s] = @ \o FormGates(f, n, o)]
    BY <1>15 DEF AskForm
  <2>2. FormGates(f, n, o) \in Seq(Block)
    BY FormGatesTyped
  <2>3. tail' \in [Sessions -> Seq(Block)]
    BY <2>1, <2>2
  <2> QED
    BY <1>15, <2>3 DEF AskForm
<1>16. ASSUME NEW r \in Requests, AnsweredElsewhere(r) \/ Replied(r) \/ Missed(r)
       PROVE  TailsTyped'
  BY <1>16 DEF AnsweredElsewhere, Replied, Missed, pending
<1>17. CASE UNCHANGED vars
  BY <1>17 DEF vars, pending, server
<1>18. QED
  BY <1>5, <1>6, <1>7, <1>8, <1>9, <1>10, <1>11, <1>12, <1>13, <1>14, <1>15, <1>16, <1>17
  DEF Next

-------------------------------------------------------------------------------
(* The steps *)

\* What happens to the tail of an idle session is no matter of BusyInv.
LEMMA IdleTail ==
  ASSUME GateInv, NEW x \in Sessions \ busy, busy' = busy,
         \A s \in Sessions \ {x} : tail'[s] = tail[s]
  PROVE  BusyInv'
<1> SUFFICES ASSUME NEW s \in busy', NEW i \in DOMAIN tail'[s], IsOwn(tail'[s][i])
             PROVE  \E j \in DOMAIN tail'[s] : i < j /\ tail'[s][j] = Working
  BY DEF BusyInv
<1>1. s \in busy /\ tail'[s] = tail[s]
  BY DEF GateInv, TailsTyped
<1>2. QED
  BY <1>1 DEF GateInv, BusyInv

\* A staged boundary comes with the gate that shows it, in a session that is idle.
LEMMA StageKeeps ==
  ASSUME AgentOptions = {"agent"}, GateInv, TailsTyped', NEW m \in Messages, StageRevert(m)
  PROVE  GateInv'
<1> USE DEF GateInv
<1>1. active \in Sessions /\ active \notin busy /\ busy' = busy /\ command' = command
  BY DEF TailsTyped, StageRevert
<1>2. CASE Bury(active)
  <2>1. \A s \in Sessions \ {active} : staged'[s] = staged[s]
    BY DEF StageRevert, TailsTyped
  <2> QED
    BY <1>1, <1>2, <2>1, EmptiedTail
<1>3. ASSUME NEW shown \in {<<>>, tail[active]},
             staged' = [staged EXCEPT ![active] = m],
             tail' = [tail EXCEPT ![active] = Append(shown, RevertGate(m))]
      PROVE  GateInv'
  <2> DEFINE n == Len(shown)
  <2>1. /\ tail[active] \in Seq(Block) /\ tail'[active] = Append(shown, RevertGate(m))
        /\ staged'[active] = m
        /\ \A s \in Sessions \ {active} : tail'[s] = tail[s] /\ staged'[s] = staged[s]
    BY <1>3, <1>1 DEF TailsTyped
  <2>2. shown \in Seq(Block) /\ n \in Nat /\ (n = 0 \/ shown = tail[active])
    <3>1. shown = <<>> \/ shown = tail[active]
      BY <1>3
    <3>2. <<>> \in Seq(Block) /\ Len(<<>>) = 0
      OBVIOUS
    <3>3. CASE shown = <<>>
      BY <3>2, <3>3
    <3>4. CASE shown = tail[active]
      <4>1. shown \in Seq(Block)
        BY <2>1, <3>4
      <4> QED
        BY <3>4, <4>1
    <3> QED
      BY <3>1, <3>3, <3>4
  <2>3. /\ DOMAIN tail'[active] = 1..(n + 1)
        /\ tail'[active][n + 1] = RevertGate(m)
        /\ \A i \in 1..n : tail'[active][i] = shown[i]
    BY <2>1, <2>2, PushedBlocks
  <2>4. \A i \in 1..n : i \in DOMAIN tail[active] /\ tail'[active][i] = tail[active][i]
    BY <2>1, <2>2, <2>3
  <2> HIDE DEF n
  <2>5. RevertGate(m).options = "revert" /\ RevertGate(m).of = m
    BY DEF RevertGate, QuestionGate
  <2>6. CommandGateIsPending'
    <3>1. \A s \in Sessions : \A i \in DOMAIN tail'[s] :
            tail'[s][i].options = "command" => i \in DOMAIN tail[s] /\ tail'[s][i] = tail[s][i]
      BY <2>1, <2>2, <2>3, <2>4, <2>5
    <3> QED
      BY <1>1, <3>1 DEF CommandGateIsPending
  <2>7. BusyInv'
    BY <1>1, <2>1, IdleTail
  <2>8. RevertInv'
    <3> SUFFICES ASSUME NEW s \in Sessions, NEW i \in DOMAIN tail'[s],
                        tail'[s][i].options = "revert",
                        \A j \in DOMAIN tail'[s] : i < j => tail'[s][j].options # "revert"
                 PROVE  tail'[s][i].of = staged'[s]
      BY DEF RevertInv
    <3>1. CASE s = active
      <4>1. i = n + 1
        BY <2>2, <2>3, <2>5, <3>1
      <4> QED
        BY <2>1, <2>3, <2>5, <3>1, <4>1
    <3>2. CASE s # active
      BY <2>1, <3>2 DEF RevertInv
    <3> QED
      BY <3>1, <3>2
  <2> QED
    BY <2>6, <2>7, <2>8
<1> QED
  BY <1>2, <1>3 DEF StageRevert

\* A command is asked for only while no other is, so its gate is the only one.
LEMMA ExecuteKeeps ==
  ASSUME AgentOptions = {"agent"}, GateInv, TailsTyped', NEW c \in Writers, ExecuteCommand(c)
  PROVE  GateInv'
<1> USE DEF GateInv
<1>1. /\ active \in Sessions /\ active \notin busy /\ busy' = busy /\ staged' = staged
      /\ tail \in [Sessions -> Seq(Block)]
  BY DEF TailsTyped, ExecuteCommand, server
<1>2. CASE command # None
  BY <1>1, <1>2, EmptiedTail DEF ExecuteCommand
<1>3. CASE command = None
  <2> DEFINE n == Len(tail[active])
  <2>1. /\ command' = c /\ tail'[active] = Append(tail[active], CommandGate(c))
        /\ tail[active] \in Seq(Block)
        /\ \A s \in Sessions \ {active} : tail'[s] = tail[s]
    BY <1>1, <1>3 DEF ExecuteCommand
  <2>2. /\ n \in Nat /\ DOMAIN tail'[active] = 1..(n + 1) /\ DOMAIN tail[active] = 1..n
        /\ tail'[active][n + 1] = CommandGate(c)
        /\ \A i \in 1..n : tail'[active][i] = tail[active][i]
    BY <2>1, PushedBlocks
  <2> HIDE DEF n
  <2>3. CommandGate(c).options = "command" /\ CommandGate(c).of = c
    BY DEF CommandGate, QuestionGate
  <2>4. \A s \in Sessions : \A i \in DOMAIN tail[s] : tail[s][i].options # "command"
    <3> SUFFICES ASSUME NEW s \in Sessions, NEW i \in DOMAIN tail[s],
                        tail[s][i].options = "command"
                 PROVE  FALSE
      OBVIOUS
    <3>1. tail[s][i] \in Block
      BY <1>1
    <3>2. tail[s][i].of \in Writers /\ tail[s][i].of = None
      BY <1>3, <3>1, OwnBlocks DEF CommandGateIsPending
    <3> QED
      BY <3>2, NoneAssumption
  <2>5. \A s \in Sessions : \A i \in DOMAIN tail'[s] :
          tail'[s][i].options = "command" => s = active /\ i = n + 1
    <3>1. \A s \in Sessions \ {active} : \A i \in DOMAIN tail'[s] :
            tail'[s][i].options # "command"
      BY <2>1, <2>4
    <3>2. \A i \in 1..n : tail'[active][i].options # "command"
      BY <1>1, <2>2, <2>4
    <3>3. \A i \in DOMAIN tail'[active] : i \in 1..n \/ i = n + 1
      BY <2>2
    <3> QED
      BY <3>1, <3>2, <3>3
  <2>6. CommandGateIsPending'
    BY <2>1, <2>2, <2>3, <2>5 DEF CommandGateIsPending
  <2>7. BusyInv'
    BY <1>1, <2>1, IdleTail
  <2>8. RevertInv'
    <3> SUFFICES ASSUME NEW s \in Sessions, NEW i \in DOMAIN tail'[s],
                        tail'[s][i].options = "revert",
                        \A j \in DOMAIN tail'[s] : i < j => tail'[s][j].options # "revert"
                 PROVE  tail'[s][i].of = staged[s]
      BY <1>1 DEF RevertInv
    <3>1. i \in DOMAIN tail[s] /\ tail'[s][i] = tail[s][i]
      BY <2>1, <2>2, <2>3
    <3>2. \A j \in DOMAIN tail[s] : j \in DOMAIN tail'[s] /\ tail'[s][j] = tail[s][j]
      BY <2>1, <2>2
    <3> QED
      BY <3>1, <3>2 DEF RevertInv
  <2> QED
    BY <2>6, <2>7, <2>8
<1> QED
  BY <1>2, <1>3

\* The working indicator goes over what is there.
LEMMA SpinGrows ==
  ASSUME NEW q \in Seq(Block), ~IsOwn(Working)
  PROVE  /\ Spin(q) \in Seq(Block) /\ Spin(q) # <<>> /\ Spin(q)[Len(Spin(q))] = Working
         /\ Len(q) <= Len(Spin(q))
         /\ \A i \in 1..Len(q) : Spin(q)[i] = q[i]
         /\ \A i \in 1..Len(Spin(q)) : Len(q) < i => ~IsOwn(Spin(q)[i])
<1>1. CASE EndsWorking(q)
  BY <1>1 DEF Spin, EndsWorking, Last
<1>2. CASE ~EndsWorking(q)
  <2>1. Spin(q) = Append(q, Working)
    BY <1>2 DEF Spin
  <2>2. /\ Len(Spin(q)) = Len(q) + 1 /\ Spin(q)[Len(q) + 1] = Working
        /\ \A i \in 1..Len(q) : Spin(q)[i] = q[i]
        /\ Spin(q) \in Seq(Block) /\ Len(q) \in Nat
    BY <2>1, PushedBlocks
  <2>3. Spin(q) # <<>>
    BY <2>2
  <2> QED
    BY <2>2, <2>3
<1>3. QED
  BY <1>1, <1>2

\* A question or permission request of the server.
LEMMA AskKeeps ==
  ASSUME AgentOptions = {"agent"}, GateInv, TailsTyped', NEW x \in Sessions,
         NEW gates \in Seq(Block), \A k \in 1..Len(gates) : ~IsOwn(gates[k]),
         tail' = [tail EXCEPT ![x] = @ \o gates],
         UNCHANGED <<busy, command, staged>>
  PROVE  GateInv'
<1>1. /\ tail[x] \in Seq(Block) /\ tail'[x] = tail[x] \o gates
      /\ \A s \in Sessions \ {x} : tail'[s] = tail[s]
  BY DEF GateInv, TailsTyped
<1>2. /\ Len(tail[x]) \in Nat /\ Len(gates) \in Nat
      /\ Len(tail'[x]) = Len(tail[x]) + Len(gates)
      /\ \A i \in 1..Len(tail[x]) : tail'[x][i] = tail[x][i]
      /\ \A i \in 1..Len(tail'[x]) :
           Len(tail[x]) < i => tail'[x][i] = gates[i - Len(tail[x])]
  BY <1>1
<1>3. \A i \in 1..Len(tail'[x]) : Len(tail[x]) < i => ~IsOwn(tail'[x][i])
  BY <1>2
<1>4. ~IsOwn(Working)
  BY DEF IsOwn, Working
<1>5. QED
  BY <1>1, <1>2, <1>3, <1>4, GrownTail

\* Every step keeps the invariant.
LEMMA GateInvKept ==
  ASSUME AgentOptions = {"agent"}, GateInv, [Next]_vars
  PROVE  GateInv'
<1>1. TailsTyped'
  BY TypesKept DEF GateInv
<1>2. /\ active \in Sessions /\ busy \subseteq Sessions
      /\ tail \in [Sessions -> Seq(Block)] /\ staged \in [Sessions -> Messages \cup {None}]
  BY DEF GateInv, TailsTyped
<1>3. ~IsOwn(Working)
  BY DEF IsOwn, Working
<1>4. Blocker => Top \in Block /\ Top = tail[active][Len(tail[active])]
                 /\ Len(tail[active]) \in DOMAIN tail[active] /\ Top # Working
  BY <1>2 DEF Blocker, Top, Last
<1>5. CASE Say \/ Prompt \/ Refused \/ Fork \/ ReadOnlyCommand
  BY <1>1, <1>2, <1>5, EmptiedTail
  DEF Say, Prompt, Refused, Fork, ReadOnlyCommand, RunCommand, pending, server
<1>6. ASSUME NEW m \in Messages, StageRevert(m) PROVE GateInv'
  BY <1>1, <1>6, StageKeeps
<1>7. ASSUME NEW c \in Writers, ExecuteCommand(c) PROVE GateInv'
  BY <1>1, <1>7, ExecuteKeeps
<1>8. CASE ResolvePermission
  <2>1. UNCHANGED <<busy, command, staged>>
    BY <1>8 DEF ResolvePermission
  <2>2. CASE Bury(active)
    BY <1>1, <1>2, <2>1, <2>2, EmptiedTail
  <2>3. CASE tail' = [tail EXCEPT ![active] = Pop(@)]
    <3>1. ~IsOwn(Last(tail[active])) /\ Last(tail[active]) # Working /\ tail[active] # <<>>
      BY <1>4, <1>8, OwnBlocks DEF ResolvePermission, Top, Blocker
    <3> QED
      BY <1>1, <1>2, <2>1, <2>3, <3>1, PoppedTail
  <2> QED
    BY <1>8, <2>2, <2>3 DEF ResolvePermission
<1>9. CASE CommitRevert \/ AbandonRevert
  <2>1. \A s \in Sessions \ {active} : staged'[s] = staged[s]
    BY <1>2, <1>9 DEF CommitRevert, AbandonRevert
  <2>2. Bury(active) /\ UNCHANGED <<busy, command>>
    BY <1>9 DEF CommitRevert, AbandonRevert
  <2> QED
    BY <1>1, <1>2, <2>1, <2>2, EmptiedTail
<1>10. CASE ConfirmCommand \/ CancelCommand
  <2>1. \E i \in DOMAIN tail[active] : tail[active][i].options = "command"
    BY <1>4, <1>10 DEF ConfirmCommand, CancelCommand, TakenForCommand, IsCommandGate
  <2>2. Bury(active) /\ staged' = staged /\ busy' \subseteq busy \cup {active}
    BY <1>10 DEF ConfirmCommand, CancelCommand, RunCommand, server
  <2> QED
    BY <1>1, <1>2, <2>1, <2>2, EmptiedTail
<1>11. CASE AnswerLocally \/ AnswerBeyond \/ ReplyForm
  <2>1. UNCHANGED <<busy, command, staged>> /\ (Bury(active) \/ UNCHANGED tail)
    BY <1>11 DEF AnswerLocally, AnswerBeyond, ReplyForm, pending, server
  <2> QED
    BY <1>1, <1>2, <2>1, EmptiedTail, SameTails
<1>12. CASE Cancel \/ ConnectionLost
  <2>1. /\ UNCHANGED <<command, staged>> /\ busy' \subseteq busy
        /\ Bury(active) \/ UNCHANGED tail
    BY <1>12 DEF Cancel, ConnectionLost, pending, server
  <2> QED
    BY <1>1, <1>2, <2>1, EmptiedTail, SameTails
<1>13. ASSUME NEW s \in Sessions, Select(s) \/ EndedOtherwise(s) \/ Output(s)
       PROVE  GateInv'
  <2>1. /\ UNCHANGED <<command, staged>> /\ busy' \subseteq busy
        /\ Bury(s) \/ UNCHANGED tail
    BY <1>13 DEF Select, EndedOtherwise, Output, pending, server
  <2> QED
    BY <1>1, <1>2, <2>1, EmptiedTail, SameTails
<1>14. ASSUME NEW s \in Sessions, Started(s) \/ Compacting(s) PROVE GateInv'
  <2>1. /\ UNCHANGED <<command, staged>>
        /\ tail'[s] = Spin(tail[s])
        /\ \A t \in Sessions \ {s} : tail'[t] = tail[t]
        /\ busy' = busy \/ busy' = busy \cup {s}
    BY <1>2, <1>14 DEF Started, Compacting, pending, server
  <2>2. tail[s] \in Seq(Block)
    BY <1>2
  <2>3. /\ Spin(tail[s]) # <<>> /\ Spin(tail[s])[Len(Spin(tail[s]))] = Working
        /\ Len(tail[s]) <= Len(Spin(tail[s]))
        /\ \A i \in 1..Len(tail[s]) : Spin(tail[s])[i] = tail[s][i]
        /\ \A i \in 1..Len(Spin(tail[s])) :
             Len(tail[s]) < i => ~IsOwn(Spin(tail[s])[i])
    BY <1>3, <2>2, SpinGrows
  <2> QED
    BY <1>1, <1>3, <2>1, <2>3, GrownTail
<1>15. ASSUME NEW s \in Sessions, Ended(s) PROVE GateInv'
  <2>1. UNCHANGED <<command, staged>> /\ busy' = busy \ {s}
    BY <1>15 DEF Ended, pending, server
  <2>2. CASE EndsWorking(tail[s])
    <3>1. tail' = [tail EXCEPT ![s] = Pop(tail[s])]
      BY <1>15, <2>2 DEF Ended, Retire
    <3>2. tail[s] # <<>> /\ ~IsOwn(Last(tail[s]))
      BY <1>3, <2>2 DEF EndsWorking
    <3> QED
      BY <1>1, <2>1, <3>1, <3>2, PoppedTail
  <2>3. CASE ~EndsWorking(tail[s])
    <3>1. UNCHANGED tail
      BY <1>2, <1>15, <2>3 DEF Ended, Retire
    <3> QED
      BY <1>1, <2>1, <3>1, SameTails
  <2> QED
    BY <2>2, <2>3
<1>16. ASSUME NEW s \in Sessions, NEW r \in Permissions, AskPermission(s, r)
       PROVE  GateInv'
  <2> DEFINE gates == <<PermissionGate(r)>>
  <2>1. PermissionGate(r) \in Block /\ ~IsOwn(PermissionGate(r))
    BY PushedBlocks DEF PermissionGate, IsOwn
  <2>2. gates \in Seq(Block) /\ \A k \in 1..Len(gates) : ~IsOwn(gates[k])
    BY <2>1
  <2>3. tail[s] \in Seq(Block) /\ Append(tail[s], PermissionGate(r)) = tail[s] \o gates
    BY <1>2, <2>1
  <2>4. tail' = [tail EXCEPT ![s] = @ \o gates] /\ UNCHANGED <<busy, command, staged>>
    BY <1>16, <2>3 DEF AskPermission
  <2> HIDE DEF gates
  <2> QED
    BY <1>1, <2>2, <2>4, AskKeeps
<1>17. ASSUME NEW s \in Sessions, NEW f \in Forms, AskForm(s, f)
       PROVE  GateInv'
  <2>1. PICK n \in 1..MaxFields, o \in AgentOptions :
          tail' = [tail EXCEPT ![s] = @ \o FormGates(f, n, o)]
    BY <1>17 DEF AskForm
  <2>2. /\ FormGates(f, n, o) \in Seq(Block)
        /\ \A k \in 1..Len(FormGates(f, n, o)) : FormGates(f, n, o)[k].options = o
    BY FormGatesTyped
  <2>3. \A k \in 1..Len(FormGates(f, n, o)) : ~IsOwn(FormGates(f, n, o)[k])
    BY <2>2 DEF IsOwn
  <2>4. UNCHANGED <<busy, command, staged>>
    BY <1>17 DEF AskForm
  <2> QED
    BY <1>1, <2>1, <2>2, <2>3, <2>4, AskKeeps
<1>18. ASSUME NEW r \in Requests, AnsweredElsewhere(r) \/ Replied(r) \/ Missed(r)
       PROVE  GateInv'
  BY <1>1, <1>18, SameTails DEF AnsweredElsewhere, Replied, Missed, pending
<1>19. CASE UNCHANGED vars
  BY <1>1, <1>19, SameTails DEF vars, pending, server
<1>20. QED
  BY <1>5, <1>6, <1>7, <1>8, <1>9, <1>10, <1>11, <1>12, <1>13, <1>14, <1>15, <1>16, <1>17,
     <1>18, <1>19
  DEF Next

\* Which steps send which call.
LEMMA Senders ==
  ASSUME Next
  PROVE  /\ Made("fork") => Fork
         /\ Made("stage") => \E m \in Messages : StageRevert(m)
         /\ Made("commit") => CommitRevert
         /\ Made("abandon") => AbandonRevert
         /\ Made("command") => ReadOnlyCommand \/ ConfirmCommand
<1> DEFINE Silent == /\ ~Made("fork") /\ ~Made("stage") /\ ~Made("commit")
                     /\ ~Made("abandon") /\ ~Made("command")
<1> USE DEF Made, Call
<1>1. CASE Say \/ Refused \/ Prompt
  BY <1>1 DEF Say, Refused, Prompt
<1>2. CASE Fork
  BY <1>2 DEF Fork
<1>3. CASE ReadOnlyCommand \/ ConfirmCommand
  BY <1>3 DEF ReadOnlyCommand, ConfirmCommand, RunCommand
<1>4. ASSUME NEW m \in Messages, StageRevert(m)
      PROVE  ~Made("fork") /\ ~Made("commit") /\ ~Made("abandon") /\ ~Made("command")
  BY <1>4 DEF StageRevert
<1>5. ASSUME NEW c \in Writers, ExecuteCommand(c) PROVE Silent
  BY <1>5 DEF ExecuteCommand
<1>6. CASE ResolvePermission
  BY <1>6 DEF ResolvePermission
<1>7. CASE CommitRevert
  BY <1>7 DEF CommitRevert
<1>8. CASE AbandonRevert
  BY <1>8 DEF AbandonRevert
<1>9. CASE CancelCommand \/ AnswerLocally \/ AnswerBeyond \/ ReplyForm
  BY <1>9 DEF CancelCommand, AnswerLocally, AnswerBeyond, ReplyForm
<1>10. CASE Cancel \/ ConnectionLost
  BY <1>10 DEF Cancel, ConnectionLost
<1>11. ASSUME NEW s \in Sessions,
              \/ Select(s) \/ Started(s) \/ Ended(s) \/ EndedOtherwise(s)
              \/ Compacting(s) \/ Output(s)
              \/ \E r \in Permissions : AskPermission(s, r)
              \/ \E f \in Forms : AskForm(s, f)
       PROVE  Silent
  BY <1>11 DEF Select, Started, Ended, EndedOtherwise, Compacting, Output,
               AskPermission, AskForm
<1>12. ASSUME NEW r \in Requests, AnsweredElsewhere(r) \/ Replied(r) \/ Missed(r)
       PROVE  Silent
  BY <1>12 DEF AnsweredElsewhere, Replied, Missed
<1>13. QED
  BY <1>1, <1>2, <1>3, <1>4, <1>5, <1>6, <1>7, <1>8, <1>9, <1>10, <1>11, <1>12 DEF Next

-------------------------------------------------------------------------------
(* Theorems *)

\* The invariant behind the others.
THEOREM GateInvariant ==
  ASSUME AgentOptions = {"agent"}
  PROVE  Spec => []GateInv
<1>1. Init => GateInv
  <2> SUFFICES ASSUME Init PROVE GateInv
    OBVIOUS
  <2>1. \A s \in Sessions : tail[s] = <<>> /\ DOMAIN tail[s] = {}
    BY DEF Init
  <2>2. TailsTyped
    BY DEF Init, TailsTyped
  <2> QED
    BY <2>1, <2>2 DEF Init, GateInv, CommandGateIsPending, BusyInv, RevertInv
<1>2. GateInv /\ [Next]_vars => GateInv'
  BY GateInvKept
<1>3. QED
  BY <1>1, <1>2, PTL DEF Spec

\* A command gate that can still become live is the only one, in whatever session, and
\* asks for the pending command.
THEOREM CommandGateIsPendingHolds ==
  ASSUME AgentOptions = {"agent"}
  PROVE  Spec => []CommandGateIsPending
<1>1. GateInv => CommandGateIsPending
  BY DEF GateInv
<1>2. QED
  BY <1>1, GateInvariant, PTL

\* A command that writes files runs only by the answer to the gate that names it.
THEOREM ConfirmedCommandRunsHolds ==
  ASSUME AgentOptions = {"agent"}
  PROVE  Spec => ConfirmedCommandRuns
<1>1. GateInv /\ [Next]_vars =>
        [Made("command") /\ sent'.to # None
           => Blocker /\ Top = CommandGate(sent'.to)]_vars
  <2> SUFFICES ASSUME GateInv, Next, Made("command"), sent'.to # None
               PROVE  Blocker /\ Top = CommandGate(sent'.to)
    OBVIOUS
  <2>1. ~ReadOnlyCommand
    BY DEF ReadOnlyCommand, RunCommand, Call
  <2>2. ConfirmCommand
    BY <2>1, Senders
  <2>3. Blocker /\ IsCommandGate(Top) /\ sent'.to = command
    BY <2>2 DEF ConfirmCommand, TakenForCommand, RunCommand, Call
  <2>4. /\ active \in Sessions /\ Len(tail[active]) \in DOMAIN tail[active]
        /\ Top = tail[active][Len(tail[active])] /\ Top \in Block
    BY <2>3 DEF GateInv, TailsTyped, Blocker, Top, Last
  <2>5. Top.of = command
    BY <2>3, <2>4 DEF GateInv, CommandGateIsPending, IsCommandGate
  <2> QED
    BY <2>3, <2>4, <2>5, OwnBlocks DEF IsCommandGate
<1>2. QED
  BY <1>1, GateInvariant, PTL DEF Spec, ConfirmedCommandRuns

\* A boundary is committed or given up only by the answer to the gate that shows it.
THEOREM RevertAnswersWhatItShowsHolds ==
  ASSUME AgentOptions = {"agent"}
  PROVE  Spec => RevertAnswersWhatItShows
<1>1. GateInv /\ [Next]_vars =>
        [Made("commit") \/ Made("abandon")
           => Blocker /\ Top = RevertGate(staged[active])]_vars
  <2> SUFFICES ASSUME GateInv, Next, Made("commit") \/ Made("abandon")
               PROVE  Blocker /\ Top = RevertGate(staged[active])
    OBVIOUS
  <2>1. Blocker /\ IsRevertGate(Top)
    BY Senders DEF CommitRevert, AbandonRevert, TakenForRevert
  <2>2. /\ active \in Sessions /\ Len(tail[active]) \in DOMAIN tail[active]
        /\ DOMAIN tail[active] = 1..Len(tail[active]) /\ Len(tail[active]) \in Nat
        /\ Top = tail[active][Len(tail[active])] /\ Top \in Block
    BY <2>1 DEF GateInv, TailsTyped, Blocker, Top, Last
  <2>3. Top.of = staged[active]
    BY <2>1, <2>2 DEF GateInv, RevertInv, IsRevertGate
  <2> QED
    BY <2>1, <2>2, <2>3, OwnBlocks DEF IsRevertGate
<1>2. QED
  BY <1>1, GateInvariant, PTL DEF Spec, RevertAnswersWhatItShows

\* No fork, revert or command is sent for a session with a running turn.
THEOREM NoOperationWhileBusyHolds ==
  ASSUME AgentOptions = {"agent"}
  PROVE  Spec => NoOperationWhileBusy
<1>1. GateInv /\ [Next]_vars =>
        [Made("fork") \/ Made("stage") \/ Made("commit") \/ Made("abandon")
           \/ Made("command") => active \notin busy]_vars
  <2> SUFFICES ASSUME GateInv, Next,
                      \/ Made("fork") \/ Made("stage") \/ Made("commit")
                      \/ Made("abandon") \/ Made("command")
               PROVE  active \notin busy
    OBVIOUS
  <2>1. CASE Made("fork") \/ Made("stage")
    BY <2>1, Senders DEF Fork, StageRevert
  <2>2. CASE Made("commit")
    BY <2>2, Senders DEF CommitRevert, Made, Call
  <2>3. CASE ReadOnlyCommand
    BY <2>3 DEF ReadOnlyCommand
  <2>4. CASE AbandonRevert \/ ConfirmCommand
    <3>1. Blocker /\ IsOwn(Top)
      BY <2>4 DEF AbandonRevert, ConfirmCommand, TakenForRevert, TakenForCommand,
                  IsRevertGate, IsCommandGate, IsOwn
    <3>2. /\ Len(tail[active]) \in DOMAIN tail[active] /\ Len(tail[active]) \in Nat
          /\ DOMAIN tail[active] = 1..Len(tail[active])
          /\ Top = tail[active][Len(tail[active])]
      BY <3>1 DEF GateInv, TailsTyped, Blocker, Top, Last
    <3>3. ~\E j \in DOMAIN tail[active] : Len(tail[active]) < j
      BY <3>2
    <3> QED
      BY <3>1, <3>2, <3>3 DEF GateInv, BusyInv
  <2> QED
    BY <2>1, <2>2, <2>3, <2>4, Senders
<1>2. QED
  BY <1>1, GateInvariant, PTL DEF Spec, NoOperationWhileBusy

-------------------------------------------------------------------------------
(* Induction over the natural numbers *)

\* A set of numbers that is not empty has a least element.
LEMMA Least ==
  ASSUME NEW T, T \subseteq Nat, T # {}
  PROVE  \E x \in T : \A y \in T : x <= y
<1> DEFINE R == OpToRel(<, Nat)
<1>1. IsWellFoundedOn(R, Nat)
  BY NatLessThanWellFounded
<1>2. \A x, y \in Nat : y < x => <<y, x>> \in R
  BY DEF OpToRel
<1> HIDE DEF R
<1>3. PICK x \in T : \A y \in T : ~(<<y, x>> \in R)
  BY <1>1, WFMin
<1>4. \A y \in T : x \in Nat /\ y \in Nat /\ ~(y < x)
  BY <1>2, <1>3
<1>5. \A y \in T : x <= y
  BY <1>4
<1>6. QED
  BY <1>3, <1>5

\* A set of numbers that has 0, and the successor of each of its numbers, has them all.
LEMMA Induction ==
  ASSUME NEW T \in SUBSET Nat, 0 \in T, \A n \in T : n + 1 \in T
  PROVE  T = Nat
<1>1. CASE Nat \ T # {}
  <2>1. PICK x \in Nat \ T : \A y \in Nat \ T : x <= y
    BY <1>1, Least
  <2>2. x # 0 /\ x - 1 \in Nat
    BY <2>1
  <2>3. x - 1 \in T
    BY <2>1, <2>2
  <2>4. (x - 1) + 1 = x
    BY <2>1
  <2>5. QED
    BY <2>1, <2>3, <2>4
<1>2. QED
  BY <1>1

\* g has, from 0 to L, what step makes of base when applied once per number.
Iterates(g, S, base, step, L) ==
  /\ g \in [0..L -> S]
  /\ g[0] = base
  /\ \A n \in 1..L : g[n] = step[<<g[n - 1], n>>]

\* A function defined by recursion on a number exists.
LEMMA Recursion ==
  ASSUME NEW S, NEW base \in S, NEW step \in [S \X Nat -> S], NEW L \in Nat
  PROVE  \E g : Iterates(g, S, base, step, L)
<1> DEFINE Good(g, k) == g[0] = base /\ \A n \in 1..k : g[n] = step[<<g[n - 1], n>>]
           T == {k \in Nat : \E g \in [0..k -> S] : Good(g, k)}
<1>1. 0 \in T
  <2>1. [i \in 0..0 |-> base] \in [0..0 -> S] /\ Good([i \in 0..0 |-> base], 0)
    OBVIOUS
  <2>2. QED
    BY <2>1
<1>2. ASSUME NEW k \in T PROVE k + 1 \in T
  <2>1. PICK g \in [0..k -> S] : Good(g, k)
    OBVIOUS
  <2> DEFINE h == [i \in 0..k + 1 |-> IF i = k + 1 THEN step[<<g[k], k + 1>>] ELSE g[i]]
  <2>2. k \in Nat /\ k \in 0..k /\ g[k] \in S /\ step[<<g[k], k + 1>>] \in S
    OBVIOUS
  <2>3. h \in [0..k + 1 -> S]
    BY <2>2
  <2>4. h[0] = base
    BY <2>1, <2>2
  <2>5. ASSUME NEW n \in 1..k + 1 PROVE h[n] = step[<<h[n - 1], n>>]
    <3>1. CASE n = k + 1
      <4>1. n - 1 = k /\ k # k + 1 /\ k \in 0..k + 1 /\ k + 1 \in 0..k + 1
        BY <2>2, <3>1
      <4>2. h[k] = g[k] /\ h[k + 1] = step[<<g[k], k + 1>>]
        BY <4>1
      <4>3. QED
        BY <3>1, <4>1, <4>2
    <3>2. CASE n \in 1..k
      <4>1. h[n] = g[n] /\ h[n - 1] = g[n - 1]
        BY <2>2, <3>2
      <4>2. QED
        BY <2>1, <3>2, <4>1
    <3>3. QED
      BY <2>2, <3>1, <3>2
  <2>6. Good(h, k + 1)
    BY <2>4, <2>5
  <2> HIDE DEF h, Good
  <2>7. QED
    BY <2>2, <2>3, <2>6
<1>3. T = Nat
  <2> HIDE DEF T
  <2>1. T \in SUBSET Nat
    BY DEF T
  <2>2. QED
    BY <1>1, <1>2, <2>1, Induction
<1>4. QED
  BY <1>3 DEF Iterates

-------------------------------------------------------------------------------
(* The questions of the agent *)

\* Taking a form out of a list leaves fields, and the last one if it is of another form.
LEMMA WithoutFormIs ==
  ASSUME NEW list \in Seq(Field), NEW r
  PROVE  /\ WithoutForm(list, r) \in Seq(Field)
         /\ \A i \in DOMAIN WithoutForm(list, r) :
              \E j \in DOMAIN list : WithoutForm(list, r)[i] = list[j]
         /\ list # <<>> /\ Last(list).form # r =>
              WithoutForm(list, r) # <<>> /\ Last(WithoutForm(list, r)) = Last(list)
<1> DEFINE L == Len(list)
           S == Seq({list[j] : j \in DOMAIN list})
           add(k, n) == IF n \in 1..L THEN Besides(k, list[n], r) ELSE k
           step == [x \in S \X Nat |-> add(x[1], x[2])]
           kept == CHOOSE f : f = [n \in 0..L |->
                     IF n = 0 THEN <<>> ELSE Besides(f[n - 1], list[n], r)]
<1>1. L \in Nat /\ DOMAIN list = 1..L /\ <<>> \in S
  OBVIOUS
<1>2. ASSUME NEW k \in S, NEW n \in Nat PROVE add(k, n) \in S
  <2>1. CASE n \in 1..L
    <3>1. list[n] \in {list[j] : j \in DOMAIN list}
      BY <1>1, <2>1
    <3>2. QED
      BY <2>1, <3>1 DEF Besides
  <2>2. QED
    BY <2>1
<1> HIDE DEF S, add
<1>3. step \in [S \X Nat -> S]
  BY <1>2
<1>4. PICK g : Iterates(g, S, <<>>, step, L)
  BY <1>1, <1>3, Recursion
<1>5. g \in [0..L -> S] /\ g[0] = <<>> /\ \A n \in 1..L : g[n] = add(g[n - 1], n)
  <2>1. \A n \in 1..L : n - 1 \in 0..L /\ n \in Nat /\ g[n - 1] \in S
    BY <1>1, <1>4 DEF Iterates
  <2>2. QED
    BY <1>4, <2>1 DEF Iterates
<1>6. \A n \in 0..L : g[n] = IF n = 0 THEN <<>> ELSE Besides(g[n - 1], list[n], r)
  BY <1>1, <1>5 DEF add
<1>7. g = [n \in 0..L |-> IF n = 0 THEN <<>> ELSE Besides(g[n - 1], list[n], r)]
  BY <1>5, <1>6
<1>8. kept = [n \in 0..L |-> IF n = 0 THEN <<>> ELSE Besides(kept[n - 1], list[n], r)]
  BY <1>7
<1>9. WithoutForm(list, r) = kept[L]
  BY DEF WithoutForm
<1> HIDE DEF kept, L
<1>10. kept[0] = <<>> /\ \A n \in 1..L : kept[n] = Besides(kept[n - 1], list[n], r)
  BY <1>1, <1>8
<1> DEFINE T == {n \in Nat : n <= L => kept[n] \in S}
<1>11. T = Nat
  <2>1. 0 \in T
    BY <1>1, <1>10
  <2>2. ASSUME NEW n \in T PROVE n + 1 \in T
    <3>1. CASE n + 1 <= L
      <4>1. n \in 0..L /\ n + 1 \in 1..L /\ (n + 1) - 1 = n /\ kept[n] \in S /\ n + 1 \in Nat
        BY <1>1, <3>1
      <4>2. kept[n + 1] = add(kept[n], n + 1)
        BY <1>10, <4>1 DEF add
      <4>3. QED
        BY <1>2, <4>1, <4>2
    <3>2. QED
      BY <3>1
  <2> HIDE DEF T
  <2>3. T \in SUBSET Nat
    BY DEF T
  <2>4. QED
    BY <2>1, <2>2, <2>3, Induction
<1>12. \A n \in 0..L : kept[n] \in S
  BY <1>11
<1>13. kept[L] \in S
  BY <1>1, <1>12
<1>14. /\ kept[L] \in Seq(Field)
       /\ \A i \in DOMAIN kept[L] : \E j \in DOMAIN list : kept[L][i] = list[j]
  BY <1>13 DEF S
<1>15. ASSUME list # <<>>, Last(list).form # r
       PROVE  kept[L] # <<>> /\ Last(kept[L]) = Last(list)
  <2>1. L > 0 /\ Last(list) = list[L]
    BY <1>15 DEF L, Last
  <2>2. L \in 1..L /\ L - 1 \in 0..L /\ kept[L - 1] \in S
    BY <1>1, <1>12, <2>1
  <2>3. kept[L] = Append(kept[L - 1], list[L])
    BY <1>10, <1>15, <2>1, <2>2 DEF Besides
  <2> DEFINE k == kept[L - 1]
  <2> HIDE DEF k
  <2>4. k \in Seq(Field) /\ list[L] \in Field
    BY <1>1, <2>2 DEF S, k
  <2>5. Append(k, list[L]) # <<>> /\ Last(Append(k, list[L])) = list[L]
    BY <2>4 DEF Last
  <2>6. QED
    BY <2>1, <2>3, <2>5 DEF k
<1>16. QED
  BY <1>9, <1>14, <1>15

\* The requests of the server, and what is remembered of them.
RequestInv ==
  /\ permission \in [Sessions -> Permissions \cup {None}]
  /\ questions \in [Sessions -> Seq(Field)]
  /\ home \in [Requests -> Sessions \cup {None}]
  /\ open \subseteq Requests /\ replied \subseteq Requests
  /\ open \cap replied = {}
  /\ \A r \in open \cup replied : home[r] # None
  /\ \A s \in Sessions : \A i \in DOMAIN questions[s] : home[questions[s][i].form] = s

\* The gate of a question of the agent.
IsForm(b) == b.of \in Field

\* A question in the tail of s is of a form that waits for its answer, and the last one
\* is the question that would be answered.
FormsOf(s) ==
  \A i \in DOMAIN tail[s] : IsForm(tail[s][i]) =>
    /\ tail[s][i].of.form \in open /\ home[tail[s][i].of.form] = s
    /\ (\A j \in DOMAIN tail[s] : i < j => ~IsForm(tail[s][j]))
         => questions[s] # <<>> /\ Last(questions[s]) = tail[s][i].of

FormInv == \A s \in Sessions : FormsOf(s)

QuestionInv == TailsTyped /\ RequestInv /\ FormInv

\* What a step does to the tail of s: no question is left, or all are where they were.
NoForms(s) == \A i \in DOMAIN tail'[s] : ~IsForm(tail'[s][i])
SameForms(s) ==
  /\ \A i \in DOMAIN tail'[s] : IsForm(tail'[s][i]) =>
       i \in DOMAIN tail[s] /\ tail[s][i] = tail'[s][i]
  /\ \A i \in DOMAIN tail[s] : IsForm(tail[s][i]) =>
       i \in DOMAIN tail'[s] /\ tail'[s][i] = tail[s][i]

\* Only the agent's questions are of a field.
LEMMA NotForms ==
  /\ ~IsForm(Working)
  /\ \A r \in Permissions : ~IsForm(PermissionGate(r))
  /\ \A m \in Messages : ~IsForm(RevertGate(m))
  /\ \A c \in Writers : ~IsForm(CommandGate(c))
  /\ \A b \in Block : b.kind = "permission" => ~IsForm(b)
BY IdsAssumption
DEF IsForm, Working, PermissionGate, RevertGate, CommandGate, QuestionGate, Block

LEMMA FieldIs ==
  ASSUME NEW q \in Field
  PROVE  q.form \in Forms /\ q.form \in Requests
BY DEF Field, Requests

LEMMA FormsLeft ==
  ASSUME NEW s \in Sessions, NoForms(s)
  PROVE  FormsOf(s)'
BY DEF NoForms, FormsOf

\* The questions of s stay as long as its forms are open and its last question is kept.
LEMMA FormsStay ==
  ASSUME NEW s \in Sessions, FormsOf(s), SameForms(s),
         \A f \in Forms \cap open : home[f] = s => f \in open' /\ home'[f] = s,
         questions[s] # <<>> /\ Last(questions[s]).form \in open
           => questions'[s] # <<>> /\ Last(questions'[s]) = Last(questions[s])
  PROVE  FormsOf(s)'
<1> SUFFICES ASSUME NEW i \in DOMAIN tail'[s], IsForm(tail'[s][i])
             PROVE  /\ tail'[s][i].of.form \in open' /\ home'[tail'[s][i].of.form] = s
                    /\ (\A j \in DOMAIN tail'[s] : i < j => ~IsForm(tail'[s][j]))
                         => questions'[s] # <<>> /\ Last(questions'[s]) = tail'[s][i].of
  BY DEF FormsOf, IsForm
<1>1. i \in DOMAIN tail[s] /\ tail[s][i] = tail'[s][i] /\ IsForm(tail[s][i])
  BY DEF SameForms
<1>2. tail[s][i].of.form \in open /\ home[tail[s][i].of.form] = s
  BY <1>1 DEF FormsOf
<1>3. tail[s][i].of.form \in Forms
  BY <1>1, FieldIs DEF IsForm
<1>4. tail'[s][i].of.form \in open' /\ home'[tail'[s][i].of.form] = s
  BY <1>1, <1>2, <1>3
<1>5. ASSUME \A j \in DOMAIN tail'[s] : i < j => ~IsForm(tail'[s][j])
      PROVE  questions'[s] # <<>> /\ Last(questions'[s]) = tail'[s][i].of
  <2>1. \A j \in DOMAIN tail[s] : i < j => ~IsForm(tail[s][j])
    BY <1>5 DEF SameForms
  <2>2. questions[s] # <<>> /\ Last(questions[s]) = tail[s][i].of
    BY <1>1, <2>1 DEF FormsOf
  <2>3. QED
    BY <1>1, <1>2, <2>2
<1>6. QED
  BY <1>4, <1>5

\* Blocks of another kind come and go at the end.
LEMMA PushedSame ==
  ASSUME NEW s \in Sessions, tail[s] \in Seq(Block), NEW b \in Block, ~IsForm(b),
         tail'[s] = Append(tail[s], b)
  PROVE  SameForms(s)
<1> DEFINE n == Len(tail[s])
<1>1. /\ n \in Nat /\ DOMAIN tail[s] = 1..n /\ DOMAIN tail'[s] = 1..n + 1
      /\ tail'[s][n + 1] = b
      /\ \A i \in 1..n : tail'[s][i] = tail[s][i]
  OBVIOUS
<1> HIDE DEF n
<1>2. QED
  BY <1>1 DEF SameForms

LEMMA PoppedSame ==
  ASSUME NEW s \in Sessions, tail[s] \in Seq(Block), tail[s] # <<>>, ~IsForm(Last(tail[s])),
         tail'[s] = Pop(tail[s])
  PROVE  SameForms(s)
<1> DEFINE n == Len(tail[s])
<1>1. /\ n \in Nat /\ n > 0 /\ DOMAIN tail[s] = 1..n /\ DOMAIN tail'[s] = 1..n - 1
      /\ ~IsForm(tail[s][n])
      /\ \A i \in 1..n - 1 : tail'[s][i] = tail[s][i]
  BY DEF Pop, Last
<1> HIDE DEF n
<1>2. QED
  BY <1>1 DEF SameForms

\* The tail of x is buried, spun, retired or left alone, and the others stay.
LEMMA TailsOf ==
  ASSUME TailsTyped, NEW x \in Sessions,
         \/ UNCHANGED tail
         \/ Bury(x)
         \/ tail' = [tail EXCEPT ![x] = Spin(@)]
         \/ tail' = [tail EXCEPT ![x] = Retire(@)],
         NEW s \in Sessions
  PROVE  NoForms(s) \/ SameForms(s)
<1>1. tail \in [Sessions -> Seq(Block)] /\ tail[x] \in Seq(Block)
  BY DEF TailsTyped
<1>2. CASE tail'[s] = tail[s]
  BY <1>2 DEF SameForms
<1>3. CASE tail'[s] # tail[s]
  <2>1. s = x
    BY <1>1, <1>3 DEF Bury
  <2>2. CASE Bury(x)
    BY <1>1, <2>1, <2>2 DEF Bury, NoForms
  <2>3. CASE tail' = [tail EXCEPT ![x] = Spin(@)]
    <3>1. tail'[x] = Append(tail[x], Working)
      BY <1>1, <1>3, <2>1, <2>3 DEF Spin
    <3>2. QED
      BY <1>1, <2>1, <3>1, PushedSame, PushedBlocks, NotForms
  <2>4. CASE tail' = [tail EXCEPT ![x] = Retire(@)]
    <3>1. tail'[x] = Pop(tail[x]) /\ tail[x] # <<>> /\ Last(tail[x]) = Working
      BY <1>1, <1>3, <2>1, <2>4 DEF Retire, EndsWorking
    <3>2. QED
      BY <1>1, <2>1, <3>1, PoppedSame, NotForms
  <2>5. QED
    BY <1>3, <2>2, <2>3, <2>4
<1>4. QED
  BY <1>2, <1>3

\* What is asked and answered stays as it is.
LEMMA TailsOnly ==
  ASSUME QuestionInv, UNCHANGED <<questions, home, open>>,
         \A s \in Sessions : NoForms(s) \/ SameForms(s)
  PROVE  FormInv'
<1> SUFFICES ASSUME NEW s \in Sessions PROVE FormsOf(s)'
  BY DEF FormInv
<1>1. FormsOf(s)
  BY DEF QuestionInv, FormInv
<1>2. QED
  BY <1>1, FormsLeft, FormsStay

\* The steps that neither ask a question nor end a request.
LEMMA OtherSteps ==
  ASSUME QuestionInv, UNCHANGED <<questions, home, open>>,
         \/ Say \/ Prompt \/ Refused \/ Fork \/ ReadOnlyCommand
         \/ CommitRevert \/ AbandonRevert \/ ConfirmCommand \/ CancelCommand
         \/ AnswerLocally \/ AnswerBeyond \/ Cancel \/ ConnectionLost
         \/ \E s \in Sessions :
              \/ Select(s) \/ Started(s) \/ Ended(s) \/ EndedOtherwise(s)
              \/ Compacting(s) \/ Output(s)
  PROVE  FormInv'
<1>1. TailsTyped /\ active \in Sessions
  BY DEF QuestionInv, TailsTyped
<1>2. \E x \in Sessions :
        \/ UNCHANGED tail
        \/ Bury(x)
        \/ tail' = [tail EXCEPT ![x] = Spin(@)]
        \/ tail' = [tail EXCEPT ![x] = Retire(@)]
  <2>1. CASE \/ Say \/ Prompt \/ Refused \/ Fork \/ ReadOnlyCommand
             \/ CommitRevert \/ AbandonRevert \/ ConfirmCommand \/ CancelCommand
             \/ AnswerLocally \/ AnswerBeyond \/ Cancel \/ ConnectionLost
    BY <1>1, <2>1
    DEF Say, Prompt, Refused, Fork, ReadOnlyCommand, RunCommand, CommitRevert, AbandonRevert,
        ConfirmCommand, CancelCommand, AnswerLocally, AnswerBeyond, Cancel, ConnectionLost
  <2>2. CASE \E s \in Sessions :
               \/ Select(s) \/ Started(s) \/ Ended(s) \/ EndedOtherwise(s)
               \/ Compacting(s) \/ Output(s)
    <3>1. PICK s \in Sessions : \/ Select(s) \/ Started(s) \/ Ended(s) \/ EndedOtherwise(s)
                                \/ Compacting(s) \/ Output(s)
      BY <2>2
    <3>2. \/ UNCHANGED tail
          \/ Bury(s)
          \/ tail' = [tail EXCEPT ![s] = Spin(@)]
          \/ tail' = [tail EXCEPT ![s] = Retire(@)]
      BY <3>1 DEF Select, Started, Ended, EndedOtherwise, Compacting, Output
    <3>3. QED
      BY <3>2
  <2>3. QED
    BY <2>1, <2>2
<1>3. PICK x \in Sessions :
        \/ UNCHANGED tail
        \/ Bury(x)
        \/ tail' = [tail EXCEPT ![x] = Spin(@)]
        \/ tail' = [tail EXCEPT ![x] = Retire(@)]
  BY <1>2
<1>4. \A s \in Sessions : NoForms(s) \/ SameForms(s)
  BY <1>1, <1>3, TailsOf
<1>5. QED
  BY <1>4, TailsOnly

\* The adapter asks something itself.
LEMMA OwnGate ==
  ASSUME QuestionInv, UNCHANGED <<questions, home, open>>,
         NEW b \in Block, ~IsForm(b), NEW shown \in {<<>>, tail[active]},
         tail' = [tail EXCEPT ![active] = Append(shown, b)]
  PROVE  FormInv'
<1>1. /\ active \in Sessions /\ tail[active] \in Seq(Block)
      /\ tail'[active] = Append(shown, b)
      /\ \A s \in Sessions \ {active} : tail'[s] = tail[s]
  BY DEF QuestionInv, TailsTyped
<1>2. SameForms(active) \/ NoForms(active)
  <2>1. CASE shown = <<>>
    <3>1. tail'[active] = Append(<<>>, b)
      BY <1>1, <2>1
    <3>2. Append(<<>>, b) = <<b>>
      OBVIOUS
    <3>3. DOMAIN tail'[active] = {1} /\ tail'[active][1] = b
      BY <3>1, <3>2
    <3>4. QED
      BY <3>3 DEF NoForms
  <2>2. CASE shown = tail[active]
    BY <1>1, <2>2, PushedSame
  <2>3. QED
    BY <2>1, <2>2
<1>3. \A s \in Sessions \ {active} : SameForms(s)
  BY <1>1 DEF SameForms
<1>4. QED
  BY <1>2, <1>3, TailsOnly

LEMMA OwnSteps ==
  ASSUME QuestionInv,
         (\E m \in Messages : StageRevert(m)) \/ (\E c \in Writers : ExecuteCommand(c))
  PROVE  FormInv'
<1>1. UNCHANGED <<questions, home, open>>
  BY DEF StageRevert, ExecuteCommand, server
<1>2. CASE Bury(active)
  <2>1. TailsTyped /\ active \in Sessions
    BY DEF QuestionInv, TailsTyped
  <2>2. QED
    BY <1>1, <1>2, <2>1, TailsOf, TailsOnly
<1>3. ASSUME NEW m \in Messages, StageRevert(m), ~Bury(active) PROVE FormInv'
  <2>1. PICK shown \in {<<>>, tail[active]} :
          tail' = [tail EXCEPT ![active] = Append(shown, RevertGate(m))]
    BY <1>3 DEF StageRevert
  <2>2. QED
    BY <1>1, <2>1, PushedBlocks, NotForms, OwnGate
<1>4. ASSUME NEW c \in Writers, ExecuteCommand(c), ~Bury(active) PROVE FormInv'
  <2>1. tail' = [tail EXCEPT ![active] = Append(tail[active], CommandGate(c))]
    BY <1>4 DEF ExecuteCommand
  <2>2. QED
    BY <1>1, <2>1, PushedBlocks, NotForms, OwnGate
<1>5. QED
  BY <1>2, <1>3, <1>4

\* The answer to a permission request ends no question.
LEMMA PermissionSteps ==
  ASSUME "form" \notin Elsewhere, QuestionInv,
         ResolvePermission \/ \E r \in Requests : AnsweredElsewhere(r)
  PROVE  FormInv'
<1> SUFFICES ASSUME NEW s \in Sessions PROVE FormsOf(s)'
  BY DEF FormInv
<1>1. /\ FormsOf(s) /\ UNCHANGED <<questions, home>>
      /\ active \in Sessions /\ tail \in [Sessions -> Seq(Block)]
      /\ permission[active] \in Permissions \cup {None}
  BY DEF QuestionInv, RequestInv, TailsTyped, FormInv, ResolvePermission, AnsweredElsewhere, pending
<1>2. \A f \in Forms \cap open : f \in open'
  <2>1. ASSUME NEW r \in Permissions \cup {None}, NEW f \in Forms \cap open,
               Close(r) \/ open' = open
        PROVE  f \in open'
    <3>1. CASE r = None
      <4>1. f # None
        BY NoneAssumption
      <4>2. QED
        BY <2>1, <3>1, <4>1 DEF Close
    <3>2. CASE r \in Permissions
      BY <2>1, <3>2, IdsAssumption DEF Close
    <3>3. QED
      BY <3>1, <3>2
  <2>2. CASE ResolvePermission
    <3>1. Close(permission[active]) \/ open' = open
      BY <2>2 DEF ResolvePermission, ReplyFails
    <3>2. QED
      BY <1>1, <2>1, <3>1
  <2>3. ASSUME NEW r \in Requests, AnsweredElsewhere(r) PROVE \A f \in Forms \cap open : f \in open'
    <3>1. r \in Permissions /\ Close(r)
      BY <2>3 DEF AnsweredElsewhere
    <3>2. QED
      BY <2>1, <3>1
  <2>4. QED
    BY <2>2, <2>3
<1>3. NoForms(s) \/ SameForms(s)
  <2>1. CASE tail' = [tail EXCEPT ![active] = Pop(@)] /\ ResolvePermission
    <3>1. tail[active] # <<>> /\ Last(tail[active]) \in Block /\ ~IsForm(Last(tail[active]))
      BY <1>1, <2>1, NotForms DEF ResolvePermission, Blocker, Top, Last
    <3>2. CASE s = active
      BY <1>1, <2>1, <3>1, <3>2, PoppedSame
    <3>3. CASE s # active
      BY <1>1, <2>1, <3>3 DEF SameForms
    <3>4. QED
      BY <3>2, <3>3
  <2>2. CASE Bury(active) \/ UNCHANGED tail
    BY <1>1, <2>2, TailsOf DEF QuestionInv
  <2>3. QED
    BY <2>1, <2>2 DEF ResolvePermission, AnsweredElsewhere
<1>4. QED
  BY <1>1, <1>2, <1>3, FormsLeft, FormsStay

LEMMA AskPermissionForms ==
  ASSUME QuestionInv, NEW x \in Sessions, NEW r \in Permissions, AskPermission(x, r)
  PROVE  FormInv'
<1> SUFFICES ASSUME NEW s \in Sessions PROVE FormsOf(s)'
  BY DEF FormInv
<1>1. /\ FormsOf(s) /\ UNCHANGED questions /\ open \subseteq open'
      /\ tail \in [Sessions -> Seq(Block)]
      /\ \A f \in Forms : home'[f] = home[f]
  <2>1. \A f \in Forms : f # r /\ f \in Requests
    BY IdsAssumption DEF Requests
  <2>2. QED
    BY <2>1 DEF QuestionInv, RequestInv, TailsTyped, FormInv, AskPermission
<1>2. SameForms(s)
  <2>1. CASE s = x
    <3>1. tail'[s] = Append(tail[s], PermissionGate(r))
      BY <1>1, <2>1 DEF AskPermission
    <3>2. QED
      BY <1>1, <3>1, PushedSame, PushedBlocks, NotForms
  <2>2. CASE s # x
    BY <1>1, <2>2 DEF SameForms, AskPermission
  <2>3. QED
    BY <2>1, <2>2
<1>3. QED
  BY <1>1, <1>2, FormsStay

LEMMA Joined ==
  ASSUME NEW S, NEW p \in Seq(S), NEW q \in Seq(S)
  PROVE  /\ Len(p) \in Nat /\ DOMAIN p = 1..Len(p) /\ DOMAIN (p \o q) = 1..Len(p) + Len(q)
         /\ \A i \in 1..Len(p) : (p \o q)[i] = p[i]
         /\ \A i \in 1..Len(p) + Len(q) :
              Len(p) < i => (p \o q)[i] = q[i - Len(p)] /\ i - Len(p) \in 1..Len(q)
OBVIOUS

\* A form brings its questions and their gates in the same order.
LEMMA AskFormForms ==
  ASSUME QuestionInv, NEW x \in Sessions, NEW f \in Forms, AskForm(x, f)
  PROVE  FormInv'
<1>1. /\ FormInv /\ tail \in [Sessions -> Seq(Block)] /\ questions \in [Sessions -> Seq(Field)]
      /\ home \in [Requests -> Sessions \cup {None}] /\ f \in Requests
      /\ open' = open \cup {f} /\ home' = [home EXCEPT ![f] = x] /\ home[f] = None
      /\ f \notin open
  BY DEF QuestionInv, RequestInv, TailsTyped, AskForm, New, Requests
<1>2. /\ home'[f] = x
      /\ \A g \in Forms \cap open : g \in open' /\ home'[g] = home[g]
  BY <1>1 DEF Requests
<1>3. \E n \in 1..MaxFields, o \in AgentOptions :
        /\ questions' = [questions EXCEPT ![x] = @ \o FormFields(f, n)]
        /\ tail' = [tail EXCEPT ![x] = @ \o FormGates(f, n, o)]
  BY DEF AskForm
<1>4. PICK n \in 1..MaxFields : \E o \in AgentOptions :
        /\ questions' = [questions EXCEPT ![x] = @ \o FormFields(f, n)]
        /\ tail' = [tail EXCEPT ![x] = @ \o FormGates(f, n, o)]
  BY <1>3
<1>5. PICK o \in AgentOptions :
        /\ questions' = [questions EXCEPT ![x] = @ \o FormFields(f, n)]
        /\ tail' = [tail EXCEPT ![x] = @ \o FormGates(f, n, o)]
  BY <1>4
<1>6. n \in Nat /\ n > 0
  BY MaxFieldsAssumption
<1> DEFINE fields == FormFields(f, n)
           gates == FormGates(f, n, o)
           m == Len(tail[x])
<1>7. /\ gates \in Seq(Block) /\ Len(gates) = n
      /\ fields \in Seq(Field) /\ Len(fields) = n
      /\ \A k \in 1..n : gates[k].of = fields[k] /\ fields[k].form = f /\ fields[k] \in Field
  BY <1>6, MaxFieldsAssumption, FormGatesTyped DEF FormGates, FormFields, QuestionGate, Field
<1>8. /\ tail'[x] = tail[x] \o gates /\ questions'[x] = questions[x] \o fields
      /\ \A s \in Sessions \ {x} : tail'[s] = tail[s] /\ questions'[s] = questions[s]
      /\ tail[x] \in Seq(Block) /\ questions[x] \in Seq(Field)
  BY <1>1, <1>5
<1> HIDE DEF fields, gates
<1>9. /\ m \in Nat /\ DOMAIN tail[x] = 1..m /\ DOMAIN tail'[x] = 1..m + n
      /\ \A i \in 1..m : tail'[x][i] = tail[x][i]
      /\ \A i \in 1..m + n : m < i => tail'[x][i] = gates[i - m] /\ i - m \in 1..n
  <2> DEFINE p == tail[x]
             r == p \o gates
  <2>1. p \in Seq(Block) /\ gates \in Seq(Block) /\ tail'[x] = r /\ Len(gates) = n
    BY <1>7, <1>8
  <2> HIDE DEF p
  <2>2. /\ Len(p) \in Nat /\ DOMAIN p = 1..Len(p) /\ DOMAIN r = 1..Len(p) + Len(gates)
        /\ \A i \in 1..Len(p) : r[i] = p[i]
        /\ \A i \in 1..Len(p) + Len(gates) :
             Len(p) < i => r[i] = gates[i - Len(p)] /\ i - Len(p) \in 1..Len(gates)
    BY <2>1, Joined
  <2> HIDE DEF r
  <2>3. QED
    BY <2>1, <2>2 DEF p
<1>10. questions'[x] # <<>> /\ Last(questions'[x]) = fields[n]
  BY <1>6, <1>7, <1>8 DEF Last
<1> HIDE DEF m
<1>11. ASSUME NEW i \in DOMAIN tail'[x], IsForm(tail'[x][i])
       PROVE  /\ tail'[x][i].of.form \in open' /\ home'[tail'[x][i].of.form] = x
              /\ (\A j \in DOMAIN tail'[x] : i < j => ~IsForm(tail'[x][j])) => i = m + n
  <2>1. IsForm(tail'[x][m + n]) /\ m + n \in DOMAIN tail'[x]
    <3>1. tail'[x][m + n] = gates[n] /\ m + n \in DOMAIN tail'[x]
      BY <1>6, <1>9
    <3>2. gates[n].of \in Field
      BY <1>6, <1>7
    <3>3. QED
      BY <3>1, <3>2 DEF IsForm
  <2>2. i = m + n \/ i < m + n
    BY <1>6, <1>9
  <2>3. CASE i \in 1..m
    <3>1. i \in DOMAIN tail[x] /\ tail'[x][i] = tail[x][i]
      BY <1>9, <2>3
    <3>2. tail[x][i].of.form \in open /\ home[tail[x][i].of.form] = x
      BY <1>1, <1>11, <3>1 DEF FormInv, FormsOf, IsForm
    <3>3. tail[x][i].of.form \in Forms
      BY <1>11, <3>1, FieldIs DEF IsForm
    <3>4. QED
      BY <1>2, <2>1, <2>2, <3>1, <3>2, <3>3
  <2>4. CASE m < i
    <3>1. tail'[x][i].of.form = f
      BY <1>7, <1>9, <2>4
    <3>2. QED
      BY <1>1, <1>2, <2>1, <2>2, <3>1
  <2>5. QED
    BY <1>9, <2>3, <2>4
<1>12. FormsOf(x)'
  <2>1. m + n \in 1..m + n /\ m < m + n /\ (m + n) - m = n /\ n \in 1..n
    BY <1>6, <1>9
  <2>2. tail'[x][m + n].of = fields[n]
    BY <1>7, <1>9, <2>1
  <2>3. QED
    BY <1>10, <1>11, <2>2 DEF FormsOf, IsForm
<1>13. ASSUME NEW s \in Sessions \ {x} PROVE FormsOf(s)'
  <2>1. FormsOf(s) /\ SameForms(s) /\ questions'[s] = questions[s]
    BY <1>1, <1>8 DEF FormInv, SameForms
  <2>2. QED
    BY <1>2, <2>1, FormsStay
<1>14. QED
  BY <1>12, <1>13 DEF FormInv

\* The answer is for a form of this session only, and no question is left there.
LEMMA ReplyFormForms ==
  ASSUME QuestionInv, ReplyForm
  PROVE  FormInv'
<1> SUFFICES ASSUME NEW s \in Sessions PROVE FormsOf(s)'
  BY DEF FormInv
<1>1. /\ FormsOf(s) /\ UNCHANGED home /\ Bury(active) /\ questions[active] # <<>>
      /\ active \in Sessions /\ tail \in [Sessions -> Seq(Block)]
      /\ questions \in [Sessions -> Seq(Field)]
  BY DEF QuestionInv, RequestInv, TailsTyped, FormInv, ReplyForm
<1>2. CASE s = active
  BY <1>1, <1>2, FormsLeft DEF NoForms, Bury
<1>3. CASE s # active
  <2>1. SameForms(s) /\ questions'[s] = questions[s]
    BY <1>1, <1>3 DEF SameForms, Bury, ReplyForm
  <2> DEFINE q == PendingQuestion(active)
  <2>2. home[q.form] = active
    BY <1>1 DEF PendingQuestion, Last, QuestionInv, RequestInv
  <2>3. Close(q.form) \/ open' = open
    BY DEF ReplyForm, ReplyFails
  <2> HIDE DEF q
  <2>4. \A f \in Forms \cap open : home[f] = s => f \in open' /\ home'[f] = s
    BY <1>1, <1>3, <2>2, <2>3 DEF Close
  <2>5. QED
    BY <1>1, <2>1, <2>4, FormsStay
<1>4. QED
  BY <1>2, <1>3

\* The questions of a form that does not wait any more are forgotten, and no gate that
\* is left is one of them.
LEMMA RepliedForms ==
  ASSUME QuestionInv, NEW r \in Requests, Replied(r) \/ Missed(r)
  PROVE  FormInv'
<1> SUFFICES ASSUME NEW s \in Sessions PROVE FormsOf(s)'
  BY DEF FormInv
<1>1. FormsOf(s) /\ UNCHANGED <<home, tail, open>> /\ r \notin open
      /\ questions \in [Sessions -> Seq(Field)]
  BY DEF QuestionInv, RequestInv, FormInv, Replied, Missed, pending
<1>2. SameForms(s)
  BY <1>1 DEF SameForms
<1>3. CASE questions'[s] = questions[s]
  BY <1>1, <1>2, <1>3, FormsStay
<1>4. CASE questions'[s] # questions[s]
  <2>1. questions'[s] = WithoutForm(questions[s], r)
    BY <1>1, <1>4 DEF Replied, Missed, pending
  <2>2. questions[s] # <<>> /\ Last(questions[s]).form \in open
          => questions'[s] # <<>> /\ Last(questions'[s]) = Last(questions[s])
    BY <1>1, <2>1, WithoutFormIs
  <2>3. QED
    BY <1>1, <1>2, <2>2, FormsStay
<1>5. QED
  BY <1>3, <1>4

\* A request of the server is open or on its way back, never both, and what is asked of a
\* session was asked there.
LEMMA RequestsSame ==
  ASSUME RequestInv, UNCHANGED <<questions, home>>,
         permission' \in [Sessions -> Permissions \cup {None}],
         \/ UNCHANGED <<open, replied>>
         \/ open' = open /\ replied' \subseteq replied
         \/ \E r \in Requests : r \in open /\ Close(r)
  PROVE  RequestInv'
BY DEF RequestInv, Close

LEMMA AskPermissionRequests ==
  ASSUME RequestInv, NEW x \in Sessions, NEW r \in Permissions, AskPermission(x, r)
  PROVE  RequestInv'
<1>1. /\ r \in Requests /\ home[r] = None /\ x # None /\ home' = [home EXCEPT ![r] = x]
      /\ open' = open \cup {r} /\ permission' = [permission EXCEPT ![x] = r]
      /\ UNCHANGED <<questions, replied>>
  BY NoneAssumption DEF AskPermission, New, Requests
<1>2. r \notin open /\ r \notin replied
  BY <1>1 DEF RequestInv
<1>3. ASSUME NEW s \in Sessions, NEW i \in DOMAIN questions[s]
      PROVE  home'[questions[s][i].form] = s
  <2>1. questions[s][i] \in Field
    BY DEF RequestInv
  <2>2. questions[s][i].form # r /\ questions[s][i].form \in Requests
    BY <2>1, FieldIs, IdsAssumption
  <2>3. QED
    BY <1>1, <2>2 DEF RequestInv
<1>4. QED
  BY <1>1, <1>2, <1>3 DEF RequestInv

LEMMA AskFormRequests ==
  ASSUME RequestInv, NEW x \in Sessions, NEW f \in Forms, AskForm(x, f)
  PROVE  RequestInv'
<1>1. /\ f \in Requests /\ home[f] = None /\ x # None /\ home' = [home EXCEPT ![f] = x]
      /\ open' = open \cup {f} /\ UNCHANGED <<permission, replied>>
      /\ questions \in [Sessions -> Seq(Field)]
  BY NoneAssumption DEF AskForm, New, Requests, RequestInv
<1>2. f \notin open /\ f \notin replied
  BY <1>1 DEF RequestInv
<1>3. PICK n \in 1..MaxFields : questions' = [questions EXCEPT ![x] = @ \o FormFields(f, n)]
  BY DEF AskForm
<1> DEFINE fields == FormFields(f, n)
           p == questions[x]
           r == p \o fields
<1>4. fields \in Seq(Field) /\ \A k \in DOMAIN fields : fields[k].form = f
  BY MaxFieldsAssumption DEF FormFields, Field
<1>5. p \in Seq(Field) /\ r \in Seq(Field) /\ questions' = [questions EXCEPT ![x] = r]
  BY <1>1, <1>3, <1>4
<1> HIDE DEF fields
<1>6. ASSUME NEW s \in Sessions, NEW i \in DOMAIN questions[s]
      PROVE  home'[questions[s][i].form] = s
  <2>1. questions[s][i] \in Field
    BY <1>1
  <2>2. questions[s][i].form \in Requests /\ home[questions[s][i].form] = s
    BY <2>1, FieldIs DEF RequestInv
  <2>3. s # None
    BY NoneAssumption
  <2>4. QED
    BY <1>1, <2>2, <2>3 DEF RequestInv
<1>7. ASSUME NEW i \in DOMAIN r PROVE home'[r[i].form] = x
  <2> HIDE DEF p
  <2>1. /\ Len(p) \in Nat /\ DOMAIN p = 1..Len(p) /\ DOMAIN r = 1..Len(p) + Len(fields)
        /\ \A k \in 1..Len(p) : r[k] = p[k]
        /\ \A k \in 1..Len(p) + Len(fields) :
             Len(p) < k => r[k] = fields[k - Len(p)] /\ k - Len(p) \in 1..Len(fields)
    BY <1>4, <1>5, Joined
  <2> HIDE DEF r
  <2>2. CASE i \in 1..Len(p)
    <3>1. i \in DOMAIN questions[x] /\ r[i] = questions[x][i]
      BY <2>1, <2>2 DEF p
    <3>2. QED
      BY <1>6, <3>1
  <2>3. CASE i \notin 1..Len(p)
    <3>1. i \in 1..Len(p) + Len(fields) /\ Len(p) < i
      BY <2>1, <2>3
    <3>2. r[i].form = f
      BY <1>4, <2>1, <3>1
    <3>3. QED
      BY <1>1, <3>2 DEF RequestInv
  <2>4. QED
    BY <2>2, <2>3
<1> HIDE DEF r, p
<1>8. \A s \in Sessions : \A i \in DOMAIN questions'[s] : home'[questions'[s][i].form] = s
  BY <1>1, <1>5, <1>6, <1>7
<1>9. questions' \in [Sessions -> Seq(Field)]
  BY <1>1, <1>5
<1>10. QED
  BY <1>1, <1>2, <1>8, <1>9 DEF RequestInv

LEMMA ReplyFormRequests ==
  ASSUME RequestInv, active \in Sessions, ReplyForm
  PROVE  RequestInv'
<1>1. /\ questions[active] # <<>> /\ UNCHANGED <<permission, home>>
      /\ questions \in [Sessions -> Seq(Field)]
  BY DEF ReplyForm, RequestInv
<1> DEFINE q == PendingQuestion(active)
<1>2. q.form \in Requests
  <2>1. q \in Field
    BY <1>1 DEF PendingQuestion, Last
  <2>2. QED
    BY <2>1, FieldIs
<1>3. \/ UNCHANGED <<open, replied>>
      \/ q.form \in open /\ Close(q.form)
  BY DEF ReplyForm, ReplyFails
<1> HIDE DEF q
<1>4. CASE UNCHANGED questions
  <2>1. permission' \in [Sessions -> Permissions \cup {None}]
    BY <1>1 DEF RequestInv
  <2>2. QED
    BY <1>1, <1>2, <1>3, <1>4, <2>1, RequestsSame
<1>5. CASE questions' = [questions EXCEPT ![active] = Pop(@)]
  <2>1. /\ Pop(questions[active]) \in Seq(Field)
        /\ \A i \in DOMAIN Pop(questions[active]) :
             i \in DOMAIN questions[active] /\ Pop(questions[active])[i] = questions[active][i]
    BY <1>1 DEF Pop
  <2> DEFINE r == Pop(questions[active])
  <2>2. questions' \in [Sessions -> Seq(Field)]
    BY <1>1, <1>5, <2>1
  <2>3. \A s \in Sessions : \A i \in DOMAIN questions'[s] : home[questions'[s][i].form] = s
    BY <1>1, <1>5, <2>1 DEF RequestInv
  <2>4. QED
    BY <1>1, <1>2, <1>3, <2>2, <2>3 DEF RequestInv, Close
<1>6. QED
  BY <1>4, <1>5 DEF ReplyForm

LEMMA RepliedRequests ==
  ASSUME RequestInv, NEW r \in Requests, Replied(r)
  PROVE  RequestInv'
<1>1. /\ replied' = replied \ {r} /\ UNCHANGED <<home, open>> /\ home[r] \in Sessions
      /\ questions \in [Sessions -> Seq(Field)]
  BY DEF Replied, RequestInv
<1>2. CASE r \in Permissions
  <2>1. permission' \in [Sessions -> Permissions \cup {None}] /\ UNCHANGED questions
    BY <1>1, <1>2 DEF Replied, RequestInv
  <2>2. QED
    BY <1>1, <2>1, RequestsSame
<1>3. CASE r \notin Permissions
  <2> DEFINE p == questions[home[r]]
             k == WithoutForm(p, r)
  <2>1. questions' = [questions EXCEPT ![home[r]] = k] /\ UNCHANGED permission
    BY <1>3 DEF Replied
  <2>2. k \in Seq(Field) /\ \A i \in DOMAIN k : \E j \in DOMAIN p : k[i] = p[j]
    BY <1>1, WithoutFormIs
  <2> HIDE DEF k
  <2>3. \A i \in DOMAIN k : home[k[i].form] = home[r]
    BY <1>1, <2>2 DEF RequestInv
  <2>4. QED
    BY <1>1, <2>1, <2>2, <2>3 DEF RequestInv
<1>4. QED
  BY <1>2, <1>3

LEMMA RequestInvKept ==
  ASSUME RequestInv, active \in Sessions, [Next]_vars
  PROVE  RequestInv'
<1>1. permission \in [Sessions -> Permissions \cup {None}]
  BY DEF RequestInv
<1>2. CASE UNCHANGED <<permission, questions, home, open, replied>>
  BY <1>1, <1>2, RequestsSame
<1>3. CASE ResolvePermission
  <2>1. /\ permission' \in [Sessions -> Permissions \cup {None}]
        /\ UNCHANGED <<questions, home>>
    BY <1>1, <1>3 DEF ResolvePermission
  <2>2. \/ UNCHANGED <<open, replied>>
        \/ permission[active] \in open /\ Close(permission[active])
    BY <1>3 DEF ResolvePermission, ReplyFails
  <2>3. open \subseteq Requests
    BY DEF RequestInv
  <2>4. QED
    BY <2>1, <2>2, <2>3, RequestsSame
<1>4. CASE ReplyForm
  BY <1>4, ReplyFormRequests
<1>5. ASSUME NEW r \in Requests, AnsweredElsewhere(r) \/ Replied(r) \/ Missed(r)
      PROVE  RequestInv'
  BY <1>1, <1>5, RequestsSame, RepliedRequests DEF AnsweredElsewhere, Missed, pending
<1>6. ASSUME NEW s \in Sessions,
             \/ \E r \in Permissions : AskPermission(s, r)
             \/ \E f \in Forms : AskForm(s, f)
      PROVE  RequestInv'
  BY <1>6, AskPermissionRequests, AskFormRequests
<1>7. CASE \/ Say \/ Prompt \/ Refused \/ Fork \/ ReadOnlyCommand
           \/ CommitRevert \/ AbandonRevert \/ ConfirmCommand \/ CancelCommand
           \/ AnswerLocally \/ AnswerBeyond \/ Cancel \/ ConnectionLost
           \/ (\E m \in Messages : StageRevert(m)) \/ (\E c \in Writers : ExecuteCommand(c))
  BY <1>2, <1>7
  DEF Say, Prompt, Refused, Fork, ReadOnlyCommand, RunCommand, CommitRevert, AbandonRevert,
      ConfirmCommand, CancelCommand, AnswerLocally, AnswerBeyond, Cancel, ConnectionLost,
      StageRevert, ExecuteCommand, pending, server
<1>8. ASSUME NEW s \in Sessions,
             \/ Select(s) \/ Started(s) \/ Ended(s) \/ EndedOtherwise(s)
             \/ Compacting(s) \/ Output(s)
      PROVE  RequestInv'
  BY <1>2, <1>8
  DEF Select, Started, Ended, EndedOtherwise, Compacting, Output, pending, server
<1>9. CASE UNCHANGED vars
  BY <1>2, <1>9 DEF vars, pending, server
<1>10. QED
  BY <1>3, <1>4, <1>5, <1>6, <1>7, <1>8, <1>9 DEF Next

LEMMA QuestionInvKept ==
  ASSUME "form" \notin Elsewhere, QuestionInv, [Next]_vars
  PROVE  QuestionInv'
<1>1. TailsTyped' /\ RequestInv'
  BY TypesKept, RequestInvKept DEF QuestionInv, TailsTyped
<1>2. FormInv'
  <2>1. CASE \/ Say \/ Prompt \/ Refused \/ Fork \/ ReadOnlyCommand
             \/ CommitRevert \/ AbandonRevert \/ ConfirmCommand \/ CancelCommand
             \/ AnswerLocally \/ AnswerBeyond \/ Cancel \/ ConnectionLost
    <3>1. UNCHANGED <<questions, home, open>>
      BY <2>1
      DEF Say, Prompt, Refused, Fork, ReadOnlyCommand, RunCommand, CommitRevert, AbandonRevert,
          ConfirmCommand, CancelCommand, AnswerLocally, AnswerBeyond, Cancel, ConnectionLost,
          pending, server
    <3>2. QED
      BY <2>1, <3>1, OtherSteps
  <2>2. ASSUME NEW s \in Sessions,
               \/ Select(s) \/ Started(s) \/ Ended(s) \/ EndedOtherwise(s)
               \/ Compacting(s) \/ Output(s)
        PROVE  FormInv'
    <3>1. UNCHANGED <<questions, home, open>>
      BY <2>2
      DEF Select, Started, Ended, EndedOtherwise, Compacting, Output, pending, server
    <3>2. QED
      BY <2>2, <3>1, OtherSteps
  <2>3. CASE (\E m \in Messages : StageRevert(m)) \/ (\E c \in Writers : ExecuteCommand(c))
    BY <2>3, OwnSteps
  <2>4. CASE ResolvePermission \/ \E r \in Requests : AnsweredElsewhere(r)
    BY <2>4, PermissionSteps
  <2>5. CASE ReplyForm
    BY <2>5, ReplyFormForms
  <2>6. ASSUME NEW s \in Sessions,
               \/ \E r \in Permissions : AskPermission(s, r)
               \/ \E f \in Forms : AskForm(s, f)
        PROVE  FormInv'
    BY <2>6, AskPermissionForms, AskFormForms
  <2>7. ASSUME NEW r \in Requests, Replied(r) \/ Missed(r) PROVE FormInv'
    BY <2>7, RepliedForms
  <2>8. CASE UNCHANGED vars
    BY <2>8 DEF vars, pending, server, QuestionInv, FormInv, FormsOf, IsForm
  <2>9. QED
    BY <2>1, <2>2, <2>3, <2>4, <2>5, <2>6, <2>7, <2>8 DEF Next
<1>3. QED
  BY <1>1, <1>2 DEF QuestionInv

\* A form is answered by the answer to a gate only.
LEMMA FormSender ==
  ASSUME Next, Made("form")
  PROVE  ReplyForm
<1> USE DEF Made, Call
<1>1. CASE \/ Say \/ Prompt \/ Refused \/ Fork \/ ReadOnlyCommand
           \/ ResolvePermission \/ CommitRevert \/ AbandonRevert \/ ConfirmCommand
           \/ CancelCommand \/ AnswerLocally \/ AnswerBeyond \/ Cancel \/ ConnectionLost
           \/ (\E m \in Messages : StageRevert(m)) \/ (\E c \in Writers : ExecuteCommand(c))
  BY <1>1
  DEF Say, Prompt, Refused, Fork, ReadOnlyCommand, RunCommand, ResolvePermission, CommitRevert,
      AbandonRevert, ConfirmCommand, CancelCommand, AnswerLocally, AnswerBeyond, Cancel,
      ConnectionLost, StageRevert, ExecuteCommand
<1>2. ASSUME NEW s \in Sessions,
             \/ Select(s) \/ Started(s) \/ Ended(s) \/ EndedOtherwise(s)
             \/ Compacting(s) \/ Output(s)
             \/ \E r \in Permissions : AskPermission(s, r)
             \/ \E f \in Forms : AskForm(s, f)
      PROVE  FALSE
  BY <1>2 DEF Select, Started, Ended, EndedOtherwise, Compacting, Output,
              AskPermission, AskForm
<1>3. ASSUME NEW r \in Requests, AnsweredElsewhere(r) \/ Replied(r) \/ Missed(r)
      PROVE  FALSE
  BY <1>3 DEF AnsweredElsewhere, Replied, Missed
<1>4. QED
  BY <1>1, <1>2, <1>3 DEF Next

\* As long as no other client answers forms, the answer to a question of the agent goes
\* to the field the question is about.
THEOREM QuestionReachesItsFormHolds ==
  ASSUME "form" \notin Elsewhere
  PROVE  Spec => QuestionReachesItsForm
<1>1. Init => QuestionInv
  <2> SUFFICES ASSUME Init PROVE QuestionInv
    OBVIOUS
  <2>1. \A s \in Sessions : /\ tail[s] = <<>> /\ DOMAIN tail[s] = {}
                            /\ questions[s] = <<>> /\ DOMAIN questions[s] = {}
    BY DEF Init
  <2>2. TailsTyped
    BY DEF Init, TailsTyped
  <2>3. <<>> \in Seq(Field)
    OBVIOUS
  <2>4. RequestInv
    BY <2>1, <2>3 DEF Init, RequestInv
  <2>5. QED
    BY <2>1, <2>2, <2>4 DEF QuestionInv, FormInv, FormsOf
<1>2. QuestionInv /\ [Next]_vars => QuestionInv'
  BY QuestionInvKept
<1>3. QuestionInv /\ [Next]_vars =>
        [Made("form") /\ Top.of \in Field => sent'.to = Top.of]_vars
  <2> SUFFICES ASSUME QuestionInv, Next, Made("form"), Top.of \in Field
               PROVE  sent'.to = Top.of
    OBVIOUS
  <2>1. ReplyForm
    BY FormSender
  <2>2. sent'.to = PendingQuestion(active) /\ Blocker
    BY <2>1 DEF ReplyForm, TakenForForm, Call
  <2>3. /\ active \in Sessions /\ Len(tail[active]) \in DOMAIN tail[active]
        /\ DOMAIN tail[active] = 1..Len(tail[active]) /\ Len(tail[active]) \in Nat
        /\ Top = tail[active][Len(tail[active])]
    BY <2>2 DEF QuestionInv, TailsTyped, Blocker, Top, Last
  <2>4. ~\E j \in DOMAIN tail[active] : Len(tail[active]) < j
    BY <2>3
  <2>5. FormsOf(active) /\ IsForm(Top)
    BY <2>3 DEF QuestionInv, FormInv, IsForm
  <2>6. Last(questions[active]) = Top.of
    BY <2>3, <2>4, <2>5 DEF FormsOf
  <2>7. QED
    BY <2>2, <2>6 DEF PendingQuestion
<1>4. QED
  BY <1>1, <1>2, <1>3, PTL DEF Spec, QuestionReachesItsForm

===============================================================================
