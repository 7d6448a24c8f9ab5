-------------------------------- MODULE Proposals --------------------------------
(***************************************************************************)
(* The quarantine of proposed memories: ProposalQueue                      *)
(* (src/backend/memory/proposal.rs) and its triage (triage.rs), over the   *)
(* queues of both scopes.                                                  *)
(*                                                                         *)
(*   proposals.jsonl   queue      proposals waiting for the user           *)
(*   discarded.jsonl   discarded  identities the user refused, oldest      *)
(*                                first                                    *)
(*   <file>.tmp.<pid>  temps      temp files left by a failed rewrite      *)
(*   memory.jsonl      active     how many ACTIVE records an identity has  *)
(*   tombstones.jsonl  tombs      forgotten identities                     *)
(*                                                                         *)
(* An identity is a kind and a normalised text; with the scope it is what  *)
(* canonical_hash hashes.  Ids grow with time (generate_id), so a queue is *)
(* a set and its order, created_at then id, is the order of the ids.       *)
(*                                                                         *)
(* Unlike memory.jsonl the queue files have no lock: a process loads both, *)
(* changes its copy and rewrites first one, then the other.  The two reads *)
(* of one opening are one step here.  A mutation of memory.jsonl is one    *)
(* step, which is what MemoryStore shows of it.                            *)
(***************************************************************************)
EXTENDS Integers, FiniteSets, Sequences, SequencesExt

CONSTANTS Procs,
          Scopes,         \* {"user"}, or {"user", "project"} under a project root
          Kinds, Texts,
          MaxId,          \* bound: proposals ever generated
          MaxDrafts,      \* bound: candidates in one history
          MaxCopies,      \* bound: ACTIVE records of one identity
          MaxProposals,   \* MAX_PROPOSALS
          MaxDiscarded,   \* MAX_DISCARDED
          Overrides,      \* what a confirm may override
          Faults,
          Nothing

ASSUME ScopesAssumption == "user" \in Scopes /\ Scopes \subseteq {"user", "project"}
ASSUME OverridesAssumption == Overrides \subseteq {"scope", "kind"}
ASSUME BoundsAssumption == MaxProposals \in Nat \ {0} /\ MaxDiscarded \in Nat \ {0}
ASSUME FaultsAssumption ==
  Faults \subseteq {"crash",   \* a process dies
                    "write",   \* a rewrite of a queue file, or a remember, fails
                    "read"}    \* the corpus or the tombstones cannot be read

VARIABLES
  queue, discarded, temps, active, tombs,
  lastId,    \* newest id generate_id has handed out
  horizon,   \* proposals up to this id are older than PROPOSAL_TTL_SECS
  pc,
  drafts,    \* candidates of a refresh that are still to be admitted
  rest,      \* scopes a discard of everything still has to clear
  file,      \* scope of the queue in hand
  mine,      \* the copy of that queue, as it will be saved
  pick,      \* the proposal that is being confirmed or discarded
  into,      \* scope and kind it is confirmed into
  reply,
  dropped    \* history: identities whose discard has completed, and whose hash the
             \* bound has not pushed out since

files == <<queue, discarded, temps>>
store == <<active, tombs>>
job == <<drafts, rest, file, mine, pick, into>>
vars == <<files, store, lastId, horizon, pc, job, reply, dropped>>

Identity == [kind: Kinds, text: Texts]
Proposal == [id: 1..MaxId, kind: Kinds, text: Texts]

IdentityOf(x) == [kind |-> x.kind, text |-> x.text]
Identities(q) == {IdentityOf(x) : x \in q}

\* A loaded queue, whether a push has changed it, and what its discards add to
\* and push out of the discarded hashes.
Copy(q, d) == [queue |-> q, discarded |-> d, dirty |-> FALSE, refused |-> {}, evicted |-> {}]

-------------------------------------------------------------------------------
(* ProposalQueue *)

\* Opening drops what has expired.
Open(s) == Copy({x \in queue[s] : x.id > horizon}, discarded[s])

Newest(q) == {x \in q : Cardinality({y \in q : y.id > x.id}) < MaxProposals}

\* Deliberately wrong: one identity may be queued twice.
NotRefused(copy, i) == i \notin Range(copy.discarded)

Admissible(copy, i) ==
  /\ i \notin Range(copy.discarded)
  /\ i \notin Identities(copy.queue)

\* Deliberately wrong: the queue is rewritten with the new proposal alone.
PushAlone(copy, x) ==
  IF Admissible(copy, IdentityOf(x))
  THEN [copy EXCEPT !.queue = {x}, !.dirty = TRUE]
  ELSE copy

Push(copy, x) ==
  IF Admissible(copy, IdentityOf(x))
  THEN [copy EXCEPT !.queue = Newest(copy.queue \cup {x}), !.dirty = TRUE]
  ELSE copy

\* Deliberately wrong: the proposal stays where it is.
WithoutNone(copy, x) == copy

Without(copy, x) == [copy EXCEPT !.queue = {y \in copy.queue : y.id # x.id}]

\* Deliberately wrong: the newest hash goes when there are too many.
DiscardNewest(copy, i) ==
  LET full == Len(copy.discarded) = MaxDiscarded
  IN [copy EXCEPT !.refused = @ \cup {i},
                  !.evicted = IF full THEN @ \cup {Head(copy.discarded)} ELSE @,
                  !.discarded = IF full THEN @ ELSE Append(@, i)]

DiscardHash(copy, i) ==
  LET known == i \in Range(copy.discarded)
      full == ~known /\ Len(copy.discarded) = MaxDiscarded
      longer == IF known THEN copy.discarded ELSE Append(copy.discarded, i)
  IN [queue |-> copy.queue,
      discarded |-> IF full THEN Tail(longer) ELSE longer,
      dirty |-> copy.dirty,
      refused |-> copy.refused \cup {i},
      evicted |-> copy.evicted \cup (IF full THEN {Head(copy.discarded)} ELSE {})]

-------------------------------------------------------------------------------
Init ==
  /\ queue = [s \in Scopes |-> {}]
  /\ discarded = [s \in Scopes |-> <<>>]
  /\ temps = {}
  /\ active = [s \in Scopes |-> [i \in Identity |-> 0]]
  /\ tombs = [s \in Scopes |-> {}]
  /\ lastId = 0
  /\ horizon = 0
  /\ pc = [p \in Procs |-> "idle"]
  /\ drafts = [p \in Procs |-> {}]
  /\ rest = [p \in Procs |-> {}]
  /\ file = [p \in Procs |-> "user"]
  /\ mine = [p \in Procs |-> Copy({}, <<>>)]
  /\ pick = [p \in Procs |-> Nothing]
  /\ into = [p \in Procs |-> Nothing]
  /\ reply = [p \in Procs |-> "none"]
  /\ dropped = [s \in Scopes |-> {}]

Goto(p, label) == pc' = [pc EXCEPT ![p] = label]

\* The command of p is over, in whatever way.
Return(p, answer) ==
  /\ Goto(p, "idle")
  /\ drafts' = [drafts EXCEPT ![p] = {}]
  /\ rest' = [rest EXCEPT ![p] = {}]
  /\ file' = [file EXCEPT ![p] = "user"]
  /\ mine' = [mine EXCEPT ![p] = Copy({}, <<>>)]
  /\ pick' = [pick EXCEPT ![p] = Nothing]
  /\ into' = [into EXCEPT ![p] = Nothing]
  /\ reply' = [reply EXCEPT ![p] = answer]

\* The queue of the user scope comes first in every loop over scopes.
First(scopes) == IF "user" \in scopes THEN "user" ELSE "project"

-------------------------------------------------------------------------------
(* refresh_session_proposals *)

\* Deliberately wrong: the tombstones are not consulted.
CandidatesNotActive(found, knowsTombs, knowsActive) ==
  {d \in found : knowsActive => active[d[1]][d[2]] = 0}

Candidates(found, knowsTombs, knowsActive) ==
  {d \in found : /\ knowsTombs => d[2] \notin tombs[d[1]]
                 /\ knowsActive => active[d[1]][d[2]] = 0}

\* Drafts that commands in flight may still turn into proposals.
InFlight == FoldSet(LAMBDA p, n : n + Cardinality(drafts[p]), 0, Procs)

\* generate: candidates of the history that are neither forgotten nor ACTIVE.  A
\* corpus that cannot be read counts as empty, and so do the tombstones.
Refresh(p) ==
  /\ pc[p] = "idle"
  /\ \E found \in SUBSET (Scopes \X Identity) :
     \E knowsTombs, knowsActive \in BOOLEAN :
       LET new == Candidates(found, knowsTombs, knowsActive)
       IN /\ ~knowsTombs \/ ~knowsActive => "read" \in Faults
          /\ Cardinality(found) <= MaxDrafts
          /\ new # {}
          /\ lastId + InFlight + Cardinality(new) <= MaxId
          /\ drafts' = [drafts EXCEPT ![p] = new]
  /\ Goto(p, "admit")
  /\ reply' = [reply EXCEPT ![p] = "none"]
  /\ UNCHANGED <<files, store, lastId, horizon, rest, file, mine, pick, into, dropped>>

\* admit_drafts opens the queue of a scope once for all drafts of that scope.
AdmitOpen(p) ==
  /\ pc[p] = "admit"
  /\ LET s == First({d[1] : d \in drafts[p]})
     IN file' = [file EXCEPT ![p] = s] /\ mine' = [mine EXCEPT ![p] = Open(s)]
  /\ Goto(p, "push")
  /\ UNCHANGED <<files, store, lastId, horizon, drafts, rest, pick, into, reply, dropped>>

AdmitPush(p) ==
  /\ pc[p] = "push"
  /\ \E d \in drafts[p] :
       /\ d[1] = file[p]
       /\ mine' = [mine EXCEPT ![p] =
            Push(@, [id |-> lastId + 1, kind |-> d[2].kind, text |-> d[2].text])]
       /\ drafts' = [drafts EXCEPT ![p] = @ \ {d}]
       /\ lastId' = IF Admissible(mine[p], d[2]) THEN lastId + 1 ELSE lastId
  /\ UNCHANGED <<files, store, horizon, pc, rest, file, pick, into, reply, dropped>>

\* What follows the last write of one queue: the next scope of the loop, if any.
NextScope(p, answer) ==
  \/ /\ drafts[p] # {} /\ Goto(p, "admit")
     /\ UNCHANGED <<drafts, rest, file, mine, pick, into, reply>>
  \/ /\ rest[p] # {} /\ Goto(p, "clear")
     /\ UNCHANGED <<drafts, rest, file, mine, pick, into, reply>>
  \/ drafts[p] = {} /\ rest[p] = {} /\ Return(p, answer)

\* Saved only when a proposal was really admitted.
AdmitSave(p) ==
  /\ pc[p] = "push"
  /\ \A d \in drafts[p] : d[1] # file[p]
  /\ IF mine[p].dirty
     THEN Goto(p, "save") /\ UNCHANGED <<job, reply>>
     ELSE NextScope(p, "done")
  /\ UNCHANGED <<files, store, lastId, horizon, dropped>>

-------------------------------------------------------------------------------
(* confirm_proposal *)

\* Deliberately wrong: the tombstones are not read again.
ConfirmUnscreened(p) ==
  /\ pc[p] = "idle"
  /\ \E s \in Scopes : \E x \in Open(s).queue :
     \E t \in Scopes, k \in Kinds :
       /\ t # s => "scope" \in Overrides
       /\ k # x.kind => "kind" \in Overrides
       /\ pick' = [pick EXCEPT ![p] = x]
       /\ into' = [into EXCEPT ![p] = [scope |-> t, kind |-> k]]
       /\ file' = [file EXCEPT ![p] = t]
       /\ Goto(p, "screened")
  /\ reply' = [reply EXCEPT ![p] = "none"]
  /\ UNCHANGED <<files, store, lastId, horizon, drafts, rest, mine, dropped>>

\* Locate the proposal and look for the tombstone of ITS kind and scope; from here
\* on the scope is the one it is confirmed into (the code shadows the variable).
Confirm(p) ==
  /\ pc[p] = "idle"
  /\ \E s \in Scopes : \E x \in Open(s).queue :
     \E t \in {"user", "project"}, k \in Kinds :
       /\ t # s => "scope" \in Overrides
       /\ k # x.kind => "kind" \in Overrides
       /\ pick' = [pick EXCEPT ![p] = x]
       /\ into' = [into EXCEPT ![p] = [scope |-> t, kind |-> k]]
       /\ IF IdentityOf(x) \in tombs[s]
          THEN file' = [file EXCEPT ![p] = s] /\ Goto(p, "remove")
          ELSE /\ t \in Scopes
               /\ file' = [file EXCEPT ![p] = t]
               /\ Goto(p, "screened")
  /\ reply' = [reply EXCEPT ![p] = "none"]
  /\ UNCHANGED <<files, store, lastId, horizon, drafts, rest, mine, dropped>>

ConfirmedIdentity(p) == [kind |-> into[p].kind, text |-> pick[p].text]

\* Deliberately wrong: no look at the ACTIVE records.
SkipDuplicateCheck(p) ==
  /\ pc[p] = "screened"
  /\ Goto(p, "new")
  /\ UNCHANGED <<files, store, lastId, horizon, job, reply, dropped>>

CheckDuplicate(p) ==
  /\ pc[p] = "screened"
  /\ Goto(p, IF active[into[p].scope][ConfirmedIdentity(p)] > 0 THEN "remove" ELSE "new")
  /\ UNCHANGED <<files, store, lastId, horizon, job, reply, dropped>>

Remember(p) ==
  /\ pc[p] = "new"
  /\ active[into[p].scope][ConfirmedIdentity(p)] < MaxCopies
  /\ active' = [active EXCEPT ![into[p].scope][ConfirmedIdentity(p)] = @ + 1]
  /\ Goto(p, "confirmed")
  /\ UNCHANGED <<files, tombs, lastId, horizon, job, reply, dropped>>

\* A store or a queue that cannot be read, and a remember that cannot be written.
CommandFails(p) ==
  /\ \/ pc[p] = "new" /\ "write" \in Faults
     \/ pc[p] \in {"screened", "confirmed", "remove", "admit", "clear"} /\ "read" \in Faults
  /\ Return(p, "failed")
  /\ UNCHANGED <<files, store, lastId, horizon, dropped>>

\* remove_and_save
RemoveOpen(p) ==
  /\ pc[p] \in {"confirmed", "remove"}
  /\ mine' = [mine EXCEPT ![p] = Without(Open(file[p]), pick[p])]
  /\ Goto(p, IF pc[p] = "confirmed" THEN "saveConfirmed" ELSE "save")
  /\ UNCHANGED <<files, store, lastId, horizon, drafts, rest, file, pick, into, reply, dropped>>

-------------------------------------------------------------------------------
(* discard_proposal *)

Discard(p) ==
  /\ pc[p] = "idle"
  /\ \E s \in Scopes : \E x \in Open(s).queue :
       /\ file' = [file EXCEPT ![p] = s]
       /\ pick' = [pick EXCEPT ![p] = x]
       /\ mine' = [mine EXCEPT ![p] = DiscardHash(Without(Open(s), x), IdentityOf(x))]
  /\ Goto(p, "save")
  /\ reply' = [reply EXCEPT ![p] = "none"]
  /\ UNCHANGED <<files, store, lastId, horizon, drafts, rest, into, dropped>>

\* `/memory discard all --confirm`
DiscardAll(p) ==
  /\ pc[p] = "idle"
  /\ rest' = [rest EXCEPT ![p] = Scopes]
  /\ Goto(p, "clear")
  /\ reply' = [reply EXCEPT ![p] = "none"]
  /\ UNCHANGED <<files, store, lastId, horizon, drafts, file, mine, pick, into, dropped>>

\* The hashes of a queue are recorded in its order.
DiscardAllHashes(copy) ==
  LET recorded(c, n) ==
        IF \E x \in copy.queue : x.id = n
        THEN DiscardHash(c, IdentityOf(CHOOSE x \in copy.queue : x.id = n)) ELSE c
      after[n \in 0..lastId] == IF n = 0 THEN copy ELSE recorded(after[n - 1], n)
  IN after[lastId]

Cleared(copy) ==
  LET after == DiscardAllHashes(copy)
  IN [queue |-> {}, discarded |-> after.discarded, dirty |-> FALSE,
      refused |-> after.refused, evicted |-> after.evicted]

ClearScope(p) ==
  /\ pc[p] = "clear"
  /\ LET s == First(rest[p])
     IN /\ rest' = [rest EXCEPT ![p] = @ \ {s}]
        /\ file' = [file EXCEPT ![p] = s]
        /\ mine' = [mine EXCEPT ![p] = Cleared(Open(s))]
  /\ Goto(p, "save")
  /\ UNCHANGED <<files, store, lastId, horizon, drafts, pick, into, reply, dropped>>

-------------------------------------------------------------------------------
(* ProposalQueue::save: two rewrites *)

Saving == {"save", "saveConfirmed"}
Target(p) == IF pc[p] \in Saving THEN "proposals" ELSE "discarded"

SaveProposals(p) ==
  /\ pc[p] \in Saving
  /\ <<p, file[p], "proposals">> \notin temps
  /\ queue' = [queue EXCEPT ![file[p]] = mine[p].queue]
  /\ Goto(p, IF pc[p] = "saveConfirmed" THEN "finishConfirmed" ELSE "finish")
  /\ UNCHANGED <<discarded, temps, store, lastId, horizon, job, reply, dropped>>

SaveDiscarded(p) ==
  /\ pc[p] \in {"finish", "finishConfirmed"}
  /\ <<p, file[p], "discarded">> \notin temps
  /\ discarded' = [discarded EXCEPT ![file[p]] = mine[p].discarded]
  /\ dropped' = [dropped EXCEPT ![file[p]] =
       (@ \cup mine[p].refused) \ mine[p].evicted]
  /\ NextScope(p, IF pc[p] = "finishConfirmed" THEN "confirmed" ELSE "done")
  /\ UNCHANGED <<queue, temps, store, lastId, horizon>>

\* An error of either rewrite ends the command; it may leave the temp file, and
\* the create_new of every later rewrite by this process then fails.
SaveFails(p) ==
  /\ pc[p] \in Saving \cup {"finish", "finishConfirmed"}
  /\ LET temp == <<p, file[p], Target(p)>>
     IN \/ temp \in temps /\ UNCHANGED temps
        \/ "write" \in Faults /\ temps' \in {temps, temps \cup {temp}}
  /\ Return(p, "failed")
  /\ UNCHANGED <<queue, discarded, store, lastId, horizon, dropped>>

-------------------------------------------------------------------------------
(* The other commands, and the environment *)

\* `/memory remember` of a statement without a key: it looks at no tombstone.
RememberCommand(p, s, i) ==
  /\ pc[p] = "idle"
  /\ active[s][i] < MaxCopies
  /\ active' = [active EXCEPT ![s][i] = @ + 1]
  /\ UNCHANGED <<files, tombs, lastId, horizon, pc, job, reply, dropped>>

ForgetCommand(p, s, i) ==
  /\ pc[p] = "idle"
  /\ active[s][i] > 0
  /\ active' = [active EXCEPT ![s][i] = @ - 1]
  /\ tombs' = [tombs EXCEPT ![s] = @ \cup {i}]
  /\ UNCHANGED <<files, lastId, horizon, pc, job, reply, dropped>>

\* Time passes for the proposals generated so far.
Age ==
  /\ horizon < lastId
  /\ horizon' = horizon + 1
  /\ UNCHANGED <<files, store, lastId, pc, job, reply, dropped>>

\* Its next incarnation has another pid: the old temp files are never in its way.
Crash(p) ==
  /\ "crash" \in Faults
  /\ pc[p] # "idle"
  /\ Return(p, "none")
  /\ temps' = {t \in temps : t[1] # p}
  /\ UNCHANGED <<queue, discarded, store, lastId, horizon, dropped>>

Next ==
  \/ \E p \in Procs :
       \/ Refresh(p) \/ AdmitOpen(p) \/ AdmitPush(p) \/ AdmitSave(p)
       \/ Confirm(p) \/ CheckDuplicate(p) \/ Remember(p) \/ CommandFails(p) \/ RemoveOpen(p)
       \/ Discard(p) \/ DiscardAll(p) \/ ClearScope(p)
       \/ SaveProposals(p) \/ SaveDiscarded(p) \/ SaveFails(p)
       \/ \E s \in Scopes, i \in Identity : RememberCommand(p, s, i) \/ ForgetCommand(p, s, i)
       \/ Crash(p)
  \/ Age

Spec == Init /\ [][Next]_vars

-------------------------------------------------------------------------------
(* Correctness *)

TypeOK ==
  /\ queue \in [Scopes -> SUBSET Proposal]
  /\ \A s \in Scopes : /\ Cardinality(queue[s]) <= MaxProposals
                        /\ Len(discarded[s]) <= MaxDiscarded
                        /\ Range(discarded[s]) \subseteq Identity
                        /\ dropped[s] \subseteq Identity
  /\ temps \subseteq Procs \X Scopes \X {"proposals", "discarded"}
  /\ active \in [Scopes -> [Identity -> 0..MaxCopies]]
  /\ tombs \in [Scopes -> SUBSET Identity]
  /\ lastId \in 0..MaxId /\ horizon \in 0..lastId
  /\ pc \in [Procs -> {"idle", "admit", "push", "clear", "screened", "new", "confirmed",
                       "remove", "finish", "finishConfirmed"} \cup Saving]
  /\ drafts \in [Procs -> SUBSET (Scopes \X Identity)]
  /\ rest \in [Procs -> SUBSET Scopes]
  /\ file \in [Procs -> Scopes]
  /\ \A p \in Procs : mine[p].queue \subseteq Proposal
  /\ pick \in [Procs -> Proposal \cup {Nothing}]
  /\ into \in [Procs -> [scope: {"user", "project"}, kind: Kinds] \cup {Nothing}]
  /\ reply \in [Procs -> {"none", "done", "confirmed", "failed"}]

\* A queue never holds the same statement twice ("normalized duplicates already
\* queued are refused"), nor two proposals of one id.
DistinctProposals ==
  \A s \in Scopes : \A x, y \in queue[s] :
    x # y => x.id # y.id /\ IdentityOf(x) # IdentityOf(y)

Entering(s) == Identities(queue'[s]) \ Identities(queue[s])

\* Header of proposal.rs: the hashes persist "so a discarded candidate is not
\* re-proposed next session-end": once a discard has completed, and as long as the
\* bound keeps the hash.
DiscardedStaysOut ==
  [][\A s \in Scopes : Entering(s) \cap dropped[s] = {}]_vars

\* Security review, control 4: "forgotten content can never be re-proposed".  What comes
\* into a queue, by whichever rewrite of it, has no tombstone at that moment.
ForgottenNotProposed ==
  [][\A s \in Scopes : Entering(s) \cap tombs[s] = {}]_vars

Stores(p) == pc[p] = "new" /\ pc'[p] = "confirmed"

\* The tombstones are read again at confirm time ("a forget may have landed after
\* proposing"): a confirm never stores what is forgotten where it stores it.
ForgottenNotStored ==
  [][\A p \in Procs : Stores(p) => ConfirmedIdentity(p) \notin tombs[into[p].scope]]_vars

\* "No duplicate ACTIVE row is ever written" (confirm_proposal), also when a confirm
\* that died or failed half-way is repeated.
NoDuplicateWritten ==
  [][\A p \in Procs : Stores(p) => active[into[p].scope][ConfirmedIdentity(p)] = 0]_vars

\* A proposal that was confirmed is off the queues: "write through
\* MemoryApi::remember, remove from the queue".
ConfirmedLeavesQueue ==
  [][\A p \in Procs : reply[p] # "confirmed" /\ reply'[p] = "confirmed"
       => \A s \in Scopes : pick[p] \notin queue'[s]]_vars

\* A proposal leaves a queue when the user decides on it, when it expires or when the
\* bound makes room; no failure or crash takes it away ("any failure leaves existing
\* queue state untouched").
ProposalsKept ==
  [][\A s \in Scopes : \A x \in queue[s] \ queue'[s] :
       \/ x.id <= horizon
       \/ Cardinality(queue'[s]) = MaxProposals /\ \A y \in queue'[s] : y.id > x.id
       \/ \E p \in Procs : x = pick[p] \/ IdentityOf(x) \in mine[p].refused]_vars
===============================================================================
