# TLA+ models of opencode-warp-tui

TLA+ modules, TLC configurations and TLAPS proofs for the parts of this program whose
behaviour depends on the order of events: a memory store on disk that several processes
share, a quarantine of proposed memories, the gates through which the user answers an
agent, sessions and transcripts that follow a server without replay, and the views, the
threads and the private server around them.

Paths are relative to the repository, and `mod.rs` alone is `src/backend/opencode/mod.rs`.
The lines of the code behind every definition are in `PROJECT.json` under `map`.

## 1. The system

### Components, their state and their operations

| component | code | state | operations |
|---|---|---|---|
| memory store | `src/backend/memory/store.rs`, `record.rs`, `tombstone.rs`, `key.rs` | `memory.jsonl`, `tombstones.jsonl`, `memory.lock`, `memory.jsonl.tmp.<pid>` per scope (user, project) | open, remember, update, forget, set_pinned, and reads |
| record lines | `record.rs` | none | a record to a line, a line to a record |
| proposal quarantine | `proposal.rs`, `triage.rs`, `extract.rs` | `proposals.jsonl`, `discarded.jsonl` per scope | refresh at the end of a session, suggest, confirm, discard, discard all |
| memory API | `api.rs` | the two stores | the scope rules of every command; search of a handle in both scopes |
| memory commands | `command.rs` | none | parse `/memory ...`, render answers |
| record order and selection | `budget.rs`, orders in `record.rs` | none | order the corpus, pick what fits a budget |
| lexical search | `lexical.rs` | none | score records for the context of a confirm |
| secret policy | `secret.rs` | none | refuse or warn about a text |
| live connection | `src/backend/opencode/events.rs`, `mod.rs` (`ingest`, `apply_raw`) | `lost_announced`, the channel, `busy`, `connection_gap` | subscribe, forward, announce a loss and a return, drain |
| gates and operations | `mod.rs` | blocks of each session, `pending_permissions`, `pending_questions`, `pending_revert`, `pending_command` | answer a permission, a question, a staged revert, a command that writes files; compact, diff, fork, model, agent |
| session list and history | `mod.rs` | summaries, blocks, active index | initial load, hydration on selection, new session, fork, `session.created` |
| memory injection | `memory_inject.rs` | capability cache | probe the server, write `owt.memory` into a new session |
| event mapper and block applier | `mapper.rs`, `src/backend/stream.rs` | `DraftState` per session | translate an event, apply it to the blocks; read messages as blocks |
| HTTP client, configuration and private server | `client.rs`, `config.rs`, `src/main.rs` | child process | discovery, spawn, health checks, requests, end |
| mock backend | `src/backend/mock.rs` | scripted sessions and their queues of events | the same trait, without a server |
| prompt and history | `src/tui/prompt.rs` | lines, cursor, offsets; entries and cursor of the history | edit, move, recall, submit |
| session view | `src/tui/session.rs`, `menus.rs`, `statusline.rs`, exit confirmation, tab bar | menu, tab strip, exit confirmation | keys, frames |
| transcript rendering, vendored widgets, probe script | `src/tui/transcript.rs`, `warp-tui/`, `scripts/` | none of the program | draw |

### How they interact

- The UI thread does everything except reading the event stream: it calls the `Backend`
  trait, and every HTTP request and file operation blocks it. The only other thread is the
  SSE worker; the two share one channel and one flag (`shutdown`).
- The channel is drained in `StatuslineElement::layout`, that is in every frame
  (`src/tui/statusline.rs:115`). Without input a frame only comes while the active session
  is busy (`src/tui/session.rs:241`), so the indicator decides whether the events that
  would clear it are read. The scripted backend is driven by the same frames.
- A key goes to the prompt first, which reroutes it while the last block of the transcript
  is a gate, then to the view, whose handler calls the backend.
- Several programs may run on one machine. They share the user store and, in one project,
  the project store. `memory.jsonl` is protected by an advisory lock; `proposals.jsonl` and
  `discarded.jsonl` are not. Several clients may use one server.
- A session end refreshes the proposals; a confirm goes through `MemoryApi::remember` and
  then edits the queue; a forget writes a tombstone that later refreshes and confirms read.
  A new session gets a block of memories before its first prompt.
- The program may own the server it talks to. It starts it, waits for its address, checks
  it twice, and kills it when the backend is dropped, after the thread that reads its stream.

### What is hard, and what makes each part correct

- **Memory store.** Read-modify-write by several processes; crashes, power loss and I/O
  errors between any two system calls; the tombstone and the rewrite of a forget as two
  files. Correct if the corpus stays well-formed (one ACTIVE record per key, distinct ids),
  no update is lost, nothing is removed without a readable tombstone, an answered mutation
  is durable and nobody waits for ever.
- **Proposal quarantine.** Two files rewritten one after the other without a lock, state
  read at several moments of one command, two scopes that must not be mixed up, bounds that
  evict. Correct if a queue never repeats a statement, what was discarded stays out, what
  was forgotten is neither proposed nor stored, a confirm stores once and takes its
  proposal off the queue, and no failure loses a proposal.
- **Memory API and commands.** Two stores read without a lock, and every rewrite passes
  every record through the codec. Correct if what is shown was there, the block of a new
  session fits and keeps what is pinned, and nothing refused is stored.
- **Live connection.** Events that are lost with the stream, signals that overtake nothing
  but are read late, prompts sent at any moment. Correct if whoever is shown as working has
  work or is about to be cleared, and a stale indicator goes away without input.
- **Gates.** A gate is the last block of a transcript that events append to; the request
  behind it is kept elsewhere, per session or once for the whole backend. Correct if an
  answer reaches the request the user saw.
- **Sessions, history and injection.** One session may be shown first by a list, by a
  request or by an event; a history is read while events of it are on their way; a probe
  creates sessions of its own. Correct if a session has one tab, there is no hole between
  its history and its stream, and an entry is written before the first prompt or not at all.
- **Mapper and applier.** Blocks are found by their place in a transcript that other things
  are pushed onto. Correct if a transcript that was followed says what the history says.
- **Prompt.** A row, a column and an offset per row index lines that joins and splits
  change. Correct if no index leaves the buffer and the lines are one text.
- **View and mock backend.** One key means different things after another; confirmations
  that exist once are answered by gates that exist in every transcript. Correct if nothing
  the user submitted is taken away, an exit is confirmed, and streams run to their end.
- **Start and end.** Failures after the private server was started, a thread blocked in a
  read of that server's stream. Correct if no private server is left, every way out ends,
  and what the thread tells is what the stream said, in its order.

Every hazard is listed with its line in `PROJECT.json` under `hazards`.

## 2. The modules

| module | what it is |
|---|---|
| `MemoryRecords` | the corpus of one scope and the pure part of every mutation |
| `MemoryLedger` | abstract specification: what the `MemoryStore` trait promises |
| `MemoryStore`, `MCMemoryStore`, `MemoryStore_proofs` | `JsonlStore` as it is: files, lock, temp file, tombstones, faults; implements `MemoryLedger` |
| `Proposals`, `MCProposals`, `Proposals_proofs` | the quarantine of both scopes and the triage commands |
| `RecordLines` | the codec of `memory.jsonl` |
| `Commands` | the parser of `/memory` lines |
| `Selection` | the orders of the corpus and the budget of a new session |
| `MemoryApi`, `MCMemoryApi`, `MemoryApi_proofs` | composes the three and `MemoryRecords`: both stores, several processes, every command |
| `Connection`, `MCConnection`, `Connection_proofs` | server, SSE worker, channel, indicator and frames |
| `Gates`, `MCGates`, `Gates_proofs` | permission, question, revert and command gates, the operations around them and the events that push over them |
| `Sessions`, `MCSessions`, `Sessions_proofs` | tabs, histories, their stream, the probe and the memory entry |
| `Stream` | blocks, and what one event does to them; shared by both backends |
| `Transcript`, `MCTranscript`, `Transcript_proofs` | a session followed by its events and read as its messages |
| `FlatText` | abstract specification: an editor of one text with one position |
| `Prompt`, `MCPrompt` | the buffer of the prompt; implements `FlatText` |
| `MockBackend` | the calls of the scripted backend |
| `Interface`, `MCInterface` | composes the view, the prompt history, the menu and the tab strip with `MockBackend` |
| `Launch`, `MCLaunch`, `Launch_proofs` | start and end of the program, the private server, the thread and the lines it reads |

### MemoryStore

`run_exclusive` is cut wherever another process, a crash or an error can be seen between
two system calls: take the flock (`Acquire`, `Lock`), load and compute (`Load`), append the
tombstone (`AppendTombstone`), create, write and rename the temp file (`CreateTemp`,
`WriteTemp`, `Rename`), fsync the directory and answer (`SyncDir`). Opening the store
(`Start`, `OpenLock`, `Prepare`) removes every temp file under the same lock. Each step has
its failing twin, which answers the caller with an error and drops the lock.

`memory` is the file as readers see it, `durable` what a power loss may fall back to; they
differ between the rename and the directory fsync. `tail` says whether the last line of
`tombstones.jsonl` is partial: a partial line joins the next append into one malformed line,
so that the tombstone is written and yet unreadable. Faults are a constant: a run names
the ones it lets happen.

A corpus is a set of records. The file keeps a sequence, but order only decides which of
several matches `position` returns, and `OneActivePerKey` and `UniqueIds` say there is at
most one. Ids are never reused (`issued`): `generate_id` takes time, pid and a counter.
Contents stand for canonical identities (kind and normalised text).

### Proposals

A command is a sequence of steps: read the queue of a scope (`AdmitOpen`, `RemoveOpen`,
`Discard`, `ClearScope`; opening applies the expiry), change the copy, rewrite
`proposals.jsonl` (`SaveProposals`) and then `discarded.jsonl` (`SaveDiscarded`). A refresh
admits its candidates scope by scope (`Refresh`, `AdmitOpen`, `AdmitPush`, `AdmitSave`); a
confirm looks for the tombstone (`Confirm`), for an ACTIVE record (`CheckDuplicate`),
stores (`Remember`) and removes (`RemoveOpen`). `SaveFails` also models the temp file a
failed rewrite leaves behind and the `create_new` that then keeps failing for that process.

A queue is a set, since its order is the order of the ids. A mutation of the memory store
is one step here, which is what `MemoryStore` shows of it. `horizon` stands for the clock:
proposals up to it are older than `PROPOSAL_TTL_SECS`. `dropped` is a history variable.

### MemoryApi, with Commands, Selection and RecordLines

A process parses one line (`Parse`) and does what it says: a mutation is one step on the
store of its scope (`Write`, `Address` for the commands that take a handle, and `Confirm`
for a proposal that becomes a memory through `remember`); a list, a show and the block of a new session read the user store (`StartRead`,
`Read`) and, in a later step, the project store (`ReadProject`), without a lock. `Fails` is
a store that cannot be used. `file` holds lines, not records: each mutation decodes all of
them, changes the result with `MemoryRecords` and encodes it again, as `run_exclusive` does,
so lines of other versions and fields that no code knows go away as they do there. `corpus`
is the same without the codec, a history variable to compare with.

`Confirm` takes any of the proposals `Queued`, at any time: the queue is a file that anybody
may have written, and whether the proposal is still in it, was forgotten or is stored already
is left open here, since the queues, the tombstones and the steps of a confirm are those of
`Proposals`. What is kept is what it does to the corpora: the scan of the proposal, the scope
and the kind that override its own, and `remember` with its own scan (`Keep`). A text that the
policy only warns about is no case of its own; a confirm refuses it like the others, a
`/memory remember` does not.

A line of input is a verb and a sequence of classified tokens; texts are sequences of words,
and the secret policy is a property of a word. What fits a budget is counted in units for
header, banner and entry.

### Connection

The server admits prompts, runs turns and writes to the one open stream; a stream that ends
keeps some prefix of what was written (`Drop`). The worker connects (`Open`), forwards
(`Forward`) and announces (`EndOfStream`). The UI drains the whole channel (`Ingest`), and
the user prompts, interrupts and switches. `Repaint` is `Ingest` in the frames nobody has
to press a key for. Only `busy` and `connection_gap` are kept of the backend's state.

### Gates

A transcript is kept as its tail: the blocks after the last block that is neither a gate
nor the working indicator. No other block is ever popped, so the gates below it are dead,
and a push of any such block empties the tail (`Bury`). The last block of the tail is what
`blocker` looks at; while it is a gate, `PromptElement` reroutes Enter and the digits
(`src/tui/prompt.rs:559-570`), which is why submitting needs `~Blocker` and answering needs
`Blocker`.

There is an action for every thing the user can submit (`Say` stands for all that only
write a reply: `/memory`, `/diff`, `/model`, `/agent`, wrong usage), for every way an answer
is taken, for the other keys, and for every class of events. An adapter method and the REST
call in it are one action, since they block the UI thread; the server side of the call may
have happened although it failed. What an answer does is looked up in `permission`,
`questions`, `revert` and `command`, as in the code, and never in the gate. `home`, `open`,
`replied` and `staged` are the server's, `sent` is the call of the last step, which the
action properties speak about.

### Sessions

The server keeps a history per session and announces what its agents write and which
sessions appear (`coming`). The UI thread lists the sessions (`Load`), selects and hydrates
(`Select`: pages until the last one, or as many as the code reads), creates and forks, and
gets a local session when a request fails. Creating a session is two steps, since the
server announces it before the answer is there: the request, then `Inject`, which probes
the server when the cache has no answer (the probe is a session of its own, announced to
everybody) and writes the entry. Other clients create sessions and prompt, the stream ends
and returns without replay, the cache expires, the server is upgraded. A block of a
transcript is the message it shows or a note of the adapter.

### Transcript and Stream

`Stream` is `apply_event`: which block an event extends, updates, pops or pushes. The server
in `Transcript` writes messages of items; every action is one change with the event that
tells of it, applied to `blocks`, and `History` is what `map_message` makes of the same
messages. `Reopen` is a program that starts now and follows from there. `Ask`, `Answer` and
`Remark` push what the adapter itself pushes. `ToolFailed` is the failure of any call: one
that runs, one that was never made, and a shell that was called and never created, because
its permission was denied for instance; the last two have no block, and the latest run, of
another call, is shown as failed. `clean` records that this did not happen, that calls did
not run side by side, were not read half way, and had nothing written between them and their
shell.

### Prompt and FlatText

Every action of `Prompt` is one event with both of its handlers, the element's and the
view's. Rows are numbered from 1. `FlatText` knows only one string and one position; the
refinement mapping joins the lines.

### MockBackend and Interface

`MockBackend` has one operator per call of the trait, over the sessions, the queue of events
of each, and the two confirmations that exist once. `Interface` has one action per key, from
the element that gets it first to the handler that acts, and `Frame`, which polls the
backend and asks for the next frame while there is more. Texts are named by what `submit`
does with them.

### Launch

`main` walks through `main.rs` and `connect`: resolve an endpoint, spawn, read lines until
one has the address or 20 seconds are over (looked at between two lines), probe, verify,
load, run, and drop in the order of the fields. `server` is the private server's process; it
may answer a probe although its address was not read, at the port that was chosen for it
(`config.rs:185`).
The worker opens a stream, reads lines, hands over what a terminator closes, announces the
end and sleeps. A line is whole, head or tail of a payload, a blank, a comment or another
field. `heard` keeps the lines of every stream to compare with `channel`.

## 3. Runs

| run | question | bounds, and why they suffice |
|---|---|---|
| `store` | is the store correct, and does every caller get an answer? | 2 processes (one holds the lock, the other waits, opens or restarts), 2 ids (a record and its successor), 1 key, 1 content, files of at most 2 records so that the size limit is reached. Faults: any access to the directory, lock or file, appends that write nothing, writes of the temp file, crashes, power loss; not a partial append, a failing fsync of the directory (both below) or a clean-up that fails (which leaves a stale temp file and nothing else) |
| `proposals_one` | is the quarantine correct under crashes, failing reads and failing writes? | 1 process, 3 statements, queue bound 2, one discarded hash, 3 ids: the bounds are reached and passed |
| `proposals_scopes` | and the loops over two scopes? | both scopes, 1 statement, 2 ids |
| `connection_all` | is the working indicator right, and does it become right? | 2 sessions, 2 prompts or further steps, 2 lost streams, 2 events on the wire; no prompts between a loss and a return |
| `gates_all` | does every answer reach what the gate on the screen asks? | 2 sessions, 1 permission request, 1 form of up to 2 fields, 2 boundaries and 2 commands (so that one can take the place of the other), tails of 2 blocks: a gate under a gate or under the indicator |
| `sessions` | one tab, no hole, entries at birth? | 3 sessions (own, probe, another client's), 1 local one, 2 messages, 2 versions of which one supports entries, 2 pages of 1 message so that a history is longer than what is read, one end of the stream or one committed revert; one kind of fault per behaviour, any of them |
| `transcript` | does a followed transcript say what the history says? | 2 calls, 4 changes of a turn, 3 items: two texts around a call, a call over a call |
| `api` | are lists true, blocks fitting, refused contents out? | 2 processes, 2 records stored beside an older one of each kind of line, one proposal for the user scope and one with refused text for the project, one reader at a time, 1 second, a budget that a pinned and an unpinned record exceed |
| `prompt` | is the buffer one text? | 4 characters: two lines with something before and after the cursor in each; frames of 1 and 2 columns, so that offsets move |
| `prompt_arrow` | does an arrow move by one row? (violated) | the same |
| `interface` | keys, confirmations and frames | starts in a session that ends in a permission request; 6 texts (two lines, a revert, a fork, a command, a new session, a stream), history of 2, 2 submits or new sessions, 3 sessions |
| `launch` | every way in and out | 4 lines over 2 streams: a payload of two lines, its terminator and one more |

Counters have no bound in the code: ids, proposals, prompts, lines and lost streams are
bounded by guards named `Max...`. The bounds on the queue and on the discarded hashes are
the code's own (`MAX_PROPOSALS`, `MAX_DISCARDED`), with small values, and so are
`HistoryCap` and the budgets. Deadlock is checked where some step is always possible; the
programs of `interface` and `launch` end, and the bounds of `sessions`, `transcript` and
`api` let them stop.

Three instances use a `VIEW`: `MCMemoryStore` and `MCMemoryApi` leave out the last answer
(`Unanswered`), `MCGates` the last request (`WithoutSent`). No guard reads these variables,
and the properties read them in the step that sets them.

What the passing runs show, property by property:

- `OneActivePerKey`: no sequence of mutations by key and by id, over ACTIVE and SUPERSEDED
  records, makes the file ambiguous; the loader would keep two ACTIVE records of one key.
- `NoLostUpdate`: what is renamed into place was computed from the file it replaces.
- `LiveTempKept`: the clean-up of stale temp files never takes a live one.
- `DeletionHasTombstone`: a record leaves the file only when its tombstone can be read.
- `LegalTransitions`: content and key never change, SUPERSEDED is final, only a forget
  removes.
- `KeepsPromise`: all steps together implement `MemoryLedger`, where a mutation takes
  effect at one instant and an acknowledged one is stable, through a power loss too.
- `CallsReturn`: whoever waits for the lock is answered or dies, also when the holder dies.
- `DistinctProposals`: eviction, expiry, retries and failed rewrites never put a statement
  or an id into a queue twice.
- `ForgottenNotStored`, `ForgottenNotProposed`: a tombstone written before a confirm or a
  refresh keeps the statement out.
- `NoDuplicateWritten`, `ConfirmedLeavesQueue`, `ProposalsKept`, `DiscardedStaysOut`: a
  confirm stores once and removes its own proposal; only a confirm, a discard, the expiry or
  a full queue removes one; a discarded statement is not proposed while its hash is kept.
- `ShownIsTrue`: a list or show over both scopes is not a snapshot, but each record in it
  was there while the command ran, as the commands made it, and what was there all the time
  is in it. This also says that no rewrite loses a field of a record.
- `InjectionFits`: the block of a new session fits both budgets, and an unpinned memory is
  in it only if every pinned one is.
- `NoSecretStored`: neither a command nor the confirm of a proposal stores content that the
  policy refuses, whatever the queue holds.
- `BusyIsJustified`, `BusyReconciles`: an indicator has work behind it or an event on its
  way that clears it; and a stale one disappears without input.
- `CommandGateIsPending`, `ConfirmedCommandRuns`: no switch of sessions, failure or buried
  gate makes a digit run another command than the one its gate names.
- `RevertAnswersWhatItShows`: the same for a staged revert, although `pending_revert` is
  shared by all sessions.
- `NoOperationWhileBusy`: `run_command` and `do_abandon_revert` do not check for a running
  turn; the working indicator over their gates does it for them.
- `QuestionReachesItsForm`: the entry on top of `pending_questions` is that of the gate on
  the screen.
- `OneTabPerSession`: whichever of list, answer and event is first, a session has one tab,
  and the tab on the screen exists.
- `NothingLost`: what an agent wrote or this user sent is in the transcript of a session
  that was read to its end, or on its way, as long as the stream holds.
- `InjectedAtBirth`: an entry is written once, only into a session that this client created
  and has not prompted.
- `LiveIsHistory`, `SettledStays`, `NoIdleSpinner`: a transcript that was followed shows the
  words and calls a program that starts now would show, in their order; a call that is over
  keeps its result; out of a turn the transcript does not end in an indicator. The first two
  hold where `clean` does.
- `TypeOK` of `Prompt`, `OneText`: no index leaves the buffer, where the code would panic,
  and no edit at the edge of a line loses, doubles or misplaces a character.
- `SubmittedStays`: gates and confirmations are popped by position, and what the user
  submitted is never popped with them.
- `QuitIsConfirmed`: the program exits only on a press that finds nothing typed and nothing
  streaming in any session, after a last press, less than a second ago, that found the same.
  A press that cleared or cancelled does not count, whatever was pressed before it.
- `StreamsDrain`: the pump of frames does not stop before the queues are empty.
- `NoServerLeft`, `StartEnds`, `QuitEnds`: on every way out the private server has gone; a
  start comes to an end; a quit joins the thread before it kills the server, and ends.
- `ToldInOrder`: batches that end at a blank or a comment neither lose nor reorder a
  complete payload, and losses and returns are told between the right ones.

### Where the code and its documents disagree

`prompt_arrow` shows one: the element moves the cursor to find out whether there is a row to
move to, and the view it dispatches to moves it again, so `up` and `down` pass over a line.
The line it contradicts is quoted in `PROJECT.json`.

The models show others, which are no runs of their own; each says what to change to see it.

- `Overrides = {"scope"}` in `Proposals` refutes `ConfirmedLeavesQueue`: `/memory confirm 1
  --scope=project` removes the proposal from the project queue, where it is not
  (`src/backend/memory/triage.rs:221`, `:237`, `:256`, and the comment at `:190-192`). With
  `{"kind"}`, `ForgottenNotStored` fails: the tombstone is looked up under the proposal's
  own kind and scope, the record is stored under the overriding ones.
- `"torn"` among the faults of `MemoryStore` refutes `DeletionHasTombstone`: after a
  partial append the next tombstone is unreadable, and its memory is removed all the same
  (`tombstone.rs:111`, and the comment at `store.rs:323-326`).
- A failed write leaves its temp file, and the process cannot write any more
  (`store.rs:594`; "temp file removed" in `research/memory/phase2b-storage.md:220`).
- `write_state` drops the result of the directory fsync: with `"sync"` and `"power"` an
  acknowledged mutation can be undone, and `KeepsPromise` fails.
- Two processes in `proposals_one` refute `NoDuplicateWritten` (the ACTIVE records are read
  without the lock), `DiscardedStaysOut` (the later rewrite restores what the earlier one
  removed) and `ForgottenNotStored` (a forget between the look and the store).
- `"read"` in `proposals_scopes` refutes `ForgottenNotProposed`: tombstones that cannot be
  read count as none (`triage.rs:39`). A discard that dies between its two rewrites has
  removed the proposal without its hash, so `DiscardedStaysOut` speaks of completed ones.
- `PromptsInGap = TRUE` refutes `BusyReconciles`: a prompt accepted between the loss and the
  return of the stream, whose turn ends in between, is shown as working until the user
  interrupts it (`mod.rs:519`; docs/ARCHITECTURE.md:64-65, README.md:44-45). And since the
  `connection.lost` that clears the indicators also ends the frames, `connection.restored`
  waits in the channel for the next key.
- One request id is kept per session (`mod.rs:468`, comment at `:1226-1227`): a second
  permission request replaces the first, whose gate is then approved on the screen only.
- The error of an answer that was not delivered becomes the last block, so the gate cannot
  be answered again (`mod.rs:1337`; `:1296` says "keep the gate").
- `Elsewhere` with `"form"` refutes `QuestionReachesItsForm`: `form.replied` drops the
  fields of the form and leaves its gates, whose digits then go to another form. Of a form
  with several fields only the last can be answered, because the answer is pushed over the
  gates of the others.
- `AgentOptions` with "Run" and "Cancel", or "Commit" and "Keep messages", refutes
  `ConfirmedCommandRuns` and `RevertAnswersWhatItShows`: the adapter knows its own gates by
  their options.
- A command gate under another block can never be answered, and since `pending_command`
  stays set, no other command that writes files can be asked for until the program ends
  (`mod.rs:1664`). After a commit in one session, the gate of a boundary staged in another
  is taken for an ordinary question (`mod.rs:898`).
- A committed revert empties the transcript so that it is read again, and then leaves a
  notice in it, so it is not read again (`mod.rs:903`, comment at `:899-900`).
- An indicator under a later block stays in the transcript (`src/backend/stream.rs:63-65`);
  `NoIdleSpinner` is about the last block.
- Calls that run side by side: the last run of the transcript takes the results of all
  (`src/backend/stream.rs:40`); `clean` leaves these behaviours out.
- A call that fails before it has a block, such as a shell whose permission was denied, fails
  the run before it: `tool.failed` is mapped to `UpdateTool` and an error
  (`mapper.rs:276-296`), and `UpdateTool` takes the latest run, which is over and is now shown
  as failed, a tool with another output, until the session is read again. Without `open[c] =
  "called"` in the `clean'` of `ToolFailed`, `SettledStays` and `LiveIsHistory` fail.
- The first of two presses of ctrl-c. The header of `src/tui/widgets/exit_confirmation.rs:4-6`
  says that a press which cancels or clears "arms this confirmation; a second ctrl-c while it
  is armed exits the TUI". In `session.rs:818-827` such a press disarms, so that leaving takes
  two more; and it clears the input before it thinks of cancelling. `research/keymap.md:35`
  ("clear input → cancel stream → arm exit → exit on second press") is what the code does and
  what `QuitIsConfirmed` says. `PressArms` of `Interface` is the header's sentence: as a
  property of `interface` it fails after a text and one press.
- A forget or a pin without `--scope` should look its handle up in both scopes ("ambiguous →
  candidates listed", `command.rs:508`; `docs/phases.md:280-281`, `api.rs:18-19`); the parser
  gives it the user scope (`command.rs:233`), so only the user store is asked.
- README.md:150 tells of `/demo b`; it is answered as a command of the catalog, and only
  `/demob` starts the scenario.

Found on the way and in no property:

- the notices of a lost and a returned stream go to the session that is shown when they are
  drained (`mod.rs:509`); a probe that failed is cached for an hour like one that answered
  (`memory_inject.rs:47`);
- a temp file that a failed rewrite of the queue left behind makes every later one of that
  process fail (`proposal.rs:339`); `/memory confirm <n>` counts in the order of the moment,
  not of the list that was shown (`triage.rs:86`);
- a remember that takes the file over `MAX_STORE_BYTES` succeeds, and every later load fails
  (`store.rs:627`); the next rewrite erases the lines the loader could not read (`:640`);
- nobody reads the pipe of the private server's stderr (`config.rs:170`); the 20 seconds
  of `spawn` are only looked at between two lines, and the event stream has no read timeout,
  so that with a silent server `StartEnds` and `QuitEnds` fail; the body of a health check
  is not looked at; a registration without a password is not discovered;
- recalling an entry of two lines keeps the first; ctrl-c and the menu change the buffer
  without ending the navigation of the history; the tab strip is only told of new sessions
  and of selections by its own keys.

### Fairness

- `MemoryStore`: the holder of the lock keeps running (weak fairness of its steps), and
  `flock` wakes its waiters one after the other (strong fairness of taking the lock, since
  others may take it in between). Nothing makes anybody call, restart, fail or crash.
- `Connection`: the server ends the turns it begins and can be reached again, the worker
  thread runs (weak fairness of its three steps; failing attempts back off for at most 30
  seconds), and frames come while the active session is busy (`Repaint`, which asks for the
  next frame itself). Nothing is assumed of `Ingest` otherwise, nor of the user.
- `Interface`: the runtime draws a frame that was asked for (weak fairness of `Frame`).
- `Launch`: the main thread takes its steps but for the user's quit; a server that was
  started writes lines or ends; an attempt to open a stream is answered; an open stream
  brings heartbeats, or ends once its server is gone. That a silent server is left out is
  the assumption to know: the code has no timeout there.
- `Proposals`, `MemoryApi`, `Gates`, `Sessions`, `Transcript` and `Prompt` are checked for
  safety only.

## 4. Proofs

The eight proof modules hold for every value of the constants. Assumptions beyond those of the
modules are named.

`MemoryStore_proofs`:

| theorem | assumption |
|---|---|
| `TypeCorrect`, `OneActivePerKeyHolds`, `UniqueIdsHold`, `NoUpdateIsLost`, `LiveTempIsKept`, `TransitionsAreLegal` | |
| `DeletionsHaveTombstones` | `"torn" \notin Faults` |
| `Implementation` (`Spec => Ledger!Spec`) | `"torn" \notin Faults`, `"sync" \notin Faults` |

The inductive invariant is `StoreInv`. `OneActivePerKey` is not inductive: a process may
rename any `work` it holds. It becomes so with `NoLostUpdate`, which ties `work` to the
present file; that in turn needs `LockInv`, mutual exclusion of the processes that hold the
lock, because otherwise a rename of one process changes the file under another. `CallInv`
keeps the calls in flight typed and their ids fresh. Without partial appends, `tail` stays
clean, so an appended tombstone is readable, and `TombInv` says a forget that is about to
rewrite has its tombstone on disk. The refinement maps each step to one of `MemoryLedger`
or to a stutter; the lemma `SameOperators` connects the operators of the instance with the
module's own.

`Proposals_proofs` proves `DistinctProposalsHold` for any number of processes and every
fault. `DistinctProposals` is not inductive, since a queue is overwritten by the copy of a
process: `CopyInv` says that no copy holds a statement or an id twice either, and both say
that no id is newer than `lastId`, so that a push has an id of its own. `LoopInv` says that
the loops over scopes are entered only with a scope left.

Its other theorems are about one process (`OneProcess`), because the queue files have no
lock and two processes undo each other's rewrites (section 3). Each further hypothesis is
the one without which TLC refutes the property there. One process does one thing at a time:
what it forgets, it forgets before or after a refresh or a confirm and never in between, so
these theorems say nothing of a tombstone that another process writes meanwhile.

| theorem | hypotheses | what makes it inductive |
|---|---|---|
| `NoDuplicateWrittenHolds` | `OneProcess` | nothing comes between the look and the store |
| `ForgottenNotStoredHolds` | `OneProcess`, `Overrides = {}` | the tombstone is looked up by what is then stored |
| `DiscardedStaysOutHolds` | `OneProcess` | `OutInv`: what was dropped is among the hashes of the file and of the copy that will replace it, and a copy adds nothing of it |
| `ForgottenNotProposedHolds` | `OneProcess`, `"read" \notin Faults` | `ForgottenInv`: no draft, and nothing a copy adds, is forgotten |
| `ConfirmedLeavesQueueHolds` | `OneProcess`, `Overrides = {}` | `CrossInv`: queues and copies of different scopes share no id; `ConfirmInv`: the proposal is in no queue but the one that is rewritten without it |
| `ProposalsKeptHolds` | `OneProcess` | `SameInv`: a picked proposal is the only one of its id; `KeptInv`: what a copy lacks of its file has expired, made room or was decided on |
| `BoundHolds` | `OneProcess` | queues and copies are finite and within `MaxProposals` |

`Gates_proofs` proves `CommandGateIsPendingHolds`, `ConfirmedCommandRunsHolds`,
`RevertAnswersWhatItShowsHolds` and `NoOperationWhileBusyHolds` for any number of sessions,
requests and fields, tails of any length and every fault, under one hypothesis:
`AgentOptions = {"agent"}`. The invariant `GateInv` has three parts besides the types. A
command gate anywhere is the only one and asks for the pending command, because it is only
pushed while none is pending, and what clears the pending command buries the gate. Over a
gate of the adapter in a busy session there is a working indicator (`BusyInv`): a turn
starts by pushing one, and its end pops it together with the flag. The last revert gate of
a session shows the boundary that is staged (`RevertInv`): every answer to it, delivered
or not, buries it. Five lemmas say what a step may do to a tail (leave, empty, grow, pop,
or push a gate of the adapter), and `GateInvKept` sorts the actions into them.

`QuestionReachesItsFormHolds` needs another hypothesis, `"form" \notin Elsewhere`, and not
that one. `FormInv` says that a question in a tail is of a form that waits for its answer
in that session, and that the last question of a tail is the last entry of
`pending_questions`, which would be answered. It survives the answer because that buries
the tail; it survives `form.replied` because no gate that is left is of a form that does
not wait (`RequestInv`: a request is open or its event is on its way, never both).
`WithoutFormIs` says what retaining the other forms leaves of a list.

`Sessions_proofs` proves `OneTabPerSessionHolds` and `InjectedAtBirthHolds` for any number
of sessions, pages and messages and every fault. The tabs are a sequence without repetition:
the list that is loaded is an order of a finite set, and every later tab passes
`AppendNew`; the active index stays in its domain because tabs are never removed. For the
entries, `BirthInv` says that a session the UI thread has just created, and not yet let go
of, is new-born: nothing can prompt it, because the thread that would is the one that is
writing its entry. `NothingLostHolds` rests on `LossInv`: what was never given out has no
history (`ServerInv`), whatever the client has heard of was once given out, so that a fork
cannot rewrite its history (`HeardInv`), a session counts as read to its end only while the
stream holds (`WholeInv`), and `ShownInv` restates the property message by
message.

`Connection_proofs` proves `BusyIsJustifiedHolds` under `~PromptsInGap`; with it TLC finds
the prompt that is accepted between the loss and the return of the stream and whose turn
ends in between. The invariant speaks of the state the indicators will have when all that is
on its way has been applied (`Applied`): a session whose last start has no end after it
still runs, or the loss of the stream its end went to is still to be announced.

`Transcript_proofs` proves three properties of a transcript of any length. `NoIdleSpinnerHolds`
rests on `ScreenInv`: an indicator is only ever exposed as the last block that is no gate,
gates come over it at most while a shell is still to run (`SpinnerInv`), calls are made in
steps only (`PhaseInv`), and a draft knows the tool of its call or nothing (`NamesInv`).
`SettledStaysHolds` adds `CallsInv`, for calls that come one at a time and have a block when
they fail (`clean`; section 3 says what happens to others): the latest
run of the transcript is that of the call at work, so that no result goes to another, and
what the transcript shows as over is over in the records of the server, so that reading them
again brings it back as it was.

`LiveIsHistoryHolds` compares two readings of a session, where `clean` holds and no call is at
work. `ToldIsHistory` says what the second
one comes to: the blocks that `map_message` makes say what the items of the messages tell,
item by item (`Told`), wherever `map_assistant_items` begins and flushes a text. For this the
items must be those that a message of their type has (`ProperInv`), and an error must never
settle a shell of the user, which has no failed state (`ShellsInv`). On both sides an event
then does one of four things. A delta adds the same word at both ends (`ChunkSays`, against
`ToldItem` and `ToldFragment`). The input of a call is told by the messages before the
transcript has a block of it (`Lacks`); nothing was told of that call before (`FreshInv`),
and nothing is said in between, so that the block comes to the same place. From then on the
two differ in this run alone, which is the latest (`Awaits`), whatever words follow it. And
the result, which `apply_event` gives to the latest run (`UpdateToolSays`) and the server to
the items of the call (`ToldSettled`), makes them the same again (`AwaitsSettled`). That is
`SaysInv`, which `CallsInv` completes: one call at a time, with a draft that knows its tool.

`MemoryApi_proofs` proves `NoSecretIsStored`. It follows content through decode, mutate,
stamp and encode: what a rewrite puts into a file is content of the records it read or of
the command or of the proposal that is confirmed, and both are scanned before they are stored
(`KeepKeepsInv`, for either). The hypothesis `NoSecretFound`
says that the lines found at the start hold no refused content; nothing removes one.
`ShownIsTrueHolds` and `InjectionFitsHolds` need no hypothesis. `CorpusInv` says that what a
file decodes to is what the commands made of it (`RoundTrip`: an encoded record can be read,
and is decoded as it was), that ids are distinct in a store and between the stores, and that
none is newer than `lastId`. `ReadInv` says that what the first of two reads has collected
lies between the user's records that every state since the command began had and those that
some state had, and that the project store has none of its ids, whatever is written before
the second read. The orders are total on records with distinct ids (`D24Orders`,
`ShowOrders`), so that every record has exactly one place in the answer (`ArrangedIs`). A
block is a start of that sequence (`SelectIs`); taking the last records off for the bound on
bytes does not leave the budget of characters (`CharsGrow`), and whatever is left out stands
after what is in it (`LeftOutIsAfter`).

`Launch_proofs` proves `NoServerIsLeft`. `OwnerInv` says that there is no server before the
program has resolved its endpoint, and none alive in a program that runs without a
`ConnectionKind`, so that each way out passes the drop that kills it. `ToldInOrderHolds` is
about the thread: `ThreadInv` says that the stream that is read is the lines up to the last
terminator and then those that are pending, that the parser holds no data after the former
(`ReadInv`), and that a loss has been announced exactly when no stream is read after the
first (`BetweenInv`). Parsing in pieces is then parsing as a whole.

Induction. The library's induction theorems take an operator, which the provers cannot
instantiate. The proof modules that need induction over a number therefore prove it for
sets, from the least element of a set of numbers (`Least`, by `WFMin` of
`WellFoundedInduction`): `Induction`, and in `Recursion` that a function defined by
recursion exists, without which nothing could be said of `f[n] == ... f[n - 1] ...`. For the
same reason those operators of the models are recursive functions and not folds or
`SelectSeq`. Each module has its own copy of these lemmas.

Assumptions on constants that the proofs use and TLC evaluates: command lines consist of
tokens, and the records that are there before the processes have distinct ids that are no
newer than the first `lastId` (`LinesAssumption` and `FoundAssumption` of `MemoryApi`); ids of different kinds and
`None` are apart (`IdsAssumption` and `NoneAssumption` of `Gates`, `NoneAssumption` of
`Stream`), and a queue and its list of hashes have room for at least one entry
(`BoundsAssumption` of `Proposals`: `MAX_PROPOSALS` and `MAX_DISCARDED` are positive).

Only model-checked: `TypeOK` of `Prompt` (through the maxima of its kills and word motions)
and `OneText` (through the folds that join the lines), the properties of `Interface`, liveness
and everything that needs `ENABLED`. Every other property of a passing run is a theorem.

## 5. Not modelled

- Rendering, formatting, layout, colours and widgets; the score of the lexical search, which
  orders three lines of an answer and stores nothing.
- The bounds and character checks of `validate` and `normalize`, the secret patterns and the
  extraction patterns: a model starts from what they let through.
- In `Gates`: the `question.v2` events of older servers, option labels that differ in number
  from their values, texts, and the blocks that can never become live again.
- In `Transcript`: summaries of inputs and outputs, notices of a switched agent or model.
- In `Launch`: the search of the binary, its arguments and environment, back-off times, and
  a kill of the program itself, which leaves the private server behind.
- In `Interface`: scrolling, folding, hints, the help; `commit_revert` and `abandon_revert`
  of the scripted backend, which the view never calls.
- The vendored widgets and the probe script.

`Connection`, `Sessions`, `Gates` and `Transcript` are four views of one adapter. Each keeps
the part of its state that its properties need; their product is too large for TLC.

## 6. What could follow

1. An abstract specification of a gate (asked, answered, delivered once), and of the
   quarantine for one process, with `Gates` and `Proposals` shown to implement them.
2. Proofs of `TypeOK` of `Prompt` and of the properties of `Interface`.
3. `Launch` with a silent server, once the code bounds its wait.
