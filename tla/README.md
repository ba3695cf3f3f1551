# A TLA+ verification project for claux

claux is a terminal coding assistant written in Rust.  A user types a prompt;
the query engine sends the conversation to a model, reads the streamed answer,
runs the tools the model calls, and goes round again until the model stops
asking for tools.  The rest of the program surrounds that loop: providers that
speak three wire protocols, a permission checker with hooks, tools that run
commands and talk to MCP servers, compaction of long conversations, a session
store, undo of a turn's file changes, background jobs, and background tasks in
processes of their own.

Paths below are relative to the repository (`src/src/query.rs` is
`src/query.rs` of the crate).

## Inventory

| Part | State it keeps | Operations | Talks to |
|---|---|---|---|
| Query engine, `query.rs` | conversation `messages`, `archive`, usage baseline, steering queue, token limit | `submit_streaming`/`run_turn`, `execute_tool_batch`, `compact`, `set_messages`, `undo_last_turn` | provider (stream of events), tools, checker and hooks, frontend (events out; prompts, steering, cancel in) |
| Compaction, `compact.rs` and `query.rs` | none of its own | choose a tail, summarize the rest, commit | engine, provider |
| Responses cursor, `api/openai_responses.rs` | response id and message count shared with a reader task | `build_input`, `stream`, reader, reset | engine, remote conversation |
| Managed tasks, `managed.rs` | files and two locks per task | start, send, retry, cancel, wait, status, attach, list; the worker | worker process, session store |
| Background jobs, `tools/jobs.rs`, `tools/bash.rs` | job table, `enabled`; per job a command's processes | start, cancel, completions, shutdown, reset | engine's system prompt, `/undo-turn`, operating system |
| Checkpoints, `checkpoint.rs` | the files a turn may have changed, before and after | capture, finish, undo | work tree, Git |
| Session store, `db.rs`, `session.rs` | archive and active context per session | create, save, load, bind, delete, repair | other processes on the same database |
| Frontends, `tui/mod.rs`, `tui/chat.rs`, `repl.rs` | the session at hand, pending prompt, steering, save errors | drive a turn, prompt, save, switch, shut down | engine, store |
| Permissions, `permissions.rs`, `plugin.rs`, `tools/agent.rs` | rules, grants, mode; a sub-agent's own checker | check, grant, toggle, hook verdicts | engine, user |
| Providers, `api/` | a response's partial calls, usage, end | write a request in three dialects, read a stream, classify a failure | engine, servers |
| Configuration, `config.rs`, `config/trust.rs`, `onboarding.rs`, `cli.rs` | merged configuration, saved bindings | load, merge, trust, resolve a model and its key, `config init`, `doctor` | every other part |
| Files of the user, `auth.rs`, `model_catalog.rs`, `output.rs`, `tokenizer_fingerprint.rs` | keys, windows, transcripts, a comparison's checkpoint | write and read, killed at any step | other processes |
| Tools, `tools/*.rs`, `sandbox.rs` | files; the registry and its servers; a fetch | read, write, edit, search; load, unload, call; fetch | file system, servers, the network |
| Containment, `command_sandbox.rs` | what children inherit, how commands run | configure, probe, start, the helper | operating system |
| Screens, `tui/home.rs`, `tui/input.rs`, `tui/completion.rs`, `tui/terminal.rs`, `voice.rs` | rows and cursors; line and menu; the terminal's modes | keys, events, drawing, cleanup | user, store, engine |
| Accounting, diagnostics, rendering, evaluation | sums, reports, layout | sequential | |

What makes it hard: four actors interleave in a turn (the engine at each of its
awaits, the provider's stream, the tools of a parallel group, the user); a turn
can be cancelled or steered at any moment and must still leave a conversation
the provider accepts; attempts are retried, but not once a tool call has been
announced; compaction rewrites the conversation between any two requests; tasks
live in several processes that crash; sessions are saved by several processes.
`PROJECT.json` lists each hazard at its line, with the properties that cover it.

What makes each part correct:

- engine: calls and results stay paired, ids unique, nothing is lost from the
  archive, a tool runs only on its own permission, a cancel is obeyed promptly
  and ends the turn, steering reaches the model once and in order, turns end;
- compaction: it never splits a batch, leaves the archive alone, and forgets
  what it measured;
- cursor: a continued response is one the conversation contains, followed by
  exactly what came after it;
- managed tasks: a queued prompt is run once or stays to be retried, one worker
  at a time, and a task never looks running for ever;
- jobs: none outlives the session, none that runs is lost, what was told stays;
- checkpoints: undo restores what the turn changed and nothing edited later;
- store and frontends: the archive only grows, no process removes what another
  archived, and nothing said is lost without a word; what cannot be repaired is
  put aside, and what is repaired a provider accepts;
- permissions: no grant, no mode and no hook lifts a deny;
- streams: a call is heard once and whole, and a broken response is not taken
  for a complete one, nor a complete one for a broken one;
- configuration: a checkout gets no more than its owner gives, and a saved
  session opens with what it was saved with;
- files: a kill leaves the old contents or the new, and keys are private;
- tools: a write stays in the workspace, a report is true, a registry is whole;
- containment: no key reaches a child, and a command is contained as promised;
- screens: what is shown is what is so, and the terminal comes back.

## Modules

| Module | What it is |
|---|---|
| `Turn` | the engine: a session of turns over one conversation |
| `MCTurn` | instances of `Turn` for TLC |
| `TurnProofs` | theorems about `Turn`: types, and the batch of tools |
| `TurnHistoryProofs` | theorems about its conversation, its archive and its steering |
| `ResponsesCursor` | the reader tasks and the cursor against the engine |
| `MCResponsesCursor` | its instance |
| `ResponsesCursorProofs` | theorems about it |
| `ManagedTask` | the files and locks of one task under several processes |
| `MCManagedTask` | its instance |
| `ManagedTaskProofs` | theorems about it |
| `Jobs` | the background job table, and each job's command from its start to the last of its processes |
| `Checkpoint` | capture, finish and undo against other writers of the work tree |
| `Workspace`, `MCWorkspace` | one engine in its work tree: `Jobs` and `Checkpoint` composed, over turns and sessions |
| `WorkspaceProofs` | theorems about the three of them |
| `SessionStore` | the database: one step per transaction |
| `ArchiveLog` | abstract: the archive of a session is a log |
| `Frontends`, `MCFrontends` | full-screen and line processes on one `SessionStore`; implements `ArchiveLog` |
| `FrontendsProofs` | theorems about them, the refinement among them |
| `Permissions`, `BashCommands` | the checker, hooks, user and sub-agents; how a shell command is read |
| `History`, `Wire` | the repair of a saved history; what a history becomes in each dialect |
| `StreamProtocol` | abstract: what a stream promises the turn loop |
| `Streams` | the three readers; implements `StreamProtocol` |
| `Settings` | configuration, trust, models and keys, saved bindings, `config init`, `doctor` |
| `UserFiles` | how each small file is written and read by processes that are killed |
| `HomeScreen`, `InputLine`, `ChatTurn`, `TerminalGuard`, `Screens` | the home screen, the line, a turn on the screen, the terminal's modes; what all of them promise |
| `FileTools`, `McpServers`, `WebFetch`, `CommandSandbox`, `Tools` | the tools for files, the servers' tools, fetched pages, what commands run in; what all of them promise |
| `PartProofs` | theorems about `Permissions`, `Settings`, the screens and the tools, each for its own part |
| `FilesProofs` | theorems about `UserFiles` |
| `Parts`, `MCParts` and the `MC` modules it extends | the parts that share no state, side by side |

An operator whose comment begins with "(mutant)" is not part of a model.  It is
the operator below it with a plausible bug in it, kept to show that a property
notices.

### How the models meet

`Turn` takes the provider, the tools, the permission checker and the user as
choices, so every other part meets it at an interface that is a disjunct of its
`Next`: `Streams` is what its `Response` may be, `Permissions` what its verdicts
may be, `ChatTurn` what becomes of its events.  `ResponsesCursor` has an engine
of its own, with only the steps that change the conversation the cursor counts,
because the reader runs a response ahead of it.  `ManagedTask` takes a whole
turn as one step with an outcome, which is what its files record.

`Workspace` composes `Jobs` and `Checkpoint`: they meet in `/undo-turn`, which
looks at the job table before it touches a file, and in `set_messages`, which
resets both.  `Frontends` composes processes over one `SessionStore`.

`Parts` composes nothing: permissions, histories, streams, settings, files,
screens and tools share no state in the code either, so a behaviour of `Parts`
is a behaviour of one of them while the others keep their first state.  Each has
a specification of its own; checking them in one run says no more and no less
than checking them in turn.

## Turn

One engine, one conversation, a session of up to `MaxTurns` prompts.

| State | Code |
|---|---|
| `messages`, `archive`, `baseline` | `Engine.messages`, `archive`, `last_request_usage` |
| `steering` | `SteeringQueue` |
| `pc` | the await `run_turn` or `execute_tool_batch` stands at |
| `turn`, `retries` | the locals of `run_turn` |
| `calls`, `announced` | `tool_uses` of the streamed response, and how many the frontend saw |
| `batch` | the locals of `execute_tool_batch`: outputs, the group's end, the verdict kept from building a group |
| `out` of `batch`, where "admitted" is | between the look at the token and the queue (`query.rs:2130`) and the start: a member of a group waits there for room in the frontend's channel (`query.rs:2348`) |
| `steers`, `cleared`, `turns`, and `checks`, `decision`, `unheeding`, `late` of `batch` | history, for the properties: `unheeding` are the calls admitted and `late` those started after the user had cancelled or steered |

The actions of `Loop` are the steps of `run_turn` between two awaits, those of
`Response` the arms of its stream loop, those of `Batch` the steps of
`execute_tool_batch`, and those of `User` what a frontend does: submit, steer,
cancel, answer a permission prompt, reload the session.  Tokens are a choice:
whether the conversation is over its threshold, and where a tail that fits the
budget starts, among the boundaries `compact.rs` allows.

Not modelled: the note `undo_last_turn` appends, the transcript checkpoint, job
metadata in the system prompt.  The several summary requests of one compaction
are one step that succeeds, fails, or is cancelled.

## ResponsesCursor

| State | Code |
|---|---|
| `cursor` | `ResponseCursor`, shared between provider and readers |
| `readers` | where the task spawned by `stream` stands in `read_responses_sse` |
| `stream`, `channel`, `taken` | the `ProviderStream` held, its channel, `tool_uses` |
| `responses` | what the server stores: what a response was asked with, and its calls |
| `messages`, `pc`, `retries`, `cancelled` | the engine |

A response completes in three reader steps (it sees the completion and sets the
cursor, sends `Done`, ends), so it may be complete while the engine still
receives its first call.  A reader whose stream was dropped fails at its next
send, or sees its token cancelled, and clears the cursor before it ends.

Abstracted: a stream dropped for a context overflow is dropped before the compaction
that follows, where the code drops it after; a summary is one request.  Compaction and
load replace the conversation and reset the session in one step, as both happen without
an await between them.  A response completes with an id or without one: the cursor moves
only with an id, so that an older response may stay the point of continuation.

## ManagedTask

One task: the files of its directory, two locks, `Workers` processes, one
command under `control.lock`, one `wait`.  Each file read, file write and lock
probe is a step, in the order of the code.  Start is the first send.

| State | Code |
|---|---|
| `pending`, `status`, `cancelFile`, `result` | `pending.json`, `state.json`, `cancel`, `result.json` |
| `young` | whether `started_at_ms` is less than ten seconds old |
| `lock`, `command` | the holders of `worker.lock` and `control.lock` |
| `worker` | per process: its place in `work`, its prompt, its token, whether the turn completed |
| `wait` | a `wait` command between its reads |
| `accepted`, `begun`, `asked`, `launched`, `hasty` | history, for the properties |

A prompt is its number.  The clock is read when the state is, which loses no
outcome because the grace may end at any moment.  The task record, worktrees,
the event log, `attach` and `list` are left out; the four worker slots, the
configuration and a full event log are reasons for `WorkFails`.  `wait`'s own
timeout is left out: it changes nothing.

## Workspace: Jobs and Checkpoint

| State | Code |
|---|---|
| `enabled`, `table`, `job` | `JobManager.enabled`, `jobs`, and per job its `Job` and where `execute_with_progress` stands |
| `tree` | the processes of a command: the shell, children in its group, daemons outside it |
| `starting`, `cancelling`, `aimed`, `closing` | a start between its two looks at `enabled`; a cancellation that holds the table; `shutdown` |
| `disk`, `pending`, `last`, `undo` | the work tree, `pending_checkpoint`, `last_checkpoint`, and the loop of undo |
| `session`, `atStart`, `atEnd`, `ofSession` | which conversation the engine holds; history, for the properties |
| `turn`, `left` | whether a turn runs; the budget of a behaviour |

The table's lock is held as long as the code holds it; a job's task takes only
the lock of its result, so it may end between the moment a cancellation looks
at it and the moment it cancels it.  Time is counted in seconds, and only for
what the code bounds: reaping a child, draining its two pipes, joining a job at
shutdown.  A file is absent or has one content, which stands for its bytes and
mode or its link; `.gitignore` is a file whose content hides another, because a
checkpoint sees what Git lists.  Undo verifies every file, then reads again,
restores and goes on, one file a step, while others write.

## Frontends on a SessionStore

| State | Code |
|---|---|
| `db` | per session its row and its rows in `messages`, `archive_events` and the others |
| `proc` | per process: its screen, its engine's conversation and archive, its save error, its shutdown |
| `exported`, `reported` | recovery files; what a process said that it could not preserve |
| `said`, `deleted`, `overwritten` | history, for the properties |
| `left` | the budget |

A database operation is one step: SQLite refuses a transaction that read before
another committed, so a save is one step that may fail.  A message is its
number and how it reads: plain, or `alien`, which this build cannot decode.
The saves after a turn, after a command that may rewrite the conversation, on
leaving a session, on a signal and after an error are the code's, with what
happens when each fails.  That the archive obeys `ArchiveLog` is checked and
proved as a refinement: `Log == INSTANCE ArchiveLog WITH life <- ..., log <- ...`.

## Permissions and BashCommands

`checker` is a `PermissionChecker` per engine (mode, grants, families), `policy`
the configured rules, `phase`, `call`, `proposed` and `answers` the decision of
one call from the rules over the hooks to the user; `granted` and `ran` are
history.  A command is the sequence of its words with their kinds, so that
`FamilyOf` (what "always allow" covers) and `AutoAllows` (what auto mode runs by
itself) are the code's functions: the first refuses every `;` and newline, the
second splits at operators that are words of their own (`permissions.rs:264`), so an
operator glued to a word (`ls;`) ends nothing.  A sub-agent has a checker of its own and
nobody to ask.  What a hook's process does is one of its verdicts.

## History, Wire and Streams

`history` is a sequence of messages of blocks: texts, images, reasoning, calls
and results.  `Repair` of `History` is `repair_history`; `Wire` is what each of
the three dialects makes of the repaired history.  Both are functions, checked
over every history up to a bound.

`Streams` has the frames a server sends (`frames`), what became of the transport
(`fault`), the locals of the reader (`reader`) and what it sent (`events`), in
each of the dialects.  Frames come in any order a server of that dialect may
send; each end is there: complete, cut, silent, garbled, refused.
`StreamProtocol` is what the turn loop relies on, and `Streams` is shown to
implement it by a mapping from frames and events to calls and an outcome.

## Settings and UserFiles

`owner`, `project` and `environment` are the documents and variables found; `bindings`
what sessions were saved with; `running` the process with its merged configuration and
its model, or its refusal.  A document is a record of fields that are `Unset` or one of
a few values.  A provider may be called "legacy", the word by which `resolve_binding`
tells sessions without a profile.  `UserFiles` has the directory (`disk`: per path what
it holds, `Torn` while it is written, and who may read it) and per process the job it is
at, one file operation a step; `Signal` and `Killed` may come between any two.  A key is
written in place (`auth.rs:205`), everything else to another name and renamed.

## Screens

`HomeScreen` has the rows of the database and the tree built from them, which
other processes outdate.  `InputLine` has the line as characters, the menu
derived from it, the two presses of Ctrl+C, the job list and the voice.
`ChatTurn` has the channel between engine and screen, the bubbles, the prompt,
and the steering; its engine is `Turn` seen from the channel.  `TerminalGuard`
has the modes that are set (`term`), `active` and `closing` of the guard, and
the stages from the first escape to the last destructor; the terminal may be
lost and may refuse any escape at any moment, and the program may panic.

## Tools

`FileTools` has a small file tree with links that others change between any two steps of
Read, Write, Edit and Grep; the search of one Grep is one step, with the limit of its
results and that of its bytes, and with the links to files that it follows. `McpServers`
has the registry with the connection of each tool, loads under way, grants and the
cursor's tools.  `WebFetch` has what a name stands for and the addresses that were
connected to.  `CommandSandbox` has the policy of children's environments, what the host
offers, the sandbox of the engine, and the process started last; the helper is a process
of its own that read no configuration, and claux's own processes, the worker of a task
and the probe, inherit everything.

## Runs

| Run | Question | Bounds, and why they are enough |
|---|---|---|
| `turn_batch` | who runs when, on whose permission, and how soon it stops, members of a group that wait for the frontend included | one response of three calls, two in parallel: a group can be full, followed by a call that fits no group, and the kept verdict is handed on; one steer and one cancel |
| `turn_history` | is the conversation always acceptable, and the archive complete | two turns of two rounds of two calls with one name and one omitted id, one retry of each kind: an id is repeated inside a batch, across rounds and after a compaction, and every recovery is used up |
| `turn_steering` | where steering messages end up, and do turns end | two turns, two messages, permission prompts, a reload; one message can wait over a turn's end and meet another |
| `turn_late_steering` | finding, see below | |
| `turn_prefill` | finding, see below | |
| `cursor` | does a continued request skip or answer anything it must not | three responses, with an id or without, so that one reader can be loose while another is attached and a third has ended; one retry; one call a response, received or not when the response is given up; `cursor_lossy` has two, of which one is received. More of each is by proof |
| `cursor_lossy` | finding, see below | |
| `task` | is every prompt run once, a cancel never misdirected, a report never stuck | two prompts, two workers, any two of: retry, cancel, wait, a process killed; launch failures, turn failures, deadlines and slow workers cost nothing. Two workers is the number at which one waits behind another; prompts run once and cancels go right for any number by proof |
| `task_wait` | finding, see below | |
| `workspace` | do jobs end with their session, is none lost, is undo exact | three jobs where two may run and two are kept, so that a start evicts and one is refused; the times are the code's: one second to reap, one to drain each of two pipes, four of patience at shutdown; two files of which one is `.gitignore`; budgets of turns, starts, cancels, forks, edits and undos, over two sessions |
| `sessions` | is anything said lost, is the archive a log | two sessions of which one is of an older build with an unreadable message; a full-screen process and a line process; budgets of messages, faults, deletions, compactions and signals: one process alone, two, one among deletions |
| `parts` | the seven properties of the parts below | see the next table |

The bounds of `parts`:

| Part | Bounds, and why they are enough |
|---|---|
| permissions | eight calls (a granted command, the same with more, joined to another by a word and by a glued operator, an edit, a read, a server's tool with a hint, a sub-agent), five policies with each kind of rule and each mode, one hook with every verdict; the verdicts are combined pairwise |
| history | every history of up to four messages of eleven kinds: a call, its result, a repeat, a swap, an orphan, and an id that a repair would choose |
| streams | up to 5, 7 and 4 frames: two calls with arguments in pieces, usage and an end in each dialect |
| settings | three owner's files (one from before profiles, one with a provider called legacy), three project files (one asks for everything, one tightens and asks, one does not parse), five command lines, one environment with a key in a variable, a saved key, and a command that gives none; one session saved under one of them and opened under another, before and after `config init` |
| files | two processes, two windows, a comparison of two models with one probe: each file is written while another process reads or writes it |
| home, line | two projects, two new sessions, two models; a line of three characters, three commands of which one begins like another |
| chat | two pieces of text, two calls, one aside (a retry, a notice or a typed message), a channel of two: the channel is full while a key is read |
| terminal | all of its modes, every subset refused |
| tools, servers, fetch | a file in a folder and one outside, links to both, lines over and under the limit of bytes, two meddlings: one to make what a tool finds, one between two of its steps; two owner's and two listed servers with a common name and a common exposed name, one load; two addresses, two redirects, pages cut by letters and by bytes |
| box | four configurations, every host, five variables of which two differ in capitals, servers with variables of their own |

Deadlock is not checked in `cursor`, `cursor_lossy`, `task`, `task_wait`,
`workspace`, `sessions` and `parts`: an idle program whose user has used up the
budget has nothing to do, and a part may be finished (a response that ended, a
page that was fetched).  The runs of `Turn` do check it: a session at its prompt
can always be reloaded, so a deadlock there would be a turn that nothing moves.

### What the properties say

`Turn`: `HistoryPaired`, `UniqueIds` (a repeated id would wedge the session),
`BaselineMeasuresPrefix` (the usage baseline is a prefix of the conversation, of which
the code checks the length only), `ArchiveComplete`, `AnnouncedCallsAnswered` (a call
the user saw has a result, however the turn ended), `PermissionIsForTheCall`,
`BarriersHold`, `StopsPromptly` (after a cancel or a steer at most one call is admitted;
what starts beside it are members of one group, at most `MaxParallel`, that had been
admitted and waited for the frontend's channel; nothing starts behind a call that was
dropped), `SteersConserved`, `SkippedCallsAreSuperseded` (when calls were skipped for a
message, the next request itself ends with that message, or is the summary that a
compaction without room for it made of it; `turn_steering` compacts between any two
requests), and the liveness properties `CancelEndsTurn` and `TurnEnds`.

`ResponsesCursor`: `CursorCoversPrefix` (what a continued request leaves out is
exactly what the response it continues was asked with and answered) and
`NoOrphanOutputs` (it answers only calls of that response, or of one that completed
without an id: then the cursor stays at an older response, which never made those
calls, and the code answers them against it).

`ManagedTask`: `PromptsOnceInOrder`, `CancelsItsOwnTurn`, `IdleShowsItsResult` and
`WaitPrintsItsTurn` (no answer of an earlier turn), and the liveness properties
`LaunchIsTakenOrRetryable` and `ReportSettles`.  Three of them are conditional on
`hasty` being false: no retry was let through beside a living worker.  Without that
condition they fail, and for the race itself nothing is claimed beyond
`PromptsOnceInOrder`.  A retry reads everything it checks before it writes `state.json`,
and a worker that was only slow may take the prompt, and even end the turn, in between;
retry's "starting" then stays with no prompt, and the task reads as interrupted from
then on.

`Workspace`: `RunningIsListed` (a command that runs is in the list, so it can be
cancelled), `ToldIsFinal` (what was reported of a job is not changed by a late
cancellation), `ClosedIsQuiet` (after shutdown no process of a group is left, and no job
was aborted; the five seconds of `tui/mod.rs:192` run from the signal, and are taken to
last longer than what closing needs by itself), `SessionCloses` (liveness),
`UndoRunsAlone` (no command writes beside an undo) and `UndoIsExact` (an undo overwrites
only what its turn left, with what was there before).  `UndoIsExact` leaves out an edit
between the last look at a file and its replacement, and files that were ignored when
the turn began.

`Frontends`: `ArchiveIsALog`, `NothingLost` (what was said is on disk, in a recovery
file, in the memory of a process on that session, reported, or deleted with it; and a
chat without a save error has what was said on disk, summaries aside: they are the
engine's own words), `SavedOverItsOwn` (a process writes only over the session it
loaded) and `OriginalsKept` (what this build cannot read is put aside, not dropped).

`Parts` has one property per group, a conjunction of named ones: `NothingRunsUnasked`
(the documentation's table of modes, with the cases named in which the code lets more
run); `HistoryIsServable` (the repair is valid and changes nothing in a valid history,
and each dialect sends all of it); `StreamsKeepTheProtocol`; `OwnersWordStands` (a
project that is not trusted lets nothing run unasked that its owner does not, and has
its models asked of the owner's providers with the owner's keys; a session resumes its
model, on a provider of the same name and kind, where the kind of a session without a
profile is that of the owner's file; what is saved reopens; `config init` keeps what was
there, a first profile as the default aside; `doctor` is right);
`FilesOutliveTheirProcess` (what is published is whole, keys are private, what a
comparison finished is kept, a run that was stopped is told as interrupted, and no
window is asked for that was cached and fresh); `ScreensAreTrue` (cursors are on rows
that are shown, a deletion deletes what it asked about, the menu takes Enter only when
it shows, bubbles say what the turn said and text leaves the screen at a retry only,
with what the exceptions lose named; a prompt is for its call, the terminal comes back);
`ToolsKeepTheirBounds` (writes stay inside, reports are true, a search is complete or
says that it is not, but for a first line over the limit of bytes; the registry is
whole, grants are for the tool, hints are believed of owners' servers only, fetches are
bounded, children that claux cleans are clean, and contained).

Where the code does not do all that its documentation says, and no run is about it,
the property states what the code keeps and names the exception, so that anything
worse would violate it.  The exceptions:

- a call runs unasked in plan mode on a server's hint, though `README.md:771` excepts
  plan mode; an ask rule makes a prompt of what plan mode denies, which a hook may
  clear, though `README.md:753` says that nothing lifts that denial (`NothingRunsUnasked`,
  and for a project's ask rules `LoosensNothing`, beside `README.md:810`); a sub-agent
  runs in the configured mode, not its parent's (`README.md:775`); what stands behind a
  newline or a glued operator is not looked at in auto mode;
- a response without an id leaves an older cursor (`NoOrphanOutputs`);
- text that came after a call of its response leaves the screen at a later retry,
  though the comment at `tui/chat.rs:1035` says that nothing rendered can (`TextStays`),
  or at an error (`TextIsShown`);
- a search whose first match in a file is over the limit of bytes answers "No matches
  found" (`grep.rs:231`; `SearchIsComplete`);
- `--protocol` without `--base-url` makes models without an address, which `doctor`
  does not notice (`DoctorIsRight`; the instance contains such a command line), and a
  process with `--protocol` saves bindings that cannot be opened (`SavedReopens`);
- a profile `legacy:<model>` of a provider called legacy is opened as a session
  without a profile (`SavedReopens`);
- a messages stream that ends with a tool block still open counts as complete
  (`StreamsKeepTheProtocol`).

### Findings

- `turn_late_steering`: a line typed while a turn's last response streams is
  delivered after the next prompt, although typed before it.
- `turn_prefill`: when a new prompt alone exceeds the tail budget, the
  compaction before the first request leaves a conversation that ends with the
  assistant's summary.
- `cursor_lossy`: a response that completed in the reader while the engine gave
  it up half-way stays the continuation point, although the conversation lacks
  an output for one of its calls.
- `task_wait`: `wait` reads `state.json` before it probes `worker.lock`; a
  worker that writes its outcome and exits in between makes it report a
  completed turn as not completed.

Each is quoted with the line it contradicts in `PROJECT.json`.

### Observations

Met while modelling, and modelled as the code does it; no run is about them.

- Containment: `README.md:645` says that `strip_agent_sockets = false` keeps
  `SSH_AUTH_SOCK` and `DOCKER_HOST` for Bash; in a contained command the helper
  has read no configuration and removes them all the same.
- Undo: a turn that edits `.gitignore` so that a file is no longer ignored makes
  that file new, and undo deletes it (`checkpoint.rs:65`).
- Sessions: a load that fails (`tui/mod.rs:131`) leaves the engine with another
  conversation, which the save at the end may write; an ambiguous prefix given
  to `/resume` ends the program; a REPL that ends by an error skips
  `jobs.shutdown`.
- Jobs: a completion that is evicted before it was told of is never told.
- Engine: turn-end hooks run after the checkpoint is finished; pending images
  survive `set_messages`.
- Permissions: a sub-agent runs no permission hooks.
- Providers: the chat dialect drops the text of a message that also has results,
  and reports a transport error without its type.
- Configuration: a session without a profile goes on with whatever the owner's file
  has now, of another kind too; without profiles a project may name any model of
  the owner's provider (`config.rs:953`); the migration by `config init` drops
  extra models of an old file and overwrites `[providers.anthropic]`.
- Files: a key's file is truncated in place, so a kill while it is written
  loses the key; two one-shot runs with one transcript share a partial file; the
  first request on the login's port ends the wait, whatever it asks for.
- Screen: the prompt ignores modifiers; the home screen reacts to the release of a
  key; steering that was typed and not entered stays for the next turn.
- Tools: a symbolic link to a file is searched (`path.is_file`), one to a folder is not;
  the worker of a task and the probe for containment inherit the whole environment, keys
  included, and a server of the owner gets its variables after the others were taken
  out (`mcp.rs:398`); Grep's "count" mode says 1 for every file; an unknown mode finds
  nothing; two servers of one name both connect at the start when their tools
  differ, and two tools of one exposed name end the program; a page cut by
  bytes is called truncated although all of its text is shown.

## Fairness

`Turn`: `WF_vars(Engine)` alone.  The engine is one task that the runtime polls until it
returns; a provider's stream ends or times out, a tool ends or is timed out, a frontend
drains its events and so makes room in its channel.  No fairness is assumed of the user,
so a turn may wait for a permission for ever, and `TurnEnds` says so.

`ManagedTask`: weak fairness of a command that runs, of each worker, of `wait`
and of the clock.  Weak fairness is enough for the lock: the workers before it
are finitely many and each lets go.  Nobody has to type, and nothing has to die
or fail.

`Workspace`: weak fairness of `JobStep`, which is what the code's scheduler does
by itself: calls of the manager return, the tasks of jobs are polled, seconds
pass.  A command owes nothing: it may ignore its signal, fork or hold its pipes
for ever, and `SessionCloses` holds all the same.

The other modules are safety only.

## Proofs

Every theorem holds for all values of the constants that satisfy the named
assumption of its module.  Most say only that bounds are natural numbers and that
a model value such as `None`, `Blank` or `NoSession` is what it is not.  Those
that say more:

- `PatienceAssumption` (`Jobs`): one second to reap a job and one to drain each
  of its pipes are less than the four of shutdown, as the code's constants are;
- `PermissionsAssumption`: configured modes are the five that exist, and a call
  is read-only or not;
- `StoreAssumption`: what an older build left is finitely many sessions of
  well-formed rows, with any contents, readable or not;
- `TerminalAssumption`: there is a first escape;
- `SettingsAssumption`: documents have the fields that are parsed and words that
  exist, and a profile is added for a provider that is built in;
- `LineupAssumption` and `FilesAssumption` (`UserFiles`): a model is in the lineup
  once, what is written is neither nothing nor torn, and a window known by itself
  is told apart from announced ones;
- `FetchAssumption`: a limit of redirections, and characters of one to four bytes;
- `HomeAssumption`: what is typed leaves models out of the list and adds none.

TLC evaluates each of them in the run of its module.

### Turn

**TurnProofs.**  `TypeCorrect` includes that no recovery is used more often than its
limit.  `ToolsRunOnTheirPermission`, `MutatingCallsAreBarriers` and `BatchStopsPromptly`
follow from `BatchInv`, which is inductive.  It says for each await of
`execute_tool_batch` which calls are settled, which have a decision, and which of them
the engine will use next: calls settle in order outside a group, a group is an interval
of read-only calls that were allowed, and a verdict in hand is of the call at hand.
What the user's word has changed is `WordInv`: until it is given nothing is late and
nothing dropped, a late call belongs to the group that runs, and beside a call that runs
alone none is late.  The properties alone say nothing of the verdict kept when a group
is closed by a call that does not fit it.

**TurnHistoryProofs.**  What becomes of conversation and archive.  The engine
has some forty actions, but only nine kinds of step as far as the conversation
goes (`HistoryStep`): nothing changes, the user's words are appended, a
compaction is committed, a stream opens, brings a call, is dropped, ends
without calls, its calls are committed, and their results are collected.  One
lemma classifies each group of actions, and every invariant is then shown for
nine kinds instead of forty actions.

- `HistoryInv` gives `CallsAreAnswered`, `IdsAreUnique` and `BaselineIsPrefix`.
  Besides the three properties it says of every await whether a call may be
  open, because a compaction or a prompt is allowed only where none is: a tail
  that starts at one of `compact.rs`'s boundaries never begins with results.
- `ShownCallsAreAnswered` counts: calls shown are calls archived and calls in the
  stream; calls archived are calls answered and calls in the batch
  (`AnnouncedInv`).
- `ArchiveKeepsAll` rests on two lemmas about `EndOf`, that appending the same
  messages to both and cutting the conversation down to a tail keep it.
- `SteeringIsHeardOnce` is inductive with types.
- `SkippedForTheNextRequest` follows from `SkipInv`, which carries "a message
  waits, or was appended last" from the moment a call is skipped over the
  collection, the compaction and the retries up to the request: both to the archive
  and to the conversation that is sent, or the conversation is its summary.

### Responses cursor

**ResponsesCursorProofs.**  `ContinuedFromAPrefix` and `OutputsAreKnown` follow
from `CursorInv`.  Neither is inductive: a reader of a stream the engine gave up
may set the cursor to a response the conversation has left, and clears it again
before it ends.  `Reaches` says what the cursor may be when no such reader is at
work (`Clean`), and the engine builds a continued request only from a cursor a
clean state allows: one whose response was asked with a prefix of the conversation, and
behind that the conversation has results only of its calls or of responses without an
id (`Known`).  The other parts say what the engine holds of a stream.

### Managed tasks

**ManagedTaskProofs.**  `PromptsRunOnceInOrder`, `CancelsReachTheirTurn` and
`TaskTyped` follow from `TaskInv`.  No lock covers a command and a worker
together, so what each has checked must be shown to last until it writes:
`SendReady` says that a send past its check finds no prompt and no cancel file
although workers go on, `PromptHeld` that the prompt a worker has found or read
stays until it removes it, although commands and other workers go on, and
`CancelFresh` that a cancel file is younger than the last prompt.

`IdleIsDone` and `WaitIsForItsTurn` (an action property) need `OutcomeInv` as
well.  While no retry was let through beside a living worker (`~hasty`), a
command that has made up its mind to launch is alone (`CommittedIsAlone`), one
worker at most is past its lock (`OneWorks`), the status says how far it is
(`StatusTells`), and what a wait has read of one file is still right for what it
will read of the next (`WaitKnows`).  Without the condition every one of these
fails, which is the point of `hasty`.

### Workspace

**WorkspaceProofs.**  `CommandsAreListed`, `NoticesAreFinal` and `ShutdownIsQuiet`
follow from `JobsInv`: processes of a group exist only while the command's phase
is "running", what has no result is listed, a cancellation aims at a job nobody
was told of, and each phase of shutdown has done what the next relies on.  That
no job is ever aborted is an argument about time: what shutdown has waited for a
job is at most what that job has used up of its own limits (`OnTime`), and these
add up to less than the patience.

`UndoIsAlone` and `UndoingIsExact` (an action property) follow from `UndoOK`: an
undo under way has no job beside it and none can start, the checkpoint holds the
files of the turn of the session at hand, and the file that undo has just read
is as the turn left it, or somebody raced.  `Jobs` and `Checkpoint` are proved
together, since the one's steps must leave the other's promise alone.

### Sessions

**FrontendsProofs.**  Two dozen actions of any number of processes are nine
kinds of step of one process (`Kinds`): it goes from place to place, deletes,
drops a session, stores, rescues to a file, fetches, completes a load, speaks,
shrinks its conversation.  The theorems:

- `ArchivesAreLogs`: the refinement of `ArchiveLog`, initial state and every
  step.  A save adds events at the end or nothing; a deleted session does not
  come back.  It rests on what `Picked` returns, which is proved from
  cardinalities: the places that are picked are numbered one after the other
  (`RankGrows`, `RankIsInjective`, `RankIsOnto`).
- `WritesOverItsOwn`, an action property, from `Typed`, which says at each place
  of a process whose conversation it may have.
- `OriginalsAreKept`, from `AsideInv`: a process that has a session's messages
  and may write has put aside what it could not read.
- `NothingIsLost`, from `LossInv`.  The property alone is not inductive: it says
  nothing of a load that another process saves or deletes under, and a load
  reads twice.  `LossInv` says of the database that what a conversation has is
  in its archive (`SavedWhole`), and of each process that its archive has what
  its conversation has (`HeldWhole`), that what it is loading is still on disk
  or was deleted (`Loading`), that leaving a session leaves nothing behind that
  is not kept (`Kept`), and that a chat without an error is on disk (`Shown`).
  `Grows` collects what no step takes back, so that a step of one process
  disturbs nothing of another.

Numbers of messages are new when they are said because finitely many were said
before (`SaidFresh`): there is always a free number among one more than those.

### Parts

**PartProofs.**  Theorems about ten parts, each with a specification of its own.

- Containment: `EnvironmentsAreClean`, `CommandsAreContained`, `HelpersContain`.
  The invariant says that the children's policy is the one of the owner's file
  (which may be loaded long before a child starts), that the sandbox at hand is
  one the file allows, and that the helper is started only where containment was
  chosen; the promise alone says nothing of a helper that is about to run.
- Terminal: `TerminalComesBack` and `CleanupIsSilent`, for any escapes and any
  drawing.  The cleanup is armed whenever something is set and knows all that
  may be (`Armed`), and the destructor's writes are not reported (`Closing`).
- Servers: `GrantsFollowTheTool`, `HintsAreTheOwners` and `RegistriesAreWhole`, for
  any servers, lists and exposed names.  A load under way that is not contained is
  of a server that the owner wrote down.  Connections are counted (`Counted`), so
  the tools of a new one are nobody else's; a tool is there with all of its
  connection (`AllOrNone`) because registration refuses a list with any name that
  is taken and unloading goes by connection.
- Fetches: `FetchesStayPublic`, for any hosts, redirections and changes of what a
  name stands for.  The addresses that were judged are kept until the connection
  (`PinnedIsPublic`); the name is not looked up again.
- Permissions: `CallsAreAgreedTo`, for any calls, policies, families of commands
  and hooks.  `GrantsStand` says that a checker's grants and families are those
  of calls the user always allows in this conversation, whatever was toggled and
  reset; `Deciding` and `Asking` say what is known of the call between the
  checker, the hooks and the user, and `Grantless` that a sub-agent has neither
  grants nor anybody to ask.

- Settings: `ProjectsLoosenNothing`, `SessionsResumeTheirModel` and
  `SavedSessionsReopen` (action properties), for any documents, flags and
  environments.  `SettingsInv` says that what the owner has is a document, through
  every edit and `config init`, and that a process has the fields of one.  A
  project's word is granted only where its rank is no looser, which is shown once
  for each list of words.  That what is saved reopens needs `ModelIsMade`: the
  model a process runs on is one that its own configuration makes, so the binding
  it writes leads there again.  Providers called "legacy" are among the documents; the
  exemptions are those of the property.
- Chat: `PromptsAreForTheirCall`.  `AsksOnce` says that a request for permission
  is in the channel or on the screen, never both and never twice, and only while
  the turn waits with its call and nothing runs; keys, drawing and events come in
  any order.
- Home screen: `DeletionsWereAsked` (an action property) and `PicksAreListed`.
  The question on the screen is what was done last (`QuestionIsLast`) although
  other processes write, and a row goes by its id.  The place in the list of models
  is one of the list even while it is not shown (`PlaceIsListed`), since every
  change of what is typed resets it.
- Line: `AccidentsDoNothing`, with `MicrophoneInv`: each of the two ways to send a
  line closes the recorder.
- File tools: `ReportsAreTrue`, with `NothingYet`: before a call stores it wrote
  nothing and has no outcome.

`CallsAreAgreedTo` states `NothingRunsUnasked`.  The others are conjuncts of
`ToolsKeepTheirBounds`, `ScreensAreTrue` and `OwnersWordStands`, or a part of one
that has a name of its own (`ConnectsToPublic`, `PickIsListed`).

**FilesProofs.**  `FilesOutlive` is `FilesOutliveTheirProcess` as the run checks it,
for any number of processes and deaths at any step.  `FilesInv` says what the disk
may hold under the names that are read (`DiskFits`): nothing torn is ever renamed
into place; that of processes of one job one is at work, but for the readers of a
window (`OneAtATime`); and of each process, at each place, what it has in hand and
what it has not yet told (`Fits`).  Every promise is about a step of one process,
so it is shown for that process and its file (`KeyStep`, `FingerprintStep`, ...),
and then that no other process takes it back.

### Only model-checked

- All liveness (`CancelEndsTurn`, `TurnEnds`, `LaunchIsTakenOrRetryable`,
  `ReportSettles`, `SessionCloses`) and everything about fairness or `ENABLED`:
  out of the prover's reach.
- `HistoryIsServable`: what a repair does to every history is induction over the
  history, which the prover cannot use for an operator.
- `Streams` with its refinement of `StreamProtocol`: what was heard of a
  response is computed from the whole sequence of frames, again by induction.
- The order of rows, menus and lines, which come from `SelectSeq` and `FlattenSeq`:
  to the provers these are unknown, their definitions being recursive.  So
  `FoldsAreKept`, `CreatesInTheProject`, that the home screen's cursor is on a row,
  `PlacesAreThere`, `MenuComesBack`, `MenuTakesEnter`, `CallsAreShown`, `TextIsShown`
  and `TextStays` of `ScreensAreTrue`.
- What folds compute: `StaysInside` (a path is followed name by name),
  `SearchIsComplete` (results are filled file by file), and the length of a fetched
  page in `FetchIsBounded`.
- `InitKeeps`: that a free name is found among as many as there are entries and one
  more is a count of a set of records, which was not tried to the end.
- `DoctorIsRight`, which compares two long sequences of checks over the same documents.

## What is left

1. Proofs: `CallsAreShown` and `TextIsShown`, with the bubbles as a function of the
   events; `InitKeeps`.
2. `Turn` over `Streams` and `Permissions`: today they meet at an interface.
3. The record, worktree and event log of a managed task; the browser login.

## Not modelled

Layout, markdown, colours, the text of diffs and reports, sums of cost and
usage, diagnostics, schemas and headers, the parsing of documents, the browser
login's page, Glob and Todo, the cut of long outputs, worktrees and the event
log of managed tasks, and the evaluation harness: sequential code over tables
and text, without an order of events that could go wrong.  The folders that stay
writable for a contained command, and Landlock itself, are taken as the host's
word.  What Git, SQLite, the kernel and the servers do is modelled from how the
code uses them, and marked external in `PROJECT.json`.
