# Verification of cozby-claw

TLA+ models of cozby-claw (the Rust workspace under `src/rust/crates`), the
configurations that check them with TLC on small instances, and proofs that
TLAPS checks for every instance. `PROJECT.json` lists, for each definition, the
source lines it stands for; for each run, its properties; for each property, a
faulty variant of the code that the run refutes.

## 1. The system

cozby-claw is a coding agent. A *conversation* alternates requests to a model
provider with calls of tools; each call passes hooks and a permission policy;
messages go to a session file. Around it stand three front ends (a REPL, a
terminal UI with one agent thread per tab, a graphical client), a multiplexer
that keeps REPLs running as child processes, clients and servers of the Model
Context Protocol (MCP), registries that an orchestrating model drives through
tools (workers, sub-agents, tasks, teams, plan mode), and plugins.

| Component | State | Operations | What is hard | Correct when |
|---|---|---|---|---|
| worker boot (`runtime/worker_boot.rs`) | one record per worker: status, trust gate, prompt in flight, armed replay, attempts, event log | create, observe a screen, resolve_trust, send_prompt, await_ready, restart, terminate, observe_completion | screens come in any order, repeatedly and late; replays | one loss per dispatch is reported and replayed once; nothing crosses a restart |
| sub-agents (`tools/lib.rs`) | supervisor and worker threads, a semaphore, manifests on disk, notifications | spawn, time out, finish, reconcile at start | late results, processes that die, reused process ids | each manifest tells the truth, reaches one outcome and keeps it |
| tasks and teams (`runtime/task_registry.rs`, `team_cron_registry.rs`, `tools/lib.rs`) | maps under a lock each, a thread per background command | create, begin, watch, stop, message, team | tools compose them without a common lock | an outcome is the command's own, unless somebody stopped it |
| plan mode (`tools/lib.rs`) | local settings, a state file | enter, exit | cut short between two writes | the mode it replaced is never lost |
| providers and streams (`api/`) | retries, a token, frames, calls being put together | send, refresh, stream, finish | cuts anywhere; retries of part of a stream | an answer arrives whole or as an error |
| hooks (`runtime/hooks.rs`) | a shell per command, its pipes, a writer thread, the abort flag | run the commands before or after a tool | full pipes, limits, helpers that outlive the shell | the verdict is a function of the answers, a run ends and leaves nothing |
| permissions (`runtime/permissions.rs`, `permission_enforcer.rs`) | a mode and rules | authorize, change of mode or rules, the enforcer's second look | order of eight decisions; two gates | nothing under a deny rule runs, nothing under an ask rule runs unasked, hooks only restrict |
| consultation (`tools/external_consult.rs`, `main.rs`) | a request, the map of hidden names, an audit log | scan, hide, review, send | what leaves; names hidden twice | nothing leaves that a reviewer has not seen; the log is true |
| shells (`runtime/bash.rs`, `tools/lib.rs`) | a shell, its pipe, helpers | run with or without a limit | output that fills a pipe, helpers that hold it | a result tells what was printed or says that it leaves some out, a call with a limit ends |
| turn (`runtime/conversation.rs`, `compact.rs`, `usage.rs`) | messages, usage counter, the call at hand | request, hooks, gate, execute, push a result, compact | every step can fail with the session half-written | what runs was allowed, calls and results pair up, history is kept |
| MCP manager (`runtime/mcp_stdio.rs`) | processes and pipes of servers, handshake flags, tool index | discover, call, list, read, shut down | late and wrong answers, retries, resets | pipes stay in step, no process is lost, no call is sent twice |
| session store (`runtime/session.rs`, start-up scan of `appui/ui.rs`) | memory, main file, rotated files | push, save, rotate, clean up, start | a crash or an error between two file operations | what a save confirmed is there after any crash |
| REPL (`main.rs`, `session_control.rs`) | a runtime, plugins that were started, session files | turn, /clear, /resume, /session, /plugins | runtimes are rebuilt half-way | plugins that were started are stopped once, turns are in the file of their session |
| plugins (`plugins/lib.rs`) | directories, registry file, switches | install, update, uninstall, enable, list, synchronise | cut short anywhere | a listing heals, what is installed was built |
| credentials (`runtime/oauth.rs`, `main.rs`) | one file, one temporary name, the provider's idea of valid tokens | login, logout, refresh at start | several processes on one name | the file is whole, its tokens can be refreshed |
| file tools (`runtime/file_ops.rs`, `diff.rs`) | the files of a worktree | read, write, edit, search; a diff | agents share files; writes fail half-way | a patch tells what was done, a promise is kept |
| summaries (`runtime/summary_compression.rs`) | none | compress | cut lines become duplicates | the budget is kept and used |
| prompt cache (`api/prompt_cache.rs`) | entries and a state file | look up, record | entries read outside the lock; several caches | what is answered is recent, a break reported is one |
| configuration (`runtime/config.rs`) | ten files | read, merge, view | later files cut up objects of earlier ones | the last file that speaks of a setting decides it |
| terminal tab (`appui/ui.rs`, `worker.rs`) | turn state, modal, cancel flag, channels, agent threads, the session file they share | submit, answer a modal, cancel, forced abort, /compact, /rewind, /plan, /model, close | threads that outlive their handle; events, replies and cancellations crossing | questions and answers pair up, a cancelled turn starts no tool, threads end |
| graphical client (`gui/`) | tabs, one dialogue of each kind, a timer | prompt, answer, interrupt, open, switch, close | one dialogue for all tabs | the indicator is true, nobody waits for ever |
| multiplexer (`mux/server.rs`, `client.rs`) | sessions as child processes, transcripts, attached clients | new, list, attach, prompt, logs, pin, close, shutdown | several threads and locks, a status inferred from output | a client sees the transcript in order, one session's trouble does not stop the others |

**How they interact.** A front end runs a turn on a thread: `ConversationTurn`
is that turn. It asks `Permissions` for each decision and `HookRun` for each
verdict of hooks; it pushes to the session, which `SessionStore` keeps on disk;
its requests are `ProviderStream`, behind `PromptCache` and with the token of
`Credentials`. A tab (`AgentTab`) owns the thread, answers its questions over
reply channels and may abandon it; `GuiWindow` does the same for its tabs, and
`Repl` rebuilds the runtime around it. MCP tools reach `McpManager` through a
thread per call; file tools, shells, tasks, sub-agents, plan mode and the worker
registry are tools of the model and share nothing with each other but files.

The hazards, with their lines, are in `PROJECT.json`.

## 2. Modules

| Module | Models | Uses |
|---|---|---|
| `WorkerBoot` | `WorkerRegistry` | |
| `SubAgents` | a sub-agent's threads, manifests, the scan at start | |
| `TaskBoard` | background commands on the task list, TaskStop, teams | |
| `PlanMode` | EnterPlanMode, ExitPlanMode and their two files | |
| `ProviderStream` | a request with its retries, its stream and the answer made of it | |
| `HookRun` | what `run_commands` promises | |
| `HookCommand` | the processes, pipes and threads that keep the promise | extends `HookRun` |
| `Permissions` | the decision, the enforcer, changes of the policy | |
| `Consultation` | a request to an outside model, hidden and shown again | |
| `Framing` | bytes of a stream cut into frames, for both kinds of providers | |
| `ShellCommand` | bash and PowerShell in the foreground | |
| `ConversationTurn` | `run_turn` under two drivers | instances of `Permissions` and `HookRun` |
| `McpManager` | `McpServerManager` and its servers | |
| `SessionStore` | the files of a session | |
| `Repl` | `LiveCli`: runtime, plugins, session files | |
| `PluginManager` | directories, registry and switches of plugins | |
| `Credentials` | login, logout and refresh by several processes | |
| `LineDiff`, `FileTools` | the diff and its patch; files shared by agents | `FileTools` extends `LineDiff` |
| `SummaryCompression` | `compress_summary` | |
| `PromptCache` | the cache of a session's answers, the watch for lost prompts | |
| `Configuration` | reading and merging of the settings files | |
| `AgentTab` | a tab and all agent threads it ever spawned | |
| `GuiWindow` | the window, its tabs and their agents | |
| `MuxServer` | the multiplexer's server, its children and clients | |
| `AgentTabProofs` | theorems about the tab and their proofs | `AgentTab` |
| `ServicesProofs` | the registry of workers, plan mode, tasks, sub-agents, hooks, by themselves and composed | `MCServices` |
| `EngineProofs` | the turn and the MCP manager | `MCEngine` |
| `MuxServerProofs`, `GuiWindowProofs` | the multiplexer, the window | `MCMuxServer`, `MCGuiWindow` |
| `BoundariesProofs` | permissions, consultations, streams, shells | `MCBoundaries` |
| `FilesProofs` | session, plugins, credentials, prompt cache | `MCFiles` |
| `WorkspaceProofs` | REPL, file tools, summaries | `MCFiles` |

`MC*.tla` give the constants their values for TLC, together with the `.cfg` of
the same run. Five of them put modules side by side: `MCServices` (worker boot,
sub-agents, tasks, plan mode, provider, hooks), `MCBoundaries` (permissions,
consultation, framing, shells), `MCEngine` (turn, MCP manager), `MCTab` (a tab,
its settings) and `MCFiles`
(session, REPL, plugins, credentials, edits, summaries, prompt cache). The modules of such a run share no state: a variable `part`, fixed at
the start, says whose behaviour it is, and the others stay where they begin.
Each states its fairness with that guard. What each says for itself is the
property of its part.

### WorkerBoot
One variable, `worker`, maps ids to records. Every method of the registry
holds its mutex from beginning to end, so each is one action. `observe` looks at
a screen: the detectors (trust dialogue, ready cue, running cue, shell prompt,
prompt gone astray) are abstracted to what they find, and every combination is
tried. Its two early returns make it three actions: `ObserveTrustPrompt` (the
dialogue is up and nobody may clear it), `ObserveMisdelivery` (the prompt was
lost) and `ObserveProgress` (the rest of the body). `misdelivered`, `booted` and
`given` are history. The duration of the boot and telemetry are left out.

### SubAgents
A launch writes the manifest and starts a supervisor, which waits for a slot,
starts the worker thread and waits for its result or the limit. A worker that is
late goes on (`thread`), its result goes nowhere. A process may exit or die with
its threads; the scan at the next start looks for manifests that still say
"running" and asks whether their pid is alive, which another process may have
been given. Notifications wait in `queue` for the next turn.

### TaskBoard
A background command is an entry of the list first, then a thread spawns it
(`Begin`) and another waits for it (`Watch`); `TaskStop` sets the status and then
signals (`killing`). The registries have a lock each: between looking one up and
changing it another tool may come. Teams refer to tasks that may be gone.

### PlanMode
`op` is the tool call under way: which of its writes are done. A crash cuts it
short; the settings may be changed by hand or by the Config tool in between.
`before` is history: the mode that stood there when plan mode began.

### ProviderStream and Framing
`said` is what the provider has sent, `st` the converter's state (for an
OpenAI-compatible provider, which has no explicit end of a block), `pending` or
`held` the call or calls a client is putting together: the REPL, the terminal and
the graphical client keep one, the sub-agents' client a table. `Framing` is the
layer below: bytes pushed in any pieces, frames cut at blank lines of either
kind, what is left when the stream ends.

### HookRun and HookCommand
`HookRun` appends one answer after the other and returns a verdict that is a
function of the sequence. `HookCommand` spawns a shell, feeds it from a writer
thread over a pipe of `PipeSize` chunks, polls for abort, limit and exit in the
order of the code, kills, reads the output, joins, and merges flags and
overrides on the way. The shell may ignore its input, print more than the pipe
holds, leave helpers that inherit the pipes. `Implements` is the refinement:
every behaviour of `HookCommand` is one of `HookRun`.

### Permissions
`Authorize` is `authorize_with_context`, arm by arm in the order of the code;
rules are matched on the subject that `extract_subject` picks from an input by
its list of keys. `EnforcerAllows` is the second gate, which the program puts before the tools of
sub-agents only (`tools/lib.rs:3846`). `GatesAgree` says when it decides as the
first one, and what it refuses of what the first let through. The state machine is the
policy in force; `SwitchMode` and `AddRule` change it.

### Consultation
A text is a sequence of phrases, a phrase is what stands before a path and the
path's segments; a word has a kind (a type's name, a lower-case name, a name
everybody knows, a placeholder). The two passes of the anonymiser, over
declarations and over uses, each enter the words they hide in the map (`Noted`
for one word, `NotedAll` for those of a phrase, `NotedEach` for a text) and then
put what the map says (`Hidden`) in their place (`Declared`, `Used`); `Real` is
the way back.
`run_with_reviewer` goes through `Scan`, `Hide`, `Review` and `Send`.

### ShellCommand
A shell prints into a pipe, may leave helpers that inherit it, and exits or not.
bash reads while it waits; PowerShell with a limit polls the shell and reads
only when it has ended. The future of a bash command that exceeds its limit is
dropped; nothing kills the shell.
bash cuts what it has read (`Truncated`, `truncate_output` of `bash.rs`): what is
longer than `MaxBytes` loses its end, from the last end of a character (`ends`)
under the ceiling, and gets a mark. PowerShell hands on everything. `ResultsTell` has
both: everything is read, and a result leaves nothing out unsaid.

### ConversationTurn
`pc` follows the loop: a reply with its calls is pushed, each call goes through
pre hook, gate, execution, post hook and push. `driver` is chosen at the start
and fixed: the REPL rebuilds the runtime from the session it kept and forgets a
failed turn, a tab goes on with the session it has. `facts` is history: what
really happened to each call.

### McpManager
`server` is the record of each server (its process, the handshake flag), a
process has the requests it has not answered (`inbox`) and the messages the
manager has not read (`outbox`). An operation runs `Check`, `Spawn`, `Ready`,
`Send` and then one of `Receive`, `EndOfFile`, `Timeout`; `Fail` and
`HandshakeFails` are the two nested retry loops. A server answers with a result,
a page of more, an error, no result; repeats an old answer; prints noise; dies.

### SessionStore
One action per change of the file system: append, rename of a rotation, write
of the new file (its temporary file is renamed over it and seen by nobody),
removal of one old log after the other. Between any two, a crash or an error may come. `Start` is
the scan at start-up with its notion of a session file.

### Repl
`rt` is the runtime and the plugins that were started with it, `handle` the
session file it writes to. Turns and commands build a new runtime and replace
the old one: initialise plugins in order until one fails, shut the old ones down
until one fails. `told`, `owed`, `closed` and `spoilt` are history: what each
plugin was told, the turns a file has to hold, the files `/session close`
removed, and whether an initialisation or a shutdown failed.

### PluginManager
Each command is a sequence of operations on directories, registry file and
settings, and may be cut short before any (`Interrupted`), which leaves a
directory bare, with a manifest that does not load, or with one that does though
files are missing. `SyncOne`, `SyncStale` and `Discover` are what every listing
does first. `cut` is history: bundled plugins whose update was cut short.

### Credentials
A file is an inode under one of two names, `live` and the temporary one that all
processes share; writing truncates the inode that was opened, whoever has
renamed it since. The server keeps the refresh tokens that are `valid` and, if it
`rotates`, invalidates the one used. `overlapped` and `lost` are history: two
writes of the temporary file that met, and a process that died or failed with
tokens in hand.

### LineDiff and FileTools
A diff is made of a common prefix and suffix and a table in the middle, or of
blocks where the table would be too large; a patch of hunks up to a ceiling.
`FileTools` has agents read a file, empty it and write it again, with failures
and crashes. While nobody is at the file, `PatchesTell` takes every call it may be
given and holds its patch against the texts before and after; hunks whose
surroundings meet are one. `PageByPage` is a reader who goes through a text in pages as the
answers tell him to; pages and searches are operators over a text.

### SummaryCompression, PromptCache, Configuration
Pure algorithms with a little state around them: a detail is written, compressed
and written on; caches look up, answer and record over one session's files while
time passes; the user edits settings files. A line is its beginning, its rest,
its length, what its beginning marks it as, and whether it ends with a colon; all
notices of omitted lines have one length; a request is known by its fingerprint; a value of a settings
file is tagged with what it is.

### AgentTab
One action per step of the UI thread (drain one event, one key, one command)
and per step of an agent thread between two points where another thread can see
it: channel sends and receives, reads and writes of the cancel flag, the save.
A replaced agent keeps its number, its memory and its place in the program;
what it sends goes nowhere, and it ends where the code notices closed channels.
A session is the set of turns in its summary and the sequence of its messages.

### GuiWindow
Agents send events, the timer drains those of all tabs, a request puts up the
dialogue of its kind and notes in `modal_session` the index of its tab.
`AnswersFit` holds as long as no request meets another and no tab is closed under
a dialogue (`crossed`); what happens then is the run `gui_modal`.

### MuxServer
Three kinds of threads: a reader per child (`Read` stores a chunk in the
transcript, `LockSubscribers` and `Broadcast` send it, `Notice` derives the
status from a prompt sign), a thread per connection (`New`, `List`, `Close`,
`SendPrompt` and `Write`, `Attach`, `Replay`, `Subscribe`, `Detach`) and the
child, a REPL that prints its sign and takes a line. `lock` is the lock of the
multiplexer, kept over `Replay` and `Write`, which wait for room. Output is
numbered chunks; `seen` is history: the last chunk sent to a client and whether
it was live. The text is assumed to be cut at character boundaries: a cut
inside one makes `buffer.drain` panic (`server.rs:132`), and a sign that comes
in two reads goes unnoticed.

## 3. Runs

| Run | Module, cfg | Properties | Shows | Distinct states |
|---|---|---|---|---|
| `services` | `MCServices`, `Services.cfg` | `WorkersAreTrue` (worker boot), `PriorModeIsKept` (plan mode), `AgentOutcomes`, `TaskOutcomes`, `AnswersArrive`, `Implements`, `RunEnds` (hooks) | every order of operations on a worker; two sub-agents of two processes that die, restart and reconcile; a background command with its watcher, TaskStop and teams; plan mode cut short between any two writes; an answer with two tool calls, cut anywhere; two hooks against their abstract verdict | 222 K |
| `boundaries` | `MCBoundaries`, `Boundaries.cfg` | `NothingPassesUnasked`, `HooksOnlyRestrict`, `ModeIsMonotone`, `DenyOutlivesMode`, `ConsultationsAreSafe`, `CutsDoNotMatter`, `ShellResults`, `ShellCallsEnd` | all policies of up to three rules against all calls, overrides and replies; consultations with and without secrets, reviewers and failures; streams cut at every byte; shells that fill pipes and print more than is told, leave helpers, never end | 27 K |
| `engine` | `MCEngine`, `Engine.cfg` | `RunsWhatWasAllowed`, `RequestsArePaired`, `ResultsAreTrue`, `TurnsEndWell` (turn), `ServersInStep`, `OperationsEnd` (MCP) | two turns with failures everywhere and compactions in between; two operations over two servers that misbehave | 412 K |
| `mux` | `MCMuxServer`, `Mux.cfg` | `ListIsTrue`, `SeenInOrder`, `RequestsAnswered` | one session, two connections, four requests or lines: the order of what clients see, the status, and that the locks come free | 462 K |
| `agent_tab` | `MCTab`, `AgentTab.cfg` | `QuestionsArePaired`, `IdleAgentIsSaved`, `NoToolAfterCancel`, `ThreadsEnd` (tab), `LaterFilesWin` (settings) | a tab with its current and a replaced agent, two turns; settings files that are edited, broken and merged | 174 K |
| `gui` | `MCGuiWindow`, `Gui.cfg` | `WindowIsTrue`, `RequestsAreAnswered`, `ClosedTabsEnd` | two tabs, their agents, one dialogue for both | 191 K |
| `files` | `MCFiles`, `Files.cfg` | `SessionFiles`, `ReplSessions`, `PluginDirectories`, `CredentialsFile`, `FileContents`, `FileEdits`, `SummariesFit`, `CachedPrompts` | the parts that live in files, with failing operations, crashes and other processes | 1.8 M |
| `tab_lost_turn` | `MCAgentTab`, `TabLost.cfg` | `NoFinishedTurnLost` | *violation*: a finished turn disappears from the file | |
| `store_rotated` | `MCSessionStore`, `StoreRotated.cfg` | `NothingSavedIsLost` | *violation*: a rotated log opened as a tab destroys newer history | |
| `mux_seam` | `MCMuxServer`, `MuxSeam.cfg` | `NothingMissed` | *violation*: output between replay and subscription is lost | |
| `gui_modal` | `MCGuiWindow`, `GuiModal.cfg` | `AnswersReachAsker` | *violation*: an answer goes to an agent that did not ask | |
| `provider_calls` | `MCProviderStream`, `ProviderCalls.cfg` | `EveryCallArrives` | *violation*: of two parallel calls one is lost | |

A run marked *violation* states what a comment or test of the repository says
and TLC shows a behaviour of the code that contradicts it; the `findings` of
`PROJECT.json` quote the line.

### Bounds
* worker boot: one worker, two prompts, three dispatches. Workers share nothing
  but the id counter. Two prompts tell "the same" from "another"; three
  dispatches allow loss, replay, loss of the replay and one more.
* sub-agents: two agents, two processes, one slot: one agent waits for the
  other's, one process reconciles what the other left, a pid is given away.
* tasks: one task (records share nothing), two teams that take it from each
  other, one message.
* plan mode: two modes besides plan, so that a wrong one can be restored.
* provider: two calls of two pieces, one retry: calls interleave and are cut.
* hooks: two commands (order and early stop), a pipe of one chunk, two chunks
  of input and output (one more than it holds).
* permissions: three tools of different required modes (one unknown to the
  table), two subjects and inputs without one, up to three rules of five, which
  cover every pair of lists that can conflict and one more.
* consultation: eight kinds of phrases, and a text of a declaration and a use of
  what it declares, for the question and for the example: names shared and not
  shared, declared and used.
* framing: up to three frames with one kind of line ending each; shells: a pipe
  of one byte, up to four bytes of output, whose characters end anywhere, under a
  ceiling of two: what just fits, and cuts before, in and behind a character.
* turn: two turns, two requests each, two calls in all; a compaction can
  happen after the first turn with a cut inside an exchange.
* MCP: two servers, two operations (three would be ten times the states), two
  spawned processes, one extra page, one unasked message. When the bound on
  spawns is reached, spawning fails, which it may do at any time.
* mux: one session (sessions share only the lock), two connections that are
  used again when they are over, four requests or typed lines in all: enough
  for two attached clients, or for a line that waits behind another in a pipe
  of one. A transcript of two chunks loses its first one.
* tab: two turns, two agents, one tool per turn. A second agent is what
  makes an orphan; a second turn is what it can lose. The messages kept by a
  compaction are four as in the code.
* graphical client: two tabs (one dialogue for both), one prompt and one call
  each.
* session: a rotation at two lines (the code: 256 KiB), one rotated log kept
  (three), four messages, two crashes: enough for two rotations and a cleanup.
  A bound on the clock makes two rotations within a millisecond possible.
  `Torn = FALSE`: a line is appended whole or not at all. With `TRUE` the run
  fails, since `push_message` writes line and newline separately and a torn
  line makes the file unreadable. `OpensAny = FALSE`: the user goes on in the
  tab that is in front after start; `store_rotated` shows what happens else.
* REPL: two plugins (the second fails when the first is up), three session
  files of which one has a title, one turn that the file has to hold.
* plugins: one bundled and one installed, two versions.
* credentials: two processes, tokens of age up to two.
* edits: two agents on one file, four texts of up to five lines over two kinds
  of line, one line of context (three in the code), a table of fifteen cells and
  a patch of three lines: hunks that merge and hunks that stay apart, each limit
  met on both sides, and a file that holds more than may be written.
* summaries: texts of up to four of six lines under 30 budgets, each limit from
  zero to more than there is.
* prompt cache: two caches, one request, answers kept for two ticks and the
  provider's prompts for one, a clock up to three.
* settings: up to three of ten files, each empty, broken or with one of five
  contents (two for `mcp.toml`).

### Fairness
* sub-agents: a supervisor is scheduled and its limit passes. Workers need not
  end: that is what the limit is for.
* tasks: the two threads of a background command are scheduled. The command need
  not end.
* provider: the provider goes on or the connection breaks. The code sets no
  limit to silence, so a stream that stays open and silent keeps a turn.
* hooks: runner and writer thread are scheduled, time passes, a shell that
  prints goes on, and helpers end (`HelpersEnd`). A shell need not read, print
  or exit. With `HelpersEnd = FALSE`, `RunEnds` fails: see 5.
* shells: the tool is scheduled and time passes; shells and helpers need not
  end. `CallsEnd` speaks of the calls for which that is enough.
* turn: the steps of a turn under way are taken; nothing starts turns.
* MCP: the task of the manager is polled and its timers fire. Nothing is
  assumed of the servers: `OperationsEnd` is the work of the time limits. It
  needs the bound on pages: the code has none, and a server that hands out
  cursors for ever keeps a discovery going for ever.
* tab: the UI thread drains events, each agent thread takes its next
  step (requests, streams and tools return), the user answers the question on
  his screen. Nothing is assumed of new prompts, cancellations or commands.
* graphical client: as for a tab; the timer fires and the user answers what is
  shown.
* mux: threads are scheduled, a child takes its lines and finishes its turns,
  and an attached client reads what it is sent. The code does not enforce the
  last: a client that stays connected and does not read stops the reader of its
  session, or, during its replay, the whole multiplexer. A client may leave at
  any moment, a child may end at any moment.

## 4. Proofs

Each theorem is about every value of the constants; the bounds of section 3
(`Max…`) occur in guards only, so no proof uses a small value of one. What the
proofs assume of the constants are the named `ASSUME`s of the modules, which
TLC evaluates on the runs:

| Assumption | Says |
|---|---|
| `BootAssumption` | "no prompt" is not a prompt and not a kind of error |
| `RequiredAssumption` | the table gives tools a mode |
| `DriversAssumption`, `BooleansAssumption`, `AnswersAssumption`, `NumbersAssumption` | the drivers are the two there are; switches are Booleans; a hook's updated input is an input; limits are numbers, the iteration limit and the threshold positive |
| `ServersAssumption` | "no server" is not a server |
| `TabAssumption`, `TabsAssumption` | a tab has one agent at least; the window has one tab at least |
| `SizesAssumption` | pipes, sockets and transcripts hold something |
| `LoginAssumption` (`Distinct`) | "nobody", "no file" and "not readable" are distinct from processes and roots |
| `TurnsAssumption` (`Bounds`), `PluginsAssumption` (`Populated`) | bounds are numbers; there is a plugin, and none is both bundled and external |
| `TtlAssumption` (`Distinct`) | "no entry" is not a time; answers last a while |
| `LimitsAssumption`, `ChoicesAssumption`, `BoundsAssumption` | limits and sizes of a session are numbers, its switches Booleans |
| `TextsAssumption` (`TextsFit`), `LinesAssumption`, `ShellAssumption` (`SizesFit`), `ConsultAssumption` (`WellFormed`) | texts are sequences of lines or of phrases, lengths and limits are numbers, a word has a kind, a pipe holds something |

An inductive invariant is the property and what has to be known between two
steps for the property to hold after the next. Every one was an invariant of a
TLC run before it was proved. Proofs go action by action, below an action
conjunct by conjunct; where all actions change one record (a worker, an agent,
a session), a lemma lifts "this record stays sound, the others are untouched".

* **`ServicesProofs`**, the registry of workers. `IInv`: the types, and `Sound` of each record. A
  replay is armed only while nothing is in flight and a loss was counted; losses
  and the prompt in flight together are at most the attempts; a status that
  says so was booted; the error fits the status. `ReplaySafety`,
  `RestartSafety`, `MisdeliveryOnce`, `BootBeforePrompt`, `ErrorSafety`,
  `LogSafety` and `TypeCorrect` are read off it, and `WorkersSafety` says the six
  of the composition that is run.
* **`EngineProofs`**, the turn. The call at hand (`AllowedInv`): from the gate to
  the end of its execution its decision and its input are those that were
  checked (`OnlyAllowedRuns`). The messages (`PairInv`): each reply that made
  calls is followed by their results, and the last one by those already in,
  with the rest in `todo`; a compaction cuts in front of a reply, never inside an
  exchange (`RequestsPaired`). Results (`ControlInv`, `TotalInv`, `TruthInv`):
  what really happened to a call is what its result says, and the tracker has
  at least the tokens of the session (`ResultsSafety`). By `HeldInv` a
  runtime holds, between turns, the session it would be rebuilt from: every step
  extends the session, compacts it or goes back to that one (`HistorySafety`, an action
  property).
* **`EngineProofs`**, the MCP manager. `McpInv` is `CallInv` (an operation's
  stage, server, tries, and whether its call was written) and `PipesInv`: a
  server and its process know each other and no other process runs (`Owned`); a
  pipe nobody waits on holds no request, and only messages that the next request
  will not take for its own, by their ids (`Settled`); the pipe of the request
  under way holds the request, or at most one answer to it among such messages
  (`Expecting`). `ServersSafety` follows.
* **`ServicesProofs`**, the other services. Plan mode: `CallFits` says what a call that is cut short
  has read and written (`PlanModeSafety`). Tasks: how far the two threads of a
  command are tells what is known of it, and the watcher sets the outcome last
  (`TaskOutcomesAreReal`). Sub-agents: threads live in a live process, the
  supervisor writes last and learns of an end from the worker alone
  (`ManifestsAreTrue`). Hook commands: the refinement of `HookRun`: a step
  that ends a command is an `Answer` of `HookRun`, all others stutter
  (`Refinement`), and nothing is left between two commands (`LeavesNothing`).
  `PriorModeSafety` and `HooksImplement` carry plan mode and hooks over to the
  composition that is run: a step of another part leaves the variables alone.
* **`AgentTabProofs`**. The current agent and the screen: of each kind of
  question, those in the channel, on the screen and answered are one together if
  the agent waits for it and none if not (`Waits`); a prompt in the channel, a
  turn, or its end on the way, exactly while the indicator is on (`Busy`); hence
  `PairedQuestions`. Its file (`FilesInv`): as long as no busy agent was
  replaced, the others rest and an idle one has on disk what it has in memory
  (`SavedWhenIdle`). After Esc the flag stays up until the turn is over (`Told`),
  which gives the action property `EscStopsTools`. `Rewound` is recursive over
  the messages; that it returns a session is shown by the least number of
  messages for which it would not.
* **`GuiWindowProofs`**. `WindowInv` and `ThreadsInv` are the types, `FreshInv`
  says that a tab never opened has nothing in its channels. `BusyInv`: what the
  events of a tab will have said when drained is what its thread does, and the
  indicator will say the same as the mark of the active tab, unless a prompt
  still waits. `AskInv`, as long as requests did not cross: each request is in
  one place, an event, a dialogue whose tab is `modal`, or an answer in the
  channel, and nothing else is there. The proof found two errors in an earlier
  form of the model: a limit on the index of the dialogue's tab that fails with
  three tabs once a tab is closed under a dialogue, and an answer kept after
  the next call had begun.
* **`MuxServerProofs`**. `LockInv`: the lock is held by the connection that
  replays or writes. `Sound`, for each session: a pipe goes on where the reader
  is and the transcript ends there (`Numbered`); a child that waits at its
  prompt has its sign in the pipe, with the reader, or noticed (`Quiet`).
  `Own` and `FitsIn`, for each connection: what a client saw last is before
  what it gets next. `ListSafety` and, as an action property, `OrderSafety`.
* **`BoundariesProofs`**, the policy. Lemmas on `Authorize`, one per kind of rule,
  hold for any policy, call and override; `Unasked`, `HookSafety` and
  `RulesMonotone` follow from them and from the type of the policy.
  `GateAgreement` compares a decision with the one taken with no hook and nobody
  to ask: a question is answered by the reply alone (`Answered`), and neither the
  reply nor a hook's "allow" changes what passes unasked (`AllowedUnasked`). It is
  proved, and was checked by TLC on the policies of the
  run, but is none of its properties. The action properties `ModeMonotone` (a higher mode takes nothing
  away) and `DenyLasts` (what a deny rule refuses stays refused) compare the
  decision before and after a change.
* **`BoundariesProofs`**, shells and consultations. What a shell has printed is
  in its pipe or read, what it has printed and will print ends with a character
  (`Written`), and until it has exited no result is given but at the limit. Among
  the ends of characters, each at most four bytes behind the one before, the
  greatest under the ceiling exists and is close to it (`CutToCharacter`):
  `ShellSafety`. The anonymiser: a map is `Sound` if each name has a placeholder
  that was given out and no two share one; entering words keeps what
  the map has (`Grown`) and adds what is to be hidden (`Covered`), word by word,
  phrase by phrase, text by text. So a phrase hidden twice tells no name, and an
  ordinary one comes back as it was, also if a later text made the map grow.
  `ConsultInv` carries this through scan, review and sending (`ConsultSafety`).
* **`BoundariesProofs`**, streams. No body has an empty line in it, nor LF LF where
  lines end with CR LF (`Single`); so the parser finds a separator exactly when the first
  frame in its buffer is whole (`SeparatorIs`), and what it parses then is the
  event of that frame (`ParsedIs`). `StreamInv`: for some number of frames,
  those have come, their events were handed on, and the buffer is what has come
  of the next (`Cut`, `Held`). A chunk may end several frames; that `Pushed`
  takes all of them is shown for each number it takes (`PushIs`), then carried
  over chunks and the end of the stream (`CutSafety`).
* **`FilesProofs`**, the session. The files are those of a rotation that may be
  under way (`DirFits`): each holds a run of messages, a later file a later run
  (`OrderFits`), and the main file, or the newest log while there is none, has
  what was saved (`LeadFits`, `TopHasIt`); what `cleanup` removes is never that
  one. `LogSafety` and `SessionSafety` have the hypotheses of the run as
  premises (`~Torn`, `~OpensAny`): without them they are false.
* **`FilesProofs`**, plugins. `Current` and `NotAhead` compare each
  record with the copy on disk and with what the program ships, wherever an
  operation is cut short; after `SyncOne` and `SyncStale` they are `InSync`, up
  to the updates in `cut` (`PluginSafety`).
* **`FilesProofs`**, credentials. As long as no two writers overlap
  (`overlapped`), one at most is between opening and renaming, the inode behind
  the temporary name is empty until it is written, and every root in hand has
  the entries of others (`FileStaysWhole`). With the server's view of valid
  tokens: the one on disk, or in the hands of the one process that refreshed, is
  valid (`TokensStayGood`). `LoginSafety` is both in the composition.
* **`FilesProofs`**, the prompt cache. `PromptsInv`: an entry is as old as its
  time says, whoever wrote it (`PromptSafety`). `Composition` says of all seven
  parts of `MCFiles` that the composition implements them.
* **`WorkspaceProofs`**, the REPL. `Balance` counts for each plugin what it was
  told against the runtimes that hold it, `Tracks` and `FilesHold` say which
  session a runtime writes and which turns its file has (`ReplSafety`).
* **`WorkspaceProofs`**, file tools. `EditsInv`: a promise is what the file holds
  until a call opens it (`EditSafety`); that pages of any size put together are
  the text is shown by the least place from which they would not be.
* **`WorkspaceProofs`**, summaries. The lines taken of one importance fit, and each
  that was left out would not have (`PickedTo`, line by line); so nothing is
  wasted, the rest is counted, and what is neat and fits is compressed to
  itself (`SummarySafety`). The attempt to prove this showed that compressing
  twice is not always compressing once, which the run had confirmed only because
  its texts and limits were too small: see the hypotheses of `CompressedOnce`.

Recursive functions are met in `AgentTab`, `Consultation`, `FileTools`, `Framing`
and `SummaryCompression`. Each runs over the length of one text or stream; that it exists, and
that a fact holds after each of its steps, is shown by the least number at
which it would not, from the well-foundedness of the numbers
(`WellFoundedInduction`), with the fact a fixed set instead of an operator.

**Only model-checked.** All liveness (`AgentOutcomes`, `TaskOutcomes`,
`AnswersArrive`, `RunEnds`, `ShellCallsEnd`, `TurnsEndWell`, `OperationsEnd`,
`RequestsAnswered`, `ThreadsEnd`, `RequestsAreAnswered`, `ClosedTabsEnd`) and
`ENABLED`, which the provers do not treat. `FileEdits` (a diff computed over
tables and searched by folds, and its patch) and
`LaterFilesWin` (values of settings are trees, merged by recursive operators) are
about what a computation over data returns; they would need an induction over
the data.

## 5. Disagreements seen without a run of their own
**Tabs and clients**
* After a compaction, `/rewind` over the turns that are left takes the summary
  of all earlier ones with it (`ui.rs:1272`).
* A forced abort asks the old thread to end by its cancel flag (`ui.rs:1326`).
  If that thread has not taken the prompt yet, it lowers the flag when it does
  and runs the turn unseen, and an Esc pressed before that is lost. In the
  graphical client an interruption between sending a prompt and its being taken is
  lost in the same way.
* Closing a tab removes its file, and the last save of its thread may bring it
  back (`ui.rs:747`).
* An agent that cannot build its client ends after one error; later prompts go
  to a closed channel (`worker.rs:187`).
* In the graphical client a prompt to an agent that has no client leaves the
  indicator on, the index of the tab being renamed is stale after a tab is
  closed, and an answer to a permission dialogue goes nowhere once a question
  has taken `modal_session`.
* A client of the multiplexer that is attached to a session is not told when
  the session is closed; lines sent together with the attach request are lost
  in the first of two buffered readers (`server.rs:238`, `server.rs:293`).

**REPL, sessions, plugins**
* Prompt mode never asks: modes are compared by their derived order
  (`permissions.rs:261`), in which it comes after full access; the label at
  `ui.rs:2077` says it asks.
* Any error of a command or a turn ends the REPL; `/plugins uninstall` of a
  plugin with a shutdown command is one, as the command runs in a directory that
  is gone. An initialisation that fails leaves the plugins before it started, and
  a shutdown stops at the first that fails.
* `/session close` of the active session under another name is undone by the
  next save.
* A line is appended to a session in two writes (`session.rs:423`): what a crash
  leaves of one makes the file unreadable.
* An update of a bundled plugin that is cut short is taken for whole later.
* `/context` compares the window with the tokens ever sent rather than those of
  the session (`main.rs:3039`).
* `/skills` and the Skill tool look at different directories in different order.

**Turn, providers, credentials**
* A helper that a hook's shell leaves behind with its pipes open holds the
  thread of the turn after the limit has killed the shell (`hooks.rs:799`;
  `hooks.rs:159` promises the opposite).
* A stream of an OpenAI-compatible provider that breaks off is delivered as a
  complete answer that ends with "end_turn"; its last frame without a blank line
  is dropped. Events that come in one chunk with a frame that cannot be read are
  lost with it. Two line feeds end a frame before an earlier pair of CR LF.
* All processes use one temporary name for the credentials; a logout is undone by
  a refresh under way; a process that dies between refresh and save takes the
  only valid refresh token with it.
* A hit in the prompt cache counts as contact with the provider; removing an
  expired entry may remove a fresh one.

**Tools**
* The trust dialogue of a worker is passed by any later screen with a ready cue,
  although a test (`worker_boot.rs:936`) names the gate "until resolved".
* A task that was stopped is set to "failed" or "completed" by its watcher.
* Two sessions in one worktree that are in plan mode can lose the mode before it.
* A manifest whose process id was given away stays "running" (`lib.rs:3700`).
* Edits of two agents at one file lose one; a crash or a full disk leaves a file
  cut short; `edit_file` has no limit of size.
* `make_patch` drops the hunks behind its ceiling without a mark
  (`file_ops.rs:515`). `grep_search` shows the context of near matches twice and
  applies the offset to the names of files too.
* Cell ids of a notebook may meet after a deletion; a torn list of todos makes
  every later TodoWrite fail.
* bash with a limit drops the future and leaves the command running; PowerShell
  with a limit does not read while it polls, so that more output than a pipe
  holds always ends in a timeout, and it waits for helpers beyond the limit;
  bash without a limit waits for helpers for ever.
* bash cuts stdout and stderr at 16 KiB each (`bash.rs:140`), with a mark but
  without a way to the rest (`persisted_output_path` is never set); PowerShell
  puts no ceiling on what it hands on (`lib.rs:5497`).
* Of two notices of omitted lines that say the same, compressing again drops
  one, and with it what it counted (`summary_compression.rs:114`).
* The prefix `"  - "` of a detail line never matches, since spaces have been
  made one by then (`summary_compression.rs`).

**Settings, consultation**
* A list of permissions in a later file replaces an earlier deny list, a value of
  the wrong type silently drops all rules, and `permissionMode` of an early file
  is stronger than `defaultMode` of a late one (`CONFIG.md:11`, `GUIDE.md:387`).
* One settings file that cannot be read lets a tab start without rules and
  hooks and with full access (`worker.rs:165`, `main.rs:755`; `GUIDE.md:226`).
* `use acme::Widget` is hidden twice and comes back as a placeholder, although
  `external_consult.rs:86` calls placeholders inert. A consultation that was sent
  and failed is not in the audit log (`main.rs:6688`), which is to have every
  decision (`CONFIG.md`).

## 6. Not modelled
* The LSP and cron registries and task packets: records that nothing acts on.
* The MCP tool bridge and the degraded start: outside tests nothing gives the
  bridge a manager. Recovery recipes, policy engine, trust resolver,
  `bash_validation` and the enforcer's `check_file_write` and `check_bash`:
  called by tests only, so there are no behaviours.
* The MCP servers (of the runtime and `cozby-mcp`): one request at a time, no
  state between them.
* Rendering, telemetry, system prompt, command-line parsing, slash-command
  tables and reports: text. HTTP and the callback server of a login: I/O.
* The test services: fixtures.

Within the modelled components, `PROJECT.json` says what each leaves out.
