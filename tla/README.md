# RedWhisk: formal models

RedWhisk is a desktop application (Tauri: a Rust backend under
`src/src-tauri/src`, a React frontend under `src/src`) in which a user keeps a
board of issues, has coding agents work on them in git worktrees, and closes an
issue by *completing* it: the agent's uncommitted work is dealt with, the branch
is rebased and merged or published as a change request, the worktree is removed,
the issue's status, its session and its flow are written in one transaction.
This directory holds TLA+ models of the parts of it where steps of several actors
meet, the TLC configurations that check them, and TLAPS proofs.

Contents: [Inventory](#inventory) · [What is hard](#what-is-hard) ·
[Modules](#modules-and-the-code-they-model) · [Runs](#runs) ·
[Fairness](#fairness) · [Proofs](#proofs) · [Findings](#findings) ·
[Left out](#what-is-left-out-and-why) · [Plan](#plan)

## Inventory

Paths are relative to `src/src-tauri/src` unless they start with `src/src`.

| Component | State it keeps | Operations | Talks to | Correct when |
|---|---|---|---|---|
| Completion decision machine (`features/issue/completion/state_machine.rs`, `closeout.rs`) | none: a pure function of phase, world and event | `advance`, `route_closeout`, `derive_completion_event` | called by both commands | every call ends in a question, a final phase, or effects that end the completion; only legal events are derived |
| Completion dialogue (`src/src/features/issues/issue-completion/completion-flow-client.ts`, `use_case.rs`, `flow.rs`) | client's pending answer; the `issue_completion_flows` row | `runCompletionFlow`, `waitForAgentCommit`; `complete_issue_flow`, `detect_agent_commit_completion` | client calls backend; the row carries answers between calls | an answer reaches the question it was given to; nothing is removed or discarded without consent; the dialogue ends |
| Completion execution (`effect_interpreter.rs`, `transaction.rs`, `git_reconcile.rs`, `publish.rs`) | flow row, `completion_attempts`, issue, session, worktree, branch | the effects: prompt, record, publish, reconcile, commit; upsert of the flow | git, the forge's command line, the agent's process | committed work is never lost; a completed issue's work is delivered; a failed attempt can be repeated |
| Issue service: status (`features/issue/service.rs`, `commands.rs`) | issue row, audit actions, activity | `advance_issue_status`, `mark_issue_review`, return to backlog | sessions, completion | a completed issue only goes back to the backlog; an issue and its session agree |
| Git worktrees (`git/worktree.rs`) | worktrees and branches on disk | create, restore, reconcile, discard, clean up | completion, sessions | a branch is deleted only when its commits are elsewhere |
| Agent sessions (`features/agent_session/service.rs`, `launch.rs`, `display_mode_switch.rs`, `agent/session_registry.rs`) | `agent_sessions` rows; handles and starting marks in memory | start, resume, change of the display mode, cancel, list (reconcile and clean up), exits, close a project | providers, terminals, issue status | row and process agree; a session that is starting is not declared lost; one process writes for a session |
| Agent event broadcaster, turns and delivery comments (`agent/agent_event_broadcaster.rs`, `features/issue/completion_comment.rs`) | turn columns of the session row, cursors, timeline log, sleeping tasks | persist an event, finalise a turn after its grace period, post a comment | providers push events; the completion asks `is_turn_in_progress` | the row follows the agent; no grace period is forgotten; comments go to the turns they are due to |
| Timeline: log, replay and message stream (`agent/session_log_coalesce.rs`, `features/agent_session/timeline_replay.rs`, `lifecycle/observe.rs`, `src/src/features/agents/message-stream`) | the log with the text held back; the view with its cursor, cached while another session is open | append, read a window behind a cursor, subscribe, merge | broadcaster, Tauri events | a view is a copy that lags behind the log; open permission requests are shown |
| Provider sessions (`agent/codex_app_server`, `agent/claude_streaming`, `agent/opencode_streaming`, ...) with the composer (`src/src/features/agents/composer/use-agent-composer.ts`) | thread, turn and child turns, pending requests; the process of the last message; the queued message and the view's status | send, steer, cancel, answer a permission; queue and send what was queued | child process over JSON lines | the end of every turn is told; one process works; a queued message is sent; a response reaches its request |
| Terminals (`agent/pty_session_manager.rs`, `src/src/features/terminals/terminal-live-pipeline.ts`; `features/project_terminal`) | PTY, restore buffer, subscribers, pending output; the surface's sequence numbers | spawn, subscribe, write, resize, kill; the reader, coalescing and exit threads; show and hide | Tauri events | a surface misses no output and writes it in order; nothing is emitted to a hidden one |
| Language hosts (`features/code_language`, `src/src/features/code/use-code-language-*.ts`) | one host per workspace with its phase and pending requests; the page's idea of what is ready and open | ensure, stop, didOpen, definition and references | child process over JSON-RPC, code page | one server per workspace shown; it knows the open documents; no answer from a server that still loads |
| TUI hook turns (`features/agent_session/tui_hook_turn.rs`) | hook files, offsets | derive turns of a terminal session | broadcaster's columns | as for turns |
| Git checkout, merge, remotes, change requests (`git/`) | the repository | single commands with an abort path | user | an aborted merge leaves the tree as it was |
| App update (`features/app_update`) | cached release | check, download | network | one fetch at a time, the cache is not older than promised |
| Archives, logs, timeline replay; settings, projects, profiles, skills; schema and migrations; user interface | rows and files | reads, writes, conversions, rendering | everything | no protocol of their own |

`PROJECT.json` repeats the list with the status of each component.

Interaction, in one paragraph: a Tauri command runs on a blocking thread with its
own SQLite connection; there is no lock around an issue. Two commands for the
same issue therefore interleave at every transaction and every git process. The
agent's process and the user change the worktree at any time. Providers push
events on reader threads into the broadcaster, which writes the turn columns the
completion polls. Handles live only in memory; rows survive a restart.

## What is hard

* **Reads that are old when used.** A command checks the issue it read on entry,
  runs git for seconds, and commits. Answers are persisted by one call and used by
  a later one, when the worktree has changed.
* **Partial failure.** Removing a worktree, deleting its branch and the completion
  transaction are separate steps; a crash or an error between any two must leave
  a state the next attempt can finish from.
* **A protocol in one endpoint.** Every call carries optional answers; the backend
  decides from the persisted phase which question they answer, if any.
* **Turn state written by several statements.** A start is two UPDATEs, an end is one
  plus a task that sleeps for the grace period; cancellations come from another
  thread, and providers report ends twice or go on working after one.
* **A source written before the turn it is for.** The origin of a turn is a column of
  the session, overwritten by the next message and read when a turn ends.
* **In memory against on disk.** Handles, terminals and starting marks against `running` rows,
  read one after the other by a listing that then writes.
* **One turn state for many processes.** A provider that is started per message leaves threads behind which read and wait
  for earlier processes and write the same turn and the same "the end was told".
* **Check, release, act.** The registry of language hosts, the exit callback of a terminal and the clean-up of
  ended sessions all decide under a lock and act after it.
* **Streams with replay.** Sequence numbers, epochs and log offsets (timeline), a
  replay buffer and coalesced output (terminals).

Each of these is a row of `PROJECT.json` "hazards", with its line and the
properties aimed at it. Two have none that holds: a commit attributed to an older
prompt (`DetectedCommitIsNew`, `FlowOldPrompt.cfg`) and the branch of a missing worktree (`MissingUnmergedBlocks`, `DialogueMissing.cfg`);
the code lets both happen, and so it does a completion after a "no" to going on (`DeclineDoesNotComplete`, `DialogueDeclined.cfg`). Where a property
covers a hazard only in part, because it excludes a deviation by name, the row's note says what is excluded.

## Modules and the code they model

```
CompletionMachine        the decision: a pure operator
  <- CompletionDialogue    client loop + both commands as atomic calls, any facts
       <- MCCompletionDialogue
  <- CompletionFlow        the commands step by step, agent, user, faults, crashes (implements IssueBoard)
       <- MCCompletionFlow
IssueBoard               what the board promises of an issue and its session
AgentTurn                the turn columns, the provider, finalizers, comments
SessionLifecycle         rows, handles, marks, terminals, processes of an issue's sessions
  <- MCSessionLifecycle
LaggingCopy              what a message stream promises
  <- TimelineFeed          log, cursors, events and view (implements LaggingCopy)
TerminalStream           reader thread, subscriptions, surface
LanguageHosts            registry, hosts, servers, code page
  <- MCLanguageHosts
ProviderSession          processes, threads, turn state and composer of Claude and OpenCode
*Proofs                  theorems about the module they extend (CompletionMachine's: in CompletionDialogueProofs)
```

**CompletionMachine.** `Advance(state, world, event)` is `advance` with the same
helpers under the same names (`BeginDetection`, `DecideDirty`, `AfterDirty`,
`Reconcile`, ...); a result is a state and a sequence of effects. `FoldInput`
and `DeriveEvent` are the two steps before it, `Persisted` is what survives the
row. Branch names, messages and prompt texts are left out.

**CompletionDialogue.** Question: is the conversation sound whatever the backend
finds? The client (`Start`, `Answer...`, `Poll...`) follows
`completion-flow-client.ts`; a call is atomic and the facts (`Facts`) are chosen
anew at every call, which covers everything the agent, the user and git do in
between, restricted to what `gather_completion_world` can return: a missing
worktree reads as being on the target branch, for instance. `Execute` is
`interpret_effects` with one possible failure. `said` and `last` are history.

**CompletionFlow.** Question: is the work safe when nothing is atomic? A command
is a record with a program counter. `Enter` reads the issue and the session, `Load`
the flow, `Decide...` runs the machine on the git facts of that moment
(`FlowWorld`), then each transaction and each git process is an action named for
it (`Discard`, `Rebase`, `FastForward`, `RemoveWorktree`, `DeleteBranch`, `Commit`,
`Persist`, `Shutdown`). Work is a set of edits that moves between places: dirty,
on the branch, on the target, in a request, discarded, lost. Each step may fail
(`Failure`), the process or the application may end (`SessionExits`, `Crash`).
`Guarded` and the conditions in `Commit` and `Rollback` are the WHERE clauses of the
updates, chosen by what was read on entry, as in `transaction.rs`.
`past.lateEdits` and `past.lateCommits` name the work nothing could take notice
of any more: an edit made after the check that the worktree is clean, a commit
made after the fast forward. `past.waived` is what the user gave up by deleting
the worktree. `IssueBoard` is the promise in four atomic actions on the status and the session's status: an issue moves while it is not completed,
it is completed with a session that is there, it returns to the backlog and its session goes, a session ends. A command reads both on entry and writes
many git processes later; `ActsInOneStep` says that nothing of this shows as long as commands do not overlap.

**AgentTurn.** Question: does the row follow the agent, and who gets a comment? An
event is a sequence of statements (`Started`, `Completed`, `EmptyError`, `Stopped`,
`ActiveWork`: the branches of `TurnRunningDecision`); a thread executes them
one commit at a time holding the log lock, as `persist_stream_event` does.
Finalizers and posts are sets of pending tasks. Each statement is one action with the WHERE
clause of its UPDATE: all but `clear_turn_ended_at` ask for `status = 'running'`.
Stamps are counted instead of read from the clock. The provider is external: it is
restricted to what `build_events` and `cancel_turn` of the Codex session let
through, spurious ends included. `past.odd` records the deviations that excuse a
row that does not follow: an end reported twice, a cancellation that found no
turn, a finalizer between the two statements of a start. The invariants named
`Orderly...` hold without them; `GraceHasFinalizer` holds in any case.

**SessionLifecycle.** Question: does what the database says of a session agree with the
processes that serve it? `row` are the `agent_sessions` rows, `handle` and `starting` the two tables of
`session_registry.rs`, `pty` the terminals. A command thread stands at a step of the code between
two of its locks or transactions: a start is `StartSession` (the row, committed as running),
`MarkStarting` (structured sessions only), `Spawn`, `RegisterHandle` or `RegisterTerminal`,
`ClearMark`; `ResumeSession` and `SwitchMode` begin elsewhere and share the rest. Every `?` of the code is
an action of its own (`SpawnFails`, `ProviderFails`, `ReadFails`, `TerminalRefused`, `InputFails`,
`SwitchTimesOut`), with the undoing the code does for it (`Unmark`, `RollBackRow`, `RestoreMode`).
`ListRunning` ... `StopLost` is the reconciliation of a listing, with the looks at the terminals and at
the registry as separate steps, and `ListRegistered` ... `ShutEnded` its clean-up. `Exits`, `Reap` and
`RecordExit` are the process and the thread that waits for it. `odd` names why row and process may differ: a race
(one of four, at the definition of `Deviations`), overlapping commands of one session, an error that leaks a mark.

**TimelineFeed.** Question: does the screen show what the agent said? A thread says something in two
steps: number and append it to the log (`SayEntry`, `SayText`, `Ask`, ..., the frames of
a growing text held back by `PersistText` as `session_log_coalesce.rs` does), then emit it (`Deliver`).
The view opens (`Open`), the command reads the lines behind the cursor (`Read`: the
window, the last line of each entry, the open requests, or the quiet path of `observe.rs`), the answer is merged into what is shown, but for the requests, which it replaces
(`Apply`), then it subscribes (`Subscribe`), takes events at the next frame
(`Flush`) and is kept when another session is shown (`Close`, `Evict`). An offset is the number of a line.
`odd` names what makes the view differ from what was said. `LaggingCopy` is the promise
without any of this: a copy that may be behind, never ahead, never goes back, and may be forgotten
as a whole. `LagsBehind` is its specification under the mapping of `original` to what was said and `copy` to the
entries on the screen, where a view to which something odd has happened counts as forgotten.

**TerminalStream.** Question: does a terminal that is hidden and shown again show all output, once and in order?
The reader's chunk goes through `ReadChunk`, `PushRestore`, `LookForSubscribers`, `QueueChunk` and
`FlushChunk`, one for each lock of the loop, and `CloseLog`, `LookAtEnd` and `ReaderEnds` are its end; `Tick` is the coalescing thread;
`LookBeforeRemoval`, `RemoveSession`, `RemoveSubscribers` and `ExitFlush` are the thread that waits for the end, lock by lock.
`log` is what the log's writer was given and `disk` what is in the file: the writer holds back some kilobytes, and a reader of the file has them
written first only while the session is registered (`RunCall`, `ReadSnapshot`). A session without a log (`keeps` is false: the terminal of a completed review)
leaves the file as it was. What is taken under the lock of the pending output is in `hands` until
it is emitted. The surface (`Show`, `Restore`, `ReadSnapshot`, `WriteHistory`, `Ready`, `HandleOutput`,
`Frame`, `Hide`) is `terminal-live-pipeline.ts` with its three sequence numbers. Its calls run in order on the main thread
(`calls`). The code may lose output in several places, and each adds the chunks it loses to `lost`: a chunk nobody subscribed to after the session was
removed (`LookForSubscribers`), one that is pending when nobody is subscribed at the end (`FlushOrDiscard`), an event that another thread overtakes with a larger number (`Emit`), what
the file does not hold though the restore's number covers it (`ReadSnapshot`: a log that is discarded, or not flushed), what fell out of the queue
(`HandleOutput`), a frame dropped by hiding (`Hide`), what came before a surface that could not catch up (`CatchUpFails`). The properties say that nothing else
is missing. `odd` says how the screen came to repeat something: a file that was ahead of the number, an event that began before it, a surface that
went live at a number its screen does not end with.

**LanguageHosts.** Question: is there one server for the workspace on the screen, does it know what is open, and
does it answer only when it can? `slot` is the map of the registry; a call is a record with the step
at which it stands between two locks: `ReadyStatus`, `StopOtherWorkspaces`, `SpawnHost` and `InsertStatus` are the four
pieces of `ensure`. A notification waits for the handshake holding the registry (`NotifyDocument`, `lock`). `ReadMessage`
and `ReaderEnds` are the host's reader, `Opened` and `AwaitReady` the readiness of `readiness.rs` with its grace
period, `ActivateTab`, `OpenDocument` and `RequestDefinition` the hooks of the page. The server is external and free in
when it loads, answers and ends.
`odd` holds the separations of page and server, and the slips by which a request reaches a server that loads.

**ProviderSession.** Question: does every turn of a provider that is started per message come to an end the user sees, and
what becomes of a message typed meanwhile? `send` says for each caller of `send_message` between which of its steps
it stands (`ShutEarlier` for OpenCode only, `Spawn`, `Reset`, `Listen`, `Store`), where a caller is the composer of one mounting of the view, or
the completion (`Inject`, which waits for no turn). A process (`PrintLine`, `Exit`) is external; it is followed by the thread that reads (`Drops`, `Read...`,
`ReadEnd`) and the one that waits (`HandleExit`, `ReportFailure`: the turn state and the report are separate steps). A stop is `Stop` (Claude reads
the turn), `Kill`, `ReportCancel`. `view` is the reducer's status and the row of the session's list, of which either makes a turn
(`Effective`); `Queue`, `SendQueued`, `Leave` and `Enter` are the composer with its module-wide cache. The handler and the subscription of the end are
set in one step with the announcement of the turn. The row is AgentTurn's, reduced to live and in grace. `past.odd` says what has
crossed (the list is at `Deviations`); a behaviour is followed up to the first of them (`CONSTRAINT Orderly`), and none is
excused from the properties by anything else.

## Runs

State counts are distinct states; each run takes from a second to some three minutes.

| Run | Bounds | States | Shows |
|---|---|---|---|
| `dialogue` | all kinds of project, 2 runs of the client, bounded polls and agent commits | 18 499 | answers but the one whether to go on are taken for what they are, no call is rejected by the machine, consents are asked, no work that was read as differing is left behind, every run ends |
| `flow_one` | one command at a time of every kind but the deletion of the worktree, 2 edits, forge asked for, 1 prompt, 1 fault | 192 250 | commits and edits are safe, work is delivered, the process ends with the issue, no half-way flow stays; the issue and its session change in the steps of `IssueBoard`; a user who insists completes the issue |
| `flow_two` | 2 commands of every kind overlapping, 1 edit, target not checked out | 1 608 639 | no commit is lost that a fast forward could have seen |
| `turn` | 1 follow-up or commit prompt, 1 cancellation without a turn | 1 170 380 | no forgotten grace period, the row follows the agent, comments are due |
| `sessions` | 1 session, 2 commands, 2 processes, no restart | 1 168 920 | no working session taken for lost, one writer, marks released, issue and session agree |
| `sessions_live` | 1 session, 1 command, 2 processes, 1 restart, fair | 32 892 | a row nobody serves is stopped, a process whose row ended is shut |
| `timeline` | 4 events, 2 openings, stride 2, window of 1 tool call | 3 631 381 | the view catches up, its cursor covers what it skips, the log is complete but for the text held back; refinement of `LaggingCopy` |
| `terminal` | 2 chunks, 2 shows, 1 event before the history, with and without a log, fair | 906 715 | nothing is missing but what is recorded as lost, and nothing doubled but for the reasons named; a hidden terminal is silent; all else arrives |
| `language` | 2 workspaces, 2 servers, 4 calls | 1 934 242 | one server, documents known to it, no early answer |
| `provider` | Claude and OpenCode, 2 prompts, 1 stop, 2 views, 2 steps, fair | 909 767 | the end of every turn is told, one process works at a time, a queued message is sent |
| `flow_reopened`, `session_lost` | smallest that shows it | | violations: see Findings |

Why the bounds are enough for what they are used for:

* *Commands.* Every conflict between commands is between one that has read and one
  that writes, so two are needed and a third only repeats the second; the proofs
  hold for any number.
* *Edits.* Two edits let one be merged and another be late or discarded; with two
  commands one edit suffices for each to find it in every place.
* *Faults* (`MaxFaults`) count failed steps, refusals, restarts, a soiled target and a user
  who starts over. With one, every step fails once on every path.
* *Prompts* (`MaxPrompts`): a second prompt is what `FlowOldPrompt.cfg` needs.
* *Runs, polls, agent commits* (`MaxRuns`, `MaxPolls`, `MaxAuto`): the second run meets whatever
  the first has left in the row.
* *Messages and cancellations* (`MaxMessages`, `MaxCancels`): two turns are enough for the finalizer
  of one to meet each statement of the next. More end reports need no more turns:
  `SpuriousEnd` gives several ends, and finalizers, to one turn. The stamps of a
  run are bounded by its turns.
* *Sessions, processes, restarts* (`Sessions`, `MaxProcesses`, `MaxRestarts`): an issue has one session that is not deleted, so what
  concerns sessions concerns one; two processes are the old and the new one. Restarts are in
  `sessions_live` and, for any number, in the proofs.
* *Events and openings* (`MaxEvents`, `MaxOpens`): the first opening fills the view, the second comes back to the
  cache. Four events are a text with a frame held back and two lines of other kinds around a close; with
  the stride 2 a frame can be held back, with the window 1 an older tool call falls out of it.
* *Chunks and shows* (`MaxChunks`, `MaxShows`, `MaxQueue`): one chunk before and one after any step of the surface; the second
  show finds the screen and the subscription the first has left. The proofs are for any number.
* *Servers and calls* (`MaxHosts`, `MaxCalls`): an old and a new server; four calls are an ensure for each of two workspaces, a document and
  a request (a stop or a return to the first workspace takes the place of one of them).

* *Prompts, stops, views, steps* (`MaxPrompts`, `MaxCancels`, `MaxViews`, `MaxSteps`): two processes are the earlier and the current one;
  the second view is the one the queued message is restored in; two steps of OpenCode let one finish and the
  process work on. Text is not counted. `Backlog` bounds what a process prints ahead of its reader and of the view, not what a
  stop or an exit adds to it.

`TypeOK` is not among the properties of the runs: for CompletionDialogue, CompletionFlow, AgentTurn, SessionLifecycle and TerminalStream theorems state it, and elsewhere it
gives the reader the types of the variables (it holds in the bounds of `timeline`, `terminal`, `language` and `provider`).

Deadlock checking is off where the system may rest: an issue that is completed, a
session that has ended, a client that is not used again, a view with nothing to show.

The settings are covered by different runs: `dialogue` takes all of them at once,
`flow_one` the project with a forge and a question, `flow_two` the
worktree whose target is not checked out. Symmetry is used in `sessions` (command threads) and `language` (workspaces), which have
safety properties only.

## Fairness

* `dialogue`: weak fairness of calls, of answers and of polls. A Tauri command that
  was called returns, a modal dialogue is answered sooner or later, and
  the poll is a timer. Nobody is assumed to *start* a run.
* `flow_one` (`FairSpec`): weak fairness of every running command's next step (a thread of the
  backend), strong fairness of the user's call with any of the answers the
  flow can be waiting for, and weak fairness of cleaning the target's checkout. The last two are
  an assumption about the user, "a user who insists", and `EventuallyCompletes` is about
  such a user: without it nothing obliges anybody to complete an issue. A user who moves the issue elsewhere instead (`to_running`, `to_review`,
  `rollback`) asks for something else, and the property says nothing of the sequel. Failures and crashes are not
  fair; their number is bounded by `MaxFaults`.
* `sessions_live` (`FairSpec`): the threads of commands and the threads that wait for processes go on, and the
  list of sessions is asked for again and again (the views poll it). Processes need not end and
  nobody need ask for anything.
* `terminal` (`FairSpec`): the reader and its emissions, the tick of the coalescing thread (a timer), the surface's
  handler and its animation frames. Nothing is assumed of the process, of the calls `Show` and `Hide`, or of the catching up.
* `provider` (`FairSpec`): some thread of the backend goes on while one can, an event arrives, the list is refreshed or the view's effect runs while
  any of these is due, a process ends some day (also one that prints for ever), and a user who has left comes back. The scheduling of threads justifies more
  (each by itself goes on), which is not needed. Nobody need submit, stop or leave.
* `AgentTurn`, `TimelineFeed` and `LanguageHosts` have no fairness and no liveness property: what should happen
  eventually is stated as safety at the points of rest (`GraceHasFinalizer`: the task exists; `OrderlyQuietMeansIdle`, `CaughtUp`,
  `OneServer`: nothing is left to do and yet ...).

## Proofs

TLC checks small instances; these hold for all values of the constants, from the
named assumptions of each module (`BoundsAssumption`, `FlowAssumption`,
`TurnAssumption`, `LifecycleAssumption`, `FeedAssumption`, `StreamAssumption`, `HostsAssumption`, `ProviderAssumption`: types of the constants only).

| Theorem | States |
|---|---|
| `AdvanceTyped`, `AdvanceEnds`, `AdvanceSettles`, `DerivedEventLegal` (CompletionDialogueProofs, about CompletionMachine) | a decision is well formed; it ends in a waiting phase without effects on the work, in a final one, or in effects that end with the completion; one that is about a worktree read as differing from its target, or as missing with an unmerged branch, completes only with a merge or a published request, or after a no (the backend never reads a missing worktree as differing, so that for it this is a fact of the machine only); an event derived from a call is legal in its phase |
| `DialogueTyped`, `CleanupConsented`, `CallsLegal`, `AnswersTakenAsGiven`, `DirtyConsented`, `WorkSettled` (CompletionDialogueProofs) | types; no external worktree reconciled by a call without consent; no call is rejected by the machine; every answer but the one whether to go on is taken for what it is, and that one becomes a new detection; a detection that finds uncommitted work completes only with the user's consent; an isolated worktree read as differing from its target is completed only merged, published, or after the user declined |
| `FlowTyped`, `CommitsKept`, `CompletionDelivers`, `EditsKept` (CompletionFlowProofs) | types; no commit lost with its branch unless late or given up; a completed issue is delivered; uncommitted edits are discarded only after the user chose so, unless late or given up: for any number of overlapping commands, edits, faults and crashes |
| `AgentEnded`, `RowCleared` (CompletionFlowProofs) | one command at a time: once an issue with a worktree of its own is completed and its commands are done, no agent works; a completed issue leaves no flow row half-way |
| `BoardIsFollowed` (CompletionFlowProofs) | one command at a time: `Spec => ActsInOneStep`, CompletionFlow implements IssueBoard |
| `TurnTyped`, `GraceNotForgotten`, `LiveShown`, `QuietIdle` (AgentTurnProofs) | types; every grace period has its task; a running turn is shown; a quiet, orderly session is idle: for any number of messages and cancellations |
| `FollowUpsNotCommented`, `DeliveryIsCommented` (AgentTurnProofs) | as long as no message is sent during a turn, a follow-up gets no comment without a tag, and every completed turn of a first message or a commit prompt gets one |
| `LifecycleTyped`, `LiveIsNotLost`, `WriterIsOne`, `MarksAreReleased`, `IssueFollows` (SessionLifecycleProofs) | types and all four safety properties of `sessions`, for any number of sessions, commands, processes and restarts |
| `LogKeepsUp` (TimelineFeedProofs) | the log is behind of no text but the one held back, or cut off, last, and by less than the stride: for any stride and number of events |
| `NothingIsLost`, `RequestsAreShown`, `CursorIsSafe` (TimelineFeedProofs) | a view that has taken all its events shows all that was said, and every open request; the lines behind a cursor are on the screen: for any window, stride, number of events, openings and evictions |
| `StreamLags` (TimelineFeedProofs) | `Spec => LagsBehind`: TimelineFeed implements LaggingCopy |
| `HiddenStaysSilent`, `NothingIsMissing`, `ScreenIsContiguous` (TerminalStreamProofs) | a hidden terminal whose calls have run is not subscribed and has at most one chunk pending, whatever it was doing when it was hidden; a live surface that rests has on its screen all output but the chunks recorded in `lost`; as long as `odd` is empty the screen is in order, without repetition, and with holes only of such chunks: for any number of chunks, shows and sizes of the queue |
| `AnswersAwaitLoad`, `ServerAlone`, `DocumentsTold` (LanguageHostsProofs) | no request takes an answer from a server that loads, but for the slips; once the calls are done, and unless one has overtaken another, no server runs but the one of the page's workspace; it was told of what the page takes for open: for any number of workspaces, servers and calls |
| `EndsAreReported`, `WorkersAlone`, `SessionTyped` (ProviderSessionProofs) | up to the first deviation: whatever a turn dies of, its end has been told when its process is over; one process works at a time; types: for any number of messages, stops, views and steps |

The arguments:

* *Dialogue.* `ConsentKept` says where a consent lives between the user's answer and the
  effect: first in the next call's input, then in the row. With it
  the consent invariant is inductive. `AnswerInv` does the same for the other answers: the question that is open, or whose answer is in the
  input of the next call, is the one the row's phase asks (`QuestionOpen`), and no input and no row holds an answer that was not given (`AnswersSaid`).
  `AnswerReachesQuestion` says what the next call makes of the answer (`Heard`): its phase is the question's, so the answer is read. The answer whether
  to go on is the exception: no phase the row is left in waits for it (`ContinueUnasked`), so either answer is heard as a new detection.
  `NothingLeftBehind` rests on `AdvanceSettles`, a fact of the machine alone, about what it was told.
* *Flow.* `CommittedWorkSafe` is not inductive: deleting a branch is safe only
  because of what was merged three steps earlier. `WorkInv` adds that every commit of the branch is on
  the target, in a request, late or given up (`Safe`) once a command is at the removal, the
  deletion or the completion, once the worktree is gone, and once the issue is
  completed. A commit made from then on is late by definition, a fast
  forward establishes `Safe`, and the worktree never comes back. `Own` shows the machine does
  not take a worktree straight to the completion. On the current branch (`Home`)
  commits are on the target at once. For edits, `EditInv` says that until the user has said so no call, no command and no row
  skips what is uncommitted, so that none discards (`Unasked`), and that what is uncommitted when a command is about to fast-forward or to remove the
  worktree came late or was given up (`Marked`). With one command at a time, `SoleInv` lists the steps a command can be at once the issue is completed, none of
  which writes a row (`Cleared`), and says that a process whose session has ended is left only to a command that is about to shut it down
  (`Watched`): a detection, which shuts none down, never gets to the completion of an issue with a worktree of its own (`Places`).
  For the refinement `Assigned` adds that the session a command completes is there until it does, and that an issue in the backlog has none; besides the
  one command only a review, an exit or a crash write them.
* *Turns.* `Shape` ties the lock to the thread that is half-way through its event, so
  that each statement knows what precedes and follows it (`Executed`). With it
  `GraceHasFinalizer` is inductive together with "a closed session is in no turn". `Follows` gives, for each point
  between two statements of an orderly session, what the row shows; `Stamped` (no
  end is NULL) keeps a finalizer off a row that is not in its grace period. The two theorems about the
  row follow at the silent points. For comments, `SourceInv` says that while no message overlaps a turn there is one message at a time
  (`OneAtATime`), whose source is in the row until its turn is persisted (`SourceOfTurn`) and goes from there to the handler and its comment
  (`SourceOfComment`, `Delivery`).
* *Sessions.* `Inductive` has four layers. Which command can be at which step (`Kinds`, `Alone`: a session that is
  not overlapped has one command; `Marks`) and what the row is meanwhile (`RowsFit`, `OneSession`) give `MarksReleased` and
  `IssueFollowsSession`. `Registered` and `Owned` say that a living process is in a table, or in the
  hands of the one command that spawned it, and `Quiet` that a command which spawns has found both tables
  empty: that is `OneWriter`. For `OrderlyLiveNotLost` processes are numbered in the order of their
  births (`BornInOrder`, `Latest`, `Fresh`, `ReapedIsDead`), so that a late exit is known to belong to a predecessor,
  `ListedFit` and `Looked` say what a listing still knows of a session it has looked for, and
  `Attended` that a served session's row runs unless its command is about to see to that.
* *Timeline.* The log's longest line of the text that is held back is as long as `pending` remembers, which is less than the stride
  behind what was said (`HeldBack`); every other text is whole in the log (`OthersWritten`), since it is written before
  `pending` is given to another. What a view knows is stated line by line: the version of an entry in a line of the log is shown, or
  an event on its way brings it (`LinesCovered`), and an event moves the cursor past no line that is not shown, or brought by an event said no later
  (`OrderCovered`). `SayInv` is about the log and what was said, `WayInv` about what is emitted or about to be (events come in the order
  they were said, and with growing versions, unless two were disordered), `ViewInv` about the view, where the answer of a read counts as applied: it has
  every last line of an entry behind the cursor (`InWindow`). The same for requests is `AsksCovered`. `FeedInv` puts them
  together and is the invariant of the refinement too: what is merged takes no entry back (`Forward`), and
  what is shown was said. What a view makes of a batch of lines or events is a fold; it is written as a function of the
  length, and the facts about it are proved for the least length at which they would fail (`LeastNat`), which takes the place of induction.
* *Terminal.* The calls of a surface run later than they are made. What is inductive is that they take turns (`Alternating`),
  that the last one made takes the subscription back exactly when the surface is hidden (`LastCall`), and that a call which
  subscribes never meets an older subscription (`Balanced`). For the output, numbers are followed from the reader to the screen:
  what is pending, in the hands of a thread and on the wire is sorted (`Sorted`), every chunk above the number the surface counts on
  is among it (`Covered`) or lost, up to the number it counts as seen a surface has everything that is not lost (`Full`), and where nothing odd happened it ends with
  that number, or will notice the difference (`Tight`). An event that overtakes others takes their chunks out of what is to come, which is why they are recorded
  when it is emitted. `SurfaceInv` is all of it.
* *Language.* What the host believes of the load and what the server does differ by the messages on their way; `Fits` says for
  each phase which of them there can be, and `Steady` that it holds for every host unless a slip has happened. The host of a
  request that passed its check stays idle, or stopped, until the request is written (`Checked`), so that no answer is early (`NoneEarly`).
  `PageInv` says that as long as no call has overtaken another a server that runs is in the slot of its workspace or in the hands of the ensure that
  started it (`OwnedBy`), that a workspace with a host or an ensure is the page's, or has a stop on its way (`Leaving`), and that one ensure at
  most is past its look at the slot (`One`). `ToldInv` adds, while nothing separates the page from its server, that what the page takes for ready runs
  (`ReadyRuns`) and that what it takes for open was told to the server or is in a call on its way to it (`Known`).
* *Providers.* The one turn state of a session is written by the threads of several processes. `Owned` says, for every process with a turn, whose
  business the end of it is while it is not told: the reader's and the waiting thread's as long as the turn is current and not finalized, the report's
  once a failure is decided, the stop's once it has killed the process. When a process is over nobody is left, so the end was told. For `OneWorker`,
  `Alone` says that a process which works is the one that is stored or being sent, and, once a sender is past shutting the earlier process, its own. That
  is inductive for OpenCode. Claude shuts none, so the composer must not send while one works: it sends when the row is not live, and `Followed` says that
  a turn that is not over has a live row (or a send that is about to announce it), and that what works has the current turn. A failure that is decided and
  not reported still owes the row its end, so nothing may start meanwhile (`FailureDue`, `Visible`). This last part is what a run of two messages is too
  small to need; the theorem is about any number.

Only model-checked: liveness (`EventuallyCompletes`, `DialogueEnds`, `LostIsNoticed`, `StrayIsShut`, `Shown`, `QueuedIsSent`), which TLAPS does not do under
fairness. Every invariant and every other property of the passing runs is a theorem.
`AgentEndsWithIssue`, `RowClearedWhenCompleted` and `ActsInOneStep` are checked in `flow_one` only, and proved under the assumption that commands do not
overlap: they are not promised for overlapping commands (see below). `DeliveredWhenCompleted` and `UncommittedWorkSafe` are checked there too,
and proved for any number of overlapping commands.

## Findings

Each is a run that TLC must find violated; `PROJECT.json` quotes the statement it disagrees with.

1. `flow_reopened`: a status change that read the issue before its completion writes it back to running. (`ActsInOneStep` is what holds
   while commands do not overlap.)
2. `session_lost`: the start of a terminal session sets no starting mark, so a listing between its row and the
   registration of its process takes it for a leftover of an earlier run of the program and stops the row; the agent starts
   nevertheless. `odd` calls this a race, and `OrderlyLiveNotLost` is what holds otherwise.

The following deviations are described by a property and a configuration that shows them (`tlc -config X.cfg M`), and are
not among the runs of `PROJECT.json`, which are kept few:

* `DialogueDeclined.cfg` (`MCCompletionDialogue`): answering no to "go on marking it completed?" starts a new
  detection, which completes the issue.
* `DialogueMissing.cfg` (`MCCompletionDialogue`): a missing worktree reads as being on its target branch, so the machine never
  gets to the check that blocks an unmerged one.
* `DialogueDrift.cfg` (`MCCompletionDialogue`): a detected commit takes the worktree the agent drifted into for
  RedWhisk's own and removes it without asking.
* `FlowOldPrompt.cfg` (`MCCompletionFlow`): a detected commit is compared with the oldest open prompt, not with the latest.
* `TurnStuck.cfg` (`AgentTurn`): a cancellation that finds no turn, persisted before the queued end of
  that turn, leaves `is_turn_running = 0` with an end that the finalizer's
  condition rejects. `is_turn_in_progress` then stays true, and the completion waits for
  a turn that is over. The same state follows from an end reported twice.
* `TurnCanceled.cfg` (`AgentTurn`): an interrupted Codex turn is reported as completed and commented
  as a delivery.
* `TimelinePermission.cfg` (`TimelineFeed`, `PermissionsRestored`): a view that returns to a quiet session takes the short path of
  `observe.rs:79-86`, which reports no open permissions, although a request may have been asked since the last line it knew; the comment at
  `src/src/features/agents/message-stream/use-agent-message-stream.ts:343` says they have to be brought back even without new text.
* `TerminalHidden.cfg` (`TerminalStream`): a surface that is hidden with a frame pending counts the frame's output as seen; shown again without
  new output it does not write the history, against the comment in `becomeVisible`
  (`src/src/features/terminals/terminal-live-pipeline.ts:89`; `docs/architecture-design/tui-terminal-rendering.md:211`).

Behaviour seen in the models without a run of its own, since no statement
of the repository contradicts it or a property names it as an exception:

* A commit made between the fast forward and `branch -D` goes with the branch
  (`past.lateCommits` in `CommittedWorkSafe`).
* On the current branch a detected commit completes the issue and leaves the agent's
  process running; the polling command has no shutdown.
* The answer "skip" is persisted with a blocked attempt and applied again by the next, to
  whatever is uncommitted by then.
* Two overlapping completions may both run their transaction. A command that overlaps a completion may write back the flow it loaded before, so that a
  completed issue keeps a half-way row (`RowClearedWhenCompleted` is about one command at a time).
* A message sent during a turn overwrites its source: a follow-up during which a
  commit prompt is injected is commented, and a first turn during which a message is sent
  is not (`overlap`).
* Some errors between the starting mark and the registration leave the mark (`"leak"` in SessionLifecycle:
  `service.rs:1859`, `launch.rs:80`, `relaunch.rs:53`); such a session can neither be resumed nor be
  reconciled until the program restarts.
* A terminal's output may not come to its screen (`lost` in TerminalStream). If the process exits between the restore of a surface and its reading of the file, the log's
  buffer is not written before the file is read, and the events that carry the rest count as seen. The terminal of a completed review keeps no log: what it writes while
  hidden is not shown later. Output that is read when the thread that waits has removed the session reaches nobody but the file.
* The exit of a terminal's process is recorded by session, so that a late one marks a row that was resumed meanwhile as
  ended. A failed start puts the issue back to the backlog whatever it is by then. A handle that is replaced drops its process. An agent that
  registers after its project was closed stays.
* What is emitted between the read of the log and the subscription does not reach the view until it is opened again (`"gap"`); a view returning with
  a null cursor reads nothing (`"blank"`); a merged read can take a text back to an older version (`"unflushed"`); a shutdown
  drops the text held back (`"cut"`).
* Two calls to ensure a language host that overlap replace or end each other's host; a stop that overtakes an ensure, or is
  overtaken by it, leaves a server too many or none (`"overtaken"`).
* A page that comes back to a workspace it takes for ready opens its documents before the new host is there, and never again
  (`"returned"`); after a server ended by itself they are not opened again either (`"ended"`).
* A request checked during the handshake and written after a `didOpen`, or after a `didOpen` during another load, which opens no new
  grace period, is answered by a server that still loads (`"checked"`, `"unseen"`).
* The end of an earlier Claude or OpenCode process (whose output may be held open by what it started, or which lingers after its
  result) takes the turn state of the current one: the next turn is reported as failed while it runs, and its own failure or stop is silent;
  a failure that is decided, overtaken by another end and reported late takes the next message's row with it, after which the composer sends
  a second message beside the first (`"crossed"`). A process whose output ends before `subscribe_eof` never fails its turn (`"missed"`).
* OpenCode's step counts as the turn: a process that dies in a later step says nothing, since `step_start` does not
  take back `turn_finalized` (`"midway"`); a message sent between two steps kills the process in its work (`"cut"`).
* A stop between the reset and the storing of the process reports the turn as canceled and leaves the process alive (`"unstored"`); one whose turn
  ended and was followed by another kills the new process in the name of the old turn (`"slipped"`). Text read after a stop makes the row live again, with
  nothing left to end it (`"late"`).
* A send that returns clears the cache of its session, and with it what a composer opened meanwhile has queued (`"wiped"`).
* A notification holds the registry while it waits for a handshake, up to eight seconds; requests pending when a host ends are answered by
  their own timeout only.

## What is left out and why

* *CompletionFlow*: an issue without a session (completed in one transaction);
  worktrees the user owns and drift, which the dialogue covers with free facts;
  cleaning up a commit attempt's text and the list of changed files.
* *AgentTurn*: SQL errors, which `persist_stream_event` drops statement by statement; ends in the same
  millisecond, which would share a stamp; Claude's process per turn; child threads and
  their interruption; resuming a session; steering, which keeps the source; the text of a comment, whose
  tag is a free choice here.
* *SessionLifecycle*: titles, pins, attachments, skills, the making of worktrees (one git command before the spawn), and the
  completion, which CompletionFlow sees with `SessionExits` and `Crash` for everything that happens here.
* *TimelineFeed*: the answer `resetRequired` for a log that was replaced, the roster of subagents, transcripts of terminals.
* *TerminalStream*: disposing of a surface, the trimming of the log and write errors, the tail (32 KB or 2 MB) of the file that is read where it is longer, the text a file
  holds from an earlier process (only that there may be some), a write of the history that fails, several windows with one session, output before the registration, input and
  resizing. Subscribing (the look for the session, the flush and the count), reading the snapshot (look, flush and read) and unsubscribing (count and discard) are one step
  each, though an exit may come between their locks. The project terminals read their snapshots in the same way (`features/project_terminal/service.rs:440`); the project terminals (`features/project_terminal`), whose registry is separate and mostly profiles and layout.
* *LanguageHosts*: `didChange` and `didClose`, diagnostics, the search for server binaries, and `stop_project`, which nothing calls.
* *ProviderSession*: shutting a session down (SessionLifecycle), images on standard input, models, conversation ids and subagents; the return of
  a view to running by a late text after an abnormal stop reason.
* *Provider protocols* otherwise (the requests and child threads of Codex, Grok, DeepSeek): each is a translation of one vendor's messages.
* The rest of the inventory: I/O, SQL, conversion, rendering. It is most of the code's lines, and the reason why the map covers only a few
  per cent of them: these models are of the places where several actors meet, and those are small.

## Plan

Done: CompletionMachine, CompletionDialogue, CompletionFlow, AgentTurn, SessionLifecycle, TimelineFeed with LaggingCopy, TerminalStream,
LanguageHosts, ProviderSession, and for each of them proofs of all the invariants its passing runs check.

Next, the most important first:

1. SessionLifecycle composed with CompletionFlow through `session` and `live`.
2. Provider requests (correlation, steering, permissions), git commands with an abort path, app update, view caches.
