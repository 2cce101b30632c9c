# eino-demo: specifications, model checking and proofs

TLA+ modules for the server in `server/internal` and the parts of the web client
that consume its updates and show its records. Paths below are relative to the repository, those of
Go files to `server/internal` and those of TypeScript files to `web/src`.

## 1. The system

A chat service runs LLM agents on conversations. A user sends messages; each
conversation has at most one agent run, in memory, on one server process; while
a run is in progress further messages are queued for it. A run may be stopped,
may ask the user something and be interrupted until the answer resumes it, may
start sub-agents on conversations of their own, and may overflow the model's
context, be compressed and restart. All that happens is published as numbered
*updates* that the browser receives by WebSocket, by replay and by polling.

| Component | Code | State | Operations |
|---|---|---|---|
| Run session registry | `eino/runner/run_session.go` | map conversation → session (cancel function, done channel, checkpoint, resume parameters, parent, running flag) behind one RWMutex | TryStart, Done, Stop (cascade), Set/Get/Clear of checkpoint and parameters, IsRunning, Cleanup |
| Message queue, context injection | `eino/runner/message_queue.go`, `context_injection.go` | map conversation → pending contents | Enqueue, Drain (at every model call), HasPending, Cleanup |
| Agent runs | `service/chat.runagent.go` | the locals of two goroutines per run | runAgent: load, register, build, checkpoint, run or resume, read events, deferred calls, respawn, restart after overflow |
| Sending, stopping, answering, resuming | `service/chat.subagent.go`, `chat.interrupt.go`, `chat.resume.go`, `chat.go` | messages, interrupt records, `conversations.checkpoint_id` | SendMessage, StopMessage, AnswerQuestion, AnswerPermission, resumeAgent, StartCompaction |
| Sub-agents | `service/chat.subagent.go`, `eino/tools/sub_agent_tool.go` | child conversations | RunSubAgent, writeSubAgentResultToParent |
| Run event callbacks | `eino/runner/rootrunner*.go` | message trackers per tool address and per agent | OnThinking, OnOutputting, OnCompleted, tool input and output, OnError, OnInterrupted, Stop |
| Tool permissions | `eino/permission/*.go` | pending permissions, whitelist, interrupt state | checkPermission, interrupt, handleResume, evaluate |
| Compression | `service/compression.go` | summary message, `min_seq` window | CompressConversation, CompressAndResume, SyncSummarizationToDB |
| Sequence numbers, update delivery | `ws/manager.go`, `ws/server.go`, `handler/user.go` | Redis counter, `user_updates`, connection table | NextSeq, push, kick, replay, add, remove, pull |
| Update consumption | `lib/updateDispatcher.ts`, `providers/WSProvider.tsx` | cursor in IndexedDB, dispatcher queue, pull flag, poll timer | applyUpdates, pullMissingUpdates, poll, connect |
| Scheduled tasks | `service/cron.go`, `eino/tools/cron_task.go`, `handler/cron.go`, `di/module.go` | task rows; the scheduler's entries and `taskEntries`, in memory and without a lock | create and cancel, by a request and by the agent's tool; load and register at the start, fire, execute |
| Conversations | `service/conversation.go`, `convert/convert.go` | conversation rows, tree | create, branch, compact, archive, delete, mode, tree building |
| Projects, templates, settings | `service/project.go`, `template.go`, `settings.go` and their handlers | rows | look up, number, transaction with update, push |
| Todo list | `service/todo.go`, `handler/todo.go`, `eino/tools/todo_write.go` | rows | write, then number and store a `todo.sync` update |
| Lists, panels and forms of the pages | `components/*`, `providers/ThemeProvider.tsx`, `store/topic.ts` | what each shows, requests for lists under way | subscribe to a topic, read the list again, merge the answer to an own request |

Interactions: handlers call services; a service stores a row, takes a number
from Redis and pushes; `sendMessageWithRole` reads the registry and either
queues or starts `runAgent`; `runAgent` registers, and its middleware drains the
queue; answers are left in the registry for the run they start; Stop calls
cancel and stop functions of a run outside the registry's lock; sub-agents run
`runAgent` with a parent, and a callback writes their result to the parent.

What is hard: nearly every operation reads the registry in one critical section
and acts on it in a later one; the session object is found by conversation, not
by run, so that a late step of one run can hit the session of another; a run's
deferred calls are four steps that senders, answers and stops interleave with;
Stop gives up after two seconds; the restart after an overflow leaves a run
whose channel nobody closes; updates are numbered before they are stored and
pushed in any order; the cursor of the client is moved by three tasks; a
scheduled task is a row and an entry in memory that change separately, while the
server starts, dies and fires; an update is numbered before the transaction that
writes what it announces, and lists are read again in no order. The full
list, at its lines, is `hazards` in PROJECT.json.

## 2. Modules

| Module | Models |
|---|---|
| `RunSession` | the registry: one operator per critical section of its mutex |
| `MessageQueue` | the queue: one operator per critical section |
| `AgentRun` | the goroutines that use both: senders, answers, stop requests, and for each run (`Run`) an outer goroutine `pc` and an event goroutine `loop` |
| `RunLock` | abstract: a lock per conversation; a run works only while it holds it |
| `UpdateStream` | numbers, rows, pushes, the connection handler, pulls; dispatcher, puller, poller and socket of one browser tab |
| `ToolApproval` | permission gateway, reviewer, questions to the user, their records, checkpoints and answers |
| `MessageTracker` | the messages of one run: trackers, rows, finish reasons under streamed parts, parallel tool calls, failures and stops |
| `MessageLife` | abstract: a message takes a number once, ends once, completed or stopped, and is not touched afterwards |
| `ConversationHistory` | conversations, their messages and numbers, compression and its window, sub-agents' prompts and reports, branches, deletion, the tree of a list |
| `ScheduledTasks` | scheduled tasks: rows, entries, executions, creation, cancellation, start and death of the server |
| `RecordSync` | requests that change projects, conversations, settings, todos and tasks, the updates that announce them, and the components of a tab that show them |
| `AgentRunProofs`, `ToolApprovalProofs`, `MessageTrackerProofs`, `UpdateStreamProofs`, `ConversationHistoryProofs`, `ScheduledTasksProofs`, `RecordSyncProofs` | theorems about the module each is named after |
| `RecordTabsProofs` | theorems about the tabs of `RecordSync`, from the invariant of `RecordSyncProofs` |
| `MCAgentRun`, `MCUpdateStream`, `MCToolApproval`, `MCMessageTracker`, `MCConversationHistory`, `MCScheduledTasks`, `MCRecordSync` | instances for TLC |

### 2.1 Agent runs

A step of a goroutine ends wherever it has used state another one can change.
`pc[r]` follows `runAgent` top to bottom:

| `pc[r]` | Next step | Code (`chat.runagent.go` unless named) |
|---|---|---|
| `load` | conversation and its checkpoint column are read, or the read fails | 37-70 |
| `register` | TryStart; `refused` if a session is running: the message is queued | 72-133 |
| `build`, `unbuilt` | NewRootRunner; when it fails the run cancels its context, and a step later cleans up and returns | 135-269 |
| `checkpoint`, `history` | the session's checkpoint, the stored messages | 271-289 |
| `choose`, `consume` | Run, Resume, or ResumeWithParams after ClearResumeParams | 337-366 |
| `wait` | the event loop's channel, or the ten-minute timer | 535-541 |
| `pending`, `session`, `queue`, `done` | the deferred calls in their order: HasPending, session Cleanup, queue Cleanup, Done | 380-404 |
| `respawn` | a new run with the same content and no parent | 391-401 |
| `halt`, `haltDrop`, `haltClear` | the goroutine that restarts after an overflow: Stop, Cleanup, clear checkpoint, then `load` | 457-469 |

`loop[r]` is the event goroutine: a model call drains the queue into the
context (`CallModel`), or finds it too long (`Overflow`, `Requeue`, `Restart`:
the goroutine returns and its channel stays open); it ends, fails, or is
interrupted (`RaiseInterrupt`, `PersistCheckpoint`, `PublishInterrupt`). `stk[t]`
is the call stack of a recursive Stop, children first; a frame waits at most two
seconds, which is a free choice to return. With `Faults` any model, tool or database
call may fail: the checkpoint column may not be written or cleared, which is only
logged, and an answer may be recorded and its handler return an error (`stuck`). What an agent says is abstracted to
the set of messages its context has shown to some model call (`answered`).

Data left out: message text, tokens, tool results, logs, the updates published
(they are `UpdateStream`), the completion callbacks of sub-agents.

### 2.2 Updates

`UpdateStream` is about one user and one tab. A publishing goroutine takes a
number, stores a row (or fails: services give up, the run's callbacks push all
the same), and pushes. The handler of a connection is the sequence of
`ServeHTTP`: kick, read counter, fall back on the database and write the counter
back, connected frame, replay to the connections registered *so far*, register.
`others` is how many connections other users keep: the manager's total and limit are
theirs too.
The client is a set of tasks of one event loop: the dispatcher's batch in
progress and its queue, the puller, the poller, the socket. IndexedDB operations
take effect in the order they are issued, so the dispatcher's read precedes the
puller's write in `ReceivePull`, as in the code. Left out: updates numbered 0,
topics (`RecordSync` has them), and the second polling loop that a disconnection can
start while a poll is under way.

### 2.3 Permissions and questions

`ToolApproval` is about one conversation. `at[k]` follows a tool call through
the middleware: `called`, then by mode, whitelist and earlier interrupt either
`run`, `review` (a reviewer reports over the run's one channel, or time is up) or
`ask`; then `asked` with a pending record, `done` or `failed`. `ask_user_question`
is a call that interrupts until it is resumed with its own answer. When every
call of a step has returned the run goes on, fails, or saves a checkpoint with
the interrupted calls; `PublishQuestion`, `PublishPermission` and `PublishNothing`
are `OnInterrupted`, with its choice of the interrupt id. An answer is two steps,
the update of the record (`AnswerPermission`, `AnswerQuestion`) and `ResumeAgent`,
with runs in between; `ResumeRun` makes the interrupted calls again with the
answer the session held, or with none. With `Faults` the handler of an answer may
fail after it has updated the record, the record of a request may not be written,
and the checkpoint may not be noted on the conversation, or not cleared, which the
code only logs. `shown[k]` is the set of ids a browser may
send with an answer: a record can be read before `OnInterrupted` has filled it in.

Assumed of Eino, from how the code uses it: the calls of one step run in
parallel and all return; an error of one is an error of the run; an interrupt
saves the calls that returned and makes the others again on resumption; every
interrupt has a new id (`permission/middleware.go:337-340`); the contexts of an
interrupt are a list of the interrupted calls in any order. The races of
registration are left to `AgentRun`: a run that ends is gone at once, and an
answer that arrives while a run is registered may be lost here too (`mislaid`).
A failing insert into the whitelist, which is only logged, is left out.
`plan_mode` lets everything pass like `bypass_permissions`; the two kinds of
remembered approval write rows that differ in a column nothing reads. Content
patterns are a relation (`Matches`), since a remembered content is used as a glob.

### 2.4 Messages of a run

`MessageTracker` is one run's `RootRunnerCallbacks`. Each callback holds `c.mu`
from its first use of the trackers to its end and is one action; the address of
a callback is reduced by `AddrString` to its first segment, so that the keys of
the map are the agent and a role. `phase` follows the agent (a model call, its
tool calls in parallel, the end), `at[c]` a tool call. `Insertion` and `Write` are
the outcomes of `insertMessage` and of an update: they use the run's context and
fail once it is cancelled, while the marks of `Stop`, of the event loop after an
overflow and of `OnInterrupted` use the parent context. `CompleteAssistant` and
what follows it are the two halves of `OnOutputToolCalling`. `dropped` records the
messages given up because the write that finishes them failed: the code deletes
their trackers all the same.

`MessageLife` says what those who see the messages, in the database or on a client,
may rely on, without trackers, calls or contexts: `Begin`, `Complete`, `MarkAll`.
Writes may be lost, so a message may have a number and no row, and its end may be in
its row only, or told only. `ImplementsLife` maps `made` to `msgs`, `row` to
the finish reasons of the rows (`RowState`) and `told` to `ended`. It contains
`FinishIsFinal` and more: an end that was told is final too, a stopped message is
never told to be done, and a completed one is never marked.

Assumed of Eino: the parts of a model's stream arrive one after the other before
its tool calls start; parallel calls all return before the next model call; the
address starts with the agent. No tool here streams. Left out: the deltas pushed
(their number is 0), token totals, the report of a sub-agent to its parent.

### 2.5 Conversations and their history

`ConversationHistory` is the database of one user. A transaction is one action,
and so is each read before it: a message is numbered (`Number`) and then stored,
at once (`Store`, what a user says) or without content that updates fill in
(`StoreEmpty`, `Fill`, what an agent says), a compression reads the window's start (`StartCompaction`), the
messages (`LoadMessages`), takes its numbers and commits (`CommitSummary`), a
branch is read and then copied, its rows renumbered in their order (`Place`).
`post`, `squeeze` and `branch` are the locals of these handlers; `rows` and `conv`
are the tables, with their foreign keys and the unique index on conversation and
number (`Insertable`). Numbers come from the counter in Redis (`Takes`), which may
be lost or set back while handlers hold numbers (`SetBack`, `ws/server.go:73-82`);
`peak` and `twice` remember the highest number given out and whether one was given
out twice. What a message says is its
name, what a summary says is the union of what its compression read, so that
`Context(c)` is what an agent that loads `c` is told, directly or through
summaries. `Sync` are the compressions of `SyncSummarizationToDB`, which write a
sentence without content if the model fails; the others are `CompressConversation`,
started by the user or by an overflow, whose agent may call its tool several
times. A sub-agent's conversation, prompt and report are named after it. A
summary is assumed to be faithful to what was read: that is the model's part.
`Levels(up, list)` is the tree `BuildConversationTree` makes of a list, level by
level: `TreeShowsEach` compares it with its definition on every list of
conversations in every state, and for every assignment of parents to the conversations of
`Listed` (four of them), cycles included. `Above(c, up, list)` is the walk of
`hasAncestor`; it stops after as many steps as there are conversations, where the
code stops at one it has visited.

Left out: titles, status and mode (`RecordSync`), members, the updates published,
`CompactConversation` (called by no handler), a number taken for a report after
its row was stored; the parts of a message as it streams are one `Fill`.

### 2.6 Scheduled tasks

`ScheduledTasks` follows the tasks of one conversation. A row is `row[t]`, `kind[t]`
and `due[t]`; an entry of the scheduler has an identifier and the instant it fires
next, and `taskEntries[t]` is the entry `CancelTask` would remove. `create[t]` is
the program counter of the call that creates t: a `request`, which inserts and
registers what it inserted; the `tool`, which inserts, and whose registration
reads the row again; or a tool built before `SetRegisterCronTaskFunc`, which only
inserts. `cancel[c]` is a cancellation: the route removes the entry and then
writes the row, the tool writes the row. `exec[x]` is an execution,
`ExecuteTask`: read the row if active, send, mark a one-time task, push a sync.
The `server` is `wiring` (it serves requests, the scheduler is not started),
`loading` (Start has read the active rows and registers them), `up`, `idle` (Start
failed, which is only logged) or `down`: a crash or a stop takes entries, calls
and executions, the rows stay.

Time is a counter of seconds in which a year has `Year` seconds. A one-time task
is the second, minute, hour, day and month of its instant, so its entry fires at
the next such instant after it is added (`NextAfter`). The scheduler library is
modelled from its use: entries get their next instant when it starts, when they
are added to it while it runs, and after each firing; a firing is a goroutine.
A schedule of five fields passes `parseSchedule` and is refused by the scheduler,
which wants six (`Parses`). Assumed: sending a message does not take a year.
`taskEntries` is a plain map that several goroutines write; where that is
noticed, the Go runtime ends the program, which is a `Crash`. The history
variables record which of the named exceptions a task has met.

### 2.7 Records and the tabs that show them

`RecordSync` has a user's project with a conversation, its todo list and tasks,
and the settings. `req[q]` is a request: `Begin` chooses its kind and who sends
it, a tab (what its page offers), `Other` (any other tab or client of the API) or
`Agent` (a call of a tool). `Verify`, `Number` and one transaction per operation
are the handlers of the first kind, the writes followed by `NumberSync` and
`StoreSync` those of the second. Two of these write and may then answer an error,
with the change kept and nobody told: an item that cannot be read again
(`ReloadTodo`), and a task that was inserted and that the scheduler refuses
(`RegisterTask`, `RollBackTask`). The list has a refused task whether its row became
cancelled or, when that update fails too, stayed active; the status is
`ScheduledTasks`' (`RollBack`). A value is the request that wrote it, a list the
sequence of the requests that changed it; `says` is what an update carries of the
row. The title that `UpdateMode` and `UpdateStatus` repeat is the one `Verify`
read; settings are read again within the transaction. An archived conversation
takes three numbers, the third for a push without a row.

A tab has a page and processes the stored updates in the order of their numbers,
passing over those that are not stored yet: what `UpdateStream` shows a client
may do, with ideal pushes. `DeriveTopic` and `Subscription` say which components
act on an update. `view[t][s]` is what component s shows: the list after `upto`
changes, and the changes in `own` that it made itself, from an answer or from an
update's payload; `stale` says that the last answer was older than what was
shown, or added an item twice. Requests for a list are read by the server
(`ReadList`) and received (`ReceiveList`) in any order; several may be under way,
two after `settings.changed`, which is broadcast twice to the topic `system`.
A tab stays on its page, and is loaded before the first request. Left out: the
chat page's messages, the parts of a tab that only render.

## 3. Runs

| Run | Instance | Question |
|---|---|---|
| `agent_runs` | 1 conversation, 4 runs, 2 messages, 1 interrupt | with no failure and no stop: `Exclusive`, `DeliveredOnce`, `UnansweredIsExplained`, the runs implement `RunLock` |
| `agent_stops` | parent and child conversation, 2 runs, a message and a sub-agent prompt, 1 interrupt, 1 stop, failures, overflows, timeouts | `SessionOwnerLive`, `RunningIsNotStopped`; every registered run and every Stop ends |
| `agent_stop_race` | 1 conversation, 3 runs, 3 messages, 1 stop | `OneLiveAgent` fails: a run that drains after Stop gave up deletes the session of its successor |
| `updates` | 2 writers, 1 connection and maybe another user's under a limit of 1, pages of 1, failing writes and pulls, a counter that may be lost | `CursorIsPublished`, `MissedIsExplained`, `PollingCatchesUp` |
| `connections` | 1 writer, 2 connections, limit 2, nothing fails | `TotalIsCurrent` fails: a kicked connection stays in the manager's total |
| `approvals` | 2 guarded calls and a question to the user, any two in parallel, modes edit_automatically and bypass_permissions, the first call's content a glob that matches the second's, reviews of level 2, 1 message while they wait, failing database calls | `RunsWithConsent`, `DeniedIsNotRun`, `RunsOnce`, `RememberedByUser`, `WaitsForUser` |
| `approval_unasked` | 2 guarded calls, `ask_before_edits` | `EveryCallApproved` fails: a message resumes the checkpoint and the open call is executed |
| `messages` | 3 model calls, 2 tool calls, failing writes, timeout, a stop | `DoneOnce`, `StoppedIsMarked`, the messages implement `MessageLife` |
| `tool_messages` | 2 model calls, 2 tool calls, nothing fails | `EveryCallHasItsMessage` fails: parallel calls share a tracker |
| `tasks` | 1 task of every kind, 1 cancellation, 2 executions at once, 2 starts of the server, every failure, with fairness | `OneTimeSentOnce`, `CancelHolds`, `ActiveIsScheduled`, `UnsentIsExplained`; `DueIsSent`: a task that waits for its instant is sent |
| `records` | any 2 requests of 17 kinds from a tab, another client or the agent, 1 tab on any of 3 pages, every failure | `NoWriteIsLost`, `ReplayTellsTheRow`, `ErrorMeansNoChange`, `TabsShowWhatTheyHeard` |
| `history` | 2 conversations, 2 messages, a sub-agent, maybe an earlier one's report, 2 compressions of which one may have no model, a branch, a counter that may be set back to 1 until number 3, a model that may fail | `ForgottenIsExplained`, `NumberIsFree`, `SummaryOpensWindow`, `TreeShowsEach` |

A call of `ToolApproval` is executed *in its own right* (`ran`) unless a resumption
that is for another call, or for none, made it again (`unasked`, in the mode that
asks about everything). `RunsWithConsent`, `DeniedIsNotRun` and `RunsOnce` are about
the first; `EveryCallApproved` is about both and fails. The records whose answer was
passed on for a call's interrupt (`via`, `Answering`) are not always its own.

**Bounds.** `Run` bounds how often `runAgent` is invoked, `Msg` how many messages
there are: a race needs one run that ends and one or two that begin, and three or
four runs suffice for every interleaving of an old, a current and a next run. One
interrupt suffices because records of different interrupts share only the session,
which the runs of one already fight over. `SendCap`, `PageLimit`, `ReplayLimit`,
`MaxConns` stand for 256, 100, 500 and 10000: with 1 or 2 the limits are met. Two
guarded calls give a call and the sibling its answer resumes; `MaxSends` = 1 gives a
resumption without an answer; every other run of `ToolApproval` comes from an
answer; `MaxBatch` = 2 asks for the guarded calls and the question one or two at a
time, and `MaxReports` leaves one report per review, late ones included;
`ask_before_edits`, whose calls are asked without a review, is the mode of
`approval_unasked`. Two tool calls in one step and three model calls give
`MessageTracker` a sibling and a later message to confuse. Two conversations of
`ConversationHistory` are a boss and a sub-agent or a source and its branch, and the
report that may be there at the start takes the number the next one needs; the
counter may be set back (`Restored`, `ResetLimit`) as long as three numbers at most
are given out, which leaves the message, a summary and the branch to meet the numbers
given out again; a store, a number or a context that fails (the other `Faults`) is left to
the proofs, since a handler that fails there writes less than one that goes on; two
compressions overlap, which covers the repeated tool call of one (`MaxCalls` = 1),
since a second call writes what the first had read. Tasks share nothing but the
scheduler, so one suffices; `Year` = 2 and `MaxTime` = 3 let a one-time schedule
come round, and delays of 0 and 1 let its instant pass before it is registered or
not; two executions are a task registered twice. A second cancellation (`Canceller =
{c1, c2}`, 1.3 million states) shows nothing new and takes three minutes. Every
property of `RecordSync` is about pairs of requests: a write and what overlaps or
follows it; requests of `Other` stand for a second tab's. Two writers give every
order of numbering, storing and pushing of a pair. Runs, writers and tool calls of
`MessageTracker` are symmetric; symmetry is used only where no liveness is checked.
Deadlock is not checked: a server without requests stops.

**Fairness.** `AgentRun!Fairness` is weak fairness of every goroutine: they are
scheduled. It obliges no user to send, answer or stop, but it does oblige a
restarting goroutine and the ten-minute timer (`agentRunTimeout`) after an
event goroutine that returned without closing its channel; a model call is fair
because every run's agent has a maximum of iterations, messages in the model are
finite, and a call returns or fails with its context. `UpdateStream!Fairness` is
weak fairness of the client's tasks and timers, and strong fairness of an answer
to a poll: requests that are repeated for ever do not fail for ever. Nothing
obliges a writer, a handler or a reconnection. `ScheduledTasks!Fairness` is the
clock, the scheduler's loop, the goroutines of executions and the second step of a
cancellation; nobody has to create or cancel a task, and the server need not
restart.

## 4. Proofs

Every theorem is about the specification the runs check, with its failures,
crashes, overflows and timeouts, for every value of the constants that satisfies
the named assumptions. Each follows from an inductive invariant `Inv` that was
first checked with TLC on the module's instance, then proved from `Init` and,
step by step, for every action (`InvInit`, `InvStep` or lemmas named after the
step).

**`AgentRunProofs`**: any conversations, runs, messages, stop requests and
interrupts (`SessionConstants`, `AgentRunConstants`).

| Theorem | States | Argument |
|---|---|---|
| `TypeCorrect` | `Spec => []TypeOK` | `TypeInv` adds `Locals`: an answer being resumed has a conversation, taken parameters are an interrupt, a run publishes an interrupt it and nobody else raised, events follow the start |
| `NoSessionIsLeftBehind` | `Spec => []SessionOwnerLive` | `RegistryInv`; no assumption on stops, failures, overflows or timeouts |
| `StoppedIsNotRunning` | `Spec => []RunningIsNotStopped` | `RegistryInv` says of every Stop that has marked a session (`Marked`) that its victim owns no running one, and of a cancelled run that it has registered and will not do so again |
| `MutualExclusion` | `Undisturbed => (Spec => []Exclusive)` | `LockInv`: a run between TryStart and Cleanup is the registered one |
| `RunsImplementLock` | `Undisturbed => (Spec => ImplementsLock)` | every step is a step of `RunLock` or leaves its variables alone |
| `AnswerUsedOnce` | `Undisturbed => (Spec => []DeliveredOnce)` | `AnswerInv`: parameters exist only for answers whose handler stored them, in the conversation that asked; once used, neither the map nor a run holds them |
| `LossIsExplained` | `Undisturbed /\ Faults = FALSE => (Spec => []UnansweredIsExplained)` | `MessageInv`: a sent message was shown or deleted, lies in its queue, is the content of a run that has yet to load, enqueue or show it, or its conversation was resumed from a checkpoint; every hand-over from sender to run to successor keeps one of these |

`Undisturbed` is `StopReq = {} /\ Overflows = FALSE /\ Timeouts = FALSE`; failures
are allowed. It is needed: with a stop, `agent_stop_race` is a counterexample to
exclusion, and a stopped run and its successor can both take one answer
(`chat.runagent.go:344-345`). `LossIsExplained` also needs `Faults = FALSE`: a run
whose load, build or model call failed loses the message it was sent, and the
property is about messages lost although nothing failed.

**`ToolApprovalProofs`**: any calls, contents, globs, modes and batches, any number
of runs, messages and reviews; the review level that lets a call pass is 1 or 2
(the code has 2: `ApprovalAssumption`).

| Theorem | States | Argument |
|---|---|---|
| `TypesHold` | `[]TypeOK` | `Control`: calls are under way only in a running batch, identifiers are those of their own call; the channel holds at most one report |
| `RunningHasConsent` | `[]RunsWithConsent` | `Consent`: what lets a call run in its own right holds when that is decided, and a record once decided is not decided again (`Records`), so it still holds afterwards |
| `DenialHolds` | `[]DeniedIsNotRun` | the same: with nothing but denials passed on for its interrupt, the mode is the only way |
| `ExecutedOnce` | `[]RunsOnce` | `Tokens`: an answer passed on for a call's interrupt is in a handler, in the session, or used; while the only one exists the call waits and has not been executed |
| `RememberedIsAsked` | `[]RememberedByUser` | the decision is written before the whitelist, and stays; `Tagged`: an interrupt id on a record is that of a call of the run |
| `AnswersAreUsed` | `[]WaitsForUser` | `Resumable`: an interrupted call is in the checkpoint the next run resumes, and while its answer is accepted that run is still to come |

**`MessageTrackerProofs`**: any finite set of tool calls, any number of model calls.

| Theorem | States | Argument |
|---|---|---|
| `TypesHold` | `[]TypeOK` | at most one message for each model call and each tool call (`Bound`), by counting the calls that have not begun |
| `EndsOnce` | `[]DoneOnce` | `Tracked`: no two trackers share a message, and the end of a tracker's message is not announced yet |
| `StopMarks` | `[]StoppedIsMarked` | `Tracked`: a row in progress has an open tracker, or its finishing write failed |
| `MessagesLiveOnce` | `ImplementsLife` | every step is a step of `MessageLife` or leaves its variables alone: a callback that may write finds the messages of the trackers unfinished (`TrackedIsUnfinished`), for marks are only left when the context is cancelled or the run closed (`Control`); the two messages that a tool's result completes differ |
| `FinishStays` | `FinishIsFinal` | the action property, from `LifeStep`: no step of `MessageLife` changes an end (`EndsAreFinal`) |

**`UpdateStreamProofs`**: any finite set of writers; any connections, page sizes and
limits; the counter may be lost.

| Theorem | States | Argument |
|---|---|---|
| `TypesHold` | `[]TypeOK` | with `Numbered`: an update has a number from its first step on, and a row before its push |
| `CursorIsReal` | `[]CursorIsPublished` | `Sound`: every place that can become the cursor (a frame on the wire, the queue of the dispatcher, a pull, a poll) holds 0 or a published number |
| `NothingElseIsMissed` | `[]MissedIsExplained` | `Reached`: what the cursor has passed was told, is in a batch that will be told, or has one of the named reasons |
| `LimitIsKept` | `[](others + Cardinality(registered) <= MaxConns)` | `Counted`: the total misses no connection there is, though it keeps those that were kicked |

**`ConversationHistoryProofs`**: any conversations, messages, compressions, branches,
any of the `Faults`, a counter set back to anything.

| Theorem | States | Argument |
|---|---|---|
| `TypesHold` | `[]TypeOK` | rows have a number of their own in a conversation that exists; a branch's are numbered by their place (`Copied`) |
| `ForgettingIsExplained` | `[]ForgottenIsExplained` | `Kept`: what a row says is in the context, or a compression hid it that could not know it (an empty row that is filled says what no compression has read); `Loads`, `Loaded` say it of compressions under way, `Fresh` that nobody knows what is not said yet |
| `NumbersAreFree` | `[]NumberIsFree` | `Apart`: no two handlers hold one number, and `Counted`: none is beyond the highest given out, both while no number was given out twice (`twice`); a number taken then is the next after the highest (`Taken`) |
| `WindowOpensWithSummary` | `[]SummaryOpensWindow` | `Hidden`: a window starts where a compression that has loaded moved it |
| `TreeIsRight` | `RightTree(up, list)` for any parents and any finite list | see below |
| `TreesShowEach` | `[]TreeShowsEach` | `TreeIsRight`, and finitely many conversations exist since a step opens one at most (`OpensOne`) |

`TreeIsRight` is about two recursive functions, `Above` and `Levels`. What is said of
every number of their steps is proved by looking at the least number it fails for
(`LeastNumber`, from the well-foundedness of `<`); the same argument shows that the
functions exist (`AboveExists`, `LevelsExist`), so that they satisfy their equations.
A walk of more steps than the list is long repeats itself (`WalkRepeats`, by the
pigeonhole principle), and where it comes back there is a cycle (`CycleOfWalk`). On a
cycle "parent of" is one-to-one, so the first repetition is the start of the walk:
`hasAncestor` sees every conversation that is on a cycle (`CycleComesBack`) and no
other (`LinkedOffCycle`). A walk off the cycles ends at a root, and back along it
each conversation is one level lower (`SomeLevel`, `OneLevel`).

**`ScheduledTasksProofs`**: any tasks, cancellations, executions, delays and years;
any number of starts, at least one.

| Theorem | States | Argument |
|---|---|---|
| `TypesHold` | `[]TypeOK` | |
| `CancellationHolds` | `[]CancelHolds` | `Cancels`: a cancelled row exists and is not active, and an execution that fired later has not read it yet |
| `ActiveTasksAreScheduled` | `[]ActiveIsScheduled` | `Known`: an active task is in the scheduler or in what Start has read, from the moment Start reads |
| `OneTimeTasksSendOnce` | `[]OneTimeSentOnce` | `Once`: one entry; its next firing is a year after the execution under way (arithmetic of `NextAfter`), which ends before; once sent the row is marked or is about to be |
| `UnsentTasksAreExplained` | `[]UnsentIsExplained` | `OnWay`: in a running scheduler an unsent task has an execution, an entry that fires in time (`FiresInTime`), a cancellation under way, or one of the named reasons; `Known` hands it over when a restarted scheduler begins; `SentOf`: who marks a row has sent |

**`RecordSyncProofs`** and **`RecordTabsProofs`**: any requests, kinds, tabs and
faults (`RecordConstants`, `KnownKinds`).

| Theorem | States | Argument |
|---|---|---|
| `WritesAreKept` | `[]NoWriteIsLost` | `LandedIsKept`: a field's value is the request that wrote it, or one that had not ended when it arrived |
| `ErrorsChangeNothing` | `[]ErrorMeansNoChange` | `Clean`, `Half`, `Failed`: what a request that has not written has left behind (nothing), a patch between its transactions (a title, announced), and one that may still fail after its write, or has (an entry of its own list) |
| `ReplayIsTheRow` | `[]ReplayTellsTheRow` | `TitleIsRead`, `SaidIsRow`: what an update carries is the row's, or the row was written by a request that overlaps |
| `TypesHold` | `[]TypeOK` | `TabTypes`, `Sorted`: what is shown or fetched is never longer than the list, and a list only has operations on it |
| `TabsShowTheirUpdates` | `[]TabsShowWhatTheyHeard` | `HeardIsSeen`: of every update a tab acted on, the component has seen the change or a list that has it is on its way; every step of a tab changes that tab only (`Turns`), every other step leaves tabs alone and lists only grow |

Only model-checked: `RegisteredRunEnds`, `StopReturns`, `PollingCatchesUp` and
`DueIsSent`, since fairness is out of the prover's reach.

## 5. Not covered, and the plan

Seen in the model but not among the runs: the deferred calls remove the session
(`chat.runagent.go:388`, `402`) before Done looks for it (`390`, `404`), so a run
that drains never closes its own done channel (`run_session.go:19`) and a Stop of a
live run waits its two seconds; a message whose model failed, or whose last part had
no text, keeps an empty finish reason; an overflow restart that deletes another
run's session (`chat.runagent.go:467`), the same cause as `agent_stop_race`; runs
resumed after an answer or respawned for pending messages register without their
parent, so Stop of the parent no longer reaches them; a question that a message
resumed interrupts again under a new id, and the answer to its record is no longer
for it (`ask_user_question.go:49`); an answer given before the interrupted run has
left its deferred calls, whose parameters that run then deletes with its session
(`chat.runagent.go:388`); a message numbered before a summary and stored after the
compression has read the history, which falls behind the window unsummarised
(`ForgottenIsExplained` names this way and the missing model as the only two); a message or a summary whose number was given out once more after the counter was set
back, which the unique index refuses if the other one is in the same conversation
(`NumberIsFree` names it, and `docs/DATABASE_POSTGRESQL.md:222` warns of it); the
report of a sub-agent, which has the number 0: a second one in the same conversation
violates the unique index, and one that arrives after a compression is behind its
window; a branch of an ordinary conversation, refused for every positive number
because `latest_message_seq` is only written for branches
(`service/conversation.go:626`, `702`); a message enqueued between a run's check for
pending messages (`chat.runagent.go:384`) and the cleanup of its queue (403) is
deleted, one enqueued after that waits with no run, although the comment at 124-126
promises one or the other (`UnansweredIsExplained` names these ways); a sender that
asked IsRunning before a Stop marked the session, or a start refused before it, and
queues afterwards (`service/chat.subagent.go:298-301`, `chat.runagent.go:123-127`),
the very case the comment at `chat.subagent.go:296-297` wants to avoid:
`RunningIsNotStopped` is about what the registry answers, and the run that drains
starts again for the message, deletes it or leaves it; an answer stored by a handler that then
fails to read its record back (`chat.interrupt.go:94-100`, `221-225`), which can be
given neither again nor to a run; two guarded calls interrupted in parallel, whose
records both get the one interrupt id that `OnInterrupted` selected
(`rootrunner_callbacks.go:797`): an answer to either is an answer for that call, it
executes the other as well, denied or not yet answered, since the resumption is not
for it (`permission/middleware.go:264`), and because nothing deletes the checkpoint
the answer to the second record executes both again; a pull answers
a number whose row is not committed yet with an "empty" update
(`handler/user.go:74`), and the client never asks for it again, although
`README.md:455` says every event is delivered (`MissedIsExplained`).

Of scheduled tasks: schedules of five fields, which the tool's description and
`README.md:207` advertise, are accepted and then refused by the scheduler, the row
cancelled; a task created while the server starts may be registered twice; the
tool's cancellation leaves the entry; an execution under way overwrites "cancelled"
with "completed"; a one-time task registered after its instant waits a year, and one
of more than a year fires early.

Of records: a client that replays the updates in order may end with an older title
or theme than the row, when two requests overlapped; an update may follow the
deletion of its conversation; a change of an item is kept and told to nobody when the
route cannot read the item again, and answers an error (`service/todo.go:85-87`), as is
the row of a task that was refused (`service/cron.go:107-114`; `ErrorMeansNoChange`
names both); a project deleted on one tab reappears on another when
a list read before the deletion arrives after it (`ProjectList.tsx:44-52`); a new
todo is shown twice when the list arrives before the answer to its creation
(`TodoPanel.tsx:66`); the sider ignores `conversation.updated`, so that a title
changed elsewhere is not shown, and never hears of `conversation.archived`, which
goes to the conversation's topic; the chat page's "Sync mode from WS push"
(`page.tsx:406`) never runs, since that update goes to the project's topic.

Next: a tab that changes its page and connects again, in `RecordSync`.

Not planned: file, shell, HTTP and search tools, skills and prompt templates (input
and output, no shared state), the title agent (called by nothing), users and tokens,
request decoding, configuration, generated types, rendering.
