# Wunderpus in TLA+

A verification project for Wunderpus, a Go program that runs LLM agents: it
takes messages from chat channels, keeps a conversation per session, calls model
providers with fallback, runs tools, decomposes complex goals into task graphs,
spawns sub-agents, pursues its own goals and synthesizes its own tools. TLC
checks the modules on small instances; TLAPS proves what matters most for every
value of the constants.

## Inventory

Paths are relative to `src/internal`, unless they begin with another directory.

| Component | Code | State | Operations | What is hard | What makes it correct | Module |
|---|---|---|---|---|---|---|
| Complex task | `agent/planner.go`, `agent/orchestrator.go`, `agent/worker.go` | the task graph, `completed`, `results`, one goroutine per launched subtask | Decompose, Execute, ExecuteSubtask, synthesize | the scan reads `completed` while workers write it; plans come from a model and may be cyclic or repeat identifiers; partial failure | dependencies first, every subtask once, an answer only when all have succeeded, the call always ends | `TaskGraph`, `Orchestrator` |
| Agent loop | `agent/agent.go`, `agent/context.go` | message list, token budget, iteration count | HandleMessage, StreamMessage, AddMessage, truncate, SummarizeOldest, ClearContext | parallel tool calls, truncation and summarization cutting through a tool exchange, several messages of one session at once, crashes | for calls one at a time: every tool result follows the call it answers; prompts are whole and fit | `AgentLoop`, `AgentOverlap` |
| Conversations | `agent/manager.go`, `memory/store.go`, `web/api.go` | agents by session, the branch of each, message rows | GetAgent, ProcessMessageWithBranch, SwitchBranch, CreateBranch, reload | a switch or a reload beside a question of the same session, saves that fail | memory holds one session's messages, each once, each saved or its save failed | `Conversations` |
| Migrations | `memory/migrations.go` | columns, `schema_version` | NewStore, Migrate | a crash between any two migrations, data of any older version | a store that opens has every column; old data opens | `Migrations` |
| Provider router | `provider/router.go`, `provider/fallback.go` | active provider, failure counts, cooldowns | SetActive, CompleteWithFallback, CompleteParallel, EnhancedFallback, GetProviderHealth | fields read without the lock, recursive read locks, cooldowns | counts follow what providers did, nobody gives up early, no call hangs on the router's lock | `Router`, `Probes` |
| Provider adapters | `provider/{openai,anthropic,gemini,ollama,client}.go` | none between calls; a stream's two channels | Complete, Stream, messages to and from the protocol | protocols without call identifiers, providers changing within a conversation, streams that break off | a result reaches its call, an answer kept is whole | `ProviderMessages`, `Terminal` |
| Terminal | `tui/*.go` | the `streaming` flag, the screen | Enter, Escape, clear, switch | a reply that goes on after Escape, three goroutines and two bounded channels behind each | what is shown and what is remembered agree; no goroutine is left behind | `Terminal` |
| Web server | `web/server.go`, `web/channel.go` | connections, a mutex, sessions | read loop, handleMessage, sendMessage, pings, Stop | a goroutine per question, one mutex for all writes, clients that stop reading | replies whole, on the connection that asked; Stop returns | `WebServer` |
| Chat channels | `channel/*`, `contrib/channels/*` | connections, tokens, sessions, QQ's processed messages | Start, Stop, handlers, replies | duplicates, session names, replies from goroutines that outlive the channel | sessions apart, replies where they belong, a message taken once | `ChatChannels` |
| Human in the loop | `tool/builtin/ask_human.go` | pending requests | Execute, AddRequest, SendResponse, SendResponseByIndex, RemoveRequest | answer against timeout, two answers to one request | an acknowledged answer reaches the asker | `HumanInTheLoop` |
| Tools | `tool/registry.go`, `tool/executor.go` | tools by name, statistics | Register, Execute | calls that overlap each other and registrations; approval | a call is decided by its tool's level, and recorded as what it was | `ToolExecution` |
| Sub-agents | `subagent/manager.go`, `tool/builtin/spawn.go`, `tool/executor.go` | sub-agents by id and status | Spawn, SpawnWithCallback, executeTask, Cancel, Remove, SendMessage | asynchronous end against Cancel and Remove; the context a background task inherits | nothing that runs is lost sight of unless it was cancelled; reports are whole | `SubAgents` |
| Agent pool | `agents/manager.go` | agents by id and status, one goroutine each | Spawn, Collect, Kill, Cleanup | Kill against the goroutine's own end, Cleanup under a Collect | at most `maxAgents`; a kill stands | `AgentPool` |
| Scheduled jobs | `tool/builtin/cron.go` | jobs, enabled flags, next runs | addJob, removeJob, enableJob, checkAndRunJobs, Start, Stop | callbacks under the lock, a loop that goes by an old time | callbacks never early, and no more of them than intervals; a due job runs | `CronJobs` |
| Heartbeat | `heartbeat/*.go` | ticker, stop channel, wait group | Start, Stop, runTasks | lifetime of the ticker against that of the loop | tasks run at every interval until Stop | `Heartbeat` |
| Goals | `ags/*.go` | goals in a store; the scorer's weights | synthesis, selection, execution, metacognition | crash while a goal is active, full-row updates of stale copies, proposals beside proposals, weights that drift | a finished goal stays finished, every attempt past the maximum explained, no unexplained twins, weights positive with sum one | `Goals`, `GoalSynthesis`, `GoalWeights` |
| Tool synthesis | `toolsynth/*.go` | gaps, candidates, registered tools, a manifest | Scan, Run, processGap, Register, Remove, loadExisting | crash between file, map and manifest; which gaps count | what is written is what was chosen; what is registered survives a restart; gaps are ranked as counted | `ToolGaps`, `ToolSynth` |
| World model | `worldmodel/*.go` | entities, relations, confidences | UpsertEntity, UpsertRelation, decay, FindPath | look-up and write in separate statements, a decay that resets its own clock | bounded duplicates, decay within its share, shortest paths | `WorldModel` |
| Event bus, webhooks | `events/*.go`, `webhook/webhook.go` | handlers, dead letters, delivery log | Subscribe, Publish, PublishSync, ClearDLQ, deliver | a handler per goroutine, panics, a full queue, retries | every handler accounted for once, publishers go on | `EventBus` |
| Audit log | `audit/log.go` | rows chained by hash | Write, Verify | concurrent writers, crashes | Verify accepts what Write wrote and refuses what was altered | `AuditLog` |
| Rate limiter | `security/ratelimit.go` | recent requests per session | Allow, Cleanup | a sliding window under concurrent calls and clean-up | exactly the limit in any window | `RateLimiter` |
| Configuration | `config/*.go`, `app/onboard.go` | file, environment, settings, a watcher | Load, Validate, migrate, generate, Watch | a file being written while it is read, a program that writes its own, from whatever the environment has | a running program has valid settings and a provider; its own file starts it again | `Configuration` |
| Application | `app/app.go`, `cmd/wunderpus/main.go`, `db/db.go` | open databases, loops | Bootstrap, commands, Close | failure at any step, work under way at the end | what is opened is closed; only stragglers meet a closed database | `Application` |
| Not modelled | `agent/checkpoint.go`, `cost/tracker.go`, `tool/mcp`, `memory/vector.go`, most of `tool/builtin`, `skills`, `perception`, `security` but the limiter, `a2a`, `money`, `business`, `engineering`, `planning`, `social`, `edge`, `creative`, `logging`, `health`, `telemetry`, `errors` | | | pure I/O, formatting, pure functions on strings, stubs, or what only tests call | | |

`PROJECT.json` lists the same components, with a few split or merged, says of
each what is modelled or why it is not, and lists the hazards of the code at
their lines with the properties about them.

How the parts meet: a channel (terminal, web client, chat service) hands a
message to `agent.Manager`, which finds or makes the session's `Agent`; the
agent adds it to its `ContextManager`, which also saves it to the store, asks
the `Router` for an answer, and runs the tools of the answer through the
`Executor`, one goroutine each. Some tools reach back into the program: `spawn`
and `message` into `subagent.Manager`, whose sub-agents are agents again;
`ask_human` into `HumanInTheLoop`, which a channel's handler answers. A complex
goal goes to `Agent.HandleComplexTask`, which has a planner write a task graph
and the orchestrator run it. Tool synthesis, goals and the heartbeat run on
timers of their own beside all this. Shared state is protected by one mutex per
object, where there is one; the interesting places are those where an object is
read outside its mutex, through two mutexes, or after the mutex was given back.

## Modules

One module per component; `*_proof` modules hold the theorems of the modules
they extend; `MC*` modules hold the values that a `.cfg` cannot write, and three
of them put components side by side.

### The side-by-side modules: MCRouter, MCChat, MCServices

Most components share no state that is modelled: they meet in calls whose other
end is a choice in each (an agent that answers or fails, a store that may refuse
a row). `MCRouter`, `MCChat` and `MCServices` each choose one component at the
start of a behaviour, the variable `subject`, and leave the others as they
began. The state spaces add up and do not multiply, and each component is
explored whole. A property of such a run is a property of every component it
names, checked over all of them; liveness is one formula over the conjunction of
what each waits for. Components that do interact are in one module: the
executor's context and the sub-agents (`SubAgents`), Discord's handlers and
`ask_human` (`HumanInTheLoop`), the stream of a provider, the agent's goroutine
and the screen (`Terminal`), the bus and the webhooks (`EventBus`), the manager,
the agents and the rows (`Conversations`), the loop and its rows (`AgentLoop`).

| | Components |
|---|---|
| `MCRouter` | `Router`, `ProviderMessages`, `Conversations`, `WorldModel`, `GoalSynthesis`, `GoalWeights`, `ToolGaps` and, as `Records`, `ToolExecution` and `Migrations` |
| `MCChat` | `HumanInTheLoop`, `WebServer`, `ChatChannels`, `Terminal` |
| `MCServices` | `SubAgents`, `RateLimiter`, `AuditLog`, `AgentPool`, `Heartbeat`, `Goals`, `EventBus`, `CronJobs`, `Configuration`, `Application`, `Probes` |

### TaskGraph and Orchestrator: a complex task

`TaskGraph` is the abstract specification: a plan is adopted, a subtask finishes
only after its dependencies, an answer is given only when all have finished, and
the run may be given up at any time. `Orchestrator` is the code
(`agent/orchestrator.go`, `planner.go`, `HandleComplexTask`), and implements it
with `finished` the subtasks whose goroutine has stored its result and `verdict`
the outcome.

| State | In the code |
|---|---|
| `pc`, `cursor` | the calling goroutine: planning, the `for` of `Execute`, its range over `graph.Subtasks`, `wg.Wait`, `synthesize` |
| `batch`, `loopErrs` | the goroutines launched in this iteration (`didWorkThisLoop`) and the errors they collected |
| `completed`, `results` | the maps, written under `mu` |
| `worker`, `context` | each goroutine, and the dependencies whose results it was given |
| `memory` | the two messages the call leaves in the conversation |

The two unlocked reads of `completed` (`Scan`, `Deps`) are steps of their own,
and the write by a worker has a beginning (`StartStore`) and an end
(`EndStore`); when a read falls between them `MapFault` lets the Go runtime
abort the process. A plan is any sequence of subtasks: nothing in the code
refuses repeated identifiers, cycles or names of no task.

### AgentLoop: a session's conversation

`HandleMessage` and `StreamMessage` over one `ContextManager` and its rows. A
message is its role, the call and iteration it belongs to, its place among the
results of one answer, and its size in tokens; the text is left out. Actions
follow the handler: `Start`, `Ask` (which truncates, as `buildMessages` does),
`Reply`/`AskFails`/`CallTools`, one goroutine per tool (`StoreOutput`,
`BadArguments`, `Callback`, `ToolPanics`), `Join`, `AddResult`, then
`NoSummary`/`AskSummary`/`EndSummary` and the next iteration. `Add` is the whole
of `AddMessage`: append, truncate, save, and a save that fails is forgotten.
`Crash` ends the calls under way and reloads the rows.

Nothing in the agent is locked. `AgentLoop` has one call of a session at a time,
so that nobody sees an addition half done, and may take it as one step.
`AgentOverlap` has calls that overlap: what each adds, with the four steps of an
addition apart (`Read`, `Write`, `Save`, `Truncate`), so that a message may land
between others, or be lost when another call writes back an older slice.

### Conversations and Migrations: what outlives the program

`Conversations` has the agents of the manager with the branch and the memory of
each, the rows, and the questions, each in a goroutine (`Handle`): it is bound
to an agent and branch (`Bind`, and for a branch other than main a later
`SetMessages`), adds the user's message, asks, and adds the answer. An addition
is four steps, as in `AgentOverlap`: `ReadMemory`, `Remember`, `SaveMessage`,
`Cut`. A save may fail, which the code logs and no more (`unsaved`), and a load
may find nothing. `SwitchBranch` replaces the memory by the rows of a branch,
but an empty branch leaves what was there (`Replaced`); `CreateBranch` moves a
row to a branch of its own; `Restart` forgets the agents. What a query
selects is told by the places of its rows (`Subsequences`). What the agent does
in between is `AgentLoop`. `Migrations` is `NewStore`: tables created where
missing, the version read, a transaction per migration, on a disk of any age
(`born`), with the program ending between any two steps.

### Router and Probes: providers and fallback

`Router` is `SetActive` and `CompleteWithFallback`. The active provider is two
fields, a name and an object, written and read without the lock, so
`SetName`/`SetProvider` and `ReadProvider`/`ReadName` are separate steps; counts
change under the mutex in `RecordSuccess` and `RecordFailure`. The range over
the map of providers visits `todo` in any order (`Pass`, `Skip`, `Try`).
`Elapse` is the passing of five minutes since a failure. `torn` are the callers
whose two reads a switch overlapped, `doubtful` the providers such a caller
charged, or spared, until they answer: what is known of their counts, and all
that is given up of it. `Target` gives aliases:
the name of a protocol stands for the first provider that speaks it. `Probes`
has the three other callers over the same counts and a read-write lock that lets
no reader in past a waiting writer: a `Racer` (`CompleteParallel`), a `Faller`
(`EnhancedFallback` with its error classes and cooldowns), a `Watcher`
(`GetProviderHealth`). `reading` counts how often each holds the lock; the inner
read of `isHealthy` is a step of its own, so that a writer may come between.

### ProviderMessages and Terminal: what goes to a provider and comes back

`ProviderMessages` has the agent's messages `said` and, in `Encoded`, what each
adapter makes of them: by identifier (OpenAI, Anthropic), by the name of the
function (Gemini), by place (Ollama), with the identifiers that the adapters of
the last two make up when they read a response (`CallId`) and the prefix they
cut off when they write one. `Choose` changes the provider at any time.
`Terminal` has for each question three goroutines (`producer`, the provider's;
`pump`, the agent's; `reader`, the command of the interface) and two bounded
channels. The server's part, `Piece`, `EndMark`, `EarlyEnd`, `Break`, differs by
provider in what an adapter makes of an end without a mark. `Escape` lowers a
flag and cancels nothing.

### WebServer and ChatChannels

`WebServer` has a read loop per connection (`loops`), a goroutine per question,
and `mutex`, which is free in every state but when a write does not end: its
holder then keeps it for good. `stalled` are the clients that stopped reading.
`inbox` is what each client was sent. `ChatChannels` has one table, `Channel`,
of what ten channels take, drop and obey, what parts of a message name its
session (that of a WebSocket client may be named by the client, and is then
taken bare: `Session`), where the reply goes, and whether the time the channel
gives the agent is 120 ns (`2*60` as a `time.Duration`). The steps are the same
for all: `AskAgent`, `Duplicate`, `Drop`, `Tell`, `Clear`, and the goroutine of
each message taken; `Start`, `DialFails`, `Refresh`, `Stop`.

### HumanInTheLoop: questions and answers

`ask_human`, the map of requests, `SendResponse`, `SendResponseByIndex`, and the
two Discord handlers that reach them. A handler holds the read lock from `Check`
to `Close`; two handlers may hold it together, both find the request not
completed, and the second sends to or closes a closed channel: `Panic`.
`Removed` needs the write lock, so it waits for `Readers`.

### SubAgents: spawning, reporting, cancelling

`subagent.Manager` with the `spawn` and `message` tools and the part of the
executor that matters to them, the context it cancels when a tool returns. The
record of a sub-agent is written by its task under the record's mutex and by
`Cancel` under the manager's (`Cancel`, `SetCancelled`), so neither excludes the
other; the `message` tool reads status, result and error one lock at a time
(`ReadStatus`, `ReadResult`, `ReadError`). A sub-agent with a prompt of its own
(`bare`) has an agent without a sanitizer, whose first message panics.

### ToolGaps and ToolSynth: tools that the program writes

`ToolGaps` is a scan of the latest messages, newest first, with the patterns
each matches, the keys phrases are normalized to, and the ranking: priorities by
type, frequency and feasibility in thousandths, sorted by the insertion the code
does. `ToolSynth` is `Pipeline.Run` and `processGap` from `Scan` to `Register`,
`Registrar.Remove`, a `Crash` at any step and `Restart`, which goes by the
directory of sources. `os.WriteFile` is a truncation and a write, each of which
may fail or be the last thing the program does (`Torn`). The mutex is `lock`;
`WriteValidSource` writes without it, as the code does. A candidate is its
source and its `BuildError`, `Validate` gives what the validator can return, and
`FirstValid` (coder) and `Best` (pipeline) are the two places that choose one.
The tester is given the source and drops it: it has its runner run whatever goes
by the tool's name (the application's fails every case). So which gaps a scan
finds, what models write and how many cases pass are choices, and only that
`Enough` of them passed is kept.

### Records: ToolExecution with Migrations

`ToolExecution` follows each call of `Execute` through the lookup (`Find`), the
level (`Blocked`, `Allow`, `Deny`, `ApprovalFails`), the run, the statistics
(`Record`) and the audit log (`Audit`), beside other calls and `Register`, which
refuses a name that is taken. `Records` only puts it beside `Migrations`, for
what is proved about both.

### WorldModel, GoalSynthesis, GoalWeights: what the program learns

`WorldModel`: an extraction looks up and writes in two steps, by several
writers; days pass, and the daily cycle runs or does not; `FindPath` is the
breadth-first search, checked against reachability. `GoalSynthesis`:
`Begin` asks a model, `Check` validates its proposals and reads the pending
goals, `Compare` reads the active ones and drops what is like either, `SaveGoal`
inserts row by row. Each query may fail, which the code takes for an empty
answer, and each insert; meanwhile the metacognition loop inserts, and the
executor moves goals between the two queries (`Attempt`, `Retry`, `CloseGoal`).
`GoalWeights`: weights in ten-thousandths, adjusted,
clamped, normalized and validated as the code does it, over every set of
findings.

### The services

- *RateLimiter* (`security/ratelimit.go`): `limits` is the map of time stamps,
  `now` the clock, `cleaner` the goroutine that repeats `Cleanup`. `Allow` is
  one step, under the mutex; `granted` and `refused` are histories that the code
  does not keep, so that what it forgets can be held against it.
- *AuditLog* (`audit/log.go`): a write is `Lock`, `ReadLast`, `Insert` and
  `WriteReturns`, or `WriteFails`; `Crash` at any of them. A hash is the
  sequence of what it was computed from, so that different chains have different
  hashes. One `AuditLog` has the database, as in the application: the mutex is
  in the object, and two would race.
- *AgentPool* (`agents/manager.go`): `agents` is the map, `status` and `outcome`
  the record of an agent, `run` its goroutine. Its end is two writes under the
  mutex, `EndStatus` and `EndOutcome`; identifiers are used again after
  `CleanupAgents`. `Collect` changes nothing and has no step: that it may return
  half an end, because it reads after it has released the lock, is plain from
  the state between the two. A killed runner goes on until it heeds its context,
  so the records are bounded by `maxAgents`, and the goroutines are not.
- *Heartbeat* (`heartbeat/scheduler.go`): `Start`, its return with the deferred
  stop of the ticker, the first run, the loop, `Stop`. `Stop` waits for the loop
  only.
- *Goals* (`ags/executor.go`, `store.go`): `store` has the status and the
  attempts of each row, `copies` the rows as a cycle fetched them. A cycle is
  `Fetch`, `Rescore` of each row, `Choose`, `Count`, then `DecomposeFails`, or
  `Activate` and `Judge`; every write is one of the whole row, and may fail
  unnoticed (`Fault`), or be the last the program does (`CrashInCycle`). It is
  run by the loop or by `RunOnce` (`mode`): when the goal cannot be decomposed,
  the loop judges it as after any failure, and `RunOnce` leaves it pending,
  with however many attempts (`Spare`). Decompositions fail as often as they
  like. Scores are left out: any goal may have the highest. One cycle runs at a
  time. Nothing in the code enforces that; but `AGSManager.Start` starts no loop
  (`ags/manager.go:50-54`), and cycles are run one by one. Two at a time would
  undo each other's rows.
- *EventBus* (`events/bus.go`, `webhook/webhook.go`): an event has the handlers
  subscribed when it was published, each in a place of its run; a publisher that
  waits (`sync`, high priority) goes on after all. A panic becomes a dead
  letter, the oldest of which goes when there is no room; a webhook tries three
  times and records one delivery.
- *CronJobs* (`tool/builtin/cron.go`): the jobs, a clock in seconds, and the
  loop: `ReadNow`, then `TakeLock`, then `CallBack` and `JobDone` for one due
  job after another, under the mutex and by the time that was read, while the
  clock goes on. An interval below a second is none (`Interval` holds 0). A
  callback that uses the tool waits for that mutex, and so for itself: the loop
  is then `stuck`, a choice of the initial state.
- *Configuration* (`config/*.go`, `app/onboard.go`): defaults, file,
  environment, migration, validation and conversion as operators over the
  settings that decide whether the program starts and which models it has; the
  environment has keys, a host, a level of the log and a key of the cipher,
  good or bad, and what it has is in the file that the program writes; the file
  may be caught between truncation and write; the watcher, which a rename
  leaves blind.
- *Application* (`app/app.go`, `cmd/wunderpus/main.go`): Bootstrap's steps, each
  of which may fail, the commands, the loops and the work they begin,
  interruption, `Close`.

## Runs

| Run | What it shows | Bounds |
|---|---|---|
| `orchestrator` | over every plan and interleaving: dependencies first, no stray worker, complete answers, exact verdicts, no relaunch, refinement of `TaskGraph`, termination | three identifiers, up to three subtasks |
| `orchestrator_fault` | violation of `NoMapFault` | two identifiers, two subtasks |
| `agent_loop` | results follow their calls (`ResultsAreSound`), prompts are whole, end with what is new and fit (`PromptsAreSound`), memory is an end of the history | two messages, one at a time; two iterations of up to two tools; sizes 1 and 3 in a budget of 6; one failed save, one crash |
| `agent_loop_overlap` | violation of `InOrder` | two messages at once, up to two tools each, room for four messages |
| `router` | counts exact and no early giving up; results reach their calls; memory is saved or its save failed; learning, records and the ranking of gaps are sound | see below |
| `sub_agents_background` | violation of `InBackground` | one sub-agent, two callers |
| `chat` | answers acknowledged are there and only asked questions listed; screens are right; sessions and replies are kept apart; nobody waits for ever (`ChatGoesOn`) | see below |
| `human_in_the_loop_index` | violation of `AnswersTheirQuestion` | two questions, two handlers |
| `tool_synth` | registered tools survive, entries have files, what is written is what was chosen, runs end | two names, two sources of which one does not compile, two temperatures, two gaps and two cases, any number of crashes |
| `services` | the limiter, the audit chain, the pool, goals, sub-agents, events, jobs, probes, settings, start and stop; nothing is waited for for ever (`ServicesGoOn`) | see below |
| `heartbeat` | violation of `RunsAgain` | none needed |
| `fresh_start` | violation of `FreshOpens` | none needed |

Properties that have several parts name them in their definition:

| Property | Parts |
|---|---|
| `ResultsAreSound` | `ResultsFollowCalls`, `ResultsAreReal` |
| `PromptsAreSound` | `PromptsAreAnswered`, `PromptsEndWithNews`, `PromptsFit` |
| `LearningIsSound` | `PathsAreShortest`, `RowsAreFew`, `DecayIsFair`, `TwinsAreExplained`, `WeightsStaySound` |
| `RecordsAreSound` | `CallsAreAccounted`, `MigrationsAreSafe` |
| `ScreensAreRight` | `RepliesAreWhole`, `TerminalIsSound` (`AnswersAreWhole`, `OneAtATime`) |
| `ChatsAreKept` | `SessionsAreApart`, `RepliesGoHome`, `TakenOnce` |
| `TrackingIsSound` | `RunningHasATask`, `OnlyCancelledAreLost` |
| `BackgroundIsSound` | `EventsAreAccounted`, `CallbacksAreSpaced`, `LosersAskedAll` |
| `StartIsSound` | `ConfigIsSound` (`RunningIsSound`, `GeneratedSuffices`, `DeliveredIsValid`), `AppEndsWell` (`ReturnsClosed`, `OnlyStragglersAreLate`) |

Why these bounds are enough for what they look at:

- *Orchestrator.* Three subtasks are the least in which a dependant of a
  dependant, a cycle of more than one, a repeated identifier beside a third
  task, and a failing sibling of a finishing worker occur. Every plan of that
  size is an initial choice.
- *AgentLoop.* With a budget of 6 and results of 1 or 3, truncation cuts before,
  inside and after an exchange, and the threshold of a summary (80 % of the
  budget) lies between sums that occur. Two calls are the least for a second one
  to meet what a first one left, a fault or a crash included. Iterations are 2
  in place of `constants.MaxIterations`: the second is the first that follows
  results, and the loop is the same after it.
- *AgentOverlap.* Two calls, with one or two tools or none, are the least for a
  message of one to come between those of the other, and for one to write back
  what the other has not in its slice; the fifth message truncates.
- *Router.* Two names let a switch happen between any two steps of a call; a
  second model makes the inner loop repeat. `FailLimit` 0 in place of 5 makes
  one failure reach the limit; counts above it make no difference. The proofs
  hold for any limit, and for aliases, which the instance has not.
- *Probes.* One process of each kind, which is what the three call sites are; a
  provider is unhealthy at its first failure (`Tolerated` 0), hot at the first
  in a call (`Heated` 0), and the active one has two spare models, of which the
  second is then left out. `MaxProviders` 0 is the limit's default, none.
- *ProviderMessages.* All four protocols, two functions, three exchanges: an
  identifier comes again in the second, under the same and under another
  provider.
- *Conversations.* Two questions, of one session or of two, overlap in every way
  and at every step of an addition; one row to branch from and one switch; room
  for three messages, so that an answer truncates. Every save and load may fail.
- *WorldModel.* Three names, one type and two writers: a duplicate, a path of
  two relations and none; the decay begins at once (`DecayAfter` 0 in place of
  30) and a day is enough to see it run twice, once, or not.
- *Goals, GoalSynthesis, GoalWeights.* Two goals compete for a cycle, with three
  attempts as in the code, a fault at any one of them, and two calls of
  `RunOnce`, so that the second may find a goal that the first has left with its
  attempts used up. Two synthesis cycles and two rows, so that each query may
  miss what the other cycle, the metacognition loop or a failure has left out;
  two titles, alike only to themselves, and answers that repeat one or have a
  faulty one. One learner runs six times over every set of findings: with a
  twentieth a run that reaches the floor of a weight. A second learner adds only
  older weights to be set again, with which the sum is still that of one run.
- *ToolGaps.* Two gaps, one under two phrases; a scan of the latest two of three
  messages, so that one falls out.
- *Records.* Two tools and two calls overlap. Every age of a store.
- *HumanInTheLoop.* Two handlers are the least that both pass the check; two
  questions the least for an index to mean another.
- *WebServer.* Two clients, one of which may stall the other; two frames, which
  may both be questions. A ping is a choice at any time.
- *ChatChannels.* Two deliveries of at most two people's messages, in a room and
  in private, over each set of channels whose session names could meet:
  Telegram's with DingTalk's, QQ's with its groups', the WebSocket server's,
  whose clients name those of others, with Telegram's and with WeCom's, the
  others alone. QQ
  remembers one message and forgets one at a time (10000 and 5000 in the code),
  so that the second delivery may come before or after it was forgotten.
- *Terminal.* Two questions, one Escape, channels of one place (64 in the code),
  one piece and a mark: a channel is full when the reader is late. Requests are
  not sent again (`Retries` 0): a retry comes before the first piece and repeats
  a step. `openai` and `gemini` are the two behaviours at an early end.
- *SubAgents.* Sub-agents share only the map and its mutex, so the races are
  those of one record; the proofs hold for any number. Two callers are a
  reporter and a canceller, a remover, or a spawner.
- *ToolSynth.* Two names let a removal concern the tool being written or
  another; two temperatures let the first candidate be the invalid one.
- *RateLimiter, AuditLog, AgentPool.* Time runs over two windows and their
  edges, so that a request meets stamps inside, at the edge of and outside its
  window. An entry may be written after one of another writer failed, and once
  more by a program that restarted. Three records for two places make a spawn
  wait for a cleanup and meet a goroutine that outlived its record.
- *EventBus, CronJobs.* Two handlers, one of them a webhook, and two events meet
  a queue of one dead letter (1000 in the code). Two jobs of intervals 0 and
  1, and two seconds: a callback lasts while the other job becomes due, the
  loop's time grows old at the mutex, and a job is due again or was missed.
- *Configuration, Application.* Every setting that decides a start is good or
  bad in some file; eight environments have none, keys, a host, and a bad or a
  good level or key of the cipher, alone or beside keys; three edits are a
  file, its replacement and a change of the environment. All commands.

`CHECK_DEADLOCK FALSE` stands where the system, or the bound, really stops: a
panic or `os.Exit` ends the program (`SubAgents`, `HumanInTheLoop`, `WebServer`,
`Application`), all questions may be done, the clock, the table or the events at
their bounds, the pool out of records, the heartbeat stopped. `Orchestrator`,
`AgentLoop` and `ToolSynth` say by an explicit step that their calls have ended.

### Fairness

Liveness is checked only under what the code and the Go runtime give, as weak
fairness of steps that are always taken in the end, and strong fairness of a
step that needs a mutex: Go's mutex hands itself to a waiter that starves, and
its read-write mutex lets no reader past a waiting writer.

- *Orchestrator*: weak fairness of the caller and of each worker. A worker's
  calls of providers and tools end: clients have a timeout of 60 s
  (`provider/client.go:20`), the executor gives each tool one.
- *ToolSynth*: weak fairness of the pipeline's steps and of a removal under way,
  strong fairness of `Lock`. Models and tests end: the tester gives a case 30 s.
  Crashes and restarts are not fair.
- *SubAgents*: weak fairness of a task (its panic included) and of
  `SetCancelled`, the end of a critical section; strong fairness of the
  watcher's tick, which polls and may need the mutex.
- *HumanInTheLoop*: weak fairness of the timer of a question and of the
  handlers; strong fairness of `End`, which waits for the write lock. Nobody is
  assumed to answer.
- *WebServer, ChatChannels, Terminal*: weak fairness of what goroutines do, and
  of a server that a streamed request went to: it sends, ends, or the client's
  timeout breaks it off. Nobody is assumed to ask, to press a key or to hang up.
- *Goals*: weak fairness of the cycle, that is, cycles are run as long as a goal
  is pending, and the calls of models and tasks in them end. `RunOnce` is called
  boundedly often (`MaxCalls`), so the later cycles are the loop's, which
  abandons a goal that cannot be decomposed. Were it called for ever, it could
  choose for ever the one goal that it leaves pending, and the others would
  wait. New goals, faults and crashes are not fair. There are finitely many
  goals: with an endless supply of more urgent ones, nothing in the code keeps
  one from waiting for ever.
- *EventBus, CronJobs, Configuration, Application, Probes*: weak fairness of
  handlers and webhook requests (30 s each), of the loop of the jobs and its
  callbacks, strong of its end, which its `select` may choose whenever it comes
  back to it, weak of the watcher, of `Close` and a beat under way, of each step
  of a call of the router and of each probe.
- *Heartbeat* (`HeartbeatFairSpec`, in its own run): weak fairness of everything
  but `Start`, the end of the context and `Stop`.

`ChatGoesOn` and `ServicesGoOn` are `SomeoneWaits ~> ~SomeoneWaits`, with
`SomeoneWaits` the disjunction of what each component calls waiting (`WebWaits`,
`ChatWaits`, `TerminalWaits`, `HumanWaits`; `WatchersWait`, `GoalsWait`,
`PublishersWait`, `CronWaits`, `WatchWaits`, `AppWaits`, `CallersWait`). In a
behaviour, which is one component's and in which users ask boundedly often, that
nobody waits again and again is that every wait ends. Where the code does let
somebody wait for ever, the predicate leaves that out and says so: a web client
that stopped reading (`stalled = {}`), a cron callback that uses its own tool, a
call of the router that reads under its lock twice with a writer in between
(`SelfLocked`), a goal that a fault or the end of the program met and left
active, a watcher that a rename has made blind, and a program that panicked.
These waits are reachable in the modules; the two liveness properties say
nothing of them, and so nothing against them.

`AgentLoop`, `Router` and the components of `MCRouter` state no liveness
property. That the loop of a message is bounded is in its guards, and the
deadlock check shows that a call can always go on.

## Proofs

TLAPS proves, for every value of the constants that satisfies the named
assumptions (each in the module that declares the constants, and evaluated by
TLC on its runs):

| Module | Theorems | Inductive invariant, beyond the properties themselves |
|---|---|---|
| `Orchestrator_proof` (`SizeAssumption`) | `TypeCorrect`, `DependenciesAlwaysFirst`, `NoWorkerStrays`, `AnswersAreComplete`, `NeverRelaunched`, `VerdictsAreExact`, `Refinement` | `Shape`: where goroutines can be for each place of the caller. `Ahead`: what the scan has yet to come to is idle or was stored by an earlier batch. `Entries`: an entry of `completed` or `results` was written by a subtask of that identifier. `Failures`: a failed worker is in `loopErrs` until its batch ends the call. `Synthesis`: the caller synthesizes only with as many entries as subtasks, and a set as large as the sequence leaves no position out (`FullImage`). `Remembered`: only an answer leaves an exchange in memory. For the verdict, `Batched`, `PassedOver`, `Ordered`, below |
| `AgentLoop_proof` (`BoundAssumption`) | `TypeCorrect`, `HistoryStaysEnd`, `ResultsStaySound`, `PromptsStaySound` | `Base`: the shapes (`Control`, `Places`, `Memory`, `IsMap`), every message is one its call has come to (`Pasts`), none is empty (`Real`), and memory without what is unsaved is an end of the rows (`EndsIn`). `Order`: in memory, rows and prompts each exchange is settled but for what `Excused` allows, and `Tells`: where a call is says what they end with |
| `Router_proof` (`TargetAssumption`, `ModelsAssumption`, `LimitAssumption`, `NoneAssumption`) | `TypeCorrect`, `CountsStayExact`, `NeverGivesUpEarly` | `Locals`: what a call holds where it is. `Whole`: the two fields agree unless a switch is between them, and a call that is not torn has a provider and its own name. `Covered`: every name is yet to be visited, being tried, passed over as active, or its provider tried or unwell (`done`) |
| `Records_proof` (`ToolAssumption`) | `CallsStayAccounted`, `MigrationsStaySafe`, `RecordsStaySound` | `Tallied`: the statistics count sets of calls, which a step changes by one element (`FS_AddElement`). `Trailed`: what the log has of a call where it is, and the level it was found with. `Fresh`, `Upgrading`: the columns that go with a version, by the age of the disk. |
| `Knowledge_proof` (`ConversationAssumption`, `AdapterAssumption`, `WorldAssumption`, `SynthesisAssumption`, `WeightsAssumption`, `GapAssumption`, and those of the two above) | `PathsHold`, `MemoryStaysSaved`, `ResultsStayReached`, `LearningStaysSound`, `ScansStayRight`, `AllTypesHold`, `RunStaysSound` | `ConvInv`: no two rows have the same line, and the phase of a question tells whether its lines are rows (`RowsAsked`); a line of a memory, or of what a goroutine has read and will write back (`ReadsGood`), is a row of its session, about to be one, or one whose save failed (`Held`). `DialogInv`: in `said`, a message with calls is followed by exactly its results. `WorldInv`: the rows of a thing and the writers that looked before there was one are at most the writers (`Few`); rows and what is pending are at most the facts and things (`Room`); each row is as confident as its days allow (`FairRow`). `SynthInv`: what a cycle has left to save (`LeftApart`), and what it has made (`MadeApart`), is unlike what was open and in its queries (`Known`), and both together are at most its share (`Share`). `WeightsInv`: stored and pending weights are `Plausible`, near one in sum and none below a thousandth |
| `ToolSynth_proof` (`SourceAssumption`, `RateAssumption`, `BoundAssumption`, `NamesAssumption`) | `TypeCorrect`, `RegistrationsSurvive`, `NoDanglingEntry`, `WritesStayChosen` | `Held`: the mutex is held exactly by the section that is in it. `Working`, `Written`: a pipeline at work has a valid candidate, and past the rewrite its file. `Removed`, `Dangling`: what a removal under way has done so far. `Stopped`: nothing runs in a program that is down. `Chosen`: from the tests on, both places of the code choose the same valid candidate, and from the first write on enough cases have passed |
| `Chat_proof` (`NoneAssumption`, `FiniteAssumption`, `WriterAssumption`, `ChatAssumption`, `MessageAssumption`, `TerminalAssumption`) | `AllTypesHold`, `ListedStayAsked`, `SentStaysThere`, `ScreensStayRight`, `ChatsStayKept` | `HumanInv`: what a handler answers was asked (`Asked`), and who is about to close a channel has put an answer there, or found one, that only the asker takes (`Answering`). `WebInv`: by its phase, what a question's client was sent (`SentSoFar`) and the notices that wait (`NoticesWait`); messages of different questions are apart (`Apart`). `ChatInv`: each reply is told once (`ToldOnce`), and what QQ has taken and forgotten fits what it remembers (`TakenInv`). `TerminalInv`: what the producer sent is what the pump has, the channels hold and the reader read (`ReplyOK`), and the memory is of the questions before (`ContextOK`) |
| `Services_proof` (`NoneAssumption`, `ShortAssumption`, `LimiterAssumption`, `AuditAssumption`, `PoolAssumption`, `GoalAssumption`, `BusAssumption`, `CronAssumption`, `FilesAssumption`, `ProbesAssumption`) | `TrackingHolds`, `WholeReports`, `LimiterIsExact`, `AuditChainHolds`, `PoolIsWhole`, `GoalsAreBounded`, `FinishedGoalsStay`, `ProgramEndsWell`, `BackgroundStaysSound`, `StartStaysSound`, `AllTypesHold` | the conjunction of those of eleven components, of which a step changes one, below |

The invariants of the services:

- *SubAgents.* `Placed`: a caller at work is concerned with a sub-agent that is
  where it left it. `Recorded`: what a task that ended has written. `Read`: what
  a caller has read of the record so far, which no later write of a final status
  undoes.
- *RateLimiter.* `LimiterKeeps`: what the map still holds was granted, what it
  dropped is outside the window, and numbers order the requests.
- *AuditLog.* `OneWriter`: whoever is between `Lock` and its end holds the
  mutex, and has the hash that is still the last.
- *AgentPool.* `EndIsHonest`: the record between the two writes of its end has
  the status of what its runner returned.
- *Goals.* `CycleOK`: in each phase, what the store has of the goals fetched and
  chosen: pending until activated, and copies equal to their rows until one is
  chosen. `TriesTally`: a try is counted in the row, or a fault accounts for it,
  and a goal that may be chosen again has a try left, or `RunOnce` spared it.
- *EventBus, CronJobs.* The dead letters are the latest of the runs that
  panicked, and each run of a webhook that ended has one delivery, which says
  how (`EventsOK`, `LettersOK`, `DeliveriesOK`). A job is due no earlier than as
  many intervals after it was added as it has called back, and one more when no
  callback of it runs (`JobOK`); what the loop is at was due before the time it
  goes by (`DueOK`), which is no later than the clock.
- *Configuration.* What runs was validated (`RunningIsSound`), a file of the
  program's own is what it makes of some environment (`OwnFile`), so that only a
  level or a key can be bad in it, and validated was whatever a watcher
  delivered (`DeliveredIsValid`), whatever else is in the file meanwhile.
- *Application.* `AppAt`: what runs, and that the core database is open, at each
  place of the program; `BeatsHaveALoop`.
- *Probes.* What a race and a fallback have asked, and what each provider told
  them, where they are (`RaceOK`, `FallOK`).

Where a module has a theorem `Inductive`, or `AllInductive`, it is that
invariant, and the properties follow from it. Each was first checked by TLC on
the instance of its run, and every invariant and action property of a passing
run is a theorem.

Five arguments are less obvious than the rest.

*Dependencies first.* The scan reads `completed` while workers write it. The map
only grows, and a result is written before the entry in `completed`, so whatever
a racing read sees is already backed by a result; the worker collects its
context later, under the mutex.

*The verdict.* A run that ends in a deadlock launched nothing in a whole scan,
so what is left has a dependency each that is not complete, and none of it can
ever be first: `PassedOver` says so of the subtasks the scan has come past while
the batch was empty, `Batched` that whoever is at work is in `batch`.
Conversely, in every set of subtasks that have a result there is one that waits
for no other of the set (`Ordered`), since the last result to come adds none
that an earlier one waited for; so a plan that was answered is acyclic. No cycle
has to be constructed.

*The order of messages.* `ResultsAreSound`, `PromptsAreSound` and
`MemoryEndsHistory` are about calls that come one at a time, as `AgentLoop` has
them: a command has one message, and the terminal takes no question while a
reply streams, as long as nobody presses Escape. Where calls of one session
overlap (a web client, a person who writes to a chat twice, Escape and a new
question) the order of results does not hold, and `agent_loop_overlap` shows it;
of memory, what then holds is `MemoryIsSaved`. `MemoryEndsHistory` counts from
the end: the messages in memory after one that was saved are as many as the rows
after its row. No fold over either sequence is needed to say that, or to prove
it.

*Memory that others write back.* In `Conversations` a goroutine writes a slice
made of what it read some steps before. `MemoryIsSaved` of the memory alone is
not inductive; it is with the same of what each goroutine has read
(`ReadsGood`), and with the phase of a question telling that a line not yet
tried to be saved is in nobody else's slice.

*Searches and sorts.* What a breadth-first search, a count over messages, or an
insertion sort computes for every input is an induction over the steps of the
loop. The induction theorems of the library take an operator, which the provers
here cannot instantiate; that every non-empty set of naturals has a least
element (`LeastNumber`, from `WFMin`) can be used at first order, and gives
induction over a set of the numbers for which a statement fails (`InductionOn`)
and the existence of recursive functions (`StepsExist`). With these, `PathsHold`
says that the search keeps exactly the things within so many hops; `Exact` and
`Part` say what a scan for gaps has counted after so many messages and patterns,
and `Ranked` what the sort has in order. This is why `FindPath`, `Candidates`
and `Sorted` are recursive functions, and why loops that leave elements out are
told by the places that remain (`Subsequences`): a fold with an operator as its
argument says the same and cannot be reasoned about.

Only model-checked are the liveness properties (`ExecuteEnds`, `RunEnds`,
`ChatGoesOn`, `ServicesGoOn`): fairness and `ENABLED` are outside this prover.
No module uses `RECURSIVE`. The violations are shown by their runs and nothing
is proved about them.

The constants' assumptions are what the code gives: a limit is a number, sets of
goroutines and of names are finite, a marker for nobody is nobody. `WorldModel`
asks for a finite set of things and of writers, since its bound counts them, for
confidences from 0 to 100 and for at least one level and kind.

## Where the code and its documentation part

A run shows each of these; `PROJECT.json` quotes the lines.

1. `orchestrator.go:53, 60` read `completed` without the mutex under which line
   98 writes it. The order of dependencies survives (above); the process may
   not.
2. Frames of one WebSocket session are handled in goroutines of their own, and
   an agent has no lock: messages of one call land between a tool call and its
   results of another, which `agent.go:290` says are in order, or are lost when
   the other writes back the slice it has read.
3. A task that the spawn tool starts "in the background" inherits the context
   the executor cancels as soon as the tool returns.
4. `!respond <index>` counts in a new range over a map, not in the list
   `!pending` printed.
5. `heartbeat/scheduler.go:78` defers the stop of the ticker to the return of
   `Start`, which comes at once: the tasks run once, and never at an interval.
6. A new database gets all columns from `CREATE TABLE`; migration 4 adds two of
   them again, and `migrations.go:75` forgives that of version 2 only: no fresh
   installation opens its store.

Seen while reading, without a run of their own:

- *Complex tasks.* `orchestrator.go:104` speaks of a batch of independent tasks;
  a dependant whose dependency ends during the scan joins the same batch. Line
  112 names a circular loop or a missing identifier as the reasons of a
  deadlock; a repeated identifier ends in it as well.
- *Agent.* `context.go:130` keeps the last two messages of a summary; after an
  answer with two tool calls or more those are results whose call is gone.
  `context.go:158` relies on the store for the full history, but a save that
  fails is only logged, and a crash within an exchange leaves its call there
  unanswered. A chunk with `Done` goes out before the answer is saved
  (`agent.go:466`, `470`). The warning for a flagged message is never shown: its
  chunk has both content and `Done` (`agent.go:407-411`), and the terminal stops
  at `Done`. `SetEncryptionKey` (`agent.go:91`) does not reach the context
  manager that saves.
- *Adapters.* A summary is a second system message, of which
  `anthropic.go:260-271` and `gemini.go:234-238` keep only the last: the agent's
  own prompt is lost with the first summary. A Gemini stream that breaks off is
  kept as a complete answer; one of another protocol that ends without its mark
  is shown as a reply and not remembered. A picture is dropped when the request
  falls back to Ollama (`app.go:434`).
- *Router.* `router.go:199` leaves out the name that is active now: a provider
  that became active during the call is never tried by it; line 195 and the
  alias of lines 85-95 have a provider that just failed tried again as another
  name. `docs` give five recent failures as the limit, line 254 asks for more
  than five. `GetProviderHealth` and `CompleteParallel` take the read lock
  twice; nothing calls them.
- *Sub-agents.* `spawn.go:205` sends to an abbreviated identifier, which is
  looked up as a full one: no message of the tool arrives. A cancelled
  sub-agent's status is overwritten when its task ends, and `Remove` takes it
  out of the map while its task goes on. A sub-agent with a
  prompt does not inherit its parent's sanitizer (`subagent/manager.go:87`), and
  its first message reads through the nil pointer: `Panic` in `SubAgents`.
- *Conversations.* `manager.go:128-136` switches a session to a branch and never
  back; line 147 loses a switch before the first message; a switch to an empty
  branch keeps the messages of the one before. `store.CreateBranch` moves a
  message where `docs/agent-core.md` has a branch copy the history.
  `store.go:175` orders rows by timestamps of one second, and relies on an order
  of ties that SQLite does not promise.
- *Web server.* A client that stops reading keeps everyone waiting, `Stop`
  included, since no write has a deadline. The ping goroutine writes without the
  connection's mutex and outlives `Stop`.
- *Channels.* Telegram's `/respond` is taken for an unknown command
  (`telegram.go:94-104`), though line 277 tells people to use it. WeCom,
  DingTalk, QQ and OneBot give the agent `2*60`, which is 120 ns. OneBot replies
  to the name of a session and never reconnects; DingTalk's refresh empties its
  token; QQ replies to a group in private; Feishu never replies; nothing
  constructs the channels under `contrib`.
- *Tool synthesis.* A validator that fails without output leaves an empty
  `BuildError` (`toolsynth/coder.go:73`), and the candidate counts as one that
  compiled. `registrar.go:77` says that tools are registered at run time, but
  `Register` does not use the registry it was given; the tables of synthesized
  tools and specifications are written and never read; a re-write that fails
  destroys the source of a tool that was registered, and a torn source is loaded
  at a restart; the tester runs a tool by its name and ignores the source it is
  given (`tester.go:58-70`), so that a source may be registered for tests that
  another passed; the runner of the application fails every case. The
  profiler's query selects five columns and scans four, so its timings count for
  nothing (`detector.go:271-301`).
- *Goals.* A goal that a crash or a lost write leaves active is never selected
  again; `RunOnce` leaves one whose decomposition fails pending, however often
  (`executor.go:312-315`), and may choose it before all others each time.
  Goals with more than two attempts that are pending (`ags/store.go:173`) hardly
  exist: the third attempt abandons. The synthesizer compares proposals with
  stored goals, not with each other, and takes a query that failed for one that
  found none.
- *World model.* `store.go:79` looks an entity up and inserts it in two
  statements; two extractions insert it twice. The decay sets `updated_at`
  (`store.go:337-338`), and so starts its own days again.
- *Checkpoints, budget, jobs.* `checkpoint.go:171` keeps the lowest step of a
  task where its comment says the latest; nothing but a test comes by.
  `cost.Tracker.Track` and `SaveCheckpoint` are called only by tests. A cron
  callback runs under the mutex its own tool needs; the next run is reckoned
  from the time the loop had before it came to that mutex, so that two in a row
  may be less than an interval apart; an interval below a second becomes none.
  The payload of a webhook is JSON written with `%v`.
- *Start and stop.* A bad level or a bad key of the cipher in the environment is
  written into the generated file (`config.go:484-500`), which then does not
  load, with the environment gone as well. The application's approval function
  approves. The wizard promises a start (`onboard.go:74`) that the validation of
  what it wrote may refuse. A legacy file with an OpenAI key loses its other
  providers in the migration; vLLM and LiteLLM with only an endpoint are not
  built; of two entries with one model name the later is lost; a secret that
  cannot be decrypted is used as it is; the watcher is blind after a rename. The
  heartbeat's first run is not waited for, and `os.Exit(1)` skips `Close`.

## Not modelled, and the plan

Sequential adapters of remote services and files, rendering, pure functions on
strings (sanitizing, redaction, prompt building, parsing of pages), and
libraries that the application does not construct are not modelled: no step of
theirs interacts with another. MCP's client and server are sequential calls over
the pipes of a child process, which no tool of the registry is built on; vector
memory is a table and a loop over it; agent-to-agent, money, business,
engineering, planning, social, edge and creative are stubs or wrappers of remote
services without state that lasts.

Left out of the modelled components: the response cache, which the agent looks
into and fills (`agent.go:185, 206`): a hit gives an earlier answer where the
model's loop takes any, and one with tool calls is asked for again (lines
186-197); the SOP lookup and telemetry of the agent; preferences,
procedures, backups and pruning of the store, `Broadcast` of the web server,
which nothing calls; usage counts and the marketplace of tool synthesis;
rotation of the audit log; properties and embeddings of the world model; wire
formats.

What could follow, in order:

1. An abstract life of a goal, and its refinement by `Goals` but for the goals a
   crash leaves active; an abstract conversation, and its refinement by
   `Conversations`.
2. `AgentLoop` and `Conversations` composed: overlapping calls on branches, with
   tools, summaries and failed saves; and what is left of the order of results
   when they overlap.
