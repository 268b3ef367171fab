# Hyperforge: specifications, model checking and proofs

These modules model the parts of Hyperforge whose correctness depends on the
order in which coroutines, processes, messages and failures meet: the path of a
question from a client's connection to the server and of the answer back, the
pipeline of agents that answers it, the services that hold something for others
(MCP servers and sessions, code mode, authorizations, streams), the A2A executor
and the agent harness, and the stores of sessions and configuration. TLC checks
them on small instances; the theorems about eighteen of them are proved with TLAPS for
every value of the constants.

`PROJECT.json` lists the components, the runs, the mutants that show each property
can fail, the source lines of every definition, the hazards, the findings and
the theorems.

Paths below are under `src/hyperforge/src/hyperforge/` unless they start with
`src/`.

## 1. Inventory

### The system

A client asks a question of an agent over HTTP, a websocket, MCP or A2A. The API
process publishes an *activation* on the broker (Redis streams, or queues in one
process for the standalone application) and reads an *answer stream*; a server
process takes the activation, runs the workflow's agents over a shared question
memory, and publishes intermediate steps, requests for feedback, the final answer
and DONE. Requests for feedback are answered on *reply streams*. The harness SDK is
a separate library on which one kind of agent is built.

```
 client ── websocket / POST ──┐
 client ── MCP ── pool ── transport ─┤ API process ── activation ──> server process
 client ── A2A executor ──────┘        <── answer stream ──       SessionManager
                                       ── reply streams ──>         └ agents, memory
```

### Components

| component | state | operations | what is hard | correct when | status |
|---|---|---|---|---|---|
| Interaction stream (`api/v1/interaction.py`, `interaction.py`, `server/session.py`, `broker/redis.py`) | receiver's queue and `expecting`, handler's position, answer, activation and reply streams, one answer task and one keepalive per question | websocket messages, activation, XREAD loop, feedback, keepalive, final answer, DONE, save | two tasks of one connection and two of one question; lost publications, a server that dies, trimming, read timeouts, a client that leaves | a live agent is never reported dead; replies reach their request; DONE follows the final answer and is last; streams end | partly (`Interaction`, `AnswerStream`) |
| MCP server pool (`api/mcp_server_pool.py`) | `_servers`, `_creating`, `_retired_tasks`, lock, leases, owning tasks | acquire, release, remove, eviction, reaper, shutdown | callers share a creation and can be cancelled while they wait; capacity while servers are made and undone | capacity, one server per key, leases counted, only unused servers closed, nothing left after shutdown | modelled (`MCPServerPool`) |
| A2A executor (`a2a/executor.py`, `a2a/task_store.py`) | pending task, waiters, receivers, cancelled ids; in Redis the pending record, the owner's lease, reply, cancel and relay streams | execute, feedback, cancel, listener, expiry | messages at any replica; claim and save are separate; a cancellation crosses a request for input | a reply reaches the request it answers; one consumer; every message gets an outcome; cancelled tasks are quiet | partly (`A2AExecutor`) |
| A2A HTTP surface (`a2a/server.py`, `auth.py`, `card.py`) | none | routing, card, headers | - | requests reach the executor of their agent | not modelled: no state of its own |
| Harness SDK (`harness_sdk/harness.py`) | messages, event log, inbox, turn loop, children, active ids, `_interrupted` | run, steer, interrupt, spawn/wait, stop, load | cancellations counted by asyncio; memory written before the log; children outliving tools | the log and memory agree; tool calls have outputs; agent limit; nothing runs on after a turn | partly (`Harness`) |
| Harness clients, agent definitions (`harness_sdk/clients.py`, `agents.py`) | none between calls | completion, declaration | retries of a provider | - | not modelled: conversions of formats |
| Harness tools, code mode sandbox (`harness_sdk/tools/codemode.py`, `codemode/`, `server/sandbox.py`) | limiter, admission tickets, sessions of the sandbox server, workers, callbacks | run, admit, call back, finish, cancel, lose a connection | client and server each count the same run; callbacks outlive it; every message can be the last | places come back once; no more workers than slots; a result is one valid output | partly (`CodeMode`) |
| MCP sessions and transport (`api/mcp_sessions.py`, `api/mcp_transport.py`, `api/v1/mcp_*.py`) | registry, session records, call records, mailboxes in Redis, all with a time to live | create, renew, delete, start, finish, cancel, reply, poll | WATCH/MULTI on several replicas; records that expire under a call; replies sent twice | bound on sessions; the reply taken is the one delivered; a clean-up removes its own record | partly (`MCPSessions`) |
| Retrieval pipeline (`retrieval/agent.py`, `context/agent.py`, `agent.py`, `engine.py`) and its agents (`src/agents/*`: rephrase, summarize, remi, conditional, restart, ...) | the stage, running agents, the chain of each question, contexts, answers | preprocess, context, validation, fallback, next agent, generation, postprocess, restart | questions in parallel, each a chain of agents that hand on what was found; errors and restarts | each agent sees its own chain; answers are from all saved contexts; the pipeline ends | partly (`Retrieval`, `Citations`) |
| Session memory and cache (`memory/memory.py`, `server/cache.py`) | stored conversation in pages; a cached list, bounded and expiring | load, append, save | append to an entry that was lost | what a question reads is the newest of the conversation | partly (`QAHistory`) |
| Session resources (`api/session.py`, `api/v1/session.py`) | resources of the knowledge box, by id and by slug | ensure, create, change, delete | check and create are two requests | one session for each name | partly (`SessionStore`) |
| In-process broker (`broker/local.py`) | LRU of streams, reply channels | publish, subscribe, send and receive a reply | a forgotten stream is made again; late replies make channels again | in order, once, nothing skipped | partly (`LocalStreams`, `OAuth`) |
| Configuration database (`db/`, `database.py`) and the REST API over it (`api/v1/*.py`) | agents, workflows, steps, rules, drivers, prompts, credentials | all requests of the API, loader, export, import, purge | every statement commits by itself | a purge takes what was deleted; an import restores an export | partly (`AgentStore`) |
| Migrations (`alembic/`) | schema | one-shot scripts | - | - | not modelled: nothing concurrent |
| Server process (`server/run.py`, `server/web.py`, `manager.py`), standalone application (`standalone/`) | wiring | start-up | - | - | not modelled; the session loop is in `Interaction`, the loader in `AgentStore` |
| Procedural graphs (`procedural/`) | graphs; artifacts of an evolution | validate, edit, neighbourhood, evolve | a stop between two files; cycles and dead ends | what is retained is sound, on record, no worse | partly (`Evolution`) |
| JSON schema, completions, LLM configuration | none | conversions | - | - | not modelled: data a model would restate |
| MCP agent (`src/agents/mcp`) | connection, tools, published functions; locks and grants of the authorization | connect, load, choose, call, elicit, preload, authorize | retries after success; two planners share one agent; redirects come late or twice | one interaction is completed; the model is told of every call; a callback reaches its grant | partly (`MCPClient`, `OAuth`) |
| Smart agent (`src/agents/smart`) | messages, attempts, iteration | plan, choose, call, ask the user | feedback, skipped calls and completion in one turn | every function called and every question to the user gets an outcome; a decision is asked once | partly (`SmartAgent`) |
| Restricted agent (`src/agents/restricted`) | `self.output`, shared by executions | run code, call back, save | executions side by side | a resolved answer stays | partly (`RestrictedAgent`) |
| NucliaDB agents (`src/agents/nucliadb`) | drivers, source information, contexts per source | ask, search, facets, catalogue, choose a source | sources at once, each may fail; filters from three places | results are within the filters; fallback only for all sources | partly (`NucliaDBAsk`) |
| A2A client agent (`src/agents/a2a`) | gathered text | send, feedback, continue | updates and whole tasks tell the same thing twice | the answer has each artifact once | partly (`A2AClient`) |
| Web frontend | browser | presentation | - | - | not modelled |

The hazards of all of them, with the line where each one bites and the
properties that would catch it, are in `PROJECT.json`. A hazard without
a property says why it has none.

### How the components interact

* The API process and the server share no memory: an activation, an answer
  stream per question and a reply stream per feedback request, all Redis
  streams. `Interaction` models both ends and the streams between them, with the
  losses and trimming that a Redis stream really has. In the standalone application
  `LocalStreams` takes the place of the Redis streams.
* The A2A executor is a client of the same answer stream. `A2AExecutor` takes the
  stream as the sequence of requests, DONE and failures its consumer reads, which
  are the messages of `AnswerStream` that matter to it. `A2AClient` is the other end
  of the protocol, an agent of this system that asks a remote one.
* The MCP pool leases servers to HTTP requests; a server asks the MCP session
  record in Redis how many sessions its key has (`session_count`). Every process of the service
  opens and ends sessions of a key, so in the pool's model the answer changes at any time,
  also between the count and the retirement of the server it was for. `MCPSessions`
  models the record, and the calls of those sessions.
* The session task of `Interaction` runs `Retrieval`'s pipeline over one question
  memory. The memory of the session under it is `QAHistory`; the session itself is a
  resource of the knowledge box (`SessionStore`), and the pipeline was built
  from the configuration that the loader of `AgentStore` has read.
* Agents of the pipeline are modelled alone, where their own loop has state:
  `MCPClient`, `SmartAgent` (which publishes and calls the MCP agent's tools: the planners
  of `MCPClient`), `RestrictedAgent`, `NucliaDBAsk`, `A2AClient`. Their events on the answer
  stream are those of `Interaction`.
* Code mode is a tool of the harness and of agents: `CodeMode` has both its ends, the
  runner in the agent's process and the sandbox server, and the connection between.
* A request of the MCP agent that needs authorization waits for a redirect that arrives at
  another endpoint of the API and comes back as a reply of the broker (`OAuth`).
* The harness talks to its event store, its model and its children, and its
  consumer reads the events of `run()`; consumer, `interrupt()` and `steer()` act
  from other tasks. `evolve()` changes the procedural graphs that guide a harness.

## 2. The modules

| module | models | extended or instantiated by |
|---|---|---|
| `AnswerStream` | what a client may rely on: the messages it gets for each question | `Interaction` (refinement) |
| `Interaction` | client, API, broker, server of one connection | `Interaction_proofs` |
| `MCPServerPool` | the pool of one API process | `MCMCPServerPool` (symmetry), `MCA2AExecutor`, `MCPServerPool_proofs` |
| `A2AExecutor` | one A2A task on several instances | `MCA2AExecutor`, `A2AExecutor_proofs` |
| `Harness` | a root `AgentHarness` | `MCHarness`, `Harness_proofs` |
| `CodeMode` | code mode executions, from the tool to the worker | `MCServices`, `Services_proofs` |
| `MCPSessions` | sessions and calls of an MCP server in Redis | `MCServices`, `Services_proofs` |
| `OAuth` | authorization of requests to MCP servers | `MCServices`, `Services_proofs` |
| `LocalStreams` | streams of the in-process broker | `MCServices`, `Services_proofs` |
| `SessionStore`, `QAHistory` | sessions and their history | `MCQuestion`, `Question_proofs` |
| `Retrieval` | the pipeline of agents | `MCQuestion`, `Question_proofs` |
| `Citations` | the citations of its answer | `MCQuestion` |
| `MCPClient`, `SmartAgent`, `NucliaDBAsk`, `A2AClient` | agents with a loop of their own | `MCQuestion`, `Question_proofs` |
| `RestrictedAgent` | the agent that runs programs of the model | `MCQuestion`, `Question_proofs` |
| `AgentStore` | the database of the configuration | `MCQuestion`, `Question_proofs` |
| `Evolution` | procedural graphs and their evolution | `MCQuestion`, `Question_proofs` |

`Services_proofs` extends the four modules it proves about, and `Question_proofs` six of its ten; for that their
definitions and variables have names that differ. The other four are instances in it. `MCServices_proofs` extends `MCServices` and
instantiates `Services_proofs`; `MCQuestion_proofs` does the same with `MCQuestion` and `Question_proofs`.

A step of every module is the code between two awaits of one coroutine, or what
one message, timer or failure does. In each module, definitions such as
`EndStreamKeepsBatch` or `RemoveKeyEarly`, which no action uses, are altered forms
of their neighbour (a guard dropped, an order swapped): the mutants.

The MC modules explore several modules in one run without multiplying their states. `MCServices`
and `MCQuestion` have a variable `part`, chosen in the initial state and constant after
it: only the actions of that part are taken, and the variables of the others keep
one initial value. `MCA2AExecutor` adds a part for the pool to the task,
`MCHarness` two scenarios of the same module. The fairness of an instance is that of
its module with `part` as a further guard; a guard that is constant over a
behaviour changes nothing of what it says.

### Interaction

The client (`SendQuestion`, `SendFeedback`, `Disconnect`) talks to
`WebsocketReceiver.run`, whose one action per incoming message follows the match
on `expecting`, and which hands over through `queue` (`Accept`, and `PutShutdown`,
that waits until the queue of size one is free, `PutShutdownNoWait` being its
mutant). The handler's `pc` says what `websocket_endpoint` or `stream_response` awaits:
`ReceiveQuestion`/`WakeWithQuestion` are the two halves of `receive_question`,
`PublishActivation` is `send_activation`, `ReadStream`/`NextMessage`/`HandleMessage` the
loop over XREAD and its match on the operation, `ReceiveFeedback`/`WakeWithFeedback` the
wait for the user's reply, `AgentTimeout` and `ReadFails` its two exceptions. POST is the
same handler without a receiver.

On the server `TakeActivation`/`Activate`/`ActivationError` are `activation_listener`, and the
stage `run[q]` says where the answer task is: the agents publish steps, OAuth
requests and feedback requests, wait for replies or give up on them, end or fail, and the
manager then publishes the final answer, DONE and saves the memory, each at its
own await. `Ping` is the keepalive task, `Tick` half of `keepalive_seconds`; `Crash`
loses every task of the process. `Publish` appends to an answer stream, which trims to
`MaxLen` (+ `TrimSlack`) entries, or loses the message when the publication fails.
`others` counts agents that run on when a sibling has failed.

`ReplyMatchesRequest`, `ReceiverReady`, `NoFalseTimeout` and `DoneAfterFinal` are invariants
over both ends; `DoneIsLast` is an action property of the stream;
`ImplementsAnswerStream` is the refinement `AnswerStream` with `out` mapped to
itself: every step of every task is a step of `AnswerStream` or a stutter.

Abstractions. Agents are the events they put on the stream. The content
of messages is left out, their type and the request they belong to kept. The
OAuth callback is a kind of question the handler does not wait for. Publishing
and reading take less than half of a keepalive interval: without such an
assumption no timeout is ever justified. `DoneAfterFinal` and `DoneIsLast` exclude
states with agents left running after a failure, which the module does
explore: there the code makes no promise.

A client of a `keep_open` connection that disconnects while the handler waits for feedback
leaves the handler behind: the `Shutdown` item is taken by `receive_feedback`,
`stream_response` returns, and the handler waits in `receive_question` on a queue into which the
finished receiver puts nothing (`api/v1/interaction.py:262`). The module has it so, and
`interaction_live`, which checks `HandlerReturns`, has the connections of one question only.

### MCPServerPool

A request starts at most one creation task and this task makes one server, so one
name stands for the three. `AcquireRefused`, `AcquireLease`, `AcquireJoin`, `AcquireCreate`,
`AcquireReplace` and `AcquireScan` are the branches of `acquire` under the lock; `Scan`, `Evict`,
`ScanAgain`, `NothingToEvict` the loop of `_evict_for_capacity`, which holds the lock over the
awaits of `session_count`; `Claim`, `Interrupted`, `WaitFails` what the caller
finds when the shielded creation it waited for has ended. `StaleStopped`,
`FactoryReturns`, `FactoryFails`, `Register`, `CandidateStopped`, `Cleanup` are the awaits of
`_create_server`; `CancelTasks` what `task.cancel()` means at each of them. `Release`,
`RemoveKey`, `Reap`, `Shutdown` and `ShutdownReturns` are the other operations;
`ServerStops` is the owning task of a server. The SDK's streamable server is
external: it runs, has sessions, and stops.

Abstractions. Eviction takes any server that may be evicted, not the least
recently used one. `sessions` says of a key whether any process has a session of it; `OpenSession`
and `EndSessions` need nothing of this process. `emptied` is a history variable: the
keys that had no session at some moment between the beginning of a search and their
own count. It is what `EvictsUnusedOnly` can say of a server that is displaced without
having been idle for too long: a session opened after the count does not keep
it (`PreservesSessions`, section "Where the code and its documentation part without a run"). In `MCA2AExecutor` sessions change only during a search, since nothing else
reads them; the run of the pool alone leaves them free. The callers of `remove()` are not cancelled.
A second cancellation of an owning task (`close()` followed by `stop()`) is one with the
first. Inside `_create_server` the calls of `_ensure_running` and
`_evict_for_capacity` find nothing to do: the place was reserved when the task
was made.

### A2AExecutor

The answer stream is consumed in rounds: consumer 0 is `execute()`, consumer k the
feedback waiter of request k. `ConsumeRequest`/`SaveRequest`/`Ask` are the awaits of
`_stream_until_pause` between a request read and the request shown to the client;
`ConsumeDone`, `ConsumeError`, `StopCancelled` its other ends; `TakeReply`, `WaiterTimeout`,
`StopWaiter` the waiter. `Feedback`, `Claim`, `ForwardReply`, `ReadRelay`, `RelayTimeout` are the handler
of a feedback message on whichever instance gets it. `Cancel`/`ReadOwner` is `cancel()` on
any instance, `TakeCancel`/`ListenerEnds` the owner's listener, `Crash`, `ExpireRecord` and
`ExpireOwner` the failures.

Abstractions. A record lives longer than the step that saves it takes. The SDK does not
cancel `execute()` on its own. Forwarding instances do not crash. Intermediate
messages and artifacts are left out. The deletions that follow a waiter's
timeout or a consumer's error are one step with it.

### Harness

`pc` names what the task of the turn awaits. `RunStarts`, `TurnStarted`, `CallModel`,
`PromptSaved`, `InboxSaved`, `ModelAsksTools`, `ToolsEnd`, `ExchangeSaved`, `ModelAnswers`,
`ModelAnswersEmpty`, `RetrySaved`, `AnswerSaved`, `Fails`, `Drained`, `TerminalSaved`,
`InterruptionSaved` and `RunReturns` follow `run` and `_execute_turn`; each `...Saved` is
the return of an `append_event`, before which the message is already in memory.
`SpawnTool`, `SpawnedTool`, `WaitTool`, `PlainTool` are tool calls running concurrently, each at
its own await; `KidStarts`, `KidEnds`, `KidReaped` are the child's task and its done
callback. `Interrupt` is the flag and `task.cancel()`, `Abandon` the consumer that goes
away; `CancelDelivered` throws the CancelledError where the task awaits and follows the
`except` clause with its count of `cancelling()`. `SteerPut`/`SteerSaved` are `steer()`. `Reload`
loses the process and `Replay` builds the memory from the log. `log` has the messages of
the events that carry one; `noted[i]` is how many it had when the INBOX_ADDED of message i was
appended, which says whether an answer was logged before or after it. `Complete` is what
`load()` keeps of a history: it ends before a tool call whose outputs are missing.

Abstractions. Spawning has depth one (the default): children have no children, and
their turns, inboxes and messages are one `working` state. Child ids are not used
again. Left out: compaction, `add_messages`, procedural guidance, failures of the
event store, and the log's events that carry no message. The system message and
INBOX_CONSUMED are appended with their neighbour. After an interruption the task is
always cancelled as well, so the loop's own test of `_interrupted` decides nothing
once the prompt is saved.

### CodeMode

For each execution: `tool` is where `execute` and `run` of the client stand (`Acquire` takes a
place of the limiter, `AcquireRemoteSession` a ticket, `Connect`, `ReadMessage`, `Close`, `Settle`),
`Dispatch`, `CallbackEnds`, `CallbackInterrupted` and `CallbackCancelled` the call back into the agent that a message of the worker
starts, `Record` the output that `final_answer` accepts or refuses; `Cancel` and `AwaitCancelled` are
the CancelledError where the tool awaits. `Accept`, `Handshake`, `Admit`, `ScheduleCallback`,
`ReadResponse`, `Fail`, `StopSession` are the handler of the sandbox server, `WorkerCalls` and `WorkerFinishes` the
worker process; `open`, `up` and `down` are the connection. The limits on time and memory of a worker
are one outcome, `Fail`. Scripts are what they call and how they end.

### MCPSessions

`registry`, `fresh`, `record` and `mailbox` are the Redis keys; `Tick` is the passage of a time to live.
`CreateRead`/`CreateExec` are the two halves of a WATCH/MULTI transaction, between which anything
happens. `Control`, `Start`, `Acquired`, `Renew`, `Poll`, `Acknowledge`, `Stop`, `Finish`, `Release` are the life of one
call on the replica that serves it, `Cancel`, `Reply` and `Delete` the messages of the client at any
replica. All keys have one time to live, and a session's own keys are renewed together, as the
code does. A client that was asked may reply at any time, more than once, and when the mailbox has been
acknowledged, released or has expired. `taken` and `accepted` are history
variables: the replies that were matched with a mailbox, and those the client
was told 202 for. They are the same as long as there is a mailbox (`ReplyIsTheTaken`).

### OAuth and LocalStreams

`AsyncAuthFlow`, `GetTokens`, `PerformAuthorizationCodeGrant`, `HandleCallback`, `ReceiveReply`, `ExchangeToken`, `SetTokens` are the
awaits of one request's `async_auth_flow` with the lock of its single-flight key; `MCPOAuthCallback` is the redirect, which may come late, twice or
after the state has expired; `channel` and `exists` the reply queues of the broker. The authorization server
is external, and grants or refuses.

`LocalStreams` has the LRU of streams by reference: a forgotten topic gets a new list, while a
subscriber keeps the one it found. `Read` takes what is new, `TimeOut` ends a
subscription, `Subscribe` resumes from the last message received.

### Retrieval and Citations

A context agent is a stack of frames, one for each agent of its chain that is under way (itself, its
fallback, its next agent, the branch of a conditional). `Rephrase`, `Retrieve`, `MakeDecision`, `Branch`, `ValidateBranch`, `AskFallback`,
`AskNext` and `FlowFails` move the top frame; `Keep`, `KeepAll` and `KeepSelected` are `save_ctx_and_return_missing` with its
validation and pruning for the kinds of agents there are. The stages of `RetrievalAgent.__call__` are
`RunContext`, `RunGeneration`, `RunPostprocess` and `EndLoop`, the last with the restart. A failure of a stage leaves
its siblings running. What contexts say is reduced to whether they have a summary, chunks,
citations.

`Citations` has no actions: its states are all small answers with their contexts, over which the
parsing of footnotes, their expansion and renumbering are compared with what they must
lead to.

### SessionStore, QAHistory, AgentStore

One action per request to the store and per statement. In `AgentStore` a request is the list of
statements it has still to execute (`todo`), as the methods of `AgentManager` execute them, each in a transaction of its own; a
statement that finds nothing, or a key that exists, ends the request. `Expire` lets
the retention of a deleted workflow pass. Values are versions of a row.

### MCPClient, SmartAgent, RestrictedAgent, NucliaDBAsk, A2AClient

Each has one agent object with what it keeps between calls, and the questions (flows,
planners, executions, sources) that use it at the same time. Models, services and
remote agents are external: they choose any of the outcomes the code distinguishes. In `MCPClient` the
transport is a constant, and `AfterAttempt` the `except` clauses and retries around a
session; in `SmartAgent` a turn of the model is a sequence of calls of functions, of feedback with and without a
question, and of `task_complete`. In `NucliaDBAsk` a filter is the set of resources it lets through, so that AND and OR
are intersection and union; the labels of a call of `ask_agent` become filters as the code converts
them (`ConvertLabels`, `Added`, `Several`, `OrFilters`, `LabelFilter`), the invalid ones too. In `A2AClient` a remote task has artifacts
that grow, told by updates, by the whole task, or by both. `Returns` assumes that a stream ends only when the task has
completed or needs input: the protocol says so, the code does not look.

### Evolution

`Claimed`, `Baseline`, `Propose`, `SaveCandidate`, `Validate`, `Record`, `Accept`, `Reject` and `Ends` are `evolve()` cut at every file it
publishes; between any two the process may stop. `ValidGraph`, `PrepareCandidate` and
`Neighborhood` are the algorithms of `graph.py`, compared with definitions over paths.

## 3. Runs

Every constant beginning with `Max` is a bound on events outside the program's
control, or a limit of the program's own (`MaxServers`, `MaxAgents`, `MaxModelCalls`,
`MaxActive`, `MaxStreams`, `MaxLen`). The bounds of the modules that an MC module instantiates are
written there, next to the instance.

| run | bounds | shows |
|---|---|---|
| `interaction_faults` | one question over a single-question websocket, one step or OAuth request, two feedback requests, one failed publication, one crash, a stream of two entries | `TypeOK`, `NoFalseTimeout`, `ReplyMatchesRequest`, `DoneAfterFinal`, `DoneIsLast` |
| `interaction_keep_open` | two questions on a `keep_open` websocket, one feedback request each | `ReceiverReady`, `ImplementsAnswerStream` |
| `interaction_live` | one question, POST or single-question websocket, one feedback request, one crash, fair | `AnswersEnd` (`StreamEnds`, `ServerFinishes`, `HandlerReturns`) |
| `interaction_early_question` | two questions, no faults | finding: `QuestionsWaitTheirTurn` |
| `pool_safety` | two keys, three requests, one server, one removal | capacity, one server per key, leases, eviction, shutdown |
| `pool_removed_key` | one removal, one failing factory | finding: `CreatingIsRunning` |
| `tasks_and_pool` | a task: two instances, three rounds, three feedback messages, one failure; a pool: two keys, two requests, one server, one removal; fair | `TypeOK`, `TaskIsServed` (`RepliesReachTheirRequest`, `OneConsumer`, `RecordHasWaiter`, `TaskCanBeCancelled`), `WaitsEnd` (`FeedbackSettles`, `FirstRoundSettles`, `AcquireSettles`, `ShutdownEnds`) |
| `a2a_cancel` | two instances, one round, one message | finding: `QuietOnceCancelled` |
| `harness_turns` | two turns of two model calls, one interrupt per turn; `children`: two children, two concurrent tool calls; `history`: one tool call each time, one steered message, one reload; fair | `TypeOK`, `ConcurrencyKept`, `NoStrayAgents`, `InterruptIsRecorded`, `HistoryIsComplete` (`MemoryCoversLog`, `ToolHistoryComplete`, `SteeredBeforeAnswer`), `InterruptEndsTurn` |
| `harness_interrupt` | one turn, two interrupts | finding: `InterruptIsRecorded` |
| `held_services` | six parts, below; fair | `CodeModeGivesBack`, `SessionsAreKept`, `MessagesReachTheirOwn`, `RecordIsOwn`, `EveryWaitEnds`, types |
| `question` | eighteen parts, below; fair pipelines | `AskedInItsSession`, `AnswerIsFromItsContexts`, `MCPCallsAnswered`, `SmartTurns`, `NucliaDBAsked`, `KeptWhole`, `SettledStays`, `PipelineEnds`, types |

A property of `held_services` and `question` is a conjunction of the properties of the modules, each under
the part it is about; `PROJECT.json` has a mutant for each as a whole.

Parts of `held_services`:

* `code`: two executions that make a call each, two places and one worker; `script`: one
  execution with two calls. One cancellation each.
* `sessions`: two sessions with room for one, made by two requests, a call, two times to live; `same id`: two calls of
  one request id, of one session.
* `oauth`: two requests of one question, two grants, two redirects, the in-process broker.
* `streams`: two topics in a cache for one, two subscribers of one, three messages and
  subscriptions.

Parts of `question`:

* `session`: two requests of four for names that are ids or slugs; `history`: four
  questions, one after another, a cache of three that is lost twice.
* `citations`: two contexts of at most two chunks, two footnotes.
* `pipeline`: a rephrased question that may become two, a fallback and a next agent; `restarts`: a conditional agent
  with a branch and a fallback, two generation agents, one restart.
* `store`: five requests to every table, one at a time; `shared store`: four requests of two
  clients, interleaved at each statement.
* `http`: two questions over HTTP, with elicitation and two attempts; `planned`: a question and a
  planner, tools in two pages; `stdio`, `multi`: one question over the other transports.
* `reactive`, `planning`: two functions and one decision, two iterations.
* `restricted`: one question, two executions, two retries, four callbacks.
* `nucliadb`: two sources, two resources, all filters of a small set, each operation; labels that are valid, invalid
  at the beginning or in between, of one labelset and of two with several.
* `remote`: three artifacts of three chunks and one request for feedback.
* `rounds`: three rounds over two nodes; `graphs`: one round of two edits from three graphs over three
  nodes, cyclic and not.

Why these are enough to be interesting. A reply can only be misdirected if a
second request exists, hence two feedback requests and, in A2A, a third round in which a
late message for the first meets the second. A stream of two entries is trimmed
as soon as a handler that waits for its user lets three messages pass. Three
requests on two keys in a pool of one put a creation, an eviction and a waiting
third in the same state; the pool's tables treat further keys alike. Two slots and two children
with room for one child let two spawns race for the limit. Two turns show what a
turn leaves to the next. Questions on one connection are served one at a time, so
two of them cover what one leaves behind for the next. Two executions with room for one
worker make a run wait for the place the other has to give back; two creators with
room for one session make a transaction fail; four questions and room for three trim the
history; a chain of three agents is the first in which contexts of another chain
could be taken for one's own; three nodes are the first with a path longer than one
edge around a cycle. Liveness is checked with the smaller bounds; the safety
runs have the wider ones.

Where parts could be at work at once they share nothing that a property speaks of: the pool and a
task, the store and the agents. Modules that do share state (a stream, a record, a memory) are
not parts but one module.

`CHECK_DEADLOCK FALSE` is set where a finite conversation really ends: the A2A task, the
harness, whose calls of `run()` are bounded, and the parts of `held_services` and
`question`, which stop when their requests are served. The pool alone, with its last state `Terminated`,
and the interaction, where time always passes, are checked for deadlock; that a wait in the other
modules ends is a liveness property instead.

### Findings

Four runs end in the violation of what a test or the documentation says:

* `interaction_early_question`: a question that arrives before the handler first waits for
  one leaves `expecting` at QUESTION, and a second one is accepted while the first is
  answered (`api/v1/interaction.py:107`); the test says it is refused.
* `pool_removed_key`: `remove()` that cancels a creation already in its `except` clause
  leaves the entry of a finished task in `_creating`, which every later
  `acquire()` joins (`api/mcp_server_pool.py:193`).
* `a2a_cancel`: a cancellation handled while the request for input is being
  saved does not prevent it from being shown (`a2a/executor.py:418`).
* `harness_interrupt`: a second `interrupt()` of one turn, as the documented loop makes,
  is taken for a cancellation from outside, and no TURN_INTERRUPTED is emitted
  (`harness_sdk/harness.py:960`).

### Where the code and its documentation part without a run

Met while the modules were written. Where a formula is named, the module states it, no run
checks it, and TLC finds it violated by the instance given above or the one in parentheses.

* `MCPServerPool`, `PreservesSessions`: a session that another process opens after `_evict_one` has counted
  those of its key does not keep the server from being retired (`api/mcp_server_pool.py:296`); the
  pool's test (`tests/unit/arag/test_mcp_server_pool.py:184`) and the error message (`:303`) say that a server with
  a session that has not expired is preserved. The session stays in Redis, and its next request makes
  the server again (two requests and no removal show it).
* `NucliaDBAsk!WithinLabels`: `ask_agent` assigns `or_filters` anew for each labelset with several labels
  (`src/agents/nucliadb/.../basic_ask_agent.py:881`), so that only the last of them filters what is
  retrieved, though `build_filter_expression` (`:955`) says that the filters of the user are merged.
* `OAuth!ChannelIsDeleted`: `broker/local.py:22` says a reply channel is deleted after the
  reply; a redirect after the request has gone makes it again, and nothing deletes it.
* `OAuth!StoppedAsksNothing`: `get_tokens` (`src/agents/mcp/.../http.py:570`) and `set_tokens` take
  CancelledError for an answer not given: a stopped question goes on to authorize. The
  docstrings there say 15 s, the wait is 60 s.
* `AgentStore!ConsistentView`: `get_agent_config` (`db/agents.py:803`) reads in two queries what it
  says it loads in one. `AgentStore!PromptsAreTheAgents`: the query of `get_prompts`
  (`db/agents.py:1070`) names another table in its conditions, which joins it without a link: an agent
  gets the prompts of all (two agents, `MaxRows <- 1`).
* An import with overwrite deletes the configuration before the file is read; a
  workflow whose id is that of a deleted one cannot be created before the purge; two
  `patch_driver` at once keep one's fields. The module has them as the code does.
* `QAHistory!NoQuestionTwice`: all that has been read is appended to the cache after every
  page (`memory/memory.py:447`), so that two pages put the first one there twice, where they are
  smaller than what the cache keeps (`PageSize <- 2`, `Limit <- 6`, five questions).
* `MCPClient!PreloadIsOnce`: two planners that preload together publish twice
  (`src/agents/mcp/.../agent.py:920`; two of `Planners`).
* `MCPClient!CompletedOnce` does not hold over stdio: that branch of `_get_question_context`
  (`src/agents/mcp/.../agent.py:1427`) opens a session and loads the tools, and ends without choosing or calling one.
* `RestrictedAgent!ChosenIsProvided`: cases of an earlier call remain in the schema
  (`src/agents/restricted/.../decision.py:25`; two questions).
* `SessionStore!ErrorMeansMissing`: of two requests that create one session the second answers that
  it does not exist (`api/v1/interaction.py:57`).
* `NucliaDBAsk!WithinFilterExpression`: the description of a source's filter expression says it is combined with all others
  (`src/agents/nucliadb/.../driver_config.py:27`); `rag`, the search for images, counts of facets and the catalogue
  ask without it. `NucliaDBAsk!OnlyTitledResources`: when several
  resources have the title, ask-by-title asks without them (`basic_ask_agent.py:456`; three resources).
* `MCPSessions`: a reply whose mailbox has gone is told 202 (`api/mcp_transport.py:98`: `reply()` returns False,
  which is logged), and is lost; so a second, different reply to one request can be accepted as well.
* `SmartAgent`: a `user_feedback` without a question is dropped (`src/agents/smart/.../agent.py:735`): the model is told
  nothing of it, where every other call gets a result. `EveryCallAnswered` is of the others.
* `LocalStreams`: a stream that the cache forgets while someone subscribes goes on as another list, and the
  subscriber notices by its timeout only; the question's handler (`api/v1/interaction.py:224`)
  does not resume.
* `src/agents/nucliadb/.../ask/rerank.py:24`: the sorted scores are replaced by the unsorted ones before
  the first `top_k` are taken; `ask/query_analysis.py:71`: the most common language is the first of
  an ascending order. Single expressions, not modelled.

### Fairness

Weak fairness only, of steps the scheduler owes to a coroutine that can go on:

* `Interaction`: `PutShutdown`, the handler, the listener, each answer task, each keepalive,
  time (`Tick`), and the end of agents that wait (`question_timeout_seconds` cancels
  them). Nothing is assumed of the client, of the agents' publications, or of crashes.
* `MCPServerPool`: each request inside `acquire`, each creation task, each server that
  has been told to stop, and the end of `shutdown`. Requests may hold a lease for ever and
  nobody need call `remove` or `shutdown`.
* `A2AExecutor`: each consumer (an agent asks, answers or fails in the end), waiter and
  feedback handler (their reads have the task's time to live as timeout), `cancel()` once
  called and the listener. A client need not answer.
* `Harness`: the turn's own steps and the end of children that were told to
  stop. Nothing is assumed of the model, of a tool, or of a child left alone.
* `CodeMode`: the runner and the handler of each session, each as a whole. A run has a timeout on the
  server, so a worker that computes for ever fails (`ServerStep`); that worker need not call
  and a callback need not end.
* `MCPSessions`: each call's handler, whose polling is bounded by the time to live and whose
  clean-up is in `finally`. Neither the client nor the tool need act.
* `OAuth`: each request: its waits for the user and for the redirect have timeouts. No redirect need arrive.
* `Retrieval`: some step of the pipeline, as its agents' requests have timeouts and no step makes
  another one wait. The other modules have no liveness property and no fairness.

## 4. Proofs

Assumptions on the constants are `BoundsAssumption`, `PoolAssumption`, `A2ABounds` and
`HarnessBounds`, which TLC evaluates: bounds are natural numbers, `Keys`, `Requests` and `Kids`
finite, and the limits that the program divides into places are at least one. The modules that
are instantiated by `MCServices` and `MCQuestion` have theirs as a hypothesis (`CodeBounds`, `SmartBounds` and
so on), of the same kind: limits are numbers, what is counted is finite, the names of keys differ. Where a
theorem has a hypothesis more, it is named below.

Each proof has the same shape: an inductive invariant in named parts, a lemma for the initial
states, one for each action or actor, the invariance, and theorems that each follow from it.

`Interaction_proofs`.
* `TypeCorrect`: type correctness. `NewestType` and `PublishType` say that trimming keeps a
  sequence of messages; one lemma per actor (`ClientType`, `HandlerType`, `ListenerType`,
  `TaskType`, `EnvironmentType`) has one step per action.
* `HandlerNeverBlocksReceiver` (`ReceiverReady`) from `Announced`: a handler that waits on the
  queue has set `expecting` to what it waits for, or an item is already in the queue.
  It also covers the states after a disconnect, which `ReceiverReady` leaves out.
* `WorkingAgentKeepsStreamAlive` (`NoFalseTimeout`) from `PingOnTheWay`: a read that waits
  on an empty stream, while the server works on the question and nothing was lost,
  has either just been sent or is one tick old with a ping due or the end of the answer
  about to be published.
* `NothingAfterDone` (`DoneIsLast`): a task that has published DONE has no publication
  left, and no other task publishes on its stream.
* `RepliesReachTheirRequest` (`ReplyMatchesRequest`) from `QuestionOrder` and `RepliesInOrder`. Nothing
  in a reply says which request it is for; the invariant has to follow it through the client, the queue of one
  and the handler: every request shown but the one the handler waits at was replied to, so
  the reply that is taken is of that one.
* `DoneFollowsFinal` (`DoneAfterFinal`) from `AnswerInOrder`, which reads what was sent, what was read
  and what is still on the stream as one answer, in which DONE stands behind the final answer. With
  `MaxLen >= 2`: a stream of one entry may keep DONE and drop the answer. The broker keeps 100.
* `ClientSeesAnswerStream` (`ImplementsAnswerStream`): every step is one of `AnswerStream` or a
  stutter. `AnswerBeingRead` says of the same sequence that START is first, the requests are numbered
  in order and there is one final answer; `PingsBehindStart` that `keep_alive` publishes nothing
  before START, and `OneAtATime` that a question is begun when the one before is over. Its
  hypotheses: no publication fails (`MaxDrop = 0`; `send_message` swallows failures, and then
  the answer may lack its end), and `MaxLen >= MaxSteps + MaxFeedback + 3`: the stream holds
  all that is published while the API waits for the user. The broker keeps 100, and a
  longer answer during one wait does lose its beginning: `interaction_faults` has such a stream.

`MCPServerPool_proofs`. One inductive invariant, `PoolInv`: the types, the lease count
(`LeasesCounted`), what the tables say of tasks and servers (`EntriesOK`), what a stage
of a creation says of its server (`TasksOK`), what a request's position says of its
target (`RequestsOK`), what holds while the lock is held over an await (`ScanOK`), and
capacity. Capacity needs `EntriesOK` (a key is in one table only) and `ScanOK` (what the
request that holds the lock has found is still registered and used by nobody, and is expired or had no
session when it was counted); the lease
count needs `RequestsOK` (what a request holds is a server). Each part has one preservation lemma; the theorems
`CapacityIsKept`, `LeasesAreCounted`, `KeysHaveOneServer`, `StaleServersStopFirst` and `ShutdownLeavesNothing` follow, and
two action properties, `LeasesAreOfOpenServers` and `OnlyUnusedAreEvicted`, from the same
invariant.

`A2AExecutor_proofs`. `TypeCorrect`, and `TaskServed` (`TaskIsServed`), for any number of instances,
rounds, messages and failures. Its four parts need each other: a reply is forwarded to the owner named in the record (`Forwarding`,
`InFlight`), the record is written before the waiter that reads the reply is registered (`Attended`,
`Registered`), a waiter begins when the consumers before it have ended (`Handed`, `Chain`), and the
client learns of a request after both (`Shown`). `LastOne` and `OnlyEnds` say which consumer may still act.

`Harness_proofs`. `KidsInv`: children that are alive are counted as active and are
among the root's children, the active ones leave room for the root, and when
the turn has nothing left that could start a child, all that are alive were told to stop.
`AgentLimit` and `ChildrenAreStopped` follow. `OneInterrupt` is proved from `CancelInv`, under
`MaxInterrupts <= 1`, which is exactly what `harness_interrupt` shows to be necessary.
`HarnessInv` is the types and `SavingOK`, `HistoryOK`, `SteersOK`: wherever a cancellation cuts an
append, the message in question is the last one of memory and later than the log, both are histories
that lack nothing, and the log is part of memory in its order; what was put in the inbox stays until it
is put to the model. `TypeCorrect` and `HistoryComplete` (`HistoryIsComplete`) follow.

`Services_proofs`, of `CodeMode`. `CodeInv` follows each execution through both processes (`RunOK`: the callback is
held by who waits for it or was given up, the end of a run is sent when its worker is dead, a verdict was earned)
and counts them: `active`, `tickets` and `sessions` are the cardinalities of `Placed`, `Ticketed` and
`Slotted`. `PlacesComeBack`, `SlotsComeBack`, `ResultIsEarned` and `CodeModeTypes` follow.

Of `MCPSessions`. `RegistryOK`: the registry lists every live session, is renewed with each, and
what an initialize request read stays true until the registry changes, because ids are not used
twice; so the transaction adds one to less than the limit (`NeverTooManySessions`).
`MailboxOK` gives `TakenReplyIsDelivered` (`ReplyIsTheTaken`); `OwnRecord` is an action property.

Of `OAuth` and `LocalStreams`. `LockInv` (whoever is in the flow holds the lock of its key; the queue
of a key has each of its waiters once) and `ChannelOwn` (a channel has what was redirected for its
own grant) give `OneAtATime` and `OwnCallback`, with either broker and any keys. For `LocalStreams`,
`NumbersOK`, `CaughtUp`, `PlaceOK` and `OlderOK` give `InOrder`: a subscriber's cursor
separates what it was given from what is new in the broker's list of its topic, and a list that the cache forgot is
older throughout than the one made after it.

`MCServices_proofs` brings these to the properties that `held_services` checks
(`AllTypes`, `CodeModeKeepsCount`, `SessionsKept`, `RecordKept`, `MessagesReach`): each part's steps are
steps of the component with the constants given there, and the other parts leave its variables
alone. `Parts` stays a parameter. The theorems for every value of the constants are those of
the component's module.

`Question_proofs`.
* `SmartAgent`: `AskedOnce` from `DecisionsOK` (a decision that was asked is resolved, or the one being asked: so
  nothing else may run between the question and its resolution), `CallsAnswered` from `AnswersOK` (while the calls of a
  turn run, each is under way, waits, has ended or was answered; `SortedKeeps` says that calls put in
  their order are the same calls), `FeedbackUsed` from `UnseenOK`. In both modes.
* `NucliaDBAsk`: `FiltersMerge`, of `ask_agent`, `ask_by_title` and `search_images_by_title`, from `OperationOK` (only two
  operations have filters of the call, one has labels, only a question has an answer to save) and `ScopeIsFiltered`;
  `ValidIsAdded` and `LabelsAreKept` say that of valid labels nothing is lost unless two labelsets have several; `FallbackIsLast` from `EndedOK` (an operation that has
  ended asks no source any more, so that none can still find enough).
* `MCPClient`: `FlowOK` says of each question what its attempt has run and told, and over HTTP that
  an interaction is complete exactly when its session is left without an error, which is why a retry can
  only follow a failure: `InteractionOnce`, with `Transport = "http"`. `ModelIsTold` and
  `PublishedIsolated` hold with any transport, the latter because a session is closed by its owner only.
* `SessionStore`: `NameOK` follows a name through its lookups by id and by slug; ids are not used twice,
  and a slug never hides an id that was given, because the id is looked up first (`NamedSession`, `OneSession`).
* `QAHistory`: `HistorySuffix`, under `OneAfterAnother`: questions wait for each other and all of them fit one page,
  the condition of the property's own statement. `TurnTaken` keeps one question at a time and room for those that
  are not saved; `CacheOK` says that the cache is an end of the conversation, with the question being saved.
  `SuffixByPosition` makes that a statement about each position, which appending and trimming keep.
* `A2AClient`: `RemoteAnswer`, without a hypothesis: whether the server streams or not, what is gathered is
  what the task has, but for steps, whenever the answer may be returned.

The other four are instances in this module, because their names are those of the modules above.

* `RestrictedAgent`: `ResolutionSticks` from `RestrictedInv`. Its hypothesis is one question at a time, as the
  property's own: two questions of one agent share `output`, and the preload of the second resets it. Of the rest,
  no step does: the executions of a question that run at once add what they save to what is resolved.
* `Evolution`: `EvolutionInv` says between which two files the process may have stopped: until the first score
  nothing is recorded (`BeginsOK`); later `retained.json` says what is retained, and a candidate is written, on record and
  no worse before it replaces it (`RoundOK`); every graph that is written has passed its checks (`GraphsValid`).
  `RetainedOnRecord` and `ScoreNeverWorse` follow, for any refiner. `GraphsSound` says what the checks
  are worth: with graphs to begin with that are finite (`FinitelyMade`), a graph that passes has a way
  from each node to a terminal and no cycle where none is allowed. The checks are recursive functions; that they have
  the values their equations give is shown by the existence of a function that satisfies them, one per number of steps
  (`ReachedBy`, `LeftBy`, `EditsBy`), not by induction over an operator.
* `Retrieval`: `RetrievalInv`, of any preprocess, context and generation agents. An agent may be configured with a
  fallback, a next agent and branches, each nested in it with an id of its own, and generation has agents of its own:
  `AgentsFormTree`, in which ranks rise along a chain. `StacksOK` says that what a call was
  handed was found for its own question by agents of lower rank (`NextSeesOwn`); `MemoryOK` that what a source saves
  has content, after every change that a validation or a pruning makes (`SavedHaveContent`); `OnceThrough` that the
  first time through, generation begins when each flow has ended, so that its answers have seen all
  that was saved (`AnswerSeesAll`); `StageOK` that an error stays (`ErrorStays`).
* `AgentStore`: `StoreInv`. The tables have their types (`TablesOK`), what a request has read is of rows
  (`ReadOK`), and what a request still has to execute is known, statement by statement (`TodoOK`): no statement deletes
  the default workflow, whatever request or imported file it is of, and a driver is patched only by a request that has
  read it. Only that makes `DefaultWorkflowStays` provable: `delete_workflow` refuses the default workflow
  before there is a statement, not in it. `OnlyDeletedPurged`: a purge looks at the row again, so that the age
  of its list does not matter. For any number of agents, workflows, requests at a time and rows; `ImportAll`
  builds a program from the file with `FlattenSeq`, whose recursive function is treated as those of `Evolution`
  (`FlatBy`).

`MCQuestion_proofs` brings these to the run `question`: `TypesKept` (`TypesOK`), `InItsSession` (`AskedInItsSession`),
`AnswerFromContexts` (`AnswerIsFromItsContexts`), `SmartTurnsKept` (`SmartTurns`), `MCPAnswers` (`MCPCallsAnswered`),
`NucliaDBFilters` (`NucliaDBAsked`) and `NothingIsUndone` (`SettledStays`). A behavior is one of a single part, which never
changes (`StepOfPart`). `Question_proofs` is instantiated four times, with the constants that
parts have in common; `HttpBounds`, `PlannersBounds`, `StdioBounds` and `MultiBounds` show that these are within
the hypotheses above. For each part three lemmas follow: its steps are those of the component
(`...Steps`), in it the behavior is one of the component (`...Behaves`), and so the theorems hold (`...Holds`); in another
part its variables do not change. `Parts` stays a parameter.

For the sake of the proofs, without a change to what the modules say: `OAuth` and `LocalStreams` take an
element from a sequence by its position (`RemoveAt`) where they had `SelectSeq`, of which
the prover knows nothing; `Harness` keeps the messages of its log apart from the marks of
the inbox; `AnswerStream` says the order of the questions in one conjunct of `Send`; `Evolution`
has recursive functions where it had recursive operators, next to which nothing can be proved.

Only model-checked: all liveness (`AnswersEnd`, `WaitsEnd`, `InterruptEndsTurn`, `EveryWaitEnds`,
`PipelineEnds`), and `KeptWhole`: `ImportRestoresExport` of `AgentStore` (what a whole program of statements has done in
the end), the two properties of `Citations`, and `RefinerIsTold` and `NeighborhoodIsWithinHops` of `Evolution` (what a
fold and a recursive function compute). Liveness under fairness, ENABLED, and induction over data
are beyond the prover in use and stay with TLC.

## 5. Not modelled

* The A2A HTTP surface, the harness clients and agent definitions, JSON schemas and completions:
  conversions between formats with no state between calls; a model would restate them.
* Server start-up and the standalone application: wiring of modelled parts.
* Migrations: scripts that run once, alone.
* The web frontend: presentation.
* In parts that are modelled: what models, search services and remote servers answer is any of
  the outcomes the code distinguishes; the content of messages, prompts and contexts, ranking, and
  logging are left out. Compaction and failures of the event store in `Harness`, crashes of the process that forwards a
  reply in `A2AExecutor`, the runner of code mode in the same process, the retrieval of one source of
  NucliaDB (a chain of requests), the synchronisation agent, and the queue of activations
  of the in-process broker are left out.

## 6. Plan

1. Proofs of what is left of `KeptWhole`: the values of `Citations`' renumbering and of `Summaries`, position by
   position, and the content of an agent after each statement of an import.
2. `LocalStreams` shown to implement the stream that `Interaction` reads, or to differ in what it forgets.
3. `A2AClient` composed with `A2AExecutor`.
4. Failures of the event store and compaction in `Harness`.
5. The retrieval of one NucliaDB source as a pipeline of requests that may fail.
