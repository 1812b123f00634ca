# TenderClaw: TLA+ models and proofs

TLA+ models of TenderClaw, its backend (`src/backend`) and the parts of its web client
(`src/frontend`) that have to agree with it, the TLC configurations that check them on small instances, and TLAPS proofs about them for
every instance. Run them here:

    tlc -workers 2 -config SessionTurnsTools.cfg MCSessionTurns
    tlapm SessionTurns_proofs.tla

PROJECT.json lists the runs, for every definition the lines of code it stands for, for
every checked property a mutation of the code that breaks it, and the hazards the
properties are aimed at.

## The system

TenderClaw is a coding assistant: a FastAPI process on one asyncio event loop, a web
client, and model services, tools and child processes around it. There are no threads
that touch shared state, so code is atomic from one `await` to the next; everything hard
about it is what other tasks do between two awaits, what a cancellation or a crash leaves
behind, and what is in memory and not on disk or the other way round. The web client is
the same kind of program: callbacks, timers and answers to requests, in any order.

| Component | State | Operations | What is hard, and what must hold |
|---|---|---|---|
| Conversation turns (`api/ws.py`, `core/conversation.py`, `core/tool_runner.py`) | a session's status, abort flag, permission entries, history; one task per handler | messages, abort, permission answer, configuration, disconnect; pushed turns; the agentic loop | tabs and pushed turns share a session; cancellation at any await. No tool without permission; busy sessions have an owner; turns are serial and end |
| Team pipeline (`orchestration/pipeline.py`, `plan_store.py`, `agents/handler.py`) | a plan per run, in memory and in a file | six agents in turn, the verify and fix loop, restart | aborts, write errors, kills between stages. The file tells what was done and found |
| Session store (`services/session_store.py`, `workspace.py`, `history_service.py`) | one object per session, files in five layouts | create, get, persist, load, delete (three ways), import, stop, start | objects that outlive a deletion, two APIs that change files behind the store, torn writes. One object per session, nothing saved is lost |
| Worker pool (`workers/pool.py`) | tasks, priority queue, semaphore, counters | submit, cancel, start, shutdown | cancellation races the start and the end of a task. Limit, results |
| Model fallback and OAuth (`services/advanced_fallback/`, `oauth_provider.py`) | auth profiles in memory and in a file; a run's copies; pending logins | choose, call, fail, rotate, fall back, expire; authorize, exchange, refresh, revoke | runs decide by copies while others change the store; racing callbacks. No fallback passed over without a reason, one profile per login, no late result undoes a decision |
| Web client's socket (`frontend/src/api/ws.ts`, `stores/sessionStore.ts`) | socket, timers, view of the session | connect, reconnect, new chat, send, stop, server events | callbacks of replaced sockets; a view that outlives its connection. Connected again, never busy for ever |
| Chat page (`stores/sessionStore.ts`) | messages, streamed text, tool cards | the events of a turn | an event that belongs to another message. What was recorded is shown, once |
| Pushed events (`api/ws.py`, `api/relay.py`) | connections and a sequence number per session | connect, disconnect, push | connections that come and go while one push awaits them. Numbers without gaps |
| MCP servers (`mcp/`) | life cycle, client, child process, its pipe | add, activate, pause, terminate, call | timeouts, restarts and cancellation between awaits, lines nobody asked for. One caller moves a server on; a call that nothing disturbs takes its own answer |
| Coordinator (`orchestration/coordinator*.py`) | task board, its mode, traces | create, assign, complete, run, rebalance | two runs at once, deletions in between. Every task a run took is accounted for |
| Compaction (`services/compaction/`) | none (a function of the history) | prune, repair, protect, split | calls and results stay paired, nothing critical is lost |
| Streaming (`core/streaming.py`, the providers' accumulators) | what is held back, blocks that are open | feed, flush; chunks of calls | any cut of text and calls. Thoughts hidden, calls whole |
| Requests (`_to_api_messages`, the providers' conversions) | none (a function of the history) | convert, hand on | whatever stopped turns left in a history. Results follow their calls, nothing is lost |
| Routing and keys (`model_router.py`, `power_levels.py`, `api/config.py`) | settings, copies of keys, cached clients | change a setting, check, route | copies that outlive a change. No replaced key is used |
| Memory (`memory/`) | indices in memory and in files | scan, remember, save | several objects on one file. Nothing that is gone is remembered |
| Hooks (`hooks/`) | a list per point | register, unregister, dispatch | lists that change under a dispatch. Order, secrets first |
| Costs (`cost_tracker.py`, `usage_tracker.py`, `cost_api.py`) | session totals, a cost book per session, files | book, save, ask | one account saved without the other. Both agree |
| History screens (`history_service.py`, two screens) | pages by offset and by cursor | load, load more, filter, delete | sessions that change between two pages. The pages fit together |
| Skills (`core/skills.py`) | registry, trace | read, score, choose | scores in many small terms. Choices by what they are said to be made by |
| File tools (`tools/file_*`, `hashline_*_tool.py`) | a file that others change | read, replace, write, edit by hash | edits at numbers that have moved. Only lines that were shown change their text |
| Agent definitions (`agents_api.py`, `custom_agent_store.py`, the editor screen) | registry, files, a form | create, update, patch, delete, select, reload | two copies, one of which may fail; a page that awaits. No text in another's agent |
| Remote bridge (`bridge/`, `RemoteBridgeClient.ts`) | sessions by id, sockets, timers | connect, authenticate, reconnect, delete | overwritten sockets, an id that is never handed over. Limits, a client that gives up |

The rest (tools' own work, providers' protocols, prompts, views, configuration files,
telemetry) is input and output for the above; PROJECT.json lists it with reasons.

How they interact: a handler starts turns; a turn reads routing and keys, memory, skills and
hooks, calls a model through the streaming code or runs a team pipeline, asks for
permission through the session's entries, books costs, and saves the session. REST endpoints
change what turns read, at any await. What crosses these borders is a choice in the module
on either side: SessionTurns lets a stream end in any of its ways, ToolStream and
HiddenThoughts say what the way there preserves, ChatPage what the page makes of it.

## Modules and the code

An action is the code from one await to the next; a value of `pc` names the await a task
is suspended at. `Task.cancel()` sets a flag, and a separate action delivers it, as asyncio
does. What a model, a tool or a hook answers is a choice.

**SessionTurns** (checked by MCSessionTurns, proved about in SessionTurns_proofs) has one
session. `conn` and `owned` are a handler's place and its `turn_task`; `pc`, `cancelled`,
`loop` and `call` a turn's; `status`, `shouldAbort`, `mode`, `perm` and `history` are the
SessionData all of them share. Handler actions are the branches of `websocket_endpoint`:
UserMessage, ImageMessage and ImageResolved (an await lies between its check and its
start), Abort, PermissionResponse, SessionConfig, Disconnect, Drained, HandlerError.
RestTurn is a turn pushed by a REST call, in a task nobody keeps. A turn goes through
Begin, KeyMissing or AcceptMessage, the team route or EnterLoop, then the loop: a stream
ends empty, with an answer or with tool calls; CallTool asks the rules; Prompted, Answered
and AskTimesOut are the permission gate; ToolDone gives the result; Finally and End are
the ways out. CancelDropped is `wait_for` of Python 3.11, which drops a cancellation that
finds its wait already over; the constant `WaitForKeeps` says whether the runtime does.

**TurnLog** is the abstract promise to a user with one client: turns are serial, and a
stopped turn writes no more. `SerialTurns` is the refinement.

**TeamPipeline** (TeamPipeline_proofs): `plan` is the PlanStore's dictionary, `disk` the
JSON files, `attempt`, `latest` and `found` the locals of `run_implement_pipeline`, and the
history variable `worked` the agents that changed files. One action per stage; every agent
may change files, oracle and metis included, who run before there is a plan and are given
all tools. A write may fail after the plan changed in memory (SaveRaises), a
pipeline may be cancelled or raise at any await, and Restart is the death of the process.

**WorkerPool** (MCWorkerPool, Agents_proofs): `pc` is where a task is (its submitter
blocked, in the queue, its runner waiting, holding the semaphore or done), `waiters` and
`permits` the semaphore, `consumer` the consume loop. A status is written by whoever gets
there, as in the code.

**SessionStore** (MCSessionStore, SessionStore_proofs): `mem` is `_sessions`, `conn` the
object a holder has (a handler, or a turn pushed by a REST call, which looks at no status and
lets go of its object when it ends), `disk` and `legacy` the canonical file and one of an earlier
version, which may be in any of the four older layouts. Get prefers memory, then the first
file found. Persist replaces the file, or empties it and fails. `saved`, `forked` and
`deleted` are history variables the properties speak about.

**AuthProfiles**, **Fallback**, **OAuth** and **Failover** (MCFailover, Failover_proofs) are
one store with its users. AuthProfiles has the store (`known`, `stats`, `lastGood`), its file
`disk` and the clock `now`, and as operators what AuthProfileStoreManager does to a profile:
Failed, Succeeded, Cleared, the order in which profiles are offered, Save. Fallback has the
runs of `run_with_model_fallback`: `run[r]` is the candidate, the profile being called, the
copies of the profiles not tried yet, and whether the candidate has rotated. The only await is
the call, so Succeed, Rotate, FallBack, Surface and Overflow each go from one call's end to
the next call's start: marking the profile, deciding, clearing expired cooldowns, copying and
skipping. OAuth has the authorizations and the requests that wait for the provider in the
middle. Failover composes them and adds Tick and Restart. In this commit only tests start
runs; the OAuth endpoints are part of the application.

**FrontendSocket** is TenderClawWS with the page's requests: `client` has its fields and its
timers, `sock` each socket with the messages on its way up and down, `view` the store, and
`handler` and `busy` the server as a client can tell. A replaced socket keeps its callbacks.

**ChatPage** is the rest of the store's reducer, fed by the loop that sends a turn's events
over a wire of bounded length. **WSConnections** has the connections of one session,
`counter` and, in `push`, whom each push has still to send to: the copy it made before its
first await. **McpServers** has one server's `life`, its clients and processes and what each
caller waits for, and implements **ServerLife**, a life cycle that one caller at a time moves;
**McpPipe** the requests, the answers and the lines the server writes unasked (`Unasked`),
of which a call takes whichever comes next. **Coordinator** has the
board; a run (`boardRun`) keeps the list it took. **Compaction** builds every short history,
then RunCompaction does all of `run_compaction` in one step, as the code does.
**HiddenThoughts** cuts a text in every way (the name of a tag is one character, and a tag
may be of any length) and reads it in passes, as the filter's loop does; **ToolStream** sends
calls in pieces through one of three accumulators into the StreamCollector. **Requests** grows
a session's history by whole turns, which may stop anywhere, and has what each provider makes of
it (`sent`) and who has answered so far (`served`). **Routing** has settings, environment and the turn between its check and its requests;
**Memory** the index objects of each spelling of a path, one file and the clock, with scans
and writes that fail after the time of the scan or the entry in memory was set; **Hooks** a
dispatch's `walk` over a list that changes; **Costs** both accounts with their files and
faults; **HistoryPages** the server's list and both screens; **Skills** the registry and the
trace; **FileTools** one file as the lines that `splitlines` cuts, each with what ends it (a
newline, another separator, nothing), and what the agent was shown: HashlineEdit rejoins with
newlines, which changes the ends of lines that it was not asked to touch; **AgentEditor**
registry, files, form and the page's calls, where a write may fail after the registry changed
and a file may stay after its agent was deleted (FastAPI is taken to bind
the bodies of POST and PUT as the page means them, although agents_api.py imports the type
for its checker only); **RemoteBridge** sessions and both ends of each socket, whose address
ends in "undefined" (`Undefined`), since the client reads the id under a name the server does
not use.

Left out on purpose: TwoLaneCooldown (`cooldown.py`), which tests alone use, and the intent
gate (`intent_gate.py`), which waits for a model between reading and writing a window that
calls without a session share.

**Services** puts those that share no state side by side: `part` is chosen once, and the
others rest. One run then checks them all, without the product of their states. They are proved about in **Connections_proofs** (pushed events, the remote
bridge, the MCP servers' pipes and life cycle), **Services_proofs** (costs, coordinator, keys,
agent editor, memory, history pages, hooks, tool calls), **Views_proofs** (hidden thoughts, the chat page, skills) and **Agents_proofs** (file tools,
requests, compaction).

## What is checked

| Run | Instance | Shows |
|---|---|---|
| session_client | 1 connection that breaks and returns, 2 turns, 1 tool id | SerialTurns (refinement of TurnLog), TurnEnds |
| session_tools | 1 connection, 2 turns, batches of up to 2 calls, 2 ids used again | ToolsPaired, NoOrphanTurn |
| session_shared | 2 connections, a turn and a pushed turn, 2 loop iterations, dropped cancellations | PermissionRespected, BusyHasOwner |
| session_abort | 2 connections | violated: AbortHeeded. The turn a tab starts resets `should_abort` and so withdraws the other's abort |
| team_pipeline | 2 pipelines that share the abort flag, the code's 3 attempts, write errors, kills | ChangesAreCheckpointed, AbortsAreRecorded, AbortEndsRounds, PipelineEnds |
| worker_pool | 3 tasks (one without a timeout), 2 workers, queue of 1, a cancellation, a shutdown and restart | FinalStands, TasksSettle |
| session_store | 1 session, 2 connections, a pushed turn, 3 objects, an old and two new messages, a failing write | OneObject, MemoryIsNewest, Durable |
| failover_runs | 2 runs on an oauth profile and an api key, 2 candidates of one provider, 3 clock readings, revocations | OnlyDisabledPassedOver, DisabledStands, RunsEnd |
| failover_oauth | 1 run over a provider with up to 4 profiles and one without, 1 login, 2 callbacks, a refresh, a failing write, a restart | OneProfilePerLogin, NoLateReturn |
| live | 2 sockets alive at a time, 2 sessions, 2 attempts, 2 inputs of the user | Reconnects, BusyReleased |
| live_session | the same, without fairness | violated: SocketServesView. A reconnection that was waiting when "New chat" was pressed opens a socket to the old session, and the page keeps it |
| services | each part on its own instance, below | one property per part |

The properties of `services`: PushesInOrder (a connection gets a pusher's messages in order,
once and none left out, and no number twice), ServerIsMoved (a server is taken by one
caller at a time, which alone brings it to rest: refinement of ServerLife), AnswersMatch (a call that no other
overlaps takes its own answer, or a line nobody asked for, if the pipe was empty as it began;
if anything was left there it never takes its own), RunsAccountForBoard (the board says
orchestrating, and a trace is open, only while a run is at it), CompactionSound (critical
turns survive, calls have their results, each message is in one place), ThoughtsStayHidden and
CallsArriveWhole (the outcome is that of a reference definition that knows nothing of cuts; for
thoughts as long as no tag outgrows the tail that is held back),
MemoriesCurrent (nothing is remembered that was gone when the files were last
read, and they were read, or reading them failed, less than five minutes ago),
KeysAreCurrent (no request carries a key replaced before its turn), ShowsWhatWasRecorded (a
recorded message is shown whole and once, whatever errors come into it), HooksInOrder (of
the hooks registered as a dispatch begins: by priority the first time they run, none skipped
unless one bails, secrets gone before priority 0), HistoryFits (the pages together are
the list), SkillsSound (a choice has a reason), EditsLandWhereShown (edits
by hash change the text only of lines that were shown with such a hash), AgentsAreKept (no text
in another's agent; restarts keep agents whose last write or deletion did not fail, and bring
back none), BridgeSound (the table stays within max_sessions, the client has no more connections
than were asked for and gives up), UsageIsBooked (what the session's totals and its file count is in the book, but for
answers whose recording failed) and RequestsSound (where calls can be made, each
result goes out behind its call and every block once, whichever turns were stopped; calls
nobody answered go out too, see below).

Some properties are conditional where the code does not keep the promise unconditionally; the
condition is part of the property and named there: ToolsPaired lets the last calls of a stopped
turn go without results; OneObject, MemoryIsNewest and Durable leave out a session that was
deleted or imported under its object (`forked`); FinalStands the tasks whose runner is at work;
ChangesAreCheckpointed what was changed before there was a plan, and a write that failed
half-way; Reconnects a client that has used up its attempts; BusyReleased a page whose socket
has closed. The hazards in PROJECT.json say which of them are therefore not caught.

The bounds. Turns: two is the least number that can overlap, follow each other, and reuse
each other's tool ids, and the shared run adds the second tab and the second iteration of
the loop. Tools: a batch of two is the least with an unanswered rest. Pipelines: they share
the abort flag only, so two show what one can do to another; the attempts are the code's.
Pool: three tasks on two workers make one wait, and the queue of one makes a submitter
block. Store: sessions meet only in Stop, Start and DeleteAllHistory, so the run has one
session and the proofs have any number; three objects let the store and both connections
hold different ones, and the pushed turn a third; one fault shows each place where a write may break. Failover: two runs
and two profiles let one run's copies become stale by the other's results, and three clock
readings let a cooldown begin, hold and expire; the second run has ids for two callbacks that
race for one login, next to an old profile and a key. The cooldowns keep the code's relations
(a transient one is within the probe margin, a persistent one is longer), not its seconds.
Web client: two sockets let a replaced one speak beside its successor, two attempts let the
counter be reset and used up. Services: two connections and two pushers with a push each; two callers, two clients and three processes of an MCP server, with one restart,
so that a process can be lost while another is started; two overlapping runs over two tasks;
histories of four messages, enough for two calls with their results in any order, and limits
of one or two so that every rule applies to some; six characters, the shortest tag being two
and the tail two, so that tags fit the tail and outgrow it; two
parallel calls in two pieces each; two spellings of a path, an entry, a signal, a scan interval of two ticks and a crash; a key and two changes in one turn;
two messages of two deltas with an error in between; three hooks that come and go under
one dispatch beside the two of the bootstrap; pages of one entry over two sessions and
messages of three; files of three lines and two edits a call; a built-in agent, two
custom ones and a capitalised spelling of one, and two calls; a bridge that admits one session at
a time, deletions in between, whose client is told twice to connect and has one attempt of its own; two accounts with three answers, one failing write and a crash;
three of the ten providers (one that converts, one that hands on, one that leaves out), histories of five messages and batches of two calls, enough for a batch cut short, a turn after
it and an id that comes again.
Symmetry is used in invariant-only runs; session_shared hides the history from the state
(VIEW), which neither of its properties nor any guard reads. CHECK_DEADLOCK is off where the
system may stop: pipelines and runs that ended, a pool without work, bounds of users' inputs
that are used up. Every counter's bound is a constant named Max....

Fairness. The event loop runs what is ready, so every step of a turn, a pipeline and a
runner is weakly fair, and so is a handler that waits for its cancelled turn. Model calls
and tools end because their clients and subprocesses have timeouts; Answer, the end of a
failover run's call, is weakly fair for the same reason. In FrontendSocket a connecting
socket opens or fails, a close event, a message and a timer that are due arrive, the server
serves and ends its turns, and a request of the page is answered. No fairness is assumed
of users: nobody has to answer, abort, disconnect or submit. A pool task without a timeout
may run for ever, which is why TasksSettle asks for fewer of those than workers.

## What is proved

For every value of the constants that satisfies the named assumptions of the modules. They say
that bounds and limits are natural numbers, that sets of tasks, connections, callers, lines and
accounts are finite where something counts them, and that names for "no one" and the code's
own names (the bootstrap's hooks, the environment's key, built-in agents) are none of the
others. Three carry more: a transient cooldown is not longer than PROBE_MARGIN_MS, which is so
in fallback.py:376 and cooldown.py:40 (ProfilesAssumption); the bridge admits at least one
session (BridgeAssumption); and each capitalised name is the spelling of one custom agent's slug
(AgentAssumption).

- **SessionTurns**: TypeCorrect; PermissionSafe (a tool runs only with permission, however
  turns share ids); BusyOwned; TurnsOwned (where no cancellation is dropped);
  SingleClientSerial (with one connection and no pushed turn, Spec implements TurnLog).
  TypeOK needs BatchProgress, which bounds results by calls. PermissionRespected needs
  DecisionFresh: a decision stored under the id asked about was sent while it was asked
  about, which holds because registration makes a new entry. BusyHasOwner and
  NoOrphanTurn need to know whose task may be running (HandlersOwn, CancelledAlive).
  CallsPairUp (with one connection, no pushed turn and no dropped cancellation, ToolsPaired)
  rests on OrphanInv, which makes turns serial, and on PairInv: the calls being worked through
  end the history (BatchLast), who wrote to it never starts again (WritersStarted), and a
  message with calls has its results, is being answered, or its turn is over and wrote nothing
  after it (WroteLast). So the calls of stopped turns stay unanswered, but one message of them
  per turn at most.
- **TeamPipeline**: the invariant TypeOK /\ PlansSound ties the plan in memory and on disk
  to the stage and the locals of its pipeline (StageSound); AbortsAreRecorded,
  AbortEndsRounds, FullScoreIffClean (a full score and no issue go together) and
  FailedIsExhausted follow from it. ChangesAreCheckpointed needs FilesSound beside it: until the
  plan is written nobody but oracle and metis has worked.
- **WorkerPool** (Agents_proofs): PoolInv says that statuses follow runners, that semaphore waiters wait
  once each and that permits plus holders make max_workers; ConcurrencyBounded, FinalStands
  (an action property) and StatsExact (the counters) rest on it.
- **SessionStore**: OneObject, MemoryIsNewest and Durable need each other (a save loses
  nothing because the writer's object is the store's and has what the file has) and three
  facts more: objects are filed under their own id, ids not given out have nothing, a
  stopped server has no objects. Holders are any number of connections and pushed turns.
- **Failover**: Inv says that the statistics in memory and on disk are well typed and that a
  profile with the reason timeout has a cooldown within the probe margin (StoreOK, Short);
  that a run has called every fallback candidate before its present one, that its copies are
  of profiles it has not tried, each once, and that it called its candidate once if it has
  not rotated (Sound); that a login is pending, exchanged or turned into one id (OriginsOK);
  and that last good profiles exist, in the file too, which a restart needs (GoodIn).
  Operations are shown to write only such statistics (StoreWritten) and runs to move only to
  sound states by untried calls (Moves). OnlyDisabledPassedOver follows because no short cooldown
  makes a fallback candidate skip a profile; AttemptsFew, NeverRepeats and LastGoodKnown are
  parts of Inv; NoLateReturn and DisabledStands are proved from
  what each action may write to the store.

- **WSConnections** (Connections_proofs): PushesArrive. PushInv adds to PushesInOrder that a
  session's entry holds exactly who is there (Membership), that stamps under way are new to
  whom they go to (StampsNew) and, for who is there, bounded by the counter (StampsBounded).
- **McpPipe** and **McpServers**: AnswersAreMatched needs AloneInPipe (while a call is
  alone in `_rpc`, the pipe holds its line and unasked ones, or begins with another's); MoverIsAlone needs
  LifeHasMover, which ties the life cycle's state to the place of exactly one caller, as long
  as nobody is cancelled. ServerImplementsLife needs no such condition: LifeIsOwned says that whoever
  connects or terminates is alone and the state is its own, so each of the steps that write the
  state without asking the table (a connection made or failed, a process that ended) is Bring, by
  the caller that did Take; a cancellation is Lose, after which ServerLife has no step.
- **RemoteBridge**: BridgeIsSound. NobodyNamed says that no socket's address names a session, so that
  nobody is let in and no success sets the count of attempts back.
- **Costs** (Services_proofs): AnswersAreBooked. Accounted(s): a loaded book is complete, a whole file is
  as complete as the book that was made of it, and a torn file has a book in memory until a
  crash finds it.
- **Coordinator**: RunsAreAccountedFor is inductive once types and traces are known.
- **Routing**: CopiesAreCurrent. Between the check and a request the copy of a key is one the
  turn could have been given, or it was removed together with the session's own key
  (CopyIsCurrent); BudgetFits says that no level's thinking budget reaches the request's limit.
- **AgentEditor**: AgentsStay. ProperEditor and ProperCall say whose text the form and the
  calls under way hold; AgentsOfServer relates registry and files, for any number of agents and
  spellings.
- **Memory**: MemoriesStayCurrent. Every index, in memory or in a file, was scanned when its
  lines were in the files (CurrentIndex); time is monotonic, so a later scan forgets. What was
  counted as saved is in its index, and in the file unless a write was cut off (SignalsKept).
- **HistoryPages**: PagesFit. Both screens are beginnings of what they page through
  (ScreenFits, CursorFits) and so is what an answer under way will bring (AskFits).
- **Hooks**: HooksStayInOrder. Lists stay sorted and without duplicates (WellKept), nothing due
  lies behind the walk (InTurn), and a scanner that ran left no secret. The first attempt at
  this proof failed: hooks that have run run again when two of lower priority are registered
  while a handler waits, which two hooks were too few to show. The property now speaks of the
  first time a hook runs, the run has three hooks, and the code's comment is listed as a
  disagreement.
- **ToolStream**: CallsComeWhole. Fits says for each accumulator what part of a call is open,
  finished or still on its way; blocks are finished in the order of their indices.
- **HiddenThoughts** (Views_proofs): ThoughtsAreHidden. As long as every tag fits the tail (TagsFit),
  what has been written, read without its
  thoughts by a definition that knows nothing of cuts, is what was shown followed by what the
  filter holds, which has no tag in it. The loop `_drain` is a recursive function of passes, and
  an induction over their number is needed: it is derived from the well-founded order of finite
  sets (LeastNumber, Induction, Repeated), since the library's own induction theorems take an
  operator as a parameter.
- **ChatPage** (Views_proofs): RecordedIsShown. PageInv says that there are pages h[0], h[1], ...,
  one for each event on its way: h[0] is the page as it is, h[i] what the first i events make of
  it (Ahead). Of each it says that recorded messages whose end event is behind it are whole
  (SettledAhead), that the message being streamed has the deltas and calls sent so far
  (GrowingAhead), and that nothing of later messages is there (UnseenAhead). An action of the
  loop appends an event and so a page; an event that is handled removes the first page. Pages
  are compared by what they show (Alike), since permission requests, which the user takes from
  the page at any time, do not count.  The property is stated by places on the page rather than
  by SelectSeq, so that it can be reasoned about at any length.
- **Skills** (Views_proofs): ChoicesAreSound. A skill the task does not mention has 25 tenths at
  most, 7 if it is autonomous and the risk high, which is below the threshold of 12.5, and a
  triggered one has at least 28; ChoiceInv adds that the registry, once read, stays until the
  next start, so that a choice stands beside the skills it was made from.

- **Lists** (Agents_proofs). The three theorems below speak of what functions make of lists of
  any length. Two facts about lists carry them: a property of the empty list that Append keeps
  is one of every list (the lemma Lists, by induction over beginnings), and FlattenSeq takes
  its lists one after the other (FlattenAppend, FlattenConcat), which is derived from its
  definition by the same induction. Conversions of whole histories are shown to turn
  concatenation into concatenation, so that a step that appends a message appends what becomes
  of it.
- **FileTools** (Agents_proofs): EditsAreSafe. FileInv says that the file is a text, that lines
  with their numbers were shown, and that no flaw has occurred but a changed end of another
  line. Sorted from the bottom up, the edits of a call leave in each place the text of the last
  edit of it, by induction over the edits made so far; joined, this is the text with its lines
  replaced where they were. Nothing is assumed of hashes: two lines may share one, and the
  property speaks of the hash that was shown.
- **Requests** (Agents_proofs): RequestsAreSound. RequestsInv says of the history, however
  turns were stopped, that its conversion has each result behind its call and sends each block
  in its place (SoundHistory), that while tools run the calls are the last message (CallsLast)
  and that what a provider that cannot call has served alone has neither calls nor results
  (PlainHistory). A later turn may use the ids of calls again: a result is of the last call with
  its id, and between the two are results only.
- **Compaction** (Agents_proofs): CompactionIsSound. CompactionInv says that the messages of a
  history are numbered and that the outcome is what the functions of `run_compaction` make of it
  (CompactedFrom). Each strategy keeps the messages at some of the places, every critical one
  among them, in their order. What the repair makes is a list of blocks, a message and the
  results of all its calls, and lists of answered blocks stay answered when one follows another.
  Protection splits the places in two, whose occurrences add up; the chunks are found by a walk
  over the rest, after each step of which the chunks and the one being filled have the messages
  so far, the results behind a boundary that go with it included.

The theorems that name no property of a run (FullScoreIffClean, FailedIsExhausted,
ConcurrencyBounded, StatsExact, AttemptsFew, NeverRepeats, LastGoodKnown, OneMover
and the types) hold in
the runs' instances too, and the runs are kept for what is harder to see.

Only model-checked: the liveness properties (TurnEnds, PipelineEnds, TasksSettle, RunsEnd,
Reconnects, BusyReleased), which are out of the prover's reach, and the violated properties,
which are counterexamples. Every other property of a run has a theorem.

## Disagreements found

Besides the two violated runs, PROJECT.json lists the disagreements of code and text met
while modelling, each with both lines. In short:

- Sessions: a deletion in the history that is written back, sequence numbers that clients
  are told to check and do not get, tool-call states that are never recorded, a model's keys
  stored for all although meant for one session.
- Pool, pipelines: stages that work before there is a plan on disk, the pool's queue limit and priorities, the status of failed and aborted plans.
- Fallback: disabled profiles that fallback candidates try all the same, limits on attempts
  that have no effect, error counts that are never reset, errors no other model can mend that
  fall back, a refused refresh that lifts a cooldown, one that brings a revoked profile back.
- Models: thoughts that show when their tag outgrows what is held back, calls without results that go out with every later request, blocks sent to gateways that
  do not know them, messages left out for Gemini, duplicates that compaction removes at shifted positions, pairs its chunks part, a
  provider that never reads tool calls, memory that is never refreshed, a failing scan that
  counts as one, prices by parts of a name.
- Tools and hooks: line ends that an edit by hash changes elsewhere, answers of MCP servers that
  are taken by their place, hooks that run again, or out of turn, when others are registered meanwhile, the arguments of bridged tools, strings that occur twice with an overlap, a
  scanner whose result nobody reads.
- Web client: tool results that leave the page, "always allow" that is dropped, history pages
  that shift under deletions, a bridge client that opens "undefined" and comes back after disconnect, a cost badge
  that shows nothing.
- Agents: a deleted agent with a capital letter is back after the next start.
- Features that do not reach the running program: channels, the mode's endpoint, memory scans.

## Not modelled, and the plan

Left out of the modelled components: chat_storage_path changing under open sessions,
session ids that map to one directory, images and metadata files, statuses other than BUSY
on disk, what agents write, the explicit order of profiles
(nothing sets it), runs with `enabled` or `use_auth_profiles` off (a single call). Profiles
that tie in the order may come in any order; of several saves in one step the last one counts.
The store of wisdom is a list
and a file that only grow. Each component's note in PROJECT.json says what is left out of it. Text matching, rendering,
providers' protocols and floating point sums are out of scope; modes, the Ralph loop,
notifications and channels have no reader in this commit, so there is nothing to be out of
step with.

Next, in this order:

1. For the cost book an abstract list of answers that Costs implements.
2. Session statuses on disk in SessionStore, for BUSY sessions after a crash; the archive's
   listing and images.
