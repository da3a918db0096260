# ThreadForge: a TLA+ verification project

ThreadForge runs coding agents for its users. A FastAPI server (`src/api-server`) accepts
Tasks and executes each one either itself, in a *native Run*, or on a user's machine, in a
*local Worker* (`src/local-worker`) connected by a WebSocket. Browsers (`src/client`) follow a
Task over server-sent events. Inside a Run an agent (`src/agent-orchestrator`,
`src/pico-legacy-runtime`) takes steps, calls tools and asks its user for approvals.

The modules here model the part that decides whether all this is correct: who may change a
Task's status and when, what an approval means while its Task is being cancelled, which
Tasks a device is executing, what a browser gets to see, what the agent's loop may end with and
what its tool calls see of one another, what a Worker's run shows and leaves behind, what a crash
makes of the records, and what becomes of a command that is answered late. Paths below are relative to
`src/api-server/src/threadforge_api/infrastructure/` unless they start with another directory.

## 1. Inventory

| component | state | operations | what is hard | what makes it correct |
|---|---|---|---|---|
| TaskRunner (`task_runner.py`) | active bit, Run contexts, degraded flag | register, worker thread, cancel, shutdown | terminal write against cancel and shutdown; failing writes; status chosen from a token read outside the gate | one terminal, of the right kind; the bit is given back only when the Task ended |
| ApprovalGate (`approval_gate.py`) | Approval records, wait conditions | request, wait, apply_decision, cancel_pending, expiry | a decision is two records and a journal; the waiter reads without the gate | no approval after a cancellation; nothing left half done |
| ExecutionBoundary, RunGate, FencedRunStore, CancellationToken | the lock, its generation, the token | enter, close, check before each step and tool | the check and the cancellation run on different threads | exclusive; no tool after a cancellation |
| records and restart (`sqlite_repositories.py`, `recovery_journal.py`, `run_reconciliation.py`, `lifespan.py`, `workspace_isolation.py`) | SQLite rows, JSON copies, artifacts, journal, workspace copies | create, update, import, begin, commit, reconcile, apply, recover_expired | a crash between any two writes, the restart's own included; a copy that fails after the commit | what a client was told stays; a ready service has settled everything |
| WorkerHub (`worker_hub.py`) | connections, slots, stream buffers, Task and Approval records | connect, disconnect, dispatch, cancel, resolve, revoke, one handler per message | API threads and the event loop; reads and writes of the record outside the lock; lost sockets | no leaked slot, no stranded Task, recorded decisions |
| hub requests (`worker_hub.py`, `api/routers/sessions.py`, `api/routers/devices.py`) | one registry and future per request, expiring answers, device and session records | select, rename, delete, history, update, uninstall | timeouts, late answers, records read before an await or on a pool thread and used after it | what a client is told was done; late answers are harmless; a deletion spares the sessions of Tasks, a user's name stays |
| local Worker (`local-worker`: `client.py`, `config.py`, `updater.py`, `auto_update.py`) | socket, active runs, `workspaces.json`, session files, update flag | start, cancel, rename, delete, pick, read, update, uninstall, reconnect | the receive loop against the threads it started | an update is alone; it comes back after a lost socket |
| a Worker's run (`runtime.py`, `pico/providers/clients.py`, `pico/shell_process.py`, `sandbox.py`) | token, streamed answer, heartbeat and request threads, process tree | complete, retry, project the answer, run a command, cancel | a thread that outlives what it was for; a stream that breaks; children of a shell | what is shown is the answer's; survivors are reported; a cancelled run ends and sends little more |
| event broker, publisher, SSE (`event_broker.py`, `event_publisher.py`, `api/routers/tasks.py`, `client.ts`) | subscribers, bounded queues, callbacks on the loop | publish, subscribe with a snapshot, enqueue, close, reconnect | gap between snapshot and stream, slow consumers, two locks | nothing missed without the stream closing; every browser learns the end |
| agent loop (`pico/agent_loop.py`, `pico/evaluation/review_*.py`, `pico/planning.py`, `pico/run_lifecycle.py`, `langgraph_pico/native_runner.py`) | counters of the loop, TaskState, plan and goals, review, artifacts | turns, talks, repairs, plans, reviews, finals, the ends | a dozen counters reset on different turns; cancellation swallowed or late; a write that fails while the end is told | it ends; work is reviewed; the end is told once |
| tool calls (`pico/agent_loop.py`, `pico/tool_executor.py`) | the batch, the repetition window, affected paths | normalise, partition, run on a pool, commit in order | calls that run in another order than they were written | each sees what the ones before it left |
| TaskService, SessionService, providers, artifacts, pairing, authentication | stored records | request validation, CRUD, pairing | little concurrency of their own | ownership, validation |
| evaluation harness (`pico/evaluation/metrics.py`, `evaluator.py`) | none in the service | benchmarks | nothing concurrent | numbers |

How they interact: the API threads call TaskRunner, ApprovalGate and WorkerHub directly. A
native Run's thread runs the agent loop, calls back through ExecutionBoundary before each step and
tool and waits in ApprovalGate. The hub talks to a Worker through an outbox per connection and is
called by the receive loop of each connection; the Worker runs the same agent loop with hooks that
send what it does. Every change of a Task is first persisted and then published; the broker
schedules a callback on the event loop for each subscriber. A restart reads what all of them left.

The hazards of this code, each at its line, are in `PROJECT.json` with the properties that
would catch them, or a note saying why none does.

## 2. Modules

| module | models |
|---|---|
| `BackendRun` | one native Run: Runner thread, deciders, cancellers, shutdown, the gate, every durable write and its failure |
| `RunContract` | what a Run promises: phases, questions in order, verdicts, tools, one end; no threads, locks or writes |
| `WorkerHub` | one device: the hub, its API threads, the event loop, connections, the Worker |
| `EventStream` | one Task's events from the writers to the browsers |
| `RunRecovery` | the records of Tasks, what a crash at any write leaves of them, the restart |
| `WorkerCommands` | the commands of the hub to a Worker, their answers, the Worker's receive loop and threads |
| `WorkerRun` | the threads of one run on a Worker: model request, projection of the answer, heartbeat, shell, cancellation |
| `AgentLoop` | one run of the agent: the loop, the review, the plan, the completion gate, the end |
| `ToolBatch` | the tool calls of a run: normalisation, groups, pool, commit, repetition |
| `BackendRunProofs`, `WorkerHubProofs`, `EventStreamProofs`, `AgentLoopProofs`, `ToolBatchProofs`, `WorkerRunProofs`, `WorkerCommandsProofs`, `RunRecoveryProofs` | theorems about the module of that name, each on its inductive invariant; in `BackendRunProofs` also that it implements `RunContract` |
| `MC*` | instances and symmetry for TLC |

The modules cut the system along what its parties share. `BackendRun` treats the agent's steps and
tools as choices, `AgentLoop` and `ToolBatch` are what makes those choices, and `WorkerRun` is what
carries them out. `WorkerHub` has the Tasks of a connection and `WorkerCommands` its commands;
`RunRecovery` has the records of `BackendRun` (and of a remote Task) across processes.

### BackendRun

`pc` says where each thread is in the code, with one action between two points at which
another thread can act: taking the RunGate, leaving it, a durable write, a read outside the
gate. `gate` holds the thread inside a gated section. What one section does before and after
its writes is merged with them. A durable write has a failing twin: it raises (`Raise`,
at most `MaxFaults` times) and the record is the old one or the new one (`Landed`), since a
repository commits to SQLite and then writes a mirror that can fail by itself
(`sqlite_repositories.py:189`).

* `task`, `approval`, `journal`, `artifact` are the durable records; `token`, `closed`,
  `active`, `degraded`, `cleaned` the control state of the process.
* Runner: `Start*` (start), `Build*` (runtime), the agent's own steps, `Request*` (ask),
  the wait and its expiry, the tool, `Converge*`, `Persist*` (terminal), release.
* Deciders: `DecideGate` and the shared `Resolve*` and `Rollback*` steps of
  `_resolve_locked`; the Runner takes the same steps for an expiry.
* Cancellers and the Stopper: `CancelTask` and the rest of `TaskRunner.cancel`; `Stop*`.
* Left out: the branch for a stale generation at `task_runner.py:192`, which nothing can
  reach while a Run is starting; the rejection for a digest mismatch (`approval_gate.py:203-206`),
  which compares the Runner's own arguments with the digest recorded of them, and nothing changes
  either in between; event payloads; the content of the artifacts.

### RunContract and the refinement

`BackendRun` without failing writes and without a shutdown implements `RunContract`
(`ImplementsContract`). A Task record that says *running* while its Approval is still pending
is mapped to *waiting* until the Approval record is decided: the decision takes effect at the
second of its two writes. A question exists when the Task waits for it, although the
Approval record is written first. `PhaseSeen`, `AsksSeen` and `VerdictsSeen` are the mapping.

### WorkerHub

One action is what the hub does under its lock, or one repository call outside it. A
repository update outside the lock is a read and a later write of the whole record, and the
copy read is kept in `handler[c].copy` or `draft`. `handler[c]` is what the receive
loop of connection `c` is in the middle of; `LoopFree` says that `connect` runs on the event
loop without giving way until it has ended the Tasks of the connection it replaces.
`ending[t]` is how far a Task of a lost connection has been ended.

Abstractions, all in the direction of fewer details and not of fewer interleavings:

* one device; `create_task`'s look at the device and its dispatch are one step, refused only
  when a hello was ever handled; hub operations under the lock are atomic;
* an expired approval is one that is not decided; restoring writes after a failed decision
  or request succeed, and the writes not given a failing twin do not raise;
* acknowledgements and connection heartbeats are left out, and terminals `blocked` and
  `interrupted` sent by the Worker are `failed`;
* a Worker that refuses a start is a run that fails at once; Tasks lost together are ended
  in either order; of a Task's event log only the read and the write of its record matter;
* whether a tool is being executed is not kept: any run that works may be in one.

### EventStream

A writer is a thread in a locked section: the RunGate's for a native Run, the hub's lock for a local
Worker's Task (`Local`). Inside it the change is persisted, the subscribers are listed under the
broker's lock, and one callback per subscriber is scheduled on the loop, in any order of the set they
are in. A callback is `live` until the subscription it is for ends: the loop runs it all the same,
into a queue nobody reads. A client subscribes (broker lock, then the snapshot, which for a local Task
takes the hub's lock), reads its queue, and reconnects when the stream ends before the terminal.
Versions stand for the changes of the Task, and the last one is its terminal. Events that the hub
publishes outside its lock (progress, and the start of a dispatched Task) report no status of the
Task's end and are treated as published in a section. Sequence numbers are left out.

### RunRecovery

`kept` holds what survives: the row and the JSON copy of each Task and Approval, the artifacts, the
open journal transition, and, as history, what the clients were told. A thread's work is a sequence
of writes that `run` and `api` hold, and each action does one; `Crash` may fall between any two, and
`Boot*` is `AppContainer.reconcile`: import of the copies, expired workspace copies, the Tasks in
active states with the repair of their artifacts, pending Approvals, open transitions. The restart
is itself a sequence of writes and may die or meet a failing one. Failing writes inside one process
are `BackendRun`'s subject and occur here only at the end of a run and in the restart.

### WorkerCommands

`request[r]` is one command with its registry entry (`entry`), its future (`answer`) and what its
client was told (`told`), which part ways when it times out or its connection fails. Because the hub
is one event loop, a handler and each part of a request around its await are one action, but for a
deletion: `delete_sessions` looks (`Return`) and then deletes (`Erase`), and while the loop is between
the two (`erasing`, `OnLoop`) the threads of the pool go on. `create_task` runs on such a thread:
`LoadSession`, `Initialize` (which saves the copy it read, with an automatic title, when the session had
no first request), `MakeTask` and `Dispatch` are steps of their own, and `making[i]` is how far a call
has come, with its copy of the session. The Task takes that copy to the Worker, whose run saves it in the
Worker's session file (`RunSaves`), from where the next session index brings it back (`Indexed`). A
handler that raises ends its connection (`HangUp`): with a protocol error, after which the Worker stops
for good, or plainly, after which it connects again.

On the Worker a command that changes the workspace list is three steps (load, save, report), and so is
the picker (capture, save, publish), since neither holds a lock over them. `config` and `picker.held`
may be one and the same object (`shared`), as in the code. Revocation, the three provider commands and
the content of histories are left out; so is the moment between `end_update` and the end of a process
that installs an update. An automatic title is one name, `Default`, whatever the request's words.

### WorkerRun

The run's thread, the daemon thread of `CancellableModelClient.complete`, the heartbeat of a tool
and the canceller step independently. A streamed answer is a sequence of characters that the provider
cuts into deltas anywhere, within a tag too (a tag is two characters: `<f` for `<final>`, `</` for
`</final>`, `<t` for `<tool` and `<talk>`). `hook` is what `RemoteExecutionHooks` has buffered of it:
`Project` is `model_text_delta` with its four modes, the cut of a pending buffer to its last `Window`
characters, the switch to a plain answer and the ending held back for `</final>`. One look at the token
(`Receive`) lets through all that `Emit` then sends event by event: the heartbeat, when one is due, and
the parts of at most `Part` characters. `shown` is what the hub has received. The process tree of a
command is up, has orphans, or is gone; whether its end was clean is what the shell reports. A provider
answers anything or nothing. Left out: the text hooks keep for a reply over a retry, leading blanks,
the masking of secrets with what it holds back, payload shapes, and the answer candidates
(`runtime.py:541-564`), which nothing in the repository begins.

### AgentLoop

A step is the code between two points where another party acts (model, tool, user, store). The locals
of `_run_loop` are `loop`, the signals of the turn `turn`, the TaskState `task`, the review sub-agent
`review`, the run store and event stream `disk`. Answers are free choices, and the budget
may run out at any turn. `EndCancelled`, `EndUnclean`, `Announce` and `Backfill` are the ends, with
the writes that may fail. Texts, prompts, memory and token counts are left out.

### ToolBatch

A file is a version that each change increases, so what a call saw and what it changed can be
compared exactly. A turn is a batch: cut, deduplicated, its reads merged and sliced
(`NormalizeReads`), split (`Partition`), run on the pool in any order under the executor's lock,
committed in declared order. `window` is `recent_tool_fps`. A check against the window may refuse a
read (`PreRepeats`), find it new, or raise (`RaiseUnsorted`). Which of its lines are new is a set
(`Unread`); that the interval scan of `_uncovered_read_lines` over the merged reads counts that set is
checked in `MCToolBatch` on up to three reads (`ScanCountsUnread`). `Partition` says which calls join the
concurrent group by what stands before them in the batch, where the code keeps sets of the paths touched
so far. A path is its file: that two spellings of one path are different strings for
`_extract_tool_path` is not modelled.

## 3. Runs

| run | instance | distinct states | question |
|---|---|---|---|
| `backend_gate` | 2 deciders, 2 cancellers, 2 approvals, no failing write | 138 thousand | do the gated sections keep Task, Approval and events in agreement, and implement the contract |
| `backend_faults` | 1 decider, 1 canceller, 1 approval, 2 failing writes, shutdown, with fairness | 0.7 million | is a Run safe when writes fail, and does everything end |
| `hub_slots` | 2 Tasks, 2 connections, limit 2, an approval, an event, a cancellation, a failing write, outboxes of 2 | 3.5 million | are slots, decisions and questions consistent |
| `event_stream` | 2 writers, 2 clients, 3 changes, a queue of 1, 1 dropped connection | 44 thousand | does every browser see every change or a closed stream, and the end |
| `agent_loop` | 1 goal, batches of 2, a review every 3 actions of at most 2 steps, 5 attempts, 1 failing write, with fairness | 1 million | does a run end, with its work reviewed, its cancellation honoured and its end told once |
| `tool_batch` | 2 files, 9 calls to choose from, 3 calls in all, slices of 2 lines, a cancellation | 1.5 million | do the calls of a batch see the order they were written in |
| `worker_run` | 2 calls, 2 attempts, 9 answers of up to 7 characters, a window and a part of 2, reasoning, POSIX processes, with fairness | 0.4 million | do retries, survivors and leftover threads stay invisible or get reported |
| `run_recovery` | 1 native and 1 remote Task, 2 changed files, 2 crashes, 1 failing write, with fairness | 0.5 million | does a restart keep what was told and settle the rest |
| `worker_commands` | 2 workspaces, 1 session, 2 commands, 2 connections, 2 `create_task` calls, 4 commands, connections, calls and updates in all | 4.8 million | is what clients are told true, whatever comes late |
| `hub_stranded`, `event_deadlock`, `commands_offline` | the smallest instance that shows it | stops at the violation | one disagreement each between the code and a sentence of the repository (section 4) |

Why the bounds are enough for what they are asked. Two deciders and two cancellers make every pair of API
calls race, and a third would do what one of the two did before or after; two approvals let a late
decision meet the next question. Two failing writes break a write and its rollback. Two connections are
one that is lost and one that replaces it, before or after the server has seen the end of the first; an
outbox of two overflows with a start, a cancellation and a decision. A queue of one overflows at the
second event, and three changes leave one to be lost before the terminal. `backend_faults` has one
decider, since a canceller and two failing writes with two of them are too many states for the liveness
properties. The exception that `OnlyShutdownReplaces`, `FreeMeansTerminal` and `CancelConverges` make (a
blocked Task that a second decision takes back to *running*, `BlockedIsFinal` in section 4), and the one
that `WaiterAgrees` makes (an older Approval left pending while the Run asks again), take more deciders
or approvals. The safety ones are theorems for every bound (section 5); all properties of the run were
also checked, without being a run, with two deciders, two approvals, one failing write and shutdown,
where both exceptions occur (1.4 million states). In `agent_loop` five turns are a plan, a write, a
review that sends back, a second round and an end; three is the tolerance for bad turns, and the last
attempt is reached. In `tool_batch` three calls are a batch of three, or one that repeats a call of the
two turns before. In `worker_run` two calls let a thread of the first meet the second, and two attempts
are one that breaks and one that does not; the answers have every tag first, in the middle, cut in two,
behind more text than the window holds and in plain text, and their texts make up to three parts. In
`run_recovery` the second crash falls into the restart of the first. In `worker_commands` two requests
are one given up and one that its late answer may be taken for, and two `create_task` calls are one that
a deletion finds and one that it does not; the last connection of the bound is not lost, since nothing
could come after it.

The type invariants of the modules other than `BackendRun`, and `SlotsNeedConnection` and
`SlotsHaveRuns` of `WorkerHub`, hold on the same instances and are not part of the runs.

`CHECK_DEADLOCK FALSE` is set where the modelled system really may stop: Tasks, commands, calls and
crashes are bounded, a Worker that was turned away does nothing more, and `event_deadlock` is about
a system that has stopped.

Fairness. `BackendRun`: weak fairness of the Runner's next step, of the shutdown once
begun, of the steps of an API call, and of time for each approval's expiry. The
operating system schedules the threads; the agent's loop is bounded by its step limits and
each model call by its timeout and the token. No fairness makes a user decide or cancel.
`EventStream`: weak fairness of a writer inside its section, of a client's next step, and of the
event loop's callbacks. `AgentLoop`: weak fairness of the run's own next step (a model call and a tool
return, by their timeouts). `WorkerRun`: weak fairness of the run's thread only, not of the request's
thread, of the command or of the provider, which need never answer. `RunRecovery`: weak fairness of
the run's thread, of the restart and of an API call's remaining writes; crashes and faults are
bounded. `WorkerHub`, `WorkerCommands` and `ToolBatch` state safety only.

## 4. Where the code and the repository's text disagree

Shown by a run:

* `NoTaskStranded`: `dispatch` marks a Task running after it released the lock
  (`worker_hub.py:876`); if the Worker reconnects in between, the Task has already been failed
  and its slot is gone. It then runs for ever in the record, out of reach of cancel,
  disconnect and revoke. (The Worker's next message about it also turns the Worker away.)
* `ClientsLearnEnd` under `Local`: `subscribe` holds the broker's lock and waits for the hub's
  (`event_broker.py:35`), the hub publishes under its own and waits for the broker's.
* `StaysPaired`: a request that timed out has removed its entry, so the answer, which was only slow,
  is a protocol error (`worker_hub.py:1446` and its siblings), the connection is closed with 4400 and
  the Worker stops for good (`client.py:150`).

Stated in the modules as properties that do not hold, each with its reason beside it. TLC refutes
them on small instances; they are not part of a run:

| module | property | what the code does |
|---|---|---|
| `BackendRun` | `CancelWins` | the terminal status is chosen from the token before the gate is taken (`task_runner.py:316`), so an accepted cancellation can end *completed* |
| `BackendRun` | `ApprovedMeansRunning` | the waiter reads the Approval outside the gate (`approval_gate.py:222`), so a Run may act on an approval that is then rolled back |
| `BackendRun` | `TerminalIsFinal` | a forced shutdown writes *interrupted* (the document says `failed`) over a terminal just written (`task_runner.py:501`) |
| `BackendRun` | `BlockedIsFinal` | a decision whose commit raises is rolled back after the Run has read it (`approval_gate.py:222`) and its Approval stays pending; the stale check of `apply_decision` names neither *blocked* nor *interrupted* (`approval_gate.py:309`), so between the terminal write of a Run that ends *blocked* and the closing of its gate (`task_runner.py:356`) a second decision makes the Task *running* for good, though the service is free |
| `WorkerHub` | `CancelledNeverCompletes` | an append that read the running Task, or `dispatch`, writes *running* over the cancellation (`worker_hub.py:1713`, `1729`, `876`), and the completion is then taken as reported |
| `WorkerHub` | `NeverTurnedAway` | a tool's heartbeat can follow its run's terminal (`runtime.py:331`) and is a protocol error |
| `AgentLoop` | `GateNeedsChecklist` | `_checklist_remaining` counts phases, not goals (`review_gate.py:52`) |
| `AgentLoop` | `CancelledMeansClean` | the review and the `done_when` check take a failed cleanup for a failed command |
| `ToolBatch` | `ReadsAfterWritesCount` | the window is written at commit, so a read after a write of its own batch counts as repeated |
| `ToolBatch` | `AskedLinesAreRead` | the dedupe compares paths and drops reads of other lines (`agent_loop.py:1650`) |
| `ToolBatch` | `OnlyCancellationRaises` | a read of a whole file and one of some of its lines in the window make the next read of its lines sort `(None, None)` among numbers, a `TypeError` that ends the run (`agent_loop.py:362`); at a commit it leaves the rest of the batch uncommitted |
| `WorkerRun` | `RequestsReachTheProvider` | the loop passes arguments that two of the three clients do not accept (`agent_loop.py:1432`, `clients.py:552`, `clients.py:1247`): with them a call fails before it is sent |
| `WorkerRun` | `HeartbeatsEndWithTools` | a tool that raises leaves its heartbeat running |
| `WorkerCommands` | `TasksHaveSessions` | `create_task` reads the session (`task_service.py:84`) on a pool thread and makes its Task at line 175 without another look: a deletion that looks and deletes in between (`session_service.py:562-577`) leaves an active Task without a session record |
| `WorkerCommands` | `SessionNamesStay` | the same thread saves the record it read with an automatic title (`session_service.py:456-470`): a rename answered in between is overwritten, a deleted record comes back |
| `RunRecovery` | `EndsAreKept` | the import at a start writes older JSON copies over newer rows (`sqlite_repositories.py:618`) |
| `RunRecovery` | `CompletedIsApplied` | a crash between a run's completion and `finalize` leaves a completed Task whose files were not applied |

Met while modelling, without a property:

* when a Run cancelled before its start cannot persist its terminal, the active bit is given back all
  the same (`task_runner.py:181`), which `FreeMeansTerminal` accepts because the service is degraded;
* the local Worker document says one root Task at a time, the limit in the code is 2; it also says
  client-internal retries are off (`docs/local-worker-v1.md:118`), the default is three attempts;
* the picker saves the workspace list it captured (`client.py:822`): it undoes a rename, or brings
  back a workspace deleted meanwhile, and the rename's answer is then inconsistent and turns the
  Worker away;
* a session index read before a deletion re-creates the deleted session's record;
* an answer to the rename of a session whose record is gone raises an exception the route does not know
  (`worker_hub.py:1470`): the connection ends, and the device's Tasks with it;
* of an answer that begins with `<` and has no tag, the client with native tools is shown the end from
  where `<` fell out of the 32 characters kept (`runtime.py:477`, `484`); in a plain answer a tag that
  comes later is shown as text (`runtime.py:459-463`), and its first part is sent without the mark of a
  final text that the comment asks for (`runtime.py:482`);
* a deletion refused because a Task was created during the await has already removed the Worker's
  files;
* a selection answered after its expiry is acknowledged but its workspace is not recorded;
* uninstalling sets no flag, so a Task started in its last quarter of a second is killed
  (`client.py:796`);
* the first batch of a run that comes while a review awaits its confirmation reads an unset variable
  (`agent_loop.py:1624`);
* a redirect ignores the battle limit; a review, the convergence summary and the planning call can
  swallow a cancellation, which `EarlyCancelHolds` accepts because the next boundary sees it;
* a batch that is aborted commits none of its calls, the finished ones included
  (`agent_loop.py:1736`);
* a lease of a workspace copy is never renewed, so it lapses after an hour of running
  (`workspace_isolation.py:246`).

## 5. Proofs

Every theorem holds for all values of the constants under the named assumptions of its module and nothing
else. The assumptions say what the code fixes: the sets of threads do not overlap (`ThreadsDiffer`),
bounds and limits are naturals, limits and queues not empty (`BoundsAreNaturals`, `HubBounds`,
`HubLimits`, `StreamBounds`, `CommandBounds`, `AgentAssumption`), a decision is not the word for its
absence (`HubDecisions`), finitely many browsers are connected (`StreamClients`), each session belongs to
a workspace the Worker knew (`CommandHomes`), the commands are the code's (`CommandKinds`), "no record"
is not a record (`NoRecord`), a Task of an earlier process is none of the Tasks
(`RunRecoveryAssumption`); `WorkerRunAssumption` lists the protocols and the characters of an answer and
types the bounds. Each proof has the same layout: a type invariant, the inductive invariant as a
conjunction of named parts, one lemma for what each action (or group of like actions) does to each part,
and theorems that draw the property from the invariant, for an action property with a lemma on which
actions change the variables it is about.

### BackendRunProofs

Any deciders, cancellers, number of approvals and of failing writes, with or without a shutdown:
`TypeCorrect`, `GateIsExclusive`, `CancellationSticks`, `ApprovedWhileRunning`,
`NoToolAfterCancellation`, `PendingIsAwaited`, `EndsAreFinal`, `FreeIsTerminal`, `WaitersAgree` (the
properties `TypeOK`, `GateExclusive`, `CancelSticks`, `NoApprovalAfterCancel`, `NoToolAfterCancel`,
`PendingAgrees`, `OnlyShutdownReplaces`, `FreeMeansTerminal`, `WaiterAgrees`).

* `TypeInv` is `TypeOK` with `GoalChosen`: while a Run converges, the status it converges to
  is a terminal one. Without it the terminal write would have no type.
* `GateInv` adds `GateExclusive`: the gate's holders are the threads whose program counters are
  inside gated sections, and there is at most one. Then a thread at such a point is alone.
* `SafeInv` adds what the code relies on between taking the gate and writing. The shutdown writes
  without the gate, so exclusion is not enough: a decision about to write its Approval has a
  running Task and an unmoved generation (`Approving`), the shutdown has closed the gate before
  it writes (`StopFenced`), a recorded cancellation has set the token (`CancelTold`), a
  terminal Task means that the Runner is past its last write or fenced (`TerminalFenced`), and no
  thread is half way through a decision or a request of a cancelled Task
  (`WriterUncancelled`).
* `FaultlessInv` is what holds until a write raises. The two records are written one after the other
  while other threads read them outside the gate, so it says what each thread finds at the point it has
  reached. `Records`: the questions before the last are decided, a Task waits only for a pending
  one, the token is set with a record, the terminal event repeats it. `RunnerFits`: at each program
  counter of the Runner, whether its question exists, is pending or approved, which status the Task may
  have, and that a pending question is either about to be shown, being answered, or the one the Task
  names. `DeciderFits`: a decision under way is of the question the Task waits for, so a late
  decision of an earlier question never enters the gate. `CancellerFits`: approvals are withdrawn after
  the token. Once the shutdown has closed the gate it writes without it, and only `Shut` is left:
  nothing is pending and nobody is in a section. From it follows `PendingIsAwaited`.
* `EndInv` adds to both what survives a failed write. A rollback leaves an Approval pending that the
  Run has passed, so an older decision may be under way at any time. The terminal is written under a
  gate that is still open (`LastOpen`), the shutdown's own stands behind a closed one (`EndOpen`), and a
  decision that has entered the gate of an ended Task before it is closed is of a *blocked* Task, of
  whose Run a write has raised (`LateDecision`): for every other end the stale check refuses it, and
  until a write raises `Records` leaves it nothing pending. From it follows `EndsAreFinal`, with the
  lemma `TaskWriters` on who writes the Task.
* `FreeInv` adds to `EndInv` who has told whom: a cancelling thread and the shutdown set the token
  first (`Told`), the gate is closed by a Runner that has ended or by a shutdown that has cancelled
  (`ClosedBy`), the active bit is given back by the last step of either (`FreedBy`), and a Runner past
  its terminal write finds the Task as it left it, unless its goal was *blocked* and a write raised
  (`EndKept`). From it follows `FreeIsTerminal`.
* `WaitInv` adds to `SafeInv` and `FaultlessInv`, beside `Told` and `ClosedBy`, that decisions are of
  questions asked before (`Asked`), and what becomes of the first one: while the Runner waits for it,
  each decision under way has the records as its point in `_resolve_locked` or in its rollback requires
  (`FirstAsked`, `Answers`), so that it leaves them settled, or the service degraded. From it
  follows `WaitersAgree`.

The exceptions in these properties are the code's: without them TLC refutes the properties on two
deciders, two approvals and one failing write (`BlockedIsFinal`, section 4).

#### The refinement of RunContract

`RunImplementsContract` (`ImplementsContract`) and `EventsAreTrue` (`EventsAgree`) have the hypothesis
`Calm`: no write raises and the service is not shut down, which is what the run `backend_gate` has.
Without it they are false: with a failing write a decision can be rolled back after the Run acted on
it, and the shutdown writes *interrupted* over an end that was told. The numbers of threads and
approvals are arbitrary.

The mapping reads records that other threads are half way through writing, so the proof stands on
`CalmInv`, the part of `FaultlessInv` that holds before a shutdown. Then each action is one step of the
contract, or none: `Start` is `Begin`; the Task's write in a request is `Ask`; the Approval's write in a
decision is `Answer` (the Task's write before it is not seen); `ToolStart` is `StartTool`; the first
`CancelTask` is `RequestCancel`; the withdrawals are `Withdraw`; the terminal write is `End`.

### WorkerHubProofs

Any Tasks, connections, requests, events, cancellations and failing writes, and any limits:
`DecisionsAreAlwaysRecorded`, `SlotsAreAlwaysUnfinished`, `QuestionsAreAlwaysShown`,
`CancellationYieldsToStaleWrites` (`DecisionsAreRecorded`, `SlotsAreUnfinished`, `QuestionsAreShown`,
`CancelYieldsToStaleWrites`), `SlotsAlwaysNeedConnection` and `DecidedStaysDecided`. That a cancellation
may be lost to a write under way is the code's (`CancelledNeverCompletes`, section 4); the theorem says
that nothing else loses it, and that what such a write puts back is not a completion.

`HubInv` is the type of records, messages and handlers (`HubType`) with: a request for an approval is in
one place on its way and its Approval does not exist before (`AsksAreNew`); the decisions on their way
are recorded ones (`DecisionsAreRecorded`); a Task not yet dispatched has left no trace
(`UnstartedIsUntouched`); slots need the current connection, and all that is heard of their Tasks
comes over it (`SlotsHaveConnection`); the record of a Task with a slot, and every copy that a handler or
an ending read before an unlock and will write back, is not terminal (`SlotsAreLive`); a completed Task
has no slot and no stale copy of it remembers a cancellation (`CompletedIsSettled`). The last two
are where the unlocked reads matter: a property of the record alone is not inductive, since a copy
may be written over it later.

`QuestionsAreShown` needs a second layer (`ShownInv`): a start is sent once (`StartsComeOnce`), so all
that is heard of a Task comes over one connection (`HeardOnOne`) and is handled in order, requests
name the Task they are of (`AsksNameTheirTask`), none of them waits to be registered while its Task is
ended after the loss of its connection (`EndsAskNothing`), and copies of a Task with a pending
Approval show it (`CopiesAreShown`).

### EventStreamProofs

Any writers, browsers, number of changes and size of the queues: `NoChangeIsMissed`,
`LossesAlwaysClose`, `BrowsersNeverGoBack` (`NothingMissed`, `LossCloses`, `NeverStale`) and
`StreamsAreTyped`. `StreamInv` says who is inside which lock (`WritersTakeTurns`,
`LockIsForSubscribing`), that callbacks and queue entries are of streams (`EventsGoToStreams`), that
versions ascend from what a browser shows over its queue and the callbacks to the Task
(`NothingIsAhead`, `CallsAscend`, `QueuesAscend`, `CallsAreNews`), and that while a snapshot is taken
at most one change is persisted and not yet addressed to anyone (`SnapshotsAreRecent`). The last is
what closes the gap between snapshot and stream: the subscriber is registered before its snapshot is
read.

### AgentLoopProofs

Any goals and limits: `CompletedWorkIsReviewed`, `EarlyCancellationHolds`, `TheEndIsTold`
(`WorkIsReviewed`, `EarlyCancelHolds`, `EndIsTold`). `AgentInv` says for each boundary of the loop
what counters, signals of the turn, the review's verdict and the TaskState say of one another: a run
in its loop has no end (`NoEndInLoop`), past it has one (`EndHasStatus`); what `emitted` keeps from
being announced twice was announced (`EmittedIsAnnounced`, `CompletedIsAnnounced`); what
`finalize_run` has written when it gets to its next write (`FinalWrites`); a run cancelled in time is
not on the way to an accepted answer (`EarlyTurnsBack`); and an answer that ends a run with changes
was reviewed, by a verdict that does not finalize unverified work, in the rounds the battle asks for
(`AcceptedIsReviewed`, `VerdictIsGated`, `AwaitingIsCounted`). `WorkIsReviewed` speaks of the end
alone and is not inductive: the locals it depends on are forgotten turn by turn.

### WorkerCommandsProofs

Any workspaces, sessions, names, requests, connections and `create_task` calls: `CompletionsAreTrue`,
`UpdatesRunAlone`, `ActiveTasksKeepSessions`, `GivenNamesStay` (`ToldIsDone`, `UpdatesAreAlone`,
`TasksKeepTheirSession`, `NamesStay`) and `CommandsAreTyped`. `CommandInv` is the type of both sides and
of the messages (`CommandType`) with: what the Worker works on and answers was asked for (`WorkIsAsked`,
`AnswersAreAsked`), and an answer that reports success, on its way or taken, is of a command that was
carried out (`AnswersAreDone`). Without the messages in it nothing could be said of an answer that
arrives over another connection, or after its request was given up. `ErasureIsClear`: while the loop is
between looking for Tasks and deleting, the Tasks it found are of other sessions. It is inductive
although the pool's threads make Tasks meanwhile, because a call keeps its session (`CallsStay`), and it
is all that protects a session: a Task made after the look is not in it, and loses its record
(`TasksHaveSessions`, section 4). The two action properties follow from the invariant with a lemma each
on who writes names (`NamesFollow`, `NameSteps`): a handler of the hub that keeps to `Given`, a deletion,
or `Initialize`, which is the exception that `NamesStay` states.

### ToolBatchProofs

Any files, calls, batches and bounds: `AffectedChanged` (`AffectedIsWhatChanged`), `CallsSeeOrder`
(`CallsSeeTheirOrder`) and `RefusedReadsAreKnown` (`RefusedReadsAskNothingNew`). The first two rest on
what `Partition` keeps apart: what a call on the pool looks at no call before it in the batch changes
(`NothingBefore`), what it changes no call before it but a search looks at (`NothingBehind`), and so no
two calls on the pool watch what the other changes (`PoolApart`). `BatchInv` follows a batch through its
calls. `SerialOrder`: when a serial call has started, the pool and the calls before it are over.
`CallsAgree`: the digests a call began with differ from the files exactly where the call itself has
changed them (`Snapped`), which is where another call's write would show. `LedgerAgrees`: a file has
changed if the record names it or a call of the turn has changed it. `SeenInOrder`: what a call saw is
the file's version less the changes of the calls from its own on, so a change made later by a call behind
it moves both sides, and one made by a call before it is impossible by then. The step that matters is a
call that does its work (`ChangeKeeps`).

`RefusedReadsAreKnown` adds that the lines of a refused read are known to the window (`RefusedKnown`):
the refusal makes it so, by a read of the same lines or by all of its lines together
(`RepeatedIsKnown`), and the window moves only at a commit, when the calls of the batch have all been
checked.

### WorkerRunProofs

Any protocol, platform, answers, window, part size, number of attempts and calls: `SurvivorsReported` and
`LateEventsFew` (`SurvivorsAreReported`, `LateEventsAreFew`). `WorkerInv` follows both through the run.
`ShellLeavesLittle`: once the polling loop is left, a command with a clean end has left nothing, or
detached it by itself; `NothingRegistered`: between calls the thread that cancels finds no command,
unless the run failed with one. For the events a count. `Owed` is what the request's thread still sends
before it looks at the token again: the heartbeat or another event without text, and one event for each
part of the text it has not sent. While the run lives it is no more than the last look let through
(`req.allowed`), and every thread that may still send, a stray heartbeat, the tool's heartbeat, a model
request, was started by a call of its own (`ThreadsAreCalls`); a thread that sends has something to send
(`RequestOwes`). After a cancellation, which set the token first (`CancelledByToken`), what was sent late
and what is still owed are together no more than the calls and what was let through (`SendersAreFew`),
because each event sent makes what is owed one less (`EmitPays`) and under the token no look lets
anything more through, by whatever retry or parser it goes. With a heartbeat and several parts behind one
look the bound is not one event per call, and the property does not say so.

`ShownFollows` (`ShownFollowsAnswer`) is about the answer a request streams, of any length and cut into
deltas anywhere. `Projected` relates the hooks, the answer so far and what of it was let through
(`Delivered`: what the hub has, and what is still to be sent), mode by mode (`HookFits`): while the mode is
pending there is no tag, the buffer is an ending of the answer, and nothing was let through; in a
`<final>` answer what was let through is all behind the marker but the ending held back, which is what
the buffer has; a plain answer was let through from some place on that `PlainFrom` allows; once the hooks
block, all that may be seen was let through, and nothing that still comes can add to it (`Closed`).
`DeltaFits` is the step: one delta more, of any length, in whatever mode. That a buffer cut to the window
still finds every tag rests on the window holding the `<` of a tag cut in two (`TagsInKept`). An attempt
that is given up resets the hooks before the retry is announced, and the announcement clears what the hub
has, so between the two only the hooks are known to be fresh.

### RunRecoveryProofs

Any Tasks, remote ones among them, any number of crashes and failing writes: `DecisionsAreKept` and
`ToldEndsAreKept` (`DecisionsStay`, `ToldEndsStay`). What a crash leaves depends on how far a list of
writes had come, so `RecoveryInv` speaks of what is left of each list (`run.todo`, `api.todo`,
`boot.todo`): once it is done, an Approval's row and copy are the same decision and the journal is
closed (`Settles`, in `RunSettles` and `ApiSettles`), a Task's row and copy are the end that is about
to be told (`Leaves`, in `RunEnds` and `ApiEnds`); in between, where no such list is under way, the
two records agree (`RunAgrees`). The proof that a step keeps these is one lemma on the head of a list
(`SettlesOn`, `LeavesOn`), whoever does the write. What others rely on, an answer, a tool's work, the
terminal event, is the last write of its list (`Lasting`), hence the records agree when it is done, and
a journal transition that a list opens it also closes (`Closing`). From there on nothing may touch
them: `DecisionsAreFirm` and `EndsAreFirm` say so of the lists of all three threads, and `Harmless` is
what a restart may write of a Task. That the import writes copies over rows is safe for the two
properties just because row and copy agree by then; for a Task whose end was not told they need not
(section 4).

`RestartsSettle` (`RestartSettles`) needs the other half, what a restart has made of what it found.
`RowsAreFaithful`: every end in a row, in a copy, or still to be written is one that the artifacts
written for it stand for (`Faithful`: `converge_run_artifacts` and back by `terminal_task_from_run`),
so repairing the artifacts from a row and a row from the artifacts give the same end; `Outcome` is such
an end because of what the agent's loop can leave of a run (`MemFits`). `RestartProgress`, of a restart
that met no failure: the Tasks that the first phase has seen are given one end by row and artifacts
once the list begun for them is done (`Concludes`, `ConcludesOn` for one write of it, `RepairsConclude`
for the six cases of `reconcile`), the later phases do not touch that, and leave no pending Approval
and no open transition behind (`ApprovalsAreClosed`, `JournalIsClosed`). A restart that dies half way
leaves the next one only records it can start from again, which is why nothing of `RestartProgress` is
asked of a process that is down.

### What stays with TLC

* Liveness: `CancelConverges`, `RunReturns`, `ClientsLearnEnd`, `Returns`, `CancelEnds`, `TasksEnd`;
  fairness and ENABLED are out of the prover's reach.
* `ImplementsContract` and `EventsAgree` have no form here that allows failing writes or a shutdown:
  what is true of them then is what the other theorems about `BackendRun` say.
* `ScanCountsUnread`, that merging intervals and scanning them counts the lines no read has had, is
  about folds and would need induction over the reads: TLC evaluates it on bounded inputs.

## 6. Plan

All modules, runs and the proofs of section 5 are done. Next: the provider commands and revocation in
`WorkerCommands`.

## 7. Not modelled

Request validation, listing and CRUD, pairing, tokens and user sessions; the provider
catalogue; the evaluation harness; the user interface; prompts, memory and texts of the agent; payload
shapes of the model clients; downloads, signatures and installers; git and container commands. It is
sequential code over stored records, files or the operating system, with no state shared between
actors beyond what the modules above already have. Sequence numbers of events are left
out because no client orders or drops events by them.
