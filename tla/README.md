# Verification of Open WebIDE: scheduled prompts, goals, runs, agents and host maintenance

TLA+ models of the parts of Open WebIDE that work without a user at the keyboard:
saved tasks, monitors and goals put prompts into a chat's queue, execution hosts
claim and deliver them, and leases keep two agents from working in one chat; a
run's events reach a browser window over sockets that break; inside a run a tree
of agents shares budgets, a lock and the user's cancellation; and approved
maintenance of a host goes on through crashes, lost replies and reboots. The models are checked with TLC on
small instances, and the most important safety properties are proved for every
instance with TLAPS.

Contents: [inventory](#inventory), [plan](#plan),
[modules](#modules-and-how-they-correspond-to-the-code), [runs](#runs),
[fairness](#fairness), [proofs](#proofs), [disagreements](#disagreements-between-code-and-documents),
[what is not modelled](#abstractions-and-what-is-not-modelled).

## Inventory

| Component | State | Operations | What is hard |
| --- | --- | --- | --- |
| Store, scheduled part (`crates/storage/src/store/scheduled.rs`) | `scheduled_tasks`, `scheduled_runs`, `monitors`, `session_run_leases` | `scheduled_command`, `due_scheduled`, `scheduled_result_evaluated`, `session_run_lease`, `cleanup_monitors` | several hosts and users at once; claims and leases that expire; reports that come late |
| Store, chat queue (`chat_queue.rs`) | `queued_prompts` | enqueue, guidance, edit, remove, consume | consume is one transaction with the message and the run; remove is none |
| Store, goals (`goals.rs`, `core/src/goal.rs`) | `session_goals`, `goal_workers` | `dispatch_goal`, `apply_goal_result`, `yield_goal_pending`, `pause_removed_goal_prompt`, `goal_run_cancelled` | revisions against other windows, a worker that must stop by itself |
| Store, rewind and reviews (`rewind.rs`, `reviews.rs`) | prepared rewinds and reviews | prepare, complete | a lock held between two requests while files are written elsewhere |
| Scheduled dispatcher (`bridge/src/scheduled.rs`) | at most ten dispatch tasks | poll, start, report, watch | lost replies, crash, a dispatch that outlasts its claim |
| Run registry (`bridge/src/runs/runs.rs`) | runs by id, their event ring and snapshot | reserve, prepare, renew, release, emit, forward, reap | body and control loop side by side; failure after the lease or after the consume |
| Foreground runs (`frontend/src/local_agent.rs`, `backend/src/api/sessions.rs`) | a lease token | take, renew, release, vanish | compete with scheduled runs |
| Run events (`runs.rs` `forward`, `terminals/seq_ring.rs`, `server/ws.rs`) | bounded ring, sequence numbers | emit, subscribe, resume | a slow subscriber that must not miss an event |
| Run recovery of a window (`frontend/src/state_actions/runs.rs`) | the tracked run, the last sequence seen, runs whose end was shown | start, attach, discover, finish, poll | attaches that cross each other, a history load between two events, a run that ends unseen |
| Host administration (`store/host_admin.rs`, `core/src/host_admin.rs`, `bridge/src/host_admin`) | the journal of privileged operations, the connection, one gate, resident tasks | prepare, apply, step, verify, finish, recover, change the connection | restarts, lost saves and reboots in the middle of an operation; stale copies of a row |
| Agent loop (`crates/agent/src/lib.rs`, `session.rs`) | per agent: the point of its loop, turns and calls used, the pending call | model call, approval, snapshot, tool, release, cancel | every event is saved before the next step; cancellation at every wait |
| Agent tasks (`crates/agent/src/tasks`) | child tasks, model permits, counts of tasks and tools, a mutation lock | delegate, name, launch, fall back, observe, drop | agents that wait for each other; snapshots of one agent around changes of another |
| Agent questions (`questions.rs` of store and agent) | question batches | ask, answer, cancel run | answers racing the end of the run |
| Web push (`push.rs`) | outbox rows | enqueue, claim, finish, retry | sent twice or never |
| Editor recovery | revisioned drafts | save, restore, discard | several windows |
| Policy, compaction | rules, a conversation | decide, compact | text; appears here as the outcome of a call or a stream |
| Plugins | packages, grants, processes | install, grant, invoke | mostly I/O |
| Frontend, editor core, LLM providers, auth, terminals, exec, backend REST | browser state, text, wire formats | | rendering, text algorithms and I/O |

The parts meet in the database. Bridge daemons and browsers only ever send REST
requests, and a daemon may be separated from its own reports by seconds or by a
crash. Most requests run in one transaction of the store (`Store::transaction`);
some hold none, among them the removal of a queued prompt and `session_run_lease`,
which other requests may interrupt and which may be cut off. So the
atomic steps of the models are the store's transactions and, where the code
holds none, its statements; the steps of a daemon are what it does between two
requests.

What makes these parts correct: a prompt becomes a chat message at most once and
in order; a task has one occurrence at a time; a claim or lease that is lost is
recovered; nothing stays in front of a queue for ever; whoever works in a session
holds its lease; unattended work ends by itself; a goal changes only under a
new revision; a window shows each event of a run once and in order, finds a run
that goes on, and stops showing one that is over; a maintenance step runs at most
once and success is earned; the snapshots around a change hold that change and no
other, and are saved before it; a run ends. `PROJECT.json` lists the hazards behind these, each at its line.

## Plan

1. `ScheduledStore` (done): the store's transactions on tasks, monitors, goals,
   queue and leases. It comes first because every other part acts through it.
2. `PromptDelivery` (done): the abstract specification of the queue, implemented
   by `ScheduledStore`.
3. `ScheduledDispatch` (done): the store composed with a daemon's dispatcher and
   run registry, and with foreground runs.
4. `ScheduledStoreProofs` (done): types, delivery at most once, single and fresh
   occurrences, and that the store implements `PromptDelivery`, proved for all
   instances. `ScheduledGoalProofs` (done): the bound on goal work and the revisions
   of goals. `ScheduledTaskProofs` (done): what tasks and their queued prompts keep
   to. `ScheduledDispatchProofs` (done): the dispatcher implements the store, and who works.
5. `RunDelivery` (done): `Run::emit`, `SeqRing`, `forward`, the socket's loop and
   the window that follows the run. `RunDeliveryProofs` (done): a window's view
   never skips or repeats an event, an end is shown only of a whole run and is final,
   and what a window shows again after it was disturbed.
6. `HostMaintenance`, `HostOperations` (done): the promise of host administration and
   its journal, request handler, resident tasks and recovery loop, shown to implement
   it. `HostOperationsProofs` (done): the safety properties and the refinement, for all
   instances; `HostSuccessProofs` (done): that a success is earned.
7. `AgentTree` (done): the agent loop, child tasks, budgets, permits and mutation lock.
   `AgentTreeProofs` (done): its safety properties for a tree of any shape.

What the code would allow next: rewinds and reviews with the project-wide lock and the
messages they remove, composed with the queue; permission decisions lost with a
socket; RunCancel against a run that ends.

## Modules and how they correspond to the code

### `ScheduledStore`

Variables: `db`, the database as one record; `now`, the clock in seconds;
`removal`, the DELETE of a queued prompt that is between two of its statements;
`yields`, for each client the lease request that is between two of its statements,
with the `now` it was called with.
`PROJECT.json` maps each definition to its lines.

| Field of `db` | Table or column |
| --- | --- |
| `task` | `scheduled_tasks`: whether the row exists, `enabled`, `next_run`, and of the draft only its schedule |
| `runs` | `scheduled_runs`: `task_id`, `due_at`, `status`, `claimed_until`, `goal_revision` |
| `queue`, `prompt` | `queued_prompts`: which rows exist; their session and `guidance` |
| `sent` | history: how often a prompt became a row of `messages` |
| `lease` | `session_run_leases` |
| `goal`, `worker` | `session_goals`, `goal_workers` |
| `mon` | `monitors`: `remaining`, `expires_at` |
| `sess`, `locked` | `sessions`; a prepared rewind or review |
| `last` | the AUTOINCREMENT counters |

A transaction is written as a composition of passes over `db` in the order of
its SQL statements, for example

    Poll = Claim ( Insert ( Cleanup ( Rearm ( Recover ( db )))))

for `due_scheduled`. `Cleanup` is `cleanup_monitors`, which the code runs at the
end of every command and every report and inside every poll.

| Action | Code |
| --- | --- |
| `CreateTask`, `UpdateTask`, `EnableTask`, `DisableTask`, `DeleteTask`, `StartMonitor`, `CancelMonitor` | the commands of `scheduled_command` |
| `StartGoal`, `ResumeGoal`, `PauseGoal`, `CompleteGoal` | `dispatch_goal` with `change_goal` and `Goal::transition` |
| `Enqueue` | `queue_prompt`, for prompts and guidance |
| `Consume` | `consume_queued_prompt` |
| `RemoveFind`, `RemoveReadGoal`, `RemoveSaveGoal`, `RemoveStopWorker`, `RemoveCancel`, `RemoveDelete`, `RemoveAbandoned` | the statements of `remove_queued_prompt` and `pause_removed_goal_prompt`, which hold no transaction |
| `Lease` | the upsert of `session_run_lease`, which holds no transaction |
| `YieldFind`, `YieldCancel`, `YieldDelete`, `YieldNext`, `YieldAbandoned` | the statements after it, for a token that is not a scheduled run's: the SELECT of `yield_goal_pending`, the UPDATE and the DELETE of `cancel_scheduled_pending`, the UPDATE of `next_run`; a request that is cut off. (`Enqueue` calls the same functions inside its transaction: `YieldGoal`.) |
| `Release` | the DELETE of `session_run_lease` |
| `Poll` | `due_scheduled` |
| `Report` | `scheduled_result_evaluated` with `apply_goal_result` |
| `PrepareRewind`, `CompleteRewind`, `DeleteSession` | the lock of rewinds and reviews; `delete_session` with its cascade |
| `Tick` | the wall clock |

### `PromptDelivery`

What the queue promises: a prompt is accepted under a new id, then becomes a
message once and in its session's order, or is withdrawn; nothing that left the
queue comes back. `ScheduledStore` instantiates it with `waiting <- db.queue` and
`sent <- {i : db.sent[i] > 0}`; `DeliversInOrder` is its specification under that
mapping.

### `ScheduledDispatch`

Extends `ScheduledStore` with one daemon and the foreground runs. `slot` holds
the dispatcher's tasks, each at a point of `RunRegistry::start`; `reg` is the
registry: `reserved` (from `reserve` to the end of `prepare`), `running` (the
body works), `ended` (its last event is emitted, the lease not yet released),
`finished` (until `reap`). `control` says that the control loop that renews the
lease is alive, `cancel` that the run was asked to stop. A request that fails
for its caller may have happened or not; both are actions. `fg` holds the foreground
runs: `running` renews its lease (a browser's, a bridge's, an agent of Spin through
`CancelFlag::check`), `replying` is a plain chat reply of Spin, which takes its lease
once and streams for as long as the provider does. `Crash` empties
`slot`, `reg` and the daemon's foreground runs and leaves the database as it is.
`begun` is a history field: how often an agent began to work on a prompt.

### `RunDelivery`

One run of the bridge, one socket at a time, and one browser window. It stands
beside the other modules: `ScheduledDispatch` says whether and when a run works,
`RunDelivery` what a window gets to see of it. Events are their numbers.

| Variable | Code |
| --- | --- |
| `run` | the `Run` in the registry: `phase` (`late` is a start the bridge has yet to read from a lost socket; `failed`, `lost` and `reaped` are runs the registry no longer holds), `seq` of `Delivery`, and `here`: the task of `on_run_start` still has the socket it answers to |
| `task` | the forwarder of the socket (`Run::forward`: `cursor`, the snapshot or batch it read under the lock, its position in the ring's watch channel), and one that was aborted while it ran |
| `asks`, `wire` | the socket's two directions: `RunStart`, `RunAttach`, `RunList`; `RunEvent`, `RunSnapshot`, `RunRejected`, `RunMissing`, `Runs` |
| `win` | `RunActions` and `ChatState`: the tracked run, its `last_seq` (`seen`), the messages shown (`view`), `history` not yet consumed by an attach (`stale`), `listing`, `observed` |
| `left` | what is left of the bounds |

| Action | Code |
| --- | --- |
| `HostStart`, `ServeLate`, `Serve` (start) | `RunRegistry::reserve`, called by the dispatcher or by `on_run_start` |
| `Prepare`, `PrepareFails`, `Accept`, `Refuse` | `RunRegistry::prepare`, and what `on_run_start` does after it |
| `Emit`, `Reap` | `Run::emit`, `RunRegistry::reap` |
| `Serve` (attach, list) | `on_run_attach` with the replacement of the forwarder; `RunRegistry::list` |
| `Read`, `Send`, `Vanish` | `Run::forward` between two points at which it waits; an abort that takes effect |
| `Connect`, `LoadHistory`, `Leave`, `GoalNews` | what sets off the Effect of `install_reconnect`, with the Effect |
| `Poll`, `StartRun`, `Receive` | the one-second poll of `install_reconnect`, `RunActions::start`, the handlers of `register`, `discover` and `finish` |
| `Disconnect`, `ReloadPage`, `Restart` | the teardown of a socket on both sides; a page or a bridge that starts anew |

The Effect is part of each action that sets it off, so that an attach is asked
wherever the code asks one, twice where the code asks twice. `whole` and `clean`
are history fields of the window: whether a history load or another session took
away events that the window had seen, and whether messages about an earlier
attachment were under way when it took the run up.

### `HostMaintenance` and `HostOperations`

`HostMaintenance` is what host administration promises of an operation: prepared,
claimed when no other one is under way, its steps executed in order and at most once
and only while it is under way, its end final, and a success only after every step
(of a plan that ends with a reboot, the reboot may have happened on its own).
`HostOperations` is the code, and `Maintained` says that it implements the promise with
`phase <- rows[o].state` ("working" while active) and `executed <- ran`.

| Variable | Code |
| --- | --- |
| `rows` | `host_operations`: state, `steps_started`, the number of retained outcomes, `boot_id`, `connection_revision`, and the age of `updated_at` |
| `conn` | the saved `HostConnection`: revision and host |
| `up`, `boot` | whether a host answers over SSH, and its boot identity |
| `req`, `rec` | the request handler and the recovery pass, which share `operation_gate` |
| `task` | the resident task of an operation (`spawn_operation`, `live_operations`) with its own copy of the row |
| `ran`, `good`, `passed` | history: steps started, steps that reported success, verifications that passed (after the reboot, where one is expected) |

| Action | Code |
| --- | --- |
| `ReqStart`, `ReqIdentity`, `ReqPrepare`, `ReqClaim`, `ReqLaunch`, `ReqDrop` | `request` and `host_request` between two calls; `prepare_host_operation`, `claim_host_operation`; a handler whose chat is stopped |
| `TaskBegin`, `TaskCommand`, `TaskOutput`, `TaskOutcome`, `TaskLost`, `TaskFinish` | `execute_operation`, `run_command`, `finish` between two saves or commands |
| `RecStart`, `RecList`, `RecFilter`, `RecExpire`, `RecOverview`, `RecDecide`, `RecEnd` | `recover` between two calls |
| `SaveConnection`, `DeleteSession` | `save_host_connection`, `delete_session` |
| `BridgeCrash`, `HostDown`, `HostUp`, `Tick` | the bridge process, the machine, the clock |

A save (`Save`) may succeed, be refused, be lost on its way, or succeed while its
caller is told of an error. What keeps stale copies harmless is `Accepts`: the
journal overwrites only an active row of the same boot and revision.

### `AgentTree`

One run's tree of agents. Every agent is the state machine of `run_scoped`: `pc` is its
`Next`, with `name`, `prepare` and `launch` for the phases of `child` in the task
scheduler before its loop, `running` for a tool at work, `ended` for an agent whose
last event is out, and `over` for one whose parent has polled it again. `permit` is a
`ModelPermit`, `pair` an open pair of snapshots, `seen` the task's `tool_count`,
`tries` the models left to try, `ran` a history field: a tool was executed.
The whole tree is polled by one consumer: `out` is the checkpoint it is saving, and no
agent moves until it has. Only tools themselves go on meanwhile (`Change`).

| Action | Code |
| --- | --- |
| `Acquire` | `ModelBudget::acquire`, for a naming, a completion and an automatic approval |
| `NameTask`, `Prepare`, `Launch`, `Dropped` | the phases of `child` (`tasks/scheduler.rs`) |
| `CallModel`, `StreamModel`, `EmitToolCall`, `Refuse`, `PrepareTool`, `AwaitCancelled` | the arms of `run_scoped` up to an approved call |
| `AcquireLock` | `MutationExecutor::acquire`, called by `checkpoint` and `project_checkpoint` |
| `CheckpointTool`, `SnapshotTool`, `Start`, `RunTool`, `ReleaseTool` | the arms around a tool; `Start` includes `reserve_tool` and `reserve`, and starts the children of a task call |
| `Save` | the recorder, which writes a checkpoint before it polls on |
| `Answer`, `Cancel`, `Change`, `Abandon` | the user, the cancellation, a tool at work, a run whose consumer is gone |

The failures of an agent (`Failed`) are followed by a retry with the next model where
`child` makes one (`FallsBack`).

`MCScheduledStore`, `MCScheduledDispatch`, `MCRunDelivery`, `MCHostOperations` and
`MCAgentTree` hold the instances for TLC.

## Runs

| Run | Configuration | Checks |
| --- | --- | --- |
| `two_tasks` | a recurring task for new or latest sessions and a monitor of one or two checks, on two hosts, unattended; queue, due and claim batches of one | `SingleOccurrence`, `FreshOccurrence`, `NoDeadPrompt`, `MonitorBudget`, `MonitorClaimedInLife` |
| `goal` | one goal worker beside a user who types and rewinds and foreground runs that withdraw its prompts statement by statement; nothing is removed or cut off | `NoDeadPrompt`, `GoalTurnBound`, `PendingGoalCurrent`, `GoalChangesRevision`; `DeliversInOrder`: the store implements `PromptDelivery` |
| `removal` | one goal worker whose prompts are removed or withdrawn by requests that may be cut off, in a session that may be deleted | `DeliveredOnce`, `GoalTurnBound` |
| `dispatch` | a daemon with two slots, a foreground run or plain reply, losses, one crash, slow dispatches | `DispatchTypeOK`, `WorkedOnce`, `BodiesApart` |
| `dispatch_slow` | as `dispatch` | `WorkIsRecorded` is violated |
| `dispatch_plain` | as `dispatch` | `OneBodyPerSession` is violated |
| `dispatch_live` | two slots, two occurrences of one task, losses and a crash before `Calm`, dispatches faster than their claims | `WorkIsRecorded`; `PromptsMove` under fairness |
| `run_own` | a window's own run of up to five events, a ring of two, two breaks, aborted tasks that still send; the start may fail | `TypeOK`, `ViewExact`, `EndSeenWhole`, `Restored`; `EndShown` under fairness |
| `run_live` | a host's run, which may fail, that the user leaves and comes back to twice, with goal news, a break, a ring and a queue of one | `RestoredFromOne`, `NotAgain`; `RunFound`, `EndShown` under fairness |
| `host` | a plain operation and one with two steps, a verification and a reboot, on one host, with one fault, one new boot and one change of the connection | `HostTypeOK`, `OneMaintainer`, `WorkIsClaimed`, `ConnectionIsStable`, `StepsOnce`, `SuccessIsEarned`; `Maintained`: it implements `HostMaintenance` |
| `host_loop` | the reboot operation alone, a journal that retains three outcomes | `OperationEnds` is violated |
| `tree` | a root, its children `a` and `b`, and a child of `a`; one permit | `TreeTypeOK`, `OwnChanges`, `ChangesCovered`, `RetriedClean`, `ChildrenInside`, `HeldBriefly`; `RunEnds` under fairness |

**Bounds.** `MaxNow`, `MaxId` and `MaxRev` stop the clock, the row ids and the
goal revisions; `Crashes` bounds crashes. The code's times are scaled: a lease or
a claim lasts one or two seconds instead of 120, a monitor three instead of
86400. What matters is their order: a clock that reaches three (six where the
daemon must come to rest) lets a claim expire and be handed out again, lets a
monitor expire before or during its last check, and lets a schedule fire two or
three times. Two row ids are enough for two occurrences of one task, for a prompt
in front of another, and for a delivery beside one that is out of date; a goal meets
its limits of two turns, and of one stall in `goal` (100 and 3 in the code), with
two runs. A lease of one second makes a lease request that is still between two
statements meet the next poll and the next holder of the session. A queue of two, or of one, is filled by these ids. Runs stop at the bounds, so
deadlock is not checked.

In `RunDelivery`, `MaxSeq` bounds the events, `MaxBreaks` the lost sockets, reloads
and bridge restarts, `MaxVisits` the visits elsewhere, `MaxGoalNews` the news about
the goal; `MaxAsks` keeps the user from acting faster than the bridge answers. The
ring holds one or two events (4096 in the code) and the socket's queue one or two
messages (256): with a run of three to five events the ring overflows while a
forwarder waits for room, so that it reads a gap, a snapshot or a batch, and the
queue blocks between two events of a batch. Two breaks let an attach after a
break be broken again; two visits let a run's end be shown, left and seen again.

In `HostOperations`, `MaxFaults` bounds crashes, lost or failed saves, dropped requests and
unexpected outages, `MaxBoot` the reboots and `MaxRev` the connections; `Hour` is one or
two ticks. One fault is enough to leave an active row behind at every point of an
operation, and recovery, which itself needs no fault, meets it there. In `host` the
journal retains more outcomes than the operations produce; `host_loop` is the instance
in which it is full (32 in the code, as many as a plan of 16 steps and 16
verifications produces).

In `AgentTree` the tree is a constant: `a` may delegate and write, `b` runs commands and
has a fast model to try first, `c` writes or searches, the root delegates. A single
permit (`MAX_PARALLEL_TASKS` in the code) makes the four compete for it at every model
phase; a budget of three tools and three tasks is exhausted by some behaviours and not
by others; a reply holds up to two calls (`MaxCalls`), one more than an agent may make.
Each agent has one turn in this instance: a second is what `Retried` gives `b`.

Three specifications in `MCScheduledStore` leave steps out to make room for the others:
`two_tasks` chat input, removals, rewinds and session deletion, for a second task
(`UnattendedSpec`); `goal` the edits, which a goal's task does not have, removals and
session deletion (`GoalSpec`); `removal` edits, chat input and rewinds (`RemovalSpec`).
Every step is in one of them, and the proofs are about all of them together.

## Fairness

`PromptsMove` needs fairness (`FairDispatchSpec`), and each part of it is a
loop of the code: a poll happens again and again as long as it has something to
do (the five-second interval of `scheduled::serve`), a dispatch task takes its
steps (it is spawned and awaits only requests that return), a body ends and its
lease release is tried, and time passes. A body that ends is an assumption on the
agent: its model calls and tools have limits and the user may cancel. The reaper's
fairness is strong, since the model lets it wait for the task that watches the run
and the code's does not: a dispatch that asks for a finished run again and again
finds it gone one day. Nothing is
assumed before the moment `Calm`: until then requests are lost and the daemon may
crash; after it requests arrive. A prompt that users keep overtaking is outside
this run, which has no chat input.

`RunFound` and `EndShown` hold under `FairSpec`: the bridge reads its sockets, a
reserved run is prepared or fails, `on_run_start` goes on after that, a forwarder
that can read or send does, the window handles its messages, reconnects, loads the
history it shows, and polls every second. None of these waits for another one
that is not in the list: the bridge's tasks run on the runtime's threads, the
window's in the browser's event loop. Nothing is assumed of the run: it may work
for ever, and `Emit` and `Reap` are not fair. Breaks are finite by their bound.

`RunEnds` (`FairSpec` of `AgentTree`): the consumer saves and polls on, so every agent that
can move does in the end; that a provider answers or fails, and that a tool returns, is
part of it (both have timeouts). Permits and the lock are queues in the code; weak
fairness of each agent's step is enough because each agent takes a bounded number of
them. The user's answer and the cancellation are not fair, and `RunEnds` excuses a run
that waits for an answer and is not cancelled.

`OperationEnds` is stated under the fairness of `HostOperations`: tasks and handlers run on,
every command ends (each has a timeout), the gate is a fair mutex that the recovery loop
asks for every ten seconds, the clock advances, and a host comes back. It holds when
the journal has room for the outcomes; `host_loop` shows the case in which it has not.

`InTime` is the timing assumption on steps, not fairness: the lease of a run that renews
lasts 120 seconds and is renewed every 15, a cancelled body stops within the rest, and a
watched run is reported every 5 seconds. Of a plain reply of Spin it assumes nothing: its
lease is not renewed and its stream has no limit, so it may go on when its lease has expired
and somebody else has taken it (`Outlived`). `SlowPlan = FALSE` (in `dispatch_live`) adds
that a dispatch ends before its claim does. The code does not guarantee that, which is the point
of `dispatch_slow`.

## Proofs

`ScheduledStoreProofs` proves, for every value of the constants that satisfies
the assumptions of `ScheduledStore`:

- `TypeCorrect`: `Spec => []TypeOK`;
- `PromptDeliveredOnce`: `Spec => []DeliveredOnce`;
- `OccurrenceSingle`: `Spec => []SingleOccurrence`;
- `OccurrenceFresh`: `Spec => []FreshOccurrence`.

None of these is inductive alone. `Consume` keeps `DeliveredOnce` only because a
queued prompt has not been sent and its run has not started; `Insert` keeps
`SingleOccurrence` only because new ids were never used; and `FreshOccurrence`
needs that no due time lies after the clock once an occurrence exists. A goal's prompt
whose run was cancelled a statement ago is still queued and may be claimed by nobody, but a
late report could name it; so "pending" counts a goal's queued prompts whatever the status
of their run (`Busy`), and these prompts are in the goal's own session (`Placed`). The
invariant `IInv` is `TypeOK` with `Sound(db, now)`, the conjunction of those facts about a
database. The argument has three layers:

1. each pass (`SetStatus`, `CancelPending`, `Cleanup`, `YieldGoal`, `Recover`,
   `ApplyGoal`, ...), and each statement of a lease request (`YieldWithdraws`), only withdraws: it is an instance of the relation
   `Withdraws(d, e, n)`, which is transitive and preserves `Sound`;
2. the passes that do more (`Insert`, `Claim`, `Consume`, `Enqueue`, the writes
   of `next_run`) have a lemma each;
3. every action is a composition of passes, so `Invariance` follows by one step
   per action.

Its last part is the refinement, `QueueImplementsDelivery`: `Spec => DeliversInOrder`.
Its relation `Grows(d, e)` says that a pass leaves messages alone and brings
nothing into the queue but new ids. It composes, every transaction except
`Consume` satisfies it, and it maps to the abstract step `Change`; `Consume` maps
to `Deliver`, because its guard is the order in which the abstract queue hands
out prompts. `IInv` supplies that new ids were never used.

`ScheduledGoalProofs` adds `GoalWorkBounded` (`Spec => []GoalTurnBound`), and
`GoalsAreRevised` (`Spec => GoalChangesRevision`) under the hypothesis
`GoalRemoval = FALSE`: a removal writes back a goal that it read earlier, and without
the hypothesis the property is false (see the known limits below). Both follow from what one
step does to one session (`StepKeeps`). Its relation `Spares(d, e)` says that no goal
changes and that no worker's counts do, unless the worker is deleted; nearly every
transaction satisfies it. The others are the commands (`GoalCommandKeeps`), the report on
a turn, where a turn is counted while the goal is active and one that reaches a limit
ends that (`ApplyGoalKeeps`), the removal and the deletion of a session.

`ScheduledTaskProofs` is about one task and the prompts it has pending:

- `MonitorChecksBounded` (`Spec => []MonitorBudget`) and `MonitorChecksInLife`
  (`Spec => MonitorClaimedInLife`), without hypotheses;
- `GoalPromptsCurrent` (`Spec => []PendingGoalCurrent`) where `GoalRemoval = FALSE`;
- `PromptsAlive` (`Spec => []NoDeadPrompt`) where also `CutOff = FALSE`.

The hypotheses are what the properties need, and the code does not ensure them: removing
a queued prompt is a sequence of statements and not a transaction, so a failure in the
middle leaves the prompt with a task that is switched off, and its goal is written back
from an earlier read; a lease request that is cut off between cancelling a goal's run and
deleting its prompt leaves the prompt with a run that is over (see the known limits).
`CutOff = FALSE` says that both kinds of request run to their end; between their
statements everybody else may act. `Withdrawn` names the goal's prompts that such a request
is between cancelling and deleting: `NoDeadPrompt` excuses these and no others
(`Alive`). The budget is not inductive: that a monitor
due again has checks left needs that it has no check under way while it waits, that it
has none before it starts and that a stopped one never comes back (`MonitorFit`). For the
prompts, `TaskFit` ties an enabled goal worker to the goal as it is, and `Pending` says the same
of each queued prompt, those of a removal under way excepted, but not where they are a goal's.
Most passes only switch tasks off and withdraw prompts. `Curbs` states that; it composes, so a
transaction made of such passes needs no argument of its own. The poll, the report on a
turn and each statement of a removal have a lemma each.

`ScheduledDispatchProofs` composes the store with the daemon and the foreground runs:

- `DispatchImplementsStore`: `DispatchSpec => Spec`, the store's own specification. Every
  step of the daemon is a step of the store or leaves it alone, whatever requests are
  lost and whenever the daemon dies. So all that is proved of the store holds with the
  daemon at work (`StoreGuarantees`);
- `DispatchTypeCorrect`, `PromptWorkedOnce` (`WorkedOnce`), `BodiesExclude`
  (`BodiesApart`), for every number of slots, runs and clients;
- `WorkRecorded` (`WorkIsRecorded`) where `SlowPlan = FALSE`.

`DInv` is the store's `IInv` with `DispatchTypeOK`, `Fits` and `Leased`. `Fits` relates
each slot, registry entry and run to the rows of the database: an agent's body starts only
after its prompt was consumed, and one slot at most is on the way to start a given prompt.
`Leased` says who owns a session's lease. Exclusion then follows from the lease: whoever
works, or is about to, has the session's lease in its own name and renewed in
time, for a body that missed its renewals is stopped first. A plain reply of Spin is
outside `Leased`: it has the lease, or has lost it and is what `BodiesApart` excepts. That
no two agents ever work in one session (`OneBodyPerSession`) is false of the code, as
`dispatch_plain` shows. `WorkRecorded` also needs that
claims do not expire under a dispatch (`Kept`): the run it was given is handed to nobody else and
the report that it runs arrives in order. With `SlowPlan` a claim can expire, the
prompt is queued again and the late report of the first dispatch says so of a run that works;
the run `dispatch_slow` shows it.

`RunDeliveryProofs` proves, for every value of the constants of `RunDelivery`:

- `RunTypeCorrect`: `Spec => []TypeOK`;
- `ViewIsExact`: `Spec => []ViewExact`;
- `EndIsSeenWhole`: `Spec => []EndSeenWhole`;
- `EndIsFinal`: `Spec => NotAgain`;
- `QuietIsInformed`: whatever was lost, reloaded, restarted or visited, a window that shows
  a run with nothing under way (`Quiet`) has seen its last event, and the run has not ended;
- `QuietIsWhole`: such a window shows the run whole if it was `Alone`, that is, if there was
  no news about the goal and either no session was left, or no socket was lost and the
  run is the host's with forwarders that stop as soon as they are aborted;
- its two consequences, `OwnRunIsRestored` (`Spec => []Restored` where `MaxVisits` and
  `MaxGoalNews` are 0, for any number of breaks) and `HostRunIsRestored`
  (`Spec => []RestoredFromOne` where `HostGoal` and not `LateAbort`).

`ViewExact` is about the window alone, so it says nothing of the message that
arrives next. Its strengthening `Follows` does: every event in the socket continues
what the window has seen or what an earlier message in the socket will have shown
it (`Chain`, `Reaches`); each forwarder, the aborted one included, continues the
socket's end in the same way; and no attach under way asks for more than was seen.
That is why crossing attaches and overtaken snapshots do no harm: what a forwarder
repeats, the window drops. The lemmas `WireGrows`, `ReplaceFollows`, `TrackFollows`
and `StaysFollows` show the four ways in which a step can disturb it, and
`ReceiveKeeps` reduces the window's many handlers to four effects. `EndsRight` adds
that an end on its way, or about to be sent, is that of a run that has ended and has
no further event, which `EndSeenWhole` needs because the bridge reads "ended"
and the snapshot under one lock but sends them later.

The rest is about what reaches a window, and needs more (`RestoreInv`, on top of `IInv`).
`Served` says that a window which shows a run on a socket has an attach under way, an answer to
one, or a forwarder that starts from what the window has seen or earlier; and `EndsKnown`
that the last event of an ended run always carries the end, so a window that has seen it
shows the run no more. Together they give `QuietIsInformed`; that attaches cross does no harm
because the last of them, which decides, asks for nothing the window has not seen (`Asked`). That
the window also *shows* what it has seen has two sides. It must have taken the
run up with nothing of it under way (`Sole`: the history field `clean` holds), which needs
that an attach to a run which has not begun is the only one of its kind and comes after the start.
And a window whose history was loaded again must be sent a snapshot that is not
overtaken: `Fresh` follows the attach that asks for it, the forwarder that reads it, and the
snapshot, which is no older than any message before it (`AskedFresh`, `ReadsFresh`,
`ShowsAll`). `Sole` and `Fresh` speak of windows that are `Alone`: the known limits below say
where a window that is not misses its snapshot. `NotAgain`
needs that every list behind a run's end, on the wire or after it, names the run with its
last number, which the window has noted (`Listed`).
`WindowKeepsOn` and `TaskMoves` reduce the steps to three effects on the window and six on a
forwarder, so each part of the invariant has one short argument per effect.

`HostOperationsProofs` proves, for any operations, hosts, plans and bounds:
`HostTypes`, `Exclusive` (`OneMaintainer`), `Claimed` (`WorkIsClaimed`), `StableConnection`
(`ConnectionIsStable`), `NoStepTwice` (`StepsOnce`) and `Implements` (`Maintained`). The inductive
invariant `HostInv` says what each holder of a copy may still do: an operation that has
not been claimed has no task and has started nothing (`UnclaimedAt`); a row that is active
names at most one step more than the host has started (`SteadyAt`); a task's copy was
active, and a task whose command is under way has a row that still is (`TaskOK`); the
entries of a recovery pass were active when they were read, and after the filter none
has a task (`Todo`). The last is what makes a stale entry harmless, and it needs the gate:
only a request launches tasks, and it cannot while a pass holds the gate. The
refinement maps every save that is accepted to the end of the operation or to a stutter.

`HostSuccessProofs` proves `SuccessEarned` (`SuccessIsEarned`) on top of it. The strengthening
`Earned` carries two arguments through every copy of a row. The journal, the entries of a
pass and the tasks name a step only when the steps before it reported success (`Behind`);
and what a copy says of the machine's boot identity is no newer than the machine
(`BootsGrow`), so that a difference which recovery sees proves a reboot after the step
was started, and verifications that pass afterwards count. That a finished task's word
still counts when it is written needs `Accepts`: the row it overwrites is active, and
only then does the invariant say what its task has earned.

`AgentTreeProofs` proves `TreeTypes`, `ChangesAreOwn`, `ChangesAreCovered`, `RetriesAreClean`,
`ChildrenAreInside` and `HeldOnlyBriefly` for every finite tree and all limits. The
invariant `TreeInv` adds to the type correctness one statement per agent (`GoodAt`:
what its point in the loop implies about permit, pair, lock, counts and what the
consumer has saved) and `ChildrenInside`. Since `GoodAt` speaks of one agent, the lock and
the consumer, a step of another agent disturbs it only through these; the lemmas on
`Delegated` and `Finished` carry the two steps that move several agents or hand over a
checkpoint.

Liveness is checked with TLC only, being out of the prover's reach like `ENABLED`. The
hypotheses named above are the only ones: where a theorem has one, the property is false
without it, or (for `OwnRunIsRestored`) a general theorem says what remains. The models
declare no RECURSIVE operator.

## Disagreements between code and documents

- `dispatch_slow`. `docs/scheduled-tasks.md` promises at most one pending or
  running occurrence per task. When planning a run outlasts its claim, the
  prompt is delivered a second time, the second start is refused as busy, and
  its report "queued" is applied after the first start has consumed the prompt.
  The next poll then cancels the run, and another occurrence may be created
  while the first one's agent works. (The prompt itself is still delivered once.)

- `dispatch_plain`. `docs/scheduled-tasks.md` says that each chat has a renewable run
  lease, so that scheduled prompts wait for normal responses. A plain chat reply of Spin
  (`send_session_message` without an agent) takes the lease for 120 seconds and never
  renews it: `message_stream` only asks whether it was cancelled. A reply that takes longer
  goes on beside the scheduled run that takes the session. `BodiesApart`, which `dispatch`
  checks, says that this is the only way.

- `host_loop`. `docs/host-administration.md` says that the bridge retries recovery after
  outages and that a reboot that is not observed within an hour is interrupted. If the
  last save of a rebooting operation that used every outcome the journal retains is lost
  in an outage, recovery verifies it again, appends one more outcome, and the
  journal refuses to save it. The task ends, the row stays active; each attempt stamps the
  row first, so the hour never passes. Recovery repeats for ever, and meanwhile no other
  operation may start, the connection cannot be changed and the chat not deleted.

Known limits that the models show when they are asked (no run checks them, since they
follow from documented choices or need no model to be seen):

- Removing a goal's queued prompt reads the goal and saves it back in separate
  statements without comparing revisions: with removals (`GoalRemoval = TRUE`) in
  `StoreGoal.cfg`, `PendingGoalCurrent` and `GoalChangesRevision` fail, although `docs/chat-controls.md` says that
  concurrent changes from another window require a refresh.
- A lease request that is cut off after `cancel_scheduled_pending` has cancelled the runs
  and before it has deleted the prompts leaves a cancelled goal prompt in the queue. No
  later lease or chat prompt withdraws it, since the SELECT asks for runs that are queued or
  claimed; it blocks the chat's queue, and the goal gets no turn, until it is removed or the goal is
  paused, resumed or completed. With `CutOff = TRUE` in `StoreGoal.cfg`, `NoDeadPrompt` fails although
  nothing was removed. A comment in `goals.rs` (line 174) says that foreground input
  withdraws unconsumed goal prompts before it takes priority.
- The last statement of such a request writes `next_run` from the time the request began,
  also when the goal has moved on since. It may bring a goal's turn forward.
- With news about the goal right after a history load, `Restored` fails (in `RunLive.cfg`,
  in place of `RestoredFromOne`): the second attach asks from the last received sequence and aborts the
  forwarder that was to send the snapshot. A socket that breaks before the snapshot
  arrives has the same effect, which is why `RestoredFromOne` asks that only one kind of
  disturbance happened.
- Two more ways to lose that snapshot, even where only histories were loaded again. An
  aborted forwarder that still runs (`LateAbort = TRUE`) reads later than its successor, and its
  event overtakes the successor's snapshot, which the window then drops as older than what it
  has seen. And a window's own run (`HostGoal = FALSE`) has two attaches: when `on_run_start`
  comes to its own (`Accept`) after the history was loaded, it replaces the forwarder that was
  to send the snapshot by one that sends events from the first. In both, the events
  from before the load stay missing until the window attaches afresh.
- A preparation that fails removes the run from the registry without an event. A window
  that came back over a new socket while it was being prepared has a forwarder that waits
  for one, so it shows the run as streaming until something attaches again (a new socket, a
  history load). A comment in the frontend's `runs.rs` (line 158) says that a socket loss
  keeps a run tracked until reconnect and attach finish it. `Forsaken` is this case, for the
  window's own runs and a host's, and `EndShown` excepts it; without `~Forsaken`, both
  `run_own` and `run_live` violate it.
- `recover` compares the rows it read with the tasks that are live afterwards. A task that
  ends in `awaiting_reconnect` in between is taken for stale under its old state
  `running`, and the operation is interrupted at once instead of within the hour.

## Abstractions and what is not modelled

In the modelled parts:

- prompt text, titles, notes, details and permission ids; editing a queued
  prompt in place; task revisions (a command with a stale revision changes
  nothing); the limits of 100 tasks, 20 monitors and 16 MiB per queue;
- `Update` keeps a task's session and host; the New and Latest targets are one
  kind of target that resolves to any open or new session when the task fires;
- a schedule is the set of times at which it fires, so cron parsing and time
  zones are left out; the `Once` schedules of monitors and goals, which are due
  when they are written, are the empty set after that;
- rewinds and reviews are a lock on one session (a whole project in the code);
- `delete_session` may be refused by a host operation; the model lets the user
  not take that step;
- messages are not modelled; whether one arrived during a goal's evaluation is
  the nondeterministic `fresh`;
- `claimed_until` is kept only while a statement reads it;
- a client sends its next lease request when its last one is over, and the statements
  of one treat the goal's task of the session, of which there is at most one;
- the clock never goes back, and all callers read the same one;
- in `ScheduledDispatch`, one daemon; the watcher's "blocked" is "running" (the
  store treats them alike); users do not type or delete sessions, which
  `ScheduledStore` has. The project's monitors and goals use the same code path.

In `RunDelivery`:

- one run per behaviour and one window, whose session the run belongs to; a start is
  never refused as busy, since no other run competes for the session;
- a snapshot is the number of its last event; what it folds the events into is
  not modelled, nor are permission requests, RunCancel and notices;
- the run's last event is the one that ends it;
- at most one aborted forwarder is still running, and it sends what it had read: that it
  might read once more before it stops is left out;
- a host's runs are listed while they are going or, with a goal, until they are reaped;
- `Poll` waits for the answer to the last list, which the code's poll does not; the
  extra answers find `listing` empty or replace it by the same request.

In `HostOperations`:

- what a plan's commands are and print, the inspection of a host, listing; interactive
  replies, which go to a terminal and never to the journal;
- an operation is prepared once, for one target; a request that finds it applied
  ends without a step;
- a save is applied when it is called or never: a request to the journal that is still
  on its way when its caller has given up is not modelled;
- a command sent to a host that cannot be reached ends with ssh's status 255 in the code;
  here it has no outcome, and the states it leads to are those after a crash;
- boot identities are numbers that grow; a row's age stops at `Hour`.

In `AgentTree`:

- conversations, the text of calls and results, and which calls need an approval: any
  may; a call's outcome is any the code can produce;
- compaction is part of a stream's model phase; a child is named by a model, or not
  because the run was cancelled (without a model to name it, the phase is skipped);
- the events of the run other than checkpoints: the consumer saves those too, but
  nothing here depends on it;
- a mutating tool whose executor offers no snapshot (the executor of a run always
  takes one or fails to); git commits and branches are commands;
- a command that is killed or dropped stops changing files, and none is left running in the
  background on purpose;
- each task call of an agent starts the same children afresh; task requests with
  invalid arguments or beyond the depth limit are the refused ones of `Start`;
- a cancelled run cancels its children; the code has no other way to stop one.

Not modelled at all:

- agent questions, the push outbox, editor recovery, memories, skills, todos and the
  other settings: each operation is one transaction on rows of its own, guarded by a
  revision or a claim, and no second component acts on them between two steps; the
  outbox is at least once by design;
- rewinds and reviews beyond their lock: what they protect are the transcript and the
  files, which no module holds;
- plugins, terminals, exec, git, files: processes and operating-system I/O;
- editor core, frontend rendering, providers, auth: text algorithms over large data,
  browser state, wire formats and cryptography, which the repository tests directly.

These are most of the repository's lines, so the mapped share of all its lines is small;
the map covers the code that several parties act on.
