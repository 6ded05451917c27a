# TLA+ models of the HTEX interchange

This directory holds the model-checking project for
`src/parsl/executors/high_throughput/interchange.py`. That file is the task broker
between the parsl client (the executor) and the fleet of worker-pool managers.
`probe.py` is a standalone connectivity probe that a worker can use to find an
interchange address that answers. It is modelled in a module of its own.

## 1. Inventory

### Components and their state

| Component | Code | State it keeps | Operations that change state |
|---|---|---|---|
| EventLoop | `Interchange.start` (280-324) | `kill_event`, the poller, `socks` | one iteration: poll, then in a fixed order `process_command`, `process_task_incoming`, `process_manager_socket_message`, `expire_bad_managers`, `expire_drained_managers`, `process_tasks_to_send`; exit once `kill_event` is set |
| TaskQueue | `pending_task_queue`, `task_counter`, `get_tasks` (133-136, 176-197, 326-343) | SortedList of `(-priority, -task_counter, msg)` | enqueue one task per iteration; pop up to `n` greatest entries |
| ManagerRegistry | `_ready_managers`, `interesting_managers`, `connected_block_history` | one record per manager id: `tasks`, `max_capacity`, `worker_count`, `active`, `draining`, `last_heartbeat`, `idle_since`, and display fields | registration (with a version check), heartbeat, drain, result batch, HOLD_WORKER, heartbeat expiry, drained expiry |
| Dispatch | `process_tasks_to_send` (522-561) | the local `shuffled_managers` stack | pop a manager, compute `real_capacity`, send a batch, drop it from the interesting set once it is saturated or ineligible |
| ManagerSelector | `manager_selector.sort_managers` (532; the class is not in this repository) | none | orders the interesting managers (random by default) |
| CommandHandler | `process_command` (210-278) | none of its own | HOLD_WORKER sets `active=False`. The other commands only read state. |
| MonitoringEmitter | `_send_monitoring_info` (199-208), monitoring sub-messages (465-472) | none read back | fire-and-forget NODE_INFO sends |
| MessageBus / Bootstrap | zmq sockets, `__init__`, `__main__`, `start_file_logger` | sockets, the log | transport and startup only |
| Probe | `probe.py` | sockets | connects to candidate addresses until a wall-clock timeout |

### Interactions

There is a single thread. Components interact through shared state that the loop's
steps read and write in a fixed order:
- The client sends tasks (task_in) and commands (command REQ/REP), and it
  receives results and failures (results_out).
- Each manager sends registration, heartbeat, drain and result batches on the
  ROUTER socket. The interchange sends it task batches and the HEARTBEAT and
  DRAINED codes.
- A manager's record is shared by:
  - the result handler (which frees capacity and re-adds the manager to the
    interesting set);
  - dispatch (which uses capacity and drops saturated managers from the
    interesting set);
  - the two expiry passes (which remove the record);
  - HOLD_WORKER (which deactivates it).

### What is hard here

The code runs no concurrent threads, but its peers are concurrent and
unreliable. The hard parts are these:
- the order in which messages from several managers and the client arrive,
  relative to the loop's steps;
- managers that fall silent, so their tasks must be failed exactly once;
- results that arrive after the manager has expired;
- an identity that registers again;
- a hold followed by a drain;
- capacity recomputed from lists that shrink in the same iteration;
- the interesting set, which must stay a subset of the registry because
  expiry indexes the registry with its members (otherwise a KeyError ends the
  loop);
- a version mismatch that stops the loop halfway through an iteration;
- the sign convention of the priority keys.

### What makes each component correct

- **TaskQueue:** `get_tasks` returns exactly the first tasks of the queue in
  priority order, smallest number first, FIFO on ties, and in that order
  within the batch (`GetTasksMatchesReference`). This is the order that the
  comment at line 334 means. The spec's section 4.2 says the opposite (see
  findings).
- **ManagerRegistry:**
  - every interesting manager is registered (`InterestingRegistered`);
  - `idle_since` is None exactly while the manager has tasks (`IdleBookkeeping`);
  - every task is in exactly one place, and a task is answered at most once
    and never lost (`TaskAccounting`);
  - an idle draining manager is removed (`DrainedManagerRemoved`, see findings).
- **Dispatch:**
  - a manager never holds more tasks than its capacity (`CapacityRespected`);
  - free capacity is never forgotten (`FreeCapacityIsInteresting`);
  - no task waits while some manager could take it (`WorkConserving`).
- **CommandHandler:** HOLD_WORKER's report to the hub is part of
  `MonitoringCurrent`.
- **EventLoop:** a monitoring sub-message never aborts the loop
  (`NeverAborts`, see findings). A version mismatch ends the loop with
  tasks still held (`EveryTaskAnswered` in `kill_strands_tasks`, see
  findings).
- **MonitoringEmitter:**
  - the hub's latest NODE_INFO for every registered manager shows its
    current `active` flag and task list (`MonitoringCurrent`);
  - a manager the interchange no longer has is never shown as active
    (`RemovedReportedInactive`, see findings).
- **Probe:**
  - `probe_addresses` returns a connected address, or None only after the
    timeout (`ProbeOutcome`);
  - it always returns (`ProbeTerminates`);
  - `TestWorker` connects only to a reachable address
    (`WorkerConnectsToViable`, see findings).
- **Whole loop, over time:**
  - every dispatched task is eventually answered, by its result or by a
    ManagerLost failure (`EveryTaskAnswered`);
  - an active manager that drains is eventually removed (`DrainCompletes`);
  - each task moves from queued to running to answered once, as the abstract
    `TaskBroker` says (`BrokerSpec`).

## 2. Modules

### `Interchange.tla`: the event loop with the queue, registry, dispatch and HOLD_WORKER

**State:**
- `pc`: the step of the current iteration;
- `pending_task_queue`: a set of entries `[pk, ak, tid, prio]`, where `pk`
  and `ak` are the two SortedList keys;
- `task_counter`;
- `ready`: a function from manager id to a record with the fields that
  control flow reads;
- `interesting`;
- `shuffled`: the dispatch stack;
- `kill`;
- `delivered`: the packages sent to the client per task id;
- `vm_failures`;
- `hub`: the last NODE_INFO sent for each manager, keeping only `active`
  and `tasks`. It changes only when `MonitoringEnabled` holds, that is, when
  there is a monitoring radio.

The manager side is kept only as far as it bounds what a manager can send:
- `mgr_registered`;
- `mgr_drain_sent`;
- `mgr_held`: the tasks the manager process holds;
- `mgr_crashed`: the managers whose process has died.

The clock is read only in `time.time() - m['last_heartbeat'] >
heartbeat_threshold`. Each record therefore keeps that difference as
`hb_age`, counted in time units and capped at `HeartbeatThreshold + 1`,
where the comparison stops changing. `Poll(elapsed)` ages every record by
any amount from none to past the threshold. One iteration may thus span a
stall of the interchange that expires every manager at once. The comparison is exact, and the clock
is unbounded. `idle_since` is kept only as None or a timestamp, because the
loop reads only whether it is None.

**Actions, one per handler, each covering the whole handler:**

| Action | Code | Lines |
|---|---|---|
| `Poll(elapsed)` | poll; the time the iteration takes is added to every `hb_age` | 311-312 |
| `ProcessCommand` / `HoldWorker` | `process_command` | 210-278 |
| `ProcessTaskIncoming` | `process_task_incoming` | 326-343 |
| `ProcessManagerMessage`, with `Registration`, `Heartbeat`, `Drain`, `Result` | `process_manager_socket_message` | 345-505 |
| `ExpireBadManagers` | `expire_bad_managers` | 563-584 |
| `ExpireDrainedManagers` | `expire_drained_managers` | 507-520 |
| `DispatchStart`, then `ProcessTasksToSend` / `DispatchTo` | `process_tasks_to_send` | 522-561 |

`ProcessTasksToSend` / `DispatchTo` take one step per manager popped.

`Report` is `_send_monitoring_info`. It is called where the code calls it:
- in registration, before the version check;
- in HOLD_WORKER;
- after a result batch that forwarded something;
- after each send by dispatch;
- in bad expiry, only for a manager that was still active;
- in drained expiry.

`MonitoringMessage` is a result batch that carries a monitoring sub-message.
With a radio, its payload goes to the hub and no state changes. Without
one, the assert fails, and `pc` becomes `"aborted"`. Results that came
earlier in the same batch were removed from `m['tasks']` and not forwarded,
but nothing reads the state of a dead interchange.

`Exited` is the loop after it leaves `while not kill_event.is_set()`.
`ManagerCrash` is not a step of the interchange. It is a manager process
dying; after it, the manager sends nothing. `Loop` is the disjunction of the
loop's own steps.

Dispatch tests `AcceptsTasks` (line 539: `real_capacity`, `active`, not
`draining`) before it pops a batch.

The queue comes from `PendingTaskQueue` (below). An arriving message is any message the peer could have sent by
then. That covers a delayed heartbeat, a late result after expiry, and a
manager that crashes and never speaks again.

### `PendingTaskQueue.tla`: the queue keys and `get_tasks`

This module holds the operators of the queue, and `Interchange` takes them
with `INSTANCE PendingTaskQueue`:
- `QueueEntry` builds the `(-priority, -task_counter)` key;
- `PriorityKey` maps a missing priority, which is `float('inf')`, to a key
  below every finite key;
- `KeyLeq` is the SortedList order;
- `GetTasks` is `get_tasks`, a RECURSIVE operator that pops the greatest key
  until `count` tasks are taken or the queue is empty.

`Precedes` is the dispatch order that the code's comment means ("higher
number = lower priority"), written without keys: a smaller priority number
first, None last, and arrival order on ties. The spec's section 4.2 orders
the other way; `priority_direction` shows the disagreement.

### `MCGetTasks.tla`: `get_tasks` against a reference

It has no behaviour: each initial state is one call, with one queue the
interchange can hold and one `count` that dispatch can pass. The queue is any
subset of four received tasks, and each task has priority 1, 2 or none. The
count is 1 to 5. `GetTasksMatchesReference` compares the batch with the first
`count` elements of `SetToSortSeq(queue, Precedes)`, using the community
SequencesExt module. It checks the order within a batch, which is the order
in which the manager receives the tasks. Dispatch removes exactly the batch
from the queue (`QueueAfterPop`), so this check also gives the order across
batches.

### `TaskBroker.tla`: the abstract task lifecycle

This is what the client is promised about each task:
- it is submitted, then queued;
- it is handed to a worker pool (`Assign`, a batch at a time);
- it is answered exactly once (`Answer`, several at a time).

It knows nothing of managers, capacities or keys. `Interchange` defines
`Broker == INSTANCE TaskBroker WITH` the following refinement mapping:
- `submitted` is `task_counter`;
- `queued` is the task ids in the queue;
- `running` is the union of the managers' task lists;
- `answers` is `delivered`.

`BrokerSpec == Broker!Spec` is checked as a PROPERTY. Dispatch maps to
`Assign`. Result batches and heartbeat expiry map to `Answer`. Every other
step is a stutter.

### `Probe.tla`: `probe_addresses` and `TestWorker.__init__`

**State:**
- `pc` over the `while` test, the `for` loop, the return and the worker's
  connect;
- `clock`: sleeps since `start_t`. It saturates at `Timeout`, since it is
  only compared with it;
- `i`: the loop position;
- `first_connected`;
- `connected`: addresses whose EVENT_CONNECTED waits on the monitor socket;
- `worker_target`.

**Actions:**
- `ProbeWhile` is the `while` test.
- `ProbeScan` is one turn of the `for` loop: break on an event, otherwise
  sleep. A sleep advances the clock by 1 or 2, because a sleep can overrun.
- `ProbeForEnd` is the end of the `for` loop.
- `ProbeReturn` closes the sockets and returns.
- `WorkerConnect` is `TestWorker.__init__` connecting to the result.
- `ConnectionEstablished` is the network completing a TCP connection to a
  reachable address, at any moment. It gets no fairness.
- `ProbeSpec` gives the probe's own steps weak fairness. It is one thread
  that never blocks.

`MCProbe.tla` fixes three addresses. The cfg makes `a1` unreachable and sets
`Timeout = 4`.

### `MCInterchange.tla`

Gives the constants their values from the cfg files. It also defines the
symmetry over the manager ids, which are model values compared only for
equality.

## 3. Runs

| Run | cfg | Expect | What it shows |
|---|---|---|---|
| `interchange_safety` | `MCInterchange.cfg` | pass | Every invariant listed in section 1 holds across every interleaving of registrations (including version mismatches), heartbeats, expiry, drains, holds, results and dispatch. It also checks the refinement `BrokerSpec`. Monitoring is on, so `MonitoringCurrent` is checked too. It covers about 1.15M distinct states and takes about 55 s. |
| `interchange_liveness` | `MCInterchangeLive.cfg` | pass | Under `FairSpec`, two managers that may crash, two tasks and capacity 1: `EveryTaskAnswered` and `DrainCompletes` hold. It covers about 94k distinct states in about 2 min. |
| `priority_direction` | `MCInterchangePriority.cfg` | violation | The spec's "higher numeric priority first" does not hold: the code dispatches the smaller number first. |
| `reregistration_loses_tasks` | `MCInterchangeReRegister.cfg` | violation | A second registration from a registered id replaces the record. Its outstanding tasks are never answered. |
| `drained_manager_lingers` | `MCInterchangeDrain.cfg` | violation | A manager is held (HOLD_WORKER), dropped from the interesting set by dispatch, and then drains. It is never expired. |
| `monitoring_phantom_manager` | `MCInterchangeMonitoring.cfg` | violation | A mismatched registration is reported to the hub as an active manager and is never withdrawn. |
| `monitoring_assert_aborts` | `MCInterchangeAssert.cfg` | violation | With monitoring off, a monitoring sub-message in a result batch ends the interchange. |
| `get_tasks_reference` | `MCGetTasks.cfg` | pass | For all 1280 queue and count pairs, `get_tasks` returns the reference batch in order. |
| `probe_safety` | `MCProbe.cfg` | pass | `ProbeOutcome` and `ProbeTerminates` hold for three addresses (one unreachable), any connection times and overrunning sleeps. It covers about 150 states. |
| `probe_worker_none` | `MCProbeWorker.cfg` | violation | A probe that times out returns None, and `TestWorker` connects to it. |
| `kill_strands_tasks` | `MCInterchangeKill.cfg` | violation | Under `FairSpec`, a mismatched registration ends the loop while another manager holds a task. That task is never answered. |

**Bounds:**
- two managers;
- three tasks;
- priorities {1, 2} or none;
- capacities {1, 2};
- heartbeat threshold 1, so `hb_age` ranges over 0..2.

Two managers are enough for one to expire while the other receives work. Three
tasks are enough to saturate a manager of capacity 2 and leave one queued. They
also give two equal priorities and a different one, and a task with no priority.
With threshold 1, a manager expires after two polls without a heartbeat, while
one that heartbeats survives. Time is unbounded.

The liveness run is smaller: two tasks, one priority, capacity 1, and no
symmetry, which is unsound with liveness checking. With capacities {1, 2} it
took 7 minutes and found nothing more. Capacity 1 still covers the relevant
cases:
- a saturated manager drains and later becomes interesting again;
- a crashed manager's task is failed by expiry;
- a live manager's task is returned. Every mutant listed in
PROJECT.json is found within these bounds.

**Fairness (`FairSpec`):**
- `WF_vars(Loop)`. The loop is one thread, and `poll` never blocks longer
  than `poll_period`.
- `SF_vars(\E elapsed \in Age \ {0} : Poll(elapsed))`. Wall-clock time
  passes. A poll after which time has elapsed is enabled only at the top of each iteration, so weak fairness
  would not force it.
- `SF_vars(ReturnTask(m, t))` for every manager and task. The spec (section
  4.1) says the poller starves no endpoint, and a live manager finishes what it
  holds and sends the result. A crashed manager is exempt, because
  `ReturnTask` requires it to be live.

No fairness is given to heartbeats, drains, registrations, client tasks or
commands. A live manager may therefore stop heartbeating and be expired, and
the client may stop sending.

## 4. Findings

1. **Priority direction (spec vs code).**
   - Code: `(-priority, -task_counter)` with `pop()` of the greatest entry, so
     priority 1 runs before priority 2.
   - Spec, section 4.2 and scenario 2: the higher number runs first.
2. **Re-registration orphans tasks.** Line 427 overwrites the record. The old
   tasks get neither a result (line 456 drops it) nor a ManagerLost failure.
3. **Held and then drained manager lingers.**
   - Line 509 scans only `interesting_managers`.
   - Section 3, invariant 4 of the spec says the manager must be gone. Section
     9 notes the gap.

4. **A version mismatch strands outstanding tasks** (`kill_strands_tasks`).
   - Line 402 sets `kill_event`. The iteration still dispatches (line 543),
     and then the loop exits.
   - No task that a manager holds is failed.
   - Section 8 of the spec promises every dispatched task a result or a
     ManagerLost failure. Section 7 makes the mismatch fatal but is silent
     on these tasks.

5. **Phantom manager on the monitoring hub** (`monitoring_phantom_manager`).
   - Line 399 sends the new record, with `active=True`, before the version
     check at line 402.
   - On a mismatch the record is never inserted, and nothing reports it
     inactive.
   - Section 4.7 of the spec emits monitoring only on success.
6. **The monitoring assert aborts the loop** (`monitoring_assert_aborts`).
   - Line 470 asserts that a monitoring radio exists.
   - Section 9 of the spec says such a message should be logged and
     dropped.
   - The AssertionError ends `start()`, and every outstanding task is left
     unanswered.
7. **`TestWorker` connects to None** (`probe_worker_none`, probe.py:75). On
   a timeout `probe_addresses` returns None, and `TestWorker` passes it to
   `tcp_url` unchecked, although the docstring says the result may be
   None. `tcp_url` is not in this repository, so whether this gives a
   `tcp://None` URL or an error is not checked here. The model treats it as
   the identity.

## 5. Not modelled, and why

- **Monitoring fields other than `active` and `tasks`.** They are display
  data, and the hub's view of them is not checked. The monitoring
  passthrough payload is not stored, because it is opaque.
- **`TestWorker.heartbeat` and probe `__main__`.** They only send bytes and
  parse arguments.
- **Read-only commands and display fields.** These are `block_id`,
  `worker_count`, `hostname`, `packages`, the versions and
  `connected_block_history`. The commands that only read state are the
  no-change disjunct of `ProcessCommand`.
- **zmq transport, curve security, startup and logging.**
- **Malformed manager messages and unknown message types.** They are logged
  and dropped, with no state change.
- **Two uncaught errors that the real peers cannot trigger.** The first is
  the `assert new_rec['block_id'] is not None` at line 424: the manager
  always sends a block id. The second is `command_req.split(';')` of a
  malformed HOLD_WORKER at line 257: the executor formats the request itself.
- **The time between `poll` and the expiry check.** It is lumped into
  `Poll(elapsed)`. Ages are whole units, so a heartbeat read in step 4 is
  never expired in step 5 of the same iteration.
- **Duplicate task ids from the client, and a manager returning a task it
  never received.** Neither happens with the real client and managers.

## 6. Further work

- **Larger liveness instances.** With capacities {1, 2} the liveness run takes
  about 7 minutes. It found nothing that the capacity-1 run misses.
- **The executor's scale-in.** It reads MANAGERS, holds idle managers and
  cancels their blocks. That code is not in this repository. A model of it
  would let the hold race checked here extend to the MANAGERS reply. Between
  the reply and the hold, dispatch may give the manager tasks.
