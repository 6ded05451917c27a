---------------------------- MODULE Interchange ----------------------------
(***************************************************************************)
(* The HTEX interchange event loop (parsl/executors/high_throughput/       *)
(* interchange.py, Interchange.start and the six steps it calls per        *)
(* iteration).  One iteration is a sequence of steps selected by pc, in    *)
(* the order of start(): poll, process_command, process_task_incoming,     *)
(* process_manager_socket_message, expire_bad_managers,                    *)
(* expire_drained_managers, process_tasks_to_send.  The loop of            *)
(* process_tasks_to_send is one step per manager popped from the shuffled  *)
(* stack.                                                                  *)
(*                                                                         *)
(* The client and the managers are the environment: at each receive step  *)
(* the loop reads at most one message, which is any message the peer could *)
(* have sent by then.  The manager side keeps only what bounds what it can *)
(* send: whether it has registered or asked to drain, and the tasks it     *)
(* holds (received and not yet returned), and whether it has crashed.  A   *)
(* crashed manager sends nothing more; a live one may still fall silent at *)
(* any time, which is how a partitioned manager looks to the interchange.  *)
(*                                                                         *)
(* The clock enters only through now - last_heartbeat > threshold        *)
(* (expire_bad_managers), so each record keeps that difference, hb_age,    *)
(* capped at HeartbeatThreshold + 1 where the comparison no longer changes.*)
(***************************************************************************)
EXTENDS Integers, FiniteSets, Sequences, Functions, TLC

CONSTANTS
    Managers,             \* manager identities (zmq ROUTER peer ids)
    NTasks,               \* number of tasks the client submits
    Priorities,           \* resource_spec priorities a task may carry
    Capacities,           \* max_capacity values a manager may register with
    HeartbeatThreshold,   \* heartbeat_threshold, in clock ticks
    RegistrationVersions, \* version outcomes a registration may carry
    ReRegistration,       \* may a registered identity send registration again?
    MonitoringEnabled,    \* hub_address and hub_zmq_port given: a monitoring radio
    ManagersMonitor,      \* managers put monitoring sub-messages in result batches
    None                  \* Python None

ASSUME /\ NTasks \in Nat
       /\ Priorities \subseteq Int /\ Priorities # {}
       /\ Capacities \subseteq Nat \ {0}
       /\ HeartbeatThreshold \in Nat
       /\ RegistrationVersions \subseteq {"match", "mismatch"}
       /\ RegistrationVersions # {}
       /\ ReRegistration \in BOOLEAN
       /\ MonitoringEnabled \in BOOLEAN /\ ManagersMonitor \in BOOLEAN

Tids == 0 .. NTasks - 1
\* now - last_heartbeat, in poll periods, capped where expiry is decided.
Age == 0 .. HeartbeatThreshold + 1

\* A time.time() value stored in idle_since: only its presence is read by the
\* loop (its value feeds the MANAGERS reply's idle_duration).
IdleStamp == "time.time()"

VARIABLES
    pc,                 \* step of the current loop iteration
    pending_task_queue, \* SortedList of queue entries
    task_counter,       \* count of tasks received from the client
    ready,              \* _ready_managers: identity -> ManagerRecord
    interesting,        \* interesting_managers
    shuffled,           \* shuffled_managers not yet popped by the dispatch loop
    kill,               \* kill_event
    delivered,          \* tid -> packages for tid sent on results_outgoing
    vm_failures,        \* VersionMismatch packages (task_id -1) sent
    hub,                \* identity -> last NODE_INFO sent to the monitoring hub
    mgr_registered,     \* manager side: identities that sent registration
    mgr_drain_sent,     \* manager side: identities that sent drain
    mgr_held,           \* manager side: tasks each manager holds
    mgr_crashed         \* manager side: managers whose process has died

vars == <<pc, pending_task_queue, task_counter, ready, interesting, shuffled,
          kill, delivered, vm_failures, hub, mgr_registered, mgr_drain_sent,
          mgr_held, mgr_crashed>>
mgrVars == <<mgr_registered, mgr_drain_sent, mgr_held, mgr_crashed>>

-----------------------------------------------------------------------------
(* The pending task queue: PendingTaskQueue, with this module's constants. *)
INSTANCE PendingTaskQueue

-----------------------------------------------------------------------------
(* Manager records.                                                        *)

\* Mutant: the record as constructed, without new_rec.update(meta).
NewRecordNoMeta(cap) ==
    [tasks |-> {}, max_capacity |-> 0, active |-> TRUE, draining |-> FALSE,
     hb_age |-> 0, idle_since |-> IdleStamp]

\* ManagerRecord(...) built at registration, then new_rec.update(meta).
NewRecord(cap) ==
    [tasks |-> {}, max_capacity |-> cap, active |-> TRUE, draining |-> FALSE,
     hb_age |-> 0, idle_since |-> IdleStamp]

Known(m) == m \in DOMAIN ready

\* The fields of a NODE_INFO message that tell the hub the manager's state.
Snapshot(rec) == [active |-> rec.active, tasks |-> rec.tasks]

\* _send_monitoring_info for each manager in DOMAIN recs, with the record
\* recs[m]; nothing is sent when there is no monitoring radio.
Report(recs) ==
    hub' = IF MonitoringEnabled THEN [m \in DOMAIN recs |-> Snapshot(recs[m])] @@ hub
                                ELSE hub

Init ==
    /\ pc = "poll"
    /\ pending_task_queue = {}
    /\ task_counter = 0
    /\ ready = [m \in {} |-> None]
    /\ interesting = {}
    /\ shuffled = {}
    /\ kill = FALSE
    /\ delivered = [t \in Tids |-> 0]
    /\ vm_failures = 0
    /\ hub = [m \in {} |-> None]
    /\ mgr_registered = {}
    /\ mgr_drain_sent = {}
    /\ mgr_held = [m \in Managers |-> {}]
    /\ mgr_crashed = {}

-----------------------------------------------------------------------------
(* One iteration of the loop of start().                                   *)

\* elapsed more time units since every manager's last heartbeat.
Aged(rec, elapsed) ==
    [rec EXCEPT !.hb_age = IF @ + elapsed > HeartbeatThreshold
                           THEN HeartbeatThreshold + 1 ELSE @ + elapsed]

\* poller.poll(timeout=poll_period) and the rest of the iteration take some
\* time: none, or any amount, up to a stall longer than heartbeat_threshold
\* (ages are capped at threshold + 1, where every larger age behaves alike).
Poll(elapsed) ==
    /\ pc = "poll"
    /\ ready' = [m \in DOMAIN ready |-> Aged(ready[m], elapsed)]
    /\ pc' = "command"
    /\ UNCHANGED <<pending_task_queue, task_counter, interesting, shuffled,
                   kill, delivered, vm_failures, hub, mgrVars>>

\* Mutant: the held record not reported to the hub.
HoldWorkerSilent(m) ==
    IF Known(m) THEN ready' = [ready EXCEPT ![m].active = FALSE] /\ UNCHANGED hub
                ELSE UNCHANGED <<ready, hub>>

\* process_command, HOLD_WORKER;<m>: the only command that changes state;
\* the held record is reported to the hub.
HoldWorker(m) ==
    IF Known(m) THEN LET rec == [ready[m] EXCEPT !.active = FALSE]
                     IN ready' = [ready EXCEPT ![m] = rec] /\ Report(m :> rec)
                ELSE UNCHANGED <<ready, hub>>

\* process_command: no request, or a request answered from state (reads only).
ProcessCommand ==
    /\ pc = "command"
    /\ \/ UNCHANGED <<ready, hub>>
       \/ \E m \in Managers : HoldWorker(m)
    /\ pc' = "task"
    /\ UNCHANGED <<pending_task_queue, task_counter, interesting, shuffled, kill,
                   delivered, vm_failures, mgrVars>>

\* process_task_incoming: at most one task, queued with its priority.
ProcessTaskIncoming ==
    /\ pc = "task"
    /\ \/ UNCHANGED <<pending_task_queue, task_counter>>
       \/ /\ task_counter < NTasks
          /\ \E p \in Priorities \cup {None} :
                pending_task_queue' =
                    pending_task_queue \cup {QueueEntry(p, task_counter)}
          /\ task_counter' = task_counter + 1
    /\ pc' = "manager"
    /\ UNCHANGED <<ready, interesting, shuffled, kill, delivered,
                   vm_failures, hub, mgrVars>>

\* registration: the new record is reported to the hub before the version
\* check; a matching version inserts a fresh record (replacing any
\* record of the same identity) and makes it interesting; a mismatch sends a
\* VersionMismatch package with task_id -1 and sets kill_event.
Registration(m) ==
    /\ m \notin mgr_crashed
    /\ m \notin mgr_registered \/ ReRegistration
    /\ \E cap \in Capacities, v \in RegistrationVersions :
       /\ Report(m :> NewRecord(cap))
       /\ IF v = "match"
          THEN /\ ready' = (m :> NewRecord(cap)) @@ ready
               /\ interesting' = interesting \cup {m}
               /\ UNCHANGED <<kill, vm_failures>>
          ELSE /\ kill' = TRUE
               /\ vm_failures' = vm_failures + 1
               /\ UNCHANGED <<ready, interesting>>
    /\ mgr_registered' = mgr_registered \cup {m}
    /\ UNCHANGED <<delivered, mgr_drain_sent, mgr_held, mgr_crashed>>

\* heartbeat from a known manager sets last_heartbeat = now (the reply
\* PKL_HEARTBEAT_CODE changes no interchange state).
Heartbeat(m) ==
    /\ m \in mgr_registered \ mgr_crashed
    /\ IF Known(m) THEN ready' = [ready EXCEPT ![m].hb_age = 0]
                   ELSE UNCHANGED ready
    /\ UNCHANGED <<interesting, kill, delivered, vm_failures, hub, mgrVars>>

\* drain from a known manager sets draining; the manager sends it once.
Drain(m) ==
    /\ m \in mgr_registered \ (mgr_drain_sent \cup mgr_crashed)
    /\ IF Known(m) THEN ready' = [ready EXCEPT ![m].draining = TRUE]
                   ELSE UNCHANGED ready
    /\ mgr_drain_sent' = mgr_drain_sent \cup {m}
    /\ UNCHANGED <<interesting, kill, delivered, vm_failures, hub, mgr_registered,
                   mgr_held, mgr_crashed>>

\* Mutant: idle_since left as it was.
IdleAfterResultKept(rec, left) == rec.idle_since

\* The manager's idle_since once a batch has forwarded something.
IdleAfterResult(rec, left) ==
    IF left = {} /\ rec.idle_since = None THEN IdleStamp ELSE rec.idle_since

\* Mutant: the manager not added back to interesting_managers.
ResultInterestingSkipped(m) == UNCHANGED interesting

\* "At least one result received, so manager now has idle capacity".
ResultInteresting(m) == interesting' = interesting \cup {m}

\* result batch carrying the results of the tasks R the manager returns.
\* Each result whose task_id is in m['tasks'] is removed from it and
\* forwarded; any other is logged and dropped.  If anything was forwarded the
\* manager becomes interesting and, with no task left, idle, and its record
\* is reported to the hub.
Result(m, R) ==
    /\ m \notin mgr_crashed
    /\ mgr_held' = [mgr_held EXCEPT ![m] = @ \ R]
    /\ IF Known(m)
       THEN LET fwd  == R \cap ready[m].tasks
                left == ready[m].tasks \ fwd
            IN /\ delivered' = [t \in Tids |->
                                  IF t \in fwd THEN delivered[t] + 1
                                               ELSE delivered[t]]
               /\ IF fwd # {}
                  THEN LET rec == [ready[m] EXCEPT
                                     !.tasks = left,
                                     !.idle_since = IdleAfterResult(ready[m], left)]
                       IN /\ ready' = [ready EXCEPT ![m] = rec]
                          /\ ResultInteresting(m)
                          /\ Report(m :> rec)
                  ELSE UNCHANGED <<ready, interesting, hub>>
       ELSE UNCHANGED <<ready, interesting, delivered, hub>>
    /\ UNCHANGED <<kill, vm_failures, mgr_registered, mgr_drain_sent, mgr_crashed>>

\* A result batch from a known manager carrying a monitoring sub-message:
\* with a radio its payload is forwarded to the hub (no state here; results
\* in the same batch are the Result step); without one, "assert
\* monitoring_radio is not None" fails and the AssertionError leaves start().
MonitoringMessage(m) ==
    /\ ManagersMonitor
    /\ pc' = IF MonitoringEnabled THEN "expire_bad" ELSE "aborted"
    /\ UNCHANGED <<ready, interesting, kill, delivered, vm_failures, hub, mgrVars>>

\* process_manager_socket_message: at most one message from the ROUTER.
ProcessManagerMessage ==
    /\ pc = "manager"
    /\ \/ /\ \/ UNCHANGED <<ready, interesting, kill, delivered, vm_failures, hub,
                         mgrVars>>
             \/ \E m \in Managers : Registration(m)
             \/ \E m \in Managers : Heartbeat(m)
             \/ \E m \in Managers : Drain(m)
             \/ \E m \in Managers : \E R \in SUBSET mgr_held[m] \ {{}} : Result(m, R)
          /\ pc' = "expire_bad"
       \/ \E m \in DOMAIN ready \ mgr_crashed : MonitoringMessage(m)
    /\ UNCHANGED <<pending_task_queue, task_counter, shuffled>>

\* Managers whose last heartbeat is older than heartbeat_threshold.
BadManagers ==
    {m \in DOMAIN ready : ready[m].hb_age > HeartbeatThreshold}

\* Mutant: no ManagerLost package sent.
ManagerLostNotSent(bad) == delivered

\* One ManagerLost result package per task of each bad manager.
ManagerLostSent(bad) ==
    [t \in Tids |-> delivered[t] + Cardinality({m \in bad : t \in ready[m].tasks})]

\* Mutant: the lost identity left in interesting_managers.
InterestingKeptAfterLoss(bad) == interesting

\* "if manager_id in interesting_managers: interesting_managers.remove(...)"
InterestingAfterLoss(bad) == interesting \ bad

\* expire_bad_managers: every bad manager still active is marked inactive
\* and reported to the hub, gets a ManagerLost package for each of its tasks
\* and is removed from _ready_managers and interesting_managers.
ExpireBadManagers ==
    /\ pc = "expire_bad"
    /\ Report([m \in {b \in BadManagers : ready[b].active} |->
                  [ready[m] EXCEPT !.active = FALSE]])
    /\ delivered' = ManagerLostSent(BadManagers)
    /\ ready' = Restrict(ready, DOMAIN ready \ BadManagers)
    /\ interesting' = InterestingAfterLoss(BadManagers)
    /\ pc' = "expire_drained"
    /\ UNCHANGED <<pending_task_queue, task_counter, shuffled, kill,
                   vm_failures, mgrVars>>

\* expire_drained_managers: every interesting manager that is draining and
\* has no task is sent PKL_DRAINED_CODE and removed, and its record, marked
\* inactive, is reported to the hub.
ExpireDrainedManagers ==
    /\ pc = "expire_drained"
    /\ LET drained == {m \in interesting :
                         ready[m].draining /\ ready[m].tasks = {}}
       IN /\ ready' = Restrict(ready, DOMAIN ready \ drained)
          /\ interesting' = interesting \ drained
          /\ Report([m \in drained |-> [ready[m] EXCEPT !.active = FALSE]])
    /\ pc' = "dispatch_start"
    /\ UNCHANGED <<pending_task_queue, task_counter, shuffled, kill,
                   delivered, vm_failures, mgrVars>>

EndIteration == pc' = IF kill THEN "done" ELSE "poll"

\* process_tasks_to_send: the manager selector returns the interesting
\* managers in random order, only when some manager is interesting and the
\* queue is not empty.
DispatchStart ==
    /\ pc = "dispatch_start"
    /\ \/ /\ interesting # {} /\ pending_task_queue # {}
          /\ shuffled' = interesting
          /\ pc' = "dispatch"
       \/ /\ interesting = {} \/ pending_task_queue = {}
          /\ EndIteration
          /\ UNCHANGED shuffled
    /\ UNCHANGED <<pending_task_queue, task_counter, ready, interesting, kill,
                   delivered, vm_failures, hub, mgrVars>>

\* Mutant: real_capacity one too large.
RealCapacityPlusOne(rec) == rec.max_capacity - Cardinality(rec.tasks) + 1

\* real_capacity = m['max_capacity'] - len(m['tasks'])
RealCapacity(rec) == rec.max_capacity - Cardinality(rec.tasks)

\* Mutant: a manager kept interesting only with two or more free slots.
HasFreeCapacityOffByOne(cap, sent) == cap - sent > 1

\* After sending, the manager stays interesting iff real_capacity > 0.
HasFreeCapacity(cap, sent) == cap - sent > 0

\* if real_capacity and m["active"] and not m["draining"]
AcceptsTasks(rec, cap) == cap # 0 /\ rec.active /\ ~rec.draining

\* Mutant: the batch read without removing it from the queue.
QueueAfterPeek(q, batch) == q

\* get_tasks removes each entry it returns (SortedList.pop()).
QueueAfterPop(q, batch) == q \ EntriesOf(batch)

\* One turn of the dispatch while-loop: pop a manager; if it has capacity, is
\* active and not draining, send it a batch of up to real_capacity tasks and
\* drop it from interesting_managers once saturated, and report the record
\* to the hub; otherwise drop it.
DispatchTo(m) ==
    LET rec   == ready[m]
        cap   == RealCapacity(rec)
        batch == GetTasks(pending_task_queue, cap)
        tids  == {e.tid : e \in EntriesOf(batch)}
    IN /\ shuffled' = shuffled \ {m}
       /\ IF AcceptsTasks(rec, cap)
          THEN /\ pending_task_queue' = QueueAfterPop(pending_task_queue, batch)
               /\ IF batch # <<>>
                  THEN LET sent == [rec EXCEPT !.tasks = @ \cup tids,
                                                !.idle_since = None]
                       IN /\ ready' = [ready EXCEPT ![m] = sent]
                          /\ Report(m :> sent)
                          /\ mgr_held' = [mgr_held EXCEPT ![m] = @ \cup tids]
                          /\ interesting' = IF HasFreeCapacity(cap, Len(batch))
                                            THEN interesting
                                            ELSE interesting \ {m}
                  ELSE /\ Report(m :> rec)
                       /\ UNCHANGED <<ready, mgr_held, interesting>>
          ELSE /\ interesting' = interesting \ {m}
               /\ UNCHANGED <<pending_task_queue, ready, mgr_held, hub>>

ProcessTasksToSend ==
    /\ pc = "dispatch"
    /\ \/ /\ shuffled # {} /\ pending_task_queue # {}
          /\ \E m \in shuffled : DispatchTo(m)
          /\ UNCHANGED pc
       \/ /\ shuffled = {} \/ pending_task_queue = {}
          /\ EndIteration
          /\ shuffled' = {}
          /\ UNCHANGED <<pending_task_queue, ready, interesting, mgr_held, hub>>
    /\ UNCHANGED <<task_counter, kill, delivered, vm_failures,
                   mgr_registered, mgr_drain_sent, mgr_crashed>>

\* A manager process dies (killed by the batch system, its node lost); it
\* sends nothing more.  Not a step of the interchange.
ManagerCrash(m) ==
    /\ m \in mgr_registered \ mgr_crashed
    /\ mgr_crashed' = mgr_crashed \cup {m}
    /\ UNCHANGED <<pc, pending_task_queue, task_counter, ready, interesting,
                   shuffled, kill, delivered, vm_failures, hub, mgr_registered,
                   mgr_drain_sent, mgr_held>>

\* The loop has seen kill_event set and exited, or an exception has ended
\* start().
Exited == pc \in {"done", "aborted"} /\ UNCHANGED vars

\* One step of the loop of start().
Loop ==
    \/ \E elapsed \in Age : Poll(elapsed)
    \/ ProcessCommand
    \/ ProcessTaskIncoming
    \/ ProcessManagerMessage
    \/ ExpireBadManagers
    \/ ExpireDrainedManagers
    \/ DispatchStart
    \/ ProcessTasksToSend

Next ==
    \/ Loop
    \/ \E m \in Managers : ManagerCrash(m)
    \/ Exited

Spec == Init /\ [][Next]_vars

\* The loop reads a result batch in which live manager m returns task t.
ReturnTask(m, t) ==
    /\ ProcessManagerMessage
    /\ m \notin mgr_crashed
    /\ t \in mgr_held[m] \ mgr_held'[m]

\* Fairness.  The loop is one thread that never blocks for longer than
\* poll_period, so it keeps taking steps (weak fairness of Loop).  Wall-clock
\* time passes: a poll after which time has elapsed cannot be avoided forever
\* (strong fairness, since it is enabled only at the top of an iteration).
\* The poller does not starve an endpoint (spec 4.1), and a live manager finishes the
\* tasks it holds and sends their results: a live manager's result for t,
\* offered at every read of the manager socket, is read eventually.
\* Heartbeats, drains, registrations, client tasks and commands get no
\* fairness: a manager may fall silent and then looks crashed.
FairSpec ==
    /\ Spec
    /\ WF_vars(Loop)
    /\ SF_vars(\E elapsed \in Age \ {0} : Poll(elapsed))
    /\ \A m \in Managers, t \in Tids : SF_vars(ReturnTask(m, t))

-----------------------------------------------------------------------------
(* Properties.                                                             *)

Entries == [pk : Int, ak : Int, tid : Tids, prio : Priorities \cup {None}]
Records == [tasks : SUBSET Tids, max_capacity : Capacities,
            active : BOOLEAN, draining : BOOLEAN,
            hb_age : Age, idle_since : {IdleStamp, None}]

TypeOK ==
    /\ pc \in {"poll", "command", "task", "manager", "expire_bad",
               "expire_drained", "dispatch_start", "dispatch", "done", "aborted"}
    /\ pending_task_queue \subseteq Entries
    /\ task_counter \in 0 .. NTasks
    /\ DOMAIN ready \subseteq Managers
    /\ \A m \in DOMAIN ready : ready[m] \in Records
    /\ interesting \subseteq Managers /\ shuffled \subseteq Managers
    /\ kill \in BOOLEAN
    /\ delivered \in [Tids -> Nat] /\ vm_failures \in Nat
    /\ mgr_held \in [Managers -> SUBSET Tids]
    /\ mgr_crashed \subseteq mgr_registered
    /\ DOMAIN hub \subseteq Managers
    /\ \A m \in DOMAIN hub : hub[m] \in [active : BOOLEAN, tasks : SUBSET Tids]

\* expire_drained_managers and the dispatch loop index _ready_managers with
\* every interesting manager (a KeyError otherwise): removal from the
\* registry, in either expiry, must also remove the identity from
\* interesting_managers, and the selector's stack must only hold registered
\* managers.
InterestingRegistered ==
    interesting \cup shuffled \subseteq DOMAIN ready

\* Dispatch never assigns a manager more tasks than its max_capacity, however
\* results, holds and drains interleave with the dispatch loop.
CapacityRespected ==
    \A m \in DOMAIN ready : Cardinality(ready[m].tasks) =< ready[m].max_capacity

\* idle_since is None exactly while the manager has outstanding tasks: the
\* result handler must set it when the last task returns and dispatch must
\* clear it.
IdleBookkeeping ==
    \A m \in DOMAIN ready : (ready[m].idle_since = None) <=> (ready[m].tasks # {})

\* A registered manager that could take a task (active, not draining, below
\* max_capacity) is in interesting_managers; otherwise dispatch would never
\* look at it again and queued tasks could wait forever beside free capacity.
FreeCapacityIsInteresting ==
    \A m \in DOMAIN ready :
        (/\ ready[m].active /\ ~ready[m].draining
         /\ Cardinality(ready[m].tasks) < ready[m].max_capacity)
        => m \in interesting

\* Loss semantics: every task received from the client is, at every moment,
\* in exactly one place: the pending queue, the task list of exactly one
\* registered manager, or answered exactly once on results_outgoing (its
\* result forwarded or a ManagerLost failure).  Tasks not yet received have
\* no answer.
InQueue(t) == \E e \in pending_task_queue : e.tid = t
Holders(t) == {m \in DOMAIN ready : t \in ready[m].tasks}

TaskAccounting ==
    \A t \in Tids :
        IF t < task_counter
        THEN (IF InQueue(t) THEN 1 ELSE 0) + Cardinality(Holders(t))
               + delivered[t] = 1
        ELSE delivered[t] = 0

\* A registered manager that dispatch could give a task to.
Eligible(m) ==
    /\ ready[m].active /\ ~ready[m].draining
    /\ Cardinality(ready[m].tasks) < ready[m].max_capacity

\* Work conservation: when an iteration ends, no task waits in the queue
\* while some registered manager could take it.  Registration and results
\* in step 4 must make the manager interesting in time for step 7, and the
\* dispatch loop must fill every eligible manager or empty the queue.
WorkConserving ==
    pc = "poll" => pending_task_queue = {} \/ \A m \in DOMAIN ready : ~Eligible(m)

\* The queue entries that a step takes out of the queue.
Dispatched == pending_task_queue \ pending_task_queue'

\* The spec (section 4.2): a task with a higher numeric priority is
\* dispatched before one with a lower numeric priority.
HigherPriorityFirst ==
    [][\A e \in Dispatched, f \in pending_task_queue' :
          e.prio # None /\ f.prio # None => ~(f.prio > e.prio)]_vars

\* The spec (section 3, invariant 4): once the drained-expiry pass of an
\* iteration has run, no registered manager is draining with no tasks.
DrainedManagerRemoved ==
    pc = "dispatch_start" =>
        \A m \in DOMAIN ready : ~(ready[m].draining /\ ready[m].tasks = {})

\* The interchange implements the task lifecycle of TaskBroker: the queue's
\* task ids are the queued tasks, the union of the managers' task lists the
\* running ones, and the packages sent on results_outgoing the answers.
\* Each batch dispatch, result batch and heartbeat expiry must move tasks
\* forward one stage, never back and never twice.
Broker == INSTANCE TaskBroker WITH
    submitted <- task_counter,
    queued    <- {e.tid : e \in pending_task_queue},
    running   <- UNION {ready[m].tasks : m \in DOMAIN ready},
    answers   <- delivered

BrokerSpec == Broker!Spec

\* With a monitoring radio, the hub's latest NODE_INFO for every registered
\* manager shows its current active flag and task list: every handler that
\* changes either (registration, HOLD_WORKER, a result batch, a dispatch)
\* reports the record after changing it.
MonitoringCurrent ==
    MonitoringEnabled =>
        \A m \in DOMAIN ready : m \in DOMAIN hub /\ hub[m] = Snapshot(ready[m])

\* The spec (section 4.7): the hub never believes a manager active once the
\* interchange no longer has it; registration emits monitoring only on
\* success, and every removal reports active=False.
RemovedReportedInactive ==
    \A m \in DOMAIN hub \ DOMAIN ready : ~hub[m].active

\* The spec (section 9): a monitoring sub-message received while monitoring
\* is disabled is logged and dropped; the loop never aborts on it.
NeverAborts == pc # "aborted"

\* Every task dispatched to a manager is eventually answered on
\* results_outgoing: its result is forwarded when the manager returns it, or,
\* if the manager crashes or stops heartbeating, expire_bad_managers sends a
\* ManagerLost failure for it.
EveryTaskAnswered ==
    \A t \in Tids : Holders(t) # {} ~> delivered[t] > 0

\* A manager that asks to drain while active is eventually removed from the
\* registry (and sent PKL_DRAINED_CODE): once its last task returns, the
\* result handler makes it interesting and expire_drained_managers finds it.
DrainCompletes ==
    \A m \in Managers :
        (Known(m) /\ ready[m].draining /\ ready[m].active) ~> ~Known(m)
=============================================================================
