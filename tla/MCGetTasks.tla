---------------------------- MODULE MCGetTasks ----------------------------
(***************************************************************************)
(* get_tasks checked against the dispatch order Precedes: for every        *)
(* queue the interchange can hold (any subset of the received tasks, each  *)
(* with any priority or none) and every count dispatch can ask for, the    *)
(* tasks popped are the first count tasks of the queue sorted by Precedes. *)
(***************************************************************************)
EXTENDS Integers, FiniteSets, SequencesExt

CONSTANTS Priorities, None, NTasks

INSTANCE PendingTaskQueue

Tids == 0 .. NTasks - 1

VARIABLES
    queue,  \* pending_task_queue when get_tasks is called
    count   \* its argument: min(real_capacity, capacity - len(tasks)) >= 1

gvars == <<queue, count>>

Init ==
    /\ \E present \in SUBSET Tids, prio \in [Tids -> Priorities \cup {None}] :
          queue = {QueueEntry(prio[n], n) : n \in present}
    /\ count \in 1 .. NTasks + 1

\* The inputs do not change: every state is one call of get_tasks.
Next == UNCHANGED gvars

GetTasksSpec == Init /\ [][Next]_gvars

\* Reference: Precedes sorts the queue; get_tasks returns its first count
\* tasks, or all of them when fewer are queued.
ReferenceBatch ==
    LET sorted == SetToSortSeq(queue, Precedes)
    IN  SubSeq(sorted, 1, IF count < Len(sorted) THEN count ELSE Len(sorted))

\* get_tasks (SortedList.pop() from the top of the (-priority, -task_counter)
\* keys, IndexError ending the batch) returns exactly the reference batch,
\* in order: the order in which the manager receives the batch is the
\* dispatch order too.
GetTasksMatchesReference == GetTasks(queue, count) = ReferenceBatch
=============================================================================
